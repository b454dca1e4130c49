--------------------------- MODULE MerchantClient ---------------------------
(***************************************************************************)
(* The payments that a merchant's server has yet to have settled,          *)
(* service-provider/src/settlement-integration.ts.  Each payment is kept   *)
(* and recorded with the facilitator; enough of them, or a day since the   *)
(* last settlement, make the merchant request one, which settles what the  *)
(* facilitator has recorded; then all that was kept is dropped.            *)
(***************************************************************************)
EXTENDS Integers, FiniteSets

CONSTANTS
    Payments,       \* verified payments, of one amount; each is handled once
    Checks,         \* runs of the hourly check at one time
    Minimum,        \* config.minimumAmount, in payments
    MaxFaults       \* bound: answers of the facilitator that fail or are lost

Callers == Payments \cup Checks

\* calls of one kind only
MerchantAssumption ==
    Payments \cap Checks = {} /\ IsFiniteSet(Payments) /\ Minimum \in Nat /\ MaxFaults \in Nat

VARIABLES
    pending,    \* pendingTransactions
    due,        \* shouldSettleDaily: no settlement for a day, or none at all
    recorded,   \* the facilitator's rows
    settled,    \* those of them that are settled
    worker,     \* where each call is
    crowded,    \* history: payments handled while a request was under way
    merchantFaults

merchantVars == <<pending, due, recorded, settled, worker, crowded, merchantFaults>>

TypeOK ==
    /\ pending \subseteq Payments
    /\ due \in BOOLEAN
    /\ settled \subseteq recorded /\ recorded \subseteq Payments
    /\ worker \in [Callers -> {"idle", "record", "kept", "request", "answered", "done"}]
    /\ crowded \subseteq Payments
    /\ merchantFaults \in 0..MaxFaults

Init ==
    /\ pending = {} /\ recorded = {} /\ settled = {} /\ crowded = {}
    /\ due = TRUE
    /\ worker = [w \in Callers |-> "idle"]
    /\ merchantFaults = 0

At(w, pc) == worker[w] = pc
Goto(w, pc) == worker' = [worker EXCEPT ![w] = pc]
Requesting == \E w \in Callers : worker[w] \in {"request", "answered"}
Handling == {p \in Payments : worker[p] \in {"record", "kept"}}

\* handlePaymentVerified keeps the receipt and records it.
Keep(p) ==
    /\ At(p, "idle")
    /\ pending' = pending \cup {p}
    /\ Goto(p, "record")
    /\ crowded' = IF Requesting THEN crowded \cup {p} ELSE crowded
    /\ UNCHANGED <<due, recorded, settled, merchantFaults>>

Record(p) ==
    /\ At(p, "record")
    /\ recorded' = recorded \cup {p}
    /\ Goto(p, "kept")
    /\ UNCHANGED <<pending, due, settled, crowded, merchantFaults>>

\* requestSettlement
Request(w) ==
    /\ Goto(w, "request")
    /\ crowded' = crowded \cup (Handling \ {w})

Decide(p) ==
    /\ At(p, "kept")
    /\ IF (Cardinality(pending) >= Minimum \/ due) /\ pending # {}
       THEN Request(p)
       ELSE Goto(p, "done") /\ UNCHANGED crowded
    /\ UNCHANGED <<pending, due, recorded, settled, merchantFaults>>

\* The interval, whose run is free for the next hour
Check(c) ==
    /\ At(c, "idle")
    /\ due /\ pending # {}
    /\ Request(c)
    /\ UNCHANGED <<pending, due, recorded, settled, merchantFaults>>

\* what the merchant has kept, and not what the facilitator has recorded
SettlePending(w) ==
    /\ At(w, "request")
    /\ settled' = settled \cup pending
    /\ Goto(w, "answered")
    /\ UNCHANGED <<pending, due, recorded, crowded, merchantFaults>>

\* The facilitator settles what is recorded then; it refuses when nothing is left to settle.
Settle(w) ==
    /\ At(w, "request")
    /\ settled # recorded
    /\ settled' = recorded
    /\ Goto(w, "answered")
    /\ UNCHANGED <<pending, due, recorded, crowded, merchantFaults>>

\* The facilitator's scheduler settles without being asked.
ScheduledSettlement ==
    /\ settled # recorded
    /\ settled' = recorded
    /\ UNCHANGED <<pending, due, recorded, worker, crowded, merchantFaults>>

Return(w) == Goto(w, IF w \in Checks THEN "idle" ELSE "done")

Clear(w) ==
    /\ At(w, "answered")
    /\ pending' = {}
    /\ due' = FALSE
    /\ Return(w)
    /\ UNCHANGED <<recorded, settled, crowded, merchantFaults>>

ADayLater == ~due /\ due' = TRUE
             /\ UNCHANGED <<pending, recorded, settled, worker, crowded, merchantFaults>>

RefusedAndCleared(w) ==
    /\ worker[w] \in {"record", "request", "answered"}
    /\ merchantFaults < MaxFaults
    /\ merchantFaults' = merchantFaults + 1
    /\ pending' = {}
    /\ Return(w)
    /\ UNCHANGED <<due, recorded, settled, crowded>>

\* The facilitator refuses, or fails, or its answer is lost: nothing is dropped, and nobody
\* tries again before the next payment or the next hour.
Refused(w) ==
    /\ worker[w] \in {"record", "request", "answered"}
    /\ \/ At(w, "request") /\ settled = recorded /\ UNCHANGED merchantFaults
       \/ merchantFaults < MaxFaults /\ merchantFaults' = merchantFaults + 1
    /\ \/ UNCHANGED recorded
       \/ At(w, "record") /\ recorded' = recorded \cup {w}
    /\ Return(w)
    /\ UNCHANGED <<pending, due, settled, crowded>>

Next ==
    \/ ADayLater \/ ScheduledSettlement
    \/ \E p \in Payments : Keep(p) \/ Record(p) \/ Decide(p)
    \/ \E c \in Checks : Check(c)
    \/ \E w \in Callers : Settle(w) \/ Clear(w) \/ Refused(w)

Spec == Init /\ [][Next]_merchantVars
-----------------------------------------------------------------------------
\* A payment that the facilitator has recorded is kept until it is settled, unless it
\* was handled while a request was under way: then it may be dropped with the others.
KeptUntilSettled == recorded \subseteq pending \cup settled \cup crowded
=============================================================================
