-------------------------- MODULE SettlementLedger --------------------------
(***************************************************************************)
(* What a merchant may expect of settlement: every payment received for    *)
(* the service is paid out once and never a second time.                   *)
(***************************************************************************)
EXTENDS Naturals

CONSTANT Txs

VARIABLES
    received,   \* payments received for the merchant's service
    paidOut     \* how often each has been paid out

vars == <<received, paidOut>>

Init ==
    /\ received = {}
    /\ paidOut = [t \in Txs |-> 0]

Receive(t) ==
    /\ t \notin received
    /\ received' = received \cup {t}
    /\ UNCHANGED paidOut

PayOut(batch) ==
    /\ batch # {}
    /\ \A t \in batch : t \in received /\ paidOut[t] = 0
    /\ paidOut' = [t \in Txs |-> IF t \in batch THEN 1 ELSE paidOut[t]]
    /\ UNCHANGED received

Next ==
    \/ \E t \in Txs : Receive(t)
    \/ \E batch \in SUBSET Txs : PayOut(batch)

Spec == Init /\ [][Next]_vars
=============================================================================
