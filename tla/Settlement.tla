----------------------------- MODULE Settlement -----------------------------
(***************************************************************************)
(* Paying merchants out of the facilitator's treasury: the handlers of     *)
(* POST /api/settlement/request and /cancel (routes/settlement.ts), the    *)
(* recording of transactions (routes/transactions.ts) and the cron jobs of *)
(* services/settlement-scheduler.ts, over one database and one chain.      *)
(*                                                                         *)
(* One action is what a handler does between two awaits.  The model is of  *)
(* one service and its merchant: both selections are by service.  Every    *)
(* transaction has the same amount, so an amount is a number of            *)
(* transactions; the platform fee scales all of them alike and is left out.*)
(***************************************************************************)
EXTENDS Integers, FiniteSets

CONSTANTS
    Txs,            \* payments the service may record
    Requests,       \* concurrent executions of /api/settlement/request
    Runs,           \* concurrent executions of the service's cron job
    Settlements,    \* ids of Settlement rows
    MinCount,       \* minimumAmount of the schedule, in transactions
    MaxFaults,      \* bound: exceptions, crashes and transfers that fail
    NoSettlement

Handlers == Requests \cup Runs

ASSUME SettlementAssumption ==
    /\ Requests \cap Runs = {}
    /\ NoSettlement \notin Settlements
    /\ MinCount \in Nat /\ MaxFaults \in Nat

VARIABLES
    recorded,    \* Transaction rows with status confirmed
    settledBy,   \* settlementId of a row; NoSettlement while settledAt is null
    status,      \* status of the Settlement rows; "none": no such row yet
    covers,      \* the transactions whose amounts a settlement pays
    transfer,    \* what became of a settlement's token transfer on the chain
    handler,     \* pc and local variables of the executions
    cancelling,  \* settlements that a /cancel has read as pending
    notified,    \* settlements whose merchant was sent settlement.completed
    faults

vars == <<recorded, settledBy, status, covers, transfer, handler, cancelling,
          notified, faults>>
database == <<recorded, settledBy, status, covers>>

Status == {"none", "pending", "completed", "failed", "cancelled"}
Transfer == {"none", "sent", "paid", "rejected", "expired"}
Processed == {"paid", "rejected"}  \* the cluster has executed the transaction
PC == {"idle", "read", "checked", "created", "sent", "confirmed", "completed", "failing"}
\* ids: what the first findMany found; due: what the settlement is to pay
Handler == [pc: PC, ids: SUBSET Txs, due: SUBSET Txs,
            sid: Settlements \cup {NoSettlement}]
Idle == [pc |-> "idle", ids |-> {}, due |-> {}, sid |-> NoSettlement]

TypeOK ==
    /\ recorded \subseteq Txs
    /\ settledBy \in [Txs -> Settlements \cup {NoSettlement}]
    /\ status \in [Settlements -> Status]
    /\ covers \in [Settlements -> SUBSET Txs]
    /\ transfer \in [Settlements -> Transfer]
    /\ handler \in [Handlers -> Handler]
    /\ cancelling \subseteq Settlements
    /\ notified \subseteq Settlements
    /\ faults \in 0..MaxFaults

Init ==
    /\ recorded = {}
    /\ settledBy = [t \in Txs |-> NoSettlement]
    /\ status = [s \in Settlements |-> "none"]
    /\ covers = [s \in Settlements |-> {}]
    /\ transfer = [s \in Settlements |-> "none"]
    /\ handler = [h \in Handlers |-> Idle]
    /\ cancelling = {} /\ notified = {}
    /\ faults = 0

Settled(t) == settledBy[t] # NoSettlement
UnsettledUnfiltered == recorded
Unsettled == {t \in recorded : ~Settled(t)}

At(h, pc) == handler[h].pc = pc
Sid(h) == handler[h].sid
Goto(h, pc) == handler' = [handler EXCEPT ![h].pc = pc]
Stop(h) == handler' = [handler EXCEPT ![h] = Idle]

\* POST /api/transactions/record of a new signature
Record(t) ==
    /\ t \notin recorded
    /\ recorded' = recorded \cup {t}
    /\ UNCHANGED <<settledBy, status, covers, transfer, handler, cancelling,
                   notified, faults>>

-----------------------------------------------------------------------------
\* What requests and cron runs have in common

\* findMany of what is confirmed and not settled; nothing found: error or return
Read(h) ==
    /\ At(h, "idle")
    /\ Unsettled # {}
    /\ h \in Runs => Cardinality(Unsettled) >= MinCount
    /\ handler' = [handler EXCEPT ![h].pc = "read", ![h].ids = Unsettled,
                                  ![h].due = Unsettled]
    /\ UNCHANGED <<database, transfer, cancelling, notified, faults>>

\* cuid() gives a new row an id that no other has; which one does not matter.
FreshIds == {s \in Settlements : status[s] = "none"}

CreateDone(h) ==
    LET s == CHOOSE s \in FreshIds : TRUE IN
    /\ At(h, IF h \in Runs THEN "checked" ELSE "read")
    /\ FreshIds # {}
    /\ status' = [status EXCEPT ![s] = "processing"]
    /\ covers' = [covers EXCEPT ![s] = handler[h].due]
    /\ handler' = [handler EXCEPT ![h].pc = "created", ![h].sid = s]
    /\ UNCHANGED <<recorded, settledBy, transfer, cancelling, notified, faults>>

\* settlement.create with status pending and the sum of the transactions paid
Create(h) ==
    LET s == CHOOSE s \in FreshIds : TRUE IN
    /\ At(h, IF h \in Runs THEN "checked" ELSE "read")
    /\ FreshIds # {}
    /\ status' = [status EXCEPT ![s] = "pending"]
    /\ covers' = [covers EXCEPT ![s] = handler[h].due]
    /\ handler' = [handler EXCEPT ![h].pc = "created", ![h].sid = s]
    /\ UNCHANGED <<recorded, settledBy, transfer, cancelling, notified, faults>>

\* sendTransaction, sendRawTransaction
Send(h) ==
    /\ At(h, "created")
    /\ transfer' = [transfer EXCEPT ![Sid(h)] = "sent"]
    /\ Goto(h, "sent")
    /\ UNCHANGED <<database, cancelling, notified, faults>>

ConfirmAtOnce(h) ==
    /\ At(h, "sent")
    /\ Goto(h, "confirmed")
    /\ UNCHANGED <<database, transfer, cancelling, notified, faults>>

CaughtNowhere(h) == UNCHANGED handler

\* An exception: the request answers 500 and leaves its settlement as it is; a run
\* that has created one, and has not committed, goes on to mark it failed.
Caught(h) ==
    IF h \in Runs /\ handler[h].pc \in {"created", "sent", "confirmed"}
    THEN Goto(h, "failing")
    ELSE Stop(h)

\* confirmTransaction throws once the transaction can no longer be executed.
ConfirmExpired(h) ==
    /\ At(h, "sent")
    /\ transfer[Sid(h)] = "expired"
    /\ Caught(h)
    /\ UNCHANGED <<database, transfer, cancelling, notified, faults>>

\* confirmTransaction resolves when the cluster has executed the transaction,
\* with an error in the result, which nobody looks at, when it was rejected.
Confirm(h) ==
    /\ At(h, "sent")
    /\ transfer[Sid(h)] \in Processed
    /\ Goto(h, "confirmed")
    /\ UNCHANGED <<database, transfer, cancelling, notified, faults>>

-----------------------------------------------------------------------------
\* POST /api/settlement/request: two updates, one after the other

\* settlement.update does not ask whether the row is still pending.
Complete(h) ==
    /\ At(h, "confirmed")
    /\ status' = [status EXCEPT ![Sid(h)] = "completed"]
    /\ Goto(h, "completed")
    /\ UNCHANGED <<recorded, settledBy, covers, transfer, cancelling, notified, faults>>

Marked(h) == [t \in Txs |-> IF t \in handler[h].ids THEN Sid(h) ELSE settledBy[t]]

\* transaction.updateMany of the ids that were read
Mark(h) ==
    /\ At(h, "completed")
    /\ settledBy' = Marked(h)
    /\ Stop(h)
    /\ UNCHANGED <<recorded, status, covers, transfer, cancelling, notified, faults>>

-----------------------------------------------------------------------------
\* A cron run: executeSettlement reads again, and pays what is still unsettled
\* but marks everything the first read found.

Check(h) ==
    LET still == handler[h].ids \cap Unsettled IN
    /\ At(h, "read")
    /\ IF still = {} THEN Stop(h)
       ELSE handler' = [handler EXCEPT ![h].pc = "checked", ![h].due = still]
    /\ UNCHANGED <<database, transfer, cancelling, notified, faults>>

\* prisma.$transaction: both updates at once
Commit(h) ==
    /\ At(h, "confirmed")
    /\ status' = [status EXCEPT ![Sid(h)] = "completed"]
    /\ settledBy' = Marked(h)
    /\ Goto(h, "completed")
    /\ UNCHANGED <<recorded, covers, transfer, cancelling, notified, faults>>

\* notifyMerchant; its webhook is the business of WebhookDelivery
Notify(h) ==
    /\ At(h, "completed")
    /\ notified' = notified \cup {Sid(h)}
    /\ Stop(h)
    /\ UNCHANGED <<database, transfer, cancelling, faults>>

\* The catch block after settlement.create
Fail(h) ==
    /\ At(h, "failing")
    /\ status' = [status EXCEPT ![Sid(h)] = "failed"]
    /\ Stop(h)
    /\ UNCHANGED <<recorded, settledBy, covers, transfer, cancelling, notified, faults>>

-----------------------------------------------------------------------------
\* POST /api/settlement/cancel: the status is checked, then written

CancelRead(s) ==
    /\ status[s] = "pending"
    /\ s \notin cancelling
    /\ cancelling' = cancelling \cup {s}
    /\ UNCHANGED <<database, transfer, handler, notified, faults>>

CancelWrite(s) ==
    /\ s \in cancelling
    /\ status' = [status EXCEPT ![s] = "cancelled"]
    /\ cancelling' = cancelling \ {s}
    /\ UNCHANGED <<recorded, settledBy, covers, transfer, handler, notified, faults>>

-----------------------------------------------------------------------------
\* The chain, and what goes wrong

Fault == faults < MaxFaults /\ faults' = faults + 1

Pay(s) ==
    /\ transfer[s] = "sent"
    /\ transfer' = [transfer EXCEPT ![s] = "paid"]
    /\ UNCHANGED <<database, handler, cancelling, notified, faults>>

\* The cluster executes the transaction with an error, or never executes it.
Lose(s) ==
    /\ transfer[s] = "sent"
    /\ \E what \in {"rejected", "expired"} : transfer' = [transfer EXCEPT ![s] = what]
    /\ Fault
    /\ UNCHANGED <<database, handler, cancelling, notified>>

\* A call throws: an RPC or database error, or a confirmation that does not come
\* in time, which says nothing of whether the transfer will be executed (a
\* database call that throws is taken not to have changed anything).
Throw(h) ==
    /\ ~At(h, "idle")
    /\ Caught(h)
    /\ Fault
    /\ UNCHANGED <<database, transfer, cancelling, notified>>

\* The process dies: only the database and the chain remain.
Crash ==
    /\ handler' = [h \in Handlers |-> Idle]
    /\ cancelling' = {}
    /\ Fault
    /\ UNCHANGED <<database, transfer, notified>>

RequestStep(h) ==
    \/ Read(h) \/ Create(h) \/ Send(h) \/ Confirm(h) \/ ConfirmExpired(h)
    \/ Complete(h) \/ Mark(h)

RunStep(h) ==
    \/ Read(h) \/ Check(h) \/ Create(h) \/ Send(h) \/ Confirm(h) \/ ConfirmExpired(h)
    \/ Commit(h) \/ Notify(h) \/ Fail(h)

ChainStep == \E s \in Settlements : Pay(s) \/ Lose(s)
Cancel == \E s \in Settlements : CancelRead(s) \/ CancelWrite(s)

Next ==
    \/ \E t \in Txs : Record(t)
    \/ \E h \in Requests : RequestStep(h)
    \/ \E h \in Runs : RunStep(h)
    \/ \E h \in Handlers : Throw(h)
    \/ ChainStep
    \/ Cancel
    \/ Crash

Spec == Init /\ [][Next]_vars

\* A handler that is not waiting for anything goes on, cron fires again and
\* again, and the cluster executes what it was sent.
Fairness ==
    /\ \A h \in Requests : WF_vars(RequestStep(h) /\ ~At(h, "idle"))
    /\ \A h \in Runs : WF_vars(RunStep(h))
    /\ \A s \in Settlements : WF_vars(Pay(s))

FairSpec == Spec /\ Fairness

-----------------------------------------------------------------------------
\* Properties

\* A transaction counts as settled only after a transfer that contained its
\* amount was executed by the cluster, and the settlement it names was executed
\* and reached completed; neither a failed settlement nor one that a crash left
\* pending has settled anything.
SettledWasPaid ==
    \A t \in Txs : Settled(t) =>
        /\ status[settledBy[t]] \in {"completed", "cancelled"}
        /\ transfer[settledBy[t]] \in Processed
        /\ \E s \in Settlements : t \in covers[s] /\ transfer[s] \in Processed

\* settlement.completed goes out only for settlements that were executed, and
\* when nothing that they paid for is, or ever becomes again, unsettled.
NotifiedWasSettled ==
    \A s \in notified : transfer[s] \in Processed /\ \A t \in covers[s] : Settled(t)

\* Enough unsettled payments for the schedule are settled eventually, whatever
\* the (boundedly many) exceptions and crashes on the way.
AutomaticSettlement ==
    Cardinality(Unsettled) >= MinCount ~> Cardinality(Unsettled) < MinCount

Payments(t) == {s \in Settlements : t \in covers[s] /\ transfer[s] = "paid"}

\* Only pending settlements can be cancelled: a completed one stays completed.
CancelOnlyPending ==
    [][\A s \in Settlements : status[s] = "completed" => status'[s] = "completed"]_vars
=============================================================================
