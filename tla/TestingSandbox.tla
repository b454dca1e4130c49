--------------------------- MODULE TestingSandbox ---------------------------
(***************************************************************************)
(* The testing sandbox (server.ts, refund-manager.ts): the middleware of   *)
(* PaymentVerifier with a callback that records the payment for a refund,  *)
(* and an interval that every five seconds takes one entry from the queue  *)
(* and pays it back, whether or not its last runs are over.                *)
(***************************************************************************)
EXTENDS PaymentVerifier

CONSTANTS Runs      \* runs of the interval at one time

VARIABLES
    record,     \* status in the record refund:<signature>
    queue,      \* entries of the payment in refund:queue
    run,        \* processRefund in each run
    refunds     \* transfers sent to the payer

refundVars == <<record, queue, run, refunds>>
sandboxVars == <<store, now, until, check, accepted, doubled, checkFaults,
                 record, queue, run, refunds>>

TypeOK ==
    /\ store \in {"redis", "memory"}
    /\ now \in 0..Horizon /\ until \in 0..(Horizon + Ttl)
    /\ check \in [Calls -> {"idle", "has", "fetch", "add", "verified", "push", "next"}]
    /\ accepted \in Nat /\ queue \in Nat /\ refunds \in Nat
    /\ doubled \in BOOLEAN
    /\ checkFaults \in 0..MaxFaults
    /\ record \in {"none", "pending", "refunded", "failed"}
    /\ run \in [Runs -> {"idle", "get", "find", "send", "confirm", "write", "fail"}]

InitSandbox ==
    /\ Init
    /\ record = "none"
    /\ queue = 0
    /\ run = [r \in Runs |-> "idle"]
    /\ refunds = 0

-----------------------------------------------------------------------------
\* onPaymentVerified: recordPayment, whatever is recorded already

SetRecord(c) ==
    /\ At(c, "verified")
    /\ record' = "pending"
    /\ Goto(c, "push")
    /\ UNCHANGED <<store, now, until, accepted, doubled, checkFaults, queue, run, refunds>>

Push(c) ==
    /\ At(c, "push")
    /\ queue' = queue + 1
    /\ Goto(c, "next")
    /\ UNCHANGED <<store, now, until, accepted, doubled, checkFaults, record, run, refunds>>

-----------------------------------------------------------------------------
\* startRefundProcessor and processRefund

RunStep(r, from, to) ==
    /\ run[r] = from
    /\ run' = [run EXCEPT ![r] = to]
    /\ UNCHANGED verifierVars

\* rpop: the entry is gone, whatever becomes of the refund.
Pop(r) ==
    /\ queue > 0
    /\ RunStep(r, "idle", "get")
    /\ queue' = queue - 1
    /\ UNCHANGED <<record, refunds>>

Get(r) ==
    /\ RunStep(r, "get", IF record = "refunded" THEN "idle" ELSE "find")
    /\ UNCHANGED <<record, queue, refunds>>

\* getTransaction: the payment is found, it is not, or the call throws.
Find(r) ==
    /\ \E to \in {"send", "idle", "fail"} : RunStep(r, "find", to)
    /\ UNCHANGED <<record, queue, refunds>>

\* refundSOL or refundToken: sendAndConfirmTransaction
Send(r) ==
    /\ \/ RunStep(r, "send", "confirm") /\ refunds' = refunds + 1
       \/ RunStep(r, "send", "fail") /\ UNCHANGED refunds
    /\ UNCHANGED <<record, queue>>

Confirm(r) ==
    /\ \E to \in {"write", "fail"} : RunStep(r, "confirm", to)
    /\ UNCHANGED <<record, queue, refunds>>

WriteRefunded(r) ==
    /\ RunStep(r, "write", "idle")
    /\ record' = "refunded"
    /\ UNCHANGED <<queue, refunds>>

WriteFailedAndRequeue(r) ==
    /\ RunStep(r, "fail", "idle")
    /\ record' = "failed"
    /\ queue' = queue + 1
    /\ UNCHANGED refunds

\* A refund that has failed is not tried again, though it may have been paid.
WriteFailed(r) ==
    /\ RunStep(r, "fail", "idle")
    /\ record' = "failed"
    /\ UNCHANGED <<queue, refunds>>

\* Redis throws in the callback, which refuses the call; the command may have been run.
CallbackThrows(c) ==
    /\ \/ At(c, "verified") /\ record' \in {record, "pending"} /\ queue' = queue
       \/ At(c, "push") /\ queue' \in {queue, queue + 1} /\ record' = record
    /\ CheckFault
    /\ Goto(c, "idle")
    /\ UNCHANGED <<store, now, until, accepted, doubled, run, refunds>>

\* Redis throws in a run: an entry may be lost, a refund recorded and then called failed.
RunThrows(r) ==
    /\ CheckFault
    /\ \/ run[r] = "idle" /\ queue > 0 /\ queue' = queue - 1 /\ UNCHANGED <<run, record>>
       \/ /\ run[r] = "write"
          /\ record' \in {record, "refunded"}
          /\ run' = [run EXCEPT ![r] = "fail"]
          /\ queue' = queue
       \/ /\ run[r] \in {"get", "fail"}
          /\ record' \in {record, IF run[r] = "fail" THEN "failed" ELSE record}
          /\ run' = [run EXCEPT ![r] = "idle"]
          /\ queue' = queue
    /\ UNCHANGED <<store, now, until, check, accepted, doubled, refunds>>

RestartSandbox ==
    /\ Restart
    /\ run' = [r \in Runs |-> "idle"]
    /\ UNCHANGED <<record, queue, refunds>>

NextSandbox ==
    \/ \E c \in Calls :
          \/ Verify(c) /\ UNCHANGED refundVars
          \/ SetRecord(c) \/ Push(c) \/ CallbackThrows(c)
    \/ \E r \in Runs :
          Pop(r) \/ Get(r) \/ Find(r) \/ Send(r) \/ Confirm(r) \/ WriteRefunded(r)
             \/ WriteFailed(r) \/ RunThrows(r)
    \/ Tick /\ UNCHANGED refundVars
    \/ RestartSandbox

SpecSandbox == InitSandbox /\ [][NextSandbox]_sandboxVars
-----------------------------------------------------------------------------
\* A payment is paid back at most once for every call that it has bought, however runs
\* overlap and whatever is lost; and what is recorded as refunded was paid back.
RefundsCovered ==
    /\ refunds <= accepted
    /\ record = "refunded" => refunds > 0
=============================================================================
