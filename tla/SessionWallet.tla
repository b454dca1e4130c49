---------------------------- MODULE SessionWallet ----------------------------
(***************************************************************************)
(* A browser's wallet with a spending approval (reasoning/src/core/        *)
(* wallet-adapter.ts): each payment is checked against what was spent when *)
(* it is prepared, and counted when it, or the batch that it is in, has    *)
(* been confirmed.                                                         *)
(***************************************************************************)
EXTENDS Integers, Sequences, FiniteSets, Functions

CONSTANTS
    Calls,              \* executePayment and batchPayments
    Batches,            \* the amounts of each; a sequence of one is executePayment
    maxTotalAmount,
    maxPerTransaction

SessionAssumption ==
    /\ IsFiniteSet(Calls)
    /\ Batches \subseteq Seq(Nat \ {0})
    /\ maxTotalAmount \in Nat /\ maxPerTransaction \in Nat

VARIABLES
    spent,
    payment,    \* each call: its amounts, how many of them are prepared and sent
    expired,    \* expiresAt is past
    uncounted,  \* history: amounts sent by calls that failed afterwards
    parallel    \* history: has a call begun before another was over?

sessionVars == <<spent, payment, expired, uncounted, parallel>>

Total(amounts) == SumFunction(amounts)
Sent(c) == Total(SubSeq(payment[c].amounts, 1, payment[c].sent))

TypeOK ==
    /\ spent \in Nat /\ uncounted \in Nat
    /\ \A c \in Calls :
          /\ payment[c].pc \in {"idle", "check", "sign", "send", "confirm", "paid", "failed"}
          /\ payment[c].amounts \in Batches \cup {<<>>}
          /\ payment[c].checked \in 0..Len(payment[c].amounts)
          /\ payment[c].sent \in 0..payment[c].checked
    /\ expired \in BOOLEAN /\ parallel \in BOOLEAN

Init ==
    /\ spent = 0 /\ uncounted = 0
    /\ payment = [c \in Calls |-> [pc |-> "idle", amounts |-> <<>>, checked |-> 0, sent |-> 0]]
    /\ expired = FALSE /\ parallel = FALSE

At(c, pc) == payment[c].pc = pc
Goto(c, pc) == payment' = [payment EXCEPT ![c].pc = pc]
Under(c) == payment[c].pc \notin {"idle", "paid", "failed"}

-----------------------------------------------------------------------------
Begin(c) ==
    /\ At(c, "idle")
    /\ \E b \in Batches : payment' = [payment EXCEPT ![c].pc = "check", ![c].amounts = b]
    /\ parallel' = (parallel \/ \E d \in Calls \ {c} : Under(d))
    /\ UNCHANGED <<spent, expired, uncounted>>

\* createPaymentTransaction's conditions on an amount
Permitted(amount) ==
    ~expired /\ spent + amount <= maxTotalAmount /\ amount <= maxPerTransaction

\* createPaymentTransaction of the next amount, up to its requests to the chain: what was
\* prepared before it is not in spent.
Prepare(c) ==
    /\ At(c, "check")
    /\ LET next == payment[c].checked + 1
           last == next = Len(payment[c].amounts)
       IN  payment' = IF ~Permitted(payment[c].amounts[next]) THEN [payment EXCEPT ![c].pc = "failed"]
                      ELSE [payment EXCEPT ![c].checked = next, ![c].pc = IF last THEN "sign" ELSE @]
    /\ UNCHANGED <<spent, expired, uncounted, parallel>>

\* signTransaction, signAllTransactions
Sign(c) ==
    /\ At(c, "sign")
    /\ Goto(c, "send")
    /\ UNCHANGED <<spent, expired, uncounted, parallel>>

\* sendRawTransaction, one after the other
Send(c) ==
    /\ At(c, "send")
    /\ LET sent == payment[c].sent + 1
       IN  payment' = [payment EXCEPT ![c].sent = sent,
                                      ![c].pc = IF sent = Len(payment[c].amounts) THEN "confirm" ELSE @]
    /\ UNCHANGED <<spent, expired, uncounted, parallel>>

\* confirmTransaction of all of them
Confirm(c) ==
    /\ At(c, "confirm")
    /\ spent' = spent + Total(payment[c].amounts)
    /\ Goto(c, "paid")
    /\ UNCHANGED <<expired, uncounted, parallel>>

\* The user or the chain refuses: what has been sent is not counted.
Throw(c) ==
    /\ Under(c)
    /\ uncounted' = uncounted + Sent(c)
    /\ Goto(c, "failed")
    /\ UNCHANGED <<spent, expired, parallel>>

Expire ==
    /\ ~expired /\ expired' = TRUE
    /\ UNCHANGED <<spent, payment, uncounted, parallel>>

Next ==
    \/ Expire
    \/ \E c \in Calls : Begin(c) \/ Prepare(c) \/ Sign(c) \/ Send(c) \/ Confirm(c) \/ Throw(c)

Spec == Init /\ [][Next]_sessionVars
-----------------------------------------------------------------------------
\* wallet-adapter.ts: what is spent is what the calls that succeeded have sent. When calls do
\* not overlap it exceeds the approved total by less than a batch, each of whose amounts might
\* have been the last, and not at all without batches; what failed calls have sent comes on top.
ApprovalKept ==
    /\ spent = SumFunction([c \in Calls |-> IF At(c, "paid") THEN Sent(c) ELSE 0])
    /\ uncounted = SumFunction([c \in Calls |-> IF At(c, "failed") THEN Sent(c) ELSE 0])
    /\ spent > maxTotalAmount /\ ~parallel =>
          \E c \in Calls : At(c, "paid") /\ \A i \in DOMAIN payment[c].amounts :
             spent <= maxTotalAmount + Total(payment[c].amounts) - payment[c].amounts[i]
=============================================================================
