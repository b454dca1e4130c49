------------------------------ MODULE StreamQuota ------------------------------
(***************************************************************************)
(* The quotas of the gRPC interceptor for Yellowstone streams              *)
(* (integrations/triton/grpc-interceptor): a subscription is checked, then *)
(* sets the client's quota under the lock; every message of the stream is  *)
(* checked and counted under one lock. Money is counted in units of which  *)
(* UnitsPerByte buy a byte; what does not buy a whole one is cut off. The  *)
(* tiers buy bytes at one price and differ in filters, which are not       *)
(* counted.                                                                *)
(***************************************************************************)
EXTENDS Integers, FiniteSetsExt

CONSTANTS
    Clients,        \* TAP keys
    Subscribers,    \* calls at one time
    Deposits,       \* amounts of proofs and top-ups, in units
    Sizes,          \* of messages, in bytes
    UnitsPerByte,   \* 1 / bytes_per_cash
    MaxDeposits     \* bound: deposits

QuotaAssumption ==
    /\ UnitsPerByte \in Nat \ {0} /\ Deposits \subseteq Nat /\ Sizes \subseteq Nat
    /\ MaxDeposits \in Nat

VARIABLES
    quota,      \* the manager's map: no quota, or one of its usages
    subscriber, \* verify_subscription, for each call
    deposited,  \* history: by client, of every proof that was taken and every top-up
    streamed,   \* history: bytes that a client has been let through
    refunded,   \* history: by client
    replaced,   \* history: bytes a client still had when it subscribed again
    deposits

quotaVars == <<quota, subscriber, deposited, streamed, refunded, replaced, deposits>>

Usage == [total : Nat, used : Nat, remaining : Nat, deposit : Nat]
NoSubscription == [pc |-> "idle", client |-> {}, amount |-> 0]

TypeOK ==
    /\ \A c \in Clients : quota[c] = {} \/ \E u \in quota[c] : u \in Usage /\ quota[c] = {u}
    /\ subscriber \in [Subscribers -> [pc : {"idle", "pay", "quota"}, client : SUBSET Clients,
                                       amount : Deposits \cup {0}]]
    /\ {deposited, streamed, refunded, replaced} \subseteq [Clients -> Nat]
    /\ deposits \in 0..MaxDeposits

Init ==
    /\ quota = [c \in Clients |-> {}]
    /\ subscriber = [s \in Subscribers |-> NoSubscription]
    /\ deposited = [c \in Clients |-> 0] /\ streamed = [c \in Clients |-> 0]
    /\ refunded = [c \in Clients |-> 0] /\ replaced = [c \in Clients |-> 0]
    /\ deposits = 0

Bytes(units) == units \div UnitsPerByte
Return(s) == subscriber' = [subscriber EXCEPT ![s] = NoSubscription]
Add(f, c, n) == [f EXCEPT ![c] = @ + n]

-----------------------------------------------------------------------------
\* verify_metadata: the signature has not expired and the key is known.
Identify(s) ==
    /\ subscriber[s].pc = "idle"
    /\ \E c \in Clients :
          subscriber' = [subscriber EXCEPT ![s] = [pc |-> "pay", client |-> {c}, amount |-> 0]]
    /\ UNCHANGED <<quota, deposited, streamed, refunded, replaced, deposits>>

\* verify_payment: the transaction transfers what the proof says, or not. Nothing
\* remembers the signature.
VerifyPayment(s) ==
    /\ subscriber[s].pc = "pay"
    /\ \/ Return(s)
       \/ \E a \in Deposits :
             subscriber' = [subscriber EXCEPT ![s].pc = "quota", ![s].amount = a]
    /\ UNCHANGED <<quota, deposited, streamed, refunded, replaced, deposits>>

\* initialize_quota, in the place of one that is there
Initialize(s) ==
    /\ subscriber[s].pc = "quota"
    /\ deposits < MaxDeposits
    /\ LET bytes == Bytes(subscriber[s].amount)
       IN  \E c \in subscriber[s].client :
              /\ quota' = [quota EXCEPT ![c] = {[total |-> bytes, used |-> 0, remaining |-> bytes,
                                                 deposit |-> subscriber[s].amount]}]
              /\ deposited' = Add(deposited, c, subscriber[s].amount)
              /\ replaced' = Add(replaced, c, MapThenSumSet(LAMBDA u : u.remaining, quota[c]))
    /\ deposits' = deposits + 1
    /\ Return(s)
    /\ UNCHANGED <<streamed, refunded>>

\* check_quota: has_quota and consume_quota, under one write lock
Stream(c, size) ==
    \E u \in quota[c] :
        /\ u.remaining >= size
        /\ quota' = [quota EXCEPT ![c] = {[u EXCEPT !.used = @ + size, !.remaining = @ - size]}]
        /\ streamed' = Add(streamed, c, size)
        /\ UNCHANGED <<subscriber, deposited, refunded, replaced, deposits>>

TopUp(c, amount) ==
    \E u \in quota[c] :
        /\ deposits < MaxDeposits
        /\ quota' = [quota EXCEPT ![c] = {[u EXCEPT !.total = @ + Bytes(amount),
                                                    !.remaining = @ + Bytes(amount),
                                                    !.deposit = @ + amount]}]
        /\ deposited' = Add(deposited, c, amount)
        /\ deposits' = deposits + 1
        /\ UNCHANGED <<subscriber, streamed, refunded, replaced>>

\* refund: what remains, of a quota that is removed
Refund(c) ==
    \E u \in quota[c] :
        /\ refunded' = Add(refunded, c, u.remaining * UnitsPerByte)
        /\ quota' = [quota EXCEPT ![c] = {}]
        /\ UNCHANGED <<subscriber, deposited, streamed, replaced, deposits>>

Next ==
    \/ \E s \in Subscribers : Identify(s) \/ VerifyPayment(s) \/ Initialize(s)
    \/ \E c \in Clients :
          \/ \E size \in Sizes : Stream(c, size)
          \/ \E amount \in Deposits : TopUp(c, amount)
          \/ Refund(c)

Spec == Init /\ [][Next]_quotaVars
-----------------------------------------------------------------------------
\* What a client has streamed, has left, was refunded and has lost by subscribing again is
\* what it has deposited, but for less than a byte for every deposit.
QuotaConserved ==
    \A c \in Clients :
        LET left == MapThenSumSet(LAMBDA u : u.remaining, quota[c])
            given == (streamed[c] + left + replaced[c]) * UnitsPerByte + refunded[c]
        IN  /\ given <= deposited[c]
            /\ deposited[c] - given <= deposits * (UnitsPerByte - 1)
            /\ \A u \in quota[c] : u.used + u.remaining = u.total /\ u.total <= Bytes(u.deposit)
=============================================================================
