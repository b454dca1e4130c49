---------------------------- MODULE EscrowWallet ----------------------------
(***************************************************************************)
(* The escrow accounts of the reasoning engine's users, reasoning/src/core/ *)
(* escrow-wallet.ts: one Redis record per user, and one wallet on the chain *)
(* (the vault) that holds what all of them have paid in.                   *)
(*                                                                         *)
(* Every operation reads the record, awaits something and writes back the  *)
(* copy it has read; nothing locks the record.  One action is what a call  *)
(* does between two awaits.  A call is made once: what the HTTP clients    *)
(* and the workflows call is chosen when it begins.  Amounts are whole     *)
(* numbers of one asset, the least amount the transfers tell apart.        *)
(***************************************************************************)
EXTENDS Integers, FiniteSets

CONSTANTS
    Users,
    Deposits,       \* calls of depositFunds
    Payments,       \* calls of executePayment
    Withdrawals,    \* calls of withdrawFunds
    DepositTxs,     \* transfers that users make to the vault
    Amounts,        \* amounts they deposit, pay and withdraw
    MaxFaults,      \* bound: exceptions, crashes and transfers that fail
    NoUser, NoTx

Senders == Payments \cup Withdrawals
Calls == Deposits \cup Senders

ASSUME WalletAssumption ==
    /\ Deposits \cap Senders = {} /\ Payments \cap Withdrawals = {}
    /\ NoUser \notin Users /\ NoTx \notin DepositTxs
    /\ Amounts \subseteq Nat \ {0} /\ MaxFaults \in Nat
    /\ IsFiniteSet(Users) /\ IsFiniteSet(Calls) /\ IsFiniteSet(DepositTxs)

VARIABLES
    account,    \* the records escrow:<userId>
    call,       \* pc, arguments and copy of the record, for every call
    transfer,   \* what became of a sender's transfer on the chain
    history,    \* the payments in the lists escrow:<userId>:payments
    vault,      \* the balance of the escrow wallet on the chain
    paidIn,     \* what each transfer to the vault has brought; 0: not made yet
    faults

vars == <<account, call, transfer, history, vault, paidIn, faults>>
redis == <<account, history>>
chain == <<transfer, vault, paidIn>>

UserEscrow == [open: BOOLEAN, balance: Nat, spent: Int]
NoEscrow == [open |-> FALSE, balance |-> 0, spent |-> 0]
NewEscrow == [open |-> TRUE, balance |-> 0, spent |-> 0]

\* A call ends as done or as failed; a payment that fails after the deduction is
\* refunded, or lost when that too fails.
Ended == {"done", "failed", "refunded", "lost"}
PC == {"idle", "read", "checked", "ready", "sent", "confirmed", "refund", "refunding"} \cup Ended
Transfer == {"none", "sent", "landed", "rejected", "expired"}
Processed == {"landed", "rejected"}  \* the cluster has executed the transaction
Call == [pc: PC, user: Users \cup {NoUser}, amount: Nat, tx: DepositTxs \cup {NoTx},
         copy: UserEscrow]
NoCall == [pc |-> "idle", user |-> NoUser, amount |-> 0, tx |-> NoTx, copy |-> NoEscrow]

\* Whatever calls do to each other, no balance that they write is negative.
TypeOK ==
    /\ account \in [Users -> UserEscrow]
    /\ call \in [Calls -> Call]
    /\ transfer \in [Senders -> Transfer]
    /\ history \subseteq Payments
    /\ vault \in Nat
    /\ paidIn \in [DepositTxs -> Nat]
    /\ faults \in 0..MaxFaults

Init ==
    /\ account = [u \in Users |-> NoEscrow]
    /\ call = [c \in Calls |-> NoCall]
    /\ transfer = [c \in Senders |-> "none"]
    /\ history = {}
    /\ vault = 0
    /\ paidIn = [x \in DepositTxs |-> 0]
    /\ faults = 0

At(c, pc) == call[c].pc = pc
Busy(c) == call[c].pc \notin {"idle"} \cup Ended
User(c) == call[c].user
Goto(c, pc) == call' = [call EXCEPT ![c].pc = pc]

\* redis.get at the beginning of a call; without a record it throws.
Begin(c, pc, u, amount, tx) ==
    /\ At(c, "idle")
    /\ account[u].open
    /\ call' = [call EXCEPT ![c] = [pc |-> pc, user |-> u, amount |-> amount, tx |-> tx,
                                    copy |-> account[u]]]
    /\ UNCHANGED <<redis, chain, faults>>

\* redis.set of the copy, with what is added to its balance and to its spent
WriteBack(c, balance, spent) ==
    account' = [account EXCEPT ![User(c)] =
                  [call[c].copy EXCEPT !.balance = @ + balance, !.spent = @ + spent]]

\* createUserEscrow does not ask whether there is a record.
Create(u) ==
    /\ account' = [account EXCEPT ![u] = NewEscrow]
    /\ UNCHANGED <<call, history, chain, faults>>

-----------------------------------------------------------------------------
\* depositFunds

\* A transfer the chain does not know, or of another amount, makes it throw; that
\* it was credited before is not remembered.
DepositRead(d, u, x) == paidIn[x] > 0 /\ Begin(d, "read", u, paidIn[x], x)

DepositWrite(d) ==
    /\ At(d, "read")
    /\ WriteBack(d, call[d].amount, 0)
    /\ Goto(d, "done")
    /\ UNCHANGED <<history, chain, faults>>

-----------------------------------------------------------------------------
\* executePayment: deductFunds, the transfer, and refundFunds when that throws

PayReadUnchecked(p, u, a) == Begin(p, "checked", u, a, NoTx)
PayRead(p, u, a) == account[u].balance >= a /\ Begin(p, "checked", u, a, NoTx)

PayDeduct(p) ==
    /\ At(p, "checked")
    /\ WriteBack(p, -call[p].amount, call[p].amount)
    /\ Goto(p, "ready")
    /\ UNCHANGED <<history, chain, faults>>

\* sendTransaction of sendSOLPayment or sendTokenPayment
Send(c) ==
    /\ At(c, "ready")
    /\ transfer' = [transfer EXCEPT ![c] = "sent"]
    /\ Goto(c, "sent")
    /\ UNCHANGED <<redis, vault, paidIn, faults>>

\* confirmTransaction resolves when the cluster has executed the transaction,
\* with an error in the result, which nobody looks at, when it was rejected.
Confirm(c) ==
    /\ At(c, "sent")
    /\ transfer[c] \in Processed
    /\ Goto(c, "confirmed")
    /\ UNCHANGED <<redis, chain, faults>>

\* lpush to the user's payments
PayRecord(p) ==
    /\ At(p, "confirmed")
    /\ history' = history \cup {p}
    /\ Goto(p, "done")
    /\ UNCHANGED <<account, chain, faults>>

RefundReadStale(p) ==
    /\ At(p, "refund")
    /\ Goto(p, "refunding")
    /\ UNCHANGED <<redis, chain, faults>>

RefundRead(p) ==
    /\ At(p, "refund")
    /\ call' = [call EXCEPT ![p].pc = "refunding", ![p].copy = account[User(p)]]
    /\ UNCHANGED <<redis, chain, faults>>

RefundWrite(p) ==
    /\ At(p, "refunding")
    /\ WriteBack(p, call[p].amount, -call[p].amount)
    /\ Goto(p, "refunded")
    /\ UNCHANGED <<history, chain, faults>>

-----------------------------------------------------------------------------
\* withdrawFunds: the record is written after the transfer, from the first copy.

WithdrawRead(w, u, a) == account[u].balance >= a /\ Begin(w, "ready", u, a, NoTx)

WithdrawUnwritten(w) ==
    /\ At(w, "confirmed")
    /\ Goto(w, "done")
    /\ UNCHANGED <<redis, chain, faults>>

WithdrawWrite(w) ==
    /\ At(w, "confirmed")
    /\ WriteBack(w, -call[w].amount, 0)
    /\ Goto(w, "done")
    /\ UNCHANGED <<history, chain, faults>>

-----------------------------------------------------------------------------
\* The chain, and what goes wrong

Fault == faults < MaxFaults /\ faults' = faults + 1

\* A user's transfer to the vault
PayIn(x, a) ==
    /\ paidIn[x] = 0
    /\ paidIn' = [paidIn EXCEPT ![x] = a]
    /\ vault' = vault + a
    /\ UNCHANGED <<redis, call, transfer, faults>>

Executed(c, outcome) ==
    /\ transfer[c] = "sent"
    /\ transfer' = [transfer EXCEPT ![c] = outcome]
    /\ UNCHANGED <<redis, call, paidIn>>

Land(c) ==
    /\ Executed(c, "landed")
    /\ vault >= call[c].amount
    /\ vault' = vault - call[c].amount
    /\ UNCHANGED faults

\* The cluster executes a transaction with an error when the vault is short, and
\* for reasons of its own.
Reject(c) ==
    /\ Executed(c, "rejected")
    /\ IF vault < call[c].amount THEN UNCHANGED faults ELSE Fault
    /\ UNCHANGED vault

Expire(c) == Executed(c, "expired") /\ Fault /\ UNCHANGED vault

\* The call ends without having done what it was to do.
Broken(c) == IF c \in Payments /\ ~At(c, "checked") THEN "lost" ELSE "failed"

CaughtEverywhere(c) ==
    Goto(c, IF c \in Payments /\ call[c].pc \in {"checked", "ready", "sent", "confirmed"}
            THEN "refund" ELSE Broken(c))

\* A payment that has been deducted is refunded, whatever has thrown.
Caught(c) ==
    Goto(c, IF c \in Payments /\ call[c].pc \in {"ready", "sent", "confirmed"}
            THEN "refund" ELSE Broken(c))

\* confirmTransaction throws once the transaction can no longer be executed.
ConfirmExpired(c) ==
    /\ At(c, "sent")
    /\ transfer[c] = "expired"
    /\ Caught(c)
    /\ UNCHANGED <<redis, chain, faults>>

\* A call to Redis or to the RPC node throws: what was sent may still be executed
\* (a call to Redis that throws is taken not to have changed anything).
Throw(c) ==
    /\ Busy(c)
    /\ Caught(c)
    /\ Fault
    /\ UNCHANGED <<redis, chain>>

\* The process dies: only Redis and the chain remain.
Crash ==
    /\ call' = [c \in Calls |-> IF Busy(c) THEN [call[c] EXCEPT !.pc = Broken(c)]
                               ELSE call[c]]
    /\ Fault
    /\ UNCHANGED <<redis, chain>>

DepositStep(d) == (\E u \in Users, x \in DepositTxs : DepositRead(d, u, x)) \/ DepositWrite(d)

PayStep(p) ==
    \/ \E u \in Users, a \in Amounts : PayRead(p, u, a)
    \/ PayDeduct(p) \/ PayRecord(p) \/ RefundRead(p) \/ RefundWrite(p)

WithdrawStep(w) ==
    (\E u \in Users, a \in Amounts : WithdrawRead(w, u, a)) \/ WithdrawWrite(w)

SendStep(c) ==
    Send(c) \/ Confirm(c) \/ ConfirmExpired(c)

ChainStep(c) ==
    Land(c) \/ Reject(c) \/ Expire(c)

Next ==
    \/ \E u \in Users : Create(u)
    \/ \E x \in DepositTxs, a \in Amounts : PayIn(x, a)
    \/ \E d \in Deposits : DepositStep(d)
    \/ \E p \in Payments : PayStep(p)
    \/ \E w \in Withdrawals : WithdrawStep(w)
    \/ \E c \in Senders : SendStep(c) \/ ChainStep(c)
    \/ \E c \in Calls : Throw(c)
    \/ Crash

Spec == Init /\ [][Next]_vars
=============================================================================
