-------------------------- MODULE EscrowWalletProofs --------------------------
(***************************************************************************)
(* EscrowWallet's type correctness, with balances in Nat, for any number   *)
(* of users and calls, any interleaving and any faults; and that it        *)
(* implements EscrowAccount when users take turns.                         *)
(*                                                                         *)
(* Why balances stay in Nat although a record may have changed since it    *)
(* was read: what is written back comes from the copy alone, and a copy    *)
(* from which an amount is to be taken had that amount when it was read    *)
(* (Enough).                                                               *)
(*                                                                         *)
(* Why the accounts of users who take turns are honoured: a call has the   *)
(* account to itself, so its copy is the record as it is (Current), and    *)
(* moves the sums of its user by what its own shares change (CallMoves).   *)
(*                                                                         *)
(* At the end EscrowAccount by itself, with variables of its own.          *)
(***************************************************************************)
EXTENDS MCEscrowWallet, SumTheorems

\* A call has a user, and the copy it will take its amount from has that amount.
Enough(c) ==
    /\ ~At(c, "idle") => User(c) \in Users
    /\ At(c, "checked") => call[c].copy.balance >= call[c].amount
    /\ c \in Withdrawals /\ call[c].pc \in {"ready", "sent", "confirmed"} =>
          call[c].copy.balance >= call[c].amount

IInv ==
    /\ TypeOK
    /\ \A c \in Calls : Enough(c)

\* Writing back a copy that has the amount which is taken from it
LEMMA WriteBackType ==
    ASSUME IInv, NEW c \in Calls, Busy(c), NEW b \in Int, NEW s \in Int,
           call[c].copy.balance + b >= 0, WriteBack(c, b, s)
    PROVE  account' \in [Users -> UserEscrow]
<1>1. User(c) \in Users
  BY DEF IInv, Enough, Busy, At
<1>2. call[c].copy \in UserEscrow
  BY DEF IInv, TypeOK, Call
<1>3. [call[c].copy EXCEPT !.balance = @ + b, !.spent = @ + s] \in UserEscrow
  <2> DEFINE copy == call[c].copy
  <2>1. copy \in UserEscrow /\ copy.balance + b \in Nat /\ copy.spent + s \in Int
    BY <1>2 DEF UserEscrow
  <2> HIDE DEF copy
  <2>2. [copy EXCEPT !.balance = @ + b, !.spent = @ + s] \in UserEscrow
    BY <2>1 DEF UserEscrow
  <2> QED
    BY <2>2 DEF copy
<1> QED
  BY <1>1, <1>3 DEF IInv, TypeOK, WriteBack

\* A call that goes on, or ends, and keeps its arguments and its copy
LEMMA GotoInductive ==
    ASSUME IInv, NEW c \in Calls, ~At(c, "idle"), NEW pc \in PC \ {"checked"},
           c \in Withdrawals /\ pc \in {"ready", "sent", "confirmed"} =>
              call[c].pc \in {"ready", "sent", "confirmed"},
           Goto(c, pc)
    PROVE  call' \in [Calls -> Call] /\ \A d \in Calls : Enough(d)'
<1> USE DEF IInv, Goto, At
<1>1. call' \in [Calls -> Call]
  BY DEF TypeOK, Call
<1>2. ASSUME NEW d \in Calls PROVE Enough(d)'
  BY <1>2 DEF TypeOK, Call, Enough, User, PC, Ended
<1> QED
  BY <1>1, <1>2

LEMMA BeginInductive ==
    ASSUME IInv, NEW c \in Calls, NEW u \in Users, NEW a \in Nat,
           NEW x \in DepositTxs \cup {NoTx}, NEW pc \in {"read", "checked", "ready"},
           c \in Senders => account[u].balance >= a,
           pc = "checked" => c \in Senders,
           Begin(c, pc, u, a, x)
    PROVE  IInv'
<1> DEFINE begun == [pc |-> pc, user |-> u, amount |-> a, tx |-> x, copy |-> account[u]]
<1>1. begun \in Call
  BY DEF IInv, TypeOK, Call, PC
<1>2. call' = [call EXCEPT ![c] = begun]
  BY DEF Begin
<1>3. TypeOK'
  BY <1>1, <1>2 DEF IInv, TypeOK, Begin, redis, chain
<1>4. ASSUME NEW d \in Calls PROVE Enough(d)'
  <2>1. CASE d = c
    BY <1>2, <2>1 DEF IInv, TypeOK, Enough, At, User, Senders
  <2>2. CASE d # c
    BY <1>2, <1>4, <2>2 DEF IInv, TypeOK, Enough, At, User
  <2> QED
    BY <2>1, <2>2
<1> QED
  BY <1>3, <1>4 DEF IInv

-----------------------------------------------------------------------------
\* One lemma per group of actions

LEMMA DepositInductive == ASSUME IInv, NEW d \in Deposits, DepositStep(d) PROVE IInv'
<1>1. d \in Calls /\ d \notin Senders
  BY WalletAssumption DEF Calls
<1>2. ASSUME NEW u \in Users, NEW x \in DepositTxs, DepositRead(d, u, x) PROVE IInv'
  <2>1. paidIn[x] \in Nat
    BY DEF IInv, TypeOK
  <2> QED
    BY <1>1, <1>2, <2>1, BeginInductive DEF DepositRead
<1>3. CASE DepositWrite(d)
  <2>1. call[d].amount \in Nat /\ call[d].copy.balance \in Nat
    BY <1>1 DEF IInv, TypeOK, Call, UserEscrow
  <2>2. account' \in [Users -> UserEscrow]
    BY <1>1, <1>3, <2>1, WriteBackType DEF DepositWrite, At, Busy, Ended
  <2>3. call' \in [Calls -> Call] /\ \A c \in Calls : Enough(c)'
    BY <1>1, <1>3, GotoInductive DEF DepositWrite, At, PC, Ended
  <2> QED
    BY <1>3, <2>2, <2>3 DEF IInv, TypeOK, DepositWrite, chain
<1> QED
  BY <1>2, <1>3 DEF DepositStep

LEMMA PayInductive == ASSUME IInv, NEW p \in Payments, PayStep(p) PROVE IInv'
<1>1. p \in Calls /\ p \in Senders /\ p \notin Withdrawals
  BY WalletAssumption DEF Calls, Senders
<1>2. /\ call[p].amount \in Nat
      /\ call[p].copy.balance \in Nat
  BY <1>1 DEF IInv, TypeOK, Call, UserEscrow
<1>3. ASSUME NEW u \in Users, NEW a \in Amounts, PayRead(p, u, a) PROVE IInv'
  BY <1>1, <1>3, BeginInductive, WalletAssumption DEF PayRead
<1>4. CASE PayDeduct(p)
  <2>1. call[p].copy.balance + (-call[p].amount) >= 0
    BY <1>1, <1>2, <1>4 DEF IInv, Enough, PayDeduct
  <2>2. account' \in [Users -> UserEscrow]
    BY <1>1, <1>2, <1>4, <2>1, WriteBackType DEF PayDeduct, At, Busy, Ended
  <2>3. call' \in [Calls -> Call] /\ \A c \in Calls : Enough(c)'
    BY <1>1, <1>4, GotoInductive DEF PayDeduct, At, PC
  <2> QED
    BY <1>4, <2>2, <2>3 DEF IInv, TypeOK, PayDeduct, chain
<1>5. CASE PayRecord(p)
  <2>1. call' \in [Calls -> Call] /\ \A c \in Calls : Enough(c)'
    BY <1>1, <1>5, GotoInductive DEF PayRecord, At, PC, Ended
  <2> QED
    BY <1>5, <2>1 DEF IInv, TypeOK, PayRecord, chain
<1>6. CASE RefundRead(p)
  <2>1. call' \in [Calls -> Call]
    <3>1. account[User(p)] \in UserEscrow
      BY <1>1, <1>6 DEF IInv, TypeOK, Enough, RefundRead, At
    <3> QED
      BY <1>1, <1>6, <3>1 DEF IInv, TypeOK, Call, PC, RefundRead
  <2>2. ASSUME NEW c \in Calls PROVE Enough(c)'
    BY <1>1, <1>6, <2>2 DEF IInv, TypeOK, Call, Enough, At, User, RefundRead
  <2> QED
    BY <1>6, <2>1, <2>2 DEF IInv, TypeOK, RefundRead, redis, chain
<1>7. CASE RefundWrite(p)
  <2>1. account' \in [Users -> UserEscrow]
    BY <1>1, <1>2, <1>7, WriteBackType DEF RefundWrite, At, Busy, Ended
  <2>2. call' \in [Calls -> Call] /\ \A c \in Calls : Enough(c)'
    BY <1>1, <1>7, GotoInductive DEF RefundWrite, At, PC, Ended
  <2> QED
    BY <1>7, <2>1, <2>2 DEF IInv, TypeOK, RefundWrite, chain
<1> QED
  BY <1>3, <1>4, <1>5, <1>6, <1>7 DEF PayStep

LEMMA WithdrawInductive == ASSUME IInv, NEW w \in Withdrawals, WithdrawStep(w) PROVE IInv'
<1>1. w \in Calls /\ w \in Senders
  BY DEF Calls, Senders
<1>2. ASSUME NEW u \in Users, NEW a \in Amounts, WithdrawRead(w, u, a) PROVE IInv'
  BY <1>1, <1>2, BeginInductive, WalletAssumption DEF WithdrawRead
<1>3. CASE WithdrawWrite(w)
  <2>1. /\ call[w].amount \in Nat
        /\ call[w].copy.balance \in Nat
        /\ call[w].copy.balance + (-call[w].amount) >= 0
    BY <1>1, <1>3 DEF IInv, TypeOK, Call, UserEscrow, Enough, WithdrawWrite, At
  <2>2. account' \in [Users -> UserEscrow]
    BY <1>1, <1>3, <2>1, WriteBackType DEF WithdrawWrite, At, Busy, Ended
  <2>3. call' \in [Calls -> Call] /\ \A c \in Calls : Enough(c)'
    BY <1>1, <1>3, GotoInductive DEF WithdrawWrite, At, PC, Ended
  <2> QED
    BY <1>3, <2>2, <2>3 DEF IInv, TypeOK, WithdrawWrite, chain
<1> QED
  BY <1>2, <1>3 DEF WithdrawStep

\* The record and its copies are not touched.
LEMMA SendInductive == ASSUME IInv, NEW c \in Senders, SendStep(c) PROVE IInv'
<1>1. c \in Calls
  BY DEF Calls
<1>2. CASE Send(c)
  <2>1. call' \in [Calls -> Call] /\ \A d \in Calls : Enough(d)'
    BY <1>1, <1>2, GotoInductive DEF Send, At, PC
  <2>2. transfer' \in [Senders -> Transfer]
    BY <1>2 DEF IInv, TypeOK, Transfer, Send
  <2> QED
    BY <1>2, <2>1, <2>2 DEF IInv, TypeOK, Send, redis
<1>3. CASE Confirm(c)
  <2>1. call' \in [Calls -> Call] /\ \A d \in Calls : Enough(d)'
    BY <1>1, <1>3, GotoInductive DEF Confirm, At, PC
  <2> QED
    BY <1>3, <2>1 DEF IInv, TypeOK, Confirm, redis, chain
<1>4. CASE ConfirmExpired(c)
  <2>1. call' \in [Calls -> Call] /\ \A d \in Calls : Enough(d)'
    BY <1>1, <1>4, GotoInductive DEF ConfirmExpired, Caught, Broken, At, PC, Ended
  <2> QED
    BY <1>4, <2>1 DEF IInv, TypeOK, ConfirmExpired, redis, chain
<1> QED
  BY <1>2, <1>3, <1>4 DEF SendStep

LEMMA ChainInductive == ASSUME IInv, NEW c \in Senders, ChainStep(c) PROVE IInv'
<1>1. c \in Calls
  BY DEF Calls
<1>2. call[c].amount \in Nat /\ vault \in Nat
  BY <1>1 DEF IInv, TypeOK, Call
<1>3. transfer' \in [Senders -> Transfer] /\ vault' \in Nat /\ faults' \in 0..MaxFaults
  BY <1>2, WalletAssumption
  DEF IInv, TypeOK, Transfer, ChainStep, Land, Reject, Expire, Executed, Fault
<1>4. UNCHANGED <<account, history, call, paidIn>>
  BY DEF ChainStep, Land, Reject, Expire, Executed, redis
<1>5. ASSUME NEW d \in Calls PROVE Enough(d)'
  BY <1>4, <1>5 DEF IInv, Enough, At, User
<1> QED
  BY <1>3, <1>4, <1>5 DEF IInv, TypeOK

LEMMA ThrowInductive == ASSUME IInv, NEW c \in Calls, Throw(c) PROVE IInv'
<1>1. call' \in [Calls -> Call] /\ \A d \in Calls : Enough(d)'
  BY GotoInductive DEF Throw, Caught, Broken, Busy, At, PC, Ended
<1> QED
  BY <1>1, WalletAssumption DEF IInv, TypeOK, Throw, Fault, redis, chain

LEMMA CrashInductive == ASSUME IInv, Crash PROVE IInv'
<1>1. \A c \in Calls : call'[c] = IF Busy(c) THEN [call[c] EXCEPT !.pc = Broken(c)] ELSE call[c]
  BY DEF Crash
<1>2. \A c \in Calls : Broken(c) \in {"lost", "failed"}
  BY DEF Broken
<1>3. call' \in [Calls -> Call]
  BY <1>2 DEF IInv, TypeOK, Call, PC, Ended, Crash
<1>4. ASSUME NEW c \in Calls PROVE Enough(c)'
  BY <1>1, <1>2, <1>4 DEF IInv, TypeOK, Call, Enough, At, User, Busy
<1> QED
  BY <1>3, <1>4, WalletAssumption DEF IInv, TypeOK, Crash, Fault, redis, chain

LEMMA InitIInv == Init => IInv
BY WalletAssumption
DEF Init, IInv, TypeOK, Enough, At, NoCall, NoEscrow, Call, UserEscrow, PC, Transfer

LEMMA NextIInv == IInv /\ [Next]_vars => IInv'
<1> SUFFICES ASSUME IInv, [Next]_vars PROVE IInv'
  OBVIOUS
<1>1. ASSUME NEW u \in Users, Create(u) PROVE IInv'
  <2>1. account' \in [Users -> UserEscrow]
    BY <1>1 DEF IInv, TypeOK, Create, NewEscrow, UserEscrow
  <2>2. UNCHANGED <<call, history, transfer, vault, paidIn, faults>>
    BY <1>1 DEF Create, chain
  <2> QED
    BY <2>1, <2>2 DEF IInv, TypeOK, Enough, At, User
<1>2. ASSUME NEW x \in DepositTxs, NEW a \in Amounts, PayIn(x, a) PROVE IInv'
  <2>1. a \in Nat
    BY WalletAssumption
  <2>2. vault' \in Nat /\ paidIn' \in [DepositTxs -> Nat]
    BY <1>2, <2>1 DEF IInv, TypeOK, PayIn
  <2> QED
    BY <1>2, <2>2 DEF IInv, TypeOK, Enough, At, User, PayIn, redis
<1>3. CASE UNCHANGED vars
  BY <1>3 DEF IInv, TypeOK, Enough, At, User, vars
<1> QED
  BY <1>1, <1>2, <1>3, DepositInductive, PayInductive, WithdrawInductive, SendInductive,
     ChainInductive, ThrowInductive, CrashInductive DEF Next

\* Every record and call has its type: whatever operations read and write between
\* a call's own two, no balance becomes negative.
THEOREM TypeCorrect == Spec => []TypeOK
<1>1. IInv => TypeOK
  BY DEF IInv
<1> QED
  BY <1>1, InitIInv, NextIInv, PTL DEF Spec

-----------------------------------------------------------------------------
\* Users who take turns: what the totals of an account are made of

HeldOf(u) ==
    [c \in Calls |-> IF c \in Senders /\ User(c) = u /\ Charged(c) /\ transfer[c] # "landed"
                     THEN call[c].amount ELSE 0]
OutOf(u) ==
    [c \in Calls |-> IF c \in Withdrawals /\ User(c) = u /\ Undeducted(c)
                     THEN call[c].amount ELSE 0]
SpentOf(u) ==
    [c \in Calls |-> IF c \in Payments /\ User(c) = u /\ Charged(c)
                     THEN call[c].amount ELSE 0]

Spent(u) == TotalAmount({p \in Of(u, Payments) : Charged(p)})

\* The amounts of some calls, with zeros for the others
LEMMA TotalIsSum ==
    ASSUME NEW c2 \in [Calls -> Call], NEW S \in SUBSET Calls,
           NEW f, f = [c \in Calls |-> IF c \in S THEN c2[c].amount ELSE 0]
    PROVE  /\ SumFunction([c \in S |-> c2[c].amount]) = SumFunction(f)
           /\ f \in [Calls -> Nat] /\ SumFunction(f) \in Nat
<1>1. \A c \in Calls : c2[c].amount \in Nat
  BY DEF Call
<1>2. f \in [Calls -> Nat]
  BY <1>1
<1>3. IsFiniteSet(Calls)
  BY WalletAssumption
<1>4. SumFunction(f) \in Nat
  <2>1. \A c \in Calls : f[c] \in Int /\ f[c] >= 0
    BY <1>2
  <2>2. SumFunctionOnSet(f, Calls) \in Int /\ SumFunctionOnSet(f, Calls) >= 0
    BY <1>3, <2>1, SumType
  <2> QED
    BY <1>2, <2>2 DEF SumFunction
<1>5. SumFunction([c \in S |-> c2[c].amount]) = SumFunction(f)
  <2> DEFINE g == [c \in S |-> c2[c].amount]
  <2>1. g \in [S -> Int] /\ f \in [Calls -> Int]
    BY <1>1, <1>2
  <2>2. (\A c \in S : f[c] = g[c]) /\ (\A c \in Calls \ S : f[c] = 0)
    OBVIOUS
  <2> HIDE DEF g
  <2>3. SumFunction(g) = SumFunction(f)
    BY <1>3, <2>1, <2>2, SumOfSupport
  <2> QED
    BY <2>3 DEF g
<1> QED
  BY <1>2, <1>4, <1>5

LEMMA Totals ==
    ASSUME call \in [Calls -> Call], NEW u \in Users
    PROVE  /\ Held(u) = SumFunction(HeldOf(u)) /\ Held(u) \in Nat
           /\ Funds(u) = account[u].balance - SumFunction(OutOf(u))
           /\ SumFunction(OutOf(u)) \in Nat
           /\ Spent(u) = SumFunction(SpentOf(u)) /\ Spent(u) \in Nat
           /\ HeldOf(u) \in [Calls -> Nat] /\ OutOf(u) \in [Calls -> Nat]
           /\ SpentOf(u) \in [Calls -> Nat]
<1>1. Senders \subseteq Calls /\ Withdrawals \subseteq Calls /\ Payments \subseteq Calls
  BY DEF Calls, Senders
<1>2. /\ Held(u) = SumFunction(HeldOf(u)) /\ HeldOf(u) \in [Calls -> Nat]
      /\ SumFunction(HeldOf(u)) \in Nat
  <2> DEFINE S == {c \in Of(u, Senders) : Charged(c) /\ transfer[c] # "landed"}
  <2>1. S \in SUBSET Calls
    BY <1>1 DEF Of
  <2>2. HeldOf(u) = [c \in Calls |-> IF c \in S THEN call[c].amount ELSE 0]
    BY DEF HeldOf, Of
  <2>3. Held(u) = SumFunction([c \in S |-> call[c].amount])
    BY DEF Held, TotalAmount
  <2> HIDE DEF S
  <2> QED
    BY <2>1, <2>2, <2>3, TotalIsSum
<1>3. /\ Funds(u) = account[u].balance - SumFunction(OutOf(u))
      /\ OutOf(u) \in [Calls -> Nat] /\ SumFunction(OutOf(u)) \in Nat
  <2> DEFINE S == {w \in Of(u, Withdrawals) : Undeducted(w)}
  <2>1. S \in SUBSET Calls
    BY <1>1 DEF Of
  <2>2. OutOf(u) = [c \in Calls |-> IF c \in S THEN call[c].amount ELSE 0]
    BY DEF OutOf, Of
  <2>3. Funds(u) = account[u].balance - SumFunction([c \in S |-> call[c].amount])
    BY DEF Funds, TotalAmount
  <2> HIDE DEF S
  <2>4. SumFunction([c \in S |-> call[c].amount]) = SumFunction(OutOf(u))
    BY <2>1, <2>2, TotalIsSum
  <2>5. OutOf(u) \in [Calls -> Nat] /\ SumFunction(OutOf(u)) \in Nat
    BY <2>1, <2>2, TotalIsSum
  <2> QED
    BY <2>3, <2>4, <2>5
<1>4. /\ Spent(u) = SumFunction(SpentOf(u)) /\ SpentOf(u) \in [Calls -> Nat]
      /\ SumFunction(SpentOf(u)) \in Nat
  <2> DEFINE S == {p \in Of(u, Payments) : Charged(p)}
  <2>1. S \in SUBSET Calls
    BY <1>1 DEF Of
  <2>2. SpentOf(u) = [c \in Calls |-> IF c \in S THEN call[c].amount ELSE 0]
    BY DEF SpentOf, Of
  <2>3. Spent(u) = SumFunction([c \in S |-> call[c].amount])
    BY DEF Spent, TotalAmount
  <2> HIDE DEF S
  <2> QED
    BY <2>1, <2>2, <2>3, TotalIsSum
<1> QED
  BY <1>2, <1>3, <1>4

CallsTyped == call \in [Calls -> Call]

Summed(u) ==
    /\ Held(u) = SumFunction(HeldOf(u)) /\ Held(u) \in Nat
    /\ Funds(u) = account[u].balance - SumFunction(OutOf(u))
    /\ SumFunction(OutOf(u)) \in Nat
    /\ Spent(u) = SumFunction(SpentOf(u)) /\ Spent(u) \in Nat
    /\ HeldOf(u) \in [Calls -> Nat] /\ OutOf(u) \in [Calls -> Nat]
    /\ SpentOf(u) \in [Calls -> Nat]

LEMMA AllSummed == CallsTyped => \A u \in Users : Summed(u)
BY Totals DEF CallsTyped, Summed

LEMMA AllSummedNext == CallsTyped' => (\A u \in Users : Summed(u))'
BY AllSummed, PTL

\* When one entry of each sum changes, the totals change by the difference.
LEMMA OneEntryMoves ==
    ASSUME TypeOK, TypeOK', NEW u \in Users, NEW c \in Calls,
           \A d \in Calls \ {c} : /\ HeldOf(u)'[d] = HeldOf(u)[d]
                                  /\ OutOf(u)'[d] = OutOf(u)[d]
                                  /\ SpentOf(u)'[d] = SpentOf(u)[d]
    PROVE  /\ Held(u)' = Held(u) + (HeldOf(u)'[c] - HeldOf(u)[c])
           /\ Funds(u)' = Funds(u) + (account'[u].balance - account[u].balance)
                             - (OutOf(u)'[c] - OutOf(u)[c])
           /\ Spent(u)' = Spent(u) + (SpentOf(u)'[c] - SpentOf(u)[c])
<1>1. Summed(u) /\ Summed(u)'
  BY AllSummed, AllSummedNext DEF CallsTyped, TypeOK
<1>2. account[u].balance \in Nat /\ account'[u].balance \in Nat
  BY DEF TypeOK, UserEscrow
<1>3. ASSUME NEW f \in [Calls -> Nat], NEW g \in [Calls -> Nat],
             \A d \in Calls \ {c} : g[d] = f[d]
      PROVE  SumFunction(g) - SumFunction(f) = g[c] - f[c]
  <2>1. f \in [Calls -> Int] /\ g \in [Calls -> Int]
    OBVIOUS
  <2> QED
    BY <1>3, <2>1, SumUpdate, WalletAssumption
<1>4. Held(u)' = Held(u) + (HeldOf(u)'[c] - HeldOf(u)[c])
  <2> DEFINE f == HeldOf(u)
             g == HeldOf(u)'
  <2>1. f \in [Calls -> Nat] /\ g \in [Calls -> Nat] /\ \A d \in Calls \ {c} : g[d] = f[d]
    BY <1>1 DEF Summed
  <2>2. Held(u) = SumFunction(f) /\ Held(u)' = SumFunction(g) /\ Held(u) \in Nat /\ Held(u)' \in Nat
    BY <1>1 DEF Summed
  <2>3. f[c] \in Nat /\ g[c] \in Nat
    BY <2>1
  <2> HIDE DEF f, g
  <2>4. SumFunction(g) - SumFunction(f) = g[c] - f[c]
    BY <1>3, <2>1
  <2>5. Held(u)' = Held(u) + (g[c] - f[c])
    BY <2>2, <2>3, <2>4
  <2> QED
    BY <2>5 DEF f, g
<1>5. Spent(u)' = Spent(u) + (SpentOf(u)'[c] - SpentOf(u)[c])
  <2> DEFINE f == SpentOf(u)
             g == SpentOf(u)'
  <2>1. f \in [Calls -> Nat] /\ g \in [Calls -> Nat] /\ \A d \in Calls \ {c} : g[d] = f[d]
    BY <1>1 DEF Summed
  <2>2. Spent(u) = SumFunction(f) /\ Spent(u)' = SumFunction(g)
        /\ Spent(u) \in Nat /\ Spent(u)' \in Nat
    BY <1>1 DEF Summed
  <2>3. f[c] \in Nat /\ g[c] \in Nat
    BY <2>1
  <2> HIDE DEF f, g
  <2>4. SumFunction(g) - SumFunction(f) = g[c] - f[c]
    BY <1>3, <2>1
  <2>5. Spent(u)' = Spent(u) + (g[c] - f[c])
    BY <2>2, <2>3, <2>4
  <2> QED
    BY <2>5 DEF f, g
<1>6. Funds(u)' = Funds(u) + (account'[u].balance - account[u].balance)
                     - (OutOf(u)'[c] - OutOf(u)[c])
  <2> DEFINE f == OutOf(u)
             g == OutOf(u)'
             s == SumFunction(f)
             t == SumFunction(g)
             b == account[u].balance
             e == account'[u].balance
  <2>1. f \in [Calls -> Nat] /\ g \in [Calls -> Nat] /\ \A d \in Calls \ {c} : g[d] = f[d]
    BY <1>1 DEF Summed
  <2>2. Funds(u) = b - s /\ Funds(u)' = e - t /\ s \in Nat /\ t \in Nat
    BY <1>1 DEF Summed
  <2>3. f[c] \in Nat /\ g[c] \in Nat /\ b \in Nat /\ e \in Nat
    BY <1>2, <2>1
  <2> HIDE DEF f, g
  <2>4. t - s = g[c] - f[c]
    BY <1>3, <2>1
  <2> HIDE DEF s, t, b, e
  <2>5. Funds(u)' = Funds(u) + (e - b) - (g[c] - f[c])
    BY <2>2, <2>3, <2>4
  <2> QED
    BY <2>5 DEF f, g, b, e
<1> QED
  BY <1>4, <1>5, <1>6

\* What a call adds to the totals of its user
HeldShare(c) ==
    IF c \in Senders /\ Charged(c) /\ transfer[c] # "landed" THEN call[c].amount ELSE 0
OutShare(c) == IF c \in Withdrawals /\ Undeducted(c) THEN call[c].amount ELSE 0
SpentShare(c) == IF c \in Payments /\ Charged(c) THEN call[c].amount ELSE 0

OnlyCall(c) ==
    \A d \in Calls \ {c} : call'[d] = call[d] /\ (d \in Senders => transfer'[d] = transfer[d])
OnlyAccount(u) == \A v \in Users \ {u} : account'[v] = account[v]

\* A step of one call moves the totals of its user by what its shares change.
LEMMA CallMoves ==
    ASSUME TypeOK, TypeOK', NEW c \in Calls, NEW u \in Users,
           OnlyCall(c), OnlyAccount(u), User(c)' = u, At(c, "idle") \/ User(c) = u
    PROVE  /\ Held(u)' = Held(u) + (HeldShare(c)' - HeldShare(c))
           /\ Funds(u)' = Funds(u) + (account'[u].balance - account[u].balance)
                             - (OutShare(c)' - OutShare(c))
           /\ Spent(u)' = Spent(u) + (SpentShare(c)' - SpentShare(c))
           /\ \A v \in Users \ {u} :
                 Held(v)' = Held(v) /\ Funds(v)' = Funds(v) /\ Spent(v)' = Spent(v)
<1>0. At(c, "idle") => HeldShare(c) = 0 /\ OutShare(c) = 0 /\ SpentShare(c) = 0
  BY DEF At, HeldShare, OutShare, SpentShare, Charged, Undeducted
<1>1. ASSUME NEW v \in Users, NEW d \in Calls \ {c}
      PROVE  /\ HeldOf(v)'[d] = HeldOf(v)[d]
             /\ OutOf(v)'[d] = OutOf(v)[d]
             /\ SpentOf(v)'[d] = SpentOf(v)[d]
  <2>1. call'[d] = call[d] /\ (d \in Senders => transfer'[d] = transfer[d])
    BY DEF OnlyCall
  <2> QED
    BY <2>1 DEF HeldOf, OutOf, SpentOf, User, Charged, Undeducted
<1>2. /\ HeldOf(u)'[c] = HeldShare(c)' /\ HeldOf(u)[c] = HeldShare(c)
      /\ OutOf(u)'[c] = OutShare(c)' /\ OutOf(u)[c] = OutShare(c)
      /\ SpentOf(u)'[c] = SpentShare(c)' /\ SpentOf(u)[c] = SpentShare(c)
  <2>1. /\ HeldOf(u)'[c] = HeldShare(c)' /\ OutOf(u)'[c] = OutShare(c)'
        /\ SpentOf(u)'[c] = SpentShare(c)'
    BY DEF HeldOf, OutOf, SpentOf, HeldShare, OutShare, SpentShare
  <2>2. CASE User(c) = u
    BY <2>1, <2>2 DEF HeldOf, OutOf, SpentOf, HeldShare, OutShare, SpentShare
  <2>3. CASE At(c, "idle")
    <3>1. HeldOf(u)[c] = 0 /\ OutOf(u)[c] = 0 /\ SpentOf(u)[c] = 0
      BY <2>3 DEF At, HeldOf, OutOf, SpentOf, Charged, Undeducted
    <3> QED
      BY <1>0, <2>1, <2>3, <3>1
  <2> QED
    BY <2>2, <2>3
<1>3. ASSUME NEW v \in Users \ {u}
      PROVE  Held(v)' = Held(v) /\ Funds(v)' = Funds(v) /\ Spent(v)' = Spent(v)
  <2>1. /\ HeldOf(v)'[c] = 0 /\ HeldOf(v)[c] = 0
        /\ OutOf(v)'[c] = 0 /\ OutOf(v)[c] = 0
        /\ SpentOf(v)'[c] = 0 /\ SpentOf(v)[c] = 0
    BY DEF At, HeldOf, OutOf, SpentOf, Charged, Undeducted, User
  <2>2. account'[v] = account[v] /\ account[v].balance \in Nat
    BY DEF OnlyAccount, TypeOK, UserEscrow
  <2>3. /\ Held(v)' = Held(v) + (HeldOf(v)'[c] - HeldOf(v)[c])
        /\ Funds(v)' = Funds(v) + (account'[v].balance - account[v].balance)
                          - (OutOf(v)'[c] - OutOf(v)[c])
        /\ Spent(v)' = Spent(v) + (SpentOf(v)'[c] - SpentOf(v)[c])
    BY <1>1, OneEntryMoves
  <2>4. Held(v) \in Nat /\ Spent(v) \in Nat /\ Funds(v) \in Int
    BY <2>2, AllSummed DEF CallsTyped, TypeOK, Summed
  <2> QED
    BY <2>1, <2>2, <2>3, <2>4
<1>4. /\ Held(u)' = Held(u) + (HeldOf(u)'[c] - HeldOf(u)[c])
      /\ Funds(u)' = Funds(u) + (account'[u].balance - account[u].balance)
                        - (OutOf(u)'[c] - OutOf(u)[c])
      /\ Spent(u)' = Spent(u) + (SpentOf(u)'[c] - SpentOf(u)[c])
  BY <1>1, OneEntryMoves
<1> QED
  BY <1>2, <1>3, <1>4

-----------------------------------------------------------------------------
\* What holds between the steps of users who take turns

\* Which points the calls of each kind get to
Placed(c) ==
    /\ c \in Deposits => call[c].pc \in {"idle", "read", "done", "failed"}
    /\ c \in Withdrawals =>
         call[c].pc \in {"idle", "ready", "sent", "confirmed", "done", "failed"}
    /\ c \in Payments => call[c].pc # "read"

\* A call that is under way has the account to itself: what it will write back is
\* a copy of the record as it is.  A payment copies it again for the refund.
Current(c) ==
    Busy(c) =>
      /\ account[User(c)].open
      /\ (c \in Payments => call[c].pc \in {"checked", "refunding"}) =>
           call[c].copy = account[User(c)]

\* A transfer that may still be executed, or has been, belongs to a call that
\* stands by it.
Moved(c) ==
    /\ call[c].pc \in {"idle", "checked", "ready"} => transfer[c] = "none"
    /\ transfer[c] \in {"sent", "landed"} =>
         call[c].pc \in {"sent", "confirmed", "done"} \cup
             (IF c \in Payments THEN {"lost"} ELSE {})

\* A deposit is of what its transfer has brought.
Funded(d) ==
    ~At(d, "idle") => call[d].tx \in DepositTxs /\ call[d].amount = paidIn[call[d].tx]

Sound(c) ==
    /\ Placed(c) /\ Current(c)
    /\ c \in Senders => Moved(c)
    /\ c \in Deposits => Funded(c)
    /\ ~At(c, "idle") => call[c].amount \in Amounts

Alone ==
    \A c, d \in Calls : Busy(c) /\ Busy(d) /\ User(c) = User(d) => c = d

CreditedOnce ==
    \A d, e \in Deposits : call[d].tx = call[e].tx /\ call[d].tx # NoTx => d = e

Blank(u) == ~account[u].open => account[u].balance = 0 /\ account[u].spent = 0

TurnsInv ==
    /\ IInv
    /\ Alone
    /\ CreditedOnce
    /\ \A c \in Calls : Sound(c)
    /\ \A u \in Users : Blank(u)
    /\ \A x \in DepositTxs : paidIn[x] \in Amounts \cup {0}

\* What has been paid in and not been credited yet
Credited(x) == \E d \in Deposits : call[d].tx = x /\ At(d, "done")
UnclaimedOf == [x \in DepositTxs |-> IF Credited(x) THEN 0 ELSE paidIn[x]]
Unclaimed == SumFunction(UnclaimedOf)

Claims == SumFunction([u \in Users |-> Funds(u) + Held(u)])

Backed == Claims + Unclaimed <= vault

-----------------------------------------------------------------------------
\* The account's totals, its claims, and the abstract steps

TotalsMove(u, dh, df) ==
    /\ Held(u)' = Held(u) + dh
    /\ Funds(u)' = Funds(u) + df
    /\ \A v \in Users \ {u} : Held(v)' = Held(v) /\ Funds(v)' = Funds(v)
    /\ \A v \in Users : account'[v].open = account[v].open

TotalsInRange ==
    /\ \A u \in Users : Held(u) \in Nat /\ Funds(u) \in Int /\ Spent(u) \in Nat
    /\ Claims \in Int

LEMMA TypedTotals == TypeOK => TotalsInRange
<1> SUFFICES ASSUME TypeOK PROVE TotalsInRange
  OBVIOUS
<1>1. \A u \in Users : Summed(u) /\ account[u].balance \in Nat
  BY AllSummed DEF CallsTyped, TypeOK, UserEscrow
<1>2. \A u \in Users : Held(u) \in Nat /\ Funds(u) \in Int /\ Spent(u) \in Nat
  BY <1>1 DEF Summed
<1>3. Claims \in Int
  <2> DEFINE f == [u \in Users |-> Funds(u) + Held(u)]
  <2>1. (\A u \in Users : f[u] \in Int) /\ DOMAIN f = Users
    BY <1>2
  <2> HIDE DEF f
  <2>2. SumFunction(f) \in Int
    BY <2>1, SumType, WalletAssumption DEF SumFunction
  <2> QED
    BY <2>2 DEF Claims, f
<1> QED
  BY <1>2, <1>3 DEF TotalsInRange

LEMMA TypedTotalsNext == TypeOK' => TotalsInRange'
BY TypedTotals, PTL

LEMMA ClaimsMove ==
    ASSUME TypeOK, TypeOK', NEW u \in Users, NEW dh \in Int, NEW df \in Int,
           TotalsMove(u, dh, df)
    PROVE  Claims' = Claims + dh + df
<1> DEFINE f == [v \in Users |-> Funds(v) + Held(v)]
           g == [v \in Users |-> Funds(v)' + Held(v)']
<1>1. /\ \A v \in Users : /\ Held(v) \in Int /\ Funds(v) \in Int
                          /\ Held(v)' \in Int /\ Funds(v)' \in Int
      /\ Claims \in Int /\ Claims' \in Int
  BY TypedTotals, TypedTotalsNext DEF TotalsInRange
<1>2. f \in [Users -> Int] /\ g \in [Users -> Int] /\ \A v \in Users \ {u} : g[v] = f[v]
  BY <1>1 DEF TotalsMove
<1>3. g[u] = f[u] + dh + df /\ f[u] \in Int /\ g[u] \in Int
  BY <1>1 DEF TotalsMove
<1>4. Claims = SumFunction(f) /\ Claims' = SumFunction(g)
  BY DEF Claims
<1> HIDE DEF f, g
<1>5. SumFunction(g) - SumFunction(f) = g[u] - f[u]
  BY <1>2, SumUpdate, WalletAssumption
<1>6. Claims' - Claims = g[u] - f[u] /\ g[u] - f[u] = dh + df
  BY <1>3, <1>4, <1>5
<1>7. Claims \in Int /\ Claims' \in Int
  BY <1>1
<1> QED
  BY <1>6, <1>7

LEMMA StutterMaps ==
    ASSUME TypeOK, TypeOK', NEW u \in Users, TotalsMove(u, 0, 0), vault' = vault
    PROVE  UNCHANGED Account!vars
<1>1. \A v \in Users : Held(v) \in Int /\ Funds(v) \in Int
  BY TypedTotals DEF TotalsInRange
<1>2. \A v \in Users : Held(v)' = Held(v) /\ Funds(v)' = Funds(v)
  BY <1>1 DEF TotalsMove
<1>3. /\ {v \in Users : account[v].open}' = {v \in Users : account[v].open}
      /\ [v \in Users |-> Funds(v)]' = [v \in Users |-> Funds(v)]
      /\ [v \in Users |-> Held(v)]' = [v \in Users |-> Held(v)]
  BY <1>2 DEF TotalsMove
<1> QED
  BY <1>3 DEF Account!vars

LEMMA HoldMaps ==
    ASSUME TypeOK, NEW u \in Users, NEW a \in Amounts, TotalsMove(u, a, -a),
           vault' = vault, account[u].open, Funds(u) >= a
    PROVE  Account!Hold(u, a)
<1>1. a \in Nat /\ \A v \in Users : Held(v) \in Int /\ Funds(v) \in Int
  BY TypedTotals, WalletAssumption DEF TotalsInRange
<1>2. /\ {v \in Users : account[v].open}' = {v \in Users : account[v].open}
      /\ [v \in Users |-> Funds(v)]' = [[v \in Users |-> Funds(v)] EXCEPT ![u] = @ - a]
      /\ [v \in Users |-> Held(v)]' = [[v \in Users |-> Held(v)] EXCEPT ![u] = @ + a]
  BY <1>1 DEF TotalsMove
<1> QED
  BY <1>2 DEF Account!Hold

\* The instance's sums are those of module Functions.
LEMMA SameSum == ASSUME NEW f PROVE Account!SumFunction(f) = SumFunction(f)
BY Zenon DEF SumFunction, SumFunctionOnSet, FoldFunctionOnSet, MapThenFoldSet,
             Account!SumFunction, Account!SumFunctionOnSet, Account!FoldFunctionOnSet,
             Account!MapThenFoldSet

LEMMA SameClaims == Account!Claims = Claims
<1>1. [v \in Users |-> [w \in Users |-> Funds(w)][v] + [w \in Users |-> Held(w)][v]]
        = [v \in Users |-> Funds(v) + Held(v)]
  OBVIOUS
<1>2. Account!Claims = SumFunction([v \in Users |-> [w \in Users |-> Funds(w)][v]
                                                      + [w \in Users |-> Held(w)][v]])
  BY SameSum DEF Account!Claims
<1> QED
  BY <1>1, <1>2 DEF Claims

LEMMA CreditMaps ==
    ASSUME TypeOK, NEW u \in Users, NEW a \in Amounts, TotalsMove(u, 0, a),
           vault' = vault, account[u].open, Claims + a <= vault
    PROVE  Account!Credit(u, a)
<1>1. a \in Nat /\ \A v \in Users : Held(v) \in Int /\ Funds(v) \in Int
  BY TypedTotals, WalletAssumption DEF TotalsInRange
<1>2. /\ {v \in Users : account[v].open}' = {v \in Users : account[v].open}
      /\ [v \in Users |-> Funds(v)]' = [[v \in Users |-> Funds(v)] EXCEPT ![u] = @ + a]
      /\ [v \in Users |-> Held(v)]' = [v \in Users |-> Held(v)]
  <2>1. \A v \in Users : Held(v)' = Held(v)
    BY <1>1 DEF TotalsMove
  <2> QED
    BY <1>1, <2>1 DEF TotalsMove
<1> QED
  BY <1>2, SameClaims DEF Account!Credit

LEMMA PayOutMaps ==
    ASSUME TypeOK, NEW u \in Users, NEW a \in Amounts, TotalsMove(u, -a, 0),
           vault' = vault - a, Held(u) >= a
    PROVE  Account!PayOut(u, a)
<1>1. a \in Nat /\ \A v \in Users : Held(v) \in Int /\ Funds(v) \in Int
  BY TypedTotals, WalletAssumption DEF TotalsInRange
<1>2. /\ {v \in Users : account[v].open}' = {v \in Users : account[v].open}
      /\ [v \in Users |-> Funds(v)]' = [v \in Users |-> Funds(v)]
      /\ [v \in Users |-> Held(v)]' = [[v \in Users |-> Held(v)] EXCEPT ![u] = @ - a]
  <2>1. \A v \in Users : Funds(v)' = Funds(v)
    BY <1>1 DEF TotalsMove
  <2> QED
    BY <1>1, <2>1 DEF TotalsMove
<1> QED
  BY <1>2 DEF Account!PayOut

\* Several users may get something back at once.
LEMMA ReleaseMaps ==
    ASSUME TypeOK, TypeOK', vault' = vault,
           \A v \in Users : /\ account'[v].open = account[v].open
                            /\ Held(v)' <= Held(v)
                            /\ Funds(v)' = Funds(v) + (Held(v) - Held(v)')
    PROVE  Account!Release
<1>1. \A v \in Users : Held(v)' \in Nat
  BY TypedTotalsNext DEF TotalsInRange
<1>2. /\ {v \in Users : account[v].open}' = {v \in Users : account[v].open}
      /\ [v \in Users |-> Held(v)]' \in [Users -> Nat]
      /\ \A v \in Users : [w \in Users |-> Held(w)]'[v] <= [w \in Users |-> Held(w)][v]
      /\ [v \in Users |-> Funds(v)]' =
           [v \in Users |-> [w \in Users |-> Funds(w)][v]
                              + ([w \in Users |-> Held(w)][v] - [w \in Users |-> Held(w)]'[v])]
  BY <1>1
<1> QED
  BY <1>2 DEF Account!Release

-----------------------------------------------------------------------------
\* What has been paid in and not been credited

LEMMA UnclaimedTyped ==
    ASSUME \A x \in DepositTxs : paidIn[x] \in Nat
    PROVE  /\ UnclaimedOf \in [DepositTxs -> Nat] /\ Unclaimed \in Nat
           /\ \A x \in DepositTxs : Unclaimed >= UnclaimedOf[x]
<1>1. UnclaimedOf \in [DepositTxs -> Nat]
  BY DEF UnclaimedOf
<1> DEFINE f == UnclaimedOf
<1> HIDE DEF f
<1>2. f \in [DepositTxs -> Nat] /\ IsFiniteSet(DepositTxs)
  BY <1>1, WalletAssumption DEF f
<1>3. SumFunction(f) \in Nat
  <2>1. \A x \in DepositTxs : f[x] \in Int /\ f[x] >= 0
    BY <1>2
  <2>2. SumFunctionOnSet(f, DepositTxs) \in Int /\ SumFunctionOnSet(f, DepositTxs) >= 0
    BY <1>2, <2>1, SumType
  <2> QED
    BY <1>2, <2>2 DEF SumFunction
<1>4. \A x \in DepositTxs : SumFunction(f) >= f[x]
  BY <1>2, SumAtLeastEntry
<1> QED
  BY <1>1, <1>3, <1>4 DEF f, Unclaimed

\* Crediting a transfer, or making it, moves one entry.
LEMMA UnclaimedMoves ==
    ASSUME \A y \in DepositTxs : paidIn[y] \in Nat, \A y \in DepositTxs : paidIn'[y] \in Nat,
           NEW x \in DepositTxs, \A y \in DepositTxs \ {x} : UnclaimedOf'[y] = UnclaimedOf[y]
    PROVE  Unclaimed' = Unclaimed + (UnclaimedOf'[x] - UnclaimedOf[x])
<1> DEFINE f == UnclaimedOf
           g == UnclaimedOf'
<1>1. f \in [DepositTxs -> Nat] /\ g \in [DepositTxs -> Nat]
  BY DEF UnclaimedOf
<1>2. Unclaimed = SumFunction(f) /\ Unclaimed' = SumFunction(g)
  BY DEF Unclaimed
<1>3. \A y \in DepositTxs \ {x} : g[y] = f[y]
  OBVIOUS
<1> HIDE DEF f, g
<1>4. f \in [DepositTxs -> Int] /\ g \in [DepositTxs -> Int] /\ f[x] \in Int /\ g[x] \in Int
  BY <1>1
<1>5. SumFunction(g) - SumFunction(f) = g[x] - f[x]
  BY <1>3, <1>4, SumUpdate, WalletAssumption
<1>6. SumFunction(f) \in Nat /\ SumFunction(g) \in Nat
  BY <1>1, SumAtLeastEntry, WalletAssumption
<1>7. Unclaimed' = Unclaimed + (g[x] - f[x])
  BY <1>2, <1>4, <1>5, <1>6
<1> QED
  BY <1>7 DEF f, g

LEMMA UnclaimedKept ==
    ASSUME paidIn' = paidIn,
           \A d \in Deposits : call'[d] = call[d] \/ (~At(d, "done") /\ ~At(d, "done")')
    PROVE  Unclaimed' = Unclaimed
<1>1. \A x \in DepositTxs : Credited(x)' <=> Credited(x)
  BY DEF Credited, At
<1>2. UnclaimedOf' = UnclaimedOf
  BY <1>1 DEF UnclaimedOf
<1> QED
  BY <1>2 DEF Unclaimed

-----------------------------------------------------------------------------
\* Steps of one call

Honest == TurnsInv /\ Backed /\ SpentExact
Honoured == Honest' /\ [Account!Next]_(Account!vars)

\* The other calls under way are other users', so their copies stay current.
LEMMA CallTurns ==
    ASSUME TurnsInv, IInv', OneAtATime, NEW c \in Calls, NEW u \in Users,
           OnlyCall(c), OnlyAccount(u), User(c)' = u, paidIn' = paidIn,
           account' = account \/ (Busy(c) /\ User(c) = u),
           Sound(c)', Blank(u)'
    PROVE  TurnsInv'
<1>1. Alone' /\ CreditedOnce'
  BY DEF OneAtATime, Alone, CreditedOnce, Busy, User
<1>2. ASSUME NEW d \in Calls, d # c PROVE Sound(d)'
  <2>1. call'[d] = call[d] /\ (d \in Senders => transfer'[d] = transfer[d]) /\ Sound(d)
    BY <1>2 DEF OnlyCall, TurnsInv
  <2>2. Current(d)'
    <3> SUFFICES ASSUME Busy(d) PROVE Current(d)'
      BY <2>1 DEF Current, Busy
    <3>1. User(d) \in Users
      BY DEF TurnsInv, IInv, Enough, Busy, At
    <3>2. account'[User(d)] = account[User(d)]
      <4>1. CASE account' = account
        BY <4>1
      <4>2. CASE Busy(c) /\ User(c) = u
        <5>1. User(d) # u
          BY <1>2, <4>2 DEF TurnsInv, Alone
        <5> QED
          BY <3>1, <5>1 DEF OnlyAccount
      <4> QED
        BY <4>1, <4>2
    <3> QED
      BY <2>1, <3>2 DEF Sound, Current, Busy, User
  <2>3. Placed(d)' /\ (d \in Senders => Moved(d)') /\ (d \in Deposits => Funded(d)')
        /\ (~At(d, "idle")' => call'[d].amount \in Amounts)
    BY <2>1 DEF Sound, Placed, Moved, Funded, At
  <2> QED
    BY <2>2, <2>3 DEF Sound, At
<1>3. ASSUME NEW v \in Users, v # u PROVE Blank(v)'
  BY <1>3 DEF OnlyAccount, TurnsInv, Blank
<1>4. \A x \in DepositTxs : paidIn'[x] \in Amounts \cup {0}
  BY DEF TurnsInv
<1> QED
  BY <1>1, <1>2, <1>3, <1>4 DEF TurnsInv

SharesMove(c, u, dh, df) ==
    /\ account'[u].open = account[u].open
    /\ account'[u].spent = account[u].spent + (SpentShare(c)' - SpentShare(c))
    /\ HeldShare(c)' - HeldShare(c) = dh
    /\ (account'[u].balance - account[u].balance) - (OutShare(c)' - OutShare(c)) = df

LEMMA CallTotals ==
    ASSUME TypeOK, TypeOK', SpentExact, NEW c \in Calls, NEW u \in Users,
           OnlyCall(c), OnlyAccount(u), User(c)' = u, At(c, "idle") \/ User(c) = u,
           NEW dh \in Int, NEW df \in Int, SharesMove(c, u, dh, df)
    PROVE  TotalsMove(u, dh, df) /\ SpentExact'
<1>1. /\ Held(u)' = Held(u) + (HeldShare(c)' - HeldShare(c))
      /\ Funds(u)' = Funds(u) + (account'[u].balance - account[u].balance)
                        - (OutShare(c)' - OutShare(c))
      /\ Spent(u)' = Spent(u) + (SpentShare(c)' - SpentShare(c))
      /\ \A v \in Users \ {u} :
            Held(v)' = Held(v) /\ Funds(v)' = Funds(v) /\ Spent(v)' = Spent(v)
  BY CallMoves
<1>2. \A v \in Users : account'[v].open = account[v].open
  BY DEF OnlyAccount, SharesMove
<1>3. Funds(u)' = Funds(u) + df
  <2> DEFINE b == account[u].balance
             e == account'[u].balance
             o == OutShare(c)
             p == OutShare(c)'
             f == Funds(u)
             g == Funds(u)'
  <2>1. b \in Int /\ e \in Int /\ o \in Int /\ p \in Int /\ f \in Int
    BY TypedTotals DEF TypeOK, UserEscrow, Call, OutShare, TotalsInRange
  <2>2. g = f + (e - b) - (p - o) /\ (e - b) - (p - o) = df
    BY <1>1 DEF SharesMove
  <2> HIDE DEF b, e, o, p, f, g
  <2>3. g = f + df
    BY <2>1, <2>2
  <2> QED
    BY <2>3 DEF f, g
<1>4. TotalsMove(u, dh, df)
  BY <1>1, <1>2, <1>3 DEF TotalsMove, SharesMove
<1>5. \A v \in Users : account[v].spent = Spent(v)
  BY DEF SpentExact, Spent
<1>6. \A v \in Users : account'[v].spent = Spent(v)'
  BY <1>1, <1>5 DEF OnlyAccount, SharesMove
<1>7. SpentExact'
  BY <1>6 DEF SpentExact, Spent
<1> QED
  BY <1>4, <1>7

LEMMA PaidInNat == ASSUME TurnsInv PROVE \A x \in DepositTxs : paidIn[x] \in Nat
BY DEF TurnsInv, IInv, TypeOK

\* The steps that the account does not see
LEMMA KeepStep ==
    ASSUME Honest, TurnsInv', SpentExact', NEW u \in Users, TotalsMove(u, 0, 0),
           vault' = vault, Unclaimed' = Unclaimed
    PROVE  Honoured
<1>1. TypeOK /\ TypeOK'
  BY DEF Honest, TurnsInv, IInv
<1>2. UNCHANGED Account!vars
  BY <1>1, StutterMaps
<1>3. Claims' = Claims + 0 + 0
  BY <1>1, ClaimsMove
<1>4. Claims \in Int
  BY <1>1, TypedTotals DEF TotalsInRange
<1>5. Backed'
  BY <1>3, <1>4 DEF Honest, Backed
<1> QED
  BY <1>2, <1>5 DEF Honest, Honoured

LEMMA HoldStep ==
    ASSUME Honest, TurnsInv', SpentExact', NEW u \in Users, NEW a \in Amounts,
           TotalsMove(u, a, -a), account[u].open, Funds(u) >= a,
           vault' = vault, Unclaimed' = Unclaimed
    PROVE  Honoured
<1>1. TypeOK /\ TypeOK' /\ a \in Int
  BY WalletAssumption DEF Honest, TurnsInv, IInv
<1>2. Account!Hold(u, a)
  BY <1>1, HoldMaps
<1>3. Claims' = Claims + a + (-a)
  BY <1>1, ClaimsMove
<1>4. Claims \in Int
  BY <1>1, TypedTotals DEF TotalsInRange
<1>5. Backed'
  BY <1>1, <1>3, <1>4 DEF Honest, Backed
<1> QED
  BY <1>2, <1>5 DEF Honest, Honoured, Account!Next

LEMMA ReleaseStep ==
    ASSUME Honest, TurnsInv', SpentExact', NEW u \in Users, NEW a \in Amounts,
           TotalsMove(u, -a, a), vault' = vault, Unclaimed' = Unclaimed
    PROVE  Honoured
<1>1. TypeOK /\ TypeOK' /\ a \in Nat
  BY WalletAssumption DEF Honest, TurnsInv, IInv
<1>2. Account!Release
  <2>1. TotalsInRange
    BY <1>1, TypedTotals
  <2>2. ASSUME NEW v \in Users
        PROVE  /\ account'[v].open = account[v].open
               /\ Held(v)' <= Held(v)
               /\ Funds(v)' = Funds(v) + (Held(v) - Held(v)')
    BY <1>1, <2>1 DEF TotalsInRange, TotalsMove
  <2> QED
    BY <1>1, <2>2, ReleaseMaps
<1>3. Claims' = Claims + (-a) + a
  BY <1>1, ClaimsMove
<1>4. Claims \in Int
  BY <1>1, TypedTotals DEF TotalsInRange
<1>5. Backed'
  BY <1>1, <1>3, <1>4 DEF Honest, Backed
<1> QED
  BY <1>2, <1>5 DEF Honest, Honoured, Account!Next

LEMMA PayOutStep ==
    ASSUME Honest, TurnsInv', SpentExact', NEW u \in Users, NEW a \in Amounts,
           TotalsMove(u, -a, 0), Held(u) >= a, vault' = vault - a, Unclaimed' = Unclaimed
    PROVE  Honoured
<1>1. TypeOK /\ TypeOK' /\ a \in Nat
  BY WalletAssumption DEF Honest, TurnsInv, IInv
<1>2. Account!PayOut(u, a)
  BY <1>1, PayOutMaps
<1>3. Claims' = Claims + (-a) + 0
  BY <1>1, ClaimsMove
<1>4. Claims \in Int /\ Unclaimed \in Nat /\ vault \in Nat
  BY <1>1, TypedTotals, PaidInNat, UnclaimedTyped DEF TotalsInRange, Honest, TypeOK
<1>5. Backed'
  BY <1>1, <1>3, <1>4 DEF Honest, Backed
<1> QED
  BY <1>2, <1>5 DEF Honest, Honoured, Account!Next

\* What is credited has been paid in and been credited to nobody.
LEMMA CreditStep ==
    ASSUME Honest, TurnsInv', SpentExact', NEW u \in Users, NEW a \in Amounts,
           TotalsMove(u, 0, a), account[u].open, vault' = vault,
           Unclaimed' = Unclaimed - a, Unclaimed >= a
    PROVE  Honoured
<1>1. TypeOK /\ TypeOK' /\ a \in Nat
  BY WalletAssumption DEF Honest, TurnsInv, IInv
<1>2. Claims' = Claims + 0 + a
  BY <1>1, ClaimsMove
<1>3. Claims \in Int /\ Unclaimed \in Nat /\ vault \in Nat
  BY <1>1, TypedTotals, PaidInNat, UnclaimedTyped DEF TotalsInRange, Honest, TypeOK
<1>4. Claims + a <= vault
  BY <1>1, <1>3 DEF Honest, Backed
<1>5. Account!Credit(u, a)
  BY <1>1, <1>4, CreditMaps
<1>6. Backed'
  BY <1>1, <1>2, <1>3 DEF Honest, Backed
<1> QED
  BY <1>5, <1>6 DEF Honest, Honoured, Account!Next

-----------------------------------------------------------------------------
\* What the actions do to a call and to a record

LEMMA Kinds ==
    /\ \A d \in Deposits : d \in Calls /\ d \notin Senders /\ d \notin Payments /\ d \notin Withdrawals
    /\ \A p \in Payments : p \in Calls /\ p \in Senders /\ p \notin Withdrawals /\ p \notin Deposits
    /\ \A w \in Withdrawals : w \in Calls /\ w \in Senders /\ w \notin Payments /\ w \notin Deposits
    /\ \A c \in Calls : c \in Deposits \/ c \in Payments \/ c \in Withdrawals
    /\ \A c \in Senders : c \in Payments \/ c \in Withdrawals
BY WalletAssumption DEF Calls, Senders

LEMMA GotoFields ==
    ASSUME TypeOK, NEW c \in Calls, NEW pc, Goto(c, pc)
    PROVE  /\ call'[c].pc = pc /\ call'[c].user = call[c].user
           /\ call'[c].amount = call[c].amount /\ call'[c].tx = call[c].tx
           /\ call'[c].copy = call[c].copy
           /\ \A d \in Calls \ {c} : call'[d] = call[d]
BY DEF TypeOK, Goto, Call

LEMMA BusyFields ==
    ASSUME TurnsInv, NEW c \in Calls, Busy(c)
    PROVE  /\ User(c) \in Users /\ account[User(c)].open
           /\ call[c].amount \in Amounts /\ call[c].amount \in Nat
<1>1. ~At(c, "idle") /\ Sound(c) /\ Enough(c)
  BY DEF Busy, At, TurnsInv, IInv
<1> QED
  BY <1>1, WalletAssumption DEF Sound, Current, Enough

\* redis.set of a copy that is current
LEMMA WriteBackFields ==
    ASSUME TurnsInv, NEW c \in Calls, Busy(c), call[c].copy = account[User(c)],
           NEW b \in Int, NEW s \in Int, WriteBack(c, b, s)
    PROVE  /\ OnlyAccount(User(c))
           /\ account'[User(c)].balance = account[User(c)].balance + b
           /\ account'[User(c)].spent = account[User(c)].spent + s
           /\ account'[User(c)].open = account[User(c)].open
           /\ account[User(c)].balance \in Nat /\ account[User(c)].spent \in Int
<1>1. User(c) \in Users
  BY BusyFields
<1>2. account \in [Users -> UserEscrow] /\ account[User(c)] \in UserEscrow
  BY <1>1 DEF TurnsInv, IInv, TypeOK
<1> DEFINE u == User(c)
           old == account[u]
           new == [old EXCEPT !.balance = @ + b, !.spent = @ + s]
<1>3. account' = [account EXCEPT ![u] = new]
  BY DEF WriteBack
<1>4. /\ new.balance = old.balance + b /\ new.spent = old.spent + s /\ new.open = old.open
      /\ old.balance \in Nat /\ old.spent \in Int
  BY <1>2 DEF UserEscrow
<1> HIDE DEF u, old, new
<1>5. account'[u] = new /\ \A v \in Users \ {u} : account'[v] = account[v]
  BY <1>1, <1>2, <1>3 DEF u
<1> QED
  BY <1>4, <1>5 DEF OnlyAccount, u, old

\* A call begins.
LEMMA BeginHonest ==
    ASSUME Honest, IInv', OneAtATime, NEW c \in Calls, NEW u \in Users, NEW a \in Amounts,
           NEW x \in DepositTxs \cup {NoTx}, NEW pc, Begin(c, pc, u, a, x),
           c \in Deposits => pc = "read" /\ x \in DepositTxs /\ a = paidIn[x],
           c \in Payments => pc = "checked",
           c \in Withdrawals => pc = "ready"
    PROVE  Honoured
<1>1. TypeOK /\ TypeOK' /\ TurnsInv /\ SpentExact /\ Sound(c)
  BY DEF Honest, TurnsInv, IInv
<1>2. /\ At(c, "idle") /\ account[u].open
      /\ account' = account /\ history' = history /\ transfer' = transfer
      /\ vault' = vault /\ paidIn' = paidIn /\ faults' = faults
      /\ call'[c] = [pc |-> pc, user |-> u, amount |-> a, tx |-> x, copy |-> account[u]]
      /\ \A d \in Calls \ {c} : call'[d] = call[d]
  BY <1>1 DEF Begin, redis, chain, TypeOK
<1>3. /\ call'[c].pc = pc /\ call'[c].user = u /\ call'[c].amount = a /\ call'[c].tx = x
      /\ call'[c].copy = account[u]
  BY <1>2
<1>4. OnlyCall(c) /\ OnlyAccount(u) /\ User(c)' = u
  BY <1>2, <1>3 DEF OnlyCall, OnlyAccount, User
<1>5. pc \in {"read", "checked", "ready"}
  BY Kinds
<1>6. Sound(c)'
  <2>1. Placed(c)'
    BY <1>3, Kinds DEF Placed
  <2>2. Current(c)'
    BY <1>2, <1>3 DEF Current, User
  <2>3. c \in Senders => Moved(c)'
    BY <1>1, <1>2, <1>3, <1>5 DEF Sound, Moved, At
  <2>4. c \in Deposits => Funded(c)'
    BY <1>2, <1>3 DEF Funded
  <2> QED
    BY <1>3, <2>1, <2>2, <2>3, <2>4 DEF Sound
<1>7. Blank(u)'
  BY <1>1, <1>2 DEF TurnsInv, Blank
<1>8. TurnsInv'
  BY <1>1, <1>2, <1>4, <1>6, <1>7, CallTurns
<1>9. /\ HeldShare(c) = 0 /\ OutShare(c) = 0 /\ SpentShare(c) = 0
      /\ HeldShare(c)' = 0 /\ OutShare(c)' = 0 /\ SpentShare(c)' = 0
  <2>1. /\ ~(c \in Senders /\ Charged(c)) /\ ~(c \in Senders /\ Charged(c)')
        /\ ~(c \in Withdrawals /\ Undeducted(c)) /\ ~(c \in Withdrawals /\ Undeducted(c)')
    BY <1>2, <1>3, Kinds DEF Charged, Undeducted, At
  <2> QED
    BY <2>1, Kinds DEF HeldShare, OutShare, SpentShare
<1>10. account[u].balance \in Int /\ account[u].spent \in Int
  BY <1>1 DEF TypeOK, UserEscrow
<1>11. TotalsMove(u, 0, 0) /\ SpentExact'
  <2>1. SharesMove(c, u, 0, 0)
    <3> DEFINE b == account[u].balance
               s == account[u].spent
    <3>1. account'[u].balance = b /\ account'[u].spent = s /\ account'[u].open = account[u].open
          /\ b \in Int /\ s \in Int
      BY <1>2, <1>10
    <3> HIDE DEF b, s
    <3>2. account'[u].balance - b = 0 /\ s + (0 - 0) = s
      BY <3>1
    <3> QED
      BY <1>9, <3>1, <3>2 DEF SharesMove, b, s
  <2> QED
    BY <1>1, <1>2, <1>4, <2>1, CallTotals
<1>12. Unclaimed' = Unclaimed
  BY <1>2, <1>3, <1>5, Kinds, UnclaimedKept DEF At
<1> QED
  BY <1>2, <1>8, <1>11, <1>12, KeepStep

\* A call goes on, with the arguments that it was made with.
GoesOn(c, pc) ==
    /\ call'[c].pc = pc /\ call'[c].user = call[c].user
    /\ call'[c].amount = call[c].amount /\ call'[c].tx = call[c].tx
    /\ \A d \in Calls \ {c} : call'[d] = call[d]

LEMMA GoMoves ==
    ASSUME Honest, IInv', OneAtATime, NEW c \in Calls, NEW pc, Busy(c), GoesOn(c, pc),
           NEW u \in Users, User(c) = u, OnlyAccount(u), paidIn' = paidIn,
           \A d \in Senders \ {c} : transfer'[d] = transfer[d],
           Placed(c)', c \in Senders => Moved(c)',
           pc \in Ended \/ (c \in Payments /\ pc \notin {"checked", "refunding"})
             \/ call'[c].copy = account'[u],
           NEW dh \in Int, NEW df \in Int, SharesMove(c, u, dh, df)
    PROVE  /\ TurnsInv' /\ SpentExact' /\ TotalsMove(u, dh, df)
           /\ (c \in Deposits => pc # "done") => Unclaimed' = Unclaimed
<1>1. TypeOK /\ TypeOK' /\ TurnsInv /\ SpentExact /\ Sound(c) /\ ~At(c, "idle")
  BY DEF Honest, TurnsInv, IInv, Busy, At
<1>2. account[u].open /\ call[c].amount \in Amounts /\ account'[u].open
  BY <1>1, BusyFields DEF SharesMove
<1>3. OnlyCall(c) /\ User(c)' = u
  BY DEF GoesOn, OnlyCall, User
<1>4. Sound(c)'
  <2>1. Current(c)'
    BY <1>2, <1>3 DEF GoesOn, Current, Busy, Ended
  <2>2. c \in Deposits => Funded(c)'
    BY <1>1 DEF GoesOn, Sound, Funded, At
  <2> QED
    BY <1>2, <2>1, <2>2 DEF GoesOn, Sound
<1>5. Blank(u)'
  BY <1>2 DEF Blank
<1>6. TurnsInv'
  BY <1>1, <1>3, <1>4, <1>5, CallTurns
<1>7. (c \in Deposits => pc # "done") => Unclaimed' = Unclaimed
  <2> SUFFICES ASSUME c \in Deposits => pc # "done" PROVE Unclaimed' = Unclaimed
    OBVIOUS
  <2>1. ASSUME NEW d \in Deposits
        PROVE  call'[d] = call[d] \/ (~At(d, "done") /\ ~At(d, "done")')
    BY Kinds DEF GoesOn, At, Busy, Ended
  <2> QED
    BY <2>1, UnclaimedKept
<1>8. TotalsMove(u, dh, df) /\ SpentExact'
  BY <1>1, <1>3, CallTotals
<1> QED
  BY <1>6, <1>7, <1>8

LEMMA GotoGoes ==
    ASSUME TypeOK, NEW c \in Calls, NEW pc, Goto(c, pc)
    PROVE  GoesOn(c, pc) /\ call'[c].copy = call[c].copy
BY GotoFields DEF GoesOn

\* A call goes on and leaves the records as they are.
LEMMA SharesStay ==
    ASSUME TypeOK, TypeOK', NEW c \in Calls, NEW u \in Users, account' = account,
           SpentShare(c)' = SpentShare(c),
           NEW dh \in Int, HeldShare(c)' = HeldShare(c) + dh,
           NEW df \in Int, OutShare(c) = OutShare(c)' + df
    PROVE  SharesMove(c, u, dh, df)
<1> DEFINE b == account[u].balance
           s == account[u].spent
           h == HeldShare(c)
           o == OutShare(c)'
           t == SpentShare(c)
<1>1. b \in Int /\ s \in Int /\ h \in Int /\ o \in Int /\ t \in Int
  BY DEF TypeOK, UserEscrow, Call, HeldShare, OutShare, SpentShare
<1>2. /\ HeldShare(c)' = h + dh /\ OutShare(c) = o + df /\ SpentShare(c)' = t
      /\ account'[u].balance = b /\ account'[u].spent = s /\ account'[u].open = account[u].open
  OBVIOUS
<1> HIDE DEF b, s, h, o, t
<1>3. s = s + (t - t) /\ (h + dh) - h = dh /\ (b - b) - (o - (o + df)) = df
  BY <1>1
<1> QED
  BY <1>2, <1>3 DEF SharesMove, b, s, h, o, t

-----------------------------------------------------------------------------
\* The steps of payments, deposits and withdrawals

LEMMA Underway ==
    ASSUME Honest, NEW c \in Calls, Busy(c)
    PROVE  /\ TypeOK /\ TurnsInv /\ SpentExact /\ Sound(c) /\ Enough(c) /\ ~At(c, "idle")
           /\ call[c].amount \in Amounts /\ call[c].amount \in Nat
           /\ \E u \in Users : /\ u = User(c) /\ account[u].open
                               /\ account[u].balance \in Nat /\ account[u].spent \in Int
<1>1. TypeOK /\ TurnsInv /\ SpentExact /\ Sound(c) /\ Enough(c) /\ ~At(c, "idle")
  BY DEF Honest, TurnsInv, IInv, Busy, At
<1>2. User(c) \in Users /\ account[User(c)].open
      /\ call[c].amount \in Amounts /\ call[c].amount \in Nat
  BY <1>1, BusyFields
<1>3. account[User(c)].balance \in Nat /\ account[User(c)].spent \in Int
  BY <1>1, <1>2 DEF TypeOK, UserEscrow
<1> QED
  BY <1>1, <1>2, <1>3

\* Nothing else of the user's is out, so the balance is what can be spent.
LEMMA FundsFree ==
    ASSUME TurnsInv, NEW c \in Calls, Busy(c), ~(c \in Withdrawals /\ Undeducted(c)),
           NEW u \in Users, u = User(c)
    PROVE  Funds(u) = account[u].balance
<1>1. Summed(u) /\ account[u].balance \in Nat
  BY AllSummed DEF CallsTyped, TurnsInv, IInv, TypeOK, UserEscrow
<1>2. \A d \in Calls : OutOf(u)[d] = 0
  BY DEF OutOf, TurnsInv, Alone, Busy, Undeducted, Ended
<1>3. SumFunction(OutOf(u)) = 0
  <2>1. OutOf(u) \in [Calls -> Int]
    BY <1>1 DEF Summed
  <2> QED
    BY <1>2, <2>1, SumOfZeros, WalletAssumption
<1> QED
  BY <1>1, <1>3 DEF Summed

LEMMA SendHonest ==
    ASSUME Honest, IInv', OneAtATime, NEW c \in Senders, Send(c) PROVE Honoured
<1>1. c \in Calls /\ Busy(c) /\ TypeOK' /\ At(c, "ready")
  BY DEF Calls, Send, At, Busy, Ended, IInv
<1>2. PICK u \in Users : /\ u = User(c) /\ account[u].open
                         /\ account[u].balance \in Nat /\ account[u].spent \in Int
  BY <1>1, Underway
<1>3. TypeOK /\ TurnsInv /\ SpentExact /\ Sound(c) /\ Enough(c)
      /\ call[c].amount \in Amounts /\ call[c].amount \in Nat
  BY <1>1, Underway
<1>4. /\ GoesOn(c, "sent") /\ call'[c].copy = call[c].copy /\ call'[c].pc = "sent"
      /\ call'[c].amount = call[c].amount
      /\ account' = account /\ paidIn' = paidIn /\ vault' = vault
      /\ transfer'[c] = "sent" /\ \A d \in Senders \ {c} : transfer'[d] = transfer[d]
  BY <1>1, <1>3, GotoGoes DEF GoesOn, Send, redis, TypeOK
<1>5. OnlyAccount(u) /\ Placed(c)' /\ Moved(c)' /\ c \notin Deposits
  BY <1>1, <1>3, <1>4, Kinds DEF OnlyAccount, Sound, Placed, Moved, At
<1>6. transfer[c] = "none"
  BY <1>1, <1>3 DEF Sound, Moved, At
<1> DEFINE a == call[c].amount
<1>7. CASE c \in Payments
  <2>1. /\ HeldShare(c) = a /\ HeldShare(c)' = a /\ OutShare(c) = 0 /\ OutShare(c)' = 0
        /\ SpentShare(c)' = SpentShare(c)
    BY <1>1, <1>4, <1>6, <1>7, Kinds DEF HeldShare, OutShare, SpentShare, Charged, At
  <2>2. SharesMove(c, u, 0, 0)
    BY <1>1, <1>3, <1>4, <2>1, SharesStay
  <2>3. /\ TurnsInv' /\ SpentExact' /\ TotalsMove(u, 0, 0)
        /\ (c \in Deposits => "sent" # "done") => Unclaimed' = Unclaimed
    BY <1>1, <1>2, <1>4, <1>5, <1>7, <2>2, GoMoves
  <2> QED
    BY <1>4, <1>5, <2>3, KeepStep
<1>8. CASE c \in Withdrawals
  <2>1. /\ HeldShare(c) = 0 /\ HeldShare(c)' = a /\ OutShare(c) = 0 /\ OutShare(c)' = a
        /\ SpentShare(c)' = SpentShare(c)
    BY <1>1, <1>4, <1>6, <1>8, Kinds
    DEF HeldShare, OutShare, SpentShare, Charged, Undeducted, At
  <2>2. SharesMove(c, u, a, -a)
    BY <1>1, <1>3, <1>4, <2>1, SharesStay
  <2>3. call[c].copy = account[u]
    BY <1>1, <1>2, <1>3, <1>8, Kinds DEF Sound, Current
  <2>4. /\ TurnsInv' /\ SpentExact' /\ TotalsMove(u, a, -a)
        /\ (c \in Deposits => "sent" # "done") => Unclaimed' = Unclaimed
    BY <1>1, <1>2, <1>3, <1>4, <1>5, <2>2, <2>3, GoMoves
  <2>5. Funds(u) = account[u].balance
    BY <1>1, <1>2, <1>3, FundsFree DEF Undeducted, At
  <2>6. account[u].balance >= a
    BY <1>1, <1>3, <1>8, <2>3 DEF Enough, At
  <2> QED
    BY <1>2, <1>3, <1>4, <1>5, <2>4, <2>5, <2>6, HoldStep
<1> QED
  BY <1>7, <1>8, Kinds

\* A call writes its record back.
LEMMA SharesWritten ==
    ASSUME TypeOK, TypeOK', NEW c \in Calls, NEW u \in Users, NEW b \in Int, NEW s \in Int,
           account'[u].open = account[u].open,
           account'[u].balance = account[u].balance + b,
           account'[u].spent = account[u].spent + s,
           SpentShare(c)' = SpentShare(c) + s,
           NEW dh \in Int, HeldShare(c)' = HeldShare(c) + dh,
           NEW df \in Int, OutShare(c) + b = OutShare(c)' + df
    PROVE  SharesMove(c, u, dh, df)
<1> DEFINE k == account[u].balance
           l == account[u].spent
           h == HeldShare(c)
           o == OutShare(c)
           q == OutShare(c)'
           t == SpentShare(c)
<1>1. k \in Int /\ l \in Int /\ h \in Int /\ o \in Int /\ q \in Int /\ t \in Int
  BY DEF TypeOK, UserEscrow, Call, HeldShare, OutShare, SpentShare
<1>2. /\ HeldShare(c)' = h + dh /\ SpentShare(c)' = t + s /\ o + b = q + df
      /\ account'[u].balance = k + b /\ account'[u].spent = l + s
      /\ account'[u].open = account[u].open
  OBVIOUS
<1> HIDE DEF k, l, h, o, q, t
<1>3. l + s = l + ((t + s) - t) /\ (h + dh) - h = dh /\ ((k + b) - k) - (q - o) = df
  BY <1>1, <1>2
<1> QED
  BY <1>2, <1>3 DEF SharesMove, k, l, h, o, q, t

LEMMA DeductHonest ==
    ASSUME Honest, IInv', OneAtATime, NEW p \in Payments, PayDeduct(p) PROVE Honoured
<1>1. p \in Calls /\ p \in Senders /\ p \notin Withdrawals /\ p \notin Deposits
      /\ Busy(p) /\ TypeOK' /\ At(p, "checked")
  BY Kinds DEF PayDeduct, At, Busy, Ended, IInv
<1>2. PICK u \in Users : /\ u = User(p) /\ account[u].open
                         /\ account[u].balance \in Nat /\ account[u].spent \in Int
  BY <1>1, Underway
<1>3. TypeOK /\ TurnsInv /\ SpentExact /\ Sound(p) /\ Enough(p)
      /\ call[p].amount \in Amounts /\ call[p].amount \in Nat
  BY <1>1, Underway
<1> DEFINE a == call[p].amount
<1>4. /\ GoesOn(p, "ready") /\ call'[p].pc = "ready" /\ call'[p].amount = a
      /\ transfer' = transfer /\ paidIn' = paidIn /\ vault' = vault
  BY <1>1, <1>3, GotoGoes DEF GoesOn, PayDeduct, chain
<1>5. call[p].copy = account[u] /\ transfer[p] = "none"
  BY <1>1, <1>2, <1>3 DEF Sound, Current, Moved, At
<1>6. /\ OnlyAccount(u) /\ account'[u].balance = account[u].balance + (-a)
      /\ account'[u].spent = account[u].spent + a /\ account'[u].open = account[u].open
  <2>1. WriteBack(p, -a, a) /\ -a \in Int /\ a \in Int
    BY <1>3 DEF PayDeduct
  <2> HIDE DEF a
  <2> QED
    BY <1>1, <1>2, <1>3, <1>5, <2>1, WriteBackFields
<1>7. Placed(p)' /\ Moved(p)'
  BY <1>1, <1>4, <1>5 DEF Placed, Moved
<1>8. /\ HeldShare(p) = 0 /\ HeldShare(p)' = a /\ OutShare(p) = 0 /\ OutShare(p)' = 0
      /\ SpentShare(p) = 0 /\ SpentShare(p)' = a
  BY <1>1, <1>4, <1>5 DEF HeldShare, OutShare, SpentShare, Charged, At
<1>9. SharesMove(p, u, a, -a)
  BY <1>1, <1>3, <1>6, <1>8, SharesWritten
<1>10. /\ TurnsInv' /\ SpentExact' /\ TotalsMove(u, a, -a)
       /\ (p \in Deposits => "ready" # "done") => Unclaimed' = Unclaimed
  BY <1>1, <1>2, <1>3, <1>4, <1>6, <1>7, <1>9, GoMoves
<1>11. Funds(u) = account[u].balance
  BY <1>1, <1>2, <1>3, FundsFree
<1>12. account[u].balance >= a
  BY <1>1, <1>3, <1>5 DEF Enough
<1> QED
  BY <1>1, <1>2, <1>3, <1>4, <1>10, <1>11, <1>12, HoldStep

LEMMA RecordHonest ==
    ASSUME Honest, IInv', OneAtATime, NEW p \in Payments, PayRecord(p) PROVE Honoured
<1>1. p \in Calls /\ p \in Senders /\ p \notin Withdrawals /\ p \notin Deposits
      /\ Busy(p) /\ TypeOK' /\ At(p, "confirmed")
  BY Kinds DEF PayRecord, At, Busy, Ended, IInv
<1>2. PICK u \in Users : u = User(p)
  BY <1>1, Underway
<1>3. TypeOK /\ Sound(p) /\ call[p].amount \in Nat
  BY <1>1, Underway
<1>4. /\ GoesOn(p, "done") /\ call'[p].pc = "done" /\ call'[p].amount = call[p].amount
      /\ transfer' = transfer /\ paidIn' = paidIn /\ vault' = vault /\ account' = account
  BY <1>1, <1>3, GotoGoes DEF GoesOn, PayRecord, chain
<1>5. OnlyAccount(u) /\ Placed(p)' /\ Moved(p)'
  BY <1>1, <1>3, <1>4 DEF OnlyAccount, Placed, Moved, Sound, At
<1>6. /\ HeldShare(p)' = HeldShare(p) /\ OutShare(p) = 0 /\ OutShare(p)' = 0
      /\ SpentShare(p)' = SpentShare(p) /\ HeldShare(p) \in Int
  BY <1>1, <1>3, <1>4 DEF HeldShare, OutShare, SpentShare, Charged, At
<1>7. SharesMove(p, u, 0, 0)
  BY <1>1, <1>3, <1>4, <1>6, SharesStay
<1>8. /\ TurnsInv' /\ SpentExact' /\ TotalsMove(u, 0, 0)
      /\ (p \in Deposits => "done" # "done") => Unclaimed' = Unclaimed
  BY <1>1, <1>2, <1>4, <1>5, <1>7, GoMoves DEF Ended
<1> QED
  BY <1>1, <1>4, <1>8, KeepStep

LEMMA RefundReadHonest ==
    ASSUME Honest, IInv', OneAtATime, NEW p \in Payments, RefundRead(p) PROVE Honoured
<1>1. p \in Calls /\ p \in Senders /\ p \notin Withdrawals /\ p \notin Deposits
      /\ Busy(p) /\ TypeOK' /\ At(p, "refund")
  BY Kinds DEF RefundRead, At, Busy, Ended, IInv
<1>2. PICK u \in Users : u = User(p)
  BY <1>1, Underway
<1>3. TypeOK /\ Sound(p) /\ call[p].amount \in Nat
  BY <1>1, Underway
<1>4. /\ GoesOn(p, "refunding") /\ call'[p].pc = "refunding"
      /\ call'[p].amount = call[p].amount /\ call'[p].copy = account[u]
      /\ transfer' = transfer /\ paidIn' = paidIn /\ vault' = vault /\ account' = account
  BY <1>1, <1>2, <1>3 DEF GoesOn, RefundRead, redis, chain, TypeOK, Call
<1>5. OnlyAccount(u) /\ Placed(p)' /\ Moved(p)'
  BY <1>1, <1>3, <1>4 DEF OnlyAccount, Placed, Moved, Sound, At
<1>6. /\ HeldShare(p)' = HeldShare(p) /\ OutShare(p) = 0 /\ OutShare(p)' = 0
      /\ SpentShare(p)' = SpentShare(p) /\ HeldShare(p) \in Int
  BY <1>1, <1>3, <1>4 DEF HeldShare, OutShare, SpentShare, Charged, At
<1>7. SharesMove(p, u, 0, 0)
  BY <1>1, <1>3, <1>4, <1>6, SharesStay
<1>8. /\ TurnsInv' /\ SpentExact' /\ TotalsMove(u, 0, 0)
      /\ (p \in Deposits => "refunding" # "done") => Unclaimed' = Unclaimed
  BY <1>1, <1>2, <1>4, <1>5, <1>7, GoMoves
<1> QED
  BY <1>1, <1>4, <1>8, KeepStep

\* What is refunded was deducted, and its transfer is not executed any more.
LEMMA RefundWriteHonest ==
    ASSUME Honest, IInv', OneAtATime, NEW p \in Payments, RefundWrite(p) PROVE Honoured
<1>1. p \in Calls /\ p \in Senders /\ p \notin Withdrawals /\ p \notin Deposits
      /\ Busy(p) /\ TypeOK' /\ At(p, "refunding")
  BY Kinds DEF RefundWrite, At, Busy, Ended, IInv
<1>2. PICK u \in Users : u = User(p)
  BY <1>1, Underway
<1>3. TypeOK /\ TurnsInv /\ Sound(p) /\ call[p].amount \in Amounts /\ call[p].amount \in Nat
  BY <1>1, Underway
<1> DEFINE a == call[p].amount
<1>4. /\ GoesOn(p, "refunded") /\ call'[p].pc = "refunded" /\ call'[p].amount = a
      /\ transfer' = transfer /\ paidIn' = paidIn /\ vault' = vault
  BY <1>1, <1>3, GotoGoes DEF GoesOn, RefundWrite, chain
<1>5. call[p].copy = account[u] /\ transfer[p] \notin {"sent", "landed"}
  BY <1>1, <1>2, <1>3 DEF Sound, Current, Moved, At
<1>6. /\ OnlyAccount(u) /\ account'[u].balance = account[u].balance + a
      /\ account'[u].spent = account[u].spent + (-a) /\ account'[u].open = account[u].open
  BY <1>1, <1>2, <1>3, <1>5, WriteBackFields DEF RefundWrite
<1>7. Placed(p)' /\ Moved(p)'
  BY <1>1, <1>4, <1>5 DEF Placed, Moved
<1>8. /\ HeldShare(p) = a /\ HeldShare(p)' = 0 /\ OutShare(p) = 0 /\ OutShare(p)' = 0
      /\ SpentShare(p) = a /\ SpentShare(p)' = 0
  BY <1>1, <1>4, <1>5 DEF HeldShare, OutShare, SpentShare, Charged, At
<1>9. SharesMove(p, u, -a, a)
  BY <1>1, <1>3, <1>6, <1>8, SharesWritten
<1>10. /\ TurnsInv' /\ SpentExact' /\ TotalsMove(u, -a, a)
       /\ (p \in Deposits => "refunded" # "done") => Unclaimed' = Unclaimed
  BY <1>1, <1>2, <1>3, <1>4, <1>6, <1>7, <1>9, GoMoves DEF Ended
<1> QED
  BY <1>1, <1>3, <1>4, <1>10, ReleaseStep

LEMMA WithdrawWriteHonest ==
    ASSUME Honest, IInv', OneAtATime, NEW w \in Withdrawals, WithdrawWrite(w) PROVE Honoured
<1>1. w \in Calls /\ w \in Senders /\ w \notin Payments /\ w \notin Deposits
      /\ Busy(w) /\ TypeOK' /\ At(w, "confirmed")
  BY Kinds DEF WithdrawWrite, At, Busy, Ended, IInv
<1>2. PICK u \in Users : u = User(w)
  BY <1>1, Underway
<1>3. TypeOK /\ TurnsInv /\ Sound(w) /\ call[w].amount \in Amounts /\ call[w].amount \in Nat
  BY <1>1, Underway
<1> DEFINE a == call[w].amount
<1>4. /\ GoesOn(w, "done") /\ call'[w].pc = "done" /\ call'[w].amount = a
      /\ transfer' = transfer /\ paidIn' = paidIn /\ vault' = vault
  BY <1>1, <1>3, GotoGoes DEF GoesOn, WithdrawWrite, chain
<1>5. call[w].copy = account[u]
  BY <1>1, <1>2, <1>3 DEF Sound, Current
<1>6. /\ OnlyAccount(u) /\ account'[u].balance = account[u].balance + (-a)
      /\ account'[u].spent = account[u].spent + 0 /\ account'[u].open = account[u].open
  BY <1>1, <1>2, <1>3, <1>5, WriteBackFields DEF WithdrawWrite
<1>7. Placed(w)' /\ Moved(w)'
  BY <1>1, <1>3, <1>4 DEF Placed, Moved, Sound, At
<1>8. /\ HeldShare(w)' = HeldShare(w) /\ HeldShare(w) \in Int
      /\ OutShare(w) = a /\ OutShare(w)' = 0 /\ SpentShare(w) = 0 /\ SpentShare(w)' = 0
  BY <1>1, <1>3, <1>4 DEF HeldShare, OutShare, SpentShare, Charged, Undeducted, At
<1>9. SharesMove(w, u, 0, 0)
  <2>1. OutShare(w) + (-a) = OutShare(w)' + 0 /\ SpentShare(w)' = SpentShare(w) + 0
        /\ HeldShare(w)' = HeldShare(w) + 0
    BY <1>3, <1>8
  <2> QED
    BY <1>1, <1>3, <1>6, <2>1, SharesWritten
<1>10. /\ TurnsInv' /\ SpentExact' /\ TotalsMove(u, 0, 0)
       /\ (w \in Deposits => "done" # "done") => Unclaimed' = Unclaimed
  BY <1>1, <1>2, <1>3, <1>4, <1>6, <1>7, <1>9, GoMoves DEF Ended
<1> QED
  BY <1>1, <1>4, <1>10, KeepStep

\* The transfer behind a deposit has been credited to nobody else.
LEMMA DepositWriteHonest ==
    ASSUME Honest, IInv', OneAtATime, NEW d \in Deposits, DepositWrite(d) PROVE Honoured
<1>1. d \in Calls /\ d \notin Senders /\ d \notin Payments /\ d \notin Withdrawals
      /\ Busy(d) /\ TypeOK' /\ At(d, "read")
  BY Kinds DEF DepositWrite, At, Busy, Ended, IInv
<1>2. PICK u \in Users : u = User(d) /\ account[u].open
  BY <1>1, Underway
<1>3. /\ TypeOK /\ TurnsInv /\ Sound(d) /\ ~At(d, "idle")
      /\ call[d].amount \in Amounts /\ call[d].amount \in Nat
  BY <1>1, Underway
<1> DEFINE a == call[d].amount
<1>4. /\ GoesOn(d, "done") /\ call'[d].pc = "done" /\ call'[d].amount = a
      /\ transfer' = transfer /\ paidIn' = paidIn /\ vault' = vault
  BY <1>1, <1>3, GotoGoes DEF GoesOn, DepositWrite, chain
<1>5. call[d].copy = account[u]
  BY <1>1, <1>2, <1>3 DEF Sound, Current
<1>6. /\ OnlyAccount(u) /\ account'[u].balance = account[u].balance + a
      /\ account'[u].spent = account[u].spent + 0 /\ account'[u].open = account[u].open
  <2>1. WriteBack(d, a, 0) /\ a \in Int
    BY <1>3 DEF DepositWrite
  <2>2. call[d].copy = account[User(d)] /\ TurnsInv /\ Busy(d)
    BY <1>1, <1>2, <1>3, <1>5
  <2> HIDE DEF a
  <2>3. /\ OnlyAccount(User(d)) /\ account'[User(d)].balance = account[User(d)].balance + a
        /\ account'[User(d)].spent = account[User(d)].spent + 0
        /\ account'[User(d)].open = account[User(d)].open
    BY <1>1, <2>1, <2>2, WriteBackFields
  <2> QED
    BY <1>2, <2>3
<1>7. Placed(d)'
  BY <1>1, <1>4 DEF Placed
<1>8. /\ HeldShare(d) = 0 /\ HeldShare(d)' = 0 /\ OutShare(d) = 0 /\ OutShare(d)' = 0
      /\ SpentShare(d) = 0 /\ SpentShare(d)' = 0
  BY <1>1 DEF HeldShare, OutShare, SpentShare
<1>9. SharesMove(d, u, 0, a)
  BY <1>1, <1>3, <1>6, <1>8, SharesWritten
<1>10. TurnsInv' /\ SpentExact' /\ TotalsMove(u, 0, a)
  BY <1>1, <1>2, <1>3, <1>4, <1>6, <1>7, <1>9, GoMoves DEF Ended
<1>11. PICK x \in DepositTxs : x = call[d].tx /\ a = paidIn[x]
  BY <1>3 DEF Sound, Funded
<1>12. UnclaimedOf[x] = a /\ UnclaimedOf'[x] = 0
  <2>1. ~Credited(x)
    BY <1>1, <1>3, <1>11, WalletAssumption DEF Credited, At, TurnsInv, CreditedOnce
  <2>2. Credited(x)'
    BY <1>4, <1>11 DEF Credited, At, GoesOn
  <2> QED
    BY <1>11, <2>1, <2>2 DEF UnclaimedOf
<1>13. \A y \in DepositTxs \ {x} : UnclaimedOf'[y] = UnclaimedOf[y]
  <2>1. ASSUME NEW y \in DepositTxs \ {x} PROVE Credited(y)' <=> Credited(y)
    BY <1>1, <1>4, <1>11, Kinds DEF Credited, At, GoesOn
  <2> QED
    BY <1>4, <2>1 DEF UnclaimedOf
<1>14. Unclaimed' = Unclaimed + (0 - a) /\ Unclaimed >= a /\ Unclaimed \in Nat
  BY <1>3, <1>4, <1>12, <1>13, PaidInNat, UnclaimedTyped, UnclaimedMoves
<1>15. Unclaimed' = Unclaimed - a
  BY <1>3, <1>14
<1> QED
  BY <1>2, <1>3, <1>4, <1>10, <1>14, <1>15, CreditStep

LEMMA ConfirmHonest ==
    ASSUME Honest, IInv', OneAtATime, NEW c \in Senders, Confirm(c) PROVE Honoured
<1>1. c \in Calls /\ c \notin Deposits /\ Busy(c) /\ TypeOK' /\ At(c, "sent")
  BY Kinds DEF Confirm, At, Busy, Ended, IInv
<1>2. PICK u \in Users : u = User(c)
  BY <1>1, Underway
<1>3. TypeOK /\ Sound(c) /\ call[c].amount \in Nat
  BY <1>1, Underway
<1>4. /\ GoesOn(c, "confirmed") /\ call'[c].copy = call[c].copy
      /\ call'[c].pc = "confirmed" /\ call'[c].amount = call[c].amount
      /\ transfer' = transfer /\ paidIn' = paidIn /\ vault' = vault /\ account' = account
  BY <1>1, <1>3, GotoGoes DEF GoesOn, Confirm, redis, chain
<1>5. OnlyAccount(u) /\ Placed(c)' /\ Moved(c)'
  BY <1>1, <1>3, <1>4, Kinds DEF OnlyAccount, Placed, Moved, Sound, At
<1>6. c \in Withdrawals => call'[c].copy = account'[u]
  BY <1>1, <1>2, <1>3, <1>4, Kinds DEF Sound, Current
<1>7. /\ HeldShare(c)' = HeldShare(c) /\ OutShare(c)' = OutShare(c)
      /\ SpentShare(c)' = SpentShare(c) /\ HeldShare(c) \in Int /\ OutShare(c) \in Int
  BY <1>1, <1>3, <1>4 DEF HeldShare, OutShare, SpentShare, Charged, Undeducted, At
<1>8. SharesMove(c, u, 0, 0)
  BY <1>1, <1>3, <1>4, <1>7, SharesStay
<1>9. /\ TurnsInv' /\ SpentExact' /\ TotalsMove(u, 0, 0)
      /\ (c \in Deposits => "confirmed" # "done") => Unclaimed' = Unclaimed
  BY <1>1, <1>2, <1>4, <1>5, <1>6, <1>8, Kinds, GoMoves
<1> QED
  BY <1>1, <1>4, <1>9, KeepStep

\* A call is broken off when its transfer can no longer be executed: what a
\* withdrawal had taken comes back, a payment keeps it until it is refunded.
LEMMA CaughtHonest ==
    ASSUME Honest, IInv', OneAtATime, NEW c \in Calls, Busy(c), Caught(c),
           account' = account, transfer' = transfer, paidIn' = paidIn, vault' = vault,
           c \in Senders => transfer[c] \notin {"sent", "landed"}
    PROVE  Honoured
<1>1. PICK u \in Users : u = User(c)
  BY Underway
<1>2. /\ TypeOK /\ TypeOK' /\ Sound(c)
      /\ call[c].amount \in Amounts /\ call[c].amount \in Nat
  BY Underway DEF IInv
<1>3. call[c].pc \in {"read", "checked", "ready", "sent", "confirmed", "refund", "refunding"}
  BY <1>2 DEF TypeOK, Call, PC, Busy
<1>4. PICK pc \in {"failed", "refund", "lost"} :
        /\ Goto(c, pc)
        /\ c \in Payments =>
             /\ pc = "refund" <=> call[c].pc \in {"ready", "sent", "confirmed"}
             /\ pc = "failed" <=> At(c, "checked")
        /\ c \notin Payments => pc = "failed"
  <2>1. CASE c \in Payments
    BY <2>1 DEF Caught, Broken, At
  <2>2. CASE c \notin Payments
    BY <2>2 DEF Caught, Broken
  <2> QED
    BY <2>1, <2>2
<1>5. /\ GoesOn(c, pc) /\ call'[c].pc = pc /\ call'[c].amount = call[c].amount
  BY <1>2, <1>4, GotoGoes DEF GoesOn
<1>6. OnlyAccount(u) /\ Placed(c)' /\ (c \in Senders => Moved(c)')
  BY <1>2, <1>4, <1>5, Kinds DEF OnlyAccount, Placed, Moved
<1> DEFINE a == call[c].amount
<1>7. \/ /\ HeldShare(c)' = HeldShare(c) /\ OutShare(c)' = OutShare(c)
         /\ SpentShare(c)' = SpentShare(c)
      \/ /\ HeldShare(c) = a /\ HeldShare(c)' = 0 /\ OutShare(c) = a /\ OutShare(c)' = 0
         /\ SpentShare(c)' = SpentShare(c)
  <2>1. CASE c \in Deposits
    BY <2>1, Kinds DEF HeldShare, OutShare, SpentShare
  <2>2. CASE c \in Payments
    BY <1>2, <1>3, <1>4, <1>5, <2>2, Kinds
    DEF HeldShare, OutShare, SpentShare, Charged, Sound, Placed, At
  <2>3. CASE c \in Withdrawals
    BY <1>2, <1>3, <1>4, <1>5, <2>3, Kinds
    DEF HeldShare, OutShare, SpentShare, Charged, Undeducted, Sound, Placed, At
  <2> QED
    BY <2>1, <2>2, <2>3, Kinds
<1>8. pc # "done" /\ (pc \in Ended \/ (c \in Payments /\ pc \notin {"checked", "refunding"}))
  BY <1>4 DEF Ended
<1>9. CASE /\ HeldShare(c)' = HeldShare(c) /\ OutShare(c)' = OutShare(c)
           /\ SpentShare(c)' = SpentShare(c)
  <2>1. HeldShare(c) \in Int /\ OutShare(c) \in Int
    BY <1>2 DEF HeldShare, OutShare
  <2>2. SharesMove(c, u, 0, 0)
    BY <1>2, <1>9, <2>1, SharesStay
  <2>3. TurnsInv' /\ SpentExact' /\ TotalsMove(u, 0, 0) /\ Unclaimed' = Unclaimed
    BY <1>1, <1>5, <1>6, <1>8, <2>2, GoMoves
  <2> QED
    BY <2>3, KeepStep
<1>10. CASE /\ HeldShare(c) = a /\ HeldShare(c)' = 0 /\ OutShare(c) = a /\ OutShare(c)' = 0
            /\ SpentShare(c)' = SpentShare(c)
  <2>1. SharesMove(c, u, -a, a)
    <3>1. /\ HeldShare(c)' = HeldShare(c) + (-a) /\ OutShare(c) = OutShare(c)' + a
          /\ -a \in Int /\ a \in Int
      BY <1>2, <1>10
    <3> HIDE DEF a
    <3> QED
      BY <1>2, <1>10, <3>1, SharesStay
  <2>2. TurnsInv' /\ SpentExact' /\ TotalsMove(u, -a, a) /\ Unclaimed' = Unclaimed
    BY <1>1, <1>2, <1>5, <1>6, <1>8, <2>1, GoMoves
  <2> QED
    BY <1>2, <2>2, ReleaseStep
<1> QED
  BY <1>7, <1>9, <1>10

LEMMA ConfirmExpiredHonest ==
    ASSUME Honest, IInv', OneAtATime, NEW c \in Senders, ConfirmExpired(c) PROVE Honoured
<1>1. c \in Calls /\ Busy(c) /\ transfer[c] \notin {"sent", "landed"}
  BY Kinds DEF ConfirmExpired, At, Busy, Ended
<1> QED
  BY <1>1, CaughtHonest DEF ConfirmExpired, redis, chain

LEMMA ThrowHonest ==
    ASSUME Honest, IInv', OneAtATime, NoDoubt, NEW c \in Calls, Throw(c) PROVE Honoured
<1>1. c \in Senders => transfer[c] \notin {"sent", "landed"}
  BY DEF NoDoubt, Undecided, Throw
<1> QED
  BY <1>1, CaughtHonest DEF Throw, redis, chain

\* What is executed was taken from the account before.
LEMMA ChainHonest ==
    ASSUME Honest, IInv', OneAtATime, NEW c \in Senders, ChainStep(c) PROVE Honoured
<1>1. /\ c \in Calls /\ c \notin Deposits
      /\ TypeOK /\ TypeOK' /\ TurnsInv /\ SpentExact /\ Sound(c) /\ Enough(c)
  BY Kinds DEF Honest, TurnsInv, IInv
<1>2. PICK o \in {"landed", "rejected", "expired"} :
        /\ transfer[c] = "sent" /\ transfer' = [transfer EXCEPT ![c] = o]
        /\ call' = call /\ account' = account /\ paidIn' = paidIn
        /\ o = "landed" => vault' = vault - call[c].amount
        /\ o # "landed" => vault' = vault
  <2>1. CASE Land(c)
    BY <2>1 DEF Land, Executed, redis
  <2>2. CASE Reject(c)
    BY <2>2 DEF Reject, Executed, redis
  <2>3. CASE Expire(c)
    BY <2>3 DEF Expire, Executed, redis
  <2> QED
    BY <2>1, <2>2, <2>3 DEF ChainStep
<1>3. transfer'[c] = o /\ \A d \in Senders \ {c} : transfer'[d] = transfer[d]
  BY <1>1, <1>2 DEF TypeOK
<1>4. /\ ~At(c, "idle") /\ Charged(c)
      /\ call[c].pc \in {"sent", "confirmed", "done"} \cup
             (IF c \in Payments THEN {"lost"} ELSE {})
  BY <1>1, <1>2 DEF Sound, Moved, Charged, At
<1>5. PICK u \in Users : u = User(c)
  BY <1>1, <1>4 DEF Enough
<1> DEFINE a == call[c].amount
<1>6. a \in Amounts /\ a \in Nat
  BY <1>1, <1>4, WalletAssumption DEF Sound
<1>7. OnlyCall(c) /\ OnlyAccount(u) /\ User(c)' = u
  BY <1>2, <1>3, <1>5 DEF OnlyCall, OnlyAccount, User
<1>8. TurnsInv'
  <2>1. Sound(c)'
    BY <1>1, <1>2, <1>3, <1>4 DEF Sound, Placed, Current, Busy, User, Moved, At
  <2>2. Blank(u)'
    BY <1>1, <1>2 DEF TurnsInv, Blank
  <2> QED
    BY <1>1, <1>2, <1>7, <2>1, <2>2, CallTurns
<1>9. /\ HeldShare(c) = a /\ HeldShare(c)' = (IF o = "landed" THEN 0 ELSE a)
      /\ OutShare(c)' = OutShare(c) /\ SpentShare(c)' = SpentShare(c)
      /\ OutShare(c) \in Int
  BY <1>2, <1>3, <1>4, <1>6 DEF HeldShare, OutShare, SpentShare, Charged, Undeducted
<1>10. Unclaimed' = Unclaimed
  BY <1>2, UnclaimedKept
<1>11. CASE o = "landed"
  <2>1. SharesMove(c, u, -a, 0)
    <3>1. /\ HeldShare(c)' = HeldShare(c) + (-a) /\ OutShare(c) = OutShare(c)' + 0
          /\ -a \in Int /\ SpentShare(c)' = SpentShare(c)
      BY <1>6, <1>9, <1>11
    <3> HIDE DEF a
    <3> QED
      BY <1>1, <1>2, <3>1, SharesStay
  <2>2. TotalsMove(u, -a, 0) /\ SpentExact'
    BY <1>1, <1>5, <1>6, <1>7, <2>1, CallTotals
  <2>3. Held(u) >= a
    <3>1. Summed(u)
      BY <1>1, AllSummed DEF CallsTyped, TypeOK
    <3>2. HeldOf(u)[c] = a
      BY <1>1, <1>2, <1>4, <1>5 DEF HeldOf
    <3>3. SumFunction(HeldOf(u)) >= HeldOf(u)[c]
      BY <1>1, <3>1, SumAtLeastEntry, WalletAssumption DEF Summed
    <3> QED
      BY <3>1, <3>2, <3>3 DEF Summed
  <2> QED
    BY <1>2, <1>6, <1>8, <1>10, <1>11, <2>2, <2>3, PayOutStep
<1>12. CASE o # "landed"
  <2>1. SharesMove(c, u, 0, 0)
    BY <1>1, <1>2, <1>6, <1>9, <1>12, SharesStay
  <2>2. TotalsMove(u, 0, 0) /\ SpentExact'
    BY <1>1, <1>5, <1>7, <2>1, CallTotals
  <2> QED
    BY <1>2, <1>8, <1>10, <1>12, <2>2, KeepStep
<1> QED
  BY <1>11, <1>12

-----------------------------------------------------------------------------
\* The steps of no call, or of all

LEMMA ClaimsKept ==
    ASSUME \A v \in Users : Funds(v)' + Held(v)' = Funds(v) + Held(v)
    PROVE  Claims' = Claims
<1>1. [v \in Users |-> Funds(v)' + Held(v)'] = [v \in Users |-> Funds(v) + Held(v)]
  OBVIOUS
<1> QED
  BY <1>1 DEF Claims

\* Only the records change.
LEMMA CallsStay ==
    ASSUME TypeOK, TypeOK', call' = call, transfer' = transfer,
           \A v \in Users : account'[v].balance = account[v].balance
    PROVE  /\ \A v \in Users : Held(v)' = Held(v) /\ Funds(v)' = Funds(v) /\ Spent(v)' = Spent(v)
           /\ Claims' = Claims
<1>1. ASSUME NEW v \in Users
      PROVE  Held(v)' = Held(v) /\ Funds(v)' = Funds(v) /\ Spent(v)' = Spent(v)
  <2>1. HeldOf(v)' = HeldOf(v) /\ OutOf(v)' = OutOf(v) /\ SpentOf(v)' = SpentOf(v)
    BY DEF HeldOf, OutOf, SpentOf, User, Charged, Undeducted
  <2>2. Summed(v) /\ Summed(v)'
    BY AllSummed, AllSummedNext DEF CallsTyped, TypeOK
  <2> QED
    BY <2>1, <2>2 DEF Summed
<1> QED
  BY <1>1, ClaimsKept

LEMMA CreateHonest ==
    ASSUME Honest, IInv', OneAtATime, NEW u \in Users, Create(u) PROVE Honoured
<1>1. TypeOK /\ TypeOK' /\ TurnsInv /\ SpentExact /\ Backed
  BY DEF Honest, TurnsInv, IInv
<1>2. ~account[u].open
  BY DEF OneAtATime
<1>3. account[u].balance = 0 /\ account[u].spent = 0
  BY <1>1, <1>2 DEF TurnsInv, Blank
<1>4. /\ account'[u].open /\ account'[u].balance = 0 /\ account'[u].spent = 0
      /\ \A v \in Users \ {u} : account'[v] = account[v]
      /\ call' = call /\ transfer' = transfer /\ vault' = vault /\ paidIn' = paidIn
  BY <1>1 DEF Create, chain, TypeOK, NewEscrow
<1>5. /\ \A v \in Users : Held(v)' = Held(v) /\ Funds(v)' = Funds(v) /\ Spent(v)' = Spent(v)
      /\ Claims' = Claims
  <2>1. \A v \in Users : account'[v].balance = account[v].balance
    BY <1>3, <1>4
  <2> QED
    BY <1>1, <1>4, <2>1, CallsStay
<1>6. TurnsInv'
  <2>1. Alone' /\ CreditedOnce'
    BY <1>1, <1>4 DEF TurnsInv, Alone, CreditedOnce, Busy, User
  <2>2. ASSUME NEW d \in Calls PROVE Sound(d)'
    <3>1. Sound(d)
      BY <1>1 DEF TurnsInv
    <3>2. Current(d)'
      <4> SUFFICES ASSUME Busy(d) PROVE Current(d)'
        BY <1>4 DEF Current, Busy
      <4>1. User(d) \in Users /\ User(d) # u
        BY <1>1, <1>2, BusyFields
      <4>2. account'[User(d)] = account[User(d)]
        BY <1>4, <4>1
      <4> QED
        BY <1>4, <3>1, <4>2 DEF Sound, Current, User
    <3> QED
      BY <1>4, <3>1, <3>2 DEF Sound, Placed, Moved, Funded, At
  <2>3. \A v \in Users : Blank(v)'
    BY <1>1, <1>4 DEF TurnsInv, Blank
  <2>4. \A x \in DepositTxs : paidIn'[x] \in Amounts \cup {0}
    BY <1>1, <1>4 DEF TurnsInv
  <2> QED
    BY <2>1, <2>2, <2>3, <2>4 DEF TurnsInv
<1>7. SpentExact'
  <2>1. \A v \in Users : account[v].spent = Spent(v)
    BY <1>1 DEF SpentExact, Spent
  <2>2. \A v \in Users : account'[v].spent = Spent(v)'
    BY <1>3, <1>4, <1>5, <2>1
  <2> QED
    BY <2>2 DEF SpentExact, Spent
<1>8. Backed'
  <2>1. Unclaimed' = Unclaimed
    BY <1>4, UnclaimedKept
  <2> QED
    BY <1>1, <1>4, <1>5, <2>1 DEF Backed
<1>9. Account!Open(u)
  <2>1. /\ {v \in Users : account[v].open}' = {v \in Users : account[v].open} \cup {u}
        /\ u \notin {v \in Users : account[v].open}
        /\ [v \in Users |-> Funds(v)]' = [v \in Users |-> Funds(v)]
        /\ [v \in Users |-> Held(v)]' = [v \in Users |-> Held(v)]
    BY <1>2, <1>4, <1>5
  <2> QED
    BY <1>4, <2>1 DEF Account!Open
<1> QED
  BY <1>6, <1>7, <1>8, <1>9 DEF Honest, Honoured, Account!Next

\* What is paid in is nobody's until it is credited.
LEMMA PayInHonest ==
    ASSUME Honest, IInv', OneAtATime, NEW x \in DepositTxs, NEW a \in Amounts, PayIn(x, a)
    PROVE  Honoured
<1>1. TypeOK /\ TypeOK' /\ TurnsInv /\ SpentExact /\ Backed /\ a \in Nat /\ a > 0
  BY WalletAssumption DEF Honest, TurnsInv, IInv
<1>2. /\ paidIn[x] = 0 /\ paidIn'[x] = a /\ \A y \in DepositTxs \ {x} : paidIn'[y] = paidIn[y]
      /\ account' = account /\ call' = call /\ transfer' = transfer
      /\ vault' = vault + a
  BY <1>1 DEF PayIn, redis, TypeOK
<1>3. /\ \A v \in Users : Held(v)' = Held(v) /\ Funds(v)' = Funds(v) /\ Spent(v)' = Spent(v)
      /\ Claims' = Claims
  BY <1>1, <1>2, CallsStay
<1>4. ASSUME NEW d \in Deposits, ~At(d, "idle") PROVE call[d].tx # x
  <2>1. Sound(d) /\ d \in Calls
    BY <1>1, Kinds DEF TurnsInv
  <2>2. call[d].amount \in Amounts /\ call[d].amount = paidIn[call[d].tx]
    BY <1>4, <2>1 DEF Sound, Funded
  <2>3. call[d].amount # 0
    BY <2>2, WalletAssumption
  <2> QED
    BY <1>2, <2>2, <2>3
<1>5. TurnsInv'
  <2>1. Alone' /\ CreditedOnce'
    BY <1>1, <1>2 DEF TurnsInv, Alone, CreditedOnce, Busy, User
  <2>2. ASSUME NEW d \in Calls PROVE Sound(d)'
    <3>1. Sound(d)
      BY <1>1 DEF TurnsInv
    <3>2. d \in Deposits => Funded(d)'
      BY <1>2, <1>4, <3>1 DEF Sound, Funded, At
    <3> QED
      BY <1>2, <3>1, <3>2 DEF Sound, Placed, Current, Moved, Busy, User, At
  <2>3. \A v \in Users : Blank(v)'
    BY <1>1, <1>2 DEF TurnsInv, Blank
  <2>4. \A y \in DepositTxs : paidIn'[y] \in Amounts \cup {0}
    BY <1>1, <1>2 DEF TurnsInv
  <2> QED
    BY <2>1, <2>2, <2>3, <2>4 DEF TurnsInv
<1>6. SpentExact'
  <2>1. \A v \in Users : account[v].spent = Spent(v)
    BY <1>1 DEF SpentExact, Spent
  <2>2. \A v \in Users : account'[v].spent = Spent(v)'
    BY <1>2, <1>3, <2>1
  <2> QED
    BY <2>2 DEF SpentExact, Spent
<1>7. Unclaimed' = Unclaimed + (a - 0)
  <2>1. \A y \in DepositTxs : Credited(y)' <=> Credited(y)
    BY <1>2 DEF Credited, At
  <2>2. ~Credited(x)
    BY <1>4 DEF Credited, At
  <2>3. UnclaimedOf[x] = 0 /\ UnclaimedOf'[x] = a
    BY <1>2, <2>1, <2>2 DEF UnclaimedOf
  <2>4. \A y \in DepositTxs \ {x} : UnclaimedOf'[y] = UnclaimedOf[y]
    BY <1>2, <2>1 DEF UnclaimedOf
  <2>5. \A y \in DepositTxs : paidIn'[y] \in Nat
    BY <1>1 DEF TypeOK
  <2> QED
    BY <1>1, <2>3, <2>4, <2>5, PaidInNat, UnclaimedMoves
<1>8. Backed'
  <2>1. Claims \in Int /\ Unclaimed \in Nat /\ vault \in Nat
    BY <1>1, TypedTotals, PaidInNat, UnclaimedTyped DEF TotalsInRange, TypeOK
  <2> QED
    BY <1>1, <1>2, <1>3, <1>7, <2>1 DEF Backed
<1>9. Account!PayIn(a)
  <2>1. /\ {v \in Users : account[v].open}' = {v \in Users : account[v].open}
        /\ [v \in Users |-> Funds(v)]' = [v \in Users |-> Funds(v)]
        /\ [v \in Users |-> Held(v)]' = [v \in Users |-> Held(v)]
    BY <1>2, <1>3
  <2> QED
    BY <1>2, <2>1 DEF Account!PayIn
<1> QED
  BY <1>5, <1>6, <1>8, <1>9 DEF Honest, Honoured, Account!Next

\* A crash ends every call.  What withdrawals had taken comes back to their users,
\* of whom each has one call under way at most.
LEMMA CrashTurns ==
    ASSUME Honest, IInv', OneAtATime, NoDoubt, Crash
    PROVE  TurnsInv'
<1>1. TypeOK /\ TypeOK' /\ TurnsInv
  BY DEF Honest, TurnsInv, IInv
<1>2. /\ account' = account /\ transfer' = transfer /\ paidIn' = paidIn
      /\ \A c \in Calls :
            /\ ~Busy(c) => call'[c] = call[c]
            /\ Busy(c) => /\ call'[c].pc = Broken(c) /\ call'[c].amount = call[c].amount
                          /\ call'[c].tx = call[c].tx /\ call'[c].user = call[c].user
  BY <1>1 DEF Crash, redis, chain, TypeOK, Call
<1>3. Alone' /\ CreditedOnce'
  BY DEF OneAtATime, Alone, CreditedOnce, Busy, User
<1>4. ASSUME NEW c \in Calls PROVE Sound(c)'
  <2>1. Sound(c)
    BY <1>1 DEF TurnsInv
  <2>2. CASE ~Busy(c)
    BY <1>2, <2>1, <2>2 DEF Sound, Placed, Current, Moved, Funded, Busy, At
  <2>3. CASE Busy(c)
    <3>1. /\ call'[c].pc = Broken(c) /\ call'[c].amount = call[c].amount
          /\ call'[c].tx = call[c].tx /\ Broken(c) \in {"failed", "lost"}
          /\ ~At(c, "idle")
      BY <1>2, <2>3 DEF Broken, Busy, At
    <3>2. Placed(c)' /\ Current(c)'
      BY <3>1, Kinds DEF Placed, Current, Busy, Ended, Broken
    <3>3. c \in Senders => Moved(c)'
      <4>1. CASE c \in Payments
        BY <1>2, <2>1, <3>1, <4>1, Kinds DEF Sound, Moved, Broken, At
      <4>2. CASE c \in Withdrawals
        <5>1. transfer[c] \notin {"sent", "landed"}
          BY <2>3, <4>2, Kinds DEF NoDoubt, Undecided
        <5> QED
          BY <1>2, <3>1, <4>2, <5>1, Kinds DEF Moved
      <4> QED
        BY <4>1, <4>2, Kinds
    <3>4. c \in Deposits => Funded(c)'
      BY <1>2, <2>1, <3>1 DEF Sound, Funded, At
    <3> QED
      BY <2>1, <3>1, <3>2, <3>3, <3>4 DEF Sound, At
  <2> QED
    BY <2>2, <2>3
<1>5. \A v \in Users : Blank(v)'
  BY <1>1, <1>2 DEF TurnsInv, Blank
<1>6. \A x \in DepositTxs : paidIn'[x] \in Amounts \cup {0}
  BY <1>1, <1>2 DEF TurnsInv
<1> QED
  BY <1>3, <1>4, <1>5, <1>6 DEF TurnsInv

LEMMA CrashTotals ==
    ASSUME Honest, IInv', NoDoubt, Crash, NEW u \in Users
    PROVE  /\ Held(u)' <= Held(u) /\ Spent(u)' = Spent(u)
           /\ Funds(u)' = Funds(u) + (Held(u) - Held(u)')
<1>1. TypeOK /\ TypeOK' /\ TurnsInv
  BY DEF Honest, TurnsInv, IInv
<1>2. account' = account /\ transfer' = transfer
  BY DEF Crash, redis, chain
<1>3. \A c \in Calls :
        /\ ~Busy(c) => call'[c] = call[c]
        /\ Busy(c) => /\ call'[c].pc = Broken(c) /\ call'[c].amount = call[c].amount
                      /\ call'[c].user = call[c].user
  BY <1>1 DEF Crash, TypeOK, Call
<1>4. Summed(u) /\ Summed(u)' /\ account[u].balance \in Nat
  BY <1>1, AllSummed, AllSummedNext DEF CallsTyped, TypeOK, UserEscrow
<1>5. ASSUME NEW d \in Calls, ~(Busy(d) /\ User(d) = u)
      PROVE  /\ HeldOf(u)'[d] = HeldOf(u)[d]
             /\ OutOf(u)'[d] = OutOf(u)[d]
             /\ SpentOf(u)'[d] = SpentOf(u)[d]
  <2>1. CASE ~Busy(d)
    BY <1>2, <1>3, <2>1 DEF HeldOf, OutOf, SpentOf, User, Charged, Undeducted
  <2>2. CASE User(d) # u
    <3>1. User(d)' # u
      BY <1>3, <2>2 DEF User
    <3> QED
      BY <2>2, <3>1 DEF HeldOf, OutOf, SpentOf
  <2> QED
    BY <1>5, <2>1, <2>2
<1>6. CASE \A d \in Calls : ~(Busy(d) /\ User(d) = u)
  <2>1. HeldOf(u)' = HeldOf(u) /\ OutOf(u)' = OutOf(u) /\ SpentOf(u)' = SpentOf(u)
    BY <1>5, <1>6 DEF HeldOf, OutOf, SpentOf
  <2> QED
    BY <1>2, <1>4, <2>1 DEF Summed
<1>7. ASSUME NEW c \in Calls, Busy(c), User(c) = u
      PROVE  /\ Held(u)' <= Held(u) /\ Spent(u)' = Spent(u)
             /\ Funds(u)' = Funds(u) + (Held(u) - Held(u)')
  <2>1. \A d \in Calls \ {c} : /\ HeldOf(u)'[d] = HeldOf(u)[d]
                               /\ OutOf(u)'[d] = OutOf(u)[d]
                               /\ SpentOf(u)'[d] = SpentOf(u)[d]
    BY <1>1, <1>5, <1>7 DEF TurnsInv, Alone
  <2>2. /\ call'[c].pc = Broken(c) /\ call'[c].amount = call[c].amount /\ User(c)' = u
        /\ call[c].amount \in Nat
    BY <1>1, <1>3, <1>7, BusyFields DEF User
  <2>3. /\ SpentOf(u)'[c] = SpentOf(u)[c]
        /\ \/ HeldOf(u)'[c] = HeldOf(u)[c] /\ OutOf(u)'[c] = OutOf(u)[c]
           \/ /\ HeldOf(u)[c] = call[c].amount /\ HeldOf(u)'[c] = 0
              /\ OutOf(u)[c] = call[c].amount /\ OutOf(u)'[c] = 0
    <3>1. /\ Sound(c) /\ call[c].pc \in {"read", "checked", "ready", "sent", "confirmed",
                                          "refund", "refunding"}
      BY <1>1, <1>7 DEF TurnsInv, TypeOK, Call, PC, Busy
    <3>2. CASE c \in Deposits
      BY <3>2, Kinds DEF HeldOf, OutOf, SpentOf
    <3>3. CASE c \in Payments
      BY <1>2, <1>7, <2>2, <3>1, <3>3, Kinds
      DEF HeldOf, OutOf, SpentOf, Charged, Broken, Sound, Placed, At
    <3>4. CASE c \in Withdrawals
      <4>1. transfer[c] \notin {"sent", "landed"} /\ Broken(c) = "failed"
        BY <1>7, <3>4, Kinds DEF NoDoubt, Undecided, Broken
      <4> QED
        BY <1>2, <1>7, <2>2, <3>1, <3>4, <4>1, Kinds
        DEF HeldOf, OutOf, SpentOf, Charged, Undeducted, Sound, Placed
    <3> QED
      BY <3>2, <3>3, <3>4, Kinds
  <2>4. /\ Held(u)' = Held(u) + (HeldOf(u)'[c] - HeldOf(u)[c])
        /\ Funds(u)' = Funds(u) + (account'[u].balance - account[u].balance)
                          - (OutOf(u)'[c] - OutOf(u)[c])
        /\ Spent(u)' = Spent(u) + (SpentOf(u)'[c] - SpentOf(u)[c])
    BY <1>1, <2>1, OneEntryMoves
  <2>5. /\ HeldOf(u)[c] \in Nat /\ OutOf(u)[c] \in Nat /\ SpentOf(u)[c] \in Nat
        /\ Held(u) \in Nat /\ Funds(u) \in Int /\ Spent(u) \in Nat
        /\ account'[u].balance = account[u].balance
    BY <1>2, <1>4 DEF Summed
  <2> QED
    BY <1>4, <2>2, <2>3, <2>4, <2>5
<1> QED
  BY <1>6, <1>7

LEMMA CrashHonest ==
    ASSUME Honest, IInv', OneAtATime, NoDoubt, Crash PROVE Honoured
<1>1. TypeOK /\ TypeOK' /\ SpentExact /\ Backed
  BY DEF Honest, TurnsInv, IInv
<1>2. account' = account /\ vault' = vault /\ paidIn' = paidIn
  BY DEF Crash, redis, chain
<1>3. \A v \in Users : /\ Held(v)' <= Held(v) /\ Spent(v)' = Spent(v)
                       /\ Funds(v)' = Funds(v) + (Held(v) - Held(v)')
  BY CrashTotals
<1>4. TurnsInv'
  BY CrashTurns
<1>5. SpentExact'
  <2>1. \A v \in Users : account[v].spent = Spent(v)
    BY <1>1 DEF SpentExact, Spent
  <2>2. \A v \in Users : account'[v].spent = Spent(v)'
    BY <1>2, <1>3, <2>1
  <2> QED
    BY <2>2 DEF SpentExact, Spent
<1>6. Claims' = Claims
  <2>1. \A v \in Users : Held(v) \in Nat /\ Funds(v) \in Int /\ Held(v)' \in Nat
    BY <1>1, TypedTotals, TypedTotalsNext DEF TotalsInRange
  <2>2. \A v \in Users : Funds(v)' + Held(v)' = Funds(v) + Held(v)
    BY <1>3, <2>1
  <2> QED
    BY <2>2, ClaimsKept
<1>7. Unclaimed' = Unclaimed
  <2>1. ASSUME NEW d \in Deposits
        PROVE  call'[d] = call[d] \/ (~At(d, "done") /\ ~At(d, "done")')
    <3>1. d \in Calls /\ Broken(d) = "failed"
      BY Kinds DEF Broken
    <3>2. Busy(d) => call'[d].pc = "failed"
      BY <1>1, <3>1 DEF Crash, TypeOK, Call
    <3>3. ~Busy(d) => call'[d] = call[d]
      BY <3>1 DEF Crash
    <3> QED
      BY <3>2, <3>3 DEF At, Busy, Ended
  <2> QED
    BY <1>2, <2>1, UnclaimedKept
<1>8. Backed'
  BY <1>1, <1>2, <1>6, <1>7 DEF Backed
<1>9. Account!Release
  BY <1>1, <1>2, <1>3, ReleaseMaps
<1> QED
  BY <1>4, <1>5, <1>8, <1>9 DEF Honest, Honoured, Account!Next

-----------------------------------------------------------------------------
\* The steps of users who take turns

LEMMA DepositReadHonest ==
    ASSUME Honest, IInv', OneAtATime, NEW d \in Deposits, NEW u \in Users,
           NEW x \in DepositTxs, DepositRead(d, u, x)
    PROVE  Honoured
<1>1. PICK a \in Amounts : a = paidIn[x]
  BY DEF DepositRead, Honest, TurnsInv
<1>2. Begin(d, "read", u, a, x)
  BY <1>1 DEF DepositRead
<1> QED
  BY <1>1, <1>2, Kinds, BeginHonest

LEMMA PayReadHonest ==
    ASSUME Honest, IInv', OneAtATime, NEW p \in Payments, NEW u \in Users,
           NEW a \in Amounts, PayRead(p, u, a)
    PROVE  Honoured
<1>1. Begin(p, "checked", u, a, NoTx)
  BY DEF PayRead
<1> QED
  BY <1>1, Kinds, BeginHonest

LEMMA WithdrawReadHonest ==
    ASSUME Honest, IInv', OneAtATime, NEW w \in Withdrawals, NEW u \in Users,
           NEW a \in Amounts, WithdrawRead(w, u, a)
    PROVE  Honoured
<1>1. Begin(w, "ready", u, a, NoTx)
  BY DEF WithdrawRead
<1> QED
  BY <1>1, Kinds, BeginHonest

LEMMA NextHonest ==
    Honest /\ IInv' /\ Next /\ OneAtATime /\ NoDoubt => Honoured
<1> SUFFICES ASSUME Honest, IInv', Next, OneAtATime, NoDoubt PROVE Honoured
  OBVIOUS
<1>1. ASSUME NEW u \in Users, Create(u) PROVE Honoured
  BY <1>1, CreateHonest
<1>2. ASSUME NEW x \in DepositTxs, NEW a \in Amounts, PayIn(x, a) PROVE Honoured
  BY <1>2, PayInHonest
<1>3. ASSUME NEW d \in Deposits, DepositStep(d) PROVE Honoured
  BY <1>3, DepositReadHonest, DepositWriteHonest DEF DepositStep
<1>4. ASSUME NEW p \in Payments, PayStep(p) PROVE Honoured
  BY <1>4, PayReadHonest, DeductHonest, RecordHonest, RefundReadHonest, RefundWriteHonest
  DEF PayStep
<1>5. ASSUME NEW w \in Withdrawals, WithdrawStep(w) PROVE Honoured
  BY <1>5, WithdrawReadHonest, WithdrawWriteHonest DEF WithdrawStep
<1>6. ASSUME NEW c \in Senders, SendStep(c) PROVE Honoured
  BY <1>6, SendHonest, ConfirmHonest, ConfirmExpiredHonest DEF SendStep
<1>7. ASSUME NEW c \in Senders, ChainStep(c) PROVE Honoured
  BY <1>7, ChainHonest
<1>8. ASSUME NEW c \in Calls, Throw(c) PROVE Honoured
  BY <1>8, ThrowHonest
<1>9. CASE Crash
  BY <1>9, CrashHonest
<1> QED
  BY <1>1, <1>2, <1>3, <1>4, <1>5, <1>6, <1>7, <1>8, <1>9 DEF Next

LEMMA RestHonest == Honest /\ UNCHANGED vars => Honoured
<1> SUFFICES ASSUME Honest, UNCHANGED vars PROVE Honoured
  OBVIOUS
<1>1. /\ account' = account /\ call' = call /\ transfer' = transfer
      /\ history' = history /\ vault' = vault /\ paidIn' = paidIn /\ faults' = faults
  BY DEF vars
<1>2. TypeOK /\ TypeOK' /\ TurnsInv' /\ SpentExact /\ Backed
  BY <1>1 DEF Honest, TurnsInv, IInv, TypeOK, Enough, Alone, CreditedOnce, Sound, Placed,
              Current, Moved, Funded, Blank, Busy, User, At
<1>3. /\ \A v \in Users : Held(v)' = Held(v) /\ Funds(v)' = Funds(v) /\ Spent(v)' = Spent(v)
      /\ Claims' = Claims
  BY <1>1, <1>2, CallsStay
<1>4. SpentExact'
  <2>1. \A v \in Users : account[v].spent = Spent(v)
    BY <1>2 DEF SpentExact, Spent
  <2>2. \A v \in Users : account'[v].spent = Spent(v)'
    BY <1>1, <1>3, <2>1
  <2> QED
    BY <2>2 DEF SpentExact, Spent
<1>5. Backed'
  BY <1>1, <1>2, <1>3, UnclaimedKept DEF Backed
<1>6. UNCHANGED Account!vars
  <2>1. /\ {v \in Users : account[v].open}' = {v \in Users : account[v].open}
        /\ [v \in Users |-> Funds(v)]' = [v \in Users |-> Funds(v)]
        /\ [v \in Users |-> Held(v)]' = [v \in Users |-> Held(v)]
    BY <1>1, <1>3
  <2> QED
    BY <1>1, <2>1 DEF Account!vars
<1> QED
  BY <1>2, <1>4, <1>5, <1>6 DEF Honest, Honoured

LEMMA InitHonest == Init => Honest /\ Account!Init
<1> SUFFICES ASSUME Init PROVE Honest /\ Account!Init
  OBVIOUS
<1>1. IInv /\ TypeOK
  BY InitIInv DEF IInv
<1>2. /\ \A c \in Calls : call[c] = NoCall
      /\ \A u \in Users : account[u] = NoEscrow
      /\ \A c \in Senders : transfer[c] = "none"
      /\ \A x \in DepositTxs : paidIn[x] = 0
      /\ vault = 0
  BY DEF Init
<1>3. TurnsInv
  <2>1. ASSUME NEW c \in Calls PROVE Sound(c) /\ ~Busy(c)
    BY <1>2, Kinds DEF Sound, Placed, Current, Moved, Funded, Busy, At, NoCall
  <2>2. CreditedOnce
    BY <1>2, Kinds DEF CreditedOnce, NoCall
  <2> QED
    BY <1>1, <1>2, <2>1, <2>2 DEF TurnsInv, Alone, Blank, NoEscrow
<1>4. ASSUME NEW u \in Users
      PROVE  Held(u) = 0 /\ Funds(u) = 0 /\ Spent(u) = 0
  <2>1. Summed(u)
    BY <1>1, AllSummed DEF CallsTyped, TypeOK
  <2>2. \A c \in Calls : HeldOf(u)[c] = 0 /\ OutOf(u)[c] = 0 /\ SpentOf(u)[c] = 0
    BY <1>2 DEF HeldOf, OutOf, SpentOf, Charged, Undeducted, NoCall
  <2>3. HeldOf(u) \in [Calls -> Int] /\ OutOf(u) \in [Calls -> Int] /\ SpentOf(u) \in [Calls -> Int]
    BY <2>1 DEF Summed
  <2>4. SumFunction(HeldOf(u)) = 0 /\ SumFunction(OutOf(u)) = 0 /\ SumFunction(SpentOf(u)) = 0
    BY <2>2, <2>3, SumOfZeros, WalletAssumption
  <2> QED
    BY <1>2, <2>1, <2>4 DEF Summed, NoEscrow
<1>5. Claims = 0
  <2> DEFINE f == [u \in Users |-> Funds(u) + Held(u)]
  <2>1. f \in [Users -> Int] /\ \A u \in Users : f[u] = 0
    BY <1>4
  <2> HIDE DEF f
  <2>2. SumFunction(f) = 0
    BY <2>1, SumOfZeros, WalletAssumption
  <2> QED
    BY <2>2 DEF Claims, f
<1>6. Unclaimed = 0
  <2> DEFINE f == UnclaimedOf
  <2>1. f \in [DepositTxs -> Int] /\ \A x \in DepositTxs : f[x] = 0
    BY <1>2 DEF UnclaimedOf
  <2> HIDE DEF f
  <2>2. SumFunction(f) = 0
    BY <2>1, SumOfZeros, WalletAssumption
  <2> QED
    BY <2>2 DEF Unclaimed, f
<1>7. SpentExact
  BY <1>2, <1>4 DEF SpentExact, Spent, NoEscrow
<1>8. Backed
  BY <1>2, <1>5, <1>6 DEF Backed
<1>9. Account!Init
  <2>1. /\ {u \in Users : account[u].open} = {}
        /\ [u \in Users |-> Funds(u)] = [u \in Users |-> 0]
        /\ [u \in Users |-> Held(u)] = [u \in Users |-> 0]
    BY <1>2, <1>4 DEF NoEscrow
  <2> QED
    BY <1>2, <2>1 DEF Account!Init
<1> QED
  BY <1>3, <1>7, <1>8, <1>9 DEF Honest

LEMMA TurnsHonest == Honest /\ [Next /\ OneAtATime /\ NoDoubt]_vars => Honoured
<1>1. Honest /\ [Next /\ OneAtATime /\ NoDoubt]_vars => IInv'
  BY NextIInv DEF Honest, TurnsInv
<1> QED
  BY <1>1, NextHonest, RestHonest

LEMMA PatientHonest == PatientSpec => []Honest
<1>1. Init => Honest
  BY InitHonest
<1>2. Honest /\ [Next /\ OneAtATime /\ NoDoubt]_vars => Honest'
  BY TurnsHonest DEF Honoured
<1> QED
  BY <1>1, <1>2, PTL DEF PatientSpec

\* The accounts of users who wait for the answer to each call keep the promises of
\* EscrowAccount: every step of depositFunds, executePayment and withdrawFunds, of
\* any number of users at a time, every failure and every crash is one of its steps.
THEOREM WalletHonours == PatientSpec => AccountHonoured
<1>1. Init => Account!Init
  BY InitHonest
<1>2. Honest /\ [Next /\ OneAtATime /\ NoDoubt]_vars => [Account!Next]_(Account!vars)
  BY TurnsHonest DEF Honoured
<1> QED
  BY <1>1, <1>2, PatientHonest, PTL DEF PatientSpec, AccountHonoured, Account!Spec

\* The escrow wallet holds what the records of all users claim, with the payments
\* that are still to be executed and the deposits that are still to be credited.
THEOREM WalletSolvent == PatientSpec => []Solvent
<1>1. Honest => Solvent
  <2> SUFFICES ASSUME Honest PROVE Solvent
    OBVIOUS
  <2>1. Claims \in Int /\ Unclaimed \in Nat /\ vault \in Nat /\ Claims + Unclaimed <= vault
    BY TypedTotals, PaidInNat, UnclaimedTyped
    DEF TotalsInRange, Honest, TurnsInv, IInv, TypeOK, Backed
  <2>2. Claims <= vault
    BY <2>1
  <2> QED
    BY <2>2, SameClaims DEF Solvent, Account!Solvent
<1> QED
  BY <1>1, PatientHonest, PTL

\* A record's total spent is exact: deductions, refunds, and nothing else, have
\* moved it.
THEOREM WalletSpentExact == PatientSpec => []SpentExact
<1>1. Honest => SpentExact
  BY DEF Honest
<1> QED
  BY <1>1, PatientHonest, PTL
-----------------------------------------------------------------------------
\* EscrowAccount by itself is solvent for any holders of accounts and any sums: every change
\* of one holder's funds and holds changes the sum of all claims by the same difference.
CONSTANTS Holders, Sums
VARIABLES opened, owned, taken, purse

Abstract == INSTANCE EscrowAccount WITH
    Users <- Holders, Amounts <- Sums, open <- opened, funds <- owned, held <- taken, vault <- purse

AbstractInv ==
    /\ opened \subseteq Holders
    /\ owned \in [Holders -> Nat]
    /\ taken \in [Holders -> Nat]
    /\ purse \in Nat
    /\ Abstract!Solvent

LEMMA SameAbstractSum == ASSUME NEW f PROVE Abstract!SumFunction(f) = SumFunction(f)
BY Zenon DEF SumFunction, SumFunctionOnSet, FoldFunctionOnSet, MapThenFoldSet,
             Abstract!SumFunction, Abstract!SumFunctionOnSet, Abstract!FoldFunctionOnSet,
             Abstract!MapThenFoldSet

\* An operation on one user's account changes the claims by what it changes there.
LEMMA AbstractClaimsChange ==
    ASSUME IsFiniteSet(Holders), NEW u \in Holders,
           owned \in [Holders -> Int], owned' \in [Holders -> Int],
           taken \in [Holders -> Int], taken' \in [Holders -> Int],
           \A v \in Holders \ {u} : owned'[v] = owned[v] /\ taken'[v] = taken[v]
    PROVE  Abstract!Claims' = Abstract!Claims + (owned'[u] - owned[u]) + (taken'[u] - taken[u])
<1> DEFINE before == [v \in Holders |-> owned[v] + taken[v]]
           after == [v \in Holders |-> (owned[v] + taken[v])']
<1>1. before \in [Holders -> Int] /\ after \in [Holders -> Int]
  OBVIOUS
<1>2. before[u] = owned[u] + taken[u] /\ after[u] = owned'[u] + taken'[u]
  OBVIOUS
<1>3. \A v \in Holders \ {u} : after[v] = before[v]
  OBVIOUS
<1>4. Abstract!Claims = SumFunction(before) /\ Abstract!Claims' = SumFunction(after)
  BY SameAbstractSum DEF Abstract!Claims
<1> HIDE DEF before, after
<1>5. SumFunction(before) \in Int /\ SumFunction(after) \in Int
  BY <1>1, SumType DEF SumFunction
<1>6. SumFunction(after) - SumFunction(before) = after[u] - before[u]
  BY <1>1, <1>3, SumUpdate
<1> QED
  BY <1>2, <1>4, <1>5, <1>6

LEMMA AbstractBegins == ASSUME IsFiniteSet(Holders), Abstract!Init PROVE AbstractInv
<1>1. \A u \in Holders : [v \in Holders |-> owned[v] + taken[v]][u] = 0
  BY DEF Abstract!Init
<1>2. [v \in Holders |-> owned[v] + taken[v]] \in [Holders -> Int]
  BY DEF Abstract!Init
<1>3. Abstract!Claims = 0
  BY <1>1, <1>2, SumOfZeros, SameAbstractSum DEF Abstract!Claims
<1> QED
  BY <1>3 DEF Abstract!Init, AbstractInv, Abstract!Solvent

LEMMA AbstractKept ==
    ASSUME IsFiniteSet(Holders), Sums \subseteq Nat, AbstractInv, [Abstract!Next]_(Abstract!vars)
    PROVE  AbstractInv'
<1> USE DEF AbstractInv
<1>0. \A a \in Sums : a \in Nat
  OBVIOUS
<1>1. [v \in Holders |-> owned[v] + taken[v]] \in [Holders -> Nat]
  OBVIOUS
<1>2. Abstract!Claims \in Nat
  <2>1. \A u \in Holders : /\ [v \in Holders |-> owned[v] + taken[v]][u] \in Int
                         /\ [v \in Holders |-> owned[v] + taken[v]][u] >= 0
    BY <1>1
  <2> QED
    BY <2>1, SumType, SameAbstractSum DEF Abstract!Claims, SumFunction
<1>3. ASSUME NEW u \in Holders, Abstract!Open(u) PROVE AbstractInv'
  BY <1>3 DEF Abstract!Open, Abstract!Solvent, Abstract!Claims
<1>4. ASSUME NEW a \in Sums, Abstract!PayIn(a) PROVE AbstractInv'
  <2>1. Abstract!Claims' = Abstract!Claims
    BY <1>4 DEF Abstract!PayIn, Abstract!Claims
  <2> QED
    BY <1>0, <1>2, <1>4, <2>1 DEF Abstract!PayIn, Abstract!Solvent
<1>5. ASSUME NEW u \in Holders, NEW a \in Sums, Abstract!Credit(u, a) PROVE AbstractInv'
  <2>1. /\ owned' \in [Holders -> Nat] /\ taken' \in [Holders -> Nat]
        /\ owned'[u] = owned[u] + a /\ taken'[u] = taken[u] + 0
        /\ \A v \in Holders \ {u} : owned'[v] = owned[v] /\ taken'[v] = taken[v]
    BY <1>0, <1>5 DEF Abstract!Credit
  <2>2. /\ owned \in [Holders -> Int] /\ owned' \in [Holders -> Int]
        /\ taken \in [Holders -> Int] /\ taken' \in [Holders -> Int]
    BY <2>1
  <2>3. Abstract!Claims' = Abstract!Claims + (owned'[u] - owned[u]) + (taken'[u] - taken[u])
    BY <2>1, <2>2, AbstractClaimsChange
  <2>4. Abstract!Solvent'
    BY <1>0, <1>2, <1>5, <2>1, <2>3 DEF Abstract!Credit, Abstract!Solvent
  <2> QED
    BY <1>0, <1>5, <2>1, <2>4 DEF Abstract!Credit
<1>6. ASSUME NEW u \in Holders, NEW a \in Sums, Abstract!Hold(u, a) PROVE AbstractInv'
  <2>1. /\ owned' \in [Holders -> Nat] /\ taken' \in [Holders -> Nat]
        /\ owned'[u] = owned[u] + (-a) /\ taken'[u] = taken[u] + a
        /\ \A v \in Holders \ {u} : owned'[v] = owned[v] /\ taken'[v] = taken[v]
    BY <1>0, <1>6 DEF Abstract!Hold
  <2>2. /\ owned \in [Holders -> Int] /\ owned' \in [Holders -> Int]
        /\ taken \in [Holders -> Int] /\ taken' \in [Holders -> Int]
    BY <2>1
  <2>3. Abstract!Claims' = Abstract!Claims + (owned'[u] - owned[u]) + (taken'[u] - taken[u])
    BY <2>1, <2>2, AbstractClaimsChange
  <2>4. Abstract!Solvent'
    BY <1>0, <1>2, <1>6, <2>1, <2>3 DEF Abstract!Hold, Abstract!Solvent
  <2> QED
    BY <1>0, <1>6, <2>1, <2>4 DEF Abstract!Hold
<1>7. CASE Abstract!Release
  <2>1. /\ taken' \in [Holders -> Nat]
        /\ \A u \in Holders : taken'[u] <= taken[u] /\ owned'[u] = owned[u] + (taken[u] - taken'[u])
        /\ owned' = [u \in Holders |-> owned[u] + (taken[u] - taken'[u])]
        /\ opened' = opened /\ purse' = purse
    BY <1>7 DEF Abstract!Release
  <2>2. ASSUME NEW u \in Holders
        PROVE  owned[u] + (taken[u] - taken'[u]) \in Nat /\ owned'[u] + taken'[u] = owned[u] + taken[u]
    <3>1. owned[u] \in Nat /\ taken[u] \in Nat /\ taken'[u] \in Nat
      BY <1>0, <2>1
    <3> QED
      BY <2>1, <3>1
  <2>3. owned' \in [Holders -> Nat]
    BY <2>1, <2>2
  <2>4. [u \in Holders |-> owned'[u] + taken'[u]] = [u \in Holders |-> owned[u] + taken[u]]
    BY <2>2
  <2>5. Abstract!Claims' = Abstract!Claims
    BY <2>4 DEF Abstract!Claims
  <2> QED
    BY <2>1, <2>3, <2>5 DEF Abstract!Solvent
<1>8. ASSUME NEW u \in Holders, NEW a \in Sums, Abstract!PayOut(u, a) PROVE AbstractInv'
  <2>1. /\ owned' \in [Holders -> Nat] /\ taken' \in [Holders -> Nat]
        /\ owned'[u] = owned[u] + 0 /\ taken'[u] = taken[u] + (-a)
        /\ \A v \in Holders \ {u} : owned'[v] = owned[v] /\ taken'[v] = taken[v]
    BY <1>0, <1>8 DEF Abstract!PayOut
  <2>2. /\ owned \in [Holders -> Int] /\ owned' \in [Holders -> Int]
        /\ taken \in [Holders -> Int] /\ taken' \in [Holders -> Int]
    BY <2>1
  <2>3. Abstract!Claims' = Abstract!Claims + (owned'[u] - owned[u]) + (taken'[u] - taken[u])
    BY <2>1, <2>2, AbstractClaimsChange
  <2>4. Abstract!Solvent'
    BY <1>0, <1>2, <1>8, <2>1, <2>3 DEF Abstract!PayOut, Abstract!Solvent
  <2>5. purse >= a
    <3>1. Abstract!Claims >= owned[u] + taken[u]
      BY <1>1, SumAtLeastEntry, SameAbstractSum DEF Abstract!Claims
    <3> QED
      BY <1>0, <1>2, <1>8, <3>1 DEF Abstract!PayOut, Abstract!Solvent
  <2> QED
    BY <1>0, <1>8, <2>1, <2>4, <2>5 DEF Abstract!PayOut
<1>9. CASE UNCHANGED Abstract!vars
  BY <1>9 DEF Abstract!vars, Abstract!Solvent, Abstract!Claims
<1> QED
  BY <1>3, <1>4, <1>5, <1>6, <1>7, <1>8, <1>9 DEF Abstract!Next

\* The escrow wallet always holds what all users claim together.
THEOREM AlwaysSolvent ==
    ASSUME IsFiniteSet(Holders), Sums \subseteq Nat
    PROVE  Abstract!Spec => []Abstract!Solvent
<1>1. Abstract!Init => AbstractInv
  BY AbstractBegins
<1>2. AbstractInv /\ [Abstract!Next]_(Abstract!vars) => AbstractInv'
  BY AbstractKept
<1>3. AbstractInv => Abstract!Solvent
  BY DEF AbstractInv
<1> QED
  BY <1>1, <1>2, <1>3, PTL DEF Abstract!Spec
=============================================================================
