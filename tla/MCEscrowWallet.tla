--------------------------- MODULE MCEscrowWallet ---------------------------
(***************************************************************************)
(* EscrowWallet for TLC, the users who wait for the answer to each of      *)
(* their calls, and the account that the wallet then implements.           *)
(***************************************************************************)
EXTENDS EscrowWallet, Functions, TLC

Symmetry ==
    Permutations(Users) \cup Permutations(Deposits) \cup Permutations(Payments)
        \cup Permutations(Withdrawals) \cup Permutations(DepositTxs)

TotalAmount(calls) == SumFunction([c \in calls |-> call[c].amount])
Of(u, calls) == {c \in calls : User(c) = u}

\* A user opens one account, deposits every transfer once, and starts no call
\* before the last one has ended; the calls of different users overlap.
OneAtATime ==
    /\ \A u \in Users : account[u].open => ~Create(u)
    /\ \A d, e \in Deposits : call'[d].tx = call'[e].tx /\ call'[d].tx # NoTx => d = e
    /\ \A c, d \in Calls :
          /\ call'[c].pc \notin {"idle"} \cup Ended
          /\ call'[d].pc \notin {"idle"} \cup Ended
          /\ call'[c].user = call'[d].user
          => c = d

\* No error hides what became of a transfer.
Undecided(c) == c \in Senders /\ Busy(c) /\ transfer[c] \in {"sent", "landed"}
NoDoubt ==
    /\ \A c \in Senders : Undecided(c) => ~Throw(c)
    /\ (\E w \in Withdrawals : Undecided(w)) => ~Crash

PatientSpec == Init /\ [][Next /\ OneAtATime /\ NoDoubt]_vars

-----------------------------------------------------------------------------
\* The account behind the records

\* What a call takes from the account is charged from its deduction on; a withdrawal
\* is deducted after its transfer, and charged from when that is sent.
Charged(c) ==
    call[c].pc \in {"sent", "confirmed", "done"} \cup
        (IF c \in Payments THEN {"ready", "refund", "refunding", "lost"} ELSE {})
Undeducted(w) == call[w].pc \in {"sent", "confirmed"}

Funds(u) == account[u].balance - TotalAmount({w \in Of(u, Withdrawals) : Undeducted(w)})
Held(u) == TotalAmount({c \in Of(u, Senders) : Charged(c) /\ transfer[c] # "landed"})

Account == INSTANCE EscrowAccount WITH
             open <- {u \in Users : account[u].open},
             funds <- [u \in Users |-> Funds(u)],
             held <- [u \in Users |-> Held(u)]

\* Users who wait for their answers, and get them, have an account that keeps its
\* promises, however the calls of others and crashes interleave with theirs.
AccountHonoured == Account!Spec

\* The vault then holds what the records of all users together claim.
Solvent == Account!Solvent

\* What a record says was spent is the sum of the payments that were deducted and
\* not refunded: those that succeeded, are under way or were interrupted.
SpentExact ==
    \A u \in Users : account[u].spent = TotalAmount({p \in Of(u, Payments) : Charged(p)})

-----------------------------------------------------------------------------
\* Payments of one user at the same time, as executeParallel makes them

Paid(u) == TotalAmount({p \in Of(u, Payments) : transfer[p] = "landed"})

\* Payments come out of what the user has deposited: they are refused when the
\* balance is insufficient.
PaidFromBalance == \A u \in Users : Paid(u) <= TotalAmount(Of(u, Deposits))
=============================================================================
