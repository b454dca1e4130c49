---------------------------- MODULE EscrowAccount ----------------------------
(***************************************************************************)
(* What an escrow account promises its user: nothing is credited that has  *)
(* not been paid in, nothing is paid out that has not been taken from the  *)
(* account first, and nothing comes back that was not taken or was paid.   *)
(***************************************************************************)
EXTENDS Integers, Functions

CONSTANTS Users, Amounts

VARIABLES
    open,     \* users who have an account
    funds,    \* what a user can spend
    held,     \* what has been taken from a user's funds and not paid out yet
    vault     \* what all of them together have in the escrow wallet

vars == <<open, funds, held, vault>>

Claims == SumFunction([u \in Users |-> funds[u] + held[u]])

Init ==
    /\ open = {}
    /\ funds = [u \in Users |-> 0]
    /\ held = [u \in Users |-> 0]
    /\ vault = 0

Open(u) ==
    /\ u \notin open
    /\ open' = open \cup {u}
    /\ UNCHANGED <<funds, held, vault>>

PayIn(a) ==
    /\ vault' = vault + a
    /\ UNCHANGED <<open, funds, held>>

\* Only what nobody else has a claim to is credited.
Credit(u, a) ==
    /\ u \in open
    /\ Claims + a <= vault
    /\ funds' = [funds EXCEPT ![u] = @ + a]
    /\ UNCHANGED <<open, held, vault>>

Hold(u, a) ==
    /\ u \in open
    /\ funds[u] >= a
    /\ funds' = [funds EXCEPT ![u] = @ - a]
    /\ held' = [held EXCEPT ![u] = @ + a]
    /\ UNCHANGED <<open, vault>>

\* What was not paid out comes back; of several users at once when a crash ends
\* what was under way for them.
Release ==
    /\ held' \in [Users -> Nat]
    /\ \A u \in Users : held'[u] <= held[u]
    /\ funds' = [u \in Users |-> funds[u] + (held[u] - held'[u])]
    /\ UNCHANGED <<open, vault>>

PayOut(u, a) ==
    /\ held[u] >= a
    /\ held' = [held EXCEPT ![u] = @ - a]
    /\ vault' = vault - a
    /\ UNCHANGED <<open, funds>>

Next ==
    \/ \E u \in Users : Open(u)
    \/ \E a \in Amounts : PayIn(a)
    \/ \E u \in Users, a \in Amounts :
          Credit(u, a) \/ Hold(u, a) \/ PayOut(u, a)
    \/ Release

Spec == Init /\ [][Next]_vars

\* The escrow wallet holds what all accounts together claim.
Solvent == Claims <= vault
=============================================================================
