---------------------------- MODULE MCSettlement ----------------------------
(***************************************************************************)
(* Settlement for TLC, and the deployment in which settlements take turns. *)
(***************************************************************************)
EXTENDS Settlement, TLC

Symmetry == Permutations(Txs) \cup Permutations(Requests) \cup Permutations(Runs)

\* At most one handler is busy, and none is interrupted by an exception or a
\* crash; transfers may still be rejected.
TakeTurns ==
    /\ \A g, h \in Handlers : handler'[g].pc # "idle" /\ handler'[h].pc # "idle" => g = h
    /\ ~Crash
    /\ \A h \in Handlers : ~Throw(h)
    /\ \A s \in Settlements : transfer'[s] # "expired"

ExclusiveSpec == Init /\ [][Next /\ TakeTurns]_vars

Ledger == INSTANCE SettlementLedger WITH
            received <- recorded,
            paidOut <- [t \in Txs |-> Cardinality(Payments(t))]

\* When settlements take turns, requests and cron runs together pay every
\* transaction out at most once, and only what has been received.
PaidOutOnce == Ledger!Spec
=============================================================================
