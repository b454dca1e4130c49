----------------------------- MODULE Governance -----------------------------
(***************************************************************************)
(* The vote on one proposal that resolves a dispute, services/governance.ts *)
(* of the registry API, from its creation on: votes are cast and counted,  *)
(* a vote after the deadline or a sweep closes the proposal, and one that  *)
(* has passed resolves the dispute and slashes the agent.                  *)
(*                                                                         *)
(* One action is what a request does between two awaits.  Proposals that   *)
(* suspend an agent or a service take the same course, with an update that *)
(* can be repeated.                                                        *)
(***************************************************************************)
EXTENDS FiniteSetsExt, Integers

CONSTANTS
    Requests,       \* requests at one time
    Voters,
    Powers,         \* votingPower, which the voter's request names
    Quorum,         \* quorumRequired
    MaxFaults,      \* bound: exceptions of the database
    NoVoter

VotesAssumption == Powers \subseteq Nat /\ Quorum \in Nat /\ MaxFaults \in Nat

VARIABLES
    proposal,   \* the row: its status, and its sums of votes
    votes,      \* the Vote rows
    request,
    expired,    \* is votingEndAt over?
    slashed,    \* how often the agent has been slashed
    crossed,    \* history: has a request begun before another was over?
    voteFaults

governanceVars == <<proposal, votes, request, expired, slashed, crossed, voteFaults>>

Tally == [total: Nat, for: Nat, against: Nat]
NoTally == [total |-> 0, for |-> 0, against |-> 0]
VoteType == {"FOR", "AGAINST", "ABSTAIN"}
Vote == [type: VoteType, power: Powers]
NotVoted == [type |-> "NONE", power |-> 0]
Request == [pc: {"idle", "vote", "count", "tally", "close", "PASSED", "REJECTED", "execute",
                 "resolve", "slash", "executed"},
            voter: Voters \cup {NoVoter}, vote: Vote \cup {NotVoted}, tally: Tally]
NoRequest == [pc |-> "idle", voter |-> NoVoter, vote |-> NotVoted, tally |-> NoTally]

TypeOK ==
    /\ proposal \in [status: {"ACTIVE", "PASSED", "REJECTED", "EXECUTED"}, tally: Tally]
    /\ votes \in [Voters -> Vote \cup {NotVoted}]
    /\ request \in [Requests -> Request]
    /\ expired \in BOOLEAN /\ crossed \in BOOLEAN
    /\ slashed \in 0..Cardinality(Requests)
    /\ voteFaults \in 0..MaxFaults

\* createProposal
Init ==
    /\ proposal = [status |-> "ACTIVE", tally |-> NoTally]
    /\ votes = [v \in Voters |-> NotVoted]
    /\ request = [r \in Requests |-> NoRequest]
    /\ expired = FALSE /\ crossed = FALSE
    /\ slashed = 0
    /\ voteFaults = 0

At(r, pc) == request[r].pc = pc
Goto(r, pc) == request' = [request EXCEPT ![r] = [NoRequest EXCEPT !.pc = pc]]
Status(s) == proposal' = [proposal EXCEPT !.status = s]

Begin(r, next) ==
    /\ At(r, "idle")
    /\ proposal.status = "ACTIVE"
    /\ request' = [request EXCEPT ![r] = next]
    /\ crossed' = (crossed \/ \E q \in Requests \ {r} : ~At(q, "idle"))
    /\ UNCHANGED <<proposal, votes, expired, slashed, voteFaults>>

-----------------------------------------------------------------------------
\* castVote

BeginVote(r, v, vote) ==
    ~expired /\ Begin(r, [NoRequest EXCEPT !.pc = "vote", !.voter = v, !.vote = vote])

\* proposalId and voterId are unique together.
CreateVote(r) ==
    LET v == request[r].voter
    IN  /\ At(r, "vote")
        /\ IF votes[v] = NotVoted
           THEN votes' = [votes EXCEPT ![v] = request[r].vote] /\ Goto(r, "count")
           ELSE Goto(r, "idle") /\ UNCHANGED votes
        /\ UNCHANGED <<proposal, expired, slashed, crossed, voteFaults>>

Cast == {v \in Voters : votes[v] # NotVoted}
Power(V, types) == MapThenSumSet(LAMBDA v : votes[v].power, {v \in V : votes[v].type \in types})

CountOf(V) == [total |-> Power(V, VoteType), for |-> Power(V, {"FOR"}),
               against |-> Power(V, {"AGAINST"})]

\* updateProposalVotes: findMany, and the update with what it has found
Count(r) ==
    /\ At(r, "count")
    /\ request' = [request EXCEPT ![r] = [NoRequest EXCEPT !.pc = "tally",
                                                           !.tally = CountOf(Cast)]]
    /\ UNCHANGED <<proposal, votes, expired, slashed, crossed, voteFaults>>

WriteTally(r) ==
    /\ At(r, "tally")
    /\ proposal' = [proposal EXCEPT !.tally = request[r].tally]
    /\ Goto(r, "idle")
    /\ UNCHANGED <<votes, expired, slashed, crossed, voteFaults>>

-----------------------------------------------------------------------------
\* closeProposal, called by a vote that is too late, or by the sweep

BeginClose(r) == expired /\ Begin(r, [NoRequest EXCEPT !.pc = "close"])

Passed(tally) == tally.total >= Quorum /\ tally.for > tally.against

DecideOnQuorum(r) ==
    /\ At(r, "close")
    /\ Goto(r, IF proposal.status # "ACTIVE" THEN "idle"
               ELSE IF proposal.tally.total >= Quorum THEN "PASSED" ELSE "REJECTED")
    /\ UNCHANGED <<proposal, votes, expired, slashed, crossed, voteFaults>>

\* What is decided is written over whatever the status is then.
Decide(r) ==
    /\ At(r, "close")
    /\ Goto(r, IF proposal.status # "ACTIVE" THEN "idle"
               ELSE IF Passed(proposal.tally) THEN "PASSED" ELSE "REJECTED")
    /\ UNCHANGED <<proposal, votes, expired, slashed, crossed, voteFaults>>

Close(r) ==
    /\ request[r].pc \in {"PASSED", "REJECTED"}
    /\ Status(request[r].pc)
    /\ Goto(r, IF At(r, "PASSED") THEN "execute" ELSE "idle")
    /\ UNCHANGED <<votes, expired, slashed, crossed, voteFaults>>

-----------------------------------------------------------------------------
\* executeProposal and executeDisputeResolution

Execute(r) ==
    /\ At(r, "execute")
    /\ Goto(r, IF proposal.status = "PASSED" THEN "resolve" ELSE "idle")
    /\ UNCHANGED <<proposal, votes, expired, slashed, crossed, voteFaults>>

\* The dispute becomes RESOLVED.
Resolve(r) ==
    /\ At(r, "resolve")
    /\ Goto(r, "slash")
    /\ UNCHANGED <<proposal, votes, expired, slashed, crossed, voteFaults>>

Slash(r) ==
    /\ At(r, "slash")
    /\ slashed' = slashed + 1
    /\ Goto(r, "executed")
    /\ UNCHANGED <<proposal, votes, expired, crossed, voteFaults>>

Executed(r) ==
    /\ At(r, "executed")
    /\ Status("EXECUTED")
    /\ Goto(r, "idle")
    /\ UNCHANGED <<votes, expired, slashed, crossed, voteFaults>>

-----------------------------------------------------------------------------
Expire ==
    /\ ~expired
    /\ expired' = TRUE
    /\ UNCHANGED <<proposal, votes, request, slashed, crossed, voteFaults>>

\* The database throws, and the request ends; executeProposal only logs it.
Throw(r) ==
    /\ ~At(r, "idle")
    /\ voteFaults < MaxFaults
    /\ voteFaults' = voteFaults + 1
    /\ Goto(r, "idle")
    /\ UNCHANGED <<proposal, votes, expired, slashed, crossed>>

Next ==
    \/ Expire
    \/ \E r \in Requests :
          \/ \E v \in Voters, vote \in Vote : BeginVote(r, v, vote)
          \/ CreateVote(r) \/ Count(r) \/ WriteTally(r) \/ BeginClose(r) \/ Decide(r)
          \/ Close(r) \/ Execute(r) \/ Resolve(r) \/ Slash(r) \/ Executed(r) \/ Throw(r)

Spec == Init /\ [][Next]_governanceVars
-----------------------------------------------------------------------------
\* Whatever overlaps or fails: a proposal passes, and its agent is slashed, only when
\* some of the votes that were cast, which may not be all, carry it.
CarriedBySome ==
    proposal.status \in {"PASSED", "EXECUTED"} \/ slashed > 0 =>
        \E V \in SUBSET Cast : Passed(CountOf(V))

\* When no requests have overlapped and the database has not failed, all votes decide:
\* the proposal's sums are theirs, it passes if and only if they carry it, and then
\* its agent is slashed once.
VotesDecide ==
    crossed \/ voteFaults > 0 \/
        /\ proposal.status # "ACTIVE" =>
              (proposal.status \in {"PASSED", "EXECUTED"} <=> Passed(CountOf(Cast)))
        /\ (\A r \in Requests : At(r, "idle")) =>
              /\ proposal.tally = CountOf(Cast)
              /\ slashed = IF proposal.status = "EXECUTED" THEN 1 ELSE 0
              /\ proposal.status # "PASSED"
=============================================================================
