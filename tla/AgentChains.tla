----------------------------- MODULE AgentChains -----------------------------
(***************************************************************************)
(* The agents that have a language model plan a chain of paid calls and    *)
(* make them one after the other: Phantom CASH's (phantom-agent.ts and     *)
(* execution-engine.ts), CDP's demand side (demand-agent.ts,               *)
(* execution-engine.ts, tool-registry.ts) and CDP's autonomous agent       *)
(* (autonomous-agent.ts). The tasks that an agent is given share its       *)
(* wallet. How a call is paid is PaidCalls; here it is one step, after     *)
(* which the call may still fail.                                          *)
(*                                                                         *)
(* Only the demand side pays what the plan's tool costs; the others pay    *)
(* what the service asks, and count what the registry or the model said.   *)
(***************************************************************************)
EXTENDS StepGraph, SequencesExt

CONSTANTS
    Tasks,      \* tasks at one time
    Plans,      \* deps, as in StepGraph, and the price of each step
    Asked,      \* what services ask
    Budget,     \* of each task
    Balance     \* bound: what the wallet holds at the start

ChainAssumption ==
    IsFiniteSet(Tasks) /\ Asked \subseteq Nat /\ Budget \in Nat /\ Balance \in Nat

VARIABLES
    agent,
    proposal,   \* the plan that the model makes of every task
    wallet,
    job,        \* executeTask, for each task: its sorted steps, how many were called, totalCost,
                \* and what was paid and counted nowhere
    overlapped  \* history: has a task begun before another was over?

chainVars == <<agent, proposal, wallet, job, overlapped>>

NewJob == [pc |-> "new", order |-> <<>>, called |-> 0, total |-> 0, uncounted |-> 0]
Outcomes == {"refused", "failed", "noFunds", "overBudget", "success"}
Over(t) == job[t].pc \in Outcomes

TypeOK ==
    /\ agent \in {"phantom", "demand", "autonomous"}
    /\ proposal \in Plans
    /\ wallet \in 0..Balance
    /\ job \in [Tasks -> [pc : {"new", "planning", "running"} \cup Outcomes,
                          order : Seq(DOMAIN proposal.deps), called : 0..Len(proposal.deps),
                          total : Nat, uncounted : Nat]]
    /\ overlapped \in BOOLEAN

Init ==
    /\ agent \in {"phantom", "demand", "autonomous"}
    /\ proposal \in Plans
    /\ wallet = Balance
    /\ job = [t \in Tasks |-> NewJob]
    /\ overlapped = FALSE

Ids == DOMAIN proposal.deps
DepsOf(s) == DependsOn(proposal.deps, s)
At(t, pc) == job[t].pc = pc
Goto(t, pc) == job' = [job EXCEPT ![t].pc = pc]

-----------------------------------------------------------------------------
Search == [cycle: BOOLEAN, sorted: Seq(Ids)]

\* One after the other, those that exist
VisitAll(visit, search, steps) ==
    FoldLeft(LAMBDA result, d : IF d \in Ids THEN visit[d][result] ELSE result, search, steps)

\* visit of topologicalSort: after the steps that a step depends on. A step that is being
\* visited is a cycle, and an exception.
Visit[visiting \in SUBSET Ids] ==
    [s \in Ids |-> [search \in Search |->
        IF search.cycle \/ s \in Range(search.sorted) THEN search
        ELSE IF s \in visiting THEN [search EXCEPT !.cycle = TRUE]
        ELSE [VisitAll(Visit[visiting \cup {s}], search, proposal.deps[s])
                 EXCEPT !.sorted = Append(@, s)]]]

Sorting == VisitAll(Visit[{}], [cycle |-> FALSE, sorted |-> <<>>], [i \in Ids |-> i])

\* executeTask: two of the agents compare their balance with the task's budget.
Begin(t) ==
    /\ At(t, "new")
    /\ Goto(t, IF agent = "autonomous" \/ wallet >= Budget THEN "planning" ELSE "refused")
    /\ overlapped' = (overlapped \/ \E u \in Tasks \ {t} : ~At(u, "new") /\ ~Over(u))
    /\ UNCHANGED <<agent, proposal, wallet>>

\* The model's answer, which may not be a plan or exceed the budget by its own estimate; two
\* agents have it optimised after that. topologicalSort
Planned(t) ==
    /\ At(t, "planning")
    /\ \/ Goto(t, "failed")
       \/ job' = [job EXCEPT ![t].pc = IF Sorting.cycle THEN "failed" ELSE "running",
                             ![t].order = IF Sorting.cycle THEN <<>> ELSE Sorting.sorted]
    /\ UNCHANGED <<agent, proposal, wallet, overlapped>>

Current(t) == job[t].order[job[t].called + 1]
Prices(s) == IF agent = "demand" THEN {proposal.price[s]} ELSE Asked

\* The autonomous agent only adds up.
OverBudget(t, total) == agent # "autonomous" /\ total > Budget

\* executeStep, paid and answered
Answered(t) ==
    /\ At(t, "running") /\ job[t].called < Len(job[t].order)
    /\ LET total == job[t].total + proposal.price[Current(t)]
       IN  \E price \in Prices(Current(t)) :
              /\ price <= wallet
              /\ wallet' = wallet - price
              /\ job' = [job EXCEPT ![t].called = @ + 1, ![t].total = total,
                                    ![t].pc = IF OverBudget(t, total) THEN "overBudget" ELSE @]
    /\ UNCHANGED <<agent, proposal, overlapped>>

\* executeStep of a service that is not found, does not answer, or fails after it was paid:
\* what was paid is not in totalCost.
Failed(t) ==
    /\ At(t, "running") /\ job[t].called < Len(job[t].order)
    /\ \E price \in Prices(Current(t)) \cup {0} :
          /\ price <= wallet
          /\ wallet' = wallet - price
          /\ job' = [job EXCEPT ![t].called = @ + 1, ![t].pc = "failed", ![t].uncounted = price]
    /\ UNCHANGED <<agent, proposal, overlapped>>

\* executeStep when the wallet cannot pay
Unfunded(t) ==
    /\ At(t, "running") /\ job[t].called < Len(job[t].order)
    /\ \E price \in Prices(Current(t)) : price > wallet
    /\ job' = [job EXCEPT ![t].called = @ + 1, ![t].pc = "noFunds"]
    /\ UNCHANGED <<agent, proposal, wallet, overlapped>>

Finish(t) ==
    /\ At(t, "running") /\ job[t].called = Len(job[t].order)
    /\ Goto(t, "success")
    /\ UNCHANGED <<agent, proposal, wallet, overlapped>>

Next ==
    \E t \in Tasks : Begin(t) \/ Planned(t) \/ Answered(t) \/ Failed(t) \/ Unfunded(t) \/ Finish(t)

Spec == Init /\ [][Next]_chainVars
-----------------------------------------------------------------------------
\* No set of steps in which each depends on another of the set
Acyclic == \A S \in (SUBSET Ids) \ {{}} : \E s \in S : DepsOf(s) \cap S = {}

\* topologicalSort of all three: what does not exist or is named twice does not matter, and
\* there is an order, of every step after all it depends on, unless they form a cycle.
Ordered ==
    /\ Sorting.cycle <=> ~Acyclic
    /\ \A t \in Tasks :
          LET order == job[t].order
          IN  order # <<>> =>
                 /\ Range(order) = Ids /\ IsInjective(order)
                 /\ \A i \in DOMAIN order : DepsOf(order[i]) \cap Ids
                                               \subseteq {order[j] : j \in 1..(i - 1)}

CostOfLast(t) == IF job[t].called = 0 THEN 0 ELSE proposal.price[job[t].order[job[t].called]]

\* What a task counts exceeds its budget by less than its last step, and not when it has
\* succeeded. The demand side pays that, and one step more at most, which has failed; its
\* tasks find their budget in the wallet when they do not overlap.
BudgetKept ==
    /\ \A t \in Tasks : agent # "autonomous" =>
          /\ job[t].pc = "overBudget" => job[t].total - CostOfLast(t) <= Budget
          /\ job[t].pc # "overBudget" => job[t].total <= Budget
    /\ agent = "demand" =>
          /\ wallet + SumFunction([t \in Tasks |-> job[t].total + job[t].uncounted]) = Balance
          /\ \A t \in Tasks : job[t].pc = "noFunds" /\ ~overlapped =>
                job[t].total + CostOfLast(t) > Budget

\* A task that has succeeded has called every step of its plan.
AllCalled == \A t \in Tasks : job[t].pc = "success" => job[t].called = Cardinality(Ids)

ChainsBounded == Ordered /\ BudgetKept /\ AllCalled
=============================================================================
