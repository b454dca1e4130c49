--------------------------- MODULE ExecutionEngine ---------------------------
(***************************************************************************)
(* One execution of an approved workflow, core/execution-engine.ts of the  *)
(* reasoning engine with the calls that core/payment-orchestrator.ts makes *)
(* for it.                                                                 *)
(*                                                                         *)
(* A step is called, perhaps paid for and called again; each of the three  *)
(* may throw, and the step then waits and starts from the beginning.  What *)
(* the escrow wallet does with a payment is EscrowWallet's: here it pays,  *)
(* throws, or throws although it has paid.                                 *)
(***************************************************************************)
EXTENDS StepGraph

CONSTANTS
    Plans,          \* plans that may be executed: deps, and which are parallelizable
    MaxAttempts     \* retryPolicy.maxAttempts, 3 by default

\* Plans are finite, and dependencies a sequence; there is a first attempt.
PlanAssumption ==
    /\ MaxAttempts \in Nat \ {0}
    /\ \A p \in Plans : /\ IsFiniteSet(DOMAIN p.deps)
                       /\ \A s \in DOMAIN p.deps : p.deps[s] \in Seq(Range(p.deps[s]))

VARIABLES
    plan,
    pc,         \* where execute is
    sorted,     \* the steps of the levels that are behind
    level,      \* the steps of the current one that are still to do
    call,       \* executeStepWithRetry of each step
    total       \* context.totalCost, in payments: each step has one price

vars == <<plan, pc, sorted, level, call, total>>

Steps == DOMAIN plan.deps

PC == {"starting", "levels", "sequential", "parallel", "completing", "failing", "rollingBack",
       "completed", "failed", "thrown"}
Returned == {"completed", "failed", "thrown"}   \* thrown: execute itself rejects

\* paid and cost count payments: those made, and those that the result reports.
Call == [pc: {"none", "calling", "paying", "paid", "waiting", "done", "failed"},
         attempts: Nat, paid: Nat, cost: {0, 1}]
NotCalled == [pc |-> "none", attempts |-> 0, paid |-> 0, cost |-> 0]
Begun(s) == call[s].pc # "none"
Over(s) == call[s].pc \in {"done", "failed"}

TypeOK ==
    /\ plan \in Plans
    /\ pc \in PC
    /\ sorted \subseteq Steps
    /\ level \subseteq Steps
    /\ call \in [Steps -> Call]
    /\ total \in Nat

Init ==
    /\ plan \in Plans
    /\ pc = "starting"
    /\ sorted = {} /\ level = {}
    /\ call = [s \in Steps |-> NotCalled]
    /\ total = 0

CurrentLevel == NextLevel(plan.deps, sorted)
Parallel == CurrentLevel \cap plan.parallel

\* saveExecutionState may throw; the catch block then saves and rolls back.
Save(from, to) ==
    /\ pc = from
    /\ pc' \in {to, IF from \in {"starting", "completing"} THEN "failing" ELSE "thrown"}
    /\ UNCHANGED <<plan, sorted, level, call, total>>

\* The 'executing' state is saved, and the steps sorted: all of them, or it throws.
Start == Save("starting", IF Sortable(plan.deps) THEN "levels" ELSE "failing")

\* Two parallelizable steps in a level, and the others in it are left out; else all
\* of its steps are called one after the other.
BeginLevel ==
    /\ pc = "levels"
    /\ sorted # Steps
    /\ IF Cardinality(Parallel) > 1
       THEN /\ pc' = "parallel"
            /\ level' = Parallel
            /\ call' = [s \in Steps |-> IF s \in Parallel
                                        THEN [NotCalled EXCEPT !.pc = "calling", !.attempts = 1]
                                        ELSE call[s]]
       ELSE /\ pc' = "sequential"
            /\ level' = CurrentLevel
            /\ UNCHANGED call
    /\ UNCHANGED <<plan, sorted, total>>

BeginStep(s) ==
    /\ pc = "sequential"
    /\ s \in level
    /\ \A t \in level : ~Begun(t)
    /\ call' = [call EXCEPT ![s].pc = "calling", ![s].attempts = 1]
    /\ UNCHANGED <<plan, pc, sorted, level, total>>

-----------------------------------------------------------------------------
\* executeStep and executeServiceCall

Goto(s, step) ==
    /\ call' = [call EXCEPT ![s] = step]
    /\ UNCHANGED <<plan, pc, sorted, level, total>>

\* The step after an exception: another attempt, or none are left
Thrown(step) ==
    [step EXCEPT !.pc = IF step.attempts < MaxAttempts THEN "waiting" ELSE "failed"]

PaidOnce(step) == [step EXCEPT !.paid = @ + 1]

\* matchServiceToStep and the first POST: 200, 402, or an exception
FirstPost(s) ==
    /\ call[s].pc = "calling"
    /\ \E step \in {[call[s] EXCEPT !.pc = "done"], [call[s] EXCEPT !.pc = "paying"],
                    Thrown(call[s])} :
          Goto(s, step)

\* handlePayment up to executePayment
Pay(s) ==
    /\ call[s].pc = "paying"
    /\ \E step \in {[PaidOnce(call[s]) EXCEPT !.pc = "paid"], Thrown(call[s]),
                    Thrown(PaidOnce(call[s]))} :
          Goto(s, step)

\* The second POST, with X-Payment
SecondPost(s) ==
    /\ call[s].pc = "paid"
    /\ \E step \in {[call[s] EXCEPT !.pc = "done", !.cost = 1], Thrown(call[s])} :
          Goto(s, step)

\* The delay before the next attempt
RetryUncounted(s) ==
    /\ call[s].pc = "waiting"
    /\ Goto(s, [call[s] EXCEPT !.pc = "calling"])

Retry(s) ==
    /\ call[s].pc = "waiting"
    /\ Goto(s, [call[s] EXCEPT !.pc = "calling", !.attempts = @ + 1])

-----------------------------------------------------------------------------
\* The end of a step, of a level and of the execution

Cost(steps) == Cardinality({s \in steps : call[s].cost = 1})

\* What a level's last step leaves behind: its steps count as executed.
LeaveLevel(left) ==
    IF left = {} THEN /\ pc' = "levels"
                      /\ sorted' = sorted \cup CurrentLevel
                 ELSE UNCHANGED <<pc, sorted>>

EndStepAnyway(s) ==
    /\ pc = "sequential"
    /\ s \in level
    /\ Over(s)
    /\ total' = total + Cost({s})
    /\ level' = level \ {s}
    /\ LeaveLevel(level')
    /\ UNCHANGED <<plan, call>>

\* executeSingleStep throws for a step that has failed.
EndStep(s) ==
    /\ pc = "sequential"
    /\ s \in level
    /\ Over(s)
    /\ total' = total + Cost({s})
    /\ level' = level \ {s}
    /\ IF call[s].pc = "failed" THEN pc' = "failing" /\ UNCHANGED sorted
                                ELSE LeaveLevel(level')
    /\ UNCHANGED <<plan, call>>

EndParallelUnbilled ==
    /\ pc = "parallel"
    /\ \A s \in level : Over(s)
    /\ level' = {}
    /\ LeaveLevel({})
    /\ UNCHANGED <<plan, call, total>>

\* executeParallel, when all its steps are settled: executeStepWithRetry never
\* rejects, and so a step that has failed counts as one that has not.
EndParallel ==
    /\ pc = "parallel"
    /\ \A s \in level : Over(s)
    /\ total' = total + Cost(level)
    /\ level' = {}
    /\ LeaveLevel({})
    /\ UNCHANGED <<plan, call>>

EndLevels ==
    /\ pc = "levels"
    /\ sorted = Steps
    /\ pc' = "completing"
    /\ UNCHANGED <<plan, sorted, level, call, total>>

Complete == Save("completing", "completed")
Fail == Save("failing", "rollingBack")
\* Nothing is rolled back but the saved state.
RollBack == Save("rollingBack", "failed")

StepCall(s) == FirstPost(s) \/ Pay(s) \/ SecondPost(s) \/ Retry(s)

Next ==
    \/ Start \/ BeginLevel \/ EndParallel \/ EndLevels \/ Complete \/ Fail \/ RollBack
    \/ \E s \in Steps : BeginStep(s) \/ StepCall(s) \/ EndStep(s)

Spec == Init /\ [][Next]_vars

\* JavaScript goes on with what awaits nothing, timers fire, Redis answers, and so do
\* services and the escrow wallet: axios is given no timeout.
FairSpec == Spec /\ WF_vars(Next)
-----------------------------------------------------------------------------
\* What an execution promises

\* No step is called before the levels of all its dependencies are behind it, and
\* their calls over: they were answered, but for parallelizable ones, which may
\* have failed, and others, which may have been left out of their level.
OrderKept ==
    \A s \in Steps : Begun(s) =>
        \A d \in DependsOn(plan.deps, s) :
            /\ d \in sorted
            /\ call[d].pc \in {"done", IF d \in plan.parallel THEN "failed" ELSE "none"}

\* The parallelizable steps of a step's level
Alongside(s) ==
    LET rounds == Removed(plan.deps)
    IN  {t \in plan.parallel : \A n \in DOMAIN rounds : s \in rounds[n] <=> t \in rounds[n]}

\* All steps of a completed workflow were answered, except in levels with two
\* parallelizable steps: there these may have failed, and the others were not called.
CompletedWasServed ==
    pc = "completed" =>
        \A s \in Steps :
            \/ call[s].pc = "done"
            \/ /\ Cardinality(Alongside(s)) > 1
               /\ call[s].pc = IF s \in plan.parallel THEN "failed" ELSE "none"

\* The cost in the result is one payment for each step that was answered after it
\* was paid for; payments it does not report are those of attempts that failed, at
\* most one each; and nothing more will be paid.
BillExact ==
    pc \in Returned =>
        /\ total = Cost(Steps)
        /\ \A s \in Steps :
              /\ Begun(s) => Over(s)
              /\ call[s].paid - call[s].cost \in
                    0..(IF call[s].pc = "done" THEN call[s].attempts - 1 ELSE call[s].attempts)
              /\ call[s].attempts <= MaxAttempts

\* An execution ends, whatever its plan, and however often its calls fail.
ExecutionEnds == <>(pc \in Returned)
=============================================================================
