--------------------------- MODULE ExecutionPlans ---------------------------
(***************************************************************************)
(* What the reasoning engine computes from the steps of a plan before and  *)
(* while it is executed: the estimates of core/ai-planner.ts, and the      *)
(* chain executor of service-chain.ts, which calls the steps in the order  *)
(* of the list and has a check of its own for cycles.                      *)
(***************************************************************************)
EXTENDS StepGraph, SequencesExt

CONSTANT Tasks      \* plans: deps, a sequence of sequences, and time of each step

VARIABLES
    task,
    strategy,   \* config.failureStrategy; 'retry' does what 'continue' does
    chain       \* ServiceChainExecutor.execute: the steps called, answered, and errors

planVars == <<task, strategy, chain>>

Ids == DOMAIN task.deps
DepsOf(s) == DependsOn(task.deps, s)

-----------------------------------------------------------------------------
\* ai-planner.ts: generateExecutionPlan

Time(path) == SumFunction([i \in DOMAIN path |-> task.time[path[i]]])

\* Where numbers are compared with `>`, the first of the largest is taken.
FirstLargest(f) ==
    CHOOSE i \in DOMAIN f : \A j \in DOMAIN f : f[j] < f[i] \/ (f[j] = f[i] /\ i <= j)

\* findLongestPath: the longest in steps; unknown dependencies are skipped. Only a
\* plan without a cycle makes it end.
LongestPath[s \in Ids] ==
    LET paths == [i \in {k \in DOMAIN task.deps[s] : task.deps[s][k] \in Ids} |->
                     LongestPath[task.deps[s][i]]]
    IN  IF DOMAIN paths = {} THEN <<s>>
        ELSE Append(paths[FirstLargest([i \in DOMAIN paths |-> Len(paths[i])])], s)

\* steps that no step depends on
EndSteps == {s \in Ids : \A t \in Ids : s \notin DepsOf(t)}

\* findCriticalPath: of these, the one that takes the most time
CriticalPath ==
    LET times == [s \in EndSteps |-> Time(LongestPath[s])]
        slowest == FirstLargest(times)
    IN  IF EndSteps = {} \/ times[slowest] = 0 THEN <<>> ELSE LongestPath[slowest]

Level(n) == Removed(task.deps)[n] \ Removed(task.deps)[n - 1]

\* calculateTotalTime: every level takes as long as its slowest step. There are as many
\* levels as steps at most.
LevelTime(n) == Max({0} \cup {task.time[s] : s \in Level(n)})
TotalTime == SumFunction([n \in Ids |-> LevelTime(n)])

-----------------------------------------------------------------------------
\* task-decomposer.ts, which plans without a language model

\* extractKeywords and analyzeTask: a task for each kind of word, with the tasks it depends on,
\* and its time in seconds
Keywords == {"data", "analyze", "compute", "generate"}
TaskTime == [data |-> 2, analyze |-> 5, compute |-> 8, generate |-> 3]
Needs(words, k) ==
    CASE k = "data" -> {}
      [] k = "generate" -> words \ {k}
      [] OTHER -> words \cap {"data"}

\* calculateLevel: steps depend on the ids of tasks, and no step has one of these, so whatever
\* depends on anything is on level 1. For the same reason optimizeExecution changes no time.
StepLevel(words, k) == IF Needs(words, k) = {} THEN 0 ELSE 1

\* calculateTotalTime
DecomposedTime(words) ==
    LET On(n) == {TaskTime[k] : k \in {w \in words : StepLevel(words, w) = n}}
    IN  Max({0} \cup On(0)) + Max({0} \cup On(1))

-----------------------------------------------------------------------------
\* service-chain.ts: validateChain

NoUnknown == \A s \in Ids : DepsOf(s) \subseteq Ids

Search == [visited: SUBSET Nat, cycle: BOOLEAN]

\* One after the other. Every d is a number, and so in the domain of visit.
VisitAll(visit, search, steps) ==
    FoldLeft(LAMBDA found, d : IF d \in DOMAIN visit THEN visit[d][found] ELSE found, search, steps)

\* hasCycleUtil, and the question whether a step was visited, which comes before. path are the
\* steps whose dependencies are being visited. These are the recursionStack, with the visited
\* steps that do not exist: they are never taken off.
Visit[path \in SUBSET Ids] ==
    [s \in Nat |-> [search \in Search |->
        LET entered == [search EXCEPT !.visited = @ \cup {s}]
        IN  IF search.cycle THEN search
            ELSE IF s \in path \cup search.visited
                 THEN [search EXCEPT !.cycle = s \in path \/ s \notin Ids]
            ELSE IF s \in Ids THEN VisitAll(Visit[path \cup {s}], entered, task.deps[s])
            ELSE entered]]

\* Every search goes on with what the last one has visited.
DetectCycle == VisitAll(Visit[{}], [visited |-> {}, cycle |-> FALSE], [i \in Ids |-> i]).cycle

ValidChain == NoUnknown /\ ~DetectCycle

-----------------------------------------------------------------------------
\* service-chain.ts: execute

InitPlan ==
    /\ task \in Tasks
    /\ strategy \in {"abort", "continue"}
    /\ chain = [pc |-> "new", called |-> 0, executed |-> {}, errors |-> 0]

TypeOK ==
    /\ task \in Tasks
    /\ strategy \in {"abort", "continue"}
    /\ chain \in [pc: {"new", "running", "returned"}, called: 0..Len(task.deps),
                  executed: SUBSET Ids, errors: 0..Len(task.deps)]

\* The estimated cost is within the limit, or that is the error.
BeginChain ==
    /\ chain.pc = "new"
    /\ chain' \in {[chain EXCEPT !.pc = "running"],
                   [chain EXCEPT !.pc = "returned", !.errors = 1]}
    /\ UNCHANGED <<task, strategy>>

Answered(s) ==
    chain' = [chain EXCEPT !.called = s, !.executed = @ \cup {s}]

\* Its dependencies are not met, or the call has failed: 402 too is a failure.
NotAnswered(s) ==
    chain' = [chain EXCEPT !.called = s, !.errors = @ + 1,
                           !.pc = IF strategy = "abort" THEN "returned" ELSE @]

CanExecuteSome(s) == DepsOf(s) = {} \/ DepsOf(s) \cap chain.executed # {}
CanExecute(s) == DepsOf(s) \subseteq chain.executed

CallStep ==
    /\ chain.pc = "running"
    /\ chain.called < Len(task.deps)
    /\ LET s == chain.called + 1
       IN  \/ CanExecute(s) /\ Answered(s)
           \/ NotAnswered(s)
    /\ UNCHANGED <<task, strategy>>

EndChain ==
    /\ chain.pc = "running"
    /\ chain.called = Len(task.deps)
    /\ chain' = [chain EXCEPT !.pc = "returned"]
    /\ UNCHANGED <<task, strategy>>

NextPlan == BeginChain \/ CallStep \/ EndChain

SpecPlan == InitPlan /\ [][NextPlan]_planVars
-----------------------------------------------------------------------------
\* What these computations promise

\* The reference: no set of steps in which each depends on another of the set.
Acyclic == \A S \in (SUBSET Ids) \ {{}} : \E s \in S : DepsOf(s) \cap S = {}

\* topologicalSort returns if and only if no step depends on itself through others,
\* on a step that does not exist, or twice on one.
SortExact ==
    Sortable(task.deps) <=>
        /\ Acyclic
        /\ NoUnknown
        /\ \A s \in Ids : IsInjective(task.deps[s])

\* The critical path of a plan is a chain of dependencies from a step that has none
\* to one that no step depends on, and the estimated time covers that of every step
\* together with the longest chain before it.
TimeCoversCriticalPath ==
    Sortable(task.deps) =>
        /\ LET path == CriticalPath
           IN  path # <<>> =>
                  /\ DepsOf(path[1]) = {}
                  /\ \A i \in 2..Len(path) : path[i - 1] \in DepsOf(path[i])
                  /\ \A t \in Ids : path[Len(path)] \notin DepsOf(t)
        /\ \A s \in Ids : Time(LongestPath[s]) <= TotalTime

\* detectCycle misses no cycle, and finds no other when all dependencies exist; a chain
\* that succeeds would have been found valid, though nothing validates it first.
ChainSound ==
    /\ ~Acyclic => DetectCycle
    /\ NoUnknown => (DetectCycle => ~Acyclic)
    /\ chain.pc = "returned" /\ chain.errors = 0 => chain.executed = Ids /\ ValidChain

\* The reference: when the last task is over if each begins after those it needs
LeastTime(words) ==
    LET Finish[k \in Keywords] ==
            TaskTime[k] + Max({0} \cup {Finish[d] : d \in Needs(words, k)})
    IN  Max({Finish[k] : k \in words})

\* The decomposer's estimate is the least time, but for tasks in three levels: less for these.
DecomposedTimeKnown ==
    \A words \in (SUBSET Keywords) \ {{}} :
        LET three == {"data", "generate"} \subseteq words /\ words \cap {"analyze", "compute"} # {}
        IN  /\ ~three => DecomposedTime(words) = LeastTime(words)
            /\ three => DecomposedTime(words) < LeastTime(words)
=============================================================================
