---------------------------- MODULE ParallaxAgent ----------------------------
(***************************************************************************)
(* The agent on a Parallax cluster (integrations/gradient): run of         *)
(* agent/x402-agent.ts brings the cluster up when it is not, and then      *)
(* gives the task to the brain, which asks the model, calls the tool that  *)
(* it names, and asks again. All tasks share the brain's one state, which  *)
(* each of them makes new, and the manager of the cluster polls its        *)
(* scheduler every five seconds until it is stopped.                       *)
(***************************************************************************)
EXTENDS Integers, FiniteSets, Functions

CONSTANTS
    Tasks,          \* calls of run
    Nodes,          \* of the cluster
    MaxIterations,  \* config.maxIterations
    MaxReconnects,  \* 3; attempts beyond it are counted no further
    MaxShutdowns    \* bound: calls of shutdown

ParallaxAssumption ==
    /\ IsFiniteSet(Tasks)
    /\ MaxIterations \in Nat \ {0} /\ MaxReconnects \in Nat /\ MaxShutdowns \in Nat

VARIABLES
    node,           \* the manager's view of each node
    attempts,       \* reconnectAttempts
    timer,          \* is heartbeatInterval set?
    polling,        \* how many intervals are firing
    initialized,
    brain,          \* its state: whose final answer it holds, iterations, cost
    run,            \* each call, with its result, and what it has asked and spent: history
    mingled,        \* history: has a task begun while another was being executed?
    disturbed,      \* history: has a start met another, or what one has left, or a shutdown?
    shutdowns

agentVars == <<node, attempts, timer, polling, initialized, brain, run, mingled, disturbed, shutdowns>>

NoTask == {}
FreshBrain == [answer |-> NoTask, iteration |-> 0, cost |-> 0]
NotRun == [pc |-> "idle", asked |-> 0, spent |-> 0, result |-> FreshBrain]
Starting == {"polling", "waiting", "health"}
Executing == {"asking", "tool"}

TypeOK ==
    /\ node \in [Nodes -> {"pending", "ready", "error"}]
    /\ attempts \in [Nodes -> 0..(MaxReconnects + 2)]
    /\ timer \in BOOLEAN /\ initialized \in BOOLEAN
    /\ polling \in Nat
    /\ brain.answer \in SUBSET Tasks /\ brain.iteration \in 0..MaxIterations /\ brain.cost \in Nat
    /\ \A t \in Tasks : run[t].pc \in {"idle", "failed", "answered", "aborted"} \cup Starting \cup Executing
    /\ mingled \in BOOLEAN /\ disturbed \in BOOLEAN
    /\ shutdowns \in 0..MaxShutdowns

Init ==
    /\ node = [n \in Nodes |-> "pending"]
    /\ attempts = [n \in Nodes |-> 0]
    /\ timer = FALSE /\ polling = 0 /\ initialized = FALSE
    /\ brain = FreshBrain
    /\ run = [t \in Tasks |-> NotRun]
    /\ mingled = FALSE /\ disturbed = FALSE
    /\ shutdowns = 0

At(t, pc) == run[t].pc = pc
Goto(t, pc) == run' = [run EXCEPT ![t].pc = pc]
clusterVars == <<node, attempts>>
lifeVars == <<timer, polling, initialized, disturbed, shutdowns>>

-----------------------------------------------------------------------------
\* pollClusterStatus, answered with nodes that are ready, and others that are pending then,
\* whatever they were. Only a node that becomes ready is forgiven its attempts.
Polled ==
    \E reported \in SUBSET Nodes : \E ready \in SUBSET reported :
       /\ node' = [n \in Nodes |-> IF n \in ready THEN "ready"
                                   ELSE IF n \in reported THEN "pending" ELSE node[n]]
       /\ attempts' = [n \in Nodes |-> IF n \in ready /\ node[n] # "ready" THEN 0 ELSE attempts[n]]

\* pollClusterStatus, not answered: a node with too many attempts is in error.
PollFailed ==
    /\ attempts' = [n \in Nodes |-> IF node[n] = "error" \/ attempts[n] = MaxReconnects + 2
                                    THEN attempts[n] ELSE attempts[n] + 1]
    /\ node' = [n \in Nodes |-> IF attempts[n] > MaxReconnects THEN "error" ELSE node[n]]

\* An interval fires.
Heartbeat ==
    /\ polling > 0
    /\ Polled \/ PollFailed
    /\ UNCHANGED <<lifeVars, brain, run, mingled>>

\* executeTask: a new state, and the first iteration
Execute(t) ==
    /\ run' = [run EXCEPT ![t].pc = "asking", ![t].asked = 1]
    /\ brain' = [FreshBrain EXCEPT !.iteration = 1]
    /\ mingled' = (mingled \/ \E u \in Tasks \ {t} : run[u].pc \in Executing)

\* run, and initialize to its first await: an interval of an earlier start may still fire.
Run(t) ==
    /\ At(t, "idle")
    /\ \/ initialized /\ Execute(t) /\ UNCHANGED disturbed
       \/ /\ ~initialized /\ Goto(t, "polling")
          /\ disturbed' = (disturbed \/ polling > 0 \/ \E u \in Tasks : run[u].pc \in Starting)
          /\ UNCHANGED <<brain, mingled>>
    /\ UNCHANGED <<clusterVars, timer, polling, initialized, shutdowns>>

\* ClusterManager.start: polls once and sets the interval.
Started(t) ==
    /\ At(t, "polling")
    /\ Polled \/ PollFailed
    /\ timer' = TRUE
    /\ polling' = polling + 1
    /\ Goto(t, "waiting")
    /\ UNCHANGED <<initialized, disturbed, shutdowns, brain, mingled>>

\* waitUntilOperational, which looks every second for a minute
Operational == Nodes # {} /\ \A n \in Nodes : node[n] = "ready"
Waited(t) ==
    /\ At(t, "waiting")
    /\ Goto(t, IF Operational THEN "health" ELSE "failed")
    /\ UNCHANGED <<clusterVars, lifeVars, brain, mingled>>

\* healthCheck
Healthy(t) ==
    /\ At(t, "health")
    /\ \/ initialized' = TRUE /\ Execute(t)
       \/ Goto(t, "failed") /\ UNCHANGED <<initialized, brain, mingled>>
    /\ UNCHANGED <<clusterVars, timer, polling, disturbed, shutdowns>>

\* shutdown clears the interval that was set last.
Shutdown ==
    /\ shutdowns < MaxShutdowns
    /\ timer' = FALSE
    /\ polling' = IF timer THEN polling - 1 ELSE polling
    /\ initialized' = FALSE
    /\ disturbed' = (disturbed \/ \E t \in Tasks : run[t].pc \in Starting)
    /\ shutdowns' = shutdowns + 1
    /\ UNCHANGED <<clusterVars, brain, run, mingled>>

\* executeTask's loop and the beginning of step, with the state as it is now; else its result
Loop(t, now) == now.iteration < MaxIterations /\ now.answer = NoTask

GoOn(t, now, spent) ==
    IF Loop(t, now)
    THEN /\ brain' = [now EXCEPT !.iteration = @ + 1]
         /\ run' = [run EXCEPT ![t].pc = "asking", ![t].asked = @ + 1, ![t].spent = @ + spent]
    ELSE /\ brain' = now
         /\ run' = [run EXCEPT ![t].pc = IF now.answer = NoTask THEN "aborted" ELSE "answered",
                               ![t].spent = @ + spent, ![t].result = now]

\* The model's answer: a final one, a tool that there is, or neither
Answered(t) ==
    /\ At(t, "asking")
    /\ \/ GoOn(t, [brain EXCEPT !.answer = {t}], 0)
       \/ Goto(t, "tool") /\ UNCHANGED brain
       \/ GoOn(t, brain, 0)
    /\ UNCHANGED <<clusterVars, lifeVars, mingled>>

\* executeToolCall: the cost is added to the state as it is then.
ToolExecuted(t) ==
    /\ At(t, "tool")
    /\ \E cost \in 0..1 : GoOn(t, [brain EXCEPT !.cost = @ + cost], cost)
    /\ UNCHANGED <<clusterVars, lifeVars, mingled>>

\* The model or the tool throws.
Aborted(t) ==
    /\ run[t].pc \in Executing
    /\ run' = [run EXCEPT ![t].pc = "aborted", ![t].result = brain]
    /\ UNCHANGED <<clusterVars, lifeVars, brain, mingled>>

Next ==
    \/ Heartbeat \/ Shutdown
    \/ \E t \in Tasks :
          \/ Run(t) \/ Started(t) \/ Waited(t) \/ Healthy(t)
          \/ Answered(t) \/ ToolExecuted(t) \/ Aborted(t)

Spec == Init /\ [][Next]_agentVars
-----------------------------------------------------------------------------
\* x402-agent.ts: an initialized agent has the one interval that shutdown will clear, and no
\* other fires, unless a start has met another one or a shutdown, or what a failed one left.
OneInterval ==
    ~disturbed => polling = (IF timer THEN 1 ELSE 0) /\ (initialized => timer)

\* brain.ts: a task is answered by its own answer, with its own iterations and cost, unless
\* another has begun meanwhile; all tasks together never ask more often than each might.
AnswersOwn ==
    /\ ~mingled => \A t \in Tasks : run[t].pc \in {"answered", "aborted"} =>
          run[t].result = [answer |-> IF run[t].pc = "answered" THEN {t} ELSE NoTask,
                           iteration |-> run[t].asked, cost |-> run[t].spent]
    /\ \A t \in Tasks : run[t].pc = "answered" => \E u \in run[t].result.answer : run[u].asked > 0
    /\ LET begun == {t \in Tasks : run[t].asked > 0}
       IN  SumFunctionOnSet([t \in Tasks |-> run[t].asked], begun)
              <= MaxIterations * SumFunctionOnSet([t \in Tasks |-> 1], begun)

AgentSound == OneInterval /\ AnswersOwn
=============================================================================
