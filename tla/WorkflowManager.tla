--------------------------- MODULE WorkflowManager ---------------------------
(***************************************************************************)
(* One workflow of the reasoning engine: core/workflow-manager.ts with the *)
(* routes of server/index.ts that call it.                                 *)
(*                                                                         *)
(* The manager keeps the workflow as an object that all its handlers share *)
(* and change between awaits, and saves copies of it to Redis; after a     *)
(* restart whoever needs it parses the copy, each into an object of its    *)
(* own.  One action is what a handler does between two awaits.  Commands   *)
(* to Redis go over one connection and are answered in order.  What an     *)
(* execution does is ExecutionEngine's; here it ends as completed or       *)
(* failed.                                                                 *)
(***************************************************************************)
EXTENDS Integers, Sequences, FiniteSets, Functions

CONSTANTS
    Requests,       \* requests to approve, to cancel and to view
    Creator,        \* createWorkflow, and planWorkflowAsync that it starts
    MaxFaults,      \* bound: exceptions of Redis and crashes
    NoHandler

Handlers == Requests \cup {Creator}

WorkflowAssumption == NoHandler \notin Handlers /\ Creator \notin Requests /\ MaxFaults \in Nat

VARIABLES
    status,     \* status of the object that a handler has created or parsed
    current,    \* the handler whose object this.workflows holds
    stored,     \* the status in the Redis record workflow:<id>
    handler,
    queue,      \* the handlers whose commands Redis has yet to answer
    executed,   \* requests whose execution has begun
    contended,  \* history: has an approval begun before another was over?
    withdrawn,  \* history: has a cancellation ended when nothing was under way?
    faults

vars == <<status, current, stored, handler, queue, executed, contended, withdrawn, faults>>
history == <<contended, withdrawn>>

\* The object's status becomes neither 'executing' nor 'rolling_back'.
Status == {"none", "planning", "awaiting_approval", "approved", "completed", "failed", "cancelled"}
\* What a handler is doing, and where in it.  get: redis.get; save, list: setex, and
\* lpush and ltrim, of saveWorkflow; work: the planner, getBalance, or the engine.
Operation == {"none", "create", "plan", "planFailed", "view", "approve", "cancel", "execute",
              "executeFailed"}
Handler == [pc: {"idle", "get", "save", "list", "work", "done"}, op: Operation,
            object: Handlers \cup {NoHandler}, copy: Status]
Idle == [pc |-> "idle", op |-> "none", object |-> NoHandler, copy |-> "none"]

TypeOK ==
    /\ status \in [Handlers -> Status]
    /\ current \in Handlers \cup {NoHandler}
    /\ stored \in Status
    /\ handler \in [Handlers -> Handler]
    /\ queue \in Seq(Handlers)
    /\ executed \subseteq Requests
    /\ contended \in BOOLEAN /\ withdrawn \in BOOLEAN
    /\ faults \in 0..MaxFaults

Init ==
    /\ status = [h \in Handlers |-> "none"]
    /\ current = NoHandler
    /\ stored = "none"
    /\ handler = [h \in Handlers |-> Idle]
    /\ queue = <<>>
    /\ executed = {}
    /\ contended = FALSE /\ withdrawn = FALSE
    /\ faults = 0

At(h, pc, op) == handler[h].pc = pc /\ handler[h].op = op
Object(h) == handler[h].object
Done(h) == handler' = [handler EXCEPT ![h].pc = "done"]
InProgress(h, ops) == handler[h].pc \notin {"idle", "done"} /\ handler[h].op \in ops

\* workflow.status = s; await saveWorkflow(workflow): the copy is made here.
SetAndSave(h, op, object, s, q) ==
    /\ status' = [status EXCEPT ![object] = s]
    /\ handler' = [handler EXCEPT ![h] = [pc |-> "save", op |-> op, object |-> object, copy |-> s]]
    /\ queue' = Append(q, h)

-----------------------------------------------------------------------------
\* createWorkflow and planWorkflowAsync

Create ==
    /\ handler[Creator].pc = "idle"
    /\ SetAndSave(Creator, "create", Creator, "planning", queue)
    /\ current' = Creator
    /\ UNCHANGED <<stored, executed, history, faults>>

\* The planner and the discovery have answered, or one of them has thrown.
Plan ==
    /\ At(Creator, "work", "plan")
    /\ \/ SetAndSave(Creator, "plan", Creator, "awaiting_approval", queue)
       \/ SetAndSave(Creator, "planFailed", Creator, "failed", queue)
    /\ UNCHANGED <<current, stored, executed, history, faults>>

-----------------------------------------------------------------------------
\* The requests

Contending(h, op) ==
    contended' = (contended \/ /\ op = "approve"
                               /\ \E r \in Requests \ {h} : InProgress(r, {"approve"}))

DecideUnchecked(h, op, object, s, q) ==
    IF op = "approve"
    THEN /\ handler' = [handler EXCEPT ![h] = [pc |-> "work", op |-> op, object |-> object,
                                               copy |-> s]]
         /\ status' = [status EXCEPT ![object] = s]
         /\ queue' = q
    ELSE SetAndSave(h, op, object, "cancelled", q)

\* What a request does with the object once it has it: until its next await, or at
\* all; approveWorkflow awaits the balance, cancelWorkflow saves.
Decide(h, op, object, s, q) ==
    CASE op = "approve" /\ s = "awaiting_approval" ->
            /\ handler' = [handler EXCEPT ![h] = [pc |-> "work", op |-> op, object |-> object,
                                                  copy |-> s]]
            /\ status' = [status EXCEPT ![object] = s]
            /\ queue' = q
      [] op = "cancel" /\ s \notin {"completed", "failed"} ->
            SetAndSave(h, op, object, "cancelled", q)
      [] OTHER ->
            /\ Done(h)
            /\ status' = [status EXCEPT ![object] = s]
            /\ queue' = q

\* getWorkflow, from this.workflows or from Redis
Begin(h, op) ==
    /\ handler[h].pc = "idle"
    /\ IF current # NoHandler
       THEN Decide(h, op, current, status[current], queue)
       ELSE /\ handler' = [handler EXCEPT ![h] = [Idle EXCEPT !.pc = "get", !.op = op]]
            /\ queue' = Append(queue, h)
            /\ UNCHANGED status
    /\ Contending(h, op)
    /\ UNCHANGED <<current, stored, executed, withdrawn, faults>>

Load(h) ==
    /\ handler[h].pc = "get"
    /\ queue # <<>> /\ Head(queue) = h
    /\ IF stored = "none"
       THEN Done(h) /\ queue' = Tail(queue) /\ UNCHANGED <<status, current>>
       ELSE current' = h /\ Decide(h, handler[h].op, h, stored, Tail(queue))
    /\ UNCHANGED <<stored, executed, history, faults>>

CheckFundsExecuting(h) ==
    /\ At(h, "work", "approve")
    /\ SetAndSave(h, "approve", Object(h), "executing", queue)
    /\ UNCHANGED <<current, stored, executed, history, faults>>

\* getBalance: the balance covers the estimated cost, or it does not, or it throws.
CheckFunds(h) ==
    /\ At(h, "work", "approve")
    /\ \/ SetAndSave(h, "approve", Object(h), "approved", queue)
       \/ Done(h) /\ UNCHANGED <<status, queue>>
    /\ UNCHANGED <<current, stored, executed, history, faults>>

\* executionEngine.execute has returned.
EndExecution(h) ==
    /\ At(h, "work", "execute")
    /\ \E result \in {"completed", "failed"} :
          SetAndSave(h, "execute", Object(h), result, queue)
    /\ UNCHANGED <<current, stored, executed, history, faults>>

-----------------------------------------------------------------------------
\* saveWorkflow

StoreUnlessCancelled(h) ==
    /\ handler[h].pc = "save"
    /\ queue # <<>> /\ Head(queue) = h
    /\ stored' = IF handler[h].op = "cancel" THEN stored ELSE handler[h].copy
    /\ handler' = [handler EXCEPT ![h].pc = "list"]
    /\ queue' = Append(Tail(queue), h)
    /\ UNCHANGED <<status, current, executed, history, faults>>

Store(h) ==
    /\ handler[h].pc = "save"
    /\ queue # <<>> /\ Head(queue) = h
    /\ stored' = handler[h].copy
    /\ handler' = [handler EXCEPT ![h].pc = "list"]
    /\ queue' = Append(Tail(queue), h)
    /\ UNCHANGED <<status, current, executed, history, faults>>

Quiet(h) == \A i \in Handlers \ {h} : ~InProgress(i, {"create", "plan", "planFailed", "approve"})

\* this.workflows.set at the end, and what follows the await: createWorkflow goes on
\* with planning, approveWorkflow with the execution.
Saved(h) ==
    /\ handler[h].pc = "list"
    /\ queue # <<>> /\ Head(queue) = h
    /\ queue' = Tail(queue)
    /\ current' = Object(h)
    /\ handler' = [handler EXCEPT
          ![h].pc = IF @ = "list" /\ handler[h].op \in {"create", "approve"} THEN "work" ELSE "done",
          ![h].op = CASE @ = "create" -> "plan" [] @ = "approve" -> "execute" [] OTHER -> @]
    /\ executed' = IF handler[h].op = "approve" THEN executed \cup {h} ELSE executed
    /\ withdrawn' = (withdrawn \/ (handler[h].op = "cancel" /\ Quiet(h)))
    /\ UNCHANGED <<status, stored, contended, faults>>

-----------------------------------------------------------------------------
\* What goes wrong

Fault == faults < MaxFaults /\ faults' = faults + 1

\* What Redis may hold when some of the commands have not reached it
Reached == {stored} \cup {handler[h].copy : h \in {i \in Range(queue) : handler[i].pc = "save"}}

\* The process dies: the objects and the handlers are gone.
Die ==
    /\ handler' = [h \in Handlers |-> IF handler[h].pc = "idle" THEN Idle
                                      ELSE [handler[h] EXCEPT !.pc = "done"]]
    /\ current' = NoHandler
    /\ queue' = <<>>
    /\ stored' \in Reached
    /\ UNCHANGED <<status, executed, history>>

Crash == current # NoHandler /\ Fault /\ Die

\* A command throws, executed or not: the plan and the execution become failed, which
\* is saved; when that throws too, nobody catches it and Node ends the process.
Throw(h) ==
    /\ queue # <<>> /\ Head(queue) = h
    /\ Fault
    /\ CASE handler[h].op = "plan" ->
              SetAndSave(h, "planFailed", Object(h), "failed", Tail(queue))
         [] handler[h].op = "execute" ->
              SetAndSave(h, "executeFailed", Object(h), "failed", Tail(queue))
         [] handler[h].op \in {"planFailed", "executeFailed"} ->
              Die
         [] OTHER ->
              Done(h) /\ queue' = Tail(queue) /\ UNCHANGED status
    /\ handler[h].op \notin {"planFailed", "executeFailed"} =>
          /\ stored' \in {stored} \cup IF handler[h].pc = "save" THEN {handler[h].copy} ELSE {}
          /\ UNCHANGED <<current, executed, history>>

Next ==
    \/ Create \/ Plan \/ Crash
    \/ \E h \in Requests :
          \/ \E op \in {"view", "approve", "cancel"} : Begin(h, op)
          \/ Load(h) \/ CheckFunds(h) \/ EndExecution(h)
    \/ \E h \in Handlers : Store(h) \/ Saved(h) \/ Throw(h)

Spec == Init /\ [][Next]_vars

-----------------------------------------------------------------------------
\* A workflow is executed once, through crashes, lost commands and cancellations,
\* unless two approvals of it overlap: then both may find it awaiting approval.
ExecutedOnce == contended \/ Cardinality(executed) <= 1

\* A cancellation that was answered while neither planning nor an approval was under
\* way holds for good: no execution begins after it.
CancelHolds == [][withdrawn => UNCHANGED executed]_vars
=============================================================================
