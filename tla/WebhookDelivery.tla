-------------------------- MODULE WebhookDelivery --------------------------
(***************************************************************************)
(* Delivery of one merchant's webhooks by the facilitator, webhooks/       *)
(* delivery.ts, with the sweep that index.ts starts every minute and the   *)
(* switch of routes/webhook-config.ts.                                     *)
(*                                                                         *)
(* deliverWebhook is started by enqueueWebhook, by the setTimeout of an    *)
(* earlier attempt and by the sweep; nothing keeps two executions from     *)
(* delivering the same webhook.  One action is what an execution does      *)
(* between two awaits.                                                     *)
(***************************************************************************)
EXTENDS Integers

CONSTANTS
    Hooks,          \* webhooks that may be enqueued
    Callers,        \* executions started by enqueueWebhook and by timers
    Sweeps,         \* executions of retryFailedWebhooks
    MaxAttempts,    \* maxRetries, 3
    MaxMishaps,     \* bound: crashes, database errors, switches of the config
    NoHook

ASSUME WebhookAssumption ==
    /\ Callers \cap Sweeps = {} /\ NoHook \notin Hooks
    /\ MaxAttempts \in Nat \ {0} /\ MaxMishaps \in Nat

Executions == Callers \cup Sweeps

VARIABLES
    row,        \* the WebhookDelivery rows: status and attempts
    due,        \* hook -> has its nextRetryAt passed?
    timers,     \* hook -> setTimeouts that have not fired
    configured, \* is there an enabled WebhookConfig for the url?
    exec,       \* executions of deliverWebhook: pc and the row they have read
    queue,      \* sweep -> what its findMany found and it has yet to deliver
    tries,      \* history: deliveries of a hook that went wrong, up to MaxAttempts
    received,   \* history: hooks whose POST was answered with 2xx
    mishaps

deliveryVars == <<row, due, timers, configured, exec, queue, tries, received, mishaps>>

Row == [status: {"none", "pending", "completed", "failed"}, attempts: 0..MaxAttempts]
ExecPC == {"idle", "begin", "loaded", "unconfigured", "posting", "ok", "error"}
Exec == [pc: ExecPC, hook: Hooks \cup {NoHook}, seen: 0..MaxAttempts]
IdleExec == [pc |-> "idle", hook |-> NoHook, seen |-> 0]

DeliveryTypeOK ==
    /\ row \in [Hooks -> Row]
    /\ due \in [Hooks -> BOOLEAN]
    /\ timers \in [Hooks -> Nat]
    /\ configured \in BOOLEAN
    /\ exec \in [Executions -> Exec]
    /\ queue \in [Sweeps -> SUBSET Hooks]
    /\ tries \in [Hooks -> 0..MaxAttempts]
    /\ received \subseteq Hooks
    /\ mishaps \in 0..MaxMishaps

DeliveryInit ==
    /\ row = [h \in Hooks |-> [status |-> "none", attempts |-> 0]]
    /\ due = [h \in Hooks |-> FALSE]
    /\ timers = [h \in Hooks |-> 0]
    /\ configured = TRUE
    /\ exec = [e \in Executions |-> IdleExec]
    /\ queue = [s \in Sweeps |-> {}]
    /\ tries = [h \in Hooks |-> 0]
    /\ received = {}
    /\ mishaps = 0

ExecAt(e, pc) == exec[e].pc = pc
Hook(e) == exec[e].hook
ExecGoto(e, pc) == exec' = [exec EXCEPT ![e].pc = pc]
Return(e) == exec' = [exec EXCEPT ![e] = IdleExec]
Deliver(e, h) == exec' = [exec EXCEPT ![e] = [pc |-> "begin", hook |-> h, seen |-> 0]]

-----------------------------------------------------------------------------
\* What starts a delivery

\* enqueueWebhook; its row is due at once and deliverWebhook is not awaited.
Enqueue(e, h) ==
    /\ ExecAt(e, "idle")
    /\ row[h].status = "none"
    /\ row' = [row EXCEPT ![h].status = "pending"]
    /\ due' = [due EXCEPT ![h] = TRUE]
    /\ Deliver(e, h)
    /\ UNCHANGED <<timers, configured, queue, tries, received, mishaps>>

\* A setTimeout ends when the nextRetryAt passes that was written with it; when
\* there are others, theirs may have overwritten it.
TimerFires(e, h) ==
    /\ ExecAt(e, "idle")
    /\ timers[h] > 0
    /\ timers[h] = 1 => due[h]
    /\ timers' = [timers EXCEPT ![h] = @ - 1]
    /\ Deliver(e, h)
    /\ UNCHANGED <<row, due, configured, queue, tries, received, mishaps>>

Time(h) ==
    /\ ~due[h]
    /\ row[h].status # "none"
    /\ due' = [due EXCEPT ![h] = TRUE]
    /\ UNCHANGED <<row, timers, configured, exec, queue, tries, received, mishaps>>

DueFailed == {h \in Hooks : row[h].status = "failed" /\ due[h]}
Due == {h \in Hooks : row[h].status = "pending" /\ due[h]}

\* retryFailedWebhooks; the interval does not wait for the previous sweep.
Sweep(s) ==
    /\ ExecAt(s, "idle")
    /\ queue[s] = {}
    /\ Due # {}
    /\ queue' = [queue EXCEPT ![s] = Due]
    /\ UNCHANGED <<row, due, timers, configured, exec, tries, received, mishaps>>

SweepNext(s, h) ==
    /\ ExecAt(s, "idle")
    /\ h \in queue[s]
    /\ queue' = [queue EXCEPT ![s] = @ \ {h}]
    /\ Deliver(s, h)
    /\ UNCHANGED <<row, due, timers, configured, tries, received, mishaps>>

-----------------------------------------------------------------------------
\* deliverWebhook

LoadCounting(e) ==
    /\ ExecAt(e, "begin")
    /\ IF row[Hook(e)].status = "pending"
       THEN exec' = [exec EXCEPT ![e].pc = "loaded", ![e].seen = row[Hook(e)].attempts + 1]
       ELSE Return(e)
    /\ UNCHANGED <<row, due, timers, configured, queue, tries, received, mishaps>>

\* findUnique
Load(e) ==
    /\ ExecAt(e, "begin")
    /\ IF row[Hook(e)].status = "pending"
       THEN exec' = [exec EXCEPT ![e].pc = "loaded", ![e].seen = row[Hook(e)].attempts]
       ELSE Return(e)
    /\ UNCHANGED <<row, due, timers, configured, queue, tries, received, mishaps>>

\* webhookConfig.findFirst
LookUp(e) ==
    /\ ExecAt(e, "loaded")
    /\ ExecGoto(e, IF configured THEN "posting" ELSE "unconfigured")
    /\ UNCHANGED <<row, due, timers, configured, queue, tries, received, mishaps>>

PostUnchecked(e) ==
    /\ ExecAt(e, "posting")
    /\ \E answered \in BOOLEAN :
          received' = IF answered THEN received \cup {Hook(e)} ELSE received
    /\ ExecGoto(e, "ok")
    /\ UNCHANGED <<row, due, timers, configured, queue, tries, mishaps>>

\* Something between the lookup and the update of the row has thrown.
Failed(e) ==
    /\ ExecGoto(e, "error")
    /\ tries' = [tries EXCEPT ![Hook(e)] = IF @ < MaxAttempts THEN @ + 1 ELSE @]

\* fetch: a 2xx answer, or another one, or none within ten seconds
Post(e) ==
    /\ ExecAt(e, "posting")
    /\ \/ /\ received' = received \cup {Hook(e)}
          /\ ExecGoto(e, "ok")
          /\ UNCHANGED tries
       \/ /\ Failed(e)
          /\ UNCHANGED received
    /\ UNCHANGED <<row, due, timers, configured, queue, mishaps>>

\* Each of the updates is by id, whatever the row has become since.
Finish(e, status) ==
    /\ row' = [row EXCEPT ![Hook(e)].status = status]
    /\ Return(e)
    /\ UNCHANGED <<due, timers, configured, queue, tries, received, mishaps>>

Unconfigured(e) == ExecAt(e, "unconfigured") /\ Finish(e, "failed")
Succeed(e) == ExecAt(e, "ok") /\ Finish(e, "completed")

RetryForEver(e) ==
    /\ ExecAt(e, "error")
    /\ row' = [row EXCEPT ![Hook(e)].attempts = exec[e].seen + 1]
    /\ due' = [due EXCEPT ![Hook(e)] = FALSE]
    /\ timers' = [timers EXCEPT ![Hook(e)] = @ + 1]
    /\ Return(e)
    /\ UNCHANGED <<configured, queue, tries, received, mishaps>>

\* The catch block with attempts left: nextRetryAt, then a setTimeout
Retry(e) ==
    /\ ExecAt(e, "error")
    /\ exec[e].seen + 1 < MaxAttempts
    /\ row' = [row EXCEPT ![Hook(e)].attempts = exec[e].seen + 1]
    /\ due' = [due EXCEPT ![Hook(e)] = FALSE]
    /\ timers' = [timers EXCEPT ![Hook(e)] = @ + 1]
    /\ Return(e)
    /\ UNCHANGED <<configured, queue, tries, received, mishaps>>

\* ... and without
GiveUp(e) ==
    /\ ExecAt(e, "error")
    /\ exec[e].seen + 1 >= MaxAttempts
    /\ row' = [row EXCEPT ![Hook(e)] = [status |-> "failed", attempts |-> exec[e].seen + 1]]
    /\ Return(e)
    /\ UNCHANGED <<due, timers, configured, queue, tries, received, mishaps>>

-----------------------------------------------------------------------------
\* What goes wrong

DeliveryFault == mishaps < MaxMishaps /\ mishaps' = mishaps + 1

\* A database error inside the try block is handled as a failed attempt, even
\* when the POST has been answered.
DatabaseError(e) ==
    /\ exec[e].pc \in {"loaded", "unconfigured", "ok"}
    /\ Failed(e)
    /\ DeliveryFault
    /\ UNCHANGED <<row, due, timers, configured, queue, received>>

\* An error outside the try block ends the sweep that awaits the delivery.
SweepAborts(s) ==
    /\ exec[s].pc \in {"begin", "error"}
    /\ queue' = [queue EXCEPT ![s] = {}]
    /\ Return(s)
    /\ DeliveryFault
    /\ UNCHANGED <<row, due, timers, configured, tries, received>>

\* The process dies, of itself or of such an error in a delivery that nothing
\* awaits: executions, timers and sweeps are gone, the rows remain.
DeliveryCrash ==
    /\ exec' = [e \in Executions |-> IdleExec]
    /\ timers' = [h \in Hooks |-> 0]
    /\ queue' = [s \in Sweeps |-> {}]
    /\ DeliveryFault
    /\ UNCHANGED <<row, due, configured, tries, received>>

\* The merchant switches its webhooks off or on, or deletes the configuration.
Configure ==
    /\ configured' = ~configured
    /\ DeliveryFault
    /\ UNCHANGED <<row, due, timers, exec, queue, tries, received>>

DeliverStep(e) ==
    \/ Load(e) \/ LookUp(e) \/ Post(e) \/ Unconfigured(e) \/ Succeed(e)
    \/ Retry(e) \/ GiveUp(e)

SweepStep(s) == Sweep(s) \/ \E h \in Hooks : SweepNext(s, h)

DeliveryNext ==
    \/ \E e \in Callers, h \in Hooks : Enqueue(e, h) \/ TimerFires(e, h)
    \/ \E h \in Hooks : Time(h)
    \/ \E s \in Sweeps : SweepStep(s) \/ SweepAborts(s)
    \/ \E e \in Executions : DeliverStep(e) \/ DatabaseError(e)
    \/ DeliveryCrash
    \/ Configure

DeliverySpec == DeliveryInit /\ [][DeliveryNext]_deliveryVars

\* Executions go on, time passes and the interval fires; timers are not needed.
DeliveryFairness ==
    /\ \A e \in Executions : WF_deliveryVars(DeliverStep(e))
    /\ \A h \in Hooks : WF_deliveryVars(Time(h))
    /\ \A s \in Sweeps : WF_deliveryVars(SweepStep(s))

FairDeliverySpec == DeliverySpec /\ DeliveryFairness

-----------------------------------------------------------------------------
\* Properties

\* A row never claims more attempts than deliveries have gone wrong, although
\* executions count from rows that others have changed since; so a webhook is
\* given up only after MaxAttempts deliveries of it went wrong.
AttemptsWereMade == \A h \in Hooks : row[h].attempts <= tries[h]

\* A webhook is marked completed only when its receiver has answered with 2xx.
CompletedWasReceived ==
    \A h \in Hooks : row[h].status = "completed" => h \in received

\* Every webhook is completed or given up in the end: what a crash interrupts,
\* or a lost timer, the sweep takes up again, and attempts that overlap and count
\* twice cannot keep a webhook pending for ever.
EveryWebhookEnds ==
    \A h \in Hooks : row[h].status = "pending" ~> row[h].status \in {"completed", "failed"}
=============================================================================
