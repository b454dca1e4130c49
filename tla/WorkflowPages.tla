---------------------------- MODULE WorkflowPages ----------------------------
(***************************************************************************)
(* A page that shows one workflow of the reasoning engine, of the dashboard*)
(* or of the consumer app, and the engine's server as far as the page can  *)
(* tell: the status that it answers, the events that it publishes and the  *)
(* requests that it takes, from the page's buttons and from others.        *)
(*                                                                         *)
(* The dashboard's page fetches the workflow whenever it is told of an     *)
(* event, and each answer closes its socket and opens another.  The        *)
(* consumer's page fetches once, keeps one socket, and takes the event's   *)
(* name for the status.  Nobody asks again for what a page has not been    *)
(* told.  Events of steps are not shown as a status and are left out, as is*)
(* the manager's restart, which is WorkflowManager's.                      *)
(***************************************************************************)
EXTENDS Integers, Sequences, FiniteSets

CONSTANTS MaxFetches, MaxIncidents
    \* bounds: fetches at a time; requests, and calls and sockets that fail, together

PagesAssumption == MaxFetches \in Nat \ {0} /\ MaxIncidents \in Nat

VARIABLES
    page,
    status, version,    \* of the manager's object; how often it has been set
    planning,           \* is planWorkflowAsync under way?
    command,            \* requests: the page's two buttons, and another's
    saving,             \* saveWorkflow: what is published when it has returned
    shown,              \* what the page shows, and the version that is from
    seen,               \* history: the latest version that the page has had
    asked, answers,     \* fetches that the server has to answer, and the page to read
    socket, inbox,
    broken,             \* has the page ended in an error?
    missed,             \* history: was something not told since the last fetch or event?
    faults

pageVars == <<page, status, version, planning, command, saving, shown, seen, asked, answers, socket,
              inbox, broken, missed, faults>>
serverVars == <<status, version, planning, command, saving>>
viewVars == <<shown, seen, asked, answers, socket, inbox, broken>>

Stored == {"planning", "awaiting_approval", "approved", "completed", "failed", "cancelled"}
Events == Stored \cup {"plan_ready", "executing", "rolling_back", "rolled_back"}
Buttons == {"approve", "cancel"}
Askers == Buttons \cup {"other"}
NothingShown == [status |-> "none", version |-> 0]

TypeOK ==
    /\ page \in {"dashboard", "consumer"}
    /\ status \in Stored /\ version \in Nat /\ planning \in BOOLEAN
    /\ command \in [Askers -> [op : Buttons, version : Nat,
                                 pc : {"idle", "sent", "funds", "saving", "begin", "run", "rollback",
                                       "done"},
                                 reply : {"none", "ok", "refused", "read"}]]
    /\ saving \in Seq([events : Seq(Events), version : Nat, by : Askers \cup {"plan"}])
    /\ shown \in [status : Events \cup {"none"}, version : Nat] /\ seen \in Nat
    /\ asked \in 0..MaxFetches
    /\ answers \in Seq([status : Stored, version : Nat])
    /\ socket \in {"none", "opening", "live", "lost"}
    /\ inbox \in Seq([status : Events, version : Nat])
    /\ broken \in BOOLEAN /\ missed \in BOOLEAN
    /\ faults \in 0..MaxIncidents

\* The workflow has been created, and the page of its id is opened.
Init ==
    /\ page \in {"dashboard", "consumer"}
    /\ status = "planning" /\ version = 0 /\ planning = TRUE
    /\ command \in [Askers -> {[op |-> o, version |-> 0, pc |-> "idle", reply |-> "none"] : o \in Buttons}]
    /\ \A b \in Buttons : command[b].op = b
    /\ saving = <<>>
    /\ shown = NothingShown /\ seen = 0
    /\ asked = 1 /\ answers = <<>>
    /\ socket = (IF page = "consumer" THEN "opening" ELSE "none") /\ inbox = <<>>
    /\ broken = FALSE /\ missed = FALSE
    /\ faults = 0

At(r, pc) == command[r].pc = pc
Goto(r, pc) == command' = [command EXCEPT ![r].pc = pc]
MayAsk == faults + Cardinality({r \in Askers : ~At(r, "idle")}) < MaxIncidents
Fault == MayAsk /\ faults' = faults + 1

-----------------------------------------------------------------------------
\* The server

Set(s) == status' = s /\ version' = version + 1

\* redis.publish: whoever has subscribed by now is told.
Publish(events, v) ==
    IF socket = "live"
    THEN /\ inbox' = inbox \o [i \in DOMAIN events |-> [status |-> events[i], version |-> v]]
         /\ missed' = (missed /\ (page = "dashboard" \/ v < version))
    ELSE missed' = TRUE /\ UNCHANGED inbox
UnchangedView == UNCHANGED <<page, shown, seen, asked, answers, socket, broken, faults>>
Untold == UNCHANGED <<inbox, missed>>

Plan ==
    /\ planning
    /\ planning' = FALSE
    /\ \/ /\ Set("awaiting_approval")
          /\ saving' = Append(saving, [events |-> <<"plan_ready", "awaiting_approval">>,
                                       version |-> version', by |-> "plan"])
       \/ /\ Set("failed")
          /\ saving' = Append(saving, [events |-> <<"failed">>, version |-> version', by |-> "plan"])
    /\ UNCHANGED command /\ UnchangedView /\ Untold

\* approveWorkflow, up to the balance, and cancelWorkflow, up to the save
Take(r) ==
    /\ At(r, "sent")
    /\ CASE command[r].op = "approve" /\ status = "awaiting_approval" ->
              Goto(r, "funds") /\ UNCHANGED <<status, version, saving>>
         [] command[r].op = "cancel" /\ status \notin {"completed", "failed"} ->
              /\ Set("cancelled")
              /\ Goto(r, "saving")
              /\ saving' = Append(saving, [events |-> <<"cancelled">>, version |-> version', by |-> r])
         [] OTHER ->
              /\ command' = [command EXCEPT ![r].pc = "done", ![r].reply = "refused"]
              /\ UNCHANGED <<status, version, saving>>
    /\ UNCHANGED planning /\ UnchangedView /\ Untold

Funds(r) ==
    /\ At(r, "funds")
    /\ \/ /\ Set("approved")
          /\ command' = [command EXCEPT ![r].pc = "saving", ![r].version = version']
          /\ saving' = Append(saving, [events |-> <<"approved">>, version |-> version', by |-> r])
       \/ /\ command' = [command EXCEPT ![r].pc = "done", ![r].reply = "refused"]
          /\ UNCHANGED <<status, version, saving>>
    /\ UNCHANGED planning /\ UnchangedView /\ Untold

\* saveWorkflow has returned: the event, the answer, and the execution.
Saved ==
    /\ saving # <<>>
    /\ saving' = Tail(saving)
    /\ Publish(Head(saving).events, Head(saving).version)
    /\ LET r == Head(saving).by IN
       command' = IF r = "plan" THEN command
                  ELSE [command EXCEPT ![r].reply = "ok",
                                       ![r].pc = IF @ = "saving" /\ command[r].op = "approve"
                                                 THEN "begin" ELSE "done"]
    /\ UNCHANGED <<status, version, planning>> /\ UnchangedView

\* The engine has its own connection to Redis.
BeginRun(r) ==
    /\ At(r, "begin")
    /\ Goto(r, "run")
    /\ Publish(<<"executing">>, command[r].version)
    /\ UNCHANGED <<status, version, planning, saving>> /\ UnchangedView

\* execute returns at once when it has published that it is completed; when it fails it
\* publishes that, and rolls back, before the manager sets the status.
EndRun(r) ==
    /\ At(r, "run")
    /\ \/ Goto(r, "done") /\ Set("completed") /\ Publish(<<"completed">>, version')
       \/ /\ Goto(r, "rollback") /\ Publish(<<"failed", "rolling_back">>, version)
          /\ UNCHANGED <<status, version>>
    /\ UNCHANGED <<planning, saving>> /\ UnchangedView

EndRollback(r) ==
    /\ At(r, "rollback")
    /\ Goto(r, "done")
    /\ Set("failed") /\ Publish(<<"rolled_back">>, version')
    /\ UNCHANGED <<planning, saving>> /\ UnchangedView

\* EXECUTION_ERROR: the engine's Redis throws, and nobody is told.
RunThrows(r) ==
    /\ At(r, "run") \/ At(r, "rollback")
    /\ Fault
    /\ Goto(r, "done") /\ Set("failed")
    /\ missed' = TRUE
    /\ UNCHANGED <<page, planning, saving, viewVars>>

\* The page is not the only one that approves and cancels.
Other ==
    /\ At("other", "idle") /\ MayAsk
    /\ Goto("other", "sent")
    /\ UNCHANGED <<status, version, planning, saving>> /\ UnchangedView /\ Untold

-----------------------------------------------------------------------------
\* The page

\* GET /workflows/:id
AnswerFetch ==
    /\ asked > 0
    /\ asked' = asked - 1
    /\ answers' = Append(answers, [status |-> status, version |-> version])
    /\ missed' = FALSE
    /\ UNCHANGED <<page, serverVars, shown, seen, socket, inbox, broken, faults>>

\* A fetch fails: the first for good, another is logged.
FetchFails ==
    /\ asked > 0
    /\ Fault
    /\ asked' = asked - 1
    /\ broken' = (broken \/ shown = NothingShown)
    /\ missed' = TRUE
    /\ UNCHANGED <<page, serverVars, shown, seen, answers, socket, inbox>>

Latest(a, b) == IF a > b THEN a ELSE b
Show(s) == shown' = s /\ seen' = Latest(seen, s.version)

\* setWorkflow, in whatever order the answers come; the dashboard's effect depends on it,
\* and what the socket that it closes has not delivered is lost.
Read(i) ==
    /\ Show(answers[i])
    /\ answers' = SubSeq(answers, 1, i - 1) \o SubSeq(answers, i + 1, Len(answers))
    /\ IF page = "dashboard"
       THEN socket' = "opening" /\ inbox' = <<>> /\ missed' = (missed \/ inbox # <<>>)
       ELSE UNCHANGED <<socket, inbox, missed>>
    /\ UNCHANGED <<page, serverVars, asked, broken, faults>>

\* The route of the stream has looked the workflow up, and has subscribed.
Subscribe ==
    /\ socket = "opening"
    /\ socket' = "live"
    /\ UNCHANGED <<page, serverVars, shown, seen, asked, answers, inbox, broken, missed, faults>>

\* onclose is logged.
Disconnect ==
    /\ socket \in {"opening", "live"}
    /\ Fault
    /\ socket' = "lost" /\ inbox' = <<>>
    /\ missed' = (missed \/ inbox # <<>>)
    /\ UNCHANGED <<page, serverVars, shown, seen, asked, answers, broken>>

OnMessageDashboard ==
    /\ page = "dashboard" /\ inbox # <<>> /\ asked + Len(answers) < MaxFetches
    /\ inbox' = Tail(inbox) /\ asked' = asked + 1
    /\ UNCHANGED <<page, serverVars, shown, seen, answers, socket, broken, missed, faults>>

\* prev is null until the workflow is there.
OnMessageConsumer ==
    /\ page = "consumer" /\ inbox # <<>>
    /\ inbox' = Tail(inbox)
    /\ seen' = Latest(seen, Head(inbox).version)
    /\ shown' = IF shown = NothingShown THEN shown ELSE Head(inbox)
    /\ UNCHANGED <<page, serverVars, asked, answers, socket, broken, missed, faults>>

Click(b) ==
    /\ At(b, "idle") /\ MayAsk /\ ~broken
    /\ Goto(b, "sent")
    /\ UNCHANGED <<status, version, planning, saving>> /\ UnchangedView /\ Untold
\* The consumer's page cancels nothing; the dashboard's has no button for "approved".
ClickApprove == shown.status = "awaiting_approval" /\ Click("approve")
ClickCancel ==
    page = "dashboard" /\ shown.status \in {"executing", "awaiting_approval"} /\ Click("cancel")

\* handleApprove and handleCancel: the page fetches, or shows the error from then on.
RepliedDashboard(b) ==
    /\ page = "dashboard" /\ asked + Len(answers) < MaxFetches
    /\ IF command[b].reply = "ok" THEN asked' = asked + 1 /\ UNCHANGED broken
       ELSE broken' = TRUE /\ UNCHANGED asked
    /\ UNCHANGED <<shown, seen>>

\* handleApprove of the consumer's page: executing, as of the approval
RepliedConsumer(b) ==
    /\ page = "consumer"
    /\ IF command[b].reply = "ok" THEN Show([status |-> "executing", version |-> command[b].version])
       ELSE UNCHANGED <<shown, seen>>
    /\ UNCHANGED <<asked, broken>>

Replied(b) ==
    /\ command[b].reply \in {"ok", "refused"}
    /\ command' = [command EXCEPT ![b].reply = "read"]
    /\ RepliedDashboard(b) \/ RepliedConsumer(b)
    /\ UNCHANGED <<page, status, version, planning, saving, answers, socket, inbox, missed, faults>>

Next ==
    \/ Plan \/ Saved \/ Other
    \/ \E r \in Askers :
          Take(r) \/ Funds(r) \/ BeginRun(r) \/ EndRun(r) \/ EndRollback(r) \/ RunThrows(r)
    \/ AnswerFetch \/ FetchFails \/ \E i \in DOMAIN answers : Read(i)
    \/ Subscribe \/ Disconnect \/ OnMessageDashboard \/ OnMessageConsumer
    \/ ClickApprove \/ ClickCancel \/ \E b \in Buttons : Replied(b)

Spec == Init /\ [][Next]_pageVars
-----------------------------------------------------------------------------
\* Nothing is under way that would change the status or what the page shows of it.
Settled ==
    /\ ~planning /\ saving = <<>> /\ asked = 0 /\ answers = <<>> /\ socket = "live" /\ inbox = <<>>
    /\ \A r \in Askers : command[r].pc \in {"idle", "done"}
    /\ \A b \in Buttons : command[b].reply \notin {"ok", "refused"}

Means(s) == CASE s = "executing" -> "approved" [] s = "rolled_back" -> "failed" [] OTHER -> s

\* workflows/[id]/page.tsx, both: a page that has settled shows the status, unless something
\* was published while its socket was being opened or fell to a socket that was closed, or
\* what it has shown last was older than what it had seen.
PageCurrent ==
    Settled /\ ~broken =>
        Means(shown.status) = status \/ missed \/ shown.version < seen
=============================================================================
