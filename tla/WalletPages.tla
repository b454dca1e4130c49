----------------------------- MODULE WalletPages -----------------------------
(***************************************************************************)
(* The pages of the dashboard and of the consumer app that show what the   *)
(* reasoning engine has of the wallet that is connected: its workflows and *)
(* their totals, its escrow balance, the form for a new workflow.  Each    *)
(* asks when it is opened, and most of them again and again; an older      *)
(* request is never called off, an answer is shown whenever it comes, and  *)
(* an error leaves what is there.                                          *)
(*                                                                         *)
(* The engine lists a workflow once for each time that it has been saved,  *)
(* and answers a number for a balance where the pages read a record of it; *)
(* the consumer's list reads a field that the engine's workflows lack.     *)
(* React takes a page down whose rendering throws, until it is reloaded.   *)
(* A balance is 0 or more units of the least budget; a workflow costs one. *)
(* The consumer's deposits name a transaction that does not exist, and the *)
(* dashboard's are not sent: neither changes anything.                     *)
(***************************************************************************)
EXTENDS Integers, Sequences, FiniteSets, SequencesExt

CONSTANTS
    PageLimit,      \* of the dashboard's list, 50
    Kept,           \* 100, by the engine; the other pages' limit
    FirstFunds,     \* what may be in the escrow
    MaxFetches,     \* bounds: requests of the page at a time; times a workflow is saved;
    MaxSaves,       \* requests that fail and changes of the wallet
    MaxIncidents

WalletPagesAssumption ==
    /\ PageLimit \in Nat \ {0} /\ Kept \in Nat \ {0} /\ PageLimit <= Kept
    /\ FirstFunds \subseteq Nat
    /\ MaxFetches \in Nat \ {0} /\ MaxSaves \in Nat \ {0} /\ MaxIncidents \in Nat

VARIABLES
    app, page,
    connected,  \* is there a wallet?
    funds,      \* getBalance
    flow,       \* the workflows, by their number
    saving,     \* the workflows whose lpush Redis has not done, in order
    listed,     \* user:<wallet>:workflows, the newest first
    saved,      \* how many saves there have been
    fetches,    \* the page's requests, in order, with their answers
    balance,    \* of the page, or of the consumer app's store
    shown,      \* the workflows that the page has, and the version of them
    loading, filter, broken,
    submit,     \* the form's request
    seen,       \* history: the latest version that the page has had,
    overlapped, \* and whether it had two requests for it at a time
    incidents

engineVars == <<funds, flow, saving, listed, saved>>
viewVars == <<balance, shown, loading, filter, broken, seen, overlapped>>
walletPageVars == <<app, page, connected, engineVars, fetches, viewVars, submit, incidents>>

Status == {"planning", "awaiting_approval", "approved", "completed", "failed", "cancelled"}
Nothing == [list |-> <<>>, version |-> 0, whole |-> FALSE]
NoBalance == [kind |-> "null", amount |-> 0]
ZeroBalance == [kind |-> "record", amount |-> 0]

TypeOK ==
    /\ app \in {"dashboard", "consumer"}
    /\ page \in {"home", "new", "list", "analytics", "escrow", "settings", "workflow"}
    /\ connected \in BOOLEAN /\ funds \in Nat
    /\ flow \in Seq([status : Status, task : {"plan", "execute", "none"}])
    /\ saving \in Seq(DOMAIN flow) /\ saved \in 0..MaxSaves
    /\ listed \in Seq(DOMAIN flow) /\ Len(listed) <= Kept
    /\ Len(fetches) <= MaxFetches
    /\ \A i \in DOMAIN fetches :
          /\ fetches[i].what \in {"info", "balance", "history", "list"}
          /\ fetches[i].pc \in {"sent", "ok"}
    /\ balance.kind \in {"null", "record", "number"} /\ balance.amount \in Nat
    /\ shown.list \in Seq([id : DOMAIN flow, status : Status]) /\ shown.version \in Nat
    /\ loading \in BOOLEAN /\ filter \in {"all", "completed"} /\ broken \in BOOLEAN
    /\ submit \in {"idle", "sent", "saving", "answered"}
    /\ seen \in Nat /\ overlapped \in BOOLEAN
    /\ incidents \in 0..MaxIncidents

-----------------------------------------------------------------------------
\* The engine

Save(id) == saved < MaxSaves /\ saved' = saved + 1 /\ saving' = Append(saving, id)
Set(id, status, task) ==
    flow' = [flow EXCEPT ![id].status = status, ![id].task = task] /\ Save(id) /\ UNCHANGED listed
UnchangedPage == UNCHANGED <<app, page, connected, fetches, viewVars, incidents>>

Plan(id) ==
    /\ flow[id].task = "plan"
    /\ \E outcome \in {"awaiting_approval", "failed"} : Set(id, outcome, "none")
    /\ UNCHANGED <<funds, submit>> /\ UnchangedPage

Approve(id) ==
    /\ flow[id].status = "awaiting_approval" /\ funds >= 1
    /\ Set(id, "approved", "execute")
    /\ UNCHANGED <<funds, submit>> /\ UnchangedPage

Execute(id) ==
    /\ flow[id].task = "execute"
    /\ \/ Set(id, "failed", "none") /\ UNCHANGED funds
       \/ funds >= 1 /\ Set(id, "completed", "none") /\ funds' = funds - 1
    /\ UNCHANGED submit /\ UnchangedPage

\* What is under way goes on; nobody knows of a workflow that is being created.
Cancel(id) ==
    /\ flow[id].status \notin {"completed", "failed"} /\ ~(submit = "saving" /\ id = Len(flow))
    /\ Set(id, "cancelled", flow[id].task)
    /\ UNCHANGED <<funds, submit>> /\ UnchangedPage

\* POST /workflows/create
CreateWorkflow ==
    /\ submit = "sent" /\ submit' = "saving"
    /\ flow' = Append(flow, [status |-> "planning", task |-> "none"])
    /\ Save(Len(flow) + 1)
    /\ UNCHANGED <<funds, listed>> /\ UnchangedPage

\* lpush and ltrim of saveWorkflow, at each save, whatever the list holds; a workflow that
\* has been created is then planned, and answered.
SaveWorkflow ==
    /\ saving # <<>>
    /\ LET id == Head(saving) IN
       /\ listed' = SubSeq(<<id>> \o listed, 1, IF Len(listed) < Kept THEN Len(listed) + 1 ELSE Kept)
       /\ IF submit = "saving" /\ id = Len(flow)
          THEN submit' = "answered" /\ flow' = [flow EXCEPT ![id].task = "plan"]
          ELSE UNCHANGED <<submit, flow>>
    /\ saving' = Tail(saving)
    /\ UNCHANGED <<funds, saved>> /\ UnchangedPage

\* GET /users/:userId/workflows
UserWorkflows(limit) ==
    LET ids == SubSeq(listed, 1, IF Len(listed) < limit THEN Len(listed) ELSE limit) IN
    [list |-> [i \in DOMAIN ids |-> [id |-> ids[i], status |-> flow[ids[i]].status]],
     version |-> saved, whole |-> saving = <<>> /\ saved <= limit]

\* GET /escrow/:userId/balance
EscrowBalance == [kind |-> "number", amount |-> funds]

-----------------------------------------------------------------------------
\* What a page asks first, whether it asks again, what it shows: whether that throws, the
\* amount on it, and what its buttons may ask of the engine

Available == IF balance.kind = "record" THEN balance.amount ELSE 0
\* What is not there is not less than an amount; a balance of 0 is taken for none.
Affordable == balance.kind = "record" => balance.amount >= 1
NoneLoaded == balance.kind = "null" \/ (balance.kind = "number" /\ balance.amount = 0)
Filtered == {i \in DOMAIN shown.list : filter = "all" \/ shown.list[i].status = filter}
Count(list, s) == Cardinality({i \in DOMAIN list : list[i].status = s})

\* handleSubmit, handleWithdraw
DashboardMaySubmit == connected /\ (NoneLoaded \/ Affordable)
DashboardMayWithdraw == connected /\ ~NoneLoaded /\ Affordable
ConsumerMaySubmit == connected /\ Affordable
ConsumerMayWithdraw == connected /\ Affordable

Quiet == [asks |-> "nothing", again |-> FALSE, starts |-> NoBalance, throws |-> FALSE, amount |-> 0,
          may |-> {}]

DashboardHome ==
    [Quiet EXCEPT !.asks = "balance", !.starts = ZeroBalance, !.throws = balance.kind = "number",
                  !.amount = Available]

DashboardNew ==
    [Quiet EXCEPT !.asks = "balance", !.again = TRUE, !.amount = Available,
                  !.throws = ~loading /\ ~NoneLoaded,
                  !.may = IF DashboardMaySubmit THEN {"create"} ELSE {}]

DashboardList == [Quiet EXCEPT !.asks = "list", !.again = TRUE]

\* From addresses to the balance to the history; the cards are not there while it is loading.
DashboardEscrow ==
    [Quiet EXCEPT !.asks = "info", !.again = TRUE, !.amount = Available,
                  !.throws = ~loading /\ balance.kind = "number",
                  !.may = IF ~loading /\ DashboardMayWithdraw THEN {"withdraw"} ELSE {}]

DashboardAnalytics == [Quiet EXCEPT !.asks = "list", !.again = TRUE]

ConsumerHome ==
    [Quiet EXCEPT !.asks = "balance", !.again = TRUE, !.throws = balance.kind = "number",
                  !.amount = Available]

\* The page asks nothing: it reads the store.
ConsumerNew ==
    [Quiet EXCEPT !.throws = balance.kind = "number", !.amount = Available,
                  !.may = IF ConsumerMaySubmit THEN {"create"} ELSE {}]

ConsumerList ==
    [Quiet EXCEPT !.asks = "list", !.again = TRUE, !.throws = ~loading /\ Filtered # {}]

ConsumerAnalytics == [Quiet EXCEPT !.asks = "list", !.again = TRUE]

ConsumerEscrow ==
    [Quiet EXCEPT !.asks = "balance", !.again = TRUE, !.throws = balance.kind = "number",
                  !.amount = Available,
                  !.may = IF ConsumerMayWithdraw THEN {"withdraw"} ELSE {}]

ViewOf(p) ==
    CASE p = "home" -> IF app = "dashboard" THEN DashboardHome ELSE ConsumerHome
      [] p = "new" -> IF app = "dashboard" THEN DashboardNew ELSE ConsumerNew
      [] p = "list" -> IF app = "dashboard" THEN DashboardList ELSE ConsumerList
      [] p = "analytics" -> IF app = "dashboard" THEN DashboardAnalytics ELSE ConsumerAnalytics
      [] p = "escrow" -> IF app = "dashboard" THEN DashboardEscrow ELSE ConsumerEscrow
      [] OTHER -> Quiet
View == ViewOf(page)
Limit == IF app = "dashboard" /\ page = "list" THEN PageLimit ELSE Kept

\* The totals of the analytics pages, over the entries of the list
Stats(list) == [total |-> Len(list), completed |-> Count(list, "completed"),
                failed |-> Count(list, "failed"), spent |-> Count(list, "completed")]

Rendered == broken' = View'.throws

-----------------------------------------------------------------------------
\* The pages

\* A workflow has been created and planned.
Init ==
    /\ app \in {"dashboard", "consumer"} /\ page = "settings" /\ connected \in BOOLEAN
    /\ funds \in FirstFunds
    /\ flow = <<[status |-> "awaiting_approval", task |-> "none"]>> /\ listed = <<1, 1>>
    /\ saving = <<>> /\ saved = 2
    /\ fetches = <<>> /\ balance = ZeroBalance /\ shown = Nothing
    /\ loading = FALSE /\ filter = "all" /\ broken = FALSE /\ submit = "idle"
    /\ seen = 0 /\ overlapped = FALSE /\ incidents = 0

Request(what) == [what |-> what, pc |-> "sent", value |-> Nothing, balance |-> NoBalance]
Incident == incidents < MaxIncidents /\ incidents' = incidents + 1

\* Balances that are still asked for, in whatever order
Waiting ==
    LET ids == SetToSeq({i \in DOMAIN fetches : fetches[i].what = "balance"}) IN
    [n \in DOMAIN ids |-> fetches[ids[n]]]

\* A page begins anew; only a balance that the consumer app still waits for reaches its store.
Show(p, waiting) ==
    LET asks == ViewOf(p).asks IN
    /\ page' = p
    /\ fetches' = waiting \o IF connected /\ asks # "nothing" THEN <<Request(asks)>> ELSE <<>>
    /\ Len(fetches') <= MaxFetches
    /\ loading' = (connected /\ asks # "nothing")
    /\ shown' = Nothing /\ filter' = "all" /\ seen' = 0 /\ overlapped' = FALSE

Open(p) ==
    /\ ~broken /\ p # page
    /\ Show(p, IF app = "dashboard" THEN <<>> ELSE Waiting)
    /\ balance' = IF app = "dashboard" THEN ViewOf(p).starts ELSE balance
    /\ UNCHANGED <<app, connected, engineVars, submit, incidents>>
    /\ Rendered

Reload ==
    /\ broken /\ submit = "idle"
    /\ Show(page, <<>>)
    /\ balance' = IF app = "dashboard" THEN View.starts ELSE ZeroBalance
    /\ broken' = FALSE
    /\ Incident
    /\ UNCHANGED <<app, connected, engineVars, submit>>

\* setWallet and clearWallet, on the dashboard's settings page
ChangeWallet ==
    /\ app = "dashboard" /\ page = "settings" /\ Incident
    /\ connected' = ~connected
    /\ UNCHANGED <<app, page, engineVars, fetches, viewVars, submit>>

Interval ==
    /\ ~broken /\ connected /\ View.again /\ Len(fetches) < MaxFetches
    /\ fetches' = Append(fetches, Request(View.asks))
    /\ overlapped' = (overlapped \/ fetches # <<>>)
    /\ seen' = IF overlapped' THEN 0 ELSE seen
    /\ UNCHANGED <<app, page, connected, engineVars, balance, shown, loading, filter, broken, submit,
                   incidents>>

Answer(i) ==
    /\ ~broken /\ fetches[i].pc = "sent"
    /\ LET f == [fetches[i] EXCEPT !.pc = "ok"] IN
       fetches' = [fetches EXCEPT ![i] =
                      CASE f.what = "list" -> [f EXCEPT !.value = UserWorkflows(Limit)]
                        [] f.what = "balance" -> [f EXCEPT !.balance = EscrowBalance]
                        [] OTHER -> f]
    /\ UNCHANGED <<app, page, connected, engineVars, viewVars, submit, incidents>>

Without(i) == SubSeq(fetches, 1, i - 1) \o SubSeq(fetches, i + 1, Len(fetches))

\* The dashboard's escrow page asks three times in turn.
Receive(i) ==
    LET f == fetches[i]
        inTurn == app = "dashboard" /\ page = "escrow" IN
    /\ ~broken /\ f.pc = "ok"
    /\ fetches' = IF inTurn /\ f.what = "info" THEN [fetches EXCEPT ![i] = Request("balance")]
                  ELSE IF inTurn /\ f.what = "balance"
                       THEN [fetches EXCEPT ![i] = Request("history")]
                       ELSE Without(i)
    /\ balance' = IF f.what = "balance" THEN f.balance ELSE balance
    /\ IF f.what = "list"
       THEN /\ shown' = f.value
            /\ seen' = IF overlapped \/ f.value.version < seen THEN seen ELSE f.value.version
       ELSE UNCHANGED <<shown, seen>>
    /\ loading' = (loading /\ \/ inTurn /\ f.what # "history"
                              \/ app = "consumer" /\ f.what = "balance")
    /\ UNCHANGED <<app, page, connected, engineVars, filter, submit, overlapped, incidents>>
    /\ Rendered

\* A request that fails, or that the engine refuses, ends its turn.
Fail(i) ==
    /\ ~broken /\ Incident
    /\ fetches' = Without(i)
    /\ loading' = (loading /\ app = "consumer" /\ fetches[i].what = "balance")
    /\ UNCHANGED <<app, page, connected, engineVars, balance, shown, filter, submit, seen, overlapped>>
    /\ Rendered

ChangeFilter ==
    /\ ~broken /\ page = "list" /\ ~loading
    /\ filter' = (IF filter = "all" THEN "completed" ELSE "all")
    /\ UNCHANGED <<app, page, connected, engineVars, fetches, balance, shown, loading, submit, seen,
                   overlapped, incidents>>
    /\ Rendered

\* handleSubmit; whoever has asked on the dashboard is taken to the workflow's page, wherever
\* he is. The consumer's form reads an id that is not in the answer.
Submit ==
    /\ ~broken /\ submit = "idle" /\ "create" \in View.may
    /\ submit' = "sent"
    /\ UNCHANGED <<app, page, connected, engineVars, fetches, viewVars, incidents>>

Submitted ==
    /\ submit = "answered" /\ submit' = "idle"
    /\ \/ app = "dashboard" /\ ~broken
          /\ Show("workflow", <<>>) /\ balance' = NoBalance /\ UNCHANGED broken
       \/ UNCHANGED <<page, fetches, viewVars>>
    /\ UNCHANGED <<app, connected, engineVars, incidents>>

WalletPagesNext ==
    \/ \E id \in DOMAIN flow : Plan(id) \/ Approve(id) \/ Execute(id) \/ Cancel(id)
    \/ CreateWorkflow \/ SaveWorkflow
    \/ \E p \in {"home", "new", "list", "analytics", "escrow", "settings"} : Open(p)
    \/ Reload \/ ChangeWallet \/ Interval \/ ChangeFilter \/ Submit \/ Submitted
    \/ \E i \in DOMAIN fetches : Answer(i) \/ Receive(i) \/ Fail(i)
-----------------------------------------------------------------------------
\* The pages read the balance of a record that the engine never answers: none that can be
\* seen shows that anything is in the escrow, nor lets it be withdrawn, and the consumer
\* app never has a workflow to create.
BalanceUnseen ==
    /\ ~broken => View.amount = 0 /\ "withdraw" \notin View.may
    /\ app = "consumer" => submit = "idle"

\* A page whose requests do not overlap shows the latest list that it has had, and never that
\* of an earlier request.
ListForward == ~overlapped => shown.version = seen

\* What the totals count: a workflow that has been completed was saved when it was created,
\* planned, approved and executed, and each of them counts.
SavesCounted ==
    shown.whole => LET done == {shown.list[i].id : i \in {j \in DOMAIN shown.list :
                                                            shown.list[j].status = "completed"}} IN
                   Stats(shown.list).completed >= 4 * Cardinality(done)

WalletPagesSound == BalanceUnseen /\ ListForward /\ SavesCounted
=============================================================================
