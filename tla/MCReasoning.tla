----------------------------- MODULE MCReasoning -----------------------------
(***************************************************************************)
(* The reasoning engine and the agents and clients that keep no records of *)
(* their own on a server, for TLC. A behaviour is that of one part, which  *)
(* share nothing: one workflow in the manager, the execution of one plan,  *)
(* one plan that is estimated and given to a chain executor, a cloud or    *)
(* chat agent, a middleware, a browser's wallet, a cache of the registry,  *)
(* a page that shows a workflow, the pages of a wallet and those of the    *)
(* facilitator.                                                            *)
(* The execution's definitions are those of the module that is extended,   *)
(* so that the run checks what its theorems state.                         *)
(***************************************************************************)
EXTENDS ExecutionEngine

CONSTANTS Requests, Creator, NoHandler, MaxFaults,
          AgentTasks, ClusterNodes, Callers, ServiceRoutes, Chatters

VARIABLES
    part,
    status, current, stored, handler, queue, executed, contended, withdrawn, faults,
    task, strategy, chain,
    agent, proposal, wallet, job, overlapped,
    node, attempts, timer, polling, initialized, brain, run, mingled, disturbed, shutdowns,
    framework, redis, remembered, request, bought, simultaneous, restarts,
    offer, contract, autoAccept, deal, transferred, again, met, dealFaults,
    spent, payment, expired, uncounted, parallel,
    user, version, entry, read, dropping, promised, raced,
    page, reported, edition, planning, command, saving, shown, seen, asked, answers, socket, inbox,
    broken, untold, pageFaults,
    app, view, connected, funds, flow, pushing, listed, saved, fetches, balance, list, loading, filter,
    down, submit, latest, twice, incidents,
    service, changes, granted, paired, place, opened, query, form, setbacks

\* Three steps with every set of dependencies on the others, in which all orders,
\* forks, joins and cycles occur
Orders == [1..3 -> {<<>>, <<1>>, <<2>>, <<3>>, <<1, 2>>, <<2, 3>>, <<1, 3>>}]
Dependencies == {f \in Orders : \A s \in 1..3 : s \notin Range(f[s])}
\* A step that depends on itself, or twice on one, and steps that do not exist
Malformed == {<< <<1>>, <<>> >>, << <<>>, <<1, 1>> >>, << <<2>>, <<>>, <<4>> >>,
              << <<4>>, <<4>> >>, << <<3, 2>>, <<1>> >>}

MCPlans == [deps : Dependencies, parallel : SUBSET (1..3)]
              \cup [deps : Malformed, parallel : {{}, {1, 2}}]

MCTasks == [deps : Dependencies, time : [1..3 -> {1, 2}]]
              \cup [deps : Malformed, time : {<<1, 2, 2>>}]

MCProposals == [deps : Dependencies \cup Malformed, price : {<<1, 2, 1>>}]

MCBatches == {<<1>>, <<2>>, <<2, 1>>, <<1, 1>>, <<3>>}

Workflow == INSTANCE WorkflowManager
Planning == INSTANCE ExecutionPlans WITH Tasks <- MCTasks
Agents == INSTANCE AgentChains WITH
    Tasks <- AgentTasks, Plans <- MCProposals, Asked <- {1, 2}, Budget <- 3, Balance <- 5
Cluster == INSTANCE ParallaxAgent WITH
    Tasks <- AgentTasks, Nodes <- ClusterNodes, MaxIterations <- 2, MaxReconnects <- 1, MaxShutdowns <- 1
Middlewares == INSTANCE PaidRoutes WITH
    Calls <- Callers, Routes <- ServiceRoutes, MaxRestarts <- 1, overlapped <- simultaneous
Deals == INSTANCE ServiceDeals WITH
    Handlers <- Chatters, Offers <- {1, 2}, MaxContracts <- 2, MaxFaults <- 1, handler <- deal
Session == INSTANCE SessionWallet WITH
    Calls <- Requests, Batches <- MCBatches, maxTotalAmount <- 3, maxPerTransaction <- 2
Caches == INSTANCE DiscoveryCaches WITH
    Reads <- AgentTasks, Ttl <- 1, Horizon <- 3, MaxVersion <- 1
Pages == INSTANCE WorkflowPages WITH
    MaxFetches <- 2, MaxIncidents <- 2, status <- reported, version <- edition,
    missed <- untold, faults <- pageFaults

WalletView == INSTANCE WalletPages WITH
    PageLimit <- 3, Kept <- 4, FirstFunds <- {1}, MaxFetches <- 2, MaxSaves <- 4, MaxIncidents <- 1,
    page <- view, saving <- pushing, shown <- list, broken <- down, seen <- latest, overlapped <- twice

FacilitatorView == INSTANCE FacilitatorPages WITH
    TopServices <- 1, MaxServices <- 1, MaxChanges <- 2, MaxIncidents <- 1,
    version <- changes, connected <- paired, page <- place, incidents <- setbacks

ASSUME Workflow!WorkflowAssumption
ASSUME PlanAssumption
ASSUME Agents!ChainAssumption /\ Cluster!ParallaxAssumption /\ Middlewares!RoutesAssumption
ASSUME Deals!DealsAssumption /\ Session!SessionAssumption /\ Caches!CachesAssumption
ASSUME Pages!PagesAssumption /\ WalletView!WalletPagesAssumption
ASSUME FacilitatorView!FacilitatorPagesAssumption

workflowVars == <<status, current, stored, handler, queue, executed, contended, withdrawn, faults>>
planVars == <<task, strategy, chain>>
chainVars == <<agent, proposal, wallet, job, overlapped>>
agentVars == <<node, attempts, timer, polling, initialized, brain, run, mingled, disturbed, shutdowns>>
routesVars == <<framework, redis, remembered, request, bought, simultaneous, restarts>>
dealVars == <<offer, contract, autoAccept, deal, transferred, again, met, dealFaults>>
sessionVars == <<spent, payment, expired, uncounted, parallel>>
cacheVars == <<user, version, entry, read, dropping, promised, raced>>
pageVars == <<page, reported, edition, planning, command, saving, shown, seen, asked, answers,
              socket, inbox, broken, untold, pageFaults>>
walletPageVars == <<app, view, connected, funds, flow, pushing, listed, saved, fetches, balance, list,
                    loading, filter, down, submit, latest, twice, incidents>>
facilitatorPageVars == <<service, changes, granted, paired, place, opened, query, form, setbacks>>
reasoningVars == <<part, workflowVars, vars, planVars, chainVars, agentVars, routesVars, dealVars,
                   sessionVars, cacheVars, pageVars, walletPageVars, facilitatorPageVars>>

\* The others are where they begin and stay there.
APlan == CHOOSE p \in MCPlans : TRUE
ATask == CHOOSE t \in MCTasks : TRUE
AProposal == CHOOSE p \in MCProposals : TRUE
ARoute == CHOOSE r \in ServiceRoutes : TRUE

ReasoningInit ==
    /\ part \in {"workflow", "engine", "plan", "agents", "cluster", "routes", "deals", "session",
                 "caches", "pages", "wallet", "facilitator"}
    /\ Workflow!Init
    /\ IF part = "engine" THEN plan \in MCPlans ELSE plan = APlan
    /\ Init
    /\ IF part = "plan" THEN task \in MCTasks ELSE task = ATask /\ strategy = "abort"
    /\ Planning!InitPlan
    /\ IF part = "agents" THEN proposal \in MCProposals ELSE proposal = AProposal /\ agent = "demand"
    /\ Agents!Init
    /\ Cluster!Init
    /\ part = "routes" \/ (framework = "koa" /\ redis = FALSE)
    /\ Middlewares!Init
    /\ part = "routes" \/ \A c \in Callers : request[c].route = ARoute
    /\ part = "deals" \/ autoAccept = TRUE
    /\ Deals!Init
    /\ Session!Init
    /\ part = "caches" \/ user = "engine"
    /\ Caches!Init
    /\ Pages!Init
    /\ WalletView!Init
    /\ part = "wallet" \/ (app = "dashboard" /\ connected = TRUE)
    /\ IF part = "facilitator" THEN FacilitatorView!Init
       ELSE /\ service = <<>> /\ changes = 0 /\ granted = FALSE /\ paired = TRUE /\ place = "new"
            /\ opened = 0 /\ query = <<>> /\ form = "idle" /\ setbacks = 0
    /\ part = "pages" \/ (page = "dashboard" /\ command.other.op = "cancel")

Unless(p, variables) == IF part = p THEN TRUE ELSE UNCHANGED variables

ReasoningNext ==
    /\ UNCHANGED part
    /\ \/ part = "workflow" /\ Workflow!Next
       \/ part = "engine" /\ Next
       \/ part = "plan" /\ Planning!NextPlan
       \/ part = "agents" /\ Agents!Next
       \/ part = "cluster" /\ Cluster!Next
       \/ part = "routes" /\ Middlewares!Next
       \/ part = "deals" /\ Deals!Next
       \/ part = "session" /\ Session!Next
       \/ part = "caches" /\ Caches!Next
       \/ part = "pages" /\ Pages!Next
       \/ part = "wallet" /\ WalletView!WalletPagesNext
       \/ part = "facilitator" /\ FacilitatorView!FacilitatorPagesNext
    /\ Unless("workflow", workflowVars) /\ Unless("engine", vars) /\ Unless("plan", planVars)
    /\ Unless("agents", chainVars) /\ Unless("cluster", agentVars) /\ Unless("routes", routesVars)
    /\ Unless("deals", dealVars) /\ Unless("session", sessionVars) /\ Unless("caches", cacheVars)
    /\ Unless("pages", pageVars) /\ Unless("wallet", walletPageVars)
    /\ Unless("facilitator", facilitatorPageVars)

\* Only the execution must end, and it is fair: see FairSpec.
ReasoningSpec ==
    ReasoningInit /\ [][ReasoningNext]_reasoningVars /\ WF_vars(part = "engine" /\ Next)
-----------------------------------------------------------------------------
\* All parts stay within their types.
ReasoningTypeOK ==
    /\ part = "workflow" => Workflow!TypeOK
    /\ part = "engine" => TypeOK
    /\ part = "plan" => Planning!TypeOK
    /\ part = "agents" => Agents!TypeOK
    /\ part = "cluster" => Cluster!TypeOK
    /\ part = "routes" => Middlewares!TypeOK
    /\ part = "deals" => Deals!TypeOK
    /\ part = "session" => Session!TypeOK
    /\ part = "caches" => Caches!TypeOK
    /\ part = "pages" => Pages!TypeOK
    /\ part = "wallet" => WalletView!TypeOK
    /\ part = "facilitator" => FacilitatorView!TypeOK

\* workflow-manager.ts: one execution for a workflow whose approvals do not overlap
ExecutedOnce == Workflow!ExecutedOnce
\* workflow-manager.ts: nothing begins after an undisturbed cancellation.
CancelHolds == [][withdrawn => UNCHANGED executed]_reasoningVars

\* execution-engine.ts: whatever its plan and its calls do, an execution ends.  Its
\* OrderKept, CompletedWasServed and BillExact are invariants of the others as well,
\* where nothing is executed.
EngineEnds == part = "engine" => ExecutionEnds

\* What is computed from a graph of steps: topologicalSort and service-chain.ts: detectCycle,
\* against the reference definition of an acyclic plan, and the latter against the chains that
\* succeed; ai-planner.ts: the estimated time and the critical path; task-decomposer.ts: its
\* estimate; and the order in which the agents of phantom-cash and cdp-agent call.
PlansExact ==
    /\ part = "plan" => /\ Planning!SortExact /\ Planning!ChainSound
                        /\ Planning!TimeCoversCriticalPath /\ Planning!DecomposedTimeKnown
    /\ part = "agents" => Agents!Ordered

\* What those who pay and ask rely on, each in the terms of its module. phantom-cash, cdp-agent:
\* a task counts no more than its budget and its last step, and calls every step of its plan.
\* gradient: an agent is answered by its own answer and polls with one interval. X042 Core: a
\* store of signatures lets a payment pass once, and the application is told what became of
\* it. eliza-plugin: a contract that is funded was paid for, once. wallet-adapter.ts: what was
\* approved is not exceeded but by a batch. service-discovery.ts, discovery.ts: what is read
\* is no older than entries live, and not from before the reader's own change. The pages of a
\* workflow: one that has settled shows the status, unless an event went past it. The pages of a wallet:
\* no balance of the engine is seen on them, and their lists do not go back. The pages of the
\* facilitator: nothing that wants a wallet's token is answered, and links find their service.
PromisesKept ==
    /\ part = "agents" => Agents!BudgetKept /\ Agents!AllCalled
    /\ part = "cluster" => Cluster!AgentSound
    /\ part = "routes" => Middlewares!RoutesSound
    /\ part = "deals" => Deals!DealsSound
    /\ part = "session" => Session!ApprovalKept
    /\ part = "caches" => Caches!FreshEnough
    /\ part = "pages" => Pages!PageCurrent
    /\ part = "wallet" => WalletView!WalletPagesSound
    /\ part = "facilitator" => FacilitatorView!FacilitatorPagesSound
=============================================================================
