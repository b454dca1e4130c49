---------------------------- MODULE AgentRecords ----------------------------
(***************************************************************************)
(* What the registry API keeps of one agent and one service                *)
(* (services/agent.ts, services/discovery.ts and, of                       *)
(* services/service-management.ts, verifyService): payments are recorded,  *)
(* the agent is slashed for fraud, the service is read through a cache.    *)
(*                                                                         *)
(* One action is what a request does between two awaits.  Counters are     *)
(* incremented by the database, the reputation is computed from what a     *)
(* request has read.                                                       *)
(***************************************************************************)
EXTENDS Integers, FiniteSets

CONSTANTS
    Requests,       \* requests at one time
    Payments,       \* signatures
    FirstFailures,  \* payments of the agent that have failed before, at most 40
    FirstStake,     \* its stake
    Frauds,         \* amounts to slash, before what is staked limits them
    MaxSlashes,     \* bound: requests to slash
    MaxFaults       \* bound: exceptions of the database or of the cache

VARIABLES
    agent,      \* the Agent row
    service,    \* the Service row
    cached,     \* service:<id> in the cache
    row,        \* Transaction rows: their status
    request,
    slashes,    \* history: requests to slash
    entangled,  \* history: has a request begun before another was over?
    recordFaults

recordVars == <<agent, service, cached, row, request, slashes, entangled, recordFaults>>

Agent == [total: Nat, successful: Nat, reputation: Int, staked: Int, slashed: Int]
Service == [calls: Nat, successful: Nat, verified: BOOLEAN]
NotCached == [calls |-> 0, successful |-> 1, verified |-> FALSE]
FirstAgent == [total |-> FirstFailures, successful |-> 0,
               reputation |-> 4000 - 100 * FirstFailures, staked |-> FirstStake, slashed |-> 0]
FirstService == [calls |-> 0, successful |-> 0, verified |-> FALSE]
NoRequest == [pc |-> "idle", status |-> "NONE", agent |-> FirstAgent, service |-> FirstService,
              slash |-> 0]

TypeOK ==
    /\ agent \in Agent
    /\ service \in Service /\ cached \in Service
    /\ row \in [Payments -> {"NONE", "PENDING", "CONFIRMED", "FAILED"}]
    /\ request \in [Requests ->
          [pc: {"idle", "read", "agent", "service", "forget", "readFraud", "slash", "dispute",
                "verify", "find", "set"},
           status: {"NONE", "CONFIRMED", "FAILED"}, agent: Agent, service: Service, slash: Int]]
    /\ slashes \in 0..MaxSlashes
    /\ entangled \in BOOLEAN
    /\ recordFaults \in 0..MaxFaults

Init ==
    /\ agent = FirstAgent /\ service = FirstService
    /\ cached = NotCached
    /\ row = [p \in Payments |-> "NONE"]
    /\ request = [r \in Requests |-> NoRequest]
    /\ slashes = 0
    /\ entangled = FALSE
    /\ recordFaults = 0

At(r, pc) == request[r].pc = pc
Goto(r, pc) == request' = [request EXCEPT ![r].pc = pc]
Finish(r) == request' = [request EXCEPT ![r] = NoRequest]
Busy(R) == \E r \in R : ~At(r, "idle")

Begin(r, next) ==
    /\ At(r, "idle")
    /\ request' = [request EXCEPT ![r] = next]
    /\ entangled' = (entangled \/ Busy(Requests \ {r}))
    /\ UNCHANGED <<agent, service, recordFaults>>

-----------------------------------------------------------------------------
\* recordTransaction and updateReputationAfterTransaction

\* A signature is recorded once; a payment that is pending is not counted, and never will be.
CreateTransaction(r, p, status) ==
    /\ row[p] = "NONE"
    /\ row' = [row EXCEPT ![p] = status]
    /\ Begin(r, IF status = "PENDING" THEN NoRequest
                ELSE [NoRequest EXCEPT !.pc = "read", !.status = status])
    /\ UNCHANGED <<cached, slashes>>

ReadAgent(r) ==
    /\ At(r, "read")
    /\ request' = [request EXCEPT ![r].pc = "agent", ![r].agent = agent]
    /\ UNCHANGED <<agent, service, cached, row, slashes, entangled, recordFaults>>

\* calculateNewReputation. Where the weighted sum is a whole number, what floating point
\* makes of it may be rounded down to the number below.
NewReputation(reputation, total, successful) ==
    LET sum == 95 * reputation + 5 * ((10000 * successful) \div total)
        rounded == IF sum % 100 = 0 THEN {sum \div 100, sum \div 100 - 1} ELSE {sum \div 100}
    IN  {CASE n < 0 -> 0 [] n > 10000 -> 10000 [] OTHER -> n : n \in rounded}

AtMost(a, b) == IF a < b THEN a ELSE b

\* a counter that is written as it was read, and not incremented
UpdateAgentAsRead(r) ==
    LET read == request[r].agent
    IN  /\ At(r, "agent")
        /\ \E n \in NewReputation(read.reputation, read.total + 1, read.successful + 1) :
              agent' = IF request[r].status = "CONFIRMED"
                       THEN [agent EXCEPT !.total = read.total + 1,
                                          !.successful = read.successful + 1, !.reputation = n]
                       ELSE [agent EXCEPT !.total = read.total + 1,
                                          !.reputation = @ - AtMost(100, read.reputation)]
        /\ request' = [request EXCEPT ![r].pc = "service", ![r].agent = FirstAgent]
        /\ UNCHANGED <<service, cached, row, slashes, entangled, recordFaults>>

UpdateAgent(r) ==
    LET read == request[r].agent
    IN  /\ At(r, "agent")
        /\ \E n \in NewReputation(read.reputation, read.total + 1, read.successful + 1) :
              agent' = IF request[r].status = "CONFIRMED"
                       THEN [agent EXCEPT !.total = @ + 1, !.successful = @ + 1, !.reputation = n]
                       ELSE [agent EXCEPT !.total = @ + 1,
                                          !.reputation = @ - AtMost(100, read.reputation)]
        /\ request' = [request EXCEPT ![r].pc = "service", ![r].agent = FirstAgent]
        /\ UNCHANGED <<service, cached, row, slashes, entangled, recordFaults>>

UpdateService(r) ==
    /\ At(r, "service")
    /\ service' = [service EXCEPT !.calls = @ + 1,
                                  !.successful = IF request[r].status = "CONFIRMED" THEN @ + 1 ELSE @]
    /\ Goto(r, "forget")
    /\ UNCHANGED <<agent, cached, row, slashes, entangled, recordFaults>>

\* verifyService
Verify(r) ==
    Begin(r, [NoRequest EXCEPT !.pc = "verify"]) /\ UNCHANGED <<cached, row, slashes>>

SetVerified(r) ==
    /\ At(r, "verify")
    /\ service' = [service EXCEPT !.verified = TRUE]
    /\ Goto(r, "forget")
    /\ UNCHANGED <<agent, cached, row, slashes, entangled, recordFaults>>

\* cacheDelete
Forget(r) ==
    /\ At(r, "forget")
    /\ cached' = NotCached
    /\ Finish(r)
    /\ UNCHANGED <<agent, service, row, slashes, entangled, recordFaults>>

-----------------------------------------------------------------------------
\* slashForFraud

BeginSlash(r) ==
    /\ slashes < MaxSlashes
    /\ slashes' = slashes + 1
    /\ Begin(r, [NoRequest EXCEPT !.pc = "readFraud"])
    /\ UNCHANGED <<cached, row>>

ReadFraud(r) ==
    /\ At(r, "readFraud")
    /\ \E fraud \in Frauds :
          request' = [request EXCEPT ![r].pc = "slash", ![r].slash = AtMost(fraud, agent.staked)]
    /\ UNCHANGED <<agent, service, cached, row, slashes, entangled, recordFaults>>

Slash(r) ==
    /\ At(r, "slash")
    /\ agent' = [agent EXCEPT !.staked = @ - request[r].slash, !.slashed = @ + request[r].slash,
                              !.reputation = @ - 1000]
    /\ Goto(r, "dispute")
    /\ UNCHANGED <<service, cached, row, slashes, entangled, recordFaults>>

\* The Dispute row is for the record, and nobody caches an agent.
CreateDispute(r) ==
    /\ At(r, "dispute")
    /\ Finish(r)
    /\ UNCHANGED <<agent, service, cached, row, slashes, entangled, recordFaults>>

-----------------------------------------------------------------------------
\* getServiceById

GetCached(r) ==
    /\ Begin(r, IF cached # NotCached THEN NoRequest ELSE [NoRequest EXCEPT !.pc = "find"])
    /\ UNCHANGED <<cached, row, slashes>>

Find(r) ==
    /\ At(r, "find")
    /\ request' = [request EXCEPT ![r].pc = "set", ![r].service = service]
    /\ UNCHANGED <<agent, service, cached, row, slashes, entangled, recordFaults>>

SetCached(r) ==
    /\ At(r, "set")
    /\ cached' = request[r].service
    /\ Finish(r)
    /\ UNCHANGED <<agent, service, row, slashes, entangled, recordFaults>>

\* sixty seconds later
ExpireCached ==
    /\ cached # NotCached
    /\ cached' = NotCached
    /\ UNCHANGED <<agent, service, row, request, slashes, entangled, recordFaults>>

-----------------------------------------------------------------------------
\* The database or the cache throws, or the process dies: what is done stays done.
Throw(r) ==
    /\ ~At(r, "idle")
    /\ recordFaults < MaxFaults
    /\ recordFaults' = recordFaults + 1
    /\ Finish(r)
    /\ UNCHANGED <<agent, service, cached, row, slashes, entangled>>

Next ==
    \/ ExpireCached
    \/ \E r \in Requests :
          \/ \E p \in Payments, status \in {"PENDING", "CONFIRMED", "FAILED"} :
                CreateTransaction(r, p, status)
          \/ ReadAgent(r) \/ UpdateAgent(r) \/ UpdateService(r) \/ Verify(r) \/ SetVerified(r)
          \/ Forget(r) \/ BeginSlash(r) \/ ReadFraud(r) \/ Slash(r) \/ CreateDispute(r)
          \/ GetCached(r) \/ Find(r) \/ SetCached(r) \/ Throw(r)

Spec == Init /\ [][Next]_recordVars
-----------------------------------------------------------------------------
Recorded(statuses) == Cardinality({p \in Payments : row[p] \in statuses})

\* However requests overlap: the agent and the service count no payment that is not
\* recorded, the service none that the agent does not, and no slash is lost from the sum of
\* the stake and what was slashed; when all requests are over, and nothing has failed, they
\* have counted every one. If no requests have overlapped, the stake is not slashed below
\* zero, the reputation stays below 10000 and failures do not lower it below zero, and the
\* cache holds the service as it is, unless that is being written or could not be forgotten.
RecordsExact ==
    /\ service.calls <= agent.total - FirstFailures
    /\ service.successful <= agent.successful
    /\ agent.total - FirstFailures <= Recorded({"CONFIRMED", "FAILED"})
    /\ agent.successful <= Recorded({"CONFIRMED"})
    /\ agent.staked + agent.slashed = FirstStake
    /\ recordFaults = 0 /\ ~Busy(Requests) =>
          /\ service.calls = Recorded({"CONFIRMED", "FAILED"})
          /\ service.successful = Recorded({"CONFIRMED"})
    /\ entangled \/
          /\ agent.staked >= 0 /\ agent.reputation <= 10000
          /\ slashes = 0 => agent.reputation >= 0
          /\ recordFaults = 0 /\ ~Busy(Requests) => cached \in {service, NotCached}
=============================================================================
