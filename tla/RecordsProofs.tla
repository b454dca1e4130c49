---------------------------- MODULE RecordsProofs ----------------------------
(***************************************************************************)
(* Proofs about what records say of each other in the services of          *)
(* MCServices: the agents and services of the API, their verification,     *)
(* credentials, the facilitator's records and the generated services; what *)
(* the Merkle roots of credentials tell apart; and about the types of all  *)
(* services, which rest on the invariants of ServicesProofs.               *)
(***************************************************************************)
EXTENDS ServicesProofs

-----------------------------------------------------------------------------
\* The agent's records: what a recorded payment has not been counted in yet is what the
\* requests under way have still to count, unless one of them was cut off.

RecordRequest == [pc: {"idle", "read", "agent", "service", "forget", "readFraud", "slash", "dispute",
                       "verify", "find", "set"},
                  status: {"NONE", "CONFIRMED", "FAILED"}, agent: Records!Agent,
                  service: Records!Service, slash: Int]
RecordTypes ==
    /\ agent \in Records!Agent
    /\ service \in Records!Service /\ cached \in Records!Service
    /\ payment \in [Others -> {"NONE", "PENDING", "CONFIRMED", "FAILED"}]
    /\ recording \in [Workers -> RecordRequest]
    /\ slashes \in 0..2
    /\ entangled \in BOOLEAN
    /\ recordFaults \in 0..MaxFaults

LEMMA RecordTypesAre == Records!TypeOK <=> RecordTypes
BY DEF Records!TypeOK, RecordTypes, RecordRequest

Reputation == 0..10000
\* A reputation is written as a number between 0 and 10000.
LEMMA Reputations ==
    ASSUME NEW reputation \in Int, NEW total \in Nat \ {0}, NEW successful \in Nat
    PROVE  Records!NewReputation(reputation, total, successful) \subseteq Reputation
<1> SUFFICES ASSUME NEW n \in Records!NewReputation(reputation, total, successful)
             PROVE  n \in Reputation
  OBVIOUS
<1> DEFINE share == (10000 * successful) \div total
           sum == 95 * reputation + 5 * share
<1>1. share \in Int
  <2>1. total > 0 /\ 10000 * successful \in Int
    OBVIOUS
  <2> QED
    BY <2>1
<1>2. sum \in Int
  BY <1>1
<1> DEFINE rounded == IF sum % 100 = 0 THEN {sum \div 100, sum \div 100 - 1} ELSE {sum \div 100}
<1>3. PICK m \in rounded : n = CASE m < 0 -> 0 [] m > 10000 -> 10000 [] OTHER -> m
  BY DEF Records!NewReputation
<1>4. m \in Int
  <2> HIDE DEF sum
  <2>1. sum \div 100 \in Int /\ sum \div 100 - 1 \in Int
    BY <1>2
  <2> QED
    BY <2>1
<1> HIDE DEF rounded
<1>5. CASE m < 0
  BY <1>3, <1>5 DEF Reputation
<1>6. CASE m > 10000
  <2>1. ~(m < 0)
    BY <1>4, <1>6
  <2>2. n = 10000
    BY <1>3, <1>6, <2>1
  <2> QED
    BY <2>2 DEF Reputation
<1>7. CASE ~(m < 0) /\ ~(m > 10000)
  <2>1. n = m
    BY <1>3, <1>7
  <2> QED
    BY <1>4, <1>7, <2>1 DEF Reputation
<1> QED
  BY <1>5, <1>6, <1>7

LEMMA RecordSteps ==
    ASSUME RecordTypes
    PROVE  /\ Records!NoRequest \in RecordRequest /\ Records!NotCached \in Records!Service
           /\ \A r \in Workers : recording[r] \in RecordRequest
           /\ Records!FirstAgent \in Records!Agent
           /\ agent.total \in Nat /\ agent.successful \in Nat /\ agent.reputation \in Int
           /\ agent.staked \in Int /\ agent.slashed \in Int
           /\ service.calls \in Nat /\ service.successful \in Nat /\ service.verified \in BOOLEAN
BY DEF RecordTypes, Records!NoRequest, Records!NotCached, RecordRequest, Records!FirstAgent,
       Records!FirstService, Records!Agent, Records!Service


\* What each action does, with its types
\* What an update and a slash write
Repaid(r, n) ==
    [total |-> agent.total + 1, successful |-> agent.successful + 1, reputation |-> n,
     staked |-> agent.staked, slashed |-> agent.slashed]
Penalised(r) ==
    [total |-> agent.total + 1, successful |-> agent.successful,
     reputation |-> agent.reputation - Records!AtMost(100, recording[r].agent.reputation),
     staked |-> agent.staked, slashed |-> agent.slashed]
LEMMA UpdatesAgent ==
    ASSUME RecordTypes, NEW r \in Workers, Records!UpdateAgent(r)
    PROVE  /\ recording[r].status = "CONFIRMED" => \E n \in Reputation : agent' = Repaid(r, n)
           /\ recording[r].status # "CONFIRMED" => agent' = Penalised(r)
           /\ agent' \in Records!Agent
<1> DEFINE read == recording[r].agent
<1>1. read.reputation \in Int /\ read.total \in Nat /\ read.successful \in Nat
  BY DEF RecordTypes, RecordRequest, Records!Agent
<1>2. PICK n \in Records!NewReputation(read.reputation, read.total + 1, read.successful + 1) :
        agent' = IF recording[r].status = "CONFIRMED"
                 THEN [agent EXCEPT !.total = agent.total + 1, !.successful = agent.successful + 1,
                                    !.reputation = n]
                 ELSE [agent EXCEPT !.total = agent.total + 1,
                          !.reputation = agent.reputation - Records!AtMost(100, read.reputation)]
  BY Zenon DEF Records!UpdateAgent
<1>3. n \in Reputation
  <2>1. read.successful + 1 \in Nat /\ read.total + 1 \in Nat \ {0}
    BY <1>1
  <2>2. Records!NewReputation(read.reputation, read.total + 1, read.successful + 1) \subseteq Reputation
    <3>1. \A a \in Int, t \in Nat \ {0}, k \in Nat : Records!NewReputation(a, t, k) \subseteq Reputation
      BY Reputations
    <3> HIDE DEF read
    <3> QED
      BY <1>1, <2>1, <3>1, Zenon
  <2> QED
    BY <1>2, <2>2
<1>4. CASE recording[r].status = "CONFIRMED"
  <2>1. agent' = [agent EXCEPT !.total = agent.total + 1, !.successful = agent.successful + 1,
                               !.reputation = n]
    BY <1>2, <1>4
  <2>2. agent' = Repaid(r, n)
    BY <2>1 DEF Repaid, RecordTypes, Records!Agent
  <2>3. Repaid(r, n) \in Records!Agent
    BY <1>3, RecordSteps DEF Repaid, Records!Agent, Reputation
  <2>4. \E m \in Reputation : agent' = Repaid(r, m)
    BY <1>3, <2>2
  <2>5. agent' \in Records!Agent
    BY <2>2, <2>3
  <2> QED
    BY <1>4, <2>4, <2>5
<1>5. CASE recording[r].status # "CONFIRMED"
  <2>1. agent' = [agent EXCEPT !.total = agent.total + 1,
                          !.reputation = agent.reputation - Records!AtMost(100, read.reputation)]
    BY <1>2, <1>5
  <2>2. agent' = Penalised(r)
    BY <2>1 DEF Penalised, RecordTypes, Records!Agent
  <2>3. Records!AtMost(100, read.reputation) \in Int
    BY <1>1 DEF Records!AtMost
  <2>4. Penalised(r) \in Records!Agent
    BY <2>3, RecordSteps DEF Penalised, Records!Agent
  <2> QED
    BY <1>5, <2>2, <2>4
<1> QED
  BY <1>4, <1>5

LEMMA Slashes ==
    ASSUME RecordTypes, NEW r \in Workers, Records!Slash(r)
    PROVE  /\ agent'.total = agent.total /\ agent'.successful = agent.successful
           /\ agent'.reputation = agent.reputation - 1000
           /\ agent'.staked = agent.staked - recording[r].slash
           /\ agent'.slashed = agent.slashed + recording[r].slash
           /\ agent' \in Records!Agent
<1>1. agent' = [agent EXCEPT !.staked = agent.staked - recording[r].slash,
                             !.slashed = agent.slashed + recording[r].slash,
                             !.reputation = agent.reputation - 1000]
  BY Zenon DEF Records!Slash
<1>2. agent \in Records!Agent
  BY DEF RecordTypes
<1>3. agent'.total = agent.total /\ agent'.successful = agent.successful
  BY <1>1, <1>2 DEF Records!Agent
<1>4. agent'.reputation = agent.reputation - 1000
  BY <1>1, <1>2 DEF Records!Agent
<1>5. agent'.staked = agent.staked - recording[r].slash
  BY <1>1, <1>2 DEF Records!Agent
<1>6. agent'.slashed = agent.slashed + recording[r].slash
  BY <1>1, <1>2 DEF Records!Agent
<1>7. agent' \in Records!Agent
  <2>1. /\ recording[r].slash \in Int
        /\ agent.staked - recording[r].slash \in Int /\ agent.slashed + recording[r].slash \in Int
        /\ agent.reputation - 1000 \in Int
    BY RecordSteps DEF RecordRequest
  <2> DEFINE a == [agent EXCEPT !.staked = agent.staked - recording[r].slash]
             b == [a EXCEPT !.slashed = agent.slashed + recording[r].slash]
  <2>2. a \in Records!Agent
    BY <1>2, <2>1 DEF Records!Agent
  <2>3. b \in Records!Agent
    <3> HIDE DEF a
    <3> QED
      BY <2>1, <2>2 DEF Records!Agent
  <2>4. [b EXCEPT !.reputation = agent.reputation - 1000] \in Records!Agent
    <3> HIDE DEF b
    <3> QED
      BY <2>1, <2>3 DEF Records!Agent
  <2>5. agent' = [b EXCEPT !.reputation = agent.reputation - 1000]
    BY <1>1, Zenon
  <2> QED
    BY <2>4, <2>5
<1> QED
  BY <1>3, <1>4, <1>5, <1>6, <1>7

ServicePaid(r) ==
    [calls |-> service.calls + 1,
     successful |-> IF recording[r].status = "CONFIRMED" THEN service.successful + 1 ELSE service.successful,
     verified |-> service.verified]

LEMMA UpdatesService ==
    ASSUME RecordTypes, NEW r \in Workers, Records!UpdateService(r)
    PROVE  service' = ServicePaid(r) /\ service' \in Records!Service
<1>1. service' = ServicePaid(r)
  BY DEF Records!UpdateService, ServicePaid, RecordTypes, Records!Service
<1>2. ServicePaid(r) \in Records!Service
  BY RecordSteps DEF ServicePaid, Records!Service
<1> QED
  BY <1>1, <1>2

LEMMA RecordsTyped ==
    ASSUME RecordTypes, [Records!Next]_recordVars
    PROVE  RecordTypes' /\ (entangled => entangled')
<1> USE RecordSteps
<1> DEFINE Good == RecordTypes' /\ (entangled => entangled')
<1>1. CASE UNCHANGED recordVars
  BY <1>1 DEF recordVars, RecordTypes
<1>2. CASE Records!ExpireCached
  BY <1>2 DEF Records!ExpireCached, RecordTypes
<1>3. ASSUME NEW r \in Workers, NEW next \in RecordRequest, Records!Begin(r, next),
             cached' \in Records!Service, slashes' \in 0..2,
             payment' \in [Others -> {"NONE", "PENDING", "CONFIRMED", "FAILED"}]
      PROVE  Good
  <2>1. recording' \in [Workers -> RecordRequest]
    BY <1>3 DEF Records!Begin, RecordTypes
  <2>2. entangled' \in BOOLEAN /\ (entangled => entangled')
    BY <1>3 DEF Records!Begin, RecordTypes
  <2> QED
    BY <1>3, <2>1, <2>2 DEF Records!Begin, RecordTypes
<1>4. ASSUME NEW r \in Workers, NEW p \in Others, NEW status \in {"PENDING", "CONFIRMED", "FAILED"},
             Records!CreateTransaction(r, p, status)
      PROVE  Good
  <2>1. [Records!NoRequest EXCEPT !.pc = "read", !.status = status] \in RecordRequest \/ status = "PENDING"
    BY DEF RecordRequest
  <2>2. payment' \in [Others -> {"NONE", "PENDING", "CONFIRMED", "FAILED"}]
    BY <1>4 DEF Records!CreateTransaction, RecordTypes
  <2>3. cached' \in Records!Service /\ slashes' \in 0..2
    BY <1>4 DEF Records!CreateTransaction, RecordTypes
  <2>4. PICK next \in RecordRequest : Records!Begin(r, next)
    BY <1>4, <2>1 DEF Records!CreateTransaction
  <2> QED
    BY <1>3, <2>2, <2>3, <2>4
<1>5. ASSUME NEW r \in Workers, NEW z \in RecordRequest, recording' = [recording EXCEPT ![r] = z],
             agent' \in Records!Agent, service' \in Records!Service, cached' \in Records!Service,
             UNCHANGED <<payment, slashes, entangled>>, recordFaults' \in 0..MaxFaults
      PROVE  Good
  BY <1>5 DEF RecordTypes
<1>6. ASSUME NEW r \in Workers, Records!ReadAgent(r)
      PROVE  Good
  <2>1. [recording[r] EXCEPT !.pc = "agent", !.agent = agent] \in RecordRequest
    BY DEF RecordTypes, RecordRequest
  <2>2. recording' = [recording EXCEPT ![r] = [recording[r] EXCEPT !.pc = "agent", !.agent = agent]]
    BY <1>6 DEF Records!ReadAgent, RecordTypes
  <2>3. UNCHANGED <<agent, service, cached, payment, slashes, entangled, recordFaults>>
    BY <1>6 DEF Records!ReadAgent
  <2> QED
    BY <1>5, <2>1, <2>2, <2>3 DEF RecordTypes
<1>7. ASSUME NEW r \in Workers, Records!UpdateAgent(r)
      PROVE  Good
  <2> DEFINE z == [recording[r] EXCEPT !.pc = "service", !.agent = Records!FirstAgent]
  <2>1. z \in RecordRequest
    BY DEF RecordRequest
  <2>2. recording' = [recording EXCEPT ![r] = z]
    BY <1>7 DEF Records!UpdateAgent, RecordTypes
  <2>3. UNCHANGED <<service, cached, payment, slashes, entangled, recordFaults>>
    BY <1>7 DEF Records!UpdateAgent
  <2>4. agent' \in Records!Agent
    BY <1>7, UpdatesAgent
  <2> HIDE DEF z
  <2> QED
    BY <1>5, <2>1, <2>2, <2>3, <2>4 DEF RecordTypes
<1>8. ASSUME NEW r \in Workers, NEW pc \in {"service", "forget", "slash", "dispute", "set"},
             Records!Goto(r, pc), agent' \in Records!Agent,
             service' \in Records!Service,
             UNCHANGED <<cached, payment, slashes, entangled, recordFaults>>
      PROVE  Good
  <2>1. [recording[r] EXCEPT !.pc = pc] \in RecordRequest
    BY DEF RecordRequest
  <2>2. recording' = [recording EXCEPT ![r] = [recording[r] EXCEPT !.pc = pc]]
    BY <1>8 DEF Records!Goto, RecordTypes
  <2> QED
    BY <1>5, <1>8, <2>1, <2>2 DEF RecordTypes
<1>9. ASSUME NEW r \in Workers, Records!UpdateService(r)
      PROVE  Good
  <2>1. service' \in Records!Service
    BY <1>9, UpdatesService
  <2> QED
    BY <1>8, <1>9, <2>1 DEF Records!UpdateService, RecordTypes
<1>10. ASSUME NEW r \in Workers, Records!SetVerified(r)
       PROVE  Good
  <2>1. service' \in Records!Service
    BY <1>10 DEF Records!SetVerified, Records!Service, RecordTypes
  <2> QED
    BY <1>8, <1>10, <2>1 DEF Records!SetVerified, RecordTypes
<1>11. ASSUME NEW r \in Workers, Records!Forget(r) \/ Records!CreateDispute(r) \/ Records!Throw(r)
                                   \/ Records!SetCached(r)
       PROVE  Good
  <2>1. recording' = [recording EXCEPT ![r] = Records!NoRequest]
    BY <1>11 DEF Records!Forget, Records!CreateDispute, Records!Throw, Records!SetCached, Records!Finish
  <2>2. recording[r].service \in Records!Service
    BY DEF RecordRequest
  <2>3. cached' \in Records!Service
    BY <1>11, <2>2 DEF Records!Forget, Records!CreateDispute, Records!Throw, Records!SetCached, RecordTypes
  <2>4. recordFaults' \in 0..MaxFaults
    <3>1. MaxFaults \in Nat
      BY ServicesAssumption DEF WalletAssumption
    <3> QED
      BY <1>11, <3>1 DEF Records!Forget, Records!CreateDispute, Records!Throw, Records!SetCached, RecordTypes
  <2>5. UNCHANGED <<agent, service, payment, slashes, entangled>>
    BY <1>11 DEF Records!Forget, Records!CreateDispute, Records!Throw, Records!SetCached
  <2> QED
    BY <1>5, <2>1, <2>3, <2>4, <2>5 DEF RecordTypes
<1>12. ASSUME NEW r \in Workers, Records!Verify(r) \/ Records!BeginSlash(r) \/ Records!GetCached(r)
       PROVE  Good
  <2>1. \A pc \in {"verify", "readFraud", "find"} : [Records!NoRequest EXCEPT !.pc = pc] \in RecordRequest
    BY DEF RecordRequest
  <2>2. PICK next \in RecordRequest : Records!Begin(r, next)
    BY <1>12, <2>1 DEF Records!Verify, Records!BeginSlash, Records!GetCached
  <2>3. slashes' \in 0..2
    BY <1>12 DEF Records!Verify, Records!BeginSlash, Records!GetCached, RecordTypes
  <2>4. UNCHANGED <<cached, payment>>
    BY <1>12 DEF Records!Verify, Records!BeginSlash, Records!GetCached
  <2> QED
    BY <1>3, <2>2, <2>3, <2>4 DEF RecordTypes
<1>13. ASSUME NEW r \in Workers, Records!ReadFraud(r)
       PROVE  Good
  <2>1. PICK fraud \in {1, 3} :
          recording' = [recording EXCEPT ![r].pc = "slash",
                                         ![r].slash = Records!AtMost(fraud, agent.staked)]
    BY <1>13 DEF Records!ReadFraud
  <2> DEFINE z == [recording[r] EXCEPT !.pc = "slash", !.slash = Records!AtMost(fraud, agent.staked)]
  <2>2. recording' = [recording EXCEPT ![r] = z]
    BY <2>1 DEF RecordTypes
  <2>3. Records!AtMost(fraud, agent.staked) \in Int
    BY DEF Records!AtMost
  <2>4. z \in RecordRequest
    BY <2>3 DEF RecordRequest
  <2>5. UNCHANGED <<agent, service, cached, payment, slashes, entangled, recordFaults>>
    BY <1>13 DEF Records!ReadFraud
  <2> HIDE DEF z
  <2> QED
    BY <1>5, <2>2, <2>4, <2>5 DEF RecordTypes
<1>14. ASSUME NEW r \in Workers, Records!Slash(r)
       PROVE  Good
  <2>2. agent' \in Records!Agent
    BY <1>14, Slashes
  <2> QED
    BY <1>8, <1>14, <2>2 DEF Records!Slash, RecordTypes
<1>15. ASSUME NEW r \in Workers, Records!Find(r)
       PROVE  Good
  <2> DEFINE z == [recording[r] EXCEPT !.pc = "set", !.service = service]
  <2>1. recording' = [recording EXCEPT ![r] = z]
    BY <1>15 DEF Records!Find, RecordTypes
  <2>2. z \in RecordRequest
    BY DEF RecordRequest, RecordTypes
  <2>3. UNCHANGED <<agent, service, cached, payment, slashes, entangled, recordFaults>>
    BY <1>15 DEF Records!Find
  <2> HIDE DEF z
  <2> QED
    BY <1>5, <2>1, <2>2, <2>3 DEF RecordTypes
<1> QED
  BY <1>1, <1>2, <1>4, <1>6, <1>7, <1>9, <1>10, <1>11, <1>12, <1>13, <1>14, <1>15 DEF Records!Next
\* What a request under way has still to count, and a payment that is recorded has counted
\* or will have, unless a request was cut off
CountsIn(z) ==
    CASE z.pc \in {"read", "agent"} -> IF z.status = "CONFIRMED" THEN "paid" ELSE "failed"
      [] z.pc = "service" -> IF z.status = "CONFIRMED" THEN "served" ELSE "missed"
      [] OTHER -> "nothing"
\* Payments that the agent has counted
AgentCounted == agent.total - 39
Ended == Among(Others, payment, {"CONFIRMED", "FAILED"})
Confirmed == Among(Others, payment, {"CONFIRMED"})

AgentOwes == Among(Workers, [r \in Workers |-> CountsIn(recording[r])], {"paid", "failed"})
AgentOwesPaid == Among(Workers, [r \in Workers |-> CountsIn(recording[r])], {"paid"})
ServiceOwes == Among(Workers, [r \in Workers |-> CountsIn(recording[r])], {"served", "missed"})
ServiceOwesPaid == Among(Workers, [r \in Workers |-> CountsIn(recording[r])], {"served"})

Lags(faults, n, owed, m) == n + owed <= m /\ (faults = 0 => n + owed = m)
RecordsLag ==
    /\ Lags(recordFaults, AgentCounted, AgentOwes, Ended)
    /\ Lags(recordFaults, agent.successful, AgentOwesPaid, Confirmed)
    /\ Lags(recordFaults, service.calls, ServiceOwes, AgentCounted)
    /\ Lags(recordFaults, service.successful, ServiceOwesPaid, agent.successful)

WithStatus == \A r \in Workers :
    recording[r].pc \in {"read", "agent", "service"} => recording[r].status # "NONE"

\* One request changes, and the others do not.
OnlyRequest(r) == \A q \in Workers \ {r} : recording'[q] = recording[q]

LEMMA OwesMove ==
    ASSUME NEW r \in Workers, OnlyRequest(r)
    PROVE  /\ AgentOwes \in Nat /\ AgentOwes' \in Nat
           /\ AgentOwes' = AgentOwes + (Weight(CountsIn(recording'[r]), {"paid", "failed"})
                                          - Weight(CountsIn(recording[r]), {"paid", "failed"}))
           /\ AgentOwesPaid \in Nat /\ AgentOwesPaid' \in Nat
           /\ AgentOwesPaid' = AgentOwesPaid + (Weight(CountsIn(recording'[r]), {"paid"})
                                                  - Weight(CountsIn(recording[r]), {"paid"}))
           /\ ServiceOwes \in Nat /\ ServiceOwes' \in Nat
           /\ ServiceOwes' = ServiceOwes + (Weight(CountsIn(recording'[r]), {"served", "missed"})
                                              - Weight(CountsIn(recording[r]), {"served", "missed"}))
           /\ ServiceOwesPaid \in Nat /\ ServiceOwesPaid' \in Nat
           /\ ServiceOwesPaid' = ServiceOwesPaid + (Weight(CountsIn(recording'[r]), {"served"})
                                                      - Weight(CountsIn(recording[r]), {"served"}))
<1> DEFINE f == [q \in Workers |-> CountsIn(recording[q])]
           g == [q \in Workers |-> CountsIn(recording'[q])]
<1>1. \A q \in Workers \ {r} : g[q] = f[q]
  BY DEF OnlyRequest
<1>2. f[r] = CountsIn(recording[r]) /\ g[r] = CountsIn(recording'[r])
  OBVIOUS
<1>3. /\ AgentOwes = Among(Workers, f, {"paid", "failed"})
      /\ AgentOwes' = Among(Workers, g, {"paid", "failed"})
  BY DEF AgentOwes
<1>4. /\ AgentOwesPaid = Among(Workers, f, {"paid"})
      /\ AgentOwesPaid' = Among(Workers, g, {"paid"})
  BY DEF AgentOwesPaid
<1>5. /\ ServiceOwes = Among(Workers, f, {"served", "missed"})
      /\ ServiceOwes' = Among(Workers, g, {"served", "missed"})
  BY DEF ServiceOwes
<1>6. /\ ServiceOwesPaid = Among(Workers, f, {"served"})
      /\ ServiceOwesPaid' = Among(Workers, g, {"served"})
  BY DEF ServiceOwesPaid
<1> HIDE DEF f, g
<1>7. ASSUME NEW P
      PROVE  /\ Among(Workers, f, P) \in Nat /\ Among(Workers, g, P) \in Nat
             /\ Among(Workers, g, P) = Among(Workers, f, P) + (Weight(g[r], P) - Weight(f[r], P))
  BY <1>1, AmongMoves, ServicesAssumption
<1>8. AgentOwes \in Nat /\ AgentOwes' \in Nat
      /\ AgentOwes' = AgentOwes + (Weight(CountsIn(recording'[r]), {"paid", "failed"})
                                     - Weight(CountsIn(recording[r]), {"paid", "failed"}))
  BY <1>2, <1>3, <1>7
<1>9. AgentOwesPaid \in Nat /\ AgentOwesPaid' \in Nat
      /\ AgentOwesPaid' = AgentOwesPaid + (Weight(CountsIn(recording'[r]), {"paid"})
                                             - Weight(CountsIn(recording[r]), {"paid"}))
  BY <1>2, <1>4, <1>7
<1>10. ServiceOwes \in Nat /\ ServiceOwes' \in Nat
       /\ ServiceOwes' = ServiceOwes + (Weight(CountsIn(recording'[r]), {"served", "missed"})
                                          - Weight(CountsIn(recording[r]), {"served", "missed"}))
  BY <1>2, <1>5, <1>7
<1>11. ServiceOwesPaid \in Nat /\ ServiceOwesPaid' \in Nat
       /\ ServiceOwesPaid' = ServiceOwesPaid + (Weight(CountsIn(recording'[r]), {"served"})
                                                  - Weight(CountsIn(recording[r]), {"served"}))
  BY <1>2, <1>6, <1>7
<1> QED
  BY <1>8, <1>9, <1>10, <1>11, Zenon

LEMMA CountsTypes ==
    ASSUME RecordTypes
    PROVE  /\ Ended \in Nat /\ Confirmed \in Nat /\ recordFaults \in Nat
           /\ AgentOwes \in Nat /\ AgentOwesPaid \in Nat
           /\ ServiceOwes \in Nat /\ ServiceOwesPaid \in Nat
           /\ AgentCounted \in Int /\ agent.successful \in Nat
           /\ service.calls \in Nat /\ service.successful \in Nat
<1>1. IsFiniteSet(Workers) /\ IsFiniteSet(Others) /\ MaxFaults \in Nat
  BY ServicesAssumption DEF WalletAssumption
<1>2. Ended \in Nat /\ Confirmed \in Nat /\ recordFaults \in Nat
  BY <1>1, AmongType DEF Ended, Confirmed, RecordTypes
<1>3. AgentOwes \in Nat
  BY <1>1, AmongType DEF AgentOwes
<1>4. AgentOwesPaid \in Nat
  BY <1>1, AmongType DEF AgentOwesPaid
<1>5. ServiceOwes \in Nat
  BY <1>1, AmongType DEF ServiceOwes
<1>6. ServiceOwesPaid \in Nat
  BY <1>1, AmongType DEF ServiceOwesPaid
<1> QED
  BY <1>2, <1>3, <1>4, <1>5, <1>6, RecordSteps DEF AgentCounted

LEMMA CountsOf ==
    ASSUME NEW z
    PROVE  /\ z.pc \in {"read", "agent"} /\ z.status = "CONFIRMED" => CountsIn(z) = "paid"
           /\ z.pc \in {"read", "agent"} /\ z.status # "CONFIRMED" => CountsIn(z) = "failed"
           /\ z.pc = "service" /\ z.status = "CONFIRMED" => CountsIn(z) = "served"
           /\ z.pc = "service" /\ z.status # "CONFIRMED" => CountsIn(z) = "missed"
           /\ z.pc \notin {"read", "agent", "service"} => CountsIn(z) = "nothing"
BY DEF CountsIn

\* A step after which what is counted and owed is what was, or what has ended more
Paced(f, n, owed, m, f2, n2, owed2, m2) ==
    IF f2 = f THEN n2 + owed2 + m = n + owed + m2 ELSE f2 # 0 /\ n2 + owed2 + m <= n + owed + m2

LEMMA LagsMove ==
    \A f, f2, o, o2 \in Nat, n, m, n2, m2 \in Int :
        Lags(f, n, o, m) /\ Paced(f, n, o, m, f2, n2, o2, m2) => Lags(f2, n2, o2, m2)
BY DEF Lags, Paced

LEMMA RequestCounts ==
    ASSUME RecordTypes, RecordTypes', RecordsLag, NEW r \in Workers, OnlyRequest(r),
           Paced(recordFaults, AgentCounted, AgentOwes, Ended, recordFaults', AgentCounted', AgentOwes', Ended'),
           Paced(recordFaults, agent.successful, AgentOwesPaid, Confirmed,
                 recordFaults', agent'.successful, AgentOwesPaid', Confirmed'),
           Paced(recordFaults, service.calls, ServiceOwes, AgentCounted,
                 recordFaults', service'.calls, ServiceOwes', AgentCounted'),
           Paced(recordFaults, service.successful, ServiceOwesPaid, agent.successful,
                 recordFaults', service'.successful, ServiceOwesPaid', agent'.successful)
    PROVE  RecordsLag'
<1>1. /\ Ended \in Nat /\ Confirmed \in Nat /\ recordFaults \in Nat
      /\ AgentOwes \in Nat /\ AgentOwesPaid \in Nat /\ ServiceOwes \in Nat /\ ServiceOwesPaid \in Nat
      /\ AgentCounted \in Int /\ agent.successful \in Nat
      /\ service.calls \in Nat /\ service.successful \in Nat
  BY CountsTypes
<1>2. /\ Ended' \in Nat /\ Confirmed' \in Nat /\ recordFaults' \in Nat
      /\ AgentOwes' \in Nat /\ AgentOwesPaid' \in Nat /\ ServiceOwes' \in Nat /\ ServiceOwesPaid' \in Nat
      /\ AgentCounted' \in Int /\ agent'.successful \in Nat
      /\ service'.calls \in Nat /\ service'.successful \in Nat
  <2>1. IsFiniteSet(Others) /\ MaxFaults \in Nat
    BY ServicesAssumption DEF WalletAssumption
  <2>2. Ended' \in Nat /\ Confirmed' \in Nat
    BY <2>1, AmongType DEF Ended, Confirmed
  <2>3. recordFaults' \in Nat
    BY <2>1 DEF RecordTypes
  <2>4. agent'.total \in Nat /\ agent'.successful \in Nat
    BY DEF RecordTypes, Records!Agent
  <2>5. service'.calls \in Nat /\ service'.successful \in Nat
    BY DEF RecordTypes, Records!Service
  <2> QED
    BY <2>2, <2>3, <2>4, <2>5, OwesMove DEF AgentCounted
<1>3. /\ Lags(recordFaults, AgentCounted, AgentOwes, Ended)
      /\ Lags(recordFaults, agent.successful, AgentOwesPaid, Confirmed)
      /\ Lags(recordFaults, service.calls, ServiceOwes, AgentCounted)
      /\ Lags(recordFaults, service.successful, ServiceOwesPaid, agent.successful)
  BY DEF RecordsLag
<1>4. Lags(recordFaults', AgentCounted', AgentOwes', Ended')
  <2>1. /\ recordFaults \in Nat /\ AgentCounted \in Int /\ AgentOwes \in Nat /\ Ended \in Int
        /\ recordFaults' \in Nat /\ AgentCounted' \in Int /\ AgentOwes' \in Nat /\ Ended' \in Int
    BY <1>1, <1>2
  <2>2. Lags(recordFaults, AgentCounted, AgentOwes, Ended)
    BY <1>3
  <2> QED
    BY <2>1, <2>2, LagsMove, Zenon
<1>5. Lags(recordFaults', agent'.successful, AgentOwesPaid', Confirmed')
  <2>1. /\ recordFaults \in Nat /\ agent.successful \in Int /\ AgentOwesPaid \in Nat /\ Confirmed \in Int
        /\ recordFaults' \in Nat /\ agent'.successful \in Int /\ AgentOwesPaid' \in Nat /\ Confirmed' \in Int
    BY <1>1, <1>2
  <2>2. Lags(recordFaults, agent.successful, AgentOwesPaid, Confirmed)
    BY <1>3
  <2> QED
    BY <2>1, <2>2, LagsMove, Zenon
<1>6. Lags(recordFaults', service'.calls, ServiceOwes', AgentCounted')
  <2>1. /\ recordFaults \in Nat /\ service.calls \in Int /\ ServiceOwes \in Nat /\ AgentCounted \in Int
        /\ recordFaults' \in Nat /\ service'.calls \in Int /\ ServiceOwes' \in Nat /\ AgentCounted' \in Int
    BY <1>1, <1>2
  <2>2. Lags(recordFaults, service.calls, ServiceOwes, AgentCounted)
    BY <1>3
  <2> QED
    BY <2>1, <2>2, LagsMove, Zenon
<1>7. Lags(recordFaults', service'.successful, ServiceOwesPaid', agent'.successful)
  <2>1. /\ recordFaults \in Nat /\ service.successful \in Int /\ ServiceOwesPaid \in Nat
        /\ agent.successful \in Int
        /\ recordFaults' \in Nat /\ service'.successful \in Int /\ ServiceOwesPaid' \in Nat
        /\ agent'.successful \in Int
    BY <1>1, <1>2
  <2>2. Lags(recordFaults, service.successful, ServiceOwesPaid, agent.successful)
    BY <1>3
  <2> QED
    BY <2>1, <2>2, LagsMove, Zenon
<1> QED
  BY <1>4, <1>5, <1>6, <1>7, Zenon DEF RecordsLag

\* What a request owes less and more when it moves on
LEMMA OwesBy ==
    ASSUME NEW r \in Workers, OnlyRequest(r)
    PROVE  LET a == CountsIn(recording[r])
               b == CountsIn(recording'[r])
           IN  /\ AgentOwes \in Nat /\ AgentOwesPaid \in Nat /\ ServiceOwes \in Nat
               /\ ServiceOwesPaid \in Nat
               /\ AgentOwes' \in Nat /\ AgentOwesPaid' \in Nat /\ ServiceOwes' \in Nat
               /\ ServiceOwesPaid' \in Nat
               /\ a = b => /\ AgentOwes' = AgentOwes /\ AgentOwesPaid' = AgentOwesPaid
                           /\ ServiceOwes' = ServiceOwes /\ ServiceOwesPaid' = ServiceOwesPaid
               /\ a = "nothing" /\ b = "paid" =>
                     /\ AgentOwes' = AgentOwes + 1 /\ AgentOwesPaid' = AgentOwesPaid + 1
                     /\ ServiceOwes' = ServiceOwes /\ ServiceOwesPaid' = ServiceOwesPaid
               /\ a = "nothing" /\ b = "failed" =>
                     /\ AgentOwes' = AgentOwes + 1 /\ AgentOwesPaid' = AgentOwesPaid
                     /\ ServiceOwes' = ServiceOwes /\ ServiceOwesPaid' = ServiceOwesPaid
               /\ a = "paid" /\ b = "served" =>
                     /\ AgentOwes = AgentOwes' + 1 /\ AgentOwesPaid = AgentOwesPaid' + 1
                     /\ ServiceOwes' = ServiceOwes + 1 /\ ServiceOwesPaid' = ServiceOwesPaid + 1
               /\ a = "failed" /\ b = "missed" =>
                     /\ AgentOwes = AgentOwes' + 1 /\ AgentOwesPaid' = AgentOwesPaid
                     /\ ServiceOwes' = ServiceOwes + 1 /\ ServiceOwesPaid' = ServiceOwesPaid
               /\ a = "served" /\ b = "nothing" =>
                     /\ AgentOwes' = AgentOwes /\ AgentOwesPaid' = AgentOwesPaid
                     /\ ServiceOwes = ServiceOwes' + 1 /\ ServiceOwesPaid = ServiceOwesPaid' + 1
               /\ a = "missed" /\ b = "nothing" =>
                     /\ AgentOwes' = AgentOwes /\ AgentOwesPaid' = AgentOwesPaid
                     /\ ServiceOwes = ServiceOwes' + 1 /\ ServiceOwesPaid' = ServiceOwesPaid
               /\ b = "nothing" =>
                     /\ AgentOwes' <= AgentOwes /\ AgentOwesPaid' <= AgentOwesPaid
                     /\ ServiceOwes' <= ServiceOwes /\ ServiceOwesPaid' <= ServiceOwesPaid
<1> DEFINE a == CountsIn(recording[r])
           b == CountsIn(recording'[r])
<1>1. ASSUME NEW v, NEW P
      PROVE  Weight(v, P) \in {0, 1} /\ (v \in P => Weight(v, P) = 1) /\ (v \notin P => Weight(v, P) = 0)
  BY DEF Weight
<1>2. /\ AgentOwes \in Nat /\ AgentOwes' \in Nat
      /\ AgentOwes' = AgentOwes + (Weight(b, {"paid", "failed"}) - Weight(a, {"paid", "failed"}))
  BY OwesMove
<1>3. /\ AgentOwesPaid \in Nat /\ AgentOwesPaid' \in Nat
      /\ AgentOwesPaid' = AgentOwesPaid + (Weight(b, {"paid"}) - Weight(a, {"paid"}))
  BY OwesMove
<1>4. /\ ServiceOwes \in Nat /\ ServiceOwes' \in Nat
      /\ ServiceOwes' = ServiceOwes + (Weight(b, {"served", "missed"}) - Weight(a, {"served", "missed"}))
  BY OwesMove
<1>5. /\ ServiceOwesPaid \in Nat /\ ServiceOwesPaid' \in Nat
      /\ ServiceOwesPaid' = ServiceOwesPaid + (Weight(b, {"served"}) - Weight(a, {"served"}))
  BY OwesMove
<1> HIDE DEF a, b
<1>6. /\ a = b => AgentOwes' = AgentOwes
      /\ a = "nothing" /\ b \in {"paid", "failed"} => AgentOwes' = AgentOwes + 1
      /\ a \in {"paid", "failed"} /\ b \notin {"paid", "failed"} => AgentOwes = AgentOwes' + 1
      /\ a \notin {"paid", "failed"} /\ b \notin {"paid", "failed"} => AgentOwes' = AgentOwes
      /\ b \notin {"paid", "failed"} => AgentOwes' <= AgentOwes
  BY <1>1, <1>2
<1>7. /\ a = b => AgentOwesPaid' = AgentOwesPaid
      /\ a = "nothing" /\ b = "paid" => AgentOwesPaid' = AgentOwesPaid + 1
      /\ a = "paid" /\ b # "paid" => AgentOwesPaid = AgentOwesPaid' + 1
      /\ a # "paid" /\ b # "paid" => AgentOwesPaid' = AgentOwesPaid
      /\ b # "paid" => AgentOwesPaid' <= AgentOwesPaid
  BY <1>1, <1>3
<1>8. /\ a = b => ServiceOwes' = ServiceOwes
      /\ a \notin {"served", "missed"} /\ b \in {"served", "missed"} => ServiceOwes' = ServiceOwes + 1
      /\ a \in {"served", "missed"} /\ b \notin {"served", "missed"} => ServiceOwes = ServiceOwes' + 1
      /\ a \notin {"served", "missed"} /\ b \notin {"served", "missed"} => ServiceOwes' = ServiceOwes
      /\ b \notin {"served", "missed"} => ServiceOwes' <= ServiceOwes
  BY <1>1, <1>4
<1>9. /\ a = b => ServiceOwesPaid' = ServiceOwesPaid
      /\ a # "served" /\ b = "served" => ServiceOwesPaid' = ServiceOwesPaid + 1
      /\ a = "served" /\ b # "served" => ServiceOwesPaid = ServiceOwesPaid' + 1
      /\ a # "served" /\ b # "served" => ServiceOwesPaid' = ServiceOwesPaid
      /\ b # "served" => ServiceOwesPaid' <= ServiceOwesPaid
  BY <1>1, <1>5
<1> QED
  <2>1. /\ AgentOwes \in Nat /\ AgentOwesPaid \in Nat /\ ServiceOwes \in Nat /\ ServiceOwesPaid \in Nat
        /\ AgentOwes' \in Nat /\ AgentOwesPaid' \in Nat /\ ServiceOwes' \in Nat /\ ServiceOwesPaid' \in Nat
    BY <1>2, <1>3, <1>4, <1>5
  <2> USE DEF a, b
  <2> QED
    BY <2>1, <1>6, <1>7, <1>8, <1>9

\* A payment in the books
LEMMA PaymentsMove ==
    ASSUME RecordTypes, NEW p \in Others, NEW status \in {"PENDING", "CONFIRMED", "FAILED"},
           payment[p] = "NONE", payment'[p] = status,
           \A q \in Others \ {p} : payment'[q] = payment[q]
    PROVE  /\ Ended \in Nat /\ Confirmed \in Nat /\ Ended' \in Nat /\ Confirmed' \in Nat
           /\ Ended' = Ended + (IF status = "PENDING" THEN 0 ELSE 1)
           /\ Confirmed' = Confirmed + (IF status = "CONFIRMED" THEN 1 ELSE 0)
<1>1. \A q \in Others \ {p} : payment'[q] = payment[q]
  OBVIOUS
<1>2. payment'[p] = status
  OBVIOUS
<1>3. IsFiniteSet(Others)
  BY ServicesAssumption
<1>4. ASSUME NEW P
      PROVE  /\ Among(Others, payment, P) \in Nat /\ Among(Others, payment', P) \in Nat
             /\ Among(Others, payment', P)
                  = Among(Others, payment, P) + (Weight(payment'[p], P) - Weight(payment[p], P))
  BY <1>1, <1>3, AmongMoves
<1>5. /\ Ended = Among(Others, payment, {"CONFIRMED", "FAILED"})
      /\ Ended' = Among(Others, payment', {"CONFIRMED", "FAILED"})
      /\ Confirmed = Among(Others, payment, {"CONFIRMED"})
      /\ Confirmed' = Among(Others, payment', {"CONFIRMED"})
  BY DEF Ended, Confirmed
<1>6. /\ Weight(status, {"CONFIRMED", "FAILED"}) = IF status = "PENDING" THEN 0 ELSE 1
      /\ Weight(status, {"CONFIRMED"}) = IF status = "CONFIRMED" THEN 1 ELSE 0
      /\ Weight("NONE", {"CONFIRMED", "FAILED"}) = 0 /\ Weight("NONE", {"CONFIRMED"}) = 0
  BY DEF Weight
<1>7. Ended \in Nat /\ Ended' \in Nat /\ Ended' = Ended + (IF status = "PENDING" THEN 0 ELSE 1)
  BY <1>2, <1>4, <1>5, <1>6
<1>8. Confirmed \in Nat /\ Confirmed' \in Nat
      /\ Confirmed' = Confirmed + (IF status = "CONFIRMED" THEN 1 ELSE 0)
  BY <1>2, <1>4, <1>5, <1>6
<1> QED
  BY <1>7, <1>8

LEMMA QuietCounts ==
    ASSUME RecordTypes, RecordTypes', RecordsLag, NEW r \in Workers, OnlyRequest(r),
           \/ CountsIn(recording'[r]) = CountsIn(recording[r]) /\ recordFaults' = recordFaults
           \/ CountsIn(recording'[r]) = "nothing" /\ recordFaults' = recordFaults + 1,
           agent'.total = agent.total, agent'.successful = agent.successful,
           service'.calls = service.calls, service'.successful = service.successful,
           payment' = payment
    PROVE  RecordsLag'
<1>1. Ended' = Ended /\ Confirmed' = Confirmed /\ AgentCounted' = AgentCounted
  BY DEF Ended, Confirmed, AgentCounted
<1>2. /\ AgentOwes' <= AgentOwes /\ AgentOwesPaid' <= AgentOwesPaid
      /\ ServiceOwes' <= ServiceOwes /\ ServiceOwesPaid' <= ServiceOwesPaid
      /\ AgentOwes' \in Nat /\ AgentOwesPaid' \in Nat /\ ServiceOwes' \in Nat /\ ServiceOwesPaid' \in Nat
  BY OwesBy
<1>3. \/ /\ recordFaults' = recordFaults
         /\ AgentOwes' = AgentOwes /\ AgentOwesPaid' = AgentOwesPaid
         /\ ServiceOwes' = ServiceOwes /\ ServiceOwesPaid' = ServiceOwesPaid
      \/ recordFaults' # 0 /\ recordFaults' # recordFaults
  BY OwesBy, CountsTypes
<1>4. /\ Ended \in Nat /\ Confirmed \in Nat /\ AgentCounted \in Int
      /\ AgentOwes \in Nat /\ AgentOwesPaid \in Nat /\ ServiceOwes \in Nat /\ ServiceOwesPaid \in Nat
      /\ agent.successful \in Nat /\ service.calls \in Nat /\ service.successful \in Nat
  BY CountsTypes
<1>5. \A n, m \in Int, o, o2 \in Nat : \A f, f2 :
         /\ o2 <= o
         /\ (f2 = f /\ o2 = o) \/ (f2 # 0 /\ f2 # f)
         => Paced(f, n, o, m, f2, n, o2, m)
  BY DEF Paced
<1>6. Paced(recordFaults, AgentCounted, AgentOwes, Ended, recordFaults', AgentCounted', AgentOwes', Ended')
  BY <1>1, <1>2, <1>3, <1>4, <1>5, SMTT(30)
<1>7. Paced(recordFaults, agent.successful, AgentOwesPaid, Confirmed,
            recordFaults', agent'.successful, AgentOwesPaid', Confirmed')
  BY <1>1, <1>2, <1>3, <1>4, <1>5
<1>8. Paced(recordFaults, service.calls, ServiceOwes, AgentCounted,
            recordFaults', service'.calls, ServiceOwes', AgentCounted')
  BY <1>1, <1>2, <1>3, <1>4, <1>5
<1>9. Paced(recordFaults, service.successful, ServiceOwesPaid, agent.successful,
            recordFaults', service'.successful, ServiceOwesPaid', agent'.successful)
  BY <1>1, <1>2, <1>3, <1>4, <1>5
<1> QED
  BY <1>6, <1>7, <1>8, <1>9, RequestCounts, Zenon

\* The three steps that count
LEMMA CountingCounts ==
    ASSUME RecordTypes, RecordTypes', RecordsLag, NEW r \in Workers, OnlyRequest(r),
           recordFaults' = recordFaults,
           \/ /\ payment' = payment /\ service' = service
              /\ agent'.total = agent.total + 1
              /\ \/ /\ CountsIn(recording[r]) = "paid" /\ CountsIn(recording'[r]) = "served"
                    /\ agent'.successful = agent.successful + 1
                 \/ /\ CountsIn(recording[r]) = "failed" /\ CountsIn(recording'[r]) = "missed"
                    /\ agent'.successful = agent.successful
           \/ /\ payment' = payment /\ agent' = agent
              /\ service'.calls = service.calls + 1
              /\ CountsIn(recording'[r]) = "nothing"
              /\ \/ /\ CountsIn(recording[r]) = "served"
                    /\ service'.successful = service.successful + 1
                 \/ /\ CountsIn(recording[r]) = "missed"
                    /\ service'.successful = service.successful
           \/ /\ agent' = agent /\ service' = service
              /\ CountsIn(recording[r]) = "nothing"
              /\ \E p \in Others, status \in {"PENDING", "CONFIRMED", "FAILED"} :
                    /\ payment[p] = "NONE" /\ payment'[p] = status
                    /\ \A q \in Others \ {p} : payment'[q] = payment[q]
                    /\ CountsIn(recording'[r]) = CASE status = "PENDING" -> "nothing"
                                                 [] status = "CONFIRMED" -> "paid"
                                                 [] status = "FAILED" -> "failed"
    PROVE  RecordsLag'
<1> DEFINE Good ==
        /\ AgentCounted' + AgentOwes' + Ended = AgentCounted + AgentOwes + Ended'
        /\ agent'.successful + AgentOwesPaid' + Confirmed = agent.successful + AgentOwesPaid + Confirmed'
        /\ service'.calls + ServiceOwes' + AgentCounted = service.calls + ServiceOwes + AgentCounted'
        /\ service'.successful + ServiceOwesPaid' + agent.successful
             = service.successful + ServiceOwesPaid + agent'.successful
<1>1. /\ Ended \in Nat /\ Confirmed \in Nat /\ AgentCounted \in Int
      /\ AgentOwes \in Nat /\ AgentOwesPaid \in Nat /\ ServiceOwes \in Nat /\ ServiceOwesPaid \in Nat
      /\ agent.successful \in Nat /\ service.calls \in Nat /\ service.successful \in Nat
      /\ agent.total \in Nat
  BY CountsTypes, RecordSteps
<1>2. payment' = payment => Ended' = Ended /\ Confirmed' = Confirmed
  BY DEF Ended, Confirmed
<1>3. /\ agent' = agent => AgentCounted' = AgentCounted
      /\ agent'.total = agent.total + 1 => AgentCounted' = AgentCounted + 1
  BY <1>1 DEF AgentCounted
<1> SUFFICES Good
  <2>1. ASSUME NEW f, NEW n, NEW o, NEW m, NEW n2, NEW o2, NEW m2, n2 + o2 + m = n + o + m2
        PROVE  Paced(f, n, o, m, f, n2, o2, m2)
    BY <2>1, Zenon DEF Paced
  <2>2. Good => /\ Paced(recordFaults, AgentCounted, AgentOwes, Ended, recordFaults', AgentCounted', AgentOwes', Ended')
                /\ Paced(recordFaults, agent.successful, AgentOwesPaid, Confirmed,
                         recordFaults', agent'.successful, AgentOwesPaid', Confirmed')
                /\ Paced(recordFaults, service.calls, ServiceOwes, AgentCounted,
                         recordFaults', service'.calls, ServiceOwes', AgentCounted')
                /\ Paced(recordFaults, service.successful, ServiceOwesPaid, agent.successful,
                         recordFaults', service'.successful, ServiceOwesPaid', agent'.successful)
    BY <2>1, Zenon
  <2> QED
    BY <2>2, RequestCounts, Zenon
<1>4. CASE /\ payment' = payment /\ service' = service
           /\ agent'.total = agent.total + 1
           /\ \/ /\ CountsIn(recording[r]) = "paid" /\ CountsIn(recording'[r]) = "served"
                 /\ agent'.successful = agent.successful + 1
              \/ /\ CountsIn(recording[r]) = "failed" /\ CountsIn(recording'[r]) = "missed"
                 /\ agent'.successful = agent.successful
  BY <1>1, <1>2, <1>3, <1>4, OwesBy
<1>5. CASE /\ payment' = payment /\ agent' = agent
           /\ service'.calls = service.calls + 1
           /\ CountsIn(recording'[r]) = "nothing"
           /\ \/ /\ CountsIn(recording[r]) = "served"
                 /\ service'.successful = service.successful + 1
              \/ /\ CountsIn(recording[r]) = "missed"
                 /\ service'.successful = service.successful
  BY <1>1, <1>2, <1>3, <1>5, OwesBy
<1>6. CASE /\ agent' = agent /\ service' = service
           /\ CountsIn(recording[r]) = "nothing"
           /\ \E p \in Others, status \in {"PENDING", "CONFIRMED", "FAILED"} :
                 /\ payment[p] = "NONE" /\ payment'[p] = status
                 /\ \A q \in Others \ {p} : payment'[q] = payment[q]
                 /\ CountsIn(recording'[r]) = CASE status = "PENDING" -> "nothing"
                                              [] status = "CONFIRMED" -> "paid"
                                              [] status = "FAILED" -> "failed"
  <2>1. PICK p \in Others, status \in {"PENDING", "CONFIRMED", "FAILED"} :
          /\ payment[p] = "NONE" /\ payment'[p] = status
          /\ \A q \in Others \ {p} : payment'[q] = payment[q]
          /\ CountsIn(recording'[r]) = CASE status = "PENDING" -> "nothing"
                                       [] status = "CONFIRMED" -> "paid"
                                       [] status = "FAILED" -> "failed"
    BY <1>6
  <2>2. /\ Ended' = Ended + (IF status = "PENDING" THEN 0 ELSE 1)
        /\ Confirmed' = Confirmed + (IF status = "CONFIRMED" THEN 1 ELSE 0)
    BY <2>1, PaymentsMove
  <2>3. CASE status = "PENDING"
    <3>1. CountsIn(recording'[r]) = CountsIn(recording[r])
      BY <1>6, <2>1, <2>3
    <3> QED
      BY <1>1, <1>3, <1>6, <2>2, <2>3, <3>1, OwesBy
  <2>4. CASE status = "CONFIRMED"
    <3>1. CountsIn(recording'[r]) = "paid"
      BY <2>1, <2>4
    <3> QED
      BY <1>1, <1>3, <1>6, <2>2, <2>4, <3>1, OwesBy
  <2>5. CASE status = "FAILED"
    <3>1. CountsIn(recording'[r]) = "failed"
      BY <2>1, <2>5
    <3> QED
      BY <1>1, <1>3, <1>6, <2>2, <2>5, <3>1, OwesBy
  <2> QED
    BY <2>3, <2>4, <2>5
<1> QED
  BY <1>4, <1>5, <1>6

\* While requests take turns: what a request has read still holds, the cache is the
\* service's, or is about to be forgotten, and a request that slashes takes no more than
\* there is.
RecordAlone(r) == \A q \in Workers \ {r} : recording[q].pc = "idle"
RecordHolds(z) ==
    /\ z.pc = "agent" => z.agent = agent
    /\ z.pc = "slash" => z.slash <= agent.staked
    /\ z.pc = "set" => z.service = service
RecordsInTurn ==
    /\ \A r \in Workers : recording[r].pc # "idle" => RecordAlone(r)
    /\ \A r \in Workers : RecordHolds(recording[r])
    /\ agent.staked >= 0 /\ agent.reputation <= 10000
    /\ slashes = 0 => agent.reputation >= 0
    /\ recordFaults = 0 =>
          cached \in {service, Records!NotCached} \/ \E r \in Workers : recording[r].pc = "forget"

RecordsInv ==
    /\ RecordTypes /\ RecordsLag
    /\ \A r \in Workers :
          /\ recording[r].pc \in {"read", "agent", "service"} => recording[r].status # "NONE"
          /\ recording[r].pc \in {"readFraud", "slash"} => slashes > 0
    /\ agent.staked + agent.slashed = 2
    /\ entangled \/ RecordsInTurn

\* How one request moves on, when the others do not
Moved(r, z) == recording'[r] = z /\ OnlyRequest(r)
LEMMA RecordMoves ==
    ASSUME RecordTypes, NEW r \in Workers
    PROVE  /\ \A z : recording' = [recording EXCEPT ![r] = z] => Moved(r, z)
           /\ \A pc : Records!Goto(r, pc) =>
                 /\ OnlyRequest(r) /\ recording'[r].pc = pc
                 /\ recording'[r].status = recording[r].status
           /\ Records!Finish(r) => Moved(r, Records!NoRequest)
<1>1. ASSUME NEW z, recording' = [recording EXCEPT ![r] = z]
      PROVE  Moved(r, z)
  BY <1>1 DEF RecordTypes, Moved, OnlyRequest
<1>2. ASSUME NEW pc, Records!Goto(r, pc)
      PROVE  /\ OnlyRequest(r) /\ recording'[r].pc = pc
             /\ recording'[r].status = recording[r].status
  <2>1. recording[r] \in RecordRequest
    BY DEF RecordTypes
  <2> QED
    BY <1>2, <2>1 DEF Records!Goto, RecordTypes, OnlyRequest, RecordRequest
<1>3. Records!Finish(r) => Moved(r, Records!NoRequest)
  BY <1>1 DEF Records!Finish
<1> QED
  BY <1>1, <1>2, <1>3

\* Whether the requests that are under way have to count
LEMMA RecordsKept ==
    ASSUME RecordsInv, RecordTypes', [Records!Next]_recordVars
    PROVE  RecordsLag'
<1> USE DEF RecordsInv
<1>1. CASE UNCHANGED recordVars
  BY <1>1 DEF recordVars, RecordsLag, AgentCounted, Ended, Confirmed, AgentOwes, AgentOwesPaid,
              ServiceOwes, ServiceOwesPaid
<1>2. CASE Records!ExpireCached
  BY <1>2 DEF Records!ExpireCached, RecordsLag, AgentCounted, Ended, Confirmed, AgentOwes, AgentOwesPaid,
              ServiceOwes, ServiceOwesPaid
<1>3. ASSUME NEW r \in Workers, NEW p \in Others, NEW status \in {"PENDING", "CONFIRMED", "FAILED"},
             Records!CreateTransaction(r, p, status)
      PROVE  RecordsLag'
  <2> DEFINE z == IF status = "PENDING" THEN Records!NoRequest
                  ELSE [Records!NoRequest EXCEPT !.pc = "read", !.status = status]
  <2>1. recording[r].pc = "idle" /\ Moved(r, z) /\ agent' = agent /\ service' = service
        /\ recordFaults' = recordFaults
    BY <1>3, RecordMoves DEF Records!CreateTransaction, Records!Begin, Records!At
  <2>2. payment[p] = "NONE" /\ payment'[p] = status /\ \A q \in Others \ {p} : payment'[q] = payment[q]
    BY <1>3 DEF Records!CreateTransaction, RecordTypes
  <2>3. CountsIn(recording[r]) = "nothing"
    BY <2>1, CountsOf
  <2>4. /\ status = "PENDING" => CountsIn(z) = "nothing"
        /\ status = "CONFIRMED" => CountsIn(z) = "paid"
        /\ status = "FAILED" => CountsIn(z) = "failed"
    BY DEF CountsIn, Records!NoRequest
  <2>5. recording'[r] = z /\ OnlyRequest(r)
    BY <2>1 DEF Moved
  <2> HIDE DEF z
  <2>6. CountsIn(recording'[r]) = CASE status = "PENDING" -> "nothing"
                                  [] status = "CONFIRMED" -> "paid"
                                  [] status = "FAILED" -> "failed"
    BY <2>4, <2>5
  <2> QED
    BY <2>1, <2>2, <2>3, <2>5, <2>6, CountingCounts
<1>4. ASSUME NEW r \in Workers, OnlyRequest(r),
             recording'[r].pc \notin {"read", "agent", "service"},
             recording[r].pc \notin {"read", "agent", "service"},
             UNCHANGED <<payment, recordFaults>>,
             agent'.total = agent.total, agent'.successful = agent.successful,
             service'.calls = service.calls, service'.successful = service.successful
      PROVE  RecordsLag'
  <2>1. CountsIn(recording'[r]) = CountsIn(recording[r])
    BY <1>4, CountsOf
  <2> QED
    BY <1>4, <2>1, QuietCounts
<1>5. ASSUME NEW r \in Workers, Records!ReadAgent(r)
      PROVE  RecordsLag'
  <2>1. /\ recording'[r] = [recording[r] EXCEPT !.pc = "agent", !.agent = agent] /\ OnlyRequest(r)
        /\ recording[r].pc = "read"
    BY <1>5 DEF Records!ReadAgent, Records!At, RecordTypes, OnlyRequest
  <2>2. /\ recording'[r].pc = "agent" /\ recording'[r].status = recording[r].status
        /\ recording[r].pc = "read"
    BY <2>1 DEF RecordTypes, RecordRequest
  <2>3. CountsIn(recording'[r]) = CountsIn(recording[r])
    BY <2>2, CountsOf
  <2> QED
    BY <1>5, <2>1, <2>3, QuietCounts DEF Records!ReadAgent
<1>6. ASSUME NEW r \in Workers, Records!UpdateAgent(r)
      PROVE  RecordsLag'
  <2>1. /\ recording'[r] = [recording[r] EXCEPT !.pc = "service", !.agent = Records!FirstAgent]
        /\ OnlyRequest(r) /\ recording[r].pc = "agent"
        /\ UNCHANGED <<payment, service, recordFaults>>
    BY <1>6 DEF Records!UpdateAgent, Records!At, RecordTypes, OnlyRequest
  <2>2. /\ recording'[r].pc = "service" /\ recording'[r].status = recording[r].status
        /\ recording[r].pc = "agent"
    BY <2>1 DEF RecordTypes, RecordRequest
  <2>3. OnlyRequest(r) /\ UNCHANGED <<payment, service, recordFaults>>
    BY <2>1
  <2>4. CASE recording[r].status = "CONFIRMED"
    <3>1. CountsIn(recording[r]) = "paid" /\ CountsIn(recording'[r]) = "served"
      BY <2>2, <2>4, CountsOf
    <3>2. agent'.total = agent.total + 1 /\ agent'.successful = agent.successful + 1
      <4>1. \E n \in Reputation : agent' = Repaid(r, n)
        BY <1>6, <2>4, UpdatesAgent
      <4> QED
        BY <4>1 DEF Repaid
    <3> QED
      BY <2>3, <3>1, <3>2, CountingCounts
  <2>5. CASE recording[r].status # "CONFIRMED"
    <3>1. CountsIn(recording[r]) = "failed" /\ CountsIn(recording'[r]) = "missed"
      BY <2>2, <2>5, CountsOf
    <3>2. agent'.total = agent.total + 1 /\ agent'.successful = agent.successful
      <4>1. agent' = Penalised(r)
        BY <1>6, <2>5, UpdatesAgent
      <4> QED
        BY <4>1 DEF Penalised
    <3> QED
      BY <2>3, <3>1, <3>2, CountingCounts
  <2> QED
    BY <2>4, <2>5
<1>7. ASSUME NEW r \in Workers, Records!UpdateService(r)
      PROVE  RecordsLag'
  <2>1. /\ OnlyRequest(r) /\ recording'[r].pc = "forget" /\ recording[r].pc = "service"
        /\ UNCHANGED <<agent, payment, recordFaults>>
    BY <1>7, RecordMoves DEF Records!UpdateService, Records!At
  <2>2. CountsIn(recording'[r]) = "nothing"
    BY <2>1, CountsOf
  <2>3. /\ service'.calls = service.calls + 1
        /\ recording[r].status = "CONFIRMED" => /\ CountsIn(recording[r]) = "served"
                                                /\ service'.successful = service.successful + 1
        /\ recording[r].status # "CONFIRMED" => /\ CountsIn(recording[r]) = "missed"
                                                /\ service'.successful = service.successful
    BY <1>7, <2>1, CountsOf, UpdatesService DEF ServicePaid
  <2> QED
    BY <2>1, <2>2, <2>3, CountingCounts
<1>8. ASSUME NEW r \in Workers, Records!SetVerified(r)
      PROVE  RecordsLag'
  <2>1. /\ OnlyRequest(r) /\ recording'[r].pc = "forget" /\ recording[r].pc = "verify"
        /\ UNCHANGED <<agent, payment, recordFaults>>
    BY <1>8, RecordMoves DEF Records!SetVerified, Records!At
  <2>2. service'.calls = service.calls /\ service'.successful = service.successful
    BY <1>8 DEF Records!SetVerified, RecordTypes, Records!Service
  <2> QED
    BY <1>4, <2>1, <2>2
<1>9. ASSUME NEW r \in Workers, Records!Forget(r) \/ Records!CreateDispute(r) \/ Records!SetCached(r)
      PROVE  RecordsLag'
  <2>1. /\ Moved(r, Records!NoRequest) /\ recording[r].pc \in {"forget", "dispute", "set"}
        /\ UNCHANGED <<agent, service, payment, recordFaults>>
    BY <1>9, RecordMoves DEF Records!Forget, Records!CreateDispute, Records!SetCached, Records!At
  <2>2. OnlyRequest(r) /\ recording'[r].pc = "idle"
    BY <2>1 DEF Moved, Records!NoRequest
  <2> QED
    BY <1>4, <2>1, <2>2
<1>10. ASSUME NEW r \in Workers, Records!Throw(r)
       PROVE  RecordsLag'
  <2>1. /\ Moved(r, Records!NoRequest) /\ recordFaults' = recordFaults + 1
        /\ UNCHANGED <<agent, service, payment>>
    BY <1>10, RecordMoves DEF Records!Throw
  <2>2. OnlyRequest(r) /\ CountsIn(recording'[r]) = "nothing"
    BY <2>1, CountsOf DEF Moved, Records!NoRequest
  <2> QED
    BY <2>1, <2>2, QuietCounts
<1>11. ASSUME NEW r \in Workers, Records!Verify(r) \/ Records!BeginSlash(r) \/ Records!GetCached(r)
       PROVE  RecordsLag'
  <2>1. /\ recording[r].pc = "idle" /\ UNCHANGED <<agent, service, payment, recordFaults>>
        /\ \E z : Moved(r, z) /\ z.pc \in {"idle", "verify", "readFraud", "find"}
    BY <1>11, RecordMoves DEF Records!Verify, Records!BeginSlash, Records!GetCached, Records!Begin,
                              Records!At, Records!NoRequest
  <2>2. OnlyRequest(r) /\ recording'[r].pc \in {"idle", "verify", "readFraud", "find"}
    BY <2>1 DEF Moved
  <2> QED
    BY <1>4, <2>1, <2>2
<1>12. ASSUME NEW r \in Workers, Records!ReadFraud(r) \/ Records!Find(r)
       PROVE  RecordsLag'
  <2>1. /\ OnlyRequest(r) /\ recording[r].pc \in {"readFraud", "find"}
        /\ recording'[r].pc \in {"slash", "set"}
        /\ UNCHANGED <<agent, service, payment, recordFaults>>
    BY <1>12 DEF Records!ReadFraud, Records!Find, Records!At, RecordTypes, OnlyRequest, RecordRequest
  <2> QED
    BY <1>4, <2>1
<1>13. ASSUME NEW r \in Workers, Records!Slash(r)
       PROVE  RecordsLag'
  <2>1. /\ OnlyRequest(r) /\ recording'[r].pc = "dispute" /\ recording[r].pc = "slash"
        /\ UNCHANGED <<service, payment, recordFaults>>
    BY <1>13, RecordMoves DEF Records!Slash, Records!At
  <2> QED
    BY <1>4, <1>13, <2>1, Slashes
<1> QED
  BY <1>1, <1>2, <1>3, <1>5, <1>6, <1>7, <1>8, <1>9, <1>10, <1>11, <1>12, <1>13 DEF Records!Next

\* The types and the stake
LEMMA StakeKept ==
    ASSUME RecordsInv, RecordTypes', [Records!Next]_recordVars
    PROVE  agent'.staked + agent'.slashed = 2
<1> USE RecordSteps DEF RecordsInv
<1>1. agent' = agent => agent'.staked + agent'.slashed = 2
  OBVIOUS
<1>2. ASSUME NEW r \in Workers, Records!UpdateAgent(r)
      PROVE  agent'.staked = agent.staked /\ agent'.slashed = agent.slashed
  <2>1. CASE recording[r].status = "CONFIRMED"
    <3>1. PICK n \in Reputation : agent' = Repaid(r, n)
      BY <1>2, <2>1, UpdatesAgent
    <3> QED
      BY <3>1 DEF Repaid
  <2>2. CASE recording[r].status # "CONFIRMED"
    <3>1. agent' = Penalised(r)
      BY <1>2, <2>2, UpdatesAgent
    <3> QED
      BY <3>1 DEF Penalised
  <2> QED
    BY <2>1, <2>2
<1>3. ASSUME NEW r \in Workers, Records!Slash(r)
      PROVE  agent'.staked + agent'.slashed = 2
  <2>1. recording[r].slash \in Int /\ agent.staked \in Int /\ agent.slashed \in Int
    BY DEF RecordRequest
  <2>2. /\ agent'.staked = agent.staked - recording[r].slash
        /\ agent'.slashed = agent.slashed + recording[r].slash
    BY <1>3, Slashes
  <2> QED
    BY <2>1, <2>2
<1>4. CASE UNCHANGED recordVars \/ Records!ExpireCached
  BY <1>1, <1>4 DEF recordVars, Records!ExpireCached
<1>5. CASE \E r \in Workers : Records!UpdateAgent(r) \/ Records!Slash(r)
  BY <1>2, <1>3, <1>5
<1>6. CASE \E r \in Workers :
              \/ \E p \in Others, status \in {"PENDING", "CONFIRMED", "FAILED"} :
                    Records!CreateTransaction(r, p, status)
              \/ Records!ReadAgent(r) \/ Records!UpdateService(r) \/ Records!Verify(r)
              \/ Records!SetVerified(r) \/ Records!Forget(r) \/ Records!BeginSlash(r)
              \/ Records!ReadFraud(r) \/ Records!CreateDispute(r) \/ Records!GetCached(r)
              \/ Records!Find(r) \/ Records!SetCached(r) \/ Records!Throw(r)
  <2>1. agent' = agent
    BY <1>6 DEF Records!CreateTransaction, Records!ReadAgent, Records!UpdateService, Records!Verify,
          Records!SetVerified, Records!Forget, Records!BeginSlash, Records!ReadFraud,
          Records!CreateDispute, Records!GetCached, Records!Find, Records!SetCached, Records!Throw,
          Records!Begin
  <2> QED
    BY <1>1, <2>1
<1> QED
  BY <1>4, <1>5, <1>6 DEF Records!Next

\* What is to be shown of a request that moves on in its turn
HoldsAfter(r) ==
    /\ RecordHolds(recording[r])'
    /\ agent'.staked >= 0 /\ agent'.reputation <= 10000
    /\ slashes' = 0 => agent'.reputation >= 0
    /\ recordFaults' = 0 =>
          cached' \in {service', Records!NotCached} \/ recording'[r].pc = "forget"

\* What each request is entitled to, and what it holds while requests take turns
LEMMA RequestsKept ==
    ASSUME RecordsInv, RecordTypes', [Records!Next]_recordVars
    PROVE  /\ \A r \in Workers :
                 /\ recording'[r].pc \in {"read", "agent", "service"} => recording'[r].status # "NONE"
                 /\ recording'[r].pc \in {"readFraud", "slash"} => slashes' > 0
           /\ entangled' \/ RecordsInTurn'
<1> DEFINE RecordEntitled(z, n) == /\ z.pc \in {"read", "agent", "service"} => z.status # "NONE"
                                   /\ z.pc \in {"readFraud", "slash"} => n > 0
           Good == /\ \A q \in Workers : RecordEntitled(recording'[q], slashes')
                   /\ entangled' \/ RecordsInTurn'
<1>0. /\ \A q \in Workers : RecordEntitled(recording[q], slashes)
      /\ entangled \/ RecordsInTurn
      /\ slashes \in Nat /\ recordFaults \in Nat /\ entangled \in BOOLEAN
  <2>1. MaxFaults \in Nat
    BY ServicesAssumption DEF WalletAssumption
  <2> QED
    BY <2>1 DEF RecordsInv, RecordTypes
<1>1. CASE UNCHANGED recordVars
  BY <1>0, <1>1 DEF recordVars, RecordsInTurn, RecordAlone, RecordHolds
<1>2. CASE Records!ExpireCached
  BY <1>0, <1>2 DEF Records!ExpireCached, RecordsInTurn, RecordAlone, RecordHolds
\* a request that begins
<1>3. ASSUME NEW r \in Workers, NEW z, Records!Begin(r, z), Moved(r, z),
             slashes' \in Nat, slashes' >= slashes, RecordEntitled(z, slashes'),
             z.pc \notin {"agent", "slash", "set"}, UNCHANGED cached
      PROVE  Good
  <2>1. /\ recording'[r] = z /\ OnlyRequest(r) /\ recording[r].pc = "idle"
        /\ UNCHANGED <<agent, service, recordFaults, cached>>
        /\ entangled' = (entangled \/ \E q \in Workers \ {r} : recording[q].pc # "idle")
    BY <1>3 DEF Moved, Records!Begin, Records!At, Records!Busy
  <2>2. \A q \in Workers : RecordEntitled(recording'[q], slashes')
    BY <1>0, <1>3, <2>1 DEF OnlyRequest
  <2>3. ASSUME ~entangled' PROVE RecordsInTurn'
    <3>1. RecordsInTurn /\ \A q \in Workers : q # r => recording[q].pc = "idle" /\ recording'[q] = recording[q]
      BY <1>0, <2>1, <2>3 DEF OnlyRequest
    <3>2. \A q \in Workers : recording'[q].pc # "idle" => RecordAlone(q)'
      BY <3>1, <2>1 DEF RecordAlone
    <3>3. \A q \in Workers : RecordHolds(recording[q])'
      BY <3>1, <2>1, <1>3 DEF RecordHolds
    <3>4. /\ agent'.staked >= 0 /\ agent'.reputation <= 10000
          /\ slashes' = 0 => agent'.reputation >= 0
      BY <1>0, <1>3, <2>1, <3>1 DEF RecordsInTurn
    <3>5. recordFaults' = 0 => cached' \in {service', Records!NotCached}
      <4>1. \A q \in Workers : recording[q].pc # "forget"
        BY <2>1, <3>1
      <4> QED
        BY <2>1, <3>1, <4>1 DEF RecordsInTurn
    <3> QED
      BY <3>2, <3>3, <3>4, <3>5 DEF RecordsInTurn
  <2> QED
    BY <2>2, <2>3
\* a request that is under way
<1>4. ASSUME NEW r \in Workers, OnlyRequest(r), recording[r].pc # "idle", RecordEntitled(recording'[r], slashes),
             UNCHANGED <<slashes, entangled>>,
             RecordsInTurn => HoldsAfter(r)
      PROVE  Good
  <2>1. \A q \in Workers : RecordEntitled(recording'[q], slashes')
    BY <1>0, <1>4 DEF OnlyRequest
  <2>2. ASSUME RecordsInTurn PROVE RecordsInTurn'
    <3>1. \A q \in Workers : q # r => recording[q].pc = "idle" /\ recording'[q] = recording[q]
      BY <1>4, <2>2 DEF RecordsInTurn, RecordAlone, OnlyRequest
    <3>2. \A q \in Workers : recording'[q].pc # "idle" => RecordAlone(q)'
      BY <3>1 DEF RecordAlone
    <3>3. \A q \in Workers : RecordHolds(recording[q])'
      BY <1>4, <2>2, <3>1 DEF RecordHolds, HoldsAfter
    <3> QED
      BY <1>4, <2>2, <3>2, <3>3 DEF RecordsInTurn, HoldsAfter
  <2> QED
    BY <1>0, <1>4, <2>1, <2>2
<1>5. ASSUME NEW r \in Workers, NEW p \in Others, NEW status \in {"PENDING", "CONFIRMED", "FAILED"},
             Records!CreateTransaction(r, p, status)
      PROVE  Good
  <2> DEFINE z == IF status = "PENDING" THEN Records!NoRequest
                  ELSE [Records!NoRequest EXCEPT !.pc = "read", !.status = status]
  <2>1. Records!Begin(r, z) /\ Moved(r, z) /\ UNCHANGED <<cached, slashes>>
    BY <1>5, RecordMoves DEF Records!CreateTransaction, Records!Begin, RecordsInv
  <2>2. RecordEntitled(z, slashes) /\ z.pc \notin {"agent", "slash", "set"}
    BY DEF Records!NoRequest
  <2> HIDE DEF z
  <2> QED
    BY <1>0, <1>3, <2>1, <2>2
<1>6. ASSUME NEW r \in Workers, Records!Verify(r) \/ Records!GetCached(r) \/ Records!BeginSlash(r)
      PROVE  Good
  <2>1. PICK z : /\ Records!Begin(r, z) /\ recording' = [recording EXCEPT ![r] = z]
                 /\ z.pc \in {"idle", "verify", "find", "readFraud"}
                 /\ z.pc = "readFraud" => slashes' = slashes + 1
                 /\ slashes' \in {slashes, slashes + 1} /\ UNCHANGED cached
    BY <1>6 DEF Records!Verify, Records!BeginSlash, Records!GetCached, Records!Begin, Records!NoRequest
  <2>2. Moved(r, z)
    BY <2>1, RecordMoves DEF RecordsInv
  <2> QED
    BY <1>0, <1>3, <2>1, <2>2
<1>7. ASSUME NEW r \in Workers, Records!ReadAgent(r)
      PROVE  Good
  <2>1. /\ recording'[r] = [recording[r] EXCEPT !.pc = "agent", !.agent = agent] /\ OnlyRequest(r)
        /\ recording[r].pc = "read" /\ recording[r] \in RecordRequest
        /\ UNCHANGED <<agent, service, cached, slashes, entangled, recordFaults>>
    BY <1>7 DEF Records!ReadAgent, Records!At, RecordTypes, OnlyRequest, RecordsInv
  <2>2. /\ recording'[r].pc = "agent" /\ recording'[r].status = recording[r].status
        /\ recording'[r].agent = agent
    BY <2>1 DEF RecordRequest
  <2>3. RecordHolds(recording[r])'
    BY <2>1, <2>2 DEF RecordHolds
  <2>4. ASSUME RecordsInTurn PROVE HoldsAfter(r)
    <3>1. \A q \in Workers : recording[q].pc # "forget"
      BY <2>1, <2>4 DEF RecordsInTurn, RecordAlone
    <3> QED
      BY <2>1, <2>3, <2>4, <3>1 DEF RecordsInTurn, HoldsAfter
  <2>5. RecordEntitled(recording'[r], slashes)
    BY <1>0, <2>1, <2>2
  <2> QED
    BY <1>4, <2>1, <2>4, <2>5
<1>8. ASSUME NEW r \in Workers, Records!UpdateAgent(r)
      PROVE  Good
  <2>1. /\ recording'[r] = [recording[r] EXCEPT !.pc = "service", !.agent = Records!FirstAgent]
        /\ OnlyRequest(r) /\ recording[r].pc = "agent" /\ recording[r] \in RecordRequest
        /\ UNCHANGED <<service, cached, slashes, entangled, recordFaults>>
    BY <1>8 DEF Records!UpdateAgent, Records!At, RecordTypes, OnlyRequest, RecordsInv
  <2>2. recording'[r].pc = "service" /\ recording'[r].status = recording[r].status
    BY <2>1 DEF RecordRequest
  <2>3. RecordHolds(recording[r])'
    BY <2>2 DEF RecordHolds
  <2>4. ASSUME RecordsInTurn PROVE HoldsAfter(r)
    <3>1. /\ \A q \in Workers : recording[q].pc # "forget"
          /\ recording[r].agent = agent
      BY <2>1, <2>4 DEF RecordsInTurn, RecordAlone, RecordHolds
    <3>2. agent.reputation \in Int /\ agent.staked \in Int /\ RecordTypes
      BY RecordSteps DEF RecordsInv
    <3>3. agent'.staked = agent.staked /\ agent'.reputation <= 10000
          /\ (slashes = 0 => agent'.reputation >= 0)
      <4>1. CASE recording[r].status = "CONFIRMED"
        <5>1. PICK n \in Reputation : agent' = Repaid(r, n)
          BY <1>8, <3>2, <4>1, UpdatesAgent
        <5> QED
          BY <5>1 DEF Repaid, Reputation
      <4>2. CASE recording[r].status # "CONFIRMED"
        <5>1. agent' = Penalised(r)
          BY <1>8, <3>2, <4>2, UpdatesAgent
        <5>2. agent'.reputation = agent.reputation - Records!AtMost(100, agent.reputation)
              /\ agent'.staked = agent.staked
          BY <3>1, <5>1 DEF Penalised
        <5>3. agent.reputation <= 10000 /\ (slashes = 0 => agent.reputation >= 0)
          BY <2>4 DEF RecordsInTurn
        <5> QED
          BY <3>2, <5>2, <5>3 DEF Records!AtMost
      <4> QED
        BY <4>1, <4>2
    <3> QED
      BY <2>1, <2>3, <2>4, <3>1, <3>3 DEF RecordsInTurn, HoldsAfter
  <2>5. RecordEntitled(recording'[r], slashes)
    BY <1>0, <2>1, <2>2
  <2> QED
    BY <1>4, <2>1, <2>4, <2>5
<1>9. ASSUME NEW r \in Workers, Records!UpdateService(r) \/ Records!SetVerified(r)
      PROVE  Good
  <2>1. /\ OnlyRequest(r) /\ recording'[r].pc = "forget" /\ recording[r].pc \in {"service", "verify"}
        /\ UNCHANGED <<agent, slashes, entangled>>
    BY <1>9, RecordMoves DEF Records!UpdateService, Records!SetVerified, Records!At, RecordsInv
  <2>2. RecordHolds(recording[r])'
    BY <2>1 DEF RecordHolds
  <2>3. ASSUME RecordsInTurn PROVE HoldsAfter(r)
    BY <2>1, <2>2, <2>3 DEF RecordsInTurn, HoldsAfter
  <2> QED
    BY <1>4, <2>1, <2>3
<1>10. ASSUME NEW r \in Workers, Records!Forget(r) \/ Records!CreateDispute(r) \/ Records!SetCached(r)
                                  \/ Records!Throw(r)
       PROVE  Good
  <2>1. /\ Moved(r, Records!NoRequest) /\ recording[r].pc # "idle"
        /\ UNCHANGED <<agent, service, slashes, entangled>>
    BY <1>10, RecordMoves DEF Records!Forget, Records!CreateDispute, Records!SetCached, Records!Throw,
                              Records!At, RecordsInv
  <2>2. OnlyRequest(r) /\ recording'[r].pc = "idle"
    BY <2>1 DEF Moved, Records!NoRequest
  <2>3. RecordHolds(recording[r])'
    BY <2>2 DEF RecordHolds
  <2>4. ASSUME RecordsInTurn, recordFaults' = 0 PROVE cached' \in {service', Records!NotCached}
    <3>1. CASE Records!Forget(r)
      BY <3>1 DEF Records!Forget
    <3>2. CASE Records!SetCached(r)
      BY <2>4, <3>2 DEF Records!SetCached, Records!At, RecordsInTurn, RecordHolds
    <3>3. CASE Records!Throw(r)
      BY <1>0, <2>4, <3>3 DEF Records!Throw
    <3>4. CASE Records!CreateDispute(r)
      <4>1. \A q \in Workers : recording[q].pc # "forget"
        BY <2>4, <3>4 DEF Records!CreateDispute, Records!At, RecordsInTurn, RecordAlone
      <4> QED
        BY <2>4, <3>4, <4>1 DEF Records!CreateDispute, RecordsInTurn
    <3> QED
      BY <1>10, <3>1, <3>2, <3>3, <3>4
  <2>5. ASSUME RecordsInTurn PROVE HoldsAfter(r)
    BY <2>1, <2>3, <2>4, <2>5 DEF RecordsInTurn, HoldsAfter
  <2> QED
    BY <1>4, <2>1, <2>2, <2>5
<1>11. ASSUME NEW r \in Workers, Records!ReadFraud(r)
       PROVE  Good
  <2>1. PICK fraud \in {1, 3} :
          recording' = [recording EXCEPT ![r].pc = "slash",
                                         ![r].slash = Records!AtMost(fraud, agent.staked)]
    BY <1>11 DEF Records!ReadFraud
  <2>2. recording[r] \in RecordRequest /\ recording \in [Workers -> RecordRequest]
    BY DEF RecordTypes, RecordsInv
  <2>3. /\ OnlyRequest(r) /\ recording'[r].pc = "slash"
        /\ recording'[r].slash = Records!AtMost(fraud, agent.staked)
    BY <2>1, <2>2 DEF RecordRequest, OnlyRequest
  <2>4. /\ recording[r].pc = "readFraud"
        /\ UNCHANGED <<agent, service, cached, slashes, entangled, recordFaults>>
    BY <1>11 DEF Records!ReadFraud, Records!At
  <2>5. agent.staked \in Int
    BY RecordSteps DEF RecordsInv
  <2>6. RecordHolds(recording[r])'
    BY <2>3, <2>4, <2>5 DEF RecordHolds, Records!AtMost
  <2>7. ASSUME RecordsInTurn PROVE HoldsAfter(r)
    <3>1. \A q \in Workers : recording[q].pc # "forget"
      BY <2>4, <2>7 DEF RecordsInTurn, RecordAlone
    <3> QED
      BY <2>4, <2>6, <2>7, <3>1 DEF RecordsInTurn, HoldsAfter
  <2> QED
    BY <1>0, <1>4, <2>3, <2>4, <2>7
<1>12. ASSUME NEW r \in Workers, Records!Slash(r)
       PROVE  Good
  <2>1. /\ OnlyRequest(r) /\ recording'[r].pc = "dispute" /\ recording[r].pc = "slash"
        /\ UNCHANGED <<service, cached, slashes, entangled, recordFaults>>
    BY <1>12, RecordMoves DEF Records!Slash, Records!At, RecordsInv
  <2>2. RecordHolds(recording[r])'
    BY <2>1 DEF RecordHolds
  <2>3. /\ agent'.staked = agent.staked - recording[r].slash
        /\ agent'.reputation = agent.reputation - 1000
    BY <1>12, Slashes DEF RecordsInv
  <2>4. agent.staked \in Int /\ recording[r].slash \in Int /\ agent.reputation \in Int
    BY RecordSteps DEF RecordsInv, RecordRequest
  <2>5. ASSUME RecordsInTurn PROVE HoldsAfter(r)
    <3>1. \A q \in Workers : recording[q].pc # "forget"
      BY <2>1, <2>5 DEF RecordsInTurn, RecordAlone
    <3>2. recording[r].slash <= agent.staked /\ agent.reputation <= 10000
      BY <2>1, <2>5 DEF RecordsInTurn, RecordHolds
    <3>3. slashes # 0
      BY <1>0, <2>1
    <3>4. agent'.staked >= 0 /\ agent'.reputation <= 10000
      BY <2>3, <2>4, <3>2
    <3> QED
      BY <2>1, <2>2, <2>5, <3>1, <3>3, <3>4 DEF RecordsInTurn, HoldsAfter
  <2> QED
    BY <1>0, <1>4, <2>1, <2>5
<1>13. ASSUME NEW r \in Workers, Records!Find(r)
       PROVE  Good
  <2>1. /\ recording'[r] = [recording[r] EXCEPT !.pc = "set", !.service = service] /\ OnlyRequest(r)
        /\ recording[r].pc = "find" /\ recording[r] \in RecordRequest
        /\ UNCHANGED <<agent, service, cached, slashes, entangled, recordFaults>>
    BY <1>13 DEF Records!Find, Records!At, RecordTypes, OnlyRequest, RecordsInv
  <2>2. recording'[r].pc = "set" /\ recording'[r].service = service
    BY <2>1 DEF RecordRequest
  <2>3. RecordHolds(recording[r])'
    BY <2>1, <2>2 DEF RecordHolds
  <2>4. ASSUME RecordsInTurn PROVE HoldsAfter(r)
    <3>1. \A q \in Workers : recording[q].pc # "forget"
      BY <2>1, <2>4 DEF RecordsInTurn, RecordAlone
    <3> QED
      BY <2>1, <2>3, <2>4, <3>1 DEF RecordsInTurn, HoldsAfter
  <2>5. recording[r].pc # "idle" /\ OnlyRequest(r) /\ UNCHANGED <<slashes, entangled>>
    BY <2>1
  <2> QED
    BY <1>4, <2>2, <2>4, <2>5
<1> QED
  BY <1>1, <1>2, <1>5, <1>6, <1>7, <1>8, <1>9, <1>10, <1>11, <1>12, <1>13 DEF Records!Next

LEMMA RecordsInvKept ==
    RecordsInv /\ [Records!Next]_recordVars => RecordsInv'
<1> SUFFICES ASSUME RecordsInv, [Records!Next]_recordVars PROVE RecordsInv'
  OBVIOUS
<1>1. RecordTypes'
  BY RecordsTyped DEF RecordsInv
<1> QED
  BY <1>1, RecordsKept, StakeKept, RequestsKept DEF RecordsInv

LEMMA RecordsBegin == Records!Init => RecordsInv
<1> SUFFICES ASSUME Records!Init PROVE RecordsInv
  OBVIOUS
<1>1. MaxFaults \in Nat /\ IsFiniteSet(Workers) /\ IsFiniteSet(Others)
  BY ServicesAssumption DEF WalletAssumption
<1>2. RecordTypes
  <2>1. Records!FirstAgent \in Records!Agent
    BY DEF Records!FirstAgent, Records!Agent
  <2>2. Records!FirstService \in Records!Service /\ Records!NotCached \in Records!Service
    BY DEF Records!FirstService, Records!NotCached, Records!Service
  <2>3. Records!NoRequest \in RecordRequest
    BY <2>1, <2>2 DEF Records!NoRequest, RecordRequest
  <2>4. /\ payment \in [Others -> {"NONE", "PENDING", "CONFIRMED", "FAILED"}]
        /\ recording \in [Workers -> RecordRequest]
    BY <2>3 DEF Records!Init
  <2>5. slashes \in 0..2 /\ entangled \in BOOLEAN /\ recordFaults \in 0..MaxFaults
    <3>1. slashes = 0 /\ entangled = FALSE /\ recordFaults = 0
      BY Zenon DEF Records!Init
    <3>2. entangled \in BOOLEAN
      BY <3>1, Zenon
    <3>3. slashes \in 0..2
      BY <3>1
    <3>4. recordFaults \in 0..MaxFaults
      BY <1>1, <3>1
    <3> QED
      BY <3>2, <3>3, <3>4
  <2>6. agent \in Records!Agent /\ service \in Records!Service /\ cached \in Records!Service
    BY <2>1, <2>2 DEF Records!Init
  <2> QED
    BY <2>4, <2>5, <2>6 DEF RecordTypes
<1>3. \A r \in Workers : recording[r].pc = "idle" /\ CountsIn(recording[r]) = "nothing"
  BY DEF Records!Init, Records!NoRequest, CountsIn
<1>4. AgentOwes = 0 /\ AgentOwesPaid = 0 /\ ServiceOwes = 0 /\ ServiceOwesPaid = 0
  <2>1. ASSUME NEW P, "nothing" \notin P
        PROVE  {r \in Workers : [q \in Workers |-> CountsIn(recording[q])][r] \in P} = {}
    BY <1>3, <2>1
  <2>2. ASSUME NEW P, "nothing" \notin P
        PROVE  Among(Workers, [q \in Workers |-> CountsIn(recording[q])], P) = 0
    BY <2>1, <2>2, FS_EmptySet DEF Among
  <2> QED
    BY <2>2 DEF AgentOwes, AgentOwesPaid, ServiceOwes, ServiceOwesPaid
<1>5. Ended = 0 /\ Confirmed = 0
  <2>1. {p \in Others : payment[p] \in {"CONFIRMED", "FAILED"}} = {}
        /\ {p \in Others : payment[p] \in {"CONFIRMED"}} = {}
    BY DEF Records!Init
  <2> QED
    BY <2>1, FS_EmptySet DEF Ended, Confirmed, Among
<1>6. RecordsLag
  BY <1>4, <1>5 DEF RecordsLag, Lags, Records!Init, Records!FirstAgent, Records!FirstService, AgentCounted
<1>7. RecordsInTurn
  BY <1>3 DEF RecordsInTurn, Records!Init, Records!FirstAgent, RecordHolds
<1> QED
  BY <1>2, <1>3, <1>6, <1>7 DEF RecordsInv, Records!Init, Records!FirstAgent

LEMMA RecordsAreExact == RecordsInv => Records!RecordsExact
<1> SUFFICES ASSUME RecordsInv PROVE Records!RecordsExact
  OBVIOUS
<1>1. /\ Ended \in Nat /\ Confirmed \in Nat /\ AgentCounted \in Int
      /\ AgentOwes \in Nat /\ AgentOwesPaid \in Nat /\ ServiceOwes \in Nat /\ ServiceOwesPaid \in Nat
      /\ agent.successful \in Nat /\ service.calls \in Nat /\ service.successful \in Nat
  BY CountsTypes DEF RecordsInv
<1>2. /\ Records!Recorded({"CONFIRMED", "FAILED"}) = Ended
      /\ Records!Recorded({"CONFIRMED"}) = Confirmed
  <2>1. \A S : Records!Cardinality(S) = Cardinality(S)
    BY DEF Records!Cardinality, Cardinality
  <2> QED
    BY <2>1 DEF Records!Recorded, Ended, Confirmed, Among
<1>3. ~Records!Busy(Workers) => /\ AgentOwes = 0 /\ AgentOwesPaid = 0
                                /\ ServiceOwes = 0 /\ ServiceOwesPaid = 0
  <2> SUFFICES ASSUME ~Records!Busy(Workers)
               PROVE  AgentOwes = 0 /\ AgentOwesPaid = 0 /\ ServiceOwes = 0 /\ ServiceOwesPaid = 0
    OBVIOUS
  <2>0. \A r \in Workers : CountsIn(recording[r]) = "nothing"
    BY DEF Records!Busy, Records!At, CountsIn
  <2>1. ASSUME NEW P, "nothing" \notin P
        PROVE  {r \in Workers : [q \in Workers |-> CountsIn(recording[q])][r] \in P} = {}
    BY <2>0, <2>1
  <2>2. ASSUME NEW P, "nothing" \notin P
        PROVE  Among(Workers, [q \in Workers |-> CountsIn(recording[q])], P) = 0
    BY <2>1, <2>2, FS_EmptySet DEF Among
  <2> QED
    BY <2>2 DEF AgentOwes, AgentOwesPaid, ServiceOwes, ServiceOwesPaid
<1>4. /\ Lags(recordFaults, AgentCounted, AgentOwes, Ended)
      /\ Lags(recordFaults, agent.successful, AgentOwesPaid, Confirmed)
      /\ Lags(recordFaults, service.calls, ServiceOwes, AgentCounted)
      /\ Lags(recordFaults, service.successful, ServiceOwesPaid, agent.successful)
  BY DEF RecordsInv, RecordsLag
<1>5. /\ service.calls <= AgentCounted /\ service.successful <= agent.successful
      /\ AgentCounted <= Ended /\ agent.successful <= Confirmed
  BY <1>1, <1>4 DEF Lags
<1>6. recordFaults = 0 /\ ~Records!Busy(Workers) =>
         service.calls = Ended /\ service.successful = Confirmed
  BY <1>1, <1>3, <1>4 DEF Lags
<1>7. agent.staked + agent.slashed = 2
  BY DEF RecordsInv
<1>8. entangled \/ /\ agent.staked >= 0 /\ agent.reputation <= 10000
                   /\ slashes = 0 => agent.reputation >= 0
                   /\ recordFaults = 0 /\ ~Records!Busy(Workers) => cached \in {service, Records!NotCached}
  BY DEF RecordsInv, RecordsInTurn, Records!Busy, Records!At
<1> QED
  BY <1>2, <1>5, <1>6, <1>7, <1>8 DEF Records!RecordsExact, AgentCounted

-----------------------------------------------------------------------------
\* What counts the faults stays within its bound.
LEMMA OneMoreFault ==
    \A m \in Nat : \A n \in 0..m : n < m => n + 1 # 0 /\ n + 1 \in 0..m
OBVIOUS

\* What a verification that is run for a service has come to, by the step that its run is
\* at: only what the service has answered leads to the flag, whatever throws; and without an
\* exception the row says what the run has done.
Answering == {"pass", "read", "expire", "flag"}
RunSound(v) ==
    /\ runner[v] \in Answering /\ verification[v].type = "VISA_TAP" => proven
    /\ runner[v] = "flag" => verification[v].type = "VISA_TAP"
    /\ verification[v].type = "NONE" =>
          /\ verification[v].status = "NONE" /\ verification[v].expires = "never"
          /\ runner[v] = "idle" /\ v \notin sweep

RowFollows(row0, at, flagged) ==
    /\ at # "catch"
    /\ at \in {"check", "pass", "fail"} => row0.status = "IN_PROGRESS" /\ row0.expires = "never"
    /\ at \in {"read", "expire"} => row0.status = "PASSED" /\ row0.expires = "never"
    /\ at = "flag" => row0.status = "PASSED" /\ row0.expires # "never"
    /\ at = "idle" =>
          /\ row0.status # "IN_PROGRESS"
          /\ (row0.status = "PASSED") = (row0.expires # "never")
          /\ row0.status = "PASSED" /\ row0.type = "VISA_TAP" => flagged

VerifyingInv ==
    /\ Verifying!TypeOK
    /\ visaTapVerified => proven
    /\ \A v \in Verifications : RunSound(v)
    /\ verificationFaults = 0 =>
          \A v \in Verifications : RowFollows(verification[v], runner[v], visaTapVerified)

\* What a step leaves of one verification
VerificationRow == [type: Verifying!Type \cup {"NONE"}, status: {"NONE", "IN_PROGRESS", "PASSED", "FAILED"},
                    expires: {"never", "later", "over"}]
RunPoint == {"idle", "check", "pass", "fail", "read", "expire", "flag", "catch"}
RowMoves(v, row0, to) ==
    /\ row0 \in VerificationRow /\ to \in RunPoint
    /\ verification' = [verification EXCEPT ![v] = row0]
    /\ runner' = [runner EXCEPT ![v] = to]

\* A step of one verification without an exception keeps the invariant when it does for the
\* verification itself.
LEMMA VerificationMoves ==
    ASSUME VerifyingInv, NEW v \in Verifications, NEW row0, NEW to, RowMoves(v, row0, to),
           UNCHANGED verificationFaults, sweep' \subseteq sweep, row0.type # "NONE",
           visaTapVerified' \in BOOLEAN, proven' \in BOOLEAN,
           visaTapVerified => visaTapVerified', proven => proven', visaTapVerified' => proven',
           to \in Answering /\ row0.type = "VISA_TAP" => proven',
           to = "flag" => row0.type = "VISA_TAP",
           verificationFaults = 0 => RowFollows(row0, to, visaTapVerified')
    PROVE  VerifyingInv'
<1>1. Verifying!TypeOK'
  BY DEF VerifyingInv, Verifying!TypeOK, RowMoves, VerificationRow, RunPoint
<1>2. /\ verification'[v] = row0 /\ runner'[v] = to
      /\ \A u \in Verifications \ {v} : verification'[u] = verification[u] /\ runner'[u] = runner[u]
  BY DEF VerifyingInv, Verifying!TypeOK, RowMoves
<1>3. \A u \in Verifications : RunSound(u)'
  BY <1>2 DEF VerifyingInv, RunSound
<1>4. verificationFaults' = 0 =>
         \A u \in Verifications : RowFollows(verification'[u], runner'[u], visaTapVerified')
  <2> SUFFICES ASSUME verificationFaults = 0, NEW u \in Verifications
               PROVE  RowFollows(verification'[u], runner'[u], visaTapVerified')
    OBVIOUS
  <2>1. CASE u = v
    BY <1>2, <2>1
  <2>2. CASE u # v
    <3>1. RowFollows(verification[u], runner[u], visaTapVerified)
      BY DEF VerifyingInv
    <3> QED
      BY <1>2, <2>2, <3>1 DEF RowFollows
  <2> QED
    BY <2>1, <2>2
<1>5. (visaTapVerified => proven)'
  OBVIOUS
<1> QED
  BY <1>1, <1>3, <1>4, <1>5 DEF VerifyingInv

LEMMA RowsAre ==
    ASSUME VerifyingInv, NEW v \in Verifications
    PROVE  verification[v] \in VerificationRow /\ runner[v] \in RunPoint
BY DEF VerifyingInv, Verifying!TypeOK, VerificationRow, RunPoint

\* What a step of one run says of its row
LEMMA RunMovesRow ==
    ASSUME VerifyingInv, NEW v \in Verifications, NEW from, NEW to, Verifying!Run(v, from, to), to \in RunPoint
    PROVE  /\ runner[v] = from /\ runner' = [runner EXCEPT ![v] = to]
           /\ UNCHANGED verification => RowMoves(v, verification[v], to)
           /\ \A x \in {"IN_PROGRESS", "PASSED", "FAILED"} :
                 Verifying!Write(v, "status", x) =>
                    RowMoves(v, [verification[v] EXCEPT !.status = x], to)
           /\ Verifying!Write(v, "expires", "later") =>
                 RowMoves(v, [verification[v] EXCEPT !.expires = "later"], to)
<1>1. runner[v] = from /\ runner' = [runner EXCEPT ![v] = to]
  BY DEF Verifying!Run
<1>2. verification[v] \in VerificationRow
  BY RowsAre
<1>3. ASSUME UNCHANGED verification PROVE RowMoves(v, verification[v], to)
  <2>1. verification' = [verification EXCEPT ![v] = verification[v]]
    BY <1>3 DEF VerifyingInv, Verifying!TypeOK
  <2> QED
    BY <1>1, <1>2, <2>1 DEF RowMoves
<1>4. ASSUME NEW x \in {"IN_PROGRESS", "PASSED", "FAILED"}, Verifying!Write(v, "status", x)
      PROVE  RowMoves(v, [verification[v] EXCEPT !.status = x], to)
  <2>1. [verification[v] EXCEPT !.status = x] \in VerificationRow
    BY <1>2 DEF VerificationRow
  <2>2. verification' = [verification EXCEPT ![v] = [verification[v] EXCEPT !.status = x]]
    BY <1>4 DEF Verifying!Write
  <2> QED
    BY <1>1, <2>1, <2>2 DEF RowMoves
<1>5. ASSUME Verifying!Write(v, "expires", "later")
      PROVE  RowMoves(v, [verification[v] EXCEPT !.expires = "later"], to)
  <2>1. [verification[v] EXCEPT !.expires = "later"] \in VerificationRow
    BY <1>2 DEF VerificationRow
  <2>2. verification' = [verification EXCEPT ![v] = [verification[v] EXCEPT !.expires = "later"]]
    BY <1>5 DEF Verifying!Write
  <2> QED
    BY <1>1, <2>1, <2>2 DEF RowMoves
<1> QED
  BY <1>1, <1>3, <1>4, <1>5

LEMMA VerifyingKept ==
    VerifyingInv /\ [Verifying!Next]_verificationVars => VerifyingInv'
<1> SUFFICES ASSUME VerifyingInv, [Verifying!Next]_verificationVars PROVE VerifyingInv'
  OBVIOUS
<1>0. ASSUME UNCHANGED verificationVars PROVE VerifyingInv'
  BY <1>0 DEF VerifyingInv, Verifying!TypeOK, RunSound, RowFollows, verificationVars
<1>t. visaTapVerified \in BOOLEAN /\ proven \in BOOLEAN /\ sweep \subseteq Verifications
  BY DEF VerifyingInv, Verifying!TypeOK
<1>f. verificationFaults \in 0..MaxFaults /\ MaxFaults \in Nat
  BY ServicesAssumption DEF VerifyingInv, Verifying!TypeOK, WalletAssumption
<1>1. ASSUME NEW v \in Verifications, NEW type \in Verifying!Type, Verifying!Create(v, type),
             UNCHANGED <<visaTapVerified, proven, verificationFaults>>, sweep' \subseteq sweep
      PROVE  VerifyingInv'
  <2> DEFINE row0 == [type |-> type, status |-> "IN_PROGRESS", expires |-> "never"]
  <2>1. row0 \in VerificationRow
    BY DEF VerificationRow
  <2>2. RowMoves(v, row0, "check")
    BY <1>1, <2>1 DEF RowMoves, RunPoint, Verifying!Create, Verifying!Run
  <2>3. RowFollows(row0, "check", visaTapVerified')
    BY DEF RowFollows
  <2>4. "check" \notin Answering
    BY DEF Answering
  <2>5. visaTapVerified => proven
    BY DEF VerifyingInv
  <2>6. row0.type # "NONE"
    BY DEF Verifying!Type
  <2> HIDE DEF row0
  <2> QED
    BY <1>1, <1>t, <2>6, <2>2, <2>3, <2>4, <2>5, VerificationMoves
<1>2. ASSUME NEW v \in Verifications, NEW type \in Verifying!Type, Verifying!Initiate(v, type)
      PROVE  VerifyingInv'
  BY <1>1, <1>2, <1>t DEF Verifying!Initiate
<1>3. ASSUME NEW v \in Verifications, Verifying!Reverify(v) PROVE VerifyingInv'
  <2>1. PICK u \in sweep : sweep' = sweep \ {u} /\ Verifying!Create(v, verification[u].type)
    BY <1>3 DEF Verifying!Reverify
  <2>2. verification[u].type \in Verifying!Type
    <3>1. RunSound(u) /\ u \in Verifications
      BY <1>t DEF VerifyingInv
    <3>2. verification[u].type \in Verifying!Type \cup {"NONE"}
      BY <3>1, RowsAre DEF VerificationRow
    <3> QED
      BY <3>1, <3>2 DEF RunSound
  <2>3. sweep' \subseteq sweep /\ UNCHANGED <<visaTapVerified, proven, verificationFaults>>
    BY <1>3, <2>1 DEF Verifying!Reverify
  <2> QED
    BY <1>1, <2>1, <2>2, <2>3
<1>v. ASSUME NEW v \in Verifications
      PROVE  /\ verification[v] \in VerificationRow /\ RunSound(v)
             /\ verificationFaults = 0 => RowFollows(verification[v], runner[v], visaTapVerified)
             /\ visaTapVerified => proven
  BY RowsAre DEF VerifyingInv
\* A run that goes on
<1>4. ASSUME NEW v \in Verifications, Verifying!Check(v) PROVE VerifyingInv'
  <2>1. PICK a \in MCAnswers : /\ Verifying!Run(v, "check", IF Verifying!Passed(verification[v].type, a)
                                                           THEN "pass" ELSE "fail")
                               /\ proven' = (proven \/ Verifying!ServesVisaTap(a))
    BY <1>4 DEF Verifying!Check
  <2>2. PICK to \in {"pass", "fail"} :
           /\ Verifying!Run(v, "check", to)
           /\ to = "pass" /\ verification[v].type = "VISA_TAP" => Verifying!ServesVisaTap(a)
    <3>1. verification[v].type = "VISA_TAP" =>
             (Verifying!Passed(verification[v].type, a) <=> Verifying!ServesVisaTap(a))
      BY DEF Verifying!Passed
    <3> QED
      BY <2>1, <3>1
  <2>3. RowMoves(v, verification[v], to) /\ runner[v] = "check"
    BY <1>4, <2>2, RunMovesRow DEF Verifying!Check, RunPoint
  <2>4. /\ to \in Answering /\ verification[v].type = "VISA_TAP" => proven'
        /\ proven' \in BOOLEAN /\ (proven => proven')
    BY <1>t, <2>1, <2>2 DEF Answering, Verifying!ServesVisaTap
  <2>5. verification[v].type # "NONE"
    BY <1>v, <2>3 DEF RunSound
  <2>6. verificationFaults = 0 => RowFollows(verification[v], to, visaTapVerified')
    BY <1>4, <1>v, <2>2, <2>3 DEF RowFollows, Verifying!Check
  <2>7. UNCHANGED <<visaTapVerified, sweep, verificationFaults>>
    BY <1>4 DEF Verifying!Check
  <2> QED
    BY <1>t, <1>v, <2>2, <2>3, <2>4, <2>5, <2>6, <2>7, VerificationMoves
\* One whose row and flag follow
<1>5. ASSUME NEW v \in Verifications, NEW to \in RunPoint, NEW row0,
             RowMoves(v, row0, to), runner[v] # "idle", row0.type = verification[v].type,
             runner[v] \in Answering \/ to \notin Answering, to = "flag" => row0.type = "VISA_TAP",
             UNCHANGED <<visaTapVerified, sweep, proven, verificationFaults>>,
             verificationFaults = 0 => RowFollows(row0, to, visaTapVerified)
      PROVE  VerifyingInv'
  <2>1. row0.type # "NONE" /\ (to \in Answering /\ row0.type = "VISA_TAP" => proven)
    BY <1>5, <1>v DEF RunSound
  <2> QED
    BY <1>5, <1>t, <1>v, <2>1, VerificationMoves
<1>6. ASSUME NEW v \in Verifications, Verifying!WriteVerdict(v) PROVE VerifyingInv'
  <2>0. UNCHANGED <<visaTapVerified, sweep, proven, verificationFaults>>
    BY <1>6 DEF Verifying!WriteVerdict
  <2>1. CASE Verifying!Run(v, "pass", "read") /\ Verifying!Write(v, "status", "PASSED")
    <3> DEFINE row0 == [verification[v] EXCEPT !.status = "PASSED"]
    <3>1. RowMoves(v, row0, "read") /\ runner[v] = "pass"
      BY <2>1, RunMovesRow DEF RunPoint
    <3>2. /\ row0.type = verification[v].type /\ row0.status = "PASSED"
          /\ row0.expires = verification[v].expires
      BY <1>v DEF VerificationRow
    <3> HIDE DEF row0
    <3>3. verificationFaults = 0 => RowFollows(row0, "read", visaTapVerified)
      BY <1>v, <3>1, <3>2 DEF RowFollows
    <3> QED
      BY <1>5, <2>0, <3>1, <3>2, <3>3 DEF Answering, RunPoint
  <2>2. CASE Verifying!Run(v, "fail", "idle") /\ Verifying!Write(v, "status", "FAILED")
    <3> DEFINE row0 == [verification[v] EXCEPT !.status = "FAILED"]
    <3>1. RowMoves(v, row0, "idle") /\ runner[v] = "fail"
      BY <2>2, RunMovesRow DEF RunPoint
    <3>2. /\ row0.type = verification[v].type /\ row0.status = "FAILED"
          /\ row0.expires = verification[v].expires
      BY <1>v DEF VerificationRow
    <3> HIDE DEF row0
    <3>3. verificationFaults = 0 => RowFollows(row0, "idle", visaTapVerified)
      BY <1>v, <3>1, <3>2 DEF RowFollows
    <3> QED
      BY <1>5, <2>0, <3>1, <3>2, <3>3 DEF Answering, RunPoint
  <2> QED
    BY <1>6, <2>1, <2>2 DEF Verifying!WriteVerdict
<1>7. ASSUME NEW v \in Verifications, Verifying!ReadVerdict(v) PROVE VerifyingInv'
  <2>1. PICK to \in {"expire", "idle"} :
           Verifying!Run(v, "read", to) /\ (verification[v].status = "PASSED" => to = "expire")
    BY <1>7 DEF Verifying!ReadVerdict
  <2>2. RowMoves(v, verification[v], to) /\ runner[v] = "read" /\ to \in RunPoint
    BY <1>7, <2>1, RunMovesRow DEF Verifying!ReadVerdict, RunPoint
  <2>3. verificationFaults = 0 => RowFollows(verification[v], to, visaTapVerified)
    BY <1>v, <2>1, <2>2 DEF RowFollows
  <2> QED
    BY <1>5, <1>7, <2>1, <2>2, <2>3 DEF Answering, Verifying!ReadVerdict
<1>8. ASSUME NEW v \in Verifications, Verifying!SetExpiry(v) PROVE VerifyingInv'
  <2> DEFINE row0 == [verification[v] EXCEPT !.expires = "later"]
  <2>1. PICK to \in {"flag", "idle"} :
           Verifying!Run(v, "expire", to) /\ (to = "flag" <=> verification[v].type = "VISA_TAP")
    BY <1>8 DEF Verifying!SetExpiry
  <2>2. RowMoves(v, row0, to) /\ runner[v] = "expire" /\ to \in RunPoint
    BY <1>8, <2>1, RunMovesRow DEF Verifying!SetExpiry, RunPoint
  <2>3. /\ row0.type = verification[v].type /\ row0.status = verification[v].status
        /\ row0.expires = "later"
    BY <1>v DEF VerificationRow
  <2> HIDE DEF row0
  <2>4. verificationFaults = 0 => RowFollows(row0, to, visaTapVerified)
    BY <1>v, <2>1, <2>2, <2>3 DEF RowFollows
  <2> QED
    BY <1>5, <1>8, <2>1, <2>2, <2>3, <2>4 DEF Answering, Verifying!SetExpiry
<1>9. ASSUME NEW v \in Verifications, Verifying!SetVisaTapVerified(v) PROVE VerifyingInv'
  <2>1. /\ Verifying!Run(v, "flag", "idle") /\ visaTapVerified' = TRUE
        /\ UNCHANGED <<verification, sweep, proven, verificationFaults>>
    BY <1>9 DEF Verifying!SetVisaTapVerified
  <2>2. RowMoves(v, verification[v], "idle") /\ runner[v] = "flag"
    BY <2>1, RunMovesRow DEF RunPoint
  <2>3. verification[v].type = "VISA_TAP" /\ proven
    BY <1>v, <2>2 DEF RunSound, Answering
  <2>4. verificationFaults = 0 => RowFollows(verification[v], "idle", visaTapVerified')
    BY <1>v, <2>1, <2>2 DEF RowFollows
  <2> QED
    BY <1>t, <2>1, <2>2, <2>3, <2>4, VerificationMoves DEF Answering
<1>10. ASSUME NEW v \in Verifications, Verifying!Catch(v) PROVE VerifyingInv'
  <2> DEFINE row0 == [verification[v] EXCEPT !.status = "FAILED"]
  <2>0. UNCHANGED <<visaTapVerified, sweep, proven, verificationFaults>>
    BY <1>10 DEF Verifying!Catch
  <2>1. RowMoves(v, row0, "idle") /\ runner[v] = "catch"
    BY <1>10, RunMovesRow DEF Verifying!Catch, RunPoint
  <2>2. row0.type = verification[v].type
    BY <1>v DEF VerificationRow
  <2> HIDE DEF row0
  <2>3. verificationFaults # 0
    BY <1>v, <2>1 DEF RowFollows
  <2> QED
    BY <1>5, <2>0, <2>1, <2>2, <2>3 DEF Answering, RunPoint
<1>11. ASSUME NEW v \in Verifications, Verifying!Expire(v) PROVE VerifyingInv'
  <2> DEFINE row0 == [verification[v] EXCEPT !.expires = "over"]
  <2>1. /\ verification[v].expires = "later" /\ Verifying!Write(v, "expires", "over")
        /\ UNCHANGED <<visaTapVerified, runner, sweep, proven, verificationFaults>>
    BY <1>11 DEF Verifying!Expire
  <2>2. /\ row0 \in VerificationRow
        /\ row0.type = verification[v].type /\ row0.status = verification[v].status
        /\ row0.expires = "over"
    BY <1>v DEF VerificationRow
  <2>3. RowMoves(v, row0, runner[v])
    <3>1. runner' = [runner EXCEPT ![v] = runner[v]] /\ runner[v] \in RunPoint
      BY <2>1 DEF VerifyingInv, Verifying!TypeOK, RunPoint
    <3> QED
      BY <2>1, <2>2, <3>1 DEF RowMoves, Verifying!Write
  <2> HIDE DEF row0
  <2>4. row0.type # "NONE" /\ (runner[v] = "flag" => row0.type = "VISA_TAP")
        /\ (runner[v] \in Answering /\ row0.type = "VISA_TAP" => proven)
    BY <1>v, <2>1, <2>2 DEF RunSound
  <2>5. verificationFaults = 0 => RowFollows(row0, runner[v], visaTapVerified)
    BY <1>v, <2>1, <2>2 DEF RowFollows
  <2> QED
    BY <1>t, <1>v, <2>1, <2>2, <2>3, <2>4, <2>5, VerificationMoves
<1>12. ASSUME NEW v \in Verifications, Verifying!Throw(v) PROVE VerifyingInv'
  <2>1. /\ runner[v] \notin {"idle", "check", "catch"} /\ Verifying!Fault
        /\ runner' = [runner EXCEPT ![v] = "catch"] /\ UNCHANGED <<sweep, proven>>
    BY <1>12 DEF Verifying!Throw
  <2>2. verificationFaults' # 0 /\ verificationFaults' \in 0..MaxFaults
    BY <1>f, <2>1, OneMoreFault, Zenon DEF Verifying!Fault
  <2>3. /\ visaTapVerified' \in BOOLEAN /\ (visaTapVerified' => proven)
        /\ \/ UNCHANGED verification
           \/ Verifying!Write(v, "expires", "later") /\ runner[v] = "expire"
    <3>1. CASE UNCHANGED <<verification, visaTapVerified>>
      BY <1>t, <1>v, <3>1
    <3>2. CASE runner[v] = "expire" /\ Verifying!Write(v, "expires", "later") /\ UNCHANGED visaTapVerified
      BY <1>t, <1>v, <3>2
    <3>3. CASE runner[v] = "flag" /\ visaTapVerified' = TRUE /\ UNCHANGED verification
      BY <1>v, <3>3 DEF RunSound, Answering
    <3> QED
      BY <1>12, <3>1, <3>2, <3>3 DEF Verifying!Throw
  <2>4. /\ verification' \in [Verifications -> VerificationRow]
        /\ \A u \in Verifications : verification'[u].type = verification[u].type
        /\ \A u \in Verifications \ {v} : verification'[u] = verification[u]
    <3>1. CASE UNCHANGED verification
      BY <3>1, RowsAre DEF VerifyingInv, Verifying!TypeOK, VerificationRow
    <3>2. CASE Verifying!Write(v, "expires", "later")
      <4> DEFINE row0 == [verification[v] EXCEPT !.expires = "later"]
      <4>1. row0 \in VerificationRow /\ row0.type = verification[v].type
        BY <1>v DEF VerificationRow
      <4>2. verification' = [verification EXCEPT ![v] = row0]
        BY <3>2 DEF Verifying!Write
      <4> HIDE DEF row0
      <4> QED
        BY <4>1, <4>2 DEF VerifyingInv, Verifying!TypeOK, VerificationRow
    <3> QED
      BY <2>3, <3>1, <3>2
  <2>5. Verifying!TypeOK'
    BY <1>t, <2>1, <2>2, <2>3, <2>4 DEF VerifyingInv, Verifying!TypeOK, VerificationRow
  <2>6. \A u \in Verifications : RunSound(u)'
    <3> SUFFICES ASSUME NEW u \in Verifications PROVE RunSound(u)'
      OBVIOUS
    <3>1. RunSound(u) /\ (u = v \/ u # v)
      BY <1>v
    <3>2. runner \in [Verifications -> RunPoint]
      BY DEF VerifyingInv, Verifying!TypeOK, RunPoint
    <3>3. CASE u = v
      <4>1. runner'[v] = "catch" /\ verification'[v].type = verification[v].type
            /\ verification[v].type # "NONE"
        BY <1>v, <2>1, <2>4, <3>2 DEF RunSound
      <4> QED
        BY <3>3, <4>1 DEF RunSound, Answering
    <3>4. CASE u # v
      <4>1. runner'[u] = runner[u] /\ verification'[u] = verification[u]
        BY <2>1, <2>4, <3>2, <3>4
      <4> QED
        BY <2>1, <3>1, <4>1 DEF RunSound
    <3> QED
      BY <3>3, <3>4
  <2>7. (visaTapVerified => proven)'
    BY <2>1, <2>3
  <2> QED
    BY <2>2, <2>5, <2>6, <2>7 DEF VerifyingInv
<1>13. ASSUME Verifying!Find PROVE VerifyingInv'
  <2>1. /\ sweep' = Verifying!Due
        /\ UNCHANGED <<verification, visaTapVerified, runner, proven, verificationFaults>>
    BY <1>13 DEF Verifying!Find
  <2>2. Verifying!TypeOK'
    BY <2>1 DEF VerifyingInv, Verifying!TypeOK, Verifying!Due
  <2>3. \A u \in Verifications : RunSound(u)'
    BY <1>v, <2>1 DEF RunSound, Verifying!Due
  <2>4. verificationFaults' = 0 =>
           \A u \in Verifications : RowFollows(verification[u], runner[u], visaTapVerified)'
    BY <1>v, <2>1 DEF RowFollows
  <2> QED
    BY <2>1, <2>2, <2>3, <2>4 DEF VerifyingInv
<1>14. ASSUME Verifying!Restart PROVE VerifyingInv'
  <2>1. /\ runner' = [u \in Verifications |-> "idle"] /\ sweep' = {} /\ Verifying!Fault
        /\ UNCHANGED <<verification, visaTapVerified, proven>>
    BY <1>14 DEF Verifying!Restart
  <2>2. verificationFaults' # 0 /\ verificationFaults' \in 0..MaxFaults
    BY <1>f, <2>1, OneMoreFault, Zenon DEF Verifying!Fault
  <2>3. Verifying!TypeOK'
    BY <2>1, <2>2 DEF VerifyingInv, Verifying!TypeOK
  <2>4. \A u \in Verifications : RunSound(u)'
    BY <1>v, <2>1 DEF RunSound, Answering
  <2> QED
    BY <2>1, <2>2, <2>3, <2>4 DEF VerifyingInv
<1> QED
  BY <1>0, <1>2, <1>3, <1>4, <1>6, <1>7, <1>8, <1>9, <1>10, <1>11, <1>12, <1>13, <1>14
     DEF Verifying!Next

LEMMA VerifyingBegins == Verifying!Init => VerifyingInv
<1> SUFFICES ASSUME Verifying!Init PROVE VerifyingInv
  OBVIOUS
<1>1. MaxFaults \in Nat
  BY ServicesAssumption DEF WalletAssumption
<1>2. Verifying!TypeOK
  <2>1. verificationFaults \in 0..MaxFaults
    <3>1. verificationFaults = 0
      BY DEF Verifying!Init
    <3> QED
      BY <1>1, <3>1
  <2>2. runner = [v \in Verifications |-> "idle"] /\ visaTapVerified = FALSE /\ proven = FALSE
        /\ sweep = {}
    BY DEF Verifying!Init
  <2>3. visaTapVerified \in BOOLEAN /\ proven \in BOOLEAN
    BY <2>2, Zenon
  <2>4. verification \in [Verifications ->
            [type: Verifying!Type \cup {"NONE"}, status: {"NONE", "IN_PROGRESS", "PASSED", "FAILED"},
             expires: {"never", "later", "over"}]]
    BY DEF Verifying!Init, Verifying!NoVerification
  <2>5. sweep \subseteq Verifications /\ runner \in [Verifications -> RunPoint]
    BY <2>2 DEF RunPoint
  <2> QED
    BY <2>1, <2>3, <2>4, <2>5 DEF Verifying!TypeOK, RunPoint
<1>3. \A v \in Verifications : RunSound(v) /\ RowFollows(verification[v], runner[v], visaTapVerified)
  BY DEF Verifying!Init, Verifying!NoVerification, RunSound, RowFollows, Answering
<1> QED
  BY <1>2, <1>3 DEF VerifyingInv, Verifying!Init

LEMMA VerifiedProven == VerifyingInv => Verifying!VerifiedWasProven
BY DEF VerifyingInv, RowFollows, Verifying!VerifiedWasProven

-----------------------------------------------------------------------------
\* The larger of two fractions stays so when both are bounded.
LEMMA MoreTimes ==
    /\ \A a, b \in Int, v \in Nat : a >= b => a * v >= b * v
    /\ \A a, b \in Int, v \in Nat \ {0} : a * v > b * v => a > b
    /\ \A a \in Int, v \in Nat : a >= 0 => a * v >= 0
<1>1. \A a, b \in Int, v \in Nat : a >= b => a * v >= b * v
  <2> SUFFICES ASSUME NEW a \in Int, NEW b \in Int, NEW v \in Nat, a >= b PROVE a * v >= b * v
    OBVIOUS
  <2>1. (a - b) * v >= 0
    OBVIOUS
  <2>2. (a - b) * v = a * v - b * v
    OBVIOUS
  <2> QED
    BY <2>1, <2>2
<1>2. \A a, b \in Int, v \in Nat \ {0} : a * v > b * v => a > b
  <2> SUFFICES ASSUME NEW a \in Int, NEW b \in Int, NEW v \in Nat \ {0}, ~(a > b) PROVE ~(a * v > b * v)
    OBVIOUS
  <2>1. b * v >= a * v
    BY <1>1
  <2> QED
    BY <2>1
<1>3. \A a \in Int, v \in Nat : a >= 0 => a * v >= 0
  OBVIOUS
<1> QED
  BY <1>1, <1>2, <1>3

LEMMA ClampKeepsOrder ==
    ASSUME NEW a \in Int, NEW b \in Int, NEW v \in Nat \ {0}, NEW w \in Nat \ {0},
           a * w >= b * v
    PROVE  Facilitator!Clamp(a, 10000 * v) * w >= Facilitator!Clamp(b, 10000 * w) * v
<1> DEFINE p == Facilitator!Clamp(a, 10000 * v)
           q == Facilitator!Clamp(b, 10000 * w)
<1>1. /\ p \in Nat /\ q \in Nat
      /\ a >= 0 /\ a <= 10000 * v => p = a
      /\ a > 10000 * v => p = 10000 * v
      /\ b < 0 => q = 0
      /\ b >= 0 /\ b <= 10000 * w => q = b
      /\ b > 10000 * w => q = 10000 * w
  BY DEF Facilitator!Clamp
<1>2. (10000 * v) * w = (10000 * w) * v
  OBVIOUS
<1> HIDE DEF p, q
<1>3. p * w \in Int /\ q * v \in Int /\ p * w >= 0
  BY <1>1, MoreTimes
<1>4. CASE b < 0
  <2>1. q * v = 0
    BY <1>1, <1>4
  <2> QED
    BY <1>3, <2>1 DEF p, q
<1>5. CASE b > 10000 * w
  <2>1. b * v > (10000 * w) * v
    <3>1. b >= 10000 * w + 1
      BY <1>5
    <3>2. b * v >= (10000 * w + 1) * v
      BY <3>1, MoreTimes
    <3>3. (10000 * w + 1) * v = (10000 * w) * v + v
      OBVIOUS
    <3> QED
      BY <3>2, <3>3
  <2>2. a * w > (10000 * v) * w
    BY <1>2, <2>1
  <2>3. a > 10000 * v
    BY <2>2, MoreTimes
  <2> QED
    BY <1>1, <1>2, <1>5, <2>3 DEF p, q
<1>6. CASE b >= 0 /\ b <= 10000 * w
  <2>1. a * w >= 0
    BY <1>6, MoreTimes
  <2>2. a >= 0
    <3> SUFFICES ASSUME ~(a >= 0) PROVE FALSE
      OBVIOUS
    <3>1. -1 >= a
      OBVIOUS
    <3>2. (-1) * w >= a * w
      BY <3>1, MoreTimes
    <3> QED
      BY <2>1, <3>2
  <2>3. (10000 * w) * v >= b * v
    BY <1>6, MoreTimes
  <2>4. CASE a <= 10000 * v
    BY <1>1, <1>6, <2>2, <2>4 DEF p, q
  <2>5. CASE a > 10000 * v
    BY <1>1, <1>2, <1>6, <2>3, <2>5 DEF p, q
  <2> QED
    BY <2>4, <2>5
<1> QED
  BY <1>4, <1>5, <1>6

-----------------------------------------------------------------------------
\* The reputation of a service with c confirmed, f failed and n transactions in all,
\* times n, before it is bounded
PlainScore(c, f) == 5000 + 10 * c - 50 * f
Missing(c, n) == 90 * n - 100 * c
Penalty(c, n) == IF Missing(c, n) > 0 /\ n > 10 THEN 10 * Missing(c, n) ELSE 0
Unbounded(c, f, n) == (IF n = 0 THEN 1 ELSE n) * PlainScore(c, f) - Penalty(c, n)

LEMMA ScoreIs ==
    ASSUME NEW r \in [{"confirmed", "failed", "other"} -> Nat]
    PROVE  /\ Facilitator!Score(r) = Facilitator!Clamp(
                  Unbounded(r["confirmed"], r["failed"], Facilitator!Total(r)),
                  10000 * Facilitator!Weight(r))
           /\ Facilitator!Total(r) \in Nat /\ Facilitator!Weight(r) \in Nat \ {0}
           /\ Facilitator!Weight(r) = IF Facilitator!Total(r) = 0 THEN 1 ELSE Facilitator!Total(r)
BY DEF Facilitator!Score, Unbounded, PlainScore, Missing, Penalty, Facilitator!Total, Facilitator!Weight

\* What one more failed, and one more confirmed transaction make of it
LEMMA FailedIsLess ==
    ASSUME NEW c \in Nat, NEW f \in Nat, NEW n \in Nat \ {0}
    PROVE  Unbounded(c, f, n) * (n + 1) >= Unbounded(c, f + 1, n + 1) * n
<1> DEFINE P == PlainScore(c, f)
           k == Penalty(c, n)
           l == Penalty(c, n + 1)
<1>1. P \in Int /\ k \in Nat /\ l \in Nat /\ PlainScore(c, f + 1) = P - 50
  BY DEF PlainScore, Penalty, Missing
<1>2. Unbounded(c, f, n) = n * P - k /\ Unbounded(c, f + 1, n + 1) = (n + 1) * (P - 50) - l
  BY <1>1 DEF Unbounded
<1>3. l * n >= k * (n + 1)
  <2>1. CASE k = 0
    BY <1>1, <2>1, MoreTimes
  <2>2. CASE k # 0
    <3>1. k = 900 * n - 1000 * c /\ n > 10
      BY <2>2 DEF Penalty, Missing
    <3>2. l = 900 * n + 900 - 1000 * c
      BY <3>1 DEF Penalty, Missing
    <3>3. l * n = (900 * n) * n + 900 * n - 1000 * (c * n)
      BY <3>2
    <3>4. k * (n + 1) = (900 * n) * n + 900 * n - 1000 * (c * n) - 1000 * c
      BY <3>1
    <3>5. (900 * n) * n \in Int /\ c * n \in Int
      OBVIOUS
    <3> QED
      BY <3>3, <3>4, <3>5
  <2> QED
    BY <2>1, <2>2
<1> HIDE DEF P, k, l
<1>4. (n * P - k) * (n + 1) = (n * P) * (n + 1) - k * (n + 1)
  BY <1>1
<1>5. ((n + 1) * (P - 50) - l) * n = (n * P) * (n + 1) - 50 * (n * n) - 50 * n - l * n
  BY <1>1
<1>6. n * n \in Nat /\ (n * P) * (n + 1) \in Int /\ l * n \in Int /\ k * (n + 1) \in Int
  BY <1>1
<1> QED
  BY <1>2, <1>3, <1>4, <1>5, <1>6

LEMMA ConfirmedIsMore ==
    ASSUME NEW c \in Nat, NEW f \in Nat, NEW n \in Nat \ {0}, n # 10
    PROVE  Unbounded(c + 1, f, n + 1) * n >= Unbounded(c, f, n) * (n + 1)
<1> DEFINE P == PlainScore(c, f)
           k == Penalty(c, n)
           l == Penalty(c + 1, n + 1)
<1>1. P \in Int /\ k \in Nat /\ l \in Nat /\ PlainScore(c + 1, f) = P + 10
  BY DEF PlainScore, Penalty, Missing
<1>2. Unbounded(c, f, n) = n * P - k /\ Unbounded(c + 1, f, n + 1) = (n + 1) * (P + 10) - l
  BY <1>1 DEF Unbounded
<1>3. k * (n + 1) >= l * n
  <2>1. k >= l
    BY DEF Penalty, Missing
  <2>2. k * n >= l * n
    BY <1>1, <2>1, MoreTimes
  <2>3. k * (n + 1) = k * n + k
    BY <1>1
  <2> HIDE DEF P, k, l
  <2>4. k * n \in Int /\ l * n \in Int
    BY <1>1
  <2> QED
    BY <1>1, <2>2, <2>3, <2>4
<1> HIDE DEF P, k, l
<1>4. (n * P - k) * (n + 1) = (n * P) * (n + 1) - k * (n + 1)
  BY <1>1
<1>5. ((n + 1) * (P + 10) - l) * n = (n * P) * (n + 1) + 10 * (n * n) + 10 * n - l * n
  BY <1>1
<1>6. n * n \in Nat /\ (n * P) * (n + 1) \in Int /\ l * n \in Int /\ k * (n + 1) \in Int
  BY <1>1
<1> QED
  BY <1>2, <1>3, <1>4, <1>5, <1>6

\* A reputation follows what becomes of the transactions.
LEMMA ReputationFollows ==
    ASSUME NEW r \in [{"confirmed", "failed", "other"} -> Nat]
    PROVE  /\ Facilitator!NoLower(Facilitator!One(r, "failed"), r)
           /\ Facilitator!Total(r) # 10 => Facilitator!NoLower(r, Facilitator!One(r, "confirmed"))
<1> DEFINE c == r["confirmed"]
           f == r["failed"]
           n == Facilitator!Total(r)
           s == Facilitator!One(r, "failed")
           t == Facilitator!One(r, "confirmed")
<1>1. /\ c \in Nat /\ f \in Nat /\ n \in Nat
      /\ s \in [{"confirmed", "failed", "other"} -> Nat] /\ t \in [{"confirmed", "failed", "other"} -> Nat]
      /\ s["confirmed"] = c /\ s["failed"] = f + 1 /\ Facilitator!Total(s) = n + 1
      /\ t["confirmed"] = c + 1 /\ t["failed"] = f /\ Facilitator!Total(t) = n + 1
  BY DEF Facilitator!One, Facilitator!Total
<1>2. /\ Facilitator!Score(r) = Facilitator!Clamp(Unbounded(c, f, n), 10000 * Facilitator!Weight(r))
      /\ Facilitator!Weight(r) = IF n = 0 THEN 1 ELSE n
  BY ScoreIs
<1> HIDE DEF s, t, c, f, n
<1>3. /\ Facilitator!Score(s) = Facilitator!Clamp(Unbounded(c, f + 1, n + 1), 10000 * Facilitator!Weight(s))
      /\ Facilitator!Score(t) = Facilitator!Clamp(Unbounded(c + 1, f, n + 1), 10000 * Facilitator!Weight(t))
      /\ Facilitator!Weight(s) = n + 1 /\ Facilitator!Weight(t) = n + 1
  <2>1. n + 1 # 0
    BY <1>1
  <2> QED
    BY <1>1, <2>1, ScoreIs
<1>4. /\ Unbounded(c, f, n) \in Int /\ Unbounded(c, f + 1, n + 1) \in Int
      /\ Unbounded(c + 1, f, n + 1) \in Int
  BY <1>1 DEF Unbounded, PlainScore, Penalty, Missing
<1>5. CASE n = 0
  <2>1. c = 0 /\ f = 0
    BY <1>5 DEF c, f, n, Facilitator!Total
  <2>2. /\ Unbounded(c, f, n) = 5000 /\ Unbounded(c, f + 1, n + 1) = 4950
        /\ Unbounded(c + 1, f, n + 1) = 5010
    BY <1>5, <2>1 DEF Unbounded, PlainScore, Penalty, Missing
  <2>3. /\ Facilitator!Weight(r) = 1 /\ Facilitator!Weight(s) = 1 /\ Facilitator!Weight(t) = 1
        /\ Facilitator!Score(r) = 5000 /\ Facilitator!Score(s) = 4950 /\ Facilitator!Score(t) = 5010
    BY <1>2, <1>3, <1>5, <2>2 DEF Facilitator!Clamp
  <2> QED
    BY <2>3 DEF Facilitator!NoLower, s, t
<1>6. CASE n # 0
  <2>1. n \in Nat \ {0} /\ n + 1 \in Nat \ {0} /\ Facilitator!Weight(r) = n
    BY <1>1, <1>2, <1>6
  <2>2. Facilitator!NoLower(s, r)
    <3>1. Unbounded(c, f, n) * (n + 1) >= Unbounded(c, f + 1, n + 1) * n
      BY <1>1, <2>1, FailedIsLess
    <3> QED
      BY <1>2, <1>3, <1>4, <2>1, <3>1, ClampKeepsOrder DEF Facilitator!NoLower
  <2>3. n # 10 => Facilitator!NoLower(r, t)
    <3> SUFFICES ASSUME n # 10 PROVE Facilitator!NoLower(r, t)
      OBVIOUS
    <3>1. Unbounded(c + 1, f, n + 1) * n >= Unbounded(c, f, n) * (n + 1)
      BY <1>1, <2>1, ConfirmedIsMore
    <3> QED
      BY <1>2, <1>3, <1>4, <2>1, <3>1, ClampKeepsOrder DEF Facilitator!NoLower
  <2> QED
    BY <2>2, <2>3 DEF s, t, n
<1> QED
  BY <1>5, <1>6

-----------------------------------------------------------------------------
\* The facilitator's route and preferences: as long as its requests do not cross, at most one
\* of them is about the route, and once it has been completed neither the route nor what a
\* request has read of it is without its signature.
RouteStates == [status: Facilitator!Statuses, signed: BOOLEAN, left: 0..2]
RouteCalls == [pc: {"idle", "execute", "complete", "executeCounts", "completeCounts", "create"},
               read: RouteStates]
FacilitatorTypes ==
    /\ about \in {"route", "preferences", "reputation"}
    /\ routed \in RouteStates
    /\ caller \in [Workers -> RouteCalls]
    /\ counted \in [Facilitator!Counters -> 0..MaxStats]
    /\ finished \in 0..MaxStats
    /\ rerouted \in BOOLEAN
    /\ preferences \in {"none", "default"} \cup Others
    /\ put \in {"none"} \cup Others
    /\ volume \in [{"confirmed", "failed", "other"} -> 0..12]
    /\ callerFaults \in 0..MaxExceptions

LEMMA FacilitatorTypesAre == Facilitator!TypeOK <=> FacilitatorTypes
BY DEF Facilitator!TypeOK, FacilitatorTypes, RouteCalls, RouteStates

AboutRoute(z) == z.pc \in {"execute", "complete", "executeCounts", "completeCounts"}
SignedOnce(status, signed) == status # "none" /\ (status \in Facilitator!Kept => signed)
RoutesInTurn ==
    /\ \A c, d \in Workers : AboutRoute(caller[c]) /\ AboutRoute(caller[d]) => c = d
    /\ \A c \in Workers : caller[c].pc = "execute" => caller[c].read.status \in Facilitator!Kept
    /\ finished > 0 =>
          /\ SignedOnce(routed.status, routed.signed)
          /\ \A c \in Workers : caller[c].pc = "execute" => caller[c].read.signed

FacilitatorInv ==
    /\ FacilitatorTypes
    /\ rerouted \/ RoutesInTurn
    /\ put # "none" => preferences = put

LEMMA FacilitatorConstants ==
    /\ MaxStats \in Nat /\ MaxExceptions \in Nat
    /\ Facilitator!NoRoute \in RouteStates /\ Facilitator!NoCall \in RouteCalls
    /\ Facilitator!NoCall.pc = "idle"
<1>1. MaxStats \in Nat /\ MaxExceptions \in Nat
  BY ServicesAssumption DEF Facilitator!RecordsAssumption
<1>2. Facilitator!NoRoute \in RouteStates
  BY DEF Facilitator!NoRoute, RouteStates, Facilitator!Statuses
<1> QED
  BY <1>1, <1>2 DEF Facilitator!NoCall, RouteCalls

\* What a step of one request makes of it
CallerMoves(c, z) == z \in RouteCalls /\ caller' = [caller EXCEPT ![c] = z]

LEMMA CallerSteps ==
    ASSUME FacilitatorTypes, NEW c \in Workers
    PROVE  /\ caller[c] \in RouteCalls
           /\ Facilitator!Return(c) => CallerMoves(c, Facilitator!NoCall)
           /\ \A pc \in {"executeCounts", "completeCounts", "create"} :
                 Facilitator!Goto(c, pc) => CallerMoves(c, [caller[c] EXCEPT !.pc = pc])
<1>1. caller[c] \in RouteCalls
  BY DEF FacilitatorTypes
<1>2. \A pc \in {"executeCounts", "completeCounts", "create"} : [caller[c] EXCEPT !.pc = pc] \in RouteCalls
  BY <1>1 DEF RouteCalls
<1>3. Facilitator!Return(c) => CallerMoves(c, Facilitator!NoCall)
  BY FacilitatorConstants DEF Facilitator!Return, CallerMoves
<1>4. ASSUME NEW pc \in {"executeCounts", "completeCounts", "create"}, Facilitator!Goto(c, pc)
      PROVE  CallerMoves(c, [caller[c] EXCEPT !.pc = pc])
  <2>1. caller' = [caller EXCEPT ![c] = [caller[c] EXCEPT !.pc = pc]]
    BY <1>4 DEF Facilitator!Goto
  <2> QED
    BY <1>2, <2>1 DEF CallerMoves
<1> QED
  BY <1>1, <1>3, <1>4

LEMMA CallersAfter ==
    ASSUME FacilitatorTypes, NEW c \in Workers, NEW z, CallerMoves(c, z)
    PROVE  /\ caller' \in [Workers -> RouteCalls] /\ caller'[c] = z
           /\ \A d \in Workers \ {c} : caller'[d] = caller[d]
BY DEF FacilitatorTypes, CallerMoves

LEMMA FacilitatorTyped ==
    FacilitatorTypes /\ [Facilitator!Next]_facilitatorVars => FacilitatorTypes'
<1> SUFFICES ASSUME FacilitatorTypes, [Facilitator!Next]_facilitatorVars PROVE FacilitatorTypes'
  OBVIOUS
<1>0. /\ MaxStats \in Nat /\ MaxExceptions \in Nat /\ rerouted \in BOOLEAN
      /\ Facilitator!NoRoute \in RouteStates
  BY FacilitatorConstants DEF FacilitatorTypes
<1>1. ASSUME NEW c \in Workers, Facilitator!CreateRoute(c) PROVE FacilitatorTypes'
  <2>1. routed' \in RouteStates
    BY <1>1 DEF Facilitator!CreateRoute, RouteStates, Facilitator!Statuses, Facilitator!Kept
  <2> QED
    BY <1>1, <2>1 DEF Facilitator!CreateRoute, FacilitatorTypes
<1>2. ASSUME NEW c \in Workers, NEW pc \in {"execute", "complete"}, Facilitator!GetRoute(c, pc)
      PROVE  FacilitatorTypes'
  <2>1. [pc |-> pc, read |-> routed] \in RouteCalls
    BY DEF FacilitatorTypes, RouteCalls
  <2>2. caller' \in [Workers -> RouteCalls]
    BY <1>2, <2>1 DEF Facilitator!GetRoute, FacilitatorTypes
  <2>3. rerouted' \in BOOLEAN
    BY <1>0, <1>2, Zenon DEF Facilitator!GetRoute
  <2> QED
    BY <1>2, <2>2, <2>3 DEF Facilitator!GetRoute, FacilitatorTypes
<1>3. ASSUME NEW c \in Workers, Facilitator!Execute(c) PROVE FacilitatorTypes'
  <2>1. CallerMoves(c, [caller[c] EXCEPT !.pc = "executeCounts"]) /\ caller[c] \in RouteCalls
    BY <1>3, CallerSteps DEF Facilitator!Execute
  <2>2. caller' \in [Workers -> RouteCalls]
    BY <2>1, CallersAfter
  <2>3. routed' \in RouteStates
    <3>1. \A x \in RouteStates : [x EXCEPT !.status = "executing", !.left = 1] \in RouteStates
      <4> SUFFICES ASSUME NEW x \in RouteStates
                   PROVE  [x EXCEPT !.status = "executing", !.left = 1] \in RouteStates
        OBVIOUS
      <4> DEFINE y == [x EXCEPT !.status = "executing"]
      <4>1. y \in RouteStates
        BY DEF RouteStates, Facilitator!Statuses, Facilitator!Kept
      <4>2. [x EXCEPT !.status = "executing", !.left = 1] = [y EXCEPT !.left = 1]
        BY DEF RouteStates
      <4> HIDE DEF y
      <4>3. [y EXCEPT !.left = 1] \in RouteStates
        BY <4>1 DEF RouteStates
      <4> QED
        BY <4>2, <4>3
    <3>2. caller[c].read \in RouteStates
      BY <2>1 DEF RouteCalls
    <3> QED
      BY <1>3, <3>1, <3>2 DEF Facilitator!Execute
  <2> QED
    BY <1>3, <2>2, <2>3 DEF Facilitator!Execute, FacilitatorTypes
<1>4. ASSUME NEW c \in Workers, Facilitator!Complete(c) PROVE FacilitatorTypes'
  <2>1. CallerMoves(c, [caller[c] EXCEPT !.pc = "completeCounts"])
    BY <1>4, CallerSteps DEF Facilitator!Complete
  <2>2. caller' \in [Workers -> RouteCalls]
    BY <2>1, CallersAfter
  <2>3. routed' \in RouteStates
    BY <1>4 DEF Facilitator!Complete, RouteStates, Facilitator!Statuses, Facilitator!Kept
  <2>4. finished' \in 0..MaxStats
    BY <1>0, <1>4 DEF Facilitator!Complete, FacilitatorTypes
  <2> QED
    BY <1>4, <2>2, <2>3, <2>4 DEF Facilitator!Complete, FacilitatorTypes
<1>5. ASSUME NEW c \in Workers, NEW pc, NEW counter \in Facilitator!Counters, Facilitator!Count(c, pc, counter)
      PROVE  FacilitatorTypes'
  <2>1. CallerMoves(c, Facilitator!NoCall)
    BY <1>5, CallerSteps DEF Facilitator!Count
  <2>2. caller' \in [Workers -> RouteCalls]
    BY <2>1, CallersAfter
  <2>3. counted' \in [Facilitator!Counters -> 0..MaxStats]
    <3>1. counted[counter] + 1 \in 0..MaxStats
      BY <1>0, <1>5 DEF Facilitator!Count, FacilitatorTypes
    <3> QED
      BY <1>5, <3>1 DEF Facilitator!Count, FacilitatorTypes
  <2> QED
    BY <1>5, <2>2, <2>3 DEF Facilitator!Count, FacilitatorTypes
<1>6. ASSUME Facilitator!Hour PROVE FacilitatorTypes'
  <2>1. routed' \in RouteStates
    <3>1. CASE routed.left = 1
      <4>1. \A x \in RouteStates : [x EXCEPT !.status = "expired"] \in RouteStates
        BY DEF RouteStates, Facilitator!Statuses
      <4>2. routed' = [Facilitator!NoRoute EXCEPT !.status = "expired"]
        BY <1>6, <3>1 DEF Facilitator!Hour
      <4> QED
        BY <1>0, <4>1, <4>2
    <3>2. CASE routed.left # 1
      BY <1>6, <3>2 DEF Facilitator!Hour, FacilitatorTypes, RouteStates
    <3> QED
      BY <3>1, <3>2
  <2> QED
    BY <1>6, <2>1 DEF Facilitator!Hour, FacilitatorTypes
<1>7. ASSUME NEW c \in Workers, Facilitator!FindPreferences(c) PROVE FacilitatorTypes'
  <2>1. CallerMoves(c, [caller[c] EXCEPT !.pc = "create"])
    BY <1>7, CallerSteps DEF Facilitator!FindPreferences
  <2>2. caller' \in [Workers -> RouteCalls]
    BY <2>1, CallersAfter
  <2> QED
    BY <1>7, <2>2 DEF Facilitator!FindPreferences, FacilitatorTypes
<1>8. ASSUME NEW c \in Workers, Facilitator!CreatePreferences(c) PROVE FacilitatorTypes'
  <2>1. CallerMoves(c, Facilitator!NoCall)
    BY <1>8, CallerSteps DEF Facilitator!CreatePreferences
  <2>2. caller' \in [Workers -> RouteCalls]
    BY <2>1, CallersAfter
  <2> QED
    BY <1>8, <2>2 DEF Facilitator!CreatePreferences, FacilitatorTypes
<1>9. CASE Facilitator!PutPreferences
  BY <1>9 DEF Facilitator!PutPreferences, FacilitatorTypes
<1>10. CASE Facilitator!RecordTransaction
  <2>1. PICK s \in {"confirmed", "failed", "other"} : volume' = [volume EXCEPT ![s] = @ + 1]
    BY <1>10 DEF Facilitator!RecordTransaction
  <2>2. volume[s] + 1 \in 0..12
    BY <1>10 DEF Facilitator!RecordTransaction, FacilitatorTypes
  <2>3. volume' \in [{"confirmed", "failed", "other"} -> 0..12]
    BY <2>1, <2>2 DEF FacilitatorTypes
  <2> QED
    BY <1>10, <2>3 DEF Facilitator!RecordTransaction, FacilitatorTypes
<1>11. ASSUME NEW c \in Workers, Facilitator!Throw(c) PROVE FacilitatorTypes'
  <2>1. CallerMoves(c, Facilitator!NoCall)
    BY <1>11, CallerSteps DEF Facilitator!Throw
  <2>2. caller' \in [Workers -> RouteCalls]
    BY <2>1, CallersAfter
  <2>3. callerFaults' \in 0..MaxExceptions
    BY <1>0, <1>11 DEF Facilitator!Throw, FacilitatorTypes
  <2> QED
    BY <1>11, <2>2, <2>3 DEF Facilitator!Throw, FacilitatorTypes
<1>12. CASE UNCHANGED facilitatorVars
  BY <1>12 DEF FacilitatorTypes, facilitatorVars
<1>13. {"executing", "completed"} = Facilitator!Counters
  BY DEF Facilitator!Counters
<1> QED
  BY <1>1, <1>2, <1>3, <1>4, <1>5, <1>6, <1>7, <1>8, <1>9, <1>10, <1>11, <1>12, <1>13
     DEF Facilitator!Next

LEMMA CrossingStays ==
    rerouted /\ [Facilitator!Next]_facilitatorVars => rerouted'
<1> SUFFICES ASSUME rerouted, [Facilitator!Next]_facilitatorVars PROVE rerouted'
  OBVIOUS
<1> QED
  BY DEF Facilitator!Next, Facilitator!CreateRoute, Facilitator!GetRoute, Facilitator!Execute,
     Facilitator!Complete, Facilitator!Count, Facilitator!Hour, Facilitator!FindPreferences,
     Facilitator!CreatePreferences, Facilitator!PutPreferences, Facilitator!RecordTransaction,
     Facilitator!Throw, facilitatorVars

\* A step of one request keeps them in turn when it is the only one about the route, or was
\* about the route already, and leaves what has been completed signed.
LEMMA TurnMoves ==
    ASSUME FacilitatorTypes, RoutesInTurn, NEW c \in Workers, NEW z, CallerMoves(c, z),
           AboutRoute(z) => AboutRoute(caller[c]) \/ \A d \in Workers : ~AboutRoute(caller[d]),
           z.pc = "execute" => z.read.status \in Facilitator!Kept,
           finished' > 0 =>
              /\ SignedOnce(routed'.status, routed'.signed)
              /\ z.pc = "execute" => z.read.signed
              /\ finished > 0 \/ AboutRoute(caller[c])
    PROVE  RoutesInTurn'
<1>1. /\ caller'[c] = z
      /\ \A d \in Workers \ {c} : caller'[d] = caller[d]
  BY CallersAfter
<1>2. \A d \in Workers : caller'[d].pc = "execute" => caller'[d].read.status \in Facilitator!Kept
  BY <1>1 DEF RoutesInTurn
<1>3. \A d, e \in Workers : AboutRoute(caller'[d]) /\ AboutRoute(caller'[e]) => d = e
  BY <1>1 DEF RoutesInTurn
<1>4. ASSUME finished' > 0, NEW d \in Workers, caller'[d].pc = "execute" PROVE caller'[d].read.signed
  <2>1. CASE d = c
    BY <1>1, <1>4, <2>1
  <2>2. CASE d # c
    <3>1. finished > 0
      BY <1>1, <1>4, <2>2 DEF RoutesInTurn, AboutRoute
    <3> QED
      BY <1>1, <1>4, <2>2, <3>1 DEF RoutesInTurn
  <2> QED
    BY <2>1, <2>2
<1> QED
  BY <1>2, <1>3, <1>4 DEF RoutesInTurn

LEMMA RoutesKept ==
    ASSUME FacilitatorTypes, RoutesInTurn, Facilitator!Next
    PROVE  rerouted' \/ RoutesInTurn'
<1> SUFFICES ASSUME ~rerouted' PROVE RoutesInTurn'
  OBVIOUS
<1>0. ~AboutRoute(Facilitator!NoCall) /\ Facilitator!NoCall.pc # "execute"
  BY FacilitatorConstants DEF AboutRoute
<1>1. ASSUME UNCHANGED <<caller, finished>>,
             finished > 0 => SignedOnce(routed'.status, routed'.signed)
      PROVE  RoutesInTurn'
  BY <1>1 DEF RoutesInTurn
<1>2. ASSUME NEW c \in Workers, Facilitator!CreateRoute(c) PROVE RoutesInTurn'
  <2>1. ~(finished > 0)
    BY <1>2 DEF Facilitator!CreateRoute, RoutesInTurn, SignedOnce, Facilitator!NoRoute
  <2> QED
    BY <1>1, <1>2, <2>1 DEF Facilitator!CreateRoute
<1>3. ASSUME NEW c \in Workers, NEW pc \in {"execute", "complete"}, Facilitator!GetRoute(c, pc)
      PROVE  RoutesInTurn'
  <2> DEFINE z == [pc |-> pc, read |-> routed]
  <2>1. CallerMoves(c, z) /\ z.read.status \in Facilitator!Kept
    BY <1>3 DEF CallerMoves, Facilitator!GetRoute, RouteCalls, FacilitatorTypes
  <2>2. \A d \in Workers : ~AboutRoute(caller[d])
    BY <1>3 DEF Facilitator!GetRoute, AboutRoute, Facilitator!Idle, Facilitator!At
  <2>3. UNCHANGED <<routed, finished>> /\ z.read = routed
    BY <1>3 DEF Facilitator!GetRoute
  <2>4. finished' > 0 => SignedOnce(routed'.status, routed'.signed) /\ z.read.signed
    BY <1>3, <2>3 DEF RoutesInTurn, SignedOnce, Facilitator!GetRoute
  <2> HIDE DEF z
  <2> QED
    BY <2>1, <2>2, <2>3, <2>4, TurnMoves
<1>4. ASSUME NEW c \in Workers, Facilitator!Execute(c) PROVE RoutesInTurn'
  <2> DEFINE z == [caller[c] EXCEPT !.pc = "executeCounts"]
  <2>1. CallerMoves(c, z) /\ caller[c] \in RouteCalls
    BY <1>4, CallerSteps DEF Facilitator!Execute
  <2>2. z.pc = "executeCounts"
    BY <2>1 DEF RouteCalls
  <2>3. caller[c].pc = "execute" /\ AboutRoute(caller[c])
    BY <1>4 DEF Facilitator!Execute, Facilitator!At, AboutRoute
  <2>4. /\ finished' = finished
        /\ routed' = [caller[c].read EXCEPT !.status = "executing", !.left = 1]
    BY <1>4 DEF Facilitator!Execute
  <2>5. caller[c].read \in RouteStates
    BY <2>1 DEF RouteCalls
  <2>6. routed'.status = "executing" /\ routed'.signed = caller[c].read.signed
    BY <2>4, <2>5 DEF RouteStates
  <2>7. finished' > 0 => SignedOnce(routed'.status, routed'.signed)
    BY <2>3, <2>4, <2>6 DEF SignedOnce, RoutesInTurn
  <2> HIDE DEF z
  <2> QED
    BY <2>1, <2>2, <2>3, <2>4, <2>7, TurnMoves
<1>5. ASSUME NEW c \in Workers, Facilitator!Complete(c) PROVE RoutesInTurn'
  <2> DEFINE z == [caller[c] EXCEPT !.pc = "completeCounts"]
  <2>1. CallerMoves(c, z) /\ caller[c] \in RouteCalls
    BY <1>5, CallerSteps DEF Facilitator!Complete
  <2>2. z.pc = "completeCounts"
    BY <2>1 DEF RouteCalls
  <2>3. AboutRoute(caller[c])
    BY <1>5 DEF Facilitator!Complete, Facilitator!At, AboutRoute
  <2>4. SignedOnce(routed'.status, routed'.signed)
    BY <1>5 DEF Facilitator!Complete, SignedOnce
  <2> HIDE DEF z
  <2> QED
    BY <2>1, <2>2, <2>3, <2>4, TurnMoves
<1>6. ASSUME NEW c \in Workers, CallerMoves(c, Facilitator!NoCall), UNCHANGED <<routed, finished>>
      PROVE  RoutesInTurn'
  <2>1. finished' > 0 => SignedOnce(routed'.status, routed'.signed) /\ finished > 0
    BY <1>6 DEF RoutesInTurn
  <2> QED
    BY <1>0, <1>6, <2>1, TurnMoves
<1>7. ASSUME NEW c \in Workers, NEW pc, NEW counter, Facilitator!Count(c, pc, counter)
      PROVE  RoutesInTurn'
  BY <1>6, <1>7, CallerSteps DEF Facilitator!Count
<1>8. ASSUME NEW c \in Workers, Facilitator!CreatePreferences(c) \/ Facilitator!Throw(c)
      PROVE  RoutesInTurn'
  BY <1>6, <1>8, CallerSteps DEF Facilitator!CreatePreferences, Facilitator!Throw
<1>9. ASSUME Facilitator!Hour PROVE RoutesInTurn'
  <2>1. CASE routed.left = 1
    <3>1. routed'.status = "expired"
      BY <1>9, <2>1 DEF Facilitator!Hour, Facilitator!NoRoute
    <3>2. SignedOnce(routed'.status, routed'.signed)
      BY <3>1 DEF SignedOnce, Facilitator!Kept
    <3> QED
      BY <1>1, <1>9, <3>2 DEF Facilitator!Hour
  <2>2. CASE routed.left # 1
    <3>1. routed'.status = routed.status /\ routed'.signed = routed.signed
      BY <1>9, <2>2 DEF Facilitator!Hour, FacilitatorTypes, RouteStates
    <3> QED
      BY <1>1, <1>9, <3>1 DEF Facilitator!Hour, RoutesInTurn
  <2> QED
    BY <2>1, <2>2
<1>10. ASSUME NEW c \in Workers, Facilitator!FindPreferences(c) PROVE RoutesInTurn'
  <2> DEFINE z == [caller[c] EXCEPT !.pc = "create"]
  <2>1. CallerMoves(c, z) /\ caller[c] \in RouteCalls /\ UNCHANGED <<routed, finished>>
    BY <1>10, CallerSteps DEF Facilitator!FindPreferences
  <2>2. z.pc = "create"
    BY <2>1 DEF RouteCalls
  <2>3. ~AboutRoute(z)
    BY <2>2 DEF AboutRoute
  <2>4. finished' > 0 => SignedOnce(routed'.status, routed'.signed) /\ finished > 0
    BY <2>1 DEF RoutesInTurn
  <2> HIDE DEF z
  <2> QED
    BY <2>1, <2>2, <2>3, <2>4, TurnMoves
<1>11. CASE Facilitator!PutPreferences \/ Facilitator!RecordTransaction
  BY <1>1, <1>11 DEF Facilitator!PutPreferences, Facilitator!RecordTransaction, RoutesInTurn
<1> QED
  BY <1>2, <1>3, <1>4, <1>5, <1>7, <1>8, <1>9, <1>10, <1>11 DEF Facilitator!Next

LEMMA PreferencesKept ==
    (put # "none" => preferences = put) /\ [Facilitator!Next]_facilitatorVars
       => (put # "none" => preferences = put)'
<1> SUFFICES ASSUME put # "none" => preferences = put, [Facilitator!Next]_facilitatorVars
             PROVE  put' # "none" => preferences' = put'
  OBVIOUS
<1>1. ASSUME UNCHANGED <<preferences, put>> PROVE put' # "none" => preferences' = put'
  BY <1>1
<1>2. ASSUME NEW c \in Workers, Facilitator!CreatePreferences(c)
      PROVE  put' # "none" => preferences' = put'
  BY <1>2 DEF Facilitator!CreatePreferences
<1>3. CASE Facilitator!PutPreferences
  BY <1>3 DEF Facilitator!PutPreferences
<1>4. ASSUME NEW c \in Workers, NEW pc, NEW counter,
             \/ Facilitator!CreateRoute(c) \/ Facilitator!GetRoute(c, pc) \/ Facilitator!Execute(c)
             \/ Facilitator!Complete(c) \/ Facilitator!Count(c, pc, counter)
             \/ Facilitator!FindPreferences(c) \/ Facilitator!Throw(c)
      PROVE  UNCHANGED <<preferences, put>>
  BY <1>4, Zenon DEF Facilitator!CreateRoute, Facilitator!GetRoute, Facilitator!Execute,
     Facilitator!Complete, Facilitator!Count, Facilitator!FindPreferences, Facilitator!Throw
<1>5. ASSUME Facilitator!Hour \/ Facilitator!RecordTransaction PROVE UNCHANGED <<preferences, put>>
  BY <1>5, Zenon DEF Facilitator!Hour, Facilitator!RecordTransaction
<1>6. ASSUME UNCHANGED facilitatorVars PROVE UNCHANGED <<preferences, put>>
  BY <1>6, Zenon DEF facilitatorVars
<1> QED
  BY <1>1, <1>2, <1>3, <1>4, <1>5, <1>6, Zenon DEF Facilitator!Next

LEMMA FacilitatorKept ==
    FacilitatorInv /\ [Facilitator!Next]_facilitatorVars => FacilitatorInv'
<1> SUFFICES ASSUME FacilitatorInv, [Facilitator!Next]_facilitatorVars PROVE FacilitatorInv'
  OBVIOUS
<1>1. FacilitatorTypes' /\ (put # "none" => preferences = put)'
  BY FacilitatorTyped, PreferencesKept DEF FacilitatorInv
<1>2. CASE rerouted
  BY <1>1, <1>2, CrossingStays DEF FacilitatorInv
<1>3. CASE RoutesInTurn /\ Facilitator!Next
  BY <1>1, <1>3, RoutesKept DEF FacilitatorInv
<1>4. CASE RoutesInTurn /\ UNCHANGED facilitatorVars
  BY <1>1, <1>4 DEF FacilitatorInv, RoutesInTurn, facilitatorVars
<1> QED
  BY <1>2, <1>3, <1>4 DEF FacilitatorInv

LEMMA FacilitatorBegins == Facilitator!Init => FacilitatorInv
<1> SUFFICES ASSUME Facilitator!Init PROVE FacilitatorInv
  OBVIOUS
<1>1. /\ caller = [c \in Workers |-> Facilitator!NoCall] /\ routed = Facilitator!NoRoute
      /\ counted = [s \in Facilitator!Counters |-> 0] /\ finished = 0 /\ callerFaults = 0
      /\ preferences = "none" /\ put = "none" /\ about \in {"route", "preferences", "reputation"}
      /\ volume = [s \in {"confirmed", "failed", "other"} |-> 0]
  BY DEF Facilitator!Init
<1>2. rerouted \in BOOLEAN
  BY Zenon DEF Facilitator!Init
<1>3. 0 \in 0..MaxStats /\ 0 \in 0..MaxExceptions /\ 0 \in 0..12
  BY FacilitatorConstants
<1>4. FacilitatorTypes
  BY <1>1, <1>2, <1>3, FacilitatorConstants DEF FacilitatorTypes
<1>5. RoutesInTurn
  BY <1>1, FacilitatorConstants DEF RoutesInTurn, AboutRoute
<1> QED
  BY <1>1, <1>4, <1>5 DEF FacilitatorInv

LEMMA FacilitatorRecordsKept == FacilitatorInv => Facilitator!RecordsKept
<1> SUFFICES ASSUME FacilitatorInv PROVE Facilitator!RecordsKept
  OBVIOUS
<1>1. volume \in [{"confirmed", "failed", "other"} -> Nat]
  BY DEF FacilitatorInv, FacilitatorTypes
<1>2. ~rerouted /\ finished > 0 /\ routed.status \in Facilitator!Kept => routed.signed
  BY DEF FacilitatorInv, RoutesInTurn, SignedOnce
<1> QED
  BY <1>1, <1>2, ReputationFollows DEF Facilitator!RecordsKept, FacilitatorInv

-----------------------------------------------------------------------------
\* The credentials: a leaf is there for a credential whose issue is over, once, and for every
\* such credential as long as nothing has been cut off.
Issued == {"issued", "revoked", "expired"}
CredentialTypes ==
    /\ vault \in {"redis", "memory"}
    /\ credential \in [Items -> {"none", "asked", "found", "refused", "issuing"} \cup Issued]
    /\ leaves \in Seq(Items)
    /\ reading \subseteq Items
    /\ \A p \in proofs : p.of \in Items /\ p.leaves \in Seq(Items)
    /\ \A v \in shown : v.proof \in proofs /\ v.now \in Seq(Items)
    /\ credentialFaults \in 0..MaxFaults

LEMMA CredentialTypesAre == Credential!TypeOK <=> CredentialTypes
BY DEF Credential!TypeOK, CredentialTypes, Credential!Rows, Issued

LeavesOnce == \A i, j \in 1..Len(leaves) : leaves[i] = leaves[j] => i = j
LeavesIssued == \A i \in 1..Len(leaves) : credential[leaves[i]] \in Issued
IssuedLeaves == \A c \in Items : credential[c] \in Issued => Credential!InList(c, leaves)
ProofsOfLeaves == \A p \in proofs : Credential!InList(p.of, p.leaves)

CredentialInv ==
    /\ CredentialTypes
    /\ LeavesOnce /\ LeavesIssued /\ ProofsOfLeaves
    /\ credentialFaults = 0 => IssuedLeaves

LEMMA CredentialTyped ==
    CredentialTypes /\ [Credential!Next]_credentialVars => CredentialTypes'
<1> SUFFICES ASSUME CredentialTypes, [Credential!Next]_credentialVars PROVE CredentialTypes'
  OBVIOUS
<1>0. MaxFaults \in Nat
  BY ServicesAssumption DEF WalletAssumption
<1>1. ASSUME NEW c \in Items, NEW from, NEW to \in {"asked", "found", "refused", "issuing"} \cup Issued,
             Credential!Becomes(c, from, to),
             UNCHANGED <<vault, leaves, reading, proofs, shown, credentialFaults>>
      PROVE  CredentialTypes'
  BY <1>1 DEF Credential!Becomes, CredentialTypes
<1>2. ASSUME NEW c \in Items, \/ Credential!Check(c) \/ Credential!FindAgent(c) \/ Credential!CreateRow(c)
                              \/ Credential!Revoke(c) \/ Credential!Expire(c)
      PROVE  CredentialTypes'
  BY <1>1, <1>2 DEF Credential!Check, Credential!FindAgent, Credential!CreateRow, Credential!Revoke,
     Credential!Expire, Issued
<1>3. ASSUME NEW c \in Items, Credential!AddLeaf(c) PROVE CredentialTypes'
  <2>1. credential' \in [Items -> {"none", "asked", "found", "refused", "issuing"} \cup Issued]
    BY <1>3 DEF Credential!AddLeaf, Credential!Becomes, CredentialTypes, Issued
  <2>2. leaves' \in Seq(Items)
    BY <1>3 DEF Credential!AddLeaf, CredentialTypes
  <2> QED
    BY <1>3, <2>1, <2>2 DEF Credential!AddLeaf, CredentialTypes
<1>4. ASSUME NEW c \in Items, Credential!ReadRow(c) PROVE CredentialTypes'
  BY <1>4 DEF Credential!ReadRow, CredentialTypes
<1>5. ASSUME NEW c \in Items, Credential!Prove(c) PROVE CredentialTypes'
  <2>1. CASE proofs' = proofs \cup {[of |-> c, leaves |-> leaves]}
    BY <1>5, <2>1 DEF Credential!Prove, CredentialTypes
  <2>2. CASE UNCHANGED proofs
    BY <1>5, <2>2 DEF Credential!Prove, CredentialTypes
  <2> QED
    BY <1>5, <2>1, <2>2 DEF Credential!Prove
<1>6. ASSUME NEW p \in proofs, Credential!Verify(p) PROVE CredentialTypes'
  BY <1>6 DEF Credential!Verify, CredentialTypes
<1>7. ASSUME NEW c \in Items, Credential!Throw(c) PROVE CredentialTypes'
  <2>1. credential' \in [Items -> {"none", "asked", "found", "refused", "issuing"} \cup Issued]
    BY <1>7 DEF Credential!Throw, Credential!Becomes, CredentialTypes, Issued
  <2>2. credentialFaults' \in 0..MaxFaults
    BY <1>0, <1>7, OneMoreFault, Zenon DEF Credential!Throw, Credential!CredentialFault, CredentialTypes
  <2> QED
    BY <1>7, <2>1, <2>2 DEF Credential!Throw, CredentialTypes
<1>8. CASE Credential!Restart
  <2>1. credential' \in [Items -> {"none", "asked", "found", "refused", "issuing"} \cup Issued]
    BY <1>8 DEF Credential!Restart, CredentialTypes, Issued
  <2>2. credentialFaults' \in 0..MaxFaults
    BY <1>0, <1>8, OneMoreFault, Zenon DEF Credential!Restart, Credential!CredentialFault, CredentialTypes
  <2>3. leaves' \in Seq(Items)
    BY <1>8 DEF Credential!Restart, CredentialTypes
  <2> QED
    BY <1>8, <2>1, <2>2, <2>3 DEF Credential!Restart, CredentialTypes
<1>9. CASE UNCHANGED credentialVars
  BY <1>9 DEF CredentialTypes, credentialVars
<1> QED
  BY <1>2, <1>3, <1>4, <1>5, <1>6, <1>7, <1>8, <1>9 DEF Credential!Next

LEMMA LeafAdded ==
    ASSUME CredentialTypes, NEW c \in Items, leaves' = Append(leaves, c)
    PROVE  /\ Len(leaves') = Len(leaves) + 1 /\ Len(leaves) \in Nat
           /\ leaves'[Len(leaves) + 1] = c
           /\ \A i \in 1..Len(leaves) : leaves'[i] = leaves[i] /\ leaves[i] \in Items
BY DEF CredentialTypes

LEMMA CredentialKept ==
    CredentialInv /\ [Credential!Next]_credentialVars => CredentialInv'
<1> SUFFICES ASSUME CredentialInv, [Credential!Next]_credentialVars PROVE CredentialInv'
  OBVIOUS
<1>0. CredentialTypes /\ CredentialTypes'
  BY CredentialTyped DEF CredentialInv
<1>1. \A i \in 1..Len(leaves) : leaves[i] \in Items
  BY <1>0 DEF CredentialTypes
\* A row whose issue is not over, or was already, becomes another one of the kind.
<1>2. ASSUME NEW c \in Items, NEW from, NEW to, Credential!Becomes(c, from, to),
             from \in Issued <=> to \in Issued, UNCHANGED <<leaves, proofs, credentialFaults>>
      PROVE  CredentialInv'
  <2>1. \A d \in Items : credential'[d] \in Issued <=> credential[d] \in Issued
    BY <1>0, <1>2 DEF Credential!Becomes, CredentialTypes
  <2> QED
    BY <1>0, <1>1, <1>2, <2>1 DEF CredentialInv, LeavesOnce, LeavesIssued, IssuedLeaves, ProofsOfLeaves
<1>3. ASSUME NEW c \in Items, \/ Credential!Check(c) \/ Credential!FindAgent(c) \/ Credential!CreateRow(c)
                              \/ Credential!Revoke(c) \/ Credential!Expire(c)
      PROVE  CredentialInv'
  BY <1>2, <1>3 DEF Credential!Check, Credential!FindAgent, Credential!CreateRow, Credential!Revoke,
     Credential!Expire, Issued
<1>4. ASSUME NEW c \in Items, Credential!AddLeaf(c) PROVE CredentialInv'
  <2>1. /\ credential[c] = "issuing" /\ credential' = [credential EXCEPT ![c] = "issued"]
        /\ leaves' = Append(leaves, c) /\ UNCHANGED <<proofs, credentialFaults>>
    BY <1>4 DEF Credential!AddLeaf, Credential!Becomes
  <2>2. /\ Len(leaves') = Len(leaves) + 1 /\ Len(leaves) \in Nat
        /\ leaves'[Len(leaves) + 1] = c
        /\ \A i \in 1..Len(leaves) : leaves'[i] = leaves[i] /\ leaves[i] \in Items
    BY <1>0, <2>1, LeafAdded
  <2>3. \A i \in 1..Len(leaves) : leaves[i] # c
    BY <2>1 DEF CredentialInv, LeavesIssued, Issued
  <2>4. LeavesOnce'
    BY <2>2, <2>3 DEF CredentialInv, LeavesOnce
  <2>5. credential'[c] \in Issued /\ \A d \in Items \ {c} : credential'[d] = credential[d]
    BY <1>0, <2>1 DEF CredentialTypes, Issued
  <2>6. LeavesIssued'
    BY <2>2, <2>3, <2>5 DEF CredentialInv, LeavesIssued
  <2>7. ASSUME IssuedLeaves PROVE IssuedLeaves'
    <3> SUFFICES ASSUME NEW d \in Items, credential'[d] \in Issued
                 PROVE  \E i \in 1..Len(leaves') : leaves'[i] = d
      BY DEF IssuedLeaves, Credential!InList
    <3>1. CASE d = c
      BY <2>2, <3>1
    <3>2. CASE d # c
      <4>1. PICK i \in 1..Len(leaves) : leaves[i] = d
        BY <2>5, <2>7, <3>2 DEF IssuedLeaves, Credential!InList
      <4>2. i \in 1..Len(leaves') /\ leaves'[i] = d
        BY <2>2, <4>1
      <4> QED
        BY <4>2
    <3> QED
      BY <3>1, <3>2
  <2> QED
    BY <1>0, <2>1, <2>4, <2>6, <2>7 DEF CredentialInv, ProofsOfLeaves
<1>5. ASSUME UNCHANGED <<credential, leaves, proofs, credentialFaults>> PROVE CredentialInv'
  BY <1>0, <1>5 DEF CredentialInv, LeavesOnce, LeavesIssued, IssuedLeaves, ProofsOfLeaves
<1>6. ASSUME NEW c \in Items, Credential!ReadRow(c) PROVE CredentialInv'
  BY <1>5, <1>6 DEF Credential!ReadRow
<1>7. ASSUME NEW c \in Items, Credential!Prove(c) PROVE CredentialInv'
  <2>0. UNCHANGED <<credential, leaves, credentialFaults>>
    BY <1>7 DEF Credential!Prove
  <2>1. CASE UNCHANGED proofs
    BY <1>5, <2>0, <2>1
  <2>2. CASE /\ \E i \in 1..Len(leaves) : leaves[i] = c
             /\ proofs' = proofs \cup {[of |-> c, leaves |-> leaves]}
    <3>1. ProofsOfLeaves'
      BY <2>2 DEF CredentialInv, ProofsOfLeaves, Credential!InList
    <3> QED
      BY <1>0, <2>0, <3>1 DEF CredentialInv, LeavesOnce, LeavesIssued, IssuedLeaves
  <2> QED
    BY <1>7, <2>1, <2>2 DEF Credential!Prove
<1>8. ASSUME NEW p \in proofs, Credential!Verify(p) PROVE CredentialInv'
  BY <1>5, <1>8 DEF Credential!Verify
<1>f. ASSUME Credential!CredentialFault PROVE credentialFaults' # 0
  <2>1. MaxFaults \in Nat /\ credentialFaults \in 0..MaxFaults
    BY <1>0, ServicesAssumption DEF WalletAssumption, CredentialTypes
  <2> QED
    BY <1>f, <2>1, OneMoreFault, Zenon DEF Credential!CredentialFault
<1>9. ASSUME NEW c \in Items, Credential!Throw(c) PROVE CredentialInv'
  <2>1. /\ credential' = [credential EXCEPT ![c] = "issued"] /\ credentialFaults' # 0
        /\ UNCHANGED <<leaves, proofs>>
    BY <1>f, <1>9 DEF Credential!Throw, Credential!Becomes
  <2>2. \A d \in Items : credential[d] \in Issued => credential'[d] \in Issued
    BY <1>0, <2>1 DEF CredentialTypes, Issued
  <2> QED
    BY <1>0, <1>1, <2>1, <2>2 DEF CredentialInv, LeavesOnce, LeavesIssued, ProofsOfLeaves
<1>10. CASE Credential!Restart
  <2>1. /\ leaves' \in {leaves, <<>>} /\ credentialFaults' # 0 /\ UNCHANGED proofs
    BY <1>f, <1>10 DEF Credential!Restart
  <2>2. \A d \in Items : credential[d] \in Issued => credential'[d] \in Issued
    BY <1>10 DEF Credential!Restart, Issued
  <2>3. CASE leaves' = leaves
    BY <1>0, <1>1, <2>1, <2>2, <2>3 DEF CredentialInv, LeavesOnce, LeavesIssued, ProofsOfLeaves
  <2>4. CASE leaves' = <<>>
    BY <1>0, <2>1, <2>4 DEF CredentialInv, LeavesOnce, LeavesIssued, ProofsOfLeaves
  <2> QED
    BY <2>1, <2>3, <2>4
<1>11. CASE UNCHANGED credentialVars
  BY <1>5, <1>11 DEF credentialVars
<1> QED
  BY <1>3, <1>4, <1>6, <1>7, <1>8, <1>9, <1>10, <1>11 DEF Credential!Next

LEMMA CredentialBegins == Credential!Init => CredentialInv
<1> SUFFICES ASSUME Credential!Init PROVE CredentialInv
  OBVIOUS
<1>1. /\ vault \in {"redis", "memory"} /\ credential = [c \in Items |-> "none"] /\ leaves = <<>>
      /\ reading = {} /\ proofs = {} /\ shown = {} /\ credentialFaults = 0
  BY DEF Credential!Init
<1>2. credentialFaults \in 0..MaxFaults
  BY <1>1, ServicesAssumption DEF WalletAssumption
<1>3. CredentialTypes
  BY <1>1, <1>2 DEF CredentialTypes
<1> QED
  BY <1>1, <1>3 DEF CredentialInv, LeavesOnce, LeavesIssued, IssuedLeaves, ProofsOfLeaves, Issued

LEMMA CredentialsHold == CredentialInv => Credential!CredentialsProvable
<1> SUFFICES ASSUME CredentialInv PROVE Credential!CredentialsProvable
  OBVIOUS
<1>1. Credential!Rows \ {"issuing"} = Issued
  BY DEF Credential!Rows, Issued
<1> QED
  BY <1>1 DEF Credential!CredentialsProvable, CredentialInv, LeavesOnce, IssuedLeaves, ProofsOfLeaves

-----------------------------------------------------------------------------
\* What the registry says of a generated service's URL: a service is listed once, by the
\* process that waits for the answer or knows its id, and paused by one that knew it.
Pausing(sent0) == \E m \in sent0 : m.call = "pause"
Registering(sent0) == \E m \in sent0 : m.call = "register"
ListedAsActive == listed = "ACTIVE" /\ ~Pausing(requested)

\* At which phases a process waits for what
Waits ==
    /\ awaited = "register" => phase \in {"starting", "serving", "closing"}
    /\ awaited = "register" /\ template \in {"python", "go"} => phase = "starting"
    /\ awaited = "pause" => phase = "pausing"
    /\ template = "express" => phase # "starting"
    /\ template \in {"fastify", "nest"} => phase # "pausing"
    /\ known => awaited # "register" /\ listed # "none"
    /\ Pausing(requested) => listed # "none"

\* What is told to a process that is alive holds.
Told ==
    /\ phase = "serving" /\ (template \in Generated!RegistersFirst \/ known) => ListedAsActive
    /\ awaited = "register" /\ Generated!Taken => ListedAsActive

\* The first process cannot be one that finds its URL paused.
FirstOfAll ==
    /\ lives = 0 => phase = "down" /\ requested = {} /\ listed = "none"
    /\ lives <= 1 /\ phase \in {"starting", "serving"} => listed # "PAUSED" /\ ~Pausing(requested)

\* As long as every process ends in a way that it can report: requests are its own, and who
\* is listed as active is alive and will say so when it ends, or has said so.
Tells == template \notin {"fastify", "nest"} /\ registry = "expected"
ListingReported == ~abrupt =>
    /\ Registering(requested) => awaited = "register" /\ reply = "none"
    /\ \A m \in requested : m.call = "register" => m.life = lives
    /\ phase = "closing" => awaited = "none"
    /\ phase = "pausing" => awaited = "pause"
    /\ Tells /\ listed = "ACTIVE" =>
          \/ awaited = "register" /\ reply = "id"
          \/ known /\ phase = "serving"
          \/ Pausing(requested)

GeneratedInv == Generated!TypeOK /\ Waits /\ Told /\ FirstOfAll /\ ListingReported

\* What a step makes of the process and of the registry, but for its flags
ShapeKept ==
    /\ phase' \in {"down", "starting", "serving", "pausing", "closing"}
    /\ lives' \in 0..3
    /\ awaited' \in Generated!Calls
    /\ reply' \in {"none", "id", "noId", "refused", "threw"}
    /\ requested' \subseteq Generated!Request
    /\ listed' \in {"none", "ACTIVE", "PAUSED"}
    /\ generatedFaults' \in 0..MaxExceptions
    /\ UNCHANGED <<template, registry>>
FlagsKept == known' \in BOOLEAN /\ signalled' \in BOOLEAN /\ abrupt' \in BOOLEAN

LEMMA GeneratedShape ==
    ASSUME Generated!TypeOK, FirstOfAll, [Generated!Next]_generatedVars
    PROVE  ShapeKept
<1>0. /\ MaxExceptions \in Nat /\ lives \in 0..3 /\ generatedFaults \in 0..MaxExceptions
      /\ phase \in {"down", "starting", "serving", "pausing", "closing"}
      /\ awaited \in Generated!Calls /\ reply \in {"none", "id", "noId", "refused", "threw"}
      /\ requested \subseteq Generated!Request /\ listed \in {"none", "ACTIVE", "PAUSED"}
  BY ServicesAssumption DEF Generated!GeneratedAssumption, Generated!TypeOK
<1>r. \A what \in {"register", "pause"}, life \in 1..3 :
         [call |-> what, life |-> life] \in Generated!Request
  BY DEF Generated!Request, Generated!Calls
<1>c. {"none", "register", "pause"} = Generated!Calls
  BY DEF Generated!Calls
<1>1. ASSUME NEW first \in {"starting", "serving"}, Generated!Begin(first) PROVE ShapeKept
  <2>1. lives' \in 1..3
    BY <1>0, <1>1 DEF Generated!Begin
  <2>2. requested' \subseteq Generated!Request
    <3>1. requested' = requested \cup {[call |-> "register", life |-> lives']}
      BY <1>1 DEF Generated!Begin
    <3> QED
      BY <1>0, <1>r, <2>1, <3>1
  <2>3. lives' \in 0..3
    BY <2>1
  <2> QED
    BY <1>0, <1>1, <1>c, <2>2, <2>3 DEF Generated!Begin, ShapeKept, Generated!kindVars
<1>2. CASE Generated!Start
  BY <1>1, <1>2 DEF Generated!Start, Generated!StartExpress, Generated!StartFastify, Generated!StartNest,
     Generated!StartPython, Generated!StartGo
<1>3. ASSUME NEW next \in {"down", "starting", "serving", "pausing", "closing"}, Generated!Answered(next)
      PROVE  ShapeKept
  BY <1>0, <1>3, <1>c DEF Generated!Answered, ShapeKept, Generated!kindVars
<1>4. CASE Generated!Registered
  BY <1>0, <1>3, <1>4 DEF Generated!Registered, Generated!RegisteredExpress, Generated!RegisteredFastify,
     Generated!RegisteredNest, Generated!RegisteredPython, Generated!RegisteredGo
<1>5. ASSUME NEW next \in {"pausing", "closing"}, Generated!Leave(next), phase # "down"
      PROVE  ShapeKept
  <2>1. lives \in 1..3
    BY <1>0, <1>5 DEF FirstOfAll
  <2>2. requested' \subseteq Generated!Request /\ awaited' \in Generated!Calls
    <3>1. CASE next = "pausing"
      <4>1. requested' = requested \cup {[call |-> "pause", life |-> lives]} /\ awaited' = "pause"
        BY <1>5, <3>1 DEF Generated!Leave
      <4> QED
        BY <1>0, <1>c, <1>r, <2>1, <4>1
    <3>2. CASE next # "pausing"
      BY <1>0, <1>5, <3>2 DEF Generated!Leave
    <3> QED
      BY <3>1, <3>2
  <2> QED
    BY <1>0, <1>5, <2>2 DEF Generated!Leave, ShapeKept, Generated!kindVars
<1>6. CASE Generated!Stop
  <2>1. CASE Generated!StopPythonEarly
    BY <1>0, <2>1 DEF Generated!StopPythonEarly, ShapeKept, Generated!kindVars
  <2>2. Generated!PauseOr("closing") \in {"pausing", "closing"}
    BY DEF Generated!PauseOr
  <2> QED
    BY <1>5, <1>6, <2>1, <2>2 DEF Generated!Stop, Generated!StopExpress, Generated!StopFastify,
       Generated!StopNest, Generated!StopPython, Generated!StopGo
<1>7. CASE Generated!Paused
  BY <1>0, <1>7, <1>c DEF Generated!Paused, ShapeKept, Generated!kindVars
<1>8. ASSUME NEW ended, Generated!End(ended) PROVE ShapeKept
  BY <1>0, <1>8, <1>c DEF Generated!End, ShapeKept, Generated!kindVars
<1>9. CASE Generated!Close \/ Generated!Crash
  BY <1>8, <1>9 DEF Generated!Close, Generated!Crash
<1>10. CASE Generated!Throw
  <2>1. generatedFaults' \in 0..MaxExceptions
    BY <1>0, <1>10 DEF Generated!Throw
  <2>2. requested' \subseteq Generated!Request
    BY <1>0, <1>10 DEF Generated!Throw
  <2> QED
    BY <1>0, <1>10, <2>1, <2>2 DEF Generated!Throw, ShapeKept, Generated!kindVars
<1>11. ASSUME NEW m \in requested, Generated!Register(m) \/ Generated!SetStatus(m) PROVE ShapeKept
  <2>1. requested' \subseteq Generated!Request /\ listed' \in {"none", "ACTIVE", "PAUSED"}
        /\ reply' \in {"none", "id", "noId", "refused", "threw"}
    BY <1>0, <1>11 DEF Generated!Register, Generated!SetStatus, Generated!Answer
  <2> QED
    BY <1>0, <1>11, <2>1 DEF Generated!Register, Generated!SetStatus, ShapeKept, Generated!kindVars
<1>12. CASE UNCHANGED generatedVars
  BY <1>0, <1>12 DEF generatedVars, ShapeKept
<1> QED
  BY <1>2, <1>4, <1>6, <1>7, <1>9, <1>10, <1>11, <1>12 DEF Generated!Next, Generated!generatedVars, generatedVars

LEMMA GeneratedFlags ==
    ASSUME Generated!TypeOK, [Generated!Next]_generatedVars
    PROVE  FlagsKept
<1>0. known \in BOOLEAN /\ signalled \in BOOLEAN /\ abrupt \in BOOLEAN
  BY DEF Generated!TypeOK
<1>1. ASSUME NEW first, Generated!Begin(first) PROVE FlagsKept
  BY <1>0, <1>1, Zenon DEF FlagsKept, Generated!Begin
<1>2. CASE Generated!Start
  BY <1>1, <1>2, Zenon DEF Generated!Start, Generated!StartExpress, Generated!StartFastify, Generated!StartNest,
     Generated!StartPython, Generated!StartGo
<1>3. ASSUME NEW next, Generated!Answered(next), abrupt' \in BOOLEAN
      PROVE  FlagsKept
  BY <1>0, <1>3, Zenon DEF Generated!Answered, FlagsKept
<1>4. CASE Generated!Registered
  <2>1. abrupt' \in BOOLEAN
    BY <1>0, <1>4, Zenon DEF Generated!Registered, Generated!RegisteredExpress, Generated!RegisteredFastify,
       Generated!RegisteredNest, Generated!RegisteredPython, Generated!RegisteredGo
  <2> QED
    BY <1>3, <1>4, <2>1, Zenon DEF Generated!Registered, Generated!RegisteredExpress,
       Generated!RegisteredFastify, Generated!RegisteredNest, Generated!RegisteredPython,
       Generated!RegisteredGo
<1>5. ASSUME NEW next, Generated!Leave(next) PROVE FlagsKept
  BY <1>0, <1>5, Zenon DEF Generated!Leave, FlagsKept
<1>6. CASE Generated!Stop
  <2>1. CASE Generated!StopPythonEarly
    BY <1>0, <2>1, Zenon DEF Generated!StopPythonEarly, FlagsKept
  <2> QED
    BY <1>5, <1>6, <2>1, Zenon DEF Generated!Stop, Generated!StopExpress, Generated!StopFastify,
       Generated!StopNest, Generated!StopPython, Generated!StopGo
<1>7. CASE Generated!Paused
  BY <1>0, <1>7, Zenon DEF Generated!Paused, FlagsKept
<1>8. ASSUME NEW ended \in BOOLEAN, Generated!End(ended) PROVE FlagsKept
  BY <1>0, <1>8, Zenon DEF Generated!End, FlagsKept
<1>9. CASE Generated!Close \/ Generated!Crash
  BY <1>0, <1>8, <1>9, Zenon DEF Generated!Close, Generated!Crash
<1>10. CASE Generated!Throw
  BY <1>0, <1>10, Zenon DEF Generated!Throw, FlagsKept
<1>11. ASSUME NEW m \in requested, Generated!Register(m) \/ Generated!SetStatus(m) PROVE FlagsKept
  BY <1>0, <1>11, Zenon DEF Generated!Register, Generated!SetStatus, FlagsKept
<1>12. CASE UNCHANGED generatedVars
  BY <1>0, <1>12, Zenon DEF generatedVars, FlagsKept
<1> QED
  BY <1>2, <1>4, <1>6, <1>7, <1>9, <1>10, <1>11, <1>12, Zenon DEF Generated!Next

LEMMA RequestsOf ==
    ASSUME NEW S, NEW life
    PROVE  /\ Pausing(S \cup {[call |-> "register", life |-> life]}) <=> Pausing(S)
           /\ Registering(S \cup {[call |-> "register", life |-> life]})
           /\ Pausing(S \cup {[call |-> "pause", life |-> life]})
           /\ Registering(S \cup {[call |-> "pause", life |-> life]}) <=> Registering(S)
           /\ ~Pausing({}) /\ ~Registering({})
           /\ \A T \in SUBSET S : /\ Pausing(T) => Pausing(S)
                                  /\ Registering(T) => Registering(S)
           /\ \A m \in S : m.call = "register" => (Pausing(S \ {m}) <=> Pausing(S))
<1>1. [call |-> "register", life |-> life].call = "register"
      /\ [call |-> "pause", life |-> life].call = "pause"
  OBVIOUS
<1>2. /\ Pausing(S \cup {[call |-> "register", life |-> life]}) <=> Pausing(S)
      /\ Registering(S \cup {[call |-> "register", life |-> life]})
  BY <1>1 DEF Pausing, Registering
<1>3. /\ Pausing(S \cup {[call |-> "pause", life |-> life]})
      /\ Registering(S \cup {[call |-> "pause", life |-> life]}) <=> Registering(S)
  BY <1>1 DEF Pausing, Registering
<1>4. ~Pausing({}) /\ ~Registering({})
  BY DEF Pausing, Registering
<1>5. \A T \in SUBSET S : /\ Pausing(T) => Pausing(S)
                          /\ Registering(T) => Registering(S)
  BY DEF Pausing, Registering
<1>6. \A m \in S : m.call = "register" => (Pausing(S \ {m}) <=> Pausing(S))
  BY DEF Pausing
<1> QED
  BY <1>2, <1>3, <1>4, <1>5, <1>6

LEMMA GeneratedWaits ==
    ASSUME Generated!TypeOK, ShapeKept, Waits, Told, Generated!Next
    PROVE  Waits'
<1>k. UNCHANGED <<template, registry>>
  BY DEF ShapeKept
<1>t. template \in {"express", "fastify", "nest", "python", "go"}
      /\ phase \in {"down", "starting", "serving", "pausing", "closing"}
      /\ awaited \in {"none", "register", "pause"}
  BY DEF Generated!TypeOK, Generated!Templates, Generated!Calls
<1>1. ASSUME NEW first \in {"starting", "serving"}, Generated!Begin(first), first = "starting" <=> template # "express",
             template \in {"python", "go"} => first = "starting"
      PROVE  Waits'
  <2>1. Pausing(requested)' <=> Pausing(requested)
    BY <1>1, RequestsOf DEF Generated!Begin
  <2>2. /\ phase' = first /\ known' = FALSE /\ awaited' = "register" /\ UNCHANGED listed
    BY <1>1 DEF Generated!Begin
  <2> QED
    BY <1>k, <1>1, <2>1, <2>2 DEF Waits
<1>2. CASE Generated!Start
  BY <1>1, <1>2 DEF Generated!Start, Generated!StartExpress, Generated!StartFastify, Generated!StartNest,
     Generated!StartPython, Generated!StartGo
<1>3. ASSUME NEW next \in {"down", "serving", "closing"}, Generated!Answered(next)
      PROVE  Waits'
  <2>1. /\ phase' = next /\ awaited' = "none" /\ UNCHANGED <<requested, listed>>
        /\ awaited = "register" /\ (known' => Generated!Taken)
    BY <1>3 DEF Generated!Answered, Generated!Taken
  <2>2. known' => listed # "none"
    BY <2>1 DEF Told, ListedAsActive
  <2> QED
    BY <1>k, <1>3, <2>1, <2>2 DEF Waits
<1>4. CASE Generated!Registered
  <2>1. CASE Generated!RegisteredExpress
    <3>1. phase \in {"serving", "closing"}
      BY <2>1 DEF Generated!RegisteredExpress, Generated!Answered, Waits
    <3> QED
      BY <1>3, <2>1, <3>1 DEF Generated!RegisteredExpress
  <2> QED
    BY <1>3, <1>4, <2>1 DEF Generated!Registered, Generated!RegisteredFastify,
       Generated!RegisteredNest, Generated!RegisteredPython, Generated!RegisteredGo
<1>5. ASSUME Generated!Leave("closing"), template \in {"python", "go"} => phase = "serving", phase # "pausing"
      PROVE  Waits'
  <2>1. /\ phase' = "closing" /\ UNCHANGED <<known, listed, awaited, requested>>
    BY <1>5 DEF Generated!Leave
  <2> QED
    BY <1>k, <1>t, <1>5, <2>1 DEF Waits
<1>6. ASSUME Generated!Leave("pausing"), known, template \notin {"fastify", "nest"}
      PROVE  Waits'
  <2>1. /\ phase' = "pausing" /\ UNCHANGED <<known, listed>> /\ awaited' = "pause"
    BY <1>6 DEF Generated!Leave
  <2> QED
    BY <1>k, <1>t, <1>6, <2>1 DEF Waits
<1>7. CASE Generated!Stop
  <2>1. CASE Generated!StopPythonEarly
    BY <1>k, <2>1 DEF Generated!StopPythonEarly, Waits
  <2>2. Generated!PauseOr("closing") = "closing" \/ (Generated!PauseOr("closing") = "pausing" /\ known)
    BY DEF Generated!PauseOr
  <2> QED
    BY <1>5, <1>6, <1>7, <2>1, <2>2 DEF Generated!Stop, Generated!StopExpress, Generated!StopFastify,
       Generated!StopNest, Generated!StopPython, Generated!StopGo
<1>8. CASE Generated!Paused
  BY <1>k, <1>8 DEF Generated!Paused, Waits
<1>9. ASSUME NEW ended, Generated!End(ended) PROVE Waits'
  <2>1. phase' = "down" /\ known' = FALSE /\ awaited' = "none" /\ UNCHANGED <<requested, listed>>
    BY <1>9 DEF Generated!End
  <2> QED
    BY <1>k, <2>1 DEF Waits
<1>10. CASE Generated!Close \/ Generated!Crash
  BY <1>9, <1>10 DEF Generated!Close, Generated!Crash
<1>11. CASE Generated!Throw
  <2>1. /\ UNCHANGED <<phase, known, awaited, listed>> /\ (Pausing(requested') => Pausing(requested))
    BY <1>11, RequestsOf DEF Generated!Throw
  <2> QED
    BY <1>k, <2>1 DEF Waits
<1>12. ASSUME NEW m \in requested, Generated!Register(m) \/ Generated!SetStatus(m) PROVE Waits'
  <2>1. /\ UNCHANGED <<phase, known, awaited>> /\ (Pausing(requested') => Pausing(requested))
        /\ listed # "none" => listed' # "none"
    BY <1>12, RequestsOf DEF Generated!Register, Generated!SetStatus, Generated!Answer, Generated!Takes
  <2> QED
    BY <1>k, <2>1 DEF Waits
<1> QED
  BY <1>2, <1>4, <1>7, <1>8, <1>10, <1>11, <1>12 DEF Generated!Next

LEMMA GeneratedReports ==
    ASSUME Generated!TypeOK, ShapeKept, FlagsKept, Waits, Told, FirstOfAll, ListingReported, Generated!Next
    PROVE  Told' /\ FirstOfAll' /\ ListingReported'
<1> DEFINE Goal == Told' /\ FirstOfAll' /\ ListingReported'
<1>k. UNCHANGED <<template, registry>>
  BY DEF ShapeKept
<1>t. /\ template \in {"express", "fastify", "nest", "python", "go"}
      /\ phase \in {"down", "starting", "serving", "pausing", "closing"}
      /\ awaited \in {"none", "register", "pause"}
      /\ known \in BOOLEAN /\ signalled \in BOOLEAN /\ abrupt \in BOOLEAN /\ lives \in 0..3
      /\ known' \in BOOLEAN /\ abrupt' \in BOOLEAN
  BY DEF Generated!TypeOK, Generated!Templates, Generated!Calls, FlagsKept
<1>r. Generated!RegistersFirst = {"fastify", "nest", "python"}
  BY DEF Generated!RegistersFirst
<1>1. ASSUME NEW first \in {"starting", "serving"}, Generated!Begin(first),
             first = "starting" <=> template # "express"
                 \/ (template = "go" /\ first = "serving")
      PROVE  Goal
  <2>1. /\ phase = "down" /\ phase' = first /\ known' = FALSE /\ awaited' = "register" /\ reply' = "none"
        /\ UNCHANGED <<listed, abrupt>> /\ lives' = lives + 1
        /\ requested' = requested \cup {[call |-> "register", life |-> lives']}
    BY <1>1 DEF Generated!Begin
  <2>2. Pausing(requested') <=> Pausing(requested)
    BY <2>1, RequestsOf
  <2>3. Told'
    BY <1>1, <1>k, <1>r, <1>t, <2>1 DEF Told, Generated!Taken
  <2>4. FirstOfAll'
    <3>1. lives' # 0 /\ (lives' <= 1 => lives = 0)
      BY <1>t, <2>1
    <3>2. lives = 0 => listed # "PAUSED" /\ ~Pausing(requested')
      BY <2>2, RequestsOf DEF FirstOfAll
    <3> QED
      BY <2>1, <3>1, <3>2 DEF FirstOfAll
  <2>5. ListingReported'
    <3> SUFFICES ASSUME ~abrupt PROVE ListingReported'
      BY <2>1 DEF ListingReported
    <3>1. ~Registering(requested)
      BY <2>1 DEF ListingReported, Waits
    <3>2. \A m \in requested' : m.call = "register" => m.life = lives'
      BY <2>1, <3>1 DEF Registering
    <3>3. ~(awaited = "register") /\ phase # "serving"
      BY <2>1 DEF Waits
    <3>4. Tells' => Tells
      BY <1>k DEF Tells
    <3>5. Tells /\ listed = "ACTIVE" => Pausing(requested)
      BY <3>3 DEF ListingReported
    <3> QED
      BY <1>1, <2>1, <2>2, <3>2, <3>4, <3>5 DEF ListingReported
  <2> QED
    BY <2>3, <2>4, <2>5
<1>2. CASE Generated!Start
  BY <1>1, <1>2 DEF Generated!Start, Generated!StartExpress, Generated!StartFastify, Generated!StartNest,
     Generated!StartPython, Generated!StartGo
\* The registration is answered: the process serves when it was taken, ends when it was
\* refused, or goes on as it did.
<1>3. ASSUME NEW next \in {"down", "serving", "closing"}, Generated!Answered(next),
             next = "serving" => phase \in {"starting", "serving"},
             next = "serving" /\ template \in {"fastify", "nest", "python"} => Generated!Taken,
             abrupt => abrupt', next = "closing" => phase = "closing",
             ~abrupt' /\ next = "down" => reply # "id" \/ template \in {"fastify", "nest"}
      PROVE  Goal
  <2>1. /\ phase' = next /\ awaited' = "none" /\ reply' = "none" /\ UNCHANGED <<requested, listed, lives>>
        /\ awaited = "register" /\ reply # "none" /\ (known' <=> reply = "id" /\ next # "down")
    BY <1>3 DEF Generated!Answered
  <2>2. Told'
    <3>1. Generated!Taken => ListedAsActive
      BY <2>1 DEF Told
    <3>2. known' => Generated!Taken
      BY <2>1 DEF Generated!Taken
    <3>3. ListedAsActive => ListedAsActive'
      BY <2>1 DEF ListedAsActive
    <3> QED
      BY <1>3, <1>k, <1>r, <2>1, <3>1, <3>2, <3>3 DEF Told
  <2>3. FirstOfAll'
    <3>1. lives # 0
      BY <2>1 DEF FirstOfAll, Waits
    <3> QED
      BY <1>3, <2>1, <3>1 DEF FirstOfAll
  <2>4. ListingReported'
    <3> SUFFICES ASSUME ~abrupt, ~abrupt' PROVE ListingReported'
      BY <1>3 DEF ListingReported
    <3>1. ~Registering(requested)
      BY <2>1 DEF ListingReported
    <3>2. phase # "closing" /\ next # "closing"
      BY <1>3, <2>1 DEF ListingReported
    <3>3. Tells' /\ listed = "ACTIVE" => reply = "id" \/ Pausing(requested)
      <4>1. ~known
        BY <2>1 DEF Waits
      <4> QED
        BY <1>k, <4>1 DEF ListingReported, Tells
    <3>4. Tells' /\ reply = "id" => known' /\ phase' = "serving"
      BY <1>3, <1>k, <2>1, <3>2 DEF Tells
    <3> QED
      BY <1>3, <2>1, <3>1, <3>2, <3>3, <3>4 DEF ListingReported, Registering
  <2> QED
    BY <2>2, <2>3, <2>4
<1>4. CASE Generated!Registered
  <2>1. CASE Generated!RegisteredExpress
    <3>1. phase \in {"serving", "closing"}
      BY <2>1 DEF Generated!RegisteredExpress, Generated!Answered, Waits
    <3> QED
      BY <1>3, <2>1, <3>1 DEF Generated!RegisteredExpress
  <2>2. CASE Generated!RegisteredFastify
    BY <1>3, <2>2 DEF Generated!RegisteredFastify
  <2>3. CASE Generated!RegisteredNest
    <3>1. phase \in {"starting", "serving", "closing"}
      BY <2>3 DEF Generated!RegisteredNest, Generated!Answered, Waits
    <3> QED
      BY <1>3, <2>3, <3>1 DEF Generated!RegisteredNest
  <2>4. CASE Generated!RegisteredPython
    <3>1. phase = "starting"
      BY <2>4 DEF Generated!RegisteredPython, Generated!Answered, Waits
    <3> QED
      BY <1>3, <1>t, <2>4, <3>1 DEF Generated!RegisteredPython, Generated!Taken
  <2>5. CASE Generated!RegisteredGo
    <3>1. phase = "starting"
      BY <2>5 DEF Generated!RegisteredGo, Generated!Answered, Waits
    <3> QED
      BY <1>3, <2>5, <3>1 DEF Generated!RegisteredGo
  <2> QED
    BY <1>4, <2>1, <2>2, <2>3, <2>4, <2>5 DEF Generated!Registered
<1>5. ASSUME Generated!Leave("closing"), ~known \/ template \in {"fastify", "nest"}, phase \in {"starting", "serving"}
      PROVE  Goal
  <2>1. /\ phase' = "closing" /\ UNCHANGED <<known, listed, awaited, reply, requested, lives>>
        /\ abrupt' <=> abrupt \/ ~known
    BY <1>5 DEF Generated!Leave
  <2>2. Told' /\ FirstOfAll'
    <3>1. lives # 0
      BY <1>5 DEF FirstOfAll
    <3> QED
      BY <2>1, <3>1 DEF Told, FirstOfAll, ListedAsActive, Generated!Taken
  <2>3. ListingReported'
    <3> SUFFICES ASSUME ~abrupt, known PROVE ListingReported'
      BY <2>1 DEF ListingReported
    <3>1. awaited = "none"
      BY <1>5, <1>t DEF Waits
    <3>2. ~Tells'
      BY <1>5, <1>k DEF Tells
    <3> QED
      BY <2>1, <3>1, <3>2 DEF ListingReported
  <2> QED
    BY <2>2, <2>3
<1>6. ASSUME Generated!Leave("pausing"), known, phase = "serving"
      PROVE  Goal
  <2>1. /\ phase' = "pausing" /\ UNCHANGED <<known, listed, abrupt, reply, lives>> /\ awaited' = "pause"
        /\ requested' = requested \cup {[call |-> "pause", life |-> lives]}
    BY <1>6 DEF Generated!Leave
  <2>2. Told' /\ FirstOfAll'
    <3>1. lives # 0
      BY <1>6 DEF FirstOfAll
    <3> QED
      BY <2>1, <3>1 DEF Told, FirstOfAll
  <2>3. ListingReported'
    <3> SUFFICES ASSUME ~abrupt PROVE ListingReported'
      BY <2>1 DEF ListingReported
    <3>1. ~Registering(requested)
      BY <1>6 DEF Waits, ListingReported
    <3>2. ~Registering(requested') /\ Pausing(requested')
      BY <2>1, <3>1, RequestsOf
    <3> QED
      BY <2>1, <3>2 DEF ListingReported, Registering
  <2> QED
    BY <2>2, <2>3
<1>7. CASE Generated!Stop
  <2>1. CASE Generated!StopPythonEarly
    BY <1>k, <2>1 DEF Generated!StopPythonEarly, Told, FirstOfAll, ListingReported, ListedAsActive,
       Generated!Taken, Tells
  <2>2. \/ Generated!PauseOr("closing") = "closing" /\ ~known
        \/ Generated!PauseOr("closing") = "pausing" /\ known
    BY DEF Generated!PauseOr
  <2> QED
    BY <1>5, <1>6, <1>7, <2>1, <2>2 DEF Generated!Stop, Generated!StopExpress, Generated!StopFastify,
       Generated!StopNest, Generated!StopPython, Generated!StopGo
<1>8. CASE Generated!Paused
  <2>1. /\ phase = "pausing" /\ phase' = "closing" /\ awaited' = "none" /\ reply' = "none"
        /\ UNCHANGED <<lives, known, requested, listed, abrupt>>
    BY <1>8 DEF Generated!Paused
  <2>2. Told' /\ FirstOfAll'
    BY <2>1 DEF Told, FirstOfAll
  <2>3. ListingReported'
    <3> SUFFICES ASSUME ~abrupt PROVE ListingReported'
      BY <2>1 DEF ListingReported
    <3>1. awaited = "pause"
      BY <2>1 DEF ListingReported
    <3> QED
      BY <1>k, <2>1, <3>1 DEF ListingReported, Tells, Registering
  <2> QED
    BY <2>2, <2>3
<1>9. ASSUME NEW ended, Generated!End(ended), ended \/ (awaited = "none" /\ phase = "closing"),
             ended = abrupt \/ ended = TRUE
      PROVE Goal
  <2>1. /\ phase' = "down" /\ known' = FALSE /\ awaited' = "none" /\ reply' = "none"
        /\ UNCHANGED <<requested, listed, lives>> /\ abrupt' = ended
    BY <1>9 DEF Generated!End
  <2>2. Told' /\ FirstOfAll'
    BY <2>1 DEF Told, FirstOfAll
  <2>3. ListingReported'
    <3> SUFFICES ASSUME ~abrupt, awaited = "none", phase = "closing" PROVE ListingReported'
      BY <1>9, <2>1 DEF ListingReported
    <3> QED
      BY <1>k, <2>1 DEF ListingReported, Tells, Registering
  <2> QED
    BY <2>2, <2>3
<1>10. CASE Generated!Close
  <2>1. abrupt \/ awaited = "none"
    BY <1>10 DEF Generated!Close, ListingReported
  <2> QED
    BY <1>9, <1>10, <2>1 DEF Generated!Close
<1>11. CASE Generated!Crash
  BY <1>9, <1>11 DEF Generated!Crash
<1>12. CASE Generated!Throw
  <2>1. /\ UNCHANGED <<phase, lives, known, awaited, listed>> /\ (Pausing(requested') => Pausing(requested))
        /\ awaited # "none" /\ reply' = "threw" /\ abrupt'
    BY <1>12, RequestsOf DEF Generated!Throw
  <2>2. lives # 0
    BY <1>t, <2>1 DEF FirstOfAll, Waits
  <2> QED
    BY <1>k, <2>1, <2>2 DEF Told, FirstOfAll, ListingReported, ListedAsActive, Generated!Taken
<1>13. ASSUME NEW m \in requested, Generated!Register(m) PROVE Goal
  <2>1. /\ m.call = "register" /\ requested' = requested \ {m}
        /\ UNCHANGED <<phase, lives, known, awaited, abrupt>>
        /\ m.life = lives /\ awaited = "register" /\ reply = "none" =>
              reply' = IF ~Generated!Takes THEN "refused" ELSE IF registry = "expected" THEN "id" ELSE "noId"
        /\ ~(m.life = lives /\ awaited = "register" /\ reply = "none") => reply' = reply
        /\ listed' = IF Generated!Takes THEN "ACTIVE" ELSE listed
    BY <1>13 DEF Generated!Register, Generated!Answer
  <2>2. (Pausing(requested') <=> Pausing(requested)) /\ Registering(requested)
    BY <2>1, RequestsOf DEF Registering
  <2>3. lives # 0
    BY DEF FirstOfAll
  <2>4. /\ Generated!Takes => ListedAsActive'
        /\ ListedAsActive => ListedAsActive'
        /\ ~Generated!Takes => UNCHANGED listed /\ (reply' = reply \/ reply' = "refused")
    BY <2>1, <2>2 DEF ListedAsActive, Waits, Generated!Takes
  <2>5. Told'
    BY <1>k, <2>1, <2>4 DEF Told, Generated!Taken
  <2>6. FirstOfAll'
    BY <2>1, <2>2, <2>3, <2>4 DEF FirstOfAll, ListedAsActive
  <2>7. ListingReported'
    <3> SUFFICES ASSUME ~abrupt PROVE ListingReported'
      BY <2>1 DEF ListingReported
    <3>1. awaited = "register" /\ reply = "none" /\ m.life = lives
      BY <2>1, <2>2 DEF ListingReported
    <3>2. ~Registering(requested')
      <4> SUFFICES ASSUME NEW n \in requested, n.call = "register" PROVE n = m
        BY <2>1 DEF Registering
      <4>1. n.life = lives
        BY DEF ListingReported
      <4>2. n \in Generated!Request /\ m \in Generated!Request
        BY DEF Generated!TypeOK
      <4> QED
        BY <2>1, <3>1, <4>1, <4>2 DEF Generated!Request
    <3>3. CASE Generated!Takes
      <4>1. Tells' => reply' = "id"
        BY <1>k, <2>1, <3>1, <3>3 DEF Tells
      <4> QED
        BY <2>1, <3>1, <3>2, <4>1 DEF ListingReported, Registering
    <3>4. CASE ~Generated!Takes
      <4>1. UNCHANGED listed
        BY <2>1, <3>4
      <4> QED
        BY <1>k, <2>1, <2>2, <3>1, <3>2, <4>1 DEF ListingReported, Registering, Tells
    <3> QED
      BY <3>3, <3>4
  <2> QED
    BY <2>5, <2>6, <2>7
<1>14. ASSUME NEW m \in requested, Generated!SetStatus(m) PROVE Goal
  <2>1. /\ m.call = "pause" /\ requested' = requested \ {m} /\ listed' = "PAUSED"
        /\ UNCHANGED <<phase, lives, known, awaited, abrupt>>
        /\ awaited # "pause" => reply' = reply
    BY <1>14 DEF Generated!SetStatus, Generated!Answer
  <2>2. Pausing(requested) /\ lives # 0 /\ ~ListedAsActive
    BY <2>1 DEF Pausing, FirstOfAll, ListedAsActive
  <2>3. Told'
    BY <1>k, <2>1, <2>2 DEF Told, Generated!Taken
  <2>4. FirstOfAll'
    BY <2>1, <2>2 DEF FirstOfAll
  <2>5. ListingReported'
    <3> SUFFICES ASSUME ~abrupt PROVE ListingReported'
      BY <2>1 DEF ListingReported
    <3>1. Registering(requested') => Registering(requested)
      BY <2>1 DEF Registering
    <3> QED
      BY <2>1, <3>1 DEF ListingReported
  <2> QED
    BY <2>3, <2>4, <2>5
<1> QED
  BY <1>2, <1>4, <1>7, <1>8, <1>10, <1>11, <1>12, <1>13, <1>14 DEF Generated!Next

LEMMA GeneratedKept ==
    GeneratedInv /\ [Generated!Next]_generatedVars => GeneratedInv'
<1> SUFFICES ASSUME GeneratedInv, [Generated!Next]_generatedVars PROVE GeneratedInv'
  OBVIOUS
<1>1. ShapeKept /\ FlagsKept
  BY GeneratedShape, GeneratedFlags DEF GeneratedInv
<1>2. Generated!TypeOK'
  BY <1>1 DEF ShapeKept, FlagsKept, Generated!TypeOK, GeneratedInv
<1>3. CASE Generated!Next
  BY <1>1, <1>2, <1>3, GeneratedWaits, GeneratedReports DEF GeneratedInv
<1>4. CASE UNCHANGED generatedVars
  BY <1>2, <1>4 DEF GeneratedInv, Waits, Told, FirstOfAll, ListingReported, ListedAsActive, Tells,
     Generated!Taken, generatedVars
<1> QED
  BY <1>3, <1>4

LEMMA GeneratedBegins == Generated!Init => GeneratedInv
<1> SUFFICES ASSUME Generated!Init PROVE GeneratedInv
  OBVIOUS
<1>1. /\ phase = "down" /\ lives = 0 /\ awaited = "none" /\ reply = "none" /\ requested = {}
      /\ listed = "none" /\ generatedFaults = 0
      /\ template \in Generated!Templates /\ registry \in {"repository", "expected"}
  BY DEF Generated!Init
<1>2. known = FALSE /\ signalled = FALSE /\ abrupt = FALSE
  BY DEF Generated!Init
<1>3. known \in BOOLEAN /\ signalled \in BOOLEAN /\ abrupt \in BOOLEAN
  BY <1>2, Zenon
<1>4. generatedFaults \in 0..MaxExceptions /\ lives \in 0..3
  BY <1>1, ServicesAssumption DEF Generated!GeneratedAssumption
<1>5. Generated!TypeOK
  BY <1>1, <1>3, <1>4 DEF Generated!TypeOK, Generated!Calls
<1> QED
  BY <1>1, <1>2, <1>5 DEF GeneratedInv, Waits, Told, FirstOfAll, ListingReported, Pausing, Registering

LEMMA ListingsSound == GeneratedInv => Generated!ListingSound
<1> SUFFICES ASSUME GeneratedInv PROVE Generated!ListingSound
  OBVIOUS
<1>1. Generated!ListedWhileServing
  <2> SUFFICES ASSUME phase = "serving"
               PROVE  /\ template \in Generated!RegistersFirst \/ known => listed = "ACTIVE"
                      /\ listed = "PAUSED" => ~known /\ lives > 1
    BY DEF Generated!ListedWhileServing
  <2>1. template \in Generated!RegistersFirst \/ known => listed = "ACTIVE"
    BY DEF GeneratedInv, Told, ListedAsActive
  <2>2. listed = "PAUSED" => ~(lives <= 1)
    BY DEF GeneratedInv, FirstOfAll
  <2>3. lives \in 0..3
    BY DEF GeneratedInv, Generated!TypeOK
  <2>4. ~(lives <= 1) => lives > 1
    BY <2>3
  <2> QED
    BY <2>1, <2>2, <2>4
<1>2. Generated!LeftPaused
  <2> SUFFICES ASSUME phase = "down", listed = "ACTIVE", requested = {}, ~abrupt, registry # "repository",
                      template \notin {"fastify", "nest"}
               PROVE  FALSE
    BY DEF Generated!LeftPaused
  <2>1. Tells
    BY DEF Tells, GeneratedInv, Generated!TypeOK
  <2>2. ~Pausing(requested)
    BY DEF Pausing
  <2> QED
    BY <2>1, <2>2 DEF GeneratedInv, Waits, ListingReported
<1> QED
  BY <1>1, <1>2 DEF Generated!ListingSound

-----------------------------------------------------------------------------
\* What the registry's API and the facilitator say of agents, services, credentials, routes
\* and reputations, and the registry of a generated service, is as RecordsExact states it:
\* for any number of requests, payments, rows, callers and credentials, whatever throws or is
\* cut off, but for requests that overlap where it says so.
THEOREM RecordsAreKept == ServicesSpec => []RecordsExact
<1> DEFINE Inv == /\ part = "records" => RecordsInv
                  /\ part = "verification" => VerifyingInv
                  /\ part = "facilitator" => FacilitatorInv
                  /\ part = "credentials" => CredentialInv
                  /\ part = "generated" => GeneratedInv
<1>1. ServicesInit => Inv
  BY RecordsBegin, VerifyingBegins, FacilitatorBegins, CredentialBegins, GeneratedBegins
     DEF ServicesInit
<1>2. Inv /\ [ServicesNext]_servicesVars => Inv'
  <2> SUFFICES ASSUME Inv, [ServicesNext]_servicesVars PROVE Inv'
    OBVIOUS
  <2>1. /\ part = "records" => [Records!Next]_recordVars
        /\ part = "verification" => [Verifying!Next]_verificationVars
        /\ part = "facilitator" => [Facilitator!Next]_facilitatorVars
        /\ part = "credentials" => [Credential!Next]_credentialVars
        /\ part = "generated" => [Generated!Next]_generatedVars
        /\ part' = part
    BY DEF ServicesNext, servicesVars
  <2> QED
    BY <2>1, RecordsInvKept, VerifyingKept, FacilitatorKept, CredentialKept, GeneratedKept
<1>3. Inv => RecordsExact
  BY RecordsAreExact, VerifiedProven, FacilitatorRecordsKept, CredentialsHold, ListingsSound
     DEF RecordsExact
<1> QED
  BY <1>1, <1>2, <1>3, PTL DEF ServicesSpec

-----------------------------------------------------------------------------
\* The Merkle trees of the credentials. What a recursive function over the first k numbers
\* computes is proved by a smallest counterexample.

\* A function on 1..n, for some positive n, which is its length
List(l) == Len(l) \in Nat \ {0} /\ l = [i \in 1..Len(l) |-> l[i]]

LEMMA ListLength ==
    ASSUME NEW l, List(l) PROVE Len(l) \in Nat /\ Len(l) >= 1 /\ (Len(l) = 1 \/ Len(l) > 1)
BY DEF List

LEMMA FunctionLength ==
    ASSUME NEW n \in Nat, NEW f, f = [i \in 1..n |-> f[i]]
    PROVE  Len(f) = n
<1>1. f \in [1..n -> {f[i] : i \in 1..n}]
  OBVIOUS
<1>2. f \in Seq({f[i] : i \in 1..n})
  BY <1>1
<1> QED
  BY <1>1, <1>2

\* The next level: its i-th node is the pair of the two below.
LEMMA NextLevelIs ==
    ASSUME NEW l, List(l)
    PROVE  LET next == Credential!NextLevel(l)
           IN  /\ List(next) /\ Len(next) = (Len(l) + 1) \div 2
               /\ \A i \in 1..Len(next) :
                     /\ 2 * i - 1 \in 1..Len(l)
                     /\ 2 * i <= Len(l) => next[i] = <<l[2 * i - 1], l[2 * i]>>
                     /\ 2 * i > Len(l) => next[i] = <<l[2 * i - 1], l[2 * i - 1]>>
<1> DEFINE next == Credential!NextLevel(l)
           n == (Len(l) + 1) \div 2
<1>1. n \in Nat \ {0}
  BY DEF List
<1>2. next = [i \in 1..n |-> <<l[2 * i - 1], IF 2 * i <= Len(l) THEN l[2 * i] ELSE l[2 * i - 1]>>]
  BY DEF Credential!NextLevel
<1>3. next = [i \in 1..n |-> next[i]]
  BY <1>2
<1>4. Len(next) = n
  <2> HIDE DEF next, n
  <2> QED
    BY <1>1, <1>3, FunctionLength
<1>5. ASSUME NEW i \in 1..n PROVE 2 * i - 1 \in 1..Len(l)
  BY DEF List
<1>6. ASSUME NEW i \in 1..n
      PROVE  /\ 2 * i <= Len(l) => next[i] = <<l[2 * i - 1], l[2 * i]>>
             /\ ~(2 * i <= Len(l)) => next[i] = <<l[2 * i - 1], l[2 * i - 1]>>
  BY <1>2, Zenon
<1>7. \A i \in 1..n : 2 * i > Len(l) <=> ~(2 * i <= Len(l))
  BY <1>1 DEF List
<1>8. List(next)
  <2> HIDE DEF next, n
  <2> QED
    BY <1>1, <1>3, <1>4 DEF List
<1> QED
  BY <1>4, <1>5, <1>6, <1>7, <1>8, Zenon

\* The levels, the k-th from the one below it
AreLevels(l, k, level) ==
    level = [n \in 0..k |-> IF n = 0 THEN l ELSE Credential!NextLevel(level[n - 1])]

LEMMA LevelsExist ==
    ASSUME NEW l, NEW k \in Nat
    PROVE  \E level : AreLevels(l, k, level)
<1> DEFINE Bad == {i \in Nat : ~ \E level : AreLevels(l, i, level)}
<1>1. Bad = {}
  <2> SUFFICES ASSUME Bad # {} PROVE FALSE
    OBVIOUS
  <2>1. PICK m \in Bad : \A i \in Bad : m <= i
    <3> HIDE DEF Bad
    <3>1. Bad \in SUBSET Nat
      BY DEF Bad
    <3> QED
      BY <3>1, SmallestNumber
  <2>2. m # 0
    <3>1. AreLevels(l, 0, [i \in 0..0 |-> l])
      BY DEF AreLevels
    <3> QED
      BY <3>1
  <2>3. m - 1 \in Nat /\ m - 1 \notin Bad
    BY <2>1, <2>2
  <2>4. PICK before : AreLevels(l, m - 1, before)
    BY <2>3
  <2> DEFINE last == Credential!NextLevel(before[m - 1])
             level == [i \in 0..m |-> IF i = m THEN last ELSE before[i]]
  <2>5. \A i \in 0..(m - 1) : before[i] = IF i = 0 THEN l ELSE Credential!NextLevel(before[i - 1])
    BY <2>4 DEF AreLevels
  <2> HIDE DEF last
  <2>6. level[m] = last /\ \A i \in 0..(m - 1) : level[i] = before[i]
    BY <2>3
  <2>7. ASSUME NEW i \in 0..m
        PROVE  level[i] = IF i = 0 THEN l ELSE Credential!NextLevel(level[i - 1])
    <3> HIDE DEF level
    <3>1. CASE i = m
      <4>1. level[i - 1] = before[m - 1]
        BY <2>3, <2>6, <3>1
      <4> QED
        BY <4>1, <2>2, <2>6, <3>1 DEF last
    <3>2. CASE i = 0
      <4>1. 0 \in 0..(m - 1)
        BY <2>3
      <4> QED
        BY <3>2, <4>1, <2>5, <2>6
    <3>3. CASE i # m /\ i # 0
      <4>1. i \in 0..(m - 1) /\ i - 1 \in 0..(m - 1)
        BY <3>3
      <4> QED
        BY <3>3, <4>1, <2>5, <2>6
    <3> QED
      BY <3>1, <3>2, <3>3
  <2>8. AreLevels(l, m, level)
    BY <2>7 DEF AreLevels
  <2> QED
    BY <2>1, <2>8
<1> QED
  BY <1>1

LEMMA LevelIs ==
    ASSUME NEW l, Len(l) \in Nat
    PROVE  LET level == Credential!Level(l)
           IN  /\ level[0] = l
               /\ \A n \in 1..Len(l) : level[n] = Credential!NextLevel(level[n - 1])
<1> DEFINE level == Credential!Level(l)
<1>1. level = CHOOSE f : AreLevels(l, Len(l), f)
  BY DEF Credential!Level, AreLevels
<1>2. AreLevels(l, Len(l), level)
  <2> HIDE DEF level
  <2> QED
    BY <1>1, LevelsExist
<1>3. \A n \in 0..Len(l) : level[n] = IF n = 0 THEN l ELSE Credential!NextLevel(level[n - 1])
  BY <1>2, Zenon DEF AreLevels
<1>4. 0 \in 0..Len(l) /\ \A n \in 1..Len(l) : n \in 0..Len(l) /\ n # 0
  OBVIOUS
<1>5. /\ level[0] = l
      /\ \A n \in 1..Len(l) : level[n] = Credential!NextLevel(level[n - 1])
  <2> HIDE DEF level
  <2> QED
    BY <1>3, <1>4, Zenon
<1> QED
  BY <1>5

Distinct(l) == \A i, j \in 1..Len(l) : l[i] = l[j] => i = j

LEMMA NextDistinct ==
    ASSUME NEW l, List(l), Distinct(l)
    PROVE  Distinct(Credential!NextLevel(l))
<1> DEFINE next == Credential!NextLevel(l)
<1>1. \A i \in 1..Len(next) : i \in Nat /\ 2 * i - 1 \in 1..Len(l) /\ next[i][1] = l[2 * i - 1]
  <2> TAKE i \in 1..Len(next)
  <2>1. next[i] = <<l[2 * i - 1], l[2 * i]>> \/ next[i] = <<l[2 * i - 1], l[2 * i - 1]>>
    <3>1. Len(next) \in Nat /\ Len(l) \in Nat
      BY NextLevelIs DEF List
    <3>2. i \in Nat /\ (2 * i <= Len(l) \/ 2 * i > Len(l))
      BY <3>1
    <3> QED
      BY <3>2, NextLevelIs
  <2>2. 2 * i - 1 \in 1..Len(l)
    BY NextLevelIs
  <2> HIDE DEF next
  <2> QED
    BY <2>1, <2>2
<1> HIDE DEF next
<1>2. ASSUME NEW i \in 1..Len(next), NEW j \in 1..Len(next), next[i] = next[j] PROVE i = j
  <2>1. l[2 * i - 1] = l[2 * j - 1]
    BY <1>1, <1>2
  <2>2. 2 * i - 1 = 2 * j - 1
    BY <1>1, <2>1, Zenon DEF Distinct
  <2> QED
    BY <1>1, <2>2
<1> QED
  BY <1>2 DEF Distinct, next

\* No two lists of different nodes have the same next level: a node that was left over is
\* with itself, and two others are different.
LEMMA NextLevelTells ==
    ASSUME NEW a, NEW b, List(a), List(b), Distinct(a), Distinct(b),
           Credential!NextLevel(a) = Credential!NextLevel(b)
    PROVE  a = b
<1> DEFINE next == Credential!NextLevel(a)
           n == Len(next)
<1>1. /\ n \in Nat \ {0} /\ n = (Len(a) + 1) \div 2 /\ n = (Len(b) + 1) \div 2
      /\ Len(a) \in Nat \ {0} /\ Len(b) \in Nat \ {0}
  BY NextLevelIs DEF List
<1>2. \A i \in 1..n : /\ 2 * i <= Len(a) => next[i] = <<a[2 * i - 1], a[2 * i]>>
                      /\ 2 * i > Len(a) => next[i] = <<a[2 * i - 1], a[2 * i - 1]>>
                      /\ 2 * i <= Len(b) => next[i] = <<b[2 * i - 1], b[2 * i]>>
                      /\ 2 * i > Len(b) => next[i] = <<b[2 * i - 1], b[2 * i - 1]>>
  BY NextLevelIs
<1> HIDE DEF next, n
<1>3. ASSUME NEW i \in 1..n
      PROVE  /\ a[2 * i - 1] = b[2 * i - 1]
             /\ 2 * i <= Len(a) /\ 2 * i <= Len(b) => a[2 * i] = b[2 * i]
             /\ 2 * i <= Len(a) /\ 2 * i > Len(b) => a[2 * i - 1] = a[2 * i]
             /\ 2 * i > Len(a) /\ 2 * i <= Len(b) => b[2 * i - 1] = b[2 * i]
  BY <1>1, <1>2
<1>4. n \in 1..n /\ Len(a) \in {2 * n - 1, 2 * n} /\ Len(b) \in {2 * n - 1, 2 * n}
  BY <1>1
<1>5. Len(a) = Len(b)
  <2>1. ASSUME Len(a) = 2 * n, Len(b) = 2 * n - 1 PROVE FALSE
    <3>1. a[2 * n - 1] = a[2 * n]
      BY <1>1, <1>3, <1>4, <2>1
    <3>2. 2 * n - 1 \in 1..Len(a) /\ 2 * n \in 1..Len(a) /\ 2 * n - 1 # 2 * n
      BY <1>1, <2>1
    <3> QED
      BY <3>1, <3>2, Zenon DEF Distinct
  <2>2. ASSUME Len(b) = 2 * n, Len(a) = 2 * n - 1 PROVE FALSE
    <3>1. b[2 * n - 1] = b[2 * n]
      BY <1>1, <1>3, <1>4, <2>2
    <3>2. 2 * n - 1 \in 1..Len(b) /\ 2 * n \in 1..Len(b) /\ 2 * n - 1 # 2 * n
      BY <1>1, <2>2
    <3> QED
      BY <3>1, <3>2, Zenon DEF Distinct
  <2> QED
    BY <1>4, <2>1, <2>2
<1>6. ASSUME NEW j \in 1..Len(a) PROVE a[j] = b[j]
  <2>1. \E i \in 1..n : j = 2 * i - 1 \/ j = 2 * i
    <3>1. (j + 1) \div 2 \in 1..n /\ (j = 2 * ((j + 1) \div 2) - 1 \/ j = 2 * ((j + 1) \div 2))
      BY <1>1
    <3> QED
      BY <3>1
  <2>2. PICK i \in 1..n : j = 2 * i - 1 \/ j = 2 * i
    BY <2>1
  <2> QED
    BY <1>3, <1>5, <2>2
<1> QED
  BY <1>5, <1>6 DEF List

\* What is true of every level
LEMMA LevelsAre ==
    ASSUME NEW l, List(l)
    PROVE  LET level == Credential!Level(l)
           IN  \A n \in 0..Len(l) :
                  /\ List(level[n]) /\ (Len(level[n]) = 1 \/ Len(level[n]) <= Len(l) - n)
                  /\ Distinct(l) => Distinct(level[n])
<1> DEFINE level == Credential!Level(l)
           Good(n) == /\ List(level[n]) /\ (Len(level[n]) = 1 \/ Len(level[n]) <= Len(l) - n)
                      /\ Distinct(l) => Distinct(level[n])
           Bad == {n \in 0..Len(l) : ~Good(n)}
<1>1. Len(l) \in Nat
  BY DEF List
<1>2. level[0] = l /\ \A n \in 1..Len(l) : level[n] = Credential!NextLevel(level[n - 1])
  BY <1>1, LevelIs
<1> HIDE DEF level
<1>3. Bad = {}
  <2> SUFFICES ASSUME Bad # {} PROVE FALSE
    OBVIOUS
  <2>1. PICK n \in Bad : \A i \in Bad : n <= i
    <3> HIDE DEF Bad
    <3>1. Bad \in SUBSET Nat
      BY <1>1 DEF Bad
    <3> QED
      BY <3>1, SmallestNumber
  <2>2. Good(0)
    BY <1>1, <1>2
  <2>3. n \in 1..Len(l) /\ n - 1 \in 0..Len(l) /\ n - 1 \notin Bad
    <3> HIDE DEF Good
    <3> QED
      BY <1>1, <2>1, <2>2
  <2>4. Good(n - 1) /\ level[n] = Credential!NextLevel(level[n - 1])
    BY <1>2, <2>3
  <2>5. List(level[n]) /\ Len(level[n]) = (Len(level[n - 1]) + 1) \div 2
    BY <2>4, NextLevelIs
  <2>6. Distinct(l) => Distinct(level[n])
    BY <2>4, NextDistinct
  <2>7. Len(level[n]) = 1 \/ Len(level[n]) <= Len(l) - n
    <3>1. ASSUME NEW m \in Nat \ {0}, NEW k \in Nat, m = 1 \/ m <= k - (n - 1)
          PROVE  (m + 1) \div 2 = 1 \/ (m + 1) \div 2 <= k - n
      BY <2>3, <3>1
    <3>2. /\ Len(level[n - 1]) \in Nat \ {0}
          /\ Len(level[n - 1]) = 1 \/ Len(level[n - 1]) <= Len(l) - (n - 1)
      BY <2>4 DEF List
    <3> QED
      BY <1>1, <2>5, <3>1, <3>2
  <2> QED
    BY <2>1, <2>5, <2>6, <2>7
<1> QED
  BY <1>3 DEF level

\* How many levels there are
LEMMA HeightIs ==
    ASSUME NEW l, List(l)
    PROVE  LET level == Credential!Level(l)
               h == Credential!Height(level)
           IN  /\ h \in 0..Len(l) /\ Len(level[h]) = 1
               /\ \A m \in 0..(h - 1) : Len(level[m]) > 1
<1> DEFINE level == Credential!Level(l)
           h == Credential!Height(level)
           One == {n \in 0..Len(l) : Len(level[n]) = 1}
<1>1. Len(l) \in Nat \ {0} /\ level[0] = l
  BY LevelIs DEF List
<1>2. \A n \in 0..Len(l) : List(level[n]) /\ (Len(level[n]) = 1 \/ Len(level[n]) <= Len(l) - n)
  BY LevelsAre
<1>3. h = CHOOSE n \in 0..Len(level[0]) : Len(level[n]) = 1 /\ \A m \in 0..(n - 1) : Len(level[m]) > 1
  BY DEF Credential!Height
<1> HIDE DEF level, h
<1>4. \A n \in 0..Len(l) : Len(level[n]) = 1 \/ Len(level[n]) > 1
  BY <1>2, ListLength, Zenon
<1>5. Len(l) \in One
  <2>1. Len(l) \in 0..Len(l)
    BY <1>1
  <2>2. Len(level[Len(l)]) = 1 \/ Len(level[Len(l)]) <= Len(l) - Len(l)
    BY <1>2, <2>1, Zenon
  <2>3. Len(level[Len(l)]) \in Nat /\ Len(level[Len(l)]) >= 1
    BY <1>2, <2>1, ListLength, Zenon
  <2>4. Len(level[Len(l)]) = 1
    BY <1>1, <2>2, <2>3
  <2> QED
    BY <2>1, <2>4
<1>6. PICK n \in One : \A i \in One : n <= i
  <2> HIDE DEF One
  <2>1. One \in SUBSET Nat
    BY <1>1 DEF One
  <2> QED
    BY <1>5, <2>1, SmallestNumber
<1>7. \A m \in 0..(n - 1) : Len(level[m]) > 1
  <2> TAKE m \in 0..(n - 1)
  <2>1. m \in 0..Len(l) /\ m \notin One
    <3> HIDE DEF One
    <3> QED
      BY <1>1, <1>6 DEF One
  <2> QED
    BY <1>4, <2>1, Zenon
<1>8. n \in 0..Len(level[0]) /\ Len(level[n]) = 1
  BY <1>1, <1>6
<1> QED
  BY <1>1, <1>3, <1>7, <1>8, Zenon DEF level, h

LEMMA FirstBelow ==
    ASSUME NEW l, List(l), NEW n \in 1..Len(l)
    PROVE  LET level == Credential!Level(l)
           IN  \E y : level[n][1] = <<level[n - 1][1], y>>
<1> DEFINE level == Credential!Level(l)
           below == level[n - 1]
<1>1. n - 1 \in 0..Len(l) /\ Len(l) \in Nat
  BY DEF List
<1>2. List(below) /\ level[n] = Credential!NextLevel(below)
  BY <1>1, LevelsAre, LevelIs
<1> HIDE DEF level, below
<1>3. 1 \in 1..Len(Credential!NextLevel(below)) /\ Len(below) \in Nat
  BY <1>2, NextLevelIs DEF List
<1>4. 2 * 1 - 1 = 1 /\ (2 * 1 <= Len(below) \/ 2 * 1 > Len(below))
  BY <1>3
<1>5. \E y : level[n][1] = <<below[1], y>>
  BY <1>2, <1>3, <1>4, NextLevelIs
<1> QED
  BY <1>5 DEF level, below

\* What is at the bottom is no hash of two nodes, which tells apart how far up the roots are.
AreLeaves(l) == \A i \in 1..Len(l) : \E c : l[i] = Credential!Commitment(c)

LEMMA NotHigher ==
    ASSUME NEW a, NEW b, List(a), List(b), AreLeaves(b), Credential!Root(a) = Credential!Root(b)
    PROVE  Credential!Height(Credential!Level(a)) <= Credential!Height(Credential!Level(b))
<1> DEFINE A == Credential!Level(a)
           B == Credential!Level(b)
           h == Credential!Height(A)
           k == Credential!Height(B)
           Apart == {d \in 0..k : A[h - d][1] # B[k - d][1]}
<1>1. /\ Len(a) \in Nat /\ Len(b) \in Nat /\ h \in 0..Len(a) /\ k \in 0..Len(b)
      /\ 1 \in 1..Len(b) /\ B[0] = b
  BY HeightIs, LevelIs DEF List
<1>2. A[h][1] = B[k][1]
  BY DEF Credential!Root
<1>3. /\ \A n \in 1..Len(a) : \E y : A[n][1] = <<A[n - 1][1], y>>
      /\ \A n \in 1..Len(b) : \E y : B[n][1] = <<B[n - 1][1], y>>
  BY FirstBelow
<1> HIDE DEF A, B, h, k
<1>4. SUFFICES ASSUME h > k PROVE FALSE
  BY <1>1 DEF A, B, h, k
<1>5. Apart = {}
  <2> SUFFICES ASSUME Apart # {} PROVE FALSE
    OBVIOUS
  <2>1. PICK d \in Apart : \A i \in Apart : d <= i
    <3> HIDE DEF Apart
    <3>1. Apart \in SUBSET Nat
      BY <1>1 DEF Apart
    <3> QED
      BY <3>1, SmallestNumber
  <2>2. d \in Nat /\ d # 0 /\ d <= k
    BY <1>1, <1>2, <2>1
  <2>3. d - 1 \in 0..k /\ d - 1 \notin Apart
    <3> HIDE DEF Apart
    <3> QED
      BY <1>1, <2>1, <2>2
  <2>4. A[h - (d - 1)][1] = B[k - (d - 1)][1]
    BY <2>3
  <2>5. /\ h - (d - 1) \in 1..Len(a) /\ h - (d - 1) - 1 = h - d
        /\ k - (d - 1) \in 1..Len(b) /\ k - (d - 1) - 1 = k - d
    BY <1>1, <1>4, <2>2
  <2>6. PICK y : A[h - (d - 1)][1] = <<A[h - d][1], y>>
    BY <1>3, <2>5
  <2>7. PICK z : B[k - (d - 1)][1] = <<B[k - d][1], z>>
    BY <1>3, <2>5
  <2>8. <<A[h - d][1], y>> = <<B[k - d][1], z>>
    BY <2>4, <2>6, <2>7, Zenon
  <2>9. A[h - d][1] = B[k - d][1]
    BY <2>8
  <2> QED
    BY <2>1, <2>9
<1>6. A[h - k][1] = b[1]
  <2>1. k \in 0..k /\ k - k = 0
    BY <1>1
  <2>2. k \notin Apart
    BY <1>5, Zenon
  <2> QED
    BY <1>1, <2>1, <2>2
<1>7. h - k \in 1..Len(a)
  BY <1>1, <1>4
<1>8. PICK y : b[1] = <<A[h - k - 1][1], y>>
  BY <1>3, <1>6, <1>7
<1>9. PICK c : b[1] = <<"claim", "secret", c>>
  BY <1>1 DEF AreLeaves, Credential!Commitment
<1> QED
  BY <1>8, <1>9

\* Two lists of different leaves that have the same root are one.
LEMMA RootTells ==
    ASSUME NEW a, NEW b, List(a), List(b), AreLeaves(a), AreLeaves(b), Distinct(a), Distinct(b),
           Credential!Root(a) = Credential!Root(b)
    PROVE  a = b
<1> DEFINE A == Credential!Level(a)
           B == Credential!Level(b)
           h == Credential!Height(A)
           Apart == {d \in 0..h : A[h - d] # B[h - d]}
<1>1. h = Credential!Height(B)
  <2>1. h <= Credential!Height(B) /\ Credential!Height(B) <= h
    BY NotHigher
  <2>2. h \in Int /\ Credential!Height(B) \in Int
    BY HeightIs DEF List
  <2> HIDE DEF A, B, h
  <2> QED
    BY <2>1, <2>2
<1>2. /\ Len(a) \in Nat /\ Len(b) \in Nat /\ h \in 0..Len(a) /\ h \in 0..Len(b)
      /\ Len(A[h]) = 1 /\ Len(B[h]) = 1 /\ A[0] = a /\ B[0] = b
  BY <1>1, HeightIs, LevelIs DEF List
<1>3. A[h][1] = B[h][1]
  BY <1>1 DEF Credential!Root
<1>4. /\ \A n \in 0..Len(a) : List(A[n]) /\ Distinct(A[n])
      /\ \A n \in 0..Len(b) : List(B[n]) /\ Distinct(B[n])
      /\ \A n \in 1..Len(a) : A[n] = Credential!NextLevel(A[n - 1])
      /\ \A n \in 1..Len(b) : B[n] = Credential!NextLevel(B[n - 1])
  BY <1>2, LevelsAre, LevelIs
<1> HIDE DEF A, B, h
<1>5. A[h] = B[h]
  <2>1. A[h] = [i \in 1..1 |-> A[h][i]] /\ B[h] = [i \in 1..1 |-> B[h][i]]
    BY <1>2, <1>4, Zenon DEF List
  <2>2. [i \in 1..1 |-> A[h][i]] = [i \in 1..1 |-> B[h][i]]
    BY <1>3
  <2> QED
    BY <2>1, <2>2, Zenon
<1>6. Apart = {}
  <2> SUFFICES ASSUME Apart # {} PROVE FALSE
    OBVIOUS
  <2>1. PICK d \in Apart : \A i \in Apart : d <= i
    <3> HIDE DEF Apart
    <3>1. Apart \in SUBSET Nat
      BY <1>2 DEF Apart
    <3> QED
      BY <3>1, SmallestNumber
  <2>2. d \in Nat /\ d # 0 /\ d <= h
    BY <1>2, <1>5, <2>1
  <2>3. d - 1 \in 0..h /\ d - 1 \notin Apart
    <3> HIDE DEF Apart
    <3> QED
      BY <1>2, <2>1, <2>2
  <2>4. A[h - (d - 1)] = B[h - (d - 1)]
    BY <2>3
  <2>5. /\ h - (d - 1) \in 1..Len(a) /\ h - (d - 1) \in 1..Len(b) /\ h - (d - 1) - 1 = h - d
        /\ h - d \in 0..Len(a) /\ h - d \in 0..Len(b)
    BY <1>2, <2>2
  <2>6. Credential!NextLevel(A[h - d]) = Credential!NextLevel(B[h - d])
    BY <1>4, <2>4, <2>5
  <2>7. A[h - d] = B[h - d]
    BY <1>4, <2>5, <2>6, NextLevelTells
  <2> QED
    BY <2>1, <2>7
<1>7. h \in 0..h /\ h - h = 0 /\ h \notin Apart
  <2> HIDE DEF Apart
  <2> QED
    BY <1>2, <1>6
<1> QED
  BY <1>2, <1>7

\* The way up from the j-th leaf
IsWay(j, k, way) == way = [n \in 0..k |-> IF n = 0 THEN j ELSE (way[n - 1] + 1) \div 2]

LEMMA WayExists ==
    ASSUME NEW j, NEW k \in Nat
    PROVE  \E way : IsWay(j, k, way)
<1> DEFINE Bad == {i \in Nat : ~ \E way : IsWay(j, i, way)}
<1>1. Bad = {}
  <2> SUFFICES ASSUME Bad # {} PROVE FALSE
    OBVIOUS
  <2>1. PICK m \in Bad : \A i \in Bad : m <= i
    <3> HIDE DEF Bad
    <3>1. Bad \in SUBSET Nat
      BY DEF Bad
    <3> QED
      BY <3>1, SmallestNumber
  <2>2. m # 0
    <3>1. IsWay(j, 0, [i \in 0..0 |-> j])
      BY DEF IsWay
    <3> QED
      BY <3>1
  <2>3. m - 1 \in Nat /\ m - 1 \notin Bad
    BY <2>1, <2>2
  <2>4. PICK before : IsWay(j, m - 1, before)
    BY <2>3
  <2> DEFINE last == (before[m - 1] + 1) \div 2
             way == [i \in 0..m |-> IF i = m THEN last ELSE before[i]]
  <2>5. \A i \in 0..(m - 1) : before[i] = IF i = 0 THEN j ELSE (before[i - 1] + 1) \div 2
    BY <2>4 DEF IsWay
  <2> HIDE DEF last
  <2>6. way[m] = last /\ \A i \in 0..(m - 1) : way[i] = before[i]
    BY <2>3
  <2>7. ASSUME NEW i \in 0..m
        PROVE  way[i] = IF i = 0 THEN j ELSE (way[i - 1] + 1) \div 2
    <3> HIDE DEF way
    <3>1. CASE i = m
      <4>1. way[i - 1] = before[m - 1]
        BY <2>3, <2>6, <3>1
      <4> QED
        BY <4>1, <2>2, <2>6, <3>1 DEF last
    <3>2. CASE i = 0
      <4>1. 0 \in 0..(m - 1)
        BY <2>3
      <4> QED
        BY <3>2, <4>1, <2>5, <2>6
    <3>3. CASE i # m /\ i # 0
      <4>1. i \in 0..(m - 1) /\ i - 1 \in 0..(m - 1)
        BY <3>3
      <4> QED
        BY <3>3, <4>1, <2>5, <2>6
    <3> QED
      BY <3>1, <3>2, <3>3
  <2>8. IsWay(j, m, way)
    BY <2>7 DEF IsWay
  <2> QED
    BY <2>1, <2>8
<1> QED
  BY <1>1

LEMMA WayIs ==
    ASSUME NEW j, NEW k \in Nat
    PROVE  LET way == Credential!Way(j, k)
           IN  way[0] = j /\ \A n \in 1..k : way[n] = (way[n - 1] + 1) \div 2
<1> DEFINE way == Credential!Way(j, k)
<1>1. way = CHOOSE f : IsWay(j, k, f)
  BY DEF Credential!Way, IsWay
<1>2. IsWay(j, k, way)
  <2> HIDE DEF way
  <2> QED
    BY <1>1, WayExists
<1>3. \A n \in 0..k : way[n] = IF n = 0 THEN j ELSE (way[n - 1] + 1) \div 2
  BY <1>2, Zenon DEF IsWay
<1>4. 0 \in 0..k /\ \A n \in 1..k : n \in 0..k /\ n # 0
  OBVIOUS
<1>5. way[0] = j /\ \A n \in 1..k : way[n] = (way[n - 1] + 1) \div 2
  <2> HIDE DEF way
  <2> QED
    BY <1>3, <1>4, Zenon
<1> QED
  BY <1>5

\* What a leaf and its siblings are hashed to
Parent(x, i, sibling) == IF Credential!IsLeft(i) THEN <<x, sibling>> ELSE <<sibling, x>>
IsClimb(x, way, siblings, k, climb) ==
    climb = [n \in 0..k |-> IF n = 0 THEN x ELSE Parent(climb[n - 1], way[n - 1], siblings[n])]

LEMMA ClimbExists ==
    ASSUME NEW x, NEW way, NEW siblings, NEW k \in Nat
    PROVE  \E climb : IsClimb(x, way, siblings, k, climb)
<1> DEFINE Bad == {i \in Nat : ~ \E climb : IsClimb(x, way, siblings, i, climb)}
<1>1. Bad = {}
  <2> SUFFICES ASSUME Bad # {} PROVE FALSE
    OBVIOUS
  <2>1. PICK m \in Bad : \A i \in Bad : m <= i
    <3> HIDE DEF Bad
    <3>1. Bad \in SUBSET Nat
      BY DEF Bad
    <3> QED
      BY <3>1, SmallestNumber
  <2>2. m # 0
    <3>1. IsClimb(x, way, siblings, 0, [i \in 0..0 |-> x])
      BY DEF IsClimb
    <3> QED
      BY <3>1
  <2>3. m - 1 \in Nat /\ m - 1 \notin Bad
    BY <2>1, <2>2
  <2>4. PICK before : IsClimb(x, way, siblings, m - 1, before)
    BY <2>3
  <2> DEFINE last == Parent(before[m - 1], way[m - 1], siblings[m])
             climb == [i \in 0..m |-> IF i = m THEN last ELSE before[i]]
  <2>5. \A i \in 0..(m - 1) : before[i] = IF i = 0 THEN x ELSE Parent(before[i - 1], way[i - 1], siblings[i])
    BY <2>4 DEF IsClimb
  <2> HIDE DEF last
  <2>6. climb[m] = last /\ \A i \in 0..(m - 1) : climb[i] = before[i]
    BY <2>3
  <2>7. ASSUME NEW i \in 0..m
        PROVE  climb[i] = IF i = 0 THEN x ELSE Parent(climb[i - 1], way[i - 1], siblings[i])
    <3> HIDE DEF climb
    <3>1. CASE i = m
      <4>1. climb[i - 1] = before[m - 1]
        BY <2>3, <2>6, <3>1
      <4> QED
        BY <4>1, <2>2, <2>6, <3>1 DEF last
    <3>2. CASE i = 0
      <4>1. 0 \in 0..(m - 1)
        BY <2>3
      <4> QED
        BY <3>2, <4>1, <2>5, <2>6
    <3>3. CASE i # m /\ i # 0
      <4>1. i \in 0..(m - 1) /\ i - 1 \in 0..(m - 1)
        BY <3>3
      <4> QED
        BY <3>3, <4>1, <2>5, <2>6
    <3> QED
      BY <3>1, <3>2, <3>3
  <2>8. IsClimb(x, way, siblings, m, climb)
    BY <2>7 DEF IsClimb
  <2> QED
    BY <2>1, <2>8
<1> QED
  BY <1>1

\* Nodes on the way up, from a leaf
Climbed(x, way, siblings, k, climb) ==
    /\ climb[0] = x
    /\ \A n \in 1..k : climb[n] = Parent(climb[n - 1], way[n - 1], siblings[n])

LEMMA ClimbIs ==
    ASSUME NEW x, NEW j, NEW siblings, Len(siblings) \in Nat
    PROVE  \E climb :
              /\ climb[Len(siblings)] = Credential!Climb(x, j, siblings)
              /\ Climbed(x, Credential!Way(j, Len(siblings)), siblings, Len(siblings), climb)
<1> DEFINE k == Len(siblings)
           way == Credential!Way(j, k)
           climb == CHOOSE f : IsClimb(x, way, siblings, k, f)
<1>1. IsClimb(x, way, siblings, k, climb)
  <2> HIDE DEF way
  <2> QED
    BY ClimbExists
<1>2. Credential!Climb(x, j, siblings) = climb[k]
  BY DEF Credential!Climb, IsClimb, Parent
<1> HIDE DEF climb, way
<1>3. \A n \in 0..k : climb[n] = IF n = 0 THEN x ELSE Parent(climb[n - 1], way[n - 1], siblings[n])
  BY <1>1, Zenon DEF IsClimb
<1>4. 0 \in 0..k /\ \A n \in 1..k : n \in 0..k /\ n # 0
  OBVIOUS
<1>5. Climbed(x, way, siblings, k, climb)
  BY <1>3, <1>4, Zenon DEF Climbed
<1> QED
  BY <1>2, <1>5, Zenon DEF way

\* In lists of any length the siblings that are computed for a leaf lead to the root.
LEMMA SiblingsLead ==
    ASSUME NEW l, List(l), NEW j \in 1..Len(l)
    PROVE  Credential!Climb(l[j], j, Credential!Siblings(l, j)) = Credential!Root(l)
<1> DEFINE level == Credential!Level(l)
           h == Credential!Height(level)
           way == Credential!Way(j, h)
           siblings == Credential!Siblings(l, j)
<1>1. Len(l) \in Nat /\ h \in 0..Len(l) /\ Len(level[h]) = 1 /\ level[0] = l
  BY HeightIs, LevelIs DEF List
<1>2. way[0] = j /\ \A n \in 1..h : way[n] = (way[n - 1] + 1) \div 2
  <2>1. h \in Nat
    BY <1>1
  <2> QED
    BY <2>1, WayIs
<1>3. siblings = [n \in 1..h |-> LET pair == level[n][way[n]]
                                IN  IF Credential!IsLeft(way[n - 1]) THEN pair[2] ELSE pair[1]]
  BY DEF Credential!Siblings
<1>4. Len(siblings) = h
  <2> HIDE DEF level, h, way, siblings
  <2> QED
    BY <1>1, <1>3, FunctionLength
<1>5. PICK climb : /\ climb[h] = Credential!Climb(l[j], j, siblings)
                   /\ Climbed(l[j], way, siblings, h, climb)
  <2>1. Len(siblings) \in Nat
    BY <1>1, <1>4
  <2> HIDE DEF h, siblings
  <2> QED
    BY <1>4, <2>1, ClimbIs
<1>6. \A n \in 0..Len(l) : List(level[n])
  BY LevelsAre
<1>7. \A n \in 1..Len(l) : level[n] = Credential!NextLevel(level[n - 1])
  BY <1>1, LevelIs
<1> DEFINE Right(n) == way[n] \in 1..Len(level[n]) /\ climb[n] = level[n][way[n]]
           Wrong == {n \in 0..h : ~Right(n)}
<1>r. Credential!Root(l) = level[h][1]
  BY DEF Credential!Root
<1> HIDE DEF level, h, way, siblings
<1>8. Right(0)
  BY <1>1, <1>2, <1>5 DEF Climbed
\* One level up
<1>9. ASSUME NEW n \in 1..h, Right(n - 1) PROVE Right(n)
  <2> DEFINE below == level[n - 1]
             i == way[n - 1]
  <2>1. n - 1 \in 0..Len(l) /\ n \in 1..Len(l)
    BY <1>1
  <2>2. List(below) /\ level[n] = Credential!NextLevel(below) /\ i \in 1..Len(below) /\ climb[n - 1] = below[i]
    BY <1>6, <1>7, <1>9, <2>1
  <2>3. way[n] = (i + 1) \div 2
    BY <1>2
  <2>4. climb[n] = Parent(below[i], i, siblings[n])
    BY <1>5, <2>2 DEF Climbed
  <2>5. siblings[n] = IF Credential!IsLeft(i) THEN level[n][way[n]][2] ELSE level[n][way[n]][1]
    BY <1>3
  <2> HIDE DEF below, i
  <2>6. Len(below) \in Nat /\ i \in Nat /\ Len(level[n]) = (Len(below) + 1) \div 2
    BY <2>2, NextLevelIs DEF List
  <2>7. way[n] \in 1..Len(level[n])
    BY <2>2, <2>3, <2>6
  <2>8. \/ 2 * way[n] <= Len(below) /\ level[n][way[n]] = <<below[2 * way[n] - 1], below[2 * way[n]]>>
        \/ /\ 2 * way[n] > Len(below)
           /\ level[n][way[n]] = <<below[2 * way[n] - 1], below[2 * way[n] - 1]>>
    <3> DEFINE next == Credential!NextLevel(below)
    <3>1. \A k \in 1..Len(next) :
             /\ 2 * k <= Len(below) => next[k] = <<below[2 * k - 1], below[2 * k]>>
             /\ 2 * k > Len(below) => next[k] = <<below[2 * k - 1], below[2 * k - 1]>>
      BY <2>2, NextLevelIs
    <3>2. way[n] \in 1..Len(next) /\ level[n] = next
      BY <2>2, <2>7
    <3>3. 2 * way[n] <= Len(below) \/ 2 * way[n] > Len(below)
      BY <2>6, <2>7
    <3> HIDE DEF next
    <3> QED
      BY <3>1, <3>2, <3>3
  <2>9. CASE Credential!IsLeft(i)
    <3>1. 2 * way[n] - 1 = i
      BY <2>3, <2>6, <2>9 DEF Credential!IsLeft
    <3>2. PICK y : level[n][way[n]] = <<below[i], y>>
      BY <2>3, <2>6, <2>8, <3>1
    <3>3. siblings[n] = y
      BY <2>5, <2>9, <3>2
    <3> QED
      BY <2>4, <2>7, <2>9, <3>2, <3>3 DEF Parent
  <2>10. CASE ~Credential!IsLeft(i)
    <3>1. 2 * way[n] = i
      BY <2>3, <2>6, <2>10 DEF Credential!IsLeft
    <3>2. PICK y : level[n][way[n]] = <<y, below[i]>>
      <4>1. ~(2 * way[n] > Len(below))
        BY <2>2, <2>6, <3>1
      <4> QED
        BY <2>8, <3>1, <4>1, Zenon
    <3>3. siblings[n] = y
      BY <2>5, <2>10, <3>2
    <3> QED
      BY <2>4, <2>7, <2>10, <3>2, <3>3 DEF Parent
  <2> QED
    BY <2>9, <2>10
<1>10. Wrong = {}
  <2> SUFFICES ASSUME Wrong # {} PROVE FALSE
    OBVIOUS
  <2>1. PICK n \in Wrong : \A m \in Wrong : n <= m
    <3> HIDE DEF Wrong
    <3>1. Wrong \in SUBSET Nat
      BY <1>1 DEF Wrong
    <3> QED
      BY <3>1, SmallestNumber
  <2> HIDE DEF Right
  <2>2. n \in 0..h /\ n # 0 /\ ~Right(n)
    BY <1>8, <2>1
  <2>3. n \in 1..h /\ n - 1 \in 0..h /\ n - 1 \notin Wrong
    <3> HIDE DEF Wrong
    <3> QED
      BY <1>1, <2>1, <2>2
  <2> QED
    BY <1>9, <2>2, <2>3
<1>11. climb[h] = level[h][1]
  <2>1. h \in 0..h /\ h \notin Wrong
    <3> HIDE DEF Wrong
    <3> QED
      BY <1>1, <1>10
  <2>2. way[h] \in 1..1 /\ climb[h] = level[h][way[h]]
    BY <1>1, <2>1
  <2> QED
    BY <2>2
<1> QED
  BY <1>5, <1>11, <1>r DEF siblings

\* The lists of leaves: the commitments of different credentials are different.
LEMMA CommitmentsAre ==
    ASSUME NEW list, Len(list) \in Nat \ {0}
    PROVE  LET l == Credential!Commitments(list)
           IN  /\ List(l) /\ AreLeaves(l) /\ Len(l) = Len(list)
               /\ Distinct(list) => Distinct(l)
               /\ \A i \in 1..Len(list) : l[i] = Credential!Commitment(list[i])
<1> DEFINE l == Credential!Commitments(list)
<1>1. l = [i \in 1..Len(list) |-> Credential!Commitment(list[i])]
  BY DEF Credential!Commitments
<1>2. \A i \in 1..Len(list) : l[i] = Credential!Commitment(list[i])
  BY <1>1
<1>3. l = [i \in 1..Len(list) |-> l[i]]
  BY <1>1
<1>4. Len(l) = Len(list)
  <2> HIDE DEF l
  <2> QED
    BY <1>3, FunctionLength
<1> HIDE DEF l
<1>5. List(l)
  BY <1>3, <1>4, Zenon DEF List
<1>6. AreLeaves(l)
  BY <1>2, <1>4, Zenon DEF AreLeaves
<1>7. ASSUME Distinct(list) PROVE Distinct(l)
  <2>1. \A c, d : Credential!Commitment(c) = Credential!Commitment(d) => c = d
    BY DEF Credential!Commitment
  <2> QED
    BY <1>2, <1>4, <1>7, <2>1, Zenon DEF Distinct
<1> QED
  BY <1>2, <1>4, <1>5, <1>6, <1>7, Zenon DEF l

LEMMA RootOfList ==
    ASSUME NEW a, NEW b, Len(a) \in Nat \ {0}, Len(b) \in Nat \ {0}, Distinct(a), Distinct(b),
           Credential!Root(Credential!Commitments(a)) = Credential!Root(Credential!Commitments(b))
    PROVE  Len(a) = Len(b) /\ \A i \in 1..Len(a) : a[i] = b[i]
<1> DEFINE l == Credential!Commitments(a)
           m == Credential!Commitments(b)
<1>1. l = m
  BY CommitmentsAre, RootTells
<1>2. /\ Len(l) = Len(a) /\ \A i \in 1..Len(a) : l[i] = Credential!Commitment(a[i])
      /\ Len(m) = Len(b) /\ \A i \in 1..Len(b) : m[i] = Credential!Commitment(b[i])
  BY CommitmentsAre
<1> HIDE DEF l, m
<1> QED
  BY <1>1, <1>2 DEF Credential!Commitment

LEMMA RootsAreSound == Credential!RootsSound
<1> DEFINE Numbers(n) == [i \in 1..n |-> i]
<1>1. ASSUME NEW n \in 1..9
      PROVE  /\ Len(Numbers(n)) \in Nat \ {0} /\ Len(Numbers(n)) = n /\ Distinct(Numbers(n))
             /\ Credential!Leaves(n) = Credential!Commitments(Numbers(n))
  <2>1. Len(Numbers(n)) = n
    OBVIOUS
  <2> QED
    BY <2>1 DEF Distinct, Credential!Leaves
<1> HIDE DEF Numbers
<1>2. SUFFICES ASSUME NEW n \in 1..9
               PROVE  LET l == Credential!Leaves(n)
                      IN  /\ \A i \in 1..n :
                                Credential!Climb(l[i], i, Credential!Siblings(l, i)) = Credential!Root(l)
                          /\ \A m \in 1..(n - 1) : Credential!Root(Credential!Leaves(m)) # Credential!Root(l)
  BY DEF Credential!RootsSound
<1>3. List(Credential!Leaves(n)) /\ Len(Credential!Leaves(n)) = n
  BY <1>1, CommitmentsAre
<1>4. ASSUME NEW m \in 1..(n - 1), Credential!Root(Credential!Leaves(m)) = Credential!Root(Credential!Leaves(n))
      PROVE  FALSE
  <2>1. m \in 1..9 /\ m # n
    OBVIOUS
  <2>2. Len(Numbers(m)) = Len(Numbers(n))
    BY <1>1, <1>4, <2>1, RootOfList
  <2> QED
    BY <1>1, <2>1, <2>2
<1> QED
  BY <1>3, <1>4, SiblingsLead

\* What was proved of a list has no leaf twice, and what was accepted had the list's root.
RootInv ==
    /\ CredentialInv
    /\ \A p \in proofs : Distinct(p.leaves)
    /\ \A v \in shown : v.proof.leaves = v.now

LEMMA RootsKept == RootInv /\ [Credential!Next]_credentialVars => RootInv'
<1> SUFFICES ASSUME RootInv, [Credential!Next]_credentialVars PROVE RootInv'
  OBVIOUS
<1>1. CredentialInv /\ CredentialInv' /\ Distinct(leaves)
  BY CredentialKept DEF RootInv, CredentialInv, LeavesOnce, Distinct
<1>2. CASE UNCHANGED <<proofs, shown>>
  BY <1>1, <1>2 DEF RootInv
<1>3. ASSUME NEW c \in Items, Credential!Prove(c) PROVE RootInv'
  <2>1. UNCHANGED shown
    BY <1>3 DEF Credential!Prove
  <2>2. proofs' = proofs \cup {[of |-> c, leaves |-> leaves]} \/ UNCHANGED proofs
    BY <1>3 DEF Credential!Prove
  <2>3. \A p \in proofs' : Distinct(p.leaves)
    BY <1>1, <2>2 DEF RootInv
  <2> QED
    BY <1>1, <2>1, <2>3 DEF RootInv
<1>4. ASSUME NEW p \in proofs, Credential!Verify(p) PROVE RootInv'
  <2>1. /\ leaves # <<>> /\ UNCHANGED proofs
        /\ Credential!Root(Credential!Commitments(p.leaves)) = Credential!Root(Credential!Commitments(leaves))
        /\ shown' = shown \cup {[proof |-> p, now |-> leaves]}
    BY <1>4 DEF Credential!Verify
  <2>2. p.leaves \in Seq(Items) /\ leaves \in Seq(Items) /\ Distinct(p.leaves)
    BY <1>1 DEF CredentialInv, CredentialTypes, RootInv
  <2>3. \E i \in 1..Len(p.leaves) : p.leaves[i] = p.of
    BY <1>1, Zenon DEF CredentialInv, ProofsOfLeaves, Credential!InList
  <2>4. Len(p.leaves) \in Nat \ {0} /\ Len(leaves) \in Nat \ {0}
    BY <2>1, <2>2, <2>3
  <2>5. Len(p.leaves) = Len(leaves) /\ \A i \in 1..Len(leaves) : p.leaves[i] = leaves[i]
    BY <1>1, <2>1, <2>2, <2>4, RootOfList
  <2>6. p.leaves = leaves
    BY <2>2, <2>5
  <2> QED
    BY <1>1, <2>1, <2>6 DEF RootInv
<1>5. \/ UNCHANGED <<proofs, shown>>
      \/ \E c \in Items : Credential!Prove(c)
      \/ \E p \in proofs : Credential!Verify(p)
  BY Zenon DEF Credential!Next, Credential!Check, Credential!FindAgent, Credential!CreateRow, Credential!AddLeaf,
     Credential!Revoke, Credential!Expire, Credential!ReadRow, Credential!Throw, Credential!Restart, credentialVars
<1> QED
  BY <1>2, <1>3, <1>4, <1>5

\* A proof of a credential is accepted for its list of leaves and for no other, for any number of
\* credentials; the siblings of every leaf lead to the root.
THEOREM RootsTellLists == ServicesSpec => []RootsTell
<1> DEFINE Inv == part = "credentials" => RootInv
<1>1. ServicesInit => Inv
  <2> SUFFICES ASSUME ServicesInit PROVE RootInv
    OBVIOUS
  <2>1. CredentialInv
    BY CredentialBegins DEF ServicesInit
  <2>2. proofs = {} /\ shown = {}
    BY DEF ServicesInit, Credential!Init
  <2> QED
    BY <2>1, <2>2 DEF RootInv
<1>2. Inv /\ [ServicesNext]_servicesVars => Inv'
  <2> SUFFICES ASSUME Inv, [ServicesNext]_servicesVars PROVE Inv'
    OBVIOUS
  <2>1. (part = "credentials" => [Credential!Next]_credentialVars) /\ part' = part
    BY DEF ServicesNext, servicesVars
  <2> QED
    BY <2>1, RootsKept
<1>3. Inv => RootsTell
  <2> SUFFICES ASSUME RootInv PROVE Credential!RootsTell
    BY DEF RootsTell
  <2>1. ASSUME NEW v \in shown PROVE v.proof.leaves = v.now /\ Credential!InList(v.proof.of, v.now)
    <3>1. v.proof \in proofs /\ v.proof.leaves = v.now
      BY DEF RootInv, CredentialInv, CredentialTypes
    <3>2. Credential!InList(v.proof.of, v.proof.leaves)
      BY <3>1, Zenon DEF RootInv, CredentialInv, ProofsOfLeaves
    <3> QED
      BY <3>1, <3>2
  <2> QED
    BY <2>1, RootsAreSound DEF Credential!RootsTell
<1> QED
  BY <1>1, <1>2, <1>3, PTL DEF ServicesSpec

-----------------------------------------------------------------------------
\* The types of all services, with the bounds of what is counted. Most of them are in the
\* invariants above; what is still missing is how far each counter can go.

\* A counter that stays or is counted on below its bound
Bounded(n, m, bound) == m = n \/ (n < bound /\ m = n + 1)

LEMMA StaysBounded ==
    ASSUME NEW bound \in Nat, NEW n \in 0..bound, NEW m, Bounded(n, m, bound)
    PROVE  m \in 0..bound
BY OneMoreFault DEF Bounded

\* Multi-signature wallets
WalletTypes == TurnsInv /\ dbFaults \in 0..MaxFaults

LEMMA WalletTyped ==
    ASSUME WalletTypes, [Next]_multiSigVars
    PROVE  WalletTypes'
<1>1. TurnsInv'
  BY ServicesAssumption, Kept, TurnsKept DEF WalletTypes, TurnsInv
<1>2. Bounded(dbFaults, dbFaults', MaxFaults)
  BY Zenon DEF Bounded, Next, multiSigVars, BeginCreate, BeginChange, ReadWallet, BeginCancel, BeginSign, Begin,
        Create, CountNew, Sign, Execute, Send, Confirm, SetExecuted, CountDone, SetCancelled,
        Uncount, Change, Refuse, Throw, Count, Write
<1> QED
  BY <1>1, <1>2, StaysBounded, ServicesAssumption DEF WalletTypes, WalletAssumption

LEMMA WalletBegins == Init => WalletTypes
<1> SUFFICES ASSUME Init PROVE WalletTypes
  OBVIOUS
<1>1. IInv
  BY Initially, ServicesAssumption
<1>2. Open = {} /\ Executed = {} /\ wallet = FirstWallet
  BY DEF Init, Open, Executed, NoRow
<1>3. Quorate /\ CountedBut("idle")
  BY <1>2, FS_EmptySet, ServicesAssumption DEF WalletAssumption, FirstWallet, Quorate, CountedBut,
     PendingOwed, TotalOwed
<1>4. \A h \in Handlers : At(h, "idle")
  BY DEF Init, NoRequest, At
<1>5. TurnsInv
  BY <1>1, <1>3, <1>4 DEF TurnsInv, InTurn, Init
<1>6. dbFaults \in 0..MaxFaults
  BY ServicesAssumption DEF Init, WalletAssumption
<1> QED
  BY <1>5, <1>6 DEF WalletTypes

LEMMA WalletTypesAre == WalletTypes => TypeOK
BY DEF WalletTypes, TurnsInv, IInv, Typed, TypeOK, Requests

-----------------------------------------------------------------------------
\* Governance. A request begins while the proposal is open and slashes once, after it was
\* closed: nobody who has begun can slash twice, and nobody who slashes can begin again.
MaySlash == {"close", "PASSED", "execute", "resolve", "slash"}
Slashing == Among(Workers, [r \in Workers |-> ballot[r].pc], MaySlash)

BallotTypes ==
    /\ proposal \in [status: {"ACTIVE", "PASSED", "REJECTED", "EXECUTED"}, tally: Governance!Tally]
    /\ votes \in [Others -> Governance!Vote \cup {Governance!NotVoted}]
    /\ ballot \in [Workers -> Governance!Request]
    /\ expired \in BOOLEAN /\ crossed \in BOOLEAN
    /\ voteFaults \in 0..MaxFaults
    /\ slashed \in Nat

SlashedOnce ==
    /\ slashed + Slashing <= Cardinality(Workers)
    /\ proposal.status = "ACTIVE" =>
          /\ slashed = 0
          /\ \A r \in Workers : ballot[r].pc \notin {"execute", "resolve", "slash", "executed"}

\* The ballots in flight
LEMMA SlashingIs ==
    ASSUME NEW f
    PROVE  /\ Among(Workers, f, MaySlash) \in Nat
           /\ Among(Workers, f, MaySlash) <= Cardinality(Workers)
           /\ Cardinality(Workers) \in Nat
<1>1. {x \in Workers : f[x] \in MaySlash} \subseteq Workers /\ IsFiniteSet(Workers)
  BY ServicesAssumption
<1> QED
  BY <1>1, FS_Subset, FS_CardinalityType DEF Among

LEMMA SlashingMoves ==
    ASSUME BallotTypes, BallotTypes', NEW r \in Workers,
           \A q \in Workers \ {r} : ballot'[q] = ballot[q]
    PROVE  /\ Slashing \in Nat /\ Slashing' \in Nat
           /\ Slashing' = Slashing + (Weight(ballot'[r].pc, MaySlash) - Weight(ballot[r].pc, MaySlash))
           /\ Weight(ballot'[r].pc, MaySlash) \in {0, 1} /\ Weight(ballot[r].pc, MaySlash) \in {0, 1}
<1> DEFINE f == [q \in Workers |-> ballot[q].pc]
           g == [q \in Workers |-> ballot'[q].pc]
<1>1. \A q \in Workers \ {r} : g[q] = f[q]
  OBVIOUS
<1>2. f[r] = ballot[r].pc /\ g[r] = ballot'[r].pc /\ Slashing = Among(Workers, f, MaySlash)
      /\ Slashing' = Among(Workers, g, MaySlash)
  BY DEF Slashing
<1> HIDE DEF f, g
<1> QED
  BY <1>1, <1>2, AmongMoves, ServicesAssumption

LEMMA TallyTyped ==
    ASSUME votes \in [Others -> Governance!Vote \cup {Governance!NotVoted}]
    PROVE  Governance!CountOf(Governance!Cast) \in Governance!Tally
<1>1. ASSUME NEW types PROVE PowerOf(votes, Governance!Cast, types) \in Nat
  <2> DEFINE S == OfTypes(votes, Governance!Cast, types)
             f == [v \in S |-> votes[v].power]
  <2>1. S \subseteq Others /\ IsFiniteSet(S)
    BY ServicesAssumption, FS_Subset DEF OfTypes, Governance!Cast
  <2>2. \A v \in S : votes[v] \in Governance!Vote
    BY DEF OfTypes, Governance!Cast
  <2>3. Powers \subseteq Nat
    BY ServicesAssumption DEF Governance!VotesAssumption
  <2>4. \A v \in S : f[v] \in Int /\ f[v] >= 0
    <3> SUFFICES ASSUME NEW v \in S PROVE f[v] \in Nat
      OBVIOUS
    <3>1. votes[v].power \in Powers
      BY <2>2 DEF Governance!Vote
    <3> QED
      BY <2>3, <3>1
  <2>5. VoteSum(votes, S) = SumFunctionOnSet(f, S)
    BY <2>1, VoteSumIs
  <2> HIDE DEF S, f
  <2>6. SumFunctionOnSet(f, S) \in Int /\ SumFunctionOnSet(f, S) >= 0
    BY <2>1, <2>4, SumType
  <2> QED
    BY <2>5, <2>6 DEF PowerOf, S
<1>2. CountIn(votes, Governance!Cast) \in Governance!Tally
  BY <1>1 DEF CountIn, Governance!Tally
<1> QED
  BY <1>2, CountIsIn

\* A request that is at a point, with nothing in its hands
LEMMA BareBallot ==
    ASSUME NEW pc \in {"idle", "count", "close", "PASSED", "REJECTED", "execute",
                       "resolve", "slash", "executed"}
    PROVE  [Governance!NoRequest EXCEPT !.pc = pc] \in Governance!Request
BY DEF Governance!NoRequest, Governance!Request, Governance!Tally, Governance!NoTally

LEMMA BallotTyped ==
    ASSUME BallotTypes, [Governance!Next]_governanceVars
    PROVE  BallotTypes'
<1> USE DEF Governance!At, Governance!Goto, Governance!Status
<1>1. CASE UNCHANGED governanceVars
  BY <1>1 DEF governanceVars, BallotTypes
<1>2. CASE Governance!Expire
  BY <1>2 DEF Governance!Expire, BallotTypes
<1>3. ASSUME NEW r \in Workers, NEW v \in Others, NEW vote \in Governance!Vote,
             Governance!BeginVote(r, v, vote)
      PROVE  BallotTypes'
  <2>1. [Governance!NoRequest EXCEPT !.pc = "vote", !.voter = v, !.vote = vote] \in Governance!Request
    BY DEF Governance!NoRequest, Governance!Request, Governance!Tally, Governance!NoTally
  <2>2. crossed' \in BOOLEAN
    BY <1>3, Zenon DEF Governance!BeginVote, Governance!Begin
  <2> QED
    BY <1>3, <2>1, <2>2 DEF Governance!BeginVote, Governance!Begin, BallotTypes
<1>4. ASSUME NEW r \in Workers, Governance!BeginClose(r)
      PROVE  BallotTypes'
  <2>1. crossed' \in BOOLEAN
    BY <1>4, Zenon DEF Governance!BeginClose, Governance!Begin
  <2> QED
    BY <1>4, <2>1, BareBallot DEF Governance!BeginClose, Governance!Begin, BallotTypes
<1>5. ASSUME NEW r \in Workers, Governance!CreateVote(r)
      PROVE  BallotTypes'
  <2>1. ballot[r].vote \in Governance!Vote \cup {Governance!NotVoted}
    BY DEF BallotTypes, Governance!Request
  <2>2. votes' \in [Others -> Governance!Vote \cup {Governance!NotVoted}]
    BY <1>5, <2>1 DEF Governance!CreateVote, BallotTypes
  <2> QED
    BY <1>5, <2>2, BareBallot DEF Governance!CreateVote, BallotTypes
<1>6. ASSUME NEW r \in Workers, Governance!Count(r)
      PROVE  BallotTypes'
  <2>1. Governance!CountOf(Governance!Cast) \in Governance!Tally
    BY TallyTyped DEF BallotTypes
  <2>2. [Governance!NoRequest EXCEPT !.pc = "tally", !.tally = Governance!CountOf(Governance!Cast)]
           \in Governance!Request
    BY <2>1 DEF Governance!NoRequest, Governance!Request
  <2> QED
    BY <1>6, <2>2 DEF Governance!Count, BallotTypes
<1>7. ASSUME NEW r \in Workers, Governance!WriteTally(r)
      PROVE  BallotTypes'
  <2>1. ballot[r].tally \in Governance!Tally
    BY DEF BallotTypes, Governance!Request
  <2> QED
    BY <1>7, <2>1, BareBallot DEF Governance!WriteTally, BallotTypes
<1>8. ASSUME NEW r \in Workers, Governance!Decide(r) \/ Governance!Execute(r) \/ Governance!Resolve(r)
      PROVE  BallotTypes'
  <2>1. PICK pc \in {"idle", "PASSED", "REJECTED", "resolve", "slash"} :
           ballot' = [ballot EXCEPT ![r] = [Governance!NoRequest EXCEPT !.pc = pc]]
    BY <1>8 DEF Governance!Decide, Governance!Execute, Governance!Resolve
  <2>2. UNCHANGED <<proposal, votes, expired, slashed, crossed, voteFaults>>
    BY <1>8 DEF Governance!Decide, Governance!Execute, Governance!Resolve
  <2> QED
    BY <2>1, <2>2, BareBallot DEF BallotTypes
<1>9. ASSUME NEW r \in Workers, Governance!Close(r) \/ Governance!Slash(r) \/ Governance!Executed(r)
      PROVE  BallotTypes'
  <2>1. PICK pc \in {"idle", "execute", "executed"} :
           ballot' = [ballot EXCEPT ![r] = [Governance!NoRequest EXCEPT !.pc = pc]]
    BY <1>9 DEF Governance!Close, Governance!Slash, Governance!Executed
  <2>2. /\ UNCHANGED <<votes, expired, crossed, voteFaults>>
        /\ slashed' \in {slashed, slashed + 1}
        /\ proposal' = proposal \/ \E s \in {"PASSED", "REJECTED", "EXECUTED"} :
               proposal' = [proposal EXCEPT !.status = s]
    BY <1>9 DEF Governance!Close, Governance!Slash, Governance!Executed
  <2>3. proposal' \in [status: {"ACTIVE", "PASSED", "REJECTED", "EXECUTED"}, tally: Governance!Tally]
    BY <2>2 DEF BallotTypes
  <2> QED
    BY <2>1, <2>2, <2>3, BareBallot DEF BallotTypes
<1>10. ASSUME NEW r \in Workers, Governance!Throw(r)
       PROVE  BallotTypes'
  <2>1. Bounded(voteFaults, voteFaults', MaxFaults) /\ MaxFaults \in Nat
    BY <1>10, ServicesAssumption DEF Governance!Throw, Bounded, WalletAssumption
  <2>2. voteFaults' \in 0..MaxFaults
    BY <2>1, StaysBounded DEF BallotTypes
  <2> QED
    BY <1>10, <2>2, BareBallot DEF Governance!Throw, BallotTypes
<1> QED
  BY <1>1, <1>2, <1>3, <1>4, <1>5, <1>6, <1>7, <1>8, <1>9, <1>10 DEF Governance!Next

LEMMA SlashedKept ==
    ASSUME BallotTypes, BallotTypes', SlashedOnce, [Governance!Next]_governanceVars
    PROVE  SlashedOnce'
<1> USE DEF Governance!At, Governance!Goto, Governance!NoRequest, Governance!Status
<1>0. /\ \A pc \in {"close", "PASSED", "execute", "resolve", "slash"} : Weight(pc, MaySlash) = 1
      /\ \A pc \in {"idle", "vote", "count", "tally", "REJECTED", "executed"} : Weight(pc, MaySlash) = 0
  BY DEF Weight, MaySlash
<1>a. Slashing' \in Nat /\ Slashing' <= Cardinality(Workers) /\ Cardinality(Workers) \in Nat
      /\ slashed \in Nat /\ Slashing \in Nat
  BY SlashingIs DEF Slashing, BallotTypes
<1>1. CASE UNCHANGED governanceVars \/ Governance!Expire
  BY <1>1 DEF governanceVars, Governance!Expire, SlashedOnce, Slashing
<1>2. ASSUME NEW r \in Workers,
             \/ \E v \in Others, vote \in Governance!Vote : Governance!BeginVote(r, v, vote)
             \/ Governance!BeginClose(r)
      PROVE  SlashedOnce'
  <2>1. /\ proposal.status = "ACTIVE" /\ UNCHANGED <<proposal, slashed>>
        /\ ballot'[r].pc \in {"vote", "close"}
        /\ \A q \in Workers \ {r} : ballot'[q] = ballot[q]
    BY <1>2 DEF Governance!BeginVote, Governance!BeginClose, Governance!Begin, BallotTypes
  <2> QED
    BY <1>a, <2>1 DEF SlashedOnce
<1>3. ASSUME NEW r \in Workers,
             \/ Governance!CreateVote(r) \/ Governance!Count(r) \/ Governance!WriteTally(r)
             \/ Governance!Decide(r) \/ Governance!Throw(r)
      PROVE  SlashedOnce'
  <2>1. /\ proposal'.status = proposal.status /\ slashed' = slashed
        /\ \A q \in Workers \ {r} : ballot'[q] = ballot[q]
    BY <1>3 DEF Governance!CreateVote, Governance!Count, Governance!WriteTally, Governance!Decide,
          Governance!Throw, BallotTypes
  <2>2. \/ ballot'[r].pc \in {"idle", "count", "tally", "REJECTED"}
        \/ ballot[r].pc = "close" /\ ballot'[r].pc = "PASSED"
    <3>1. CASE Governance!Decide(r)
      BY <3>1 DEF Governance!Decide, BallotTypes
    <3>2. CASE Governance!CreateVote(r) \/ Governance!WriteTally(r) \/ Governance!Throw(r)
      BY <3>2 DEF Governance!CreateVote, Governance!WriteTally, Governance!Throw, BallotTypes
    <3>3. CASE Governance!Count(r)
      BY <3>3 DEF Governance!Count, BallotTypes
    <3> QED
      BY <1>3, <3>1, <3>2, <3>3
  <2>3. Slashing' <= Slashing
    BY <1>0, <1>a, <2>1, <2>2, SlashingMoves
  <2> QED
    BY <1>a, <2>1, <2>2, <2>3 DEF SlashedOnce
<1>4. ASSUME NEW r \in Workers,
             \/ Governance!Close(r) \/ Governance!Execute(r) \/ Governance!Resolve(r)
             \/ Governance!Slash(r) \/ Governance!Executed(r)
      PROVE  SlashedOnce'
  <2>1. /\ \A q \in Workers \ {r} : ballot'[q] = ballot[q]
        /\ \/ ballot[r].pc \in {"PASSED", "REJECTED"} /\ proposal'.status \in {"PASSED", "REJECTED"}
              /\ ballot'[r].pc = (IF ballot[r].pc = "PASSED" THEN "execute" ELSE "idle")
              /\ slashed' = slashed
           \/ ballot[r].pc = "execute" /\ ballot'[r].pc \in {"resolve", "idle"}
              /\ UNCHANGED <<proposal, slashed>>
           \/ ballot[r].pc = "resolve" /\ ballot'[r].pc = "slash" /\ UNCHANGED <<proposal, slashed>>
           \/ ballot[r].pc = "slash" /\ ballot'[r].pc = "executed" /\ UNCHANGED proposal
              /\ slashed' = slashed + 1
           \/ ballot[r].pc = "executed" /\ ballot'[r].pc = "idle"
              /\ proposal'.status = "EXECUTED" /\ slashed' = slashed
    BY <1>4 DEF Governance!Close, Governance!Execute, Governance!Resolve, Governance!Slash,
          Governance!Executed, BallotTypes
  <2>2. proposal'.status # "ACTIVE"
    BY <2>1 DEF SlashedOnce
  <2>3. slashed' + Slashing' <= slashed + Slashing
    BY <1>0, <1>a, <2>1, SlashingMoves
  <2> QED
    BY <1>a, <2>1, <2>2, <2>3 DEF SlashedOnce
<1> QED
  BY <1>1, <1>2, <1>3, <1>4 DEF Governance!Next

LEMMA BallotBegins == Governance!Init => BallotTypes /\ SlashedOnce
<1> SUFFICES ASSUME Governance!Init PROVE BallotTypes /\ SlashedOnce
  OBVIOUS
<1>1. Governance!NoRequest \in Governance!Request /\ Governance!NoTally \in Governance!Tally
  BY DEF Governance!NoRequest, Governance!Request, Governance!Tally, Governance!NoTally
<1>2. expired \in BOOLEAN /\ crossed \in BOOLEAN
  BY Zenon DEF Governance!Init
<1>3. voteFaults \in 0..MaxFaults
  BY ServicesAssumption DEF Governance!Init, WalletAssumption
<1>4. BallotTypes
  BY <1>1, <1>2, <1>3 DEF Governance!Init, BallotTypes
<1>5. slashed = 0 /\ Slashing \in Nat /\ Slashing <= Cardinality(Workers)
  BY SlashingIs DEF Governance!Init, Slashing
<1> QED
  BY <1>4, <1>5 DEF Governance!Init, Governance!NoRequest, SlashedOnce

LEMMA BallotTypesAre == BallotTypes /\ SlashedOnce => Governance!TypeOK
<1> SUFFICES ASSUME BallotTypes, SlashedOnce PROVE Governance!TypeOK
  OBVIOUS
<1>1. slashed \in 0..Cardinality(Workers)
  BY SlashingIs DEF SlashedOnce, Slashing, BallotTypes
<1>2. Governance!Cardinality(Workers) = Cardinality(Workers)
  BY DEF Governance!Cardinality, Cardinality
<1> QED
  BY <1>1, <1>2 DEF BallotTypes, Governance!TypeOK

-----------------------------------------------------------------------------
\* Escrow routes
EscrowBounded ==
    /\ EscrowTypes
    /\ stats \in [Escrow!Set -> 0..MaxStats]
    /\ routeFaults \in 0..MaxExceptions

\* The bounds that several of the services have
LEMMA Limits ==
    /\ MaxExceptions \in Nat /\ MaxStats \in Nat /\ MaxFaults \in Nat
    /\ MaxDeposits \in Nat /\ MaxRestarts \in Nat /\ MaxPayloadAge \in Nat /\ Ttl \in Nat
BY ServicesAssumption DEF Merchant!MerchantAssumption, Facilitator!RecordsAssumption, WalletAssumption,
   Quota!QuotaAssumption, Access!LimiterAssumption, Sandbox!VerifierAssumption

LEMMA EscrowKeepsBounds ==
    ASSUME EscrowBounded, [Escrow!Next]_escrowVars
    PROVE  EscrowBounded'
<1>1. EscrowTypes'
  BY EscrowTyped DEF EscrowBounded
<1>2. Bounded(routeFaults, routeFaults', MaxExceptions)
  BY Zenon DEF Bounded, Escrow!Next, escrowVars, Escrow!Expire, Escrow!Get, Escrow!SetStatus, Escrow!Count,
        Escrow!Throw
<1>3. stats' = stats \/ \E s : stats[s] < MaxStats /\ stats' = [stats EXCEPT ![s] = @ + 1]
  BY Zenon DEF Escrow!Next, escrowVars, Escrow!Expire, Escrow!Get, Escrow!SetStatus, Escrow!Count, Escrow!Throw
<1>4. stats' \in [Escrow!Set -> 0..MaxStats]
  <2>1. CASE stats' = stats
    BY <2>1 DEF EscrowBounded
  <2>2. ASSUME NEW s, stats[s] < MaxStats, stats' = [stats EXCEPT ![s] = @ + 1]
        PROVE  stats' \in [Escrow!Set -> 0..MaxStats]
    <3>1. s \in Escrow!Set => stats[s] + 1 \in 0..MaxStats
      BY <2>2, Limits, OneMoreFault DEF EscrowBounded
    <3> QED
      BY <2>2, <3>1 DEF EscrowBounded
  <2> QED
    BY <1>3, <2>1, <2>2
<1> QED
  BY <1>1, <1>2, <1>4, StaysBounded, Limits DEF EscrowBounded

LEMMA EscrowBegins == Escrow!Init => EscrowBounded
<1> SUFFICES ASSUME Escrow!Init PROVE EscrowBounded
  OBVIOUS
<1>1. overtaken \in BOOLEAN
  BY Zenon DEF Escrow!Init
<1>2. EscrowTypes
  BY <1>1 DEF Escrow!Init, Escrow!NoRoute, EscrowTypes
<1> QED
  BY <1>2, Limits DEF Escrow!Init, EscrowBounded

LEMMA EscrowTypesAre == EscrowBounded => Escrow!TypeOK
BY DEF EscrowBounded, EscrowTypes, Escrow!TypeOK

-----------------------------------------------------------------------------
\* The merchant's client: what the facilitator has settled, it has recorded.
MerchantPoints == {"idle", "record", "kept", "request", "answered", "done"}
MerchantTypes ==
    /\ pending \subseteq Items /\ due \in BOOLEAN
    /\ settled \subseteq recorded /\ recorded \subseteq Items
    /\ worker \in [Merchant!Callers -> MerchantPoints]
    /\ \A c \in Hourly : worker[c] \notin {"record", "kept"}
    /\ crowded \subseteq Items
    /\ merchantFaults \in 0..MaxExceptions

\* A caller's step, to a point that is its own
LEMMA CallerPoints ==
    ASSUME MerchantTypes, NEW w \in Merchant!Callers, NEW pc \in MerchantPoints, Merchant!Goto(w, pc),
           w \in Hourly => pc \notin {"record", "kept"}
    PROVE  /\ worker' \in [Merchant!Callers -> MerchantPoints]
           /\ \A c \in Hourly : worker'[c] \notin {"record", "kept"}
BY DEF MerchantTypes, Merchant!Goto, MerchantPoints

LEMMA MerchantTyped ==
    ASSUME MerchantTypes, [Merchant!Next]_merchantVars
    PROVE  MerchantTypes'
<1>0. Items \cap Hourly = {} /\ Items \subseteq Merchant!Callers /\ Hourly \subseteq Merchant!Callers
      /\ Merchant!Callers = Items \cup Hourly
  BY ServicesAssumption DEF Merchant!MerchantAssumption, Merchant!Callers
<1>h. Merchant!Handling \subseteq Items
  BY DEF Merchant!Handling
<1> USE DEF Merchant!At
<1>1. CASE UNCHANGED merchantVars
  BY <1>1 DEF merchantVars, MerchantTypes
<1>2. CASE Merchant!ADayLater \/ Merchant!ScheduledSettlement
  BY <1>2 DEF Merchant!ADayLater, Merchant!ScheduledSettlement, MerchantTypes
<1>3. ASSUME NEW p \in Items, Merchant!Keep(p) PROVE MerchantTypes'
  <2>1. /\ worker' \in [Merchant!Callers -> MerchantPoints]
        /\ \A c \in Hourly : worker'[c] \notin {"record", "kept"}
    BY <1>0, <1>3, CallerPoints DEF Merchant!Keep, MerchantPoints
  <2> QED
    BY <1>3, <2>1 DEF Merchant!Keep, MerchantTypes
<1>4. ASSUME NEW p \in Items, Merchant!Record(p) PROVE MerchantTypes'
  <2>1. /\ worker' \in [Merchant!Callers -> MerchantPoints]
        /\ \A c \in Hourly : worker'[c] \notin {"record", "kept"}
    BY <1>0, <1>4, CallerPoints DEF Merchant!Record, MerchantPoints
  <2> QED
    BY <1>4, <2>1 DEF Merchant!Record, MerchantTypes
<1>5. ASSUME NEW w \in Merchant!Callers, Merchant!Request(w),
             UNCHANGED <<pending, due, recorded, settled, merchantFaults>>
      PROVE  MerchantTypes'
  <2>1. /\ worker' \in [Merchant!Callers -> MerchantPoints]
        /\ \A c \in Hourly : worker'[c] \notin {"record", "kept"}
    BY <1>5, CallerPoints DEF Merchant!Request, MerchantPoints
  <2> QED
    BY <1>h, <1>5, <2>1 DEF Merchant!Request, MerchantTypes
<1>6. ASSUME NEW p \in Items, Merchant!Decide(p) PROVE MerchantTypes'
  <2>1. CASE Merchant!Request(p)
    BY <1>0, <1>5, <1>6, <2>1 DEF Merchant!Decide
  <2>2. CASE Merchant!Goto(p, "done") /\ UNCHANGED crowded
    <3>1. /\ worker' \in [Merchant!Callers -> MerchantPoints]
          /\ \A c \in Hourly : worker'[c] \notin {"record", "kept"}
      BY <1>0, <2>2, CallerPoints DEF MerchantPoints
    <3> QED
      BY <1>6, <2>2, <3>1 DEF Merchant!Decide, MerchantTypes
  <2> QED
    BY <1>6, <2>1, <2>2 DEF Merchant!Decide
<1>7. ASSUME NEW c \in Hourly, Merchant!Check(c) PROVE MerchantTypes'
  BY <1>0, <1>5, <1>7 DEF Merchant!Check
<1>8. ASSUME NEW w \in Merchant!Callers, Merchant!Settle(w) PROVE MerchantTypes'
  <2>1. /\ worker' \in [Merchant!Callers -> MerchantPoints]
        /\ \A c \in Hourly : worker'[c] \notin {"record", "kept"}
    BY <1>8, CallerPoints DEF Merchant!Settle, MerchantPoints
  <2> QED
    BY <1>8, <2>1 DEF Merchant!Settle, MerchantTypes
<1>9. ASSUME NEW w \in Merchant!Callers, Merchant!Return(w)
      PROVE  /\ worker' \in [Merchant!Callers -> MerchantPoints]
             /\ \A c \in Hourly : worker'[c] \notin {"record", "kept"}
  BY <1>9, CallerPoints DEF Merchant!Return, MerchantPoints
<1>10. ASSUME NEW w \in Merchant!Callers, Merchant!Clear(w) PROVE MerchantTypes'
  BY <1>9, <1>10 DEF Merchant!Clear, MerchantTypes
<1>11. ASSUME NEW w \in Merchant!Callers, Merchant!Refused(w) PROVE MerchantTypes'
  <2>1. Bounded(merchantFaults, merchantFaults', MaxExceptions)
    BY <1>11 DEF Merchant!Refused, Bounded
  <2>2. merchantFaults' \in 0..MaxExceptions
    BY <2>1, StaysBounded, Limits DEF MerchantTypes
  <2>3. worker[w] = "record" => w \in Items
    BY <1>0 DEF MerchantTypes
  <2>4. recorded \subseteq recorded' /\ recorded' \subseteq Items
    BY <1>11, <2>3 DEF Merchant!Refused, MerchantTypes
  <2> QED
    BY <1>9, <1>11, <2>2, <2>4 DEF Merchant!Refused, MerchantTypes
<1> QED
  BY <1>1, <1>2, <1>3, <1>4, <1>6, <1>7, <1>8, <1>10, <1>11 DEF Merchant!Next

LEMMA MerchantBegins == Merchant!Init => MerchantTypes
<1> SUFFICES ASSUME Merchant!Init PROVE MerchantTypes
  OBVIOUS
<1>1. due \in BOOLEAN
  BY Zenon DEF Merchant!Init
<1>2. Hourly \subseteq Merchant!Callers
  BY DEF Merchant!Callers
<1> QED
  BY <1>1, <1>2, Limits DEF Merchant!Init, MerchantTypes, MerchantPoints

LEMMA MerchantTypesAre == MerchantTypes => Merchant!TypeOK
BY DEF MerchantTypes, MerchantPoints, Merchant!TypeOK

-----------------------------------------------------------------------------
\* The sandbox: time does not go beyond its horizon, and a signature not further than it
\* is remembered from then.
SandboxBounded ==
    /\ SandboxTypes
    /\ now \in 0..(MaxPayloadAge + 1) /\ until \in 0..((MaxPayloadAge + 1) + Ttl)
    /\ checkFaults \in 0..MaxFaults

LEMMA SandboxKeepsBounds ==
    ASSUME SandboxBounded, [Sandbox!NextSandbox]_sandboxVars
    PROVE  SandboxBounded'
<1>1. SandboxTypes'
  BY SandboxTyped DEF SandboxBounded
<1> DEFINE Steps == /\ Bounded(now, now', MaxPayloadAge + 1)
                    /\ until' = until \/ until' = now + Ttl \/ until' = 0
                    /\ Bounded(checkFaults, checkFaults', MaxFaults)
<1>2. Steps
  <2>1. CASE UNCHANGED sandboxVars
    BY <2>1 DEF sandboxVars, Bounded
  <2>2. ASSUME NEW c \in Workers, Sandbox!Verify(c) \/ Sandbox!CallbackThrows(c)
                                     \/ Sandbox!SetRecord(c) \/ Sandbox!Push(c)
        PROVE  Steps
    BY <2>2, Zenon DEF Sandbox!Verify, Sandbox!Begin, Sandbox!HasSignature, Sandbox!Validate,
          Sandbox!Add, Sandbox!Serve, Sandbox!StoreThrows, Sandbox!CheckFault, Bounded,
          Sandbox!CallbackThrows, Sandbox!SetRecord, Sandbox!Push
  <2>3. ASSUME NEW r \in Others,
               \/ Sandbox!Pop(r) \/ Sandbox!Get(r) \/ Sandbox!Find(r) \/ Sandbox!Send(r)
               \/ Sandbox!Confirm(r) \/ Sandbox!WriteRefunded(r) \/ Sandbox!WriteFailed(r)
        PROVE  Steps
    BY <2>3 DEF Sandbox!Pop, Sandbox!Get, Sandbox!Find, Sandbox!Send, Sandbox!Confirm,
          Sandbox!WriteRefunded, Sandbox!WriteFailed, Sandbox!RunStep, Sandbox!verifierVars, Bounded
  <2>4. ASSUME NEW r \in Others, Sandbox!RunThrows(r) PROVE Steps
    BY <2>4 DEF Sandbox!RunThrows, Sandbox!CheckFault, Bounded
  <2>5. CASE Sandbox!Tick
    BY <2>5 DEF Sandbox!Tick, Bounded
  <2>6. CASE Sandbox!RestartSandbox
    BY <2>6 DEF Sandbox!RestartSandbox, Sandbox!Restart, Sandbox!CheckFault, Bounded
  <2> QED
    BY <2>1, <2>2, <2>3, <2>4, <2>5, <2>6 DEF Sandbox!NextSandbox
<1>3. MaxPayloadAge + 1 \in Nat
  BY Limits
<1>4. now' \in 0..(MaxPayloadAge + 1) /\ checkFaults' \in 0..MaxFaults
  BY <1>2, <1>3, StaysBounded, Limits DEF SandboxBounded
<1>5. until' \in 0..((MaxPayloadAge + 1) + Ttl)
  BY <1>2, <1>3, Limits DEF SandboxBounded
<1> QED
  BY <1>1, <1>4, <1>5 DEF SandboxBounded

LEMMA SandboxBegins == Sandbox!InitSandbox => SandboxBounded
<1> SUFFICES ASSUME Sandbox!InitSandbox PROVE SandboxBounded
  OBVIOUS
<1>1. SandboxTypes
  BY DEF Sandbox!InitSandbox, Sandbox!Init, SandboxTypes
<1>2. now = 0 /\ until = 0 /\ checkFaults = 0
  BY DEF Sandbox!InitSandbox, Sandbox!Init
<1> QED
  BY <1>1, <1>2, Limits DEF SandboxBounded

LEMMA SandboxTypesAre == SandboxBounded => Sandbox!TypeOK
BY DEF SandboxBounded, SandboxTypes, Sandbox!TypeOK

-----------------------------------------------------------------------------
\* API keys: the requests that are counted together are some of those there are.
KeysBounded ==
    /\ KeysInv
    /\ together \in 0..Cardinality(Workers)
    /\ outdated \in BOOLEAN
    /\ accessFaults \in 0..MaxFaults

LEMMA KeysKeepBounds ==
    ASSUME KeysBounded, [Access!Next]_accessVars
    PROVE  KeysBounded'
<1>1. KeysInv'
  BY KeysTyped, KeysKept DEF KeysBounded
<1>2. Bounded(accessFaults, accessFaults', MaxFaults) /\ outdated' \in BOOLEAN
  <2>1. CASE UNCHANGED accessVars
    BY <2>1 DEF accessVars, Bounded, KeysBounded
  <2>2. CASE ~UNCHANGED accessVars
    <3>1. Bounded(accessFaults, accessFaults', MaxFaults)
      BY <2>2, Zenon DEF Bounded, Access!Next, Access!Begin, Access!FindValidKey,
            Access!RefuseSignature, Access!LetIn, Access!Read, Access!CountKeys, Access!CreateKey,
            Access!FindKey, Access!RevokeKey, Access!RenameKey, Access!Throw, Access!Expire
    <3>2. outdated' = outdated \/ \E r \in Workers : Access!LetIn(r)
      BY <2>2, Zenon DEF Access!Next, Access!Begin, Access!FindValidKey,
            Access!RefuseSignature, Access!Read, Access!CountKeys, Access!CreateKey,
            Access!FindKey, Access!RevokeKey, Access!RenameKey, Access!Throw, Access!Expire
    <3>3. (\E r \in Workers : Access!LetIn(r)) => outdated' \in BOOLEAN
      BY Zenon DEF Access!LetIn
    <3> QED
      BY <3>1, <3>2, <3>3 DEF KeysBounded
  <2> QED
    BY <2>1, <2>2
<1>3. together' \in 0..Cardinality(Workers)
  <2>1. together' = together \/ \E r \in Workers : Access!CountKeys(r)
    BY Zenon DEF accessVars, Access!Next, Access!Begin, Access!FindValidKey,
          Access!RefuseSignature, Access!LetIn, Access!Read, Access!CreateKey,
          Access!FindKey, Access!RevokeKey, Access!RenameKey, Access!Throw, Access!Expire
  <2>2. ASSUME NEW r \in Workers, Access!CountKeys(r)
        PROVE  together' \in 0..Cardinality(Workers)
    <3> DEFINE C == {q \in Workers : Access!At(q, "create")}
               n == 1 + Cardinality(C)
    <3>1. together' = together \/ together' = Access!Max({together, n})
      BY <2>2, SameCardinality DEF Access!CountKeys
    <3>2. r \notin C /\ C \cup {r} \subseteq Workers /\ IsFiniteSet(Workers)
      BY <2>2, ServicesAssumption DEF Access!CountKeys, Access!At
    <3> HIDE DEF C
    <3>3. /\ IsFiniteSet(C) /\ Cardinality(C) \in Nat /\ Cardinality(Workers) \in Nat
          /\ Cardinality(C \cup {r}) <= Cardinality(Workers)
          /\ Cardinality(C \cup {r}) = Cardinality(C) + 1
      <4>1. IsFiniteSet(C)
        BY <3>2, FS_Subset
      <4>2. Cardinality(C \cup {r}) = Cardinality(C) + 1
        BY <3>2, <4>1, FS_AddElement
      <4> QED
        BY <3>2, <4>1, <4>2, FS_Subset, FS_CardinalityType
    <3>4. n \in 0..Cardinality(Workers)
      BY <3>3
    <3> HIDE DEF n
    <3>5. together \in Int /\ n \in Int
      BY <3>3, <3>4 DEF KeysBounded
    <3>6. Access!Max({together, n}) \in {together, n}
      BY <3>5, LargerOf
    <3> QED
      BY <3>1, <3>4, <3>6 DEF KeysBounded
  <2> QED
    BY <2>1, <2>2 DEF KeysBounded
<1> QED
  BY <1>1, <1>2, <1>3, StaysBounded, Limits DEF KeysBounded

LEMMA KeysBoundedFirst == Access!Init => KeysBounded
<1> SUFFICES ASSUME Access!Init PROVE KeysBounded
  OBVIOUS
<1>1. KeysInv
  BY KeysBegin
<1>2. outdated \in BOOLEAN
  BY Zenon DEF Access!Init
<1>3. together = 0 /\ accessFaults = 0
  BY DEF Access!Init
<1> QED
  BY <1>1, <1>2, <1>3, Limits, ServicesAssumption, FS_CardinalityType DEF KeysBounded

LEMMA KeysTypesAre == KeysBounded => Access!TypeOK
<1>1. Access!Cardinality(Workers) = Cardinality(Workers)
  BY SameCardinality
<1> QED
  BY <1>1 DEF KeysBounded, KeysInv, AccessTypes, Access!TypeOK

-----------------------------------------------------------------------------
\* The rate limiter: counts beyond the limit are all one, and a record is of a window that
\* begins before the horizon.
LimiterBounded ==
    /\ LimiterInv
    /\ limiter \in [count : 0..(Allowed + 1), resetTime : -1..(LimiterHorizon + Window)]
    /\ restarts \in 0..MaxRestarts

LEMMA LimiterKeepsBounds ==
    ASSUME LimiterBounded, [Access!NextLimiter]_limiterVars
    PROVE  LimiterBounded'
<1> DEFINE Bounds == [count : 0..(Allowed + 1), resetTime : -1..(LimiterHorizon + Window)]
<1>1. LimiterInv'
  BY LimiterKept DEF LimiterBounded
<1>2. Bounded(restarts, restarts', MaxRestarts)
  BY Zenon DEF limiterVars, Access!NextLimiter, Access!Check, Access!Cleanup, Access!Tick,
        Access!Restart, Bounded
<1>3. Access!NoRecord \in Bounds
  BY LimiterConstants DEF Access!NoRecord
<1>4. ASSUME Access!Check PROVE limiter' \in Bounds
  <2>1. Access!Record \in Bounds
    <3>1. tick \in 0..LimiterHorizon
      BY DEF LimiterBounded, LimiterInv, LimiterTypes
    <3>2. [count |-> 0, resetTime |-> tick + Window] \in Bounds
      BY <3>1, LimiterConstants
    <3> QED
      BY <3>2 DEF Access!Record, LimiterBounded
  <2>2. Access!Min({Access!Record.count, Allowed}) + 1 \in 0..(Allowed + 1)
    <3>1. Access!Record.count \in Int /\ Allowed \in Int /\ Access!Record.count >= 0
      BY <2>1, LimiterConstants
    <3>2. /\ Access!Min({Access!Record.count, Allowed}) \in {Access!Record.count, Allowed}
          /\ Access!Min({Access!Record.count, Allowed}) <= Allowed
      BY <3>1, LargerOf
    <3> QED
      BY <3>1, <3>2, LimiterConstants
  <2>3. limiter' = [Access!Record EXCEPT !.count = Access!Min({Access!Record.count, Allowed}) + 1]
    BY <1>4 DEF Access!Check
  <2> QED
    BY <2>1, <2>2, <2>3
<1>5. limiter' = limiter \/ limiter' = Access!NoRecord \/ Access!Check
  BY Zenon DEF limiterVars, Access!NextLimiter, Access!Cleanup, Access!Tick, Access!Restart
<1>6. limiter' \in Bounds
  BY <1>3, <1>4, <1>5 DEF LimiterBounded
<1> QED
  BY <1>1, <1>2, <1>6, StaysBounded, Limits DEF LimiterBounded

LEMMA LimiterBoundedFirst == Access!InitLimiter => LimiterBounded
<1> SUFFICES ASSUME Access!InitLimiter PROVE LimiterBounded
  OBVIOUS
<1>1. LimiterInv
  BY LimiterBegins
<1>2. limiter = [count |-> 0, resetTime |-> -1] /\ restarts = 0
  BY DEF Access!InitLimiter, Access!NoRecord
<1>3. limiter \in [count : 0..(Allowed + 1), resetTime : -1..(LimiterHorizon + Window)]
  BY <1>2, LimiterConstants
<1> QED
  BY <1>1, <1>2, <1>3, Limits DEF LimiterBounded

LEMMA LimiterTypesAre == LimiterBounded => Access!LimiterTypeOK
BY DEF LimiterBounded, LimiterInv, LimiterTypes, Access!LimiterTypeOK

-----------------------------------------------------------------------------
\* Stream quotas: a client has one usage or none.
QuotaBounded == QuotaInv /\ deposits \in 0..MaxDeposits

LEMMA QuotaKeepsBounds ==
    ASSUME QuotaBounded, [Quota!Next]_quotaVars
    PROVE  QuotaBounded'
<1>1. QuotaInv'
  BY QuotaKept DEF QuotaBounded
<1>2. Bounded(deposits, deposits', MaxDeposits)
  BY Zenon DEF quotaVars, Quota!Next, Quota!Identify, Quota!VerifyPayment, Quota!Initialize,
        Quota!Stream, Quota!TopUp, Quota!Refund, Bounded
<1> QED
  BY <1>1, <1>2, StaysBounded, Limits DEF QuotaBounded

LEMMA QuotaBoundedFirst == Quota!Init => QuotaBounded
BY QuotaBegins, Limits DEF Quota!Init, QuotaBounded

LEMMA QuotaTypesAre == QuotaBounded => Quota!TypeOK
<1> SUFFICES ASSUME QuotaBounded PROVE Quota!TypeOK
  OBVIOUS
<1>1. ASSUME NEW c \in Hourly
      PROVE  quota[c] = {} \/ \E u \in quota[c] : u \in Quota!Usage /\ quota[c] = {u}
  <2>1. PICK rest : Holds(quota[c], rest)
    BY DEF QuotaBounded, QuotaInv, Account
  <2> QED
    BY <2>1 DEF Holds
<1>2. {deposited, streamed, refunded, replaced} \subseteq [Hourly -> Nat]
  BY DEF QuotaBounded, QuotaInv, QuotaTypes
<1> QED
  BY <1>1, <1>2 DEF QuotaBounded, QuotaInv, QuotaTypes, Quota!TypeOK

-----------------------------------------------------------------------------
\* ServicesTypeOK: every service stays within its types, for any number of requests. Among
\* what that says of the code: an account's requests are never counted beyond the limit and
\* one, the merchant's rows that are settled are rows, a client has one quota at most, and
\* a proposal's requests slash at most once each.
THEOREM ServicesTypesKept == ServicesSpec => []ServicesTypeOK
<1> DEFINE First == /\ part = "multisig" => WalletTypes
                    /\ part = "governance" => BallotTypes /\ SlashedOnce
                    /\ part = "escrow" => EscrowBounded
                    /\ part = "merchant" => MerchantTypes
                    /\ part = "sandbox" => SandboxBounded
                    /\ part = "calls" => CallsInv
                    /\ part = "policy" => PolicyInv
           Second == /\ part = "records" => RecordsInv
                     /\ part = "verification" => VerifyingInv
                     /\ part = "limiter" => LimiterBounded
                     /\ part = "keys" => KeysBounded
                     /\ part = "facilitator" => FacilitatorInv
                     /\ part = "credentials" => CredentialInv
                     /\ part = "quota" => QuotaBounded
                     /\ part = "generated" => GeneratedInv
           Inv == First /\ Second
<1>1. ServicesInit => Inv
  BY WalletBegins, BallotBegins, EscrowBegins, MerchantBegins, SandboxBegins, CallsBegin, PolicyBegins,
     RecordsBegin, VerifyingBegins, LimiterBoundedFirst, KeysBoundedFirst, FacilitatorBegins,
     CredentialBegins, QuotaBoundedFirst, GeneratedBegins
     DEF ServicesInit
<1>2. Inv /\ [ServicesNext]_servicesVars => Inv'
  <2> SUFFICES ASSUME Inv, [ServicesNext]_servicesVars PROVE Inv'
    OBVIOUS
  <2>1. /\ part = "multisig" => [Next]_multiSigVars
        /\ part = "governance" => [Governance!Next]_governanceVars
        /\ part = "escrow" => [Escrow!Next]_escrowVars
        /\ part = "merchant" => [Merchant!Next]_merchantVars
        /\ part = "sandbox" => [Sandbox!NextSandbox]_sandboxVars
        /\ part = "calls" => [Paying!Next]_callsVars
        /\ part = "policy" => [Policy!Next]_policyVars
        /\ part' = part
    BY DEF ServicesNext, servicesVars
  <2>2. /\ part = "records" => [Records!Next]_recordVars
        /\ part = "verification" => [Verifying!Next]_verificationVars
        /\ part = "limiter" => [Access!NextLimiter]_limiterVars
        /\ part = "keys" => [Access!Next]_accessVars
        /\ part = "facilitator" => [Facilitator!Next]_facilitatorVars
        /\ part = "credentials" => [Credential!Next]_credentialVars
        /\ part = "quota" => [Quota!Next]_quotaVars
        /\ part = "generated" => [Generated!Next]_generatedVars
        /\ part' = part
    BY DEF ServicesNext, servicesVars
  <2>3. First'
    BY <2>1, WalletTyped, BallotTyped, SlashedKept, EscrowKeepsBounds, MerchantTyped,
       SandboxKeepsBounds, CallsKept, PolicyKept
  <2>4. Second'
    BY <2>2, RecordsInvKept, VerifyingKept, LimiterKeepsBounds, KeysKeepBounds, FacilitatorKept,
       CredentialKept, QuotaKeepsBounds, GeneratedKept
  <2> QED
    BY <2>3, <2>4
<1>3. Inv => ServicesTypeOK
  <2> SUFFICES ASSUME Inv PROVE ServicesTypeOK
    OBVIOUS
  <2>1. /\ part = "multisig" => TypeOK
        /\ part = "governance" => Governance!TypeOK
        /\ part = "escrow" => Escrow!TypeOK
        /\ part = "merchant" => Merchant!TypeOK
        /\ part = "sandbox" => Sandbox!TypeOK
    BY WalletTypesAre, BallotTypesAre, EscrowTypesAre, MerchantTypesAre, SandboxTypesAre
  <2>2. /\ part = "calls" => Paying!TypeOK
        /\ part = "policy" => Policy!TypeOK
        /\ part = "records" => Records!TypeOK
        /\ part = "verification" => Verifying!TypeOK
        /\ part = "limiter" => Access!LimiterTypeOK
    BY CallTypesAre, RecordTypesAre, LimiterTypesAre DEF CallsInv, PolicyInv, RecordsInv, VerifyingInv
  <2>3. /\ part = "keys" => Access!TypeOK
        /\ part = "facilitator" => Facilitator!TypeOK
        /\ part = "credentials" => Credential!TypeOK
        /\ part = "quota" => Quota!TypeOK
        /\ part = "generated" => Generated!TypeOK
    BY KeysTypesAre, FacilitatorTypesAre, CredentialTypesAre, QuotaTypesAre
       DEF FacilitatorInv, CredentialInv, GeneratedInv
  <2> QED
    BY <2>1, <2>2, <2>3 DEF ServicesTypeOK
<1> HIDE DEF Inv
<1> QED
  BY <1>1, <1>2, <1>3, PTL DEF ServicesSpec
=============================================================================
