------------------------- MODULE X402RegistryProofs -------------------------
(***************************************************************************)
(* Theorems about X402Registry for every set of wallets, services, stakes, *)
(* cooldowns and bounds that its assumptions allow.                        *)
(***************************************************************************)
EXTENDS X402Registry, SumTheorems

USE DEF AgentOpen, ServiceOpen

\* calculate_new_reputation gives a score of at most 10000, whatever the score
\* was before, as long as no more calls have succeeded than were made.
LEMMA NewReputationRange ==
    ASSUME NEW rep \in Nat, NEW tx \in Nat, NEW okTx \in Nat, tx # 0
    PROVE  NewReputation(rep, tx, okTx) \in Nat /\ NewReputation(rep, tx, okTx) <= 10000
<1> DEFINE rate == (okTx * 10000) \div tx
           weighted == (rep * 95 + rate * 5) \div 100
<1>1. okTx * 10000 \in Nat
  OBVIOUS
<1>2. rate \in Nat
  <2> DEFINE n == okTx * 10000
  <2> HIDE DEF n
  <2>1. n \in Nat => n \div tx \in Nat
    OBVIOUS
  <2> QED
    BY <1>1, <2>1 DEF n
<1> HIDE DEF rate
<1>3. weighted \in Nat
  BY <1>2
<1> HIDE DEF weighted
<1>4. NewReputation(rep, tx, okTx) = IF weighted > 10000 THEN 10000 ELSE weighted
  BY DEF NewReputation, weighted, rate
<1> QED
  BY <1>3, <1>4

-----------------------------------------------------------------------------
\* What each instruction makes of an agent's account

LEMMA NewAgentFields ==
    ASSUME NEW stake \in Nat
    PROVE  /\ NewAgent(stake) \in Agent
           /\ NewAgent(stake).status = "Active" /\ NewAgent(stake).staked = stake
           /\ NewAgent(stake).serviceCount = 0
           /\ NewAgent(stake).creditLimit = 0 /\ NewAgent(stake).spent = 0
<1> DEFINE rep == InitialReputation(stake)
           new == [NoAgent EXCEPT !.status = "Active", !.staked = stake,
                                  !.reputation = rep, !.histMin = rep,
                                  !.unstakeWait = UnstakeLock,
                                  !.restakeWait = RestakeCooldown]
<1>1. rep \in Nat
  BY DEF InitialReputation
<1>2. NewAgent(stake) = new
  BY DEF NewAgent
<1>3. UnstakeLock \in Nat /\ RestakeCooldown \in Nat
  BY TimesAssumption
<1> HIDE DEF rep
<1>4. new \in Agent
  BY <1>1, <1>3 DEF NoAgent, Agent, AgentStatus
<1>5. /\ new.status = "Active" /\ new.staked = stake
      /\ new.serviceCount = 0 /\ new.creditLimit = 0 /\ new.spent = 0
  BY DEF NoAgent
<1> HIDE DEF new
<1> QED
  BY <1>2, <1>4, <1>5

LEMMA UnstakedFields ==
    ASSUME NEW a \in Agent
    PROVE  /\ Unstaked(a) \in Agent
           /\ Unstaked(a).status = "Paused" /\ Unstaked(a).staked = 0
           /\ Unstaked(a).reputation = 0 /\ Unstaked(a).creditLimit = 0
           /\ Unstaked(a).serviceCount = a.serviceCount
           /\ Unstaked(a).spent = a.spent
BY DEF Unstaked, Agent, AgentStatus

LEMMA RestakedFields ==
    ASSUME NEW a \in Agent, NEW stake \in Nat
    PROVE  /\ Restaked(a, stake) \in Agent
           /\ Restaked(a, stake).status = "Active"
           /\ Restaked(a, stake).staked = stake
           /\ Restaked(a, stake).serviceCount = a.serviceCount
           /\ Restaked(a, stake).creditLimit = 0
           /\ Restaked(a, stake).spent = 0
<1> DEFINE rep == Lesser(InitialReputation(stake), a.histMin)
           new == [a EXCEPT !.staked = stake, !.reputation = rep, !.spent = 0,
                            !.creditLimit = 0, !.status = "Active",
                            !.restakeWait = RestakeCooldown]
<1>1. rep \in Nat
  BY DEF Lesser, InitialReputation, Agent
<1>2. Restaked(a, stake) = new
  BY DEF Restaked
<1>3. RestakeCooldown \in Nat
  BY TimesAssumption
<1> HIDE DEF rep
<1>4. new \in Agent
  BY <1>1, <1>3 DEF Agent, AgentStatus
<1>5. /\ new.status = "Active" /\ new.staked = stake
      /\ new.serviceCount = a.serviceCount
      /\ new.creditLimit = 0 /\ new.spent = 0
  BY DEF Agent
<1> HIDE DEF new
<1> QED
  BY <1>2, <1>4, <1>5

LEMMA SlashedFields ==
    ASSUME NEW a \in Agent, NEW slash \in Nat, slash <= a.staked
    PROVE  /\ Slashed(a, slash) \in Agent
           /\ Slashed(a, slash).status = a.status
           /\ Slashed(a, slash).staked = a.staked - slash
           /\ Slashed(a, slash).serviceCount = a.serviceCount
           /\ Slashed(a, slash).creditLimit = a.creditLimit
           /\ Slashed(a, slash).spent = a.spent
<1> DEFINE left == a.staked - slash
           gone == a.slashed + slash
           lost == a.lost + 1
           rep == Penalised(a.reputation, 1000)
<1>1. left \in Nat /\ gone \in Nat /\ lost \in Nat /\ rep \in Nat
  BY DEF Agent, Penalised
<1>2. Slashed(a, slash) = [a EXCEPT !.staked = left, !.slashed = gone, !.lost = lost,
                                    !.slashWait = SlashCooldown, !.reputation = rep]
  BY DEF Slashed
<1>3. /\ Slashed(a, slash) \in Agent
      /\ Slashed(a, slash).status = a.status
      /\ Slashed(a, slash).staked = left
      /\ Slashed(a, slash).serviceCount = a.serviceCount
      /\ Slashed(a, slash).creditLimit = a.creditLimit
      /\ Slashed(a, slash).spent = a.spent
  <2> HIDE DEF left, gone, lost, rep
  <2> QED
    BY <1>1, <1>2, TimesAssumption DEF Agent
<1> QED
  BY <1>3

LEMMA RecordedFields ==
    ASSUME NEW a \in Agent, NEW amount \in Nat, NEW success \in BOOLEAN
    PROVE  /\ Recorded(a, amount, success) \in Agent
           /\ Recorded(a, amount, success).status = a.status
           /\ Recorded(a, amount, success).staked = a.staked
           /\ Recorded(a, amount, success).serviceCount = a.serviceCount
           /\ Recorded(a, amount, success).spent >= a.spent
           /\ \/ Recorded(a, amount, success).creditLimit = a.creditLimit
              \/ Recorded(a, amount, success).creditLimit
                   = CreditFor(Recorded(a, amount, success).spent)
<1> DEFINE tx == a.tx + 1
           okTx == a.okTx + 1
           spent == a.spent + amount
           rep == NewReputation(a.reputation, tx, okTx)
           credit == IF rep > CreditThreshold THEN CreditFor(spent) ELSE a.creditLimit
           worse == Penalised(a.reputation, 100)
<1>1. tx \in Nat /\ okTx \in Nat /\ spent \in Nat /\ spent >= a.spent /\ worse \in Nat
  BY DEF Agent, Penalised
<1>2. rep \in Nat
  <2> DEFINE old == a.reputation
  <2>1. tx \in Nat /\ tx # 0 /\ okTx \in Nat /\ old \in Nat
    BY DEF Agent
  <2> HIDE DEF tx, okTx, old
  <2>2. NewReputation(old, tx, okTx) \in Nat
    BY <2>1, NewReputationRange
  <2> QED
    BY <2>2 DEF old
<1>3. CreditFor(spent) \in Nat
  <2> HIDE DEF spent
  <2> QED
    BY <1>1 DEF CreditFor
<1>4. credit \in Nat /\ (credit = a.creditLimit \/ credit = CreditFor(spent))
  <2> HIDE DEF rep, spent
  <2> QED
    BY <1>3 DEF Agent
<1>5. /\ tx \in Nat /\ okTx \in Nat /\ spent \in Nat /\ worse \in Nat
      /\ credit \in Nat /\ RestakeCooldown \in Nat /\ TxGap \in Nat
  BY <1>1, <1>4, TimesAssumption
<1>6. CASE success
  <2>1. Recorded(a, amount, success) =
          [a EXCEPT !.tx = tx, !.restakeWait = RestakeCooldown, !.txWait = TxGap,
                    !.okTx = okTx, !.spent = spent, !.reputation = rep,
                    !.creditLimit = credit]
    <3> HIDE DEF tx, okTx, spent, rep, credit
    <3>1. Recorded(a, amount, success) =
            [[a EXCEPT !.tx = tx, !.restakeWait = RestakeCooldown, !.txWait = TxGap]
               EXCEPT !.okTx = okTx, !.spent = spent, !.reputation = rep,
                      !.creditLimit = credit]
      BY <1>6 DEF Recorded, tx, okTx, spent, rep, credit
    <3> QED
      BY <3>1 DEF Agent
  <2> HIDE DEF tx, okTx, spent, rep, credit
  <2>2. Recorded(a, amount, success).spent = spent
    BY <2>1 DEF Agent
  <2>3. /\ Recorded(a, amount, success).status = a.status
        /\ Recorded(a, amount, success).staked = a.staked
        /\ Recorded(a, amount, success).serviceCount = a.serviceCount
        /\ Recorded(a, amount, success).creditLimit = credit
    BY <2>1 DEF Agent
  <2>4. [a EXCEPT !.tx = tx, !.restakeWait = RestakeCooldown, !.txWait = TxGap,
                  !.okTx = okTx, !.spent = spent, !.reputation = rep,
                  !.creditLimit = credit] \in Agent
    BY <1>2, <1>5 DEF Agent
  <2>5. /\ Recorded(a, amount, success) \in Agent
        /\ Recorded(a, amount, success).status = a.status
        /\ Recorded(a, amount, success).staked = a.staked
        /\ Recorded(a, amount, success).serviceCount = a.serviceCount
        /\ Recorded(a, amount, success).creditLimit = credit
    BY <2>1, <2>3, <2>4, Zenon
  <2>6. Recorded(a, amount, success).spent >= a.spent
    BY <1>1, <2>2
  <2>7. CASE credit = a.creditLimit
    BY <2>5, <2>6, <2>7, Zenon
  <2>8. CASE credit = CreditFor(spent)
    <3>1. Recorded(a, amount, success).creditLimit
            = CreditFor(Recorded(a, amount, success).spent)
      BY <2>2, <2>5, <2>8, Zenon
    <3> QED
      BY <2>5, <2>6, <3>1, Zenon
  <2> QED
    BY <1>4, <2>7, <2>8, Zenon
<1>7. CASE ~success
  <2>1. Recorded(a, amount, success) =
          [a EXCEPT !.tx = tx, !.restakeWait = RestakeCooldown, !.txWait = TxGap,
                    !.reputation = worse]
    <3> HIDE DEF tx, worse
    <3>1. Recorded(a, amount, success) =
            [[a EXCEPT !.tx = tx, !.restakeWait = RestakeCooldown, !.txWait = TxGap]
               EXCEPT !.reputation = worse]
      BY <1>7 DEF Recorded, tx, worse
    <3> QED
      BY <3>1 DEF Agent
  <2> HIDE DEF tx, worse
  <2>2. /\ Recorded(a, amount, success) \in Agent
        /\ Recorded(a, amount, success).status = a.status
        /\ Recorded(a, amount, success).staked = a.staked
        /\ Recorded(a, amount, success).serviceCount = a.serviceCount
        /\ Recorded(a, amount, success).spent = a.spent
        /\ Recorded(a, amount, success).creditLimit = a.creditLimit
    BY <1>5, <2>1 DEF Agent
  <2>3. a.spent \in Nat
    BY DEF Agent
  <2> QED
    BY <2>2, <2>3
<1> QED
  BY <1>6, <1>7

LEMMA WaitedFields ==
    ASSUME NEW a \in Agent
    PROVE  /\ Waited(a) \in Agent
           /\ Waited(a).status = a.status /\ Waited(a).staked = a.staked
           /\ Waited(a).reputation = a.reputation
           /\ Waited(a).serviceCount = a.serviceCount
           /\ Waited(a).creditLimit = a.creditLimit
           /\ Waited(a).spent = a.spent
<1>1. \A n \in Nat : Less(n) \in Nat
  BY DEF Less
<1>2. /\ Less(a.txWait) \in Nat /\ Less(a.slashWait) \in Nat
      /\ Less(a.unstakeWait) \in Nat /\ Less(a.restakeWait) \in Nat
  BY <1>1 DEF Agent
<1> QED
  BY <1>2 DEF Waited, Agent

-----------------------------------------------------------------------------
\* The inductive invariant: EscrowSolvent, PausedHoldsNothing, CreditBacked and
\* ServiceCountExact are the claims; before the escrow account exists nobody has
\* stake, and an account without a service has no owner.

NoEscrowNoStake == escrow = -1 => \A w \in Wallets : agent[w].staked = 0

ClosedUnowned ==
    \A k \in ServiceKeys : ~ServiceOpen(k) => service[k].owner = NoOwner

IInv ==
    /\ TypeOK
    /\ EscrowSolvent
    /\ NoEscrowNoStake
    /\ PausedHoldsNothing
    /\ CreditBacked
    /\ ServiceCountExact
    /\ ClosedUnowned

\* What an account record must satisfy, whoever's it is
Sound(a) ==
    /\ a.status \in {"none", "Paused"} =>
         a.staked = 0 /\ a.reputation = 0 /\ a.creditLimit = 0
    /\ 10 * a.creditLimit <= a.spent

\* Every service keeps its owner and stays open or closed.
SameOwners ==
    /\ service' \in [ServiceKeys -> Service]
    /\ \A k \in ServiceKeys :
          /\ service'[k].owner = service[k].owner
          /\ service'[k].status \in OpenStatus <=> service[k].status \in OpenStatus

OthersTyped ==
    /\ rating' \in [ServiceKeys -> [Wallets -> Rating]]
    /\ treasury' \in Nat
    /\ deposited' \in Nat

LEMMA InitIInv == Init => IInv
<1> SUFFICES ASSUME Init PROVE IInv
  OBVIOUS
<1>1. NoAgent \in Agent /\ NoService \in Service /\ NoRating \in Rating
  BY DEF NoAgent, Agent, AgentStatus, NoService, Service, ServiceStatus,
         NoRating, Rating
<1>2. TypeOK
  BY <1>1 DEF Init, TypeOK
<1>3. \A w \in Wallets : ServicesOf(w) = {}
  BY AccountsAssumption DEF Init, ServicesOf, NoService
<1>4. ServiceCountExact
  BY <1>3, FS_EmptySet DEF Init, ServiceCountExact, NoAgent, NoService, OpenStatus
<1>5. EscrowSolvent /\ NoEscrowNoStake /\ ClosedUnowned
  BY DEF Init, EscrowSolvent, NoEscrowNoStake, ClosedUnowned, NoAgent, NoService
<1>6. PausedHoldsNothing /\ CreditBacked
  BY DEF Init, PausedHoldsNothing, CreditBacked, NoAgent
<1> QED
  BY <1>2, <1>4, <1>5, <1>6 DEF IInv

\* A step that rewrites the account of one agent keeps the invariant when escrow
\* moves by what the stake moves and the new account is sound.
LEMMA AgentRewritten ==
    ASSUME IInv, NEW w \in Wallets, NEW new \in Agent,
           agent' = [agent EXCEPT ![w] = new],
           SameOwners, OthersTyped,
           escrow' \in Nat \cup {-1},
           escrow >= 0 => escrow' = escrow + (new.staked - agent[w].staked),
           escrow = -1 => escrow' = -1 /\ new.staked = 0,
           Sound(new),
           new.serviceCount = agent[w].serviceCount,
           new.status = "none" => new.serviceCount = 0
    PROVE  IInv'
<1>1. /\ agent \in [Wallets -> Agent] /\ agent' \in [Wallets -> Agent]
      /\ escrow \in Nat \cup {-1}
      /\ agent'[w] = new /\ \A v \in Wallets \ {w} : agent'[v] = agent[v]
  BY DEF IInv, TypeOK
<1>2. TypeOK'
  BY <1>1 DEF TypeOK, SameOwners, OthersTyped
<1>3. EscrowSolvent'
  <2> DEFINE f == [v \in Wallets |-> agent[v].staked]
             g == [v \in Wallets |-> agent'[v].staked]
  <2>1. f \in [Wallets -> Nat] /\ g \in [Wallets -> Nat]
    BY <1>1 DEF Agent
  <2>2. \A v \in Wallets \ {w} : g[v] = f[v]
    BY <1>1
  <2>3. f[w] = agent[w].staked /\ g[w] = new.staked
    BY <1>1
  <2>4. CASE escrow >= 0
    <3>1. escrow = SumFunction(f)
      BY <2>4 DEF IInv, EscrowSolvent
    <3>2. f \in [Wallets -> Int] /\ g \in [Wallets -> Int]
      BY <2>1
    <3> HIDE DEF f, g
    <3>3. SumFunction(g) - SumFunction(f) = g[w] - f[w]
      BY <2>2, <3>2, SumUpdate, AccountsAssumption
    <3>4. SumFunction(g) \in Nat /\ SumFunction(f) \in Nat
      BY <2>1, SumAtLeastEntry, AccountsAssumption
    <3>5. escrow' = SumFunction(g)
      BY <2>1, <2>3, <2>4, <3>1, <3>3, <3>4
    <3> QED
      BY <3>5 DEF EscrowSolvent, g
  <2>5. CASE escrow = -1
    BY <2>5 DEF EscrowSolvent
  <2> QED
    BY <1>1, <2>4, <2>5
<1>4. NoEscrowNoStake'
  <2>1. CASE escrow = -1
    BY <1>1, <2>1 DEF IInv, NoEscrowNoStake
  <2>2. CASE escrow >= 0
    <3>1. new.staked \in Nat /\ agent[w].staked \in Nat
      BY <1>1 DEF Agent
    <3>2. ASSUME escrow' = -1 PROVE FALSE
      <4> DEFINE f == [v \in Wallets |-> agent[v].staked]
      <4>1. f \in [Wallets -> Nat] /\ f[w] = agent[w].staked
        BY <1>1 DEF Agent
      <4>2. escrow = SumFunction(f)
        BY <2>2 DEF IInv, EscrowSolvent
      <4> HIDE DEF f
      <4>3. escrow >= agent[w].staked
        BY <4>1, <4>2, SumAtLeastEntry, AccountsAssumption
      <4> QED
        BY <1>1, <2>2, <3>1, <3>2, <4>3
    <3> QED
      BY <3>2 DEF NoEscrowNoStake
  <2> QED
    BY <1>1, <2>1, <2>2
<1>5. PausedHoldsNothing'
  BY <1>1 DEF IInv, PausedHoldsNothing, Sound
<1>6. CreditBacked'
  BY <1>1 DEF IInv, CreditBacked, Sound
<1>7. \A v \in Wallets : ServicesOf(v)' = ServicesOf(v)
  BY DEF ServicesOf, SameOwners
<1>8. ServiceCountExact'
  <2>1. \A v \in Wallets : agent'[v].serviceCount = agent[v].serviceCount
    BY <1>1
  <2>2. \A v \in Wallets : agent'[v].serviceCount = Cardinality(ServicesOf(v)')
    BY <1>7, <2>1 DEF IInv, ServiceCountExact
  <2>3. ASSUME NEW k \in ServiceKeys, service'[k].status \in OpenStatus
        PROVE  /\ service'[k].owner \in Wallets
               /\ agent'[service'[k].owner].status # "none"
    <3>1. /\ service'[k].owner = service[k].owner /\ service[k].owner \in Wallets
          /\ agent[service[k].owner].status # "none"
      BY <2>3 DEF IInv, ServiceCountExact, SameOwners
    <3>2. CASE service[k].owner = w
      <4>1. k \in ServicesOf(w)
        BY <3>2 DEF ServicesOf
      <4>2. Cardinality(ServicesOf(w)) # 0
        BY <4>1, FS_EmptySet, FS_Subset, AccountsAssumption DEF ServicesOf
      <4>3. new.serviceCount # 0
        BY <4>2 DEF IInv, ServiceCountExact
      <4> QED
        BY <1>1, <3>1, <3>2, <4>3
    <3>3. CASE service[k].owner # w
      BY <1>1, <3>1, <3>3
    <3> QED
      BY <3>2, <3>3
  <2> QED
    BY <2>2, <2>3 DEF ServiceCountExact
<1>9. ClosedUnowned'
  BY DEF IInv, ClosedUnowned, SameOwners
<1> QED
  BY <1>2, <1>3, <1>4, <1>5, <1>6, <1>8, <1>9 DEF IInv

-----------------------------------------------------------------------------
\* Every action preserves the invariant

LEMMA AgentStepIInv ==
    ASSUME IInv, NEW w \in Wallets, AgentStep(w)
    PROVE  IInv'
<1> DEFINE a == agent[w]
<1>1. a \in Agent /\ escrow \in Nat \cup {-1} /\ treasury \in Nat /\ deposited \in Nat
  BY DEF IInv, TypeOK
<1>2. SameOwners /\ rating' = rating
  BY DEF AgentStep, RegisterAgent, RestakeAgent, UnstakeAgent, CloseAgent,
         SlashForFraud, SuspendAgent, UnsuspendAgent, BanAgent, SetAgentStatus,
         SameOwners, IInv, TypeOK
<1>3. rating' \in [ServiceKeys -> [Wallets -> Rating]]
  BY <1>2 DEF IInv, TypeOK
<1>4. a.staked \in Nat /\ a.slashed \in Nat /\ a.status \in AgentStatus
      /\ a.serviceCount \in Nat /\ a.spent \in Nat /\ a.creditLimit \in Nat
  BY <1>1 DEF Agent
<1>5. Sound(a)
  BY DEF IInv, PausedHoldsNothing, CreditBacked, Sound
<1>6. a.status = "none" => a.serviceCount = 0
  <2>1. ASSUME a.status = "none", NEW k \in ServicesOf(w) PROVE FALSE
    <3>1. service[k].owner = w /\ w # NoOwner /\ k \in ServiceKeys
      BY AccountsAssumption DEF ServicesOf
    <3>2. ServiceOpen(k)
      BY <3>1 DEF IInv, ClosedUnowned
    <3> QED
      BY <2>1, <3>1, <3>2 DEF IInv, ServiceCountExact
  <2>2. a.status = "none" => ServicesOf(w) = {}
    BY <2>1
  <2> QED
    BY <2>2, FS_EmptySet DEF IInv, ServiceCountExact
<1>7. ASSUME NEW stake \in StakeAmounts, RegisterAgent(w, stake)
      PROVE  IInv'
  <2>1. stake \in Nat
    BY StakesAssumption
  <2> DEFINE new == NewAgent(stake)
  <2>2. /\ new \in Agent /\ Sound(new) /\ new.staked = stake
        /\ new.serviceCount = 0 /\ new.status = "Active"
    BY <2>1, NewAgentFields DEF Sound
  <2>3. /\ agent' = [agent EXCEPT ![w] = new] /\ a.status = "none"
        /\ escrow >= 0 /\ escrow' = escrow + stake
        /\ treasury' = treasury /\ deposited' = deposited + stake
    BY <1>7 DEF RegisterAgent, Deposit
  <2>4. a.staked = 0
    BY <1>5, <2>3 DEF Sound
  <2>5. OthersTyped
    BY <1>1, <1>3, <2>1, <2>3 DEF OthersTyped
  <2> HIDE DEF new
  <2>6. /\ escrow' \in Nat \cup {-1}
        /\ escrow >= 0 => escrow' = escrow + (new.staked - a.staked)
        /\ escrow = -1 => escrow' = -1 /\ new.staked = 0
        /\ new.serviceCount = a.serviceCount
        /\ new.status = "none" => new.serviceCount = 0
    BY <1>1, <1>6, <2>1, <2>2, <2>3, <2>4
  <2> QED
    BY <1>2, <2>2, <2>3, <2>5, <2>6, AgentRewritten
<1>8. ASSUME NEW stake \in StakeAmounts, RestakeAgent(w, stake)
      PROVE  IInv'
  <2>1. stake \in Nat
    BY StakesAssumption
  <2> DEFINE new == Restaked(a, stake)
  <2>2. /\ new \in Agent /\ Sound(new) /\ new.staked = stake
        /\ new.serviceCount = a.serviceCount /\ new.status = "Active"
    BY <1>1, <2>1, RestakedFields DEF Sound
  <2>3. /\ agent' = [agent EXCEPT ![w] = new] /\ a.staked = 0
        /\ escrow >= 0 /\ escrow' = escrow + stake
        /\ treasury' = treasury /\ deposited' = deposited + stake
    BY <1>8 DEF RestakeAgent, Deposit
  <2>4. OthersTyped
    BY <1>1, <1>3, <2>1, <2>3 DEF OthersTyped
  <2> HIDE DEF new
  <2>5. /\ escrow' \in Nat \cup {-1}
        /\ escrow >= 0 => escrow' = escrow + (new.staked - a.staked)
        /\ escrow = -1 => escrow' = -1 /\ new.staked = 0
        /\ new.status = "none" => new.serviceCount = 0
    BY <1>1, <2>1, <2>2, <2>3
  <2> QED
    BY <1>2, <2>2, <2>3, <2>4, <2>5, AgentRewritten
<1>9. CASE UnstakeAgent(w)
  <2> DEFINE new == Unstaked(a)
  <2>1. /\ new \in Agent /\ Sound(new) /\ new.staked = 0
        /\ new.serviceCount = a.serviceCount /\ new.status = "Paused"
    <3>1. /\ new \in Agent /\ new.status = "Paused" /\ new.staked = 0
          /\ new.reputation = 0 /\ new.creditLimit = 0
          /\ new.serviceCount = a.serviceCount /\ new.spent = a.spent
      BY <1>1, UnstakedFields
    <3> HIDE DEF new
    <3> QED
      BY <1>4, <3>1 DEF Sound
  <2>2. /\ agent' = [agent EXCEPT ![w] = new] /\ escrow >= a.staked
        /\ escrow' = escrow - a.staked
        /\ treasury' = treasury /\ deposited' = deposited
    BY <1>9 DEF UnstakeAgent
  <2>3. OthersTyped
    BY <1>1, <1>3, <2>2 DEF OthersTyped
  <2> HIDE DEF new
  <2>4. /\ escrow' \in Nat \cup {-1}
        /\ escrow >= 0 => escrow' = escrow + (new.staked - a.staked)
        /\ escrow = -1 => escrow' = -1 /\ new.staked = 0
        /\ new.status = "none" => new.serviceCount = 0
    BY <1>1, <1>4, <2>1, <2>2
  <2> QED
    BY <1>2, <2>1, <2>2, <2>3, <2>4, AgentRewritten
<1>10. CASE CloseAgent(w)
  <2>1. NoAgent \in Agent /\ Sound(NoAgent) /\ NoAgent.staked = 0
        /\ NoAgent.serviceCount = 0
    BY DEF NoAgent, Agent, AgentStatus, Sound
  <2>2. /\ agent' = [agent EXCEPT ![w] = NoAgent] /\ a.staked = 0
        /\ a.serviceCount = 0 /\ escrow' = escrow
        /\ treasury' = treasury /\ deposited' = deposited
    BY <1>10 DEF CloseAgent
  <2>3. OthersTyped
    BY <1>1, <1>3, <2>2 DEF OthersTyped
  <2>4. escrow >= 0 => escrow' = escrow + (NoAgent.staked - a.staked)
    BY <1>1, <2>1, <2>2
  <2> QED
    BY <1>1, <1>2, <2>1, <2>2, <2>3, <2>4, AgentRewritten
<1>11. ASSUME NEW fraud \in FraudAmounts, SlashForFraud(w, fraud)
       PROVE  IInv'
  <2> DEFINE slash == SlashAmount(fraud, a.staked)
             new == Slashed(a, slash)
  <2>1. slash \in Nat
    BY <1>4, StakesAssumption DEF SlashAmount
  <2>2. /\ agent' = [agent EXCEPT ![w] = new] /\ a.status = "Suspended"
        /\ slash <= a.staked /\ escrow >= slash /\ escrow' = escrow - slash
        /\ treasury' = treasury + slash /\ deposited' = deposited
    BY <1>11 DEF SlashForFraud
  <2> HIDE DEF slash
  <2>3. /\ new \in Agent /\ new.status = a.status /\ new.staked = a.staked - slash
        /\ new.serviceCount = a.serviceCount /\ new.creditLimit = a.creditLimit
        /\ new.spent = a.spent
    BY <1>1, <2>1, <2>2, SlashedFields
  <2> HIDE DEF new
  <2>4. Sound(new)
    BY <1>5, <2>2, <2>3 DEF Sound
  <2>5. OthersTyped
    BY <1>1, <1>3, <2>1, <2>2 DEF OthersTyped
  <2>6. /\ escrow' \in Nat \cup {-1}
        /\ escrow >= 0 => escrow' = escrow + (new.staked - a.staked)
        /\ escrow = -1 => escrow' = -1 /\ new.staked = 0
        /\ new.status = "none" => new.serviceCount = 0
    BY <1>1, <1>4, <2>1, <2>2, <2>3
  <2> QED
    BY <1>2, <2>2, <2>3, <2>4, <2>5, <2>6, AgentRewritten
<1>12. ASSUME NEW from \in SUBSET (AgentStatus \ {"none"}),
              NEW to \in AgentStatus \ {"none", "Paused"}, SetAgentStatus(w, from, to)
       PROVE  IInv'
  <2> DEFINE new == [a EXCEPT !.status = to]
  <2>1. /\ new \in Agent /\ new.status = to /\ new.staked = a.staked
        /\ new.serviceCount = a.serviceCount /\ new.creditLimit = a.creditLimit
        /\ new.spent = a.spent
    BY <1>1 DEF Agent
  <2>2. /\ agent' = [agent EXCEPT ![w] = new] /\ escrow' = escrow
        /\ treasury' = treasury /\ deposited' = deposited
    BY <1>12 DEF SetAgentStatus, IInv, TypeOK
  <2> HIDE DEF new
  <2>3. Sound(new)
    BY <1>5, <2>1 DEF Sound
  <2>4. OthersTyped
    BY <1>1, <1>3, <2>2 DEF OthersTyped
  <2>5. /\ escrow >= 0 => escrow' = escrow + (new.staked - a.staked)
        /\ new.status = "none" => new.serviceCount = 0
    BY <1>1, <1>4, <2>1, <2>2
  <2>6. escrow = -1 => new.staked = 0
    BY <2>1 DEF IInv, NoEscrowNoStake
  <2> QED
    BY <1>1, <1>2, <2>1, <2>2, <2>3, <2>4, <2>5, <2>6, AgentRewritten
<1> QED
  BY <1>7, <1>8, <1>9, <1>10, <1>11, <1>12
     DEF AgentStep, SuspendAgent, UnsuspendAgent, BanAgent, AgentStatus

\* A step that leaves every agent and the escrow alone, and every service with
\* its owner, keeps the invariant.
LEMMA OwnersKept ==
    ASSUME IInv, agent' = agent, escrow' = escrow, SameOwners, OthersTyped
    PROVE  IInv'
<1>1. TypeOK'
  BY DEF IInv, TypeOK, SameOwners, OthersTyped
<1>2. /\ EscrowSolvent' /\ NoEscrowNoStake' /\ PausedHoldsNothing' /\ CreditBacked'
  BY DEF IInv, EscrowSolvent, NoEscrowNoStake, PausedHoldsNothing, CreditBacked
<1>3. \A v \in Wallets : ServicesOf(v)' = ServicesOf(v)
  BY DEF ServicesOf, SameOwners
<1>4. ServiceCountExact'
  BY <1>3 DEF IInv, ServiceCountExact, SameOwners
<1>5. ClosedUnowned'
  BY DEF IInv, ClosedUnowned, SameOwners
<1> QED
  BY <1>1, <1>2, <1>4, <1>5 DEF IInv

\* A step that opens service k for agent w, or closes it, and counts it.
LEMMA ServiceCounted ==
    ASSUME IInv, NEW w \in Wallets, NEW k \in ServiceKeys, NEW svc \in Service,
           NEW count \in Nat,
           agent' = [agent EXCEPT ![w].serviceCount = count],
           service' = [service EXCEPT ![k] = svc],
           escrow' = escrow, OthersTyped,
           agent[w].status # "none",
           \/ /\ ~ServiceOpen(k) /\ svc.owner = w /\ svc.status \in OpenStatus
              /\ count = agent[w].serviceCount + 1
           \/ /\ service[k].owner = w
              /\ svc.owner = NoOwner /\ svc.status \notin OpenStatus
              /\ count = agent[w].serviceCount - 1
    PROVE  IInv'
<1>1. /\ agent \in [Wallets -> Agent] /\ service \in [ServiceKeys -> Service]
      /\ NoOwner \notin Wallets
  BY AccountsAssumption DEF IInv, TypeOK
<1>2. /\ agent' \in [Wallets -> Agent]
      /\ \A v \in Wallets :
            /\ agent'[v].status = agent[v].status /\ agent'[v].staked = agent[v].staked
            /\ agent'[v].reputation = agent[v].reputation
            /\ agent'[v].creditLimit = agent[v].creditLimit
            /\ agent'[v].spent = agent[v].spent
      /\ agent'[w].serviceCount = count
      /\ \A v \in Wallets \ {w} : agent'[v] = agent[v]
  BY <1>1 DEF Agent
<1>3. /\ service' \in [ServiceKeys -> Service] /\ service'[k] = svc
      /\ \A j \in ServiceKeys \ {k} : service'[j] = service[j]
  BY <1>1
<1>4. TypeOK'
  BY <1>2, <1>3 DEF IInv, TypeOK, OthersTyped
<1>5. /\ EscrowSolvent' /\ NoEscrowNoStake' /\ PausedHoldsNothing' /\ CreditBacked'
  <2>1. [v \in Wallets |-> agent'[v].staked] = [v \in Wallets |-> agent[v].staked]
    BY <1>2
  <2>2. EscrowSolvent'
    BY <2>1 DEF IInv, EscrowSolvent
  <2>3. NoEscrowNoStake' /\ PausedHoldsNothing' /\ CreditBacked'
    BY <1>2 DEF IInv, NoEscrowNoStake, PausedHoldsNothing, CreditBacked
  <2> QED
    BY <2>2, <2>3
<1>6. ASSUME NEW v \in Wallets
      PROVE  agent'[v].serviceCount = Cardinality(ServicesOf(v)')
  <2>1. IsFiniteSet(ServicesOf(v))
    BY FS_Subset, AccountsAssumption DEF ServicesOf
  <2>2. agent[v].serviceCount = Cardinality(ServicesOf(v)) /\ agent[v].serviceCount \in Nat
    BY <1>1 DEF IInv, ServiceCountExact, Agent
  <2>3. CASE v = w /\ svc.owner = w
    <3>1. service[k].owner = NoOwner /\ count = agent[w].serviceCount + 1
      BY <1>1, <2>3 DEF IInv, ClosedUnowned
    <3>2. ServicesOf(w)' = ServicesOf(w) \cup {k} /\ k \notin ServicesOf(w)
      BY <1>1, <1>3, <2>3, <3>1 DEF ServicesOf
    <3>3. Cardinality(ServicesOf(w)') = Cardinality(ServicesOf(w)) + 1
      BY <2>1, <2>3, <3>2, FS_AddElement
    <3> QED
      BY <1>2, <2>2, <2>3, <3>1, <3>3
  <2>4. CASE v = w /\ svc.owner # w
    <3>1. service[k].owner = w /\ count = agent[w].serviceCount - 1
      BY <2>4
    <3>2. ServicesOf(w)' = ServicesOf(w) \ {k} /\ k \in ServicesOf(w)
      BY <1>3, <2>4, <3>1 DEF ServicesOf
    <3>3. Cardinality(ServicesOf(w)') = Cardinality(ServicesOf(w)) - 1
      BY <2>1, <2>4, <3>2, FS_RemoveElement
    <3> QED
      BY <1>2, <2>2, <2>4, <3>1, <3>3
  <2>5. CASE v # w
    <3>1. service[k].owner # v /\ svc.owner # v
      BY <1>1, <2>5 DEF IInv, ClosedUnowned
    <3>2. ServicesOf(v)' = ServicesOf(v)
      BY <1>3, <3>1 DEF ServicesOf
    <3> QED
      BY <1>2, <2>2, <2>5, <3>2
  <2> QED
    BY <2>3, <2>4, <2>5
<1>7. ServiceCountExact'
  <2>1. ASSUME NEW j \in ServiceKeys, service'[j].status \in OpenStatus
        PROVE  service'[j].owner \in Wallets /\ agent'[service'[j].owner].status # "none"
    <3>1. CASE j = k
      BY <1>2, <1>3, <2>1, <3>1
    <3>2. CASE j # k
      BY <1>2, <1>3, <2>1, <3>2 DEF IInv, ServiceCountExact
    <3> QED
      BY <3>1, <3>2
  <2> QED
    BY <1>6, <2>1 DEF ServiceCountExact
<1>8. ClosedUnowned'
  BY <1>3 DEF IInv, ClosedUnowned
<1> QED
  BY <1>4, <1>5, <1>7, <1>8 DEF IInv

LEMMA ServiceStepIInv ==
    ASSUME IInv, NEW k \in ServiceKeys, ServiceStep(k)
    PROVE  IInv'
<1>1. /\ agent \in [Wallets -> Agent] /\ service \in [ServiceKeys -> Service]
      /\ service[k] \in Service
  BY DEF IInv, TypeOK
<1>2. OthersTyped /\ escrow' = escrow
  BY DEF ServiceStep, RegisterService, UpdateService, PauseService, UnpauseService,
         DeprecateService, SuspendService, UnsuspendService, SetServiceStatus,
         CloseService, CloseSuspendedService, RemoveService, VerifyService,
         SetVisaTapVerified, OthersTyped, IInv, TypeOK
<1>3. ASSUME NEW w \in Wallets, NEW price \in Prices, RegisterService(w, k, price)
      PROVE  IInv'
  <2> DEFINE svc == [NoService EXCEPT !.status = "Active", !.owner = w, !.price = price]
             count == agent[w].serviceCount + 1
  <2>1. price \in Nat
    BY StakesAssumption
  <2>2. svc \in Service /\ svc.owner = w /\ svc.status = "Active"
    BY <2>1 DEF NoService, Service, ServiceStatus
  <2>3. count \in Nat
    BY <1>1 DEF Agent
  <2>4. /\ agent' = [agent EXCEPT ![w].serviceCount = count]
        /\ service' = [service EXCEPT ![k] = svc]
        /\ agent[w].status # "none" /\ ~ServiceOpen(k)
    BY <1>3 DEF RegisterService, OpenStatus
  <2>5. svc.status \in OpenStatus
    BY <2>2 DEF OpenStatus, ServiceStatus
  <2> HIDE DEF svc
  <2> QED
    BY <1>2, <2>2, <2>3, <2>4, <2>5, ServiceCounted
<1>4. ASSUME NEW status \in OpenStatus, RemoveService(k, status)
      PROVE  IInv'
  <2> DEFINE w == service[k].owner
             count == agent[w].serviceCount - 1
  <2>1. w \in Wallets
    BY <1>4 DEF RemoveService, IInv, ServiceCountExact
  <2>2. /\ ClosedService \in Service /\ ClosedService.owner = NoOwner
        /\ ClosedService.status \notin OpenStatus
    BY DEF ClosedService, NoService, Service, ServiceStatus, OpenStatus
  <2>3. /\ agent' = [agent EXCEPT ![w].serviceCount = count]
        /\ service' = [service EXCEPT ![k] = ClosedService]
        /\ agent[w].status # "none" /\ agent[w].serviceCount > 0
    BY <1>4 DEF RemoveService
  <2>4. count \in Nat
    BY <1>1, <2>1, <2>3 DEF Agent
  <2> QED
    BY <1>2, <2>1, <2>2, <2>3, <2>4, ServiceCounted
<1>5. ASSUME NEW from \in SUBSET OpenStatus, NEW to \in OpenStatus,
             SetServiceStatus(k, from, to)
      PROVE  IInv'
  <2>1. SameOwners
    BY <1>1, <1>5 DEF SetServiceStatus, SameOwners, Service, OpenStatus
  <2> QED
    BY <1>2, <1>5, <2>1, OwnersKept DEF SetServiceStatus
<1>6. ASSUME NEW price \in Prices, UpdateService(k, price)
      PROVE  IInv'
  <2>1. price \in Nat
    BY StakesAssumption
  <2>2. SameOwners
    BY <1>1, <1>6, <2>1 DEF UpdateService, SameOwners, Service
  <2> QED
    BY <1>2, <1>6, <2>2, OwnersKept DEF UpdateService
<1>7. CASE VerifyService(k)
  <2>1. SameOwners
    BY <1>1, <1>7 DEF VerifyService, SameOwners, Service
  <2> QED
    BY <1>2, <1>7, <2>1, OwnersKept DEF VerifyService
<1>8. ASSUME NEW verified \in BOOLEAN, SetVisaTapVerified(k, verified)
      PROVE  IInv'
  <2>1. SameOwners
    BY <1>1, <1>8 DEF SetVisaTapVerified, SameOwners, Service
  <2> QED
    BY <1>2, <1>8, <2>1, OwnersKept DEF SetVisaTapVerified
<1> QED
  BY <1>3, <1>4, <1>5, <1>6, <1>7, <1>8
     DEF ServiceStep, PauseService, UnpauseService, DeprecateService,
         SuspendService, UnsuspendService, CloseService, CloseSuspendedService,
         ServiceStatus, OpenStatus

LEMMA RecordTransactionIInv ==
    ASSUME IInv, NEW w \in Wallets, NEW k \in ServiceKeys, NEW amount \in Amounts,
           NEW success \in BOOLEAN, RecordTransaction(w, k, amount, success)
    PROVE  IInv'
<1> DEFINE a == agent[w]
           new == Recorded(a, amount, success)
           calls == service[k].calls + 1
           okCalls == IF success THEN service[k].okCalls + 1 ELSE service[k].okCalls
           revenue == IF success THEN service[k].revenue + amount ELSE service[k].revenue
<1>1. a \in Agent /\ service[k] \in Service /\ amount \in Nat
      /\ service \in [ServiceKeys -> Service]
  BY StakesAssumption DEF IInv, TypeOK
<1>2. calls \in Nat /\ okCalls \in Nat /\ revenue \in Nat
  BY <1>1 DEF Service
<1>3. /\ new \in Agent /\ new.status = a.status /\ new.staked = a.staked
      /\ new.serviceCount = a.serviceCount /\ new.spent >= a.spent
      /\ new.creditLimit = a.creditLimit \/ new.creditLimit = CreditFor(new.spent)
  BY <1>1, RecordedFields, Zenon
<1>4. /\ agent' = [agent EXCEPT ![w] = new] /\ a.status = "Active"
      /\ service' = [service EXCEPT ![k].calls = calls, ![k].okCalls = okCalls,
                                    ![k].revenue = revenue]
      /\ rating' = rating /\ escrow' = escrow
      /\ treasury' = treasury /\ deposited' = deposited
  BY DEF RecordTransaction
<1>5. OthersTyped
  BY <1>4 DEF OthersTyped, IInv, TypeOK
<1>6. SameOwners
  <2> HIDE DEF calls, okCalls, revenue
  <2> QED
    BY <1>1, <1>2, <1>4 DEF SameOwners, Service
<1> HIDE DEF new
<1>7. Sound(new)
  <2>1. 10 * a.creditLimit <= a.spent
    BY DEF IInv, CreditBacked
  <2>2. new.spent \in Nat /\ a.spent \in Nat /\ a.creditLimit \in Nat
    BY <1>1, <1>3 DEF Agent
  <2> DEFINE s == new.spent
             l == new.creditLimit
  <2>3. CASE new.creditLimit = a.creditLimit
    BY <1>3, <1>4, <2>1, <2>2, <2>3 DEF Sound
  <2>4. CASE new.creditLimit = CreditFor(new.spent)
    <3>1. l = s \div 10
      BY <2>4 DEF CreditFor
    <3>2. s \in Nat
      BY <2>2
    <3> HIDE DEF s, l
    <3>3. 10 * l <= s
      BY <3>1, <3>2
    <3> QED
      BY <1>3, <1>4, <3>3 DEF Sound, s, l
  <2> QED
    BY <1>3, <2>3, <2>4
<1>8. /\ escrow \in Nat \cup {-1}
      /\ escrow >= 0 => escrow' = escrow + (new.staked - a.staked)
      /\ escrow = -1 => new.staked = 0
      /\ new.status = "none" => new.serviceCount = 0
  <2>1. a.staked \in Nat /\ escrow \in Nat \cup {-1}
    BY <1>1 DEF Agent, IInv, TypeOK
  <2> QED
    BY <1>3, <1>4, <2>1 DEF IInv, NoEscrowNoStake
<1> QED
  BY <1>3, <1>4, <1>5, <1>6, <1>7, <1>8, AgentRewritten

LEMMA AggregateSameOwners ==
    ASSUME IInv, NEW k \in ServiceKeys, NEW count \in Nat, count # 0, NEW sum \in Nat,
           Aggregate(k, count, sum)
    PROVE  SameOwners
<1> DEFINE mean == sum \div count
<1>1. mean \in Nat
  OBVIOUS
<1>2. service' = [service EXCEPT ![k].ratings = count, ![k].ratingSum = sum,
                                 ![k].average = mean]
  BY DEF Aggregate
<1>3. service \in [ServiceKeys -> Service] /\ service[k] \in Service
  BY DEF IInv, TypeOK
<1> HIDE DEF mean
<1> QED
  BY <1>1, <1>2, <1>3 DEF SameOwners, Service

LEMMA TransactionStepIInv ==
    ASSUME IInv, NEW w \in Wallets, NEW k \in ServiceKeys, TransactionStep(w, k)
    PROVE  IInv'
<1>1. /\ service[k].ratings \in Nat /\ service[k].ratingSum \in Nat
      /\ rating[k][w].value \in Nat
      /\ rating \in [ServiceKeys -> [Wallets -> Rating]]
      /\ treasury \in Nat /\ deposited \in Nat
  <2>1. /\ service \in [ServiceKeys -> Service]
        /\ rating \in [ServiceKeys -> [Wallets -> Rating]]
        /\ treasury \in Nat /\ deposited \in Nat
    BY DEF IInv, TypeOK
  <2>2. service[k] \in Service /\ rating[k][w] \in Rating
    BY <2>1
  <2>3. service[k].ratings \in Nat /\ service[k].ratingSum \in Nat
    BY <2>2 DEF Service
  <2>4. rating[k][w].value \in Nat
    BY <2>2 DEF Rating
  <2> QED
    BY <2>1, <2>3, <2>4
<1>2. ASSUME NEW value \in RatingValues
      PROVE  /\ value \in Nat
             /\ [rating EXCEPT ![k][w] = [value |-> value, wait |-> RatingCooldown]]
                  \in [ServiceKeys -> [Wallets -> Rating]]
  <2>1. value \in 1..500 /\ RatingCooldown \in Nat
    BY StakesAssumption, TimesAssumption
  <2> QED
    BY <1>1, <2>1 DEF Rating
<1>3. ASSUME NEW value \in RatingValues, RateService(w, k, value)
      PROVE  IInv'
  <2>1. /\ Aggregate(k, service[k].ratings + 1, service[k].ratingSum + value)
        /\ rating' = [rating EXCEPT ![k][w] = [value |-> value, wait |-> RatingCooldown]]
        /\ agent' = agent /\ escrow' = escrow
        /\ treasury' = treasury /\ deposited' = deposited
    BY <1>3 DEF RateService
  <2>2. OthersTyped
    BY <1>1, <1>2, <2>1 DEF OthersTyped
  <2>3. SameOwners
    <3> DEFINE count == service[k].ratings + 1
               sum == service[k].ratingSum + value
    <3>0. value \in Nat
      BY <1>2
    <3>1. count \in Nat /\ count # 0 /\ sum \in Nat
      BY <1>1, <3>0
    <3>2. Aggregate(k, count, sum)
      BY <2>1
    <3> HIDE DEF count, sum
    <3> QED
      BY <3>1, <3>2, AggregateSameOwners
  <2> QED
    BY <2>1, <2>2, <2>3, OwnersKept
<1>4. ASSUME NEW value \in RatingValues, UpdateRating(w, k, value)
      PROVE  IInv'
  <2>1. /\ Aggregate(k, service[k].ratings,
                     service[k].ratingSum - rating[k][w].value + value)
        /\ service[k].ratings > 0 /\ service[k].ratingSum >= rating[k][w].value
        /\ rating' = [rating EXCEPT ![k][w] = [value |-> value, wait |-> RatingCooldown]]
        /\ agent' = agent /\ escrow' = escrow
        /\ treasury' = treasury /\ deposited' = deposited
    BY <1>4 DEF UpdateRating
  <2>2. OthersTyped
    BY <1>1, <1>2, <2>1 DEF OthersTyped
  <2>3. SameOwners
    <3> DEFINE count == service[k].ratings
               sum == service[k].ratingSum - rating[k][w].value + value
    <3>0. value \in Nat
      BY <1>2
    <3>1. count \in Nat /\ count # 0 /\ sum \in Nat
      BY <1>1, <2>1, <3>0
    <3>2. Aggregate(k, count, sum)
      BY <2>1
    <3> HIDE DEF count, sum
    <3> QED
      BY <3>1, <3>2, AggregateSameOwners
  <2> QED
    BY <2>1, <2>2, <2>3, OwnersKept
<1> QED
  BY <1>3, <1>4, RecordTransactionIInv DEF TransactionStep

LEMMA TickIInv ==
    ASSUME IInv, Tick
    PROVE  IInv'
<1>1. agent \in [Wallets -> Agent] /\ rating \in [ServiceKeys -> [Wallets -> Rating]]
  BY DEF IInv, TypeOK
<1>2. \A v \in Wallets :
        /\ agent'[v] \in Agent
        /\ agent'[v].status = agent[v].status /\ agent'[v].staked = agent[v].staked
        /\ agent'[v].reputation = agent[v].reputation
        /\ agent'[v].serviceCount = agent[v].serviceCount
        /\ agent'[v].creditLimit = agent[v].creditLimit
        /\ agent'[v].spent = agent[v].spent
  BY <1>1, WaitedFields DEF Tick
<1>3. agent' \in [Wallets -> Agent]
  BY <1>2 DEF Tick
<1>4. rating' \in [ServiceKeys -> [Wallets -> Rating]]
  <2>1. ASSUME NEW r \in Rating PROVE [r EXCEPT !.wait = Less(@)] \in Rating
    <3>1. Less(r.wait) \in Nat
      BY DEF Less, Rating
    <3> QED
      BY <3>1 DEF Rating
  <2>2. \A k \in ServiceKeys, w \in Wallets : rating[k][w] \in Rating
    BY <1>1
  <2> QED
    BY <2>1, <2>2 DEF Tick
<1>5. service' = service /\ escrow' = escrow /\ treasury' = treasury /\ deposited' = deposited
  BY DEF Tick
<1>6. TypeOK'
  BY <1>3, <1>4, <1>5 DEF IInv, TypeOK
<1>7. EscrowSolvent'
  <2>1. [v \in Wallets |-> agent'[v].staked] = [v \in Wallets |-> agent[v].staked]
    BY <1>2
  <2> QED
    BY <1>5, <2>1 DEF IInv, EscrowSolvent
<1>8. NoEscrowNoStake' /\ PausedHoldsNothing' /\ CreditBacked'
  BY <1>2, <1>5 DEF IInv, NoEscrowNoStake, PausedHoldsNothing, CreditBacked
<1>9. ServiceCountExact' /\ ClosedUnowned'
  BY <1>2, <1>5 DEF IInv, ServiceCountExact, ClosedUnowned, ServicesOf
<1> QED
  BY <1>6, <1>7, <1>8, <1>9 DEF IInv

LEMMA NextIInv == IInv /\ [Next]_vars => IInv'
<1> SUFFICES ASSUME IInv, [Next]_vars PROVE IInv'
  OBVIOUS
<1>1. CASE InitializeEscrow
  <2>1. escrow = -1 /\ escrow' = 0
        /\ agent' = agent /\ service' = service /\ rating' = rating
        /\ treasury' = treasury /\ deposited' = deposited
    BY <1>1 DEF InitializeEscrow
  <2>2. TypeOK'
    BY <2>1 DEF IInv, TypeOK
  <2>3. EscrowSolvent'
    <3> DEFINE f == [v \in Wallets |-> agent[v].staked]
    <3>1. f \in [Wallets -> Int] /\ \A v \in Wallets : f[v] = 0
      BY <2>1 DEF IInv, NoEscrowNoStake
    <3> HIDE DEF f
    <3>2. SumFunction(f) = 0
      BY <3>1, SumOfZeros, AccountsAssumption
    <3> QED
      BY <2>1, <3>2 DEF EscrowSolvent, f
  <2>4. NoEscrowNoStake' /\ PausedHoldsNothing' /\ CreditBacked'
    BY <2>1 DEF IInv, NoEscrowNoStake, PausedHoldsNothing, CreditBacked
  <2>5. ServiceCountExact' /\ ClosedUnowned'
    BY <2>1 DEF IInv, ServiceCountExact, ClosedUnowned, ServicesOf
  <2> QED
    BY <2>2, <2>3, <2>4, <2>5 DEF IInv
<1>2. CASE Tick
  BY <1>2, TickIInv
<1>3. ASSUME NEW w \in Wallets, AgentStep(w) PROVE IInv'
  BY <1>3, AgentStepIInv
<1>4. ASSUME NEW k \in ServiceKeys, ServiceStep(k) PROVE IInv'
  BY <1>4, ServiceStepIInv
<1>5. ASSUME NEW w \in Wallets, NEW k \in ServiceKeys, TransactionStep(w, k) PROVE IInv'
  BY <1>5, TransactionStepIInv
<1>6. CASE UNCHANGED vars
  <2>1. agent' = agent /\ service' = service /\ rating' = rating /\ escrow' = escrow
        /\ treasury' = treasury /\ deposited' = deposited
    BY <1>6 DEF vars
  <2>2. SameOwners /\ OthersTyped
    BY <2>1 DEF SameOwners, OthersTyped, IInv, TypeOK
  <2> QED
    BY <2>1, <2>2, OwnersKept
<1> QED
  BY <1>1, <1>2, <1>3, <1>4, <1>5, <1>6 DEF Next

-----------------------------------------------------------------------------

\* The invariant holds in every reachable state of the program.
THEOREM InductiveInvariant == Spec => []IInv
BY InitIInv, NextIInv, PTL DEF Spec

\* Every account always has the fields of its Rust struct with values in range.
THEOREM TypeCorrect == Spec => []TypeOK
<1>1. IInv => TypeOK
  BY DEF IInv
<1> QED
  BY <1>1, InductiveInvariant, PTL

\* register_agent, restake_agent, unstake_agent and slash_for_fraud keep the
\* balance of escrow equal to the sum of the stakes, for any number of agents.
THEOREM Solvency == Spec => []EscrowSolvent
<1>1. IInv => EscrowSolvent
  BY DEF IInv
<1> QED
  BY <1>1, InductiveInvariant, PTL

\* No sequence of instructions leaves a Paused or closed agent with stake,
\* reputation or credit.
THEOREM PausedIsEmpty == Spec => []PausedHoldsNothing
<1>1. IInv => PausedHoldsNothing
  BY DEF IInv
<1> QED
  BY <1>1, InductiveInvariant, PTL

\* service_count is exact, and close_agent never orphans a service.
THEOREM ServicesCounted == Spec => []ServiceCountExact
<1>1. IInv => ServiceCountExact
  BY DEF IInv
<1> QED
  BY <1>1, InductiveInvariant, PTL

\* record_transaction never grants credit that the agent's spending since its
\* last stake does not back tenfold.
THEOREM CreditIsBacked == Spec => []CreditBacked
<1>1. IInv => CreditBacked
  BY DEF IInv
<1> QED
  BY <1>1, InductiveInvariant, PTL
-----------------------------------------------------------------------------
\* Ratings: where keys are not used twice, a service starts without rating
\* accounts, and from then on every change of one is added to its aggregate.

ValuesOf(k) == [w \in Wallets |-> rating[k][w].value]

Aggregated(k) ==
    /\ service[k].ratings = Cardinality(RatersOf(k))
    /\ service[k].ratingSum = SumFunction(ValuesOf(k))
    /\ service[k].average <= 500

KeyAggregated(k) ==
    /\ service[k].status = "none" => \A w \in Wallets : rating[k][w].value = 0
    /\ ServiceOpen(k) => Aggregated(k)

AllAggregated == ~KeyReuse => \A k \in ServiceKeys : KeyAggregated(k)

\* A step that does not touch the ratings of service k, though it may close it
KeyUntouched(k) ==
    /\ service'[k].status = "none" => service[k].status = "none"
    /\ service'[k].status \in OpenStatus =>
         /\ service[k].status \in OpenStatus
         /\ service'[k].ratings = service[k].ratings
         /\ service'[k].ratingSum = service[k].ratingSum
         /\ service'[k].average = service[k].average
    /\ \A w \in Wallets : rating'[k][w].value = rating[k][w].value

LEMMA UntouchedAggregated ==
    ASSUME NEW k \in ServiceKeys, KeyAggregated(k), KeyUntouched(k)
    PROVE  KeyAggregated(k)'
<1>1. RatersOf(k)' = RatersOf(k) /\ ValuesOf(k)' = ValuesOf(k)
  BY DEF RatersOf, ValuesOf, KeyUntouched
<1>2. ServiceOpen(k)' => Aggregated(k)'
  BY <1>1 DEF KeyAggregated, Aggregated, KeyUntouched
<1>3. service'[k].status = "none" => \A w \in Wallets : rating'[k][w].value = 0
  BY DEF KeyAggregated, KeyUntouched
<1> QED
  BY <1>2, <1>3 DEF KeyAggregated

LEMMA InitAggregated == Init => AllAggregated
BY DEF Init, AllAggregated, KeyAggregated, NoService, NoRating, OpenStatus

\* register_service opens a key that nobody has rated.
LEMMA FreshAggregated ==
    ASSUME NEW k \in ServiceKeys, NEW price, NEW w,
           \A v \in Wallets : rating[k][v].value = 0, rating' = rating,
           service \in [ServiceKeys -> Service],
           service' = [service EXCEPT ![k] =
                         [NoService EXCEPT !.status = "Active", !.owner = w,
                                           !.price = price]]
    PROVE  KeyAggregated(k)'
<1>1. /\ service'[k].status = "Active" /\ service'[k].ratings = 0
      /\ service'[k].ratingSum = 0 /\ service'[k].average = 0
  BY DEF NoService
<1>2. RatersOf(k)' = {}
  BY DEF RatersOf
<1>3. Cardinality(RatersOf(k)') = 0
  BY <1>2, FS_EmptySet
<1>4. SumFunction(ValuesOf(k)') = 0
  <2> DEFINE f == [v \in Wallets |-> rating[k][v].value]
  <2>1. f \in [Wallets -> Int] /\ \A v \in Wallets : f[v] = 0
    OBVIOUS
  <2>2. ValuesOf(k)' = f
    BY DEF ValuesOf
  <2> HIDE DEF f
  <2> QED
    BY <2>1, <2>2, SumOfZeros, AccountsAssumption
<1>5. Aggregated(k)'
  BY <1>1, <1>3, <1>4 DEF Aggregated
<1> QED
  BY <1>1, <1>5 DEF KeyAggregated

\* Writing one rating account changes the sum of the values by the difference,
\* and the number of raters by one where the account is new.
LEMMA OneRatingWritten ==
    ASSUME NEW k \in ServiceKeys, NEW w \in Wallets, NEW value \in 1..500,
           rating \in [ServiceKeys -> [Wallets -> Rating]],
           rating' = [rating EXCEPT ![k][w] = [value |-> value, wait |-> RatingCooldown]]
    PROVE  /\ SumFunction(ValuesOf(k)') = SumFunction(ValuesOf(k)) - rating[k][w].value + value
           /\ Cardinality(RatersOf(k)') = IF rating[k][w].value = 0
                                          THEN Cardinality(RatersOf(k)) + 1
                                          ELSE Cardinality(RatersOf(k))
<1>1. /\ rating[k] \in [Wallets -> Rating]
      /\ \A v \in Wallets : rating[k][v].value \in Nat
  <2>1. rating[k] \in [Wallets -> Rating]
    OBVIOUS
  <2>2. \A v \in Wallets : rating[k][v] \in Rating
    BY <2>1
  <2>3. \A r \in Rating : r.value \in Nat
    BY DEF Rating
  <2> QED
    BY <2>1, <2>2, <2>3
<1>2. /\ rating'[k][w].value = value
      /\ \A v \in Wallets \ {w} : rating'[k][v] = rating[k][v]
  BY <1>1
<1>3. SumFunction(ValuesOf(k)') = SumFunction(ValuesOf(k)) - rating[k][w].value + value
  <2> DEFINE f == ValuesOf(k)
             g == [v \in Wallets |-> rating'[k][v].value]
             old == rating[k][w].value
  <2>1. f \in [Wallets -> Nat] /\ g \in [Wallets -> Nat]
    BY <1>1, <1>2 DEF ValuesOf
  <2>2. f[w] = old /\ g[w] = value /\ \A v \in Wallets \ {w} : g[v] = f[v]
    BY <1>2 DEF ValuesOf
  <2>3. ValuesOf(k)' = g
    BY DEF ValuesOf
  <2>4. old \in Nat /\ value \in Nat
    BY <1>1
  <2> HIDE DEF f, g, old
  <2>5. f \in [Wallets -> Int] /\ g \in [Wallets -> Int]
    BY <2>1
  <2>6. SumFunction(g) - SumFunction(f) = g[w] - f[w]
    BY <2>2, <2>5, SumUpdate, AccountsAssumption
  <2>7. SumFunction(f) \in Nat /\ SumFunction(g) \in Nat
    BY <2>1, SumAtLeastEntry, AccountsAssumption
  <2>8. SumFunction(g) = SumFunction(f) - old + value
    <3> DEFINE before == SumFunction(f)
               after == SumFunction(g)
    <3>1. after - before = value - old
      BY <2>2, <2>6
    <3>2. before \in Nat /\ after \in Nat
      BY <2>7
    <3> HIDE DEF before, after
    <3>3. after = before - old + value
      BY <2>4, <3>1, <3>2
    <3> QED
      BY <3>3 DEF before, after
  <2> QED
    BY <2>3, <2>8 DEF f, old
<1>4. IsFiniteSet(RatersOf(k))
  BY FS_Subset, AccountsAssumption DEF RatersOf
<1>5. RatersOf(k)' = RatersOf(k) \cup {w}
  BY <1>2 DEF RatersOf
<1>6. w \in RatersOf(k) <=> rating[k][w].value # 0
  BY <1>1 DEF RatersOf
<1>7. Cardinality(RatersOf(k) \cup {w}) =
        IF w \in RatersOf(k) THEN Cardinality(RatersOf(k)) ELSE Cardinality(RatersOf(k)) + 1
  BY <1>4, FS_AddElement
<1>8. Cardinality(RatersOf(k)') = IF rating[k][w].value = 0
                                  THEN Cardinality(RatersOf(k)) + 1
                                  ELSE Cardinality(RatersOf(k))
  BY <1>5, <1>6, <1>7
<1> QED
  BY <1>3, <1>8

\* rate_service and update_rating write the new account and its share of the
\* aggregate in one instruction.
LEMMA RatingAggregated ==
    ASSUME IInv, NEW w \in Wallets, NEW k \in ServiceKeys, NEW value \in RatingValues,
           RateService(w, k, value) \/ UpdateRating(w, k, value),
           \A j \in ServiceKeys : KeyAggregated(j)
    PROVE  \A j \in ServiceKeys : KeyAggregated(j)'
<1> DEFINE count == IF rating[k][w].value = 0
                    THEN service[k].ratings + 1 ELSE service[k].ratings
           sum == service[k].ratingSum - rating[k][w].value + value
           mean == sum \div count
<1>1. /\ service \in [ServiceKeys -> Service]
      /\ rating \in [ServiceKeys -> [Wallets -> Rating]]
  BY DEF IInv, TypeOK
<1>2. value \in 1..500
  BY StakesAssumption
<1>3. service[k].ratings \in Nat /\ service[k].ratingSum \in Nat /\ service[k].status \in ServiceStatus
  <2>1. service[k] \in Service
    BY <1>1
  <2> QED
    BY <2>1 DEF Service
<1>4. /\ ServiceOpen(k)
      /\ rating' = [rating EXCEPT ![k][w] = [value |-> value, wait |-> RatingCooldown]]
      /\ Aggregate(k, count, sum)
  <2>1. CASE RateService(w, k, value)
    <3>1. /\ rating[k][w].value = 0 /\ service[k].status = "Active"
          /\ Aggregate(k, service[k].ratings + 1, service[k].ratingSum + value)
          /\ rating' = [rating EXCEPT ![k][w] = [value |-> value, wait |-> RatingCooldown]]
      BY <2>1 DEF RateService
    <3>2. count = service[k].ratings + 1 /\ sum = service[k].ratingSum + value
      BY <1>2, <1>3, <3>1
    <3> HIDE DEF count, sum
    <3> QED
      BY <3>1, <3>2 DEF OpenStatus, ServiceStatus
  <2>2. CASE UpdateRating(w, k, value)
    <3>1. /\ rating[k][w].value # 0 /\ ServiceOpen(k)
          /\ Aggregate(k, service[k].ratings, sum)
          /\ rating' = [rating EXCEPT ![k][w] = [value |-> value, wait |-> RatingCooldown]]
      BY <2>2 DEF UpdateRating
    <3>2. count = service[k].ratings
      BY <3>1
    <3> HIDE DEF count, sum
    <3> QED
      BY <3>1, <3>2
  <2> QED
    BY <2>1, <2>2
<1>5. /\ SumFunction(ValuesOf(k)') = SumFunction(ValuesOf(k)) - rating[k][w].value + value
      /\ Cardinality(RatersOf(k)') = IF rating[k][w].value = 0
                                     THEN Cardinality(RatersOf(k)) + 1
                                     ELSE Cardinality(RatersOf(k))
  BY <1>1, <1>2, <1>4, OneRatingWritten
<1>6. Aggregated(k)
  BY <1>4 DEF KeyAggregated
<1>7. count = Cardinality(RatersOf(k)') /\ sum = SumFunction(ValuesOf(k)')
  BY <1>5, <1>6 DEF Aggregated
<1>8. mean <= 500 /\ service' = [service EXCEPT ![k].ratings = count, ![k].ratingSum = sum,
                                               ![k].average = mean]
  BY <1>4 DEF Aggregate
<1> HIDE DEF count, sum, mean
<1>9. /\ service'[k].ratings = count /\ service'[k].ratingSum = sum
      /\ service'[k].average = mean /\ service'[k].status = service[k].status
      /\ \A j \in ServiceKeys \ {k} : service'[j] = service[j]
  BY <1>1, <1>8 DEF Service
<1>10. KeyAggregated(k)'
  <2>1. Aggregated(k)'
    BY <1>7, <1>8, <1>9 DEF Aggregated
  <2>2. service'[k].status # "none"
    BY <1>4, <1>9 DEF OpenStatus
  <2> QED
    BY <2>1, <2>2 DEF KeyAggregated
<1>11. ASSUME NEW j \in ServiceKeys, j # k PROVE KeyAggregated(j)'
  <2>1. service'[j] = service[j] /\ rating'[j] = rating[j]
    BY <1>1, <1>4, <1>9, <1>11
  <2>2. KeyUntouched(j)
    BY <2>1 DEF KeyUntouched
  <2> QED
    BY <2>2, UntouchedAggregated
<1> QED
  BY <1>10, <1>11

LEMMA NextAggregated == IInv /\ AllAggregated /\ [Next]_vars => AllAggregated'
<1> SUFFICES ASSUME IInv, AllAggregated, [Next]_vars, ~KeyReuse,
                    NEW j \in ServiceKeys
             PROVE  KeyAggregated(j)'
  BY DEF AllAggregated
<1>1. \A k \in ServiceKeys : KeyAggregated(k)
  BY DEF AllAggregated
<1>2. /\ service \in [ServiceKeys -> Service] /\ service[j] \in Service
      /\ rating \in [ServiceKeys -> [Wallets -> Rating]]
  BY DEF IInv, TypeOK
<1>3. ASSUME service' = service, rating' = rating PROVE KeyAggregated(j)'
  <2>1. KeyUntouched(j)
    BY <1>3 DEF KeyUntouched
  <2> QED
    BY <1>1, <2>1, UntouchedAggregated
<1>4. CASE Tick
  <2>1. service' = service /\ \A w \in Wallets : rating'[j][w].value = rating[j][w].value
    <3>1. \A w \in Wallets : rating[j][w] \in Rating
      BY <1>2
    <3> QED
      BY <1>4, <3>1 DEF Tick, Rating
  <2>2. KeyUntouched(j)
    BY <2>1 DEF KeyUntouched
  <2> QED
    BY <1>1, <2>2, UntouchedAggregated
<1>5. ASSUME NEW w \in Wallets, AgentStep(w) PROVE KeyAggregated(j)'
  <2>1. service' = service /\ rating' = rating
    BY <1>5 DEF AgentStep, RegisterAgent, RestakeAgent, UnstakeAgent, CloseAgent,
                SlashForFraud, SuspendAgent, UnsuspendAgent, BanAgent, SetAgentStatus
  <2> QED
    BY <1>3, <2>1
<1>6. ASSUME NEW k \in ServiceKeys, ServiceStep(k) PROVE KeyAggregated(j)'
  <2>1. rating' = rating
    BY <1>6 DEF ServiceStep, RegisterService, UpdateService, PauseService,
                UnpauseService, DeprecateService, SuspendService, UnsuspendService,
                SetServiceStatus, CloseService, CloseSuspendedService, RemoveService,
                VerifyService, SetVisaTapVerified
  <2>2. ASSUME NEW w \in Wallets, NEW price \in Prices, RegisterService(w, k, price)
        PROVE  KeyAggregated(j)'
    <3>1. /\ service[k].status = "none"
          /\ service' = [service EXCEPT ![k] =
                           [NoService EXCEPT !.status = "Active", !.owner = w,
                                             !.price = price]]
      BY <2>2 DEF RegisterService
    <3>2. CASE j = k
      <4>1. \A v \in Wallets : rating[k][v].value = 0
        BY <1>1, <3>1 DEF KeyAggregated
      <4>2. KeyAggregated(k)'
        BY <1>2, <2>1, <3>1, <4>1, FreshAggregated
      <4> QED
        BY <3>2, <4>2
    <3>3. CASE j # k
      <4>1. KeyUntouched(j)
        BY <1>2, <2>1, <3>1, <3>3 DEF KeyUntouched
      <4> QED
        BY <1>1, <4>1, UntouchedAggregated
    <3> QED
      BY <3>2, <3>3
  <2>3. ASSUME NEW status \in OpenStatus, RemoveService(k, status)
        PROVE  KeyUntouched(j)
    <3>1. service' = [service EXCEPT ![k] = ClosedService]
      BY <2>3 DEF RemoveService
    <3>2. ClosedService.status = "closed"
      BY DEF ClosedService, NoService
    <3> QED
      BY <1>2, <2>1, <3>1, <3>2 DEF KeyUntouched, OpenStatus
  <2>4. ASSUME NEW from \in SUBSET OpenStatus, NEW to \in OpenStatus,
               SetServiceStatus(k, from, to)
        PROVE  KeyUntouched(j)
    BY <1>2, <2>1, <2>4 DEF SetServiceStatus, KeyUntouched, Service, OpenStatus
  <2>5. ASSUME NEW price \in Prices, UpdateService(k, price)
        PROVE  KeyUntouched(j)
    BY <1>2, <2>1, <2>5 DEF UpdateService, KeyUntouched, Service
  <2>6. ASSUME VerifyService(k) \/ \E verified \in BOOLEAN : SetVisaTapVerified(k, verified)
        PROVE  KeyUntouched(j)
    BY <1>2, <2>1, <2>6 DEF VerifyService, SetVisaTapVerified, KeyUntouched, Service
  <2>7. CASE \E w \in Wallets, price \in Prices : RegisterService(w, k, price)
    BY <2>2, <2>7
  <2>8. CASE ~ \E w \in Wallets, price \in Prices : RegisterService(w, k, price)
    <3>1. KeyUntouched(j)
      BY <1>6, <2>3, <2>4, <2>5, <2>6, <2>8
         DEF ServiceStep, PauseService, UnpauseService, DeprecateService,
             SuspendService, UnsuspendService, CloseService, CloseSuspendedService,
             ServiceStatus, OpenStatus
    <3> QED
      BY <1>1, <3>1, UntouchedAggregated
  <2> QED
    BY <2>7, <2>8
<1>7. ASSUME NEW w \in Wallets, NEW k \in ServiceKeys, TransactionStep(w, k)
      PROVE  KeyAggregated(j)'
  <2>1. ASSUME NEW amount \in Amounts, NEW success \in BOOLEAN,
               RecordTransaction(w, k, amount, success)
        PROVE  KeyAggregated(j)'
    <3>1. KeyUntouched(j)
      BY <1>2, <2>1 DEF RecordTransaction, KeyUntouched, Service
    <3> QED
      BY <1>1, <3>1, UntouchedAggregated
  <2>2. ASSUME NEW value \in RatingValues,
               RateService(w, k, value) \/ UpdateRating(w, k, value)
        PROVE  KeyAggregated(j)'
    BY <1>1, <2>2, RatingAggregated
  <2> QED
    BY <1>7, <2>1, <2>2 DEF TransactionStep
<1>8. CASE InitializeEscrow \/ UNCHANGED vars
  BY <1>3, <1>8 DEF InitializeEscrow, vars
<1> QED
  BY <1>4, <1>5, <1>6, <1>7, <1>8 DEF Next

\* rate_service and update_rating keep each service's count, sum and mean those
\* of its rating accounts, for any number of raters and services, as long as the
\* key of a closed service is never used again.
THEOREM RatingsAggregated == Spec => []RatingAggregate
<1>1. AllAggregated => RatingAggregate
  BY DEF AllAggregated, KeyAggregated, Aggregated, ValuesOf, RatingAggregate
<1>2. Spec => []AllAggregated
  BY InitAggregated, NextAggregated, InductiveInvariant, PTL DEF Spec
<1> QED
  BY <1>1, <1>2, PTL

-----------------------------------------------------------------------------
\* The stakes of suspended and banned agents

LEMMA UntouchedIsFrozen ==
    ASSUME IInv, NEW v \in Wallets, agent'[v].status = agent[v].status,
           agent'[v].staked = agent[v].staked,
           treasury' \in Nat, treasury' >= treasury
    PROVE  Frozen(v)
<1>1. agent[v].staked \in Nat /\ treasury \in Nat
  BY DEF IInv, TypeOK, Agent
<1> QED
  BY <1>1 DEF Frozen

LEMMA AgentStepFrozen ==
    ASSUME IInv, NEW w \in Wallets, AgentStep(w), NEW v \in Wallets
    PROVE  Frozen(v)
<1>1. agent \in [Wallets -> Agent] /\ treasury \in Nat /\ agent[w] \in Agent
  BY DEF IInv, TypeOK
<1>2. agent[w].staked \in Nat /\ agent[w].status \in AgentStatus
  BY <1>1 DEF Agent
<1>3. ASSUME NEW fraud \in FraudAmounts, SlashForFraud(w, fraud)
      PROVE  Frozen(v)
  <2> DEFINE slash == SlashAmount(fraud, agent[w].staked)
  <2>1. slash \in Nat
    BY <1>2, StakesAssumption DEF SlashAmount
  <2>2. /\ agent' = [agent EXCEPT ![w] = Slashed(agent[w], slash)]
        /\ agent[w].status = "Suspended" /\ slash <= agent[w].staked
        /\ treasury' = treasury + slash
    BY <1>3 DEF SlashForFraud
  <2> HIDE DEF slash
  <2>3. CASE v = w
    <3>1. agent'[v].staked = agent[w].staked - slash
      BY <1>1, <2>1, <2>2, <2>3, SlashedFields
    <3> QED
      BY <1>1, <1>2, <2>1, <2>2, <2>3, <3>1 DEF Frozen
  <2>4. CASE v # w
    <3>1. agent'[v] = agent[v]
      BY <1>1, <2>2, <2>4
    <3>2. treasury' \in Nat /\ treasury' >= treasury
      BY <1>1, <2>1, <2>2
    <3> QED
      BY <3>1, <3>2, UntouchedIsFrozen
  <2> QED
    BY <2>3, <2>4
<1>4. ASSUME treasury' = treasury, v # w, NEW new, agent' = [agent EXCEPT ![w] = new]
      PROVE  Frozen(v)
  <2>1. agent'[v] = agent[v] /\ treasury' \in Nat /\ treasury' >= treasury
    BY <1>1, <1>4
  <2> QED
    BY <2>1, UntouchedIsFrozen
<1>5. ASSUME treasury' = treasury, agent[w].status \notin {"Suspended", "Banned"},
             NEW new, agent' = [agent EXCEPT ![w] = new]
      PROVE  Frozen(v)
  BY <1>4, <1>5 DEF Frozen
<1>6. ASSUME NEW from \in SUBSET AgentStatus, NEW to \in AgentStatus,
             "Banned" \in from => to = "Banned", SetAgentStatus(w, from, to)
      PROVE  Frozen(v)
  <2> DEFINE new == [agent[w] EXCEPT !.status = to]
  <2>1. /\ agent' = [agent EXCEPT ![w] = new] /\ treasury' = treasury
        /\ agent[w].status \in from
    BY <1>1, <1>6 DEF SetAgentStatus
  <2>2. new.staked = agent[w].staked /\ new.status = to
    BY <1>1 DEF Agent
  <2> HIDE DEF new
  <2>3. CASE v = w
    <3>1. agent'[v] = new
      BY <1>1, <2>1, <2>3
    <3> QED
      BY <1>1, <1>2, <1>6, <2>1, <2>2, <2>3, <3>1 DEF Frozen
  <2> QED
    BY <1>4, <2>1, <2>3
<1>7. ASSUME NEW stake \in StakeAmounts, RegisterAgent(w, stake) \/ RestakeAgent(w, stake)
      PROVE  Frozen(v)
  BY <1>5, <1>7 DEF RegisterAgent, RestakeAgent
<1>8. CASE UnstakeAgent(w)
  BY <1>5, <1>8 DEF UnstakeAgent
<1>9. CASE CloseAgent(w)
  <2>1. /\ agent' = [agent EXCEPT ![w] = NoAgent] /\ treasury' = treasury
        /\ agent[w].staked = 0 /\ agent[w].status \in {"Paused", "Banned"}
    BY <1>9 DEF CloseAgent
  <2>2. CASE v = w
    BY <2>1, <2>2 DEF Frozen
  <2> QED
    BY <1>4, <2>1, <2>2
<1>10. CASE SuspendAgent(w) \/ UnsuspendAgent(w)
  BY <1>6, <1>10 DEF SuspendAgent, UnsuspendAgent, AgentStatus
<1>11. CASE BanAgent(w)
  BY <1>6, <1>11 DEF BanAgent, AgentStatus
<1> QED
  BY <1>3, <1>7, <1>8, <1>9, <1>10, <1>11 DEF AgentStep

LEMMA NextFrozen == IInv /\ [Next]_vars => \A v \in Wallets : Frozen(v)
<1> SUFFICES ASSUME IInv, [Next]_vars, NEW v \in Wallets PROVE Frozen(v)
  OBVIOUS
<1>1. agent \in [Wallets -> Agent] /\ treasury \in Nat
  BY DEF IInv, TypeOK
<1>2. ASSUME agent'[v].status = agent[v].status, agent'[v].staked = agent[v].staked,
             treasury' = treasury
      PROVE  Frozen(v)
  BY <1>1, <1>2, UntouchedIsFrozen
<1>3. CASE InitializeEscrow
  BY <1>2, <1>3 DEF InitializeEscrow
<1>4. CASE Tick
  <2>1. agent'[v] = Waited(agent[v]) /\ treasury' = treasury
    BY <1>1, <1>4 DEF Tick
  <2> QED
    BY <1>1, <1>2, <2>1, WaitedFields
<1>5. ASSUME NEW w \in Wallets, AgentStep(w) PROVE Frozen(v)
  BY <1>5, AgentStepFrozen
<1>6. ASSUME NEW k \in ServiceKeys, ServiceStep(k) PROVE Frozen(v)
  <2>1. ASSUME NEW w \in Wallets, NEW count, treasury' = treasury,
               agent' = [agent EXCEPT ![w].serviceCount = count]
        PROVE  Frozen(v)
    <3>1. agent'[v].status = agent[v].status /\ agent'[v].staked = agent[v].staked
      BY <1>1, <2>1 DEF Agent
    <3> QED
      BY <1>2, <2>1, <3>1
  <2>2. ASSUME NEW w \in Wallets, NEW price \in Prices, RegisterService(w, k, price)
        PROVE  Frozen(v)
    BY <2>1, <2>2 DEF RegisterService
  <2>3. ASSUME NEW status \in OpenStatus, RemoveService(k, status) PROVE Frozen(v)
    <3>1. service[k].owner \in Wallets
      BY <2>3 DEF RemoveService, IInv, ServiceCountExact
    <3> QED
      BY <2>1, <2>3, <3>1 DEF RemoveService
  <2>4. CASE UNCHANGED <<agent, treasury>>
    BY <1>2, <2>4
  <2> QED
    BY <1>6, <2>2, <2>3, <2>4
       DEF ServiceStep, UpdateService, PauseService, UnpauseService, DeprecateService,
           SuspendService, UnsuspendService, SetServiceStatus, CloseService,
           CloseSuspendedService, VerifyService, SetVisaTapVerified, OpenStatus,
           ServiceStatus
<1>7. ASSUME NEW w \in Wallets, NEW k \in ServiceKeys, TransactionStep(w, k)
      PROVE  Frozen(v)
  <2>1. ASSUME NEW amount \in Amounts, NEW success \in BOOLEAN,
               RecordTransaction(w, k, amount, success)
        PROVE  Frozen(v)
    <3> DEFINE new == Recorded(agent[w], amount, success)
    <3>1. agent' = [agent EXCEPT ![w] = new] /\ treasury' = treasury
      BY <2>1 DEF RecordTransaction
    <3>2. new.status = agent[w].status /\ new.staked = agent[w].staked
      BY <1>1, StakesAssumption, RecordedFields
    <3> HIDE DEF new
    <3>3. agent'[v].status = agent[v].status /\ agent'[v].staked = agent[v].staked
      BY <1>1, <3>1, <3>2
    <3> QED
      BY <1>2, <3>1, <3>3
  <2>2. CASE UNCHANGED <<agent, treasury>>
    BY <1>2, <2>2
  <2> QED
    BY <1>7, <2>1, <2>2 DEF TransactionStep, RateService, UpdateRating
<1>8. CASE UNCHANGED vars
  BY <1>2, <1>8 DEF vars
<1> QED
  BY <1>3, <1>4, <1>5, <1>6, <1>7, <1>8 DEF Next

\* No step of any instruction lets a suspended or a banned agent take its stake
\* out: what leaves a suspended agent's stake arrives in the treasury.
THEOREM StakeFrozen == Spec => FrozenStake
<1>1. IInv /\ [Next]_vars => [\A w \in Wallets : Frozen(w)]_vars
  BY NextFrozen
<1> QED
  BY <1>1, InductiveInvariant, PTL DEF Spec, FrozenStake
=============================================================================
