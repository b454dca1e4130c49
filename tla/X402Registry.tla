---------------------------- MODULE X402Registry ----------------------------
(***************************************************************************)
(* The on-chain registry program, packages/contracts/programs/x402-registry *)
(* (lib.rs).  Every instruction of the program is atomic on the chain: its *)
(* require!s and account constraints are the guard of one action, and a    *)
(* failed instruction leaves no trace.                                     *)
(*                                                                         *)
(* Accounts are records, agent[w] for the PDA of wallet w and service[k]   *)
(* for the account at key k; status "none" is an account that does not     *)
(* exist.  Strings, prices and events carry no control and are left out.   *)
(* A timestamp that the program only compares with now is kept as the time *)
(* that is still missing until the comparison succeeds (0: it succeeds).   *)
(***************************************************************************)
EXTENDS Integers, FiniteSets, Functions, TLC

CONSTANTS
    Wallets,          \* owners of agents; also raters and oracles' subjects
    ServiceKeys,      \* addresses of service accounts
    StakeAmounts,     \* amounts offered as stake
    FraudAmounts,     \* fraud_amount arguments of slash_for_fraud
    Amounts,          \* amounts of recorded transactions
    RatingValues,     \* ratings, 1..500 in the program
    Prices,           \* price_per_call arguments
    MinStake, MidStake, TopStake, \* 1e9, 5e9 and 10e9 base units
    MinFraud,         \* 1e6 base units
    CreditThreshold,  \* reputation above which credit is granted, 9000
    TxGap, SlashCooldown, RestakeCooldown, UnstakeLock, RatingCooldown,
    MaxDeposited,     \* bound: total stake ever deposited
    MaxTx,            \* bound: transactions recorded per agent
    Audited,          \* services the verifier and TAP authorities act on
    KeyReuse,         \* may the key of a closed service be used again?
    NoOwner           \* owner of a service account that does not exist

ASSUME StakesAssumption ==
    /\ StakeAmounts \subseteq Nat /\ FraudAmounts \subseteq Nat
    /\ Amounts \subseteq Nat /\ Prices \subseteq Nat /\ RatingValues \subseteq 1..500
    /\ MinStake \in Nat \ {0} /\ MidStake \in Nat /\ TopStake \in Nat
    /\ MinStake <= MidStake /\ MidStake <= TopStake
    /\ MinFraud \in Nat \ {0} /\ CreditThreshold \in Nat

ASSUME TimesAssumption ==
    /\ TxGap \in Nat /\ SlashCooldown \in Nat /\ RestakeCooldown \in Nat
    /\ UnstakeLock \in Nat /\ RatingCooldown \in Nat

ASSUME BoundsAssumption ==
    MaxDeposited \in Nat /\ MaxTx \in Nat /\ KeyReuse \in BOOLEAN

ASSUME AccountsAssumption ==
    IsFiniteSet(Wallets) /\ IsFiniteSet(ServiceKeys) /\ NoOwner \notin Wallets

VARIABLES
    agent,      \* wallet -> Agent account
    service,    \* key -> Service account
    rating,     \* key -> wallet -> ServiceRating account
    escrow,     \* balance of the escrow token account; -1 before it exists
    treasury,   \* what has been slashed into DAO_TREASURY
    deposited   \* total stake ever moved into escrow (for MaxDeposited)

vars == <<agent, service, rating, escrow, treasury, deposited>>

AgentStatus == {"none", "Active", "Paused", "Suspended", "Banned"}
ServiceStatus == {"none", "closed", "Active", "Paused", "Deprecated", "Suspended"}

OpenStatus == ServiceStatus \ {"none", "closed"}

Agent == [status: AgentStatus, staked: Nat, slashed: Nat, lost: Nat,
          reputation: Nat, histMin: Nat, serviceCount: Nat,
          spent: Nat, tx: Nat, okTx: Nat, creditLimit: Nat,
          txWait: Nat, slashWait: Nat, unstakeWait: Nat, restakeWait: Nat]

NoAgent == [status |-> "none", staked |-> 0, slashed |-> 0, lost |-> 0,
            reputation |-> 0, histMin |-> 0, serviceCount |-> 0,
            spent |-> 0, tx |-> 0, okTx |-> 0, creditLimit |-> 0,
            txWait |-> 0, slashWait |-> 0, unstakeWait |-> 0, restakeWait |-> 0]

Service == [status: ServiceStatus, owner: Wallets \cup {NoOwner}, price: Nat,
            calls: Nat, okCalls: Nat, revenue: Nat, ratings: Nat, ratingSum: Nat,
            average: Nat, verified: BOOLEAN, tap: BOOLEAN]

NoService == [status |-> "none", owner |-> NoOwner, price |-> 0,
              calls |-> 0, okCalls |-> 0, revenue |-> 0, ratings |-> 0, ratingSum |-> 0,
              average |-> 0, verified |-> FALSE, tap |-> FALSE]

\* A closed account no longer exists: "closed" only remembers, where keys are not
\* used twice, that this key has been.
ClosedService == IF KeyReuse THEN NoService
                 ELSE [NoService EXCEPT !.status = "closed"]

\* ServiceRating: value 0 stands for a PDA that has not been initialised.
Rating == [value: 0..500, wait: Nat]
NoRating == [value |-> 0, wait |-> 0]

TypeOK ==
    /\ agent \in [Wallets -> Agent]
    /\ service \in [ServiceKeys -> Service]
    /\ rating \in [ServiceKeys -> [Wallets -> Rating]]
    /\ escrow \in Nat \cup {-1}
    /\ treasury \in Nat
    /\ deposited \in Nat

AgentOpen(w) == agent[w].status # "none"
ServiceOpen(k) == service[k].status \in OpenStatus

Init ==
    /\ agent = [w \in Wallets |-> NoAgent]
    /\ service = [k \in ServiceKeys |-> NoService]
    /\ rating = [k \in ServiceKeys |-> [w \in Wallets |-> NoRating]]
    /\ escrow = -1
    /\ treasury = 0
    /\ deposited = 0

-----------------------------------------------------------------------------
\* Arithmetic of the program

\* calculate_initial_reputation
InitialReputation(stake) ==
    IF stake >= TopStake THEN 7000
    ELSE IF stake >= MidStake THEN 6000
    ELSE IF stake >= MinStake THEN 5000 ELSE 4000

\* calculate_new_reputation: 95% of the old score, 5% of the success rate
NewReputation(rep, tx, okTx) ==
    LET rate == (okTx * 10000) \div tx
        weighted == (rep * 95 + rate * 5) \div 100
    IN  IF weighted > 10000 THEN 10000 ELSE weighted

\* calculate_slash_amount: twice the fraud, but never more than the stake
SlashAmount(fraud, stake) == IF 2 * fraud > stake THEN stake ELSE 2 * fraud

\* credit_limit for what has been spent
CreditFor5th(spent) == spent \div 5
CreditFor(spent) == spent \div 10

Lesser(x, y) == IF x > y THEN y ELSE x

\* if x > most { most } else { x }, taken from x with saturating_sub
Penalised(x, most) == IF x > most THEN x - most ELSE 0

-----------------------------------------------------------------------------
\* Escrow and stake

InitializeEscrow ==
    /\ escrow = -1
    /\ escrow' = 0
    /\ UNCHANGED <<agent, service, rating, treasury, deposited>>

\* token::transfer of a stake into the escrow account
Deposit(stake) ==
    /\ escrow >= 0
    /\ deposited + stake <= MaxDeposited
    /\ escrow' = escrow + stake
    /\ deposited' = deposited + stake

\* What register_agent writes into a new account
NewAgent(stake) ==
    [NoAgent EXCEPT !.status = "Active", !.staked = stake,
                    !.reputation = InitialReputation(stake),
                    !.histMin = InitialReputation(stake),
                    !.unstakeWait = UnstakeLock,
                    !.restakeWait = RestakeCooldown]

RegisterAgent(w, stake) ==
    /\ agent[w].status = "none"
    /\ stake >= MinStake
    /\ Deposit(stake)
    /\ agent' = [agent EXCEPT ![w] = NewAgent(stake)]
    /\ UNCHANGED <<service, rating, treasury>>

\* unstake_agent empties the account ...
Unstaked(a) == [a EXCEPT !.staked = 0, !.histMin = a.reputation,
                         !.reputation = 0, !.creditLimit = 0, !.status = "Paused"]

\* ... and pays the stake out of escrow.
UnstakeAgentUnlessBanned(w) ==
    /\ agent[w].status # "Banned"
    /\ agent[w].unstakeWait = 0
    /\ agent[w].staked > 0
    /\ escrow' = escrow - agent[w].staked
    /\ agent' = [agent EXCEPT ![w] = Unstaked(@)]
    /\ UNCHANGED <<service, rating, treasury, deposited>>

UnstakeAgent(w) ==
    /\ agent[w].status \in {"Active", "Paused"}
    /\ agent[w].unstakeWait = 0
    /\ agent[w].staked > 0
    /\ escrow >= agent[w].staked
    /\ escrow' = escrow - agent[w].staked
    /\ agent' = [agent EXCEPT ![w] = Unstaked(@)]
    /\ UNCHANGED <<service, rating, treasury, deposited>>

\* created_at is not touched: the lock of the registration still counts.
Restaked(a, stake) ==
    [a EXCEPT !.staked = stake,
              !.reputation = Lesser(InitialReputation(stake), a.histMin),
              !.spent = 0, !.creditLimit = 0, !.status = "Active",
              !.restakeWait = RestakeCooldown]

RestakeAgent(w, stake) ==
    /\ stake >= MinStake
    /\ agent[w].staked = 0
    /\ agent[w].status = "Paused"
    /\ agent[w].restakeWait = 0
    /\ Deposit(stake)
    /\ agent' = [agent EXCEPT ![w] = Restaked(@, stake)]
    /\ UNCHANGED <<service, rating, treasury>>

Slashed(a, slash) ==
    [a EXCEPT !.staked = a.staked - slash, !.slashed = a.slashed + slash,
              !.lost = a.lost + 1, !.slashWait = SlashCooldown,
              !.reputation = Penalised(a.reputation, 1000)]

\* Only DAO_AUTHORITY signs this one, the suspensions and the bans.
SlashForFraud(w, fraud) ==
    LET slash == SlashAmount(fraud, agent[w].staked) IN
    /\ fraud >= MinFraud
    /\ fraud <= agent[w].staked
    /\ agent[w].status = "Suspended"
    /\ agent[w].slashWait = 0
    /\ slash <= agent[w].staked
    /\ escrow >= slash
    /\ escrow' = escrow - slash
    /\ treasury' = treasury + slash
    /\ agent' = [agent EXCEPT ![w] = Slashed(@, slash)]
    /\ UNCHANGED <<service, rating, deposited>>

SetAgentStatus(w, from, to) ==
    /\ agent[w].status \in from
    /\ agent' = [agent EXCEPT ![w].status = to]
    /\ UNCHANGED <<service, rating, escrow, treasury, deposited>>

SuspendAgent(w) == SetAgentStatus(w, {"Active"}, "Suspended")
UnsuspendToPaused(w) == SetAgentStatus(w, {"Suspended"}, "Paused")
UnsuspendAgent(w) == SetAgentStatus(w, {"Suspended"}, "Active")
BanAgent(w) == SetAgentStatus(w, AgentStatus \ {"none"}, "Banned")

CloseAgentWithStake(w) ==
    /\ agent[w].status \in {"Paused", "Banned"}
    /\ agent[w].serviceCount = 0
    /\ agent' = [agent EXCEPT ![w] = NoAgent]
    /\ UNCHANGED <<service, rating, escrow, treasury, deposited>>

CloseAgentWithServices(w) ==
    /\ agent[w].staked = 0
    /\ agent[w].status \in {"Paused", "Banned"}
    /\ agent' = [agent EXCEPT ![w] = NoAgent]
    /\ UNCHANGED <<service, rating, escrow, treasury, deposited>>

\* The account disappears: a later RegisterAgent starts from nothing.
CloseAgent(w) ==
    /\ agent[w].staked = 0
    /\ agent[w].status \in {"Paused", "Banned"}
    /\ agent[w].serviceCount = 0
    /\ agent' = [agent EXCEPT ![w] = NoAgent]
    /\ UNCHANGED <<service, rating, escrow, treasury, deposited>>

-----------------------------------------------------------------------------
\* Services

RegisterService(w, k, price) ==
    /\ price > 0
    /\ agent[w].status = "Active"
    /\ agent[w].staked >= MinStake
    /\ service[k].status = "none"
    /\ service' = [service EXCEPT ![k] =
                     [NoService EXCEPT !.status = "Active", !.owner = w, !.price = price]]
    /\ agent' = [agent EXCEPT ![w].serviceCount = @ + 1]
    /\ UNCHANGED <<rating, escrow, treasury, deposited>>

SetServiceStatus(k, from, to) ==
    /\ service[k].status \in from
    /\ service' = [service EXCEPT ![k].status = to]
    /\ UNCHANGED <<agent, rating, escrow, treasury, deposited>>

PauseService(k) == SetServiceStatus(k, {"Active"}, "Paused")
UnpauseService(k) == SetServiceStatus(k, {"Paused"}, "Active")
DeprecateService(k) ==
    SetServiceStatus(k, {"Active", "Paused", "Deprecated"}, "Deprecated")
SuspendService(k) ==
    SetServiceStatus(k, OpenStatus, "Suspended")
UnsuspendService(k) == SetServiceStatus(k, {"Suspended"}, "Active")

\* The owner's edit of url and price leaves the verified flags as they are.
UpdateService(k, price) ==
    /\ service[k].status \in {"Active", "Paused", "Deprecated"}
    /\ price > 0
    /\ service' = [service EXCEPT ![k].price = price]
    /\ UNCHANGED <<agent, rating, escrow, treasury, deposited>>

\* The account goes, the keys of its rating PDAs do not.
RemoveService(k, status) ==
    LET w == service[k].owner IN
    /\ service[k].status = status
    /\ AgentOpen(w)
    /\ agent[w].serviceCount > 0
    /\ agent' = [agent EXCEPT ![w].serviceCount = @ - 1]
    /\ service' = [service EXCEPT ![k] = ClosedService]
    /\ UNCHANGED <<rating, escrow, treasury, deposited>>

CloseService(k) == RemoveService(k, "Deprecated")
CloseSuspendedService(k) == RemoveService(k, "Suspended")

\* VERIFIER_AUTHORITY sets the flag and no instruction clears it.
VerifyService(k) ==
    /\ k \in Audited
    /\ ServiceOpen(k)
    /\ service' = [service EXCEPT ![k].verified = TRUE]
    /\ UNCHANGED <<agent, rating, escrow, treasury, deposited>>

SetVisaTapVerified(k, verified) ==
    /\ k \in Audited
    /\ ServiceOpen(k)
    /\ service' = [service EXCEPT ![k].tap = verified]
    /\ UNCHANGED <<agent, rating, escrow, treasury, deposited>>

-----------------------------------------------------------------------------
\* Transactions and ratings

\* A failed call costs reputation, a successful one moves it towards the rate of
\* successes; credit is only ever written by a successful call.
Recorded(a, amount, success) ==
    LET tx == a.tx + 1
        rep == NewReputation(a.reputation, tx, a.okTx + 1)
        called == [a EXCEPT !.tx = tx, !.restakeWait = RestakeCooldown, !.txWait = TxGap]
    IN  IF success
        THEN [called EXCEPT !.okTx = a.okTx + 1, !.spent = a.spent + amount,
                            !.reputation = rep,
                            !.creditLimit = IF rep > CreditThreshold
                                            THEN CreditFor(a.spent + amount)
                                            ELSE a.creditLimit]
        ELSE [called EXCEPT !.reputation = Penalised(a.reputation, 100)]

\* ORACLE_AUTHORITY reports a call of service k paid by agent w.
RecordTransaction(w, k, amount, success) ==
    /\ service[k].status = "Active"
    /\ agent[w].status = "Active"
    /\ agent[w].txWait = 0
    /\ agent[w].tx < MaxTx
    /\ agent' = [agent EXCEPT ![w] = Recorded(@, amount, success)]
    /\ service' = [service EXCEPT ![k].calls = @ + 1,
                                  ![k].okCalls = IF success THEN @ + 1 ELSE @,
                                  ![k].revenue = IF success THEN @ + amount ELSE @]
    /\ UNCHANGED <<rating, escrow, treasury, deposited>>

AggregateUncounted(k, count, sum) ==
    service' = [service EXCEPT ![k].ratingSum = sum, ![k].average = sum \div count]

\* The new sum of ratings of service k, its count, and their mean.
Aggregate(k, count, sum) ==
    /\ sum \div count <= 500
    /\ service' = [service EXCEPT ![k].ratings = count, ![k].ratingSum = sum,
                                  ![k].average = sum \div count]

\* The rater's status is not looked at, only that it has transacted once.
RateService(w, k, value) ==
    /\ AgentOpen(w)
    /\ agent[w].tx > 0
    /\ rating[k][w].value = 0
    /\ service[k].status = "Active"
    /\ service[k].owner # w
    /\ Aggregate(k, service[k].ratings + 1, service[k].ratingSum + value)
    /\ rating' = [rating EXCEPT ![k][w] = [value |-> value, wait |-> RatingCooldown]]
    /\ UNCHANGED <<agent, escrow, treasury, deposited>>

\* Any status of the service will do; checked_sub fails on a negative sum.
UpdateRating(w, k, value) ==
    /\ AgentOpen(w)
    /\ ServiceOpen(k)
    /\ rating[k][w].value # 0
    /\ rating[k][w].wait = 0
    /\ service[k].ratings > 0
    /\ service[k].ratingSum >= rating[k][w].value
    /\ Aggregate(k, service[k].ratings,
                 service[k].ratingSum - rating[k][w].value + value)
    /\ rating' = [rating EXCEPT ![k][w] = [value |-> value, wait |-> RatingCooldown]]
    /\ UNCHANGED <<agent, escrow, treasury, deposited>>

-----------------------------------------------------------------------------
\* The clock moves on: every wait that is not over shrinks.

LessUnchecked(wait) == wait - 1

Less(wait) == IF wait > 0 THEN wait - 1 ELSE 0

Waited(a) == [a EXCEPT !.txWait = Less(@), !.slashWait = Less(@),
                       !.unstakeWait = Less(@), !.restakeWait = Less(@)]

Tick ==
    /\ agent' = [w \in Wallets |-> Waited(agent[w])]
    /\ rating' = [k \in ServiceKeys |->
                    [w \in Wallets |-> [rating[k][w] EXCEPT !.wait = Less(@)]]]
    /\ UNCHANGED <<service, escrow, treasury, deposited>>

AgentStep(w) ==
    \/ \E stake \in StakeAmounts : RegisterAgent(w, stake) \/ RestakeAgent(w, stake)
    \/ UnstakeAgent(w)
    \/ CloseAgent(w)
    \/ \E fraud \in FraudAmounts : SlashForFraud(w, fraud)
    \/ SuspendAgent(w)
    \/ UnsuspendAgent(w)
    \/ BanAgent(w)

ServiceStep(k) ==
    \/ \E w \in Wallets, price \in Prices : RegisterService(w, k, price)
    \/ \E price \in Prices : UpdateService(k, price)
    \/ PauseService(k)
    \/ UnpauseService(k)
    \/ DeprecateService(k)
    \/ SuspendService(k)
    \/ UnsuspendService(k)
    \/ CloseService(k)
    \/ CloseSuspendedService(k)
    \/ VerifyService(k)
    \/ \E verified \in BOOLEAN : SetVisaTapVerified(k, verified)

TransactionStep(w, k) ==
    \/ \E amount \in Amounts, success \in BOOLEAN :
          RecordTransaction(w, k, amount, success)
    \/ \E value \in RatingValues :
          RateService(w, k, value) \/ UpdateRating(w, k, value)

Next ==
    \/ InitializeEscrow
    \/ Tick
    \/ \E w \in Wallets : AgentStep(w)
    \/ \E k \in ServiceKeys : ServiceStep(k)
    \/ \E w \in Wallets, k \in ServiceKeys : TransactionStep(w, k)

Spec == Init /\ [][Next]_vars

-----------------------------------------------------------------------------
\* Properties

\* The escrow account holds exactly the stakes that the agents' accounts claim,
\* so every unstake_agent and slash_for_fraud can be paid: no closing, banning,
\* slashing or re-registering loses or invents stake.
EscrowSolvent ==
    escrow >= 0 =>
      escrow = SumFunction([w \in Wallets |-> agent[w].staked])

\* Only unstake_agent leads to Paused, and a Paused or closed agent keeps no
\* stake, no reputation and no credit that it could use without stake.
PausedHoldsNothing ==
    \A w \in Wallets : agent[w].status \in {"none", "Paused"} =>
        agent[w].staked = 0 /\ agent[w].reputation = 0 /\ agent[w].creditLimit = 0

ServicesOf(w) == {k \in ServiceKeys : service[k].owner = w}

\* service_count is the number of services the wallet owns, so close_agent's
\* check of it never leaves a service behind whose owner has no agent account.
ServiceCountExact ==
    /\ \A w \in Wallets : agent[w].serviceCount = Cardinality(ServicesOf(w))
    /\ \A k \in ServiceKeys : ServiceOpen(k) =>
          service[k].owner \in Wallets /\ AgentOpen(service[k].owner)

RatersOf(k) == {w \in Wallets : rating[k][w].value > 0}

\* A service's rating count and sum are those of its ServiceRating accounts, so
\* update_rating's checked_sub never fails and the mean is a legal rating.  It
\* needs keys that are never used twice: rating accounts outlive close_service.
RatingAggregate ==
    ~KeyReuse => \A k \in ServiceKeys : ServiceOpen(k) =>
        /\ service[k].ratings = Cardinality(RatersOf(k))
        /\ service[k].ratingSum =
             SumFunction([w \in Wallets |-> rating[k][w].value])
        /\ service[k].average <= 500

\* A credit limit never exceeds a tenth of what the agent has spent since its
\* last stake: unstaking and restaking cannot keep credit for spending that
\* restake_agent has wiped.
CreditBacked == \A w \in Wallets : 10 * agent[w].creditLimit <= agent[w].spent

Frozen(w) ==
    /\ agent[w].status = "Suspended" =>
         treasury' - treasury >= agent[w].staked - agent'[w].staked
    /\ agent[w].status = "Banned" /\ agent[w].staked > 0 =>
         agent'[w].status = "Banned" /\ agent'[w].staked = agent[w].staked

\* The stake of a suspended agent moves only into the treasury, and that of a
\* banned one does not move at all: nobody escapes a slash by unstaking.  (A
\* ban before the slash thereby locks the stake for good.)
FrozenStake == [][\A w \in Wallets : Frozen(w)]_vars

\* Credit is for agents above the threshold.
CreditNeedsReputation ==
    \A w \in Wallets : agent[w].creditLimit > 0 =>
        agent[w].reputation > CreditThreshold

-----------------------------------------------------------------------------
\* For TLC: wallets and service keys are interchangeable.
Symmetry == Permutations(Wallets) \cup Permutations(ServiceKeys)
=============================================================================
