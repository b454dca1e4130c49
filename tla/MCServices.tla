------------------------------ MODULE MCServices ------------------------------
(***************************************************************************)
(* The small services around payments for TLC. They share nothing, so a    *)
(* behaviour is that of one of them, and the others are where they begin.  *)
(* The multi-signature wallets' definitions are those of the module that   *)
(* is extended, so that the run checks what its theorem states.            *)
(***************************************************************************)
EXTENDS MultiSig, Sequences, TLC

CONSTANTS
    Workers, Others, Items,     \* whatever may be permuted
    Hourly,                     \* whatever may not
    Nobody, MaxExceptions, MaxPayloadAge, PolicyHorizon, Verifications,
    Powers, Quorum,             \* of the votes
    MaxStats,                   \* bound: how far counters in Redis are followed
    Minimum,                    \* what a merchant has settled, in payments
    Ttl,                        \* how long signatures are remembered
    MaxKeys, Allowed, Window, LimiterHorizon, MaxRestarts,      \* of API keys and requests
    Deposits, Sizes, UnitsPerByte, MaxDeposits,                 \* of streams
    Amounts,                                                    \* of payments and transfers
    Limit, Decimals, WalletFunds, MaxHour, MaxCalls,            \* of the clients
    maxTransactionAmount, maxHourlySpend, maxDailySpend, HourTicks, DayTicks,
    MaxTransfers                                                \* of the CDP wallets

VARIABLES
    part,
    proposal, votes, ballot, expired, slashed, crossed, voteFaults,
    escrow, route, stats, overtaken, routeFaults,
    pending, due, recorded, settled, worker, crowded, merchantFaults,
    store, now, until, check, accepted, doubled, checkFaults, record, queue, run, refunds,
    client, hour, hourlySpending, call, funds, account, lost, asked, mixed,
    clock, spending, transfer, left, missed, created, crossing,
    agent, service, cached, payment, recording, slashes, entangled, recordFaults,
    verification, visaTapVerified, runner, sweep, proven, verificationFaults,
    limiter, tick, admitted, refused, restarts,
    apiKey, access, together, outdated, accessFaults,
    about, routed, caller, counted, finished, rerouted, preferences, put, volume, callerFaults,
    vault, credential, leaves, reading, proofs, shown, credentialFaults,
    quota, subscriber, deposited, streamed, refunded, replaced, deposits,
    template, registry, phase, lives, known, awaited, reply, requested, listed, signalled, abrupt,
    generatedFaults

Symmetry == Permutations(Workers) \cup Permutations(Others)

\* What a service that is verified answers: each of the checks passes and fails.
Plain == [up |-> TRUE, vulnerable |-> FALSE, time |-> 100, lost |-> 0, requirements |-> "none",
          rateLimited |-> FALSE, authenticated |-> FALSE, openApi |-> FALSE]
MCAnswers ==
    {[Plain EXCEPT !.up = FALSE, !.lost = 50], [Plain EXCEPT !.vulnerable = TRUE]}
        \cup {[Plain EXCEPT !.time = t, !.lost = n] : t \in {100, 900, 2500}, n \in {0, 2, 3}}
        \cup {[Plain EXCEPT !.requirements = r, !.rateLimited = f, !.openApi = g] :
                 r \in {"none", "incomplete", "structured", "valid"}, f, g \in BOOLEAN}

Governance == INSTANCE Governance WITH
    Requests <- Workers, Voters <- Others, NoVoter <- Nobody, request <- ballot
Escrow == INSTANCE FacilitatorEscrow WITH
    Routes <- Workers, MaxFaults <- MaxExceptions
Merchant == INSTANCE MerchantClient WITH
    Payments <- Items, Checks <- Hourly, MaxFaults <- MaxExceptions
Sandbox == INSTANCE TestingSandbox WITH
    Calls <- Workers, Runs <- Others, MaxAge <- MaxPayloadAge,
    Horizon <- MaxPayloadAge + 1
Paying == INSTANCE PaidCalls WITH
    Calls <- Workers, crowded <- mixed
Policy == INSTANCE WalletPolicy WITH
    Transfers <- Workers, Horizon <- PolicyHorizon, now <- clock, sent <- left
Records == INSTANCE AgentRecords WITH
    Requests <- Workers, Payments <- Others, FirstFailures <- 39, FirstStake <- 2,
    Frauds <- {1, 3}, MaxSlashes <- 2, row <- payment, request <- recording
Verifying == INSTANCE ServiceVerification WITH Answers <- MCAnswers
Access == INSTANCE ApiKeys WITH
    Requests <- Workers, Keys <- Items, FirstKeys <- {CHOOSE i \in Items : TRUE},
    Horizon <- LimiterHorizon
Facilitator == INSTANCE FacilitatorRecords WITH
    Callers <- Workers, Settings <- Others, Hours <- 2, MaxRecorded <- 12,
    MaxFaults <- MaxExceptions, route <- routed, stats <- counted, crossed <- rerouted,
    recorded <- volume, recordFaults <- callerFaults
Credential == INSTANCE ZKCredentials WITH
    Credentials <- Items, MaxProofs <- 1, MaxLeaves <- 9, verified <- shown
Quota == INSTANCE StreamQuota WITH
    Clients <- Hourly, Subscribers <- Workers
Generated == INSTANCE GeneratedService WITH
    MaxLives <- 3, MaxFaults <- MaxExceptions, sent <- requested, faults <- generatedFaults

ASSUME ServicesAssumption ==
    /\ IsFiniteSet(Workers) /\ IsFiniteSet(Others)
    /\ WalletAssumption /\ Governance!VotesAssumption
    /\ Merchant!MerchantAssumption
    /\ Sandbox!VerifierAssumption
    /\ Verifying!VerificationAssumption
    /\ Access!KeysAssumption /\ Access!LimiterAssumption
    /\ Quota!QuotaAssumption
    /\ Paying!CallsAssumption /\ Policy!PolicyAssumption
    /\ Generated!GeneratedAssumption /\ Facilitator!RecordsAssumption

governanceVars == <<proposal, votes, ballot, expired, slashed, crossed, voteFaults>>
escrowVars == <<escrow, route, stats, overtaken, routeFaults>>
merchantVars == <<pending, due, recorded, settled, worker, crowded, merchantFaults>>
sandboxVars == <<store, now, until, check, accepted, doubled, checkFaults, record, queue, run, refunds>>
callsVars == <<client, hour, hourlySpending, call, funds, account, lost, asked, mixed>>
policyVars == <<clock, spending, transfer, left, missed, created, crossing>>
recordVars == <<agent, service, cached, payment, recording, slashes, entangled, recordFaults>>
verificationVars == <<verification, visaTapVerified, runner, sweep, proven, verificationFaults>>
limiterVars == <<limiter, tick, admitted, refused, restarts>>
accessVars == <<apiKey, access, together, outdated, accessFaults>>
facilitatorVars == <<about, routed, caller, counted, finished, rerouted, preferences, put, volume,
                     callerFaults>>
credentialVars == <<vault, credential, leaves, reading, proofs, shown, credentialFaults>>
quotaVars == <<quota, subscriber, deposited, streamed, refunded, replaced, deposits>>
generatedVars == <<template, registry, phase, lives, known, awaited, reply, requested, listed,
                   signalled, abrupt, generatedFaults>>
servicesVars == <<part, multiSigVars, governanceVars, escrowVars, merchantVars, sandboxVars, callsVars,
          policyVars, recordVars, verificationVars, limiterVars, accessVars, facilitatorVars,
          credentialVars, quotaVars, generatedVars>>

ServicesInit ==
    /\ part \in {"multisig", "governance", "escrow", "merchant", "sandbox", "calls", "policy",
                 "records", "verification", "limiter", "keys", "facilitator", "credentials", "quota",
                 "generated"}
    /\ Init /\ Governance!Init /\ Escrow!Init /\ Merchant!Init /\ Sandbox!InitSandbox
    /\ Paying!Init /\ Policy!Init /\ Records!Init /\ Verifying!Init
    /\ Access!InitLimiter /\ Access!Init /\ Facilitator!Init /\ Credential!Init /\ Quota!Init
    /\ Generated!Init
    /\ part = "sandbox" \/ store = "redis"
    /\ part = "calls" \/ (client = "mcp" /\ account = FALSE)
    /\ part = "facilitator" \/ about = "route"
    /\ part = "credentials" \/ vault = "redis"
    /\ part = "generated" \/ (template = "express" /\ registry = "expected")

\* The part that it is makes its steps.
ServicesNext ==
    /\ UNCHANGED part
    /\ \/ part = "multisig" /\ Next
       \/ part = "governance" /\ Governance!Next
       \/ part = "escrow" /\ Escrow!Next
       \/ part = "merchant" /\ Merchant!Next
       \/ part = "sandbox" /\ Sandbox!NextSandbox
       \/ part = "calls" /\ Paying!Next
       \/ part = "policy" /\ Policy!Next
       \/ part = "records" /\ Records!Next
       \/ part = "verification" /\ Verifying!Next
       \/ part = "limiter" /\ Access!NextLimiter
       \/ part = "keys" /\ Access!Next
       \/ part = "facilitator" /\ Facilitator!Next
       \/ part = "credentials" /\ Credential!Next
       \/ part = "quota" /\ Quota!Next
       \/ part = "generated" /\ Generated!Next
    /\ part # "multisig" => UNCHANGED multiSigVars
    /\ part # "governance" => UNCHANGED governanceVars
    /\ part # "escrow" => UNCHANGED escrowVars
    /\ part # "merchant" => UNCHANGED merchantVars
    /\ part # "sandbox" => UNCHANGED sandboxVars
    /\ part # "calls" => UNCHANGED callsVars
    /\ part # "policy" => UNCHANGED policyVars
    /\ part # "records" => UNCHANGED recordVars
    /\ part # "verification" => UNCHANGED verificationVars
    /\ part # "limiter" => UNCHANGED limiterVars
    /\ part # "keys" => UNCHANGED accessVars
    /\ part # "facilitator" => UNCHANGED facilitatorVars
    /\ part # "credentials" => UNCHANGED credentialVars
    /\ part # "quota" => UNCHANGED quotaVars
    /\ part # "generated" => UNCHANGED generatedVars

ServicesSpec == ServicesInit /\ [][ServicesNext]_servicesVars
-----------------------------------------------------------------------------
\* The part that it is stays within its types.
ServicesTypeOK ==
    /\ part = "multisig" => TypeOK
    /\ part = "governance" => Governance!TypeOK
    /\ part = "escrow" => Escrow!TypeOK
    /\ part = "merchant" => Merchant!TypeOK
    /\ part = "sandbox" => Sandbox!TypeOK
    /\ part = "calls" => Paying!TypeOK
    /\ part = "policy" => Policy!TypeOK
    /\ part = "records" => Records!TypeOK
    /\ part = "verification" => Verifying!TypeOK
    /\ part = "limiter" => Access!LimiterTypeOK
    /\ part = "keys" => Access!TypeOK
    /\ part = "facilitator" => Facilitator!TypeOK
    /\ part = "credentials" => Credential!TypeOK
    /\ part = "quota" => Quota!TypeOK
    /\ part = "generated" => Generated!TypeOK

\* multisig.ts: WalletSound, which holds where no wallet is used as well

\* governance.ts: votes that were cast carry what passes, and one request at a time all do.
VotesDecide == part = "governance" => Governance!CarriedBySome /\ Governance!VotesDecide
\* routes/escrow.ts: an escrow is released or refunded, and once.
EndsOnce == part = "escrow" => Escrow!EndsOnce
\* settlement-integration.ts: a recorded payment is kept until it is settled.
KeptUntilSettled == part = "merchant" => Merchant!KeptUntilSettled
\* verifier.ts, signature-store.ts: how many calls one payment buys
BuysAtMost == part = "sandbox" => Sandbox!BuysAtMost
\* refund-manager.ts: a payment is paid back once for every call that it has bought.
RefundsCovered == part = "sandbox" => Sandbox!RefundsCovered
\* The clients and the CDP wallets: what they report as spent, and their limits
SpendingKnown ==
    /\ part = "calls" => Paying!SpendingKnown /\ Paying!PaymentsCanLand
    /\ part = "policy" => Policy!RollingLimit
\* api-keys.ts, rate-limit.ts, quota.rs: limits that requests run into at the same time
LimitsHold ==
    /\ part = "keys" => Access!KeysLimited
    /\ part = "limiter" => Access!RequestsLimited
    /\ part = "quota" => Quota!QuotaConserved
\* agent.ts, discovery.ts, verification.ts, zk-credentials.ts, and the facilitator's routing.ts,
\* notifications.ts and services.ts: what is said of agents, services, credentials and routes;
\* and the templates of create-x402-service: what the registry says of a generated service
RecordsExact ==
    /\ part = "records" => Records!RecordsExact
    /\ part = "verification" => Verifying!VerifiedWasProven
    /\ part = "facilitator" => Facilitator!RecordsKept
    /\ part = "credentials" => Credential!CredentialsProvable
    /\ part = "generated" => Generated!ListingSound
\* zk-credentials.ts: the root of the leaves tells which proofs are accepted.
RootsTell == part = "credentials" => Credential!RootsTell
=============================================================================
