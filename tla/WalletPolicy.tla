---------------------------- MODULE WalletPolicy ----------------------------
(***************************************************************************)
(* The spending policy of a wallet of the CDP integration                  *)
(* (cdp-agent/src/wallet-manager.ts): checkSpendingLimit sets its two sums *)
(* back when an hour or a day has passed since it last did, executeTransfer*)
(* adds to them once the transfer is over.                                 *)
(***************************************************************************)
EXTENDS Integers, FiniteSetsExt

CONSTANTS
    Transfers,              \* calls of executeTransfer at one time
    Amounts,
    maxTransactionAmount, maxHourlySpend, maxDailySpend,    \* WalletPolicy
    HourTicks, DayTicks,    \* an hour and a day, in ticks
    Horizon,                \* bound: ticks
    MaxTransfers            \* bound: transfers that are created

PolicyAssumption ==
    /\ Amounts \subseteq Nat
    /\ maxTransactionAmount \in Nat /\ maxHourlySpend \in Nat /\ maxDailySpend \in Nat
    /\ HourTicks \in Nat /\ DayTicks \in Nat /\ Horizon \in Nat /\ MaxTransfers \in Nat

VARIABLES
    now,
    spending,   \* SpendingRecord of the wallet
    transfer,   \* executeTransfer, for each call
    sent,       \* history: what has left the wallet, by tick
    missed,     \* history: has some of it been left out of the sums?
    created,
    crossing    \* history: has a check been made before another call was over?

policyVars == <<now, spending, transfer, sent, missed, created, crossing>>

TypeOK ==
    /\ now \in 0..Horizon
    /\ spending \in [hourlySpend : Nat, dailySpend : Nat,
                     lastHourReset : 0..Horizon, lastDayReset : 0..Horizon]
    /\ transfer \in [Transfers -> [pc : {"idle", "create", "wait", "done"}, amount : Amounts \cup {0}]]
    /\ sent \in [0..Horizon -> Nat]
    /\ missed \in BOOLEAN /\ crossing \in BOOLEAN
    /\ created \in 0..MaxTransfers

Idle == [pc |-> "idle", amount |-> 0]

Init ==
    /\ now = 0
    /\ spending = [hourlySpend |-> 0, dailySpend |-> 0, lastHourReset |-> 0, lastDayReset |-> 0]
    /\ transfer = [t \in Transfers |-> Idle]
    /\ sent = [n \in 0..Horizon |-> 0]
    /\ missed = FALSE /\ crossing = FALSE
    /\ created = 0

Goto(t, pc) == transfer' = [transfer EXCEPT ![t].pc = pc]
Return(t) == transfer' = [transfer EXCEPT ![t] = Idle]

ResetHour(s) ==
    IF now - s.lastHourReset >= HourTicks
    THEN [s EXCEPT !.hourlySpend = 0, !.lastHourReset = now] ELSE s
ResetDay(s) ==
    IF now - s.lastDayReset >= DayTicks
    THEN [s EXCEPT !.dailySpend = 0, !.lastDayReset = now] ELSE s

WithinBefore(s, amount) ==
    s.hourlySpend <= maxHourlySpend /\ s.dailySpend <= maxDailySpend

Within(s, amount) ==
    s.hourlySpend + amount <= maxHourlySpend /\ s.dailySpend + amount <= maxDailySpend

\* checkSpendingLimit, requireUserApproval and the lookup of the wallet
Check(t) ==
    /\ transfer[t].pc = "idle"
    /\ created < MaxTransfers
    /\ created' = created + 1
    /\ crossing' = (crossing \/ \E u \in Transfers \ {t} : transfer[u].pc # "idle")
    /\ \E a \in Amounts :
          /\ a <= maxTransactionAmount
          /\ LET s == ResetDay(ResetHour(spending)) IN
                /\ spending' = s
                /\ \/ Within(s, a) /\ transfer' = [transfer EXCEPT ![t] = [pc |-> "create", amount |-> a]]
                   \/ UNCHANGED transfer
    /\ UNCHANGED <<now, sent, missed>>

\* createTransfer throws, or its transfer is on its way.
Create(t) ==
    /\ transfer[t].pc = "create"
    /\ Goto(t, "wait") \/ Return(t)
    /\ UNCHANGED <<now, spending, sent, missed, created, crossing>>

\* The transfer is over, on the chain; or it has failed there.
Land(t) ==
    /\ transfer[t].pc = "wait"
    /\ sent' \in {sent, [sent EXCEPT ![now] = @ + transfer[t].amount]}
    /\ Goto(t, "done")
    /\ UNCHANGED <<now, spending, missed, created, crossing>>

\* wait returns, whichever it was.
Count(t) ==
    /\ transfer[t].pc = "done"
    /\ spending' = [spending EXCEPT !.hourlySpend = @ + transfer[t].amount,
                                    !.dailySpend = @ + transfer[t].amount]
    /\ Return(t)
    /\ UNCHANGED <<now, sent, missed, created, crossing>>

\* wait throws.
Miss(t) ==
    /\ transfer[t].pc = "done"
    /\ missed' = TRUE
    /\ Return(t)
    /\ UNCHANGED <<now, spending, sent, created, crossing>>

Tick ==
    /\ now < Horizon
    /\ now' = now + 1
    /\ UNCHANGED <<spending, transfer, sent, missed, created, crossing>>

Next ==
    \/ \E t \in Transfers : Check(t) \/ Create(t) \/ Land(t) \/ Count(t) \/ Miss(t)
    \/ Tick

Spec == Init /\ [][Next]_policyVars
-----------------------------------------------------------------------------
SentWithin(ticks, from) ==
    MapThenSumSet(LAMBDA n : sent[n], {n \in 0..Horizon : n >= from /\ n < from + ticks})

\* The sums are set back at fixed times: one transfer at a time, and if every one of them
\* is counted, any sixty minutes see at most twice the hourly limit leave the wallet, and
\* any twenty-four hours twice the daily one.
RollingLimit ==
    ~crossing /\ ~missed =>
        \A n \in 0..Horizon :
            /\ SentWithin(HourTicks, n) <= 2 * maxHourlySpend
            /\ SentWithin(DayTicks, n) <= 2 * maxDailySpend
=============================================================================
