------------------------------ MODULE PaidCalls ------------------------------
(***************************************************************************)
(* The clients that pay for a call: the SDKs in JavaScript, Python, Go and *)
(* Rust, the Phantom CASH client, the CDP client and the MCP bridge. Each  *)
(* answers a 402 by a payment on the chain and repeats the request with    *)
(* its signature; they differ in what they look at before they pay, in     *)
(* the asset they pay in, in when they add the payment to what they report *)
(* as spent, in whether they enforce the hourly limit, in what they take   *)
(* for a confirmation and in what they do with a second 402.               *)
(***************************************************************************)
EXTENDS Integers, FiniteSetsExt

CONSTANTS
    Calls,      \* requests at one time
    Amounts,    \* prices
    Limit,      \* spendingLimitPerHour
    Decimals,   \* of SOL and of the token: 9 and 6 in the code
    WalletFunds,    \* what the wallet has of each in the beginning, in their smallest units
    MaxHour,    \* bound: hours
    MaxCalls    \* bound: requests that are answered by a 402

\* That powers are numbers, and of which the larger is, is true whatever Decimals are; it is
\* said because the provers know nothing of powers.
CallsAssumption ==
    /\ Amounts \subseteq Nat /\ Limit \in Nat /\ WalletFunds \in Nat
    /\ MaxHour \in Nat /\ MaxCalls \in Nat
    /\ Decimals \in Nat
    /\ 2 ^ Decimals \in Nat /\ 10 ^ Decimals \in Nat /\ 2 ^ Decimals <= 10 ^ Decimals

VARIABLES
    client,     \* which of the clients it is
    hour,       \* currentHour
    hourlySpending, \* by hour, also for the two that count no hours: the CDP client
                    \* (getTotalSpent of its history) and the bridge (metrics.totalSpent)
    call,       \* request and createPayment, for each call
    funds,      \* what the wallet has on the chain
    account,    \* has the recipient an account for the token?
    lost,       \* history: what calls that have failed have paid
    asked,
    crowded     \* history: has a call been asked to pay before another was over?

callsVars == <<client, hour, hourlySpending, call, funds, account, lost, asked, crowded>>

Assets == {"SOL", "token"}

TypeOK ==
    /\ client \in {"javascript", "python", "go", "rust", "phantom", "cdp", "mcp"}
    /\ hour \in 0..MaxHour
    /\ hourlySpending \in [0..MaxHour -> Nat]
    /\ call \in [Calls -> [pc : {"idle", "create", "track", "look", "send", "confirm", "answer",
                                 "dead"},
                           amount : Amounts \cup {0}, asset : Assets, scheme : {"exact", "solana"},
                           creates : BOOLEAN, read : (0..MaxHour) \X Nat, lands : BOOLEAN]]
    /\ funds \in [Assets -> 0..WalletFunds]
    /\ account \in BOOLEAN
    /\ lost \in Nat
    /\ asked \in 0..MaxCalls
    /\ crowded \in BOOLEAN

Idle == [pc |-> "idle", amount |-> 0, asset |-> "SOL", scheme |-> "exact", creates |-> FALSE,
         read |-> <<0, 0>>, lands |-> FALSE]

Init ==
    /\ client \in {"javascript", "python", "go", "rust", "phantom", "cdp", "mcp"}
    /\ hour = 0
    /\ hourlySpending = [h \in 0..MaxHour |-> 0]
    /\ call = [c \in Calls |-> Idle]
    /\ funds = [a \in Assets |-> WalletFunds]
    /\ account \in BOOLEAN
    /\ lost = 0 /\ asked = 0
    /\ crowded = FALSE

totalSpent == MapThenSumSet(LAMBDA h : hourlySpending[h], 0..MaxHour)
paid == (WalletFunds - funds["SOL"]) + (WalletFunds - funds["token"])

At(c, pc) == call[c].pc = pc
Goto(c, pc) == call' = [call EXCEPT ![c].pc = pc]
Return(c) == call' = [call EXCEPT ![c] = Idle]
Spend(amount) == hourlySpending' = [hourlySpending EXCEPT ![hour] = @ + amount]

\* The asset that a payment is made in: to two clients the scheme "solana", which the Fastify
\* middleware asks for with any asset, is a payment in SOL.
PaysIn(c) ==
    IF client \in {"python", "rust"} /\ call[c].scheme = "solana" THEN "SOL" ELSE call[c].asset

\* What is transferred, in the smallest unit: the Go client shifts where it should raise ten
\* to the decimals of a token.
Units(c) ==
    IF client = "go" /\ PaysIn(c) = "token" THEN call[c].amount * 2 ^ Decimals
    ELSE call[c].amount * 10 ^ Decimals

\* The transaction has what it needs: the amount, and an account to pay it to, which it may
\* create but not twice.
CanLand(c) ==
    /\ Units(c) <= funds[PaysIn(c)]
    /\ PaysIn(c) = "token" => account # call[c].creates

-----------------------------------------------------------------------------
\* The steps that the clients are put together from

\* Three clients do not look at the scheme.
Schemes == IF client \in {"javascript", "cdp", "mcp"} THEN {"exact"} ELSE {"exact", "solana"}

\* The request is answered by 402.
Ask(c) ==
    /\ At(c, "idle")
    /\ asked < MaxCalls
    /\ \E a \in Amounts, s \in Assets, scheme \in Schemes :
          call' = [call EXCEPT ![c] = [Idle EXCEPT !.pc = "create", !.amount = a, !.asset = s,
                                                   !.scheme = scheme]]
    /\ asked' = asked + 1
    /\ crowded' = (crowded \/ \E d \in Calls \ {c} : ~At(d, "idle"))
    /\ UNCHANGED <<client, hour, hourlySpending, funds, account, lost>>

\* An address, a balance or a blockhash is not there, or the simulation before sending fails.
NotSent(c) ==
    /\ At(c, "create") \/ At(c, "look") \/ At(c, "send")
    /\ Return(c)
    /\ UNCHANGED <<client, hour, hourlySpending, funds, account, lost, asked, crowded>>

Track(c) ==
    /\ At(c, "create")
    /\ Spend(call[c].amount)
    /\ Goto(c, "look")
    /\ UNCHANGED <<client, hour, funds, account, lost, asked, crowded>>

LookAtWholeUnits(c, asset, units) ==
    /\ At(c, "look")
    /\ IF funds[asset] < call[c].amount THEN Return(c) ELSE Goto(c, "send")
    /\ UNCHANGED <<client, hour, hourlySpending, funds, account, lost, asked, crowded>>

\* The wallet has enough of the asset when it is looked at.
LookAtBalance(c, asset, units) ==
    /\ At(c, "look")
    /\ IF funds[asset] < units THEN Return(c) ELSE Goto(c, "send")
    /\ UNCHANGED <<client, hour, hourlySpending, funds, account, lost, asked, crowded>>

\* The recipient's account is opened by a transaction of its own, if it is not there.
OpenAccount(c) ==
    /\ At(c, "look")
    /\ PaysIn(c) = "token"
    /\ funds["token"] >= Units(c)
    /\ account' = TRUE
    /\ Goto(c, "send")
    /\ UNCHANGED <<client, hour, hourlySpending, funds, lost, asked, crowded>>

\* The transfer is to open the account if it is not found, or if asking for it has failed.
LookForAccount(c) ==
    /\ At(c, "look")
    /\ \E found \in {account, FALSE} :
          call' = [call EXCEPT ![c].pc = "send",
                               ![c].creates = PaysIn(c) = "token" /\ ~found]
    /\ UNCHANGED <<client, hour, hourlySpending, funds, account, lost, asked, crowded>>

\* The transaction is sent; it transfers the amount, or it fails or expires on the chain.
Send(c) ==
    /\ At(c, "send")
    /\ \E lands \in {CanLand(c), FALSE} :
          /\ call' = [call EXCEPT ![c].pc = "confirm", ![c].lands = lands]
          /\ funds' = IF lands THEN [funds EXCEPT ![PaysIn(c)] = @ - Units(c)] ELSE funds
          /\ account' = (account \/ (lands /\ call[c].creates))
    /\ UNCHANGED <<client, hour, hourlySpending, lost, asked, crowded>>

Confirm(c) ==
    /\ At(c, "confirm")
    /\ Goto(c, "answer")
    /\ UNCHANGED <<client, hour, hourlySpending, funds, account, lost, asked, crowded>>

\* The call throws. If its payment has landed, or will, nobody hears of it.
Fail(c, pc) ==
    /\ At(c, pc)
    /\ lost' = lost + (IF call[c].lands THEN Units(c) ELSE 0)
    /\ Return(c)
    /\ UNCHANGED <<client, hour, hourlySpending, funds, account, asked, crowded>>

\* The repeated request, with X-Payment, is answered.
Answer(c) ==
    /\ At(c, "answer")
    /\ Return(c)
    /\ UNCHANGED <<client, hour, hourlySpending, funds, account, lost, asked, crowded>>

-----------------------------------------------------------------------------
\* The clients

\* sendAndConfirmTransaction and send_and_confirm_transaction throw if it has failed.
JavaScript(c) ==
    /\ client = "javascript"
    /\ \/ Ask(c) \/ NotSent(c) \/ Track(c) \/ LookForAccount(c) \/ Send(c) \/ Fail(c, "confirm")
       \/ Answer(c)
       \/ call[c].lands /\ Confirm(c)

\* send_sol_payment looks at the balance.
RustSol(c) == PaysIn(c) = "SOL" /\ LookAtBalance(c, "SOL", Units(c))

\* send_token_payment looks at nothing, and opens no account.
RustToken(c) ==
    /\ At(c, "look")
    /\ PaysIn(c) = "token"
    /\ Goto(c, "send")
    /\ UNCHANGED <<client, hour, hourlySpending, funds, account, lost, asked, crowded>>

Rust(c) ==
    /\ client = "rust"
    /\ \/ Ask(c) \/ NotSent(c) \/ Track(c) \/ RustSol(c) \/ RustToken(c) \/ Send(c)
       \/ Fail(c, "confirm") \/ Answer(c)
       \/ call[c].lands /\ Confirm(c)

PythonSol(c) == PaysIn(c) = "SOL" /\ LookAtBalance(c, "SOL", Units(c))

\* _confirm_transaction waits 30 seconds for any transaction that is confirmed.
Python(c) ==
    /\ client = "python"
    /\ \/ Ask(c) \/ NotSent(c) \/ Track(c) \/ PythonSol(c) \/ OpenAccount(c) \/ Send(c)
       \/ Confirm(c) \/ Fail(c, "confirm") \/ Answer(c)

\* trackPayment takes no lock: the sum is read, and written later.
GoReads(c) ==
    /\ At(c, "create")
    /\ call[c].scheme = "solana"
    /\ call' = [call EXCEPT ![c].pc = "track", ![c].read = <<hour, hourlySpending[hour]>>]
    /\ UNCHANGED <<client, hour, hourlySpending, funds, account, lost, asked, crowded>>

GoWrites(c) ==
    /\ At(c, "track")
    /\ hourlySpending' =
          [hourlySpending EXCEPT ![call[c].read[1]] = call[c].read[2] + call[c].amount]
    /\ call' = [call EXCEPT ![c].pc = "look", ![c].read = <<0, 0>>]
    /\ UNCHANGED <<client, hour, funds, account, lost, asked, crowded>>

\* The runtime may notice that two goroutines write one map.
GoDies(c) ==
    /\ At(c, "track")
    /\ \E d \in Calls \ {c} : At(d, "track")
    /\ call' = [d \in Calls |-> [Idle EXCEPT !.pc = "dead"]]
    /\ UNCHANGED <<client, hour, hourlySpending, funds, account, lost, asked, crowded>>

\* Whatever the asset is, it is the SOL that must suffice; sendSPLPayment opens the account.
GoToken(c) ==
    /\ PaysIn(c) = "token"
    /\ funds["SOL"] >= call[c].amount * 10 ^ Decimals
    /\ LookForAccount(c)

GoSol(c) == PaysIn(c) = "SOL" /\ LookAtBalance(c, "SOL", Units(c))

Go(c) ==
    /\ client = "go"
    /\ \/ Ask(c) \/ NotSent(c) \/ GoReads(c) \/ GoWrites(c) \/ GoDies(c) \/ GoSol(c) \/ GoToken(c)
       \/ Send(c) \/ Confirm(c) \/ Fail(c, "confirm") \/ Answer(c)

\* createPayment of the Phantom client up to the payment
CheckLimit(c) ==
    /\ At(c, "create")
    /\ call[c].scheme = "solana"
    /\ IF hourlySpending[hour] + call[c].amount > Limit THEN Return(c) ELSE Goto(c, "look")
    /\ UNCHANGED <<client, hour, hourlySpending, funds, account, lost, asked, crowded>>

\* confirmTransaction has returned: what it says of an error is not looked at.
TrackConfirmed(c) ==
    /\ At(c, "confirm")
    /\ Spend(call[c].amount)
    /\ Goto(c, "answer")
    /\ UNCHANGED <<client, hour, funds, account, lost, asked, crowded>>

PhantomSol(c) == PaysIn(c) = "SOL" /\ LookAtBalance(c, "SOL", Units(c))

Phantom(c) ==
    /\ client = "phantom"
    /\ \/ Ask(c) \/ NotSent(c) \/ CheckLimit(c) \/ PhantomSol(c) \/ OpenAccount(c) \/ Send(c)
       \/ TrackConfirmed(c) \/ Fail(c, "confirm") \/ Answer(c)

\* createPayment of the CDP client and of the bridge up to the payment
Create(c) ==
    /\ At(c, "create")
    /\ Goto(c, "look")
    /\ UNCHANGED <<client, hour, hourlySpending, funds, account, lost, asked, crowded>>

\* The interceptor of the CDP client is there for the repeated request too.
AskAgain(c) ==
    /\ At(c, "answer")
    /\ asked < MaxCalls
    /\ \E a \in Amounts, s \in Assets :
          call' = [call EXCEPT ![c] = [Idle EXCEPT !.pc = "create", !.amount = a, !.asset = s]]
    /\ asked' = asked + 1
    /\ UNCHANGED <<client, hour, hourlySpending, funds, account, lost, crowded>>

\* sendTransaction returns before anything is confirmed.
Cdp(c) ==
    /\ client = "cdp"
    /\ \/ Ask(c) \/ NotSent(c) \/ Create(c) \/ LookForAccount(c) \/ Send(c) \/ TrackConfirmed(c)
       \/ Fail(c, "confirm") \/ AskAgain(c) \/ Answer(c)

\* makePaymentRequest counts what it has paid once the paid request is answered.
Record(c) ==
    /\ At(c, "answer")
    /\ Spend(call[c].amount)
    /\ Return(c)
    /\ UNCHANGED <<client, hour, funds, account, lost, asked, crowded>>

Mcp(c) ==
    /\ client = "mcp"
    /\ \/ Ask(c) \/ NotSent(c) \/ Create(c) \/ LookForAccount(c) \/ Send(c)
       \/ (call[c].lands /\ Confirm(c)) \/ Fail(c, "confirm") \/ Fail(c, "answer") \/ Record(c)

Hour ==
    /\ hour < MaxHour
    /\ hour' = hour + 1
    /\ UNCHANGED <<client, hourlySpending, call, funds, account, lost, asked, crowded>>

Next ==
    \/ \E c \in Calls :
          JavaScript(c) \/ Python(c) \/ Go(c) \/ Rust(c) \/ Phantom(c) \/ Cdp(c) \/ Mcp(c)
    \/ Hour

Spec == Init /\ [][Next]_callsVars
-----------------------------------------------------------------------------
\* What a client reports as spent, against what its wallet has paid. A client that counts
\* before it pays never reports too little, if its calls do not overlap in the Go client;
\* one that counts afterwards is short only of what failed calls have paid, and the bridge
\* never reports too much. One call at a time, no hour's spending passes the limit of the
\* Phantom client.
SpendingKnown ==
    LET reported == totalSpent * 10 ^ Decimals IN
    /\ client \in {"javascript", "python", "rust"} => paid <= reported
    /\ client = "go" /\ ~crowded => paid <= reported
    /\ client \in {"phantom", "cdp", "mcp"} /\ (\A c \in Calls : At(c, "idle")) =>
          paid <= reported + lost
    /\ client = "mcp" => reported <= paid
    /\ client = "phantom" /\ ~crowded => \A h \in 0..MaxHour : hourlySpending[h] <= Limit

\* What a client has looked at still holds when it sends: one call at a time, a client that
\* looks at the balance of the asset it pays in never sends more than there is, and nobody but
\* the Rust client, whichever calls overlap, pays to an account that does not exist.
PaymentsCanLand ==
    \A c \in Calls : At(c, "send") =>
        /\ ~crowded /\ \/ client \in {"python", "phantom"}
                       \/ client \in {"rust", "go"} /\ PaysIn(c) = "SOL"
              => CanLand(c)
        /\ client # "rust" /\ PaysIn(c) = "token" => account \/ call[c].creates
=============================================================================
