--------------------------- MODULE PaymentVerifier ---------------------------
(***************************************************************************)
(* One payment and the calls that present it to a paid endpoint: the       *)
(* verifier of X042 Core (payment/verifier.ts), its stores of signatures   *)
(* (storage/signature-store.ts) and the middlewares that call it.          *)
(*                                                                         *)
(* A payload is accepted until it is too old, its signature is remembered  *)
(* from its acceptance on for a time of its own.                           *)
(***************************************************************************)
EXTENDS Integers, FiniteSets

CONSTANTS
    Calls,      \* calls at one time that carry the payment
    MaxAge,     \* config.timeout * 1000 milliseconds, in ticks
    Ttl,        \* config.timeout / 1000 seconds, in ticks
    Horizon,    \* bound: ticks
    MaxFaults   \* bound: restarts and exceptions

\* the verifier's age in milliseconds is a million times its time to live in seconds
VerifierAssumption == Ttl \in Nat \ {0} /\ MaxAge \in Nat /\ Horizon \in Nat /\ MaxFaults \in Nat

VARIABLES
    store,      \* RedisSignatureStore or InMemorySignatureStore
    now,        \* age of the payload
    until,      \* when its signature expires in the store; 0: it is not there
    check,      \* verifyPayment, and what follows in the middleware, for each call
    accepted,   \* how many calls it has bought
    doubled,    \* history: has a call begun before another was over?
    checkFaults

verifierVars == <<store, now, until, check, accepted, doubled, checkFaults>>

Init ==
    /\ store \in {"redis", "memory"}
    /\ now = 0 /\ until = 0
    /\ check = [c \in Calls |-> "idle"]
    /\ accepted = 0
    /\ doubled = FALSE
    /\ checkFaults = 0

At(c, pc) == check[c] = pc
Goto(c, pc) == check' = [check EXCEPT ![c] = pc]

\* exists in Redis; has, in memory
Remembered == until > 0 /\ IF store = "redis" THEN now < until ELSE now <= until
Has(c) == Goto(c, IF Remembered THEN "idle" ELSE "fetch")

\* The header is there and the payload neither too old nor from the future.
Begin(c) ==
    /\ At(c, "idle")
    /\ now <= MaxAge
    /\ IF store = "redis" THEN Goto(c, "has") ELSE Has(c)
    /\ doubled' = (doubled \/ \E d \in Calls \ {c} : ~At(d, "idle"))
    /\ UNCHANGED <<store, now, until, accepted, checkFaults>>

HasSignature(c) ==
    /\ At(c, "has")
    /\ Has(c)
    /\ UNCHANGED <<store, now, until, accepted, doubled, checkFaults>>

\* fetchTransaction and validateTransaction: it is found and pays, or not (yet).
Validate(c) ==
    /\ At(c, "fetch")
    /\ \E pc \in {"add", "idle"} : Goto(c, pc)
    /\ UNCHANGED <<store, now, until, accepted, doubled, checkFaults>>

AddLate(c) ==
    /\ At(c, "add")
    /\ accepted' = accepted + 1
    /\ Goto(c, "verified")
    /\ UNCHANGED <<store, now, until, doubled, checkFaults>>

\* setex, or the set and the map of expirations
Add(c) ==
    /\ At(c, "add")
    /\ until' = now + Ttl
    /\ accepted' = accepted + 1
    /\ Goto(c, "verified")
    /\ UNCHANGED <<store, now, doubled, checkFaults>>

\* The application's onPaymentVerified has returned: next handles the request.
Serve(c) ==
    /\ At(c, "next")
    /\ Goto(c, "idle")
    /\ UNCHANGED <<store, now, until, accepted, doubled, checkFaults>>

Tick ==
    /\ now < Horizon
    /\ now' = now + 1
    /\ UNCHANGED <<store, until, check, accepted, doubled, checkFaults>>

CheckFault == checkFaults < MaxFaults /\ checkFaults' = checkFaults + 1

\* Redis throws; the call is refused, though the signature may be remembered.
StoreThrows(c) ==
    /\ store = "redis"
    /\ check[c] \in {"has", "add"}
    /\ CheckFault
    /\ \/ until' = until
       \/ At(c, "add") /\ until' = now + Ttl
    /\ Goto(c, "idle")
    /\ UNCHANGED <<store, now, accepted, doubled>>

\* The process is started again: what is in memory is gone.
Restart ==
    /\ CheckFault
    /\ check' = [c \in Calls |-> "idle"]
    /\ until' = IF store = "memory" THEN 0 ELSE until
    /\ UNCHANGED <<store, now, accepted, doubled>>

Verify(c) ==
    Begin(c) \/ HasSignature(c) \/ Validate(c) \/ Add(c) \/ Serve(c) \/ StoreThrows(c)

-----------------------------------------------------------------------------
\* When its calls do not overlap, a payment buys one call, another one for every time
\* that its signature expires while the payload is still young enough, and, from
\* memory, another one for every restart.
BuysAtMost ==
    doubled \/
        accepted <= IF store = "redis" THEN 2 + MaxAge \div Ttl
                                       ELSE 1 + MaxAge \div (Ttl + 1) + checkFaults
=============================================================================
