------------------------------- MODULE ApiKeys -------------------------------
(***************************************************************************)
(* One merchant's API keys at the facilitator: the check that every route  *)
(* makes of them (middleware/auth.ts) and the routes that manage them      *)
(* (routes/api-keys.ts). Each request awaits the database between what it  *)
(* reads and what it does.                                                 *)
(*                                                                         *)
(* The other way to authenticate, a signature of the wallet, refuses every *)
(* request: its header is split at each colon and must have three parts,   *)
(* so that the message has no colon left, and the time parsed from what    *)
(* follows a colon in it is always 0.                                      *)
(*                                                                         *)
(* And the fixed windows of the rate limiter for one address               *)
(* (middleware/rate-limit.ts), which shares nothing with the keys: the     *)
(* first request opens a window, the requests in it are counted, and a     *)
(* request after its end opens another. The check runs without an await,   *)
(* so that each is one step.                                               *)
(***************************************************************************)
EXTENDS Integers, FiniteSets, FiniteSetsExt

CONSTANTS
    Requests,   \* requests at one time
    Keys,       \* bound: the keys that are ever created
    FirstKeys,  \* of these, those that are there at the start
    MaxKeys,    \* 10 active API keys per account
    MaxFaults,  \* bound: exceptions of the database
    Allowed,    \* config.max
    Window,     \* config.windowMs, in ticks
    Horizon,    \* bound: ticks
    MaxRestarts \* bound: restarts

LimiterAssumption ==
    Allowed \in Nat \ {0} /\ Window \in Nat /\ Horizon \in Nat /\ MaxRestarts \in Nat
KeysAssumption ==
    /\ IsFiniteSet(Keys) /\ MaxKeys \in Nat
    /\ FirstKeys \subseteq Keys /\ Cardinality(FirstKeys) <= MaxKeys

VARIABLES
    apiKey,     \* the rows: an expired one is as active as it was for those who count it
    access,     \* what each request is doing, and the keys it is about
    together,   \* history: how many requests have counted the keys at one time
    outdated,   \* history: has a request been let in by a key revoked before it came?
    accessFaults,
    limiter,    \* the address's record in the store
    tick,
    admitted,   \* history: the requests let through, by tick
    refused,    \* history: has one been refused in this window?
    restarts

limiterVars == <<limiter, tick, admitted, refused, restarts>>
accessVars == <<apiKey, access, together, outdated, accessFaults>>

NoAccess == [pc |-> "idle", key |-> {}, before |-> {}]

TypeOK ==
    /\ apiKey \in [Keys -> {"none", "active", "expired", "revoked"}]
    /\ access \in [Requests -> [pc : {"idle", "auth", "touch", "route", "create", "revoke", "rename"},
                                key : SUBSET Keys, before : SUBSET Keys]]
    /\ together \in 0..Cardinality(Requests)
    /\ outdated \in BOOLEAN
    /\ accessFaults \in 0..MaxFaults

Init ==
    /\ apiKey = [k \in Keys |-> IF k \in FirstKeys THEN "active" ELSE "none"]
    /\ access = [r \in Requests |-> NoAccess]
    /\ together = 0
    /\ outdated = FALSE
    /\ accessFaults = 0

At(r, pc) == access[r].pc = pc
Goto(r, pc, ks) == access' = [access EXCEPT ![r].pc = pc, ![r].key = ks]
Return(r) == access' = [access EXCEPT ![r] = NoAccess]
Unrevoked == {k \in Keys : apiKey[k] \in {"active", "expired"}}
Revoked == {k \in Keys : apiKey[k] = "revoked"}

-----------------------------------------------------------------------------
\* The auth handler, with X-API-Key; before is what was revoked when it was called.
Begin(r) ==
    /\ At(r, "idle")
    /\ access' = [access EXCEPT ![r] = [pc |-> "auth", key |-> {}, before |-> Revoked]]
    /\ UNCHANGED <<apiKey, together, outdated, accessFaults>>

\* verifyApiKey finds the row; it is not revoked, nor expired.
FindValidKey(r) ==
    /\ At(r, "auth")
    /\ \E k \in Keys : IF apiKey[k] = "active" THEN Goto(r, "touch", {k}) ELSE Return(r)
    /\ UNCHANGED <<apiKey, together, outdated, accessFaults>>

\* verifyWalletSignature, with another Authorization: the wallet is never set.
RefuseSignature(r) ==
    /\ At(r, "auth")
    /\ Return(r)
    /\ UNCHANGED <<apiKey, together, outdated, accessFaults>>

\* lastUsedAt is set, and the route is called.
LetIn(r) ==
    /\ At(r, "touch")
    /\ outdated' = (outdated \/ access[r].key \cap access[r].before # {})
    /\ access' = [access EXCEPT ![r] = [NoAccess EXCEPT !.pc = "route"]]
    /\ UNCHANGED <<apiKey, together, accessFaults>>

\* GET /api/keys, and the routes that have nothing to do with keys
Read(r) ==
    /\ At(r, "route")
    /\ Return(r)
    /\ UNCHANGED <<apiKey, together, outdated, accessFaults>>

\* POST /api/keys/create counts the keys that are not revoked, and then creates one.
CountKeysLate(r) ==
    /\ At(r, "route")
    /\ IF Cardinality(Unrevoked) > MaxKeys
          THEN Return(r) /\ UNCHANGED together
          ELSE /\ Goto(r, "create", {})
               /\ together' = Max({together, 1 + Cardinality({q \in Requests : At(q, "create")})})
    /\ UNCHANGED <<apiKey, outdated, accessFaults>>

CountKeys(r) ==
    /\ At(r, "route")
    /\ IF Cardinality(Unrevoked) >= MaxKeys
          THEN Return(r) /\ UNCHANGED together
          ELSE /\ Goto(r, "create", {})
               /\ together' = Max({together, 1 + Cardinality({q \in Requests : At(q, "create")})})
    /\ UNCHANGED <<apiKey, outdated, accessFaults>>

CreateKey(r) ==
    /\ At(r, "create")
    /\ \E k \in Keys : apiKey[k] = "none" /\ apiKey' = [apiKey EXCEPT ![k] = "active"]
    /\ Return(r)
    /\ UNCHANGED <<together, outdated, accessFaults>>

\* DELETE and PUT /api/keys/:keyId find the row, revoked or not, and update it later.
FindKey(r, pc) ==
    /\ At(r, "route")
    /\ \E k \in Keys : IF apiKey[k] = "none" THEN Return(r) ELSE Goto(r, pc, {k})
    /\ UNCHANGED <<apiKey, together, outdated, accessFaults>>

RevokeKey(r) ==
    /\ At(r, "revoke")
    /\ apiKey' = [k \in Keys |-> IF k \in access[r].key THEN "revoked" ELSE apiKey[k]]
    /\ Return(r)
    /\ UNCHANGED <<together, outdated, accessFaults>>

\* The name and the permissions, which no route asks for
RenameKey(r) ==
    /\ At(r, "rename")
    /\ Return(r)
    /\ UNCHANGED <<apiKey, together, outdated, accessFaults>>

Expire(k) ==
    /\ apiKey[k] = "active"
    /\ apiKey' = [apiKey EXCEPT ![k] = "expired"]
    /\ UNCHANGED <<access, together, outdated, accessFaults>>

\* The database throws: the request is over, without what it was about to do.
Throw(r) ==
    /\ ~At(r, "idle")
    /\ accessFaults < MaxFaults
    /\ accessFaults' = accessFaults + 1
    /\ Return(r)
    /\ UNCHANGED <<apiKey, together, outdated>>

Next ==
    \/ \E r \in Requests :
          \/ Begin(r) \/ FindValidKey(r) \/ RefuseSignature(r) \/ LetIn(r) \/ Read(r)
          \/ CountKeys(r) \/ CreateKey(r) \/ FindKey(r, "revoke") \/ FindKey(r, "rename")
          \/ RevokeKey(r) \/ RenameKey(r) \/ Throw(r)
    \/ \E k \in Keys : Expire(k)

Spec == Init /\ [][Next]_accessVars
-----------------------------------------------------------------------------
\* An account has as many keys that are not revoked as it may have, and one more for
\* each further request that was creating one at the same time; a request is never let
\* in by a key that had been revoked when it came.
KeysLimited ==
    /\ Cardinality(Unrevoked) <= MaxKeys + Max({0, together - 1})
    /\ ~outdated

-----------------------------------------------------------------------------
\* The rate limiter

NoRecord == [count |-> 0, resetTime |-> -1]

LimiterTypeOK ==
    /\ limiter \in [count : 0..(Allowed + 1), resetTime : -1..(Horizon + Window)]
    /\ tick \in 0..Horizon
    /\ admitted \in [0..Horizon -> Nat]
    /\ refused \in BOOLEAN
    /\ restarts \in 0..MaxRestarts

InitLimiter ==
    /\ limiter = NoRecord
    /\ tick = 0
    /\ admitted = [t \in 0..Horizon |-> 0]
    /\ refused = FALSE
    /\ restarts = 0

\* The record that counts a request, a new one when there is none or its time is over
Fresh == limiter.resetTime < tick
Record == IF Fresh THEN [count |-> 0, resetTime |-> tick + Window] ELSE limiter

\* check: counts that are past the limit are all one.
Check ==
    /\ limiter' = [Record EXCEPT !.count = Min({@, Allowed}) + 1]
    /\ admitted' = IF Record.count + 1 > Allowed THEN admitted ELSE [admitted EXCEPT ![tick] = @ + 1]
    /\ refused' = (Record.count + 1 > Allowed \/ (refused /\ ~Fresh))
    /\ UNCHANGED <<tick, restarts>>

\* cleanup, once a minute
Cleanup ==
    /\ limiter # NoRecord /\ Fresh
    /\ limiter' = NoRecord
    /\ refused' = FALSE
    /\ UNCHANGED <<tick, admitted, restarts>>

Tick ==
    /\ tick < Horizon
    /\ tick' = tick + 1
    /\ UNCHANGED <<limiter, admitted, refused, restarts>>

\* The store is in memory.
Restart ==
    /\ restarts < MaxRestarts
    /\ restarts' = restarts + 1
    /\ limiter' = NoRecord
    /\ refused' = FALSE
    /\ UNCHANGED <<tick, admitted>>

NextLimiter == Check \/ Cleanup \/ Tick \/ Restart
-----------------------------------------------------------------------------
Through(first, last) ==
    MapThenSumSet(LAMBDA t : admitted[t], Max({0, first})..Min({last, Horizon}))

\* A span as long as a window, whenever it begins, sees the requests of two windows at
\* most, and of one more for every restart; and nobody is refused who has not had the
\* requests of a whole window since it began.
RequestsLimited ==
    /\ \A t \in 0..Horizon : Through(t, t + Window) <= Allowed * (2 + restarts)
    /\ refused => Through(limiter.resetTime - Window, limiter.resetTime) >= Allowed
=============================================================================
