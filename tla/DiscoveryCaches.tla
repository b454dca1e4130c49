--------------------------- MODULE DiscoveryCaches ---------------------------
(***************************************************************************)
(* Two clients of the registry that cache what it answers: the reasoning   *)
(* engine's in Redis (core/service-discovery.ts), which drops entries when *)
(* it rates a service, and the Parallax agent's, in Redis or in memory     *)
(* (gradient/src/x402/discovery.ts), which can be cleared. The registry's  *)
(* answers are versions of one service.                                    *)
(***************************************************************************)
EXTENDS Integers, FiniteSets

CONSTANTS
    Reads,          \* discoverServices and getServiceById
    Ttl,            \* cacheTTL, cacheTimeout, in ticks
    Horizon,        \* bound: ticks; a request to the registry takes one at most
    MaxVersion      \* bound

CachesAssumption == Ttl \in Nat \ {0} /\ Horizon \in Nat /\ MaxVersion \in Nat

VARIABLES
    user,       \* which client and store
    version,    \* the registry's, at each tick up to now
    entry,      \* each key's version, and the ticks that it is still there
    read,       \* each read; its promise is what had been promised for its key at its beginning
    dropping,   \* rateService, clearCache: one at a time
    promised,   \* history: what each key's readers may expect
    raced       \* history: has a key been dropped with an older answer on its way into the cache?

cacheVars == <<user, version, entry, read, dropping, promised, raced>>

\* all services, those of a category, and one
Keys == {"all", "category", "service"}
NotRead == [pc |-> "idle", key |-> "all", version |-> 0, promise |-> 0, at |-> 0, since |-> 0]
NotDropping == [keys |-> {}, version |-> 0]
now == Cardinality(DOMAIN version) - 1

TypeOK ==
    /\ user \in {"engine", "agentRedis", "agentMemory"}
    /\ now \in 0..Horizon /\ version \in [0..now -> 0..MaxVersion]
    /\ entry \in [Keys -> [version : 0..MaxVersion, left : 0..Ttl]]
    /\ \A r \in Reads : read[r].pc \in {"idle", "fetch", "store", "done", "nothing"}
    /\ dropping.keys \subseteq Keys
    /\ promised \in [Keys -> 0..MaxVersion]
    /\ raced \in BOOLEAN

Init ==
    /\ user \in {"engine", "agentRedis", "agentMemory"}
    /\ version = [t \in {0} |-> 0]
    /\ entry = [k \in Keys |-> [version |-> 0, left |-> 0]]
    /\ read = [r \in Reads |-> NotRead]
    /\ dropping = NotDropping
    /\ promised = [k \in Keys |-> 0]
    /\ raced = FALSE

Current == version[now]
Waiting(r) == read[r].pc \in {"fetch", "store"}
At(r, pc) == read[r].pc = pc

-----------------------------------------------------------------------------
\* The cache is asked. Only the engine's client looks up single services.
Lookup(r) ==
    /\ At(r, "idle")
    /\ \E k \in Keys :
          /\ k = "service" => user = "engine"
          /\ LET begun == [read[r] EXCEPT !.key = k, !.promise = promised[k], !.at = now, !.since = now]
             IN  read' = [read EXCEPT ![r] =
                    IF entry[k].left > 0 THEN [begun EXCEPT !.pc = "done", !.version = entry[k].version]
                                         ELSE [begun EXCEPT !.pc = "fetch"]]
    /\ UNCHANGED <<user, version, entry, dropping, promised, raced>>

\* The registry answers. What is cached in memory is there at once.
Kept(r, v) == [entry EXCEPT ![read[r].key] = [version |-> v, left |-> Ttl]]

Fetch(r) ==
    /\ At(r, "fetch")
    /\ IF user = "agentMemory"
       THEN /\ read' = [read EXCEPT ![r].pc = "done", ![r].version = Current]
            /\ entry' = Kept(r, Current)
       ELSE read' = [read EXCEPT ![r].pc = "store", ![r].version = Current] /\ UNCHANGED entry
    /\ UNCHANGED <<user, version, dropping, promised, raced>>

\* setex
Store(r) ==
    /\ At(r, "store")
    /\ entry' = Kept(r, read[r].version)
    /\ read' = [read EXCEPT ![r].pc = "done"]
    /\ UNCHANGED <<user, version, dropping, promised, raced>>

\* The registry or Redis throws: nothing is returned, or the exception.
Unanswered(r) ==
    /\ Waiting(r)
    /\ read' = [read EXCEPT ![r].pc = "nothing"]
    /\ UNCHANGED <<user, version, entry, dropping, promised, raced>>

NewVersion == Current < MaxVersion /\ version' = [version EXCEPT ![now] = @ + 1]

\* The service is changed by somebody else.
Change ==
    /\ NewVersion
    /\ UNCHANGED <<user, entry, read, dropping, promised, raced>>

\* rateService, which then drops the service and the list of all
Rate ==
    /\ user = "engine" /\ dropping = NotDropping
    /\ NewVersion
    /\ dropping' = [keys |-> {"service", "all"}, version |-> Current + 1]
    /\ UNCHANGED <<user, entry, read, promised, raced>>

\* clearCache: the keys that there are in Redis, if any
Clear ==
    /\ user = "agentRedis" /\ dropping = NotDropping
    /\ \E k \in Keys : entry[k].left > 0
    /\ dropping' = [keys |-> {k \in Keys : entry[k].left > 0}, version |-> Current]
    /\ UNCHANGED <<user, version, entry, read, promised, raced>>

Drop(keys, v) ==
    /\ entry' = [k \in Keys |-> IF k \in keys THEN [entry[k] EXCEPT !.left = 0] ELSE entry[k]]
    /\ promised' = [k \in Keys |-> IF k \in keys THEN v ELSE promised[k]]
    /\ raced' = (raced \/ \E r \in Reads :
                    At(r, "store") /\ read[r].key \in keys /\ read[r].version < v)
    /\ UNCHANGED <<user, version, read>>

\* The engine's client drops one and then the other; clearCache drops them at once.
DropThese ==
    /\ dropping # NotDropping
    /\ LET keys == IF user = "engine" /\ "service" \in dropping.keys THEN {"service"} ELSE dropping.keys
       IN  /\ Drop(keys, dropping.version)
           /\ dropping' = IF keys = dropping.keys THEN NotDropping
                          ELSE [dropping EXCEPT !.keys = @ \ keys]

\* clearCache in memory
ClearMemory ==
    /\ user = "agentMemory" /\ \E k \in Keys : entry[k].left > 0
    /\ Drop(Keys, Current)
    /\ UNCHANGED dropping

\* The rating, or Redis, throws: nobody is told.
DropFails ==
    /\ dropping # NotDropping
    /\ dropping' = NotDropping
    /\ UNCHANGED <<user, version, entry, read, promised, raced>>

Tick ==
    /\ now < Horizon
    /\ \A r \in Reads : Waiting(r) => read[r].since = now
    /\ version' = [t \in 0..(now + 1) |-> IF t <= now THEN version[t] ELSE Current]
    /\ entry' = [k \in Keys |-> [entry[k] EXCEPT !.left = IF @ = 0 THEN 0 ELSE @ - 1]]
    /\ UNCHANGED <<user, read, dropping, promised, raced>>

Next ==
    \/ Change \/ Rate \/ Clear \/ ClearMemory \/ DropThese \/ DropFails \/ Tick
    \/ \E r \in Reads : Lookup(r) \/ Fetch(r) \/ Store(r) \/ Unanswered(r)

Spec == Init /\ [][Next]_cacheVars
-----------------------------------------------------------------------------
\* service-discovery.ts, discovery.ts: what a reader is given is not older than what was there
\* for as long as entries live and a request takes before it asked; nor, unless an older answer
\* was on its way, than what was there when its key was dropped.
FreshEnough ==
    \A r \in Reads : At(r, "done") =>
        /\ read[r].at - Ttl - 1 \in DOMAIN version =>
              read[r].version >= version[read[r].at - Ttl - 1]
        /\ ~raced => read[r].version >= read[r].promise
=============================================================================
