-------------------------- MODULE FacilitatorRecords --------------------------
(***************************************************************************)
(* Three small records of the facilitator, of which a behaviour is about   *)
(* one: a route of a payment (routes/routing.ts, and its other beginning   *)
(* in routes/payments.ts), a merchant's notification preferences           *)
(* (routes/notifications.ts), and the transactions that a service's        *)
(* reputation is computed from (routes/services.ts).                       *)
(***************************************************************************)
EXTENDS Integers, FiniteSets

CONSTANTS
    Callers,        \* requests at one time
    Settings,       \* what preferences may be put
    Hours,          \* a route is kept 1 tick, a completed one this many: 1 and 24 hours
    MaxStats,       \* bound: requests that execute or complete the route
    MaxRecorded,    \* bound: transactions
    MaxFaults       \* bound: exceptions of Redis and the database

RecordsAssumption ==
    Hours \in Nat \ {0} /\ MaxStats \in Nat /\ MaxRecorded \in Nat /\ MaxFaults \in Nat

VARIABLES
    about,      \* which of the three it is
    route,      \* route:<id>, with the ticks it has left
    caller,     \* what each request is doing, and the route it has read
    stats,      \* the counters routes:executed:total and routes:completed:total
    finished,   \* history: how often the route has been completed
    crossed,    \* history: has a request begun before another was over?
    preferences,    \* the merchant's row
    put,        \* history: what was put last
    recorded,   \* how many transactions of the service are confirmed, failed and neither
    recordFaults

recordVars == <<about, route, caller, stats, finished, crossed, preferences, put, recorded,
                recordFaults>>

NoRoute == [status |-> "none", signed |-> FALSE, left |-> 0]
NoCall == [pc |-> "idle", read |-> NoRoute]
Kept == {"pending", "executing", "completed"}
Statuses == {"none", "expired"} \cup Kept
Counters == {"executing", "completed"}

TypeOK ==
    /\ about \in {"route", "preferences", "reputation"}
    /\ route \in [status : Statuses, signed : BOOLEAN, left : 0..Hours]
    /\ caller \in [Callers -> [pc : {"idle", "execute", "complete", "executeCounts",
                                     "completeCounts", "create"},
                               read : [status : Statuses, signed : BOOLEAN, left : 0..Hours]]]
    /\ stats \in [Counters -> 0..MaxStats]
    /\ finished \in 0..MaxStats
    /\ crossed \in BOOLEAN
    /\ preferences \in {"none", "default"} \cup Settings
    /\ put \in {"none"} \cup Settings
    /\ recorded \in [{"confirmed", "failed", "other"} -> 0..MaxRecorded]
    /\ recordFaults \in 0..MaxFaults

Init ==
    /\ about \in {"route", "preferences", "reputation"}
    /\ route = NoRoute
    /\ caller = [c \in Callers |-> NoCall]
    /\ stats = [s \in Counters |-> 0]
    /\ finished = 0
    /\ crossed = FALSE
    /\ preferences = "none" /\ put = "none"
    /\ recorded = [s \in {"confirmed", "failed", "other"} |-> 0]
    /\ recordFaults = 0

At(c, pc) == caller[c].pc = pc
Idle(c) == At(c, "idle")
Goto(c, pc) == caller' = [caller EXCEPT ![c].pc = pc]
Return(c) == caller' = [caller EXCEPT ![c] = NoCall]

-----------------------------------------------------------------------------
\* POST /routes/create and POST /route: one id, once
CreateRoute(c) ==
    /\ about = "route"
    /\ Idle(c)
    /\ route = NoRoute
    /\ route' = [status |-> "pending", signed |-> FALSE, left |-> 1]
    /\ UNCHANGED <<about, caller, stats, finished, crossed, preferences, put, recorded, recordFaults>>

\* POST /routes/:routeId/execute and complete: the route is got, whatever its status.
GetRoute(c, pc) ==
    /\ about = "route"
    /\ Idle(c)
    /\ route.status \in Kept
    /\ stats["executing"] < MaxStats /\ stats["completed"] < MaxStats /\ finished < MaxStats
    /\ caller' = [caller EXCEPT ![c] = [pc |-> pc, read |-> route]]
    /\ crossed' = (crossed \/ \E d \in Callers \ {c} : ~Idle(d))
    /\ UNCHANGED <<about, route, stats, finished, preferences, put, recorded, recordFaults>>

\* What was read is set again, with the status, even if the route has expired since.
Execute(c) ==
    /\ At(c, "execute")
    /\ route' = [caller[c].read EXCEPT !.status = "executing", !.left = 1]
    /\ Goto(c, "executeCounts")
    /\ UNCHANGED <<about, stats, finished, crossed, preferences, put, recorded, recordFaults>>

Complete(c) ==
    /\ At(c, "complete")
    /\ finished < MaxStats
    /\ route' = [status |-> "completed", signed |-> TRUE, left |-> Hours]
    /\ finished' = finished + 1
    /\ Goto(c, "completeCounts")
    /\ UNCHANGED <<about, stats, crossed, preferences, put, recorded, recordFaults>>

\* incr
Count(c, pc, counter) ==
    /\ At(c, pc)
    /\ stats[counter] < MaxStats
    /\ stats' = [stats EXCEPT ![counter] = @ + 1]
    /\ Return(c)
    /\ UNCHANGED <<about, route, finished, crossed, preferences, put, recorded, recordFaults>>

Hour ==
    /\ route.left > 0
    /\ route' = IF route.left = 1 THEN [NoRoute EXCEPT !.status = "expired"]
                                  ELSE [route EXCEPT !.left = @ - 1]
    /\ UNCHANGED <<about, caller, stats, finished, crossed, preferences, put, recorded, recordFaults>>

-----------------------------------------------------------------------------
\* GET /api/notifications/preferences: they are found, or created after the answer.
FindPreferences(c) ==
    /\ about = "preferences"
    /\ Idle(c)
    /\ preferences = "none"
    /\ Goto(c, "create")
    /\ UNCHANGED <<about, route, stats, finished, crossed, preferences, put, recorded, recordFaults>>

\* merchantWallet is unique: the row of somebody who came first stays, and this is a 500.
CreatePreferences(c) ==
    /\ At(c, "create")
    /\ preferences' = IF preferences = "none" THEN "default" ELSE preferences
    /\ Return(c)
    /\ UNCHANGED <<about, route, stats, finished, crossed, put, recorded, recordFaults>>

\* PUT: one upsert
PutPreferences ==
    /\ about = "preferences"
    /\ \E s \in Settings : preferences' = s /\ put' = s
    /\ UNCHANGED <<about, route, caller, stats, finished, crossed, recorded, recordFaults>>

-----------------------------------------------------------------------------
\* A transaction is recorded with its status, which nothing changes.
RecordTransaction ==
    /\ about = "reputation"
    /\ recorded["confirmed"] + recorded["failed"] + recorded["other"] < MaxRecorded
    /\ \E s \in {"confirmed", "failed", "other"} : recorded' = [recorded EXCEPT ![s] = @ + 1]
    /\ UNCHANGED <<about, route, caller, stats, finished, crossed, preferences, put, recordFaults>>

Total(r) == r["confirmed"] + r["failed"] + r["other"]
Clamp(n, top) == IF n < 0 THEN 0 ELSE IF n > top THEN top ELSE n

\* GET /api/services/:id/reputation, times the number of transactions (or 1, without any)
Weight(r) == IF Total(r) = 0 THEN 1 ELSE Total(r)
Score(r) ==
    LET plain == 5000 + 10 * r["confirmed"] - 50 * r["failed"]
        missing == 90 * Total(r) - 100 * r["confirmed"]     \* 90 % less the successRate
    IN  Clamp(Weight(r) * plain - (IF missing > 0 /\ Total(r) > 10 THEN 10 * missing ELSE 0),
              10000 * Weight(r))

NoLower(r, s) == Score(s) * Weight(r) >= Score(r) * Weight(s)
One(r, status) == [r EXCEPT ![status] = @ + 1]

-----------------------------------------------------------------------------
\* Redis or the database throws: the request is over.
Throw(c) ==
    /\ ~Idle(c)
    /\ recordFaults < MaxFaults
    /\ recordFaults' = recordFaults + 1
    /\ Return(c)
    /\ UNCHANGED <<about, route, stats, finished, crossed, preferences, put, recorded>>

Next ==
    \/ \E c \in Callers :
          \/ CreateRoute(c) \/ GetRoute(c, "execute") \/ GetRoute(c, "complete")
          \/ Execute(c) \/ Complete(c)
          \/ Count(c, "executeCounts", "executing") \/ Count(c, "completeCounts", "completed")
          \/ FindPreferences(c) \/ CreatePreferences(c) \/ Throw(c)
    \/ Hour \/ PutPreferences \/ RecordTransaction

Spec == Init /\ [][Next]_recordVars
-----------------------------------------------------------------------------
\* A route that has been completed, by requests that did not cross, has its signature for
\* as long as it is kept, even if it is executed again. Preferences that were put are
\* never replaced by the defaults of a read. One more failed transaction never raises a
\* service's reputation, one more confirmed one never lowers it, but the eleventh, from
\* which on the success rate counts.
RecordsKept ==
    /\ ~crossed /\ finished > 0 /\ route.status \in Kept => route.signed
    /\ put # "none" => preferences = put
    /\ NoLower(One(recorded, "failed"), recorded)
    /\ Total(recorded) # 10 => NoLower(recorded, One(recorded, "confirmed"))
=============================================================================
