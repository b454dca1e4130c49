-------------------------- MODULE FacilitatorEscrow --------------------------
(***************************************************************************)
(* One escrow record of the facilitator, routes/escrow.ts: created, funded *)
(* and released or refunded by requests that each get the record, check    *)
(* its status, set it, and count.  Nothing locks the record; it expires a  *)
(* day after it was last set.                                              *)
(***************************************************************************)
EXTENDS Integers, FiniteSets

CONSTANTS
    Routes,         \* requests at one time
    MaxStats,       \* bound: how far the counters are followed
    MaxFaults       \* bound: exceptions of Redis

VARIABLES
    escrow,     \* status of the record escrow:<id>
    route,      \* what each request is doing: to which status, and where in it
    stats,      \* the counters escrow:<status>:total
    overtaken,  \* history: has a request begun before another was over?
    routeFaults

escrowVars == <<escrow, route, stats, overtaken, routeFaults>>

Ended == {"released", "refunded"}
Set == {"pending", "funded"} \cup Ended
NoRoute == [pc |-> "idle", to |-> "none"]

TypeOK ==
    /\ escrow \in {"none", "expired"} \cup Set
    /\ route \in [Routes -> [pc: {"idle", "set", "count"}, to: {"none"} \cup Set]]
    /\ stats \in [Set -> 0..MaxStats]
    /\ overtaken \in BOOLEAN
    /\ routeFaults \in 0..MaxFaults

Init ==
    /\ escrow = "none"
    /\ route = [r \in Routes |-> NoRoute]
    /\ stats = [s \in Set |-> 0]
    /\ overtaken = FALSE
    /\ routeFaults = 0

Goto(r, pc, to) == route' = [route EXCEPT ![r] = [pc |-> pc, to |-> to]]

\* The status a route asks for, in the record that it has read
AllowsUnlessSame(to) ==
    CASE to = "pending"  -> escrow = "none"
      [] to = "funded"   -> escrow = "pending"
      [] to = "released" -> escrow = "funded"
      [] to = "refunded" -> escrow \in Set \ {"refunded"}
StatusAllows(to) ==
    CASE to = "pending"  -> escrow = "none"
      [] to = "funded"   -> escrow = "pending"
      [] to = "released" -> escrow = "funded"
      [] to = "refunded" -> escrow \in Set \ Ended

Get(r, to) ==
    /\ route[r].pc = "idle"
    /\ StatusAllows(to)
    /\ Goto(r, "set", to)
    /\ overtaken' = (overtaken \/ \E q \in Routes \ {r} : route[q].pc # "idle")
    /\ UNCHANGED <<escrow, stats, routeFaults>>

\* set, whatever the record now holds, and if it has expired
SetStatus(r) ==
    /\ route[r].pc = "set"
    /\ escrow' = route[r].to
    /\ Goto(r, "count", route[r].to)
    /\ UNCHANGED <<stats, overtaken, routeFaults>>

\* incr of the counter
Count(r) ==
    /\ route[r].pc = "count"
    /\ stats[route[r].to] < MaxStats
    /\ stats' = [stats EXCEPT ![route[r].to] = @ + 1]
    /\ Goto(r, "idle", "none")
    /\ UNCHANGED <<escrow, overtaken, routeFaults>>

Expire ==
    /\ escrow \in Set
    /\ escrow' = "expired"
    /\ UNCHANGED <<route, stats, overtaken, routeFaults>>

\* Redis throws, or the process dies: the request is over.
Throw(r) ==
    /\ route[r].pc # "idle"
    /\ routeFaults < MaxFaults
    /\ routeFaults' = routeFaults + 1
    /\ Goto(r, "idle", "none")
    /\ UNCHANGED <<escrow, stats, overtaken>>

Next ==
    \/ Expire
    \/ \E r \in Routes :
          (\E to \in Set : Get(r, to)) \/ SetStatus(r) \/ Count(r) \/ Throw(r)

Spec == Init /\ [][Next]_escrowVars
-----------------------------------------------------------------------------
\* When no requests have overlapped, an escrow is released or refunded once, and
\* released only when it was funded; the counters count what has happened, but for
\* what Redis has thrown away.
EndsOnce ==
    overtaken \/
        /\ stats["released"] + stats["refunded"] <= 1
        /\ stats["released"] <= stats["funded"] + routeFaults
        /\ (\A r \in Routes : route[r].pc = "idle") =>
              /\ escrow \in Ended => stats[escrow] + routeFaults >= 1
              /\ stats["released"] = 1 => escrow \in {"released", "expired"}
              /\ stats["refunded"] = 1 => escrow \in {"refunded", "expired"}
=============================================================================
