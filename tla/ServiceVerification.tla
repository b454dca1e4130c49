------------------------ MODULE ServiceVerification ------------------------
(***************************************************************************)
(* The verifications of one service, services/verification.ts of the       *)
(* registry API: each writes a row, runs on its own, judges what the       *)
(* service answers and writes the verdict; what has passed expires, and is *)
(* verified again by a scheduled pass.  Nobody waits for a run, so one     *)
(* that a restart cuts off leaves its row IN_PROGRESS.                     *)
(***************************************************************************)
EXTENDS Integers, FiniteSets

CONSTANTS
    Verifications,  \* rows, in the order of their creation: 1..n
    Answers,        \* what the service answers in one verification, see Answer
    MaxFaults       \* bound: restarts and exceptions of the database

VARIABLES
    verification,   \* the rows
    visaTapVerified,    \* of the Service row
    runner,         \* runVerification, for each row
    sweep,          \* scheduleReverifications: the rows that it has found and not come to
    proven,         \* history: has the service once answered as Visa TAP asks for?
    verificationFaults

verificationVars == <<verification, visaTapVerified, runner, sweep, proven, verificationFaults>>

Type == {"SECURITY_AUDIT", "PERFORMANCE_TEST", "COMPLIANCE_CHECK", "VISA_TAP"}
NoVerification == [type |-> "NONE", status |-> "NONE", expires |-> "never"]

\* vulnerable: of a high or critical severity; time: of one request, in milliseconds, and
\* lost: how many of fifty are not answered; requirements: what comes with status 402
Answer == [up: BOOLEAN, vulnerable: BOOLEAN, time: Nat, lost: 0..50,
           requirements: {"none", "incomplete", "structured", "valid"},
           rateLimited: BOOLEAN, authenticated: BOOLEAN, openApi: BOOLEAN]
VerificationAssumption == Answers \subseteq Answer /\ Verifications \subseteq Nat

TypeOK ==
    /\ verification \in [Verifications ->
          [type: Type \cup {"NONE"}, status: {"NONE", "IN_PROGRESS", "PASSED", "FAILED"},
           expires: {"never", "later", "over"}]]
    /\ visaTapVerified \in BOOLEAN /\ proven \in BOOLEAN
    /\ runner \in [Verifications -> {"idle", "check", "pass", "fail", "read", "expire", "flag", "catch"}]
    /\ sweep \subseteq Verifications
    /\ verificationFaults \in 0..MaxFaults

Init ==
    /\ verification = [v \in Verifications |-> NoVerification]
    /\ visaTapVerified = FALSE /\ proven = FALSE
    /\ runner = [v \in Verifications |-> "idle"]
    /\ sweep = {}
    /\ verificationFaults = 0

-----------------------------------------------------------------------------
\* The checks

\* performSecurityScan
Secure(a) == a.up /\ ~a.vulnerable

\* performPerformanceTest: a request that is lost counts for ten seconds.
Performs(a) ==
    /\ a.lost * 10000 + (50 - a.lost) * a.time < 50 * 1000
    /\ (IF a.lost > 2 THEN 10000 ELSE a.time) < 2000
    /\ 100 * (50 - a.lost) >= 95 * 50

\* performComplianceCheck
Complies(a) ==
    LET paywall == a.requirements \in {"structured", "valid"}
        more == Cardinality({f \in {"rateLimited", "authenticated", "openApi"} : a[f]})
    IN  a.up /\ paywall /\ more >= 1

\* verifyVisaTapCompliance
ServesVisaTap(a) == a.up /\ a.requirements = "valid"

Passed(type, a) ==
    CASE type = "SECURITY_AUDIT" -> Secure(a)
      [] type = "PERFORMANCE_TEST" -> Performs(a)
      [] type = "COMPLIANCE_CHECK" -> Complies(a)
      [] type = "VISA_TAP" -> ServesVisaTap(a)

-----------------------------------------------------------------------------
\* initiateVerification and runVerification

Run(v, from, to) == runner[v] = from /\ runner' = [runner EXCEPT ![v] = to]
Write(v, field, value) == verification' = [verification EXCEPT ![v][field] = value]

\* The next row is created, and its run started.
Create(v, type) ==
    /\ verification[v] = NoVerification
    /\ \A u \in Verifications : u < v => verification[u] # NoVerification
    /\ verification' = [verification EXCEPT ![v] = [type |-> type, status |-> "IN_PROGRESS",
                                                    expires |-> "never"]]
    /\ Run(v, "idle", "check")

Initiate(v, type) ==
    /\ Create(v, type)
    /\ UNCHANGED <<visaTapVerified, sweep, proven, verificationFaults>>

Check(v) ==
    /\ \E a \in Answers :
          /\ Run(v, "check", IF Passed(verification[v].type, a) THEN "pass" ELSE "fail")
          /\ proven' = (proven \/ ServesVisaTap(a))
    /\ UNCHANGED <<verification, visaTapVerified, sweep, verificationFaults>>

WriteVerdict(v) ==
    /\ \/ Run(v, "pass", "read") /\ Write(v, "status", "PASSED")
       \/ Run(v, "fail", "idle") /\ Write(v, "status", "FAILED")
    /\ UNCHANGED <<visaTapVerified, sweep, proven, verificationFaults>>

\* updateServiceVerificationStatus
ReadVerdict(v) ==
    /\ Run(v, "read", IF verification[v].status = "PASSED" THEN "expire" ELSE "idle")
    /\ UNCHANGED <<verification, visaTapVerified, sweep, proven, verificationFaults>>

SetExpiryAndFlag(v) ==
    /\ Run(v, "expire", "flag")
    /\ Write(v, "expires", "later")
    /\ UNCHANGED <<visaTapVerified, sweep, proven, verificationFaults>>

\* in ninety days
SetExpiry(v) ==
    /\ Run(v, "expire", IF verification[v].type = "VISA_TAP" THEN "flag" ELSE "idle")
    /\ Write(v, "expires", "later")
    /\ UNCHANGED <<visaTapVerified, sweep, proven, verificationFaults>>

\* Nothing sets it back.
SetVisaTapVerified(v) ==
    /\ Run(v, "flag", "idle")
    /\ visaTapVerified' = TRUE
    /\ UNCHANGED <<verification, sweep, proven, verificationFaults>>

Catch(v) ==
    /\ Run(v, "catch", "idle")
    /\ Write(v, "status", "FAILED")
    /\ UNCHANGED <<visaTapVerified, sweep, proven, verificationFaults>>

-----------------------------------------------------------------------------
\* scheduleReverifications

Due == {v \in Verifications : verification[v].status = "PASSED" /\ verification[v].expires = "over"}

Find ==
    /\ sweep = {} /\ Due # {}
    /\ sweep' = Due
    /\ UNCHANGED <<verification, visaTapVerified, runner, proven, verificationFaults>>

\* What has expired stays as it is, and is found by every pass.
Reverify(v) ==
    /\ \E u \in sweep : sweep' = sweep \ {u} /\ Create(v, verification[u].type)
    /\ UNCHANGED <<visaTapVerified, proven, verificationFaults>>

Expire(v) ==
    /\ verification[v].expires = "later"
    /\ Write(v, "expires", "over")
    /\ UNCHANGED <<visaTapVerified, runner, sweep, proven, verificationFaults>>

-----------------------------------------------------------------------------
Fault == verificationFaults < MaxFaults /\ verificationFaults' = verificationFaults + 1

\* The database throws, before or after it has done what it was asked for, and
\* runVerification calls the verification failed. When that throws, the process ends.
Throw(v) ==
    /\ runner[v] \notin {"idle", "check", "catch"}
    /\ Fault
    /\ runner' = [runner EXCEPT ![v] = "catch"]
    /\ \/ UNCHANGED <<verification, visaTapVerified>>
       \/ /\ runner[v] = "expire"
          /\ Write(v, "expires", "later")
          /\ UNCHANGED visaTapVerified
       \/ /\ runner[v] = "flag"
          /\ visaTapVerified' = TRUE
          /\ UNCHANGED verification
    /\ UNCHANGED <<sweep, proven>>

Restart ==
    /\ Fault
    /\ runner' = [v \in Verifications |-> "idle"]
    /\ sweep' = {}
    /\ UNCHANGED <<verification, visaTapVerified, proven>>

Next ==
    \/ \E v \in Verifications :
          \/ \E type \in Type : Initiate(v, type)
          \/ Check(v) \/ WriteVerdict(v) \/ ReadVerdict(v) \/ SetExpiry(v) \/ SetVisaTapVerified(v)
          \/ Catch(v) \/ Reverify(v) \/ Expire(v) \/ Throw(v)
    \/ Find
    \/ Restart

Spec == Init /\ [][Next]_verificationVars
-----------------------------------------------------------------------------
\* Whatever throws or is cut off: a service is called Visa TAP verified only after it once
\* answered as Visa TAP asks for; and where nothing has, a verification whose run is over
\* has its verdict, with an expiry when it has passed, and a service that has passed for
\* Visa TAP is called so.
VerifiedWasProven ==
    /\ visaTapVerified => proven
    /\ verificationFaults = 0 => \A v \in Verifications : runner[v] = "idle" =>
          /\ verification[v].status # "IN_PROGRESS"
          /\ (verification[v].status = "PASSED") = (verification[v].expires # "never")
          /\ verification[v].status = "PASSED" /\ verification[v].type = "VISA_TAP" =>
                visaTapVerified
=============================================================================
