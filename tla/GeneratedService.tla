--------------------------- MODULE GeneratedService ---------------------------
(***************************************************************************)
(* The life of a service that create-x402-service has generated and that   *)
(* registers itself: its main program and its registry client, one process *)
(* after the other, and what the registry says of the service's URL.       *)
(*                                                                         *)
(* The express template listens while it registers; fastify, nest, python  *)
(* (FastAPI under uvicorn) and go register first.  fastify and nest call   *)
(* heartbeat and setServiceStatus, which the client that they share with   *)
(* express does not have: that is caught, and nothing is sent.  Heartbeats *)
(* change nothing here.                                                    *)
(*                                                                         *)
(* The registry is this repository's, which takes the registration of      *)
(* express only and answers with the service itself, or the one that the   *)
(* clients expect, which answers with a serviceId.  Both refuse a URL that *)
(* is registered already.                                                  *)
(***************************************************************************)
EXTENDS Integers

CONSTANTS MaxLives, MaxFaults   \* bounds: processes, and calls that throw

GeneratedAssumption == MaxLives \in Nat /\ MaxFaults \in Nat

VARIABLES
    template,
    registry,
    phase,      \* of the process
    lives,      \* how many processes there have been
    known,      \* does the process know its serviceId?
    awaited,    \* the request whose answer it waits for
    reply,      \* that answer
    sent,       \* requests that the registry has yet to handle
    listed,     \* the status of the URL in the registry
    signalled,  \* has uvicorn been told to stop before it had started?
    abrupt,     \* history: has a process ended in a way that nobody could report, or a call thrown?
    faults

generatedVars == <<template, registry, phase, lives, known, awaited, reply, sent, listed,
                   signalled, abrupt, faults>>
kindVars == <<template, registry>>

Templates == {"express", "fastify", "nest", "python", "go"}
RegistersFirst == {"fastify", "nest", "python"}     \* and do not run without
Calls == {"none", "register", "pause"}
Request == [call : Calls \ {"none"}, life : 1..MaxLives]

TypeOK ==
    /\ template \in Templates /\ registry \in {"repository", "expected"}
    /\ phase \in {"down", "starting", "serving", "pausing", "closing"}
    /\ lives \in 0..MaxLives
    /\ known \in BOOLEAN /\ signalled \in BOOLEAN /\ abrupt \in BOOLEAN
    /\ awaited \in Calls /\ reply \in {"none", "id", "noId", "refused", "threw"}
    /\ sent \subseteq Request
    /\ listed \in {"none", "ACTIVE", "PAUSED"}
    /\ faults \in 0..MaxFaults

Init ==
    /\ template \in Templates /\ registry \in {"repository", "expected"}
    /\ phase = "down" /\ lives = 0
    /\ known = FALSE /\ awaited = "none" /\ reply = "none" /\ sent = {}
    /\ listed = "none"
    /\ signalled = FALSE /\ abrupt = FALSE /\ faults = 0

-----------------------------------------------------------------------------
\* The process begins: the registration is sent.
Begin(first) ==
    /\ phase = "down" /\ lives < MaxLives
    /\ lives' = lives + 1
    /\ phase' = first
    /\ known' = FALSE /\ awaited' = "register" /\ reply' = "none" /\ signalled' = FALSE
    /\ sent' = sent \cup {[call |-> "register", life |-> lives']}
    /\ UNCHANGED <<kindVars, listed, abrupt, faults>>

StartExpress == template = "express" /\ Begin("serving")
StartFastify == template = "fastify" /\ Begin("starting")
StartNest == template = "nest" /\ Begin("starting")
StartPython == template = "python" /\ Begin("starting")
StartGo == template = "go" /\ Begin("starting")
Start == StartExpress \/ StartFastify \/ StartNest \/ StartPython \/ StartGo

\* What becomes of the process once the registration is answered.
Taken == reply \in {"id", "noId"}
Answered(next) ==
    /\ awaited = "register" /\ reply # "none"
    /\ phase' = next
    /\ known' = (reply = "id" /\ next # "down")
    /\ awaited' = "none" /\ reply' = "none"
    /\ UNCHANGED <<kindVars, lives, sent, listed, signalled, faults>>

\* registerService throws: it is logged, and the server has been listening all along.
RegisteredExpress == template = "express" /\ Answered(phase) /\ UNCHANGED abrupt
\* start throws: process.exit(1), also when fastify has been closed in the meantime.
RegisteredFastify ==
    /\ template = "fastify"
    /\ Answered(IF phase = "starting" /\ Taken THEN "serving" ELSE "down")
    /\ UNCHANGED abrupt
\* onModuleInit throws, and bootstrap with it.
RegisteredNest ==
    /\ template = "nest"
    /\ Answered(IF phase = "closing" THEN phase ELSE IF Taken THEN "serving" ELSE "down")
    /\ UNCHANGED abrupt
\* The lifespan's first part throws, or uvicorn serves, unless it was told to stop.
RegisteredPython ==
    /\ template = "python"
    /\ Answered(IF Taken /\ ~signalled THEN "serving" ELSE "down")
    /\ abrupt' = (abrupt \/ signalled)
\* An error is logged, and an answer that refuses is read as one without a serviceId.
RegisteredGo == template = "go" /\ Answered("serving") /\ UNCHANGED abrupt
Registered ==
    RegisteredExpress \/ RegisteredFastify \/ RegisteredNest \/ RegisteredPython \/ RegisteredGo

-----------------------------------------------------------------------------
\* SIGTERM or SIGINT: what the registry is not told of is noted.
Leave(next) ==
    /\ phase' = next
    /\ IF next = "pausing"
       THEN /\ awaited' = "pause"
            /\ sent' = sent \cup {[call |-> "pause", life |-> lives]}
            /\ UNCHANGED abrupt
       ELSE abrupt' = (abrupt \/ ~known) /\ UNCHANGED <<awaited, sent>>
    /\ UNCHANGED <<kindVars, lives, known, reply, listed, signalled, faults>>

PauseOr(next) == IF known THEN "pausing" ELSE next

StopExpress == template = "express" /\ phase = "serving" /\ Leave(PauseOr("closing"))
StopFastify == template = "fastify" /\ phase \in {"starting", "serving"} /\ Leave("closing")
StopNest == template = "nest" /\ phase \in {"starting", "serving"} /\ Leave("closing")
StopPython == template = "python" /\ phase = "serving" /\ Leave(PauseOr("closing"))
StopGo == template = "go" /\ phase = "serving" /\ Leave(PauseOr("closing"))
\* uvicorn notes the signal while the lifespan begins.
StopPythonEarly ==
    /\ template = "python" /\ phase = "starting" /\ ~signalled
    /\ signalled' = TRUE
    /\ UNCHANGED <<kindVars, phase, lives, known, awaited, reply, sent, listed, abrupt, faults>>
Stop == StopExpress \/ StopFastify \/ StopNest \/ StopPython \/ StopGo \/ StopPythonEarly

\* The status has been updated or has not, which is logged.
Paused ==
    /\ phase = "pausing" /\ reply # "none"
    /\ phase' = "closing"
    /\ awaited' = "none" /\ reply' = "none"
    /\ UNCHANGED <<kindVars, lives, known, sent, listed, signalled, abrupt, faults>>

End(ended) ==
    /\ phase' = "down"
    /\ known' = FALSE /\ awaited' = "none" /\ reply' = "none" /\ signalled' = FALSE
    /\ abrupt' = ended
    /\ UNCHANGED <<kindVars, lives, sent, listed, faults>>

\* fastify.close does not end the process while start waits for the registry.
Close == phase = "closing" /\ ~(template = "fastify" /\ awaited = "register") /\ End(abrupt)

\* The process dies, as go does of a signal before it has registered.
Crash == phase # "down" /\ End(TRUE)

-----------------------------------------------------------------------------
\* The registry

Answer(m, a) ==
    /\ sent' = sent \ {m}
    /\ reply' = IF m.life = lives /\ awaited = m.call /\ reply = "none" THEN a ELSE reply

Takes == listed = "none" /\ (registry = "repository" => template = "express")

Register(m) ==
    /\ m \in sent /\ m.call = "register"
    /\ listed' = IF Takes THEN "ACTIVE" ELSE listed
    /\ Answer(m, IF ~Takes THEN "refused" ELSE IF registry = "expected" THEN "id" ELSE "noId")
    /\ UNCHANGED <<kindVars, phase, lives, known, awaited, signalled, abrupt, faults>>

SetStatus(m) ==
    /\ m \in sent /\ m.call = "pause"
    /\ listed' = "PAUSED"
    /\ Answer(m, "noId")
    /\ UNCHANGED <<kindVars, phase, lives, known, awaited, signalled, abrupt, faults>>

\* A call throws; its request is lost, or is handled later.
Throw ==
    /\ faults < MaxFaults
    /\ awaited # "none" /\ reply = "none"
    /\ reply' = "threw" /\ faults' = faults + 1 /\ abrupt' = TRUE
    /\ sent' \in {sent, sent \ {[call |-> awaited, life |-> lives]}}
    /\ UNCHANGED <<kindVars, phase, lives, known, awaited, listed, signalled>>

Next ==
    \/ Start \/ Registered \/ Stop \/ Paused \/ Close \/ Crash \/ Throw
    \/ \E m \in sent : Register(m) \/ SetStatus(m)

Spec == Init /\ [][Next]_generatedVars
-----------------------------------------------------------------------------
\* app.module.ts, main.py, fastify's index.ts: what cannot run without its registration is
\* listed as active while it serves, however earlier processes have ended.  index.ts of
\* express, main.go: so is one that knows its id; one that serves while it is listed as paused
\* was stopped before, was refused when it registered again, and cannot change that.
ListedWhileServing ==
    phase = "serving" =>
        /\ template \in RegistersFirst \/ known => listed = "ACTIVE"
        /\ listed = "PAUSED" => ~known /\ lives > 1

\* index.ts, main.go, main.py: a service that has stopped is not left listed as active, unless
\* a process was ended before it knew its id or otherwise could not tell, or its client cannot.
LeftPaused ==
    phase = "down" /\ listed = "ACTIVE" /\ sent = {} =>
        abrupt \/ registry = "repository" \/ template \in {"fastify", "nest"}

ListingSound == ListedWhileServing /\ LeftPaused
=============================================================================
