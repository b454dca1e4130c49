------------------------------ MODULE PaidRoutes ------------------------------
(***************************************************************************)
(* The middlewares of X042 Core between the verifier and an application:   *)
(* one for all routes (express, koa, nextjs, nestjs), or one around each   *)
(* route (withX402 of koa and nextjs), which has a verifier and, without   *)
(* Redis, a store of signatures of its own. One payment is presented at    *)
(* several routes. How its signature expires is PaymentVerifier; here time *)
(* does not pass.                                                          *)
(*                                                                         *)
(* The application is told by onPaymentVerified and onPaymentFailed, which *)
(* may throw, as may its handler.                                          *)
(***************************************************************************)
EXTENDS Integers

CONSTANTS
    Calls,      \* requests that carry the payment
    Routes,
    MaxRestarts \* bound

RoutesAssumption == MaxRestarts \in Nat

VARIABLES
    framework,
    redis,      \* is there a redisUrl?
    remembered, \* stores that have the signature
    request,    \* each call: where it is, its route, and what it has come to: history
    bought,     \* history: how many calls each store has let pass
    overlapped, \* history: has a call begun before another was over?
    restarts

routesVars == <<framework, redis, remembered, request, bought, overlapped, restarts>>

Frameworks == {"express", "koa", "koaRoute", "next", "nextRoute", "nest"}
Answers == {"none", "served", "refused", "error"}
PCs == {"idle", "has", "fetch", "add", "invalid", "valid", "run", "caught", "over"}

\* where a route's signatures are remembered
StoreOf(r) == IF ~redis /\ framework \in {"koaRoute", "nextRoute"} THEN {r} ELSE Routes
Stores == {StoreOf(r) : r \in Routes}

TypeOK ==
    /\ framework \in Frameworks /\ redis \in BOOLEAN
    /\ remembered \subseteq Stores
    /\ request \in [Calls -> [pc : PCs, route : Routes, taken : BOOLEAN, verified : BOOLEAN,
                              failed : 0..2, answer : Answers]]
    /\ bought \in [Stores -> Nat]
    /\ overlapped \in BOOLEAN
    /\ restarts \in 0..MaxRestarts

Init ==
    /\ framework \in Frameworks /\ redis \in BOOLEAN
    /\ remembered = {}
    /\ request \in {[c \in Calls |-> [pc |-> "idle", route |-> r[c], taken |-> FALSE, verified |-> FALSE,
                                      failed |-> 0, answer |-> "none"]] : r \in [Calls -> Routes]}
    /\ bought = [s \in Stores |-> 0]
    /\ overlapped = FALSE
    /\ restarts = 0

At(c, pc) == request[c].pc = pc
Goto(c, pc) == request' = [request EXCEPT ![c].pc = pc]
Answer(c, answer) == [request EXCEPT ![c].pc = "over", ![c].answer = answer]
Own(c) == StoreOf(request[c].route)
kindVars == <<framework, redis>>

-----------------------------------------------------------------------------
\* A call without a payment is told what to pay; one that has it is verified.
Present(c) ==
    /\ At(c, "idle")
    /\ Goto(c, "has")
    /\ overlapped' = (overlapped \/ \E d \in Calls \ {c} : request[d].pc \notin {"idle", "over"})
    /\ UNCHANGED <<kindVars, remembered, bought, restarts>>

Has(c) ==
    /\ At(c, "has")
    /\ Goto(c, IF Own(c) \in remembered THEN "invalid" ELSE "fetch")
    /\ UNCHANGED <<kindVars, remembered, bought, overlapped, restarts>>

\* The transaction is on the chain and agrees with the payload, or is not, or does not.
Validate(c) ==
    /\ At(c, "fetch")
    /\ \E pc \in {"add", "invalid"} : Goto(c, pc)
    /\ UNCHANGED <<kindVars, remembered, bought, overlapped, restarts>>

Add(c) ==
    /\ At(c, "add")
    /\ remembered' = remembered \cup {Own(c)}
    /\ bought' = [bought EXCEPT ![Own(c)] = @ + 1]
    /\ request' = [request EXCEPT ![c].pc = "valid", ![c].taken = TRUE]
    /\ UNCHANGED <<kindVars, overlapped, restarts>>

\* Redis throws, before or after it has remembered the signature: the verifier refuses.
StoreThrows(c) ==
    /\ redis /\ request[c].pc \in {"has", "add"}
    /\ Goto(c, "invalid")
    /\ \/ UNCHANGED remembered
       \/ At(c, "add") /\ remembered' = remembered \cup {Own(c)}
    /\ UNCHANGED <<kindVars, bought, overlapped, restarts>>

\* What is in memory is forgotten; the calls under way get no answer.
Restart ==
    /\ restarts < MaxRestarts
    /\ restarts' = restarts + 1
    /\ remembered' = IF redis THEN remembered ELSE {}
    /\ request' = [c \in Calls |-> IF At(c, "idle") THEN request[c] ELSE [request[c] EXCEPT !.pc = "over"]]
    /\ UNCHANGED <<kindVars, bought, overlapped>>

-----------------------------------------------------------------------------
\* onPaymentFailed, within the try: if it throws, the call is caught like any other.
Refuse(c) ==
    /\ At(c, "invalid")
    /\ \/ request' = [Answer(c, "refused") EXCEPT ![c].failed = @ + 1]
       \/ request' = [request EXCEPT ![c].pc = "caught", ![c].failed = @ + 1]

\* onPaymentVerified
Confirm(c) ==
    /\ At(c, "valid")
    /\ \E pc \in {"run", "caught"} : request' = [request EXCEPT ![c].pc = pc, ![c].verified = TRUE]

\* The handler runs within the try, or after the middleware.
RunWithin(c) == At(c, "run") /\ (request' = Answer(c, "served") \/ Goto(c, "caught"))
RunAfter(c) == At(c, "run") /\ request' = Answer(c, "served")

\* onPaymentFailed, for whatever was caught, or only an answer
Caught(c) == At(c, "caught") /\ request' = [Answer(c, "error") EXCEPT ![c].failed = @ + 1]
CaughtSilently(c) == At(c, "caught") /\ request' = Answer(c, "error")

Express(c) ==
    framework = "express" /\ (Refuse(c) \/ Confirm(c) \/ RunAfter(c) \/ CaughtSilently(c))
Koa(c) ==
    framework = "koa" /\ (Refuse(c) \/ Confirm(c) \/ RunWithin(c) \/ Caught(c))
KoaRoute(c) ==
    framework = "koaRoute" /\ (Refuse(c) \/ Confirm(c) \/ RunWithin(c) \/ Caught(c))
NextJs(c) ==
    framework = "next" /\ (Refuse(c) \/ Confirm(c) \/ RunAfter(c) \/ Caught(c))
NextJsRoute(c) ==
    framework = "nextRoute" /\ (Refuse(c) \/ Confirm(c) \/ RunWithin(c) \/ Caught(c))
\* intercept returns next.handle(), which nobody has subscribed to yet. An HttpException, its
\* own refusal or a callback's, is passed on.
Nest(c) ==
    framework = "nest" /\ (Refuse(c) \/ Confirm(c) \/ RunAfter(c) \/ Caught(c) \/ CaughtSilently(c))

Middleware(c) ==
    /\ Express(c) \/ Koa(c) \/ KoaRoute(c) \/ NextJs(c) \/ NextJsRoute(c) \/ Nest(c)
    /\ UNCHANGED <<kindVars, remembered, bought, overlapped, restarts>>

Next ==
    \/ Restart
    \/ \E c \in Calls :
          Present(c) \/ Has(c) \/ Validate(c) \/ Add(c) \/ StoreThrows(c) \/ Middleware(c)

Spec == Init /\ [][Next]_routesVars
-----------------------------------------------------------------------------
\* signature-store.ts, behind the middlewares: calls that do not overlap buy one of them at
\* each store, so at each route if it has its own, and one more after a restart without Redis.
OncePerStore ==
    overlapped \/ \A s \in Stores : bought[s] <= 1 + (IF redis THEN 0 ELSE restarts)

\* koa.ts, nextjs.ts, nestjs, express.ts: an application that listens to both callbacks can
\* tell the calls whose payment was taken and which were not served: it was told that they
\* were verified and that they failed. Express keeps the second from it, and Nest when the
\* callback threw an HttpException. What was not taken is told as failed once, or again if
\* that has thrown.
ToldWhatBecame ==
    \A c \in Calls : LET r == request[c] IN r.answer # "none" =>
        /\ r.answer = "served" => r.taken /\ r.verified /\ r.failed = 0
        /\ r.taken <=> r.verified
        /\ r.answer # "served" /\ r.taken => r.failed \in (CASE framework = "express" -> {0}
                                                                 [] framework = "nest" -> 0..1
                                                                 [] OTHER -> {1})
        /\ ~r.taken => r.failed \in 1..2 /\ (r.failed = 2 => r.answer = "error")

RoutesSound == OncePerStore /\ ToldWhatBecame
=============================================================================
