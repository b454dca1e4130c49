---------------------------- MODULE ReasoningProofs ----------------------------
(***************************************************************************)
(* What an execution promises, for plans of any number of steps, whatever  *)
(* their dependencies, and any number of attempts; and what the workflow   *)
(* manager promises, for any number of requests and any faults.            *)
(*                                                                         *)
(* TypeOK, OrderKept and BillExact are not inductive.  What makes them so  *)
(* is where the steps of a plan are while it is executed: those behind it  *)
(* (sorted) depend on each other only, nothing but them and the current    *)
(* level has begun, and what runs is in that level's part still to do;     *)
(* and what a step may have paid at each point of its retries.             *)
(*                                                                         *)
(* Then one part of MCReasoning after the other: where it begins, what its *)
(* steps keep, and the promise that follows from it.                       *)
(***************************************************************************)
EXTENDS MCReasoning, SumTheorems, FiniteSetTheorems, SequenceTheorems, WellFoundedInduction, TLAPS

\* What a step has paid for, by where it is
Billed(step) ==
    /\ step.pc = "none" => step.attempts = 0 /\ step.paid = 0 /\ step.cost = 0
    /\ step.pc # "none" => step.attempts \in 1..MaxAttempts
    /\ step.pc \in {"calling", "paying"} => step.cost = 0 /\ step.paid < step.attempts
    /\ step.pc = "paid" => step.cost = 0 /\ step.paid \in 1..step.attempts
    /\ step.pc = "waiting" =>
          step.cost = 0 /\ step.paid <= step.attempts /\ step.attempts < MaxAttempts
    /\ step.pc = "done" => step.paid - step.cost \in 0..(step.attempts - 1)
    /\ step.pc = "failed" => step.cost = 0 /\ step.paid <= step.attempts

Answered(s) == call[s].pc \in {"done", IF s \in plan.parallel THEN "failed" ELSE "none"}

\* The steps behind it depend on each other, and their calls are over.
Behind == \A s \in sorted : DependsOn(plan.deps, s) \subseteq sorted /\ Answered(s)

\* Nothing else has begun but steps of the current level; those that are not still to
\* do are over.
Ahead ==
    /\ \A s \in Steps : Begun(s) => s \in sorted \cup CurrentLevel
    /\ \A s \in Steps \ level : Begun(s) => Over(s)

\* The level by where execute is
Levelled ==
    /\ level \subseteq CurrentLevel
    /\ pc \in {"starting", "levels"} => level = {} /\ \A s \in Steps \ sorted : ~Begun(s)
    /\ pc = "parallel" => level = Parallel /\ \A s \in CurrentLevel \ level : ~Begun(s)
    /\ pc = "sequential" => /\ \A s \in CurrentLevel \ level : call[s].pc = "done"
                            /\ \A s, t \in level : Begun(s) /\ Begun(t) => s = t
    /\ pc \notin {"sequential", "parallel"} => \A s \in level : ~Begun(s)

IInv ==
    /\ TypeOK
    /\ \A s \in Steps : Billed(call[s])
    /\ total = Cost(Steps \ level)
    /\ Behind /\ Ahead /\ Levelled

-----------------------------------------------------------------------------
\* The in-degree of topologicalSort is zero only when every dependency has been
\* removed, whatever duplicates and unknown ids the sequence has.
LEMMA InDegreeZero ==
    ASSUME NEW deps, NEW s, NEW removed, deps[s] \in Seq(DependsOn(deps, s)),
           InDegree(deps, s, removed) = 0
    PROVE  DependsOn(deps, s) \subseteq removed
<1> DEFINE q == deps[s]
           R == DependsOn(deps, s)
<1>1. q \in [1..Len(q) -> R] /\ Len(q) \in Nat
  BY LenProperties
<1>2. R = {q[x] : x \in 1..Len(q)}
  BY <1>1 DEF DependsOn, Range
<1>3. q \in Surjection(1..Len(q), R)
  BY <1>1, <1>2 DEF Surjection
<1>4. IsFiniteSet(1..Len(q)) /\ Cardinality(1..Len(q)) = Len(q)
  <2>1. \A n \in Nat : IsFiniteSet(1..n) /\ Cardinality(1..n) = n
    BY FS_Interval
  <2> QED
    BY <1>1, <2>1
<1>5. IsFiniteSet(R) /\ Cardinality(R) <= Len(q)
  BY <1>3, <1>4, FS_Surjection
<1>6. removed \cap R \in SUBSET R
  OBVIOUS
<1> HIDE DEF R
<1>7. /\ IsFiniteSet(removed \cap R) /\ Cardinality(removed \cap R) <= Cardinality(R)
      /\ Cardinality(R) = Cardinality(removed \cap R) => R = removed \cap R
  BY <1>5, <1>6, FS_Subset
<1>8. Cardinality(R) \in Nat /\ Cardinality(removed \cap R) \in Nat
  BY <1>5, <1>7, FS_CardinalityType
<1>9. Cardinality(removed \cap R) = Len(q)
  BY <1>1, <1>8 DEF InDegree, R
<1>10. R = removed \cap R
  BY <1>5, <1>7, <1>8, <1>9, <1>1
<1> QED
  BY <1>10 DEF R

\* The current level is ahead, and depends on what is behind.
LEMMA LevelFacts ==
    ASSUME PlanAssumption, IInv
    PROVE  /\ CurrentLevel \subseteq Steps \ sorted
           /\ \A s \in CurrentLevel : DependsOn(plan.deps, s) \subseteq sorted
<1>1. CurrentLevel \subseteq Steps \ sorted
  BY DEF CurrentLevel, NextLevel, Steps
<1>2. ASSUME NEW s \in CurrentLevel
      PROVE  DependsOn(plan.deps, s) \subseteq sorted
  <2>1. s \in DOMAIN plan.deps /\ InDegree(plan.deps, s, sorted) = 0
    BY DEF CurrentLevel, NextLevel
  <2>2. plan.deps[s] \in Seq(DependsOn(plan.deps, s))
    BY <2>1 DEF PlanAssumption, IInv, TypeOK, DependsOn
  <2> QED
    BY <2>1, <2>2, InDegreeZero
<1> QED
  BY <1>1, <1>2

LEMMA FiniteSteps ==
    ASSUME PlanAssumption, TypeOK
    PROVE  \A S : S \subseteq Steps =>
              IsFiniteSet({s \in S : call[s].cost = 1}) /\ Cost(S) \in Nat
<1> SUFFICES ASSUME NEW S, S \subseteq Steps
             PROVE  IsFiniteSet({s \in S : call[s].cost = 1}) /\ Cost(S) \in Nat
  OBVIOUS
<1>1. IsFiniteSet(Steps)
  BY DEF PlanAssumption, TypeOK, Steps
<1>2. {s \in S : call[s].cost = 1} \in SUBSET Steps
  OBVIOUS
<1>3. IsFiniteSet({s \in S : call[s].cost = 1})
  BY <1>1, <1>2, FS_Subset
<1> QED
  BY <1>3, FS_CardinalityType DEF Cost

\* The costs of two parts add up.
LEMMA CostUnion ==
    ASSUME PlanAssumption, TypeOK, NEW S \in SUBSET Steps, NEW T \in SUBSET Steps,
           S \cap T = {}
    PROVE  Cost(S \cup T) = Cost(S) + Cost(T)
<1> DEFINE P(U) == {s \in U : call[s].cost = 1}
<1>1. IsFiniteSet(P(S)) /\ IsFiniteSet(P(T)) /\ Cost(S) \in Nat /\ Cost(T) \in Nat
  BY FiniteSteps
<1>2. P(S \cup T) = P(S) \cup P(T)
  OBVIOUS
<1>3. P(S) \cap P(T) = {}
  OBVIOUS
<1>4. Cost(S \cup T) = Cardinality(P(S \cup T)) /\ Cost(S) = Cardinality(P(S))
      /\ Cost(T) = Cardinality(P(T))
  BY DEF Cost
<1> HIDE DEF P
<1>5. Cardinality({}) = 0
  BY FS_EmptySet
<1>6. Cardinality(P(S) \cup P(T)) = Cardinality(P(S)) + Cardinality(P(T)) - Cardinality({})
  BY <1>1, <1>3, FS_Union
<1> QED
  <2> DEFINE s == Cost(S)
             t == Cost(T)
  <2>1. Cost(S \cup T) = s + t - 0
    BY <1>2, <1>4, <1>5, <1>6, Zenon
  <2>2. s \in Nat /\ t \in Nat
    BY <1>1
  <2> HIDE DEF s, t
  <2>3. s + t - 0 = s + t
    BY <2>2
  <2> QED
    BY <2>1, <2>3 DEF s, t

\* What none of the steps has cost is nothing.
LEMMA CostNothing ==
    ASSUME NEW S, \A s \in S : call[s].cost = 0
    PROVE  Cost(S) = 0
<1>1. {s \in S : call[s].cost = 1} = {}
  OBVIOUS
<1> QED
  BY <1>1, FS_EmptySet DEF Cost

-----------------------------------------------------------------------------
\* What one call does to a step's bill

LEMMA ThrownBilled ==
    ASSUME PlanAssumption, NEW step \in Call, step.cost = 0, step.attempts \in 1..MaxAttempts,
           step.paid <= step.attempts
    PROVE  Thrown(step) \in Call /\ Billed(Thrown(step)) /\ Thrown(step).pc # "none"
<1> DEFINE to == IF step.attempts < MaxAttempts THEN "waiting" ELSE "failed"
           r == [step EXCEPT !.pc = to]
<1>1. to \in {"waiting", "failed"} /\ (to = "waiting" => step.attempts < MaxAttempts)
  OBVIOUS
<1> HIDE DEF to
<1>2. /\ r \in Call /\ r.pc = to /\ r.attempts = step.attempts /\ r.paid = step.paid
      /\ r.cost = step.cost
  BY <1>1 DEF Call
<1>3. Thrown(step) = r
  BY DEF Thrown, to
<1> HIDE DEF r
<1>4. Billed(r)
  BY <1>1, <1>2 DEF Billed
<1> QED
  BY <1>1, <1>2, <1>3, <1>4

LEMMA CallBilled ==
    ASSUME PlanAssumption, IInv, NEW s \in Steps, StepCall(s)
    PROVE  \E step \in Call : Goto(s, step) /\ Billed(step) /\ step.pc # "none"
<1> DEFINE c == call[s]
<1>1. c \in Call /\ Billed(c)
  BY DEF IInv, TypeOK
<1>2. c.attempts \in Nat /\ c.paid \in Nat /\ c.cost \in {0, 1} /\ MaxAttempts \in Nat \ {0}
  BY <1>1 DEF Call, PlanAssumption
<1>3. CASE FirstPost(s)
  <2>1. /\ c.pc = "calling" /\ c.cost = 0 /\ c.attempts \in 1..MaxAttempts
        /\ c.paid < c.attempts
    BY <1>1, <1>3 DEF FirstPost, Billed
  <2>2. ASSUME NEW to \in {"done", "paying"}
        PROVE  [c EXCEPT !.pc = to] \in Call /\ Billed([c EXCEPT !.pc = to])
               /\ [c EXCEPT !.pc = to].pc # "none"
    <3> DEFINE r == [c EXCEPT !.pc = to]
    <3>1. /\ r \in Call /\ r.pc = to /\ r.attempts = c.attempts /\ r.paid = c.paid
          /\ r.cost = c.cost
      BY <1>1 DEF Call
    <3> HIDE DEF r, c
    <3>2. Billed(r)
      BY <3>1, <2>1, <1>2 DEF Billed
    <3> QED
      BY <3>1, <3>2 DEF r
  <2>3. Thrown(c) \in Call /\ Billed(Thrown(c)) /\ Thrown(c).pc # "none"
    BY <1>1, <1>2, <2>1, ThrownBilled
  <2> QED
    BY <1>3, <2>2, <2>3 DEF FirstPost
<1>4. CASE Pay(s)
  <2>1. /\ c.pc = "paying" /\ c.cost = 0 /\ c.attempts \in 1..MaxAttempts
        /\ c.paid < c.attempts
    BY <1>1, <1>4 DEF Pay, Billed
  <2> DEFINE d == PaidOnce(c)
             r == [d EXCEPT !.pc = "paid"]
  <2>2. d \in Call /\ d.attempts = c.attempts /\ d.paid = c.paid + 1 /\ d.cost = 0
    BY <1>1, <1>2, <2>1 DEF Call, PaidOnce
  <2> HIDE DEF d
  <2>3. /\ r \in Call /\ r.pc = "paid" /\ r.attempts = d.attempts /\ r.paid = d.paid
        /\ r.cost = d.cost
    BY <2>2 DEF Call
  <2>4. Thrown(c) \in Call /\ Billed(Thrown(c)) /\ Thrown(c).pc # "none"
    BY <1>1, <1>2, <2>1, ThrownBilled
  <2>5. Thrown(d) \in Call /\ Billed(Thrown(d)) /\ Thrown(d).pc # "none"
    BY <1>2, <2>1, <2>2, ThrownBilled
  <2>6. \E step \in {r, Thrown(c), Thrown(d)} : Goto(s, step)
    BY <1>4 DEF Pay, d
  <2> HIDE DEF r, c
  <2>7. Billed(r)
    BY <1>2, <2>1, <2>2, <2>3 DEF Billed
  <2> QED
    BY <2>3, <2>4, <2>5, <2>6, <2>7
<1>5. CASE SecondPost(s)
  <2>1. /\ c.pc = "paid" /\ c.cost = 0 /\ c.attempts \in 1..MaxAttempts
        /\ c.paid \in 1..c.attempts
    BY <1>1, <1>5 DEF SecondPost, Billed
  <2> DEFINE r == [c EXCEPT !.pc = "done", !.cost = 1]
  <2>2. /\ r \in Call /\ r.pc = "done" /\ r.attempts = c.attempts /\ r.paid = c.paid
        /\ r.cost = 1
    BY <1>1 DEF Call
  <2>3. Thrown(c) \in Call /\ Billed(Thrown(c)) /\ Thrown(c).pc # "none"
    BY <1>1, <1>2, <2>1, ThrownBilled
  <2>4. \E step \in {r, Thrown(c)} : Goto(s, step)
    BY <1>5 DEF SecondPost
  <2> HIDE DEF r, c
  <2>5. Billed(r)
    BY <1>2, <2>1, <2>2 DEF Billed
  <2> QED
    BY <2>2, <2>3, <2>4, <2>5
<1>6. CASE Retry(s)
  <2>1. /\ c.pc = "waiting" /\ c.cost = 0 /\ c.paid <= c.attempts /\ c.attempts < MaxAttempts
        /\ c.attempts \in 1..MaxAttempts
    BY <1>1, <1>6 DEF Retry, Billed
  <2> DEFINE e == [c EXCEPT !.pc = "calling"]
             n == c.attempts + 1
             r == [e EXCEPT !.attempts = n]
  <2>A. e \in Call /\ e.pc = "calling" /\ e.paid = c.paid /\ e.cost = 0
        /\ e.attempts = c.attempts
    BY <1>1, <2>1 DEF Call
  <2>B. n \in Nat
    BY <1>2
  <2>C. [c EXCEPT !.pc = "calling", !.attempts = @ + 1] = r
    BY <1>1 DEF Call
  <2> HIDE DEF e, n
  <2>2. /\ r \in Call /\ r.pc = "calling" /\ r.attempts = n /\ r.paid = c.paid
        /\ r.cost = 0
    BY <2>A, <2>B DEF Call
  <2>3. Goto(s, r)
    BY <1>6, <2>C DEF Retry
  <2> HIDE DEF r, c
  <2>4. Billed(r)
    BY <1>2, <2>1, <2>2 DEF Billed, n
  <2> QED
    BY <2>2, <2>3, <2>4
<1> QED
  BY <1>3, <1>4, <1>5, <1>6 DEF StepCall

-----------------------------------------------------------------------------
\* The steps of Next

\* Only where execute is changes, and it is in no level.
LEMMA PcStep ==
    ASSUME PlanAssumption, IInv, UNCHANGED <<plan, sorted, level, call, total>>,
           pc \notin {"sequential", "parallel"}, pc' \in PC \ {"sequential", "parallel"},
           pc' \in {"starting", "levels"} => pc = "starting"
    PROVE  IInv'
<1>1. Steps' = Steps /\ CurrentLevel' = CurrentLevel /\ Parallel' = Parallel
  BY DEF Steps, CurrentLevel, Parallel
<1>2. TypeOK' /\ (\A s \in Steps : Billed(call[s]))'
  BY <1>1 DEF IInv, TypeOK
<1>3. (total = Cost(Steps \ level))'
  BY <1>1 DEF IInv, Cost
<1>4. Behind' /\ Ahead'
  BY <1>1 DEF IInv, Behind, Ahead, Answered, Begun, Over
<1>5. Levelled'
  BY <1>1 DEF IInv, Levelled, Begun
<1> QED
  BY <1>2, <1>3, <1>4, <1>5 DEF IInv

\* A step of the level begins or goes on.
LEMMA CallStep ==
    ASSUME PlanAssumption, IInv, NEW s \in level, NEW step \in Call, Billed(step),
           step.pc # "none", pc \in {"sequential", "parallel"},
           pc = "sequential" => Begun(s) \/ \A t \in level : ~Begun(t),
           UNCHANGED <<plan, pc, sorted, level, total>>, call' = [call EXCEPT ![s] = step]
    PROVE  IInv'
<1>1. Steps' = Steps /\ CurrentLevel' = CurrentLevel /\ Parallel' = Parallel
  BY DEF Steps, CurrentLevel, Parallel
<1>2. s \in CurrentLevel /\ s \in Steps /\ s \notin sorted
  BY LevelFacts DEF IInv, Levelled
<1>3. \A t \in Steps : call'[t] = IF t = s THEN step ELSE call[t]
  BY <1>2 DEF IInv, TypeOK
<1>4. TypeOK'
  BY <1>1, <1>2 DEF IInv, TypeOK
<1>5. (\A t \in Steps : Billed(call[t]))'
  BY <1>1, <1>3 DEF IInv
<1>6. (total = Cost(Steps \ level))'
  <2>1. {t \in Steps \ level : call'[t].cost = 1} = {t \in Steps \ level : call[t].cost = 1}
    BY <1>3
  <2>2. Cost(Steps \ level)' = Cost(Steps \ level)
    BY <1>1, <2>1 DEF Cost
  <2> QED
    BY <1>1, <2>2 DEF IInv
<1>7. Behind'
  BY <1>1, <1>2, <1>3 DEF IInv, TypeOK, Behind, Answered
<1>8. Ahead'
  BY <1>1, <1>2, <1>3 DEF IInv, TypeOK, Ahead, Begun, Over
<1>9. Levelled'
  <2>1. CurrentLevel \subseteq Steps
    BY LevelFacts
  <2> QED
    BY <1>1, <1>2, <1>3, <2>1 DEF IInv, Levelled, Begun
<1> QED
  BY <1>4, <1>5, <1>6, <1>7, <1>8, <1>9 DEF IInv

\* A step that is going on is one of the level's.
LEMMA Running ==
    ASSUME IInv, NEW s \in Steps, Begun(s), ~Over(s)
    PROVE  s \in level /\ pc \in {"sequential", "parallel"}
BY DEF IInv, Ahead, Levelled

LEMMA StepCallKeeps ==
    ASSUME PlanAssumption, IInv, NEW s \in Steps, StepCall(s)
    PROVE  IInv'
<1>1. Begun(s) /\ ~Over(s)
  BY DEF StepCall, FirstPost, Pay, SecondPost, Retry, Begun, Over
<1>2. s \in level /\ pc \in {"sequential", "parallel"}
  BY <1>1, Running
<1>3. PICK step \in Call : Goto(s, step) /\ Billed(step) /\ step.pc # "none"
  BY CallBilled
<1> QED
  BY <1>1, <1>2, <1>3, CallStep DEF Goto

LEMMA BeginStepKeeps ==
    ASSUME PlanAssumption, IInv, NEW s \in Steps, BeginStep(s)
    PROVE  IInv'
<1> DEFINE c == call[s]
           e == [c EXCEPT !.pc = "calling"]
           r == [e EXCEPT !.attempts = 1]
<1>1. c \in Call /\ c.pc = "none" /\ c.paid = 0 /\ c.cost = 0
  BY DEF IInv, TypeOK, Billed, BeginStep, Begun
<1>2. call' = [call EXCEPT ![s] = r]
  BY DEF BeginStep, IInv, TypeOK
<1> HIDE DEF c
<1>3. e \in Call /\ e.pc = "calling" /\ e.paid = 0 /\ e.cost = 0
  BY <1>1 DEF Call
<1> HIDE DEF e
<1>4. r \in Call /\ r.pc = "calling" /\ r.paid = 0 /\ r.cost = 0 /\ r.attempts = 1
  BY <1>3 DEF Call
<1> HIDE DEF r
<1>5. Billed(r)
  BY <1>4 DEF Billed, PlanAssumption
<1> QED
  BY <1>2, <1>4, <1>5, CallStep DEF BeginStep

\* None of a new level's steps has begun, and so none has cost anything.
LEMMA BeginLevelKeeps ==
    ASSUME PlanAssumption, IInv, BeginLevel
    PROVE  IInv'
<1> DEFINE n == [NotCalled EXCEPT !.pc = "calling"]
           started == [n EXCEPT !.attempts = 1]
<1>1. /\ n \in Call /\ n.pc = "calling" /\ n.paid = 0 /\ n.cost = 0
      /\ [NotCalled EXCEPT !.pc = "calling", !.attempts = 1] = started
  BY DEF NotCalled, Call
<1> HIDE DEF n
<1>2. started \in Call /\ Billed(started) /\ started.pc = "calling" /\ started.cost = 0
  <2>1. /\ started \in Call /\ started.pc = "calling" /\ started.attempts = 1
        /\ started.paid = 0 /\ started.cost = 0
    BY <1>1 DEF Call
  <2> HIDE DEF started
  <2> QED
    BY <2>1 DEF Billed, PlanAssumption
<1> HIDE DEF started
<1>3. Steps' = Steps /\ CurrentLevel' = CurrentLevel /\ Parallel' = Parallel
  BY DEF Steps, CurrentLevel, Parallel, BeginLevel
<1>4. /\ CurrentLevel \subseteq Steps \ sorted /\ Parallel \subseteq CurrentLevel
      /\ UNCHANGED <<plan, sorted, total>> /\ level = {} /\ sorted \subseteq Steps
      /\ \A s \in CurrentLevel : ~Begun(s)
  BY LevelFacts DEF Parallel, BeginLevel, IInv, TypeOK, Levelled
<1>5. \/ /\ pc' = "parallel" /\ level' = Parallel
         /\ call' = [s \in Steps |-> IF s \in Parallel THEN started ELSE call[s]]
      \/ pc' = "sequential" /\ level' = CurrentLevel /\ call' = call
  BY <1>1 DEF BeginLevel
<1>6. /\ call' \in [Steps -> Call]
      /\ \A s \in Steps : \/ call'[s] = call[s]
                          \/ s \in level' /\ call'[s] = started /\ pc' = "parallel"
  BY <1>2, <1>5 DEF IInv, TypeOK
<1>7. level' \subseteq CurrentLevel
  BY <1>4, <1>5
<1>8. TypeOK'
  BY <1>3, <1>4, <1>5, <1>6, <1>7 DEF IInv, TypeOK, PC
<1>9. (\A s \in Steps : Billed(call[s]))'
  BY <1>2, <1>3, <1>6 DEF IInv
<1>10. (total = Cost(Steps \ level))'
  <2>1. \A s \in level' : call[s].cost = 0
    BY <1>4, <1>7 DEF IInv, Billed, Begun
  <2>2. {s \in Steps \ level' : call'[s].cost = 1} = {s \in Steps : call[s].cost = 1}
    BY <1>2, <1>6, <1>7, <1>4, <2>1
  <2>3. Cost(Steps \ level)' = Cost(Steps \ level)
    BY <1>3, <1>4, <2>2 DEF Cost
  <2> QED
    BY <1>4, <2>3 DEF IInv
<1>11. Behind'
  BY <1>3, <1>4, <1>6, <1>7 DEF IInv, TypeOK, Behind, Answered
<1>12. Ahead'
  BY <1>2, <1>3, <1>4, <1>6, <1>7 DEF IInv, TypeOK, Ahead, Begun, Over
<1>13. Levelled'
  <2>1. CASE pc' = "parallel"
    <3>1. level' = Parallel /\ \A s \in Steps \ Parallel : call'[s] = call[s]
      BY <2>1, <1>5, <1>6
    <3> QED
      BY <2>1, <3>1, <1>3, <1>4, <1>7 DEF Levelled, Begun
  <2>2. CASE pc' = "sequential"
    <3>1. level' = CurrentLevel /\ call' = call
      BY <2>2, <1>5
    <3> QED
      BY <2>2, <3>1, <1>3, <1>4 DEF Levelled, Begun
  <2> QED
    BY <1>5, <2>1, <2>2
<1> QED
  BY <1>8, <1>9, <1>10, <1>11, <1>12, <1>13 DEF IInv

\* The last steps of a level are over, and the level is behind.
LEMMA LevelEnds ==
    ASSUME PlanAssumption, IInv, pc \in {"sequential", "parallel"},
           \A s \in level : Over(s), pc = "sequential" => \A s \in level : call[s].pc = "done",
           UNCHANGED <<plan, call>>, level' = {}, pc' = "levels",
           sorted' = sorted \cup CurrentLevel, total' = total + Cost(level)
    PROVE  IInv'
<1>1. Steps' = Steps
  BY DEF Steps
<1>2. /\ CurrentLevel \subseteq Steps \ sorted /\ sorted \subseteq Steps /\ level \subseteq Steps
      /\ \A s \in CurrentLevel : DependsOn(plan.deps, s) \subseteq sorted
  BY LevelFacts DEF IInv, TypeOK
<1>3. total' = Cost(Steps) /\ total' \in Nat
  <2>1. (Steps \ level) \cup level = Steps /\ (Steps \ level) \cap level = {}
    BY <1>2
  <2>2. Cost((Steps \ level) \cup level) = Cost(Steps \ level) + Cost(level)
    BY <2>1, <1>2, CostUnion DEF IInv
  <2>3. total' = Cost(Steps)
    BY <2>1, <2>2 DEF IInv
  <2> QED
    BY <2>3, FiniteSteps DEF IInv
<1>4. TypeOK'
  BY <1>1, <1>2, <1>3 DEF IInv, TypeOK, PC
<1>5. (\A s \in Steps : Billed(call[s]))'
  BY <1>1 DEF IInv
<1>6. (total = Cost(Steps \ level))'
  <2>1. Cost(Steps \ level)' = Cost(Steps)
    BY <1>1 DEF Cost
  <2> QED
    BY <1>3, <2>1
<1>7. \A s \in CurrentLevel : Answered(s)
  <2>1. CASE pc = "sequential"
    BY <2>1 DEF IInv, Levelled, Answered
  <2>2. CASE pc = "parallel"
    BY <2>2 DEF IInv, Levelled, Answered, Begun, Over, Parallel
  <2> QED
    BY <2>1, <2>2
<1>8. Behind'
  BY <1>2, <1>7 DEF IInv, Behind, Answered
<1>9. Ahead' /\ Levelled'
  BY <1>1, <1>2 DEF IInv, Ahead, Levelled, Begun, Over
<1> QED
  BY <1>4, <1>5, <1>6, <1>8, <1>9 DEF IInv

LEMMA EndParallelKeeps ==
    ASSUME PlanAssumption, IInv, EndParallel
    PROVE  IInv'
BY LevelEnds DEF EndParallel, LeaveLevel

\* A step that ends is the only one of its level that has begun.
LEMMA EndStepKeeps ==
    ASSUME PlanAssumption, IInv, NEW s \in Steps, EndStep(s)
    PROVE  IInv'
<1>1. CASE call[s].pc = "done" /\ level \ {s} = {}
  <2>1. level = {s}
    BY <1>1 DEF EndStep
  <2> QED
    BY <1>1, <2>1, LevelEnds DEF EndStep, LeaveLevel
<1>2. CASE call[s].pc = "failed" \/ level \ {s} # {}
  <2>1. /\ UNCHANGED <<plan, sorted, call>> /\ level' = level \ {s} /\ total' = total + Cost({s})
        /\ pc = "sequential" /\ s \in level /\ Over(s)
        /\ \/ pc' = "failing"
           \/ pc' = "sequential" /\ call[s].pc = "done"
    BY <1>2 DEF EndStep, LeaveLevel, Over
  <2>2. Steps' = Steps /\ CurrentLevel' = CurrentLevel /\ Parallel' = Parallel
    BY <2>1 DEF Steps, CurrentLevel, Parallel
  <2>3. \A t \in level' : ~Begun(t)
    BY <2>1 DEF IInv, Levelled, Begun, Over
  <2>4. total' = Cost(Steps \ level') /\ total' \in Nat
    <3>1. /\ (Steps \ level) \cup {s} = Steps \ level' /\ (Steps \ level) \cap {s} = {}
          /\ {s} \subseteq Steps
      BY <2>1
    <3>2. Cost((Steps \ level) \cup {s}) = Cost(Steps \ level) + Cost({s})
      BY <3>1, CostUnion DEF IInv
    <3>3. total' = Cost(Steps \ level')
      BY <2>1, <3>1, <3>2 DEF IInv
    <3> QED
      BY <3>3, FiniteSteps DEF IInv
  <2>5. TypeOK' /\ (\A t \in Steps : Billed(call[t]))'
    BY <2>1, <2>2, <2>4 DEF IInv, TypeOK, PC
  <2>6. (total = Cost(Steps \ level))'
    <3>1. Cost(Steps \ level)' = Cost(Steps \ level')
      BY <2>1, <2>2 DEF Cost
    <3> QED
      BY <2>4, <3>1
  <2>7. Behind' /\ Ahead'
    BY <2>1, <2>2 DEF IInv, Behind, Ahead, Answered, Begun, Over
  <2>8. Levelled'
    BY <2>1, <2>2, <2>3 DEF IInv, Levelled, Begun
  <2> QED
    BY <2>5, <2>6, <2>7, <2>8 DEF IInv
<1> QED
  BY <1>1, <1>2 DEF EndStep, Over

-----------------------------------------------------------------------------
\* At first nothing has begun.
LEMMA Initially == ASSUME PlanAssumption, Init PROVE IInv
<1>1. NotCalled \in Call /\ Billed(NotCalled) /\ NotCalled.pc = "none" /\ NotCalled.cost = 0
  BY DEF NotCalled, Call, Billed
<1>2. TypeOK
  BY <1>1 DEF Init, TypeOK, PC
<1>3. \A s \in Steps : call[s] = NotCalled
  BY DEF Init
<1>4. total = Cost(Steps \ level)
  BY <1>1, <1>3, CostNothing DEF Init
<1> QED
  BY <1>1, <1>2, <1>3, <1>4 DEF Init, IInv, Behind, Ahead, Levelled, Begun

LEMMA Stepwise == ASSUME PlanAssumption, IInv, [Next]_vars PROVE IInv'
<1>1. CASE UNCHANGED vars
  <2>1. /\ plan' = plan /\ pc' = pc /\ sorted' = sorted /\ level' = level /\ call' = call
        /\ total' = total
    BY <1>1 DEF vars
  <2> QED
    BY <2>1 DEF IInv, TypeOK, Steps, Cost, Behind, Ahead, Levelled, Answered, Begun, Over,
                CurrentLevel, Parallel
<1>2. ASSUME Start \/ EndLevels \/ Complete \/ Fail \/ RollBack PROVE IInv'
  BY <1>2, PcStep DEF Start, EndLevels, Complete, Fail, RollBack, Save, PC
<1> QED
  BY <1>1, <1>2, BeginLevelKeeps, EndParallelKeeps, BeginStepKeeps, StepCallKeeps,
     EndStepKeeps DEF Next

\* An execution stays within its types, whatever it is given to execute.
THEOREM TypeCorrect == ASSUME PlanAssumption PROVE Spec => []TypeOK
<1>1. Init => IInv
  BY Initially
<1>2. IInv /\ [Next]_vars => IInv'
  BY Stepwise
<1>3. IInv => TypeOK
  BY DEF IInv
<1> QED
  BY <1>1, <1>2, <1>3, PTL DEF Spec

\* For every plan: executeStep of a step is not called before all of its dependencies
\* are in levels behind it, and no call of theirs goes on.
THEOREM DependenciesFirst == ASSUME PlanAssumption PROVE Spec => []OrderKept
<1>1. Init => IInv
  BY Initially
<1>2. IInv /\ [Next]_vars => IInv'
  BY Stepwise
<1>3. IInv => OrderKept
  <2> SUFFICES ASSUME IInv, NEW s \in Steps, Begun(s), NEW d \in DependsOn(plan.deps, s)
               PROVE  d \in sorted /\ Answered(d)
    BY DEF OrderKept, Answered
  <2>1. s \in sorted \/ s \in CurrentLevel
    BY DEF IInv, Ahead
  <2> QED
    BY <2>1, LevelFacts DEF IInv, Behind
<1> QED
  BY <1>1, <1>2, <1>3, PTL DEF Spec

\* For every plan and any number of attempts: when execute returns, its result reports
\* one payment for each step that was answered after it was paid for, at most one for
\* each failed attempt is unreported, and no call goes on that could pay again.
THEOREM BillIsExact == ASSUME PlanAssumption PROVE Spec => []BillExact
<1>1. Init => IInv
  BY Initially
<1>2. IInv /\ [Next]_vars => IInv'
  BY Stepwise
<1>3. IInv => BillExact
  <2> SUFFICES ASSUME IInv, pc \in Returned
               PROVE  /\ total = Cost(Steps)
                      /\ \A s \in Steps :
                            /\ Begun(s) => Over(s)
                            /\ call[s].paid - call[s].cost \in
                                  0..(IF call[s].pc = "done" THEN call[s].attempts - 1
                                                             ELSE call[s].attempts)
                            /\ call[s].attempts <= MaxAttempts
    BY DEF BillExact
  <2>1. \A s \in Steps : Begun(s) => Over(s) /\ s \notin level
    BY DEF IInv, Ahead, Levelled, Returned
  <2>2. total = Cost(Steps)
    <3>1. \A s \in level : call[s].cost = 0
      BY <2>1 DEF IInv, TypeOK, Billed, Begun
    <3>2. {s \in Steps \ level : call[s].cost = 1} = {s \in Steps : call[s].cost = 1}
      BY <3>1
    <3> QED
      BY <3>2 DEF IInv, Cost
  <2>3. ASSUME NEW s \in Steps
        PROVE  /\ call[s].paid - call[s].cost \in
                     0..(IF call[s].pc = "done" THEN call[s].attempts - 1
                                                ELSE call[s].attempts)
               /\ call[s].attempts <= MaxAttempts
    <3> DEFINE c == call[s]
    <3>1. /\ c \in Call /\ Billed(c) /\ c.pc \in {"none", "done", "failed"}
          /\ MaxAttempts \in Nat \ {0}
      BY <2>1 DEF IInv, TypeOK, Begun, Over, PlanAssumption
    <3> HIDE DEF c
    <3>2. /\ c.paid - c.cost \in 0..(IF c.pc = "done" THEN c.attempts - 1 ELSE c.attempts)
          /\ c.attempts <= MaxAttempts
      BY <3>1 DEF Call, Billed
    <3> QED
      BY <3>2 DEF c
  <2> QED
    BY <2>1, <2>2, <2>3
<1> QED
  BY <1>1, <1>2, <1>3, PTL DEF Spec

-----------------------------------------------------------------------------
\* The rounds of topologicalSort

\* rounds is the recursive function behind Removed(deps), for its first n rounds.
AreRounds(deps, n, rounds) ==
    rounds = [i \in 0..n |-> IF i = 0 THEN {}
                             ELSE rounds[i - 1] \cup NextLevel(deps, rounds[i - 1])]

LEMMA RoundsExist ==
    ASSUME NEW deps, NEW n \in Nat
    PROVE  \E rounds : AreRounds(deps, n, rounds)
<1> DEFINE Bad == {i \in Nat : ~ \E rounds : AreRounds(deps, i, rounds)}
<1>1. Bad = {}
  <2> SUFFICES ASSUME Bad # {} PROVE FALSE
    OBVIOUS
  <2>1. PICK m \in Bad : \A i \in Bad : m <= i
    <3> HIDE DEF Bad
    <3>1. Bad \in SUBSET Nat
      BY DEF Bad
    <3> QED
      BY <3>1, SmallestNumber
  <2>2. m # 0
    <3>1. AreRounds(deps, 0, [i \in 0..0 |-> {}])
      BY DEF AreRounds
    <3> QED
      BY <3>1
  <2>3. m - 1 \in Nat /\ m - 1 \notin Bad
    BY <2>1, <2>2
  <2>4. PICK before : AreRounds(deps, m - 1, before)
    BY <2>3
  <2> DEFINE last == before[m - 1] \cup NextLevel(deps, before[m - 1])
             rounds == [i \in 0..m |-> IF i = m THEN last ELSE before[i]]
  <2>5. \A i \in 0..(m - 1) : before[i] = IF i = 0 THEN {}
                              ELSE before[i - 1] \cup NextLevel(deps, before[i - 1])
    BY <2>4 DEF AreRounds
  <2> HIDE DEF last
  <2>6. /\ rounds[m] = last
        /\ \A i \in 0..(m - 1) : rounds[i] = before[i]
    BY <2>3
  <2>7. ASSUME NEW i \in 0..m
        PROVE  rounds[i] = IF i = 0 THEN {} ELSE rounds[i - 1] \cup NextLevel(deps, rounds[i - 1])
    <3> HIDE DEF rounds
    <3>1. CASE i = m
      <4>1. rounds[i - 1] = before[m - 1]
        BY <2>3, <2>6, <3>1
      <4> QED
        BY <4>1, <2>2, <2>6, <3>1 DEF last
    <3>2. CASE i = 0
      <4>1. 0 \in 0..(m - 1)
        BY <2>3
      <4>2. rounds[0] = before[0] /\ before[0] = {}
        BY <4>1, <2>5, <2>6
      <4> QED
        BY <3>2, <4>2
    <3>3. CASE i # m /\ i # 0
      <4>1. i \in 0..(m - 1) /\ i - 1 \in 0..(m - 1)
        BY <2>3, <3>3
      <4> QED
        BY <4>1, <2>5, <2>6, <3>3
    <3> QED
      BY <3>1, <3>2, <3>3
  <2>8. AreRounds(deps, m, rounds)
    <3>1. rounds = [i \in 0..m |-> rounds[i]]
      OBVIOUS
    <3> HIDE DEF rounds
    <3> QED
      BY <3>1, <2>7 DEF AreRounds
  <2> QED
    BY <2>8
<1> QED
  BY <1>1

\* What topologicalSort has removed: nothing at first, and one level with each round.
LEMMA RoundFacts ==
    ASSUME NEW deps, IsFiniteSet(DOMAIN deps)
    PROVE  /\ Cardinality(DOMAIN deps) \in Nat
           /\ DOMAIN Removed(deps) = 0..Cardinality(DOMAIN deps)
           /\ Removed(deps)[0] = {}
           /\ \A n \in 0..(Cardinality(DOMAIN deps) - 1) :
                 Removed(deps)[n + 1] = Removed(deps)[n] \cup NextLevel(deps, Removed(deps)[n])
<1> DEFINE N == Cardinality(DOMAIN deps)
           r == Removed(deps)
<1>1. N \in Nat
  BY FS_CardinalityType
<1>2. r = CHOOSE rounds : AreRounds(deps, N, rounds)
  BY DEF Removed, AreRounds
<1> HIDE DEF N, r
<1>3. AreRounds(deps, N, r)
  BY <1>1, <1>2, RoundsExist
<1>4. DOMAIN r = 0..N /\ r[0] = {}
  BY <1>1, <1>3 DEF AreRounds
<1>5. ASSUME NEW n \in 0..(N - 1) PROVE r[n + 1] = r[n] \cup NextLevel(deps, r[n])
  <2>1. n + 1 \in 0..N /\ n + 1 # 0 /\ (n + 1) - 1 = n
    BY <1>1
  <2>2. r[n + 1] = r[(n + 1) - 1] \cup NextLevel(deps, r[(n + 1) - 1])
    BY <2>1, <1>3 DEF AreRounds
  <2> QED
    BY <2>1, <2>2
<1> QED
  BY <1>1, <1>4, <1>5 DEF N, r

\* What is removed stays removed, and is a step.
LEMMA RoundsGrow ==
    ASSUME NEW deps, IsFiniteSet(DOMAIN deps), NEW m \in DOMAIN Removed(deps),
           NEW n \in DOMAIN Removed(deps), m <= n
    PROVE  Removed(deps)[m] \subseteq Removed(deps)[n]
<1> DEFINE N == Cardinality(DOMAIN deps)
           r == Removed(deps)
           Bad == {i \in 0..N : m <= i /\ ~(r[m] \subseteq r[i])}
<1>1. /\ N \in Nat /\ DOMAIN r = 0..N
      /\ \A i \in 0..(N - 1) : r[i] \subseteq r[i + 1]
  BY RoundFacts
<1> HIDE DEF r, N
<1>2. Bad = {}
  <2> SUFFICES ASSUME Bad # {} PROVE FALSE
    OBVIOUS
  <2>1. PICK k \in Bad : \A i \in Bad : k <= i
    <3> HIDE DEF Bad
    <3>1. Bad \in SUBSET Nat
      BY <1>1 DEF Bad
    <3> QED
      BY <3>1, SmallestNumber
  <2>2. m \in 0..N /\ k \in 0..N /\ k # m /\ m <= k
    BY <1>1, <2>1 DEF r
  <2>3. k - 1 \in 0..(N - 1) /\ m <= k - 1 /\ ~(k <= k - 1) /\ (k - 1) + 1 = k
    BY <1>1, <2>2
  <2>4. r[m] \subseteq r[k - 1]
    BY <1>1, <2>1, <2>3
  <2>5. r[k - 1] \subseteq r[(k - 1) + 1]
    BY <1>1, <2>3
  <2> QED
    BY <2>1, <2>3, <2>4, <2>5
<1> QED
  BY <1>1, <1>2 DEF r

-----------------------------------------------------------------------------
\* A round of topologicalSort is a level, and so the steps of a level are alongside each other.
LEMMA LevelAlongside ==
    ASSUME PlanAssumption, TypeOK, NEW n \in DOMAIN Removed(plan.deps), Sortable(plan.deps),
           sorted = Removed(plan.deps)[n], CurrentLevel # {}
    PROVE  /\ n + 1 \in DOMAIN Removed(plan.deps)
           /\ Removed(plan.deps)[n + 1] = sorted \cup CurrentLevel
           /\ \A s \in CurrentLevel : Alongside(s) = Parallel
<1> DEFINE N == Cardinality(Steps)
           r == Removed(plan.deps)
<1>1. IsFiniteSet(DOMAIN plan.deps)
  BY DEF PlanAssumption, TypeOK
<1>2. /\ N \in Nat /\ DOMAIN r = 0..N /\ r[N] = Steps
      /\ \A i \in 0..(N - 1) : r[i + 1] = r[i] \cup NextLevel(plan.deps, r[i])
      /\ \A i, j \in DOMAIN r : i <= j => r[i] \subseteq r[j]
  BY <1>1, RoundFacts, RoundsGrow DEF Sortable, Steps
<1>3. CurrentLevel = NextLevel(plan.deps, r[n]) /\ CurrentLevel \subseteq Steps \ r[n]
  BY DEF CurrentLevel, NextLevel, Steps
<1>4. r[n] = sorted
  OBVIOUS
<1>5. n \in DOMAIN r
  OBVIOUS
<1> HIDE DEF r, N
<1>6. n \in 0..(N - 1) /\ n + 1 \in DOMAIN r /\ ~(n + 1 <= n)
  BY <1>2, <1>3, <1>5
<1>7. r[n + 1] = sorted \cup CurrentLevel
  BY <1>2, <1>3, <1>4, <1>6
<1>8. ASSUME NEW i \in DOMAIN r PROVE i <= n \/ n + 1 <= i
  BY <1>2, <1>6, <1>8
<1>9. ASSUME NEW s \in CurrentLevel, NEW i \in DOMAIN r PROVE s \in r[i] <=> n + 1 <= i
  <2>1. CASE i <= n
    <3>1. r[i] \subseteq r[n] /\ ~(n + 1 <= i)
      BY <1>2, <1>5, <1>6, <2>1
    <3> QED
      BY <3>1, <1>3
  <2>2. CASE n + 1 <= i
    <3>1. r[n + 1] \subseteq r[i]
      BY <1>2, <1>6, <2>2
    <3> QED
      BY <3>1, <1>7, <2>2
  <2> QED
    BY <1>8, <2>1, <2>2
<1>10. ASSUME NEW s \in CurrentLevel PROVE Alongside(s) = Parallel
  <2>1. ASSUME NEW t \in plan.parallel, \A i \in DOMAIN r : s \in r[i] <=> t \in r[i]
        PROVE  t \in CurrentLevel
    <3>1. s \in r[n + 1] /\ s \notin r[n]
      BY <1>5, <1>6, <1>9
    <3>2. t \in r[n + 1] /\ t \notin r[n]
      BY <1>5, <1>6, <2>1, <3>1
    <3> QED
      BY <3>2, <1>4, <1>7
  <2>2. ASSUME NEW t \in CurrentLevel, NEW i \in DOMAIN r PROVE s \in r[i] <=> t \in r[i]
    BY <1>9
  <2>3. Alongside(s) = {t \in plan.parallel : \A i \in DOMAIN r : s \in r[i] <=> t \in r[i]}
    BY DEF Alongside, r
  <2> QED
    BY <2>1, <2>2, <2>3 DEF Parallel
<1> QED
  BY <1>6, <1>7, <1>10 DEF r

\* What is behind are the levels of some rounds, and each step was served with its level.
Served(s) ==
    \/ call[s].pc = "done"
    \/ /\ Cardinality(Alongside(s)) > 1
       /\ call[s].pc = IF s \in plan.parallel THEN "failed" ELSE "none"

Rounds ==
    /\ pc = "starting" => sorted = {}
    /\ pc \in {"levels", "sequential", "parallel"} =>
          /\ Sortable(plan.deps)
          /\ \E n \in DOMAIN Removed(plan.deps) : sorted = Removed(plan.deps)[n]
    /\ pc = "parallel" => Cardinality(Parallel) > 1
    /\ pc \in {"completing", "completed"} => sorted = Steps

ServedInv == Rounds /\ \A s \in sorted : Served(s)

LEMMA LevelServed ==
    ASSUME PlanAssumption, IInv, ServedInv, pc \in {"sequential", "parallel"}, level # {},
           \A s \in level : Over(s), pc = "sequential" => \A s \in level : call[s].pc = "done",
           UNCHANGED <<plan, call>>, pc' = "levels", sorted' = sorted \cup CurrentLevel
    PROVE  ServedInv'
<1>1. PICK n \in DOMAIN Removed(plan.deps) : sorted = Removed(plan.deps)[n]
  BY DEF ServedInv, Rounds
<1>2. Sortable(plan.deps) /\ CurrentLevel # {} /\ TypeOK
  BY DEF ServedInv, Rounds, IInv, Levelled
<1>3. /\ n + 1 \in DOMAIN Removed(plan.deps)
      /\ Removed(plan.deps)[n + 1] = sorted \cup CurrentLevel
      /\ \A s \in CurrentLevel : Alongside(s) = Parallel
  BY <1>1, <1>2, LevelAlongside
<1>4. Rounds'
  BY <1>2, <1>3 DEF Rounds
<1>5. ASSUME NEW s \in CurrentLevel PROVE Served(s)
  <2>1. CASE pc = "sequential"
    BY <2>1 DEF IInv, Levelled, Served
  <2>2. CASE pc = "parallel"
    <3>1. Cardinality(Alongside(s)) > 1
      BY <2>2, <1>3 DEF ServedInv, Rounds
    <3>2. s \in plan.parallel => Over(s)
      BY <2>2 DEF IInv, Levelled, Parallel
    <3>3. s \notin plan.parallel => call[s].pc = "none"
      BY <2>2 DEF IInv, Levelled, Parallel, Begun
    <3> QED
      BY <3>1, <3>2, <3>3 DEF Over, Served
  <2> QED
    BY <2>1, <2>2
<1>6. ASSUME NEW s \in sorted' PROVE Served(s)'
  <2>1. Served(s)
    BY <1>5, <1>6 DEF ServedInv
  <2> QED
    BY <2>1 DEF Served, Alongside
<1> QED
  BY <1>4, <1>6 DEF ServedInv

\* No call behind changes.
LEMMA BehindStays ==
    ASSUME PlanAssumption, IInv, ServedInv, Rounds', UNCHANGED <<plan, sorted>>,
           \A s \in sorted : call'[s] = call[s]
    PROVE  ServedInv'
BY DEF ServedInv, Served, Alongside

LEMMA ServedStep == ASSUME PlanAssumption, IInv, ServedInv, [Next]_vars PROVE ServedInv'
<1>1. sorted \subseteq Steps /\ level \subseteq Steps \ sorted /\ CurrentLevel \subseteq Steps \ sorted
  BY LevelFacts DEF IInv, TypeOK, Levelled
<1>2. CASE UNCHANGED vars
  BY <1>2 DEF vars, ServedInv, Rounds, Served, Alongside, Parallel, CurrentLevel, Steps
<1>3. CASE Start
  <2>1. UNCHANGED <<plan, sorted, call>> /\ sorted = {}
    BY <1>3 DEF Start, Save, ServedInv, Rounds
  <2>2. Sortable(plan.deps) \/ pc' = "failing"
    BY <1>3 DEF Start, Save
  <2>3. 0 \in DOMAIN Removed(plan.deps) /\ Removed(plan.deps)[0] = {}
    <3>1. IsFiniteSet(DOMAIN plan.deps)
      BY DEF PlanAssumption, IInv, TypeOK
    <3> QED
      BY <3>1, RoundFacts
  <2>4. pc' \in {"levels", "failing"}
    BY <1>3 DEF Start, Save
  <2>5. Rounds'
    BY <2>1, <2>2, <2>3, <2>4 DEF Rounds
  <2> QED
    BY <2>1, <2>5, BehindStays
<1>4. CASE BeginLevel
  <2>1. /\ UNCHANGED <<plan, sorted>> /\ pc = "levels" /\ pc' \in {"parallel", "sequential"}
        /\ pc' = "parallel" => Cardinality(Parallel) > 1
        /\ \A s \in sorted : call'[s] = call[s]
    BY <1>1, <1>4 DEF BeginLevel, Parallel
  <2>2. Rounds'
    BY <2>1 DEF ServedInv, Rounds, Parallel, CurrentLevel
  <2> QED
    BY <2>1, <2>2, BehindStays
<1>5. CASE EndParallel
  <2>1. level # {}
    <3>1. Cardinality(level) > 1
      BY <1>5 DEF EndParallel, ServedInv, Rounds, IInv, Levelled
    <3> QED
      BY <3>1, FS_EmptySet
  <2> QED
    BY <1>5, <2>1, LevelServed DEF EndParallel, LeaveLevel
<1>6. CASE EndLevels \/ Complete \/ Fail \/ RollBack
  <2>1. UNCHANGED <<plan, sorted, call>>
    BY <1>6 DEF EndLevels, Complete, Fail, RollBack, Save
  <2>2. Rounds'
    BY <1>6 DEF EndLevels, Complete, Fail, RollBack, Save, ServedInv, Rounds, Steps
  <2> QED
    BY <2>1, <2>2, BehindStays
<1>7. ASSUME NEW s \in Steps, BeginStep(s) \/ StepCall(s) PROVE ServedInv'
  <2>1. s \in level
    <3>1. CASE BeginStep(s)
      BY <3>1 DEF BeginStep
    <3>2. CASE StepCall(s)
      <4>1. Begun(s) /\ ~Over(s)
        BY <3>2 DEF StepCall, FirstPost, Pay, SecondPost, Retry, Begun, Over
      <4> QED
        BY <4>1, Running
    <3> QED
      BY <1>7, <3>1, <3>2
  <2>2. UNCHANGED <<plan, pc, sorted>> /\ \A t \in sorted : call'[t] = call[t]
    <3>1. s \notin sorted
      BY <1>1, <2>1
    <3>2. call \in [Steps -> Call]
      BY DEF IInv, TypeOK
    <3> QED
      BY <1>1, <1>7, <3>1, <3>2
         DEF BeginStep, StepCall, FirstPost, Pay, SecondPost, Retry, Goto
  <2>3. Rounds'
    BY <2>2 DEF ServedInv, Rounds, Parallel, CurrentLevel, Steps
  <2> QED
    BY <2>2, <2>3, BehindStays
<1>8. ASSUME NEW s \in Steps, EndStep(s) PROVE ServedInv'
  <2>1. CASE call[s].pc = "done" /\ level \ {s} = {}
    <3>1. level = {s}
      BY <1>8, <2>1 DEF EndStep
    <3> QED
      BY <1>8, <2>1, <3>1, LevelServed DEF EndStep, LeaveLevel
  <2>2. CASE ~(call[s].pc = "done" /\ level \ {s} = {})
    <3>1. UNCHANGED <<plan, sorted, call>> /\ pc = "sequential" /\ pc' \in {"failing", "sequential"}
      BY <1>8, <2>2 DEF EndStep, LeaveLevel, Over
    <3>2. Rounds'
      BY <3>1 DEF ServedInv, Rounds
    <3> QED
      BY <3>1, <3>2, BehindStays
  <2> QED
    BY <2>1, <2>2
<1> QED
  BY <1>2, <1>3, <1>4, <1>5, <1>6, <1>7, <1>8 DEF Next

\* For every plan: all steps of a workflow that completes were answered, but in levels of
\* topologicalSort with two parallelizable steps.
THEOREM CompletedServed == ASSUME PlanAssumption PROVE Spec => []CompletedWasServed
<1>1. Init => IInv /\ ServedInv
  BY Initially DEF Init, ServedInv, Rounds
<1>2. IInv /\ ServedInv /\ [Next]_vars => IInv' /\ ServedInv'
  BY Stepwise, ServedStep
<1>3. ServedInv => CompletedWasServed
  BY DEF ServedInv, Rounds, Served, CompletedWasServed
<1> QED
  BY <1>1, <1>2, <1>3, PTL DEF Spec

-----------------------------------------------------------------------------
\* A plan that may be given: finite, with dependencies in sequences
IsGraph(deps) ==
    IsFiniteSet(DOMAIN deps) /\ \A s \in DOMAIN deps : deps[s] \in Seq(DependsOn(deps, s))

\* A sequence is injective when it has as many entries as there are different ones.
LEMMA EntriesCounted ==
    ASSUME NEW deps, NEW s, deps[s] \in Seq(DependsOn(deps, s))
    PROVE  /\ IsFiniteSet(DependsOn(deps, s))
           /\ Len(deps[s]) \in Nat /\ Cardinality(DependsOn(deps, s)) <= Len(deps[s])
           /\ Cardinality(DependsOn(deps, s)) = Len(deps[s]) <=> IsInjective(deps[s])
<1> DEFINE q == deps[s]
           R == DependsOn(deps, s)
<1>1. q \in [1..Len(q) -> R] /\ Len(q) \in Nat
  BY LenProperties
<1>2. R = {q[x] : x \in 1..Len(q)}
  BY <1>1 DEF DependsOn, Range
<1>3. q \in Surjection(1..Len(q), R)
  BY <1>1, <1>2 DEF Surjection
<1>4. IsFiniteSet(1..Len(q)) /\ Cardinality(1..Len(q)) = Len(q)
  <2>1. \A n \in Nat : IsFiniteSet(1..n) /\ Cardinality(1..n) = n
    BY FS_Interval
  <2> QED
    BY <1>1, <2>1
<1>5. /\ IsFiniteSet(R) /\ Cardinality(R) <= Cardinality(1..Len(q))
      /\ Cardinality(R) = Cardinality(1..Len(q)) <=> q \in Injection(1..Len(q), R)
  BY <1>3, <1>4, FS_Surjection
<1>6. q \in Injection(1..Len(q), R) <=> IsInjective(q)
  BY <1>1 DEF Injection, IsInjective
<1> QED
  BY <1>1, <1>4, <1>5, <1>6

\* A step that is in a round was in the level of a round before.
LEMMA LevelOfStep ==
    ASSUME NEW deps, IsFiniteSet(DOMAIN deps), NEW S, NEW n \in DOMAIN Removed(deps),
           Removed(deps)[n] \cap S # {}
    PROVE  \E m \in 0..(Cardinality(DOMAIN deps) - 1) :
              /\ Removed(deps)[m] \cap S = {}
              /\ NextLevel(deps, Removed(deps)[m]) \cap S # {}
<1> DEFINE N == Cardinality(DOMAIN deps)
           r == Removed(deps)
           C == {i \in 0..N : r[i] \cap S # {}}
<1>1. /\ N \in Nat /\ DOMAIN r = 0..N /\ r[0] = {}
      /\ \A i \in 0..(N - 1) : r[i + 1] = r[i] \cup NextLevel(deps, r[i])
  BY RoundFacts
<1>2. n \in DOMAIN r /\ r[n] \cap S # {}
  OBVIOUS
<1> HIDE DEF r, N
<1>3. n \in C /\ C \in SUBSET Nat
  BY <1>1, <1>2
<1>4. PICK k \in C : \A i \in C : k <= i
  <2> HIDE DEF C
  <2> QED
    BY <1>3, SmallestNumber
<1>5. k - 1 \in 0..(N - 1) /\ (k - 1) + 1 = k /\ ~(k <= k - 1)
  BY <1>1, <1>4
<1>6. r[k - 1] \cap S = {}
  BY <1>1, <1>4, <1>5
<1>7. r[k] = r[k - 1] \cup NextLevel(deps, r[k - 1])
  <2>1. r[(k - 1) + 1] = r[k - 1] \cup NextLevel(deps, r[k - 1])
    BY <1>1, <1>5
  <2> QED
    BY <2>1, <1>5
<1> QED
  BY <1>4, <1>5, <1>6, <1>7 DEF r, N

LEMMA RoundsAreSteps ==
    ASSUME NEW deps, IsFiniteSet(DOMAIN deps), NEW n \in DOMAIN Removed(deps)
    PROVE  Removed(deps)[n] \subseteq DOMAIN deps
<1> SUFFICES ASSUME NEW s \in Removed(deps)[n] PROVE s \in DOMAIN deps
  OBVIOUS
<1>1. PICK m \in 0..(Cardinality(DOMAIN deps) - 1) : NextLevel(deps, Removed(deps)[m]) \cap {s} # {}
  <2>1. Removed(deps)[n] \cap {s} # {}
    OBVIOUS
  <2> QED
    BY <2>1, LevelOfStep
<1> QED
  BY <1>1 DEF NextLevel

\* A step of a round depends on the steps of the rounds before, once on each.
LEMMA LevelSound ==
    ASSUME NEW deps, IsGraph(deps), NEW n \in DOMAIN Removed(deps),
           NEW s \in NextLevel(deps, Removed(deps)[n])
    PROVE  DependsOn(deps, s) \subseteq Removed(deps)[n] /\ IsInjective(deps[s])
<1> DEFINE removed == Removed(deps)[n]
           R == DependsOn(deps, s)
<1>1. s \in DOMAIN deps /\ InDegree(deps, s, removed) = 0
  BY DEF NextLevel
<1>2. deps[s] \in Seq(DependsOn(deps, s))
  BY <1>1 DEF IsGraph
<1>3. R \subseteq removed
  BY <1>1, <1>2, InDegreeZero
<1>4. removed \cap R = R
  BY <1>3
<1>5. /\ IsFiniteSet(R) /\ Len(deps[s]) \in Nat
      /\ Cardinality(R) = Len(deps[s]) <=> IsInjective(deps[s])
  BY <1>2, EntriesCounted
<1>6. Len(deps[s]) - Cardinality(removed \cap R) = 0
  BY <1>1 DEF InDegree
<1> HIDE DEF R, removed
<1>7. Cardinality(R) = Len(deps[s])
  <2>1. Cardinality(R) \in Nat /\ Len(deps[s]) - Cardinality(R) = 0
    BY <1>4, <1>5, <1>6, FS_CardinalityType
  <2> QED
    BY <2>1, <1>5
<1> QED
  BY <1>3, <1>5, <1>7 DEF R, removed

\* When nothing is wrong with a plan, a round removes a step as long as some are left.
LEMMA RoundRemoves ==
    ASSUME NEW deps, IsGraph(deps), NEW removed, removed \subseteq DOMAIN deps,
           removed # DOMAIN deps,
           \A S \in (SUBSET DOMAIN deps) \ {{}} : \E s \in S : DependsOn(deps, s) \cap S = {},
           \A s \in DOMAIN deps : DependsOn(deps, s) \subseteq DOMAIN deps /\ IsInjective(deps[s])
    PROVE  NextLevel(deps, removed) # {}
<1>1. PICK s \in DOMAIN deps \ removed : DependsOn(deps, s) \cap (DOMAIN deps \ removed) = {}
  OBVIOUS
<1>2. removed \cap DependsOn(deps, s) = DependsOn(deps, s)
  BY <1>1
<1>3. deps[s] \in Seq(DependsOn(deps, s))
  BY <1>1 DEF IsGraph
<1>4. Len(deps[s]) \in Nat /\ Cardinality(DependsOn(deps, s)) = Len(deps[s])
  BY <1>1, <1>3, EntriesCounted
<1>5. InDegree(deps, s, removed) = 0
  <2>1. Cardinality(removed \cap DependsOn(deps, s)) = Len(deps[s])
    BY <1>2, <1>4
  <2> QED
    BY <2>1, <1>4 DEF InDegree
<1> QED
  BY <1>1, <1>5 DEF NextLevel

\* For a plan of any size: topologicalSort returns if and only if no step depends on itself
\* through others, on a step that does not exist, or twice on one.
THEOREM SortsExactly == ASSUME IsGraph(task.deps) PROVE Planning!SortExact
<1> DEFINE deps == task.deps
           Ids == DOMAIN deps
           N == Cardinality(Ids)
           r == Removed(deps)
           Sound == /\ \A S \in (SUBSET Ids) \ {{}} : \E s \in S : DependsOn(deps, s) \cap S = {}
                    /\ \A s \in Ids : DependsOn(deps, s) \subseteq Ids /\ IsInjective(deps[s])
<1>1. IsGraph(deps) /\ IsFiniteSet(Ids)
  BY DEF IsGraph
<1> HIDE DEF deps
<1>2. /\ N \in Nat /\ DOMAIN r = 0..N /\ r[0] = {}
      /\ \A i \in 0..(N - 1) : r[i + 1] = r[i] \cup NextLevel(deps, r[i])
      /\ \A i \in DOMAIN r : r[i] \subseteq Ids
  BY <1>1, RoundFacts, RoundsAreSteps
<1>3. ASSUME r[N] = Ids PROVE Sound
  <2>1. N \in DOMAIN r
    BY <1>2
  <2>2. ASSUME NEW S \in SUBSET Ids, S # {} PROVE \E s \in S : DependsOn(deps, s) \cap S = {}
    <3>1. r[N] \cap S # {}
      BY <1>3, <2>2
    <3>2. PICK m \in 0..(N - 1) : r[m] \cap S = {} /\ NextLevel(deps, r[m]) \cap S # {}
      BY <1>1, <2>1, <3>1, LevelOfStep
    <3>3. PICK s \in NextLevel(deps, r[m]) : s \in S
      BY <3>2
    <3>4. m \in DOMAIN r
      BY <1>2
    <3>5. DependsOn(deps, s) \subseteq r[m]
      BY <1>1, <3>4, LevelSound
    <3> QED
      BY <3>2, <3>3, <3>5
  <2>3. ASSUME NEW s \in Ids PROVE DependsOn(deps, s) \subseteq Ids /\ IsInjective(deps[s])
    <3>1. r[N] \cap {s} # {}
      BY <1>3
    <3>2. PICK m \in 0..(N - 1) : NextLevel(deps, r[m]) \cap {s} # {}
      BY <1>1, <2>1, <3>1, LevelOfStep
    <3>3. s \in NextLevel(deps, r[m]) /\ m \in DOMAIN r
      BY <1>2, <3>2
    <3> HIDE DEF r, Ids, N
    <3>4. DependsOn(deps, s) \subseteq r[m] /\ IsInjective(deps[s])
      BY <1>1, <3>3, LevelSound DEF r
    <3> QED
      BY <1>2, <3>3, <3>4
  <2> HIDE DEF Ids
  <2> QED
    BY <2>2, <2>3
<1>4. ASSUME Sound, r[N] # Ids PROVE FALSE
  <2> DEFINE Bad == {i \in 0..N : ~(Cardinality(r[i]) >= i)}
  <2>1. \A i \in DOMAIN r : /\ IsFiniteSet(r[i]) /\ Cardinality(r[i]) \in Nat
                            /\ Cardinality(r[i]) <= N /\ (Cardinality(r[i]) = N => r[i] = Ids)
    BY <1>1, <1>2, FS_Subset, FS_CardinalityType
  <2>2. N \notin Bad
    <3> SUFFICES ASSUME Bad # {} PROVE FALSE
      OBVIOUS
    <3>1. PICK k \in Bad : \A i \in Bad : k <= i
      <4>1. Bad \in SUBSET Nat
        BY <1>2
      <4> HIDE DEF Bad
      <4> QED
        BY <4>1, SmallestNumber
    <3>2. k # 0
      BY <1>2, <2>1, <3>1
    <3>3. k - 1 \in 0..(N - 1) /\ k - 1 \notin Bad /\ (k - 1) + 1 = k
      BY <1>2, <3>1, <3>2
    <3> DEFINE j == k - 1
               before == r[j]
    <3>4. /\ before \subseteq Ids /\ IsFiniteSet(before) /\ Cardinality(before) \in Nat
          /\ Cardinality(before) >= j /\ r[k] = before \cup NextLevel(deps, before)
          /\ before # Ids
      <4>1. j \in DOMAIN r /\ Cardinality(r[j]) >= j /\ j + 1 = k
        BY <1>2, <3>3
      <4>2. r[j + 1] = r[j] \cup NextLevel(deps, r[j])
        BY <1>2, <3>3
      <4>3. r[j] # Ids
        <5>1. r[j] \subseteq r[N]
          <6>1. N \in DOMAIN r /\ j <= N
            BY <1>2, <3>3
          <6> QED
            BY <1>1, <4>1, <6>1, RoundsGrow
        <5>2. N \in DOMAIN r
          BY <1>2
        <5> QED
          BY <1>2, <1>4, <5>1, <5>2
      <4> QED
        BY <1>2, <2>1, <4>1, <4>2, <4>3
    <3> HIDE DEF before, r, N
    <3>5. PICK s : s \in NextLevel(deps, before)
      BY <1>1, <1>4, <3>4, RoundRemoves
    <3>6. s \notin before
      BY <3>5 DEF NextLevel
    <3>7. IsFiniteSet(before \cup {s}) /\ Cardinality(before \cup {s}) = Cardinality(before) + 1
      BY <3>4, <3>6, FS_AddElement
    <3>8. k \in DOMAIN r
      BY <1>2, <3>1
    <3>9. IsFiniteSet(r[k]) /\ before \cup {s} \in SUBSET r[k]
      BY <2>1, <3>4, <3>5, <3>8
    <3>10. Cardinality(before \cup {s}) <= Cardinality(r[k])
      BY <3>9, FS_Subset
    <3>11. Cardinality(r[k]) \in Nat /\ ~(Cardinality(r[k]) >= k)
      BY <2>1, <3>1, <3>8
    <3> QED
      BY <3>1, <3>3, <3>4, <3>7, <3>10, <3>11, <1>2
  <2>3. N \in DOMAIN r /\ Cardinality(r[N]) >= N
    BY <1>2, <2>2
  <2> QED
    BY <1>2, <1>4, <2>1, <2>3
<1>5. Sortable(deps) <=> Sound
  BY <1>3, <1>4 DEF Sortable
<1>6. Planning!Sortable(deps) <=> Sortable(deps)
  BY DEF Planning!Sortable, Planning!Removed, Planning!NextLevel, Planning!InDegree,
         Planning!DependsOn, Planning!Range, Planning!Cardinality, Planning!IsFiniteSet,
         Sortable, Removed, NextLevel, InDegree, DependsOn, Range, Cardinality, IsFiniteSet
<1>7. Planning!Ids = Ids /\ \A s : Planning!DepsOf(s) = DependsOn(deps, s)
  BY DEF deps, Planning!Ids, Planning!DepsOf, Planning!DependsOn, Planning!Range, DependsOn, Range
<1>8. \A s : Planning!IsInjective(deps[s]) <=> IsInjective(deps[s])
  BY DEF Planning!IsInjective, IsInjective
<1> HIDE DEF Ids
<1>9. Sound <=> /\ Planning!Acyclic /\ Planning!NoUnknown
                /\ \A s \in Planning!Ids : Planning!IsInjective(deps[s])
  BY <1>7, <1>8 DEF Planning!Acyclic, Planning!NoUnknown
<1> QED
  BY <1>5, <1>6, <1>9 DEF deps, Planning!SortExact

-----------------------------------------------------------------------------
\* The workflow manager. Two facts make ExecutedOnce and CancelHolds true: once nothing
\* awaits approval anywhere, nothing ever will again (Sealed); and when an undisturbed
\* cancellation or a first approval ends, nothing does. The latter is about the order of
\* the commands to Redis: the plan may still be saved over them (Overwritten, Restored),
\* but then planning is under way, or the approval comes after it (ApprovedLater).

\* The commands that Redis has yet to answer
Before(q, x, y) == \E i, j \in 1..Len(q) : i < j /\ q[i] = x /\ q[j] = y
Distinct(q) == \A i, j \in 1..Len(q) : q[i] = q[j] => i = j
Members(q) == {q[i] : i \in 1..Len(q)}

Awaiting == "awaiting_approval"
Handlers == Requests \cup {Creator}
Object(h) == handler[h].object
Waiting(h) == handler[h].pc \in {"get", "save", "list"}
Holding(h) == handler[h].pc \in {"save", "list", "work"}
Busy(h) == handler[h].pc \notin {"idle", "done"}
CreatorAt(at, op) == handler[Creator].pc = at /\ handler[Creator].op = op

\* Redis has one command of every handler that waits for it, and no other.
Queued == Distinct(queue) /\ \A h \in Handlers : h \in Members(queue) <=> Waiting(h)

\* Who does what, and where; only a plan that was made is saved as awaiting approval.
Doing ==
    /\ \A h \in Requests :
          /\ handler[h].pc = "get" => handler[h].op \in {"view", "approve", "cancel"}
          /\ handler[h].pc \in {"save", "list"} =>
                handler[h].op \in {"approve", "cancel", "execute", "executeFailed"}
          /\ handler[h].pc = "work" => handler[h].op \in {"approve", "execute"}
    /\ handler[Creator].pc # "get"
    /\ handler[Creator].pc \in {"save", "list"} =>
          handler[Creator].op \in {"create", "plan", "planFailed"}
    /\ handler[Creator].pc = "work" => handler[Creator].op = "plan"
    /\ Busy(Creator) => Object(Creator) = Creator
    /\ \A h \in Handlers : Holding(h) => Object(h) \in Handlers
    /\ \A h \in Handlers : handler[h].pc = "save" /\ handler[h].copy = Awaiting =>
          h = Creator /\ handler[h].op = "plan"

\* Before the workflow is created nobody finds it.
NotCreated == handler[Creator].pc = "idle" =>
    /\ current = NoHandler /\ stored = "none"
    /\ \A h \in Requests : handler[h].pc \in {"idle", "get", "done"}

\* While it is created and planned everybody has the object that was created.
Shared == Busy(Creator) =>
    /\ current = Creator
    /\ \A h \in Requests : Holding(h) => Object(h) = Creator

\* Who asked Redis for the record before that is answered before it is saved.
AskedEarly == \A h \in Requests : Busy(Creator) /\ handler[h].pc = "get" =>
    CreatorAt("save", "create") /\ stored = "none" /\ Before(queue, h, Creator)

\* Who saves it while it is created does so afterwards.
SavedLater == CreatorAt("save", "create") =>
    \A h \in Requests : handler[h].pc \in {"save", "list"} => Before(queue, Creator, h)

\* No object is used that has not been created or parsed.
InUse ==
    /\ current # NoHandler => handler[current].pc \notin {"idle", "get"}
    /\ \A h \in Handlers : Holding(h) => handler[Object(h)].pc \notin {"idle", "get"}

PlanOver ==
    \/ handler[Creator].pc = "done"
    \/ handler[Creator].pc \in {"save", "list"} /\ handler[Creator].op \in {"plan", "planFailed"}

\* Until then there is nothing to approve.
Unplanned == ~PlanOver =>
    /\ stored # Awaiting
    /\ \A h \in Handlers : status[h] # Awaiting
    /\ \A h \in Requests : Holding(h) => handler[h].op = "cancel"

\* The object that a request saves awaits approval again only when the request has
\* cancelled it, it was planned all the same, and the plan is still being saved.
Overwritten == \A h \in Requests :
    handler[h].pc \in {"save", "list"} /\ status[Object(h)] = Awaiting =>
        /\ handler[h].op = "cancel"
        /\ \/ CreatorAt("save", "plan") /\ (handler[h].pc = "save" => Before(queue, h, Creator))
           \/ CreatorAt("list", "plan") /\ handler[h].pc = "list" /\ Before(queue, h, Creator)

\* So it is with the record that a request has just saved.
Restored == \A h \in Requests : handler[h].pc = "list" /\ stored = Awaiting =>
    /\ handler[h].op = "cancel"
    /\ CreatorAt("list", "plan") \/ CreatorAt("save", "planFailed")
    /\ Before(queue, h, Creator)

\* What was approved while the plan is being saved is saved after it, and executed later.
ApprovedLater == \A h \in Requests : CreatorAt("save", "plan") =>
    /\ handler[h].op = "approve" /\ handler[h].pc \in {"save", "list"} =>
          handler[h].pc = "save" /\ Before(queue, Creator, h)
    /\ handler[h].op \in {"execute", "executeFailed"} => ~Busy(h)

OneApproval == contended \/ \A g, h \in Requests :
    Busy(g) /\ Busy(h) /\ handler[g].op = "approve" /\ handler[h].op = "approve" => g = h

\* Nothing awaits approval, in no object that is used, no copy and no record, and nobody
\* has found it so.
Sealed ==
    /\ PlanOver
    /\ stored # Awaiting
    /\ \A h \in Handlers : handler[h].pc = "save" => handler[h].copy # Awaiting
    /\ current # NoHandler => status[current] # Awaiting
    /\ \A h \in Handlers : handler[h].pc \in {"save", "list"} => status[Object(h)] # Awaiting
    /\ \A h \in Requests : Holding(h) => handler[h].op # "approve"

Sealing == withdrawn \/ (executed # {} /\ ~contended) => Sealed

Single == contended \/ \A g, h \in executed : g = h

WorkflowInv ==
    /\ Workflow!TypeOK /\ Queued /\ Doing
    /\ NotCreated /\ Shared /\ AskedEarly /\ SavedLater /\ InUse /\ Unplanned
    /\ Overwritten /\ Restored /\ ApprovedLater /\ OneApproval
    /\ Sealing /\ Single

-----------------------------------------------------------------------------
\* A command is added at the end, and the first is answered.
LEMMA QueueAppend ==
    ASSUME NEW S, NEW q \in Seq(S), NEW h \in S, Distinct(q), h \notin Members(q)
    PROVE  /\ Append(q, h) \in Seq(S) /\ Distinct(Append(q, h))
           /\ Members(Append(q, h)) = Members(q) \cup {h}
           /\ \A x, y : Before(q, x, y) => Before(Append(q, h), x, y)
           /\ \A x \in Members(q) : Before(Append(q, h), x, h)
<1> DEFINE r == Append(q, h)
<1>1. /\ r \in Seq(S) /\ Len(q) \in Nat /\ Len(r) = Len(q) + 1
      /\ \A i \in 1..Len(q) : r[i] = q[i]
      /\ r[Len(q) + 1] = h
  OBVIOUS
<1> HIDE DEF r
<1>2. Distinct(r)
  BY <1>1 DEF Distinct, Members
<1>3. Members(r) = Members(q) \cup {h}
  BY <1>1 DEF Members
<1>4. ASSUME NEW x, NEW y, Before(q, x, y) PROVE Before(r, x, y)
  BY <1>1, <1>4 DEF Before
<1>5. ASSUME NEW x \in Members(q) PROVE Before(r, x, h)
  BY <1>1, <1>5 DEF Before, Members
<1> QED
  BY <1>1, <1>2, <1>3, <1>4, <1>5 DEF r

LEMMA QueueTail ==
    ASSUME NEW S, NEW q \in Seq(S), q # <<>>, Distinct(q)
    PROVE  /\ Tail(q) \in Seq(S) /\ Distinct(Tail(q))
           /\ Head(q) \in Members(q)
           /\ Members(Tail(q)) = Members(q) \ {Head(q)}
           /\ \A x, y : Before(q, x, y) /\ x # Head(q) => Before(Tail(q), x, y)
           /\ \A x : ~Before(q, x, Head(q))
<1> DEFINE r == Tail(q)
           n == Len(q)
<1>1. /\ r \in Seq(S) /\ n \in Nat \ {0} /\ Len(r) = n - 1
      /\ \A i \in 1..(n - 1) : r[i] = q[i + 1]
      /\ Head(q) = q[1]
  OBVIOUS
<1> HIDE DEF r
<1>2. Distinct(r)
  <2>1. ASSUME NEW i \in 1..Len(r), NEW j \in 1..Len(r), r[i] = r[j] PROVE i = j
    <3>1. i + 1 \in 1..n /\ j + 1 \in 1..n /\ q[i + 1] = q[j + 1]
      BY <1>1, <2>1
    <3>2. i + 1 = j + 1
      BY <3>1 DEF Distinct
    <3> QED
      BY <1>1, <3>2
  <2> QED
    BY <2>1 DEF Distinct
<1>3. Members(r) = Members(q) \ {Head(q)}
  <2>1. ASSUME NEW i \in 1..Len(r) PROVE r[i] \in Members(q) /\ r[i] # Head(q)
    <3>1. i + 1 \in 1..n /\ 1 \in 1..n /\ i + 1 # 1 /\ r[i] = q[i + 1]
      BY <1>1, <2>1
    <3> QED
      BY <1>1, <3>1 DEF Distinct, Members
  <2>2. ASSUME NEW i \in 1..n, q[i] # Head(q) PROVE q[i] \in Members(r)
    <3>1. i # 1 /\ i - 1 \in 1..(n - 1)
      BY <1>1, <2>2
    <3>2. r[i - 1] = q[(i - 1) + 1]
      BY <1>1, <3>1
    <3> QED
      BY <1>1, <3>1, <3>2 DEF Members
  <2> QED
    BY <2>1, <2>2 DEF Members
<1>4. ASSUME NEW x, NEW y, Before(q, x, y), x # Head(q) PROVE Before(r, x, y)
  <2>1. PICK i \in 1..n, j \in 1..n : i < j /\ q[i] = x /\ q[j] = y
    BY <1>4 DEF Before
  <2>2. i # 1 /\ i - 1 \in 1..Len(r) /\ j - 1 \in 1..Len(r) /\ i - 1 < j - 1
    BY <1>1, <1>4, <2>1
  <2>3. r[i - 1] = x /\ r[j - 1] = y
    <3>1. r[i - 1] = q[(i - 1) + 1] /\ r[j - 1] = q[(j - 1) + 1]
      BY <1>1, <2>2
    <3> QED
      BY <2>1, <3>1
  <2> QED
    BY <2>2, <2>3 DEF Before
<1>5. ASSUME NEW x, Before(q, x, Head(q)) PROVE FALSE
  BY <1>1, <1>5 DEF Before, Distinct
<1>6. Head(q) \in Members(q)
  BY <1>1 DEF Members
<1> QED
  BY <1>1, <1>2, <1>3, <1>4, <1>5, <1>6 DEF r

-----------------------------------------------------------------------------
USE DEF Handlers, Workflow!Handlers, Object, Workflow!Object, Waiting, Holding, Busy,
        CreatorAt, Awaiting

LEMMA CreateKeeps ==
    ASSUME Workflow!WorkflowAssumption, WorkflowInv, Workflow!Create
    PROVE  WorkflowInv'
<1> USE DEF WorkflowInv
<1>1. /\ handler[Creator].pc = "idle"
      /\ status' = [status EXCEPT ![Creator] = "planning"]
      /\ handler' = [handler EXCEPT ![Creator] =
            [pc |-> "save", op |-> "create", object |-> Creator, copy |-> "planning"]]
      /\ queue' = Append(queue, Creator)
      /\ current' = Creator
      /\ stored' = stored /\ executed' = executed /\ contended' = contended
      /\ withdrawn' = withdrawn /\ faults' = faults
  BY DEF Workflow!Create, Workflow!SetAndSave, Workflow!history
<1>2. Creator \notin Members(queue)
  BY <1>1 DEF Queued
<1>3. /\ queue' \in Seq(Handlers) /\ Distinct(queue')
      /\ Members(queue') = Members(queue) \cup {Creator}
      /\ \A x, y : Before(queue, x, y) => Before(queue', x, y)
      /\ \A x \in Members(queue) : Before(queue', x, Creator)
  BY <1>1, <1>2, QueueAppend DEF Workflow!TypeOK, Queued
<1>4. /\ handler' \in [Handlers -> Workflow!Handler]
      /\ handler'[Creator].pc = "save" /\ handler'[Creator].op = "create"
      /\ handler'[Creator].object = Creator /\ handler'[Creator].copy = "planning"
      /\ \A g \in Requests : handler'[g] = handler[g]
      /\ \A g \in Requests : status'[g] = status[g]
      /\ status'[Creator] = "planning"
  BY <1>1 DEF Workflow!TypeOK, Workflow!Handler, Workflow!Operation, Workflow!Status,
     Workflow!WorkflowAssumption
<1>5. Workflow!TypeOK'
  BY <1>1, <1>3, <1>4 DEF Workflow!TypeOK, Workflow!Status
<1>6. Queued'
  BY <1>1, <1>3, <1>4 DEF Queued
<1>7. Doing'
  BY <1>1, <1>4 DEF Doing
<1>8. NotCreated' /\ Shared' /\ AskedEarly' /\ SavedLater'
  BY <1>1, <1>3, <1>4 DEF NotCreated, Shared, AskedEarly, SavedLater, Queued
<1>9. InUse' /\ Unplanned'
  BY <1>1, <1>4 DEF InUse, Unplanned, PlanOver, NotCreated
<1>10. Overwritten' /\ Restored' /\ ApprovedLater' /\ OneApproval'
  BY <1>1, <1>4 DEF Overwritten, Restored, ApprovedLater, OneApproval, NotCreated
<1>11. Sealing' /\ Single'
  BY <1>1, <1>4 DEF Sealing, Sealed, PlanOver, Single
<1> QED
  BY <1>5, <1>6, <1>7, <1>8, <1>9, <1>10, <1>11

LEMMA PlannedKeeps ==
    ASSUME Workflow!WorkflowAssumption, WorkflowInv, Workflow!At(Creator, "work", "plan"),
           NEW op \in {"plan", "planFailed"}, NEW s \in {Awaiting, "failed"},
           op = "planFailed" => s = "failed",
           Workflow!SetAndSave(Creator, op, Creator, s, queue),
           UNCHANGED <<current, stored, executed, Workflow!history, faults>>
    PROVE  WorkflowInv'
<1> USE DEF WorkflowInv
<1>1. /\ status' = [status EXCEPT ![Creator] = s]
      /\ handler' = [handler EXCEPT ![Creator] =
            [pc |-> "save", op |-> op, object |-> Creator, copy |-> s]]
      /\ queue' = Append(queue, Creator)
      /\ current' = current
      /\ stored' = stored /\ executed' = executed /\ contended' = contended
      /\ withdrawn' = withdrawn /\ faults' = faults
  BY DEF Workflow!SetAndSave, Workflow!history
<1>2. handler[Creator].pc = "work" /\ handler[Creator].op = "plan"
  BY DEF Workflow!At
<1>3. Creator \notin Members(queue)
  BY <1>2 DEF Queued
<1>4. /\ queue' \in Seq(Handlers) /\ Distinct(queue')
      /\ Members(queue') = Members(queue) \cup {Creator}
      /\ \A x, y : Before(queue, x, y) => Before(queue', x, y)
      /\ \A x \in Members(queue) : Before(queue', x, Creator)
  BY <1>1, <1>3, QueueAppend DEF Workflow!TypeOK, Queued
<1>5. /\ handler' \in [Handlers -> Workflow!Handler]
      /\ handler'[Creator].pc = "save" /\ handler'[Creator].op = op
      /\ handler'[Creator].object = Creator /\ handler'[Creator].copy = s
      /\ \A g \in Requests : handler'[g] = handler[g]
      /\ \A g \in Requests : status'[g] = status[g]
      /\ status'[Creator] = s
  BY <1>1 DEF Workflow!TypeOK, Workflow!Handler, Workflow!Operation, Workflow!Status,
     Workflow!WorkflowAssumption
<1>6. Workflow!TypeOK'
  BY <1>1, <1>4, <1>5 DEF Workflow!TypeOK, Workflow!Status
<1>7. Queued'
  BY <1>1, <1>4, <1>5 DEF Queued
<1>8. Doing'
  BY <1>1, <1>5 DEF Doing
<1>9. NotCreated' /\ Shared' /\ AskedEarly' /\ SavedLater'
  BY <1>1, <1>2, <1>4, <1>5 DEF NotCreated, Shared, AskedEarly, SavedLater, Queued
<1>10. InUse' /\ Unplanned'
  BY <1>1, <1>2, <1>5 DEF InUse, Unplanned, PlanOver, NotCreated
<1>11. \A h \in Requests : Holding(h) => Object(h) = Creator /\ handler[h].op = "cancel"
  BY <1>2 DEF Unplanned, PlanOver, Shared
<1>12. stored # Awaiting
  BY <1>2 DEF Unplanned, PlanOver
<1>13. Overwritten'
  <2>1. ASSUME NEW h \in Requests, handler'[h].pc \in {"save", "list"}
        PROVE  Holding(h) /\ h \in Members(queue)
    BY <1>5, <2>1 DEF Queued
  <2>2. ASSUME NEW h \in Requests, handler'[h].pc \in {"save", "list"}
        PROVE  /\ handler'[h].op = "cancel" /\ Before(queue', h, Creator)
               /\ handler'[h].object = Creator
    BY <1>4, <1>5, <1>11, <2>1, <2>2
  <2>3. CASE op = "plan"
    BY <1>5, <2>2, <2>3 DEF Overwritten
  <2>4. CASE op = "planFailed"
    BY <1>5, <2>2, <2>4 DEF Overwritten
  <2> QED
    BY <2>3, <2>4
<1>14. Restored'
  BY <1>1, <1>12 DEF Restored
<1>15. ApprovedLater'
  <2>1. ASSUME NEW h \in Requests
        PROVE  /\ handler[h].pc \in {"save", "list"} => handler[h].op # "approve"
               /\ handler[h].op \in {"execute", "executeFailed"} => ~Busy(h)
    <3>1. handler[h].pc \in {"idle", "get", "save", "list", "work", "done"}
      BY DEF Workflow!TypeOK, Workflow!Handler
    <3> QED
      BY <1>11, <3>1 DEF Doing
  <2> QED
    BY <1>5, <2>1 DEF ApprovedLater
<1>16. OneApproval'
  BY <1>1, <1>5 DEF OneApproval
<1>17. Sealing' /\ Single'
  BY <1>1, <1>2, <1>5 DEF Sealing, Sealed, PlanOver, Single
<1> QED
  BY <1>6, <1>7, <1>8, <1>9, <1>10, <1>13, <1>14, <1>15, <1>16, <1>17

LEMMA PlanKeeps == ASSUME Workflow!WorkflowAssumption, WorkflowInv, Workflow!Plan PROVE WorkflowInv'
<1>1. CASE Workflow!SetAndSave(Creator, "plan", Creator, "awaiting_approval", queue)
  BY <1>1, PlannedKeeps DEF Workflow!Plan
<1>2. CASE Workflow!SetAndSave(Creator, "planFailed", Creator, "failed", queue)
  BY <1>2, PlannedKeeps DEF Workflow!Plan
<1> QED
  BY <1>1, <1>2 DEF Workflow!Plan

\* The queue without h, which has no command there or the next to be answered
Without(q, h) ==
    \/ q = queue /\ ~Waiting(h)
    \/ q = Tail(queue) /\ queue # <<>> /\ Head(queue) = h

LEMMA QueueWithout ==
    ASSUME Workflow!TypeOK, Queued, NEW h \in Handlers, NEW q, Without(q, h)
    PROVE  /\ q \in Seq(Handlers) /\ Distinct(q)
           /\ Members(q) = Members(queue) \ {h}
           /\ \A x, y : Before(queue, x, y) /\ x # h => Before(q, x, y)
<1>1. queue \in Seq(Handlers)
  BY DEF Workflow!TypeOK
<1>2. CASE q = queue /\ ~Waiting(h)
  BY <1>1, <1>2 DEF Queued
<1>3. CASE q = Tail(queue) /\ queue # <<>> /\ Head(queue) = h
  BY <1>1, <1>3, QueueTail DEF Queued
<1> QED
  BY <1>2, <1>3 DEF Without

LEMMA QueueRejoined ==
    ASSUME Workflow!TypeOK, Queued, NEW h \in Handlers, NEW q, Without(q, h)
    PROVE  /\ Append(q, h) \in Seq(Handlers) /\ Distinct(Append(q, h))
           /\ Members(Append(q, h)) = Members(queue) \cup {h}
           /\ \A x, y : Before(queue, x, y) /\ x # h => Before(Append(q, h), x, y)
           /\ \A x \in Members(queue) \ {h} : Before(Append(q, h), x, h)
<1>1. /\ q \in Seq(Handlers) /\ Distinct(q)
      /\ Members(q) = Members(queue) \ {h}
      /\ \A x, y : Before(queue, x, y) /\ x # h => Before(q, x, y)
  BY QueueWithout
<1>2. h \notin Members(q)
  BY <1>1
<1> QED
  BY <1>1, <1>2, QueueAppend

LEMMA FirstIsFirst ==
    ASSUME Workflow!TypeOK, Queued, queue # <<>>
    PROVE  /\ Head(queue) \in Handlers /\ Waiting(Head(queue))
           /\ \A x : ~Before(queue, x, Head(queue))
<1>1. Head(queue) \in Members(queue) /\ \A x : ~Before(queue, x, Head(queue))
  BY QueueTail DEF Workflow!TypeOK, Queued
<1>2. Head(queue) \in Handlers
  BY DEF Workflow!TypeOK
<1> QED
  BY <1>1, <1>2 DEF Queued

\* A request has set its object to another status than that of a workflow to approve,
\* and saves it.
LEMMA SavingKeeps ==
    ASSUME Workflow!WorkflowAssumption, WorkflowInv, NEW h \in Requests,
           NEW op \in {"approve", "cancel", "execute", "executeFailed"},
           NEW object \in Handlers, NEW s \in Workflow!Status \ {Awaiting},
           NEW q, Without(q, h), Workflow!SetAndSave(h, op, object, s, q),
           handler[Creator].pc # "idle",
           object = h \/ handler[object].pc \notin {"idle", "get"},
           Busy(Creator) => object = Creator,
           op = "cancel" \/ PlanOver,
           CreatorAt("save", "plan") => op \in {"approve", "cancel"},
           op = "approve" => Busy(h) /\ handler[h].op = "approve" /\ ~Sealed,
           current' = current \/ (current' = h /\ object = h),
           stored' = stored \/ (handler[h].pc = "save" /\ stored' = handler[h].copy),
           executed' = executed, withdrawn' = withdrawn, contended' = contended,
           faults' \in 0..MaxFaults
    PROVE  WorkflowInv'
<1> USE DEF WorkflowInv
<1>1. /\ status' = [status EXCEPT ![object] = s]
      /\ handler' = [handler EXCEPT ![h] =
            [pc |-> "save", op |-> op, object |-> object, copy |-> s]]
      /\ queue' = Append(q, h)
  BY DEF Workflow!SetAndSave
<1>2. /\ queue' \in Seq(Handlers) /\ Distinct(queue')
      /\ Members(queue') = Members(queue) \cup {h}
      /\ \A x, y : Before(queue, x, y) /\ x # h => Before(queue', x, y)
      /\ \A x \in Members(queue) \ {h} : Before(queue', x, h)
  BY <1>1, QueueRejoined
<1>3. /\ handler' \in [Handlers -> Workflow!Handler]
      /\ handler'[h].pc = "save" /\ handler'[h].op = op
      /\ handler'[h].object = object /\ handler'[h].copy = s
      /\ \A g \in Handlers \ {h} : handler'[g] = handler[g]
      /\ h # Creator /\ handler'[Creator] = handler[Creator]
  BY <1>1 DEF Workflow!TypeOK, Workflow!Handler, Workflow!Operation, Workflow!Status,
     Workflow!WorkflowAssumption
<1>4. /\ status' \in [Handlers -> Workflow!Status]
      /\ status'[object] = s /\ \A g \in Handlers \ {object} : status'[g] = status[g]
      /\ \A g \in Handlers : status'[g] = Awaiting => status[g] = Awaiting
  BY <1>1 DEF Workflow!TypeOK
<1>5. handler[h].pc = "save" => handler[h].copy # Awaiting /\ Head(queue) = h /\ queue # <<>>
  BY <1>3 DEF Doing, Without
<1>6. stored' \in Workflow!Status /\ (stored' = Awaiting => stored = Awaiting)
  BY <1>5 DEF Workflow!TypeOK, Workflow!Handler
<1>7. Workflow!TypeOK'
  BY <1>2, <1>3, <1>4, <1>6 DEF Workflow!TypeOK
<1>8. Queued'
  BY <1>2, <1>3 DEF Queued
<1>9. Doing'
  BY <1>3 DEF Doing
<1>10. NotCreated'
  BY <1>3 DEF NotCreated
<1>11. Shared'
  BY <1>3 DEF Shared
<1>12. AskedEarly'
  <2>1. SUFFICES ASSUME NEW g \in Requests, Busy(Creator), handler'[g].pc = "get"
                 PROVE  /\ CreatorAt("save", "create") /\ stored' = "none"
                        /\ Before(queue', g, Creator)
    BY <1>3 DEF AskedEarly
  <2>2. g # h /\ handler[g].pc = "get"
    BY <1>3, <2>1
  <2>3. CreatorAt("save", "create") /\ stored = "none" /\ Before(queue, g, Creator)
    BY <2>1, <2>2 DEF AskedEarly
  <2>4. handler[h].pc # "save"
    <3>1. handler[h].pc = "save" => Before(queue, Creator, h)
      BY <2>3 DEF SavedLater
    <3> QED
      BY <1>5, <3>1, FirstIsFirst
  <2> QED
    BY <1>2, <2>2, <2>3, <2>4
<1>13. SavedLater'
  <2>1. CreatorAt("save", "create") => Creator \in Members(queue)
    BY DEF Queued
  <2> QED
    BY <1>2, <1>3, <2>1 DEF SavedLater
<1>14. InUse'
  <2>1. \A o \in Handlers : handler[o].pc \notin {"idle", "get"} \/ o = h =>
           handler'[o].pc \notin {"idle", "get"}
    BY <1>3
  <2>2. current' # NoHandler => handler'[current'].pc \notin {"idle", "get"}
    BY <2>1 DEF InUse, Workflow!TypeOK
  <2>3. ASSUME NEW g \in Handlers, handler'[g].pc \in {"save", "list", "work"}
        PROVE  handler'[handler'[g].object].pc \notin {"idle", "get"}
    <3>1. CASE g = h
      BY <1>3, <2>1, <3>1
    <3>2. CASE g # h
      BY <1>3, <2>1, <2>3, <3>2 DEF InUse, Doing
    <3> QED
      BY <3>1, <3>2
  <2> QED
    BY <2>2, <2>3 DEF InUse
<1>15. Unplanned'
  BY <1>3, <1>4, <1>6 DEF Unplanned, PlanOver
<1>16. Overwritten'
  BY <1>2, <1>3, <1>4 DEF Overwritten, Doing
<1>17. Restored'
  BY <1>2, <1>3, <1>6 DEF Restored
<1>18. ApprovedLater'
  <2>1. CreatorAt("save", "plan") => Creator \in Members(queue)
    BY DEF Queued
  <2> QED
    BY <1>2, <1>3, <2>1 DEF ApprovedLater
<1>19. OneApproval'
  BY <1>3 DEF OneApproval
<1>20. Sealed => Sealed'
  BY <1>3, <1>4, <1>6 DEF Sealed, PlanOver, Doing, Workflow!TypeOK
<1>21. Sealing' /\ Single'
  BY <1>20 DEF Sealing, Single
<1> QED
  BY <1>7, <1>8, <1>9, <1>10, <1>11, <1>12, <1>13, <1>14, <1>15, <1>16, <1>17, <1>18, <1>19, <1>21

\* A request is answered, or creating the workflow throws, and no object changes.
LEMMA LeavingKeeps ==
    ASSUME Workflow!WorkflowAssumption, WorkflowInv, NEW h \in Handlers,
           h = Creator => handler[h].pc \in {"save", "list"} /\ handler[h].op = "create",
           NEW q, Without(q, h), Workflow!Done(h), queue' = q, status' = status, current' = current,
           stored' = stored \/ (handler[h].pc = "save" /\ stored' = handler[h].copy),
           executed' = executed, withdrawn' = withdrawn,
           contended' \in BOOLEAN, contended => contended', faults' \in 0..MaxFaults
    PROVE  WorkflowInv'
<1> USE DEF WorkflowInv
<1>1. /\ handler' \in [Handlers -> Workflow!Handler]
      /\ handler'[h].pc = "done" /\ handler'[h].op = handler[h].op
      /\ handler'[h].object = handler[h].object /\ handler'[h].copy = handler[h].copy
      /\ \A g \in Handlers \ {h} : handler'[g] = handler[g]
  BY DEF Workflow!Done, Workflow!TypeOK, Workflow!Handler
<1>2. /\ queue' \in Seq(Handlers) /\ Distinct(queue')
      /\ Members(queue') = Members(queue) \ {h}
      /\ \A x, y : Before(queue, x, y) /\ x # h => Before(queue', x, y)
  BY QueueWithout
<1>3. handler[h].pc = "save" => handler[h].copy # Awaiting /\ Head(queue) = h /\ queue # <<>>
  BY DEF Doing, Without
<1>4. stored' \in Workflow!Status /\ (stored' = Awaiting => stored = Awaiting)
  BY <1>3 DEF Workflow!TypeOK, Workflow!Handler
<1>5. Workflow!TypeOK'
  BY <1>1, <1>2, <1>4 DEF Workflow!TypeOK
<1>6. Queued'
  BY <1>1, <1>2 DEF Queued
<1>7. Doing'
  BY <1>1 DEF Doing
<1>8. NotCreated'
  BY <1>1 DEF NotCreated
<1>9. Shared'
  BY <1>1 DEF Shared
<1>10. AskedEarly'
  <2>1. SUFFICES ASSUME NEW g \in Requests, handler'[Creator].pc \notin {"idle", "done"},
                        handler'[g].pc = "get"
                 PROVE  /\ handler'[Creator].pc = "save" /\ handler'[Creator].op = "create"
                        /\ stored' = "none" /\ Before(queue', g, Creator)
    BY DEF AskedEarly
  <2>2. g # h /\ handler[g].pc = "get" /\ h # Creator /\ handler'[Creator] = handler[Creator]
    BY <1>1, <2>1
  <2>3. CreatorAt("save", "create") /\ stored = "none" /\ Before(queue, g, Creator)
    BY <2>1, <2>2 DEF AskedEarly
  <2>4. handler[h].pc # "save"
    <3>1. handler[h].pc = "save" => Before(queue, Creator, h)
      BY <2>2, <2>3 DEF SavedLater
    <3> QED
      BY <1>3, <3>1, FirstIsFirst
  <2> QED
    BY <1>2, <2>2, <2>3, <2>4
<1>11. SavedLater'
  BY <1>1, <1>2 DEF SavedLater
<1>12. InUse'
  <2>1. \A o \in Handlers : handler[o].pc \notin {"idle", "get"} =>
           handler'[o].pc \notin {"idle", "get"}
    BY <1>1
  <2>2. current' # NoHandler => handler'[current'].pc \notin {"idle", "get"}
    BY <2>1 DEF InUse, Workflow!TypeOK
  <2>3. ASSUME NEW g \in Handlers, handler'[g].pc \in {"save", "list", "work"}
        PROVE  handler'[handler'[g].object].pc \notin {"idle", "get"}
    BY <1>1, <2>1, <2>3 DEF InUse, Doing
  <2> QED
    BY <2>2, <2>3 DEF InUse
<1>13. Unplanned'
  BY <1>1, <1>4 DEF Unplanned, PlanOver
<1>14. Overwritten'
  BY <1>1, <1>2 DEF Overwritten
<1>15. Restored'
  BY <1>1, <1>2, <1>4 DEF Restored
<1>16. ApprovedLater'
  BY <1>1, <1>2 DEF ApprovedLater
<1>17. OneApproval'
  BY <1>1 DEF OneApproval
<1>18. Sealed => Sealed'
  BY <1>1, <1>4 DEF Sealed, PlanOver
<1>19. Sealing' /\ Single'
  BY <1>18 DEF Sealing, Single
<1> QED
  BY <1>5, <1>6, <1>7, <1>8, <1>9, <1>10, <1>11, <1>12, <1>13, <1>14, <1>15, <1>16, <1>17, <1>19

\* A request has parsed the record, and is answered or is to check the funds.
LEMMA ParsedKeeps ==
    ASSUME Workflow!WorkflowAssumption, WorkflowInv, NEW h \in Requests, handler[h].pc = "get",
           queue # <<>>, Head(queue) = h, queue' = Tail(queue), stored # "none",
           status' = [status EXCEPT ![h] = stored], current' = h,
           \/ Workflow!Done(h)
           \/ /\ handler[h].op = "approve" /\ stored = Awaiting
              /\ handler' = [handler EXCEPT ![h] = [pc |-> "work", op |-> "approve",
                                                    object |-> h, copy |-> stored]],
           UNCHANGED <<stored, executed, Workflow!history, faults>>
    PROVE  WorkflowInv'
<1> USE DEF WorkflowInv
<1>1. /\ handler' \in [Handlers -> Workflow!Handler]
      /\ handler'[h].pc \in {"work", "done"} /\ handler'[h].op = handler[h].op
      /\ handler'[h].pc = "work" =>
            handler[h].op = "approve" /\ handler'[h].object = h /\ stored = Awaiting
      /\ \A g \in Handlers \ {h} : handler'[g] = handler[g]
      /\ h # Creator /\ handler'[Creator] = handler[Creator]
  <2>1. CASE Workflow!Done(h)
    BY <2>1 DEF Workflow!Done, Workflow!TypeOK, Workflow!Handler, Workflow!WorkflowAssumption
  <2>2. CASE /\ handler[h].op = "approve" /\ stored = Awaiting
             /\ handler' = [handler EXCEPT ![h] = [pc |-> "work", op |-> "approve",
                                                   object |-> h, copy |-> stored]]
    <3>1. handler \in [Handlers -> Workflow!Handler] /\ h \in Handlers /\ h # Creator
      BY DEF Workflow!TypeOK, Workflow!WorkflowAssumption
    <3>2. Awaiting \in Workflow!Status
      BY <2>2 DEF Workflow!TypeOK
    <3>3. [pc |-> "work", op |-> "approve", object |-> h, copy |-> stored] \in Workflow!Handler
      BY <2>2, <3>1, <3>2 DEF Workflow!Handler, Workflow!Operation
    <3> QED
      BY <2>2, <3>1, <3>3
  <2> QED
    BY <2>1, <2>2
<1>2. /\ queue' \in Seq(Handlers) /\ Distinct(queue')
      /\ Members(queue') = Members(queue) \ {h}
      /\ \A x, y : Before(queue, x, y) /\ x # h => Before(queue', x, y)
  BY QueueWithout DEF Without
<1>3. handler[Creator].pc = "done"
  BY <1>1 DEF NotCreated, AskedEarly
<1>4. /\ status' \in [Handlers -> Workflow!Status] /\ status'[h] = stored
      /\ \A g \in Handlers \ {h} : status'[g] = status[g]
  BY DEF Workflow!TypeOK
<1>5. \A g \in Handlers : Holding(g) => Object(g) \in Handlers \ {h}
  BY DEF InUse, Doing
<1>6. /\ stored' = stored /\ executed' = executed /\ faults' = faults
      /\ contended' = contended /\ withdrawn' = withdrawn
  BY DEF Workflow!history
<1>7. Workflow!TypeOK'
  BY <1>1, <1>2, <1>4, <1>6 DEF Workflow!TypeOK
<1>8. Queued'
  BY <1>1, <1>2 DEF Queued
<1>9. Doing'
  BY <1>1 DEF Doing
<1>10. NotCreated' /\ Shared' /\ AskedEarly' /\ SavedLater' /\ Unplanned' /\ ApprovedLater'
  BY <1>1, <1>3 DEF NotCreated, Shared, AskedEarly, SavedLater, Unplanned, PlanOver, ApprovedLater
<1>11. InUse'
  <2>1. \A o \in Handlers : handler[o].pc \notin {"idle", "get"} \/ o = h =>
           handler'[o].pc \notin {"idle", "get"}
    BY <1>1
  <2>2. ASSUME NEW g \in Handlers, handler'[g].pc \in {"save", "list", "work"}
        PROVE  handler'[handler'[g].object].pc \notin {"idle", "get"}
    <3>1. CASE g = h
      BY <1>1, <2>1, <2>2, <3>1
    <3>2. CASE g # h
      BY <1>1, <2>1, <2>2, <3>2 DEF InUse, Doing
    <3> QED
      BY <3>1, <3>2
  <2> QED
    BY <2>1, <2>2 DEF InUse
<1>12. \A g \in Handlers : handler'[g].pc \in {"save", "list"} =>
          /\ g # h /\ handler'[g] = handler[g]
          /\ status'[handler[g].object] = status[handler[g].object]
  BY <1>1, <1>4, <1>5
<1>13. Overwritten'
  BY <1>3, <1>12 DEF Overwritten
<1>14. Restored'
  BY <1>3, <1>6, <1>12 DEF Restored
<1>15. OneApproval'
  BY <1>1, <1>6 DEF OneApproval
<1>16. Sealed => Sealed'
  BY <1>1, <1>3, <1>4, <1>6, <1>12 DEF Sealed, PlanOver
<1>17. Sealing' /\ Single'
  BY <1>6, <1>16 DEF Sealing, Single
<1> QED
  BY <1>7, <1>8, <1>9, <1>10, <1>11, <1>13, <1>14, <1>15, <1>17

\* A request begins to check the funds for the object in this.workflows.
LEMMA CheckingKeeps ==
    ASSUME Workflow!WorkflowAssumption, WorkflowInv, NEW h \in Requests, handler[h].pc = "idle",
           current # NoHandler, status[current] = Awaiting,
           handler' = [handler EXCEPT ![h] = [pc |-> "work", op |-> "approve",
                                              object |-> current, copy |-> Awaiting]],
           status' = status, queue' = queue, Workflow!Contending(h, "approve"),
           UNCHANGED <<current, stored, executed, withdrawn, faults>>
    PROVE  WorkflowInv'
<1> USE DEF WorkflowInv
<1>1. /\ handler' \in [Handlers -> Workflow!Handler]
      /\ handler'[h].pc = "work" /\ handler'[h].op = "approve" /\ handler'[h].object = current
      /\ \A g \in Handlers \ {h} : handler'[g] = handler[g]
      /\ h # Creator /\ handler'[Creator] = handler[Creator]
      /\ current \in Handlers
  BY DEF Workflow!TypeOK, Workflow!Handler, Workflow!Operation, Workflow!Status,
     Workflow!WorkflowAssumption
<1>2. PlanOver /\ ~Sealed
  BY <1>1 DEF Unplanned, Sealed
<1>3. contended' \in BOOLEAN /\ (contended => contended')
  BY DEF Workflow!Contending, Workflow!TypeOK
<1>4. Workflow!TypeOK'
  BY <1>1, <1>3 DEF Workflow!TypeOK
<1>5. Queued' /\ Doing'
  BY <1>1 DEF Queued, Doing
<1>6. NotCreated' /\ Shared' /\ AskedEarly' /\ SavedLater'
  BY <1>1 DEF NotCreated, Shared, AskedEarly, SavedLater
<1>7. InUse'
  <2>1. \A o \in Handlers : handler[o].pc \notin {"idle", "get"} =>
           handler'[o].pc \notin {"idle", "get"}
    BY <1>1
  <2>2. handler'[current].pc \notin {"idle", "get"}
    BY <1>1, <2>1 DEF InUse
  <2>3. ASSUME NEW g \in Handlers, handler'[g].pc \in {"save", "list", "work"}
        PROVE  handler'[handler'[g].object].pc \notin {"idle", "get"}
    <3>1. CASE g = h
      BY <1>1, <2>2, <3>1
    <3>2. CASE g # h
      BY <1>1, <2>1, <2>3, <3>2 DEF InUse, Doing
    <3> QED
      BY <3>1, <3>2
  <2> QED
    BY <2>2, <2>3 DEF InUse
<1>8. Unplanned'
  BY <1>1, <1>2 DEF Unplanned, PlanOver
<1>9. Overwritten' /\ Restored'
  BY <1>1 DEF Overwritten, Restored
<1>10. ApprovedLater'
  BY <1>1 DEF ApprovedLater
<1>11. OneApproval'
  BY <1>1 DEF OneApproval, Workflow!Contending, Workflow!InProgress
<1>12. Sealing' /\ Single'
  BY <1>2, <1>3 DEF Sealing, Single
<1> QED
  BY <1>4, <1>5, <1>6, <1>7, <1>8, <1>9, <1>10, <1>11, <1>12

\* A request asks Redis for the record.
LEMMA GettingKeeps ==
    ASSUME Workflow!WorkflowAssumption, WorkflowInv, NEW h \in Requests,
           NEW op \in {"view", "approve", "cancel"},
           handler[h].pc = "idle", current = NoHandler,
           handler' = [handler EXCEPT ![h] = [Workflow!Idle EXCEPT !.pc = "get", !.op = op]],
           queue' = Append(queue, h), Workflow!Contending(h, op),
           UNCHANGED <<status, current, stored, executed, withdrawn, faults>>
    PROVE  WorkflowInv'
<1> USE DEF WorkflowInv
<1>1. /\ handler' \in [Handlers -> Workflow!Handler]
      /\ handler'[h].pc = "get" /\ handler'[h].op = op
      /\ \A g \in Handlers \ {h} : handler'[g] = handler[g]
      /\ h # Creator /\ handler'[Creator] = handler[Creator]
  BY DEF Workflow!TypeOK, Workflow!Handler, Workflow!Operation, Workflow!Status,
     Workflow!WorkflowAssumption, Workflow!Idle
<1>2. /\ queue' \in Seq(Handlers) /\ Distinct(queue')
      /\ Members(queue') = Members(queue) \cup {h}
      /\ \A x, y : Before(queue, x, y) /\ x # h => Before(queue', x, y)
  BY QueueRejoined DEF Without
<1>3. ~Busy(Creator)
  BY DEF Shared, Workflow!WorkflowAssumption
<1>4. contended' \in BOOLEAN /\ (contended => contended')
  BY DEF Workflow!Contending, Workflow!TypeOK
<1>5. Workflow!TypeOK'
  BY <1>1, <1>2, <1>4 DEF Workflow!TypeOK
<1>6. Queued'
  BY <1>1, <1>2 DEF Queued
<1>7. Doing'
  BY <1>1 DEF Doing
<1>8. NotCreated' /\ Shared' /\ AskedEarly' /\ SavedLater'
  BY <1>1, <1>3 DEF NotCreated, Shared, AskedEarly, SavedLater
<1>9. InUse'
  <2>1. \A o \in Handlers : handler[o].pc \notin {"idle", "get"} =>
           handler'[o].pc \notin {"idle", "get"}
    BY <1>1
  <2>2. ASSUME NEW g \in Handlers, handler'[g].pc \in {"save", "list", "work"}
        PROVE  handler'[handler'[g].object].pc \notin {"idle", "get"}
    BY <1>1, <2>1, <2>2 DEF InUse, Doing
  <2> QED
    BY <2>2 DEF InUse
<1>10. Unplanned'
  BY <1>1 DEF Unplanned, PlanOver
<1>11. Overwritten' /\ Restored'
  BY <1>1, <1>3 DEF Overwritten, Restored
<1>12. ApprovedLater'
  BY <1>1, <1>3 DEF ApprovedLater
<1>13. OneApproval'
  BY <1>1 DEF OneApproval, Workflow!Contending, Workflow!InProgress
<1>14. Sealed => Sealed'
  BY <1>1 DEF Sealed, PlanOver
<1>15. Sealing' /\ Single'
  BY <1>4, <1>14 DEF Sealing, Single
<1> QED
  BY <1>5, <1>6, <1>7, <1>8, <1>9, <1>10, <1>11, <1>12, <1>13, <1>15

LEMMA BeginKeeps ==
    ASSUME Workflow!WorkflowAssumption, WorkflowInv, NEW h \in Requests,
           NEW op \in {"view", "approve", "cancel"},
           Workflow!Begin(h, op)
    PROVE  WorkflowInv'
<1> USE DEF WorkflowInv
<1>1. /\ handler[h].pc = "idle" /\ Workflow!Contending(h, op) /\ h \in Handlers
      /\ current' = current /\ stored' = stored /\ executed' = executed
      /\ withdrawn' = withdrawn /\ faults' = faults
  BY DEF Workflow!Begin
<1>2. /\ contended' \in BOOLEAN /\ (contended => contended')
      /\ op # "approve" => contended' = contended
  BY <1>1 DEF Workflow!Contending, Workflow!TypeOK
<1>3. Without(queue, h)
  BY <1>1 DEF Without
<1>4. faults' \in 0..MaxFaults
  BY <1>1 DEF Workflow!TypeOK
<1>5. CASE current = NoHandler
  BY <1>1, <1>5, GettingKeeps DEF Workflow!Begin
<1>6. CASE current # NoHandler
  <2> DEFINE s == status[current]
  <2>1. /\ Workflow!Decide(h, op, current, s, queue)
        /\ current \in Handlers /\ s \in Workflow!Status /\ handler[Creator].pc # "idle"
        /\ handler[current].pc \notin {"idle", "get"}
        /\ Busy(Creator) => current = Creator
    BY <1>6 DEF Workflow!Begin, Workflow!TypeOK, NotCreated, InUse, Shared
  <2>2. [status EXCEPT ![current] = s] = status
    BY <2>1 DEF Workflow!TypeOK
  <2>3. CASE op = "approve" /\ s = Awaiting
    <3>1. /\ handler' = [handler EXCEPT ![h] = [pc |-> "work", op |-> "approve",
                                                object |-> current, copy |-> Awaiting]]
          /\ status' = status /\ queue' = queue
      BY <2>1, <2>2, <2>3 DEF Workflow!Decide
    <3> QED
      BY <1>1, <1>6, <2>3, <3>1, CheckingKeeps
  <2>4. CASE op = "cancel" /\ s \notin {"completed", "failed"}
    <3>1. Workflow!SetAndSave(h, "cancel", current, "cancelled", queue)
      BY <2>1, <2>4 DEF Workflow!Decide
    <3>2. "cancelled" \in Workflow!Status \ {Awaiting} /\ contended' = contended
      BY <1>2, <2>4 DEF Workflow!Status
    <3> QED
      BY <1>1, <1>3, <1>4, <2>1, <3>1, <3>2, SavingKeeps
  <2>5. CASE /\ ~(op = "approve" /\ s = Awaiting)
             /\ ~(op = "cancel" /\ s \notin {"completed", "failed"})
    <3>1. Workflow!Done(h) /\ status' = status /\ queue' = queue
      BY <2>1, <2>2, <2>5 DEF Workflow!Decide
    <3>2. h # Creator
      BY DEF Workflow!WorkflowAssumption
    <3> QED
      BY <1>1, <1>2, <1>3, <1>4, <3>1, <3>2, LeavingKeeps
  <2> QED
    BY <2>3, <2>4, <2>5
<1> QED
  BY <1>5, <1>6

LEMMA LoadKeeps ==
    ASSUME Workflow!WorkflowAssumption, WorkflowInv, NEW h \in Requests, Workflow!Load(h)
    PROVE  WorkflowInv'
<1> USE DEF WorkflowInv
<1>1. /\ handler[h].pc = "get" /\ h \in Handlers /\ queue # <<>> /\ Head(queue) = h
      /\ stored' = stored /\ executed' = executed /\ contended' = contended
      /\ withdrawn' = withdrawn /\ faults' = faults
  BY DEF Workflow!Load, Workflow!history
<1>2. Without(Tail(queue), h)
  BY <1>1 DEF Without
<1>3. contended' \in BOOLEAN /\ faults' \in 0..MaxFaults /\ h # Creator
  BY <1>1 DEF Workflow!TypeOK, Workflow!WorkflowAssumption
<1>4. CASE stored = "none"
  <2>1. Workflow!Done(h) /\ queue' = Tail(queue) /\ status' = status /\ current' = current
    BY <1>4 DEF Workflow!Load
  <2> QED
    BY <1>1, <1>2, <1>3, <2>1, LeavingKeeps
<1>5. CASE stored # "none"
  <2> DEFINE op == handler[h].op
  <2>1. Workflow!Decide(h, op, h, stored, Tail(queue)) /\ current' = h
    BY <1>5 DEF Workflow!Load
  <2>2. handler[Creator].pc = "done"
    BY <1>1, <1>5 DEF NotCreated, AskedEarly
  <2>3. CASE op = "approve" /\ stored = Awaiting
    <3>1. /\ handler' = [handler EXCEPT ![h] = [pc |-> "work", op |-> "approve",
                                                object |-> h, copy |-> stored]]
          /\ status' = [status EXCEPT ![h] = stored] /\ queue' = Tail(queue)
      BY <2>1, <2>3 DEF Workflow!Decide
    <3> QED
      BY <1>1, <1>5, <2>1, <2>3, <3>1, ParsedKeeps DEF Workflow!history
  <2>4. CASE op = "cancel" /\ stored \notin {"completed", "failed"}
    <3>1. Workflow!SetAndSave(h, "cancel", h, "cancelled", Tail(queue))
      BY <2>1, <2>4 DEF Workflow!Decide
    <3>2. "cancelled" \in Workflow!Status \ {Awaiting}
      BY DEF Workflow!Status
    <3> QED
      BY <1>1, <1>2, <1>3, <2>1, <2>2, <3>1, <3>2, SavingKeeps
  <2>5. CASE /\ ~(op = "approve" /\ stored = Awaiting)
             /\ ~(op = "cancel" /\ stored \notin {"completed", "failed"})
    <3>1. Workflow!Done(h) /\ status' = [status EXCEPT ![h] = stored] /\ queue' = Tail(queue)
      BY <2>1, <2>5 DEF Workflow!Decide
    <3> QED
      BY <1>1, <1>5, <2>1, <3>1, ParsedKeeps DEF Workflow!history
  <2> QED
    BY <2>3, <2>4, <2>5
<1> QED
  BY <1>4, <1>5

LEMMA CheckFundsKeeps ==
    ASSUME Workflow!WorkflowAssumption, WorkflowInv, NEW h \in Requests, Workflow!CheckFunds(h)
    PROVE  WorkflowInv'
<1> USE DEF WorkflowInv
<1>1. /\ handler[h].pc = "work" /\ handler[h].op = "approve" /\ h \in Handlers
      /\ current' = current /\ stored' = stored /\ executed' = executed
      /\ contended' = contended /\ withdrawn' = withdrawn /\ faults' = faults
  BY DEF Workflow!CheckFunds, Workflow!At, Workflow!history
<1>2. Without(queue, h)
  BY <1>1 DEF Without
<1>3. contended' \in BOOLEAN /\ faults' \in 0..MaxFaults /\ h # Creator
  BY <1>1 DEF Workflow!TypeOK, Workflow!WorkflowAssumption
<1>4. CASE Workflow!SetAndSave(h, "approve", Object(h), "approved", queue)
  <2>1. PlanOver /\ ~Sealed
    BY <1>1 DEF Unplanned, Sealed
  <2>2. /\ handler[Creator].pc # "idle" /\ Object(h) \in Handlers
        /\ handler[Object(h)].pc \notin {"idle", "get"}
        /\ Busy(Creator) => Object(h) = Creator
    BY <1>1 DEF NotCreated, Doing, InUse, Shared
  <2>3. "approved" \in Workflow!Status \ {Awaiting}
    BY DEF Workflow!Status
  <2> QED
    BY <1>1, <1>2, <1>3, <1>4, <2>1, <2>2, <2>3, SavingKeeps
<1>5. CASE Workflow!Done(h) /\ UNCHANGED <<status, queue>>
  BY <1>1, <1>2, <1>3, <1>5, LeavingKeeps
<1> QED
  BY <1>4, <1>5 DEF Workflow!CheckFunds

LEMMA EndExecutionKeeps ==
    ASSUME Workflow!WorkflowAssumption, WorkflowInv, NEW h \in Requests, Workflow!EndExecution(h)
    PROVE  WorkflowInv'
<1> USE DEF WorkflowInv
<1>1. /\ handler[h].pc = "work" /\ handler[h].op = "execute" /\ h \in Handlers
      /\ current' = current /\ stored' = stored /\ executed' = executed
      /\ contended' = contended /\ withdrawn' = withdrawn /\ faults' = faults
  BY DEF Workflow!EndExecution, Workflow!At, Workflow!history
<1>2. Without(queue, h)
  BY <1>1 DEF Without
<1>3. faults' \in 0..MaxFaults
  BY <1>1 DEF Workflow!TypeOK
<1>4. PlanOver /\ ~CreatorAt("save", "plan")
  BY <1>1 DEF Unplanned, ApprovedLater
<1>5. /\ handler[Creator].pc # "idle" /\ Object(h) \in Handlers
      /\ handler[Object(h)].pc \notin {"idle", "get"}
      /\ Busy(Creator) => Object(h) = Creator
  BY <1>1 DEF NotCreated, Doing, InUse, Shared
<1>6. PICK result \in {"completed", "failed"} :
         Workflow!SetAndSave(h, "execute", Object(h), result, queue)
  BY DEF Workflow!EndExecution
<1>7. result \in Workflow!Status \ {Awaiting}
  BY DEF Workflow!Status
<1> QED
  BY <1>1, <1>2, <1>3, <1>4, <1>5, <1>6, <1>7, SavingKeeps

-----------------------------------------------------------------------------
LEMMA StoreKeeps ==
    ASSUME Workflow!WorkflowAssumption, WorkflowInv, NEW h \in Handlers, Workflow!Store(h)
    PROVE  WorkflowInv'
<1> USE DEF WorkflowInv
<1>1. /\ handler[h].pc = "save" /\ queue # <<>> /\ Head(queue) = h
      /\ stored' = handler[h].copy /\ queue' = Append(Tail(queue), h)
      /\ status' = status /\ current' = current /\ executed' = executed
      /\ contended' = contended /\ withdrawn' = withdrawn /\ faults' = faults
  BY DEF Workflow!Store, Workflow!history
<1>2. /\ handler' \in [Handlers -> Workflow!Handler]
      /\ handler'[h].pc = "list" /\ handler'[h].op = handler[h].op
      /\ handler'[h].object = handler[h].object
      /\ \A g \in Handlers \ {h} : handler'[g] = handler[g]
      /\ stored' \in Workflow!Status
  BY <1>1 DEF Workflow!Store, Workflow!TypeOK, Workflow!Handler
<1>3. /\ queue' \in Seq(Handlers) /\ Distinct(queue')
      /\ Members(queue') = Members(queue) \cup {h}
      /\ \A x, y : Before(queue, x, y) /\ x # h => Before(queue', x, y)
      /\ \A x \in Members(queue) \ {h} : Before(queue', x, h)
  BY <1>1, QueueRejoined DEF Without
<1>4. \A x : ~Before(queue, x, h)
  BY <1>1, FirstIsFirst
<1>5. stored' = Awaiting => h = Creator /\ handler[h].op = "plan"
  BY <1>1 DEF Doing
<1>6. \A g \in Handlers : /\ handler'[g].op = handler[g].op
                          /\ handler'[g].object = handler[g].object
                          /\ Holding(g) <=> handler'[g].pc \in {"save", "list", "work"}
                          /\ Busy(g) <=> handler'[g].pc \notin {"idle", "done"}
                          /\ Waiting(g) <=> handler'[g].pc \in {"get", "save", "list"}
                          /\ handler'[g].pc \in {"idle", "get", "work", "done"} =>
                                handler'[g] = handler[g]
  BY <1>1, <1>2
<1>7. Workflow!TypeOK'
  BY <1>1, <1>2, <1>3 DEF Workflow!TypeOK
<1>8. Queued'
  BY <1>1, <1>2, <1>3, <1>6 DEF Queued
<1>9. Doing'
  BY <1>1, <1>2 DEF Doing
<1>10. NotCreated'
  BY <1>1, <1>2 DEF NotCreated
<1>11. Shared'
  BY <1>1, <1>6 DEF Shared
<1>12. AskedEarly'
  <2>1. SUFFICES ASSUME NEW g \in Requests, Busy(Creator), handler[g].pc = "get" PROVE FALSE
    BY <1>2, <1>6 DEF AskedEarly
  <2>2. CreatorAt("save", "create") /\ Before(queue, g, Creator)
    BY <2>1 DEF AskedEarly
  <2>3. h # Creator /\ h \in Requests
    BY <1>4, <2>2
  <2>4. Before(queue, Creator, h)
    BY <1>1, <2>2, <2>3 DEF SavedLater
  <2> QED
    BY <1>4, <2>4
<1>13. SavedLater'
  BY <1>1, <1>2, <1>3, <1>4 DEF SavedLater
<1>14. InUse'
  <2>1. \A o \in Handlers : handler[o].pc \notin {"idle", "get"} =>
           handler'[o].pc \notin {"idle", "get"}
    BY <1>2
  <2>2. current' # NoHandler => handler'[current'].pc \notin {"idle", "get"}
    BY <1>1, <2>1 DEF InUse, Workflow!TypeOK
  <2>3. ASSUME NEW g \in Handlers, handler'[g].pc \in {"save", "list", "work"}
        PROVE  handler'[handler'[g].object].pc \notin {"idle", "get"}
    BY <1>6, <2>1, <2>3 DEF InUse, Doing
  <2> QED
    BY <2>2, <2>3 DEF InUse
<1>15. PlanOver <=> PlanOver'
  BY <1>1, <1>2 DEF PlanOver
<1>16. Unplanned'
  <2>1. h = Creator /\ handler[h].op = "plan" => PlanOver
    BY <1>1 DEF PlanOver
  <2> QED
    BY <1>1, <1>5, <1>6, <1>15, <2>1 DEF Unplanned
<1>17. Overwritten'
  <2>1. SUFFICES ASSUME NEW g \in Requests, handler'[g].pc \in {"save", "list"},
                        status[handler[g].object] = Awaiting
        PROVE  /\ handler[g].op = "cancel"
               /\ \/ /\ handler'[Creator].pc = "save" /\ handler[Creator].op = "plan"
                     /\ handler'[g].pc = "save" => Before(queue', g, Creator)
                  \/ /\ handler'[Creator].pc = "list" /\ handler[Creator].op = "plan"
                     /\ handler'[g].pc = "list" /\ Before(queue', g, Creator)
    BY <1>1, <1>6 DEF Overwritten
  <2>2. handler[g].pc \in {"save", "list"} /\ g \in Members(queue)
    BY <1>1, <1>2, <2>1 DEF Queued
  <2>3. /\ handler[g].op = "cancel"
        /\ \/ CreatorAt("save", "plan") /\ (handler[g].pc = "save" => Before(queue, g, Creator))
           \/ CreatorAt("list", "plan") /\ handler[g].pc = "list" /\ Before(queue, g, Creator)
    BY <2>1, <2>2 DEF Overwritten
  <2>4. CASE h = Creator
    BY <1>1, <1>2, <1>3, <1>4, <2>2, <2>3, <2>4 DEF Workflow!WorkflowAssumption
  <2>5. CASE h = g
    BY <1>1, <1>2, <2>3, <2>5 DEF Workflow!WorkflowAssumption
  <2>6. CASE h # Creator /\ h # g
    BY <1>2, <1>3, <2>3, <2>6
  <2> QED
    BY <2>4, <2>5, <2>6
<1>18. Restored'
  <2>1. SUFFICES ASSUME NEW g \in Requests, handler'[g].pc = "list", stored' = Awaiting
                 PROVE  /\ handler[g].op = "cancel"
                        /\ handler'[Creator].pc = "list" /\ handler[Creator].op = "plan"
                        /\ Before(queue', g, Creator)
    BY <1>6 DEF Restored
  <2>2. h = Creator /\ handler[h].op = "plan" /\ g # h /\ handler[g].pc = "list"
    BY <1>2, <1>5, <2>1 DEF Workflow!WorkflowAssumption
  <2>3. handler[g].op = "cancel"
    BY <1>1, <2>2 DEF Doing, ApprovedLater
  <2> QED
    BY <1>2, <1>3, <2>2, <2>3 DEF Queued
<1>19. ApprovedLater'
  <2>1. SUFFICES ASSUME NEW g \in Requests, handler'[Creator].pc = "save",
                        handler[Creator].op = "plan"
                 PROVE  /\ handler[g].op = "approve" /\ handler'[g].pc \in {"save", "list"} =>
                              handler'[g].pc = "save" /\ Before(queue', Creator, g)
                        /\ handler[g].op \in {"execute", "executeFailed"} => ~Busy(g)
    BY <1>6 DEF ApprovedLater
  <2>2. h # Creator /\ CreatorAt("save", "plan")
    BY <1>2, <2>1
  <2>3. /\ handler[g].op = "approve" /\ handler[g].pc \in {"save", "list"} =>
              handler[g].pc = "save" /\ Before(queue, Creator, g)
        /\ handler[g].op \in {"execute", "executeFailed"} => ~Busy(g)
    BY <2>2 DEF ApprovedLater
  <2> QED
    BY <1>1, <1>2, <1>3, <1>4, <2>2, <2>3
<1>20. OneApproval'
  BY <1>1, <1>6 DEF OneApproval
<1>21. Sealed => Sealed'
  BY <1>1, <1>2, <1>6, <1>15 DEF Sealed
<1>22. Sealing' /\ Single'
  BY <1>1, <1>21 DEF Sealing, Single
<1> QED
  BY <1>7, <1>8, <1>9, <1>10, <1>11, <1>12, <1>13, <1>14, <1>16, <1>17, <1>18, <1>19, <1>20, <1>22

\* What the end of saving does to any handler
LEMMA SavedStep ==
    ASSUME Workflow!WorkflowAssumption, WorkflowInv, NEW h \in Handlers, Workflow!Saved(h)
    PROVE  /\ handler[h].pc = "list" /\ queue # <<>> /\ Head(queue) = h /\ Without(queue', h)
           /\ status' = status /\ stored' = stored /\ current' = Object(h)
           /\ contended' = contended /\ faults' = faults
           /\ executed' = IF handler[h].op = "approve" THEN executed \cup {h} ELSE executed
           /\ withdrawn' = (withdrawn \/ (handler[h].op = "cancel" /\ Workflow!Quiet(h)))
           /\ handler' \in [Handlers -> Workflow!Handler]
           /\ handler'[h].pc = IF handler[h].op \in {"create", "approve"} THEN "work" ELSE "done"
           /\ handler'[h].op = IF handler[h].op = "create" THEN "plan"
                               ELSE IF handler[h].op = "approve" THEN "execute" ELSE handler[h].op
           /\ handler'[h].object = handler[h].object /\ handler'[h].copy = handler[h].copy
           /\ \A g \in Handlers \ {h} : handler'[g] = handler[g]
           /\ Object(h) \in Handlers /\ handler[Object(h)].pc \notin {"idle", "get"}
           /\ Workflow!TypeOK' /\ Queued'
           /\ \A x, y : Before(queue, x, y) /\ x # h => Before(queue', x, y)
           /\ \A x : ~Before(queue, x, h)
<1> USE DEF WorkflowInv
<1>1. /\ handler[h].pc = "list" /\ queue # <<>> /\ Head(queue) = h /\ queue' = Tail(queue)
      /\ status' = status /\ stored' = stored /\ current' = Object(h)
      /\ contended' = contended /\ faults' = faults
      /\ executed' = IF handler[h].op = "approve" THEN executed \cup {h} ELSE executed
      /\ withdrawn' = (withdrawn \/ (handler[h].op = "cancel" /\ Workflow!Quiet(h)))
  BY DEF Workflow!Saved
<1>2. /\ handler' \in [Handlers -> Workflow!Handler]
      /\ handler'[h].pc = IF handler[h].op \in {"create", "approve"} THEN "work" ELSE "done"
      /\ handler'[h].op = IF handler[h].op = "create" THEN "plan"
                          ELSE IF handler[h].op = "approve" THEN "execute" ELSE handler[h].op
      /\ handler'[h].object = handler[h].object /\ handler'[h].copy = handler[h].copy
      /\ \A g \in Handlers \ {h} : handler'[g] = handler[g]
  <2> DEFINE at == IF handler[h].op \in {"create", "approve"} THEN "work" ELSE "done"
             op == IF handler[h].op = "create" THEN "plan"
                   ELSE IF handler[h].op = "approve" THEN "execute" ELSE handler[h].op
  <2>1. handler' = [handler EXCEPT ![h] = [handler[h] EXCEPT !.pc = at, !.op = op]]
    BY <1>1 DEF Workflow!Saved, Workflow!TypeOK
  <2>2. handler[h] \in Workflow!Handler /\ at \in {"work", "done"} /\ op \in Workflow!Operation
    BY DEF Workflow!TypeOK, Workflow!Handler, Workflow!Operation
  <2> HIDE DEF at, op
  <2>3. /\ [handler[h] EXCEPT !.pc = at, !.op = op] \in Workflow!Handler
        /\ [handler[h] EXCEPT !.pc = at, !.op = op].pc = at
        /\ [handler[h] EXCEPT !.pc = at, !.op = op].op = op
        /\ [handler[h] EXCEPT !.pc = at, !.op = op].object = handler[h].object
        /\ [handler[h] EXCEPT !.pc = at, !.op = op].copy = handler[h].copy
    BY <2>2 DEF Workflow!Handler
  <2>4. /\ handler' \in [Handlers -> Workflow!Handler]
        /\ handler'[h] = [handler[h] EXCEPT !.pc = at, !.op = op]
        /\ \A g \in Handlers \ {h} : handler'[g] = handler[g]
    BY <2>1, <2>3 DEF Workflow!TypeOK
  <2> QED
    BY <2>3, <2>4 DEF at, op
<1>3. Without(queue', h)
  BY <1>1 DEF Without
<1>4. /\ queue' \in Seq(Handlers) /\ Distinct(queue')
      /\ Members(queue') = Members(queue) \ {h}
      /\ \A x, y : Before(queue, x, y) /\ x # h => Before(queue', x, y)
  BY <1>3, QueueWithout
<1>5. \A x : ~Before(queue, x, h)
  BY <1>1, FirstIsFirst
<1>6. Object(h) \in Handlers /\ handler[Object(h)].pc \notin {"idle", "get"}
  BY <1>1 DEF Doing, InUse
<1>7. executed' \subseteq Requests /\ withdrawn' \in BOOLEAN
  BY <1>1 DEF Workflow!TypeOK, Doing
<1>8. Workflow!TypeOK'
  BY <1>1, <1>2, <1>4, <1>6, <1>7 DEF Workflow!TypeOK
<1>9. Queued'
  BY <1>1, <1>2, <1>4 DEF Queued
<1> QED
  BY <1>1, <1>2, <1>3, <1>4, <1>5, <1>6, <1>8, <1>9

LEMMA CreatorSavedKeeps ==
    ASSUME Workflow!WorkflowAssumption, WorkflowInv, Workflow!Saved(Creator)
    PROVE  WorkflowInv'
<1> USE DEF WorkflowInv
<1>1. /\ handler[Creator].pc = "list" /\ handler[Creator].op \in {"create", "plan", "planFailed"}
      /\ status' = status /\ stored' = stored /\ current' = Creator
      /\ executed' = executed /\ contended' = contended /\ withdrawn' = withdrawn
      /\ handler'[Creator].pc = IF handler[Creator].op = "create" THEN "work" ELSE "done"
      /\ handler'[Creator].op = IF handler[Creator].op = "create" THEN "plan"
                                ELSE handler[Creator].op
      /\ handler'[Creator].object = Creator
      /\ \A g \in Requests : handler'[g] = handler[g]
      /\ Workflow!TypeOK' /\ Queued'
      /\ \A x : ~Before(queue, x, Creator)
  <2>1. handler[Creator].pc = "list"
    BY SavedStep
  <2>2. handler[Creator].op \in {"create", "plan", "planFailed"} /\ Object(Creator) = Creator
    BY <2>1 DEF Doing
  <2>3. /\ status' = status /\ stored' = stored /\ current' = Object(Creator)
        /\ contended' = contended
        /\ executed' = IF handler[Creator].op = "approve" THEN executed \cup {Creator} ELSE executed
        /\ withdrawn' = (withdrawn \/ (handler[Creator].op = "cancel" /\ Workflow!Quiet(Creator)))
        /\ handler'[Creator].pc =
              IF handler[Creator].op \in {"create", "approve"} THEN "work" ELSE "done"
        /\ handler'[Creator].op = IF handler[Creator].op = "create" THEN "plan"
                            ELSE IF handler[Creator].op = "approve" THEN "execute"
                            ELSE handler[Creator].op
        /\ handler'[Creator].object = handler[Creator].object
    BY SavedStep
  <2>4. \A g \in Requests : handler'[g] = handler[g]
    BY SavedStep DEF Workflow!WorkflowAssumption
  <2>5. Workflow!TypeOK' /\ Queued' /\ \A x : ~Before(queue, x, Creator)
    BY SavedStep
  <2> QED
    BY <2>1, <2>2, <2>3, <2>4, <2>5 DEF Workflow!TypeOK
<1>2. Doing'
  BY <1>1 DEF Doing
<1>3. NotCreated' /\ Shared' /\ SavedLater'
  BY <1>1 DEF NotCreated, Shared, SavedLater
<1>4. AskedEarly'
  BY <1>1 DEF AskedEarly
<1>5. InUse'
  BY <1>1 DEF InUse, Doing
<1>6. Unplanned'
  BY <1>1 DEF Unplanned, PlanOver
<1>7. Overwritten'
  BY <1>1 DEF Overwritten
<1>8. Restored' /\ ApprovedLater'
  BY <1>1 DEF Restored, ApprovedLater
<1>9. OneApproval'
  BY <1>1 DEF OneApproval
<1>10. Sealed => Sealed'
  BY <1>1 DEF Sealed, PlanOver, Doing
<1>11. Sealing' /\ Single'
  BY <1>1, <1>10 DEF Sealing, Single
<1> QED
  BY <1>1, <1>2, <1>3, <1>4, <1>5, <1>6, <1>7, <1>8, <1>9, <1>11

\* An approval that nobody contends, or a cancellation when nothing is under way, leaves
\* nothing that could be approved.
LEMMA SavedSeals ==
    ASSUME Workflow!WorkflowAssumption, WorkflowInv, NEW h \in Requests, Workflow!Saved(h),
           \/ handler[h].op = "approve" /\ ~contended
           \/ handler[h].op = "cancel" /\ Workflow!Quiet(h)
    PROVE  Sealed'
<1> USE DEF WorkflowInv
<1>1. /\ handler[h].pc = "list" /\ h \in Handlers /\ h # Creator
      /\ status' = status /\ stored' = stored /\ current' = Object(h) /\ Object(h) \in Handlers
      /\ handler'[h].pc = IF handler[h].op = "approve" THEN "work" ELSE "done"
      /\ handler[h].op = "approve" => handler'[h].op = "execute"
      /\ \A g \in Handlers \ {h} : handler'[g] = handler[g]
      /\ \A x : ~Before(queue, x, h)
  BY SavedStep DEF Workflow!WorkflowAssumption
<1>2. handler[h].op \in {"approve", "cancel"} /\ (handler[h].op = "cancel" => ~Busy(Creator))
  BY <1>1 DEF Workflow!Quiet, Workflow!InProgress, Doing, Workflow!TypeOK, Workflow!Handler
<1>3. ~CreatorAt("save", "plan")
  BY <1>1, <1>2 DEF ApprovedLater
<1>4. PlanOver
  BY <1>1, <1>2 DEF Unplanned, PlanOver, NotCreated, Workflow!TypeOK, Workflow!Handler
<1>5. stored # Awaiting
  BY <1>1, <1>2 DEF Restored
<1>6. status[Object(h)] # Awaiting
  BY <1>1, <1>2, <1>3 DEF Overwritten
<1>7. ASSUME NEW g \in Handlers, handler[g].pc \in {"save", "list"}
      PROVE  status[Object(g)] # Awaiting
  <2>1. CASE g = Creator
    BY <1>1, <1>6, <1>7, <2>1 DEF Doing, Shared
  <2>2. CASE g # Creator
    <3>1. ASSUME status[Object(g)] = Awaiting PROVE FALSE
      <4>1. CreatorAt("list", "plan")
        BY <1>3, <1>7, <2>2, <3>1 DEF Overwritten
      <4>2. Object(g) = Creator /\ Object(h) = Creator
        BY <1>1, <1>7, <2>2, <4>1 DEF Shared
      <4> QED
        BY <1>6, <3>1, <4>2
    <3> QED
      BY <3>1
  <2> QED
    BY <2>1, <2>2
<1>8. ASSUME NEW g \in Handlers, handler[g].pc = "save" PROVE handler[g].copy # Awaiting
  BY <1>3, <1>8 DEF Doing
<1>9. ASSUME NEW g \in Requests \ {h}, Holding(g) PROVE handler[g].op # "approve"
  BY <1>1, <1>9 DEF OneApproval, Workflow!Quiet, Workflow!InProgress
<1>10. PlanOver'
  BY <1>1, <1>4 DEF PlanOver
<1> QED
  BY <1>1, <1>5, <1>6, <1>7, <1>8, <1>9, <1>10 DEF Sealed

LEMMA RequestSavedKeeps ==
    ASSUME Workflow!WorkflowAssumption, WorkflowInv, NEW h \in Requests, Workflow!Saved(h)
    PROVE  WorkflowInv'
<1> USE DEF WorkflowInv
<1>1. /\ handler[h].pc = "list" /\ h \in Handlers /\ h # Creator
      /\ status' = status /\ stored' = stored /\ current' = Object(h) /\ contended' = contended
      /\ executed' = IF handler[h].op = "approve" THEN executed \cup {h} ELSE executed
      /\ withdrawn' = (withdrawn \/ (handler[h].op = "cancel" /\ Workflow!Quiet(h)))
      /\ handler'[h].pc = IF handler[h].op = "approve" THEN "work" ELSE "done"
      /\ handler'[h].op = IF handler[h].op = "approve" THEN "execute" ELSE handler[h].op
      /\ handler'[h].object = handler[h].object
      /\ handler[h].op \in {"approve", "cancel", "execute", "executeFailed"}
      /\ \A g \in Handlers \ {h} : handler'[g] = handler[g]
      /\ handler'[Creator] = handler[Creator]
      /\ Object(h) \in Handlers /\ handler[Object(h)].pc \notin {"idle", "get"}
      /\ \A x, y : Before(queue, x, y) /\ x # h => Before(queue', x, y)
      /\ \A x : ~Before(queue, x, h)
  <2>1. handler[h].pc = "list" /\ h \in Handlers /\ h # Creator
    BY SavedStep DEF Workflow!WorkflowAssumption
  <2>2. handler[h].op \in {"approve", "cancel", "execute", "executeFailed"}
    BY <2>1 DEF Doing
  <2> QED
    BY <2>1, <2>2, SavedStep
<1>2. Workflow!TypeOK' /\ Queued'
  BY SavedStep
<1>3. Doing'
  BY <1>1 DEF Doing
<1>4. NotCreated'
  BY <1>1 DEF NotCreated
<1>5. Shared'
  BY <1>1 DEF Shared
<1>6. AskedEarly' /\ SavedLater'
  BY <1>1 DEF AskedEarly, SavedLater
<1>7. InUse'
  <2>1. \A o \in Handlers : handler[o].pc \notin {"idle", "get"} =>
           handler'[o].pc \notin {"idle", "get"}
    BY <1>1
  <2>2. ASSUME NEW g \in Handlers, handler'[g].pc \in {"save", "list", "work"}
        PROVE  handler'[handler'[g].object].pc \notin {"idle", "get"}
    BY <1>1, <2>1, <2>2 DEF InUse, Doing
  <2> QED
    BY <1>1, <2>1, <2>2 DEF InUse
<1>8. Unplanned'
  BY <1>1 DEF Unplanned, PlanOver
<1>9. Overwritten'
  BY <1>1 DEF Overwritten
<1>10. Restored'
  BY <1>1 DEF Restored
<1>11. ApprovedLater'
  BY <1>1 DEF ApprovedLater
<1>12. OneApproval'
  BY <1>1 DEF OneApproval
<1>13. Sealed => handler[h].op # "approve" /\ Sealed'
  BY <1>1 DEF Sealed, PlanOver
<1>14. Sealing'
  <2>1. SUFFICES ASSUME withdrawn' \/ (executed' # {} /\ ~contended) PROVE Sealed'
    BY <1>1 DEF Sealing
  <2>2. CASE Sealed
    BY <1>13, <2>2
  <2>3. CASE ~Sealed
    <3>1. \/ handler[h].op = "cancel" /\ Workflow!Quiet(h)
          \/ handler[h].op = "approve" /\ ~contended
      BY <1>1, <2>1, <2>3 DEF Sealing
    <3> QED
      BY <3>1, SavedSeals
  <2> QED
    BY <2>2, <2>3
<1>15. Single'
  <2>1. CASE Sealed \/ contended
    BY <1>1, <1>13, <2>1 DEF Single
  <2>2. CASE ~Sealed /\ ~contended
    BY <1>1, <2>2 DEF Single, Sealing
  <2> QED
    BY <2>1, <2>2
<1> QED
  BY <1>2, <1>3, <1>4, <1>5, <1>6, <1>7, <1>8, <1>9, <1>10, <1>11, <1>12, <1>14, <1>15

-----------------------------------------------------------------------------
LEMMA DieKeeps ==
    ASSUME Workflow!WorkflowAssumption, WorkflowInv, handler[Creator].pc # "idle", Workflow!Die,
           faults' \in 0..MaxFaults
    PROVE  WorkflowInv'
<1> USE DEF WorkflowInv
<1>1. /\ current' = NoHandler /\ queue' = <<>> /\ status' = status /\ executed' = executed
      /\ contended' = contended /\ withdrawn' = withdrawn
      /\ handler' \in [Handlers -> Workflow!Handler]
      /\ \A g \in Handlers : handler'[g].pc \in {"idle", "done"}
      /\ handler'[Creator].pc = "done"
  <2>1. Workflow!Idle \in Workflow!Handler
    BY DEF Workflow!Idle, Workflow!Handler, Workflow!Operation, Workflow!Status
  <2>2. ASSUME NEW g \in Handlers
        PROVE  /\ [handler[g] EXCEPT !.pc = "done"] \in Workflow!Handler
               /\ [handler[g] EXCEPT !.pc = "done"].pc = "done"
    BY DEF Workflow!TypeOK, Workflow!Handler
  <2>3. Workflow!Idle.pc = "idle"
    BY DEF Workflow!Idle
  <2> HIDE DEF Workflow!Idle
  <2>4. handler' = [g \in Handlers |-> IF handler[g].pc = "idle" THEN Workflow!Idle
                                       ELSE [handler[g] EXCEPT !.pc = "done"]]
    BY DEF Workflow!Die
  <2>5. \A g \in Handlers : handler'[g] = IF handler[g].pc = "idle" THEN Workflow!Idle
                                          ELSE [handler[g] EXCEPT !.pc = "done"]
    BY <2>4
  <2>6. handler' \in [Handlers -> Workflow!Handler]
    BY <2>1, <2>2, <2>4
  <2> QED
    BY <2>2, <2>3, <2>5, <2>6 DEF Workflow!Die, Workflow!history
<1>2. stored' \in Workflow!Status /\ (stored' = Awaiting =>
         \/ stored = Awaiting
         \/ \E g \in Handlers : handler[g].pc = "save" /\ handler[g].copy = Awaiting)
  <2>1. CASE stored' = stored
    BY <2>1 DEF Workflow!TypeOK
  <2>2. CASE \E g \in Workflow!Range(queue) : handler[g].pc = "save" /\ stored' = handler[g].copy
    <3>1. PICK g \in Workflow!Range(queue) : handler[g].pc = "save" /\ stored' = handler[g].copy
      BY <2>2
    <3>2. g \in Handlers
      BY DEF Workflow!Range, Workflow!TypeOK
    <3> QED
      BY <3>1, <3>2 DEF Workflow!TypeOK, Workflow!Handler
  <2> QED
    BY <2>1, <2>2 DEF Workflow!Die, Workflow!Reached
<1>3. Workflow!TypeOK'
  BY <1>1, <1>2 DEF Workflow!TypeOK
<1>4. Queued'
  <2>1. Distinct(<<>>) /\ Members(<<>>) = {}
    BY DEF Distinct, Members
  <2> QED
    BY <1>1, <2>1 DEF Queued
<1>5. Doing' /\ NotCreated' /\ Shared' /\ AskedEarly' /\ SavedLater'
  BY <1>1 DEF Doing, NotCreated, Shared, AskedEarly, SavedLater
<1>6. InUse' /\ Unplanned'
  BY <1>1 DEF InUse, Unplanned, PlanOver
<1>7. Overwritten' /\ Restored' /\ ApprovedLater' /\ OneApproval'
  BY <1>1 DEF Overwritten, Restored, ApprovedLater, OneApproval
<1>8. Sealed => Sealed'
  BY <1>1, <1>2 DEF Sealed, PlanOver
<1>9. Sealing' /\ Single'
  BY <1>1, <1>8 DEF Sealing, Single
<1> QED
  BY <1>3, <1>4, <1>5, <1>6, <1>7, <1>9

\* Saving the plan throws, whether or not Redis has saved it: planning has failed.
LEMMA PlanThrowKeeps ==
    ASSUME Workflow!WorkflowAssumption, WorkflowInv, queue # <<>>, Head(queue) = Creator,
           handler[Creator].op = "plan",
           Workflow!SetAndSave(Creator, "planFailed", Creator, "failed", Tail(queue)),
           stored' = stored \/ (handler[Creator].pc = "save" /\ stored' = handler[Creator].copy),
           UNCHANGED <<current, executed, Workflow!history>>, faults' \in 0..MaxFaults
    PROVE  WorkflowInv'
<1> USE DEF WorkflowInv
<1>1. /\ handler[Creator].pc \in {"save", "list"}
      /\ \A x : ~Before(queue, x, Creator)
  BY FirstIsFirst DEF Doing
<1>2. /\ status' = [status EXCEPT ![Creator] = "failed"]
      /\ handler' = [handler EXCEPT ![Creator] =
            [pc |-> "save", op |-> "planFailed", object |-> Creator, copy |-> "failed"]]
      /\ queue' = Append(Tail(queue), Creator)
      /\ current' = current /\ executed' = executed /\ contended' = contended
      /\ withdrawn' = withdrawn
  BY DEF Workflow!SetAndSave, Workflow!history
<1>3. /\ queue' \in Seq(Handlers) /\ Distinct(queue')
      /\ Members(queue') = Members(queue) \cup {Creator}
      /\ \A x \in Members(queue) \ {Creator} : Before(queue', x, Creator)
  BY <1>2, QueueRejoined DEF Without
<1>4. /\ handler' \in [Handlers -> Workflow!Handler]
      /\ handler'[Creator].pc = "save" /\ handler'[Creator].op = "planFailed"
      /\ handler'[Creator].object = Creator /\ handler'[Creator].copy = "failed"
      /\ \A g \in Requests : handler'[g] = handler[g] /\ g # Creator
  BY <1>2 DEF Workflow!TypeOK, Workflow!Handler, Workflow!Operation, Workflow!Status,
     Workflow!WorkflowAssumption
<1>5. /\ status' \in [Handlers -> Workflow!Status] /\ status'[Creator] = "failed"
      /\ \A g \in Handlers : status'[g] = Awaiting => status[g] = Awaiting
  BY <1>2 DEF Workflow!TypeOK, Workflow!Status
<1>6. /\ stored' \in Workflow!Status
      /\ stored' = Awaiting => stored = Awaiting \/ CreatorAt("save", "plan")
  BY DEF Workflow!TypeOK, Workflow!Handler
<1>7. Workflow!TypeOK'
  BY <1>2, <1>3, <1>4, <1>5, <1>6 DEF Workflow!TypeOK
<1>8. Queued'
  BY <1>1, <1>3, <1>4 DEF Queued
<1>9. Doing'
  BY <1>4 DEF Doing
<1>10. NotCreated' /\ Shared' /\ AskedEarly' /\ SavedLater'
  BY <1>1, <1>2, <1>4 DEF NotCreated, Shared, AskedEarly, SavedLater
<1>11. InUse'
  <2>1. \A o \in Handlers : handler[o].pc \notin {"idle", "get"} =>
           handler'[o].pc \notin {"idle", "get"}
    BY <1>4
  <2>2. current' # NoHandler => handler'[current'].pc \notin {"idle", "get"}
    BY <1>2, <2>1 DEF InUse, Workflow!TypeOK
  <2>3. ASSUME NEW g \in Handlers, handler'[g].pc \in {"save", "list", "work"}
        PROVE  handler'[handler'[g].object].pc \notin {"idle", "get"}
    BY <1>4, <2>1, <2>3 DEF InUse, Doing
  <2> QED
    BY <2>2, <2>3 DEF InUse
<1>12. Unplanned'
  BY <1>4 DEF Unplanned, PlanOver
<1>13. Overwritten'
  BY <1>1, <1>4, <1>5 DEF Overwritten, Shared
<1>14. Restored'
  <2>1. SUFFICES ASSUME NEW g \in Requests, handler[g].pc = "list", stored' = Awaiting
                 PROVE  handler[g].op = "cancel" /\ Before(queue', g, Creator)
    BY <1>4 DEF Restored
  <2>2. Before(queue', g, Creator)
    BY <1>3, <1>4, <2>1 DEF Queued
  <2>3. handler[g].op = "cancel"
    BY <1>6, <2>1 DEF Restored, ApprovedLater, Doing
  <2> QED
    BY <2>2, <2>3
<1>15. ApprovedLater'
  BY <1>4 DEF ApprovedLater
<1>16. OneApproval'
  BY <1>2, <1>4 DEF OneApproval
<1>17. Sealed => Sealed'
  <2>1. ASSUME Sealed PROVE stored' # Awaiting
    BY <2>1 DEF Sealed
  <2> QED
    BY <1>2, <1>4, <1>5, <2>1 DEF Sealed, PlanOver
<1>18. Sealing' /\ Single'
  BY <1>2, <1>17 DEF Sealing, Single
<1> QED
  BY <1>7, <1>8, <1>9, <1>10, <1>11, <1>12, <1>13, <1>14, <1>15, <1>16, <1>18

LEMMA ThrowKeeps ==
    ASSUME Workflow!WorkflowAssumption, WorkflowInv, NEW h \in Handlers, Workflow!Throw(h)
    PROVE  WorkflowInv'
<1> USE DEF WorkflowInv
<1> DEFINE op == handler[h].op
<1>1. queue # <<>> /\ Head(queue) = h /\ Waiting(h) /\ Without(Tail(queue), h)
  BY FirstIsFirst DEF Workflow!Throw, Without
<1>2. faults' \in 0..MaxFaults
  BY DEF Workflow!Throw, Workflow!Fault, Workflow!TypeOK, Workflow!WorkflowAssumption
<1>3. op \notin {"planFailed", "executeFailed"} =>
         /\ stored' = stored \/ (handler[h].pc = "save" /\ stored' = handler[h].copy)
         /\ current' = current /\ executed' = executed
         /\ contended' = contended /\ withdrawn' = withdrawn
  BY DEF Workflow!Throw, Workflow!history
<1>4. CASE op \in {"planFailed", "executeFailed"}
  <2>1. Workflow!Die
    BY <1>4 DEF Workflow!Throw
  <2>2. handler[Creator].pc # "idle"
    BY <1>1, <1>4 DEF NotCreated, Doing
  <2> QED
    BY <1>2, <2>1, <2>2, DieKeeps
<1>5. CASE op = "plan"
  <2>1. Workflow!SetAndSave(h, "planFailed", Object(h), "failed", Tail(queue))
    BY <1>5 DEF Workflow!Throw
  <2>2. h = Creator /\ Object(h) = Creator
    BY <1>1, <1>5 DEF Doing
  <2> QED
    BY <1>1, <1>2, <1>3, <1>5, <2>1, <2>2, PlanThrowKeeps DEF Workflow!history
<1>6. CASE op = "execute"
  <2>1. Workflow!SetAndSave(h, "executeFailed", Object(h), "failed", Tail(queue))
    BY <1>6 DEF Workflow!Throw
  <2>2. h \in Requests /\ handler[h].pc \in {"save", "list"}
    BY <1>1, <1>6 DEF Doing
  <2>3. PlanOver /\ ~CreatorAt("save", "plan")
    BY <1>6, <2>2 DEF Unplanned, ApprovedLater
  <2>4. /\ handler[Creator].pc # "idle" /\ Object(h) \in Handlers
        /\ handler[Object(h)].pc \notin {"idle", "get"}
        /\ Busy(Creator) => Object(h) = Creator
    BY <2>2 DEF NotCreated, Doing, InUse, Shared
  <2>5. "failed" \in Workflow!Status \ {Awaiting}
    BY DEF Workflow!Status
  <2> QED
    BY <1>1, <1>2, <1>3, <1>6, <2>1, <2>2, <2>3, <2>4, <2>5, SavingKeeps
<1>7. CASE op \notin {"plan", "execute", "planFailed", "executeFailed"}
  <2>1. Workflow!Done(h) /\ queue' = Tail(queue) /\ status' = status
    BY <1>7 DEF Workflow!Throw
  <2>2. h = Creator => handler[h].pc \in {"save", "list"} /\ op = "create"
    BY <1>1, <1>7 DEF Doing
  <2>3. contended' \in BOOLEAN /\ (contended => contended')
    BY <1>3, <1>7 DEF Workflow!TypeOK
  <2> QED
    BY <1>1, <1>2, <1>3, <1>7, <2>1, <2>2, <2>3, LeavingKeeps
<1> QED
  BY <1>4, <1>5, <1>6, <1>7

LEMMA InitWorkflow == ASSUME Workflow!WorkflowAssumption, Workflow!Init PROVE WorkflowInv
<1>1. Workflow!Idle \in Workflow!Handler /\ Workflow!Idle.pc = "idle"
  BY DEF Workflow!Idle, Workflow!Handler, Workflow!Operation, Workflow!Status
<1>2. /\ handler \in [Handlers -> Workflow!Handler] /\ \A g \in Handlers : handler[g].pc = "idle"
      /\ \A g \in Handlers : status[g] = "none"
  BY <1>1 DEF Workflow!Init
<1>3. Workflow!TypeOK
  <2>1. status \in [Handlers -> Workflow!Status] /\ stored \in Workflow!Status
    BY DEF Workflow!Init, Workflow!Status
  <2>2. queue \in Seq(Handlers) /\ faults \in 0..MaxFaults
    BY DEF Workflow!Init, Workflow!WorkflowAssumption
  <2> QED
    BY <1>2, <2>1, <2>2 DEF Workflow!Init, Workflow!TypeOK
<1>4. Queued
  <2>1. Distinct(<<>>) /\ Members(<<>>) = {}
    BY DEF Distinct, Members
  <2> QED
    BY <1>2, <2>1 DEF Workflow!Init, Queued
<1>5. Doing /\ NotCreated /\ Shared /\ AskedEarly /\ SavedLater /\ InUse
  BY <1>2 DEF Workflow!Init, Doing, NotCreated, Shared, AskedEarly, SavedLater, InUse
<1>6. Unplanned /\ Overwritten /\ Restored /\ ApprovedLater /\ OneApproval
  BY <1>2 DEF Workflow!Init, Unplanned, PlanOver, Overwritten, Restored, ApprovedLater, OneApproval
<1>7. Sealing /\ Single
  BY DEF Workflow!Init, Sealing, Single
<1> QED
  BY <1>3, <1>4, <1>5, <1>6, <1>7 DEF WorkflowInv

LEMMA NextWorkflow ==
    ASSUME Workflow!WorkflowAssumption, WorkflowInv, [Workflow!Next]_workflowVars
    PROVE  WorkflowInv'
<1>1. CASE Workflow!Create
  BY <1>1, CreateKeeps
<1>2. CASE Workflow!Plan
  BY <1>2, PlanKeeps
<1>3. CASE Workflow!Crash
  <2>1. handler[Creator].pc # "idle"
    BY <1>3 DEF Workflow!Crash, WorkflowInv, NotCreated
  <2>2. Workflow!Die /\ faults' \in 0..MaxFaults
    BY <1>3 DEF Workflow!Crash, Workflow!Fault, WorkflowInv, Workflow!TypeOK,
          Workflow!WorkflowAssumption
  <2> QED
    BY <2>1, <2>2, DieKeeps
<1>4. ASSUME NEW h \in Requests, NEW op \in {"view", "approve", "cancel"}, Workflow!Begin(h, op)
      PROVE  WorkflowInv'
  BY <1>4, BeginKeeps
<1>5. ASSUME NEW h \in Requests, Workflow!Load(h) PROVE WorkflowInv'
  BY <1>5, LoadKeeps
<1>6. ASSUME NEW h \in Requests, Workflow!CheckFunds(h) PROVE WorkflowInv'
  BY <1>6, CheckFundsKeeps
<1>7. ASSUME NEW h \in Requests, Workflow!EndExecution(h) PROVE WorkflowInv'
  BY <1>7, EndExecutionKeeps
<1>8. ASSUME NEW h \in Handlers, Workflow!Store(h) PROVE WorkflowInv'
  BY <1>8, StoreKeeps
<1>9. ASSUME NEW h \in Handlers, Workflow!Saved(h) PROVE WorkflowInv'
  BY <1>9, CreatorSavedKeeps, RequestSavedKeeps
<1>10. ASSUME NEW h \in Handlers, Workflow!Throw(h) PROVE WorkflowInv'
  BY <1>10, ThrowKeeps
<1>11. CASE UNCHANGED workflowVars
  BY <1>11 DEF workflowVars, WorkflowInv, Workflow!TypeOK, Queued, Doing, NotCreated, Shared,
               AskedEarly, SavedLater, InUse, Unplanned, PlanOver, Overwritten, Restored,
               ApprovedLater, OneApproval, Sealing, Sealed, Single, Workflow!history
<1> QED
  BY <1>1, <1>2, <1>3, <1>4, <1>5, <1>6, <1>7, <1>8, <1>9, <1>10, <1>11 DEF Workflow!Next

\* A step of the reasoning engine is one of the workflow, or leaves it as it is.
LEMMA ReasoningStep ==
    ASSUME [ReasoningNext]_reasoningVars PROVE [Workflow!Next]_workflowVars
<1>1. CASE part = "workflow"
  BY <1>1 DEF ReasoningNext, reasoningVars
<1>2. CASE part # "workflow"
  BY <1>2 DEF ReasoningNext, reasoningVars, Unless
<1> QED
  BY <1>1, <1>2

\* For any number of requests, and any crashes, lost commands and cancellations: a
\* workflow is executed once, unless two approvals of it overlap.
THEOREM ExecutesOnce ==
    ASSUME Workflow!WorkflowAssumption PROVE ReasoningSpec => []ExecutedOnce
<1>1. ReasoningInit => WorkflowInv
  BY InitWorkflow DEF ReasoningInit
<1>2. WorkflowInv /\ [ReasoningNext]_reasoningVars => WorkflowInv'
  BY NextWorkflow, ReasoningStep
<1>3. WorkflowInv => ExecutedOnce
  <2>1. ASSUME WorkflowInv, ~contended PROVE Cardinality(executed) <= 1
    <3>1. \A g, h \in executed : g = h
      BY <2>1 DEF WorkflowInv, Single
    <3>2. CASE executed = {}
      BY <3>2, FS_EmptySet
    <3>3. CASE executed # {}
      <4>1. PICK h : executed = {h}
        BY <3>1, <3>3
      <4>2. Cardinality(executed) = 1
        BY <4>1, FS_Singleton
      <4> QED
        BY <4>2
    <3> QED
      BY <3>2, <3>3
  <2>2. Workflow!Cardinality(executed) = Cardinality(executed)
    BY DEF Workflow!Cardinality, Cardinality
  <2> QED
    BY <2>1, <2>2 DEF ExecutedOnce, Workflow!ExecutedOnce, WorkflowInv, Workflow!TypeOK
<1> QED
  BY <1>1, <1>2, <1>3, PTL DEF ReasoningSpec

\* For any number of requests and any faults: after a cancellation that was answered while
\* neither planning nor an approval was under way no execution begins.
THEOREM CancellationHolds ==
    ASSUME Workflow!WorkflowAssumption PROVE ReasoningSpec => CancelHolds
<1>1. ReasoningInit => WorkflowInv
  BY InitWorkflow DEF ReasoningInit
<1>2. WorkflowInv /\ [ReasoningNext]_reasoningVars => WorkflowInv'
  BY NextWorkflow, ReasoningStep
<1>3. WorkflowInv /\ [ReasoningNext]_reasoningVars =>
         [withdrawn => UNCHANGED executed]_reasoningVars
  <2>1. ASSUME WorkflowInv, withdrawn, NEW h \in Handlers, Workflow!Saved(h)
        PROVE  UNCHANGED executed
    <3>1. handler[h].pc = "list" /\ (handler[h].op = "approve" => h \in Requests)
      BY <2>1 DEF Workflow!Saved, WorkflowInv, Doing
    <3>2. handler[h].op # "approve"
      BY <2>1, <3>1 DEF WorkflowInv, Sealing, Sealed
    <3> QED
      BY <2>1, <3>2 DEF Workflow!Saved
  <2>2. ASSUME NEW h \in Handlers, Workflow!Throw(h) PROVE UNCHANGED executed
    BY <2>2 DEF Workflow!Throw, Workflow!Die, Workflow!history
  <2>3. ASSUME Workflow!Next, \A h \in Handlers : ~Workflow!Saved(h) /\ ~Workflow!Throw(h)
        PROVE  UNCHANGED executed
    BY <2>3 DEF Workflow!Next, Workflow!Create, Workflow!Plan, Workflow!Crash, Workflow!Die,
                Workflow!Begin, Workflow!Load, Workflow!CheckFunds, Workflow!EndExecution,
                Workflow!Store, Workflow!history
  <2>4. UNCHANGED workflowVars => UNCHANGED executed
    BY DEF workflowVars
  <2> QED
    BY <2>1, <2>2, <2>3, <2>4, ReasoningStep
<1> QED
  BY <1>1, <1>2, <1>3, PTL DEF ReasoningSpec, CancelHolds

-----------------------------------------------------------------------------
\* DiscoveryCaches: a request takes less than two ticks and entries live for one, so that
\* what is read was true two ticks ago, or at the reader's own change.

\* What is at the registry never goes back, and is kept as it was at each tick.
Versions ==
    /\ DOMAIN version = 0..Caches!now /\ Caches!now \in Nat
    /\ version \in [0..Caches!now -> 0..1]
    /\ \A i, j \in 0..Caches!now : i <= j => version[i] <= version[j]

\* v is not older than what there was at the tick, if there was one
NotBefore(v, tick) == tick >= 0 => v >= version[tick]

\* What a reader may hold
Read == [pc : {"idle", "fetch", "store", "done", "nothing"}, key : Caches!Keys, version : 0..1,
         promise : 0..1, at : 0..3, since : 0..3]

\* A request takes a tick at most, and what it brings is as new as the tick before it.
ReadFresh(r) ==
    /\ r.pc # "idle" => r.at <= Caches!now
    /\ r.pc \in {"fetch", "store"} => r.at = r.since /\ Caches!now <= r.since + 1
    /\ r.pc = "fetch" => r.promise <= Caches!Current
    /\ r.pc = "store" => NotBefore(r.version, r.since - 1) /\ r.promise <= r.version
    /\ r.pc = "store" /\ ~raced => promised[r.key] <= r.version
    /\ r.pc = "done" => NotBefore(r.version, r.at - 2) /\ (~raced => r.promise <= r.version)

\* What the cache holds is no older than its entries live.
EntryFresh(k) ==
    entry[k].left > 0 =>
        /\ NotBefore(entry[k].version, Caches!now - 2)
        /\ ~raced => promised[k] <= entry[k].version

\* What the promise of the caches follows from
CacheInv ==
    /\ Caches!TypeOK
    /\ Versions
    /\ read \in [AgentTasks -> Read]
    /\ dropping.version \in 0..Caches!Current
    /\ \A k \in Caches!Keys : promised[k] <= Caches!Current /\ EntryFresh(k)
    /\ \A r \in AgentTasks : ReadFresh(read[r])


LEMMA NowIsLast == ASSUME NEW n \in Nat, DOMAIN version = 0..n PROVE Caches!now = n
<1>1. Caches!Cardinality(0..n) = Cardinality(0..n)
  BY DEF Caches!Cardinality, Cardinality
<1>2. Cardinality(0..n) = n - 0 + 1
  BY FS_Interval
<1> QED
  BY <1>1, <1>2 DEF Caches!now

LEMMA NowIsLastNext == ASSUME NEW n \in Nat, DOMAIN version' = 0..n PROVE Caches!now' = n
<1>1. Caches!Cardinality(0..n) = Cardinality(0..n)
  BY DEF Caches!Cardinality, Cardinality
<1>2. Cardinality(0..n) = n - 0 + 1
  BY FS_Interval
<1> QED
  BY <1>1, <1>2 DEF Caches!now

\* What the registry has at a tick is kept, but at the last it may become newer.
LEMMA NewVersionFacts ==
    ASSUME CacheInv, Caches!NewVersion
    PROVE  /\ Versions' /\ Caches!now' = Caches!now
           /\ Caches!Current' = Caches!Current + 1 /\ Caches!Current' \in 0..1
           /\ \A t \in 0..(Caches!now - 1) : version'[t] = version[t]
           /\ Caches!now' \in 0..3
<1> DEFINE n == Caches!now
<1> USE DEF CacheInv
<1>1. n \in 0..3 /\ DOMAIN version = 0..n /\ version \in [0..n -> 0..1] /\ version[n] \in 0..1
  BY DEF Versions, Caches!TypeOK
<1>2. version' = [version EXCEPT ![n] = version[n] + 1] /\ version[n] < 1
  BY DEF Caches!NewVersion, Caches!Current
<1>3. DOMAIN version' = 0..n /\ version' \in [0..n -> 0..1]
  <2> HIDE DEF n
  <2> QED
    BY <1>1, <1>2
<1>4. Caches!now' = n
  BY <1>1, <1>3, NowIsLastNext
<1>5. \A i, j \in 0..n : i <= j => version[i] <= version[j]
  BY DEF Versions
<1>6. \A i, j \in 0..n : i <= j => version'[i] <= version'[j]
  <2> HIDE DEF n
  <2> QED
    BY <1>1, <1>2, <1>5
<1>7. Versions'
  <2> HIDE DEF n
  <2> QED
    BY <1>1, <1>3, <1>4, <1>6 DEF Versions
<1>8. version'[n] = version[n] + 1 /\ \A t \in 0..(n - 1) : version'[t] = version[t]
  <2> HIDE DEF n
  <2> QED
    BY <1>1, <1>2
<1> QED
  BY <1>1, <1>4, <1>7, <1>8, <1>2 DEF Caches!Current

LEMMA TickFacts ==
    ASSUME CacheInv, Caches!Tick
    PROVE  /\ Versions' /\ Caches!now' = Caches!now + 1
           /\ Caches!Current' = Caches!Current
           /\ \A t \in 0..Caches!now : version'[t] = version[t]
           /\ Caches!now' \in 0..3
<1> DEFINE n == Caches!now
<1> USE DEF CacheInv
<1>1. n \in 0..3 /\ n + 1 \in 0..3 /\ DOMAIN version = 0..n /\ version \in [0..n -> 0..1] /\ version[n] \in 0..1
  BY DEF Versions, Caches!TypeOK, Caches!Tick
<1>2. version' = [t \in 0..(n + 1) |-> IF t <= n THEN version[t] ELSE version[n]]
  BY DEF Caches!Tick, Caches!Current
<1>3. DOMAIN version' = 0..(n + 1) /\ version' \in [0..(n + 1) -> 0..1]
  <2> HIDE DEF n
  <2> QED
    BY <1>1, <1>2
<1>4. Caches!now' = n + 1
  BY <1>1, <1>3, NowIsLastNext
<1>5. \A i, j \in 0..n : i <= j => version[i] <= version[j]
  BY DEF Versions
<1>6. \A i, j \in 0..(n + 1) : i <= j => version'[i] <= version'[j]
  <2> HIDE DEF n
  <2> QED
    BY <1>1, <1>2, <1>5
<1>7. Versions'
  <2> HIDE DEF n
  <2> QED
    BY <1>1, <1>3, <1>4, <1>6 DEF Versions
<1>8. version'[n + 1] = version[n] /\ \A t \in 0..n : version'[t] = version[t]
  <2> HIDE DEF n
  <2> QED
    BY <1>1, <1>2
<1> QED
  BY <1>1, <1>4, <1>7, <1>8 DEF Caches!Current

\* As long as the registry and what is promised stay, what there is stays fresh.
LEMMA VersionsStay ==
    ASSUME CacheInv, UNCHANGED version
    PROVE  /\ Versions' /\ Caches!now' = Caches!now /\ Caches!Current' = Caches!Current
           /\ Caches!now' \in 0..3
           /\ \A v, t : NotBefore(v, t)' <=> NotBefore(v, t)
BY DEF CacheInv, Versions, Caches!now, Caches!Current, Caches!TypeOK, NotBefore

\* The invariant after a step that changes neither the registry nor what is promised
LEMMA CacheStays ==
    ASSUME CacheInv, UNCHANGED <<user, version, promised, raced>>,
           read' \in [AgentTasks -> Read],
           entry' \in [Caches!Keys -> [version : 0..1, left : 0..1]],
           dropping'.keys \subseteq Caches!Keys, dropping'.version \in 0..Caches!Current,
           \A k \in Caches!Keys : entry'[k] = entry[k] \/ EntryFresh(k)',
           \A r \in AgentTasks : read'[r] = read[r] \/ ReadFresh(read[r])'
    PROVE  CacheInv'
<1> USE DEF CacheInv
<1>1. Versions' /\ Caches!now' = Caches!now /\ Caches!Current' = Caches!Current
  BY VersionsStay
<1>2. ASSUME NEW k \in Caches!Keys PROVE promised'[k] <= Caches!Current' /\ EntryFresh(k)'
  BY <1>1, <1>2 DEF EntryFresh, NotBefore
<1>3. ASSUME NEW r \in AgentTasks PROVE ReadFresh(read[r])'
  BY <1>1, <1>3 DEF ReadFresh, NotBefore
<1>4. Caches!TypeOK'
  BY <1>1 DEF Caches!TypeOK, Versions, Read
<1> QED
  BY <1>1, <1>2, <1>3, <1>4

LEMMA LookupKeeps ==
    ASSUME CacheInv, NEW r \in AgentTasks, Caches!Lookup(r) PROVE CacheInv'
<1> USE DEF CacheInv
<1>1. PICK k \in Caches!Keys :
         read' = [read EXCEPT ![r] =
                    IF entry[k].left > 0
                    THEN [[read[r] EXCEPT !.key = k, !.promise = promised[k], !.at = Caches!now,
                                          !.since = Caches!now] EXCEPT !.pc = "done", !.version = entry[k].version]
                    ELSE [[read[r] EXCEPT !.key = k, !.promise = promised[k], !.at = Caches!now,
                                          !.since = Caches!now] EXCEPT !.pc = "fetch"]]
  BY DEF Caches!Lookup
<1>2. UNCHANGED <<user, version, entry, dropping, promised, raced>>
  BY DEF Caches!Lookup
<1>3. /\ promised[k] \in 0..1 /\ Caches!now \in 0..3 /\ entry[k].version \in 0..1 /\ read[r] \in Read
      /\ entry[k].left \in 0..1 /\ promised[k] <= Caches!Current /\ Caches!Current \in 0..1
  BY DEF Caches!TypeOK, Caches!Current, Versions
<1> DEFINE next == read'[r]
<1>4. next = IF entry[k].left > 0
             THEN [[read[r] EXCEPT !.key = k, !.promise = promised[k], !.at = Caches!now,
                                   !.since = Caches!now] EXCEPT !.pc = "done", !.version = entry[k].version]
             ELSE [[read[r] EXCEPT !.key = k, !.promise = promised[k], !.at = Caches!now,
                                   !.since = Caches!now] EXCEPT !.pc = "fetch"]
  BY <1>1
<1>5. /\ next \in Read /\ next.at = Caches!now /\ next.since = Caches!now /\ next.promise = promised[k]
      /\ next.key = k
      /\ IF entry[k].left > 0 THEN next.pc = "done" /\ next.version = entry[k].version ELSE next.pc = "fetch"
  <2> HIDE DEF next
  <2> QED
    BY <1>3, <1>4 DEF Read
<1> HIDE DEF next
<1>6. read' = [read EXCEPT ![r] = next]
  BY <1>1 DEF next
<1>7. read' \in [AgentTasks -> Read] /\ \A t \in AgentTasks : t # r => read'[t] = read[t]
  BY <1>5, <1>6
<1>8. Caches!now' = Caches!now /\ Caches!Current' = Caches!Current
  BY <1>2, VersionsStay
<1>9. EntryFresh(k)
  OBVIOUS
<1>10. ReadFresh(read[r])'
  BY <1>2, <1>3, <1>5, <1>6, <1>7, <1>8, <1>9 DEF ReadFresh, EntryFresh, NotBefore, next
<1>11. dropping.keys \subseteq Caches!Keys
  BY DEF Caches!TypeOK
<1> QED
  BY <1>2, <1>7, <1>8, <1>10, <1>11, CacheStays DEF Caches!TypeOK

LEMMA FetchKeeps ==
    ASSUME CacheInv, NEW r \in AgentTasks, Caches!Fetch(r) PROVE CacheInv'
<1> USE DEF CacheInv
<1> DEFINE cur == Caches!Current
           k == read[r].key
<1>1. UNCHANGED <<user, version, dropping, promised, raced>> /\ read[r].pc = "fetch"
  BY DEF Caches!Fetch, Caches!At
<1>2. /\ cur \in 0..1 /\ read[r] \in Read /\ k \in Caches!Keys /\ Caches!now \in 0..3
      /\ promised[k] <= cur /\ promised[k] \in 0..1
  BY DEF Caches!TypeOK, Caches!Current, Versions, Read
<1>3. /\ Caches!now' = Caches!now /\ Caches!Current' = cur
      /\ dropping.keys \subseteq Caches!Keys
  BY <1>1, VersionsStay DEF Caches!TypeOK
<1>4. NotBefore(cur, read[r].since - 1) /\ NotBefore(cur, read[r].at - 2) /\ NotBefore(cur, Caches!now - 2)
      /\ read[r].promise <= cur
  <2>1. ReadFresh(read[r]) /\ read[r].since \in 0..3 /\ read[r].at \in 0..3
    BY <1>2 DEF Read
  <2>2. \A t \in 0..Caches!now : version[t] <= cur
    BY <1>2 DEF Versions, Caches!Current
  <2>3. read[r].at = read[r].since /\ read[r].at <= Caches!now /\ read[r].promise <= cur
    BY <1>1, <2>1 DEF ReadFresh
  <2> HIDE DEF cur
  <2> QED
    BY <1>2, <2>1, <2>2, <2>3 DEF NotBefore
<1>5. CASE user = "agentMemory"
  <2>1. /\ read' = [read EXCEPT ![r].pc = "done", ![r].version = cur]
        /\ entry' = [entry EXCEPT ![k] = [version |-> cur, left |-> 1]]
    BY <1>5 DEF Caches!Fetch, Caches!Kept
  <2> HIDE DEF cur, k
  <2>2. /\ read' \in [AgentTasks -> Read] /\ \A t \in AgentTasks : t # r => read'[t] = read[t]
        /\ read'[r] = [read[r] EXCEPT !.pc = "done", !.version = cur]
    BY <1>2, <2>1 DEF Read
  <2>3. /\ entry' \in [Caches!Keys -> [version : 0..1, left : 0..1]]
        /\ \A j \in Caches!Keys : j # k => entry'[j] = entry[j]
        /\ entry'[k] = [version |-> cur, left |-> 1]
    BY <1>2, <2>1 DEF Caches!TypeOK
  <2>4. ReadFresh(read[r])'
    BY <1>1, <1>2, <1>3, <1>4, <2>2 DEF ReadFresh, NotBefore, Read
  <2>5. ASSUME NEW j \in Caches!Keys, j = k PROVE EntryFresh(j)'
    BY <1>1, <1>2, <1>3, <1>4, <2>3, <2>5 DEF EntryFresh, NotBefore
  <2> QED
    BY <1>1, <1>2, <1>3, <2>2, <2>3, <2>4, <2>5, CacheStays DEF k
<1>6. CASE user # "agentMemory"
  <2>1. /\ read' = [read EXCEPT ![r].pc = "store", ![r].version = cur]
        /\ entry' = entry
    BY <1>6 DEF Caches!Fetch
  <2> HIDE DEF cur
  <2>2. /\ read' \in [AgentTasks -> Read] /\ \A t \in AgentTasks : t # r => read'[t] = read[t]
        /\ read'[r] = [read[r] EXCEPT !.pc = "store", !.version = cur]
    BY <1>2, <2>1 DEF Read
  <2>4. ReadFresh(read[r])'
    BY <1>1, <1>2, <1>3, <1>4, <2>2 DEF ReadFresh, NotBefore, Read, k
  <2> QED
    BY <1>1, <1>3, <2>1, <2>2, <2>4, CacheStays DEF Caches!TypeOK
<1> QED
  BY <1>5, <1>6

LEMMA StoreKeepsFresh ==
    ASSUME CacheInv, NEW r \in AgentTasks, Caches!Store(r) PROVE CacheInv'
<1> USE DEF CacheInv
<1> DEFINE k == read[r].key
           v == read[r].version
<1>1. UNCHANGED <<user, version, dropping, promised, raced>> /\ read[r].pc = "store"
  BY DEF Caches!Store, Caches!At
<1>2. /\ v \in 0..1 /\ read[r] \in Read /\ k \in Caches!Keys /\ Caches!now \in 0..3
      /\ promised[k] \in 0..1
  BY DEF Caches!TypeOK, Caches!Current, Versions, Read
<1>3. /\ Caches!now' = Caches!now /\ Caches!Current' = Caches!Current
      /\ dropping.keys \subseteq Caches!Keys
  BY <1>1, VersionsStay DEF Caches!TypeOK
<1>4. /\ NotBefore(v, read[r].at - 2) /\ NotBefore(v, Caches!now - 2)
      /\ read[r].promise <= v /\ (~raced => promised[k] <= v) /\ read[r].at <= Caches!now
  <2>1. ReadFresh(read[r]) /\ read[r].since \in 0..3 /\ read[r].at \in 0..3
    BY <1>2 DEF Read
  <2>2. \A i, j \in 0..Caches!now : /\ i <= j => version[i] <= version[j]
                                    /\ version[i] \in 0..1
    BY DEF Versions
  <2>3. /\ read[r].at = read[r].since /\ read[r].at <= Caches!now /\ NotBefore(v, read[r].since - 1)
        /\ Caches!now <= read[r].since + 1
    BY <1>1, <2>1 DEF ReadFresh
  <2>4. read[r].promise <= v /\ (~raced => promised[k] <= v)
    BY <1>1, <2>1 DEF ReadFresh
  <2> HIDE DEF v, k
  <2>5. ASSUME NEW t \in Int, t <= read[r].since - 1 PROVE NotBefore(v, t)
    BY <1>2, <2>1, <2>2, <2>3, <2>5 DEF NotBefore
  <2> QED
    BY <1>2, <2>1, <2>3, <2>4, <2>5
<1>5. /\ read' = [read EXCEPT ![r].pc = "done"]
      /\ entry' = [entry EXCEPT ![k] = [version |-> v, left |-> 1]]
  BY DEF Caches!Store, Caches!Kept
<1> HIDE DEF k
<1>6. /\ read' \in [AgentTasks -> Read] /\ \A t \in AgentTasks : t # r => read'[t] = read[t]
      /\ read'[r] = [read[r] EXCEPT !.pc = "done"]
  BY <1>2, <1>5 DEF Read
<1> HIDE DEF v
<1>7. /\ entry' \in [Caches!Keys -> [version : 0..1, left : 0..1]]
      /\ \A j \in Caches!Keys : j # k => entry'[j] = entry[j]
      /\ entry'[k] = [version |-> v, left |-> 1]
  BY <1>2, <1>5 DEF Caches!TypeOK
<1>8. ReadFresh(read[r])'
  BY <1>1, <1>2, <1>3, <1>4, <1>6 DEF ReadFresh, NotBefore, Read, v
<1>9. ASSUME NEW j \in Caches!Keys, j = k PROVE EntryFresh(j)'
  BY <1>1, <1>2, <1>3, <1>4, <1>7, <1>9 DEF EntryFresh, NotBefore
<1> QED
  BY <1>1, <1>2, <1>3, <1>6, <1>7, <1>8, <1>9, CacheStays DEF k

\* Nothing is returned, and nothing is dropped yet, or it fails.
LEMMA UnansweredKeeps ==
    ASSUME CacheInv, NEW r \in AgentTasks, Caches!Unanswered(r) PROVE CacheInv'
<1> USE DEF CacheInv
<1>1. /\ UNCHANGED <<user, version, entry, dropping, promised, raced>>
      /\ read' = [read EXCEPT ![r].pc = "nothing"] /\ read[r] \in Read /\ read[r].pc \in {"fetch", "store"}
  BY DEF Caches!Unanswered, Caches!Waiting
<1>2. /\ read' \in [AgentTasks -> Read] /\ \A t \in AgentTasks : t # r => read'[t] = read[t]
      /\ read'[r] = [read[r] EXCEPT !.pc = "nothing"]
  BY <1>1 DEF Read
<1>3. Caches!now' = Caches!now
  BY <1>1, VersionsStay
<1>4. ReadFresh(read[r])'
  BY <1>1, <1>2, <1>3 DEF ReadFresh, NotBefore, Read
<1> QED
  BY <1>1, <1>2, <1>4, CacheStays DEF Caches!TypeOK

LEMMA ClearKeeps ==
    ASSUME CacheInv, Caches!Clear \/ Caches!DropFails PROVE CacheInv'
<1> USE DEF CacheInv
<1>1. UNCHANGED <<user, version, entry, read, promised, raced>>
  BY DEF Caches!Clear, Caches!DropFails
<1>2. Caches!Current \in 0..1
  BY DEF Versions, Caches!Current
<1>3. dropping'.keys \subseteq Caches!Keys /\ dropping'.version \in 0..Caches!Current
  BY <1>2 DEF Caches!Clear, Caches!DropFails, Caches!NotDropping
<1> QED
  BY <1>1, <1>3, CacheStays DEF Caches!TypeOK

\* The registry's service is changed, by somebody else or by a rating, which is dropping then.
LEMMA ChangeKeeps ==
    ASSUME CacheInv, Caches!Change \/ Caches!Rate PROVE CacheInv'
<1> USE DEF CacheInv
<1>1. UNCHANGED <<user, entry, read, promised, raced>> /\ Caches!NewVersion
  BY DEF Caches!Change, Caches!Rate
<1>2. /\ Versions' /\ Caches!now' = Caches!now
      /\ Caches!Current' = Caches!Current + 1 /\ Caches!Current' \in 0..1
      /\ \A t \in 0..(Caches!now - 1) : version'[t] = version[t]
      /\ Caches!now' \in 0..3
  BY <1>1, NewVersionFacts
<1>3. Caches!Current \in 0..1 /\ Caches!now \in 0..3
  BY <1>2 DEF Versions, Caches!Current
<1>4. ASSUME NEW v, NEW t \in Int, t <= Caches!now - 1, NotBefore(v, t) PROVE NotBefore(v, t)'
  BY <1>2, <1>3, <1>4 DEF NotBefore
<1>5. dropping'.keys \subseteq Caches!Keys /\ dropping'.version \in 0..Caches!Current'
  BY <1>2, <1>3 DEF Caches!Change, Caches!Rate, Caches!TypeOK, Caches!Keys
<1>6. ASSUME NEW k \in Caches!Keys PROVE promised'[k] <= Caches!Current' /\ EntryFresh(k)'
  <2>1. promised[k] \in 0..1 /\ promised[k] <= Caches!Current /\ EntryFresh(k)
    BY DEF Caches!TypeOK
  <2> QED
    BY <1>1, <1>2, <1>3, <1>4, <2>1 DEF EntryFresh
<1>7. ASSUME NEW r \in AgentTasks PROVE ReadFresh(read[r])'
  <2>1. read[r] \in Read /\ ReadFresh(read[r])
    OBVIOUS
  <2>2. read[r].at \in 0..3 /\ read[r].since \in 0..3 /\ read[r].promise \in 0..1
    BY <2>1 DEF Read
  <2>3. read[r].pc \in {"fetch", "store", "done"} => read[r].at <= Caches!now
    BY <2>1 DEF ReadFresh
  <2>4. read[r].pc = "store" => NotBefore(read[r].version, read[r].since - 1)'
    BY <1>1, <1>3, <1>4, <2>1, <2>2, <2>3 DEF ReadFresh
  <2>5. read[r].pc = "done" => NotBefore(read[r].version, read[r].at - 2)'
    BY <1>1, <1>3, <1>4, <2>1, <2>2, <2>3 DEF ReadFresh
  <2> QED
    BY <1>1, <1>2, <1>3, <2>1, <2>2, <2>4, <2>5 DEF ReadFresh
<1>8. Caches!TypeOK'
  BY <1>1, <1>2, <1>5 DEF Caches!TypeOK, Versions
<1> QED
  BY <1>1, <1>2, <1>5, <1>6, <1>7, <1>8

LEMMA TickKeeps == ASSUME CacheInv, Caches!Tick PROVE CacheInv'
<1> USE DEF CacheInv
<1>1. /\ UNCHANGED <<user, read, dropping, promised, raced>>
      /\ entry' = [k \in Caches!Keys |-> [entry[k] EXCEPT !.left = IF entry[k].left = 0 THEN 0
                                                                   ELSE entry[k].left - 1]]
      /\ \A r \in AgentTasks : read[r].pc \in {"fetch", "store"} => read[r].since = Caches!now
  BY DEF Caches!Tick, Caches!Waiting
<1>2. /\ Versions' /\ Caches!now' = Caches!now + 1
      /\ Caches!Current' = Caches!Current
      /\ \A t \in 0..Caches!now : version'[t] = version[t]
      /\ Caches!now' \in 0..3
  BY TickFacts
<1>3. Caches!Current \in 0..1 /\ Caches!now \in Nat /\ Caches!now \in 0..3
  BY <1>2 DEF Versions, Caches!Current
<1>4. ASSUME NEW v, NEW t \in Int, t <= Caches!now, NotBefore(v, t) PROVE NotBefore(v, t)'
  BY <1>2, <1>3, <1>4 DEF NotBefore
<1>5. ASSUME NEW k \in Caches!Keys
      PROVE  /\ entry[k] \in [version : 0..1, left : 0..1] /\ entry'[k] \in [version : 0..1, left : 0..1]
             /\ entry'[k].version = entry[k].version /\ entry'[k].left = 0
  <2>1. entry[k] \in [version : 0..1, left : 0..1]
    BY DEF Caches!TypeOK
  <2> QED
    BY <1>1, <2>1
<1>6. ASSUME NEW k \in Caches!Keys PROVE promised'[k] <= Caches!Current' /\ EntryFresh(k)'
  BY <1>1, <1>2, <1>5, <1>6 DEF EntryFresh
<1>7. ASSUME NEW r \in AgentTasks PROVE ReadFresh(read[r])'
  <2>1. read[r] \in Read /\ ReadFresh(read[r])
    OBVIOUS
  <2>2. read[r].at \in 0..3 /\ read[r].since \in 0..3 /\ read[r].promise \in 0..1
    BY <2>1 DEF Read
  <2>3. read[r].pc \in {"fetch", "store", "done"} => read[r].at <= Caches!now
    BY <2>1 DEF ReadFresh
  <2>4. read[r].pc = "store" => NotBefore(read[r].version, read[r].since - 1)'
    BY <1>1, <1>3, <1>4, <2>1, <2>2 DEF ReadFresh
  <2>5. read[r].pc = "done" => NotBefore(read[r].version, read[r].at - 2)'
    BY <1>1, <1>3, <1>4, <2>1, <2>2, <2>3 DEF ReadFresh
  <2> QED
    BY <1>1, <1>2, <1>3, <2>1, <2>2, <2>4, <2>5 DEF ReadFresh
<1>8. Caches!TypeOK'
  <2>1. entry' \in [Caches!Keys -> [version : 0..1, left : 0..1]]
    BY <1>1, <1>5
  <2> QED
    BY <1>1, <1>2, <2>1 DEF Caches!TypeOK, Versions
<1> QED
  BY <1>1, <1>2, <1>6, <1>7, <1>8

\* What is dropped was not promised to be older than what is there.
LEMMA DropKeeps ==
    ASSUME CacheInv, NEW keys \in SUBSET Caches!Keys, NEW v \in 0..Caches!Current,
           Caches!Drop(keys, v),
           dropping'.keys \subseteq Caches!Keys, dropping'.version \in 0..Caches!Current
    PROVE  CacheInv'
<1> USE DEF CacheInv
<1>1. /\ UNCHANGED <<user, version, read>>
      /\ entry' = [k \in Caches!Keys |-> IF k \in keys THEN [entry[k] EXCEPT !.left = 0] ELSE entry[k]]
      /\ promised' = [k \in Caches!Keys |-> IF k \in keys THEN v ELSE promised[k]]
  BY DEF Caches!Drop
<1>2. /\ raced' \in BOOLEAN
      /\ ~raced' => ~raced /\ \A r \in AgentTasks :
            read[r].pc = "store" /\ read[r].key \in keys => ~(read[r].version < v)
  BY DEF Caches!Drop, Caches!TypeOK, Caches!At
<1>3. Versions' /\ Caches!now' = Caches!now /\ Caches!Current' = Caches!Current /\ Caches!now' \in 0..3
  BY <1>1, VersionsStay
<1>4. Caches!Current \in 0..1 /\ Caches!now \in 0..3
  BY <1>3 DEF Versions, Caches!Current
<1>5. ASSUME NEW k \in Caches!Keys
      PROVE  /\ entry'[k] \in [version : 0..1, left : 0..1] /\ promised'[k] \in 0..1
             /\ promised'[k] <= Caches!Current' /\ EntryFresh(k)'
  <2>1. entry[k] \in [version : 0..1, left : 0..1] /\ promised[k] \in 0..1 /\ EntryFresh(k)
        /\ promised[k] <= Caches!Current
    BY DEF Caches!TypeOK
  <2>2. CASE k \in keys
    <3>1. entry'[k].left = 0 /\ promised'[k] = v /\ entry'[k] \in [version : 0..1, left : 0..1]
      BY <1>1, <2>1, <2>2
    <3> QED
      BY <1>3, <1>4, <3>1 DEF EntryFresh
  <2>3. CASE k \notin keys
    <3>1. entry'[k] = entry[k] /\ promised'[k] = promised[k]
      BY <1>1, <2>3
    <3> QED
      BY <1>1, <1>2, <1>3, <2>1, <3>1 DEF EntryFresh, NotBefore
  <2> QED
    BY <2>2, <2>3
<1>6. ASSUME NEW r \in AgentTasks PROVE ReadFresh(read[r])'
  <2>1. read[r] \in Read /\ ReadFresh(read[r]) /\ read[r].key \in Caches!Keys /\ read[r].version \in 0..1
    BY DEF Read
  <2>2. read[r].pc = "store" /\ ~raced' => promised'[read[r].key] <= read[r].version
    <3>1. CASE read[r].key \in keys
      BY <1>1, <1>2, <1>4, <2>1, <3>1
    <3>2. CASE read[r].key \notin keys
      BY <1>1, <1>2, <2>1, <3>2 DEF ReadFresh
    <3> QED
      BY <3>1, <3>2
  <2> QED
    BY <1>1, <1>2, <1>3, <2>1, <2>2 DEF ReadFresh, NotBefore
<1>7. Caches!TypeOK'
  <2>1. entry' \in [Caches!Keys -> [version : 0..1, left : 0..1]]
    BY <1>1, <1>5
  <2>2. promised' \in [Caches!Keys -> 0..1]
    BY <1>1, <1>5
  <2> QED
    BY <1>1, <1>2, <1>3, <2>1, <2>2 DEF Caches!TypeOK, Versions
<1> QED
  BY <1>1, <1>3, <1>5, <1>6, <1>7

LEMMA CachesStep == ASSUME CacheInv, [Caches!Next]_cacheVars PROVE CacheInv'
<1>1. CASE Caches!Change \/ Caches!Rate
  BY <1>1, ChangeKeeps
<1>2. CASE Caches!Clear \/ Caches!DropFails
  BY <1>2, ClearKeeps
<1>3. CASE Caches!ClearMemory
  <2>1. Caches!Drop(Caches!Keys, Caches!Current) /\ UNCHANGED dropping
    BY <1>3 DEF Caches!ClearMemory
  <2>2. Caches!Current \in 0..Caches!Current
    BY DEF CacheInv, Versions, Caches!Current
  <2> QED
    BY <2>1, <2>2, DropKeeps DEF CacheInv, Caches!TypeOK
<1>4. CASE Caches!DropThese
  <2> DEFINE keys == IF user = "engine" /\ "service" \in dropping.keys THEN {"service"} ELSE dropping.keys
  <2>1. /\ Caches!Drop(keys, dropping.version)
        /\ dropping' = IF keys = dropping.keys THEN Caches!NotDropping
                       ELSE [dropping EXCEPT !.keys = dropping.keys \ keys]
    BY <1>4 DEF Caches!DropThese
  <2>2. /\ keys \subseteq Caches!Keys /\ dropping.version \in 0..Caches!Current /\ dropping.keys \subseteq Caches!Keys
        /\ Caches!Current \in 0..1
    BY DEF CacheInv, Caches!TypeOK, Caches!Keys, Versions, Caches!Current
  <2> HIDE DEF keys
  <2>3. dropping'.keys \subseteq Caches!Keys /\ dropping'.version \in 0..Caches!Current
    BY <2>1, <2>2 DEF Caches!NotDropping
  <2> QED
    BY <2>1, <2>2, <2>3, DropKeeps
<1>5. CASE Caches!Tick
  BY <1>5, TickKeeps
<1>6. ASSUME NEW r \in AgentTasks,
             Caches!Lookup(r) \/ Caches!Fetch(r) \/ Caches!Store(r) \/ Caches!Unanswered(r)
      PROVE  CacheInv'
  BY <1>6, LookupKeeps, FetchKeeps, StoreKeepsFresh, UnansweredKeeps
<1>7. CASE UNCHANGED cacheVars
  BY <1>7, CacheStays DEF cacheVars, CacheInv, Caches!TypeOK
<1> QED
  BY <1>1, <1>2, <1>3, <1>4, <1>5, <1>6, <1>7 DEF Caches!Next

LEMMA CachesBegin == ASSUME Caches!Init PROVE CacheInv
<1>1. DOMAIN version = 0..0 /\ version[0] = 0 /\ version \in [0..0 -> 0..1]
  BY DEF Caches!Init
<1>2. Caches!now = 0
  BY <1>1, NowIsLast
<1>3. Versions /\ Caches!Current = 0
  BY <1>1, <1>2 DEF Versions, Caches!Current
<1>4. \A k \in Caches!Keys : entry[k].left = 0 /\ promised[k] = 0
  BY DEF Caches!Init
<1>5. Caches!NotRead \in Read /\ Caches!NotRead.pc = "idle"
  BY DEF Caches!NotRead, Read, Caches!Keys
<1>6. read \in [AgentTasks -> Read] /\ \A r \in AgentTasks : read[r].pc = "idle"
  BY <1>5 DEF Caches!Init
<1>7. Caches!TypeOK
  <2>1. entry \in [Caches!Keys -> [version : 0..1, left : 0..1]] /\ promised \in [Caches!Keys -> 0..1]
        /\ dropping.keys = {}
    BY DEF Caches!Init, Caches!NotDropping
  <2>2. user \in {"engine", "agentRedis", "agentMemory"} /\ raced \in BOOLEAN
    BY DEF Caches!Init
  <2> QED
    BY <1>1, <1>2, <1>6, <2>1, <2>2 DEF Caches!TypeOK
<1> QED
  BY <1>3, <1>4, <1>6, <1>7 DEF CacheInv, ReadFresh, EntryFresh, Caches!Init, Caches!NotDropping

LEMMA CachesPromise == ASSUME CacheInv PROVE Caches!FreshEnough
<1>1. ASSUME NEW r \in AgentTasks, read[r].pc = "done"
      PROVE  /\ read[r].at - 1 - 1 \in DOMAIN version => read[r].version >= version[read[r].at - 1 - 1]
             /\ ~raced => read[r].version >= read[r].promise
  <2>1. read[r].at \in 0..3 /\ ReadFresh(read[r]) /\ read[r].version \in 0..1 /\ read[r].promise \in 0..1
        /\ DOMAIN version = 0..Caches!now /\ Caches!now \in Nat
    BY DEF CacheInv, Read, Versions
  <2> QED
    BY <1>1, <2>1 DEF ReadFresh, NotBefore
<1> QED
  BY <1>1 DEF Caches!FreshEnough, Caches!At

-----------------------------------------------------------------------------
\* ServiceDeals: as long as no two handlers act at once, an offer has the one contract that
\* its handler is busy with, and a contract as many transfers as it was funded.

\* A handler between its first and its last await
Acting(h) == deal[h].pc \notin {"idle", "over"}
\* Handler h is about to post a contract for the offer, ...
Making(h, o) == deal[h].pc \in {"buyer", "post"} /\ deal[h].offer = o
\* ... has posted it and is about to mark the offer, ...
Made(h, o) == deal[h].pc = "patch" /\ deal[h].offer = o
\* ... is about to pay for a contract, ...
Paying(h, k) == deal[h].pc = "transfer" /\ deal[h].contract = k
\* ... or has paid for it and is about to fund it.
Paid(h, k) == deal[h].pc = "fund" /\ deal[h].contract = k
\* The contracts of an offer
IdsOf(o) == {k \in {1, 2} : contract[k].offer = o}

\* What an action is about is there.
About(h) ==
    /\ deal[h].pc \in {"buyer", "post", "patch"} =>
          deal[h].offer \in {1, 2} /\ offer[deal[h].offer] # "none"
    /\ deal[h].pc = "patch" => IdsOf(deal[h].offer) # {}
    /\ deal[h].pc \in {"transfer", "fund"} =>
          deal[h].contract \in {1, 2} /\ contract[deal[h].contract].status # "none"
    /\ deal[h].pc = "fund" => transferred[deal[h].contract] > 0

\* A contract is one of an offer, and funded only after a transfer.
Contracted(k) ==
    /\ contract[k].status = "none" => contract[k].offer = 0 /\ transferred[k] = 0
    /\ contract[k].offer # 0 => offer[contract[k].offer] # "none"
    /\ contract[k].status = "funded" => transferred[k] > 0

\* As long as actions do not overlap, how many contracts there are of an offer, and how often one
\* was paid: what fails, and what is accepted again, leaves one more.
Counted ==
    /\ \A g, h \in Chatters : Acting(g) /\ Acting(h) => g = h
    /\ \A o \in {1, 2} :
          /\ Cardinality(IdsOf(o)) <= 1 + again[o] + dealFaults
          /\ (\E h \in Chatters : Making(h, o)) => Cardinality(IdsOf(o)) <= again[o] + dealFaults
          /\ offer[o] # "accepted" /\ (\A h \in Chatters : ~Made(h, o)) =>
                Cardinality(IdsOf(o)) <= again[o] + dealFaults
    /\ \A k \in {1, 2} :
          /\ transferred[k] <= 1 + dealFaults
          /\ contract[k].status # "funded" /\ (\A h \in Chatters : ~Paid(h, k)) =>
                transferred[k] <= dealFaults
          /\ (\E h \in Chatters : Paying(h, k)) => contract[k].status # "funded"

\* While no two handlers have met, what each has counted is all there is (Counted).
DealInv ==
    /\ Deals!TypeOK
    /\ \A h \in Chatters : About(h)
    /\ \A k \in {1, 2} : Contracted(k)
    /\ \A o \in {1, 2} : offer[o] = "accepted" => IdsOf(o) # {}
    /\ met \/ Counted


\* A handler's locals
DealPcs == {"idle", "buyer", "post", "patch", "transfer", "fund", "over"}
DealType == [pc : DealPcs, offer : {0, 1, 2}, contract : {0, 1, 2}]

\* Only the action of h goes on.
OnlyDeal(h) == deal' \in [Chatters -> DealType] /\ \A g \in Chatters : g # h => deal'[g] = deal[g]

LEMMA DealTypes ==
    ASSUME Deals!TypeOK
    PROVE  /\ offer \in [{1, 2} -> {"none", "pending", "accepted"}]
           /\ contract \in [{1, 2} -> [offer : {0, 1, 2}, status : {"none", "created", "funded"}]]
           /\ deal \in [Chatters -> DealType]
           /\ transferred \in [{1, 2} -> Nat] /\ again \in [{1, 2} -> Nat]
           /\ dealFaults \in 0..1 /\ met \in BOOLEAN /\ autoAccept \in BOOLEAN
<1>1. 1..2 = {1, 2} /\ {1, 2} \cup {0} = {0, 1, 2}
  OBVIOUS
<1> QED
  BY <1>1 DEF Deals!TypeOK, Deals!ContractIds, Deals!None, DealType, DealPcs

LEMMA DealTypesNext ==
    ASSUME offer' \in [{1, 2} -> {"none", "pending", "accepted"}],
           contract' \in [{1, 2} -> [offer : {0, 1, 2}, status : {"none", "created", "funded"}]],
           deal' \in [Chatters -> DealType],
           transferred' \in [{1, 2} -> Nat], again' \in [{1, 2} -> Nat],
           dealFaults' \in 0..1, met' \in BOOLEAN, autoAccept' \in BOOLEAN
    PROVE  Deals!TypeOK'
<1>1. 1..2 = {1, 2} /\ {1, 2} \cup {0} = {0, 1, 2}
  OBVIOUS
<1> QED
  BY <1>1 DEF Deals!TypeOK, Deals!ContractIds, Deals!None, DealType, DealPcs

LEMMA GotoDeal ==
    ASSUME Deals!TypeOK, NEW h \in Chatters, NEW point \in DealPcs,
           deal' = [deal EXCEPT ![h].pc = point]
    PROVE  /\ OnlyDeal(h) /\ deal'[h].pc = point
           /\ deal'[h].offer = deal[h].offer /\ deal'[h].contract = deal[h].contract
<1>1. deal \in [Chatters -> DealType]
  BY DealTypes
<1>2. deal'[h] = [deal[h] EXCEPT !.pc = point] /\ deal[h] \in DealType
  BY <1>1
<1>3. deal'[h] \in DealType
  BY <1>2 DEF DealType
<1> QED
  BY <1>1, <1>2, <1>3 DEF OnlyDeal, DealType

LEMMA CountedIds ==
    ASSUME NEW o
    PROVE  Cardinality(IdsOf(o)) \in Nat /\ IsFiniteSet(IdsOf(o))
           /\ Cardinality(IdsOf(o))' \in Nat
<1>1. IsFiniteSet({1, 2})
  <2>1. IsFiniteSet({1}) /\ {1, 2} = {1} \cup {2}
    BY FS_Singleton
  <2> QED
    BY <2>1, FS_AddElement
<1>2. IdsOf(o) \subseteq {1, 2} /\ IdsOf(o)' \subseteq {1, 2}
  BY DEF IdsOf
<1> QED
  BY <1>1, <1>2, FS_Subset, FS_CardinalityType

\* What the only action that has begun says of the counts
CountedBy(h) ==
    /\ \A o \in {1, 2} :
          /\ Cardinality(IdsOf(o)) <= 1 + again[o] + dealFaults
          /\ Making(h, o) => Cardinality(IdsOf(o)) <= again[o] + dealFaults
          /\ offer[o] # "accepted" /\ ~Made(h, o) => Cardinality(IdsOf(o)) <= again[o] + dealFaults
    /\ \A k \in {1, 2} :
          /\ transferred[k] <= 1 + dealFaults
          /\ contract[k].status # "funded" /\ ~Paid(h, k) => transferred[k] <= dealFaults
          /\ Paying(h, k) => contract[k].status # "funded"

LEMMA CountedAlone ==
    ASSUME NEW h \in Chatters, \A g \in Chatters : g # h => ~Acting(g)
    PROVE  Counted <=> CountedBy(h)
BY DEF Counted, CountedBy, Acting, Making, Made, Paying, Paid

LEMMA CountedAloneNext ==
    ASSUME NEW h \in Chatters, \A g \in Chatters : g # h => ~Acting(g)'
    PROVE  Counted' <=> CountedBy(h)'
BY DEF Counted, CountedBy, Acting, Making, Made, Paying, Paid

\* A step of one action: what is there stays, and what is said of the counts by the action that is
\* alone.
LEMMA DealStep ==
    ASSUME DealInv, NEW h \in Chatters, OnlyDeal(h), Deals!TypeOK',
           \A o \in {1, 2} : offer[o] # "none" => offer'[o] # "none",
           \A k \in {1, 2} : /\ contract[k].status # "none" =>
                                   contract'[k].status # "none" /\ contract'[k].offer = contract[k].offer
                             /\ transferred'[k] >= transferred[k],
           About(h)',
           \A k \in {1, 2} : Contracted(k)',
           \A o \in {1, 2} : offer'[o] = "accepted" => offer[o] = "accepted" \/ IdsOf(o)' # {},
           ~met' => ~met,
           ~met' => \A g \in Chatters : g # h => ~Acting(g),
           ~met' /\ CountedBy(h) => CountedBy(h)'
    PROVE  DealInv'
<1> USE DEF DealInv
<1>1. ASSUME NEW o \in {1, 2} PROVE IdsOf(o) \subseteq IdsOf(o)'
  <2>1. ASSUME NEW k \in IdsOf(o) PROVE k \in IdsOf(o)'
    <3>1. k \in {1, 2} /\ contract[k].offer = o /\ Contracted(k)
      BY <2>1 DEF IdsOf
    <3> QED
      BY <3>1 DEF Contracted, IdsOf
  <2> QED
    BY <2>1
<1>2. ASSUME NEW g \in Chatters PROVE About(g)'
  <2>1. CASE g = h
    BY <2>1
  <2>2. CASE g # h
    <3>1. deal'[g] = deal[g] /\ About(g)
      BY <2>2 DEF OnlyDeal
    <3>2. deal[g].pc \in {"transfer", "fund"} => contract'[deal[g].contract].status # "none"
      BY <3>1 DEF About
    <3>3. deal[g].pc = "fund" => transferred'[deal[g].contract] > 0
      <4>1. ASSUME deal[g].pc = "fund" PROVE transferred'[deal[g].contract] > 0
        <5>1. deal[g].contract \in {1, 2} /\ transferred[deal[g].contract] > 0
          BY <3>1, <4>1 DEF About
        <5>2. \A k \in {1, 2} : transferred[k] \in Nat /\ transferred'[k] \in Nat
          BY DEF Deals!TypeOK, Deals!ContractIds
        <5> QED
          BY <5>1, <5>2
      <4> QED
        BY <4>1
    <3>4. deal[g].pc = "patch" => IdsOf(deal[g].offer)' # {}
      <4>1. ASSUME deal[g].pc = "patch" PROVE \E k \in {1, 2} : contract'[k].offer = deal[g].offer
        BY <1>1, <3>1, <4>1 DEF About, IdsOf
      <4> QED
        BY <3>1, <4>1 DEF IdsOf
    <3> QED
      BY <3>1, <3>2, <3>3, <3>4 DEF About, IdsOf
  <2> QED
    BY <2>1, <2>2
<1>3. ASSUME NEW o \in {1, 2}, offer'[o] = "accepted" PROVE IdsOf(o)' # {}
  BY <1>1, <1>3
<1>4. ASSUME ~met' PROVE Counted'
  <2>1. \A g \in Chatters : g # h => ~Acting(g) /\ ~Acting(g)'
    BY <1>4 DEF OnlyDeal, Acting
  <2>2. Counted <=> CountedBy(h)
    BY <2>1, CountedAlone
  <2>3. Counted' <=> CountedBy(h)'
    BY <2>1, CountedAloneNext
  <2> QED
    BY <1>4, <2>2, <2>3
<1> QED
  BY <1>2, <1>3, <1>4

\* An action begins alone, if none overlaps it.
LEMMA BeganAlone ==
    ASSUME DealInv, NEW h \in Chatters, Deals!Began(h)
    PROVE  /\ met' \in BOOLEAN /\ (~met' => ~met) /\ deal[h].pc = "idle"
           /\ ~met' => \A g \in Chatters : g # h => ~Acting(g)
BY DEF DealInv, Deals!TypeOK, Deals!Began, Deals!At, Acting

\* An action that goes on is the only one, if none overlaps.
LEMMA ActsAlone ==
    ASSUME DealInv, NEW h \in Chatters, Acting(h), met' = met
    PROVE  /\ met' \in BOOLEAN /\ (~met' => ~met)
           /\ ~met' => \A g \in Chatters : g # h => ~Acting(g)
BY DEF DealInv, Deals!TypeOK, Counted

\* Nothing is counted or made by a step that only moves an action to where it makes nothing.
LEMMA MakeOfferKeeps ==
    ASSUME DealInv, NEW h \in Chatters, Deals!MakeOffer(h) PROVE DealInv'
<1> USE DEF DealInv
<1>1. /\ UNCHANGED <<contract, autoAccept, transferred, again, dealFaults>>
      /\ deal' = [deal EXCEPT ![h].pc = "over"]
  BY DEF Deals!MakeOffer, Deals!Goto
<1>2. PICK o \in {1, 2} : offer[o] = "none" /\ offer' = [offer EXCEPT ![o] = "pending"]
  BY DEF Deals!MakeOffer
<1>3. /\ OnlyDeal(h) /\ deal'[h].pc = "over" /\ deal'[h].offer = deal[h].offer
  BY <1>1, GotoDeal DEF DealPcs
<1>4. /\ met' \in BOOLEAN /\ (~met' => ~met) /\ deal[h].pc = "idle"
      /\ ~met' => \A g \in Chatters : g # h => ~Acting(g)
  BY BeganAlone DEF Deals!MakeOffer
<1>5. /\ offer' \in [{1, 2} -> {"none", "pending", "accepted"}] /\ offer'[o] = "pending"
      /\ \A p \in {1, 2} : p # o => offer'[p] = offer[p]
  BY <1>2, DealTypes
<1>6. Deals!TypeOK'
  BY <1>1, <1>3, <1>4, <1>5, DealTypes, DealTypesNext DEF OnlyDeal
<1>7. \A k \in {1, 2} : Contracted(k)'
  BY <1>1, <1>2, <1>5, DealTypes DEF Contracted
<1>8. ASSUME CountedBy(h) PROVE CountedBy(h)'
  BY <1>1, <1>2, <1>3, <1>4, <1>5, <1>8 DEF CountedBy, Making, Made, Paying, Paid, IdsOf
<1>9. About(h)'
  BY <1>3 DEF About
<1> QED
  BY <1>1, <1>2, <1>3, <1>4, <1>5, <1>6, <1>7, <1>8, <1>9, DealStep, DealTypes

LEMMA FirstIsIn == ASSUME NEW S \in SUBSET {1, 2}, S # {} PROVE Deals!First(S) \in S
<1>1. \E x \in S : \A y \in S : x <= y
  <2>1. CASE 1 \in S
    BY <2>1
  <2>2. CASE 1 \notin S
    <3>1. S = {2}
      BY <2>2
    <3> QED
      BY <3>1
  <2> QED
    BY <2>1, <2>2
<1> QED
  BY <1>1 DEF Deals!First

\* A step that leaves offers, contracts, transfers and failures as they are
LEMMA DealMoves ==
    ASSUME DealInv, NEW h \in Chatters, OnlyDeal(h),
           UNCHANGED <<offer, contract, autoAccept, transferred, again, dealFaults>>,
           met' \in BOOLEAN, ~met' => ~met,
           ~met' => \A g \in Chatters : g # h => ~Acting(g),
           About(h)',
           ~met' /\ CountedBy(h) => CountedBy(h)'
    PROVE  DealInv'
<1> USE DEF DealInv
<1>1. Deals!TypeOK'
  BY DealTypes, DealTypesNext DEF OnlyDeal
<1>2. \A k \in {1, 2} : Contracted(k)'
  BY DEF Contracted
<1> QED
  BY <1>1, <1>2, DealStep, DealTypes

LEMMA AcceptKeeps ==
    ASSUME DealInv, NEW h \in Chatters, Deals!AcceptFirst(h) PROVE DealInv'
<1> USE DEF DealInv
<1>1. /\ UNCHANGED <<offer, contract, autoAccept, transferred, again, dealFaults>>
      /\ deal' = IF Deals!Pending = {} \/ ~autoAccept THEN [deal EXCEPT ![h].pc = "over"]
                 ELSE [deal EXCEPT ![h].pc = "buyer", ![h].offer = Deals!First(Deals!Pending)]
  BY DEF Deals!AcceptFirst
<1>2. /\ met' \in BOOLEAN /\ (~met' => ~met) /\ deal[h].pc = "idle"
      /\ ~met' => \A g \in Chatters : g # h => ~Acting(g)
  BY BeganAlone DEF Deals!AcceptFirst
<1>3. CASE deal' = [deal EXCEPT ![h].pc = "over"]
  <2>1. OnlyDeal(h) /\ deal'[h].pc = "over"
    BY <1>3, GotoDeal DEF DealPcs
  <2>2. CountedBy(h) => CountedBy(h)'
    BY <1>1, <1>2, <2>1 DEF CountedBy, Making, Made, Paying, Paid, IdsOf
  <2> QED
    BY <1>1, <1>2, <2>1, <2>2, DealMoves DEF About
<1>4. CASE Deals!Pending # {} /\ deal' = [deal EXCEPT ![h].pc = "buyer", ![h].offer = Deals!First(Deals!Pending)]
  <2> DEFINE o == Deals!First(Deals!Pending)
  <2>1. o \in {1, 2} /\ offer[o] = "pending"
    BY <1>4, FirstIsIn DEF Deals!Pending
  <2> HIDE DEF o
  <2>2. deal' = [deal EXCEPT ![h].pc = "buyer", ![h].offer = o]
    BY <1>4 DEF o
  <2>3. OnlyDeal(h) /\ deal'[h].pc = "buyer" /\ deal'[h].offer = o
    <3>1. deal \in [Chatters -> DealType]
      BY DealTypes
    <3>2. deal'[h] = [deal[h] EXCEPT !.pc = "buyer", !.offer = o] /\ deal[h] \in DealType
      BY <2>2, <3>1
    <3>3. deal'[h] \in DealType /\ deal'[h].pc = "buyer" /\ deal'[h].offer = o
      BY <2>1, <3>2 DEF DealType, DealPcs
    <3> QED
      BY <2>2, <3>1, <3>3 DEF OnlyDeal
  <2>4. About(h)'
    BY <1>1, <2>1, <2>3 DEF About
  <2>5. CountedBy(h) => CountedBy(h)'
    <3>1. \A p \in {1, 2} : IdsOf(p)' = IdsOf(p)
      BY <1>1 DEF IdsOf
    <3>2. \A p \in {1, 2} : Making(h, p)' <=> p = o
      BY <2>3 DEF Making
    <3>3. \A p \in {1, 2} : ~Made(h, p) /\ ~Made(h, p)' /\ ~Paid(h, p) /\ ~Paid(h, p)' /\ ~Paying(h, p)'
      BY <1>2, <2>3 DEF Made, Paid, Paying
    <3> QED
      BY <1>1, <2>1, <3>1, <3>2, <3>3 DEF CountedBy
  <2> QED
    BY <1>1, <1>2, <2>3, <2>4, <2>5, DealMoves
<1> QED
  BY <1>1, <1>3, <1>4

LEMMA BuyerCheckedKeeps ==
    ASSUME DealInv, NEW h \in Chatters, Deals!BuyerChecked(h) PROVE DealInv'
<1> USE DEF DealInv
<1>1. /\ UNCHANGED <<offer, contract, autoAccept, transferred, again, met, dealFaults>>
      /\ deal[h].pc = "buyer"
  BY DEF Deals!BuyerChecked, Deals!At
<1>2. PICK point \in {"post", "over"} : deal' = [deal EXCEPT ![h].pc = point]
  BY DEF Deals!BuyerChecked, Deals!Goto
<1>3. OnlyDeal(h) /\ deal'[h].pc = point /\ deal'[h].offer = deal[h].offer
  BY <1>2, GotoDeal DEF DealPcs
<1>4. met' \in BOOLEAN /\ (~met' => ~met) /\ (~met' => \A g \in Chatters : g # h => ~Acting(g))
  BY <1>1, ActsAlone DEF Acting
<1>5. About(h)'
  BY <1>1, <1>2, <1>3 DEF About
<1>6. CountedBy(h) => CountedBy(h)'
  BY <1>1, <1>2, <1>3 DEF CountedBy, Making, Made, Paying, Paid, IdsOf
<1> QED
  BY <1>1, <1>3, <1>4, <1>5, <1>6, DealMoves

LEMMA AcceptByIdKeeps ==
    ASSUME DealInv, NEW h \in Chatters, Deals!AcceptById(h) PROVE DealInv'
<1> USE DEF DealInv
<1>1. UNCHANGED <<offer, contract, autoAccept, transferred, dealFaults>>
  BY DEF Deals!AcceptById
<1>2. /\ met' \in BOOLEAN /\ (~met' => ~met) /\ deal[h].pc = "idle"
      /\ ~met' => \A g \in Chatters : g # h => ~Acting(g)
  BY BeganAlone DEF Deals!AcceptById
<1>3. PICK o \in {1, 2} : /\ offer[o] # "none"
                          /\ deal' = [deal EXCEPT ![h].pc = "post", ![h].offer = o]
                          /\ again' = [again EXCEPT ![o] = IF offer[o] = "pending" THEN @ ELSE @ + 1]
  BY DEF Deals!AcceptById
<1>4. OnlyDeal(h) /\ deal'[h].pc = "post" /\ deal'[h].offer = o
  <2>1. deal \in [Chatters -> DealType]
    BY DealTypes
  <2>2. deal'[h] = [deal[h] EXCEPT !.pc = "post", !.offer = o] /\ deal[h] \in DealType
    BY <1>3, <2>1
  <2>3. deal'[h] \in DealType /\ deal'[h].pc = "post" /\ deal'[h].offer = o
    BY <2>2 DEF DealType, DealPcs
  <2> QED
    BY <1>3, <2>1, <2>3 DEF OnlyDeal
<1>5. /\ again' \in [{1, 2} -> Nat] /\ \A p \in {1, 2} : p # o => again'[p] = again[p]
      /\ again'[o] = IF offer[o] = "pending" THEN again[o] ELSE again[o] + 1
      /\ \A p \in {1, 2} : again[p] \in Nat
  BY <1>3, DealTypes
<1>6. About(h)'
  BY <1>1, <1>3, <1>4 DEF About
<1>7. Deals!TypeOK'
  BY <1>1, <1>2, <1>4, <1>5, DealTypes, DealTypesNext DEF OnlyDeal
<1>8. \A k \in {1, 2} : Contracted(k)'
  BY <1>1 DEF Contracted
<1>9. CountedBy(h) => CountedBy(h)'
  <2>1. \A p \in {1, 2} : IdsOf(p)' = IdsOf(p) /\ Cardinality(IdsOf(p)) \in Nat
    BY <1>1, CountedIds DEF IdsOf
  <2>2. \A p \in {1, 2} : Making(h, p)' <=> p = o
    BY <1>4 DEF Making
  <2>3. \A p \in {1, 2} : ~Made(h, p) /\ ~Made(h, p)' /\ ~Paid(h, p) /\ ~Paid(h, p)' /\ ~Paying(h, p)'
    BY <1>2, <1>4 DEF Made, Paid, Paying
  <2>4. dealFaults \in Nat /\ dealFaults' = dealFaults
    BY <1>1, DealTypes
  <2> QED
    BY <1>1, <1>3, <1>5, <2>1, <2>2, <2>3, <2>4 DEF CountedBy
<1> QED
  BY <1>1, <1>2, <1>4, <1>6, <1>7, <1>8, <1>9, DealStep, DealTypes

LEMMA PostKeeps ==
    ASSUME DealInv, NEW h \in Chatters, Deals!Post(h) PROVE DealInv'
<1> USE DEF DealInv
<1> DEFINE k == Deals!First(Deals!Free)
<1>0. PICK o : o = deal[h].offer
  OBVIOUS
<1>1. /\ UNCHANGED <<offer, autoAccept, transferred, again, met, dealFaults>>
      /\ deal[h].pc = "post" /\ Deals!Free # {}
      /\ contract' = [contract EXCEPT ![k] = [offer |-> o, status |-> "created"]]
      /\ deal' = [deal EXCEPT ![h].pc = "patch"]
  BY <1>0 DEF Deals!Post, Deals!At, Deals!Goto
<1>2. k \in {1, 2} /\ contract[k].status = "none"
  <2>1. Deals!Free \in SUBSET {1, 2}
    BY 1..2 = {1, 2} DEF Deals!Free, Deals!ContractIds
  <2>2. k \in Deals!Free
    BY <1>1, <2>1, FirstIsIn
  <2> QED
    BY <2>1, <2>2 DEF Deals!Free
<1> HIDE DEF k
<1>3. o \in {1, 2} /\ offer[o] # "none" /\ contract[k].offer = 0 /\ transferred[k] = 0
  BY <1>0, <1>1, <1>2 DEF About, Contracted
<1>4. OnlyDeal(h) /\ deal'[h].pc = "patch" /\ deal'[h].offer = o
  BY <1>0, <1>1, GotoDeal DEF DealPcs
<1>5. met' \in BOOLEAN /\ (~met' => ~met) /\ (~met' => \A g \in Chatters : g # h => ~Acting(g))
  BY <1>1, ActsAlone DEF Acting
<1>6. /\ contract' \in [{1, 2} -> [offer : {0, 1, 2}, status : {"none", "created", "funded"}]]
      /\ contract'[k].offer = o /\ contract'[k].status = "created"
      /\ \A j \in {1, 2} : j # k => contract'[j] = contract[j]
  BY <1>1, <1>2, <1>3, DealTypes
<1>7. /\ IdsOf(o)' = IdsOf(o) \cup {k} /\ k \notin IdsOf(o)
      /\ \A p \in {1, 2} : p # o => IdsOf(p)' = IdsOf(p)
  <2>1. ASSUME NEW p \in {1, 2} PROVE IdsOf(p)' = IF p = o THEN IdsOf(p) \cup {k} ELSE IdsOf(p)
    BY <1>2, <1>3, <1>6 DEF IdsOf
  <2>2. \A j : j \in IdsOf(o)' <=> j \in IdsOf(o) \cup {k}
    BY <1>2, <1>3, <1>6 DEF IdsOf
  <2>3. k \notin IdsOf(o)
    BY <1>3 DEF IdsOf
  <2> QED
    BY <2>1, <2>2, <2>3
<1>8. Cardinality(IdsOf(o)') = Cardinality(IdsOf(o)) + 1
  BY <1>7, CountedIds, FS_AddElement
<1>9. About(h)'
  BY <1>1, <1>3, <1>4, <1>7 DEF About
<1>10. Deals!TypeOK'
  BY <1>1, <1>4, <1>5, <1>6, DealTypes, DealTypesNext DEF OnlyDeal
<1>11. ASSUME NEW j \in {1, 2} PROVE Contracted(j)'
  BY <1>1, <1>3, <1>6 DEF Contracted
<1>12. CountedBy(h) => CountedBy(h)'
  <2>1. \A p \in {1, 2} : Cardinality(IdsOf(p)) \in Nat
    BY CountedIds
  <2>2. \A p \in {1, 2} : /\ Making(h, p) <=> p = o
                          /\ ~Making(h, p)' /\ (Made(h, p)' <=> p = o) /\ ~Made(h, p)
    BY <1>0, <1>1, <1>4 DEF Making, Made
  <2>3. \A p \in {1, 2} : ~Paid(h, p) /\ ~Paid(h, p)' /\ ~Paying(h, p)'
    BY <1>1, <1>4 DEF Paid, Paying
  <2>4. dealFaults \in Nat /\ dealFaults' = dealFaults /\ again' = again /\ again \in [{1, 2} -> Nat]
        /\ transferred' = transferred /\ offer' = offer
    BY <1>1, DealTypes
  <2>5. ASSUME CountedBy(h), NEW p \in {1, 2}
        PROVE  /\ Cardinality(IdsOf(p))' <= 1 + again'[p] + dealFaults'
               /\ offer'[p] # "accepted" /\ ~Made(h, p)' => Cardinality(IdsOf(p))' <= again'[p] + dealFaults'
    <3>1. CASE p = o
      BY <1>8, <2>1, <2>2, <2>4, <2>5, <3>1 DEF CountedBy
    <3>2. CASE p # o
      BY <1>7, <2>2, <2>4, <2>5, <3>2 DEF CountedBy
    <3> QED
      BY <3>1, <3>2
  <2>6. ASSUME CountedBy(h), NEW j \in {1, 2}
        PROVE  /\ transferred'[j] <= 1 + dealFaults'
               /\ contract'[j].status # "funded" => transferred'[j] <= dealFaults'
    <3>1. CASE j = k
      BY <1>3, <2>4, <3>1
    <3>2. CASE j # k
      BY <1>6, <2>3, <2>4, <2>6, <3>2 DEF CountedBy
    <3> QED
      BY <3>1, <3>2
  <2> QED
    BY <2>2, <2>3, <2>5, <2>6 DEF CountedBy
<1>13. \A j \in {1, 2} : contract[j].status # "none" =>
          contract'[j].status # "none" /\ contract'[j].offer = contract[j].offer
  BY <1>2, <1>6
<1> QED
  BY <1>1, <1>4, <1>5, <1>9, <1>10, <1>11, <1>12, <1>13, DealStep, DealTypes

LEMMA PatchKeeps ==
    ASSUME DealInv, NEW h \in Chatters, Deals!Patch(h) PROVE DealInv'
<1> USE DEF DealInv
<1> DEFINE o == deal[h].offer
<1>1. /\ UNCHANGED <<contract, autoAccept, transferred, again, met, dealFaults>>
      /\ deal[h].pc = "patch" /\ offer' = [offer EXCEPT ![o] = "accepted"]
      /\ deal' = [deal EXCEPT ![h].pc = "over"]
  BY DEF Deals!Patch, Deals!At, Deals!Goto
<1>2. o \in {1, 2} /\ offer[o] # "none" /\ IdsOf(o) # {}
  BY <1>1 DEF About
<1>3. OnlyDeal(h) /\ deal'[h].pc = "over" /\ deal'[h].offer = o
  BY <1>1, GotoDeal DEF DealPcs
<1>4. met' \in BOOLEAN /\ (~met' => ~met) /\ (~met' => \A g \in Chatters : g # h => ~Acting(g))
  BY <1>1, ActsAlone DEF Acting
<1> HIDE DEF o
<1>5. /\ offer' \in [{1, 2} -> {"none", "pending", "accepted"}] /\ offer'[o] = "accepted"
      /\ \A p \in {1, 2} : p # o => offer'[p] = offer[p]
  BY <1>1, <1>2, DealTypes
<1>6. Deals!TypeOK'
  BY <1>1, <1>3, <1>4, <1>5, DealTypes, DealTypesNext DEF OnlyDeal
<1>7. \A p \in {1, 2} : IdsOf(p)' = IdsOf(p)
  BY <1>1 DEF IdsOf
<1>8. ASSUME NEW k \in {1, 2} PROVE Contracted(k)'
  <2>1. Contracted(k) /\ contract[k].offer \in {0, 1, 2}
    BY DealTypes
  <2> QED
    BY <1>1, <1>5, <2>1 DEF Contracted
<1>9. CountedBy(h) => CountedBy(h)'
  <2>1. \A p \in {1, 2} : ~Making(h, p)' /\ ~Made(h, p)' /\ (Made(h, p) <=> p = o)
    BY <1>1, <1>3 DEF Making, Made, o
  <2>2. \A p \in {1, 2} : ~Paid(h, p) /\ ~Paid(h, p)' /\ ~Paying(h, p)'
    BY <1>1, <1>3 DEF Paid, Paying
  <2> QED
    BY <1>1, <1>5, <1>7, <2>1, <2>2 DEF CountedBy
<1>10. About(h)'
  BY <1>3 DEF About
<1> QED
  BY <1>1, <1>2, <1>3, <1>4, <1>5, <1>6, <1>7, <1>8, <1>9, <1>10, DealStep, DealTypes

LEMMA ContractExecuteKeeps ==
    ASSUME DealInv, NEW h \in Chatters, Deals!Execute(h) PROVE DealInv'
<1> USE DEF DealInv
<1>1. UNCHANGED <<offer, contract, autoAccept, transferred, again, dealFaults>>
  BY DEF Deals!Execute
<1>2. /\ met' \in BOOLEAN /\ (~met' => ~met) /\ deal[h].pc = "idle"
      /\ ~met' => \A g \in Chatters : g # h => ~Acting(g)
  BY BeganAlone DEF Deals!Execute
<1>3. PICK k \in {1, 2} : /\ contract[k].status # "none"
                          /\ deal' = IF contract[k].status = "created"
                                     THEN [deal EXCEPT ![h].pc = "transfer", ![h].contract = k]
                                     ELSE [deal EXCEPT ![h].pc = "over"]
  BY 1..2 = {1, 2} DEF Deals!Execute, Deals!ContractIds
<1>4. CASE deal' = [deal EXCEPT ![h].pc = "over"]
  <2>1. OnlyDeal(h) /\ deal'[h].pc = "over"
    BY <1>4, GotoDeal DEF DealPcs
  <2>2. CountedBy(h) => CountedBy(h)'
    BY <1>1, <1>2, <2>1 DEF CountedBy, Making, Made, Paying, Paid, IdsOf
  <2> QED
    BY <1>1, <1>2, <2>1, <2>2, DealMoves DEF About
<1>5. CASE contract[k].status = "created" /\ deal' = [deal EXCEPT ![h].pc = "transfer", ![h].contract = k]
  <2>1. OnlyDeal(h) /\ deal'[h].pc = "transfer" /\ deal'[h].contract = k
    <3>1. deal \in [Chatters -> DealType] /\ k \in {0, 1, 2}
      BY DealTypes
    <3>2. deal'[h] = [deal[h] EXCEPT !.pc = "transfer", !.contract = k] /\ deal[h] \in DealType
      BY <1>5, <3>1
    <3>3. deal'[h] \in DealType /\ deal'[h].pc = "transfer" /\ deal'[h].contract = k
      BY <3>1, <3>2 DEF DealType, DealPcs
    <3> QED
      BY <1>5, <3>1, <3>3 DEF OnlyDeal
  <2>2. About(h)'
    BY <1>1, <1>3, <2>1 DEF About
  <2>3. CountedBy(h) => CountedBy(h)'
    <3>1. \A p \in {1, 2} : IdsOf(p)' = IdsOf(p)
      BY <1>1 DEF IdsOf
    <3>2. \A p \in {1, 2} : ~Making(h, p) /\ ~Making(h, p)' /\ ~Made(h, p) /\ ~Made(h, p)' /\ ~Paid(h, p)
                            /\ ~Paid(h, p)'
      BY <1>2, <2>1 DEF Making, Made, Paid
    <3>3. \A p \in {1, 2} : Paying(h, p)' <=> p = k
      BY <2>1 DEF Paying
    <3> QED
      BY <1>1, <1>5, <3>1, <3>2, <3>3 DEF CountedBy
  <2> QED
    BY <1>1, <1>2, <2>1, <2>2, <2>3, DealMoves
<1> QED
  BY <1>3, <1>4, <1>5

\* A transfer for the contract k of h, after which it is funded, or has failed
LEMMA TransferCounted ==
    ASSUME DealInv, NEW h \in Chatters, NEW k \in {1, 2}, deal[h].pc = "transfer", deal[h].contract = k,
           transferred' = [transferred EXCEPT ![k] = transferred[k] + 1]
    PROVE  /\ transferred' \in [{1, 2} -> Nat] /\ transferred'[k] = transferred[k] + 1
           /\ \A j \in {1, 2} : j # k => transferred'[j] = transferred[j]
           /\ contract[k].status # "none" /\ transferred[k] \in Nat
           /\ \A j \in {1, 2} : transferred'[j] >= transferred[j]
BY DealTypes DEF DealInv, About

LEMMA TransferKeeps ==
    ASSUME DealInv, NEW h \in Chatters, Deals!Transfer(h) PROVE DealInv'
<1> USE DEF DealInv
<1>0. PICK k : k = deal[h].contract
  OBVIOUS
<1>1. /\ UNCHANGED <<offer, contract, autoAccept, again, met, dealFaults>>
      /\ deal[h].pc = "transfer" /\ deal' = [deal EXCEPT ![h].pc = "fund"]
      /\ transferred' = [transferred EXCEPT ![k] = transferred[k] + 1]
  BY <1>0 DEF Deals!Transfer, Deals!At, Deals!Goto
<1>2. k \in {1, 2}
  BY <1>0, <1>1 DEF About
<1>3. OnlyDeal(h) /\ deal'[h].pc = "fund" /\ deal'[h].contract = k
  BY <1>0, <1>1, GotoDeal DEF DealPcs
<1>4. met' \in BOOLEAN /\ (~met' => ~met) /\ (~met' => \A g \in Chatters : g # h => ~Acting(g))
  BY <1>1, ActsAlone DEF Acting
<1>5. /\ transferred' \in [{1, 2} -> Nat] /\ transferred'[k] = transferred[k] + 1
      /\ \A j \in {1, 2} : j # k => transferred'[j] = transferred[j]
      /\ contract[k].status # "none" /\ transferred[k] \in Nat
      /\ \A j \in {1, 2} : transferred'[j] >= transferred[j]
  BY <1>0, <1>1, <1>2, TransferCounted
<1>6. Deals!TypeOK'
  BY <1>1, <1>3, <1>4, <1>5, DealTypes, DealTypesNext DEF OnlyDeal
<1>7. ASSUME NEW j \in {1, 2} PROVE Contracted(j)'
  <2>1. Contracted(j)
    OBVIOUS
  <2> QED
    BY <1>1, <1>5, <2>1 DEF Contracted
<1>8. About(h)'
  BY <1>1, <1>2, <1>3, <1>5 DEF About
<1>9. CountedBy(h) => CountedBy(h)'
  <2>1. \A p \in {1, 2} : IdsOf(p)' = IdsOf(p)
    BY <1>1 DEF IdsOf
  <2>2. \A p \in {1, 2} : ~Making(h, p) /\ ~Making(h, p)' /\ ~Made(h, p) /\ ~Made(h, p)' /\ ~Paying(h, p)'
    BY <1>1, <1>3 DEF Making, Made, Paying
  <2>3. \A p \in {1, 2} : ~Paid(h, p) /\ (Paid(h, p)' <=> p = k) /\ (Paying(h, p) <=> p = k)
    BY <1>0, <1>1, <1>3 DEF Paid, Paying
  <2>4. dealFaults \in Nat /\ transferred \in [{1, 2} -> Nat]
    BY DealTypes
  <2>5. ASSUME CountedBy(h), NEW j \in {1, 2}
        PROVE  /\ transferred'[j] <= 1 + dealFaults'
               /\ contract'[j].status # "funded" /\ ~Paid(h, j)' => transferred'[j] <= dealFaults'
    <3>1. CASE j = k
      BY <1>1, <1>5, <2>3, <2>4, <2>5, <3>1 DEF CountedBy
    <3>2. CASE j # k
      BY <1>1, <1>5, <2>3, <2>4, <2>5, <3>2 DEF CountedBy
    <3> QED
      BY <3>1, <3>2
  <2> QED
    BY <1>1, <2>1, <2>2, <2>5 DEF CountedBy
<1> QED
  BY <1>1, <1>3, <1>4, <1>5, <1>6, <1>7, <1>8, <1>9, DealStep, DealTypes

LEMMA FundKeeps ==
    ASSUME DealInv, NEW h \in Chatters, Deals!Fund(h) PROVE DealInv'
<1> USE DEF DealInv
<1>0. PICK k : k = deal[h].contract
  OBVIOUS
<1>1. /\ UNCHANGED <<offer, autoAccept, transferred, again, met, dealFaults>>
      /\ deal[h].pc = "fund" /\ contract' = [contract EXCEPT ![k].status = "funded"]
      /\ deal' = [deal EXCEPT ![h].pc = "over"]
  BY <1>0 DEF Deals!Fund, Deals!At, Deals!Goto
<1>2. k \in {1, 2} /\ contract[k].status # "none" /\ transferred[k] > 0
  BY <1>0, <1>1 DEF About
<1>3. OnlyDeal(h) /\ deal'[h].pc = "over"
  BY <1>1, GotoDeal DEF DealPcs
<1>4. met' \in BOOLEAN /\ (~met' => ~met) /\ (~met' => \A g \in Chatters : g # h => ~Acting(g))
  BY <1>1, ActsAlone DEF Acting
<1>5. /\ contract' \in [{1, 2} -> [offer : {0, 1, 2}, status : {"none", "created", "funded"}]]
      /\ contract'[k].offer = contract[k].offer /\ contract'[k].status = "funded"
      /\ \A j \in {1, 2} : j # k => contract'[j] = contract[j]
  <2>1. contract \in [{1, 2} -> [offer : {0, 1, 2}, status : {"none", "created", "funded"}]]
    BY DealTypes
  <2>2. contract'[k] = [contract[k] EXCEPT !.status = "funded"]
    BY <1>1, <1>2, <2>1
  <2>3. /\ contract'[k] \in [offer : {0, 1, 2}, status : {"none", "created", "funded"}]
        /\ contract'[k].offer = contract[k].offer /\ contract'[k].status = "funded"
    BY <1>2, <2>1, <2>2
  <2> QED
    BY <1>1, <1>2, <2>1, <2>3
<1>6. Deals!TypeOK'
  BY <1>1, <1>3, <1>4, <1>5, DealTypes, DealTypesNext DEF OnlyDeal
<1>7. ASSUME NEW j \in {1, 2} PROVE Contracted(j)'
  <2>1. Contracted(j)
    OBVIOUS
  <2> QED
    BY <1>1, <1>2, <1>5, <2>1 DEF Contracted
<1>8. About(h)'
  BY <1>3 DEF About
<1>9. CountedBy(h) => CountedBy(h)'
  <2>1. ASSUME NEW p \in {1, 2} PROVE IdsOf(p)' = IdsOf(p)
    BY <1>2, <1>5 DEF IdsOf
  <2>2. \A p \in {1, 2} : ~Making(h, p) /\ ~Making(h, p)' /\ ~Made(h, p) /\ ~Made(h, p)' /\ ~Paying(h, p)'
    BY <1>1, <1>3 DEF Making, Made, Paying
  <2>3. \A p \in {1, 2} : (Paid(h, p) <=> p = k) /\ ~Paid(h, p)'
    BY <1>0, <1>1, <1>3 DEF Paid
  <2> QED
    BY <1>1, <1>5, <2>1, <2>2, <2>3 DEF CountedBy
<1>10. \A j \in {1, 2} : contract[j].status # "none" =>
          contract'[j].status # "none" /\ contract'[j].offer = contract[j].offer
  BY <1>5
<1> QED
  BY <1>1, <1>3, <1>4, <1>6, <1>7, <1>8, <1>9, <1>10, DealStep, DealTypes

LEMMA FailsKeeps ==
    ASSUME DealInv, NEW h \in Chatters, Deals!Fails(h) PROVE DealInv'
<1> USE DEF DealInv
<1>0. PICK k : k = deal[h].contract
  OBVIOUS
<1>1. /\ UNCHANGED <<offer, contract, autoAccept, again, met>>
      /\ deal[h].pc \in {"buyer", "post", "patch", "transfer", "fund"}
      /\ dealFaults < 1 /\ dealFaults' = dealFaults + 1
      /\ deal' = [deal EXCEPT ![h].pc = "over"]
      /\ \/ UNCHANGED transferred
         \/ deal[h].pc = "transfer" /\ transferred' = [transferred EXCEPT ![k] = transferred[k] + 1]
  BY <1>0 DEF Deals!Fails, Deals!At, Deals!Goto
<1>2. OnlyDeal(h) /\ deal'[h].pc = "over"
  BY <1>1, GotoDeal DEF DealPcs
<1>3. met' \in BOOLEAN /\ (~met' => ~met) /\ (~met' => \A g \in Chatters : g # h => ~Acting(g))
  BY <1>1, ActsAlone DEF Acting
<1>4. /\ transferred' \in [{1, 2} -> Nat] /\ \A j \in {1, 2} : transferred'[j] >= transferred[j]
      /\ \A j \in {1, 2} : transferred'[j] # transferred[j] =>
            deal[h].pc = "transfer" /\ j = k /\ transferred'[j] = transferred[j] + 1
  <2>1. transferred \in [{1, 2} -> Nat]
    BY DealTypes
  <2>2. CASE UNCHANGED transferred
    BY <2>1, <2>2
  <2>3. CASE deal[h].pc = "transfer" /\ transferred' = [transferred EXCEPT ![k] = transferred[k] + 1]
    <3>1. k \in {1, 2}
      BY <1>0, <2>3 DEF About
    <3> QED
      BY <1>0, <2>3, <3>1, TransferCounted
  <2> QED
    BY <1>1, <2>2, <2>3
<1>5. dealFaults \in Nat /\ dealFaults' \in 0..1
  BY <1>1, DealTypes
<1>6. Deals!TypeOK'
  BY <1>1, <1>2, <1>3, <1>4, <1>5, DealTypes, DealTypesNext DEF OnlyDeal
<1>7. ASSUME NEW j \in {1, 2} PROVE Contracted(j)'
  <2>1. Contracted(j) /\ transferred[j] \in Nat /\ transferred'[j] \in Nat
    BY <1>4, DealTypes
  <2>2. contract[j].status = "none" => transferred'[j] = transferred[j]
    BY <1>0, <1>4 DEF About
  <2> QED
    BY <1>1, <1>4, <2>1, <2>2 DEF Contracted
<1>8. About(h)'
  BY <1>2 DEF About
<1>9. CountedBy(h) => CountedBy(h)'
  <2>1. \A p \in {1, 2} : IdsOf(p)' = IdsOf(p) /\ Cardinality(IdsOf(p)) \in Nat
    BY <1>1, CountedIds DEF IdsOf
  <2>2. \A p \in {1, 2} : ~Making(h, p)' /\ ~Made(h, p)' /\ ~Paying(h, p)' /\ ~Paid(h, p)'
    BY <1>2 DEF Making, Made, Paying, Paid
  <2>3. \A p \in {1, 2} : transferred'[p] # transferred[p] => Paying(h, p) /\ ~Paid(h, p)
    BY <1>0, <1>4 DEF Paying, Paid
  <2>4. \A p \in {1, 2} : transferred[p] \in Nat /\ transferred'[p] \in Nat /\ again[p] \in Nat
    BY <1>4, DealTypes
  <2>5. ASSUME CountedBy(h), NEW j \in {1, 2} PROVE transferred'[j] <= dealFaults'
    <3>1. CASE transferred'[j] = transferred[j]
      BY <1>1, <1>5, <2>4, <2>5, <3>1 DEF CountedBy
    <3>2. CASE transferred'[j] # transferred[j]
      BY <1>1, <1>4, <1>5, <2>3, <2>4, <2>5, <3>2 DEF CountedBy
    <3> QED
      BY <3>1, <3>2
  <2>6. ASSUME CountedBy(h), NEW o \in {1, 2} PROVE Cardinality(IdsOf(o))' <= again'[o] + dealFaults'
    BY <1>1, <1>5, <2>1, <2>4, <2>6 DEF CountedBy
  <2>7. \A p \in {1, 2} : Cardinality(IdsOf(p))' \in Nat /\ again'[p] \in Nat /\ transferred'[p] \in Nat
    BY <1>1, <2>4, CountedIds
  <2> QED
    BY <1>5, <2>2, <2>5, <2>6, <2>7 DEF CountedBy
<1> QED
  BY <1>1, <1>2, <1>3, <1>4, <1>6, <1>7, <1>8, <1>9, DealStep

LEMMA DealsStep == ASSUME DealInv, [Deals!Next]_dealVars PROVE DealInv'
<1>1. ASSUME NEW h \in Chatters,
             \/ Deals!MakeOffer(h) \/ Deals!AcceptFirst(h) \/ Deals!BuyerChecked(h) \/ Deals!AcceptById(h)
             \/ Deals!Post(h) \/ Deals!Patch(h) \/ Deals!Execute(h) \/ Deals!Transfer(h) \/ Deals!Fund(h)
             \/ Deals!Fails(h)
      PROVE  DealInv'
  BY <1>1, MakeOfferKeeps, AcceptKeeps, BuyerCheckedKeeps, AcceptByIdKeeps, PostKeeps, PatchKeeps,
     ContractExecuteKeeps, TransferKeeps, FundKeeps, FailsKeeps
<1>2. CASE UNCHANGED dealVars
  BY <1>2 DEF dealVars, DealInv, Deals!TypeOK, About, Contracted, Counted, IdsOf, Acting, Making, Made,
              Paying, Paid
<1> QED
  BY <1>1, <1>2 DEF Deals!Next

LEMMA DealsBegin == ASSUME Deals!Init PROVE DealInv
<1>1. /\ \A o \in {1, 2} : offer[o] = "none" /\ again[o] = 0
      /\ \A k \in {1, 2} : contract[k] = [offer |-> 0, status |-> "none"] /\ transferred[k] = 0
      /\ \A h \in Chatters : deal[h].pc = "idle"
      /\ met = FALSE /\ dealFaults = 0
  BY 1..2 = {1, 2} DEF Deals!Init, Deals!ContractIds, Deals!None, Deals!Idle
<1>2. Deals!TypeOK
  <2>1. /\ offer \in [{1, 2} -> {"none", "pending", "accepted"}] /\ again \in [{1, 2} -> Nat]
        /\ contract \in [1..2 -> [offer : {1, 2} \cup {0}, status : {"none", "created", "funded"}]]
        /\ transferred \in [1..2 -> Nat]
    BY DEF Deals!Init, Deals!ContractIds, Deals!None
  <2>2. deal \in [Chatters -> [pc : {"idle", "buyer", "post", "patch", "transfer", "fund", "over"},
                               offer : {1, 2} \cup {0}, contract : 1..2 \cup {0}]]
    BY DEF Deals!Init, Deals!None, Deals!Idle
  <2>3. autoAccept \in BOOLEAN /\ met \in BOOLEAN
    BY DEF Deals!Init
  <2> QED
    BY <1>1, <2>1, <2>2, <2>3 DEF Deals!TypeOK, Deals!ContractIds, Deals!None
<1>3. \A o \in {1, 2} : IdsOf(o) = {} /\ Cardinality(IdsOf(o)) = 0
  BY <1>1, FS_EmptySet DEF IdsOf
<1> QED
  BY <1>1, <1>2, <1>3 DEF DealInv, About, Contracted, Counted, Acting, Making, Made, Paying, Paid

LEMMA DealsKept == ASSUME DealInv PROVE Deals!DealsSound
<1>1. \A o : Deals!Cardinality(Deals!ContractsOf(o)) = Cardinality(IdsOf(o)) /\ Deals!ContractsOf(o) = IdsOf(o)
  BY 1..2 = {1, 2} DEF Deals!Cardinality, Cardinality, Deals!ContractsOf, IdsOf, Deals!ContractIds
<1>2. Deals!ContractIds = {1, 2}
  BY DEF Deals!ContractIds
<1>3. \A k \in {1, 2} : contract[k].status = "funded" => transferred[k] > 0
  BY DEF DealInv, Contracted
<1> QED
  BY <1>1, <1>2, <1>3 DEF DealInv, Counted, Deals!DealsSound

-----------------------------------------------------------------------------
\* PaidRoutes: what the application was told of a call follows from where the call is, and
\* a payment is remembered from the time that a call was told of it.

\* A call that has begun and is not over
UnderWay(c) == request[c].pc \notin {"idle", "over"}
\* Restarts empty a store that is in memory.
Forgotten == IF redis THEN 0 ELSE restarts

\* What the application has been told of a call, by where it is
RequestTold(r) ==
    /\ r.pc \in {"idle", "has", "fetch", "add", "invalid"} => ~r.taken /\ ~r.verified /\ r.failed = 0
    /\ r.pc = "valid" => r.taken /\ ~r.verified /\ r.failed = 0
    /\ r.pc = "run" => r.taken /\ r.verified /\ r.failed = 0
    /\ r.pc = "caught" => (r.taken <=> r.verified) /\ r.failed = IF r.taken THEN 0 ELSE 1
    /\ r.pc # "over" => r.answer = "none"
    /\ r.answer # "none" =>
        /\ r.answer = "served" => r.taken /\ r.verified /\ r.failed = 0
        /\ r.taken <=> r.verified
        /\ r.answer # "served" /\ r.taken => r.failed \in (CASE framework = "express" -> {0}
                                                                 [] framework = "nest" -> 0..1
                                                                 [] OTHER -> {1})
        /\ ~r.taken => r.failed \in 1..2 /\ (r.failed = 2 => r.answer = "error")

\* Calls that do not overlap find what the one before has remembered.
Remembered ==
    /\ \A c, d \in Callers : UnderWay(c) /\ UnderWay(d) => c = d
    /\ \A c \in Callers : request[c].pc \in {"fetch", "add"} => Middlewares!Own(c) \notin remembered
    /\ \A s \in Middlewares!Stores : bought[s] <= Forgotten + (IF s \in remembered THEN 1 ELSE 0)

\* Calls at the routes, as long as they may overlap and when they have not
RouteInv ==
    /\ Middlewares!TypeOK
    /\ \A c \in Callers : RequestTold(request[c])
    /\ simultaneous \/ Remembered


\* A call's locals
RequestType == [pc : Middlewares!PCs, route : ServiceRoutes, taken : BOOLEAN, verified : BOOLEAN,
                failed : 0..2, answer : Middlewares!Answers]

\* Only the call c goes on, on its route.
OnlyRequest(c) ==
    /\ request' \in [Callers -> RequestType]
    /\ \A d \in Callers : d # c => request'[d] = request[d]
    /\ request'[c].route = request[c].route

LEMMA RoutesStay ==
    ASSUME UNCHANGED <<framework, redis>>
    PROVE  /\ Middlewares!Stores' = Middlewares!Stores
           /\ \A r : Middlewares!StoreOf(r)' = Middlewares!StoreOf(r)
BY DEF Middlewares!Stores, Middlewares!StoreOf

LEMMA OwnIsStore ==
    ASSUME Middlewares!TypeOK, NEW c \in Callers
    PROVE  Middlewares!Own(c) \in Middlewares!Stores /\ request[c] \in RequestType
BY DEF Middlewares!TypeOK, Middlewares!Own, Middlewares!Stores, RequestType

LEMMA CallStays ==
    ASSUME RouteInv, NEW c \in Callers, OnlyRequest(c), UNCHANGED <<framework, redis, restarts>>,
           RequestTold(request[c])',
           remembered' \subseteq Middlewares!Stores, bought' \in [Middlewares!Stores -> Nat],
           simultaneous' \in BOOLEAN, ~simultaneous' => ~simultaneous,
           ~simultaneous' => \A d \in Callers : d # c => ~UnderWay(d),
           ~simultaneous' /\ request'[c].pc \in {"fetch", "add"} => Middlewares!Own(c) \notin remembered',
           ~simultaneous' => \A s \in Middlewares!Stores :
                                bought'[s] <= Forgotten + (IF s \in remembered' THEN 1 ELSE 0)
    PROVE  RouteInv'
<1> USE DEF RouteInv
<1>1. Middlewares!TypeOK'
  BY RoutesStay DEF Middlewares!TypeOK, OnlyRequest, RequestType
<1>2. \A d \in Callers : RequestTold(request[d])'
  BY DEF OnlyRequest, RequestTold
<1>3. ASSUME ~simultaneous' PROVE Remembered'
  <2>1. \A d \in Callers : d # c => ~UnderWay(d)'
    BY <1>3 DEF UnderWay, OnlyRequest
  <2>2. Middlewares!Own(c)' = Middlewares!Own(c)
    BY RoutesStay DEF Middlewares!Own, OnlyRequest, Middlewares!StoreOf
  <2>3. \A d \in Callers : request'[d].pc \in {"fetch", "add"} => Middlewares!Own(d)' \notin remembered'
    BY <1>3, <2>1, <2>2 DEF UnderWay
  <2>4. Forgotten' = Forgotten
    BY DEF Forgotten
  <2> QED
    BY <1>3, <2>1, <2>3, <2>4, RoutesStay DEF Remembered
<1> QED
  BY <1>1, <1>2, <1>3

\* A call that goes on is the only one, if none overlaps.
LEMMA CallsAlone ==
    ASSUME RouteInv, NEW c \in Callers, UnderWay(c), simultaneous' = simultaneous
    PROVE  /\ simultaneous' \in BOOLEAN /\ (~simultaneous' => ~simultaneous)
           /\ ~simultaneous' => \A d \in Callers : d # c => ~UnderWay(d)
BY DEF RouteInv, Middlewares!TypeOK, Remembered

\* A step of a call that neither buys nor remembers
LEMMA CallMoves ==
    ASSUME RouteInv, NEW c \in Callers, OnlyRequest(c), RequestTold(request[c])',
           UNCHANGED <<framework, redis, restarts, remembered, bought>>,
           simultaneous' \in BOOLEAN, ~simultaneous' => ~simultaneous,
           ~simultaneous' => \A d \in Callers : d # c => ~UnderWay(d),
           ~simultaneous' /\ request'[c].pc \in {"fetch", "add"} => Middlewares!Own(c) \notin remembered
    PROVE  RouteInv'
<1>1. remembered' \subseteq Middlewares!Stores /\ bought' \in [Middlewares!Stores -> Nat]
  BY DEF RouteInv, Middlewares!TypeOK
<1>2. ~simultaneous' => \A s \in Middlewares!Stores :
                           bought'[s] <= Forgotten + (IF s \in remembered' THEN 1 ELSE 0)
  BY DEF RouteInv, Remembered
<1> QED
  BY <1>1, <1>2, CallStays

LEMMA GotoRequest ==
    ASSUME Middlewares!TypeOK, NEW c \in Callers, NEW point \in Middlewares!PCs,
           request' = [request EXCEPT ![c].pc = point]
    PROVE  /\ OnlyRequest(c) /\ request'[c].pc = point /\ request'[c].taken = request[c].taken
           /\ request'[c].verified = request[c].verified /\ request'[c].failed = request[c].failed
           /\ request'[c].answer = request[c].answer
<1>1. request \in [Callers -> RequestType] /\ request[c] \in RequestType
  BY DEF Middlewares!TypeOK, RequestType
<1>2. request'[c] = [request[c] EXCEPT !.pc = point]
  BY <1>1
<1>3. request'[c] \in RequestType /\ request'[c].route = request[c].route
  BY <1>1, <1>2 DEF RequestType
<1> QED
  BY <1>1, <1>2, <1>3 DEF OnlyRequest, RequestType

LEMMA PresentKeeps ==
    ASSUME RouteInv, NEW c \in Callers, Middlewares!Present(c) PROVE RouteInv'
<1> USE DEF RouteInv
<1>1. /\ UNCHANGED <<framework, redis, remembered, bought, restarts>> /\ request[c].pc = "idle"
      /\ request' = [request EXCEPT ![c].pc = "has"]
      /\ simultaneous' = (simultaneous \/ \E d \in Callers \ {c} : request[d].pc \notin {"idle", "over"})
  BY DEF Middlewares!Present, Middlewares!At, Middlewares!Goto, Middlewares!kindVars
<1>2. /\ OnlyRequest(c) /\ request'[c].pc = "has" /\ request'[c].taken = request[c].taken
      /\ request'[c].verified = request[c].verified /\ request'[c].failed = request[c].failed
      /\ request'[c].answer = request[c].answer
  BY <1>1, GotoRequest DEF Middlewares!PCs
<1>3. /\ simultaneous' \in BOOLEAN /\ (~simultaneous' => ~simultaneous)
      /\ ~simultaneous' => \A d \in Callers : d # c => ~UnderWay(d)
  BY <1>1 DEF UnderWay, Middlewares!TypeOK
<1>4. RequestTold(request[c])'
  BY <1>1, <1>2 DEF RequestTold
<1> QED
  BY <1>1, <1>2, <1>3, <1>4, CallMoves

LEMMA HasKeeps ==
    ASSUME RouteInv, NEW c \in Callers, Middlewares!Has(c) \/ Middlewares!Validate(c) PROVE RouteInv'
<1> USE DEF RouteInv
<1>1. /\ UNCHANGED <<framework, redis, remembered, bought, restarts, simultaneous>>
      /\ request[c].pc \in {"has", "fetch"}
  BY DEF Middlewares!Has, Middlewares!Validate, Middlewares!At, Middlewares!kindVars
<1>2. PICK point \in {"invalid", "fetch", "add"} :
         /\ request' = [request EXCEPT ![c].pc = point]
         /\ point = "fetch" => Middlewares!Own(c) \notin remembered
         /\ point = "add" => request[c].pc = "fetch"
  BY DEF Middlewares!Has, Middlewares!Validate, Middlewares!At, Middlewares!Goto
<1>3. /\ OnlyRequest(c) /\ request'[c].pc = point /\ request'[c].taken = request[c].taken
      /\ request'[c].verified = request[c].verified /\ request'[c].failed = request[c].failed
      /\ request'[c].answer = request[c].answer
  BY <1>2, GotoRequest DEF Middlewares!PCs
<1>4. /\ simultaneous' \in BOOLEAN /\ (~simultaneous' => ~simultaneous)
      /\ ~simultaneous' => \A d \in Callers : d # c => ~UnderWay(d)
  BY <1>1, CallsAlone DEF UnderWay
<1>5. RequestTold(request[c])'
  BY <1>1, <1>3 DEF RequestTold
<1>6. ~simultaneous' /\ request'[c].pc \in {"fetch", "add"} => Middlewares!Own(c) \notin remembered
  BY <1>1, <1>2, <1>3, <1>4 DEF Remembered
<1> QED
  BY <1>1, <1>3, <1>4, <1>5, <1>6, CallMoves

LEMMA AddKeeps ==
    ASSUME RouteInv, NEW c \in Callers, Middlewares!Add(c) PROVE RouteInv'
<1> USE DEF RouteInv
<1> DEFINE own == Middlewares!Own(c)
<1>1. /\ UNCHANGED <<framework, redis, simultaneous, restarts>> /\ request[c].pc = "add"
      /\ remembered' = remembered \cup {own}
      /\ bought' = [bought EXCEPT ![own] = bought[own] + 1]
      /\ request' = [request EXCEPT ![c].pc = "valid", ![c].taken = TRUE]
  BY DEF Middlewares!Add, Middlewares!At, Middlewares!kindVars
<1>2. own \in Middlewares!Stores /\ request[c] \in RequestType /\ request \in [Callers -> RequestType]
  BY OwnIsStore DEF Middlewares!TypeOK, RequestType
<1> HIDE DEF own
<1>3. request'[c] = [request[c] EXCEPT !.pc = "valid", !.taken = TRUE]
  BY <1>1, <1>2
<1>4. /\ request'[c] \in RequestType /\ request'[c].route = request[c].route /\ request'[c].pc = "valid"
      /\ request'[c].taken = TRUE /\ request'[c].verified = request[c].verified
      /\ request'[c].failed = request[c].failed /\ request'[c].answer = request[c].answer
  BY <1>2, <1>3 DEF RequestType, Middlewares!PCs
<1>5. OnlyRequest(c)
  BY <1>1, <1>2, <1>4 DEF OnlyRequest
<1>6. /\ simultaneous' \in BOOLEAN /\ (~simultaneous' => ~simultaneous)
      /\ ~simultaneous' => \A d \in Callers : d # c => ~UnderWay(d)
  BY <1>1, CallsAlone DEF UnderWay
<1>7. RequestTold(request[c])'
  BY <1>1, <1>4 DEF RequestTold
<1>8. /\ remembered' \subseteq Middlewares!Stores /\ bought' \in [Middlewares!Stores -> Nat]
      /\ bought'[own] = bought[own] + 1 /\ \A s \in Middlewares!Stores : s # own => bought'[s] = bought[s]
      /\ \A s \in Middlewares!Stores : bought[s] \in Nat
  BY <1>1, <1>2 DEF Middlewares!TypeOK
<1>9. ASSUME ~simultaneous', NEW s \in Middlewares!Stores
      PROVE  bought'[s] <= Forgotten + (IF s \in remembered' THEN 1 ELSE 0)
  <2>1. own \notin remembered /\ bought[s] <= Forgotten + (IF s \in remembered THEN 1 ELSE 0)
    BY <1>1, <1>6, <1>9 DEF Remembered, own
  <2>2. Forgotten \in Nat
    BY DEF Forgotten, Middlewares!TypeOK
  <2> QED
    BY <1>1, <1>8, <2>1, <2>2
<1> QED
  BY <1>1, <1>4, <1>5, <1>6, <1>7, <1>8, <1>9, CallStays

LEMMA StoreThrowsKeeps ==
    ASSUME RouteInv, NEW c \in Callers, Middlewares!StoreThrows(c) PROVE RouteInv'
<1> USE DEF RouteInv
<1> DEFINE own == Middlewares!Own(c)
<1>1. /\ UNCHANGED <<framework, redis, bought, simultaneous, restarts>> /\ request[c].pc \in {"has", "add"}
      /\ remembered' = remembered \/ remembered' = remembered \cup {own}
      /\ request' = [request EXCEPT ![c].pc = "invalid"]
  BY DEF Middlewares!StoreThrows, Middlewares!At, Middlewares!kindVars, Middlewares!Goto
<1>2. own \in Middlewares!Stores
  BY OwnIsStore
<1> HIDE DEF own
<1>3. /\ OnlyRequest(c) /\ request'[c].pc = "invalid" /\ request'[c].taken = request[c].taken
      /\ request'[c].verified = request[c].verified /\ request'[c].failed = request[c].failed
      /\ request'[c].answer = request[c].answer
  BY <1>1, GotoRequest DEF Middlewares!PCs
<1>4. /\ simultaneous' \in BOOLEAN /\ (~simultaneous' => ~simultaneous)
      /\ ~simultaneous' => \A d \in Callers : d # c => ~UnderWay(d)
  BY <1>1, CallsAlone DEF UnderWay
<1>5. RequestTold(request[c])'
  BY <1>1, <1>3 DEF RequestTold
<1>6. /\ remembered' \subseteq Middlewares!Stores /\ bought' \in [Middlewares!Stores -> Nat]
      /\ \A s \in Middlewares!Stores : bought[s] \in Nat
  BY <1>1, <1>2 DEF Middlewares!TypeOK
<1>7. ASSUME ~simultaneous', NEW s \in Middlewares!Stores
      PROVE  bought'[s] <= Forgotten + (IF s \in remembered' THEN 1 ELSE 0)
  <2>1. bought[s] <= Forgotten + (IF s \in remembered THEN 1 ELSE 0)
    BY <1>4, <1>7 DEF Remembered
  <2>2. Forgotten \in Nat
    BY DEF Forgotten, Middlewares!TypeOK
  <2> QED
    BY <1>1, <1>6, <2>1, <2>2
<1> QED
  BY <1>1, <1>3, <1>4, <1>5, <1>6, <1>7, CallStays

LEMMA RestartKeeps == ASSUME RouteInv, Middlewares!Restart PROVE RouteInv'
<1> USE DEF RouteInv
<1>1. /\ UNCHANGED <<framework, redis, bought, simultaneous>> /\ restarts' = restarts + 1 /\ restarts < 1
      /\ remembered' = IF redis THEN remembered ELSE {}
      /\ request' = [c \in Callers |-> IF request[c].pc = "idle" THEN request[c]
                                       ELSE [request[c] EXCEPT !.pc = "over"]]
  BY DEF Middlewares!Restart, Middlewares!At, Middlewares!kindVars
<1>2. ASSUME NEW c \in Callers
      PROVE  /\ request'[c] \in RequestType /\ RequestTold(request[c])' /\ ~UnderWay(c)'
  <2>1. request[c] \in RequestType /\ RequestTold(request[c])
    BY OwnIsStore
  <2>2. CASE request[c].pc = "idle"
    <3>1. request'[c] = request[c]
      BY <1>1, <2>2
    <3> QED
      BY <1>1, <2>1, <2>2, <3>1 DEF RequestTold, UnderWay
  <2>3. CASE request[c].pc # "idle"
    <3>1. request'[c] = [request[c] EXCEPT !.pc = "over"]
      BY <1>1, <2>3
    <3>2. /\ request'[c] \in RequestType /\ request'[c].pc = "over" /\ request'[c].taken = request[c].taken
          /\ request'[c].verified = request[c].verified /\ request'[c].failed = request[c].failed
          /\ request'[c].answer = request[c].answer
      BY <2>1, <3>1 DEF RequestType, Middlewares!PCs
    <3> QED
      BY <1>1, <2>1, <3>2 DEF RequestTold, UnderWay
  <2> QED
    BY <2>2, <2>3
<1>3. request' \in [Callers -> RequestType]
  BY <1>1, <1>2
<1>4. Middlewares!TypeOK'
  <2>1. restarts' \in 0..1
    BY <1>1 DEF Middlewares!TypeOK
  <2>2. Middlewares!Stores' = Middlewares!Stores
    BY <1>1, RoutesStay
  <2> QED
    BY <1>1, <1>3, <2>1, <2>2 DEF Middlewares!TypeOK, RequestType
<1>5. ASSUME ~simultaneous' PROVE Remembered'
  <2>1. \A s \in Middlewares!Stores : bought[s] \in Nat
    BY DEF Middlewares!TypeOK
  <2>2. restarts \in Nat
    BY DEF Middlewares!TypeOK
  <2>3. \A s \in Middlewares!Stores : bought'[s] <= Forgotten' + (IF s \in remembered' THEN 1 ELSE 0)
    BY <1>1, <1>5, <2>1, <2>2 DEF Remembered, Forgotten
  <2>4. Middlewares!Stores' = Middlewares!Stores
    BY <1>1, RoutesStay
  <2>5. \A c \in Callers : request'[c].pc \notin {"fetch", "add"}
    BY <1>2 DEF UnderWay
  <2> QED
    BY <1>2, <2>3, <2>4, <2>5 DEF Remembered
<1> QED
  BY <1>2, <1>4, <1>5

\* Either callback, the handler and the answer: what is told of the call
LEMMA MiddlewareKeeps ==
    ASSUME RouteInv, NEW c \in Callers, Middlewares!Middleware(c) PROVE RouteInv'
<1> USE DEF RouteInv
<1> DEFINE r == request[c]
<1>1. /\ UNCHANGED <<framework, redis, remembered, bought, simultaneous, restarts>>
      /\ \/ Middlewares!Refuse(c) \/ Middlewares!Confirm(c)
         \/ Middlewares!RunWithin(c) \/ Middlewares!RunAfter(c)
         \/ framework # "express" /\ Middlewares!Caught(c)
         \/ framework \in {"express", "nest"} /\ Middlewares!CaughtSilently(c)
  BY DEF Middlewares!Middleware, Middlewares!kindVars, Middlewares!Express, Middlewares!Koa,
         Middlewares!KoaRoute, Middlewares!NextJs, Middlewares!NextJsRoute, Middlewares!Nest
<1>2. request \in [Callers -> RequestType] /\ r \in RequestType /\ RequestTold(r)
  BY OwnIsStore DEF Middlewares!TypeOK, RequestType
<1>3. /\ \A d \in Callers : d # c => request'[d] = request[d]
      /\ request' \in [Callers -> RequestType]
      /\ request'[c].route = r.route /\ request'[c].pc \notin {"fetch", "add"} /\ UnderWay(c)
      /\ RequestTold(request[c])'
  <2>1. CASE Middlewares!Refuse(c)
    <3>1. PICK point \in {"over", "caught"}, answer \in {"none", "refused"} :
             /\ r.pc = "invalid" /\ (point = "caught" <=> answer = "none")
             /\ request' = [request EXCEPT ![c] = [r EXCEPT !.pc = point, !.answer = answer, !.failed = r.failed + 1]]
      <4>1. r.pc = "invalid" /\ r.answer = "none" /\ r.failed = 0
        BY <1>2, <2>1 DEF Middlewares!Refuse, Middlewares!At, RequestTold
      <4>2. CASE request' = [Middlewares!Answer(c, "refused") EXCEPT ![c].failed = @ + 1]
        <5>1. request' = [request EXCEPT ![c] = [r EXCEPT !.pc = "over", !.answer = "refused", !.failed = r.failed + 1]]
          BY <1>2, <4>2 DEF Middlewares!Answer
        <5> QED
          BY <4>1, <5>1
      <4>3. CASE request' = [request EXCEPT ![c].pc = "caught", ![c].failed = @ + 1]
        <5>1. request' = [request EXCEPT ![c] = [r EXCEPT !.pc = "caught", !.answer = "none", !.failed = r.failed + 1]]
          BY <1>2, <4>1, <4>3 DEF RequestType
        <5> QED
          BY <4>1, <5>1
      <4> QED
        BY <2>1, <4>2, <4>3 DEF Middlewares!Refuse
    <3>3. ~r.taken /\ ~r.verified /\ r.failed = 0 /\ r.failed + 1 = 1
      BY <1>2, <3>1 DEF RequestTold
    <3>2. request'[c] = [r EXCEPT !.pc = point, !.answer = answer, !.failed = 1]
      BY <1>2, <3>1, <3>3
    <3>4. /\ request'[c] \in RequestType /\ request'[c].pc = point /\ request'[c].answer = answer
          /\ request'[c].failed = 1 /\ request'[c].taken = r.taken /\ request'[c].verified = r.verified
          /\ request'[c].route = r.route
      <4>1. point \in Middlewares!PCs /\ answer \in Middlewares!Answers
        BY <3>1 DEF Middlewares!PCs, Middlewares!Answers
      <4> DEFINE q == [r EXCEPT !.pc = point, !.answer = answer]
      <4>2. /\ q \in RequestType /\ q.pc = point /\ q.answer = answer /\ q.taken = r.taken
            /\ q.verified = r.verified /\ q.route = r.route
        BY <1>2, <4>1 DEF RequestType
      <4>3. request'[c] = [q EXCEPT !.failed = 1]
        BY <3>2
      <4> HIDE DEF q
      <4> QED
        BY <4>2, <4>3 DEF RequestType
    <3> QED
      BY <1>2, <3>1, <3>3, <3>4 DEF RequestTold, UnderWay
  <2>2. CASE Middlewares!Confirm(c)
    <3>1. PICK point \in {"run", "caught"} :
             r.pc = "valid" /\ request' = [request EXCEPT ![c].pc = point, ![c].verified = TRUE]
      BY <2>2 DEF Middlewares!Confirm, Middlewares!At
    <3>2. request'[c] = [r EXCEPT !.pc = point, !.verified = TRUE]
      BY <1>2, <3>1
    <3>3. r.taken /\ r.failed = 0 /\ r.answer = "none"
      BY <1>2, <3>1 DEF RequestTold
    <3>4. /\ request'[c] \in RequestType /\ request'[c].pc = point /\ request'[c].answer = "none"
          /\ request'[c].failed = 0 /\ request'[c].taken = r.taken /\ request'[c].verified = TRUE
          /\ request'[c].route = r.route
      BY <1>2, <3>1, <3>2, <3>3 DEF RequestType, Middlewares!PCs
    <3> QED
      BY <1>2, <3>1, <3>3, <3>4 DEF RequestTold, UnderWay
  <2>3. CASE r.pc = "run" /\ request' = Middlewares!Answer(c, "served")
    <3>1. request'[c] = [r EXCEPT !.pc = "over", !.answer = "served"]
      BY <1>2, <2>3 DEF Middlewares!Answer
    <3>2. r.taken /\ r.failed = 0 /\ r.verified
      BY <1>2, <2>3 DEF RequestTold
    <3>3. /\ request'[c] \in RequestType /\ request'[c].pc = "over" /\ request'[c].answer = "served"
          /\ request'[c].failed = 0 /\ request'[c].taken = r.taken /\ request'[c].verified = r.verified
          /\ request'[c].route = r.route
      BY <1>2, <3>1, <3>2 DEF RequestType, Middlewares!PCs, Middlewares!Answers
    <3> QED
      BY <1>2, <2>3, <3>2, <3>3 DEF RequestTold, UnderWay, Middlewares!Answer
  <2>4. CASE r.pc = "run" /\ Middlewares!Goto(c, "caught")
    <3>1. request' = [request EXCEPT ![c].pc = "caught"]
      BY <2>4 DEF Middlewares!Goto
    <3>2. r.taken /\ r.failed = 0 /\ r.verified /\ r.answer = "none"
      BY <1>2, <2>4 DEF RequestTold
    <3>3. /\ OnlyRequest(c) /\ request'[c].pc = "caught" /\ request'[c].taken = r.taken
          /\ request'[c].verified = r.verified /\ request'[c].failed = r.failed
          /\ request'[c].answer = r.answer
      BY <3>1, GotoRequest DEF Middlewares!PCs
    <3> QED
      BY <1>2, <2>4, <3>2, <3>3 DEF RequestTold, UnderWay, OnlyRequest
  <2>5. CASE framework # "express" /\ Middlewares!Caught(c)
    <3>1. /\ r.pc = "caught"
          /\ request' = [request EXCEPT ![c] = [r EXCEPT !.pc = "over", !.answer = "error", !.failed = r.failed + 1]]
      BY <1>2, <2>5 DEF Middlewares!Caught, Middlewares!At, Middlewares!Answer
    <3>3. (r.taken <=> r.verified) /\ r.failed = IF r.taken THEN 0 ELSE 1
      BY <1>2, <3>1 DEF RequestTold
    <3>5. PICK n \in 0..2 : n = r.failed + 1
      BY <3>3
    <3>2. request'[c] = [r EXCEPT !.pc = "over", !.answer = "error", !.failed = n]
      BY <1>2, <3>1, <3>5
    <3>4. /\ request'[c] \in RequestType /\ request'[c].pc = "over" /\ request'[c].answer = "error"
          /\ request'[c].failed = n /\ request'[c].taken = r.taken /\ request'[c].verified = r.verified
          /\ request'[c].route = r.route
      BY <1>2, <3>2 DEF RequestType, Middlewares!PCs, Middlewares!Answers
    <3> QED
      BY <1>1, <1>2, <2>5, <3>1, <3>3, <3>4, <3>5 DEF RequestTold, UnderWay
  <2>6. CASE framework \in {"express", "nest"} /\ Middlewares!CaughtSilently(c)
    <3>1. /\ r.pc = "caught"
          /\ request' = [request EXCEPT ![c] = [r EXCEPT !.pc = "over", !.answer = "error"]]
      BY <1>2, <2>6 DEF Middlewares!CaughtSilently, Middlewares!At, Middlewares!Answer
    <3>2. request'[c] = [r EXCEPT !.pc = "over", !.answer = "error"]
      BY <1>2, <3>1
    <3>3. (r.taken <=> r.verified) /\ r.failed = IF r.taken THEN 0 ELSE 1
      BY <1>2, <3>1 DEF RequestTold
    <3>4. /\ request'[c] \in RequestType /\ request'[c].pc = "over" /\ request'[c].answer = "error"
          /\ request'[c].failed = r.failed /\ request'[c].taken = r.taken /\ request'[c].verified = r.verified
          /\ request'[c].route = r.route
      BY <1>2, <3>2, <3>3 DEF RequestType, Middlewares!PCs, Middlewares!Answers
    <3> QED
      BY <1>1, <1>2, <2>6, <3>1, <3>3, <3>4 DEF RequestTold, UnderWay
  <2> QED
    BY <1>1, <2>1, <2>2, <2>3, <2>4, <2>5, <2>6 DEF Middlewares!RunWithin, Middlewares!RunAfter, Middlewares!At
<1>4. /\ simultaneous' \in BOOLEAN /\ (~simultaneous' => ~simultaneous)
      /\ ~simultaneous' => \A d \in Callers : d # c => ~UnderWay(d)
  BY <1>1, <1>3, CallsAlone
<1>5. OnlyRequest(c)
  BY <1>3 DEF OnlyRequest
<1> QED
  BY <1>1, <1>3, <1>4, <1>5, CallMoves

LEMMA RoutesStep == ASSUME RouteInv, [Middlewares!Next]_routesVars PROVE RouteInv'
<1>1. CASE Middlewares!Restart
  BY <1>1, RestartKeeps
<1>2. ASSUME NEW c \in Callers,
             \/ Middlewares!Present(c) \/ Middlewares!Has(c) \/ Middlewares!Validate(c) \/ Middlewares!Add(c)
             \/ Middlewares!StoreThrows(c) \/ Middlewares!Middleware(c)
      PROVE  RouteInv'
  BY <1>2, PresentKeeps, HasKeeps, AddKeeps, StoreThrowsKeeps, MiddlewareKeeps
<1>3. CASE UNCHANGED routesVars
  <2>1. Middlewares!Stores' = Middlewares!Stores /\ \A c : Middlewares!Own(c)' = Middlewares!Own(c)
    BY <1>3 DEF routesVars, Middlewares!Stores, Middlewares!StoreOf, Middlewares!Own
  <2> QED
    BY <1>3, <2>1 DEF routesVars, RouteInv, Middlewares!TypeOK, RequestTold, Remembered, UnderWay, Forgotten
<1> QED
  BY <1>1, <1>2, <1>3 DEF Middlewares!Next

LEMMA RoutesBegin == ASSUME Middlewares!Init PROVE RouteInv
<1>1. PICK r \in [Callers -> ServiceRoutes] :
         request = [c \in Callers |-> [pc |-> "idle", route |-> r[c], taken |-> FALSE, verified |-> FALSE,
                                       failed |-> 0, answer |-> "none"]]
  BY DEF Middlewares!Init
<1>2. request \in [Callers -> RequestType]
  BY <1>1 DEF RequestType, Middlewares!PCs, Middlewares!Answers
<1>3. \A c \in Callers : RequestTold(request[c]) /\ ~UnderWay(c) /\ request[c].pc = "idle"
  BY <1>1 DEF RequestTold, UnderWay
<1>4. Middlewares!TypeOK
  <2>1. framework \in Middlewares!Frameworks /\ redis \in BOOLEAN /\ simultaneous = FALSE
        /\ remembered = {} /\ restarts = 0
    BY DEF Middlewares!Init
  <2>2. bought \in [Middlewares!Stores -> Nat]
    BY DEF Middlewares!Init
  <2>3. simultaneous \in BOOLEAN /\ remembered \subseteq Middlewares!Stores
    BY <2>1
  <2>4. restarts \in 0..1
    BY <2>1
  <2> QED
    BY <1>2, <2>1, <2>2, <2>3, <2>4, Zenon DEF Middlewares!TypeOK, RequestType
<1>5. Remembered
  <2>1. \A s \in Middlewares!Stores : bought[s] = 0
    BY DEF Middlewares!Init
  <2> QED
    BY <1>3, <2>1 DEF Remembered, Forgotten, Middlewares!Init
<1> QED
  BY <1>3, <1>4, <1>5 DEF RouteInv

LEMMA RoutesKept == ASSUME RouteInv PROVE Middlewares!RoutesSound
<1>1. Middlewares!OncePerStore
  <2>1. ASSUME ~simultaneous, NEW s \in Middlewares!Stores
        PROVE  bought[s] <= 1 + (IF redis THEN 0 ELSE restarts)
    <3>1. bought[s] \in Nat /\ restarts \in Nat /\ bought[s] <= Forgotten + (IF s \in remembered THEN 1 ELSE 0)
      BY <2>1 DEF RouteInv, Middlewares!TypeOK, Remembered
    <3> QED
      BY <3>1 DEF Forgotten
  <2> QED
    BY <2>1 DEF Middlewares!OncePerStore
<1>2. Middlewares!ToldWhatBecame
  BY DEF RouteInv, RequestTold, Middlewares!ToldWhatBecame
<1> QED
  BY <1>1, <1>2 DEF Middlewares!RoutesSound

-----------------------------------------------------------------------------
\* SessionWallet: spentAmount is the sum of what was paid; what was checked is still so
\* while no other payment overlaps.

\* A payment's locals
Payment == [pc : {"idle", "check", "sign", "send", "confirm", "paid", "failed"},
            amounts : MCBatches \cup {<<>>}, checked : Nat, sent : Nat]

\* A payment between its first and its last await
InProgress(p) == p.pc \notin {"idle", "paid", "failed"}

\* Amounts are signed when all have been checked, and sent one after the other.
PaymentSound(p) ==
    /\ p.checked \in 0..Len(p.amounts) /\ p.sent \in 0..p.checked
    /\ p.pc # "idle" => p.amounts \in MCBatches
    /\ p.pc \in {"idle", "check", "sign"} => p.sent = 0
    /\ p.pc = "idle" => p.checked = 0
    /\ p.pc = "check" => p.checked < Len(p.amounts)
    /\ p.pc \in {"sign", "send", "confirm", "paid"} => p.checked = Len(p.amounts)
    /\ p.pc = "send" => p.sent < Len(p.amounts)
    /\ p.pc \in {"confirm", "paid"} => p.sent = Len(p.amounts)

\* Each amount that has been checked fits what the approval leaves.
Fits(p) == \A i \in 1..p.checked : spent + p.amounts[i] <= 3

\* What a payment has sent so far
PrefixSum(p) == SumFunction(SubSeq(p.amounts, 1, p.sent))
\* ... what of it spentAmount counts, ...
CountedOf(p) == IF p.pc = "paid" THEN PrefixSum(p) ELSE 0
\* ... and what it will never count.
LostOf(p) == IF p.pc = "failed" THEN PrefixSum(p) ELSE 0

\* Without the last of the amounts, whichever that is, the total is not exceeded.
LessThanBatch(p) ==
    p.pc = "paid" /\ \A i \in DOMAIN p.amounts : spent <= 3 + SumFunction(p.amounts) - p.amounts[i]

\* spentAmount is the sum of what the payments count; while none has overlapped with another
\* it exceeds the approval by a batch at most.
SessionInv ==
    /\ spent \in Nat /\ uncounted \in Nat
    /\ expired \in BOOLEAN /\ parallel \in BOOLEAN
    /\ payment \in [Requests -> Payment]
    /\ \A c \in Requests : PaymentSound(payment[c])
    /\ spent = SumFunction([c \in Requests |-> CountedOf(payment[c])])
    /\ uncounted = SumFunction([c \in Requests |-> LostOf(payment[c])])
    /\ parallel = FALSE =>
          /\ \A c, d \in Requests : InProgress(payment[c]) /\ InProgress(payment[d]) => c = d
          /\ \A c \in Requests : InProgress(payment[c]) => Fits(payment[c])
          /\ spent > 3 => \E c \in Requests : LessThanBatch(payment[c])


LEMMA SameSum == ASSUME NEW f PROVE Session!SumFunction(f) = SumFunction(f)
BY DEF Session!SumFunction, SumFunction, Session!SumFunctionOnSet, SumFunctionOnSet,
       Session!FoldFunctionOnSet, FoldFunctionOnSet, Session!MapThenFoldSet, MapThenFoldSet

LEMMA BatchesTyped ==
    /\ MCBatches \subseteq Seq(Nat)
    /\ \A b \in MCBatches : Len(b) >= 1
    /\ <<>> \in Seq(Nat) /\ Len(<<>>) = 0
BY DEF MCBatches

LEMMA SumOfSeq == ASSUME NEW a \in Seq(Nat) PROVE SumFunction(a) \in Nat
<1>1. a \in [1..Len(a) -> Nat] /\ IsFiniteSet(1..Len(a)) /\ DOMAIN a = 1..Len(a)
  BY FS_Interval
<1>2. \A x \in DOMAIN a : a[x] \in Int /\ a[x] >= 0
  BY <1>1
<1>3. SumFunctionOnSet(a, DOMAIN a) \in Int /\ SumFunctionOnSet(a, DOMAIN a) >= 0
  BY <1>1, <1>2, SumType
<1> QED
  BY <1>3 DEF SumFunction

LEMMA NothingSent == ASSUME NEW a PROVE SumFunction(SubSeq(a, 1, 0)) = 0
<1>1. SubSeq(a, 1, 0) = [i \in 1..0 |-> a[i]]
  BY DEF SubSeq
<1>2. DOMAIN SubSeq(a, 1, 0) = {} 
  BY <1>1
<1>3. SubSeq(a, 1, 0) \in [{} -> Int]
  BY <1>1
<1> QED
  BY <1>3, FS_EmptySet, SumOfZeros

LEMMA PrefixSums ==
    ASSUME NEW p \in Payment, PaymentSound(p)
    PROVE  /\ p.amounts \in Seq(Nat) /\ PrefixSum(p) \in Nat
           /\ CountedOf(p) \in Nat /\ LostOf(p) \in Nat
           /\ p.sent = 0 => PrefixSum(p) = 0
           /\ p.sent = Len(p.amounts) => PrefixSum(p) = SumFunction(p.amounts)
<1>1. p.amounts \in Seq(Nat) /\ p.sent \in 0..Len(p.amounts)
  <2>1. p.amounts \in MCBatches \cup {<<>>}
    BY DEF Payment
  <2>2. p.amounts \in Seq(Nat)
    BY <2>1, BatchesTyped
  <2>3. p.checked \in 0..Len(p.amounts) /\ p.sent \in 0..p.checked
    BY DEF PaymentSound
  <2> QED
    BY <2>2, <2>3
<1>2. SubSeq(p.amounts, 1, p.sent) \in Seq(Nat)
  BY <1>1
<1>3. PrefixSum(p) \in Nat
  BY <1>2, SumOfSeq DEF PrefixSum
<1>4. p.sent = 0 => PrefixSum(p) = 0
  BY NothingSent DEF PrefixSum
<1>5. p.sent = Len(p.amounts) => SubSeq(p.amounts, 1, p.sent) = p.amounts
  BY <1>1
<1> QED
  BY <1>1, <1>3, <1>4, <1>5 DEF CountedOf, LostOf, PrefixSum

\* The sums after a step of one call
LEMMA OneCallCounts ==
    ASSUME IsFiniteSet(Requests), SessionInv, NEW c \in Requests, NEW p \in Payment, PaymentSound(p),
           payment' = [payment EXCEPT ![c] = p],
           spent' = spent + CountedOf(p) - CountedOf(payment[c]),
           uncounted' = uncounted + LostOf(p) - LostOf(payment[c])
    PROVE  /\ payment' \in [Requests -> Payment]
           /\ payment'[c] = p
           /\ \A d \in Requests : d # c => payment'[d] = payment[d]
           /\ \A d \in Requests : PaymentSound(payment'[d])
           /\ spent' = SumFunction([d \in Requests |-> CountedOf(payment'[d])])
           /\ uncounted' = SumFunction([d \in Requests |-> LostOf(payment'[d])])
<1> USE DEF SessionInv
<1>1. /\ payment' \in [Requests -> Payment] /\ payment'[c] = p
      /\ \A d \in Requests : d # c => payment'[d] = payment[d]
  OBVIOUS
<1>2. \A d \in Requests : PaymentSound(payment'[d])
  BY <1>1
<1>3. \A d \in Requests : /\ CountedOf(payment[d]) \in Int /\ CountedOf(payment'[d]) \in Int
                          /\ LostOf(payment[d]) \in Int /\ LostOf(payment'[d]) \in Int
  BY <1>1, <1>2, PrefixSums
<1> DEFINE cf == [d \in Requests |-> CountedOf(payment[d])]
           cg == [d \in Requests |-> CountedOf(payment'[d])]
           lf == [d \in Requests |-> LostOf(payment[d])]
           lg == [d \in Requests |-> LostOf(payment'[d])]
<1>4. /\ cf \in [Requests -> Int] /\ cg \in [Requests -> Int]
      /\ lf \in [Requests -> Int] /\ lg \in [Requests -> Int]
  BY <1>3
<1>5. /\ \A d \in Requests \ {c} : cg[d] = cf[d] /\ lg[d] = lf[d]
      /\ cg[c] = CountedOf(p) /\ cf[c] = CountedOf(payment[c])
      /\ lg[c] = LostOf(p) /\ lf[c] = LostOf(payment[c])
  BY <1>1
<1>6. spent = SumFunction(cf) /\ uncounted = SumFunction(lf)
  OBVIOUS
<1>7. SumFunction(cg) - SumFunction(cf) = cg[c] - cf[c]
  <2> HIDE DEF cf, cg, SessionInv
  <2> QED
    BY <1>4, <1>5, SumUpdate
<1>8. SumFunction(lg) - SumFunction(lf) = lg[c] - lf[c]
  <2> HIDE DEF lf, lg, SessionInv
  <2> QED
    BY <1>4, <1>5, SumUpdate
<1>9. SumFunction(cg) \in Int /\ SumFunction(lg) \in Int
  <2>1. DOMAIN cg = Requests /\ DOMAIN lg = Requests
    OBVIOUS
  <2> HIDE DEF cg, lg, cf, lf, SessionInv
  <2> QED
    BY <1>4, <2>1, SumType DEF SumFunction
<1>10. spent' = SumFunction(cg) /\ uncounted' = SumFunction(lg)
  <2>1. spent \in Int /\ uncounted \in Int
    OBVIOUS
  <2>2. PICK x \in Int, y \in Int : x = CountedOf(p) /\ y = CountedOf(payment[c])
    BY <1>3, <1>1
  <2>3. PICK u \in Int, w \in Int : u = LostOf(p) /\ w = LostOf(payment[c])
    BY <1>3, <1>1
  <2> HIDE DEF cg, lg, cf, lf, SessionInv
  <2> QED
    BY <1>5, <1>6, <1>7, <1>8, <1>9, <2>1, <2>2, <2>3
<1> QED
  BY <1>1, <1>2, <1>10

\* A step of one call that stays in progress or fails
LEMMA CallGoesOn ==
    ASSUME IsFiniteSet(Requests), SessionInv, NEW c \in Requests, NEW p \in Payment, PaymentSound(p),
           InProgress(payment[c]), p.pc # "paid", parallel = FALSE => Fits(p),
           payment' = [payment EXCEPT ![c] = p], uncounted' = uncounted + LostOf(p),
           spent' = spent, parallel' = parallel, expired' = expired
    PROVE  SessionInv'
<1>1. CountedOf(p) = 0 /\ CountedOf(payment[c]) = 0 /\ LostOf(payment[c]) = 0
  BY DEF CountedOf, LostOf, InProgress
<1>2. spent \in Int /\ uncounted \in Int /\ LostOf(p) \in Nat
  BY PrefixSums DEF SessionInv
<1>3. spent' = spent + CountedOf(p) - CountedOf(payment[c]) /\ uncounted' = uncounted + LostOf(p) - LostOf(payment[c])
  BY <1>1, <1>2
<1>4. /\ payment' \in [Requests -> Payment] /\ payment'[c] = p
      /\ \A d \in Requests : d # c => payment'[d] = payment[d]
      /\ \A d \in Requests : PaymentSound(payment'[d])
      /\ spent' = SumFunction([d \in Requests |-> CountedOf(payment'[d])])
      /\ uncounted' = SumFunction([d \in Requests |-> LostOf(payment'[d])])
  BY <1>3, OneCallCounts
<1>5. spent' \in Nat /\ uncounted' \in Nat
  BY <1>2 DEF SessionInv
<1>6. \A d \in Requests : InProgress(payment'[d]) => InProgress(payment[d])
  BY <1>4
<1>7. ASSUME parallel = FALSE
      PROVE  /\ \A d, e \in Requests : InProgress(payment'[d]) /\ InProgress(payment'[e]) => d = e
             /\ \A d \in Requests : InProgress(payment'[d]) => Fits(payment[d])'
             /\ spent' > 3 => \E d \in Requests : LessThanBatch(payment[d])'
  <2>1. \A d, e \in Requests : InProgress(payment'[d]) /\ InProgress(payment'[e]) => d = e
    BY <1>6, <1>7 DEF SessionInv
  <2>2. ASSUME NEW d \in Requests, InProgress(payment'[d]) PROVE Fits(payment[d])'
    <3>1. CASE d = c
      BY <1>4, <1>7, <3>1 DEF Fits
    <3>2. CASE d # c
      BY <1>4, <1>7, <2>2, <3>2 DEF Fits, SessionInv
    <3> QED
      BY <3>1, <3>2
  <2>3. ASSUME spent' > 3 PROVE \E d \in Requests : LessThanBatch(payment[d])'
    <3>1. PICK d \in Requests : LessThanBatch(payment[d])
      BY <1>7, <2>3 DEF SessionInv
    <3>2. d # c
      BY <3>1 DEF LessThanBatch, InProgress
    <3> QED
      BY <1>4, <3>1, <3>2 DEF LessThanBatch
  <2> QED
    BY <2>1, <2>2, <2>3
<1> QED
  BY <1>4, <1>5, <1>7 DEF SessionInv

LEMMA BeginKeepsSession ==
    ASSUME IsFiniteSet(Requests), SessionInv, NEW c \in Requests, Session!Begin(c)
    PROVE  SessionInv'
<1>1. PICK b \in MCBatches : payment' = [payment EXCEPT ![c].pc = "check", ![c].amounts = b]
  BY DEF Session!Begin
<1>2. payment[c] \in Payment /\ PaymentSound(payment[c]) /\ payment[c].pc = "idle"
  BY DEF SessionInv, Session!Begin, Session!At
<1>3. PICK p : p = [payment[c] EXCEPT !.pc = "check", !.amounts = b]
  OBVIOUS
<1>4. /\ p \in Payment /\ p.pc = "check" /\ p.amounts = b /\ p.checked = 0 /\ p.sent = 0
      /\ payment' = [payment EXCEPT ![c] = p]
  BY <1>1, <1>2, <1>3 DEF Payment, PaymentSound, SessionInv
<1>5. PaymentSound(p)
  BY <1>4, BatchesTyped DEF PaymentSound, Payment
<1>6. CountedOf(p) = 0 /\ CountedOf(payment[c]) = 0 /\ LostOf(payment[c]) = 0 /\ LostOf(p) = 0
  BY <1>2, <1>4 DEF CountedOf, LostOf
<1>7. /\ spent' = spent /\ uncounted' = uncounted /\ expired' = expired
      /\ spent' = spent + CountedOf(p) - CountedOf(payment[c])
      /\ uncounted' = uncounted + LostOf(p) - LostOf(payment[c])
  BY <1>6 DEF Session!Begin, SessionInv
<1>8. /\ payment' \in [Requests -> Payment] /\ payment'[c] = p
      /\ \A d \in Requests : d # c => payment'[d] = payment[d]
      /\ \A d \in Requests : PaymentSound(payment'[d])
      /\ spent' = SumFunction([d \in Requests |-> CountedOf(payment'[d])])
      /\ uncounted' = SumFunction([d \in Requests |-> LostOf(payment'[d])])
  BY <1>4, <1>5, <1>7, OneCallCounts
<1>9. /\ parallel' \in BOOLEAN
      /\ parallel' = FALSE => parallel = FALSE /\ \A d \in Requests \ {c} : ~InProgress(payment[d])
  BY DEF Session!Begin, Session!Under, InProgress, SessionInv
<1>10. ASSUME parallel' = FALSE
       PROVE  /\ \A d, e \in Requests : InProgress(payment'[d]) /\ InProgress(payment'[e]) => d = e
              /\ \A d \in Requests : InProgress(payment'[d]) => Fits(payment[d])'
              /\ spent' > 3 => \E d \in Requests : LessThanBatch(payment[d])'
  <2>1. \A d \in Requests : InProgress(payment'[d]) => d = c
    BY <1>8, <1>9, <1>10
  <2>2. Fits(payment[c])'
    BY <1>4, <1>8 DEF Fits
  <2>3. ASSUME spent' > 3 PROVE \E d \in Requests : LessThanBatch(payment[d])'
    <3>1. PICK d \in Requests : LessThanBatch(payment[d])
      BY <1>7, <1>9, <1>10, <2>3 DEF SessionInv
    <3>2. d # c
      BY <1>2, <3>1 DEF LessThanBatch
    <3> QED
      BY <1>7, <1>8, <3>1, <3>2 DEF LessThanBatch
  <2> QED
    BY <2>1, <2>2, <2>3
<1> QED
  BY <1>7, <1>8, <1>9, <1>10 DEF SessionInv

LEMMA PrepareKeepsSession ==
    ASSUME IsFiniteSet(Requests), SessionInv, NEW c \in Requests, Session!Prepare(c)
    PROVE  SessionInv'
<1> DEFINE next == payment[c].checked + 1
<1>1. payment[c] \in Payment /\ PaymentSound(payment[c]) /\ payment[c].pc = "check"
  BY DEF SessionInv, Session!Prepare, Session!At
<1>2. /\ payment[c].checked \in Nat /\ payment[c].sent = 0 /\ next \in 1..Len(payment[c].amounts)
      /\ payment[c].amounts \in Seq(Nat) /\ payment[c].amounts \in MCBatches
  BY <1>1, PrefixSums DEF PaymentSound
<1>3. /\ UNCHANGED <<spent, expired, uncounted, parallel>>
      /\ payment' = IF ~Session!Permitted(payment[c].amounts[next]) THEN [payment EXCEPT ![c].pc = "failed"]
                    ELSE [payment EXCEPT ![c].checked = next,
                             ![c].pc = IF next = Len(payment[c].amounts) THEN "sign" ELSE @]
  BY DEF Session!Prepare
<1>4. uncounted \in Int /\ InProgress(payment[c]) /\ payment \in [Requests -> Payment]
  BY <1>1 DEF SessionInv, InProgress
<1>5. CASE ~Session!Permitted(payment[c].amounts[next])
  <2>1. PICK p : p = [payment[c] EXCEPT !.pc = "failed"]
    OBVIOUS
  <2>2. /\ p \in Payment /\ p.pc = "failed" /\ p.amounts = payment[c].amounts
        /\ p.checked = payment[c].checked /\ p.sent = 0
        /\ payment' = [payment EXCEPT ![c] = p]
    BY <1>1, <1>2, <1>3, <1>4, <1>5, <2>1 DEF Payment
  <2>3. PaymentSound(p)
    BY <1>1, <1>2, <2>2 DEF PaymentSound
  <2>4. uncounted' = uncounted + LostOf(p)
    BY <1>3, <1>4, <2>2, <2>3, PrefixSums DEF LostOf
  <2> HIDE DEF next
  <2>5. parallel = FALSE => Fits(p)
    <3>1. parallel = FALSE => Fits(payment[c])
      BY <1>4 DEF SessionInv
    <3> QED
      BY <3>1, <2>2 DEF Fits
  <2> QED
    BY <1>3, <1>4, <2>2, <2>3, <2>4, <2>5, CallGoesOn
<1>6. CASE Session!Permitted(payment[c].amounts[next])
  <2>1. PICK k \in Nat : k = next
    BY <1>2
  <2>2. PICK p : p = [payment[c] EXCEPT !.checked = k,
                         !.pc = IF k = Len(payment[c].amounts) THEN "sign" ELSE "check"]
    OBVIOUS
  <2>3. /\ p \in Payment /\ p.pc = (IF k = Len(payment[c].amounts) THEN "sign" ELSE "check")
        /\ p.amounts = payment[c].amounts /\ p.checked = k /\ p.sent = 0
    BY <1>1, <1>2, <2>1, <2>2 DEF Payment
  <2>4. payment' = [payment EXCEPT ![c] = p]
    <3>1. payment' = [payment EXCEPT ![c].checked = k, ![c].pc = IF k = Len(payment[c].amounts) THEN "sign" ELSE @]
      BY <1>3, <1>6, <2>1
    <3> HIDE DEF next
    <3> QED
      BY <1>1, <1>4, <3>1, <2>2
  <2>5. PaymentSound(p)
    BY <1>1, <1>2, <2>1, <2>3 DEF PaymentSound
  <2>6. uncounted' = uncounted + LostOf(p) /\ p.pc # "paid"
    BY <1>3, <1>4, <2>3 DEF LostOf
  <2>7. parallel = FALSE => Fits(p)
    <3>1. parallel = FALSE => Fits(payment[c])
      BY <1>4 DEF SessionInv
    <3>2. spent + payment[c].amounts[k] <= 3
      BY <1>6, <2>1 DEF Session!Permitted
    <3>3. Fits(payment[c]) => Fits(p)
      BY <1>2, <2>1, <2>3, <3>2 DEF Fits
    <3> QED
      BY <3>1, <3>3
  <2> HIDE DEF next
  <2> QED
    BY <1>3, <1>4, <2>3, <2>4, <2>5, <2>6, <2>7, CallGoesOn
<1> QED
  BY <1>5, <1>6

LEMMA SignKeepsSession ==
    ASSUME IsFiniteSet(Requests), SessionInv, NEW c \in Requests, Session!Sign(c)
    PROVE  SessionInv'
<1>1. payment[c] \in Payment /\ PaymentSound(payment[c]) /\ payment[c].pc = "sign"
  BY DEF SessionInv, Session!Sign, Session!At
<1>2. PICK p : p = [payment[c] EXCEPT !.pc = "send"]
  OBVIOUS
<1>3. /\ p \in Payment /\ p.pc = "send" /\ p.amounts = payment[c].amounts
      /\ p.checked = payment[c].checked /\ p.sent = payment[c].sent
      /\ payment' = [payment EXCEPT ![c] = p]
  BY <1>1, <1>2 DEF Payment, Session!Sign, Session!Goto, SessionInv
<1>4. PaymentSound(p)
  BY <1>1, <1>3, BatchesTyped DEF PaymentSound, Payment
<1>5. uncounted' = uncounted + LostOf(p) /\ p.pc # "paid" /\ InProgress(payment[c])
  BY <1>1, <1>3 DEF LostOf, Session!Sign, SessionInv, InProgress
<1>6. parallel = FALSE => Fits(p)
  <2>1. parallel = FALSE => Fits(payment[c])
    BY <1>5 DEF SessionInv
  <2> QED
    BY <2>1, <1>3 DEF Fits
<1> QED
  BY <1>3, <1>4, <1>5, <1>6, CallGoesOn DEF Session!Sign

LEMMA SendKeepsSession ==
    ASSUME IsFiniteSet(Requests), SessionInv, NEW c \in Requests, Session!Send(c)
    PROVE  SessionInv'
<1>1. payment[c] \in Payment /\ PaymentSound(payment[c]) /\ payment[c].pc = "send"
  BY DEF SessionInv, Session!Send, Session!At
<1>2. payment[c].sent \in Nat /\ payment[c].sent < Len(payment[c].amounts) /\ Len(payment[c].amounts) \in Nat
  BY <1>1, PrefixSums DEF PaymentSound, Payment
<1>3. PICK k \in Nat : k = payment[c].sent + 1
  BY <1>2
<1>4. PICK p : p = [payment[c] EXCEPT !.sent = k,
                       !.pc = IF k = Len(payment[c].amounts) THEN "confirm" ELSE "send"]
  OBVIOUS
<1>5. /\ p \in Payment /\ p.pc = (IF k = Len(payment[c].amounts) THEN "confirm" ELSE "send")
      /\ p.amounts = payment[c].amounts /\ p.checked = payment[c].checked /\ p.sent = k
  BY <1>1, <1>4 DEF Payment
<1>6. payment' = [payment EXCEPT ![c] = p]
  <2>1. payment' = [payment EXCEPT ![c].sent = k, ![c].pc = IF k = Len(payment[c].amounts) THEN "confirm" ELSE @]
    BY <1>3 DEF Session!Send
  <2> QED
    BY <2>1, <1>1, <1>4 DEF SessionInv
<1>7. PaymentSound(p)
  BY <1>1, <1>2, <1>3, <1>5 DEF PaymentSound
<1>8. uncounted' = uncounted + LostOf(p) /\ p.pc # "paid" /\ InProgress(payment[c])
  BY <1>1, <1>5 DEF LostOf, Session!Send, SessionInv, InProgress
<1>9. parallel = FALSE => Fits(p)
  <2>1. parallel = FALSE => Fits(payment[c])
    BY <1>8 DEF SessionInv
  <2> QED
    BY <2>1, <1>5 DEF Fits
<1> QED
  BY <1>5, <1>6, <1>7, <1>8, <1>9, CallGoesOn DEF Session!Send

LEMMA ThrowKeepsSession ==
    ASSUME IsFiniteSet(Requests), SessionInv, NEW c \in Requests, Session!Throw(c)
    PROVE  SessionInv'
<1>1. payment[c] \in Payment /\ PaymentSound(payment[c]) /\ InProgress(payment[c])
  BY DEF SessionInv, Session!Throw, Session!Under, InProgress
<1>2. PICK p : p = [payment[c] EXCEPT !.pc = "failed"]
  OBVIOUS
<1>3. /\ p \in Payment /\ p.pc = "failed" /\ p.amounts = payment[c].amounts
      /\ p.checked = payment[c].checked /\ p.sent = payment[c].sent
      /\ payment' = [payment EXCEPT ![c] = p]
  BY <1>1, <1>2 DEF Payment, Session!Throw, Session!Goto, SessionInv
<1>4. PaymentSound(p)
  BY <1>1, <1>3 DEF PaymentSound, InProgress
<1>5. Session!Sent(c) = LostOf(p)
  BY <1>3, SameSum DEF Session!Sent, Session!Total, LostOf, PrefixSum
<1>6. uncounted' = uncounted + LostOf(p)
  BY <1>5 DEF Session!Throw
<1>7. parallel = FALSE => Fits(p)
  <2>1. parallel = FALSE => Fits(payment[c])
    BY <1>1 DEF SessionInv
  <2> QED
    BY <2>1, <1>3 DEF Fits
<1> QED
  BY <1>1, <1>3, <1>4, <1>6, <1>7, CallGoesOn DEF Session!Throw

LEMMA ConfirmKeepsSession ==
    ASSUME IsFiniteSet(Requests), SessionInv, NEW c \in Requests, Session!Confirm(c)
    PROVE  SessionInv'
<1>1. payment[c] \in Payment /\ PaymentSound(payment[c]) /\ payment[c].pc = "confirm"
  BY DEF SessionInv, Session!Confirm, Session!At
<1>2. PICK p : p = [payment[c] EXCEPT !.pc = "paid"]
  OBVIOUS
<1>3. /\ p \in Payment /\ p.pc = "paid" /\ p.amounts = payment[c].amounts
      /\ p.checked = payment[c].checked /\ p.sent = payment[c].sent
      /\ payment' = [payment EXCEPT ![c] = p]
  BY <1>1, <1>2 DEF Payment, Session!Confirm, Session!Goto, SessionInv
<1>4. PaymentSound(p) /\ p.checked = Len(p.amounts)
  BY <1>1, <1>3 DEF PaymentSound
<1>5. CountedOf(p) = SumFunction(p.amounts) /\ LostOf(p) = 0 /\ LostOf(payment[c]) = 0
      /\ CountedOf(payment[c]) = 0
  BY <1>1, <1>3, <1>4, PrefixSums DEF CountedOf, LostOf, PaymentSound
<1>6. PICK t \in Nat : t = SumFunction(p.amounts)
  BY <1>3, <1>4, PrefixSums, SumOfSeq
<1>7. spent' = spent + t /\ UNCHANGED <<expired, uncounted, parallel>> /\ spent \in Nat /\ uncounted \in Nat
  BY <1>3, <1>6, SameSum DEF Session!Confirm, Session!Total, SessionInv
<1>8. /\ spent' = spent + CountedOf(p) - CountedOf(payment[c])
      /\ uncounted' = uncounted + LostOf(p) - LostOf(payment[c])
  BY <1>5, <1>6, <1>7
<1>9. /\ payment' \in [Requests -> Payment] /\ payment'[c] = p
      /\ \A d \in Requests : d # c => payment'[d] = payment[d]
      /\ \A d \in Requests : PaymentSound(payment'[d])
      /\ spent' = SumFunction([d \in Requests |-> CountedOf(payment'[d])])
      /\ uncounted' = SumFunction([d \in Requests |-> LostOf(payment'[d])])
  BY <1>3, <1>4, <1>8, OneCallCounts
<1>10. ASSUME parallel' = FALSE
       PROVE  /\ \A d, e \in Requests : InProgress(payment'[d]) /\ InProgress(payment'[e]) => d = e
              /\ \A d \in Requests : InProgress(payment'[d]) => Fits(payment[d])'
              /\ \E d \in Requests : LessThanBatch(payment[d])'
  <2>1. parallel = FALSE
    BY <1>7, <1>10
  <2>2. InProgress(payment[c]) /\ ~InProgress(p)
    BY <1>1, <1>3 DEF InProgress
  <2>3. \A d \in Requests : ~InProgress(payment'[d])
    BY <1>9, <2>1, <2>2 DEF SessionInv
  <2>4. \A i \in 1..Len(p.amounts) : spent + p.amounts[i] <= 3
    BY <1>3, <1>4, <2>1, <2>2 DEF SessionInv, Fits
  <2>5. p.amounts \in Seq(Nat)
    BY <1>3, <1>4, PrefixSums
  <2>6. \A i \in DOMAIN p.amounts : spent + p.amounts[i] <= 3 /\ p.amounts[i] \in Nat
    BY <2>4, <2>5
  <2>7. \A i \in DOMAIN p.amounts : spent' <= 3 + SumFunction(p.amounts) - p.amounts[i]
    <3>1. \A i \in DOMAIN p.amounts : spent' <= 3 + t - p.amounts[i]
      BY <1>7, <2>6
    <3> QED
      BY <3>1, <1>6
  <2>8. LessThanBatch(payment[c])'
    BY <1>9, <1>3, <2>7 DEF LessThanBatch
  <2> QED
    BY <2>3, <2>8
<1>11. spent' \in Nat /\ uncounted' \in Nat /\ expired' \in BOOLEAN /\ parallel' \in BOOLEAN
  <2>1. spent' \in Nat /\ uncounted' \in Nat
    BY <1>6, <1>7
  <2> QED
    BY <1>7, <2>1 DEF SessionInv
<1> QED
  BY <1>9, <1>10, <1>11 DEF SessionInv

LEMMA SessionStep ==
    ASSUME IsFiniteSet(Requests), SessionInv, [Session!Next]_sessionVars
    PROVE  SessionInv'
<1>1. CASE UNCHANGED <<spent, payment, uncounted, parallel>> /\ expired' \in BOOLEAN
  BY <1>1 DEF SessionInv, Fits, LessThanBatch
<1>2. CASE UNCHANGED sessionVars \/ Session!Expire
  BY <1>1, <1>2 DEF sessionVars, Session!Expire, SessionInv
<1>3. ASSUME NEW c \in Requests,
             \/ Session!Begin(c) \/ Session!Prepare(c) \/ Session!Sign(c)
             \/ Session!Send(c) \/ Session!Confirm(c) \/ Session!Throw(c)
      PROVE  SessionInv'
  BY <1>3, BeginKeepsSession, PrepareKeepsSession, SignKeepsSession, SendKeepsSession,
     ConfirmKeepsSession, ThrowKeepsSession
<1> QED
  BY <1>2, <1>3 DEF Session!Next

LEMMA SessionBegins == ASSUME IsFiniteSet(Requests), Session!Init PROVE SessionInv
<1>1. \A c \in Requests : payment[c] = [pc |-> "idle", amounts |-> <<>>, checked |-> 0, sent |-> 0]
  BY DEF Session!Init
<1>2. payment \in [Requests -> Payment]
  BY DEF Session!Init, Payment
<1>3. \A c \in Requests : /\ PaymentSound(payment[c]) /\ ~InProgress(payment[c])
                          /\ CountedOf(payment[c]) = 0 /\ LostOf(payment[c]) = 0
  BY <1>1, BatchesTyped DEF PaymentSound, CountedOf, LostOf, InProgress
<1> DEFINE cf == [c \in Requests |-> CountedOf(payment[c])]
           lf == [c \in Requests |-> LostOf(payment[c])]
<1>4. /\ cf \in [Requests -> Int] /\ \A c \in Requests : cf[c] = 0
      /\ lf \in [Requests -> Int] /\ \A c \in Requests : lf[c] = 0
  BY <1>3
<1>5. SumFunction(cf) = 0 /\ SumFunction(lf) = 0
  <2> HIDE DEF cf, lf
  <2> QED
    BY <1>4, SumOfZeros
<1>6. spent = 0 /\ uncounted = 0 /\ expired = FALSE /\ parallel = FALSE
  BY DEF Session!Init
<1>7. spent \in Nat /\ uncounted \in Nat /\ ~(spent > 3)
  BY <1>6
<1> QED
  BY <1>2, <1>3, <1>5, <1>6, <1>7 DEF SessionInv

LEMMA SessionKept == ASSUME SessionInv PROVE Session!TypeOK /\ Session!ApprovalKept
<1>1. \A c \in Requests : payment[c] \in Payment /\ PaymentSound(payment[c])
  BY DEF SessionInv
<1>2. Session!TypeOK
  <2>1. spent \in Nat /\ uncounted \in Nat /\ expired \in BOOLEAN /\ parallel \in BOOLEAN
    BY DEF SessionInv
  <2> QED
    BY <1>1, <2>1 DEF Session!TypeOK, Payment, PaymentSound
<1>3. \A c \in Requests : /\ CountedOf(payment[c]) = IF Session!At(c, "paid") THEN Session!Sent(c) ELSE 0
                          /\ LostOf(payment[c]) = IF Session!At(c, "failed") THEN Session!Sent(c) ELSE 0
  BY SameSum DEF CountedOf, LostOf, PrefixSum, Session!At, Session!Sent, Session!Total
<1>4. /\ [c \in Requests |-> CountedOf(payment[c])]
           = [c \in Requests |-> IF Session!At(c, "paid") THEN Session!Sent(c) ELSE 0]
      /\ [c \in Requests |-> LostOf(payment[c])]
           = [c \in Requests |-> IF Session!At(c, "failed") THEN Session!Sent(c) ELSE 0]
  BY <1>3
<1>5. spent = SumFunction([c \in Requests |-> CountedOf(payment[c])])
      /\ uncounted = SumFunction([c \in Requests |-> LostOf(payment[c])])
  BY DEF SessionInv
<1>6. /\ spent = Session!SumFunction([c \in Requests |-> IF Session!At(c, "paid") THEN Session!Sent(c) ELSE 0])
      /\ uncounted = Session!SumFunction([c \in Requests |-> IF Session!At(c, "failed") THEN Session!Sent(c) ELSE 0])
  <2>1. spent = SumFunction([c \in Requests |-> IF Session!At(c, "paid") THEN Session!Sent(c) ELSE 0])
    BY <1>4, <1>5, Zenon
  <2>2. uncounted = SumFunction([c \in Requests |-> IF Session!At(c, "failed") THEN Session!Sent(c) ELSE 0])
    BY <1>4, <1>5, Zenon
  <2> QED
    BY <2>1, <2>2, SameSum, Zenon
<1>7. ASSUME spent > 3 /\ ~parallel
      PROVE  \E c \in Requests : Session!At(c, "paid") /\ \A i \in DOMAIN payment[c].amounts :
                spent <= 3 + Session!Total(payment[c].amounts) - payment[c].amounts[i]
  <2>1. parallel = FALSE
    BY <1>7 DEF SessionInv
  <2>2. PICK c \in Requests : LessThanBatch(payment[c])
    BY <1>7, <2>1 DEF SessionInv
  <2> QED
    BY <2>2, SameSum DEF LessThanBatch, Session!At, Session!Total
<1> QED
  BY <1>2, <1>6, <1>7 DEF Session!ApprovalKept

-----------------------------------------------------------------------------
\* ParallaxAgent: one interval polls while anything needs it, and an agent that executes one
\* task at a time has asked as often as its iterations say.

\* What one agent object holds for all tasks
BrainStates == [answer : SUBSET AgentTasks, iteration : 0..2, cost : Nat]
\* A call's locals
AgentRun == [pc : {"idle", "polling", "waiting", "health", "failed", "asking", "tool", "answered", "aborted"},
             asked : Nat, spent : Nat, result : BrainStates]

\* A call that starts the cluster, ...
RunStarts(r) == r.pc \in {"polling", "waiting", "health"}
\* ... or executes its task
RunExecutes(r) == r.pc \in {"asking", "tool"}

\* Who clears the interval that a start has set, as long as starts do not meet
IntervalInv ==
    /\ timer = TRUE => polling >= 1
    /\ disturbed = FALSE =>
          /\ timer = TRUE => polling = 1
          /\ timer = FALSE => polling = 0
          /\ initialized = TRUE => timer = TRUE
          /\ \A t, u \in AgentTasks : RunStarts(run[t]) /\ RunStarts(run[u]) => t = u
          /\ \A t \in AgentTasks : run[t].pc = "polling" => polling = 0
          /\ \A t \in AgentTasks : run[t].pc \in {"waiting", "health"} => timer = TRUE

\* What a call adds to the questions asked and to the tasks begun
AskedOf(r) == r.asked
BegunOf(r) == IF r.asked > 0 THEN 1 ELSE 0

\* The state that all tasks share, and what each of them has got from it
BrainInv ==
    /\ \A t \in AgentTasks :
          /\ run[t].pc = "idle" \/ run[t].pc = "failed" \/ RunStarts(run[t]) => run[t].asked = 0 /\ run[t].spent = 0
          /\ RunExecutes(run[t]) => run[t].asked > 0
          /\ run[t].pc = "answered" => run[t].result.answer # {}
          /\ \A u \in run[t].result.answer : run[u].asked > 0
    /\ \A u \in brain.answer : run[u].asked > 0
    /\ mingled = FALSE =>
          /\ \A t, u \in AgentTasks : RunExecutes(run[t]) /\ RunExecutes(run[u]) => t = u
          /\ \A t \in AgentTasks : RunExecutes(run[t]) =>
                brain = [answer |-> {}, iteration |-> run[t].asked, cost |-> run[t].spent]
          /\ \A t \in AgentTasks : run[t].pc \in {"answered", "aborted"} =>
                run[t].result = [answer |-> IF run[t].pc = "answered" THEN {t} ELSE {},
                                 iteration |-> run[t].asked, cost |-> run[t].spent]

\* Each task that has begun makes room for as many questions as the iterations of a new state,
\* of which the present one has those that are left.
RoomToAsk ==
    \/ \A t \in AgentTasks : run[t].asked = 0
    \/ SumFunction([t \in AgentTasks |-> AskedOf(run[t])]) + 2
          <= 2 * SumFunction([t \in AgentTasks |-> BegunOf(run[t])]) + brain.iteration

\* The types that the steps keep
ClusterTyped ==
    /\ node \in [ClusterNodes -> {"pending", "ready", "error"}]
    /\ attempts \in [ClusterNodes -> 0..3]
    /\ timer \in BOOLEAN /\ initialized \in BOOLEAN /\ polling \in Nat
    /\ brain \in BrainStates
    /\ run \in [AgentTasks -> AgentRun]
    /\ mingled \in BOOLEAN /\ disturbed \in BOOLEAN /\ shutdowns \in 0..1

\* What AgentSound follows from
ClusterInv == ClusterTyped /\ IntervalInv /\ BrainInv /\ RoomToAsk


LEMMA RunCounts ==
    ASSUME IsFiniteSet(AgentTasks), run \in [AgentTasks -> AgentRun]
    PROVE  /\ SumFunction([t \in AgentTasks |-> AskedOf(run[t])]) \in Nat
           /\ SumFunction([t \in AgentTasks |-> BegunOf(run[t])]) \in Nat
<1> DEFINE af == [t \in AgentTasks |-> AskedOf(run[t])]
           bf == [t \in AgentTasks |-> BegunOf(run[t])]
<1>1. /\ \A t \in AgentTasks : af[t] \in Int /\ af[t] >= 0 /\ bf[t] \in Int /\ bf[t] >= 0
      /\ DOMAIN af = AgentTasks /\ DOMAIN bf = AgentTasks
  BY DEF AskedOf, BegunOf, AgentRun
<1>2. /\ SumFunctionOnSet(af, AgentTasks) \in Int /\ SumFunctionOnSet(af, AgentTasks) >= 0
      /\ SumFunctionOnSet(bf, AgentTasks) \in Int /\ SumFunctionOnSet(bf, AgentTasks) >= 0
  <2> HIDE DEF af, bf
  <2> QED
    BY <1>1, SumType
<1> QED
  BY <1>1, <1>2 DEF SumFunction

\* What a step of one task adds to the questions asked and the tasks begun
LEMMA OneRunCounts ==
    ASSUME IsFiniteSet(AgentTasks), run \in [AgentTasks -> AgentRun],
           NEW t \in AgentTasks, NEW r \in AgentRun, run' = [run EXCEPT ![t] = r]
    PROVE  /\ SumFunction([u \in AgentTasks |-> AskedOf(run'[u])])
                = SumFunction([u \in AgentTasks |-> AskedOf(run[u])]) + r.asked - run[t].asked
           /\ SumFunction([u \in AgentTasks |-> BegunOf(run'[u])])
                = SumFunction([u \in AgentTasks |-> BegunOf(run[u])]) + BegunOf(r) - BegunOf(run[t])
<1> DEFINE af == [u \in AgentTasks |-> AskedOf(run[u])]
           ag == [u \in AgentTasks |-> AskedOf(run'[u])]
           bf == [u \in AgentTasks |-> BegunOf(run[u])]
           bg == [u \in AgentTasks |-> BegunOf(run'[u])]
<1>1. run' \in [AgentTasks -> AgentRun] /\ run'[t] = r /\ \A u \in AgentTasks \ {t} : run'[u] = run[u]
  OBVIOUS
<1>2. /\ af \in [AgentTasks -> Int] /\ ag \in [AgentTasks -> Int]
      /\ bf \in [AgentTasks -> Int] /\ bg \in [AgentTasks -> Int]
  BY <1>1 DEF AskedOf, BegunOf, AgentRun
<1>3. /\ ag[t] = r.asked /\ af[t] = run[t].asked /\ bg[t] = BegunOf(r) /\ bf[t] = BegunOf(run[t])
      /\ \A u \in AgentTasks \ {t} : ag[u] = af[u] /\ bg[u] = bf[u]
  BY <1>1 DEF AskedOf
<1>4. SumFunction(ag) - SumFunction(af) = ag[t] - af[t] /\ SumFunction(bg) - SumFunction(bf) = bg[t] - bf[t]
  <2> HIDE DEF af, ag, bf, bg
  <2>1. SumFunction(ag) - SumFunction(af) = ag[t] - af[t]
    BY <1>2, <1>3, SumUpdate
  <2>2. SumFunction(bg) - SumFunction(bf) = bg[t] - bf[t]
    BY <1>2, <1>3, SumUpdate
  <2> QED
    BY <2>1, <2>2
<1>5. SumFunction(af) \in Nat /\ SumFunction(bf) \in Nat
  BY RunCounts
<1>6. SumFunction(ag) \in Nat /\ SumFunction(bg) \in Nat
  <2>1. DOMAIN ag = AgentTasks /\ DOMAIN bg = AgentTasks
        /\ \A u \in AgentTasks : ag[u] \in Int /\ ag[u] >= 0 /\ bg[u] \in Int /\ bg[u] >= 0
    BY <1>1 DEF AskedOf, BegunOf, AgentRun
  <2> HIDE DEF ag, bg, af, bf
  <2>2. /\ SumFunctionOnSet(ag, AgentTasks) \in Int /\ SumFunctionOnSet(ag, AgentTasks) >= 0
        /\ SumFunctionOnSet(bg, AgentTasks) \in Int /\ SumFunctionOnSet(bg, AgentTasks) >= 0
    BY <2>1, SumType
  <2> QED
    BY <2>1, <2>2 DEF SumFunction
<1>7. r.asked \in Nat /\ run[t].asked \in Nat /\ BegunOf(r) \in Nat /\ BegunOf(run[t]) \in Nat
  BY DEF AgentRun, BegunOf
<1> QED
  <2> HIDE DEF af, ag, bf, bg
  <2>1. SumFunction(ag) = SumFunction(af) + r.asked - run[t].asked
        /\ SumFunction(bg) = SumFunction(bf) + BegunOf(r) - BegunOf(run[t])
    BY <1>3, <1>4, <1>5, <1>6, <1>7
  <2> QED
    BY <2>1 DEF af, ag, bf, bg

\* A task that begins has a new state made; else what it asks is one of the iterations.
LEMMA RoomStep ==
    ASSUME IsFiniteSet(AgentTasks), ClusterTyped, RoomToAsk,
           NEW t \in AgentTasks, NEW r \in AgentRun, run' = [run EXCEPT ![t] = r],
           brain' \in BrainStates,
           \/ r.asked = run[t].asked /\ brain'.iteration = brain.iteration
           \/ run[t].asked = 0 /\ r.asked = 1 /\ brain'.iteration = 1
           \/ run[t].asked > 0 /\ r.asked = run[t].asked + 1 /\ brain'.iteration = brain.iteration + 1
    PROVE  RoomToAsk'
<1>0. run \in [AgentTasks -> AgentRun] /\ brain \in BrainStates
  BY DEF ClusterTyped
<1>1. PICK a \in Nat, b \in Nat : /\ a = SumFunction([u \in AgentTasks |-> AskedOf(run[u])])
                                  /\ b = SumFunction([u \in AgentTasks |-> BegunOf(run[u])])
  BY <1>0, RunCounts
<1>2. PICK i \in 0..2, j \in 0..2 : i = brain.iteration /\ j = brain'.iteration
  BY <1>0 DEF BrainStates
<1>3. PICK k \in Nat, l \in Nat : k = run[t].asked /\ l = r.asked
  BY <1>0 DEF AgentRun
<1>4. BegunOf(run[t]) = (IF k > 0 THEN 1 ELSE 0) /\ BegunOf(r) = (IF l > 0 THEN 1 ELSE 0)
  BY <1>3 DEF BegunOf
<1>5. /\ SumFunction([u \in AgentTasks |-> AskedOf(run'[u])]) = a + l - k
      /\ SumFunction([u \in AgentTasks |-> BegunOf(run'[u])])
           = b + (IF l > 0 THEN 1 ELSE 0) - (IF k > 0 THEN 1 ELSE 0)
  BY <1>0, <1>1, <1>3, <1>4, OneRunCounts
<1>6. CASE \A u \in AgentTasks : run[u].asked = 0
  <2>1. a = 0 /\ b = 0
    <3> DEFINE af == [u \in AgentTasks |-> AskedOf(run[u])]
               bf == [u \in AgentTasks |-> BegunOf(run[u])]
    <3>1. /\ af \in [AgentTasks -> Int] /\ \A u \in AgentTasks : af[u] = 0
          /\ bf \in [AgentTasks -> Int] /\ \A u \in AgentTasks : bf[u] = 0
      BY <1>6 DEF AskedOf, BegunOf
    <3>2. SumFunction(af) = 0 /\ SumFunction(bf) = 0
      <4> HIDE DEF af, bf
      <4> QED
        BY <3>1, SumOfZeros
    <3> QED
      BY <3>2, <1>1
  <2>2. k = 0
    BY <1>6, <1>3
  <2>3. CASE l = 0
    <3>1. \A u \in AgentTasks : run'[u].asked = 0
      BY <1>0, <1>3, <1>6, <2>3
    <3> QED
      BY <3>1 DEF RoomToAsk
  <2>4. CASE l # 0
    <3>1. l = 1 /\ j = 1
      BY <1>2, <1>3, <2>2, <2>4
    <3> QED
      BY <1>2, <1>5, <2>1, <2>2, <3>1 DEF RoomToAsk
  <2> QED
    BY <2>3, <2>4
<1>7. CASE a + 2 <= 2 * b + i
  <2>1. \/ l = k /\ j = i
        \/ k = 0 /\ l = 1 /\ j = 1
        \/ k > 0 /\ l = k + 1 /\ j = i + 1
    BY <1>2, <1>3
  <2>2. (a + l - k) + 2 <= 2 * (b + (IF l > 0 THEN 1 ELSE 0) - (IF k > 0 THEN 1 ELSE 0)) + j
    BY <1>7, <2>1
  <2> QED
    BY <1>2, <1>5, <2>2 DEF RoomToAsk
<1> QED
  BY <1>1, <1>2, <1>6, <1>7 DEF RoomToAsk

LEMMA BrainStep ==
    ASSUME ClusterTyped, BrainInv,
           NEW t \in AgentTasks, NEW r \in AgentRun, run' = [run EXCEPT ![t] = r], brain' \in BrainStates,
           r.asked >= run[t].asked,
           r.pc = "idle" \/ r.pc = "failed" \/ RunStarts(r) => r.asked = 0 /\ r.spent = 0,
           RunExecutes(r) => r.asked > 0,
           r.pc = "answered" => r.result.answer # {},
           \A u \in r.result.answer \cup brain'.answer : run[u].asked > 0,
           mingled' = FALSE =>
              /\ mingled = FALSE
              /\ RunExecutes(r) => /\ \A u \in AgentTasks \ {t} : ~RunExecutes(run[u])
                                   /\ brain' = [answer |-> {}, iteration |-> r.asked, cost |-> r.spent]
              /\ ~RunExecutes(r) => brain' = brain \/ RunExecutes(run[t])
              /\ r.pc \in {"answered", "aborted"} =>
                    r.result = [answer |-> IF r.pc = "answered" THEN {t} ELSE {},
                                iteration |-> r.asked, cost |-> r.spent]
    PROVE  BrainInv'
<1>1. /\ run \in [AgentTasks -> AgentRun] /\ run'[t] = r
      /\ \A u \in AgentTasks \ {t} : run'[u] = run[u]
  BY DEF ClusterTyped
<1>2. \A u \in AgentTasks : run[u].asked > 0 => run'[u].asked > 0
  BY <1>1 DEF AgentRun
<1>3. ASSUME NEW u \in AgentTasks
      PROVE  /\ run'[u].pc = "idle" \/ run'[u].pc = "failed" \/ RunStarts(run'[u])
                   => run'[u].asked = 0 /\ run'[u].spent = 0
             /\ RunExecutes(run'[u]) => run'[u].asked > 0
             /\ run'[u].pc = "answered" => run'[u].result.answer # {}
             /\ \A v \in run'[u].result.answer : run'[v].asked > 0
  <2>1. CASE u = t
    <3>1. r.result.answer \in SUBSET AgentTasks
      BY DEF AgentRun, BrainStates
    <3> QED
      BY <1>1, <1>2, <2>1, <3>1
  <2>2. CASE u # t
    <3>1. run[u].result.answer \in SUBSET AgentTasks /\ run'[u] = run[u]
      BY <1>1, <2>2 DEF AgentRun, BrainStates
    <3> QED
      BY <1>2, <2>2, <3>1 DEF BrainInv
  <2> QED
    BY <2>1, <2>2
<1>4. \A u \in brain'.answer : run'[u].asked > 0
  <2>1. brain'.answer \in SUBSET AgentTasks
    BY DEF BrainStates
  <2> QED
    BY <2>1, <1>2
<1>5. ASSUME mingled' = FALSE
      PROVE  /\ \A u, v \in AgentTasks : RunExecutes(run'[u]) /\ RunExecutes(run'[v]) => u = v
             /\ \A u \in AgentTasks : RunExecutes(run'[u]) =>
                   brain' = [answer |-> {}, iteration |-> run'[u].asked, cost |-> run'[u].spent]
             /\ \A u \in AgentTasks : run'[u].pc \in {"answered", "aborted"} =>
                   run'[u].result = [answer |-> IF run'[u].pc = "answered" THEN {u} ELSE {},
                                     iteration |-> run'[u].asked, cost |-> run'[u].spent]
  <2>1. mingled = FALSE
    BY <1>5
  <2>2. \A u, v \in AgentTasks : RunExecutes(run'[u]) /\ RunExecutes(run'[v]) => u = v
    BY <1>1, <1>5, <2>1 DEF BrainInv
  <2>3. ASSUME NEW u \in AgentTasks, RunExecutes(run'[u])
        PROVE  brain' = [answer |-> {}, iteration |-> run'[u].asked, cost |-> run'[u].spent]
    <3>1. CASE u = t
      BY <1>1, <1>5, <2>3, <3>1
    <3>2. CASE u # t
      <4>1. run'[u] = run[u] /\ RunExecutes(run[u]) /\ ~RunExecutes(r)
        BY <1>1, <1>5, <2>3, <3>2
      <4>2. brain' = brain
        BY <1>5, <2>1, <3>2, <4>1 DEF BrainInv
      <4> QED
        BY <2>1, <4>1, <4>2 DEF BrainInv
    <3> QED
      BY <3>1, <3>2
  <2>4. ASSUME NEW u \in AgentTasks, run'[u].pc \in {"answered", "aborted"}
        PROVE  run'[u].result = [answer |-> IF run'[u].pc = "answered" THEN {u} ELSE {},
                                 iteration |-> run'[u].asked, cost |-> run'[u].spent]
    <3>1. CASE u = t
      BY <1>1, <1>5, <2>4, <3>1
    <3>2. CASE u # t
      BY <1>1, <2>1, <2>4, <3>2 DEF BrainInv
    <3> QED
      BY <3>1, <3>2
  <2> QED
    BY <2>2, <2>3, <2>4
<1> QED
  BY <1>3, <1>4, <1>5 DEF BrainInv

LEMMA IntervalStays ==
    ASSUME ClusterTyped, IntervalInv, NEW t \in AgentTasks, NEW r \in AgentRun, run' = [run EXCEPT ![t] = r],
           UNCHANGED <<timer, polling, initialized, disturbed>>,
           r.pc \notin {"polling", "waiting"}, r.pc = "health" => run[t].pc = "waiting"
    PROVE  IntervalInv'
<1>1. /\ run \in [AgentTasks -> AgentRun] /\ run'[t] = r
      /\ \A u \in AgentTasks \ {t} : run'[u] = run[u]
  BY DEF ClusterTyped
<1>2. \A u \in AgentTasks : /\ RunStarts(run'[u]) => RunStarts(run[u])
                            /\ run'[u].pc = "polling" => run[u].pc = "polling"
                            /\ run'[u].pc \in {"waiting", "health"} => run[u].pc \in {"waiting", "health"}
  BY <1>1 DEF RunStarts
<1> QED
  BY <1>2 DEF IntervalInv

LEMMA IntervalStart ==
    ASSUME ClusterTyped, IntervalInv, NEW t \in AgentTasks, NEW r \in AgentRun, run' = [run EXCEPT ![t] = r],
           r.pc = "polling", UNCHANGED <<timer, polling, initialized>>,
           disturbed' = FALSE => /\ disturbed = FALSE /\ polling = 0
                                 /\ \A u \in AgentTasks : ~RunStarts(run[u])
    PROVE  IntervalInv'
<1>1. /\ run \in [AgentTasks -> AgentRun] /\ run'[t] = r
      /\ \A u \in AgentTasks \ {t} : run'[u] = run[u]
  BY DEF ClusterTyped
<1>2. ASSUME disturbed' = FALSE
      PROVE  \A u \in AgentTasks \ {t} : ~RunStarts(run'[u])
  BY <1>1, <1>2
<1>3. timer' = TRUE => polling' >= 1
  BY DEF IntervalInv
<1>4. ASSUME disturbed' = FALSE
      PROVE  /\ timer' = TRUE => polling' = 1
             /\ timer' = FALSE => polling' = 0
             /\ initialized' = TRUE => timer' = TRUE
             /\ \A u, v \in AgentTasks : RunStarts(run'[u]) /\ RunStarts(run'[v]) => u = v
             /\ \A u \in AgentTasks : run'[u].pc = "polling" => polling' = 0
             /\ \A u \in AgentTasks : run'[u].pc \in {"waiting", "health"} => timer' = TRUE
  <2>1. \A u \in AgentTasks : run'[u].pc \in {"waiting", "health"} => timer' = TRUE
    BY <1>1, <1>2, <1>4 DEF RunStarts
  <2>2. \A u, v \in AgentTasks : RunStarts(run'[u]) /\ RunStarts(run'[v]) => u = v
    BY <1>2, <1>4
  <2>3. polling' = 0
    BY <1>4
  <2> QED
    BY <1>4, <2>1, <2>2, <2>3 DEF IntervalInv
<1> QED
  BY <1>3, <1>4 DEF IntervalInv

LEMMA IntervalSet ==
    ASSUME ClusterTyped, IntervalInv, NEW t \in AgentTasks, NEW r \in AgentRun, run' = [run EXCEPT ![t] = r],
           run[t].pc = "polling", r.pc = "waiting",
           timer' = TRUE, polling' = polling + 1, UNCHANGED <<initialized, disturbed>>
    PROVE  IntervalInv'
<1>1. /\ run \in [AgentTasks -> AgentRun] /\ run'[t] = r
      /\ \A u \in AgentTasks \ {t} : run'[u] = run[u]
  BY DEF ClusterTyped
<1>2. polling' >= 1
  BY DEF ClusterTyped
<1>3. ASSUME disturbed' = FALSE
      PROVE  /\ polling' = 1
             /\ \A u, v \in AgentTasks : RunStarts(run'[u]) /\ RunStarts(run'[v]) => u = v
             /\ \A u \in AgentTasks : run'[u].pc # "polling"
  <2>1. disturbed = FALSE /\ RunStarts(run[t])
    BY <1>3 DEF RunStarts
  <2>2. polling = 0
    BY <2>1 DEF IntervalInv
  <2>3. \A u \in AgentTasks \ {t} : ~RunStarts(run[u])
    BY <2>1 DEF IntervalInv
  <2>4. \A u \in AgentTasks \ {t} : ~RunStarts(run'[u])
    BY <1>1, <2>3
  <2>5. \A u \in AgentTasks : run'[u].pc # "polling"
    BY <1>1, <2>4 DEF RunStarts
  <2> QED
    BY <2>2, <2>4, <2>5
<1> QED
  BY <1>2, <1>3 DEF IntervalInv

LEMMA IntervalHealthy ==
    ASSUME ClusterTyped, IntervalInv, NEW t \in AgentTasks, NEW r \in AgentRun, run' = [run EXCEPT ![t] = r],
           run[t].pc = "health", ~RunStarts(r), UNCHANGED <<timer, polling, disturbed>>
    PROVE  IntervalInv'
<1>1. /\ run \in [AgentTasks -> AgentRun] /\ run'[t] = r
      /\ \A u \in AgentTasks \ {t} : run'[u] = run[u]
  BY DEF ClusterTyped
<1>2. \A u \in AgentTasks : /\ RunStarts(run'[u]) => RunStarts(run[u])
                            /\ run'[u].pc = "polling" => run[u].pc = "polling"
                            /\ run'[u].pc \in {"waiting", "health"} => run[u].pc \in {"waiting", "health"}
  BY <1>1 DEF RunStarts
<1>3. disturbed = FALSE => timer = TRUE
  BY DEF IntervalInv
<1> QED
  BY <1>2, <1>3 DEF IntervalInv

LEMMA IntervalShutdown ==
    ASSUME ClusterTyped, IntervalInv, Cluster!Shutdown
    PROVE  IntervalInv' /\ polling' \in Nat
<1>1. timer' = FALSE /\ initialized' = FALSE /\ run' = run
  BY DEF Cluster!Shutdown
<1>2. polling' = IF timer THEN polling - 1 ELSE polling
  BY DEF Cluster!Shutdown
<1>3. timer = TRUE \/ timer = FALSE
  BY DEF ClusterTyped
<1>4. disturbed' = FALSE => disturbed = FALSE /\ \A u \in AgentTasks : ~RunStarts(run[u])
  BY DEF Cluster!Shutdown, ClusterTyped, RunStarts, Cluster!Starting
<1>5. timer = TRUE => polling' = polling - 1 /\ polling >= 1
  BY <1>2 DEF IntervalInv
<1>6. timer = FALSE => polling' = polling
  BY <1>2
<1>7. polling \in Nat
  BY DEF ClusterTyped
<1>8. polling' \in Nat
  BY <1>3, <1>5, <1>6, <1>7
<1>9. disturbed' = FALSE => polling' = 0
  <2>1. disturbed' = FALSE /\ timer = TRUE => polling = 1
    BY <1>4 DEF IntervalInv
  <2>2. disturbed' = FALSE /\ timer = FALSE => polling = 0
    BY <1>4 DEF IntervalInv
  <2> QED
    BY <1>3, <1>5, <1>6, <2>1, <2>2
<1>10. disturbed' = FALSE => \A u \in AgentTasks : run'[u].pc \notin {"polling", "waiting", "health"} /\ ~RunStarts(run'[u])
  BY <1>1, <1>4 DEF RunStarts
<1> QED
  BY <1>1, <1>8, <1>9, <1>10 DEF IntervalInv

LEMMA PollKeepsTypes ==
    ASSUME ClusterTyped, Cluster!Polled \/ Cluster!PollFailed
    PROVE  node' \in [ClusterNodes -> {"pending", "ready", "error"}] /\ attempts' \in [ClusterNodes -> 0..3]
<1>1. node \in [ClusterNodes -> {"pending", "ready", "error"}] /\ attempts \in [ClusterNodes -> 0..3]
  BY DEF ClusterTyped
<1>2. CASE Cluster!Polled
  BY <1>1, <1>2 DEF Cluster!Polled
<1>3. CASE Cluster!PollFailed
  BY <1>1, <1>3 DEF Cluster!PollFailed
<1> QED
  BY <1>2, <1>3

\* A call that goes on, ...
Asks(r, p, a, m) == [[[r EXCEPT !.pc = p] EXCEPT !.asked = a] EXCEPT !.spent = m]
\* ... or has its result
Ends(r, p, m, s) == [[[r EXCEPT !.pc = p] EXCEPT !.spent = m] EXCEPT !.result = s]

LEMMA RunFields ==
    ASSUME NEW r \in AgentRun, NEW p, NEW a, NEW m, NEW s
    PROVE  /\ Asks(r, p, a, m)
                = [pc |-> p, asked |-> a, spent |-> m, result |-> r.result]
           /\ Ends(r, p, m, s)
                = [pc |-> p, asked |-> r.asked, spent |-> m, result |-> s]
<1>1. PICK a0, m0, s0 : a0 = r.asked /\ m0 = r.spent /\ s0 = r.result
  OBVIOUS
<1>2. r = [pc |-> r.pc, asked |-> a0, spent |-> m0, result |-> s0]
  BY <1>1 DEF AgentRun
<1>3. PICK r1 : r1 = [r EXCEPT !.pc = p]
  OBVIOUS
<1>4. r1 = [pc |-> p, asked |-> a0, spent |-> m0, result |-> s0]
  BY <1>2, <1>3
<1>5. PICK r2 : r2 = [r1 EXCEPT !.asked = a]
  OBVIOUS
<1>6. r2 = [pc |-> p, asked |-> a, spent |-> m0, result |-> s0]
  BY <1>4, <1>5
<1>7. [r2 EXCEPT !.spent = m] = [pc |-> p, asked |-> a, spent |-> m, result |-> s0]
  BY <1>6
<1>8. PICK r3 : r3 = [r1 EXCEPT !.spent = m]
  OBVIOUS
<1>9. r3 = [pc |-> p, asked |-> a0, spent |-> m, result |-> s0]
  BY <1>4, <1>8
<1>10. [r3 EXCEPT !.result = s] = [pc |-> p, asked |-> a0, spent |-> m, result |-> s]
  BY <1>9
<1>11. Asks(r, p, a, m) = [r2 EXCEPT !.spent = m]
  BY <1>3, <1>5, Zenon DEF Asks
<1>12. Ends(r, p, m, s) = [r3 EXCEPT !.result = s]
  BY <1>3, <1>8, Zenon DEF Ends
<1> QED
  BY <1>1, <1>7, <1>10, <1>11, <1>12, Zenon

LEMMA ExecuteKeepsBrain ==
    ASSUME IsFiniteSet(AgentTasks), ClusterInv, NEW t \in AgentTasks,
           run[t].pc \in {"idle", "health"}, Cluster!Execute(t)
    PROVE  /\ \E r \in AgentRun : run' = [run EXCEPT ![t] = r] /\ r.pc = "asking"
           /\ brain' \in BrainStates /\ mingled' \in BOOLEAN
           /\ BrainInv' /\ RoomToAsk'
<1>1. run \in [AgentTasks -> AgentRun] /\ run[t] \in AgentRun /\ brain \in BrainStates /\ ClusterTyped
  BY DEF ClusterInv, ClusterTyped
<1>2. run[t].asked = 0 /\ run[t].spent = 0
  BY DEF ClusterInv, BrainInv, RunStarts
<1>3. PICK r : r = [run[t] EXCEPT !.pc = "asking", !.asked = 1]
  OBVIOUS
<1>4. r \in AgentRun /\ r.pc = "asking" /\ r.asked = 1 /\ r.spent = 0 /\ r.result = run[t].result
  BY <1>1, <1>2, <1>3 DEF AgentRun
<1>5. run' = [run EXCEPT ![t] = r]
  BY <1>1, <1>3 DEF Cluster!Execute
<1>6. brain' = [answer |-> {}, iteration |-> 1, cost |-> 0]
  BY DEF Cluster!Execute, Cluster!FreshBrain, Cluster!NoTask
<1>7. brain' \in BrainStates /\ brain'.iteration = 1 /\ brain'.answer = {}
  BY <1>6 DEF BrainStates
<1>8. mingled' \in BOOLEAN /\ (mingled' = FALSE => mingled = FALSE /\ \A u \in AgentTasks \ {t} : ~RunExecutes(run[u]))
  BY <1>1 DEF Cluster!Execute, ClusterTyped, RunExecutes, Cluster!Executing
<1>9. RoomToAsk'
  BY <1>1, <1>2, <1>4, <1>5, <1>7, RoomStep DEF ClusterInv
<1>10. \A u \in r.result.answer : run[u].asked > 0
  BY <1>4 DEF ClusterInv, BrainInv
<1>11. BrainInv'
  <2>1. RunExecutes(r) /\ ~RunStarts(r) /\ r.asked >= run[t].asked /\ r.asked > 0
    BY <1>2, <1>4 DEF RunExecutes, RunStarts
  <2>2. \A u \in r.result.answer \cup brain'.answer : run[u].asked > 0
    BY <1>7, <1>10
  <2>3. BrainInv
    BY DEF ClusterInv
  <2> QED
    BY <1>1, <1>4, <1>5, <1>6, <1>7, <1>8, <2>1, <2>2, <2>3, BrainStep
<1> QED
  BY <1>4, <1>5, <1>7, <1>8, <1>9, <1>11

\* What a task gives to the loop: the state with its answer or its costs
LEMMA GoOnKeepsBrain ==
    ASSUME IsFiniteSet(AgentTasks), ClusterInv, NEW t \in AgentTasks, RunExecutes(run[t]),
           NEW now \in BrainStates, NEW s \in Nat, now.iteration = brain.iteration,
           \A u \in now.answer : u = t \/ u \in brain.answer,
           mingled = FALSE => /\ now.answer \in {{}, {t}}
                              /\ now.iteration = run[t].asked /\ now.cost = run[t].spent + s,
           Cluster!GoOn(t, now, s), mingled' = mingled
    PROVE  /\ \E r \in AgentRun : run' = [run EXCEPT ![t] = r] /\ ~RunStarts(r)
           /\ brain' \in BrainStates /\ BrainInv' /\ RoomToAsk'
<1>1. run \in [AgentTasks -> AgentRun] /\ run[t] \in AgentRun /\ brain \in BrainStates /\ ClusterTyped
  BY DEF ClusterInv, ClusterTyped
<1>2. run[t].asked > 0 /\ BrainInv
  BY DEF ClusterInv, BrainInv
<1>3. PICK k \in Nat, m \in Nat : k = run[t].asked /\ m = run[t].spent
  BY <1>1 DEF AgentRun
<1>4. \A u \in now.answer : run[u].asked > 0
  BY <1>2 DEF BrainInv
<1>5. PICK i \in 0..2 : i = now.iteration
  BY DEF BrainStates
<1>6. CASE now.iteration < 2 /\ now.answer = {}
  <2>0. PICK k1 \in Nat, m1 \in Nat : k1 = k + 1 /\ m1 = m + s
    OBVIOUS
  <2>1. PICK r : r = [pc |-> "asking", asked |-> k1, spent |-> m1, result |-> run[t].result]
    OBVIOUS
  <2>2. /\ r \in AgentRun /\ r.pc = "asking" /\ r.asked = k + 1 /\ r.spent = m + s
        /\ r.result = run[t].result
    BY <1>1, <2>0, <2>1 DEF AgentRun
  <2>3. /\ run' = [run EXCEPT ![t].pc = "asking", ![t].asked = k1, ![t].spent = m1]
        /\ brain' = [now EXCEPT !.iteration = @ + 1]
    BY <1>1, <1>3, <1>6, <2>0 DEF Cluster!GoOn, Cluster!Loop, Cluster!NoTask
  <2>4. run' = [run EXCEPT ![t] = r]
    <3>1. Asks(run[t], "asking", k1, m1) = r
      BY <1>1, <2>1, RunFields
    <3>2. run' = [run EXCEPT ![t] = Asks(run[t], "asking", k1, m1)]
      BY <1>1, <2>3, Zenon DEF Asks
    <3> QED
      BY <3>1, <3>2
  <2>5. PICK j \in 0..2 : j = i + 1
    BY <1>5, <1>6
  <2>6. brain' = [now EXCEPT !.iteration = j]
    BY <1>5, <2>3, <2>5
  <2>7. brain' \in BrainStates /\ brain'.iteration = j /\ brain'.answer = {} /\ brain'.cost = now.cost
    BY <1>6, <2>6 DEF BrainStates
  <2>8. RoomToAsk'
    <3>1. brain'.iteration = brain.iteration + 1 /\ r.asked = run[t].asked + 1
      BY <1>3, <1>5, <2>2, <2>5, <2>7
    <3> QED
      BY <1>1, <1>2, <2>2, <2>4, <2>7, <3>1, RoomStep DEF ClusterInv
  <2>9. mingled = FALSE => brain' = [answer |-> {}, iteration |-> r.asked, cost |-> r.spent]
    <3>1. brain' = [answer |-> brain'.answer, iteration |-> brain'.iteration, cost |-> brain'.cost]
      BY <2>7 DEF BrainStates
    <3>2. mingled = FALSE => brain'.iteration = r.asked /\ brain'.cost = r.spent
      BY <1>3, <1>5, <2>2, <2>5, <2>7
    <3> QED
      BY <2>7, <3>1, <3>2
  <2>10. \A u \in r.result.answer \cup brain'.answer : run[u].asked > 0
    BY <1>2, <2>2, <2>7 DEF BrainInv
  <2>11. mingled = FALSE => \A u \in AgentTasks \ {t} : ~RunExecutes(run[u])
    BY <1>2 DEF BrainInv
  <2>12. RunExecutes(r) /\ ~RunStarts(r) /\ r.asked >= run[t].asked /\ r.asked > 0
    BY <1>3, <2>2 DEF RunExecutes, RunStarts
  <2>13. BrainInv'
    BY <1>1, <1>2, <2>2, <2>4, <2>7, <2>9, <2>10, <2>11, <2>12, BrainStep
  <2> QED
    BY <2>2, <2>4, <2>7, <2>8, <2>12, <2>13
<1>7. CASE ~(now.iteration < 2 /\ now.answer = {})
  <2>0. PICK last \in {"aborted", "answered"}, m1 \in Nat :
              last = (IF now.answer = {} THEN "aborted" ELSE "answered") /\ m1 = m + s
    OBVIOUS
  <2>1. PICK r : r = [pc |-> last, asked |-> k, spent |-> m1, result |-> now]
    OBVIOUS
  <2>2. /\ r \in AgentRun /\ r.pc = last /\ r.asked = k /\ r.spent = m + s
        /\ r.result = now
    BY <1>1, <1>3, <2>0, <2>1 DEF AgentRun
  <2>3. /\ run' = [run EXCEPT ![t].pc = last, ![t].spent = m1, ![t].result = now]
        /\ brain' = now
    BY <1>1, <1>3, <1>7, <2>0 DEF Cluster!GoOn, Cluster!Loop, Cluster!NoTask
  <2>4. run' = [run EXCEPT ![t] = r]
    <3>1. Ends(run[t], last, m1, now) = r
      BY <1>1, <1>3, <2>1, RunFields
    <3>2. run' = [run EXCEPT ![t] = Ends(run[t], last, m1, now)]
      BY <1>1, <2>3, Zenon DEF Ends
    <3> QED
      BY <3>1, <3>2
  <2>5. RoomToAsk'
    <3>1. r.asked = run[t].asked /\ brain'.iteration = brain.iteration /\ brain' \in BrainStates
      BY <1>3, <2>2, <2>3
    <3> QED
      BY <1>1, <2>2, <2>4, <3>1, RoomStep DEF ClusterInv
  <2>6. mingled = FALSE =>
           r.result = [answer |-> IF r.pc = "answered" THEN {t} ELSE {}, iteration |-> r.asked, cost |-> r.spent]
    <3>1. now = [answer |-> now.answer, iteration |-> now.iteration, cost |-> now.cost]
      BY DEF BrainStates
    <3>2. mingled = FALSE => now.answer = (IF r.pc = "answered" THEN {t} ELSE {})
      BY <2>0, <2>2
    <3> QED
      BY <1>3, <2>2, <3>1, <3>2
  <2>7. r.pc = "answered" => r.result.answer # {}
    BY <2>0, <2>2
  <2>8. ~RunExecutes(r) /\ ~RunStarts(r) /\ r.asked >= run[t].asked /\ r.pc # "idle" /\ r.pc # "failed"
    BY <1>3, <2>2 DEF RunExecutes, RunStarts
  <2>9. BrainInv'
    <3>1. \A u \in r.result.answer \cup brain'.answer : run[u].asked > 0
      BY <1>4, <2>2, <2>3
    <3> QED
      BY <1>1, <1>2, <2>2, <2>3, <2>4, <2>6, <2>7, <2>8, <3>1, BrainStep
  <2> QED
    BY <2>2, <2>3, <2>4, <2>5, <2>8, <2>9
<1> QED
  BY <1>6, <1>7

\* A step of a task that neither asks nor ends
LEMMA WaitsKeepBrain ==
    ASSUME IsFiniteSet(AgentTasks), ClusterInv, NEW t \in AgentTasks,
           NEW p \in {"polling", "waiting", "health", "failed"},
           run[t].pc = "idle" \/ RunStarts(run[t]),
           Cluster!Goto(t, p), UNCHANGED <<brain, mingled>>
    PROVE  /\ \E r \in AgentRun : run' = [run EXCEPT ![t] = r] /\ r.pc = p
           /\ BrainInv' /\ RoomToAsk'
<1>1. run \in [AgentTasks -> AgentRun] /\ run[t] \in AgentRun /\ brain \in BrainStates /\ ClusterTyped
  BY DEF ClusterInv, ClusterTyped
<1>2. BrainInv /\ RoomToAsk /\ run[t].asked = 0 /\ run[t].spent = 0
  BY DEF ClusterInv, BrainInv
<1>3. PICK r : r = [run[t] EXCEPT !.pc = p]
  OBVIOUS
<1>4. r \in AgentRun /\ r.pc = p /\ r.asked = 0 /\ r.spent = 0 /\ r.result = run[t].result
  BY <1>1, <1>2, <1>3 DEF AgentRun
<1>5. run' = [run EXCEPT ![t] = r]
  BY <1>1, <1>3 DEF Cluster!Goto
<1>6. ~RunExecutes(r) /\ r.pc # "answered" /\ r.pc \notin {"answered", "aborted"} /\ r.asked >= run[t].asked
  BY <1>2, <1>4 DEF RunExecutes
<1>7. \A u \in r.result.answer \cup brain'.answer : run[u].asked > 0
  BY <1>2, <1>4 DEF BrainInv
<1>8. BrainInv'
  BY <1>1, <1>2, <1>4, <1>5, <1>6, <1>7, BrainStep
<1>9. RoomToAsk'
  BY <1>1, <1>2, <1>4, <1>5, RoomStep
<1> QED
  BY <1>4, <1>5, <1>8, <1>9

LEMMA ClusterRunKeeps ==
    ASSUME IsFiniteSet(AgentTasks), ClusterInv, NEW t \in AgentTasks, Cluster!Run(t) PROVE ClusterInv'
<1>1. ClusterTyped /\ IntervalInv /\ run[t].pc = "idle"
  BY DEF ClusterInv, Cluster!Run, Cluster!At
<1>2. UNCHANGED <<node, attempts, timer, polling, initialized, shutdowns>>
  BY DEF Cluster!Run, Cluster!clusterVars
<1>3. CASE Cluster!Execute(t) /\ disturbed' = disturbed
  <2>1. PICK r \in AgentRun : run' = [run EXCEPT ![t] = r] /\ r.pc = "asking"
    BY <1>1, <1>3, ExecuteKeepsBrain
  <2>2. brain' \in BrainStates /\ mingled' \in BOOLEAN /\ BrainInv' /\ RoomToAsk'
    BY <1>1, <1>3, ExecuteKeepsBrain
  <2>3. IntervalInv'
    BY <1>1, <1>2, <1>3, <2>1, IntervalStays
  <2>4. ClusterTyped'
    BY <1>1, <1>2, <1>3, <2>1, <2>2 DEF ClusterTyped
  <2> QED
    BY <2>2, <2>3, <2>4 DEF ClusterInv
<1>4. CASE /\ Cluster!Goto(t, "polling") /\ UNCHANGED <<brain, mingled>>
           /\ disturbed' = (disturbed \/ polling > 0 \/ \E u \in AgentTasks : run[u].pc \in Cluster!Starting)
  <2>1. PICK r \in AgentRun : run' = [run EXCEPT ![t] = r] /\ r.pc = "polling"
    BY <1>1, <1>4, WaitsKeepBrain
  <2>2. BrainInv' /\ RoomToAsk'
    BY <1>1, <1>4, WaitsKeepBrain
  <2>3. disturbed' = FALSE => /\ disturbed = FALSE /\ ~(polling > 0)
                              /\ \A u \in AgentTasks : ~RunStarts(run[u])
    BY <1>1, <1>4 DEF RunStarts, Cluster!Starting, ClusterTyped
  <2>4. disturbed' \in BOOLEAN
    BY <1>4
  <2>5. polling \in Nat
    BY <1>1 DEF ClusterTyped
  <2>6. IntervalInv'
    <3>1. disturbed' = FALSE => polling = 0
      BY <2>3, <2>5
    <3> QED
      BY <1>1, <1>2, <2>1, <2>3, <3>1, IntervalStart
  <2>7. ClusterTyped'
    BY <1>1, <1>2, <1>4, <2>1, <2>4 DEF ClusterTyped
  <2> QED
    BY <2>2, <2>6, <2>7 DEF ClusterInv
<1> QED
  BY <1>3, <1>4 DEF Cluster!Run

LEMMA ClusterStartedKeeps ==
    ASSUME IsFiniteSet(AgentTasks), ClusterInv, NEW t \in AgentTasks, Cluster!Started(t) PROVE ClusterInv'
<1>1. ClusterTyped /\ IntervalInv /\ run[t].pc = "polling" /\ RunStarts(run[t])
  BY DEF ClusterInv, Cluster!Started, Cluster!At, RunStarts
<1>2. node' \in [ClusterNodes -> {"pending", "ready", "error"}] /\ attempts' \in [ClusterNodes -> 0..3]
  BY <1>1, PollKeepsTypes DEF Cluster!Started
<1>3. /\ timer' = TRUE /\ polling' = polling + 1 /\ UNCHANGED <<initialized, disturbed, shutdowns, brain, mingled>>
      /\ Cluster!Goto(t, "waiting")
  BY DEF Cluster!Started
<1>4. PICK r \in AgentRun : run' = [run EXCEPT ![t] = r] /\ r.pc = "waiting"
  BY <1>1, <1>3, WaitsKeepBrain
<1>5. BrainInv' /\ RoomToAsk'
  BY <1>1, <1>3, WaitsKeepBrain
<1>6. IntervalInv'
  BY <1>1, <1>3, <1>4, IntervalSet
<1>7. ClusterTyped'
  BY <1>1, <1>2, <1>3, <1>4 DEF ClusterTyped
<1> QED
  BY <1>5, <1>6, <1>7 DEF ClusterInv

LEMMA ClusterWaitedKeeps ==
    ASSUME IsFiniteSet(AgentTasks), ClusterInv, NEW t \in AgentTasks, Cluster!Waited(t) PROVE ClusterInv'
<1>1. ClusterTyped /\ IntervalInv /\ run[t].pc = "waiting" /\ RunStarts(run[t])
  BY DEF ClusterInv, Cluster!Waited, Cluster!At, RunStarts
<1>2. UNCHANGED <<node, attempts, timer, polling, initialized, disturbed, shutdowns, brain, mingled>>
  BY DEF Cluster!Waited, Cluster!clusterVars, Cluster!lifeVars
<1>3. PICK p \in {"health", "failed"} : Cluster!Goto(t, p)
  BY DEF Cluster!Waited
<1>4. PICK r \in AgentRun : run' = [run EXCEPT ![t] = r] /\ r.pc = p
  BY <1>1, <1>2, <1>3, WaitsKeepBrain
<1>5. BrainInv' /\ RoomToAsk'
  BY <1>1, <1>2, <1>3, WaitsKeepBrain
<1>6. IntervalInv'
  BY <1>1, <1>2, <1>3, <1>4, IntervalStays
<1>7. ClusterTyped'
  BY <1>1, <1>2, <1>4 DEF ClusterTyped
<1> QED
  BY <1>5, <1>6, <1>7 DEF ClusterInv

LEMMA ClusterHealthyKeeps ==
    ASSUME IsFiniteSet(AgentTasks), ClusterInv, NEW t \in AgentTasks, Cluster!Healthy(t) PROVE ClusterInv'
<1>1. ClusterTyped /\ IntervalInv /\ run[t].pc = "health" /\ RunStarts(run[t])
  BY DEF ClusterInv, Cluster!Healthy, Cluster!At, RunStarts
<1>2. UNCHANGED <<node, attempts, timer, polling, disturbed, shutdowns>>
  BY DEF Cluster!Healthy, Cluster!clusterVars
<1>3. ASSUME initialized' \in BOOLEAN, brain' \in BrainStates, mingled' \in BOOLEAN, BrainInv', RoomToAsk',
             NEW r \in AgentRun, run' = [run EXCEPT ![t] = r], ~RunStarts(r)
      PROVE  ClusterInv'
  <2>1. IntervalInv'
    BY <1>1, <1>2, <1>3, IntervalHealthy
  <2>2. ClusterTyped'
    BY <1>1, <1>2, <1>3 DEF ClusterTyped
  <2> QED
    BY <1>3, <2>1, <2>2 DEF ClusterInv
<1>4. CASE initialized' = TRUE /\ Cluster!Execute(t)
  <2>1. \E r \in AgentRun : run' = [run EXCEPT ![t] = r] /\ ~RunStarts(r)
    BY <1>1, <1>4, ExecuteKeepsBrain DEF RunStarts
  <2>2. brain' \in BrainStates /\ mingled' \in BOOLEAN /\ BrainInv' /\ RoomToAsk' /\ initialized' \in BOOLEAN
    BY <1>1, <1>4, ExecuteKeepsBrain
  <2> QED
    BY <1>3, <2>1, <2>2
<1>5. CASE Cluster!Goto(t, "failed") /\ UNCHANGED <<initialized, brain, mingled>>
  <2>1. \E r \in AgentRun : run' = [run EXCEPT ![t] = r] /\ ~RunStarts(r)
    BY <1>1, <1>5, WaitsKeepBrain DEF RunStarts
  <2>2. BrainInv' /\ RoomToAsk'
    BY <1>1, <1>5, WaitsKeepBrain
  <2>3. brain' \in BrainStates /\ mingled' \in BOOLEAN /\ initialized' \in BOOLEAN
    BY <1>1, <1>5 DEF ClusterTyped
  <2> QED
    BY <1>3, <2>1, <2>2, <2>3
<1> QED
  BY <1>4, <1>5 DEF Cluster!Healthy

\* A step of a task that is being executed
LEMMA ExecutingKeeps ==
    ASSUME ClusterInv, NEW t \in AgentTasks, RunExecutes(run[t]),
           UNCHANGED <<node, attempts, timer, polling, initialized, disturbed, shutdowns, mingled>>,
           NEW r \in AgentRun, run' = [run EXCEPT ![t] = r], ~RunStarts(r),
           brain' \in BrainStates, BrainInv', RoomToAsk'
    PROVE  ClusterInv'
<1>1. ClusterTyped /\ IntervalInv /\ r.pc \notin {"polling", "waiting", "health"}
  BY DEF ClusterInv, RunStarts
<1>2. IntervalInv'
  BY <1>1, IntervalStays
<1>3. ClusterTyped'
  BY <1>1 DEF ClusterTyped
<1> QED
  BY <1>2, <1>3 DEF ClusterInv

LEMMA ClusterAnsweredKeeps ==
    ASSUME IsFiniteSet(AgentTasks), ClusterInv, NEW t \in AgentTasks, Cluster!Answered(t) PROVE ClusterInv'
<1>1. ClusterTyped /\ BrainInv /\ RoomToAsk /\ run[t].pc = "asking" /\ RunExecutes(run[t])
  BY DEF ClusterInv, Cluster!Answered, Cluster!At, RunExecutes
<1>2. UNCHANGED <<node, attempts, timer, polling, initialized, disturbed, shutdowns, mingled>>
  BY DEF Cluster!Answered, Cluster!clusterVars, Cluster!lifeVars
<1>3. brain \in BrainStates /\ run[t] \in AgentRun /\ run \in [AgentTasks -> AgentRun]
  BY <1>1 DEF ClusterTyped
<1>4. run[t].spent \in Nat /\ run[t].spent + 0 = run[t].spent
  BY <1>3 DEF AgentRun
<1>5. mingled = FALSE => brain = [answer |-> {}, iteration |-> run[t].asked, cost |-> run[t].spent]
  BY <1>1 DEF BrainInv
<1>6. mingled = FALSE => brain.answer = {} /\ brain.iteration = run[t].asked /\ brain.cost = run[t].spent
  BY <1>5
<1>7. ASSUME NEW now \in BrainStates, Cluster!GoOn(t, now, 0), now.iteration = brain.iteration, now.cost = brain.cost,
             now.answer = brain.answer \/ now.answer = {t}
      PROVE  ClusterInv'
  <2>1. mingled = FALSE => /\ now.answer \in {{}, {t}}
                           /\ now.iteration = run[t].asked /\ now.cost = run[t].spent + 0
    BY <1>4, <1>6, <1>7
  <2>2. \A u \in now.answer : u = t \/ u \in brain.answer
    BY <1>7
  <2>3. PICK r \in AgentRun : run' = [run EXCEPT ![t] = r] /\ ~RunStarts(r)
    BY <1>1, <1>2, <1>7, <2>1, <2>2, GoOnKeepsBrain
  <2>4. brain' \in BrainStates /\ BrainInv' /\ RoomToAsk'
    BY <1>1, <1>2, <1>7, <2>1, <2>2, GoOnKeepsBrain
  <2> QED
    BY <1>1, <1>2, <2>3, <2>4, ExecutingKeeps
<1>8. CASE Cluster!GoOn(t, [brain EXCEPT !.answer = {t}], 0)
  <2>1. PICK now : now = [brain EXCEPT !.answer = {t}]
    OBVIOUS
  <2>2. /\ now \in BrainStates /\ now.answer = {t} /\ now.iteration = brain.iteration /\ now.cost = brain.cost
    BY <1>3, <2>1 DEF BrainStates
  <2>3. Cluster!GoOn(t, now, 0)
    BY <1>8, <2>1
  <2> QED
    BY <1>7, <2>2, <2>3
<1>9. CASE Cluster!GoOn(t, brain, 0)
  BY <1>3, <1>7, <1>9
<1>10. CASE Cluster!Goto(t, "tool") /\ UNCHANGED brain
  <2>1. PICK r : r = [run[t] EXCEPT !.pc = "tool"]
    OBVIOUS
  <2>2. /\ r \in AgentRun /\ r.pc = "tool" /\ r.asked = run[t].asked /\ r.spent = run[t].spent
        /\ r.result = run[t].result /\ run' = [run EXCEPT ![t] = r]
    BY <1>3, <1>10, <2>1 DEF AgentRun, Cluster!Goto
  <2>3. RunExecutes(r) /\ ~RunStarts(r) /\ r.asked > 0 /\ r.asked >= run[t].asked
    BY <1>1, <1>3, <2>2 DEF RunExecutes, RunStarts, BrainInv, AgentRun
  <2>4. brain' \in BrainStates /\ brain'.iteration = brain.iteration
    BY <1>3, <1>10
  <2>5. RoomToAsk'
    BY <1>1, <2>2, <2>4, RoomStep
  <2>6. \A u \in r.result.answer \cup brain'.answer : run[u].asked > 0
    BY <1>1, <1>10, <2>2 DEF BrainInv
  <2>7. mingled' = FALSE => /\ mingled = FALSE
                            /\ \A u \in AgentTasks \ {t} : ~RunExecutes(run[u])
                            /\ brain' = [answer |-> {}, iteration |-> r.asked, cost |-> r.spent]
    <3>1. mingled' = FALSE => mingled = FALSE /\ \A u \in AgentTasks \ {t} : ~RunExecutes(run[u])
      BY <1>1, <1>2 DEF BrainInv
    <3> QED
      BY <3>1, <1>5, <1>10, <2>2
  <2>8. BrainInv'
    BY <1>1, <2>2, <2>3, <2>4, <2>6, <2>7, BrainStep DEF RunStarts
  <2> QED
    BY <1>1, <1>2, <2>2, <2>3, <2>4, <2>5, <2>8, ExecutingKeeps
<1> QED
  BY <1>8, <1>9, <1>10 DEF Cluster!Answered

LEMMA ClusterToolKeeps ==
    ASSUME IsFiniteSet(AgentTasks), ClusterInv, NEW t \in AgentTasks, Cluster!ToolExecuted(t) PROVE ClusterInv'
<1>1. ClusterTyped /\ BrainInv /\ run[t].pc = "tool" /\ RunExecutes(run[t])
  BY DEF ClusterInv, Cluster!ToolExecuted, Cluster!At, RunExecutes
<1>2. UNCHANGED <<node, attempts, timer, polling, initialized, disturbed, shutdowns, mingled>>
  BY DEF Cluster!ToolExecuted, Cluster!clusterVars, Cluster!lifeVars
<1>3. brain \in BrainStates /\ run[t] \in AgentRun
  BY <1>1 DEF ClusterTyped
<1>4. PICK cost \in 0..1 : Cluster!GoOn(t, [brain EXCEPT !.cost = @ + cost], cost)
  BY DEF Cluster!ToolExecuted
<1>5. PICK now : now = [brain EXCEPT !.cost = @ + cost]
  OBVIOUS
<1>6. /\ now \in BrainStates /\ now.answer = brain.answer /\ now.iteration = brain.iteration
      /\ now.cost = brain.cost + cost
  BY <1>3, <1>5 DEF BrainStates
<1>7. Cluster!GoOn(t, now, cost)
  BY <1>4, <1>5
<1>8. mingled = FALSE => brain = [answer |-> {}, iteration |-> run[t].asked, cost |-> run[t].spent]
  BY <1>1 DEF BrainInv
<1>9. mingled = FALSE => /\ now.answer \in {{}, {t}}
                         /\ now.iteration = run[t].asked /\ now.cost = run[t].spent + cost
  BY <1>6, <1>8
<1>10. \A u \in now.answer : u = t \/ u \in brain.answer
  BY <1>6
<1>11. cost \in Nat
  OBVIOUS
<1>12. PICK r \in AgentRun : run' = [run EXCEPT ![t] = r] /\ ~RunStarts(r)
  BY <1>1, <1>2, <1>6, <1>7, <1>9, <1>10, <1>11, GoOnKeepsBrain
<1>13. brain' \in BrainStates /\ BrainInv' /\ RoomToAsk'
  BY <1>1, <1>2, <1>6, <1>7, <1>9, <1>10, <1>11, GoOnKeepsBrain
<1> QED
  BY <1>1, <1>2, <1>12, <1>13, ExecutingKeeps

LEMMA ClusterAbortedKeeps ==
    ASSUME IsFiniteSet(AgentTasks), ClusterInv, NEW t \in AgentTasks, Cluster!Aborted(t) PROVE ClusterInv'
<1>1. ClusterTyped /\ BrainInv /\ RoomToAsk /\ RunExecutes(run[t])
  BY DEF ClusterInv, Cluster!Aborted, RunExecutes, Cluster!Executing
<1>2. UNCHANGED <<node, attempts, timer, polling, initialized, disturbed, shutdowns, brain, mingled>>
  BY DEF Cluster!Aborted, Cluster!clusterVars, Cluster!lifeVars
<1>3. brain \in BrainStates /\ run[t] \in AgentRun /\ run \in [AgentTasks -> AgentRun]
  BY <1>1 DEF ClusterTyped
<1>4. PICK r1 : r1 = [run[t] EXCEPT !.pc = "aborted"]
  OBVIOUS
<1>5. r1 \in AgentRun /\ r1.pc = "aborted" /\ r1.asked = run[t].asked /\ r1.spent = run[t].spent
  BY <1>3, <1>4 DEF AgentRun
<1>6. PICK r : r = [r1 EXCEPT !.result = brain]
  OBVIOUS
<1>7. r \in AgentRun /\ r.pc = "aborted" /\ r.asked = run[t].asked /\ r.spent = run[t].spent /\ r.result = brain
  BY <1>3, <1>5, <1>6 DEF AgentRun
<1>8. run' = [run EXCEPT ![t] = r]
  BY <1>3, <1>4, <1>6 DEF Cluster!Aborted
<1>9. ~RunExecutes(r) /\ ~RunStarts(r) /\ r.asked >= run[t].asked
  BY <1>3, <1>7 DEF RunExecutes, RunStarts, AgentRun
<1>10. RoomToAsk'
  BY <1>1, <1>2, <1>3, <1>7, <1>8, RoomStep
<1>11. \A u \in r.result.answer \cup brain'.answer : run[u].asked > 0
  BY <1>1, <1>2, <1>7 DEF BrainInv
<1>12. mingled = FALSE => r.result = [answer |-> {}, iteration |-> r.asked, cost |-> r.spent]
  BY <1>1, <1>7 DEF BrainInv
<1>13. BrainInv'
  BY <1>1, <1>2, <1>3, <1>7, <1>8, <1>9, <1>11, <1>12, BrainStep
<1> QED
  BY <1>1, <1>2, <1>3, <1>7, <1>8, <1>9, <1>10, <1>13, ExecutingKeeps

LEMMA ClusterStep ==
    ASSUME IsFiniteSet(AgentTasks), ClusterInv, [Cluster!Next]_agentVars PROVE ClusterInv'
<1>1. CASE Cluster!Heartbeat \/ UNCHANGED agentVars
  <2>1. UNCHANGED <<timer, polling, initialized, disturbed, shutdowns, brain, run, mingled>>
    BY <1>1 DEF Cluster!Heartbeat, Cluster!lifeVars, agentVars
  <2>2. node' \in [ClusterNodes -> {"pending", "ready", "error"}] /\ attempts' \in [ClusterNodes -> 0..3]
    <3>1. CASE UNCHANGED agentVars
      BY <3>1 DEF agentVars, ClusterInv, ClusterTyped
    <3> QED
      BY <1>1, <3>1, PollKeepsTypes DEF Cluster!Heartbeat, ClusterInv
  <2>3. IntervalInv' /\ BrainInv' /\ RoomToAsk'
    BY <2>1 DEF ClusterInv, IntervalInv, BrainInv, RoomToAsk
  <2>4. ClusterTyped'
    BY <2>1, <2>2 DEF ClusterInv, ClusterTyped
  <2> QED
    BY <2>3, <2>4 DEF ClusterInv
<1>2. CASE Cluster!Shutdown
  <2>1. UNCHANGED <<node, attempts, brain, run, mingled>> /\ timer' = FALSE /\ initialized' = FALSE
        /\ disturbed' \in BOOLEAN /\ shutdowns < 1 /\ shutdowns' = shutdowns + 1
    BY <1>2 DEF Cluster!Shutdown, Cluster!clusterVars
  <2>2. IntervalInv' /\ polling' \in Nat
    BY <1>2, IntervalShutdown DEF ClusterInv
  <2>3. BrainInv' /\ RoomToAsk'
    BY <2>1 DEF ClusterInv, BrainInv, RoomToAsk
  <2>4. shutdowns' \in 0..1
    BY <2>1 DEF ClusterInv, ClusterTyped
  <2>5. ClusterTyped'
    BY <2>1, <2>2, <2>4 DEF ClusterInv, ClusterTyped
  <2> QED
    BY <2>2, <2>3, <2>5 DEF ClusterInv
<1>3. ASSUME NEW t \in AgentTasks,
             \/ Cluster!Run(t) \/ Cluster!Started(t) \/ Cluster!Waited(t) \/ Cluster!Healthy(t)
             \/ Cluster!Answered(t) \/ Cluster!ToolExecuted(t) \/ Cluster!Aborted(t)
      PROVE  ClusterInv'
  BY <1>3, ClusterRunKeeps, ClusterStartedKeeps, ClusterWaitedKeeps, ClusterHealthyKeeps,
     ClusterAnsweredKeeps, ClusterToolKeeps, ClusterAbortedKeeps
<1> QED
  BY <1>1, <1>2, <1>3 DEF Cluster!Next

LEMMA ClusterBegins == ASSUME Cluster!Init PROVE ClusterInv
<1>1. \A t \in AgentTasks : run[t].pc = "idle" /\ run[t].asked = 0 /\ run[t].spent = 0
                            /\ run[t].result.answer = {}
  BY DEF Cluster!Init, Cluster!NotRun, Cluster!FreshBrain, Cluster!NoTask
<1>2. Cluster!FreshBrain \in BrainStates /\ Cluster!FreshBrain.answer = {}
  BY DEF Cluster!FreshBrain, Cluster!NoTask, BrainStates
<1>3. Cluster!NotRun \in AgentRun
  BY <1>2 DEF Cluster!NotRun, AgentRun
<1>4. run \in [AgentTasks -> AgentRun] /\ brain \in BrainStates /\ brain.answer = {}
  BY <1>2, <1>3 DEF Cluster!Init
<1>5. ClusterTyped
  <2>1. node \in [ClusterNodes -> {"pending", "ready", "error"}] /\ attempts \in [ClusterNodes -> 0..3]
    BY DEF Cluster!Init
  <2>2. timer \in BOOLEAN /\ initialized \in BOOLEAN /\ mingled \in BOOLEAN /\ disturbed \in BOOLEAN
    BY DEF Cluster!Init
  <2>3. polling \in Nat /\ shutdowns \in 0..1
    BY DEF Cluster!Init
  <2> QED
    BY <1>4, <2>1, <2>2, <2>3 DEF ClusterTyped
<1>6. IntervalInv
  BY <1>1 DEF IntervalInv, Cluster!Init, RunStarts
<1>7. BrainInv
  BY <1>1, <1>4 DEF BrainInv, RunStarts, RunExecutes
<1> QED
  BY <1>1, <1>5, <1>6, <1>7 DEF ClusterInv, RoomToAsk

LEMMA SameSumOnSet == ASSUME NEW f, NEW S PROVE Cluster!SumFunctionOnSet(f, S) = SumFunctionOnSet(f, S)
BY DEF Cluster!SumFunctionOnSet, SumFunctionOnSet,
       Cluster!FoldFunctionOnSet, FoldFunctionOnSet, Cluster!MapThenFoldSet, MapThenFoldSet

LEMMA ClusterKept ==
    ASSUME IsFiniteSet(AgentTasks), ClusterInv PROVE Cluster!TypeOK /\ Cluster!AgentSound
<1>1. run \in [AgentTasks -> AgentRun] /\ brain \in BrainStates /\ ClusterTyped /\ BrainInv
  BY DEF ClusterInv, ClusterTyped
<1>2. Cluster!TypeOK
  <2>1. \A t \in AgentTasks : run[t].pc \in {"idle", "failed", "answered", "aborted"} \cup Cluster!Starting \cup Cluster!Executing
    BY <1>1 DEF AgentRun, Cluster!Starting, Cluster!Executing
  <2>2. brain.answer \in SUBSET AgentTasks /\ brain.iteration \in 0..2 /\ brain.cost \in Nat
    BY <1>1 DEF BrainStates
  <2> QED
    BY <1>1, <2>1, <2>2 DEF Cluster!TypeOK, ClusterTyped
<1>3. Cluster!OneInterval
  <2>1. ASSUME ~disturbed PROVE (initialized => timer) /\ polling = IF timer THEN 1 ELSE 0
    <3>1. disturbed = FALSE /\ (timer = TRUE \/ timer = FALSE) /\ (initialized = TRUE \/ initialized = FALSE)
      BY <1>1, <2>1 DEF ClusterTyped
    <3>2. timer = TRUE => polling = 1
      BY <3>1 DEF ClusterInv, IntervalInv
    <3>3. timer = FALSE => polling = 0
      BY <3>1 DEF ClusterInv, IntervalInv
    <3>4. initialized = TRUE => timer = TRUE
      BY <3>1 DEF ClusterInv, IntervalInv
    <3> QED
      BY <3>1, <3>2, <3>3, <3>4
  <2> QED
    BY <2>1 DEF Cluster!OneInterval
<1>4. ASSUME ~mingled, NEW t \in AgentTasks, run[t].pc \in {"answered", "aborted"}
      PROVE  run[t].result = [answer |-> IF run[t].pc = "answered" THEN {t} ELSE Cluster!NoTask,
                              iteration |-> run[t].asked, cost |-> run[t].spent]
  <2>1. mingled = FALSE
    BY <1>1, <1>4 DEF ClusterTyped
  <2> QED
    BY <1>1, <1>4, <2>1 DEF BrainInv, Cluster!NoTask
<1>5. ASSUME NEW t \in AgentTasks, run[t].pc = "answered"
      PROVE  \E u \in run[t].result.answer : run[u].asked > 0
  BY <1>1, <1>5 DEF BrainInv
<1> DEFINE begun == {t \in AgentTasks : run[t].asked > 0}
           af == [t \in AgentTasks |-> run[t].asked]
           of == [t \in AgentTasks |-> 1]
           ab == [t \in begun |-> run[t].asked]
           ob == [t \in begun |-> 1]
           all == [t \in AgentTasks |-> AskedOf(run[t])]
           one == [t \in AgentTasks |-> BegunOf(run[t])]
<1>6. IsFiniteSet(begun) /\ begun \in SUBSET AgentTasks
  BY FS_Subset
<1>7. /\ ab \in [begun -> Int] /\ ob \in [begun -> Int]
      /\ all \in [AgentTasks -> Int] /\ one \in [AgentTasks -> Int]
      /\ \A t \in begun : af[t] = ab[t] /\ of[t] = ob[t] /\ all[t] = ab[t] /\ one[t] = ob[t]
      /\ \A t \in AgentTasks \ begun : all[t] = 0 /\ one[t] = 0
      /\ DOMAIN ab = begun /\ DOMAIN ob = begun
  BY <1>1 DEF AskedOf, BegunOf, AgentRun
<1>8. SumFunction(all) = SumFunction(ab) /\ SumFunction(one) = SumFunction(ob)
  <2> HIDE DEF begun, af, of, ab, ob, all, one
  <2>1. SumFunction(all) = SumFunction(ab)
    BY <1>6, <1>7, SumOfSupport
  <2>2. SumFunction(one) = SumFunction(ob)
    BY <1>6, <1>7, SumOfSupport
  <2> QED
    BY <2>1, <2>2
<1>9. /\ Cluster!SumFunctionOnSet(af, begun) = SumFunction(all)
      /\ Cluster!SumFunctionOnSet(of, begun) = SumFunction(one)
  <2> HIDE DEF begun, af, of, ab, ob, all, one
  <2>1. SumFunctionOnSet(af, begun) = SumFunctionOnSet(ab, begun) /\ SumFunctionOnSet(of, begun) = SumFunctionOnSet(ob, begun)
    BY <1>6, <1>7, SumCongruence
  <2> QED
    BY <1>7, <1>8, <2>1, SameSumOnSet DEF SumFunction
<1>10. SumFunction(all) <= 2 * SumFunction(one)
  <2>1. SumFunction(all) \in Nat /\ SumFunction(one) \in Nat
    BY <1>1, RunCounts
  <2>2. CASE \A t \in AgentTasks : run[t].asked = 0
    <3>1. \A t \in AgentTasks : all[t] = 0
      BY <2>2 DEF AskedOf
    <3>2. SumFunction(all) = 0
      <4> HIDE DEF begun, af, of, ab, ob, all, one
      <4> QED
        BY <1>7, <3>1, SumOfZeros
    <3> HIDE DEF begun, af, of, ab, ob, all, one
    <3> QED
      BY <2>1, <3>2
  <2>3. CASE SumFunction(all) + 2 <= 2 * SumFunction(one) + brain.iteration
    <3>1. PICK i \in 0..2 : i = brain.iteration
      BY <1>1 DEF BrainStates
    <3> HIDE DEF begun, af, of, ab, ob, all, one
    <3> QED
      BY <2>1, <2>3, <3>1
  <2> QED
    BY <2>2, <2>3 DEF ClusterInv, RoomToAsk
<1>11. Cluster!AnswersOwn
  <2>1. Cluster!SumFunctionOnSet(af, begun) <= 2 * Cluster!SumFunctionOnSet(of, begun)
    <3> HIDE DEF begun, af, of, ab, ob, all, one
    <3> QED
      BY <1>9, <1>10
  <2> QED
    BY <1>4, <1>5, <2>1 DEF Cluster!AnswersOwn
<1> QED
  BY <1>2, <1>3, <1>11 DEF Cluster!AgentSound

-----------------------------------------------------------------------------
\* AgentChains: topologicalSort of phantom-cash and cdp-agent, for every set of dependencies of
\* the run, and what the tasks that call in its order pay.

\* The numbers that are reached from 0 one by one
LEMMA OneByOne ==
    ASSUME NEW n \in Nat, NEW T, 0 \in T, \A i \in 0..(n - 1) : i \in T => i + 1 \in T
    PROVE  \A i \in 0..n : i \in T
<1> DEFINE Bad == {i \in 0..n : i \notin T}
<1>1. Bad = {}
  <2> SUFFICES ASSUME Bad # {} PROVE FALSE
    OBVIOUS
  <2>1. PICK m \in Bad : \A i \in Bad : m <= i
    <3> HIDE DEF Bad
    <3>1. Bad \in SUBSET Nat
      BY DEF Bad
    <3> QED
      BY <3>1, SmallestNumber
  <2>2. m # 0 /\ m - 1 \in 0..(n - 1) /\ m - 1 \in 0..n
    OBVIOUS
  <2>3. m - 1 \in T
    BY <2>1, <2>2
  <2> QED
    BY <2>2, <2>3
<1> QED
  BY <1>1

LEMMA LargestNumber ==
    ASSUME NEW n \in Nat, NEW s \in SUBSET (1..n), s # {}
    PROVE  Agents!Max(s) \in s /\ \A y \in s : Agents!Max(s) >= y
<1> DEFINE C == {n - x : x \in s}
<1>1. PICK m \in C : \A i \in C : m <= i
  <2>0. \A x \in s : x \in 1..n /\ n - x \in Nat
    OBVIOUS
  <2>1. C \in SUBSET Nat /\ C # {}
    BY <2>0
  <2> HIDE DEF C
  <2> QED
    BY <2>1, SmallestNumber
<1>2. PICK x \in s : m = n - x
  BY <1>1
<1>3. ASSUME NEW y \in s PROVE x >= y
  <2>1. n - y \in C /\ x \in 1..n /\ y \in 1..n
    OBVIOUS
  <2>2. m <= n - y
    BY <1>1, <2>1
  <2> QED
    BY <1>2, <2>1, <2>2
<1>4. \E z \in s : \A y \in s : z >= y
  BY <1>3
<1> QED
  BY <1>4 DEF Agents!Max

-----------------------------------------------------------------------------
\* The fold that visits a sequence of steps

\* visit of a dependency, if there is such a step
Follow(visit, D, r, d) == IF d \in D THEN visit[d][r] ELSE r

\* The fold of topologicalSort ...
FoldOf(visit, D, base, seq) ==
    Agents!FoldLeft(LAMBDA r, d : IF d \in D THEN visit[d][r] ELSE r, base, seq)

\* ... as a function of the indices that are behind, ...
IsFold(visit, D, base, seq, S, it) ==
    it = [s \in SUBSET S |-> IF s = {} THEN base
                             ELSE Follow(visit, D, it[s \ {Agents!Max(s)}], seq[Agents!Max(s)])]

LEMMA FoldsAgree ==
    ASSUME NEW visit, NEW D, NEW base, NEW seq, NEW N, IsFiniteSet(N),
           \A t \in SUBSET N : t # {} => Agents!Max(t) \in t,
           NEW A \in SUBSET N, NEW B \in SUBSET N, NEW a, NEW b,
           IsFold(visit, D, base, seq, A, a), IsFold(visit, D, base, seq, B, b),
           NEW s, s \subseteq A, s \subseteq B
    PROVE  a[s] = b[s]
<1> DEFINE Bad == {t \in SUBSET A : t \subseteq B /\ a[t] # b[t]}
<1>1. Bad = {}
  <2> SUFFICES ASSUME Bad # {} PROVE FALSE
    OBVIOUS
  <2>1. PICK m \in Bad : \A t \in Bad : ~(t \subseteq m /\ t # m)
    <3> HIDE DEF Bad
    <3>1. Bad \in SUBSET (SUBSET N)
      BY DEF Bad
    <3> QED
      BY <3>1, SmallestSet
  <2>2. m # {}
    BY DEF IsFold
  <2>3. Agents!Max(m) \in m
    BY <2>2
  <2>4. a[m \ {Agents!Max(m)}] = b[m \ {Agents!Max(m)}]
    BY <2>1, <2>3
  <2>5. /\ a[m] = Follow(visit, D, a[m \ {Agents!Max(m)}], seq[Agents!Max(m)])
        /\ b[m] = Follow(visit, D, b[m \ {Agents!Max(m)}], seq[Agents!Max(m)])
    BY <2>2 DEF IsFold
  <2> QED
    BY <2>4, <2>5
<1> QED
  BY <1>1

LEMMA FoldExists ==
    ASSUME NEW visit, NEW D, NEW base, NEW seq, NEW N, IsFiniteSet(N),
           \A t \in SUBSET N : t # {} => Agents!Max(t) \in t,
           NEW S \in SUBSET N
    PROVE  \E it : IsFold(visit, D, base, seq, S, it)
<1> DEFINE Bad == {t \in SUBSET S : ~ \E it : IsFold(visit, D, base, seq, t, it)}
<1>1. Bad = {}
  <2> SUFFICES ASSUME Bad # {} PROVE FALSE
    OBVIOUS
  <2>1. PICK m \in Bad : \A t \in Bad : ~(t \subseteq m /\ t # m)
    <3> HIDE DEF Bad
    <3>1. Bad \in SUBSET (SUBSET N)
      BY DEF Bad
    <3> QED
      BY <3>1, SmallestSet
  <2> DEFINE It(s) == CHOOSE it : IsFold(visit, D, base, seq, s, it)
             Less(s) == s \ {Agents!Max(s)}
             G == [s \in SUBSET m |-> IF s = {} THEN base
                                      ELSE Follow(visit, D, It(Less(s))[Less(s)], seq[Agents!Max(s)])]
  <2>2. ASSUME NEW s \in SUBSET m, s # m
        PROVE  IsFold(visit, D, base, seq, s, It(s))
    <3>1. s \notin Bad /\ s \in SUBSET S
      BY <2>1, <2>2
    <3>2. \E it : IsFold(visit, D, base, seq, s, it)
      BY <3>1
    <3> QED
      BY <3>2
  <2>3. ASSUME NEW s \in SUBSET m, s # m
        PROVE  It(s)[s] = G[s]
    <3>1. IsFold(visit, D, base, seq, s, It(s))
      BY <2>2, <2>3
    <3>2. CASE s = {}
      BY <3>1, <3>2 DEF IsFold
    <3>3. CASE s # {}
      <4> DEFINE r == Less(s)
      <4>1. Agents!Max(s) \in s
        BY <3>3
      <4>2. r \in SUBSET m /\ r # m /\ r \subseteq s /\ s \in SUBSET N /\ r \in SUBSET N
        BY <4>1
      <4>3. IsFold(visit, D, base, seq, r, It(r))
        BY <2>2, <4>2
      <4>5. It(s)[r] = It(r)[r]
        <5> HIDE DEF r, It, Less
        <5> QED
          BY <3>1, <4>2, <4>3, FoldsAgree
      <4>6. It(s)[s] = Follow(visit, D, It(s)[r], seq[Agents!Max(s)])
        <5> HIDE DEF It
        <5> QED
          BY <3>1, <3>3 DEF IsFold
      <4>7. G[s] = Follow(visit, D, It(r)[r], seq[Agents!Max(s)])
        BY <3>3
      <4> QED
        BY <4>5, <4>6, <4>7
    <3> QED
      BY <3>2, <3>3
  <2>4. ASSUME NEW s \in SUBSET m, s # {}
        PROVE  It(Less(s))[Less(s)] = G[Less(s)]
    <3>1. Agents!Max(s) \in s
      BY <2>4
    <3>2. Less(s) \in SUBSET m /\ Less(s) # m
      BY <3>1
    <3> HIDE DEF Less, G, It
    <3> QED
      BY <2>3, <3>2
  <2>5. IsFold(visit, D, base, seq, m, G)
    <3>1. ASSUME NEW s \in SUBSET m
          PROVE  G[s] = IF s = {} THEN base ELSE Follow(visit, D, G[Less(s)], seq[Agents!Max(s)])
      <4>1. CASE s = {}
        BY <4>1
      <4>2. CASE s # {}
        <5>1. G[s] = Follow(visit, D, It(Less(s))[Less(s)], seq[Agents!Max(s)])
          BY <4>2
        <5> HIDE DEF G, It, Less
        <5> QED
          BY <4>2, <5>1, <2>4
      <4> QED
        BY <4>1, <4>2
    <3>2. G = [s \in SUBSET m |-> G[s]]
      OBVIOUS
    <3> HIDE DEF G
    <3> QED
      BY <3>1, <3>2 DEF IsFold
  <2> QED
    BY <2>1, <2>5
<1> QED
  BY <1>1

\* The fold, one step of the sequence after the other
LEMMA FoldSteps ==
    ASSUME NEW visit, NEW D, NEW base, NEW n \in Nat, NEW seq, DOMAIN seq = 1..n
    PROVE  \E g : /\ g[0] = base
                  /\ \A i \in 0..(n - 1) : g[i + 1] = Follow(visit, D, g[i], seq[i + 1])
                  /\ FoldOf(visit, D, base, seq) = g[n]
<1> DEFINE it == CHOOSE it : IsFold(visit, D, base, seq, 1..n, it)
           g == [i \in 0..n |-> it[1..i]]
<1>1. IsFold(visit, D, base, seq, 1..n, it)
  <2>1. IsFiniteSet(1..n) /\ \A t \in SUBSET (1..n) : t # {} => Agents!Max(t) \in t
    <3>1. IsFiniteSet(1..n)
      BY FS_Interval
    <3>2. \A t \in SUBSET (1..n) : t # {} => Agents!Max(t) \in t
      BY LargestNumber
    <3> QED
      BY <3>1, <3>2
  <2>2. \E f : IsFold(visit, D, base, seq, 1..n, f)
    BY <2>1, FoldExists
  <2> QED
    BY <2>2
<1>2. FoldOf(visit, D, base, seq) = it[1..n]
  BY DEF FoldOf, Agents!FoldLeft, Agents!MapThenFoldSet, IsFold, Follow
<1> HIDE DEF it
<1>3. it[{}] = base
  BY <1>1 DEF IsFold
<1>4. ASSUME NEW i \in 0..(n - 1)
      PROVE  it[1..(i + 1)] = Follow(visit, D, it[1..i], seq[i + 1])
  <2>1. 1..(i + 1) \in SUBSET (1..n) /\ 1..(i + 1) # {} /\ i + 1 \in 1..(i + 1)
    <3>1. i \in Nat /\ i + 1 <= n
      OBVIOUS
    <3>2. \A x \in 1..(i + 1) : x \in 1..n
      BY <3>1
    <3>3. i + 1 \in 1..(i + 1)
      BY <3>1
    <3>4. 1..(i + 1) \in SUBSET (1..n)
      BY <3>2, Zenon
    <3> QED
      BY <3>3, <3>4
  <2>2. Agents!Max(1..(i + 1)) \in 1..(i + 1) /\ \A y \in 1..(i + 1) : Agents!Max(1..(i + 1)) >= y
    BY <2>1, LargestNumber
  <2>3. Agents!Max(1..(i + 1)) = i + 1
    BY <2>1, <2>2
  <2>4. (1..(i + 1)) \ {i + 1} = 1..i
    OBVIOUS
  <2>5. it[1..(i + 1)] = Follow(visit, D, it[(1..(i + 1)) \ {Agents!Max(1..(i + 1))}], seq[Agents!Max(1..(i + 1))])
    BY <1>1, <2>1 DEF IsFold
  <2> QED
    BY <2>3, <2>4, <2>5
<1>5. 1..0 = {}
  OBVIOUS
<1>6. /\ g[0] = base /\ g[n] = it[1..n]
      /\ \A i \in 0..(n - 1) : g[i + 1] = Follow(visit, D, g[i], seq[i + 1])
  BY <1>3, <1>4, <1>5
<1> QED
  BY <1>2, <1>6

-----------------------------------------------------------------------------
\* The recursive function behind Visit: what it is for a set of steps that are being visited
\* depends on what it is for larger sets.

\* What visiting a step does, when deeper is what visiting the next ones does
VisitOf(deeper, A, search, s) ==
    IF search.cycle \/ s \in Agents!Range(search.sorted) THEN search
    ELSE IF s \in A THEN [search EXCEPT !.cycle = TRUE]
    ELSE [Agents!VisitAll(deeper, search, proposal.deps[s]) EXCEPT !.sorted = Append(@, s)]

\* The body of topologicalSort's visit
VisitBody(visit, A) ==
    [s \in Agents!Ids |-> [search \in Agents!Search |-> VisitOf(visit[A \cup {s}], A, search, s)]]

\* A function that is defined by this body
IsVisit(visit, S) == visit = [A \in S |-> VisitBody(visit, A)]

\* The sets of steps that are being visited below A
Above(A) == {B \in SUBSET Agents!Ids : A \subseteq B}

LEMMA BodySame ==
    ASSUME NEW u, NEW v, NEW A, \A s \in Agents!Ids \ A : u[A \cup {s}] = v[A \cup {s}]
    PROVE  VisitBody(u, A) = VisitBody(v, A)
<1>1. ASSUME NEW search, NEW s \in Agents!Ids
      PROVE  VisitOf(u[A \cup {s}], A, search, s) = VisitOf(v[A \cup {s}], A, search, s)
  <2>1. CASE s \in A
    BY <2>1, Zenon DEF VisitOf
  <2>2. CASE s \notin A
    <3>1. u[A \cup {s}] = v[A \cup {s}]
      BY <2>2
    <3> QED
      BY <3>1, Zenon
  <2> QED
    BY <2>1, <2>2
<1> QED
  BY <1>1, Zenon DEF VisitBody

LEMMA VisitsAgree ==
    ASSUME IsFiniteSet(Agents!Ids), NEW A \in SUBSET Agents!Ids, NEW B \in SUBSET Agents!Ids, NEW a, NEW b,
           IsVisit(a, Above(A)), IsVisit(b, Above(B)), NEW C \in Above(A), C \in Above(B)
    PROVE  a[C] = b[C]
<1> DEFINE Rest(D) == Agents!Ids \ D
           Bad == {t \in SUBSET Agents!Ids : /\ Rest(t) \in Above(A) /\ Rest(t) \in Above(B)
                                             /\ a[Rest(t)] # b[Rest(t)]}
<1>1. Bad = {}
  <2> SUFFICES ASSUME Bad # {} PROVE FALSE
    OBVIOUS
  <2>1. PICK m \in Bad : \A t \in Bad : ~(t \subseteq m /\ t # m)
    <3> HIDE DEF Bad
    <3>1. Bad \in SUBSET (SUBSET Agents!Ids)
      BY DEF Bad
    <3> QED
      BY <3>1, SmallestSet
  <2> DEFINE M == Rest(m)
  <2>2. M \in Above(A) /\ M \in Above(B) /\ a[M] # b[M]
    OBVIOUS
  <2>3. ASSUME NEW s \in Agents!Ids \ M PROVE a[M \cup {s}] = b[M \cup {s}]
    <3> DEFINE t == m \ {s}
    <3>1. s \in m /\ t \in SUBSET Agents!Ids /\ t \subseteq m /\ t # m /\ Rest(t) = M \cup {s}
      OBVIOUS
    <3>2. M \cup {s} \in Above(A) /\ M \cup {s} \in Above(B)
      BY <2>2 DEF Above
    <3> QED
      BY <2>1, <3>1, <3>2
  <2> HIDE DEF M
  <2>4. a[M] = VisitBody(a, M) /\ b[M] = VisitBody(b, M)
    BY <2>2 DEF IsVisit
  <2>5. VisitBody(a, M) = VisitBody(b, M)
    BY <2>3, BodySame
  <2> QED
    BY <2>2, <2>4, <2>5
<1>2. Rest(C) \in SUBSET Agents!Ids /\ Rest(Rest(C)) = C
  BY DEF Above
<1> QED
  BY <1>1, <1>2

LEMMA VisitExists ==
    ASSUME IsFiniteSet(Agents!Ids), NEW A \in SUBSET Agents!Ids
    PROVE  \E v : IsVisit(v, Above(A))
<1> DEFINE Rest(D) == Agents!Ids \ D
           Bad == {t \in SUBSET Agents!Ids : ~ \E v : IsVisit(v, Above(Rest(t)))}
<1>1. Bad = {}
  <2> SUFFICES ASSUME Bad # {} PROVE FALSE
    OBVIOUS
  <2>1. PICK m \in Bad : \A t \in Bad : ~(t \subseteq m /\ t # m)
    <3> HIDE DEF Bad
    <3>1. Bad \in SUBSET (SUBSET Agents!Ids)
      BY DEF Bad
    <3> QED
      BY <3>1, SmallestSet
  <2> DEFINE M == Rest(m)
             It(B) == CHOOSE v : IsVisit(v, Above(B))
             W == [B \in Above(M) |-> It(B)[B]]
             G == [B \in Above(M) |-> VisitBody(W, B)]
  <2>2. M \in SUBSET Agents!Ids /\ ~ \E v : IsVisit(v, Above(M))
    OBVIOUS
  <2>3. ASSUME NEW B \in Above(M), B # M PROVE IsVisit(It(B), Above(B))
    <3>1. B \in SUBSET Agents!Ids /\ M \subseteq B
      BY DEF Above
    <3>2. Rest(B) \in SUBSET Agents!Ids /\ Rest(B) \subseteq m /\ Rest(B) # m /\ Rest(Rest(B)) = B
      BY <3>1, <2>3
    <3>3. Rest(B) \notin Bad
      BY <2>1, <3>2
    <3>4. \E v : IsVisit(v, Above(B))
      BY <3>2, <3>3
    <3> QED
      BY <3>4
  <2>4. ASSUME NEW B \in Above(M), B # M PROVE It(B)[B] = G[B]
    <3>1. B \in SUBSET Agents!Ids /\ M \subseteq B /\ B \in Above(B)
      BY DEF Above
    <3>2. It(B)[B] = VisitBody(It(B), B)
      <4>1. IsVisit(It(B), Above(B))
        BY <2>3, <2>4
      <4> HIDE DEF It
      <4> QED
        BY <3>1, <4>1 DEF IsVisit
    <3>3. ASSUME NEW s \in Agents!Ids \ B PROVE It(B)[B \cup {s}] = W[B \cup {s}]
      <4> DEFINE D == B \cup {s}
      <4>1. D \in Above(M) /\ D # M /\ D \in Above(B) /\ D \in Above(D) /\ D \in SUBSET Agents!Ids
        BY <3>1 DEF Above
      <4>2. IsVisit(It(B), Above(B)) /\ IsVisit(It(D), Above(D))
        BY <2>3, <2>4, <4>1
      <4>3. W[D] = It(D)[D]
        BY <4>1
      <4>4. It(B)[D] = It(D)[D]
        <5> HIDE DEF It, D, M
        <5> QED
          BY <3>1, <4>1, <4>2, VisitsAgree
      <4> HIDE DEF It
      <4> QED
        BY <4>3, <4>4
    <3>4. VisitBody(It(B), B) = VisitBody(W, B)
      <4> HIDE DEF It, W
      <4> QED
        BY <3>3, BodySame
    <3> QED
      BY <3>2, <3>4
  <2>5. ASSUME NEW B \in Above(M) PROVE G[B] = VisitBody(G, B)
    <3>1. ASSUME NEW s \in Agents!Ids \ B PROVE W[B \cup {s}] = G[B \cup {s}]
      <4> DEFINE D == B \cup {s}
      <4>1. D \in Above(M) /\ D # M
        BY DEF Above
      <4>2. W[D] = It(D)[D]
        BY <4>1
      <4>3. It(D)[D] = G[D]
        BY <2>4, <4>1
      <4> HIDE DEF It, G, W
      <4> QED
        BY <4>2, <4>3
    <3>2. G[B] = VisitBody(W, B)
      OBVIOUS
    <3> HIDE DEF G, W
    <3>3. VisitBody(W, B) = VisitBody(G, B)
      BY <3>1, BodySame
    <3> QED
      BY <3>2, <3>3
  <2>6. IsVisit(G, Above(M))
    <3>1. G = [B \in Above(M) |-> G[B]]
      OBVIOUS
    <3> HIDE DEF G, M
    <3> QED
      BY <2>5, <3>1 DEF IsVisit
  <2> QED
    BY <2>2, <2>6
<1>2. Rest(A) \in SUBSET Agents!Ids /\ Rest(Rest(A)) = A
  OBVIOUS
<1> QED
  BY <1>1, <1>2

\* What Visit does, whatever is being visited
LEMMA VisitUnfold ==
    ASSUME IsFiniteSet(Agents!Ids), NEW A \in SUBSET Agents!Ids,
           NEW search \in Agents!Search, NEW s \in Agents!Ids
    PROVE  Agents!Visit[A][s][search] = VisitOf(Agents!Visit[A \cup {s}], A, search, s)
<1>1. Above({}) = SUBSET Agents!Ids /\ {} \in SUBSET Agents!Ids
  BY DEF Above
<1>2. Agents!Visit = CHOOSE v : IsVisit(v, SUBSET Agents!Ids)
  BY Zenon DEF Agents!Visit, IsVisit, VisitBody, VisitOf
<1>3. \E v : IsVisit(v, SUBSET Agents!Ids)
  <2>1. \E v : IsVisit(v, Above({}))
    BY <1>1, VisitExists
  <2> QED
    BY <1>1, <2>1, Zenon
<1>4. IsVisit(Agents!Visit, SUBSET Agents!Ids)
  BY <1>2, <1>3, Zenon
<1>5. Agents!Visit[A] = VisitBody(Agents!Visit, A)
  BY <1>4 DEF IsVisit
<1> QED
  BY <1>5 DEF VisitBody

-----------------------------------------------------------------------------
\* Every step of an order is there once, and after all those that it depends on.
OrderSound(order) ==
    /\ \A i, j \in DOMAIN order : order[i] = order[j] => i = j
    /\ \A i \in DOMAIN order : Agents!DepsOf(order[i]) \cap Agents!Ids \subseteq {order[j] : j \in 1..(i - 1)}

\* What a visit makes of an earlier search, while the steps of A are being visited
Sorted(A, search, r) ==
    /\ r \in Agents!Search
    /\ r.cycle => ~Agents!Acyclic
    /\ ~r.cycle => /\ ~search.cycle
                   /\ OrderSound(r.sorted)
                   /\ Agents!Range(r.sorted) \cap A = {}
                   /\ Agents!Range(search.sorted) \subseteq Agents!Range(r.sorted)

\* A visit extends the order by the step, or finds a cycle.
Visited(A, search, s, r) == Sorted(A, search, r) /\ (~r.cycle => s \in Agents!Range(r.sorted))

LEMMA SortedTrans ==
    ASSUME NEW A, NEW a, NEW b, NEW c, Sorted(A, a, b), Sorted(A, b, c)
    PROVE  Sorted(A, a, c)
BY Zenon DEF Sorted

LEMMA VisitAllSound ==
    ASSUME NEW A, NEW visit, NEW search, Sorted(A, search, search), NEW n \in Nat, NEW seq, DOMAIN seq = 1..n,
           \A d \in Agents!Ids \cap Agents!Range(seq), r \in Agents!Search :
              Sorted(A, search, r) => Visited(A, r, d, visit[d][r])
    PROVE  LET r == Agents!VisitAll(visit, search, seq)
           IN  Sorted(A, search, r) /\ (~r.cycle => Agents!Range(seq) \cap Agents!Ids \subseteq Agents!Range(r.sorted))
<1> DEFINE base == search
           D == Agents!Ids
<1>1. PICK g : /\ g[0] = base
               /\ \A i \in 0..(n - 1) : g[i + 1] = Follow(visit, D, g[i], seq[i + 1])
               /\ FoldOf(visit, D, base, seq) = g[n]
  BY FoldSteps
<1>2. Agents!VisitAll(visit, search, seq) = g[n]
  BY <1>1 DEF Agents!VisitAll, FoldOf
<1> DEFINE Have(i) == ~g[i].cycle => \A j \in 1..i : seq[j] \in Agents!Ids => seq[j] \in Agents!Range(g[i].sorted)
           T == {i \in 0..n : Sorted(A, search, g[i]) /\ Have(i)}
<1>3. 0 \in T
  <2>1. Sorted(A, search, g[0])
    BY <1>1
  <2>2. Have(0)
    OBVIOUS
  <2> HIDE DEF Have
  <2> QED
    BY <2>1, <2>2
<1>4. ASSUME NEW i \in 0..(n - 1), i \in T PROVE i + 1 \in T
  <2> DEFINE d == seq[i + 1]
  <2>1. Sorted(A, search, g[i]) /\ Have(i)
    BY <1>4
  <2>2. i + 1 \in 1..n /\ i + 1 \in 0..n /\ \A j \in 1..(i + 1) : j \in 1..i \/ j = i + 1
    OBVIOUS
  <2>3. g[i + 1] = Follow(visit, D, g[i], d)
    BY <1>1
  <2>4. Sorted(A, search, g[i + 1]) /\ Have(i + 1)
    <3>1. CASE d \in Agents!Ids
      <4>1. d \in Agents!Range(seq)
        BY <2>2 DEF Agents!Range
      <4>2. g[i] \in Agents!Search
        BY <2>1 DEF Sorted
      <4>3. Visited(A, g[i], d, visit[d][g[i]])
        BY <2>1, <3>1, <4>1, <4>2
      <4>4. g[i + 1] = visit[d][g[i]]
        BY <2>3, <3>1 DEF Follow
      <4>5. Sorted(A, g[i], g[i + 1]) /\ (~g[i + 1].cycle => d \in Agents!Range(g[i + 1].sorted))
        BY <4>3, <4>4 DEF Visited
      <4>6. Sorted(A, search, g[i + 1])
        BY <2>1, <4>5, SortedTrans
      <4>7. ~g[i + 1].cycle => ~g[i].cycle /\ Agents!Range(g[i].sorted) \subseteq Agents!Range(g[i + 1].sorted)
        BY <4>5, Zenon DEF Sorted
      <4>8. Have(i + 1)
        BY <2>1, <2>2, <4>5, <4>7
      <4> QED
        BY <4>6, <4>8
    <3>2. CASE d \notin Agents!Ids
      <4>1. g[i + 1] = g[i]
        BY <2>3, <3>2 DEF Follow
      <4> QED
        BY <2>1, <2>2, <3>2, <4>1
    <3> QED
      BY <3>1, <3>2
  <2> HIDE DEF Have
  <2> QED
    BY <2>2, <2>4
<1>5. n \in T
  <2> HIDE DEF T
  <2>1. \A i \in 0..n : i \in T
    BY <1>3, <1>4, OneByOne
  <2> QED
    BY <2>1
<1>6. ~g[n].cycle => Agents!Range(seq) \cap Agents!Ids \subseteq Agents!Range(g[n].sorted)
  <2>1. Have(n)
    BY <1>5
  <2> QED
    BY <2>1 DEF Agents!Range
<1>7. Sorted(A, search, g[n])
  BY <1>5
<1> QED
  BY <1>2, <1>6, <1>7

-----------------------------------------------------------------------------
\* The plan's steps are finitely many, and each has a sequence of dependencies.
WellShaped ==
    /\ IsFiniteSet(Agents!Ids)
    /\ \A s \in Agents!Ids : \E k \in Nat : DOMAIN proposal.deps[s] = 1..k

\* Every step that is being visited depends on another one or on the next one.
Chained(A, s) == \A v \in A : Agents!DepsOf(v) \cap (A \cup {s}) # {}

\* So do all visits below A.
VisitsSound(A) ==
    \A s \in Agents!Ids, search \in Agents!Search :
       Sorted(A, search, search) /\ Chained(A, s) => Visited(A, search, s, Agents!Visit[A][s][search])

\* A step that is appended after those that it depends on
LEMMA AppendSound ==
    ASSUME NEW order \in Seq(Agents!Ids), OrderSound(order), NEW s \in Agents!Ids, s \notin Agents!Range(order),
           Agents!DepsOf(s) \cap Agents!Ids \subseteq Agents!Range(order)
    PROVE  /\ OrderSound(Append(order, s)) /\ Append(order, s) \in Seq(Agents!Ids)
           /\ Agents!Range(Append(order, s)) = Agents!Range(order) \cup {s}
<1> DEFINE n == Len(order)
           q == Append(order, s)
<1>1. n \in Nat /\ DOMAIN order = 1..n /\ q \in Seq(Agents!Ids) /\ DOMAIN q = 1..(n + 1)
  OBVIOUS
<1>2. q[n + 1] = s /\ \A i \in 1..n : q[i] = order[i]
  OBVIOUS
<1> HIDE DEF n, q
<1>3. n + 1 \in 1..(n + 1) /\ \A i \in 1..(n + 1) : i \in 1..n \/ i = n + 1
  BY <1>1
<1>4. \A i \in 1..n : i \in 1..(n + 1)
  BY <1>1
<1>5. Agents!Range(q) = Agents!Range(order) \cup {s}
  BY <1>1, <1>2, <1>3, <1>4 DEF Agents!Range
<1>6. \A i \in 1..n : order[i] # s
  BY <1>1 DEF Agents!Range
<1>7. \A i, j \in DOMAIN q : q[i] = q[j] => i = j
  <2>1. \A i, j \in 1..n : order[i] = order[j] => i = j
    BY <1>1 DEF OrderSound
  <2> QED
    BY <1>1, <1>2, <1>3, <1>6, <2>1
<1>8. ASSUME NEW i \in DOMAIN q PROVE Agents!DepsOf(q[i]) \cap Agents!Ids \subseteq {q[j] : j \in 1..(i - 1)}
  <2>1. CASE i = n + 1
    <3>1. i - 1 = n
      BY <1>1, <2>1
    <3>2. Agents!DepsOf(s) \cap Agents!Ids \subseteq {order[j] : j \in 1..n}
      BY <1>1 DEF Agents!Range
    <3>3. {order[j] : j \in 1..n} \subseteq {q[j] : j \in 1..n}
      BY <1>2
    <3> QED
      BY <1>2, <2>1, <3>1, <3>2, <3>3
  <2>2. CASE i \in 1..n
    <3>1. Agents!DepsOf(order[i]) \cap Agents!Ids \subseteq {order[j] : j \in 1..(i - 1)}
      BY <1>1, <2>2 DEF OrderSound
    <3>2. \A j \in 1..(i - 1) : j \in 1..n
      BY <1>1, <2>2
    <3>3. {order[j] : j \in 1..(i - 1)} \subseteq {q[j] : j \in 1..(i - 1)}
      BY <1>2, <3>2
    <3>4. q[i] = order[i]
      BY <1>2, <2>2
    <3> QED
      BY <3>1, <3>3, <3>4
  <2> QED
    BY <1>1, <1>3, <2>1, <2>2
<1> QED
  BY <1>1, <1>5, <1>7, <1>8 DEF OrderSound, q

LEMMA VisitedCycle ==
    ASSUME NEW A, NEW search, NEW s, NEW w \in Agents!Search, w.cycle, ~Agents!Acyclic
    PROVE  Visited(A, search, s, w)
BY Zenon DEF Sorted, Visited

LEMMA VisitedStep ==
    ASSUME NEW A, NEW search, NEW s, NEW w \in Agents!Search, ~w.cycle, ~search.cycle, OrderSound(w.sorted),
           Agents!Range(w.sorted) \cap A = {}, Agents!Range(search.sorted) \subseteq Agents!Range(w.sorted),
           s \in Agents!Range(w.sorted)
    PROVE  Visited(A, search, s, w)
BY Zenon DEF Sorted, Visited

\* One step deeper
LEMMA VisitDeeper ==
    ASSUME WellShaped, NEW A \in SUBSET Agents!Ids, NEW s \in Agents!Ids, s \notin A, VisitsSound(A \cup {s}),
           NEW search \in Agents!Search, Sorted(A, search, search), Chained(A, s),
           ~search.cycle, s \notin Agents!Range(search.sorted)
    PROVE  Visited(A, search, s, VisitOf(Agents!Visit[A \cup {s}], A, search, s))
<1> DEFINE B == A \cup {s}
           seq == proposal.deps[s]
           r == Agents!VisitAll(Agents!Visit[B], search, seq)
<1>1. PICK k \in Nat : DOMAIN seq = 1..k
  BY DEF WellShaped
<1>2. Sorted(B, search, search)
  BY DEF Sorted
<1>3. ASSUME NEW d \in Agents!Ids \cap Agents!Range(seq), NEW q \in Agents!Search, Sorted(B, search, q)
      PROVE  Visited(B, q, d, Agents!Visit[B][d][q])
  <2>1. Sorted(B, q, q)
    BY <1>3 DEF Sorted
  <2>2. d \in Agents!DepsOf(s)
    BY DEF Agents!DepsOf, Agents!DependsOn
  <2>3. Chained(B, d)
    BY <2>2 DEF Chained
  <2> QED
    BY <2>1, <2>3 DEF VisitsSound
<1>4. Sorted(B, search, r) /\ (~r.cycle => Agents!Range(seq) \cap Agents!Ids \subseteq Agents!Range(r.sorted))
  <2> HIDE DEF B, seq
  <2> QED
    BY <1>1, <1>2, <1>3, VisitAllSound
<1>5. VisitOf(Agents!Visit[B], A, search, s) = [r EXCEPT !.sorted = Append(@, s)]
  BY Zenon DEF VisitOf
<1> HIDE DEF r
<1>6. r \in Agents!Search
  BY <1>4 DEF Sorted
<1>7. PICK c \in BOOLEAN, order \in Seq(Agents!Ids) : r = [cycle |-> c, sorted |-> order]
  BY <1>6 DEF Agents!Search
<1>8. [r EXCEPT !.sorted = Append(@, s)] = [cycle |-> c, sorted |-> Append(order, s)]
  <2>1. PICK q : q = Append(order, s)
    OBVIOUS
  <2>2. r.sorted = order
    BY <1>7
  <2>3. [r EXCEPT !.sorted = Append(@, s)] = [r EXCEPT !.sorted = q]
    BY <2>1, <2>2, Zenon
  <2>4. [r EXCEPT !.sorted = q] = [cycle |-> c, sorted |-> q]
    BY <1>7
  <2> QED
    BY <2>1, <2>3, <2>4
<1> DEFINE w == [cycle |-> c, sorted |-> Append(order, s)]
<1>9. w \in Agents!Search /\ w.cycle = c /\ w.sorted = Append(order, s) /\ r.cycle = c /\ r.sorted = order
  BY <1>7 DEF Agents!Search
<1>12. SUFFICES Visited(A, search, s, w)
  BY <1>5, <1>8
<1> HIDE DEF w
<1>10. CASE c
  <2>1. r.cycle /\ w.cycle
    BY <1>9, <1>10, Zenon
  <2>2. ~Agents!Acyclic
    BY <1>4, <2>1, Zenon DEF Sorted
  <2> QED
    BY <1>9, <2>1, <2>2, VisitedCycle
<1>11. CASE ~c
  <2>0. ~r.cycle /\ ~w.cycle
    BY <1>9, <1>11, Zenon
  <2>1. OrderSound(order) /\ Agents!Range(order) \cap B = {} /\ Agents!Range(search.sorted) \subseteq Agents!Range(order)
    BY <1>4, <1>9, <2>0, Zenon DEF Sorted
  <2>2. Agents!DepsOf(s) \cap Agents!Ids \subseteq Agents!Range(order)
    BY <1>4, <1>9, <2>0, Zenon DEF Agents!DepsOf, Agents!DependsOn
  <2>3. s \notin Agents!Range(order)
    BY <2>1
  <2>4. /\ OrderSound(Append(order, s))
        /\ Agents!Range(Append(order, s)) = Agents!Range(order) \cup {s}
    BY <2>1, <2>2, <2>3, AppendSound
  <2>5. /\ Agents!Range(Append(order, s)) \cap A = {}
        /\ Agents!Range(search.sorted) \subseteq Agents!Range(Append(order, s))
        /\ s \in Agents!Range(Append(order, s))
    BY <2>1, <2>4
  <2> QED
    BY <1>9, <1>11, <2>0, <2>4, <2>5, VisitedStep
<1> QED
  BY <1>10, <1>11

LEMMA VisitSound ==
    ASSUME WellShaped, NEW A \in SUBSET Agents!Ids
    PROVE  VisitsSound(A)
<1> DEFINE Rest(D) == Agents!Ids \ D
           Bad == {t \in SUBSET Agents!Ids : ~VisitsSound(Rest(t))}
<1>1. Bad = {}
  <2> SUFFICES ASSUME Bad # {} PROVE FALSE
    OBVIOUS
  <2>1. PICK m \in Bad : \A t \in Bad : ~(t \subseteq m /\ t # m)
    <3> HIDE DEF Bad
    <3>1. Bad \in SUBSET (SUBSET Agents!Ids)
      BY DEF Bad
    <3> QED
      BY <3>1, SmallestSet DEF WellShaped
  <2> DEFINE M == Rest(m)
  <2>2. M \in SUBSET Agents!Ids /\ ~VisitsSound(M)
    OBVIOUS
  <2>3. ASSUME NEW s \in Agents!Ids \ M PROVE VisitsSound(M \cup {s})
    <3> DEFINE t == m \ {s}
    <3>1. s \in m /\ t \in SUBSET Agents!Ids /\ t \subseteq m /\ t # m /\ Rest(t) = M \cup {s}
      OBVIOUS
    <3> QED
      BY <2>1, <3>1
  <2> HIDE DEF M
  <2>4. ASSUME NEW s \in Agents!Ids, NEW search \in Agents!Search, Sorted(M, search, search), Chained(M, s)
        PROVE  Visited(M, search, s, Agents!Visit[M][s][search])
    <3>1. Agents!Visit[M][s][search] = VisitOf(Agents!Visit[M \cup {s}], M, search, s)
      BY <2>2, VisitUnfold DEF WellShaped
    <3>2. CASE search.cycle \/ s \in Agents!Range(search.sorted)
      <4>1. Agents!Visit[M][s][search] = search
        BY <3>1, <3>2, Zenon DEF VisitOf
      <4> QED
        BY <2>4, <3>2, <4>1 DEF Visited
    <3>3. CASE ~search.cycle /\ s \notin Agents!Range(search.sorted) /\ s \in M
      <4>1. Agents!Visit[M][s][search] = [search EXCEPT !.cycle = TRUE]
        BY <3>1, <3>3, Zenon DEF VisitOf
      <4>2. PICK c \in BOOLEAN, order \in Seq(Agents!Ids) : search = [cycle |-> c, sorted |-> order]
        BY DEF Agents!Search
      <4>3. Agents!Visit[M][s][search] = [cycle |-> TRUE, sorted |-> order]
        BY <4>1, <4>2
      <4>4. [cycle |-> TRUE, sorted |-> order] \in Agents!Search /\ [cycle |-> TRUE, sorted |-> order].cycle
        BY DEF Agents!Search
      <4>5. ~Agents!Acyclic
        BY <2>2, <2>4, <3>3 DEF Agents!Acyclic, Chained
      <4> QED
        BY <4>3, <4>4, <4>5 DEF Visited, Sorted
    <3>4. CASE ~search.cycle /\ s \notin Agents!Range(search.sorted) /\ s \notin M
      <4>1. VisitsSound(M \cup {s})
        BY <2>3, <3>4
      <4> QED
        BY <2>2, <2>4, <3>1, <3>4, <4>1, VisitDeeper
    <3> QED
      BY <3>2, <3>3, <3>4
  <2> QED
    BY <2>2, <2>4 DEF VisitsSound
<1>2. Rest(A) \in SUBSET Agents!Ids /\ Rest(Rest(A)) = A
  OBVIOUS
<1> QED
  BY <1>1, <1>2

-----------------------------------------------------------------------------
\* An order of all steps of a plan: each once, after all that it depends on
WholeOrder(p, order) ==
    /\ order \in Seq(DOMAIN p.deps) /\ Len(order) = Len(p.deps)
    /\ Agents!Range(order) = DOMAIN p.deps
    /\ \A i, j \in DOMAIN order : order[i] = order[j] => i = j
    /\ \A i \in DOMAIN order : Agents!Range(p.deps[order[i]]) \cap DOMAIN p.deps \subseteq {order[j] : j \in 1..(i - 1)}

\* A sequence that has each number from 1 to n once is that long.
LEMMA AsLong ==
    ASSUME NEW n \in Nat, NEW order \in Seq(1..n), Agents!Range(order) = 1..n,
           \A i, j \in DOMAIN order : order[i] = order[j] => i = j
    PROVE  Len(order) = n
<1> DEFINE k == Len(order)
<1>1. k \in Nat /\ DOMAIN order = 1..k /\ \A i \in 1..k : order[i] \in 1..n
  OBVIOUS
<1>2. order = [i \in 1..k |-> order[i]]
  BY <1>1
<1> HIDE DEF k
<1>3. order \in [1..k -> 1..n]
  BY <1>1, <1>2
<1>4. order \in Bijection(1..k, 1..n)
  <2>1. \A y \in 1..n : \E x \in 1..k : order[x] = y
    BY <1>1 DEF Agents!Range
  <2> QED
    BY <1>1, <1>3, <2>1 DEF Bijection, Injection, Surjection, IsInjective
<1>5. IsFiniteSet(1..k) /\ Cardinality(1..k) = k /\ IsFiniteSet(1..n) /\ Cardinality(1..n) = n
  <2>1. \A a, b \in Int : IsFiniteSet(a..b) /\ Cardinality(a..b) = IF a > b THEN 0 ELSE b - a + 1
    BY FS_Interval
  <2> QED
    BY <1>1, <2>1
<1>6. Cardinality(1..k) = Cardinality(1..n)
  <2>1. ExistsBijection(1..k, 1..n)
    BY <1>4 DEF ExistsBijection
  <2> QED
    BY <1>5, <2>1, FS_Bijection
<1> QED
  BY <1>5, <1>6 DEF k

\* An order of all steps leaves no cycle.
LEMMA OrderAcyclic ==
    ASSUME NEW order \in Seq(Agents!Ids), OrderSound(order), Agents!Range(order) = Agents!Ids
    PROVE  Agents!Acyclic
<1> SUFFICES ASSUME NEW S \in (SUBSET Agents!Ids) \ {{}} PROVE \E s \in S : Agents!DepsOf(s) \cap S = {}
  BY DEF Agents!Acyclic
<1> DEFINE P == {i \in DOMAIN order : order[i] \in S}
<1>1. DOMAIN order \subseteq Nat
  OBVIOUS
<1>2. PICK i \in P : \A j \in P : i <= j
  <2>1. P \in SUBSET Nat /\ P # {}
    BY <1>1 DEF Agents!Range
  <2> HIDE DEF P
  <2> QED
    BY <2>1, SmallestNumber
<1>3. ASSUME NEW d \in Agents!DepsOf(order[i]) \cap S PROVE FALSE
  <2>1. d \in {order[j] : j \in 1..(i - 1)}
    BY <1>3 DEF OrderSound
  <2>2. PICK j \in 1..(i - 1) : d = order[j]
    BY <2>1
  <2>3. j \in DOMAIN order /\ j < i
    OBVIOUS
  <2> QED
    BY <1>2, <2>2, <2>3
<1> QED
  BY <1>3

LEMMA SortingSound ==
    ASSUME WellShaped, NEW n \in Nat, Agents!Ids = 1..n, Len(proposal.deps) = n
    PROVE  /\ Agents!Sorting.cycle <=> ~Agents!Acyclic
           /\ ~Agents!Sorting.cycle => WholeOrder(proposal, Agents!Sorting.sorted)
<1> DEFINE empty == [cycle |-> FALSE, sorted |-> <<>>]
           seq == [i \in Agents!Ids |-> i]
           r == Agents!VisitAll(Agents!Visit[{}], empty, seq)
<1>1. Agents!Sorting = r
  BY DEF Agents!Sorting
<1>2. Sorted({}, empty, empty)
  <2>1. empty \in Agents!Search
    BY DEF Agents!Search
  <2>2. OrderSound(<<>>) /\ Agents!Range(<<>>) \cap {} = {}
    BY DEF OrderSound
  <2>3. ~empty.cycle /\ empty.sorted = <<>>
    OBVIOUS
  <2> HIDE DEF empty
  <2> QED
    BY <2>1, <2>2, <2>3, Zenon DEF Sorted
<1>3. ASSUME NEW d \in Agents!Ids \cap Agents!Range(seq), NEW q \in Agents!Search, Sorted({}, empty, q)
      PROVE  Visited({}, q, d, Agents!Visit[{}][d][q])
  <2>1. Sorted({}, q, q)
    BY <1>3, Zenon DEF Sorted
  <2>2. Chained({}, d) /\ VisitsSound({})
    BY VisitSound DEF Chained
  <2> QED
    BY <2>1, <2>2 DEF VisitsSound
<1>4. DOMAIN seq = 1..n /\ Agents!Range(seq) = Agents!Ids
  BY DEF Agents!Range
<1>5. Sorted({}, empty, r) /\ (~r.cycle => Agents!Range(seq) \cap Agents!Ids \subseteq Agents!Range(r.sorted))
  <2> HIDE DEF seq, empty
  <2> QED
    BY <1>2, <1>3, <1>4, VisitAllSound
<1> HIDE DEF r
<1>6. r \in Agents!Search
  BY <1>5 DEF Sorted
<1>7. r.cycle => ~Agents!Acyclic
  BY <1>5, Zenon DEF Sorted
<1>8. ASSUME ~r.cycle PROVE Agents!Acyclic /\ WholeOrder(proposal, r.sorted)
  <2> DEFINE order == r.sorted
  <2>1. order \in Seq(Agents!Ids)
    BY <1>6 DEF Agents!Search
  <2>2. OrderSound(order) /\ Agents!Ids \subseteq Agents!Range(order)
    BY <1>4, <1>5, <1>8, Zenon DEF Sorted
  <2> HIDE DEF order
  <2>3. Agents!Range(order) = Agents!Ids
    BY <2>1, <2>2 DEF Agents!Range
  <2>4. Agents!Acyclic
    BY <2>1, <2>2, <2>3, OrderAcyclic
  <2>5. \A i, j \in DOMAIN order : order[i] = order[j] => i = j
    BY <2>2 DEF OrderSound
  <2>6. Len(order) = n
    BY <2>1, <2>3, <2>5, AsLong
  <2>7. WholeOrder(proposal, order)
    BY <2>1, <2>2, <2>3, <2>5, <2>6, Zenon DEF WholeOrder, OrderSound, Agents!DepsOf, Agents!DependsOn, Agents!Ids
  <2> QED
    BY <2>4, <2>7 DEF order
<1> QED
  BY <1>1, <1>7, <1>8, Zenon

-----------------------------------------------------------------------------
\* The graphs of the run: three steps at most, each with a sequence of dependencies
GraphShape(deps, n) ==
    /\ n \in 1..3 /\ DOMAIN deps = 1..n /\ Len(deps) = n
    /\ \A s \in 1..n : deps[s] \in Seq(1..4)

LEMMA GraphsShaped ==
    ASSUME NEW deps \in Dependencies \cup Malformed
    PROVE  \E n \in 1..3 : GraphShape(deps, n)
<1>1. CASE deps \in Dependencies
  <2>1. deps \in [1..3 -> {<<>>, <<1>>, <<2>>, <<3>>, <<1, 2>>, <<2, 3>>, <<1, 3>>}]
    BY <1>1 DEF Dependencies, Orders
  <2>2. {<<>>, <<1>>, <<2>>, <<3>>, <<1, 2>>, <<2, 3>>, <<1, 3>>} \subseteq Seq(1..4)
    OBVIOUS
  <2>3. deps \in [1..3 -> Seq(1..4)]
    BY <2>1, <2>2
  <2>4. deps \in Seq(Seq(1..4)) /\ Len(deps) = 3
    <3>1. deps \in Seq(Seq(1..4))
      <4> DEFINE S == Seq(1..4)
      <4>1. deps \in [1..3 -> S]
        BY <2>3
      <4> HIDE DEF S
      <4>2. 3 \in Nat
        OBVIOUS
      <4>3. deps \in UNION {[1..k -> S] : k \in Nat}
        BY <4>1, <4>2, Zenon
      <4>4. deps \in Seq(S)
        BY <4>3, SeqDef, Zenon
      <4> QED
        BY <4>4 DEF S
    <3> QED
      BY <2>3, <3>1
  <2> QED
    BY <2>3, <2>4 DEF GraphShape
<1>2. CASE deps \in Malformed
  <2>1. CASE deps = << <<1>>, <<>> >>
    BY <2>1 DEF GraphShape
  <2>2. CASE deps = << <<>>, <<1, 1>> >>
    BY <2>2 DEF GraphShape
  <2>3. CASE deps = << <<2>>, <<>>, <<4>> >>
    BY <2>3 DEF GraphShape
  <2>4. CASE deps = << <<4>>, <<4>> >>
    BY <2>4 DEF GraphShape
  <2>5. CASE deps = << <<3, 2>>, <<1>> >>
    BY <2>5 DEF GraphShape
  <2> QED
    BY <1>2, <2>1, <2>2, <2>3, <2>4, <2>5, Zenon DEF Malformed
<1> QED
  BY <1>1, <1>2

\* A plan of the run
ProposalShape(p, n) == GraphShape(p.deps, n) /\ p.price \in [1..3 -> {1, 2}]

LEMMA ProposalsShaped ==
    ASSUME NEW p \in MCProposals
    PROVE  \E n \in 1..3 : ProposalShape(p, n)
<1>1. p.deps \in Dependencies \cup Malformed
  <2> HIDE DEF Dependencies, Malformed
  <2> QED
    BY DEF MCProposals
<1>2. p.price = <<1, 2, 1>>
  <2> HIDE DEF Dependencies, Malformed
  <2> QED
    BY DEF MCProposals
<1>3. <<1, 2, 1>> \in [1..3 -> {1, 2}]
  OBVIOUS
<1> QED
  BY <1>1, <1>2, <1>3, GraphsShaped DEF ProposalShape

\* topologicalSort, of whatever a model proposes
LEMMA ProposalsSort ==
    ASSUME proposal \in MCProposals
    PROVE  /\ Agents!Sorting.cycle <=> ~Agents!Acyclic
           /\ ~Agents!Sorting.cycle => WholeOrder(proposal, Agents!Sorting.sorted)
<1>1. PICK n \in 1..3 : GraphShape(proposal.deps, n)
  BY ProposalsShaped DEF ProposalShape
<1>2. Agents!Ids = 1..n /\ n \in Nat
  BY <1>1 DEF GraphShape, Agents!Ids
<1>3. IsFiniteSet(1..n)
  BY <1>2, FS_Interval
<1>4. \A s \in Agents!Ids : \E k \in Nat : DOMAIN proposal.deps[s] = 1..k
  <2> TAKE s \in Agents!Ids
  <2>1. proposal.deps[s] \in Seq(1..4)
    BY <1>1, <1>2 DEF GraphShape
  <2> QED
    BY <2>1
<1>5. WellShaped
  BY <1>2, <1>3, <1>4 DEF WellShaped
<1>6. Len(proposal.deps) = n
  BY <1>1 DEF GraphShape
<1> QED
  BY <1>2, <1>5, <1>6, SortingSound

-----------------------------------------------------------------------------
\* The tasks of an agent with a plan p: what each has done

\* What a task has paid last
PriceOfLast(p, j) == IF j.called = 0 THEN 0 ELSE p.price[j.order[j.called]]

\* A task between its planning and its result
AtWork(j) == j.pc \in {"planning", "running"}

\* A task's locals
JobType(p, j) ==
    j \in [pc : {"new", "planning", "running"} \cup Agents!Outcomes,
           order : Seq(DOMAIN p.deps), called : 0..Len(p.deps), total : Nat, uncounted : Nat]

\* Its order is that of topologicalSort from the plan on, and it has called no step after it.
JobOrder(p, j) ==
    /\ j.order = <<>> \/ WholeOrder(p, j.order)
    /\ j.pc \in {"new", "planning"} => j.order = <<>> /\ j.called = 0 /\ j.total = 0
    /\ j.pc \in {"running", "success", "overBudget", "noFunds"} => WholeOrder(p, j.order)
    /\ j.called <= Len(j.order)
    /\ j.pc = "success" => j.called = Len(j.order)

\* What it has spent
JobSpent(a, p, j) ==
    /\ j.pc \in {"new", "planning", "running"} => j.uncounted = 0
    /\ a # "autonomous" => IF j.pc = "overBudget" THEN j.total - PriceOfLast(p, j) <= 3 ELSE j.total <= 3

\* What holds of every task, ...
JobOk(a, p, j) == JobType(p, j) /\ JobOrder(p, j) /\ JobSpent(a, p, j)

\* What a wallet of w still pays for it, when it is the only one
JobAlone(a, p, w, j) ==
    a = "demand" => /\ AtWork(j) => w + j.total >= 3
                    /\ j.pc = "noFunds" => j.total + PriceOfLast(p, j) > 3

\* ... what it has taken from the wallet, ...
Used(jobs) == [t \in AgentTasks |-> jobs[t].total + jobs[t].uncounted]

\* ... and of all of them, as long as no two have overlapped
AgentsInv ==
    /\ agent \in {"phantom", "demand", "autonomous"}
    /\ proposal \in MCProposals
    /\ wallet \in 0..5
    /\ overlapped \in BOOLEAN
    /\ job = [t \in AgentTasks |-> job[t]]
    /\ \A t \in AgentTasks : JobOk(agent, proposal, job[t])
    /\ ~overlapped => \A t \in AgentTasks :
          /\ JobAlone(agent, proposal, wallet, job[t])
          /\ AtWork(job[t]) => \A u \in AgentTasks : AtWork(job[u]) => u = t
    /\ agent = "demand" => wallet + SumFunction(Used(job)) = 5

\* One task's step
LEMMA AgentsMove ==
    ASSUME IsFiniteSet(AgentTasks), AgentsInv, NEW t \in AgentTasks, NEW r, UNCHANGED <<agent, proposal>>,
           job' = [job EXCEPT ![t] = r], JobOk(agent, proposal, r),
           wallet' \in 0..5, overlapped' \in BOOLEAN, overlapped => overlapped',
           wallet' # wallet => AtWork(job[t]),
           agent = "demand" => wallet' + r.total + r.uncounted = wallet + job[t].total + job[t].uncounted,
           ~overlapped' => /\ JobAlone(agent, proposal, wallet', r)
                           /\ AtWork(r) => \A u \in AgentTasks : AtWork(job[u]) => u = t
    PROVE  AgentsInv'
<1>1. /\ job' = [u \in AgentTasks |-> job'[u]] /\ job'[t] = r
      /\ \A u \in AgentTasks \ {t} : job'[u] = job[u]
  BY DEF AgentsInv
<1>2. \A u \in AgentTasks : JobOk(agent, proposal, job[u])
  BY DEF AgentsInv
<1>3. \A u \in AgentTasks : JobOk(agent', proposal', job'[u])
  BY <1>1, <1>2
<1>4. ASSUME ~overlapped'
      PROVE  \A u \in AgentTasks :
                /\ JobAlone(agent', proposal', wallet', job'[u])
                /\ AtWork(job'[u]) => \A v \in AgentTasks : AtWork(job'[v]) => v = u
  <2>1. \A u \in AgentTasks : /\ JobAlone(agent, proposal, wallet, job[u])
                              /\ AtWork(job[u]) => \A v \in AgentTasks : AtWork(job[v]) => v = u
    BY <1>4, Zenon DEF AgentsInv
  <2>2. ASSUME NEW u \in AgentTasks \ {t} PROVE JobAlone(agent, proposal, wallet', job[u])
    <3>1. CASE wallet' = wallet
      BY <2>1, <3>1
    <3>2. CASE wallet' # wallet
      <4>1. ~AtWork(job[u])
        BY <2>1, <2>2, <3>2
      <4>2. JobAlone(agent, proposal, wallet, job[u])
        BY <2>1
      <4> QED
        BY <4>1, <4>2 DEF JobAlone
    <3> QED
      BY <3>1, <3>2
  <2>3. \A u \in AgentTasks : JobAlone(agent', proposal', wallet', job'[u])
    BY <1>1, <1>4, <2>2
  <2>4. AtWork(r) => \A v \in AgentTasks : AtWork(job[v]) => v = t
    BY <1>4, Zenon
  <2>5. \A u \in AgentTasks : AtWork(job'[u]) => \A v \in AgentTasks : AtWork(job'[v]) => v = u
    BY <1>1, <2>1, <2>4
  <2> QED
    BY <2>3, <2>5
<1>5. ASSUME agent = "demand" PROVE wallet' + SumFunction(Used(job)') = 5
  <2>1. wallet + SumFunction(Used(job)) = 5
    BY <1>5, Zenon DEF AgentsInv
  <2>2. ASSUME NEW u \in AgentTasks PROVE job[u].total \in Nat /\ job[u].uncounted \in Nat
    BY <1>2 DEF JobOk, JobType
  <2>3. r.total \in Nat /\ r.uncounted \in Nat
    BY DEF JobOk, JobType
  <2>4. ASSUME NEW u \in AgentTasks PROVE job'[u].total \in Nat /\ job'[u].uncounted \in Nat
    BY <1>1, <2>2, <2>3
  <2>5. Used(job) \in [AgentTasks -> Int] /\ Used(job)' \in [AgentTasks -> Int]
    BY <2>2, <2>4 DEF Used
  <2>6. \A u \in AgentTasks \ {t} : Used(job)'[u] = Used(job)[u]
    BY <1>1 DEF Used
  <2>7. SumFunction(Used(job)') - SumFunction(Used(job)) = Used(job)'[t] - Used(job)[t]
    <3> DEFINE f == Used(job)
               g == Used(job)'
    <3>1. f \in [AgentTasks -> Int] /\ g \in [AgentTasks -> Int] /\ \A u \in AgentTasks \ {t} : g[u] = f[u]
      BY <2>5, <2>6
    <3> HIDE DEF f, g
    <3>2. SumFunction(g) - SumFunction(f) = g[t] - f[t]
      BY <3>1, SumUpdate
    <3> QED
      BY <3>2 DEF f, g
  <2>8. Used(job)'[t] = r.total + r.uncounted /\ Used(job)[t] = job[t].total + job[t].uncounted
    BY <1>1 DEF Used
  <2>9. wallet' + r.total + r.uncounted = wallet + job[t].total + job[t].uncounted
    BY <1>5
  <2>10. SumFunction(Used(job)) \in Int /\ SumFunction(Used(job)') \in Int
    <3>1. \A f \in [AgentTasks -> Int] : SumFunction(f) \in Int
      <4> TAKE f \in [AgentTasks -> Int]
      <4>1. DOMAIN f = AgentTasks /\ \A x \in AgentTasks : f[x] \in Int
        OBVIOUS
      <4> QED
        BY <4>1, SumType DEF SumFunction
    <3> QED
      BY <2>5, <3>1
  <2>11. wallet \in Int
    BY DEF AgentsInv
  <2>12. job[t].total \in Nat /\ job[t].uncounted \in Nat
    BY <2>2
  <2> HIDE DEF Used
  <2> QED
    BY <2>1, <2>3, <2>7, <2>8, <2>9, <2>10, <2>11, <2>12
<1>6. agent' \in {"phantom", "demand", "autonomous"} /\ proposal' \in MCProposals
  BY Zenon DEF AgentsInv
<1>7. agent' = agent
  OBVIOUS
<1> QED
  BY <1>1, <1>3, <1>4, <1>5, <1>6, <1>7, Zenon DEF AgentsInv

LEMMA JobFields ==
    ASSUME AgentsInv, NEW t \in AgentTasks
    PROVE  /\ JobOk(agent, proposal, job[t])
           /\ \E p, o, c, m, n : job[t] = [pc |-> p, order |-> o, called |-> c, total |-> m, uncounted |-> n]
<1>1. JobOk(agent, proposal, job[t])
  BY DEF AgentsInv
<1>2. \E p, o, c, m, n : job[t] = [pc |-> p, order |-> o, called |-> c, total |-> m, uncounted |-> n]
  BY <1>1 DEF JobOk, JobType
<1> QED
  BY <1>1, <1>2

\* The step that a running task is at
LEMMA CurrentStep ==
    ASSUME AgentsInv, NEW t \in AgentTasks, job[t].pc = "running", job[t].called < Len(job[t].order)
    PROVE  /\ proposal.price[Agents!Current(t)] \in {1, 2}
           /\ job[t].called + 1 \in 1..Len(job[t].order) /\ job[t].called + 1 \in 0..Len(proposal.deps)
           /\ job[t].called \in Nat /\ Len(job[t].order) \in Nat /\ WholeOrder(proposal, job[t].order)
           /\ job[t].total \in Nat /\ job[t].uncounted = 0
           /\ agent # "autonomous" => job[t].total <= 3
<1> DEFINE j == job[t]
<1>1. JobType(proposal, j) /\ WholeOrder(proposal, j.order)
  BY DEF AgentsInv, JobOk, JobOrder
<1>2. PICK n \in 1..3 : ProposalShape(proposal, n)
  BY ProposalsShaped DEF AgentsInv
<1>3. j.called \in Nat /\ j.order \in Seq(DOMAIN proposal.deps) /\ j.total \in Nat
  BY <1>1 DEF JobType
<1>4. DOMAIN proposal.deps = 1..n /\ Len(proposal.deps) = n /\ Len(j.order) = n
  BY <1>1, <1>2 DEF ProposalShape, GraphShape, WholeOrder
<1>5. j.called + 1 \in 1..n
  BY <1>3, <1>4
<1>6. j.order[j.called + 1] \in 1..n
  <2>1. j.order \in Seq(1..n)
    BY <1>3, <1>4
  <2> HIDE DEF j
  <2> QED
    BY <1>4, <1>5, <2>1
<1>7. proposal.price[j.order[j.called + 1]] \in {1, 2}
  BY <1>2, <1>6 DEF ProposalShape
<1>8. j.uncounted = 0 /\ (agent # "autonomous" => j.total <= 3)
  BY DEF AgentsInv, JobOk, JobSpent
<1> QED
  BY <1>1, <1>3, <1>4, <1>5, <1>7, <1>8 DEF Agents!Current

LEMMA AgentBegins ==
    ASSUME IsFiniteSet(AgentTasks), AgentsInv, NEW t \in AgentTasks, Agents!Begin(t)
    PROVE  AgentsInv'
<1>1. JobOk(agent, proposal, job[t]) /\ job[t].pc = "new"
  BY JobFields DEF Agents!Begin, Agents!At
<1>2. PICK p, o, c, m, n : job[t] = [pc |-> p, order |-> o, called |-> c, total |-> m, uncounted |-> n]
  BY JobFields
<1>3. PICK q : q = IF agent = "autonomous" \/ wallet >= 3 THEN "planning" ELSE "refused"
  OBVIOUS
<1> DEFINE r == [pc |-> q, order |-> o, called |-> c, total |-> m, uncounted |-> n]
<1>4. job' = [job EXCEPT ![t] = r]
  <2>1. job' = [job EXCEPT ![t].pc = q]
    BY <1>3 DEF Agents!Begin, Agents!Goto
  <2>2. [job[t] EXCEPT !.pc = q] = r
    BY <1>2
  <2> QED
    BY <2>1, <2>2, Zenon
<1>5. o = <<>> /\ c = 0 /\ m = 0 /\ n = 0
  BY <1>1, <1>2 DEF JobOk, JobOrder, JobSpent
<1>6. q \in {"planning", "refused"} /\ (agent = "demand" /\ q = "planning" => wallet >= 3)
  BY <1>3
<1>7. JobOk(agent, proposal, r)
  <2>1. JobType(proposal, r)
    BY <1>1, <1>2, <1>6 DEF JobOk, JobType, Agents!Outcomes
  <2>2. JobOrder(proposal, r)
    BY <1>5, <1>6 DEF JobOrder
  <2>3. JobSpent(agent, proposal, r)
    BY <1>5, <1>6 DEF JobSpent
  <2> QED
    BY <2>1, <2>2, <2>3 DEF JobOk
<1>8. /\ overlapped' \in BOOLEAN /\ (overlapped => overlapped')
      /\ ~overlapped' => \A u \in AgentTasks : AtWork(job[u]) => u = t
  <2>1. \A u \in AgentTasks : AtWork(job[u]) => ~Agents!At(u, "new") /\ ~Agents!Over(u)
    BY DEF AtWork, Agents!At, Agents!Over, Agents!Outcomes
  <2>2. overlapped' <=> (overlapped \/ \E u \in AgentTasks \ {t} : ~Agents!At(u, "new") /\ ~Agents!Over(u))
    BY Zenon DEF Agents!Begin
  <2>3. overlapped' \in BOOLEAN
    BY Zenon DEF Agents!Begin
  <2> QED
    BY <2>1, <2>2, <2>3, Zenon
<1>9. JobAlone(agent, proposal, wallet, r)
  BY <1>5, <1>6 DEF JobAlone, AtWork, AgentsInv
<1>10. UNCHANGED <<agent, proposal, wallet>> /\ wallet \in 0..5
  BY DEF Agents!Begin, AgentsInv
<1>11. wallet + r.total + r.uncounted = wallet + job[t].total + job[t].uncounted
  BY <1>2
<1> HIDE DEF r
<1> QED
  BY <1>4, <1>7, <1>8, <1>9, <1>10, <1>11, AgentsMove

LEMMA AgentPlanned ==
    ASSUME IsFiniteSet(AgentTasks), AgentsInv, NEW t \in AgentTasks, Agents!Planned(t)
    PROVE  AgentsInv'
<1>1. JobOk(agent, proposal, job[t]) /\ job[t].pc = "planning"
  BY JobFields DEF Agents!Planned, Agents!At
<1>2. PICK p, o, c, m, n : job[t] = [pc |-> p, order |-> o, called |-> c, total |-> m, uncounted |-> n]
  BY JobFields
<1>3. PICK q, w : /\ job' = [[job EXCEPT ![t].pc = q] EXCEPT ![t].order = w]
                  /\ \/ q = "failed" /\ w = <<>>
                     \/ q = "running" /\ WholeOrder(proposal, w)
  <2>1. CASE Agents!Goto(t, "failed")
    <3>1. job' = [job EXCEPT ![t].pc = "failed"]
      BY <2>1 DEF Agents!Goto
    <3>2. [[job EXCEPT ![t].pc = "failed"] EXCEPT ![t].order = <<>>] = [job EXCEPT ![t].pc = "failed"]
      <4>1. o = <<>>
        BY <1>1, <1>2 DEF JobOk, JobOrder
      <4>2. job = [u \in AgentTasks |-> job[u]]
        BY DEF AgentsInv
      <4>3. PICK r : r = [pc |-> "failed", order |-> o, called |-> c, total |-> m, uncounted |-> n]
        OBVIOUS
      <4>4. [job[t] EXCEPT !.pc = "failed"] = r
        BY <1>2, <4>3
      <4>5. [r EXCEPT !.order = <<>>] = r
        BY <4>1, <4>3
      <4>6. [job EXCEPT ![t].pc = "failed"] = [job EXCEPT ![t] = r]
        BY <4>4, Zenon
      <4>7. PICK k : k = [job EXCEPT ![t] = r]
        OBVIOUS
      <4>8. k = [u \in AgentTasks |-> k[u]] /\ k[t] = r
        BY <4>2, <4>7
      <4>9. [k EXCEPT ![t] = r] = k
        BY <4>8
      <4>10. [k EXCEPT ![t].order = <<>>] = [k EXCEPT ![t] = r]
        BY <4>5, <4>8, Zenon
      <4> QED
        BY <4>6, <4>7, <4>9, <4>10
    <3>3. job' = [[job EXCEPT ![t].pc = "failed"] EXCEPT ![t].order = <<>>]
      BY <3>1, <3>2
    <3> QED
      BY <3>3, Zenon
  <2>2. CASE job' = [job EXCEPT ![t].pc = IF Agents!Sorting.cycle THEN "failed" ELSE "running",
                                ![t].order = IF Agents!Sorting.cycle THEN <<>> ELSE Agents!Sorting.sorted]
    <3>1. PICK q, w : /\ q = IF Agents!Sorting.cycle THEN "failed" ELSE "running"
                      /\ w = IF Agents!Sorting.cycle THEN <<>> ELSE Agents!Sorting.sorted
      BY Zenon
    <3>2. job' = [[job EXCEPT ![t].pc = q] EXCEPT ![t].order = w]
      BY <2>2, <3>1, Zenon
    <3>3. ~Agents!Sorting.cycle => WholeOrder(proposal, Agents!Sorting.sorted)
      BY ProposalsSort DEF AgentsInv
    <3>4. CASE Agents!Sorting.cycle
      <4>1. q = "failed" /\ w = <<>>
        BY <3>1, <3>4, Zenon
      <4> QED
        BY <3>2, <4>1, Zenon
    <3>5. CASE ~Agents!Sorting.cycle
      <4>1. q = "running" /\ w = Agents!Sorting.sorted
        BY <3>1, <3>5, Zenon
      <4>2. WholeOrder(proposal, w)
        BY <3>3, <3>5, <4>1, Zenon
      <4> QED
        BY <3>2, <4>1, <4>2, Zenon
    <3> QED
      BY <3>4, <3>5, Zenon
  <2> QED
    BY <2>1, <2>2, Zenon DEF Agents!Planned
<1> DEFINE r == [pc |-> q, order |-> w, called |-> c, total |-> m, uncounted |-> n]
<1>4. job' = [job EXCEPT ![t] = r]
  <2>1. PICK s : s = [pc |-> q, order |-> o, called |-> c, total |-> m, uncounted |-> n]
    OBVIOUS
  <2>2. [job[t] EXCEPT !.pc = q] = s
    BY <1>2, <2>1
  <2>3. PICK k : k = [job EXCEPT ![t] = s]
    OBVIOUS
  <2>4. [job EXCEPT ![t].pc = q] = k
    BY <2>2, <2>3, Zenon
  <2>5. job = [u \in AgentTasks |-> job[u]]
    BY DEF AgentsInv
  <2>6. k[t] = s
    BY <2>3, <2>5
  <2>7. [s EXCEPT !.order = w] = r
    BY <2>1
  <2>8. job' = [k EXCEPT ![t] = r]
    BY <1>3, <2>4, <2>6, <2>7, Zenon
  <2>9. [k EXCEPT ![t] = r] = [job EXCEPT ![t] = r]
    <3> HIDE DEF r
    <3> QED
      BY <2>3, <2>5
  <2> QED
    BY <2>8, <2>9
<1>5. c = 0 /\ m = 0 /\ n = 0
  BY <1>1, <1>2 DEF JobOk, JobOrder, JobSpent
<1>7. JobOk(agent, proposal, r)
  <2>0. w \in Seq(DOMAIN proposal.deps) /\ Len(w) \in Nat
    <3>1. w = <<>> \/ w \in Seq(DOMAIN proposal.deps)
      BY <1>3, Zenon DEF WholeOrder
    <3>2. \A S : <<>> \in Seq(S) /\ \A x \in Seq(S) : Len(x) \in Nat
      OBVIOUS
    <3> QED
      BY <3>1, <3>2, Zenon
  <2>1. JobType(proposal, r)
    BY <1>1, <1>2, <1>3, <2>0 DEF JobOk, JobType, Agents!Outcomes
  <2>2. JobOrder(proposal, r)
    BY <1>3, <1>5, <2>0 DEF JobOrder
  <2>3. JobSpent(agent, proposal, r)
    BY <1>3, <1>5 DEF JobSpent
  <2> QED
    BY <2>1, <2>2, <2>3 DEF JobOk
<1>8. UNCHANGED <<agent, proposal, wallet, overlapped>> /\ wallet \in 0..5
  BY DEF Agents!Planned, AgentsInv
<1>9. ASSUME ~overlapped
      PROVE  JobAlone(agent, proposal, wallet, r) /\ \A u \in AgentTasks : AtWork(job[u]) => u = t
  <2>1. AtWork(job[t])
    BY <1>1 DEF AtWork
  <2>2. JobAlone(agent, proposal, wallet, job[t]) /\ \A u \in AgentTasks : AtWork(job[u]) => u = t
    BY <1>9, <2>1, Zenon DEF AgentsInv
  <2>3. JobAlone(agent, proposal, wallet, r)
    BY <1>2, <1>3, <2>1, <2>2 DEF JobAlone, AtWork
  <2> QED
    BY <2>2, <2>3
<1>10. wallet + r.total + r.uncounted = wallet + job[t].total + job[t].uncounted
  BY <1>2
<1>11. overlapped' \in BOOLEAN /\ (overlapped => overlapped')
  BY <1>8, Zenon DEF AgentsInv
<1> HIDE DEF r
<1> QED
  BY <1>4, <1>7, <1>8, <1>9, <1>10, <1>11, AgentsMove

\* One field after the other
Jobs(J) == J = [u \in AgentTasks |-> J[u]]
Job(p, o, c, m, n) == [pc |-> p, order |-> o, called |-> c, total |-> m, uncounted |-> n]

LEMMA JobAgain ==
    ASSUME NEW J, NEW t \in AgentTasks, Jobs(J), NEW a, NEW b, NEW K, K = [J EXCEPT ![t] = a]
    PROVE  /\ Jobs(K) /\ K[t] = a
           /\ [K EXCEPT ![t] = b] = [J EXCEPT ![t] = b]
BY DEF Jobs

\* A call is counted, what it cost, and what becomes of the task.
CallMade(J, t, c, m, q) == [[[J EXCEPT ![t].called = c] EXCEPT ![t].total = m] EXCEPT ![t].pc = q]
CallLost(J, t, c, q, n) == [[[J EXCEPT ![t].called = c] EXCEPT ![t].pc = q] EXCEPT ![t].uncounted = n]

LEMMA CallIsMade ==
    ASSUME NEW J, NEW t \in AgentTasks, Jobs(J),
           NEW p, NEW o, NEW c, NEW m, NEW n, J[t] = Job(p, o, c, m, n), NEW d, NEW k, NEW q, NEW x, NEW made, NEW lost,
           made = Job(q, o, d, k, n), lost = Job(q, o, d, m, x)
    PROVE  /\ CallMade(J, t, d, k, q) = [J EXCEPT ![t] = made]
           /\ CallLost(J, t, d, q, x) = [J EXCEPT ![t] = lost]
<1>1. PICK A : A = [J EXCEPT ![t] = Job(p, o, d, m, n)]
  OBVIOUS
<1>2. [J EXCEPT ![t].called = d] = A /\ Jobs(A) /\ A[t] = Job(p, o, d, m, n)
  <2>1. [J[t] EXCEPT !.called = d] = Job(p, o, d, m, n)
    BY DEF Job
  <2>2. [J EXCEPT ![t].called = d] = A
    BY <1>1, <2>1, Zenon
  <2> QED
    BY <1>1, <2>2 DEF Jobs
<1>3. PICK B : B = [J EXCEPT ![t] = Job(p, o, d, k, n)]
  OBVIOUS
<1>4. [A EXCEPT ![t].total = k] = B /\ Jobs(B) /\ B[t] = Job(p, o, d, k, n)
  <2>0. [A[t] EXCEPT !.total = k] = Job(p, o, d, k, n)
    BY <1>2 DEF Job
  <2>1. [A EXCEPT ![t].total = k] = [A EXCEPT ![t] = Job(p, o, d, k, n)]
    BY <2>0, Zenon
  <2>2. [A EXCEPT ![t] = Job(p, o, d, k, n)] = B
    BY <1>1, <1>3, JobAgain
  <2> QED
    BY <1>3, <2>1, <2>2 DEF Jobs
<1>5. [B EXCEPT ![t].pc = q] = [J EXCEPT ![t] = Job(q, o, d, k, n)]
  <2>0. [B[t] EXCEPT !.pc = q] = Job(q, o, d, k, n)
    BY <1>4 DEF Job
  <2>1. [B EXCEPT ![t].pc = q] = [B EXCEPT ![t] = Job(q, o, d, k, n)]
    BY <2>0, Zenon
  <2> QED
    BY <1>3, <2>1, JobAgain
<1>6. PICK C : C = [J EXCEPT ![t] = Job(q, o, d, m, n)]
  OBVIOUS
<1>7. [A EXCEPT ![t].pc = q] = C /\ Jobs(C) /\ C[t] = Job(q, o, d, m, n)
  <2>0. [A[t] EXCEPT !.pc = q] = Job(q, o, d, m, n)
    BY <1>2 DEF Job
  <2>1. [A EXCEPT ![t].pc = q] = [A EXCEPT ![t] = Job(q, o, d, m, n)]
    BY <2>0, Zenon
  <2>2. [A EXCEPT ![t] = Job(q, o, d, m, n)] = C
    BY <1>1, <1>6, JobAgain
  <2> QED
    BY <1>6, <2>1, <2>2 DEF Jobs
<1>8. [C EXCEPT ![t].uncounted = x] = [J EXCEPT ![t] = Job(q, o, d, m, x)]
  <2>0. [C[t] EXCEPT !.uncounted = x] = Job(q, o, d, m, x)
    BY <1>7 DEF Job
  <2>1. [C EXCEPT ![t].uncounted = x] = [C EXCEPT ![t] = Job(q, o, d, m, x)]
    BY <2>0, Zenon
  <2> QED
    BY <1>6, <2>1, JobAgain
<1>9. CallMade(J, t, d, k, q) = [J EXCEPT ![t] = Job(q, o, d, k, n)]
  BY <1>2, <1>4, <1>5, Zenon DEF CallMade
<1>10. CallLost(J, t, d, q, x) = [J EXCEPT ![t] = Job(q, o, d, m, x)]
  BY <1>2, <1>7, <1>8, Zenon DEF CallLost
<1> QED
  BY <1>9, <1>10, Zenon

LEMMA CallsAreMade ==
    ASSUME AgentsInv, NEW t \in AgentTasks, NEW p, NEW o, NEW c, NEW m, NEW n, job[t] = Job(p, o, c, m, n), NEW d
    PROVE  \A k, q, x : /\ CallMade(job, t, d, k, q) = [job EXCEPT ![t] = Job(q, o, d, k, n)]
                       /\ CallLost(job, t, d, q, x) = [job EXCEPT ![t] = Job(q, o, d, m, x)]
<1>1. Jobs(job)
  BY DEF AgentsInv, Jobs
<1> TAKE k, q, x
<1>2. PICK made, lost : made = Job(q, o, d, k, n) /\ lost = Job(q, o, d, m, x)
  OBVIOUS
<1>3. CallMade(job, t, d, k, q) = [job EXCEPT ![t] = made] /\ CallLost(job, t, d, q, x) = [job EXCEPT ![t] = lost]
  BY <1>1, <1>2, CallIsMade
<1> QED
  BY <1>2, <1>3, Zenon

\* The price of the step that was called last
LEMMA PriceOfCall ==
    ASSUME NEW plan1, NEW p, NEW o, NEW c \in Nat, NEW m, NEW n
    PROVE  PriceOfLast(plan1, Job(p, o, c + 1, m, n)) = plan1.price[o[c + 1]]
BY DEF PriceOfLast, Job

\* What a running task has left, when it is the only one
LEMMA RunningAlone ==
    ASSUME AgentsInv, ~overlapped, NEW t \in AgentTasks, job[t].pc = "running"
    PROVE  /\ agent = "demand" => wallet + job[t].total >= 3
           /\ \A u \in AgentTasks : AtWork(job[u]) => u = t
<1>1. AtWork(job[t])
  BY DEF AtWork
<1>2. JobAlone(agent, proposal, wallet, job[t]) /\ \A u \in AgentTasks : AtWork(job[u]) => u = t
  BY <1>1, Zenon DEF AgentsInv
<1> QED
  BY <1>1, <1>2 DEF JobAlone

LEMMA AgentAnswered ==
    ASSUME IsFiniteSet(AgentTasks), AgentsInv, NEW t \in AgentTasks, Agents!Answered(t)
    PROVE  AgentsInv'
<1>1. JobOk(agent, proposal, job[t]) /\ job[t].pc = "running" /\ job[t].called < Len(job[t].order)
  BY JobFields DEF Agents!Answered, Agents!At
<1>2. PICK p, o, c, m, n : job[t] = Job(p, o, c, m, n)
  BY JobFields DEF Job
<1>3. p = "running" /\ job[t].order = o /\ job[t].called = c /\ job[t].total = m /\ job[t].uncounted = n
  BY <1>1, <1>2 DEF Job
<1>4. PICK cost : cost = proposal.price[Agents!Current(t)]
  OBVIOUS
<1>5. /\ cost \in {1, 2} /\ c \in Nat /\ c + 1 \in 1..Len(o) /\ c + 1 \in 0..Len(proposal.deps)
      /\ Len(o) \in Nat /\ WholeOrder(proposal, o) /\ m \in Nat /\ n = 0
      /\ agent # "autonomous" => m <= 3
  BY <1>1, <1>3, <1>4, CurrentStep
<1>6. cost = proposal.price[o[c + 1]]
  BY <1>3, <1>4 DEF Agents!Current
<1>7. PICK sum : sum = m + cost
  OBVIOUS
<1>8. PICK price \in Agents!Prices(Agents!Current(t)) :
           /\ price <= wallet
           /\ wallet' = wallet - price
           /\ job' = [job EXCEPT ![t].called = @ + 1, ![t].total = sum,
                                 ![t].pc = IF Agents!OverBudget(t, sum) THEN "overBudget" ELSE @]
  <2>1. sum = job[t].total + proposal.price[Agents!Current(t)]
    BY <1>3, <1>4, <1>7
  <2> QED
    BY <2>1, Zenon DEF Agents!Answered
<1>9. PICK q : q = IF Agents!OverBudget(t, sum) THEN "overBudget" ELSE job[t].pc
  OBVIOUS
<1>10. PICK d : d = c + 1
  OBVIOUS
<1> DEFINE r == Job(q, o, d, sum, n)
<1>11. job' = [job EXCEPT ![t] = r]
  <2>1. job = [u \in AgentTasks |-> job[u]]
    BY DEF AgentsInv
  <2>2. job[t].called + 1 = d
    BY <1>3, <1>10
  <2>3. job[t].pc = "running" /\ q = IF Agents!OverBudget(t, sum) THEN "overBudget" ELSE "running"
    BY <1>1, <1>9
  <2>4. PICK A : A = [job EXCEPT ![t].called = d]
    OBVIOUS
  <2>5. PICK B : B = [A EXCEPT ![t].total = sum]
    OBVIOUS
  <2>6. B[t].pc = "running"
    <3>1. A[t] = [job[t] EXCEPT !.called = d]
      BY <2>1, <2>4
    <3>2. A = [u \in AgentTasks |-> A[u]] /\ A[t].pc = "running"
      BY <1>2, <1>3, <2>1, <2>4, <3>1 DEF Job
    <3>3. B[t] = [A[t] EXCEPT !.total = sum]
      BY <3>2, <2>5
    <3>4. A[t] = Job(p, o, d, m, n)
      BY <1>2, <3>1 DEF Job
    <3> QED
      BY <1>3, <3>3, <3>4 DEF Job
  <2>7. job' = [B EXCEPT ![t].pc = IF Agents!OverBudget(t, sum) THEN "overBudget" ELSE @]
    BY <1>8, <2>2, <2>4, <2>5, Zenon
  <2>8. job' = [B EXCEPT ![t].pc = q]
    BY <2>3, <2>6, <2>7, Zenon
  <2>9. job' = CallMade(job, t, d, sum, q)
    BY <2>4, <2>5, <2>8, Zenon DEF CallMade
  <2>10. CallMade(job, t, d, sum, q) = [job EXCEPT ![t] = r]
    BY <1>2, CallsAreMade
  <2> QED
    BY <2>9, <2>10
<1>12. /\ q \in {"running", "overBudget"}
       /\ agent # "autonomous" => (q = "overBudget" <=> sum > 3)
       /\ agent = "autonomous" => q = "running"
  BY <1>1, <1>9 DEF Agents!OverBudget
<1>13. PriceOfLast(proposal, r) = cost
  BY <1>5, <1>6, <1>10, PriceOfCall
<1>14. /\ r.pc = q /\ r.order = o /\ r.called = d /\ r.total = sum /\ r.uncounted = n
  BY DEF Job
<1>15. JobOk(agent, proposal, r)
  <2>1. JobType(proposal, r)
    <3>1. o \in Seq(DOMAIN proposal.deps)
      BY <1>5 DEF WholeOrder
    <3>2. sum \in Nat /\ d \in 0..Len(proposal.deps) /\ n \in Nat
      BY <1>5, <1>7, <1>10
    <3> QED
      BY <1>12, <3>1, <3>2 DEF Job, JobType, Agents!Outcomes
  <2>2. JobOrder(proposal, r)
    <3>1. d <= Len(o)
      BY <1>5, <1>10
    <3> HIDE DEF r
    <3> QED
      BY <1>5, <1>12, <1>14, <3>1 DEF JobOrder
  <2>3. JobSpent(agent, proposal, r)
    <3>1. sum - cost = m
      BY <1>5, <1>7
    <3>2. sum \in Nat
      BY <1>5, <1>7
    <3> HIDE DEF r
    <3> QED
      BY <1>5, <1>12, <1>13, <1>14, <3>1, <3>2 DEF JobSpent
  <2> QED
    BY <2>1, <2>2, <2>3 DEF JobOk
<1>16. UNCHANGED <<agent, proposal, overlapped>>
  BY DEF Agents!Answered
<1>17. price \in {1, 2} /\ (agent = "demand" => price = cost)
  BY <1>4, <1>5, <1>8 DEF Agents!Prices
<1>18. wallet' \in 0..5 /\ wallet \in 0..5
  BY <1>8, <1>17 DEF AgentsInv
<1>19. agent = "demand" => wallet' + r.total + r.uncounted = wallet + job[t].total + job[t].uncounted
  BY <1>3, <1>5, <1>7, <1>8, <1>14, <1>17, <1>18
<1>20. ASSUME ~overlapped
       PROVE  JobAlone(agent, proposal, wallet', r) /\ \A u \in AgentTasks : AtWork(job[u]) => u = t
  <2>1. (agent = "demand" => wallet + m >= 3) /\ \A u \in AgentTasks : AtWork(job[u]) => u = t
    BY <1>1, <1>3, <1>20, RunningAlone
  <2>2. agent = "demand" => wallet' + sum >= 3
    BY <1>5, <1>7, <1>8, <1>17, <1>18, <2>1
  <2>3. JobAlone(agent, proposal, wallet', r)
    <3> HIDE DEF r
    <3> QED
      BY <1>12, <1>14, <2>2 DEF JobAlone
  <2> QED
    BY <2>1, <2>3
<1>21. AtWork(job[t])
  BY <1>1 DEF AtWork
<1>22. overlapped' \in BOOLEAN /\ (overlapped => overlapped')
  BY <1>16, Zenon DEF AgentsInv
<1> HIDE DEF r
<1> QED
  BY <1>11, <1>15, <1>16, <1>18, <1>19, <1>20, <1>21, <1>22, AgentsMove

LEMMA AgentFailed ==
    ASSUME IsFiniteSet(AgentTasks), AgentsInv, NEW t \in AgentTasks, Agents!Failed(t)
    PROVE  AgentsInv'
<1>1. JobOk(agent, proposal, job[t]) /\ job[t].pc = "running" /\ job[t].called < Len(job[t].order)
  BY JobFields DEF Agents!Failed, Agents!At
<1>2. PICK p, o, c, m, n : job[t] = Job(p, o, c, m, n)
  BY JobFields DEF Job
<1>3. p = "running" /\ job[t].order = o /\ job[t].called = c /\ job[t].total = m /\ job[t].uncounted = n
  BY <1>1, <1>2 DEF Job
<1>4. PICK cost : cost = proposal.price[Agents!Current(t)]
  OBVIOUS
<1>5. /\ cost \in {1, 2} /\ c \in Nat /\ c + 1 \in 1..Len(o) /\ c + 1 \in 0..Len(proposal.deps)
      /\ Len(o) \in Nat /\ WholeOrder(proposal, o) /\ m \in Nat /\ n = 0
      /\ agent # "autonomous" => m <= 3
  BY <1>1, <1>3, <1>4, CurrentStep
<1>8. PICK price \in Agents!Prices(Agents!Current(t)) \cup {0} :
           /\ price <= wallet
           /\ wallet' = wallet - price
           /\ job' = [job EXCEPT ![t].called = @ + 1, ![t].pc = "failed", ![t].uncounted = price]
  BY Zenon DEF Agents!Failed
<1>10. PICK d : d = c + 1
  OBVIOUS
<1> DEFINE r == Job("failed", o, d, m, price)
<1>11. job' = [job EXCEPT ![t] = r]
  <2>1. job = [u \in AgentTasks |-> job[u]]
    BY DEF AgentsInv
  <2>2. job[t].called + 1 = d
    BY <1>3, <1>10
  <2>3. job' = CallLost(job, t, d, "failed", price)
    BY <1>8, <2>2, Zenon DEF CallLost
  <2>4. CallLost(job, t, d, "failed", price) = [job EXCEPT ![t] = r]
    BY <1>2, CallsAreMade
  <2> QED
    BY <2>3, <2>4
<1>14. /\ r.pc = "failed" /\ r.order = o /\ r.called = d /\ r.total = m /\ r.uncounted = price
  BY DEF Job
<1>17. price \in {0, 1, 2}
  BY <1>4, <1>5, <1>8 DEF Agents!Prices
<1>15. JobOk(agent, proposal, r)
  <2>1. JobType(proposal, r)
    <3>1. o \in Seq(DOMAIN proposal.deps)
      BY <1>5 DEF WholeOrder
    <3>2. m \in Nat /\ d \in 0..Len(proposal.deps) /\ price \in Nat
      BY <1>5, <1>10, <1>17
    <3> QED
      BY <3>1, <3>2 DEF Job, JobType, Agents!Outcomes
  <2>2. JobOrder(proposal, r)
    <3>1. d <= Len(o)
      BY <1>5, <1>10
    <3> HIDE DEF r
    <3> QED
      BY <1>5, <1>14, <3>1 DEF JobOrder
  <2>3. JobSpent(agent, proposal, r)
    <3> HIDE DEF r
    <3> QED
      BY <1>5, <1>14 DEF JobSpent
  <2> QED
    BY <2>1, <2>2, <2>3 DEF JobOk
<1>16. UNCHANGED <<agent, proposal, overlapped>>
  BY DEF Agents!Failed
<1>18. wallet' \in 0..5 /\ wallet \in 0..5
  BY <1>8, <1>17 DEF AgentsInv
<1>19. wallet' + r.total + r.uncounted = wallet + job[t].total + job[t].uncounted
  BY <1>3, <1>5, <1>8, <1>14, <1>17, <1>18
<1>20. JobAlone(agent, proposal, wallet', r) /\ ~AtWork(r)
  <2> HIDE DEF r
  <2> QED
    BY <1>14 DEF JobAlone, AtWork
<1>21. AtWork(job[t])
  BY <1>1 DEF AtWork
<1>22. overlapped' \in BOOLEAN /\ (overlapped => overlapped')
  BY <1>16, Zenon DEF AgentsInv
<1> HIDE DEF r
<1> QED
  BY <1>11, <1>15, <1>16, <1>18, <1>19, <1>20, <1>21, <1>22, AgentsMove

LEMMA AgentUnfunded ==
    ASSUME IsFiniteSet(AgentTasks), AgentsInv, NEW t \in AgentTasks, Agents!Unfunded(t)
    PROVE  AgentsInv'
<1>1. JobOk(agent, proposal, job[t]) /\ job[t].pc = "running" /\ job[t].called < Len(job[t].order)
  BY JobFields DEF Agents!Unfunded, Agents!At
<1>2. PICK p, o, c, m, n : job[t] = Job(p, o, c, m, n)
  BY JobFields DEF Job
<1>3. p = "running" /\ job[t].order = o /\ job[t].called = c /\ job[t].total = m /\ job[t].uncounted = n
  BY <1>1, <1>2 DEF Job
<1>4. PICK cost : cost = proposal.price[Agents!Current(t)]
  OBVIOUS
<1>5. /\ cost \in {1, 2} /\ c \in Nat /\ c + 1 \in 1..Len(o) /\ c + 1 \in 0..Len(proposal.deps)
      /\ Len(o) \in Nat /\ WholeOrder(proposal, o) /\ m \in Nat /\ n = 0
      /\ agent # "autonomous" => m <= 3
  BY <1>1, <1>3, <1>4, CurrentStep
<1>6. cost = proposal.price[o[c + 1]]
  BY <1>3, <1>4 DEF Agents!Current
<1>8. /\ \E price \in Agents!Prices(Agents!Current(t)) : price > wallet
      /\ job' = [job EXCEPT ![t].called = @ + 1, ![t].pc = "noFunds"]
  BY Zenon DEF Agents!Unfunded
<1>10. PICK d : d = c + 1
  OBVIOUS
<1> DEFINE r == Job("noFunds", o, d, m, n)
<1>11. job' = [job EXCEPT ![t] = r]
  <2>1. Jobs(job)
    BY DEF AgentsInv, Jobs
  <2>2. job[t].called + 1 = d
    BY <1>3, <1>10
  <2>3. PICK A : A = [job EXCEPT ![t] = Job(p, o, d, m, n)]
    OBVIOUS
  <2>4. [job EXCEPT ![t].called = d] = A
    <3>1. [job[t] EXCEPT !.called = d] = Job(p, o, d, m, n)
      BY <1>2 DEF Job
    <3> QED
      BY <2>3, <3>1, Zenon
  <2>5. Jobs(A) /\ A[t] = Job(p, o, d, m, n)
    BY <2>1, <2>3 DEF Jobs
  <2>6. [A[t] EXCEPT !.pc = "noFunds"] = r
    BY <2>5 DEF Job
  <2>7. job' = [A EXCEPT ![t].pc = "noFunds"]
    BY <1>8, <2>2, <2>4, Zenon
  <2>8. job' = [A EXCEPT ![t] = r]
    BY <2>6, <2>7, Zenon
  <2> HIDE DEF r
  <2> QED
    BY <2>1, <2>3, <2>8, JobAgain
<1>13. PriceOfLast(proposal, r) = cost
  BY <1>5, <1>6, <1>10, PriceOfCall
<1>14. /\ r.pc = "noFunds" /\ r.order = o /\ r.called = d /\ r.total = m /\ r.uncounted = n
  BY DEF Job
<1>15. JobOk(agent, proposal, r)
  <2>1. JobType(proposal, r)
    <3>1. o \in Seq(DOMAIN proposal.deps)
      BY <1>5 DEF WholeOrder
    <3>2. m \in Nat /\ d \in 0..Len(proposal.deps) /\ n \in Nat
      BY <1>5, <1>10
    <3> QED
      BY <3>1, <3>2 DEF Job, JobType, Agents!Outcomes
  <2>2. JobOrder(proposal, r)
    <3>1. d <= Len(o)
      BY <1>5, <1>10
    <3> HIDE DEF r
    <3> QED
      BY <1>5, <1>14, <3>1 DEF JobOrder
  <2>3. JobSpent(agent, proposal, r)
    <3> HIDE DEF r
    <3> QED
      BY <1>5, <1>14 DEF JobSpent
  <2> QED
    BY <2>1, <2>2, <2>3 DEF JobOk
<1>16. UNCHANGED <<agent, proposal, wallet, overlapped>>
  BY DEF Agents!Unfunded
<1>17. agent = "demand" => cost > wallet
  BY <1>4, <1>8 DEF Agents!Prices
<1>18. wallet' \in 0..5 /\ wallet \in 0..5
  BY <1>16 DEF AgentsInv
<1>19. wallet' + r.total + r.uncounted = wallet + job[t].total + job[t].uncounted
  BY <1>3, <1>14, <1>16
<1>20. ASSUME ~overlapped PROVE JobAlone(agent, proposal, wallet', r) /\ ~AtWork(r)
  <2>1. agent = "demand" => wallet + m >= 3
    BY <1>1, <1>3, <1>20, RunningAlone
  <2>2. agent = "demand" => m + cost > 3
    BY <1>5, <1>17, <1>18, <2>1
  <2> HIDE DEF r
  <2> QED
    BY <1>13, <1>14, <2>2 DEF JobAlone, AtWork
<1>22. overlapped' \in BOOLEAN /\ (overlapped => overlapped')
  BY <1>16, Zenon DEF AgentsInv
<1> HIDE DEF r
<1> QED
  BY <1>11, <1>15, <1>16, <1>18, <1>19, <1>20, <1>22, AgentsMove

LEMMA AgentFinishes ==
    ASSUME IsFiniteSet(AgentTasks), AgentsInv, NEW t \in AgentTasks, Agents!Finish(t)
    PROVE  AgentsInv'
<1>1. JobOk(agent, proposal, job[t]) /\ job[t].pc = "running" /\ job[t].called = Len(job[t].order)
  BY JobFields DEF Agents!Finish, Agents!At
<1>2. PICK p, o, c, m, n : job[t] = Job(p, o, c, m, n)
  BY JobFields DEF Job
<1>3. p = "running" /\ job[t].order = o /\ job[t].called = c /\ job[t].total = m /\ job[t].uncounted = n
  BY <1>1, <1>2 DEF Job
<1> DEFINE r == Job("success", o, c, m, n)
<1>4. job' = [job EXCEPT ![t] = r]
  <2>1. job' = [job EXCEPT ![t].pc = "success"]
    BY DEF Agents!Finish, Agents!Goto
  <2>2. [job[t] EXCEPT !.pc = "success"] = r
    BY <1>2 DEF Job
  <2> QED
    BY <2>1, <2>2, Zenon
<1>14. /\ r.pc = "success" /\ r.order = o /\ r.called = c /\ r.total = m /\ r.uncounted = n
  BY DEF Job
<1>15. JobOk(agent, proposal, r)
  <2>1. JobType(proposal, r)
    BY <1>1, <1>3 DEF JobOk, JobType, Job, Agents!Outcomes
  <2>2. JobOrder(proposal, r)
    <3> HIDE DEF r
    <3> QED
      BY <1>1, <1>3, <1>14 DEF JobOk, JobOrder
  <2>3. JobSpent(agent, proposal, r)
    <3> HIDE DEF r
    <3> QED
      BY <1>1, <1>3, <1>14 DEF JobOk, JobSpent
  <2> QED
    BY <2>1, <2>2, <2>3 DEF JobOk
<1>16. UNCHANGED <<agent, proposal, wallet, overlapped>>
  BY DEF Agents!Finish
<1>18. wallet' \in 0..5
  BY <1>16 DEF AgentsInv
<1>19. wallet' + r.total + r.uncounted = wallet + job[t].total + job[t].uncounted
  BY <1>3, <1>14, <1>16
<1>20. JobAlone(agent, proposal, wallet', r) /\ ~AtWork(r)
  <2> HIDE DEF r
  <2> QED
    BY <1>14 DEF JobAlone, AtWork
<1>22. overlapped' \in BOOLEAN /\ (overlapped => overlapped')
  BY <1>16, Zenon DEF AgentsInv
<1> HIDE DEF r
<1> QED
  BY <1>4, <1>15, <1>16, <1>18, <1>19, <1>20, <1>22, AgentsMove

LEMMA AgentsBegin ==
    ASSUME IsFiniteSet(AgentTasks), Agents!Init
    PROVE  AgentsInv
<1>1. /\ agent \in {"phantom", "demand", "autonomous"} /\ proposal \in MCProposals
      /\ wallet = 5 /\ overlapped = FALSE /\ job = [t \in AgentTasks |-> Agents!NewJob]
  BY Zenon DEF Agents!Init
<1>2. Agents!NewJob = Job("new", <<>>, 0, 0, 0)
  BY DEF Agents!NewJob, Job
<1>3. PICK k \in 1..3 : ProposalShape(proposal, k)
  BY <1>1, ProposalsShaped
<1>4. Len(proposal.deps) = k
  BY <1>3 DEF ProposalShape, GraphShape
<1> DEFINE r == Job("new", <<>>, 0, 0, 0)
<1>5. JobOk(agent, proposal, r)
  <2>1. JobType(proposal, r)
    BY <1>4 DEF JobType, Job
  <2>2. JobOrder(proposal, r)
    BY DEF JobOrder, Job
  <2>3. JobSpent(agent, proposal, r)
    BY DEF JobSpent, Job
  <2> QED
    BY <2>1, <2>2, <2>3 DEF JobOk
<1>6. JobAlone(agent, proposal, wallet, r) /\ ~AtWork(r)
  BY DEF JobAlone, AtWork, Job
<1>7. r.total + r.uncounted = 0
  BY DEF Job
<1> HIDE DEF r
<1>8. job = [t \in AgentTasks |-> r]
  BY <1>1, <1>2 DEF r
<1>9. SumFunction(Used(job)) = 0
  <2> DEFINE f == Used(job)
  <2>1. f \in [AgentTasks -> Int] /\ \A x \in AgentTasks : f[x] = 0
    BY <1>7, <1>8 DEF Used
  <2> HIDE DEF f
  <2>2. SumFunction(f) = 0
    BY <2>1, SumOfZeros
  <2> QED
    BY <2>2 DEF f
<1>10. wallet \in 0..5 /\ overlapped \in BOOLEAN /\ wallet + SumFunction(Used(job)) = 5
  <2>1. wallet \in 0..5 /\ wallet + SumFunction(Used(job)) = 5
    BY <1>1, <1>9
  <2>2. overlapped \in BOOLEAN
    BY <1>1, Zenon
  <2> QED
    BY <2>1, <2>2
<1>11. \A t \in AgentTasks : job[t] = r
  BY <1>8
<1>12. job = [t \in AgentTasks |-> job[t]]
  BY <1>8
<1> QED
  BY <1>1, <1>5, <1>6, <1>10, <1>11, <1>12, Zenon DEF AgentsInv

LEMMA AgentsStep ==
    ASSUME IsFiniteSet(AgentTasks), AgentsInv, [Agents!Next]_chainVars
    PROVE  AgentsInv'
<1>1. CASE UNCHANGED chainVars
  <2>1. UNCHANGED <<agent, proposal, wallet, job, overlapped>>
    BY <1>1 DEF chainVars
  <2> QED
    BY <2>1, Zenon DEF AgentsInv, Used
<1>2. CASE Agents!Next
  <2>1. PICK t \in AgentTasks : \/ Agents!Begin(t) \/ Agents!Planned(t) \/ Agents!Answered(t)
                                \/ Agents!Failed(t) \/ Agents!Unfunded(t) \/ Agents!Finish(t)
    BY <1>2, Zenon DEF Agents!Next
  <2> QED
    BY <2>1, AgentBegins, AgentPlanned, AgentAnswered, AgentFailed, AgentUnfunded, AgentFinishes, Zenon
<1> QED
  BY <1>1, <1>2

\* Their type, and what they promise
LEMMA AgentsTyped ==
    ASSUME AgentsInv
    PROVE  Agents!TypeOK
<1>1. \A t \in AgentTasks : JobType(proposal, job[t])
  BY DEF AgentsInv, JobOk
<1>2. job = [t \in AgentTasks |-> job[t]]
  BY DEF AgentsInv
<1>3. job \in [AgentTasks -> [pc : {"new", "planning", "running"} \cup Agents!Outcomes,
                              order : Seq(DOMAIN proposal.deps), called : 0..Len(proposal.deps),
                              total : Nat, uncounted : Nat]]
  BY <1>1, <1>2, Zenon DEF JobType
<1> QED
  BY <1>3, Zenon DEF AgentsInv, Agents!TypeOK

LEMMA AgentsOrdered ==
    ASSUME AgentsInv
    PROVE  Agents!Ordered
<1>1. Agents!Sorting.cycle <=> ~Agents!Acyclic
  BY ProposalsSort DEF AgentsInv
<1>2. ASSUME NEW t \in AgentTasks, job[t].order # <<>>
      PROVE  /\ Agents!Range(job[t].order) = Agents!Ids /\ Agents!IsInjective(job[t].order)
             /\ \A i \in DOMAIN job[t].order : Agents!DepsOf(job[t].order[i]) \cap Agents!Ids
                                                  \subseteq {job[t].order[j] : j \in 1..(i - 1)}
  <2>1. WholeOrder(proposal, job[t].order)
    BY <1>2 DEF AgentsInv, JobOk, JobOrder
  <2> QED
    BY <2>1, Zenon DEF WholeOrder, Agents!Ids, Agents!IsInjective, Agents!DepsOf, Agents!DependsOn
<1> QED
  BY <1>1, <1>2, Zenon DEF Agents!Ordered

LEMMA AgentsKeepBudget ==
    ASSUME AgentsInv
    PROVE  Agents!BudgetKept /\ Agents!AllCalled
<1>1. ASSUME NEW t \in AgentTasks PROVE Agents!CostOfLast(t) = PriceOfLast(proposal, job[t])
  BY DEF Agents!CostOfLast, PriceOfLast
<1>2. ASSUME NEW t \in AgentTasks, agent # "autonomous"
      PROVE  /\ job[t].pc = "overBudget" => job[t].total - Agents!CostOfLast(t) <= 3
             /\ job[t].pc # "overBudget" => job[t].total <= 3
  BY <1>1, <1>2 DEF AgentsInv, JobOk, JobSpent
<1>3. ASSUME agent = "demand"
      PROVE  wallet + Agents!SumFunction([t \in AgentTasks |-> job[t].total + job[t].uncounted]) = 5
  <2>1. wallet + SumFunction(Used(job)) = 5
    BY <1>3, Zenon DEF AgentsInv
  <2>2. \A f : Agents!SumFunction(f) = SumFunction(f)
    BY DEF Agents!SumFunction, Agents!SumFunctionOnSet, Agents!FoldFunctionOnSet, Agents!MapThenFoldSet,
           SumFunction, SumFunctionOnSet, FoldFunctionOnSet, MapThenFoldSet
  <2> QED
    BY <2>1, <2>2, Zenon DEF Used
<1>4. ASSUME NEW t \in AgentTasks, agent = "demand", job[t].pc = "noFunds", ~overlapped
      PROVE  job[t].total + Agents!CostOfLast(t) > 3
  <2>1. JobAlone(agent, proposal, wallet, job[t])
    BY <1>4, Zenon DEF AgentsInv
  <2> QED
    BY <1>1, <1>4, <2>1 DEF JobAlone
<1>5. ASSUME NEW t \in AgentTasks, job[t].pc = "success"
      PROVE  job[t].called = Agents!Cardinality(Agents!Ids)
  <2>1. job[t].called = Len(job[t].order) /\ WholeOrder(proposal, job[t].order)
    BY <1>5 DEF AgentsInv, JobOk, JobOrder
  <2>2. PICK n \in 1..3 : GraphShape(proposal.deps, n)
    BY ProposalsShaped DEF AgentsInv, ProposalShape
  <2>3. Agents!Ids = 1..n /\ job[t].called = n
    BY <2>1, <2>2 DEF WholeOrder, GraphShape, Agents!Ids
  <2>4. Cardinality(1..n) = n
    <3>1. 1 \in Int /\ n \in Int
      OBVIOUS
    <3>2. Cardinality(1..n) = IF 1 > n THEN 0 ELSE n - 1 + 1
      BY <3>1, FS_Interval
    <3> QED
      BY <3>2
  <2>5. Agents!Cardinality(1..n) = Cardinality(1..n)
    BY DEF Agents!Cardinality, Cardinality
  <2> QED
    BY <2>3, <2>4, <2>5
<1>6. Agents!BudgetKept
  BY <1>2, <1>3, <1>4, Zenon DEF Agents!BudgetKept
<1> QED
  BY <1>5, <1>6 DEF Agents!AllCalled
=============================================================================
