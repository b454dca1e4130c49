------------------------------ MODULE StepGraph ------------------------------
(***************************************************************************)
(* The dependencies between the steps of a workflow, and the levels into   *)
(* which topologicalSort divides them; core/ai-planner.ts and              *)
(* core/execution-engine.ts of the reasoning engine hold a copy each.      *)
(*                                                                         *)
(* deps[s] is step.dependencies: a sequence, which the planner takes from  *)
(* a language model as it is, with duplicates and ids of no step.          *)
(***************************************************************************)
EXTENDS Integers, Sequences, FiniteSets, Functions

DependsOn(deps, s) == Range(deps[s])

\* A step's count starts at dependencies.length and falls once for each of the
\* removed steps that its dependencies include.
InDegreeDistinct(deps, s, removed) == Cardinality(DependsOn(deps, s) \ removed)
InDegree(deps, s, removed) == Len(deps[s]) - Cardinality(removed \cap DependsOn(deps, s))

NextLevelOfSome(deps, removed) ==
    {s \in DOMAIN deps \ removed : deps[s] = <<>> \/ DependsOn(deps, s) \cap removed # {}}

\* currentLevel: the steps left over whose count is zero
NextLevel(deps, removed) ==
    {s \in DOMAIN deps \ removed : InDegree(deps, s, removed) = 0}

\* rounds[n]: what the first n rounds have removed
Removed(deps) ==
    LET rounds[n \in 0..Cardinality(DOMAIN deps)] ==
            IF n = 0 THEN {}
            ELSE rounds[n - 1] \cup NextLevel(deps, rounds[n - 1])
    IN  rounds

\* Does topologicalSort return?  Else it throws 'Circular dependency detected'.
Sortable(deps) == Removed(deps)[Cardinality(DOMAIN deps)] = DOMAIN deps
=============================================================================
