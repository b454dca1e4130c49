----------------------------- MODULE SumTheorems -----------------------------
(***************************************************************************)
(* What SumFunctionOnSet and SumFunction (module Functions) compute on     *)
(* finite sets, in the form the conservation proofs need: changing one     *)
(* entry of a function changes its sum by the difference.                  *)
(* The arguments are by a smallest counterexample: strict inclusion is     *)
(* well-founded on the subsets of a finite set.                            *)
(***************************************************************************)
EXTENDS Integers, FiniteSets, Functions, FiniteSetTheorems, WellFoundedInduction, TLAPS

\* Induction over numbers is by a smallest counterexample.
LEMMA SmallestNumber ==
    ASSUME NEW C \in SUBSET Nat, C # {}
    PROVE  \E m \in C : \A n \in C : m <= n
<1>1. PICK m \in C : \A n \in C : ~(<<n, m>> \in OpToRel(<, Nat))
  BY NatLessThanWellFounded, WFMin
<1>2. ASSUME NEW n \in C PROVE ~(n < m)
  BY <1>1 DEF OpToRel
<1> QED
  BY <1>2

\* Among the sets of a non-empty collection of subsets of a finite set one has
\* no proper subset in the collection.
LEMMA SmallestSet ==
    ASSUME NEW S, IsFiniteSet(S), NEW C \in SUBSET (SUBSET S), C # {}
    PROVE  \E m \in C : \A t \in C : ~(t \subseteq m /\ t # m)
<1>1. IsWellFoundedOn(StrictSubsetOrdering(S), FiniteSubsetsOf(S))
  BY FS_StrictSubsetOrderingWellFounded
<1>2. C \subseteq FiniteSubsetsOf(S)
  BY FS_Subset DEF FiniteSubsetsOf
<1>3. PICK m \in C : \A t \in C : ~(<<t, m>> \in StrictSubsetOrdering(S))
  BY <1>1, <1>2, WFMin
<1>4. QED
  BY <1>3 DEF StrictSubsetOrdering

Pick(s) == CHOOSE x \in s : TRUE

\* sum is the recursive function behind SumFunctionOnSet(f, S).
IsSumOf(f, S, sum) ==
    sum = [s \in SUBSET S |-> IF s = {} THEN 0
                              ELSE f[Pick(s)] + sum[s \ {Pick(s)}]]

LEMMA SumIsChosen ==
    ASSUME NEW f, NEW S
    PROVE  SumFunctionOnSet(f, S) = (CHOOSE sum : IsSumOf(f, S, sum))[S]
BY DEF SumFunctionOnSet, FoldFunctionOnSet, MapThenFoldSet, IsSumOf, Pick

\* Two such functions agree where both are defined.
LEMMA SumsAgree ==
    ASSUME NEW f, NEW A, NEW B, IsFiniteSet(A), NEW a, NEW b,
           IsSumOf(f, A, a), IsSumOf(f, B, b),
           NEW s, s \subseteq A, s \subseteq B
    PROVE  a[s] = b[s]
<1> DEFINE Bad == {t \in SUBSET A : t \subseteq B /\ a[t] # b[t]}
<1>1. Bad = {}
  <2> SUFFICES ASSUME Bad # {} PROVE FALSE
    OBVIOUS
  <2>1. PICK m \in Bad : \A t \in Bad : ~(t \subseteq m /\ t # m)
    <3> HIDE DEF Bad
    <3>1. Bad \in SUBSET (SUBSET A)
      BY DEF Bad
    <3> QED
      BY <3>1, SmallestSet
  <2>2. m # {}
    BY DEF IsSumOf
  <2>3. Pick(m) \in m
    BY <2>2 DEF Pick
  <2>4. a[m \ {Pick(m)}] = b[m \ {Pick(m)}]
    BY <2>1, <2>3
  <2>5. /\ a[m] = f[Pick(m)] + a[m \ {Pick(m)}]
        /\ b[m] = f[Pick(m)] + b[m \ {Pick(m)}]
    BY <2>2 DEF IsSumOf
  <2> QED
    BY <2>4, <2>5
<1> QED
  BY <1>1

\* Every function has one for every finite set.
LEMMA SumExists ==
    ASSUME NEW f, NEW S, IsFiniteSet(S)
    PROVE  \E sum : IsSumOf(f, S, sum)
<1> DEFINE Bad == {t \in SUBSET S : ~ \E sum : IsSumOf(f, t, sum)}
<1>1. Bad = {}
  <2> SUFFICES ASSUME Bad # {} PROVE FALSE
    OBVIOUS
  <2>1. PICK m \in Bad : \A t \in Bad : ~(t \subseteq m /\ t # m)
    <3> HIDE DEF Bad
    <3>1. Bad \in SUBSET (SUBSET S)
      BY DEF Bad
    <3> QED
      BY <3>1, SmallestSet
  <2> DEFINE It(s) == CHOOSE sum : IsSumOf(f, s, sum)
             G == [s \in SUBSET m |-> IF s = {} THEN 0
                                      ELSE f[Pick(s)] + It(s \ {Pick(s)})[s \ {Pick(s)}]]
  <2>2. ASSUME NEW s \in SUBSET m, s # m
        PROVE  IsSumOf(f, s, It(s))
    <3>1. s \notin Bad /\ s \in SUBSET S
      BY <2>1, <2>2
    <3>2. \E sum : IsSumOf(f, s, sum)
      BY <3>1
    <3> QED
      BY <3>2
  <2>3. ASSUME NEW s \in SUBSET m, s # m
        PROVE  It(s)[s] = G[s]
    <3>1. IsSumOf(f, s, It(s))
      BY <2>2, <2>3
    <3>2. CASE s = {}
      BY <3>1, <3>2 DEF IsSumOf
    <3>3. CASE s # {}
      <4> DEFINE r == s \ {Pick(s)}
      <4>1. Pick(s) \in s
        BY <3>3 DEF Pick
      <4>2. r \in SUBSET m /\ r # m /\ r \subseteq s
        BY <4>1
      <4>3. IsSumOf(f, r, It(r))
        BY <2>2, <4>2
      <4>4. IsFiniteSet(s)
        BY FS_Subset
      <4>5. It(s)[r] = It(r)[r]
        <5> HIDE DEF r, It
        <5> QED
          BY <3>1, <4>2, <4>3, <4>4, SumsAgree
      <4>6. It(s)[s] = f[Pick(s)] + It(s)[r]
        <5> HIDE DEF It
        <5> QED
          BY <3>1, <3>3 DEF IsSumOf
      <4>7. G[s] = f[Pick(s)] + It(r)[r]
        BY <3>3
      <4> QED
        BY <4>5, <4>6, <4>7
    <3> QED
      BY <3>2, <3>3
  <2>4. ASSUME NEW s \in SUBSET m, s # {}
        PROVE  It(s \ {Pick(s)})[s \ {Pick(s)}] = G[s \ {Pick(s)}]
    <3>1. Pick(s) \in s
      BY <2>4 DEF Pick
    <3>2. s \ {Pick(s)} \in SUBSET m /\ s \ {Pick(s)} # m
      BY <3>1
    <3> QED
      BY <2>3, <3>2
  <2>5. IsSumOf(f, m, G)
    <3>1. ASSUME NEW s \in SUBSET m
          PROVE  G[s] = IF s = {} THEN 0 ELSE f[Pick(s)] + G[s \ {Pick(s)}]
      <4>1. CASE s = {}
        BY <4>1
      <4>2. CASE s # {}
        <5>1. G[s] = f[Pick(s)] + It(s \ {Pick(s)})[s \ {Pick(s)}]
          BY <4>2
        <5> HIDE DEF G, It
        <5> QED
          BY <4>2, <5>1, <2>4
      <4> QED
        BY <4>1, <4>2
    <3>2. G = [s \in SUBSET m |-> G[s]]
      OBVIOUS
    <3> HIDE DEF G
    <3> QED
      BY <3>1, <3>2 DEF IsSumOf
  <2> QED
    BY <2>1, <2>5
<1> QED
  BY <1>1

\* The defining equations, with the element that CHOOSE takes.
LEMMA SumUnfold ==
    ASSUME NEW f, NEW S, IsFiniteSet(S)
    PROVE  SumFunctionOnSet(f, S) =
             IF S = {} THEN 0
             ELSE f[Pick(S)] + SumFunctionOnSet(f, S \ {Pick(S)})
<1> DEFINE It(s) == CHOOSE sum : IsSumOf(f, s, sum)
           R == S \ {Pick(S)}
<1>1. IsSumOf(f, S, It(S))
  BY SumExists
<1>2. IsFiniteSet(R)
  BY FS_Subset
<1>3. IsSumOf(f, R, It(R))
  BY <1>2, SumExists
<1>4. SumFunctionOnSet(f, S) = It(S)[S] /\ SumFunctionOnSet(f, R) = It(R)[R]
  BY SumIsChosen
<1>5. It(S)[R] = It(R)[R]
  <2>1. R \subseteq S
    OBVIOUS
  <2> HIDE DEF R, It
  <2> QED
    BY <1>1, <1>3, <2>1, SumsAgree
<1>6. It(S)[S] = IF S = {} THEN 0 ELSE f[Pick(S)] + It(S)[R]
  <2> HIDE DEF It
  <2> QED
    BY <1>1 DEF IsSumOf
<1> HIDE DEF It
<1> QED
  BY <1>4, <1>5, <1>6

\* A sum of integers is an integer, and a sum of naturals a natural.
LEMMA SumType ==
    ASSUME NEW S, IsFiniteSet(S), NEW f, \A x \in S : f[x] \in Int
    PROVE  /\ SumFunctionOnSet(f, S) \in Int
           /\ (\A x \in S : f[x] >= 0) => SumFunctionOnSet(f, S) >= 0
<1> DEFINE Ok(t) == /\ SumFunctionOnSet(f, t) \in Int
                    /\ (\A x \in t : f[x] >= 0) => SumFunctionOnSet(f, t) >= 0
           Bad == {t \in SUBSET S : ~Ok(t)}
<1>1. Bad = {}
  <2> SUFFICES ASSUME Bad # {} PROVE FALSE
    OBVIOUS
  <2>1. PICK m \in Bad : \A t \in Bad : ~(t \subseteq m /\ t # m)
    <3> HIDE DEF Bad
    <3>1. Bad \in SUBSET (SUBSET S)
      BY DEF Bad
    <3> QED
      BY <3>1, SmallestSet
  <2>2. IsFiniteSet(m)
    BY FS_Subset
  <2>3. SumFunctionOnSet(f, m) =
          IF m = {} THEN 0 ELSE f[Pick(m)] + SumFunctionOnSet(f, m \ {Pick(m)})
    BY <2>2, SumUnfold
  <2>4. m # {}
    BY <2>1, <2>3
  <2>5. Pick(m) \in m
    BY <2>4 DEF Pick
  <2>6. Ok(m \ {Pick(m)})
    BY <2>1, <2>5
  <2> QED
    BY <2>1, <2>3, <2>4, <2>5, <2>6
<1> QED
  BY <1>1

\* A sum depends only on the entries it adds.
LEMMA SumCongruence ==
    ASSUME NEW S, IsFiniteSet(S), NEW f, NEW g, \A x \in S : f[x] = g[x]
    PROVE  SumFunctionOnSet(f, S) = SumFunctionOnSet(g, S)
<1> DEFINE Bad == {t \in SUBSET S : SumFunctionOnSet(f, t) # SumFunctionOnSet(g, t)}
<1>1. Bad = {}
  <2> SUFFICES ASSUME Bad # {} PROVE FALSE
    OBVIOUS
  <2>1. PICK m \in Bad : \A t \in Bad : ~(t \subseteq m /\ t # m)
    <3> HIDE DEF Bad
    <3>1. Bad \in SUBSET (SUBSET S)
      BY DEF Bad
    <3> QED
      BY <3>1, SmallestSet
  <2>2. IsFiniteSet(m)
    BY FS_Subset
  <2>3. /\ SumFunctionOnSet(f, m) =
             IF m = {} THEN 0 ELSE f[Pick(m)] + SumFunctionOnSet(f, m \ {Pick(m)})
        /\ SumFunctionOnSet(g, m) =
             IF m = {} THEN 0 ELSE g[Pick(m)] + SumFunctionOnSet(g, m \ {Pick(m)})
    BY <2>2, SumUnfold
  <2>4. m # {}
    BY <2>1, <2>3
  <2>5. Pick(m) \in m
    BY <2>4 DEF Pick
  <2>6. SumFunctionOnSet(f, m \ {Pick(m)}) = SumFunctionOnSet(g, m \ {Pick(m)})
    BY <2>1, <2>5
  <2> QED
    BY <2>1, <2>3, <2>4, <2>5, <2>6
<1> QED
  BY <1>1

\* Any element may be taken out first.
LEMMA SumRemove ==
    ASSUME NEW S, IsFiniteSet(S), NEW f, \A x \in S : f[x] \in Int, NEW y \in S
    PROVE  SumFunctionOnSet(f, S) = f[y] + SumFunctionOnSet(f, S \ {y})
<1> DEFINE Ok(t) == \A z \in t : SumFunctionOnSet(f, t)
                                   = f[z] + SumFunctionOnSet(f, t \ {z})
           Bad == {t \in SUBSET S : ~Ok(t)}
<1>1. Bad = {}
  <2> SUFFICES ASSUME Bad # {} PROVE FALSE
    OBVIOUS
  <2>1. PICK m \in Bad : \A t \in Bad : ~(t \subseteq m /\ t # m)
    <3> HIDE DEF Bad
    <3>1. Bad \in SUBSET (SUBSET S)
      BY DEF Bad
    <3> QED
      BY <3>1, SmallestSet
  <2>2. PICK z \in m : SumFunctionOnSet(f, m) # f[z] + SumFunctionOnSet(f, m \ {z})
    BY <2>1
  <2> DEFINE x == Pick(m)
  <2>3. x \in m
    BY <2>2 DEF Pick
  <2>4. IsFiniteSet(m)
    BY FS_Subset
  <2>5. SumFunctionOnSet(f, m) = f[x] + SumFunctionOnSet(f, m \ {x})
    BY <2>2, <2>4, SumUnfold
  <2>6. x # z
    BY <2>2, <2>5
  <2> HIDE DEF x
  <2>7. SumFunctionOnSet(f, m \ {x}) = f[z] + SumFunctionOnSet(f, (m \ {x}) \ {z})
    <3>1. Ok(m \ {x})
      BY <2>1, <2>3
    <3> QED
      BY <3>1, <2>6
  <2>8. SumFunctionOnSet(f, m \ {z}) = f[x] + SumFunctionOnSet(f, (m \ {z}) \ {x})
    <3>1. Ok(m \ {z})
      BY <2>1
    <3> QED
      BY <3>1, <2>3, <2>6
  <2>9. SumFunctionOnSet(f, m \ {z}) = f[x] + SumFunctionOnSet(f, (m \ {x}) \ {z})
    <3>1. (m \ {x}) \ {z} = (m \ {z}) \ {x}
      OBVIOUS
    <3> QED
      BY <2>8, <3>1
  <2>10. SumFunctionOnSet(f, (m \ {x}) \ {z}) \in Int
    <3>1. IsFiniteSet((m \ {x}) \ {z}) /\ \A u \in (m \ {x}) \ {z} : f[u] \in Int
      BY <2>4, FS_Subset
    <3> QED
      BY <3>1, SumType
  <2>11. f[x] \in Int /\ f[z] \in Int
    BY <2>1, <2>3
  <2> QED
    BY <2>2, <2>5, <2>7, <2>9, <2>10, <2>11
<1> QED
  BY <1>1

\* Changing one entry of a function of integers changes its sum by the difference.
THEOREM SumUpdate ==
    ASSUME NEW S, IsFiniteSet(S), NEW f \in [S -> Int], NEW g \in [S -> Int],
           NEW y \in S, \A x \in S \ {y} : g[x] = f[x]
    PROVE  SumFunction(g) - SumFunction(f) = g[y] - f[y]
<1>1. SumFunction(f) = SumFunctionOnSet(f, S) /\ SumFunction(g) = SumFunctionOnSet(g, S)
  BY DEF SumFunction
<1>2. IsFiniteSet(S \ {y})
  BY FS_Subset
<1>3. SumFunctionOnSet(f, S \ {y}) = SumFunctionOnSet(g, S \ {y})
  BY <1>2, SumCongruence
<1>4. SumFunctionOnSet(f, S) = f[y] + SumFunctionOnSet(f, S \ {y})
  BY SumRemove
<1>5. SumFunctionOnSet(g, S) = g[y] + SumFunctionOnSet(g, S \ {y})
  BY SumRemove
<1>6. SumFunctionOnSet(f, S \ {y}) \in Int
  BY <1>2, SumType
<1> QED
  BY <1>1, <1>3, <1>4, <1>5, <1>6

\* A sum of naturals is at least each of its entries.
THEOREM SumAtLeastEntry ==
    ASSUME NEW S, IsFiniteSet(S), NEW f \in [S -> Nat], NEW y \in S
    PROVE  SumFunction(f) \in Nat /\ SumFunction(f) >= f[y]
<1>1. SumFunction(f) = SumFunctionOnSet(f, S)
  BY DEF SumFunction
<1>2. SumFunctionOnSet(f, S) = f[y] + SumFunctionOnSet(f, S \ {y})
  BY SumRemove
<1>3. SumFunctionOnSet(f, S \ {y}) \in Int /\ SumFunctionOnSet(f, S \ {y}) >= 0
  <2>1. IsFiniteSet(S \ {y}) /\ \A x \in S \ {y} : f[x] \in Int /\ f[x] >= 0
    BY FS_Subset
  <2> QED
    BY <2>1, SumType
<1> QED
  BY <1>1, <1>2, <1>3

\* The sum of a function that is zero everywhere.
THEOREM SumOfZeros ==
    ASSUME NEW S, IsFiniteSet(S), NEW f \in [S -> Int], \A x \in S : f[x] = 0
    PROVE  SumFunction(f) = 0
<1> DEFINE Bad == {t \in SUBSET S : SumFunctionOnSet(f, t) # 0}
<1>1. Bad = {}
  <2> SUFFICES ASSUME Bad # {} PROVE FALSE
    OBVIOUS
  <2>1. PICK m \in Bad : \A t \in Bad : ~(t \subseteq m /\ t # m)
    <3> HIDE DEF Bad
    <3>1. Bad \in SUBSET (SUBSET S)
      BY DEF Bad
    <3> QED
      BY <3>1, SmallestSet
  <2>2. SumFunctionOnSet(f, m) =
          IF m = {} THEN 0 ELSE f[Pick(m)] + SumFunctionOnSet(f, m \ {Pick(m)})
    BY FS_Subset, SumUnfold
  <2>3. m # {}
    BY <2>1, <2>2
  <2>4. Pick(m) \in m
    BY <2>3 DEF Pick
  <2> QED
    BY <2>1, <2>2, <2>3, <2>4
<1> QED
  BY <1>1 DEF SumFunction

\* Entries that are zero may be left out.
THEOREM SumOfSupport ==
    ASSUME NEW S, IsFiniteSet(S), NEW T \in SUBSET S, NEW f \in [T -> Int],
           NEW g \in [S -> Int], \A x \in T : g[x] = f[x], \A x \in S \ T : g[x] = 0
    PROVE  SumFunction(g) = SumFunction(f)
<1> DEFINE Bad == {t \in SUBSET (S \ T) :
                     SumFunctionOnSet(g, T \cup t) # SumFunctionOnSet(g, T)}
<1>1. Bad = {}
  <2> SUFFICES ASSUME Bad # {} PROVE FALSE
    OBVIOUS
  <2>1. PICK m \in Bad : \A t \in Bad : ~(t \subseteq m /\ t # m)
    <3> HIDE DEF Bad
    <3>1. Bad \in SUBSET (SUBSET S)
      BY DEF Bad
    <3> QED
      BY <3>1, SmallestSet
  <2>2. m # {}
    <3>1. m = {} => T \cup m = T
      OBVIOUS
    <3> QED
      BY <2>1, <3>1
  <2>3. PICK z \in m : TRUE
    BY <2>2
  <2>4. z \notin T /\ g[z] = 0
    BY <2>3
  <2>5. IsFiniteSet(T \cup m) /\ \A x \in T \cup m : g[x] \in Int
    <3>1. T \cup m \in SUBSET S
      OBVIOUS
    <3> QED
      BY <3>1, FS_Subset
  <2>6. SumFunctionOnSet(g, T \cup m) = g[z] + SumFunctionOnSet(g, (T \cup m) \ {z})
    BY <2>3, <2>5, SumRemove
  <2>7. (T \cup m) \ {z} = T \cup (m \ {z})
    BY <2>3, <2>4
  <2>8. SumFunctionOnSet(g, T \cup (m \ {z})) = SumFunctionOnSet(g, T)
    <3>1. m \ {z} \notin Bad /\ m \ {z} \in SUBSET (S \ T)
      BY <2>1, <2>3
    <3> QED
      BY <3>1
  <2>9. SumFunctionOnSet(g, T) \in Int
    <3>1. IsFiniteSet(T) /\ \A x \in T : g[x] \in Int
      BY FS_Subset
    <3> QED
      BY <3>1, SumType
  <2>10. SumFunctionOnSet(g, T \cup m) # SumFunctionOnSet(g, T)
    BY <2>1
  <2>11. SumFunctionOnSet(g, T \cup m) = 0 + SumFunctionOnSet(g, T)
    BY <2>4, <2>6, <2>7, <2>8
  <2> QED
    BY <2>9, <2>10, <2>11
<1>2. SumFunctionOnSet(g, S) = SumFunctionOnSet(g, T)
  <2>1. S \ T \notin Bad
    BY <1>1
  <2>2. SumFunctionOnSet(g, T \cup (S \ T)) = SumFunctionOnSet(g, T)
    BY <2>1
  <2>3. T \cup (S \ T) = S
    OBVIOUS
  <2> QED
    BY <2>2, <2>3
<1>3. SumFunctionOnSet(g, T) = SumFunctionOnSet(f, T)
  BY FS_Subset, SumCongruence
<1> QED
  BY <1>2, <1>3 DEF SumFunction
=============================================================================
