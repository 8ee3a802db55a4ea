---------------------------- MODULE SumTheorems ----------------------------
(***************************************************************************)
(* Facts about SumFunctionOnSet of the community module Functions, which   *)
(* adds up credits, admissions and bytes in the specifications.            *)
(*                                                                         *)
(* The provers cannot instantiate an induction theorem, whose parameter is *)
(* an operator.  Induction is done here on sets of numbers instead: the    *)
(* numbers of which a statement is true contain zero and every successor   *)
(* (NatSetInduction), where the statement is about all finite sets of that *)
(* cardinality.                                                            *)
(***************************************************************************)
EXTENDS Integers, FiniteSets, Functions, FiniteSetTheorems, WellFoundedInduction, TLAPS

\* Every set of naturals that is not empty has a least element.
LEMMA LeastOf ==
  ASSUME NEW T \in SUBSET Nat, T # {}
  PROVE  \E n \in T : \A m \in T : n <= m
<1> DEFINE U == {0..n : n \in T}
<1>1. U \subseteq FiniteSubsetsOf(Nat) /\ U # {}
  <2>1. ASSUME NEW n \in T PROVE 0..n \subseteq Nat /\ IsFiniteSet(0..n)
    BY FS_Interval
  <2> QED BY <2>1 DEF FiniteSubsetsOf
<1>2. PICK u \in U : \A v \in U : ~(<<v, u>> \in StrictSubsetOrdering(Nat))
  BY <1>1, WFMin, FS_StrictSubsetOrderingWellFounded
<1>3. PICK n \in T : u = 0..n
  OBVIOUS
<1>4. ASSUME NEW m \in T, m < n PROVE FALSE
  <2>1. 0..m \in U /\ 0..m \subseteq Nat /\ u \subseteq Nat /\ 0..m \subseteq u
    BY <1>3, <1>4
  <2>2. n \in u /\ n \notin 0..m
    BY <1>3, <1>4
  <2> QED BY <1>2, <2>1, <2>2 DEF StrictSubsetOrdering
<1> QED BY <1>4

\* Induction over the naturals, about a set instead of a predicate.
LEMMA NatSetInduction ==
  ASSUME NEW T, 0 \in T, \A n \in Nat : n \in T => n + 1 \in T
  PROVE  Nat \subseteq T
<1> SUFFICES ASSUME Nat \ T # {} PROVE FALSE
  OBVIOUS
<1>1. PICK n \in Nat \ T : \A m \in Nat \ T : n <= m
  BY LeastOf
<1>2. n # 0 /\ n - 1 \in Nat /\ ~(n <= n - 1)
  OBVIOUS
<1>3. n - 1 \in T
  BY <1>1, <1>2
<1>4. n - 1 + 1 \in T
  BY <1>2, <1>3
<1> QED BY <1>2, <1>4

-----------------------------------------------------------------------------
(* The recursive function inside SumFunctionOnSet.                         *)

AnyOf(s) == CHOOSE x \in s : TRUE

FirstPlus(f, g, s) == IF s = {} THEN 0 ELSE f[AnyOf(s)] + g[s \ {AnyOf(s)}]

IsSum(f, g, S) == g = [s \in SUBSET S |-> FirstPlus(f, g, s)]

\* AnyOf picks an element, and what is left is smaller by one.
LEMMA SomeSmaller ==
  ASSUME NEW S, IsFiniteSet(S), S # {}
  PROVE  /\ AnyOf(S) \in S
         /\ S \ {AnyOf(S)} \subseteq S
         /\ IsFiniteSet(S \ {AnyOf(S)})
         /\ Cardinality(S) \in Nat \ {0}
         /\ Cardinality(S \ {AnyOf(S)}) = Cardinality(S) - 1
<1>1. AnyOf(S) \in S
  BY DEF AnyOf
<1>2. IsFiniteSet(S \ {AnyOf(S)}) /\ Cardinality(S \ {AnyOf(S)}) = Cardinality(S) - 1
  BY <1>1, FS_RemoveElement
<1>3. Cardinality(S) \in Nat /\ Cardinality(S) # 0
  BY FS_CardinalityType, FS_EmptySet
<1> QED BY <1>1, <1>2, <1>3

\* For a finite set the recursive function exists: functions that satisfy the
\* equation on all sets of at most n elements are improved step by step.
LEMMA SumExists ==
  ASSUME NEW f, NEW S, IsFiniteSet(S)
  PROVE  \E g : IsSum(f, g, S)
<1> DEFINE Upto(g, n) == /\ g = [s \in SUBSET S |-> g[s]]
                         /\ \A s \in SUBSET S : Cardinality(s) <= n => g[s] = FirstPlus(f, g, s)
           T == {n \in Nat : \E g : Upto(g, n)}
<1>1. \A s \in SUBSET S : IsFiniteSet(s) /\ Cardinality(s) \in Nat
  BY FS_Subset, FS_CardinalityType
<1>2. 0 \in T
  <2> DEFINE g == [s \in SUBSET S |-> 0]
  <2>1. ASSUME NEW s \in SUBSET S, Cardinality(s) <= 0 PROVE g[s] = FirstPlus(f, g, s)
    <3>1. Cardinality(s) = 0
      BY <1>1, <2>1
    <3>2. s = {}
      BY <1>1, <3>1, FS_EmptySet
    <3> QED BY <3>2 DEF FirstPlus
  <2>2. Upto(g, 0)
    BY <2>1
  <2> QED BY <2>2
<1>3. ASSUME NEW n \in Nat, n \in T PROVE n + 1 \in T
  <2>1. PICK g : Upto(g, n)
    BY <1>3
  <2> DEFINE h == [s \in SUBSET S |-> FirstPlus(f, g, s)]
  <2>2. ASSUME NEW s \in SUBSET S, Cardinality(s) <= n PROVE h[s] = g[s]
    BY <2>1, <2>2
  <2>3. ASSUME NEW s \in SUBSET S, Cardinality(s) <= n + 1 PROVE h[s] = FirstPlus(f, h, s)
    <3>1. CASE s = {}
      BY <3>1 DEF FirstPlus
    <3>2. CASE s # {}
      <4>1. s \ {AnyOf(s)} \in SUBSET S /\ Cardinality(s \ {AnyOf(s)}) = Cardinality(s) - 1
        BY <1>1, <3>2, SomeSmaller
      <4>2. Cardinality(s \ {AnyOf(s)}) <= n
        BY <1>1, <2>3, <4>1
      <4>3. h[s \ {AnyOf(s)}] = g[s \ {AnyOf(s)}]
        BY <2>2, <4>1, <4>2
      <4> QED BY <3>2, <4>3 DEF FirstPlus
    <3> QED BY <3>1, <3>2
  <2>4. Upto(h, n + 1)
    BY <2>3
  <2> HIDE DEF Upto, h
  <2> QED BY <2>4
<1>4. Cardinality(S) \in T
  <2> HIDE DEF T
  <2> QED BY <1>2, <1>3, FS_CardinalityType, NatSetInduction
<1>5. PICK g : Upto(g, Cardinality(S))
  BY <1>4
<1>6. \A s \in SUBSET S : g[s] = FirstPlus(f, g, s)
  BY <1>5, FS_Subset
<1> QED BY <1>5, <1>6 DEF IsSum

\* Two solutions of the equation agree where both are defined.
LEMMA SumUnique ==
  ASSUME NEW f, NEW S, NEW T, IsFiniteSet(S), T \subseteq S,
         NEW g, NEW h, IsSum(f, g, S), IsSum(f, h, T)
  PROVE  g[T] = h[T]
<1> DEFINE A == {n \in Nat : \A s \in SUBSET T : Cardinality(s) = n => g[s] = h[s]}
<1>1. \A s \in SUBSET T : s \in SUBSET S /\ IsFiniteSet(s) /\ Cardinality(s) \in Nat
  BY FS_Subset, FS_CardinalityType
<1>2. \A s \in SUBSET T : g[s] = FirstPlus(f, g, s) /\ h[s] = FirstPlus(f, h, s)
  BY <1>1 DEF IsSum
<1>3. 0 \in A
  <2>1. ASSUME NEW s \in SUBSET T, Cardinality(s) = 0 PROVE g[s] = h[s]
    <3>1. s = {}
      BY <1>1, <2>1, FS_EmptySet
    <3> QED BY <1>2, <3>1 DEF FirstPlus
  <2> QED BY <2>1
<1>4. ASSUME NEW n \in Nat, n \in A PROVE n + 1 \in A
  <2>1. ASSUME NEW s \in SUBSET T, Cardinality(s) = n + 1 PROVE g[s] = h[s]
    <3>1. s # {}
      BY <2>1, FS_EmptySet
    <3>2. s \ {AnyOf(s)} \in SUBSET T /\ Cardinality(s \ {AnyOf(s)}) = n
      BY <1>1, <2>1, <3>1, SomeSmaller
    <3>3. g[s \ {AnyOf(s)}] = h[s \ {AnyOf(s)}]
      BY <1>4, <3>2
    <3> QED BY <1>2, <3>3 DEF FirstPlus
  <2> QED BY <2>1
<1>5. Cardinality(T) \in A
  <2> HIDE DEF A
  <2> QED BY <1>1, <1>3, <1>4, NatSetInduction
<1> QED BY <1>5

-----------------------------------------------------------------------------
(* What the specifications need of sums.                                   *)

\* The sum is the value of any solution of the equation.
LEMMA SumIsSolution ==
  ASSUME NEW f, NEW S, IsFiniteSet(S),
         NEW T, T \subseteq S, NEW g, IsSum(f, g, S)
  PROVE  SumFunctionOnSet(f, T) = g[T]
<1> DEFINE h == CHOOSE h : IsSum(f, h, T)
<1>1. IsFiniteSet(T)
  BY FS_Subset
<1>2. IsSum(f, h, T)
  BY <1>1, SumExists
<1>3. SumFunctionOnSet(f, T) = h[T]
  BY DEF SumFunctionOnSet, FoldFunctionOnSet, MapThenFoldSet, IsSum, FirstPlus, AnyOf
<1> HIDE DEF h
<1> QED BY <1>2, <1>3, SumUnique

\* A sum over nothing is zero.
LEMMA SumOfNothing ==
  ASSUME NEW f
  PROVE  SumFunctionOnSet(f, {}) = 0
<1>1. IsFiniteSet({})
  BY FS_EmptySet
<1>2. PICK g : IsSum(f, g, {})
  BY <1>1, SumExists
<1>3. g[{}] = 0
  BY <1>2 DEF IsSum, FirstPlus
<1> QED BY <1>1, <1>2, <1>3, SumIsSolution

\* The element that is taken first.
LEMMA SumOfFirst ==
  ASSUME NEW f, NEW S, IsFiniteSet(S), S # {}
  PROVE  SumFunctionOnSet(f, S) = f[AnyOf(S)] + SumFunctionOnSet(f, S \ {AnyOf(S)})
<1>1. PICK g : IsSum(f, g, S)
  BY SumExists
<1>2. g[S] = f[AnyOf(S)] + g[S \ {AnyOf(S)}]
  BY <1>1 DEF IsSum, FirstPlus
<1>3. SumFunctionOnSet(f, S) = g[S]
  BY <1>1, SumIsSolution
<1>4. SumFunctionOnSet(f, S \ {AnyOf(S)}) = g[S \ {AnyOf(S)}]
  BY <1>1, SumIsSolution
<1> QED BY <1>2, <1>3, <1>4

\* Sums of integers are integers, and of naturals are naturals.
LEMMA SumType ==
  ASSUME NEW R \in {Nat, Int}, NEW f, NEW S, IsFiniteSet(S), \A x \in S : f[x] \in R
  PROVE  SumFunctionOnSet(f, S) \in R
<1> DEFINE A == {n \in Nat : \A s \in SUBSET S : Cardinality(s) = n => SumFunctionOnSet(f, s) \in R}
<1>1. \A s \in SUBSET S : IsFiniteSet(s) /\ Cardinality(s) \in Nat
  BY FS_Subset, FS_CardinalityType
<1>2. 0 \in A
  <2>1. ASSUME NEW s \in SUBSET S, Cardinality(s) = 0 PROVE SumFunctionOnSet(f, s) \in R
    <3>1. s = {}
      BY <1>1, <2>1, FS_EmptySet
    <3> QED BY <3>1, SumOfNothing
  <2> QED BY <2>1
<1>3. ASSUME NEW n \in Nat, n \in A PROVE n + 1 \in A
  <2>1. ASSUME NEW s \in SUBSET S, Cardinality(s) = n + 1 PROVE SumFunctionOnSet(f, s) \in R
    <3>1. s # {}
      BY <2>1, FS_EmptySet
    <3>2. s \ {AnyOf(s)} \in SUBSET S /\ Cardinality(s \ {AnyOf(s)}) = n /\ AnyOf(s) \in S
      BY <1>1, <2>1, <3>1, SomeSmaller
    <3>3. SumFunctionOnSet(f, s \ {AnyOf(s)}) \in R /\ f[AnyOf(s)] \in R
      BY <1>3, <3>2
    <3>4. SumFunctionOnSet(f, s) = f[AnyOf(s)] + SumFunctionOnSet(f, s \ {AnyOf(s)})
      BY <1>1, <3>1, SumOfFirst
    <3> QED BY <3>3, <3>4
  <2> QED BY <2>1
<1>4. Cardinality(S) \in A
  <2> HIDE DEF A
  <2> QED BY <1>1, <1>2, <1>3, NatSetInduction
<1> QED BY <1>4

\* Any element may be taken first.
LEMMA SumWithout ==
  ASSUME NEW f, NEW S, IsFiniteSet(S), \A x \in S : f[x] \in Int, NEW y \in S
  PROVE  SumFunctionOnSet(f, S) = f[y] + SumFunctionOnSet(f, S \ {y})
<1> DEFINE Sum(s) == SumFunctionOnSet(f, s)
<1> DEFINE A == {n \in Nat : \A s \in SUBSET S : Cardinality(s) = n =>
                   \A z \in s : Sum(s) = f[z] + Sum(s \ {z})}
<1>1. \A s \in SUBSET S : IsFiniteSet(s) /\ Cardinality(s) \in Nat
  BY FS_Subset, FS_CardinalityType
<1>2. \A s \in SUBSET S : Sum(s) \in Int
  BY <1>1, SumType
<1> HIDE DEF Sum
<1>3. 0 \in A
  BY <1>1, FS_EmptySet
<1>4. ASSUME NEW n \in Nat, n \in A PROVE n + 1 \in A
  <2>1. ASSUME NEW s \in SUBSET S, Cardinality(s) = n + 1, NEW z \in s
        PROVE  Sum(s) = f[z] + Sum(s \ {z})
    <3> DEFINE x == AnyOf(s)
    <3>1. s # {}
      OBVIOUS
    <3>2. x \in s /\ Cardinality(s \ {x}) = n
      BY <1>1, <2>1, <3>1, SomeSmaller
    <3>3. Sum(s) = f[x] + Sum(s \ {x})
      BY <1>1, <3>1, SumOfFirst DEF Sum
    <3>4. CASE z = x
      BY <3>3, <3>4
    <3>5. CASE z # x
      <4>1. Sum(s \ {x}) = f[z] + Sum((s \ {x}) \ {z})
        BY <1>4, <3>2, <3>5
      <4>2. Cardinality(s \ {z}) = n
        BY <1>1, <2>1, FS_RemoveElement
      <4>3. Sum(s \ {z}) = f[x] + Sum((s \ {z}) \ {x})
        BY <1>4, <3>2, <3>5, <4>2
      <4>4. (s \ {x}) \ {z} = (s \ {z}) \ {x}
        OBVIOUS
      <4>5. /\ f[x] \in Int /\ f[z] \in Int
            /\ Sum((s \ {z}) \ {x}) \in Int
        BY <1>2, <3>2
      <4> HIDE DEF x, A
      <4>6. Sum(s) = f[x] + (f[z] + Sum((s \ {z}) \ {x}))
        BY <3>3, <4>1, <4>4
      <4> QED BY <4>3, <4>5, <4>6
    <3> QED BY <3>4, <3>5
  <2> QED BY <2>1
<1>5. Cardinality(S) \in A
  <2> HIDE DEF A
  <2> QED BY <1>1, <1>3, <1>4, NatSetInduction
<1> QED BY <1>5 DEF Sum

\* Only the values in the set matter.
LEMMA SumSame ==
  ASSUME NEW f, NEW g, NEW S, IsFiniteSet(S), \A x \in S : f[x] = g[x]
  PROVE  SumFunctionOnSet(f, S) = SumFunctionOnSet(g, S)
<1>1. PICK h : IsSum(f, h, S)
  BY SumExists
<1>2. \A s \in SUBSET S : s # {} => AnyOf(s) \in S
  BY DEF AnyOf
<1>3. IsSum(g, h, S)
  BY <1>1, <1>2 DEF IsSum, FirstPlus
<1> QED BY <1>1, <1>3, SumIsSolution

\* One element more.
LEMMA SumWith ==
  ASSUME NEW f, NEW S, IsFiniteSet(S), NEW y, y \notin S,
         f[y] \in Int, \A x \in S : f[x] \in Int
  PROVE  SumFunctionOnSet(f, S \cup {y}) = SumFunctionOnSet(f, S) + f[y]
<1>1. IsFiniteSet(S \cup {y}) /\ (S \cup {y}) \ {y} = S
  BY FS_AddElement
<1>2. SumFunctionOnSet(f, S \cup {y}) = f[y] + SumFunctionOnSet(f, S)
  BY <1>1, SumWithout
<1>3. SumFunctionOnSet(f, S) \in Int
  BY SumType
<1> QED BY <1>2, <1>3

\* One value changed.
LEMMA SumChanged ==
  ASSUME NEW f, NEW g, NEW S, IsFiniteSet(S), NEW y \in S,
         \A x \in S : f[x] \in Int /\ g[x] \in Int,
         \A x \in S \ {y} : f[x] = g[x]
  PROVE  SumFunctionOnSet(g, S) = SumFunctionOnSet(f, S) + g[y] - f[y]
<1>1. IsFiniteSet(S \ {y})
  BY FS_RemoveElement
<1>2. SumFunctionOnSet(f, S \ {y}) = SumFunctionOnSet(g, S \ {y})
  BY <1>1, SumSame
<1>3. /\ SumFunctionOnSet(f, S) = f[y] + SumFunctionOnSet(f, S \ {y})
      /\ SumFunctionOnSet(g, S) = g[y] + SumFunctionOnSet(g, S \ {y})
  BY SumWithout
<1>4. SumFunctionOnSet(f, S \ {y}) \in Int
  BY <1>1, SumType
<1> QED BY <1>2, <1>3, <1>4

\* A sum of naturals grows with the set.
LEMMA SumMonotone ==
  ASSUME NEW f, NEW S, IsFiniteSet(S), \A x \in S : f[x] \in Nat,
         NEW T, T \subseteq S
  PROVE  SumFunctionOnSet(f, T) <= SumFunctionOnSet(f, S)
<1> DEFINE Sum(s) == SumFunctionOnSet(f, s)
<1> DEFINE A == {n \in Nat : \A s \in SUBSET S : Cardinality(s) = n /\ T \subseteq s
                   => Sum(T) <= Sum(s)}
<1>1. \A s \in SUBSET S : IsFiniteSet(s) /\ Cardinality(s) \in Nat
  BY FS_Subset, FS_CardinalityType
<1>2. \A s \in SUBSET S : Sum(s) \in Nat
  BY <1>1, SumType
<1>3. \A s \in SUBSET S, y \in S : y \in s => Sum(s) = f[y] + Sum(s \ {y})
  BY <1>1, SumWithout
<1> HIDE DEF Sum
<1>4. 0 \in A
  <2>1. ASSUME NEW s \in SUBSET S, Cardinality(s) = 0, T \subseteq s PROVE Sum(T) <= Sum(s)
    <3>1. s = {} /\ T = s
      BY <1>1, <2>1, FS_EmptySet
    <3> QED BY <1>2, <3>1
  <2> QED BY <2>1
<1>5. ASSUME NEW n \in Nat, n \in A PROVE n + 1 \in A
  <2>1. ASSUME NEW s \in SUBSET S, Cardinality(s) = n + 1, T \subseteq s PROVE Sum(T) <= Sum(s)
    <3>1. CASE T = s
      BY <1>2, <3>1
    <3>2. CASE T # s
      <4>1. PICK y \in s : y \notin T
        BY <2>1, <3>2
      <4>2. Cardinality(s \ {y}) = Cardinality(s) - 1
        BY <1>1, FS_RemoveElement
      <4>3. Sum(T) <= Sum(s \ {y})
        BY <1>5, <2>1, <4>1, <4>2
      <4>4. Sum(s) = f[y] + Sum(s \ {y})
        BY <1>3
      <4>5. f[y] \in Nat /\ Sum(T) \in Nat /\ Sum(s \ {y}) \in Nat
        BY <1>2
      <4> QED BY <4>3, <4>4, <4>5
    <3> QED BY <3>1, <3>2
  <2> QED BY <2>1
<1>6. Cardinality(S) \in A
  <2> HIDE DEF A
  <2> QED BY <1>1, <1>4, <1>5, NatSetInduction
<1> QED BY <1>6 DEF Sum

\* What is zero adds nothing.
LEMMA SumPadded ==
  ASSUME NEW f, NEW S, IsFiniteSet(S), \A x \in S : f[x] \in Nat,
         NEW T, T \subseteq S, \A x \in S \ T : f[x] = 0
  PROVE  SumFunctionOnSet(f, S) = SumFunctionOnSet(f, T)
<1> DEFINE Sum(s) == SumFunctionOnSet(f, s)
<1> DEFINE A == {n \in Nat : \A s \in SUBSET S : Cardinality(s) = n /\ T \subseteq s
                   => Sum(s) = Sum(T)}
<1>1. \A s \in SUBSET S : IsFiniteSet(s) /\ Cardinality(s) \in Nat
  BY FS_Subset, FS_CardinalityType
<1>2. \A s \in SUBSET S : Sum(s) \in Nat
  BY <1>1, SumType
<1>3. \A s \in SUBSET S, y \in S : y \in s => Sum(s) = f[y] + Sum(s \ {y})
  BY <1>1, SumWithout
<1> HIDE DEF Sum
<1>4. 0 \in A
  <2>1. ASSUME NEW s \in SUBSET S, Cardinality(s) = 0, T \subseteq s PROVE Sum(s) = Sum(T)
    <3>1. s = {} /\ T = s
      BY <1>1, <2>1, FS_EmptySet
    <3> QED BY <1>2, <3>1
  <2> QED BY <2>1
<1>5. ASSUME NEW n \in Nat, n \in A PROVE n + 1 \in A
  <2>1. ASSUME NEW s \in SUBSET S, Cardinality(s) = n + 1, T \subseteq s PROVE Sum(s) = Sum(T)
    <3>1. CASE T = s
      BY <1>2, <3>1
    <3>2. CASE T # s
      <4>1. PICK y \in s : y \notin T
        BY <2>1, <3>2
      <4>2. Cardinality(s \ {y}) = Cardinality(s) - 1
        BY <1>1, FS_RemoveElement
      <4>3. Sum(s \ {y}) = Sum(T)
        BY <1>5, <2>1, <4>1, <4>2
      <4>4. Sum(s) = f[y] + Sum(s \ {y})
        BY <1>3
      <4>5. f[y] = 0 /\ Sum(T) \in Nat /\ Sum(s \ {y}) \in Nat
        BY <1>2, <4>1
      <4> QED BY <4>3, <4>4, <4>5
    <3> QED BY <3>1, <3>2
  <2> QED BY <2>1
<1>6. Cardinality(S) \in A
  <2> HIDE DEF A
  <2> QED BY <1>1, <1>4, <1>5, NatSetInduction
<1> QED BY <1>6 DEF Sum

\* A sum of zeros is zero.
LEMMA SumOfZeros ==
  ASSUME NEW f, NEW S, IsFiniteSet(S), \A x \in S : f[x] = 0
  PROVE  SumFunctionOnSet(f, S) = 0
<1>1. SumFunctionOnSet(f, S) = SumFunctionOnSet(f, {})
  BY SumPadded
<1> QED BY <1>1, SumOfNothing
=============================================================================
