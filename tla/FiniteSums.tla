----------------------------- MODULE FiniteSums -----------------------------
(***************************************************************************)
(* Induction over the natural numbers, the least of some, and totals over  *)
(* finite sets: facts that know nothing of the judge, for the proofs about *)
(* its counters and its boards.                                            *)
(***************************************************************************)
EXTENDS Integers, FiniteSetsExt, FiniteSetTheorems, WellFoundedInduction, TLAPS
-----------------------------------------------------------------------------
\* Induction over the natural numbers, for a set instead of a predicate: the
\* intervals below its counterexamples have a minimal one.
LEMMA SetInduction ==
  ASSUME NEW S, 0 \in S, \A n \in Nat : n \in S => n + 1 \in S
  PROVE  Nat \subseteq S
<1> DEFINE T == {n \in Nat : n \notin S}
           F == {0 .. n - 1 : n \in T}
           R == StrictSubsetOrdering(Nat)
<1>1. SUFFICES ASSUME T # {} PROVE FALSE
  OBVIOUS
<1>2. IsWellFoundedOn(R, FiniteSubsetsOf(Nat))
  BY FS_StrictSubsetOrderingWellFounded
<1>3. F # {} /\ F \subseteq FiniteSubsetsOf(Nat)
  <2>1. ASSUME NEW n \in T PROVE 0 .. n - 1 \subseteq Nat /\ IsFiniteSet(0 .. n - 1)
    BY FS_Interval
  <2>2. \A n \in T : 0 .. n - 1 \in FiniteSubsetsOf(Nat)
    BY <2>1 DEF FiniteSubsetsOf
  <2>3. PICK n : n \in T
    BY <1>1
  <2>4. QED
    BY <2>2, <2>3
<1>4. PICK A \in F : \A B \in F : ~(<<B, A>> \in R)
  <2> HIDE DEF F, R
  <2>1. QED
    BY <1>2, <1>3, WFMin
<1>5. PICK x \in T : A = 0 .. x - 1
  BY <1>4
<1>6. x \in Nat /\ x # 0 /\ x - 1 \in Nat
  OBVIOUS
<1>7. 0 .. x - 2 # A /\ 0 .. x - 2 \subseteq A /\ A \subseteq Nat
  BY <1>5, <1>6
<1>8. x - 1 \in T => 0 .. x - 2 \in F
  OBVIOUS
<1>9. x - 1 \notin T
  BY <1>4, <1>7, <1>8 DEF StrictSubsetOrdering
<1>10. QED
  BY <1>6, <1>9

\* The least of some natural numbers.
LEMMA LeastOf ==
  ASSUME NEW T \in SUBSET Nat, T # {}
  PROVE  Min(T) \in T /\ \A y \in T : Min(T) <= y
<1> DEFINE S == {n \in Nat : \A m \in T : m > n}
<1>1. \E x \in T : \A y \in T : x <= y
  <2>1. SUFFICES ASSUME \A x \in T : \E y \in T : y < x PROVE FALSE
    OBVIOUS
  <2>2. 0 \in S
    BY <2>1
  <2>3. ASSUME NEW n \in Nat, n \in S PROVE n + 1 \in S
    <3>1. \A m \in T : m > n + 1
      BY <2>1, <2>3
    <3>2. QED
      BY <3>1
  <2>4. Nat \subseteq S
    <3> HIDE DEF S
    <3> QED  BY <2>2, <2>3, SetInduction
  <2>5. PICK x : x \in T
    OBVIOUS
  <2>6. x \in S
    BY <2>4, <2>5
  <2>7. QED
    BY <2>5, <2>6
<1>2. QED
  BY <1>1 DEF Min
-----------------------------------------------------------------------------
(***************************************************************************)
(* Sums.  A total is defined by recursion over the subsets of its set; for *)
(* a finite set that recursion has a solution, and only one, so a total    *)
(* splits at any of its elements.                                          *)
(***************************************************************************)
Pick(s) == CHOOSE x \in s : TRUE
Sums(f, S, g) ==
  g = [s \in SUBSET S |-> IF s = {} THEN 0 ELSE f[Pick(s)] + g[s \ {Pick(s)}]]
SumOf(f, S) == (CHOOSE g : Sums(f, S, g))[S]

LEMMA PickRemoved ==
  ASSUME NEW s, IsFiniteSet(s), s # {}
  PROVE  /\ Pick(s) \in s /\ s \ {Pick(s)} \subseteq s /\ IsFiniteSet(s \ {Pick(s)})
         /\ Cardinality(s) \in Nat /\ Cardinality(s \ {Pick(s)}) = Cardinality(s) - 1
         /\ Cardinality(s) > 0
<1>1. Pick(s) \in s
  BY DEF Pick
<1>2. IsFiniteSet(s \ {Pick(s)}) /\ Cardinality(s \ {Pick(s)}) = Cardinality(s) - 1
  BY <1>1, FS_RemoveElement
<1>3. Cardinality(s) \in Nat /\ Cardinality(s) # 0
  BY FS_CardinalityType, FS_EmptySet
<1>4. QED
  BY <1>1, <1>2, <1>3

LEMMA SumsExist ==
  ASSUME NEW f, NEW S, IsFiniteSet(S)
  PROVE  \E g : Sums(f, S, g)
<1> DEFINE Value(g, s) == IF s = {} THEN 0 ELSE f[Pick(s)] + g[s \ {Pick(s)}]
           UpTo(n, g) == /\ g = [s \in SUBSET S |-> g[s]]
                         /\ \A s \in SUBSET S : Cardinality(s) <= n => g[s] = Value(g, s)
           N == {n \in Nat : \E g : UpTo(n, g)}
<1>1. \A s \in SUBSET S : IsFiniteSet(s) /\ Cardinality(s) \in Nat /\ Cardinality(s) <= Cardinality(S)
  BY FS_Subset, FS_CardinalityType
<1>2. 0 \in N
  <2> DEFINE g == [s \in SUBSET S |-> 0]
  <2>1. \A s \in SUBSET S : Cardinality(s) <= 0 => s = {}
    BY <1>1, FS_EmptySet
  <2>2. UpTo(0, g)
    BY <2>1
  <2>3. QED
    BY <2>2
<1>3. ASSUME NEW n \in Nat, n \in N PROVE n + 1 \in N
  <2>1. PICK g : UpTo(n, g)
    BY <1>3
  <2> DEFINE g2 == [s \in SUBSET S |-> IF Cardinality(s) <= n THEN g[s] ELSE Value(g, s)]
  <2>2. ASSUME NEW s \in SUBSET S, Cardinality(s) <= n + 1, s # {}
        PROVE  g2[s] = f[Pick(s)] + g2[s \ {Pick(s)}]
    <3>1. /\ s \ {Pick(s)} \in SUBSET S
          /\ Cardinality(s \ {Pick(s)}) <= n
      BY <1>1, <2>2, PickRemoved
    <3>2. g2[s \ {Pick(s)}] = g[s \ {Pick(s)}]
      BY <3>1
    <3>3. g2[s] = f[Pick(s)] + g[s \ {Pick(s)}]
      BY <2>1, <2>2
    <3>4. QED
      BY <3>2, <3>3
  <2>3. g2[{}] = 0
    <3>1. {} \in SUBSET S /\ Cardinality({}) = 0
      BY FS_EmptySet
    <3>2. QED
      BY <2>1, <3>1
  <2>4. g2 = [s \in SUBSET S |-> g2[s]]
    OBVIOUS
  <2> HIDE DEF g2
  <2>5. UpTo(n + 1, g2)
    BY <2>2, <2>3, <2>4
  <2>6. QED
    <3> HIDE DEF UpTo
    <3>1. n + 1 \in Nat /\ \E h : UpTo(n + 1, h)
      BY <2>5
    <3>2. QED
      BY <3>1
<1>4. PICK g : UpTo(Cardinality(S), g)
  <2>1. Nat \subseteq N
    <3> HIDE DEF N
    <3> QED  BY <1>2, <1>3, SetInduction
  <2>2. Cardinality(S) \in N
    BY <2>1, FS_CardinalityType
  <2>3. QED
    BY <2>2
<1>5. QED
  BY <1>1, <1>4 DEF Sums

LEMMA SumsAgree ==
  ASSUME NEW f1, NEW S1, NEW g1, Sums(f1, S1, g1), NEW f2, NEW S2, NEW g2, Sums(f2, S2, g2),
         NEW S, S \subseteq S1, S \subseteq S2, IsFiniteSet(S), \A x \in S : f1[x] = f2[x]
  PROVE  g1[S] = g2[S]
<1> DEFINE N == {n \in Nat : \A s \in SUBSET S : Cardinality(s) = n => g1[s] = g2[s]}
<1>1. \A s \in SUBSET S : IsFiniteSet(s) /\ Cardinality(s) \in Nat
  BY FS_Subset, FS_CardinalityType
<1>2. 0 \in N
  <2>1. \A s \in SUBSET S : Cardinality(s) = 0 => s = {}
    BY <1>1, FS_EmptySet
  <2>2. g1[{}] = 0 /\ g2[{}] = 0
    BY DEF Sums
  <2>3. QED
    BY <2>1, <2>2
<1>3. ASSUME NEW n \in Nat, n \in N PROVE n + 1 \in N
  <2>1. ASSUME NEW s \in SUBSET S, Cardinality(s) = n + 1 PROVE g1[s] = g2[s]
    <3>1. s # {}
      BY <2>1, FS_EmptySet
    <3>2. Pick(s) \in s /\ s \ {Pick(s)} \in SUBSET S /\ Cardinality(s \ {Pick(s)}) = n
      BY <1>1, <2>1, <3>1, PickRemoved
    <3>3. g1[s \ {Pick(s)}] = g2[s \ {Pick(s)}]
      BY <1>3, <3>2
    <3>4. g1[s] = f1[Pick(s)] + g1[s \ {Pick(s)}]
      BY <3>1 DEF Sums
    <3>5. g2[s] = f2[Pick(s)] + g2[s \ {Pick(s)}]
      BY <3>1 DEF Sums
    <3>6. QED
      BY <3>2, <3>3, <3>4, <3>5
  <2>2. QED
    BY <2>1
<1>4. Nat \subseteq N
  <2> HIDE DEF N
  <2> QED  BY <1>2, <1>3, SetInduction
<1>5. QED
  BY <1>1, <1>4

\* The total of a finite set, and what it does not depend on.
LEMMA SumIs ==
  ASSUME NEW f, NEW S, NEW g, IsFiniteSet(S), Sums(f, S, g)
  PROVE  SumOf(f, S) = g[S]
<1> DEFINE g2 == CHOOSE h : Sums(f, S, h)
<1>1. Sums(f, S, g2)
  OBVIOUS
<1> HIDE DEF g2
<1>2. g2[S] = g[S]
  BY <1>1, SumsAgree
<1>3. QED
  BY <1>2 DEF g2, SumOf

LEMMA SumSame ==
  ASSUME NEW f1, NEW f2, NEW S, IsFiniteSet(S), \A x \in S : f1[x] = f2[x]
  PROVE  SumOf(f1, S) = SumOf(f2, S)
<1>1. PICK g1 : Sums(f1, S, g1)
  BY SumsExist
<1>2. PICK g2 : Sums(f2, S, g2)
  BY SumsExist
<1>3. g1[S] = g2[S]
  BY <1>1, <1>2, SumsAgree
<1>4. QED
  BY <1>1, <1>2, <1>3, SumIs

LEMMA SumOfNone == ASSUME NEW f PROVE SumOf(f, {}) = 0
<1>1. IsFiniteSet({})
  BY FS_EmptySet
<1>2. PICK g : Sums(f, {}, g)
  BY <1>1, SumsExist
<1>3. g[{}] = 0
  BY <1>2 DEF Sums
<1>4. QED
  BY <1>1, <1>2, <1>3, SumIs

LEMMA SumPicks ==
  ASSUME NEW f, NEW S, IsFiniteSet(S), S # {}
  PROVE  SumOf(f, S) = f[Pick(S)] + SumOf(f, S \ {Pick(S)})
<1>1. PICK T : T = S \ {Pick(S)}
  OBVIOUS
<1>2. T \subseteq S /\ IsFiniteSet(T)
  BY <1>1, PickRemoved
<1>3. PICK g : Sums(f, S, g)
  BY SumsExist
<1>4. PICK h : Sums(f, T, h)
  BY <1>2, SumsExist
<1>5. g[T] = h[T]
  BY <1>2, <1>3, <1>4, SumsAgree
<1>6. g[S] = f[Pick(S)] + g[T]
  BY <1>1, <1>3 DEF Sums
<1>7. SumOf(f, S) = g[S]
  BY <1>3, SumIs
<1>8. SumOf(f, T) = h[T]
  BY <1>2, <1>4, SumIs
<1>9. QED
  BY <1>1, <1>5, <1>6, <1>7, <1>8

LEMMA SumTyped ==
  ASSUME NEW f, NEW S, IsFiniteSet(S), \A x \in S : f[x] \in Nat
  PROVE  SumOf(f, S) \in Nat
<1> DEFINE N == {n \in Nat : \A T \in SUBSET S : Cardinality(T) = n => SumOf(f, T) \in Nat}
<1>1. \A T \in SUBSET S : IsFiniteSet(T) /\ Cardinality(T) \in Nat
  BY FS_Subset, FS_CardinalityType
<1>2. 0 \in N
  <2>1. \A T \in SUBSET S : Cardinality(T) = 0 => T = {}
    BY <1>1, FS_EmptySet
  <2>2. QED
    BY <2>1, SumOfNone
<1>3. ASSUME NEW n \in Nat, n \in N PROVE n + 1 \in N
  <2>1. ASSUME NEW T \in SUBSET S, Cardinality(T) = n + 1 PROVE SumOf(f, T) \in Nat
    <3>1. T # {}
      BY <2>1, FS_EmptySet
    <3>2. Pick(T) \in S /\ T \ {Pick(T)} \in SUBSET S /\ Cardinality(T \ {Pick(T)}) = n
      BY <1>1, <2>1, <3>1, PickRemoved
    <3>3. SumOf(f, T \ {Pick(T)}) \in Nat
      BY <1>3, <3>2
    <3>4. SumOf(f, T) = f[Pick(T)] + SumOf(f, T \ {Pick(T)})
      BY <1>1, <3>1, SumPicks
    <3>5. f[Pick(T)] \in Nat
      BY <3>2
    <3>6. QED
      BY <3>3, <3>4, <3>5
  <2>2. QED
    BY <2>1
<1>4. Nat \subseteq N
  <2> HIDE DEF N
  <2> QED  BY <1>2, <1>3, SetInduction
<1>5. QED
  BY <1>1, <1>4

\* The total splits at each element.
LEMMA SumSplits ==
  ASSUME NEW f, NEW S, IsFiniteSet(S), NEW x \in S, \A y \in S : f[y] \in Nat
  PROVE  SumOf(f, S) = f[x] + SumOf(f, S \ {x}) /\ SumOf(f, S \ {x}) \in Nat
<1> DEFINE Splits(T) == \A y \in T : SumOf(f, T) = f[y] + SumOf(f, T \ {y})
           N == {n \in Nat : \A T \in SUBSET S : Cardinality(T) = n => Splits(T)}
<1>1. \A T \in SUBSET S : IsFiniteSet(T) /\ Cardinality(T) \in Nat /\ SumOf(f, T) \in Nat
  BY FS_Subset, FS_CardinalityType, SumTyped
<1>2. 0 \in N
  BY <1>1, FS_EmptySet
<1>3. ASSUME NEW n \in Nat, n \in N PROVE n + 1 \in N
  <2>1. ASSUME NEW T \in SUBSET S, Cardinality(T) = n + 1, NEW y \in T
        PROVE  SumOf(f, T) = f[y] + SumOf(f, T \ {y})
    <3>1. PICK p : p = Pick(T)
      OBVIOUS
    <3>2. /\ p \in T /\ T \ {p} \in SUBSET S /\ Cardinality(T \ {p}) = n
          /\ SumOf(f, T) = f[p] + SumOf(f, T \ {p})
      BY <1>1, <2>1, <3>1, PickRemoved, SumPicks
    <3>3. CASE y = p
      BY <3>2, <3>3
    <3>4. CASE y # p
      <4>1. PICK R : R = (T \ {p}) \ {y}
        OBVIOUS
      <4>2. R = (T \ {y}) \ {p} /\ R \in SUBSET S
        BY <4>1
      <4>3. SumOf(f, T \ {p}) = f[y] + SumOf(f, R)
        <5>1. Splits(T \ {p})
          BY <1>3, <3>2
        <5>2. y \in T \ {p}
          BY <3>4
        <5>3. QED
          BY <4>1, <5>1, <5>2
      <4>4. SumOf(f, T \ {y}) = f[p] + SumOf(f, R)
        <5>1. T \ {y} \in SUBSET S /\ Cardinality(T \ {y}) = n
          <6>1. IsFiniteSet(T) /\ y \in T /\ Cardinality(T) = n + 1
            BY <1>1, <2>1
          <6>2. Cardinality(T \ {y}) = Cardinality(T) - 1
            BY <6>1, FS_RemoveElement
          <6>3. QED
            BY <6>1, <6>2
        <5>2. Splits(T \ {y})
          BY <1>3, <5>1
        <5>3. p \in T \ {y}
          BY <3>2, <3>4
        <5>4. QED
          BY <4>2, <5>2, <5>3
      <4>5. f[p] \in Nat /\ f[y] \in Nat /\ SumOf(f, R) \in Nat
        BY <1>1, <3>2, <4>2
      <4>6. QED
        BY <3>2, <4>3, <4>4, <4>5
    <3>5. QED
      BY <3>3, <3>4
  <2>2. QED
    BY <2>1
<1>4. Nat \subseteq N
  <2> HIDE DEF N
  <2> QED  BY <1>2, <1>3, SetInduction
<1>5. Cardinality(S) \in N /\ S \ {x} \in SUBSET S
  BY <1>1, <1>4
<1>6. QED
  BY <1>1, <1>5
-----------------------------------------------------------------------------
\* One summand is one greater.
LEMMA SumRaised ==
  ASSUME NEW f1, NEW f2, NEW S, IsFiniteSet(S), \A x \in S : f1[x] \in Nat, \A x \in S : f2[x] \in Nat,
         NEW a \in S, f2[a] = f1[a] + 1, \A x \in S : x # a => f2[x] = f1[x]
  PROVE  SumOf(f2, S) = SumOf(f1, S) + 1
<1>1. IsFiniteSet(S \ {a})
  BY FS_Subset
<1>2. SumOf(f2, S \ {a}) = SumOf(f1, S \ {a})
  <2>1. \A x \in S \ {a} : f2[x] = f1[x]
    OBVIOUS
  <2>2. QED
    BY <1>1, <2>1, SumSame
<1>3. SumOf(f1, S) = f1[a] + SumOf(f1, S \ {a}) /\ SumOf(f1, S \ {a}) \in Nat
  BY SumSplits
<1>4. SumOf(f2, S) = f2[a] + SumOf(f2, S \ {a})
  BY SumSplits
<1>5. f1[a] \in Nat
  OBVIOUS
<1>6. QED
  BY <1>2, <1>3, <1>4, <1>5

\* A summand of zero is new.
LEMMA SumGrown ==
  ASSUME NEW f1, NEW f2, NEW S, IsFiniteSet(S), \A x \in S : f1[x] \in Nat,
         NEW a, a \notin S, f2[a] = 0, \A x \in S : f2[x] = f1[x]
  PROVE  SumOf(f2, S \cup {a}) = SumOf(f1, S)
<1>1. PICK T : T = S \cup {a}
  OBVIOUS
<1>2. IsFiniteSet(T) /\ a \in T /\ T \ {a} = S
  BY <1>1, FS_AddElement
<1>3. \A x \in T : f2[x] \in Nat
  BY <1>1
<1>4. SumOf(f2, T) = f2[a] + SumOf(f2, T \ {a}) /\ SumOf(f2, T \ {a}) \in Nat
  BY <1>2, <1>3, SumSplits
<1>5. SumOf(f2, S) = SumOf(f1, S)
  BY SumSame
<1>6. QED
  BY <1>1, <1>2, <1>4, <1>5
=============================================================================
