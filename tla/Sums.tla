-------------------------------- MODULE Sums --------------------------------
(***************************************************************************)
(* Sums over finite sets.  SumFunctionOnSet takes the elements in an order *)
(* of its own choice; the lemmas below say that the order does not matter. *)
(***************************************************************************)
EXTENDS FiniteSetsExt, FiniteSetTheorems, WellFoundedInduction, TLAPS

\* Induction over the subsets of a finite set, from all smaller ones.
LEMMA StrongSubsetInduction ==
    ASSUME NEW S, IsFiniteSet(S), NEW F,
           \A T \in SUBSET S : (\A U \in SUBSET T : U # T => U \in F) => T \in F
    PROVE  SUBSET S \subseteq F
<1> DEFINE Bad == (SUBSET S) \ F
<1>1. IsWellFoundedOn(StrictSubsetOrdering(S), SUBSET S)
  BY FS_StrictSubsetOrderingWellFounded, FS_FiniteSubsetsOfFinite
<1>2. ASSUME Bad # {} PROVE FALSE
  <2>1. PICK T \in Bad : \A U \in Bad : ~ (<<U, T>> \in StrictSubsetOrdering(S))
    <3>1. Bad \subseteq SUBSET S
      OBVIOUS
    <3> HIDE DEF Bad
    <3> QED  BY <1>1, <1>2, <3>1, WFMin
  <2>2. ASSUME NEW U \in SUBSET T, U # T PROVE U \in F
    BY <2>1, <2>2 DEF StrictSubsetOrdering
  <2> QED  BY <2>1, <2>2
<1> QED  BY <1>2

\* The same, adding one element at a time.
LEMMA SubsetInduction ==
    ASSUME NEW S, IsFiniteSet(S), NEW F, {} \in F,
           \A T \in SUBSET S : \A x \in S \ T : T \in F => T \cup {x} \in F
    PROVE  SUBSET S \subseteq F
<1>1. ASSUME NEW T \in SUBSET S, \A U \in SUBSET T : U # T => U \in F
      PROVE  T \in F
  <2>1. CASE T # {}
    <3>1. PICK x \in T : TRUE
      BY <2>1
    <3>2. T \ {x} \in F /\ (T \ {x}) \cup {x} = T
      BY <1>1, <3>1
    <3> QED  BY <3>1, <3>2
  <2> QED  BY <2>1
<1> QED  BY <1>1, StrongSubsetInduction

\* The element that is taken first.
First(S) == CHOOSE x \in S : TRUE

\* The function by which SumFunctionOnSet is defined.
PartialSums(g, S) ==
    CHOOSE it : it = [s \in SUBSET S |-> IF s = {} THEN 0 ELSE g[First(s)] + it[s \ {First(s)}]]

\* The definition of the library, unfolded.
LEMMA SumIsPartial ==
    ASSUME NEW g, NEW S
    PROVE  SumFunctionOnSet(g, S) = PartialSums(g, S)[S]
  BY DEF SumFunctionOnSet, FoldFunctionOnSet, MapThenFoldSet, PartialSums, First

\* A finite set of numbers has a least element.
LEMMA LeastElement ==
    ASSUME NEW S \in SUBSET Int, IsFiniteSet(S), S # {}
    PROVE  \E m \in S : \A k \in S : m <= k
<1> DEFINE F == {T \in SUBSET S : T = {} \/ \E m \in T : \A k \in T : m <= k}
<1>1. ASSUME NEW T \in SUBSET S, NEW x \in S \ T, T \in F PROVE T \cup {x} \in F
  <2>1. CASE T = {}
    BY <2>1
  <2>2. ASSUME NEW m \in T, \A k \in T : m <= k PROVE T \cup {x} \in F
    <3>1. CASE m <= x
      BY <2>2, <3>1
    <3>2. CASE ~ (m <= x)
      <4>1. \A k \in T \cup {x} : x <= k
        BY <2>2, <3>2
      <4> QED  BY <4>1
    <3> QED  BY <3>1, <3>2
  <2> QED  BY <1>1, <2>1, <2>2
<1>2. {} \in F
  OBVIOUS
<1>3. SUBSET S \subseteq F
  <2> HIDE DEF F
  <2> QED  BY <1>1, <1>2, SubsetInduction
<1> QED  BY <1>3

\* Induction on the natural numbers, for a set of them.
LEMMA NatSetInduction ==
    ASSUME NEW A, 0 \in A, \A n \in Nat : n \in A => n + 1 \in A
    PROVE  Nat \subseteq A
<1> SUFFICES ASSUME NEW n \in Nat, n \notin A PROVE FALSE
  OBVIOUS
<1> DEFINE Bad == (0..n) \ A
<1>1. Bad \in SUBSET Int /\ Bad # {} /\ IsFiniteSet(Bad)
  <2>1. IsFiniteSet(0..n)
    BY FS_Interval
  <2>2. Bad \in SUBSET (0..n)
    OBVIOUS
  <2>3. IsFiniteSet(Bad)
    <3> HIDE DEF Bad
    <3> QED  BY <2>1, <2>2, FS_Subset
  <2> QED  BY <2>3
<1>2. PICK m \in Bad : \A k \in Bad : m <= k
  <2> HIDE DEF Bad
  <2> QED  BY <1>1, LeastElement
<1>3. m # 0 /\ m - 1 \in Nat /\ m - 1 \in 0..n
  BY <1>2
<1>4. m - 1 \in A
  BY <1>2, <1>3
<1> QED  BY <1>2, <1>3, <1>4

\* One step of that function.
SumStep(g, it, s) == IF s = {} THEN 0 ELSE g[First(s)] + it[s \ {First(s)}]

\* PartialSums is well defined.
LEMMA PartialExists ==
    ASSUME NEW S, IsFiniteSet(S), NEW g
    PROVE  PartialSums(g, S) = [s \in SUBSET S |-> SumStep(g, PartialSums(g, S), s)]
<1> DEFINE Upto(n) == {s \in SUBSET S : Cardinality(s) <= n}
           A == {n \in Nat : \E it : it = [s \in Upto(n) |-> SumStep(g, it, s)]}
<1>1. \A s \in SUBSET S : /\ IsFiniteSet(s) /\ Cardinality(s) \in Nat
                          /\ Cardinality(s) <= Cardinality(S)
                          /\ Cardinality(s) = 0 <=> s = {}
                          /\ s # {} => /\ First(s) \in s
                                       /\ Cardinality(s \ {First(s)}) = Cardinality(s) - 1
  <2> TAKE s \in SUBSET S
  <2>1. IsFiniteSet(s) /\ Cardinality(s) <= Cardinality(S)
    BY FS_Subset
  <2>2. s # {} => First(s) \in s
    BY DEF First
  <2> QED  BY <2>1, <2>2, FS_CardinalityType, FS_EmptySet, FS_RemoveElement
<1>2. 0 \in A
  <2>1. ASSUME NEW s \in Upto(0) PROVE s = {}
    <3>1. s \in SUBSET S /\ Cardinality(s) <= 0
      OBVIOUS
    <3>2. Cardinality(s) \in Nat /\ (Cardinality(s) = 0 <=> s = {})
      BY <1>1, <3>1
    <3> QED  BY <3>1, <3>2
  <2> DEFINE it == [s \in Upto(0) |-> 0]
  <2>2. it = [s \in Upto(0) |-> SumStep(g, it, s)]
    BY <2>1 DEF SumStep
  <2> QED  BY <2>2
<1>3. ASSUME NEW n \in Nat, n \in A PROVE n + 1 \in A
  <2>1. PICK it : it = [s \in Upto(n) |-> SumStep(g, it, s)]
    BY <1>3
  <2> DEFINE next == [s \in Upto(n + 1) |-> SumStep(g, it, s)]
  <2>2. ASSUME NEW s \in Upto(n + 1) PROVE SumStep(g, it, s) = SumStep(g, next, s)
    <3>1. CASE s = {}
      BY <3>1 DEF SumStep
    <3>2. CASE s # {}
      <4> DEFINE rest == s \ {First(s)}
      <4>1. rest \in Upto(n) /\ rest \in Upto(n + 1)
        BY <1>1, <3>2
      <4>2. it[rest] = SumStep(g, it, rest)
        BY <2>1, <4>1
      <4>3. next[rest] = SumStep(g, it, rest)
        BY <4>1
      <4>4. it[rest] = next[rest]
        BY <4>2, <4>3
      <4> HIDE DEF next
      <4> QED  BY <3>2, <4>4 DEF SumStep
    <3> QED  BY <3>1, <3>2
  <2>3. next = [s \in Upto(n + 1) |-> SumStep(g, next, s)]
    BY <2>2
  <2>4. \E f : f = [s \in Upto(n + 1) |-> SumStep(g, f, s)]
    <3> HIDE DEF next, Upto
    <3> QED  BY <2>3
  <2> QED  BY <2>4
<1>4. Cardinality(S) \in A
  <2> HIDE DEF A
  <2>1. Nat \subseteq A
    BY <1>2, <1>3, NatSetInduction
  <2> QED  BY <2>1, FS_CardinalityType
<1>5. Upto(Cardinality(S)) = SUBSET S
  BY <1>1
<1>6. \E it : it = [s \in SUBSET S |-> SumStep(g, it, s)]
  BY <1>4, <1>5
<1> QED  BY <1>6 DEF PartialSums, SumStep

\* It does not depend on the set it is defined for.
LEMMA PartialAgrees ==
    ASSUME NEW S, IsFiniteSet(S), NEW T \in SUBSET S, NEW g
    PROVE  PartialSums(g, S)[T] = SumFunctionOnSet(g, T)
<1>1. IsFiniteSet(T)
  BY FS_Subset
<1> DEFINE F == {V \in SUBSET T : PartialSums(g, S)[V] = PartialSums(g, T)[V]}
<1>2. ASSUME NEW V \in SUBSET T, \A U \in SUBSET V : U # V => U \in F PROVE V \in F
  <2>1. PartialSums(g, S)[V] = SumStep(g, PartialSums(g, S), V) /\ PartialSums(g, T)[V] = SumStep(g, PartialSums(g, T), V)
    <3>1. /\ PartialSums(g, S) = [s \in SUBSET S |-> SumStep(g, PartialSums(g, S), s)]
          /\ PartialSums(g, T) = [s \in SUBSET T |-> SumStep(g, PartialSums(g, T), s)]
      BY <1>1, PartialExists
    <3>2. V \in SUBSET S
      OBVIOUS
    <3> QED  BY <3>1, <3>2
  <2>2. V # {} => V \ {First(V)} \in F
    BY <1>2 DEF First
  <2> QED  BY <2>1, <2>2 DEF SumStep
<1>3. SUBSET T \subseteq F
  <2> HIDE DEF F
  <2> QED  BY <1>1, <1>2, StrongSubsetInduction
<1> QED  BY <1>3, SumIsPartial

\* Taking the elements in the order of First.
LEMMA SumPick ==
    ASSUME NEW S, IsFiniteSet(S), NEW g
    PROVE  /\ S = {} => SumFunctionOnSet(g, S) = 0
           /\ S # {} => /\ First(S) \in S
                        /\ SumFunctionOnSet(g, S) = g[First(S)] + SumFunctionOnSet(g, S \ {First(S)})
<1>1. SumFunctionOnSet(g, S) = SumStep(g, PartialSums(g, S), S)
  <2>1. PartialSums(g, S) = [s \in SUBSET S |-> SumStep(g, PartialSums(g, S), s)]
    BY PartialExists
  <2>2. PartialSums(g, S)[S] = SumStep(g, PartialSums(g, S), S)
    BY <2>1
  <2> QED  BY <2>2, SumIsPartial
<1>2. S # {} => First(S) \in S
  BY DEF First
<1>3. PartialSums(g, S)[S \ {First(S)}] = SumFunctionOnSet(g, S \ {First(S)})
  BY PartialAgrees
<1> QED  BY <1>1, <1>2, <1>3 DEF SumStep

\* The empty sum.
LEMMA SumEmpty == ASSUME NEW g PROVE SumFunctionOnSet(g, {}) = 0
  BY FS_EmptySet, SumPick

\* The sum of integers is an integer.
LEMMA SumType ==
    ASSUME NEW S, IsFiniteSet(S), NEW g, \A x \in S : g[x] \in Int
    PROVE  SumFunctionOnSet(g, S) \in Int
<1> DEFINE F == {T \in SUBSET S : SumFunctionOnSet(g, T) \in Int}
<1>1. ASSUME NEW T \in SUBSET S, \A U \in SUBSET T : U # T => U \in F PROVE T \in F
  <2>1. IsFiniteSet(T)
    BY FS_Subset
  <2>2. CASE T = {}
    BY <2>1, <2>2, SumPick
  <2>3. CASE T # {}
    <3>1. First(T) \in T /\ SumFunctionOnSet(g, T) = g[First(T)] + SumFunctionOnSet(g, T \ {First(T)})
      BY <2>1, <2>3, SumPick
    <3>2. T \ {First(T)} \in F
      BY <1>1, <3>1
    <3> QED  BY <3>1, <3>2
  <2> QED  BY <2>2, <2>3
<1>2. SUBSET S \subseteq F
  <2> HIDE DEF F
  <2> QED  BY <1>1, StrongSubsetInduction
<1> QED  BY <1>2

\* Any element may be taken first.
LEMMA SumRemove ==
    ASSUME NEW S, IsFiniteSet(S), NEW g, \A x \in S : g[x] \in Int, NEW e \in S
    PROVE  SumFunctionOnSet(g, S) = SumFunctionOnSet(g, S \ {e}) + g[e]
<1> DEFINE F == {T \in SUBSET S : \A x \in T :
                    SumFunctionOnSet(g, T) = SumFunctionOnSet(g, T \ {x}) + g[x]}
<1>1. ASSUME NEW T \in SUBSET S, \A U \in SUBSET T : U # T => U \in F PROVE T \in F
  <2>1. \A U \in SUBSET T : IsFiniteSet(U) /\ SumFunctionOnSet(g, U) \in Int
    BY FS_Subset, SumType
  <2>2. SUFFICES ASSUME NEW x \in T
                 PROVE  SumFunctionOnSet(g, T) = SumFunctionOnSet(g, T \ {x}) + g[x]
    OBVIOUS
  <2> DEFINE y == First(T)
  <2>3. y \in T /\ SumFunctionOnSet(g, T) = g[y] + SumFunctionOnSet(g, T \ {y})
    BY <2>1, SumPick
  <2> HIDE DEF y
  <2>4. CASE x = y
    BY <2>1, <2>3, <2>4
  <2>5. CASE x # y
    <3>1. T \ {y} \in F /\ T \ {x} \in F
      BY <1>1, <2>3
    <3>2. SumFunctionOnSet(g, T \ {y}) = SumFunctionOnSet(g, (T \ {y}) \ {x}) + g[x]
      BY <2>5, <3>1
    <3>3. SumFunctionOnSet(g, T \ {x}) = SumFunctionOnSet(g, (T \ {x}) \ {y}) + g[y]
      BY <2>3, <2>5, <3>1
    <3> DEFINE both == SumFunctionOnSet(g, (T \ {x}) \ {y})
    <3>4. (T \ {x}) \ {y} = (T \ {y}) \ {x} /\ (T \ {x}) \ {y} \in SUBSET T
      OBVIOUS
    <3>5. both \in Int /\ g[x] \in Int /\ g[y] \in Int
      BY <2>1, <2>3, <3>4
    <3>6. SumFunctionOnSet(g, T \ {y}) = both + g[x]
      BY <3>2, <3>4
    <3>7. SumFunctionOnSet(g, T \ {x}) = both + g[y]
      BY <3>3
    <3>8. SumFunctionOnSet(g, T) = g[y] + (both + g[x])
      BY <2>3, <3>6
    <3> HIDE DEF both
    <3> QED  BY <3>5, <3>7, <3>8
  <2> QED  BY <2>4, <2>5
<1>2. SUBSET S \subseteq F
  <2> HIDE DEF F
  <2> QED  BY <1>1, StrongSubsetInduction
<1> QED  BY <1>2

\* One element more.
LEMMA SumAdd ==
    ASSUME NEW S, IsFiniteSet(S), NEW e, e \notin S, NEW g, \A x \in S \cup {e} : g[x] \in Int
    PROVE  SumFunctionOnSet(g, S \cup {e}) = SumFunctionOnSet(g, S) + g[e]
<1>1. IsFiniteSet(S \cup {e}) /\ (S \cup {e}) \ {e} = S
  BY FS_AddElement
<1> QED  BY <1>1, SumRemove

\* The sum over one element.
LEMMA SumOfOne ==
    ASSUME NEW g, NEW e, g[e] \in Int
    PROVE  SumFunctionOnSet(g, {e}) = g[e]
<1>1. SumFunctionOnSet(g, {} \cup {e}) = SumFunctionOnSet(g, {}) + g[e]
  <2>1. IsFiniteSet({}) /\ e \notin {} /\ \A x \in {} \cup {e} : g[x] \in Int
    BY FS_EmptySet
  <2> QED  BY <2>1, SumAdd
<1>2. {} \cup {e} = {e}
  OBVIOUS
<1> QED  BY <1>1, <1>2, SumEmpty

\* Smaller summands, smaller sum.
LEMMA SumMonotone ==
    ASSUME NEW S, IsFiniteSet(S), NEW g, NEW h,
           \A x \in S : g[x] \in Int /\ h[x] \in Int /\ g[x] <= h[x]
    PROVE  SumFunctionOnSet(g, S) <= SumFunctionOnSet(h, S)
<1> DEFINE F == {T \in SUBSET S : SumFunctionOnSet(g, T) <= SumFunctionOnSet(h, T)}
<1>1. {} \in F
  BY SumEmpty
<1>2. ASSUME NEW T \in SUBSET S, NEW e \in S \ T, T \in F PROVE T \cup {e} \in F
  <2>1. IsFiniteSet(T)
    BY FS_Subset
  <2>2. /\ SumFunctionOnSet(g, T \cup {e}) = SumFunctionOnSet(g, T) + g[e]
        /\ SumFunctionOnSet(h, T \cup {e}) = SumFunctionOnSet(h, T) + h[e]
    BY <2>1, SumAdd
  <2>3. SumFunctionOnSet(g, T) \in Int /\ SumFunctionOnSet(h, T) \in Int
    BY <2>1, SumType
  <2>4. SumFunctionOnSet(g, T) <= SumFunctionOnSet(h, T) /\ g[e] \in Int /\ h[e] \in Int /\ g[e] <= h[e]
    BY <1>2
  <2> QED  BY <2>2, <2>3, <2>4
<1>3. SUBSET S \subseteq F
  <2> HIDE DEF F
  <2> QED  BY <1>1, <1>2, SubsetInduction
<1> QED  BY <1>3

\* Equal summands, equal sum.
LEMMA SumSame ==
    ASSUME NEW S, IsFiniteSet(S), NEW g, NEW h, \A x \in S : g[x] \in Int /\ g[x] = h[x]
    PROVE  SumFunctionOnSet(g, S) = SumFunctionOnSet(h, S)
<1>1. /\ SumFunctionOnSet(g, S) <= SumFunctionOnSet(h, S)
      /\ SumFunctionOnSet(h, S) <= SumFunctionOnSet(g, S)
  BY SumMonotone
<1> QED  BY <1>1, SumType

\* The sum over a part of the set is no larger, when nothing is negative.
LEMMA SumOfPart ==
    ASSUME NEW S, IsFiniteSet(S), NEW g, \A x \in S : g[x] \in Nat, NEW T \in SUBSET S
    PROVE  /\ SumFunctionOnSet(g, T) \in Nat
           /\ SumFunctionOnSet(g, T) <= SumFunctionOnSet(g, S)
<1>1. ASSUME NEW U \in SUBSET S PROVE SumFunctionOnSet(g, U) >= 0
  <2> DEFINE F == {V \in SUBSET U : SumFunctionOnSet(g, V) >= 0}
  <2>1. {} \in F
    BY SumEmpty
  <2>2. ASSUME NEW V \in SUBSET U, NEW e \in U \ V, V \in F PROVE V \cup {e} \in F
    <3>1. IsFiniteSet(V) /\ e \notin V /\ \A x \in V \cup {e} : g[x] \in Int
      BY FS_Subset
    <3>2. SumFunctionOnSet(g, V \cup {e}) = SumFunctionOnSet(g, V) + g[e]
      BY <3>1, SumAdd
    <3>3. SumFunctionOnSet(g, V) \in Int /\ SumFunctionOnSet(g, V) >= 0 /\ g[e] \in Nat
      BY <2>2, <3>1, SumType
    <3> QED  BY <3>2, <3>3
  <2>3. SUBSET U \subseteq F
    <3> HIDE DEF F
    <3>1. IsFiniteSet(U)
      BY FS_Subset
    <3> QED  BY <2>1, <2>2, <3>1, SubsetInduction
  <2> QED  BY <2>3
<1> DEFINE Others == S \ T
           Rest == {U \in SUBSET Others : SumFunctionOnSet(g, T) <= SumFunctionOnSet(g, T \cup U)}
<1>2. {} \in Rest
  <2>1. T \cup {} = T /\ IsFiniteSet(T)
    BY FS_Subset
  <2> QED  BY <2>1, SumType
<1>3. ASSUME NEW U \in SUBSET Others, NEW e \in Others \ U, U \in Rest PROVE U \cup {e} \in Rest
  <2> DEFINE W == T \cup U
  <2>1. W \in SUBSET S /\ e \notin W /\ T \cup (U \cup {e}) = W \cup {e}
    OBVIOUS
  <2>2. IsFiniteSet(W) /\ IsFiniteSet(T) /\ \A x \in W \cup {e} : g[x] \in Int
    BY <2>1, FS_Subset
  <2>3. SumFunctionOnSet(g, W) \in Int /\ SumFunctionOnSet(g, T) \in Int /\ g[e] \in Nat
    BY <2>2, SumType
  <2>4. SumFunctionOnSet(g, T) <= SumFunctionOnSet(g, W)
    BY <1>3
  <2> HIDE DEF W
  <2>5. SumFunctionOnSet(g, W \cup {e}) = SumFunctionOnSet(g, W) + g[e]
    BY <2>1, <2>2, SumAdd
  <2>6. SumFunctionOnSet(g, T \cup (U \cup {e})) = SumFunctionOnSet(g, W) + g[e]
    BY <2>1, <2>5, Zenon
  <2>7. SumFunctionOnSet(g, T) <= SumFunctionOnSet(g, T \cup (U \cup {e}))
    BY <2>3, <2>4, <2>6
  <2> QED  BY <2>7
<1>4. Others \in Rest
  <2>1. IsFiniteSet(Others)
    BY FS_Subset
  <2> HIDE DEF Rest, Others
  <2>2. SUBSET Others \subseteq Rest
    BY <1>2, <1>3, <2>1, SubsetInduction
  <2> QED  BY <2>2
<1>5. T \cup Others = S /\ IsFiniteSet(T)
  BY FS_Subset
<1> QED  BY <1>1, <1>4, <1>5, SumType

\* One summand changes.
LEMMA SumChange ==
    ASSUME NEW S, IsFiniteSet(S), NEW g, NEW h, NEW e \in S,
           \A x \in S : g[x] \in Int /\ h[x] \in Int,
           \A x \in S \ {e} : g[x] = h[x]
    PROVE  SumFunctionOnSet(h, S) = SumFunctionOnSet(g, S) + (h[e] - g[e])
<1>1. IsFiniteSet(S \ {e})
  BY FS_Subset
<1>2. SumFunctionOnSet(g, S \ {e}) = SumFunctionOnSet(h, S \ {e}) /\ SumFunctionOnSet(g, S \ {e}) \in Int
  BY <1>1, SumSame, SumType
<1>3. /\ SumFunctionOnSet(g, S) = SumFunctionOnSet(g, S \ {e}) + g[e]
      /\ SumFunctionOnSet(h, S) = SumFunctionOnSet(h, S \ {e}) + h[e]
  BY SumRemove
<1> QED  BY <1>2, <1>3

\* The same for a function that is updated.
LEMMA SumExcept ==
    ASSUME NEW S, IsFiniteSet(S), NEW g \in [S -> Int], NEW e \in S, NEW v \in Int
    PROVE  SumFunctionOnSet([g EXCEPT ![e] = v], S) = SumFunctionOnSet(g, S) + (v - g[e])
<1> DEFINE h == [g EXCEPT ![e] = v]
<1>1. /\ \A x \in S : g[x] \in Int /\ h[x] \in Int
      /\ \A x \in S \ {e} : g[x] = h[x]
      /\ h[e] = v
  OBVIOUS
<1> HIDE DEF h
<1>2. SumFunctionOnSet(h, S) = SumFunctionOnSet(g, S) + (h[e] - g[e])
  BY <1>1, SumChange
<1>3. SumFunctionOnSet(h, S) = SumFunctionOnSet(g, S) + (v - g[e])
  BY <1>1, <1>2
<1> QED  BY <1>3 DEF h
=============================================================================
