----------------------------- MODULE FoldProofs -----------------------------
(***************************************************************************)
(* Lemmas about sums over finite sets and about folds.  The induction      *)
(* theorems of the library take an operator; these take the set of what    *)
(* has the property, which is as good where the property is of members of  *)
(* a set, and rest on WFMin and on the strict order of finite subsets.     *)
(***************************************************************************)
EXTENDS FiniteSetsExt, FiniteSetTheorems, TLAPS

(* What f has for the members of S, added up. *)
Sum(f, S) == FoldSet(LAMBDA x, sum : f[x] + sum, 0, S)

-----------------------------------------------------------------------------
(* Induction.                                                              *)

\* A set that has 0 and the successor of each of its numbers has all of them.
LEMMA EveryNumber ==
  ASSUME NEW G, 0 \in G, \A n \in Nat : n \in G => n + 1 \in G
  PROVE  Nat \subseteq G
  <1>1. SUFFICES ASSUME Nat \ G # {}
                 PROVE  FALSE
    OBVIOUS
  <1>2. PICK n \in Nat \ G : \A m \in Nat \ G : ~ (<<m, n>> \in OpToRel(<, Nat))
    BY <1>1, WFMin, NatLessThanWellFounded, Nat \ G \subseteq Nat
  <1>3. \A m \in Nat \ G : ~ (m < n)
    BY <1>2 DEF OpToRel
  <1>4. n # 0 /\ n - 1 \in Nat /\ n - 1 < n
    OBVIOUS
  <1>5. n - 1 \in G
    BY <1>3, <1>4
  <1> QED
    BY <1>4, <1>5

\* Some of the subsets of a finite set has none of the others below it.
LEMMA SmallestOne ==
  ASSUME NEW S, IsFiniteSet(S), NEW G, G \subseteq SUBSET S, G # {}
  PROVE  \E T \in G : \A U \in G : ~ (U \subseteq T /\ U # T)
  <1>1. FiniteSubsetsOf(S) = SUBSET S
    BY FS_FiniteSubsetsOfFinite
  <1>2. IsWellFoundedOn(StrictSubsetOrdering(S), SUBSET S)
    BY <1>1, FS_StrictSubsetOrderingWellFounded
  <1>3. PICK T \in G : \A U \in G : ~ (<<U, T>> \in StrictSubsetOrdering(S))
    BY <1>2, WFMin
  <1> QED
    BY <1>3 DEF StrictSubsetOrdering

\* A set of sets that has the empty one and with a set each that has one element more
\* has every finite set.
LEMMA EverySubset ==
  ASSUME NEW S, IsFiniteSet(S), NEW G, {} \in G,
         \A T \in SUBSET S : \A x \in S \ T : T \in G => T \cup {x} \in G
  PROVE  SUBSET S \subseteq G
  <1> DEFINE Bad == (SUBSET S) \ G
  <1>1. SUFFICES ASSUME Bad # {}
                 PROVE  FALSE
    OBVIOUS
  <1>2. Bad \subseteq SUBSET S
    OBVIOUS
  <1> HIDE DEF Bad
  <1>3. PICK T \in Bad : \A U \in Bad : ~ (U \subseteq T /\ U # T)
    BY <1>1, <1>2, SmallestOne
  <1> USE DEF Bad
  <1>5. T # {}
    BY <1>3
  <1>6. PICK x \in T : TRUE
    BY <1>5
  <1>7. T \ {x} \in G
    BY <1>3, T \ {x} \subseteq T, T \ {x} # T, T \ {x} \in SUBSET S
  <1> QED
    BY <1>7, (T \ {x}) \cup {x} = T, x \in S \ (T \ {x}), T \ {x} \in SUBSET S

-----------------------------------------------------------------------------
(* A sum is well defined.                                                  *)

Pick(s) == CHOOSE x \in s : TRUE
Adds(g, f, D) == 
    g = [s \in D |-> IF s = {} THEN 0 ELSE f[Pick(s)] + g[s \ {Pick(s)}]]

\* A sum is what the function that Adds defines has for the whole set.
LEMMA SumIsChosen ==
  ASSUME NEW f, NEW S
  PROVE  Sum(f, S) = (CHOOSE g : Adds(g, f, SUBSET S))[S]
  BY DEF Sum, FoldSet, MapThenFoldSet, Adds, Pick

\* Some function adds up the subsets of a finite set: by induction over their sizes.
LEMMA SomeAdds ==
  ASSUME NEW f, NEW S, IsFiniteSet(S)
  PROVE  \E g : Adds(g, f, SUBSET S)
  <1> DEFINE D(n) == {s \in SUBSET S : Cardinality(s) <= n}
             G == {n \in Nat : \E g : Adds(g, f, D(n))}
  <1>1. \A s \in SUBSET S : IsFiniteSet(s) /\ Cardinality(s) \in Nat /\ Cardinality(s) <= Cardinality(S)
    BY FS_Subset, FS_CardinalityType
  <1>2. \A s \in SUBSET S : s # {} => Pick(s) \in s
    BY DEF Pick
  <1>3. \A s \in SUBSET S : s # {} => s \ {Pick(s)} \in SUBSET S
                                      /\ Cardinality(s \ {Pick(s)}) = Cardinality(s) - 1
    BY <1>1, <1>2, FS_RemoveElement
  <1>4. 0 \in G
    <2> DEFINE g == [s \in D(0) |-> 0]
    <2>1. \A s \in D(0) : s = {}
      BY <1>1, FS_EmptySet
    <2>2. Adds(g, f, D(0))
      BY <2>1 DEF Adds
    <2> QED
      BY <2>2
  <1>5. ASSUME NEW n \in Nat, n \in G
        PROVE  n + 1 \in G
    <2>1. PICK g : Adds(g, f, D(n))
      BY <1>5
    <2> DEFINE h == [s \in D(n + 1) |-> IF s = {} THEN 0 ELSE f[Pick(s)] + g[s \ {Pick(s)}]]
    <2>2. \A s \in D(n) : g[s] = IF s = {} THEN 0 ELSE f[Pick(s)] + g[s \ {Pick(s)}]
      BY <2>1, Zenon DEF Adds
    <2>3. D(n) \subseteq D(n + 1)
      BY <1>1
    <2>4. \A s \in D(n) : s \in D(n + 1) /\ h[s] = g[s]
      BY <2>2, <2>3
    <2>5. \A s \in D(n + 1) : s # {} => s \ {Pick(s)} \in D(n)
      BY <1>1, <1>3
    <2>6. Adds(h, f, D(n + 1))
      BY <2>4, <2>5 DEF Adds
    <2>7. \E gg : Adds(gg, f, D(n + 1))
      BY <2>6, Zenon
    <2> HIDE DEF D
    <2> QED
      BY <2>7
  <1>6. Cardinality(S) \in G
    BY <1>1, <1>4, <1>5, EveryNumber
  <1>7. D(Cardinality(S)) = SUBSET S
    BY <1>1
  <1> QED
    BY <1>6, <1>7

\* It is the sum: for the empty set, and with one element taken out.
LEMMA SumAdds ==
  ASSUME NEW f, NEW S, IsFiniteSet(S)
  PROVE  \E g : /\ Adds(g, f, SUBSET S)
                /\ \A T \in SUBSET S : Sum(f, T) = g[T]
  <1> DEFINE g == CHOOSE g : Adds(g, f, SUBSET S)
  <1>1. Adds(g, f, SUBSET S)
    BY SomeAdds, Zenon
  <1>2. ASSUME NEW T \in SUBSET S
        PROVE  Sum(f, T) = g[T]
    <2> DEFINE h == CHOOSE h : Adds(h, f, SUBSET T)
               Bad == {U \in SUBSET T : h[U] # g[U]}
    <2>1. IsFiniteSet(T)
      BY FS_Subset
    <2>2. Adds(h, f, SUBSET T)
      BY <2>1, SomeAdds, Zenon
    <2> HIDE DEF g, h
    <2>3. \A U \in SUBSET S : g[U] = IF U = {} THEN 0 ELSE f[Pick(U)] + g[U \ {Pick(U)}]
      BY <1>1, Zenon DEF Adds
    <2>4. \A U \in SUBSET T : h[U] = IF U = {} THEN 0 ELSE f[Pick(U)] + h[U \ {Pick(U)}]
      BY <2>2, Zenon DEF Adds
    <2>5. SUFFICES ASSUME Bad # {} PROVE FALSE
      BY SumIsChosen DEF h
    <2>6. Bad \subseteq SUBSET T
      OBVIOUS
    <2> HIDE DEF Bad
    <2>7. PICK U \in Bad : \A V \in Bad : ~ (V \subseteq U /\ V # U)
      BY <2>1, <2>5, <2>6, SmallestOne
    <2> USE DEF Bad
    <2>8. U # {} /\ Pick(U) \in U
      <3>1. U # {}
        BY <2>3, <2>4, <2>7
      <3> QED
        BY <3>1 DEF Pick
    <2>9. U \ {Pick(U)} \in SUBSET T /\ U \ {Pick(U)} # U
      BY <2>8
    <2>10. h[U \ {Pick(U)}] = g[U \ {Pick(U)}]
      BY <2>7, <2>9
    <2>11. h[U] = g[U]
      BY <2>3, <2>4, <2>8, <2>9, <2>10
    <2> QED
      BY <2>7, <2>11
  <1> QED
    BY <1>1, <1>2, Zenon

\* Nothing adds up to nothing.
LEMMA SumEmpty == \A f : Sum(f, {}) = 0
  <1> TAKE f
  <1>1. PICK g : Adds(g, f, SUBSET {}) /\ \A T \in SUBSET {} : Sum(f, T) = g[T]
    BY SumAdds, FS_EmptySet
  <1>2. g[{}] = 0
    BY <1>1 DEF Adds
  <1> QED
    BY <1>1, <1>2

\* Sums of integers are integers, and any element may be taken out first.
LEMMA SumTakesOut ==
  ASSUME NEW S, IsFiniteSet(S), NEW f, \A x \in S : f[x] \in Int
  PROVE  \A T \in SUBSET S : /\ Sum(f, T) \in Int
                             /\ \A x \in T : Sum(f, T) = f[x] + Sum(f, T \ {x})
  <1>1. PICK g : Adds(g, f, SUBSET S) /\ \A T \in SUBSET S : Sum(f, T) = g[T]
    BY SumAdds
  <1>2. \A T \in SUBSET S : g[T] = IF T = {} THEN 0 ELSE f[Pick(T)] + g[T \ {Pick(T)}]
    BY <1>1, Zenon DEF Adds
  <1> DEFINE Good(T) == g[T] \in Int /\ \A x \in T : g[T] = f[x] + g[T \ {x}]
             Bad == {T \in SUBSET S : ~ Good(T)}
  <1> HIDE DEF Good
  <1>3. SUFFICES ASSUME Bad # {} PROVE FALSE
    BY <1>1 DEF Good
  <1>4. Bad \subseteq SUBSET S
    OBVIOUS
  <1> HIDE DEF Bad
  <1>5. PICK T \in Bad : \A U \in Bad : ~ (U \subseteq T /\ U # T)
    BY <1>3, <1>4, SmallestOne
  <1>6. T \in SUBSET S /\ ~ Good(T) /\ \A U \in SUBSET T : U # T => Good(U)
    BY <1>5 DEF Bad
  <1>7. g[{}] = 0
    BY <1>2
  <1>8. Good({})
    BY <1>7 DEF Good
  <1>9. T # {}
    BY <1>8, <1>6
  <1> DEFINE c == Pick(T)
  <1>10. c \in T
    BY <1>9 DEF Pick
  <1> HIDE DEF c
  <1>11. g[T] = f[c] + g[T \ {c}] /\ Good(T \ {c})
    BY <1>2, <1>6, <1>10, T \ {c} # T, T \ {c} \in SUBSET T DEF c
  <1>12. ASSUME NEW x \in T, x # c
         PROVE  g[T] = f[x] + g[T \ {x}]
    <2> DEFINE U == T \ {x, c}
    <2>1. U = (T \ {c}) \ {x} /\ U = (T \ {x}) \ {c}
      OBVIOUS
    <2>2. Good(T \ {x}) /\ Good(U)
      BY <1>6, <1>10, <1>12, T \ {x} # T, U # T
    <2>3. x \in T \ {c} /\ c \in T \ {x}
      BY <1>10, <1>12
    <2>4. g[T \ {c}] = f[x] + g[U] /\ g[T \ {x}] = f[c] + g[U] /\ g[U] \in Int
      BY <1>11, <2>1, <2>2, <2>3 DEF Good
    <2>5. f[x] \in Int /\ f[c] \in Int
      BY <1>6, <1>10
    <2> HIDE DEF U
    <2> QED
      BY <1>11, <2>4, <2>5
  <1>13. Good(T)
    <2>1. g[T] \in Int
      BY <1>6, <1>10, <1>11 DEF Good
    <2> QED
      BY <1>11, <1>12, <2>1 DEF Good
  <1> QED
    BY <1>6, <1>13

\* With one element more.
LEMMA SumTakesIn ==
  ASSUME NEW S, IsFiniteSet(S), NEW f, \A x \in S : f[x] \in Int,
         NEW T \in SUBSET S, NEW x \in S \ T
  PROVE  Sum(f, T \cup {x}) = f[x] + Sum(f, T)
  <1>1. T \cup {x} \in SUBSET S /\ (T \cup {x}) \ {x} = T
    OBVIOUS
  <1> QED
    BY <1>1, SumTakesOut

\* The sum of one is what it has.
LEMMA SumOfOne ==
  ASSUME NEW f, NEW x, f[x] \in Int
  PROVE  Sum(f, {x}) = f[x]
  <1> DEFINE S == {x}
  <1>1. IsFiniteSet(S) /\ S \in SUBSET S /\ x \in S /\ \A y \in S : f[y] \in Int
    BY FS_Singleton
  <1>2. S \ {x} = {}
    OBVIOUS
  <1> HIDE DEF S
  <1>3. Sum(f, S) = f[x] + Sum(f, S \ {x})
    BY <1>1, SumTakesOut
  <1> QED
    BY <1>2, <1>3, SumEmpty DEF S

\* Sums of numbers are numbers.
LEMMA SumIsNat ==
  ASSUME NEW S, IsFiniteSet(S), NEW f, \A x \in S : f[x] \in Nat
  PROVE  \A T \in SUBSET S : Sum(f, T) \in Nat
  <1> DEFINE G == {T \in SUBSET S : Sum(f, T) \in Nat}
  <1>1. {} \in G
    BY SumEmpty
  <1>2. ASSUME NEW T \in SUBSET S, NEW x \in S \ T, T \in G
        PROVE  T \cup {x} \in G
    <2>1. Sum(f, T \cup {x}) = f[x] + Sum(f, T)
      BY SumTakesIn
    <2> QED
      BY <1>2, <2>1
  <1> HIDE DEF G
  <1>3. SUBSET S \subseteq G
    BY <1>1, <1>2, EverySubset
  <1> QED
    BY <1>3 DEF G

\* It depends on what f has for those that are added up.
LEMMA SumIsSame ==
  ASSUME NEW S, IsFiniteSet(S), NEW f, NEW h,
         \A x \in S : f[x] \in Int /\ h[x] = f[x]
  PROVE  \A T \in SUBSET S : Sum(f, T) = Sum(h, T)
  <1> DEFINE G == {T \in SUBSET S : Sum(f, T) = Sum(h, T)}
  <1>1. {} \in G
    BY SumEmpty
  <1>2. ASSUME NEW T \in SUBSET S, NEW x \in S \ T, T \in G
        PROVE  T \cup {x} \in G
    <2>1. Sum(f, T \cup {x}) = f[x] + Sum(f, T)
      BY SumTakesIn
    <2>2. Sum(h, T \cup {x}) = h[x] + Sum(h, T)
      BY SumTakesIn
    <2> QED
      BY <1>2, <2>1, <2>2
  <1> HIDE DEF G
  <1>3. SUBSET S \subseteq G
    BY <1>1, <1>2, EverySubset
  <1> QED
    BY <1>3 DEF G

\* Two parts that have nothing in common.
LEMMA SumOfParts ==
  ASSUME NEW S, IsFiniteSet(S), NEW f, \A x \in S : f[x] \in Int,
         NEW A \in SUBSET S
  PROVE  \A B \in SUBSET S : A \cap B = {} => Sum(f, A \cup B) = Sum(f, A) + Sum(f, B)
  <1> DEFINE G == {B \in SUBSET S : A \cap B = {} => Sum(f, A \cup B) = Sum(f, A) + Sum(f, B)}
  <1>1. \A B \in SUBSET S : Sum(f, B) \in Int
    BY SumTakesOut
  <1>2. {} \in G
    BY SumEmpty, <1>1, A \cup {} = A
  <1>3. ASSUME NEW B \in SUBSET S, NEW x \in S \ B, B \in G
        PROVE  B \cup {x} \in G
    <2>1. SUFFICES ASSUME A \cap (B \cup {x}) = {}
                   PROVE  Sum(f, A \cup (B \cup {x})) = Sum(f, A) + Sum(f, B \cup {x})
      OBVIOUS
    <2>2. x \in S \ (A \cup B) /\ A \cap B = {} /\ A \cup B \in SUBSET S
      BY <2>1
    <2>3. Sum(f, (A \cup B) \cup {x}) = f[x] + Sum(f, A \cup B)
      BY <2>2, SumTakesIn
    <2>4. Sum(f, B \cup {x}) = f[x] + Sum(f, B)
      BY SumTakesIn
    <2>5. Sum(f, A \cup B) = Sum(f, A) + Sum(f, B)
      BY <1>3, <2>2
    <2>6. (A \cup B) \cup {x} = A \cup (B \cup {x})
      OBVIOUS
    <2>7. Sum(f, A \cup (B \cup {x})) = f[x] + Sum(f, A \cup B)
      BY <2>3, <2>6, Zenon
    <2> QED
      BY <2>4, <2>5, <2>7, <1>1, f[x] \in Int
  <1> HIDE DEF G
  <1>4. SUBSET S \subseteq G
    BY <1>2, <1>3, EverySubset
  <1> QED
    BY <1>4 DEF G

\* Part of a sum of numbers is not larger, and the rest may be left out if it is zero.
LEMMA SumOfPart ==
  ASSUME NEW S, IsFiniteSet(S), NEW f, \A x \in S : f[x] \in Nat,
         NEW B \in SUBSET S, NEW A \in SUBSET B
  PROVE  Sum(f, A) <= Sum(f, B)
  <1>1. \A C \in SUBSET S : Sum(f, C) \in Nat
    BY SumIsNat
  <1>2. A \in SUBSET S /\ B \ A \in SUBSET S /\ A \cap (B \ A) = {} /\ A \cup (B \ A) = B
    OBVIOUS
  <1>3. Sum(f, A \cup (B \ A)) = Sum(f, A) + Sum(f, B \ A)
    BY <1>2, SumOfParts
  <1>4. Sum(f, B) = Sum(f, A) + Sum(f, B \ A)
    BY <1>2, <1>3, Zenon
  <1> QED
    BY <1>1, <1>2, <1>4

\* Zeros add up to nothing.
LEMMA SumOfZeros ==
  ASSUME NEW S, IsFiniteSet(S), NEW f, \A x \in S : f[x] = 0
  PROVE  \A T \in SUBSET S : Sum(f, T) = 0
  <1> DEFINE G == {T \in SUBSET S : Sum(f, T) = 0}
  <1>1. {} \in G
    BY SumEmpty
  <1>2. ASSUME NEW T \in SUBSET S, NEW x \in S \ T, T \in G
        PROVE  T \cup {x} \in G
    <2>1. Sum(f, T \cup {x}) = f[x] + Sum(f, T)
      BY SumTakesIn
    <2> QED
      BY <1>2, <2>1
  <1> HIDE DEF G
  <1>3. SUBSET S \subseteq G
    BY <1>1, <1>2, EverySubset
  <1> QED
    BY <1>3 DEF G

\* A sum without zeros is the same.
LEMMA SumOfRest ==
  ASSUME NEW S, IsFiniteSet(S), NEW f, \A x \in S : f[x] \in Int,
         NEW A \in SUBSET S, \A x \in S \ A : f[x] = 0
  PROVE  Sum(f, S) = Sum(f, A)
  <1>1. S \ A \in SUBSET S /\ A \cap (S \ A) = {} /\ A \cup (S \ A) = S /\ IsFiniteSet(S \ A)
    BY FS_Subset
  <1>2. Sum(f, A \cup (S \ A)) = Sum(f, A) + Sum(f, S \ A)
    BY <1>1, SumOfParts
  <1>3. Sum(f, S) = Sum(f, A) + Sum(f, S \ A)
    BY <1>1, <1>2, Zenon
  <1>4. Sum(f, S \ A) = 0
    BY <1>1, SumOfZeros
  <1>5. Sum(f, A) \in Int
    BY SumTakesOut
  <1> QED
    BY <1>3, <1>4, <1>5

\* Ones add up to the number of elements.
LEMMA SumOfOnes ==
  ASSUME NEW S, IsFiniteSet(S), NEW f, \A x \in S : f[x] = 1
  PROVE  \A T \in SUBSET S : Sum(f, T) = Cardinality(T)
  <1> DEFINE G == {T \in SUBSET S : Sum(f, T) = Cardinality(T)}
  <1>1. {} \in G
    BY SumEmpty, FS_EmptySet
  <1>2. ASSUME NEW T \in SUBSET S, NEW x \in S \ T, T \in G
        PROVE  T \cup {x} \in G
    <2>1. Sum(f, T \cup {x}) = f[x] + Sum(f, T)
      BY SumTakesIn
    <2>2. IsFiniteSet(T) /\ Cardinality(T) \in Nat
      BY FS_Subset, FS_CardinalityType
    <2>3. Cardinality(T \cup {x}) = Cardinality(T) + 1
      BY <2>2, FS_AddElement
    <2> QED
      BY <1>2, <2>1, <2>2, <2>3
  <1> HIDE DEF G
  <1>3. SUBSET S \subseteq G
    BY <1>1, <1>2, EverySubset
  <1> QED
    BY <1>3 DEF G

-----------------------------------------------------------------------------
(* The largest and the smallest of some numbers.                           *)

\* A finite set of numbers has a largest.
LEMMA MaxIsLargest ==
  ASSUME NEW S \in SUBSET Int, IsFiniteSet(S), S # {}
  PROVE  Max(S) \in S /\ \A x \in S : x <= Max(S)
  <1> DEFINE Has(T) == \E m \in T : \A x \in T : x <= m
             G == {T \in SUBSET S : T = {} \/ Has(T)}
  <1>1. {} \in G
    OBVIOUS
  <1>2. ASSUME NEW T \in SUBSET S, NEW x \in S \ T, T \in G
        PROVE  T \cup {x} \in G
    <2>1. CASE T = {}
      BY <2>1
    <2>2. CASE T # {}
      <3>1. PICK m \in T : \A y \in T : y <= m
        BY <1>2, <2>2
      <3>2. CASE x <= m
        BY <3>1, <3>2
      <3>3. CASE ~(x <= m)
        <4>1. \A y \in T \cup {x} : y <= x
          BY <3>1, <3>3
        <4> QED  BY <4>1
      <3> QED  BY <3>2, <3>3
    <2> QED  BY <2>1, <2>2
  <1> HIDE DEF G
  <1>3. SUBSET S \subseteq G
    BY <1>1, <1>2, EverySubset
  <1>4. Has(S)
    BY <1>3 DEF G
  <1> QED
    BY <1>4 DEF Max

\* A set of natural numbers has a smallest.
LEMMA SomeSmallest ==
  ASSUME NEW S \in SUBSET Nat, S # {}
  PROVE  \E m \in S : \A x \in S : m <= x
  <1>1. PICK m \in S : \A x \in S : ~ (<<x, m>> \in OpToRel(<, Nat))
    BY WFMin, NatLessThanWellFounded
  <1>2. \A x \in S : ~ (x < m)
    BY <1>1 DEF OpToRel
  <1> QED
    BY <1>2
\* What one has is not more than what all have.
LEMMA SumOfAll ==
  ASSUME NEW S, IsFiniteSet(S), NEW f, \A x \in S : f[x] \in Nat
  PROVE  \A x \in S : f[x] <= Sum(f, S)
  <1> SUFFICES ASSUME NEW x \in S PROVE f[x] <= Sum(f, S)
    OBVIOUS
  <1>1. Sum(f, S) = f[x] + Sum(f, S \ {x})
    <2>1. (\A y \in S : f[y] \in Int) /\ S \in SUBSET S
      OBVIOUS
    <2> QED  BY <2>1, SumTakesOut
  <1>2. Sum(f, S \ {x}) \in Nat
    <2>1. S \ {x} \in SUBSET S
      OBVIOUS
    <2> QED  BY <2>1, SumIsNat
  <1> QED  BY <1>1, <1>2

\* A payment of one from a to b leaves the sum.
LEMMA SumMoves ==
  ASSUME NEW S, IsFiniteSet(S), NEW f, NEW h, NEW a \in S, NEW b \in S, a # b,
         \A x \in S : f[x] \in Int /\ h[x] \in Int,
         h[a] = f[a] - 1, h[b] = f[b] + 1, \A x \in S \ {a, b} : h[x] = f[x]
  PROVE  Sum(h, S) = Sum(f, S)
  <1> DEFINE R == (S \ {a}) \ {b}
  <1>1. /\ S \in SUBSET S /\ S \ {a} \in SUBSET S /\ R \in SUBSET S /\ b \in S \ {a}
        /\ \A x \in R : h[x] = f[x]
    OBVIOUS
  <1>2. ASSUME NEW g, \A x \in S : g[x] \in Int
        PROVE  Sum(g, S) = g[a] + (g[b] + Sum(g, R)) /\ Sum(g, R) \in Int
    <2>1. \A T \in SUBSET S : /\ Sum(g, T) \in Int
                             /\ \A x \in T : Sum(g, T) = g[x] + Sum(g, T \ {x})
      BY <1>2, SumTakesOut
    <2> QED  BY <1>1, <2>1
  <1>3. Sum(f, R) = Sum(h, R)
    <2>1. IsFiniteSet(R)
      BY <1>1, FS_Subset
    <2>2. (\A x \in R : f[x] \in Int /\ h[x] = f[x]) /\ R \in SUBSET R
      BY <1>1
    <2> HIDE DEF R
    <2> QED  BY <2>1, <2>2, SumIsSame
  <1>4. /\ Sum(f, S) = f[a] + (f[b] + Sum(f, R)) /\ Sum(f, R) \in Int
        /\ Sum(h, S) = h[a] + (h[b] + Sum(h, R))
    <2>1. (\A x \in S : f[x] \in Int) /\ \A x \in S : h[x] \in Int
      OBVIOUS
    <2> QED  BY <1>2, <2>1
  <1>5. f[a] \in Int /\ f[b] \in Int
    OBVIOUS
  <1> HIDE DEF R
  <1> QED  BY <1>3, <1>4, <1>5

=============================================================================
