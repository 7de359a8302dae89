----------------------------- MODULE FoldLemmas -----------------------------
(***************************************************************************)
(* Induction, least and greatest numbers, and what the folds of the library  *)
(* compute, without an operator as a parameter.                              *)
(***************************************************************************)
EXTENDS SequencesExt, FiniteSetTheorems, TLAPS

\* Induction without an operator: a set that holds 0 and with a number the
\* next one holds them all.
LEMMA SetInduction ==
  ASSUME NEW T, 0 \in T, \A n \in Nat : n \in T => n + 1 \in T
  PROVE  Nat \subseteq T
<1> SUFFICES ASSUME NEW m \in Nat, m \notin T PROVE FALSE
  OBVIOUS
<1> DEFINE D == T \intersect (0 .. m)
           next == [x \in D |-> x + 1]
<1>1. IsFiniteSet(D)
  <2>1. IsFiniteSet(0 .. m)
    BY FS_Interval
  <2>2. D \in SUBSET (0 .. m)
    OBVIOUS
  <2> HIDE DEF D
  <2> QED  BY <2>1, <2>2, FS_Subset
<1>2. 0 \in D
  OBVIOUS
<1>3. next \in [D -> D \ {0}]
  <2>1. ASSUME NEW x \in D PROVE x + 1 \in D \ {0}
    OBVIOUS
  <2> QED  BY <2>1
<1>4. \A x, y \in D : x # y => next[x] # next[y]
  OBVIOUS
<1> HIDE DEF next, D
<1>5. IsFiniteSet(D \ {0}) /\ Cardinality(D) \in Nat /\ Cardinality(D \ {0}) = Cardinality(D) - 1
  BY <1>1, <1>2, FS_RemoveElement, FS_CardinalityType
<1>6. Cardinality(D \ {0}) < Cardinality(D)
  BY <1>5
<1> QED BY <1>1, <1>3, <1>4, <1>5, <1>6, FS_PigeonHole

\* A set of natural numbers that is not empty has a least number.
LEMMA Least ==
  ASSUME NEW S \in SUBSET Nat, S # {}
  PROVE  \E m \in S : \A x \in S : m <= x
<1> SUFFICES ASSUME \A m \in S : \E x \in S : x < m PROVE FALSE
  OBVIOUS
<1> DEFINE T == {k \in Nat : \A x \in S : k <= x}
<1>1. 0 \in T
  OBVIOUS
<1>2. ASSUME NEW k \in Nat, k \in T PROVE k + 1 \in T
  <2>1. k \notin S
    BY <1>2
  <2>2. ASSUME NEW x \in S PROVE k + 1 <= x
    BY <1>2, <2>1
  <2> QED  BY <2>2
<1>3. Nat \subseteq T
  <2> HIDE DEF T
  <2> QED  BY <1>1, <1>2, SetInduction
<1>4. PICK m \in S : TRUE
  OBVIOUS
<1>5. m + 1 \in T
  <2> HIDE DEF T
  <2> QED  BY <1>3
<1> QED  BY <1>5

\* And if it is bounded, a greatest one.
LEMMA Greatest ==
  ASSUME NEW n \in Nat, NEW S \in SUBSET (0..n), S # {}
  PROVE  Max(S) \in S /\ \A x \in S : x <= Max(S)
<1> DEFINE U == {k \in Nat : \A x \in S : x <= k}
<1>1. n \in U
  OBVIOUS
<1>2. PICK m \in U : \A k \in U : m <= k
  <2> HIDE DEF U
  <2>1. U \in SUBSET Nat
    BY DEF U
  <2> QED  BY <1>1, <2>1, Least
<1>3. m \in S
  <2> SUFFICES ASSUME m \notin S PROVE FALSE
    OBVIOUS
  <2>1. PICK x \in S : TRUE
    OBVIOUS
  <2>2. m - 1 \in U
    <3>1. \A y \in S : y <= m - 1
      OBVIOUS
    <3>2. m - 1 \in Nat
      BY <2>1
    <3> QED BY <3>1, <3>2
  <2> QED BY <1>2, <2>2
<1>4. \E x \in S : \A y \in S : x >= y
  BY <1>2, <1>3
<1>5. Max(S) \in S /\ \A x \in S : Max(S) >= x
  BY <1>4, Zenon DEF Max
<1> QED BY <1>5

LEMMA Largest ==
  ASSUME NEW n \in Nat, NEW S \in SUBSET (1..n), S # {}
  PROVE  Max(S) \in S /\ \A x \in S : x <= Max(S)
<1>1. S \in SUBSET (0..n)
  OBVIOUS
<1> QED BY <1>1, Greatest

\* A part of an initial segment may end with the segment's last number; what
\* is left of it without that number is part of the segment before.
LEMMA Ending ==
  ASSUME NEW k \in Nat, NEW s \in SUBSET (1..k + 1)
  PROVE  /\ s \ {k + 1} \in SUBSET (1..k)
         /\ k + 1 \notin s => s \in SUBSET (1..k)
         /\ k + 1 \in s => Max(s) = k + 1
<1>1. s \ {k + 1} \in SUBSET (1..k)
  <2>1. ASSUME NEW x \in s, x # k + 1 PROVE x \in 1..k
    BY <2>1
  <2> QED  BY <2>1
<1>2. ASSUME k + 1 \in s PROVE Max(s) = k + 1
  <2>1. k + 1 \in Nat
    OBVIOUS
  <2>2. Max(s) \in s /\ \A x \in s : x <= Max(s)
    BY <1>2, <2>1, Largest
  <2>3. Max(s) \in 1..k + 1 /\ k + 1 <= Max(s)
    BY <1>2, <2>2
  <2> QED  BY <2>3
<1>3. ASSUME k + 1 \notin s PROVE s \in SUBSET (1..k)
  <2>1. s \ {k + 1} = s
    BY <1>3
  <2> QED  BY <1>1, <2>1
<1> QED  BY <1>1, <1>2, <1>3

\* g applies the step F from the least number of every part of 1..k to the largest.
Iterates(g, k, base, F) ==
  \A s \in SUBSET (1..k) : g[s] = IF s = {} THEN base ELSE F[<<Max(s), g[s \ {Max(s)}]>>]

\* One more number can be taken into account.
LEMMA FoldExtends ==
  ASSUME NEW k \in Nat, NEW V, NEW base \in V, NEW F, \A v \in V : F[<<k + 1, v>>] \in V,
         NEW h \in [SUBSET (1..k) -> V], Iterates(h, k, base, F)
  PROVE  \E g \in [SUBSET (1..k + 1) -> V] : Iterates(g, k + 1, base, F)
<1> DEFINE g == [s \in SUBSET (1..k + 1) |-> IF k + 1 \in s THEN F[<<k + 1, h[s \ {k + 1}]>>] ELSE h[s]]
<1>1. ASSUME NEW s \in SUBSET (1..k + 1) PROVE g[s] \in V
  <2>1. s \ {k + 1} \in SUBSET (1..k) /\ (k + 1 \notin s => s \in SUBSET (1..k))
    BY Ending
  <2>2. h[s \ {k + 1}] \in V /\ (k + 1 \notin s => h[s] \in V)
    BY <2>1
  <2>3. g[s] = IF k + 1 \in s THEN F[<<k + 1, h[s \ {k + 1}]>>] ELSE h[s]
    OBVIOUS
  <2> HIDE DEF g
  <2> QED  BY <2>2, <2>3
<1>2. g \in [SUBSET (1..k + 1) -> V]
  <2> DEFINE G(s) == IF k + 1 \in s THEN F[<<k + 1, h[s \ {k + 1}]>>] ELSE h[s]
  <2>1. \A s \in SUBSET (1..k + 1) : G(s) \in V
    BY <1>1
  <2>2. g = [s \in SUBSET (1..k + 1) |-> G(s)]
    OBVIOUS
  <2> HIDE DEF G, g
  <2> QED  BY <2>1, <2>2
<1>3. ASSUME NEW s \in SUBSET (1..k + 1), k + 1 \in s
      PROVE  g[s] = IF s = {} THEN base ELSE F[<<Max(s), g[s \ {Max(s)}]>>]
  <2>1. Max(s) = k + 1 /\ s \ {k + 1} \in SUBSET (1..k + 1) /\ k + 1 \notin s \ {k + 1}
    BY <1>3, Ending
  <2>2. g[s \ {k + 1}] = h[s \ {k + 1}] /\ g[s] = F[<<k + 1, h[s \ {k + 1}]>>]
    BY <1>3, <2>1
  <2> HIDE DEF g
  <2> QED  BY <1>3, <2>1, <2>2
<1>4. ASSUME NEW s \in SUBSET (1..k + 1), k + 1 \notin s
      PROVE  g[s] = IF s = {} THEN base ELSE F[<<Max(s), g[s \ {Max(s)}]>>]
  <2>1. s \in SUBSET (1..k)
    BY <1>4, Ending
  <2>2. s \ {Max(s)} \in SUBSET (1..k) /\ s \ {Max(s)} \in SUBSET (1..k + 1) /\ k + 1 \notin s \ {Max(s)}
    BY <1>4, <2>1
  <2>3. g[s] = h[s] /\ g[s \ {Max(s)}] = h[s \ {Max(s)}]
    BY <1>4, <2>2
  <2> HIDE DEF g
  <2>4. h[s] = IF s = {} THEN base ELSE F[<<Max(s), h[s \ {Max(s)}]>>]
    BY <2>1 DEF Iterates
  <2> QED  BY <2>3, <2>4
<1> HIDE DEF g
<1>5. Iterates(g, k + 1, base, F)
  BY <1>3, <1>4 DEF Iterates
<1> QED  BY <1>2, <1>5

\* There is a function that applies the step F as the folds of the library
\* do, when its steps stay within some set V.
LEMMA FoldExists ==
  ASSUME NEW n \in Nat, NEW V, NEW base \in V, NEW F, \A k \in 1..n, v \in V : F[<<k, v>>] \in V
  PROVE  \E g \in [SUBSET (1..n) -> V] : Iterates(g, n, base, F)
<1> DEFINE Upto(k) == \E g \in [SUBSET (1..k) -> V] : Iterates(g, k, base, F)
           T == {k \in Nat : k <= n => Upto(k)}
<1>1. Upto(0)
  <2> DEFINE g == [s \in SUBSET (1..0) |-> base]
  <2>1. 1..0 = {}
    OBVIOUS
  <2>2. g \in [SUBSET (1..0) -> V]
    OBVIOUS
  <2>3. Iterates(g, 0, base, F)
    BY <2>1 DEF Iterates
  <2> HIDE DEF g
  <2> QED  BY <2>2, <2>3
<1>2. ASSUME NEW k \in Nat, k + 1 <= n, Upto(k) PROVE Upto(k + 1)
  <2>1. PICK h \in [SUBSET (1..k) -> V] : Iterates(h, k, base, F)
    BY <1>2
  <2>2. \A v \in V : F[<<k + 1, v>>] \in V
    <3>1. k + 1 \in 1..n
      BY <1>2
    <3> QED  BY <3>1
  <2> QED  BY <2>1, <2>2, FoldExtends
<1> HIDE DEF Upto
<1>3. 0 \in T
  BY <1>1
<1>4. \A k \in Nat : k \in T => k + 1 \in T
  BY <1>2
<1>5. n \in T
  <2> HIDE DEF T
  <2> QED  BY <1>3, <1>4, SetInduction
<1>6. Upto(n)
  BY <1>5
<1> QED  BY <1>6 DEF Upto
=============================================================================
