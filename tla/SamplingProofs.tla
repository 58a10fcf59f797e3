--------------------------- MODULE SamplingProofs ---------------------------
(***************************************************************************)
(* Proofs about Sampling, for any finite vocabulary, any integer scores,   *)
(* any history and any parameters: the two samplers draw exactly what      *)
(* their filters are for.                                                  *)
(***************************************************************************)
EXTENDS SampledDecode, FiniteSetTheorems, WellFoundedInduction, TLAPS

-----------------------------------------------------------------------------
(* Finite sets, and the extremes of a finite table of integers. *)

(* A non-empty set of naturals has a least element. *)
LEMMA LeastNatural ==
  ASSUME NEW N \in SUBSET Nat, N # {}
  PROVE  \E x \in N : \A y \in N : x <= y
<1>1. PICK x \in N : \A y \in N : ~(<<y, x>> \in OpToRel(<, Nat))
  BY WFMin, NatLessThanWellFounded
<1>2. \A y \in N : ~(y < x)
  BY <1>1 DEF OpToRel
<1> QED
  BY <1>2

(* A part of a finite set is finite and has no more elements, and fewer if it *)
(* is a proper part. *)
LEMMA PartIsSmaller ==
  ASSUME NEW S, NEW T \in SUBSET S, IsFiniteSet(S)
  PROVE  /\ IsFiniteSet(T) /\ Cardinality(T) \in Nat /\ Cardinality(S) \in Nat
         /\ Cardinality(T) <= Cardinality(S)
         /\ T # S => Cardinality(T) < Cardinality(S)
<1>1. IsFiniteSet(T) /\ Cardinality(T) <= Cardinality(S) /\ (Cardinality(S) = Cardinality(T) => S = T)
  BY FS_Subset
<1>2. Cardinality(T) \in Nat /\ Cardinality(S) \in Nat
  BY <1>1, FS_CardinalityType
<1> QED
  BY <1>1, <1>2

(* A vocabulary: finitely many tokens with integer scores. *)
Vocabulary(l) == IsFiniteSet(DOMAIN l) /\ \A t \in DOMAIN l : l[t] \in Int

(* Among some tokens there is one of the lowest score. *)
LEMMA LowestScore ==
  ASSUME NEW l, NEW S \in SUBSET DOMAIN l, Vocabulary(l), S # {}
  PROVE  \E t \in S : \A u \in S : l[t] <= l[u]
<1> DEFINE Below(t) == {u \in S : l[u] < l[t]}
           N == {Cardinality(Below(t)) : t \in S}
<1>1. \A t \in S : l[t] \in Int
  BY DEF Vocabulary
<1>2. IsFiniteSet(S)
  BY PartIsSmaller DEF Vocabulary
<1>3. \A t \in S : Below(t) \in SUBSET S /\ IsFiniteSet(Below(t)) /\ Cardinality(Below(t)) \in Nat
  <2>1. \A t \in S : Below(t) \in SUBSET S
    OBVIOUS
  <2> HIDE DEF Below
  <2> QED
    BY <1>2, <2>1, PartIsSmaller
<1> HIDE DEF Below
<1>4. N \in SUBSET Nat /\ N # {}
  BY <1>3
<1>5. PICK t \in S : \A u \in S : Cardinality(Below(t)) <= Cardinality(Below(u))
  <2>1. PICK n \in N : \A y \in N : n <= y
    <3> HIDE DEF N
    <3> QED
      BY <1>4, LeastNatural
  <2> QED
    BY <2>1
<1>6. ASSUME NEW u \in S, l[u] < l[t] PROVE FALSE
  <2>1. Below(u) \in SUBSET Below(t) /\ u \in Below(t) /\ u \notin Below(u)
    BY <1>1, <1>6 DEF Below
  <2>2. Below(u) # Below(t)
    BY <2>1
  <2>3. Cardinality(Below(u)) < Cardinality(Below(t))
    BY <1>3, <2>1, <2>2, PartIsSmaller
  <2> QED
    BY <1>3, <1>5, <2>3
<1> QED
  BY <1>1, <1>6

(* ... and one of the highest. *)
LEMMA HighestScore ==
  ASSUME NEW l, NEW S \in SUBSET DOMAIN l, Vocabulary(l), S # {}
  PROVE  \E t \in S : \A u \in S : l[u] <= l[t]
<1> DEFINE m == [t \in DOMAIN l |-> 0 - l[t]]
<1>1. Vocabulary(m) /\ DOMAIN m = DOMAIN l
  BY DEF Vocabulary
<1>2. \A t \in S : l[t] \in Int /\ m[t] = 0 - l[t]
  BY DEF Vocabulary
<1> HIDE DEF m
<1>3. PICK t \in S : \A u \in S : m[t] <= m[u]
  BY <1>1, LowestScore
<1> QED
  BY <1>2, <1>3

(* Best is the highest score. *)
LEMMA BestIsHighest ==
  ASSUME NEW l, Vocabulary(l), DOMAIN l # {}
  PROVE  /\ Best(l) \in Int
         /\ \A u \in DOMAIN l : l[u] <= Best(l)
         /\ \E t \in DOMAIN l : l[t] = Best(l)
<1>1. PICK t \in DOMAIN l : \A u \in DOMAIN l : l[u] <= l[t]
  BY HighestScore
<1>2. \A u \in DOMAIN l : l[u] \in Int
  BY DEF Vocabulary
<1> DEFINE V == {l[u] : u \in DOMAIN l}
<1>3. l[t] \in V /\ \A y \in V : l[t] >= y
  BY <1>1, <1>2
<1>4. Max(V) \in V /\ \A y \in V : Max(V) >= y
  <2> HIDE DEF V
  <2> QED
    BY <1>3 DEF Max
<1>5. Best(l) = Max(V)
  BY DEF Best
<1> QED
  BY <1>2, <1>4, <1>5

-----------------------------------------------------------------------------
(* Counting: the k-th largest score. *)

AtLeast(l, v) == {t \in DOMAIN l : l[t] >= v}
Over(l, v) == {t \in DOMAIN l : l[t] > v}

(* These are parts of the vocabulary, and their sizes are numbers. *)
LEMMA Counts ==
  ASSUME NEW l, NEW v, Vocabulary(l)
  PROVE  /\ AtLeast(l, v) \in SUBSET DOMAIN l /\ Over(l, v) \in SUBSET DOMAIN l
         /\ IsFiniteSet(AtLeast(l, v)) /\ IsFiniteSet(Over(l, v))
         /\ Cardinality(AtLeast(l, v)) \in Nat /\ Cardinality(Over(l, v)) \in Nat
         /\ Cardinality(DOMAIN l) \in Nat
         /\ Cardinality(AtLeast(l, v)) <= Cardinality(DOMAIN l)
<1>1. AtLeast(l, v) \in SUBSET DOMAIN l /\ Over(l, v) \in SUBSET DOMAIN l
  BY DEF AtLeast, Over
<1> QED
  BY <1>1, PartIsSmaller DEF Vocabulary

(* What nth_element puts at index k - 1 is a score that fewer than k tokens *)
(* exceed and at least k tokens reach. *)
LEMMA LargestIsKth ==
  ASSUME NEW l, NEW k \in Nat, Vocabulary(l), 1 <= k, k <= Cardinality(DOMAIN l)
  PROVE  /\ Largest(l, k) \in Int
         /\ Cardinality(Over(l, Largest(l, k))) < k
         /\ Cardinality(AtLeast(l, Largest(l, k))) >= k
<1> DEFINE G == {t \in DOMAIN l : Cardinality(AtLeast(l, l[t])) >= k}
<1>1. \A t \in DOMAIN l : l[t] \in Int
  BY DEF Vocabulary
<1>2. DOMAIN l # {}
  BY FS_EmptySet
<1>3. G \in SUBSET DOMAIN l /\ G # {}
  <2>1. PICK t \in DOMAIN l : \A u \in DOMAIN l : l[t] <= l[u]
    BY <1>2, LowestScore
  <2>2. AtLeast(l, l[t]) = DOMAIN l
    BY <1>1, <2>1 DEF AtLeast
  <2> QED
    BY <2>2
<1>4. PICK t \in G : \A u \in G : l[u] <= l[t]
  <2> HIDE DEF G
  <2> QED
    BY <1>3, HighestScore
<1>5. Cardinality(Over(l, l[t])) < k
  <2> SUFFICES ASSUME Cardinality(Over(l, l[t])) >= k PROVE FALSE
    BY <1>1, <1>3, Counts
  <2>1. Over(l, l[t]) # {} /\ Over(l, l[t]) \in SUBSET DOMAIN l
    BY FS_EmptySet, Counts
  <2>2. PICK u \in Over(l, l[t]) : \A w \in Over(l, l[t]) : l[u] <= l[w]
    BY <2>1, LowestScore
  <2>3. u \in DOMAIN l /\ l[u] > l[t] /\ t \in DOMAIN l
    BY <1>3 DEF Over
  <2>4. AtLeast(l, l[u]) = Over(l, l[t])
    BY <1>1, <2>2, <2>3 DEF AtLeast, Over
  <2>5. u \in G
    BY <2>3, <2>4
  <2> QED
    BY <1>1, <1>4, <2>3, <2>5
<1>6. l[t] \in {l[u] : u \in DOMAIN l} /\ Cardinality(AtLeast(l, l[t])) >= k
  BY <1>3
<1> DEFINE Kth(v) == Cardinality({u \in DOMAIN l : l[u] > v}) < k /\ Cardinality({u \in DOMAIN l : l[u] >= v}) >= k
<1>7. Largest(l, k) = CHOOSE v \in {l[u] : u \in DOMAIN l} : Kth(v)
  BY DEF Largest, Quantify
<1>8. \A v : Kth(v) <=> Cardinality(Over(l, v)) < k /\ Cardinality(AtLeast(l, v)) >= k
  BY DEF Over, AtLeast
<1> HIDE DEF Kth
<1>9. Largest(l, k) \in {l[u] : u \in DOMAIN l} /\ Kth(Largest(l, k))
  BY <1>5, <1>6, <1>7, <1>8
<1> QED
  BY <1>1, <1>8, <1>9

-----------------------------------------------------------------------------
(* Folds over a finite set. *)

(* f folds the parts of S: pick takes an element off a part, F adds it to the *)
(* value of the rest. *)
FoldsTo(f, S, V, F, pick, base) ==
    /\ f \in [SUBSET S -> V]
    /\ \A s \in SUBSET S : f[s] = IF s = {} THEN base ELSE F[<<pick[s], f[s \ {pick[s]}]>>]

Picks(pick, S) == \A s \in SUBSET S : s # {} => pick[s] \in s

(* Over a finite set the recursion has a solution. *)
LEMMA FoldExists ==
  ASSUME NEW S, NEW V, NEW F \in [S \X V -> V], NEW pick, NEW base \in V,
         IsFiniteSet(S), Picks(pick, S)
  PROVE  \E f : FoldsTo(f, S, V, F, pick, base)
<1> DEFINE Good(f, n) == /\ f \in [SUBSET S -> V]
                         /\ \A s \in SUBSET S : Cardinality(s) <= n =>
                               f[s] = IF s = {} THEN base ELSE F[<<pick[s], f[s \ {pick[s]}]>>]
           N == {n \in Nat : ~\E f : Good(f, n)}
<1>1. \A s \in SUBSET S : IsFiniteSet(s) /\ Cardinality(s) \in Nat /\ Cardinality(s) <= Cardinality(S)
  BY PartIsSmaller
<1>2. \A s \in SUBSET S : s # {} => /\ pick[s] \in s /\ s \ {pick[s]} \in SUBSET S
                                   /\ Cardinality(s \ {pick[s]}) = Cardinality(s) - 1
  <2> SUFFICES ASSUME NEW s \in SUBSET S, s # {}
               PROVE  /\ pick[s] \in s /\ s \ {pick[s]} \in SUBSET S
                      /\ Cardinality(s \ {pick[s]}) = Cardinality(s) - 1
    OBVIOUS
  <2>1. pick[s] \in s
    BY DEF Picks
  <2> QED
    BY <1>1, <2>1, FS_RemoveElement
<1>3. \A s \in SUBSET S : Cardinality(s) = 0 <=> s = {}
  BY <1>1, FS_EmptySet
<1>4. N = {}
  <2> SUFFICES ASSUME N # {} PROVE FALSE
    OBVIOUS
  <2>1. PICK n \in N : \A y \in N : n <= y
    <3>1. N \in SUBSET Nat
      OBVIOUS
    <3> HIDE DEF N
    <3> QED
      BY <3>1, LeastNatural
  <2>2. n \in Nat /\ ~\E f : Good(f, n)
    BY <2>1
  <2>3. n # 0
    <3> DEFINE f == [s \in SUBSET S |-> base]
    <3>1. \A s \in SUBSET S : Cardinality(s) <= 0 => s = {}
      BY <1>1, <1>3
    <3>2. f \in [SUBSET S -> V]
      OBVIOUS
    <3>3. \A s \in SUBSET S : f[s] = base
      OBVIOUS
    <3> HIDE DEF f
    <3>4. Good(f, 0)
      BY <3>1, <3>2, <3>3
    <3> QED
      BY <2>2, <3>4
  <2>4. n - 1 \in Nat /\ n - 1 \notin N
    <3>1. n - 1 \in Nat /\ ~(n <= n - 1)
      BY <2>2, <2>3
    <3> HIDE DEF N
    <3> QED
      BY <2>1, <3>1
  <2>5. PICK f : Good(f, n - 1)
    BY <2>4
  <2> DEFINE g == [s \in SUBSET S |-> IF Cardinality(s) = n THEN F[<<pick[s], f[s \ {pick[s]}]>>] ELSE f[s]]
  <2>6. \A s \in SUBSET S : g[s] = IF Cardinality(s) = n THEN F[<<pick[s], f[s \ {pick[s]}]>>] ELSE f[s]
    OBVIOUS
  <2>7. g \in [SUBSET S -> V]
    <3>1. \A s \in SUBSET S : f[s] \in V
      BY <2>5
    <3>2. ASSUME NEW s \in SUBSET S, Cardinality(s) = n PROVE F[<<pick[s], f[s \ {pick[s]}]>>] \in V
      <4>1. s # {}
        BY <1>3, <2>3, <3>2
      <4>2. pick[s] \in S /\ f[s \ {pick[s]}] \in V
        BY <1>2, <3>1, <4>1
      <4> QED
        BY <4>2
    <3> QED
      BY <3>1, <3>2
  <2> HIDE DEF g
  <2>8. ASSUME NEW s \in SUBSET S, Cardinality(s) <= n
        PROVE  g[s] = IF s = {} THEN base ELSE F[<<pick[s], g[s \ {pick[s]}]>>]
    <3>1. s # {} => g[s \ {pick[s]}] = f[s \ {pick[s]}]
      <4> SUFFICES ASSUME s # {} PROVE g[s \ {pick[s]}] = f[s \ {pick[s]}]
        OBVIOUS
      <4>1. Cardinality(s \ {pick[s]}) # n /\ s \ {pick[s]} \in SUBSET S
        BY <1>1, <1>2, <2>2, <2>8
      <4> QED
        BY <2>6, <4>1
    <3>2. CASE Cardinality(s) = n
      BY <1>3, <2>3, <2>6, <3>1, <3>2
    <3>3. CASE Cardinality(s) # n
      <4>1. Cardinality(s) <= n - 1
        BY <1>1, <2>2, <2>8, <3>3
      <4>2. f[s] = IF s = {} THEN base ELSE F[<<pick[s], f[s \ {pick[s]}]>>]
        BY <2>5, <4>1
      <4> QED
        BY <2>6, <3>1, <3>3, <4>2
    <3> QED
      BY <3>2, <3>3
  <2>9. Good(g, n)
    BY <2>7, <2>8
  <2> QED
    BY <2>2, <2>9
<1>5. Cardinality(S) \in Nat
  BY <1>1
<1>6. PICK f : Good(f, Cardinality(S))
  BY <1>4, <1>5
<1>7. FoldsTo(f, S, V, F, pick, base)
  BY <1>1, <1>6 DEF FoldsTo
<1> QED
  BY <1>7

(* g follows the recursion on the parts of T, as far as its values are in V. *)
Follows(g, T, V, F, pick, base) ==
    \A s \in SUBSET T :
       /\ s = {} => g[s] = base
       /\ s # {} /\ g[s \ {pick[s]}] \in V => g[s] = F[<<pick[s], g[s \ {pick[s]}]>>]

(* Whatever follows the recursion is that fold. *)
LEMMA FoldAgrees ==
  ASSUME NEW S, NEW V, NEW F, NEW pick, NEW base, NEW f, NEW g, NEW T,
         T \in SUBSET S, IsFiniteSet(S), Picks(pick, S), FoldsTo(f, S, V, F, pick, base), Follows(g, T, V, F, pick, base)
  PROVE  \A s \in SUBSET T : g[s] = f[s]
<1> DEFINE B == {s \in SUBSET T : g[s] # f[s]}
           N == {Cardinality(s) : s \in B}
<1> SUFFICES ASSUME B # {} PROVE FALSE
  OBVIOUS
<1>1. \A s \in SUBSET T : s \in SUBSET S /\ IsFiniteSet(s) /\ Cardinality(s) \in Nat
  <2>1. \A s \in SUBSET T : s \in SUBSET S
    OBVIOUS
  <2> QED
    BY <2>1, PartIsSmaller
<1>2. PICK s \in B : \A r \in B : Cardinality(s) <= Cardinality(r)
  <2>1. N \in SUBSET Nat /\ N # {}
    BY <1>1
  <2>2. PICK n \in N : \A y \in N : n <= y
    <3> HIDE DEF N
    <3> QED
      BY <2>1, LeastNatural
  <2> QED
    BY <2>2
<1>3. s \in SUBSET T /\ s \in SUBSET S /\ g[s] # f[s]
  BY <1>1, <1>2
<1>4. f[s] = IF s = {} THEN base ELSE F[<<pick[s], f[s \ {pick[s]}]>>]
  BY <1>3 DEF FoldsTo
<1>5. s # {}
  BY <1>3, <1>4 DEF Follows
<1>6. pick[s] \in s
  BY <1>3, <1>5 DEF Picks
<1> DEFINE r == s \ {pick[s]}
<1>7. r \in SUBSET T /\ r \in SUBSET S /\ r \in SUBSET s /\ r # s
  BY <1>3, <1>6
<1> HIDE DEF r
<1>8. Cardinality(r) < Cardinality(s) /\ Cardinality(r) \in Nat /\ Cardinality(s) \in Nat
  BY <1>1, <1>3, <1>7, PartIsSmaller
<1>9. g[r] = f[r]
  <2>1. r \notin B
    <3> HIDE DEF B
    <3> QED
      BY <1>2, <1>8
  <2> QED
    BY <1>7, <2>1
<1>10. f[r] \in V
  BY <1>7 DEF FoldsTo
<1>11. g[s] = F[<<pick[s], g[r]>>]
  BY <1>3, <1>5, <1>9, <1>10 DEF r, Follows
<1> QED
  BY <1>3, <1>4, <1>5, <1>9, <1>11 DEF r

-----------------------------------------------------------------------------
(* Weights, and the mass of a set of tokens. *)

(* The powers of two that weights are taken from; the provers compute each. *)
LEMMA PowersPositive ==
  ASSUME NEW n \in 0 .. Precision
  PROVE  2 ^ n \in Int /\ 2 ^ n > 0
<1>1. /\ 2 ^ 0 > 0 /\ 2 ^ 1 > 0 /\ 2 ^ 2 > 0 /\ 2 ^ 3 > 0 /\ 2 ^ 4 > 0 /\ 2 ^ 5 > 0 /\ 2 ^ 6 > 0
      /\ 2 ^ 7 > 0 /\ 2 ^ 8 > 0 /\ 2 ^ 9 > 0 /\ 2 ^ 10 > 0 /\ 2 ^ 11 > 0 /\ 2 ^ 12 > 0 /\ 2 ^ 13 > 0
      /\ 2 ^ 14 > 0 /\ 2 ^ 15 > 0 /\ 2 ^ 16 > 0 /\ 2 ^ 17 > 0 /\ 2 ^ 18 > 0 /\ 2 ^ 19 > 0 /\ 2 ^ 20 > 0
  OBVIOUS
<1>2. \/ n = 0 \/ n = 1 \/ n = 2 \/ n = 3 \/ n = 4 \/ n = 5 \/ n = 6 \/ n = 7 \/ n = 8 \/ n = 9 \/ n = 10
      \/ n = 11 \/ n = 12 \/ n = 13 \/ n = 14 \/ n = 15 \/ n = 16 \/ n = 17 \/ n = 18 \/ n = 19 \/ n = 20
  BY DEF Precision
<1>3. 2 ^ n > 0
  BY <1>1, <1>2, Zenon
<1>4. 2 ^ n \in Int
  BY DEF Precision
<1> QED
  BY <1>3, <1>4

(* A token has a weight unless it was removed or is too far below the best. *)
LEMMA Weights ==
  ASSUME NEW l, NEW t \in DOMAIN l, Vocabulary(l)
  PROVE  /\ Weight(l, t) \in Nat
         /\ Weight(l, t) > 0 <=> l[t] # NegInf /\ Best(l) - l[t] <= Precision
<1>1. l[t] \in Int /\ Best(l) \in Int /\ l[t] <= Best(l)
  BY BestIsHighest DEF Vocabulary
<1> DEFINE d == Best(l) - l[t]
<1>2. d \in Nat
  BY <1>1
<1>3. Weight(l, t) = IF l[t] = NegInf \/ d > Precision THEN 0 ELSE 2 ^ (Precision - d)
  BY DEF Weight
<1>4. CASE l[t] = NegInf \/ d > Precision
  BY <1>1, <1>2, <1>3, <1>4 DEF Precision
<1>5. CASE ~(l[t] = NegInf \/ d > Precision)
  <2> DEFINE e == Precision - d
  <2>1. e \in 0 .. Precision
    BY <1>2, <1>5 DEF Precision
  <2>2. Weight(l, t) = 2 ^ e
    BY <1>3, <1>5
  <2> HIDE DEF e
  <2>3. Weight(l, t) \in Int /\ Weight(l, t) > 0
    BY <2>1, <2>2, PowersPositive
  <2>4. d <= Precision
    BY <1>2, <1>5 DEF Precision
  <2> QED
    BY <1>5, <2>3, <2>4
<1> QED
  BY <1>4, <1>5

(* The recursion Mass is defined by, for the parts of S. *)
MassOver(l, S, m) ==
    m = [s \in SUBSET S |-> IF s = {} THEN 0
                            ELSE LET x == CHOOSE y \in s : TRUE IN Weight(l, x) + m[s \ {x}]]

(* Mass is a solution of that recursion, taken at S. *)
LEMMA MassIsFold ==
  ASSUME NEW l, NEW S \in SUBSET DOMAIN l
  PROVE  Mass(l, S) = (CHOOSE m : MassOver(l, S, m))[S]
BY DEF Mass, MapThenSumSet, MapThenFoldSet, MassOver

(* The mass of a set is the weight of one of its tokens and the mass of the *)
(* others. *)
LEMMA MassUnfolds ==
  ASSUME NEW l, Vocabulary(l)
  PROVE  /\ Mass(l, {}) = 0
         /\ \A S \in SUBSET DOMAIN l : Mass(l, S) \in Nat
         /\ \A S \in SUBSET DOMAIN l : S # {} =>
               \E x \in S : Mass(l, S) = Weight(l, x) + Mass(l, S \ {x})
<1> DEFINE D == DOMAIN l
           pick == [s \in SUBSET D |-> CHOOSE y \in s : TRUE]
           F == [z \in D \X Nat |-> Weight(l, z[1]) + z[2]]
<1>1. IsFiniteSet(D) /\ (\A t \in D : Weight(l, t) \in Nat)
  BY Weights DEF Vocabulary
<1>2. Picks(pick, D)
  BY DEF Picks
<1>3. F \in [D \X Nat -> Nat]
  BY <1>1
<1>4. \A x \in D, n \in Nat : F[<<x, n>>] = Weight(l, x) + n
  OBVIOUS
<1>5. \A s \in SUBSET D : pick[s] = CHOOSE y \in s : TRUE
  OBVIOUS
<1> HIDE DEF pick, F
<1>6. PICK f : FoldsTo(f, D, Nat, F, pick, 0)
  <2> HIDE DEF D
  <2> QED
    BY <1>1, <1>2, <1>3, FoldExists
<1>7. \A s \in SUBSET D : f[s] \in Nat
  BY <1>6 DEF FoldsTo
<1>8. \A s \in SUBSET D : s # {} => pick[s] \in s /\ f[s] = Weight(l, pick[s]) + f[s \ {pick[s]}]
  <2> SUFFICES ASSUME NEW s \in SUBSET D, s # {}
               PROVE  pick[s] \in s /\ f[s] = Weight(l, pick[s]) + f[s \ {pick[s]}]
    OBVIOUS
  <2>1. pick[s] \in s
    BY <1>2 DEF Picks
  <2>2. pick[s] \in D /\ s \ {pick[s]} \in SUBSET D
    BY <2>1
  <2>3. f[s] = F[<<pick[s], f[s \ {pick[s]}]>>]
    BY <1>6 DEF FoldsTo
  <2>4. f[s \ {pick[s]}] \in Nat
    BY <1>7, <2>2
  <2> QED
    BY <1>4, <2>1, <2>2, <2>3, <2>4
<1>9. ASSUME NEW S \in SUBSET D PROVE Mass(l, S) = f[S]
  <2> DEFINE m0 == [s \in SUBSET S |-> f[s]]
  <2>1. MassOver(l, S, m0)
    <3>1. ASSUME NEW s \in SUBSET S
          PROVE  m0[s] = IF s = {} THEN 0 ELSE LET x == CHOOSE y \in s : TRUE IN Weight(l, x) + m0[s \ {x}]
      <4>1. s \in SUBSET D
        OBVIOUS
      <4>2. CASE s = {}
        <5>1. f[s] = 0
          BY <1>6, <4>1, <4>2 DEF FoldsTo
        <5> QED
          BY <4>2, <5>1
      <4>3. CASE s # {}
        <5>1. s \ {pick[s]} \in SUBSET S
          OBVIOUS
        <5>2. m0[s] = Weight(l, pick[s]) + m0[s \ {pick[s]}]
          BY <1>8, <4>1, <4>3, <5>1
        <5> HIDE DEF m0
        <5> QED
          BY <1>5, <4>1, <4>3, <5>2
      <4> QED
        BY <4>2, <4>3
    <3>2. m0 = [s \in SUBSET S |-> m0[s]]
      OBVIOUS
    <3> HIDE DEF m0
    <3>3. [s \in SUBSET S |-> m0[s]]
          = [s \in SUBSET S |-> IF s = {} THEN 0
                                ELSE LET x == CHOOSE y \in s : TRUE IN Weight(l, x) + m0[s \ {x}]]
      BY <3>1
    <3> QED
      BY <3>2, <3>3 DEF MassOver
  <2> HIDE DEF m0
  <2> DEFINE m == CHOOSE m : MassOver(l, S, m)
  <2>2. MassOver(l, S, m)
    BY <2>1
  <2> HIDE DEF m
  <2>3. \A s \in SUBSET S : m[s] = IF s = {} THEN 0 ELSE Weight(l, pick[s]) + m[s \ {pick[s]}]
    <3>1. m = [s \in SUBSET S |-> IF s = {} THEN 0
                                  ELSE LET x == CHOOSE y \in s : TRUE IN Weight(l, x) + m[s \ {x}]]
      BY <2>2 DEF MassOver
    <3>2. \A s \in SUBSET S : m[s] = IF s = {} THEN 0
                                     ELSE LET x == CHOOSE y \in s : TRUE IN Weight(l, x) + m[s \ {x}]
      BY <3>1
    <3>3. ASSUME NEW s \in SUBSET S PROVE m[s] = IF s = {} THEN 0 ELSE Weight(l, pick[s]) + m[s \ {pick[s]}]
      <4>1. pick[s] = CHOOSE y \in s : TRUE
        BY <1>5
      <4> QED
        BY <3>2, <4>1
    <3> QED
      BY <3>3
  <2>4. ASSUME NEW s \in SUBSET S
        PROVE  /\ s = {} => m[s] = 0
               /\ s # {} /\ m[s \ {pick[s]}] \in Nat => m[s] = F[<<pick[s], m[s \ {pick[s]}]>>]
    <3>1. s # {} => pick[s] \in D
      BY <1>8
    <3> QED
      BY <1>4, <2>3, <3>1
  <2>5. \A s \in SUBSET S : m[s] = f[s]
    <3>1. Follows(m, S, Nat, F, pick, 0)
      BY <2>4 DEF Follows
    <3>2. IsFiniteSet(D)
      BY <1>1
    <3>3. S \in SUBSET D
      OBVIOUS
    <3> HIDE DEF D
    <3> QED
      BY <1>2, <1>6, <3>1, <3>2, <3>3, FoldAgrees
  <2>6. Mass(l, S) = m[S]
    BY MassIsFold DEF m
  <2> QED
    BY <2>5, <2>6
<1>10. f[{}] = 0
  BY <1>6 DEF FoldsTo
<1>11. Mass(l, {}) = 0
  BY <1>9, <1>10
<1>12. \A S \in SUBSET D : Mass(l, S) \in Nat
  BY <1>7, <1>9
<1>13. ASSUME NEW S \in SUBSET D, S # {}
       PROVE  \E x \in S : Mass(l, S) = Weight(l, x) + Mass(l, S \ {x})
  <2>1. pick[S] \in S /\ f[S] = Weight(l, pick[S]) + f[S \ {pick[S]}]
    BY <1>8, <1>13
  <2>2. Mass(l, S) = f[S] /\ Mass(l, S \ {pick[S]}) = f[S \ {pick[S]}]
    BY <1>9
  <2> QED
    BY <2>1, <2>2
<1> QED
  BY <1>11, <1>12, <1>13

(* ... whichever token that is. *)
LEMMA MassRemoves ==
  ASSUME NEW l, NEW S, NEW x, S \in SUBSET DOMAIN l, Vocabulary(l), x \in S
  PROVE  Mass(l, S) = Weight(l, x) + Mass(l, S \ {x})
<1> DEFINE D == DOMAIN l
           Bad(T) == \E y \in T : Mass(l, T) # Weight(l, y) + Mass(l, T \ {y})
           B == {T \in SUBSET D : Bad(T)}
           N == {Cardinality(T) : T \in B}
<1> SUFFICES ASSUME B # {} PROVE FALSE
  OBVIOUS
<1>1. \A T \in SUBSET D : IsFiniteSet(T) /\ Cardinality(T) \in Nat
  BY PartIsSmaller DEF Vocabulary
<1>2. PICK T \in B : \A R \in B : Cardinality(T) <= Cardinality(R)
  <2>1. N \in SUBSET Nat /\ N # {}
    BY <1>1
  <2>2. PICK n \in N : \A y \in N : n <= y
    <3> HIDE DEF N
    <3> QED
      BY <2>1, LeastNatural
  <2> QED
    BY <2>2
<1>3. T \in SUBSET D /\ Bad(T)
  BY <1>2
<1>4. PICK y \in T : Mass(l, T) # Weight(l, y) + Mass(l, T \ {y})
  BY <1>3
<1>5. PICK z \in T : Mass(l, T) = Weight(l, z) + Mass(l, T \ {z})
  BY <1>3, MassUnfolds
<1>6. y # z
  BY <1>4, <1>5
<1>7. ASSUME NEW R \in SUBSET T, R # T, NEW w \in R PROVE Mass(l, R) = Weight(l, w) + Mass(l, R \ {w})
  <2>1. R \in SUBSET D
    BY <1>3
  <2>2. Cardinality(R) < Cardinality(T)
    BY <1>1, <1>3, <1>7, PartIsSmaller
  <2>3. R \notin B
    <3> HIDE DEF B
    <3> QED
      BY <1>1, <1>2, <1>3, <2>1, <2>2
  <2> QED
    BY <2>1, <2>3
<1>8. Mass(l, T \ {z}) = Weight(l, y) + Mass(l, (T \ {z}) \ {y})
  <2>1. T \ {z} \in SUBSET T /\ T \ {z} # T /\ y \in T \ {z}
    BY <1>6
  <2> QED
    BY <1>7, <2>1
<1>9. Mass(l, T \ {y}) = Weight(l, z) + Mass(l, (T \ {y}) \ {z})
  <2>1. T \ {y} \in SUBSET T /\ T \ {y} # T /\ z \in T \ {y}
    BY <1>6
  <2> QED
    BY <1>7, <2>1
<1>10. (T \ {y}) \ {z} = (T \ {z}) \ {y}
  OBVIOUS
<1>11. Weight(l, y) \in Nat /\ Weight(l, z) \in Nat /\ Mass(l, (T \ {z}) \ {y}) \in Nat
  <2>1. y \in D /\ z \in D /\ (T \ {z}) \ {y} \in SUBSET D
    BY <1>3
  <2> QED
    BY <2>1, Weights, MassUnfolds
<1> QED
  BY <1>4, <1>5, <1>8, <1>9, <1>10, <1>11

(* More tokens have no less mass. *)
LEMMA MassGrows ==
  ASSUME NEW l, NEW S, NEW T, T \in SUBSET DOMAIN l, S \in SUBSET T, Vocabulary(l)
  PROVE  Mass(l, S) \in Nat /\ Mass(l, T) \in Nat /\ Mass(l, S) <= Mass(l, T)
<1> DEFINE D == DOMAIN l
           B == {R \in SUBSET T : S \in SUBSET R /\ ~(Mass(l, S) <= Mass(l, R))}
           N == {Cardinality(R) : R \in B}
<1>1. \A R \in SUBSET T : R \in SUBSET D /\ IsFiniteSet(R) /\ Cardinality(R) \in Nat /\ Mass(l, R) \in Nat
  <2>1. \A R \in SUBSET T : R \in SUBSET D
    OBVIOUS
  <2> QED
    BY <2>1, PartIsSmaller, MassUnfolds DEF Vocabulary
<1>2. B = {}
  <2> SUFFICES ASSUME B # {} PROVE FALSE
    OBVIOUS
  <2>1. PICK R \in B : \A Q \in B : Cardinality(R) <= Cardinality(Q)
    <3>1. N \in SUBSET Nat /\ N # {}
      BY <1>1
    <3>2. PICK n \in N : \A y \in N : n <= y
      <4> HIDE DEF N
      <4> QED
        BY <3>1, LeastNatural
    <3> QED
      BY <3>2
  <2>2. R \in SUBSET T /\ S \in SUBSET R /\ ~(Mass(l, S) <= Mass(l, R))
    BY <2>1
  <2>3. R # S
    BY <1>1, <2>2
  <2>4. PICK x \in R : x \notin S
    BY <2>2, <2>3
  <2>5. Mass(l, R) = Weight(l, x) + Mass(l, R \ {x}) /\ Weight(l, x) \in Nat
    BY <1>1, <2>2, MassRemoves, Weights
  <2>6. R \ {x} \in SUBSET T /\ S \in SUBSET (R \ {x}) /\ R \ {x} \in SUBSET R /\ R \ {x} # R
    BY <2>2, <2>4
  <2>7. Cardinality(R \ {x}) < Cardinality(R)
    BY <1>1, <2>2, <2>6, PartIsSmaller
  <2>8. R \ {x} \notin B
    <3> HIDE DEF B
    <3> QED
      BY <1>1, <2>1, <2>2, <2>6, <2>7
  <2>9. Mass(l, S) <= Mass(l, R \ {x})
    BY <2>6, <2>8
  <2>10. Mass(l, S) \in Nat /\ Mass(l, R \ {x}) \in Nat
    BY <1>1, <2>6
  <2> QED
    BY <2>2, <2>5, <2>9, <2>10
<1> QED
  BY <1>1, <1>2

(* The mass of a set depends on the weights of its tokens alone. *)
LEMMA SameWeightsSameMass ==
  ASSUME NEW l, NEW m, NEW S, Vocabulary(l), Vocabulary(m),
         S \in SUBSET DOMAIN l, S \in SUBSET DOMAIN m,
         \A t \in S : Weight(l, t) = Weight(m, t)
  PROVE  Mass(l, S) = Mass(m, S)
<1> DEFINE B == {R \in SUBSET S : Mass(l, R) # Mass(m, R)}
           N == {Cardinality(R) : R \in B}
<1>1. \A R \in SUBSET S : /\ R \in SUBSET DOMAIN l /\ R \in SUBSET DOMAIN m
                          /\ IsFiniteSet(R) /\ Cardinality(R) \in Nat
  <2>1. \A R \in SUBSET S : R \in SUBSET DOMAIN l /\ R \in SUBSET DOMAIN m
    OBVIOUS
  <2> QED
    BY <2>1, PartIsSmaller DEF Vocabulary
<1>2. B = {}
  <2> SUFFICES ASSUME B # {} PROVE FALSE
    OBVIOUS
  <2>1. PICK R \in B : \A Q \in B : Cardinality(R) <= Cardinality(Q)
    <3>1. N \in SUBSET Nat /\ N # {}
      BY <1>1
    <3>2. PICK n \in N : \A y \in N : n <= y
      <4> HIDE DEF N
      <4> QED
        BY <3>1, LeastNatural
    <3> QED
      BY <3>2
  <2>2. R \in SUBSET S /\ Mass(l, R) # Mass(m, R)
    BY <2>1
  <2>3. R # {}
    BY <2>2, MassUnfolds
  <2>4. PICK x \in R : TRUE
    BY <2>3
  <2>5. Mass(l, R) = Weight(l, x) + Mass(l, R \ {x}) /\ Mass(m, R) = Weight(m, x) + Mass(m, R \ {x})
    BY <1>1, <2>2, MassRemoves
  <2>6. R \ {x} \in SUBSET S /\ R \ {x} \in SUBSET R /\ R \ {x} # R
    BY <2>2
  <2>7. Cardinality(R \ {x}) < Cardinality(R)
    BY <1>1, <2>2, <2>6, PartIsSmaller
  <2>8. R \ {x} \notin B
    <3> HIDE DEF B
    <3> QED
      BY <1>1, <2>1, <2>2, <2>6, <2>7
  <2> QED
    BY <2>2, <2>5, <2>6, <2>8
<1> QED
  BY <1>2

-----------------------------------------------------------------------------
(* The penalty for every token generated keeps integers. *)

EachOver(l, gen, penalty, m) ==
    m = [s \in SUBSET DOMAIN gen |->
            IF s = {} THEN l
            ELSE LET x == Max(s)
                 IN [m[s \ {x}] EXCEPT ![gen[x]] = Penalty(m[s \ {x}][gen[x]], penalty)]]

(* PenaliseEach folds the history, last token first. *)
LEMMA PenaltyIsFold ==
  ASSUME NEW l, NEW gen, NEW penalty
  PROVE  PenaliseEach(l, gen, penalty) = (CHOOSE m : EachOver(l, gen, penalty, m))[DOMAIN gen]
BY DEF PenaliseEach, FoldLeft, MapThenFoldSet, EachOver

(* One application of the penalty keeps integers. *)
LEMMA PenaltyType ==
  ASSUME NEW s \in Int, NEW penalty \in Nat \ {0}
  PROVE  Penalty(s, penalty) \in Int
BY DEF Penalty

(* ... and so do all of them. *)
LEMMA PenaliseEachType ==
  ASSUME NEW T, NEW l \in [T -> Int], NEW gen \in Seq(T), NEW penalty \in Nat \ {0}
  PROVE  PenaliseEach(l, gen, penalty) \in [T -> Int]
<1> DEFINE S == DOMAIN gen
           V == [T -> Int]
           Once(x, m) == [m EXCEPT ![gen[x]] = Penalty(m[gen[x]], penalty)]
           pick == [s \in SUBSET S |-> Max(s)]
           F == [z \in S \X V |-> Once(z[1], z[2])]
<1>1. IsFiniteSet(S) /\ S \in SUBSET Nat /\ \A x \in S : gen[x] \in T
  BY FS_Interval
<1>2. \A x \in S, m \in V : Once(x, m) \in V
  <2> SUFFICES ASSUME NEW x \in S, NEW m \in V PROVE Once(x, m) \in V
    OBVIOUS
  <2>1. gen[x] \in T /\ m[gen[x]] \in Int
    BY <1>1
  <2>2. Penalty(m[gen[x]], penalty) \in Int
    BY <2>1, PenaltyType
  <2> QED
    BY <2>2
<1>3. \A s \in SUBSET S : pick[s] = Max(s)
  OBVIOUS
<1>4. ASSUME NEW s \in SUBSET S, s # {} PROVE Max(s) \in s
  <2> DEFINE id == [n \in s |-> n]
  <2>1. Vocabulary(id) /\ DOMAIN id = s /\ \A n \in s : id[n] = n
    BY <1>1, PartIsSmaller DEF Vocabulary
  <2> HIDE DEF id
  <2>2. PICK t \in s : \A u \in s : id[u] <= id[t]
    BY <1>4, <2>1, HighestScore
  <2>3. \A u \in s : t >= u
    <3>1. \A u \in s : u \in Nat
      BY <1>1
    <3> QED
      BY <2>1, <2>2, <3>1
  <2> QED
    BY <2>3 DEF Max
<1>5. Picks(pick, S)
  BY <1>3, <1>4 DEF Picks
<1>6. F \in [S \X V -> V]
  <2>1. \A z \in S \X V : F[z] \in V
    <3> HIDE DEF V, Once
    <3> QED
      BY <1>2
  <2> HIDE DEF V
  <2> QED
    BY <2>1
<1>7. \A x \in S, m \in V : F[<<x, m>>] = Once(x, m)
  <2> HIDE DEF V, Once
  <2> QED
    OBVIOUS
<1> HIDE DEF pick, F
<1>8. l \in V
  OBVIOUS
<1>9. PICK f : FoldsTo(f, S, V, F, pick, l)
  <2> HIDE DEF S, V
  <2> QED
    BY <1>1, <1>5, <1>6, <1>8, FoldExists
<1>10. \A s \in SUBSET S : /\ f[s] \in V
                           /\ f[s] = IF s = {} THEN l ELSE Once(Max(s), f[s \ {Max(s)}])
  <2> SUFFICES ASSUME NEW s \in SUBSET S
               PROVE  f[s] \in V /\ f[s] = IF s = {} THEN l ELSE Once(Max(s), f[s \ {Max(s)}])
    OBVIOUS
  <2>1. f[s] \in V /\ f[s] = IF s = {} THEN l ELSE F[<<pick[s], f[s \ {pick[s]}]>>]
    <3> HIDE DEF V
    <3> QED
      BY <1>9 DEF FoldsTo
  <2>2. CASE s = {}
    <3> HIDE DEF V
    <3> QED
      BY <2>1, <2>2
  <2>3. CASE s # {}
    <3>1. pick[s] = Max(s) /\ Max(s) \in S /\ s \ {Max(s)} \in SUBSET S
      BY <1>3, <1>4, <2>3
    <3>2. f[s \ {Max(s)}] \in V
      <4> HIDE DEF V
      <4> QED
        BY <1>9, <3>1 DEF FoldsTo
    <3> HIDE DEF V, Once
    <3> QED
      BY <1>7, <2>1, <2>3, <3>1, <3>2
  <2> QED
    BY <2>2, <2>3
<1>11. EachOver(l, gen, penalty, f)
  <2>1. f = [s \in SUBSET S |-> f[s]]
    <3> HIDE DEF V, S
    <3> QED
      BY <1>9 DEF FoldsTo
  <2>2. [s \in SUBSET S |-> f[s]] = [s \in SUBSET S |-> IF s = {} THEN l ELSE Once(Max(s), f[s \ {Max(s)}])]
    <3> HIDE DEF V, S, Once
    <3> QED
      BY <1>10
  <2> QED
    BY <2>1, <2>2 DEF EachOver
<1> DEFINE m == CHOOSE m : EachOver(l, gen, penalty, m)
<1>12. EachOver(l, gen, penalty, m)
  BY <1>11
<1> HIDE DEF m
<1>13. \A s \in SUBSET S : m[s] = IF s = {} THEN l ELSE Once(Max(s), m[s \ {Max(s)}])
  <2>1. m = [s \in SUBSET S |-> IF s = {} THEN l ELSE Once(Max(s), m[s \ {Max(s)}])]
    BY <1>12 DEF EachOver
  <2> HIDE DEF S, Once
  <2> QED
    BY <2>1
<1>14. Follows(m, S, V, F, pick, l)
  <2> SUFFICES ASSUME NEW s \in SUBSET S
               PROVE  /\ s = {} => m[s] = l
                      /\ s # {} /\ m[s \ {pick[s]}] \in V => m[s] = F[<<pick[s], m[s \ {pick[s]}]>>]
    <3> HIDE DEF V, S
    <3> QED
      BY DEF Follows
  <2> HIDE DEF V, Once
  <2>1. pick[s] = Max(s) /\ (s # {} => Max(s) \in S)
    BY <1>3, <1>4
  <2> QED
    BY <1>7, <1>13, <2>1
<1>15. \A s \in SUBSET S : m[s] = f[s]
  <2>1. S \in SUBSET S /\ IsFiniteSet(S)
    BY <1>1
  <2> HIDE DEF S, V, Once
  <2> QED
    BY <1>5, <1>9, <1>14, <2>1, FoldAgrees
<1>16. m[S] \in V
  <2>1. S \in SUBSET S
    OBVIOUS
  <2> HIDE DEF V, Once
  <2> QED
    BY <1>10, <1>15, <2>1
<1> QED
  BY <1>16, PenaltyIsFold DEF m

-----------------------------------------------------------------------------
(* What each filter keeps. *)

(* n is l with the tokens outside K removed. *)
Filters(n, l, K) ==
    DOMAIN n = DOMAIN l /\ \A t \in DOMAIN l : n[t] = IF t \in K THEN l[t] ELSE NegInf

(* What a filter leaves, and what it does not touch. *)
LEMMA Filtered ==
  ASSUME NEW n, NEW l, NEW K, Filters(n, l, K), Vocabulary(l)
  PROVE  /\ Vocabulary(n) /\ DOMAIN n = DOMAIN l
         /\ Kept(n) = K \cap Kept(l)
         /\ \A t \in Kept(n) : n[t] = l[t]
         /\ \A t \in DOMAIN l : t \notin Kept(n) => n[t] = NegInf
BY DEF Filters, Vocabulary, Kept, NegInf

(* Only is the filter that keeps S. *)
LEMMA OnlyFilters ==
  ASSUME NEW l, NEW S
  PROVE  Filters(Only(l, S), l, S)
BY DEF Filters, Only

(* Fewer tokens exceed a higher score. *)
LEMMA ScoreOrder ==
  ASSUME NEW l, NEW t \in DOMAIN l, NEW v \in Int, Vocabulary(l)
  PROVE  /\ l[t] >= v => Over(l, l[t]) \in SUBSET Over(l, v)
         /\ l[t] > v => AtLeast(l, l[t]) \in SUBSET Over(l, v) /\ Over(l, l[t]) # Over(l, v)
         /\ l[t] < v => AtLeast(l, v) \in SUBSET Over(l, l[t])
         /\ Over(l, l[t]) # DOMAIN l
<1>1. \A u \in DOMAIN l : l[u] \in Int
  BY DEF Vocabulary
<1>2. l[t] >= v => Over(l, l[t]) \in SUBSET Over(l, v)
  BY <1>1 DEF Over
<1>3. l[t] > v => AtLeast(l, l[t]) \in SUBSET Over(l, v)
  BY <1>1 DEF Over, AtLeast
<1>4. t \notin Over(l, l[t])
  BY <1>1 DEF Over
<1>5. l[t] > v => t \in Over(l, v)
  BY DEF Over
<1>6. l[t] < v => AtLeast(l, v) \in SUBSET Over(l, l[t])
  BY <1>1 DEF Over, AtLeast
<1> QED
  BY <1>2, <1>3, <1>4, <1>5, <1>6

(* top_k keeps the tokens that fewer than k others exceed (multilingual) ... *)
LEMMA TopKMtlKeeps ==
  ASSUME NEW l, NEW k \in Nat, Vocabulary(l)
  PROVE  Filters(TopKMtl(l, k), l, {t \in DOMAIN l : AmongBest(l, t, k)})
<1>1. \A t \in DOMAIN l : /\ l[t] \in Int /\ Above(l, t) = Over(l, l[t])
                          /\ Cardinality(Over(l, l[t])) \in Nat /\ Over(l, l[t]) \in SUBSET DOMAIN l
  BY Counts DEF Vocabulary, Above, Over
<1>2. IsFiniteSet(DOMAIN l) /\ Cardinality(DOMAIN l) \in Nat
  BY Counts DEF Vocabulary
<1>3. CASE k = 0 \/ k >= Cardinality(DOMAIN l)
  <2>1. TopKMtl(l, k) = l
    BY <1>3 DEF TopKMtl
  <2>2. ASSUME NEW t \in DOMAIN l PROVE AmongBest(l, t, k)
    <3>1. Over(l, l[t]) # DOMAIN l
      <4>1. 0 \in Int
        OBVIOUS
      <4> QED
        BY <4>1, ScoreOrder
    <3>2. Cardinality(Over(l, l[t])) < Cardinality(DOMAIN l)
      BY <1>1, <1>2, <3>1, PartIsSmaller
    <3> QED
      BY <1>1, <1>2, <1>3, <3>2 DEF AmongBest
  <2> QED
    BY <2>1, <2>2 DEF Filters
<1>4. CASE k > 0 /\ k < Cardinality(DOMAIN l)
  <2> DEFINE v == Largest(l, k)
  <2>1. v \in Int /\ Cardinality(Over(l, v)) < k /\ Cardinality(AtLeast(l, v)) >= k
    BY <1>2, <1>4, LargestIsKth
  <2>2. TopKMtl(l, k) = Only(l, {t \in DOMAIN l : l[t] >= v})
    BY <1>2, <1>4 DEF TopKMtl
  <2> HIDE DEF v
  <2>3. /\ Over(l, v) \in SUBSET DOMAIN l /\ Cardinality(Over(l, v)) \in Nat /\ IsFiniteSet(Over(l, v))
        /\ Cardinality(AtLeast(l, v)) \in Nat /\ AtLeast(l, v) \in SUBSET DOMAIN l
    BY Counts
  <2>4. ASSUME NEW t \in DOMAIN l PROVE l[t] >= v <=> AmongBest(l, t, k)
    <3>1. CASE l[t] >= v
      <4>1. Over(l, l[t]) \in SUBSET Over(l, v)
        BY <2>1, <3>1, ScoreOrder
      <4>2. Cardinality(Over(l, l[t])) <= Cardinality(Over(l, v))
        BY <2>3, <4>1, PartIsSmaller
      <4> QED
        BY <1>1, <2>1, <2>3, <3>1, <4>2 DEF AmongBest
    <3>2. CASE ~(l[t] >= v)
      <4>1. AtLeast(l, v) \in SUBSET Over(l, l[t])
        <5>1. l[t] < v
          BY <1>1, <2>1, <3>2
        <5> QED
          BY <2>1, <5>1, ScoreOrder
      <4>2. IsFiniteSet(Over(l, l[t]))
        BY <1>1, <1>2, PartIsSmaller
      <4>3. Cardinality(AtLeast(l, v)) <= Cardinality(Over(l, l[t]))
        BY <4>1, <4>2, PartIsSmaller
      <4> QED
        BY <1>1, <1>4, <2>1, <2>3, <3>2, <4>3 DEF AmongBest
    <3> QED
      BY <3>1, <3>2
  <2>5. {t \in DOMAIN l : l[t] >= v} = {t \in DOMAIN l : AmongBest(l, t, k)}
    BY <2>4
  <2> QED
    BY <2>2, <2>5, OnlyFilters
<1> QED
  BY <1>2, <1>3, <1>4

(* ... and without those of a tie across the k-th place, unless they score *)
(* zero (Turbo). *)
LEMMA TopKTurboKeeps ==
  ASSUME NEW l, NEW k \in Nat, Vocabulary(l)
  PROVE  Filters(TopKTurbo(l, k), l, {t \in DOMAIN l : AmongBest(l, t, k) /\ ~TiedOut(l, t, k)})
<1>1. \A t \in DOMAIN l : /\ l[t] \in Int /\ Above(l, t) = Over(l, l[t])
                          /\ {u \in DOMAIN l : l[u] >= l[t]} = AtLeast(l, l[t])
                          /\ Cardinality(Over(l, l[t])) \in Nat /\ Over(l, l[t]) \in SUBSET DOMAIN l
                          /\ Cardinality(AtLeast(l, l[t])) \in Nat /\ AtLeast(l, l[t]) \in SUBSET DOMAIN l
                          /\ IsFiniteSet(Over(l, l[t])) /\ IsFiniteSet(AtLeast(l, l[t]))
                          /\ Cardinality(AtLeast(l, l[t])) <= Cardinality(DOMAIN l)
  BY Counts DEF Vocabulary, Above, Over, AtLeast
<1>2. IsFiniteSet(DOMAIN l) /\ Cardinality(DOMAIN l) \in Nat
  BY Counts DEF Vocabulary
<1>3. \A t \in DOMAIN l : /\ AmongBest(l, t, k) <=> k = 0 \/ Cardinality(Over(l, l[t])) < k
                          /\ TiedOut(l, t, k) <=> k > 0 /\ k < Cardinality(AtLeast(l, l[t])) /\ l[t] # 0
  BY <1>1 DEF AmongBest, TiedOut
<1>4. CASE k = 0 \/ k >= Cardinality(DOMAIN l)
  <2>1. TopKTurbo(l, k) = l
    BY <1>4 DEF TopKTurbo
  <2>2. ASSUME NEW t \in DOMAIN l PROVE AmongBest(l, t, k) /\ ~TiedOut(l, t, k)
    <3>1. Over(l, l[t]) # DOMAIN l
      <4>1. 0 \in Int
        OBVIOUS
      <4> QED
        BY <4>1, ScoreOrder
    <3>2. Cardinality(Over(l, l[t])) < Cardinality(DOMAIN l)
      BY <1>1, <1>2, <3>1, PartIsSmaller
    <3> QED
      BY <1>1, <1>2, <1>3, <1>4, <3>2
  <2> QED
    BY <2>1, <2>2 DEF Filters
<1>5. CASE k > 0 /\ k < Cardinality(DOMAIN l)
  <2> DEFINE k1 == k + 1
             v == Largest(l, k1)
             kept == {t \in DOMAIN l : l[t] > v}
             K == IF v = 0 /\ Cardinality(kept) < k THEN {t \in DOMAIN l : l[t] >= 0} ELSE kept
  <2>1. k1 \in Nat /\ 1 <= k1 /\ k1 <= Cardinality(DOMAIN l)
    BY <1>2, <1>5
  <2>2. TopKTurbo(l, k) = Only(l, K)
    BY <1>2, <1>5 DEF TopKTurbo
  <2>3. kept = Over(l, v)
    BY DEF Over
  <2> HIDE DEF k1
  <2>4. v \in Int /\ Cardinality(Over(l, v)) < k1 /\ Cardinality(AtLeast(l, v)) >= k1
    BY <2>1, LargestIsKth
  <2> HIDE DEF v
  <2>5. /\ Cardinality(Over(l, v)) \in Nat /\ IsFiniteSet(Over(l, v))
        /\ Cardinality(AtLeast(l, v)) \in Nat
    BY Counts
  <2>6. Cardinality(Over(l, v)) <= k /\ Cardinality(AtLeast(l, v)) > k
    BY <2>4, <2>5 DEF k1
  <2>7. ASSUME NEW t \in DOMAIN l, l[t] > v PROVE AmongBest(l, t, k) /\ ~TiedOut(l, t, k)
    <3>1. AtLeast(l, l[t]) \in SUBSET Over(l, v) /\ Over(l, l[t]) # Over(l, v)
      BY <2>4, <2>7, ScoreOrder
    <3>2. l[t] >= v
      BY <1>1, <2>4, <2>7
    <3>3. Over(l, l[t]) \in SUBSET Over(l, v)
      BY <2>4, <3>2, ScoreOrder
    <3>4. Cardinality(AtLeast(l, l[t])) <= Cardinality(Over(l, v))
      BY <2>5, <3>1, PartIsSmaller
    <3>5. Cardinality(Over(l, l[t])) < Cardinality(Over(l, v))
      BY <2>5, <3>1, <3>3, PartIsSmaller
    <3> QED
      BY <1>1, <1>3, <2>5, <2>6, <3>4, <3>5
  <2>8. ASSUME NEW t \in DOMAIN l, l[t] < v PROVE ~AmongBest(l, t, k)
    <3>1. AtLeast(l, v) \in SUBSET Over(l, l[t])
      BY <2>4, <2>8, ScoreOrder
    <3>2. Cardinality(AtLeast(l, v)) <= Cardinality(Over(l, l[t]))
      BY <1>1, <3>1, PartIsSmaller
    <3> QED
      BY <1>1, <1>3, <1>5, <2>5, <2>6, <3>2
  <2>9. ASSUME NEW t \in DOMAIN l, l[t] = v
        PROVE  AmongBest(l, t, k) /\ ~TiedOut(l, t, k) <=> v = 0 /\ Cardinality(Over(l, v)) < k
    BY <1>3, <1>5, <2>6, <2>9
  <2>10. ASSUME NEW t \in DOMAIN l PROVE t \in K <=> AmongBest(l, t, k) /\ ~TiedOut(l, t, k)
    <3>1. l[t] \in Int
      BY <1>1
    <3>2. t \in K <=> l[t] > v \/ (l[t] = v /\ v = 0 /\ Cardinality(Over(l, v)) < k)
      <4> HIDE DEF kept
      <4>1. t \in kept <=> l[t] > v
        BY DEF kept
      <4> QED
        BY <2>3, <2>4, <3>1, <4>1
    <3>3. l[t] > v \/ l[t] = v \/ l[t] < v
      BY <2>4, <3>1
    <3>4. CASE l[t] > v
      BY <2>7, <3>2, <3>4
    <3>5. CASE l[t] = v
      BY <2>4, <2>9, <3>2, <3>5
    <3>6. CASE l[t] < v
      BY <2>4, <2>8, <3>1, <3>2, <3>6
    <3> QED
      BY <3>3, <3>4, <3>5, <3>6
  <2>11. K = {t \in DOMAIN l : AmongBest(l, t, k) /\ ~TiedOut(l, t, k)}
    <3>1. K \in SUBSET DOMAIN l
      OBVIOUS
    <3> HIDE DEF K
    <3> QED
      BY <2>10, <3>1
  <2> HIDE DEF K
  <2> QED
    BY <2>2, <2>11, OnlyFilters
<1> QED
  BY <1>2, <1>4, <1>5

(* min_p keeps what is within logMinP of the best. *)
LEMMA MinPKeeps ==
  ASSUME NEW l, NEW q \in Int, Vocabulary(l), DOMAIN l # {}
  PROVE  Filters(MinP(l, q), l, {t \in DOMAIN l : q = NegInf \/ \A u \in DOMAIN l : l[t] >= l[u] + q})
<1>1. CASE q = NegInf
  BY <1>1 DEF MinP, Filters
<1>2. CASE q # NegInf
  <2>1. MinP(l, q) = Only(l, {t \in DOMAIN l : l[t] >= Best(l) + q})
    BY <1>2 DEF MinP
  <2>2. ASSUME NEW t \in DOMAIN l PROVE l[t] >= Best(l) + q <=> \A u \in DOMAIN l : l[t] >= l[u] + q
    <3>1. \A u \in DOMAIN l : l[u] \in Int
      BY DEF Vocabulary
    <3> QED
      BY <3>1, BestIsHighest
  <2>3. {t \in DOMAIN l : l[t] >= Best(l) + q}
        = {t \in DOMAIN l : q = NegInf \/ \A u \in DOMAIN l : l[t] >= l[u] + q}
    BY <1>2, <2>2
  <2> QED
    BY <2>1, <2>3, OnlyFilters
<1> QED
  BY <1>1, <1>2

-----------------------------------------------------------------------------
(* top_p: the possible outcomes are together the nucleus. *)

(* Tokens not removed are tokens of the vocabulary. *)
LEMMA KeptTokens ==
  ASSUME NEW l, Vocabulary(l)
  PROVE  /\ Kept(l) \in SUBSET DOMAIN l /\ IsFiniteSet(Kept(l))
         /\ \A t \in Kept(l) : l[t] \in Int /\ l[t] # NegInf
<1>1. Kept(l) \in SUBSET DOMAIN l /\ \A t \in Kept(l) : l[t] \in Int /\ l[t] # NegInf
  BY DEF Kept, Vocabulary
<1> QED
  BY <1>1, PartIsSmaller DEF Vocabulary

(* top_p of a mass, in quarters, is no more than that mass. *)
LEMMA ScaledMass ==
  ASSUME NEW l, NEW topP \in 0 .. 4, NEW K, K \in SUBSET DOMAIN l, Vocabulary(l)
  PROVE  /\ Mass(l, K) \in Nat
         /\ topP * Mass(l, K) \in Int
         /\ topP * Mass(l, K) <= 4 * Mass(l, K)
<1> DEFINE m == Mass(l, K)
<1>1. m \in Nat
  BY MassUnfolds
<1> HIDE DEF m
<1>2. topP = 0 \/ topP = 1 \/ topP = 2 \/ topP = 3 \/ topP = 4
  OBVIOUS
<1>3. topP * m \in Int /\ topP * m <= 4 * m
  <2>1. /\ 0 * m \in Int /\ 0 * m <= 4 * m /\ 1 * m \in Int /\ 1 * m <= 4 * m
        /\ 2 * m \in Int /\ 2 * m <= 4 * m /\ 3 * m \in Int /\ 3 * m <= 4 * m
        /\ 4 * m \in Int /\ 4 * m <= 4 * m
    BY <1>1
  <2> QED
    BY <1>2, <2>1, Zenon
<1> QED
  BY <1>1, <1>3 DEF m

(* Every outcome of top_p is a prefix of the kept tokens, all of them in the *)
(* nucleus. *)
LEMMA TopPSound ==
  ASSUME NEW l, NEW topP \in 0 .. 4, NEW S \in TopP(l, topP), Vocabulary(l)
  PROVE  /\ S \in SUBSET Kept(l) /\ S # {}
         /\ \A t \in S, u \in Kept(l) \ S : l[t] >= l[u]
         /\ \A t \in S : InNucleus(l, Kept(l), t, topP)
<1> DEFINE M == topP * Mass(l, Kept(l))
<1>1. S \in SUBSET Kept(l) /\ S # {}
  BY DEF TopP
<1>2. \A t \in S, u \in Kept(l) \ S : l[t] >= l[u]
  BY DEF TopP
<1>3. \/ Cardinality(S) = 1
      \/ \E t \in S : (\A u \in S : l[u] >= l[t]) /\ 4 * Mass(l, S \ {t}) < M
  BY DEF TopP
<1>4. M \in Int
  BY KeptTokens, ScaledMass
<1> HIDE DEF M
<1>5. Kept(l) \in SUBSET DOMAIN l /\ \A t \in Kept(l) : l[t] \in Int
  BY KeptTokens
<1>6. ASSUME NEW t \in S PROVE Above(l, t) \cap Kept(l) = {} \/ 4 * Mass(l, Above(l, t) \cap Kept(l)) < M
  <2> DEFINE A == Above(l, t) \cap Kept(l)
  <2>1. t \in Kept(l) /\ l[t] \in Int
    BY <1>1, <1>5
  <2>2. \A u \in A : u \in Kept(l) /\ l[u] > l[t]
    BY DEF Above
  <2>3. A \in SUBSET S
    <3> SUFFICES ASSUME NEW u \in A, u \notin S PROVE FALSE
      OBVIOUS
    <3>1. l[t] >= l[u] /\ l[u] > l[t] /\ l[u] \in Int
      BY <1>2, <1>5, <2>2
    <3> QED
      BY <2>1, <3>1
  <2> HIDE DEF A
  <2>4. CASE Cardinality(S) = 1
    <3>1. IsFiniteSet(S)
      BY <1>1, KeptTokens, PartIsSmaller
    <3>2. PICK x : S = {x}
      BY <2>4, <3>1, FS_Singleton
    <3>3. t \notin A
      BY <2>1, <2>2
    <3>4. A = {}
      BY <2>3, <3>2, <3>3
    <3> QED
      BY <3>4 DEF A
  <2>5. CASE \E z \in S : (\A u \in S : l[u] >= l[z]) /\ 4 * Mass(l, S \ {z}) < M
    <3>1. PICK z \in S : (\A u \in S : l[u] >= l[z]) /\ 4 * Mass(l, S \ {z}) < M
      BY <2>5
    <3>2. z \notin A
      <4>1. l[t] >= l[z] /\ l[z] \in Int
        BY <1>1, <1>5, <3>1
      <4> QED
        BY <2>1, <2>2, <4>1
    <3>3. A \in SUBSET (S \ {z}) /\ S \ {z} \in SUBSET DOMAIN l
      BY <1>1, <1>5, <2>3, <3>2
    <3>4. Mass(l, A) \in Nat /\ Mass(l, S \ {z}) \in Nat /\ Mass(l, A) <= Mass(l, S \ {z})
      BY <3>3, MassGrows
    <3>5. 4 * Mass(l, A) < M
      BY <1>4, <3>1, <3>4
    <3> QED
      BY <3>5 DEF A
  <2> QED
    BY <1>3, <2>4, <2>5
<1>7. \A t \in S : InNucleus(l, Kept(l), t, topP)
  BY <1>6 DEF InNucleus, M
<1> QED
  BY <1>1, <1>2, <1>7

(* Every token of the nucleus is in an outcome of top_p. *)
LEMMA TopPComplete ==
  ASSUME NEW l, NEW topP \in 0 .. 4, NEW t \in Kept(l), InNucleus(l, Kept(l), t, topP), Vocabulary(l)
  PROVE  \E S \in TopP(l, topP) : t \in S
<1> DEFINE K == Kept(l)
           M == topP * Mass(l, K)
           Prefix(S) == \A x \in S, u \in K \ S : l[x] >= l[u]
           G == {S \in SUBSET K : t \in S /\ Prefix(S) /\ 4 * Mass(l, S) >= M}
           N == {Cardinality(S) : S \in G}
<1>1. K \in SUBSET DOMAIN l /\ IsFiniteSet(K) /\ \A x \in K : l[x] \in Int
  BY KeptTokens
<1>2. M \in Int /\ M <= 4 * Mass(l, K) /\ Mass(l, K) \in Nat
  BY <1>1, ScaledMass
<1>3. Above(l, t) \cap K = {} \/ 4 * Mass(l, Above(l, t) \cap K) < M
  BY DEF InNucleus
<1>4. \A S \in (SUBSET K) \ {{}} :
        Prefix(S) /\ 4 * Mass(l, S) >= M
        /\ (Cardinality(S) = 1 \/ \E x \in S : (\A u \in S : l[u] >= l[x]) /\ 4 * Mass(l, S \ {x}) < M)
        => S \in TopP(l, topP)
  BY DEF TopP
<1> HIDE DEF K, M
<1>5. t \in K
  BY DEF K
<1>6. \A S \in SUBSET K : S \in SUBSET DOMAIN l /\ Cardinality(S) \in Nat /\ Mass(l, S) \in Nat
  <2>1. \A S \in SUBSET K : S \in SUBSET DOMAIN l
    BY <1>1
  <2> QED
    BY <1>1, <2>1, PartIsSmaller, MassUnfolds
<1>7. K \in G
  BY <1>2, <1>5
<1>8. PICK S \in G : \A R \in G : Cardinality(S) <= Cardinality(R)
  <2>1. N \in SUBSET Nat /\ N # {}
    BY <1>6, <1>7
  <2>2. PICK n \in N : \A y \in N : n <= y
    <3> HIDE DEF N
    <3> QED
      BY <2>1, LeastNatural
  <2> QED
    BY <2>2
<1>9. S \in SUBSET K /\ t \in S /\ Prefix(S) /\ 4 * Mass(l, S) >= M /\ S \in SUBSET DOMAIN l
  BY <1>6, <1>8
<1>10. S # {} /\ S \in (SUBSET K) \ {{}}
  BY <1>9
<1>11. CASE \E x \in S : x # t /\ \A u \in S : l[u] >= l[x]
  <2>1. PICK x \in S : x # t /\ \A u \in S : l[u] >= l[x]
    BY <1>11
  <2> DEFINE R == S \ {x}
  <2>2. R \in SUBSET K /\ t \in R /\ R \in SUBSET S /\ R # S
    BY <1>9, <2>1
  <2>3. Prefix(R)
    <3> SUFFICES ASSUME NEW y \in R, NEW u \in K \ R PROVE l[y] >= l[u]
      OBVIOUS
    <3>1. y \in S /\ (u = x \/ u \in K \ S)
      OBVIOUS
    <3> QED
      BY <1>9, <2>1, <3>1
  <2>4. IsFiniteSet(S)
    BY <1>1, <1>9, PartIsSmaller
  <2> HIDE DEF R
  <2>5. Cardinality(R) < Cardinality(S) /\ Cardinality(R) \in Nat /\ Cardinality(S) \in Nat
    BY <2>2, <2>4, PartIsSmaller
  <2>6. R \notin G
    <3> HIDE DEF G
    <3> QED
      BY <1>8, <2>5
  <2>7. ~(4 * Mass(l, R) >= M)
    BY <2>2, <2>3, <2>6
  <2>8. 4 * Mass(l, R) < M
    BY <1>2, <1>6, <2>2, <2>7
  <2> QED
    BY <1>4, <1>9, <1>10, <2>1, <2>8 DEF R
<1>12. CASE ~\E x \in S : x # t /\ \A u \in S : l[u] >= l[x]
  <2>1. PICK z \in S : \A u \in S : l[z] <= l[u]
    BY <1>9, <1>10, LowestScore
  <2>2. \A x \in S : l[x] \in Int
    BY <1>1, <1>9
  <2>3. z = t
    BY <1>12, <2>1, <2>2
  <2>4. \A x \in S \ {t} : l[x] > l[t]
    <3> SUFFICES ASSUME NEW x \in S, x # t, ~(l[x] > l[t]) PROVE FALSE
      OBVIOUS
    <3>1. l[x] = l[t]
      BY <1>9, <2>1, <2>2, <2>3
    <3> QED
      BY <1>12, <2>1, <2>2, <2>3, <3>1
  <2>5. \A u \in K : l[u] > l[t] => u \in S \ {t}
    <3> SUFFICES ASSUME NEW u \in K, l[u] > l[t], u \notin S \ {t} PROVE FALSE
      OBVIOUS
    <3>1. u # t
      BY <1>1
    <3>2. u \in K \ S
      BY <3>1
    <3>3. l[t] >= l[u]
      BY <1>9, <3>2
    <3> QED
      BY <1>1, <1>5, <3>3
  <2>6. S \ {t} = Above(l, t) \cap K
    BY <1>1, <1>9, <2>4, <2>5 DEF Above
  <2>7. Cardinality(S) = 1 \/ 4 * Mass(l, S \ {t}) < M
    <3>1. CASE Above(l, t) \cap K = {}
      <4>1. S = {t}
        BY <1>9, <2>6, <3>1
      <4> QED
        BY <4>1, FS_Singleton
    <3>2. CASE 4 * Mass(l, Above(l, t) \cap K) < M
      BY <2>6, <3>2
    <3> QED
      BY <1>3, <3>1, <3>2
  <2>8. \A u \in S : l[u] >= l[t]
    BY <1>9, <2>1, <2>2, <2>3
  <2> QED
    BY <1>4, <1>9, <1>10, <2>7, <2>8
<1> QED
  BY <1>11, <1>12

-----------------------------------------------------------------------------
(* Chains of filters. *)

(* S holds every token that scores more than one of its own. *)
Prefix(l, S) ==
    S \in SUBSET DOMAIN l /\ S # {} /\ \A t \in S, u \in DOMAIN l \ S : l[t] >= l[u]

(* Nothing was removed yet. *)
Unfiltered(l) ==
    Vocabulary(l) /\ DOMAIN l # {} /\ \A t \in DOMAIN l : l[t] > NegInf

(* A filter after a filter keeps what both keep. *)
LEMMA FilterTwice ==
  ASSUME NEW l, NEW m, NEW n, NEW L, NEW S, Filters(m, l, L), Filters(n, m, S)
  PROVE  Filters(n, l, L \cap S)
BY DEF Filters

(* What is left of unfiltered scores has a best token. *)
LEMMA BestOfKept ==
  ASSUME NEW l, NEW n, NEW S, Unfiltered(l), Filters(n, l, S), S \in SUBSET DOMAIN l, S # {}
  PROVE  /\ Vocabulary(n) /\ DOMAIN n = DOMAIN l /\ Kept(n) = S
         /\ \A t \in S : n[t] = l[t] /\ l[t] \in Int
         /\ \A t \in DOMAIN l : t \notin S => n[t] = NegInf
         /\ Best(n) \in Int /\ Best(n) > NegInf
         /\ \A t \in S : l[t] <= Best(n)
         /\ \E t \in S : l[t] = Best(n)
<1>1. Vocabulary(n) /\ DOMAIN n = DOMAIN l
  BY Filtered DEF Unfiltered
<1>2. \A t \in DOMAIN l : l[t] \in Int /\ l[t] > NegInf /\ n[t] = IF t \in S THEN l[t] ELSE NegInf
  BY DEF Unfiltered, Vocabulary, Filters
<1>3. Kept(n) = S
  BY <1>1, <1>2 DEF Kept, NegInf
<1>4. Best(n) \in Int /\ (\A u \in DOMAIN l : n[u] <= Best(n))
  BY <1>1, BestIsHighest DEF Unfiltered
<1>5. PICK b \in DOMAIN l : n[b] = Best(n)
  BY <1>1, BestIsHighest DEF Unfiltered
<1>6. \A t \in S : l[t] <= Best(n) /\ l[t] > NegInf /\ l[t] \in Int /\ n[t] = l[t]
  BY <1>2, <1>4
<1>7. PICK s \in S : TRUE
  OBVIOUS
<1>8. Best(n) > NegInf
  BY <1>4, <1>6, <1>7 DEF NegInf
<1>9. b \in S
  BY <1>2, <1>5, <1>8 DEF NegInf
<1>10. l[b] = Best(n)
  BY <1>5, <1>6, <1>9
<1> QED
  BY <1>1, <1>2, <1>3, <1>4, <1>6, <1>8, <1>9, <1>10

(* A prefix keeps the best score, and with it what the filters after it see. *)
LEMMA PrefixKeepsRanks ==
  ASSUME NEW l, NEW n, NEW S, Unfiltered(l), Filters(n, l, S), Prefix(l, S)
  PROVE  /\ Best(n) = Best(l)
         /\ \A t \in S : Weight(n, t) = Weight(l, t) /\ Above(n, t) = Above(l, t) /\ Above(l, t) \in SUBSET S
<1>1. S \in SUBSET DOMAIN l /\ S # {} /\ \A t \in S, u \in DOMAIN l \ S : l[t] >= l[u]
  BY DEF Prefix
<1>2. /\ DOMAIN n = DOMAIN l /\ \A t \in S : n[t] = l[t] /\ l[t] \in Int
      /\ \A t \in DOMAIN l : t \notin S => n[t] = NegInf
      /\ Best(n) \in Int /\ Best(n) > NegInf /\ \A t \in S : l[t] <= Best(n)
  BY <1>1, BestOfKept
<1>3. PICK b \in S : l[b] = Best(n)
  BY <1>1, BestOfKept
<1>4. \A t \in DOMAIN l : l[t] \in Int /\ l[t] > NegInf
  BY DEF Unfiltered, Vocabulary
<1>5. Best(l) \in Int /\ (\A u \in DOMAIN l : l[u] <= Best(l)) /\ \E u \in DOMAIN l : l[u] = Best(l)
  BY BestIsHighest DEF Unfiltered
<1>6. PICK c \in DOMAIN l : l[c] = Best(l)
  BY <1>5
<1>7. l[c] <= l[b]
  <2>1. CASE c \in S
    BY <1>2, <1>3, <2>1
  <2>2. CASE c \notin S
    BY <1>1, <1>3, <1>4, <2>2
  <2> QED
    BY <2>1, <2>2
<1>8. Best(n) = Best(l)
  BY <1>1, <1>2, <1>3, <1>5, <1>6, <1>7
<1>9. ASSUME NEW t \in S
      PROVE  Weight(n, t) = Weight(l, t) /\ Above(n, t) = Above(l, t) /\ Above(l, t) \in SUBSET S
  <2>1. Weight(n, t) = Weight(l, t)
    BY <1>2, <1>8 DEF Weight
  <2>2. ASSUME NEW u \in DOMAIN l PROVE n[u] > n[t] <=> l[u] > l[t]
    <3>1. CASE u \in S
      BY <1>2, <3>1
    <3>2. CASE u \notin S
      <4>1. l[t] >= l[u] /\ l[t] \in Int /\ l[u] \in Int /\ n[u] = NegInf /\ n[t] = l[t] /\ l[t] > NegInf
        BY <1>1, <1>2, <1>4, <3>2
      <4> QED
        BY <4>1 DEF NegInf
    <3> QED
      BY <3>1, <3>2
  <2>3. Above(n, t) = Above(l, t)
    BY <1>2, <2>2 DEF Above
  <2>4. \A u \in Above(l, t) : u \in S
    <3> SUFFICES ASSUME NEW u \in DOMAIN l, l[u] > l[t], u \notin S PROVE FALSE
      BY DEF Above
    <3>1. l[t] >= l[u] /\ l[t] \in Int /\ l[u] \in Int
      BY <1>1, <1>4
    <3> QED
      BY <3>1
  <2> QED
    BY <2>1, <2>3, <2>4
<1> QED
  BY <1>8, <1>9

(* The draw: the tokens left that are not too far below the best of them. *)
LEMMA Drawn ==
  ASSUME NEW l, NEW n, NEW S, Unfiltered(l), Filters(n, l, S), S \in SUBSET DOMAIN l, S # {}
  PROVE  /\ Draw(n, 1) \in SUBSET S
         /\ \A t \in S : t \in Draw(n, 1) \/ Negligible(l, t, S)
<1>1. /\ Vocabulary(n) /\ DOMAIN n = DOMAIN l
      /\ \A t \in S : n[t] = l[t] /\ l[t] \in Int
      /\ \A t \in DOMAIN l : t \notin S => n[t] = NegInf
      /\ Best(n) \in Int
  BY BestOfKept
<1>2. PICK b \in S : l[b] = Best(n)
  BY BestOfKept
<1>3. \A t \in S : l[t] # NegInf
  BY DEF Unfiltered, NegInf
<1>4. Draw(n, 1) = {t \in DOMAIN l : Weight(n, t) > 0}
  BY <1>1 DEF Draw
<1>5. \A t \in DOMAIN l : Weight(n, t) > 0 <=> n[t] # NegInf /\ Best(n) - n[t] <= Precision
  BY <1>1, Weights
<1>6. Draw(n, 1) \in SUBSET S
  BY <1>1, <1>4, <1>5
<1>7. ASSUME NEW t \in S, t \notin Draw(n, 1) PROVE Negligible(l, t, S)
  <2>1. ~(Best(n) - l[t] <= Precision)
    BY <1>1, <1>3, <1>4, <1>5, <1>7
  <2>2. l[b] - l[t] > Precision
    BY <1>1, <1>2, <2>1 DEF Precision
  <2> QED
    BY <2>2 DEF Negligible
<1> QED
  BY <1>6, <1>7

(* The nucleus of a prefix, as top_p sees it and as it is. *)
LEMMA NucleusOfPrefix ==
  ASSUME NEW l, NEW n, NEW S, NEW t \in S, NEW topP \in 0 .. 4,
         Unfiltered(l), Filters(n, l, S), Prefix(l, S)
  PROVE  InNucleus(n, S, t, topP) <=> InNucleus(l, S, t, topP)
<1>1. Above(n, t) = Above(l, t) /\ \A u \in S : Weight(n, u) = Weight(l, u)
  BY PrefixKeepsRanks
<1>2. S \in SUBSET DOMAIN l /\ S # {}
  BY DEF Prefix
<1>3. DOMAIN n = DOMAIN l /\ Vocabulary(n) /\ Vocabulary(l)
  BY <1>2, BestOfKept DEF Unfiltered
<1>4. \A R \in SUBSET S : Mass(n, R) = Mass(l, R)
  <2> SUFFICES ASSUME NEW R \in SUBSET S PROVE Mass(n, R) = Mass(l, R)
    OBVIOUS
  <2>1. R \in SUBSET DOMAIN n /\ R \in SUBSET DOMAIN l /\ \A u \in R : Weight(n, u) = Weight(l, u)
    BY <1>1, <1>2, <1>3
  <2> QED
    BY <1>3, <2>1, SameWeightsSameMass
<1>5. Mass(n, S) = Mass(l, S) /\ Mass(n, Above(l, t) \cap S) = Mass(l, Above(l, t) \cap S)
  BY <1>4
<1> QED
  BY <1>1, <1>5 DEF InNucleus

(* An outcome of top_p on a filtered prefix is again a prefix. *)
LEMMA NucleusSound ==
  ASSUME NEW l, NEW m, NEW L, NEW topP \in 0 .. 4, NEW n \in Nucleus(m, topP),
         Unfiltered(l), Filters(m, l, L), Prefix(l, L)
  PROVE  \E S \in SUBSET L : /\ Filters(n, l, S) /\ Prefix(l, S)
                             /\ \A t \in S : InNucleus(l, L, t, topP)
<1>1. L \in SUBSET DOMAIN l /\ L # {} /\ \A t \in L, u \in DOMAIN l \ L : l[t] >= l[u]
  BY DEF Prefix
<1>2. Vocabulary(m) /\ DOMAIN m = DOMAIN l /\ Kept(m) = L /\ \A t \in L : m[t] = l[t]
  BY <1>1, BestOfKept
<1>3. PICK S \in TopP(m, topP) : n = Only(m, S)
  BY <1>1, <1>2 DEF Nucleus
<1>4. /\ S \in SUBSET L /\ S # {} /\ \A t \in S, u \in L \ S : m[t] >= m[u]
      /\ \A t \in S : InNucleus(m, L, t, topP)
  BY <1>2, TopPSound
<1>5. Filters(n, l, S)
  <2>1. Filters(n, m, S)
    BY <1>3, OnlyFilters
  <2>2. L \cap S = S
    BY <1>4
  <2> QED
    BY <2>1, <2>2, FilterTwice
<1>6. Prefix(l, S)
  <2>1. S \in SUBSET DOMAIN l
    BY <1>1, <1>4
  <2>2. ASSUME NEW t \in S, NEW u \in DOMAIN l \ S PROVE l[t] >= l[u]
    <3>1. CASE u \in L
      BY <1>2, <1>4, <3>1
    <3>2. CASE u \notin L
      BY <1>1, <1>4, <3>2
    <3> QED
      BY <3>1, <3>2
  <2> QED
    BY <1>4, <2>1, <2>2 DEF Prefix
<1>7. \A t \in S : InNucleus(l, L, t, topP)
  BY <1>4, NucleusOfPrefix
<1> QED
  BY <1>4, <1>5, <1>6, <1>7

(* ... and each token of the nucleus is in one. *)
LEMMA NucleusComplete ==
  ASSUME NEW l, NEW m, NEW L, NEW topP \in 0 .. 4, NEW t \in L,
         Unfiltered(l), Filters(m, l, L), Prefix(l, L), InNucleus(l, L, t, topP)
  PROVE  \E n \in Nucleus(m, topP), S \in SUBSET L :
            /\ t \in S /\ Filters(n, l, S) /\ Prefix(l, S)
            /\ \A u \in S : InNucleus(l, L, u, topP)
<1>1. L \in SUBSET DOMAIN l /\ L # {}
  BY DEF Prefix
<1>2. Vocabulary(m) /\ DOMAIN m = DOMAIN l /\ Kept(m) = L
  BY <1>1, BestOfKept
<1>3. InNucleus(m, Kept(m), t, topP)
  BY <1>2, NucleusOfPrefix
<1>4. PICK R \in TopP(m, topP) : t \in R
  BY <1>2, <1>3, TopPComplete
<1> DEFINE n == Only(m, R)
<1>5. n \in Nucleus(m, topP)
  BY <1>1, <1>2 DEF Nucleus
<1> HIDE DEF n
<1>6. PICK S \in SUBSET L : /\ Filters(n, l, S) /\ Prefix(l, S)
                            /\ \A u \in S : InNucleus(l, L, u, topP)
  BY <1>5, NucleusSound
<1>7. Kept(n) = S
  <2>1. S \in SUBSET DOMAIN l /\ S # {}
    BY <1>6 DEF Prefix
  <2> QED
    BY <1>6, <2>1, BestOfKept
<1>8. t \in Kept(n)
  <2>1. Filters(n, m, R)
    BY OnlyFilters DEF n
  <2>2. Kept(n) = R \cap Kept(m)
    BY <1>2, <2>1, Filtered
  <2> QED
    BY <1>2, <1>4, <2>2
<1> QED
  BY <1>5, <1>6, <1>7, <1>8

(* The k best of a prefix are one, and the same as of all tokens. *)
LEMMA BestAreAPrefix ==
  ASSUME NEW l, NEW n, NEW S, NEW k \in Nat,
         Unfiltered(l), Filters(n, l, S), Prefix(l, S)
  PROVE  /\ Filters(TopKMtl(n, k), l, {t \in S : AmongBest(l, t, k)})
         /\ {t \in S : AmongBest(l, t, k)} # {}
<1> DEFINE A == {t \in S : AmongBest(l, t, k)}
<1>1. S \in SUBSET DOMAIN l /\ S # {}
  BY DEF Prefix
<1>2. DOMAIN n = DOMAIN l /\ Vocabulary(n) /\ Vocabulary(l)
  BY <1>1, BestOfKept DEF Unfiltered
<1>3. \A t \in S : AmongBest(n, t, k) <=> AmongBest(l, t, k)
  BY PrefixKeepsRanks DEF AmongBest
<1>4. Filters(TopKMtl(n, k), n, {t \in DOMAIN n : AmongBest(n, t, k)})
  BY <1>2, TopKMtlKeeps
<1>5. S \cap {t \in DOMAIN n : AmongBest(n, t, k)} = A
  BY <1>1, <1>2, <1>3
<1>6. Filters(TopKMtl(n, k), l, A)
  BY <1>4, <1>5, FilterTwice
<1>7. A # {}
  <2>1. PICK b \in S : \A u \in S : l[u] <= l[b]
    BY <1>1, <1>2, HighestScore
  <2>2. Above(l, b) \in SUBSET S /\ \A u \in Above(l, b) : l[u] > l[b]
    BY PrefixKeepsRanks DEF Above
  <2>3. \A u \in S : l[u] \in Int
    BY <1>1, <1>2 DEF Vocabulary
  <2>4. Above(l, b) = {}
    BY <2>1, <2>2, <2>3
  <2>5. AmongBest(l, b, k)
    BY <2>4, FS_EmptySet DEF AmongBest
  <2> QED
    BY <2>5
<1> QED
  BY <1>6, <1>7

(* Types of the parameters and of hot scores. *)
LEMMA ParamTypes ==
  ASSUME NEW p \in Params
  PROVE  /\ p.temp \in Int /\ p.topK \in Nat /\ p.topP \in 0 .. 4
         /\ p.logMinP \in Int /\ p.penalty \in Nat \ {0}
BY SamplerInputs

(* The temperature keeps integers. *)
LEMMA HeatType ==
  ASSUME NEW s \in Int, NEW temp \in Int
  PROVE  Heat(s, temp) \in Int
BY DEF Heat

-----------------------------------------------------------------------------
(* The multilingual sampler. *)

(* The scores the multilingual filters start from. *)
LEMMA MtlHotUnfiltered ==
  ASSUME NEW logits \in Logits, NEW hist \in Histories, NEW p \in Params
  PROVE  Unfiltered(MtlHot(logits, hist, p)) /\ DOMAIN MtlHot(logits, hist, p) = DOMAIN logits
<1> DEFINE hot == MtlHot(logits, hist, p)
           penalised == PenaliseEach(logits, hist, p.penalty)
<1>1. /\ DOMAIN logits # {} /\ IsFiniteSet(DOMAIN logits) /\ logits \in [DOMAIN logits -> Int]
      /\ hist \in Seq(DOMAIN logits) /\ \A t \in DOMAIN logits : hot[t] > NegInf
  BY SamplerInputs
<1>2. p.temp \in Int /\ p.penalty \in Nat \ {0}
  BY ParamTypes
<1>3. penalised \in [DOMAIN logits -> Int]
  BY <1>1, <1>2, PenaliseEachType
<1>4. hot = [t \in DOMAIN logits |-> Heat(penalised[t], p.temp)]
  BY DEF MtlHot
<1> HIDE DEF penalised, hot
<1>5. DOMAIN hot = DOMAIN logits /\ \A t \in DOMAIN logits : hot[t] \in Int
  BY <1>2, <1>3, <1>4, HeatType
<1> QED
  BY <1>1, <1>5 DEF Unfiltered, Vocabulary, hot

(* Unless min_p asks for more than the best, what it keeps is a prefix. *)
LEMMA LikelyIsAPrefix ==
  ASSUME NEW hot, NEW p \in Params, Unfiltered(hot), ~(p.logMinP > 0)
  PROVE  Prefix(hot, Likely(hot, p))
<1> DEFINE L == Likely(hot, p)
<1>1. p.logMinP \in Int
  BY ParamTypes
<1>2. \A t \in DOMAIN hot : hot[t] \in Int
  BY DEF Unfiltered, Vocabulary
<1>3. L = {t \in DOMAIN hot : p.logMinP = NegInf \/ \A u \in DOMAIN hot : hot[t] >= hot[u] + p.logMinP}
  BY DEF Likely
<1> HIDE DEF L
<1>4. PICK b \in DOMAIN hot : \A u \in DOMAIN hot : hot[u] <= hot[b]
  BY HighestScore DEF Unfiltered
<1>5. b \in L
  <2>1. \A u \in DOMAIN hot : hot[b] >= hot[u] + p.logMinP
    BY <1>1, <1>2, <1>4
  <2> QED
    BY <1>3, <2>1
<1>6. ASSUME NEW t \in L, NEW u \in DOMAIN hot \ L PROVE hot[t] >= hot[u]
  <2> SUFFICES ASSUME ~(hot[t] >= hot[u]) PROVE FALSE
    OBVIOUS
  <2>1. t \in DOMAIN hot /\ p.logMinP # NegInf
    BY <1>3
  <2>2. PICK w \in DOMAIN hot : ~(hot[u] >= hot[w] + p.logMinP)
    BY <1>3
  <2>3. hot[t] >= hot[w] + p.logMinP
    BY <1>3, <2>1
  <2> QED
    BY <1>1, <1>2, <2>1, <2>2, <2>3
<1>7. L \in SUBSET DOMAIN hot
  BY <1>3
<1> QED
  BY <1>5, <1>6, <1>7 DEF Prefix, L

(* The tables top_k may be handed. *)
MtlTables(hot, p) ==
    LET likely == MinP(hot, p.logMinP)
    IN IF p.topP \in 1 .. 3 THEN Nucleus(likely, p.topP) ELSE {likely}

(* Such a table holds a prefix of the likely tokens, all in their nucleus ... *)
LEMMA MtlTable ==
  ASSUME NEW hot, NEW p \in Params, NEW n \in MtlTables(hot, p), Unfiltered(hot), ~(p.logMinP > 0)
  PROVE  \E S \in SUBSET Likely(hot, p) :
            /\ Filters(n, hot, S) /\ Prefix(hot, S)
            /\ \A t \in S : p.topP \in {0, 4} \/ InNucleus(hot, Likely(hot, p), t, p.topP)
<1> DEFINE L == Likely(hot, p)
           m == MinP(hot, p.logMinP)
<1>1. p.logMinP \in Int /\ p.topP \in 0 .. 4
  BY ParamTypes
<1>2. Filters(m, hot, L)
  BY <1>1, MinPKeeps DEF Likely, Unfiltered
<1>3. Prefix(hot, L)
  BY LikelyIsAPrefix
<1> HIDE DEF L, m
<1>4. CASE p.topP \in 1 .. 3
  <2>1. n \in Nucleus(m, p.topP)
    BY <1>4 DEF MtlTables, m
  <2>2. \E S \in SUBSET L : /\ Filters(n, hot, S) /\ Prefix(hot, S)
                            /\ \A t \in S : InNucleus(hot, L, t, p.topP)
    BY <1>1, <1>2, <1>3, <2>1, NucleusSound
  <2> QED
    BY <2>2 DEF L
<1>5. CASE p.topP \notin 1 .. 3
  <2>1. n = m /\ p.topP \in {0, 4}
    BY <1>1, <1>5 DEF MtlTables, m
  <2>2. L \in SUBSET L
    OBVIOUS
  <2> QED
    BY <1>2, <1>3, <2>1, <2>2 DEF L
<1> QED
  BY <1>4, <1>5

(* ... and each likely token of the nucleus is in one. *)
LEMMA MtlTableFor ==
  ASSUME NEW hot, NEW p \in Params, NEW t \in Likely(hot, p), Unfiltered(hot), ~(p.logMinP > 0),
         p.topP \in {0, 4} \/ InNucleus(hot, Likely(hot, p), t, p.topP)
  PROVE  \E n \in MtlTables(hot, p), S \in SUBSET Likely(hot, p) :
            /\ t \in S /\ Filters(n, hot, S) /\ Prefix(hot, S)
            /\ \A u \in S : p.topP \in {0, 4} \/ InNucleus(hot, Likely(hot, p), u, p.topP)
<1> DEFINE L == Likely(hot, p)
           m == MinP(hot, p.logMinP)
<1>1. p.logMinP \in Int /\ p.topP \in 0 .. 4
  BY ParamTypes
<1>2. Filters(m, hot, L)
  BY <1>1, MinPKeeps DEF Likely, Unfiltered
<1>3. Prefix(hot, L)
  BY LikelyIsAPrefix
<1>4. t \in L
  OBVIOUS
<1>5. p.topP \in {0, 4} \/ InNucleus(hot, L, t, p.topP)
  OBVIOUS
<1> HIDE DEF L, m
<1>6. CASE p.topP \in 1 .. 3
  <2>1. MtlTables(hot, p) = Nucleus(m, p.topP)
    BY <1>6 DEF MtlTables, m
  <2>2. InNucleus(hot, L, t, p.topP)
    BY <1>5, <1>6
  <2>3. \E n \in Nucleus(m, p.topP), S \in SUBSET L :
           /\ t \in S /\ Filters(n, hot, S) /\ Prefix(hot, S)
           /\ \A u \in S : InNucleus(hot, L, u, p.topP)
    BY <1>1, <1>2, <1>3, <1>4, <2>2, NucleusComplete
  <2> QED
    BY <2>1, <2>3 DEF L
<1>7. CASE p.topP \notin 1 .. 3
  <2>1. m \in MtlTables(hot, p) /\ p.topP \in {0, 4}
    BY <1>1, <1>7 DEF MtlTables, m
  <2>2. L \in SUBSET L
    OBVIOUS
  <2> QED
    BY <1>2, <1>3, <1>4, <2>1, <2>2 DEF L
<1> QED
  BY <1>6, <1>7

(* For every input, sample_next_token_mtl draws a token only if min_p, top_p *)
(* and top_k allow it, and any such token unless it is negligible; it returns *)
(* the stop token only if min_p is above 1. *)
THEOREM MtlSampler ==
  ASSUME NEW logits \in Logits, NEW hist \in Histories, NEW p \in Params
  PROVE  MtlAsFiltered(logits, hist, p)
<1> DEFINE hot == MtlHot(logits, hist, p)
           allowed == MtlAllowed(hot, p)
           drawn == SampleMtl(logits, hist, p, 1)
           Of(n) == LET l == TopKMtl(n, p.topK) IN IF Kept(l) = {} THEN {Stop} ELSE Draw(l, 1)
<1>1. p.logMinP \in Int /\ p.topP \in 0 .. 4 /\ p.topK \in Nat
  BY ParamTypes
<1>2. Unfiltered(hot)
  BY MtlHotUnfiltered
<1>3. drawn = UNION {Of(n) : n \in MtlTables(hot, p)}
  BY DEF SampleMtl, MtlTables
<1>4. MtlAsFiltered(logits, hist, p)
      <=> IF p.logMinP > 0 THEN drawn = {Stop}
          ELSE drawn \subseteq allowed /\ \A t \in allowed : t \in drawn \/ Negligible(hot, t, allowed)
  BY DEF MtlAsFiltered
<1> HIDE DEF hot, drawn
<1>5. CASE p.logMinP > 0
  <2> DEFINE m == MinP(hot, p.logMinP)
  <2>1. Filters(m, hot, Likely(hot, p))
    BY <1>1, <1>2, MinPKeeps DEF Likely, Unfiltered
  <2>2. Likely(hot, p) = {}
    <3> SUFFICES ASSUME NEW t \in Likely(hot, p) PROVE FALSE
      OBVIOUS
    <3>1. t \in DOMAIN hot /\ hot[t] \in Int
      BY <1>2 DEF Likely, Unfiltered, Vocabulary
    <3>2. p.logMinP # NegInf
      BY <1>5 DEF NegInf
    <3>3. hot[t] >= hot[t] + p.logMinP
      BY <3>1, <3>2 DEF Likely
    <3> QED
      BY <1>1, <1>5, <3>1, <3>3
  <2>3. Vocabulary(m) /\ Kept(m) = {}
    <3>1. Vocabulary(m) /\ Kept(m) = Likely(hot, p) \cap Kept(hot)
      BY <1>2, <2>1, Filtered DEF Unfiltered
    <3> QED
      BY <2>2, <3>1
  <2>4. MtlTables(hot, p) = {m}
    BY <2>3 DEF MtlTables, Nucleus
  <2> HIDE DEF m
  <2>5. Kept(TopKMtl(m, p.topK)) = {}
    <3>1. Filters(TopKMtl(m, p.topK), m, {t \in DOMAIN m : AmongBest(m, t, p.topK)})
      BY <1>1, <2>3, TopKMtlKeeps
    <3>2. Kept(TopKMtl(m, p.topK)) = {t \in DOMAIN m : AmongBest(m, t, p.topK)} \cap Kept(m)
      BY <2>3, <3>1, Filtered
    <3> QED
      BY <2>3, <3>2
  <2>6. drawn = {Stop}
    BY <1>3, <2>4, <2>5
  <2> QED
    BY <1>4, <1>5, <2>6
<1>6. CASE ~(p.logMinP > 0)
  <2> DEFINE L == Likely(hot, p)
             Best_(S) == {t \in S : AmongBest(hot, t, p.topK)}
  <2>1. allowed = {t \in L : AmongBest(hot, t, p.topK) /\ (p.topP \in {0, 4} \/ InNucleus(hot, L, t, p.topP))}
    BY DEF MtlAllowed
  <2>2. ASSUME NEW n, NEW S, Filters(n, hot, S), Prefix(hot, S)
        PROVE  /\ Of(n) \in SUBSET Best_(S)
               /\ \A t \in Best_(S) : t \in Of(n) \/ Negligible(hot, t, Best_(S))
    <3> DEFINE l == TopKMtl(n, p.topK)
    <3>1. Filters(l, hot, Best_(S)) /\ Best_(S) # {}
      BY <1>1, <1>2, <2>2, BestAreAPrefix
    <3>2. Best_(S) \in SUBSET DOMAIN hot
      BY <2>2 DEF Prefix
    <3> HIDE DEF l, Best_
    <3>3. Kept(l) = Best_(S)
      BY <1>2, <3>1, <3>2, BestOfKept
    <3>4. Of(n) = Draw(l, 1)
      BY <3>1, <3>3 DEF l
    <3> HIDE DEF Of
    <3> QED
      BY <1>2, <3>1, <3>2, <3>4, Drawn
  <2>3. drawn \subseteq allowed
    <3> SUFFICES ASSUME NEW t \in drawn PROVE t \in allowed
      OBVIOUS
    <3>1. PICK n \in MtlTables(hot, p) : t \in Of(n)
      BY <1>3
    <3>2. PICK S \in SUBSET L : /\ Filters(n, hot, S) /\ Prefix(hot, S)
                                /\ \A u \in S : p.topP \in {0, 4} \/ InNucleus(hot, L, u, p.topP)
      BY <1>2, <1>6, MtlTable
    <3> HIDE DEF Of, L, allowed
    <3>3. t \in Best_(S)
      BY <2>2, <3>1, <3>2
    <3>4. t \in S /\ AmongBest(hot, t, p.topK) /\ t \in L
      BY <3>2, <3>3
    <3>5. p.topP \in {0, 4} \/ InNucleus(hot, L, t, p.topP)
      BY <3>2, <3>4
    <3> QED
      BY <2>1, <3>4, <3>5
  <2>4. ASSUME NEW t \in allowed, t \notin drawn PROVE Negligible(hot, t, allowed)
    <3>1. t \in L /\ AmongBest(hot, t, p.topK) /\ (p.topP \in {0, 4} \/ InNucleus(hot, L, t, p.topP))
      <4> HIDE DEF L, allowed
      <4> QED
        BY <2>1
    <3>2. PICK n \in MtlTables(hot, p), S \in SUBSET L :
             /\ t \in S /\ Filters(n, hot, S) /\ Prefix(hot, S)
             /\ \A u \in S : p.topP \in {0, 4} \/ InNucleus(hot, L, u, p.topP)
      BY <1>2, <1>6, <3>1, MtlTableFor
    <3> HIDE DEF Of, L, allowed
    <3>3. t \in Best_(S)
      BY <3>1, <3>2
    <3>4. t \notin Of(n)
      BY <1>3, <2>4, <3>2
    <3>5. Negligible(hot, t, Best_(S))
      BY <2>2, <3>2, <3>3, <3>4
    <3>6. Best_(S) \in SUBSET allowed
      <4> SUFFICES ASSUME NEW u \in S, AmongBest(hot, u, p.topK) PROVE u \in allowed
        OBVIOUS
      <4>1. u \in L /\ (p.topP \in {0, 4} \/ InNucleus(hot, L, u, p.topP))
        BY <3>2
      <4> QED
        BY <2>1, <4>1
    <3> HIDE DEF Best_
    <3> QED
      BY <3>5, <3>6 DEF Negligible
  <2> HIDE DEF allowed
  <2> QED
    BY <1>4, <1>6, <2>3, <2>4
<1> QED
  BY <1>5, <1>6

-----------------------------------------------------------------------------
(* The Turbo sampler. *)

(* The scores the Turbo filters start from, before and after the penalty. *)
LEMMA TurboHotUnfiltered ==
  ASSUME NEW logits \in Logits, NEW hist \in Histories, NEW p \in Params
  PROVE  LET hot == TurboHot(logits, p)
             pen == PenaliseOnce(hot, hist, p.penalty)
         IN /\ Unfiltered(hot) /\ Unfiltered(pen)
            /\ DOMAIN hot = DOMAIN logits /\ DOMAIN pen = DOMAIN logits
<1> DEFINE hot == TurboHot(logits, p)
           pen == PenaliseOnce(hot, hist, p.penalty)
<1>1. /\ DOMAIN logits # {} /\ IsFiniteSet(DOMAIN logits) /\ logits \in [DOMAIN logits -> Int]
      /\ \A t \in DOMAIN logits : hot[t] > NegInf /\ Penalty(hot[t], p.penalty) > NegInf
  BY SamplerInputs
<1>2. p.temp \in Int /\ p.penalty \in Nat \ {0}
  BY ParamTypes
<1>3. DOMAIN hot = DOMAIN logits /\ \A t \in DOMAIN logits : hot[t] \in Int
  BY <1>1, <1>2, HeatType DEF TurboHot
<1>4. pen = [t \in DOMAIN hot |-> IF t \in ToSet(hist) THEN Penalty(hot[t], p.penalty) ELSE hot[t]]
  BY DEF PenaliseOnce
<1> HIDE DEF hot, pen
<1>5. DOMAIN pen = DOMAIN logits /\ \A t \in DOMAIN logits : pen[t] \in Int /\ pen[t] > NegInf
  <2>1. \A t \in DOMAIN logits : Penalty(hot[t], p.penalty) \in Int
    BY <1>2, <1>3, PenaltyType
  <2> QED
    BY <1>1, <1>3, <1>4, <2>1
<1> QED
  BY <1>1, <1>3, <1>5 DEF Unfiltered, Vocabulary, hot, pen

(* The k best are a prefix, and what top_k leaves if no tie is lost. *)
LEMMA TurboBestIsAPrefix ==
  ASSUME NEW hot, NEW p \in Params, Unfiltered(hot)
  PROVE  Prefix(hot, TurboBest(hot, p))
<1> DEFINE B == TurboBest(hot, p)
           k == p.topK
<1>1. k \in Nat
  BY ParamTypes
<1>2. B = {t \in DOMAIN hot : AmongBest(hot, t, k)}
  BY DEF TurboBest
<1>3. \A t \in DOMAIN hot : /\ hot[t] \in Int /\ Above(hot, t) = Over(hot, hot[t])
                            /\ IsFiniteSet(Over(hot, hot[t]))
                            /\ Cardinality(Over(hot, hot[t])) \in Nat
  BY Counts DEF Unfiltered, Vocabulary, Above, Over
<1> HIDE DEF B, k
<1>4. ASSUME NEW t \in B, NEW u \in DOMAIN hot \ B PROVE hot[t] >= hot[u]
  <2> SUFFICES ASSUME hot[u] > hot[t] PROVE FALSE
    BY <1>2, <1>3
  <2>1. t \in DOMAIN hot /\ AmongBest(hot, t, k)
    BY <1>2
  <2>2. Over(hot, hot[u]) \in SUBSET Over(hot, hot[t])
    <3>1. hot[t] \in Int /\ hot[u] >= hot[t] /\ u \in DOMAIN hot
      BY <1>3, <2>1
    <3> QED
      BY <3>1, ScoreOrder DEF Unfiltered
  <2>3. Cardinality(Over(hot, hot[u])) <= Cardinality(Over(hot, hot[t]))
    BY <1>3, <2>1, <2>2, PartIsSmaller
  <2>4. k = 0 \/ Cardinality(Over(hot, hot[t])) < k
    BY <1>3, <2>1 DEF AmongBest
  <2>5. k # 0 /\ ~(Cardinality(Over(hot, hot[u])) < k)
    BY <1>2, <1>3 DEF AmongBest
  <2> QED
    BY <1>1, <1>3, <2>1, <2>3, <2>4, <2>5
<1>5. B \in SUBSET DOMAIN hot
  BY <1>2
<1>6. B # {}
  <2>1. PICK b \in DOMAIN hot : \A u \in DOMAIN hot : hot[u] <= hot[b]
    BY HighestScore DEF Unfiltered, Vocabulary
  <2>2. Above(hot, b) = {}
    BY <1>3, <2>1 DEF Above
  <2>3. AmongBest(hot, b, k)
    BY <1>1, <2>2, FS_EmptySet DEF AmongBest
  <2> QED
    BY <1>2, <2>1, <2>3
<1> QED
  BY <1>4, <1>5, <1>6 DEF Prefix, B

LEMMA TurboTopK ==
  ASSUME NEW hot, NEW p \in Params, Unfiltered(hot), ~LosesTie(hot, p.topK)
  PROVE  Filters(TopKTurbo(hot, p.topK), hot, TurboBest(hot, p))
<1>1. Filters(TopKTurbo(hot, p.topK), hot,
              {t \in DOMAIN hot : AmongBest(hot, t, p.topK) /\ ~TiedOut(hot, t, p.topK)})
  BY ParamTypes, TopKTurboKeeps DEF Unfiltered
<1>2. {t \in DOMAIN hot : AmongBest(hot, t, p.topK) /\ ~TiedOut(hot, t, p.topK)} = TurboBest(hot, p)
  BY DEF LosesTie, TurboBest
<1> QED
  BY <1>1, <1>2

(* The tables the penalty may be handed. *)
TurboTables(hot, p) ==
    LET k == TopKTurbo(hot, p.topK)
    IN IF p.topP < 4 THEN Nucleus(k, p.topP) ELSE {k}

(* Such a table holds a prefix of the best tokens, all in their nucleus ... *)
LEMMA TurboTable ==
  ASSUME NEW hot, NEW p \in Params, NEW n \in TurboTables(hot, p), Unfiltered(hot), ~LosesTie(hot, p.topK)
  PROVE  \E S \in SUBSET TurboBest(hot, p) :
            /\ Filters(n, hot, S) /\ Prefix(hot, S)
            /\ p.topP = 4 => S = TurboBest(hot, p)
            /\ \A t \in S : p.topP = 4 \/ InNucleus(hot, TurboBest(hot, p), t, p.topP)
<1> DEFINE B == TurboBest(hot, p)
           m == TopKTurbo(hot, p.topK)
<1>1. p.topK \in Nat /\ p.topP \in 0 .. 4
  BY ParamTypes
<1>2. Filters(m, hot, B)
  BY TurboTopK
<1>3. Prefix(hot, B)
  BY TurboBestIsAPrefix
<1> HIDE DEF B, m
<1>4. CASE p.topP < 4
  <2>1. n \in Nucleus(m, p.topP)
    BY <1>4 DEF TurboTables, m
  <2>2. \E S \in SUBSET B : /\ Filters(n, hot, S) /\ Prefix(hot, S)
                            /\ \A t \in S : InNucleus(hot, B, t, p.topP)
    BY <1>1, <1>2, <1>3, <2>1, NucleusSound
  <2>3. p.topP # 4
    BY <1>1, <1>4
  <2> QED
    BY <2>2, <2>3 DEF B
<1>5. CASE ~(p.topP < 4)
  <2>1. n = m /\ p.topP = 4
    BY <1>1, <1>5 DEF TurboTables, m
  <2>2. B \in SUBSET B
    OBVIOUS
  <2> QED
    BY <1>2, <1>3, <2>1, <2>2 DEF B
<1> QED
  BY <1>4, <1>5

(* ... and each allowed token is in one, with allowed tokens only. *)
LEMMA TurboTableFor ==
  ASSUME NEW hot, NEW p \in Params, NEW t \in TurboAllowed(hot, p), Unfiltered(hot), ~LosesTie(hot, p.topK)
  PROVE  \E n \in TurboTables(hot, p), S \in SUBSET TurboAllowed(hot, p) :
            t \in S /\ Filters(n, hot, S) /\ Prefix(hot, S)
<1> DEFINE B == TurboBest(hot, p)
           m == TopKTurbo(hot, p.topK)
           allowed == TurboAllowed(hot, p)
<1>1. p.topK \in Nat /\ p.topP \in 0 .. 4
  BY ParamTypes
<1>2. Filters(m, hot, B)
  BY TurboTopK
<1>3. Prefix(hot, B)
  BY TurboBestIsAPrefix
<1>4. allowed = {u \in B : p.topP = 4 \/ InNucleus(hot, B, u, p.topP)}
  BY DEF TurboAllowed
<1>5. t \in allowed
  OBVIOUS
<1> HIDE DEF B, m, allowed
<1>6. CASE p.topP < 4
  <2>1. TurboTables(hot, p) = Nucleus(m, p.topP)
    BY <1>6 DEF TurboTables, m
  <2>2. t \in B /\ InNucleus(hot, B, t, p.topP)
    BY <1>1, <1>4, <1>5, <1>6
  <2>3. PICK n \in Nucleus(m, p.topP), S \in SUBSET B :
           /\ t \in S /\ Filters(n, hot, S) /\ Prefix(hot, S)
           /\ \A u \in S : InNucleus(hot, B, u, p.topP)
    BY <1>1, <1>2, <1>3, <2>2, NucleusComplete
  <2>4. S \in SUBSET allowed
    BY <1>4, <2>3
  <2> QED
    BY <2>1, <2>3, <2>4 DEF allowed
<1>7. CASE ~(p.topP < 4)
  <2>1. m \in TurboTables(hot, p) /\ p.topP = 4
    BY <1>1, <1>7 DEF TurboTables, m
  <2>2. allowed = B
    BY <1>4, <2>1
  <2> QED
    BY <1>2, <1>3, <1>5, <2>1, <2>2 DEF allowed
<1> QED
  BY <1>6, <1>7

(* The penalty after the filters is the filters after the penalty. *)
LEMMA PenaltyCommutes ==
  ASSUME NEW hot, NEW n, NEW S, NEW hist, NEW penalty, Filters(n, hot, S)
  PROVE  Filters(PenaliseOnce(n, hist, penalty), PenaliseOnce(hot, hist, penalty), S)
<1>1. Penalty(NegInf, penalty) = NegInf
  BY DEF Penalty
<1> QED
  BY <1>1 DEF PenaliseOnce, Filters

(* For every input without a tie across the k-th place, sample_next_token_ex *)
(* draws what top_k and top_p are for, and the best of it after the penalty *)
(* at temperature 0. *)
THEOREM TurboSampler ==
  ASSUME NEW logits \in Logits, NEW hist \in Histories, NEW p \in Params
  PROVE  TurboAsFiltered(logits, hist, p)
<1> DEFINE hot == TurboHot(logits, p)
           best == TurboBest(hot, p)
           allowed == TurboAllowed(hot, p)
           pen == PenaliseOnce(hot, hist, p.penalty)
           drawn == SampleTurbo(logits, hist, p, 1)
           Pen(n) == PenaliseOnce(n, hist, p.penalty)
           Highest(l) == {t \in DOMAIN l : l[t] = Best(l)}
           Of(n) == IF Kept(Pen(n)) = {} THEN {0}
                    ELSE IF p.temp <= 0 THEN {Min(Highest(Pen(n)))}
                    ELSE Draw(Pen(n), 1)
           Exact == drawn \subseteq allowed /\ \A t \in allowed : t \in drawn \/ Negligible(pen, t, allowed)
           Greedy == \A t \in drawn :
                        /\ t \in allowed
                        /\ \A u \in best : p.topP = 4 \/ hot[u] > hot[t] => pen[u] <= pen[t]
<1>1. p.temp \in Int /\ p.topP \in 0 .. 4 /\ p.topK \in Nat
  BY ParamTypes
<1>2. Unfiltered(hot) /\ Unfiltered(pen) /\ DOMAIN hot = DOMAIN logits /\ DOMAIN pen = DOMAIN hot
  BY TurboHotUnfiltered
<1>3. drawn = UNION {Of(n) : n \in TurboTables(hot, p)}
  BY DEF SampleTurbo, TurboTables
<1>4. TurboAsFiltered(logits, hist, p)
      <=> (~LosesTie(hot, p.topK) => IF p.temp > 0 THEN Exact ELSE Greedy)
  BY DEF TurboAsFiltered
<1>5. DOMAIN hot \subseteq Nat
  BY <1>2, SamplerInputs
<1>6. allowed = {t \in best : p.topP = 4 \/ InNucleus(hot, best, t, p.topP)}
  BY DEF TurboAllowed
<1>7. \A n, S : Filters(n, hot, S) => Filters(Pen(n), pen, S)
  BY PenaltyCommutes
<1> HIDE DEF hot, pen, drawn, Pen, Highest
<1>9. ASSUME ~LosesTie(hot, p.topK), p.temp > 0 PROVE Exact
  <2>1. ASSUME NEW n, NEW S, Filters(n, hot, S), Prefix(hot, S)
        PROVE  Of(n) \in SUBSET S /\ \A t \in S : t \in Of(n) \/ Negligible(pen, t, S)
    <3>1. S \in SUBSET DOMAIN pen /\ S # {}
      BY <1>2, <2>1 DEF Prefix
    <3>2. Filters(Pen(n), pen, S)
      BY <1>7, <2>1
    <3>3. Kept(Pen(n)) = S
      BY <1>2, <3>1, <3>2, BestOfKept
    <3>4. Of(n) = Draw(Pen(n), 1)
      BY <1>1, <1>9, <3>1, <3>3
    <3> HIDE DEF Of
    <3> QED
      BY <1>2, <3>1, <3>2, <3>4, Drawn
  <2> HIDE DEF Of, best, allowed
  <2>2. ASSUME NEW t \in drawn PROVE t \in allowed
    <3>1. PICK n \in TurboTables(hot, p) : t \in Of(n)
      BY <1>3
    <3>2. PICK S \in SUBSET best : /\ Filters(n, hot, S) /\ Prefix(hot, S)
                                   /\ \A u \in S : p.topP = 4 \/ InNucleus(hot, best, u, p.topP)
      BY <1>2, <1>9, TurboTable DEF best
    <3>3. t \in S
      BY <2>1, <3>1, <3>2
    <3> QED
      BY <1>6, <3>2, <3>3
  <2>3. ASSUME NEW t \in allowed, t \notin drawn PROVE Negligible(pen, t, allowed)
    <3>1. PICK n \in TurboTables(hot, p), S \in SUBSET allowed :
             t \in S /\ Filters(n, hot, S) /\ Prefix(hot, S)
      BY <1>2, <1>9, TurboTableFor DEF best, allowed
    <3>2. t \notin Of(n)
      BY <1>3, <2>3, <3>1
    <3>3. Negligible(pen, t, S)
      BY <2>1, <3>1, <3>2
    <3> QED
      BY <3>1, <3>3 DEF Negligible
  <2> QED
    BY <2>2, <2>3
<1>10. ASSUME ~LosesTie(hot, p.topK), ~(p.temp > 0) PROVE Greedy
  <2> SUFFICES ASSUME NEW t \in drawn
               PROVE  /\ t \in allowed
                      /\ \A u \in best : p.topP = 4 \/ hot[u] > hot[t] => pen[u] <= pen[t]
    OBVIOUS
  <2>1. PICK n \in TurboTables(hot, p) : t \in Of(n)
    BY <1>3
  <2> HIDE DEF best, allowed
  <2>2. PICK S \in SUBSET best : /\ Filters(n, hot, S) /\ Prefix(hot, S)
                                 /\ p.topP = 4 => S = best
                                 /\ \A u \in S : p.topP = 4 \/ InNucleus(hot, best, u, p.topP)
    BY <1>2, <1>10, TurboTable DEF best
  <2>3. S \in SUBSET DOMAIN pen /\ S # {} /\ \A x \in S, u \in DOMAIN hot \ S : hot[x] >= hot[u]
    BY <1>2, <2>2 DEF Prefix
  <2>4. Filters(Pen(n), pen, S)
    BY <1>7, <2>2
  <2> DEFINE l == Pen(n)
  <2>5. /\ DOMAIN l = DOMAIN pen /\ Kept(l) = S
        /\ \A x \in S : l[x] = pen[x] /\ pen[x] \in Int /\ pen[x] <= Best(l)
        /\ \A x \in DOMAIN pen : x \notin S => l[x] = NegInf
        /\ Best(l) \in Int /\ Best(l) > NegInf
    BY <1>2, <2>3, <2>4, BestOfKept
  <2>6. PICK b \in S : pen[b] = Best(l)
    BY <1>2, <2>3, <2>4, BestOfKept
  <2>7. t = Min(Highest(l))
    <3>1. p.temp <= 0
      BY <1>1, <1>10
    <3>2. Kept(Pen(n)) # {}
      BY <2>3, <2>5
    <3> QED
      BY <2>1, <3>1, <3>2
  <2> HIDE DEF l, Of
  <2>8. t \in Highest(l)
    <3>1. b \in Highest(l)
      BY <2>3, <2>5, <2>6 DEF Highest
    <3>2. Highest(l) \in SUBSET Nat
      BY <1>2, <1>5, <2>5 DEF Highest
    <3> DEFINE H == Highest(l)
    <3> HIDE DEF H
    <3>3. PICK x \in H : \A y \in H : x <= y
      BY <3>1, <3>2, LeastNatural DEF H
    <3>4. Min(H) \in H
      BY <3>3 DEF Min
    <3> QED
      BY <2>7, <3>4 DEF H
  <2>9. t \in DOMAIN pen /\ l[t] = Best(l)
    BY <2>5, <2>8 DEF Highest
  <2>10. t \in S
    BY <2>5, <2>9 DEF NegInf
  <2>11. t \in allowed
    BY <1>6, <2>2, <2>10
  <2>12. ASSUME NEW u \in best, p.topP = 4 \/ hot[u] > hot[t] PROVE pen[u] <= pen[t]
    <3>1. u \in S
      <4>1. CASE p.topP = 4
        BY <2>2, <4>1
      <4>2. CASE hot[u] > hot[t]
        <5>1. u \in DOMAIN hot /\ hot[u] \in Int /\ hot[t] \in Int
          BY <1>2, <2>9 DEF best, TurboBest, Unfiltered, Vocabulary
        <5> QED
          BY <2>3, <2>10, <4>2, <5>1
      <4> QED
        BY <2>12, <4>1, <4>2
    <3> QED
      BY <2>5, <2>9, <2>10, <3>1
  <2> QED
    BY <2>11, <2>12
<1> HIDE DEF Exact, Greedy
<1> QED
  BY <1>4, <1>9, <1>10

-----------------------------------------------------------------------------

(* Whatever the scores, the history and the parameters, sample_next_token_ex *)
(* draws what its filters leave: soundness and completeness of top_k, top_p, *)
(* the penalty and the draw, before the first call of the Turbo loop and ever *)
(* after, where no tie lies across the k-th place. *)
THEOREM TurboDraws == Spec => []TurboDrawsAsFiltered
<1>1. TurboDrawsAsFiltered
  BY TurboSampler DEF TurboDrawsAsFiltered
<1> QED
  BY <1>1, PTL

(* The same for sample_next_token_mtl with min_p, top_p and top_k. *)
THEOREM MtlDraws == Spec => []MtlDrawsAsFiltered
<1>1. MtlDrawsAsFiltered
  BY MtlSampler DEF MtlDrawsAsFiltered
<1> QED
  BY <1>1, PTL
=============================================================================
