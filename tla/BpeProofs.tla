----------------------------- MODULE BpeProofs ------------------------------
(***************************************************************************)
(* Proofs about BpeMerge, for any alphabet, any trained merge table and    *)
(* any word: the merge loop of the tokenizers makes the tokens of the      *)
(* published algorithm.                                                    *)
(***************************************************************************)
EXTENDS SampledDecode, SequenceTheorems, WellFoundedInduction, TLAPS

-----------------------------------------------------------------------------
(* Naturals, and functions defined by iteration. *)

(* A set of naturals with 0 and all successors has every natural. *)
LEMMA AllNaturals ==
  ASSUME NEW N \in SUBSET Nat, 0 \in N, \A n \in N : n + 1 \in N
  PROVE  N = Nat
<1> DEFINE D == Nat \ N
<1> SUFFICES ASSUME D # {} PROVE FALSE
  OBVIOUS
<1>1. PICK x \in D : \A y \in D : ~(<<y, x>> \in OpToRel(<, Nat))
  BY WFMin, NatLessThanWellFounded
<1>2. \A y \in D : ~(y < x)
  BY <1>1 DEF OpToRel
<1>3. x # 0 /\ x \in Nat
  OBVIOUS
<1>4. x - 1 \in Nat /\ x - 1 < x /\ x = (x - 1) + 1
  BY <1>3
<1>5. x - 1 \in N
  BY <1>2, <1>4
<1> QED
  BY <1>4, <1>5

(* f iterates F from base: the step to n + 1 sees n + 1. *)
Iterates(f, V, F, base) ==
    /\ f \in [Nat -> V]
    /\ f[0] = base
    /\ \A n \in Nat : f[n + 1] = F[<<n + 1, f[n]>>]

(* Every step function can be iterated. *)
LEMMA IterationExists ==
  ASSUME NEW V, NEW F \in [Nat \X V -> V], NEW base \in V
  PROVE  \E f : Iterates(f, V, F, base)
<1> DEFINE Good(g, n) == /\ g \in [Nat -> V]
                         /\ g[0] = base
                         /\ \A m \in Nat : m < n => g[m + 1] = F[<<m + 1, g[m]>>]
           N == {n \in Nat : \E g : Good(g, n)}
<1>1. 0 \in N
  <2>1. Good([m \in Nat |-> base], 0)
    OBVIOUS
  <2> QED
    BY <2>1
<1>2. ASSUME NEW n \in N PROVE n + 1 \in N
  <2>1. PICK g : Good(g, n)
    OBVIOUS
  <2> DEFINE h == [m \in Nat |-> IF m = n + 1 THEN F[<<n + 1, g[n]>>] ELSE g[m]]
  <2>2. n \in Nat /\ n + 1 \in Nat /\ n + 1 # 0
    OBVIOUS
  <2>3. g[n] \in V
    BY <2>1, <2>2
  <2>4. F[<<n + 1, g[n]>>] \in V
    BY <2>2, <2>3
  <2>5. h \in [Nat -> V]
    BY <2>1, <2>4
  <2>6. h[0] = base
    BY <2>1, <2>2
  <2>7. ASSUME NEW m \in Nat, m < n + 1 PROVE h[m + 1] = F[<<m + 1, h[m]>>]
    <3>1. CASE m = n
      BY <3>1, <2>2
    <3>2. CASE m < n
      <4>1. h[m + 1] = g[m + 1] /\ h[m] = g[m]
        BY <3>2, <2>2
      <4> QED
        BY <4>1, <3>2, <2>1
    <3>3. m = n \/ m < n
      BY <2>2, <2>7
    <3> HIDE DEF h
    <3> QED
      BY <3>1, <3>2, <3>3
  <2>8. Good(h, n + 1)
    BY <2>5, <2>6, <2>7
  <2> QED
    BY <2>2, <2>8
<1>3. N = Nat
  <2>1. N \in SUBSET Nat
    OBVIOUS
  <2> HIDE DEF N
  <2> QED
    BY <1>1, <1>2, <2>1, AllNaturals
<1> DEFINE G == [n \in Nat |-> CHOOSE g : Good(g, n)]
           f == [n \in Nat |-> G[n][n]]
<1>4. \A n \in Nat : Good(G[n], n)
  <2> SUFFICES ASSUME NEW n \in Nat PROVE Good(G[n], n)
    OBVIOUS
  <2>1. \E g : Good(g, n)
    BY <1>3
  <2>2. G[n] = CHOOSE g : Good(g, n)
    OBVIOUS
  <2> HIDE DEF Good, G
  <2> QED
    BY <2>1, <2>2
<1>5. ASSUME NEW n \in Nat PROVE G[n + 1][n] = G[n][n]
  <2> DEFINE M == {m \in Nat : m <= n => G[n + 1][m] = G[n][m]}
  <2> HIDE DEF Good, G
  <2>1. Good(G[n], n) /\ Good(G[n + 1], n + 1)
    BY <1>4
  <2> USE DEF Good
  <2> HIDE DEF G
  <2>2. 0 \in M
    BY <2>1
  <2>3. ASSUME NEW m \in M PROVE m + 1 \in M
    <3> SUFFICES ASSUME m + 1 <= n PROVE G[n + 1][m + 1] = G[n][m + 1]
      OBVIOUS
    <3>1. m \in Nat /\ m < n /\ m < n + 1 /\ G[n + 1][m] = G[n][m]
      OBVIOUS
    <3> QED
      BY <2>1, <3>1
  <2>4. M \in SUBSET Nat
    OBVIOUS
  <2> HIDE DEF M
  <2>5. M = Nat
    BY <2>2, <2>3, <2>4, AllNaturals
  <2> USE DEF M
  <2> QED
    BY <2>5
<1>6. Iterates(f, V, F, base)
  <2>1. \A n \in Nat : G[n] \in [Nat -> V] /\ G[n][0] = base
    BY <1>4
  <2>2. f \in [Nat -> V] /\ f[0] = base
    <3> HIDE DEF G
    <3> QED
      BY <2>1
  <2>3. ASSUME NEW n \in Nat PROVE f[n + 1] = F[<<n + 1, f[n]>>]
    <3>1. G[n + 1][n + 1] = F[<<n + 1, G[n + 1][n]>>]
      <4> HIDE DEF Good, G
      <4>1. Good(G[n + 1], n + 1)
        BY <1>4
      <4> USE DEF Good
      <4> QED
        BY <4>1
    <3>2. f[n + 1] = G[n + 1][n + 1] /\ f[n] = G[n][n]
      <4> HIDE DEF G
      <4> QED
        OBVIOUS
    <3> HIDE DEF f, G
    <3> QED
      BY <3>1, <3>2, <1>5
  <2> HIDE DEF f
  <2> QED
    BY <2>2, <2>3 DEF Iterates
<1> QED
  BY <1>6

-----------------------------------------------------------------------------
(* Merge tables. *)

(* A trained table of merges of non-empty parts. *)
Table(merges) == merges \in Seq(Part \X Part) /\ Trained(merges)

(* A non-empty set of naturals has a least element. *)
LEMMA LeastIs ==
  ASSUME NEW N \in SUBSET Nat, N # {}
  PROVE  Min(N) \in N /\ \A y \in N : Min(N) <= y
<1>1. PICK x \in N : \A y \in N : ~(<<y, x>> \in OpToRel(<, Nat))
  BY WFMin, NatLessThanWellFounded
<1>2. \A y \in N : ~(y < x)
  BY <1>1 DEF OpToRel
<1>3. \A y \in N : x <= y
  BY <1>2
<1> QED
  BY <1>3 DEF Min

(* The greatest of one number. *)
LEMMA GreatestOfOne ==
  ASSUME NEW x \in Nat
  PROVE  Max({x}) = x
BY DEF Max

(* Ranks are positive and merges are pairs of non-empty parts. *)
LEMMA TableTypes ==
  ASSUME NEW merges, Table(merges), NEW r \in DOMAIN merges
  PROVE  /\ r \in Nat /\ r > 0
         /\ merges[r] = <<merges[r][1], merges[r][2]>>
         /\ merges[r][1] \in Part /\ merges[r][2] \in Part
<1>1. DOMAIN merges = 1 .. Len(merges) /\ Len(merges) \in Nat
  BY DEF Table
<1>2. merges[r] \in Part \X Part
  BY <1>1, ElementOfSeq DEF Table
<1> QED
  BY <1>1, <1>2

(* No pair has two ranks, and find_rank finds the one it has. *)
LEMMA RankIs ==
  ASSUME NEW merges, NEW left, NEW right, Table(merges)
  PROVE  /\ FindRank(merges, left, right) \in Nat
         /\ FindRank(merges, left, right) > 0 =>
                /\ FindRank(merges, left, right) \in DOMAIN merges
                /\ merges[FindRank(merges, left, right)] = <<left, right>>
         /\ \A r \in DOMAIN merges :
                merges[r] = <<left, right>> => FindRank(merges, left, right) = r
<1> DEFINE ranks == {r \in DOMAIN merges : merges[r] = <<left, right>>}
<1>1. FindRank(merges, left, right) = IF ranks = {} THEN 0 ELSE Max(ranks)
  BY DEF FindRank
<1>2. ASSUME NEW r \in ranks PROVE Max(ranks) = r /\ r \in Nat /\ r > 0
  <2>1. \A q \in ranks : Joined(merges[q]) = Joined(merges[r])
    BY DEF Joined
  <2>2. ranks = {r}
    BY <2>1 DEF Table, Trained
  <2>3. r \in Nat /\ r > 0
    BY TableTypes
  <2> QED
    BY <2>2, <2>3, GreatestOfOne
<1> QED
  BY <1>1, <1>2

(* A part that a merge made is only in pairs of higher rank. *)
LEMMA MadeLater ==
  ASSUME NEW merges, NEW left, NEW right, NEW r, Table(merges), r \in DOMAIN merges,
         left = Joined(merges[r]) \/ right = Joined(merges[r]),
         FindRank(merges, left, right) > 0
  PROVE  FindRank(merges, left, right) > r
<1> DEFINE q == FindRank(merges, left, right)
<1>1. q \in DOMAIN merges /\ merges[q] = <<left, right>>
  BY RankIs
<1>2. PICK k \in {1, 2} : merges[q][k] = Joined(merges[r])
  BY <1>1
<1>3. r \in Nat /\ q \in Nat
  BY <1>1, TableTypes
<1>4. \A c \in Chars : Joined(merges[r]) # <<c>>
  <2>1. merges[r][1] \in Part /\ merges[r][2] \in Part
    BY TableTypes
  <2> DEFINE u == merges[r][1]
             v == merges[r][2]
  <2>2. u \in Seq(Chars) /\ v \in Seq(Chars) /\ u # <<>> /\ v # <<>>
    BY <2>1 DEF Part
  <2>3. Len(u \o v) = Len(u) + Len(v) /\ Joined(merges[r]) = u \o v
    BY <2>2, ConcatProperties DEF Joined
  <2> HIDE DEF u, v
  <2>4. Len(u) \in Nat \ {0} /\ Len(v) \in Nat \ {0}
    BY <2>2, EmptySeq
  <2>5. Len(u \o v) > 1
    BY <2>3, <2>4
  <2>6. ASSUME NEW c \in Chars PROVE Len(<<c>>) = 1
    OBVIOUS
  <2> QED
    BY <2>3, <2>5, <2>6
<1> HIDE DEF q
<1>5. PICK s \in DOMAIN merges : s < q /\ merges[q][k] = Joined(merges[s])
  <2>1. \/ \E c \in Chars : merges[q][k] = <<c>>
        \/ \E s \in DOMAIN merges : s < q /\ merges[q][k] = Joined(merges[s])
    <3> HIDE DEF q
    <3> QED
      BY <1>1, <1>2 DEF Table, Trained
  <2> QED
    BY <1>2, <1>4, <2>1
<1>6. s = r
  BY <1>2, <1>5 DEF Table, Trained
<1> QED
  BY <1>3, <1>5, <1>6 DEF q

-----------------------------------------------------------------------------
(* One iteration of the merge loop. *)

(* A function on an initial segment is a sequence. *)
LEMMA SeqOfFunction ==
  ASSUME NEW S, NEW n \in Nat, NEW f \in [1 .. n -> S]
  PROVE  f \in Seq(S) /\ Len(f) = n /\ DOMAIN f = 1 .. n
OBVIOUS

(* The parts of a sequence are parts. *)
LEMMA PartsAt ==
  ASSUME NEW parts \in Seq(Part), NEW k \in 1 .. Len(parts)
  PROVE  parts[k] \in Part
OBVIOUS

(* Two parts make a longer one. *)
LEMMA JoinedType ==
  ASSUME NEW u \in Part, NEW v \in Part
  PROVE  u \o v \in Part /\ u \o v # u
<1>1. u \in Seq(Chars) /\ v \in Seq(Chars) /\ u # <<>> /\ v # <<>>
  BY DEF Part
<1> QED
  BY <1>1, ConcatProperties, ConcatEqualIffEmpty DEF Part

(* MergeAt leaves a part less. *)
LEMMA MergeAtType ==
  ASSUME NEW parts \in Seq(Part), NEW k \in 1 .. Len(parts) - 1
  PROVE  /\ MergeAt(parts, k) \in Seq(Part)
         /\ Len(MergeAt(parts, k)) = Len(parts) - 1
         /\ \A m \in 1 .. Len(parts) - 1 :
                MergeAt(parts, k)[m] = IF m < k THEN parts[m]
                                       ELSE IF m = k THEN parts[k] \o parts[k + 1]
                                       ELSE parts[m + 1]
<1> DEFINE n == Len(parts) - 1
           M == MergeAt(parts, k)
<1>1. Len(parts) \in Nat /\ n \in Nat /\ k \in Nat
  OBVIOUS
<1>2. M = [m \in 1 .. n |-> IF m < k THEN parts[m] ELSE IF m = k THEN parts[k] \o parts[k + 1]
                            ELSE parts[m + 1]]
  BY DEF MergeAt
<1>3. \A m \in 1 .. n : parts[m] \in Part /\ parts[m + 1] \in Part
  BY <1>1, PartsAt
<1>4. parts[k] \o parts[k + 1] \in Part
  BY <1>3, JoinedType
<1>5. M \in [1 .. n -> Part]
  BY <1>2, <1>3, <1>4
<1>6. M \in Seq(Part) /\ Len(M) = n
  BY <1>1, <1>5, SeqOfFunction
<1> QED
  BY <1>2, <1>6

(* The loop merges the pair of lowest rank, the first of its occurrences. *)
First(parts, merges, k) ==
    /\ k \in Ranked(parts, merges)
    /\ \A m \in Ranked(parts, merges) :
           /\ Rank(parts, k, merges) <= Rank(parts, m, merges)
           /\ Rank(parts, k, merges) = Rank(parts, m, merges) => k <= m

(* Positions and ranks of the pairs in the table. *)
LEMMA RankedTypes ==
  ASSUME NEW merges, Table(merges), NEW parts \in Seq(Part)
  PROVE  /\ Ranked(parts, merges) \subseteq 1 .. Len(parts) - 1
         /\ Ranked(parts, merges) \subseteq Nat
         /\ \A k \in Ranked(parts, merges) : Rank(parts, k, merges) \in Nat \ {0}
<1>1. Ranked(parts, merges) \subseteq 1 .. Len(parts) - 1 /\ Len(parts) \in Nat
  BY DEF Ranked
<1>2. ASSUME NEW k \in Ranked(parts, merges) PROVE Rank(parts, k, merges) \in Nat \ {0}
  <2>1. Rank(parts, k, merges) > 0
    BY DEF Ranked
  <2>2. Rank(parts, k, merges) \in Nat
    BY RankIs DEF Rank
  <2> QED
    BY <2>1, <2>2
<1> QED
  BY <1>1, <1>2

(* best_i is that pair, and there is only one. *)
LEMMA BestPairIs ==
  ASSUME NEW merges, Table(merges), NEW parts \in Seq(Part)
  PROVE  /\ Ranked(parts, merges) # {} => First(parts, merges, BestPair(parts, merges))
         /\ \A k : First(parts, merges, k) => k = BestPair(parts, merges)
<1> DEFINE R == Ranked(parts, merges)
           rank(k) == Rank(parts, k, merges)
           L == Lowest(parts, merges)
           Ns == {rank(k) : k \in R}
<1>1. R \subseteq Nat /\ \A k \in R : rank(k) \in Nat
  BY RankedTypes
<1>2. L = {k \in R : \A m \in R : rank(k) <= rank(m)}
  BY DEF Lowest
<1>3. BestPair(parts, merges) = Min(L)
  BY DEF BestPair
<1>4. ASSUME R # {} PROVE First(parts, merges, Min(L))
  <2>1. Ns \in SUBSET Nat /\ Ns # {}
    BY <1>1, <1>4
  <2>2. PICK n \in Ns : \A y \in Ns : n <= y
    <3> HIDE DEF Ns
    <3> QED
      BY <2>1, LeastIs
  <2>3. PICK k \in R : rank(k) = n
    BY <2>2
  <2>4. L \in SUBSET Nat /\ L # {}
    BY <1>1, <1>2, <2>2, <2>3
  <2>5. Min(L) \in L /\ \A y \in L : Min(L) <= y
    BY <2>4, LeastIs
  <2>6. \A m \in R : rank(Min(L)) = rank(m) => m \in L
    BY <1>2, <2>5
  <2> QED
    BY <1>2, <2>5, <2>6 DEF First
<1>5. ASSUME NEW k, First(parts, merges, k) PROVE k = Min(L)
  <2>1. R # {} /\ k \in R /\ k \in Nat
    BY <1>1, <1>5 DEF First
  <2>2. First(parts, merges, Min(L))
    BY <1>4, <2>1
  <2> DEFINE b == Min(L)
  <2>3. b \in R /\ b \in Nat
    BY <1>1, <2>2 DEF First
  <2>4. rank(k) <= rank(b) /\ rank(b) <= rank(k) /\ rank(k) \in Nat /\ rank(b) \in Nat
    BY <1>1, <1>5, <2>1, <2>2, <2>3 DEF First
  <2>5. rank(k) = rank(b)
    BY <2>4
  <2>6. k <= b /\ b <= k
    BY <1>5, <2>1, <2>2, <2>3, <2>5 DEF First
  <2> QED
    BY <2>1, <2>3, <2>6
<1> QED
  BY <1>3, <1>4, <1>5

(* An iteration that merges leaves a part less. *)
LEMMA IterationType ==
  ASSUME NEW merges, Table(merges), NEW parts \in Seq(Part)
  PROVE  /\ Iteration(parts, merges) \in Seq(Part)
         /\ IF Ranked(parts, merges) = {} THEN Iteration(parts, merges) = parts
            ELSE Len(Iteration(parts, merges)) = Len(parts) - 1 /\ Len(parts) > 1
<1>1. CASE Ranked(parts, merges) = {}
  BY <1>1 DEF Iteration
<1>2. CASE Ranked(parts, merges) # {}
  <2>1. BestPair(parts, merges) \in 1 .. Len(parts) - 1
    BY <1>2, BestPairIs, RankedTypes DEF First
  <2>2. Iteration(parts, merges) = MergeAt(parts, BestPair(parts, merges))
    BY <1>2 DEF Iteration
  <2>3. Len(parts) \in Nat
    OBVIOUS
  <2> HIDE DEF Iteration
  <2>4. Len(parts) > 1
    BY <2>1, <2>3
  <2> QED
    BY <1>2, <2>1, <2>2, <2>4, MergeAtType
<1> QED
  BY <1>1, <1>2

-----------------------------------------------------------------------------
(* The loop and the passes, iteration by iteration. *)

(* A function defined by recursion on the number of steps. *)
Recursion(f, V, F, base) ==
    f \in [Nat -> V] /\ f = [n \in Nat |-> IF n = 0 THEN base ELSE F[<<n, f[n - 1]>>]]

(* There is one for every step function. *)
LEMMA RecursionExists ==
  ASSUME NEW V, NEW F \in [Nat \X V -> V], NEW base \in V
  PROVE  \E f : Recursion(f, V, F, base)
<1>1. PICK f : Iterates(f, V, F, base)
  BY IterationExists
<1>2. f \in [Nat -> V] /\ f[0] = base /\ \A n \in Nat : f[n + 1] = F[<<n + 1, f[n]>>]
  BY <1>1 DEF Iterates
<1>3. ASSUME NEW n \in Nat, n # 0 PROVE f[n] = F[<<n, f[n - 1]>>]
  <2>1. n - 1 \in Nat /\ (n - 1) + 1 = n
    BY <1>3
  <2> QED
    BY <1>2, <2>1
<1>4. \A n \in Nat : f[n] = IF n = 0 THEN base ELSE F[<<n, f[n - 1]>>]
  BY <1>2, <1>3
<1> DEFINE g == [n \in Nat |-> IF n = 0 THEN base ELSE F[<<n, f[n - 1]>>]]
<1>5. \A n \in Nat : f[n] = g[n]
  BY <1>4
<1>6. DOMAIN f = Nat /\ DOMAIN g = Nat /\ f = [n \in DOMAIN f |-> f[n]] /\ g = [n \in DOMAIN g |-> g[n]]
  BY <1>2
<1> HIDE DEF g
<1>7. f = g
  BY <1>5, <1>6
<1> QED
  BY <1>2, <1>7 DEF g, Recursion

(* A word is as many parts as it has characters. *)
LEMMA CharactersType ==
  ASSUME NEW word \in Seq(Chars)
  PROVE  Characters(word) \in Seq(Part) /\ Len(Characters(word)) = Len(word)
<1>1. DOMAIN word = 1 .. Len(word) /\ Len(word) \in Nat
  OBVIOUS
<1>2. ASSUME NEW k \in 1 .. Len(word) PROVE <<word[k]>> \in Part
  <2>1. word[k] \in Chars
    OBVIOUS
  <2>2. <<word[k]>> \in Seq(Chars) /\ Len(<<word[k]>>) = 1
    BY <2>1
  <2>3. Len(<<>>) = 0
    OBVIOUS
  <2> QED
    BY <2>2, <2>3 DEF Part
<1>3. Characters(word) \in [1 .. Len(word) -> Part]
  BY <1>1, <1>2 DEF Characters
<1> QED
  BY <1>1, <1>3, SeqOfFunction

(* The loop runs iteration by iteration. *)
LEMMA MergedUnfolds ==
  ASSUME NEW merges, NEW word \in Seq(Chars), Table(merges)
  PROVE  /\ Merged(word, merges) \in [Nat -> Seq(Part)]
         /\ Merged(word, merges)[0] = Characters(word)
         /\ \A n \in Nat : Merged(word, merges)[n + 1] = Iteration(Merged(word, merges)[n], merges)
<1> DEFINE V == Seq(Part)
           F == [x \in Nat \X V |-> Iteration(x[2], merges)]
           base == Characters(word)
           Solves(f) == f = [n \in Nat |-> IF n = 0 THEN base ELSE Iteration(f[n - 1], merges)]
           M == Merged(word, merges)
<1>1. F \in [Nat \X V -> V]
  <2>1. \A x \in Nat \X V : x[2] \in V
    OBVIOUS
  <2>2. \A x \in Nat \X V : Iteration(x[2], merges) \in V
    BY <2>1, IterationType
  <2> QED
    BY <2>2
<1>2. base \in V
  BY CharactersType
<1>3. \A n \in Nat, p \in V : F[<<n, p>>] = Iteration(p, merges)
  OBVIOUS
<1> HIDE DEF V, F, base
<1>4. PICK f : Recursion(f, V, F, base)
  BY <1>1, <1>2, RecursionExists
<1>5. \A n \in Nat : n # 0 => F[<<n, f[n - 1]>>] = Iteration(f[n - 1], merges)
  <2>1. \A n \in Nat : n # 0 => n - 1 \in Nat
    OBVIOUS
  <2>2. \A n \in Nat : n # 0 => f[n - 1] \in V
    BY <1>4, <2>1 DEF Recursion
  <2> QED
    BY <1>3, <2>2
<1>6. Solves(f)
  <2>1. [n \in Nat |-> IF n = 0 THEN base ELSE F[<<n, f[n - 1]>>]]
          = [n \in Nat |-> IF n = 0 THEN base ELSE Iteration(f[n - 1], merges)]
    BY <1>5
  <2> QED
    BY <1>4, <2>1 DEF Recursion
<1>7. M = CHOOSE g : Solves(g)
  BY DEF Merged, base
<1>8. Solves(M)
  <2> HIDE DEF Solves, M
  <2> QED
    BY <1>6, <1>7
<1> HIDE DEF M
<1>9. M[0] = base /\ \A n \in Nat : M[n + 1] = Iteration(M[n], merges)
  <2>1. \A n \in Nat : M[n] = IF n = 0 THEN base ELSE Iteration(M[n - 1], merges)
    BY <1>8
  <2>2. ASSUME NEW n \in Nat PROVE M[n + 1] = Iteration(M[n], merges)
    <3>1. n + 1 \in Nat /\ n + 1 # 0 /\ (n + 1) - 1 = n
      OBVIOUS
    <3> QED
      BY <2>1, <3>1
  <2> QED
    BY <2>1, <2>2
<1>10. M \in [Nat -> V]
  <2> DEFINE N == {n \in Nat : M[n] \in V}
  <2>1. 0 \in N
    BY <1>2, <1>9
  <2>2. ASSUME NEW n \in N PROVE n + 1 \in N
    <3>1. n \in Nat /\ M[n] \in V
      OBVIOUS
    <3>2. Iteration(M[n], merges) \in V
      BY <3>1, IterationType DEF V
    <3>3. M[n + 1] = Iteration(M[n], merges)
      BY <1>9, <3>1
    <3>4. n + 1 \in Nat
      BY <3>1
    <3> QED
      BY <3>2, <3>3, <3>4
  <2>3. N \in SUBSET Nat
    OBVIOUS
  <2> HIDE DEF N
  <2>4. N = Nat
    BY <2>1, <2>2, <2>3, AllNaturals
  <2>5. \A n \in Nat : M[n] \in V
    BY <2>4 DEF N
  <2>6. M = [n \in Nat |-> IF n = 0 THEN base ELSE Iteration(M[n - 1], merges)]
    BY <1>8
  <2>7. DOMAIN M = Nat /\ M = [n \in Nat |-> M[n]]
    BY <2>6
  <2> QED
    BY <2>5, <2>7
<1> QED
  BY <1>9, <1>10 DEF V, M, base

(* The next part completes the pair of the pass. *)
Completes(out, part, left, right) == out # <<>> /\ out[Len(out)] = left /\ part = right

(* A scanned part replaces the last part put out, or follows it. *)
LEMMA ScanType ==
  ASSUME NEW out \in Seq(Part), NEW part \in Part, NEW left \in Part, NEW right \in Part
  PROVE  /\ Scan(out, part, left, right) \in Seq(Part)
         /\ Completes(out, part, left, right) =>
                /\ Len(Scan(out, part, left, right)) = Len(out) /\ Len(out) \in Nat \ {0}
                /\ \A m \in 1 .. Len(out) :
                       Scan(out, part, left, right)[m] = IF m = Len(out) THEN left \o right ELSE out[m]
         /\ ~Completes(out, part, left, right) =>
                /\ Len(Scan(out, part, left, right)) = Len(out) + 1
                /\ \A m \in 1 .. Len(out) + 1 :
                       Scan(out, part, left, right)[m] = IF m = Len(out) + 1 THEN part ELSE out[m]
<1>1. CASE Completes(out, part, left, right)
  <2>1. Scan(out, part, left, right) = [out EXCEPT ![Len(out)] = left \o right]
    BY <1>1 DEF Scan, Completes
  <2>2. Len(out) \in Nat \ {0} /\ Len(out) \in 1 .. Len(out)
    BY <1>1, EmptySeq DEF Completes
  <2>3. left \o right \in Part
    BY JoinedType
  <2> HIDE DEF Scan
  <2> QED
    BY <1>1, <2>1, <2>2, <2>3, ExceptSeq
<1>2. CASE ~Completes(out, part, left, right)
  <2>1. Scan(out, part, left, right) = Append(out, part)
    BY <1>2 DEF Scan, Completes
  <2>2. /\ Append(out, part) \in Seq(Part) /\ Len(Append(out, part)) = Len(out) + 1
        /\ \A m \in 1 .. Len(out) + 1 :
               Append(out, part)[m] = IF m = Len(out) + 1 THEN part ELSE out[m]
    OBVIOUS
  <2> QED
    BY <1>2, <2>1, <2>2
<1> QED
  BY <1>1, <1>2

(* The scan of a pass runs part by part. *)
LEMMA ScannedUnfolds ==
  ASSUME NEW parts \in Seq(Part), NEW left \in Part, NEW right \in Part
  PROVE  /\ \A j \in 0 .. Len(parts) : Scanned(parts, left, right)[j] \in Seq(Part)
         /\ Scanned(parts, left, right)[0] = <<>>
         /\ \A j \in 0 .. Len(parts) - 1 :
                Scanned(parts, left, right)[j + 1]
                    = Scan(Scanned(parts, left, right)[j], parts[j + 1], left, right)
<1> DEFINE V == Seq(Part)
           n == Len(parts)
           F == [x \in Nat \X V |-> IF x[1] \in 1 .. n THEN Scan(x[2], parts[x[1]], left, right)
                                    ELSE x[2]]
           Solves(f) == f = [j \in 0 .. n |-> IF j = 0 THEN <<>>
                                              ELSE Scan(f[j - 1], parts[j], left, right)]
           O == Scanned(parts, left, right)
<1>1. n \in Nat /\ \A j \in 1 .. n : parts[j] \in Part
  BY PartsAt
<1>2. F \in [Nat \X V -> V]
  <2>1. ASSUME NEW x \in Nat \X V PROVE F[x] \in V
    <3>1. x[2] \in V
      OBVIOUS
    <3>2. CASE x[1] \in 1 .. n
      <4>1. Scan(x[2], parts[x[1]], left, right) \in V
        BY <1>1, <3>1, <3>2, ScanType
      <4> QED
        BY <3>2, <4>1
    <3> QED
      BY <3>1, <3>2
  <2> QED
    BY <2>1
<1>3. <<>> \in V
  OBVIOUS
<1>4. \A j \in 1 .. n, p \in V : F[<<j, p>>] = Scan(p, parts[j], left, right)
  BY <1>1
<1> HIDE DEF V, F
<1>5. PICK f : Recursion(f, V, F, <<>>)
  BY <1>2, <1>3, RecursionExists
<1> DEFINE h == [j \in 0 .. n |-> f[j]]
<1>6. f \in [Nat -> V] /\ f[0] = <<>> /\ \A j \in Nat : j # 0 => f[j] = F[<<j, f[j - 1]>>]
  BY <1>5 DEF Recursion
<1>7. \A j \in 1 .. n : h[j] = Scan(h[j - 1], parts[j], left, right)
  <2> SUFFICES ASSUME NEW j \in 1 .. n PROVE h[j] = Scan(h[j - 1], parts[j], left, right)
    OBVIOUS
  <2>1. j \in Nat /\ j # 0 /\ j - 1 \in Nat /\ j - 1 \in 0 .. n /\ j \in 0 .. n
    BY <1>1
  <2>2. f[j] = Scan(f[j - 1], parts[j], left, right)
    BY <1>4, <1>6, <2>1
  <2>3. h[j] = f[j] /\ h[j - 1] = f[j - 1]
    BY <2>1
  <2> QED
    BY <2>2, <2>3
<1>8. Solves(h)
  <2> DEFINE g == [j \in 0 .. n |-> IF j = 0 THEN <<>> ELSE Scan(h[j - 1], parts[j], left, right)]
  <2>1. h[0] = <<>>
    BY <1>1, <1>6
  <2>2. \A j \in 0 .. n : j = 0 \/ j \in 1 .. n
    BY <1>1
  <2>3. \A j \in 0 .. n : h[j] = g[j]
    BY <1>7, <2>1, <2>2
  <2>4. DOMAIN h = 0 .. n /\ DOMAIN g = 0 .. n /\ h = [j \in 0 .. n |-> h[j]] /\ g = [j \in 0 .. n |-> g[j]]
    OBVIOUS
  <2> HIDE DEF h, g
  <2>5. h = g
    BY <2>3, <2>4
  <2> USE DEF g
  <2> QED
    BY <2>5
<1>9. O = CHOOSE g : Solves(g)
  BY DEF Scanned
<1>10. Solves(O)
  <2> HIDE DEF Solves, O
  <2> QED
    BY <1>8, <1>9
<1> HIDE DEF O
<1>11. O[0] = <<>> /\ \A j \in 1 .. n : O[j] = Scan(O[j - 1], parts[j], left, right)
  BY <1>1, <1>10
<1>12. \A j \in 0 .. n - 1 : O[j + 1] = Scan(O[j], parts[j + 1], left, right)
  <2> HIDE DEF Solves
  <2>1. \A j \in 0 .. n - 1 : j + 1 \in 1 .. n /\ (j + 1) - 1 = j
    BY <1>1
  <2> QED
    BY <1>11, <2>1
<1>13. \A j \in 0 .. n : O[j] \in V
  <2> HIDE DEF Solves
  <2> DEFINE N == {j \in Nat : j <= n => O[j] \in V}
  <2>1. 0 \in N
    BY <1>3, <1>11
  <2>2. ASSUME NEW j \in N PROVE j + 1 \in N
    <3> SUFFICES ASSUME j + 1 <= n PROVE O[j + 1] \in V
      OBVIOUS
    <3>1. j \in 0 .. n - 1 /\ j + 1 \in 1 .. n /\ O[j] \in V
      BY <1>1
    <3>2. O[j + 1] = Scan(O[j], parts[j + 1], left, right)
      BY <1>12, <3>1
    <3>3. Scan(O[j], parts[j + 1], left, right) \in V
      BY <1>1, <3>1, ScanType DEF V
    <3> QED
      BY <3>2, <3>3
  <2>3. N \in SUBSET Nat
    OBVIOUS
  <2> HIDE DEF N
  <2>4. N = Nat
    BY <2>1, <2>2, <2>3, AllNaturals
  <2>5. \A j \in 0 .. n : j \in N /\ j <= n
    BY <1>1, <2>4
  <2> QED
    BY <2>5 DEF N
<1> QED
  BY <1>11, <1>12, <1>13 DEF V, O

-----------------------------------------------------------------------------
(* A pass in the midst of its scan: what it has put out, and the rest. *)
Spliced(out, parts, j) ==
    [m \in 1 .. Len(out) + Len(parts) - j |-> IF m <= Len(out) THEN out[m] ELSE parts[m - Len(out) + j]]

(* No pair has a rank below r, and those of rank r are at from or behind. *)
Ready(parts, merges, r, from) ==
    \A m \in Ranked(parts, merges) :
        /\ Rank(parts, m, merges) >= r
        /\ Rank(parts, m, merges) = r => m >= from

(* The spliced sequence, element by element. *)
LEMMA SplicedType ==
  ASSUME NEW out \in Seq(Part), NEW parts \in Seq(Part), NEW j \in 0 .. Len(parts)
  PROVE  /\ Spliced(out, parts, j) \in Seq(Part)
         /\ Len(Spliced(out, parts, j)) = Len(out) + Len(parts) - j
         /\ \A m \in 1 .. Len(out) + Len(parts) - j :
                Spliced(out, parts, j)[m] = IF m <= Len(out) THEN out[m] ELSE parts[m - Len(out) + j]
<1> DEFINE n == Len(out) + Len(parts) - j
           S == Spliced(out, parts, j)
<1>1. Len(out) \in Nat /\ Len(parts) \in Nat /\ j \in Nat /\ n \in Nat
  OBVIOUS
<1>2. S = [m \in 1 .. n |-> IF m <= Len(out) THEN out[m] ELSE parts[m - Len(out) + j]]
  BY DEF Spliced
<1>3. ASSUME NEW m \in 1 .. n
      PROVE  (IF m <= Len(out) THEN out[m] ELSE parts[m - Len(out) + j]) \in Part
  <2>1. CASE m <= Len(out)
    <3>1. m \in 1 .. Len(out)
      BY <1>1, <2>1
    <3> QED
      BY <2>1, <3>1, PartsAt
  <2>2. CASE ~(m <= Len(out))
    <3>1. m - Len(out) + j \in 1 .. Len(parts)
      BY <1>1, <2>2
    <3> QED
      BY <2>2, <3>1, PartsAt
  <2> QED
    BY <2>1, <2>2
<1>4. S \in [1 .. n -> Part]
  BY <1>2, <1>3
<1>5. S \in Seq(Part) /\ Len(S) = n
  BY <1>1, <1>4, SeqOfFunction
<1> QED
  BY <1>2, <1>5

(* The rank of a pair, from its parts. *)
LEMMA RankOfPair ==
  ASSUME NEW merges, NEW parts, NEW m, NEW r, Table(merges), r \in DOMAIN merges
  PROVE  /\ merges[r] = <<parts[m], parts[m + 1]>> => Rank(parts, m, merges) = r
         /\ Rank(parts, m, merges) = r => merges[r] = <<parts[m], parts[m + 1]>>
<1>1. r \in Nat /\ r > 0
  BY TableTypes
<1> QED
  BY <1>1, RankIs DEF Rank

(* The scan of one part is nothing to the loop, or an iteration of it. *)
LEMMA ScanIsIteration ==
  ASSUME NEW merges, NEW r, NEW out \in Seq(Part), NEW parts \in Seq(Part),
         NEW j \in 0 .. Len(parts) - 1, Table(merges), r \in DOMAIN merges,
         Ready(Spliced(out, parts, j), merges, r, Len(out))
  PROVE  LET next == Scan(out, parts[j + 1], merges[r][1], merges[r][2])
             now == Spliced(out, parts, j)
             later == Spliced(next, parts, j + 1)
         IN /\ next \in Seq(Part)
            /\ later = now \/ later = Iteration(now, merges)
            /\ Ready(later, merges, r, Len(next))
<1> DEFINE left == merges[r][1]
           right == merges[r][2]
           part == parts[j + 1]
           next == Scan(out, part, left, right)
           now == Spliced(out, parts, j)
           later == Spliced(next, parts, j + 1)
           n == Len(out)
           N == Len(parts)
<1>1. /\ left \in Part /\ right \in Part /\ merges[r] = <<left, right>>
      /\ r \in Nat /\ r > 0
  BY TableTypes
<1>2. n \in Nat /\ N \in Nat /\ j \in Nat /\ j + 1 \in 1 .. N /\ part \in Part
  BY PartsAt
<1>3. /\ next \in Seq(Part)
      /\ Completes(out, part, left, right) =>
             /\ Len(next) = n /\ n \in Nat \ {0}
             /\ \A m \in 1 .. n : next[m] = IF m = n THEN left \o right ELSE out[m]
      /\ ~Completes(out, part, left, right) =>
             /\ Len(next) = n + 1
             /\ \A m \in 1 .. n + 1 : next[m] = IF m = n + 1 THEN part ELSE out[m]
  <2>1. left \in Part /\ right \in Part /\ part \in Part
    BY <1>1, <1>2
  <2> HIDE DEF left, right, part, now, later, N
  <2>2. next \in Seq(Part)
    BY <2>1, ScanType
  <2>3. Completes(out, part, left, right) =>
            /\ Len(next) = n /\ n \in Nat \ {0}
            /\ \A m \in 1 .. n : next[m] = IF m = n THEN left \o right ELSE out[m]
    BY <2>1, ScanType
  <2>4. ~Completes(out, part, left, right) =>
            /\ Len(next) = n + 1
            /\ \A m \in 1 .. n + 1 : next[m] = IF m = n + 1 THEN part ELSE out[m]
    BY <2>1, ScanType
  <2> QED
    BY <2>2, <2>3, <2>4
<1>4. /\ now \in Seq(Part) /\ Len(now) = n + N - j
      /\ \A m \in 1 .. n + N - j : now[m] = IF m <= n THEN out[m] ELSE parts[m - n + j]
  <2>1. j \in 0 .. Len(parts)
    BY <1>2
  <2> QED
    BY <2>1, SplicedType
<1>5. /\ later \in Seq(Part) /\ Len(later) = Len(next) + N - (j + 1)
      /\ \A m \in 1 .. Len(next) + N - (j + 1) :
             later[m] = IF m <= Len(next) THEN next[m] ELSE parts[m - Len(next) + (j + 1)]
  <2>1. j + 1 \in 0 .. Len(parts)
    BY <1>2
  <2> HIDE DEF next
  <2> QED
    BY <1>3, <2>1, SplicedType
<1>6. now[n + 1] = part
  <2>1. n + 1 \in 1 .. n + N - j /\ ~(n + 1 <= n) /\ (n + 1) - n + j = j + 1
    BY <1>2
  <2> HIDE DEF now
  <2> QED
    BY <1>4, <2>1
<1>7. n > 0 => now[n] = out[n]
  <2>1. n > 0 => n \in 1 .. n + N - j /\ n <= n
    BY <1>2
  <2> HIDE DEF now
  <2> QED
    BY <1>4, <2>1
<1>8. Ready(now, merges, r, n)
  OBVIOUS
<1>9. CASE Completes(out, part, left, right)
  <2>0. out # <<>> /\ out[n] = left /\ part = right
    BY <1>9 DEF Completes
  <2>1. /\ n > 0 /\ Len(next) = n
        /\ \A m \in 1 .. n : next[m] = IF m = n THEN left \o right ELSE out[m]
    <3> HIDE DEF next, left, right, part, n
    <3> QED
      BY <1>3, <1>9
  <2>2. Rank(now, n, merges) = r
    BY <1>1, <1>6, <1>7, <2>0, <2>1, RankOfPair
  <2>3. n \in Ranked(now, merges)
    <3>1. n \in 1 .. Len(now) - 1
      BY <1>2, <1>4, <2>1
    <3> HIDE DEF now, n
    <3> QED
      BY <1>1, <2>2, <3>1 DEF Ranked
  <2>4. First(now, merges, n)
    <3> HIDE DEF now, n
    <3> QED
      BY <1>8, <2>2, <2>3 DEF First, Ready
  <2>5. Iteration(now, merges) = MergeAt(now, n)
    <3> HIDE DEF now, n
    <3>1. n = BestPair(now, merges)
      BY <1>4, <2>4, BestPairIs
    <3> QED
      BY <2>3, <3>1 DEF Iteration
  <2>6. /\ MergeAt(now, n) \in Seq(Part)
        /\ Len(MergeAt(now, n)) = n + N - j - 1
        /\ \A m \in 1 .. n + N - j - 1 :
               MergeAt(now, n)[m] = IF m < n THEN now[m]
                                    ELSE IF m = n THEN now[n] \o now[n + 1] ELSE now[m + 1]
    <3>1. n \in 1 .. Len(now) - 1
      BY <1>2, <1>4, <2>1
    <3> HIDE DEF now, n, N
    <3>2. Len(now) - 1 = n + N - j - 1
      BY <1>2, <1>4
    <3>3. /\ MergeAt(now, n) \in Seq(Part)
          /\ Len(MergeAt(now, n)) = Len(now) - 1
          /\ \A m \in 1 .. Len(now) - 1 :
                 MergeAt(now, n)[m] = IF m < n THEN now[m]
                                      ELSE IF m = n THEN now[n] \o now[n + 1] ELSE now[m + 1]
      BY <1>4, <3>1, MergeAtType
    <3> QED
      BY <3>2, <3>3
  <2>7. Len(later) = n + N - j - 1
    BY <1>2, <1>5, <2>1
  <2>8. ASSUME NEW m \in 1 .. n + N - j - 1
        PROVE  later[m] = IF m < n THEN now[m] ELSE IF m = n THEN left \o right ELSE now[m + 1]
    <3>1. later[m] = IF m <= n THEN next[m] ELSE parts[m - n + (j + 1)]
      <4>1. m \in 1 .. Len(next) + N - (j + 1)
        BY <1>2, <2>1
      <4> HIDE DEF later, next
      <4> QED
        BY <1>5, <2>1, <4>1
    <3> HIDE DEF later, next, now, left, right, n, N
    <3>2. CASE m < n
      <4>1. m \in 1 .. n /\ m \in 1 .. n + N - j /\ m <= n /\ m # n
        BY <1>2, <3>2
      <4>2. later[m] = next[m] /\ next[m] = out[m] /\ now[m] = out[m]
        BY <1>4, <2>1, <3>1, <4>1
      <4> QED
        BY <3>2, <4>2
    <3>3. CASE m = n
      <4>1. m \in 1 .. n /\ m <= n /\ ~(m < n)
        BY <1>2, <3>3
      <4> QED
        BY <2>1, <3>1, <3>3, <4>1
    <3>4. CASE m > n
      <4>1. m + 1 \in 1 .. n + N - j /\ ~(m + 1 <= n) /\ ~(m <= n) /\ ~(m < n) /\ m # n
        BY <1>2, <3>4
      <4>2. (m + 1) - n + j = m - n + (j + 1)
        BY <1>2
      <4>3. now[m + 1] = parts[(m + 1) - n + j]
        BY <1>4, <4>1
      <4> QED
        BY <3>1, <4>1, <4>2, <4>3
    <3> QED
      BY <1>2, <3>2, <3>3, <3>4
  <2>9. later = MergeAt(now, n)
    <3>1. \A m \in 1 .. Len(later) : later[m] = MergeAt(now, n)[m]
      <4>1. now[n] = left /\ now[n + 1] = right
        BY <1>6, <1>7, <2>0, <2>1
      <4> HIDE DEF later, next, now, left, right, n, N
      <4> QED
        BY <2>6, <2>7, <2>8, <4>1
    <3> HIDE DEF later, next, now, n, N
    <3> QED
      BY <1>5, <2>6, <2>7, <3>1, SeqEqual
  <2>10. ASSUME NEW m \in Ranked(later, merges)
         PROVE  Rank(later, m, merges) >= r /\ (Rank(later, m, merges) = r => m >= n)
    <3>1. m \in 1 .. n + N - j - 2 /\ m \in Nat
      <4>1. m \in 1 .. Len(later) - 1
        BY DEF Ranked
      <4> QED
        BY <1>2, <2>7, <4>1
    <3>2. Rank(later, m, merges) > 0 /\ Rank(later, m, merges) \in Nat
      BY RankIs DEF Ranked, Rank
    <3>3. left \o right = Joined(merges[r])
      BY DEF Joined
    <3> HIDE DEF later, next, now, left, right, n, N, part
    <3>4. m \in 1 .. n + N - j - 1 /\ m + 1 \in 1 .. n + N - j - 1
      BY <1>2, <3>1
    <3>5. CASE m + 1 < n
      <4>1. later[m] = now[m] /\ later[m + 1] = now[m + 1]
        BY <1>2, <2>8, <3>4, <3>5
      <4>2. Rank(now, m, merges) = Rank(later, m, merges)
        BY <4>1 DEF Rank
      <4>3. m \in 1 .. Len(now) - 1
        BY <1>2, <1>4, <3>1
      <4>4. m \in Ranked(now, merges)
        BY <3>2, <4>2, <4>3 DEF Ranked
      <4> QED
        BY <1>8, <4>2, <4>4 DEF Ready
    <3>6. CASE m + 1 = n
      <4>1. later[m + 1] = Joined(merges[r])
        BY <1>2, <2>8, <3>3, <3>4, <3>6
      <4>2. Rank(later, m, merges) > r
        BY <3>2, <4>1, MadeLater DEF Rank
      <4> QED
        BY <1>1, <3>2, <4>2
    <3>7. CASE m = n
      <4>1. later[m] = Joined(merges[r])
        BY <1>2, <2>8, <3>3, <3>4, <3>7
      <4>2. Rank(later, m, merges) > r
        BY <3>2, <4>1, MadeLater DEF Rank
      <4> QED
        BY <1>1, <3>2, <4>2
    <3>8. CASE m > n
      <4>1. later[m] = now[m + 1] /\ later[m + 1] = now[(m + 1) + 1]
        BY <1>2, <2>8, <3>4, <3>8
      <4>2. Rank(now, m + 1, merges) = Rank(later, m, merges)
        BY <4>1 DEF Rank
      <4>3. m + 1 \in 1 .. Len(now) - 1
        BY <1>2, <1>4, <3>1
      <4>4. m + 1 \in Ranked(now, merges)
        BY <3>2, <4>2, <4>3 DEF Ranked
      <4> QED
        BY <1>2, <1>8, <3>1, <3>8, <4>2, <4>4 DEF Ready
    <3> QED
      BY <1>2, <3>1, <3>5, <3>6, <3>7, <3>8
  <2>11. Ready(later, merges, r, Len(next))
    <3> HIDE DEF later, next, n
    <3> QED
      BY <2>1, <2>10 DEF Ready
  <2> QED
    BY <1>3, <2>5, <2>9, <2>11
<1>10. CASE ~Completes(out, part, left, right)
  <2>1. /\ Len(next) = n + 1
        /\ \A m \in 1 .. n + 1 : next[m] = IF m = n + 1 THEN part ELSE out[m]
    <3> HIDE DEF next, left, right, part, n
    <3> QED
      BY <1>3, <1>10
  <2>2. Len(later) = Len(now)
    <3> HIDE DEF later, next, now, n, N
    <3> QED
      BY <1>2, <1>4, <1>5, <2>1
  <2>3. ASSUME NEW m \in 1 .. Len(now) PROVE later[m] = now[m]
    <3>1. m \in 1 .. n + N - j /\ m \in 1 .. Len(next) + N - (j + 1)
      BY <1>2, <1>4, <2>1
    <3>2. later[m] = IF m <= n + 1 THEN next[m] ELSE parts[m - (n + 1) + (j + 1)]
      <4> HIDE DEF later, next
      <4> QED
        BY <1>5, <2>1, <3>1
    <3>3. now[m] = IF m <= n THEN out[m] ELSE parts[m - n + j]
      <4> HIDE DEF now
      <4> QED
        BY <1>4, <3>1
    <3> HIDE DEF later, next, now, n, N
    <3>4. CASE m <= n
      <4>1. m \in 1 .. n + 1 /\ m # n + 1 /\ m <= n + 1
        BY <1>2, <3>1, <3>4
      <4> QED
        BY <2>1, <3>2, <3>3, <3>4, <4>1
    <3>5. CASE m = n + 1
      <4>1. m \in 1 .. n + 1 /\ m <= n + 1 /\ ~(m <= n) /\ m - n + j = j + 1
        BY <1>2, <3>5
      <4> QED
        BY <2>1, <3>2, <3>3, <3>5, <4>1
    <3>6. CASE m > n + 1
      <4>1. ~(m <= n) /\ ~(m <= n + 1) /\ m - (n + 1) + (j + 1) = m - n + j
        BY <1>2, <3>1, <3>6
      <4> QED
        BY <3>2, <3>3, <4>1
    <3> QED
      BY <1>2, <3>1, <3>4, <3>5, <3>6
  <2>4. later = now
    <3> HIDE DEF later, next, now, n, N
    <3> QED
      BY <1>4, <1>5, <2>2, <2>3, SeqEqual
  <2>5. ASSUME NEW m \in Ranked(now, merges), Rank(now, m, merges) = r PROVE m >= n + 1
    <3>1. m >= n /\ m \in Nat /\ m >= 1
      <4>1. m \in 1 .. Len(now) - 1
        BY DEF Ranked
      <4> HIDE DEF now
      <4> QED
        BY <1>2, <1>4, <1>8, <2>5, <4>1 DEF Ready
    <3>2. m # n
      <4> SUFFICES ASSUME m = n PROVE FALSE
        OBVIOUS
      <4>1. merges[r] = <<now[n], now[n + 1]>>
        BY <2>5, RankOfPair
      <4>2. out[n] = left /\ part = right
        BY <1>1, <1>6, <1>7, <3>1, <4>1
      <4>3. out # <<>>
        BY <3>1
      <4> QED
        BY <1>10, <4>2, <4>3 DEF Completes
    <3> QED
      BY <1>2, <3>1, <3>2
  <2>6. Ready(later, merges, r, Len(next))
    <3> HIDE DEF later, next, now, n
    <3> QED
      BY <1>8, <2>1, <2>4, <2>5 DEF Ready
  <2> QED
    BY <1>3, <2>4, <2>6
<1> QED
  BY <1>9, <1>10

-----------------------------------------------------------------------------
(* A pass is some iterations of the loop, and the loop ends. *)

(* The pairs the passes look for are those the loop looks for. *)
LEMMA PresentIsRanked ==
  ASSUME NEW merges, Table(merges), NEW parts \in Seq(Part)
  PROVE  /\ Present(parts, merges) \subseteq DOMAIN merges
         /\ \A k \in Ranked(parts, merges) : Rank(parts, k, merges) \in Present(parts, merges)
         /\ \A r \in Present(parts, merges) :
                \E k \in Ranked(parts, merges) : Rank(parts, k, merges) = r
<1>1. ASSUME NEW k \in Ranked(parts, merges)
      PROVE  Rank(parts, k, merges) \in Present(parts, merges)
  <2>1. k \in 1 .. Len(parts) - 1 /\ Rank(parts, k, merges) > 0
    BY DEF Ranked
  <2>2. /\ Rank(parts, k, merges) \in DOMAIN merges
        /\ merges[Rank(parts, k, merges)] = <<parts[k], parts[k + 1]>>
    BY <2>1, RankIs DEF Rank
  <2> QED
    BY <2>1, <2>2 DEF Present
<1>2. ASSUME NEW r \in Present(parts, merges)
      PROVE  \E k \in Ranked(parts, merges) : Rank(parts, k, merges) = r
  <2>1. PICK k \in 1 .. Len(parts) - 1 : merges[r] = <<parts[k], parts[k + 1]>>
    BY DEF Present
  <2>2. r \in DOMAIN merges /\ r > 0
    BY TableTypes DEF Present
  <2>3. Rank(parts, k, merges) = r
    BY <2>1, <2>2, RankOfPair
  <2> QED
    BY <2>1, <2>2, <2>3 DEF Ranked
<1> QED
  BY <1>1, <1>2 DEF Present

(* A pass with something to merge leaves what the loop leaves a number of *)
(* iterations later. *)
LEMMA PassIsIterations ==
  ASSUME NEW merges, NEW word \in Seq(Chars), NEW k \in Nat, Table(merges),
         Present(Merged(word, merges)[k], merges) # {}
  PROVE  \E m \in Nat : m > k /\ Pass(Merged(word, merges)[k], merges) = Merged(word, merges)[m]
<1> DEFINE M == Merged(word, merges)
           p == M[k]
           r == Min(Present(p, merges))
           n == Len(p)
           O == Scanned(p, merges[r][1], merges[r][2])
<1>1. /\ \A m \in Nat : M[m] \in Seq(Part)
      /\ \A m \in Nat : M[m + 1] = Iteration(M[m], merges)
  BY MergedUnfolds
<1> HIDE DEF M
<1>2. p \in Seq(Part) /\ n \in Nat
  <2>1. p \in Seq(Part)
    BY <1>1
  <2> QED
    BY <2>1
<1> HIDE DEF p
<1>3. r \in Present(p, merges) /\ \A q \in Present(p, merges) : r <= q
  <2>1. Present(p, merges) \in SUBSET Nat
    BY <1>2, PresentIsRanked, TableTypes
  <2>2. Present(p, merges) # {}
    BY DEF p, M
  <2> QED
    BY <2>1, <2>2, LeastIs
<1>4. r \in DOMAIN merges /\ r \in Nat /\ merges[r][1] \in Part /\ merges[r][2] \in Part
  BY <1>2, <1>3, PresentIsRanked, TableTypes
<1> HIDE DEF r
<1>5. Pass(p, merges) = O[n]
  <2>1. Present(p, merges) # {}
    BY <1>3
  <2> QED
    BY <2>1 DEF Pass, MergeAll, r
<1>6. /\ \A j \in 0 .. n : O[j] \in Seq(Part)
      /\ O[0] = <<>>
      /\ \A j \in 0 .. n - 1 : O[j + 1] = Scan(O[j], p[j + 1], merges[r][1], merges[r][2])
  BY <1>2, <1>4, ScannedUnfolds
<1> HIDE DEF O, n
<1> DEFINE At(j) == /\ Ready(Spliced(O[j], p, j), merges, r, Len(O[j]))
                    /\ \E m \in Nat : m >= k /\ Spliced(O[j], p, j) = M[m]
           Js == {j \in Nat : j <= n => At(j)}
<1>7. At(0)
  <2>1. O[0] = <<>> /\ <<>> \in Seq(Part) /\ Len(<<>>) = 0 /\ 0 \in 0 .. n
    BY <1>2, <1>6
  <2>2. Spliced(<<>>, p, 0) = p
    <3>1. /\ Spliced(<<>>, p, 0) \in Seq(Part) /\ Len(Spliced(<<>>, p, 0)) = n
          /\ \A m \in 1 .. n : Spliced(<<>>, p, 0)[m] = p[m]
      <4> DEFINE e == <<>>
      <4>1. e \in Seq(Part) /\ Len(e) = 0 /\ 0 \in 0 .. Len(p)
        BY <1>2, <2>1 DEF n
      <4> HIDE DEF e
      <4>2. /\ Spliced(e, p, 0) \in Seq(Part)
            /\ Len(Spliced(e, p, 0)) = Len(e) + Len(p) - 0
            /\ \A m \in 1 .. Len(e) + Len(p) - 0 :
                   Spliced(e, p, 0)[m] = IF m <= Len(e) THEN e[m] ELSE p[m - Len(e) + 0]
        BY <1>2, <4>1, SplicedType
      <4>3. Len(e) + Len(p) - 0 = n
        BY <1>2, <4>1 DEF n
      <4>4. \A m \in 1 .. n : ~(m <= Len(e)) /\ m - Len(e) + 0 = m
        BY <1>2, <4>1
      <4>5. /\ Spliced(e, p, 0) \in Seq(Part) /\ Len(Spliced(e, p, 0)) = n
            /\ \A m \in 1 .. n : Spliced(e, p, 0)[m] = p[m]
        BY <4>2, <4>3, <4>4
      <4> QED
        BY <4>5 DEF e
    <3> QED
      BY <1>2, <3>1, SeqEqual DEF n
  <2>3. Ready(p, merges, r, 0)
    <3>1. \A m \in Ranked(p, merges) : Rank(p, m, merges) \in Present(p, merges) /\ m \in Nat
      BY <1>2, PresentIsRanked, RankedTypes
    <3>2. \A m \in Ranked(p, merges) : Rank(p, m, merges) \in Nat
      BY <1>2, RankedTypes
    <3> QED
      BY <1>3, <1>4, <3>1, <3>2 DEF Ready
  <2>4. k \in Nat /\ k >= k /\ p = M[k]
    BY DEF p
  <2> QED
    BY <2>1, <2>2, <2>3, <2>4
<1>8. ASSUME NEW j \in 0 .. n - 1, At(j) PROVE At(j + 1)
  <2>1. j \in 0 .. Len(p) - 1 /\ j \in 0 .. n /\ O[j] \in Seq(Part)
    BY <1>2, <1>6 DEF n
  <2>2. O[j + 1] = Scan(O[j], p[j + 1], merges[r][1], merges[r][2])
    BY <1>6
  <2> DEFINE now == Spliced(O[j], p, j)
             later == Spliced(O[j + 1], p, j + 1)
  <2>3. /\ later = now \/ later = Iteration(now, merges)
        /\ Ready(later, merges, r, Len(O[j + 1]))
    <3>1. Ready(Spliced(O[j], p, j), merges, r, Len(O[j]))
      BY <1>8
    <3> QED
      BY <1>2, <1>4, <2>1, <2>2, <3>1, ScanIsIteration
  <2>4. PICK m \in Nat : m >= k /\ now = M[m]
    BY <1>8
  <2>5. M[m + 1] = Iteration(M[m], merges) /\ m + 1 \in Nat /\ m + 1 >= k
    BY <1>1, <2>4
  <2>6. \E x \in Nat : x >= k /\ later = M[x]
    <3> HIDE DEF now, later
    <3>1. CASE later = now
      BY <2>4, <3>1
    <3>2. CASE later = Iteration(now, merges)
      <4>1. later = M[m + 1]
        BY <2>4, <2>5, <3>2
      <4> QED
        BY <2>5, <4>1
    <3> QED
      BY <2>3, <3>1, <3>2
  <2> QED
    BY <2>3, <2>6
<1>9. At(n)
  <2>1. 0 \in Js
    BY <1>7
  <2>2. ASSUME NEW j \in Js PROVE j + 1 \in Js
    <3>1. j \in Nat /\ (j <= n => At(j))
      OBVIOUS
    <3> HIDE DEF At
    <3>2. j + 1 <= n => j \in 0 .. n - 1 /\ j <= n
      BY <1>2, <3>1
    <3>3. j + 1 <= n => At(j + 1)
      BY <1>8, <3>1, <3>2
    <3> QED
      BY <3>1, <3>3
  <2>3. Js \in SUBSET Nat
    OBVIOUS
  <2> HIDE DEF Js, At
  <2>4. Js = Nat
    BY <2>1, <2>2, <2>3, AllNaturals
  <2> QED
    BY <1>2, <2>4 DEF Js
<1>10. Spliced(O[n], p, n) = O[n]
  <2>1. n \in 0 .. Len(p) /\ O[n] \in Seq(Part)
    BY <1>2, <1>6 DEF n
  <2>2. Len(O[n]) + Len(p) - n = Len(O[n]) /\ Len(O[n]) \in Nat
    BY <1>2, <2>1 DEF n
  <2>3. /\ Spliced(O[n], p, n) \in Seq(Part)
        /\ Len(Spliced(O[n], p, n)) = Len(O[n]) + Len(p) - n
        /\ \A m \in 1 .. Len(O[n]) + Len(p) - n :
               Spliced(O[n], p, n)[m] = IF m <= Len(O[n]) THEN O[n][m] ELSE p[m - Len(O[n]) + n]
    BY <1>2, <2>1, SplicedType
  <2>4. /\ Len(Spliced(O[n], p, n)) = Len(O[n])
        /\ \A m \in 1 .. Len(O[n]) : Spliced(O[n], p, n)[m] = O[n][m]
    BY <2>2, <2>3
  <2> QED
    BY <2>1, <2>3, <2>4, SeqEqual
<1>11. PICK m \in Nat : m >= k /\ O[n] = M[m]
  BY <1>9, <1>10
<1>12. m # k
  <2> SUFFICES ASSUME m = k PROVE FALSE
    OBVIOUS
  <2>1. O[n] = p
    BY <1>11 DEF p
  <2>2. PICK x \in Ranked(p, merges) : Rank(p, x, merges) = r
    BY <1>2, <1>3, PresentIsRanked
  <2>3. Ready(p, merges, r, Len(p))
    BY <1>9, <1>10, <2>1
  <2>4. x >= Len(p) /\ x \in 1 .. Len(p) - 1
    BY <1>2, <2>2, <2>3, RankedTypes DEF Ready
  <2> QED
    BY <1>2, <2>4 DEF n
<1> QED
  BY <1>5, <1>11, <1>12 DEF p, M

(* Each iteration that merges leaves a part less, so that Len(word) of them *)
(* are enough. *)
LEMMA LoopEnds ==
  ASSUME NEW merges, NEW word \in Seq(Chars), Table(merges)
  PROVE  /\ Ranked(Bpe(word, merges), merges) = {}
         /\ \A n \in Nat : n >= Len(word) => Merged(word, merges)[n] = Bpe(word, merges)
<1> DEFINE M == Merged(word, merges)
           L == Len(word)
           N == {n \in Nat : Ranked(M[n], merges) = {} \/ Len(M[n]) = L - n}
<1>1. /\ \A n \in Nat : M[n] \in Seq(Part)
      /\ M[0] = Characters(word)
      /\ \A n \in Nat : M[n + 1] = Iteration(M[n], merges)
  BY MergedUnfolds
<1>2. L \in Nat /\ Len(M[0]) = L
  BY <1>1, CharactersType
<1>3. Bpe(word, merges) = M[L]
  BY DEF Bpe
<1> HIDE DEF M, L
<1>4. \A n \in Nat : Ranked(M[n], merges) = {} => M[n + 1] = M[n]
  BY <1>1 DEF Iteration
<1>5. 0 \in N
  BY <1>2
<1>6. ASSUME NEW n \in N PROVE n + 1 \in N
  <2>1. n \in Nat /\ n + 1 \in Nat
    OBVIOUS
  <2>2. CASE Ranked(M[n], merges) = {}
    BY <1>4, <2>1, <2>2
  <2>3. CASE Ranked(M[n], merges) # {}
    <3>1. Len(M[n]) = L - n
      BY <2>3
    <3>2. Len(M[n + 1]) = Len(M[n]) - 1
      BY <1>1, <2>1, <2>3, IterationType
    <3>3. Len(M[n + 1]) = L - (n + 1)
      BY <1>2, <2>1, <3>1, <3>2
    <3> QED
      BY <2>1, <3>3
  <2> QED
    BY <2>2, <2>3
<1>7. N \in SUBSET Nat
  OBVIOUS
<1>8. Ranked(M[L], merges) = {}
  <2> HIDE DEF N
  <2>1. N = Nat
    BY <1>5, <1>6, <1>7, AllNaturals
  <2>2. Ranked(M[L], merges) = {} \/ Len(M[L]) = L - L
    BY <1>2, <2>1 DEF N
  <2>3. Len(M[L]) = 0 => Ranked(M[L], merges) = {}
    BY DEF Ranked
  <2> QED
    BY <1>2, <2>2, <2>3
<1> DEFINE D == {n \in Nat : M[L + n] = M[L]}
<1>9. D = Nat
  <2>1. 0 \in D
    BY <1>2
  <2>2. ASSUME NEW n \in D PROVE n + 1 \in D
    <3>1. n \in Nat /\ L + n \in Nat /\ M[L + n] = M[L] /\ L + (n + 1) = (L + n) + 1
      BY <1>2
    <3>2. M[(L + n) + 1] = M[L + n]
      BY <1>4, <1>8, <3>1
    <3>3. M[L + (n + 1)] = M[L]
      BY <3>1, <3>2
    <3> QED
      BY <3>1, <3>3
  <2>3. D \in SUBSET Nat
    OBVIOUS
  <2> HIDE DEF D
  <2> QED
    BY <2>1, <2>2, <2>3, AllNaturals
<1>10. ASSUME NEW n \in Nat, n >= L PROVE M[n] = M[L]
  <2>1. n - L \in Nat /\ L + (n - L) = n
    BY <1>2, <1>10
  <2>2. n - L \in D
    BY <1>9, <2>1
  <2> QED
    BY <2>1, <2>2
<1> QED
  BY <1>3, <1>8, <1>10 DEF M, L

(* A pass turns parts into parts. *)
LEMMA PassType ==
  ASSUME NEW merges, Table(merges), NEW parts \in Seq(Part)
  PROVE  Pass(parts, merges) \in Seq(Part)
<1>1. CASE Present(parts, merges) = {}
  BY <1>1 DEF Pass
<1>2. CASE Present(parts, merges) # {}
  <2> DEFINE r == Min(Present(parts, merges))
             O == Scanned(parts, merges[r][1], merges[r][2])
  <2>1. Pass(parts, merges) = O[Len(parts)]
    BY <1>2 DEF Pass, MergeAll
  <2>2. Present(parts, merges) \in SUBSET Nat
    BY PresentIsRanked, TableTypes
  <2>3. r \in Present(parts, merges)
    BY <1>2, <2>2, LeastIs
  <2>4. merges[r][1] \in Part /\ merges[r][2] \in Part
    BY <2>3, PresentIsRanked, TableTypes
  <2>5. Len(parts) \in 0 .. Len(parts)
    OBVIOUS
  <2> HIDE DEF r
  <2>6. O[Len(parts)] \in Seq(Part)
    BY <2>4, <2>5, ScannedUnfolds
  <2> QED
    BY <2>1, <2>6
<1> QED
  BY <1>1, <1>2

(* The published algorithm runs pass by pass. *)
LEMMA PassesUnfold ==
  ASSUME NEW merges, NEW word \in Seq(Chars), Table(merges)
  PROVE  /\ Passes(word, merges) \in [Nat -> Seq(Part)]
         /\ Passes(word, merges)[0] = Characters(word)
         /\ \A n \in Nat : Passes(word, merges)[n + 1] = Pass(Passes(word, merges)[n], merges)
<1> DEFINE V == Seq(Part)
           F == [x \in Nat \X V |-> Pass(x[2], merges)]
           base == Characters(word)
           Solves(f) == f = [n \in Nat |-> IF n = 0 THEN base ELSE Pass(f[n - 1], merges)]
           M == Passes(word, merges)
<1>1. F \in [Nat \X V -> V]
  <2>1. \A x \in Nat \X V : x[2] \in V
    OBVIOUS
  <2>2. \A x \in Nat \X V : Pass(x[2], merges) \in V
    BY <2>1, PassType
  <2> QED
    BY <2>2
<1>2. base \in V
  BY CharactersType
<1>3. \A n \in Nat, p \in V : F[<<n, p>>] = Pass(p, merges)
  OBVIOUS
<1> HIDE DEF V, F, base
<1>4. PICK f : Recursion(f, V, F, base)
  BY <1>1, <1>2, RecursionExists
<1>5. \A n \in Nat : n # 0 => F[<<n, f[n - 1]>>] = Pass(f[n - 1], merges)
  <2>1. \A n \in Nat : n # 0 => n - 1 \in Nat
    OBVIOUS
  <2>2. \A n \in Nat : n # 0 => f[n - 1] \in V
    BY <1>4, <2>1 DEF Recursion
  <2> QED
    BY <1>3, <2>2
<1>6. Solves(f)
  <2>1. [n \in Nat |-> IF n = 0 THEN base ELSE F[<<n, f[n - 1]>>]]
          = [n \in Nat |-> IF n = 0 THEN base ELSE Pass(f[n - 1], merges)]
    BY <1>5
  <2> QED
    BY <1>4, <2>1 DEF Recursion
<1>7. M = CHOOSE g : Solves(g)
  BY DEF Passes, base
<1>8. Solves(M)
  <2> HIDE DEF Solves, M
  <2> QED
    BY <1>6, <1>7
<1> HIDE DEF M
<1>9. M[0] = base /\ \A n \in Nat : M[n + 1] = Pass(M[n], merges)
  <2>1. \A n \in Nat : M[n] = IF n = 0 THEN base ELSE Pass(M[n - 1], merges)
    BY <1>8
  <2>2. ASSUME NEW n \in Nat PROVE M[n + 1] = Pass(M[n], merges)
    <3>1. n + 1 \in Nat /\ n + 1 # 0 /\ (n + 1) - 1 = n
      OBVIOUS
    <3> QED
      BY <2>1, <3>1
  <2> QED
    BY <2>1, <2>2
<1>10. M \in [Nat -> V]
  <2> DEFINE N == {n \in Nat : M[n] \in V}
  <2>1. 0 \in N
    BY <1>2, <1>9
  <2>2. ASSUME NEW n \in N PROVE n + 1 \in N
    <3>1. n \in Nat /\ M[n] \in V
      OBVIOUS
    <3>2. Pass(M[n], merges) \in V
      BY <3>1, PassType DEF V
    <3>3. M[n + 1] = Pass(M[n], merges)
      BY <1>9, <3>1
    <3>4. n + 1 \in Nat
      BY <3>1
    <3> QED
      BY <3>2, <3>3, <3>4
  <2>3. N \in SUBSET Nat
    OBVIOUS
  <2> HIDE DEF N
  <2>4. N = Nat
    BY <2>1, <2>2, <2>3, AllNaturals
  <2>5. \A n \in Nat : M[n] \in V
    BY <2>4 DEF N
  <2>6. M = [n \in Nat |-> IF n = 0 THEN base ELSE Pass(M[n - 1], merges)]
    BY <1>8
  <2>7. DOMAIN M = Nat /\ M = [n \in Nat |-> M[n]]
    BY <2>6
  <2> QED
    BY <2>5, <2>7
<1> QED
  BY <1>9, <1>10 DEF V, M, base

(* After n passes the parts are those of n iterations or more. *)
LEMMA PassesAreIterations ==
  ASSUME NEW merges, NEW word \in Seq(Chars), Table(merges)
  PROVE  \A n \in Nat : \E m \in Nat : m >= n /\ Passes(word, merges)[n] = Merged(word, merges)[m]
<1> DEFINE M == Merged(word, merges)
           P == Passes(word, merges)
           N == {n \in Nat : \E m \in Nat : m >= n /\ P[n] = M[m]}
<1>1. /\ \A n \in Nat : M[n] \in Seq(Part)
      /\ M[0] = Characters(word)
      /\ \A n \in Nat : M[n + 1] = Iteration(M[n], merges)
  BY MergedUnfolds
<1>2. P[0] = Characters(word) /\ \A n \in Nat : P[n + 1] = Pass(P[n], merges)
  BY PassesUnfold
<1>3. \A k \in Nat : Present(M[k], merges) # {} => \E m \in Nat : m > k /\ Pass(M[k], merges) = M[m]
  BY PassIsIterations
<1> HIDE DEF M, P
<1>4. 0 \in N
  BY <1>1, <1>2
<1>5. ASSUME NEW n \in N PROVE n + 1 \in N
  <2>1. n \in Nat /\ n + 1 \in Nat
    OBVIOUS
  <2>2. PICK k \in Nat : k >= n /\ P[n] = M[k]
    OBVIOUS
  <2>3. P[n + 1] = Pass(M[k], merges)
    BY <1>2, <2>1, <2>2
  <2>4. CASE Present(M[k], merges) = {}
    <3>1. Ranked(M[k], merges) = {}
      BY <1>1, <2>4, PresentIsRanked
    <3>2. M[k + 1] = M[k] /\ Pass(M[k], merges) = M[k]
      BY <1>1, <2>4, <3>1 DEF Iteration, Pass
    <3>3. P[n + 1] = M[k + 1] /\ k + 1 \in Nat /\ k + 1 >= n + 1
      BY <2>1, <2>2, <2>3, <3>2
    <3> QED
      BY <2>1, <3>3
  <2>5. CASE Present(M[k], merges) # {}
    <3>1. PICK m \in Nat : m > k /\ Pass(M[k], merges) = M[m]
      BY <1>3, <2>5
    <3>2. P[n + 1] = M[m] /\ m >= n + 1
      BY <2>1, <2>2, <2>3, <3>1
    <3> QED
      BY <2>1, <3>2
  <2> QED
    BY <2>4, <2>5
<1>6. N \in SUBSET Nat
  OBVIOUS
<1>7. N = Nat
  <2> HIDE DEF N
  <2> QED
    BY <1>4, <1>5, <1>6, AllNaturals
<1>8. \A n \in Nat : \E m \in Nat : m >= n /\ P[n] = M[m]
  BY <1>7
<1> QED
  BY <1>8 DEF M, P

-----------------------------------------------------------------------------
(* The loop gives the tokens of the published algorithm, for any alphabet, *)
(* any table in which no two merges make the same token, and any word.     *)
THEOREM BpeIsPublished ==
  ASSUME NEW merges, NEW word \in Seq(Chars), Table(merges)
  PROVE  MergesAsTrained(word, merges)
<1>1. Len(word) \in Nat
  OBVIOUS
<1>2. PICK m \in Nat : m >= Len(word) /\ Passes(word, merges)[Len(word)] = Merged(word, merges)[m]
  BY <1>1, PassesAreIterations
<1>3. Merged(word, merges)[m] = Bpe(word, merges)
  BY <1>2, LoopEnds
<1> QED
  BY <1>2, <1>3 DEF MergesAsTrained, MergedByPair

(* The loop stops only when no pair of neighbours is in the table, within  *)
(* as many iterations as the word has characters.                          *)
THEOREM BpeIsComplete ==
  ASSUME NEW merges, NEW word \in Seq(Chars), Table(merges)
  PROVE  Ranked(Bpe(word, merges), merges) = {}
BY LoopEnds

(* What the decode loops are given is tokenized as it was trained.         *)
THEOREM TextIsTokenized == Spec => []BpeMatchesReference
<1>1. BpeMatchesReference
  <2> SUFFICES ASSUME NEW merges \in MergeTables, NEW word \in Words
               PROVE  MergesAsTrained(word, merges)
    BY DEF BpeMatchesReference
  <2>1. word \in Seq(Chars) /\ Table(merges)
    BY TokenizerInputs DEF TokenizerInputs, Table
  <2> QED
    BY <2>1, BpeIsPublished
<1> QED
  BY <1>1, PTL
=============================================================================
