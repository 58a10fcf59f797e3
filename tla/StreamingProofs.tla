-------------------------- MODULE StreamingProofs ---------------------------
(***************************************************************************)
(* Proofs about Streaming, for any chunk sizes, voices, numbers of tokens  *)
(* and positions of the special tokens among them.                         *)
(***************************************************************************)
EXTENDS Streaming, FiniteSetTheorems, SequenceTheorems, WellFoundedInduction, TLAPS

-----------------------------------------------------------------------------
(* Numbers and sets. *)

(* Min is the least element of a set of naturals. *)
LEMMA MinIsLeast ==
  ASSUME NEW S \in SUBSET Nat, S # {}
  PROVE  Min(S) \in S /\ \A y \in S : Min(S) <= y
<1>1. PICK x \in S : \A y \in S : ~(<<y, x>> \in OpToRel(<, Nat))
  BY WFMin, NatLessThanWellFounded
<1>2. \A y \in S : ~(y < x)
  BY <1>1 DEF OpToRel
<1>3. \A y \in S : x <= y
  BY <1>2
<1> QED
  BY <1>3 DEF Min

(* Max is the greatest element of a bounded set of naturals. *)
LEMMA MaxIsGreatest ==
  ASSUME NEW n \in Nat, NEW S \in SUBSET (0 .. n), S # {}
  PROVE  Max(S) \in S /\ \A y \in S : y <= Max(S)
<1> DEFINE T == {n - x : x \in S}
<1>1. T \in SUBSET Nat /\ T # {}
  <2>1. \A x \in S : n - x \in Nat
    OBVIOUS
  <2> QED
    BY <2>1
<1>2. Min(T) \in T /\ \A z \in T : Min(T) <= z
  BY <1>1, MinIsLeast
<1>3. PICK x \in S : Min(T) = n - x
  BY <1>2
<1>4. \A y \in S : n - x <= n - y
  BY <1>2, <1>3
<1>5. \A y \in S : x >= y
  BY <1>4
<1> QED
  BY <1>5 DEF Max

(* Of the tokens of a longer prefix no fewer are special, and no more are  *)
(* than it has more tokens.                                                *)
LEMMA SpecialsOfPrefix ==
  ASSUME NEW S, NEW a \in Nat, NEW b \in Nat, a <= b
  PROVE  /\ Cardinality(S \cap 1 .. a) \in Nat
         /\ Cardinality(S \cap 1 .. b) \in Nat
         /\ Cardinality(S \cap 1 .. b) <= Cardinality(S \cap 1 .. a) + (b - a)
<1> DEFINE A == S \cap 1 .. a
           R == S \cap (a + 1) .. b
<1>1. IsFiniteSet(1 .. a) /\ IsFiniteSet((a + 1) .. b) /\ Cardinality((a + 1) .. b) = b - a
  <2>1. IsFiniteSet(1 .. a)
    BY FS_Interval
  <2>2. a + 1 \in Int /\ b \in Int
    OBVIOUS
  <2>3. /\ IsFiniteSet((a + 1) .. b)
        /\ Cardinality((a + 1) .. b) = IF a + 1 > b THEN 0 ELSE b - (a + 1) + 1
    BY <2>2, FS_Interval
  <2> QED
    BY <2>1, <2>3
<1>2. IsFiniteSet(A) /\ Cardinality(A) \in Nat
  BY <1>1, FS_Intersection, FS_CardinalityType
<1>3. IsFiniteSet(R) /\ Cardinality(R) \in Nat /\ Cardinality(R) <= b - a
  BY <1>1, FS_Intersection, FS_CardinalityType
<1>4. S \cap 1 .. b = A \cup R /\ A \cap R = {}
  OBVIOUS
<1> HIDE DEF A, R
<1>5. Cardinality(A \cup R) = Cardinality(A) + Cardinality(R) - Cardinality(A \cap R)
  BY <1>2, <1>3, FS_Union
<1>6. Cardinality(A \cap R) = 0
  BY <1>4, FS_EmptySet
<1>7. Cardinality(A \cup R) = Cardinality(A) + Cardinality(R)
  BY <1>2, <1>3, <1>5, <1>6
<1>8. Cardinality(S \cap 1 .. b) = Cardinality(A) + Cardinality(R)
  BY <1>4, <1>7
<1>9. Cardinality(S \cap 1 .. a) = Cardinality(A)
  BY DEF A
<1> QED
  BY <1>2, <1>3, <1>8, <1>9

(* Frames(a, b) is a sequence of b - a frames. *)
LEMMA FramesType ==
  ASSUME NEW a \in Nat, NEW b \in Nat, a <= b
  PROVE  /\ Frames(a, b) \in Seq(Nat)
         /\ Len(Frames(a, b)) = b - a
         /\ \A j \in 1 .. b - a : Frames(a, b)[j] = a + j
<1>1. b - a \in Nat /\ \A j \in 1 .. b - a : a + j \in Nat
  OBVIOUS
<1> QED
  BY <1>1 DEF Frames

(* Adjacent pieces join. *)
LEMMA FramesJoin ==
  ASSUME NEW a \in Nat, NEW b \in Nat, a <= b
  PROVE  Frames(0, a) \o Frames(a, b) = Frames(0, b)
<1>1. /\ Frames(0, a) \in Seq(Nat) /\ Len(Frames(0, a)) = a
      /\ \A j \in 1 .. a : Frames(0, a)[j] = j
  BY FramesType
<1>2. /\ Frames(a, b) \in Seq(Nat) /\ Len(Frames(a, b)) = b - a
      /\ \A j \in 1 .. b - a : Frames(a, b)[j] = a + j
  BY FramesType
<1>3. /\ Frames(0, b) \in Seq(Nat) /\ Len(Frames(0, b)) = b
      /\ \A j \in 1 .. b : Frames(0, b)[j] = j
  BY FramesType
<1>4. /\ Frames(0, a) \o Frames(a, b) \in Seq(Nat)
      /\ Len(Frames(0, a) \o Frames(a, b)) = b
  <2>1. a + (b - a) = b
    OBVIOUS
  <2> QED
    BY <1>1, <1>2, <2>1, ConcatProperties
<1>5. \A j \in 1 .. b : (Frames(0, a) \o Frames(a, b))[j] = j
  BY <1>1, <1>2
<1> QED
  BY <1>3, <1>4, <1>5, SeqEqual

-----------------------------------------------------------------------------
(* The plan and the lengths. *)

(* The cuts lie within the utterance and end with it. *)
LEMMA PlanCuts ==
  ASSUME NEW n \in Nat, n > 0, chunkN \in Nat, firstN \in Nat
  PROVE  Boundaries(n) \subseteq 0 .. n /\ n \in Boundaries(n)
<1> DEFINE cuts  == {0, n} \cup {Min({First + j * chunkN, n}) : j \in 0 .. n}
           inner == cuts \ {0, n}
<1>1. \A j \in 0 .. n : Min({First + j * chunkN, n}) \in 0 .. n
  <2> TAKE j \in 0 .. n
  <2>1. First \in Nat
    BY DEF First
  <2>2. j * chunkN \in Nat
    OBVIOUS
  <2>3. First + j * chunkN \in Nat
    BY <2>1, <2>2
  <2> DEFINE x == First + j * chunkN
  <2> HIDE DEF x
  <2>4. x \in Nat
    BY <2>3 DEF x
  <2>5. Min({x, n}) \in {x, n} /\ \A y \in {x, n} : Min({x, n}) <= y
    BY <2>4, MinIsLeast
  <2>6. Min({x, n}) \in 0 .. n
    BY <2>4, <2>5
  <2> QED
    BY <2>6 DEF x
<1>2. cuts \subseteq 0 .. n /\ n \in cuts
  <2>1. 0 \in 0 .. n /\ n \in 0 .. n
    OBVIOUS
  <2>2. {Min({First + j * chunkN, n}) : j \in 0 .. n} \subseteq 0 .. n
    BY <1>1, Zenon
  <2> QED
    BY <2>1, <2>2, Zenon
<1>3. inner # {} => Max(inner) \in inner
  <2>1. inner \in SUBSET (0 .. n)
    BY <1>2
  <2> HIDE DEF inner
  <2> QED
    BY <2>1, MaxIsGreatest
<1>4. inner # {} => Max(inner) # n
  BY <1>3
<1>5. Boundaries(n) = IF inner # {} /\ n - Max(inner) < MinTail THEN cuts \ {Max(inner)} ELSE cuts
  BY DEF Boundaries
<1> HIDE DEF cuts, inner
<1> QED
  BY <1>2, <1>4, <1>5

(* Chunks of at least 6 tokens are at least as long as a tail may be. *)
LEMMA TailFits ==
  ASSUME chunkN \in Nat
  PROVE  MinTail \in Nat /\ (chunkN >= 6 => MinTail <= chunkN)
<1> DEFINE T == {6, chunkN \div 3}
<1>1. chunkN \div 3 \in 0 .. chunkN
  OBVIOUS
<1>2. T \in SUBSET (0 .. chunkN + 6)
  BY <1>1
<1> HIDE DEF T
<1>3. T # {}
  BY DEF T
<1>5. chunkN + 6 \in Nat
  OBVIOUS
<1>4. Max(T) \in T
  BY <1>2, <1>3, <1>5, MaxIsGreatest
<1> QED
  BY <1>1, <1>4 DEF MinTail, T

(* Different multiples are a chunk apart. *)
LEMMA MultiplesApart ==
  ASSUME NEW c \in Nat, NEW i \in Nat, NEW j \in Nat, NEW f \in Nat, f + i * c < f + j * c
  PROVE  (f + j * c) - (f + i * c) >= c
<1>1. i * c \in Nat /\ j * c \in Nat
  OBVIOUS
<1>2. ~(j <= i)
  <2> SUFFICES ASSUME j <= i PROVE FALSE
    OBVIOUS
  <2>1. i - j \in Nat /\ (i - j) * c \in Nat
    OBVIOUS
  <2>2. i * c = j * c + (i - j) * c
    OBVIOUS
  <2> QED
    BY <1>1, <2>1, <2>2
<1>3. j - i - 1 \in Nat
  BY <1>2
<1>4. (j - i - 1) * c \in Nat
  BY <1>3
<1>5. j * c = i * c + c + (j - i - 1) * c
  OBVIOUS
<1> QED
  BY <1>1, <1>4, <1>5

(* No inner cut comes before the first chunk is full, no two are closer    *)
(* than a chunk, and the merge leaves no tiny tail.                        *)
LEMMA PlanGaps ==
  ASSUME NEW n \in Nat, n > 0, chunkN \in Nat, firstN \in Nat
  PROVE  \A b \in Boundaries(n) :
            0 < b /\ b < n =>
               /\ b >= First
               /\ \A a \in Boundaries(n) : 0 < a /\ a < b => b - a >= chunkN
               /\ chunkN >= 6 => n - b >= MinTail
<1> DEFINE cuts  == {0, n} \cup {Min({First + j * chunkN, n}) : j \in 0 .. n}
           inner == cuts \ {0, n}
<1>1. First \in Nat
  BY DEF First
<1>2. \A b \in inner : b \in Nat /\ 0 < b /\ b < n /\ \E j \in Nat : b = First + j * chunkN
  <2> TAKE b \in inner
  <2>1. PICK j \in 0 .. n : b = Min({First + j * chunkN, n})
    OBVIOUS
  <2>2. First + j * chunkN \in Nat
    <3>1. j * chunkN \in Nat
      OBVIOUS
    <3> QED
      BY <1>1, <3>1
  <2> DEFINE x == First + j * chunkN
  <2> HIDE DEF x
  <2>3. x \in Nat
    BY <2>2 DEF x
  <2>4. Min({x, n}) \in {x, n} /\ \A y \in {x, n} : Min({x, n}) <= y
    BY <2>3, MinIsLeast
  <2>5. b = Min({x, n})
    BY <2>1 DEF x
  <2>6. b # 0 /\ b # n
    OBVIOUS
  <2>7. b = x /\ b < n /\ b \in Nat /\ 0 < b
    BY <2>3, <2>4, <2>5, <2>6
  <2> QED
    BY <2>7 DEF x
<1>3. \A b \in cuts : 0 < b /\ b < n => b \in inner
  <2> HIDE DEF cuts
  <2> TAKE b \in cuts
  <2> HAVE 0 < b /\ b < n
  <2>1. b # 0 /\ b # n
    OBVIOUS
  <2> QED
    BY <2>1
<1>4. \A b \in inner : b >= First
  <2> TAKE b \in inner
  <2>1. PICK j \in Nat : b = First + j * chunkN
    BY <1>2
  <2> DEFINE x == j * chunkN
  <2>2. x \in Nat
    OBVIOUS
  <2>3. b = First + x
    BY <2>1
  <2> HIDE DEF x
  <2> QED
    BY <1>1, <2>2, <2>3
<1>5. \A a, b \in inner : a < b => b - a >= chunkN
  <2> SUFFICES ASSUME NEW a \in inner, NEW b \in inner, a < b PROVE b - a >= chunkN
    OBVIOUS
  <2>1. PICK i \in Nat : a = First + i * chunkN
    BY <1>2
  <2>2. PICK j \in Nat : b = First + j * chunkN
    BY <1>2
  <2>3. (First + j * chunkN) - (First + i * chunkN) >= chunkN
    <3>1. First + i * chunkN < First + j * chunkN
      BY <2>1, <2>2
    <3> HIDE DEF inner
    <3> QED
      BY <1>1, <3>1, MultiplesApart
  <2> DEFINE x == First + i * chunkN
             y == First + j * chunkN
  <2>4. a = x /\ b = y /\ y - x >= chunkN
    BY <2>1, <2>2, <2>3
  <2> HIDE DEF x, y, inner
  <2> QED
    BY <2>4
<1>6. inner # {} => Max(inner) \in inner /\ \A y \in inner : y <= Max(inner)
  <2> HIDE DEF inner
  <2>1. \A b \in inner : b \in 0 .. n
    BY <1>2
  <2>2. inner \in SUBSET (0 .. n)
    BY <2>1
  <2> QED
    BY <2>2, MaxIsGreatest
<1>7. Boundaries(n) = IF inner # {} /\ n - Max(inner) < MinTail THEN cuts \ {Max(inner)} ELSE cuts
  BY DEF Boundaries
<1>8. Boundaries(n) \subseteq cuts
  BY <1>7
<1>11. Boundaries(n) \subseteq 0 .. n
  BY PlanCuts
<1> HIDE DEF cuts, inner
<1>9. \A b \in Boundaries(n) : 0 < b /\ b < n => b \in inner
  BY <1>3, <1>8
<1>10. ASSUME NEW b \in Boundaries(n), b \in inner, chunkN >= 6
       PROVE  n - b >= MinTail
  <2>1. b <= Max(inner) /\ Max(inner) \in inner /\ b \in Nat /\ Max(inner) \in Nat /\ Max(inner) < n
    BY <1>2, <1>6, <1>10
  <2>2. MinTail \in Nat /\ MinTail <= chunkN
    BY <1>10, TailFits
  <2>3. CASE n - Max(inner) < MinTail
    <3>1. b # Max(inner)
      BY <1>7, <1>10, <2>3
    <3>2. Max(inner) - b >= chunkN
      BY <1>5, <1>10, <2>1, <3>1
    <3> QED
      BY <2>1, <2>2, <3>2
  <2>4. CASE ~(n - Max(inner) < MinTail)
    BY <2>1, <2>2, <2>4
  <2> QED
    BY <2>3, <2>4
<1> QED
  <2> TAKE b \in Boundaries(n)
  <2> HAVE 0 < b /\ b < n
  <2>1. b \in inner /\ b >= First
    BY <1>4, <1>9
  <2>2. ASSUME NEW a \in Boundaries(n), 0 < a, a < b PROVE b - a >= chunkN
    <3>1. a < n
      BY <1>2, <1>11, <2>1, <2>2
    <3>2. a \in inner
      BY <1>9, <2>2, <3>1
    <3> QED
      BY <1>5, <2>1, <2>2, <3>2
  <2> QED
    BY <1>10, <2>1, <2>2

(* The cuts are numbers. *)
LEMMA TotalType ==
  ASSUME TypeOK
  PROVE  /\ Total(speech) \in Nat /\ Total(speech) > 0 /\ Total(speech) <= MaxTotal
         /\ MaxTotal \in Nat /\ at \in Nat /\ at <= MaxTotal
<1>1. MaxTokens \in Nat /\ MaxTotal = MaxTokens + 3
  BY StreamingAssumption DEF StreamingAssumption, MaxTotal, Lookahead
<1>2. speech.n \in 0 .. MaxTokens /\ Total(speech) = speech.n + 3
  BY DEF TypeOK, Total, Lookahead
<1>3. at \in 0 .. MaxTotal
  <2>1. 0 \in 0 .. MaxTotal
    BY <1>1
  <2> QED
    BY <2>1 DEF TypeOK
<1> QED
  BY <1>1, <1>2, <1>3

(* The next cut lies ahead, and not beyond the utterance. *)
LEMMA EndIsNextCut ==
  ASSUME TypeOK, Total(speech) \in boundaries, boundaries \subseteq 0 .. Total(speech),
         at < Total(speech)
  PROVE  /\ End \in boundaries
         /\ End \in Nat /\ at < End /\ End <= Total(speech)
<1>1. Total(speech) \in Nat /\ at \in Nat
  BY TotalType
<1> DEFINE S == {b \in boundaries : b > at}
<1>2. S \in SUBSET Nat /\ Total(speech) \in S
  <2>1. boundaries \in SUBSET Nat
    BY <1>1
  <2> QED
    BY <1>1, <2>1
<1>3. Min(S) \in S
  BY <1>2, MinIsLeast
<1>4. End = Min(S)
  BY DEF End
<1> HIDE DEF S
<1>5. End \in boundaries /\ End > at
  BY <1>3, <1>4 DEF S
<1>6. End \in 0 .. Total(speech)
  BY <1>5
<1> QED
  BY <1>1, <1>5, <1>6

(* The lengths S3Gen computes are integers, and a longer prefix has no     *)
(* fewer frames.                                                           *)
LEMMA EncoderGrows ==
  ASSUME TypeOK, NEW a \in Nat, NEW b \in Nat, a <= b
  PROVE  /\ EncoderFrames(a) \in Int /\ EncoderFrames(b) \in Int
         /\ EncoderFrames(a) <= EncoderFrames(b)
<1>1. prompt.tokens \in Nat
  BY StreamingAssumption DEF TypeOK, StreamingAssumption
<1> DEFINE ca == Cardinality(speech.special \cap 1 .. a)
           cb == Cardinality(speech.special \cap 1 .. b)
<1>2. ca \in Nat /\ cb \in Nat /\ cb <= ca + (b - a)
  BY SpecialsOfPrefix
<1>3. EncoderFrames(a) = 2 * (prompt.tokens + a - ca) /\ EncoderFrames(b) = 2 * (prompt.tokens + b - cb)
  BY DEF EncoderFrames
<1> HIDE DEF ca, cb
<1> QED
  BY <1>1, <1>2, <1>3

(* What a call is asked for is there, unless it refuses. *)
LEMMA MelType ==
  ASSUME TypeOK, NEW e \in Nat, NEW f \in BOOLEAN
  PROVE  /\ MuFrames(e, f) \in Int /\ MelFrames(e, f) \in Int
         /\ \A skip \in Nat : ~Refused(e, f, skip) => skip <= MelFrames(e, f)
<1>1. EncoderFrames(e) \in Int
  BY EncoderGrows
<1>2. prompt.frames \in Nat
  BY StreamingAssumption DEF TypeOK, StreamingAssumption
<1> QED
  BY <1>1, <1>2 DEF MuFrames, MelFrames, Refused, Trim, Lookahead

-----------------------------------------------------------------------------
(* What the callback has received so far. *)

(* One piece of Concat after the other: the graph of its recursion. *)
JoinedUpTo(calls_, m, c) ==
    c = [n \in 0 .. m |-> IF n = 0 THEN <<>> ELSE c[n - 1] \o calls_[n].frames]

(* A recursion over the calls is well defined. *)
LEMMA JoinedExists ==
  ASSUME NEW h, NEW m \in Nat
  PROVE  \E c : JoinedUpTo(h, m, c)
<1> DEFINE S == {i \in Nat : ~\E c : JoinedUpTo(h, i, c)}
<1> SUFFICES ASSUME S # {} PROVE FALSE
  OBVIOUS
<1> DEFINE i == Min(S)
<1>1. i \in Nat /\ ~(\E c : JoinedUpTo(h, i, c)) /\ \A j \in S : i <= j
  <2>1. S \in SUBSET Nat
    OBVIOUS
  <2> HIDE DEF S
  <2>2. i \in S /\ \A j \in S : i <= j
    BY <2>1, MinIsLeast
  <2> QED
    BY <2>2 DEF S
<1>2. i # 0
  <2> DEFINE c == [n \in 0 .. 0 |-> <<>>]
  <2>1. c = [n \in 0 .. 0 |-> IF n = 0 THEN <<>> ELSE c[n - 1] \o h[n].frames]
    OBVIOUS
  <2>2. JoinedUpTo(h, 0, c)
    BY <2>1 DEF JoinedUpTo
  <2> QED
    BY <1>1, <2>2
<1>3. PICK c : JoinedUpTo(h, i - 1, c)
  <2>1. i - 1 \in Nat /\ ~(i <= i - 1)
    BY <1>1, <1>2
  <2> HIDE DEF i
  <2>2. i - 1 \notin S
    BY <1>1, <2>1
  <2> QED
    BY <2>1, <2>2
<1> HIDE DEF i
<1> DEFINE d == [n \in 0 .. i |-> IF n = i THEN c[i - 1] \o h[i].frames ELSE c[n]]
<1>4. ASSUME NEW n \in 0 .. i PROVE d[n] = IF n = 0 THEN <<>> ELSE d[n - 1] \o h[n].frames
  <2>1. n = i \/ n \in 0 .. i - 1
    BY <1>1
  <2>2. CASE n = i
    <3>1. i - 1 \in 0 .. i /\ i - 1 # i
      BY <1>1, <1>2
    <3>2. d[i - 1] = c[i - 1]
      BY <3>1
    <3> QED
      BY <1>2, <2>2, <3>2
  <2>3. CASE n \in 0 .. i - 1
    <3>1. n # i /\ (n # 0 => n - 1 \in 0 .. i /\ n - 1 # i)
      BY <1>1, <2>3
    <3>2. d[n] = c[n] /\ (n # 0 => d[n - 1] = c[n - 1])
      BY <3>1
    <3>3. c[n] = IF n = 0 THEN <<>> ELSE c[n - 1] \o h[n].frames
      <4> HIDE DEF d
      <4>1. c = [x \in 0 .. i - 1 |-> IF x = 0 THEN <<>> ELSE c[x - 1] \o h[x].frames]
        BY <1>3 DEF JoinedUpTo
      <4> QED
        BY <2>3, <4>1
    <3> QED
      BY <3>2, <3>3
  <2> QED
    BY <2>1, <2>2, <2>3
<1>5. JoinedUpTo(h, i, d)
  <2>1. d = [n \in 0 .. i |-> d[n]]
    OBVIOUS
  <2> HIDE DEF d
  <2>2. [n \in 0 .. i |-> d[n]] = [n \in 0 .. i |-> IF n = 0 THEN <<>> ELSE d[n - 1] \o h[n].frames]
    BY <1>4
  <2> QED
    BY <2>1, <2>2 DEF JoinedUpTo
<1> QED
  BY <1>1, <1>5

(* Two recursions over the same calls agree as far as both go. *)
LEMMA JoinedAgree ==
  ASSUME NEW h, NEW g, NEW c, NEW d, NEW m \in Nat, NEW l \in Nat, m <= l,
         \A n \in 1 .. m : h[n].frames = g[n].frames,
         JoinedUpTo(h, m, c), JoinedUpTo(g, l, d)
  PROVE  c[m] = d[m]
<1> DEFINE S == {n \in 0 .. m : c[n] # d[n]}
<1>1. \A n \in 0 .. m : c[n] = IF n = 0 THEN <<>> ELSE c[n - 1] \o h[n].frames
  <2>1. c = [n \in 0 .. m |-> IF n = 0 THEN <<>> ELSE c[n - 1] \o h[n].frames]
    BY DEF JoinedUpTo
  <2> QED
    BY <2>1
<1>2. \A n \in 0 .. l : d[n] = IF n = 0 THEN <<>> ELSE d[n - 1] \o g[n].frames
  <2>1. d = [n \in 0 .. l |-> IF n = 0 THEN <<>> ELSE d[n - 1] \o g[n].frames]
    BY DEF JoinedUpTo
  <2> QED
    BY <2>1
<1>3. S = {}
  <2> SUFFICES ASSUME S # {} PROVE FALSE
    OBVIOUS
  <2> DEFINE i == Min(S)
  <2>1. i \in 0 .. m /\ c[i] # d[i] /\ \A j \in S : i <= j
    <3>1. S \in SUBSET Nat
      OBVIOUS
    <3> HIDE DEF S
    <3>2. i \in S /\ \A j \in S : i <= j
      BY <3>1, MinIsLeast
    <3> QED
      BY <3>2 DEF S
  <2> HIDE DEF i
  <2>2. i \in 0 .. l
    BY <2>1
  <2>3. i # 0
    BY <1>1, <1>2, <2>1, <2>2
  <2>4. i - 1 \in 0 .. m /\ ~(i <= i - 1) /\ i \in 1 .. m
    BY <2>1, <2>3
  <2>5. c[i - 1] = d[i - 1]
    BY <2>1, <2>4
  <2>6. c[i] = c[i - 1] \o h[i].frames /\ d[i] = d[i - 1] \o g[i].frames
    BY <1>1, <1>2, <2>1, <2>2, <2>3
  <2>7. h[i].frames = g[i].frames
    BY <2>4
  <2> QED
    BY <2>1, <2>5, <2>6, <2>7
<1> QED
  BY <1>3

(* Concat is the end of such a recursion. *)
LEMMA ConcatJoins ==
  ASSUME NEW h, Len(h) \in Nat
  PROVE  \E c : JoinedUpTo(h, Len(h), c) /\ Concat(h) = c[Len(h)]
<1> DEFINE c == CHOOSE c : JoinedUpTo(h, Len(h), c)
<1>1. JoinedUpTo(h, Len(h), c)
  BY JoinedExists
<1>2. Concat(h) = c[Len(h)]
  BY DEF Concat, JoinedUpTo
<1> QED
  BY <1>1, <1>2

(* Nothing was heard before the first call, and a call adds its chunk. *)
LEMMA ConcatEmpty == Concat(<<>>) = <<>>
<1>1. Len(<<>>) = 0
  OBVIOUS
<1>2. PICK c : JoinedUpTo(<<>>, 0, c) /\ Concat(<<>>) = c[0]
  BY <1>1, ConcatJoins
<1>3. c = [n \in 0 .. 0 |-> IF n = 0 THEN <<>> ELSE c[n - 1] \o <<>>[n].frames]
  BY <1>2 DEF JoinedUpTo
<1>4. c[0] = <<>>
  BY <1>3
<1> QED
  BY <1>2, <1>4

LEMMA ConcatAppend ==
  ASSUME NEW R, NEW h \in Seq(R), NEW r \in R
  PROVE  Concat(Append(h, r)) = Concat(h) \o r.frames
<1> DEFINE g == Append(h, r)
           m == Len(h)
<1>1. m \in Nat /\ Len(g) = m + 1 /\ g[m + 1] = r /\ \A n \in 1 .. m : g[n] = h[n]
  BY AppendProperties
<1> HIDE DEF g, m
<1>2. PICK c : JoinedUpTo(h, m, c) /\ Concat(h) = c[m]
  BY <1>1, ConcatJoins DEF m
<1>3. m + 1 \in Nat /\ m <= m + 1 /\ m + 1 \in 0 .. m + 1 /\ m + 1 # 0 /\ (m + 1) - 1 = m
  BY <1>1
<1>4. PICK d : JoinedUpTo(g, m + 1, d) /\ Concat(g) = d[m + 1]
  BY <1>1, <1>3, ConcatJoins
<1>5. c[m] = d[m]
  <2>1. \A n \in 1 .. m : h[n].frames = g[n].frames
    BY <1>1
  <2> DEFINE l == m + 1
  <2>2. m \in Nat /\ l \in Nat /\ m <= l
    BY <1>1, <1>3
  <2>3. JoinedUpTo(h, m, c) /\ JoinedUpTo(g, l, d)
    BY <1>2, <1>4
  <2> HIDE DEF l
  <2> QED
    BY <2>1, <2>2, <2>3, JoinedAgree
<1>6. d = [n \in 0 .. m + 1 |-> IF n = 0 THEN <<>> ELSE d[n - 1] \o g[n].frames]
  BY <1>4 DEF JoinedUpTo
<1>7. d[m + 1] = d[m] \o r.frames
  BY <1>1, <1>3, <1>6
<1> QED
  BY <1>2, <1>4, <1>5, <1>7 DEF g

-----------------------------------------------------------------------------
(* Steps. *)

(* A step keeps the flag in agreement with the cancels of this call. *)
LEMMA FlagStep ==
  ASSUME StreamInv, [Next]_vars
  PROVE  FlagIsAsked' /\ CancelIsPrompt' /\ NoStaleCancel'
<1> USE DEF StreamInv, TypeOK, FlagIsAsked, CancelIsPrompt, NoStaleCancel, optVars, planVars, loopVars, histVars
<1>1. CASE Synthesize
  BY <1>1 DEF Synthesize, ClearCancel, NoSpeech
<1>2. CASE T3Throws
  BY <1>2 DEF T3Throws, Leave
<1>3. CASE T3Done
  BY <1>3 DEF T3Done
<1>4. CASE Top
  BY <1>4 DEF Top, Leave
<1>5. CASE Infer
  BY <1>5 DEF Infer, Leave
<1>6. CASE Deliver
  BY <1>6 DEF Deliver, OnChunk
<1>7. CASE DeliverThrows
  BY <1>7 DEF DeliverThrows, OnChunk, Leave
<1>8. CASE Return
  BY <1>8 DEF Return, Leave
<1>9. CASE Batch
  BY <1>9 DEF Batch, Leave
<1>10. CASE Cancel
  BY <1>10 DEF Cancel
<1>11. CASE UNCHANGED vars
  BY <1>11 DEF vars
<1> QED
  BY <1>1, <1>2, <1>3, <1>4, <1>5, <1>6, <1>7, <1>8, <1>9, <1>10, <1>11 DEF Next, Quiet

(* A step keeps to the plan: planned after T3, and walked cut by cut. *)
LEMMA PlanStep ==
  ASSUME StreamInv, [Next]_vars
  PROVE  PlanInv'
<1> USE DEF StreamInv, PlanInv, InLoop, optVars, planVars, loopVars, histVars
<1>1. CASE Synthesize
  BY <1>1 DEF Synthesize, NoSpeech
<1>2. CASE T3Throws
  BY <1>2 DEF T3Throws, Leave
<1>3. CASE T3Done
  <2>1. PICK n \in 0 .. MaxTokens :
           /\ speech'.n = n
           /\ boundaries' = IF chunkN > 0 THEN Boundaries(n + Lookahead) ELSE {}
    BY <1>3 DEF T3Done
  <2>2. chunkN \in Nat /\ firstN \in Nat /\ MaxTokens \in Nat
    BY StreamingAssumption DEF StreamingAssumption, TypeOK
  <2>3. n + Lookahead \in Nat /\ n + Lookahead > 0 /\ Total(speech') = n + Lookahead
    BY <2>1, <2>2 DEF Lookahead, Total
  <2>4. /\ Boundaries(n + Lookahead) \subseteq 0 .. n + Lookahead
        /\ n + Lookahead \in Boundaries(n + Lookahead)
    BY <2>2, <2>3, PlanCuts
  <2>5. chunkN > 0 => Total(speech)' \in boundaries' /\ boundaries' \subseteq 0 .. Total(speech)'
    BY <2>1, <2>3, <2>4
  <2>6. chunkN = 0 \/ chunkN > 0
    BY <2>2
  <2> HIDE DEF Total
  <2> QED
    BY <1>3, <2>5, <2>6 DEF T3Done
<1>4. CASE Top
  BY <1>4 DEF Top, Leave
<1>5. CASE Infer
  BY <1>5 DEF Infer, Leave
<1>6. CASE Deliver
  <2>1. End \in Nat /\ at < End /\ at \in Nat
    BY <1>6, EndIsNextCut, TotalType DEF Deliver
  <2>2. k \in Nat
    BY TotalType DEF TypeOK
  <2> QED
    BY <1>6, <2>1, <2>2 DEF Deliver, OnChunk
<1>7. CASE DeliverThrows
  BY <1>7 DEF DeliverThrows, OnChunk, Leave
<1>8. CASE Return
  BY <1>8 DEF Return, Leave
<1>9. CASE Batch
  BY <1>9 DEF Batch, Leave
<1>10. CASE Cancel
  BY <1>10 DEF Cancel
<1>11. CASE UNCHANGED vars
  BY <1>11 DEF vars
<1> QED
  BY <1>1, <1>2, <1>3, <1>4, <1>5, <1>6, <1>7, <1>8, <1>9, <1>10, <1>11 DEF Next, Quiet

(* A step keeps the cuts apart. *)
LEMMA CutStep ==
  ASSUME StreamInv, [Next]_vars
  PROVE  CutInv'
<1> USE DEF optVars, planVars, loopVars, histVars
<1>1. CASE Synthesize
  <2>1. ~InLoop' /\ speech'.special = {}
    BY <1>1 DEF Synthesize, InLoop, NoSpeech
  <2>2. Cardinality({}) = 0 /\ MaxSpecials \in Nat
    BY FS_EmptySet, StreamingAssumption DEF StreamingAssumption
  <2> QED
    BY <2>1, <2>2 DEF CutInv
<1>2. CASE T3Done
  <2>1. PICK n \in 0 .. MaxTokens :
           /\ speech'.n = n /\ Cardinality(speech'.special) <= MaxSpecials
           /\ boundaries' = IF chunkN > 0 THEN Boundaries(n + Lookahead) ELSE {}
    BY <1>2 DEF T3Done
  <2>2. chunkN \in Nat /\ firstN \in Nat /\ MaxTokens \in Nat
    BY StreamingAssumption DEF StreamInv, StreamingAssumption, TypeOK
  <2> DEFINE t == n + Lookahead
  <2>3. t \in Nat /\ t > 0 /\ Total(speech)' = t
    BY <2>1, <2>2 DEF Lookahead, Total
  <2>4. First' = First /\ MinTail' = MinTail /\ chunkN' = chunkN
    BY <1>2 DEF T3Done, First, MinTail
  <2>5. InLoop' => boundaries' = Boundaries(t)
    BY <1>2, <2>1 DEF T3Done, InLoop
  <2> HIDE DEF t
  <2>6. \A b \in Boundaries(t) :
            0 < b /\ b < t =>
               /\ b >= First
               /\ \A a \in Boundaries(t) : 0 < a /\ a < b => b - a >= chunkN
               /\ chunkN >= 6 => t - b >= MinTail
    BY <2>2, <2>3, PlanGaps
  <2> QED
    BY <2>1, <2>3, <2>4, <2>5, <2>6 DEF CutInv
<1>3. ASSUME UNCHANGED <<chunkN, firstN, speech, boundaries>>, InLoop' => InLoop
      PROVE  CutInv'
  <2>1. First' = First /\ MinTail' = MinTail /\ Total(speech)' = Total(speech)
    BY <1>3 DEF First, MinTail, Total
  <2> QED
    BY <1>3, <2>1 DEF StreamInv, CutInv
<1>4. CASE T3Throws \/ Top \/ Infer \/ Deliver \/ DeliverThrows \/ Return \/ Batch
  BY <1>3, <1>4 DEF T3Throws, Top, Infer, Deliver, DeliverThrows, Return, Batch, Leave, InLoop
<1>5. CASE Cancel \/ UNCHANGED vars
  BY <1>3, <1>5 DEF Cancel, InLoop, vars
<1> QED
  BY <1>1, <1>2, <1>4, <1>5 DEF Next, Quiet

(* The lengths depend on the voice and the tokens only, and the next cut   *)
(* on the plan and the place in it.                                        *)
LEMMA SameLengths ==
  ASSUME UNCHANGED <<prompt, speech>>
  PROVE  /\ Total(speech)' = Total(speech)
         /\ \A e : EncoderFrames(e)' = EncoderFrames(e)
         /\ \A e, f : MelFrames(e, f)' = MelFrames(e, f)
         /\ \A e, f, n : Refused(e, f, n)' = Refused(e, f, n)
BY DEF Total, EncoderFrames, MuFrames, MelFrames, Refused

LEMMA SameCut ==
  ASSUME UNCHANGED <<prompt, speech, boundaries, at>>
  PROVE  End' = End /\ IsLast' = IsLast
BY DEF End, IsLast, Total

(* A step accounts for every frame it emits. *)
LEMMA EmitStep ==
  ASSUME StreamInv, [Next]_vars
  PROVE  EmitInv'
<1> USE DEF StreamInv, EmitInv, optVars, planVars, loopVars, histVars
<1>1. CASE Synthesize
  BY <1>1 DEF Synthesize, InLoop
<1>2. CASE T3Throws
  BY <1>2 DEF T3Throws, Leave, InLoop
<1>3. CASE T3Done
  <2>1. pcm' = <<>> /\ emitted' = 0 /\ at' = 0 /\ k' = 1 /\ pc' # "deliver"
    BY <1>3 DEF T3Done, PlanInv
  <2>2. Frames(0, 0) = <<>>
    BY DEF Frames
  <2> QED
    BY <2>1, <2>2
<1>4. CASE Top
  <2>1. UNCHANGED <<prompt, speech, boundaries, at, emitted, pcm, k>> /\ InLoop /\ pc' # "deliver"
    BY <1>4 DEF Top, Leave, InLoop
  <2> QED
    BY <2>1, SameLengths
<1>5. CASE Infer
  <2>1. UNCHANGED <<prompt, speech, boundaries, at, emitted, pcm, k>> /\ InLoop
    BY <1>5 DEF Infer, InLoop
  <2>2. ASSUME pc' = "deliver"
        PROVE  ~Refused(End, IsLast, emitted) /\ chunk' = Frames(emitted, MelFrames(End, IsLast))
    BY <1>5, <2>2 DEF Infer, Leave
  <2>3. End' = End /\ IsLast' = IsLast
    BY <2>1, SameCut
  <2> QED
    BY <2>1, <2>2, <2>3, SameLengths
<1>6. CASE Deliver
  <2>1. /\ UNCHANGED <<prompt, speech, boundaries>> /\ InLoop /\ pc = "deliver"
        /\ at' = End /\ pcm' = pcm \o chunk /\ emitted' = emitted + Len(chunk) /\ pc' = "top"
    BY <1>6 DEF Deliver, InLoop
  <2>2. End \in Nat /\ End > 0 /\ End <= Total(speech)
    BY <2>1, EndIsNextCut, TotalType DEF PlanInv
  <2> DEFINE m == MelFrames(End, IsLast)
  <2>3. IsLast \in BOOLEAN /\ emitted \in Nat
    BY DEF IsLast, TypeOK
  <2>4. m \in Nat /\ emitted <= m
    BY <2>1, <2>2, <2>3, MelType
  <2>5. chunk = Frames(emitted, m) /\ pcm = Frames(0, emitted)
    BY <2>1
  <2> HIDE DEF m
  <2>6. emitted' = m
    BY <2>1, <2>3, <2>4, <2>5, FramesType
  <2>7. pcm' = Frames(0, emitted')
    BY <2>1, <2>3, <2>4, <2>5, <2>6, FramesJoin
  <2>8. EncoderFrames(at)' = EncoderFrames(End)
    BY <2>1 DEF EncoderFrames
  <2>9. MelFrames(at, at = Total(speech))' = m
    BY <2>1, <2>8 DEF m, MelFrames, MuFrames, IsLast, Total
  <2>10. (at < Total(speech))' => EncoderFrames(End) > Trim
    <3>1. (at < Total(speech))' => ~IsLast
      BY <2>1, <2>2, TotalType DEF IsLast, Total
    <3>2. ~Refused(End, IsLast, emitted)
      BY <2>1
    <3>3. EncoderFrames(End) \in Int /\ Trim \in Int
      BY <2>2, EncoderGrows DEF Trim, Lookahead
    <3>4. ~IsLast => EncoderFrames(End) > Trim
      BY <3>2, <3>3 DEF Refused
    <3> QED
      BY <3>1, <3>4
  <2>11. Trim' = Trim
    BY DEF Trim, Lookahead
  <2>12. at' > 0
    BY <2>1, <2>2
  <2> QED
    BY <2>1, <2>2, <2>6, <2>7, <2>8, <2>9, <2>10, <2>11, <2>12
<1>7. CASE DeliverThrows
  BY <1>7 DEF DeliverThrows, Leave, InLoop
<1>8. CASE Return
  BY <1>8 DEF Return, Leave, InLoop
<1>9. CASE Batch
  BY <1>9 DEF Batch, Leave, InLoop
<1>10. CASE Cancel
  <2>1. UNCHANGED <<prompt, speech, boundaries, at, emitted, pcm, k, chunk, pc>>
    BY <1>10 DEF Cancel
  <2> QED
    BY <2>1, SameLengths, SameCut DEF InLoop
<1>11. CASE UNCHANGED vars
  <2>1. UNCHANGED <<prompt, speech, boundaries, at, emitted, pcm, k, chunk, pc>>
    BY <1>11 DEF vars
  <2> QED
    BY <2>1, SameLengths, SameCut DEF InLoop
<1> QED
  BY <1>1, <1>2, <1>3, <1>4, <1>5, <1>6, <1>7, <1>8, <1>9, <1>10, <1>11 DEF Next, Quiet

(* After an accepted chunk no later one is refused. *)
LEMMA LaterAccepted ==
  ASSUME StreamInv, pc = "infer", k > 1
  PROVE  ~Refused(End, IsLast, emitted)
<1>1. /\ at > 0 /\ at < Total(speech)
      /\ emitted = MelFrames(at, FALSE) /\ EncoderFrames(at) > Trim
  <2>1. at > 0 /\ at < Total(speech) /\ InLoop
    BY DEF StreamInv, PlanInv, InLoop
  <2>2. (at = Total(speech)) = FALSE
    BY <2>1, TotalType DEF StreamInv
  <2> QED
    BY <2>1, <2>2 DEF StreamInv, EmitInv
<1>2. End \in Nat /\ at < End /\ at \in Nat /\ IsLast \in BOOLEAN
  BY <1>1, EndIsNextCut, TotalType DEF StreamInv, PlanInv, InLoop, IsLast
<1>3. EncoderFrames(at) \in Int /\ EncoderFrames(End) \in Int /\ EncoderFrames(at) <= EncoderFrames(End)
  BY <1>2, EncoderGrows DEF StreamInv
<1>4. emitted \in Nat /\ prompt.frames \in Nat
  BY StreamingAssumption DEF StreamInv, TypeOK, StreamingAssumption
<1>5. Trim = 6
  BY DEF Trim, Lookahead
<1>6. emitted = EncoderFrames(at) - 6 - prompt.frames
  BY <1>1, <1>5 DEF MelFrames, MuFrames
<1>7. MuFrames(End, IsLast) \in Int /\ MuFrames(End, IsLast) >= EncoderFrames(End) - 6
  BY <1>2, <1>3, <1>5 DEF MuFrames
<1>8. ~(prompt.frames > MuFrames(End, IsLast))
  BY <1>3, <1>4, <1>6, <1>7
<1>9. ~(emitted > MelFrames(End, IsLast))
  BY <1>3, <1>4, <1>6, <1>7 DEF MelFrames
<1>10. ~(EncoderFrames(End) <= Trim)
  BY <1>1, <1>3, <1>5
<1> QED
  BY <1>8, <1>9, <1>10 DEF Refused

(* A call that returns has the whole utterance, and one that is refused   *)
(* was refused at its first chunk.                                         *)
LEMMA OutcomeStep ==
  ASSUME StreamInv, [Next]_vars
  PROVE  StreamEqualsBatch' /\ OnlyFirstRefused'
<1> USE DEF StreamInv, StreamEqualsBatch, OnlyFirstRefused, PlanInv, optVars, planVars, loopVars, histVars
<1>1. CASE Synthesize
  BY <1>1 DEF Synthesize
<1>2. CASE T3Throws
  BY <1>2 DEF T3Throws, Leave
<1>3. CASE T3Done
  BY <1>3 DEF T3Done
<1>4. CASE Top
  BY <1>4 DEF Top, Leave
<1>5. CASE Infer
  <2>1. outcome' # "ok" /\ k' = k /\ pc = "infer"
    BY <1>5 DEF Infer, Leave
  <2>2. outcome' = "rejected" => Refused(End, IsLast, emitted)
    BY <1>5 DEF Infer, Leave
  <2>3. outcome' = "rejected" => ~(k > 1)
    BY <2>1, <2>2, LaterAccepted
  <2>4. k \in 1 .. MaxTotal + 1 /\ MaxTotal \in Nat
    BY TotalType DEF TypeOK
  <2>5. outcome' = "rejected" => k = 1
    BY <2>3, <2>4
  <2> QED
    BY <2>1, <2>5
<1>6. CASE Deliver
  BY <1>6 DEF Deliver
<1>7. CASE DeliverThrows
  BY <1>7 DEF DeliverThrows, Leave
<1>8. CASE Return
  <2>1. outcome' = "ok" /\ UNCHANGED <<prompt, speech, pcm>> /\ pc = "top" /\ at = Total(speech)
    BY <1>8 DEF Return, Leave
  <2>2. at > 0
    BY <2>1, TotalType
  <2>3. pcm = Frames(0, Whole)
    BY <2>1, <2>2 DEF EmitInv, InLoop, Whole
  <2> QED
    BY <2>1, <2>3 DEF Whole, MelFrames, MuFrames, EncoderFrames, Total
<1>9. CASE Batch
  <2>1. UNCHANGED <<prompt, speech, chunkN>> /\ chunkN = 0
    BY <1>9 DEF Batch
  <2>2. outcome' = "ok" => pcm' = Frames(0, Whole)
    BY <1>9 DEF Batch, Leave, Whole
  <2> QED
    BY <2>1, <2>2 DEF Whole, MelFrames, MuFrames, EncoderFrames, Total
<1>10. CASE Cancel
  <2>1. UNCHANGED <<prompt, speech, pcm, outcome, chunkN, k>>
    BY <1>10 DEF Cancel
  <2> QED
    BY <2>1 DEF Whole, MelFrames, MuFrames, EncoderFrames, Total
<1>11. CASE UNCHANGED vars
  <2>1. UNCHANGED <<prompt, speech, pcm, outcome, chunkN, k>>
    BY <1>11 DEF vars
  <2> QED
    BY <2>1 DEF Whole, MelFrames, MuFrames, EncoderFrames, Total
<1> QED
  BY <1>1, <1>2, <1>3, <1>4, <1>5, <1>6, <1>7, <1>8, <1>9, <1>10, <1>11 DEF Next, Quiet

(* What on_chunk is given next. *)
LEMMA NextHeard ==
  ASSUME StreamInv, pc = "deliver", OnChunk(IsLast)
  PROVE  /\ heard' \in Seq([index : Nat, frames : Seq(Nat), last : BOOLEAN])
         /\ Len(heard') = k /\ k \in Nat \ {0}
         /\ \A j \in 1 .. k : heard'[j].index = j - 1
         /\ \A j \in 1 .. k - 1 : ~heard'[j].last
         /\ heard'[k].last = IsLast
<1> DEFINE r == [index |-> k - 1, frames |-> chunk, last |-> IsLast]
           R == [index : Nat, frames : Seq(Nat), last : BOOLEAN]
<1>1. k \in Nat \ {0} /\ heard \in Seq(R)
  BY TotalType DEF StreamInv, TypeOK
<1>2. r \in R /\ r.index = k - 1 /\ r.last = IsLast
  BY <1>1 DEF StreamInv, TypeOK, IsLast
<1>3. /\ Len(heard) = k - 1
      /\ \A j \in 1 .. k - 1 : heard[j].index = j - 1 /\ ~heard[j].last
  BY DEF StreamInv, PlanInv, HeardInv, InLoop, LastChunkOnce
<1>4. heard' = Append(heard, r)
  BY DEF OnChunk
<1> HIDE DEF r, R
<1>5. /\ heard' \in Seq(R) /\ Len(heard') = k
      /\ \A j \in 1 .. k : heard'[j] = IF j <= k - 1 THEN heard[j] ELSE r
  BY <1>1, <1>2, <1>3, <1>4, AppendProperties
<1>6. heard'[k] = r
  BY <1>1, <1>5
<1>7. \A j \in 1 .. k - 1 : heard'[j] = heard[j]
  BY <1>1, <1>5
<1>8. \A j \in 1 .. k : j = k \/ j \in 1 .. k - 1
  BY <1>1
<1>9. \A j \in 1 .. k : heard'[j].index = j - 1
  BY <1>2, <1>3, <1>6, <1>7, <1>8
<1>10. \A j \in 1 .. k - 1 : ~heard'[j].last
  BY <1>3, <1>7
<1> QED
  BY <1>1, <1>2, <1>5, <1>6, <1>9, <1>10 DEF R

(* A step numbers the chunks and marks the last one. *)
LEMMA HeardStep ==
  ASSUME StreamInv, [Next]_vars
  PROVE  HeardInv' /\ LastChunkOnce'
<1> USE DEF StreamInv, HeardInv, LastChunkOnce, PlanInv, optVars, planVars, loopVars, histVars
<1>1. CASE Synthesize
  BY <1>1 DEF Synthesize, InLoop
<1>2. CASE T3Throws
  BY <1>2 DEF T3Throws, Leave, InLoop
<1>3. CASE T3Done
  <2>1. heard' = <<>> /\ k' = 1 /\ at' = 0 /\ outcome' = "none"
    BY <1>3 DEF T3Done
  <2>2. InLoop' => Total(speech)' > 0
    <3>1. PICK n \in 0 .. MaxTokens : speech'.n = n
      BY <1>3 DEF T3Done
    <3> QED
      BY <3>1, StreamingAssumption DEF StreamingAssumption, Total, Lookahead
  <2> QED
    BY <2>1, <2>2
<1>4. CASE Top
  <2>1. UNCHANGED <<heard, k, at, speech, chunkN>> /\ InLoop /\ outcome' # "ok"
    BY <1>4 DEF Top, Leave, InLoop
  <2> QED
    BY <2>1 DEF Total
<1>5. CASE Infer
  <2>1. UNCHANGED <<heard, k, at, speech, chunkN>> /\ InLoop /\ outcome' # "ok"
    BY <1>5 DEF Infer, Leave, InLoop
  <2> QED
    BY <2>1 DEF Total
<1>6. CASE Deliver
  <2>1. /\ OnChunk(IsLast) /\ pc = "deliver" /\ outcome' = "none" /\ k' = k + 1
        /\ at' = End /\ UNCHANGED <<speech, chunkN>>
    BY <1>6 DEF Deliver
  <2>2. /\ heard' \in Seq([index : Nat, frames : Seq(Nat), last : BOOLEAN])
        /\ Len(heard') = k /\ k \in Nat \ {0}
        /\ \A j \in 1 .. k : heard'[j].index = j - 1
        /\ \A j \in 1 .. k - 1 : ~heard'[j].last
        /\ heard'[k].last = IsLast
    BY <2>1, NextHeard
  <2>3. \A j \in 1 .. k : heard'[j].last => j = k
    BY <2>2
  <2>4. at' = Total(speech)' <=> IsLast
    BY <2>1 DEF IsLast, Total
  <2>5. heard' # <<>>
    BY <2>2
  <2>6. (at < Total(speech))' => ~IsLast
    <3>1. Total(speech)' = Total(speech) /\ Total(speech) \in Nat
      BY <2>1, TotalType DEF Total
    <3> QED
      BY <2>1, <3>1 DEF IsLast
  <2>7. (at < Total(speech))' => \A j \in 1 .. k : ~heard'[j].last
    BY <2>2, <2>3, <2>6
  <2>8. Len(heard') = k' - 1
    BY <2>1, <2>2
  <2>9. HeardInv'
    BY <2>2, <2>4, <2>5, <2>7, <2>8
  <2>10. LastChunkOnce'
    BY <2>1, <2>2, <2>3
  <2> QED
    BY <2>9, <2>10
<1>7. CASE DeliverThrows
  <2>1. OnChunk(IsLast) /\ pc = "deliver" /\ outcome' = "thrown" /\ pc' = "idle"
    BY <1>7 DEF DeliverThrows, Leave
  <2>2. /\ Len(heard') = k /\ k \in Nat \ {0}
        /\ \A j \in 1 .. k : heard'[j].index = j - 1
        /\ \A j \in 1 .. k - 1 : ~heard'[j].last
    BY <2>1, NextHeard
  <2>3. \A j \in 1 .. k : heard'[j].last => j = k
    BY <2>2
  <2> QED
    BY <2>1, <2>2, <2>3 DEF InLoop
<1>8. CASE Return
  <2>1. pc' = "idle" /\ pc = "top" /\ at = Total(speech) /\ UNCHANGED <<heard, chunkN>>
    BY <1>8 DEF Return, Leave
  <2> QED
    BY <2>1 DEF InLoop
<1>9. CASE Batch
  <2>1. pc' = "idle" /\ chunkN = 0 /\ UNCHANGED <<heard, chunkN>>
    BY <1>9 DEF Batch, Leave
  <2> QED
    BY <2>1 DEF InLoop
<1>10. CASE Cancel
  <2>1. UNCHANGED <<heard, k, at, speech, chunkN, pc, outcome>>
    BY <1>10 DEF Cancel
  <2> QED
    BY <2>1 DEF Total, InLoop
<1>11. CASE UNCHANGED vars
  <2>1. UNCHANGED <<heard, k, at, speech, chunkN, pc, outcome>>
    BY <1>11 DEF vars
  <2> QED
    BY <2>1 DEF Total, InLoop
<1> QED
  BY <1>1, <1>2, <1>3, <1>4, <1>5, <1>6, <1>7, <1>8, <1>9, <1>10, <1>11 DEF Next, Quiet

(* What the callback hears next is the chunk. *)
LEMMA HeardGrows ==
  ASSUME StreamInv, OnChunk(IsLast)
  PROVE  Concat(heard)' = Concat(heard) \o chunk
<1> DEFINE r == [index |-> k - 1, frames |-> chunk, last |-> IsLast]
           R == [index : Nat, frames : Seq(Nat), last : BOOLEAN]
<1>1. heard \in Seq(R) /\ r \in R /\ r.frames = chunk
  <2>1. k - 1 \in Nat /\ chunk \in Seq(Nat) /\ IsLast \in BOOLEAN
    BY TotalType DEF StreamInv, TypeOK, IsLast
  <2> QED
    BY <2>1 DEF StreamInv, TypeOK
<1>2. heard' = Append(heard, r)
  BY DEF OnChunk
<1> HIDE DEF r, R
<1>3. Concat(Append(heard, r)) = Concat(heard) \o chunk
  BY <1>1, ConcatAppend
<1>4. Concat(heard)' = Concat(heard')
  BY DEF Concat
<1> QED
  BY <1>2, <1>3, <1>4

(* A chunk that is delivered has frames, of the utterance's.               *)
LEMMA ChunkNotEmpty ==
  ASSUME StreamInv, pc = "deliver"
  PROVE  /\ emitted \in Nat /\ Len(chunk) \in Nat /\ Len(chunk) > 0
         /\ emitted + Len(chunk) = MelFrames(End, IsLast)
         /\ End \in Nat /\ End <= Total(speech)
<1>1. InLoop /\ at < Total(speech) /\ emitted \in Nat /\ IsLast \in BOOLEAN
  BY DEF StreamInv, PlanInv, InLoop, TypeOK, IsLast
<1>2. End \in Nat /\ End <= Total(speech)
  BY <1>1, EndIsNextCut DEF StreamInv, PlanInv
<1>3. ~Refused(End, IsLast, emitted) /\ chunk = Frames(emitted, MelFrames(End, IsLast))
  BY <1>1 DEF StreamInv, EmitInv
<1>4. MelFrames(End, IsLast) # emitted
  BY <1>3 DEF StreamInv, DeliveredInv, Empty
<1> DEFINE m == MelFrames(End, IsLast)
<1>5. m \in Int /\ emitted <= m
  BY <1>1, <1>2, <1>3, MelType DEF StreamInv
<1>6. chunk = Frames(emitted, m) /\ m # emitted
  BY <1>3, <1>4
<1> HIDE DEF m
<1>7. Len(chunk) = m - emitted
  <2>1. m \in Nat
    BY <1>1, <1>5
  <2> QED
    BY <1>1, <1>5, <1>6, <2>1, FramesType
<1> QED
  BY <1>1, <1>2, <1>5, <1>6, <1>7 DEF m

(* A step that leaves the loop's variables alone delivers nothing. *)
LEMMA SameDelivery ==
  ASSUME DeliveredInv, UNCHANGED <<chunkN, prompt, speech, boundaries, at, emitted, pcm, heard, pc>>
  PROVE  DeliveredInv'
<1>1. InLoop' = InLoop
  BY DEF InLoop
<1>2. Concat(heard)' = Concat(heard)
  BY DEF Concat
<1>3. End' = End /\ IsLast' = IsLast
  BY SameCut
<1>4. Empty(End, IsLast, emitted)' = Empty(End, IsLast, emitted)
  BY <1>3 DEF Empty, Refused, MelFrames, MuFrames, EncoderFrames
<1> QED
  BY <1>1, <1>2, <1>4 DEF DeliveredInv

(* A step gives the callback what it adds to the result, and no chunk is   *)
(* empty.                                                                  *)
LEMMA DeliveredStep ==
  ASSUME StreamInv, [Next]_vars
  PROVE  DeliveredInv'
<1> USE DEF StreamInv, DeliveredInv, PlanInv, optVars, planVars, loopVars, histVars
<1>1. CASE Synthesize
  BY <1>1 DEF Synthesize, InLoop
<1>2. CASE T3Throws
  BY <1>2 DEF T3Throws, Leave, InLoop
<1>3. CASE T3Done
  <2>1. /\ pc = "t3" /\ pcm' = <<>> /\ heard' = <<>> /\ at' = 0 /\ pc' # "deliver" /\ chunkN' = chunkN
        /\ ~(chunkN > 0) => boundaries' = {}
    BY <1>3 DEF T3Done
  <2>2. Concat(heard)' = <<>>
    BY <2>1, ConcatEmpty DEF Concat
  <2>3. chunkN' = 0 => boundaries' = {}
    BY <2>1
  <2> QED
    BY <2>1, <2>2, <2>3
<1>4. CASE Top
  <2>1. UNCHANGED <<chunkN, boundaries, heard, pcm, at, emitted>> /\ InLoop /\ pc' # "deliver"
    BY <1>4 DEF Top, Leave, InLoop
  <2> QED
    BY <2>1 DEF Concat
<1>5. CASE Infer
  <2>1. /\ UNCHANGED <<chunkN, prompt, speech, boundaries, heard, pcm, at, emitted>> /\ InLoop
    BY <1>5 DEF Infer, InLoop
  <2>2. pc' = "deliver" => ~Empty(End, IsLast, emitted)
    BY <1>5 DEF Infer, Leave
  <2>3. End' = End /\ IsLast' = IsLast
    BY <2>1, SameCut
  <2>4. Empty(End, IsLast, emitted)' = Empty(End, IsLast, emitted)
    BY <2>1, <2>3 DEF Empty, Refused, MelFrames, MuFrames, EncoderFrames
  <2> QED
    BY <2>1, <2>2, <2>4 DEF Concat
<1>6. CASE Deliver
  <2>1. /\ OnChunk(IsLast) /\ pc = "deliver" /\ pc' = "top" /\ InLoop
        /\ pcm' = pcm \o chunk /\ emitted' = emitted + Len(chunk) /\ at' = End
        /\ UNCHANGED <<chunkN, boundaries>>
    BY <1>6 DEF Deliver, InLoop
  <2>2. Concat(heard)' = Concat(heard) \o chunk
    BY <2>1, HeardGrows
  <2>3. emitted' > 0
    BY <2>1, ChunkNotEmpty
  <2>4. chunkN # 0
    BY <2>1
  <2> QED
    BY <2>1, <2>2, <2>3, <2>4
<1>7. CASE DeliverThrows
  <2>1. pc' = "idle" /\ pc = "deliver" /\ UNCHANGED <<chunkN, boundaries>>
    BY <1>7 DEF DeliverThrows, Leave
  <2> QED
    BY <2>1 DEF InLoop
<1>8. CASE Return
  BY <1>8 DEF Return, Leave, InLoop
<1>9. CASE Batch
  BY <1>9 DEF Batch, Leave, InLoop
<1>10. CASE Cancel
  <2>1. UNCHANGED <<chunkN, prompt, speech, boundaries, at, emitted, pcm, heard, pc>>
    BY <1>10 DEF Cancel
  <2> QED
    BY <2>1, SameDelivery
<1>11. CASE UNCHANGED vars
  <2>1. UNCHANGED <<chunkN, prompt, speech, boundaries, at, emitted, pcm, heard, pc>>
    BY <1>11 DEF vars
  <2> QED
    BY <2>1, SameDelivery
<1> QED
  BY <1>1, <1>2, <1>3, <1>4, <1>5, <1>6, <1>7, <1>8, <1>9, <1>10, <1>11 DEF Next, Quiet

(* A call that returns gives the callback's frames, and some. *)
LEMMA ResultStep ==
  ASSUME StreamInv, [Next]_vars
  PROVE  ResultIsHeard' /\ ResultNotEmpty'
<1> USE DEF StreamInv, ResultIsHeard, ResultNotEmpty, PlanInv, optVars, planVars, loopVars, histVars
<1>1. CASE Synthesize \/ T3Throws \/ T3Done \/ Top \/ Infer \/ Deliver \/ DeliverThrows
  <2>1. outcome' # "ok"
    BY <1>1 DEF Synthesize, T3Throws, T3Done, Top, Infer, Deliver, DeliverThrows, Leave
  <2> QED
    BY <2>1
<1>2. CASE Return
  <2>1. UNCHANGED <<pcm, heard>> /\ InLoop /\ at = Total(speech)
    BY <1>2 DEF Return, InLoop
  <2>2. Concat(heard) = pcm /\ emitted > 0 /\ pcm = Frames(0, emitted) /\ emitted \in Nat
    BY <2>1, TotalType DEF DeliveredInv, EmitInv, TypeOK
  <2>3. Len(pcm) = emitted
    BY <2>2, FramesType
  <2>4. pcm # <<>>
    BY <2>2, <2>3
  <2>5. Concat(heard)' = Concat(heard)
    BY <2>1 DEF Concat
  <2> QED
    BY <2>1, <2>2, <2>4, <2>5
<1>3. CASE Batch
  <2>1. chunkN' = 0
    BY <1>3 DEF Batch
  <2> DEFINE m == MelFrames(Total(speech), TRUE)
  <2>2. outcome' = "ok" => pcm' = Frames(0, m) /\ m \in Nat /\ m > 0
    <3>1. Total(speech) \in Nat
      BY TotalType
    <3>2. m \in Int /\ (~Refused(Total(speech), TRUE, 0) => 0 <= m)
      BY <3>1, MelType
    <3>3. ~Refused(Total(speech), TRUE, 0) /\ ~Empty(Total(speech), TRUE, 0) => m # 0
      BY DEF Empty
    <3>4. outcome' = "ok" => ~Refused(Total(speech), TRUE, 0) /\ ~Empty(Total(speech), TRUE, 0) /\ pcm' = Frames(0, m)
      BY <1>3 DEF Batch, Leave
    <3> HIDE DEF m
    <3> QED
      BY <3>2, <3>3, <3>4
  <2> HIDE DEF m
  <2>3. outcome' = "ok" => pcm' # <<>>
    <3>1. m \in Nat => Len(Frames(0, m)) = m
      BY FramesType
    <3> QED
      BY <2>2, <3>1
  <2> QED
    BY <2>1, <2>3
<1>4. CASE Cancel \/ UNCHANGED vars
  <2>1. UNCHANGED <<outcome, chunkN, pcm, heard>>
    BY <1>4 DEF Cancel, vars
  <2> QED
    BY <2>1 DEF Concat
<1> QED
  BY <1>1, <1>2, <1>3, <1>4 DEF Next, Quiet

(* Frames(a, b) is a sequence whenever S3Gen did not refuse. *)
LEMMA AcceptedFrames ==
  ASSUME TypeOK, NEW e \in Nat, NEW f \in BOOLEAN, NEW skip \in Nat, ~Refused(e, f, skip)
  PROVE  Frames(skip, MelFrames(e, f)) \in Seq(Nat)
<1>1. MelFrames(e, f) \in Nat /\ skip <= MelFrames(e, f)
  BY MelType
<1> QED
  BY <1>1, FramesType

(* A step keeps the types. *)
LEMMA TypeStep ==
  ASSUME StreamInv, [Next]_vars
  PROVE  TypeOK'
<1> USE DEF StreamInv, TypeOK, optVars, planVars, loopVars, histVars
<1>0. MaxTotal \in Nat /\ MaxTokens \in Nat /\ MaxTotal = MaxTokens + 3 /\ Calls \in Nat
  BY StreamingAssumption DEF StreamingAssumption, MaxTotal, Lookahead
<1>1. CASE Synthesize
  BY <1>0, <1>1 DEF Synthesize, ClearCancel, NoSpeech
<1>2. CASE T3Throws
  BY <1>2 DEF T3Throws, Leave
<1>3. CASE T3Done
  <2>1. PICK n \in 0 .. MaxTokens :
           /\ speech'.n = n /\ speech'.special \subseteq 1 .. n
           /\ boundaries' = IF chunkN > 0 THEN Boundaries(n + Lookahead) ELSE {}
    BY <1>3 DEF T3Done
  <2>2. chunkN \in Nat /\ firstN \in Nat
    BY StreamingAssumption DEF StreamingAssumption
  <2>3. n + Lookahead \in Nat /\ n + Lookahead > 0 /\ n + Lookahead <= MaxTotal
    BY <1>0 DEF Lookahead
  <2>4. boundaries' \subseteq 0 .. MaxTotal
    <3>1. Boundaries(n + Lookahead) \subseteq 0 .. n + Lookahead
      BY <2>2, <2>3, PlanCuts
    <3> QED
      BY <1>0, <2>1, <2>3, <3>1
  <2>5. speech'.n \in 0 .. MaxTokens /\ speech'.special \subseteq 1 .. speech'.n
    BY <2>1
  <2>6. at' = 0 /\ UNCHANGED <<chunkN, firstN, prompt, cancelFlag, k, emitted, chunk, pcm, heard,
                               outcome, calls, asked, late>>
    BY <1>3 DEF T3Done, PlanInv
  <2>7. pc' \in {"idle", "t3", "top", "infer", "deliver", "batch"}
    BY <1>3 DEF T3Done
  <2> QED
    BY <2>4, <2>5, <2>6, <2>7
<1>4. CASE Top
  BY <1>4 DEF Top, Leave
<1>5. CASE Infer
  <2>1. chunk' \in Seq(Nat)
    <3>1. End \in Nat /\ IsLast \in BOOLEAN /\ emitted \in Nat
      BY <1>5, EndIsNextCut DEF Infer, PlanInv, InLoop, IsLast
    <3>2. ~Refused(End, IsLast, emitted) => Frames(emitted, MelFrames(End, IsLast)) \in Seq(Nat)
      BY <3>1, AcceptedFrames
    <3> QED
      BY <1>5, <3>2 DEF Infer
  <2> QED
    BY <1>5, <2>1 DEF Infer, Leave
<1>6. CASE Deliver
  <2>1. heard' \in Seq([index : Nat, frames : Seq(Nat), last : BOOLEAN])
    BY <1>6, NextHeard DEF Deliver
  <2>2. End \in boundaries /\ End \in Nat /\ at < End /\ End <= Total(speech)
    BY <1>6, EndIsNextCut DEF Deliver, PlanInv, InLoop
  <2>3. k' \in 1 .. MaxTotal + 1
    <3>1. k \in Nat \ {0} /\ k <= at + 1 /\ at \in Nat /\ Total(speech) \in Nat /\ Total(speech) <= MaxTotal
      BY <1>0, TotalType DEF PlanInv
    <3>2. k + 1 <= MaxTotal + 1
      BY <1>0, <2>2, <3>1
    <3> QED
      BY <1>6, <1>0, <3>1, <3>2 DEF Deliver
  <2>4. pcm' \in Seq(Nat) /\ emitted' \in Nat
    <3>1. chunk \in Seq(Nat) /\ pcm \in Seq(Nat)
      OBVIOUS
    <3>2. pcm \o chunk \in Seq(Nat) /\ Len(chunk) \in Nat
      BY <3>1
    <3> QED
      BY <1>6, <3>2 DEF Deliver
  <2>5. late' \in 0 .. MaxTotal
    BY <1>6, <1>0 DEF Deliver, OnChunk, FlagIsAsked
  <2>6. at' \in boundaries'
    BY <1>6, <2>2 DEF Deliver
  <2>7. pc' = "top" /\ UNCHANGED <<chunkN, firstN, prompt, cancelFlag, speech, boundaries, chunk,
                                   outcome, calls, asked>>
    BY <1>6 DEF Deliver
  <2> QED
    BY <2>1, <2>3, <2>4, <2>5, <2>6, <2>7
<1>7. CASE DeliverThrows
  <2>1. heard' \in Seq([index : Nat, frames : Seq(Nat), last : BOOLEAN])
    BY <1>7, NextHeard DEF DeliverThrows
  <2>2. late' \in 0 .. MaxTotal
    BY <1>7, <1>0 DEF DeliverThrows, OnChunk, FlagIsAsked
  <2> QED
    BY <1>7, <2>1, <2>2 DEF DeliverThrows, Leave
<1>8. CASE Return
  BY <1>8 DEF Return, Leave
<1>9. CASE Batch
  <2>1. pcm' \in Seq(Nat)
    <3>1. Total(speech) \in Nat
      BY TotalType
    <3>2. ~Refused(Total(speech), TRUE, 0) => Frames(0, MelFrames(Total(speech), TRUE)) \in Seq(Nat)
      BY <3>1, AcceptedFrames
    <3> QED
      BY <1>9, <3>2 DEF Batch
  <2> QED
    BY <1>9, <2>1 DEF Batch, Leave
<1>10. CASE Cancel
  BY <1>10 DEF Cancel
<1>11. CASE UNCHANGED vars
  BY <1>11 DEF vars
<1> QED
  BY <1>1, <1>2, <1>3, <1>4, <1>5, <1>6, <1>7, <1>8, <1>9, <1>10, <1>11 DEF Next, Quiet

-----------------------------------------------------------------------------
(* Theorems. *)

(* The invariant holds throughout: it is inductive. *)
THEOREM StreamInvHolds == Spec => []StreamInv
<1>1. Init => StreamInv
  BY FS_EmptySet, StreamingAssumption DEF StreamingAssumption, Init, StreamInv, CutInv, TypeOK, PlanInv, EmitInv, HeardInv, InLoop,
     FlagIsAsked, StreamEqualsBatch, LastChunkOnce, OnlyFirstRefused, CancelIsPrompt, NoStaleCancel, NoSpeech,
     MaxTotal, Lookahead, DeliveredInv, ResultIsHeard, ResultNotEmpty
<1>2. StreamInv /\ [Next]_vars => StreamInv'
  BY TypeStep, PlanStep, CutStep, EmitStep, HeardStep, FlagStep, DeliveredStep, OutcomeStep,
     ResultStep DEF StreamInv
<1> QED
  BY <1>1, <1>2, PTL DEF Spec

(* Every variable keeps its type: no chunk lies beyond the plan. *)
THEOREM TypeCorrect == Spec => []TypeOK
BY StreamInvHolds, PTL DEF StreamInv

(* However the utterance is cut, a streaming call returns the audio of the *)
(* batch call.                                                             *)
THEOREM StreamIsBatch == Spec => []StreamEqualsBatch
BY StreamInvHolds, PTL DEF StreamInv

(* The result of a streaming call is what on_chunk was given: nothing is   *)
(* added to it, lost from it or reordered on the way.                      *)
THEOREM ResultWasHeard == Spec => []ResultIsHeard
BY StreamInvHolds, PTL DEF StreamInv

(* A call that returns, streaming or not, has a result to play. *)
THEOREM ResultHasAudio == Spec => []ResultNotEmpty
BY StreamInvHolds, PTL DEF StreamInv

(* synthesize_streaming says is_last with the last chunk only, and always. *)
THEOREM LastIsSaidOnce == Spec => []LastChunkOnce
BY StreamInvHolds, PTL DEF StreamInv

(* S3Gen refuses no chunk after the first: skip_mel_frames never overtakes *)
(* the frames a longer prefix has.                                         *)
THEOREM LaterNeverRefused == Spec => []OnlyFirstRefused
BY StreamInvHolds, PTL DEF StreamInv

(* A cancel() is followed by at most one more chunk. *)
THEOREM CancelSeen == Spec => []CancelIsPrompt
BY StreamInvHolds, PTL DEF StreamInv

(* A cancel() before a call or between calls cancels none. *)
THEOREM CancelNeverStale == Spec => []NoStaleCancel
BY StreamInvHolds, PTL DEF StreamInv

(* The special tokens of a prefix are among the tokens T3 returned. *)
LEMMA FewSpecials ==
  ASSUME TypeOK, CutInv, NEW e \in Nat
  PROVE  LET c == Cardinality(speech.special \cap 1 .. e)
         IN  c \in Nat /\ c <= MaxSpecials /\ (e >= speech.n => c <= speech.n)
<1> DEFINE S == speech.special
<1>1. speech.n \in Nat /\ S \subseteq 1 .. speech.n /\ MaxSpecials \in Nat
  BY StreamingAssumption DEF TypeOK, StreamingAssumption
<1>2. IsFiniteSet(1 .. speech.n) /\ Cardinality(1 .. speech.n) = speech.n
  BY <1>1, FS_Interval
<1>3. IsFiniteSet(S) /\ Cardinality(S) <= speech.n /\ Cardinality(S) <= MaxSpecials
  BY <1>1, <1>2, FS_Subset DEF CutInv
<1>4. S \cap 1 .. e \subseteq S
  OBVIOUS
<1> HIDE DEF S
<1>5. Cardinality(S \cap 1 .. e) <= Cardinality(S) /\ IsFiniteSet(S \cap 1 .. e)
  BY <1>3, <1>4, FS_Subset
<1>6. Cardinality(S \cap 1 .. e) \in Nat /\ Cardinality(S) \in Nat
  BY <1>3, <1>5, FS_CardinalityType
<1> QED
  BY <1>1, <1>3, <1>5, <1>6 DEF S

(* A chunk with room has frames to vocode beyond those already emitted. *)
LEMMA RoomyChunk ==
  ASSUME StreamInv, pc = "infer",
         chunkN > MaxSpecials, First > Lookahead + MaxSpecials, prompt.frames <= 2 * prompt.tokens
  PROVE  ~Refused(End, IsLast, emitted) /\ ~Empty(End, IsLast, emitted)
<1> DEFINE T == Total(speech)
           f == prompt.frames
           p == prompt.tokens
           ce == Cardinality(speech.special \cap 1 .. End)
           ca == Cardinality(speech.special \cap 1 .. at)
<1>1. /\ MaxSpecials \in Nat /\ f \in Nat /\ p \in Nat /\ speech.n \in Nat /\ T = speech.n + 3
      /\ emitted \in Nat /\ chunkN \in Nat
  BY StreamingAssumption DEF StreamingAssumption, StreamInv, TypeOK, Total, Lookahead
<1>2. at \in Nat /\ at < End /\ End \in Nat /\ End <= T /\ End \in boundaries /\ at < T
  BY EndIsNextCut, TotalType DEF StreamInv, PlanInv, InLoop
<1>3. /\ ce \in Nat /\ ce <= MaxSpecials /\ (End >= speech.n => ce <= speech.n)
      /\ ca \in Nat
  BY <1>2, FewSpecials DEF StreamInv
<1>4. EncoderFrames(End) = 2 * (p + End - ce) /\ EncoderFrames(at) = 2 * (p + at - ca)
  BY DEF EncoderFrames
<1>5. ce <= ca + (End - at)
  <2>1. at \in Nat /\ End \in Nat /\ at <= End
    BY <1>2
  <2> QED
    BY <2>1, SpecialsOfPrefix
<1>6. at = 0 => emitted = 0
  BY DEF StreamInv, EmitInv, InLoop
<1>7. at > 0 => emitted = EncoderFrames(at) - 6 - f
  <2>1. (at = Total(speech)) = FALSE
    BY <1>1, <1>2
  <2>2. at > 0 => emitted = MelFrames(at, FALSE)
    BY <2>1 DEF StreamInv, EmitInv, InLoop
  <2> QED
    BY <2>2 DEF MelFrames, MuFrames, Trim, Lookahead
<1>8. f <= 2 * p /\ chunkN > MaxSpecials /\ First > 3 + MaxSpecials
  BY DEF Lookahead
<1>9. First \in Nat
  BY StreamingAssumption DEF StreamingAssumption, StreamInv, TypeOK, First
<1>10. ASSUME ~IsLast
       PROVE  End >= First /\ (at > 0 => End - at >= chunkN)
  <2>1. 0 < End /\ End < T
    BY <1>1, <1>2, <1>10 DEF IsLast
  <2>2. at > 0 => at \in boundaries
    BY DEF StreamInv, TypeOK
  <2> QED
    BY <1>2, <2>1, <2>2 DEF StreamInv, CutInv, InLoop
<1> HIDE DEF T, f, p, ce, ca
<1>11. CASE IsLast
  <2>1. End = T
    BY <1>11 DEF IsLast, T
  <2>2. EncoderFrames(End) >= 2 * p + 6 /\ EncoderFrames(End) \in Int
    BY <1>1, <1>2, <1>3, <1>4, <2>1
  <2>3. MuFrames(End, IsLast) = EncoderFrames(End)
    BY <1>11, <2>2 DEF MuFrames
  <2>4. MelFrames(End, IsLast) = EncoderFrames(End) - f
    BY <2>3 DEF MelFrames, f
  <2>5. EncoderFrames(at) <= EncoderFrames(End) /\ EncoderFrames(at) \in Int
    BY <1>1, <1>2, <1>3, <1>4, <1>5
  <2>6. emitted < EncoderFrames(End) - f
    BY <1>1, <1>2, <1>6, <1>7, <1>8, <2>2, <2>5
  <2>7. ~(f > EncoderFrames(End))
    BY <1>1, <1>8, <2>2
  <2>8. ~(prompt.frames > MuFrames(End, IsLast))
    BY <2>3, <2>7 DEF f
  <2>9. emitted < MelFrames(End, IsLast)
    BY <2>4, <2>6
  <2>10. ~(emitted > MelFrames(End, IsLast)) /\ MelFrames(End, IsLast) # emitted
    BY <1>1, <2>2, <2>4, <2>9
  <2> QED
    BY <1>11, <2>8, <2>10 DEF Refused, Empty
<1>12. CASE ~IsLast
  <2>1. EncoderFrames(End) >= 2 * p + 8 /\ EncoderFrames(End) \in Int
    BY <1>1, <1>2, <1>3, <1>4, <1>8, <1>9, <1>10, <1>12
  <2>2. MuFrames(End, IsLast) = EncoderFrames(End) - 6
    BY <1>12 DEF MuFrames, Trim, Lookahead
  <2>3. MelFrames(End, IsLast) = EncoderFrames(End) - 6 - f
    BY <2>2 DEF MelFrames, f
  <2>4. at > 0 => EncoderFrames(at) < EncoderFrames(End) /\ EncoderFrames(at) \in Int
    BY <1>1, <1>2, <1>3, <1>4, <1>8, <1>10, <1>12
  <2>5. emitted < EncoderFrames(End) - 6 - f
    BY <1>1, <1>2, <1>6, <1>7, <1>8, <2>1, <2>4
  <2>6. ~(f > EncoderFrames(End) - 6) /\ ~(EncoderFrames(End) <= 6)
    BY <1>1, <1>8, <2>1
  <2>7. ~(prompt.frames > MuFrames(End, IsLast))
    BY <2>2, <2>6 DEF f
  <2>8. emitted < MelFrames(End, IsLast)
    BY <2>3, <2>5
  <2>9. ~(emitted > MelFrames(End, IsLast)) /\ MelFrames(End, IsLast) # emitted
    BY <1>1, <2>1, <2>3, <2>8
  <2> QED
    BY <2>6, <2>7, <2>9 DEF Refused, Empty, Trim, Lookahead
<1> QED
  BY <1>11, <1>12

(* The merge of a short tail (chatterbox_engine.cpp:536) works wherever    *)
(* the cuts fall: chunks of 6 tokens and more end with no smaller one.     *)
THEOREM TailIsWorthIt == Spec => []NoTinyTail
<1>1. ASSUME StreamInv, pc = "infer", IsLast, chunkN >= 6
      PROVE  End - at >= Min({MinTail, End})
  <2>1. at \in Nat /\ at < End /\ End \in Nat /\ End = Total(speech)
    BY <1>1, EndIsNextCut, TotalType DEF StreamInv, PlanInv, InLoop, IsLast
  <2>2. MinTail \in Nat
    BY <1>1, TailFits, StreamingAssumption DEF StreamingAssumption, StreamInv, TypeOK
  <2> DEFINE m == Min({MinTail, End})
  <2>3. m \in Nat /\ m <= MinTail /\ m <= End
    <3>1. {MinTail, End} \in SUBSET Nat
      BY <2>1, <2>2
    <3> QED
      BY <2>1, <2>2, <3>1, MinIsLeast
  <2> HIDE DEF m
  <2>4. CASE at = 0
    BY <2>1, <2>3, <2>4 DEF m
  <2>5. CASE at > 0
    <3>1. at \in boundaries
      BY <1>1, <2>5 DEF StreamInv, TypeOK
    <3>2. End - at >= MinTail
      BY <1>1, <2>1, <2>5, <3>1 DEF StreamInv, CutInv, InLoop
    <3> QED
      BY <2>1, <2>2, <2>3, <3>2 DEF m
  <2> QED
    BY <2>1, <2>4, <2>5
<1>2. StreamInv => NoTinyTail
  BY <1>1 DEF NoTinyTail
<1> QED
  BY StreamInvHolds, <1>2, PTL

(* Chunks with room for the lookahead and the special tokens are neither   *)
(* refused by s3gen_synthesize_to_wav nor abort in it.                     *)
THEOREM RoomyChunksAccepted == Spec => []RoomyChunksWork
<1>1. Init => RoomyChunksWork
  BY DEF Init, RoomyChunksWork
<1>2. StreamInv /\ RoomyChunksWork /\ [Next]_vars => RoomyChunksWork'
  <2> SUFFICES ASSUME StreamInv, RoomyChunksWork, [Next]_vars,
                      (chunkN > MaxSpecials)', (First > Lookahead + MaxSpecials)',
                      (prompt.frames <= 2 * prompt.tokens)'
               PROVE  outcome' \notin {"rejected", "aborted"}
    BY DEF RoomyChunksWork
  <2> USE DEF optVars, planVars, loopVars, histVars
  <2>1. UNCHANGED optVars
    BY DEF Next, Synthesize, T3Throws, T3Done, Top, Infer, Deliver, DeliverThrows, Return, Batch, Cancel, Quiet, vars
  <2>2. chunkN > MaxSpecials /\ First > Lookahead + MaxSpecials /\ prompt.frames <= 2 * prompt.tokens
    BY <2>1 DEF First, Lookahead
  <2>3. outcome \notin {"rejected", "aborted"}
    BY <2>2 DEF RoomyChunksWork
  <2>4. CASE Infer
    <3>1. pc = "infer"
      BY <2>4 DEF Infer
    <3>2. ~Refused(End, IsLast, emitted) /\ ~Empty(End, IsLast, emitted)
      BY <2>2, <3>1, RoomyChunk
    <3>3. outcome' \in {"thrown", outcome}
      BY <2>4, <3>2 DEF Infer, Leave
    <3> QED
      BY <2>3, <3>3
  <2>5. CASE Batch
    <3>1. chunkN = 0 /\ MaxSpecials \in Nat
      BY <2>5, StreamingAssumption DEF StreamingAssumption, Batch, StreamInv, PlanInv
    <3> QED
      BY <2>2, <3>1
  <2>6. CASE Synthesize \/ T3Throws \/ T3Done \/ Top
    BY <2>3, <2>6 DEF Synthesize, T3Throws, T3Done, Top, Leave
  <2>7. CASE Deliver \/ DeliverThrows \/ Return
    BY <2>3, <2>7 DEF Deliver, DeliverThrows, Return, Leave
  <2>8. CASE Cancel \/ UNCHANGED vars
    BY <2>3, <2>8 DEF Cancel, vars
  <2> QED
    BY <2>4, <2>5, <2>6, <2>7, <2>8 DEF Next, Quiet
<1> QED
  BY StreamInvHolds, <1>1, <1>2, PTL DEF Spec

-----------------------------------------------------------------------------
(* Streaming implements SpeechStream: what reaches the callback, however   *)
(* the utterance is cut, is the delivery that module describes.            *)


(* The mapped variables of SpeechStream.                                   *)
Planned   == IF boundaries = {} \/ Whole < 0 THEN 0 ELSE Whole
Delivered == Len(Concat(heard))

(* The mapping depends on the engine's options, the utterance, the plan,   *)
(* the place in it and the calls of the callback only.                     *)
LEMMA SameStream ==
  ASSUME UNCHANGED <<chunkN, prompt, speech, boundaries, heard>>
  PROVE  Planned' = Planned /\ Delivered' = Delivered /\ (chunkN = 0)' = (chunkN = 0)
BY DEF Planned, Delivered, Whole, MelFrames, MuFrames, EncoderFrames, Total, Concat

(* While the loop runs the callback has what was emitted. *)
LEMMA DeliveredIsEmitted ==
  ASSUME StreamInv, InLoop
  PROVE  Delivered = emitted /\ emitted \in Nat /\ chunkN # 0 /\ boundaries # {}
<1>1. Concat(heard) = pcm /\ pcm = Frames(0, emitted) /\ emitted \in Nat
  BY DEF StreamInv, DeliveredInv, EmitInv, TypeOK
<1>2. Len(pcm) = emitted
  BY <1>1, FramesType
<1>3. chunkN # 0 /\ boundaries # {}
  BY DEF StreamInv, PlanInv
<1> QED
  BY <1>1, <1>2, <1>3 DEF Delivered

(* No prefix of the utterance has more frames than all of it. *)
LEMMA WholeIsMost ==
  ASSUME StreamInv, NEW e \in Nat, e <= Total(speech), NEW f \in BOOLEAN
  PROVE  Whole \in Int /\ MelFrames(e, f) \in Int /\ MelFrames(e, f) <= Whole
<1>1. Total(speech) \in Nat
  BY TotalType DEF StreamInv
<1>2. /\ EncoderFrames(e) \in Int /\ EncoderFrames(Total(speech)) \in Int
      /\ EncoderFrames(e) <= EncoderFrames(Total(speech))
  BY <1>1, EncoderGrows DEF StreamInv
<1>3. prompt.frames \in Nat
  BY StreamingAssumption DEF StreamInv, TypeOK, StreamingAssumption
<1> QED
  BY <1>2, <1>3 DEF Whole, MelFrames, MuFrames, Trim, Lookahead

-----------------------------------------------------------------------------
(* One lemma per step of SpeechStream. *)

(* synthesize() with a callback opens a stream; without streaming it does  *)
(* not touch it.                                                           *)
LEMMA SynthesizeCalls ==
  ASSUME StreamInv, Synthesize
  PROVE  Promise!Call \/ UNCHANGED Promise!vars
<1> USE DEF optVars, planVars, loopVars, histVars
<1>1. /\ pc = "idle" /\ pc' = "t3" /\ boundaries' = {} /\ heard' = <<>> /\ UNCHANGED chunkN
  BY DEF Synthesize
<1>2. Planned' = 0 /\ Delivered' = 0
  <2>1. Concat(heard)' = <<>>
    BY <1>1, ConcatEmpty DEF Concat
  <2> QED
    BY <1>1, <2>1 DEF Planned, Delivered
<1>3. CASE chunkN = 0
  <2>1. boundaries = {} /\ heard = <<>>
    BY <1>3 DEF StreamInv, DeliveredInv
  <2>2. Planned = 0 /\ Delivered = 0
    BY <2>1, ConcatEmpty DEF Planned, Delivered
  <2>3. StreamState = "idle" /\ StreamState' = "idle"
    BY <1>1, <1>3 DEF StreamState
  <2> QED
    BY <1>2, <2>2, <2>3 DEF Promise!vars, Planned, Delivered
<1>4. CASE chunkN # 0
  <2>1. StreamState \in {"idle", "complete", "failed"}
    BY <1>1, <1>4 DEF StreamState, InLoop
  <2>2. StreamState' = "open"
    BY <1>1, <1>4 DEF StreamState, InLoop
  <2> QED
    BY <1>2, <2>1, <2>2 DEF Promise!Call, Planned, Delivered
<1> QED
  BY <1>3, <1>4

(* T3's tokens start it: from now on its length is known. *)
LEMMA TokensStart ==
  ASSUME StreamInv, T3Done
  PROVE  Promise!Start \/ UNCHANGED Promise!vars
<1> USE DEF optVars, planVars, loopVars, histVars
<1>1. /\ pc = "t3" /\ UNCHANGED <<chunkN, heard, prompt>>
      /\ chunkN = 0 => boundaries' = {}
      /\ chunkN > 0 => pc' = "top"
    BY DEF T3Done
<1>2. Delivered' = Delivered
  BY <1>1 DEF Delivered, Concat
<1>3. CASE chunkN = 0
  <2>1. Planned = 0 /\ Planned' = 0
    BY <1>1, <1>3 DEF StreamInv, DeliveredInv, Planned
  <2>2. StreamState = "idle" /\ StreamState' = "idle"
    BY <1>1, <1>3 DEF StreamState
  <2> QED
    BY <1>2, <2>1, <2>2 DEF Promise!vars, Planned, Delivered
<1>4. CASE chunkN # 0
  <2>1. chunkN > 0
    BY <1>4, StreamingAssumption DEF StreamingAssumption, StreamInv, TypeOK
  <2>2. StreamState = "open" /\ StreamState' = "speaking"
    BY <1>1, <1>4, <2>1 DEF StreamState, InLoop
  <2>3. Whole' \in Int
    <3> DEFINE t == Total(speech')
               c == Cardinality(speech'.special \cap 1 .. t)
    <3>1. t \in Nat
      <4>1. PICK n \in 0 .. MaxTokens : speech'.n = n
        BY DEF T3Done
      <4> QED
        BY <4>1, StreamingAssumption DEF StreamingAssumption, Total, Lookahead
    <3>2. c \in Nat
      <4> HIDE DEF t
      <4>1. t <= t
        BY <3>1
      <4> QED
        BY <3>1, <4>1, SpecialsOfPrefix
    <3>3. prompt.tokens \in Nat /\ prompt.frames \in Nat
      BY StreamingAssumption DEF StreamingAssumption, StreamInv, TypeOK
    <3>4. Whole' = 2 * (prompt.tokens + t - c) - prompt.frames
      <4>1. 2 * (prompt.tokens + t - c) - 0 = 2 * (prompt.tokens + t - c)
        <5> HIDE DEF t, c
        <5> QED
          BY <3>1, <3>2, <3>3
      <4> QED
        BY <1>1, <4>1 DEF Whole, MelFrames, MuFrames, EncoderFrames, Total
    <3> HIDE DEF t, c
    <3> QED
      BY <3>1, <3>2, <3>3, <3>4
  <2>4. Planned' \in Nat
    BY <2>3 DEF Planned
  <2> QED
    BY <1>2, <2>2, <2>4 DEF Promise!Start, Planned, Delivered
<1> QED
  BY <1>3, <1>4

(* A chunk is one delivery, whether the callback returns or throws. *)
LEMMA ChunkDelivers ==
  ASSUME StreamInv, Deliver \/ DeliverThrows
  PROVE  Promise!Deliver
<1> USE DEF optVars, planVars, loopVars, histVars
<1>1. /\ pc = "deliver" /\ OnChunk(IsLast) /\ UNCHANGED <<chunkN, prompt, speech, boundaries>>
      /\ pc' = "top" \/ (pc' = "idle" /\ outcome' = "thrown")
  BY DEF Deliver, DeliverThrows, Leave
<1>2. /\ InLoop /\ Delivered = emitted /\ emitted \in Nat
      /\ chunkN # 0 /\ boundaries # {}
  BY <1>1, DeliveredIsEmitted DEF InLoop
<1>3. StreamState = "speaking" /\ StreamState' \in {"speaking", "failed"}
  BY <1>1, <1>2 DEF StreamState, InLoop
<1>4. /\ Len(chunk) \in Nat /\ Len(chunk) > 0 /\ End \in Nat /\ End <= Total(speech)
      /\ emitted + Len(chunk) = MelFrames(End, IsLast)
  BY <1>1, ChunkNotEmpty
<1>5. Whole \in Int /\ MelFrames(End, IsLast) <= Whole
  BY <1>4, WholeIsMost DEF IsLast
<1>6. Planned = Whole
  BY <1>2, <1>4, <1>5 DEF Planned
<1>7. Planned' = Planned
  BY <1>1 DEF Planned, Whole, MelFrames, MuFrames, EncoderFrames, Total
<1>8. Delivered' = emitted + Len(chunk)
  <2>1. Concat(heard)' = Concat(heard) \o chunk
    BY <1>1, HeardGrows
  <2>2. Concat(heard) = pcm /\ pcm \in Seq(Nat) /\ chunk \in Seq(Nat)
    BY <1>2 DEF StreamInv, DeliveredInv, TypeOK
  <2>3. Len(pcm) = emitted
    BY <1>2, <2>2 DEF Delivered
  <2> QED
    BY <2>1, <2>2, <2>3, ConcatProperties DEF Delivered
<1>9. Delivered' \in Delivered + 1 .. Planned
  BY <1>2, <1>4, <1>5, <1>6, <1>8
<1> QED
  BY <1>3, <1>7, <1>9 DEF Promise!Deliver, Planned, Delivered

(* The loop ends with everything delivered. *)
LEMMA ReturnCompletes ==
  ASSUME StreamInv, Return
  PROVE  Promise!Complete
<1> USE DEF optVars, planVars, loopVars, histVars
<1>1. /\ pc = "top" /\ at = Total(speech) /\ pc' = "idle" /\ outcome' = "ok"
      /\ UNCHANGED <<chunkN, prompt, speech, boundaries, heard>>
  BY DEF Return, Leave
<1>2. InLoop /\ Delivered = emitted /\ emitted \in Nat /\ chunkN # 0 /\ boundaries # {}
  BY <1>1, DeliveredIsEmitted DEF InLoop
<1>3. StreamState = "speaking" /\ StreamState' = "complete"
  BY <1>1, <1>2 DEF StreamState, InLoop
<1>4. at > 0
  BY <1>1, TotalType DEF StreamInv
<1>5. emitted > 0
  BY <1>2, <1>4 DEF StreamInv, DeliveredInv
<1>6. emitted = Whole
  BY <1>1, <1>2, <1>4 DEF StreamInv, EmitInv, Whole
<1>7. Planned = emitted
  BY <1>2, <1>5, <1>6 DEF Planned
<1>8. Planned' = Planned /\ Delivered' = Delivered
  BY <1>1, SameStream
<1> QED
  BY <1>2, <1>3, <1>5, <1>7, <1>8 DEF Promise!Complete, Planned, Delivered

(* T3, the loop and S3Gen fail the stream or leave it as it is. *)
LEMMA OtherStepsFail ==
  ASSUME StreamInv, T3Throws \/ Top \/ Infer
  PROVE  Promise!Fail \/ UNCHANGED Promise!vars
<1> USE DEF optVars, planVars, loopVars, histVars
<1>1. /\ UNCHANGED <<chunkN, prompt, speech, boundaries, heard>>
      /\ pc \in {"t3", "top", "infer"}
      /\ \/ pc' = "idle" /\ outcome' \in {"thrown", "cancelled", "rejected", "aborted"}
         \/ pc # "t3" /\ pc' \in {"infer", "deliver"}
  BY DEF T3Throws, Top, Infer, Leave
<1>2. Planned' = Planned /\ Delivered' = Delivered
  BY <1>1, SameStream
<1>3. CASE chunkN = 0
  <2>1. StreamState' = StreamState
    BY <1>1, <1>3 DEF StreamState
  <2> QED
    BY <1>2, <2>1 DEF Promise!vars, Planned, Delivered
<1>4. CASE chunkN # 0
  <2>1. StreamState = IF pc = "t3" THEN "open" ELSE "speaking"
    BY <1>1, <1>4 DEF StreamState, InLoop
  <2>2. StreamState' = "failed" \/ (StreamState = "speaking" /\ StreamState' = "speaking")
    BY <1>1, <1>4, <2>1 DEF StreamState, InLoop
  <2> QED
    BY <1>2, <2>1, <2>2 DEF Promise!Fail, Promise!vars, Planned, Delivered
<1> QED
  BY <1>3, <1>4

(* What is not streaming, and a cancel(), are no steps of the stream. *)
LEMMA UnseenSteps ==
  ASSUME StreamInv, Batch \/ Cancel \/ UNCHANGED vars
  PROVE  UNCHANGED Promise!vars
<1> USE DEF optVars, planVars, loopVars, histVars
<1>1. UNCHANGED <<chunkN, prompt, speech, boundaries, heard>>
  BY DEF Batch, Cancel, vars
<1>2. Planned' = Planned /\ Delivered' = Delivered
  BY <1>1, SameStream
<1>3. StreamState' = StreamState
  <2>1. CASE chunkN = 0
    BY <1>1, <2>1 DEF StreamState
  <2>2. CASE chunkN # 0
    <3>1. UNCHANGED <<pc, outcome>>
      BY <2>2 DEF Batch, Cancel, vars, StreamInv, PlanInv
    <3> QED
      BY <1>1, <3>1 DEF StreamState, InLoop
  <2> QED
    BY <2>1, <2>2
<1> QED
  BY <1>2, <1>3 DEF Promise!vars, Planned, Delivered

(* The chunk loop implements SpeechStream: an in-order, gap-free delivery  *)
(* of the whole utterance, or a call that fails, for every plan and voice. *)
THEOREM StreamKeepsPromise == Spec => KeepsPromise
<1>1. Init => Promise!Init
  <2> SUFFICES ASSUME Init PROVE Promise!Init
    OBVIOUS
  <2>1. pc = "idle" /\ outcome = "none" /\ boundaries = {} /\ heard = <<>>
    BY DEF Init
  <2>2. StreamState = "idle"
    BY <2>1 DEF StreamState, InLoop
  <2>3. Planned = 0 /\ Delivered = 0
    BY <2>1, ConcatEmpty DEF Planned, Delivered
  <2> QED
    BY <2>2, <2>3 DEF Promise!Init, Planned, Delivered
<1>2. StreamInv /\ [Next]_vars => [Promise!Next]_Promise!vars
  <2> SUFFICES ASSUME StreamInv, [Next]_vars PROVE Promise!Next \/ UNCHANGED Promise!vars
    OBVIOUS
  <2>1. CASE Synthesize
    BY <2>1, SynthesizeCalls DEF Promise!Next
  <2>2. CASE T3Done
    BY <2>2, TokensStart DEF Promise!Next
  <2>3. CASE Deliver \/ DeliverThrows
    BY <2>3, ChunkDelivers DEF Promise!Next
  <2>4. CASE Return
    BY <2>4, ReturnCompletes DEF Promise!Next
  <2>5. CASE T3Throws \/ Top \/ Infer
    BY <2>5, OtherStepsFail DEF Promise!Next
  <2>6. CASE Batch \/ Cancel \/ UNCHANGED vars
    BY <2>6, UnseenSteps
  <2> QED
    BY <2>1, <2>2, <2>3, <2>4, <2>5, <2>6 DEF Next, Quiet
<1> QED
  BY StreamInvHolds, <1>1, <1>2, PTL DEF Spec, KeepsPromise, Promise!Spec
=============================================================================
