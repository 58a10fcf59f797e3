------------------------------ MODULE BpeMerge ------------------------------
(***************************************************************************)
(* The merge loop of both tokenizers: gpt2_bpe's bpe_merge and             *)
(* mtl_tokenizer::bpe_word.  A part is a sequence of characters, a merge   *)
(* table a sequence of pairs of parts whose index is the rank.             *)
(***************************************************************************)
EXTENDS Integers, Sequences, FiniteSetsExt

CONSTANTS
    Chars,      \* the characters of a word
    Words,      \* the words that are tokenized,
    MergeTables \* with these merges

Part == Seq(Chars) \ {<<>>}

\* find_rank, 0 for -1; of equal pairs the map keeps the last.
FindRank(merges, left, right) ==
    LET ranks == {r \in DOMAIN merges : merges[r] = <<left, right>>}
    IN IF ranks = {} THEN 0 ELSE Max(ranks)

Rank(parts, i, merges) == FindRank(merges, parts[i], parts[i + 1])
Ranked(parts, merges) == {i \in 1 .. Len(parts) - 1 : Rank(parts, i, merges) > 0}
Lowest(parts, merges) ==
    {i \in Ranked(parts, merges) :
        \A j \in Ranked(parts, merges) : Rank(parts, i, merges) <= Rank(parts, j, merges)}

\* Fault: <= instead of < takes the last of the pairs of lowest rank.
BestPair_Last(parts, merges) == Max(Lowest(parts, merges))

\* best_i: the first of the pairs of lowest rank.
BestPair(parts, merges) == Min(Lowest(parts, merges))

MergeAt(parts, i) ==
    [k \in 1 .. Len(parts) - 1 |->
        IF k < i THEN parts[k] ELSE IF k = i THEN parts[i] \o parts[i + 1] ELSE parts[k + 1]]

\* The body of the while loop, which does nothing once it would break.
Iteration(parts, merges) ==
    IF Ranked(parts, merges) = {} THEN parts ELSE MergeAt(parts, BestPair(parts, merges))

Characters(word) == [i \in DOMAIN word |-> <<word[i]>>]

\* The parts after n iterations.  Each one that merges leaves a part less, so
\* that after Len(word) of them the loop has ended.
Merged(word, merges) ==
    LET parts[n \in Nat] == IF n = 0 THEN Characters(word) ELSE Iteration(parts[n - 1], merges)
    IN parts

Bpe(word, merges) == Merged(word, merges)[Len(word)]

-----------------------------------------------------------------------------
\* The published algorithm: take the pair of lowest rank that occurs and
\* merge all its occurrences, left to right, in one pass.

\* The next part of a pass: it completes the pair or starts a new part.  A
\* merged part is longer than left, hence not merged again.
Scan(out, part, left, right) ==
    IF out # <<>> /\ out[Len(out)] = left /\ part = right
    THEN [out EXCEPT ![Len(out)] = left \o right]
    ELSE Append(out, part)

Scanned(parts, left, right) ==
    LET out[j \in 0 .. Len(parts)] ==
            IF j = 0 THEN <<>> ELSE Scan(out[j - 1], parts[j], left, right)
    IN out

MergeAll(parts, left, right) == Scanned(parts, left, right)[Len(parts)]

Present(parts, merges) ==
    {r \in DOMAIN merges : \E i \in 1 .. Len(parts) - 1 : merges[r] = <<parts[i], parts[i + 1]>>}

Pass(parts, merges) ==
    IF Present(parts, merges) = {} THEN parts
    ELSE LET r == Min(Present(parts, merges)) IN MergeAll(parts, merges[r][1], merges[r][2])

Passes(word, merges) ==
    LET parts[n \in Nat] == IF n = 0 THEN Characters(word) ELSE Pass(parts[n - 1], merges)
    IN parts

MergedByPair(word, merges) == Passes(word, merges)[Len(word)]

-----------------------------------------------------------------------------
Joined(pair) == pair[1] \o pair[2]

\* What training produces: every part of a merge is a character or the result
\* of an earlier merge, and no two merges make the same token.  Without the
\* latter the loop and the algorithm differ: with the merges a b, b c, a bc,
\* abc ab, ab c, in this order, the loop leaves abcab c of abcabc, and the
\* passes abc abc.
Trained(merges) ==
    /\ \A r \in DOMAIN merges, k \in {1, 2} :
           \/ \E c \in Chars : merges[r][k] = <<c>>
           \/ \E q \in DOMAIN merges : q < r /\ merges[r][k] = Joined(merges[q])
    /\ \A q, r \in DOMAIN merges : Joined(merges[q]) = Joined(merges[r]) => q = r

\* Words of these characters, and vocabularies that were trained.
ASSUME TokenizerInputs ==
    /\ \A word \in Words : word \in Seq(Chars)
    /\ \A merges \in MergeTables : merges \in Seq(Part \X Part) /\ Trained(merges)

\* Merging the first pair of lowest rank, one at a time, gives the tokens the
\* vocabulary was trained for: those of merging all occurrences of that pair
\* in one left-to-right pass, also where occurrences overlap.
MergesAsTrained(word, merges) == Bpe(word, merges) = MergedByPair(word, merges)
=============================================================================
