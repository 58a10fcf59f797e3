------------------------------ MODULE Sampling ------------------------------
(***************************************************************************)
(* The two samplers: sample_next_token_ex (Turbo) and                      *)
(* sample_next_token_mtl (multilingual).                                   *)
(*                                                                         *)
(* Tokens are 0 .. V-1 and `l' maps each to its score, an integer, or to   *)
(* NegInf once a filter removed it.  The weight of a score is a power of   *)
(* two below that of the best one, and 0 more than Precision below, as     *)
(* exp() underflows.  Numbers that are not integers in the code:           *)
(*   p.topP     top_p in quarters: 4 switches the filter off               *)
(*   p.logMinP  log(min_p), NegInf for min_p = 0                           *)
(*   r          the random draw, where only 0 differs from the rest        *)
(***************************************************************************)
EXTENDS Integers, FiniteSetsExt, SequencesExt

CONSTANTS
    Stop,       \* stop_token, what a degenerate distribution returns (mtl)
    Logits,     \* the scores the samplers are given,
    Histories,  \* with the tokens generated before
    Params      \* and the sampling parameters

NegInf == -1000
Precision == 20

Best(l) == Max({l[t] : t \in DOMAIN l})
Kept(l) == {t \in DOMAIN l : l[t] # NegInf}
Only(l, S) == [t \in DOMAIN l |-> IF t \in S THEN l[t] ELSE NegInf]

Weight(l, t) ==
    IF l[t] = NegInf \/ Best(l) - l[t] > Precision THEN 0 ELSE 2 ^ (Precision - (Best(l) - l[t]))
Mass(l, S) == MapThenSumSet(LAMBDA t : Weight(l, t), S)

\* The k-th largest score (std::nth_element with `greater').
Largest(l, k) ==
    CHOOSE v \in {l[t] : t \in DOMAIN l} :
        /\ Quantify(DOMAIN l, LAMBDA t : l[t] > v) < k
        /\ Quantify(DOMAIN l, LAMBDA t : l[t] >= v) >= k

Heat(s, temp) == IF temp > 0 THEN s \div temp ELSE s

\* One application of repeat_penalty: towards zero from above, away from it
\* below.
Penalty(s, penalty) ==
    IF s = NegInf THEN s ELSE IF s > 0 THEN s \div penalty ELSE s * penalty

\* Turbo penalises a token once, however often it was generated ...
PenaliseOnce(l, generated, penalty) ==
    [t \in DOMAIN l |-> IF t \in ToSet(generated) THEN Penalty(l[t], penalty) ELSE l[t]]
\* ... and the multilingual loop once per occurrence.
PenaliseEach(l, generated, penalty) ==
    FoldLeft(LAMBDA m, t : [m EXCEPT ![t] = Penalty(@, penalty)], l, generated)

\* top_p: the sort is unstable, so tokens of one score come in any order.  A
\* possible outcome is a prefix of a possible order that ends with the token
\* at which the mass reaches top_p.
TopP(l, topP) ==
    {S \in (SUBSET Kept(l)) \ {{}} :
        /\ \A t \in S, u \in Kept(l) \ S : l[t] >= l[u]
        /\ 4 * Mass(l, S) >= topP * Mass(l, Kept(l))
        /\ \/ Cardinality(S) = 1
           \/ \E t \in S : /\ \A u \in S : l[u] >= l[t]
                           /\ 4 * Mass(l, S \ {t}) < topP * Mass(l, Kept(l))}

Nucleus(l, topP) == IF Kept(l) = {} THEN {l} ELSE {Only(l, S) : S \in TopP(l, topP)}

\* Fault: nth_element places the k-th score, counting from one.
TopKTurbo_CountsFromOne(l, k) ==
    IF k = 0 \/ k >= Cardinality(DOMAIN l) THEN l
    ELSE Only(l, {t \in DOMAIN l : l[t] > Largest(l, k)})

\* The Turbo top_k removes what is not above the (k+1)-th score.  When a tie
\* leaves fewer than k it lowers the threshold by 1e-10f, which a float only
\* notices next to zero.
TopKTurbo(l, k) ==
    IF k = 0 \/ k >= Cardinality(DOMAIN l) THEN l
    ELSE LET threshold == Largest(l, k + 1)
             kept == {t \in DOMAIN l : l[t] > threshold}
         IN Only(l, IF threshold = 0 /\ Cardinality(kept) < k
                    THEN {t \in DOMAIN l : l[t] >= 0} ELSE kept)

\* Fault: the index k of nth_element is the (k+1)-th score.
TopKMtl_FromZero(l, k) ==
    IF k = 0 \/ k >= Cardinality(DOMAIN l) THEN l
    ELSE Only(l, {t \in DOMAIN l : l[t] >= Largest(l, k + 1)})

\* The multilingual top_k keeps what ties with the k-th score.
TopKMtl(l, k) ==
    IF k = 0 \/ k >= Cardinality(DOMAIN l) THEN l
    ELSE Only(l, {t \in DOMAIN l : l[t] >= Largest(l, k)})

MinP(l, logMinP) ==
    IF logMinP = NegInf THEN l
    ELSE Only(l, {t \in DOMAIN l : l[t] >= Best(l) + logMinP})

\* The first token whose cumulated weight reaches the draw: any one with a
\* weight, and token 0 for a draw of exactly zero.
Draw(l, r) == IF r = 0 THEN {0} ELSE {t \in DOMAIN l : Weight(l, t) > 0}

\* The scores the filters see: Turbo penalises after them, the multilingual
\* sampler before.
TurboHot(logits, p) == [t \in DOMAIN logits |-> Heat(logits[t], p.temp)]
MtlHot(logits, generated, p) ==
    LET penalised == PenaliseEach(logits, generated, p.penalty)
    IN [t \in DOMAIN logits |-> Heat(penalised[t], p.temp)]

\* All tokens sample_next_token_ex may return.
SampleTurbo(logits, generated, p, r) ==
    UNION {LET l == PenaliseOnce(n, generated, p.penalty)
           IN IF Kept(l) = {} THEN {0}
              ELSE IF p.temp <= 0 THEN {Min({t \in DOMAIN l : l[t] = Best(l)})}
              ELSE Draw(l, r) :
           n \in LET k == TopKTurbo(TurboHot(logits, p), p.topK)
                 IN IF p.topP < 4 THEN Nucleus(k, p.topP) ELSE {k}}

\* All tokens sample_next_token_mtl may return for the guided logits.  Its
\* top_p = 0 switches the filter off.
SampleMtl(logits, generated, p, r) ==
    LET likely == MinP(MtlHot(logits, generated, p), p.logMinP)
    IN UNION {LET l == TopKMtl(n, p.topK)
              IN IF Kept(l) = {} THEN {Stop} ELSE Draw(l, r) :
              n \in IF p.topP \in 1 .. 3 THEN Nucleus(likely, p.topP) ELSE {likely}}

-----------------------------------------------------------------------------
\* References: what each filter is for, one token at a time.

Above(l, t) == {u \in DOMAIN l : l[u] > l[t]}
AmongBest(l, t, k) == k = 0 \/ Cardinality(Above(l, t)) < k
InNucleus(l, S, t, topP) == Above(l, t) \cap S = {} \/ 4 * Mass(l, Above(l, t) \cap S) < topP * Mass(l, S)

TurboBest(hot, p) == {t \in DOMAIN hot : AmongBest(hot, t, p.topK)}
TurboAllowed(hot, p) ==
    {t \in TurboBest(hot, p) : p.topP = 4 \/ InNucleus(hot, TurboBest(hot, p), t, p.topP)}

Likely(hot, p) ==
    {t \in DOMAIN hot : p.logMinP = NegInf \/ \A u \in DOMAIN hot : hot[t] >= hot[u] + p.logMinP}
MtlAllowed(hot, p) ==
    {t \in Likely(hot, p) : /\ AmongBest(hot, t, p.topK)
                            /\ p.topP \in {0, 4} \/ InNucleus(hot, Likely(hot, p), t, p.topP)}

\* A tie across the k-th place, away from zero: Turbo throws it out whole, if
\* not all tokens.
TiedOut(l, t, k) ==
    /\ k > 0
    /\ k < Cardinality({u \in DOMAIN l : l[u] >= l[t]})
    /\ l[t] # 0
LosesTie(hot, k) == \E t \in DOMAIN hot : AmongBest(hot, t, k) /\ TiedOut(hot, t, k)

\* A token a draw above zero cannot reach, because another is so much better.
Negligible(l, t, S) == \E u \in S : l[u] - l[t] > Precision

-----------------------------------------------------------------------------
\* A finite vocabulary of natural numbers and finite scores, before and after
\* the penalty; the history holds tokens of the vocabulary.
ASSUME SamplerInputs ==
    /\ \A logits \in Logits :
           /\ DOMAIN logits # {} /\ DOMAIN logits \subseteq Nat /\ IsFiniteSet(DOMAIN logits)
           /\ logits \in [DOMAIN logits -> Int]
           /\ \A hist \in Histories : hist \in Seq(DOMAIN logits)
    /\ \A p \in Params : /\ p.temp \in Int /\ p.topK \in Nat /\ p.topP \in 0 .. 4
                         /\ p.logMinP \in Int /\ p.penalty \in Nat \ {0}
    /\ \A logits \in Logits, hist \in Histories, p \in Params :
           \A t \in DOMAIN logits :
               /\ MtlHot(logits, hist, p)[t] > NegInf
               /\ TurboHot(logits, p)[t] > NegInf
               /\ Penalty(TurboHot(logits, p)[t], p.penalty) > NegInf

\* If no tie away from zero lies across the k-th place, what
\* sample_next_token_ex returns for a draw above zero is what the filters are
\* for: one of the top_k best, in the nucleus of those, and the best of them
\* after the penalty if the temperature is not positive.  Such a tie the code
\* loses: it keeps fewer than top_k tokens, which the lowered threshold is to
\* prevent (main.cpp:763-770), and returns token 0 if none is left, which
\* t3_mtl.cpp:1656-1661 says desyncs the sampler.  Nothing is said of it here.
TurboAsFiltered(logits, hist, p) ==
    LET hot == TurboHot(logits, p)
        best == TurboBest(hot, p)
        allowed == TurboAllowed(hot, p)
        l == PenaliseOnce(hot, hist, p.penalty)
        drawn == SampleTurbo(logits, hist, p, 1)
    IN ~LosesTie(hot, p.topK) =>
       IF p.temp > 0
       THEN /\ drawn \subseteq allowed
            /\ \A t \in allowed : t \in drawn \/ Negligible(l, t, allowed)
       ELSE \A t \in drawn :
                /\ t \in allowed
                /\ \A u \in best : p.topP = 4 \/ hot[u] > hot[t] => l[u] <= l[t]

\* What sample_next_token_mtl returns for a draw above zero is at least min_p
\* times as likely as the best token, in the nucleus of those and one of the
\* top_k best of the nucleus, ties included; the stop token stands for a
\* degenerate distribution only with a min_p above 1 (t3_mtl.cpp:1604-1663).
MtlAsFiltered(logits, hist, p) ==
    LET hot == MtlHot(logits, hist, p)
        allowed == MtlAllowed(hot, p)
        drawn == SampleMtl(logits, hist, p, 1)
    IN IF p.logMinP > 0 THEN drawn = {Stop}
       ELSE /\ drawn \subseteq allowed
            /\ \A t \in allowed : t \in drawn \/ Negligible(hot, t, allowed)
=============================================================================
