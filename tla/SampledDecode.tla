--------------------------- MODULE SampledDecode ----------------------------
(***************************************************************************)
(* The decode loops with the functions around them: the tokenizers that    *)
(* make their text and the samplers they call.  What these return depends  *)
(* on their arguments alone, and T3Decode takes any text and any token     *)
(* for it, so they are only looked at before the first call.               *)
(***************************************************************************)
EXTENDS T3Decode, Sampling, BpeMerge

Untouched == calls = 0 /\ cancelFlag = "clear"

\* Whatever the scores, the history and the parameters, what the Turbo loop
\* draws is what the filters of sample_next_token_ex are for, where no tie
\* lies across the k-th place (main.cpp:749-824).
TurboDrawsAsFiltered ==
    Untouched /\ variant = "turbo" =>
    \A logits \in Logits, hist \in Histories, p \in Params : TurboAsFiltered(logits, hist, p)

\* The same for the multilingual loop and sample_next_token_mtl
\* (t3_mtl.cpp:1584-1680).
MtlDrawsAsFiltered ==
    Untouched /\ variant = "mtl" =>
    \A logits \in Logits, hist \in Histories, p \in Params : MtlAsFiltered(logits, hist, p)

\* Whatever the word and the trained merges, the text of either model is cut
\* into the tokens of the published algorithm (gpt2_bpe.cpp:110-121,
\* mtl_tokenizer.cpp:605-629).
BpeMatchesReference ==
    Untouched => \A merges \in MergeTables, word \in Words : MergesAsTrained(word, merges)
=============================================================================
