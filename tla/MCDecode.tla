------------------------------ MODULE MCDecode ------------------------------
(***************************************************************************)
(* The decode loops for TLC, with the samplers and the merge loop of the   *)
(* tokenizers checked against their references on all inputs of the bounds *)
(* below.                                                                  *)
(***************************************************************************)
EXTENDS SampledDecode

\* Bounds of the sampler inputs.
AllLogits == [0 .. 2 -> {-8, 0, 8}]
AllHistories == {<<>>, <<0>>, <<1>>, <<1, 1>>}
AllParams == [temp : {0, 2}, topK : 0 .. 3, topP : {0, 2, 3, 4},
              logMinP : {NegInf, -8, 1}, penalty : {1, 2}]

\* Bounds of the tokenizer inputs.
PartsOf(n) == UNION {[1 .. k -> Chars] : k \in 1 .. n}
AllTables ==
    {m \in UNION {[1 .. k -> PartsOf(2) \X PartsOf(2)] : k \in 0 .. 3} : Trained(m)}
AllWords == UNION {[1 .. k -> Chars] : k \in 0 .. 6}
=============================================================================
