---------------------------- MODULE MCS3GenCache ----------------------------
(* Instances of S3GenCache for TLC. *)
EXTENDS S3GenCache, TLC

(* Threads, model_ctx objects and addresses are interchangeable.           *)
Symmetry == Permutations(Threads) \cup Permutations(Models) \cup Permutations(Addrs)
=============================================================================
