---------------------------- MODULE MCStreaming -----------------------------
(* Instances of Streaming for TLC.  Real voices have 2 prompt frames per   *)
(* token, give or take the rounding of the reference's length.             *)
EXTENDS Streaming

Voices == {[tokens |-> 2, frames |-> 4], [tokens |-> 2, frames |-> 3]}
EvenVoice == {[tokens |-> 2, frames |-> 4]}
=============================================================================
