---------------------------- MODULE SpeechStream ----------------------------
(***************************************************************************)
(* What streaming synthesis promises the owner of the callback, however    *)
(* the utterance is cut into chunks: audio arrives in order without gaps   *)
(* or repeats, every chunk brings something new, and a call completes only *)
(* when all of the utterance was delivered and that is not nothing         *)
(* (engine.h:190-193: on_chunk gets "each chunk's PCM in order", the       *)
(* result is "the concatenated audio"; engine.h:181: it is not empty).     *)
(***************************************************************************)
EXTENDS Naturals

VARIABLES
    state,      \* idle, open (T3 decodes), speaking, complete, failed
    total,      \* frames of the utterance, 0 until T3 is done
    delivered   \* frames the callback has received

vars == <<state, total, delivered>>

Init == state = "idle" /\ total = 0 /\ delivered = 0

Call ==
    /\ state \in {"idle", "complete", "failed"}
    /\ state' = "open"
    /\ total' = 0
    /\ delivered' = 0

Start ==
    /\ state = "open"
    /\ state' = "speaking"
    /\ total' \in Nat
    /\ UNCHANGED delivered

(* A callback that throws has received its chunk.                          *)
Deliver ==
    /\ state = "speaking"
    /\ delivered' \in delivered + 1 .. total
    /\ state' \in {"speaking", "failed"}
    /\ UNCHANGED total

Complete ==
    /\ state = "speaking"
    /\ delivered = total /\ delivered > 0
    /\ state' = "complete"
    /\ UNCHANGED <<total, delivered>>

Fail ==
    /\ state \in {"open", "speaking"}
    /\ state' = "failed"
    /\ UNCHANGED <<total, delivered>>

Next == Call \/ Start \/ Deliver \/ Complete \/ Fail

Spec == Init /\ [][Next]_vars
=============================================================================
