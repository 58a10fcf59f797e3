----------------------------- MODULE Streaming ------------------------------
(***************************************************************************)
(* Engine::Impl::synthesize after T3: the chunk loop of                    *)
(* synthesize_streaming and the single call of synthesize_batch, over the  *)
(* frame accounting of s3gen_synthesize_to_wav, with cancel() called from  *)
(* another thread and callbacks that may throw.                            *)
(*                                                                         *)
(* Audio is counted in mel frames of 480 samples.  Frame f of an utterance *)
(* is its f-th frame beyond the voice prompt.  S3Gen drops speech tokens   *)
(* outside its vocabulary ("special") and makes two frames of every other  *)
(* one; a call that is not final gives up the last 6 frames, which lack    *)
(* the right context of 3 more tokens.                                     *)
(***************************************************************************)
EXTENDS Integers, Sequences, FiniteSets, FiniteSetsExt

CONSTANTS
    ChunkSizes,   \* options.stream_chunk_tokens; 0 disables streaming
    FirstSizes,   \* options.stream_first_chunk_tokens; 0: as the others
    Prompts,      \* voices: [tokens |-> n_prompt, frames |-> mel_len1]
    MaxTokens,    \* bound on the tokens T3 returns: n_predict + 1
    MaxSpecials,  \* bound on the special tokens among them
    Calls         \* bound on the calls of one behaviour

ASSUME StreamingAssumption ==
    /\ ChunkSizes \cup FirstSizes \subseteq Nat
    /\ {MaxTokens, MaxSpecials, Calls} \subseteq Nat
    /\ Prompts \subseteq [tokens : Nat, frames : Nat]

VARIABLES
    chunkN, firstN, prompt,  \* the engine's options and voice
    cancelFlag,  \* set or clear
    pc,          \* idle, t3, top (of the for), infer, deliver, batch
    speech,      \* what T3 returned: [n |-> tokens, special |-> positions]
    boundaries,  \* the cuts of the token sequence, {} before the plan
    at,          \* boundaries[k - 1]: the tokens behind the chunks so far
    k,           \* chunk number, from 1
    emitted,     \* prev_mels_emitted
    chunk,       \* chunk_pcm, as frame numbers
    pcm,         \* result.pcm
    heard,       \* history: the calls of on_chunk
    outcome,     \* how the last call ended
    calls,
    asked,       \* history: a cancel() came during this call
    late         \* history: chunks delivered since

optVars  == <<chunkN, firstN, prompt>>
planVars == <<speech, boundaries>>
loopVars == <<at, k, emitted, chunk, pcm, heard>>
histVars == <<calls, asked, late>>
vars == <<optVars, planVars, loopVars, histVars, cancelFlag, pc, outcome>>

Lookahead == 3            \* kS3GenLookaheadTokens, pre_lookahead_len
Trim == 2 * Lookahead

Total(s) == s.n + Lookahead      \* total_n, and batch's own padding

MaxTotal == MaxTokens + Lookahead
Frames(a, b) == [j \in 1 .. b - a |-> a + j]

TypeOK ==
    /\ chunkN \in ChunkSizes /\ firstN \in FirstSizes /\ prompt \in Prompts
    /\ cancelFlag \in {"set", "clear"}
    /\ pc \in {"idle", "t3", "top", "infer", "deliver", "batch"}
    /\ speech.n \in 0 .. MaxTokens /\ speech.special \subseteq 1 .. speech.n
    /\ boundaries \subseteq 0 .. MaxTotal
    /\ at \in boundaries \cup {0}
    /\ k \in 1 .. MaxTotal + 1
    /\ emitted \in Nat
    /\ \A s \in {chunk, pcm} : s \in Seq(Nat)
    /\ heard \in Seq([index : Nat, frames : Seq(Nat), last : BOOLEAN])
    /\ outcome \in {"none", "ok", "thrown", "rejected", "cancelled", "aborted"}
    /\ calls \in 0 .. Calls
    /\ asked \in {"yes", "no"}
    /\ late \in 0 .. MaxTotal

NoSpeech == [n |-> 0, special |-> {}]

Init ==
    /\ chunkN \in ChunkSizes /\ firstN \in FirstSizes /\ prompt \in Prompts
    /\ cancelFlag = "clear"
    /\ pc = "idle"
    /\ speech = NoSpeech
    /\ boundaries = {}
    /\ at = 0 /\ k = 1 /\ emitted = 0
    /\ chunk = <<>> /\ pcm = <<>> /\ heard = <<>>
    /\ outcome = "none"
    /\ calls = 0
    /\ asked = "no" /\ late = 0

-----------------------------------------------------------------------------
(* The plan.                                                               *)

First == IF firstN > 0 THEN firstN ELSE chunkN
MinTail == Max({6, chunkN \div 3})

(* Fault: a tiny last chunk is left alone.                                 *)
Boundaries_NoMerge(n) ==
    {0, n} \cup {Min({First + j * chunkN, n}) : j \in 0 .. n}

(* A first chunk, equal ones after it, and a last one that takes in the    *)
(* cut before it when it would be tiny.                                    *)
Boundaries(n) ==
    LET cuts  == {0, n} \cup {Min({First + j * chunkN, n}) : j \in 0 .. n}
        inner == cuts \ {0, n}
    IN  IF inner # {} /\ n - Max(inner) < MinTail THEN cuts \ {Max(inner)} ELSE cuts

End == Min({b \in boundaries : b > at})
IsLast == End = Total(speech)

-----------------------------------------------------------------------------
(* s3gen_synthesize_to_wav on the first "end" tokens.                      *)

(* Two frames per token of the prompt and of the text S3Gen keeps.         *)
EncoderFrames(end) == 2 * (prompt.tokens + end - Cardinality(speech.special \cap 1 .. end))

(* T_mu and T_mel_full.                                                    *)
MuFrames(end, finalize) == EncoderFrames(end) - (IF finalize THEN 0 ELSE Trim)
MelFrames(end, finalize) == MuFrames(end, finalize) - prompt.frames

(* Its three early returns.                                                *)
Refused(end, finalize, skip) ==
    \/ ~finalize /\ EncoderFrames(end) <= Trim
    \/ prompt.frames > MuFrames(end, finalize)
    \/ skip > MelFrames(end, finalize)

(* Nothing left to vocode: ggml_im2col asserts on an empty input.          *)
Empty(end, finalize, skip) ==
    ~Refused(end, finalize, skip) /\ MelFrames(end, finalize) = skip

-----------------------------------------------------------------------------
(* Fault: the flag of an earlier cancel() is left set.                     *)
ClearCancel_Missing == cancelFlag' = cancelFlag

ClearCancel == cancelFlag' = "clear"

Leave(how) ==
    /\ pc' = "idle"
    /\ outcome' = how

Synthesize ==
    /\ pc = "idle"
    /\ outcome # "aborted"
    /\ calls < Calls
    /\ calls' = calls + 1
    /\ ClearCancel
    /\ pc' = "t3"
    /\ speech' = NoSpeech
    /\ boundaries' = {}
    /\ at' = 0 /\ k' = 1 /\ emitted' = 0
    /\ chunk' = <<>> /\ pcm' = <<>> /\ heard' = <<>>
    /\ outcome' = "none"
    /\ asked' = "no" /\ late' = 0
    /\ UNCHANGED optVars

(* run_t3 throws, on its own or because it saw the flag (module T3Decode). *)
T3Throws ==
    /\ pc = "t3"
    /\ \/ Leave("thrown")
       \/ cancelFlag = "set" /\ Leave("cancelled")
    /\ UNCHANGED <<optVars, planVars, loopVars, histVars, cancelFlag>>

(* T3 returns any tokens; streaming pads them and plans its chunks.        *)
T3Done ==
    /\ pc = "t3"
    /\ \E n \in 0 .. MaxTokens : \E S \in SUBSET (1 .. n) :
          /\ Cardinality(S) <= MaxSpecials
          /\ speech' = [n |-> n, special |-> S]
          /\ boundaries' = IF chunkN > 0 THEN Boundaries(n + Lookahead) ELSE {}
    /\ pc' = IF chunkN > 0 THEN "top" ELSE "batch"
    /\ UNCHANGED <<optVars, loopVars, histVars, cancelFlag, outcome>>

(* Fault: the loop never looks at the flag.                                *)
Top_NoCancel ==
    /\ pc = "top"
    /\ at < Total(speech)
    /\ pc' = "infer" /\ UNCHANGED outcome
    /\ UNCHANGED <<optVars, planVars, loopVars, histVars, cancelFlag>>

Top ==
    /\ pc = "top"
    /\ at < Total(speech)
    /\ IF cancelFlag = "set" THEN Leave("cancelled")
                             ELSE pc' = "infer" /\ UNCHANGED outcome
    /\ UNCHANGED <<optVars, planVars, loopVars, histVars, cancelFlag>>

(* One S3Gen call: the frames from skip_mel_frames on.  It may also fail   *)
(* for reasons of its own, such as a model that cannot be loaded.          *)
Infer ==
    /\ pc = "infer"
    /\ \/ Refused(End, IsLast, emitted) /\ Leave("rejected") /\ UNCHANGED chunk
       \/ Empty(End, IsLast, emitted) /\ Leave("aborted") /\ UNCHANGED chunk
       \/ Leave("thrown") /\ UNCHANGED chunk
       \/ /\ ~Refused(End, IsLast, emitted) /\ ~Empty(End, IsLast, emitted)
          /\ chunk' = Frames(emitted, MelFrames(End, IsLast))
          /\ pc' = "deliver"
          /\ UNCHANGED outcome
    /\ UNCHANGED <<optVars, planVars, histVars, cancelFlag, at, k, emitted, pcm, heard>>

OnChunk(isLast) ==
    /\ heard' = Append(heard, [index |-> k - 1, frames |-> chunk, last |-> isLast])
    /\ late' = IF asked = "yes" THEN late + 1 ELSE late

(* Faults: skip_mel_frames is not advanced, or by the audio so far instead *)
(* of by the chunk; is_last compares with the tokens before the padding;   *)
(* the result is assigned and not extended.                                *)
Deliver_SkipStays ==
    /\ pc = "deliver"
    /\ OnChunk(IsLast)
    /\ pcm' = pcm \o chunk
    /\ at' = End /\ k' = k + 1
    /\ pc' = "top"
    /\ UNCHANGED <<optVars, planVars, cancelFlag, outcome, calls, asked, chunk, emitted>>

Deliver_SkipsAllSoFar ==
    /\ pc = "deliver"
    /\ OnChunk(IsLast)
    /\ pcm' = pcm \o chunk
    /\ emitted' = emitted + Len(pcm \o chunk)
    /\ at' = End /\ k' = k + 1
    /\ pc' = "top"
    /\ UNCHANGED <<optVars, planVars, cancelFlag, outcome, calls, asked, chunk>>

Deliver_LastBeforePadding ==
    /\ pc = "deliver"
    /\ OnChunk(End = speech.n)
    /\ pcm' = pcm \o chunk
    /\ emitted' = emitted + Len(chunk)
    /\ at' = End /\ k' = k + 1
    /\ pc' = "top"
    /\ UNCHANGED <<optVars, planVars, cancelFlag, outcome, calls, asked, chunk>>

Deliver_Assigns ==
    /\ pc = "deliver"
    /\ OnChunk(IsLast)
    /\ pcm' = chunk
    /\ emitted' = emitted + Len(chunk)
    /\ at' = End /\ k' = k + 1
    /\ pc' = "top"
    /\ UNCHANGED <<optVars, planVars, cancelFlag, outcome, calls, asked, chunk>>

(* on_chunk returns.                                                       *)
Deliver ==
    /\ pc = "deliver"
    /\ OnChunk(IsLast)
    /\ pcm' = pcm \o chunk
    /\ emitted' = emitted + Len(chunk)
    /\ at' = End /\ k' = k + 1
    /\ pc' = "top"
    /\ UNCHANGED <<optVars, planVars, cancelFlag, outcome, calls, asked, chunk>>

(* on_chunk throws.                                                        *)
DeliverThrows ==
    /\ pc = "deliver"
    /\ OnChunk(IsLast)
    /\ Leave("thrown")
    /\ UNCHANGED <<optVars, planVars, cancelFlag, calls, asked, at, k, emitted, chunk, pcm>>

Return ==
    /\ pc = "top"
    /\ at = Total(speech)
    /\ Leave("ok")
    /\ UNCHANGED <<optVars, planVars, loopVars, histVars, cancelFlag>>

(* synthesize_batch: S3Gen refuses an empty token list, and pads any other *)
(* with the silence itself.                                                *)
Batch ==
    /\ pc = "batch"
    /\ \/ /\ speech.n = 0 \/ Refused(Total(speech), TRUE, 0)
          /\ Leave("rejected") /\ UNCHANGED pcm
       \/ /\ speech.n > 0 /\ Empty(Total(speech), TRUE, 0)
          /\ Leave("aborted") /\ UNCHANGED pcm
       \/ Leave("thrown") /\ UNCHANGED pcm
       \/ /\ speech.n > 0
          /\ ~Refused(Total(speech), TRUE, 0) /\ ~Empty(Total(speech), TRUE, 0)
          /\ pcm' = Frames(0, MelFrames(Total(speech), TRUE))
          /\ Leave("ok")
    /\ UNCHANGED <<optVars, planVars, histVars, cancelFlag, at, k, emitted, chunk, heard>>

(* Engine::cancel, from any thread at any time.                            *)
Cancel ==
    /\ outcome # "aborted"
    /\ cancelFlag' = "set"
    /\ asked' = IF pc = "idle" THEN asked ELSE "yes"
    /\ UNCHANGED <<optVars, planVars, loopVars, pc, outcome, calls, late>>

Quiet ==
    /\ pc = "idle"
    /\ calls = Calls \/ outcome = "aborted"
    /\ UNCHANGED vars

-----------------------------------------------------------------------------
Next ==
    \/ Synthesize \/ T3Throws \/ T3Done \/ Top \/ Infer \/ Deliver
    \/ DeliverThrows \/ Return \/ Batch \/ Cancel \/ Quiet

Spec == Init /\ [][Next]_vars

-----------------------------------------------------------------------------
(* Properties *)

(* The frames of a whole utterance.                                        *)
Whole == MelFrames(Total(speech), TRUE)

Concat(calls_) ==
    LET c[n \in 0 .. Len(calls_)] == IF n = 0 THEN <<>> ELSE c[n - 1] \o calls_[n].frames
    IN  c[Len(calls_)]

(* Streaming changes when audio arrives, never what arrives: a call that   *)
(* returns has the frames of the batch call, each once and in order.       *)
StreamEqualsBatch == outcome = "ok" => pcm = Frames(0, Whole)

(* In streaming mode the result is what the callback was given: "an        *)
(* addition, not a replacement" (engine.h:190-192).                        *)
ResultIsHeard == outcome = "ok" /\ chunkN > 0 => pcm = Concat(heard)

(* A call that returns has something to play: synthesize "Returns a        *)
(* non-empty `pcm` on success" (engine.h:181).                             *)
ResultNotEmpty == outcome = "ok" => pcm # <<>>

(* Chunks are numbered from 0, the last one, and only it, says so, and a   *)
(* call that returns has said so.                                          *)
LastChunkOnce ==
    /\ \A j \in 1 .. Len(heard) :
          /\ heard[j].index = j - 1
          /\ heard[j].last => j = Len(heard)
    /\ outcome = "ok" /\ chunkN > 0 => heard # <<>> /\ heard[Len(heard)].last

(* Once a first chunk was accepted no later one is refused: the frames     *)
(* skipped are never more than the frames there are.                       *)
OnlyFirstRefused == outcome = "rejected" /\ chunkN > 0 => k = 1

(* The last chunk is worth its cost when the chunks are ("Absorb a tiny    *)
(* trailing chunk", chatterbox_engine.cpp:536).                            *)
NoTinyTail ==
    pc = "infer" /\ IsLast /\ chunkN >= 6 => End - at >= Min({MinTail, End})

(* A cancelled call delivers at most one more chunk.                       *)
CancelIsPrompt == late <= 1

(* A cancel() that came before a call, or after it, does not cancel it.    *)
NoStaleCancel == outcome = "cancelled" => asked = "yes"

(* A failing call is an exception, never the end of the process: synthesize*)
(* "throws std::runtime_error on failure" (engine.h:182-183).              *)
FailureThrows == outcome # "aborted"

(* Chunks with room for the lookahead and for the special tokens are never *)
(* refused and never empty, however the utterance ends, when the voice has *)
(* no more frames than its tokens make.                                    *)
RoomyChunksWork ==
    /\ chunkN > MaxSpecials
    /\ First > Lookahead + MaxSpecials
    /\ prompt.frames <= 2 * prompt.tokens
    => outcome \notin {"rejected", "aborted"}

(* Why the properties above hold, as an inductive invariant.               *)
InLoop == pc \in {"top", "infer", "deliver"}

(* The plan ends with the utterance, and the loop walks along it.          *)
PlanInv ==
    /\ pc # "idle" => outcome = "none"
    /\ pc = "t3" => pcm = <<>> /\ heard = <<>> /\ emitted = 0 /\ at = 0 /\ k = 1
    /\ InLoop => Total(speech) \in boundaries /\ boundaries \subseteq 0 .. Total(speech)
    /\ pc \in {"infer", "deliver"} => at < Total(speech)
    /\ InLoop => chunkN > 0
    /\ pc = "batch" => chunkN = 0 /\ heard = <<>>
    /\ k <= at + 1
    /\ k > 1 => at > 0

(* What was emitted is what S3Gen had to give for the last cut.            *)
EmitInv ==
    InLoop =>
        /\ pcm = Frames(0, emitted)
        /\ at = 0 => emitted = 0 /\ k = 1
        /\ at > 0 => /\ emitted = MelFrames(at, at = Total(speech))
                     /\ at < Total(speech) => EncoderFrames(at) > Trim
        /\ pc = "deliver" => /\ ~Refused(End, IsLast, emitted)
                             /\ chunk = Frames(emitted, MelFrames(End, IsLast))

(* Chunks heard so far; the last one was heard when all of it was.         *)
HeardInv ==
    InLoop =>
        /\ Len(heard) = k - 1
        /\ at < Total(speech) => \A j \in 1 .. Len(heard) : ~heard[j].last
        /\ at = Total(speech) => heard # <<>> /\ heard[Len(heard)].last

FlagIsAsked ==
    /\ pc # "idle" => (asked = "yes" <=> cancelFlag = "set")
    /\ asked = "no" => late = 0
    /\ pc \in {"infer", "deliver"} => late = 0

(* How far the cuts are from each other and from the end of the utterance. *)
CutInv ==
    /\ Cardinality(speech.special) <= MaxSpecials
    /\ InLoop =>
          \A b \in boundaries :
             0 < b /\ b < Total(speech) =>
                /\ b >= First
                /\ \A a \in boundaries : 0 < a /\ a < b => b - a >= chunkN
                /\ chunkN >= 6 => Total(speech) - b >= MinTail

(* The callback has what the result has; no chunk of it is empty.          *)
DeliveredInv ==
    /\ chunkN = 0 => boundaries = {} /\ heard = <<>>
    /\ InLoop => Concat(heard) = pcm
    /\ InLoop /\ at > 0 => emitted > 0
    /\ pc = "deliver" => ~Empty(End, IsLast, emitted)

StreamInv ==
    /\ TypeOK /\ PlanInv /\ CutInv /\ EmitInv /\ HeardInv /\ FlagIsAsked /\ DeliveredInv
    /\ StreamEqualsBatch /\ ResultIsHeard /\ ResultNotEmpty /\ LastChunkOnce /\ OnlyFirstRefused
    /\ CancelIsPrompt /\ NoStaleCancel

-----------------------------------------------------------------------------
(* Streaming implements SpeechStream.                                      *)

(* A batch engine never calls back: it stays idle.                         *)
StreamState ==
    IF chunkN = 0 THEN "idle"
    ELSE CASE pc = "t3" -> "open"
           [] InLoop -> "speaking"
           [] pc = "idle" /\ outcome = "none" -> "idle"
           [] pc = "idle" /\ outcome = "ok" -> "complete"
           [] OTHER -> "failed"

(* A voice longer than the utterance leaves it no frames.                  *)
Promise == INSTANCE SpeechStream WITH
    state     <- StreamState,
    total     <- IF boundaries = {} \/ Whole < 0 THEN 0 ELSE Whole,
    delivered <- Len(Concat(heard))

(* What the callback sees is an in-order, gap-free delivery of the whole   *)
(* utterance, or a call that fails.                                        *)
KeepsPromise == Promise!Spec
=============================================================================
