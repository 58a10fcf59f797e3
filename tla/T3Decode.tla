------------------------------ MODULE T3Decode ------------------------------
(***************************************************************************)
(* The autoregressive decode loops of Engine::Impl, run_t3 (Turbo) and     *)
(* run_t3_mtl (multilingual), with cancel() called from another thread.    *)
(*                                                                         *)
(* A token is what the loop can tell apart: the stop token or another one. *)
(* The KV cache has n_ctx positions; n_past counts the filled ones.        *)
(* A violated GGML_ASSERT aborts the process.                              *)
(***************************************************************************)
EXTENDS Naturals, Sequences

CONSTANTS
    Variants,   \* of the loaded T3: subset of {"turbo", "mtl"}
    NPredict,   \* options.n_predict
    NCtx,       \* hparams.n_ctx, after the cap options.n_ctx
    MaxSpeech,  \* hparams.max_speech_tokens, rows of speech_pos_emb (mtl)
    MaxText,    \* rows of text_pos_emb (mtl)
    Overhead,   \* prompt positions besides the text: conditioning and BOS
    TextLens,   \* lengths of the tokenised texts
    Calls       \* bound on the calls of one behaviour

ASSUME DecodeAssumption ==
    /\ Variants \subseteq {"turbo", "mtl"}
    /\ {NPredict, NCtx, MaxSpeech, MaxText, Overhead, Calls} \subseteq Nat
    /\ Overhead > 0
    /\ TextLens \subseteq Nat

VARIABLES
    variant,
    cancelFlag,  \* set or clear
    pc,          \* idle, prompt, loop (top of the for), step (past its checks)
    textLen,     \* text tokens of this call
    nPast,       \* n_past
    i,           \* loop counter
    generated,   \* tokens sampled by this call
    outcome,     \* how the last call ended
    calls,
    asked,       \* history: a cancel() came during this call
    late         \* history: tokens sampled since

optVars == <<variant, calls>>
vars == <<optVars, cancelFlag, pc, textLen, nPast, i, generated, outcome, asked, late>>

Tokens == {"speech", "stop"}

TypeOK ==
    /\ variant \in Variants
    /\ cancelFlag \in {"set", "clear"}
    /\ pc \in {"idle", "prompt", "loop", "step"}
    /\ textLen \in TextLens \cup {0}
    /\ nPast \in 0 .. NCtx
    /\ i \in 0 .. NPredict
    /\ generated \in Seq(Tokens)
    /\ outcome \in {"none", "ok", "thrown", "cancelled", "aborted"}
    /\ calls \in 0 .. Calls
    /\ asked \in {"yes", "no"}
    /\ late \in 0 .. NPredict + 1

Init ==
    /\ variant \in Variants
    /\ cancelFlag = "clear"
    /\ pc = "idle"
    /\ textLen = 0
    /\ nPast = 0
    /\ i = 0
    /\ generated = <<>>
    /\ outcome = "none"
    /\ calls = 0
    /\ asked = "no"
    /\ late = 0

PromptLen == Overhead + textLen

(* Only Turbo looks at the length.  The multilingual graph takes a view of *)
(* the KV cache that ends past it, on which ggml asserts ...               *)
PastContext == PromptLen > NCtx

(* ... and gets rows of text_pos_emb that are not there: the CPU backend   *)
(* asserts, a GPU one reads what lies behind.                              *)
PastTable == variant = "mtl" /\ textLen > MaxText

Current == generated[Len(generated)]

-----------------------------------------------------------------------------
(* Fault: the flag of an earlier cancel() is left set.                     *)
ClearCancel_Missing == cancelFlag' = cancelFlag

ClearCancel == cancelFlag' = "clear"

(* An empty text is refused before the flag is cleared, a text that        *)
(* tokenises to nothing (turbo only) after it.                             *)
Synthesize ==
    /\ pc = "idle"
    /\ outcome # "aborted"
    /\ calls < Calls
    /\ calls' = calls + 1
    /\ asked' = "no"
    /\ late' = 0
    /\ generated' = <<>>
    /\ nPast' = 0
    /\ i' = 0
    /\ \/ /\ outcome' = "thrown"
          /\ UNCHANGED <<pc, textLen, cancelFlag>>
       \/ \E n \in TextLens :
            /\ n = 0 => variant = "turbo"
            /\ ClearCancel
            /\ textLen' = n
            /\ IF n = 0 THEN outcome' = "thrown" /\ UNCHANGED pc
                        ELSE outcome' = "none" /\ pc' = "prompt"
    /\ UNCHANGED variant

Leave(how) ==
    /\ pc' = "idle"
    /\ outcome' = how

(* sample_next_token_ex / sample_next_token_mtl and push_back.             *)
Sample ==
    /\ \E tok \in Tokens : generated' = Append(generated, tok)
    /\ late' = IF asked = "yes" THEN late + 1 ELSE late
    /\ pc' = "loop"
    /\ UNCHANGED outcome

(* eval_prompt refuses a prompt longer than the context; eval_prompt_mtl   *)
(* has no such check, and only gets through inside the cache.              *)
EvalPrompt ==
    /\ pc = "prompt"
    /\ ~PastContext
    /\ nPast' = PromptLen
    /\ Sample
    /\ UNCHANGED <<optVars, cancelFlag, textLen, i, asked>>

PromptTooLong ==
    /\ pc = "prompt"
    /\ \/ variant = "turbo" /\ PastContext /\ Leave("thrown")
       \/ variant = "mtl" /\ (PastContext \/ PastTable) /\ Leave("aborted")
    /\ UNCHANGED <<optVars, cancelFlag, textLen, nPast, i, generated, asked, late>>

(* The MTL passes report an allocation that failed; Turbo does not look.   *)
(* The conditional one may do so before the unconditional one asserts.     *)
EvalFails ==
    /\ variant = "mtl"
    /\ pc \in {"prompt", "step"}
    /\ Leave("thrown")
    /\ UNCHANGED <<optVars, cancelFlag, textLen, nPast, i, generated, asked, late>>

(* Fault: the loop never looks at the flag.                                *)
Check_NoCancel ==
    /\ pc = "loop"
    /\ i < NPredict
    /\ Current # "stop"
    /\ nPast + 1 <= NCtx
    /\ pc' = "step"
    /\ UNCHANGED <<optVars, cancelFlag, textLen, nPast, i, generated, outcome, asked, late>>

(* The checks at the top of the loop, in order: the count, the flag, the   *)
(* stop token, the context.                                                *)
Check ==
    /\ pc = "loop"
    /\ i < NPredict
    /\ cancelFlag = "clear"
    /\ Current # "stop"
    /\ nPast + 1 <= NCtx
    /\ pc' = "step"
    /\ UNCHANGED <<optVars, cancelFlag, textLen, nPast, i, generated, outcome, asked, late>>

Cancelled ==
    /\ pc = "loop"
    /\ i < NPredict
    /\ cancelFlag = "set"
    /\ Leave("cancelled")
    /\ UNCHANGED <<optVars, cancelFlag, textLen, nPast, i, generated, asked, late>>

(* Fault: the trailing stop token is kept.                                 *)
Return_KeepsStop ==
    /\ pc = "loop"
    /\ \/ i = NPredict
       \/ cancelFlag = "clear" /\ (Current = "stop" \/ nPast + 1 > NCtx)
    /\ generated' = generated
    /\ Leave("ok")
    /\ UNCHANGED <<optVars, cancelFlag, textLen, nPast, i, asked, late>>

(* Leaves the loop, and drops a trailing stop token.                       *)
Return ==
    /\ pc = "loop"
    /\ \/ i = NPredict
       \/ cancelFlag = "clear" /\ (Current = "stop" \/ nPast + 1 > NCtx)
    /\ generated' = IF Current = "stop" THEN SubSeq(generated, 1, Len(generated) - 1)
                                        ELSE generated
    /\ Leave("ok")
    /\ UNCHANGED <<optVars, cancelFlag, textLen, nPast, i, asked, late>>

(* Fault: a refused position is tried again.                               *)
PositionRefused_Retries ==
    /\ pc = "step"
    /\ variant = "mtl"
    /\ MaxSpeech > 0
    /\ nPast >= MaxSpeech
    /\ pc' = "loop"
    /\ UNCHANGED <<optVars, cancelFlag, textLen, nPast, i, generated, outcome, asked, late>>

(* eval_step_mtl refuses a position past speech_pos_emb.                   *)
PositionRefused ==
    /\ pc = "step"
    /\ variant = "mtl"
    /\ MaxSpeech > 0
    /\ nPast >= MaxSpeech
    /\ Leave("thrown")
    /\ UNCHANGED <<optVars, cancelFlag, textLen, nPast, i, generated, asked, late>>

(* Fault: n_past is not advanced.                                          *)
EvalStep_SamePosition ==
    /\ pc = "step"
    /\ variant = "mtl" /\ MaxSpeech > 0 => nPast < MaxSpeech
    /\ i' = i + 1
    /\ Sample
    /\ UNCHANGED <<optVars, cancelFlag, textLen, nPast, asked>>

(* eval_step / eval_step_mtl and the rest of the loop body.                *)
EvalStep ==
    /\ pc = "step"
    /\ variant = "mtl" /\ MaxSpeech > 0 => nPast < MaxSpeech
    /\ nPast' = nPast + 1
    /\ i' = i + 1
    /\ Sample
    /\ UNCHANGED <<optVars, cancelFlag, textLen, asked>>

(* Engine::cancel, from any thread at any time.                            *)
Cancel ==
    /\ outcome # "aborted"
    /\ cancelFlag' = "set"
    /\ asked' = IF pc = "idle" THEN asked ELSE "yes"
    /\ UNCHANGED <<optVars, pc, textLen, nPast, i, generated, outcome, late>>

(* Nobody calls again, or the process is gone.                             *)
Quiet ==
    /\ pc = "idle"
    /\ calls = Calls \/ outcome = "aborted"
    /\ UNCHANGED vars

-----------------------------------------------------------------------------
Decode ==
    \/ EvalPrompt \/ PromptTooLong \/ EvalFails \/ Check \/ Cancelled \/ Return
    \/ PositionRefused \/ EvalStep

Next == Synthesize \/ Decode \/ Cancel \/ Quiet

Spec == Init /\ [][Next]_vars

(* The decoding thread keeps running.                                      *)
FairSpec == Spec /\ WF_vars(Decode)

-----------------------------------------------------------------------------
(* Properties *)

(* While a call decodes, the KV cache holds the prompt and every sampled   *)
(* token but the last, and one more position is used only if there is one: *)
(* no step writes past n_ctx.                                              *)
CacheHoldsTokens ==
    pc \in {"loop", "step"} =>
        /\ nPast + 1 = PromptLen + Len(generated)
        /\ nPast <= NCtx
        /\ pc = "step" => nPast < NCtx

(* S3Gen is never fed the stop token: it ends the sequence wherever it is  *)
(* sampled first, also as the very first or the very last token.           *)
NoStopReturned ==
    outcome = "ok" => \A k \in 1 .. Len(generated) : generated[k] # "stop"

(* A cancelled call samples at most one more token before it throws, or    *)
(* was about to return anyway.                                             *)
CancelIsPrompt == late <= 1

(* A cancel() that came before a call, or after it, does not cancel it.    *)
NoStaleCancel == outcome = "cancelled" => asked = "yes"

(* A call returns at most one token more than n_predict, the "maximum      *)
(* speech tokens" of engine.h:88: one is sampled from the prompt and one   *)
(* in every turn of the loop.  run_t3 reserves that many.                 *)
TokenBound == Len(generated) <= NPredict + 1

(* A text too long for the model is an error of that call, not the end of  *)
(* the process: "Synthesis failed (text too long, ...)" (error.rs:9).      *)
TooLongIsAnError == outcome # "aborted"

(* The process ends only over a multilingual text that is too long.        *)
TooLong == PastContext \/ PastTable

AbortsOverLongText == outcome = "aborted" => variant = "mtl" /\ TooLong

(* Why the properties above hold, as an inductive invariant.               *)
Counted ==
    /\ pc # "idle" => outcome = "none"
    /\ pc = "prompt" => generated = <<>> /\ i = 0
    /\ pc \in {"loop", "step"} => Len(generated) = i + 1
    /\ pc = "step" => i < NPredict

StopIsLast ==
    \A k \in 1 .. Len(generated) :
        generated[k] = "stop" => /\ k = Len(generated)
                                 /\ pc = "loop" \/ outcome = "cancelled"

FlagIsAsked ==
    /\ pc # "idle" => (asked = "yes" <=> cancelFlag = "set")
    /\ asked = "no" => late = 0
    /\ pc \in {"prompt", "step"} => late = 0

DecodeInv ==
    /\ TypeOK /\ Counted /\ CacheHoldsTokens /\ TokenBound /\ StopIsLast
    /\ FlagIsAsked /\ CancelIsPrompt /\ NoStaleCancel

(* What is left of a call at most: two steps of every turn of the loop.    *)
StepsLeft ==
    CASE pc = "idle"   -> 0
      [] pc = "prompt" -> 2 * NPredict + 2
      [] pc = "loop"   -> 2 * (NPredict - i) + 1
      [] pc = "step"   -> 2 * (NPredict - i)

(* Whatever is sampled and whenever it is cancelled, every step of the     *)
(* decoding thread brings the call nearer to its end, and no step of       *)
(* another thread takes it further from it.                                *)
DecodeAdvances ==
    [][/\ Decode => StepsLeft' < StepsLeft
       /\ ~Synthesize => StepsLeft' <= StepsLeft]_vars

(* Every call returns or throws, whatever is sampled.                      *)
CallsReturn == pc # "idle" ~> pc = "idle"
=============================================================================
