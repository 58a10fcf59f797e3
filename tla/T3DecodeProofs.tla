--------------------------- MODULE T3DecodeProofs ---------------------------
(***************************************************************************)
(* Proofs about T3Decode, for any context, text and number of tokens.      *)
(***************************************************************************)
EXTENDS T3Decode, TLAPS

(* A step of the program keeps the types and the bounds. *)
LEMMA TypeStep ==
  ASSUME DecodeInv, [Next]_vars
  PROVE  TypeOK'
<1> USE DecodeAssumption DEF DecodeAssumption, DecodeInv, TypeOK, Counted, CacheHoldsTokens, FlagIsAsked,
         CancelIsPrompt, optVars, Tokens, PromptLen, PastContext, PastTable
<1>1. CASE Synthesize
  BY <1>1 DEF Synthesize, ClearCancel
<1>2. CASE EvalPrompt
  BY <1>2 DEF EvalPrompt, Sample
<1>3. CASE PromptTooLong
  BY <1>3 DEF PromptTooLong, Leave
<1>4. CASE EvalFails
  BY <1>4 DEF EvalFails, Leave
<1>5. CASE Check
  BY <1>5 DEF Check
<1>6. CASE Cancelled
  BY <1>6 DEF Cancelled, Leave
<1>7. CASE Return
  <2>1. generated' \in Seq(Tokens)
    BY <1>7 DEF Return
  <2> QED
    BY <1>7, <2>1 DEF Return, Leave
<1>8. CASE PositionRefused
  BY <1>8 DEF PositionRefused, Leave
<1>9. CASE EvalStep
  BY <1>9 DEF EvalStep, Sample
<1>10. CASE Cancel
  BY <1>10 DEF Cancel
<1>11. CASE UNCHANGED vars
  BY <1>11 DEF vars
<1> QED
  BY <1>1, <1>2, <1>3, <1>4, <1>5, <1>6, <1>7, <1>8, <1>9, <1>10, <1>11 DEF Next, Decode, Quiet

(* A step keeps the counts: of turns, of tokens and of cached positions. *)
LEMMA CountStep ==
  ASSUME DecodeInv, [Next]_vars
  PROVE  Counted' /\ CacheHoldsTokens' /\ TokenBound'
<1> USE DecodeAssumption DEF DecodeAssumption, DecodeInv, TypeOK, Counted, CacheHoldsTokens, TokenBound,
         optVars, Tokens, PromptLen, PastContext, PastTable
<1>1. CASE Synthesize
  BY <1>1 DEF Synthesize, ClearCancel
<1>2. CASE EvalPrompt
  BY <1>2 DEF EvalPrompt, Sample
<1>3. CASE PromptTooLong
  BY <1>3 DEF PromptTooLong, Leave
<1>4. CASE EvalFails
  BY <1>4 DEF EvalFails, Leave
<1>5. CASE Check
  BY <1>5 DEF Check
<1>6. CASE Cancelled
  BY <1>6 DEF Cancelled, Leave
<1>7. CASE Return
  BY <1>7 DEF Return, Leave
<1>8. CASE PositionRefused
  BY <1>8 DEF PositionRefused, Leave
<1>9. CASE EvalStep
  <2>1. Len(generated') = Len(generated) + 1
    BY <1>9 DEF EvalStep, Sample
  <2>2. nPast' = nPast + 1 /\ i' = i + 1 /\ pc' = "loop" /\ pc = "step"
    BY <1>9 DEF EvalStep, Sample
  <2>3. textLen' = textLen /\ outcome' = outcome
    BY <1>9 DEF EvalStep, Sample
  <2>4. generated \in Seq(Tokens) /\ i < NPredict /\ Len(generated) = i + 1 /\ outcome = "none"
    BY <2>2
  <2>5. Counted'
    BY <2>1, <2>2, <2>3, <2>4
  <2>6. CacheHoldsTokens'
    <3>1. nPast \in Nat /\ NCtx \in Nat /\ Overhead \in Nat /\ textLen \in Nat /\ Len(generated) \in Nat
      BY <2>4
    <3>2. nPast + 1 = Overhead + textLen + Len(generated) /\ nPast < NCtx
      BY <2>2
    <3>3. nPast' + 1 = Overhead + textLen' + Len(generated') /\ nPast' <= NCtx
      BY <2>1, <2>2, <2>3, <3>1, <3>2
    <3> QED
      BY <2>2, <3>3
  <2>7. TokenBound'
    BY <2>1, <2>2, <2>4
  <2> QED
    BY <2>5, <2>6, <2>7
<1>10. CASE Cancel
  BY <1>10 DEF Cancel
<1>11. CASE UNCHANGED vars
  BY <1>11 DEF vars
<1> QED
  BY <1>1, <1>2, <1>3, <1>4, <1>5, <1>6, <1>7, <1>8, <1>9, <1>10, <1>11 DEF Next, Decode, Quiet

(* A step leaves the stop token nowhere but at the end, and only while the *)
(* loop has not looked at it or was cancelled before it did.               *)
LEMMA StopStep ==
  ASSUME DecodeInv, [Next]_vars
  PROVE  StopIsLast'
<1> USE DecodeAssumption DEF DecodeAssumption, DecodeInv, TypeOK, Counted, StopIsLast, optVars, Tokens
<1>1. CASE Synthesize
  BY <1>1 DEF Synthesize
<1>2. CASE EvalPrompt
  BY <1>2 DEF EvalPrompt, Sample
<1>3. CASE PromptTooLong
  BY <1>3 DEF PromptTooLong, Leave
<1>4. CASE EvalFails
  BY <1>4 DEF EvalFails, Leave
<1>5. CASE Check
  BY <1>5 DEF Check, Current
<1>6. CASE Cancelled
  BY <1>6 DEF Cancelled, Leave
<1>7. CASE Return
  BY <1>7 DEF Return, Leave, Current
<1>8. CASE PositionRefused
  BY <1>8 DEF PositionRefused, Leave
<1>9. CASE EvalStep
  BY <1>9 DEF EvalStep, Sample
<1>10. CASE Cancel
  BY <1>10 DEF Cancel
<1>11. CASE UNCHANGED vars
  BY <1>11 DEF vars
<1> QED
  BY <1>1, <1>2, <1>3, <1>4, <1>5, <1>6, <1>7, <1>8, <1>9, <1>10, <1>11 DEF Next, Decode, Quiet

(* A step keeps the flag in agreement with the cancels of this call, and   *)
(* passes the check of the flag only if there was none.                    *)
LEMMA FlagStep ==
  ASSUME DecodeInv, [Next]_vars
  PROVE  FlagIsAsked' /\ CancelIsPrompt' /\ NoStaleCancel'
<1> USE DecodeAssumption DEF DecodeAssumption, DecodeInv, TypeOK, FlagIsAsked, CancelIsPrompt, NoStaleCancel, optVars
<1>1. CASE Synthesize
  BY <1>1 DEF Synthesize, ClearCancel
<1>2. CASE EvalPrompt
  BY <1>2 DEF EvalPrompt, Sample
<1>3. CASE PromptTooLong
  BY <1>3 DEF PromptTooLong, Leave
<1>4. CASE EvalFails
  BY <1>4 DEF EvalFails, Leave
<1>5. CASE Check
  BY <1>5 DEF Check
<1>6. CASE Cancelled
  BY <1>6 DEF Cancelled, Leave
<1>7. CASE Return
  BY <1>7 DEF Return, Leave
<1>8. CASE PositionRefused
  BY <1>8 DEF PositionRefused, Leave
<1>9. CASE EvalStep
  BY <1>9 DEF EvalStep, Sample
<1>10. CASE Cancel
  BY <1>10 DEF Cancel
<1>11. CASE UNCHANGED vars
  BY <1>11 DEF vars
<1> QED
  BY <1>1, <1>2, <1>3, <1>4, <1>5, <1>6, <1>7, <1>8, <1>9, <1>10, <1>11 DEF Next, Decode, Quiet

(* The invariant holds throughout: it is inductive. *)
THEOREM DecodeInvHolds == Spec => []DecodeInv
<1>1. Init => DecodeInv
  BY DecodeAssumption DEF DecodeAssumption, Init, DecodeInv, TypeOK, Counted, CacheHoldsTokens, TokenBound,
     StopIsLast, FlagIsAsked, CancelIsPrompt, NoStaleCancel, Tokens
<1>2. DecodeInv /\ [Next]_vars => DecodeInv'
  BY TypeStep, CountStep, StopStep, FlagStep DEF DecodeInv
<1> QED
  BY <1>1, <1>2, PTL DEF Spec

(* Every variable keeps its type; n_past and the loop counter stay in      *)
(* their bounds.                                                           *)
THEOREM TypeCorrect == Spec => []TypeOK
BY DecodeInvHolds, PTL DEF DecodeInv

(* run_t3 and run_t3_mtl never write past the KV cache, whose positions    *)
(* are the prompt and all tokens but the last.                             *)
THEOREM CacheNeverOverrun == Spec => []CacheHoldsTokens
BY DecodeInvHolds, PTL DEF DecodeInv

(* A call that returns has dropped the stop token, wherever it came.       *)
THEOREM StopNeverReturned == Spec => []NoStopReturned
<1>1. DecodeInv => NoStopReturned
  BY DEF DecodeInv, TypeOK, Counted, StopIsLast, NoStopReturned
<1> QED
  BY <1>1, DecodeInvHolds, PTL

(* n_predict bounds the tokens of a call, up to one.                       *)
THEOREM TokensBounded == Spec => []TokenBound
BY DecodeInvHolds, PTL DEF DecodeInv

(* A cancel() is seen within one token, at whatever point of the decode it *)
(* comes.                                                                  *)
THEOREM CancelSeen == Spec => []CancelIsPrompt
BY DecodeInvHolds, PTL DEF DecodeInv

(* Only a cancel() during a call cancels it: the flag is cleared when the  *)
(* call begins, so neither an earlier one nor one between calls does.      *)
THEOREM CancelNeverStale == Spec => []NoStaleCancel
BY DecodeInvHolds, PTL DEF DecodeInv

(* Nothing ends the process but a multilingual text past the context or    *)
(* past text_pos_emb: run_t3 never does.                                   *)
THEOREM AbortsAreLongTexts == Spec => []AbortsOverLongText
<1>1. Init => AbortsOverLongText
  BY DEF Init, AbortsOverLongText
<1>2. AbortsOverLongText /\ [Next]_vars => AbortsOverLongText'
  <2> SUFFICES ASSUME AbortsOverLongText, [Next]_vars, outcome' = "aborted"
               PROVE  (variant = "mtl" /\ TooLong)'
    BY DEF AbortsOverLongText
  <2> USE DEF optVars, TooLong, PastContext, PastTable, PromptLen
  <2>1. CASE PromptTooLong
    BY <2>1 DEF PromptTooLong, Leave
  <2>2. CASE UNCHANGED vars
    BY <2>2 DEF vars, AbortsOverLongText
  <2>3. CASE Check \/ EvalStep \/ EvalPrompt
    BY <2>3 DEF Check, EvalStep, EvalPrompt, Sample, AbortsOverLongText
  <2>4. ~Synthesize /\ ~Cancel /\ ~EvalFails /\ ~Cancelled /\ ~Return /\ ~PositionRefused
    BY DEF Synthesize, Cancel, EvalFails, Cancelled, Return, PositionRefused, Leave
  <2> QED
    BY <2>1, <2>2, <2>3, <2>4 DEF Next, Decode, Quiet
<1> QED
  BY <1>1, <1>2, PTL DEF Spec

(* With Turbo alone, or where every text fits, a call that fails is an     *)
(* exception (error.rs:9); the run decode_long_text shows the others.      *)
THEOREM FittingTextsNeverAbort ==
  ASSUME "mtl" \in Variants =>
            \A n \in TextLens \cup {0} : Overhead + n <= NCtx /\ n <= MaxText
  PROVE  Spec => []TooLongIsAnError
<1>1. DecodeInv /\ AbortsOverLongText => TooLongIsAnError
  <2> SUFFICES ASSUME TypeOK, AbortsOverLongText, outcome = "aborted" PROVE FALSE
    BY DEF DecodeInv, TooLongIsAnError
  <2>1. TooLong /\ variant = "mtl" /\ variant \in Variants
    BY DEF AbortsOverLongText, TypeOK
  <2>2. Overhead + textLen <= NCtx /\ textLen <= MaxText
    BY <2>1 DEF TypeOK
  <2>3. textLen \in Nat /\ NCtx \in Nat /\ Overhead \in Nat /\ MaxText \in Nat
    BY DecodeAssumption DEF DecodeAssumption, TypeOK
  <2> QED
    BY <2>1, <2>2, <2>3 DEF TooLong, PastContext, PastTable, PromptLen
<1> QED
  BY <1>1, AbortsAreLongTexts, DecodeInvHolds, PTL

(* A call takes at most 2 * n_predict + 2 steps: each one that the         *)
(* decoding thread takes leaves a smaller natural number of them.          *)
THEOREM CallsAdvance == Spec => [](StepsLeft \in Nat) /\ DecodeAdvances
<1>1. DecodeInv => StepsLeft \in Nat
  <2> SUFFICES ASSUME DecodeInv PROVE StepsLeft \in Nat
    OBVIOUS
  <2>1. NPredict \in Nat /\ i \in 0 .. NPredict /\ pc \in {"idle", "prompt", "loop", "step"}
    BY DecodeAssumption DEF DecodeAssumption, DecodeInv, TypeOK
  <2> QED
    BY <2>1 DEF StepsLeft
<1>2. DecodeInv /\ [Next]_vars
        => [/\ Decode => StepsLeft' < StepsLeft
            /\ ~Synthesize => StepsLeft' <= StepsLeft]_vars
  <2> SUFFICES ASSUME DecodeInv, [Next]_vars
               PROVE  /\ Decode => StepsLeft' < StepsLeft
                      /\ ~Synthesize => StepsLeft' <= StepsLeft
    OBVIOUS
  <2>1. StepsLeft \in Nat /\ NPredict \in Nat /\ i \in Nat /\ i <= NPredict
    BY <1>1, DecodeAssumption DEF DecodeAssumption, DecodeInv, TypeOK
  <2>2. ASSUME Decode PROVE StepsLeft' < StepsLeft
    <3>1. CASE EvalPrompt
      <4>1. pc = "prompt" /\ pc' = "loop" /\ i' = 0
        BY <3>1 DEF EvalPrompt, Sample, DecodeInv, Counted
      <4> QED
        BY <2>1, <4>1 DEF StepsLeft
    <3>2. CASE Check
      <4>1. pc = "loop" /\ pc' = "step" /\ i' = i
        BY <3>2 DEF Check
      <4> QED
        BY <2>1, <4>1 DEF StepsLeft
    <3>3. CASE EvalStep
      <4>1. pc = "step" /\ pc' = "loop" /\ i' = i + 1 /\ i < NPredict
        BY <3>3 DEF EvalStep, Sample, DecodeInv, Counted
      <4> QED
        BY <2>1, <4>1 DEF StepsLeft
    <3>4. CASE PromptTooLong \/ EvalFails \/ Cancelled \/ Return \/ PositionRefused
      <4>1. pc' = "idle" /\ pc \in {"prompt", "loop", "step"}
        BY <3>4 DEF PromptTooLong, EvalFails, Cancelled, Return, PositionRefused, Leave
      <4>2. pc = "step" => i < NPredict
        BY DEF DecodeInv, Counted
      <4>3. StepsLeft' = 0 /\ StepsLeft > 0
        BY <2>1, <4>1, <4>2 DEF StepsLeft
      <4> QED
        BY <4>3
    <3> QED
      BY <2>2, <3>1, <3>2, <3>3, <3>4 DEF Decode
  <2>3. ASSUME ~Decode, ~Synthesize PROVE StepsLeft' = StepsLeft
    <3>1. UNCHANGED <<pc, i>>
      BY <2>3 DEF Next, Cancel, Quiet, vars
    <3> QED
      BY <3>1 DEF StepsLeft
  <2>4. StepsLeft' \in Nat \/ Synthesize
    <3>1. DecodeInv'
      BY TypeStep, CountStep, StopStep, FlagStep DEF DecodeInv
    <3>2. NPredict \in Nat /\ i' \in 0 .. NPredict /\ pc' \in {"idle", "prompt", "loop", "step"}
      BY <3>1, DecodeAssumption DEF DecodeAssumption, DecodeInv, TypeOK
    <3> QED
      BY <3>2 DEF StepsLeft
  <2> QED
    BY <2>1, <2>2, <2>3, <2>4
<1> QED
  BY <1>1, <1>2, DecodeInvHolds, PTL DEF Spec, DecodeAdvances
=============================================================================
