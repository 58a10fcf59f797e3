------------------------- MODULE EngineMemoryProofs -------------------------
(***************************************************************************)
(* MemInv is an inductive invariant of MemSpec, for any number of engines. *)
(* Owns(e) speaks of one engine; an action changes the memory of one       *)
(* engine only, so the others keep theirs (OthersKeep), except Exit, after *)
(* which Owns is no longer claimed.                                        *)
(***************************************************************************)
EXTENDS EngineMemory, TLAPS

LEMMA FreeOrderFacts ==
    /\ Len(FreeOrder) = 11
    /\ FreeOrder[1] = "allocr" /\ FreeOrder[2] = "registry" /\ FreeOrder[3] = "buffer_w"
    /\ FreeOrder[4] = "buffer_kv" /\ FreeOrder[5] = "buffer_stack"
    /\ FreeOrder[6] = "buffer_override" /\ FreeOrder[7] = "backend"
    /\ FreeOrder[8] = "ctx_w" /\ FreeOrder[9] = "ctx_kv" /\ FreeOrder[10] = "ctx_stack"
    /\ FreeOrder[11] = "ctx_override"
BY DEF FreeOrder

LEMMA LoadOrderFacts ==
    ASSUME NEW k \in Kinds
    PROVE  /\ Len(LoadOrder(k)) \in {5, 7}
           /\ LoadOrder(k)[1] = "backend" /\ LoadOrder(k)[2] = "ctx_w"
           /\ LoadOrder(k)[3] = "buffer_w" /\ LoadOrder(k)[4] = "ctx_kv"
           /\ LoadOrder(k)[5] = "buffer_kv"
           /\ Len(LoadOrder(k)) = 7 => /\ LoadOrder(k)[6] = "ctx_stack"
                                      /\ LoadOrder(k)[7] = "buffer_stack"
BY DEF LoadOrder

-----------------------------------------------------------------------------
LEMMA CallStep ==
    ASSUME call \in Calls, Throws \/ \E blocks \in SUBSET Blocks : Returns(blocks)
    PROVE  call' \in Calls
<1>1. CASE Throws
  <2>1. PICK err \in {{}, {"err"}} :
            call' = [call EXCEPT !.at = "back", !.ok = FALSE, !.mem = @ \cup err]
    BY <1>1 DEF Throws
  <2>2. call.mem \cup err \in SUBSET Blocks
    BY DEF Calls, Blocks
  <2> QED BY <2>1, <2>2 DEF Calls
<1>2. ASSUME NEW blocks \in SUBSET Blocks, Returns(blocks)
      PROVE  call' \in Calls
  <2>1. call.mem \cup blocks \in SUBSET Blocks
    BY DEF Calls
  <2> QED BY <1>2, <2>1 DEF Returns, Calls
<1> QED BY <1>1, <1>2

LEMMA CallTyped ==
    ASSUME call \in Calls, [MemNext]_memVars
    PROVE  call' \in Calls
<1>1. ASSUME NEW e \in Engines, NEW op \in Ops, Enter(op, e)
      PROVE  call' \in Calls
  BY <1>1 DEF Enter, Calls, Blocks
<1>2. ASSUME NEW e \in Engines, Create(e) \/ Destroy(e) \/ \E op \in Ops : Use(e, op)
      PROVE  call' \in Calls
  BY <1>1, <1>2 DEF Create, Destroy, Use, Ops
<1>3. ASSUME NEW e \in Engines,
             LoadAlloc(e) \/ LoadAborts(e) \/ TurboWithoutKv(e) \/ Loaded(e) \/ BakeThrows(e)
               \/ FreeNext(e) \/ SynthesisAborts(e)
      PROVE  call' \in Calls
  BY <1>3 DEF LoadAlloc, LoadAborts, TurboWithoutKv, Loaded, BakeThrows, FreeNext, SynthesisAborts, Abort
<1>4. ASSUME NEW e \in Engines,
             LoadFails(e) \/ (\E fields \in SUBSET Override : BakeEnds(e, fields)) \/ Freed(e)
      PROVE  call' \in Calls
  BY <1>4, CallStep DEF LoadFails, BakeEnds, Freed
<1>5. ASSUME NEW e \in Engines,
             SynthesisReturns(e) \/ SynthesisThrows(e) \/ SaveReturns(e) \/ SaveThrows(e)
      PROVE  call' \in Calls
  BY <1>5, CallStep DEF SynthesisReturns, SynthesisThrows, SaveReturns, SaveThrows, Blocks
<1>6. NoCall \in Calls
  BY DEF NoCall, Calls, Ops, Blocks
<1>7. CASE BackInRust
  BY <1>6, <1>7 DEF BackInRust, Calls, Blocks
<1>8. CASE Exit \/ Restart \/ UNCHANGED memVars
  BY <1>6, <1>8 DEF Exit, Restart, memVars
<1> QED BY <1>2, <1>3, <1>4, <1>5, <1>7, <1>8 DEF MemNext

(* A load has fewer steps than a release: step stays in its range. *)
LEMMA LoadStep ==
    ASSUME MemTypeOK, NEW e \in Engines, ToLoad(e)
    PROVE  /\ kind[e] \in Kinds
           /\ step[e] \in 1..Len(LoadOrder(kind[e]))
           /\ step[e] \in 1..7 /\ (step[e] \in {6, 7} => Len(LoadOrder(kind[e])) = 7)
           /\ step[e] + 1 \in 1..Len(FreeOrder) + 1
           /\ NextLoad(e) \in Fields
<1>1. kind[e] \in Kinds /\ step[e] \in 1..Len(FreeOrder) + 1
  BY DEF MemTypeOK
<1>2. /\ Len(LoadOrder(kind[e])) \in {5, 7}
      /\ Len(FreeOrder) = 11
  BY <1>1, LoadOrderFacts, FreeOrderFacts
<1>3. step[e] <= Len(LoadOrder(kind[e]))
  BY DEF ToLoad
<1>4. /\ step[e] \in 1..Len(LoadOrder(kind[e])) /\ step[e] + 1 \in 1..Len(FreeOrder) + 1
      /\ step[e] \in 1..7 /\ (step[e] \in {6, 7} => Len(LoadOrder(kind[e])) = 7)
  <2>1. ASSUME NEW s \in 1..12, NEW n \in {5, 7}, s <= n
        PROVE  s \in 1..n /\ s + 1 \in 1..12 /\ s \in 1..7 /\ (s \in {6, 7} => n = 7)
    BY <2>1
  <2>2. Len(FreeOrder) + 1 = 12
    BY <1>2
  <2>3. step[e] \in 1..12
    BY <1>1, <2>2
  <2> DEFINE n == Len(LoadOrder(kind[e]))
  <2>4. n \in {5, 7} /\ step[e] <= n
    BY <1>2, <1>3
  <2> HIDE DEF n
  <2>5. /\ step[e] \in 1..n /\ step[e] + 1 \in 1..12
        /\ step[e] \in 1..7 /\ (step[e] \in {6, 7} => n = 7)
    BY <2>1, <2>3, <2>4
  <2> QED BY <2>2, <2>5 DEF n
<1>5. NextLoad(e) \in Fields
  BY <1>1, <1>2, <1>4, LoadOrderFacts DEF NextLoad, Fields, Buffers
<1> QED BY <1>1, <1>4, <1>5

(* Every variable keeps its type. *)
LEMMA TypeStep ==
    ASSUME MemTypeOK, [MemNext]_memVars
    PROVE  MemTypeOK'
<1>0. call' \in Calls
  BY CallTyped DEF MemTypeOK
<1> USE <1>0, FreeOrderFacts, LoadOrderFacts, MemoryAssumption
    DEF MemTypeOK, Stack, Fields, Buffers, Allocate
<1>1. ASSUME NEW e \in Engines, Create(e) PROVE MemTypeOK'
  BY <1>1 DEF Create
<1>2. ASSUME NEW e \in Engines, LoadAlloc(e) PROVE MemTypeOK'
  <2>1. ToLoad(e)
    BY <1>2 DEF LoadAlloc
  <2>2. NextLoad(e) \in Fields /\ step[e] + 1 \in 1..Len(FreeOrder) + 1
    BY <2>1, LoadStep
  <2>3. step' = [step EXCEPT ![e] = step[e] + 1]
    BY <1>2 DEF LoadAlloc
  <2>4. step' \in [Engines -> 1..Len(FreeOrder) + 1]
    BY <2>2, <2>3
  <2>5. live' \in [Engines -> SUBSET Fields] /\ ptr' \in [Engines -> SUBSET Fields]
    BY <1>2, <2>2 DEF LoadAlloc
  <2>6. registry' \subseteq Engines
    <3>1. registry' \in {registry, registry \cup {e}}
      BY <1>2 DEF LoadAlloc
    <3> QED BY <3>1
  <2>7. atexit' \in BOOLEAN
    BY <1>2 DEF LoadAlloc
  <2> QED BY <1>2, <2>4, <2>5, <2>6, <2>7 DEF LoadAlloc
<1>3. ASSUME NEW e \in Engines, LoadFails(e) PROVE MemTypeOK'
  BY <1>3 DEF LoadFails
<1>4. ASSUME NEW e \in Engines, LoadAborts(e) PROVE MemTypeOK'
  BY <1>4 DEF LoadAborts, Abort
<1>5. ASSUME NEW e \in Engines, TurboWithoutKv(e) PROVE MemTypeOK'
  <2>1. step' = [step EXCEPT ![e] = step[e] + 1] /\ ToLoad(e)
    BY <1>5 DEF TurboWithoutKv
  <2>2. step[e] + 1 \in 1..Len(FreeOrder) + 1
    BY <2>1, LoadStep
  <2>3. step' \in [Engines -> 1..Len(FreeOrder) + 1]
    BY <2>1, <2>2
  <2> QED BY <1>5, <2>3 DEF TurboWithoutKv
<1>6. ASSUME NEW e \in Engines, Loaded(e) PROVE MemTypeOK'
  BY <1>6 DEF Loaded, StartFreeing
<1>7. ASSUME NEW e \in Engines, NEW fields \in SUBSET Override, BakeEnds(e, fields) PROVE MemTypeOK'
  BY <1>7 DEF BakeEnds, Override
<1>8. ASSUME NEW e \in Engines, BakeThrows(e) PROVE MemTypeOK'
  BY <1>8 DEF BakeThrows, Override, StartFreeing
<1>9. ASSUME NEW e \in Engines, Destroy(e) PROVE MemTypeOK'
  BY <1>9 DEF Destroy, StartFreeing
<1>10. ASSUME NEW e \in Engines, FreeNext(e) PROVE MemTypeOK'
  BY <1>10 DEF FreeNext, Unregister
<1>11. ASSUME NEW e \in Engines, Freed(e) PROVE MemTypeOK'
  BY <1>11 DEF Freed
<1>12. ASSUME NEW e \in Engines, NEW op \in Ops, Use(e, op) PROVE MemTypeOK'
  BY <1>12 DEF Use
<1>13. ASSUME NEW e \in Engines,
              SynthesisReturns(e) \/ SynthesisThrows(e) \/ SynthesisAborts(e)
       PROVE  MemTypeOK'
  BY <1>13 DEF SynthesisReturns, SynthesisThrows, SynthesisAborts, Abort
<1>14. ASSUME NEW e \in Engines, SaveReturns(e) \/ SaveThrows(e) PROVE MemTypeOK'
  BY <1>14 DEF SaveReturns, SaveThrows
<1>15. CASE BackInRust
  BY <1>15 DEF BackInRust
<1>16. CASE Exit
  BY <1>16 DEF Exit
<1>17. CASE Restart
  <2>1. step' \in [Engines -> 1..Len(FreeOrder) + 1]
    BY <1>17 DEF Restart
  <2>2. est' \in [Engines -> {"absent", "loading", "baking", "ready", "freeing", "gone", "failed"}]
    BY <1>17 DEF Restart
  <2>3. live' \in [Engines -> SUBSET Fields] /\ ptr' \in [Engines -> SUBSET Fields]
    BY <1>17 DEF Restart
  <2> QED BY <1>17, <2>1, <2>2, <2>3 DEF Restart
<1>18. CASE UNCHANGED memVars
  BY <1>18 DEF memVars
<1> HIDE DEF MemTypeOK
<1> QED
  BY <1>1, <1>2, <1>3, <1>4, <1>5, <1>6, <1>7, <1>8, <1>9, <1>10, <1>11, <1>12, <1>13,
     <1>14, <1>15, <1>16, <1>17, <1>18 DEF MemNext

-----------------------------------------------------------------------------
LEMMA BlocksBack ==
    ASSUME call \in Calls, call.ok, Throws \/ Returns({}) \/ Returns({"pcm"})
    PROVE  call'.at = "back" /\ call'.mem \subseteq call.mem \cup IF call'.ok THEN {"pcm"} ELSE {"err"}
<1>1. CASE Throws
  <2>1. PICK err \in {{}, {"err"}} :
            call' = [call EXCEPT !.at = "back", !.ok = FALSE, !.mem = @ \cup err]
    BY <1>1 DEF Throws
  <2>2. call'.at = "back" /\ call'.ok = FALSE /\ call'.mem = call.mem \cup err
    BY <2>1 DEF Calls
  <2> QED BY <2>2
<1>2. ASSUME NEW blocks \in {{}, {"pcm"}}, Returns(blocks)
      PROVE  call'.at = "back" /\ call'.mem \subseteq call.mem \cup IF call'.ok THEN {"pcm"} ELSE {"err"}
  <2>1. call'.at = "back" /\ call'.ok = call.ok /\ call'.mem = call.mem \cup blocks
    BY <1>2 DEF Returns, Calls
  <2> QED BY <2>1
<1> QED BY <1>1, <1>2

(* Only the engine of the call is being built or freed, and the blocks that *)
(* crossed the bridge are those the Rust side gives back.                   *)
LEMMA CallInvStep ==
    ASSUME MemTypeOK, CallInv, [MemNext]_memVars
    PROVE  CallInv'
<1> USE DEF CallInv, Busy
<1>0. call \in Calls /\ est \in [Engines -> {"absent", "loading", "baking", "ready", "freeing", "gone", "failed"}]
  BY DEF MemTypeOK
<1>1. ASSUME NEW e \in Engines, Create(e) PROVE CallInv'
  BY <1>0, <1>1 DEF Create, Enter, NoCall, Calls
<1>2. ASSUME NEW e \in Engines, LoadAlloc(e) \/ LoadAborts(e) \/ TurboWithoutKv(e) PROVE CallInv'
  BY <1>2 DEF LoadAlloc, LoadAborts, TurboWithoutKv, Abort
<1>3. ASSUME NEW e \in Engines, Loaded(e) \/ BakeThrows(e) PROVE CallInv'
  BY <1>0, <1>3 DEF Loaded, BakeThrows, StartFreeing, Loading, Baking, Inside
<1>4. ASSUME NEW e \in Engines,
             LoadFails(e) \/ (\E fields \in SUBSET Override : BakeEnds(e, fields)) \/ Freed(e)
      PROVE  CallInv'
  <2>1. /\ call.at = "engine" /\ call.eng = e /\ call.op # "stream"
        /\ est' \in {[est EXCEPT ![e] = x] : x \in {"failed", "ready", "gone"}}
    BY <1>4 DEF LoadFails, BakeEnds, Freed, Loading, Baking, Inside
  <2>2. Throws \/ Returns({})
    BY <1>4 DEF LoadFails, BakeEnds, Freed
  <2>3. \A f \in Engines : ~Busy(f)'
    BY <1>0, <2>1
  <2>4. call'.at = "back" /\ call'.mem \subseteq IF call'.ok THEN {"pcm"} ELSE {"err"}
    <3>1. call.ok /\ call.mem = IF call.op = "stream" THEN {"box"} ELSE {}
      BY <2>1
    <3> QED BY <1>0, <2>1, <2>2, <3>1, BlocksBack
  <2> QED BY <2>3, <2>4
<1>5. ASSUME NEW e \in Engines, Destroy(e) PROVE CallInv'
  BY <1>0, <1>5 DEF Destroy, StartFreeing, Enter, NoCall, Calls
<1>6. ASSUME NEW e \in Engines, FreeNext(e) PROVE CallInv'
  BY <1>6 DEF FreeNext
<1>7. ASSUME NEW e \in Engines, NEW op \in Ops, Use(e, op) PROVE CallInv'
  <2>1. /\ op \in {"batch", "stream", "save"} /\ est' = est /\ call = NoCall
        /\ call' = [op |-> op, eng |-> e, at |-> "engine", ok |-> TRUE,
                    mem |-> IF op = "stream" THEN {"box"} ELSE {}]
    BY <1>7 DEF Use, Enter
  <2>2. \A f \in Engines : ~Busy(f)'
    BY <2>1 DEF NoCall
  <2> QED BY <2>1, <2>2
<1>8. ASSUME NEW e \in Engines,
             SynthesisReturns(e) \/ SynthesisThrows(e) \/ SaveReturns(e) \/ SaveThrows(e)
      PROVE  CallInv'
  <2>1. call.at = "engine" /\ call.op \in {"batch", "stream", "save"} /\ est' = est
    BY <1>8 DEF SynthesisReturns, SynthesisThrows, SaveReturns, SaveThrows, Synthesizing, Inside
  <2>2. Throws \/ Returns({"pcm"}) \/ Returns({})
    BY <1>8 DEF SynthesisReturns, SynthesisThrows, SaveReturns, SaveThrows
  <2>3. \A f \in Engines : ~Busy(f)'
    BY <2>1
  <2>4. call'.at = "back" /\ call'.mem \subseteq {"box"} \cup IF call'.ok THEN {"pcm"} ELSE {"err"}
    <3>1. call.ok /\ call.mem = IF call.op = "stream" THEN {"box"} ELSE {}
      BY <2>1
    <3> QED BY <1>0, <2>1, <2>2, <3>1, BlocksBack
  <2> QED BY <2>3, <2>4
<1>9. ASSUME NEW e \in Engines, SynthesisAborts(e) PROVE CallInv'
  BY <1>9 DEF SynthesisAborts, Abort
<1>10. CASE BackInRust
  <2>1. call'.mem = {} /\ call' = [NoCall EXCEPT !.mem = call'.mem]
    BY <1>0, <1>10 DEF BackInRust, NoCall, Calls
  <2>2. call' = NoCall
    BY <2>1 DEF NoCall
  <2>3. \A f \in Engines : ~Busy(f)'
    BY <1>10 DEF BackInRust
  <2> QED BY <2>2, <2>3 DEF NoCall
<1>11. CASE Exit
  BY <1>11 DEF Exit
<1>12. CASE Restart
  <2>1. \A f \in Engines : ~Busy(f)'
    BY <1>12 DEF Restart
  <2> QED BY <1>12, <2>1 DEF Restart, NoCall
<1>13. CASE UNCHANGED memVars
  BY <1>13 DEF memVars
<1> HIDE DEF CallInv
<1> QED
  BY <1>1, <1>2, <1>3, <1>4, <1>5, <1>6, <1>7, <1>8, <1>9, <1>10, <1>11, <1>12, <1>13
  DEF MemNext

-----------------------------------------------------------------------------
(* An action on one engine leaves what another one owns. *)
LEMMA OthersKeep ==
    ASSUME NEW f \in Engines, Owns(f),
           est'[f] = est[f], kind'[f] = kind[f], live'[f] = live[f], ptr'[f] = ptr[f],
           step'[f] = step[f], f \in registry' <=> f \in registry, atexit => atexit'
    PROVE  Owns(f)'
BY DEF Owns

(* The step of the load of an engine. *)
LEMMA OwnsLoadAlloc ==
    ASSUME MemTypeOK, NEW e \in Engines, Owns(e), LoadAlloc(e)
    PROVE  Owns(e)'
<1> DEFINE x == NextLoad(e)
<1>1. est[e] = "loading" /\ ToLoad(e)
  BY DEF LoadAlloc, Loading
<1>2. /\ live'[e] = live[e] \cup {x} /\ ptr'[e] = ptr[e] \cup {x}
      /\ step'[e] = step[e] + 1 /\ est'[e] = "loading" /\ kind' = kind
  BY <1>1 DEF LoadAlloc, Allocate, MemTypeOK
<1>3. /\ kind[e] \in Kinds /\ step[e] \in Nat /\ step[e] >= 1
      /\ step[e] <= Len(LoadOrder(kind[e])) /\ Len(LoadOrder(kind[e])) \in Nat
  <2>1. Len(LoadOrder(kind[e])) \in {5, 7}
    BY <1>1, LoadStep, LoadOrderFacts
  <2> QED BY <1>1, <2>1, LoadStep
<1>4. /\ step[e] = 1 <=> x = "backend"
      /\ step[e] = 6 => x = "ctx_stack"
      /\ x = "buffer_stack" => step[e] = 7
      /\ x \notin {"allocr", "buffer_override"}
  <2>1. Len(LoadOrder(kind[e])) \in {5, 7}
    BY <1>3, LoadOrderFacts
  <2>2. step[e] \in 1..7 /\ (step[e] \in {6, 7} => Len(LoadOrder(kind[e])) = 7)
    BY <1>1, LoadStep
  <2>3. step[e] >= 1 /\ step[e] \in Nat
    BY <2>2
  <2> QED BY <1>3, <2>2, <2>3, LoadOrderFacts DEF NextLoad
<1>5. IF x = "buffer_stack" THEN registry' = registry \cup {e} /\ atexit' = TRUE
                            ELSE registry' = registry /\ atexit' = atexit
  BY DEF LoadAlloc
<1> HIDE DEF x
<1>6. ptr[e] = live[e] /\ ptr'[e] = live'[e]
  BY <1>1, <1>2 DEF Owns
<1>7. "backend" \in live'[e]
  BY <1>1, <1>2, <1>3, <1>4 DEF Owns
<1>8. step[e] = 6 => "ctx_stack" \in live'[e]
  BY <1>2, <1>4
<1>9. "buffer_stack" \in live'[e] => "ctx_stack" \in live'[e] /\ atexit'
  BY <1>1, <1>2, <1>4, <1>5 DEF Owns
<1>10. e \in registry' <=> "buffer_stack" \in live'[e]
  BY <1>1, <1>2, <1>5 DEF Owns
<1>11. step'[e] <= Len(LoadOrder(kind'[e])) + 1 /\ step'[e] # 1 /\ (step'[e] = 7 => step[e] = 6)
  BY <1>2, <1>3
<1> QED BY <1>2, <1>6, <1>7, <1>8, <1>9, <1>10, <1>11 DEF Owns

(* The step of a release. *)
LEMMA OwnsFreeNext ==
    ASSUME MemTypeOK, NEW e \in Engines, Owns(e), FreeNext(e)
    PROVE  Owns(e)'
<1>1. est[e] = "freeing" /\ est' = est /\ kind' = kind /\ atexit' = atexit
  BY DEF FreeNext
<1>2. step[e] \in 1..11 /\ step'[e] = step[e] + 1
  <2>1. step[e] \in 1..12 /\ step[e] <= 11 /\ step'[e] = step[e] + 1
    BY FreeOrderFacts DEF FreeNext, MemTypeOK
  <2> QED BY <2>1
<1>3. ptr[e] = live[e] /\ \A i \in 1..step[e] - 1 : FreeOrder[i] \notin live[e]
  BY <1>1 DEF Owns
<1>4. CASE FreeOrder[step[e]] = "registry"
  <2>1. step[e] = 2
    BY <1>2, <1>4, FreeOrderFacts
  <2>2. live' = live /\ ptr' = ptr /\ Unregister(e)
    BY <1>4 DEF FreeNext
  <2>3. e \notin registry'
    <3>1. "buffer_stack" \in live[e] => e \notin registry'
      BY <1>3, <2>2 DEF Unregister, Stack
    <3>2. "buffer_stack" \notin live[e] => e \notin registry /\ e \notin registry'
      BY <2>2 DEF Unregister, Owns
    <3> QED BY <3>1, <3>2
  <2>4. "registry" \notin live[e]
    BY DEF MemTypeOK, Fields, Buffers
  <2>5. \A i \in 1..step'[e] - 1 : FreeOrder[i] \notin live'[e]
    BY <1>2, <1>3, <2>1, <2>2, <2>4, FreeOrderFacts
  <2>6. step'[e] = 3
    BY <1>2, <2>1
  <2> QED BY <1>1, <1>3, <2>2, <2>3, <2>5, <2>6 DEF Owns
<1>5. CASE FreeOrder[step[e]] # "registry"
  <2>1. /\ live'[e] = live[e] \ {FreeOrder[step[e]]} /\ ptr'[e] = live'[e]
        /\ registry' = registry
    <3>1. /\ live'[e] = live[e] \ ({FreeOrder[step[e]]} \cap ptr[e])
          /\ ptr'[e] = ptr[e] \ {FreeOrder[step[e]]}
          /\ registry' = registry
      BY <1>5 DEF FreeNext, MemTypeOK
    <3> QED BY <1>3, <3>1
  <2>2. step[e] # 2 /\ step[e] >= 1 /\ step[e] \in Nat
    BY <1>2, <1>5, FreeOrderFacts
  <2>3. \A i \in 1..step'[e] - 1 : FreeOrder[i] \notin live'[e]
    <3>1. ASSUME NEW i \in 1..step'[e] - 1
          PROVE  FreeOrder[i] \notin live'[e]
      <4>1. i \in 1..step[e] - 1 \/ i = step[e]
        BY <1>2
      <4> QED BY <1>3, <2>1, <4>1
    <3> QED BY <3>1
  <2>4. \A b \in Buffers : b \in live'[e] => "backend" \in live'[e]
    <3>1. CASE FreeOrder[step[e]] # "backend"
      BY <2>1, <3>1 DEF Owns
    <3>2. CASE FreeOrder[step[e]] = "backend"
      <4>1. step[e] = 7
        BY <1>2, <3>2, FreeOrderFacts
      <4>2. \A b \in Buffers : b \notin live[e]
        BY <1>3, <4>1, FreeOrderFacts DEF Buffers
      <4> QED BY <2>1, <4>2
    <3> QED BY <3>1, <3>2
  <2>5. "buffer_stack" \in live'[e] => "ctx_stack" \in live'[e] /\ atexit'
    <3>1. FreeOrder[step[e]] = "ctx_stack" => "buffer_stack" \notin live[e]
      <4>1. FreeOrder[step[e]] = "ctx_stack" => step[e] = 10
        BY <1>2, FreeOrderFacts
      <4>2. step[e] = 10 => "buffer_stack" \notin live[e]
        BY <1>3, FreeOrderFacts
      <4> QED BY <4>1, <4>2
    <3> QED BY <1>1, <2>1, <3>1 DEF Owns
  <2>6. e \in registry' <=> "buffer_stack" \in live'[e] /\ step'[e] <= 2
    <3>1. e \in registry <=> "buffer_stack" \in live[e] /\ step[e] <= 2
      BY <1>1 DEF Owns
    <3>2. CASE step[e] = 1
      <4>1. FreeOrder[step[e]] # "buffer_stack" /\ step[e] <= 2 /\ step'[e] <= 2
        BY <1>2, <3>2, FreeOrderFacts
      <4> QED BY <2>1, <3>1, <4>1
    <3>3. CASE step[e] # 1
      <4>1. \A s \in Nat : s >= 1 /\ s # 1 /\ s # 2 => ~(s <= 2) /\ ~(s + 1 <= 2)
        OBVIOUS
      <4>2. ~(step[e] <= 2) /\ ~(step'[e] <= 2)
        BY <1>2, <2>2, <3>3, <4>1
      <4> QED BY <2>1, <3>1, <4>2
    <3> QED BY <3>2, <3>3
  <2> QED BY <1>1, <2>1, <2>3, <2>4, <2>5, <2>6 DEF Owns
<1> QED BY <1>4, <1>5

(* What an action does to the engine it is about. *)
LEMMA OwnsStep ==
    ASSUME MemTypeOK, CallInv, NEW e \in Engines, Owns(e),
           \/ Create(e) \/ LoadAlloc(e) \/ LoadFails(e) \/ LoadAborts(e)
           \/ TurboWithoutKv(e) \/ Loaded(e)
           \/ \E fields \in SUBSET Override : BakeEnds(e, fields)
           \/ BakeThrows(e)
           \/ Destroy(e) \/ FreeNext(e) \/ Freed(e)
    PROVE  Owns(e)'
<1>1. CASE Create(e)
  <2>1. /\ est[e] = "absent" /\ est'[e] = "loading" /\ step'[e] = 1 /\ kind' = kind /\ live' = live /\ ptr' = ptr
        /\ registry' = registry /\ atexit' = atexit
    BY <1>1 DEF Create, MemTypeOK
  <2>2. live[e] = {} /\ ptr[e] = {} /\ e \notin registry
    BY <2>1 DEF Owns
  <2>3. 1 <= Len(LoadOrder(kind[e])) + 1
    <3>1. Len(LoadOrder(kind[e])) \in {5, 7}
      BY LoadOrderFacts DEF MemTypeOK
    <3> QED BY <3>1
  <2> QED BY <2>1, <2>2, <2>3 DEF Owns
<1>2. CASE LoadAlloc(e)
  BY <1>2, OwnsLoadAlloc
<1>3. CASE LoadFails(e)
  <2>1. /\ est[e] = "loading" /\ est'[e] = "failed" /\ live' = live /\ ptr'[e] = {}
        /\ registry' = registry /\ atexit' = atexit
    BY <1>3 DEF LoadFails, Loading, MemTypeOK
  <2> QED BY <2>1 DEF Owns
<1>4. CASE LoadAborts(e)
  BY <1>4, OthersKeep DEF LoadAborts, Abort
<1>5. CASE TurboWithoutKv(e)
  <2>1. /\ est[e] = "loading" /\ est' = est /\ live' = live /\ ptr' = ptr /\ kind' = kind
        /\ registry' = registry /\ atexit' = atexit
        /\ step'[e] = step[e] + 1 /\ ToLoad(e) /\ NextLoad(e) = "buffer_kv"
    BY <1>5 DEF TurboWithoutKv, Loading, MemTypeOK
  <2>2. step[e] = 5 /\ Len(LoadOrder(kind[e])) \in {5, 7}
    <3>1. /\ kind[e] \in Kinds /\ Len(LoadOrder(kind[e])) \in {5, 7}
          /\ step[e] \in 1..7 /\ (step[e] \in {6, 7} => Len(LoadOrder(kind[e])) = 7)
      BY <2>1, LoadStep, LoadOrderFacts
    <3> QED BY <2>1, <3>1, LoadOrderFacts DEF NextLoad
  <2> DEFINE n == Len(LoadOrder(kind[e]))
  <2>3. step'[e] = 6 /\ step'[e] <= Len(LoadOrder(kind'[e])) + 1
    <3>1. n \in {5, 7} => 6 <= n + 1
      BY DEF n
    <3> QED BY <2>1, <2>2, <3>1
  <2>4. "backend" \in live[e]
    BY <2>1, <2>2 DEF Owns
  <2> QED BY <2>1, <2>3, <2>4 DEF Owns
<1>6. CASE Loaded(e)
  <2>1. /\ est[e] = "loading" /\ kind' = kind /\ registry' = registry /\ atexit' = atexit
        /\ ~ToLoad(e)
    BY <1>6 DEF Loaded, Loading
  <2>2. "backend" \in live[e] /\ ptr[e] = live[e]
    <3>1. step[e] # 1
      <4>1. Len(LoadOrder(kind[e])) \in {5, 7}
        BY LoadOrderFacts DEF MemTypeOK
      <4> QED BY <2>1, <4>1 DEF ToLoad
    <3>2. step[e] > 1
      BY <3>1 DEF MemTypeOK
    <3> QED BY <2>1, <3>2 DEF Owns
  <2>3. CASE est' = [est EXCEPT ![e] = "baking"] /\ Allocate(e, {"allocr"})
    <3>1. /\ est'[e] = "baking" /\ live'[e] = live[e] \cup {"allocr"}
          /\ ptr'[e] = ptr[e] \cup {"allocr"}
      BY <2>3 DEF Allocate, MemTypeOK
    <3> QED BY <2>1, <2>2, <3>1 DEF Owns
  <2>4. CASE StartFreeing(e) /\ live' = live /\ ptr' = ptr
    <3>1. est'[e] = "freeing" /\ step'[e] = 1
      BY <2>4 DEF StartFreeing, MemTypeOK
    <3> QED BY <2>1, <2>2, <2>4, <3>1 DEF Owns
  <2> QED BY <1>6, <2>3, <2>4 DEF Loaded
<1>7. ASSUME NEW fields \in SUBSET Override, BakeEnds(e, fields)
      PROVE  Owns(e)'
  <2>1. /\ est[e] = "baking" /\ est'[e] = "ready" /\ kind' = kind /\ registry' = registry /\ atexit' = atexit
        /\ live'[e] = live[e] \cup fields /\ ptr'[e] = ptr[e] \cup fields
    BY <1>7 DEF BakeEnds, Baking, Allocate, MemTypeOK
  <2> QED BY <2>1 DEF Owns, Override
<1>8. CASE BakeThrows(e)
  <2>1. PICK fields \in SUBSET Override : Allocate(e, fields)
    BY <1>8 DEF BakeThrows, Override
  <2>2. /\ est[e] = "baking" /\ est'[e] = "freeing" /\ step'[e] = 1 /\ kind' = kind
        /\ registry' = registry /\ atexit' = atexit
        /\ live'[e] = live[e] \cup fields /\ ptr'[e] = ptr[e] \cup fields
    BY <1>8, <2>1 DEF BakeThrows, StartFreeing, Baking, Allocate, MemTypeOK
  <2> QED BY <2>2 DEF Owns, Override
<1>9. CASE Destroy(e)
  <2>1. /\ est[e] = "ready" /\ est'[e] = "freeing" /\ step'[e] = 1 /\ kind' = kind
        /\ registry' = registry /\ atexit' = atexit /\ live' = live /\ ptr' = ptr
    BY <1>9 DEF Destroy, StartFreeing, MemTypeOK
  <2> QED BY <2>1 DEF Owns
<1>10. CASE FreeNext(e)
  BY <1>10, OwnsFreeNext
<1>11. CASE Freed(e)
  <2>1. /\ est[e] = "freeing" /\ est'[e] = "gone" /\ step[e] = 12
        /\ registry' = registry /\ atexit' = atexit /\ live' = live /\ ptr' = ptr
    BY <1>11, FreeOrderFacts DEF Freed, MemTypeOK
  <2>2. \A i \in 1..11 : FreeOrder[i] \notin live[e]
    BY <2>1 DEF Owns
  <2>3. live[e] = {}
    BY <2>2, FreeOrderFacts DEF MemTypeOK, Fields, Buffers
  <2>4. ptr[e] = {} /\ e \notin registry
    BY <2>1, <2>3 DEF Owns
  <2> QED BY <2>1, <2>3, <2>4 DEF Owns
<1> QED BY <1>1, <1>2, <1>3, <1>4, <1>5, <1>6, <1>7, <1>8, <1>9, <1>10, <1>11

LEMMA OthersStep ==
    ASSUME MemTypeOK, NEW e \in Engines, NEW f \in Engines, f # e, Owns(f),
           \/ Create(e) \/ LoadAlloc(e) \/ LoadFails(e) \/ LoadAborts(e)
           \/ TurboWithoutKv(e) \/ Loaded(e)
           \/ \E fields \in SUBSET Override : BakeEnds(e, fields)
           \/ BakeThrows(e)
           \/ Destroy(e) \/ FreeNext(e) \/ Freed(e)
    PROVE  Owns(f)'
<1> USE DEF MemTypeOK, Allocate
<1>1. /\ est'[f] = est[f] /\ kind'[f] = kind[f] /\ step'[f] = step[f]
  BY DEF Create, LoadAlloc, LoadFails, LoadAborts, TurboWithoutKv, Loaded, BakeEnds, BakeThrows,
         Destroy, FreeNext, Freed, Abort, StartFreeing
<1>2. live'[f] = live[f] /\ ptr'[f] = ptr[f]
  BY DEF Create, LoadAlloc, LoadFails, LoadAborts, TurboWithoutKv, Loaded, BakeEnds, BakeThrows,
         Destroy, FreeNext, Freed, Abort
<1>3. (f \in registry' <=> f \in registry) /\ (atexit => atexit')
  BY DEF Create, LoadAlloc, LoadFails, LoadAborts, TurboWithoutKv, Loaded, BakeEnds, BakeThrows,
         Destroy, FreeNext, Freed, Abort, Unregister
<1> QED BY <1>1, <1>2, <1>3, OthersKeep

(* MemInv is inductive.  Restart gives a fresh process, Exit ends one; the *)
(* other actions are those of one engine, or move nothing.                 *)
LEMMA OwnsStepAll ==
    ASSUME MemTypeOK, CallInv, proc # "exited" => \A e \in Engines : Owns(e), [MemNext]_memVars
    PROVE  proc' # "exited" => \A e \in Engines : Owns(e)'
<1> SUFFICES ASSUME proc' # "exited", NEW f \in Engines PROVE Owns(f)'
  OBVIOUS
<1> DEFINE Step(e) ==
           \/ Create(e) \/ LoadAlloc(e) \/ LoadFails(e) \/ LoadAborts(e)
           \/ TurboWithoutKv(e) \/ Loaded(e)
           \/ \E fields \in SUBSET Override : BakeEnds(e, fields)
           \/ BakeThrows(e)
           \/ Destroy(e) \/ FreeNext(e) \/ Freed(e)
<1>1. ASSUME NEW e \in Engines, Step(e)
      PROVE  Owns(f)'
  <2>1. proc = "running"
    BY <1>1 DEF Create, LoadAlloc, LoadFails, LoadAborts, TurboWithoutKv, Loaded, BakeEnds, BakeThrows,
         Destroy, FreeNext, Freed, Loading, Baking, Inside, Enter
  <2>2. Owns(e) /\ Owns(f)
    BY <2>1
  <2>3. CASE f = e
    BY <1>1, <2>2, <2>3, OwnsStep
  <2>4. CASE f # e
    BY <1>1, <2>2, <2>4, OthersStep
  <2> QED BY <2>3, <2>4
<1> HIDE DEF Step
<1>2. ASSUME UNCHANGED <<est, kind, live, ptr, step, registry, atexit>>, proc # "exited"
      PROVE  Owns(f)'
  BY <1>2, OthersKeep
<1>3. ASSUME NEW e \in Engines,
             \/ \E op \in Ops : Use(e, op)
             \/ SynthesisReturns(e) \/ SynthesisThrows(e) \/ SynthesisAborts(e)
             \/ SaveReturns(e) \/ SaveThrows(e)
      PROVE  Owns(f)'
  <2>1. UNCHANGED <<est, kind, live, ptr, step, registry, atexit>> /\ proc = "running"
    BY <1>3 DEF Use, SynthesisReturns, SynthesisThrows, SynthesisAborts, SaveReturns, SaveThrows,
                Synthesizing, Inside, Enter, Abort
  <2> QED BY <1>2, <2>1
<1>4. CASE BackInRust \/ UNCHANGED memVars
  <2>1. UNCHANGED <<est, kind, live, ptr, step, registry, atexit, proc>>
    BY <1>4 DEF BackInRust, memVars
  <2> QED BY <1>2, <2>1
<1>5. CASE Exit
  BY <1>5 DEF Exit
<1>6. CASE Restart
  <2>1. /\ est'[f] = "absent" /\ live'[f] = {} /\ ptr'[f] = {} /\ f \notin registry'
    BY <1>6 DEF Restart
  <2> QED BY <2>1 DEF Owns
<1>7. ASSUME NEW e \in Engines,
             \/ Create(e) \/ LoadAlloc(e) \/ LoadFails(e) \/ LoadAborts(e)
             \/ TurboWithoutKv(e) \/ Loaded(e)
             \/ \E fields \in SUBSET Override : BakeEnds(e, fields)
             \/ BakeThrows(e)
             \/ Destroy(e) \/ FreeNext(e) \/ Freed(e)
      PROVE  Owns(f)'
  BY <1>1, <1>7 DEF Step
<1> QED BY <1>3, <1>4, <1>5, <1>6, <1>7 DEF MemNext

LEMMA OwnsGives ==
    ASSUME MemTypeOK, \A e \in Engines : Owns(e)
    PROVE  BufferOverBackend /\ OnlyFailedLoadsLeak
<1>1. BufferOverBackend
  BY DEF BufferOverBackend, Owns
<1>2. OnlyFailedLoadsLeak
  BY DEF OnlyFailedLoadsLeak, Owns, MemTypeOK
<1> QED BY <1>1, <1>2

LEMMA MemInvStep ==
    ASSUME MemInv, [MemNext]_memVars
    PROVE  MemInv'
<1>1. MemTypeOK' /\ CallInv'
  BY TypeStep, CallInvStep DEF MemInv
<1>2. proc' # "exited" => \A e \in Engines : Owns(e)'
  BY OwnsStepAll DEF MemInv
<1>3. CASE proc' # "exited"
  <2>1. BufferOverBackend' /\ OnlyFailedLoadsLeak'
    <3>1. \A e \in Engines : Owns(e)'
      BY <1>2, <1>3
    <3>2. MemTypeOK'
      BY <1>1
    <3>3. BufferOverBackend'
      BY <3>1 DEF BufferOverBackend, Owns
    <3>4. OnlyFailedLoadsLeak'
      BY <3>1, <3>2 DEF OnlyFailedLoadsLeak, Owns, MemTypeOK
    <3> QED BY <3>3, <3>4
  <2>2. NoStackAtExit'
    BY <1>3 DEF NoStackAtExit
  <2> QED BY <1>1, <1>2, <2>1, <2>2 DEF MemInv
<1>4. CASE proc' = "exited"
  <2>1. CASE UNCHANGED memVars
    BY <1>1, <1>4, <2>1 DEF MemInv, memVars, BufferOverBackend, OnlyFailedLoadsLeak, NoStackAtExit
  <2>2. CASE Exit
    <3>1. /\ proc = "running" /\ est' = est /\ call = NoCall
          /\ \A e \in Engines : Owns(e)
      BY <2>2 DEF Exit, MemInv
    <3>2. \A e \in Engines : live'[e] = IF atexit /\ e \in registry THEN live[e] \ Stack ELSE live[e]
      BY <2>2 DEF Exit
    <3>3. BufferOverBackend'
      BY <3>2 DEF BufferOverBackend, MemInv, Stack
    <3>4. OnlyFailedLoadsLeak'
      BY <3>1, <3>2 DEF OnlyFailedLoadsLeak, MemInv
    <3>5. NoStackAtExit'
      <4>1. \A e \in Engines : est[e] # "freeing"
        BY <3>1 DEF MemInv, CallInv, Busy, NoCall
      <4>2. \A e \in Engines : "buffer_stack" \in live[e] => atexit /\ e \in registry
        BY <3>1, <4>1 DEF Owns
      <4> QED BY <3>2, <4>2 DEF NoStackAtExit, Stack
    <3> QED BY <1>1, <1>2, <3>3, <3>4, <3>5 DEF MemInv
  <2>3. CASE ~Exit /\ ~UNCHANGED memVars /\ ~BackInRust
    <3>1. PICK e \in Engines :
              \/ Create(e) \/ LoadAlloc(e) \/ LoadFails(e) \/ LoadAborts(e)
              \/ TurboWithoutKv(e) \/ Loaded(e)
              \/ \E fields \in SUBSET Override : BakeEnds(e, fields)
              \/ BakeThrows(e) \/ Destroy(e) \/ FreeNext(e) \/ Freed(e)
              \/ \E op \in Ops : Use(e, op)
              \/ SynthesisReturns(e) \/ SynthesisThrows(e) \/ SynthesisAborts(e)
              \/ SaveReturns(e) \/ SaveThrows(e)
      <4>1. ~Restart
        BY <1>4 DEF Restart
      <4> QED BY <2>3, <4>1 DEF MemNext
    <3>2. proc' \in {"running", "aborted"}
      BY <3>1 DEF Create, LoadAlloc, LoadFails, LoadAborts, TurboWithoutKv, Loaded, BakeEnds, BakeThrows,
         Destroy, FreeNext, Freed, Loading, Baking, Inside, Enter, Use, SynthesisReturns,
         SynthesisThrows, SynthesisAborts, SaveReturns, SaveThrows, Synthesizing, Abort
    <3> QED BY <1>4, <3>2
  <2>4. CASE BackInRust
    BY <1>4, <2>4 DEF BackInRust
  <2> QED BY <2>1, <2>2, <2>3, <2>4
<1> QED BY <1>3, <1>4

LEMMA MemInvInit == MemInit => MemInv
<1> SUFFICES ASSUME MemInit PROVE MemInv
  OBVIOUS
<1> USE DEF MemInit, FreshProcess
<1>1. MemTypeOK
  <2>1. call \in Calls
    BY DEF Calls, NoCall, Ops, Blocks
  <2>2. step \in [Engines -> 1..Len(FreeOrder) + 1]
    BY FreeOrderFacts
  <2>3. /\ est \in [Engines -> {"absent", "loading", "baking", "ready", "freeing", "gone", "failed"}]
        /\ live \in [Engines -> SUBSET Fields] /\ ptr \in [Engines -> SUBSET Fields]
    OBVIOUS
  <2> QED BY <2>1, <2>2, <2>3 DEF MemTypeOK
<1>2. CallInv
  BY DEF CallInv, Busy, NoCall
<1>3. \A e \in Engines : Owns(e)
  BY DEF Owns
<1>4. NoStackAtExit
  BY DEF NoStackAtExit
<1> QED BY <1>1, <1>2, <1>3, <1>4, OwnsGives DEF MemInv

-----------------------------------------------------------------------------
(* Types and ownership: the memory of an engine is what it points to, also *)
(* while it is loaded and freed piece by piece (Engine::Impl).             *)
THEOREM MemInvHolds == MemSpec => []MemInv
BY MemInvInit, MemInvStep, PTL DEF MemSpec

(* No pointer of an engine or of t3_stack_registry is to freed memory, so  *)
(* nothing is freed twice (free_model, t3_stack_release_atexit).           *)
THEOREM NothingDangles == MemSpec => []NoDangling
<1>1. MemInv => NoDangling
  <2> SUFFICES ASSUME MemInv, proc = "running"
               PROVE  /\ \A e \in Engines : ptr[e] \subseteq live[e]
                      /\ \A e \in registry : Stack \subseteq live[e]
    BY DEF NoDangling
  <2>1. \A e \in Engines : Owns(e)
    BY DEF MemInv
  <2>2. registry \subseteq Engines
    BY DEF MemInv, MemTypeOK
  <2>3. \A e \in Engines : ptr[e] \subseteq live[e]
    BY <2>1 DEF Owns
  <2>4. \A e \in registry : Stack \subseteq live[e]
    BY <2>1, <2>2 DEF Owns, Stack
  <2> QED BY <2>3, <2>4
<1> QED BY MemInvHolds, <1>1, PTL

(* No buffer is left on a freed backend. *)
THEOREM BackendOutlivesBuffers == MemSpec => []BufferOverBackend
<1>1. MemInv => BufferOverBackend
  BY DEF MemInv
<1> QED BY MemInvHolds, <1>1, PTL

(* Only a load that failed part-way leaves memory behind. *)
THEOREM OthersLeakNothing == MemSpec => []OnlyFailedLoadsLeak
<1>1. MemInv => OnlyFailedLoadsLeak
  BY DEF MemInv
<1> QED BY MemInvHolds, <1>1, PTL

(* The exit handler leaves no stacked weights. *)
THEOREM StacksFreedAtExit == MemSpec => []NoStackAtExit
<1>1. MemInv => NoStackAtExit
  BY DEF MemInv
<1> QED BY MemInvHolds, <1>1, PTL

(* No call leaves a block behind, and the box outlives the stream. *)
THEOREM CallsLeaveNothing == MemSpec => []CallMemory
<1>1. MemInv => CallMemory
  BY DEF MemInv, CallInv, CallMemory, NoCall
<1> QED BY MemInvHolds, <1>1, PTL
=============================================================================
