-------------------------- MODULE S3GenCacheProofs --------------------------
(***************************************************************************)
(* Proofs about S3GenCache, for any number of threads, engines, keys,      *)
(* models and addresses.                                                   *)
(***************************************************************************)
EXTENDS S3GenCache, TLAPS

(* A step keeps the types: a thread inside a call has an engine. *)
LEMMA TypeStep ==
  ASSUME TypeOK, CallHasEngine, [Next]_vars
  PROVE  TypeOK' /\ CallHasEngine'
<1> USE CacheAssumption DEF CacheAssumption, TypeOK, engineVars, modelVars, CallHasEngine, PcStates, ModelStates
<1> QED
  <2>1. ASSUME NEW t \in Threads, NEW e \in Engines, NEW k \in Keys, New(t, e, k)
        PROVE  TypeOK' /\ CallHasEngine'
    BY <2>1 DEF New, Enter
  <2>2. ASSUME NEW t \in Threads, NEW e \in Engines, Synthesize(t, e)
        PROVE  TypeOK' /\ CallHasEngine'
    BY <2>2 DEF Synthesize, Enter
  <2>3. ASSUME NEW t \in Threads, NEW e \in Engines, Drop(t, e)
        PROVE  TypeOK' /\ CallHasEngine'
    BY <2>3 DEF Drop, Enter
  <2>4. ASSUME NEW t \in Threads, ThreadStep(t)
        PROVE  TypeOK' /\ CallHasEngine'
    <3>1. CASE Built(t)
      BY <3>1 DEF Built, Leave
    <3>2. CASE BakeThrows(t)
      BY <3>2 DEF BakeThrows
    <3>3. CASE FailJoin(t)
      BY <3>3 DEF FailJoin, Join
    <3>4. CASE FailUnload(t)
      BY <3>4 DEF FailUnload, Release, Leave
    <3>5. CASE T3Throws(t)
      BY <3>5 DEF T3Throws, Leave
    <3>6. CASE T3Done(t)
      BY <3>6 DEF T3Done, Join
    <3>7. CASE GetHit(t)
      BY <3>7 DEF GetHit, Cached
    <3>8. CASE GetMiss(t)
      BY <3>8 DEF GetMiss, StartLoad, Cached
    <3>9. CASE GetLoaded(t)
      BY <3>9 DEF GetLoaded, Install
    <3>10. CASE GetThrows(t)
      BY <3>10 DEF GetThrows, LoadThrows, Leave
    <3>11. CASE Infer(t)
      BY <3>11 DEF Infer
    <3>12. CASE NextChunk(t)
      BY <3>12 DEF NextChunk
    <3>13. CASE SynthesisEnds(t)
      BY <3>13 DEF SynthesisEnds, Leave
    <3>14. CASE DropJoin(t)
      BY <3>14 DEF DropJoin, Join, Leave
    <3> QED
      BY <2>4, <3>1, <3>2, <3>3, <3>4, <3>5, <3>6, <3>7,
         <3>8, <3>9, <3>10, <3>11, <3>12, <3>13, <3>14 DEF ThreadStep
  <2>5. ASSUME NEW e \in Engines, PreloadStep(e)
        PROVE  TypeOK' /\ CallHasEngine'
    <3>1. CASE PreloadHit(e)
      BY <3>1 DEF PreloadHit, Cached
    <3>2. CASE PreloadMiss(e)
      BY <3>2 DEF PreloadMiss, StartLoad, Cached
    <3>3. CASE PreloadDone(e)
      BY <3>3 DEF PreloadDone, Install, LoadThrows
    <3> QED
      BY <2>5, <3>1, <3>2, <3>3 DEF PreloadStep
  <2>6. CASE Exit
    BY <2>6 DEF Exit, Release
  <2>7. CASE UNCHANGED vars
    BY <2>7 DEF vars
  <2> QED
    BY <2>1, <2>2, <2>3, <2>4, <2>5, <2>6, <2>7 DEF Next, Exited

(* A step keeps the call's thread the holder of the mutex. *)
LEMMA LockStep ==
  ASSUME TypeOK, CallHoldsLock, Serialized = TRUE, [Next]_vars
  PROVE  CallHoldsLock'
<1> USE CacheAssumption DEF CacheAssumption, TypeOK, engineVars, modelVars, CallHoldsLock, PcStates
<1> QED
  <2>1. ASSUME NEW t \in Threads, NEW e \in Engines, NEW k \in Keys, New(t, e, k)
        PROVE  CallHoldsLock'
    BY <2>1 DEF New, Enter
  <2>2. ASSUME NEW t \in Threads, NEW e \in Engines, Synthesize(t, e)
        PROVE  CallHoldsLock'
    BY <2>2 DEF Synthesize, Enter
  <2>3. ASSUME NEW t \in Threads, NEW e \in Engines, Drop(t, e)
        PROVE  CallHoldsLock'
    BY <2>3 DEF Drop, Enter
  <2>4. ASSUME NEW t \in Threads, ThreadStep(t)
        PROVE  CallHoldsLock'
    <3>1. CASE Built(t)
      BY <3>1 DEF Built, Leave
    <3>2. CASE BakeThrows(t)
      BY <3>2 DEF BakeThrows
    <3>3. CASE FailJoin(t)
      BY <3>3 DEF FailJoin, Join
    <3>4. CASE FailUnload(t)
      BY <3>4 DEF FailUnload, Release, Leave
    <3>5. CASE T3Throws(t)
      BY <3>5 DEF T3Throws, Leave
    <3>6. CASE T3Done(t)
      BY <3>6 DEF T3Done, Join
    <3>7. CASE GetHit(t)
      BY <3>7 DEF GetHit, Cached
    <3>8. CASE GetMiss(t)
      BY <3>8 DEF GetMiss, StartLoad, Cached
    <3>9. CASE GetLoaded(t)
      BY <3>9 DEF GetLoaded, Install
    <3>10. CASE GetThrows(t)
      BY <3>10 DEF GetThrows, LoadThrows, Leave
    <3>11. CASE Infer(t)
      BY <3>11 DEF Infer
    <3>12. CASE NextChunk(t)
      BY <3>12 DEF NextChunk
    <3>13. CASE SynthesisEnds(t)
      BY <3>13 DEF SynthesisEnds, Leave
    <3>14. CASE DropJoin(t)
      BY <3>14 DEF DropJoin, Join, Leave
    <3> QED
      BY <2>4, <3>1, <3>2, <3>3, <3>4, <3>5, <3>6, <3>7,
         <3>8, <3>9, <3>10, <3>11, <3>12, <3>13, <3>14 DEF ThreadStep
  <2>5. ASSUME NEW e \in Engines, PreloadStep(e)
        PROVE  CallHoldsLock'
    <3>1. CASE PreloadHit(e)
      BY <3>1 DEF PreloadHit, Cached
    <3>2. CASE PreloadMiss(e)
      BY <3>2 DEF PreloadMiss, StartLoad, Cached
    <3>3. CASE PreloadDone(e)
      BY <3>3 DEF PreloadDone, Install, LoadThrows
    <3> QED
      BY <2>5, <3>1, <3>2, <3>3 DEF PreloadStep
  <2>6. CASE Exit
    BY <2>6 DEF Exit, Release
  <2>7. CASE UNCHANGED vars
    BY <2>7 DEF vars
  <2> QED
    BY <2>1, <2>2, <2>3, <2>4, <2>5, <2>6, <2>7 DEF Next, Exited

(* A step keeps the preload joined once it is, and never leaves one behind. *)
LEMMA JoinStep ==
  ASSUME TypeOK, CallHasEngine, JoinedBeforeUse, PreloadJoined, [Next]_vars
  PROVE  JoinedBeforeUse' /\ PreloadJoined'
<1> USE CacheAssumption DEF CacheAssumption, TypeOK, engineVars, modelVars, CallHasEngine, JoinedBeforeUse, PastJoin, PreloadJoined, PcStates
<1> QED
  <2>1. ASSUME NEW t \in Threads, NEW e \in Engines, NEW k \in Keys, New(t, e, k)
        PROVE  JoinedBeforeUse' /\ PreloadJoined'
    BY <2>1 DEF New, Enter
  <2>2. ASSUME NEW t \in Threads, NEW e \in Engines, Synthesize(t, e)
        PROVE  JoinedBeforeUse' /\ PreloadJoined'
    BY <2>2 DEF Synthesize, Enter
  <2>3. ASSUME NEW t \in Threads, NEW e \in Engines, Drop(t, e)
        PROVE  JoinedBeforeUse' /\ PreloadJoined'
    BY <2>3 DEF Drop, Enter
  <2>4. ASSUME NEW t \in Threads, ThreadStep(t)
        PROVE  JoinedBeforeUse' /\ PreloadJoined'
    <3>1. CASE Built(t)
      BY <3>1 DEF Built, Leave
    <3>2. CASE BakeThrows(t)
      BY <3>2 DEF BakeThrows
    <3>3. CASE FailJoin(t)
      BY <3>3 DEF FailJoin, Join
    <3>4. CASE FailUnload(t)
      BY <3>4 DEF FailUnload, Release, Leave
    <3>5. CASE T3Throws(t)
      BY <3>5 DEF T3Throws, Leave
    <3>6. CASE T3Done(t)
      BY <3>6 DEF T3Done, Join
    <3>7. CASE GetHit(t)
      BY <3>7 DEF GetHit, Cached
    <3>8. CASE GetMiss(t)
      BY <3>8 DEF GetMiss, StartLoad, Cached
    <3>9. CASE GetLoaded(t)
      BY <3>9 DEF GetLoaded, Install
    <3>10. CASE GetThrows(t)
      BY <3>10 DEF GetThrows, LoadThrows, Leave
    <3>11. CASE Infer(t)
      BY <3>11 DEF Infer
    <3>12. CASE NextChunk(t)
      BY <3>12 DEF NextChunk
    <3>13. CASE SynthesisEnds(t)
      BY <3>13 DEF SynthesisEnds, Leave
    <3>14. CASE DropJoin(t)
      BY <3>14 DEF DropJoin, Join, Leave
    <3> QED
      BY <2>4, <3>1, <3>2, <3>3, <3>4, <3>5, <3>6, <3>7,
         <3>8, <3>9, <3>10, <3>11, <3>12, <3>13, <3>14 DEF ThreadStep
  <2>5. ASSUME NEW e \in Engines, PreloadStep(e)
        PROVE  JoinedBeforeUse' /\ PreloadJoined'
    <3>1. CASE PreloadHit(e)
      BY <3>1 DEF PreloadHit, Cached
    <3>2. CASE PreloadMiss(e)
      BY <3>2 DEF PreloadMiss, StartLoad, Cached
    <3>3. CASE PreloadDone(e)
      BY <3>3 DEF PreloadDone, Install, LoadThrows
    <3> QED
      BY <2>5, <3>1, <3>2, <3>3 DEF PreloadStep
  <2>6. CASE Exit
    BY <2>6 DEF Exit, Release
  <2>7. CASE UNCHANGED vars
    BY <2>7 DEF vars
  <2> QED
    BY <2>1, <2>2, <2>3, <2>4, <2>5, <2>6, <2>7 DEF Next, Exited

(* A step keeps the cached model the live one, and the keys known. *)
LEMMA CacheStep ==
  ASSUME TypeOK, CallHasEngine, LiveIsCached, KeysKnown, [Next]_vars
  PROVE  LiveIsCached' /\ KeysKnown'
<1> USE CacheAssumption DEF CacheAssumption, TypeOK, engineVars, modelVars, CallHasEngine, LiveIsCached, KeysKnown, PcStates, ModelStates
<1> QED
  <2>1. ASSUME NEW t \in Threads, NEW e \in Engines, NEW k \in Keys, New(t, e, k)
        PROVE  LiveIsCached' /\ KeysKnown'
    BY <2>1 DEF New, Enter
  <2>2. ASSUME NEW t \in Threads, NEW e \in Engines, Synthesize(t, e)
        PROVE  LiveIsCached' /\ KeysKnown'
    BY <2>2 DEF Synthesize, Enter
  <2>3. ASSUME NEW t \in Threads, NEW e \in Engines, Drop(t, e)
        PROVE  LiveIsCached' /\ KeysKnown'
    BY <2>3 DEF Drop, Enter
  <2>4. ASSUME NEW t \in Threads, ThreadStep(t)
        PROVE  LiveIsCached' /\ KeysKnown'
    <3>1. CASE Built(t)
      BY <3>1 DEF Built, Leave
    <3>2. CASE BakeThrows(t)
      BY <3>2 DEF BakeThrows
    <3>3. CASE FailJoin(t)
      BY <3>3 DEF FailJoin, Join
    <3>4. CASE FailUnload(t)
      BY <3>4 DEF FailUnload, Release, Leave
    <3>5. CASE T3Throws(t)
      BY <3>5 DEF T3Throws, Leave
    <3>6. CASE T3Done(t)
      BY <3>6 DEF T3Done, Join
    <3>7. CASE GetHit(t)
      BY <3>7 DEF GetHit, Cached
    <3>8. CASE GetMiss(t)
      BY <3>8 DEF GetMiss, StartLoad, Cached
    <3>9. CASE GetLoaded(t)
      BY <3>9 DEF GetLoaded, Install
    <3>10. CASE GetThrows(t)
      BY <3>10 DEF GetThrows, LoadThrows, Leave
    <3>11. CASE Infer(t)
      BY <3>11 DEF Infer
    <3>12. CASE NextChunk(t)
      BY <3>12 DEF NextChunk
    <3>13. CASE SynthesisEnds(t)
      BY <3>13 DEF SynthesisEnds, Leave
    <3>14. CASE DropJoin(t)
      BY <3>14 DEF DropJoin, Join, Leave
    <3> QED
      BY <2>4, <3>1, <3>2, <3>3, <3>4, <3>5, <3>6, <3>7,
         <3>8, <3>9, <3>10, <3>11, <3>12, <3>13, <3>14 DEF ThreadStep
  <2>5. ASSUME NEW e \in Engines, PreloadStep(e)
        PROVE  LiveIsCached' /\ KeysKnown'
    <3>1. CASE PreloadHit(e)
      BY <3>1 DEF PreloadHit, Cached
    <3>2. CASE PreloadMiss(e)
      BY <3>2 DEF PreloadMiss, StartLoad, Cached
    <3>3. CASE PreloadDone(e)
      BY <3>3 DEF PreloadDone, Install, LoadThrows
    <3> QED
      BY <2>5, <3>1, <3>2, <3>3 DEF PreloadStep
  <2>6. CASE Exit
    BY <2>6 DEF Exit, Release
  <2>7. CASE UNCHANGED vars
    BY <2>7 DEF vars
  <2> QED
    BY <2>1, <2>2, <2>3, <2>4, <2>5, <2>6, <2>7 DEF Next, Exited

(* With one key, a step never replaces an entry. *)
LEMMA LoadStep ==
  ASSUME TypeOK, CallHasEngine, KeysKnown, OneKey, LoadOnlyEmpty, [Next]_vars
  PROVE  LoadOnlyEmpty'
<1> USE CacheAssumption DEF CacheAssumption, TypeOK, engineVars, modelVars, CallHasEngine, KeysKnown, OneKey, LoadOnlyEmpty, PcStates, ModelStates
<1> QED
  <2>1. ASSUME NEW t \in Threads, NEW e \in Engines, NEW k \in Keys, New(t, e, k)
        PROVE  LoadOnlyEmpty'
    BY <2>1 DEF New, Enter
  <2>2. ASSUME NEW t \in Threads, NEW e \in Engines, Synthesize(t, e)
        PROVE  LoadOnlyEmpty'
    BY <2>2 DEF Synthesize, Enter
  <2>3. ASSUME NEW t \in Threads, NEW e \in Engines, Drop(t, e)
        PROVE  LoadOnlyEmpty'
    BY <2>3 DEF Drop, Enter
  <2>4. ASSUME NEW t \in Threads, ThreadStep(t)
        PROVE  LoadOnlyEmpty'
    <3>1. CASE Built(t)
      BY <3>1 DEF Built, Leave
    <3>2. CASE BakeThrows(t)
      BY <3>2 DEF BakeThrows
    <3>3. CASE FailJoin(t)
      BY <3>3 DEF FailJoin, Join
    <3>4. CASE FailUnload(t)
      BY <3>4 DEF FailUnload, Release, Leave
    <3>5. CASE T3Throws(t)
      BY <3>5 DEF T3Throws, Leave
    <3>6. CASE T3Done(t)
      BY <3>6 DEF T3Done, Join
    <3>7. CASE GetHit(t)
      BY <3>7 DEF GetHit, Cached
    <3>8. CASE GetMiss(t)
      BY <3>8 DEF GetMiss, StartLoad, Cached
    <3>9. CASE GetLoaded(t)
      BY <3>9 DEF GetLoaded, Install
    <3>10. CASE GetThrows(t)
      BY <3>10 DEF GetThrows, LoadThrows, Leave
    <3>11. CASE Infer(t)
      BY <3>11 DEF Infer
    <3>12. CASE NextChunk(t)
      BY <3>12 DEF NextChunk
    <3>13. CASE SynthesisEnds(t)
      BY <3>13 DEF SynthesisEnds, Leave
    <3>14. CASE DropJoin(t)
      BY <3>14 DEF DropJoin, Join, Leave
    <3> QED
      BY <2>4, <3>1, <3>2, <3>3, <3>4, <3>5, <3>6, <3>7,
         <3>8, <3>9, <3>10, <3>11, <3>12, <3>13, <3>14 DEF ThreadStep
  <2>5. ASSUME NEW e \in Engines, PreloadStep(e)
        PROVE  LoadOnlyEmpty'
    <3>1. CASE PreloadHit(e)
      BY <3>1 DEF PreloadHit, Cached
    <3>2. CASE PreloadMiss(e)
      BY <3>2 DEF PreloadMiss, StartLoad, Cached
    <3>3. CASE PreloadDone(e)
      BY <3>3 DEF PreloadDone, Install, LoadThrows
    <3> QED
      BY <2>5, <3>1, <3>2, <3>3 DEF PreloadStep
  <2>6. CASE Exit
    BY <2>6 DEF Exit, Release
  <2>7. CASE UNCHANGED vars
    BY <2>7 DEF vars
  <2> QED
    BY <2>1, <2>2, <2>3, <2>4, <2>5, <2>6, <2>7 DEF Next, Exited

(* A step leaves a pointer in use the cached one. *)
LEMMA EntryStep ==
  ASSUME TypeOK, CallHasEngine, CallHoldsLock, JoinedBeforeUse, UsesEntry,
         (OneKey /\ LoadOnlyEmpty) \/ OneEngine, [Next]_vars
  PROVE  UsesEntry'
<1> USE CacheAssumption DEF CacheAssumption, TypeOK, engineVars, modelVars, CallHasEngine, CallHoldsLock, JoinedBeforeUse, PastJoin,
         UsesEntry, InUse, OneKey, OneEngine, LoadOnlyEmpty, PcStates
<1> QED
  <2>1. ASSUME NEW t \in Threads, NEW e \in Engines, NEW k \in Keys, New(t, e, k)
        PROVE  UsesEntry'
    BY <2>1 DEF New, Enter
  <2>2. ASSUME NEW t \in Threads, NEW e \in Engines, Synthesize(t, e)
        PROVE  UsesEntry'
    BY <2>2 DEF Synthesize, Enter
  <2>3. ASSUME NEW t \in Threads, NEW e \in Engines, Drop(t, e)
        PROVE  UsesEntry'
    BY <2>3 DEF Drop, Enter
  <2>4. ASSUME NEW t \in Threads, ThreadStep(t)
        PROVE  UsesEntry'
    <3>1. CASE Built(t)
      BY <3>1 DEF Built, Leave
    <3>2. CASE BakeThrows(t)
      BY <3>2 DEF BakeThrows
    <3>3. CASE FailJoin(t)
      BY <3>3 DEF FailJoin, Join
    <3>4. CASE FailUnload(t)
      BY <3>4 DEF FailUnload, Release, Leave
    <3>5. CASE T3Throws(t)
      BY <3>5 DEF T3Throws, Leave
    <3>6. CASE T3Done(t)
      BY <3>6 DEF T3Done, Join
    <3>7. CASE GetHit(t)
      BY <3>7 DEF GetHit, Cached
    <3>8. CASE GetMiss(t)
      BY <3>8 DEF GetMiss, StartLoad, Cached
    <3>9. CASE GetLoaded(t)
      BY <3>9 DEF GetLoaded, Install
    <3>10. CASE GetThrows(t)
      BY <3>10 DEF GetThrows, LoadThrows, Leave
    <3>11. CASE Infer(t)
      BY <3>11 DEF Infer
    <3>12. CASE NextChunk(t)
      BY <3>12 DEF NextChunk
    <3>13. CASE SynthesisEnds(t)
      BY <3>13 DEF SynthesisEnds, Leave
    <3>14. CASE DropJoin(t)
      BY <3>14 DEF DropJoin, Join, Leave
    <3> QED
      BY <2>4, <3>1, <3>2, <3>3, <3>4, <3>5, <3>6, <3>7,
         <3>8, <3>9, <3>10, <3>11, <3>12, <3>13, <3>14 DEF ThreadStep
  <2>5. ASSUME NEW e \in Engines, PreloadStep(e)
        PROVE  UsesEntry'
    <3>1. CASE PreloadHit(e)
      BY <3>1 DEF PreloadHit, Cached
    <3>2. CASE PreloadMiss(e)
      BY <3>2 DEF PreloadMiss, StartLoad, Cached
    <3>3. CASE PreloadDone(e)
      BY <3>3 DEF PreloadDone, Install, LoadThrows
    <3> QED
      BY <2>5, <3>1, <3>2, <3>3 DEF PreloadStep
  <2>6. CASE Exit
    BY <2>6 DEF Exit, Release
  <2>7. CASE UNCHANGED vars
    BY <2>7 DEF vars
  <2> QED
    BY <2>1, <2>2, <2>3, <2>4, <2>5, <2>6, <2>7 DEF Next, Exited

(* A step leaves a pointer in use loaded for the engine's key. *)
LEMMA LoadedStep ==
  ASSUME TypeOK, CallHasEngine, LiveIsCached, UsesLoaded, [Next]_vars
  PROVE  UsesLoaded'
<1> USE CacheAssumption DEF CacheAssumption, TypeOK, engineVars, modelVars, CallHasEngine, LiveIsCached, UsesLoaded, InUse, PcStates, ModelStates
<1> QED
  <2>1. ASSUME NEW t \in Threads, NEW e \in Engines, NEW k \in Keys, New(t, e, k)
        PROVE  UsesLoaded'
    BY <2>1 DEF New, Enter
  <2>2. ASSUME NEW t \in Threads, NEW e \in Engines, Synthesize(t, e)
        PROVE  UsesLoaded'
    BY <2>2 DEF Synthesize, Enter
  <2>3. ASSUME NEW t \in Threads, NEW e \in Engines, Drop(t, e)
        PROVE  UsesLoaded'
    BY <2>3 DEF Drop, Enter
  <2>4. ASSUME NEW t \in Threads, ThreadStep(t)
        PROVE  UsesLoaded'
    <3>1. CASE Built(t)
      BY <3>1 DEF Built, Leave
    <3>2. CASE BakeThrows(t)
      BY <3>2 DEF BakeThrows
    <3>3. CASE FailJoin(t)
      BY <3>3 DEF FailJoin, Join
    <3>4. CASE FailUnload(t)
      BY <3>4 DEF FailUnload, Release, Leave
    <3>5. CASE T3Throws(t)
      BY <3>5 DEF T3Throws, Leave
    <3>6. CASE T3Done(t)
      BY <3>6 DEF T3Done, Join
    <3>7. CASE GetHit(t)
      BY <3>7 DEF GetHit, Cached
    <3>8. CASE GetMiss(t)
      BY <3>8 DEF GetMiss, StartLoad, Cached
    <3>9. CASE GetLoaded(t)
      BY <3>9 DEF GetLoaded, Install
    <3>10. CASE GetThrows(t)
      BY <3>10 DEF GetThrows, LoadThrows, Leave
    <3>11. CASE Infer(t)
      BY <3>11 DEF Infer
    <3>12. CASE NextChunk(t)
      BY <3>12 DEF NextChunk
    <3>13. CASE SynthesisEnds(t)
      BY <3>13 DEF SynthesisEnds, Leave
    <3>14. CASE DropJoin(t)
      BY <3>14 DEF DropJoin, Join, Leave
    <3> QED
      BY <2>4, <3>1, <3>2, <3>3, <3>4, <3>5, <3>6, <3>7,
         <3>8, <3>9, <3>10, <3>11, <3>12, <3>13, <3>14 DEF ThreadStep
  <2>5. ASSUME NEW e \in Engines, PreloadStep(e)
        PROVE  UsesLoaded'
    <3>1. CASE PreloadHit(e)
      BY <3>1 DEF PreloadHit, Cached
    <3>2. CASE PreloadMiss(e)
      BY <3>2 DEF PreloadMiss, StartLoad, Cached
    <3>3. CASE PreloadDone(e)
      BY <3>3 DEF PreloadDone, Install, LoadThrows
    <3> QED
      BY <2>5, <3>1, <3>2, <3>3 DEF PreloadStep
  <2>6. CASE Exit
    BY <2>6 DEF Exit, Release
  <2>7. CASE UNCHANGED vars
    BY <2>7 DEF vars
  <2> QED
    BY <2>1, <2>2, <2>3, <2>4, <2>5, <2>6, <2>7 DEF Next, Exited

(* When no constructor fails, a step reuses no address. *)
LEMMA ScaffoldStep ==
  ASSUME TypeOK, CallHasEngine, LiveIsCached, UsesLoaded, ExitedQuiet, PreloadJoined, ScaffoldInv,
         WithVoice = FALSE, [Next]_vars
  PROVE  ScaffoldInv'
<1> USE CacheAssumption DEF CacheAssumption, TypeOK, engineVars, modelVars, CallHasEngine, LiveIsCached, UsesLoaded, InUse,
         ExitedQuiet, PreloadJoined, ScaffoldInv, ScaffoldFresh, InMemory, PcStates, ModelStates
<1> QED
  <2>1. ASSUME NEW t \in Threads, NEW e \in Engines, NEW k \in Keys, New(t, e, k)
        PROVE  ScaffoldInv'
    BY <2>1 DEF New, Enter
  <2>2. ASSUME NEW t \in Threads, NEW e \in Engines, Synthesize(t, e)
        PROVE  ScaffoldInv'
    BY <2>2 DEF Synthesize, Enter
  <2>3. ASSUME NEW t \in Threads, NEW e \in Engines, Drop(t, e)
        PROVE  ScaffoldInv'
    BY <2>3 DEF Drop, Enter
  <2>4. ASSUME NEW t \in Threads, ThreadStep(t)
        PROVE  ScaffoldInv'
    <3>1. CASE Built(t)
      BY <3>1 DEF Built, Leave
    <3>2. CASE BakeThrows(t)
      BY <3>2 DEF BakeThrows
    <3>3. CASE FailJoin(t)
      BY <3>3 DEF FailJoin, Join
    <3>4. CASE FailUnload(t)
      BY <3>4 DEF FailUnload, Release, Leave
    <3>5. CASE T3Throws(t)
      BY <3>5 DEF T3Throws, Leave
    <3>6. CASE T3Done(t)
      BY <3>6 DEF T3Done, Join
    <3>7. CASE GetHit(t)
      BY <3>7 DEF GetHit, Cached
    <3>8. CASE GetMiss(t)
      BY <3>8 DEF GetMiss, StartLoad, Cached
    <3>9. CASE GetLoaded(t)
      BY <3>9 DEF GetLoaded, Install, FreeAddrs
    <3>10. CASE GetThrows(t)
      BY <3>10 DEF GetThrows, LoadThrows, Leave
    <3>11. CASE Infer(t)
      BY <3>11 DEF Infer
    <3>12. CASE NextChunk(t)
      BY <3>12 DEF NextChunk
    <3>13. CASE SynthesisEnds(t)
      BY <3>13 DEF SynthesisEnds, Leave
    <3>14. CASE DropJoin(t)
      BY <3>14 DEF DropJoin, Join, Leave
    <3> QED
      BY <2>4, <3>1, <3>2, <3>3, <3>4, <3>5, <3>6, <3>7,
         <3>8, <3>9, <3>10, <3>11, <3>12, <3>13, <3>14 DEF ThreadStep
  <2>5. ASSUME NEW e \in Engines, PreloadStep(e)
        PROVE  ScaffoldInv'
    <3>1. CASE PreloadHit(e)
      BY <3>1 DEF PreloadHit, Cached
    <3>2. CASE PreloadMiss(e)
      BY <3>2 DEF PreloadMiss, StartLoad, Cached
    <3>3. CASE PreloadDone(e)
      BY <3>3 DEF PreloadDone, Install, FreeAddrs, LoadThrows
    <3> QED
      BY <2>5, <3>1, <3>2, <3>3 DEF PreloadStep
  <2>6. CASE Exit
    BY <2>6 DEF Exit, Release
  <2>7. CASE UNCHANGED vars
    BY <2>7 DEF vars
  <2> QED
    BY <2>1, <2>2, <2>3, <2>4, <2>5, <2>6, <2>7 DEF Next, Exited

-----------------------------------------------------------------------------
(* The state has its types in every behaviour, and a thread inside a call  *)
(* of the engine API works on an engine.                                   *)
THEOREM TypeCorrect == Spec => [](TypeOK /\ CallHasEngine)
<1>1. Init => TypeOK /\ CallHasEngine
  BY CacheAssumption
     DEF CacheAssumption, Init, TypeOK, CallHasEngine, PcStates, ModelStates
<1>2. TypeOK /\ CallHasEngine /\ [Next]_vars => (TypeOK /\ CallHasEngine)'
  BY TypeStep
<1> QED
  BY <1>1, <1>2, PTL DEF Spec

(* An engine is gone only once its preload thread is joined, on the failed *)
(* constructor's path as on the destructor's: no std::thread is destroyed  *)
(* while joinable.                                                         *)
THEOREM PreloadAlwaysJoined == Spec => []PreloadJoined
<1>1. Init => JoinedBeforeUse /\ PreloadJoined
  BY DEF Init, JoinedBeforeUse, PastJoin, PreloadJoined
<1>2. TypeOK /\ CallHasEngine /\ JoinedBeforeUse /\ PreloadJoined /\ [Next]_vars
        => (JoinedBeforeUse /\ PreloadJoined)'
  BY JoinStep
<1> QED
  BY <1>1, <1>2, TypeCorrect, PTL DEF Spec

(* With the Rust wrapper's mutex, PointerInv holds throughout if all the   *)
(* engines share one cache key, or if there is one engine at a time (the   *)
(* HTTP server).                                                           *)
THEOREM PointerInvHolds ==
  ASSUME Serialized = TRUE, OneKey \/ OneEngine
  PROVE  Spec => []PointerInv
<1>1. Init => PointerInv /\ PreloadJoined
  BY CacheAssumption
     DEF CacheAssumption, Init, PointerInv, CallHasEngine, CallHoldsLock, JoinedBeforeUse,
         PastJoin, PreloadJoined, LiveIsCached, KeysKnown, LoadOnlyEmpty, UsesEntry, InUse
<1>2. TypeOK /\ PointerInv /\ PreloadJoined /\ [Next]_vars => (PointerInv /\ PreloadJoined)'
  <2> SUFFICES ASSUME TypeOK, PointerInv, PreloadJoined, [Next]_vars
               PROVE  PointerInv' /\ PreloadJoined'
    OBVIOUS
  <2>1. CallHasEngine' /\ JoinedBeforeUse' /\ PreloadJoined'
    BY TypeStep, JoinStep DEF PointerInv
  <2>2. CallHoldsLock'
    BY LockStep DEF PointerInv
  <2>3. LiveIsCached' /\ KeysKnown'
    BY CacheStep DEF PointerInv
  <2>4. OneKey => LoadOnlyEmpty'
    BY LoadStep DEF PointerInv
  <2>5. UsesEntry'
    BY EntryStep DEF PointerInv
  <2> QED
    BY <2>1, <2>2, <2>3, <2>4, <2>5 DEF PointerInv, OneKey
<1> QED
  BY <1>1, <1>2, TypeCorrect, PTL DEF Spec

(* In the same two situations no thread uses a model_ctx pointer after the *)
(* struct is destroyed: the promise of the comment on the cache.           *)
THEOREM PointerStaysAlive ==
  ASSUME Serialized = TRUE, OneKey \/ OneEngine
  PROVE  Spec => []PointerAlive
<1>1. TypeOK /\ PointerInv => PointerAlive
  BY DEF TypeOK, PointerInv, PointerAlive, UsesEntry, LiveIsCached
<1> QED
  BY <1>1, PointerInvHolds, TypeCorrect, PTL

(* In those situations too a synthesis has the weights of its own engine's *)
(* S3Gen file, and has them in memory: also a server that loads one file   *)
(* after another, whose cache still holds the last one.                    *)
THEOREM WeightsAreOwn ==
  ASSUME Serialized = TRUE, OneKey \/ OneEngine
  PROVE  Spec => []OwnWeights
<1>1. Init => LiveIsCached /\ KeysKnown /\ UsesLoaded
  BY CacheAssumption
     DEF CacheAssumption, Init, LiveIsCached, KeysKnown, UsesLoaded, InUse
<1>2. TypeOK /\ CallHasEngine /\ LiveIsCached /\ KeysKnown /\ UsesLoaded /\ [Next]_vars
        => (LiveIsCached /\ KeysKnown /\ UsesLoaded)'
  BY CacheStep, LoadedStep
<1>3. UsesLoaded /\ PointerAlive => OwnWeights
  BY DEF UsesLoaded, PointerAlive, OwnWeights
<1> QED
  BY <1>1, <1>2, <1>3, TypeCorrect, PointerStaysAlive, PTL DEF Spec

(* With a single key no loaded weights are ever lost, with or without the  *)
(* Rust wrapper's mutex: a load starts only when the cache is empty.       *)
THEOREM SingleKeyNoOrphan ==
  ASSUME OneKey
  PROVE  Spec => []NoOrphan
<1>1. Init => LiveIsCached /\ KeysKnown /\ LoadOnlyEmpty
  BY CacheAssumption
     DEF CacheAssumption, Init, LiveIsCached, KeysKnown, LoadOnlyEmpty
<1>2. TypeOK /\ CallHasEngine /\ LiveIsCached /\ KeysKnown /\ LoadOnlyEmpty /\ [Next]_vars
        => (LiveIsCached /\ KeysKnown /\ LoadOnlyEmpty)'
  BY CacheStep, LoadStep
<1>3. LiveIsCached /\ LoadOnlyEmpty => NoOrphan
  BY DEF LoadOnlyEmpty, LiveIsCached, NoOrphan
<1> QED
  BY <1>1, <1>2, <1>3, TypeCorrect, PTL DEF Spec

(* Nothing runs after the exit handler: no step of a thread or of a        *)
(* preload thread is possible once every engine is gone.                   *)
LEMMA ExitStep ==
  ASSUME TypeOK, PreloadJoined, ExitedQuiet, [Next]_vars
  PROVE  ExitedQuiet'
<1> USE CacheAssumption DEF CacheAssumption, TypeOK, engineVars, modelVars, ExitedQuiet, PcStates
<1>1. CASE phase = "exited"
  <2>1. \A t \in Threads : ~ThreadStep(t)
    BY <1>1 DEF ThreadStep, Built, BakeThrows, FailJoin, FailUnload, T3Throws, T3Done,
                GetHit, GetMiss, GetLoaded, GetThrows, Infer, NextChunk, SynthesisEnds, DropJoin
  <2>2. \A e \in Engines : ~PreloadStep(e)
    BY <1>1 DEF PreloadStep, PreloadHit, PreloadMiss, PreloadDone, PreloadJoined
  <2>3. \A t \in Threads, e \in Engines :
          ~Synthesize(t, e) /\ ~Drop(t, e) /\ \A k \in Keys : ~New(t, e, k)
    BY <1>1 DEF Synthesize, Drop, New, Enter
  <2>4. UNCHANGED vars
    BY <1>1, <2>1, <2>2, <2>3 DEF Next, Exit, Exited
  <2> QED
    BY <1>1, <2>4 DEF vars
<1>2. CASE phase # "exited"
  <2>1. CASE Exit
    BY <2>1 DEF Exit, Release
  <2>2. CASE phase' = phase
    BY <1>2, <2>2
  <2>3. Exit \/ phase' = phase
    BY DEF vars, Next, Exited, New, Synthesize, Drop, ThreadStep, PreloadStep, Built,
           BakeThrows, FailJoin, FailUnload, T3Throws, T3Done, GetHit, GetMiss, GetLoaded,
           GetThrows, Infer, NextChunk, SynthesisEnds, DropJoin, PreloadHit, PreloadMiss,
           PreloadDone
  <2> QED
    BY <2>1, <2>2, <2>3
<1> QED
  BY <1>1, <1>2

(* After the exit handler no backend buffer is left, provided all engines  *)
(* share one key: the run cache_two_keys shows an entry replaced otherwise.*)
THEOREM SingleKeyCleanExit ==
  ASSUME OneKey
  PROVE  Spec => []NoneLeftAtExit
<1>1. Init => ExitedQuiet
  BY DEF Init, ExitedQuiet
<1>2. TypeOK /\ PreloadJoined /\ ExitedQuiet /\ [Next]_vars => ExitedQuiet'
  BY ExitStep
<1>3. TypeOK /\ ExitedQuiet /\ NoOrphan => NoneLeftAtExit
  BY CacheAssumption DEF CacheAssumption, TypeOK, ExitedQuiet, NoOrphan, NoneLeftAtExit
<1> QED
  BY <1>1, <1>2, <1>3, TypeCorrect, PreloadAlwaysJoined, SingleKeyNoOrphan, PTL DEF Spec

(* The time_mlp graph names the model a synthesis was handed as long as no *)
(* constructor fails, with any number of keys, threads and engines: the    *)
(* stale graph of the run cache_stale_graph needs a freed model whose      *)
(* backend address is handed out again.                                    *)
THEOREM GraphIsFresh ==
  ASSUME WithVoice = FALSE
  PROVE  Spec => []ScaffoldFresh
<1>1. Init => LiveIsCached /\ KeysKnown /\ UsesLoaded /\ ExitedQuiet /\ ScaffoldInv
  BY CacheAssumption
     DEF CacheAssumption, Init, LiveIsCached, KeysKnown, UsesLoaded, InUse, ExitedQuiet,
         ScaffoldInv, ScaffoldFresh, InMemory
<1>2. TypeOK /\ CallHasEngine /\ PreloadJoined /\ LiveIsCached /\ KeysKnown /\ UsesLoaded
      /\ ExitedQuiet /\ ScaffoldInv /\ [Next]_vars
        => (LiveIsCached /\ KeysKnown /\ UsesLoaded /\ ExitedQuiet /\ ScaffoldInv)'
  BY CacheStep, LoadedStep, ExitStep, ScaffoldStep
<1>3. ScaffoldInv => ScaffoldFresh
  BY DEF ScaffoldInv
<1> QED
  BY <1>1, <1>2, <1>3, TypeCorrect, PreloadAlwaysJoined, PTL DEF Spec
=============================================================================
