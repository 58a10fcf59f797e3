----------------------------- MODULE S3GenCache -----------------------------
(***************************************************************************)
(* The life of engines over the process-wide S3Gen model cache.            *)
(*                                                                         *)
(* Application threads create, use and drop engines through the Rust       *)
(* wrapper (src/engine.rs), which holds ENGINE_INIT_MUTEX for each call.   *)
(* Every C++ engine starts a preload thread that outlives the constructor  *)
(* and does NOT hold that mutex; it fills the one-entry cache of           *)
(* chatterbox_tts.cpp, which has a mutex of its own around load and lookup *)
(* but hands out a raw model_ctx pointer that is used after the unlock.    *)
(*                                                                         *)
(* A model_ctx is                                                          *)
(*   unused  not loaded yet                                                *)
(*   live    owned by the cache entry                                      *)
(*   orphan  its entry was replaced: the struct is destroyed, the backend, *)
(*           context and buffer it pointed to are never freed              *)
(*   freed   released by s3gen_model_cache_release: everything is freed,   *)
(*           and the address of its backend may be handed out again        *)
(***************************************************************************)
EXTENDS Naturals, FiniteSets

CONSTANTS
    Threads,     \* OS threads that call the API
    Engines,     \* engine objects; a dropped one may be created again
    Keys,        \* cache keys: (S3Gen path, n_gpu_layers)
    Models,      \* model_ctx objects; bounds the loads of one process
    Addrs,       \* addresses the allocator returns for a ggml_backend
    MaxChunks,   \* bound on the S3Gen calls of one synthesis
    Serialized,  \* TRUE: the Rust wrapper; FALSE: direct use of the C++ class
    WithVoice,   \* some engine has a voice to bake, which can throw
    None

ASSUME CacheAssumption ==
    /\ Threads \cap Engines = {}
    /\ None \notin Threads \cup Engines \cup Models \cup Keys
    /\ MaxChunks \in Nat \ {0}
    /\ Serialized \in BOOLEAN
    /\ WithVoice \in BOOLEAN

VARIABLES
    lock,      \* holder of ENGINE_INIT_MUTEX
    pc,        \* what each thread is doing inside the API
    eng,       \* the engine it is doing it to
    left,      \* S3Gen calls left in its synthesis
    ptr,       \* the model_ctx pointer it is using
    mlp,       \* the model whose weights its thread_local time_mlp graph names
    est,       \* engine: absent, building, ready
    ekey,      \* engine: its cache key
    preload,   \* engine: s3gen_preload_thread (none = not joinable)
    cacheMu,   \* holder of g_s3gen_cache_mu: a thread, or an engine's preload
    entry,     \* the model owned by g_s3gen_cache_entry
    mstate, mkey, maddr,
    phase      \* the process: running, or exited

engineVars == <<est, ekey, preload>>
modelVars  == <<entry, mstate, mkey, maddr>>
vars == <<lock, pc, eng, left, ptr, mlp, engineVars, cacheMu, modelVars, phase>>

ModelStates == {"unused", "live", "orphan", "freed"}
PcStates == {"idle", "bake", "failJoin", "failUnload", "t3", "get", "load",
             "infer", "vocode", "drop"}

TypeOK ==
    /\ lock \in Threads \cup {None}
    /\ pc \in [Threads -> PcStates]
    /\ eng \in [Threads -> Engines \cup {None}]
    /\ left \in [Threads -> 0 .. MaxChunks]
    /\ ptr \in [Threads -> Models \cup {None}]
    /\ mlp \in [Threads -> Models \cup {None}]
    /\ est \in [Engines -> {"absent", "building", "ready"}]
    /\ ekey \in [Engines -> Keys \cup {None}]
    /\ preload \in [Engines -> {"none", "spawned", "loading", "done"}]
    /\ cacheMu \in Threads \cup Engines \cup {None}
    /\ entry \in Models \cup {None}
    /\ mstate \in [Models -> ModelStates]
    /\ mkey \in [Models -> Keys \cup {None}]
    /\ maddr \in [Models -> Addrs \cup {None}]
    /\ phase \in {"running", "exited"}

Init ==
    /\ lock = None
    /\ pc = [t \in Threads |-> "idle"]
    /\ eng = [t \in Threads |-> None]
    /\ left = [t \in Threads |-> 0]
    /\ ptr = [t \in Threads |-> None]
    /\ mlp = [t \in Threads |-> None]
    /\ est = [e \in Engines |-> "absent"]
    /\ ekey = [e \in Engines |-> None]
    /\ preload = [e \in Engines |-> "none"]
    /\ cacheMu = None
    /\ entry = None
    /\ mstate = [m \in Models |-> "unused"]
    /\ mkey = [m \in Models |-> None]
    /\ maddr = [m \in Models |-> None]
    /\ phase = "running"

-----------------------------------------------------------------------------
(* Entering and leaving a call.  An engine is Send and not Sync, so two    *)
(* threads never use one engine at once.                                   *)

(* Fault: the guard of ENGINE_INIT_MUTEX is dropped at once (let _ = ...). *)
Enter_GuardDropped(t, e, state) ==
    /\ phase = "running"
    /\ pc[t] = "idle"
    /\ \A u \in Threads : eng[u] # e
    /\ lock' = lock
    /\ pc' = [pc EXCEPT ![t] = state]
    /\ eng' = [eng EXCEPT ![t] = e]

Enter(t, e, state) ==
    /\ phase = "running"
    /\ pc[t] = "idle"
    /\ \A u \in Threads : eng[u] # e
    /\ Serialized => lock = None
    /\ lock' = IF Serialized THEN t ELSE lock
    /\ pc' = [pc EXCEPT ![t] = state]
    /\ eng' = [eng EXCEPT ![t] = e]

Leave(t) ==
    /\ lock' = IF Serialized THEN None ELSE lock
    /\ pc' = [pc EXCEPT ![t] = "idle"]
    /\ eng' = [eng EXCEPT ![t] = None]
    /\ left' = [left EXCEPT ![t] = 0]
    /\ ptr' = [ptr EXCEPT ![t] = None]

(* Fault: the preload thread is left running.                              *)
Join_Skipped(e) == preload' = preload

(* wait_for_preload: join if joinable.                                     *)
Join(e) ==
    /\ preload[e] \in {"none", "done"}
    /\ preload' = [preload EXCEPT ![e] = "none"]

-----------------------------------------------------------------------------
(* The cache, under g_s3gen_cache_mu.                                      *)

(* Fault: the lookup never matches.                                        *)
Cached_Never(k)  == FALSE

Cached(k) == entry # None /\ mkey[entry] = k

(* Addresses no backend occupies: an orphan's backend is never freed.      *)
FreeAddrs == Addrs \ {maddr[m] : m \in {x \in Models : mstate[x] \in {"live", "orphan"}}}

(* The miss path keeps the mutex for the whole load.                       *)
StartLoad(who, k) ==
    /\ cacheMu = None
    /\ ~Cached(k)
    /\ cacheMu' = who

(* The new entry replaces the old one, whose unique_ptr destroys the       *)
(* struct; model_ctx has no destructor, so its backend and buffer leak.    *)
Install(who, k, m, a) ==
    /\ cacheMu = who
    /\ mstate[m] = "unused"
    /\ a \in FreeAddrs
    /\ entry' = m
    /\ mstate' = [x \in Models |-> IF x = m THEN "live"
                                   ELSE IF x = entry THEN "orphan" ELSE mstate[x]]
    /\ mkey' = [mkey EXCEPT ![m] = k]
    /\ maddr' = [maddr EXCEPT ![m] = a]
    /\ cacheMu' = None

(* Fault: a manual unlock that the exception skips.                        *)
LoadThrows_KeepsMutex(who) ==
    /\ cacheMu = who
    /\ UNCHANGED <<cacheMu, modelVars>>

(* load_s3gen_gguf throws before the entry is touched.                     *)
LoadThrows(who) ==
    /\ cacheMu = who
    /\ cacheMu' = None
    /\ UNCHANGED modelVars

(* s3gen_model_cache_release: frees the cached model, if there is one.     *)
Release ==
    /\ cacheMu = None
    /\ entry' = None
    /\ mstate' = [x \in Models |-> IF x = entry THEN "freed" ELSE mstate[x]]
    /\ UNCHANGED <<cacheMu, mkey, maddr>>

-----------------------------------------------------------------------------
(* Engine::new.  A constructor that fails before the preload thread starts *)
(* touches nothing here.                                                   *)

New(t, e, k) ==
    /\ Enter(t, e, "bake")
    /\ est[e] = "absent"
    /\ est' = [est EXCEPT ![e] = "building"]
    /\ ekey' = [ekey EXCEPT ![e] = k]
    /\ preload' = [preload EXCEPT ![e] = "spawned"]
    /\ UNCHANGED <<left, ptr, mlp, cacheMu, modelVars, phase>>

Built(t) ==
    /\ pc[t] = "bake"
    /\ est' = [est EXCEPT ![eng[t]] = "ready"]
    /\ Leave(t)
    /\ UNCHANGED <<mlp, ekey, preload, cacheMu, modelVars, phase>>

BakeThrows(t) ==
    /\ WithVoice
    /\ pc[t] = "bake"
    /\ pc' = [pc EXCEPT ![t] = "failJoin"]
    /\ UNCHANGED <<lock, eng, left, ptr, mlp, engineVars, cacheMu, modelVars, phase>>

FailJoin(t) ==
    /\ pc[t] = "failJoin"
    /\ Join(eng[t])
    /\ pc' = [pc EXCEPT ![t] = "failUnload"]
    /\ UNCHANGED <<lock, eng, left, ptr, mlp, est, ekey, cacheMu, modelVars, phase>>

FailUnload(t) ==
    /\ pc[t] = "failUnload"
    /\ Release
    /\ est' = [est EXCEPT ![eng[t]] = "absent"]
    /\ Leave(t)
    /\ UNCHANGED <<mlp, ekey, preload, phase>>

-----------------------------------------------------------------------------
(* synthesize: T3, join the preload, then one S3Gen call per chunk, each   *)
(* of which asks the cache for the model again.                            *)

Synthesize(t, e) ==
    /\ Enter(t, e, "t3")
    /\ est[e] = "ready"
    /\ UNCHANGED <<left, ptr, mlp, engineVars, cacheMu, modelVars, phase>>

T3Throws(t) ==
    /\ pc[t] = "t3"
    /\ Leave(t)
    /\ UNCHANGED <<mlp, engineVars, cacheMu, modelVars, phase>>

(* Fault: n_chunks = boundaries.size(), one call too many.                 *)
T3Done_CountsBoundaries(t) ==
    /\ pc[t] = "t3"
    /\ Join(eng[t])
    /\ pc' = [pc EXCEPT ![t] = "get"]
    /\ \E n \in 1 .. MaxChunks : left' = [left EXCEPT ![t] = n + 1]
    /\ UNCHANGED <<lock, eng, ptr, mlp, est, ekey, cacheMu, modelVars, phase>>

T3Done(t) ==
    /\ pc[t] = "t3"
    /\ Join(eng[t])
    /\ pc' = [pc EXCEPT ![t] = "get"]
    /\ \E n \in 1 .. MaxChunks : left' = [left EXCEPT ![t] = n]
    /\ UNCHANGED <<lock, eng, ptr, mlp, est, ekey, cacheMu, modelVars, phase>>

GetHit(t) ==
    /\ pc[t] = "get"
    /\ cacheMu = None
    /\ Cached(ekey[eng[t]])
    /\ ptr' = [ptr EXCEPT ![t] = entry]
    /\ pc' = [pc EXCEPT ![t] = "infer"]
    /\ UNCHANGED <<lock, eng, left, mlp, engineVars, cacheMu, modelVars, phase>>

GetMiss(t) ==
    /\ pc[t] = "get"
    /\ StartLoad(t, ekey[eng[t]])
    /\ pc' = [pc EXCEPT ![t] = "load"]
    /\ UNCHANGED <<lock, eng, left, ptr, mlp, engineVars, modelVars, phase>>

GetLoaded(t) ==
    /\ pc[t] = "load"
    /\ \E m \in Models, a \in Addrs :
          /\ Install(t, ekey[eng[t]], m, a)
          /\ ptr' = [ptr EXCEPT ![t] = m]
    /\ pc' = [pc EXCEPT ![t] = "infer"]
    /\ UNCHANGED <<lock, eng, left, mlp, engineVars, phase>>

GetThrows(t) ==
    /\ pc[t] = "load"
    /\ LoadThrows(t)
    /\ Leave(t)
    /\ UNCHANGED <<mlp, engineVars, phase>>

(* compute_time_mlp: the thread_local graph is rebuilt only when the       *)
(* backend POINTER differs from the one it was built for.                  *)
Infer(t) ==
    /\ pc[t] = "infer"
    /\ mlp' = IF mlp[t] = None \/ maddr[mlp[t]] # maddr[ptr[t]]
              THEN [mlp EXCEPT ![t] = ptr[t]] ELSE mlp
    /\ pc' = [pc EXCEPT ![t] = "vocode"]
    /\ UNCHANGED <<lock, eng, left, ptr, engineVars, cacheMu, modelVars, phase>>

NextChunk(t) ==
    /\ pc[t] = "vocode"
    /\ left[t] > 1
    /\ left' = [left EXCEPT ![t] = @ - 1]
    /\ ptr' = [ptr EXCEPT ![t] = None]
    /\ pc' = [pc EXCEPT ![t] = "get"]
    /\ UNCHANGED <<lock, eng, mlp, engineVars, cacheMu, modelVars, phase>>

(* The last chunk is done, or a call returned a non-zero code.             *)
SynthesisEnds(t) ==
    /\ pc[t] \in {"infer", "vocode"}
    /\ Leave(t)
    /\ UNCHANGED <<mlp, engineVars, cacheMu, modelVars, phase>>

-----------------------------------------------------------------------------
(* Drop: the destructor joins the preload and leaves the cache alone.      *)

Drop(t, e) ==
    /\ Enter(t, e, "drop")
    /\ est[e] = "ready"
    /\ UNCHANGED <<left, ptr, mlp, engineVars, cacheMu, modelVars, phase>>

DropJoin(t) ==
    /\ pc[t] = "drop"
    /\ Join(eng[t])
    /\ est' = [est EXCEPT ![eng[t]] = "absent"]
    /\ Leave(t)
    /\ UNCHANGED <<mlp, ekey, cacheMu, modelVars, phase>>

-----------------------------------------------------------------------------
(* The preload thread of engine e: s3gen_preload, exceptions swallowed.    *)

PreloadHit(e) ==
    /\ preload[e] = "spawned"
    /\ cacheMu = None
    /\ Cached(ekey[e])
    /\ preload' = [preload EXCEPT ![e] = "done"]
    /\ UNCHANGED <<lock, pc, eng, left, ptr, mlp, est, ekey, cacheMu, modelVars, phase>>

PreloadMiss(e) ==
    /\ preload[e] = "spawned"
    /\ StartLoad(e, ekey[e])
    /\ preload' = [preload EXCEPT ![e] = "loading"]
    /\ UNCHANGED <<lock, pc, eng, left, ptr, mlp, est, ekey, modelVars, phase>>

PreloadDone(e) ==
    /\ preload[e] = "loading"
    /\ \/ \E m \in Models, a \in Addrs : Install(e, ekey[e], m, a)
       \/ LoadThrows(e)
    /\ preload' = [preload EXCEPT ![e] = "done"]
    /\ UNCHANGED <<lock, pc, eng, left, ptr, mlp, est, ekey, phase>>

(* A program that returns from main has dropped its engines; the atexit    *)
(* handler then releases the cache.                                        *)
Exit ==
    /\ phase = "running"
    /\ \A t \in Threads : pc[t] = "idle"
    /\ \A e \in Engines : est[e] = "absent"
    /\ Release
    /\ phase' = "exited"
    /\ UNCHANGED <<lock, pc, eng, left, ptr, mlp, engineVars>>

Exited == phase = "exited" /\ UNCHANGED vars

-----------------------------------------------------------------------------
ThreadStep(t) ==
    \/ Built(t) \/ BakeThrows(t) \/ FailJoin(t) \/ FailUnload(t)
    \/ T3Throws(t) \/ T3Done(t)
    \/ GetHit(t) \/ GetMiss(t) \/ GetLoaded(t) \/ GetThrows(t)
    \/ Infer(t) \/ NextChunk(t) \/ SynthesisEnds(t)
    \/ DropJoin(t)

PreloadStep(e) == PreloadHit(e) \/ PreloadMiss(e) \/ PreloadDone(e)

Next ==
    \/ \E t \in Threads, e \in Engines :
          \/ \E k \in Keys : New(t, e, k)
          \/ Synthesize(t, e)
          \/ Drop(t, e)
    \/ \E t \in Threads : ThreadStep(t)
    \/ \E e \in Engines : PreloadStep(e)
    \/ Exit
    \/ Exited

Spec == Init /\ [][Next]_vars

(* A thread inside a call, and a preload thread, are scheduled by the OS;  *)
(* nobody has to begin a call.                                             *)
FairSpec ==
    /\ Spec
    /\ \A t \in Threads : WF_vars(ThreadStep(t))
    /\ \A e \in Engines : WF_vars(PreloadStep(e))

-----------------------------------------------------------------------------
(* Properties *)

InUse(t) == pc[t] \in {"infer", "vocode"}

(* A model_ctx pointer is never used after the struct is destroyed: "the   *)
(* returned pointer stays alive" (chatterbox_tts.cpp:158-160).             *)
PointerAlive == \A t \in Threads : InUse(t) => mstate[ptr[t]] = "live"

(* A synthesis runs weights that are in memory and those of its own        *)
(* engine's S3Gen file, whatever was in the one-entry cache before.        *)
OwnWeights ==
    \A t \in Threads : InUse(t) => mstate[ptr[t]] = "live" /\ mkey[ptr[t]] = ekey[eng[t]]

(* The time_mlp graph a thread runs names the weights of the model it was  *)
(* handed, not those of an earlier model at the same backend address.      *)
ScaffoldFresh == \A t \in Threads : pc[t] = "vocode" => mlp[t] = ptr[t]

(* Destroying a joinable std::thread terminates the process: an engine is  *)
(* gone only once its preload thread is joined, on every path.             *)
PreloadJoined == \A e \in Engines : est[e] = "absent" => preload[e] = "none"

(* No loaded weights are lost: every backend still allocated is the one    *)
(* the cache entry owns and the atexit handler can free.                   *)
NoOrphan == \A m \in Models : mstate[m] \in {"live", "orphan"} => m = entry

(* After exit no backend buffer is left: the handler runs so that the GPU  *)
(* teardown finds no "orphan backend buffer" (chatterbox_tts.cpp:171-176), *)
(* and no preload thread loads one behind it.                              *)
NoneLeftAtExit == phase = "exited" => \A m \in Models : mstate[m] \notin {"live", "orphan"}

(* Every call returns: joining a preload thread while holding the engine   *)
(* mutex cannot wait on a thread that needs that mutex.                    *)
CallsReturn == \A t \in Threads : pc[t] # "idle" ~> pc[t] = "idle"

-----------------------------------------------------------------------------
(* The inductive invariants behind the properties above.                   *)

OneKey    == \A k, l \in Keys : k = l
OneEngine == \A e, f \in Engines : e = f

(* A thread inside a call, and only such a thread, works on an engine.     *)
CallHasEngine == \A t \in Threads : pc[t] # "idle" <=> eng[t] \in Engines

(* Under the Rust wrapper the thread inside a call holds the mutex.        *)
CallHoldsLock == \A t \in Threads : pc[t] # "idle" => lock = t

(* Past the join the engine has no preload thread.                         *)
PastJoin(t) == pc[t] \in {"failUnload", "get", "load", "infer", "vocode"}
JoinedBeforeUse == \A t \in Threads : PastJoin(t) => preload[eng[t]] = "none"

(* The live model is the cached one.                                       *)
LiveIsCached == \A m \in Models : mstate[m] = "live" <=> m = entry

(* Keys are set as soon as somebody depends on them.                       *)
KeysKnown ==
    /\ \A e \in Engines :
          est[e] # "absent" \/ preload[e] # "none" \/ (\E t \in Threads : eng[t] = e)
             => ekey[e] \in Keys
    /\ entry # None => mkey[entry] \in Keys

(* With a single key a load starts only when the cache is empty, so no     *)
(* load ever replaces an entry.                                            *)
LoadOnlyEmpty == (cacheMu # None => entry = None) /\ \A m \in Models : mstate[m] # "orphan"

(* An exited process has nothing running and nothing cached.               *)
ExitedQuiet ==
    phase = "exited" => /\ \A t \in Threads : pc[t] = "idle"
                        /\ \A e \in Engines : est[e] = "absent"
                        /\ entry = None

(* A pointer in use is the cached one.                                     *)
UsesEntry == \A t \in Threads : InUse(t) => ptr[t] = entry /\ entry # None

(* A pointer in use names a model loaded for the engine's key.             *)
UsesLoaded ==
    \A t \in Threads : InUse(t) => /\ ptr[t] \in Models
                                  /\ mstate[ptr[t]] # "unused"
                                  /\ mkey[ptr[t]] = ekey[eng[t]]

(* Without a constructor that fails, nothing is freed before exit, so no   *)
(* two backends ever had one address: a thread's graph names a model that  *)
(* is still in memory, if it names one.                                    *)
InMemory(m) == mstate[m] \in {"live", "orphan"}
ScaffoldInv ==
    /\ \A t \in Threads : pc[t] \notin {"failJoin", "failUnload"}
    /\ \A m, n \in Models : InMemory(m) /\ InMemory(n) /\ maddr[m] = maddr[n] => m = n
    /\ phase = "running" => /\ \A m \in Models : mstate[m] # "freed"
                            /\ \A t \in Threads : mlp[t] # None => InMemory(mlp[t])
    /\ ScaffoldFresh

(* The strengthening of PointerAlive, for a serialized process that has a  *)
(* single key or a single engine.                                          *)
PointerInv ==
    /\ CallHasEngine /\ CallHoldsLock /\ JoinedBeforeUse
    /\ LiveIsCached /\ KeysKnown /\ UsesEntry
    /\ OneKey => LoadOnlyEmpty
=============================================================================
