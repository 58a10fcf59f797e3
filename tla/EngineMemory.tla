---------------------------- MODULE EngineMemory ----------------------------
(***************************************************************************)
(* Who owns what, from the Rust wrapper down to the T3 model.              *)
(*                                                                         *)
(* Engine::new, synthesize, save_voice and drop (src/engine.rs) call the   *)
(* C bridge (tts_bridge.cpp) one at a time, under ENGINE_INIT_MUTEX.  The  *)
(* bridge hands heap blocks to Rust: the PCM, an error string; Rust lends  *)
(* it the boxed chunk callback.  Behind it the constructor of Engine::Impl *)
(* loads the T3 model allocation by allocation, any of which can fail, and *)
(* free_model gives them back.  A multilingual model on a GPU also has     *)
(* stacked weights, which a process-wide registry frees at exit.           *)
(*                                                                         *)
(* An element of Engines is one life of an engine object.                  *)
(***************************************************************************)
EXTENDS Naturals, Sequences

CONSTANTS
    Engines,    \* engine objects of one process
    Variants,   \* of the T3 files: "turbo", "mtl"
    Backends,   \* "cpu", "gpu"
    None

ASSUME MemoryAssumption ==
    /\ None \notin Engines
    /\ Variants \subseteq {"turbo", "mtl"}
    /\ Backends \subseteq {"cpu", "gpu"}

VARIABLES
    est,       \* what each engine is: absent, loading, baking, ready,
               \* freeing, gone, failed (its load threw)
    kind,      \* its T3 variant and backend
    live,      \* heap: what it allocated that is still allocated
    ptr,       \* the fields of its Impl that are not null
    step,      \* where its load is in LoadOrder, or its release in FreeOrder
    registry,  \* t3_stack_registry: the engines whose stack is in it
    atexit,    \* t3_stack_atexit_registered
    call,      \* the call into the bridge, and the blocks that crossed it
    proc       \* the process: running, exited, aborted

memVars == <<est, kind, live, ptr, step, registry, atexit, call, proc>>

Stack   == {"ctx_stack", "buffer_stack"}
Buffers == {"buffer_w", "buffer_kv", "buffer_stack", "buffer_override", "allocr"}
Fields  == Buffers \cup {"backend", "ctx_w", "ctx_kv", "ctx_stack", "ctx_override"}

LoadOrder(k) ==
    IF k = [variant |-> "mtl", backend |-> "gpu"]
    THEN <<"backend", "ctx_w", "buffer_w", "ctx_kv", "buffer_kv", "ctx_stack", "buffer_stack">>
    ELSE <<"backend", "ctx_w", "buffer_w", "ctx_kv", "buffer_kv">>

(* Fault: the backend is freed before the buffers on it.                   *)
FreeOrder_BackendFirst ==
    <<"allocr", "registry", "backend", "buffer_w", "buffer_kv", "buffer_stack",
      "buffer_override", "ctx_w", "ctx_kv", "ctx_stack", "ctx_override">>

(* Fault: the override of the conditioning tokens is forgotten.            *)
FreeOrder_NoOverride ==
    <<"allocr", "registry", "buffer_w", "buffer_kv", "buffer_stack",
      "backend", "ctx_w", "ctx_kv", "ctx_stack">>

(* The destructor frees the graph allocator; free_model first takes the    *)
(* stack out of the registry, then frees buffers, backend and contexts.    *)
FreeOrder ==
    <<"allocr", "registry", "buffer_w", "buffer_kv", "buffer_stack",
      "buffer_override", "backend", "ctx_w", "ctx_kv", "ctx_stack", "ctx_override">>

Kinds == [variant : Variants, backend : Backends]
Ops   == {"none", "create", "batch", "stream", "save", "destroy"}
Blocks == {"box", "pcm", "err"}
Calls == [op : Ops, eng : Engines \cup {None}, at : {"idle", "engine", "back"},
          mem : SUBSET Blocks, ok : BOOLEAN]

MemTypeOK ==
    /\ est \in [Engines -> {"absent", "loading", "baking", "ready", "freeing", "gone", "failed"}]
    /\ kind \in [Engines -> Kinds]
    /\ live \in [Engines -> SUBSET Fields]
    /\ ptr \in [Engines -> SUBSET Fields]
    /\ step \in [Engines -> 1..Len(FreeOrder) + 1]
    /\ registry \subseteq Engines
    /\ atexit \in BOOLEAN
    /\ call \in Calls
    /\ proc \in {"running", "exited", "aborted"}

NoCall == [op |-> "none", eng |-> None, at |-> "idle", mem |-> {}, ok |-> TRUE]

(* A process starts with nothing allocated; which files the engines will   *)
(* load is chosen beforehand.                                              *)
FreshProcess ==
    /\ est = [e \in Engines |-> "absent"]
    /\ live = [e \in Engines |-> {}]
    /\ ptr = [e \in Engines |-> {}]
    /\ step = [e \in Engines |-> 1]
    /\ registry = {}
    /\ atexit = FALSE
    /\ call = NoCall
    /\ proc = "running"

MemInit == kind \in [Engines -> Kinds] /\ FreshProcess

-----------------------------------------------------------------------------
(* The calls.  Each Rust method takes ENGINE_INIT_MUTEX first, so there is *)
(* one call at a time, and checks what it can before anything is allocated *)
(* (a refused call changes nothing and is left out).                       *)

Enter(op, e) ==
    /\ proc = "running"
    /\ call = NoCall
    /\ call' = [op |-> op, eng |-> e, at |-> "engine", ok |-> TRUE,
                mem |-> IF op = "stream" THEN {"box"} ELSE {}]

Inside(op, e) == proc = "running" /\ call.at = "engine" /\ call.op = op /\ call.eng = e

Returns(blocks) == call' = [call EXCEPT !.at = "back", !.mem = @ \cup blocks]

(* The bridge turns an exception into a heap copy of its message, or into  *)
(* none when malloc fails.                                                 *)
Throws ==
    \E err \in {{}, {"err"}} :
        call' = [call EXCEPT !.at = "back", !.ok = FALSE, !.mem = @ \cup err]

(* Fault: an error returns before the box is recovered.                    *)
BackInRust_BoxLost ==
    /\ proc = "running"
    /\ call.at = "back"
    /\ call' = [NoCall EXCEPT !.mem = call.mem \ IF call.ok THEN {"box", "pcm"} ELSE {"err"}]
    /\ UNCHANGED <<est, kind, live, ptr, step, registry, atexit, proc>>

(* Rust drops the box first, then copies and frees the PCM or the message. *)
BackInRust ==
    /\ proc = "running"
    /\ call.at = "back"
    /\ call' = [NoCall EXCEPT !.mem = (call.mem \ {"box"}) \
                                         IF call.ok THEN {"pcm"} ELSE {"err"}]
    /\ UNCHANGED <<est, kind, live, ptr, step, registry, atexit, proc>>

(* A failed check in ggml, a null pointer, a panic in on_chunk, which      *)
(* cannot unwind through the extern "C" trampoline: the process is gone.   *)
Abort ==
    /\ proc' = "aborted"
    /\ UNCHANGED <<est, kind, live, ptr, step, registry, atexit, call>>

-----------------------------------------------------------------------------
(* The constructor.                                                        *)

Create(e) ==
    /\ Enter("create", e)
    /\ est[e] = "absent"
    /\ est' = [est EXCEPT ![e] = "loading"]
    /\ step' = [step EXCEPT ![e] = 1]
    /\ UNCHANGED <<kind, live, ptr, registry, atexit, proc>>

Loading(e) == Inside("create", e) /\ est[e] = "loading"
ToLoad(e) == step[e] <= Len(LoadOrder(kind[e]))
NextLoad(e) == LoadOrder(kind[e])[step[e]]

Allocate(e, fields) ==
    /\ live' = [live EXCEPT ![e] = @ \cup fields]
    /\ ptr' = [ptr EXCEPT ![e] = @ \cup fields]

(* load_model_gguf, load_model_gguf_mtl: the next allocation succeeds; the *)
(* stacked weights are registered at once, the first ones with the exit    *)
(* handler.                                                                *)
LoadAlloc(e) ==
    /\ Loading(e)
    /\ ToLoad(e)
    /\ Allocate(e, {NextLoad(e)})
    /\ step' = [step EXCEPT ![e] = @ + 1]
    /\ IF NextLoad(e) = "buffer_stack"
       THEN registry' = registry \cup {e} /\ atexit' = TRUE
       ELSE UNCHANGED <<registry, atexit>>
    /\ UNCHANGED <<est, kind, call, proc>>

(* Where a load can fail with an exception or return false: for want of    *)
(* memory, of a key, of a tensor, and last of the multilingual tokenizer.  *)
(* Turbo does not check its buffers.                                       *)
CanFail(e) ==
    \/ kind[e].variant = "mtl"
    \/ ToLoad(e) /\ NextLoad(e) \in {"backend", "ctx_w", "ctx_kv"}

(* The constructor throws without calling free_model, and the destructor   *)
(* of an object that was not constructed does not run: only the pointers   *)
(* go away.                                                                *)
LoadFails(e) ==
    /\ Loading(e)
    /\ CanFail(e)
    /\ est' = [est EXCEPT ![e] = "failed"]
    /\ ptr' = [ptr EXCEPT ![e] = {}]
    /\ Throws
    /\ UNCHANGED <<kind, live, step, registry, atexit, proc>>

(* A null result nobody checks.                                            *)
LoadAborts(e) ==
    /\ Loading(e)
    /\ ToLoad(e)
    /\ \/ NextLoad(e) = "ctx_kv"
       \/ NextLoad(e) = "buffer_w" /\ kind[e].variant = "turbo"
    /\ Abort

(* Turbo goes on without memory for its KV cache.                          *)
TurboWithoutKv(e) ==
    /\ Loading(e)
    /\ ToLoad(e) /\ NextLoad(e) = "buffer_kv" /\ kind[e].variant = "turbo"
    /\ step' = [step EXCEPT ![e] = @ + 1]
    /\ UNCHANGED <<est, kind, live, ptr, registry, atexit, call, proc>>

StartFreeing(e) ==
    /\ est' = [est EXCEPT ![e] = "freeing"]
    /\ step' = [step EXCEPT ![e] = 1]

(* The model is loaded: a multilingual one needs a language, and the graph *)
(* allocator must be made.  Both failures free the model.                  *)
Loaded(e) ==
    /\ Loading(e)
    /\ ~ToLoad(e)
    /\ \/ /\ Allocate(e, {"allocr"})
          /\ est' = [est EXCEPT ![e] = "baking"]
          /\ UNCHANGED step
       \/ StartFreeing(e) /\ UNCHANGED <<live, ptr>>
    /\ UNCHANGED <<kind, registry, atexit, call, proc>>

Override == {"ctx_override", "buffer_override"}

(* bake_voice_conditioning, and its handler.  A conditioning prompt of     *)
(* another length than the built-in one is put in a tensor of its own.     *)
Baking(e) == Inside("create", e) /\ est[e] = "baking"

BakeEnds(e, fields) ==
    /\ Baking(e)
    /\ fields \in {{}, Override}
    /\ Allocate(e, fields)
    /\ est' = [est EXCEPT ![e] = "ready"]
    /\ Returns({})
    /\ UNCHANGED <<kind, step, registry, atexit, proc>>

BakeThrows(e) ==
    /\ Baking(e)
    /\ \E fields \in {{}, {"ctx_override"}, Override} : Allocate(e, fields)
    /\ StartFreeing(e)
    /\ UNCHANGED <<kind, registry, atexit, call, proc>>

-----------------------------------------------------------------------------
(* The destructor, and free_model, step by step.                           *)

Destroy(e) ==
    /\ Enter("destroy", e)
    /\ est[e] = "ready"
    /\ StartFreeing(e)
    /\ UNCHANGED <<kind, live, ptr, registry, atexit, proc>>

(* Faults: the registry keeps the entry; it is cleared of everybody's.     *)
Unregister_Keeps(e) == registry' = registry
Unregister_All(e) == registry' = {}

(* t3_stack_unregister: drops the entry with this buffer and context.      *)
Unregister(e) == registry' = IF Stack \cap ptr[e] # {} THEN registry \ {e} ELSE registry

FreeNext(e) ==
    /\ proc = "running"
    /\ call.at = "engine" /\ call.eng = e
    /\ est[e] = "freeing"
    /\ step[e] <= Len(FreeOrder)
    /\ step' = [step EXCEPT ![e] = @ + 1]
    /\ IF FreeOrder[step[e]] = "registry"
       THEN Unregister(e) /\ UNCHANGED <<live, ptr>>
       ELSE /\ live' = [live EXCEPT ![e] = @ \ ({FreeOrder[step[e]]} \cap ptr[e])]
            /\ ptr' = [ptr EXCEPT ![e] = @ \ {FreeOrder[step[e]]}]
            /\ UNCHANGED registry
    /\ UNCHANGED <<est, kind, atexit, call, proc>>

(* The end of a destructor, or of a constructor that rethrows.             *)
Freed(e) ==
    /\ proc = "running"
    /\ call.at = "engine" /\ call.eng = e
    /\ est[e] = "freeing"
    /\ step[e] > Len(FreeOrder)
    /\ est' = [est EXCEPT ![e] = "gone"]
    /\ IF call.op = "create" THEN Throws ELSE Returns({})
    /\ UNCHANGED <<kind, live, ptr, step, registry, atexit, proc>>

-----------------------------------------------------------------------------
(* Using an engine.                                                        *)

Use(e, op) ==
    /\ op \in {"batch", "stream", "save"}
    /\ Enter(op, e)
    /\ est[e] = "ready"
    /\ UNCHANGED <<est, kind, live, ptr, step, registry, atexit, proc>>

Synthesizing(e) == Inside("batch", e) \/ Inside("stream", e)

(* The result is copied into a block of its own; the PCM is not empty, so  *)
(* a failed malloc is an exception.                                        *)
SynthesisReturns(e) ==
    /\ Synthesizing(e)
    /\ "buffer_kv" \in ptr[e]
    /\ Returns({"pcm"})
    /\ UNCHANGED <<est, kind, live, ptr, step, registry, atexit, proc>>

SynthesisThrows(e) ==
    /\ Synthesizing(e)
    /\ Throws
    /\ UNCHANGED <<est, kind, live, ptr, step, registry, atexit, proc>>

(* A KV cache without memory, or a panic in on_chunk.                      *)
SynthesisAborts(e) ==
    /\ Synthesizing(e)
    /\ call.op = "stream" \/ "buffer_kv" \notin ptr[e]
    /\ Abort

SaveReturns(e) ==
    /\ Inside("save", e)
    /\ Returns({})
    /\ UNCHANGED <<est, kind, live, ptr, step, registry, atexit, proc>>

SaveThrows(e) ==
    /\ Inside("save", e)
    /\ Throws
    /\ UNCHANGED <<est, kind, live, ptr, step, registry, atexit, proc>>

-----------------------------------------------------------------------------
(* The end of a process.                                                   *)

(* exit() outside of a call: t3_stack_release_atexit frees what is         *)
(* registered.  Engines that are still there are not destroyed.            *)
Exit ==
    /\ proc = "running"
    /\ call = NoCall
    /\ proc' = "exited"
    /\ IF atexit
       THEN /\ live' = [e \in Engines |-> IF e \in registry THEN live[e] \ Stack ELSE live[e]]
            /\ registry' = {}
       ELSE UNCHANGED <<live, registry>>
    /\ UNCHANGED <<est, kind, ptr, step, atexit, call>>

(* A process that is killed, has aborted or exited is started again.       *)
Restart ==
    /\ est' = [e \in Engines |-> "absent"]
    /\ live' = [e \in Engines |-> {}]
    /\ ptr' = [e \in Engines |-> {}]
    /\ step' = [e \in Engines |-> 1]
    /\ registry' = {}
    /\ atexit' = FALSE
    /\ call' = NoCall
    /\ proc' = "running"
    /\ UNCHANGED kind

MemNext ==
    \/ \E e \in Engines :
          \/ Create(e) \/ LoadAlloc(e) \/ LoadFails(e) \/ LoadAborts(e)
          \/ TurboWithoutKv(e) \/ Loaded(e)
          \/ \E fields \in SUBSET Override : BakeEnds(e, fields)
          \/ BakeThrows(e)
          \/ Destroy(e) \/ FreeNext(e) \/ Freed(e)
          \/ \E op \in Ops : Use(e, op)
          \/ SynthesisReturns(e) \/ SynthesisThrows(e) \/ SynthesisAborts(e)
          \/ SaveReturns(e) \/ SaveThrows(e)
    \/ BackInRust
    \/ Exit
    \/ Restart

MemSpec == MemInit /\ [][MemNext]_memVars

-----------------------------------------------------------------------------
(* Properties *)

(* No pointer, of an engine or of the registry, is to freed memory: what   *)
(* free_model and the exit handler free is freed once (t3_mtl.cpp:92-96).  *)
NoDangling ==
    proc = "running" =>
        /\ \A e \in Engines : ptr[e] \subseteq live[e]
        /\ \A e \in registry : Stack \subseteq live[e]

(* A buffer is never left on a freed backend, not even one that a failed   *)
(* load left behind and the exit handler frees (chatterbox_engine.cpp:149).*)
BufferOverBackend ==
    \A e \in Engines : \A b \in Buffers : b \in live[e] => "backend" \in live[e]

(* Whatever fails after the load, and whenever an engine is dropped,       *)
(* nothing of it stays allocated; a failed load alone leaves memory.       *)
OnlyFailedLoadsLeak ==
    \A e \in Engines : live[e] # {} => est[e] \in {"loading", "baking", "ready", "freeing", "failed"}

(* No stack buffer survives the exit handler: Metal's teardown asserts     *)
(* that there is none (t3_mtl.cpp:46-49), also after a failed load.        *)
NoStackAtExit == proc = "exited" => \A e \in Engines : "buffer_stack" \notin live[e]

(* A chunk callback has its box under it for as long as the engine can     *)
(* call it, and no call, whatever fails in it, leaves a block behind.      *)
CallMemory ==
    /\ call.at = "idle" => call.mem = {}
    /\ call.at = "engine" /\ call.op = "stream" => "box" \in call.mem

(* The inductive invariant.  Only the engine of the current call is being  *)
(* built or freed; what an engine has allocated is what it points to,      *)
(* unless its load failed; and the registry has it exactly while its       *)
(* stacked weights are allocated, until free_model takes it out.           *)
Busy(e) == est[e] \in {"loading", "baking", "freeing"}

CallInv ==
    /\ call.at = "idle" => call = NoCall
    /\ call.at = "engine" => call.ok /\ call.mem = IF call.op = "stream" THEN {"box"} ELSE {}
    /\ call.at = "back" => call.mem \subseteq {"box"} \cup IF call.ok THEN {"pcm"} ELSE {"err"}
    /\ \A e \in Engines : Busy(e) => call.at = "engine" /\ call.eng = e
                                         /\ call.op \in {"create", "destroy"}

Owns(e) ==
    /\ ptr[e] = IF est[e] = "failed" THEN {} ELSE live[e]
    /\ est[e] \in {"absent", "gone"} => live[e] = {}
    /\ est[e] = "loading" => step[e] <= Len(LoadOrder(kind[e])) + 1
    /\ est[e] = "loading" /\ step[e] = 1 => live[e] = {}
    /\ est[e] = "loading" /\ step[e] > 1 => "backend" \in live[e]
    /\ est[e] = "loading" /\ step[e] = 7 => "ctx_stack" \in live[e]
    /\ est[e] \in {"baking", "ready"} => "backend" \in live[e]
    /\ est[e] = "freeing" => \A i \in 1..step[e] - 1 : FreeOrder[i] \notin live[e]
    /\ \A b \in Buffers : b \in live[e] => "backend" \in live[e]
    /\ "buffer_stack" \in live[e] => "ctx_stack" \in live[e] /\ atexit
    /\ e \in registry <=> /\ "buffer_stack" \in live[e]
                          /\ est[e] = "freeing" => step[e] <= 2

MemInv ==
    /\ MemTypeOK
    /\ CallInv
    /\ proc # "exited" => \A e \in Engines : Owns(e)
    /\ BufferOverBackend /\ OnlyFailedLoadsLeak /\ NoStackAtExit
=============================================================================
