# chatterbox-rs: a TLA+ verification of its control

chatterbox-rs is a text-to-speech library: a Rust API (`src/engine.rs`) and an HTTP/WebSocket
server (`src/server.rs`) over a C++ engine (`chatterbox-cpp/`), which decodes text to speech
tokens with T3 and turns the tokens into audio with S3Gen. The numerics run on the vendored ggml.
This directory models the part that is control: who may touch which model when, how a
decode loop ends, how an utterance is cut and put together again, and how requests share the engine.

Paths below are relative to the repository. Frames are mel frames of 480 samples (20 ms).

## 1. Inventory

| component | state | operations | talks to |
|---|---|---|---|
| Rust `Engine` (`src/engine.rs`) | `ENGINE_INIT_MUTEX`, a C++ engine handle | `new`, `synthesize`, `synthesize_streaming`, `save_voice`, `cancel` (empty), `drop` | C bridge |
| C bridge (`c_src/tts_bridge.cpp`) | malloc'ed results and error strings, boxed callback | one function per operation, two frees | C++ `Engine` |
| C++ `Engine::Impl` (`chatterbox_engine.cpp`) | options, T3 model, allocator, preload thread, voice tensors, `cancel_flag` | constructor, destructor, `synthesize`, `cancel`, `save_voice` | T3, S3Gen, both by call; preload thread |
| S3Gen cache (`chatterbox_tts.cpp:154-278`, `2297-2309`) | `g_s3gen_cache_mu`, one entry, exit handler | get (hit, or load and install), release | used by synthesis and preload threads |
| S3Gen pipeline (`chatterbox_tts.cpp:1652-2295`) | `thread_local` time_mlp graph | `s3gen_synthesize_to_wav` | cache, ggml |
| T3 (`main.cpp`, `t3_mtl.cpp`) | KV cache, hyperparameters, registry of stacked weights | load, `eval_prompt`, `eval_step`, samplers, and the `_mtl` twins | ggml |
| voice conditioning (`bake_voice_conditioning`, `voice_features.cpp`, `npy.h`) | voice tensors, `.npy` files | bake, save, validate | encoders |
| tokenizers (`gpt2_bpe.cpp`, `mtl_tokenizer.cpp`) | vocabulary, merges | `tokenize`, `encode` | T3 |
| server (`src/server.rs`) | `Mutex<Option<Engine>>`, one channel per stream | 5 HTTP routes and a WebSocket | Rust `Engine`, tokio |

Hard behaviour, and what makes each component correct:

* **Engine and cache.** Application threads are serialized by `ENGINE_INIT_MUTEX`, but the preload
  thread of an engine is not: it outlives `Engine::new` and fills the process-wide cache whenever it
  gets there. The cache hands out a raw pointer that is used after its mutex is released. Correct:
  the pointer stays alive while it is used, the weights are those of the engine's own file, each
  preload thread is joined on every path, nothing is lost or left at exit, no call waits for ever.
* **T3 decode.** A loop with four exits (count, flag, stop token, context) and `cancel()` from
  another thread. Correct: no position past the KV cache, no stop token in the result, a cancel is
  prompt and never leaks into the next call, every call ends.
* **Streaming.** The tokens are padded, cut into chunks and S3Gen is run on growing prefixes; each
  call skips the frames already emitted, and a call that is not final gives up 6 frames. Callbacks
  may throw, `cancel()` may come. Correct: the audio is that of a batch call, each frame once.
* **Server.** Async handlers take a blocking mutex, and a blocking task holds it while it waits for
  room in a channel that only the async side drains. Correct: streams are in order and complete or
  visibly broken, the engine stays under a running synthesis, every request is served.
* **C bridge and T3 loading.** Blocks cross the language border in both directions, a load has seven allocations each of
  which may fail, and a process-wide registry frees at exit what a GPU backend must not find. Correct: every block and buffer has
  one owner, is freed once, before what it lies on, whatever fails on the way.
* **Voice conditioning.** Five tensors come from a directory, a recording or the GGUF, each on its own, and `save_voice` writes them to
  five files, over whatever is there. Correct: what S3Gen is given is a whole voice or the built-in one, and a saved voice is the voice one gets back.
* **Samplers.** Filters in an order that differs between the two models, with ties, thresholds and float underflow. Correct: a
  token that is drawn passed every filter, and every token that passes can be drawn.
* **Tokenizers.** A merge loop that takes one pair at a time. Correct: it gives the tokens the vocabulary was trained for.

`PROJECT.json` lists the hazards one by one, each at its line.

## 2. Modules

| module | models | abstracts |
|---|---|---|
| `S3GenCache` | engine life cycle, preload threads, the cache, the time_mlp graph | weights to a `model_ctx` identity, key and backend address |
| `S3GenCacheProofs` | theorems about it | |
| `T3Decode` | `run_t3`, `run_t3_mtl`, `cancel` | a token to "speech" or "stop"; logits and sampling to any token |
| `T3DecodeProofs` | theorems about it | |
| `Streaming` | `synthesize` after T3, frame accounting of S3Gen | audio to frame numbers, tokens to their number and the positions S3Gen drops |
| `StreamingProofs` | theorems about it, and that it implements `SpeechStream` | |
| `SpeechStream` | what the callback's owner is promised | chunks to the number of frames delivered |
| `Server` | all routes | a synthesis to its number of chunks |
| `ServerProofs` | theorems about it | |
| `EngineMemory` | C bridge, constructor and destructor of `Impl`, T3 load, `free_model`, the registry | memory to the field that owns it |
| `EngineMemoryProofs` | theorems about it | |
| `EngineVoice` | `bake_voice_conditioning`, `save_voice`, the voice directory, what S3Gen is given | a tensor to the voice it belongs to |
| `EngineVoiceProofs` | theorems about it | |
| `Sampling` | both samplers, as functions to the set of tokens they may return | scores to integers, weights to powers of two |
| `BpeMerge` | the merge loop of both tokenizers, as a function | characters to members of a set |
| `SampledDecode` | `T3Decode` with the two function modules, and what they must return as invariants | |
| `SamplingProofs`, `BpeProofs` | theorems about the two function modules | |
| `MCDecode` | bounds of the two function modules for TLC | |
| `MCS3GenCache`, `MCStreaming` | symmetry sets and voices for TLC | |

`Streaming` implements `SpeechStream` (its property `KeepsPromise`), which bounds neither the utterance nor its chunks and asks that a
call that completes has delivered audio. `Streaming` takes from `T3Decode` that
T3 returns at most `n_predict + 1` tokens (`TokenBound`) or throws; `Server` takes from `Streaming` that a
synthesis calls back once per chunk, or not at all for an engine that does not stream;
`S3GenCache` takes from `Streaming` that a synthesis makes one S3Gen call per chunk. `T3Decode` lets a sampler return any token;
`Sampling` says which. `EngineMemory` and `EngineVoice` describe the same constructor from two sides, its memory and its result.

In every module, the operators named `X_Something` placed before an operator `X` are the
same operation with a plausible bug, stated in the comment above; they are not part of the specification and show
which property notices.

### S3GenCache

* `lock` is `ENGINE_INIT_MUTEX`, taken by `Enter` and released by `Leave`; `Serialized = FALSE` is a C++
  program that uses the class directly. `pc` is where a thread is inside a call:
  `bake`, `failJoin`, `failUnload` in the constructor, `t3`, `get`, `load`, `infer`, `vocode` in `synthesize`, `drop`
  in the destructor. An engine is `Send` and not `Sync`, so no two threads use one engine.
* `preload[e]` is the `std::thread` of engine `e`: `none` means not joinable. `Join` is `wait_for_preload`.
* `cacheMu`, `entry` and the three functions on models are the cache. A load is two steps, because the
  mutex is held meanwhile and other threads run; a hit is one. A model that is replaced becomes an
  `orphan` (the struct has no destructor, so its buffers leak), one that is released `freed`, and only then may
  its backend address be used again.
* `mlp` is the `thread_local` graph of `compute_time_mlp`, rebuilt when the backend *address* differs.
* `GetHit`, `GetMiss`, `GetLoaded`, `GetThrows` and the three preload actions are the same two C++ functions run by
  two kinds of thread. `Exit` is `main` returning: engines are dropped, then the exit handler runs.

### T3Decode

`Check`, `Cancelled` and `Return` are the tests at the top of the loop in the code's order; `EvalStep` and
`PositionRefused` the body. `EvalFails` is the multilingual passes reporting a failed allocation, which the Turbo
functions do not look at. `PromptTooLong` throws for Turbo and ends the process for the multilingual
model, whose prompt length nobody compares with `n_ctx` (`PastContext`) nor the text with the rows of its position table (`PastTable`). A view past the KV
cache is refused by an assertion on every backend; rows that are not there only on the CPU, so that a text past the table may also decode. `asked` and `late` are history:
whether a cancel came during this call and how many tokens were sampled since.

### Streaming

`Boundaries` is the chunk plan with its tail merge, as a set of cuts; `EncoderFrames`, `MuFrames`, `MelFrames`
are the lengths computed in `s3gen_synthesize_to_wav`, `Refused` its early returns and `Empty` the case
no check covers, where ggml asserts. `Infer` makes one S3Gen call for the chunk,
`Deliver` is the callback returning together with everything up to the top of the loop, `DeliverThrows`
the callback throwing. `cancel()` may come between any two actions. `Batch` is `synthesize_batch`.

### Server

`task[r]` is the handler of a request and then the task that sends its response, `bg[r]` its blocking task.
`FreeWorker` says that a handler which blocks on the mutex, or synthesizes, keeps its worker
thread. `BlockingSend` waits for a slot and fails once the receiver is gone, which the callback ignores;
`PollNext` is `ReceiverStream::poll_next`. `std::sync::Mutex` has no order: any waiting request may get it.

### EngineMemory

`call` is the call into the bridge with the heap blocks that are Rust's or lent by Rust (`box`, `pcm`, `err`); Rust's
`ENGINE_INIT_MUTEX` admits one. `LoadOrder` and `FreeOrder` are the statements of the two loaders and of the destructor with `free_model`,
walked by `step`, one allocation or release per action; `live` is what the heap holds and `ptr` what the `Impl` still points to.
A load fails where the code looks (`LoadFails`, without any release, because the destructor of an unfinished object does not run),
aborts where it uses a null result (`LoadAborts`), and goes on without a KV cache in the Turbo loader
(`TurboWithoutKv`). `Loaded` and `BakeThrows` are the later failures, which do call `free_model`. `Restart` may come at
any moment: a process that is killed leaves nothing in memory.

### EngineVoice

`voice[t]` says whose tensor the engine has, `files[t]` whose tensor each `.npy` file has; `torn` is a file whose write was cut
short, which `npy_load` reads as zeros beyond its end (`Load`). `Bake` is `bake_voice_conditioning` as a whole: every tensor from the
directory first, then from the recording if its extractor gives it (`FromRef`). `Extracted` is what the extractors that may fail without an exception can give: nothing
where the GGUF files lack their weights, and prompt tokens without conditioning tokens where the second pass over the recording fails. The prompt tokens
come with the conditioning tokens and are not asked for when the directory has these. `SaveSkips`, `SaveWrites`, `SaveThrows` and `SaveReturns` are the five writes of
`save_voice` in order, and `Crash` is the process dying between or inside two of them. `saved` is history: the voice of the last save that did not throw, the tensors whose
write was cut short although nothing reported it (`cut`), and those that the voice does not have while the directory has a file of them (`left`). S3Gen takes either no
override or all three; with one or two it looks for the others in a directory that the engine never names, and throws.

### Sampling and BpeMerge

`SampleTurbo` and `SampleMtl` apply the filters in the order of the code and return a set, since the sort behind top-p is
unstable: a nucleus may end anywhere among tokens of one score. `topP` is counted in quarters, `exp` is a power of two that
underflows to 0 beyond `Precision`, and of the random draw only 0 is told from the rest, because the code's `<=` then returns token 0 even
if a filter removed it. The references beside the samplers (`TurboAsFiltered`, `MtlAsFiltered`) say what each filter is for, per token and not per
step. `TurboAsFiltered` assumes that no tie away from zero lies across the k-th place (`LosesTie`): the code throws such a tie out whole, which its comment means to prevent, and
nothing is claimed of what it draws then. And `MergedByPair` is the published algorithm, which merges all occurrences of a pair in one pass. The loop of `Bpe` and the passes
are functions of the number of iterations (`Merged`, `Passes`).

`SampledDecode` states both as invariants of the decode loops, for all inputs in its constants (`Logits`, `Histories`, `Params`, `Words`, `MergeTables`).
A pure function has the same result in every state, so they only look at states where nothing has happened yet (`Untouched`). Two assumptions
come with the inputs. `SamplerInputs`: a finite vocabulary and scores above the `NegInf` that marks a removed token, as those of a model are.
`TokenizerInputs`: the merge table was trained, and no two merges make the same token. A published GPT-2 vocabulary has one id per merge, so that holds
there; nothing in the loaders asks for it, and without it loop and published algorithm differ: with the merges `a b`, `b c`, `a bc`, `abc ab`, `ab c`, in
this order, `abcabc` becomes `abcab c` in the loop and `abc abc` in the passes. The bounds of the run are too small to show it (a table needs five merges);
the proof asks for it.

## 3. Runs

| run | question | answer |
|---|---|---|
| `cache_one_key` | two engines on one S3Gen file, failing voices and loads | all properties hold, with the inductive invariant of the proof |
| `cache_two_keys` | two engines on two files | **violated**: a preload replaces the entry under a running synthesis |
| `cache_stale_graph` | a failed voice, then another engine | **violated**: the thread keeps a graph on freed weights |
| `decode_loops` | both decode loops with cancels at any time; samplers and merge loop on all small inputs | all properties hold, every call ends |
| `decode_long_text` | a text within the position table whose prompt is beyond the context | **violated**: the multilingual model aborts the process |
| `stream_chunks` | all lengths, chunk sizes and special positions | streaming is batch in pieces, and implements `SpeechStream` |
| `stream_three_tokens` | a first chunk of exactly the lookahead | **violated**: nothing to vocode, the process aborts |
| `server_routes` | every route, a worker per request, a channel of one slot | all properties hold, every request served |
| `server_health` | one worker, a channel that fills | **violated**: `GET /health` waits for ever |
| `engine_memory` | two engines, every load and bake that can fail, kills | all properties hold, with the inductive invariant of the proof |
| `voice_dir` | save, fail, crash and load again over any directory; recordings that extractors make little of | of a saved voice only cut and leftover tensors do not come back; a recording gives all but, at worst, the prompt tokens |
| `voice_save` | does `save_voice` throw when it fails | **violated**: it returns over a file cut short, or beside one of an earlier voice |

The violated ones state what a comment or a header says; the quotes are in `PROJECT.json` under `findings`.
Smaller disagreements seen on the way and left without a run: `run` starts without an engine although the usage
text posts to `/tts` at once (`server.rs:9-16`, `425`); the Rust `cancel` is empty (`engine.rs:461-470`);
`n_predict` tokens are really `n_predict + 1` (`engine.h:88`, theorem `TokensBounded`); `tts_server --help` gives a default
chunk of 1 token, which is always refused (`tts_server.rs:100`); `run` is documented to return a join handle
and does not (`server.rs:420-423`); the Turbo top-k throws a tie across the k-th place out whole, because a threshold lowered by `1e-10f` is the same float
away from zero (`main.cpp:767-769`): it then keeps fewer than k tokens, against the purpose of that line, and token 0 is returned if it keeps none, while
`t3_mtl.cpp:1645-1646` calls it the correct variant and `1658-1661` says that returning 0 desyncs the sampler; the multilingual penalty compounds with each occurrence of a
token and a temperature of 0 or less does not make that sampler greedy; a missing speaker embedding is reported as
"falling back to built-in" when the next synthesis throws (`chatterbox_engine.cpp:316-318`); a recording does not stand in for a missing `prompt_token.npy` if the
directory has the conditioning tokens (`chatterbox_engine.cpp:243-254`), so that every synthesis throws, although `engine.h:68-70` says it does "for any tensor missing from
voice_dir" (`RecordingGives` has this as the only case); a T3 load that fails leaks what it had allocated
(`OnlyFailedLoadsLeak`: that, and nothing else); a C++ program that shares the cache between engines without Rust's mutex loses it when
a constructor fails (`engine.h:31-32`).

**Bounds.** `cache_*`: two threads and two engines give every pair of operations; a stale pointer needs one thread that uses and one thread
that loads or frees, and an orphan needs two loads, so two `Models` (three where keys differ) suffice; `Models` also bounds the loads
of a run, so a thread that needs a load beyond it only has the throwing one. `decode_loops`:
`NPredict` 4, `NCtx` 8, `MaxSpeech` 6, `MaxText` 4 and texts of 0 to 7 tokens, on both sides of `MaxText` and of the context, make each of the four loop exits the first to fire in some behaviour, and
two calls let a cancel fall before, into and after each. `decode_long_text` has a `MaxText` of 7, so that every text fits the table and only the context is exceeded. `stream_chunks`: up to 16 tokens and 3 of padding
with chunks of 1 to 20 give plans of one to 19 chunks, merged and unmerged tails on both sides of the limit 6, first chunks below, at and
above the lookahead, one special token anywhere, and voices with even and odd frame counts. `server_*`: a stream needs
more chunks than slots to fill its channel, and a second and third request to wait for the mutex and to unload the engine. `MaxMsgs`
and `MaxFrames` bound a WebSocket's life.

`engine_memory`: two engines, so that one is built or freed while the other is alive and
registered, over every pair of model variant and backend; nothing else needs a bound. `voice_dir`: one recording and one earlier voice
`Old`, files of any subset, any set of extractors and outcomes of theirs, any number of saves, crashes and lives. Samplers: three tokens with scores -8, 0 and 8, so that ties,
penalties on both sides of zero and weights that underflow occur, top-k from off to all, top-p off, at a half and at three quarters, min-p off, low and above 1.
Merge loop: all trained tables of up to three merges over two characters and all words of up to six. `cache_stale_graph` needs one engine and two addresses.

**Deadlock** is checked in every run. States where nothing more is to do are `Exited`, `Quiet` and `Finished`, which only
hold when the program may really stop: a process that has exited, no call left to make, all requests answered. `EngineMemory` and `EngineVoice` need
none, because a process can be started again.

**Fairness.** `S3GenCache!FairSpec`: the OS runs every thread inside a call and every preload thread; nobody must begin a call. Weak fairness is enough
for the mutexes, because the steps that take a mutex belong to a thread that competes with calls that end and whose number is bounded by the models left,
or that finds the mutex free again and again; TLC confirms it. `T3Decode!FairSpec`: the decoding thread runs.
`Server!FairSpec`: the runtime polls a task that can run, the blocking threads run, and a client that stays connected reads; clients
need not send or leave. `std::sync::Mutex` is not fair, and weak fairness suffices only because the requests of a run are finitely many.
Safety properties assume no fairness.

## 4. Proofs

`S3GenCacheProofs` holds for any number of threads, engines, keys, models, addresses and chunks, from `CacheAssumption`
alone: the sets are disjoint where the code's types are, and the two switches are Boolean.

* `TypeCorrect`: types, together with `CallHasEngine` (a thread inside a call has an engine), without which a step's function
  application `preload[eng[t]]` has no type.
* `PreloadAlwaysJoined`: needs `JoinedBeforeUse`: past the join of `synthesize` or of the failing constructor the engine has no preload thread.
* `PointerInvHolds` and `PointerStaysAlive`: a pointer in use is the cached one (`UsesEntry`). An install would break that, so either
  a load starts only on an empty cache (one key: `LoadOnlyEmpty`), or the only preload thread was joined before the pointer was taken
  (one engine). A release would break it too; it happens in a failing constructor, which excludes other calls by
  `CallHoldsLock`. So both hypotheses of the theorem are used: `cache_two_keys` shows that the first cannot go, and without the
  mutex a failing constructor can release the cached model under another engine's synthesis.
* `WeightsAreOwn`: that a pointer in use names a model loaded under the engine's key (`UsesLoaded`) holds without any mutex, from `KeysKnown` (keys are known
  when they are read) and `LiveIsCached` (live models are exactly the cached one), but says nothing where that model was destroyed. Together with `PointerStaysAlive`, under its hypotheses,
  it says that the weights are there and the engine's own.
* `SingleKeyNoOrphan`, `SingleKeyCleanExit`: from `LoadOnlyEmpty`, and for the exit from `PreloadJoined` and
  `ExitedQuiet`: once the engines are gone no step is left but stuttering.
* `GraphIsFresh`: with any number of keys, and without the mutex, a thread's time_mlp graph belongs to the model it runs, provided no constructor
  can fail after its preload has started (`WithVoice = FALSE`: neither a recording nor a directory is given). `ScaffoldInv`: until the exit nothing is freed then, only orphaned, so that no
  two models ever had one backend address. `cache_stale_graph` is the same configuration with voices.

`T3DecodeProofs` holds for any limits, text lengths and both models, from `DecodeAssumption`. `TokenBound` and
`CacheHoldsTokens` are not inductive: nothing in them ties the number of tokens to the position. `DecodeInv` adds `Counted` (how many
tokens there are at each place of the loop), `StopIsLast` (a stop token can only be the newest
one, and has not been looked at yet) and `FlagIsAsked` (a raised flag is a cancel of this call). Sampling may return
any token at every step, so the theorems do not depend on the model's weights. `AbortsAreLongTexts` says that a multilingual text that is too long
is the only thing a decode loop ends the process over, and `FittingTextsNeverAbort` that `TooLongIsAnError` holds where every text fits; `decode_long_text` is
the case where one does not. Of `CallsReturn`, which TLAPS cannot prove because it is a property of fair behaviours, `CallsAdvance` proves the part about steps:
the natural number `StepsLeft` falls with every step of the decoding thread and rises only when a new call begins. What fairness adds is that the thread takes its steps.

`StreamingProofs` holds for any chunk sizes, lengths, voices and positions of special tokens, from `StreamingAssumption`. `StreamInv` consists of
`PlanInv` (the cuts lie within the padded length, which is the last of them, and the cursor moves forward), `EmitInv` (`emitted` is `MelFrames` of the last cut delivered, and `pcm`
holds exactly the frames before it), `HeardInv` (what the callback got, and that only the last chunk was called so) and
`FlagIsAsked`. `OnlyFirstRefused` needs that the frames of a cut grow with the cut: `EncoderGrows`, which rests on
`SpecialsOfPrefix`: a longer prefix never loses more special tokens than it gains tokens. `CutInv` says how far the cuts are from the start, from each
other and from the end (`PlanGaps`: inner cuts are the first chunk plus multiples of the chunk, and the merge takes out the only one too close
to the end). `TailIsWorthIt` follows at once; `RoomyChunksAccepted` weighs the gap between two cuts against the special tokens
that may lie in it, which is why its chunks must be longer than these are many.
`ResultWasHeard` and `ResultHasAudio` need `DeliveredInv`, that the concatenation of what the callback got is `pcm` at every point of the loop and that a delivered chunk is
never empty. `StreamKeepsPromise` is the refinement: `Promise` maps the variables (`state` from the place in the call, `total` from `MelFrames` of the whole plan,
`delivered` from the length of what was heard), and the theorem goes through `Next` action by action, each of which is an action of `SpeechStream` or
leaves the mapped variables alone. Two lemmas carry it: the frames delivered are `emitted` while the loop runs (`DeliveredIsEmitted`),
and no prefix has more frames than the utterance (`WholeIsMost`), so that a chunk never delivers beyond `total`.

`ServerProofs` holds for any number of requests, workers, slots and chunks, any routes and engine modes, from `ServerAssumption`.
`ServerInv` adds `OneHolder` (a handler in its critical section, or a blocking task past its lock, is the holder of the mutex; a running
task has an engine), `TaskInv` (a blocking task comes with a response and counts its chunks) and `ChannelInv` (received and queued items
are the chunks sent, followed by an error once the task has failed). That nothing is queued behind an error (`ErrorIsLast`)
is what makes a response that ends with an empty channel, and not with an error, a complete one. `RoomySendsNeverBlock` is
conditional: `Capacity > MaxChunks`. The code has 16 slots and no bound on chunks, so the condition says what the code would need, and
`server_health` shows what happens without it.

Each lemma `XStep` says that one step of `Next` keeps one part of the invariant, with one case per action; the theorems only combine them.
`EngineMemoryProofs` holds for any number of engines and any subset of model variants and backends, from `MemoryAssumption`. What one
would like to say of the release, that nothing is freed twice and nothing is forgotten, is not inductive: `MemInv` says instead what is
allocated at each point. `CallInv` names the blocks that are out at each stage of a call and that only the engine of the call is being built or freed;
`Owns` ties `live` to `ptr`, to the `step` of a load or a release, and the registry to the stacked buffer until the step of
`free_model` that takes it out. After the exit only the last conjuncts of `MemInv` are left, because the exit handler frees the
stacks under engines that nobody destroyed.

`EngineVoiceProofs` holds for any set of recordings, from `VoiceAssumption`. `SaveInv` says which files an unfinished save has replaced, each by the engine's tensor or by a torn
one: those before `pos` that it writes; and that a S3Gen file of a tensor the voice does not have is one of `left`. `NoBuiltInFile`, that no S3Gen file is ever one of the
built-in voice, is what makes a file's presence mean a tensor. `SavedVoicesReload` is then a fact about one state: the directory and the saved voice differ in tensors of
`cut` and `left` only, which is what remains of the promise that `voice_save` refutes. `RecordingGivesAll` is what remains of `engine.h:68-70`: when every extractor
succeeds, a recording gives all five tensors to an engine without a directory, and with a directory all that S3Gen needs except, at worst, the prompt tokens. It also
needs that no file ever disappears (`FilesStep`).

`SamplingProofs` holds for any finite vocabulary, any integer scores, histories and parameters, from `SamplerInputs`. `MtlSampler` and `TurboSampler` say both directions:
a token that is drawn passed every filter, and a token that passes every filter is drawn unless another is more than `Precision` above it; `TurboSampler` for inputs without
a tie across the k-th place (`LosesTie`), where what the threshold leaves is the top-k (`TurboTopK`). The argument: every filter
keeps a *prefix* of the tokens by score (`PrefixKeepsRanks`), so that the next filter's count and mass, taken over what is left, are those taken
over the vocabulary. Three facts about data carry it. A rank: the k-th largest score is exceeded by fewer than k tokens and reached by at least k
(`LargestIsKth`), with which both top-k rules are statements about `AmongBest` and ties (`TopKMtlKeeps`, `TopKTurboKeeps`). A sum: `Mass` is a fold over a finite set,
which does not depend on the order (`MassRemoves`) and grows with the set (`MassGrows`); the nucleus of a token is then the prefix above it, in whichever order the unstable
sort left ties (`TopPSound`, `TopPComplete`). And the penalty, a fold over the history, keeps scores integers (`PenaliseEachType`). What the folds of the community modules compute
is proved from their recursion by taking a smallest set where it fails (`FoldExists`, `FoldAgrees`), because the library's induction theorems cannot be instantiated.

`BpeProofs` holds for any alphabet, any word and any table of the kind `TokenizerInputs` asks for. `BpeIsPublished`: when a pass of the published algorithm
is at rank `r`, no pair of a lower rank exists and none of rank `r` is left behind the scan (`Ready`). Merging one keeps that so, since a pair with the new part belongs to a merge that was
learnt later (`MadeLater`, the only use of the assumption). So the pair the scan merges next is the one the loop would choose (`ScanIsIteration`), a pass is a number of
iterations (`PassIsIterations`), and since both end (`LoopEnds`, each merge leaving a part less) they end in the same parts.

TLC checks `PointerInv`, `DecodeInv`, `StreamInv`, `ServerInv`, `MemInv` and `VoiceInv` as invariants of passing runs. `OwnWeights`, `TokenBound`, `SendNeverBlocks`,
`AbortsOverLongText`, `DecodeAdvances` and the completeness of the merge loop are proved and no run's property; TLC agreed with each before it was proved.

Every invariant and action property that a passing run checks is stated by a theorem, and so is the implementation of `SpeechStream`. Only model-checked are
the liveness properties (`CallsReturn` of both modules, `AllServed`), because TLAPS proves nothing under fairness, and that the violated properties are violated,
which is a matter of one counterexample.

Two defects of the models came out of proofs that failed. A mapping written as `CASE` with two guards true at once (`StreamState`) has no value the provers can use, although TLC
takes the first; it and the greedy case of `SampleTurbo` now say which. And `BpeMatchesReference` held in the run's bounds but not beyond, until `Trained` asked for one merge per token.

## 5. What the models leave out

* Floating-point work (T3 and S3Gen graphs, HiFT, wave fades, the encoders and the signal processing of `voice_features.cpp`): their
  sizes and failures are modelled, not their values. `Streaming` says which frames arrive, not what they sound like; the source tail
  spliced between chunks (`chatterbox_tts.cpp:2236-2246`) is therefore outside.
* Rewriting of text: GPT-2's pre-tokenisation, the normalisation and per-language preprocessing of `mtl_tokenizer.cpp`. They are sequential string functions without
  state; a model would repeat them character by character.
* Failures that are not reported: memory exhaustion, except where the code looks for it or uses the null result at once.
* Panics in Rust, hence mutex poisoning (`server.rs:92`); that a panic in `on_chunk` ends the process is in `EngineMemory`.
* Integers are unbounded; `cursor + chunk_n` would overflow for chunk sizes near `INT_MAX` (`chatterbox_engine.cpp:532`).
* Two engines that use one voice directory at once, and what a file system keeps of a write after a power failure.
* An empty reply of T3: a batch call fails and a streaming call returns six frames of padding (`chatterbox_engine.cpp:521`); the model has both
  and no property calls one of them wrong.
* ggml and dr_wav, third-party; the examples, tests and build scripts, callers without state of their own.

Nine tenths of the repository's C and C++ are vendored ggml and dr_wav, and most of the rest is graphs of tensor operations. The map therefore
covers a small share of all lines; of the files with control (`engine.rs`, `server.rs`, `tts_bridge.cpp`, `chatterbox_engine.cpp`, the S3Gen cache, the decode loops,
both loaders and samplers) it covers the functions with a state change.

## 6. Plan

Order, most important first; done, each with its runs, and with its proofs where the module can have them:

1. `S3GenCache`. 2. `T3Decode`. 3. `Streaming` over `SpeechStream`. 4. `Server`. 5. `EngineMemory`. 6. `EngineVoice`.
7. `Sampling` and `BpeMerge`.

What is left:

8. `Server` over an abstract engine that is `SpeechStream`, so that the composition of the two is checked and not only argued.
9. `EngineVoice` with two engines on one directory, one of which loads while the other saves.
10. Theorems of the other two liveness arguments in the manner of `CallsAdvance`: what falls with every step of a thread that holds the engine mutex
    (`Server`), or the cache mutex (`S3GenCache`).
11. That the merge loop loses no character: the parts, joined, are the word.
