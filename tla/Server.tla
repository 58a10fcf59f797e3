------------------------------- MODULE Server -------------------------------
(***************************************************************************)
(* The HTTP and WebSocket server of src/server.rs on the tokio runtime.    *)
(*                                                                         *)
(* Handlers are async, but they take the engine's std::sync::Mutex, which  *)
(* blocks the worker thread they run on, and /tts and the WebSocket also   *)
(* synthesize on it.  /tts/stream-pcm synthesizes in a blocking task that  *)
(* holds the same mutex while it pushes chunks into a bounded channel; the *)
(* response body drains the channel on the workers.                        *)
(***************************************************************************)
EXTENDS Naturals, Sequences, FiniteSets

CONSTANTS
    Requests,   \* the requests (for WebSockets: connections) of one run
    Kinds,      \* which routes they use
    Modes,      \* what engines are loaded with: "streams" when
                \* stream_chunk_tokens > 0, "batch" otherwise
    Workers,    \* worker threads of the tokio runtime
    Capacity,   \* slots of the mpsc channel; 16 in the code
    MaxChunks,  \* bound on the PCM chunks of a streamed synthesis
    MaxFrames,  \* bound on the binary frames of a WebSocket reply
    MaxMsgs,    \* bound on the messages of one WebSocket
    NoOne

AllKinds == {"health", "load", "unload", "tts", "stream", "ws"}

ASSUME ServerAssumption ==
    /\ NoOne \notin Requests
    /\ Kinds \subseteq AllKinds
    /\ Modes \subseteq {"streams", "batch"} /\ Modes # {}
    /\ {Workers, Capacity, MaxChunks, MaxFrames} \subseteq Nat \ {0}
    /\ MaxMsgs \in Nat

VARIABLES
    engine,   \* AppState.engine: none, or the mode of the one loaded
    mutex,    \* the request whose handler or blocking task holds its mutex
    kind,     \* route of each request
    task,     \* its handler, then the task that sends its response
    status,   \* how the request ended
    bg,       \* its blocking task
    chan,     \* its channel: chunk numbers, 0 for an Err item
    total,    \* chunks its synthesis produces
    sent,     \* chunks handed to on_chunk
    got,      \* items its client received
    frames,   \* WebSocket frames left to send
    msgs      \* WebSocket messages received

vars == <<engine, mutex, kind, task, status, bg, chan, total, sent, got, frames, msgs>>
streamVars == <<bg, chan, total, sent, got>>
wsVars == <<frames, msgs>>

ErrItem == 0
Items == 0 .. MaxChunks

TypeOK ==
    /\ engine \in {"none"} \cup Modes
    /\ mutex \in Requests \cup {NoOne}
    /\ kind \in [Requests -> AllKinds \cup {"none"}]
    /\ task \in [Requests -> {"new", "ready", "lock", "crit", "drain", "recv", "send", "done"}]
    /\ status \in [Requests -> {"none", "ok", "badText", "noModels", "failed",
                            "complete", "aborted", "gone"}]
    /\ bg \in [Requests -> {"none", "lock", "check", "run", "fail", "end", "failed"}]
    /\ chan \in [Requests -> Seq(Items)]
    /\ \A r \in Requests : Len(chan[r]) <= Capacity
    /\ total \in [Requests -> 0 .. MaxChunks]
    /\ sent \in [Requests -> 0 .. MaxChunks]
    /\ got \in [Requests -> Seq(Items)]
    /\ frames \in [Requests -> 0 .. MaxFrames]
    /\ msgs \in [Requests -> 0 .. MaxMsgs]

Init ==
    /\ engine = "none"
    /\ mutex = NoOne
    /\ kind = [r \in Requests |-> "none"]
    /\ task = [r \in Requests |-> "new"]
    /\ status = [r \in Requests |-> "none"]
    /\ bg = [r \in Requests |-> "none"]
    /\ chan = [r \in Requests |-> <<>>]
    /\ total = [r \in Requests |-> 0]
    /\ sent = [r \in Requests |-> 0]
    /\ got = [r \in Requests |-> <<>>]
    /\ frames = [r \in Requests |-> 0]
    /\ msgs = [r \in Requests |-> 0]

-----------------------------------------------------------------------------
(* A handler that locks, or synthesizes under the lock, keeps its worker.  *)
FreeWorker == Cardinality({r \in Requests : task[r] \in {"lock", "crit"}}) < Workers

Goto(r, state) == task' = [task EXCEPT ![r] = state]

Finish(r, s) ==
    /\ Goto(r, "done")
    /\ status' = [status EXCEPT ![r] = s]

Unlock == mutex' = NoOne

InCrit(r, k) == task[r] = "crit" /\ kind[r] = k

Arrive(r, k) ==
    /\ task[r] = "new"
    /\ kind' = [kind EXCEPT ![r] = k]
    /\ Goto(r, IF k = "ws" THEN "recv" ELSE "ready")
    /\ UNCHANGED <<engine, mutex, status, streamVars, wsVars>>

(* A worker polls the handler, which goes straight for the mutex, or       *)
(* refuses an empty text before it.                                        *)
Start(r) ==
    /\ task[r] = "ready"
    /\ FreeWorker
    /\ \/ Goto(r, "lock") /\ UNCHANGED status
       \/ kind[r] \in {"tts", "stream"} /\ Finish(r, "badText")
    /\ UNCHANGED <<engine, mutex, kind, streamVars, wsVars>>

Acquire(r) ==
    /\ task[r] = "lock"
    /\ mutex = NoOne
    /\ mutex' = r
    /\ Goto(r, "crit")
    /\ UNCHANGED <<engine, kind, status, streamVars, wsVars>>

HealthHandler(r) ==
    /\ InCrit(r, "health")
    /\ Finish(r, "ok")
    /\ Unlock
    /\ UNCHANGED <<engine, kind, streamVars, wsVars>>

(* The old engine is dropped first: a failed load leaves none.             *)
LoadModelsHandler(r) ==
    /\ InCrit(r, "load")
    /\ \/ engine' \in Modes /\ Finish(r, "ok")
       \/ engine' = "none" /\ Finish(r, "failed")
    /\ Unlock
    /\ UNCHANGED <<kind, streamVars, wsVars>>

UnloadModelsHandler(r) ==
    /\ InCrit(r, "unload")
    /\ engine' = "none"
    /\ Finish(r, "ok")
    /\ Unlock
    /\ UNCHANGED <<kind, streamVars, wsVars>>

(* Synthesizes on the worker, under the mutex.                             *)
TtsHandler(r) ==
    /\ InCrit(r, "tts")
    /\ \/ engine = "none" /\ Finish(r, "noModels")
       \/ engine # "none" /\ Finish(r, "ok")
       \/ engine # "none" /\ Finish(r, "failed")
    /\ Unlock
    /\ UNCHANGED <<engine, kind, streamVars, wsVars>>

-----------------------------------------------------------------------------
(* POST /tts/stream-pcm                                                    *)

(* Looks at the engine, unlocks, spawns the blocking task and answers 200  *)
(* with a body that reads the channel.                                     *)
TtsStreamPcmHandler(r) ==
    /\ InCrit(r, "stream")
    /\ Unlock
    /\ \/ engine = "none" /\ Finish(r, "noModels") /\ UNCHANGED bg
       \/ engine # "none" /\ Goto(r, "drain") /\ bg' = [bg EXCEPT ![r] = "lock"]
          /\ UNCHANGED status
    /\ UNCHANGED <<engine, kind, chan, total, sent, got, wsVars>>

ReceiverAlive(r) == task[r] = "drain"

(* Faults: a send drops the item when there is no slot (try_send); it does *)
(* not notice that the receiver is gone.                                   *)
BlockingSend_Drops(r, item) ==
    chan' = IF ReceiverAlive(r) /\ Len(chan[r]) < Capacity
            THEN [chan EXCEPT ![r] = Append(@, item)] ELSE chan

BlockingSend_NoDisconnect(r, item) ==
    /\ ReceiverAlive(r)
    /\ Len(chan[r]) < Capacity
    /\ chan' = [chan EXCEPT ![r] = Append(@, item)]

(* blocking_send: waits for a slot; returns an error, which the callback   *)
(* ignores, once the receiver is dropped.                                  *)
BlockingSend(r, item) ==
    \/ /\ ReceiverAlive(r)
       /\ Len(chan[r]) < Capacity
       /\ chan' = [chan EXCEPT ![r] = Append(@, item)]
    \/ /\ ~ReceiverAlive(r)
       /\ UNCHANGED chan

BgAcquire(r) ==
    /\ bg[r] = "lock"
    /\ mutex = NoOne
    /\ mutex' = r
    /\ bg' = [bg EXCEPT ![r] = "check"]
    /\ UNCHANGED <<engine, kind, task, status, chan, total, sent, got, wsVars>>

(* Fault: the task trusts the look the handler took.                       *)
BgCheck_TrustsHandler(r) ==
    /\ bg[r] = "check"
    /\ bg' = [bg EXCEPT ![r] = "run"]
    /\ \E n \in 1 .. MaxChunks : total' = [total EXCEPT ![r] = n]
    /\ UNCHANGED <<engine, mutex, kind, task, status, chan, sent, got, wsVars>>

(* The engine may have been unloaded, or replaced, since the handler       *)
(* looked.  One that was loaded without stream_chunk_tokens synthesizes in *)
(* one piece and never calls on_chunk.                                     *)
BgCheck(r) ==
    /\ bg[r] = "check"
    /\ \/ /\ engine = "none"
          /\ bg' = [bg EXCEPT ![r] = "fail"]
          /\ UNCHANGED total
       \/ /\ engine = "streams"
          /\ bg' = [bg EXCEPT ![r] = "run"]
          /\ \E n \in 1 .. MaxChunks : total' = [total EXCEPT ![r] = n]
       \/ /\ engine = "batch"
          /\ bg' = [bg EXCEPT ![r] = "run"]
          /\ UNCHANGED total
    /\ UNCHANGED <<engine, mutex, kind, task, status, chan, sent, got, wsVars>>

(* on_chunk, called from inside synthesize_streaming.                      *)
BgChunk(r) ==
    /\ bg[r] = "run"
    /\ sent[r] < total[r]
    /\ BlockingSend(r, sent[r] + 1)
    /\ sent' = [sent EXCEPT ![r] = @ + 1]
    /\ UNCHANGED <<engine, mutex, kind, task, status, bg, total, got, wsVars>>

BgThrows(r) ==
    /\ bg[r] = "run"
    /\ total[r] > 0 => sent[r] < total[r]
    /\ bg' = [bg EXCEPT ![r] = "fail"]
    /\ UNCHANGED <<engine, mutex, kind, task, status, chan, total, sent, got, wsVars>>

(* The end of the closure drops the guard, then the sender.                *)
BgReturns(r) ==
    /\ bg[r] = "run"
    /\ sent[r] = total[r]
    /\ bg' = [bg EXCEPT ![r] = "end"]
    /\ Unlock
    /\ UNCHANGED <<engine, kind, task, status, chan, total, sent, got, wsVars>>

(* Fault: the failure is not reported to the client.                       *)
BgSendsError_Silent(r) ==
    /\ bg[r] = "fail"
    /\ bg' = [bg EXCEPT ![r] = "failed"]
    /\ Unlock
    /\ UNCHANGED <<engine, kind, task, status, chan, total, sent, got, wsVars>>

BgSendsError(r) ==
    /\ bg[r] = "fail"
    /\ BlockingSend(r, ErrItem)
    /\ bg' = [bg EXCEPT ![r] = "failed"]
    /\ Unlock
    /\ UNCHANGED <<engine, kind, task, status, total, sent, got, wsVars>>

(* poll_next: an item, or the end of the stream.  An Err item aborts the   *)
(* response.                                                               *)
PollNext(r) ==
    /\ task[r] = "drain"
    /\ FreeWorker
    /\ \/ /\ chan[r] # <<>>
          /\ got' = [got EXCEPT ![r] = Append(@, Head(chan[r]))]
          /\ chan' = [chan EXCEPT ![r] = Tail(@)]
          /\ IF Head(chan[r]) = ErrItem THEN Finish(r, "aborted")
                                        ELSE UNCHANGED <<task, status>>
       \/ /\ chan[r] = <<>>
          /\ bg[r] \in {"end", "failed"}
          /\ Finish(r, "complete")
          /\ UNCHANGED <<chan, got>>
    /\ UNCHANGED <<engine, mutex, kind, bg, total, sent, wsVars>>

(* The client closes the connection: the receiver is dropped.              *)
ClientGone(r) ==
    /\ task[r] = "drain"
    /\ Finish(r, "gone")
    /\ chan' = [chan EXCEPT ![r] = <<>>]
    /\ UNCHANGED <<engine, mutex, kind, bg, total, sent, got, wsVars>>

-----------------------------------------------------------------------------
(* GET /tts/stream, a WebSocket                                            *)

(* Invalid JSON or an empty text is answered at once.                      *)
WsRecv(r) ==
    /\ task[r] = "recv"
    /\ FreeWorker
    /\ msgs[r] < MaxMsgs
    /\ msgs' = [msgs EXCEPT ![r] = @ + 1]
    /\ Goto(r, "lock") \/ UNCHANGED task
    /\ UNCHANGED <<engine, mutex, kind, status, streamVars, frames>>

(* Synthesizes under the mutex and releases it before sending.             *)
WsSynthesize(r) ==
    /\ InCrit(r, "ws")
    /\ Unlock
    /\ \/ Goto(r, "recv") /\ UNCHANGED frames
       \/ /\ engine # "none"
          /\ Goto(r, "send")
          /\ \E n \in 1 .. MaxFrames : frames' = [frames EXCEPT ![r] = n]
    /\ UNCHANGED <<engine, kind, status, streamVars, msgs>>

WsSend(r) ==
    /\ task[r] = "send"
    /\ FreeWorker
    /\ frames' = [frames EXCEPT ![r] = @ - 1]
    /\ Goto(r, IF frames[r] = 1 THEN "recv" ELSE "send")
    /\ UNCHANGED <<engine, mutex, kind, status, streamVars, msgs>>

(* A send error ends the frame loop, and the next recv the connection.     *)
WsClose(r) ==
    /\ task[r] \in {"recv", "send"}
    /\ FreeWorker
    /\ Finish(r, "gone")
    /\ frames' = [frames EXCEPT ![r] = 0]
    /\ UNCHANGED <<engine, mutex, kind, streamVars, msgs>>

-----------------------------------------------------------------------------
Handler(r) ==
    \/ Start(r) \/ Acquire(r)
    \/ HealthHandler(r) \/ LoadModelsHandler(r) \/ UnloadModelsHandler(r)
    \/ TtsHandler(r) \/ TtsStreamPcmHandler(r) \/ PollNext(r)
    \/ WsSynthesize(r) \/ WsSend(r)

BlockingTask(r) ==
    \/ BgAcquire(r) \/ BgCheck(r) \/ BgChunk(r) \/ BgThrows(r)
    \/ BgReturns(r) \/ BgSendsError(r)

Client(r) ==
    \/ \E k \in Kinds : Arrive(r, k)
    \/ ClientGone(r) \/ WsRecv(r) \/ WsClose(r)

Served == \A r \in Requests : task[r] = "done" /\ bg[r] \in {"none", "end", "failed"}

Finished == Served /\ UNCHANGED vars

Next ==
    \/ \E r \in Requests : Handler(r) \/ BlockingTask(r) \/ Client(r)
    \/ Finished

Spec == Init /\ [][Next]_vars

(* The runtime keeps polling a task that can run and the OS keeps running  *)
(* the blocking threads; a client that stays connected reads its response. *)
(* std::sync::Mutex is not fair: WF is enough only because the requests of *)
(* a run are finitely many.                                                *)
FairSpec ==
    /\ Spec
    /\ \A r \in Requests : WF_vars(Handler(r)) /\ WF_vars(BlockingTask(r))

-----------------------------------------------------------------------------
(* Properties *)

(* A synthesis in a blocking task has an engine under it to the end: no    *)
(* load or unload takes it away, although the handler that checked for it  *)
(* let go of the mutex in between.                                         *)
SynthesisKeepsEngine == \A r \in Requests : bg[r] = "run" => engine # "none" /\ mutex = r

(* Chunks reach the client in order, none lost and none twice: what was    *)
(* received and what is still queued are the chunks sent, and an error     *)
(* comes after them.                                                       *)
UpTo(n) == [i \in 1 .. n |-> i]
StreamInOrder ==
    \A r \in Requests : ReceiverAlive(r) =>
        got[r] \o chan[r] \in {UpTo(sent[r]), Append(UpTo(sent[r]), ErrItem)}

(* A client can trust a response that ends cleanly: the engine had not     *)
(* been unloaded, the synthesis did not fail, and every chunk is there.    *)
CleanEndIsComplete ==
    \A r \in Requests : status[r] = "complete" =>
        bg[r] = "end" /\ got[r] = UpTo(total[r])

(* Why the properties above hold, as an inductive invariant.               *)
HoldsMutex(r) == task[r] = "crit" \/ bg[r] \in {"check", "run", "fail"}

OneHolder ==
    \A r \in Requests :
        /\ HoldsMutex(r) => mutex = r
        /\ bg[r] = "run" => engine # "none"

(* A blocking task comes with a response, and counts its chunks.           *)
TaskInv ==
    \A r \in Requests :
        /\ bg[r] = "none" => task[r] # "drain" /\ chan[r] = <<>> /\ got[r] = <<>>
        /\ bg[r] # "none" => task[r] \in {"drain", "done"}
        /\ bg[r] \in {"none", "lock", "check"} => sent[r] = 0 /\ total[r] = 0
        /\ sent[r] <= total[r]
        /\ bg[r] = "end" => sent[r] = total[r]
        /\ task[r] = "done" => chan[r] = <<>>
        /\ status[r] # "none" => task[r] = "done"
        /\ task[r] = "send" => frames[r] > 0

(* An error is sent last, and ends the response that receives it: what can *)
(* be said of the items received, those queued, and the chunks sent.       *)
InOrder(received, queued, n, state) ==
    /\ state # "failed" => received \o queued = UpTo(n)
    /\ state = "failed" => received \o queued = Append(UpTo(n), ErrItem)
    /\ \A i \in 1 .. Len(received) : received[i] # ErrItem

ChannelInv ==
    \A r \in Requests : task[r] = "drain" => InOrder(got[r], chan[r], sent[r], bg[r])

ServerInv == TypeOK /\ OneHolder /\ TaskInv /\ ChannelInv /\ CleanEndIsComplete

(* Every request is served, or its client leaves: the locks, the channel   *)
(* and the workers never wait on each other for good.                      *)
Waiting(r) == task[r] \in {"ready", "lock", "crit", "drain", "send"}
AllServed == \A r \in Requests : Waiting(r) ~> ~Waiting(r)

(* GET /health answers (server.rs:7).                                      *)
HealthServed == \A r \in Requests :
    (kind[r] = "health" /\ task[r] = "ready") ~> task[r] = "done"

(* With room for every chunk and an error, on_chunk never waits, so the    *)
(* engine mutex is never held across a wait for the client.                *)
SendNeverBlocks ==
    \A r \in Requests : bg[r] \in {"run", "fail"} => Len(chan[r]) < Capacity
=============================================================================
