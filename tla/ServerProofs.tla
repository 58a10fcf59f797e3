---------------------------- MODULE ServerProofs ----------------------------
(***************************************************************************)
(* Proofs about Server, for any number of requests, workers, channel slots *)
(* and chunks.                                                             *)
(***************************************************************************)
EXTENDS Server, SequenceTheorems, TLAPS

(* A send fills a free slot or finds the receiver gone. *)
LEMMA SendType ==
  ASSUME TypeOK, NEW r \in Requests, NEW item \in Items, BlockingSend(r, item)
  PROVE  chan' \in [Requests -> Seq(Items)] /\ \A q \in Requests : Len(chan'[q]) <= Capacity
<1> USE ServerAssumption DEF ServerAssumption, TypeOK
<1>1. CASE Len(chan[r]) < Capacity /\ chan' = [chan EXCEPT ![r] = Append(@, item)]
  <2>1. Append(chan[r], item) \in Seq(Items) /\ Len(Append(chan[r], item)) = Len(chan[r]) + 1
    BY AppendProperties
  <2>2. Len(Append(chan[r], item)) <= Capacity
    BY <1>1, <2>1
  <2> QED
    BY <1>1, <2>1, <2>2
<1>2. CASE UNCHANGED chan
  BY <1>2
<1> QED
  BY <1>1, <1>2 DEF BlockingSend

(* A step keeps the types, and no channel overflows. *)
LEMMA TypeStep ==
  ASSUME ServerInv, [Next]_vars
  PROVE  TypeOK'
<1> USE ServerAssumption DEF ServerAssumption, AllKinds, ServerInv, TypeOK, streamVars, wsVars, Items, ErrItem
<1>1. ASSUME NEW r \in Requests, Start(r) PROVE TypeOK'
  BY <1>1 DEF Start, Goto, Finish
<1>2. ASSUME NEW r \in Requests, Acquire(r) PROVE TypeOK'
  BY <1>2 DEF Acquire, Goto
<1>3. ASSUME NEW r \in Requests, HealthHandler(r) PROVE TypeOK'
  BY <1>3 DEF HealthHandler, InCrit, Finish, Goto, Unlock
<1>4. ASSUME NEW r \in Requests, LoadModelsHandler(r) PROVE TypeOK'
  BY <1>4 DEF LoadModelsHandler, InCrit, Finish, Goto, Unlock
<1>5. ASSUME NEW r \in Requests, UnloadModelsHandler(r) PROVE TypeOK'
  BY <1>5 DEF UnloadModelsHandler, InCrit, Finish, Goto, Unlock
<1>6. ASSUME NEW r \in Requests, TtsHandler(r) PROVE TypeOK'
  BY <1>6 DEF TtsHandler, InCrit, Finish, Goto, Unlock
<1>7. ASSUME NEW r \in Requests, TtsStreamPcmHandler(r) PROVE TypeOK'
  BY <1>7 DEF TtsStreamPcmHandler, InCrit, Finish, Goto, Unlock
<1>8. ASSUME NEW r \in Requests, PollNext(r) PROVE TypeOK'
  <2>1. got' \in [Requests -> Seq(Items)] /\ chan' \in [Requests -> Seq(Items)]
    <3>1. CASE chan[r] # <<>>
      <4>1. Head(chan[r]) \in Items /\ Tail(chan[r]) \in Seq(Items)
        BY <3>1, HeadTailProperties
      <4>2. Append(got[r], Head(chan[r])) \in Seq(Items)
        BY <4>1, AppendProperties
      <4>3. /\ got' = [got EXCEPT ![r] = Append(got[r], Head(chan[r]))]
            /\ chan' = [chan EXCEPT ![r] = Tail(chan[r])]
        BY <1>8, <3>1 DEF PollNext
      <4> QED
        BY <4>1, <4>2, <4>3, Zenon
    <3>2. CASE chan[r] = <<>>
      BY <1>8, <3>2 DEF PollNext
    <3> QED
      BY <3>1, <3>2
  <2>2. \A q \in Requests : Len(chan'[q]) <= Capacity
    <3>1. CASE chan[r] # <<>>
      <4>1. Len(Tail(chan[r])) = Len(chan[r]) - 1 /\ Len(chan[r]) \in Nat /\ Len(chan[r]) <= Capacity
        BY <3>1, HeadTailProperties
      <4>2. chan' = [chan EXCEPT ![r] = Tail(chan[r])]
        BY <1>8, <3>1 DEF PollNext
      <4>3. Len(Tail(chan[r])) <= Capacity
        BY <4>1
      <4> QED
        BY <4>2, <4>3
    <3>2. CASE chan[r] = <<>>
      BY <1>8, <3>2 DEF PollNext
    <3> QED
      BY <3>1, <3>2
  <2>3. \/ UNCHANGED <<task, status>>
        \/ \E s \in {"aborted", "complete"} : Finish(r, s)
    BY <1>8 DEF PollNext
  <2>4. UNCHANGED <<engine, mutex, kind, bg, total, sent, wsVars>>
    BY <1>8 DEF PollNext
  <2>5. task' \in [Requests -> {"new", "ready", "lock", "crit", "drain", "recv", "send", "done"}]
    BY <2>3 DEF Finish, Goto
  <2>6. status' \in [Requests -> {"none", "ok", "badText", "noModels", "failed",
                                "complete", "aborted", "gone"}]
    BY <2>3 DEF Finish, Goto
  <2> QED
    BY <2>1, <2>2, <2>4, <2>5, <2>6
<1>9. ASSUME NEW r \in Requests, WsSynthesize(r) PROVE TypeOK'
  <2>1. frames' \in [Requests -> 0 .. MaxFrames]
    <3>1. \A n \in 1 .. MaxFrames : n \in 0 .. MaxFrames
      OBVIOUS
    <3> QED
      BY <1>9, <3>1 DEF WsSynthesize
  <2>2. task' \in [Requests -> {"new", "ready", "lock", "crit", "drain", "recv", "send", "done"}]
    BY <1>9 DEF WsSynthesize, Goto
  <2> QED
    BY <1>9, <2>1, <2>2 DEF WsSynthesize, Unlock
<1>10. ASSUME NEW r \in Requests, WsSend(r) PROVE TypeOK'
  <2>1. frames' \in [Requests -> 0 .. MaxFrames]
    <3>1. frames[r] - 1 \in 0 .. MaxFrames
      BY <1>10 DEF WsSend, TaskInv
    <3> QED
      BY <1>10, <3>1 DEF WsSend
  <2>2. task' \in [Requests -> {"new", "ready", "lock", "crit", "drain", "recv", "send", "done"}]
    BY <1>10 DEF WsSend, Goto
  <2> QED
    BY <1>10, <2>1, <2>2 DEF WsSend
<1>11. ASSUME NEW r \in Requests, BgAcquire(r) PROVE TypeOK'
  BY <1>11 DEF BgAcquire
<1>12. ASSUME NEW r \in Requests, BgCheck(r) PROVE TypeOK'
  <2>1. total' \in [Requests -> 0 .. MaxChunks]
    <3>1. \A n \in 1 .. MaxChunks : n \in 0 .. MaxChunks
      OBVIOUS
    <3>2. UNCHANGED total \/ \E n \in 1 .. MaxChunks : total' = [total EXCEPT ![r] = n]
      BY <1>12 DEF BgCheck
    <3> QED
      BY <3>1, <3>2
  <2>2. bg' \in [Requests -> {"none", "lock", "check", "run", "fail", "end", "failed"}]
    BY <1>12 DEF BgCheck
  <2> QED
    BY <1>12, <2>1, <2>2 DEF BgCheck
<1>13. ASSUME NEW r \in Requests, BgChunk(r) PROVE TypeOK'
  <2>1. sent[r] + 1 \in Items /\ sent[r] + 1 \in 0 .. MaxChunks
    <3>1. sent[r] < total[r] /\ sent[r] \in 0 .. MaxChunks /\ total[r] \in 0 .. MaxChunks
      BY <1>13 DEF BgChunk
    <3>2. MaxChunks \in Nat
      BY ServerAssumption DEF ServerAssumption
    <3> HIDE ServerAssumption DEF ServerInv, TypeOK, ServerAssumption
    <3> QED
      BY <3>1, <3>2
  <2>2. sent' \in [Requests -> 0 .. MaxChunks]
    BY <1>13, <2>1 DEF BgChunk
  <2>3. BlockingSend(r, sent[r] + 1)
    BY <1>13 DEF BgChunk
  <2>4. chan' \in [Requests -> Seq(Items)] /\ \A q \in Requests : Len(chan'[q]) <= Capacity
    BY <2>1, <2>3, SendType
  <2> QED
    BY <1>13, <2>2, <2>4 DEF BgChunk
<1>14. ASSUME NEW r \in Requests, BgThrows(r) PROVE TypeOK'
  BY <1>14 DEF BgThrows
<1>15. ASSUME NEW r \in Requests, BgReturns(r) PROVE TypeOK'
  BY <1>15 DEF BgReturns, Unlock
<1>16. ASSUME NEW r \in Requests, BgSendsError(r) PROVE TypeOK'
  <2>1. ErrItem \in Items
    OBVIOUS
  <2>2. chan' \in [Requests -> Seq(Items)] /\ \A q \in Requests : Len(chan'[q]) <= Capacity
    BY <1>16, <2>1, SendType DEF BgSendsError
  <2> QED
    BY <1>16, <2>2 DEF BgSendsError, Unlock
<1>17. ASSUME NEW r \in Requests, NEW kd \in Kinds, Arrive(r, kd) PROVE TypeOK'
  BY <1>17 DEF Arrive, Goto
<1>18. ASSUME NEW r \in Requests, ClientGone(r) PROVE TypeOK'
  <2>1. chan' \in [Requests -> Seq(Items)] /\ \A q \in Requests : Len(chan'[q]) <= Capacity
    <3>1. <<>> \in Seq(Items) /\ Len(<<>>) <= Capacity
      OBVIOUS
    <3> QED
      BY <1>18, <3>1 DEF ClientGone
  <2>2. task' \in [Requests -> {"new", "ready", "lock", "crit", "drain", "recv", "send", "done"}]
    BY <1>18 DEF ClientGone, Finish, Goto
  <2>3. status' \in [Requests -> {"none", "ok", "badText", "noModels", "failed",
                                "complete", "aborted", "gone"}]
    BY <1>18 DEF ClientGone, Finish
  <2> QED
    BY <1>18, <2>1, <2>2, <2>3 DEF ClientGone
<1>19. ASSUME NEW r \in Requests, WsRecv(r) PROVE TypeOK'
  <2>1. msgs' \in [Requests -> 0 .. MaxMsgs]
    <3>1. msgs' = [msgs EXCEPT ![r] = @ + 1] /\ msgs[r] < MaxMsgs
      BY <1>19 DEF WsRecv
    <3>2. msgs[r] \in 0 .. MaxMsgs /\ MaxMsgs \in Nat
      OBVIOUS
    <3>3. msgs[r] + 1 \in 0 .. MaxMsgs
      BY <3>1, <3>2
    <3> QED
      BY <3>1, <3>3
  <2>2. task' \in [Requests -> {"new", "ready", "lock", "crit", "drain", "recv", "send", "done"}]
    BY <1>19 DEF WsRecv, Goto
  <2> QED
    BY <1>19, <2>1, <2>2 DEF WsRecv
<1>20. ASSUME NEW r \in Requests, WsClose(r) PROVE TypeOK'
  <2>1. frames' \in [Requests -> 0 .. MaxFrames]
    <3>1. 0 \in 0 .. MaxFrames
      OBVIOUS
    <3> QED
      BY <1>20, <3>1 DEF WsClose
  <2>2. task' \in [Requests -> {"new", "ready", "lock", "crit", "drain", "recv", "send", "done"}]
    BY <1>20 DEF WsClose, Finish, Goto
  <2>3. status' \in [Requests -> {"none", "ok", "badText", "noModels", "failed",
                                "complete", "aborted", "gone"}]
    BY <1>20 DEF WsClose, Finish
  <2> QED
    BY <1>20, <2>1, <2>2, <2>3 DEF WsClose
<1>21. CASE UNCHANGED vars
  BY <1>21 DEF vars
<1> QED
  BY <1>1, <1>2, <1>3, <1>4, <1>5, <1>6, <1>7, <1>8, <1>9, <1>10, <1>11,
     <1>12, <1>13, <1>14, <1>15, <1>16, <1>17, <1>18, <1>19, <1>20, <1>21
     DEF Next, Handler, BlockingTask, Client, Finished

(* A step keeps the mutex with one holder, and an engine under its work. *)
LEMMA HolderStep ==
  ASSUME ServerInv, [Next]_vars
  PROVE  OneHolder'
<1> USE DEF OneHolder, HoldsMutex, streamVars, wsVars
<1>0. /\ OneHolder
      /\ NoOne \notin Requests /\ "none" \notin Modes
      /\ DOMAIN task = Requests /\ DOMAIN bg = Requests
      /\ task = [q \in Requests |-> task[q]] /\ bg = [q \in Requests |-> bg[q]]
      /\ \A q \in Requests : bg[q] # "none" => task[q] \in {"drain", "done"}
  BY ServerAssumption DEF ServerAssumption, ServerInv, TypeOK, TaskInv
<1>1. ASSUME NEW r \in Requests, Start(r) PROVE OneHolder'
  BY <1>0, <1>1 DEF Start, Goto, Finish
<1>2. ASSUME NEW r \in Requests, Acquire(r) PROVE OneHolder'
  BY <1>0, <1>2 DEF Acquire, Goto
<1>3. ASSUME NEW r \in Requests, HealthHandler(r) PROVE OneHolder'
  BY <1>0, <1>3 DEF HealthHandler, InCrit, Finish, Goto, Unlock
<1>4. ASSUME NEW r \in Requests, LoadModelsHandler(r) PROVE OneHolder'
  BY <1>0, <1>4 DEF LoadModelsHandler, InCrit, Finish, Goto, Unlock
<1>5. ASSUME NEW r \in Requests, UnloadModelsHandler(r) PROVE OneHolder'
  BY <1>0, <1>5 DEF UnloadModelsHandler, InCrit, Finish, Goto, Unlock
<1>6. ASSUME NEW r \in Requests, TtsHandler(r) PROVE OneHolder'
  BY <1>0, <1>6 DEF TtsHandler, InCrit, Finish, Goto, Unlock
<1>7. ASSUME NEW r \in Requests, TtsStreamPcmHandler(r) PROVE OneHolder'
  <2>1. CASE engine = "none" /\ Finish(r, "noModels") /\ UNCHANGED bg
    BY <1>0, <1>7, <2>1 DEF TtsStreamPcmHandler, InCrit, Finish, Goto, Unlock
  <2>2. CASE engine # "none" /\ Goto(r, "drain") /\ bg' = [bg EXCEPT ![r] = "lock"] /\ UNCHANGED status
    BY <1>0, <1>7, <2>2 DEF TtsStreamPcmHandler, InCrit, Goto, Unlock
  <2> QED
    BY <1>7, <2>1, <2>2 DEF TtsStreamPcmHandler
<1>8. ASSUME NEW r \in Requests, PollNext(r) PROVE OneHolder'
  BY <1>0, <1>8 DEF PollNext, Finish, Goto
<1>9. ASSUME NEW r \in Requests, WsSynthesize(r) PROVE OneHolder'
  BY <1>0, <1>9 DEF WsSynthesize, InCrit, Goto, Unlock
<1>10. ASSUME NEW r \in Requests, WsSend(r) PROVE OneHolder'
  BY <1>0, <1>10 DEF WsSend, Goto
<1>11. ASSUME NEW r \in Requests, BgAcquire(r) PROVE OneHolder'
  BY <1>0, <1>11 DEF BgAcquire
<1>12. ASSUME NEW r \in Requests, BgCheck(r) PROVE OneHolder'
  BY <1>0, <1>12 DEF BgCheck
<1>13. ASSUME NEW r \in Requests, BgChunk(r) PROVE OneHolder'
  BY <1>0, <1>13 DEF BgChunk, BlockingSend, ReceiverAlive
<1>14. ASSUME NEW r \in Requests, BgThrows(r) PROVE OneHolder'
  BY <1>0, <1>14 DEF BgThrows
<1>15. ASSUME NEW r \in Requests, BgReturns(r) PROVE OneHolder'
  BY <1>0, <1>15 DEF BgReturns, Unlock
<1>16. ASSUME NEW r \in Requests, BgSendsError(r) PROVE OneHolder'
  BY <1>0, <1>16 DEF BgSendsError, BlockingSend, ReceiverAlive, Unlock
<1>17. ASSUME NEW r \in Requests, NEW kd \in Kinds, Arrive(r, kd) PROVE OneHolder'
  BY <1>0, <1>17 DEF Arrive, Goto
<1>18. ASSUME NEW r \in Requests, ClientGone(r) PROVE OneHolder'
  BY <1>0, <1>18 DEF ClientGone, Finish, Goto
<1>19. ASSUME NEW r \in Requests, WsRecv(r) PROVE OneHolder'
  BY <1>0, <1>19 DEF WsRecv, Goto
<1>20. ASSUME NEW r \in Requests, WsClose(r) PROVE OneHolder'
  BY <1>0, <1>20 DEF WsClose, Finish, Goto
<1>21. CASE UNCHANGED vars
  BY <1>0, <1>21 DEF vars
<1> QED
  BY <1>1, <1>2, <1>3, <1>4, <1>5, <1>6, <1>7, <1>8, <1>9, <1>10, <1>11,
     <1>12, <1>13, <1>14, <1>15, <1>16, <1>17, <1>18, <1>19, <1>20, <1>21
     DEF Next, Handler, BlockingTask, Client, Finished

(* The items queued and received are numbers, or an error at the end. *)
LEMMA QueueShape ==
  ASSUME ServerInv, NEW r \in Requests, task[r] = "drain"
  PROVE  /\ sent[r] \in Nat /\ sent[r] <= MaxChunks
         /\ UpTo(sent[r]) \in Seq(Items) /\ Len(UpTo(sent[r])) = sent[r]
         /\ \A i \in 1 .. sent[r] : UpTo(sent[r])[i] = i
         /\ got[r] \in Seq(Items) /\ chan[r] \in Seq(Items)
<1>1. sent[r] \in Nat /\ sent[r] <= MaxChunks /\ MaxChunks \in Nat
  BY ServerAssumption DEF ServerAssumption, ServerInv, TypeOK
<1>2. \A i \in 1 .. sent[r] : i \in Items
  BY <1>1 DEF Items
<1>3. UpTo(sent[r]) \in Seq(Items) /\ Len(UpTo(sent[r])) = sent[r]
  BY <1>1, <1>2 DEF UpTo
<1> QED
  BY <1>1, <1>3 DEF UpTo, ServerInv, TypeOK

(* Nothing is queued behind an error. *)
LEMMA ErrorIsLast ==
  ASSUME ServerInv, NEW r \in Requests, task[r] = "drain",
         chan[r] # <<>>, Head(chan[r]) = ErrItem
  PROVE  Tail(chan[r]) = <<>> /\ bg[r] = "failed"
<1> DEFINE n == sent[r]
           U == UpTo(n)
           g == got[r]
           c == chan[r]
<1>1. /\ n \in Nat /\ U \in Seq(Items) /\ Len(U) = n /\ \A i \in 1 .. n : U[i] = i
      /\ g \in Seq(Items) /\ c \in Seq(Items)
  BY QueueShape
<1>2. c # <<>> /\ c[1] = 0 /\ Len(c) \in Nat \ {0} /\ Len(g) \in Nat
  BY <1>1 DEF ErrItem
<1>3. bg[r] # "failed" => g \o c = U
  BY DEF ServerInv, ChannelInv, InOrder
<1>4. bg[r] = "failed" => g \o c = Append(U, 0)
  BY DEF ServerInv, ChannelInv, InOrder, ErrItem
<1> HIDE DEF n, U, g, c
<1>5. /\ Len(g \o c) = Len(g) + Len(c)
      /\ (g \o c)[Len(g) + 1] = 0
  <2>1. \A i \in 1 .. Len(g) + Len(c) : (g \o c)[i] = IF i <= Len(g) THEN g[i] ELSE c[i - Len(g)]
    BY <1>1, ConcatProperties
  <2>2. Len(g) + 1 \in 1 .. Len(g) + Len(c) /\ ~(Len(g) + 1 <= Len(g)) /\ Len(g) + 1 - Len(g) = 1
    BY <1>2
  <2>3. Len(g \o c) = Len(g) + Len(c)
    BY <1>1, ConcatProperties
  <2> QED
    BY <1>2, <2>1, <2>2, <2>3
<1>6. bg[r] = "failed"
  <2> SUFFICES ASSUME g \o c = U PROVE FALSE
    BY <1>3
  <2>1. Len(g) + 1 \in 1 .. n
    BY <1>1, <1>2, <1>5
  <2>2. U[Len(g) + 1] = Len(g) + 1
    BY <1>1, <2>1
  <2> QED
    BY <1>2, <1>5, <2>2
<1>7. g \o c = Append(U, 0)
  BY <1>4, <1>6
<1>8. 0 \in Items
  BY ServerAssumption DEF ServerAssumption, Items
<1>9. Len(g) + Len(c) = n + 1 /\ \A i \in 1 .. n : Append(U, 0)[i] = i
  BY <1>1, <1>5, <1>7, <1>8, AppendProperties
<1>10. ~(Len(g) + 1 <= n)
  <2> SUFFICES ASSUME Len(g) + 1 <= n PROVE FALSE
    OBVIOUS
  <2>1. Len(g) + 1 \in 1 .. n
    BY <1>1, <1>2
  <2>2. Append(U, 0)[Len(g) + 1] = Len(g) + 1
    BY <1>9, <2>1
  <2> QED
    BY <1>2, <1>5, <1>7, <2>2
<1>11. Len(c) = 1
  <2>1. n \in Nat
    BY <1>1
  <2>2. Len(g) + Len(c) = n + 1
    BY <1>9
  <2> QED
    BY <1>2, <1>10, <2>1, <2>2
<1>12. Tail(c) \in Seq(Items) /\ Len(Tail(c)) = 0
  BY <1>1, <1>2, <1>11, HeadTailProperties
<1>13. Tail(c) = <<>>
  BY <1>12, EmptySeq
<1> QED
  BY <1>6, <1>13 DEF c

(* A handler without a blocking task may go wherever it is not polled. *)
LEMMA HandlerStep ==
  ASSUME ServerInv, NEW r \in Requests, task[r] \in {"ready", "crit"},
         NEW state \in {"lock", "recv", "send", "done"}, task' = [task EXCEPT ![r] = state],
         UNCHANGED status \/ (state = "done" /\ \E how : status' = [status EXCEPT ![r] = how]),
         UNCHANGED streamVars,
         \A q \in Requests : q # r => frames'[q] = frames[q], state = "send" => frames'[r] > 0
  PROVE  TaskInv'
<1> USE DEF ServerInv, TypeOK, streamVars
<1>1. bg[r] = "none" /\ chan[r] = <<>> /\ got[r] = <<>> /\ sent[r] = 0 /\ total[r] = 0 /\ status[r] = "none"
  BY DEF TaskInv
<1>2. task'[r] = state /\ (state # "done" => status'[r] = "none")
  BY <1>1
<1>3. \A q \in Requests : q # r => task'[q] = task[q] /\ status'[q] = status[q]
  OBVIOUS
<1>4. UNCHANGED <<bg, chan, total, sent, got>>
  OBVIOUS
<1> HIDE DEF ServerInv, TypeOK, streamVars
<1>5. TaskInv
  BY DEF ServerInv
<1>6. ASSUME NEW q \in Requests, q # r
      PROVE  task'[q] = task[q] /\ status'[q] = status[q] /\ (frames'[q] = frames[q])
  BY <1>3, <1>6
<1> QED
  BY <1>1, <1>2, <1>4, <1>5, <1>6 DEF TaskInv

(* A step keeps blocking tasks tied to their responses. *)
LEMMA TaskStep ==
  ASSUME ServerInv, [Next]_vars
  PROVE  TaskInv'
<1> USE DEF ServerInv, TypeOK, TaskInv, streamVars, wsVars
<1>1. ASSUME NEW r \in Requests, Start(r) PROVE TaskInv'
  <2>1. task[r] = "ready" /\ UNCHANGED streamVars
    BY <1>1 DEF Start
  <2>2. PICK state \in {"lock", "done"} :
           /\ task' = [task EXCEPT ![r] = state]
           /\ \/ UNCHANGED status
              \/ state = "done" /\ status' = [status EXCEPT ![r] = "badText"]
    BY <1>1 DEF Start, Goto, Finish
  <2>3. UNCHANGED frames
    BY <1>1 DEF Start
  <2> HIDE DEF ServerInv, TypeOK, TaskInv, streamVars, wsVars
  <2> QED
    BY <2>1, <2>2, <2>3, HandlerStep
<1>2. ASSUME NEW r \in Requests, Acquire(r) PROVE TaskInv'
  BY <1>2 DEF Acquire, Goto
<1>3. ASSUME NEW r \in Requests, HealthHandler(r) PROVE TaskInv'
  BY <1>3 DEF HealthHandler, InCrit, Finish, Goto, Unlock
<1>4. ASSUME NEW r \in Requests, LoadModelsHandler(r) PROVE TaskInv'
  <2>1. Finish(r, "ok") \/ Finish(r, "failed")
    BY <1>4 DEF LoadModelsHandler
  <2>2. UNCHANGED <<bg, chan, total, sent, got, frames>> /\ task[r] = "crit"
    BY <1>4 DEF LoadModelsHandler, InCrit
  <2> QED
    BY <2>1, <2>2 DEF Finish, Goto
<1>5. ASSUME NEW r \in Requests, UnloadModelsHandler(r) PROVE TaskInv'
  BY <1>5 DEF UnloadModelsHandler, InCrit, Finish, Goto, Unlock
<1>6. ASSUME NEW r \in Requests, TtsHandler(r) PROVE TaskInv'
  BY <1>6 DEF TtsHandler, InCrit, Finish, Goto, Unlock
<1>7. ASSUME NEW r \in Requests, TtsStreamPcmHandler(r) PROVE TaskInv'
  <2>1. CASE engine = "none" /\ Finish(r, "noModels") /\ UNCHANGED bg
    BY <1>7, <2>1 DEF TtsStreamPcmHandler, InCrit, Finish, Goto, Unlock
  <2>2. CASE engine # "none" /\ Goto(r, "drain") /\ bg' = [bg EXCEPT ![r] = "lock"] /\ UNCHANGED status
    BY <1>7, <2>2 DEF TtsStreamPcmHandler, InCrit, Goto, Unlock
  <2> QED
    BY <1>7, <2>1, <2>2 DEF TtsStreamPcmHandler
<1>8. ASSUME NEW r \in Requests, PollNext(r) PROVE TaskInv'
  <2>1. task[r] = "drain" /\ UNCHANGED <<bg, total, sent, frames>> /\ bg[r] # "none"
    BY <1>8 DEF PollNext
  <2>2. CASE chan[r] # <<>> /\ Head(chan[r]) # ErrItem
    <3>1. /\ UNCHANGED <<task, status>>
          /\ \A q \in Requests : q # r => chan'[q] = chan[q] /\ got'[q] = got[q]
      BY <1>8, <2>2 DEF PollNext
    <3> QED
      BY <2>1, <3>1
  <2>3. CASE chan[r] # <<>> /\ Head(chan[r]) = ErrItem
    <3>1. /\ task' = [task EXCEPT ![r] = "done"] /\ status' = [status EXCEPT ![r] = "aborted"]
          /\ \A q \in Requests : q # r => chan'[q] = chan[q] /\ got'[q] = got[q]
          /\ chan'[r] = Tail(chan[r])
      BY <1>8, <2>3 DEF PollNext, Finish, Goto
    <3>2. Tail(chan[r]) = <<>>
      BY <2>1, <2>3, ErrorIsLast
    <3> QED
      BY <2>1, <3>1, <3>2
  <2>4. CASE chan[r] = <<>>
    <3>1. /\ task' = [task EXCEPT ![r] = "done"] /\ status' = [status EXCEPT ![r] = "complete"]
          /\ UNCHANGED <<chan, got>>
      BY <1>8, <2>4 DEF PollNext, Finish, Goto
    <3> QED
      BY <2>1, <2>4, <3>1
  <2> QED
    BY <2>2, <2>3, <2>4
<1>9. ASSUME NEW r \in Requests, WsSynthesize(r) PROVE TaskInv'
  <2>1. task[r] = "crit" /\ UNCHANGED <<status, streamVars>>
    BY <1>9 DEF WsSynthesize, InCrit
  <2>2. PICK state \in {"recv", "send"} :
           /\ task' = [task EXCEPT ![r] = state]
           /\ \/ state = "recv" /\ UNCHANGED frames
              \/ state = "send" /\ \E n \in 1 .. MaxFrames : frames' = [frames EXCEPT ![r] = n]
    BY <1>9 DEF WsSynthesize, Goto
  <2>3. \A q \in Requests : q # r => frames'[q] = frames[q]
    BY <2>2
  <2>4. state = "send" => frames'[r] > 0
    BY <2>2
  <2> HIDE DEF ServerInv, TypeOK, TaskInv, streamVars, wsVars
  <2> QED
    BY <2>1, <2>2, <2>3, <2>4, HandlerStep
<1>10. ASSUME NEW r \in Requests, WsSend(r) PROVE TaskInv'
  BY <1>10 DEF WsSend, Goto
<1>11. ASSUME NEW r \in Requests, BgAcquire(r) PROVE TaskInv'
  BY <1>11 DEF BgAcquire
<1>12. ASSUME NEW r \in Requests, BgCheck(r) PROVE TaskInv'
  BY <1>12 DEF BgCheck
<1>13. ASSUME NEW r \in Requests, BgChunk(r) PROVE TaskInv'
  <2>1. /\ task[r] = "drain" \/ chan'[r] = chan[r]
        /\ bg[r] = "run" /\ sent[r] + 1 <= total[r] /\ sent' = [sent EXCEPT ![r] = sent[r] + 1]
        /\ UNCHANGED <<task, status, bg, total, got, frames>>
        /\ \A q \in Requests : q # r => chan'[q] = chan[q]
    BY <1>13 DEF BgChunk, BlockingSend, ReceiverAlive
  <2>2. task[r] \in {"drain", "done"}
    BY <2>1
  <2>3. task[r] = "done" => chan'[r] = chan[r]
    BY <2>1
  <2>4. sent'[r] <= total[r] /\ \A q \in Requests : q # r => sent'[q] = sent[q]
    BY <2>1
  <2> QED
    BY <2>1, <2>2, <2>3, <2>4
<1>14. ASSUME NEW r \in Requests, BgThrows(r) PROVE TaskInv'
  BY <1>14 DEF BgThrows
<1>15. ASSUME NEW r \in Requests, BgReturns(r) PROVE TaskInv'
  BY <1>15 DEF BgReturns, Unlock
<1>16. ASSUME NEW r \in Requests, BgSendsError(r) PROVE TaskInv'
  BY <1>16 DEF BgSendsError, BlockingSend, ReceiverAlive, Unlock
<1>17. ASSUME NEW r \in Requests, NEW kd \in Kinds, Arrive(r, kd) PROVE TaskInv'
  BY <1>17 DEF Arrive, Goto
<1>18. ASSUME NEW r \in Requests, ClientGone(r) PROVE TaskInv'
  BY <1>18 DEF ClientGone, Finish, Goto
<1>19. ASSUME NEW r \in Requests, WsRecv(r) PROVE TaskInv'
  BY <1>19 DEF WsRecv, Goto
<1>20. ASSUME NEW r \in Requests, WsClose(r) PROVE TaskInv'
  BY <1>20 DEF WsClose, Finish, Goto
<1>21. CASE UNCHANGED vars
  BY <1>21 DEF vars
<1> QED
  BY <1>1, <1>2, <1>3, <1>4, <1>5, <1>6, <1>7, <1>8, <1>9, <1>10, <1>11,
     <1>12, <1>13, <1>14, <1>15, <1>16, <1>17, <1>18, <1>19, <1>20, <1>21
     DEF Next, Handler, BlockingTask, Client, Finished

(* Sequences: appending to the second of two, and moving a head over. *)
LEMMA AppendToSecond ==
  ASSUME NEW S, NEW s \in Seq(S), NEW t \in Seq(S), NEW x \in S
  PROVE  s \o Append(t, x) = Append(s \o t, x)
<1>1. <<x>> \in Seq(S) /\ s \o t \in Seq(S)
  BY ConcatProperties
<1>2. Append(t, x) = t \o <<x>> /\ Append(s \o t, x) = (s \o t) \o <<x>>
  BY <1>1, AppendIsConcat
<1> QED
  BY <1>1, <1>2, ConcatAssociative

LEMMA MoveHead ==
  ASSUME NEW S, NEW s \in Seq(S), NEW t \in Seq(S), t # <<>>
  PROVE  Append(s, Head(t)) \o Tail(t) = s \o t
<1>1. Head(t) \in S /\ Tail(t) \in Seq(S) /\ <<Head(t)>> \in Seq(S)
  BY HeadTailProperties
<1>2. Append(s, Head(t)) = s \o <<Head(t)>>
  BY <1>1, AppendIsConcat
<1>3. <<Head(t)>> \o Tail(t) = t
  BY <1>1, HeadTailAppend
<1> QED
  BY <1>1, <1>2, <1>3, ConcatAssociative

(* The chunks sent, and one more. *)
LEMMA UpToNext ==
  ASSUME NEW n \in Nat
  PROVE  Append(UpTo(n), n + 1) = UpTo(n + 1)
<1>1. UpTo(n) \in Seq(Nat) /\ UpTo(n + 1) \in Seq(Nat) /\ Len(UpTo(n)) = n
  BY DEF UpTo
<1> QED
  BY <1>1 DEF UpTo

(* A step keeps the chunks of a response in order. *)
LEMMA ChannelStep ==
  ASSUME ServerInv, [Next]_vars
  PROVE  ChannelInv'
<1> USE DEF ChannelInv, streamVars, wsVars
<1>0. /\ ChannelInv
      /\ DOMAIN task = Requests /\ DOMAIN bg = Requests /\ DOMAIN chan = Requests
      /\ DOMAIN got = Requests /\ DOMAIN sent = Requests
      /\ task = [q \in Requests |-> task[q]] /\ bg = [q \in Requests |-> bg[q]]
      /\ chan = [q \in Requests |-> chan[q]] /\ got = [q \in Requests |-> got[q]]
      /\ sent = [q \in Requests |-> sent[q]]
      /\ \A q \in Requests : /\ got[q] \in Seq(Items) /\ chan[q] \in Seq(Items)
                               /\ sent[q] \in 0 .. MaxChunks /\ sent[q] <= total[q] /\ total[q] \in 0 .. MaxChunks
      /\ \A q \in Requests : bg[q] \in {"none", "lock", "check"} => sent[q] = 0
      /\ \A q \in Requests : bg[q] = "none" => task[q] # "drain" /\ chan[q] = <<>> /\ got[q] = <<>>
      /\ \A q \in Requests : bg[q] # "none" => task[q] \in {"drain", "done"}
  BY DEF ServerInv, TypeOK, TaskInv
<1>1. ASSUME NEW r \in Requests, Start(r) PROVE ChannelInv'
  BY <1>0, <1>1 DEF Start, Goto, Finish
<1>2. ASSUME NEW r \in Requests, Acquire(r) PROVE ChannelInv'
  BY <1>0, <1>2 DEF Acquire, Goto
<1>3. ASSUME NEW r \in Requests, HealthHandler(r) PROVE ChannelInv'
  BY <1>0, <1>3 DEF HealthHandler, InCrit, Finish, Goto, Unlock
<1>4. ASSUME NEW r \in Requests, LoadModelsHandler(r) PROVE ChannelInv'
  BY <1>0, <1>4 DEF LoadModelsHandler, InCrit, Finish, Goto, Unlock
<1>5. ASSUME NEW r \in Requests, UnloadModelsHandler(r) PROVE ChannelInv'
  BY <1>0, <1>5 DEF UnloadModelsHandler, InCrit, Finish, Goto, Unlock
<1>6. ASSUME NEW r \in Requests, TtsHandler(r) PROVE ChannelInv'
  BY <1>0, <1>6 DEF TtsHandler, InCrit, Finish, Goto, Unlock
<1>7. ASSUME NEW r \in Requests, TtsStreamPcmHandler(r) PROVE ChannelInv'
  <2>1. UNCHANGED <<got, chan, sent>> /\ task[r] = "crit"
    BY <1>0, <1>7 DEF TtsStreamPcmHandler, InCrit
  <2>2. \A q \in Requests : q # r => task'[q] = task[q] /\ bg'[q] = bg[q]
    BY <1>0, <1>7 DEF TtsStreamPcmHandler, Finish, Goto
  <2>3. bg[r] = "none" /\ got[r] = <<>> /\ chan[r] = <<>> /\ sent[r] = 0
    BY <1>0, <2>1
  <2>4. task'[r] = "drain" => bg'[r] = "lock"
    BY <1>0, <1>7 DEF TtsStreamPcmHandler, Finish, Goto
  <2>5. InOrder(<<>>, <<>>, 0, "lock")
    <3>1. <<>> \o <<>> = UpTo(0) /\ Len(<<>>) = 0
      BY DEF UpTo
    <3> QED
      BY <3>1 DEF InOrder
  <2> QED
    BY <1>0, <2>1, <2>2, <2>3, <2>4, <2>5
<1>8. ASSUME NEW r \in Requests, PollNext(r) PROVE ChannelInv'
  <2>1. UNCHANGED <<bg, sent>> /\ task[r] = "drain"
    BY <1>0, <1>8 DEF PollNext
  <2>2. CASE UNCHANGED <<chan, got>> /\ \E s \in {"aborted", "complete"} : Finish(r, s)
    BY <1>0, <2>1, <2>2 DEF Finish, Goto
  <2>3. CASE /\ chan[r] # <<>>
             /\ got' = [got EXCEPT ![r] = Append(got[r], Head(chan[r]))]
             /\ chan' = [chan EXCEPT ![r] = Tail(chan[r])]
             /\ IF Head(chan[r]) = ErrItem THEN Finish(r, "aborted") ELSE UNCHANGED <<task, status>>
    <3>1. CASE Head(chan[r]) = ErrItem
      <4>1. /\ task' = [task EXCEPT ![r] = "done"] /\ task'[r] = "done"
            /\ \A q \in Requests : q # r => got'[q] = got[q] /\ chan'[q] = chan[q] /\ task'[q] = task[q]
        BY <1>0, <2>3, <3>1 DEF Finish, Goto
      <4> QED
        BY <1>0, <2>1, <4>1
    <3>2. CASE Head(chan[r]) # ErrItem
      <4>1. Head(chan[r]) \in Items
        BY <1>0, <2>3, HeadTailProperties
      <4>2. got'[r] \o chan'[r] = got[r] \o chan[r]
        <5>1. got'[r] = Append(got[r], Head(chan[r])) /\ chan'[r] = Tail(chan[r])
          BY <1>0, <2>3
        <5>2. Append(got[r], Head(chan[r])) \o Tail(chan[r]) = got[r] \o chan[r]
          BY <1>0, <2>3, MoveHead
        <5> QED
          BY <5>1, <5>2
      <4>3. \A i \in 1 .. Len(got'[r]) : got'[r][i] # ErrItem
        <5>1. /\ Len(Append(got[r], Head(chan[r]))) = Len(got[r]) + 1
              /\ Append(got[r], Head(chan[r]))[Len(got[r]) + 1] = Head(chan[r])
              /\ \A i \in 1 .. Len(got[r]) : Append(got[r], Head(chan[r]))[i] = got[r][i]
          BY <4>1, AppendProperties
        <5>2. \A i \in 1 .. Len(got[r]) + 1 : i = Len(got[r]) + 1 \/ i \in 1 .. Len(got[r])
          <6>1. Len(got[r]) \in Nat
            BY <1>0, LenProperties
          <6> QED
            BY <6>1
        <5>3. got'[r] = Append(got[r], Head(chan[r]))
          BY <1>0, <2>3
        <5>4. \A i \in 1 .. Len(got[r]) : got[r][i] # ErrItem
          BY <1>0, <2>1 DEF InOrder
        <5> QED
          BY <1>0, <3>2, <5>1, <5>2, <5>3, <5>4
      <4>4. /\ UNCHANGED task
            /\ \A q \in Requests : q # r => got'[q] = got[q] /\ chan'[q] = chan[q]
        BY <1>0, <2>3, <3>2
      <4> QED
        <5>1. InOrder(got'[r], chan'[r], sent'[r], bg'[r])
          BY <1>0, <2>1, <4>2, <4>3 DEF InOrder
        <5> QED
          BY <1>0, <2>1, <4>4, <5>1
    <3> QED
      BY <1>0, <3>1, <3>2
  <2> QED
    BY <1>0, <1>8, <2>2, <2>3 DEF PollNext
<1>9. ASSUME NEW r \in Requests, WsSynthesize(r) PROVE ChannelInv'
  BY <1>0, <1>9 DEF WsSynthesize, InCrit, Goto, Unlock
<1>10. ASSUME NEW r \in Requests, WsSend(r) PROVE ChannelInv'
  BY <1>0, <1>10 DEF WsSend, Goto
<1>11. ASSUME NEW r \in Requests, BgAcquire(r) PROVE ChannelInv'
  <2>1. UNCHANGED <<got, chan, sent>>
    BY <1>0, <1>11 DEF BgAcquire
  <2>2. \A q \in Requests : task'[q] = "drain" => task[q] = "drain" /\ bg'[q] \in {bg[q]} \cup {"check", "run", "fail", "end"}
    BY <1>0, <1>11 DEF BgAcquire
  <2>3. \A q \in Requests : task'[q] = "drain" => (bg'[q] = "failed" <=> bg[q] = "failed")
    BY <1>0, <1>11, <2>2 DEF BgAcquire
  <2> QED
    BY <1>0, <2>1, <2>2, <2>3 DEF InOrder
<1>12. ASSUME NEW r \in Requests, BgCheck(r) PROVE ChannelInv'
  <2>1. UNCHANGED <<got, chan, sent>>
    BY <1>0, <1>12 DEF BgCheck
  <2>2. \A q \in Requests : task'[q] = "drain" => task[q] = "drain" /\ bg'[q] \in {bg[q]} \cup {"check", "run", "fail", "end"}
    BY <1>0, <1>12 DEF BgCheck
  <2>3. \A q \in Requests : task'[q] = "drain" => (bg'[q] = "failed" <=> bg[q] = "failed")
    BY <1>0, <1>12, <2>2 DEF BgCheck
  <2> QED
    BY <1>0, <2>1, <2>2, <2>3 DEF InOrder
<1>13. ASSUME NEW r \in Requests, BgChunk(r) PROVE ChannelInv'
  <2>1. /\ bg[r] = "run" /\ sent' = [sent EXCEPT ![r] = sent[r] + 1]
        /\ UNCHANGED <<task, bg, got>>
        /\ \A q \in Requests : q # r => chan'[q] = chan[q] /\ sent'[q] = sent[q]
        /\ task[r] = "drain" => chan' = [chan EXCEPT ![r] = Append(chan[r], sent[r] + 1)]
        /\ sent[r] + 1 \in Items /\ sent[r] \in Nat /\ sent'[r] = sent[r] + 1
    BY <1>0, <1>13, ServerAssumption DEF BgChunk, BlockingSend, ReceiverAlive, Items, ServerAssumption
  <2>2. ASSUME task[r] = "drain" PROVE InOrder(got'[r], chan'[r], sent'[r], bg'[r])
    <3>1. got[r] \o chan[r] = UpTo(sent[r])
      BY <1>0, <2>1, <2>2 DEF InOrder
    <3>2. got[r] \o Append(chan[r], sent[r] + 1) = Append(got[r] \o chan[r], sent[r] + 1)
      BY <1>0, <2>1, AppendToSecond
    <3> QED
      <4>1. chan'[r] = Append(chan[r], sent[r] + 1)
        BY <1>0, <2>1, <2>2
      <4>2. got[r] \o chan'[r] = UpTo(sent'[r])
        BY <2>1, <3>1, <3>2, <4>1, UpToNext
      <4>3. /\ \A i \in 1 .. Len(got[r]) : got[r][i] # ErrItem
            /\ bg'[r] = "run" /\ got'[r] = got[r]
        BY <1>0, <2>1, <2>2 DEF InOrder
      <4> QED
        BY <4>2, <4>3 DEF InOrder
  <2> QED
    BY <1>0, <2>1, <2>2
<1>14. ASSUME NEW r \in Requests, BgThrows(r) PROVE ChannelInv'
  <2>1. UNCHANGED <<got, chan, sent>>
    BY <1>0, <1>14 DEF BgThrows
  <2>2. \A q \in Requests : task'[q] = "drain" => task[q] = "drain" /\ bg'[q] \in {bg[q]} \cup {"check", "run", "fail", "end"}
    BY <1>0, <1>14 DEF BgThrows
  <2>3. \A q \in Requests : task'[q] = "drain" => (bg'[q] = "failed" <=> bg[q] = "failed")
    BY <1>0, <1>14, <2>2 DEF BgThrows
  <2> QED
    BY <1>0, <2>1, <2>2, <2>3 DEF InOrder
<1>15. ASSUME NEW r \in Requests, BgReturns(r) PROVE ChannelInv'
  <2>1. UNCHANGED <<got, chan, sent>>
    BY <1>0, <1>15 DEF BgReturns
  <2>2. \A q \in Requests : task'[q] = "drain" => task[q] = "drain" /\ bg'[q] \in {bg[q]} \cup {"check", "run", "fail", "end"}
    BY <1>0, <1>15 DEF BgReturns
  <2>3. \A q \in Requests : task'[q] = "drain" => (bg'[q] = "failed" <=> bg[q] = "failed")
    BY <1>0, <1>15, <2>2 DEF BgReturns
  <2> QED
    BY <1>0, <2>1, <2>2, <2>3 DEF InOrder
<1>16. ASSUME NEW r \in Requests, BgSendsError(r) PROVE ChannelInv'
  <2>1. /\ bg[r] = "fail" /\ bg' = [bg EXCEPT ![r] = "failed"]
        /\ UNCHANGED <<task, sent, got>>
        /\ \A q \in Requests : q # r => chan'[q] = chan[q] /\ bg'[q] = bg[q]
        /\ task[r] = "drain" => chan' = [chan EXCEPT ![r] = Append(chan[r], ErrItem)]
        /\ ErrItem \in Items /\ bg'[r] = "failed"
    BY <1>0, <1>16, ServerAssumption DEF BgSendsError, BlockingSend, ReceiverAlive, Items, ErrItem, ServerAssumption
  <2>2. ASSUME task[r] = "drain" PROVE InOrder(got'[r], chan'[r], sent'[r], bg'[r])
    <3>1. got[r] \o chan[r] = UpTo(sent[r])
      BY <1>0, <2>1, <2>2 DEF InOrder
    <3>2. got[r] \o Append(chan[r], ErrItem) = Append(got[r] \o chan[r], ErrItem)
      BY <1>0, <2>1, AppendToSecond
    <3> QED
      <4>1. chan'[r] = Append(chan[r], ErrItem)
        BY <1>0, <2>1, <2>2
      <4>2. got[r] \o chan'[r] = Append(UpTo(sent[r]), ErrItem)
        BY <3>1, <3>2, <4>1
      <4>3. /\ \A i \in 1 .. Len(got[r]) : got[r][i] # ErrItem
            /\ bg'[r] = "failed" /\ got'[r] = got[r] /\ sent'[r] = sent[r]
        BY <1>0, <2>1, <2>2 DEF InOrder
      <4> QED
        BY <4>2, <4>3 DEF InOrder
  <2> QED
    BY <1>0, <2>1, <2>2
<1>17. ASSUME NEW r \in Requests, NEW kd \in Kinds, Arrive(r, kd) PROVE ChannelInv'
  BY <1>0, <1>17 DEF Arrive, Goto
<1>18. ASSUME NEW r \in Requests, ClientGone(r) PROVE ChannelInv'
  BY <1>0, <1>18 DEF ClientGone, Finish, Goto
<1>19. ASSUME NEW r \in Requests, WsRecv(r) PROVE ChannelInv'
  BY <1>0, <1>19 DEF WsRecv, Goto
<1>20. ASSUME NEW r \in Requests, WsClose(r) PROVE ChannelInv'
  BY <1>0, <1>20 DEF WsClose, Finish, Goto
<1>21. CASE UNCHANGED vars
  BY <1>0, <1>21 DEF vars
<1> QED
  BY <1>1, <1>2, <1>3, <1>4, <1>5, <1>6, <1>7, <1>8, <1>9, <1>10, <1>11,
     <1>12, <1>13, <1>14, <1>15, <1>16, <1>17, <1>18, <1>19, <1>20, <1>21
     DEF Next, Handler, BlockingTask, Client, Finished

(* A step keeps clean ends complete. *)
LEMMA CleanEndStep ==
  ASSUME ServerInv, [Next]_vars
  PROVE  CleanEndIsComplete'
<1> USE DEF ServerInv, TypeOK, TaskInv, ChannelInv, InOrder, CleanEndIsComplete, streamVars, wsVars
<1>1. ASSUME NEW r \in Requests, Start(r) PROVE CleanEndIsComplete'
  BY <1>1 DEF Start, Goto, Finish
<1>2. ASSUME NEW r \in Requests, Acquire(r) PROVE CleanEndIsComplete'
  BY <1>2 DEF Acquire, Goto
<1>3. ASSUME NEW r \in Requests, HealthHandler(r) PROVE CleanEndIsComplete'
  BY <1>3 DEF HealthHandler, InCrit, Finish, Goto, Unlock
<1>4. ASSUME NEW r \in Requests, LoadModelsHandler(r) PROVE CleanEndIsComplete'
  BY <1>4 DEF LoadModelsHandler, InCrit, Finish, Goto, Unlock
<1>5. ASSUME NEW r \in Requests, UnloadModelsHandler(r) PROVE CleanEndIsComplete'
  BY <1>5 DEF UnloadModelsHandler, InCrit, Finish, Goto, Unlock
<1>6. ASSUME NEW r \in Requests, TtsHandler(r) PROVE CleanEndIsComplete'
  BY <1>6 DEF TtsHandler, InCrit, Finish, Goto, Unlock
<1>7. ASSUME NEW r \in Requests, TtsStreamPcmHandler(r) PROVE CleanEndIsComplete'
  BY <1>7 DEF TtsStreamPcmHandler, InCrit, Finish, Goto, Unlock
<1>8. ASSUME NEW r \in Requests, PollNext(r) PROVE CleanEndIsComplete'
  <2>1. UNCHANGED <<bg, sent, total>> /\ task[r] = "drain" /\ status[r] = "none"
    BY <1>8 DEF PollNext
  <2>2. \A q \in Requests : q # r => got'[q] = got[q] /\ status'[q] = status[q]
    BY <1>8 DEF PollNext, Finish
  <2>3. CASE chan[r] # <<>>
    <3>1. status'[r] # "complete"
      BY <1>8, <2>1, <2>3 DEF PollNext, Finish
    <3> QED
      BY <2>1, <2>2, <3>1
  <2>4. CASE chan[r] = <<>>
    <3>1. got' = got /\ bg[r] \in {"end", "failed"}
      BY <1>8, <2>4 DEF PollNext
    <3>2. got[r] \o chan[r] = got[r]
      BY <2>4, ConcatEmptySeq
    <3>3. bg[r] # "failed"
      <4> SUFFICES ASSUME bg[r] = "failed" PROVE FALSE
        OBVIOUS
      <4>1. got[r] = Append(UpTo(sent[r]), ErrItem)
        BY <2>1, <3>2
      <4>2. UpTo(sent[r]) \in Seq(Items) /\ Len(UpTo(sent[r])) = sent[r] /\ sent[r] \in Nat
        BY <2>1, QueueShape
      <4>5. ErrItem \in Items
        BY ServerAssumption DEF ServerAssumption, Items, ErrItem
      <4>3. Len(got[r]) = sent[r] + 1 /\ got[r][sent[r] + 1] = ErrItem
        BY <4>1, <4>2, <4>5, AppendProperties
      <4>4. sent[r] + 1 \in 1 .. Len(got[r])
        BY <4>2, <4>3
      <4> QED
        BY <2>1, <4>3, <4>4
    <3>4. bg[r] = "end" /\ sent[r] = total[r]
      BY <3>1, <3>3
    <3>5. got[r] = UpTo(total[r])
      BY <2>1, <3>2, <3>4
    <3> QED
      BY <2>1, <2>2, <3>1, <3>4, <3>5
  <2> QED
    BY <2>3, <2>4
<1>9. ASSUME NEW r \in Requests, WsSynthesize(r) PROVE CleanEndIsComplete'
  BY <1>9 DEF WsSynthesize, InCrit, Goto, Unlock
<1>10. ASSUME NEW r \in Requests, WsSend(r) PROVE CleanEndIsComplete'
  BY <1>10 DEF WsSend, Goto
<1>11. ASSUME NEW r \in Requests, BgAcquire(r) PROVE CleanEndIsComplete'
  BY <1>11 DEF BgAcquire
<1>12. ASSUME NEW r \in Requests, BgCheck(r) PROVE CleanEndIsComplete'
  BY <1>12 DEF BgCheck
<1>13. ASSUME NEW r \in Requests, BgChunk(r) PROVE CleanEndIsComplete'
  BY <1>13 DEF BgChunk, BlockingSend, ReceiverAlive
<1>14. ASSUME NEW r \in Requests, BgThrows(r) PROVE CleanEndIsComplete'
  BY <1>14 DEF BgThrows
<1>15. ASSUME NEW r \in Requests, BgReturns(r) PROVE CleanEndIsComplete'
  BY <1>15 DEF BgReturns, Unlock
<1>16. ASSUME NEW r \in Requests, BgSendsError(r) PROVE CleanEndIsComplete'
  BY <1>16 DEF BgSendsError, BlockingSend, ReceiverAlive, Unlock
<1>17. ASSUME NEW r \in Requests, NEW kd \in Kinds, Arrive(r, kd) PROVE CleanEndIsComplete'
  BY <1>17 DEF Arrive, Goto
<1>18. ASSUME NEW r \in Requests, ClientGone(r) PROVE CleanEndIsComplete'
  BY <1>18 DEF ClientGone, Finish, Goto
<1>19. ASSUME NEW r \in Requests, WsRecv(r) PROVE CleanEndIsComplete'
  BY <1>19 DEF WsRecv, Goto
<1>20. ASSUME NEW r \in Requests, WsClose(r) PROVE CleanEndIsComplete'
  BY <1>20 DEF WsClose, Finish, Goto
<1>21. CASE UNCHANGED vars
  BY <1>21 DEF vars
<1> QED
  BY <1>1, <1>2, <1>3, <1>4, <1>5, <1>6, <1>7, <1>8, <1>9, <1>10, <1>11,
     <1>12, <1>13, <1>14, <1>15, <1>16, <1>17, <1>18, <1>19, <1>20, <1>21
     DEF Next, Handler, BlockingTask, Client, Finished

(***************************************************************************)
(* The inductive invariant of Server: one holder of the mutex, blocking    *)
(* tasks tied to their responses, channels in order, clean ends complete.  *)
(***************************************************************************)
THEOREM ServerInvHolds == Spec => []ServerInv
<1>1. Init => ServerInv
  <2> SUFFICES ASSUME Init PROVE ServerInv
    OBVIOUS
  <2> USE DEF Init
  <2>1. TypeOK
    <3>1. <<>> \in Seq(Items) /\ Len(<<>>) <= Capacity /\ 0 \in 0 .. MaxChunks
          /\ 0 \in 0 .. MaxFrames /\ 0 \in 0 .. MaxMsgs
      BY ServerAssumption DEF ServerAssumption
    <3>2. engine \in {"none"} \cup Modes /\ mutex \in Requests \cup {NoOne}
          /\ kind \in [Requests -> AllKinds \cup {"none"}]
      OBVIOUS
    <3>3. chan \in [Requests -> Seq(Items)] /\ got \in [Requests -> Seq(Items)]
          /\ \A r \in Requests : Len(chan[r]) <= Capacity
      BY <3>1
    <3>4. /\ total \in [Requests -> 0 .. MaxChunks] /\ sent \in [Requests -> 0 .. MaxChunks]
          /\ frames \in [Requests -> 0 .. MaxFrames] /\ msgs \in [Requests -> 0 .. MaxMsgs]
      BY <3>1
    <3>5. /\ task \in [Requests -> {"new", "ready", "lock", "crit", "drain", "recv", "send", "done"}]
          /\ status \in [Requests -> {"none", "ok", "badText", "noModels", "failed",
                                    "complete", "aborted", "gone"}]
          /\ bg \in [Requests -> {"none", "lock", "check", "run", "fail", "end", "failed"}]
      OBVIOUS
    <3> HIDE DEF Init
    <3> QED
      BY <3>2, <3>3, <3>4, <3>5 DEF TypeOK
  <2>2. OneHolder /\ TaskInv /\ ChannelInv /\ CleanEndIsComplete
    BY DEF OneHolder, HoldsMutex, TaskInv, ChannelInv, CleanEndIsComplete
  <2> QED
    BY <2>1, <2>2 DEF ServerInv
<1>2. ServerInv /\ [Next]_vars => ServerInv'
  BY TypeStep, HolderStep, TaskStep, ChannelStep, CleanEndStep DEF ServerInv
<1> QED
  BY <1>1, <1>2, PTL DEF Spec

(* Every variable keeps its type, and a channel never holds more than its  *)
(* capacity.                                                               *)
THEOREM TypeCorrect == Spec => []TypeOK
<1>1. ServerInv => TypeOK
  BY DEF ServerInv
<1> QED
  BY <1>1, ServerInvHolds, PTL

(* No load or unload takes the engine from under a synthesis: between the  *)
(* look of tts_stream_pcm_handler and its blocking task anything may       *)
(* happen, but the task looks again, and holds the mutex from then on.     *)
THEOREM EngineIsKept == Spec => []SynthesisKeepsEngine
<1>1. ServerInv => SynthesisKeepsEngine
  BY DEF ServerInv, OneHolder, HoldsMutex, SynthesisKeepsEngine
<1> QED
  BY <1>1, ServerInvHolds, PTL

(* The channel of tts_stream_pcm_handler neither loses, repeats nor        *)
(* reorders chunks, however the blocking task and poll_next interleave.    *)
THEOREM ChunksInOrder == Spec => []StreamInOrder
<1>1. ServerInv => StreamInOrder
  BY DEF ServerInv, ChannelInv, InOrder, StreamInOrder, ReceiverAlive
<1> QED
  BY <1>1, ServerInvHolds, PTL

(* A response that ends cleanly carries a whole synthesis: an engine       *)
(* unloaded meanwhile, or a failure on the way, aborts it instead.         *)
THEOREM CleanEndsAreComplete == Spec => []CleanEndIsComplete
<1>1. ServerInv => CleanEndIsComplete
  BY DEF ServerInv
<1> QED
  BY <1>1, ServerInvHolds, PTL

(* A channel with more slots than the reply has chunks never makes         *)
(* on_chunk wait for the client: only then is the engine mutex held for no *)
(* longer than the synthesis takes.                                        *)
THEOREM RoomySendsNeverBlock ==
  ASSUME Capacity > MaxChunks
  PROVE  Spec => []SendNeverBlocks
<1>1. ASSUME ServerInv PROVE SendNeverBlocks
  <2> SUFFICES ASSUME NEW r \in Requests, bg[r] \in {"run", "fail"}
               PROVE  Len(chan[r]) < Capacity
    BY DEF SendNeverBlocks
  <2>1. task[r] \in {"drain", "done"} /\ (task[r] = "done" => chan[r] = <<>>)
    BY <1>1 DEF ServerInv, TaskInv
  <2>2. Capacity \in Nat \ {0} /\ MaxChunks \in Nat
    BY ServerAssumption DEF ServerAssumption
  <2>3. CASE task[r] = "done"
    BY <2>1, <2>2, <2>3
  <2>4. CASE task[r] = "drain"
    <3>1. got[r] \o chan[r] = UpTo(sent[r])
      BY <1>1, <2>4 DEF ServerInv, ChannelInv, InOrder
    <3>2. /\ Len(UpTo(sent[r])) = sent[r] /\ sent[r] \in Nat /\ sent[r] <= MaxChunks
          /\ got[r] \in Seq(Items) /\ chan[r] \in Seq(Items)
      BY <1>1, <2>4, QueueShape
    <3>3. Len(got[r] \o chan[r]) = Len(got[r]) + Len(chan[r])
      BY <3>2, ConcatProperties
    <3>4. Len(got[r]) \in Nat /\ Len(chan[r]) \in Nat
      BY <3>2, LenProperties
    <3>5. Len(got[r]) + Len(chan[r]) = sent[r]
      BY <3>1, <3>2, <3>3
    <3>6. \A a, b, n, m, k \in Nat : a + b = n /\ n <= m /\ k > m => b < k
      OBVIOUS
    <3>7. sent[r] \in Nat /\ sent[r] <= MaxChunks
      BY <3>2
    <3> QED
      BY <2>2, <3>4, <3>5, <3>6, <3>7
  <2> QED
    BY <2>1, <2>3, <2>4
<1> QED
  BY <1>1, ServerInvHolds, PTL

=============================================================================
