--------------------------- MODULE ChatTurnProofs ---------------------------
(***************************************************************************)
(* Proofs about ChatTurn, for any sessions and any bounds: the types, what *)
(* a done token means, and, of one connection whose sends do not suspend,  *)
(* the cancellation protocol and what becomes of the conversation.         *)
(***************************************************************************)
EXTENDS ChatTurn, SequenceTheorems, TLAPS

USE ChatTurnAssumption DEF Turns

-----------------------------------------------------------------------------
(* Types.                                                                  *)

\* Saying something keeps a history a history.
LEMMA SayType ==
    ASSUME NEW h \in History, NEW m \in Message
    PROVE  Say(h, m) \in History
BY DEF Say, History

\* So does a compaction.
LEMMA CompactedType ==
    ASSUME NEW h \in History
    PROVE  Compacted(h) \in History
<1> DEFINE n == Len(h.talk)
<1>1. /\ h.talk \in Seq(Message) /\ n \in Nat /\ h.noted \subseteq Turns
      /\ \A i \in 1 .. n : h.talk[i] \in Message
  BY DEF History
<1>2. ASSUME n > KeepHead + KeepTail
      PROVE  Compacted(h) \in History
  <2>1. \A i \in KeepHead + 1 .. n - KeepTail : h.talk[i].turn \in Turns
    <3>1. \A i \in KeepHead + 1 .. n - KeepTail : h.talk[i] \in Message
      BY <1>1, <1>2
    <3> QED
      BY <3>1 DEF Message
  <2>2. SubSeq(h.talk, 1, KeepHead) \in Seq(Message)
    BY <1>1, <1>2
  <2>3. SubSeq(h.talk, n - KeepTail + 1, n) \in Seq(Message)
    BY <1>1, <1>2
  <2> QED
    BY <1>1, <1>2, <2>1, <2>2, <2>3 DEF Compacted, History
<1> QED
  BY <1>1, <1>2 DEF Compacted

LEMMA AnswerType == ASSUME NEW t \in Turns PROVE Answer(t) \in Message /\ User(t) \in Message
BY DEF Answer, User, Message

LEMMA NoHistoryType == NoHistory \in History
BY DEF NoHistory, History

LEMMA InitType == Init => TypeOK
<1> SUFFICES ASSUME Init PROVE TypeOK
  OBVIOUS
<1>2. HandlerType /\ TasksType /\ BridgeType
  BY DEF Init, HandlerType, TasksType, BridgeType
<1>3. ProgressType /\ EngineType /\ GhostsType
  BY NoHistoryType DEF Init, ProgressType, prog, EngineType, GhostsType
<1> QED
  BY <1>2, <1>3 DEF TypeOK

\* The steps of a runner.
LEMMA RunnerType ==
    ASSUME TypeOK, NEW t \in Turns, Runner(t)
    PROVE  TypeOK'
<1> USE DEF TypeOK
<1>1. CASE RunStart(t)
  <2>1. TasksType'
    BY <1>1 DEF RunStart, TasksType
  <2>2. BridgeType'
    BY <1>1 DEF RunStart, BridgeType
  <2>3. HandlerType' /\ ProgressType' /\ EngineType' /\ GhostsType'
        BY <1>1 DEF RunStart, HandlerType, ProgressType, prog, EngineType, GhostsType,
      chat, tasks, bridge, engine, ghosts
  <2> QED
    BY <2>1, <2>2, <2>3
<1>2. CASE RunGet(t)
  <2>1. TasksType'
    BY <1>2 DEF RunGet, TasksType
  <2>2. BridgeType'
    BY <1>2 DEF RunGet, BridgeType
  <2>3. HandlerType' /\ ProgressType' /\ EngineType' /\ GhostsType'
        BY <1>2 DEF RunGet, HandlerType, ProgressType, prog, EngineType, GhostsType, chat,
      tasks, bridge, engine, ghosts
  <2> QED
    BY <2>1, <2>2, <2>3
<1>3. CASE RunSent(t)
  <2>1. TasksType'
    BY <1>3 DEF RunSent, TasksType
  <2>2. HandlerType' /\ ProgressType' /\ BridgeType' /\ EngineType' /\ GhostsType'
        BY <1>3 DEF RunSent, HandlerType, ProgressType, prog, BridgeType, EngineType,
      GhostsType, chat, tasks, bridge, engine, ghosts
  <2> QED
    BY <2>1, <2>2
<1>4. CASE RunDone(t)
  <2>1. TasksType'
    BY <1>4 DEF RunDone, TasksType
  <2>2. BridgeType'
    BY <1>4 DEF RunDone, BridgeType, AllRejected
  <2>3. EngineType'
    BY <1>4 DEF RunDone, EngineType
  <2>4. GhostsType'
    BY <1>4 DEF RunDone, GhostsType
  <2>5. HandlerType' /\ ProgressType'
        BY <1>4 DEF RunDone, HandlerType, ProgressType, prog, chat, tasks, bridge, engine,
      ghosts
  <2> QED
    BY <2>1, <2>2, <2>3, <2>4, <2>5
<1>5. CASE RunCancelled(t)
  <2>1. TasksType'
    BY <1>5 DEF RunCancelled, TasksType
  <2>2. HandlerType' /\ ProgressType' /\ BridgeType' /\ EngineType' /\ GhostsType'
        BY <1>5 DEF RunCancelled, HandlerType, ProgressType, prog, BridgeType, EngineType,
      GhostsType, chat, tasks, bridge, engine, ghosts
  <2> QED
    BY <2>1, <2>2
<1> QED
  BY <1>1, <1>2, <1>3, <1>4, <1>5 DEF Runner

\* The steps of a generator its runner left or closes.
LEMMA StreamType ==
    ASSUME TypeOK, NEW t \in Turns, Stream(t) \/ StreamTimeout(t)
    PROVE  TypeOK'
<1> USE DEF TypeOK
<1>1. CASE StreamAclose(t)
  <2>1. TasksType'
    BY <1>1 DEF StreamAclose, TasksType
  <2>2. HandlerType' /\ ProgressType' /\ BridgeType' /\ EngineType' /\ GhostsType'
        BY <1>1 DEF StreamAclose, HandlerType, ProgressType, prog, BridgeType, EngineType,
      GhostsType, chat, tasks, bridge, engine, ghosts
  <2> QED
    BY <2>1, <2>2
<1>2. CASE StreamClosed(t)
  <2>1. TasksType'
    BY <1>2 DEF StreamClosed, TasksType
  <2>2. BridgeType'
    BY <1>2 DEF StreamClosed, BridgeType, AllRejected
  <2>3. HandlerType' /\ ProgressType' /\ EngineType' /\ GhostsType'
        BY <1>2 DEF StreamClosed, HandlerType, ProgressType, prog, EngineType, GhostsType,
      chat, tasks, bridge, engine, ghosts
  <2> QED
    BY <2>1, <2>2, <2>3
<1>3. CASE StreamTimeout(t)
  <2>1. TasksType'
    BY <1>3 DEF StreamTimeout, TasksType
  <2>2. HandlerType' /\ ProgressType' /\ BridgeType' /\ EngineType' /\ GhostsType'
        BY <1>3 DEF StreamTimeout, HandlerType, ProgressType, prog, BridgeType,
      EngineType, GhostsType, chat, tasks, bridge, engine, ghosts
  <2> QED
    BY <2>1, <2>2
<1> QED
  BY <1>1, <1>2, <1>3 DEF Stream

Kinds == {"none", "created", "hook", "llm", "backoff", "tool", "approval", "compact",
          "ended"}

\* The end of a round, and what leads to it.
LEMMA FinishType ==
    ASSUME TypeOK, NEW t \in Turns, NEW m \in History, NEW q \in Seq(QueueItem),
           Finish(t, m, q), dir' = dir
    PROVE  EngineType' /\ work' \in [Turns -> Kinds] /\ queue' \in Seq(QueueItem)
<1>1. msgs' \in History
  BY SayType, AnswerType DEF Finish
<1>2. Done(t) \in QueueItem
  BY DEF Done, QueueItem
<1> QED
  BY <1>1, <1>2 DEF Finish, TypeOK, EngineType, TasksType, Kinds

LEMMA EventType ==
    ASSUME TypeOK, NEW t \in Turns
    PROVE  /\ Append(queue, Event(t)) \in Seq(QueueItem)
           /\ Append(queue, Done(t)) \in Seq(QueueItem)
BY DEF TypeOK, BridgeType, Event, Done, QueueItem

LEMMA AfterDispatchType ==
    ASSUME TypeOK, NEW t \in Turns, NEW q \in Seq(QueueItem), AfterDispatch(t, q),
           dir' = dir
    PROVE  EngineType' /\ work' \in [Turns -> Kinds] /\ queue' \in Seq(QueueItem)
<1>1. msgs \in History /\ Compacted(msgs) \in History
  BY CompactedType DEF TypeOK, EngineType
<1>2. ASSUME NEW m \in {msgs, Compacted(msgs)}, Finish(t, m, q)
      PROVE  EngineType' /\ work' \in [Turns -> Kinds] /\ queue' \in Seq(QueueItem)
  BY <1>1, <1>2, FinishType
<1>3. CASE /\ snap' = [snap EXCEPT ![t] = msgs]
           /\ work' = [work EXCEPT ![t] = "compact"]
           /\ queue' = q
           /\ UNCHANGED <<msgs, ckpt, memory>>
  BY <1>3 DEF TypeOK, EngineType, TasksType, Kinds
<1> QED
  BY <1>2, <1>3 DEF AfterDispatch

LEMMA StreamOverType ==
    ASSUME TypeOK, NEW t \in Turns, StreamOver(t), dir' = dir
    PROVE  /\ EngineType' /\ ProgressType' /\ BridgeType'
           /\ work' \in [Turns -> Kinds]
<1>1. Append(queue, Event(t)) \in Seq(QueueItem)
  BY EventType
<1>2. ProgressType'
  <2>1. /\ calling' = calling \ {t} /\ attempts' = [attempts EXCEPT ![t] = 1]
        /\ UNCHANGED <<chunks, rounds>>
    BY DEF StreamOver
  <2>2. 1 \in 1 .. MaxAttempts
    OBVIOUS
  <2> QED
    BY <2>1, <2>2 DEF TypeOK, ProgressType
<1>3. CASE t \notin calling
  <2>1. AfterDispatch(t, Append(queue, Event(t))) /\ UNCHANGED appr
    BY <1>3 DEF StreamOver
  <2>2. EngineType' /\ work' \in [Turns -> Kinds] /\ queue' \in Seq(QueueItem)
    BY <1>1, <2>1, AfterDispatchType
  <2> QED
    BY <1>2, <2>1, <2>2 DEF TypeOK, BridgeType
<1>4. CASE t \in calling
  <2>1. EngineType'
    BY <1>4 DEF StreamOver, TypeOK, EngineType
  <2>2. BridgeType'
    BY <1>1, <1>4 DEF StreamOver, TypeOK, BridgeType
  <2>3. work' \in [Turns -> Kinds]
    BY <1>4 DEF StreamOver, TypeOK, TasksType, Kinds
  <2> QED
    BY <1>2, <2>1, <2>2, <2>3
<1> QED
  BY <1>2, <1>3, <1>4

\* The steps of a worker.
LEMMA WorkerType ==
    ASSUME TypeOK, NEW t \in Turns, Worker(t)
    PROVE  TypeOK'
<1> USE DEF TypeOK
<1>1. CASE WorkStart(t)
  <2>1. TasksType'
    BY <1>1 DEF WorkStart, TasksType
  <2>2. EngineType'
    BY <1>1, SayType, AnswerType DEF WorkStart, EngineType
  <2>3. HandlerType' /\ ProgressType' /\ BridgeType' /\ GhostsType'
        BY <1>1 DEF WorkStart, HandlerType, ProgressType, prog, BridgeType, GhostsType,
      chat, tasks, bridge, engine, ghosts
  <2> QED
    BY <2>1, <2>2, <2>3
<1>2. CASE WorkAssembled(t)
  <2>1. TasksType'
    BY <1>2 DEF WorkAssembled, TasksType
  <2>2. HandlerType' /\ ProgressType' /\ BridgeType' /\ EngineType' /\ GhostsType'
        BY <1>2 DEF WorkAssembled, HandlerType, ProgressType, prog, BridgeType,
      EngineType, GhostsType, chat, tasks, bridge, engine, ghosts
  <2> QED
    BY <2>1, <2>2
<1>3. CASE WorkChunk(t)
  <2>1. chunks[t] + 1 \in 0 .. MaxChunks
    BY <1>3, SMTT(60) DEF WorkChunk, ProgressType
  <2>2. ProgressType'
    BY <1>3, <2>1 DEF WorkChunk, ProgressType
  <2>3. TasksType' /\ BridgeType'
    BY <1>3, EventType DEF WorkChunk, TasksType, BridgeType
  <2>4. HandlerType' /\ EngineType' /\ GhostsType'
    BY <1>3 DEF WorkChunk, HandlerType, EngineType, GhostsType, chat, engine, ghosts
  <2> QED
    BY <2>2, <2>3, <2>4
<1>4. CASE WorkToolCall(t)
  <2>1. rounds[t] + 1 \in 0 .. MaxRounds
    BY <1>4, SMTT(60) DEF WorkToolCall, ProgressType
  <2>2. ProgressType'
    BY <1>4, <2>1 DEF WorkToolCall, ProgressType
  <2>3. TasksType' /\ BridgeType'
    BY <1>4, EventType DEF WorkToolCall, TasksType, BridgeType, bridge
  <2>4. HandlerType' /\ EngineType' /\ GhostsType'
    BY <1>4 DEF WorkToolCall, HandlerType, EngineType, GhostsType, chat, engine, ghosts
  <2> QED
    BY <2>2, <2>3, <2>4
<1>5. CASE WorkLlmEnd(t)
  <2>1. EngineType' /\ ProgressType' /\ BridgeType' /\ work' \in [Turns -> Kinds]
    BY <1>5, StreamOverType DEF WorkLlmEnd
  <2>2. HandlerType' /\ GhostsType' /\ TasksType'
    BY <1>5, <2>1 DEF WorkLlmEnd, HandlerType, GhostsType, TasksType, Kinds, chat, ghosts
  <2> QED
    BY <2>1, <2>2
<1>6. CASE WorkRetry(t)
  <2>1. attempts[t] + 1 \in 1 .. MaxAttempts
    BY <1>6 DEF WorkRetry, ProgressType
  <2>2. ProgressType'
    BY <1>6, <2>1 DEF WorkRetry, ProgressType
  <2>3. TasksType' /\ BridgeType'
    BY <1>6, EventType DEF WorkRetry, TasksType, BridgeType, bridge
  <2>4. HandlerType' /\ EngineType' /\ GhostsType'
    BY <1>6 DEF WorkRetry, HandlerType, EngineType, GhostsType, chat, engine, ghosts
  <2> QED
    BY <2>2, <2>3, <2>4
<1>7. CASE WorkRetried(t)
  <2>1. TasksType'
    BY <1>7 DEF WorkRetried, TasksType
  <2>2. HandlerType' /\ ProgressType' /\ BridgeType' /\ EngineType' /\ GhostsType'
        BY <1>7 DEF WorkRetried, HandlerType, ProgressType, prog, BridgeType, EngineType,
      GhostsType, chat, tasks, bridge, engine, ghosts
  <2> QED
    BY <2>1, <2>2
<1>8. CASE WorkLlmError(t)
  <2>1. EngineType' /\ ProgressType' /\ BridgeType' /\ work' \in [Turns -> Kinds]
    BY <1>8, AfterDispatchType, EventType DEF WorkLlmError, ProgressType, prog, BridgeType
  <2>2. HandlerType' /\ GhostsType' /\ TasksType'
    BY <1>8, <2>1 DEF WorkLlmError, HandlerType, GhostsType, TasksType, Kinds, chat, ghosts
  <2> QED
    BY <2>1, <2>2
<1>9. CASE WorkApproval(t)
  <2>1. TasksType'
    BY <1>9 DEF WorkApproval, TasksType
  <2>2. BridgeType'
    BY <1>9 DEF WorkApproval, BridgeType
  <2>3. HandlerType' /\ ProgressType' /\ EngineType' /\ GhostsType'
        BY <1>9 DEF WorkApproval, HandlerType, ProgressType, prog, EngineType, GhostsType,
      chat, tasks, bridge, engine, ghosts
  <2> QED
    BY <2>1, <2>2, <2>3
<1>10. CASE WorkToolEnd(t)
  <2>1. TasksType'
    BY <1>10 DEF WorkToolEnd, TasksType
  <2>2. BridgeType'
    BY <1>10, EventType DEF WorkToolEnd, BridgeType
  <2>3. HandlerType' /\ ProgressType' /\ EngineType' /\ GhostsType'
        BY <1>10 DEF WorkToolEnd, HandlerType, ProgressType, prog, EngineType, GhostsType,
      chat, tasks, bridge, engine, ghosts
  <2> QED
    BY <2>1, <2>2, <2>3
<1>11. CASE WorkCompacted(t)
  <2>0. Compacted(snap[t]) \in History /\ queue \in Seq(QueueItem)
    BY CompactedType DEF EngineType, BridgeType
  <2>1. EngineType' /\ ProgressType' /\ BridgeType' /\ work' \in [Turns -> Kinds]
    BY <1>11, <2>0, FinishType DEF WorkCompacted, ProgressType, prog, BridgeType
  <2>2. HandlerType' /\ GhostsType' /\ TasksType'
    BY <1>11, <2>1 DEF WorkCompacted, HandlerType, GhostsType, TasksType, Kinds, chat, ghosts
  <2> QED
    BY <2>1, <2>2
<1>12. CASE WorkCancelled(t)
  <2>1. HandlerType' /\ GhostsType'
    BY <1>12 DEF WorkCancelled, HandlerType, GhostsType, chat
  <2>2. ASSUME work' \in [Turns -> Kinds]
        PROVE  TasksType'
    BY <1>12, <2>2 DEF WorkCancelled, TasksType, Kinds
  <2>3. dir' = dir
    BY <1>12 DEF WorkCancelled
  <2>4. CASE /\ work[t] = "created"
             /\ work' = [work EXCEPT ![t] = "ended"]
             /\ UNCHANGED <<prog, appr, queue, msgs, ckpt, memory, snap>>
    BY <2>1, <2>2, <2>3, <2>4
       DEF TasksType, ProgressType, prog, BridgeType, EngineType, Kinds
  <2>5. CASE work[t] = "llm" /\ StreamOver(t)
    BY <2>1, <2>2, <2>3, <2>5, StreamOverType
  <2>6. CASE Aborted(t)
    <3>1. BridgeType' /\ work' \in [Turns -> Kinds]
      BY <2>6, EventType DEF Aborted, BridgeType, TasksType, Kinds
    <3>2. ProgressType' /\ EngineType'
      BY <2>3, <2>6 DEF Aborted, ProgressType, prog, EngineType
    <3> QED
      BY <2>1, <2>2, <3>1, <3>2
  <2>8. CASE Finish(t, Compacted(snap[t]), queue) /\ UNCHANGED <<appr, prog>>
    <3>1. Compacted(snap[t]) \in History /\ queue \in Seq(QueueItem)
      BY CompactedType DEF EngineType, BridgeType
    <3>2. EngineType' /\ work' \in [Turns -> Kinds] /\ queue' \in Seq(QueueItem)
      BY <2>3, <2>8, <3>1, FinishType
    <3>3. ProgressType' /\ BridgeType'
      BY <2>8, <3>2 DEF ProgressType, prog, BridgeType
    <3> QED
      BY <2>1, <2>2, <3>2, <3>3
  <2> QED
    BY <1>12, <2>4, <2>5, <2>6, <2>8 DEF WorkCancelled
<1> QED
  BY <1>1, <1>2, <1>3, <1>4, <1>5, <1>6, <1>7, <1>8, <1>9, <1>10, <1>11, <1>12 DEF Worker

\* Opening a session and going on with a message keep the engine's types.
LEMMA ContinueType ==
    ASSUME TypeOK, NEW act \in {"chat", "stop", "missing"} \cup Sessions,
           act = "chat" => sent' \in Turns,
           Continue(act), UNCHANGED <<conn, memory, snap, told>>
    PROVE  /\ cur' \in 0 .. MaxTurns /\ live' \subseteq Turns
           /\ connOf' \in [Turns -> 0 .. MaxConns]
           /\ run' \in [Turns -> {"none", "created", "get", "send", "closing", "ended"}]
           /\ EngineType'
           /\ sess' \in [Turns -> Sessions] /\ before' \in [Turns -> History]
<1> USE DEF TypeOK
<1>1. CASE act = "chat" /\ StartTurn(sent')
  <2>0. live' \subseteq Turns
    BY <1>1 DEF StartTurn, HandlerType
  <2>1. cur' \in 0 .. MaxTurns /\ connOf' \in [Turns -> 0 .. MaxConns]
    BY <1>1 DEF StartTurn, HandlerType
  <2>2. run' \in [Turns -> {"none", "created", "get", "send", "closing", "ended"}]
    BY <1>1 DEF StartTurn, HandlerType, TasksType
  <2>3. EngineType'
    BY <1>1 DEF StartTurn, HandlerType, EngineType
  <2>4. sess' \in [Turns -> Sessions] /\ before' \in [Turns -> History]
    BY <1>1 DEF StartTurn, HandlerType, EngineType, GhostsType
  <2> QED
    BY <2>0, <2>1, <2>2, <2>3, <2>4
<1>2. CASE /\ act = "stop"
           /\ NextGeneration /\ cur' = 0
           /\ Restore(dir)
           /\ UNCHANGED <<connOf, ckpt, run, dir, sess, before>>
  <2>0. live' \subseteq Turns
    BY <1>2 DEF NextGeneration, Restore, HandlerType
  <2>1. cur' \in 0 .. MaxTurns /\ connOf' \in [Turns -> 0 .. MaxConns]
    BY <1>2 DEF NextGeneration, Restore, HandlerType
  <2>2. run' \in [Turns -> {"none", "created", "get", "send", "closing", "ended"}]
    BY <1>2 DEF NextGeneration, Restore, TasksType
  <2>3. EngineType'
    BY <1>2 DEF NextGeneration, Restore, EngineType
  <2>4. sess' \in [Turns -> Sessions] /\ before' \in [Turns -> History]
    BY <1>2 DEF NextGeneration, Restore, EngineType, GhostsType
  <2> QED
    BY <2>0, <2>1, <2>2, <2>3, <2>4
<1>3. CASE act \in Sessions /\ NextGeneration /\ cur' = 0 /\ OpenSession(act)
  <2>0. live' \subseteq Turns
    BY <1>3 DEF NextGeneration, OpenSession, Restore, HandlerType
  <2>1. cur' \in 0 .. MaxTurns /\ connOf' \in [Turns -> 0 .. MaxConns]
    BY <1>3 DEF NextGeneration, OpenSession, Restore, HandlerType
  <2>2. run' \in [Turns -> {"none", "created", "get", "send", "closing", "ended"}]
    BY <1>3 DEF NextGeneration, OpenSession, Restore, TasksType
  <2>3. EngineType'
    BY <1>3 DEF NextGeneration, OpenSession, Restore, EngineType
  <2>4. sess' \in [Turns -> Sessions] /\ before' \in [Turns -> History]
    BY <1>3 DEF NextGeneration, OpenSession, Restore, EngineType, GhostsType
  <2> QED
    BY <2>0, <2>1, <2>2, <2>3, <2>4
<1>4. CASE /\ act = "missing"
           /\ NextGeneration /\ cur' = 0
           /\ UNCHANGED <<connOf, ckpt, run, dir, msgs, sess, before>>
  <2>0. live' \subseteq Turns
    BY <1>4 DEF NextGeneration, HandlerType
  <2>1. cur' \in 0 .. MaxTurns /\ connOf' \in [Turns -> 0 .. MaxConns]
    BY <1>4 DEF NextGeneration, HandlerType
  <2>2. run' \in [Turns -> {"none", "created", "get", "send", "closing", "ended"}]
    BY <1>4 DEF NextGeneration, TasksType
  <2>3. EngineType'
    BY <1>4 DEF NextGeneration, EngineType
  <2>4. sess' \in [Turns -> Sessions] /\ before' \in [Turns -> History]
    BY <1>4 DEF NextGeneration, EngineType, GhostsType
  <2> QED
    BY <2>0, <2>1, <2>2, <2>3, <2>4
<1> QED
  BY <1>1, <1>2, <1>3, <1>4 DEF Continue

LEMMA HandleType ==
    ASSUME TypeOK, NEW act \in {"chat", "stop", "missing"} \cup Sessions,
           sent' \in 0 .. MaxTurns, act = "chat" => sent' \in Turns, Handle(act)
    PROVE  TypeOK'
<1>1. CASE cur # 0 /\ RunAlive(cur)
  <2>1. cur \in Turns
    BY <1>1 DEF TypeOK, HandlerType
  <2>2. HandlerType'
    BY <1>1 DEF TypeOK, HandlerType, Handle
  <2>4. TasksType' /\ ProgressType'
    <3>1. /\ UNCHANGED <<run, strm, work, chunks, rounds, attempts, calling, killWork, timers>>
          /\ killRun' = killRun \cup {cur}
      BY <1>1 DEF Handle, prog
    <3>2. TasksType'
      BY <2>1, <3>1 DEF TypeOK, TasksType
    <3>3. ProgressType'
      BY <3>1 DEF TypeOK, ProgressType
    <3> QED
      BY <3>2, <3>3
  <2>3. BridgeType' /\ EngineType' /\ GhostsType'
    BY <1>1 DEF TypeOK, BridgeType, EngineType, GhostsType, Handle, bridge
  <2> QED
    BY <2>2, <2>3, <2>4 DEF TypeOK
<1>2. CASE ~(cur # 0 /\ RunAlive(cur))
  <2>1. Continue(act) /\ UNCHANGED <<main, after, killRun>>
    BY <1>2 DEF Handle
  <2>2. UNCHANGED <<conn, memory, snap, told>>
    BY DEF Handle
  <2>3. /\ cur' \in 0 .. MaxTurns /\ live' \subseteq Turns
        /\ connOf' \in [Turns -> 0 .. MaxConns]
        /\ run' \in [Turns -> {"none", "created", "get", "send", "closing", "ended"}]
        /\ EngineType'
        /\ sess' \in [Turns -> Sessions] /\ before' \in [Turns -> History]
    BY <2>1, <2>2, ContinueType
  <2>4. HandlerType' /\ TasksType' /\ ProgressType'
    BY <2>1, <2>3 DEF TypeOK, HandlerType, TasksType, ProgressType, Handle, prog
  <2>5. BridgeType' /\ GhostsType'
    BY <2>3 DEF TypeOK, BridgeType, GhostsType, Handle, bridge
  <2> QED
    BY <2>3, <2>4, <2>5 DEF TypeOK
<1> QED
  BY <1>1, <1>2

\* A handler that waits for a cancelled runner has one, and knows what comes next;
\* a closed one may be followed by another.
HandlerOK ==
    /\ main = "await" => cur # 0 /\ after # "none" /\ (after = "chat" => sent # 0)
    /\ main = "closed" => conn < MaxConns

\* The steps of a handler.
LEMMA HandlerStep ==
    ASSUME TypeOK, HandlerOK, Handler
    PROVE  TypeOK'
<1> USE DEF TypeOK
<1>1. CASE Resume
  <2>1. /\ Continue(after) /\ main' = "recv" /\ after' = "none"
        /\ UNCHANGED <<sent, conn, memory, snap, told>>
    BY <1>1 DEF Resume
  <2>2. /\ after \in {"chat", "stop", "missing"} \cup Sessions
        /\ cur \in Turns
        /\ after = "chat" => sent' \in Turns
    BY <1>1, <2>1 DEF HandlerType, HandlerOK, Resume
  <2>3. /\ cur' \in 0 .. MaxTurns /\ live' \subseteq Turns
        /\ connOf' \in [Turns -> 0 .. MaxConns]
        /\ run' \in [Turns -> {"none", "created", "get", "send", "closing", "ended"}]
        /\ EngineType'
        /\ sess' \in [Turns -> Sessions] /\ before' \in [Turns -> History]
    <3>1. UNCHANGED <<conn, memory, snap, told>>
      BY <2>1
    <3> QED
      BY <2>1, <2>2, <3>1, ContinueType
  <2>4. HandlerType' /\ TasksType' /\ ProgressType'
    BY <1>1, <2>1, <2>3 DEF HandlerType, TasksType, ProgressType, Resume, prog
  <2>5. BridgeType' /\ GhostsType'
    BY <1>1, <2>3 DEF BridgeType, GhostsType, Resume, bridge
  <2> QED
    BY <2>3, <2>4, <2>5
<1>2. CASE CompactDone
  <2>1. EngineType'
    BY <1>2, CompactedType, NoHistoryType DEF EngineType, CompactDone
  <2>2. HandlerType' /\ TasksType' /\ ProgressType' /\ BridgeType' /\ GhostsType'
    BY <1>2 DEF CompactDone, HandlerType, TasksType, ProgressType, BridgeType,
                GhostsType, tasks, prog, bridge, ghosts
  <2> QED
    BY <2>1, <2>2
<1> QED
  BY <1>1, <1>2 DEF Handler

\* What a client's message may do at once.
LEMMA ClientStep ==
    ASSUME TypeOK, HandlerOK, Client
    PROVE  TypeOK'
<1> USE DEF TypeOK
<1>1. CASE RecvChat
  <2>1. sent' \in Turns /\ Handle("chat")
    BY <1>1 DEF RecvChat, HandlerType
  <2> QED
    BY <2>1, HandleType
<1>2. CASE RecvStop
  BY <1>2, HandleType DEF RecvStop, HandlerType
<1>3. CASE RecvMissingSession
  BY <1>3, HandleType DEF RecvMissingSession, HandlerType
<1>4. ASSUME NEW s \in Sessions, RecvSession(s)
      PROVE  TypeOK'
  BY <1>4, HandleType DEF RecvSession, HandlerType
<1>5. CASE RecvCompact
  <2>1. EngineType' /\ HandlerType'
    BY <1>5, CompactedType DEF EngineType, HandlerType, RecvCompact
  <2>2. TasksType' /\ ProgressType' /\ BridgeType' /\ GhostsType'
    BY <1>5 DEF RecvCompact, TasksType, ProgressType, BridgeType,
                GhostsType, tasks, prog, bridge, ghosts
  <2> QED
    BY <2>1, <2>2
<1>6. ASSUME NEW t \in Turns, NEW a \in {"yes", "no"}, RecvPermission(t, a)
      PROVE  TypeOK'
  <2>1. BridgeType'
    BY <1>6 DEF BridgeType, RecvPermission
  <2>2. HandlerType' /\ TasksType' /\ ProgressType' /\ EngineType' /\ GhostsType'
    BY <1>6 DEF RecvPermission, HandlerType, TasksType, ProgressType, EngineType,
                GhostsType, chat, tasks, prog, engine, ghosts
  <2> QED
    BY <2>1, <2>2
<1>7. CASE Disconnect
  <2>0. cur # 0 => cur \in Turns
    BY DEF HandlerType
  <2>1. HandlerType' /\ TasksType'
    BY <1>7, <2>0 DEF HandlerType, TasksType, Disconnect
  <2>2. ProgressType' /\ BridgeType' /\ EngineType' /\ GhostsType'
    BY <1>7 DEF Disconnect, ProgressType, BridgeType, EngineType, GhostsType, prog,
                bridge, engine, ghosts
  <2> QED
    BY <2>1, <2>2
<1>8. ASSUME NEW s \in Sessions, Connect(s), conn < MaxConns
      PROVE  TypeOK'
  <2>1. HandlerType' /\ TasksType' /\ EngineType'
    BY <1>8 DEF HandlerType, TasksType, EngineType, Connect, OpenSession, Restore
  <2>2. ProgressType' /\ BridgeType' /\ GhostsType'
    BY <1>8 DEF Connect, OpenSession, ProgressType, BridgeType, GhostsType, prog, bridge
  <2> QED
    BY <2>1, <2>2
<1> QED
  <2>1. ASSUME NEW s \in Sessions, Connect(s)
        PROVE  conn < MaxConns
    BY <2>1 DEF Connect, HandlerOK
  <2> QED
    BY <1>1, <1>2, <1>3, <1>4, <1>5, <1>6, <1>7, <1>8, <2>1 DEF Client

\* Only the handler and its clients touch the handler's variables.
LEMMA TasksLeaveChat ==
    ASSUME NEW t \in Turns, Runner(t) \/ Stream(t) \/ StreamTimeout(t) \/ Worker(t)
    PROVE  UNCHANGED chat
<1>1. ASSUME Runner(t) PROVE UNCHANGED chat
  BY <1>1 DEF Runner, RunStart, RunGet, RunSent, RunDone, RunCancelled
<1>2. ASSUME Stream(t) \/ StreamTimeout(t) PROVE UNCHANGED chat
  BY <1>2 DEF Stream, StreamAclose, StreamClosed, StreamTimeout
<1>3. ASSUME Worker(t) PROVE UNCHANGED chat
  BY <1>3 DEF Worker, WorkStart, WorkAssembled, WorkChunk, WorkToolCall, WorkLlmEnd,
      WorkRetry, WorkRetried, WorkLlmError, WorkApproval, WorkToolEnd, WorkCompacted,
      WorkCancelled
<1> QED
  BY <1>1, <1>2, <1>3

LEMMA HandlerOKStep ==
    ASSUME TypeOK, HandlerOK, [Next]_vars
    PROVE  HandlerOK'
<1> USE DEF HandlerOK
<1>1. ASSUME UNCHANGED chat PROVE HandlerOK'
  BY <1>1 DEF chat
<1>2. ASSUME NEW act \in {"chat", "stop", "missing"} \cup Sessions, Handle(act),
             sent' = sent \/ sent' = sent + 1, act = "chat" => sent' # 0, act # "none"
      PROVE  HandlerOK'
  BY <1>2 DEF Handle
<1>3. CASE RecvChat
  BY <1>3, <1>2 DEF RecvChat, TypeOK, HandlerType
<1>4. CASE RecvStop \/ RecvMissingSession
  BY <1>4, <1>2 DEF RecvStop, RecvMissingSession
<1>5. ASSUME NEW s \in Sessions, RecvSession(s)
      PROVE  HandlerOK'
  BY <1>5, <1>2 DEF RecvSession
<1>6. CASE RecvCompact \/ CompactDone \/ Disconnect
  BY <1>6 DEF RecvCompact, CompactDone, Disconnect
<1>7. ASSUME NEW t \in Turns, NEW a \in {"yes", "no"}, RecvPermission(t, a)
      PROVE  HandlerOK'
  BY <1>7, <1>1 DEF RecvPermission
<1>8. ASSUME NEW s \in Sessions, Connect(s)
      PROVE  HandlerOK'
  BY <1>8 DEF Connect
<1>9. CASE Resume
  BY <1>9 DEF Resume
<1>10. ASSUME NEW t \in Turns,
              Runner(t) \/ Stream(t) \/ StreamTimeout(t) \/ Worker(t)
       PROVE  HandlerOK'
  BY <1>10, <1>1, TasksLeaveChat
<1>11. CASE UNCHANGED vars
  BY <1>11, <1>1 DEF vars
<1> QED
  BY <1>3, <1>4, <1>5, <1>6, <1>7, <1>8, <1>9, <1>10, <1>11 DEF Next, Client, Handler

\* Every variable of the web chat keeps its type, for any sessions and any bounds:
\* in particular the engine's messages and every checkpoint stay lists of whole
\* messages through every cancellation, switch and compaction.
THEOREM TypeCorrect == Spec => []TypeOK
<1>1. Init => TypeOK /\ HandlerOK
  BY InitType DEF Init, HandlerOK
<1>2. TypeOK /\ HandlerOK /\ [Next]_vars => TypeOK' /\ HandlerOK'
  <2> SUFFICES ASSUME TypeOK, HandlerOK, [Next]_vars
               PROVE  TypeOK'
    BY HandlerOKStep
  <2>1. CASE Client
    BY <2>1, ClientStep
  <2>2. CASE Handler
    BY <2>2, HandlerStep
  <2>3. ASSUME NEW t \in Turns,
               Runner(t) \/ Stream(t) \/ StreamTimeout(t) \/ Worker(t)
        PROVE  TypeOK'
    BY <2>3, RunnerType, StreamType, WorkerType
  <2>4. CASE UNCHANGED vars
    <3>1. HandlerType' /\ TasksType' /\ ProgressType'
      BY <2>4 DEF TypeOK, HandlerType, TasksType, ProgressType, vars, chat, tasks, prog
    <3>2. BridgeType' /\ EngineType' /\ GhostsType'
      BY <2>4 DEF TypeOK, BridgeType, EngineType, GhostsType, vars, bridge, engine, ghosts
    <3> QED
      BY <3>1, <3>2 DEF TypeOK
  <2> QED
    BY <2>1, <2>2, <2>3, <2>4 DEF Next
<1> QED
  BY <1>1, <1>2, PTL DEF Spec

-----------------------------------------------------------------------------
(* One connection whose sends do not suspend: the cancellation protocol.   *)

\* A turn is started once, and only when its message has been handled.
StartedOnce ==
    \A t \in Turns : run[t] # "none" =>
        t <= sent /\ (main = "await" /\ after = "chat" => t < sent)

\* A running turn is the handler's current one.
OnlyCurrentRuns == \A t \in Turns : RunAlive(t) => t = cur /\ t \in live

\* A generator lives exactly as long as its runner iterates over it or waits in it.
StreamOfRunner ==
    \A t \in Turns : /\ run[t] # "send" /\ strm[t] # "orphan"
                     /\ run[t] = "get" <=> strm[t] = "open"
                     /\ run[t] = "closing" <=> strm[t] = "closing"

StreamAlive(t) == strm[t] \in {"open", "closing"}

\* A worker does not outlive its generator, nor an approval its worker.
WorkerOfStream ==
    \A t \in Turns : /\ WorkAlive(t) => StreamAlive(t)
                     /\ appr[t] = "wait" => work[t] = "approval"

\* The queue holds items of living generators, and a done token only when the
\* worker that put it has ended.
QueueOfStream ==
    \A i \in 1 .. Len(queue) :
        /\ StreamAlive(queue[i].turn)
        /\ queue[i].kind = "done" => work[queue[i].turn] = "ended"

Protocol ==
    /\ StartedOnce /\ OnlyCurrentRuns /\ StreamOfRunner /\ WorkerOfStream
    /\ QueueOfStream

\* The protocol holds through the steps of a runner.
LEMMA RunnerProtocol ==
    ASSUME SlowSend = FALSE, TypeOK, Protocol, NEW t \in Turns, Runner(t)
    PROVE  Protocol'
<1> USE DEF TypeOK, Protocol
<1>1. CASE RunStart(t)
  <2>1. StartedOnce'
    BY <1>1 DEF StartedOnce, RunAlive, HandlerType, TasksType, RunStart, chat, bridge
  <2>2. OnlyCurrentRuns'
    BY <1>1 DEF OnlyCurrentRuns, RunAlive, HandlerType, TasksType, RunStart, chat,
       bridge
  <2>3. StreamOfRunner'
    BY <1>1 DEF StreamOfRunner, OnlyCurrentRuns, RunAlive, WorkAlive, TasksType,
       RunStart, chat, bridge
  <2>4. WorkerOfStream'
    BY <1>1 DEF WorkerOfStream, StreamOfRunner, OnlyCurrentRuns, QueueOfStream,
       StreamAlive, WorkAlive, RunAlive, TasksType, BridgeType, RunStart, chat, bridge
  <2>5. QueueOfStream'
    BY <1>1 DEF QueueOfStream, StreamOfRunner, OnlyCurrentRuns, WorkerOfStream,
       StreamAlive, WorkAlive, RunAlive, Event, Done, TasksType, BridgeType,
       QueueItem, RunStart, chat, bridge
  <2> QED
    BY <2>1, <2>2, <2>3, <2>4, <2>5 DEF Protocol
<1>2. CASE RunGet(t)
  <2>1. StartedOnce'
    BY <1>2 DEF StartedOnce, RunAlive, HandlerType, TasksType, RunGet, chat, bridge
  <2>2. OnlyCurrentRuns'
    BY <1>2 DEF OnlyCurrentRuns, RunAlive, HandlerType, TasksType, RunGet, chat,
       bridge
  <2>3. StreamOfRunner'
    BY <1>2 DEF StreamOfRunner, OnlyCurrentRuns, RunAlive, WorkAlive, TasksType,
       RunGet, chat, bridge
  <2>4. WorkerOfStream'
    BY <1>2 DEF WorkerOfStream, StreamOfRunner, OnlyCurrentRuns, QueueOfStream,
       StreamAlive, WorkAlive, RunAlive, TasksType, BridgeType, RunGet, chat, bridge
  <2>5. QueueOfStream'
    BY <1>2 DEF QueueOfStream, StreamOfRunner, OnlyCurrentRuns, WorkerOfStream,
       StreamAlive, WorkAlive, RunAlive, Event, Done, TasksType, BridgeType,
       QueueItem, RunGet, chat, bridge
  <2> QED
    BY <2>1, <2>2, <2>3, <2>4, <2>5 DEF Protocol
<1>3. CASE RunSent(t)
  <2>1. StartedOnce'
    BY <1>3 DEF StartedOnce, RunAlive, HandlerType, TasksType, RunSent, chat, bridge
  <2>2. OnlyCurrentRuns'
    BY <1>3 DEF OnlyCurrentRuns, RunAlive, HandlerType, TasksType, RunSent, chat,
       bridge
  <2>3. StreamOfRunner'
    BY <1>3 DEF StreamOfRunner, OnlyCurrentRuns, RunAlive, WorkAlive, TasksType,
       RunSent, chat, bridge
  <2>4. WorkerOfStream'
    BY <1>3 DEF WorkerOfStream, StreamOfRunner, OnlyCurrentRuns, QueueOfStream,
       StreamAlive, WorkAlive, RunAlive, TasksType, BridgeType, RunSent, chat, bridge
  <2>5. QueueOfStream'
    BY <1>3 DEF QueueOfStream, StreamOfRunner, OnlyCurrentRuns, WorkerOfStream,
       StreamAlive, WorkAlive, RunAlive, Event, Done, TasksType, BridgeType,
       QueueItem, RunSent, chat, bridge
  <2> QED
    BY <2>1, <2>2, <2>3, <2>4, <2>5 DEF Protocol
<1>4. CASE RunDone(t)
  <2>1. StartedOnce'
    BY <1>4 DEF StartedOnce, RunAlive, HandlerType, TasksType, RunDone, AllRejected,
       chat, bridge
  <2>2. OnlyCurrentRuns'
    BY <1>4 DEF OnlyCurrentRuns, RunAlive, HandlerType, TasksType, RunDone,
       AllRejected, chat, bridge
  <2>3. StreamOfRunner'
    BY <1>4 DEF StreamOfRunner, OnlyCurrentRuns, RunAlive, WorkAlive, TasksType,
       RunDone, AllRejected, chat, bridge
  <2>4. WorkerOfStream'
    <3>1. work[t] = "ended"
      <4>1. queue[1].kind = "done" /\ queue[1].turn = t /\ 1 \in 1 .. Len(queue)
        BY <1>4 DEF RunDone, Done, BridgeType
      <4> QED
        BY <4>1 DEF QueueOfStream
    <3>2. \A u \in Turns : appr'[u] # "wait"
      BY <1>4 DEF RunDone, AllRejected
    <3>3. work' = work /\ strm' = [strm EXCEPT ![t] = "closed"]
      BY <1>4 DEF RunDone
    <3> QED
      BY <3>1, <3>2, <3>3 DEF WorkerOfStream, StreamAlive, WorkAlive, TasksType
  <2>5. QueueOfStream'
    BY <1>4 DEF QueueOfStream, StreamOfRunner, OnlyCurrentRuns, WorkerOfStream,
       StreamAlive, WorkAlive, RunAlive, Event, Done, TasksType, BridgeType,
       QueueItem, RunDone, AllRejected, chat, bridge
  <2> QED
    BY <2>1, <2>2, <2>3, <2>4, <2>5 DEF Protocol
<1>5. CASE RunCancelled(t)
  <2>1. StartedOnce'
    BY <1>5 DEF StartedOnce, RunAlive, HandlerType, TasksType, RunCancelled, chat,
       bridge
  <2>2. OnlyCurrentRuns'
    BY <1>5 DEF OnlyCurrentRuns, RunAlive, HandlerType, TasksType, RunCancelled, chat,
       bridge
  <2>3. StreamOfRunner'
    BY <1>5 DEF StreamOfRunner, OnlyCurrentRuns, RunAlive, WorkAlive, TasksType,
       RunCancelled, chat, bridge
  <2>4. WorkerOfStream'
    BY <1>5 DEF WorkerOfStream, StreamOfRunner, OnlyCurrentRuns, QueueOfStream,
       StreamAlive, WorkAlive, RunAlive, TasksType, BridgeType, RunCancelled, chat,
       bridge
  <2>5. QueueOfStream'
    <3>1. queue' = queue /\ work' = work
      BY <1>5 DEF RunCancelled, bridge
    <3>2. ASSUME NEW u \in Turns, StreamAlive(u)
          PROVE  StreamAlive(u)'
      BY <1>5, <3>2 DEF RunCancelled, StreamOfRunner, StreamAlive, TasksType
    <3>3. \A i \in 1 .. Len(queue) : queue[i].turn \in Turns
      <4>1. \A i \in 1 .. Len(queue) : queue[i] \in QueueItem
        BY DEF BridgeType
      <4> QED
        BY <4>1 DEF QueueItem
    <3> QED
      BY <3>1, <3>2, <3>3 DEF QueueOfStream
  <2> QED
    BY <2>1, <2>2, <2>3, <2>4, <2>5 DEF Protocol
<1> QED
  BY <1>1, <1>2, <1>3, <1>4, <1>5 DEF Runner

\* Through those of a generator.
LEMMA StreamProtocol ==
    ASSUME SlowSend = FALSE, TypeOK, Protocol, NEW t \in Turns, Stream(t) \/ StreamTimeout(t)
    PROVE  Protocol'
<1> USE DEF TypeOK, Protocol
<1>1. CASE StreamAclose(t)
  <2>1. StartedOnce'
    BY <1>1 DEF StartedOnce, RunAlive, HandlerType, TasksType, StreamAclose,
       AllRejected, chat, bridge
  <2>2. OnlyCurrentRuns'
    BY <1>1 DEF OnlyCurrentRuns, RunAlive, HandlerType, TasksType, StreamAclose,
       AllRejected, chat, bridge
  <2>3. StreamOfRunner'
    BY <1>1 DEF StreamOfRunner, OnlyCurrentRuns, RunAlive, WorkAlive, TasksType,
       StreamAclose, AllRejected, chat, bridge
  <2>4. WorkerOfStream'
    BY <1>1 DEF WorkerOfStream, StreamOfRunner, OnlyCurrentRuns, QueueOfStream,
       StreamAlive, WorkAlive, RunAlive, TasksType, BridgeType, StreamAclose,
       AllRejected, chat, bridge
  <2>5. QueueOfStream'
    BY <1>1 DEF QueueOfStream, StreamOfRunner, OnlyCurrentRuns, WorkerOfStream,
       StreamAlive, WorkAlive, RunAlive, Event, Done, TasksType, BridgeType,
       QueueItem, StreamAclose, AllRejected, chat, bridge
  <2> QED
    BY <2>1, <2>2, <2>3, <2>4, <2>5 DEF Protocol
<1>2. CASE StreamClosed(t)
  <2>1. StartedOnce'
    BY <1>2 DEF StartedOnce, StreamOfRunner, TasksType, StreamClosed, chat
  <2>2. OnlyCurrentRuns'
    BY <1>2 DEF OnlyCurrentRuns, RunAlive, HandlerType, TasksType, StreamClosed,
       AllRejected, chat, bridge
  <2>3. StreamOfRunner'
    BY <1>2 DEF StreamOfRunner, OnlyCurrentRuns, RunAlive, WorkAlive, TasksType,
       StreamClosed, AllRejected, chat, bridge
  <2>4. WorkerOfStream'
    BY <1>2 DEF WorkerOfStream, StreamOfRunner, OnlyCurrentRuns, QueueOfStream,
       StreamAlive, WorkAlive, RunAlive, TasksType, BridgeType, StreamClosed,
       AllRejected, chat, bridge
  <2>5. QueueOfStream'
    BY <1>2 DEF QueueOfStream, StreamOfRunner, OnlyCurrentRuns, WorkerOfStream,
       StreamAlive, WorkAlive, RunAlive, Event, Done, TasksType, BridgeType,
       QueueItem, StreamClosed, AllRejected, chat, bridge
  <2> QED
    BY <2>1, <2>2, <2>3, <2>4, <2>5 DEF Protocol
<1>3. CASE StreamTimeout(t)
  <2>1. StartedOnce'
    BY <1>3 DEF StartedOnce, RunAlive, HandlerType, TasksType, StreamTimeout,
       AllRejected, chat, bridge
  <2>2. OnlyCurrentRuns'
    BY <1>3 DEF OnlyCurrentRuns, RunAlive, HandlerType, TasksType, StreamTimeout,
       AllRejected, chat, bridge
  <2>3. StreamOfRunner'
    BY <1>3 DEF StreamOfRunner, OnlyCurrentRuns, RunAlive, WorkAlive, TasksType,
       StreamTimeout, AllRejected, chat, bridge
  <2>4. WorkerOfStream'
    BY <1>3 DEF WorkerOfStream, StreamOfRunner, OnlyCurrentRuns, QueueOfStream,
       StreamAlive, WorkAlive, RunAlive, TasksType, BridgeType, StreamTimeout,
       AllRejected, chat, bridge
  <2>5. QueueOfStream'
    BY <1>3 DEF QueueOfStream, StreamOfRunner, OnlyCurrentRuns, WorkerOfStream,
       StreamAlive, WorkAlive, RunAlive, Event, Done, TasksType, BridgeType,
       QueueItem, StreamTimeout, AllRejected, chat, bridge
  <2> QED
    BY <2>1, <2>2, <2>3, <2>4, <2>5 DEF Protocol
<1> QED
  BY <1>1, <1>2, <1>3 DEF Stream

\* What one step of t's worker does to the protocol's variables: it puts its own
\* items in the queue, a done token only when it ends.
WorkerDoes(t) ==
    /\ WorkAlive(t)
    /\ UNCHANGED <<chat, run, strm>>
    /\ \A u \in Turns \ {t} : work'[u] = work[u]
    /\ \A i \in 1 .. Len(queue') :
          \/ i \in 1 .. Len(queue) /\ queue'[i] = queue[i]
          \/ queue'[i] = Event(t)
          \/ queue'[i] = Done(t) /\ work'[t] = "ended"

\* It asks for an approval only to wait for it.
WorkerAsks(t) ==
    /\ \A u \in Turns \ {t} : appr'[u] = appr[u]
    /\ appr'[t] = "wait" => work'[t] = "approval"

\* Appending an event, then perhaps a done token, only adds these two.
LEMMA AppendedItems ==
    ASSUME NEW t \in Turns, NEW q \in Seq(QueueItem)
    PROVE  /\ \A i \in 1 .. Len(Append(q, Event(t))) :
                 \/ i \in 1 .. Len(q) /\ Append(q, Event(t))[i] = q[i]
                 \/ Append(q, Event(t))[i] = Event(t)
           /\ \A i \in 1 .. Len(Append(q, Done(t))) :
                 \/ i \in 1 .. Len(q) /\ Append(q, Done(t))[i] = q[i]
                 \/ Append(q, Done(t))[i] = Done(t)
<1>1. Event(t) \in QueueItem /\ Done(t) \in QueueItem
  BY DEF Event, Done, QueueItem
<1> QED
  BY <1>1

\* q is the queue, perhaps with an event of t appended.
Grown(t, q) == q = queue \/ q = Append(queue, Event(t))

LEMMA GrownItems ==
    ASSUME TypeOK, NEW t \in Turns, NEW q, Grown(t, q)
    PROVE  /\ q \in Seq(QueueItem)
           /\ \A i \in 1 .. Len(q) :
                 (i \in 1 .. Len(queue) /\ q[i] = queue[i]) \/ q[i] = Event(t)
BY EventType, AppendedItems, SMTT(60) DEF Grown, TypeOK, BridgeType

LEMMA FinishDoes ==
    ASSUME TypeOK, NEW t \in Turns, NEW m, NEW q, Grown(t, q), Finish(t, m, q)
    PROVE  /\ work' = [work EXCEPT ![t] = "ended"]
           /\ \A i \in 1 .. Len(queue') :
                 \/ i \in 1 .. Len(queue) /\ queue'[i] = queue[i]
                 \/ queue'[i] = Event(t)
                 \/ queue'[i] = Done(t)
<1>1. q \in Seq(QueueItem) /\ queue' = Append(q, Done(t))
  BY GrownItems DEF Finish
<1>2. \A i \in 1 .. Len(queue') :
         (i \in 1 .. Len(q) /\ queue'[i] = q[i]) \/ queue'[i] = Done(t)
  BY <1>1, AppendedItems
<1> QED
  BY <1>2, GrownItems DEF Finish

LEMMA AfterDispatchDoes ==
    ASSUME TypeOK, NEW t \in Turns, NEW q, Grown(t, q), AfterDispatch(t, q)
    PROVE  /\ \/ work' = [work EXCEPT ![t] = "ended"]
              \/ work' = [work EXCEPT ![t] = "compact"]
           /\ \A i \in 1 .. Len(queue') :
                 \/ i \in 1 .. Len(queue) /\ queue'[i] = queue[i]
                 \/ queue'[i] = Event(t)
                 \/ queue'[i] = Done(t) /\ work'[t] = "ended"
<1>1. ASSUME NEW m, Finish(t, m, q)
      PROVE  /\ work' = [work EXCEPT ![t] = "ended"] /\ work'[t] = "ended"
             /\ \A i \in 1 .. Len(queue') :
                 \/ i \in 1 .. Len(queue) /\ queue'[i] = queue[i]
                 \/ queue'[i] = Event(t)
                 \/ queue'[i] = Done(t) /\ work'[t] = "ended"
  BY <1>1, FinishDoes DEF TypeOK, TasksType
<1>2. CASE work' = [work EXCEPT ![t] = "compact"] /\ queue' = q
  BY <1>2, GrownItems
<1> QED
  BY <1>1, <1>2 DEF AfterDispatch

\* Once a worker's step does only that, the protocol holds after it.
LEMMA WorkerDoesProtocol ==
    ASSUME TypeOK, Protocol, NEW t \in Turns, WorkerDoes(t), WorkerAsks(t)
    PROVE  Protocol'
<1> USE DEF TypeOK, Protocol
<1>1. UNCHANGED <<main, after, cur, live, sent, run, strm>>
  BY DEF WorkerDoes, chat
<1>2. StartedOnce' /\ OnlyCurrentRuns' /\ StreamOfRunner'
  BY <1>1 DEF StartedOnce, OnlyCurrentRuns, StreamOfRunner, RunAlive
<1>3. StreamAlive(t)
  BY DEF WorkerDoes, WorkerOfStream
<1>4. WorkerOfStream'
  BY <1>1, <1>3 DEF WorkerDoes, WorkerAsks, WorkerOfStream, StreamAlive, WorkAlive
<1>5. QueueOfStream'
  <2> SUFFICES ASSUME NEW i \in 1 .. Len(queue')
               PROVE  /\ strm'[queue'[i].turn] \in {"open", "closing"}
                      /\ queue'[i].kind = "done" => work'[queue'[i].turn] = "ended"
    BY DEF QueueOfStream, StreamAlive
  <2>1. CASE i \in 1 .. Len(queue) /\ queue'[i] = queue[i]
    <3>1. queue[i] \in QueueItem
      BY <2>1 DEF BridgeType
    <3>2. queue[i].turn \in Turns
      BY <3>1 DEF QueueItem
    <3>3. StreamAlive(queue[i].turn) /\ (queue[i].kind = "done" => work[queue[i].turn] = "ended")
      BY <2>1 DEF QueueOfStream
    <3> QED
      BY <1>1, <2>1, <3>2, <3>3 DEF StreamAlive, WorkerDoes, WorkAlive
  <2>2. CASE queue'[i] = Event(t)
    BY <1>1, <1>3, <2>2 DEF Event, StreamAlive
  <2>3. CASE queue'[i] = Done(t) /\ work'[t] = "ended"
    BY <1>1, <1>3, <2>3 DEF Done, StreamAlive
  <2> QED
    BY <2>1, <2>2, <2>3 DEF WorkerDoes
<1> QED
  BY <1>2, <1>4, <1>5

LEMMA StreamOverDoes ==
    ASSUME TypeOK, NEW t \in Turns, work[t] = "llm", StreamOver(t),
           UNCHANGED <<chat, run, strm>>
    PROVE  WorkerDoes(t)
<1> USE DEF TypeOK
<1>1. WorkAlive(t)
  BY DEF WorkAlive
<1>2. CASE t \notin calling
  <2>1. AfterDispatch(t, Append(queue, Event(t)))
    BY <1>2 DEF StreamOver
  <2>2. Grown(t, Append(queue, Event(t)))
    BY DEF Grown
  <2> QED
    BY <1>1, <2>1, <2>2, AfterDispatchDoes DEF WorkerDoes, TasksType
<1>3. CASE work' = [work EXCEPT ![t] = "tool"] /\ UNCHANGED <<appr, queue>>
  BY <1>1, <1>3 DEF WorkerDoes, TasksType
<1>4. CASE work' = [work EXCEPT ![t] = "approval"] /\ queue' = Append(queue, Event(t))
  BY <1>1, <1>4, AppendedItems DEF WorkerDoes, TasksType, BridgeType
<1> QED
  BY <1>2, <1>3, <1>4 DEF StreamOver

\* Every step of a worker is such a step.
LEMMA WorkerSteps ==
    ASSUME TypeOK, NEW t \in Turns, Worker(t)
    PROVE  WorkerDoes(t)
<1> USE DEF TypeOK
<1>1. CASE \/ WorkStart(t) \/ WorkAssembled(t) \/ WorkRetry(t) \/ WorkRetried(t)
           \/ WorkApproval(t)
  <2>1. WorkAlive(t) /\ UNCHANGED <<chat, run, strm, queue>>
    BY <1>1 DEF WorkStart, WorkAssembled, WorkRetry, WorkRetried, WorkApproval, Working,
       WorkAlive, bridge
  <2>2. \A u \in Turns \ {t} : work'[u] = work[u]
    BY <1>1 DEF WorkStart, WorkAssembled, WorkRetry, WorkRetried, WorkApproval, TasksType
  <2> QED
    BY <2>1, <2>2 DEF WorkerDoes
<1>2. CASE WorkChunk(t) \/ WorkToolCall(t) \/ WorkToolEnd(t)
  <2>1. /\ work[t] \in {"llm", "tool"} /\ queue' = Append(queue, Event(t))
        /\ UNCHANGED <<chat, run, strm>>
    BY <1>2 DEF WorkChunk, WorkToolCall, WorkToolEnd, Working
  <2>2. \A u \in Turns \ {t} : work'[u] = work[u]
    BY <1>2 DEF WorkChunk, WorkToolCall, WorkToolEnd, TasksType
  <2> QED
    BY <2>1, <2>2, AppendedItems DEF WorkerDoes, WorkAlive, BridgeType
<1>3. CASE WorkLlmEnd(t)
  <2>1. StreamOver(t) /\ work[t] = "llm" /\ UNCHANGED <<chat, run, strm>>
    BY <1>3 DEF WorkLlmEnd, Working
  <2> QED
    BY <2>1, StreamOverDoes
<1>4. CASE WorkLlmError(t)
  <2>1. /\ AfterDispatch(t, Append(queue, Event(t))) /\ work[t] = "llm"
        /\ UNCHANGED <<chat, run, strm>>
    BY <1>4 DEF WorkLlmError, Working
  <2>2. Grown(t, Append(queue, Event(t)))
    BY DEF Grown
  <2>3. /\ \/ work' = [work EXCEPT ![t] = "ended"]
           \/ work' = [work EXCEPT ![t] = "compact"]
        /\ \A i \in 1 .. Len(queue') :
              \/ i \in 1 .. Len(queue) /\ queue'[i] = queue[i]
              \/ queue'[i] = Event(t)
              \/ queue'[i] = Done(t) /\ work'[t] = "ended"
    BY <2>1, <2>2, AfterDispatchDoes
  <2>4. \A u \in Turns \ {t} : work'[u] = work[u]
    BY <2>3 DEF TasksType
  <2> QED
    BY <2>1, <2>3, <2>4 DEF WorkerDoes, WorkAlive
<1>5. CASE WorkCompacted(t)
  <2>1. /\ Finish(t, Compacted(snap[t]), queue) /\ work[t] = "compact"
        /\ UNCHANGED <<chat, run, strm>>
    BY <1>5 DEF WorkCompacted, Working
  <2> QED
    BY <2>1, FinishDoes DEF WorkerDoes, WorkAlive, TasksType, Grown
<1>6. CASE WorkCancelled(t)
  <2>1. WorkAlive(t) /\ UNCHANGED <<chat, run, strm>>
    BY <1>6 DEF WorkCancelled
  <2>2. CASE work' = [work EXCEPT ![t] = "ended"] /\ UNCHANGED queue
    BY <2>1, <2>2 DEF WorkerDoes, TasksType
  <2>3. CASE work[t] = "llm" /\ StreamOver(t)
    BY <2>1, <2>3, StreamOverDoes
  <2>4. CASE Aborted(t)
    BY <2>1, <2>4, AppendedItems DEF Aborted, WorkerDoes, TasksType, BridgeType
  <2>5. CASE Finish(t, Compacted(snap[t]), queue)
    BY <2>1, <2>5, FinishDoes DEF WorkerDoes, TasksType, Grown
  <2> QED
    BY <1>6, <2>2, <2>3, <2>4, <2>5 DEF WorkCancelled
<1> QED
  BY <1>1, <1>2, <1>3, <1>4, <1>5, <1>6 DEF Worker

\* An approval that waits belongs to a worker that waits for it.
LEMMA NoWait ==
    ASSUME Protocol, NEW t \in Turns, work[t] # "approval"
    PROVE  appr[t] # "wait"
BY DEF Protocol, WorkerOfStream

\* A step that leaves the approvals alone asks for none.
LEMMA WorkerAsksNothing ==
    ASSUME Protocol, NEW t \in Turns, work[t] # "approval", appr' = appr
    PROVE  WorkerAsks(t)
BY NoWait DEF WorkerAsks

LEMMA WorkerApprovals ==
    ASSUME TypeOK, Protocol, NEW t \in Turns, Worker(t)
    PROVE  WorkerAsks(t)
<1> USE DEF TypeOK
<1>1. CASE \/ WorkStart(t) \/ WorkAssembled(t) \/ WorkRetry(t) \/ WorkRetried(t)
           \/ WorkChunk(t) \/ WorkToolCall(t) \/ WorkToolEnd(t) \/ WorkLlmError(t)
           \/ WorkCompacted(t)
  <2>1. work[t] # "approval" /\ appr' = appr
    BY <1>1 DEF WorkStart, WorkAssembled, WorkRetry, WorkRetried, WorkChunk, WorkToolCall,
       WorkToolEnd, WorkLlmError, WorkCompacted, Working, bridge
  <2> QED
    BY <2>1, WorkerAsksNothing
<1>2. CASE WorkApproval(t)
  BY <1>2 DEF WorkApproval, WorkerAsks, BridgeType
<1>3. ASSUME work[t] = "llm", StreamOver(t)
      PROVE  WorkerAsks(t)
  <2>1. CASE appr' = appr
    BY <1>3, <2>1, WorkerAsksNothing
  <2>2. CASE appr' = [appr EXCEPT ![t] = "wait"] /\ work' = [work EXCEPT ![t] = "approval"]
    BY <2>2 DEF WorkerAsks, BridgeType, TasksType
  <2> QED
    BY <1>3, <2>1, <2>2 DEF StreamOver
<1>4. CASE WorkLlmEnd(t)
  BY <1>3, <1>4 DEF WorkLlmEnd, Working
<1>5. CASE WorkCancelled(t)
  <2>1. CASE work[t] # "approval" /\ appr' = appr
    BY <2>1, WorkerAsksNothing
  <2>2. CASE Aborted(t)
    BY <2>2 DEF Aborted, WorkerAsks, BridgeType
  <2> QED
    BY <1>3, <1>5, <2>1, <2>2 DEF WorkCancelled
<1> QED
  BY <1>1, <1>2, <1>4, <1>5 DEF Worker

\* Starting the turn of the message just received keeps the protocol, once no
\* runner runs.
LEMMA ContinueProtocol ==
    ASSUME TypeOK, Protocol, NEW act \in {"chat", "stop", "missing"} \cup Sessions,
           main' = "recv", \A t \in Turns : ~RunAlive(t),
           sent' \in 0 .. MaxTurns, sent <= sent',
           act = "chat" =>
               sent' \in Turns /\ \A t \in Turns : run[t] # "none" => t < sent',
           Continue(act), UNCHANGED <<strm, work, bridge>>
    PROVE  Protocol'
<1> USE DEF TypeOK, Protocol
<1>1. appr' = appr /\ queue' = queue /\ strm' = strm /\ work' = work
  BY DEF bridge
<1>2. \A t \in Turns : ~StreamAlive(t) /\ strm[t] # "orphan"
  BY DEF StreamOfRunner, RunAlive, StreamAlive
<1>3. WorkerOfStream'
  BY <1>1 DEF WorkerOfStream, WorkAlive, StreamAlive
<1>4. QueueOfStream'
  BY <1>1 DEF QueueOfStream, StreamAlive
<1>5. CASE act = "chat" /\ StartTurn(sent')
  <2>1. run' = [run EXCEPT ![sent'] = "created"] /\ cur' = sent' /\ sent' \in live'
    BY <1>5 DEF StartTurn
  <2>2. StartedOnce'
    BY <1>5, <2>1 DEF StartedOnce, TasksType, HandlerType
  <2>3. OnlyCurrentRuns'
    BY <1>5, <2>1 DEF RunAlive, OnlyCurrentRuns, TasksType
  <2>4. StreamOfRunner'
    BY <1>1, <1>2, <1>5, <2>1 DEF StreamOfRunner, RunAlive, StreamAlive, TasksType
  <2> QED
    BY <1>3, <1>4, <2>2, <2>3, <2>4
<1>6. CASE run' = run
  <2>1. StartedOnce'
    BY <1>6 DEF StartedOnce, HandlerType
  <2>2. OnlyCurrentRuns' /\ StreamOfRunner'
    BY <1>1, <1>6 DEF RunAlive, OnlyCurrentRuns, StreamOfRunner
  <2> QED
    BY <1>3, <1>4, <2>1, <2>2
<1> QED
  BY <1>5, <1>6 DEF Continue, OpenSession

LEMMA HandleProtocol ==
    ASSUME TypeOK, Protocol, NEW act \in {"chat", "stop", "missing"} \cup Sessions,
           sent <= sent', act = "chat" => sent < sent',
           sent' \in 0 .. MaxTurns, Handle(act)
    PROVE  Protocol'
<1> USE DEF TypeOK
<1>1. UNCHANGED <<strm, work, bridge>> /\ main = "recv"
  BY DEF Handle
<1>2. CASE cur # 0 /\ RunAlive(cur)
  <2>1. UNCHANGED <<run, cur, live>> /\ main' = "await" /\ after' = act
    BY <1>2 DEF Handle
  <2>2. StartedOnce'
    BY <2>1 DEF Protocol, StartedOnce, HandlerType
  <2>3. OnlyCurrentRuns' /\ StreamOfRunner' /\ WorkerOfStream' /\ QueueOfStream'
    BY <1>1, <2>1 DEF Protocol, OnlyCurrentRuns, StreamOfRunner, WorkerOfStream,
       QueueOfStream, RunAlive, WorkAlive, StreamAlive, bridge
  <2> QED
    BY <2>2, <2>3 DEF Protocol
<1>3. CASE ~(cur # 0 /\ RunAlive(cur))
  <2>1. Continue(act) /\ main' = "recv"
    BY <1>1, <1>3 DEF Handle
  <2>2. \A t \in Turns : ~RunAlive(t)
    BY <1>3 DEF Protocol, OnlyCurrentRuns
  <2>3. \A t \in Turns : run[t] # "none" => t <= sent
    BY DEF Protocol, StartedOnce
  <2>4. /\ sent <= sent'
        /\ act = "chat" =>
               sent' \in Turns /\ \A t \in Turns : run[t] # "none" => t < sent'
    BY <2>3 DEF HandlerType
  <2> QED
    BY <1>1, <2>1, <2>2, <2>4, ContinueProtocol
<1> QED
  BY <1>2, <1>3

LEMMA HandlerProtocol ==
    ASSUME TypeOK, HandlerOK, Protocol, MaxConns = 1, Client \/ Handler
    PROVE  Protocol'
<1> USE DEF TypeOK
<1>1. CASE RecvChat
  <2>1. sent < sent' /\ sent <= sent' /\ sent' \in 0 .. MaxTurns /\ Handle("chat")
    BY <1>1 DEF RecvChat, HandlerType
  <2> QED
    BY <2>1, HandleProtocol
<1>2. ASSUME NEW act \in {"stop", "missing"} \cup Sessions, sent' = sent, Handle(act)
      PROVE  Protocol'
  <2>1. sent <= sent' /\ sent' \in 0 .. MaxTurns /\ act # "chat"
    BY <1>2 DEF HandlerType
  <2> QED
    BY <1>2, <2>1, HandleProtocol
<1>3. CASE \/ RecvStop \/ RecvMissingSession
           \/ \E s \in Sessions : RecvSession(s)
  BY <1>2, <1>3 DEF RecvStop, RecvMissingSession, RecvSession
<1>4. CASE RecvCompact \/ CompactDone
  <2>1. /\ UNCHANGED <<after, cur, live, sent, tasks, bridge>>
        /\ main' # "await"
    BY <1>4 DEF RecvCompact, CompactDone
  <2>2. StartedOnce' /\ OnlyCurrentRuns' /\ StreamOfRunner'
    BY <2>1 DEF Protocol, StartedOnce, OnlyCurrentRuns, StreamOfRunner, RunAlive, tasks
  <2>3. WorkerOfStream' /\ QueueOfStream'
    BY <2>1 DEF Protocol, WorkerOfStream, QueueOfStream, WorkAlive, StreamAlive, tasks,
       bridge
  <2> QED
    BY <2>2, <2>3 DEF Protocol
<1>5. ASSUME NEW t \in Turns, NEW a \in {"yes", "no"}, RecvPermission(t, a)
      PROVE  Protocol'
  <2>1. UNCHANGED <<chat, tasks, queue>> /\ appr' = [appr EXCEPT ![t] = a]
    BY <1>5 DEF RecvPermission
  <2>2. StartedOnce' /\ OnlyCurrentRuns' /\ StreamOfRunner' /\ QueueOfStream'
    BY <2>1 DEF Protocol, StartedOnce, OnlyCurrentRuns, StreamOfRunner, QueueOfStream,
       RunAlive, StreamAlive, chat, tasks
  <2>3. \A u \in Turns : appr'[u] = "wait" => appr[u] = "wait"
    BY <2>1 DEF BridgeType
  <2>4. WorkerOfStream'
    BY <2>1, <2>3 DEF Protocol, WorkerOfStream, WorkAlive, StreamAlive, tasks
  <2> QED
    BY <2>2, <2>4 DEF Protocol
<1>6. ASSUME Disconnect \/ \E s \in Sessions : Connect(s)
      PROVE  FALSE
  <2>1. conn \in 1 .. 1
    BY DEF HandlerType
  <2>2. conn < MaxConns
    BY <1>6 DEF Disconnect, Connect, HandlerOK
  <2> QED
    BY <2>1, <2>2
<1>7. CASE Resume
  <2>1. /\ Continue(after) /\ main = "await" /\ main' = "recv" /\ ~RunAlive(cur)
        /\ sent' = sent
    BY <1>7 DEF Resume
  <2>2. UNCHANGED <<strm, work, bridge>>
    BY <1>7 DEF Resume
  <2>3. after \in {"chat", "stop", "missing"} \cup Sessions
    BY <2>1 DEF HandlerType, HandlerOK
  <2>4. \A t \in Turns : ~RunAlive(t)
    BY <2>1 DEF Protocol, OnlyCurrentRuns
  <2>5. /\ sent' \in 0 .. MaxTurns /\ sent <= sent'
        /\ after = "chat" =>
               sent' \in Turns /\ \A t \in Turns : run[t] # "none" => t < sent'
    BY <2>1 DEF HandlerType, HandlerOK, Protocol, StartedOnce
  <2> QED
    BY <2>1, <2>2, <2>3, <2>4, <2>5, ContinueProtocol
<1> QED
  BY <1>1, <1>3, <1>4, <1>5, <1>6, <1>7 DEF Client, Handler

LEMMA ProtocolInvariant ==
    ASSUME SlowSend = FALSE, MaxConns = 1
    PROVE  Spec => [](TypeOK /\ HandlerOK /\ Protocol)
<1>1. Init => TypeOK /\ HandlerOK /\ Protocol
  <2> SUFFICES ASSUME Init PROVE Protocol
    BY InitType DEF Init, HandlerOK
  <2>1. StartedOnce /\ OnlyCurrentRuns /\ StreamOfRunner
    BY DEF Init, StartedOnce, OnlyCurrentRuns, StreamOfRunner, RunAlive
  <2>2. WorkerOfStream /\ QueueOfStream
    BY DEF Init, WorkerOfStream, QueueOfStream, WorkAlive
  <2> QED
    BY <2>1, <2>2 DEF Protocol
<1>2. TypeOK /\ HandlerOK /\ [Next]_vars => HandlerOK'
  BY HandlerOKStep
<1>3. TypeOK /\ HandlerOK /\ Protocol /\ [Next]_vars => Protocol'
  <2> SUFFICES ASSUME TypeOK, HandlerOK, Protocol, [Next]_vars
               PROVE  Protocol'
    OBVIOUS
  <2>1. CASE Client \/ Handler
    BY <2>1, HandlerProtocol
  <2>2. ASSUME NEW t \in Turns,
               Runner(t) \/ Stream(t) \/ StreamTimeout(t) \/ Worker(t)
        PROVE  Protocol'
    BY <2>2, RunnerProtocol, StreamProtocol, WorkerSteps, WorkerApprovals,
       WorkerDoesProtocol
  <2>3. CASE UNCHANGED vars
    <3>1. UNCHANGED <<chat, tasks, bridge>>
      BY <2>3 DEF vars
    <3> QED
      BY <3>1 DEF Protocol, StartedOnce, OnlyCurrentRuns, StreamOfRunner, WorkerOfStream,
         QueueOfStream, RunAlive, WorkAlive, StreamAlive, chat, tasks, bridge
  <2> QED
    BY <2>1, <2>2, <2>3 DEF Next
<1> QED
  BY <1>1, <1>2, <1>3, TypeCorrect, PTL DEF Spec

\* chat.py:6 and 170. On one connection whose sends do not suspend, whatever messages
\* the client sends and however many turns: when the handler is back at its receive
\* loop with no running turn, no runner, worker, approval or queue item is left.
THEOREM NothingIsLeftBehind ==
    ASSUME SlowSend = FALSE, MaxConns = 1
    PROVE  Spec => []NothingLeftBehind
<1>1. TypeOK /\ Protocol => NothingLeftBehind
  <2> SUFFICES ASSUME TypeOK, Protocol, ~(cur # 0 /\ RunAlive(cur))
               PROVE  /\ \A t \in Turns : ~RunAlive(t) /\ ~WorkAlive(t) /\ appr[t] # "wait"
                      /\ queue = <<>>
    BY DEF NothingLeftBehind
  <2>1. \A t \in Turns : ~RunAlive(t)
    BY DEF Protocol, OnlyCurrentRuns
  <2>2. \A t \in Turns : ~StreamAlive(t)
    BY <2>1 DEF Protocol, StreamOfRunner, StreamAlive, RunAlive
  <2>3. \A t \in Turns : ~WorkAlive(t) /\ appr[t] # "wait"
    BY <2>2 DEF Protocol, WorkerOfStream, WorkAlive
  <2>4. queue = <<>>
    <3>1. queue \in Seq(QueueItem)
      BY DEF TypeOK, BridgeType
    <3>2. ASSUME queue # <<>>
          PROVE  FALSE
      <4>1. 1 \in 1 .. Len(queue) /\ queue[1] \in QueueItem
        BY <3>1, <3>2
      <4> QED
        BY <2>2, <4>1 DEF Protocol, QueueOfStream, QueueItem
    <3> QED
      BY <3>2
  <2> QED
    BY <2>1, <2>3, <2>4
<1> QED
  BY <1>1, ProtocolInvariant, PTL

\* Under the same conditions two turns never work on the engine's messages at the
\* same time.
THEOREM OneWorkerAtATime ==
    ASSUME SlowSend = FALSE, MaxConns = 1
    PROVE  Spec => []OneWorker
<1>1. TypeOK /\ Protocol => OneWorker
  BY DEF OneWorker, Protocol, WorkerOfStream, StreamOfRunner, StreamAlive,
     OnlyCurrentRuns, RunAlive
<1> QED
  BY <1>1, ProtocolInvariant, PTL

\* web_bridge.py:72-75, under the same conditions: the queue a runner reads holds
\* its own turn's items only.
THEOREM RunnersReadTheirOwn ==
    ASSUME SlowSend = FALSE, MaxConns = 1
    PROVE  Spec => []OwnEventsOnly
<1>1. TypeOK /\ Protocol => OwnEventsOnly
  <2> SUFFICES ASSUME TypeOK, Protocol, NEW t \in Turns, run[t] \in {"get", "send"},
                      NEW i \in 1 .. Len(queue)
               PROVE  queue[i].turn = t
    BY DEF OwnEventsOnly
  <2>1. queue[i] \in QueueItem
    BY DEF TypeOK, BridgeType
  <2>2. queue[i].turn \in Turns /\ StreamAlive(queue[i].turn)
    BY <2>1 DEF QueueItem, Protocol, QueueOfStream
  <2>3. RunAlive(queue[i].turn) /\ RunAlive(t)
    BY <2>2 DEF Protocol, StreamOfRunner, StreamAlive, RunAlive
  <2> QED
    BY <2>2, <2>3 DEF Protocol, OnlyCurrentRuns
<1> QED
  BY <1>1, ProtocolInvariant, PTL

-----------------------------------------------------------------------------
(* What saying something and compacting do to a history.                   *)

\* Saying m adds m, and nothing else, at the end.
LEMMA SayAdds ==
    ASSUME NEW h \in History, NEW m \in Message
    PROVE  /\ Say(h, m).noted = h.noted
           /\ Len(Say(h, m).talk) = Len(h.talk) + 1
           /\ \A i \in 1 .. Len(h.talk) : Say(h, m).talk[i] = h.talk[i]
           /\ Say(h, m).talk[Len(h.talk) + 1] = m
BY DEF Say, History

\* Where the i-th message of a compaction stood before it.
Position(h, i) ==
    IF Len(h.talk) <= KeepHead + KeepTail \/ i <= KeepHead
    THEN i
    ELSE i + Len(h.talk) - (KeepHead + KeepTail)

\* A compaction keeps messages in their order.
LEMMA CompactedPositions ==
    ASSUME NEW h \in History
    PROVE  /\ \A i \in 1 .. Len(Compacted(h).talk) :
                 /\ Position(h, i) \in 1 .. Len(h.talk)
                 /\ Compacted(h).talk[i] = h.talk[Position(h, i)]
           /\ \A i, j \in 1 .. Len(Compacted(h).talk) :
                 i < j => Position(h, i) < Position(h, j)
<1> DEFINE n == Len(h.talk)
           head == SubSeq(h.talk, 1, KeepHead)
           tail == SubSeq(h.talk, n - KeepTail + 1, n)
<1>1. h.talk \in Seq(Message) /\ n \in Nat
  BY DEF History
<1>2. CASE n <= KeepHead + KeepTail
  BY <1>1, <1>2 DEF Compacted, Position
<1>3. CASE n > KeepHead + KeepTail
  <2>1. Compacted(h).talk = head \o tail
    <3>1. ~(n <= KeepHead + KeepTail)
      BY <1>1, <1>3
    <3> QED
      BY ONLY <3>1 DEF Compacted
  <2>2. /\ head \in Seq(Message) /\ Len(head) = KeepHead
        /\ \A i \in 1 .. KeepHead : head[i] = h.talk[i]
    BY <1>1, <1>3
  <2>3. /\ tail \in Seq(Message) /\ Len(tail) = KeepTail
        /\ \A i \in 1 .. KeepTail : tail[i] = h.talk[n - KeepTail + i]
    BY <1>1, <1>3
  <2> HIDE DEF head, tail
  <2>4. /\ Len(Compacted(h).talk) = KeepHead + KeepTail
        /\ \A i \in 1 .. KeepHead : Compacted(h).talk[i] = h.talk[i]
        /\ \A i \in KeepHead + 1 .. KeepHead + KeepTail :
              Compacted(h).talk[i] = h.talk[n - KeepTail + (i - KeepHead)]
    <3>1. /\ Len(head \o tail) = KeepHead + KeepTail
          /\ \A i \in 1 .. KeepHead + KeepTail :
                (head \o tail)[i] = IF i <= KeepHead THEN head[i] ELSE tail[i - KeepHead]
      <4>1. /\ Len(head \o tail) = Len(head) + Len(tail)
            /\ \A i \in 1 .. Len(head) + Len(tail) :
                  (head \o tail)[i] = IF i <= Len(head) THEN head[i] ELSE tail[i - Len(head)]
        <5>1. head \in Seq(Message) /\ tail \in Seq(Message)
          BY <2>2, <2>3
        <5> QED
          BY ONLY <5>1, ConcatProperties
      <4> QED
        BY <2>2, <2>3, <4>1
    <3>2. \A i \in KeepHead + 1 .. KeepHead + KeepTail : i - KeepHead \in 1 .. KeepTail
      OBVIOUS
    <3> QED
      BY <2>1, <2>2, <2>3, <3>1, <3>2
  <2>5. /\ \A i \in 1 .. KeepHead : Position(h, i) = i
        /\ \A i \in KeepHead + 1 .. KeepHead + KeepTail :
              Position(h, i) = n - KeepTail + (i - KeepHead)
    BY <1>1, <1>3 DEF Position
  <2> HIDE DEF n
  <2>6. \A i \in 1 .. KeepHead + KeepTail :
            /\ Position(h, i) = IF i <= KeepHead THEN i ELSE n - KeepTail + (i - KeepHead)
            /\ Position(h, i) \in 1 .. n
    BY <1>1, <1>3, <2>5
  <2>7. \A i \in 1 .. KeepHead + KeepTail : Compacted(h).talk[i] = h.talk[Position(h, i)]
    BY <2>4, <2>5
  <2>8. \A i, j \in 1 .. KeepHead + KeepTail : i < j => Position(h, i) < Position(h, j)
    BY <1>1, <1>3, <2>6
  <2> QED
    BY <2>4, <2>6, <2>7, <2>8 DEF n
<1> QED
  BY <1>1, <1>2, <1>3

\* It speaks of no other turn.
LEMMA CompactedTurns ==
    ASSUME NEW h \in History
    PROVE  TurnsIn(Compacted(h)) \subseteq TurnsIn(h)
<1>1. \A i \in 1 .. Len(Compacted(h).talk) : Compacted(h).talk[i].turn \in TurnsIn(h)
  BY CompactedPositions DEF TurnsIn
<1>2. Compacted(h).noted \subseteq TurnsIn(h)
  <2>1. \A i \in KeepHead + 1 .. Len(h.talk) - KeepTail : i \in 1 .. Len(h.talk)
    BY DEF History
  <2> QED
    BY <2>1 DEF Compacted, TurnsIn
<1> QED
  BY <1>1, <1>2 DEF TurnsIn

\* What it keeps is in order when the whole was.
LEMMA CompactedInOrder ==
    ASSUME NEW h \in History, InOrder(h.talk)
    PROVE  InOrder(Compacted(h).talk)
BY CompactedPositions DEF InOrder

\* An answer stays, or the marker stands for its turn.
LEMMA CompactedMentions ==
    ASSUME NEW h \in History, NEW t \in Turns, Mentions(h, t)
    PROVE  Mentions(Compacted(h), t)
<1> DEFINE n == Len(h.talk)
<1>1. h.talk \in Seq(Message) /\ n \in Nat
  BY DEF History
<1>2. CASE n <= KeepHead + KeepTail
  BY <1>2 DEF Compacted
<1>3. CASE n > KeepHead + KeepTail
  <2>1. CASE t \in h.noted
    BY <1>1, <1>3, <2>1 DEF Compacted, Mentions
  <2>2. ASSUME NEW i \in 1 .. n, h.talk[i] = Answer(t)
        PROVE  Mentions(Compacted(h), t)
    <3>1. CASE i \in KeepHead + 1 .. n - KeepTail
      <4>1. h.talk[i].turn \in Compacted(h).noted
        BY <1>1, <1>3, <3>1 DEF Compacted
      <4> QED
        BY <2>2, <4>1 DEF Mentions, Answer
    <3>2. ASSUME NEW j \in 1 .. Len(Compacted(h).talk), Position(h, j) = i
          PROVE  Mentions(Compacted(h), t)
      BY <2>2, <3>2, CompactedPositions DEF Mentions
    <3>3. Len(Compacted(h).talk) = KeepHead + KeepTail
      BY <1>1, <1>3 DEF Compacted
    <3>4. CASE i <= KeepHead
      <4>1. Position(h, i) = i /\ i \in 1 .. Len(Compacted(h).talk)
        BY <1>1, <3>3, <3>4 DEF Position
      <4> QED
        BY <3>2, <4>1
    <3>5. CASE i > n - KeepTail
      <4>1. PICK j \in KeepHead + 1 .. KeepHead + KeepTail :
                   j + n - (KeepHead + KeepTail) = i
        <5>1. /\ KeepHead \in Nat /\ KeepTail \in Nat /\ i \in Nat /\ n \in Nat
              /\ i <= n /\ i > n - KeepTail /\ n > KeepHead + KeepTail
          BY <1>1, <1>3, <3>5
        <5> HIDE DEF n
        <5>2. i - (n - (KeepHead + KeepTail)) \in KeepHead + 1 .. KeepHead + KeepTail
          BY ONLY <5>1
        <5>3. i - (n - (KeepHead + KeepTail)) + n - (KeepHead + KeepTail) = i
          BY ONLY <5>1
        <5> QED
          BY ONLY <5>2, <5>3
      <4>2. Position(h, j) = j + n - (KeepHead + KeepTail)
        BY <1>1, <1>3 DEF Position
      <4> QED
        BY <3>2, <3>3, <4>1, <4>2
    <3> QED
      BY <1>1, <3>1, <3>4, <3>5
  <2> QED
    BY <2>1, <2>2, <1>3, Mentions(h, t) DEF Mentions
<1> QED
  BY <1>1, <1>2, <1>3

-----------------------------------------------------------------------------
(* Any connections, and sends that may suspend: what the done tokens mean. *)

\* A turn has a generator and a worker only once its runner runs.
WorkOfRunner ==
    \A t \in Turns : run[t] \in {"none", "created"} => strm[t] = "none" /\ work[t] = "none"

\* A done token is put in the queue when its worker ends, and a worker ends once.
TokensOfEnded ==
    \A i \in 1 .. Len(queue) : queue[i].kind = "done" => work[queue[i].turn] = "ended"

Tokens == StartedOnce /\ WorkOfRunner /\ TokensOfEnded /\ DoneIsOwn

LEMMA RunnerTokens ==
    ASSUME TypeOK, Tokens, NEW t \in Turns, Runner(t)
    PROVE  Tokens'
<1> USE DEF TypeOK, Tokens, TasksType
<1>1. \A i \in 1 .. Len(queue) : queue[i] \in QueueItem /\ queue[i].turn \in Turns
  <2>1. \A i \in 1 .. Len(queue) : queue[i] \in QueueItem
    BY DEF BridgeType
  <2> QED
    BY <2>1 DEF QueueItem
<1>2. CASE RunStart(t)
  <2>1. StartedOnce' /\ WorkOfRunner'
    BY <1>2 DEF StartedOnce, WorkOfRunner, RunStart, chat
  <2>2. TokensOfEnded' /\ DoneIsOwn'
    BY <1>2 DEF WorkOfRunner, TokensOfEnded, DoneIsOwn, RunStart, ghosts
  <2> QED
    BY <2>1, <2>2
<1>3. CASE RunGet(t) \/ RunSent(t) \/ RunCancelled(t)
  <2>1. /\ UNCHANGED <<main, after, sent, work, reply>>
        /\ run[t] # "none"
        /\ \A u \in Turns : run'[u] \in {"none", "created"} =>
               run[u] \in {"none", "created"} /\ strm'[u] = strm[u]
        /\ \A u \in Turns : run'[u] # "none" => run[u] # "none"
    BY <1>3 DEF RunGet, RunSent, RunCancelled, chat, ghosts
  <2>2. queue' \in {queue, Tail(queue)} /\ (queue' # queue => queue # <<>>)
    BY <1>3 DEF RunGet, RunSent, RunCancelled, bridge
  <2>3. TokensOfEnded'
    <3>1. CASE queue' = queue
      BY <2>1, <3>1 DEF TokensOfEnded
    <3>2. CASE queue' = Tail(queue) /\ queue # <<>>
      <4>1. \A i \in 1 .. Len(queue') : i + 1 \in 1 .. Len(queue) /\ queue'[i] = queue[i + 1]
        BY <3>2 DEF BridgeType
      <4> QED
        BY <2>1, <4>1 DEF TokensOfEnded
    <3> QED
      BY <2>2, <3>1, <3>2
  <2> QED
    BY <2>1, <2>3 DEF StartedOnce, WorkOfRunner, DoneIsOwn
<1>4. CASE RunDone(t)
  <2>1. work[t] = "ended"
    <3>1. 1 \in 1 .. Len(queue) /\ queue[1] = Done(t)
      BY <1>4 DEF RunDone, BridgeType
    <3> QED
      BY <3>1 DEF Done, TokensOfEnded
  <2>2. StartedOnce' /\ WorkOfRunner' /\ TokensOfEnded'
    BY <1>4 DEF StartedOnce, WorkOfRunner, TokensOfEnded, RunDone, chat
  <2>3. DoneIsOwn'
    BY <1>4, <2>1 DEF DoneIsOwn, RunDone, GhostsType
  <2> QED
    BY <2>2, <2>3
<1> QED
  BY <1>2, <1>3, <1>4 DEF Runner

LEMMA StreamTokens ==
    ASSUME TypeOK, Tokens, NEW t \in Turns, Stream(t) \/ StreamTimeout(t)
    PROVE  Tokens'
<1>1. /\ UNCHANGED <<main, after, sent, work, reply>>
      /\ strm[t] # "none" /\ \A u \in Turns \ {t} : strm'[u] = strm[u]
      /\ run' = run \/ run' = [run EXCEPT ![t] = "ended"]
      /\ queue' = queue \/ queue' = <<>>
  BY DEF Stream, StreamAclose, StreamClosed, StreamTimeout, chat, bridge, ghosts, TypeOK,
     TasksType
<1>2. StartedOnce' /\ WorkOfRunner'
  BY <1>1 DEF Tokens, StartedOnce, WorkOfRunner, TypeOK, TasksType
<1> QED
  BY <1>1, <1>2 DEF Tokens, TokensOfEnded, DoneIsOwn

LEMMA WorkerTokens ==
    ASSUME TypeOK, Tokens, NEW t \in Turns, Worker(t)
    PROVE  Tokens'
<1> USE DEF TypeOK, Tokens
<1>1. WorkerDoes(t) /\ reply' = reply
  BY WorkerSteps DEF Worker, WorkStart, WorkAssembled, WorkChunk, WorkToolCall, WorkLlmEnd,
     WorkRetry, WorkRetried, WorkLlmError, WorkApproval, WorkToolEnd, WorkCompacted,
     WorkCancelled, ghosts
<1>2. /\ UNCHANGED <<main, after, sent, run, strm>>
      /\ work[t] \notin {"none", "ended"} /\ \A u \in Turns \ {t} : work'[u] = work[u]
  BY <1>1 DEF WorkerDoes, WorkAlive, chat
<1>3. StartedOnce' /\ WorkOfRunner' /\ DoneIsOwn'
  BY <1>1, <1>2 DEF StartedOnce, WorkOfRunner, DoneIsOwn
<1>4. TokensOfEnded'
  <2> SUFFICES ASSUME NEW i \in 1 .. Len(queue'), queue'[i].kind = "done"
               PROVE  work'[queue'[i].turn] = "ended"
    BY DEF TokensOfEnded
  <2>1. CASE i \in 1 .. Len(queue) /\ queue'[i] = queue[i]
    <3>1. queue[i] \in QueueItem
      BY <2>1 DEF BridgeType
    <3>2. queue[i].turn \in Turns /\ work[queue[i].turn] = "ended"
      BY <2>1, <3>1 DEF QueueItem, TokensOfEnded
    <3> QED
      BY <1>2, <2>1, <3>2
  <2>2. CASE queue'[i] = Event(t)
    BY <2>2 DEF Event
  <2>3. CASE queue'[i] = Done(t) /\ work'[t] = "ended"
    BY <2>3 DEF Done
  <2> QED
    BY <1>1, <2>1, <2>2, <2>3 DEF WorkerDoes
<1> QED
  BY <1>3, <1>4

LEMMA ContinueTokens ==
    ASSUME TypeOK, Tokens, NEW act \in {"chat", "stop", "missing"} \cup Sessions,
           main' = "recv", sent <= sent',
           act = "chat" =>
               sent' \in Turns /\ \A t \in Turns : run[t] # "none" => t < sent',
           sent' \in 0 .. MaxTurns, Continue(act), UNCHANGED <<strm, work, queue>>,
           \A t \in Turns : reply'[t] = "done" => reply[t] = "done"
    PROVE  Tokens'
<1> USE DEF TypeOK, Tokens
<1>1. TokensOfEnded' /\ DoneIsOwn'
  BY DEF TokensOfEnded, DoneIsOwn
<1>2. CASE act = "chat" /\ StartTurn(sent')
  <2>1. run' = [run EXCEPT ![sent'] = "created"] /\ run[sent'] = "none"
    BY <1>2 DEF StartTurn, TasksType
  <2>2. StartedOnce'
    BY <1>2, <2>1 DEF StartedOnce, TasksType, HandlerType
  <2>3. WorkOfRunner'
    BY <2>1 DEF WorkOfRunner, TasksType
  <2> QED
    BY <1>1, <2>2, <2>3
<1>3. CASE run' = run
  BY <1>1, <1>3 DEF StartedOnce, WorkOfRunner, HandlerType
<1> QED
  BY <1>2, <1>3 DEF Continue, OpenSession

LEMMA HandleTokens ==
    ASSUME TypeOK, Tokens, NEW act \in {"chat", "stop", "missing"} \cup Sessions,
           sent <= sent', act = "chat" => sent < sent',
           sent' \in 0 .. MaxTurns, Handle(act)
    PROVE  Tokens'
<1> USE DEF TypeOK
<1>1. UNCHANGED <<strm, work, queue, reply>> /\ main = "recv"
  BY DEF Handle, bridge
<1>2. \A t \in Turns : run[t] # "none" => t <= sent
  BY DEF Tokens, StartedOnce
<1>3. CASE UNCHANGED run /\ main' = "await" /\ after' = act
  <2>1. StartedOnce'
    BY <1>2, <1>3 DEF StartedOnce, HandlerType
  <2> QED
    BY <1>1, <1>3, <2>1 DEF Tokens, WorkOfRunner, TokensOfEnded, DoneIsOwn
<1>4. CASE Continue(act) /\ main' = main
  <2>1. act = "chat" =>
            sent' \in Turns /\ \A t \in Turns : run[t] # "none" => t < sent'
    BY <1>2 DEF HandlerType
  <2>2. main' = "recv" /\ \A t \in Turns : reply'[t] = "done" => reply[t] = "done"
    BY <1>1, <1>4
  <2> QED
    BY <1>1, <1>4, <2>1, <2>2, ContinueTokens
<1> QED
  BY <1>3, <1>4 DEF Handle

LEMMA HandlerTokens ==
    ASSUME TypeOK, HandlerOK, Tokens, Client \/ Handler
    PROVE  Tokens'
<1> USE DEF TypeOK
<1>1. CASE RecvChat
  <2>1. sent < sent' /\ sent <= sent' /\ sent' \in 0 .. MaxTurns /\ Handle("chat")
    BY <1>1 DEF RecvChat, HandlerType
  <2> QED
    BY <2>1, HandleTokens
<1>2. ASSUME NEW act \in {"stop", "missing"} \cup Sessions, sent' = sent, Handle(act)
      PROVE  Tokens'
  <2>1. sent <= sent' /\ sent' \in 0 .. MaxTurns /\ act # "chat"
    BY <1>2 DEF HandlerType
  <2> QED
    BY <1>2, <2>1, HandleTokens
<1>3. CASE \/ RecvStop \/ RecvMissingSession
           \/ \E s \in Sessions : RecvSession(s)
  BY <1>2, <1>3 DEF RecvStop, RecvMissingSession, RecvSession
<1>4. CASE \/ RecvCompact \/ CompactDone \/ Disconnect
           \/ \E s \in Sessions : Connect(s)
           \/ \E t \in Turns, a \in {"yes", "no"} : RecvPermission(t, a)
  <2>1. /\ UNCHANGED <<sent, run, strm, work, queue, reply>>
        /\ main' = "await" => main = "await" /\ after' = after
    BY <1>4 DEF RecvCompact, CompactDone, Disconnect, Connect, RecvPermission, OpenSession,
       chat, tasks, bridge, ghosts
  <2> QED
    BY <2>1 DEF Tokens, StartedOnce, WorkOfRunner, TokensOfEnded, DoneIsOwn
<1>5. CASE Resume
  <2>1. /\ Continue(after) /\ main = "await" /\ main' = "recv" /\ sent' = sent
        /\ UNCHANGED <<strm, work, queue>>
    BY <1>5 DEF Resume, bridge
  <2>2. after \in {"chat", "stop", "missing"} \cup Sessions
    BY <2>1 DEF HandlerType, HandlerOK
  <2>3. \A t \in Turns : reply'[t] = "done" => reply[t] = "done"
    BY <1>5 DEF Resume, GhostsType
  <2>4. /\ sent' \in 0 .. MaxTurns /\ sent <= sent'
        /\ after = "chat" =>
               sent' \in Turns /\ \A t \in Turns : run[t] # "none" => t < sent'
    BY <2>1 DEF HandlerType, HandlerOK, Tokens, StartedOnce
  <2> QED
    BY <2>1, <2>2, <2>3, <2>4, ContinueTokens
<1> QED
  BY <1>1, <1>3, <1>4, <1>5 DEF Client, Handler, RecvSession

\* What the done tokens mean, in every state.
LEMMA TokensInvariant == Spec => []Tokens
<1>1. Init => Tokens
  <2> SUFFICES ASSUME Init PROVE Tokens
    OBVIOUS
  <2> QED
    BY DEF Init, Tokens, StartedOnce, WorkOfRunner, TokensOfEnded, DoneIsOwn
<1>2. TypeOK /\ HandlerOK /\ [Next]_vars => HandlerOK'
  BY HandlerOKStep
<1>3. TypeOK /\ HandlerOK /\ Tokens /\ [Next]_vars => Tokens'
  <2> SUFFICES ASSUME TypeOK, HandlerOK, Tokens, [Next]_vars
               PROVE  Tokens'
    OBVIOUS
  <2>1. CASE Client \/ Handler
    BY <2>1, HandlerTokens
  <2>2. ASSUME NEW t \in Turns,
               Runner(t) \/ Stream(t) \/ StreamTimeout(t) \/ Worker(t)
        PROVE  Tokens'
    BY <2>2, RunnerTokens, StreamTokens, WorkerTokens
  <2>3. CASE UNCHANGED vars
    <3>1. UNCHANGED <<chat, tasks, bridge, ghosts>>
      BY <2>3 DEF vars
    <3> QED
      BY <3>1 DEF Tokens, StartedOnce, WorkOfRunner, TokensOfEnded, DoneIsOwn, chat, tasks,
         bridge, ghosts
  <2> QED
    BY <2>1, <2>2, <2>3 DEF Next
<1>4. Init => HandlerOK
  BY DEF Init, HandlerOK
<1> QED
  BY <1>1, <1>2, <1>3, <1>4, TypeCorrect, PTL DEF Spec

\* web_bridge.py:70-75. Whatever tokens cancelled turns left in the shared queue, over any
\* connections and with sends that suspend: a client is told "done" only once the worker
\* of its own turn has ended.
THEOREM DoneMeansEnded == Spec => []DoneIsOwn
BY TokensInvariant, PTL DEF Tokens

-----------------------------------------------------------------------------
(* One connection whose sends do not suspend: what the histories hold.     *)

\* A history speaks only of turns whose worker has said their question, and holds an
\* answer only when the worker has ended; w is what the workers do.
Told(h, w) ==
    /\ \A t \in TurnsIn(h) : w[t] \notin {"none", "created"}
    /\ \A i \in 1 .. Len(h.talk) :
          h.talk[i].role = "assistant" => w[h.talk[i].turn] = "ended"

\* A tale is told, in order.
Tale(h, w) == Told(h, w) /\ InOrder(h.talk)

\* Workers go on from w to v.
GoesOn(w, v) ==
    \A t \in Turns : /\ w[t] \notin {"none", "created"} => v[t] \notin {"none", "created"}
                     /\ w[t] = "ended" => v[t] = "ended"

LEMMA TurnsOfHistory ==
    ASSUME NEW h \in History
    PROVE  /\ TurnsIn(h) \subseteq Turns
           /\ \A i \in 1 .. Len(h.talk) :
                 h.talk[i] \in Message /\ h.talk[i].turn \in Turns /\ h.talk[i].turn \in TurnsIn(h)
<1>1. \A i \in 1 .. Len(h.talk) : h.talk[i] \in Message
  BY DEF History
<1> QED
  BY <1>1 DEF Message, TurnsIn, History

LEMMA SayTurns ==
    ASSUME NEW h \in History, NEW m \in Message
    PROVE  TurnsIn(Say(h, m)) = TurnsIn(h) \cup {m.turn}
<1> DEFINE g == Say(h, m)
           n == Len(h.talk)
<1>1. /\ g.noted = h.noted /\ Len(g.talk) = n + 1 /\ n \in Nat
      /\ \A i \in 1 .. n : g.talk[i] = h.talk[i]
      /\ g.talk[n + 1] = m
  BY SayAdds DEF History
<1> HIDE DEF g, n
<1>2. {g.talk[i].turn : i \in 1 .. n + 1} = {h.talk[i].turn : i \in 1 .. n} \cup {m.turn}
  <2>1. 1 .. n + 1 = 1 .. n \cup {n + 1}
    BY <1>1
  <2> QED
    BY <1>1, <2>1
<1> QED
  BY <1>1, <1>2 DEF TurnsIn, g, n

LEMMA TaleGoesOn ==
    ASSUME NEW h \in History, NEW w, NEW v, Tale(h, w), GoesOn(w, v)
    PROVE  Tale(h, v)
BY TurnsOfHistory DEF Tale, Told, GoesOn

LEMMA TaleOfNothing == \A w : Tale(NoHistory, w)
BY DEF Tale, Told, InOrder, NoHistory, TurnsIn

LEMMA TaleCompacted ==
    ASSUME NEW h \in History, NEW w, Tale(h, w)
    PROVE  Tale(Compacted(h), w)
BY CompactedPositions, CompactedTurns, CompactedInOrder DEF Tale, Told

\* Saying the next thing of the latest turn goes on with a tale.
LEMMA TaleSaid ==
    ASSUME NEW h \in History, NEW w, Tale(h, w), NEW m \in Message,
           w[m.turn] \notin {"none", "created"},
           m.role = "assistant" => w[m.turn] = "ended",
           \A i \in 1 .. Len(h.talk) :
              \/ h.talk[i].turn < m.turn
              \/ h.talk[i].turn = m.turn /\ h.talk[i].role = "user" /\ m.role = "assistant"
    PROVE  Tale(Say(h, m), w)
<1> DEFINE g == Say(h, m)
           n == Len(h.talk)
<1>1. /\ Len(g.talk) = n + 1 /\ n \in Nat
      /\ \A i \in 1 .. n : g.talk[i] = h.talk[i]
      /\ g.talk[n + 1] = m
  BY SayAdds DEF History
<1>2. TurnsIn(g) = TurnsIn(h) \cup {m.turn}
  BY SayTurns
<1> HIDE DEF g
<1>3. Told(g, w)
  <2>1. \A i \in 1 .. n + 1 : i \in 1 .. n \/ i = n + 1
    BY <1>1
  <2> QED
    BY <1>1, <1>2, <2>1 DEF Tale, Told
<1>4. InOrder(g.talk)
  <2> SUFFICES ASSUME NEW i \in 1 .. n + 1, NEW j \in 1 .. n + 1, i < j
               PROVE  \/ g.talk[i].turn < g.talk[j].turn
                      \/ /\ g.talk[i].turn = g.talk[j].turn
                         /\ g.talk[i].role = "user" /\ g.talk[j].role = "assistant"
    BY <1>1 DEF InOrder
  <2>1. i \in 1 .. n
    BY <1>1
  <2>2. CASE j \in 1 .. n
    <3>1. g.talk[i] = h.talk[i] /\ g.talk[j] = h.talk[j]
      BY <1>1, <2>1, <2>2
    <3>2. InOrder(h.talk)
      BY DEF Tale
    <3> QED
      BY <2>1, <2>2, <3>1, <3>2 DEF InOrder
  <2>3. CASE j = n + 1
    BY <1>1, <2>1, <2>3
  <2> QED
    BY <1>1, <2>2, <2>3
<1> QED
  BY <1>3, <1>4 DEF Tale, g

-----------------------------------------------------------------------------
(* What the steps of a worker write.                                       *)

\* It says its question; or it says its answer after its messages, compacted or not,
\* and saves them; or it keeps them aside while a summary is written; or it writes
\* nothing, and ends so only when it is cancelled.
WorkerWrites(t) ==
    \/ /\ work[t] = "created" /\ work' = [work EXCEPT ![t] = "hook"]
       /\ msgs' = Say(msgs, User(t))
       /\ UNCHANGED <<ckpt, memory, snap>>
    \/ /\ work[t] \notin {"none", "created", "ended"}
       /\ work' = [work EXCEPT ![t] = "ended"]
       /\ \/ msgs' \in {Say(msgs, Answer(t)), Say(Compacted(msgs), Answer(t))}
          \/ work[t] = "compact" /\ msgs' = Say(Compacted(snap[t]), Answer(t))
       /\ ckpt' = [ckpt EXCEPT ![dir] = msgs']
       /\ memory' = memory \cup {<<dir, t>>}
       /\ UNCHANGED snap
    \/ /\ work[t] = "llm" /\ work' = [work EXCEPT ![t] = "compact"]
       /\ snap' = [snap EXCEPT ![t] = msgs]
       /\ UNCHANGED <<msgs, ckpt, memory>>
    \/ /\ work[t] \notin {"none", "ended"}
       /\ \E state \in {"hook", "llm", "backoff", "tool", "approval", "ended"} :
             /\ work' = [work EXCEPT ![t] = state]
             /\ state = "ended" => t \in killWork
             /\ work[t] = "created" => state = "ended"
       /\ UNCHANGED <<msgs, ckpt, memory, snap>>

LEMMA FinishWrites ==
    ASSUME NEW t \in Turns, NEW m, NEW q, Finish(t, m, q),
           work[t] \notin {"none", "created", "ended"},
           m \in {msgs, Compacted(msgs)} \/ (work[t] = "compact" /\ m = Compacted(snap[t]))
    PROVE  WorkerWrites(t)
BY DEF Finish, WorkerWrites

LEMMA AfterDispatchWrites ==
    ASSUME NEW t \in Turns, NEW q, work[t] = "llm", AfterDispatch(t, q)
    PROVE  WorkerWrites(t)
<1>1. ASSUME NEW m \in {msgs, Compacted(msgs)}, Finish(t, m, q)
      PROVE  WorkerWrites(t)
  BY <1>1, FinishWrites
<1>2. CASE /\ snap' = [snap EXCEPT ![t] = msgs]
           /\ work' = [work EXCEPT ![t] = "compact"]
           /\ UNCHANGED <<msgs, ckpt, memory>>
  BY <1>2 DEF WorkerWrites
<1> QED
  BY <1>1, <1>2 DEF AfterDispatch

LEMMA StreamOverWrites ==
    ASSUME NEW t \in Turns, work[t] = "llm", StreamOver(t)
    PROVE  WorkerWrites(t)
<1>1. ASSUME NEW state \in {"tool", "approval"}, work' = [work EXCEPT ![t] = state],
             UNCHANGED <<msgs, ckpt, memory, snap>>
      PROVE  WorkerWrites(t)
  BY <1>1 DEF WorkerWrites
<1> QED
  BY <1>1, AfterDispatchWrites DEF StreamOver

\* Every step of a worker writes that, in its own session; a cancellation is delivered
\* only by such a step.
LEMMA WorkerStepsWrite ==
    ASSUME TypeOK, NEW t \in Turns, Worker(t)
    PROVE  /\ WorkerWrites(t)
           /\ UNCHANGED <<dir, sess, reply, killRun>>
           /\ killWork' = killWork \ {t}
<1>1. UNCHANGED <<dir, sess, reply, killRun>> /\ killWork' = killWork \ {t}
  <2>1. CASE WorkCancelled(t)
    BY <2>1 DEF WorkCancelled
  <2>2. CASE ~WorkCancelled(t)
    <3>1. t \notin killWork /\ UNCHANGED <<dir, ghosts, killRun, killWork>>
      BY <2>2 DEF Worker, WorkStart, WorkAssembled, WorkChunk, WorkToolCall, WorkLlmEnd,
         WorkRetry, WorkRetried, WorkLlmError, WorkApproval, WorkToolEnd, WorkCompacted,
         Working, engine
    <3> QED
      BY <3>1 DEF ghosts
  <2> QED
    BY <2>1, <2>2
<1>2. WorkerWrites(t)
  <2>1. CASE WorkStart(t)
    BY <2>1 DEF WorkStart, Working, WorkerWrites
  <2>2. ASSUME NEW state \in {"llm", "backoff", "tool"},
               work[t] \notin {"none", "created", "ended"},
               work' = [work EXCEPT ![t] = state], UNCHANGED <<msgs, ckpt, memory, snap>>
        PROVE  WorkerWrites(t)
    BY <2>2 DEF WorkerWrites
  <2>3. CASE WorkAssembled(t) \/ WorkRetry(t) \/ WorkRetried(t) \/ WorkToolEnd(t)
    BY <2>2, <2>3 DEF WorkAssembled, WorkRetry, WorkRetried, WorkToolEnd, Working, engine
  <2>4. CASE WorkChunk(t) \/ WorkToolCall(t)
    <3>1. work' = [work EXCEPT ![t] = "llm"]
      BY <2>4 DEF WorkChunk, WorkToolCall, Working, TypeOK, TasksType
    <3> QED
      BY <2>2, <2>4, <3>1 DEF WorkChunk, WorkToolCall, Working, engine
  <2>5. CASE WorkApproval(t)
    BY <2>2, <2>5 DEF WorkApproval, Working, engine
  <2>6. CASE WorkLlmEnd(t) \/ WorkLlmError(t)
    BY <2>6, StreamOverWrites, AfterDispatchWrites DEF WorkLlmEnd, WorkLlmError, Working
  <2>7. CASE WorkCompacted(t)
    BY <2>7, FinishWrites DEF WorkCompacted, Working
  <2>8. CASE WorkCancelled(t)
    <3>1. WorkAlive(t) /\ t \in killWork
      BY <2>8 DEF WorkCancelled
    <3>2. CASE work' = [work EXCEPT ![t] = "ended"] /\ UNCHANGED <<msgs, ckpt, memory, snap>>
      BY <3>1, <3>2 DEF WorkerWrites, WorkAlive
    <3>3. CASE work[t] = "llm" /\ StreamOver(t)
      BY <3>3, StreamOverWrites
    <3>4. CASE work[t] = "compact" /\ Finish(t, Compacted(snap[t]), queue)
      BY <3>4, FinishWrites
    <3> QED
      BY <2>8, <3>2, <3>3, <3>4 DEF WorkCancelled, Aborted
  <2> QED
    BY <2>1, <2>3, <2>4, <2>5, <2>6, <2>7, <2>8 DEF Worker
<1> QED
  BY <1>1, <1>2

\* A running turn is the latest one, and the handler's turn was sent in the open session.
LatestRuns ==
    /\ \A t, u \in Turns : RunAlive(t) /\ run[u] # "none" => u <= t
    /\ cur # 0 => run[cur] # "none" /\ sess[cur] = dir

Histories ==
    {msgs} \cup {ckpt[s] : s \in Sessions} \cup {snap[u] : u \in 0 .. MaxTurns}

AllTales == \A h \in Histories : Tale(h, work)

\* A history speaks only of turns sent in s; ss says where turns were sent.
SentIn(h, s, ss) == \A t \in TurnsIn(h) : ss[t] = s

\* Every session's turns stay in it.
Separate ==
    /\ SentIn(msgs, dir, sess)
    /\ \A s \in Sessions : SentIn(ckpt[s], s, sess)
    /\ \A t \in Turns : work[t] = "compact" => SentIn(snap[t], dir, sess)
    /\ main = "compact" => SentIn(snap[0], dir, sess)
    /\ \A e \in memory : sess[e[2]] = e[1] /\ work[e[2]] = "ended"

Book == LatestRuns /\ AllTales /\ Separate

LEMMA HistoryTypes ==
    ASSUME TypeOK
    PROVE  Histories \subseteq History
BY DEF Histories, TypeOK, EngineType

\* What a runner or a generator writes: perhaps a checkpoint of the messages.
LEMMA RunnerWrites ==
    ASSUME TypeOK, Tokens, NEW t \in Turns, Runner(t) \/ Stream(t) \/ StreamTimeout(t)
    PROVE  /\ UNCHANGED <<chat, msgs, dir, memory, snap, sess>>
           /\ ckpt' \in {ckpt, [ckpt EXCEPT ![dir] = msgs]}
           /\ \/ work' = work
              \/ run[t] = "created" /\ work' = [work EXCEPT ![t] = "created"]
           /\ \A u \in Turns : run'[u] # "none" => run[u] # "none"
           /\ \A u \in Turns : run[u] # "none" => run'[u] # "none"
           /\ \A u \in Turns : RunAlive(u)' => RunAlive(u)
<1> USE DEF TypeOK, TasksType, RunAlive
<1>1. CASE RunStart(t)
  BY <1>1 DEF RunStart, engine, ghosts
<1>2. CASE RunGet(t)
  BY <1>2 DEF RunGet, engine, ghosts
<1>3. CASE RunSent(t)
  BY <1>3 DEF RunSent, engine, ghosts
<1>4. CASE RunDone(t)
  BY <1>4 DEF RunDone
<1>5. CASE RunCancelled(t)
  BY <1>5 DEF RunCancelled, engine, ghosts
<1>6. CASE StreamAclose(t) \/ StreamTimeout(t)
  BY <1>6 DEF StreamAclose, StreamTimeout, engine, ghosts
<1>7. CASE StreamClosed(t)
  <2>1. strm[t] = "closing" /\ run' = [run EXCEPT ![t] = "ended"]
    BY <1>7 DEF StreamClosed
  <2>2. run[t] # "none"
    BY <2>1 DEF Tokens, WorkOfRunner
  <2> QED
    BY <1>7, <2>1, <2>2 DEF StreamClosed, engine, ghosts
<1> QED
  BY <1>1, <1>2, <1>3, <1>4, <1>5, <1>6, <1>7 DEF Runner, Stream

LEMMA RunnerBook ==
    ASSUME TypeOK, Tokens, Book, NEW t \in Turns, Runner(t) \/ Stream(t) \/ StreamTimeout(t)
    PROVE  Book'
<1> USE DEF Book
<1>1. /\ UNCHANGED <<main, cur, sent, msgs, dir, memory, snap, sess>>
      /\ ckpt' \in {ckpt, [ckpt EXCEPT ![dir] = msgs]}
      /\ \/ work' = work
         \/ run[t] = "created" /\ work' = [work EXCEPT ![t] = "created"]
      /\ \A u \in Turns : run'[u] # "none" => run[u] # "none"
      /\ \A u \in Turns : run[u] # "none" => run'[u] # "none"
      /\ \A u \in Turns : RunAlive(u)' => RunAlive(u)
  BY RunnerWrites DEF chat
<1>2. LatestRuns'
  BY <1>1 DEF LatestRuns, TypeOK, HandlerType
<1>3. GoesOn(work, work') /\ \A u \in Turns : work'[u] = "compact" => work[u] = "compact"
  BY <1>1 DEF GoesOn, TypeOK, TasksType, Tokens, WorkOfRunner
<1>4. Histories' \subseteq Histories
  BY <1>1 DEF Histories, TypeOK, EngineType
<1>5. AllTales'
  <2> SUFFICES ASSUME NEW h \in Histories'
               PROVE  Tale(h, work')
    BY DEF AllTales
  <2> QED
    BY <1>3, <1>4, HistoryTypes, TaleGoesOn DEF AllTales
<1>6. Separate'
  <2>1. \A s \in Sessions : SentIn(ckpt'[s], s, sess)
    BY <1>1 DEF Separate, TypeOK, EngineType
  <2>2. \A e \in memory : work'[e[2]] = "ended"
    BY <1>3 DEF GoesOn, Separate, TypeOK, EngineType
  <2> QED
    BY <1>1, <1>3, <2>1, <2>2 DEF Separate
<1> QED
  BY <1>2, <1>5, <1>6

\* What the latest turn may still say after a tale.
LEMMA LatestSpeaks ==
    ASSUME TypeOK, Tokens, Protocol, Book, NEW t \in Turns, WorkAlive(t),
           NEW h \in History, Tale(h, work)
    PROVE  \A i \in 1 .. Len(h.talk) :
              \/ h.talk[i].turn < t
              \/ h.talk[i].turn = t /\ work[t] # "created" /\ h.talk[i].role = "user"
<1>1. RunAlive(t)
  BY DEF Protocol, WorkerOfStream, StreamOfRunner, StreamAlive, RunAlive
<1> SUFFICES ASSUME NEW i \in 1 .. Len(h.talk)
             PROVE  \/ h.talk[i].turn < t
                    \/ h.talk[i].turn = t /\ work[t] # "created" /\ h.talk[i].role = "user"
  OBVIOUS
<1>2. h.talk[i] \in Message /\ h.talk[i].turn \in Turns /\ h.talk[i].turn \in TurnsIn(h)
  BY TurnsOfHistory
<1>3. work[h.talk[i].turn] \notin {"none", "created"}
  BY <1>2 DEF Tale, Told
<1>4. run[h.talk[i].turn] # "none"
  BY <1>2, <1>3 DEF Tokens, WorkOfRunner
<1>5. h.talk[i].turn <= t
  BY <1>1, <1>2, <1>4 DEF Book, LatestRuns
<1>6. h.talk[i].turn = t => work[t] # "created" /\ h.talk[i].role = "user"
  BY <1>2, <1>3 DEF Tale, Told, WorkAlive, Message
<1> QED
  BY <1>2, <1>5, <1>6

\* A living worker's turn is the handler's, sent in the open session.
LEMMA WorkerIsCurrent ==
    ASSUME TypeOK, Protocol, LatestRuns, NEW t \in Turns, WorkAlive(t)
    PROVE  RunAlive(t) /\ t = cur /\ sess[t] = dir
<1>1. RunAlive(t) /\ t = cur
  BY DEF Protocol, WorkerOfStream, StreamOfRunner, OnlyCurrentRuns, StreamAlive, RunAlive
<1> QED
  BY <1>1 DEF LatestRuns

LEMMA WorkerGoesOn ==
    ASSUME TypeOK, NEW t \in Turns, WorkerWrites(t)
    PROVE  /\ GoesOn(work, work') /\ work' = [work EXCEPT ![t] = work'[t]]
           /\ work[t] \notin {"none", "ended"} /\ work'[t] \notin {"none", "created"}
BY DEF WorkerWrites, GoesOn, TypeOK, TasksType

\* The messages after a step of t's worker, which may have spoken after messages it
\* held, are a tale.
LEMMA WorkerTells ==
    ASSUME TypeOK, Tokens, Protocol, Book, NEW t \in Turns, WorkerWrites(t)
    PROVE  /\ msgs' \in History /\ Tale(msgs', work') /\ SentIn(msgs', dir, sess)
           /\ Histories' \subseteq Histories \cup {msgs'}
<1>1. /\ GoesOn(work, work') /\ work' = [work EXCEPT ![t] = work'[t]]
      /\ WorkAlive(t) /\ work'[t] \notin {"none", "created"}
  BY WorkerGoesOn DEF WorkAlive
<1>2. t = cur /\ sess[t] = dir
  BY <1>1, WorkerIsCurrent DEF Book
<1>3. /\ msgs \in History /\ snap[t] \in History
      /\ Tale(msgs, work) /\ Tale(snap[t], work)
      /\ SentIn(msgs, dir, sess) /\ (work[t] = "compact" => SentIn(snap[t], dir, sess))
  BY DEF TypeOK, EngineType, Book, AllTales, Histories, Separate
<1>4. ASSUME NEW h \in History, Tale(h, work), SentIn(h, dir, sess),
             NEW m \in {User(t), Answer(t)}, msgs' = Say(h, m),
             m = User(t) => work[t] = "created",
             m = Answer(t) => work[t] # "created" /\ work'[t] = "ended"
      PROVE  msgs' \in History /\ Tale(msgs', work') /\ SentIn(msgs', dir, sess)
  <2>1. m \in Message /\ m.turn = t /\ m.role \in {"user", "assistant"}
    <3>1. m \in Message
      BY AnswerType, <1>4
    <3> QED
      BY <1>4, <3>1 DEF User, Answer
  <2>2. Tale(h, work')
    BY <1>1, <1>4, TaleGoesOn
  <2>3. \A i \in 1 .. Len(h.talk) :
           \/ h.talk[i].turn < m.turn
           \/ h.talk[i].turn = m.turn /\ h.talk[i].role = "user" /\ m.role = "assistant"
    BY <1>1, <1>4, <2>1, LatestSpeaks DEF User, Answer
  <2>4. m.role = "assistant" => work'[m.turn] = "ended"
    BY <1>4, <2>1 DEF User, Answer
  <2>5. Tale(Say(h, m), work')
    BY <1>1, <2>1, <2>2, <2>3, <2>4, TaleSaid
  <2>6. SentIn(Say(h, m), dir, sess)
    BY <1>2, <1>4, <2>1, SayTurns DEF SentIn
  <2> QED
    BY <1>4, <2>1, <2>5, <2>6, SayType
<1>5. \A h \in {msgs, snap[t]} :
         Compacted(h) \in History /\ Tale(Compacted(h), work)
         /\ (SentIn(h, dir, sess) => SentIn(Compacted(h), dir, sess))
  BY <1>3, CompactedType, TaleCompacted, CompactedTurns DEF SentIn
<1>6. CASE work[t] = "created" /\ msgs' = Say(msgs, User(t)) /\ UNCHANGED <<ckpt, snap>>
  <2>1. User(t) # Answer(t)
    BY DEF User, Answer
  <2> QED
    BY <1>3, <1>4, <1>6, <2>1 DEF Histories
<1>7. CASE /\ work[t] # "created" /\ work'[t] = "ended"
           /\ \/ msgs' \in {Say(msgs, Answer(t)), Say(Compacted(msgs), Answer(t))}
              \/ work[t] = "compact" /\ msgs' = Say(Compacted(snap[t]), Answer(t))
           /\ ckpt' = [ckpt EXCEPT ![dir] = msgs'] /\ UNCHANGED snap
  <2>1. User(t) # Answer(t)
    BY DEF User, Answer
  <2>2. PICK h \in History : /\ Tale(h, work) /\ SentIn(h, dir, sess)
                             /\ msgs' = Say(h, Answer(t))
    BY <1>3, <1>5, <1>7
  <2>3. msgs' \in History /\ Tale(msgs', work') /\ SentIn(msgs', dir, sess)
    BY <1>4, <1>7, <2>1, <2>2
  <2>4. Histories' \subseteq Histories \cup {msgs'}
    BY <1>7 DEF Histories, TypeOK, EngineType
  <2> QED
    BY <2>3, <2>4
<1>8. CASE UNCHANGED <<msgs, ckpt>> /\ snap' \in {snap, [snap EXCEPT ![t] = msgs]}
  <2>1. Tale(msgs, work')
    BY <1>1, <1>3, TaleGoesOn
  <2>2. Histories' \subseteq Histories \cup {msgs'}
    BY <1>8 DEF Histories, TypeOK, EngineType
  <2> QED
    BY <1>3, <1>8, <2>1, <2>2
<1> QED
  <2>1. work'[t] = "ended" \/ work' # [work EXCEPT ![t] = "ended"]
    BY DEF TypeOK, TasksType
  <2> QED
    BY <1>6, <1>7, <1>8, <2>1 DEF WorkerWrites

LEMMA WorkerBook ==
    ASSUME TypeOK, Tokens, Protocol, Book, NEW t \in Turns, Worker(t)
    PROVE  Book'
<1>1. /\ WorkerWrites(t)
      /\ UNCHANGED <<dir, sess>> /\ UNCHANGED <<main, cur, run>>
  BY WorkerStepsWrite, WorkerSteps DEF WorkerDoes, chat
<1>2. LatestRuns'
  BY <1>1 DEF Book, LatestRuns, RunAlive
<1>3. /\ GoesOn(work, work') /\ work' = [work EXCEPT ![t] = work'[t]]
      /\ WorkAlive(t) /\ work'[t] \notin {"none", "created"}
  BY <1>1, WorkerGoesOn DEF WorkAlive
<1>4. /\ msgs' \in History /\ Tale(msgs', work') /\ SentIn(msgs', dir, sess)
      /\ Histories' \subseteq Histories \cup {msgs'}
  BY <1>1, WorkerTells
<1>5. AllTales'
  <2> SUFFICES ASSUME NEW h \in Histories'
               PROVE  Tale(h, work')
    BY DEF AllTales
  <2>1. CASE h \in Histories
    BY <1>3, <2>1, HistoryTypes, TaleGoesOn DEF Book, AllTales
  <2> QED
    BY <1>4, <2>1
<1>6. Separate'
  <2>1. SentIn(msgs', dir', sess')
    BY <1>1, <1>4
  <2>2. \A s \in Sessions : SentIn(ckpt'[s], s, sess')
    <3>1. ckpt' \in {ckpt, [ckpt EXCEPT ![dir] = msgs']}
      BY <1>1 DEF WorkerWrites
    <3> QED
      BY <1>1, <1>4, <3>1 DEF Book, Separate, TypeOK, EngineType
  <2>3. \A u \in Turns : work'[u] = "compact" => SentIn(snap'[u], dir', sess')
    <3>1. \/ snap' = snap /\ (work'[t] = "compact" => work[t] = "compact")
          \/ snap' = [snap EXCEPT ![t] = msgs]
      BY <1>1 DEF WorkerWrites, TypeOK, TasksType
    <3> SUFFICES ASSUME NEW u \in Turns, work'[u] = "compact"
                 PROVE  SentIn(snap'[u], dir, sess)
      BY <1>1
    <3>2. CASE u # t
      <4>1. work[u] = "compact"
        <5>1. work'[u] = work[u]
          BY <1>1, <3>2, WorkerSteps DEF WorkerDoes
        <5> QED
          BY <5>1
      <4>2. snap'[u] = snap[u]
        BY <3>1, <3>2 DEF TypeOK, EngineType
      <4> QED
        BY <4>1, <4>2 DEF Book, Separate
    <3>3. CASE u = t
      BY <3>1, <3>3 DEF Book, Separate, TypeOK, EngineType
    <3> QED
      BY <3>2, <3>3
  <2>4. main' = "compact" => SentIn(snap'[0], dir', sess')
    <3>1. snap'[0] = snap[0]
      BY <1>1 DEF WorkerWrites, TypeOK, EngineType
    <3> QED
      BY <1>1, <3>1 DEF Book, Separate
  <2>5. \A e \in memory' : sess'[e[2]] = e[1] /\ work'[e[2]] = "ended"
    <3> SUFFICES ASSUME NEW e \in memory'
                 PROVE  sess[e[2]] = e[1] /\ work'[e[2]] = "ended"
      BY <1>1
    <3>1. CASE e \in memory
      BY <1>3, <3>1 DEF Book, Separate, TypeOK, EngineType, GoesOn
    <3>2. CASE e = <<dir, t>> /\ work'[t] = "ended"
      BY <1>3, <3>2, WorkerIsCurrent DEF Book
    <3> QED
      BY <1>1, <3>1, <3>2 DEF WorkerWrites, TypeOK, TasksType
  <2> QED
    BY <2>1, <2>2, <2>3, <2>4, <2>5 DEF Separate
<1> QED
  BY <1>2, <1>5, <1>6 DEF Book

\* Going on with a message once no turn runs keeps the book.
LEMMA ContinueBook ==
    ASSUME TypeOK, Tokens, Protocol, Book,
           NEW act \in {"chat", "stop", "missing"} \cup Sessions,
           main' = "recv", \A t \in Turns : ~RunAlive(t),
           act = "chat" =>
               sent' \in Turns /\ \A t \in Turns : run[t] # "none" => t < sent',
           Continue(act), UNCHANGED <<work, memory, snap>>
    PROVE  Book'
<1> USE DEF Book
<1>1. \A t \in Turns : ~WorkAlive(t)
  BY DEF Protocol, WorkerOfStream, StreamOfRunner, StreamAlive, RunAlive
<1>2. \A t \in Turns : work[t] # "compact"
  BY <1>1 DEF WorkAlive
<1>3. Histories' \subseteq Histories
  BY DEF Continue, StartTurn, Restore, OpenSession, Histories, TypeOK, EngineType
<1>4. AllTales'
  BY <1>3 DEF AllTales
<1>5. CASE act = "chat" /\ StartTurn(sent')
  <2>1. /\ ckpt' = [ckpt EXCEPT ![dir] = msgs] /\ cur' = sent'
        /\ run' = [run EXCEPT ![sent'] = "created"]
        /\ sess' = [sess EXCEPT ![sent'] = dir]
        /\ dir' = dir /\ msgs' = msgs
    BY <1>5 DEF StartTurn
  <2>2. sent' \in Turns /\ run[sent'] = "none"
    BY <1>5, <2>1 DEF TypeOK, TasksType
  <2>3. work[sent'] = "none"
    BY <2>2 DEF Tokens, WorkOfRunner
  <2>4. LatestRuns'
    <3>1. \A t \in Turns : RunAlive(t)' => t = sent'
      BY <2>1, <2>2 DEF RunAlive, TypeOK, TasksType
    <3>2. \A u \in Turns : run'[u] # "none" => u <= sent'
      BY <1>5, <2>1, <2>2 DEF TypeOK, TasksType
    <3> QED
      BY <2>1, <2>2, <3>1, <3>2 DEF LatestRuns, TypeOK, TasksType, GhostsType
  <2>5. ASSUME NEW h \in Histories, NEW s, SentIn(h, s, sess)
        PROVE  SentIn(h, s, sess')
    <3>1. h \in History /\ sent' \notin TurnsIn(h)
      BY <2>3, HistoryTypes DEF AllTales, Tale, Told
    <3> QED
      BY <2>1, <2>2, <2>5, <3>1, TurnsOfHistory DEF SentIn, TypeOK, GhostsType
  <2>6. SentIn(msgs', dir', sess') /\ \A s \in Sessions : SentIn(ckpt'[s], s, sess')
    <3>1. msgs \in Histories /\ \A s \in Sessions : ckpt[s] \in Histories
      BY DEF Histories
    <3> QED
      BY <2>1, <2>5, <3>1 DEF Separate, TypeOK, EngineType
  <2>7. \A e \in memory : sess'[e[2]] = e[1] /\ work[e[2]] = "ended"
    <3> SUFFICES ASSUME NEW e \in memory
                 PROVE  sess'[e[2]] = e[1] /\ work[e[2]] = "ended"
      OBVIOUS
    <3>1. sess[e[2]] = e[1] /\ work[e[2]] = "ended" /\ e[2] \in Turns
      BY DEF Separate, TypeOK, EngineType
    <3> QED
      BY <2>1, <2>2, <2>3, <3>1 DEF TypeOK, GhostsType
  <2> QED
    BY <1>2, <1>4, <2>4, <2>6, <2>7 DEF Separate
<1>6. CASE /\ sess' = sess /\ run' = run /\ cur' = 0 /\ ckpt' = ckpt
           /\ \/ dir' \in Sessions /\ msgs' = ckpt[dir']
              \/ dir' = dir /\ msgs' = msgs
  <2>1. LatestRuns'
    BY <1>6 DEF LatestRuns, RunAlive
  <2>2. Separate'
    BY <1>2, <1>6 DEF Separate
  <2> QED
    BY <1>4, <2>1, <2>2
<1> QED
  <2>1. dir \in Sessions
    BY DEF TypeOK, EngineType
  <2> QED
    BY <1>5, <1>6, <2>1 DEF Continue, OpenSession, Restore

LEMMA HandleBook ==
    ASSUME TypeOK, Tokens, Protocol, Book,
           NEW act \in {"chat", "stop", "missing"} \cup Sessions,
           act = "chat" => sent < sent', sent' \in 0 .. MaxTurns, Handle(act)
    PROVE  Book'
<1>1. UNCHANGED <<work, memory, snap>> /\ main = "recv"
  BY DEF Handle
<1>2. CASE cur # 0 /\ RunAlive(cur)
  <2>1. UNCHANGED <<cur, run, sess, dir, msgs, ckpt>> /\ main' = "await"
    BY <1>2 DEF Handle
  <2> QED
    BY <1>1, <2>1 DEF Book, LatestRuns, AllTales, Histories, Separate, RunAlive
<1>3. CASE ~(cur # 0 /\ RunAlive(cur))
  <2>1. Continue(act) /\ main' = "recv"
    BY <1>1, <1>3 DEF Handle
  <2>2. \A t \in Turns : ~RunAlive(t)
    BY <1>3 DEF Protocol, OnlyCurrentRuns
  <2>3. act = "chat" =>
            sent' \in Turns /\ \A t \in Turns : run[t] # "none" => t < sent'
    BY DEF TypeOK, HandlerType, Protocol, StartedOnce
  <2> QED
    BY <1>1, <2>1, <2>2, <2>3, ContinueBook
<1> QED
  BY <1>2, <1>3

\* compact_now, and the end of one that waited for a summary.
LEMMA CompactBook ==
    ASSUME TypeOK, Book, RecvCompact \/ CompactDone
    PROVE  Book'
<1>1. /\ UNCHANGED <<cur, run, sess, dir, ckpt, work, memory>>
  BY DEF RecvCompact, CompactDone, chat, tasks, ghosts
<1>2. LatestRuns'
  BY <1>1 DEF Book, LatestRuns, RunAlive
<1>3. ASSUME NEW h \in Histories
      PROVE  /\ Tale(Compacted(h), work)
             /\ SentIn(h, dir, sess) => SentIn(Compacted(h), dir, sess)
  BY HistoryTypes, TaleCompacted, CompactedTurns DEF Book, AllTales, SentIn
<1>4. msgs \in Histories /\ \A u \in 0 .. MaxTurns : snap[u] \in Histories
  BY DEF Histories
<1>5. CASE RecvCompact
  <2>1. \/ msgs' = Compacted(msgs) /\ snap' = snap /\ main' = "recv"
        \/ msgs' = msgs /\ snap' = [snap EXCEPT ![0] = msgs]
    BY <1>5 DEF RecvCompact
  <2>2. Histories' \subseteq Histories \cup {Compacted(msgs)}
    BY <1>1, <2>1 DEF Histories, TypeOK, EngineType
  <2>3. AllTales'
    BY <1>1, <1>3, <1>4, <2>2 DEF Book, AllTales
  <2>4. Separate'
    <3>1. SentIn(msgs', dir, sess)
      BY <1>3, <1>4, <2>1 DEF Book, Separate
    <3>2. \A t \in Turns : snap'[t] = snap[t]
      BY <2>1 DEF TypeOK, EngineType
    <3>3. main' = "compact" => SentIn(snap'[0], dir, sess)
      BY <2>1 DEF Book, Separate, TypeOK, EngineType
    <3> QED
      BY <1>1, <3>1, <3>2, <3>3 DEF Book, Separate
  <2> QED
    BY <1>2, <2>3, <2>4 DEF Book
<1>6. CASE CompactDone
  <2>1. /\ main = "compact" /\ main' = "recv" /\ msgs' = Compacted(snap[0])
        /\ snap' = [snap EXCEPT ![0] = NoHistory]
    BY <1>6 DEF CompactDone
  <2>2. Histories' \subseteq Histories \cup {Compacted(snap[0]), NoHistory}
    BY <1>1, <2>1 DEF Histories, TypeOK, EngineType
  <2>3. AllTales'
    BY <1>1, <1>3, <1>4, <2>2, TaleOfNothing DEF Book, AllTales
  <2>4. Separate'
    <3>1. SentIn(msgs', dir, sess)
      BY <1>3, <1>4, <2>1 DEF Book, Separate
    <3>2. \A t \in Turns : snap'[t] = snap[t]
      BY <2>1 DEF TypeOK, EngineType
    <3> QED
      BY <1>1, <2>1, <3>1, <3>2 DEF Book, Separate
  <2> QED
    BY <1>2, <2>3, <2>4 DEF Book
<1> QED
  BY <1>5, <1>6

LEMMA HandlerBook ==
    ASSUME TypeOK, HandlerOK, Tokens, Protocol, Book, MaxConns = 1, Client \/ Handler
    PROVE  Book'
<1>1. CASE RecvChat
  BY <1>1, HandleBook DEF RecvChat, TypeOK, HandlerType
<1>2. ASSUME NEW act \in {"stop", "missing"} \cup Sessions, sent' = sent, Handle(act)
      PROVE  Book'
  <2>1. act # "chat"
    OBVIOUS
  <2> QED
    BY <1>2, <2>1, HandleBook DEF TypeOK, HandlerType
<1>3. CASE \/ RecvStop \/ RecvMissingSession
           \/ \E s \in Sessions : RecvSession(s)
  BY <1>2, <1>3 DEF RecvStop, RecvMissingSession, RecvSession
<1>4. CASE RecvCompact \/ CompactDone
  BY <1>4, CompactBook
<1>5. CASE \E t \in Turns, a \in {"yes", "no"} : RecvPermission(t, a)
  <2>1. UNCHANGED <<chat, tasks, engine, ghosts>>
    BY <1>5 DEF RecvPermission
  <2> QED
    BY <2>1 DEF Book, LatestRuns, AllTales, Histories, Separate, RunAlive, chat, tasks,
       engine, ghosts
<1>6. ASSUME Disconnect \/ \E s \in Sessions : Connect(s)
      PROVE  FALSE
  <2>1. conn \in 1 .. 1
    BY DEF TypeOK, HandlerType
  <2>2. conn < MaxConns
    BY <1>6 DEF Disconnect, Connect, HandlerOK
  <2> QED
    BY <2>1, <2>2
<1>7. CASE Resume
  <2>1. /\ Continue(after) /\ main = "await" /\ main' = "recv" /\ ~RunAlive(cur)
        /\ sent' = sent /\ UNCHANGED <<work, memory, snap>>
    BY <1>7 DEF Resume
  <2>2. after \in {"chat", "stop", "missing"} \cup Sessions
    BY <2>1 DEF TypeOK, HandlerType, HandlerOK
  <2>3. \A t \in Turns : ~RunAlive(t)
    BY <2>1 DEF Protocol, OnlyCurrentRuns
  <2>4. after = "chat" =>
            sent' \in Turns /\ \A t \in Turns : run[t] # "none" => t < sent'
    BY <2>1 DEF TypeOK, HandlerType, HandlerOK, Protocol, StartedOnce
  <2> QED
    BY <2>1, <2>2, <2>3, <2>4, ContinueBook
<1> QED
  BY <1>1, <1>3, <1>4, <1>5, <1>6, <1>7 DEF Client, Handler

\* What the histories hold, in every state.
LEMMA BookInvariant ==
    ASSUME SlowSend = FALSE, MaxConns = 1
    PROVE  Spec => []Book
<1>1. Init => Book
  <2> SUFFICES ASSUME Init PROVE Book
    OBVIOUS
  <2>1. Histories = {NoHistory}
    BY DEF Init, Histories
  <2>2. AllTales
    BY <2>1, TaleOfNothing DEF AllTales
  <2>3. \A s : SentIn(NoHistory, s, sess)
    BY DEF SentIn, TurnsIn, NoHistory
  <2> QED
    BY <2>2, <2>3 DEF Init, Book, LatestRuns, Separate, RunAlive
<1>2. /\ TypeOK /\ HandlerOK /\ Protocol /\ Tokens /\ Book /\ [Next]_vars
      => Book'
  <2> SUFFICES ASSUME TypeOK, HandlerOK, Protocol, Tokens, Book, [Next]_vars
               PROVE  Book'
    OBVIOUS
  <2>1. CASE Client \/ Handler
    BY <2>1, HandlerBook
  <2>2. ASSUME NEW t \in Turns,
               Runner(t) \/ Stream(t) \/ StreamTimeout(t) \/ Worker(t)
        PROVE  Book'
    BY <2>2, RunnerBook, WorkerBook
  <2>3. CASE UNCHANGED vars
    <3>1. UNCHANGED <<chat, tasks, engine, ghosts>>
      BY <2>3 DEF vars
    <3> QED
      BY <3>1 DEF Book, LatestRuns, AllTales, Histories, Separate, RunAlive, chat, tasks,
         engine, ghosts
  <2> QED
    BY <2>1, <2>2, <2>3 DEF Next
<1> QED
  BY <1>1, <1>2, ProtocolInvariant, TokensInvariant, PTL DEF Spec

\* On one connection whose sends do not suspend, with any stops, session switches and
\* compactions, the client's and the turns': the engine's messages and every
\* checkpoint are chronological, a turn's question before its answer, each once.
THEOREM ConversationInOrder ==
    ASSUME SlowSend = FALSE, MaxConns = 1
    PROVE  Spec => []Chronological
<1>1. Book => Chronological
  BY DEF Book, AllTales, Histories, Tale, Chronological
<1> QED
  BY <1>1, BookInvariant, PTL

\* memory.md:191, under the same conditions: a session's checkpoint and its daily memory
\* hold only turns sent in that session, whatever was cancelled or switched in between.
THEOREM SessionsKeptApart ==
    ASSUME SlowSend = FALSE, MaxConns = 1
    PROVE  Spec => []SessionsSeparate
<1>1. Book => SessionsSeparate
  BY DEF Book, Separate, SentIn, SessionsSeparate
<1> QED
  BY <1>1, BookInvariant, PTL

-----------------------------------------------------------------------------
(* The same, when the client compacts nothing: what a conversation keeps.  *)

\* The questions of h without an answer are that of c and the superseded ones; r is how
\* the turns ended.
HalfOf(h, c, r) ==
    \A i \in 1 .. Len(h.talk) :
        h.talk[i].role = "user" =>
            \/ Mentions(h, h.talk[i].turn)
            \/ r[h.talk[i].turn] = "superseded"
            \/ h.talk[i].turn = c

LEMMA SayMentions ==
    ASSUME NEW h \in History, NEW m \in Message
    PROVE  /\ \A t \in Turns : Mentions(h, t) => Mentions(Say(h, m), t)
           /\ \A t \in Turns : m = Answer(t) => Mentions(Say(h, m), t)
<1>1. /\ Say(h, m).noted = h.noted /\ Len(h.talk) \in Nat
      /\ Len(Say(h, m).talk) = Len(h.talk) + 1
      /\ \A i \in 1 .. Len(h.talk) : Say(h, m).talk[i] = h.talk[i]
      /\ Say(h, m).talk[Len(h.talk) + 1] = m
  BY SayAdds DEF History
<1>2. ASSUME NEW t \in Turns, Mentions(h, t)
      PROVE  Mentions(Say(h, m), t)
  BY <1>1, <1>2 DEF Mentions
<1>3. ASSUME NEW t \in Turns, m = Answer(t)
      PROVE  Mentions(Say(h, m), t)
  <2>1. Len(h.talk) + 1 \in 1 .. Len(Say(h, m).talk)
    BY <1>1
  <2> QED
    BY <1>1, <1>3, <2>1 DEF Mentions
<1> QED
  BY <1>2, <1>3

LEMMA HalfSaid ==
    ASSUME NEW h \in History, NEW m \in Message, NEW c, NEW r, HalfOf(h, c, r),
           m.role = "user" => m.turn = c
    PROVE  HalfOf(Say(h, m), c, r)
<1>1. /\ Len(h.talk) \in Nat /\ Len(Say(h, m).talk) = Len(h.talk) + 1
      /\ \A i \in 1 .. Len(h.talk) : Say(h, m).talk[i] = h.talk[i]
      /\ Say(h, m).talk[Len(h.talk) + 1] = m
  BY SayAdds DEF History
<1> SUFFICES ASSUME NEW i \in 1 .. Len(h.talk) + 1, Say(h, m).talk[i].role = "user"
             PROVE  \/ Mentions(Say(h, m), Say(h, m).talk[i].turn)
                    \/ r[Say(h, m).talk[i].turn] = "superseded"
                    \/ Say(h, m).talk[i].turn = c
  BY <1>1 DEF HalfOf
<1>2. CASE i \in 1 .. Len(h.talk)
  BY <1>1, <1>2, SayMentions, TurnsOfHistory DEF HalfOf
<1>3. CASE i = Len(h.talk) + 1
  BY <1>1, <1>3
<1> QED
  BY <1>1, <1>2, <1>3

LEMMA HalfCompacted ==
    ASSUME NEW h \in History, NEW c, NEW r, HalfOf(h, c, r)
    PROVE  HalfOf(Compacted(h), c, r)
BY CompactedPositions, CompactedMentions, TurnsOfHistory DEF HalfOf

\* Once the turn c has its answer, or was superseded, no question is open.
LEMMA HalfAnswered ==
    ASSUME NEW h \in History, NEW c \in 0 .. MaxTurns, NEW r, HalfOf(h, c, r),
           c # 0 => Mentions(h, c) \/ r[c] = "superseded"
    PROVE  \A d : HalfOf(h, d, r)
<1>1. \A i \in 1 .. Len(h.talk) : h.talk[i].turn # 0
  BY TurnsOfHistory
<1> QED
  BY <1>1 DEF HalfOf

\* What is superseded stays so.
LEMMA HalfStays ==
    ASSUME NEW h \in History, NEW c, NEW r, NEW q, HalfOf(h, c, r),
           \A t \in Turns : r[t] = "superseded" => q[t] = "superseded"
    PROVE  HalfOf(h, c, q)
BY TurnsOfHistory DEF HalfOf

LEMMA HalfOfNone ==
    ASSUME NEW h \in History, NEW r, HalfOf(h, 0, r)
    PROVE  \A d : HalfOf(h, d, r)
BY HalfAnswered

\* A cancellation is requested by a handler that then waits for its end, and reaches a
\* worker from a closing generator only.
Cancels ==
    /\ main # "compact"
    /\ \A t \in killRun : run[t] \in {"created", "get"} /\ main = "await"
    /\ \A t \in Turns : run[t] = "closing" => main = "await"
    /\ \A t \in killWork : WorkAlive(t) /\ strm[t] = "closing"

\* Answers are kept: by the messages what the open session's checkpoint has, by the
\* checkpoints what clients were told is done, and what a worker said before its end.
Keeps ==
    /\ \A t \in Turns : work[t] = "compact" => snap[t] = msgs
    /\ \A t \in Turns : Mentions(ckpt[dir], t) => Mentions(msgs, t)
    /\ \A t \in Turns : run[t] = "get" /\ work[t] = "ended" => Mentions(msgs, t)
    /\ AnswerKept

\* The handler's turn has no other reply than "done", which ends it if nothing stops it.
Replies ==
    /\ \A t \in Turns : run[t] = "none" => reply[t] = "none"
    /\ cur # 0 => reply[cur] \in {"none", "done"} /\ (RunAlive(cur) => reply[cur] = "none")
    /\ main = "recv" /\ cur # 0 /\ run[cur] = "ended" => reply[cur] = "done"

\* Open questions are in the messages only.
Halves ==
    /\ HalfOf(msgs, cur, reply)
    /\ \A s \in Sessions : HalfOf(ckpt[s], 0, reply)

Kept == Cancels /\ Keeps /\ Replies /\ Halves

LEMMA HistoriesTyped ==
    ASSUME TypeOK
    PROVE  /\ msgs \in History /\ dir \in Sessions
           /\ \A s \in Sessions : ckpt[s] \in History
           /\ \A t \in Turns : snap[t] \in History /\ Compacted(snap[t]) \in History
           /\ Compacted(msgs) \in History
BY CompactedType DEF TypeOK, EngineType

\* A worker's step loses no answer, and leaves no question open but its own.
LEMMA WorkerKept ==
    ASSUME TypeOK, Tokens, Protocol, Book, Kept, NEW t \in Turns, Worker(t)
    PROVE  Kept'
<1> USE DEF Kept
<1>1. /\ WorkerWrites(t) /\ UNCHANGED <<dir, sess, reply, killRun, main, cur, run, strm>>
      /\ killWork' = killWork \ {t} /\ \A u \in Turns \ {t} : work'[u] = work[u]
      /\ WorkAlive(t)
  BY WorkerStepsWrite, WorkerSteps DEF WorkerDoes, chat
<1>2. t = cur /\ sess[t] = dir /\ RunAlive(t)
  BY <1>1, WorkerIsCurrent DEF Book
<1>3. Cancels'
  BY <1>1 DEF Cancels, WorkAlive, TypeOK, TasksType
<1>4. Replies'
  BY <1>1 DEF Replies, RunAlive
<1>5. ASSUME NEW h \in {msgs, Compacted(msgs)}
      PROVE  /\ h \in History /\ HalfOf(h, cur, reply)
             /\ \A u \in Turns : Mentions(msgs, u) => Mentions(h, u)
  BY HistoriesTyped, HalfCompacted, CompactedMentions DEF Halves
<1>6. CASE UNCHANGED <<msgs, ckpt>> /\ snap' \in {snap, [snap EXCEPT ![t] = msgs]}
           /\ work' # [work EXCEPT ![t] = "ended"]
  <2>1. work'[t] # "ended"
    BY <1>1, <1>6 DEF WorkerWrites, TypeOK, TasksType
  <2>2. \A u \in Turns : work'[u] = "compact" => snap'[u] = msgs
    <3> SUFFICES ASSUME NEW u \in Turns, work'[u] = "compact"
                 PROVE  snap'[u] = msgs
      OBVIOUS
    <3>1. CASE u # t
      BY <1>1, <1>6, <3>1 DEF Keeps, TypeOK, EngineType
    <3>2. CASE u = t /\ snap' = [snap EXCEPT ![t] = msgs]
      BY <3>2 DEF TypeOK, EngineType
    <3>3. CASE u = t /\ snap' = snap
      <4>1. work[t] = "compact" \/ snap' = [snap EXCEPT ![t] = msgs]
        BY <1>1, <1>6, <3>3 DEF WorkerWrites, TypeOK, TasksType
      <4> QED
        BY <3>2, <3>3, <4>1 DEF Keeps
    <3> QED
      BY <1>6, <3>1, <3>2, <3>3
  <2>3. Keeps'
    BY <1>1, <1>6, <2>1, <2>2 DEF Keeps, AnswerKept
  <2> QED
    BY <1>1, <1>3, <1>4, <1>6, <2>3 DEF Halves
<1>7. CASE /\ UNCHANGED <<msgs, ckpt, snap>> /\ work' = [work EXCEPT ![t] = "ended"]
           /\ t \in killWork
  <2>1. run[t] # "get"
    BY <1>7 DEF Cancels, Protocol, StreamOfRunner
  <2>2. Keeps'
    BY <1>1, <1>7, <2>1 DEF Keeps, AnswerKept, TypeOK, TasksType
  <2> QED
    BY <1>1, <1>3, <1>4, <1>7, <2>2 DEF Halves
<1>8. CASE /\ work[t] = "created" /\ work' = [work EXCEPT ![t] = "hook"]
           /\ msgs' = Say(msgs, User(t)) /\ UNCHANGED <<ckpt, snap>>
  <2>1. User(t) \in Message /\ User(t).turn = t
    <3>1. User(t) \in Message
      BY AnswerType
    <3> QED
      BY <3>1 DEF User
  <2>2. \A u \in Turns : Mentions(msgs, u) => Mentions(msgs', u)
    BY <1>8, <2>1, SayMentions, HistoriesTyped
  <2>3. \A u \in Turns : work'[u] # "compact"
    <3> SUFFICES ASSUME NEW u \in Turns, work'[u] = "compact"
                 PROVE  FALSE
      OBVIOUS
    <3>1. u # t
      BY <1>8 DEF TypeOK, TasksType
    <3>2. WorkAlive(u)
      BY <1>1, <3>1 DEF WorkAlive
    <3> QED
      BY <1>2, <3>1, <3>2, WorkerIsCurrent DEF Book
  <2>4. \A u \in Turns : work'[u] = "ended" => work[u] = "ended"
    BY <1>1, <1>8 DEF TypeOK, TasksType
  <2>5. Keeps'
    BY <1>1, <1>8, <2>2, <2>3, <2>4 DEF Keeps, AnswerKept
  <2>6. HalfOf(msgs', cur, reply)
    BY <1>2, <1>8, <2>1, HalfSaid, HistoriesTyped DEF Halves
  <2> QED
    BY <1>1, <1>3, <1>4, <1>8, <2>5, <2>6 DEF Halves
<1>9. CASE /\ work' = [work EXCEPT ![t] = "ended"]
           /\ \/ msgs' \in {Say(msgs, Answer(t)), Say(Compacted(msgs), Answer(t))}
              \/ work[t] = "compact" /\ msgs' = Say(Compacted(snap[t]), Answer(t))
           /\ ckpt' = [ckpt EXCEPT ![dir] = msgs'] /\ UNCHANGED snap
  <2>1. PICK h \in {msgs, Compacted(msgs)} : msgs' = Say(h, Answer(t))
    BY <1>9 DEF Keeps
  <2>2. Answer(t) \in Message /\ Answer(t).role = "assistant"
    <3>1. Answer(t) \in Message
      BY AnswerType
    <3> QED
      BY <3>1 DEF Answer
  <2>3. msgs' \in History
    BY <1>5, <2>1, <2>2, SayType
  <2>4. Mentions(msgs', t) /\ \A u \in Turns : Mentions(msgs, u) => Mentions(msgs', u)
    BY <1>5, <2>1, <2>2, SayMentions
  <2>5. HalfOf(msgs', cur, reply)
    BY <1>5, <2>1, <2>2, HalfSaid
  <2>6. \A d : HalfOf(msgs', d, reply)
    BY <1>2, <2>3, <2>4, <2>5, HalfAnswered
  <2>7. Halves'
    BY <1>1, <1>9, <2>6 DEF Halves, TypeOK, EngineType
  <2>8. \A u \in Turns : work'[u] # "compact"
    <3> SUFFICES ASSUME NEW u \in Turns, work'[u] = "compact"
                 PROVE  FALSE
      OBVIOUS
    <3>1. u # t
      BY <1>9 DEF TypeOK, TasksType
    <3>2. WorkAlive(u)
      BY <1>1, <3>1 DEF WorkAlive
    <3> QED
      BY <1>2, <3>1, <3>2, WorkerIsCurrent DEF Book
  <2>9. \A u \in Turns : Mentions(ckpt'[dir'], u) => Mentions(msgs', u)
    BY <1>1, <1>9, HistoriesTyped DEF TypeOK, EngineType
  <2>10. \A u \in Turns : run'[u] = "get" /\ work'[u] = "ended" => Mentions(msgs', u)
    BY <1>1, <2>4 DEF Keeps
  <2>11. AnswerKept'
    <3> SUFFICES ASSUME NEW u \in Turns, reply[u] = "done"
                 PROVE  Mentions(ckpt'[sess[u]], u)
      BY <1>1 DEF AnswerKept
    <3>1. Mentions(ckpt[sess[u]], u) /\ sess[u] \in Sessions
      BY DEF Keeps, AnswerKept, TypeOK, GhostsType
    <3>2. CASE sess[u] = dir
      BY <1>9, <2>4, <3>1, <3>2 DEF Keeps, TypeOK, EngineType
    <3>3. CASE sess[u] # dir
      BY <1>9, <3>1, <3>3 DEF TypeOK, EngineType
    <3> QED
      BY <3>2, <3>3
  <2> QED
    BY <1>3, <1>4, <2>7, <2>8, <2>9, <2>10, <2>11 DEF Keeps
<1> QED
  <2>1. ASSUME NEW state \in {"hook", "llm", "backoff", "tool", "approval", "compact"}
        PROVE  [work EXCEPT ![t] = state] # [work EXCEPT ![t] = "ended"]
    <3>1. /\ [work EXCEPT ![t] = state][t] = state
          /\ [work EXCEPT ![t] = "ended"][t] = "ended"
      BY DEF TypeOK, TasksType
    <3> QED
      BY <3>1
  <2> QED
    BY <1>1, <1>6, <1>7, <1>8, <1>9, <2>1 DEF WorkerWrites

LEMMA RunnerKept ==
    ASSUME SlowSend = FALSE, TypeOK, Tokens, Protocol, Book, Kept, NEW t \in Turns,
           Runner(t) \/ Stream(t) \/ StreamTimeout(t)
    PROVE  Kept'
<1> USE DEF Kept
<1>1. UNCHANGED <<main, cur, live, msgs, dir, memory, snap, sess>>
  BY RunnerWrites DEF chat
<1>2. ASSUME UNCHANGED <<ckpt, reply>>, \A u \in Turns : run'[u] = "none" => run[u] = "none",
             \A u \in Turns : RunAlive(u)' => RunAlive(u),
             main = "recv" /\ cur # 0 /\ run'[cur] = "ended" => run[cur] = "ended",
             \A u \in Turns : work'[u] = "compact" => work[u] = "compact",
             \A u \in Turns : run'[u] = "get" /\ work'[u] = "ended" =>
                 run[u] = "get" /\ work[u] = "ended"
      PROVE  Keeps' /\ Replies' /\ Halves'
  <2>1. Keeps'
    BY <1>1, <1>2 DEF Keeps, AnswerKept
  <2>2. Replies'
    BY <1>1, <1>2 DEF Replies, TypeOK, HandlerType
  <2>3. Halves'
    BY <1>1, <1>2 DEF Halves
  <2> QED
    BY <2>1, <2>2, <2>3
<1>3. CASE RunStart(t)
  <2>1. /\ run' = [run EXCEPT ![t] = "get"] /\ work' = [work EXCEPT ![t] = "created"]
        /\ strm' = [strm EXCEPT ![t] = "open"] /\ run[t] = "created"
        /\ t \notin killRun /\ UNCHANGED <<ckpt, reply, killRun, killWork>>
    BY <1>3 DEF RunStart, engine, ghosts
  <2>2. Keeps' /\ Replies' /\ Halves'
    BY <1>2, <2>1 DEF TypeOK, TasksType, RunAlive
  <2>3. t \notin killWork
    BY <2>1 DEF Cancels, Protocol, StreamOfRunner
  <2>4. Cancels'
    BY <1>1, <2>1, <2>3 DEF Cancels, TypeOK, TasksType, WorkAlive
  <2> QED
    BY <2>2, <2>4
<1>4. CASE RunGet(t) \/ RunSent(t)
  <2>1. t \in live
    BY <1>4 DEF RunGet, RunSent, Protocol, OnlyCurrentRuns, RunAlive
  <2>2. RunGet(t)
    BY <1>4 DEF RunSent, Protocol, StreamOfRunner
  <2>3. UNCHANGED <<run, strm, work, ckpt, reply, killRun, killWork>>
    BY <2>1, <2>2 DEF RunGet, engine, ghosts
  <2>4. Keeps' /\ Replies' /\ Halves'
    BY <1>2, <2>3 DEF RunAlive
  <2>5. Cancels'
    BY <1>1, <2>3 DEF Cancels, WorkAlive
  <2> QED
    BY <2>4, <2>5
<1>5. CASE RunDone(t)
  <2>1. run[t] = "get" /\ RunAlive(t)
    BY <1>5 DEF RunDone, RunAlive
  <2>2. t \in live /\ t = cur /\ sess[t] = dir /\ dir \in Sessions
    BY <2>1 DEF Protocol, OnlyCurrentRuns, Book, LatestRuns, TypeOK, EngineType
  <2>3. /\ ckpt' = [ckpt EXCEPT ![dir] = msgs] /\ reply' = [reply EXCEPT ![t] = "done"]
        /\ run' = [run EXCEPT ![t] = "ended"] /\ strm' = [strm EXCEPT ![t] = "closed"]
        /\ UNCHANGED <<work, killRun, killWork>> /\ t \notin killRun
    BY <1>5, <2>2 DEF RunDone
  <2>4. work[t] = "ended"
    <3>1. /\ 1 \in 1 .. Len(queue) /\ queue[1].kind = "done" /\ queue[1].turn = t
      BY <1>5 DEF RunDone, Done, TypeOK, BridgeType
    <3> QED
      BY <3>1 DEF Tokens, TokensOfEnded
  <2>5. Mentions(msgs, t)
    BY <2>1, <2>4 DEF Keeps
  <2>6. Cancels'
    BY <1>1, <2>3, <2>4 DEF Cancels, WorkAlive, TypeOK, TasksType
  <2>7. Replies'
    BY <1>1, <2>2, <2>3 DEF Replies, RunAlive, TypeOK, TasksType, GhostsType
  <2>8. AnswerKept'
    <3> SUFFICES ASSUME NEW u \in Turns, reply'[u] = "done"
                 PROVE  Mentions(ckpt'[sess[u]], u)
      BY <1>1 DEF AnswerKept
    <3>1. sess[u] \in Sessions
      BY DEF TypeOK, GhostsType
    <3>2. CASE u = t
      BY <2>2, <2>3, <2>5, <3>2 DEF TypeOK, EngineType
    <3>3. CASE u # t
      <4>1. Mentions(ckpt[sess[u]], u)
        BY <2>3, <3>3 DEF Keeps, AnswerKept, TypeOK, GhostsType
      <4>2. CASE sess[u] = dir
        BY <2>3, <4>1, <4>2 DEF Keeps, TypeOK, EngineType
      <4>3. CASE sess[u] # dir
        BY <2>3, <4>1, <4>3 DEF TypeOK, EngineType
      <4> QED
        BY <4>2, <4>3
    <3> QED
      BY <3>2, <3>3
  <2>9. Keeps'
    <3>1. \A u \in Turns : Mentions(ckpt'[dir'], u) => Mentions(msgs', u)
      BY <1>1, <2>2, <2>3 DEF TypeOK, EngineType
    <3>2. \A u \in Turns : run'[u] = "get" /\ work'[u] = "ended" => Mentions(msgs', u)
      BY <1>1, <2>3 DEF Keeps, TypeOK, TasksType
    <3> QED
      BY <1>1, <2>3, <2>8, <3>1, <3>2 DEF Keeps
  <2>10. Halves'
    <3>1. \A u \in Turns : reply[u] = "superseded" => reply'[u] = "superseded"
      <4>1. reply[t] # "superseded"
        BY <2>1, <2>2 DEF Replies
      <4> QED
        BY <2>3, <4>1 DEF TypeOK, GhostsType
    <3>2. HalfOf(msgs, cur, reply) /\ \A s \in Sessions : HalfOf(ckpt[s], 0, reply)
      BY DEF Halves
    <3>3. HalfOf(msgs, cur, reply') /\ \A s \in Sessions : HalfOf(ckpt[s], 0, reply')
      BY <3>1, <3>2, HalfStays, HistoriesTyped
    <3>4. HalfOf(msgs, 0, reply')
      BY <2>2, <2>5, <3>3, HalfAnswered, HistoriesTyped DEF TypeOK, HandlerType
    <3> QED
      BY <1>1, <2>3, <3>3, <3>4 DEF Halves, TypeOK, EngineType
  <2> QED
    BY <2>6, <2>7, <2>9, <2>10
<1>6. CASE RunCancelled(t)
  <2>1. t \in killRun /\ main = "await" /\ run[t] \in {"created", "get"}
    BY <1>6 DEF RunCancelled, Cancels
  <2>2. /\ killRun' = killRun \ {t}
        /\ \/ /\ run[t] = "created" /\ run' = [run EXCEPT ![t] = "ended"]
              /\ UNCHANGED <<strm, killWork>>
           \/ /\ run[t] = "get" /\ run' = [run EXCEPT ![t] = "closing"]
              /\ strm' = [strm EXCEPT ![t] = "closing"]
              /\ killWork' = IF WorkAlive(t) THEN killWork \cup {t} ELSE killWork
        /\ UNCHANGED <<work, ckpt, reply>>
    BY <1>6, <2>1 DEF RunCancelled, engine, ghosts
  <2>3. Keeps' /\ Replies' /\ Halves'
    BY <1>1, <1>2, <2>1, <2>2 DEF TypeOK, TasksType, RunAlive
  <2>4. Cancels'
    <3>1. \A u \in killWork' : WorkAlive(u)' /\ strm'[u] = "closing"
      <4>1. CASE UNCHANGED <<strm, killWork>>
        BY <2>2, <4>1 DEF Cancels, WorkAlive
      <4>2. CASE /\ strm' = [strm EXCEPT ![t] = "closing"]
                 /\ killWork' = IF WorkAlive(t) THEN killWork \cup {t} ELSE killWork
        <5>1. \A u \in killWork : u \in Turns /\ WorkAlive(u) /\ strm[u] = "closing"
          BY DEF Cancels, TypeOK, TasksType
        <5>2. \A u \in killWork' : u \in Turns /\ WorkAlive(u) /\ strm'[u] = "closing"
          BY <4>2, <5>1 DEF TypeOK, TasksType
        <5> QED
          BY <2>2, <5>2 DEF WorkAlive
      <4> QED
        BY <2>2, <4>1, <4>2
    <3> QED
      BY <1>1, <2>1, <2>2, <3>1 DEF Cancels, TypeOK, TasksType
  <2> QED
    BY <2>3, <2>4
<1>7. CASE StreamTimeout(t)
  <2>1. /\ UNCHANGED <<run, strm, work, ckpt, reply, killRun>>
        /\ killWork' = killWork \cup {t} /\ strm[t] = "closing" /\ WorkAlive(t)
    BY <1>7 DEF StreamTimeout, engine, ghosts
  <2>2. Keeps' /\ Replies' /\ Halves'
    BY <1>2, <2>1 DEF RunAlive
  <2>3. Cancels'
    BY <1>1, <2>1 DEF Cancels, WorkAlive
  <2> QED
    BY <2>2, <2>3
<1>8. CASE Stream(t)
  <2>1. StreamClosed(t)
    BY <1>8 DEF Stream, StreamAclose, Protocol, StreamOfRunner
  <2>2. /\ strm[t] = "closing" /\ ~WorkAlive(t)
        /\ strm' = [strm EXCEPT ![t] = "closed"] /\ run' = [run EXCEPT ![t] = "ended"]
        /\ UNCHANGED <<work, ckpt, reply, killRun, killWork>>
    BY <2>1 DEF StreamClosed, engine, ghosts
  <2>3. run[t] = "closing" /\ main = "await" /\ t \notin killRun /\ t \notin killWork
    BY <2>2 DEF Protocol, StreamOfRunner, Cancels
  <2>4. Keeps' /\ Replies' /\ Halves'
    BY <1>1, <1>2, <2>2, <2>3 DEF TypeOK, TasksType, RunAlive
  <2>5. Cancels'
    BY <1>1, <2>2, <2>3 DEF Cancels, WorkAlive, TypeOK, TasksType
  <2> QED
    BY <2>4, <2>5
<1> QED
  BY <1>3, <1>4, <1>5, <1>6, <1>7, <1>8 DEF Runner

\* Going on with a message, once no turn runs and the handler's has its answer or was
\* superseded (unless the messages are read again from a checkpoint).
LEMMA ContinueKept ==
    ASSUME TypeOK, Tokens, Protocol, Book, Kept,
           NEW act \in {"chat", "stop", "missing"} \cup Sessions,
           main' = "recv", \A t \in Turns : ~RunAlive(t),
           act = "chat" =>
               sent' \in Turns /\ \A t \in Turns : run[t] # "none" => t < sent',
           act \in {"chat", "missing"} /\ cur # 0 =>
               Mentions(msgs, cur) \/ reply'[cur] = "superseded",
           \A t \in Turns : reply[t] = "superseded" => reply'[t] = "superseded",
           \A t \in Turns : reply'[t] = "done" => reply[t] = "done",
           \A t \in Turns : run[t] = "none" => reply'[t] = "none",
           Continue(act), UNCHANGED <<work, strm, memory, snap, killRun, killWork>>
    PROVE  Kept'
<1> USE DEF Kept
<1>1. \A t \in Turns : ~WorkAlive(t) /\ run[t] \notin {"created", "get", "closing"}
  BY DEF Protocol, WorkerOfStream, StreamOfRunner, StreamAlive, RunAlive
<1>2. killRun = {} /\ killWork = {} /\ \A t \in Turns : work[t] # "compact"
  BY <1>1 DEF Cancels, WorkAlive, TypeOK, TasksType
<1>3. HalfOf(msgs, cur, reply') /\ \A s \in Sessions : HalfOf(ckpt[s], 0, reply')
  BY HalfStays, HistoriesTyped DEF Halves
<1>4. act \in {"chat", "missing"} => \A d : HalfOf(msgs, d, reply')
  BY <1>3, HalfAnswered, HistoriesTyped DEF TypeOK, HandlerType
<1>5. \A s \in Sessions : \A d : HalfOf(ckpt[s], d, reply')
  BY <1>3, HalfOfNone, HistoriesTyped
<1>6. dir \in Sessions /\ \A t \in Turns : sess[t] \in Sessions
  BY DEF TypeOK, EngineType, GhostsType
<1>7. CASE act = "chat" /\ StartTurn(sent')
  <2>1. /\ ckpt' = [ckpt EXCEPT ![dir] = msgs] /\ cur' = sent'
        /\ run' = [run EXCEPT ![sent'] = "created"]
        /\ sess' = [sess EXCEPT ![sent'] = dir]
        /\ dir' = dir /\ msgs' = msgs
    BY <1>7 DEF StartTurn
  <2>2. sent' \in Turns /\ run[sent'] = "none" /\ reply'[sent'] = "none"
    BY <1>7, <2>1 DEF TypeOK, TasksType
  <2>3. Cancels'
    BY <1>1, <1>2, <2>1 DEF Cancels, TypeOK, TasksType
  <2>4. Keeps'
    <3>1. \A t \in Turns : Mentions(ckpt'[dir'], t) => Mentions(msgs', t)
      BY <1>6, <2>1 DEF TypeOK, EngineType
    <3>2. \A t \in Turns : run'[t] # "get"
      BY <1>1, <2>1 DEF TypeOK, TasksType
    <3>3. AnswerKept'
      <4> SUFFICES ASSUME NEW t \in Turns, reply'[t] = "done"
                   PROVE  Mentions(ckpt'[sess'[t]], t)
        BY DEF AnswerKept
      <4>1. t # sent' /\ Mentions(ckpt[sess[t]], t)
        BY <2>2 DEF Keeps, AnswerKept
      <4>2. sess'[t] = sess[t] /\ sess[t] \in Sessions
        BY <2>1, <4>1 DEF TypeOK, GhostsType
      <4>3. CASE sess[t] = dir
        BY <2>1, <4>1, <4>2, <4>3 DEF Keeps, TypeOK, EngineType
      <4>4. CASE sess[t] # dir
        BY <2>1, <4>1, <4>2, <4>4 DEF TypeOK, EngineType
      <4> QED
        BY <4>3, <4>4
    <3> QED
      BY <1>2, <3>1, <3>2, <3>3 DEF Keeps
  <2>5. Replies'
    BY <2>1, <2>2 DEF Replies, TypeOK, TasksType
  <2>6. Halves'
    BY <1>4, <1>5, <1>7, <2>1 DEF Halves, TypeOK, EngineType
  <2> QED
    BY <2>3, <2>4, <2>5, <2>6
<1>8. CASE /\ sess' = sess /\ run' = run /\ cur' = 0 /\ ckpt' = ckpt
           /\ \/ dir' \in Sessions /\ msgs' = ckpt[dir']
              \/ act = "missing" /\ dir' = dir /\ msgs' = msgs
  <2>1. Cancels'
    BY <1>1, <1>2, <1>8 DEF Cancels
  <2>2. Keeps'
    BY <1>1, <1>2, <1>8 DEF Keeps, AnswerKept
  <2>3. Replies'
    BY <1>8 DEF Replies
  <2>4. Halves'
    BY <1>4, <1>5, <1>8 DEF Halves
  <2> QED
    BY <2>1, <2>2, <2>3, <2>4
<1> QED
  BY <1>6, <1>7, <1>8 DEF Continue, OpenSession, Restore

\* A turn told "done" has its answer in the messages of its session, once it is open.
LEMMA DoneIsMentioned ==
    ASSUME TypeOK, Book, Kept, cur # 0, reply[cur] = "done"
    PROVE  Mentions(msgs, cur)
BY DEF Kept, Keeps, AnswerKept, Book, LatestRuns, TypeOK, HandlerType

LEMMA HandleKept ==
    ASSUME TypeOK, Tokens, Protocol, Book, Kept,
           NEW act \in {"chat", "stop", "missing"} \cup Sessions,
           act = "chat" => sent < sent', sent' \in 0 .. MaxTurns, Handle(act)
    PROVE  Kept'
<1>1. /\ main = "recv"
      /\ UNCHANGED <<work, strm, memory, snap, killWork, reply>>
  BY DEF Handle
<1>2. CASE cur # 0 /\ RunAlive(cur)
  <2>1. /\ UNCHANGED <<cur, run, sess, dir, msgs, ckpt>> /\ main' = "await"
        /\ killRun' = killRun \cup {cur}
    BY <1>2 DEF Handle
  <2>2. run[cur] \in {"created", "get"}
    BY <1>1, <1>2 DEF Kept, Cancels, Protocol, StreamOfRunner, RunAlive, TypeOK, TasksType,
       HandlerType
  <2>3. Cancels'
    BY <1>1, <2>1, <2>2 DEF Kept, Cancels, WorkAlive
  <2>4. Keeps' /\ Replies' /\ Halves'
    BY <1>1, <2>1 DEF Kept, Keeps, AnswerKept, Replies, Halves, RunAlive
  <2> QED
    BY <2>3, <2>4 DEF Kept
<1>3. CASE ~(cur # 0 /\ RunAlive(cur))
  <2>1. Continue(act) /\ main' = "recv" /\ killRun' = killRun
    BY <1>1, <1>3 DEF Handle
  <2>2. \A t \in Turns : ~RunAlive(t)
    BY <1>3 DEF Protocol, OnlyCurrentRuns
  <2>3. act = "chat" =>
            sent' \in Turns /\ \A t \in Turns : run[t] # "none" => t < sent'
    BY DEF TypeOK, HandlerType, Protocol, StartedOnce
  <2>4. cur # 0 => Mentions(msgs, cur)
    <3>1. cur # 0 => run[cur] = "ended"
      BY <1>3 DEF RunAlive, Book, LatestRuns
    <3> QED
      BY <1>1, <3>1, DoneIsMentioned DEF Kept, Replies
  <2>5. \A t \in Turns : run[t] = "none" => reply'[t] = "none"
    BY <1>1 DEF Kept, Replies
  <2> QED
    BY <1>1, <2>1, <2>2, <2>3, <2>4, <2>5, ContinueKept
<1> QED
  BY <1>2, <1>3

LEMMA HandlerKept ==
    ASSUME TypeOK, HandlerOK, Tokens, Protocol, Book, Kept, MaxConns = 1, CompactNow = FALSE,
           Client \/ Handler
    PROVE  Kept'
<1>1. CASE RecvChat
  BY <1>1, HandleKept DEF RecvChat, TypeOK, HandlerType
<1>2. ASSUME NEW act \in {"stop", "missing"} \cup Sessions, sent' = sent, Handle(act)
      PROVE  Kept'
  <2>1. act # "chat"
    OBVIOUS
  <2> QED
    BY <1>2, <2>1, HandleKept DEF TypeOK, HandlerType
<1>3. CASE \/ RecvStop \/ RecvMissingSession
           \/ \E s \in Sessions : RecvSession(s)
  BY <1>2, <1>3 DEF RecvStop, RecvMissingSession, RecvSession
<1>4. ASSUME RecvCompact \/ CompactDone
      PROVE  FALSE
  BY <1>4 DEF RecvCompact, CompactDone, Kept, Cancels
<1>5. CASE \E t \in Turns, a \in {"yes", "no"} : RecvPermission(t, a)
  <2>1. UNCHANGED <<chat, tasks, engine, ghosts>>
    BY <1>5 DEF RecvPermission
  <2> QED
    BY <2>1 DEF Kept, Cancels, Keeps, AnswerKept, Replies, Halves, RunAlive, WorkAlive, chat,
       tasks, engine, ghosts
<1>6. ASSUME Disconnect \/ \E s \in Sessions : Connect(s)
      PROVE  FALSE
  <2>1. conn \in 1 .. 1
    BY DEF TypeOK, HandlerType
  <2>2. conn < MaxConns
    BY <1>6 DEF Disconnect, Connect, HandlerOK
  <2> QED
    BY <2>1, <2>2
<1>7. CASE Resume
  <2>1. /\ Continue(after) /\ main = "await" /\ main' = "recv" /\ ~RunAlive(cur)
        /\ sent' = sent /\ UNCHANGED <<work, strm, memory, snap, killRun, killWork>>
        /\ reply' = [reply EXCEPT ![cur] =
                        IF @ # "none" THEN @
                        ELSE IF after = "stop" THEN "cancelled" ELSE "superseded"]
    BY <1>7 DEF Resume
  <2>2. after \in {"chat", "stop", "missing"} \cup Sessions /\ cur \in Turns
    BY <2>1 DEF TypeOK, HandlerType, HandlerOK
  <2>3. \A t \in Turns : ~RunAlive(t)
    BY <2>1 DEF Protocol, OnlyCurrentRuns
  <2>4. after = "chat" =>
            sent' \in Turns /\ \A t \in Turns : run[t] # "none" => t < sent'
    BY <2>1 DEF TypeOK, HandlerType, HandlerOK, Protocol, StartedOnce
  <2>5. reply[cur] \in {"none", "done"} /\ run[cur] # "none"
    BY <2>2 DEF Kept, Replies, Book, LatestRuns
  <2>6. after # "stop" => Mentions(msgs, cur) \/ reply'[cur] = "superseded"
    <3>1. CASE reply[cur] = "done"
      BY <2>2, <3>1, DoneIsMentioned
    <3>2. CASE reply[cur] = "none"
      BY <2>1, <2>2, <3>2 DEF TypeOK, GhostsType
    <3> QED
      BY <2>5, <3>1, <3>2
  <2>7. /\ \A t \in Turns : reply[t] = "superseded" => reply'[t] = "superseded"
        /\ \A t \in Turns : reply'[t] = "done" => reply[t] = "done"
        /\ \A t \in Turns : run[t] = "none" => reply'[t] = "none"
    <3>1. \A t \in Turns \ {cur} : reply'[t] = reply[t]
      BY <2>1 DEF TypeOK, GhostsType
    <3>2. reply[cur] = "none" => reply'[cur] \in {"cancelled", "superseded"}
      BY <2>1, <2>2 DEF TypeOK, GhostsType
    <3>3. reply[cur] # "none" => reply'[cur] = reply[cur]
      BY <2>1, <2>2 DEF TypeOK, GhostsType
    <3> QED
      BY <2>5, <3>1, <3>2, <3>3 DEF Kept, Replies
  <2> QED
    BY <2>1, <2>2, <2>3, <2>4, <2>6, <2>7, ContinueKept
<1> QED
  BY <1>1, <1>3, <1>4, <1>5, <1>6, <1>7 DEF Client, Handler

\* What a conversation keeps, in every state.
LEMMA KeptInvariant ==
    ASSUME SlowSend = FALSE, MaxConns = 1, CompactNow = FALSE
    PROVE  Spec => []Kept
<1>1. Init => Kept
  <2> SUFFICES ASSUME Init PROVE Kept
    OBVIOUS
  <2>1. \A t : ~Mentions(NoHistory, t)
    BY DEF Mentions, NoHistory
  <2>2. \A c, r : HalfOf(NoHistory, c, r)
    BY DEF HalfOf, NoHistory
  <2>3. Cancels /\ Replies
    BY DEF Init, Cancels, Replies
  <2>4. Keeps /\ Halves
    BY <2>1, <2>2 DEF Init, Keeps, AnswerKept, Halves
  <2> QED
    BY <2>3, <2>4 DEF Kept
<1>2. /\ TypeOK /\ HandlerOK /\ Protocol /\ Tokens /\ Book /\ Kept /\ [Next]_vars
      => Kept'
  <2> SUFFICES ASSUME TypeOK, HandlerOK, Protocol, Tokens, Book, Kept, [Next]_vars
               PROVE  Kept'
    OBVIOUS
  <2>1. CASE Client \/ Handler
    BY <2>1, HandlerKept
  <2>2. ASSUME NEW t \in Turns,
               Runner(t) \/ Stream(t) \/ StreamTimeout(t) \/ Worker(t)
        PROVE  Kept'
    BY <2>2, RunnerKept, WorkerKept
  <2>3. CASE UNCHANGED vars
    <3>1. UNCHANGED <<chat, tasks, engine, ghosts>>
      BY <2>3 DEF vars
    <3> QED
      BY <3>1 DEF Kept, Cancels, Keeps, AnswerKept, Replies, Halves, RunAlive, WorkAlive,
         chat, tasks, engine, ghosts
  <2> QED
    BY <2>1, <2>2, <2>3 DEF Next
<1> QED
  BY <1>1, <1>2, ProtocolInvariant, TokensInvariant, BookInvariant, PTL DEF Spec

\* On one connection whose sends do not suspend and that sends no compact_now: a turn whose
\* client got "done" stays in its session's checkpoint, its answer or the marker that
\* stands for it, through every later turn, stop, switch and compaction.
THEOREM AnswersStay ==
    ASSUME SlowSend = FALSE, MaxConns = 1, CompactNow = FALSE
    PROVE  Spec => []AnswerKept
<1>1. Kept => AnswerKept
  BY DEF Kept, Keeps
<1> QED
  BY <1>1, KeptInvariant, PTL

\* chat.py:8, under the same conditions: a stop or a switch leaves no half turn; the only
\* questions without an answer in the engine's messages are that of the handler's turn
\* and those a newer message superseded.
THEOREM StopsLeaveNoHalfTurn ==
    ASSUME SlowSend = FALSE, MaxConns = 1, CompactNow = FALSE
    PROVE  Spec => []NoHalfTurn
<1>1. Kept => NoHalfTurn
  BY DEF Kept, Halves, HalfOf, NoHalfTurn
<1> QED
  BY <1>1, KeptInvariant, PTL
=============================================================================
