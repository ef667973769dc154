------------------------------ MODULE ChatTurn ------------------------------
(***************************************************************************)
(* One chat turn of the web interface, from the WebSocket message to the   *)
(* saved checkpoint, with the cancellation protocol around it.             *)
(*                                                                         *)
(* Four kinds of asyncio tasks run it, all in one event loop, so a step    *)
(* is what a task does between two awaits at which it may be suspended:    *)
(*   the handler   ws_chat's receive loop           (routes/chat.py)       *)
(*   the runner    _run_chat, one task per turn     (routes/chat.py)       *)
(*   the stream    the chat_stream generator        (web_bridge.py)        *)
(*   the worker    _run_bridge, one task per turn   (web_bridge.py) inside *)
(*                 which Orchestrator.run_stream runs                      *)
(* A cancellation is requested by one task and delivered at the next step  *)
(* of the cancelled one: killRun and killWork hold the undelivered ones.   *)
(***************************************************************************)
EXTENDS Naturals, Sequences, FiniteSets

CONSTANTS
    Sessions,     \* session directories
    MaxTurns,     \* bound: chat messages the clients send
    MaxChunks,    \* bound: text chunks of one turn
    MaxRounds,    \* bound: tool rounds of one turn (200 in the code)
    MaxAttempts,  \* RetryHandler's max_retries
    KeepHead,     \* head_count of a compaction (2 in the code)
    KeepTail,     \* its preserve_recent (5 or 12)
    SlowSend,     \* TRUE: websocket.send_json may suspend (write buffer full)
    CompactNow,   \* TRUE: the client may send compact_now
    MaxConns      \* bound: connections, one after the other

Turns == 1 .. MaxTurns

ASSUME ChatTurnAssumption ==
    /\ IsFiniteSet(Sessions) /\ Sessions # {}
    /\ Sessions \cap {"none", "chat", "stop", "missing"} = {}
    /\ MaxTurns \in Nat \ {0}
    /\ MaxChunks \in Nat /\ MaxRounds \in Nat
    /\ MaxAttempts \in Nat \ {0}
    /\ KeepHead \in Nat \ {0} /\ KeepTail \in Nat \ {0}
    /\ SlowSend \in BOOLEAN /\ CompactNow \in BOOLEAN
    /\ MaxConns \in Nat \ {0}

VARIABLES
    main,      \* handler: "recv", "await" (a cancelled runner), "compact", "closed"
    after,     \* what the handler does once the cancelled runner has ended
    cur,       \* chat_task: the turn whose runner the handler holds, 0 for None
    live,      \* turns whose gen equals their handler's generation
    conn,      \* connections opened so far
    connOf,    \* connection a turn was sent on
    sent,      \* chat messages received so far
    run,       \* runner of each turn
    strm,      \* chat_stream generator of each turn
    work,      \* worker of each turn
    chunks,    \* text chunks of each turn so far
    rounds,    \* its tool rounds
    attempts,  \* its attempts at the running LLM stream
    calling,   \* turns whose LLM stream has announced a tool call
    killRun,   \* runners with an undelivered cancellation
    killWork,  \* workers with an undelivered cancellation
    timers,    \* 5 s wait_for timers that have expired, per turn
    appr,      \* approval future of each turn
    queue,     \* _interleave_queue
    msgs,      \* engine._messages
    dir,       \* session of engine._checkpoint_dir and of orchestrator._memory
    ckpt,      \* checkpoint.json of each session
    memory,    \* <<session, turn>> for each round in a session's daily memory
    snap,      \* messages a running compaction started from, 0 for the handler's
    sess,      \* ghost: session a turn was sent in
    before,    \* ghost: engine messages when the turn was accepted
    told,      \* ghost: turns whose worker received a cancellation while running
    reply      \* ghost: how each turn ended for the client

chat == <<main, after, cur, live, conn, connOf, sent>>
prog == <<chunks, rounds, attempts, calling>>
tasks == <<run, strm, work, prog, killRun, killWork, timers>>
bridge == <<appr, queue>>
engine == <<msgs, dir, ckpt, memory, snap>>
ghosts == <<sess, before, told, reply>>
vars == <<chat, tasks, bridge, engine, ghosts>>

-----------------------------------------------------------------------------
(* The engine's messages: the conversation, and the turns the compaction      *)
(* markers stand for, which are system messages and never trimmed again.      *)

User(t) == [role |-> "user", turn |-> t]
Answer(t) == [role |-> "assistant", turn |-> t]

Message == [role : {"user", "assistant"}, turn : Turns]
History == [noted : SUBSET Turns, talk : Seq(Message)]

NoHistory == [noted |-> {}, talk |-> <<>>]

Say(h, m) == [noted |-> h.noted, talk |-> Append(h.talk, m)]

\* A trim keeps the first KeepHead and the last KeepTail messages and puts one
\* marker in place of the rest.
Compacted(h) ==
    LET n == Len(h.talk) IN
    IF n <= KeepHead + KeepTail
    THEN h
    ELSE [noted |-> h.noted
                    \cup {h.talk[i].turn : i \in KeepHead + 1 .. n - KeepTail},
          talk |-> SubSeq(h.talk, 1, KeepHead) \o SubSeq(h.talk, n - KeepTail + 1, n)]

-----------------------------------------------------------------------------
(* The interleave queue.                                                   *)

Event(t) == [kind |-> "event", turn |-> t]
Done(t) == [kind |-> "done", turn |-> t]

QueueItem == [kind : {"event", "done"}, turn : Turns]

WorkAlive(t) == work[t] \notin {"none", "ended"}
RunAlive(t) == run[t] \notin {"none", "ended"}

\* _reject_all_approvals: every future still pending resolves to False.
AllRejected == [t \in Turns |-> IF appr[t] = "wait" THEN "no" ELSE appr[t]]

-----------------------------------------------------------------------------
Init ==
    /\ main = "recv" /\ after = "none" /\ cur = 0 /\ live = {}
    /\ conn = 1 /\ connOf = [t \in Turns |-> 0] /\ sent = 0
    /\ run = [t \in Turns |-> "none"]
    /\ strm = [t \in Turns |-> "none"]
    /\ work = [t \in Turns |-> "none"]
    /\ chunks = [t \in Turns |-> 0] /\ rounds = [t \in Turns |-> 0]
    /\ attempts = [t \in Turns |-> 1] /\ calling = {}
    /\ killRun = {} /\ killWork = {}
    /\ timers = [t \in Turns |-> 0]
    /\ appr = [t \in Turns |-> "none"]
    /\ queue = <<>>
    /\ msgs = NoHistory /\ dir \in Sessions
    /\ ckpt = [s \in Sessions |-> NoHistory]
    /\ memory = {}
    /\ snap = [t \in 0 .. MaxTurns |-> NoHistory]
    /\ sess = [t \in Turns |-> dir]
    /\ before = [t \in Turns |-> NoHistory]
    /\ told = {}
    /\ reply = [t \in Turns |-> "none"]

-----------------------------------------------------------------------------
(* The handler.                                                            *)

\* generation += 1: no turn of this connection is current any more.
NextGeneration == live' = {t \in live : connOf[t] # conn}

\* save_checkpoint, then create_task(_run_chat(generation, content)).
\* `sent` was raised when the message was received.
StartTurn(t) ==
    /\ live' = {u \in live : connOf[u] # conn} \cup {t}
    /\ connOf' = [connOf EXCEPT ![t] = conn]
    /\ ckpt' = [ckpt EXCEPT ![dir] = msgs]
    /\ cur' = t
    /\ run' = [run EXCEPT ![t] = "created"]
    /\ sess' = [sess EXCEPT ![t] = dir]
    /\ before' = [before EXCEPT ![t] = msgs]
    /\ UNCHANGED <<dir, msgs>>

\* Mutant: the messages are not reloaded.
RestoreNothing(s) == UNCHANGED msgs

\* _try_restore, restore_checkpoint: the engine's messages become those of the
\* checkpoint of s, none when there is none.
Restore(s) == msgs' = ckpt[s]

\* Mutant: the directory changes and the messages are reset, not reloaded.
OpenSessionEmpty(s) ==
    /\ dir' = s
    /\ msgs' = NoHistory
    /\ UNCHANGED <<connOf, ckpt, run, sess, before>>

\* set_checkpoint_dir, and the memory manager of the new orchestrator.
OpenSession(s) ==
    /\ dir' = s
    /\ Restore(s)
    /\ UNCHANGED <<connOf, ckpt, run, sess, before>>

\* What follows _cancel_current, or the wait of "stop".
Continue(act) ==
    \/ /\ act = "chat"
       /\ StartTurn(sent')
    \/ /\ act = "stop"
       /\ NextGeneration /\ cur' = 0
       /\ Restore(dir)
       /\ UNCHANGED <<connOf, ckpt, run, dir, sess, before>>
    \/ /\ act \in Sessions
       /\ NextGeneration /\ cur' = 0
       /\ OpenSession(act)
    \/ /\ act = "missing"
       /\ NextGeneration /\ cur' = 0
       /\ UNCHANGED <<connOf, ckpt, run, dir, msgs, sess, before>>

\* Mutant: the running turn is cancelled but not awaited.
HandleNoWait(act) ==
    /\ main = "recv"
    /\ killRun' = IF cur # 0 /\ RunAlive(cur) THEN killRun \cup {cur} ELSE killRun
    /\ act # "stop" \/ (cur # 0 /\ RunAlive(cur))
    /\ Continue(act)
    /\ UNCHANGED <<main, after, conn, strm, work, prog, killWork, timers, bridge,
                   memory, snap, told, reply>>

\* A message whose handling begins by cancelling the running turn.
Handle(act) ==
    /\ main = "recv"
    /\ IF cur # 0 /\ RunAlive(cur)
       THEN /\ main' = "await" /\ after' = act
            /\ killRun' = killRun \cup {cur}
            /\ UNCHANGED <<cur, live, connOf, ckpt, run, dir, msgs, sess, before>>
       ELSE /\ act # "stop"
            /\ Continue(act)
            /\ UNCHANGED <<main, after, killRun>>
    /\ UNCHANGED <<conn, strm, work, prog, killWork, timers, bridge, memory, snap,
                   told, reply>>

RecvChat == sent < MaxTurns /\ sent' = sent + 1 /\ Handle("chat")
RecvStop == UNCHANGED sent /\ Handle("stop")
RecvSession(s) == UNCHANGED sent /\ Handle(s)
RecvMissingSession == UNCHANGED sent /\ Handle("missing")

\* _cancel_and_wait returns once the runner has ended, then the handler
\* goes on with the message it was handling.
Resume ==
    /\ main = "await"
    /\ ~RunAlive(cur)
    /\ main' = "recv" /\ after' = "none"
    /\ UNCHANGED sent
    /\ Continue(after)
    /\ reply' = [reply EXCEPT ![cur] =
                    IF @ # "none" THEN @
                    ELSE IF after = "stop" THEN "cancelled" ELSE "superseded"]
    /\ UNCHANGED <<conn, strm, work, prog, killRun, killWork, timers, bridge,
                   memory, snap, told>>

\* compact_now: orchestrator.compact(force=True) in the handler itself. With a
\* high context pressure it awaits an LLM summary in between.
RecvCompact ==
    /\ CompactNow
    /\ main = "recv"
    /\ \/ /\ msgs' = Compacted(msgs)
          /\ UNCHANGED <<main, snap>>
       \/ /\ Compacted(msgs) # msgs
          /\ snap' = [snap EXCEPT ![0] = msgs]
          /\ main' = "compact"
          /\ UNCHANGED msgs
    /\ UNCHANGED <<after, cur, live, conn, connOf, sent, tasks, bridge, dir, ckpt,
                   memory, ghosts>>

CompactDone ==
    /\ main = "compact"
    /\ main' = "recv"
    /\ msgs' = Compacted(snap[0])
    /\ snap' = [snap EXCEPT ![0] = NoHistory]
    /\ UNCHANGED <<after, cur, live, conn, connOf, sent, tasks, bridge, dir, ckpt,
                   memory, ghosts>>

\* permission_response, for a request that may be over by now.
RecvPermission(t, answer) ==
    /\ main = "recv"
    /\ appr[t] = "wait"
    /\ appr' = [appr EXCEPT ![t] = answer]
    /\ UNCHANGED <<chat, tasks, queue, engine, ghosts>>

\* WebSocketDisconnect: the running turn is cancelled and nobody waits for it.
Disconnect ==
    /\ main = "recv"
    /\ conn < MaxConns
    /\ main' = "closed"
    /\ IF cur # 0 /\ RunAlive(cur)
       THEN killRun' = killRun \cup {cur}
       ELSE UNCHANGED killRun
    /\ UNCHANGED <<after, cur, live, conn, connOf, sent, run, strm, work, prog,
                   killWork, timers, bridge, engine, ghosts>>

\* A new ws_chat handler on the same bridge, for an existing or a new session.
Connect(s) ==
    /\ main = "closed"
    /\ main' = "recv" /\ conn' = conn + 1
    /\ cur' = 0
    /\ OpenSession(s)
    /\ UNCHANGED <<after, live, sent, strm, work, prog, killRun, killWork, timers,
                   bridge, memory, snap, told, reply>>

-----------------------------------------------------------------------------
(* The runner and its stream.                                              *)

\* First step of a runner: chat_stream empties the queue and creates the
\* worker's task.
RunStart(t) ==
    /\ run[t] = "created" /\ t \notin killRun
    /\ run' = [run EXCEPT ![t] = "get"]
    /\ strm' = [strm EXCEPT ![t] = "open"]
    /\ work' = [work EXCEPT ![t] = "created"]
    /\ queue' = <<>>
    /\ UNCHANGED <<chat, prog, killRun, killWork, timers, appr, engine, ghosts>>

\* An event, whoever put it, is sent to the client of this runner; a done token
\* of another turn is ignored.
RunGet(t) ==
    /\ run[t] = "get" /\ t \notin killRun
    /\ queue # <<>> /\ Head(queue) # Done(t)
    /\ queue' = Tail(queue)
    /\ \/ /\ Head(queue).kind = "done" \/ t \in live
          /\ UNCHANGED <<run, strm>>
       \/ /\ SlowSend /\ Head(queue).kind = "event" /\ t \in live
          /\ run' = [run EXCEPT ![t] = "send"]
          /\ UNCHANGED strm
       \/ /\ Head(queue).kind = "event" /\ t \notin live
          /\ run' = [run EXCEPT ![t] = "ended"]
          /\ strm' = [strm EXCEPT ![t] = "orphan"]
    /\ UNCHANGED <<chat, work, prog, killRun, killWork, timers, appr, engine, ghosts>>

RunSent(t) ==
    /\ run[t] = "send" /\ t \notin killRun
    /\ run' = [run EXCEPT ![t] = "get"]
    /\ UNCHANGED <<chat, strm, work, prog, killRun, killWork, timers, bridge, engine,
                   ghosts>>

\* Mutant: any turn's done token ends the stream.
RunDoneAnyToken(t) ==
    /\ run[t] = "get" /\ t \notin killRun
    /\ queue # <<>> /\ Head(queue).kind = "done"
    /\ queue' = <<>>
    /\ appr' = AllRejected
    /\ strm' = [strm EXCEPT ![t] = "closed"]
    /\ run' = [run EXCEPT ![t] = "ended"]
    /\ ckpt' = [ckpt EXCEPT ![dir] = msgs]
    /\ reply' = [reply EXCEPT ![t] = "done"]
    /\ UNCHANGED <<chat, work, prog, killRun, killWork, timers, msgs, dir, memory, snap,
                   sess, before, told>>

\* The turn's own done token: the generator's finally, then the normal end of
\* _run_chat with its second save_checkpoint and the "done" message.
RunDone(t) ==
    /\ run[t] = "get" /\ t \notin killRun
    /\ queue # <<>> /\ Head(queue) = Done(t)
    /\ queue' = <<>>
    /\ appr' = AllRejected
    /\ strm' = [strm EXCEPT ![t] = "closed"]
    /\ run' = [run EXCEPT ![t] = "ended"]
    /\ IF t \in live
       THEN /\ ckpt' = [ckpt EXCEPT ![dir] = msgs]
            /\ reply' = [reply EXCEPT ![t] = "done"]
       ELSE UNCHANGED <<ckpt, reply>>
    /\ UNCHANGED <<chat, work, prog, killRun, killWork, timers, msgs, dir, memory, snap,
                   sess, before, told>>

\* Mutant: the generator's finally cancels the worker and does not wait for it.
RunCancelledNoWait(t) ==
    /\ t \in killRun /\ RunAlive(t)
    /\ killRun' = killRun \ {t}
    /\ run' = [run EXCEPT ![t] = "ended"]
    /\ strm' = [strm EXCEPT ![t] = IF @ = "open" THEN "closed" ELSE @]
    /\ killWork' = IF WorkAlive(t) THEN killWork \cup {t} ELSE killWork
    /\ appr' = AllRejected /\ queue' = <<>>
    /\ UNCHANGED <<chat, work, prog, timers, engine, ghosts>>

\* CancelledError reaches the runner. Before its first step nothing has run;
\* while it waits in the generator the generator's finally runs; while it waits
\* in send_json the generator is left suspended and is closed later, by a task
\* the garbage collection of the generator schedules.
RunCancelled(t) ==
    /\ t \in killRun /\ RunAlive(t)
    /\ killRun' = killRun \ {t}
    /\ \/ /\ run[t] = "created"
          /\ run' = [run EXCEPT ![t] = "ended"]
          /\ UNCHANGED <<strm, killWork>>
       \/ /\ run[t] = "get"
          /\ run' = [run EXCEPT ![t] = "closing"]
          /\ strm' = [strm EXCEPT ![t] = "closing"]
          /\ killWork' = IF WorkAlive(t) THEN killWork \cup {t} ELSE killWork
       \/ /\ run[t] = "send"
          /\ run' = [run EXCEPT ![t] = "ended"]
          /\ strm' = [strm EXCEPT ![t] = "orphan"]
          /\ UNCHANGED killWork
    /\ UNCHANGED <<chat, work, prog, timers, bridge, engine, ghosts>>

\* The scheduled aclose() of a generator its runner left behind.
StreamAclose(t) ==
    /\ strm[t] = "orphan"
    /\ strm' = [strm EXCEPT ![t] = "closing"]
    /\ killWork' = IF WorkAlive(t) THEN killWork \cup {t} ELSE killWork
    /\ UNCHANGED <<chat, run, work, prog, killRun, timers, bridge, engine, ghosts>>

\* A 5 s wait_for expires: it cancels the worker again and keeps waiting for it.
\* A runner's stream has the handler's timer and its own, an orphan its own only.
StreamTimeout(t) ==
    /\ strm[t] = "closing" /\ WorkAlive(t) /\ t \notin killWork
    /\ timers[t] < IF RunAlive(t) THEN 2 ELSE 1
    /\ timers' = [timers EXCEPT ![t] = @ + 1]
    /\ killWork' = killWork \cup {t}
    /\ UNCHANGED <<chat, run, strm, work, prog, killRun, bridge, engine, ghosts>>

\* Mutant: the finally waits for the worker's done token instead of its end.
StreamClosedOnToken(t) ==
    /\ strm[t] = "closing"
    /\ \E i \in 1 .. Len(queue) : queue[i] = Done(t)
    /\ strm' = [strm EXCEPT ![t] = "closed"]
    /\ run' = [run EXCEPT ![t] = "ended"]
    /\ appr' = AllRejected
    /\ queue' = <<>>
    /\ UNCHANGED <<chat, work, prog, killRun, killWork, timers, engine, ghosts>>

\* The worker has ended: the rest of the generator's finally.
StreamClosed(t) ==
    /\ strm[t] = "closing" /\ ~WorkAlive(t)
    /\ strm' = [strm EXCEPT ![t] = "closed"]
    /\ run' = [run EXCEPT ![t] = "ended"]
    /\ appr' = AllRejected
    /\ queue' = <<>>
    /\ UNCHANGED <<chat, work, prog, killRun, killWork, timers, engine, ghosts>>

-----------------------------------------------------------------------------
(* The worker: run_stream and, inside it, the dispatcher's LLM/tool loop.  *)

\* Mutant: the done token is forgotten.
FinishSilently(t, m, q) ==
    /\ msgs' = Say(m, Answer(t))
    /\ ckpt' = [ckpt EXCEPT ![dir] = msgs']
    /\ memory' = memory \cup {<<dir, t>>}
    /\ queue' = q
    /\ work' = [work EXCEPT ![t] = "ended"]
    /\ UNCHANGED snap

\* Steps 9 to 13 of run_stream on the messages m, then _run_bridge's finally.
Finish(t, m, q) ==
    /\ msgs' = Say(m, Answer(t))
    /\ ckpt' = [ckpt EXCEPT ![dir] = msgs']
    /\ memory' = memory \cup {<<dir, t>>}
    /\ queue' = Append(q, Done(t))
    /\ work' = [work EXCEPT ![t] = "ended"]
    /\ UNCHANGED snap

\* Step 7: no compaction, a trim that awaits nothing, or one that awaits an LLM.
AfterDispatch(t, q) ==
    \/ \E m \in {msgs, Compacted(msgs)} : Finish(t, m, q)
    \/ /\ Compacted(msgs) # msgs
       /\ snap' = [snap EXCEPT ![t] = msgs]
       /\ work' = [work EXCEPT ![t] = "compact"]
       /\ queue' = q
       /\ UNCHANGED <<msgs, ckpt, memory>>

\* The LLM stream is over for the dispatcher: run the tool call it announced,
\* with or without asking the user, or leave the loop.
StreamOver(t) ==
    /\ calling' = calling \ {t} /\ attempts' = [attempts EXCEPT ![t] = 1]
    /\ UNCHANGED <<chunks, rounds>>
    /\ \/ /\ t \in calling
          /\ \/ /\ work' = [work EXCEPT ![t] = "tool"]
                /\ UNCHANGED <<appr, queue>>
             \/ /\ work' = [work EXCEPT ![t] = "approval"]
                /\ appr' = [appr EXCEPT ![t] = "wait"]
                /\ queue' = Append(queue, Event(t))
          /\ UNCHANGED <<msgs, ckpt, memory, snap>>
       \/ /\ t \notin calling
          /\ AfterDispatch(t, Append(queue, Event(t)))
          /\ UNCHANGED appr

Working(t, state) == work[t] = state /\ t \notin killWork

WorkStart(t) ==
    /\ Working(t, "created")
    /\ msgs' = Say(msgs, User(t))
    /\ work' = [work EXCEPT ![t] = "hook"]
    /\ UNCHANGED <<chat, run, strm, prog, killRun, killWork, timers, bridge, dir, ckpt,
                   memory, snap, ghosts>>

\* The PRE_CONTEXT_ASSEMBLY hooks have returned; the context is a copy.
WorkAssembled(t) ==
    /\ Working(t, "hook")
    /\ work' = [work EXCEPT ![t] = "llm"]
    /\ UNCHANGED <<chat, run, strm, prog, killRun, killWork, timers, bridge, engine,
                   ghosts>>

WorkChunk(t) ==
    /\ Working(t, "llm")
    /\ chunks[t] < MaxChunks
    /\ chunks' = [chunks EXCEPT ![t] = @ + 1]
    /\ queue' = Append(queue, Event(t))
    /\ UNCHANGED <<chat, run, strm, work, rounds, attempts, calling, killRun, killWork,
                   timers, appr, engine, ghosts>>

WorkToolCall(t) ==
    /\ Working(t, "llm")
    /\ rounds[t] < MaxRounds /\ t \notin calling
    /\ rounds' = [rounds EXCEPT ![t] = @ + 1]
    /\ calling' = calling \cup {t}
    /\ queue' = Append(queue, Event(t))
    /\ UNCHANGED <<chat, run, strm, work, chunks, attempts, killRun, killWork, timers,
                   appr, engine, ghosts>>

WorkLlmEnd(t) ==
    /\ Working(t, "llm")
    /\ StreamOver(t)
    /\ UNCHANGED <<chat, run, strm, killRun, killWork, timers, dir, ghosts>>

\* A transient error: RetryHandler sleeps and streams again from the start.
WorkRetry(t) ==
    /\ Working(t, "llm")
    /\ attempts[t] < MaxAttempts
    /\ attempts' = [attempts EXCEPT ![t] = @ + 1]
    /\ work' = [work EXCEPT ![t] = "backoff"]
    /\ UNCHANGED <<chat, run, strm, chunks, rounds, calling, killRun, killWork, timers,
                   bridge, engine, ghosts>>

WorkRetried(t) ==
    /\ Working(t, "backoff")
    /\ work' = [work EXCEPT ![t] = "llm"]
    /\ UNCHANGED <<chat, run, strm, prog, killRun, killWork, timers, bridge, engine,
                   ghosts>>

\* A permanent error, or the last attempt: dispatch_stream yields an error event
\* and returns, and run_stream goes on as after an answer.
WorkLlmError(t) ==
    /\ Working(t, "llm")
    /\ AfterDispatch(t, Append(queue, Event(t)))
    /\ UNCHANGED <<chat, run, strm, prog, killRun, killWork, timers, appr, dir, ghosts>>

\* The user answered, or 120 s went by without an answer.
WorkApproval(t) ==
    /\ Working(t, "approval")
    /\ work' = [work EXCEPT ![t] = IF appr[t] = "yes" THEN "tool" ELSE "llm"]
    /\ appr' = [appr EXCEPT ![t] = "none"]
    /\ UNCHANGED <<chat, run, strm, prog, killRun, killWork, timers, queue, engine,
                   ghosts>>

WorkToolEnd(t) ==
    /\ Working(t, "tool")
    /\ work' = [work EXCEPT ![t] = "llm"]
    /\ queue' = Append(queue, Event(t))
    /\ UNCHANGED <<chat, run, strm, prog, killRun, killWork, timers, appr, engine, ghosts>>

WorkCompacted(t) ==
    /\ Working(t, "compact")
    /\ Finish(t, Compacted(snap[t]), queue)
    /\ UNCHANGED <<chat, run, strm, prog, killRun, killWork, timers, appr, dir, ghosts>>

\* CancelledError leaves run_stream: _run_bridge's finally puts the done token.
Aborted(t) ==
    /\ work' = [work EXCEPT ![t] = "ended"]
    /\ queue' = Append(queue, Done(t))
    /\ appr' = [appr EXCEPT ![t] = "none"]
    /\ UNCHANGED <<prog, msgs, ckpt, memory, snap>>

\* CancelledError reaches the worker. RetryHandler.execute swallows it while it
\* waits for a chunk, so the stream just looks finished; during a backoff, a
\* hook, a tool or an approval it goes through: dispatch_stream's gather raises it
\* once every tool call has ended. In a compaction it depends on wait_for: Python
\* 3.12 awaits the LLM call in the same task, where RetryHandler swallows it,
\* older versions raise it.
WorkCancelled(t) ==
    /\ t \in killWork /\ WorkAlive(t)
    /\ killWork' = killWork \ {t}
    /\ told' = told \cup {t}
    /\ \/ /\ work[t] = "created"
          /\ work' = [work EXCEPT ![t] = "ended"]
          /\ UNCHANGED <<prog, appr, queue, msgs, ckpt, memory, snap>>
       \/ /\ work[t] = "llm"
          /\ StreamOver(t)
       \/ /\ work[t] \in {"hook", "backoff", "tool", "approval", "compact"}
          /\ Aborted(t)
       \/ /\ work[t] = "compact"
          /\ Finish(t, Compacted(snap[t]), queue)
          /\ UNCHANGED <<appr, prog>>
    /\ UNCHANGED <<chat, run, strm, killRun, timers, dir, sess, before, reply>>

-----------------------------------------------------------------------------
Client ==
    \/ RecvChat \/ RecvStop \/ RecvMissingSession \/ RecvCompact \/ Disconnect
    \/ \E s \in Sessions : RecvSession(s) \/ Connect(s)
    \/ \E t \in Turns, a \in {"yes", "no"} : RecvPermission(t, a)

Handler == Resume \/ CompactDone

Runner(t) ==
    \/ RunStart(t) \/ RunGet(t) \/ RunSent(t) \/ RunDone(t) \/ RunCancelled(t)

Stream(t) == StreamAclose(t) \/ StreamClosed(t)

Worker(t) ==
    \/ WorkStart(t) \/ WorkAssembled(t) \/ WorkChunk(t) \/ WorkToolCall(t)
    \/ WorkLlmEnd(t) \/ WorkRetry(t) \/ WorkRetried(t) \/ WorkLlmError(t)
    \/ WorkApproval(t) \/ WorkToolEnd(t) \/ WorkCompacted(t) \/ WorkCancelled(t)

Next ==
    \/ Client
    \/ Handler
    \/ \E t \in Turns : Runner(t) \/ Stream(t) \/ StreamTimeout(t) \/ Worker(t)

Spec == Init /\ [][Next]_vars

\* The event loop runs every task that can run, an LLM stream ends or fails, a
\* tool ends and an approval is answered or times out. Clients owe nothing.
Fairness ==
    /\ WF_vars(Handler)
    /\ \A t \in Turns : WF_vars(Runner(t)) /\ WF_vars(Stream(t)) /\ WF_vars(Worker(t))

FairSpec == Spec /\ Fairness

-----------------------------------------------------------------------------
(* Properties.                                                             *)

HandlerType ==
    /\ main \in {"recv", "await", "compact", "closed"}
    /\ after \in {"none", "chat", "stop", "missing"} \cup Sessions
    /\ cur \in 0 .. MaxTurns /\ sent \in 0 .. MaxTurns
    /\ live \subseteq Turns /\ conn \in 1 .. MaxConns
    /\ connOf \in [Turns -> 0 .. MaxConns]

TasksType ==
    /\ run \in [Turns -> {"none", "created", "get", "send", "closing", "ended"}]
    /\ strm \in [Turns -> {"none", "open", "orphan", "closing", "closed"}]
    /\ work \in [Turns -> {"none", "created", "hook", "llm", "backoff", "tool",
                          "approval", "compact", "ended"}]
    /\ killRun \subseteq Turns /\ killWork \subseteq Turns
    /\ timers \in [Turns -> 0 .. 2]

ProgressType ==
    /\ chunks \in [Turns -> 0 .. MaxChunks] /\ rounds \in [Turns -> 0 .. MaxRounds]
    /\ attempts \in [Turns -> 1 .. MaxAttempts] /\ calling \subseteq Turns

BridgeType ==
    /\ appr \in [Turns -> {"none", "wait", "yes", "no"}]
    /\ queue \in Seq(QueueItem)

EngineType ==
    /\ msgs \in History /\ dir \in Sessions
    /\ ckpt \in [Sessions -> History]
    /\ memory \subseteq Sessions \X Turns
    /\ snap \in [0 .. MaxTurns -> History]

GhostsType ==
    /\ sess \in [Turns -> Sessions]
    /\ before \in [Turns -> History]
    /\ told \subseteq Turns
    /\ reply \in [Turns -> {"none", "done", "cancelled", "superseded"}]

\* Every variable has its type.
TypeOK ==
    /\ HandlerType /\ TasksType /\ ProgressType /\ BridgeType
    /\ EngineType /\ GhostsType

\* chat.py:6 and 170: once the handler is back at its receive loop and its turn is
\* over, nothing of any turn is left: no worker runs that could still append to
\* the engine or save a checkpoint, no approval is pending, and the shared queue
\* is empty for the next turn.
NothingLeftBehind ==
    main = "recv" /\ ~(cur # 0 /\ RunAlive(cur)) =>
        /\ \A t \in Turns : ~RunAlive(t) /\ ~WorkAlive(t) /\ appr[t] # "wait"
        /\ queue = <<>>

\* Two turns never work on the engine's messages at the same time.
OneWorker == \A t, u \in Turns : WorkAlive(t) /\ WorkAlive(u) => t = u

\* web_bridge.py:72-75: what a runner reads from the shared queue is its own turn's,
\* so that no client sees an event, or a done, of a cancelled turn.
OwnEventsOnly ==
    \A t \in Turns : run[t] \in {"get", "send"} =>
        \A i \in 1 .. Len(queue) : queue[i].turn = t

\* A conversation never holds two turns' messages interleaved, an answer before
\* its question, or a message twice.
InOrder(s) ==
    \A i, j \in 1 .. Len(s) : i < j =>
        \/ s[i].turn < s[j].turn
        \/ s[i].turn = s[j].turn /\ s[i].role = "user" /\ s[j].role = "assistant"

\* This holds of the engine's messages and of every session's checkpoint.
Chronological ==
    /\ InOrder(msgs.talk)
    /\ \A s \in Sessions : InOrder(ckpt[s].talk)

\* The turns a history speaks of.
TurnsIn(h) == h.noted \cup {h.talk[i].turn : i \in 1 .. Len(h.talk)}

\* A session's checkpoint and daily memory only hold turns sent in that session
\* (memory.md:191), whatever was cancelled or switched in between.
SessionsSeparate ==
    /\ \A s \in Sessions : \A t \in TurnsIn(ckpt[s]) : sess[t] = s
    /\ \A e \in memory : sess[e[2]] = e[1]

Mentions(h, t) ==
    t \in h.noted \/ \E i \in 1 .. Len(h.talk) : h.talk[i] = Answer(t)

\* Once the client got "done", the turn's answer is in the session's checkpoint,
\* or a compaction marker there stands for it: later stops, new chats and session
\* switches never lose it.
AnswerKept ==
    \A t \in Turns : reply[t] = "done" => Mentions(ckpt[sess[t]], t)

\* A stop leaves no half turn: the only questions without an answer in the engine's
\* messages are that of the running turn and those a newer message superseded.
NoHalfTurn ==
    \A i \in 1 .. Len(msgs.talk) :
        LET t == msgs.talk[i].turn IN
        msgs.talk[i].role = "user" =>
            Mentions(msgs, t) \/ reply[t] = "superseded" \/ t = cur

\* web_bridge.py:70-75: a client is told "done" only when the worker of its own turn
\* has ended, whatever done tokens cancelled turns left in the shared queue.
DoneIsOwn == \A t \in Turns : reply[t] = "done" => work[t] = "ended"

\* A generator its runner abandoned is closed in the end, its worker with it.
GeneratorsClosed == \A t \in Turns : strm[t] = "orphan" ~> strm[t] = "closed"

\* Every accepted chat message ends for the client: done, cancelled by its stop,
\* or superseded by its next message.
EveryTurnEnds == \A t \in Turns : run[t] = "created" ~> reply[t] # "none"

-----------------------------------------------------------------------------
(* What comments of the code say and the code does not do.                 *)

\* chat.py:8 and 172: a stop rolls back to the state before the turn.
StopRollsBack ==
    [][\A t \in told : reply[t] = "none" /\ reply'[t] = "cancelled" =>
            msgs' = before[t]]_vars
=============================================================================
