# A TLA+ model of chachaAgent

chachaAgent is an LLM agent written in Python (asyncio): a web or terminal client sends
messages, an orchestrator assembles a prompt, streams an answer from a model, runs the tools
the model asks for, compacts the conversation when it grows, and keeps checkpoints and
memory files.  This directory holds its specification: TLA+ modules translated from the
source, TLC configurations that check them on small instances, and TLAPS proofs of the
results that matter most for instances of any size.

    tlc -config ChatTurn.cfg MCChatTurn        model-check a run
    tlapm GatewayProofs.tla                    check a proof module

`PROJECT.json` lists the parts of the system, the runs, the source lines every definition
stands for, the hazards the project works from and the theorems.

## 1. The system

| part | state | operations | what is hard |
|------|-------|------------|--------------|
| web chat endpoint (`interface/web/routes/chat.py`) | the running task, the generation number | chat, stop, switch, new, compact, approval, disconnect | messages arrive while a turn runs; tasks are cancelled and awaited |
| web bridge (`interface/web/web_bridge.py`) | one event queue and one table of pending approvals, shared by everybody | chat_stream, approval handler, reject all | left-over events and tokens of a cancelled turn |
| orchestrator and engine (`core/orchestrator.py`, `chat_engine.py`) | the message list, round counters, checkpoint directory | run_stream, compact, save, restore | awaits between reading and writing the message list |
| LLM stream (`core/llm_invoker.py`, `llm_clients/`) | attempts | stream, retry, back off | failure in the middle of a stream, swallowed cancellations |
| gateway (`protocol/gateway.py`) | a bounded queue and counters per session, a sequence number | start, stop, register, unregister, publish, subscribe | blocked publishers, timeouts, sentinels, re-registration |
| dispatcher (`core/dispatcher.py`) | the prompt, the calls under construction, a circuit breaker | dispatch_stream, dispatch | concurrent tool calls whose results are processed in order |
| tool executor, policy (`core/tool_executor.py`, `policy_engine.py`) | semaphore, approval cache, bypass sets | execute, evaluate_tool, enable and disable bypass | approvals, retries, permits, cancellation |
| subagents (`core/subagent/`, `task_tool.py`) | a dispatcher and an executor of their own | spawn | they live inside a tool call of the parent |
| atomic writer (`capabilities/atomic_writer.py`) | the file, a temporary file, a lock file, backups | write, write_chunks, append | several processes, crashes, lock files that are unlinked |
| memory and dreams (`core/context/memory_manager.py`, `dream.py`, `global_dream.py`) | day files, an index, counters | remember, run, prune | a consolidation that runs while sessions go on |
| compressor (`core/context/context_compressor.py`) | none (a function of the message list) | auto_compact and its stages | which messages are protected, what a summary covers |
| MCP client (`capabilities/mcp_client.py`) | server processes, tool tables | connect, background connect, call, reconnect | tools added to and removed from executors in use |
| checkpoints, sessions (`core/checkpoint_manager.py`, `session_service.py`) | one file per session | save, restore, switch, new | non-atomic writes |
| terminal client (`interface/cli/app.py`, `agent_bridge.py`) | the current session, the active turn, an interruption flag | prompt, keys, commands, Ctrl+C, restart | a flag that outlives its turn, a compaction that waits behind the prompt, an engine that keeps the directory of the session before |
| context assembly (`core/context_manager.py`) | the memories it was given | assemble | which blocks and messages the model sees, and what the answer is taken from |
| hooks (`core/hook_orchestrator.py`, `models/hook.py`) | the ordered list of hooks | register, run | order, early ends, tolerance, changed arguments |
| output governor (`core/output_governor.py`) | none (a function of a text) | repair of arguments cut off | rules that close a text at any token |

Everything in one process runs on one event loop, so two pieces of code interleave only at
an `await`; this is the grain of the actions.  The client and the model are any sequence of
messages and chunks.

## 2. Modules

| module | models | proofs |
|--------|--------|--------|
| `ChatTurn` (run by `MCChatTurn`) | a web connection: handler, runner, worker, queue, approvals, sessions, checkpoints, compaction | `ChatTurnProofs` |
| `Gateway` (run by `MCGateway`) | the event bus | `GatewayProofs` |
| `Dispatcher` (run by `MCDispatcher`) | the rounds of model and tool calls in a turn, the prompt, the circuit breaker | `DispatcherProofs` |
| `ToolExecutor` (run by `MCToolExecutor`) | the calls of a batch: policy, approval, slot, timeout, retry, stop, subagent | `ToolExecutorProofs` |
| `AtomicWriter` (run by `MCAtomicWriter`) | writes of one file by several processes, at the grain of system calls | `AtomicWriterProofs` |
| `AtomicFile` | what the writer promises: the abstract specification `AtomicWriter` implements | |
| `DreamMemory` (run by `MCDreamMemory`) | notes, topics, index, sessions and the dreams that consolidate them | `DreamMemoryProofs` |
| `McpClient` (run by `MCMcpClient`) | connections to tool servers, the cache of their tools, the tables of the executors | `McpClientProofs` |
| `Terminal` (run by `MCTerminal`) | the terminal client: prompt, turn, Ctrl+C, keys, sessions, checkpoints, restarts | `TerminalProofs` |
| `Conversation` (run by `MCConversation`) | the messages over many turns: prompt, rounds, compactions, answer, aborts | `DispatcherProofs` |
| `Hooks`, extended by `Conversation` | registration, matching and the chain of hooks, as operators | `DispatcherProofs` |
| `LlmCall` (run by `MCLlmCall`) | one call of the model: chunks, tool calls, retries, timeouts | `DispatcherProofs` |
| `JsonRepair`, extended by `LlmCall` | the repair of arguments that were cut off, as operators over tokens | `DispatcherProofs` |

The first four modules describe one program at four places that meet in small interfaces:
`ChatTurn` sees a tool as approval, run and end, and the dispatcher as the alternation of
stream and tools; `Dispatcher` sees a tool call as an outcome that arrives in any order;
`ToolExecutor` is what happens between the two, for the calls of one batch.  Each module
allows its neighbours more than they do, so a property of one does not rest on a detail of
another.  `AtomicWriter` is about several such programs that share a directory, and what
`DreamMemory` writes between two awaits is a step because of it.  `Terminal` is to the terminal
what `ChatTurn` is to the web; `Conversation` is what both leave out, the contents of the messages,
and `LlmCall` what `ChatTurn` and `Dispatcher` take for a stream of chunks.

### ChatTurn

The *handler* is the receive loop of `chat.py`; the *runner* of turn `t` is the task of
`_run_chat`, with the generator `chat_stream` inside it; the *worker* is the task of
`_run_bridge`, which drives `run_stream`, the dispatcher, the retry loop and the tools.
`chan` is `_interleave_queue`, `approvals` the pending futures, `msgs` the engine's message
list and `disk` the checkpoint of each session.  Messages are records that name their turn,
so a property can say whose they are.

Scheduling facts the actions rely on, all of asyncio:
- a cancellation is delivered at the next step of the cancelled task; `wait_for` does not
  return before the task it cancelled has really ended;
- a task cancelled in `websocket.send_json` ends at once; its generator is an orphan whose
  `finally` runs later in a task of its own (`SlowSend = TRUE` lets a send suspend);
- in an LLM stream the retry loop swallows the cancellation and the turn goes on
  (`RetryHandler.execute`), started tool calls included; in a backoff, a hook, a tool or an
  approval it propagates, once every call of the batch has ended (`gather`); in a compaction
  it is swallowed or not depending on the Python version (the project allows both);
- an LLM failure produces an error event, and the turn is saved with an empty answer.

Constants: sessions, turns, chunks per answer, rounds, attempts, connections (`MaxConns`),
the head and the tail a compaction keeps, and the two switches `SlowSend`, `CompactNow`.
`MaxConns = 1`, `SlowSend = FALSE`, `CompactNow = FALSE` is a client on a fast connection that
never asks for a compaction by hand; this is the instance of `chat_turn`.

### Gateway

`publish` is split where it can suspend: the number is taken and the put is tried in one step
(`Publish`), a full queue makes the publisher wait in the queue's list of putters, a consumer
wakes the first of them (`ready` keeps the order in which tasks were woken), a woken putter
finds room or waits again behind everybody, and a timer may fire in between.  `subscribe` is
the consumer's loop; `stop` drops a sentinel into every queue that has room.  A session that
was unregistered and registered again has a new context: `sessions` maps ids to contexts
and old contexts keep their waiters.  The publishers that `unregister` wakes put into the queue of the
old context and return True; `late` remembers such messages.

### Dispatcher

`StreamRetried`, `Announce`, `StreamFails` and `StreamEnds` are the chunk loop of a round: a
retried stream starts its text anew but finds the calls of the broken attempt still in
`building` (`tool_calls_building`).  `CallEnds` are the tasks of the batch in any order,
`ProcessResult` the loop over the results in the order of the calls, with the breaker
(`Count`: `failures`, `lastFailed`, kept by the dispatcher from turn to turn).  `api` chooses
between `dispatch_stream` and `dispatch`, which runs the calls one by one (`RunCall`) and,
when the breaker trips, leaves only the inner of its two loops.  A message of the prompt is
the list of the calls it makes, or the call it answers.

### ToolExecutor

A call is *new*, *asking*, *queued*, *granted*, *running* or in *backoff*, and then ended.
`Evaluate` is `execute` up to the first place it can suspend, `Decision` the order of the
tests in `evaluate_tool`.  `Acquire`, `Release` and `Leaves` are `asyncio.Semaphore` as of
Python 3.11: first come, first served; a slot is handed to the first that waits, and a call
cancelled after that hands it on.  `TimesOut` and `Killed` differ in where the
`CancelledError` goes: through a tool or a semaphore it propagates, an approval takes it for a
refusal, and the LLM stream of a subagent swallows it, after which `wait_for` can no longer
expire.  `approval_control` changes the policy (`ToggleSession`, `TogglePersisted`); a write of
the settings that fails leaves the file as it was or empty.  `Rebuild` is the new policy and
executor of `AgentBridge.rebuild` on a switch of sessions, and on a new session of the web client.
`NewSession` is `/session new` and Ctrl+N of the terminal, which change the session and keep policy,
bypasses, cache and slots; `served` are the sessions a policy has had.  Tools are `Free`, `Asked`, the
subagent's `task`, `approval_control` or missing.

`how`, `yes` and `opened` are history variables: why the policy let a call through, what the
user agreed to, which bypasses were opened; no guard reads them.

### AtomicWriter

The processes are the terminal and web clients of one project.  A file name stands for an
inode or for nothing (`file`, `tmp`, `lockFile`); a process keeps what it has opened (`fd`,
`out`) when the name is deleted or given to another inode, and `flock` belongs to the inode
(`holder`).  This is what the code's locking depends on: `_release_lock` and a timeout of
`_acquire_lock` delete the name of the lock file, so a waiting process may get the lock of a
file without a name while the next one makes a new file and locks that.  A step is one system
call.  `Crash` ends a process at any step; the kernel releases its lock, its files stay.
`Write` is `write` and `write_chunks`; `AppendEntry` reads the old content first, without the
lock, as `append` does.  Contents are sequences of chunks that name their write; `Put` is a
chunk written at an offset into a file that another process may have emptied.  Backups are
known by their time in ticks; `Retention` and `MaxBackups` prune them.  A backup is made as `copy2` makes
it: opened and emptied (`OpenBackup`, perhaps that of another write of the same second), filled chunk by
chunk (`CopyChunk`), closed with its times set (`CloseBackup`), and left as it is when the copy fails
(`BackupRaises`) or the process ends; `torn` remembers the backups that were broken off or overlapped.

`AtomicFile` has one value, and per process a call that is idle, writing or written:
`Promise == INSTANCE AtomicFile` maps the content that readers of the name see to the value, and
the place of a process and `placed` (its rename is done) to its state.

### DreamMemory

Text is abstracted to the *entries* (notes and topics) whose content it still has: `notes` are those in
day files, `topics` those in topic files, `index` those the `MEMORY.md` of a session has a line for and
`others` the number of its other lines (headings, blank ones), `permanent` those `CHACHA_MEMORY.md` has
taken up.  A new topic adds one line under its heading, or a blank line, a heading and its line at the
end (`Additions`; two lines in an empty file), and an index that would be longer than `MaxLines` keeps
its first lines (`Cuts`, over every place the entries may have).  `SaveRoundMemory` and `EndSession` are
the two halves of the end of a turn, which a stop can part.  `EndSession` counts and starts a dream when
the count or the clock says so; that another dream still runs is no obstacle. A dream is *ready*,
*asking* (it has read a session and awaits the model) and *over*. `Gather` keeps what it has read;
`Finish` writes the answer, whatever it is (`Answers`: nothing, or a text with some of what the dream
knows), prunes the day files of its session and resets the counters; `WriteFails` ends it before it
prunes.  `RunDream` is the command of the terminal, with a pipeline of its own.  `memory` is the session
whose files the orchestrator writes, `current` the session of the session service: `NewSession` moves
both in the web and only the second in the terminal (`Terminal`).  `Restart` ends the process and its
dreams.  Days pass in `Tick`, and a dream that is asking lasts less than a day.

Two history variables serve the properties: `written` has every note that was saved and whose
session exists, `spoiled` says whether there was a cause for a loss (a stale, forgetful or
missing answer, days beyond the limit, a full index).  No guard reads them.

### McpClient

`offered` are the tools whose schemas the model sees, `table` what an executor looks a call up in;
the client changes only the second, and only in the executor of the start (*first*): an executor
built for a change of session (*latest*, `Rebuild`) has the adapters of the start and is known to
nobody.  A start either connects and lists (`StartConnected`) or takes the tools of the cache
(`StartCached`), after which `background_connect` opens sessions with a client of its own (`bg`),
server by server, and rewrites the table (`RefreshEnds`).  What a server lists is any subset of its
tools each time.  The cache knows whether its hash is that of this configuration: the client of
the refresh has computed none, so what it writes is nobody's and the next start connects again.
`Begin`, `Wakes`, `Returns`, `ConnectionLost` are `call_tool`; approvals and slots of a call are in
`ToolExecutor`.  `ReconnectBegins` to `ReconnectEnds` are `/mcp reconnect`, taken between turns;
its success ends the program, because it calls a method that the executor does not have.

### Terminal

`place` is where the prompt loop is: at the *prompt*, in a *command* that waits, or in the active
task of a turn (*created*, *hooks*, *stream*, *tools*, *approval*, *compacting*), or *down*.
Facts the actions rest on:
- no key but Ctrl+C reaches the program outside the prompt, and no turn runs while the prompt
  waits; only the compaction of Ctrl+X may be waiting then (`compaction`), and the end of the
  prompt cancels it, which the retry loop may take for the end of the summary (`PromptClosed`);
- the handler of SIGINT sets `_interrupted` and cancels the active task (`Press`); in the stream
  the retry loop swallows the cancellation and the next event finds the flag; in an approval,
  which blocks the loop in `input()`, the handler's exception is a refusal and the flag stays;
- a turn is preceded by a checkpoint (`Submit`) and an abort restores whatever the file has
  (`Abort`): a checkpoint that failed leaves an older one, a torn one an empty conversation;
- `/session new` and Ctrl+N empty the engine and change the current session, but not the directory
  of the engine (`NewSession`): from there on the new session writes over the file of the old
  one, until a switch.  `origin` remembers on whose directory a session was started.

`/exit`, Ctrl+D and Ctrl+\\ end the program and save nothing (`Ends`), and a process may end while it
writes (`EndsInSave`).  Messages are known by their turn and part.  A compaction may leave nothing but
the first messages and the latest (`Condensed`: two and five in the code, twelve when the messages have
grown too large); what stands for the others is a marker with their number, or a summary of that marker.
`typed`, `answered`, `excused`, `before`, `presses`, `aborts` are histories.

### Conversation and Hooks

A message is what it is (question, answer, note, ...), its turn, and, for an answer, the set of pieces
the model said.  `Ask` to `Answer` are `run_stream` in its order: the hooks before the context and the
assembly (`Assembles`), the rounds (`ToolRound`, `LastRound`), the compaction by size (`CompactBySize`),
the one by rounds (`CompactByRounds`, `NotDue`) and the answer, which `FinalAnswer` takes from the
prompt, not from the messages.  `Compacted` is `auto_compact` with its four stages: the messages are
split into protected and other ones, the middle becomes a marker, the marker a summary, several
summaries one block; as messages all of these are system messages from then on, move to the front, and
stay for ever (`AsMessages`).  The summary of the third stage summarizes the marker, because it works on
the list that was trimmed already; the comment at `context_compressor.py:95` says it summarizes the
middle.  A round that an error breaks off has shown its text to the user already (`BrokenOff` in `said`)
and puts no message into the prompt, so no answer has that text (`LastRound`); it goes into the note of
the turn only.  `Abort` restores the messages the checkpoint has, the count of rounds and the round of
the last compaction stay.

`Hooks` are operators: `Register` is the sorted insertion, `Run` folds `Step` over the hooks of a point;
`Reached` defines who is reached by priority and registration alone, and is what the chain is compared
with.  The run registers the one hook the program has and five as its users' rules could be: tolerant
and not, with composite and inverted matchers, before and after a call, two of them callables that were
not told whether to go on (`goesOn = {"unset"}`) and may fail.  `Called` is where a tool call meets
them: after its approval, so that what a hook changes is not approved again.  The code lets two hooks
have one name (`register` does not look, `unregister` removes both); here a hook is known by its name,
which `HooksAreNamed` assumes to be its own. `ArgumentsAreMapped` says that the arguments of a call are
a dictionary.

### LlmCall and JsonRepair

The client's stream sends words, starts of calls and pieces of arguments, in any interleaving of the
calls of an answer; the retry loop passes them on, and after an error, begins the whole stream anew
behind what was sent (`Breaks`, `Wakes`).  `Gather` is the gathering of calls by index: a start replaces
what a broken attempt left, a piece is appended.  `limited` is a call under `wait_for`, as the
summarizer (without tools) and the spawner of subagents (with tools) make it: in the stream the expiry
ends the stream quietly and the text so far is taken for the answer, in the pause it is raised
(`TimesOut`).  `ToolCalls` is `invoke` with the repair of arguments that do not parse: `Repair` closes
strings, drops what dangles and closes brackets, as the strategies of `_repair_json` do, and gives up
where they do.  A token stands for a character the rules tell apart; `Loads` is the grammar of JSON over
tokens and `Truncations` is the reference definition, all texts that end some prefix of the model's.
What a model gives as arguments is a JSON object (`ArgumentsAreJson`), and for arguments of which
nothing came the code takes an empty one.

A change of the model (`/model`) replaces the client of the invoker, but not in the retries of a call that
has begun.

## 3. Runs

| run | question | outcome |
|-----|----------|---------|
| `chat_turn` | two turns, stops, switches, approvals in every order on one connection | nothing left behind, one worker, own events only, chronological order, sessions apart, answers kept, no half turn, every turn ends: all hold |
| `chat_turn_hostile` | the same with suspending sends, compactions by hand and a second connection | a client is told "done" only by its own worker, abandoned generators are closed |
| `gateway` | two publishers, a subscriber, a queue of one, everything racing | the result of publish says where its message went, and only late messages are left in unregistered queues; counters match, no wake-up is lost, subscribers end |
| `dispatcher` | two turns of three rounds, retried streams, stops anywhere | every prompt pairs calls and answers, the breaker counts what it says, every turn ends |
| `tools` | two calls in one batch or in two, with a change of session between, with a new policy or the old one | slots are conserved, no gated tool works without consent given in this session or a bypass opened under this policy, nothing but a subagent starts after a stop, every batch ends |
| `writer` | two processes that write once each, with backups, locks, timeouts, failures and crashes | the writer implements `AtomicFile`; a backup copied to its end is whole and pruned only for age or number; every write returns |
| `writer_race` | the same with three processes: does a reader only see whole contents? | no: a deleted lock file lets two of them fill one temporary file, and one renames it half filled |
| `memory` | two sessions and two dreams that overlap turns, topics, switches, deletions and restarts | no note and no index line is lost but for the causes named, a day file is deleted only by a dream that has read it |
| `mcp` | two starts, the second from the cache, with refresh, broken connections, reconnections, changes of session | the filter fails only where the cache is used, no call loses its session, tools are lost for a cause of their own server |
| `terminal` | Ctrl+C anywhere, keys during a compaction, new sessions, torn checkpoints, a restart | conversations are apart but for sessions begun in another's directory, an answered turn is lost only for a named cause (a compaction that drops it, a new session over it, a failed checkpoint, a deletion), a press aborts one turn at most, an abort restores the messages of before |
| `llm` | up to three attempts of which each breaks, ends early or expires at any token | an answer received whole is whole, repaired arguments truncate what one attempt said, every call returns |
| `conversation` | four turns with hooks, tool calls, every kind of compaction and aborts anywhere | an answer says all that was said in its turn, but for what a round that broke off had streamed, and repeats only what was answered since an equal input, the messages stay bounded, hooks decide by priority and registration |

Each of these modules also has a type invariant, `TypeOK` (`CallTypeOK`, `ConvTypeOK`).  It is a theorem
(`TypeCorrect`, and `CallTypeCorrect` for `LlmCall`) of all but `Conversation`, whose proofs use other
types, `ConvTypes`.

The violation is a documented disagreement between the code and its own docstring, quoted in PROJECT.json
under `findings`.  More are stated in the modules, most of them at the end, and can be seen by
putting them into the configuration (as INVARIANT or PROPERTY):
- `StopRollsBack` (`ChatTurn`): `chat.py:172` says that a stop rolls back to the state before the turn.  The
  retry loop swallows the cancellation (`retry_handler.py:50`), the turn looks finished to `run_stream`, and
  is saved before the rollback restores it.
- `SeqOrder` (`Gateway`): `gateway.py:7` and `test_gateway.py:108` promise messages in the order of their numbers.
  `publish` takes the number before it waits for room, and a publisher that waits may be overtaken.
- `RegisteredQueuesOnly` (`Gateway`): `gateway.py:175` promises False when the queue has been unregistered.
  `unregister` wakes the publishers that wait for room; each puts its message into the queue that nobody can
  subscribe to any more, and its `publish` returns True.  A publish to an id that is not registered at all
  returns True too, as `docs/gateway.md:133` says.
- `SessionConsent` (`ToolExecutor`): `approval_control.py:50` says that a bypass that is not persisted is for the
  current session only.  `/session new` and Ctrl+N (`app.py:412`, `:551`) keep the policy and with it
  the bypass; `Consent` therefore names the sessions of one policy.
- `OldestTrimmed` (`DreamMemory`): `memory_manager.py:276` and `:287` say that the oldest entries of a full index are
  trimmed.  The first lines are kept (`:317`), so the newest go, and a new topic with a new heading first.
- `CallablesGoOn` (`Conversation`): `docs/hook_orchestrator.md:157` and `hook_orchestrator.py:336` say that a callable that
  was not told otherwise goes on after a failure or a timeout.  `_get_error_tolerance` returns False for it
  (`:348`), so the call is refused; `HooksDecide` describes the code.
- `HighestFirstAfter` (`Conversation`): the example at `docs/hook_orchestrator.md:141` runs the hooks after a call
  from the highest priority down; the code reverses the order, as line 21 of the same document says.
- `FilterHolds` (`McpClient`): an excluded tool is called after a start from the cache, which holds
  what the servers listed (`mcp_client.py:258`, `:270`).

Others that the models contain:
- an abandoned generator empties the queue of the next turn (`ChatTurn`, with `SlowSend`), and a second connection
  takes the engine from under a running turn (`MaxConns = 2`);
- `dispatch()` leaves its inner loop but not the outer one when the breaker trips, and asks the model again with
  calls that have no answer (`Dispatcher`, `api = "dispatch"`);
- a new session in the terminal leaves the orchestrator with the memory and the checkpoints of the old one
  (`DreamMemory`, `Terminal`), whose conversation it writes over;
- a Ctrl+C that comes during a command, in an approval or too late for its turn aborts the next turn (`Terminal`);
- the text of a round that an error breaks off is shown to the user and saved in the day file (`response_parts`),
  but is in no message, so the model and the checkpoint know nothing of it (`Conversation`);
- a compaction drops what is neither among the first nor among the latest messages and leaves their number
  (`Terminal`, `Conversation`);
- a backup whose copy failed stays, truncated, and counts as the newest when backups are pruned (`AtomicWriter`);
- repeating an input repeats all answers since the first time, with what those repeated themselves (`Conversation`:
  this is why `AnswersAreOwn` speaks of equal inputs, and of answers that repeat likewise);
- a compaction that an abort has undone counts all the same, so the next one is an interval away (`undone` in
  `HistoryIsBounded`);
- a hook needs both tolerances to survive one failure, and a failure that is not tolerated drops the
  context gathered before it, which a refusal does not (`Hooks`);
- a call that only a broken attempt has made stays in the answer of the next one (`LlmCall`: `AnswerIsWhole` says
  nothing of indices the last attempt does not use);
- a reconnection never restores tools, and removed tools stay offered to the model (`McpClient`).

**Bounds.** Two turns are enough for every protocol between a turn and its successor (the residue of a
turn can only meet the next one, because the handler waits); two sessions for every mix-up; two chunks,
one tool and one approval for every place a worker can be cancelled in; three attempts are the code's
own limit.  In the gateway a queue of capacity one with two publishers has every combination of a full
queue, a waiting publisher and an overtaking one; one restart and one re-registration give every context
a predecessor.  In the dispatcher a limit of three failures in three rounds of two calls lets the count
cross batches, rounds and turns (the code's limit is five, its rounds 200); the theorems are about any
limit.  In the executor one slot for two calls makes every grant, wait and cancellation meet; one retry
has a first, a repeated and a last attempt; two calls in two batches are enough for a consent given
before a change of session and used after it.  That more calls, slots and retries add nothing is what
the theorems say.  For the writer two processes that write once each have every wait, timeout and crash,
and a write of two chunks can be seen half done; three writes are the fewest that can disagree about the
lock (`TwoWritesAreAtomic` proves that two cannot), which is what `writer_race` shows.  Time runs from 2
to 4 with backups of 0 and 1, one that is kept and one second of retention, so that a slow writer's own
backup can be pruned for its age and for a newer one.  In the memory two dreams are what it takes to
overwrite each other; two entries, a limit of one day to read, four lines of index and days 0 to 2 with
a retention of 2 let a dream find more days than it reads, an index that is full, and files that are old
and that are not.  Beyond the bound on dreams a turn that would start another can only be stopped.  For
the MCP client two starts are what it takes to use a cache, and two servers, one of them with an
excluded tool, what it takes to lose the tools of one of them.  In the terminal three sessions are what
it takes to begin one in another's directory and to have a third to switch to; two turns, one press, one
checkpoint that fails and two starts have a press that outlives its turn and a failure between a turn
and what undoes it.  One message of the head and one or two of the tail make a compaction of two turns
drop an answer.  With three turns the run is as clean, and takes minutes instead of seconds (11.4
million states); the theorems are about any numbers.  In the conversation four turns, with a compaction
by rounds every second (30 in the code), one message of the head and two of the tail protected (2 and
12; one instead of 5 when forced), one tool call, one compaction by hand and two inputs that are alike
give every compaction something made by every other; which stage a compaction reaches is open, as sizes
are, and at most one message is shortened per round.  One file of memory stands for all.  The three
attempts of `llm` are the code's; its answers have words, two calls, strings with escapes and brackets,
nesting and empty containers, so that every rule of the repair meets a token it must not take for
another.

**Fairness.** The event loop runs every task that is ready (WF of each task's steps); a model
stream ends or fails and a tool ends (both have timeouts: httpx and 60 s per attempt);
approvals are answered or time out (120 s); `wait_for` timers fire.  Nothing is assumed of the
client.  In `tools`, weak fairness of `Call(c)` says that a call does not rest for ever in a
place that has a step: a tool returns or expires, a subagent, whose own tool calls are bounded
(`MaxSubCalls` stands for `max_rounds`), comes to an answer.  In `dispatcher` nobody has to
stop a turn: retries, rounds and the breaker do.  In `writer` a process inside a call goes on
(`WF_vars(Works(p))`): the writer is synchronous code with a deadline on its only wait; nothing is
assumed of beginning a call, of time or of crashes.  In `llm` a stream goes on (`WF_callVars(Streams)`: the
HTTP client gives up after its own time limit) and a pause ends (`WF_callVars(Wakes)`: `asyncio.sleep`); a
caller's limit may or may not fire.  `memory`, `mcp`, `terminal` and `conversation` check safety only:
they go on when their user does.

## 4. Proofs

`ChatTurnProofs`: `TypeCorrect`, and `NothingIsLeftBehind`, `OneWorkerAtATime`,
`RunnersReadTheirOwn` for any number of sessions, turns, chunks, rounds and attempts, assuming
`SlowSend = FALSE` and `MaxConns = 1` (the hostile run shows that each is necessary).  The
inductive invariant is `TypeOK /\ HandlerOK /\ Protocol`: what the handler's place says of
`cur`, and what each place of a runner says of its worker, its approvals and the queue.  The
three properties are consequences; none is inductive alone, because that the queue holds
nothing foreign depends on where the previous runner was when the handler went on.

Five more are about what a client is told and what a conversation keeps:
- `DoneMeansEnded` (`DoneIsOwn`) holds of every instance, with any connections and sends that
  suspend.  `Tokens`: a turn is started once, has a worker only once its runner runs, and a
  done token of a turn is in the queue only after its worker's end (`TokensOfEnded`).  A runner
  that meets another turn's token is therefore never misled about its own: it drops that token.
- `ConversationInOrder` (`Chronological`) and `SessionsKeptApart` (`SessionsSeparate`) need `MaxConns = 1`
  and `SlowSend = FALSE`, with or without compactions by hand.  `Book`: the running turn is the latest
  (`LatestRuns`); every history there is (the engine's, the checkpoints', and those that a pending
  compaction has read and will write back) is a tale, in which turns come in order, question before
  answer, of workers that have started, and an answer only of one that has ended (`AllTales`); and each is of
  one session (`Separate`).  The pending compactions are why the properties are not inductive.
- `AnswersStay` (`AnswerKept`) and `StopsLeaveNoHalfTurn` (`NoHalfTurn`) need `CompactNow = FALSE` too, as the
  run has it: the handler of `compact_now` reads the messages, awaits a summary and then writes them
  back, over the answer of a worker that ended meanwhile (TLC finds this in seconds with `TRUE`).
  `Kept`: a cancellation is only on its way while the handler awaits its effect (`Cancels`), what a
  worker has said and a checkpoint has is in the messages (`Keeps`), what a turn was told says
  whether it is over (`Replies`), and a checkpoint has no open question, the messages at most the
  current one (`Halves`).

`GatewayProofs`: `TypeCorrect`, `DeliveryInvariant`, `ResultsAreTruthful`, `CountersMatch`, for any
number of sessions, publishers, subscribers and any capacity.  The inductive invariant is `TypeOK /\
Delivery` with Delivery the conjunction of `Flying` (an active publisher has its own numbered message,
addressed to a context that exists, and no result yet), `Iterating` (subscribers alive, or waiting in a
queue's list, have a context), `Waiting` (the lists of putters are duplicate-free and hold publishers
blocked on that context), `Naming` (each session its own context, contexts not made yet untouched, no
sentinel in a registered queue), `Fates` (where the message of a publisher is, by the publisher's state
and result), `Orders` (no message twice) and `Leftovers` (what is left in an unregistered queue came
late).  `CountersMatch` adds the cardinality of the messages put but not yet counted, and needs the set
of publishers to be finite.

`WakeUpsAreKept` is the safety half of `QueueServed`.  `NoWakeUpLost`: while a publisher is on the list of
a context, the queue and the publishers woken for it take up all its places (`PlacesOffered`); while
a subscriber is, no more messages are in the queue than subscribers were woken (`MessagesOffered`).
So nobody waits for what is there, unless somebody is about to run and take it, whichever waiter
times out, is cancelled or leaves after it was woken.  The places follow from `Waiting`, the
messages from the same about subscribers (`Listening`): those woken are none of those on the list,
so `n` wake-ups that leave a list non-empty have woken `n` more (`WokenMore`).  It needs finitely
many subscribers, and holds with several of one session, which the run has only one of.

`DispatcherProofs` is about the engine's turn, in three modules, which it extends all (so they have no name in common:
`LlmCall` and `Conversation` have a `CallSpec` and a `ConvSpec`).  Of `Dispatcher`: `TypeCorrect`;
`BreakerIsExact`, for any limit and keys, from `CounterInv`, which relates the counter to a window
of the last results (a window of `Limit` results is what the property needs to look back over
turns); `PromptsAreWellFormed`, for any number of rounds and calls, from `PromptInv`, which says at
each phase what the tail of the prompt looks like (complete, or the calls of this round with the
first `next - 1` of them answered).

Of `LlmCall`, for any answers and number of attempts, `CallTypeCorrect` and, from the inductive
invariant `CallInv`:
- `Gathered` says that what was received of the last attempt is the end of what is gathered (its
  words at the end of the text, of each call it has begun the first `sent` tokens), `LeftOver` that every
  gathered call is a beginning of one that some attempt made, `Whole` that a result that is not cut was
  sent to its end.  `AnswersAreWhole` (`AnswerIsWhole`) follows: what was received whole is JSON, so it is not repaired.
- `RepairsOnlyTruncate` (`RepairsAreTruncations`) is a theorem about the repair, for texts of any length.
  The reader and the scan of the strings are folds over a text.  `ScanFollows` relates the two token by token: as
  long as the reader has not failed, the scan knows whether it is in a string and which brackets are
  open.  A beginning of a JSON text is a text the reader has not failed at (`BeginningsAreRead`), so the
  strategies (`ClosingTruncates`, `QuotingTruncates`, and the cut at the last comma that is outside
  of strings, `LastCommaIn`) end some beginning of it.

Of `Conversation`, for any inputs, hooks, calls, turns and sizes of a compaction (positive, as
configured), from `ConvTypes`:
- `HistoryStaysBounded` (`HistoryIsBounded`), from `HistoryGrows`: `Room` is what the messages may have grown
  to so many turns after the last compaction (two more per turn, an interval more for each
  compaction that was undone), and at each place of a turn the messages, and those saved for an abort, keep
  within it.  What a compaction does to a list is one lemma for both: it leaves a part of what was said, in its
  order, no longer than head and tail together unless it changes nothing (`CompactDoes`).
- `AnswersStayOwn` (`AnswersAreOwn`), from `AnswersOwned`: the questions and answers are in the order of
  their turns and each answer is grounded (`Orderly`), the prompt has the question of this turn at a place
  behind which everything was said in this turn (`Asked`), and that is what `said` remembers.  The
  answer taken from such a prompt begins at an equal question, so it has all that was said now,
  and what else it has is of a turn since an equal input, or repeated by an answer since (`AnswerIs`).
  With the inputs b, a, b, a the last answer repeats the third, which repeats the first, whose input is another:
  this is why the property follows repetitions.  The compactions of the run come too early to show it.
- `HooksAlwaysDecide` (`HooksDecide`): registration keeps the list in the order of priority and registration
  (`Ranks`, `HookListIs`), selection keeps a part of it in that order.  `Went` says of a chain, after
  each hook, which were reached, that only the last of them may have ended it, and of every argument which change
  was the last (`RunWent`); `ReachedIs` and `PreDecides` compare that with the reference, `PostIs` is the reversed chain.

Folds and recursive functions are induction over data, and the library's induction theorems cannot be
instantiated here (they take an operator).  What is needed is proved in place: a set of naturals
has a least element (`LeastOf`, from the well-foundedness of `<` on the naturals), so a set that has 0 and
with every number the next has them all (`Induct`); a fold over a sequence therefore has a trace
(`FoldExists`), the function of its intermediate values, and an invariant of the trace is proved as a set of
naturals.  `AtIs` is the same for the elements of a list at some places, which all the
filters of `Conversation` and `Hooks` are written with.

`ToolExecutorProofs`: `TypeCorrect`, `SlotsAreConserved`, `ToolsHaveConsent`, `StopsAreObeyed`, for any
sessions, tools, categories, calls, slots and retries.  The inductive invariant is `IInv`: the types,
`SlotsConserved` (inductive only with the types), `WorkInv` (a body belongs to a running call, a
subagent to a task call, a cancellation to a call that is not over), `StopInv` (after a stop a
cancellation is on its way to every call but a task), `ConsentInv` (what the cache and the bypasses
remember was agreed to, in this session or in one of the same policy, and every call past its decision
has consent, queued and repeated ones included) and `AskInv`.  `Moved(c)` is what any step of a call
does to the calls and the semaphore; it is proved once for each of the five kinds of move, and the
invariants follow from it.  `StopsAreObeyed` is an action property: the step that starts a tool is a
step of that call, which after a stop has first to meet its cancellation.

`AtomicWriterProofs`: `TypeCorrect`, and three theorems about `AllOrNothing`, the refinement of
`AtomicFile`.  `IInv` says what each place of a process has open and holds, and needs nothing
about locking.  `FileInv` adds what the temporary file holds (the chunks its owner has written, or
nobody's) and is inductive as long as at most one process is between taking the lock and
giving it up (`Exclusive`).  `ApartWritesAreAtomic` states the refinement for any number of
processes and writes whenever `[]Exclusive`: it is the contract of the locking, which
`writer_race` shows the lock file does not keep.  `OneWriterIsAtomic` (a single process, any number
of writes, failures and crashes) and `TwoWritesAreAtomic` (two processes, one write each) establish
`Exclusive`, the second from `LockInv`, which says which lock file a process that waits has open
in relation to the one that is held.

`ApartFilesAreWhole` (`FileWhole`, which `writer_race` violates) and `BackupsAreKept` (`BackupKept`) are more
of that contract.  What is written was asked for (`AskedInv`), so what a backup copies is a content the
file had (`CopyInv` says so of every chunk copied so far: the inode that is copied is the file's, and no
one writes it any more); a backup is therefore whole when its copy ends, unless it was broken off or shared with
another copy of its second, which `torn` says.  Pruning keeps the newest (`Newest`), so a backup that
is gone was too old or has `MaxBackups` newer ones (`Present`), at any time and for any speed of the writers.
`TwoWritesKeepBackups` and `OneWriterKeepsBackups` only establish `Exclusive`.

`DreamMemoryProofs`: `TypeCorrect`, `DeletedDaysWereRead`, `NotesAreKept` and `TopicsAreIndexed`, for any number of
sessions, dreams, entries and days, any limits, and a retention of at least two days.  `IInv` is
the types with `DayInv` (no note is of a day to come), `SinceInv` (a dream that is asking began
today or yesterday) and `ReadInv` (a note of its session that it has not read is of its day or a
later one, or the dream did not read all days).  What is pruned is older than the dream, so it
was read; `NotesKept` is inductive with that: `Finish` deletes only what the dream has read, and
unless `spoiled` says otherwise everything it has read is in the answer.  `TopicsAreIndexed` is inductive
with the types: a topic is written with its line, or `spoiled` says that the index would have been longer than
the limit, and an answer that is written keeps every line there is or `spoiled` says so.

`McpClientProofs`: `TypeCorrect`, `FilterIsKept`, `SessionsOutliveCalls`, `LossesHaveCauses`, for any
servers, tools, filters and calls.  `IInv` adds to the types and to the two invariants themselves
where excluded tools may be (`CacheInv`), that a reconnection has the client for itself (`TurnInv`)
and that a program which is not running has nothing (`DownInv`).

`TerminalProofs`: `TypeCorrect`, `ConversationsStayApart`, `AnsweredTurnsKept`, `OnePressAbortsOneTurn`
and `InterruptionsRollBack`, for any sessions, turns, presses, failures and starts.  `IInv` says whose
messages the files, the engine and a waiting compaction hold (`FilesInv`, `EngineInv`, `TaskInv`:
`ConversationsApart` alone says nothing of the compaction, which will write over the engine), that the
current session is or was begun in the engine's directory (`PlaceInv`: what is typed next is of the
current session and is written to that directory), that a flag or a cancellation on its way has not been
counted yet (`PressInv`), and that during a turn the file has what `before` has (`BeforeInv`).  `KInv`
is the argument of `AnsweredTurnsKept`: the turns that are *owed* (answered, their loss not excused;
what a compaction drops is excused) are all in files (`FilesKeep`), and whatever may be written over the
engine's file has those of that file (`EngineKeeps`, for the engine and for a compaction that waits,
which may only be waiting at the prompt).

Every safety property of every passing run is a theorem.  Only model-checked: liveness (`EveryTurnEnds`,
`GeneratorsClosed`, `QueueServed`, `SubscribersEnd`, `TurnEnds`, `BatchEnds`, `WritesReturn`, `CallsReturn`), which
needs fairness and ENABLED.

## 5. Not modelled, and why

Data classes, configuration, telemetry, rule files, rendering, the React client, file tools (one call, one
file) and the parsing of provider chunks have no behaviour that interleaves.  Text is abstracted to whose
it is and, where a property is about it, to what the rules tell apart.

Code that no part of the program calls is left out with its reason in PROJECT.json: the router, the factory and the
usage tracker, the stream side of the output governor, the other assemblies of a prompt, the cost
check (no invoker or subagent's executor has a policy engine), and what the orchestrator would publish to
a gateway.  The automatic global dream is such code too: the instance that a dream notifies
(`get_global_dream()`, `dream.py:237`) is not the one that has a model (`GlobalDream.get_instance()`), so it
only runs when the terminal asks for it (`/dreamglobal`).

Seen while reading, and not in a model:
- the Edit tool writes its file itself, without the lock of the atomic writer;
- `tool_executor.py:434` retries an `OSError` before it looks at the permanent errors, some of which are `OSError`s;
- the history of a session that the web client shows (`routes/sessions.py`) is read back from day files by their
  layout: lines of an answer that look like a question or an answer split it.

## 6. Plan

1. `ChatTurn`, `Gateway`, `Dispatcher`, `ToolExecutor`, `AtomicWriter`, `DreamMemory`, `McpClient` and
their proofs: done. 2. `Terminal`, `TerminalProofs`: done. 3. `Conversation` with `Hooks`, `LlmCall`
with `JsonRepair`: done. 4. Proofs of what conversations keep, of wake-ups, backups and topics: done. 5.
Proofs about `LlmCall` and `JsonRepair`, `Conversation` and `Hooks`: done. 6. Refinements: an abstract
turn for `ChatTurn`, a channel for `Gateway`. 7. The kinds of errors that `ToolExecutor` tells apart;
the layout of day files as an algorithm with its inverse.
