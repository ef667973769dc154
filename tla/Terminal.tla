------------------------------ MODULE Terminal ------------------------------
(***************************************************************************)
(* The terminal client: the prompt loop, the turn it runs as a task,       *)
(* Ctrl+C, the keys that work while the prompt waits, and the sessions     *)
(* whose conversations it keeps in one engine and in one checkpoint file   *)
(* each.                                                                   *)
(*                                                                         *)
(* While a turn or a command runs there is no prompt, so no key but        *)
(* Ctrl+C reaches the program.  While the prompt waits there is no turn,   *)
(* but a compaction started by Ctrl+X may be waiting for its summary; the  *)
(* prompt cancels and awaits it when a line is entered.                    *)
(***************************************************************************)
EXTENDS Naturals, FiniteSets

CONSTANTS
    Sessions,       \* identifiers of sessions, made from the time of their start
    None,           \* no session
    HeadCount,      \* messages that a compaction keeps at the beginning
    Recent,         \* messages that it keeps at the end, by size
    ForcedRecent,   \* and when it is forced
    MaxTurns,       \* bound: messages typed
    MaxPresses,     \* bound: Ctrl+C outside the prompt
    MaxFaults,      \* bound: checkpoints that could not be written
    MaxStarts       \* bound: starts of the program

ASSUME BoundsAreNatural ==
    {MaxTurns, MaxPresses, MaxFaults, MaxStarts} \subseteq Nat /\ MaxStarts > 0
ASSUME CountsAreNatural == {HeadCount, Recent, ForcedRecent} \subseteq Nat
ASSUME NoneIsNoSession == None \notin Sessions

VARIABLES
    place,          \* what the program does
    current,        \* the session of the session service
    directory,      \* the session whose checkpoint directory the engine has
    msgs,           \* the engine's messages, without the system prompt
    disk,           \* the checkpoint file of each session
    known,          \* the sessions that have a directory
    origin,         \* the directory a session was started on; None: not started
    compaction,     \* the compaction started by Ctrl+X
    interrupted,    \* _interrupted
    cancelled,      \* a cancellation is on its way to the active task
    turn,           \* turns typed so far
    faults, starts, \* counters of the bounds
    typed,          \* history: the session of each turn
    answered,       \* history: turns that ended with an answer
    excused,        \* history: turns whose loss has a cause
    before,         \* history: the messages the checkpoint of this turn has
    presses, aborts \* history: Ctrl+C pressed, turns interrupted

conversation == <<current, directory, msgs, disk, known, origin>>
history == <<typed, answered, excused, before, presses, aborts>>
vars == <<place, conversation, compaction, interrupted, cancelled, turn, faults,
          starts, history>>

Turns == 1 .. MaxTurns

\* What a turn leaves in a conversation; a conversation has them in their order.
Parts == {"question", "answer"}
Message == [turn : Turns, part : Parts]
File == [state : {"none", "whole", "torn"}, msgs : SUBSET Message]

NoFile == [state |-> "none", msgs |-> {}]
NoTask == [running |-> FALSE, read |-> {}]
NoCopy == [safe |-> FALSE, msgs |-> {}]

Of(m) == {e.turn : e \in m}
Answers(m) == {e.turn : e \in {f \in m : f.part = "answer"}}
Question == [turn |-> turn, part |-> "question"]
Answer == [turn |-> turn, part |-> "answer"]

Precedes(e, f) ==
    e.turn < f.turn \/ (e.turn = f.turn /\ e.part = "question" /\ f.part = "answer")

\* ContextCompressor.auto_compact keeps the first messages and the latest.  In the
\* place of those between is a count of them, or a summary of that count.
Condensed(m, recent) ==
    {e \in m : \/ Cardinality({f \in m : Precedes(f, e)}) < HeadCount
               \/ Cardinality({f \in m : Precedes(e, f)}) < recent}

\* The compactions by size and by rounds at the end of a turn, neither or both.
CompactedAtEnd(m) == {m, Condensed(m, Recent), Condensed(m, ForcedRecent)}

\* The answered turns that a compaction of m into n has dropped.
Dropped(m, n) == Answers(m) \ Answers(n)

\* restore: no file and a damaged file both leave an empty conversation.
Restored(d, s) == IF d[s].state = "whole" THEN d[s].msgs ELSE {}

\* save_checkpoint swallows its errors: nothing was written, or part of it.
Outcomes == IF faults < MaxFaults THEN {"written", "failed", "torn"} ELSE {"written"}

Save(m, how) ==
    /\ disk' = CASE how = "written" ->
                      [disk EXCEPT ![directory] = [state |-> "whole", msgs |-> m]]
                 [] how = "torn" ->
                      [disk EXCEPT ![directory] = [state |-> "torn", msgs |-> {}]]
                 [] how = "failed" -> disk
    /\ known' = IF how = "failed" THEN known ELSE known \cup {directory}
    /\ faults' = IF how = "written" THEN faults ELSE faults + 1

\* A checkpoint that was not written excuses what it should have held.
LossBy(how, m) == IF how = "written" THEN {} ELSE Of(m) \cup Of(disk[directory].msgs)

\* The messages once the prompt is closed: a compaction that still waits for its
\* summary is cancelled, and the retry loop may turn the cancellation into the end
\* of the summary.
PromptClosed ==
    {msgs} \cup (IF compaction.running THEN {Condensed(compaction.read, ForcedRecent)}
                                      ELSE {})

\* What the compaction that waited has dropped, when m is what it left.
DroppedBy(m) == Dropped(compaction.read, m)

TypeOK ==
    /\ place \in {"down", "prompt", "command", "created", "hooks", "stream",
                  "tools", "approval", "compacting"}
    /\ current \in Sessions /\ directory \in Sessions
    /\ msgs \subseteq Message /\ disk \in [Sessions -> File]
    /\ known \subseteq Sessions /\ origin \in [Sessions -> Sessions \cup {None}]
    /\ compaction \in [running : BOOLEAN, read : SUBSET Message]
    /\ interrupted \in BOOLEAN /\ cancelled \in BOOLEAN
    /\ turn \in 0 .. MaxTurns /\ faults \in 0 .. MaxFaults /\ starts \in 0 .. MaxStarts
    /\ typed \in [Turns -> Sessions \cup {None}]
    /\ answered \subseteq Turns /\ excused \subseteq Turns
    /\ before \in [safe : BOOLEAN, msgs : SUBSET Message]
    /\ presses \in 0 .. MaxPresses /\ aborts \in Nat

-----------------------------------------------------------------------------
(* Starts and ends of the program.                                         *)

Init ==
    /\ place = "prompt"
    /\ current \in Sessions /\ directory = current
    /\ msgs = {} /\ disk = [s \in Sessions |-> NoFile]
    /\ known = {current}
    /\ origin = [s \in Sessions |-> IF s = current THEN current ELSE None]
    /\ compaction = NoTask
    /\ interrupted = FALSE /\ cancelled = FALSE
    /\ turn = 0 /\ faults = 0 /\ starts = 1
    /\ typed = [t \in Turns |-> None]
    /\ answered = {} /\ excused = {} /\ before = NoCopy
    /\ presses = 0 /\ aborts = 0

\* A start opens a session of its own.
Restart ==
    /\ place = "down" /\ starts < MaxStarts
    /\ \E s \in Sessions :
         /\ origin[s] = None
         /\ current' = s /\ directory' = s
         /\ known' = known \cup {s} /\ origin' = [origin EXCEPT ![s] = s]
    /\ place' = "prompt" /\ starts' = starts + 1
    /\ msgs' = {} /\ compaction' = NoTask
    /\ interrupted' = FALSE /\ cancelled' = FALSE
    /\ UNCHANGED <<disk, turn, faults, history>>

Stops ==
    /\ place' = "down" /\ msgs' = {} /\ compaction' = NoTask
    /\ UNCHANGED <<current, directory, origin, interrupted, cancelled, turn, starts,
                   typed, answered, before, presses, aborts>>

\* /exit and Ctrl+D disconnect the tool servers and save nothing; Ctrl+\ and a
\* killed process save nothing either.
Ends ==
    /\ place # "down"
    /\ Stops
    /\ UNCHANGED <<disk, known, faults, excused>>

\* The process ends while it writes a checkpoint, in place.
EndsInSave ==
    /\ place \in {"prompt", "compacting"} /\ faults < MaxFaults
    /\ Save(msgs, "torn")
    /\ excused' = excused \cup LossBy("torn", msgs)
    /\ Stops

-----------------------------------------------------------------------------
(* The prompt.                                                             *)

\* Mutant: the checkpoint before a turn is left to the end of the turn before.
SubmitUnsaved ==
    /\ place = "prompt" /\ turn < MaxTurns
    /\ \E m \in PromptClosed :
         /\ msgs' = m /\ before' = [safe |-> TRUE, msgs |-> m]
         /\ excused' = excused \cup DroppedBy(m)
    /\ place' = "created" /\ turn' = turn + 1
    /\ typed' = [typed EXCEPT ![turn + 1] = current]
    /\ compaction' = NoTask
    /\ UNCHANGED <<current, directory, disk, known, origin, interrupted, cancelled,
                   faults, starts, answered, presses, aborts>>

\* A message is entered: the conversation so far is saved, to return to it when the
\* turn is interrupted, and the turn becomes a task.
Submit ==
    /\ place = "prompt" /\ turn < MaxTurns
    /\ \E m \in PromptClosed, how \in Outcomes :
         /\ msgs' = m
         /\ Save(m, how)
         /\ before' = [safe |-> how = "written", msgs |-> m]
         /\ excused' = excused \cup LossBy(how, m) \cup DroppedBy(m)
    /\ place' = "created" /\ turn' = turn + 1
    /\ typed' = [typed EXCEPT ![turn + 1] = current]
    /\ compaction' = NoTask
    /\ UNCHANGED <<current, directory, origin, interrupted, cancelled, starts,
                   answered, presses, aborts>>

\* The sessions that /session lists: those with a directory.
Listed == known

\* A command names a session by its number in the list; the current one can neither
\* be switched to nor deleted.
Others == Listed \ {current}

\* Mutant: the engine gets the directory of the next session before the checkpoint
\* of this one is written.
SwitchEarly(s) ==
    /\ place = "prompt" /\ s \in Others
    /\ \E m \in PromptClosed :
         /\ disk' = [disk EXCEPT ![s] = [state |-> "whole", msgs |-> m]]
         /\ msgs' = m /\ excused' = excused \cup DroppedBy(m)
    /\ current' = s /\ directory' = s
    /\ compaction' = NoTask
    /\ UNCHANGED <<place, known, origin, interrupted, cancelled, turn, faults, starts,
                   typed, answered, before, presses, aborts>>

\* /session <s>: the old conversation is saved, the new one restored.
Switch(s) ==
    /\ place = "prompt" /\ s \in Others
    /\ \E m \in PromptClosed, how \in Outcomes :
         /\ Save(m, how)
         /\ msgs' = Restored(disk', s)
         /\ excused' = excused \cup LossBy(how, m) \cup DroppedBy(m)
    /\ current' = s /\ directory' = s
    /\ compaction' = NoTask
    /\ UNCHANGED <<place, origin, interrupted, cancelled, turn, starts, typed, answered,
                   before, presses, aborts>>

\* /session new and Ctrl+N open a session and empty the engine, which keeps the
\* checkpoint directory of the session before.  The command closes the prompt, the
\* key does not.
NewSession(byKey) ==
    /\ place = "prompt"
    /\ \E s \in Sessions :
         /\ origin[s] = None
         /\ current' = s
         /\ known' = known \cup {s}
         /\ origin' = [origin EXCEPT ![s] = directory]
    /\ msgs' = {}
    /\ excused' = excused \cup Of(msgs) \cup Of(disk[directory].msgs)
    /\ compaction' = IF byKey THEN compaction ELSE NoTask
    /\ UNCHANGED <<place, directory, disk, interrupted, cancelled, turn, faults, starts,
                   typed, answered, before, presses, aborts>>

\* /session del <s>, refused for the current session.
Delete(s) ==
    /\ place = "prompt" /\ s \in Others
    /\ \E m \in PromptClosed :
         /\ msgs' = m
         /\ excused' = excused \cup Of(disk[s].msgs) \cup DroppedBy(m)
    /\ disk' = [disk EXCEPT ![s] = NoFile] /\ known' = known \ {s}
    /\ compaction' = NoTask
    /\ UNCHANGED <<place, current, directory, origin, interrupted, cancelled, turn,
                   faults, starts, typed, answered, before, presses, aborts>>

\* Ctrl+S, and /save, which closes the prompt.
SaveNow(byKey) ==
    /\ place = "prompt"
    /\ \E m \in IF byKey THEN {msgs} ELSE PromptClosed, how \in Outcomes :
         /\ msgs' = m
         /\ Save(m, how)
         /\ excused' = excused \cup LossBy(how, m) \cup DroppedBy(m)
    /\ compaction' = IF byKey THEN compaction ELSE NoTask
    /\ UNCHANGED <<place, current, directory, origin, interrupted, cancelled, turn,
                   starts, typed, answered, before, presses, aborts>>

\* Ctrl+X: _do_compact reads the messages, awaits the summary, and overwrites them.
CompactKey ==
    /\ place = "prompt" /\ ~compaction.running /\ msgs # {}
    /\ compaction' = [running |-> TRUE, read |-> msgs]
    /\ UNCHANGED <<place, conversation, interrupted, cancelled, turn, faults, starts,
                   history>>

CompactionEnds ==
    /\ place = "prompt" /\ compaction.running
    /\ msgs' = Condensed(compaction.read, ForcedRecent)
    /\ excused' = excused \cup DroppedBy(msgs')
    /\ compaction' = NoTask
    /\ UNCHANGED <<place, current, directory, disk, known, origin, interrupted,
                   cancelled, turn, faults, starts, typed, answered, before, presses,
                   aborts>>

\* Ctrl+C at the prompt clears the line; the prompt is closed and opened again.
ClearLine ==
    /\ place = "prompt" /\ compaction.running
    /\ \E m \in PromptClosed : msgs' = m /\ excused' = excused \cup DroppedBy(m)
    /\ compaction' = NoTask
    /\ UNCHANGED <<place, current, directory, disk, known, origin, interrupted,
                   cancelled, turn, faults, starts, typed, answered, before, presses,
                   aborts>>

\* A command that awaits something: /compact, /dream, /mcp reconnect.
Command ==
    /\ place = "prompt"
    /\ \E m \in PromptClosed : msgs' = m /\ excused' = excused \cup DroppedBy(m)
    /\ place' = "command" /\ compaction' = NoTask
    /\ UNCHANGED <<current, directory, disk, known, origin, interrupted, cancelled,
                   turn, faults, starts, typed, answered, before, presses, aborts>>

CommandEnds ==
    /\ place = "command"
    /\ \E m \in {msgs, Condensed(msgs, ForcedRecent)} :
         msgs' = m /\ excused' = excused \cup Dropped(msgs, m)
    /\ place' = "prompt"
    /\ UNCHANGED <<current, directory, disk, known, origin, compaction, interrupted,
                   cancelled, turn, faults, starts, typed, answered, before, presses,
                   aborts>>

-----------------------------------------------------------------------------
(* The turn.                                                               *)

Elsewhere == <<conversation, compaction, interrupted, cancelled, turn, faults, starts,
               history>>

\* run_stream appends the question and runs the hooks before the prompt is built.
Begins ==
    /\ place = "created"
    /\ place' = "hooks" /\ msgs' = msgs \cup {Question}
    /\ UNCHANGED <<current, directory, disk, known, origin, compaction, interrupted,
                   cancelled, turn, faults, starts, history>>

HooksEnd ==
    /\ place = "hooks"
    /\ place' = "stream"
    /\ UNCHANGED Elsewhere

\* The dispatcher hands on events; _run_dialog looks at the flag at each of them, the
\* last one included, and goes on when it is not set.
Goes ==
    /\ place = "stream" /\ ~interrupted
    /\ place' \in {"tools", "compacting"}
    /\ UNCHANGED Elsewhere

\* A call of the batch asks: input() blocks the whole loop.
Asks ==
    /\ place = "tools"
    /\ place' = "approval"
    /\ UNCHANGED Elsewhere

IsAnswered ==
    /\ place = "approval"
    /\ place' = "tools"
    /\ UNCHANGED Elsewhere

BatchEnds ==
    /\ place = "tools"
    /\ place' = "stream"
    /\ UNCHANGED Elsewhere

\* Ctrl+C: the handler sets the flag and has the active task cancelled; in an
\* approval it raises, which the approval takes for a refusal; during a command there
\* is no active task.
Press ==
    /\ place \in {"created", "hooks", "stream", "tools", "approval", "compacting",
                  "command"}
    /\ presses < MaxPresses
    /\ presses' = presses + 1 /\ interrupted' = TRUE
    /\ place' = IF place = "approval" THEN "tools" ELSE place
    /\ cancelled' = IF place \in {"approval", "command"} THEN cancelled ELSE TRUE
    /\ UNCHANGED <<conversation, compaction, turn, faults, starts, typed, answered,
                   excused, before, aborts>>

\* Mutant: only the loop over the events resets the flag.
AbortKeepsFlag ==
    /\ (cancelled /\ place \in {"created", "hooks", "tools", "compacting"})
       \/ (interrupted /\ place = "stream")
    /\ interrupted' = (place # "stream" /\ interrupted) /\ cancelled' = FALSE
    /\ msgs' = Restored(disk, directory)
    /\ place' = "prompt" /\ aborts' = aborts + 1
    /\ before' = NoCopy
    /\ UNCHANGED <<current, directory, disk, known, origin, compaction, turn, faults,
                   starts, typed, answered, excused, presses>>

\* The turn ends with CancelledError: it is cancelled where it waits (in the stream
\* the retry loop swallows that), or an event finds the flag set.  The conversation
\* is restored from the checkpoint and the flag reset.
Abort ==
    /\ \/ cancelled /\ place \in {"created", "hooks", "tools", "compacting"}
       \/ interrupted /\ place = "stream"
    /\ interrupted' = FALSE /\ cancelled' = FALSE
    /\ msgs' = Restored(disk, directory)
    /\ place' = "prompt" /\ aborts' = aborts + 1
    /\ before' = NoCopy
    /\ UNCHANGED <<current, directory, disk, known, origin, compaction, turn, faults,
                   starts, typed, answered, excused, presses>>

\* Mutant: the checkpoint is written before the answer is appended.
EndsSavingFirst ==
    /\ place = "compacting"
    /\ \E m \in CompactedAtEnd(msgs) :
         /\ Save(m, "written")
         /\ msgs' = m \cup {Answer}
         /\ excused' = excused \cup Dropped(msgs, m)
    /\ answered' = answered \cup {turn}
    /\ place' = "prompt" /\ cancelled' = FALSE
    /\ before' = NoCopy
    /\ UNCHANGED <<current, directory, origin, compaction, interrupted, turn, starts,
                   typed, presses, aborts>>

\* The end of run_stream: the compaction, the answer, the checkpoint.  When nothing
\* in it waits, a Ctrl+C is too late for this turn; the flag stays.
TurnEnds ==
    /\ place = "compacting"
    /\ \E m \in CompactedAtEnd(msgs), how \in Outcomes :
         /\ msgs' = m \cup {Answer}
         /\ Save(m \cup {Answer}, how)
         /\ excused' = excused \cup LossBy(how, msgs) \cup Dropped(msgs, m)
    /\ answered' = answered \cup {turn}
    /\ place' = "prompt" /\ cancelled' = FALSE
    /\ before' = NoCopy
    /\ UNCHANGED <<current, directory, origin, compaction, interrupted, turn, starts,
                   typed, presses, aborts>>

\* An exception is printed; the question stays, unsaved and without an answer.
TurnFails ==
    /\ place \in {"hooks", "compacting"}
    /\ place' = "prompt" /\ cancelled' = FALSE /\ before' = NoCopy
    /\ UNCHANGED <<conversation, compaction, interrupted, turn, faults, starts, typed,
                   answered, excused, presses, aborts>>

-----------------------------------------------------------------------------

Next ==
    \/ Restart \/ Ends \/ EndsInSave
    \/ Submit \/ CompactKey \/ CompactionEnds \/ ClearLine \/ Command \/ CommandEnds
    \/ \E s \in Sessions : Switch(s) \/ Delete(s)
    \/ \E byKey \in BOOLEAN : NewSession(byKey) \/ SaveNow(byKey)
    \/ Begins \/ HooksEnd \/ Goes \/ Asks \/ IsAnswered \/ BatchEnds
    \/ Press \/ Abort \/ TurnEnds \/ TurnFails

Spec == Init /\ [][Next]_vars

-----------------------------------------------------------------------------
(* Properties.                                                             *)

\* The conversation of a session, in its file and in the engine, holds turns of that
\* session only, and of sessions that were opened with /session new or Ctrl+N while
\* the engine worked in its directory: those write over the session before.
ConversationsApart ==
    /\ \A s \in Sessions : \A t \in Of(disk[s].msgs) :
         typed[t] = s \/ origin[typed[t]] = s
    /\ \A t \in Of(msgs) : typed[t] = directory \/ origin[typed[t]] = directory

\* A turn that was answered has its answer in the engine or in a file, whatever was
\* interrupted, switched or killed since; the causes of a loss are a compaction that
\* found the answer neither among the first messages nor among the latest, a new
\* session opened over its conversation, a checkpoint that could not be written, a
\* deletion.
TurnsKept ==
    answered \ excused
      \subseteq Answers(msgs) \cup UNION {Answers(disk[s].msgs) : s \in Sessions}

\* A Ctrl+C interrupts one turn at most, not necessarily the one it was pressed in:
\* the flag of one that came too late, or during a command, ends the next turn.
OnePressOneAbort == aborts <= presses

\* An interrupted turn leaves the messages as they were when it was typed, if they
\* could be saved then; a compaction since the last answer included.
AbortRollsBack ==
    [][aborts' # aborts /\ before.safe => msgs' = before.msgs]_vars

=============================================================================
