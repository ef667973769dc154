--------------------------- MODULE TerminalProofs ---------------------------
(***************************************************************************)
(* Proofs about Terminal, for any number of sessions, turns, presses,      *)
(* faults and starts.                                                      *)
(***************************************************************************)
EXTENDS Terminal, TLAPS

\* The places of a turn.
Active == {"created", "hooks", "stream", "tools", "approval", "compacting"}

\* The messages are of the first n turns, whose sessions are ty, and each of these
\* sessions is d or was begun in the directory of d.
Here(m, d, n, ty, og) ==
    \A t \in Of(m) : t \in 1 .. n /\ (ty[t] = d \/ og[ty[t]] = d)

\* Whose messages the files, the engine and a waiting compaction have.
FilesInv == \A s \in Sessions : Here(disk[s].msgs, s, turn, typed, origin)
EngineInv == Here(msgs, directory, turn, typed, origin)
TaskInv == Here(compaction.read, directory, turn, typed, origin)

\* The engine works in the directory of the current session, or the session was begun
\* there; every turn is of a session, and one that runs of the current session.
PlaceInv ==
    /\ current = directory \/ origin[current] = directory
    /\ \A t \in 1 .. turn : typed[t] \in Sessions
    /\ place \in Active => turn \in Turns /\ typed[turn] = current

\* A press that is still to be noticed is not counted as an abort.
PressInv ==
    /\ aborts <= presses
    /\ interrupted \/ cancelled => aborts < presses

\* During a turn the file has what the messages were before it.
BeforeInv ==
    place \in Active /\ before.safe =>
        disk[directory].state = "whole" /\ disk[directory].msgs = before.msgs

IInv == TypeOK /\ FilesInv /\ EngineInv /\ TaskInv /\ PlaceInv /\ PressInv /\ BeforeInv

-----------------------------------------------------------------------------
(* Lemmas about the helpers.                                               *)

\* The bounds, one by one.
LEMMA Bounds ==
    MaxTurns \in Nat /\ MaxPresses \in Nat /\ MaxFaults \in Nat /\ MaxStarts \in Nat \ {0}
<1>1. \A n \in {MaxTurns, MaxPresses, MaxFaults, MaxStarts} : n \in Nat
  BY BoundsAreNatural
<1> QED BY <1>1, BoundsAreNatural

\* What is there before there is a file, a task or a copy.
LEMMA Blank ==
    /\ NoFile \in File /\ NoFile.msgs = {}
    /\ NoTask \in [running : BOOLEAN, read : SUBSET Message] /\ NoTask.read = {}
    /\ NoCopy \in [safe : BOOLEAN, msgs : SUBSET Message] /\ ~NoCopy.safe
  BY DEF NoFile, File, NoTask, NoCopy

\* Of no messages.
LEMMA NothingHere ==
    ASSUME NEW d, NEW n, NEW ty, NEW og
    PROVE  Here({}, d, n, ty, og)
  BY DEF Here, Of

\* A compaction adds no message, and excuses turns of what it was made of.
LEMMA CondensedKeeps ==
    ASSUME NEW m \in SUBSET Message, NEW recent
    PROVE  Condensed(m, recent) \in SUBSET Message /\ Of(Condensed(m, recent)) \subseteq Of(m)
<1>1. Condensed(m, recent) \subseteq m
  BY DEF Condensed
<1> QED BY <1>1 DEF Of

LEMMA DroppedTyped ==
    ASSUME NEW m \in SUBSET Message, NEW n
    PROVE  Dropped(m, n) \subseteq Turns
<1>1. \A e \in Message : e.turn \in Turns
  BY DEF Message
<1> QED BY <1>1 DEF Dropped, Answers

\* What is restored is what the file has, or nothing.
LEMMA RestoredFromFile ==
    ASSUME NEW d \in [Sessions -> File], NEW s \in Sessions
    PROVE  /\ Restored(d, s) \in SUBSET Message
           /\ Restored(d, s) \subseteq d[s].msgs
  BY DEF Restored, File

\* Less of them, at a later time.
LEMMA HereStays ==
    ASSUME NEW m, NEW m2, NEW d \in Sessions, NEW n \in Nat, NEW n2 \in Nat,
           NEW ty, NEW ty2, NEW og, NEW og2,
           Here(m, d, n, ty, og), Of(m2) \subseteq Of(m), n <= n2,
           \A t \in 1 .. n : ty2[t] = ty[t] /\ ty[t] \in Sessions,
           \A s \in Sessions : og2[s] = og[s] \/ og[s] = None
    PROVE  Here(m2, d, n2, ty2, og2)
  BY NoneIsNoSession DEF Here

\* The messages when the prompt is closed are those of the engine's directory.
LEMMA ClosedHere ==
    ASSUME TypeOK, EngineInv, TaskInv, NEW m \in PromptClosed
    PROVE  m \in SUBSET Message /\ Here(m, directory, turn, typed, origin)
<1>1. CASE m = msgs
  BY <1>1 DEF TypeOK, EngineInv
<1>2. CASE m = Condensed(compaction.read, ForcedRecent)
  <2>1. compaction.read \in SUBSET Message
    BY DEF TypeOK
  <2>2. m \in SUBSET Message /\ Of(m) \subseteq Of(compaction.read)
    BY <1>2, <2>1, CondensedKeeps
  <2> QED BY <2>2 DEF TaskInv, Here
<1> QED BY <1>1, <1>2 DEF PromptClosed

\* A save changes one file, to what is saved or to nothing.
LEMMA Saved ==
    ASSUME TypeOK, NEW m \in SUBSET Message, NEW how \in {"written", "failed", "torn"},
           how = "written" \/ faults < MaxFaults, Save(m, how)
    PROVE  /\ disk' \in [Sessions -> File] /\ known' \in SUBSET Sessions
           /\ faults' \in 0 .. MaxFaults
           /\ \A s \in Sessions : disk'[s] = disk[s]
                                  \/ (s = directory /\ disk'[s].msgs \subseteq m)
           /\ how = "written" => disk'[directory] = [state |-> "whole", msgs |-> m]
<1>1. /\ disk \in [Sessions -> File] /\ directory \in Sessions /\ known \in SUBSET Sessions
      /\ faults \in 0 .. MaxFaults /\ MaxFaults \in Nat
  BY Bounds DEF TypeOK
<1>2. /\ [state |-> "whole", msgs |-> m] \in File
      /\ [state |-> "torn", msgs |-> {}] \in File
  BY DEF File
<1>3. CASE how = "written"
  BY <1>1, <1>2, <1>3 DEF Save
<1>4. CASE how = "torn"
  BY <1>1, <1>2, <1>4 DEF Save
<1>5. CASE how = "failed"
  BY <1>1, <1>2, <1>5 DEF Save
<1> QED BY <1>3, <1>4, <1>5

\* Outcomes of a save, as the lemma needs them.
LEMMA OutcomesAllowed ==
    \A how \in Outcomes : /\ how \in {"written", "failed", "torn"}
                          /\ how = "written" \/ faults < MaxFaults
  BY DEF Outcomes

\* The files after a save of messages that belong to the engine's directory, a turn
\* that is begun with it, and a session that is.
LEMMA FilesAfterSave ==
    ASSUME FilesInv, directory \in Sessions, turn \in Nat, turn' \in Nat, turn <= turn',
           NEW m, Here(m, directory, turn, typed, origin),
           \A s \in Sessions : disk'[s] = disk[s]
                               \/ (s = directory /\ disk'[s].msgs \subseteq m),
           \A t \in 1 .. turn : typed'[t] = typed[t] /\ typed[t] \in Sessions,
           \A s \in Sessions : origin'[s] = origin[s] \/ origin[s] = None
    PROVE  FilesInv'
<1> SUFFICES ASSUME NEW s \in Sessions
             PROVE  Here(disk'[s].msgs, s, turn', typed', origin')
  BY DEF FilesInv
<1>1. CASE disk'[s] = disk[s]
  <2>1. Here(disk[s].msgs, s, turn, typed, origin)
    BY DEF FilesInv
  <2> QED BY <1>1, <2>1, HereStays
<1>2. CASE s = directory /\ disk'[s].msgs \subseteq m
  <2>1. Of(disk'[s].msgs) \subseteq Of(m)
    BY <1>2 DEF Of
  <2> QED BY <1>2, <2>1, HereStays
<1> QED BY <1>1, <1>2

\* What is not to be kept has turns.
LEMMA LossTyped ==
    ASSUME TypeOK, NEW m \in SUBSET Message, NEW how
    PROVE  LossBy(how, m) \subseteq Turns /\ DroppedBy(m) \subseteq Turns
<1>1. disk[directory].msgs \subseteq Message
  BY DEF TypeOK, File
<1>2. \A e \in Message : e.turn \in Turns
  BY DEF Message
<1>3. Of(m) \subseteq Turns /\ Of(disk[directory].msgs) \subseteq Turns
  BY <1>1, <1>2 DEF Of
<1>4. compaction.read \in SUBSET Message
  BY DEF TypeOK
<1> QED BY <1>3, <1>4, DroppedTyped DEF LossBy, DroppedBy

-----------------------------------------------------------------------------
(* The initial states and the steps.                                       *)

LEMMA InitOK == Init => IInv
<1> SUFFICES ASSUME Init PROVE IInv
  OBVIOUS
<1>1. NoFile \in File /\ NoTask \in [running : BOOLEAN, read : SUBSET Message]
      /\ NoCopy \in [safe : BOOLEAN, msgs : SUBSET Message]
  BY DEF NoFile, File, NoTask, NoCopy
<1>2. disk \in [Sessions -> File] /\ origin \in [Sessions -> Sessions \cup {None}]
      /\ typed \in [Turns -> Sessions \cup {None}]
  BY <1>1 DEF Init
<1>6. current \in Sessions /\ directory \in Sessions /\ msgs \subseteq Message
      /\ known \subseteq Sessions /\ answered \subseteq Turns /\ excused \subseteq Turns
  BY DEF Init
<1>7. turn \in 0 .. MaxTurns /\ faults \in 0 .. MaxFaults /\ starts \in 0 .. MaxStarts
      /\ presses \in 0 .. MaxPresses /\ aborts \in Nat
  BY Bounds DEF Init
<1>8. /\ compaction \in [running : BOOLEAN, read : SUBSET Message]
      /\ before \in [safe : BOOLEAN, msgs : SUBSET Message]
  BY <1>1 DEF Init
<1>9. place = "prompt" /\ interrupted \in BOOLEAN /\ cancelled \in BOOLEAN
  BY DEF Init
<1>3. TypeOK
  BY <1>2, <1>6, <1>7, <1>8, <1>9 DEF TypeOK
<1>4. FilesInv /\ EngineInv /\ TaskInv
  BY DEF Init, FilesInv, EngineInv, TaskInv, Here, Of, NoFile, NoTask
<1>5. PlaceInv /\ PressInv /\ BeforeInv
  BY DEF Init, PlaceInv, PressInv, BeforeInv, Active
<1> QED BY <1>3, <1>4, <1>5 DEF IInv

\* Steps within a turn that change no message.
LEMMA QuietKeeps ==
    ASSUME IInv, HooksEnd \/ Goes \/ Asks \/ IsAnswered \/ BatchEnds
    PROVE  IInv'
<1> USE DEF HooksEnd, Goes, Asks, IsAnswered, BatchEnds, Elsewhere, conversation, history
<1>1. TypeOK'
  BY DEF IInv, TypeOK
<1>2. FilesInv' /\ EngineInv' /\ TaskInv'
  BY DEF IInv, FilesInv, EngineInv, TaskInv
<1>3. PlaceInv' /\ PressInv' /\ BeforeInv'
  BY DEF IInv, PlaceInv, PressInv, BeforeInv, Active
<1> QED BY <1>1, <1>2, <1>3 DEF IInv

LEMMA PressKeeps ==
    ASSUME IInv, Press
    PROVE  IInv'
<1> USE DEF Press, conversation, history
<1>6. presses' \in 0 .. MaxPresses /\ interrupted' \in BOOLEAN
  BY Bounds DEF IInv, TypeOK
<1>7. place' \in {place, "tools"} /\ cancelled' \in {cancelled, TRUE}
  OBVIOUS
<1>8. cancelled' \in BOOLEAN
  BY <1>7 DEF IInv, TypeOK
<1>1. TypeOK'
  BY <1>6, <1>7, <1>8 DEF IInv, TypeOK
<1>2. FilesInv' /\ EngineInv' /\ TaskInv'
  BY DEF IInv, FilesInv, EngineInv, TaskInv
<1>3. PlaceInv' /\ BeforeInv'
  BY DEF IInv, PlaceInv, BeforeInv, Active
<1>4. aborts \in Nat /\ presses \in Nat
  BY Bounds DEF IInv, TypeOK
<1>5. PressInv'
  BY <1>4 DEF IInv, PressInv
<1> QED BY <1>1, <1>2, <1>3, <1>5 DEF IInv

LEMMA FailsKeeps ==
    ASSUME IInv, TurnFails
    PROVE  IInv'
<1> USE DEF TurnFails, conversation
<1>1. TypeOK'
  BY DEF IInv, TypeOK, NoCopy
<1>2. FilesInv' /\ EngineInv' /\ TaskInv'
  BY DEF IInv, FilesInv, EngineInv, TaskInv
<1>3. PlaceInv' /\ PressInv' /\ BeforeInv'
  BY DEF IInv, PlaceInv, PressInv, BeforeInv, Active
<1> QED BY <1>1, <1>2, <1>3 DEF IInv

LEMMA BeginsKeeps ==
    ASSUME IInv, Begins
    PROVE  IInv'
<1> USE DEF Begins, history
<1>1. turn \in Turns /\ typed[turn] = current /\ turn \in 1 .. turn
  BY Bounds DEF IInv, PlaceInv, Active, Turns
<1>2. Question \in Message
  BY <1>1 DEF Question, Message, Parts
<1>3. TypeOK'
  BY <1>2 DEF IInv, TypeOK
<1>4. Of(msgs') \subseteq Of(msgs) \cup {turn}
  BY DEF Of, Question
<1>5. EngineInv'
  BY <1>1, <1>4 DEF IInv, EngineInv, PlaceInv, Here
<1>6. FilesInv' /\ TaskInv'
  BY DEF IInv, FilesInv, TaskInv
<1>7. PlaceInv' /\ PressInv' /\ BeforeInv'
  BY DEF IInv, PlaceInv, PressInv, BeforeInv, Active
<1> QED BY <1>3, <1>5, <1>6, <1>7 DEF IInv

LEMMA AbortKeeps ==
    ASSUME IInv, Abort
    PROVE  IInv'
<1> USE DEF Abort
<1>1. directory \in Sessions /\ disk \in [Sessions -> File] /\ aborts \in Nat /\ presses \in Nat
  BY Bounds DEF IInv, TypeOK
<1>2. msgs' \in SUBSET Message /\ msgs' \subseteq disk[directory].msgs
  BY <1>1, RestoredFromFile
<1>8. aborts' \in Nat
  BY <1>1
<1>9. /\ before' \in [safe : BOOLEAN, msgs : SUBSET Message]
      /\ interrupted' \in BOOLEAN /\ cancelled' \in BOOLEAN
  BY Blank
<1>3. TypeOK'
  BY <1>2, <1>8, <1>9 DEF IInv, TypeOK
<1>4. EngineInv'
  BY <1>1, <1>2 DEF IInv, EngineInv, FilesInv, Here, Of
<1>5. FilesInv' /\ TaskInv'
  BY DEF IInv, FilesInv, TaskInv
<1>6. PressInv'
  BY <1>1 DEF IInv, PressInv
<1>7. PlaceInv' /\ BeforeInv'
  BY DEF IInv, PlaceInv, BeforeInv, Active
<1> QED BY <1>3, <1>4, <1>5, <1>6, <1>7 DEF IInv

LEMMA TurnEndsKeeps ==
    ASSUME IInv, TurnEnds
    PROVE  IInv'
<1> USE DEF TurnEnds
<1>1. turn \in Turns /\ typed[turn] = current /\ turn \in 1 .. turn
  BY Bounds DEF IInv, PlaceInv, Active, Turns
<1>2. PICK m \in CompactedAtEnd(msgs), how \in Outcomes :
        /\ msgs' = m \cup {Answer} /\ Save(m \cup {Answer}, how)
        /\ excused' = excused \cup LossBy(how, msgs) \cup Dropped(msgs, m)
  OBVIOUS
<1>3. Answer \in Message
  BY <1>1 DEF Answer, Message, Parts
<1>4. m \in SUBSET Message /\ Of(m) \subseteq Of(msgs)
  BY CondensedKeeps DEF IInv, TypeOK, CompactedAtEnd
<1>5. msgs' \in SUBSET Message /\ Of(msgs') \subseteq Of(msgs) \cup {turn}
  BY <1>2, <1>3, <1>4 DEF Of, Answer
<1>6. Here(msgs', directory, turn, typed, origin)
  BY <1>1, <1>5 DEF IInv, EngineInv, PlaceInv, Here
<1>7. /\ disk' \in [Sessions -> File] /\ known' \in SUBSET Sessions /\ faults' \in 0 .. MaxFaults
      /\ \A s \in Sessions : disk'[s] = disk[s]
                             \/ (s = directory /\ disk'[s].msgs \subseteq msgs')
  <2>1. m \cup {Answer} \in SUBSET Message /\ TypeOK
    BY <1>3, <1>4 DEF IInv
  <2>2. how \in {"written", "failed", "torn"} /\ (how = "written" \/ faults < MaxFaults)
    BY OutcomesAllowed
  <2>3. Save(m \cup {Answer}, how)
    BY <1>2
  <2>4. /\ disk' \in [Sessions -> File] /\ known' \in SUBSET Sessions
        /\ faults' \in 0 .. MaxFaults
        /\ \A s \in Sessions : disk'[s] = disk[s]
                               \/ (s = directory /\ disk'[s].msgs \subseteq m \cup {Answer})
    BY ONLY <2>1, <2>2, <2>3, Saved
  <2> QED BY <2>4, <1>2
<1>8. LossBy(how, msgs) \subseteq Turns /\ Dropped(msgs, m) \subseteq Turns
  BY LossTyped, DroppedTyped DEF IInv, TypeOK
<1>9. TypeOK'
  BY <1>1, <1>2, <1>5, <1>7, <1>8 DEF IInv, TypeOK, NoCopy
<1>13. Here(msgs', directory, turn, typed, origin) /\ directory \in Sessions /\ turn \in Nat
      /\ \A t \in 1 .. turn : typed[t] \in Sessions
  BY <1>6, Bounds DEF IInv, PlaceInv, TypeOK
<1>10. FilesInv'
  BY <1>7, <1>13, FilesAfterSave DEF IInv
<1>11. EngineInv' /\ TaskInv'
  BY <1>6 DEF IInv, EngineInv, TaskInv
<1>12. PlaceInv' /\ PressInv' /\ BeforeInv'
  BY DEF IInv, PlaceInv, PressInv, BeforeInv, Active
<1> QED BY <1>9, <1>10, <1>11, <1>12 DEF IInv

LEMMA SubmitKeeps ==
    ASSUME IInv, Submit
    PROVE  IInv'
<1> USE DEF Submit
<1>1. /\ TypeOK /\ FilesInv /\ EngineInv /\ TaskInv /\ PlaceInv /\ PressInv
      /\ turn \in 0 .. MaxTurns /\ MaxTurns \in Nat /\ directory \in Sessions
      /\ current \in Sessions /\ typed \in [Turns -> Sessions \cup {None}]
      /\ origin' = origin /\ directory' = directory /\ current' = current
      /\ excused \subseteq Turns
  BY Bounds DEF IInv, TypeOK
<1>2. turn + 1 \in Turns /\ turn \in Nat /\ turn' = turn + 1
  BY <1>1 DEF Turns
<1>3. /\ typed' \in [Turns -> Sessions \cup {None}] /\ typed'[turn + 1] = current
      /\ \A t \in 1 .. turn : typed'[t] = typed[t] /\ typed[t] \in Sessions
  BY <1>1, <1>2 DEF PlaceInv, Turns
<1>4. PICK m \in PromptClosed, how \in Outcomes :
        /\ msgs' = m /\ Save(m, how)
        /\ before' = [safe |-> how = "written", msgs |-> m]
        /\ excused' = excused \cup LossBy(how, m) \cup DroppedBy(m)
  OBVIOUS
<1>5. m \in SUBSET Message /\ Here(m, directory, turn, typed, origin)
  BY <1>1, ClosedHere
<1>6. /\ disk' \in [Sessions -> File] /\ known' \in SUBSET Sessions
      /\ faults' \in 0 .. MaxFaults
      /\ \A s \in Sessions : disk'[s] = disk[s]
                             \/ (s = directory /\ disk'[s].msgs \subseteq m)
      /\ how = "written" => disk'[directory] = [state |-> "whole", msgs |-> m]
  BY <1>1, <1>4, <1>5, OutcomesAllowed, Saved
<1>7. FilesInv'
  BY <1>1, <1>2, <1>3, <1>5, <1>6, FilesAfterSave
<1>8. /\ before' \in [safe : BOOLEAN, msgs : SUBSET Message]
      /\ excused' \subseteq Turns /\ compaction' = NoTask
  BY <1>1, <1>4, <1>5, LossTyped
<1>9. TypeOK'
  BY <1>1, <1>2, <1>3, <1>4, <1>5, <1>6, <1>8, Blank DEF TypeOK, Turns
<1>10. EngineInv'
  <2>1. Here(m, directory, turn', typed', origin')
    BY <1>1, <1>2, <1>3, <1>5 DEF Here
  <2> QED BY <2>1, <1>1, <1>4 DEF EngineInv
<1>11. TaskInv'
  BY <1>8, Blank, NothingHere DEF TaskInv
<1>12. PlaceInv'
  BY <1>1, <1>2, <1>3 DEF PlaceInv, Turns
<1>13. PressInv'
  BY <1>1 DEF PressInv
<1>14. BeforeInv'
  <2>1. before'.msgs = m /\ (before'.safe => how = "written")
    BY <1>4
  <2>2. ASSUME before'.safe PROVE disk'[directory].state = "whole"
                                  /\ disk'[directory].msgs = m
    BY ONLY <2>1, <2>2, <1>6
  <2> QED BY ONLY <2>1, <2>2, <1>1 DEF BeforeInv
<1> QED BY <1>7, <1>9, <1>10, <1>11, <1>12, <1>13, <1>14 DEF IInv

LEMMA SwitchKeeps ==
    ASSUME IInv, NEW s \in Sessions, Switch(s)
    PROVE  IInv'
<1> USE DEF Switch
<1>1. /\ TypeOK /\ FilesInv /\ EngineInv /\ TaskInv /\ PlaceInv /\ PressInv
      /\ turn \in Nat /\ turn' = turn /\ directory \in Sessions
      /\ typed' = typed /\ origin' = origin /\ directory' = s /\ current' = s
      /\ excused \subseteq Turns
  BY Bounds DEF IInv, TypeOK
<1>2. \A t \in 1 .. turn : typed[t] \in Sessions
  BY <1>1 DEF PlaceInv
<1>3. PICK m \in PromptClosed, how \in Outcomes :
        /\ Save(m, how)
        /\ msgs' = Restored(disk', s)
        /\ excused' = excused \cup LossBy(how, m) \cup DroppedBy(m)
  OBVIOUS
<1>4. m \in SUBSET Message /\ Here(m, directory, turn, typed, origin)
  BY <1>1, ClosedHere
<1>5. /\ disk' \in [Sessions -> File] /\ known' \in SUBSET Sessions
      /\ faults' \in 0 .. MaxFaults
      /\ \A d \in Sessions : disk'[d] = disk[d]
                             \/ (d = directory /\ disk'[d].msgs \subseteq m)
  BY <1>1, <1>3, <1>4, OutcomesAllowed, Saved
<1>6. FilesInv'
  BY <1>1, <1>2, <1>4, <1>5, FilesAfterSave
<1>7. msgs' \in SUBSET Message /\ msgs' \subseteq disk'[s].msgs
  BY <1>3, <1>5, RestoredFromFile
<1>8. excused' \subseteq Turns /\ compaction' = NoTask
  BY <1>1, <1>3, <1>4, LossTyped
<1>9. TypeOK'
  BY <1>1, <1>5, <1>7, <1>8, Blank DEF TypeOK
<1>10. EngineInv'
  <2>1. Here(disk'[s].msgs, s, turn', typed', origin') /\ Of(msgs') \subseteq Of(disk'[s].msgs)
    BY <1>6, <1>7 DEF FilesInv, Of
  <2> QED BY <2>1, <1>1 DEF EngineInv, Here
<1>11. TaskInv'
  BY <1>8, Blank, NothingHere DEF TaskInv
<1>12. PlaceInv' /\ BeforeInv'
  BY <1>1 DEF PlaceInv, BeforeInv, Active
<1>13. PressInv'
  BY <1>1 DEF PressInv
<1> QED BY <1>6, <1>9, <1>10, <1>11, <1>12, <1>13 DEF IInv

LEMMA NewSessionKeeps ==
    ASSUME IInv, NEW byKey \in BOOLEAN, NewSession(byKey)
    PROVE  IInv'
<1> USE DEF NewSession
<1>1. /\ TypeOK /\ FilesInv /\ TaskInv /\ PlaceInv /\ PressInv
      /\ turn \in Nat /\ turn' = turn /\ directory \in Sessions
      /\ typed' = typed /\ directory' = directory /\ disk' = disk /\ msgs' = {}
      /\ origin \in [Sessions -> Sessions \cup {None}]
      /\ known \subseteq Sessions
  BY Bounds DEF IInv, TypeOK
<1>2. \A t \in 1 .. turn : typed[t] \in Sessions
  BY <1>1 DEF PlaceInv
<1>3. PICK s \in Sessions :
        /\ origin[s] = None /\ current' = s
        /\ known' = known \cup {s} /\ origin' = [origin EXCEPT ![s] = directory]
  OBVIOUS
<1>4. /\ origin' \in [Sessions -> Sessions \cup {None}] /\ origin'[s] = directory
      /\ \A q \in Sessions : origin'[q] = origin[q] \/ origin[q] = None
  BY <1>1, <1>3
<1>5. FilesInv'
  <2> SUFFICES ASSUME NEW d \in Sessions PROVE Here(disk[d].msgs, d, turn, typed, origin')
    BY <1>1 DEF FilesInv
  <2>1. Here(disk[d].msgs, d, turn, typed, origin)
    BY <1>1 DEF FilesInv
  <2> QED BY <2>1, <1>2, <1>4, NoneIsNoSession DEF Here
<1>6. EngineInv'
  BY <1>1, NothingHere DEF EngineInv
<1>7. compaction' = compaction \/ compaction' = NoTask
  OBVIOUS
<1>8. TaskInv'
  <2>1. CASE compaction' = compaction
    <3>1. Here(compaction.read, directory, turn, typed, origin')
      BY <1>1, <1>2, <1>4, NoneIsNoSession DEF TaskInv, Here
    <3> QED BY <2>1, <3>1, <1>1 DEF TaskInv
  <2>2. CASE compaction' = NoTask
    <3>1. compaction'.read = {}
      BY <2>2, Blank
    <3> QED BY ONLY <3>1, NothingHere DEF TaskInv
  <2> QED BY <2>1, <2>2, <1>7
<1>9. excused' \subseteq Turns
  <2>1. msgs \subseteq Message /\ excused \subseteq Turns
    BY <1>1 DEF TypeOK
  <2>2. excused' \subseteq excused \cup LossBy("torn", msgs)
    BY DEF LossBy
  <2> QED BY <2>1, <2>2, <1>1, LossTyped
<1>10. compaction' \in [running : BOOLEAN, read : SUBSET Message]
  BY <1>1, <1>7, Blank DEF TypeOK
<1>11. TypeOK'
  BY <1>1, <1>3, <1>4, <1>9, <1>10 DEF TypeOK
<1>12. PlaceInv' /\ BeforeInv'
  BY <1>1, <1>2, <1>3, <1>4 DEF PlaceInv, BeforeInv, Active
<1>13. PressInv'
  BY <1>1 DEF PressInv
<1> QED BY <1>5, <1>6, <1>8, <1>11, <1>12, <1>13 DEF IInv

LEMMA DeleteKeeps ==
    ASSUME IInv, NEW s \in Sessions, Delete(s)
    PROVE  IInv'
<1> USE DEF Delete
<1>1. /\ TypeOK /\ FilesInv /\ EngineInv /\ TaskInv /\ PlaceInv /\ PressInv
      /\ turn' = turn /\ directory' = directory /\ current' = current
      /\ typed' = typed /\ origin' = origin
      /\ disk \in [Sessions -> File] /\ known \subseteq Sessions
      /\ excused \subseteq Turns
  BY DEF IInv, TypeOK
<1>2. PICK m \in PromptClosed :
        msgs' = m /\ excused' = excused \cup Of(disk[s].msgs) \cup DroppedBy(m)
  OBVIOUS
<1>3. m \in SUBSET Message /\ Here(m, directory, turn, typed, origin)
  BY <1>1, ClosedHere
<1>4. /\ disk' \in [Sessions -> File]
      /\ \A d \in Sessions : disk'[d] = disk[d] \/ disk'[d].msgs = {}
  BY <1>1, Blank
<1>5. FilesInv'
  <2> SUFFICES ASSUME NEW d \in Sessions PROVE Here(disk'[d].msgs, d, turn, typed, origin)
    BY <1>1 DEF FilesInv
  <2>1. Here(disk[d].msgs, d, turn, typed, origin)
    BY <1>1 DEF FilesInv
  <2> QED BY ONLY <2>1, <1>4, NothingHere
<1>6. EngineInv'
  BY <1>1, <1>2, <1>3 DEF EngineInv
<1>7. TaskInv' /\ compaction' \in [running : BOOLEAN, read : SUBSET Message]
  BY Blank, NothingHere DEF TaskInv
<1>8. excused' \subseteq Turns
  <2>1. disk[s].msgs \subseteq Message
    BY <1>1 DEF File
  <2>2. \A e \in Message : e.turn \in Turns
    BY DEF Message
  <2>3. Of(disk[s].msgs) \subseteq Turns
    BY <2>1, <2>2 DEF Of
  <2>4. DroppedBy(m) \subseteq Turns
    BY <1>1, <1>3, LossTyped
  <2> QED BY ONLY <2>3, <2>4, <1>1, <1>2
<1>9. TypeOK'
  BY <1>1, <1>2, <1>3, <1>4, <1>7, <1>8 DEF TypeOK
<1>10. PlaceInv' /\ BeforeInv'
  BY <1>1 DEF PlaceInv, BeforeInv, Active
<1>11. PressInv'
  BY <1>1 DEF PressInv
<1> QED BY <1>5, <1>6, <1>7, <1>9, <1>10, <1>11 DEF IInv

LEMMA SaveNowKeeps ==
    ASSUME IInv, NEW byKey \in BOOLEAN, SaveNow(byKey)
    PROVE  IInv'
<1> USE DEF SaveNow
<1>1. /\ TypeOK /\ FilesInv /\ EngineInv /\ TaskInv /\ PlaceInv /\ PressInv
      /\ turn \in Nat /\ turn' = turn /\ directory \in Sessions
      /\ typed' = typed /\ origin' = origin /\ directory' = directory
      /\ current' = current /\ excused \subseteq Turns
  BY Bounds DEF IInv, TypeOK
<1>2. \A t \in 1 .. turn : typed[t] \in Sessions
  BY <1>1 DEF PlaceInv
<1>3. PICK m \in {msgs} \cup PromptClosed, how \in Outcomes :
        /\ msgs' = m /\ Save(m, how) /\ excused' = excused \cup LossBy(how, m) \cup DroppedBy(m)
  OBVIOUS
<1>4. m \in SUBSET Message /\ Here(m, directory, turn, typed, origin)
  <2>1. m \in PromptClosed
    BY DEF PromptClosed
  <2> QED BY ONLY <2>1, <1>1, ClosedHere
<1>5. /\ disk' \in [Sessions -> File] /\ known' \in SUBSET Sessions
      /\ faults' \in 0 .. MaxFaults
      /\ \A d \in Sessions : disk'[d] = disk[d]
                             \/ (d = directory /\ disk'[d].msgs \subseteq m)
  BY <1>1, <1>3, <1>4, OutcomesAllowed, Saved
<1>6. FilesInv'
  BY <1>1, <1>2, <1>4, <1>5, FilesAfterSave
<1>7. excused' \subseteq Turns
  BY <1>1, <1>3, <1>4, LossTyped
<1>8. compaction' = compaction \/ compaction' = NoTask
  OBVIOUS
<1>9. TaskInv' /\ compaction' \in [running : BOOLEAN, read : SUBSET Message]
  <2>1. CASE compaction' = compaction
    BY <2>1, <1>1 DEF TaskInv, TypeOK
  <2>2. CASE compaction' = NoTask
    <3>1. compaction'.read = {}
      BY <2>2, Blank
    <3>2. TaskInv'
      BY ONLY <3>1, NothingHere DEF TaskInv
    <3> QED BY <2>2, <3>2, Blank
  <2> QED BY <2>1, <2>2, <1>8
<1>10. TypeOK'
  BY <1>1, <1>3, <1>4, <1>5, <1>7, <1>9 DEF TypeOK
<1>11. EngineInv'
  BY <1>1, <1>3, <1>4 DEF EngineInv
<1>12. PlaceInv' /\ BeforeInv'
  BY <1>1 DEF PlaceInv, BeforeInv, Active
<1>13. PressInv'
  BY <1>1 DEF PressInv
<1> QED BY <1>6, <1>9, <1>10, <1>11, <1>12, <1>13 DEF IInv

\* Steps that leave the files, the turns and the sessions alone, and change the
\* messages at most to what a compaction makes of them.
LEMMA CompactionKeeps ==
    ASSUME IInv, CompactKey \/ CompactionEnds \/ ClearLine \/ Command \/ CommandEnds
    PROVE  IInv'
<1> USE DEF CompactKey, CompactionEnds, ClearLine, Command, CommandEnds, conversation, history
<1>1. /\ TypeOK /\ FilesInv /\ EngineInv /\ TaskInv /\ PlaceInv /\ PressInv
      /\ turn' = turn /\ typed' = typed /\ origin' = origin /\ directory' = directory
      /\ current' = current /\ disk' = disk
      /\ UNCHANGED <<known, interrupted, cancelled, faults, starts, answered, before, presses,
                     aborts>>
  BY DEF IInv
<1>2. place' \in {"prompt", "command"}
  OBVIOUS
<1>3. /\ msgs' \in {msgs, Condensed(msgs, ForcedRecent)}
                    \cup {Condensed(compaction.read, ForcedRecent)}
      /\ \/ excused' = excused
         \/ excused' = excused \cup DroppedBy(msgs')
         \/ excused' = excused \cup Dropped(msgs, msgs')
  BY DEF PromptClosed
<1>4. \/ compaction' \in {compaction, NoTask}
      \/ compaction' = [running |-> TRUE, read |-> msgs]
  OBVIOUS
<1>5. /\ msgs' \in SUBSET Message
      /\ Of(msgs') \subseteq Of(msgs) \/ Of(msgs') \subseteq Of(compaction.read)
      /\ excused' \subseteq Turns
  <2>1. msgs \in SUBSET Message /\ compaction.read \in SUBSET Message
    BY <1>1 DEF TypeOK
  <2>2. /\ msgs' \in SUBSET Message
        /\ Of(msgs') \subseteq Of(msgs) \/ Of(msgs') \subseteq Of(compaction.read)
    BY ONLY <2>1, <1>3, CondensedKeeps
  <2>3. DroppedBy(msgs') \subseteq Turns /\ Dropped(msgs, msgs') \subseteq Turns
    BY ONLY <2>1, DroppedTyped DEF DroppedBy
  <2>4. excused \subseteq Turns
    BY ONLY <1>1 DEF TypeOK
  <2> QED BY ONLY <2>2, <2>3, <2>4, <1>3
<1>6. EngineInv'
  BY ONLY <1>1, <1>5 DEF EngineInv, TaskInv, Here
<1>7. TaskInv' /\ compaction' \in [running : BOOLEAN, read : SUBSET Message]
  <2>1. CASE compaction' = compaction
    BY ONLY <2>1, <1>1 DEF TaskInv, TypeOK
  <2>2. CASE compaction' = NoTask
    <3>1. compaction'.read = {}
      BY ONLY <2>2, Blank
    <3>2. TaskInv'
      BY ONLY <3>1, NothingHere DEF TaskInv
    <3> QED BY ONLY <2>2, <3>2, Blank
  <2>3. CASE compaction' = [running |-> TRUE, read |-> msgs]
    BY ONLY <2>3, <1>1 DEF TaskInv, EngineInv, TypeOK
  <2> QED BY ONLY <2>1, <2>2, <2>3, <1>4
<1>8. TypeOK'
  BY ONLY <1>1, <1>2, <1>5, <1>7 DEF TypeOK
<1>9. FilesInv'
  BY ONLY <1>1 DEF FilesInv
<1>10. PlaceInv' /\ BeforeInv'
  BY ONLY <1>1, <1>2 DEF PlaceInv, BeforeInv, Active
<1>11. PressInv'
  BY ONLY <1>1 DEF PressInv
<1> QED BY ONLY <1>6, <1>7, <1>8, <1>9, <1>10, <1>11 DEF IInv

LEMMA RestartKeeps ==
    ASSUME IInv, Restart
    PROVE  IInv'
<1> USE DEF Restart, history
<1>1. /\ TypeOK /\ FilesInv /\ PlaceInv /\ PressInv
      /\ turn \in Nat /\ turn' = turn /\ typed' = typed /\ disk' = disk
      /\ origin \in [Sessions -> Sessions \cup {None}]
      /\ known \subseteq Sessions /\ starts' \in 0 .. MaxStarts
      /\ \A t \in 1 .. turn : typed[t] \in Sessions
  BY Bounds DEF IInv, TypeOK, PlaceInv
<1>2. PICK s \in Sessions :
        /\ origin[s] = None /\ current' = s /\ directory' = s
        /\ known' = known \cup {s} /\ origin' = [origin EXCEPT ![s] = s]
  OBVIOUS
<1>3. /\ origin' \in [Sessions -> Sessions \cup {None}]
      /\ \A q \in Sessions : origin'[q] = origin[q] \/ origin[q] = None
  BY <1>1, <1>2
<1>4. FilesInv'
  <2> SUFFICES ASSUME NEW d \in Sessions PROVE Here(disk[d].msgs, d, turn, typed, origin')
    BY <1>1 DEF FilesInv
  <2>1. Here(disk[d].msgs, d, turn, typed, origin)
    BY <1>1 DEF FilesInv
  <2> QED BY <2>1, <1>1, <1>3, NoneIsNoSession DEF Here
<1>5. EngineInv' /\ TaskInv'
  <2>1. msgs' = {} /\ compaction'.read = {}
    BY Blank
  <2> QED BY ONLY <2>1, NothingHere DEF EngineInv, TaskInv
<1>9. /\ place' = "prompt" /\ msgs' = {} /\ compaction' = NoTask
      /\ interrupted' \in BOOLEAN /\ cancelled' \in BOOLEAN
      /\ UNCHANGED <<disk, turn, faults, typed, answered, excused, before, presses, aborts>>
      /\ current' \in Sessions /\ directory' \in Sessions /\ known' \subseteq Sessions
  BY <1>1, <1>2
<1>6. TypeOK'
  BY ONLY <1>1, <1>3, <1>9, Blank DEF TypeOK
<1>7. PlaceInv' /\ BeforeInv'
  BY <1>1, <1>2 DEF PlaceInv, BeforeInv, Active
<1>8. PressInv'
  BY <1>1 DEF PressInv
<1> QED BY <1>4, <1>5, <1>6, <1>7, <1>8 DEF IInv

LEMMA StopsKeeps ==
    ASSUME IInv, Ends \/ EndsInSave
    PROVE  IInv'
<1> USE DEF Ends, EndsInSave, Stops
<1>1. /\ TypeOK /\ FilesInv /\ EngineInv /\ PlaceInv /\ PressInv
      /\ turn \in Nat /\ turn' = turn /\ directory \in Sessions
      /\ typed' = typed /\ origin' = origin /\ directory' = directory
      /\ current' = current /\ place' = "down" /\ msgs' = {} /\ compaction' = NoTask
      /\ msgs \in SUBSET Message
      /\ UNCHANGED <<interrupted, cancelled, starts, answered, before, presses, aborts>>
  BY Bounds DEF IInv, TypeOK
<1>2. \A t \in 1 .. turn : typed[t] \in Sessions
  BY <1>1 DEF PlaceInv
<1>3. /\ disk' \in [Sessions -> File] /\ known' \in SUBSET Sessions
      /\ faults' \in 0 .. MaxFaults /\ excused' \subseteq Turns
      /\ \A d \in Sessions : disk'[d] = disk[d]
                             \/ (d = directory /\ disk'[d].msgs \subseteq msgs)
  <2>1. CASE Ends
    BY <2>1, <1>1 DEF TypeOK
  <2>2. CASE EndsInSave
    <3>1. faults < MaxFaults /\ Save(msgs, "torn") /\ excused' = excused \cup LossBy("torn", msgs)
      BY <2>2
    <3>2. /\ disk' \in [Sessions -> File] /\ known' \in SUBSET Sessions
          /\ faults' \in 0 .. MaxFaults
          /\ \A d \in Sessions : disk'[d] = disk[d]
                                 \/ (d = directory /\ disk'[d].msgs \subseteq msgs)
      BY ONLY <3>1, <1>1, Saved
    <3>3. excused' \subseteq Turns
      BY ONLY <3>1, <1>1, LossTyped DEF TypeOK
    <3> QED BY ONLY <3>2, <3>3
  <2> QED BY <2>1, <2>2
<1>4. Here(msgs, directory, turn, typed, origin)
  BY <1>1 DEF EngineInv
<1>5. FilesInv'
  BY ONLY <1>1, <1>2, <1>3, <1>4, FilesAfterSave
<1>6. EngineInv' /\ TaskInv'
  <2>1. msgs' = {} /\ compaction'.read = {}
    BY <1>1, Blank
  <2> QED BY ONLY <2>1, NothingHere DEF EngineInv, TaskInv
<1>7. TypeOK'
  BY ONLY <1>1, <1>3, Blank DEF TypeOK
<1>8. PlaceInv' /\ BeforeInv'
  BY ONLY <1>1 DEF PlaceInv, BeforeInv, Active
<1>9. PressInv'
  BY ONLY <1>1 DEF PressInv
<1> QED BY ONLY <1>1, <1>5, <1>6, <1>7, <1>8, <1>9 DEF IInv

LEMMA StepOK == IInv /\ [Next]_vars => IInv'
<1> SUFFICES ASSUME IInv, [Next]_vars PROVE IInv'
  OBVIOUS
<1>1. CASE Restart \/ Ends \/ EndsInSave
  BY <1>1, RestartKeeps, StopsKeeps
<1>2. CASE Submit
  BY <1>2, SubmitKeeps
<1>3. CASE CompactKey \/ CompactionEnds \/ ClearLine \/ Command \/ CommandEnds
  BY <1>3, CompactionKeeps
<1>4. CASE \E s \in Sessions : Switch(s) \/ Delete(s)
  BY <1>4, SwitchKeeps, DeleteKeeps
<1>5. CASE \E byKey \in BOOLEAN : NewSession(byKey) \/ SaveNow(byKey)
  BY <1>5, NewSessionKeeps, SaveNowKeeps
<1>6. CASE HooksEnd \/ Goes \/ Asks \/ IsAnswered \/ BatchEnds
  BY <1>6, QuietKeeps
<1>7. CASE Begins
  BY <1>7, BeginsKeeps
<1>8. CASE Press
  BY <1>8, PressKeeps
<1>9. CASE Abort
  BY <1>9, AbortKeeps
<1>10. CASE TurnEnds
  BY <1>10, TurnEndsKeeps
<1>11. CASE TurnFails
  BY <1>11, FailsKeeps
<1>12. CASE UNCHANGED vars
  <2>1. TypeOK'
    BY <1>12 DEF vars, conversation, history, IInv, TypeOK
  <2>2. FilesInv' /\ EngineInv' /\ TaskInv'
    BY <1>12 DEF vars, conversation, history, IInv, FilesInv, EngineInv, TaskInv
  <2>3. PlaceInv' /\ PressInv' /\ BeforeInv'
    BY <1>12 DEF vars, conversation, history, IInv, PlaceInv, PressInv, BeforeInv
  <2> QED BY <2>1, <2>2, <2>3 DEF IInv
<1> QED BY <1>1, <1>2, <1>3, <1>4, <1>5, <1>6, <1>7, <1>8, <1>9, <1>10, <1>11, <1>12 DEF Next

LEMMA Inductive == Spec => []IInv
  BY InitOK, StepOK, PTL DEF Spec

-----------------------------------------------------------------------------
(* That no answered turn is lost.                                          *)

\* The answered turns whose loss nothing excuses.
Owed == answered \ excused

\* They are in the files, one session or another.
FilesKeep == \A t \in Owed : \E s \in Sessions : t \in Answers(disk[s].msgs)

\* Messages that may take the place of those in the engine's file.
Covers(m) == Owed \cap Answers(disk[directory].msgs) \subseteq Answers(m)

\* The engine has what its file has, and a compaction that waits has what both have.
EngineKeeps ==
    /\ place # "down" => Covers(msgs)
    /\ compaction.running =>
         /\ place = "prompt"
         /\ Owed \cap (Answers(disk[directory].msgs) \cup Answers(msgs))
              \subseteq Answers(compaction.read)

\* A file that cannot be read has nothing, nor has that of a session not begun; the
\* engine works in the directory of a session that was, and so are those in the list.
FilesShape ==
    /\ \A s \in Sessions : disk[s].state # "whole" \/ origin[s] = None => disk[s].msgs = {}
    /\ \A s \in known \cup {directory} : origin[s] # None

\* Past its beginning the turn's question is in the engine.
QuestionAsked ==
    place \in Active \ {"created"} => turn \in Of(msgs)

KInv == FilesKeep /\ EngineKeeps /\ FilesShape /\ QuestionAsked

LEMMA AnswersAreOf ==
    ASSUME NEW m
    PROVE  Answers(m) \subseteq Of(m)
  BY DEF Answers, Of

LEMMA NoAnswers == Answers({}) = {} /\ Of({}) = {}
  BY DEF Answers, Of

\* The messages at the end of the prompt have what the file has, but for what the
\* compaction dropped.
LEMMA ClosedCovers ==
    ASSUME EngineKeeps, place # "down", NEW m \in PromptClosed,
           NEW owed, owed \subseteq Owed \ DroppedBy(m)
    PROVE  owed \cap Answers(disk[directory].msgs) \subseteq Answers(m)
<1>1. CASE m = msgs
  BY <1>1 DEF EngineKeeps, Covers
<1>2. CASE compaction.running
  BY <1>2 DEF EngineKeeps, DroppedBy, Dropped
<1> QED BY <1>1, <1>2 DEF PromptClosed

\* A save of messages that have what the file has.
LEMMA SaveKeepsAnswers ==
    ASSUME TypeOK, FilesKeep, FilesShape, NEW m,
           Owed' \cap Answers(disk[directory].msgs) \subseteq Answers(m),
           NEW how \in {"written", "failed", "torn"}, Save(m, how),
           how = "written" => \A t \in Owed' : t \in Owed \/ t \in Answers(m),
           how # "written" => \A t \in Owed' : t \in Owed /\ t \notin Of(disk[directory].msgs),
           origin' = origin
    PROVE  /\ FilesKeep'
           /\ \A s \in known' \cup {directory} : origin[s] # None
           /\ \A s \in Sessions : disk'[s].state # "whole" \/ origin[s] = None => disk'[s].msgs = {}
           /\ Owed' \cap Answers(disk'[directory].msgs) \subseteq Answers(m)
<1>1. /\ disk \in [Sessions -> File] /\ directory \in Sessions
      /\ disk[directory].msgs \in SUBSET Message
  BY DEF TypeOK, File
<1>2. \A s \in known' \cup {directory} : origin[s] # None
  BY DEF Save, FilesShape
<1>3. CASE how = "written"
  <2>1. /\ disk' = [disk EXCEPT ![directory] = [state |-> "whole", msgs |-> m]]
        /\ \A t \in Owed' : t \in Owed \/ t \in Answers(m)
    BY <1>3 DEF Save
  <2>2. disk'[directory].msgs = m /\ disk'[directory].state = "whole"
        /\ \A s \in Sessions \ {directory} : disk'[s] = disk[s]
    BY <1>1, <2>1
  <2>3. ASSUME NEW t \in Owed' PROVE \E s \in Sessions : t \in Answers(disk'[s].msgs)
    <3>1. CASE t \in Answers(m)
      BY <3>1, <2>2, <1>1
    <3>2. CASE t \in Owed
      <4>1. PICK s \in Sessions : t \in Answers(disk[s].msgs)
        BY <3>2 DEF FilesKeep
      <4>2. CASE s = directory
        BY <4>1, <4>2, <2>2, <1>1
      <4>3. CASE s # directory
        BY <4>1, <4>3, <2>2
      <4> QED BY <4>2, <4>3
    <3> QED BY <3>1, <3>2, <2>1
  <2> QED BY <2>2, <2>3, <1>2 DEF FilesKeep, FilesShape
<1>4. CASE how = "torn"
  <2>1. /\ disk' = [disk EXCEPT ![directory] = [state |-> "torn", msgs |-> {}]]
        /\ \A t \in Owed' : t \in Owed /\ t \notin Answers(disk[directory].msgs)
    BY <1>1, <1>4, AnswersAreOf DEF Save
  <2>2. disk'[directory].msgs = {} /\ \A s \in Sessions \ {directory} : disk'[s] = disk[s]
    BY <1>1, <2>1
  <2>3. FilesKeep'
    BY <2>1, <2>2 DEF FilesKeep
  <2> QED BY <2>2, <2>3, <1>2, NoAnswers DEF FilesShape
<1>5. CASE how = "failed"
  <2>1. disk' = disk /\ \A t \in Owed' : t \in Owed /\ t \notin Answers(disk[directory].msgs)
    BY <1>1, <1>5, AnswersAreOf DEF Save
  <2>2. FilesKeep'
    BY <2>1 DEF FilesKeep
  <2> QED BY <2>1, <2>2, <1>2 DEF FilesShape
<1> QED BY <1>3, <1>4, <1>5

LEMMA InitKeeps == Init => KInv
<1> SUFFICES ASSUME Init PROVE KInv
  OBVIOUS
<1>1. FilesKeep /\ EngineKeeps
  BY DEF Init, FilesKeep, EngineKeeps, Covers, Owed, NoTask
<1>2. FilesShape
  BY NoneIsNoSession, Blank DEF Init, FilesShape
<1>3. QuestionAsked
  BY DEF Init, QuestionAsked, Active
<1> QED BY <1>1, <1>2, <1>3 DEF KInv

\* Steps that change neither files nor messages.
LEMMA QuietKeepsAnswers ==
    ASSUME KInv, HooksEnd \/ Goes \/ Asks \/ IsAnswered \/ BatchEnds \/ Press \/ TurnFails
                 \/ UNCHANGED vars
    PROVE  KInv'
<1>1. UNCHANGED <<conversation, compaction, turn, answered, excused>>
  BY DEF HooksEnd, Goes, Asks, IsAnswered, BatchEnds, Press, TurnFails, Elsewhere, history, vars
<1>2. /\ place' # "down" => place # "down"
      /\ place = "prompt" => place' = "prompt"
  BY DEF HooksEnd, Goes, Asks, IsAnswered, BatchEnds, Press, TurnFails, vars
<1>3. place' \in Active \ {"created"} => place \in Active \ {"created"}
  BY DEF HooksEnd, Goes, Asks, IsAnswered, BatchEnds, Press, TurnFails, vars, Active
<1>4. UNCHANGED <<msgs, disk, directory, known, origin, compaction, turn, answered, excused>>
  BY <1>1 DEF conversation
<1>5. FilesKeep' /\ FilesShape'
  BY ONLY <1>4, KInv DEF KInv, FilesKeep, FilesShape, Owed
<1>6. EngineKeeps'
  BY ONLY <1>4, <1>2, KInv DEF KInv, EngineKeeps, Covers, Owed
<1>7. QuestionAsked'
  BY ONLY <1>4, <1>3, KInv DEF KInv, QuestionAsked
<1> QED BY <1>5, <1>6, <1>7 DEF KInv

LEMMA BeginsKeepsAnswers ==
    ASSUME KInv, Begins
    PROVE  KInv'
<1> USE DEF Begins, history
<1>1. Answers(msgs) \subseteq Answers(msgs') /\ Of(msgs) \subseteq Of(msgs')
  BY DEF Answers, Of
<1>2. turn \in Of(msgs')
  <2>1. Question \in msgs' /\ Question.turn = turn
    BY DEF Question
  <2> QED BY ONLY <2>1 DEF Of
<1>3. FilesKeep' /\ FilesShape'
  BY DEF KInv, FilesKeep, FilesShape, Owed
<1>4. EngineKeeps'
  BY <1>1 DEF KInv, EngineKeeps, Covers, Owed
<1>5. QuestionAsked'
  BY <1>2 DEF QuestionAsked
<1> QED BY <1>3, <1>4, <1>5 DEF KInv

\* The end of a turn, an interruption, a start and a stop put the messages of the file
\* in their place or none.
LEMMA AbortKeepsAnswers ==
    ASSUME IInv, KInv, Abort
    PROVE  KInv'
<1> USE DEF Abort
<1>1. disk \in [Sessions -> File] /\ directory \in Sessions
  BY DEF IInv, TypeOK
<1>2. msgs' = disk[directory].msgs
  BY <1>1 DEF Restored, KInv, FilesShape
<1>3. FilesKeep' /\ FilesShape'
  BY DEF KInv, FilesKeep, FilesShape, Owed
<1>4. EngineKeeps'
  BY <1>2 DEF KInv, EngineKeeps, Covers, Owed
<1>5. QuestionAsked'
  BY DEF QuestionAsked, Active
<1> QED BY <1>3, <1>4, <1>5 DEF KInv

LEMMA RestartKeepsAnswers ==
    ASSUME IInv, KInv, Restart
    PROVE  KInv'
<1> USE DEF Restart, history
<1>1. PICK s \in Sessions :
        /\ origin[s] = None /\ current' = s /\ directory' = s
        /\ known' = known \cup {s} /\ origin' = [origin EXCEPT ![s] = s]
  OBVIOUS
<1>2. origin \in [Sessions -> Sessions \cup {None}] /\ known \subseteq Sessions
  BY DEF IInv, TypeOK
<1>3. disk[s].msgs = {} /\ disk' = disk
  BY <1>1 DEF KInv, FilesShape
<1>4. FilesKeep'
  BY DEF KInv, FilesKeep, Owed
<1>5. FilesShape'
  BY <1>1, <1>2, NoneIsNoSession DEF KInv, FilesShape
<1>6. EngineKeeps'
  BY <1>1, <1>3, NoAnswers DEF EngineKeeps, Covers, Owed, NoTask
<1>7. QuestionAsked'
  BY DEF QuestionAsked, Active
<1> QED BY <1>4, <1>5, <1>6, <1>7 DEF KInv

LEMMA StopsKeepAnswers ==
    ASSUME IInv, KInv, Ends \/ EndsInSave
    PROVE  KInv'
<1> USE DEF Ends, EndsInSave, Stops
<1>1. /\ place' = "down" /\ compaction' = NoTask /\ origin' = origin
      /\ directory' = directory
  OBVIOUS
<1>2. EngineKeeps' /\ QuestionAsked'
  BY <1>1 DEF EngineKeeps, QuestionAsked, NoTask, Active
<1>3. CASE Ends
  BY <1>3, <1>2 DEF KInv, FilesKeep, FilesShape, Owed
<1>4. CASE EndsInSave
  <2>1. /\ TypeOK /\ FilesKeep /\ FilesShape /\ Covers(msgs) /\ msgs \in SUBSET Message
        /\ Save(msgs, "torn") /\ origin' = origin
    BY <1>4 DEF IInv, TypeOK, KInv, EngineKeeps
  <2>2. \A t \in Owed' : t \in Owed /\ t \notin Of(disk[directory].msgs)
    BY <1>4 DEF Owed, LossBy
  <2>3. /\ FilesKeep'
        /\ \A s \in known' \cup {directory} : origin[s] # None
        /\ \A s \in Sessions : disk'[s].state # "whole" \/ origin[s] = None => disk'[s].msgs = {}
    BY ONLY <2>1, <2>2, SaveKeepsAnswers DEF Covers
  <2>4. FilesShape'
    BY ONLY <2>3, <1>1 DEF FilesShape
  <2> QED BY ONLY <2>3, <2>4, <1>2 DEF KInv
<1> QED BY <1>3, <1>4

\* A save at the prompt of what it is closed with, as Submit, Switch and SaveNow do it.
LEMMA SavedAtPrompt ==
    ASSUME IInv, KInv, place = "prompt", NEW m \in PromptClosed, NEW how \in Outcomes,
           Save(m, how), answered' = answered, origin' = origin,
           excused' = excused \cup LossBy(how, m) \cup DroppedBy(m)
    PROVE  /\ FilesKeep'
           /\ \A s \in known' \cup {directory} : origin[s] # None
           /\ \A s \in Sessions : disk'[s].state # "whole" \/ origin[s] = None => disk'[s].msgs = {}
           /\ Owed' \cap Answers(disk'[directory].msgs) \subseteq Answers(m)
<1>1. TypeOK /\ FilesKeep /\ FilesShape /\ EngineKeeps
  BY DEF IInv, KInv
<1>2. Owed' \cap Answers(disk[directory].msgs) \subseteq Answers(m)
  <2>1. Owed' \subseteq Owed \ DroppedBy(m) /\ place # "down"
    BY DEF Owed
  <2> QED BY ONLY <2>1, <1>1, m \in PromptClosed, ClosedCovers
<1>3. how \in {"written", "failed", "torn"}
  BY OutcomesAllowed
<1>4. /\ how = "written" => \A t \in Owed' : t \in Owed \/ t \in Answers(m)
      /\ how # "written" => \A t \in Owed' : t \in Owed /\ t \notin Of(disk[directory].msgs)
  BY DEF Owed, LossBy
<1> QED BY ONLY <1>1, <1>2, <1>3, <1>4, Save(m, how), origin' = origin, SaveKeepsAnswers

LEMMA SubmitKeepsAnswers ==
    ASSUME IInv, KInv, Submit
    PROVE  KInv'
<1> USE DEF Submit
<1>1. PICK m \in PromptClosed, how \in Outcomes :
        /\ msgs' = m /\ Save(m, how) /\ excused' = excused \cup LossBy(how, m) \cup DroppedBy(m)
  OBVIOUS
<1>2. /\ place = "prompt" /\ place' = "created" /\ compaction' = NoTask
      /\ answered' = answered /\ origin' = origin /\ directory' = directory
  OBVIOUS
<1>3. /\ FilesKeep'
      /\ \A s \in known' \cup {directory} : origin[s] # None
      /\ \A s \in Sessions : disk'[s].state # "whole" \/ origin[s] = None => disk'[s].msgs = {}
      /\ Owed' \cap Answers(disk'[directory].msgs) \subseteq Answers(m)
  BY ONLY IInv, KInv, <1>1, <1>2, SavedAtPrompt
<1>4. FilesShape'
  BY ONLY <1>2, <1>3 DEF FilesShape
<1>5. EngineKeeps'
  BY ONLY <1>1, <1>2, <1>3 DEF EngineKeeps, Covers, NoTask
<1>6. QuestionAsked'
  BY ONLY <1>2 DEF QuestionAsked
<1> QED BY ONLY <1>3, <1>4, <1>5, <1>6 DEF KInv

LEMMA SwitchKeepsAnswers ==
    ASSUME IInv, KInv, NEW s \in Sessions, Switch(s)
    PROVE  KInv'
<1> USE DEF Switch
<1>1. PICK m \in PromptClosed, how \in Outcomes :
        /\ Save(m, how) /\ msgs' = Restored(disk', s) /\ excused' = excused \cup LossBy(how, m) \cup DroppedBy(m)
  OBVIOUS
<1>2. /\ place = "prompt" /\ place' = "prompt" /\ compaction' = NoTask
      /\ answered' = answered /\ origin' = origin /\ directory' = s
      /\ origin[s] # None
  BY DEF KInv, FilesShape, Others, Listed
<1>3. /\ FilesKeep'
      /\ \A d \in known' \cup {directory} : origin[d] # None
      /\ \A d \in Sessions : disk'[d].state # "whole" \/ origin[d] = None => disk'[d].msgs = {}
  BY ONLY IInv, KInv, <1>1, <1>2, SavedAtPrompt
<1>4. FilesShape'
  BY ONLY <1>2, <1>3 DEF FilesShape
<1>5. msgs' = disk'[s].msgs
  BY ONLY <1>1, <1>3, s \in Sessions DEF Restored
<1>6. EngineKeeps'
  BY ONLY <1>2, <1>5 DEF EngineKeeps, Covers, NoTask
<1>7. QuestionAsked'
  BY ONLY <1>2 DEF QuestionAsked, Active
<1> QED BY ONLY <1>3, <1>4, <1>6, <1>7 DEF KInv

LEMMA NewSessionKeepsAnswers ==
    ASSUME IInv, KInv, NEW byKey \in BOOLEAN, NewSession(byKey)
    PROVE  KInv'
<1> USE DEF NewSession
<1>1. PICK s \in Sessions :
        /\ origin[s] = None
        /\ known' = known \cup {s} /\ origin' = [origin EXCEPT ![s] = directory]
  OBVIOUS
<1>2. /\ origin \in [Sessions -> Sessions \cup {None}] /\ known \subseteq Sessions
      /\ directory \in Sessions /\ disk' = disk /\ directory' = directory
      /\ place = "prompt" /\ place' = "prompt"
      /\ compaction' = compaction \/ compaction' = NoTask
      /\ answered' = answered /\ msgs' = {}
      /\ excused' = excused \cup Of(msgs) \cup Of(disk[directory].msgs)
      /\ disk[directory].msgs \in SUBSET Message
  BY DEF IInv, TypeOK, File
<1>3. Owed' \subseteq Owed /\ Owed' \cap Of(disk[directory].msgs) = {}
  BY ONLY <1>2 DEF Owed
<1>4. Owed' \cap Answers(disk[directory].msgs) = {}
  BY ONLY <1>2, <1>3, AnswersAreOf
<1>5. FilesKeep'
  BY ONLY <1>2, <1>3, KInv DEF KInv, FilesKeep
<1>6. FilesShape'
  BY ONLY <1>1, <1>2, KInv, NoneIsNoSession DEF KInv, FilesShape
<1>7. EngineKeeps'
  <2>1. Covers(msgs)' /\ Owed' \cap (Answers(disk'[directory'].msgs) \cup Answers(msgs')) = {}
    BY ONLY <1>2, <1>4, NoAnswers DEF Covers
  <2> QED BY ONLY <1>2, <2>1 DEF EngineKeeps
<1>8. QuestionAsked'
  BY ONLY <1>2 DEF QuestionAsked, Active
<1> QED BY ONLY <1>5, <1>6, <1>7, <1>8 DEF KInv

LEMMA DeleteKeepsAnswers ==
    ASSUME IInv, KInv, NEW s \in Sessions, Delete(s)
    PROVE  KInv'
<1> USE DEF Delete
<1>1. /\ TypeOK /\ FilesKeep /\ FilesShape /\ EngineKeeps
      /\ disk \in [Sessions -> File] /\ disk[s].msgs \in SUBSET Message
      /\ directory \in Sessions /\ known \subseteq Sessions
  BY DEF KInv, IInv, TypeOK, File
<1>2. PICK m \in PromptClosed :
        msgs' = m /\ excused' = excused \cup Of(disk[s].msgs) \cup DroppedBy(m)
  OBVIOUS
<1>3. /\ disk' = [disk EXCEPT ![s] = NoFile] /\ known' = known \ {s}
      /\ compaction' = NoTask /\ place = "prompt"
      /\ UNCHANGED <<place, directory, origin, answered>>
  OBVIOUS
<1>4. /\ disk'[s].msgs = {} /\ \A d \in Sessions \ {s} : disk'[d] = disk[d]
  BY ONLY <1>1, <1>3, Blank
<1>5. Owed' \subseteq Owed \ DroppedBy(m) /\ Owed' \cap Answers(disk[s].msgs) = {}
  BY ONLY <1>1, <1>2, <1>3, AnswersAreOf DEF Owed
<1>6. FilesKeep'
  BY ONLY <1>1, <1>4, <1>5 DEF FilesKeep
<1>7. FilesShape'
  BY ONLY <1>1, <1>3, <1>4 DEF FilesShape
<1>8. EngineKeeps'
  <2>1. Owed' \cap Answers(disk[directory].msgs) \subseteq Answers(m)
    BY ONLY <1>1, <1>2, <1>3, <1>5, ClosedCovers
  <2>2. Owed' \cap Answers(disk'[directory].msgs) \subseteq Owed' \cap Answers(disk[directory].msgs)
    BY ONLY <1>1, <1>4, <1>5, NoAnswers
  <2> QED BY ONLY <1>2, <1>3, <2>1, <2>2 DEF EngineKeeps, Covers, NoTask
<1>9. QuestionAsked'
  BY ONLY <1>3 DEF QuestionAsked, Active
<1> QED BY ONLY <1>6, <1>7, <1>8, <1>9 DEF KInv

LEMMA SaveNowKeepsAnswers ==
    ASSUME IInv, KInv, NEW byKey \in BOOLEAN, SaveNow(byKey)
    PROVE  KInv'
<1> USE DEF SaveNow
<1>1. PICK m \in IF byKey THEN {msgs} ELSE PromptClosed, how \in Outcomes :
        /\ msgs' = m /\ Save(m, how) /\ excused' = excused \cup LossBy(how, m) \cup DroppedBy(m)
  OBVIOUS
<1>2. /\ place = "prompt" /\ place' = "prompt"
      /\ compaction' = IF byKey THEN compaction ELSE NoTask
      /\ answered' = answered /\ origin' = origin /\ directory' = directory
  OBVIOUS
<1>3. m \in PromptClosed
  BY DEF PromptClosed
<1>4. /\ FilesKeep'
      /\ \A s \in known' \cup {directory} : origin[s] # None
      /\ \A s \in Sessions : disk'[s].state # "whole" \/ origin[s] = None => disk'[s].msgs = {}
      /\ Owed' \cap Answers(disk'[directory].msgs) \subseteq Answers(m)
  BY ONLY IInv, KInv, <1>1, <1>2, <1>3, SavedAtPrompt
<1>5. FilesShape'
  BY ONLY <1>2, <1>4 DEF FilesShape
<1>6. EngineKeeps'
  <2>1. ASSUME compaction'.running
        PROVE  Owed' \cap Answers(m) \subseteq Answers(compaction'.read)
    <3>1. byKey /\ compaction' = compaction /\ m = msgs
      BY <2>1, <1>1 DEF NoTask
    <3>2. Owed' \subseteq Owed
      BY ONLY <1>1, <1>2 DEF Owed
    <3> QED BY ONLY <2>1, <3>1, <3>2, KInv DEF KInv, EngineKeeps
  <2> QED BY ONLY <1>1, <1>2, <1>4, <2>1 DEF EngineKeeps, Covers
<1>7. QuestionAsked'
  BY ONLY <1>2 DEF QuestionAsked, Active
<1> QED BY ONLY <1>4, <1>5, <1>6, <1>7 DEF KInv

LEMMA CompactionKeepsAnswers ==
    ASSUME IInv, KInv, CompactKey \/ CompactionEnds \/ ClearLine \/ Command \/ CommandEnds
    PROVE  KInv'
<1> USE DEF CompactKey, CompactionEnds, ClearLine, Command, CommandEnds, conversation, history
<1>1. FilesKeep /\ FilesShape /\ EngineKeeps
  BY DEF KInv
<1>2. /\ place' \in {"prompt", "command"} /\ place # "down"
      /\ UNCHANGED <<disk, directory, origin, known, answered>>
  OBVIOUS
<1>3. /\ Owed' \subseteq Owed
      /\ \/ msgs' \in PromptClosed /\ Owed' \subseteq Owed \ DroppedBy(msgs')
         \/ Owed' \subseteq Owed \ Dropped(msgs, msgs')
  <2>1. CASE CompactKey
    BY <2>1 DEF Owed, PromptClosed, Dropped
  <2>2. CASE CompactionEnds
    BY <2>2 DEF Owed, PromptClosed
  <2>3. CASE ClearLine \/ Command
    BY <2>3 DEF Owed
  <2>4. CASE CommandEnds
    BY <2>4 DEF Owed
  <2> QED BY <2>1, <2>2, <2>3, <2>4
<1>4. FilesKeep' /\ FilesShape'
  BY ONLY <1>1, <1>2, <1>3 DEF FilesKeep, FilesShape
<1>5. Owed' \cap Answers(disk[directory].msgs) \subseteq Answers(msgs')
  <2>1. CASE msgs' \in PromptClosed /\ Owed' \subseteq Owed \ DroppedBy(msgs')
    BY ONLY <2>1, <1>1, <1>2, ClosedCovers
  <2>2. CASE Owed' \subseteq Owed \ Dropped(msgs, msgs')
    BY ONLY <2>2, <1>1, <1>2 DEF EngineKeeps, Covers, Dropped
  <2> QED BY ONLY <2>1, <2>2, <1>3
<1>6. \/ place = "command" /\ compaction' = compaction
      \/ compaction' = NoTask
      \/ compaction' = [running |-> TRUE, read |-> msgs] /\ msgs' = msgs /\ place' = "prompt"
  OBVIOUS
<1>7. compaction'.running =>
        /\ place' = "prompt"
        /\ Owed' \cap (Answers(disk[directory].msgs) \cup Answers(msgs'))
             \subseteq Answers(compaction'.read)
  <2>1. CASE place = "command" /\ compaction' = compaction
    BY ONLY <2>1, <1>1 DEF EngineKeeps
  <2>2. CASE compaction' = NoTask
    BY ONLY <2>2 DEF NoTask
  <2>3. CASE /\ compaction' = [running |-> TRUE, read |-> msgs]
             /\ msgs' = msgs /\ place' = "prompt"
    BY ONLY <2>3, <1>5
  <2> QED BY ONLY <2>1, <2>2, <2>3, <1>6
<1>8. EngineKeeps'
  BY ONLY <1>2, <1>5, <1>7 DEF EngineKeeps, Covers
<1>9. QuestionAsked'
  BY ONLY <1>2 DEF QuestionAsked, Active
<1> QED BY ONLY <1>4, <1>8, <1>9 DEF KInv

LEMMA TurnEndsKeepsAnswers ==
    ASSUME IInv, KInv, TurnEnds
    PROVE  KInv'
<1> USE DEF TurnEnds
<1>1. PICK m \in CompactedAtEnd(msgs), how \in Outcomes :
        /\ msgs' = m \cup {Answer} /\ Save(m \cup {Answer}, how)
        /\ excused' = excused \cup LossBy(how, msgs) \cup Dropped(msgs, m)
  OBVIOUS
<1>2. /\ TypeOK /\ FilesKeep /\ FilesShape /\ EngineKeeps /\ msgs \in SUBSET Message
      /\ place = "compacting" /\ place' = "prompt" /\ answered' = answered \cup {turn}
      /\ origin' = origin /\ directory' = directory /\ compaction' = compaction
      /\ turn \in Of(msgs) /\ (how \in {"written", "failed", "torn"})
  BY OutcomesAllowed DEF KInv, IInv, TypeOK, QuestionAsked, Active
<1>3. Answers(m) \subseteq Answers(m \cup {Answer}) /\ turn \in Answers(m \cup {Answer})
  <2>1. Answer.turn = turn /\ Answer.part = "answer"
    BY DEF Answer
  <2> QED BY ONLY <2>1 DEF Answers
<1>4. Owed' \cap Answers(disk[directory].msgs) \subseteq Answers(m \cup {Answer})
  <2>1. Owed' \subseteq (Owed \ Dropped(msgs, m)) \cup {turn}
    BY ONLY <1>1, <1>2 DEF Owed
  <2> QED BY ONLY <2>1, <1>2, <1>3 DEF EngineKeeps, Covers, Dropped
<1>5. /\ how = "written" => \A t \in Owed' : t \in Owed \/ t \in Answers(m \cup {Answer})
      /\ how # "written" => \A t \in Owed' : t \in Owed /\ t \notin Of(disk[directory].msgs)
  BY ONLY <1>1, <1>2, <1>3 DEF Owed, LossBy
<1>6. /\ FilesKeep'
      /\ \A s \in known' \cup {directory} : origin[s] # None
      /\ \A s \in Sessions : disk'[s].state # "whole" \/ origin[s] = None => disk'[s].msgs = {}
      /\ Owed' \cap Answers(disk'[directory].msgs) \subseteq Answers(m \cup {Answer})
  BY ONLY <1>1, <1>2, <1>4, <1>5, SaveKeepsAnswers
<1>7. FilesShape'
  BY ONLY <1>2, <1>6 DEF FilesShape
<1>8. EngineKeeps'
  <2>1. ~compaction.running
    BY ONLY <1>2 DEF EngineKeeps
  <2> QED BY ONLY <1>1, <1>2, <1>6, <2>1 DEF EngineKeeps, Covers
<1>9. QuestionAsked'
  BY ONLY <1>2 DEF QuestionAsked, Active
<1> QED BY ONLY <1>6, <1>7, <1>8, <1>9 DEF KInv

LEMMA StepKeepsAnswers == IInv /\ KInv /\ [Next]_vars => KInv'
<1> SUFFICES ASSUME IInv, KInv, [Next]_vars PROVE KInv'
  OBVIOUS
<1>1. CASE Restart \/ Ends \/ EndsInSave
  BY <1>1, RestartKeepsAnswers, StopsKeepAnswers
<1>2. CASE Submit
  BY <1>2, SubmitKeepsAnswers
<1>3. CASE CompactKey \/ CompactionEnds \/ ClearLine \/ Command \/ CommandEnds
  BY <1>3, CompactionKeepsAnswers
<1>4. CASE \E s \in Sessions : Switch(s) \/ Delete(s)
  BY <1>4, SwitchKeepsAnswers, DeleteKeepsAnswers
<1>5. CASE \E byKey \in BOOLEAN : NewSession(byKey) \/ SaveNow(byKey)
  BY <1>5, NewSessionKeepsAnswers, SaveNowKeepsAnswers
<1>6. CASE HooksEnd \/ Goes \/ Asks \/ IsAnswered \/ BatchEnds \/ Press \/ TurnFails
           \/ UNCHANGED vars
  BY <1>6, QuietKeepsAnswers
<1>7. CASE Begins
  BY <1>7, BeginsKeepsAnswers
<1>8. CASE Abort
  BY <1>8, AbortKeepsAnswers
<1>9. CASE TurnEnds
  BY <1>9, TurnEndsKeepsAnswers
<1> QED BY <1>1, <1>2, <1>3, <1>4, <1>5, <1>6, <1>7, <1>8, <1>9 DEF Next

-----------------------------------------------------------------------------
(* Theorems.                                                               *)

\* The variables have their types: no turn, press, fault or start beyond the bounds.
THEOREM TypeCorrect == Spec => []TypeOK
<1>1. IInv => TypeOK
  BY DEF IInv
<1> QED BY <1>1, Inductive, PTL

\* The conversation in a file, and in the engine, is of the session it is kept for or
\* of one begun in its directory, whatever is switched, deleted, interrupted or killed
\* (app.py, checkpoint.py).
THEOREM ConversationsStayApart == Spec => []ConversationsApart
<1>1. IInv => ConversationsApart
  BY DEF IInv, FilesInv, EngineInv, Here, ConversationsApart
<1> QED BY <1>1, Inductive, PTL

\* The answer of an answered turn is in a file, in the engine's or another session's,
\* unless a compaction dropped it, a save failed with it, its session was deleted or
\* another was begun in its directory (app.py, orchestrator.py, checkpoint.py,
\* context_compressor.py).
THEOREM AnsweredTurnsKept == Spec => []TurnsKept
<1>1. IInv /\ KInv => TurnsKept
  BY DEF KInv, FilesKeep, Owed, TurnsKept
<1>2. Spec => []KInv
  BY InitKeeps, Inductive, StepKeepsAnswers, PTL DEF Spec
<1> QED BY <1>1, <1>2, Inductive, PTL

\* No more turns are interrupted than Ctrl+C is pressed, outside the prompt
\* (the flag and the cancellation of app.py are used up by one turn).
THEOREM OnePressAbortsOneTurn == Spec => []OnePressOneAbort
<1>1. IInv => OnePressOneAbort
  BY DEF IInv, PressInv, OnePressOneAbort
<1> QED BY <1>1, Inductive, PTL

\* Only Abort interrupts a turn.
LEMMA OthersAbortNothing ==
    ASSUME IInv, [Next]_vars, aborts' # aborts
    PROVE  Abort
  BY DEF vars, history, Next, Restart, Ends, EndsInSave, Stops, Submit, CompactKey,
         CompactionEnds, ClearLine, Command, CommandEnds, Switch, Delete, NewSession, SaveNow,
         HooksEnd, Goes, Asks, IsAnswered, BatchEnds, Elsewhere, Begins, Press, TurnEnds,
         TurnFails

\* An interrupted turn leaves the messages of the checkpoint that was written before
\* it, if it was written (the rollback of app.py).
THEOREM InterruptionsRollBack == Spec => AbortRollsBack
<1>1. ASSUME IInv, [Next]_vars, aborts' # aborts, before.safe
      PROVE  msgs' = before.msgs
  <2>1. Abort
    BY <1>1, OthersAbortNothing
  <2>2. place \in Active /\ msgs' = Restored(disk, directory)
    BY <2>1 DEF Abort, Active
  <2>3. disk[directory].state = "whole" /\ disk[directory].msgs = before.msgs
    BY <1>1, <2>2 DEF IInv, BeforeInv
  <2> QED BY <2>2, <2>3 DEF Restored
<1>2. IInv /\ [Next]_vars => [aborts' # aborts /\ before.safe => msgs' = before.msgs]_vars
  BY <1>1
<1> QED BY <1>2, Inductive, PTL DEF Spec, AbortRollsBack

=============================================================================
