---------------------------- MODULE DreamMemory ----------------------------
(***************************************************************************)
(* The memory of a project (core/context/memory_manager.py) and the dreams *)
(* that consolidate it (core/context/dream.py).  A turn adds a note to the *)
(* day file of its session; a tool adds topics, each with a line in the    *)
(* session's index; a dream reads a session, awaits a model, and writes    *)
(* the index and the permanent memory of the project, then deletes old day *)
(* files.  Turns, tools and other dreams go on while it waits.             *)
(*                                                                         *)
(* Text is abstracted to the entries whose content it still has.  Between  *)
(* two awaits the code is a single step, and AtomicWriter makes a write    *)
(* succeed or fail as a whole.                                             *)
(***************************************************************************)
EXTENDS Naturals, FiniteSets

CONSTANTS
    Sessions,
    Dreams,      \* bound: the dreams there can be
    None,
    Terminal,    \* the client is the terminal, not the web
    Trigger,     \* _DREAM_SESSION_COUNT (10 in the code)
    Retention,   \* _PRUNE_DAYS (7 in the code)
    Limit,       \* days a dream reads (30 in the code)
    MaxLines,    \* _INDEX_MAX_LINES (200 in the code)
    MaxOthers,   \* bound: other lines than entries of an index that a dream writes
    MaxEntries,  \* bound: entries
    MaxDay       \* bound: days

ASSUME MemoryAssumption ==
    /\ Sessions # {} /\ Terminal \in BOOLEAN /\ None \notin Nat
    /\ {Trigger, Limit, MaxLines, MaxEntries} \subseteq Nat \ {0}
    /\ Retention \in Nat \ {0, 1} /\ {MaxOthers, MaxDay} \subseteq Nat

VARIABLES
    today,
    made, dirs,       \* the sessions there have been, and that have a directory
    current, memory,  \* of the session service, and of the orchestrator
    next,             \* number of the next entry
    notes, topics,    \* entries in day files and in topic files
    index,            \* entries the MEMORY.md of a session has a line for
    others,           \* number of its other lines: headings, blank ones, remarks
    permanent,        \* entries CHACHA_MEMORY.md has taken up
    ending,           \* a turn has saved its note
    count, lastRun,   \* the counters of the pipeline
    dream,
    written,          \* history: all notes saved, but for deleted sessions
    spoiled           \* history: which losses had a cause

files == <<notes, topics, index, others, permanent>>
session == <<made, dirs, current, memory>>
counters == <<count, lastRun>>
vars == <<today, session, next, files, ending, counters, dream, written, spoiled>>

\* place is the session whose files an entry is in; a topic has no day.
Entries == [id : Nat, place : Sessions, day : Nat \cup {None}]

NoDream == [at |-> "new", auto |-> FALSE, place |-> CHOOSE s \in Sessions : TRUE, since |-> 0,
            index |-> {}, permanent |-> {}, raw |-> {}, whole |-> FALSE]

Init ==
    /\ today = 0 /\ next = 1
    /\ current = CHOOSE s \in Sessions : TRUE
    /\ made = {current} /\ dirs = {current} /\ memory = current
    /\ notes = {} /\ topics = {} /\ permanent = {}
    /\ index = [s \in Sessions |-> {}] /\ others = [s \in Sessions |-> 0]
    /\ ending = FALSE /\ count = 0 /\ lastRun = None
    /\ dream = [d \in Dreams |-> NoDream]
    /\ written = {} /\ spoiled = {}

NoLonger == [NoDream EXCEPT !.at = "over"]

-----------------------------------------------------------------------------
\* Turns and tools

NewEntry(day) == [id |-> next, place |-> memory, day |-> day]

\* The directory may be gone, or the write fail; the orchestrator logs it.
SaveRoundMemory ==
    /\ ~ending /\ next <= MaxEntries
    /\ \/ /\ memory \in dirs
          /\ notes' = notes \cup {NewEntry(today)} /\ written' = written \cup {NewEntry(today)}
       \/ UNCHANGED <<notes, written>>
    /\ next' = next + 1
    /\ ending' = TRUE
    /\ UNCHANGED <<today, session, topics, index, others, permanent, counters, dream, spoiled>>

\* The time trigger is exact in the code, here it is free on the day after.
ShouldRun(n, late) ==
    \/ n >= Trigger
    \/ lastRun # None /\ (today > lastRun + 1 \/ (late /\ today = lastRun + 1))

Unused == {d \in Dreams : dream[d].at = "new"}

Starts(s, auto) ==
    /\ Unused # {}
    /\ dream' = [dream EXCEPT ![CHOOSE d \in Unused : TRUE] =
                    [NoDream EXCEPT !.at = "ready", !.auto = auto, !.place = s]]

\* record_session, and a task for the dream: one that still runs is no obstacle.
\* Beyond the bound on dreams a turn that would start one can only be stopped.
EndSession ==
    /\ ending
    /\ ending' = FALSE
    /\ count' = count + 1
    /\ \E late \in BOOLEAN :
          IF ShouldRun(count + 1, late)
          THEN Starts(memory, TRUE)
          ELSE UNCHANGED dream
    /\ UNCHANGED <<today, session, next, files, lastRun, written, spoiled>>

\* The turn is stopped between its note and its end.
Stopped ==
    /\ ending
    /\ ending' = FALSE
    /\ UNCHANGED <<today, session, next, files, counters, dream, written, spoiled>>

\* The lines of the index of s.
Size(s) == Cardinality(index[s]) + others[s]

\* What an entry adds to the index of s: its line under its heading, or, if the
\* heading is new, the heading and its line at the end, after a blank line if the
\* file has lines already.
Additions(s) == IF Size(s) = 0 THEN {2} ELSE {1, 3}

\* The index of s with entry and the rest of what it adds, n lines in all.
Whole(s, entry, n) == [index |-> index[s] \cup {entry}, others |-> others[s] + n - 1]

\* What is left of it if only the first lines are kept, up to max: where the
\* entries stand is a matter of headings, but new headings come last.  A blank
\* line at the end goes, too.
Cuts(s, entry, n, max) ==
    {x \in [index : SUBSET (index[s] \cup {entry}), others : 0 .. others[s] + n - 1] :
        /\ Cardinality(x.index) + x.others <= max
        /\ Cardinality(index[s] \cup {entry}) - Cardinality(x.index) <= Size(s) + n - max
        /\ n > 1 => entry \notin x.index}

\* Mutant: the limit is one line short.
AppendedFewer(s, entry, n) ==
    IF Size(s) + n < MaxLines THEN {Whole(s, entry, n)} ELSE Cuts(s, entry, n, MaxLines - 1)

\* _append_to_index counts all lines, and keeps the first MaxLines.
Appended(s, entry, n) ==
    IF Size(s) + n <= MaxLines THEN {Whole(s, entry, n)} ELSE Cuts(s, entry, n, MaxLines)

SetIndex(s, x) ==
    /\ index' = [index EXCEPT ![s] = x.index]
    /\ others' = [others EXCEPT ![s] = x.others]

KeepIndex == UNCHANGED <<index, others>>

\* write_topic and _append_to_index: the failure of the second is only logged.
WriteTopic ==
    /\ ~ending /\ next <= MaxEntries
    /\ topics' = topics \cup {NewEntry(None)}
    /\ \/ \E n \in Additions(memory) :
              /\ \E x \in Appended(memory, NewEntry(None), n) : SetIndex(memory, x)
              /\ spoiled' = IF Size(memory) + n <= MaxLines THEN spoiled
                            ELSE spoiled \cup {"index"}
       \/ KeepIndex /\ spoiled' = spoiled \cup {"index"}
    /\ dirs' = dirs \cup {memory}
    /\ next' = next + 1
    /\ UNCHANGED <<today, made, current, memory, notes, permanent, ending, counters, dream,
                   written>>

-----------------------------------------------------------------------------
\* Sessions

\* The terminal resets the engine, but goes on with the memory it has.
NewSession(s) ==
    /\ ~ending /\ s \in Sessions \ made
    /\ made' = made \cup {s} /\ dirs' = dirs \cup {s}
    /\ current' = s
    /\ memory' = IF Terminal THEN memory ELSE s
    /\ UNCHANGED <<today, next, files, ending, counters, dream, written, spoiled>>

SwitchTo(s) ==
    /\ ~ending /\ s \in dirs \ {current}
    /\ current' = s /\ memory' = s
    /\ UNCHANGED <<today, made, dirs, next, files, ending, counters, dream, written, spoiled>>

\* The terminal refuses to delete the current session, the web does not.
DeleteSession(s) ==
    /\ s \in dirs /\ (Terminal => s # current)
    /\ dirs' = dirs \ {s}
    /\ notes' = {n \in notes : n.place # s}
    /\ topics' = {n \in topics : n.place # s}
    /\ SetIndex(s, [index |-> {}, others |-> 0])
    /\ written' = {n \in written : n.place # s}
    /\ UNCHANGED <<today, made, current, memory, next, permanent, ending, counters, dream, spoiled>>

\* The process ends, with its dreams and counters, and is started with a new
\* session, or by a web client that asks for one there is.
Restart(s) ==
    /\ s \notin made \/ (~Terminal /\ s \in dirs)
    /\ made' = made \cup {s} /\ dirs' = dirs \cup {s}
    /\ current' = s /\ memory' = s
    /\ ending' = FALSE /\ count' = 0 /\ lastRun' = None
    /\ dream' = [d \in Dreams |-> IF d \in Unused THEN NoDream ELSE NoLonger]
    /\ UNCHANGED <<today, next, files, written, spoiled>>

-----------------------------------------------------------------------------
\* Dreams

\* /dream: a pipeline and a memory manager of its own, which makes the directory.
RunDream ==
    /\ Terminal
    /\ Starts(current, FALSE)
    /\ dirs' = dirs \cup {current}
    /\ UNCHANGED <<today, made, current, memory, next, files, ending, counters, written, spoiled>>

Days(s) == {n.day : n \in {m \in notes : m.place = s}}

ReadDays(s) == {t \in Days(s) : Cardinality({u \in Days(s) : u > t}) < Limit}

Raw(s) == {n \in notes : n.place = s /\ n.day \in ReadDays(s)} \cup {n \in topics : n.place = s}

Gather(d) ==
    /\ dream[d].at = "ready"
    /\ LET s == dream[d].place
       IN dream' = [dream EXCEPT ![d] =
              IF Raw(s) = {} /\ Size(s) = 0 THEN NoLonger
              ELSE [@ EXCEPT !.at = "asking", !.since = today, !.index = index[s],
                             !.permanent = permanent, !.raw = Raw(s),
                             !.whole = (ReadDays(s) = Days(s))]]
    /\ UNCHANGED <<today, session, next, files, ending, counters, written, spoiled>>

\* All a dream knows.
Known(d) == dream[d].permanent \cup dream[d].raw
Lines(d) == dream[d].index \cup dream[d].raw

\* Mutant: the day before is old already.
IsYesterdays(n, s) == n.place = s /\ n.day + 1 <= today

\* prune_old_days: a day is old from its seventh midnight on.
IsOld(n, s) == n.place = s /\ n.day + Retention <= today

\* What the answer says of the index or of the permanent memory: nothing (None),
\* or a text that has some of what the dream knows.  An error of the model
\* leaves the text that has come so far.
Answers(all) == {None} \cup SUBSET all

\* The index is written as a whole, however long it is.
WriteIndex(s, i) ==
    IF i = None THEN KeepIndex
    ELSE /\ s \in dirs
         /\ \E n \in 0 .. MaxOthers : SetIndex(s, [index |-> i, others |-> n])

\* Mutant: the session that is current now is pruned.
PrunesCurrent(d) == {n \in notes : IsOld(n, current)}

Pruned(d) == {n \in notes : IsOld(n, dream[d].place)}

\* The answer is written and the old days deleted.
Finish(d) ==
    /\ dream[d].at = "asking"
    /\ \E i \in Answers(Lines(d)), p \in Answers(Known(d)) :
          LET s == dream[d].place
              stale == p # None /\ (p # Known(d) \/ permanent # dream[d].permanent)
              unread == Pruned(d) # {} /\ (p \in {None} \/ p # Known(d) \/ ~dream[d].whole)
              dropped == i # None /\ (i # Lines(d) \/ index[s] # dream[d].index)
          IN /\ WriteIndex(s, i)
             /\ permanent' = IF p = None THEN permanent ELSE p
             /\ spoiled' = spoiled \cup (IF stale \/ unread THEN {"notes"} ELSE {})
                                   \cup (IF dropped THEN {"index"} ELSE {})
    /\ notes' = notes \ Pruned(d)
    /\ IF dream[d].auto THEN count' = 0 /\ lastRun' = today ELSE UNCHANGED counters
    /\ dream' = [dream EXCEPT ![d] = NoLonger]
    /\ UNCHANGED <<today, session, next, topics, ending, written>>

\* A write fails: the task ends before it prunes or resets the counters.
WriteFails(d) ==
    /\ dream[d].at = "asking"
    /\ \E i \in Answers(Lines(d)) :
          LET s == dream[d].place
              dropped == i # None /\ (i # Lines(d) \/ index[s] # dream[d].index)
          IN /\ WriteIndex(s, i)
             /\ spoiled' = spoiled \cup (IF dropped THEN {"index"} ELSE {})
    /\ dream' = [dream EXCEPT ![d] = NoLonger]
    /\ UNCHANGED <<today, session, next, notes, topics, permanent, ending, counters, written>>

\* A dream lasts less than a day: the model's stream and its retries time out.
Tick ==
    /\ today < MaxDay
    /\ \A d \in Dreams : dream[d].at = "asking" => dream[d].since = today
    /\ today' = today + 1
    /\ UNCHANGED <<session, next, files, ending, counters, dream, written, spoiled>>

Turn == SaveRoundMemory \/ EndSession \/ Stopped \/ WriteTopic
Client == \E s \in Sessions : NewSession(s) \/ SwitchTo(s) \/ DeleteSession(s) \/ Restart(s)
Dreaming(d) == Gather(d) \/ Finish(d) \/ WriteFails(d)

Next == Turn \/ Client \/ RunDream \/ Tick \/ \E d \in Dreams : Dreaming(d)

Spec == Init /\ [][Next]_vars

-----------------------------------------------------------------------------

(* All variables have their types. *)
TypeOK ==
    /\ today \in 0 .. MaxDay /\ next \in 1 .. MaxEntries + 1
    /\ made \subseteq Sessions /\ dirs \subseteq made /\ current \in made /\ memory \in made
    /\ {notes, topics, permanent, written} \subseteq SUBSET Entries
    /\ index \in [Sessions -> SUBSET Entries] /\ others \in [Sessions -> Nat]
    /\ ending \in BOOLEAN /\ count \in Nat /\ lastRun \in Nat \cup {None}
    /\ dream \in [Dreams -> [at : {"new", "ready", "asking", "over"}, auto : BOOLEAN,
                             place : Sessions, since : Nat, index : SUBSET Entries,
                             permanent : SUBSET Entries, raw : SUBSET Entries,
                             whole : BOOLEAN]]
    /\ spoiled \subseteq {"notes", "index"}

(* A note is lost, from its day file and from the permanent memory, only if a *)
(* dream wrote what it had known before another dream changed it, if an       *)
(* answer forgot something, or if there were more days than a dream reads.    *)
NotesKept == "notes" \notin spoiled => written \subseteq notes \cup permanent

(* A day file is deleted only with its session or by a dream that has read    *)
(* it, whatever session is current and whatever the model answers.            *)
PrunedWereRead ==
    [][\A n \in notes \ notes' :
          \/ n.place \notin dirs'
          \/ \E d \in Dreams : /\ dream[d].at = "asking" /\ dream'[d].at = "over"
                               /\ n \in dream[d].raw \/ ~dream[d].whole]_vars

(* "So that later sessions notice a new topic at once": every topic has its   *)
(* line in the index, unless a write failed, the file would have become longer *)
(* than MaxLines with the line and the heading it needs, an answer forgot a    *)
(* line or a dream overwrote one it had not seen.                              *)
TopicsIndexed == "index" \notin spoiled => \A n \in topics : n \in index[n.place]

(* What the docstring of _append_to_index says, that the oldest entries are    *)
(* trimmed: where an older line is still there, the new one is.  A topic with  *)
(* a new heading refutes it: its line is the last, and cut first.              *)
OldestTrimmed ==
    [][\A n \in topics' \ topics :
          ~KeepIndex /\ index'[n.place] # {} => n \in index'[n.place]]_vars
=============================================================================
