------------------------- MODULE DreamMemoryProofs -------------------------
(***************************************************************************)
(* Proofs about DreamMemory, for any sessions, dreams, limits and answers. *)
(*                                                                         *)
(* What a dream may delete is older than Retention days, and a dream lasts *)
(* less than a day: so all it may delete was there when it read the day    *)
(* files.  ReadInv says that a dream which read all days knows every note  *)
(* of its session from before the day it began.  The index of a session    *)
(* only matters by what a write may take from it.                          *)
(***************************************************************************)
EXTENDS DreamMemory, TLAPS

USE MemoryAssumption

Asking(d) == dream[d].at = "asking"

DayInv == \A n \in notes : n.day \in Nat /\ n.day <= today

SinceInv ==
    \A d \in Dreams : Asking(d) => dream[d].since <= today /\ today <= dream[d].since + 1

ReadInv ==
    \A d \in Dreams : Asking(d) /\ dream[d].whole =>
        \A n \in notes : n.place = dream[d].place /\ n.day < dream[d].since
                            => n \in dream[d].raw

IInv == TypeOK /\ DayInv /\ SinceInv /\ ReadInv

Dream == [at : {"new", "ready", "asking", "over"}, auto : BOOLEAN, place : Sessions, since : Nat,
          index : SUBSET Entries, permanent : SUBSET Entries, raw : SUBSET Entries,
          whole : BOOLEAN]

-----------------------------------------------------------------------------
\* Types

LEMMA NoDreamType ==
    ASSUME TypeOK
    PROVE  /\ NoDream \in Dream /\ NoDream.at = "new"
           /\ NoLonger \in Dream /\ NoLonger.at = "over"
<1>1. \E s \in Sessions : TRUE BY DEF TypeOK
<1>2. (CHOOSE s \in Sessions : TRUE) \in Sessions BY <1>1
<1> QED BY <1>2 DEF NoDream, NoLonger, Dream

LEMMA StartsOne ==
    ASSUME TypeOK, NEW s \in Sessions, NEW auto \in BOOLEAN, Starts(s, auto)
    PROVE  /\ dream' \in [Dreams -> Dream]
           /\ \A d \in Dreams : dream'[d].at = "asking" => dream'[d] = dream[d]
<1> DEFINE d == CHOOSE x \in Unused : TRUE
           new == [NoDream EXCEPT !.at = "ready", !.auto = auto, !.place = s]
<1>1. d \in Dreams BY DEF Starts, Unused
<1>2. new \in Dream /\ new.at = "ready" BY NoDreamType DEF Dream
<1>3. dream' = [dream EXCEPT ![d] = new] BY DEF Starts
<1>4. dream \in [Dreams -> Dream] BY DEF TypeOK, Dream
<1> HIDE DEF d, new
<1> QED BY <1>1, <1>2, <1>3, <1>4

LEMMA NewEntryType ==
    ASSUME TypeOK, NEW t \in Nat \cup {None}
    PROVE  NewEntry(t) \in Entries /\ NewEntry(t).day = t /\ NewEntry(t).place = memory
BY DEF TypeOK, NewEntry, Entries

LEMMA RawType == ASSUME TypeOK, NEW s PROVE Raw(s) \subseteq Entries
BY DEF TypeOK, Raw

\* What a step of a dream that is over leaves of the dreams.
LEMMA EndsOne ==
    ASSUME TypeOK, NEW d \in Dreams, dream' = [dream EXCEPT ![d] = NoLonger]
    PROVE  /\ dream' \in [Dreams -> Dream] /\ dream'[d].at = "over"
           /\ \A c \in Dreams : dream'[c].at = "asking" => dream'[c] = dream[c]
<1>1. dream \in [Dreams -> Dream] BY DEF TypeOK, Dream
<1> QED BY <1>1, NoDreamType

LEMMA GathersOne ==
    ASSUME TypeOK, NEW d \in Dreams, Gather(d)
    PROVE  /\ dream' \in [Dreams -> Dream]
           /\ \A c \in Dreams \ {d} : dream'[c] = dream[c]
           /\ dream'[d].at = "asking" =>
                 /\ dream'[d].place = dream[d].place /\ dream'[d].since = today
                 /\ dream'[d].raw = Raw(dream[d].place)
                 /\ dream'[d].whole = (ReadDays(dream[d].place) = Days(dream[d].place))
<1> DEFINE s == dream[d].place
           new == [dream[d] EXCEPT !.at = "asking", !.since = today, !.index = index[s],
                             !.permanent = permanent, !.raw = Raw(s),
                             !.whole = (ReadDays(s) = Days(s))]
<1>1. dream \in [Dreams -> Dream] BY DEF TypeOK, Dream
<1>2. CASE Raw(s) = {} /\ Size(s) = 0
  <2>1. dream' = [dream EXCEPT ![d] = NoLonger] BY <1>2 DEF Gather
  <2> QED BY <2>1, <1>1, NoDreamType
<1>3. CASE ~(Raw(s) = {} /\ Size(s) = 0)
  <2>1. dream' = [dream EXCEPT ![d] = new] BY <1>3 DEF Gather
  <2>2. s \in Sessions BY <1>1 DEF Dream
  <2>3. today \in Nat /\ index[s] \subseteq Entries /\ permanent \subseteq Entries
    BY <2>2 DEF TypeOK
  <2>4. Raw(s) \subseteq Entries BY RawType
  <2>5. /\ new \in Dream /\ new.place = s /\ new.since = today /\ new.raw = Raw(s)
        /\ new.whole = (ReadDays(s) = Days(s))
    BY <1>1, <2>2, <2>3, <2>4 DEF Dream
  <2> HIDE DEF new
  <2> QED BY <1>1, <2>1, <2>5
<1> QED BY <1>2, <1>3

-----------------------------------------------------------------------------

LEMMA InitInv == Init => IInv
<1> SUFFICES ASSUME Init PROVE IInv
  OBVIOUS
<1>1. current \in Sessions BY DEF Init
<1>2. NoDream \in Dream /\ NoDream.at = "new" BY <1>1 DEF Init, NoDream, Dream
<1>3. dream \in [Dreams -> Dream] /\ \A d \in Dreams : ~Asking(d)
  BY <1>2 DEF Init, Asking
<1>4. /\ today \in 0 .. MaxDay /\ next \in 1 .. MaxEntries + 1
      /\ made \subseteq Sessions /\ dirs \subseteq made /\ current \in made /\ memory \in made
  BY <1>1 DEF Init
<1>5. /\ notes = {} /\ topics = {} /\ permanent = {} /\ written = {} /\ spoiled = {}
      /\ index \in [Sessions -> SUBSET Entries] /\ others \in [Sessions -> Nat]
  BY DEF Init
<1>6. ending \in BOOLEAN /\ count \in Nat /\ lastRun \in Nat \cup {None}
  BY DEF Init
<1>7. TypeOK BY <1>3, <1>4, <1>5, <1>6 DEF TypeOK, Dream
<1> QED BY <1>3, <1>5, <1>7 DEF IInv, DayInv, SinceInv, ReadInv

-----------------------------------------------------------------------------
\* Each action keeps the types.

LEMMA TurnType == ASSUME TypeOK, Turn PROVE TypeOK'
<1> USE DEF files, session, counters
<1>1. CASE SaveRoundMemory
  <2>1. NewEntry(today) \in Entries BY NewEntryType DEF TypeOK
  <2>2. next + 1 \in 1 .. MaxEntries + 1 BY <1>1 DEF TypeOK, SaveRoundMemory
  <2> QED BY <1>1, <2>1, <2>2 DEF SaveRoundMemory, TypeOK
<1>2. CASE EndSession
  <2>1. dream' \in [Dreams -> Dream]
    <3>1. CASE dream' = dream BY <3>1 DEF TypeOK, Dream
    <3>2. CASE Starts(memory, TRUE) BY <3>2, StartsOne DEF TypeOK
    <3> QED BY <1>2, <3>1, <3>2 DEF EndSession
  <2>2. /\ ending' = FALSE /\ count' = count + 1
        /\ UNCHANGED <<today, session, next, files, lastRun, written, spoiled>>
    BY <1>2 DEF EndSession
  <2>3. count' \in Nat BY <2>2 DEF TypeOK
  <2> QED BY <2>1, <2>2, <2>3 DEF TypeOK, Dream
<1>3. CASE Stopped BY <1>3 DEF Stopped, TypeOK
<1>4. CASE WriteTopic
  <2>1. NewEntry(None) \in Entries /\ memory \in Sessions BY NewEntryType DEF TypeOK
  <2>2. next + 1 \in 1 .. MaxEntries + 1 BY <1>4 DEF TypeOK, WriteTopic
  <2>3. ASSUME NEW n \in Additions(memory), NEW x \in Appended(memory, NewEntry(None), n)
        PROVE  x.index \subseteq Entries /\ x.others \in Nat
    <3>1. n \in Nat \ {0} BY DEF Additions
    <3>2. others[memory] \in Nat /\ index[memory] \subseteq Entries BY <2>1 DEF TypeOK
    <3>3. others[memory] + n - 1 \in Nat BY <3>1, <3>2
    <3>4. \/ x = Whole(memory, NewEntry(None), n)
          \/ x \in Cuts(memory, NewEntry(None), n, MaxLines)
      BY DEF Appended
    <3> QED BY <2>1, <3>2, <3>3, <3>4 DEF Whole, Cuts
  <2>4. KeepIndex \/ \E n \in Additions(memory) :
                        \E x \in Appended(memory, NewEntry(None), n) : SetIndex(memory, x)
    BY <1>4 DEF WriteTopic
  <2>5. /\ index' \in [Sessions -> SUBSET Entries] /\ others' \in [Sessions -> Nat]
        /\ spoiled' \subseteq {"notes", "index"}
    <3>1. spoiled' \subseteq {"notes", "index"} BY <1>4 DEF WriteTopic, TypeOK
    <3>2. index' \in [Sessions -> SUBSET Entries] /\ others' \in [Sessions -> Nat]
      BY <2>3, <2>4 DEF SetIndex, KeepIndex, TypeOK
    <3> QED BY <3>1, <3>2
  <2>6. topics' \subseteq Entries /\ dirs' \subseteq made
    BY <1>4, <2>1 DEF WriteTopic, TypeOK
  <2> QED BY <1>4, <2>2, <2>5, <2>6 DEF WriteTopic, TypeOK
<1> QED BY <1>1, <1>2, <1>3, <1>4 DEF Turn

LEMMA ClientType == ASSUME TypeOK, NEW s \in Sessions,
                           NewSession(s) \/ SwitchTo(s) \/ DeleteSession(s) \/ Restart(s)
                    PROVE  TypeOK'
<1> USE DEF files, session, counters
<1>1. CASE NewSession(s) BY <1>1 DEF NewSession, TypeOK
<1>2. CASE SwitchTo(s) BY <1>2 DEF SwitchTo, TypeOK
<1>3. CASE DeleteSession(s) BY <1>3 DEF DeleteSession, SetIndex, TypeOK
<1>4. CASE Restart(s)
  <2>1. dream' \in [Dreams -> Dream] BY <1>4, NoDreamType DEF Restart
  <2> QED BY <1>4, <2>1 DEF Restart, TypeOK, Dream
<1> QED BY <1>1, <1>2, <1>3, <1>4

LEMMA DreamingType == ASSUME TypeOK, NEW d \in Dreams, Dreaming(d) PROVE TypeOK'
<1> USE DEF files, session, counters
<1>1. dream \in [Dreams -> Dream] BY DEF TypeOK, Dream
<1>2. Lines(d) \subseteq Entries /\ Known(d) \subseteq Entries /\ dream[d].place \in Sessions
  BY <1>1 DEF Lines, Known, Dream
<1>3. ASSUME NEW i \in Answers(Lines(d)), i # None PROVE i \subseteq Entries
  BY <1>2, <1>3 DEF Answers
<1>4. ASSUME NEW p \in Answers(Known(d)), p # None PROVE p \subseteq Entries
  BY <1>2, <1>4 DEF Answers
<1>4a. ASSUME NEW i \in Answers(Lines(d)), WriteIndex(dream[d].place, i)
       PROVE  index' \in [Sessions -> SUBSET Entries] /\ others' \in [Sessions -> Nat]
  <2>1. 0 .. MaxOthers \subseteq Nat OBVIOUS
  <2>2. index \in [Sessions -> SUBSET Entries] /\ others \in [Sessions -> Nat] BY DEF TypeOK
  <2>3. CASE i = None BY <1>4a, <2>2, <2>3 DEF WriteIndex, KeepIndex
  <2>4. CASE i # None BY <1>3, <1>4a, <2>1, <2>2, <2>4 DEF WriteIndex, SetIndex
  <2> QED BY <2>3, <2>4
<1>5. CASE Gather(d)
  <2>1. dream' \in [Dreams -> Dream] BY <1>5, GathersOne
  <2> QED BY <1>5, <2>1 DEF Gather, TypeOK, Dream
<1>6. CASE Finish(d)
  <2>1. dream' \in [Dreams -> Dream] BY <1>6, EndsOne DEF Finish
  <2>2. index' \in [Sessions -> SUBSET Entries] /\ others' \in [Sessions -> Nat]
    BY <1>4a, <1>6 DEF Finish
  <2>3. permanent' \subseteq Entries BY <1>4, <1>6 DEF Finish, TypeOK
  <2>4. spoiled' \subseteq {"notes", "index"} BY <1>6 DEF Finish, TypeOK
  <2>5. count' \in Nat /\ lastRun' \in Nat \cup {None} BY <1>6 DEF Finish, TypeOK
  <2>6. UNCHANGED <<today, session, next, topics, ending, written>> /\ notes' \subseteq notes
    BY <1>6 DEF Finish
  <2> QED BY <2>1, <2>2, <2>3, <2>4, <2>5, <2>6 DEF TypeOK, Dream
<1>7. CASE WriteFails(d)
  <2>1. dream' \in [Dreams -> Dream] BY <1>7, EndsOne DEF WriteFails
  <2>2. index' \in [Sessions -> SUBSET Entries] /\ others' \in [Sessions -> Nat]
    BY <1>4a, <1>7 DEF WriteFails
  <2>3. spoiled' \subseteq {"notes", "index"} BY <1>7 DEF WriteFails, TypeOK
  <2>4. UNCHANGED <<today, session, next, notes, topics, permanent, ending, counters, written>>
    BY <1>7 DEF WriteFails
  <2> QED BY <2>1, <2>2, <2>3, <2>4 DEF TypeOK, Dream
<1> QED BY <1>5, <1>6, <1>7 DEF Dreaming

LEMMA NextType == TypeOK /\ [Next]_vars => TypeOK'
<1> SUFFICES ASSUME TypeOK, [Next]_vars PROVE TypeOK'
  OBVIOUS
<1> USE DEF files, session, counters
<1>1. CASE Turn BY <1>1, TurnType
<1>2. CASE Client BY <1>2, ClientType DEF Client
<1>3. CASE RunDream
  <2>1. current \in Sessions BY DEF TypeOK
  <2>2. dream' \in [Dreams -> Dream] BY <1>3, <2>1, StartsOne DEF RunDream
  <2> QED BY <1>3, <2>2 DEF RunDream, TypeOK, Dream
<1>4. CASE Tick
  <2>1. today' \in 0 .. MaxDay BY <1>4 DEF Tick, TypeOK
  <2> QED BY <1>4, <2>1 DEF Tick, TypeOK
<1>5. CASE \E d \in Dreams : Dreaming(d) BY <1>5, DreamingType
<1>6. CASE UNCHANGED vars BY <1>6 DEF vars, TypeOK
<1> QED BY <1>1, <1>2, <1>3, <1>4, <1>5, <1>6 DEF Next

(* The types, for any values of the constants. *)
THEOREM TypeCorrect == Spec => []TypeOK
<1>1. Init => TypeOK BY InitInv DEF IInv
<1> QED BY <1>1, NextType, PTL DEF Spec

-----------------------------------------------------------------------------
\* What dreams have read

\* A note is added only by a turn, with the day it is; days only grow.
LEMMA NotesStep ==
    ASSUME IInv, [Next]_vars
    PROVE  /\ today \in Nat /\ today' \in {today, today + 1}
           /\ \A n \in notes' : n \in notes \/ (n.day = today /\ today' = today)
           /\ today' # today => \A d \in Dreams : Asking(d) => dream[d].since = today
<1> USE DEF files, session, counters
<1>1. today \in Nat BY DEF IInv, TypeOK
<1>2. CASE Turn
  <2>1. NewEntry(today).day = today BY NewEntryType, <1>1 DEF IInv
  <2>2. CASE SaveRoundMemory BY <1>1, <2>1, <2>2 DEF SaveRoundMemory
  <2>3. CASE EndSession \/ Stopped \/ WriteTopic
    BY <1>1, <2>3 DEF EndSession, Stopped, WriteTopic
  <2> QED BY <1>2, <2>2, <2>3 DEF Turn
<1>3. CASE Client BY <1>1, <1>3 DEF Client, NewSession, SwitchTo, DeleteSession, Restart
<1>4. CASE RunDream BY <1>1, <1>4 DEF RunDream
<1>5. CASE Tick BY <1>1, <1>5 DEF Tick, Asking
<1>6. CASE \E d \in Dreams : Dreaming(d)
  BY <1>1, <1>6 DEF Dreaming, Gather, Finish, WriteFails
<1>7. CASE UNCHANGED vars BY <1>1, <1>7 DEF vars
<1> QED BY <1>2, <1>3, <1>4, <1>5, <1>6, <1>7 DEF Next

\* A dream that asks is one that asked before, or one that has just read.
LEMMA AskingStep ==
    ASSUME IInv, [Next]_vars, NEW d \in Dreams, Asking(d)'
    PROVE  dream'[d] = dream[d] \/ Gather(d)
<1> USE DEF files, session, counters
<1>1. TypeOK BY DEF IInv
<1>2. CASE Turn
  <2>1. dream' = dream \/ Starts(memory, TRUE)
    BY <1>2 DEF Turn, SaveRoundMemory, EndSession, Stopped, WriteTopic
  <2>2. memory \in Sessions BY <1>1 DEF TypeOK
  <2> QED BY <1>1, <2>1, <2>2, StartsOne DEF Asking
<1>3. CASE Client
  <2>1. dream' = dream \/ dream'[d].at \in {"new", "over"}
    BY <1>1, <1>3, NoDreamType DEF Client, NewSession, SwitchTo, DeleteSession, Restart
  <2> QED BY <2>1 DEF Asking
<1>4. CASE RunDream
  <2>1. current \in Sessions BY <1>1 DEF TypeOK
  <2> QED BY <1>1, <1>4, <2>1, StartsOne DEF RunDream, Asking
<1>5. CASE Tick BY <1>5 DEF Tick
<1>6. ASSUME NEW c \in Dreams, Dreaming(c) PROVE dream'[d] = dream[d] \/ Gather(d)
  <2>1. CASE Gather(c) BY <1>1, <2>1, GathersOne
  <2>2. CASE Finish(c) \/ WriteFails(c)
    <3>1. dream' = [dream EXCEPT ![c] = NoLonger] BY <2>2 DEF Finish, WriteFails
    <3> QED BY <1>1, <3>1, EndsOne DEF Asking
  <2> QED BY <1>6, <2>1, <2>2 DEF Dreaming
<1>7. CASE UNCHANGED vars BY <1>7 DEF vars
<1> QED BY <1>2, <1>3, <1>4, <1>5, <1>6, <1>7 DEF Next

LEMMA NextInv == IInv /\ [Next]_vars => IInv'
<1> SUFFICES ASSUME IInv, [Next]_vars PROVE IInv'
  OBVIOUS
<1>1. TypeOK' BY NextType DEF IInv
<1>2. /\ today \in Nat /\ today' \in {today, today + 1}
      /\ \A n \in notes' : n \in notes \/ (n.day = today /\ today' = today)
      /\ today' # today => \A d \in Dreams : Asking(d) => dream[d].since = today
  BY NotesStep
<1>3. DayInv' BY <1>2 DEF IInv, DayInv
<1>4. ASSUME NEW d \in Dreams, Asking(d)'
      PROVE  /\ dream'[d].since <= today' /\ today' <= dream'[d].since + 1
             /\ dream'[d].whole =>
                   \A n \in notes' : n.place = dream'[d].place /\ n.day < dream'[d].since
                                        => n \in dream'[d].raw
  <2>1. CASE dream'[d] = dream[d]
    <3>1. Asking(d) BY <1>4, <2>1 DEF Asking
    <3>2. dream[d].since \in Nat BY DEF IInv, TypeOK
    <3>3. dream[d].since <= today /\ today <= dream[d].since + 1
      BY <3>1 DEF IInv, SinceInv
    <3>4. dream'[d].since <= today' /\ today' <= dream'[d].since + 1
      BY <1>2, <2>1, <3>1, <3>2, <3>3
    <3>5. ASSUME dream[d].whole, NEW n \in notes', n.place = dream[d].place,
                 n.day < dream[d].since
          PROVE  n \in dream[d].raw
      <4>1. n \in notes BY <1>2, <3>2, <3>3, <3>5
      <4> QED BY <3>1, <3>5, <4>1 DEF IInv, ReadInv
    <3> QED BY <2>1, <3>4, <3>5
  <2>2. CASE Gather(d)
    <3> DEFINE s == dream[d].place
    <3>1. /\ dream'[d].place = s /\ dream'[d].since = today /\ dream'[d].raw = Raw(s)
          /\ dream'[d].whole = (ReadDays(s) = Days(s))
      BY <1>4, <2>2, GathersOne DEF IInv, Asking
    <3>2. notes' = notes /\ today' = today BY <2>2 DEF Gather, files
    <3>3. ASSUME ReadDays(s) = Days(s), NEW n \in notes, n.place = s PROVE n \in Raw(s)
      <4>1. n.day \in Days(s) BY <3>3 DEF Days
      <4> QED BY <3>3, <4>1 DEF Raw
    <3>4. dream'[d].since <= today' /\ today' <= dream'[d].since + 1
      BY <1>2, <3>1, <3>2
    <3>5. ASSUME dream'[d].whole, NEW n \in notes', n.place = dream'[d].place
          PROVE  n \in dream'[d].raw
      <4>1. ReadDays(s) = Days(s) /\ n \in notes /\ n.place = s BY <3>1, <3>2, <3>5
      <4>2. n \in Raw(s) BY <3>3, <4>1
      <4> QED BY <3>1, <4>2
    <3> QED BY <3>4, <3>5
  <2> QED BY <1>4, <2>1, <2>2, AskingStep
<1>5. SinceInv' /\ ReadInv' BY <1>4 DEF SinceInv, ReadInv, Asking
<1> QED BY <1>1, <1>3, <1>5 DEF IInv

(* Notes are of days that have been, a dream asks for less than a day, and one *)
(* that read all days knows all notes of its session from before it began.     *)
THEOREM Invariant == Spec => []IInv
BY InitInv, NextInv, PTL DEF Spec

-----------------------------------------------------------------------------

\* All that a dream deletes it has read, if it has read all days.
LEMMA PrunedIsRead ==
    ASSUME IInv, NEW d \in Dreams, Asking(d), dream[d].whole
    PROVE  Pruned(d) \subseteq dream[d].raw
<1> SUFFICES ASSUME NEW n \in Pruned(d) PROVE n \in dream[d].raw
  OBVIOUS
<1>1. n \in notes /\ n.place = dream[d].place /\ n.day + Retention <= today
  BY DEF Pruned, IsOld
<1>2. n.day \in Nat /\ today \in Nat /\ dream[d].since \in Nat /\ today <= dream[d].since + 1
  BY <1>1 DEF IInv, DayInv, SinceInv, TypeOK
<1>3. n.day < dream[d].since BY <1>1, <1>2
<1> QED BY <1>1, <1>3 DEF IInv, ReadInv

\* The property as a relation between two states.
Deletions ==
    \A n \in notes \ notes' :
       \/ n.place \notin dirs'
       \/ \E d \in Dreams : /\ dream[d].at = "asking" /\ dream'[d].at = "over"
                            /\ n \in dream[d].raw \/ ~dream[d].whole

LEMMA DeletionStep == IInv /\ [Next]_vars => [Deletions]_vars
<1> SUFFICES ASSUME IInv, Next PROVE Deletions
  BY DEF vars
<1> USE DEF files, session, counters
<1>1. CASE Turn
  BY <1>1 DEF Turn, SaveRoundMemory, EndSession, Stopped, WriteTopic, Deletions
<1>2. CASE Client
  <2> SUFFICES ASSUME NEW s \in Sessions,
                      NewSession(s) \/ SwitchTo(s) \/ DeleteSession(s) \/ Restart(s)
               PROVE  Deletions
    BY <1>2 DEF Client
  <2>1. CASE DeleteSession(s) BY <2>1 DEF DeleteSession, Deletions
  <2>2. CASE NewSession(s) \/ SwitchTo(s) \/ Restart(s)
    BY <2>2 DEF NewSession, SwitchTo, Restart, Deletions
  <2> QED BY <2>1, <2>2
<1>3. CASE RunDream \/ Tick BY <1>3 DEF RunDream, Tick, Deletions
<1>4. ASSUME NEW d \in Dreams, Dreaming(d) PROVE Deletions
  <2>1. CASE Finish(d)
    <3>1. Asking(d) /\ notes \ notes' \subseteq Pruned(d) BY <2>1 DEF Finish, Asking
    <3>2. dream'[d].at = "over" BY <2>1, EndsOne DEF Finish, IInv
    <3>3. CASE dream[d].whole BY <3>1, <3>2, <3>3, PrunedIsRead DEF Deletions, Asking
    <3>4. CASE ~dream[d].whole BY <3>1, <3>2, <3>4 DEF Deletions, Asking
    <3> QED BY <3>3, <3>4
  <2>2. CASE Gather(d) \/ WriteFails(d) BY <2>2 DEF Gather, WriteFails, Deletions
  <2> QED BY <1>4, <2>1, <2>2 DEF Dreaming
<1> QED BY <1>1, <1>2, <1>3, <1>4 DEF Next

(* For any number of sessions, dreams and days: a day file is deleted only    *)
(* with its session or by a dream that has read it.                           *)
THEOREM DeletedDaysWereRead == Spec => PrunedWereRead
<1>1. [][IInv /\ [Next]_vars]_vars => [][Deletions]_vars
  BY DeletionStep, PTL
<1> QED BY <1>1, Invariant, PTL DEF Spec, PrunedWereRead, Deletions

-----------------------------------------------------------------------------

\* Nothing but the end of a dream takes a note from where it is.
LEMMA OthersKeep ==
    ASSUME IInv, NotesKept, [Next]_vars, \A d \in Dreams : ~Finish(d)
    PROVE  NotesKept'
<1> USE DEF files, session, counters
<1>1. CASE Turn
  <2>1. CASE SaveRoundMemory BY <2>1 DEF SaveRoundMemory, NotesKept
  <2>2. CASE EndSession \/ Stopped BY <2>2 DEF EndSession, Stopped, NotesKept
  <2>3. CASE WriteTopic BY <2>3 DEF WriteTopic, NotesKept
  <2> QED BY <1>1, <2>1, <2>2, <2>3 DEF Turn
<1>2. CASE Client
  <2> SUFFICES ASSUME NEW s \in Sessions,
                      NewSession(s) \/ SwitchTo(s) \/ DeleteSession(s) \/ Restart(s)
               PROVE  NotesKept'
    BY <1>2 DEF Client
  <2>1. CASE DeleteSession(s) BY <2>1 DEF DeleteSession, NotesKept
  <2>2. CASE NewSession(s) \/ SwitchTo(s) \/ Restart(s)
    BY <2>2 DEF NewSession, SwitchTo, Restart, NotesKept
  <2> QED BY <2>1, <2>2
<1>3. CASE RunDream \/ Tick BY <1>3 DEF RunDream, Tick, NotesKept
<1>4. ASSUME NEW d \in Dreams, Dreaming(d) PROVE NotesKept'
  BY <1>4 DEF Dreaming, Gather, WriteFails, NotesKept
<1>5. CASE UNCHANGED vars BY <1>5 DEF vars, NotesKept
<1> QED BY <1>1, <1>2, <1>3, <1>4, <1>5 DEF Next

LEMMA FinishKeeps ==
    ASSUME IInv, NotesKept, NEW d \in Dreams, Finish(d)
    PROVE  NotesKept'
<1> SUFFICES ASSUME "notes" \notin spoiled' PROVE written' \subseteq notes' \cup permanent'
  BY DEF NotesKept
<1>1. PICK p \in Answers(Known(d)) :
         /\ permanent' = IF p = None THEN permanent ELSE p
         /\ spoiled \subseteq spoiled'
         /\ (p # None /\ (p # Known(d) \/ permanent # dream[d].permanent)) => "notes" \in spoiled'
         /\ (Pruned(d) # {} /\ (p \in {None} \/ p # Known(d) \/ ~dream[d].whole)) => "notes" \in spoiled'
  BY DEF Finish
<1>2. notes' = notes \ Pruned(d) /\ written' = written /\ Asking(d) BY DEF Finish, Asking
<1>3. written \subseteq notes \cup permanent BY <1>1 DEF NotesKept
<1>4. permanent \subseteq permanent' BY <1>1 DEF Known
<1>5. Pruned(d) \subseteq permanent'
  <2>1. CASE Pruned(d) = {} BY <2>1
  <2>2. CASE Pruned(d) # {}
    <3>1. p # None /\ p = Known(d) /\ dream[d].whole BY <1>1, <2>2
    <3>2. Pruned(d) \subseteq dream[d].raw BY <1>2, <3>1, PrunedIsRead
    <3>3. dream[d].raw \subseteq permanent' BY <1>1, <3>1 DEF Known
    <3> QED BY <3>2, <3>3
  <2> QED BY <2>1, <2>2
<1> QED BY <1>2, <1>3, <1>4, <1>5

(* For any number of sessions, dreams and days: a note is lost only for one   *)
(* of the causes NotesKept names.                                             *)
THEOREM NotesAreKept == Spec => []NotesKept
<1>1. Init => NotesKept BY DEF Init, NotesKept
<1>2. IInv /\ NotesKept /\ [Next]_vars => NotesKept' BY OthersKeep, FinishKeeps
<1> QED BY <1>1, <1>2, Invariant, PTL DEF Spec

-----------------------------------------------------------------------------
\* The index of the topics

IndexIs(s, i) == index' = IF i = None THEN index ELSE [index EXCEPT ![s] = i]

LEMMA WrittenIs == ASSUME NEW s, NEW i, WriteIndex(s, i) PROVE IndexIs(s, i)
BY DEF WriteIndex, KeepIndex, SetIndex, IndexIs

\* The end of a dream, as far as the index is concerned.
LEMMA IndexWritten ==
    ASSUME NEW d \in Dreams, Finish(d) \/ WriteFails(d)
    PROVE  /\ topics' = topics /\ spoiled \subseteq spoiled'
           /\ \E i \in Answers(Lines(d)) :
                 /\ IndexIs(dream[d].place, i)
                 /\ "index" \notin spoiled' /\ i # None =>
                       i = Lines(d) /\ index[dream[d].place] = dream[d].index
<1>1. CASE Finish(d) BY <1>1, WrittenIs DEF Finish
<1>2. CASE WriteFails(d) BY <1>2, WrittenIs DEF WriteFails
<1> QED BY <1>1, <1>2

-----------------------------------------------------------------------------

LEMMA TopicWritten ==
    ASSUME IInv, TopicsIndexed, WriteTopic
    PROVE  TopicsIndexed'
<1> SUFFICES ASSUME "index" \notin spoiled', NEW n \in topics' PROVE n \in index'[n.place]
  BY DEF TopicsIndexed
<1> DEFINE e == NewEntry(None)
<1>1. memory \in Sessions /\ index \in [Sessions -> SUBSET Entries] /\ topics \subseteq Entries
  BY DEF IInv, TypeOK
<1>2. e.place = memory BY NewEntryType DEF IInv
<1>3. PICK m \in Additions(memory) :
         /\ \E x \in Appended(memory, e, m) : SetIndex(memory, x)
         /\ spoiled' = IF Size(memory) + m <= MaxLines THEN spoiled ELSE spoiled \cup {"index"}
  BY DEF WriteTopic
<1>4. Size(memory) + m <= MaxLines /\ "index" \notin spoiled BY <1>3
<1>5. topics' = topics \cup {e} BY DEF WriteTopic
<1> HIDE DEF e
<1>6. index' = [index EXCEPT ![memory] = index[memory] \cup {e}]
  <2>1. Appended(memory, e, m) = {Whole(memory, e, m)} BY <1>4, Zenon DEF Appended
  <2>2. SetIndex(memory, Whole(memory, e, m)) BY <1>3, <2>1, Zenon
  <2> QED BY <2>2 DEF Whole, SetIndex
<1>7. CASE n = e BY <1>1, <1>2, <1>6, <1>7
<1>8. CASE n \in topics
  <2>1. n \in index[n.place] BY <1>4, <1>8 DEF TopicsIndexed
  <2>2. n.place \in Sessions BY <1>1, <1>8 DEF Entries
  <2> QED BY <1>1, <1>6, <2>1, <2>2
<1> QED BY <1>5, <1>7, <1>8

LEMMA IndexAnswered ==
    ASSUME IInv, TopicsIndexed, NEW d \in Dreams, Finish(d) \/ WriteFails(d)
    PROVE  TopicsIndexed'
<1> SUFFICES ASSUME "index" \notin spoiled', NEW n \in topics' PROVE n \in index'[n.place]
  BY DEF TopicsIndexed
<1>1. topics' = topics /\ spoiled \subseteq spoiled' BY IndexWritten
<1>2. PICK i \in Answers(Lines(d)) :
         /\ IndexIs(dream[d].place, i)
         /\ i # None => i = Lines(d) /\ index[dream[d].place] = dream[d].index
  BY IndexWritten
<1>3. n \in topics /\ n \in index[n.place] BY <1>1 DEF TopicsIndexed
<1>4. n.place \in Sessions /\ index \in [Sessions -> SUBSET Entries]
  BY <1>3 DEF IInv, TypeOK, Entries
<1>5. CASE i = None BY <1>2, <1>3, <1>5 DEF IndexIs
<1>6. CASE i # None
  <2>1. index[dream[d].place] \subseteq i BY <1>2, <1>6 DEF Lines
  <2> QED BY <1>2, <1>3, <1>4, <1>6, <2>1 DEF IndexIs
<1> QED BY <1>5, <1>6

LEMMA OthersIndex ==
    ASSUME IInv, TopicsIndexed, [Next]_vars, ~WriteTopic,
           \A d \in Dreams : ~Finish(d) /\ ~WriteFails(d)
    PROVE  TopicsIndexed'
<1> USE DEF files, session, counters
<1>1. CASE Turn BY <1>1 DEF Turn, SaveRoundMemory, EndSession, Stopped, TopicsIndexed
<1>2. CASE Client
  <2> SUFFICES ASSUME NEW s \in Sessions,
                      NewSession(s) \/ SwitchTo(s) \/ DeleteSession(s) \/ Restart(s)
               PROVE  TopicsIndexed'
    BY <1>2 DEF Client
  <2>1. CASE DeleteSession(s)
    <3>1. index \in [Sessions -> SUBSET Entries] /\ topics \subseteq Entries
      BY DEF IInv, TypeOK
    <3>2. /\ topics' = {n \in topics : n.place # s} /\ index' = [index EXCEPT ![s] = {}]
          /\ spoiled' = spoiled
      BY <2>1 DEF DeleteSession, SetIndex
    <3>3. \A n \in topics' : n.place \in Sessions /\ index'[n.place] = index[n.place]
      BY <3>1, <3>2 DEF Entries
    <3> QED BY <3>2, <3>3 DEF TopicsIndexed
  <2>2. CASE NewSession(s) \/ SwitchTo(s) \/ Restart(s)
    BY <2>2 DEF NewSession, SwitchTo, Restart, TopicsIndexed
  <2> QED BY <2>1, <2>2
<1>3. CASE RunDream \/ Tick BY <1>3 DEF RunDream, Tick, TopicsIndexed
<1>4. ASSUME NEW d \in Dreams, Dreaming(d) PROVE TopicsIndexed'
  BY <1>4 DEF Dreaming, Gather, TopicsIndexed
<1>5. CASE UNCHANGED vars BY <1>5 DEF vars, TopicsIndexed
<1> QED BY <1>1, <1>2, <1>3, <1>4, <1>5 DEF Next

(* For any number of sessions and dreams and any size of the index: a topic is *)
(* missing from the index of its session only for one of the causes that       *)
(* TopicsIndexed names.                                                        *)
THEOREM TopicsAreIndexed == Spec => []TopicsIndexed
<1>1. Init => TopicsIndexed BY DEF Init, TopicsIndexed
<1>2. IInv /\ TopicsIndexed /\ [Next]_vars => TopicsIndexed'
  BY TopicWritten, IndexAnswered, OthersIndex
<1> QED BY <1>1, <1>2, Invariant, PTL DEF Spec
=============================================================================
