------------------------- MODULE AtomicWriterProofs -------------------------
(***************************************************************************)
(* Proofs about AtomicWriter.  Whenever no two processes are between their *)
(* lock and their rename at the same time, the writer implements the       *)
(* abstract file; and they are not for one process, however often it       *)
(* crashes and writes again, nor for two processes that write once each.   *)
(* Then, too, a backup that no failure, crash or other write of the same   *)
(* second has spoilt is whole, and it is gone only when it is too old or   *)
(* followed by as many as are kept.                                        *)
(***************************************************************************)
EXTENDS AtomicWriter, SequenceTheorems, FiniteSetTheorems, WellFoundedInduction, TLAPS

InWrite == {"create", "fill", "rename"}
HasLock == InWrite \cup {"release"}

\* What the place of a process says of what it has open.
Place(p) ==
    /\ pc[p] \in {"copy", "fill"} <=> out[p] # None
    /\ pc[p] \notin {"copy", "fill"} => pos[p] = 0
    /\ pc[p] = "backup" => file # None
    /\ pc[p] = "copy" => saved[p] # None
    /\ pc[p] \in HasLock \cup {"lock"} => fd[p] # None
    /\ fd[p] # None => pc[p] \in HasLock \cup {"lock", "failed"}
    /\ pc[p] = "verify" => placed[p]
    /\ placed[p] => pc[p] \in {"idle", "release", "unlink", "verify"}

PlaceInv == \A p \in Procs : Place(p)

\* Who has a lock: a process in its write, or on its way out of a failed one.
Guarded(p) == pc[p] \in HasLock \/ (pc[p] = "failed" /\ fd[p] # None)

HeldInv == \A p \in Procs : Guarded(p) => holder[fd[p]] = p

IInv == TypeOK /\ PlaceInv /\ HeldInv

(* No two processes are between their lock and their rename.               *)
Exclusive ==
    \A p, q \in Procs : pc[p] \in InWrite /\ pc[q] \in InWrite => p = q

\* The temporary file holds what its writer has written so far; nobody writes
\* the file itself.
Filled(p) ==
    /\ pc[p] = "fill" =>
          /\ out[p] # file /\ tmp \in {None, out[p]}
          /\ pos[p] <= Len(want[p]) /\ Len(data[out[p]]) = pos[p]
          /\ \A i \in 1 .. pos[p] : data[out[p]][i] = want[p][i]
    /\ pc[p] = "rename" => tmp = None \/ data[tmp] = want[p]

FileInv ==
    /\ tmp # None => tmp # file
    /\ \A p \in Procs : Filled(p)

-----------------------------------------------------------------------------
(* Sequences of chunks.                                                    *)

LEMMA PutIsContent ==
    ASSUME NEW s \in Contents, NEW k \in Nat \ {0}, NEW c \in Ids
    PROVE  Put(s, k, c) \in Contents
<1>1. Hole \in Ids BY DEF Ids
<1>2. Len(s) \in Nat /\ \A i \in 1 .. Len(s) : s[i] \in Ids
  BY DEF Contents
<1>3. PICK n \in Nat : n = IF k > Len(s) THEN k ELSE Len(s) BY <1>2
<1>4. Put(s, k, c) = [i \in 1 .. n |-> IF i = k THEN c ELSE IF i <= Len(s) THEN s[i] ELSE Hole]
  BY <1>3 DEF Put
<1>5. \A i \in 1 .. n : (IF i = k THEN c ELSE IF i <= Len(s) THEN s[i] ELSE Hole) \in Ids
  BY <1>1, <1>2
<1>6. Put(s, k, c) \in [1 .. n -> Ids]
  BY <1>4, <1>5
<1> QED BY <1>6 DEF Contents

LEMMA PutNext ==
    ASSUME NEW s \in Contents, NEW c \in Ids
    PROVE  /\ Len(Put(s, Len(s) + 1, c)) = Len(s) + 1
           /\ \A i \in 1 .. Len(s) : Put(s, Len(s) + 1, c)[i] = s[i]
           /\ Put(s, Len(s) + 1, c)[Len(s) + 1] = c
<1> DEFINE n == Len(s) + 1
           t == [i \in 1 .. n |-> IF i = n THEN c ELSE IF i <= Len(s) THEN s[i] ELSE Hole]
<1>1. Len(s) \in Nat BY DEF Contents
<1>2. Put(s, n, c) = t BY <1>1 DEF Put
<1>3. Put(s, n, c) \in Contents BY PutIsContent, <1>1
<1>4. DOMAIN t = 1 .. n OBVIOUS
<1>5. Len(t) = n
  BY <1>1, <1>2, <1>3, <1>4, LenProperties DEF Contents
<1>6. \A i \in 1 .. Len(s) : t[i] = s[i] BY <1>1
<1>7. t[n] = c BY <1>1
<1> QED BY <1>2, <1>5, <1>6, <1>7

LEMMA NoneIsApart == None \notin Nat \cup Inodes \cup Procs
BY WriterAssumption DEF WriterAssumption

LEMMA ContentIsContent ==
    ASSUME TypeOK PROVE Content \in Contents
BY DEF TypeOK, Content, Contents

-----------------------------------------------------------------------------
(* Types and places.                                                       *)

LEMMA InodesExist == Inodes # {}
<1>1. [p \in Procs |-> None] \in [Procs -> Inodes \cup {None}] OBVIOUS
<1> QED BY <1>1, WriterAssumption DEF WriterAssumption

LEMMA InitIsGood == Init => IInv
<1> SUFFICES ASSUME Init PROVE IInv OBVIOUS
<1> USE WriterAssumption DEF WriterAssumption
<1>1. <<Old>> \in Contents /\ <<>> \in Contents
  BY DEF Contents, Ids
<1>2. Inodes # {} BY InodesExist
<1>3. /\ DOMAIN backups \subseteq 0 .. MaxTime /\ now \in 2 .. MaxTime
      /\ \A t \in DOMAIN backups : backups[t] \in Contents
  <2>1. CASE backups = <<>>
    <3>1. DOMAIN backups = {} BY <2>1
    <3> QED BY <3>1 DEF Init
  <2>2. CASE backups = [t \in 0 .. 1 |-> <<Old>>]
    BY <1>1, <2>2 DEF Init
  <2> QED BY <2>1, <2>2 DEF Init
<1>4. TypeOK BY <1>1, <1>2, <1>3 DEF Init, TypeOK
<1>5. PlaceInv /\ HeldInv BY DEF Init, PlaceInv, Place, HeldInv, Guarded, HasLock, InWrite
<1> QED BY <1>4, <1>5 DEF IInv

LEMMA FreeLock ==
    ASSUME TypeOK, lockFile = None
    PROVE  (CHOOSE j \in Inodes : \A q \in Procs : fd[q] # j) \in Inodes
<1>1. \E j \in Inodes : \A q \in Procs : fd[q] # j
  BY WriterAssumption DEF WriterAssumption, TypeOK
<1> QED BY <1>1

LEMMA FreeTmp ==
    ASSUME TypeOK, NEW j0, j0 = CHOOSE j \in Inodes \ {file} : \A q \in Procs : out[q] # j
    PROVE  j0 \in Inodes \ {file} /\ \A q \in Procs : out[q] # j0
<1>1. \E j \in Inodes \ {file} : \A q \in Procs : out[q] # j
  BY WriterAssumption DEF WriterAssumption, TypeOK
<1> QED BY <1>1

\* What a process opens its lock and its temporary file on.
LEMMA OpenLockOpens ==
    ASSUME IInv, NEW p \in Procs, OpenLock(p)
    PROVE  /\ lockFile' \in Inodes /\ fd' = [fd EXCEPT ![p] = lockFile']
           /\ lockFile # None => lockFile' = lockFile
<1>1. CASE lockFile = None
  BY <1>1, FreeLock DEF OpenLock, IInv
<1>2. CASE lockFile # None
  BY <1>2 DEF OpenLock, IInv, TypeOK
<1> QED BY <1>1, <1>2

LEMMA CreateTmpOpens ==
    ASSUME IInv, NEW p \in Procs, CreateTmp(p)
    PROVE  /\ tmp' \in Inodes
           /\ data' = [data EXCEPT ![tmp'] = <<>>] /\ out' = [out EXCEPT ![p] = tmp']
           /\ IF tmp # None THEN tmp' = tmp
              ELSE tmp' # file /\ \A q \in Procs : out[q] # tmp'
<1>1. CASE tmp = None
  BY <1>1, FreeTmp DEF CreateTmp, IInv
<1>2. CASE tmp # None
  BY <1>2 DEF CreateTmp, IInv, TypeOK
<1> QED BY <1>1, <1>2

LEMMA BeginsIsTyped ==
    ASSUME IInv, NEW p \in Procs, Begin(p)
    PROVE  TypeOK'
<1> USE WriterAssumption DEF WriterAssumption
<1>1. Id(p) \in Ids
  BY DEF IInv, TypeOK, Id, Ids
<1>2. PICK content, first : Begins(p, content, first) /\ content \in Contents
                            /\ first \in {"backup", "open"}
  <2>1. CASE AppendEntry(p)
    <3>1. Content \o <<Id(p)>> \in Contents
      BY <1>1, ContentIsContent DEF IInv, Contents
    <3> QED BY <2>1, <3>1 DEF AppendEntry
  <2>2. CASE Write(p)
    <3>1. PICK size \in 1 .. MaxSize, backup \in BOOLEAN :
             Begins(p, [i \in 1 .. size |-> Id(p)],
                    IF backup /\ file # None THEN "backup" ELSE "open")
      BY <2>2 DEF Write
    <3>2. [i \in 1 .. size |-> Id(p)] \in Contents
      BY <1>1 DEF Contents
    <3> QED BY <3>1, <3>2
  <2> QED BY <2>1, <2>2 DEF Begin
<1>3. count'[p] \in 0 .. MaxWrites
  BY <1>2 DEF Begins, IInv, TypeOK
<1> QED BY <1>2, <1>3 DEF Begins, Goes, IInv, TypeOK, files, lock, kept

\* The chunk a process copies next.
LEMMA CopiesItsChunk ==
    ASSUME IInv, NEW p \in Procs, CopyChunk(p)
    PROVE  /\ out[p] \in Inodes /\ pos[p] \in Nat /\ data[out[p]] \in Contents
           /\ data[out[p]][pos[p] + 1] \in Ids
<1>1. out[p] \in Inodes /\ pos[p] \in Nat
  BY DEF IInv, TypeOK, PlaceInv, Place, CopyChunk
<1>2. data[out[p]] \in Contents
  BY <1>1 DEF IInv, TypeOK
<1> QED BY <1>1, <1>2 DEF CopyChunk, Contents

LEMMA CopyIsTyped ==
    ASSUME IInv, NEW p \in Procs, OpenBackup(p) \/ CopyChunk(p) \/ CloseBackup(p)
    PROVE  TypeOK'
<1>1. <<>> \in Contents BY DEF Contents
<1>2. CASE OpenBackup(p)
  <2>1. now \in 0 .. MaxTime
    BY WriterAssumption DEF WriterAssumption, IInv, TypeOK
  <2>2. DOMAIN backups' \subseteq 0 .. MaxTime /\ \A t \in DOMAIN backups' : backups'[t] \in Contents
    BY <1>1, <1>2, <2>1 DEF OpenBackup, IInv, TypeOK
  <2>3. saved' \in [Procs -> (0 .. MaxTime) \cup {None}] /\ torn' \subseteq 0 .. MaxTime
    BY <1>2, <2>1 DEF OpenBackup, IInv, TypeOK
  <2>4. out' \in [Procs -> Inodes \cup {None}]
    BY <1>2 DEF OpenBackup, IInv, TypeOK
  <2> QED BY <1>2, <2>2, <2>3, <2>4 DEF OpenBackup, Goes, files, lock, IInv, TypeOK
<1>3. CASE CopyChunk(p)
  <2>1. /\ out[p] \in Inodes /\ pos[p] \in Nat /\ data[out[p]][pos[p] + 1] \in Ids
    BY <1>3, CopiesItsChunk
  <2>2. \A t \in DOMAIN backups : Put(backups[t], pos[p] + 1, data[out[p]][pos[p] + 1]) \in Contents
    BY <2>1, PutIsContent DEF IInv, TypeOK
  <2>3. DOMAIN backups' \subseteq 0 .. MaxTime /\ \A t \in DOMAIN backups' : backups'[t] \in Contents
    BY <1>3, <2>2 DEF CopyChunk, IInv, TypeOK
  <2>4. pos' \in [Procs -> Nat] BY <1>3, <2>1 DEF CopyChunk, IInv, TypeOK
  <2> QED BY <1>3, <2>3, <2>4 DEF CopyChunk, files, lock, own, IInv, TypeOK
<1>4. CASE CloseBackup(p)
  BY <1>4 DEF CloseBackup, Closes, Goes, files, lock, own, kept, IInv, TypeOK
<1> QED BY <1>2, <1>3, <1>4

LEMMA BreaksOffIsTyped ==
    ASSUME IInv, NEW p \in Procs, BreaksOff(p)
    PROVE  saved' \in [Procs -> (0 .. MaxTime) \cup {None}] /\ torn' \subseteq 0 .. MaxTime
<1>1. saved \in [Procs -> (0 .. MaxTime) \cup {None}] /\ torn \subseteq 0 .. MaxTime
  BY DEF IInv, TypeOK
<1>2. CASE pc[p] = "copy"
  <2>1. saved[p] \in 0 .. MaxTime BY <1>1, <1>2 DEF IInv, PlaceInv, Place
  <2> QED BY <1>1, <1>2, <2>1 DEF BreaksOff
<1>3. CASE pc[p] # "copy"
  BY <1>1, <1>3 DEF BreaksOff
<1> QED BY <1>2, <1>3

LEMMA BackupIsTyped ==
    ASSUME IInv, NEW p \in Procs, SkipBackup(p) \/ PruneBackups(p) \/ BackupRaises(p)
    PROVE  TypeOK'
<1>1. CASE SkipBackup(p)
  BY <1>1 DEF SkipBackup, Goes, files, lock, own, kept, IInv, TypeOK
<1>3. Newest \subseteq DOMAIN backups
  BY DEF Newest, Fresh
<1>4. CASE PruneBackups(p)
  <2>1. DOMAIN backups' \subseteq 0 .. MaxTime /\ \A t \in DOMAIN backups' : backups'[t] \in Contents
    BY <1>3, <1>4 DEF PruneBackups, IInv, TypeOK
  <2> QED BY <1>4, <2>1 DEF PruneBackups, Goes, files, lock, own, IInv, TypeOK
<1>5. CASE BackupRaises(p)
  <2>1. DOMAIN backups' \subseteq 0 .. MaxTime /\ \A t \in DOMAIN backups' : backups'[t] \in Contents
    BY <1>3, <1>5 DEF BackupRaises, IInv, TypeOK
  <2>2. saved' \in [Procs -> (0 .. MaxTime) \cup {None}] /\ torn' \subseteq 0 .. MaxTime
    BY <1>5, BreaksOffIsTyped DEF BackupRaises
  <2> QED BY <1>5, <2>1, <2>2 DEF BackupRaises, Closes, Goes, Ends, files, lock, IInv, TypeOK
<1> QED BY <1>1, <1>4, <1>5

LEMMA LockIsTyped ==
    ASSUME IInv, NEW p \in Procs,
           OpenLock(p) \/ Lock(p) \/ LockExpires(p) \/ UnlinkLock(p) \/ Unlock(p)
    PROVE  TypeOK'
<1>1. CASE OpenLock(p)
  BY <1>1, OpenLockOpens DEF OpenLock, Goes, files, own, kept, IInv, TypeOK
<1>2. CASE Lock(p)
  BY <1>2 DEF Lock, Goes, files, own, kept, IInv, TypeOK
<1>3. CASE LockExpires(p)
  BY <1>3 DEF LockExpires, Goes, files, own, kept, IInv, TypeOK
<1>4. CASE UnlinkLock(p)
  BY <1>4 DEF UnlinkLock, Goes, Ends, files, kept, IInv, TypeOK
<1>5. CASE Unlock(p)
  BY <1>5 DEF Unlock, Goes, files, own, kept, IInv, TypeOK
<1> QED BY <1>1, <1>2, <1>3, <1>4, <1>5

\* The chunk a process writes next.
LEMMA WritesItsChunk ==
    ASSUME IInv, NEW p \in Procs, WriteChunk(p)
    PROVE  /\ out[p] \in Inodes /\ pos[p] \in Nat
           /\ want[p][pos[p] + 1] \in Ids
           /\ data' = [data EXCEPT ![out[p]] =
                          Put(data[out[p]], pos[p] + 1, want[p][pos[p] + 1])]
           /\ data' \in [Inodes -> Contents]
<1>1. out[p] \in Inodes /\ pos[p] \in Nat
  BY DEF IInv, TypeOK, PlaceInv, Place, WriteChunk
<1>2. want[p] \in Contents /\ data[out[p]] \in Contents
  BY <1>1 DEF IInv, TypeOK
<1>3. want[p][pos[p] + 1] \in Ids
  BY <1>1, <1>2 DEF WriteChunk, Contents
<1>4. Put(data[out[p]], pos[p] + 1, want[p][pos[p] + 1]) \in Contents
  BY <1>1, <1>2, <1>3, PutIsContent
<1>5. data' = [data EXCEPT ![out[p]] =
                 Put(data[out[p]], pos[p] + 1, want[p][pos[p] + 1])]
  BY DEF WriteChunk
<1>6. data' \in [Inodes -> Contents]
  BY <1>1, <1>4, <1>5 DEF IInv, TypeOK
<1> QED BY <1>1, <1>3, <1>5, <1>6

LEMMA FillIsTyped ==
    ASSUME IInv, NEW p \in Procs,
           \/ CreateTmp(p) \/ WriteChunk(p) \/ CloseTmp(p) \/ Rename(p) \/ WriteFails(p)
           \/ UnlinkTmp(p) \/ Verify(p)
    PROVE  TypeOK'
<1>1. CASE CreateTmp(p)
  <2>1. <<>> \in Contents BY DEF Contents
  <2> QED BY <1>1, <2>1, CreateTmpOpens DEF CreateTmp, Goes, lock, own, kept, IInv, TypeOK
<1>2. CASE WriteChunk(p)
  <2>1. pos' \in [Procs -> Nat]
    BY <1>2, WritesItsChunk DEF WriteChunk, IInv, TypeOK
  <2> QED BY <1>2, <2>1, WritesItsChunk DEF WriteChunk, lock, own, kept, IInv, TypeOK
<1>3. CASE CloseTmp(p)
  BY <1>3 DEF CloseTmp, Closes, Goes, files, lock, own, kept, IInv, TypeOK
<1>4. CASE Rename(p)
  BY <1>4 DEF Rename, Goes, lock, kept, IInv, TypeOK
<1>5. CASE WriteFails(p)
  BY <1>5 DEF WriteFails, Closes, Goes, files, lock, own, kept, IInv, TypeOK
<1>6. CASE UnlinkTmp(p)
  BY <1>6 DEF UnlinkTmp, Goes, Ends, lock, kept, IInv, TypeOK
<1>7. CASE Verify(p)
  BY <1>7 DEF Verify, Goes, Ends, files, lock, kept, IInv, TypeOK
<1> QED BY <1>1, <1>2, <1>3, <1>4, <1>5, <1>6, <1>7

LEMMA CrashIsTyped ==
    ASSUME IInv, NEW p \in Procs, Crash(p)
    PROVE  TypeOK'
BY BreaksOffIsTyped DEF Crash, Closes, Goes, Ends, files, IInv, TypeOK

LEMMA Typing == IInv /\ [Next]_vars => TypeOK'
<1> SUFFICES ASSUME IInv, [Next]_vars PROVE TypeOK' OBVIOUS
<1>1. CASE Tick
  BY <1>1, WriterAssumption DEF WriterAssumption, Tick, files, lock, own, IInv, TypeOK
<1>2. CASE UNCHANGED vars
  BY <1>2 DEF vars, files, lock, own, kept, IInv, TypeOK
<1>3. ASSUME NEW p \in Procs, Step(p) PROVE TypeOK'
  BY <1>3, BeginsIsTyped, CopyIsTyped, BackupIsTyped, LockIsTyped, FillIsTyped, CrashIsTyped
     DEF Step, Works
<1> QED BY <1>1, <1>2, <1>3 DEF Next

-----------------------------------------------------------------------------
(* Places and locks.                                                       *)

\* A step of p changes the place, the files and the outcome of p alone.
Mine(p) ==
    \A q \in Procs \ {p} :
        /\ pc'[q] = pc[q] /\ fd'[q] = fd[q] /\ out'[q] = out[q] /\ pos'[q] = pos[q]
        /\ want'[q] = want[q] /\ placed'[q] = placed[q] /\ count'[q] = count[q]
        /\ saved'[q] = saved[q]

LEMMA StepsAreMine ==
    ASSUME IInv, NEW p \in Procs, Step(p) PROVE Mine(p)
<1>1. CASE Begin(p)
  BY <1>1 DEF Begin, Write, AppendEntry, Begins, Goes, lock, IInv, TypeOK, Mine
<1>2. CASE SkipBackup(p) \/ OpenBackup(p) \/ PruneBackups(p) \/ BackupRaises(p)
  BY <1>2 DEF SkipBackup, OpenBackup, PruneBackups, BackupRaises, Closes, BreaksOff, Goes, Ends,
     lock, own, IInv, TypeOK, Mine
<1>7. CASE CopyChunk(p) \/ CloseBackup(p)
  BY <1>7 DEF CopyChunk, CloseBackup, Closes, Goes, lock, own, IInv, TypeOK, Mine
<1>3. CASE OpenLock(p) \/ Lock(p) \/ LockExpires(p) \/ UnlinkLock(p) \/ Unlock(p)
  BY <1>3, OpenLockOpens DEF OpenLock, Lock, LockExpires, UnlinkLock, Unlock, Goes, Ends, own,
     IInv, TypeOK, Mine
<1>4. CASE CreateTmp(p)
  BY <1>4, CreateTmpOpens DEF CreateTmp, Goes, lock, own, IInv, TypeOK, Mine
<1>5. CASE WriteChunk(p) \/ CloseTmp(p) \/ Rename(p) \/ WriteFails(p)
  BY <1>5 DEF WriteChunk, CloseTmp, Rename, WriteFails, Closes, Goes, lock, own,
     IInv, TypeOK, Mine
<1>6. CASE UnlinkTmp(p) \/ Verify(p) \/ Crash(p)
  BY <1>6 DEF UnlinkTmp, Verify, Crash, Closes, BreaksOff, Goes, Ends, lock, IInv, TypeOK, Mine
<1> QED BY <1>1, <1>2, <1>3, <1>4, <1>5, <1>6, <1>7 DEF Step, Works

\* The file is never deleted.
LEMMA FileStays ==
    ASSUME NEW p \in Procs, Step(p), file # None PROVE file' # None
BY DEF Step, Begin, Write, AppendEntry, Begins, Works, SkipBackup, OpenBackup, CopyChunk,
   CloseBackup, PruneBackups, BackupRaises, OpenLock, Lock, LockExpires, UnlinkLock, Unlock,
   CreateTmp, WriteChunk, CloseTmp, Rename, WriteFails, UnlinkTmp, Verify, Crash, files

LEMMA PlaceKept == ASSUME IInv, NEW p \in Procs, Step(p) PROVE Place(p)'
<1> USE NoneIsApart DEF HasLock, InWrite, Place
<1>1. Place(p) BY DEF IInv, PlaceInv
<1>2. CASE Begin(p)
  <2>1. PICK content, first : /\ Begins(p, content, first) /\ first \in {"backup", "open"}
                              /\ first = "backup" => file # None
    <3>1. CASE AppendEntry(p) BY <3>1 DEF AppendEntry
    <3>2. CASE Write(p)
      <4>1. PICK size \in 1 .. MaxSize, backup \in BOOLEAN :
               Begins(p, [i \in 1 .. size |-> Id(p)],
                      IF backup /\ file # None THEN "backup" ELSE "open")
        BY <3>2 DEF Write
      <4> QED BY <4>1
    <3> QED BY <1>2, <3>1, <3>2 DEF Begin
  <2>2. /\ pc'[p] = first /\ pc[p] = "idle" /\ placed'[p] = FALSE
        /\ out' = out /\ pos' = pos /\ fd' = fd /\ file' = file
    BY <2>1 DEF Begins, Goes, files, lock, IInv, TypeOK
  <2> QED BY <1>1, <2>1, <2>2
<1>3. CASE SkipBackup(p) \/ PruneBackups(p) \/ BackupRaises(p)
  BY <1>1, <1>3 DEF SkipBackup, PruneBackups, BackupRaises, Closes, BreaksOff, Goes, Ends,
     lock, own, files, IInv, TypeOK
<1>9. CASE OpenBackup(p)
  <2>1. now # None BY DEF IInv, TypeOK
  <2> QED BY <1>1, <1>9, <2>1 DEF OpenBackup, Goes, lock, files, IInv, TypeOK
<1>10. CASE CopyChunk(p) \/ CloseBackup(p)
  BY <1>1, <1>10 DEF CopyChunk, CloseBackup, Closes, Goes, lock, own, files, IInv, TypeOK
<1>4. CASE OpenLock(p)
  <2>1. lockFile' \in Inodes /\ fd' = [fd EXCEPT ![p] = lockFile']
    BY <1>4, OpenLockOpens
  <2>2. fd'[p] \in Inodes /\ fd'[p] # None
    BY <2>1 DEF IInv, TypeOK
  <2> QED BY <1>1, <1>4, <2>2 DEF OpenLock, Goes, own, IInv, TypeOK
<1>5. CASE Lock(p) \/ LockExpires(p) \/ UnlinkLock(p) \/ Unlock(p)
  BY <1>1, <1>5 DEF Lock, LockExpires, UnlinkLock, Unlock, Goes, Ends, own, files, IInv, TypeOK
<1>6. CASE CreateTmp(p)
  BY <1>1, <1>6, CreateTmpOpens DEF CreateTmp, Goes, lock, own, IInv, TypeOK
<1>7. CASE WriteChunk(p) \/ CloseTmp(p) \/ Rename(p) \/ WriteFails(p)
  BY <1>1, <1>7 DEF WriteChunk, CloseTmp, Rename, WriteFails, Closes, Goes, lock, own,
     IInv, TypeOK
<1>8. CASE UnlinkTmp(p) \/ Verify(p) \/ Crash(p)
  BY <1>1, <1>8 DEF UnlinkTmp, Verify, Crash, Closes, BreaksOff, Goes, Ends, lock, files,
     IInv, TypeOK
<1> QED BY <1>2, <1>3, <1>4, <1>5, <1>6, <1>7, <1>8, <1>9, <1>10 DEF Step, Works

\* What a step does to the locks.
LEMMA LocksMove ==
    ASSUME IInv, NEW p \in Procs, Step(p)
    PROVE  \/ Lock(p)
           \/ Unlock(p)
           \/ Crash(p)
           \/ /\ holder' = holder
              /\ Guarded(p)' => Guarded(p) /\ fd' = fd
<1> USE NoneIsApart DEF HasLock, InWrite, Guarded
<1>1. Place(p) BY DEF IInv, PlaceInv
<1>2. CASE Begin(p)
  <2>1. PICK content, first : Begins(p, content, first) /\ first \in {"backup", "open"}
    BY <1>2 DEF Begin, Write, AppendEntry
  <2> QED BY <2>1 DEF Begins, Goes, lock, IInv, TypeOK
<1>3. CASE \/ SkipBackup(p) \/ OpenBackup(p) \/ CopyChunk(p) \/ CloseBackup(p)
           \/ PruneBackups(p) \/ BackupRaises(p)
  BY <1>3 DEF SkipBackup, OpenBackup, CopyChunk, CloseBackup, PruneBackups, BackupRaises,
     Closes, Goes, Ends, lock, own, IInv, TypeOK
<1>4. CASE OpenLock(p)
  BY <1>4 DEF OpenLock, Goes, own, IInv, TypeOK
<1>5. CASE LockExpires(p) \/ UnlinkLock(p)
  BY <1>1, <1>5 DEF Place, LockExpires, UnlinkLock, Goes, Ends, own, IInv, TypeOK
<1>6. CASE CreateTmp(p) \/ WriteChunk(p) \/ CloseTmp(p) \/ Rename(p) \/ WriteFails(p)
  BY <1>6 DEF CreateTmp, WriteChunk, CloseTmp, Rename, WriteFails, Closes, Goes, lock, own,
     IInv, TypeOK
<1>7. CASE UnlinkTmp(p) \/ Verify(p)
  BY <1>7 DEF UnlinkTmp, Verify, Goes, Ends, lock, IInv, TypeOK
<1> QED BY <1>2, <1>3, <1>4, <1>5, <1>6, <1>7 DEF Step, Works

LEMMA HeldKept == ASSUME IInv, NEW p \in Procs, Step(p) PROVE HeldInv'
<1> USE NoneIsApart DEF HasLock, InWrite, Guarded
<1>1. Mine(p) /\ Place(p) BY StepsAreMine DEF IInv, PlaceInv
<1>2. fd \in [Procs -> Inodes \cup {None}] /\ holder \in [Inodes -> Procs \cup {None}]
      /\ p \in DOMAIN pc
  BY DEF IInv, TypeOK
<1>3. \A q \in Procs : Guarded(q) => fd[q] \in Inodes /\ holder[fd[q]] = q
  BY <1>2 DEF IInv, HeldInv, PlaceInv, Place
<1> SUFFICES ASSUME NEW q \in Procs, Guarded(q)' PROVE holder'[fd'[q]] = q
  BY DEF HeldInv
<1>4. CASE Lock(p)
  BY <1>1, <1>2, <1>3, <1>4 DEF Lock, Mine, Goes, Place
<1>5. CASE Unlock(p)
  BY <1>1, <1>2, <1>3, <1>5 DEF Unlock, Mine, Goes
<1>6. CASE Crash(p)
  BY <1>1, <1>2, <1>3, <1>6 DEF Crash, Mine, Goes, Ends
<1>7. CASE /\ holder' = holder
           /\ Guarded(p)' => Guarded(p) /\ fd' = fd
  BY <1>1, <1>2, <1>3, <1>7 DEF Mine
<1> QED BY <1>4, <1>5, <1>6, <1>7, LocksMove

LEMMA Inductive == IInv /\ [Next]_vars => IInv'
<1> SUFFICES ASSUME IInv, [Next]_vars PROVE IInv' OBVIOUS
<1>1. TypeOK' BY Typing
<1>2. CASE Tick \/ UNCHANGED vars
  BY <1>1, <1>2 DEF Tick, vars, files, lock, own, IInv, PlaceInv, Place, HeldInv, Guarded
<1>3. ASSUME NEW p \in Procs, Step(p) PROVE IInv'
  <2>1. Place(p)' /\ Mine(p) /\ HeldInv' BY <1>3, PlaceKept, StepsAreMine, HeldKept
  <2>2. \A q \in Procs \ {p} : Place(q)'
    BY <1>3, <2>1, FileStays DEF Mine, IInv, PlaceInv, Place
  <2> QED BY <1>1, <2>1, <2>2 DEF IInv, PlaceInv
<1> QED BY <1>2, <1>3 DEF Next

(* The variables of the writer keep their types, for any processes, writes,  *)
(* sizes and crashes.                                                        *)
THEOREM TypeCorrect == Spec => []TypeOK
<1>1. IInv => TypeOK BY DEF IInv
<1> QED BY InitIsGood, Inductive, <1>1, PTL DEF Spec

-----------------------------------------------------------------------------
(* The temporary file, while writes do not overlap.                        *)

LEMMA InitFile == Init => FileInv
BY DEF Init, FileInv, Filled

\* Steps that leave the files alone.
LEMMA QuietSteps ==
    ASSUME IInv, FileInv, NEW p \in Procs,
           \/ Begin(p) \/ SkipBackup(p) \/ OpenBackup(p) \/ CopyChunk(p) \/ CloseBackup(p)
           \/ PruneBackups(p) \/ BackupRaises(p) \/ OpenLock(p) \/ Lock(p) \/ LockExpires(p) \/ UnlinkLock(p)
           \/ Unlock(p) \/ Verify(p) \/ WriteFails(p) \/ Crash(p)
    PROVE  FileInv'
<1>1. UNCHANGED files
  BY DEF Begin, Write, AppendEntry, Begins, SkipBackup, OpenBackup, CopyChunk, CloseBackup,
     PruneBackups, BackupRaises, OpenLock, Lock, LockExpires, UnlinkLock, Unlock, Verify, WriteFails, Crash
<1>2. pc'[p] \notin {"fill", "rename"}
  <2>1. CASE Begin(p)
    <3>1. PICK content, first : Begins(p, content, first) /\ first \in {"backup", "open"}
      BY <2>1 DEF Begin, Write, AppendEntry
    <3> QED BY <3>1 DEF Begins, Goes, IInv, TypeOK
  <2>2. CASE \/ SkipBackup(p) \/ OpenBackup(p) \/ CopyChunk(p) \/ CloseBackup(p)
             \/ PruneBackups(p) \/ BackupRaises(p)
             \/ OpenLock(p) \/ Lock(p) \/ LockExpires(p) \/ UnlinkLock(p)
             \/ Unlock(p) \/ Verify(p) \/ WriteFails(p) \/ Crash(p)
    BY <2>2 DEF SkipBackup, OpenBackup, CopyChunk, CloseBackup, PruneBackups, BackupRaises,
       OpenLock, Lock, LockExpires, UnlinkLock, Unlock, Verify, WriteFails, Crash, Goes, Ends,
       IInv, TypeOK
  <2> QED BY <2>1, <2>2
<1>3. Mine(p) BY StepsAreMine DEF Step, Works
<1>4. \A q \in Procs : pc'[q] \in {"fill", "rename"} => q # p
  BY <1>2
<1> QED BY <1>1, <1>3, <1>4 DEF Mine, files, FileInv, Filled

\* The process that writes is the only one.
LEMMA WriterAlone ==
    ASSUME FileInv, Exclusive, NEW p \in Procs, pc[p] \in InWrite, Mine(p), Filled(p)',
           tmp' # None => tmp' # file'
    PROVE  FileInv'
<1>1. \A q \in Procs \ {p} : pc'[q] \notin InWrite
  BY DEF Exclusive, Mine
<1> QED BY <1>1 DEF FileInv, Filled, InWrite

LEMMA CreateFills ==
    ASSUME IInv, FileInv, NEW p \in Procs, CreateTmp(p)
    PROVE  Filled(p)' /\ tmp' # file' /\ Content' = Content
<1>1. /\ tmp' \in Inodes
      /\ data' = [data EXCEPT ![tmp'] = <<>>] /\ out' = [out EXCEPT ![p] = tmp']
      /\ tmp' # file
  BY CreateTmpOpens DEF FileInv
<1>2. /\ pc'[p] = "fill" /\ pos'[p] = pos[p] /\ out'[p] = tmp' /\ data'[tmp'] = <<>>
      /\ file' = file /\ want' = want
  BY <1>1 DEF CreateTmp, Goes, own, IInv, TypeOK
<1>3. pos[p] = 0 /\ Len(want[p]) \in Nat
  <2>1. pc[p] = "create" /\ Place(p) /\ want[p] \in Seq(Ids)
    BY DEF IInv, TypeOK, PlaceInv, CreateTmp, Contents
  <2> QED BY <2>1 DEF Place
<1>4. Content' = Content
  BY <1>1, <1>2 DEF Content, IInv, TypeOK
<1> QED BY <1>1, <1>2, <1>3, <1>4 DEF Filled

LEMMA ChunkFills ==
    ASSUME IInv, FileInv, NEW p \in Procs, WriteChunk(p)
    PROVE  Filled(p)' /\ tmp' = tmp /\ file' = file /\ Content' = Content
<1> DEFINE n == pos[p] + 1
           new == Put(data[out[p]], n, want[p][n])
<1>1. /\ out[p] \in Inodes /\ pos[p] \in Nat /\ want[p][n] \in Ids
      /\ data' = [data EXCEPT ![out[p]] = new]
  BY WritesItsChunk
<1>2. /\ pc[p] = "fill" /\ out[p] # file /\ tmp \in {None, out[p]}
      /\ Len(data[out[p]]) = pos[p] /\ \A i \in 1 .. pos[p] : data[out[p]][i] = want[p][i]
  BY DEF WriteChunk, FileInv, Filled
<1>3. data[out[p]] \in Contents /\ want[p] \in Contents
  BY <1>1 DEF IInv, TypeOK
<1>4. Len(new) = n /\ (\A i \in 1 .. pos[p] : new[i] = data[out[p]][i]) /\ new[n] = want[p][n]
  <2> DEFINE s == data[out[p]]
             c == want[p][n]
  <2>1. s \in Contents /\ c \in Ids /\ Len(s) = pos[p]
    BY <1>1, <1>2, <1>3
  <2> HIDE DEF s, c
  <2>2. /\ Len(Put(s, Len(s) + 1, c)) = Len(s) + 1
        /\ \A i \in 1 .. Len(s) : Put(s, Len(s) + 1, c)[i] = s[i]
        /\ Put(s, Len(s) + 1, c)[Len(s) + 1] = c
    BY <2>1, PutNext
  <2>3. Len(Put(s, n, c)) = n /\ (\A i \in 1 .. pos[p] : Put(s, n, c)[i] = s[i]) /\ Put(s, n, c)[n] = c
    BY <2>1, <2>2
  <2> QED BY <2>3 DEF s, c
<1>5. /\ pc' = pc /\ pos'[p] = n /\ out' = out /\ want' = want /\ file' = file /\ tmp' = tmp
      /\ pos[p] < Len(want[p])
  BY DEF WriteChunk, own, IInv, TypeOK
<1>6. data'[out[p]] = new
  BY <1>1 DEF IInv, TypeOK
<1>7. Content' = Content
  BY <1>1, <1>2, <1>5 DEF Content, IInv, TypeOK
<1>8. \A i \in 1 .. n : new[i] = want[p][i]
  BY <1>1, <1>2, <1>4
<1>9. Len(want[p]) \in Nat /\ n <= Len(want[p])
  BY <1>1, <1>3, <1>5 DEF Contents
<1> HIDE DEF new
<1> QED BY <1>2, <1>4, <1>5, <1>6, <1>7, <1>8, <1>9 DEF Filled

LEMMA CloseFills ==
    ASSUME IInv, FileInv, NEW p \in Procs, CloseTmp(p)
    PROVE  Filled(p)' /\ tmp' = tmp /\ file' = file /\ Content' = Content
<1>1. /\ pc[p] = "fill" /\ pos[p] = Len(want[p]) /\ pc'[p] = "rename"
      /\ UNCHANGED <<file, tmp, data, want>>
  BY DEF CloseTmp, Goes, files, own, IInv, TypeOK
<1>2. tmp = None \/ data[tmp] = want[p]
  <2>1. CASE tmp = None BY <2>1
  <2>2. CASE tmp # None
    <3>1. tmp = out[p] /\ Len(data[tmp]) = Len(want[p])
          /\ \A i \in 1 .. Len(want[p]) : data[tmp][i] = want[p][i]
      BY <1>1, <2>2 DEF FileInv, Filled
    <3>2. data[tmp] \in Seq(Ids) /\ want[p] \in Seq(Ids)
      BY <2>2 DEF IInv, TypeOK, Contents
    <3> QED BY <3>1, <3>2, SeqEqual
  <2> QED BY <2>1, <2>2
<1> QED BY <1>1, <1>2 DEF Filled, Content

LEMMA RenamePlaces ==
    ASSUME IInv, FileInv, NEW p \in Procs, Rename(p)
    PROVE  /\ Filled(p)' /\ (tmp' # None => tmp' # file')
           /\ \/ Content' = want[p] /\ placed' = [placed EXCEPT ![p] = TRUE]
              \/ Content' = Content /\ placed' = placed
<1>1. pc'[p] \notin {"fill", "rename"}
  BY DEF Rename, Goes, IInv, TypeOK
<1>2. tmp # None => data[tmp] = want[p]
  BY DEF Rename, FileInv, Filled
<1> QED BY <1>1, <1>2 DEF Rename, Filled, Content, FileInv

LEMMA UnlinkedFile ==
    ASSUME IInv, FileInv, NEW p \in Procs, UnlinkTmp(p)
    PROVE  FileInv'
<1>1. Mine(p) BY StepsAreMine DEF Step, Works
<1>2. pc'[p] \notin {"fill", "rename"}
  BY DEF UnlinkTmp, Goes, Ends, IInv, TypeOK
<1> QED BY <1>1, <1>2 DEF UnlinkTmp, Mine, FileInv, Filled

LEMMA FileKept == IInv /\ FileInv /\ Exclusive /\ [Next]_vars => FileInv'
<1> SUFFICES ASSUME IInv, FileInv, Exclusive, [Next]_vars PROVE FileInv' OBVIOUS
<1>1. CASE Tick \/ UNCHANGED vars
  BY <1>1 DEF Tick, vars, files, own, FileInv, Filled
<1>2. ASSUME NEW p \in Procs, Step(p) PROVE FileInv'
  <2>1. CASE CreateTmp(p) \/ WriteChunk(p) \/ CloseTmp(p) \/ Rename(p)
    <3>1. pc[p] \in InWrite
      BY <2>1 DEF InWrite, CreateTmp, WriteChunk, CloseTmp, Rename
    <3>2. Filled(p)' /\ (tmp' # None => tmp' # file')
      BY <2>1, CreateFills, ChunkFills, CloseFills, RenamePlaces DEF FileInv
    <3> QED BY <1>2, <3>1, <3>2, WriterAlone, StepsAreMine
  <2>2. CASE ~(CreateTmp(p) \/ WriteChunk(p) \/ CloseTmp(p) \/ Rename(p))
    BY <1>2, <2>2, QuietSteps, UnlinkedFile DEF Step, Works
  <2> QED BY <2>1, <2>2
<1> QED BY <1>1, <1>2 DEF Next

-----------------------------------------------------------------------------
(* The abstract file.                                                      *)

\* The state of a process in the abstract file.
State(p) == IF pc[p] = "idle" THEN "idle" ELSE IF placed[p] THEN "written" ELSE "writing"

LEMMA InitRefines == Init => Promise!Init
<1> SUFFICES ASSUME Init PROVE Promise!Init OBVIOUS
<1>1. Content \in {<<>>, <<Old>>}
  <2> DEFINE i0 == CHOOSE i \in Inodes : TRUE
  <2>1. i0 \in Inodes BY InodesExist
  <2>2. file \in {None, i0} /\ data = [i \in Inodes |-> <<Old>>]
    BY DEF Init
  <2> HIDE DEF i0
  <2> QED BY <2>1, <2>2 DEF Content
<1>2. <<>> \in Contents BY DEF Contents
<1> QED BY <1>1, <1>2 DEF Init, Promise!Init

\* A step that the abstract file does not see.
LEMMA StutterRefines ==
    ASSUME Content' = Content, want' = want, result' = result,
           \A p \in Procs : State(p)' = State(p)
    PROVE  UNCHANGED Promise!vars
BY DEF Promise!vars, State

LEMMA ReturnRefines ==
    ASSUME IInv, NEW p \in Procs, NEW r, pc[p] # "idle", Ends(p, r), placed' = placed,
           Content' = Content, want' = want
    PROVE  Promise!Returns(p, r)
BY DEF Promise!Returns, Ends, Goes, IInv, TypeOK

LEMMA BeginRefines ==
    ASSUME IInv, NEW p \in Procs, Begin(p)
    PROVE  Promise!Invoke(p)
<1>1. PICK content, first : Begins(p, content, first) /\ first \in {"backup", "open"}
  BY DEF Begin, Write, AppendEntry
<1>2. Content' = Content /\ result' = result
  BY <1>1 DEF Begins, files, Content
<1>3. want' \in [Procs -> Contents]
  BY BeginsIsTyped DEF TypeOK
<1> QED BY <1>1, <1>2, <1>3 DEF Begins, Goes, Promise!Invoke, IInv, TypeOK

LEMMA RenameRefines ==
    ASSUME IInv, FileInv, NEW p \in Procs, Rename(p)
    PROVE  Promise!Publish(p) \/ UNCHANGED Promise!vars
<1>1. /\ pc[p] = "rename" /\ pc'[p] \in {"release", "failed"} /\ ~placed[p]
      /\ want' = want /\ result' = result
  BY DEF Rename, Goes, IInv, TypeOK, PlaceInv, Place
<1>2. Mine(p) BY StepsAreMine DEF Step, Works
<1>3. CASE Content' = want[p] /\ placed' = [placed EXCEPT ![p] = TRUE]
  <2>1. placed'[p] = TRUE /\ \A q \in Procs \ {p} : placed'[q] = placed[q] /\ pc'[q] = pc[q]
    BY <1>2, <1>3 DEF Mine, IInv, TypeOK
  <2>2. \A q \in Procs : State(q)' = IF q = p THEN "written" ELSE State(q)
    BY <1>1, <2>1 DEF State
  <2>3. State(p) = "writing"
    BY <1>1 DEF State
  <2> QED BY <1>1, <1>3, <2>2, <2>3 DEF Promise!Publish, State
<1>4. CASE Content' = Content /\ placed' = placed
  BY <1>1, <1>2, <1>4, StutterRefines DEF State, Mine
<1> QED BY <1>3, <1>4, RenamePlaces

LEMMA StepRefines ==
    ASSUME IInv, FileInv, NEW p \in Procs, Step(p)
    PROVE  Promise!Next \/ UNCHANGED Promise!vars
<1>1. CASE Begin(p)
  BY <1>1, BeginRefines DEF Promise!Next
<1>2. CASE Rename(p)
  BY <1>2, RenameRefines DEF Promise!Next
<1>3. CASE \/ SkipBackup(p) \/ OpenBackup(p) \/ CopyChunk(p) \/ CloseBackup(p)
           \/ PruneBackups(p) \/ OpenLock(p) \/ Lock(p)
           \/ LockExpires(p) \/ Unlock(p) \/ CreateTmp(p) \/ WriteChunk(p) \/ CloseTmp(p)
           \/ WriteFails(p)
  <2>1. Content' = Content
    BY <1>3, CreateFills, ChunkFills, CloseFills DEF SkipBackup, OpenBackup, CopyChunk,
       CloseBackup, PruneBackups, OpenLock, Lock, LockExpires, Unlock, WriteFails, files, Content
  <2>2. want' = want /\ result' = result /\ placed' = placed
    BY <1>3 DEF SkipBackup, OpenBackup, CopyChunk, CloseBackup, PruneBackups, OpenLock, Lock,
       LockExpires, Unlock, CreateTmp, WriteChunk, CloseTmp, WriteFails, own
  <2>3. pc[p] # "idle" /\ pc'[p] # "idle"
    BY <1>3 DEF SkipBackup, OpenBackup, CopyChunk, CloseBackup, PruneBackups, OpenLock, Lock,
       LockExpires, Unlock, CreateTmp, WriteChunk, CloseTmp, WriteFails, Goes, IInv, TypeOK
  <2>4. Mine(p) BY StepsAreMine
  <2> QED BY <2>1, <2>2, <2>3, <2>4, StutterRefines DEF State, Mine
<1>4. CASE BackupRaises(p)
  <2>1. ~placed[p] /\ pc[p] # "idle" /\ Ends(p, "error") /\ UNCHANGED <<placed, want, files>>
    BY <1>4 DEF BackupRaises, IInv, PlaceInv, Place
  <2> QED BY <2>1, ReturnRefines DEF Promise!Fail, Promise!Next, Content, files
<1>5. CASE UnlinkLock(p) \/ UnlinkTmp(p)
  <2>1. Content' = Content /\ placed' = placed /\ want' = want /\ pc[p] # "idle"
    BY <1>5 DEF UnlinkLock, UnlinkTmp, files, Content
  <2>2. CASE ~placed[p] /\ Ends(p, "error")
    BY <2>1, <2>2, ReturnRefines DEF Promise!Fail, Promise!Next
  <2>3. CASE result' = result /\ pc'[p] # "idle"
    <3>1. Mine(p) BY StepsAreMine
    <3> QED BY <2>1, <2>3, <3>1, StutterRefines DEF State, Mine
  <2>4. pc[p] = "failed" => ~placed[p]
    BY DEF IInv, PlaceInv, Place
  <2> QED BY <1>5, <2>2, <2>3, <2>4 DEF UnlinkLock, UnlinkTmp, Goes, IInv, TypeOK
<1>6. CASE Verify(p)
  <2>1. placed[p] /\ pc[p] # "idle" /\ UNCHANGED <<placed, want, files>>
    BY <1>6 DEF Verify, IInv, PlaceInv, Place
  <2>2. Content' = Content BY <2>1 DEF files, Content
  <2>3. CASE Ends(p, "verified")
    BY <2>1, <2>2, <2>3, ReturnRefines DEF Promise!Return, Promise!Next
  <2>4. CASE Ends(p, "unverified") /\ Content # want[p]
    BY <2>1, <2>2, <2>4, ReturnRefines DEF Promise!Return, Promise!Next
  <2> QED BY <1>6, <2>3, <2>4 DEF Verify
<1>7. CASE Crash(p)
  <2>1. pc[p] # "idle" /\ Ends(p, "crashed") /\ UNCHANGED <<placed, want, files>>
    BY <1>7 DEF Crash
  <2> QED BY <2>1, ReturnRefines DEF Promise!Crash, Promise!Next, Content, files
<1> QED BY <1>1, <1>2, <1>3, <1>4, <1>5, <1>6, <1>7 DEF Step, Works

LEMMA NextRefines == IInv /\ FileInv /\ [Next]_vars => [Promise!Next]_(Promise!vars)
<1> SUFFICES ASSUME IInv, FileInv, [Next]_vars
             PROVE  Promise!Next \/ UNCHANGED Promise!vars
  OBVIOUS
<1>1. CASE Tick \/ UNCHANGED vars
  <2>1. UNCHANGED <<file, data, want, result, pc, placed>>
    BY <1>1 DEF Tick, vars, files, own
  <2> QED BY <2>1 DEF Promise!vars, Content
<1> QED BY <1>1, StepRefines DEF Next

(* For any processes, writes and crashes: as long as no two processes are    *)
(* between their lock and their rename together, the file changes only as a  *)
(* whole and writes report the truth.                                        *)
THEOREM ApartWritesAreAtomic == Spec /\ []Exclusive => AllOrNothing
<1>1. IInv /\ FileInv /\ Exclusive /\ [Next]_vars => (IInv /\ FileInv)'
  BY Inductive, FileKept
<1>2. Init => IInv /\ FileInv BY InitIsGood, InitFile
<1> QED BY <1>1, <1>2, InitRefines, NextRefines, PTL DEF Spec, AllOrNothing, Promise!Spec

(* One process, which may write, crash and start again any number of times:  *)
(* readers never see half a write.                                           *)
THEOREM OneWriterIsAtomic ==
    ASSUME NEW a, Procs = {a}
    PROVE  Spec => AllOrNothing
<1>1. Exclusive BY DEF Exclusive
<1> QED BY <1>1, ApartWritesAreAtomic, PTL

-----------------------------------------------------------------------------
(* Two processes that write once each.                                     *)

\* p has opened its lock file, or will never do so.
Past(p) ==
    ~(pc[p] \in {"backup", "copy", "prune", "open"} \/ (pc[p] = "idle" /\ count[p] = 0))

\* The name of a lock file stays while somebody may still open it.
LockInv ==
    /\ \A p \in Procs : pc[p] \notin {"idle"} => count[p] # 0
    /\ \A p, q \in Procs : fd[p] # None /\ fd[q] # None => fd[p] = fd[q]
    /\ \A p, q \in Procs : p # q /\ fd[p] # None /\ ~Past(q) => lockFile = fd[p]

LEMMA InitLock == Init => LockInv
BY DEF Init, LockInv

LEMMA LockApart == IInv /\ LockInv => Exclusive
<1> SUFFICES ASSUME IInv, LockInv, NEW p \in Procs, NEW q \in Procs,
                    pc[p] \in InWrite, pc[q] \in InWrite
             PROVE  p = q
  BY DEF Exclusive
<1>1. /\ fd[p] # None /\ holder[fd[p]] = p /\ fd[q] # None /\ holder[fd[q]] = q
  BY DEF IInv, PlaceInv, Place, HeldInv, Guarded, HasLock
<1> QED BY <1>1 DEF LockInv

\* Only OpenLock and UnlinkLock change the name, and nobody opens a lock again.
LEMMA OtherLockSteps ==
    ASSUME MaxWrites = 1, IInv, LockInv, NEW p \in Procs, Step(p),
           ~OpenLock(p), ~UnlinkLock(p)
    PROVE  /\ lockFile' = lockFile /\ fd'[p] \in {fd[p], None}
           /\ pc'[p] # "idle" => count'[p] # 0
           /\ Past(p) => Past(p)'
<1>1. pc[p] # "idle" => count[p] # 0
  BY DEF LockInv
<1>2. CASE Begin(p)
  <2>1. PICK content, first : Begins(p, content, first) /\ first \in {"backup", "open"}
    BY <1>2 DEF Begin, Write, AppendEntry
  <2>2. pc[p] = "idle" /\ count[p] = 0 /\ count'[p] = 1 /\ lockFile' = lockFile /\ fd' = fd
    BY <2>1 DEF Begins, lock, IInv, TypeOK
  <2> QED BY <2>2 DEF Past
<1>3. CASE \/ SkipBackup(p) \/ OpenBackup(p) \/ CopyChunk(p) \/ CloseBackup(p)
           \/ PruneBackups(p) \/ BackupRaises(p)
  <2>1. /\ pc[p] \in {"backup", "copy", "prune"} /\ lockFile' = lockFile /\ fd' = fd
        /\ count' = count
    BY <1>3 DEF SkipBackup, OpenBackup, CopyChunk, CloseBackup, PruneBackups, BackupRaises,
       lock, own
  <2> QED BY <1>1, <2>1 DEF Past
<1>4. CASE Lock(p) \/ LockExpires(p) \/ Unlock(p)
  <2>1. /\ pc[p] \in {"lock", "release"} /\ pc'[p] \in {"create", "expired", "unlink"}
        /\ lockFile' = lockFile /\ fd'[p] \in {fd[p], None} /\ count' = count
    BY <1>4 DEF Lock, LockExpires, Unlock, Goes, own, IInv, TypeOK
  <2> QED BY <1>1, <2>1 DEF Past
<1>5. CASE CreateTmp(p) \/ WriteChunk(p) \/ CloseTmp(p) \/ Rename(p) \/ WriteFails(p)
  <2>1. /\ pc[p] \in {"create", "fill", "rename"}
        /\ pc'[p] \in {"fill", "rename", "release", "failed"}
        /\ lockFile' = lockFile /\ fd' = fd /\ count' = count
    BY <1>5 DEF CreateTmp, WriteChunk, CloseTmp, Rename, WriteFails, Goes, lock, own,
       IInv, TypeOK
  <2> QED BY <1>1, <2>1 DEF Past
<1>6. CASE UnlinkTmp(p) \/ Verify(p) \/ Crash(p)
  <2>1. /\ pc[p] # "idle" /\ pc'[p] \in {"release", "idle"}
        /\ lockFile' = lockFile /\ fd'[p] \in {fd[p], None} /\ count' = count
    BY <1>6 DEF UnlinkTmp, Verify, Crash, Goes, Ends, lock, IInv, TypeOK
  <2> QED BY <1>1, <2>1 DEF Past
<1> QED BY <1>2, <1>3, <1>4, <1>5, <1>6 DEF Step, Works

LEMMA LockKept ==
    ASSUME NEW a, NEW b, Procs = {a, b}, MaxWrites = 1, IInv, LockInv,
           NEW p \in Procs, Step(p)
    PROVE  LockInv'
<1>1. Mine(p) /\ Place(p) /\ Place(p)' BY StepsAreMine, PlaceKept DEF IInv, PlaceInv
<1>2. PICK q : Procs = {p, q}
  OBVIOUS
<1>3. CASE OpenLock(p)
  <2>1. /\ fd'[p] = lockFile' /\ lockFile' # None /\ (lockFile # None => lockFile' = lockFile)
        /\ ~Past(p) /\ pc'[p] = "lock" /\ pc[p] = "open" /\ count' = count
    BY <1>3, OpenLockOpens, NoneIsApart DEF OpenLock, Goes, own, Past, IInv, TypeOK
  <2>2. q # p /\ fd[q] # None => fd[q] = lockFile
    BY <1>2, <2>1 DEF LockInv
  <2>3. Past(p)'
    BY <2>1 DEF Past
  <2>4. q # p => fd'[q] = fd[q] /\ pc'[q] = pc[q] /\ count'[q] = count[q]
    BY <1>1, <1>2 DEF Mine
  <2>5. fd[q] # None => fd[q] \in Inodes
    BY <1>2 DEF IInv, TypeOK
  <2> QED BY <1>2, <2>1, <2>2, <2>3, <2>4, <2>5, NoneIsApart DEF LockInv
<1>4. CASE UnlinkLock(p)
  <2>1. /\ pc[p] \in {"expired", "unlink"} /\ fd' = fd /\ fd[p] = None /\ count' = count
        /\ count[p] # 0 /\ pc'[p] \in {"failed", "verify", "idle"}
    BY <1>1, <1>4 DEF UnlinkLock, Goes, Ends, Place, HasLock, InWrite, LockInv, IInv, TypeOK
  <2>2. Past(p)'
    BY <2>1 DEF Past
  <2> QED BY <1>1, <1>2, <2>1, <2>2 DEF LockInv, Mine
<1>5. CASE ~OpenLock(p) /\ ~UnlinkLock(p)
  <2>1. lockFile' = lockFile /\ fd'[p] \in {fd[p], None} /\ (pc'[p] # "idle" => count'[p] # 0)
        /\ (Past(p) => Past(p)')
    BY <1>5, OtherLockSteps
  <2>2. \A x \in Procs : fd'[x] \in {fd[x], None}
    BY <1>1, <2>1 DEF Mine
  <2>3. \A x \in Procs : Past(x) => Past(x)'
    BY <1>1, <2>1 DEF Mine, Past
  <2>4. \A x \in Procs : pc'[x] \notin {"idle"} => count'[x] # 0
    BY <1>1, <2>1 DEF Mine, LockInv
  <2> QED BY <2>1, <2>2, <2>3, <2>4 DEF LockInv
<1> QED BY <1>3, <1>4, <1>5

LEMMA TwoWritesApart ==
    ASSUME NEW a, NEW b, Procs = {a, b}, MaxWrites = 1
    PROVE  Spec => []Exclusive
<1>1. IInv /\ LockInv /\ [Next]_vars => (IInv /\ LockInv)'
  <2> SUFFICES ASSUME IInv, LockInv, [Next]_vars PROVE LockInv'
    BY Inductive
  <2>1. CASE Tick \/ UNCHANGED vars
    BY <2>1 DEF Tick, vars, lock, own, LockInv, Past
  <2>2. ASSUME NEW p \in Procs, Step(p) PROVE LockInv'
    BY <2>2, LockKept
  <2> QED BY <2>1, <2>2 DEF Next
<1>2. Init => IInv /\ LockInv BY InitIsGood, InitLock
<1> QED BY <1>1, <1>2, LockApart, PTL DEF Spec

(* Two processes that write once each, with timeouts and crashes: their      *)
(* writes are apart, so the file changes only as a whole.                    *)
THEOREM TwoWritesAreAtomic ==
    ASSUME NEW a, NEW b, Procs = {a, b}, MaxWrites = 1
    PROVE  Spec => AllOrNothing
BY TwoWritesApart, ApartWritesAreAtomic, PTL

-----------------------------------------------------------------------------
(* Whole files and their backups.                                          *)

\* Everything the file has, or will have, is the content of a write.
AskedInv ==
    /\ Content \in asked
    /\ \A p \in Procs : pc[p] # "idle" => want[p] \in asked

LEMMA InitAsked == Init => AskedInv
BY DEF Init, AskedInv

LEMMA BeginAsks ==
    ASSUME IInv, AskedInv, NEW p \in Procs, Begin(p)
    PROVE  AskedInv'
<1>1. PICK content, first : Begins(p, content, first)
  BY DEF Begin, Write, AppendEntry
<1>2. Content' = Content /\ asked' = asked \cup {content} /\ want'[p] = content
  BY <1>1 DEF Begins, files, Content, IInv, TypeOK
<1>3. Mine(p) BY StepsAreMine DEF Step
<1> QED BY <1>2, <1>3 DEF Mine, AskedInv

\* The content changes by a rename only.
LEMMA ContentKept ==
    ASSUME IInv, FileInv, NEW p \in Procs, Works(p) \/ Crash(p), ~Rename(p)
    PROVE  Content' = Content
<1>1. CASE CreateTmp(p) \/ WriteChunk(p) \/ CloseTmp(p)
  BY <1>1, CreateFills, ChunkFills, CloseFills
<1>2. CASE ~(CreateTmp(p) \/ WriteChunk(p) \/ CloseTmp(p))
  <2>1. UNCHANGED <<file, data>>
    BY <1>2 DEF Works, SkipBackup, OpenBackup, CopyChunk, CloseBackup, PruneBackups, BackupRaises,
       OpenLock, Lock,
       LockExpires, UnlinkLock, Unlock, WriteFails, UnlinkTmp, Verify, Crash, files
  <2> QED BY <2>1 DEF Content
<1> QED BY <1>1, <1>2

LEMMA WantKept ==
    ASSUME NEW p \in Procs, Works(p) \/ Crash(p)
    PROVE  want' = want /\ asked' = asked /\ pc[p] # "idle"
BY DEF Works, SkipBackup, OpenBackup, CopyChunk, CloseBackup, PruneBackups, BackupRaises,
       OpenLock, Lock,
   LockExpires, UnlinkLock, Unlock, CreateTmp, WriteChunk, CloseTmp, Rename, WriteFails,
   UnlinkTmp, Verify, Crash, own

LEMMA AskedKept == IInv /\ FileInv /\ AskedInv /\ [Next]_vars => AskedInv'
<1> SUFFICES ASSUME IInv, FileInv, AskedInv, [Next]_vars PROVE AskedInv' OBVIOUS
<1>1. CASE Tick \/ UNCHANGED vars
  BY <1>1 DEF Tick, vars, files, own, Content, AskedInv
<1>2. ASSUME NEW p \in Procs, Step(p) PROVE AskedInv'
  <2>1. CASE Begin(p) BY <2>1, BeginAsks
  <2>2. CASE Works(p) \/ Crash(p)
    <3>1. want' = want /\ asked' = asked /\ pc[p] # "idle" BY <2>2, WantKept
    <3>2. Content' \in {Content, want[p]} BY <2>2, ContentKept, RenamePlaces
    <3>3. \A q \in Procs : pc'[q] # "idle" => pc[q] # "idle"
      BY <1>2, <3>1, StepsAreMine DEF Mine
    <3> QED BY <3>1, <3>2, <3>3 DEF AskedInv
  <2> QED BY <1>2, <2>1, <2>2 DEF Step
<1> QED BY <1>1, <1>2 DEF Next

(* For any processes, writes and crashes: as long as no two processes are    *)
(* between their lock and their rename together, whoever reads the file      *)
(* finds the whole content of one write.                                     *)
THEOREM ApartFilesAreWhole == Spec /\ []Exclusive => []FileWhole
<1>1. IInv /\ FileInv /\ AskedInv /\ Exclusive /\ [Next]_vars => (IInv /\ FileInv /\ AskedInv)'
  BY Inductive, FileKept, AskedKept
<1>2. Init => IInv /\ FileInv /\ AskedInv BY InitIsGood, InitFile, InitAsked
<1>3. AskedInv => FileWhole BY DEF AskedInv, FileWhole
<1>4. IInv /\ FileInv /\ AskedInv /\ Exclusive /\ [Next]_vars => (IInv /\ FileInv /\ AskedInv)'
  BY Inductive, FileKept, AskedKept
<1> QED BY <1>1, <1>2, <1>3, <1>4, PTL DEF Spec

-----------------------------------------------------------------------------
(* Backups that are copied.                                                *)

\* A process that is the only one to copy to its backup has copied what it has read.
Copied(p) ==
    /\ \A q \in Procs : Copies(q, saved[p]) => q = p
    /\ Len(backups[saved[p]]) = pos[p]
    /\ \A i \in 1 .. pos[p] : backups[saved[p]][i] = data[out[p]][i]

\* What is copied is a whole content of the file, and nobody writes it any more.
Copying(p) ==
    pc[p] = "copy" =>
        /\ data[out[p]] \in asked /\ out[p] # tmp
        /\ \A q \in Procs : pc[q] = "fill" => out[q] # out[p]
        /\ pos[p] <= Len(data[out[p]])
        /\ saved[p] \in DOMAIN backups \ torn => Copied(p)

CopyInv == \A p \in Procs : Copying(p)

LEMMA OpenedCopies ==
    ASSUME IInv, FileInv, AskedInv, CopyInv, NEW p \in Procs, OpenBackup(p)
    PROVE  CopyInv'
<1> SUFFICES ASSUME NEW q \in Procs, pc'[q] = "copy" PROVE Copying(q)'
  BY DEF CopyInv, Copying
<1>1. /\ pc' = [pc EXCEPT ![p] = "copy"] /\ out' = [out EXCEPT ![p] = file]
      /\ backups' = [t \in DOMAIN backups \cup {now} |-> IF t = now THEN <<>> ELSE backups[t]]
      /\ saved' = [saved EXCEPT ![p] = now] /\ pc[p] = "backup"
      /\ UNCHANGED <<file, tmp, data, pos, asked>>
  BY DEF OpenBackup, Goes, files
<1>2. torn' = IF \E r \in Procs : Copies(r, now) THEN torn \cup {now} ELSE torn \ {now}
  BY DEF OpenBackup
<1>3. /\ pc'[p] = "copy" /\ out'[p] = file /\ saved'[p] = now /\ pos[p] = 0
      /\ file # None /\ file \in Inodes /\ Len(data[file]) \in Nat
  BY <1>1 DEF IInv, TypeOK, PlaceInv, Place, Contents
<1>4. \A r \in Procs \ {p} : pc'[r] = pc[r] /\ out'[r] = out[r] /\ saved'[r] = saved[r]
  BY <1>1 DEF IInv, TypeOK
<1>5. CASE q = p
  <2>1. data[file] \in asked BY <1>3 DEF AskedInv, Content
  <2>2. tmp # file BY <1>3 DEF FileInv
  <2>3. \A r \in Procs : pc'[r] = "fill" => out'[r] # file
    BY <1>3, <1>4 DEF FileInv, Filled
  <2>4. now \notin torn' => \A r \in Procs : pc'[r] = "copy" /\ saved'[r] = now => r = p
    BY <1>2, <1>4 DEF Copies
  <2>5. backups'[now] = <<>> /\ Len(<<>>) = 0 /\ pos'[p] = 0 BY <1>1, <1>3
  <2>6. now \notin torn' => Copied(p)'
    BY <1>1, <1>3, <2>4, <2>5 DEF Copied, Copies
  <2> QED BY <1>1, <1>3, <1>5, <2>1, <2>2, <2>3, <2>5, <2>6 DEF Copying
<1>6. CASE q # p
  <2>1. /\ data[out[q]] \in asked /\ out[q] # tmp
        /\ \A r \in Procs : pc[r] = "fill" => out[r] # out[q]
        /\ pos[q] <= Len(data[out[q]])
        /\ saved[q] \in DOMAIN backups \ torn => Copied(q)
    BY <1>4, <1>6 DEF CopyInv, Copying
  <2>2. \A r \in Procs : pc'[r] = "fill" => out'[r] # out[q]
    BY <1>3, <1>4, <2>1
  <2>3. ASSUME saved[q] \in DOMAIN backups' \ torn' PROVE Copied(q)'
    <3>1. saved[q] # now
      BY <1>2, <1>4, <1>6, <2>3 DEF Copies
    <3>2. saved[q] \in DOMAIN backups \ torn /\ backups'[saved[q]] = backups[saved[q]]
      BY <1>1, <1>2, <2>3, <3>1
    <3>3. \A r \in Procs : pc'[r] = "copy" /\ saved'[r] = saved[q] => Copies(r, saved[q])
      BY <1>3, <1>4, <3>1 DEF Copies
    <3>4. Copied(q) /\ saved'[q] = saved[q] /\ out'[q] = out[q] BY <1>4, <1>6, <2>1, <3>2
    <3> QED BY <1>1, <3>2, <3>3, <3>4 DEF Copied, Copies
  <2> QED BY <1>1, <1>4, <1>6, <2>1, <2>2, <2>3 DEF Copying
<1> QED BY <1>5, <1>6

LEMMA CopiedGrows ==
    ASSUME IInv, CopyInv, NEW p \in Procs, CopyChunk(p), saved[p] \in DOMAIN backups \ torn
    PROVE  Copied(p)'
<1> DEFINE t == saved[p]
           s == backups[t]
           c == data[out[p]][pos[p] + 1]
<1>1. Copied(p) /\ pos[p] \in Nat
  BY CopiesItsChunk DEF CopyInv, Copying, CopyChunk
<1>2. s \in Contents /\ c \in Ids /\ Len(s) = pos[p]
  BY <1>1, CopiesItsChunk DEF Copied, IInv, TypeOK
<1>3. backups'[t] = Put(s, pos[p] + 1, c)
  BY DEF CopyChunk
<1>4. pos'[p] = pos[p] + 1 /\ UNCHANGED <<pc, out, saved, data>>
  BY DEF CopyChunk, own, files, IInv, TypeOK
<1>5. \A q \in Procs : Copies(q, saved[p])' => q = p
  BY <1>1, <1>4 DEF Copied, Copies
<1> HIDE DEF s, c
<1>6. /\ Len(Put(s, Len(s) + 1, c)) = Len(s) + 1
      /\ \A i \in 1 .. Len(s) : Put(s, Len(s) + 1, c)[i] = s[i]
      /\ Put(s, Len(s) + 1, c)[Len(s) + 1] = c
  BY <1>2, PutNext
<1>7. /\ Len(backups'[t]) = pos[p] + 1
      /\ \A i \in 1 .. pos[p] : backups'[t][i] = data[out[p]][i]
      /\ backups'[t][pos[p] + 1] = data[out[p]][pos[p] + 1]
  BY <1>1, <1>2, <1>3, <1>6 DEF Copied, s, c
<1>8. \A i \in 1 .. pos[p] + 1 : backups'[t][i] = data[out[p]][i]
  <2> SUFFICES ASSUME NEW i \in 1 .. pos[p] + 1 PROVE backups'[t][i] = data[out[p]][i]
    OBVIOUS
  <2>1. i \in 1 .. pos[p] \/ i = pos[p] + 1 BY <1>1
  <2> QED BY <1>7, <2>1
<1>9. saved'[p] = t /\ out'[p] = out[p] /\ data' = data BY <1>4
<1> HIDE DEF t
<1> QED BY <1>4, <1>5, <1>7, <1>8, <1>9 DEF Copied, t

LEMMA ChunkCopies ==
    ASSUME IInv, CopyInv, NEW p \in Procs, CopyChunk(p)
    PROVE  CopyInv'
<1> SUFFICES ASSUME NEW q \in Procs, pc[q] = "copy" PROVE Copying(q)'
  BY DEF CopyInv, Copying, CopyChunk
<1>1. UNCHANGED <<file, tmp, data, pc, out, saved, torn, asked>>
  BY DEF CopyChunk, files, own
<1>2. /\ data[out[q]] \in asked /\ out[q] # tmp
      /\ \A r \in Procs : pc[r] = "fill" => out[r] # out[q]
      /\ pos[q] <= Len(data[out[q]])
      /\ saved[q] \in DOMAIN backups \ torn => Copied(q)
  BY DEF CopyInv, Copying
<1>3. DOMAIN backups' = DOMAIN backups /\ pos' = [pos EXCEPT ![p] = @ + 1]
  BY DEF CopyChunk
<1>4. CASE q = p
  <2>1. pos[p] \in Nat /\ Len(data[out[p]]) \in Nat /\ pos[p] < Len(data[out[p]])
    <3>1. pos[p] \in Nat /\ data[out[p]] \in Seq(Ids) BY CopiesItsChunk DEF Contents
    <3> QED BY <3>1 DEF CopyChunk
  <2>2. pos'[p] <= Len(data[out[p]])
    BY <1>3, <2>1 DEF IInv, TypeOK
  <2> QED BY <1>1, <1>2, <1>3, <1>4, <2>2, CopiedGrows DEF Copying
<1>5. CASE q # p
  <2>1. pos'[q] = pos[q] BY <1>3, <1>5 DEF IInv, TypeOK
  <2>2. ASSUME saved[q] \in DOMAIN backups \ torn PROVE Copied(q)'
    <3>1. Copied(q) BY <1>2, <2>2
    <3>2. saved[q] # saved[p]
      BY <1>5, <3>1 DEF Copied, Copies, CopyChunk
    <3>3. backups'[saved[q]] = backups[saved[q]]
      BY <2>2, <3>2 DEF CopyChunk
    <3> QED BY <1>1, <2>1, <3>1, <3>3 DEF Copied, Copies
  <2> QED BY <1>1, <1>2, <1>3, <2>1, <2>2 DEF Copying
<1> QED BY <1>4, <1>5

\* What the other steps do to the backups.
LEMMA BackupsShrink ==
    ASSUME IInv, NEW p \in Procs, Step(p), ~OpenBackup(p), ~CopyChunk(p)
    PROVE  /\ pc'[p] # "copy"
           /\ asked \subseteq asked' /\ torn \subseteq torn'
           /\ \/ backups' = backups
              \/ pc[p] = "prune" /\ backups' = [t \in Newest |-> backups[t]]
           /\ DOMAIN backups' \subseteq DOMAIN backups
           /\ \A t \in DOMAIN backups' : backups'[t] = backups[t]
           /\ saved'[p] \in {saved[p], None}
<1>1. CASE Begin(p)
  <2>1. PICK content, first : Begins(p, content, first) /\ first \in {"backup", "open"}
    BY <1>1 DEF Begin, Write, AppendEntry
  <2> QED BY <2>1 DEF Begins, Goes, kept, IInv, TypeOK
<1>2. Newest \subseteq DOMAIN backups BY DEF Newest, Fresh
<1>3. CASE PruneBackups(p)
  BY <1>2, <1>3 DEF PruneBackups, Goes, own, IInv, TypeOK
<1>4. CASE BackupRaises(p)
  <2>1. /\ pc'[p] = "idle" /\ asked' = asked
        /\ \/ backups' = backups
           \/ pc[p] = "prune" /\ backups' = [t \in Newest |-> backups[t]]
    BY <1>4 DEF BackupRaises, Goes, Ends, IInv, TypeOK
  <2>2. torn \subseteq torn' /\ saved'[p] \in {saved[p], None}
    BY <1>4 DEF BackupRaises, BreaksOff, IInv, TypeOK
  <2> QED BY <1>2, <2>1, <2>2
<1>5. CASE Crash(p)
  BY <1>5 DEF Crash, BreaksOff, Goes, Ends, IInv, TypeOK
<1>6. CASE SkipBackup(p) \/ CloseBackup(p)
  BY <1>6 DEF SkipBackup, CloseBackup, Goes, own, kept, IInv, TypeOK
<1>7. CASE \/ OpenLock(p) \/ Lock(p) \/ LockExpires(p) \/ UnlinkLock(p) \/ Unlock(p)
  BY <1>7 DEF OpenLock, Lock, LockExpires, UnlinkLock, Unlock, Goes, Ends, own, kept,
     IInv, TypeOK
<1>8. CASE \/ CreateTmp(p) \/ WriteChunk(p) \/ CloseTmp(p) \/ Rename(p) \/ WriteFails(p)
           \/ UnlinkTmp(p) \/ Verify(p)
  BY <1>8 DEF CreateTmp, WriteChunk, CloseTmp, Rename, WriteFails, UnlinkTmp, Verify, Goes, Ends,
     own, kept, IInv, TypeOK
<1> QED BY <1>1, <1>3, <1>4, <1>5, <1>6, <1>7, <1>8 DEF Step, Works

\* Nobody writes what another copies.
LEMMA CopiedStays ==
    ASSUME IInv, CopyInv, NEW p \in Procs, Step(p), NEW q \in Procs \ {p}, pc[q] = "copy"
    PROVE  /\ data'[out[q]] = data[out[q]] /\ tmp' # out[q]
           /\ pc'[p] = "fill" => out'[p] # out[q]
<1>1. /\ out[q] # tmp /\ out[q] \in Inodes
      /\ pc[p] = "fill" => out[p] # out[q]
  BY DEF CopyInv, Copying, IInv, TypeOK, PlaceInv, Place
<1>2. CASE CreateTmp(p)
  <2>1. /\ data' = [data EXCEPT ![tmp'] = <<>>] /\ out' = [out EXCEPT ![p] = tmp']
        /\ tmp' # out[q]
    BY <1>1, <1>2, CreateTmpOpens
  <2> QED BY <1>1, <2>1 DEF IInv, TypeOK
<1>3. CASE WriteChunk(p)
  <2>1. /\ pc[p] = "fill" /\ out' = out /\ tmp' = tmp
        /\ data' = [data EXCEPT ![out[p]] = Put(data[out[p]], pos[p] + 1, want[p][pos[p] + 1])]
    BY <1>3, WritesItsChunk DEF WriteChunk
  <2> QED BY <1>1, <2>1 DEF IInv, TypeOK
<1>4. CASE Rename(p) \/ UnlinkTmp(p)
  <2>1. data' = data /\ tmp' \in {tmp, None} /\ pc'[p] # "fill"
    BY <1>4 DEF Rename, UnlinkTmp, Goes, Ends, IInv, TypeOK
  <2> QED BY <1>1, <2>1, NoneIsApart
<1>5. CASE Begin(p)
  <2>1. PICK content, first : Begins(p, content, first) /\ first \in {"backup", "open"}
    BY <1>5 DEF Begin, Write, AppendEntry
  <2> QED BY <1>1, <2>1 DEF Begins, Goes, files, IInv, TypeOK
<1>6. CASE \/ SkipBackup(p) \/ OpenBackup(p) \/ CopyChunk(p) \/ CloseBackup(p)
           \/ PruneBackups(p) \/ BackupRaises(p) \/ OpenLock(p) \/ Lock(p) \/ LockExpires(p)
           \/ UnlinkLock(p) \/ Unlock(p) \/ CloseTmp(p) \/ WriteFails(p) \/ Verify(p) \/ Crash(p)
  <2>1. data' = data /\ tmp' = tmp
    BY <1>6 DEF SkipBackup, OpenBackup, CopyChunk, CloseBackup, PruneBackups, BackupRaises,
       OpenLock, Lock, LockExpires, UnlinkLock, Unlock, CloseTmp, WriteFails, Verify, Crash, files
  <2>2. pc'[p] # "fill"
    BY <1>6 DEF SkipBackup, OpenBackup, CopyChunk, CloseBackup, PruneBackups, BackupRaises,
       OpenLock, Lock, LockExpires, UnlinkLock, Unlock, CloseTmp, WriteFails, Verify, Crash,
       Goes, Ends, IInv, TypeOK
  <2> QED BY <1>1, <2>1, <2>2
<1> QED BY <1>2, <1>3, <1>4, <1>5, <1>6 DEF Step, Works

LEMMA OtherCopies ==
    ASSUME IInv, CopyInv, NEW p \in Procs, Step(p), ~OpenBackup(p), ~CopyChunk(p)
    PROVE  CopyInv'
<1>1. Mine(p) BY StepsAreMine
<1>2. /\ pc'[p] # "copy" /\ asked \subseteq asked' /\ torn \subseteq torn'
      /\ DOMAIN backups' \subseteq DOMAIN backups
      /\ \A t \in DOMAIN backups' : backups'[t] = backups[t]
  BY BackupsShrink
<1> SUFFICES ASSUME NEW q \in Procs \ {p}, pc'[q] = "copy" PROVE Copying(q)'
  BY <1>2 DEF CopyInv, Copying
<1>3. /\ pc[q] = "copy" /\ UNCHANGED <<out[q], pos[q], saved[q]>>
  BY <1>1 DEF Mine
<1>4. /\ data[out[q]] \in asked /\ out[q] # tmp
      /\ \A r \in Procs : pc[r] = "fill" => out[r] # out[q]
      /\ pos[q] <= Len(data[out[q]])
      /\ saved[q] \in DOMAIN backups \ torn => Copied(q)
  BY <1>3 DEF CopyInv, Copying
<1>5. /\ data'[out[q]] = data[out[q]] /\ tmp' # out[q]
      /\ pc'[p] = "fill" => out'[p] # out[q]
  BY <1>3, CopiedStays
<1>6. \A r \in Procs : pc'[r] = "fill" => out'[r] # out[q]
  BY <1>1, <1>4, <1>5 DEF Mine
<1>7. ASSUME saved[q] \in DOMAIN backups' \ torn' PROVE Copied(q)'
  <2>1. Copied(q) /\ backups'[saved[q]] = backups[saved[q]]
    BY <1>2, <1>4, <1>7
  <2>2. \A r \in Procs : Copies(r, saved[q])' => Copies(r, saved[q])
    BY <1>1, <1>2, <1>3 DEF Copies, Mine
  <2> QED BY <1>3, <1>5, <2>1, <2>2 DEF Copied
<1> QED BY <1>2, <1>3, <1>4, <1>5, <1>6, <1>7 DEF Copying

LEMMA CopiesKept == IInv /\ FileInv /\ AskedInv /\ CopyInv /\ [Next]_vars => CopyInv'
<1> SUFFICES ASSUME IInv, FileInv, AskedInv, CopyInv, [Next]_vars PROVE CopyInv' OBVIOUS
<1>1. CASE Tick \/ UNCHANGED vars
  BY <1>1 DEF Tick, vars, files, own, kept, CopyInv, Copying, Copied, Copies
<1>2. ASSUME NEW p \in Procs, Step(p) PROVE CopyInv'
  BY <1>2, OpenedCopies, ChunkCopies, OtherCopies
<1> QED BY <1>1, <1>2 DEF Next

\* What becomes of a finished copy.
LEMMA ClosedIsWhole ==
    ASSUME IInv, CopyInv, NEW p \in Procs, CloseBackup(p), saved[p] \notin torn
    PROVE  backups[saved[p]] \in asked
<1> DEFINE s == backups[saved[p]]
           d == data[out[p]]
<1>1. /\ d \in asked /\ Copied(p) /\ pos[p] <= Len(d) /\ pos[p] >= Len(d)
  BY DEF CloseBackup, CopyInv, Copying
<1>2. s \in Seq(Ids) /\ d \in Seq(Ids) /\ pos[p] \in Nat
  BY DEF CloseBackup, IInv, TypeOK, PlaceInv, Place, Contents
<1>3. Len(d) \in Nat BY <1>2
<1>4. pos[p] = Len(d) BY <1>1, <1>2, <1>3
<1>5. Len(s) = Len(d) /\ \A i \in 1 .. Len(d) : s[i] = d[i]
  BY <1>1, <1>4 DEF Copied
<1> HIDE DEF s, d
<1>6. s = d BY <1>2, <1>5, SeqEqual
<1> QED BY <1>1, <1>6 DEF s

(* Which backups are whole, and why one is gone.                           *)
Whole == \A t \in DOMAIN backups :
            backups[t] \in asked \/ t \in torn \/ \E p \in Procs : Copies(p, t)

Replaced(t) == Cardinality({u \in DOMAIN backups : u > t}) >= MaxBackups

Present == \A p \in Procs :
             saved[p] # None =>
                saved[p] \in DOMAIN backups \/ saved[p] + Retention < now \/ Replaced(saved[p])

LEMMA WholeStays == IInv /\ CopyInv /\ Whole /\ [Next]_vars => Whole'
<1> SUFFICES ASSUME IInv, CopyInv, Whole, [Next]_vars, NEW t \in DOMAIN backups'
             PROVE  backups'[t] \in asked' \/ t \in torn' \/ \E p \in Procs : Copies(p, t)'
  BY DEF Whole
<1>1. CASE Tick \/ UNCHANGED vars
  BY <1>1 DEF Tick, vars, own, kept, Copies, Whole
<1>2. ASSUME NEW p \in Procs, Step(p)
      PROVE  backups'[t] \in asked' \/ t \in torn' \/ \E q \in Procs : Copies(q, t)'
  <2>1. Mine(p) BY <1>2, StepsAreMine
  <2>2. \A q \in Procs \ {p} : Copies(q, t) => Copies(q, t)'
    BY <2>1 DEF Mine, Copies
  <2>3. CASE OpenBackup(p)
    <3>1. pc'[p] = "copy" /\ saved'[p] = now /\ ~Copies(p, t)
      BY <2>3 DEF OpenBackup, Goes, Copies, IInv, TypeOK
    <3>2. CASE t = now BY <3>1, <3>2 DEF Copies
    <3>3. CASE t # now
      <4>1. t \in DOMAIN backups /\ backups'[t] = backups[t] /\ asked' = asked
            /\ (t \in torn => t \in torn')
        BY <2>3, <3>3 DEF OpenBackup
      <4> QED BY <2>2, <3>1, <4>1 DEF Whole
    <3> QED BY <3>2, <3>3
  <2>4. CASE CopyChunk(p)
    <3>1. /\ UNCHANGED <<pc, saved, asked, torn>> /\ DOMAIN backups' = DOMAIN backups
          /\ t # saved[p] => backups'[t] = backups[t]
      BY <2>4 DEF CopyChunk, own
    <3>2. t = saved[p] => Copies(p, t)'
      BY <2>4, <3>1 DEF CopyChunk, Copies
    <3> QED BY <3>1, <3>2 DEF Whole, Copies
  <2>5. CASE ~OpenBackup(p) /\ ~CopyChunk(p)
    <3>1. /\ asked \subseteq asked' /\ torn \subseteq torn' /\ t \in DOMAIN backups
          /\ backups'[t] = backups[t]
      BY <1>2, <2>5, BackupsShrink
    <3>2. CASE backups[t] \in asked \/ t \in torn \/ \E q \in Procs \ {p} : Copies(q, t)
      BY <2>2, <3>1, <3>2
    <3>3. CASE Copies(p, t) /\ t \notin torn
      <4>1. pc[p] = "copy" /\ saved[p] = t BY <3>3 DEF Copies
      <4>2. CloseBackup(p) \/ BackupRaises(p) \/ Crash(p)
        <5>1. ~Begin(p) BY <4>1 DEF Begin, Write, AppendEntry, Begins
        <5>2. \/ CloseBackup(p) \/ BackupRaises(p) \/ Crash(p)
              \/ SkipBackup(p) \/ PruneBackups(p)
              \/ OpenLock(p) \/ Lock(p) \/ LockExpires(p) \/ UnlinkLock(p) \/ Unlock(p)
              \/ CreateTmp(p) \/ WriteChunk(p) \/ CloseTmp(p) \/ Rename(p) \/ WriteFails(p)
              \/ UnlinkTmp(p) \/ Verify(p)
          BY <1>2, <2>5, <5>1 DEF Step, Works
        <5> QED BY <4>1, <5>2 DEF SkipBackup, PruneBackups, OpenLock, Lock, LockExpires,
               UnlinkLock, Unlock, CreateTmp, WriteChunk, CloseTmp, Rename, WriteFails,
               UnlinkTmp, Verify
      <4>3. CASE CloseBackup(p)
        BY <3>1, <3>3, <4>1, <4>3, ClosedIsWhole
      <4>4. CASE BackupRaises(p) \/ Crash(p)
        <5>1. BreaksOff(p) BY <4>4 DEF BackupRaises, Crash
        <5> QED BY <4>1, <5>1 DEF BreaksOff
      <4> QED BY <4>2, <4>3, <4>4
    <3> QED BY <3>1, <3>2, <3>3 DEF Whole
  <2> QED BY <2>3, <2>4, <2>5
<1> QED BY <1>1, <1>2 DEF Next

\* Numbers below a bound have a greatest one.
LEMMA Greatest ==
    ASSUME NEW n \in Nat, NEW S \in SUBSET (0 .. n), S # {}
    PROVE  \E m \in S : \A u \in S : u <= m
<1> DEFINE T == {n - x : x \in S}
<1>1. T \subseteq Nat /\ T # {}
  <2>1. \A x \in S : x \in Nat /\ n - x \in Nat OBVIOUS
  <2> QED BY <2>1
<1> DEFINE R == {ss \in Nat \X Nat : ss[1] < ss[2]}
<1>2. IsWellFoundedOn(R, Nat) BY NatLessThanWellFounded, Zenon DEF OpToRel
<1>3. \E y \in T : \A z \in T : ~(<<z, y>> \in R)
  <2> HIDE DEF T, R
  <2> QED BY <1>1, <1>2, WFMin, Zenon
<1>4. PICK y \in T : \A z \in T : y <= z
  <2>1. PICK y \in T : \A z \in T : ~(<<z, y>> \in R) BY <1>3
  <2>2. y \in Nat BY <1>1
  <2>3. ASSUME NEW z \in T PROVE y <= z
    <3>1. z \in Nat BY <1>1
    <3>2. ~(z < y) BY <2>1, <2>2, <3>1
    <3> QED BY <2>2, <3>1, <3>2
  <2> QED BY <2>3
<1>5. PICK m \in S : y = n - m OBVIOUS
<1>6. \A u \in S : y <= n - u BY <1>4
<1>7. \A u \in S : u <= m BY <1>5, <1>6
<1> QED BY <1>7

\* What pruning drops is too old, or followed by as many as are kept.
LEMMA PrunedForCause ==
    ASSUME IInv, NEW t \in 0 .. MaxTime, ~(t + Retention < now),
           t \in DOMAIN backups \ Newest \/ Replaced(t)
    PROVE  Cardinality({u \in Newest : u > t}) >= MaxBackups
<1> USE WriterAssumption DEF WriterAssumption
<1>1. DOMAIN backups \subseteq 0 .. MaxTime /\ now \in Nat
  BY DEF IInv, TypeOK
<1>2. IsFiniteSet(0 .. MaxTime) BY FS_Interval
<1>3. Newest \subseteq Fresh /\ Fresh \subseteq 0 .. MaxTime
  BY <1>1 DEF Newest, Fresh
<1> DEFINE Newer(x) == {u \in Fresh : u > x}
           D == {x \in Fresh \ Newest : x >= t}
<1>4. \A x \in 0 .. MaxTime :
         /\ IsFiniteSet(Newer(x)) /\ Cardinality(Newer(x)) \in Nat
  <2> TAKE x \in 0 .. MaxTime
  <2>1. Newer(x) \subseteq 0 .. MaxTime BY <1>3
  <2>2. IsFiniteSet(Newer(x)) BY <1>2, <2>1, FS_Subset
  <2> QED BY <2>2, FS_CardinalityType
<1>5. \A x \in Fresh : x \in Newest <=> Cardinality(Newer(x)) < MaxBackups
  BY DEF Newest
<1> SUFFICES ASSUME NEW x \in 0 .. MaxTime, x >= t, Newer(x) \subseteq Newest,
                    Cardinality(Newer(x)) >= MaxBackups
             PROVE  Cardinality({u \in Newest : u > t}) >= MaxBackups
  <2>1. CASE D = {}
    <3>1. t \notin DOMAIN backups \ Newest
      BY <1>1, <2>1 DEF Fresh
    <3>2. Newer(t) = {u \in DOMAIN backups : u > t}
      BY <1>1 DEF Fresh
    <3>3. Newer(t) \subseteq Newest
      <4> SUFFICES ASSUME NEW u \in Fresh, u > t PROVE u \in Newest OBVIOUS
      <4>1. u \in Nat BY <1>3
      <4> QED BY <2>1, <4>1
    <3>4. Cardinality(Newer(t)) >= MaxBackups BY <3>1, <3>2 DEF Replaced
    <3> QED BY <3>3, <3>4
  <2>2. CASE D # {}
    <3>1. D \in SUBSET (0 .. MaxTime) BY <1>3
    <3>2. PICK m \in D : \A u \in D : u <= m BY <2>2, <3>1, Greatest
    <3>3. m \in 0 .. MaxTime /\ m >= t /\ m \in Fresh \ Newest BY <1>3
    <3>4. Cardinality(Newer(m)) >= MaxBackups BY <1>4, <1>5, <3>3
    <3>5. Newer(m) \subseteq Newest
      <4> SUFFICES ASSUME NEW u \in Newer(m), u \notin Newest PROVE FALSE OBVIOUS
      <4>1. u \in Fresh /\ u > m /\ u \in Nat BY <1>3
      <4>2. u \in D BY <3>3, <4>1
      <4>3. u <= m BY <3>2, <4>2
      <4> QED BY <3>3, <4>1, <4>3
    <3> QED BY <3>3, <3>4, <3>5
  <2> QED BY <2>1, <2>2
<1>6. Newer(x) \subseteq {u \in Newest : u > t}
  <2> SUFFICES ASSUME NEW u \in Newer(x) PROVE u \in Newest /\ u > t OBVIOUS
  <2>1. u \in Newest /\ u > x /\ u \in Nat BY <1>3
  <2> QED BY <2>1
<1>7. {u \in Newest : u > t} \subseteq 0 .. MaxTime BY <1>3
<1>8. IsFiniteSet({u \in Newest : u > t}) BY <1>2, <1>7, FS_Subset
<1>9. Cardinality(Newer(x)) <= Cardinality({u \in Newest : u > t})
  BY <1>6, <1>8, FS_Subset
<1>10. Cardinality({u \in Newest : u > t}) \in Nat BY <1>8, FS_CardinalityType
<1>11. Cardinality(Newer(x)) \in Nat BY <1>4
<1> HIDE DEF Newer
<1> QED BY <1>9, <1>10, <1>11

LEMMA ReplacedStays ==
    ASSUME IInv, NEW t \in 0 .. MaxTime, Replaced(t),
           DOMAIN backups \subseteq DOMAIN backups', DOMAIN backups' \subseteq 0 .. MaxTime
    PROVE  Cardinality({u \in DOMAIN backups' : u > t}) >= MaxBackups
<1> DEFINE S == {u \in DOMAIN backups : u > t}
           T == {u \in DOMAIN backups' : u > t}
<1>1. IsFiniteSet(0 .. MaxTime) BY WriterAssumption, FS_Interval DEF WriterAssumption
<1>2. IsFiniteSet(T) BY <1>1, FS_Subset
<1>3. S \subseteq T OBVIOUS
<1>4. Cardinality(S) <= Cardinality(T) /\ IsFiniteSet(S) BY <1>2, <1>3, FS_Subset
<1>5. Cardinality(S) \in Nat /\ Cardinality(T) \in Nat BY <1>2, <1>4, FS_CardinalityType
<1>6. Cardinality(S) >= MaxBackups BY DEF Replaced
<1> HIDE DEF S, T
<1>7. Cardinality(T) >= MaxBackups
  BY <1>4, <1>5, <1>6, WriterAssumption DEF WriterAssumption
<1> QED BY <1>7 DEF T

Found(q) ==
    saved[q] \in DOMAIN backups \/ saved[q] + Retention < now \/ Replaced(saved[q])

LEMMA FoundStays ==
    ASSUME IInv, Present, NEW q \in Procs, saved'[q] = saved[q], saved[q] \in 0 .. MaxTime,
           now' = now, DOMAIN backups \subseteq DOMAIN backups',
           DOMAIN backups' \subseteq 0 .. MaxTime
    PROVE  Found(q)'
<1>1. saved[q] # None BY NoneIsApart
<1>2. CASE saved[q] \in DOMAIN backups BY <1>2 DEF Found
<1>3. CASE saved[q] + Retention < now BY <1>3 DEF Found
<1>4. CASE Replaced(saved[q])
  <2> DEFINE t == saved[q]
  <2>1. t \in 0 .. MaxTime OBVIOUS
  <2>2. Cardinality({u \in DOMAIN backups' : u > t}) >= MaxBackups
    BY <1>4, ReplacedStays
  <2> QED BY <2>2 DEF Found, Replaced
<1> QED BY <1>1, <1>2, <1>3, <1>4 DEF Present

LEMMA PresentStays == IInv /\ Present /\ [Next]_vars => Present'
<1> SUFFICES ASSUME IInv, Present, [Next]_vars, NEW q \in Procs, saved'[q] # None
             PROVE  Found(q)'
  BY DEF Present, Found
<1> USE WriterAssumption DEF WriterAssumption
<1>1. /\ saved \in [Procs -> (0 .. MaxTime) \cup {None}] /\ now \in 2 .. MaxTime
      /\ DOMAIN backups \subseteq 0 .. MaxTime /\ DOMAIN backups' \subseteq 0 .. MaxTime
  BY Typing DEF IInv, TypeOK
<1>2. CASE Tick \/ UNCHANGED vars
  <2>1. UNCHANGED <<saved, backups>> /\ now' \in {now, now + 1}
    BY <1>2 DEF Tick, vars, own, kept
  <2> QED BY <1>1, <2>1 DEF Present, Found, Replaced
<1>3. ASSUME NEW p \in Procs, Step(p)
      PROVE  Found(q)'
  <2>1. Mine(p) BY <1>3, StepsAreMine
  <2>2. now' = now
    BY <1>3 DEF Step, Begin, Write, AppendEntry, Begins, Works, SkipBackup, OpenBackup, CopyChunk,
       CloseBackup, PruneBackups, BackupRaises, OpenLock, Lock, LockExpires, UnlinkLock, Unlock,
       CreateTmp, WriteChunk, CloseTmp, Rename, WriteFails, UnlinkTmp, Verify, Crash, kept
  <2>3. CASE OpenBackup(p)
    <3>1. /\ DOMAIN backups' = DOMAIN backups \cup {now} /\ saved' = [saved EXCEPT ![p] = now]
      BY <2>3 DEF OpenBackup
    <3>2. CASE q = p BY <1>1, <3>1, <3>2 DEF Found
    <3>3. CASE q # p
      <4>1. saved'[q] = saved[q] /\ saved[q] \in 0 .. MaxTime BY <1>1, <3>1, <3>3
      <4> QED BY <1>1, <2>2, <3>1, <4>1, FoundStays
    <3> QED BY <3>2, <3>3
  <2>4. CASE CopyChunk(p)
    <3>1. DOMAIN backups' = DOMAIN backups /\ saved' = saved
      BY <2>4 DEF CopyChunk, own
    <3>2. saved[q] \in 0 .. MaxTime BY <1>1, <3>1
    <3> QED BY <1>1, <2>2, <3>1, <3>2, FoundStays
  <2>5. CASE ~OpenBackup(p) /\ ~CopyChunk(p)
    <3>1. saved'[q] = saved[q] /\ saved[q] \in 0 .. MaxTime
      <4>1. saved'[p] \in {saved[p], None} BY <1>3, <2>5, BackupsShrink
      <4> QED BY <1>1, <2>1, <4>1 DEF Mine
    <3>2. backups' = backups \/ backups' = [t \in Newest |-> backups[t]]
      BY <1>3, <2>5, BackupsShrink
    <3>3. CASE backups' = backups
      BY <1>1, <2>2, <3>1, <3>3, FoundStays
    <3>4. CASE backups' = [t \in Newest |-> backups[t]]
      <4>1. DOMAIN backups' = Newest BY <3>4
      <4>2. CASE saved[q] + Retention < now \/ saved[q] \in Newest
        BY <2>2, <3>1, <4>1, <4>2 DEF Found
      <4>3. CASE ~(saved[q] + Retention < now) /\ saved[q] \notin Newest
        <5>1. saved[q] \in DOMAIN backups \ Newest \/ Replaced(saved[q])
          BY <3>1, <4>3, NoneIsApart DEF Present
        <5>2. Cardinality({u \in Newest : u > saved[q]}) >= MaxBackups
          BY <3>1, <4>3, <5>1, PrunedForCause
        <5> QED BY <3>1, <4>1, <5>2 DEF Found, Replaced
      <4> QED BY <4>2, <4>3
    <3> QED BY <3>2, <3>3, <3>4
  <2> QED BY <2>3, <2>4, <2>5
<1> QED BY <1>2, <1>3 DEF Next

(* For any processes, writes, crashes, failures and times: as long as the    *)
(* writes are apart, a backup has a whole content that the file had, or its  *)
(* copying goes on, was broken off, or overlapped another of its second; and *)
(* it is gone only when too old or followed by as many as are kept.          *)
THEOREM BackupsAreKept == Spec /\ []Exclusive => []BackupKept
<1>1. Init => IInv /\ FileInv /\ AskedInv /\ CopyInv /\ Whole /\ Present
  <2> SUFFICES ASSUME Init PROVE CopyInv /\ Whole /\ Present
    BY InitIsGood, InitFile, InitAsked
  <2> QED BY DEF Init, CopyInv, Copying, Whole, Present
<1>2. /\ IInv /\ FileInv /\ AskedInv /\ CopyInv /\ Whole /\ Present /\ Exclusive /\ [Next]_vars
      => (IInv /\ FileInv /\ AskedInv /\ CopyInv /\ Whole /\ Present)'
  BY Inductive, FileKept, AskedKept, CopiesKept, WholeStays, PresentStays
<1>3. Whole /\ Present => BackupKept BY DEF Whole, Present, Replaced, BackupKept
<1> QED BY <1>1, <1>2, <1>3, PTL DEF Spec

(* Two processes that write once each keep their writes apart, so this holds *)
(* of their backups whatever fails.                                          *)
THEOREM TwoWritesKeepBackups ==
    ASSUME NEW a, NEW b, Procs = {a, b}, MaxWrites = 1
    PROVE  Spec => []BackupKept
BY TwoWritesApart, BackupsAreKept, PTL

(* So does one process that writes, crashes and starts again any number of   *)
(* times.                                                                    *)
THEOREM OneWriterKeepsBackups ==
    ASSUME NEW a, Procs = {a}
    PROVE  Spec => []BackupKept
<1>1. Exclusive BY DEF Exclusive
<1> QED BY <1>1, BackupsAreKept, PTL
=============================================================================
