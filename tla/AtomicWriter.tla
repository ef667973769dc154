---------------------------- MODULE AtomicWriter ----------------------------
(***************************************************************************)
(* capabilities/atomic_writer.py: processes (terminal and web clients of   *)
(* one project) that write one file, each through a backup, a lock file, a *)
(* temporary file and a rename.  Files are inodes: whoever has one open    *)
(* goes on writing it, or holds its lock, when its name is gone.           *)
(*                                                                         *)
(* A step is a system call that the others can notice.  A crash is the end *)
(* of a process, at any step: the kernel gives up its lock and its files   *)
(* stay as they are.  The process may be started again.                    *)
(***************************************************************************)
EXTENDS Naturals, Sequences, FiniteSets

CONSTANTS
    Procs,
    Inodes,
    None,        \* no file
    Hole,        \* the zeros before a chunk written beyond the end of a file
    Old,         \* the content of the file before any write
    MaxWrites,   \* bound: writes of one process
    MaxSize,     \* bound: chunks of one write (64 KB each in the code)
    MaxBackups,  \* MAX_BACKUP_VERSIONS (5 in the code)
    Retention,   \* BACKUP_RETENTION_DAYS (7 in the code)
    MaxTime      \* bound: time

ASSUME WriterAssumption ==
    /\ Procs # {} /\ MaxWrites \in Nat /\ MaxSize \in Nat \ {0}
    /\ MaxBackups \in Nat \ {0} /\ Retention \in Nat /\ MaxTime \in Nat \ {0, 1}
    /\ None \notin Nat \cup Inodes \cup Procs
    \* There are always free inodes: two names and an open file per process are in use.
    /\ \A f \in [Procs -> Inodes \cup {None}], i \in Inodes \cup {None} :
          \E j \in Inodes \ {i} : \A p \in Procs : f[p] # j

\* A chunk is known by the write it belongs to.
Ids == (Procs \X Nat) \cup {Old, Hole}
Contents == Seq(Ids)

VARIABLES
    file, tmp,  \* the inodes the names path and path.tmp stand for
    data,       \* the chunks of each inode
    lockFile,   \* the inode of path.lock
    holder,     \* who has the lock of an inode
    pc,         \* where each process is
    want,       \* the content it writes
    fd,         \* the lock file it has open
    out, pos,   \* the file it copies or the temporary file it writes, chunks done
    count,      \* writes it has begun
    placed,     \* its rename is done
    result,     \* what its last write returned
    saved,      \* the name of the backup of its write, a time
    backups,    \* content of the backup of each time
    now,
    asked,      \* history: all contents the file had or was to have
    torn        \* history: backups whose copying was broken off or overlapped another

files == <<file, tmp, data>>
lock == <<lockFile, holder, fd>>
own == <<want, count, placed, result, saved>>
kept == <<backups, now, torn>>
vars == <<files, lock, pc, out, pos, own, kept, asked>>

\* read_text, or the empty text when there is no file.
Content == IF file = None THEN <<>> ELSE data[file]

Init ==
    /\ file \in {None, CHOOSE i \in Inodes : TRUE} /\ tmp = None /\ data = [i \in Inodes |-> <<Old>>]
    /\ lockFile = None /\ holder = [i \in Inodes |-> None]
    /\ pc = [p \in Procs |-> "idle"] /\ want = [p \in Procs |-> <<>>]
    /\ fd = [p \in Procs |-> None] /\ out = [p \in Procs |-> None]
    /\ pos = [p \in Procs |-> 0] /\ count = [p \in Procs |-> 0]
    /\ placed = [p \in Procs |-> FALSE] /\ result = [p \in Procs |-> "none"]
    /\ saved = [p \in Procs |-> None]
    /\ backups \in {<<>>, [t \in 0 .. 1 |-> <<Old>>]} /\ now = 2
    /\ asked = {Content, <<Old>>} /\ torn = {}

-----------------------------------------------------------------------------

Goes(p, place) == pc' = [pc EXCEPT ![p] = place]
Ends(p, r) == Goes(p, "idle") /\ result' = [result EXCEPT ![p] = r]

Begins(p, content, first) ==
    /\ pc[p] = "idle" /\ count[p] < MaxWrites
    /\ count' = [count EXCEPT ![p] = @ + 1]
    /\ want' = [want EXCEPT ![p] = content]
    /\ asked' = asked \cup {content}
    /\ placed' = [placed EXCEPT ![p] = FALSE]
    /\ saved' = [saved EXCEPT ![p] = None]
    /\ Goes(p, first)
    /\ UNCHANGED <<files, lock, out, pos, result, kept>>

Id(p) == <<p, count[p] + 1>>

\* write and write_chunks
Write(p) ==
    \E size \in 1 .. MaxSize, backup \in BOOLEAN :
        Begins(p, [i \in 1 .. size |-> Id(p)],
               IF backup /\ file # None THEN "backup" ELSE "open")

\* The old content is read before the lock is taken, and nothing is backed up.
AppendEntry(p) == Begins(p, Content \o <<Id(p)>>, "open")

\* In a git repository no backup is made.
SkipBackup(p) ==
    /\ pc[p] = "backup"
    /\ Goes(p, "open")
    /\ UNCHANGED <<files, lock, out, pos, own, kept, asked>>

\* Process p copies the file to the backup of time t.
Copies(p, t) == pc[p] = "copy" /\ saved[p] = t

Closes(p) == out' = [out EXCEPT ![p] = None] /\ pos' = [pos EXCEPT ![p] = 0]

\* s with chunk c at place k.
Put(s, k, c) ==
    [i \in 1 .. (IF k > Len(s) THEN k ELSE Len(s)) |->
        IF i = k THEN c ELSE IF i <= Len(s) THEN s[i] ELSE Hole]

\* copy2 opens the file, then makes or empties the backup of this second,
\* which may be another write's.
OpenBackup(p) ==
    /\ pc[p] = "backup"
    /\ out' = [out EXCEPT ![p] = file]
    /\ backups' = [t \in DOMAIN backups \cup {now} |-> IF t = now THEN <<>> ELSE backups[t]]
    /\ saved' = [saved EXCEPT ![p] = now]
    /\ torn' = IF \E q \in Procs : Copies(q, now) THEN torn \cup {now} ELSE torn \ {now}
    /\ Goes(p, "copy")
    /\ UNCHANGED <<files, lock, pos, want, count, placed, result, now, asked>>

\* What it copies once the backup has been pruned goes to a file without a name.
CopyChunk(p) ==
    /\ pc[p] = "copy" /\ pos[p] < Len(data[out[p]])
    /\ backups' = [t \in DOMAIN backups |->
                      IF t = saved[p] THEN Put(backups[t], pos[p] + 1, data[out[p]][pos[p] + 1])
                      ELSE backups[t]]
    /\ pos' = [pos EXCEPT ![p] = @ + 1]
    /\ UNCHANGED <<files, lock, pc, out, own, now, torn, asked>>

\* The times of the copy are set by its name.
CloseBackup(p) ==
    /\ pc[p] = "copy" /\ pos[p] >= Len(data[out[p]]) /\ saved[p] \in DOMAIN backups
    /\ Closes(p)
    /\ Goes(p, "prune")
    /\ UNCHANGED <<files, lock, own, kept, asked>>

\* A copy that ends early leaves what it has copied.
BreaksOff(p) ==
    IF pc[p] = "copy"
    THEN torn' = torn \cup {saved[p]} /\ saved' = [saved EXCEPT ![p] = None]
    ELSE UNCHANGED <<torn, saved>>

Fresh == {t \in DOMAIN backups : t + Retention >= now}

\* Mutant: the list is sorted the other way round.
Oldest == {t \in Fresh : Cardinality({u \in Fresh : u < t}) < MaxBackups}

Newest == {t \in Fresh : Cardinality({u \in Fresh : u > t}) < MaxBackups}

PruneBackups(p) ==
    /\ pc[p] = "prune"
    /\ backups' = [t \in Newest |-> backups[t]]
    /\ Goes(p, "open")
    /\ UNCHANGED <<files, lock, out, pos, own, now, torn, asked>>

\* The copy fails at some point, or another process has deleted what this one
\* was about to delete: the exception leaves write.
BackupRaises(p) ==
    /\ \/ pc[p] \in {"backup", "copy"} /\ backups' = backups
       \/ /\ pc[p] = "prune" /\ Newest # DOMAIN backups
          /\ \E q \in Procs \ {p} : pc[q] = "prune"
          /\ backups' = [t \in Newest |-> backups[t]]
    /\ Ends(p, "error")
    /\ Closes(p) /\ BreaksOff(p)
    /\ UNCHANGED <<files, lock, want, count, placed, now, asked>>

-----------------------------------------------------------------------------

\* The lock file that path.lock names, or a new one.
OpenLock(p) ==
    /\ pc[p] = "open"
    /\ LET i == IF lockFile # None THEN lockFile
                ELSE CHOOSE j \in Inodes : \A q \in Procs : fd[q] # j
       IN lockFile' = i /\ fd' = [fd EXCEPT ![p] = i]
    /\ Goes(p, "lock")
    /\ UNCHANGED <<files, holder, out, pos, own, kept, asked>>

\* Mutant: the lock is a shared one.
LockTaken(p) ==
    /\ pc[p] = "lock"
    /\ holder' = [holder EXCEPT ![fd[p]] = p]
    /\ Goes(p, "create")
    /\ UNCHANGED <<files, lockFile, fd, out, pos, own, kept, asked>>

Lock(p) ==
    /\ pc[p] = "lock" /\ holder[fd[p]] = None
    /\ holder' = [holder EXCEPT ![fd[p]] = p]
    /\ Goes(p, "create")
    /\ UNCHANGED <<files, lockFile, fd, out, pos, own, kept, asked>>

\* LOCK_TIMEOUT has passed.
LockExpires(p) ==
    /\ pc[p] = "lock" /\ holder[fd[p]] # None
    /\ fd' = [fd EXCEPT ![p] = None]
    /\ Goes(p, "expired")
    /\ UNCHANGED <<files, lockFile, holder, out, pos, own, kept, asked>>

\* After a timeout as after a release the name is deleted, whoever has the lock.
UnlinkLock(p) ==
    /\ \/ pc[p] = "expired" /\ Goes(p, "failed") /\ result' = result
       \/ pc[p] = "unlink" /\ placed[p] /\ Goes(p, "verify") /\ result' = result
       \/ pc[p] = "unlink" /\ ~placed[p] /\ Ends(p, "error")
    /\ lockFile' = None
    /\ UNCHANGED <<files, holder, fd, out, pos, want, count, placed, saved, kept, asked>>

Unlock(p) ==
    /\ pc[p] = "release"
    /\ holder' = [holder EXCEPT ![fd[p]] = None]
    /\ fd' = [fd EXCEPT ![p] = None]
    /\ Goes(p, "unlink")
    /\ UNCHANGED <<files, lockFile, out, pos, own, kept, asked>>

-----------------------------------------------------------------------------

\* open("wb") empties the file the name stands for, or makes a new one.
CreateTmp(p) ==
    /\ pc[p] = "create"
    /\ LET i == IF tmp # None THEN tmp
                ELSE CHOOSE j \in Inodes \ {file} : \A q \in Procs : out[q] # j
       IN /\ tmp' = i
          /\ data' = [data EXCEPT ![i] = <<>>]
          /\ out' = [out EXCEPT ![p] = i]
    /\ Goes(p, "fill")
    /\ UNCHANGED <<file, lock, pos, own, kept, asked>>

WriteChunk(p) ==
    /\ pc[p] = "fill" /\ pos[p] < Len(want[p])
    /\ data' = [data EXCEPT ![out[p]] = Put(@, pos[p] + 1, want[p][pos[p] + 1])]
    /\ pos' = [pos EXCEPT ![p] = @ + 1]
    /\ UNCHANGED <<file, tmp, lock, pc, out, own, kept, asked>>

CloseTmp(p) ==
    /\ pc[p] = "fill" /\ pos[p] = Len(want[p])
    /\ Closes(p)
    /\ Goes(p, "rename")
    /\ UNCHANGED <<files, lock, own, kept, asked>>

\* Mutant: the writer waits for its temporary file to come back.
RenameAwaited(p) ==
    /\ pc[p] = "rename" /\ tmp # None
    /\ file' = tmp /\ tmp' = None
    /\ placed' = [placed EXCEPT ![p] = TRUE]
    /\ Goes(p, "release")
    /\ UNCHANGED <<data, lock, out, pos, want, count, result, saved, kept, asked>>

\* The rename fails when somebody else has renamed or deleted path.tmp.
Rename(p) ==
    /\ pc[p] = "rename"
    /\ IF tmp # None
       THEN /\ file' = tmp /\ tmp' = None
            /\ placed' = [placed EXCEPT ![p] = TRUE]
            /\ Goes(p, "release")
       ELSE /\ Goes(p, "failed")
            /\ UNCHANGED <<file, tmp, placed>>
    /\ UNCHANGED <<data, lock, out, pos, want, count, result, saved, kept, asked>>

\* The disk is full, or the like.
WriteFails(p) ==
    /\ pc[p] \in {"create", "fill"}
    /\ Closes(p)
    /\ Goes(p, "failed")
    /\ UNCHANGED <<files, lock, own, kept, asked>>

\* After any failure path.tmp is deleted, whoever made it.
UnlinkTmp(p) ==
    /\ pc[p] = "failed"
    /\ tmp' = None
    /\ IF fd[p] # None
       THEN Goes(p, "release") /\ result' = result
       ELSE Ends(p, "error")
    /\ UNCHANGED <<file, data, lock, out, pos, want, count, placed, saved, kept, asked>>

\* Only the size is compared.
Verify(p) ==
    /\ pc[p] = "verify"
    /\ Ends(p, IF Len(Content) = Len(want[p]) THEN "verified" ELSE "unverified")
    /\ UNCHANGED <<files, lock, out, pos, want, count, placed, saved, kept, asked>>

-----------------------------------------------------------------------------

Crash(p) ==
    /\ pc[p] # "idle"
    /\ Ends(p, "crashed")
    /\ holder' = [i \in Inodes |-> IF holder[i] = p THEN None ELSE holder[i]]
    /\ fd' = [fd EXCEPT ![p] = None]
    /\ Closes(p) /\ BreaksOff(p)
    /\ UNCHANGED <<files, lockFile, want, count, placed, backups, now, asked>>

Tick ==
    /\ now < MaxTime
    /\ now' = now + 1
    /\ UNCHANGED <<files, lock, pc, out, pos, own, backups, torn, asked>>

Begin(p) == Write(p) \/ AppendEntry(p)

Works(p) ==
    \/ SkipBackup(p) \/ OpenBackup(p) \/ CopyChunk(p) \/ CloseBackup(p)
    \/ PruneBackups(p) \/ BackupRaises(p)
    \/ OpenLock(p) \/ Lock(p) \/ LockExpires(p) \/ UnlinkLock(p) \/ Unlock(p)
    \/ CreateTmp(p) \/ WriteChunk(p) \/ CloseTmp(p) \/ Rename(p) \/ WriteFails(p)
    \/ UnlinkTmp(p) \/ Verify(p)

Step(p) == Begin(p) \/ Works(p) \/ Crash(p)

Next == Tick \/ \E p \in Procs : Step(p)

Spec == Init /\ [][Next]_vars

\* A call of the writer goes on: it is synchronous code.
FairSpec == Spec /\ \A p \in Procs : WF_vars(Works(p))

-----------------------------------------------------------------------------

(* All variables have their types. *)
TypeOK ==
    /\ {file, tmp, lockFile} \subseteq Inodes \cup {None}
    /\ data \in [Inodes -> Contents]
    /\ holder \in [Inodes -> Procs \cup {None}]
    /\ pc \in [Procs -> {"idle", "backup", "copy", "prune", "open", "lock", "expired", "create",
                         "fill", "rename", "failed", "release", "unlink", "verify"}]
    /\ want \in [Procs -> Contents]
    /\ fd \in [Procs -> Inodes \cup {None}] /\ out \in [Procs -> Inodes \cup {None}]
    /\ pos \in [Procs -> Nat] /\ count \in [Procs -> 0 .. MaxWrites]
    /\ placed \in [Procs -> BOOLEAN]
    /\ result \in [Procs -> {"none", "verified", "unverified", "error", "crashed"}]
    /\ saved \in [Procs -> (0 .. MaxTime) \cup {None}]
    /\ DOMAIN backups \subseteq 0 .. MaxTime /\ now \in 2 .. MaxTime
    /\ \A t \in DOMAIN backups : backups[t] \in Contents
    /\ torn \subseteq 0 .. MaxTime

(* What the header of atomic_writer.py promises: a reader never sees anything *)
(* but the content of one write, whole.                                      *)
FileWhole == Content \in asked

(* A backup has a whole content that the file had or was to have, unless its *)
(* copying goes on, was broken off by a failure or a crash, or overlapped     *)
(* that of another write of the same second; and the backup of a write is    *)
(* gone only when it is too old or as many newer ones are there as are kept.  *)
BackupKept ==
    /\ \A t \in DOMAIN backups :
          backups[t] \in asked \/ t \in torn \/ \E p \in Procs : Copies(p, t)
    /\ \A p \in Procs :
          saved[p] # None =>
             \/ saved[p] \in DOMAIN backups
             \/ saved[p] + Retention < now
             \/ Cardinality({t \in DOMAIN backups : t > saved[p]}) >= MaxBackups

Promise == INSTANCE AtomicFile WITH
    value <- Content, Start <- {<<>>, <<Old>>},
    state <- [p \in Procs |-> IF pc[p] = "idle" THEN "idle"
                              ELSE IF placed[p] THEN "written" ELSE "writing"]

(* Whatever crashes, waits or fails, the file changes only by a write that   *)
(* then reports success, to its whole content.                               *)
AllOrNothing == Promise!Spec

(* Every write returns: nobody waits for a lock for ever.                    *)
WritesReturn == \A p \in Procs : pc[p] # "idle" ~> pc[p] = "idle"
=============================================================================
