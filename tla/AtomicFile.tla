----------------------------- MODULE AtomicFile -----------------------------
(***************************************************************************)
(* What capabilities/atomic_writer.py promises of the file it writes: a    *)
(* write succeeds or fails as a whole.  The file changes from one content  *)
(* to the next in a single step of a write, a write that reports success   *)
(* has made its step, one that reports an error has not, and a write is    *)
(* called unverified only when the file is not its own any more.           *)
(***************************************************************************)
CONSTANTS Procs, Contents, Start

VARIABLES
    value,  \* what a reader of the file sees
    state,  \* each process: "idle", "writing", "written"
    want,   \* what it writes
    result  \* what its last write returned

vars == <<value, state, want, result>>

Init ==
    /\ value \in Start
    /\ state = [p \in Procs |-> "idle"]
    /\ want \in [Procs -> Contents]
    /\ result = [p \in Procs |-> "none"]

Invoke(p) ==
    /\ state[p] = "idle"
    /\ want' \in [Procs -> Contents]
    /\ \A q \in Procs \ {p} : want'[q] = want[q]
    /\ state' = [state EXCEPT ![p] = "writing"]
    /\ UNCHANGED <<value, result>>

Publish(p) ==
    /\ state[p] = "writing"
    /\ value' = want[p]
    /\ state' = [state EXCEPT ![p] = "written"]
    /\ UNCHANGED <<want, result>>

Returns(p, r) ==
    /\ state' = [state EXCEPT ![p] = "idle"]
    /\ result' = [result EXCEPT ![p] = r]
    /\ UNCHANGED <<value, want>>

Return(p) ==
    /\ state[p] = "written"
    /\ Returns(p, "verified") \/ (value # want[p] /\ Returns(p, "unverified"))

Fail(p) == state[p] = "writing" /\ Returns(p, "error")
Crash(p) == state[p] # "idle" /\ Returns(p, "crashed")

Next == \E p \in Procs : Invoke(p) \/ Publish(p) \/ Return(p) \/ Fail(p) \/ Crash(p)

Spec == Init /\ [][Next]_vars
=============================================================================
