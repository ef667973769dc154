-------------------------- MODULE ToolExecutorProofs --------------------------
(***************************************************************************)
(* Theorems about ToolExecutor, for every set of sessions and tools, every *)
(* number of calls and slots and every number of retries.                  *)
(***************************************************************************)
EXTENDS ToolExecutor, FiniteSetTheorems, TLAPS

PCs == Ended \cup {"none", "new", "asking", "queued", "granted", "running", "backoff"}
Bodies == {"none", "tool", "llm", "sub"}

\* Only a running call has a tool at work, only a task call has a subagent,
\* only a call that is not over is being cancelled, and no batch means no call.
WorkInv ==
    /\ \A c \in Calls : body[c] # "none" <=> pc[c] = "running"
    /\ \A c \in Calls : body[c] \in {"llm", "sub"} => tool[c] = Task
    /\ \A c \in kills : Alive(c)
    /\ phase = "idle" => \A c \in Calls : pc[c] = "none"

\* After a stop a cancellation is on its way to every call but a task.
StopInv ==
    phase \in {"stopped", "stopped again"} =>
        \A c \in Calls : Alive(c) => c \in kills \/ tool[c] = Task

Allowed(c) ==
    \/ how[c] \in {"asked", "cache"} /\ <<session, tool[c]>> \in yes
    \/ BypassOpened(c, served)

\* The policy remembers only what the user agreed to, and a gated call has
\* consent from its first request for a slot on.
ConsentInv ==
    /\ cache \subseteq yes
    /\ \A n \in bypass : \E s \in served : <<s, n>> \in opened
    /\ \A n \in persisted \cup settings : <<Settings, n>> \in opened
    /\ \A c \in Calls :
           pc[c] \in {"queued", "granted", "running", "backoff"} /\ tool[c] \in Gated
           => Allowed(c)

\* Only a gated tool is asked for.
AskInv == \A c \in Calls : pc[c] = "asking" => tool[c] \in Gated

IInv == TypeOK /\ SlotsConserved /\ WorkInv /\ StopInv /\ ConsentInv /\ AskInv

-----------------------------------------------------------------------------
(* The semaphore.                                                          *)

Held(p) == {c \in Calls : p[c] \in {"granted", "running"}}

LEMMA HeldIsFinite ==
    ASSUME NEW p
    PROVE  IsFiniteSet(Held(p)) /\ Cardinality(Held(p)) \in Nat
<1>1. IsFiniteSet(Calls)
  BY FS_Interval, ToolExecutorAssumption DEF Calls, ToolExecutorAssumption
<1>2. Held(p) \subseteq Calls
  BY DEF Held
<1> QED
  BY <1>1, <1>2, FS_Subset, FS_CardinalityType

LEMMA Typed ==
    ASSUME IInv
    PROVE  /\ pc \in [Calls -> PCs] /\ body \in [Calls -> Bodies]
           /\ permits \in Nat /\ waiting \in Seq(Calls)
<1>1. TypeOK
  BY DEF IInv
<1>2. pc \in [Calls -> PCs]
  BY <1>1 DEF TypeOK, PCs
<1>3. body \in [Calls -> Bodies]
  BY <1>1 DEF TypeOK, Bodies
<1>4. waiting \in Seq(Calls)
  BY <1>1 DEF TypeOK
<1>5. permits \in 0 .. MaxConcurrent
  BY <1>1 DEF TypeOK
<1> QED
  BY <1>2, <1>3, <1>4, <1>5, ToolExecutorAssumption DEF ToolExecutorAssumption

\* What a step of call c does to the calls and the semaphore.
Moved(c) ==
    /\ pc' \in [Calls -> PCs] /\ body' \in [Calls -> Bodies]
    /\ permits' \in Nat /\ waiting' \in Seq(Calls) /\ SlotsConserved'
    /\ \A x \in Calls \ {c} :
           /\ body'[x] = body[x]
           /\ pc'[x] = pc[x] \/ (pc[x] = "queued" /\ pc'[x] = "granted")
    /\ body'[c] # "none" <=> pc'[c] = "running"
    /\ body'[c] \in {"llm", "sub"} => tool[c] = Task

LEMMA HeldSame ==
    ASSUME NEW p, NEW q, \A x \in Calls : p[x] \in {"granted", "running"}
                                           <=> q[x] \in {"granted", "running"}
    PROVE  Held(p) = Held(q)
BY DEF Held

LEMMA HeldMore ==
    ASSUME NEW p, NEW q, NEW c \in Calls,
           p[c] \notin {"granted", "running"}, q[c] \in {"granted", "running"},
           \A x \in Calls \ {c} : p[x] \in {"granted", "running"}
                                  <=> q[x] \in {"granted", "running"}
    PROVE  Cardinality(Held(q)) = Cardinality(Held(p)) + 1
<1>1. Held(q) = Held(p) \cup {c} /\ c \notin Held(p)
  BY DEF Held
<1> QED
  BY <1>1, HeldIsFinite, FS_AddElement

\* A call moves between places that have nothing to do with the semaphore, or
\* starts to use the slot it was granted.
LEMMA MoveAside ==
    ASSUME IInv, NEW c \in Calls, NEW p \in PCs,
           pc' = [pc EXCEPT ![c] = p], UNCHANGED slots,
           \/ /\ pc[c] \notin {"queued", "granted", "running"} /\ p \in {"asking", "error"}
              /\ UNCHANGED body
           \/ pc[c] = "granted" /\ p = "running" /\ Starts(c)
    PROVE  Moved(c)
<1>1. pc \in [Calls -> PCs] /\ body \in [Calls -> Bodies]
      /\ permits \in Nat /\ waiting \in Seq(Calls)
  BY Typed
<1>2. pc' \in [Calls -> PCs] /\ body' \in [Calls -> Bodies]
      /\ permits' = permits /\ waiting' = waiting
  BY <1>1 DEF Starts, Bodies, slots
<1>3. Held(pc) = Held(pc')
  <2>1. \A x \in Calls : pc[x] \in {"granted", "running"} <=> pc'[x] \in {"granted", "running"}
    BY <1>1
  <2> QED
    BY <2>1, HeldSame
<1>4. SlotsConserved'
  <2>1. permits' + Cardinality(Held(pc')) = MaxConcurrent
    BY <1>2, <1>3 DEF IInv, SlotsConserved, Held, Holds
  <2>2. \A x \in Calls : pc'[x] = "queued" <=> pc[x] = "queued"
    BY <1>1
  <2> QED
    BY <1>2, <2>1, <2>2 DEF IInv, SlotsConserved, Held, Holds
<1>5. body'[c] # "none" <=> pc'[c] = "running"
  BY <1>1 DEF IInv, WorkInv, Starts
<1>6. body'[c] \in {"llm", "sub"} => tool[c] = Task
  BY <1>1 DEF IInv, WorkInv, Starts
<1>7. \A x \in Calls \ {c} : body'[x] = body[x] /\ pc'[x] = pc[x]
  BY <1>1 DEF Starts
<1> QED
  BY <1>1, <1>2, <1>4, <1>5, <1>6, <1>7 DEF Moved

LEMMA MoveAcquire ==
    ASSUME IInv, NEW c \in Calls, pc[c] \in {"new", "asking", "backoff"}, Acquire(c)
    PROVE  Moved(c) /\ pc'[c] \in {"running", "queued"}
<1>1. pc \in [Calls -> PCs] /\ body \in [Calls -> Bodies]
      /\ permits \in Nat /\ waiting \in Seq(Calls)
  BY Typed
<1>1a. Len(waiting) \in Nat /\ waiting \in [1 .. Len(waiting) -> Calls]
  BY <1>1
<1>1b. MaxConcurrent \in Nat
  BY ToolExecutorAssumption DEF ToolExecutorAssumption
<1>2. body[c] = "none"
  BY DEF IInv, WorkInv
<1>3. CASE permits > 0 /\ waiting = <<>>
  <2>1. permits' = permits - 1 /\ waiting' = waiting /\ Starts(c)
    BY <1>3 DEF Acquire
  <2>2. pc' = [pc EXCEPT ![c] = "running"]
        /\ body' = [body EXCEPT ![c] = IF tool[c] = Task THEN "llm" ELSE "tool"]
    BY <2>1 DEF Starts
  <2>3. pc' \in [Calls -> PCs] /\ body' \in [Calls -> Bodies] /\ permits' \in Nat
    BY <1>1, <1>3, <2>1, <2>2 DEF PCs, Bodies
  <2>4. Cardinality(Held(pc')) = Cardinality(Held(pc)) + 1
    <3>1. pc[c] \notin {"granted", "running"} /\ pc'[c] \in {"granted", "running"}
      BY <1>1, <2>2
    <3>2. \A x \in Calls \ {c} : pc[x] \in {"granted", "running"}
                                 <=> pc'[x] \in {"granted", "running"}
      BY <1>1, <2>2
    <3> QED
      BY <3>1, <3>2, HeldMore
  <2>5. SlotsConserved'
    <3>1. permits + Cardinality(Held(pc)) = MaxConcurrent
      BY DEF IInv, SlotsConserved, Held, Holds
    <3>2. permits' + Cardinality(Held(pc')) = MaxConcurrent
      BY <1>1, <1>1b, <2>1, <2>4, <3>1, HeldIsFinite
    <3>3. \A x \in Calls : pc'[x] = "queued" <=> pc[x] = "queued"
      BY <1>1, <2>2
    <3> QED
      BY <1>3, <2>1, <3>2, <3>3 DEF IInv, SlotsConserved, Held, Holds
  <2>6. pc'[c] = "running" /\ body'[c] # "none" /\ (body'[c] \in {"llm", "sub"} => tool[c] = Task)
    BY <1>1, <2>2
  <2>7. \A x \in Calls \ {c} : body'[x] = body[x] /\ pc'[x] = pc[x]
    BY <1>1, <2>2
  <2> QED
    BY <1>1, <2>1, <2>3, <2>5, <2>6, <2>7 DEF Moved
<1>4. CASE ~(permits > 0 /\ waiting = <<>>)
  <2>1. permits' = permits /\ body' = body /\ pc' = [pc EXCEPT ![c] = "queued"]
        /\ waiting' = Append(waiting, c)
    BY <1>4 DEF Acquire
  <2>2. pc' \in [Calls -> PCs]
    BY <1>1, <2>1 DEF PCs
  <2>3. waiting' \in Seq(Calls) /\ Len(waiting') = Len(waiting) + 1
        /\ waiting'[Len(waiting) + 1] = c
        /\ \A i \in 1 .. Len(waiting) : waiting'[i] = waiting[i]
    BY <1>1, <2>1
  <2>4. Held(pc) = Held(pc')
    <3>1. \A x \in Calls : pc[x] \in {"granted", "running"} <=> pc'[x] \in {"granted", "running"}
      BY <1>1, <2>1
    <3> QED
      BY <3>1, HeldSame
  <2>5. permits' + Cardinality(Held(pc')) = MaxConcurrent
    BY <2>1, <2>4 DEF IInv, SlotsConserved, Held, Holds
  <2>6. \A i \in 1 .. Len(waiting) : waiting[i] # c
    BY <1>1 DEF IInv, SlotsConserved
  <2>7. \A i, j \in 1 .. Len(waiting') : waiting'[i] = waiting'[j] => i = j
    <3>1. \A i, j \in 1 .. Len(waiting) : waiting[i] = waiting[j] => i = j
      BY DEF IInv, SlotsConserved
    <3>2. \A i \in 1 .. Len(waiting') : i \in 1 .. Len(waiting) \/ i = Len(waiting) + 1
      BY <1>1a, <2>3
    <3> QED
      BY <1>1a, <2>3, <2>6, <3>1, <3>2
  <2>8. \A x \in Calls : pc'[x] = "queued" <=> \E i \in 1 .. Len(waiting') : waiting'[i] = x
    <3>1. \A x \in Calls : pc[x] = "queued" <=> \E i \in 1 .. Len(waiting) : waiting[i] = x
      BY DEF IInv, SlotsConserved
    <3>2. \A i \in 1 .. Len(waiting') : i \in 1 .. Len(waiting) \/ i = Len(waiting) + 1
      BY <1>1a, <2>3
    <3>3. \A i \in 1 .. Len(waiting) : i \in 1 .. Len(waiting')
      BY <1>1a, <2>3
    <3>4. Len(waiting) + 1 \in 1 .. Len(waiting')
      BY <1>1a, <2>3
    <3>5. \A x \in Calls \ {c} : pc'[x] = pc[x]
      BY <1>1, <2>1
    <3>6. pc'[c] = "queued"
      BY <1>1, <2>1
    <3> QED
      BY <2>3, <3>1, <3>2, <3>3, <3>4, <3>5, <3>6
  <2>9. permits' = 0
    <3>1. permits > 0 => waiting = <<>>
      BY DEF IInv, SlotsConserved
    <3> QED
      BY <1>1, <1>4, <2>1, <3>1
  <2>10. SlotsConserved'
    BY <2>5, <2>7, <2>8, <2>9 DEF SlotsConserved, Held, Holds
  <2>11. pc'[c] = "queued" /\ body'[c] = "none"
    BY <1>1, <1>2, <2>1
  <2>12. \A x \in Calls \ {c} : body'[x] = body[x] /\ pc'[x] = pc[x]
    BY <1>1, <2>1
  <2> QED
    BY <1>1, <2>1, <2>2, <2>3, <2>10, <2>11, <2>12 DEF Moved
<1> QED
  BY <1>3, <1>4
\* The places a call goes to from its slot.
Exits == {"success", "error", "backoff"}

LEMMA MoveRelease ==
    ASSUME IInv, NEW c \in Calls, NEW p \in Exits, Holds(c), Release(c, p)
    PROVE  Moved(c) /\ pc'[c] = p
<1>1. pc \in [Calls -> PCs] /\ body \in [Calls -> Bodies]
      /\ permits \in Nat /\ waiting \in Seq(Calls)
  BY Typed
<1>2. Len(waiting) \in Nat /\ waiting \in [1 .. Len(waiting) -> Calls]
  BY <1>1
<1>3. body' = [body EXCEPT ![c] = "none"] /\ body' \in [Calls -> Bodies] /\ body'[c] = "none"
      /\ \A x \in Calls \ {c} : body'[x] = body[x]
  BY <1>1 DEF Release, Bodies
<1>4. p \in PCs /\ p \notin {"queued", "granted", "running"}
  BY DEF Exits, PCs, Ended
<1>5. pc[c] \in {"granted", "running"}
  BY DEF Holds
<1>6. /\ permits + Cardinality(Held(pc)) = MaxConcurrent
      /\ \A i, j \in 1 .. Len(waiting) : waiting[i] = waiting[j] => i = j
      /\ \A x \in Calls : pc[x] = "queued" <=> \E i \in 1 .. Len(waiting) : waiting[i] = x
      /\ permits > 0 => waiting = <<>>
  BY DEF IInv, SlotsConserved, Held, Holds
<1>7. MaxConcurrent \in Nat
  BY ToolExecutorAssumption DEF ToolExecutorAssumption
<1> DEFINE q == [pc EXCEPT ![c] = p]
<1>8. /\ q \in [Calls -> PCs] /\ q[c] = p
      /\ \A x \in Calls \ {c} : q[x] = pc[x]
  BY <1>1, <1>4
<1> HIDE DEF q
<1>9. Cardinality(Held(pc)) = Cardinality(Held(q)) + 1
  BY <1>4, <1>5, <1>8, HeldMore
<1>10. CASE waiting = <<>>
  <2>1. permits' = permits + 1 /\ pc' = q /\ waiting' = <<>>
    BY <1>10 DEF Release, q
  <2>2. permits' + Cardinality(Held(pc')) = MaxConcurrent
    BY <1>1, <1>6, <1>7, <1>9, <2>1, HeldIsFinite
  <2>3. \A x \in Calls : pc'[x] # "queued"
    BY <1>4, <1>6, <1>8, <1>10, <2>1
  <2>4. SlotsConserved'
    BY <2>1, <2>2, <2>3 DEF SlotsConserved, Held, Holds
  <2>5. /\ pc' \in [Calls -> PCs] /\ pc'[c] = p
        /\ \A x \in Calls \ {c} : pc'[x] = pc[x]
    BY <1>8, <2>1
  <2>6. permits' \in Nat /\ waiting' \in Seq(Calls)
    BY <1>1, <1>10, <2>1
  <2> QED
    BY <1>3, <1>4, <2>4, <2>5, <2>6 DEF Moved
<1>11. CASE waiting # <<>>
  <2> DEFINE d == waiting[1]
  <2>1. /\ Len(waiting) >= 1 /\ Head(waiting) = d
        /\ waiting' = Tail(waiting) /\ permits' = permits
    BY <1>1, <1>11 DEF Release
  <2>2. 1 \in 1 .. Len(waiting)
    BY <1>2, <2>1
  <2>3. d \in Calls /\ pc[d] = "queued" /\ d # c
    BY <1>2, <1>5, <1>6, <2>2
  <2>4. pc' = [pc EXCEPT ![c] = p, ![d] = "granted"]
    BY <1>11, <2>1 DEF Release
  <2> HIDE DEF d
  <2>5. /\ pc' \in [Calls -> PCs] /\ pc'[c] = p /\ pc'[d] = "granted"
        /\ \A x \in Calls \ {c, d} : pc'[x] = pc[x]
    BY <1>1, <1>4, <2>3, <2>4 DEF PCs
  <2>6. /\ waiting' \in Seq(Calls) /\ Len(waiting') = Len(waiting) - 1
        /\ \A i \in 1 .. Len(waiting') : waiting'[i] = waiting[i + 1]
    BY <1>1, <1>11, <2>1
  <2>7. Cardinality(Held(pc')) = Cardinality(Held(q)) + 1
    <3>1. q[d] \notin {"granted", "running"} /\ pc'[d] \in {"granted", "running"}
      BY <1>8, <2>3, <2>5
    <3>2. \A x \in Calls \ {d} : q[x] \in {"granted", "running"}
                                 <=> pc'[x] \in {"granted", "running"}
      BY <1>4, <1>8, <2>5
    <3> QED
      BY <2>3, <3>1, <3>2, HeldMore
  <2>8. permits' + Cardinality(Held(pc')) = MaxConcurrent
    BY <1>6, <1>9, <2>1, <2>7
  <2>9. \A i \in 1 .. Len(waiting') : i + 1 \in 1 .. Len(waiting) /\ i + 1 # 1
    BY <1>2, <2>1, <2>6
  <2>10. \A i, j \in 1 .. Len(waiting') : waiting'[i] = waiting'[j] => i = j
    <3> SUFFICES ASSUME NEW i \in 1 .. Len(waiting'), NEW j \in 1 .. Len(waiting'),
                        waiting'[i] = waiting'[j]
                 PROVE  i = j
      OBVIOUS
    <3>1. waiting[i + 1] = waiting[j + 1]
      BY <2>6
    <3>2. i + 1 = j + 1
      BY <1>6, <2>9, <3>1
    <3> QED
      BY <3>2
  <2>11. \A x \in Calls : pc'[x] = "queued" <=> \E i \in 1 .. Len(waiting') : waiting'[i] = x
    <3> SUFFICES ASSUME NEW x \in Calls
                 PROVE  pc'[x] = "queued" <=> \E i \in 1 .. Len(waiting') : waiting'[i] = x
      OBVIOUS
    <3>1. pc'[x] = "queued" <=> pc[x] = "queued" /\ x # d
      BY <1>4, <1>5, <2>3, <2>5
    <3>2. (\E i \in 1 .. Len(waiting') : waiting'[i] = x)
          => \E i \in 1 .. Len(waiting) : waiting[i] = x /\ i # 1
      BY <2>6, <2>9
    <3>3. \A i \in 1 .. Len(waiting) : i # 1 => i - 1 \in 1 .. Len(waiting') /\ i - 1 + 1 = i
      BY <1>2, <2>6
    <3>4. (\E i \in 1 .. Len(waiting) : waiting[i] = x /\ i # 1)
          => \E i \in 1 .. Len(waiting') : waiting'[i] = x
      BY <2>6, <3>3
    <3>5. (\E i \in 1 .. Len(waiting) : waiting[i] = x /\ i # 1) <=> pc[x] = "queued" /\ x # d
      BY <1>6, <2>2 DEF d
    <3> QED
      BY <3>1, <3>2, <3>4, <3>5
  <2>12. SlotsConserved'
    <3>1. permits' > 0 => waiting' = <<>>
      BY <1>6, <1>11, <2>1
    <3> QED
      BY <2>8, <2>10, <2>11, <3>1 DEF SlotsConserved, Held, Holds
  <2>13. \A x \in Calls \ {c} : pc'[x] = pc[x] \/ (pc[x] = "queued" /\ pc'[x] = "granted")
    BY <2>3, <2>5
  <2> QED
    BY <1>1, <1>3, <1>4, <2>1, <2>5, <2>6, <2>12, <2>13 DEF Moved
<1> QED
  BY <1>10, <1>11

LEMMA MoveLeave ==
    ASSUME IInv, NEW c \in Calls, pc[c] = "queued", LeavesQueue(c)
    PROVE  Moved(c)
<1>1. pc \in [Calls -> PCs] /\ body \in [Calls -> Bodies]
      /\ permits \in Nat /\ waiting \in Seq(Calls)
  BY Typed
<1>2. Len(waiting) \in Nat /\ waiting \in [1 .. Len(waiting) -> Calls]
  BY <1>1
<1>3. /\ permits + Cardinality(Held(pc)) = MaxConcurrent
      /\ \A i, j \in 1 .. Len(waiting) : waiting[i] = waiting[j] => i = j
      /\ \A x \in Calls : pc[x] = "queued" <=> \E i \in 1 .. Len(waiting) : waiting[i] = x
      /\ permits > 0 => waiting = <<>>
  BY DEF IInv, SlotsConserved, Held, Holds
<1>4. PICK k \in 1 .. Len(waiting) : waiting[k] = c /\ waiting' = Without(waiting, k)
  BY DEF LeavesQueue
<1>5. permits' = permits /\ body' = body /\ pc' = [pc EXCEPT ![c] = "error"]
  BY DEF LeavesQueue
<1>6. pc' \in [Calls -> PCs] /\ pc'[c] = "error" /\ \A x \in Calls \ {c} : pc'[x] = pc[x]
  BY <1>1, <1>5 DEF PCs, Ended
<1> DEFINE m == Len(waiting) - 1
           At1(j) == IF j < k THEN j ELSE j + 1
<1>7. m \in Nat /\ \A j \in 1 .. m : At1(j) \in 1 .. Len(waiting) /\ At1(j) # k
  BY <1>2
<1>8. waiting' \in [1 .. m -> Calls] /\ \A j \in 1 .. m : waiting'[j] = waiting[At1(j)]
  <2>1. waiting' = [j \in 1 .. m |-> IF j < k THEN waiting[j] ELSE waiting[j + 1]]
    BY <1>4 DEF Without
  <2>2. \A j \in 1 .. m : (IF j < k THEN waiting[j] ELSE waiting[j + 1]) = waiting[At1(j)]
    OBVIOUS
  <2>3. \A j \in 1 .. m : waiting[At1(j)] \in Calls
    BY <1>2, <1>7
  <2> QED
    BY <2>1, <2>2, <2>3
<1>9. waiting' \in Seq(Calls) /\ Len(waiting') = m
  BY <1>7, <1>8
<1>10. \A i, j \in 1 .. m : At1(i) = At1(j) => i = j
  BY <1>2
<1>11. \A i \in 1 .. Len(waiting) : i # k => \E j \in 1 .. m : At1(j) = i
  <2> SUFFICES ASSUME NEW i \in 1 .. Len(waiting), i # k
               PROVE  \E j \in 1 .. m : At1(j) = i
    OBVIOUS
  <2>1. CASE i < k
    <3>1. i \in 1 .. m /\ At1(i) = i
      BY <1>2, <2>1
    <3> QED
      BY <3>1
  <2>2. CASE ~(i < k)
    <3>1. i - 1 \in 1 .. m /\ At1(i - 1) = i
      BY <1>2, <2>2
    <3> QED
      BY <3>1
  <2> QED
    BY <2>1, <2>2
<1> HIDE DEF m, At1
<1>12. Held(pc) = Held(pc')
  <2>1. \A x \in Calls : pc[x] \in {"granted", "running"} <=> pc'[x] \in {"granted", "running"}
    BY <1>6
  <2> QED
    BY <2>1, HeldSame
<1>13. permits' + Cardinality(Held(pc')) = MaxConcurrent
  BY <1>3, <1>5, <1>12
<1>14. \A i, j \in 1 .. Len(waiting') : waiting'[i] = waiting'[j] => i = j
  <2> SUFFICES ASSUME NEW i \in 1 .. m, NEW j \in 1 .. m, waiting'[i] = waiting'[j]
               PROVE  i = j
    BY <1>9
  <2>1. waiting[At1(i)] = waiting[At1(j)]
    BY <1>8
  <2>2. At1(i) = At1(j)
    BY <1>3, <1>7, <2>1
  <2> QED
    BY <1>10, <2>2
<1>15. \A x \in Calls : pc'[x] = "queued" <=> \E i \in 1 .. Len(waiting') : waiting'[i] = x
  <2>1. \A x \in Calls : pc'[x] = "queued" <=> pc[x] = "queued" /\ x # c
    BY <1>6
  <2>2. \A x \in Calls : (\E i \in 1 .. m : waiting'[i] = x)
                          => pc[x] = "queued" /\ x # c
    BY <1>3, <1>4, <1>7, <1>8
  <2>3. ASSUME NEW x \in Calls, pc[x] = "queued", x # c
        PROVE  \E i \in 1 .. m : waiting'[i] = x
    <3>1. PICK i \in 1 .. Len(waiting) : waiting[i] = x
      BY <1>3, <2>3
    <3>2. i # k
      BY <1>4, <2>3, <3>1
    <3> QED
      BY <1>8, <1>11, <3>1, <3>2
  <2> QED
    BY <1>9, <2>1, <2>2, <2>3
<1>16. SlotsConserved'
  <2>1. permits' = 0
    BY <1>1, <1>2, <1>3, <1>4, <1>5
  <2> QED
    BY <1>13, <1>14, <1>15, <2>1 DEF SlotsConserved, Held, Holds
<1>17. body'[c] = "none"
  BY <1>5 DEF IInv, WorkInv
<1> QED
  BY <1>1, <1>5, <1>6, <1>9, <1>16, <1>17 DEF Moved

LEMMA SlotsStill ==
    ASSUME SlotsConserved, pc' = pc, permits' = permits, waiting' = waiting
    PROVE  SlotsConserved'
<1>1. /\ permits + Cardinality(Held(pc)) = MaxConcurrent
      /\ \A i, j \in 1 .. Len(waiting) : waiting[i] = waiting[j] => i = j
      /\ \A x \in Calls : pc[x] = "queued" <=> \E i \in 1 .. Len(waiting) : waiting[i] = x
      /\ permits > 0 => waiting = <<>>
  BY DEF SlotsConserved, Held, Holds
<1>2. permits' + Cardinality(Held(pc')) = MaxConcurrent
  BY <1>1
<1>3. \A x \in Calls : pc'[x] = "queued" <=> \E i \in 1 .. Len(waiting') : waiting'[i] = x
  BY <1>1
<1> QED
  BY <1>1, <1>2, <1>3 DEF SlotsConserved, Held, Holds

\* The calls and the semaphore stay as they are, whatever the tool of c does.
LEMMA MoveStill ==
    ASSUME IInv, NEW c \in Calls, UNCHANGED <<pc, slots>>, body' \in [Calls -> Bodies],
           \A x \in Calls \ {c} : body'[x] = body[x],
           body'[c] # "none" <=> body[c] # "none",
           body'[c] \in {"llm", "sub"} => tool[c] = Task
    PROVE  Moved(c)
<1>1. pc \in [Calls -> PCs] /\ permits \in Nat /\ waiting \in Seq(Calls)
  BY Typed
<1>2. pc' = pc /\ permits' = permits /\ waiting' = waiting
  BY DEF slots
<1>3. SlotsConserved'
  BY <1>2, SlotsStill DEF IInv
<1>4. body'[c] # "none" <=> pc'[c] = "running"
  BY <1>2 DEF IInv, WorkInv
<1> QED
  BY <1>1, <1>2, <1>3, <1>4 DEF Moved

-----------------------------------------------------------------------------
(* What each step of a call does.                                          *)

\* The places of a call whose consent has been settled.
Settled == {"queued", "granted", "running", "backoff"}

LEMMA PassesMoves ==
    ASSUME IInv, NEW c \in Calls, pc[c] \in {"new", "asking"}, Passes(c)
    PROVE  Moved(c) /\ pc'[c] \in {"error", "running", "queued"}
<1>1. CASE Acquire(c)
  BY <1>1, MoveAcquire
<1>2. CASE pc' = [pc EXCEPT ![c] = "error"] /\ UNCHANGED <<body, slots>>
  <2>1. Moved(c)
    BY <1>2, MoveAside DEF PCs, Ended
  <2> QED
    BY <1>2, <2>1, Typed
<1> QED
  BY <1>1, <1>2 DEF Passes

LEMMA RetryMoves ==
    ASSUME IInv, NEW c \in Calls, Holds(c), Retry(c)
    PROVE  Moved(c) /\ pc'[c] \in Exits
<1>1. CASE Release(c, "backoff")
  BY <1>1, MoveRelease DEF Exits
<1>2. CASE Release(c, "error")
  BY <1>2, MoveRelease DEF Exits
<1> QED
  BY <1>1, <1>2 DEF Retry

LEMMA EvaluateMoves ==
    ASSUME IInv, NEW c \in Calls, Evaluate(c)
    PROVE  Moved(c) /\ pc[c] = "new" /\ pc'[c] \in {"error", "asking", "running", "queued"}
<1>1. pc[c] = "new"
  BY DEF Evaluate, At
<1>2. CASE pc' = [pc EXCEPT ![c] = "error"] /\ UNCHANGED <<body, slots>>
  <2>1. Moved(c)
    BY <1>1, <1>2, MoveAside DEF PCs, Ended
  <2> QED
    BY <1>1, <1>2, <2>1, Typed
<1>3. CASE pc' = [pc EXCEPT ![c] = "asking"] /\ UNCHANGED <<body, slots>>
  <2>1. Moved(c)
    BY <1>1, <1>3, MoveAside DEF PCs
  <2> QED
    BY <1>1, <1>3, <2>1, Typed
<1>4. CASE Passes(c)
  BY <1>1, <1>4, PassesMoves
<1> QED
  BY <1>1, <1>2, <1>3, <1>4 DEF Evaluate

LEMMA ProceedMoves ==
    ASSUME IInv, NEW c \in Calls, Proceed(c)
    PROVE  Moved(c) /\ pc[c] \in {"granted", "backoff"} /\ pc'[c] \in {"running", "queued"}
<1>1. CASE At(c, "granted") /\ Starts(c) /\ UNCHANGED slots
  <2>1. pc' = [pc EXCEPT ![c] = "running"] /\ pc[c] = "granted"
    BY <1>1 DEF Starts, At
  <2>2. Moved(c)
    BY <1>1, <2>1, MoveAside DEF PCs
  <2> QED
    BY <2>1, <2>2, Typed
<1>2. CASE At(c, "backoff") /\ Acquire(c)
  BY <1>2, MoveAcquire DEF At
<1> QED
  BY <1>1, <1>2 DEF Proceed

LEMMA SubCallMoves ==
    ASSUME IInv, NEW c \in Calls, SubCall(c)
    PROVE  Moved(c) /\ pc'[c] = "running"
<1>1. pc[c] = "running" /\ UNCHANGED <<pc, slots>> /\ body[c] \in {"llm", "sub"}
      /\ \E b \in {"llm", "sub"} : body' = [body EXCEPT ![c] = b]
  BY DEF SubCall, At
<1>2. body \in [Calls -> Bodies]
  BY Typed
<1>3. body' \in [Calls -> Bodies] /\ body'[c] \in {"llm", "sub"}
      /\ \A x \in Calls \ {c} : body'[x] = body[x]
  BY <1>1, <1>2 DEF Bodies
<1>4. tool[c] = Task
  BY <1>1 DEF IInv, WorkInv
<1> QED
  BY <1>1, <1>3, <1>4, MoveStill

LEMMA ReturnsMoves ==
    ASSUME IInv, NEW c \in Calls, Returns(c)
    PROVE  Moved(c) /\ pc[c] = "running" /\ pc'[c] \in Exits
<1>1. pc[c] = "running" /\ Holds(c)
  BY DEF Returns, At, Holds
<1>2. \E p \in Exits : Release(c, p)
  BY DEF Returns, Exits
<1> QED
  BY <1>1, <1>2, MoveRelease

LEMMA RaisesMoves ==
    ASSUME IInv, NEW c \in Calls, Raises(c)
    PROVE  Moved(c) /\ pc[c] = "running" /\ pc'[c] \in Exits
<1>1. pc[c] = "running" /\ Holds(c) /\ Retry(c)
  BY DEF Raises, At, Holds
<1> QED
  BY <1>1, RetryMoves

LEMMA TimesOutMoves ==
    ASSUME IInv, NEW c \in Calls, TimesOut(c)
    PROVE  Moved(c) /\ pc[c] = "running" /\ pc'[c] \in Exits \cup {"running"}
<1>1. pc[c] = "running" /\ Holds(c)
  BY DEF TimesOut, At, Holds
<1>2. CASE Retry(c)
  BY <1>1, <1>2, RetryMoves
<1>3. CASE UNCHANGED <<pc, body, slots>>
  <2>1. Moved(c)
    BY <1>3, Typed, MoveStill DEF IInv, WorkInv
  <2> QED
    BY <1>1, <1>3, <2>1
<1> QED
  BY <1>1, <1>2, <1>3 DEF TimesOut

\* A cancelled call is over, unless an LLM stream swallowed the cancellation.
LEMMA KilledMoves ==
    ASSUME IInv, NEW c \in Calls, Killed(c)
    PROVE  /\ Moved(c) /\ Alive(c)
           /\ \/ pc'[c] = "error"
              \/ body[c] = "llm" /\ UNCHANGED <<pc, body>>
<1>1. Alive(c)
  BY DEF Killed, IInv, WorkInv
<1>2. CASE pc[c] \in {"new", "asking", "backoff"} /\ TakenForNo(c)
  <2>1. pc' = [pc EXCEPT ![c] = "error"] /\ UNCHANGED <<body, slots>>
    BY <1>2 DEF TakenForNo
  <2>2. Moved(c)
    BY <1>2, <2>1, MoveAside DEF PCs, Ended
  <2> QED
    BY <1>1, <2>1, <2>2, Typed
<1>3. CASE pc[c] = "queued" /\ LeavesQueue(c)
  <2>1. pc' = [pc EXCEPT ![c] = "error"]
    BY <1>3 DEF LeavesQueue
  <2> QED
    BY <1>1, <1>3, <2>1, MoveLeave, Typed
<1>4. CASE Holds(c) /\ Release(c, "error")
  BY <1>1, <1>4, MoveRelease DEF Exits
<1>5. CASE body[c] = "llm" /\ UNCHANGED <<pc, body, slots>>
  <2>1. Moved(c)
    BY <1>5, Typed, MoveStill DEF IInv, WorkInv
  <2> QED
    BY <1>1, <1>5, <2>1
<1>6. \/ pc[c] \in {"new", "asking", "backoff"} /\ TakenForNo(c)
      \/ pc[c] = "queued" /\ LeavesQueue(c)
      \/ Holds(c) /\ Release(c, "error")
      \/ body[c] = "llm" /\ UNCHANGED <<pc, body, slots>>
  BY DEF Killed, Leaves, TakenForNo
<1> QED
  BY <1>2, <1>3, <1>4, <1>5, <1>6

LEMMA CallMoves ==
    ASSUME IInv, NEW c \in Calls, Call(c)
    PROVE  Moved(c) /\ Alive(c) /\ pc'[c] \notin {"none", "new"}
<1>1. CASE Evaluate(c)
  BY <1>1, EvaluateMoves DEF Alive, Ended
<1>2. CASE Approve(c)
  <2>1. pc[c] = "asking" /\ Passes(c)
    BY <1>2 DEF Approve, At
  <2> QED
    BY <2>1, PassesMoves DEF Alive, Ended
<1>3. CASE Reject(c)
  <2>1. pc[c] = "asking" /\ pc' = [pc EXCEPT ![c] = "error"] /\ UNCHANGED <<body, slots>>
    BY <1>3 DEF Reject, At
  <2>2. Moved(c)
    BY <2>1, MoveAside DEF PCs, Ended
  <2> QED
    BY <2>1, <2>2, Typed DEF Alive, Ended
<1>4. CASE Proceed(c)
  BY <1>4, ProceedMoves DEF Alive, Ended
<1>5. CASE SubCall(c)
  BY <1>5, SubCallMoves DEF Alive, Ended, SubCall, At
<1>6. CASE Returns(c)
  BY <1>6, ReturnsMoves DEF Alive, Ended, Exits
<1>7. CASE Raises(c)
  BY <1>7, RaisesMoves DEF Alive, Ended, Exits
<1>8. CASE TimesOut(c)
  BY <1>8, TimesOutMoves DEF Alive, Ended, Exits
<1>9. CASE Killed(c)
  BY <1>9, KilledMoves DEF Alive, IInv, WorkInv
<1> QED
  BY <1>1, <1>2, <1>3, <1>4, <1>5, <1>6, <1>7, <1>8, <1>9 DEF Call

-----------------------------------------------------------------------------
(* Types.                                                                  *)

LEMMA CallKeeps ==
    ASSUME NEW c \in Calls, Call(c)
    PROVE  /\ session' = session /\ served' = served /\ made' = made
           /\ phase' = phase /\ tool' = tool
           /\ kills' = kills \/ (Killed(c) /\ kills' = kills \ {c})
<1>1. CASE Evaluate(c)
  BY <1>1 DEF Evaluate, here
<1>2. CASE Approve(c)
  BY <1>2 DEF Approve, here
<1>3. CASE Reject(c)
  BY <1>3 DEF Reject, here
<1>4. CASE Proceed(c)
  BY <1>4 DEF Proceed, here
<1>5. CASE SubCall(c)
  BY <1>5 DEF SubCall, here
<1>6. CASE Returns(c)
  BY <1>6 DEF Returns, here
<1>7. CASE Raises(c)
  BY <1>7 DEF Raises, here
<1>8. CASE TimesOut(c)
  BY <1>8 DEF TimesOut, here
<1>9. CASE Killed(c)
  BY <1>9 DEF Killed, here
<1> QED
  BY <1>1, <1>2, <1>3, <1>4, <1>5, <1>6, <1>7, <1>8, <1>9 DEF Call

\* The attempts and the subagent of a call stay within their bounds.
CountsOK ==
    /\ attempt \in [Calls -> 1 .. MaxRetries + 1]
    /\ subCalls \in [Calls -> 0 .. MaxSubCalls]
    /\ expired \subseteq Calls

LEMMA ReleaseCounts ==
    ASSUME CountsOK, NEW c \in Calls, NEW p, Release(c, p)
    PROVE  subCalls' \in [Calls -> 0 .. MaxSubCalls] /\ expired' \subseteq Calls
<1>1. 0 \in 0 .. MaxSubCalls
  BY ToolExecutorAssumption DEF ToolExecutorAssumption
<1> QED
  BY <1>1 DEF Release, CountsOK

LEMMA RetryCounts ==
    ASSUME CountsOK, NEW c \in Calls, Retry(c)
    PROVE  CountsOK'
<1>1. subCalls' \in [Calls -> 0 .. MaxSubCalls] /\ expired' \subseteq Calls
  BY ReleaseCounts DEF Retry
<1>2. MaxRetries \in Nat /\ attempt \in [Calls -> 1 .. MaxRetries + 1]
  BY ToolExecutorAssumption DEF ToolExecutorAssumption, CountsOK
<1>3. attempt' \in [Calls -> 1 .. MaxRetries + 1]
  <2>1. CASE attempt[c] <= MaxRetries
    <3>1. attempt' = [attempt EXCEPT ![c] = @ + 1]
      BY <2>1 DEF Retry
    <3>2. attempt[c] + 1 \in 1 .. MaxRetries + 1
      BY <1>2, <2>1
    <3> QED
      BY <1>2, <3>1, <3>2
  <2>2. CASE ~(attempt[c] <= MaxRetries)
    BY <1>2, <2>2 DEF Retry
  <2> QED
    BY <2>1, <2>2
<1> QED
  BY <1>1, <1>3 DEF CountsOK

LEMMA CallCounts ==
    ASSUME CountsOK, NEW c \in Calls, Call(c)
    PROVE  CountsOK'
<1>1. CASE UNCHANGED <<attempt, sub>>
  BY <1>1 DEF CountsOK, sub
<1>2. CASE Evaluate(c)
  BY <1>1, <1>2 DEF Evaluate
<1>3. CASE Approve(c)
  BY <1>1, <1>3 DEF Approve
<1>4. CASE Reject(c)
  BY <1>1, <1>4 DEF Reject
<1>5. CASE Proceed(c)
  BY <1>1, <1>5 DEF Proceed
<1>6. CASE SubCall(c)
  <2>1. CASE subCalls[c] < MaxSubCalls /\ subCalls' = [subCalls EXCEPT ![c] = @ + 1]
    <3>1. MaxSubCalls \in Nat /\ subCalls \in [Calls -> 0 .. MaxSubCalls]
      BY ToolExecutorAssumption DEF ToolExecutorAssumption, CountsOK
    <3>2. subCalls[c] + 1 \in 0 .. MaxSubCalls
      BY <2>1, <3>1
    <3>3. attempt' = attempt /\ expired' = expired
      BY <1>6 DEF SubCall
    <3> QED
      BY <2>1, <3>1, <3>2, <3>3 DEF CountsOK
  <2>2. CASE UNCHANGED subCalls
    BY <1>1, <1>6, <2>2 DEF SubCall, sub
  <2> QED
    BY <1>6, <2>1, <2>2 DEF SubCall
<1>7. CASE Returns(c)
  <2>1. attempt' = attempt /\ \E p \in Exits : Release(c, p)
    BY <1>7 DEF Returns, Exits
  <2> QED
    BY <2>1, ReleaseCounts DEF CountsOK
<1>8. CASE Raises(c)
  BY <1>8, RetryCounts DEF Raises
<1>9. CASE TimesOut(c)
  <2>1. CASE Retry(c)
    BY <2>1, RetryCounts
  <2>2. CASE expired' = expired \cup {c} /\ UNCHANGED <<attempt, subCalls>>
    BY <2>2 DEF CountsOK
  <2> QED
    BY <1>9, <2>1, <2>2 DEF TimesOut
<1>10. CASE Killed(c)
  <2>1. attempt' = attempt
    BY <1>10 DEF Killed
  <2>2. UNCHANGED sub \/ Release(c, "error")
    BY <1>10 DEF Killed, TakenForNo, Leaves, LeavesQueue
  <2> QED
    BY <1>1, <2>1, <2>2, ReleaseCounts DEF CountsOK
<1> QED
  BY <1>2, <1>3, <1>4, <1>5, <1>6, <1>7, <1>8, <1>9, <1>10 DEF Call

\* What the policy and the history hold.
PolicyOK ==
    /\ cache \subseteq Sessions \X Gated /\ bypass \subseteq Names /\ persisted \subseteq Names
    /\ settings \subseteq Names
    /\ how \in [Calls -> {"none", "asked", "bypass", "free", "cache"}]
    /\ yes \subseteq Sessions \X Gated
    /\ opened \subseteq (Sessions \cup {Settings}) \X Names

LEMMA ToggleTypes ==
    ASSUME PolicyOK, session \in Sessions, NEW names \in Categories,
           ToggleSession(names) \/ TogglePersisted(names)
    PROVE  /\ bypass' \subseteq Names /\ persisted' \subseteq Names
           /\ opened' \subseteq (Sessions \cup {Settings}) \X Names
<1>1. names \subseteq Names
  BY ToolExecutorAssumption DEF ToolExecutorAssumption
<1>2. /\ {session} \X names \subseteq (Sessions \cup {Settings}) \X Names
      /\ {Settings} \X names \subseteq (Sessions \cup {Settings}) \X Names
  BY <1>1
<1> QED
  BY <1>1, <1>2 DEF ToggleSession, TogglePersisted, PolicyOK

\* How each step of a call leaves the policy and the history.
LEMMA EvaluateHow ==
    ASSUME IInv, NEW c \in Calls, Evaluate(c)
    PROVE  /\ UNCHANGED <<session, served, policy, tool, yes, opened>>
           /\ \/ how' = how /\ pc'[c] \notin Settled
              \/ /\ how' = [how EXCEPT ![c] = Decision(tool[c])]
                 /\ Decision(tool[c]) # "ask" /\ pc'[c] # "asking"
           /\ pc'[c] = "asking" => tool[c] \in Gated
<1>1. UNCHANGED <<session, served, policy, tool, yes, opened>>
  BY DEF Evaluate, here
<1>2. CASE pc' = [pc EXCEPT ![c] = "error"] /\ UNCHANGED how
  BY <1>1, <1>2, Typed DEF Settled
<1>3. CASE Decision(tool[c]) = "ask" /\ pc' = [pc EXCEPT ![c] = "asking"] /\ UNCHANGED how
  <2>1. tool[c] \in Gated
    BY <1>3 DEF Decision
  <2> QED
    BY <1>1, <1>3, <2>1, Typed DEF Settled
<1>4. CASE /\ Decision(tool[c]) # "ask" /\ how' = [how EXCEPT ![c] = Decision(tool[c])]
           /\ Passes(c)
  <2>1. pc'[c] # "asking"
    BY <1>4, PassesMoves DEF Evaluate, At
  <2> QED
    BY <1>1, <1>4, <2>1
<1> QED
  BY <1>2, <1>3, <1>4 DEF Evaluate

\* No step but Evaluate and Approve touches what the user's consent rests on,
\* except for the toggles of approval_control.
LEMMA OthersHow ==
    ASSUME NEW c \in Calls, Call(c), ~Evaluate(c), ~Approve(c)
    PROVE  /\ UNCHANGED <<session, served, cache, tool, how, yes>>
           /\ \/ UNCHANGED <<bypasses, opened>>
              \/ \E names \in Categories :
                     \/ ToggleSession(names)
                     \/ TogglePersisted(names) /\ settings' \in {settings, persisted', {}}
<1>1. CASE Reject(c)
  BY <1>1 DEF Reject, policy, history, here
<1>2. CASE Proceed(c)
  BY <1>2 DEF Proceed, policy, history, here
<1>3. CASE SubCall(c)
  BY <1>3 DEF SubCall, policy, history, here
<1>4. CASE Returns(c)
  BY <1>4 DEF Returns, NoToggle, here
<1>5. CASE Raises(c)
  BY <1>5 DEF Raises, NoToggle, here
<1>6. CASE TimesOut(c)
  BY <1>6 DEF TimesOut, policy, history, here
<1>7. CASE Killed(c)
  BY <1>7 DEF Killed, policy, history, here
<1> QED
  BY <1>1, <1>2, <1>3, <1>4, <1>5, <1>6, <1>7 DEF Call

LEMMA CallPolicy ==
    ASSUME IInv, PolicyOK, NEW c \in Calls, Call(c)
    PROVE  PolicyOK'
<1>1. CASE Evaluate(c)
  <2>1. UNCHANGED <<policy, yes, opened>>
    BY <1>1, EvaluateHow
  <2>2. how' \in [Calls -> {"none", "asked", "bypass", "free", "cache"}]
    <3>1. CASE how' = how
      BY <3>1 DEF PolicyOK
    <3>2. CASE how' = [how EXCEPT ![c] = Decision(tool[c])] /\ Decision(tool[c]) # "ask"
      <4>1. Decision(tool[c]) \in {"bypass", "free", "cache"}
        BY <3>2 DEF Decision
      <4> QED
        BY <3>2, <4>1 DEF PolicyOK
    <3> QED
      BY <1>1, <3>1, <3>2, EvaluateHow
  <2> QED
    BY <2>1, <2>2 DEF PolicyOK, policy, bypasses
<1>2. CASE Approve(c)
  <2>1. session \in Sessions /\ tool[c] \in Gated
    BY <1>2 DEF IInv, TypeOK, AskInv, Approve, At
  <2>2. /\ cache' = cache \cup {<<session, tool[c]>>} /\ yes' = yes \cup {<<session, tool[c]>>}
        /\ how' = [how EXCEPT ![c] = "asked"] /\ UNCHANGED <<bypasses, opened>>
    BY <1>2 DEF Approve
  <2> QED
    BY <2>1, <2>2 DEF PolicyOK, bypasses
<1>3. CASE ~Evaluate(c) /\ ~Approve(c)
  <2>1. UNCHANGED <<cache, how, yes>>
    BY <1>3, OthersHow
  <2>2. CASE UNCHANGED <<bypasses, opened>>
    BY <2>1, <2>2 DEF PolicyOK, bypasses
  <2>3. CASE \E names \in Categories :
                 \/ ToggleSession(names)
                 \/ TogglePersisted(names) /\ settings' \in {settings, persisted', {}}
    <3>1. session \in Sessions
      BY DEF IInv, TypeOK
    <3>2. /\ bypass' \subseteq Names /\ persisted' \subseteq Names
          /\ opened' \subseteq (Sessions \cup {Settings}) \X Names
      BY <2>3, <3>1, ToggleTypes
    <3>3. settings' \subseteq Names
      BY <2>3, <3>2 DEF PolicyOK, ToggleSession
    <3> QED
      BY <2>1, <3>2, <3>3 DEF PolicyOK
  <2> QED
    BY <1>3, <2>2, <2>3, OthersHow
<1> QED
  BY <1>1, <1>2, <1>3

LEMMA CallTypes ==
    ASSUME IInv, NEW c \in Calls, Call(c)
    PROVE  TypeOK'
<1>1. TypeOK
  BY DEF IInv
<1>2. PolicyOK'
  <2>1. PolicyOK
    BY <1>1 DEF TypeOK, PolicyOK
  <2> QED
    BY <2>1, CallPolicy
<1>3. CountsOK'
  <2>1. CountsOK
    BY <1>1 DEF TypeOK, CountsOK
  <2> QED
    BY <2>1, CallCounts
<1>4. Moved(c)
  BY CallMoves
<1>5. permits' \in 0 .. MaxConcurrent
  <2>1. permits' \in Nat /\ permits' + Cardinality(Held(pc')) = MaxConcurrent
    BY <1>4 DEF Moved, SlotsConserved, Held, Holds
  <2>2. Cardinality(Held(pc')) \in Nat /\ MaxConcurrent \in Nat
    BY HeldIsFinite, ToolExecutorAssumption DEF ToolExecutorAssumption
  <2> QED
    BY <2>1, <2>2
<1>6. /\ pc' \in [Calls -> PCs] /\ body' \in [Calls -> Bodies] /\ waiting' \in Seq(Calls)
  BY <1>4 DEF Moved
<1>6a. session' \in served' /\ served' \subseteq Sessions
  <2>1. session' = session /\ served' = served
    BY CallKeeps
  <2>2. session \in served /\ served \subseteq Sessions
    BY <1>1 DEF TypeOK
  <2> QED
    BY <2>1, <2>2
<1>7. /\ made' \in 0 .. MaxMade
      /\ phase' \in {"idle", "batch", "stopped", "stopped again"}
      /\ tool' \in [Calls -> Tools] /\ kills' \subseteq Calls
  BY <1>1, CallKeeps DEF TypeOK
<1> QED
  BY <1>2, <1>3, <1>5, <1>6, <1>6a, <1>7 DEF TypeOK, PolicyOK, CountsOK, PCs, Bodies

-----------------------------------------------------------------------------
(* The invariants under a step of a call.                                  *)

LEMMA CallWork ==
    ASSUME IInv, NEW c \in Calls, Call(c)
    PROVE  WorkInv' /\ StopInv'
<1>1. Moved(c) /\ Alive(c) /\ pc'[c] \notin {"none", "new"}
  BY CallMoves
<1>2. /\ phase' = phase /\ tool' = tool
      /\ kills' = kills \/ (Killed(c) /\ kills' = kills \ {c})
  BY CallKeeps
<1>3. Killed(c) => pc'[c] = "error" \/ (body[c] = "llm" /\ UNCHANGED <<pc, body>>)
  BY KilledMoves
<1>4. phase # "idle"
  BY <1>1 DEF IInv, WorkInv, Alive
<1>5. \A x \in Calls \ {c} : /\ body'[x] = body[x]
                             /\ (pc'[x] = pc[x] \/ (pc[x] = "queued" /\ pc'[x] = "granted"))
  BY <1>1 DEF Moved
<1>6. \A x \in Calls \ {c} : Alive(x)' <=> Alive(x)
  BY <1>5 DEF Alive, Ended
<1>7. \A x \in Calls : body'[x] # "none" <=> pc'[x] = "running"
  BY <1>1, <1>5 DEF Moved, IInv, WorkInv
<1>8. \A x \in Calls : body'[x] \in {"llm", "sub"} => tool'[x] = Task
  BY <1>1, <1>2, <1>5 DEF Moved, IInv, WorkInv
<1>9. \A x \in kills' : Alive(x)'
  <2>1. kills \subseteq Calls /\ \A x \in kills : Alive(x)
    BY DEF IInv, WorkInv, TypeOK
  <2>2. c \notin kills'
    <3>1. CASE Killed(c)
      BY <1>2, <3>1 DEF Killed
    <3>2. CASE ~Killed(c)
      <4>1. c \notin kills
        BY <3>2 DEF Call, Evaluate, Approve, Reject, Proceed, SubCall, Returns, Raises,
                    TimesOut, At
      <4> QED
        BY <1>2, <3>2, <4>1
    <3> QED
      BY <3>1, <3>2
  <2> QED
    BY <1>2, <1>6, <2>1, <2>2
<1>10. StopInv'
  <2> SUFFICES ASSUME phase \in {"stopped", "stopped again"}, NEW x \in Calls, Alive(x)'
               PROVE  x \in kills' \/ tool[x] = Task
    BY <1>2 DEF StopInv
  <2>1. CASE x # c
    <3>1. x \in kills \/ tool[x] = Task
      BY <1>6, <2>1 DEF IInv, StopInv
    <3> QED
      BY <1>2, <2>1, <3>1
  <2>2. CASE x = c
    <3>1. c \in kills \/ tool[c] = Task
      BY <1>1 DEF IInv, StopInv
    <3>2. CASE Killed(c)
      <4>1. pc'[c] # "error"
        BY <2>2 DEF Alive, Ended
      <4>2. body[c] = "llm"
        BY <1>3, <3>2, <4>1
      <4> QED
        BY <2>2, <4>2 DEF IInv, WorkInv
    <3>3. CASE ~Killed(c)
      BY <1>2, <2>2, <3>1, <3>3
    <3> QED
      BY <3>2, <3>3
  <2> QED
    BY <2>1, <2>2
<1> QED
  BY <1>2, <1>4, <1>7, <1>8, <1>9, <1>10 DEF WorkInv

\* Consent does not go away while the session stays.
LEMMA AllowedStays ==
    ASSUME NEW x \in Calls, Allowed(x), how'[x] = how[x], tool' = tool, session' = session,
           served \subseteq served', yes \subseteq yes', opened \subseteq opened'
    PROVE  Allowed(x)'
BY DEF Allowed, BypassOpened

\* The calls whose consent is settled stay so, but for the call that moves.
LEMMA OthersConsent ==
    ASSUME IInv, NEW c \in Calls, Call(c), NEW x \in Calls, x # c,
           how'[x] = how[x], yes \subseteq yes', opened \subseteq opened'
    PROVE  /\ pc'[x] = "asking" => tool'[x] \in Gated
           /\ pc'[x] \in Settled /\ tool'[x] \in Gated => Allowed(x)'
<1>1. tool' = tool /\ session' = session /\ served' = served
  BY CallKeeps
<1>2. pc'[x] = pc[x] \/ (pc[x] = "queued" /\ pc'[x] = "granted")
  BY CallMoves DEF Moved
<1>3. pc[x] = "asking" => tool[x] \in Gated
  BY DEF IInv, AskInv
<1>4. pc[x] \in Settled /\ tool[x] \in Gated => Allowed(x)
  BY DEF IInv, ConsentInv, Settled
<1> QED
  BY <1>1, <1>2, <1>3, <1>4, AllowedStays DEF Settled

LEMMA EvaluateConsent ==
    ASSUME IInv, NEW c \in Calls, Evaluate(c)
    PROVE  ConsentInv' /\ AskInv'
<1>1. /\ UNCHANGED <<session, served, cache, bypass, persisted, settings, tool, yes, opened>>
  BY EvaluateHow DEF policy, bypasses
<1>2. how \in [Calls -> {"none", "asked", "bypass", "free", "cache"}]
  BY DEF IInv, TypeOK
<1>3. \A x \in Calls \ {c} : how'[x] = how[x]
  BY <1>2, EvaluateHow
<1>4. /\ cache \subseteq yes /\ \A n \in bypass : \E s \in served : <<s, n>> \in opened
      /\ \A n \in persisted \cup settings : <<Settings, n>> \in opened
  BY DEF IInv, ConsentInv
<1>5. pc'[c] \in Settled /\ tool[c] \in Gated => Allowed(c)'
  <2> SUFFICES ASSUME pc'[c] \in Settled, tool[c] \in Gated
               PROVE  Allowed(c)'
    OBVIOUS
  <2>1. how'[c] = Decision(tool[c]) /\ Decision(tool[c]) # "ask"
    BY <1>2, EvaluateHow
  <2>2. CASE Bypassed(tool[c])
    <3>1. how'[c] = "bypass"
      BY <2>1, <2>2 DEF Decision
    <3>2. PICK n \in {"*", tool[c]} : n \in bypass \/ n \in persisted
      BY <2>2 DEF Bypassed
    <3>3. \E s \in served \cup {Settings} : <<s, n>> \in opened
      BY <1>4, <3>2
    <3> QED
      BY <1>1, <3>1, <3>2, <3>3 DEF Allowed, BypassOpened
  <2>3. CASE ~Bypassed(tool[c])
    <3>1. how'[c] = "cache" /\ <<session, tool[c]>> \in cache
      BY <2>1, <2>3 DEF Decision
    <3> QED
      BY <1>1, <1>4, <3>1 DEF Allowed
  <2> QED
    BY <2>2, <2>3
<1>6. pc'[c] = "asking" => tool[c] \in Gated
  BY EvaluateHow
<1>7. Call(c)
  BY DEF Call
<1>8. \A x \in Calls : /\ pc'[x] = "asking" => tool'[x] \in Gated
                       /\ pc'[x] \in Settled /\ tool'[x] \in Gated => Allowed(x)'
  BY <1>1, <1>3, <1>5, <1>6, <1>7, OthersConsent
<1> QED
  BY <1>1, <1>4, <1>8 DEF ConsentInv, AskInv, Settled

LEMMA ApproveConsent ==
    ASSUME IInv, NEW c \in Calls, Approve(c)
    PROVE  ConsentInv' /\ AskInv'
<1>1. /\ UNCHANGED <<session, served, bypass, persisted, settings, tool, opened>>
      /\ cache' = cache \cup {<<session, tool[c]>>} /\ yes' = yes \cup {<<session, tool[c]>>}
      /\ how' = [how EXCEPT ![c] = "asked"]
  BY DEF Approve, bypasses, here
<1>2. how \in [Calls -> {"none", "asked", "bypass", "free", "cache"}]
  BY DEF IInv, TypeOK
<1>3. how'[c] = "asked" /\ \A x \in Calls \ {c} : how'[x] = how[x]
  BY <1>1, <1>2
<1>4. /\ cache' \subseteq yes' /\ \A n \in bypass' : \E s \in served' : <<s, n>> \in opened'
      /\ \A n \in persisted' \cup settings' : <<Settings, n>> \in opened'
  BY <1>1 DEF IInv, ConsentInv
<1>5. Allowed(c)'
  BY <1>1, <1>3 DEF Allowed
<1>6. pc'[c] # "asking"
  BY PassesMoves DEF Approve, At
<1>7. Call(c)
  BY DEF Call
<1>8. \A x \in Calls : /\ pc'[x] = "asking" => tool'[x] \in Gated
                       /\ pc'[x] \in Settled /\ tool'[x] \in Gated => Allowed(x)'
  BY <1>1, <1>3, <1>5, <1>6, <1>7, OthersConsent
<1> QED
  BY <1>4, <1>8 DEF ConsentInv, AskInv, Settled

LEMMA ToggleOpened ==
    ASSUME ConsentInv, session \in served, served' = served, NEW names \in Categories,
           \/ ToggleSession(names)
           \/ TogglePersisted(names) /\ settings' \in {settings, persisted', {}}
    PROVE  /\ opened \subseteq opened' /\ \A n \in bypass' : \E s \in served' : <<s, n>> \in opened'
           /\ \A n \in persisted' \cup settings' : <<Settings, n>> \in opened'
<1>1. CASE ToggleSession(names)
  <2>1. \A n \in names : <<session, n>> \in {session} \X names
    OBVIOUS
  <2> QED
    BY <1>1, <2>1 DEF ToggleSession, ConsentInv
<1>2. CASE TogglePersisted(names) /\ settings' \in {settings, persisted', {}}
  <2>1. \A n \in names : <<Settings, n>> \in {Settings} \X names
    OBVIOUS
  <2> QED
    BY <1>2, <2>1 DEF TogglePersisted, ConsentInv
<1> QED
  BY <1>1, <1>2

LEMMA CallConsent ==
    ASSUME IInv, NEW c \in Calls, Call(c)
    PROVE  ConsentInv' /\ AskInv'
<1>1. CASE ~Evaluate(c) /\ ~Approve(c)
  <2>1. UNCHANGED <<session, served, cache, tool, how, yes>>
    BY <1>1, OthersHow
  <2>2. ConsentInv
    BY DEF IInv
  <2>2a. session \in served
    BY DEF IInv, TypeOK
  <2>3. /\ opened \subseteq opened' /\ \A n \in bypass' : \E s \in served' : <<s, n>> \in opened'
        /\ \A n \in persisted' \cup settings' : <<Settings, n>> \in opened'
    <3>1. CASE UNCHANGED <<bypasses, opened>>
      BY <2>1, <2>2, <3>1 DEF ConsentInv, bypasses
    <3>2. CASE \E names \in Categories :
                   \/ ToggleSession(names)
                   \/ TogglePersisted(names) /\ settings' \in {settings, persisted', {}}
      BY <2>1, <2>2, <2>2a, <3>2, ToggleOpened
    <3> QED
      BY <1>1, <3>1, <3>2, OthersHow
  <2>4. cache' \subseteq yes'
    BY <2>1, <2>2 DEF ConsentInv
  <2>5. pc'[c] # "asking" /\ (pc'[c] \in Settled => pc[c] \in Settled)
    <3>1. CASE Reject(c)
      BY <3>1, Typed DEF Reject, At, Settled
    <3>2. CASE Proceed(c)
      BY <3>2, ProceedMoves DEF Settled
    <3>3. CASE SubCall(c)
      BY <3>3, SubCallMoves DEF SubCall, At, Settled
    <3>4. CASE Returns(c)
      BY <3>4, ReturnsMoves DEF Exits, Settled
    <3>5. CASE Raises(c)
      BY <3>5, RaisesMoves DEF Exits, Settled
    <3>6. CASE TimesOut(c)
      BY <3>6, TimesOutMoves DEF Exits, Settled
    <3>7. CASE Killed(c)
      <4>1. body[c] = "llm" => pc[c] = "running"
        BY DEF IInv, WorkInv
      <4> QED
        BY <3>7, <4>1, KilledMoves DEF Settled
    <3> QED
      BY <1>1, <3>1, <3>2, <3>3, <3>4, <3>5, <3>6, <3>7 DEF Call
  <2>6. pc'[c] \in Settled /\ tool[c] \in Gated => Allowed(c)'
    <3>1. pc[c] \in Settled /\ tool[c] \in Gated => Allowed(c)
      BY <2>2 DEF ConsentInv, Settled
    <3> QED
      BY <2>1, <2>3, <2>5, <3>1, AllowedStays
  <2>7. \A x \in Calls : /\ pc'[x] = "asking" => tool'[x] \in Gated
                         /\ pc'[x] \in Settled /\ tool'[x] \in Gated => Allowed(x)'
    BY <2>1, <2>3, <2>5, <2>6, OthersConsent
  <2> QED
    BY <2>3, <2>4, <2>7 DEF ConsentInv, AskInv, Settled
<1> QED
  BY <1>1, EvaluateConsent, ApproveConsent

LEMMA CallInv ==
    ASSUME IInv, NEW c \in Calls, Call(c)
    PROVE  IInv'
<1>1. SlotsConserved'
  BY CallMoves DEF Moved
<1> QED
  BY <1>1, CallTypes, CallWork, CallConsent DEF IInv

-----------------------------------------------------------------------------
(* The steps of the batch.                                                 *)

LEMMA InitInv == Init => IInv
<1> SUFFICES ASSUME Init
             PROVE  IInv
  OBVIOUS
<1>1. TypeOK
  <2>1. persisted \subseteq Names
    BY ToolExecutorAssumption DEF Init, ToolExecutorAssumption
  <2>2. opened \subseteq (Sessions \cup {Settings}) \X Names
    BY <2>1 DEF Init
  <2>3. attempt \in [Calls -> 1 .. MaxRetries + 1] /\ subCalls \in [Calls -> 0 .. MaxSubCalls]
        /\ made \in 0 .. MaxMade /\ permits \in 0 .. MaxConcurrent
    BY ToolExecutorAssumption DEF Init, ToolExecutorAssumption
  <2> QED
    BY <2>1, <2>2, <2>3 DEF Init, TypeOK, Tools
<1>2. SlotsConserved
  <2>1. Held(pc) = {}
    BY DEF Init, Held
  <2>1a. Cardinality(Held(pc)) = 0
    BY <2>1, FS_EmptySet
  <2>1b. permits = MaxConcurrent /\ MaxConcurrent \in Nat
    BY ToolExecutorAssumption DEF Init, ToolExecutorAssumption
  <2>2. permits + Cardinality(Held(pc)) = MaxConcurrent
    BY <2>1a, <2>1b
  <2> QED
    BY <2>2 DEF Init, SlotsConserved, Held, Holds
<1>3. WorkInv /\ StopInv /\ AskInv
  BY DEF Init, WorkInv, StopInv, AskInv, Alive
<1>4. ConsentInv
  <2>1. \A n \in persisted : <<Settings, n>> \in {Settings} \X persisted
    OBVIOUS
  <2> QED
    BY <2>1 DEF Init, ConsentInv
<1> QED
  BY <1>1, <1>2, <1>3, <1>4 DEF IInv

\* A batch starts where no call is left of the one before.
LEMMA BatchInv ==
    ASSUME IInv, Batch
    PROVE  IInv'
<1>1. /\ phase = "idle" /\ phase' = "batch"
      /\ \A x \in Calls : pc[x] = "none"
  BY DEF IInv, WorkInv, Batch
<1>2. \A x \in Calls : pc'[x] \in {"new", "none"}
  BY DEF Batch
<1>3. /\ UNCHANGED <<session, served, cache, bypass, persisted, settings, body, subCalls, expired, kills,
                     permits, waiting, yes, opened>>
  BY DEF Batch, here, policy, bypasses, sub, slots
<1>4. kills = {}
  BY <1>1 DEF IInv, WorkInv, TypeOK, Alive
<1>5. \A x \in Calls : body[x] = "none"
  BY <1>1 DEF IInv, WorkInv
<1>6. TypeOK'
  <2>1. pc' \in [Calls -> Ended \cup {"none", "new", "asking", "queued", "granted", "running",
                                      "backoff"}]
    BY DEF Batch
  <2>2. tool' \in [Calls -> Tools]
    <3>1. PICK n \in Calls : \E ts \in [1 .. n -> Tools] :
             tool' = [x \in Calls |-> IF x <= n THEN ts[x] ELSE Missing]
      BY DEF Batch
    <3>2. Missing \in Tools
      BY DEF Tools
    <3>3. \A x \in Calls : x <= n => x \in 1 .. n
      BY ToolExecutorAssumption DEF Calls, ToolExecutorAssumption
    <3> QED
      BY <3>1, <3>2, <3>3
  <2>3. made' \in 0 .. MaxMade
    <3>1. made \in 0 .. MaxMade /\ MaxMade \in Nat
      BY ToolExecutorAssumption DEF IInv, TypeOK, ToolExecutorAssumption
    <3>2. PICK n \in Calls : made' = made + n /\ made' <= MaxMade
      BY DEF Batch
    <3>3. n \in Nat
      BY ToolExecutorAssumption DEF Calls, ToolExecutorAssumption
    <3> QED
      BY <3>1, <3>2, <3>3
  <2>4. attempt' \in [Calls -> 1 .. MaxRetries + 1]
    BY ToolExecutorAssumption DEF Batch, ToolExecutorAssumption
  <2>5. how' \in [Calls -> {"none", "asked", "bypass", "free", "cache"}]
    BY DEF Batch
  <2>6. TypeOK
    BY DEF IInv
  <2> QED
    BY <1>1, <1>3, <2>1, <2>2, <2>3, <2>4, <2>5, <2>6 DEF TypeOK
<1>7. SlotsConserved'
  <2>1. Held(pc) = Held(pc')
    <3>1. \A x \in Calls : pc[x] \in {"granted", "running"} <=> pc'[x] \in {"granted", "running"}
      BY <1>1, <1>2
    <3> QED
      BY <3>1, HeldSame
  <2>2. \A x \in Calls : pc'[x] = "queued" <=> pc[x] = "queued"
    BY <1>1, <1>2
  <2>3. /\ permits + Cardinality(Held(pc)) = MaxConcurrent
        /\ \A i, j \in 1 .. Len(waiting) : waiting[i] = waiting[j] => i = j
        /\ \A x \in Calls : pc[x] = "queued" <=> \E i \in 1 .. Len(waiting) : waiting[i] = x
        /\ permits > 0 => waiting = <<>>
    BY DEF IInv, SlotsConserved, Held, Holds
  <2>4. permits' = permits /\ waiting' = waiting
    BY <1>3
  <2>5. permits' + Cardinality(Held(pc')) = MaxConcurrent
    BY <2>1, <2>3, <2>4
  <2>6. \A x \in Calls : pc'[x] = "queued" <=> \E i \in 1 .. Len(waiting') : waiting'[i] = x
    BY <2>2, <2>3, <2>4
  <2> QED
    BY <2>3, <2>4, <2>5, <2>6 DEF SlotsConserved, Held, Holds
<1>8. WorkInv' /\ StopInv'
  BY <1>1, <1>2, <1>3, <1>4, <1>5 DEF WorkInv, StopInv
<1>9. ConsentInv' /\ AskInv'
  BY <1>2, <1>3 DEF IInv, ConsentInv, AskInv
<1> QED
  BY <1>6, <1>7, <1>8, <1>9 DEF IInv

LEMMA BatchOverInv ==
    ASSUME IInv, BatchOver
    PROVE  IInv'
<1>1. /\ phase' = "idle" /\ \A x \in Calls : ~Alive(x) /\ pc'[x] = "none"
      /\ UNCHANGED <<session, served, cache, bypass, persisted, settings, made, body, subCalls, expired,
                     kills, permits, waiting, yes, opened>>
  BY DEF BatchOver, here, policy, bypasses, sub, slots
<1>2. \A x \in Calls : pc[x] \in {"none", "success", "error"}
  BY <1>1 DEF Alive, Ended
<1>3. kills = {}
  BY <1>1 DEF IInv, WorkInv, TypeOK
<1>4. \A x \in Calls : body[x] = "none"
  BY <1>2 DEF IInv, WorkInv
<1>5. TypeOK'
  <2>1. pc' \in [Calls -> Ended \cup {"none", "new", "asking", "queued", "granted", "running",
                                      "backoff"}]
    BY DEF BatchOver
  <2>2. tool' \in [Calls -> Tools]
    BY DEF BatchOver, Tools
  <2>3. attempt' \in [Calls -> 1 .. MaxRetries + 1]
    BY ToolExecutorAssumption DEF BatchOver, ToolExecutorAssumption
  <2>4. how' \in [Calls -> {"none", "asked", "bypass", "free", "cache"}]
    BY DEF BatchOver
  <2>5. TypeOK
    BY DEF IInv
  <2> QED
    BY <1>1, <2>1, <2>2, <2>3, <2>4, <2>5 DEF TypeOK
<1>6. SlotsConserved'
  <2>1. Held(pc) = Held(pc')
    <3>1. \A x \in Calls : pc[x] \in {"granted", "running"} <=> pc'[x] \in {"granted", "running"}
      BY <1>1, <1>2
    <3> QED
      BY <3>1, HeldSame
  <2>2. \A x \in Calls : pc'[x] = "queued" <=> pc[x] = "queued"
    BY <1>1, <1>2
  <2>3. /\ permits + Cardinality(Held(pc)) = MaxConcurrent
        /\ \A i, j \in 1 .. Len(waiting) : waiting[i] = waiting[j] => i = j
        /\ \A x \in Calls : pc[x] = "queued" <=> \E i \in 1 .. Len(waiting) : waiting[i] = x
        /\ permits > 0 => waiting = <<>>
    BY DEF IInv, SlotsConserved, Held, Holds
  <2>4. permits' = permits /\ waiting' = waiting
    BY <1>1
  <2>5. permits' + Cardinality(Held(pc')) = MaxConcurrent
    BY <2>1, <2>3, <2>4
  <2>6. \A x \in Calls : pc'[x] = "queued" <=> \E i \in 1 .. Len(waiting') : waiting'[i] = x
    BY <2>2, <2>3, <2>4
  <2> QED
    BY <2>3, <2>4, <2>5, <2>6 DEF SlotsConserved, Held, Holds
<1>7. WorkInv' /\ StopInv'
  BY <1>1, <1>3, <1>4 DEF WorkInv, StopInv
<1>8. ConsentInv' /\ AskInv'
  BY <1>1 DEF IInv, ConsentInv, AskInv
<1> QED
  BY <1>5, <1>6, <1>7, <1>8 DEF IInv

LEMMA StopKeepsInv ==
    ASSUME IInv, Stop
    PROVE  IInv'
<1>1. /\ phase \in {"batch", "stopped"} /\ phase' \in {"stopped", "stopped again"}
      /\ kills' = {x \in Calls : Alive(x)}
      /\ UNCHANGED <<session, served, cache, bypass, persisted, settings, made, tool, pc, attempt, body,
                     subCalls, expired, permits, waiting, how, yes, opened>>
  BY DEF Stop, here, policy, bypasses, sub, slots, history
<1>2. TypeOK /\ SlotsConserved /\ WorkInv /\ ConsentInv /\ AskInv
  BY DEF IInv
<1>3. \A x \in Calls : Alive(x)' <=> Alive(x)
  BY <1>1 DEF Alive
<1>4. TypeOK'
  BY <1>1, <1>2 DEF TypeOK
<1>5. SlotsConserved'
  BY <1>1, <1>2, SlotsStill
<1>6. WorkInv' /\ StopInv'
  BY <1>1, <1>2, <1>3 DEF WorkInv, StopInv
<1>7. ConsentInv' /\ AskInv'
  BY <1>1, <1>2 DEF ConsentInv, AskInv, Allowed, BypassOpened
<1> QED
  BY <1>4, <1>5, <1>6, <1>7 DEF IInv

LEMMA ExpireInv ==
    ASSUME IInv, Expire
    PROVE  IInv'
<1>1. /\ cache' \subseteq cache
      /\ UNCHANGED <<session, served, bypass, persisted, settings, made, phase, tool, pc, attempt, body,
                     subCalls, expired, kills, permits, waiting, how, yes, opened>>
  BY DEF Expire, here, bypasses, sub, slots, history
<1>2. TypeOK /\ SlotsConserved /\ WorkInv /\ StopInv /\ ConsentInv /\ AskInv
  BY DEF IInv
<1>3. TypeOK'
  BY <1>1, <1>2 DEF TypeOK
<1>4. SlotsConserved'
  BY <1>1, <1>2, SlotsStill
<1>5. WorkInv' /\ StopInv'
  BY <1>1, <1>2 DEF WorkInv, StopInv, Alive
<1>6. ConsentInv' /\ AskInv'
  BY <1>1, <1>2 DEF ConsentInv, AskInv, Allowed, BypassOpened
<1> QED
  BY <1>3, <1>4, <1>5, <1>6 DEF IInv

LEMMA RebuildInv ==
    ASSUME IInv, NEW s \in Sessions, Rebuild(s)
    PROVE  IInv'
<1>1. /\ phase = "idle" /\ session' = s /\ served' = {s} /\ cache' = {} /\ bypass' = {}
      /\ persisted' = settings /\ permits' = MaxConcurrent
      /\ UNCHANGED <<settings, made, phase, tool, pc, attempt, body, subCalls, expired, kills,
                     waiting, how, yes, opened>>
  BY DEF Rebuild, sub, history
<1>2. TypeOK /\ SlotsConserved /\ WorkInv /\ StopInv /\ ConsentInv /\ AskInv
  BY DEF IInv
<1>3. \A x \in Calls : pc[x] = "none"
  BY <1>1, <1>2 DEF WorkInv
<1>4. MaxConcurrent \in Nat
  BY ToolExecutorAssumption DEF ToolExecutorAssumption
<1>5. permits' = permits
  <2>1. Held(pc) = {}
    BY <1>3 DEF Held
  <2>2. permits + Cardinality(Held(pc)) = MaxConcurrent
    BY <1>2 DEF SlotsConserved, Held, Holds
  <2>3. permits \in Nat
    BY Typed
  <2> QED
    BY <1>1, <1>4, <2>1, <2>2, <2>3, FS_EmptySet
<1>6. TypeOK'
  BY <1>1, <1>2, <1>5 DEF TypeOK
<1>7. SlotsConserved'
  BY <1>1, <1>2, <1>5, SlotsStill
<1>8. WorkInv' /\ StopInv'
  BY <1>1, <1>2 DEF WorkInv, StopInv, Alive
<1>9. ConsentInv' /\ AskInv'
  BY <1>1, <1>2, <1>3 DEF ConsentInv, AskInv
<1> QED
  BY <1>6, <1>7, <1>8, <1>9 DEF IInv

\* Between two turns no call has any consent to lose.
LEMMA NewSessionInv ==
    ASSUME IInv, NEW s \in Sessions, NewSession(s)
    PROVE  IInv'
<1>1. /\ phase = "idle" /\ session' = s /\ served' = served \cup {s}
      /\ UNCHANGED <<cache, bypass, persisted, settings, made, phase, tool, pc, attempt, body,
                     subCalls, expired, kills, permits, waiting, how, yes, opened>>
  BY DEF NewSession, policy, bypasses, sub, slots, history
<1>2. TypeOK /\ SlotsConserved /\ WorkInv /\ StopInv /\ ConsentInv /\ AskInv
  BY DEF IInv
<1>3. \A x \in Calls : pc[x] = "none"
  BY <1>1, <1>2 DEF WorkInv
<1>4. TypeOK'
  BY <1>1, <1>2 DEF TypeOK
<1>5. SlotsConserved'
  BY <1>1, <1>2, SlotsStill
<1>6. WorkInv' /\ StopInv'
  BY <1>1, <1>2 DEF WorkInv, StopInv, Alive
<1>7. ConsentInv' /\ AskInv'
  BY <1>1, <1>2, <1>3 DEF ConsentInv, AskInv
<1> QED
  BY <1>4, <1>5, <1>6, <1>7 DEF IInv

\* Every step keeps the inductive invariant.
LEMMA NextInv == IInv /\ [Next]_vars => IInv'
<1> SUFFICES ASSUME IInv, [Next]_vars
             PROVE  IInv'
  OBVIOUS
<1>1. CASE Batch
  BY <1>1, BatchInv
<1>2. CASE BatchOver
  BY <1>2, BatchOverInv
<1>3. CASE Stop
  BY <1>3, StopKeepsInv
<1>4. CASE Expire
  BY <1>4, ExpireInv
<1>5. CASE \E s \in Sessions : Rebuild(s) \/ NewSession(s)
  BY <1>5, RebuildInv, NewSessionInv
<1>6. CASE \E c \in Calls : Call(c)
  BY <1>6, CallInv
<1>7. CASE UNCHANGED vars
  <2>1. UNCHANGED <<session, served, cache, bypass, persisted, settings, made, phase, tool, pc, attempt,
                    body, subCalls, expired, kills, permits, waiting, how, yes, opened>>
    BY <1>7 DEF vars, here, policy, bypasses, sub, slots, history
  <2>2. TypeOK /\ SlotsConserved /\ WorkInv /\ StopInv /\ ConsentInv /\ AskInv
    BY DEF IInv
  <2>3. TypeOK'
    BY <2>1, <2>2 DEF TypeOK
  <2>4. SlotsConserved'
    BY <2>1, <2>2, SlotsStill
  <2>5. WorkInv' /\ StopInv'
    BY <2>1, <2>2 DEF WorkInv, StopInv, Alive
  <2>6. ConsentInv' /\ AskInv'
    BY <2>1, <2>2 DEF ConsentInv, AskInv, Allowed, BypassOpened
  <2> QED
    BY <2>3, <2>4, <2>5, <2>6 DEF IInv
<1> QED
  BY <1>1, <1>2, <1>3, <1>4, <1>5, <1>6, <1>7 DEF Next

LEMMA InvariantHolds == Spec => []IInv
BY InitInv, NextInv, PTL DEF Spec

-----------------------------------------------------------------------------
(* The theorems.                                                           *)

\* The executor's variables keep their types, the free slots their bounds.
THEOREM TypeCorrect == Spec => []TypeOK
<1>1. IInv => TypeOK
  BY DEF IInv
<1> QED
  BY <1>1, InvariantHolds, PTL

\* For any number of calls and slots, no mixture of timeouts, retries and
\* cancellations loses a slot of the semaphore or gives one out twice.
THEOREM SlotsAreConserved == Spec => []SlotsConserved
<1>1. IInv => SlotsConserved
  BY DEF IInv
<1> QED
  BY <1>1, InvariantHolds, PTL

\* For any set of sessions and tools, a tool that needs approval works only with
\* the user's yes in this session, or under a bypass from the settings or from a
\* session since the policy engine was built.
THEOREM ToolsHaveConsent == Spec => []Consent
<1>1. IInv => Consent
  <2> SUFFICES ASSUME IInv, NEW c \in Calls, body[c] # "none", tool[c] \in Gated
               PROVE  Allowed(c)
    BY DEF Consent, Allowed
  <2>1. pc[c] = "running"
    BY DEF IInv, WorkInv
  <2> QED
    BY <2>1 DEF IInv, ConsentInv
<1> QED
  BY <1>1, InvariantHolds, PTL

\* After a stop no tool is started but by a task call: every other call has a
\* cancellation on its way, which is the next thing that happens to it.
THEOREM StopsAreObeyed == Spec => StopStops
<1> DEFINE Obeyed == \A c \in Calls : phase # "batch" /\ body[c] = "none" /\ body'[c] # "none"
                                      => tool[c] = Task
<1>1. IInv /\ [Next]_vars => [Obeyed]_vars
  <2> SUFFICES ASSUME IInv, [Next]_vars, NEW c \in Calls, phase # "batch",
                      body[c] = "none", body'[c] # "none"
               PROVE  tool[c] = Task
    OBVIOUS
  <2>1. PICK d \in Calls : Call(d)
    <3>1. body' # body
      OBVIOUS
    <3>2. ~Batch /\ ~BatchOver /\ ~Stop /\ ~Expire /\ ~(UNCHANGED vars)
      BY <3>1 DEF Batch, BatchOver, Stop, Expire, vars
    <3>3. \A s \in Sessions : ~Rebuild(s) /\ ~NewSession(s)
      BY <3>1 DEF Rebuild, NewSession
    <3> QED
      BY <3>2, <3>3 DEF Next
  <2>2. d = c
    BY <2>1, CallMoves DEF Moved
  <2>3. Alive(c) /\ Moved(c)
    BY <2>1, <2>2, CallMoves
  <2>4. phase \in {"stopped", "stopped again"}
    BY <2>3 DEF IInv, TypeOK, WorkInv, Alive
  <2>5. c \in kills \/ tool[c] = Task
    BY <2>3, <2>4 DEF IInv, StopInv
  <2>6. CASE Killed(c)
    <3>1. pc'[c] = "running"
      BY <2>3 DEF Moved
    <3> QED
      BY <2>6, <3>1, KilledMoves
  <2>7. CASE ~Killed(c)
    <3>1. c \notin kills
      BY <2>1, <2>2, <2>7 DEF Call, Evaluate, Approve, Reject, Proceed, SubCall, Returns, Raises,
                  TimesOut, At
    <3> QED
      BY <2>5, <3>1
  <2> QED
    BY <2>6, <2>7
<1> QED
  BY <1>1, InvariantHolds, PTL DEF Spec, StopStops

=============================================================================
