--------------------------- MODULE DispatcherProofs ---------------------------
(***************************************************************************)
(* Theorems about the engine's turn: about Dispatcher, for every number of *)
(* calls, rounds, attempts and turns, every set of keys and every limit of *)
(* the breaker; about LlmCall, the call each of its rounds begins with,    *)
(* for every set of answers and every number of attempts; and about        *)
(* Conversation, which its turns make up, for every set of inputs, hooks   *)
(* and tool calls, every number of turns and all sizes of a compaction.    *)
(*                                                                         *)
(* What the JSON reader and the repairs compute is a fold over a text, and *)
(* so is a part of a list of messages or a chain of hooks: the second part *)
(* begins with induction, from the least element of a set of naturals to   *)
(* folds, and from folds to texts read token by token.                     *)
(***************************************************************************)
EXTENDS Dispatcher, LlmCall, Conversation, SequenceTheorems, FiniteSetTheorems, WellFoundedInduction,
        NaturalsInduction, TLAPS

-----------------------------------------------------------------------------
(* Types.                                                                  *)

LEMMA IdsType ==
    ASSUME TypeOK, round \in 1 .. MaxRounds
    PROVE  /\ BatchIds \in Seq(CallIds) /\ DOMAIN BatchIds = 1 .. Len(building)
           /\ AssistantMsg(BatchIds) \in Message
<1>1. building \in Seq(Keys) /\ Len(building) \in Nat /\ Len(building) <= MaxBatch
  BY DEF TypeOK
<1>2. \A i \in 1 .. Len(building) : <<round, i>> \in CallIds
  BY <1>1, DispatcherAssumption DEF CallIds, DispatcherAssumption
<1>3. BatchIds \in [1 .. Len(building) -> CallIds]
  BY <1>1, <1>2 DEF BatchIds
<1>4. BatchIds \in Seq(CallIds)
  BY <1>1, <1>3
<1> QED
  BY <1>3, <1>4 DEF AssistantMsg, Message

LEMMA AnsweredType ==
    ASSUME TypeOK, round \in 1 .. MaxRounds, next \in DOMAIN building
    PROVE  ToolMsg(<<round, next>>) \in Message /\ Answered \in Seq(Message)
<1>1. <<round, next>> \in CallIds
  BY DispatcherAssumption DEF TypeOK, CallIds, DispatcherAssumption
<1>2. ToolMsg(<<round, next>>) \in Message
  BY <1>1 DEF ToolMsg, Message
<1> QED
  BY <1>2 DEF TypeOK, Answered, Message

LEMMA CountType ==
    ASSUME TypeOK, NEW k \in Keys, NEW r \in Outcomes, Count(k, r)
    PROVE  /\ lastFailed' \in Keys \cup {None} /\ failures' \in Nat
           /\ recent' \in Seq(Records) /\ Len(recent') <= Limit
<1>1. Record(k, r) \in Records
  BY DEF Record, Records
<1>2. recent \in Seq(Records) /\ Len(recent) <= Limit /\ Len(recent) \in Nat
  BY DEF TypeOK
<1>3. Limit \in Nat \ {0}
  BY DispatcherAssumption DEF DispatcherAssumption
<1>4. recent' \in Seq(Records) /\ Len(recent') <= Limit
  <2>1. CASE Len(recent) < Limit
    <3>1. recent' = Append(recent, Record(k, r))
      BY <2>1 DEF Count
    <3> QED
      BY <1>1, <1>2, <1>3, <2>1, <3>1
  <2>2. CASE ~(Len(recent) < Limit)
    <3>1. recent' = Append(Tail(recent), Record(k, r)) /\ recent # <<>>
      BY <1>2, <1>3, <2>2 DEF Count
    <3>2. /\ Tail(recent) \in Seq(Records)
          /\ Len(Tail(recent)) = Len(recent) - 1
      BY <1>2, <3>1
    <3> QED
      BY <1>1, <1>2, <1>3, <3>1, <3>2
  <2> QED
    BY <2>1, <2>2
<1>5. lastFailed' \in Keys \cup {None} /\ failures' \in Nat
  BY DEF Count, TypeOK
<1> QED
  BY <1>4, <1>5

\* What NextRound leaves well typed.
LEMMA NextRoundType ==
    ASSUME TypeOK, round \in 1 .. MaxRounds, NextRound
    PROVE  /\ phase' \in {"llm", "limit"} /\ round' \in 1 .. MaxRounds
           /\ attempt' \in 1 .. MaxAttempts /\ announced' \in 0 .. MaxBatch
           /\ building' \in Seq(Keys) /\ Len(building') <= MaxBatch
           /\ announced' <= Len(building')
           /\ results' \in Seq(Outcomes \cup {None}) /\ next' \in 1 .. MaxBatch + 1
<1>1. CASE round < MaxRounds
  BY <1>1, DispatcherAssumption DEF NextRound, DispatcherAssumption
<1>2. CASE ~(round < MaxRounds)
  BY <1>2 DEF NextRound, TypeOK, streamVars, batchVars
<1> QED
  BY <1>1, <1>2

LEMMA InitType == Init => TypeOK
BY DispatcherAssumption DEF Init, TypeOK, Over, DispatcherAssumption

LEMMA NextType ==
    ASSUME TypeOK, Next
    PROVE  TypeOK'
<1>0. MaxRounds \in Nat \ {0} /\ MaxAttempts \in Nat \ {0} /\ MaxBatch \in Nat /\ MaxTurns \in Nat
  BY DispatcherAssumption DEF DispatcherAssumption
<1>1. ASSUME Start
      PROVE  TypeOK'
  BY <1>0, <1>1 DEF Start, TypeOK, Over, breakerVars
<1>2. ASSUME NEW k \in Keys, Announce(k)
      PROVE  TypeOK'
  <2>1. /\ phase = "llm" /\ announced < MaxBatch /\ announced' = announced + 1
        /\ UNCHANGED <<api, phase, turn, round, attempt, results, next, messages,
                       lastFailed, failures, recent>>
    BY <1>2 DEF Announce, batchVars, breakerVars
  <2>2. building' \in Seq(Keys) /\ Len(building') <= MaxBatch /\ announced' <= Len(building')
    <3>1. CASE announced' \in DOMAIN building
      BY <1>2, <2>1, <3>1 DEF Announce, TypeOK
    <3>2. CASE announced' \notin DOMAIN building
      <4>1. building' = Append(building, k) /\ building \in Seq(Keys) /\ Len(building) = announced
        BY <1>2, <2>1, <3>2 DEF Announce, TypeOK
      <4> QED
        BY <1>0, <2>1, <4>1
    <3> QED
      BY <3>1, <3>2
  <2>3. announced' \in 0 .. MaxBatch
    BY <1>0, <2>1 DEF TypeOK
  <2> QED
    BY <2>1, <2>2, <2>3 DEF TypeOK, Over
<1>3. ASSUME StreamRetried
      PROVE  TypeOK'
  BY <1>0, <1>3 DEF StreamRetried, TypeOK, Over, batchVars, breakerVars
<1>4. ASSUME StreamFails \/ Stopped
      PROVE  TypeOK'
  BY <1>0, <1>4 DEF StreamFails, Stopped, TypeOK, Over, streamVars, batchVars, breakerVars
<1>5. ASSUME StreamEnds
      PROVE  TypeOK'
  <2>1. /\ phase = "llm" /\ round \in 1 .. MaxRounds
        /\ phase' = IF building = <<>> THEN "done" ELSE "tools"
        /\ results' = [i \in DOMAIN building |-> None] /\ next' = 1
        /\ messages' \in {messages, Append(messages, AssistantMsg(BatchIds))}
        /\ UNCHANGED <<api, turn, round, attempt, announced, building, lastFailed, failures, recent>>
    BY <1>5 DEF StreamEnds, TypeOK, Over, streamVars, breakerVars
  <2>2. messages' \in Seq(Message)
    <3>1. messages \in Seq(Message) /\ AssistantMsg(BatchIds) \in Message
      BY <2>1, IdsType DEF TypeOK
    <3> QED
      BY <2>1, <3>1
  <2>3. results' \in Seq(Outcomes \cup {None}) /\ Len(results') = Len(building)
    <3>1. building \in Seq(Keys) /\ Len(building) \in Nat /\ DOMAIN building = 1 .. Len(building)
      BY DEF TypeOK
    <3>2. results' \in [1 .. Len(building) -> Outcomes \cup {None}]
      BY <2>1, <3>1
    <3> QED
      BY <3>1, <3>2
  <2>4. phase' = "tools" => next' \in DOMAIN building
    BY <2>1 DEF TypeOK
  <2> QED
    BY <1>0, <2>1, <2>2, <2>3, <2>4 DEF TypeOK, Over
<1>6. ASSUME NEW i \in 1 .. MaxBatch, NEW r \in Outcomes, CallEnds(i, r)
      PROVE  TypeOK'
  <2>1. /\ phase = "tools" /\ results' = [results EXCEPT ![i] = r]
        /\ phase' = IF \A j \in DOMAIN results : results'[j] # None THEN "results" ELSE "tools"
        /\ UNCHANGED <<api, turn, round, attempt, announced, building, next, messages,
                       lastFailed, failures, recent>>
    BY <1>6 DEF CallEnds, streamVars, breakerVars
  <2>2. /\ results' \in Seq(Outcomes \cup {None}) /\ Len(results') = Len(results)
        /\ DOMAIN results' = DOMAIN results
    <3> DEFINE S == Outcomes \cup {None}
    <3>1. results \in Seq(S) /\ r \in S
      BY DEF TypeOK
    <3> HIDE DEF S
    <3>2. results \in [1 .. Len(results) -> S] /\ Len(results) \in Nat
      BY <3>1
    <3>3. results' \in [1 .. Len(results) -> S]
      BY <2>1, <3>1, <3>2
    <3>4. results' \in Seq(S) /\ Len(results') = Len(results)
      BY <3>2, <3>3
    <3> QED
      BY <3>2, <3>3, <3>4 DEF S
  <2>3. /\ Len(results') = Len(building) /\ next' \in DOMAIN building /\ next' \in 1 .. MaxBatch + 1
        /\ round' \in 1 .. MaxRounds
    BY <2>1, <2>2 DEF TypeOK, Over
  <2>4. phase' = "results" => \A j \in DOMAIN results' : results'[j] # None
    BY <2>1, <2>2
  <2>5. phase' \in {"tools", "results"}
    BY <2>1
  <2> QED
    BY <2>1, <2>2, <2>3, <2>4, <2>5 DEF TypeOK
<1>7. ASSUME ProcessResult
      PROVE  TypeOK'
  <2>1. /\ phase = "results" /\ next \in DOMAIN building /\ round \in 1 .. MaxRounds
        /\ building[next] \in Keys /\ results[next] \in Outcomes
        /\ Count(building[next], results[next]) /\ UNCHANGED <<api, turn>>
    BY <1>7 DEF ProcessResult, TypeOK, Over
  <2>2. /\ lastFailed' \in Keys \cup {None} /\ failures' \in Nat
        /\ recent' \in Seq(Records) /\ Len(recent') <= Limit
    BY <2>1, CountType
  <2>3. CASE /\ phase' = "breaker"
             /\ UNCHANGED <<round, attempt, announced, building, results, next, messages>>
    BY <2>1, <2>2, <2>3 DEF TypeOK, Over
  <2>4. CASE /\ messages' = Answered /\ next < Len(building) /\ next' = next + 1
             /\ UNCHANGED <<phase, round, attempt, announced, building, results>>
    <3>1. next' \in DOMAIN building /\ next' \in 1 .. MaxBatch + 1
      BY <1>0, <2>1, <2>4 DEF TypeOK
    <3>2. messages' \in Seq(Message)
      BY <2>1, <2>4, AnsweredType
    <3> QED
      BY <2>1, <2>2, <2>4, <3>1, <3>2 DEF TypeOK, Over
  <2>5. CASE messages' = Answered /\ NextRound
    <3>1. messages' \in Seq(Message)
      BY <2>1, <2>5, AnsweredType
    <3> QED
      <4>1. /\ phase' \in {"llm", "limit"} /\ round' \in 1 .. MaxRounds
            /\ attempt' \in 1 .. MaxAttempts /\ announced' \in 0 .. MaxBatch
            /\ building' \in Seq(Keys) /\ Len(building') <= MaxBatch
            /\ announced' <= Len(building')
            /\ results' \in Seq(Outcomes \cup {None}) /\ next' \in 1 .. MaxBatch + 1
        BY <2>1, <2>5, NextRoundType
      <4>2. round' \in 0 .. MaxRounds /\ phase' \in Over \cup {"llm", "tools", "results"}
        BY <4>1 DEF Over
      <4> QED
        BY <2>1, <2>2, <3>1, <4>1, <4>2 DEF TypeOK
  <2> QED
    BY <1>7, <2>3, <2>4, <2>5 DEF ProcessResult, streamVars, batchVars
<1>8. ASSUME NEW r \in Outcomes, RunCall(r)
      PROVE  TypeOK'
  <2>1. /\ phase = "tools" /\ next \in DOMAIN building /\ round \in 1 .. MaxRounds
        /\ building[next] \in Keys /\ Count(building[next], r) /\ UNCHANGED <<api, turn>>
    BY <1>8 DEF RunCall, TypeOK, Over
  <2>2. /\ lastFailed' \in Keys \cup {None} /\ failures' \in Nat
        /\ recent' \in Seq(Records) /\ Len(recent') <= Limit
    BY <2>1, CountType
  <2>3. Answered \in Seq(Message)
    BY <2>1, AnsweredType
  <2>4. CASE /\ messages' = Answered /\ next < Len(building) /\ next' = next + 1
             /\ results' = [results EXCEPT ![next] = r]
             /\ UNCHANGED <<phase, round, attempt, announced, building>>
    <3>1. next' \in DOMAIN building /\ next' \in 1 .. MaxBatch + 1
      BY <1>0, <2>1, <2>4 DEF TypeOK
    <3>2. results' \in Seq(Outcomes \cup {None}) /\ Len(results') = Len(building)
      BY <2>1, <2>4 DEF TypeOK
    <3> QED
      BY <2>1, <2>2, <2>3, <2>4, <3>1, <3>2 DEF TypeOK, Over
  <2>5. CASE messages' \in {messages, Answered} /\ NextRound
    <3>1. messages' \in Seq(Message)
      BY <2>3, <2>5 DEF TypeOK
    <3> QED
      <4>1. /\ phase' \in {"llm", "limit"} /\ round' \in 1 .. MaxRounds
            /\ attempt' \in 1 .. MaxAttempts /\ announced' \in 0 .. MaxBatch
            /\ building' \in Seq(Keys) /\ Len(building') <= MaxBatch
            /\ announced' <= Len(building')
            /\ results' \in Seq(Outcomes \cup {None}) /\ next' \in 1 .. MaxBatch + 1
        BY <2>1, <2>5, NextRoundType
      <4>2. round' \in 0 .. MaxRounds /\ phase' \in Over \cup {"llm", "tools", "results"}
        BY <4>1 DEF Over
      <4> QED
        BY <2>1, <2>2, <3>1, <4>1, <4>2 DEF TypeOK
  <2> QED
    BY <1>8, <2>4, <2>5 DEF RunCall, streamVars
<1> QED
  BY <1>1, <1>2, <1>3, <1>4, <1>5, <1>6, <1>7, <1>8 DEF Next, Stream, Batch

LEMMA StutterType ==
    ASSUME TypeOK, UNCHANGED vars
    PROVE  TypeOK'
BY DEF TypeOK, vars

\* Every variable of the dispatcher keeps its type.
THEOREM TypeCorrect == Spec => []TypeOK
<1>1. TypeOK /\ [Next]_vars => TypeOK'
  BY NextType, StutterType
<1> QED
  BY <1>1, InitType, PTL DEF Spec

-----------------------------------------------------------------------------
(* The breaker.  BreakerExact is not inductive: it does not say which call *)
(* the counter is about.                                                   *)

LastIs(k) ==
    Len(recent) > 0 /\ recent[Len(recent)] = Record(k, "error")

CounterInv ==
    /\ failures = 0 => lastFailed = None /\ \A k \in Keys : ~LastIs(k)
    /\ failures > 0 => lastFailed \in Keys /\ LastIs(lastFailed)
    /\ BreakerExact

\* The history moves up by one, or drops its oldest record.
LEMMA Moved ==
    ASSUME TypeOK, NEW k \in Keys, NEW r \in Outcomes, Count(k, r)
    PROVE  \E d \in {0, 1} :
              /\ Len(recent') = Len(recent) + 1 - d /\ Len(recent') > 0
              /\ d = 1 => Len(recent) = Limit
              /\ recent'[Len(recent')] = Record(k, r)
              /\ \A i \in 1 .. Len(recent') - 1 : recent'[i] = recent[i + d]
<1>1. recent \in Seq(Records) /\ Len(recent) <= Limit /\ Len(recent) \in Nat
  BY DEF TypeOK
<1>2. Limit \in Nat \ {0} /\ Record(k, r) \in Records
  BY DispatcherAssumption DEF DispatcherAssumption, Record, Records
<1>3. CASE Len(recent) < Limit
  <2>1. recent' = Append(recent, Record(k, r))
    BY <1>3 DEF Count
  <2> HIDE DEF Record
  <2>2. /\ Len(recent') = Len(recent) + 1 /\ recent'[Len(recent')] = Record(k, r)
        /\ \A i \in 1 .. Len(recent') - 1 : recent'[i] = recent[i + 0]
    BY <1>1, <1>2, <2>1
  <2> QED
    BY <1>1, <2>2
<1>4. CASE ~(Len(recent) < Limit)
  <2>1. recent' = Append(Tail(recent), Record(k, r)) /\ recent # <<>> /\ Len(recent) = Limit
    BY <1>1, <1>2, <1>4 DEF Count
  <2>2. /\ Tail(recent) \in Seq(Records) /\ Len(Tail(recent)) = Len(recent) - 1
        /\ \A i \in 1 .. Len(recent) - 1 : Tail(recent)[i] = recent[i + 1]
    BY <1>1, <2>1
  <2>3. /\ Len(recent') = Len(recent) /\ recent'[Len(recent')] = Record(k, r)
        /\ \A i \in 1 .. Len(recent') - 1 : recent'[i] = recent[i + 1]
    BY <1>1, <1>2, <2>1, <2>2
  <2> QED
    BY <1>1, <1>2, <2>1, <2>3
<1> QED
  BY <1>3, <1>4

\* Positions of the history before and after such a move.
LEMMA Shift ==
    ASSUME NEW n \in Nat, NEW m \in Nat, NEW d \in {0, 1}, m = n + 1 - d, NEW j \in Nat,
           j >= 1, j <= m, NEW i \in Nat
    PROVE  /\ (i \in 1 .. n /\ i > n - (j - 1)) => (i - d \in 1 .. m - 1 /\ i - d > m - j)
           /\ (i \in 1 .. m /\ i > m - j /\ i # m) =>
                 (i \in 1 .. m - 1 /\ i + d \in 1 .. n /\ i + d > n - (j - 1))
<1>1. CASE d = 0
  BY <1>1
<1>2. CASE d = 1
  BY <1>2
<1> QED
  BY <1>1, <1>2

\* Which runs of failures the history shows after a result.
LEMMA FailingMoved ==
    ASSUME TypeOK, NEW k \in Keys, NEW r \in Outcomes, Count(k, r), NEW j \in 1 .. Limit
    PROVE  Failing(j)' <=> /\ r = "error"
                           /\ j = 1 \/ (Failing(j - 1) /\ LastIs(k))
<1>1. PICK d \in {0, 1} :
              /\ Len(recent') = Len(recent) + 1 - d /\ Len(recent') > 0
              /\ d = 1 => Len(recent) = Limit
              /\ recent'[Len(recent')] = Record(k, r)
              /\ \A i \in 1 .. Len(recent') - 1 : recent'[i] = recent[i + d]
  BY Moved
<1>2. Len(recent) \in Nat /\ Limit \in Nat \ {0} /\ Len(recent') \in Nat /\ j \in Nat /\ j >= 1
  BY <1>1, DispatcherAssumption DEF TypeOK, DispatcherAssumption
<1>3. ASSUME Failing(j)'
      PROVE  r = "error" /\ (j = 1 \/ (Failing(j - 1) /\ LastIs(k)))
  <2>1. PICK q \in Keys : \A i \in 1 .. Len(recent') :
                             i > Len(recent') - j => recent'[i] = Record(q, "error")
    BY <1>3 DEF Failing
  <2>2. Record(k, r) = Record(q, "error") /\ j <= Len(recent')
    BY <1>1, <1>2, <1>3, <2>1 DEF Failing
  <2>3. q = k /\ r = "error"
    BY <2>2 DEF Record
  <2>4. ASSUME j # 1
        PROVE  Failing(j - 1) /\ LastIs(k)
    <3>1. \A i \in 1 .. Len(recent) : i > Len(recent) - (j - 1) => recent[i] = Record(k, "error")
      <4>1. ASSUME NEW i \in 1 .. Len(recent), i > Len(recent) - (j - 1)
            PROVE  recent[i] = Record(k, "error")
        <5>1. i - d \in 1 .. Len(recent') - 1 /\ i - d > Len(recent') - j
          BY <1>1, <1>2, <2>2, <4>1, Shift
        <5>2. (i - d) + d = i
          BY <1>2, <4>1
        <5>4. recent'[i - d] = recent[(i - d) + d]
          BY <1>1, <5>1, Zenon
        <5>3. recent'[i - d] = Record(k, "error")
          BY <1>2, <2>1, <2>3, <5>1
        <5> QED
          BY <5>2, <5>3, <5>4
      <4> QED
        BY <4>1
    <3>2. j - 1 <= Len(recent) /\ Len(recent) > 0
      BY <1>1, <1>2, <2>2, <2>4
    <3>3. LastIs(k)
      BY <1>2, <2>4, <3>1, <3>2 DEF LastIs
    <3> QED
      BY <3>1, <3>2, <3>3 DEF Failing
  <2> QED
    BY <2>3, <2>4
<1>4. ASSUME r = "error", j = 1 \/ (Failing(j - 1) /\ LastIs(k))
      PROVE  Failing(j)'
  <2>1. CASE j = 1
    <3>1. \A i \in 1 .. Len(recent') : i > Len(recent') - 1 => i = Len(recent')
      BY <1>2
    <3> QED
      BY <1>1, <1>2, <1>4, <2>1, <3>1 DEF Failing
  <2>2. CASE j # 1 /\ Failing(j - 1) /\ LastIs(k)
    <3>1. PICK q \in Keys : \A i \in 1 .. Len(recent) :
                               i > Len(recent) - (j - 1) => recent[i] = Record(q, "error")
      BY <2>2 DEF Failing
    <3>2. Record(q, "error") = Record(k, "error")
      BY <1>2, <2>2, <3>1 DEF LastIs
    <3>3. q = k
      BY <3>2 DEF Record
    <3>4. j - 1 <= Len(recent) /\ j <= Len(recent')
      BY <1>1, <1>2, <2>2 DEF Failing
    <3>5. ASSUME NEW i \in 1 .. Len(recent'), i > Len(recent') - j
          PROVE  recent'[i] = Record(k, "error")
      <4>1. CASE i = Len(recent')
        BY <1>1, <1>4, <4>1
      <4>2. CASE i # Len(recent')
        <5>1. i \in 1 .. Len(recent') - 1 /\ i + d \in 1 .. Len(recent)
              /\ i + d > Len(recent) - (j - 1)
          BY <1>1, <1>2, <3>4, <3>5, <4>2, Shift
        <5> QED
          BY <1>1, <3>1, <3>3, <5>1
      <4> QED
        BY <4>1, <4>2
    <3> QED
      BY <3>4, <3>5 DEF Failing
  <2> QED
    BY <1>4, <2>1, <2>2
<1> QED
  BY <1>3, <1>4

LEMMA CountCounter ==
    ASSUME TypeOK, CounterInv, NEW k \in Keys, NEW r \in Outcomes, Count(k, r)
    PROVE  CounterInv'
<1>1. /\ Len(recent') > 0 /\ recent'[Len(recent')] = Record(k, r)
  BY Moved
<1>2. None \notin Keys /\ Limit \in Nat \ {0} /\ failures \in Nat
  BY DispatcherAssumption DEF DispatcherAssumption, TypeOK
<1>3. CASE r = "success"
  <2>1. failures' = 0 /\ lastFailed' = None
    BY <1>3 DEF Count
  <2>2. \A q \in Keys : ~LastIs(q)'
    BY <1>1, <1>3 DEF LastIs, Record
  <2>3. BreakerExact'
    BY <1>2, <1>3, <2>1, FailingMoved DEF BreakerExact
  <2> QED
    BY <2>1, <2>2, <2>3 DEF CounterInv
<1>4. CASE r = "error" /\ k = lastFailed
  <2>1. failures' = failures + 1 /\ lastFailed' = k
    BY <1>4 DEF Count
  <2>2. LastIs(k) /\ LastIs(k)'
    BY <1>1, <1>2, <1>4 DEF CounterInv, LastIs
  <2>3. ASSUME NEW j \in 1 .. Limit
        PROVE  failures' >= j <=> Failing(j)'
    <3>1. Failing(j)' <=> (j = 1 \/ Failing(j - 1))
      BY <1>4, <2>2, FailingMoved
    <3>2. j # 1 => (failures >= j - 1 <=> Failing(j - 1))
      BY <1>2 DEF CounterInv, BreakerExact
    <3> QED
      BY <1>2, <2>1, <3>1, <3>2
  <2> QED
    BY <1>2, <2>1, <2>2, <2>3 DEF CounterInv, BreakerExact
<1>5. CASE r = "error" /\ k # lastFailed
  <2>1. failures' = 1 /\ lastFailed' = k
    BY <1>5 DEF Count
  <2>2. LastIs(k)'
    BY <1>1, <1>5 DEF LastIs
  <2>3. ~LastIs(k)
    BY <1>2, <1>5 DEF CounterInv, LastIs, Record
  <2>4. ASSUME NEW j \in 1 .. Limit
        PROVE  failures' >= j <=> Failing(j)'
    BY <1>2, <1>5, <2>1, <2>3, FailingMoved
  <2> QED
    BY <2>1, <2>2, <2>4 DEF CounterInv, BreakerExact
<1> QED
  BY <1>3, <1>4, <1>5 DEF Outcomes

LEMMA NextCounter ==
    ASSUME TypeOK, CounterInv, [Next]_vars
    PROVE  CounterInv'
<1>1. CASE UNCHANGED breakerVars
  BY <1>1 DEF breakerVars, CounterInv, LastIs, BreakerExact, Failing
<1>2. ASSUME ProcessResult
      PROVE  CounterInv'
  <2>1. building[next] \in Keys /\ results[next] \in Outcomes /\ Count(building[next], results[next])
    BY <1>2 DEF ProcessResult, TypeOK
  <2> QED
    BY <2>1, CountCounter
<1>3. ASSUME NEW r \in Outcomes, RunCall(r)
      PROVE  CounterInv'
  <2>1. building[next] \in Keys /\ Count(building[next], r)
    BY <1>3 DEF RunCall, TypeOK
  <2> QED
    BY <2>1, CountCounter
<1>4. CASE Start \/ Stream \/ Stopped
           \/ (\E i \in 1 .. MaxBatch, r \in Outcomes : CallEnds(i, r)) \/ UNCHANGED vars
  BY <1>1, <1>4 DEF Start, Stream, StreamRetried, StreamFails, StreamEnds, Announce, Stopped,
     CallEnds, breakerVars, vars
<1> QED
  BY <1>2, <1>3, <1>4 DEF Next, Batch

\* The breaker's counter is exact, however rounds, retries, stops and turns
\* interleave: the loop is ended for a call that failed Limit times in a row, and
\* for no other.
THEOREM BreakerIsExact == Spec => []BreakerExact
<1>1. Init => CounterInv
  BY DispatcherAssumption DEF Init, CounterInv, LastIs, BreakerExact, Failing, DispatcherAssumption
<1>2. CounterInv => BreakerExact
  BY DEF CounterInv
<1> QED
  BY <1>1, <1>2, NextCounter, TypeCorrect, PTL DEF Spec

-----------------------------------------------------------------------------
(* The prompt.  Between rounds CallsPaired suffices; while a batch is run  *)
(* and its results are processed, its message stands behind a well-formed  *)
(* prefix, followed by the answers given so far.                           *)

\* Message p of m is answered within the first n messages.
AnsweredBy(m, p, n) ==
    m[p].role = "assistant" =>
        \A j \in DOMAIN m[p].calls : p + j <= n /\ m[p + j] = ToolMsg(m[p].calls[j])

\* The batch's own message: the answers follow it.
Open == Len(messages) - (next - 1)

PromptInv ==
    api = "stream" =>
        /\ phase = "llm" => \A p \in 1 .. Len(messages) : AnsweredBy(messages, p, Len(messages))
        /\ phase = "tools" => next = 1
        /\ phase \in {"tools", "results"} =>
              /\ Open \in 1 .. Len(messages) /\ messages[Open] = AssistantMsg(BatchIds)
              /\ \A p \in 1 .. Open - 1 : AnsweredBy(messages, p, Open - 1)
              /\ \A j \in 1 .. next - 1 : messages[Open + j] = ToolMsg(<<round, j>>)

\* An answer, once given, stays where it is.
LEMMA AnsweredKept ==
    ASSUME NEW m, NEW w, NEW n \in Nat, NEW p \in 1 .. n, AnsweredBy(m, p, n),
           \A q \in 1 .. n : w[q] = m[q],
           m[p].role = "assistant" => DOMAIN m[p].calls \subseteq Nat,
           NEW l \in Nat, l >= n
    PROVE  AnsweredBy(w, p, l)
<1>1. w[p] = m[p]
  OBVIOUS
<1>2. ASSUME m[p].role = "assistant", NEW j \in DOMAIN m[p].calls
      PROVE  p + j <= l /\ w[p + j] = ToolMsg(m[p].calls[j])
  <2>1. j \in Nat /\ p + j <= n /\ m[p + j] = ToolMsg(m[p].calls[j])
    BY <1>2 DEF AnsweredBy
  <2>2. p + j \in 1 .. n /\ p + j <= l
    BY <2>1
  <2> QED
    BY <2>1, <2>2
<1> QED
  BY <1>1, <1>2 DEF AnsweredBy

LEMMA CallPositions ==
    ASSUME TypeOK, NEW p \in 1 .. Len(messages), messages[p].role = "assistant"
    PROVE  DOMAIN messages[p].calls \subseteq Nat
<1>1. messages[p] \in Message
  BY DEF TypeOK
<1>2. ASSUME messages[p] \in [role : {"tool"}, id : CallIds]
      PROVE  FALSE
  <2>1. messages[p].role = "tool"
    BY <1>2
  <2> QED
    BY <2>1
<1>3. messages[p].calls \in Seq(CallIds)
  BY <1>1, <1>2 DEF Message
<1> QED
  BY <1>3

\* A message that asks for nothing is answered.
LEMMA NothingAsked ==
    ASSUME NEW m, NEW p, NEW n, m[p].role = "tool" \/ m[p] = AssistantMsg(<<>>)
    PROVE  AnsweredBy(m, p, n)
<1>1. CASE m[p] = AssistantMsg(<<>>)
  <2>1. DOMAIN m[p].calls = {}
    BY <1>1 DEF AssistantMsg
  <2> QED
    BY <2>1 DEF AnsweredBy
<1> QED
  BY <1>1 DEF AnsweredBy

LEMMA EndsPrompt ==
    ASSUME TypeOK, PromptInv, StreamEnds
    PROVE  PromptInv'
<1> DEFINE n == Len(messages)
<1>1. messages \in Seq(Message) /\ n \in Nat /\ phase = "llm"
  BY DEF TypeOK, StreamEnds
<1>2. CASE api # "stream" \/ building = <<>>
  BY <1>2 DEF StreamEnds, PromptInv
<1>3. CASE api = "stream" /\ building # <<>>
  <2>1. /\ messages' = Append(messages, AssistantMsg(BatchIds)) /\ next' = 1 /\ phase' = "tools"
        /\ UNCHANGED <<api, round, building>>
    BY <1>3 DEF StreamEnds, streamVars
  <2>2. AssistantMsg(BatchIds) \in Message
    BY <1>1, IdsType DEF TypeOK, Over
  <2> DEFINE a == AssistantMsg(BatchIds)
  <2> HIDE DEF a
  <2>3. messages' = Append(messages, a) /\ a \in Message
    BY <2>1, <2>2 DEF a
  <2>4. /\ Len(messages') = n + 1 /\ messages'[n + 1] = a
        /\ \A q \in 1 .. n : messages'[q] = messages[q]
    BY <1>1, <2>3
  <2>5. Open' = n + 1
    BY <1>1, <2>1, <2>4 DEF Open
  <2>6. BatchIds' = BatchIds /\ AssistantMsg(BatchIds') = a
    BY <2>1 DEF a, BatchIds
  <2>7. ASSUME NEW p \in 1 .. n
        PROVE  AnsweredBy(messages', p, n)
    <3>1. AnsweredBy(messages, p, n)
      BY <1>1, <1>3 DEF PromptInv
    <3>2. messages[p].role = "assistant" => DOMAIN messages[p].calls \subseteq Nat
      BY <1>1, CallPositions
    <3>3. n \in Nat /\ n >= n /\ \A q \in 1 .. n : messages'[q] = messages[q]
      BY <1>1, <2>4
    <3> HIDE DEF n
    <3> QED
      BY <3>1, <3>2, <3>3, AnsweredKept
  <2>8. Open' - 1 = n /\ Open' \in 1 .. Len(messages') /\ messages'[Open'] = a /\ 1 .. next' - 1 = {}
    BY <1>1, <2>1, <2>4, <2>5
  <2> QED
    BY <2>1, <2>6, <2>7, <2>8 DEF PromptInv
<1> QED
  BY <1>2, <1>3

LEMMA ProcessPrompt ==
    ASSUME TypeOK, PromptInv, ProcessResult
    PROVE  PromptInv'
<1> DEFINE n == Len(messages)
           o == Open
           w == ToolMsg(<<round, next>>)
<1>1. /\ messages \in Seq(Message) /\ n \in Nat /\ phase = "results" /\ api = "stream" /\ api' = api
      /\ building \in Seq(Keys) /\ next \in DOMAIN building /\ round \in 1 .. MaxRounds
  BY DEF TypeOK, ProcessResult, Over
<1>2. /\ next \in Nat /\ 1 <= next /\ next <= Len(building) /\ Len(building) \in Nat
      /\ DOMAIN BatchIds = 1 .. Len(building)
  BY <1>1 DEF BatchIds
<1>3. /\ o \in 1 .. n /\ n = o + (next - 1) /\ messages[o] = AssistantMsg(BatchIds)
      /\ \A p \in 1 .. o - 1 : AnsweredBy(messages, p, o - 1)
      /\ \A j \in 1 .. next - 1 : messages[o + j] = ToolMsg(<<round, j>>)
  BY <1>1, <1>2 DEF PromptInv, Open
<1>4. CASE phase' \in {"breaker", "limit"}
  BY <1>4 DEF PromptInv
<1>5. w \in Message /\ Answered = Append(messages, w)
  BY <1>1, AnsweredType DEF Answered
<1> HIDE DEF o, w
<1>6. ASSUME messages' = Answered
      PROVE  /\ Len(messages') = n + 1 /\ messages'[n + 1] = w
             /\ \A q \in 1 .. n : messages'[q] = messages[q]
             /\ \A p \in 1 .. o - 1, l \in Nat : l >= o - 1 => AnsweredBy(messages', p, l)
             /\ messages'[o] = AssistantMsg(BatchIds)
             /\ \A j \in 1 .. next : messages'[o + j] = ToolMsg(<<round, j>>)
  <2>1. /\ Len(messages') = n + 1 /\ messages'[n + 1] = w
        /\ \A q \in 1 .. n : messages'[q] = messages[q]
    <3>1. messages' = Append(messages, w)
      BY <1>5, <1>6
    <3>2. messages \in Seq(Message) /\ w \in Message
      BY <1>1, <1>5
    <3> QED
      BY <3>1, <3>2
  <2>2. ASSUME NEW p \in 1 .. o - 1, NEW l \in Nat, l >= o - 1
        PROVE  AnsweredBy(messages', p, l)
    <3>1. /\ p \in 1 .. n /\ o - 1 \in Nat /\ AnsweredBy(messages, p, o - 1)
          /\ \A q \in 1 .. o - 1 : messages'[q] = messages[q]
      BY <1>1, <1>3, <2>1
    <3>2. messages[p].role = "assistant" => DOMAIN messages[p].calls \subseteq Nat
      BY <3>1, CallPositions
    <3> QED
      BY <2>2, <3>1, <3>2, AnsweredKept
  <2>3. messages'[o] = AssistantMsg(BatchIds)
    BY <1>3, <2>1
  <2>4. ASSUME NEW j \in 1 .. next
        PROVE  messages'[o + j] = ToolMsg(<<round, j>>)
    <3>1. CASE j = next
      <4>1. o + j = n + 1
        BY <1>2, <1>3, <3>1
      <4> QED
        BY <2>1, <3>1, <4>1 DEF w
    <3>2. CASE j # next
      <4>1. j \in 1 .. next - 1 /\ o + j \in 1 .. n
        BY <1>2, <1>3, <3>2
      <4> QED
        BY <1>3, <2>1, <4>1
    <3> QED
      BY <3>1, <3>2
  <2> QED
    BY <2>1, <2>2, <2>3, <2>4
<1>7. CASE /\ messages' = Answered /\ next < Len(building) /\ next' = next + 1
           /\ UNCHANGED <<phase, round, building>>
  <2>1. Open' = o /\ o - 1 \in Nat
    <3>1. Open' = Len(messages') - (next' - 1)
      BY DEF Open
    <3>2. Len(messages') = n + 1 /\ next' = next + 1 /\ o \in Nat /\ o >= 1
      BY <1>1, <1>3, <1>6, <1>7
    <3> QED
      BY <1>2, <1>3, <3>1, <3>2
  <2>2. BatchIds' = BatchIds /\ AssistantMsg(BatchIds') = AssistantMsg(BatchIds)
    BY <1>7 DEF BatchIds
  <2>3. /\ Open' \in 1 .. Len(messages') /\ messages'[Open'] = AssistantMsg(BatchIds')
        /\ \A p \in 1 .. Open' - 1 : AnsweredBy(messages', p, Open' - 1)
    BY <1>1, <1>3, <1>6, <1>7, <2>1, <2>2
  <2>4. \A j \in 1 .. next' - 1 : messages'[Open' + j] = ToolMsg(<<round', j>>)
    <3>1. next' - 1 = next
      BY <1>2, <1>7
    <3> QED
      BY <1>6, <1>7, <2>1, <3>1
  <2> QED
    BY <1>1, <1>7, <2>3, <2>4 DEF PromptInv
<1>8. CASE messages' = Answered /\ next = Len(building) /\ phase' = "llm"
  <2>1. ASSUME NEW p \in 1 .. n + 1
        PROVE  AnsweredBy(messages', p, n + 1)
    <3>1. CASE p < o
      BY <1>1, <1>3, <1>6, <1>8, <3>1
    <3>2. CASE p = o
      <4>1. /\ messages'[p] = AssistantMsg(BatchIds)
            /\ \A j \in 1 .. Len(building) : p + j <= n + 1 /\ messages'[p + j] = ToolMsg(<<round, j>>)
        BY <1>2, <1>3, <1>6, <1>8, <3>2
      <4>2. messages'[p].calls = BatchIds
        BY <4>1 DEF AssistantMsg
      <4>3. \A j \in 1 .. Len(building) : BatchIds[j] = <<round, j>>
        BY <1>1 DEF BatchIds
      <4> QED
        BY <1>2, <4>1, <4>2, <4>3 DEF AnsweredBy
    <3>3. CASE p > o
      <4>1. p - o \in 1 .. next /\ o + (p - o) = p
        BY <1>2, <1>3, <3>3
      <4>2. messages'[p] = ToolMsg(<<round, p - o>>)
        BY <1>6, <1>8, <4>1
      <4>3. messages'[p].role = "tool"
        BY <4>2 DEF ToolMsg
      <4> QED
        BY <4>3, NothingAsked
    <3> QED
      BY <1>3, <3>1, <3>2, <3>3
  <2> QED
    BY <1>6, <1>8, <2>1 DEF PromptInv
<1>9. \/ phase' = "breaker"
      \/ messages' = Answered /\ next < Len(building) /\ next' = next + 1
         /\ UNCHANGED <<phase, round, building>>
      \/ messages' = Answered /\ ~(next < Len(building)) /\ NextRound
  BY DEF ProcessResult, streamVars
<1>10. NextRound => phase' \in {"llm", "limit"}
  BY DEF NextRound
<1>11. ~(next < Len(building)) => next = Len(building)
  BY <1>2
<1> QED
  BY <1>4, <1>7, <1>8, <1>9, <1>10, <1>11

LEMMA NextPrompt ==
    ASSUME TypeOK, PromptInv, [Next]_vars
    PROVE  PromptInv'
<1>1. ASSUME Start
      PROVE  PromptInv'
  <2>1. messages' = <<>> /\ phase' = "llm"
    BY <1>1 DEF Start
  <2>2. 1 .. Len(messages') = {}
    BY <2>1
  <2> QED
    BY <2>1, <2>2 DEF PromptInv
<1>2. CASE StreamRetried \/ \E k \in Keys : Announce(k)
  <2>1. phase = "llm" /\ UNCHANGED <<api, phase, messages>>
    BY <1>2 DEF StreamRetried, Announce
  <2> QED
    BY <2>1 DEF PromptInv
<1>3. CASE StreamFails \/ Stopped
  <2>1. phase' \in {"error", "stopped"}
    BY <1>3 DEF StreamFails, Stopped
  <2> QED
    BY <2>1 DEF PromptInv
<1>4. CASE StreamEnds
  BY <1>4, EndsPrompt
<1>5. ASSUME NEW i \in 1 .. MaxBatch, NEW r \in Outcomes, CallEnds(i, r)
      PROVE  PromptInv'
  <2>1. /\ phase = "tools" /\ phase' \in {"tools", "results"}
        /\ UNCHANGED <<api, round, building, next, messages>>
    BY <1>5 DEF CallEnds, streamVars
  <2>2. BatchIds' = BatchIds /\ Open' = Open
    BY <2>1 DEF BatchIds, Open
  <2> QED
    BY <2>1, <2>2 DEF PromptInv
<1>6. CASE ProcessResult
  BY <1>6, ProcessPrompt
<1>7. CASE \E r \in Outcomes : RunCall(r)
  BY <1>7 DEF RunCall, PromptInv
<1>8. CASE UNCHANGED vars
  <2>1. UNCHANGED <<api, phase, round, building, next, messages>>
    BY <1>8 DEF vars
  <2>2. BatchIds' = BatchIds /\ Open' = Open
    BY <2>1 DEF BatchIds, Open
  <2> QED
    BY <2>1, <2>2 DEF PromptInv
<1> QED
  BY <1>1, <1>2, <1>3, <1>4, <1>5, <1>6, <1>7, <1>8 DEF Next, Stream, Batch

LEMMA PromptPaired ==
    ASSUME TypeOK, PromptInv
    PROVE  CallsPaired
<1>1. ASSUME api = "stream", phase = "llm", NEW p \in DOMAIN messages,
             messages[p].role = "assistant", NEW j \in DOMAIN messages[p].calls
      PROVE  p + j \in DOMAIN messages /\ messages[p + j] = ToolMsg(messages[p].calls[j])
  <2>1. /\ DOMAIN messages = 1 .. Len(messages) /\ Len(messages) \in Nat
        /\ messages[p].calls \in Seq(CallIds)
    <3>1. messages \in Seq(Message) /\ messages[p] \in Message
      BY DEF TypeOK
    <3>2. messages[p] \notin [role : {"tool"}, id : CallIds]
      BY <1>1
    <3> QED
      BY <3>1, <3>2 DEF Message
  <2>2. AnsweredBy(messages, p, Len(messages))
    BY <1>1, <2>1 DEF PromptInv
  <2>3. p + j <= Len(messages) /\ messages[p + j] = ToolMsg(messages[p].calls[j])
    BY <1>1, <2>2 DEF AnsweredBy
  <2> QED
    BY <2>1, <2>3
<1> QED
  BY <1>1 DEF CallsPaired, Paired

\* Whatever is retried, fails, ends out of order or is stopped, a prompt that
\* dispatch_stream sends has an answer for every call, in its place.
THEOREM PromptsAreWellFormed == Spec => []CallsPaired
<1>1. Init => PromptInv
  <2>1. Init => messages = <<>> /\ phase = "idle"
    BY DEF Init
  <2> QED
    BY <2>1 DEF PromptInv
<1>2. TypeOK /\ PromptInv => CallsPaired
  BY PromptPaired
<1> QED
  BY <1>1, <1>2, NextPrompt, TypeCorrect, PTL DEF Spec

-----------------------------------------------------------------------------
(* Induction, and folds.                                                   *)

\* A set of naturals has a least element: what induction is made of here.
LEMMA LeastOf ==
    ASSUME NEW T \in SUBSET Nat, T # {}
    PROVE  \E x \in T : \A y \in T : x <= y
<1> DEFINE R == {ss \in Nat \X Nat : ss[1] < ss[2]}
<1>1. IsWellFoundedOn(R, Nat)
  BY NatLessThanWellFounded, Zenon DEF OpToRel
<1>2. \E x \in T : \A y \in T : <<y, x>> \notin R
  <2> HIDE DEF R
  <2> QED BY <1>1, WFMin, Zenon
<1>3. \A x, y \in Nat : y < x => <<y, x>> \in R
  <2> TAKE x, y \in Nat
  <2> HAVE y < x
  <2>1. <<y, x>> \in Nat \X Nat
    OBVIOUS
  <2>2. <<y, x>>[1] < <<y, x>>[2]
    OBVIOUS
  <2> QED BY <2>1, <2>2, Zenon
<1> HIDE DEF R
<1>4. PICK x \in T : \A y \in T : <<y, x>> \notin R
  BY <1>2
<1>5. \A y \in T : ~(y < x)
  <2> TAKE y \in T
  <2>1. y \in Nat /\ x \in Nat
    OBVIOUS
  <2>2. <<y, x>> \notin R
    BY <1>4
  <2> QED BY <2>1, <2>2, <1>3, Zenon
<1>6. \A y \in T : x <= y
  <2> TAKE y \in T
  <2>1. y \in Nat /\ x \in Nat /\ ~(y < x)
    BY <1>5
  <2> QED BY ONLY <2>1, SMT
<1> QED BY <1>6

\* Induction over a set: what holds of 0, and of a number whenever of the one before.
LEMMA Induct ==
    ASSUME NEW P \in SUBSET Nat, 0 \in P, \A n \in Nat : n \in P => n + 1 \in P
    PROVE  P = Nat
<1> SUFFICES ASSUME Nat \ P # {} PROVE FALSE
  OBVIOUS
<1>1. PICK x \in Nat \ P : \A y \in Nat \ P : x <= y
  <2> DEFINE T == Nat \ P
  <2>1. T \in SUBSET Nat /\ T # {}
    OBVIOUS
  <2> HIDE DEF T
  <2>2. \E x \in T : \A y \in T : x <= y
    BY <2>1, LeastOf
  <2> QED BY <2>2 DEF T
<1>2. x # 0 /\ x - 1 \in Nat /\ x - 1 < x
  OBVIOUS
<1>3. x - 1 \in P
  BY <1>1, <1>2
<1>4. (x - 1) + 1 \in P
  BY <1>2, <1>3
<1> QED BY <1>1, <1>4

\* The greatest element, where there is one.
Greatest(S) == CHOOSE x \in S : \A y \in S : x >= y

LEMMA GreatestOf ==
    ASSUME NEW S, NEW n \in S, \A y \in S : y \in Int /\ n >= y
    PROVE  Greatest(S) = n
<1>1. \E x \in S : \A y \in S : x >= y
  OBVIOUS
<1>2. Greatest(S) \in S /\ \A y \in S : Greatest(S) >= y
  BY <1>1 DEF Greatest
<1> HIDE DEF Greatest
<1> QED BY <1>2

\* The folds of the community modules go over the subsets of a domain, the greatest
\* element last.
IsFold(g, F, base, s, n) ==
    \A S \in SUBSET (1 .. n) :
      g[S] = IF S = {} THEN base ELSE F[<<g[S \ {Greatest(S)}], s[Greatest(S)]>>]

\* The function that such a fold chooses exists.
LEMMA FoldExists ==
    ASSUME NEW V, NEW X, NEW F \in [V \X X -> V], NEW base \in V,
           NEW N \in Nat, NEW s \in [1 .. N -> X]
    PROVE  \E g \in [SUBSET (1 .. N) -> V] : IsFold(g, F, base, s, N)
<1> DEFINE Exists(n) == n <= N => \E g \in [SUBSET (1 .. n) -> V] : IsFold(g, F, base, s, n)
           P == {n \in Nat : Exists(n)}
<1>1. 0 \in P
  <2>1. SUBSET (1 .. 0) = {{}}
    OBVIOUS
  <2> DEFINE g == [S \in SUBSET (1 .. 0) |-> base]
  <2>2. g \in [SUBSET (1 .. 0) -> V] /\ IsFold(g, F, base, s, 0)
    BY <2>1 DEF IsFold
  <2> QED BY <2>2
<1>2. ASSUME NEW n \in Nat, n \in P PROVE n + 1 \in P
  <2>7. Exists(n) /\ n + 1 \in Nat
    <3> HIDE DEF Exists
    <3> QED BY <1>2
  <2> SUFFICES ASSUME n + 1 <= N
               PROVE  \E g \in [SUBSET (1 .. n + 1) -> V] : IsFold(g, F, base, s, n + 1)
    <3>1. Exists(n + 1) => n + 1 \in P
      <4> HIDE DEF Exists
      <4> QED BY <2>7
    <3> QED BY <3>1
  <2>0. n <= N
    OBVIOUS
  <2>1. PICK g \in [SUBSET (1 .. n) -> V] : IsFold(g, F, base, s, n)
    BY <2>7, <2>0
  <2> DEFINE f == [S \in SUBSET (1 .. n + 1) |->
                     IF n + 1 \in S THEN F[<<g[S \ {n + 1}], s[n + 1]>>] ELSE g[S]]
  <2>2. \A S \in SUBSET (1 .. n + 1) : /\ S \ {n + 1} \in SUBSET (1 .. n)
                                        /\ n + 1 \notin S => S \in SUBSET (1 .. n)
    OBVIOUS
  <2>3. s[n + 1] \in X
    OBVIOUS
  <2>4. f \in [SUBSET (1 .. n + 1) -> V]
    <3> SUFFICES ASSUME NEW S \in SUBSET (1 .. n + 1)
                 PROVE  (IF n + 1 \in S THEN F[<<g[S \ {n + 1}], s[n + 1]>>] ELSE g[S]) \in V
      OBVIOUS
    <3>1. CASE n + 1 \in S
      <4>1. g[S \ {n + 1}] \in V
        BY <2>2
      <4>2. <<g[S \ {n + 1}], s[n + 1]>> \in V \X X
        BY <4>1, <2>3
      <4> QED BY <3>1, <4>2
    <3>2. CASE n + 1 \notin S
      BY <3>2, <2>2
    <3> QED BY <3>1, <3>2
  <2>5. ASSUME NEW S \in SUBSET (1 .. n + 1)
        PROVE  f[S] = IF S = {} THEN base
                      ELSE F[<<f[S \ {Greatest(S)}], s[Greatest(S)]>>]
    <3>1. CASE n + 1 \in S
      <4>1. Greatest(S) = n + 1
        <5>1. \A y \in S : y \in Int /\ n + 1 >= y
          OBVIOUS
        <5> QED BY <3>1, <5>1, GreatestOf
      <4>2. f[S \ {n + 1}] = g[S \ {n + 1}]
        <5>1. S \ {n + 1} \in SUBSET (1 .. n + 1) /\ n + 1 \notin S \ {n + 1}
          OBVIOUS
        <5> QED BY <5>1
      <4>3. f[S] = F[<<g[S \ {n + 1}], s[n + 1]>>] /\ S # {}
        BY <3>1
      <4> QED BY <4>1, <4>2, <4>3
    <3>2. CASE n + 1 \notin S
      <4>1. f[S] = g[S] /\ S \in SUBSET (1 .. n)
        BY <3>2, <2>2
      <4>2. f[S \ {Greatest(S)}] = g[S \ {Greatest(S)}]
        <5>1. S \ {Greatest(S)} \in SUBSET (1 .. n + 1) /\ n + 1 \notin S \ {Greatest(S)}
          BY <3>2
        <5> QED BY <5>1
      <4>3. g[S] = IF S = {} THEN base ELSE F[<<g[S \ {Greatest(S)}], s[Greatest(S)]>>]
        BY <4>1, <2>1 DEF IsFold
      <4> HIDE DEF f
      <4> QED BY <4>1, <4>2, <4>3
    <3> QED BY <3>1, <3>2
  <2>6. IsFold(f, F, base, s, n + 1)
    <3> HIDE DEF f
    <3> QED BY <2>5 DEF IsFold
  <2> QED BY <2>4, <2>6
<1>3. P = Nat
  <2>1. P \in SUBSET Nat
    OBVIOUS
  <2> HIDE DEF P
  <2> QED BY <1>1, <1>2, <2>1, Induct
<1>4. Exists(N)
  <2> HIDE DEF Exists
  <2> QED BY <1>3
<1>5. N <= N
  OBVIOUS
<1> QED BY <1>4, <1>5, Zenon

\* What is computed step by step is computed once.
IsTrace(h, F, V, base, s, n) ==
    /\ h[0] = base
    /\ \A m \in 0 .. n - 1 : h[m] \in V => h[m + 1] = F[<<h[m], s[m + 1]>>]

Same(h, k, V, n) == \A m \in 0 .. n : h[m] \in V /\ h[m] = k[m]

LEMMA StepsAgree ==
    ASSUME NEW V, NEW X, NEW F \in [V \X X -> V], NEW base \in V,
           NEW N \in Nat, NEW s \in [1 .. N -> X],
           NEW h, IsTrace(h, F, V, base, s, N), NEW k, IsTrace(k, F, V, base, s, N)
    PROVE  Same(h, k, V, N)
<1> DEFINE Agree(n) == n <= N => h[n] \in V /\ h[n] = k[n]
           P == {n \in Nat : Agree(n)}
<1> USE DEF IsTrace
<1>1. 0 \in P
  OBVIOUS
<1>2. ASSUME NEW n \in Nat, n \in P PROVE n + 1 \in P
  <2>1. CASE n + 1 <= N
    <3>1. n \in 0 .. N - 1 /\ n + 1 \in 1 .. N /\ n <= N
      BY <2>1
    <3>2. h[n] \in V /\ h[n] = k[n]
      BY <1>2, <3>1
    <3>3. h[n + 1] = F[<<h[n], s[n + 1]>>] /\ k[n + 1] = F[<<h[n], s[n + 1]>>]
      BY <3>1, <3>2
    <3>4. <<h[n], s[n + 1]>> \in V \X X
      BY <3>1, <3>2
    <3> QED BY <3>3, <3>4
  <2>2. CASE ~(n + 1 <= N)
    BY <2>2
  <2> QED BY <2>1, <2>2
<1>3. P = Nat
  <2>1. P \in SUBSET Nat
    OBVIOUS
  <2> HIDE DEF P
  <2> QED BY <1>1, <1>2, <2>1, Induct
<1>4. ASSUME NEW m \in 0 .. N PROVE h[m] \in V /\ h[m] = k[m]
  <2>1. m \in P
    BY <1>3
  <2> QED BY <2>1
<1> QED BY <1>4 DEF Same

-----------------------------------------------------------------------------
(* LlmCall: the reader and the scan, token by token.                       *)

Opening == {"{", "["}
Closing == {"}", "]"}

AcceptorStates ==
    [want : {"value", "string", "escaped", "colon", "key", "member", "element", "number",
             "more", "nothing"},
     open : Seq(Opening), key : BOOLEAN]

ScanStates == [in : BOOLEAN, skip : BOOLEAN, stack : Seq(Closing)]

\* A sequence is its front and its last element.
LEMMA FrontOf ==
    ASSUME NEW S, NEW s \in Seq(S), s # <<>>
    PROVE  /\ SubSeq(s, 1, Len(s) - 1) \in Seq(S) /\ s[Len(s)] \in S
           /\ Len(s) \in Nat \ {0} /\ Len(SubSeq(s, 1, Len(s) - 1)) = Len(s) - 1
           /\ \A i \in 1 .. Len(s) - 1 : SubSeq(s, 1, Len(s) - 1)[i] = s[i]
           /\ s = Append(SubSeq(s, 1, Len(s) - 1), s[Len(s)])
<1>1. Len(s) \in Nat \ {0}
  BY EmptySeq
<1>2. /\ SubSeq(s, 1, Len(s) - 1) \in Seq(S) /\ Len(SubSeq(s, 1, Len(s) - 1)) = Len(s) - 1
      /\ \A i \in 1 .. Len(s) - 1 : SubSeq(s, 1, Len(s) - 1)[i] = s[i]
  <2>1. 1 \in 1 .. Len(s) + 1 /\ Len(s) - 1 \in 0 .. Len(s)
    BY <1>1
  <2>2. 1 <= (Len(s) - 1) + 1 /\ ((Len(s) - 1) - 1) + 1 = Len(s) - 1
    BY <1>1
  <2> QED BY <1>1, <2>1, <2>2, SubSeqProperties
<1>3. s[Len(s)] \in S
  BY <1>1
<1> DEFINE a == SubSeq(s, 1, Len(s) - 1)
           b == Append(a, s[Len(s)])
<1>4. b \in Seq(S) /\ Len(b) = Len(s) /\ \A i \in 1 .. Len(s) : b[i] = s[i]
  <2> HIDE DEF a
  <2>1. a \in Seq(S) /\ Len(a) = Len(s) - 1 /\ \A i \in 1 .. Len(s) - 1 : a[i] = s[i]
    BY <1>2 DEF a
  <2> QED BY <1>1, <1>3, <2>1
<1>5. s = b
  <2> HIDE DEF b
  <2> QED BY <1>4
<1> QED BY <1>1, <1>2, <1>3, <1>5

\* The states of the acceptor and of the scan.
LEMMA AcceptType ==
    ASSUME NEW st \in AcceptorStates, NEW t \in Token
    PROVE  Accept(st, t) \in AcceptorStates
<1> USE DEF AcceptorStates
<1>1. Reject \in AcceptorStates
  <2>1. <<>> \in Seq(Opening)
    OBVIOUS
  <2> QED BY <2>1 DEF Reject
<1>2. Closes(st, t) \in AcceptorStates
  <2>1. CASE st.open # <<>>
    <3>1. Front(st.open) \in Seq(Opening)
      BY <2>1, FrontOf DEF Front
    <3>2. [st EXCEPT !.want = "more", !.open = Front(@)] \in AcceptorStates
      BY <3>1
    <3> QED BY <1>1, <3>2 DEF Closes
  <2> QED BY <1>1, <2>1 DEF Closes
<1>3. Continues(st, t) \in AcceptorStates
  BY <1>1, <1>2 DEF Continues
<1>4. Opens(st, t) \in AcceptorStates
  <2>1. t \in {"{", "["} => Append(st.open, t) \in Seq(Opening)
    <3>1. st.open \in Seq(Opening) /\ (t \in {"{", "["} => t \in Opening)
      BY DEF Opening
    <3> HIDE DEF AcceptorStates
    <3> QED BY <3>1, AppendProperties
  <2> QED BY <1>1, <2>1 DEF Opens
<1> HIDE DEF AcceptorStates
<1>5. \A w \in {"escaped", "colon", "string", "more", "value"} :
         [st EXCEPT !.want = w] \in AcceptorStates
  BY DEF AcceptorStates
<1>6. /\ [st EXCEPT !.want = "string", !.key = TRUE] \in AcceptorStates
      /\ [st EXCEPT !.want = "value", !.key = FALSE] \in AcceptorStates
  BY DEF AcceptorStates
<1> QED BY <1>1, <1>2, <1>3, <1>4, <1>5, <1>6 DEF Accept

LEMMA ScanType ==
    ASSUME NEW st \in ScanStates, NEW t \in Token
    PROVE  Scan(st, t) \in ScanStates
<1> USE DEF ScanStates
<1>1. t \in {"{", "["} => Append(st.stack, Closer(t)) \in Seq(Closing)
  <2>1. st.stack \in Seq(Closing) /\ Closer(t) \in Closing
    BY DEF Closer, Closing
  <2> HIDE DEF ScanStates
  <2> QED BY <2>1, AppendProperties
<1>2. st.stack # <<>> => Front(st.stack) \in Seq(Closing)
  BY FrontOf DEF Front
<1>3. (IF st.stack # <<>> /\ Last(st.stack) = t THEN Front(st.stack) ELSE st.stack)
        \in Seq(Closing)
  BY <1>2
<1> QED BY <1>1, <1>3 DEF Scan

\* A set of places has a greatest one.
LEMMA GreatestIn ==
    ASSUME NEW n \in Nat, NEW S \in SUBSET (1 .. n), S # {}
    PROVE  Greatest(S) \in S
<1> DEFINE T == {n - x : x \in S}
<1>1. T \in SUBSET Nat /\ T # {}
  <2>1. \A x \in S : n - x \in Nat
    OBVIOUS
  <2> QED BY <2>1
<1> HIDE DEF T
<1>2. PICK y \in T : \A z \in T : y <= z
  BY <1>1, LeastOf
<1>3. PICK x \in S : y = n - x
  BY DEF T
<1>4. \A z \in S : x >= z
  <2> TAKE z \in S
  <2>1. n - z \in T
    BY DEF T
  <2>2. n - x <= n - z
    BY <1>2, <1>3, <2>1
  <2>3. x \in Int /\ z \in Int
    OBVIOUS
  <2> QED BY <2>2, <2>3
<1> QED BY <1>4 DEF Greatest

LEMMA ReadBase == Begin \in AcceptorStates
<1>1. <<>> \in Seq(Opening)
  BY EmptySeq
<1> QED BY <1>1 DEF Begin, AcceptorStates

\* The scan of a text.
Scanned(s) == FoldLeft(Scan, Plain, s)

LEMMA ScannedBase == Plain \in ScanStates
<1>1. <<>> \in Seq(Closing)
  BY EmptySeq
<1> QED BY <1>1 DEF Plain, ScanStates

\* The acceptor as the function that a fold applies.
AcceptStep == [p \in AcceptorStates \X Token |-> Accept(p[1], p[2])]

\* Reading a text is a trace of the acceptor, ...
LEMMA ReadSteps ==
    ASSUME NEW s \in Seq(Token)
    PROVE  \E h : /\ IsTrace(h, AcceptStep, AcceptorStates, Begin, s, Len(s))
                  /\ Read(s) = h[Len(s)]
<1> DEFINE Body(f) == [S \in SUBSET (DOMAIN s) |->
                         IF S = {} THEN Begin
                         ELSE LET x == Max(S) IN Accept(f[S \ {x}], s[x])]
           c == CHOOSE f : f = Body(f)
<1>1. Read(s) = c[DOMAIN s]
  BY Zenon DEF Read, FoldLeft, MapThenFoldSet
<1>2. AcceptStep \in [AcceptorStates \X Token -> AcceptorStates] /\ Begin \in AcceptorStates
  BY ReadBase, AcceptType DEF AcceptStep
<1>3. Len(s) \in Nat /\ s \in [1 .. Len(s) -> Token] /\ DOMAIN s = 1 .. Len(s)
  OBVIOUS
<1>4. c = Body(c)
  <2>1. PICK g \in [SUBSET (1 .. Len(s)) -> AcceptorStates] : IsFold(g, AcceptStep, Begin, s, Len(s))
    BY <1>2, <1>3, FoldExists
  <2>2. ASSUME NEW S \in SUBSET (DOMAIN s)
        PROVE  g[S] = IF S = {} THEN Begin
                      ELSE Accept(g[S \ {Max(S)}], s[Max(S)])
    <3>1. Max(S) = Greatest(S)
      BY Zenon DEF Max, Greatest
    <3>2. g[S] = IF S = {} THEN Begin ELSE AcceptStep[<<g[S \ {Max(S)}], s[Max(S)]>>]
      BY <2>1, <1>3, <3>1, Zenon DEF IsFold
    <3>3. CASE S # {}
      <4>1. Max(S) \in DOMAIN s
        BY <1>3, <3>1, <3>3, GreatestIn
      <4>2. g[S \ {Max(S)}] \in AcceptorStates /\ s[Max(S)] \in Token
        BY <4>1, <1>3
      <4> QED BY <3>2, <3>3, <4>2 DEF AcceptStep
    <3> QED BY <3>2, <3>3
  <2>3. g = Body(g)
    <3>1. Body(g) = [S \in SUBSET (DOMAIN s) |-> g[S]]
      BY <2>2
    <3> HIDE DEF Body
    <3> QED BY <3>1, <1>3
  <2> HIDE DEF Body
  <2> QED BY <2>3
<1> HIDE DEF c
<1>5. c[{}] = Begin
  BY <1>4
<1>6. ASSUME NEW m \in 0 .. Len(s) - 1, c[1 .. m] \in AcceptorStates
      PROVE  c[1 .. m + 1] = AcceptStep[<<c[1 .. m], s[m + 1]>>]
  <2>1. Max(1 .. m + 1) = m + 1
    <3>1. m + 1 \in 1 .. m + 1 /\ \A y \in 1 .. m + 1 : y \in Int /\ m + 1 >= y
      OBVIOUS
    <3>2. Greatest(1 .. m + 1) = m + 1
      BY <3>1, GreatestOf
    <3> QED BY <3>2, Zenon DEF Max, Greatest
  <2>2. /\ (1 .. m + 1) \ {m + 1} = 1 .. m /\ 1 .. m + 1 # {}
        /\ 1 .. m + 1 \in SUBSET (DOMAIN s) /\ s[m + 1] \in Token
    <3>1. m \in Nat /\ m + 1 \in 1 .. Len(s)
      BY <1>3
    <3>2. (1 .. m + 1) \ {m + 1} = 1 .. m
      BY <3>1
    <3>3. 1 .. m + 1 # {} /\ 1 .. m + 1 \in SUBSET (DOMAIN s)
      BY <3>1, <1>3
    <3> QED BY <3>1, <3>2, <3>3, <1>3
  <2>3. c[1 .. m + 1] = Accept(c[1 .. m], s[m + 1])
    BY <1>4, <2>1, <2>2
  <2>4. <<c[1 .. m], s[m + 1]>> \in AcceptorStates \X Token
    BY <1>6, <2>2
  <2> QED BY <2>3, <2>4 DEF AcceptStep
<1> DEFINE h == [m \in 0 .. Len(s) |-> c[1 .. m]]
<1>7. h[0] = Begin /\ Read(s) = h[Len(s)]
  <2>1. 1 .. 0 = {}
    OBVIOUS
  <2> QED BY <1>1, <1>3, <1>5, <2>1
<1>8. \A m \in 0 .. Len(s) - 1 : h[m] \in AcceptorStates => h[m + 1] = AcceptStep[<<h[m], s[m + 1]>>]
  <2> TAKE m \in 0 .. Len(s) - 1
  <2>1. h[m] = c[1 .. m] /\ h[m + 1] = c[1 .. m + 1]
    BY <1>3
  <2> HIDE DEF h
  <2> QED BY <2>1, <1>6
<1> HIDE DEF h
<1> QED BY <1>7, <1>8 DEF IsTrace

\* ... so that the text is read token by token.
LEMMA ReadAppend ==
    /\ Read(<<>>) = Begin
    /\ \A s \in Seq(Token) : Read(s) \in AcceptorStates
    /\ \A s \in Seq(Token), t \in Token :
         Read(Append(s, t)) = Accept(Read(s), t)
<1>1. AcceptStep \in [AcceptorStates \X Token -> AcceptorStates] /\ Begin \in AcceptorStates
  BY ReadBase, AcceptType DEF AcceptStep
<1>2. Read(<<>>) = Begin
  <2>1. <<>> \in Seq(Token) /\ Len(<<>>) = 0
    OBVIOUS
  <2>2. \E h : h[0] = Begin /\ Read(<<>>) = h[Len(<<>>)]
    BY <2>1, ReadSteps DEF IsTrace
  <2> QED BY <2>1, <2>2
<1>3. ASSUME NEW s \in Seq(Token)
      PROVE  Read(s) \in AcceptorStates
  <2>1. PICK h : /\ IsTrace(h, AcceptStep, AcceptorStates, Begin, s, Len(s))
                 /\ Read(s) = h[Len(s)]
    BY ReadSteps
  <2>2. Len(s) \in Nat /\ s \in [1 .. Len(s) -> Token]
    OBVIOUS
  <2>3. Same(h, h, AcceptorStates, Len(s))
    BY <1>1, <2>1, <2>2, StepsAgree, Zenon
  <2> QED BY <2>1, <2>2, <2>3 DEF Same
<1>4. ASSUME NEW s \in Seq(Token), NEW t \in Token
      PROVE  Read(Append(s, t)) = Accept(Read(s), t)
  <2>0. PICK n \in Nat : n = Len(s)
    OBVIOUS
  <2> DEFINE u == Append(s, t)
  <2>1. /\ u \in Seq(Token) /\ Len(u) = n + 1 /\ n \in Nat /\ u[n + 1] = t
        /\ \A i \in 1 .. n : u[i] = s[i]
        /\ s \in [1 .. n -> Token]
    BY <2>0
  <2> HIDE DEF u
  <2>2. PICK h : /\ IsTrace(h, AcceptStep, AcceptorStates, Begin, s, Len(s))
                 /\ Read(s) = h[Len(s)]
    BY ReadSteps
  <2>3. PICK k : /\ IsTrace(k, AcceptStep, AcceptorStates, Begin, u, Len(u))
                 /\ Read(u) = k[Len(u)]
    BY <2>1, ReadSteps
  <2>4. IsTrace(k, AcceptStep, AcceptorStates, Begin, s, n)
    <3>1. \A m \in 0 .. n - 1 : m \in 0 .. Len(u) - 1 /\ u[m + 1] = s[m + 1]
      BY <2>1
    <3> QED BY <2>3, <3>1 DEF IsTrace
  <2>5. IsTrace(h, AcceptStep, AcceptorStates, Begin, s, n)
    BY <2>0, <2>2
  <2>6. Same(h, k, AcceptorStates, n)
    <3>1. n \in Nat /\ s \in [1 .. n -> Token]
      BY <2>1
    <3> QED BY <1>1, <2>4, <2>5, <3>1, StepsAgree, Zenon
  <2>7. n \in 0 .. n /\ n \in 0 .. Len(u) - 1
    BY <2>1
  <2>8. h[n] \in AcceptorStates /\ k[n] = h[n] /\ k[n + 1] = AcceptStep[<<h[n], t>>]
    BY <2>1, <2>3, <2>6, <2>7 DEF IsTrace, Same
  <2>9. AcceptStep[<<h[n], t>>] = Accept(h[n], t)
    BY <2>8 DEF AcceptStep
  <2> QED BY <2>1, <2>2, <2>3, <2>8, <2>9, <2>0 DEF u
<1> QED BY <1>2, <1>3, <1>4

\* The same for the scan.
ScanStep == [p \in ScanStates \X Token |-> Scan(p[1], p[2])]

LEMMA ScannedSteps ==
    ASSUME NEW s \in Seq(Token)
    PROVE  \E h : /\ IsTrace(h, ScanStep, ScanStates, Plain, s, Len(s))
                  /\ Scanned(s) = h[Len(s)]
<1> DEFINE Body(f) == [S \in SUBSET (DOMAIN s) |->
                         IF S = {} THEN Plain
                         ELSE LET x == Max(S) IN Scan(f[S \ {x}], s[x])]
           c == CHOOSE f : f = Body(f)
<1>1. Scanned(s) = c[DOMAIN s]
  BY Zenon DEF Scanned, FoldLeft, MapThenFoldSet
<1>2. ScanStep \in [ScanStates \X Token -> ScanStates] /\ Plain \in ScanStates
  BY ScannedBase, ScanType DEF ScanStep
<1>3. Len(s) \in Nat /\ s \in [1 .. Len(s) -> Token] /\ DOMAIN s = 1 .. Len(s)
  OBVIOUS
<1>4. c = Body(c)
  <2>1. PICK g \in [SUBSET (1 .. Len(s)) -> ScanStates] : IsFold(g, ScanStep, Plain, s, Len(s))
    BY <1>2, <1>3, FoldExists
  <2>2. ASSUME NEW S \in SUBSET (DOMAIN s)
        PROVE  g[S] = IF S = {} THEN Plain
                      ELSE Scan(g[S \ {Max(S)}], s[Max(S)])
    <3>1. Max(S) = Greatest(S)
      BY Zenon DEF Max, Greatest
    <3>2. g[S] = IF S = {} THEN Plain ELSE ScanStep[<<g[S \ {Max(S)}], s[Max(S)]>>]
      BY <2>1, <1>3, <3>1, Zenon DEF IsFold
    <3>3. CASE S # {}
      <4>1. Max(S) \in DOMAIN s
        BY <1>3, <3>1, <3>3, GreatestIn
      <4>2. g[S \ {Max(S)}] \in ScanStates /\ s[Max(S)] \in Token
        BY <4>1, <1>3
      <4> QED BY <3>2, <3>3, <4>2 DEF ScanStep
    <3> QED BY <3>2, <3>3
  <2>3. g = Body(g)
    <3>1. Body(g) = [S \in SUBSET (DOMAIN s) |-> g[S]]
      BY <2>2
    <3> HIDE DEF Body
    <3> QED BY <3>1, <1>3
  <2> HIDE DEF Body
  <2> QED BY <2>3
<1> HIDE DEF c
<1>5. c[{}] = Plain
  BY <1>4
<1>6. ASSUME NEW m \in 0 .. Len(s) - 1, c[1 .. m] \in ScanStates
      PROVE  c[1 .. m + 1] = ScanStep[<<c[1 .. m], s[m + 1]>>]
  <2>1. Max(1 .. m + 1) = m + 1
    <3>1. m + 1 \in 1 .. m + 1 /\ \A y \in 1 .. m + 1 : y \in Int /\ m + 1 >= y
      OBVIOUS
    <3>2. Greatest(1 .. m + 1) = m + 1
      BY <3>1, GreatestOf
    <3> QED BY <3>2, Zenon DEF Max, Greatest
  <2>2. /\ (1 .. m + 1) \ {m + 1} = 1 .. m /\ 1 .. m + 1 # {}
        /\ 1 .. m + 1 \in SUBSET (DOMAIN s) /\ s[m + 1] \in Token
    <3>1. m \in Nat /\ m + 1 \in 1 .. Len(s)
      BY <1>3
    <3>2. (1 .. m + 1) \ {m + 1} = 1 .. m
      BY <3>1
    <3>3. 1 .. m + 1 # {} /\ 1 .. m + 1 \in SUBSET (DOMAIN s)
      BY <3>1, <1>3
    <3> QED BY <3>1, <3>2, <3>3, <1>3
  <2>3. c[1 .. m + 1] = Scan(c[1 .. m], s[m + 1])
    BY <1>4, <2>1, <2>2
  <2>4. <<c[1 .. m], s[m + 1]>> \in ScanStates \X Token
    BY <1>6, <2>2
  <2> QED BY <2>3, <2>4 DEF ScanStep
<1> DEFINE h == [m \in 0 .. Len(s) |-> c[1 .. m]]
<1>7. h[0] = Plain /\ Scanned(s) = h[Len(s)]
  <2>1. 1 .. 0 = {}
    OBVIOUS
  <2> QED BY <1>1, <1>3, <1>5, <2>1
<1>8. \A m \in 0 .. Len(s) - 1 : h[m] \in ScanStates => h[m + 1] = ScanStep[<<h[m], s[m + 1]>>]
  <2> TAKE m \in 0 .. Len(s) - 1
  <2>1. h[m] = c[1 .. m] /\ h[m + 1] = c[1 .. m + 1]
    BY <1>3
  <2> HIDE DEF h
  <2> QED BY <2>1, <1>6
<1> HIDE DEF h
<1> QED BY <1>7, <1>8 DEF IsTrace

LEMMA ScannedAppend ==
    /\ Scanned(<<>>) = Plain
    /\ \A s \in Seq(Token) : Scanned(s) \in ScanStates
    /\ \A s \in Seq(Token), t \in Token :
         Scanned(Append(s, t)) = Scan(Scanned(s), t)
<1>1. ScanStep \in [ScanStates \X Token -> ScanStates] /\ Plain \in ScanStates
  BY ScannedBase, ScanType DEF ScanStep
<1>2. Scanned(<<>>) = Plain
  <2>1. <<>> \in Seq(Token) /\ Len(<<>>) = 0
    OBVIOUS
  <2>2. \E h : h[0] = Plain /\ Scanned(<<>>) = h[Len(<<>>)]
    BY <2>1, ScannedSteps DEF IsTrace
  <2> QED BY <2>1, <2>2
<1>3. ASSUME NEW s \in Seq(Token)
      PROVE  Scanned(s) \in ScanStates
  <2>1. PICK h : /\ IsTrace(h, ScanStep, ScanStates, Plain, s, Len(s))
                 /\ Scanned(s) = h[Len(s)]
    BY ScannedSteps
  <2>2. Len(s) \in Nat /\ s \in [1 .. Len(s) -> Token]
    OBVIOUS
  <2>3. Same(h, h, ScanStates, Len(s))
    BY <1>1, <2>1, <2>2, StepsAgree, Zenon
  <2> QED BY <2>1, <2>2, <2>3 DEF Same
<1>4. ASSUME NEW s \in Seq(Token), NEW t \in Token
      PROVE  Scanned(Append(s, t)) = Scan(Scanned(s), t)
  <2>0. PICK n \in Nat : n = Len(s)
    OBVIOUS
  <2> DEFINE u == Append(s, t)
  <2>1. /\ u \in Seq(Token) /\ Len(u) = n + 1 /\ n \in Nat /\ u[n + 1] = t
        /\ \A i \in 1 .. n : u[i] = s[i]
        /\ s \in [1 .. n -> Token]
    BY <2>0
  <2> HIDE DEF u
  <2>2. PICK h : /\ IsTrace(h, ScanStep, ScanStates, Plain, s, Len(s))
                 /\ Scanned(s) = h[Len(s)]
    BY ScannedSteps
  <2>3. PICK k : /\ IsTrace(k, ScanStep, ScanStates, Plain, u, Len(u))
                 /\ Scanned(u) = k[Len(u)]
    BY <2>1, ScannedSteps
  <2>4. IsTrace(k, ScanStep, ScanStates, Plain, s, n)
    <3>1. \A m \in 0 .. n - 1 : m \in 0 .. Len(u) - 1 /\ u[m + 1] = s[m + 1]
      BY <2>1
    <3> QED BY <2>3, <3>1 DEF IsTrace
  <2>5. IsTrace(h, ScanStep, ScanStates, Plain, s, n)
    BY <2>0, <2>2
  <2>6. Same(h, k, ScanStates, n)
    <3>1. n \in Nat /\ s \in [1 .. n -> Token]
      BY <2>1
    <3> QED BY <1>1, <2>4, <2>5, <3>1, StepsAgree, Zenon
  <2>7. n \in 0 .. n /\ n \in 0 .. Len(u) - 1
    BY <2>1
  <2>8. h[n] \in ScanStates /\ k[n] = h[n] /\ k[n + 1] = ScanStep[<<h[n], t>>]
    BY <2>1, <2>3, <2>6, <2>7 DEF IsTrace, Same
  <2>9. ScanStep[<<h[n], t>>] = Scan(h[n], t)
    BY <2>8 DEF ScanStep
  <2> QED BY <2>1, <2>2, <2>3, <2>8, <2>9, <2>0 DEF u
<1> QED BY <1>2, <1>3, <1>4

\* Induction over a set of sequences.
LEMMA SeqInduct ==
    ASSUME NEW X, NEW P, <<>> \in P,
           \A s \in Seq(X), t \in X : s \in P => Append(s, t) \in P
    PROVE  Seq(X) \subseteq P
<1> DEFINE Q == {n \in Nat : \A s \in Seq(X) : Len(s) = n => s \in P}
<1>1. 0 \in Q
  <2>1. \A s \in Seq(X) : Len(s) = 0 => s = <<>>
    BY EmptySeq
  <2> QED BY <2>1
<1>2. ASSUME NEW n \in Nat, n \in Q PROVE n + 1 \in Q
  <2> SUFFICES ASSUME NEW s \in Seq(X), Len(s) = n + 1
               PROVE  s \in P
    OBVIOUS
  <2>1. s # <<>>
    OBVIOUS
  <2> DEFINE f == SubSeq(s, 1, Len(s) - 1)
  <2>2. f \in Seq(X) /\ s[Len(s)] \in X /\ Len(f) = Len(s) - 1 /\ s = Append(f, s[Len(s)])
    BY <2>1, FrontOf
  <2> HIDE DEF f
  <2>3. f \in P
    BY <1>2, <2>2
  <2> QED BY <2>2, <2>3
<1>3. Q = Nat
  <2>1. Q \in SUBSET Nat
    OBVIOUS
  <2> HIDE DEF Q
  <2> QED BY <1>1, <1>2, <2>1, Induct
<1> QED BY <1>3

\* The brackets that close what is open.
Closers(open) == [i \in DOMAIN open |-> Closer(open[i])]

\* What the scan knows of a text that JSON may begin with.
Follows(r, c) ==
    /\ c.in = IF r.want \in {"string", "escaped"} THEN TRUE ELSE FALSE
    /\ c.skip = IF r.want = "escaped" THEN TRUE ELSE FALSE
    /\ c.stack = Closers(r.open)

LEMMA ClosersOf ==
    ASSUME NEW o \in Seq(Opening)
    PROVE  /\ Closers(o) \in Seq(Closing) /\ Len(Closers(o)) = Len(o)
           /\ \A t \in Opening : Closers(Append(o, t)) = Append(Closers(o), Closer(t))
           /\ o # <<>> => /\ Closers(o) # <<>>
                          /\ Last(Closers(o)) = Closer(Last(o))
                          /\ Closers(Front(o)) = Front(Closers(o))
<1>1. Len(o) \in Nat /\ DOMAIN o = 1 .. Len(o)
  OBVIOUS
<1>2. \A t : Closer(t) \in Closing
  BY DEF Closer, Closing
<1>3. /\ Closers(o) \in Seq(Closing) /\ Len(Closers(o)) = Len(o)
      /\ \A i \in 1 .. Len(o) : Closers(o)[i] = Closer(o[i])
  BY <1>1, <1>2 DEF Closers
<1>4. ASSUME NEW t \in Opening
      PROVE  Closers(Append(o, t)) = Append(Closers(o), Closer(t))
  <2> DEFINE u == Append(o, t)
             v == Append(Closers(o), Closer(t))
  <2>1. /\ u \in Seq(Opening) /\ Len(u) = Len(o) + 1 /\ u[Len(o) + 1] = t
        /\ \A i \in 1 .. Len(o) : u[i] = o[i]
    BY AppendProperties
  <2>2. /\ v \in Seq(Closing) /\ Len(v) = Len(o) + 1 /\ v[Len(o) + 1] = Closer(t)
        /\ \A i \in 1 .. Len(o) : v[i] = Closer(o[i])
    BY <1>2, <1>3, AppendProperties
  <2> HIDE DEF u, v
  <2>3. /\ Closers(u) \in Seq(Closing) /\ Len(Closers(u)) = Len(o) + 1
        /\ \A i \in 1 .. Len(o) + 1 : Closers(u)[i] = Closer(u[i])
    <3>1. DOMAIN u = 1 .. Len(o) + 1 /\ Len(o) + 1 \in Nat
      BY <1>1, <2>1
    <3> QED BY <1>2, <3>1 DEF Closers
  <2>4. \A i \in 1 .. Len(o) + 1 : Closers(u)[i] = v[i]
    <3> TAKE i \in 1 .. Len(o) + 1
    <3>1. CASE i \in 1 .. Len(o)
      BY <3>1, <2>1, <2>2, <2>3
    <3>2. CASE i = Len(o) + 1
      BY <3>2, <2>1, <2>2, <2>3, <1>1
    <3> QED BY <3>1, <3>2, <1>1
  <2>5. Closers(u) = v
    BY <2>2, <2>3, <2>4
  <2> QED BY <2>5 DEF u, v
<1>5. ASSUME o # <<>>
      PROVE  /\ Closers(o) # <<>>
             /\ Last(Closers(o)) = Closer(Last(o))
             /\ Closers(Front(o)) = Front(Closers(o))
  <2>1. Len(o) \in Nat \ {0}
    BY <1>1, <1>5, EmptySeq
  <2>2. Closers(o) # <<>>
    BY <1>3, <2>1
  <2>3. Last(Closers(o)) = Closer(Last(o))
    BY <1>3, <2>1 DEF Last
  <2> DEFINE u == Front(o)
             v == Front(Closers(o))
  <2>4. /\ u \in Seq(Opening) /\ Len(u) = Len(o) - 1
        /\ \A i \in 1 .. Len(o) - 1 : u[i] = o[i]
    BY <1>5, FrontOf DEF Front
  <2>5. /\ v \in Seq(Closing) /\ Len(v) = Len(o) - 1
        /\ \A i \in 1 .. Len(o) - 1 : v[i] = Closers(o)[i]
    BY <1>3, <2>2, FrontOf DEF Front
  <2> HIDE DEF u, v
  <2>6. DOMAIN u = 1 .. Len(o) - 1 /\ Len(o) - 1 \in Nat
    BY <2>1, <2>4
  <2>7. /\ Closers(u) \in Seq(Closing) /\ Len(Closers(u)) = Len(o) - 1
        /\ \A i \in 1 .. Len(o) - 1 : Closers(u)[i] = Closer(u[i])
    BY <1>2, <2>6 DEF Closers
  <2>8. \A i \in 1 .. Len(o) - 1 : Closers(u)[i] = v[i]
    <3> TAKE i \in 1 .. Len(o) - 1
    <3>1. i \in 1 .. Len(o)
      BY <2>1
    <3> QED BY <3>1, <1>3, <2>4, <2>5, <2>7
  <2>9. Closers(u) = v
    BY <2>5, <2>7, <2>8
  <2> QED BY <2>2, <2>3, <2>9 DEF u, v
<1> QED BY <1>3, <1>4, <1>5

\* What was refused stays refused.
LEMMA NothingStays ==
    ASSUME NEW r \in AcceptorStates, NEW t, r.want = "nothing"
    PROVE  Accept(r, t).want = "nothing"
BY DEF Accept, Reject

\* The acceptor is not in a string.
Outside == {"value", "colon", "key", "member", "element", "number", "more"}

\* What is read outside a string.
LEMMA ReadOutside ==
    ASSUME NEW r \in AcceptorStates, NEW t \in Token, r.want \in Outside,
           Accept(r, t).want # "nothing"
    PROVE  LET a == Accept(r, t) IN
           /\ t = "q" => a.want = "string" /\ a.open = r.open
           /\ t \in Opening => a.want \in Outside /\ a.open = Append(r.open, t)
           /\ t \in Closing => /\ r.open # <<>> /\ Closer(Last(r.open)) = t
                               /\ a.want \in Outside /\ a.open = Front(r.open)
           /\ t \notin Opening \cup Closing \cup {"q"} =>
                a.want \in Outside /\ a.open = r.open
<1> USE DEF AcceptorStates, Outside, Opening, Closing
<1>1. CASE t = "q"
  BY <1>1 DEF Accept, Opens, Closes, Continues, Reject
<1>2. CASE t \in Opening
  BY <1>2 DEF Accept, Opens, Closes, Continues, Reject
<1>3. CASE t \in Closing
  BY <1>3 DEF Accept, Opens, Closes, Continues, Reject
<1>4. CASE t \notin Opening \cup Closing \cup {"q"}
  BY <1>4 DEF Accept, Opens, Closes, Continues, Reject
<1> QED BY <1>1, <1>2, <1>3, <1>4, Zenon

LEMMA AppendConcat ==
    ASSUME NEW X, NEW Y, NEW s \in Seq(X), NEW u \in Seq(Y), NEW t \in Y
    PROVE  s \o Append(u, t) = Append(s \o u, t)
<1> DEFINE Z == X \cup Y
<1>1. s \in Seq(Z) /\ u \in Seq(Z) /\ t \in Z
  OBVIOUS
<1> HIDE DEF Z
<1> DEFINE a == s \o Append(u, t)
           b == Append(s \o u, t)
<1>2. Append(u, t) \in Seq(Z) /\ Len(Append(u, t)) = Len(u) + 1
      /\ Append(u, t)[Len(u) + 1] = t /\ \A i \in 1 .. Len(u) : Append(u, t)[i] = u[i]
  BY <1>1, AppendProperties
<1>3. s \o u \in Seq(Z) /\ Len(s \o u) = Len(s) + Len(u)
      /\ \A i \in 1 .. Len(s) + Len(u) :
           (s \o u)[i] = IF i <= Len(s) THEN s[i] ELSE u[i - Len(s)]
  BY <1>1, ConcatProperties
<1>4. Len(s) \in Nat /\ Len(u) \in Nat
  BY <1>1
<1>5. /\ a \in Seq(Z) /\ Len(a) = Len(s) + Len(u) + 1
      /\ \A i \in 1 .. Len(s) + Len(u) + 1 :
           a[i] = IF i <= Len(s) THEN s[i] ELSE Append(u, t)[i - Len(s)]
  <2> DEFINE w == Append(u, t)
  <2>1. w \in Seq(Z) /\ Len(w) = Len(u) + 1
    BY <1>2
  <2> HIDE DEF w
  <2>2. /\ s \o w \in Seq(Z) /\ Len(s \o w) = Len(s) + Len(w)
        /\ \A i \in 1 .. Len(s) + Len(w) :
             (s \o w)[i] = IF i <= Len(s) THEN s[i] ELSE w[i - Len(s)]
    BY <1>1, <2>1, ConcatProperties
  <2> QED BY <1>4, <2>1, <2>2 DEF w
<1>6. /\ b \in Seq(Z) /\ Len(b) = Len(s) + Len(u) + 1
      /\ b[Len(s) + Len(u) + 1] = t
      /\ \A i \in 1 .. Len(s) + Len(u) : b[i] = (s \o u)[i]
  <2> DEFINE w == s \o u
  <2>1. w \in Seq(Z) /\ Len(w) = Len(s) + Len(u)
    BY <1>3
  <2> HIDE DEF w
  <2>2. /\ Append(w, t) \in Seq(Z) /\ Len(Append(w, t)) = Len(w) + 1
        /\ Append(w, t)[Len(w) + 1] = t
        /\ \A i \in 1 .. Len(w) : Append(w, t)[i] = w[i]
    <3>1. w \in Seq(Z) /\ t \in Z
      BY <1>1, <2>1
    <3> QED BY ONLY <3>1, AppendProperties
  <2>3. b = Append(w, t)
    BY DEF w
  <2> HIDE DEF b
  <2>4. /\ b \in Seq(Z) /\ Len(b) = Len(s) + Len(u) + 1
        /\ b[Len(s) + Len(u) + 1] = t
        /\ \A i \in 1 .. Len(s) + Len(u) : b[i] = w[i]
    BY <2>1, <2>2, <2>3, Zenon
  <2> QED BY <2>4, Zenon DEF w
<1> HIDE DEF a, b
<1>7. ASSUME NEW i \in 1 .. Len(s) + Len(u) + 1
      PROVE  a[i] = b[i]
  <2>1. CASE i <= Len(s)
    <3>1. i \in 1 .. Len(s) + Len(u) /\ i \in 1 .. Len(s) + Len(u) + 1
      BY <2>1, <1>4
    <3>2. a[i] = s[i]
      BY <2>1, <3>1, <1>5
    <3>3. b[i] = (s \o u)[i] /\ (s \o u)[i] = s[i]
      BY <2>1, <3>1, <1>3, <1>6
    <3> QED BY <3>2, <3>3
  <2>2. CASE i > Len(s) /\ i <= Len(s) + Len(u)
    <3>1. i - Len(s) \in 1 .. Len(u) /\ i \in 1 .. Len(s) + Len(u) /\ ~(i <= Len(s))
      BY <2>2, <1>4
    <3> QED BY <3>1, <1>2, <1>3, <1>5, <1>6
  <2>3. CASE i = Len(s) + Len(u) + 1
    <3>1. i - Len(s) = Len(u) + 1 /\ ~(i <= Len(s))
      BY <2>3, <1>4
    <3> QED BY <2>3, <3>1, <1>2, <1>5, <1>6
  <2> QED BY <2>1, <2>2, <2>3, <1>4
<1>8. a = b
  BY <1>5, <1>6, <1>7
<1> QED BY <1>8 DEF a, b

\* A token keeps the scan in step with the acceptor.
LEMMA FollowsStep ==
    ASSUME NEW r \in AcceptorStates, NEW c \in ScanStates, NEW t \in Token,
           Follows(r, c), Accept(r, t).want # "nothing"
    PROVE  Follows(Accept(r, t), Scan(c, t))
<1>1. r.open \in Seq(Opening) /\ r.want # "nothing"
  BY NothingStays DEF AcceptorStates
<1>2. r.want \in Outside \cup {"string", "escaped"}
  BY <1>1 DEF AcceptorStates, Outside
<1>3. /\ c.in \in BOOLEAN /\ c.skip \in BOOLEAN /\ c.stack = Closers(r.open)
      /\ c.in <=> r.want \in {"string", "escaped"}
      /\ c.skip <=> r.want = "escaped"
      /\ c = [in |-> c.in, skip |-> c.skip, stack |-> c.stack]
  BY DEF Follows, ScanStates
<1> DEFINE a == Accept(r, t)
           b == Scan(c, t)
<1>4. CASE r.want = "string"
  <2>1. /\ a.open = r.open
        /\ a.want = "escaped" <=> t = "b"
        /\ a.want \in {"string", "escaped"} <=> t # "q"
    BY <1>4 DEF Accept, AcceptorStates
  <2>2. b = [in |-> t # "q", skip |-> t = "b", stack |-> c.stack]
    BY <1>3, <1>4 DEF Scan
  <2> HIDE DEF a, b
  <2>3. Follows(a, b)
    BY <1>3, <2>1, <2>2 DEF Follows
  <2> QED BY <2>3 DEF a, b
<1>5. CASE r.want = "escaped"
  <2>1. a.open = r.open /\ a.want = "string"
    BY <1>5 DEF Accept, AcceptorStates, Reject
  <2>2. b = [in |-> TRUE, skip |-> FALSE, stack |-> c.stack]
    BY <1>3, <1>5 DEF Scan
  <2> HIDE DEF a, b
  <2>3. Follows(a, b)
    BY <1>3, <2>1, <2>2 DEF Follows
  <2> QED BY <2>3 DEF a, b
<1>6. CASE r.want \in Outside
  <2>1. ~c.in /\ ~c.skip
    BY <1>3, <1>6 DEF Outside
  <2>2. /\ t = "q" => a.want = "string" /\ a.open = r.open
        /\ t \in Opening => a.want \in Outside /\ a.open = Append(r.open, t)
        /\ t \in Closing => /\ r.open # <<>> /\ Closer(Last(r.open)) = t
                            /\ a.want \in Outside /\ a.open = Front(r.open)
        /\ t \notin Opening \cup Closing \cup {"q"} =>
             a.want \in Outside /\ a.open = r.open
    BY <1>6, ReadOutside
  <2>3. a.want \in Outside => a.want \notin {"string", "escaped"}
    BY DEF Outside
  <2>4. CASE t = "q"
    <3>1. b = [in |-> TRUE, skip |-> FALSE, stack |-> c.stack]
      BY <1>3, <2>1, <2>4 DEF Scan
    <3> HIDE DEF a, b
    <3>2. b.in = TRUE /\ b.skip = FALSE /\ b.stack = c.stack
      BY <3>1
    <3>3. Follows(a, b)
      BY <1>3, <2>2, <2>4, <3>2 DEF Follows
    <3> QED BY <3>3 DEF a, b
  <2>5. CASE t \in Opening
    <3>1. b = [in |-> FALSE, skip |-> FALSE, stack |-> Append(c.stack, Closer(t))]
      BY <1>3, <2>1, <2>5 DEF Scan, Opening
    <3>2. Closers(Append(r.open, t)) = Append(Closers(r.open), Closer(t))
      BY <1>1, <2>5, ClosersOf
    <3> HIDE DEF a, b
    <3>3. b.in = FALSE /\ b.skip = FALSE /\ b.stack = Append(c.stack, Closer(t))
      BY <3>1
    <3>4. a.want \notin {"string", "escaped"} /\ a.want # "escaped"
      BY <2>2, <2>3, <2>5
    <3>5. b.stack = Closers(a.open)
      BY <1>3, <2>2, <2>5, <3>2, <3>3
    <3>6. Follows(a, b)
      BY <3>3, <3>4, <3>5 DEF Follows
    <3> QED BY <3>6 DEF a, b
  <2>6. CASE t \in Closing
    <3>1. /\ Closers(r.open) # <<>> /\ Last(Closers(r.open)) = t
          /\ Closers(Front(r.open)) = Front(Closers(r.open))
      BY <1>1, <2>2, <2>6, ClosersOf
    <3>2. b = [in |-> FALSE, skip |-> FALSE, stack |-> Front(c.stack)]
      BY <1>3, <2>1, <2>6, <3>1 DEF Scan, Closing
    <3> HIDE DEF a, b
    <3>3. b.in = FALSE /\ b.skip = FALSE /\ b.stack = Front(c.stack)
      BY <3>2
    <3>4. a.want \notin {"string", "escaped"} /\ a.want # "escaped"
      BY <2>2, <2>3, <2>6
    <3>5. b.stack = Closers(a.open)
      BY <1>3, <2>2, <2>6, <3>1, <3>3
    <3>6. Follows(a, b)
      BY <3>3, <3>4, <3>5 DEF Follows
    <3> QED BY <3>6 DEF a, b
  <2>7. CASE t \notin Opening \cup Closing \cup {"q"}
    <3>1. b = [in |-> FALSE, skip |-> FALSE, stack |-> c.stack]
      BY <1>3, <2>1, <2>7 DEF Scan, Opening, Closing
    <3> HIDE DEF a, b
    <3>2. b.in = FALSE /\ b.skip = FALSE /\ b.stack = c.stack
      BY <3>1
    <3>3. a.want \notin {"string", "escaped"} /\ a.want # "escaped" /\ a.open = r.open
      BY <2>2, <2>3, <2>7
    <3>4. Follows(a, b)
      BY <1>3, <3>2, <3>3 DEF Follows
    <3> QED BY <3>4 DEF a, b
  <2> QED BY <2>4, <2>5, <2>6, <2>7
<1> QED BY <1>2, <1>4, <1>5, <1>6

\* The scan that the repairs make knows of every beginning of a JSON text whether it ends
\* in a string, and what is open there.
LEMMA ScanFollows ==
    ASSUME NEW s \in Seq(Token), Read(s).want # "nothing"
    PROVE  Follows(Read(s), Scanned(s))
<1> DEFINE P == {u \in Seq(Token) :
                   Read(u).want # "nothing" => Follows(Read(u), Scanned(u))}
<1>1. <<>> \in P
  <2>1. Read(<<>>) = Begin /\ Scanned(<<>>) = Plain
    BY ReadAppend, ScannedAppend
  <2>2. Closers(<<>>) = <<>>
    BY DEF Closers
  <2> DEFINE r == Begin
             c == Plain
  <2>3. Follows(r, c)
    <3>1. r.want = "value" /\ r.open = <<>>
      BY DEF Begin
    <3>2. c.in = FALSE /\ c.skip = FALSE /\ c.stack = <<>>
      BY DEF Plain
    <3> HIDE DEF r, c
    <3> QED BY <2>2, <3>1, <3>2 DEF Follows
  <2>4. <<>> \in Seq(Token)
    OBVIOUS
  <2> QED BY <2>1, <2>3, <2>4
<1>2. ASSUME NEW u \in Seq(Token), NEW t \in Token, u \in P
      PROVE  Append(u, t) \in P
  <2> DEFINE v == Append(u, t)
  <2>1. /\ Read(v) = Accept(Read(u), t) /\ Scanned(v) = Scan(Scanned(u), t)
        /\ Read(u) \in AcceptorStates /\ Scanned(u) \in ScanStates
    BY ReadAppend, ScannedAppend
  <2>2. v \in Seq(Token)
    BY AppendProperties
  <2> HIDE DEF v
  <2>3. ASSUME Read(v).want # "nothing"
        PROVE  Follows(Read(v), Scanned(v))
    <3>1. Read(u).want # "nothing"
      BY <2>1, <2>3, NothingStays
    <3>2. Follows(Read(u), Scanned(u))
      BY <1>2, <3>1
    <3> QED BY <2>1, <2>3, <3>2, FollowsStep
  <2>4. v \in P
    BY <2>2, <2>3
  <2> QED BY <2>4 DEF v
<1>3. Seq(Token) \subseteq P
  <2> HIDE DEF P
  <2> QED BY <1>1, <1>2, SeqInduct
<1> QED BY <1>3

\* Brackets that close do not end a string, and nothing makes up for an error.
LEMMA ClosingKeeps ==
    ASSUME NEW s \in Seq(Token), NEW close \in Seq(Closing)
    PROVE  /\ s \o close \in Seq(Token)
           /\ Read(s).want \in {"string", "escaped", "nothing"} =>
                Read(s \o close).want \in {"string", "escaped", "nothing"}
<1> DEFINE Bad == {"string", "escaped", "nothing"}
           P == {u \in Seq(Closing) :
                   /\ s \o u \in Seq(Token)
                   /\ Read(s).want \in Bad => Read(s \o u).want \in Bad}
<1>1. <<>> \in P
  <2>1. s \o <<>> = s /\ <<>> \in Seq(Closing)
    OBVIOUS
  <2> QED BY <2>1
<1>2. ASSUME NEW u \in Seq(Closing), NEW t \in Closing, u \in P
      PROVE  Append(u, t) \in P
  <2>1. t \in Token
    BY DEF Closing, Token
  <2>2. Append(u, t) \in Seq(Closing)
    BY AppendProperties
  <2>3. s \o Append(u, t) = Append(s \o u, t)
    BY <1>2, <2>1, AppendConcat
  <2>4. s \o u \in Seq(Token) /\ Append(s \o u, t) \in Seq(Token)
    BY <1>2, <2>1, AppendProperties
  <2>5. /\ Read(Append(s \o u, t)) = Accept(Read(s \o u), t)
        /\ Read(s \o u) \in AcceptorStates
    BY <2>1, <2>4, ReadAppend
  <2>6. \A r \in AcceptorStates : r.want \in Bad => Accept(r, t).want \in Bad
    BY DEF Accept, Closing, Reject
  <2> QED BY <1>2, <2>2, <2>3, <2>4, <2>5, <2>6
<1>3. Seq(Closing) \subseteq P
  <2> HIDE DEF P
  <2> QED BY <1>1, <1>2, SeqInduct
<1> QED BY <1>3

-----------------------------------------------------------------------------
(* LlmCall: a repair says what its text says up to some place.             *)

LEMMA EndOf ==
    ASSUME NEW S, NEW s \in Seq(S), NEW t \in S
    PROVE  /\ UpTo(Append(s, t), Len(s) + 1) = Append(s, t)
           /\ \A k \in 0 .. Len(s) : UpTo(Append(s, t), k) = UpTo(s, k)
<1> DEFINE u == Append(s, t)
<1>1. /\ u \in Seq(S) /\ Len(u) = Len(s) + 1 /\ Len(s) \in Nat
      /\ \A i \in 1 .. Len(s) : u[i] = s[i]
  BY AppendProperties
<1> HIDE DEF u
<1>2. SubSeq(u, 1, Len(s) + 1) = u
  <2>1. /\ SubSeq(u, 1, Len(u)) \in Seq(S) /\ Len(SubSeq(u, 1, Len(u))) = Len(u)
        /\ \A i \in 1 .. Len(u) : SubSeq(u, 1, Len(u))[i] = u[i]
    BY <1>1, SubSeqProperties
  <2>2. SubSeq(u, 1, Len(u)) = u
    BY <1>1, <2>1
  <2> QED BY <1>1, <2>2
<1>3. ASSUME NEW k \in 0 .. Len(s)
      PROVE  SubSeq(u, 1, k) = SubSeq(s, 1, k)
  <2> DEFINE a == SubSeq(u, 1, k)
             b == SubSeq(s, 1, k)
  <2>1. a \in Seq(S) /\ Len(a) = k /\ \A i \in 1 .. k : a[i] = u[i]
    BY <1>1, SubSeqProperties
  <2>2. b \in Seq(S) /\ Len(b) = k /\ \A i \in 1 .. k : b[i] = s[i]
    BY <1>1, SubSeqProperties
  <2> HIDE DEF a, b
  <2>3. \A i \in 1 .. k : a[i] = b[i]
    BY <1>1, <2>1, <2>2
  <2>4. a = b
    BY <2>1, <2>2, <2>3
  <2> QED BY <2>4 DEF a, b
<1> QED BY <1>2, <1>3 DEF u, UpTo

LEMMA UpToType ==
    ASSUME NEW S, NEW s \in Seq(S), NEW k \in 0 .. Len(s)
    PROVE  /\ UpTo(s, k) \in Seq(S) /\ Len(UpTo(s, k)) = k
           /\ \A i \in 1 .. k : UpTo(s, k)[i] = s[i]
BY SubSeqProperties DEF UpTo

\* A beginning of a beginning is a beginning.
LEMMA UpToUpTo ==
    ASSUME NEW S, NEW s \in Seq(S), NEW k \in 0 .. Len(s), NEW j \in 0 .. k
    PROVE  j \in 0 .. Len(s) /\ UpTo(UpTo(s, k), j) = UpTo(s, j)
<1> DEFINE u == UpTo(s, k)
           a == UpTo(u, j)
           b == UpTo(s, j)
<1>1. u \in Seq(S) /\ Len(u) = k /\ \A i \in 1 .. k : u[i] = s[i]
  BY UpToType
<1>2. j \in 0 .. Len(s) /\ 1 .. j \in SUBSET (1 .. k)
  OBVIOUS
<1>3. b \in Seq(S) /\ Len(b) = j /\ \A i \in 1 .. j : b[i] = s[i]
  BY <1>2, UpToType
<1> HIDE DEF u
<1>4. a \in Seq(S) /\ Len(a) = j /\ \A i \in 1 .. j : a[i] = u[i]
  BY <1>1, UpToType
<1> HIDE DEF a, b
<1>5. \A i \in 1 .. j : a[i] = b[i]
  BY <1>1, <1>2, <1>3, <1>4
<1>6. a = b
  BY <1>3, <1>4, <1>5
<1> QED BY <1>2, <1>6 DEF a, b, u

\* What JSON may begin with is what every beginning of it may begin with.
LEMMA BeginningsAreRead ==
    ASSUME NEW s \in Seq(Token), Read(s).want # "nothing", NEW k \in 0 .. Len(s)
    PROVE  Read(UpTo(s, k)).want # "nothing"
<1> DEFINE Good(u) == Read(u).want # "nothing" =>
                        \A j \in 0 .. Len(u) : Read(UpTo(u, j)).want # "nothing"
           P == {u \in Seq(Token) : Good(u)}
<1>1. <<>> \in P
  <2>1. \A j \in 0 .. Len(<<>>) : UpTo(<<>>, j) = <<>>
    BY DEF UpTo
  <2> QED BY <2>1
<1>2. ASSUME NEW u \in Seq(Token), NEW t \in Token, u \in P
      PROVE  Append(u, t) \in P
  <2> DEFINE v == Append(u, t)
  <2>1. /\ Read(v) = Accept(Read(u), t) /\ Read(u) \in AcceptorStates
    BY ReadAppend
  <2>2. v \in Seq(Token) /\ Len(v) = Len(u) + 1 /\ Len(u) \in Nat
    BY AppendProperties
  <2>3. /\ UpTo(v, Len(u) + 1) = v
        /\ \A k1 \in 0 .. Len(u) : UpTo(v, k1) = UpTo(u, k1)
    BY EndOf
  <2> HIDE DEF v
  <2>4. ASSUME Read(v).want # "nothing", NEW j \in 0 .. Len(v)
        PROVE  Read(UpTo(v, j)).want # "nothing"
    <3>1. Read(u).want # "nothing"
      BY <2>1, <2>4, NothingStays
    <3>2. CASE j \in 0 .. Len(u)
      <4>1. UpTo(v, j) = UpTo(u, j)
        BY <2>3, <3>2
      <4> QED BY <1>2, <3>1, <3>2, <4>1
    <3>3. CASE j = Len(u) + 1
      BY <2>3, <2>4, <3>3
    <3> QED BY <2>2, <3>2, <3>3
  <2>5. v \in P
    BY <2>2, <2>4
  <2> QED BY <2>5 DEF v
<1>3. Seq(Token) \subseteq P
  <2> HIDE DEF P
  <2> QED BY <1>1, <1>2, SeqInduct
<1> QED BY <1>3

LEMMA ReverseOf ==
    ASSUME NEW S, NEW s \in Seq(S)
    PROVE  Reverse(s) \in Seq(S)
<1>1. Len(s) \in Nat /\ \A i \in 1 .. Len(s) : (Len(s) - i) + 1 \in 1 .. Len(s) /\ s[(Len(s) - i) + 1] \in S
  OBVIOUS
<1>2. [i \in 1 .. Len(s) |-> s[(Len(s) - i) + 1]] \in [1 .. Len(s) -> S]
  BY <1>1
<1>3. Reverse(s) = [i \in 1 .. Len(s) |-> s[(Len(s) - i) + 1]]
  BY DEF Reverse
<1> QED BY <1>1, <1>2, <1>3

\* A text that ends in a string is not JSON once its brackets are closed.
LEMMA ClosedInString ==
    ASSUME NEW s \in Seq(Token), Loads(CloseBrackets(s))
    PROVE  Read(s).want \notin {"string", "escaped", "nothing"}
<1>1. Scanned(s).stack \in Seq(Closing)
  BY ScannedAppend DEF ScanStates
<1> DEFINE close == Reverse(Scanned(s).stack)
<1>2. close \in Seq(Closing)
  BY <1>1, ReverseOf
<1>3. CloseBrackets(s) = s \o close
  BY Zenon DEF CloseBrackets, Scanned
<1> HIDE DEF close
<1>4. Read(s).want \in {"string", "escaped", "nothing"} =>
        Read(s \o close).want \in {"string", "escaped", "nothing"}
  BY <1>2, ClosingKeeps
<1>5. Read(s \o close).want \in {"more", "number"}
  BY <1>3 DEF Loads
<1> QED BY <1>4, <1>5

LEMMA ClosedOf ==
    ASSUME NEW s
    PROVE  Closed(s) =
             (CASE Read(s).want = "string" -> Append(s, "q")
                [] Read(s).want = "escaped" -> Append(Front(s), "q")
                [] OTHER -> s)
             \o Reverse(Closers(Read(s).open))
BY Zenon DEF Closed, Closers

\* Closing the brackets of a text says what it says.
LEMMA ClosingTruncates ==
    ASSUME NEW s \in Seq(Token), Read(s).want # "nothing",
           Loads(CloseBrackets(s))
    PROVE  CloseBrackets(s) = Closed(s)
<1>1. Read(s).want \notin {"string", "escaped", "nothing"}
  BY ClosedInString
<1>2. Scanned(s).stack = Closers(Read(s).open)
  BY ScanFollows DEF Follows
<1>3. CloseBrackets(s) = s \o Reverse(Scanned(s).stack)
  BY Zenon DEF CloseBrackets, Scanned
<1>4. Closed(s) = s \o Reverse(Closers(Read(s).open))
  BY <1>1, ClosedOf
<1> QED BY <1>2, <1>3, <1>4

\* So does closing the string it ends in before.
LEMMA QuotingTruncates ==
    ASSUME NEW s \in Seq(Token), Read(s).want # "nothing",
           Loads(CloseBrackets(Append(s, "q")))
    PROVE  CloseBrackets(Append(s, "q")) = Closed(s)
<1> DEFINE u == Append(s, "q")
<1>1. "q" \in Token
  BY DEF Token
<1>2. u \in Seq(Token)
  BY <1>1, AppendProperties
<1>3. /\ Read(u) = Accept(Read(s), "q") /\ Read(s) \in AcceptorStates
      /\ Scanned(u) = Scan(Scanned(s), "q") /\ Scanned(s) \in ScanStates
  BY <1>1, ReadAppend, ScannedAppend
<1> HIDE DEF u
<1>4. Read(u).want \notin {"string", "escaped", "nothing"}
  BY <1>2, ClosedInString DEF u
<1>5. Read(s).want = "string"
  <2> DEFINE r == Read(s)
  <2>1. r \in AcceptorStates /\ Accept(r, "q").want \notin {"string", "escaped", "nothing"}
    BY <1>3, <1>4
  <2>2. r.want # "nothing"
    OBVIOUS
  <2> HIDE DEF r
  <2>3. r.want # "escaped"
    BY <2>1 DEF Accept, AcceptorStates
  <2>4. r.want \notin Outside
    BY <1>1, <2>1, ReadOutside
  <2>5. r.want = "string"
    BY <2>1, <2>2, <2>3, <2>4 DEF AcceptorStates, Outside
  <2> QED BY <2>5 DEF r
<1>6. Follows(Read(s), Scanned(s))
  BY ScanFollows
<1>7. Scanned(u).stack = Closers(Read(s).open)
  <2> DEFINE c == Scanned(s)
  <2>1. c.in = TRUE /\ c.skip = FALSE /\ c.stack = Closers(Read(s).open)
    BY <1>5, <1>6 DEF Follows
  <2>2. c \in ScanStates /\ Scanned(u) = Scan(c, "q")
    BY <1>3
  <2> HIDE DEF c
  <2>3. Scan(c, "q").stack = c.stack
    BY <2>1, <2>2 DEF Scan, ScanStates
  <2> QED BY <2>1, <2>2, <2>3
<1>8. CloseBrackets(u) = u \o Reverse(Scanned(u).stack)
  BY Zenon DEF CloseBrackets, Scanned
<1>9. Closed(s) = u \o Reverse(Closers(Read(s).open))
  BY <1>5, ClosedOf DEF u
<1> QED BY <1>7, <1>8, <1>9 DEF u

BackStates(n) == [in : BOOLEAN, skip : BOOLEAN, at : 0 .. n]

\* The comma looked for from the end, when there is one, is one of the text's tokens.
LEMMA LastCommaIn ==
    ASSUME NEW s \in Seq(Token)
    PROVE  LastComma(s) \in 0 .. Len(s)
<1> DEFINE N == Len(s)
           V == BackStates(N)
           r == [i \in 1 .. N |-> N + 1 - i]
           Back(st, i) ==
             IF st.at # 0 THEN st
             ELSE CASE st.skip -> [st EXCEPT !.skip = FALSE]
                    [] ~st.skip /\ s[i] = "b" -> [st EXCEPT !.skip = TRUE]
                    [] ~st.skip /\ s[i] = "q" -> [st EXCEPT !.in = ~@]
                    [] ~st.skip /\ s[i] = "," /\ ~st.in -> [st EXCEPT !.at = i]
                    [] OTHER -> st
           start == [in |-> FALSE, skip |-> FALSE, at |-> 0]
           F == [p \in V \X (1 .. N) |-> Back(p[1], p[2])]
           Body(f) == [S \in SUBSET (DOMAIN r) |->
                         IF S = {} THEN start
                         ELSE LET x == Max(S) IN Back(f[S \ {x}], r[x])]
           c == CHOOSE f : f = Body(f)
<1>1. LastComma(s) = c[DOMAIN r].at
  BY Zenon DEF LastComma, FoldLeft, MapThenFoldSet
<1>2. N \in Nat /\ r \in [1 .. N -> 1 .. N] /\ DOMAIN r = 1 .. N
  OBVIOUS
<1>3. start \in V
  BY <1>2 DEF BackStates
<1>4. ASSUME NEW st \in V, NEW i \in 1 .. N
      PROVE  Back(st, i) \in V
  <2>1. st = [in |-> st.in, skip |-> st.skip, at |-> st.at]
        /\ st.in \in BOOLEAN /\ st.skip \in BOOLEAN /\ st.at \in 0 .. N /\ i \in 0 .. N
    BY <1>2 DEF BackStates
  <2>2. CASE st.at # 0
    BY <2>2
  <2>3. CASE st.at = 0 /\ st.skip
    <3>1. Back(st, i) = [st EXCEPT !.skip = FALSE]
      BY <2>3
    <3> QED BY <2>1, <3>1 DEF BackStates
  <2>4. CASE st.at = 0 /\ ~st.skip /\ s[i] = "b"
    <3>1. Back(st, i) = [st EXCEPT !.skip = TRUE]
      BY <2>4
    <3> QED BY <2>1, <3>1 DEF BackStates
  <2>5. CASE st.at = 0 /\ ~st.skip /\ s[i] = "q"
    <3>1. Back(st, i) = [st EXCEPT !.in = ~@]
      BY <2>5
    <3> QED BY <2>1, <3>1 DEF BackStates
  <2>6. CASE st.at = 0 /\ ~st.skip /\ s[i] = "," /\ ~st.in
    <3>1. Back(st, i) = [st EXCEPT !.at = i]
      BY <2>6
    <3> QED BY <2>1, <3>1 DEF BackStates
  <2>7. CASE /\ st.at = 0 /\ ~st.skip /\ s[i] # "b" /\ s[i] # "q"
             /\ ~(s[i] = "," /\ ~st.in)
    <3>1. Back(st, i) = st
      BY <2>7
    <3> QED BY <3>1
  <2> QED BY <2>2, <2>3, <2>4, <2>5, <2>6, <2>7
<1>5. F \in [V \X (1 .. N) -> V]
  <2> HIDE DEF V, Back
  <2> QED BY <1>4
<1> HIDE DEF N, V, r, Back, start, c
<1>6. c = Body(c)
  <2>1. PICK g \in [SUBSET (1 .. N) -> V] : IsFold(g, F, start, r, N)
    <3> HIDE DEF F
    <3> QED BY <1>2, <1>3, <1>5, FoldExists
  <2>2. ASSUME NEW S \in SUBSET (DOMAIN r)
        PROVE  g[S] = IF S = {} THEN start ELSE Back(g[S \ {Max(S)}], r[Max(S)])
    <3>1. Max(S) = Greatest(S)
      BY Zenon DEF Max, Greatest
    <3>2. g[S] = IF S = {} THEN start ELSE F[<<g[S \ {Max(S)}], r[Max(S)]>>]
      BY <2>1, <1>2, <3>1, Zenon DEF IsFold
    <3>3. CASE S # {}
      <4>1. Max(S) \in DOMAIN r
        BY <1>2, <3>1, <3>3, GreatestIn
      <4>2. g[S \ {Max(S)}] \in V /\ r[Max(S)] \in 1 .. N
        BY <4>1, <1>2
      <4> QED BY <3>2, <3>3, <4>2
    <3> QED BY <3>2, <3>3
  <2>3. g = Body(g)
    <3>1. Body(g) = [S \in SUBSET (DOMAIN r) |-> g[S]]
      BY <2>2
    <3>2. g = [S \in SUBSET (DOMAIN r) |-> g[S]]
      BY <1>2
    <3> HIDE DEF Body
    <3> QED BY <3>1, <3>2
  <2> HIDE DEF Body
  <2> QED BY <2>3 DEF c
<1>7. c[{}] = start
  BY <1>6
<1>8. ASSUME NEW m \in 0 .. N - 1, c[1 .. m] \in V
      PROVE  c[1 .. m + 1] = F[<<c[1 .. m], r[m + 1]>>]
  <2>1. Max(1 .. m + 1) = m + 1
    <3>1. m + 1 \in 1 .. m + 1 /\ \A y \in 1 .. m + 1 : y \in Int /\ m + 1 >= y
      OBVIOUS
    <3>2. Greatest(1 .. m + 1) = m + 1
      BY <3>1, GreatestOf
    <3> QED BY <3>2, Zenon DEF Max, Greatest
  <2>2. /\ (1 .. m + 1) \ {m + 1} = 1 .. m /\ 1 .. m + 1 # {}
        /\ 1 .. m + 1 \in SUBSET (DOMAIN r) /\ r[m + 1] \in 1 .. N
    <3>1. m \in Nat /\ m + 1 \in 1 .. N
      BY <1>2
    <3>2. (1 .. m + 1) \ {m + 1} = 1 .. m
      BY <3>1
    <3>3. 1 .. m + 1 # {} /\ 1 .. m + 1 \in SUBSET (DOMAIN r)
      <4>1. m + 1 \in 1 .. m + 1
        BY <3>1
      <4>2. \A i \in 1 .. m + 1 : i \in 1 .. N
        BY <3>1, <1>2
      <4> QED BY <4>1, <4>2, <1>2
    <3> QED BY <3>1, <3>2, <3>3, <1>2
  <2>3. c[1 .. m + 1] = Back(c[1 .. m], r[m + 1])
    BY <1>6, <2>1, <2>2
  <2>4. <<c[1 .. m], r[m + 1]>> \in V \X (1 .. N)
    BY <1>8, <2>2
  <2> QED BY <2>3, <2>4
<1> DEFINE h == [m \in 0 .. N |-> c[1 .. m]]
<1>9. h[0] = start /\ h[N] = c[DOMAIN r]
  <2>1. 1 .. 0 = {}
    OBVIOUS
  <2> QED BY <1>2, <1>7, <2>1
<1>10. \A m \in 0 .. N - 1 : h[m] \in V => h[m + 1] = F[<<h[m], r[m + 1]>>]
  <2> TAKE m \in 0 .. N - 1
  <2>1. h[m] = c[1 .. m] /\ h[m + 1] = c[1 .. m + 1]
    BY <1>2
  <2> HIDE DEF h, F
  <2> QED BY <2>1, <1>8
<1>11. IsTrace(h, F, V, start, r, N)
  <2> HIDE DEF h, F
  <2> QED BY <1>9, <1>10 DEF IsTrace
<1>12. Same(h, h, V, N)
  <2> HIDE DEF h, F
  <2> QED BY <1>2, <1>3, <1>5, <1>11, StepsAgree, Zenon
<1>13. c[DOMAIN r] \in V
  <2> HIDE DEF h
  <2> QED BY <1>2, <1>9, <1>12 DEF Same
<1> QED BY <1>1, <1>13 DEF V, BackStates, N

\* The repairs look at beginnings of what arrived, and one of them puts a quote behind one.
LEMMA RepairsBegin ==
    ASSUME NEW s \in Seq(Token), s # <<>>
    PROVE  /\ \E k \in 0 .. Len(s) : TrimIncomplete(s) = UpTo(s, k)
           /\ \E k \in 0 .. Len(s) : RemoveTrailingComma(s) = UpTo(s, k)
           /\ \E k \in 0 .. Len(s) : \/ FixUnclosedString(s) = UpTo(s, k)
                                     \/ FixUnclosedString(s) = Append(UpTo(s, k), "q")
<1>1. Len(s) \in Nat \ {0} /\ Len(s) \in 0 .. Len(s) /\ Len(s) - 1 \in 0 .. Len(s)
  BY EmptySeq
<1>2. UpTo(s, Len(s)) = s
  <2>1. /\ UpTo(s, Len(s)) \in Seq(Token) /\ Len(UpTo(s, Len(s))) = Len(s)
        /\ \A i \in 1 .. Len(s) : UpTo(s, Len(s))[i] = s[i]
    BY <1>1, UpToType
  <2> QED BY <2>1
<1>3. UpTo(s, Len(s) - 1) = Front(s)
  BY DEF UpTo, Front
<1>4. \E k \in 0 .. Len(s) : TrimIncomplete(s) = UpTo(s, k)
  <2> DEFINE at == LastComma(s)
  <2>1. at \in 0 .. Len(s)
    BY LastCommaIn
  <2>2. \/ TrimIncomplete(s) = s
        \/ at > 1 /\ TrimIncomplete(s) = UpTo(s, at - 1)
    BY Zenon DEF TrimIncomplete
  <2> HIDE DEF at
  <2>3. at > 1 => at - 1 \in 0 .. Len(s)
    BY <2>1
  <2> QED BY <1>1, <1>2, <2>2, <2>3
<1>5. \E k \in 0 .. Len(s) : RemoveTrailingComma(s) = UpTo(s, k)
  <2>1. RemoveTrailingComma(s) = s \/ RemoveTrailingComma(s) = Front(s)
    BY Zenon DEF RemoveTrailingComma
  <2> QED BY <1>1, <1>2, <1>3, <2>1
<1>6. \E k \in 0 .. Len(s) : \/ FixUnclosedString(s) = UpTo(s, k)
                             \/ FixUnclosedString(s) = Append(UpTo(s, k), "q")
  <2>1. \/ FixUnclosedString(s) = s
        \/ FixUnclosedString(s) = Append(s, "q")
        \/ FixUnclosedString(s) = Append(Front(s), "q")
    <3> DEFINE in == Scanned(s).in
    <3>1. FixUnclosedString(s) =
            CASE Last(s) = "b" -> Append(Front(s), "q")
              [] Last(s) \notin {"b", "}", "]", "q"} /\ in -> Append(s, "q")
              [] OTHER -> s
      BY Zenon DEF FixUnclosedString, Scanned
    <3> HIDE DEF in
    <3>2. CASE Last(s) = "b"
      BY <3>1, <3>2
    <3>3. CASE Last(s) # "b" /\ Last(s) \notin {"b", "}", "]", "q"} /\ in
      BY <3>1, <3>3
    <3>4. CASE Last(s) # "b" /\ ~(Last(s) \notin {"b", "}", "]", "q"} /\ in)
      BY <3>1, <3>4
    <3> QED BY <3>2, <3>3, <3>4
  <2> QED BY <1>1, <1>2, <1>3, <2>1
<1> QED BY <1>4, <1>5, <1>6

\* x is w cut off at some place and closed there.
Truncated(x, w) == \E n \in 0 .. Len(w) : x = Closed(UpTo(w, n))

\* Whichever strategy is taken, its result is what the whole text said up to a place.
LEMMA RepairTruncates ==
    ASSUME NEW w \in Seq(Token), Loads(w), NEW k \in 0 .. Len(w),
           UpTo(w, k) # <<>>, RepairJson(UpTo(w, k)) # <<>>
    PROVE  Truncated(RepairJson(UpTo(w, k)), w)
<1> DEFINE s == UpTo(w, k)
<1>1. s \in Seq(Token) /\ Len(s) = k /\ s # <<>>
  BY UpToType
<1>2. ASSUME NEW j \in 0 .. Len(s)
      PROVE  /\ j \in 0 .. Len(w) /\ UpTo(s, j) = UpTo(w, j)
             /\ UpTo(w, j) \in Seq(Token)
             /\ Read(UpTo(w, j)).want # "nothing"
  <2>1. j \in 0 .. Len(w) /\ UpTo(s, j) = UpTo(w, j)
    BY <1>1, UpToUpTo
  <2>2. Read(w).want # "nothing"
    BY DEF Loads
  <2> QED BY <2>1, <2>2, BeginningsAreRead, UpToType
<1> HIDE DEF s
<1>3. UpTo(s, Len(s)) = s /\ Len(s) \in 0 .. Len(s)
  <2>1. Len(s) \in 0 .. Len(s)
    BY <1>1
  <2>2. /\ UpTo(s, Len(s)) \in Seq(Token) /\ Len(UpTo(s, Len(s))) = Len(s)
        /\ \A i \in 1 .. Len(s) : UpTo(s, Len(s))[i] = s[i]
    BY <1>1, <2>1, UpToType
  <2> QED BY <1>1, <2>1, <2>2
<1>4. ASSUME NEW j \in 0 .. Len(s), Loads(CloseBrackets(UpTo(s, j)))
      PROVE  Truncated(CloseBrackets(UpTo(s, j)), w)
  BY <1>2, <1>4, ClosingTruncates DEF Truncated
<1>5. ASSUME NEW j \in 0 .. Len(s), Loads(CloseBrackets(Append(UpTo(s, j), "q")))
      PROVE  Truncated(CloseBrackets(Append(UpTo(s, j), "q")), w)
  BY <1>2, <1>5, QuotingTruncates DEF Truncated
<1>6. Loads(s) => Truncated(s, w)
  <2> SUFFICES ASSUME Loads(s) PROVE Truncated(s, w)
    OBVIOUS
  <2>1. Read(s).want \notin {"string", "escaped"} /\ Read(s).open = <<>>
    BY DEF Loads
  <2>2. Closers(<<>>) = <<>>
    BY DEF Closers
  <2>3. Reverse(<<>>) = <<>>
    BY DEF Reverse
  <2>4. Closed(s) = s \o <<>>
    BY <2>1, <2>2, <2>3, ClosedOf
  <2>5. s \o <<>> = s
    BY <1>1
  <2>6. UpTo(w, Len(s)) = s /\ Len(s) \in 0 .. Len(w)
    BY <1>2, <1>3
  <2> QED BY <2>4, <2>5, <2>6 DEF Truncated
<1> DEFINE tries == <<s, CloseBrackets(s), CloseBrackets(TrimIncomplete(s)),
                      CloseBrackets(FixUnclosedString(s)),
                      CloseBrackets(RemoveTrailingComma(s))>>
           good == {i \in DOMAIN tries : Loads(tries[i])}
           first == CHOOSE i \in good : \A j \in good : i <= j
<1>7. ASSUME NEW i \in 1 .. 5, Loads(tries[i])
      PROVE  Truncated(tries[i], w)
  <2>0. /\ tries[1] = s /\ tries[2] = CloseBrackets(s)
        /\ tries[3] = CloseBrackets(TrimIncomplete(s))
        /\ tries[4] = CloseBrackets(FixUnclosedString(s))
        /\ tries[5] = CloseBrackets(RemoveTrailingComma(s))
    OBVIOUS
  <2> HIDE DEF tries
  <2>1. CASE i = 1
    BY <1>6, <1>7, <2>0, <2>1
  <2>2. CASE i = 2
    BY <1>3, <1>4, <1>7, <2>0, <2>2
  <2>3. CASE i = 3
    BY <1>1, <1>4, <1>7, <2>0, <2>3, RepairsBegin
  <2>4. CASE i = 4
    <3> DEFINE f == FixUnclosedString(s)
    <3>1. tries[i] = CloseBrackets(f) /\ Loads(CloseBrackets(f))
      BY <1>7, <2>0, <2>4
    <3>2. \E j \in 0 .. Len(s) : f = UpTo(s, j) \/ f = Append(UpTo(s, j), "q")
      BY <1>1, RepairsBegin
    <3> HIDE DEF f
    <3>3. Truncated(CloseBrackets(f), w)
      BY <1>4, <1>5, <3>1, <3>2
    <3> QED BY <3>1, <3>3
  <2>5. CASE i = 5
    BY <1>1, <1>4, <1>7, <2>0, <2>5, RepairsBegin
  <2>6. i = 1 \/ i = 2 \/ i = 3 \/ i = 4 \/ i = 5
    OBVIOUS
  <2> QED BY <2>1, <2>2, <2>3, <2>4, <2>5, <2>6
<1>8. RepairJson(s) = IF good = {} THEN <<>> ELSE tries[first]
  BY Zenon DEF RepairJson
<1>9. DOMAIN tries = 1 .. 5
  OBVIOUS
<1> HIDE DEF tries
<1>10. good \in SUBSET Nat /\ good \in SUBSET (1 .. 5)
  BY <1>9
<1>11. good # {}
  BY <1>8 DEF s
<1>12. first \in good
  <2> HIDE DEF good
  <2>1. \E i \in good : \A j \in good : i <= j
    BY <1>10, <1>11, LeastOf
  <2> QED BY <2>1
<1>13. Loads(tries[first]) /\ first \in 1 .. 5
  BY <1>10, <1>12
<1> HIDE DEF first, good
<1>14. RepairJson(s) = tries[first]
  BY <1>8, <1>11
<1> QED BY <1>7, <1>13, <1>14 DEF s

-----------------------------------------------------------------------------
(* LlmCall: the call.                                                      *)

\* The assumptions of LlmCall.
Texts ==
    /\ AttemptsArePositive /\ AnswersAreTexts /\ ArgumentsAreJson

LEMMA TextsHold == Texts
BY AttemptsArePositive, AnswersAreTexts, ArgumentsAreJson, Zenon
   DEF Texts, AttemptsArePositive, AnswersAreTexts, ArgumentsAreJson

\* The types, with what is known of the pause.
CallTypes ==
    /\ stage \in {"stream", "backoff", "over"} /\ limited \in BOOLEAN
    /\ answers \in Seq(Answers) /\ Attempt \in 1 .. MaxRetries
    /\ stage = "backoff" => Attempt < MaxRetries
    /\ sent \in [words : 0 .. Streamed.words, calls : [Indices -> Nat]]
    /\ \A i \in Indices : sent.calls[i] <= Len(Streamed.calls[i])
    /\ started \subseteq Indices
    /\ text \in Seq(Nat) /\ \A k \in DOMAIN text : text[k] \in 1 .. Attempt
    /\ gathered \in [DOMAIN gathered -> Seq(Token)]
    /\ result \in [kind : {"none", "answer", "error", "raised"}, cut : BOOLEAN]

LEMMA AnswerType ==
    ASSUME Texts, NEW a \in Answers
    PROVE  /\ a.words \in Nat /\ a.calls \in Seq(Seq(Token))
           /\ \A i \in DOMAIN a.calls : Loads(a.calls[i])
           /\ DOMAIN a.calls = 1 .. Len(a.calls) /\ Len(a.calls) \in Nat
           /\ \A i \in DOMAIN a.calls : /\ a.calls[i] \in Seq(Token)
                                        /\ Len(a.calls[i]) \in Nat
<1>1. a.words \in Nat /\ a.calls \in Seq(Seq(Token))
  BY Zenon DEF Texts, AnswersAreTexts
<1>2. \A i \in DOMAIN a.calls : Loads(a.calls[i])
  BY Zenon DEF Texts, ArgumentsAreJson
<1> QED BY <1>1, <1>2

LEMMA AnswerIsGiven ==
    ASSUME CallTypes
    PROVE  Streamed \in Answers
BY DEF CallTypes, Streamed, Attempt

LEMMA NothingSent ==
    ASSUME Texts, NEW a \in Answers
    PROVE  /\ NothingOf(a) \in [words : 0 .. a.words, calls : [DOMAIN a.calls -> Nat]]
           /\ NothingOf(a).words = 0
           /\ \A i \in DOMAIN a.calls : NothingOf(a).calls[i] = 0
<1>1. a.words \in Nat
  BY AnswerType
<1> QED BY <1>1 DEF NothingOf

LEMMA InitTypes == Texts /\ CallInit => CallTypes
<1> SUFFICES ASSUME Texts, CallInit PROVE CallTypes
  OBVIOUS
<1>1. PICK a \in Answers : answers = <<a>> /\ sent = NothingOf(a)
  BY DEF CallInit
<1>2. a \in Answers
  OBVIOUS
<1>3. answers \in Seq(Answers) /\ Attempt = 1 /\ Streamed = a
  BY <1>1, <1>2 DEF Attempt, Streamed
<1>4. Attempt \in 1 .. MaxRetries
  BY <1>3, AttemptsArePositive DEF AttemptsArePositive
<1>5. sent \in [words : 0 .. Streamed.words, calls : [Indices -> Nat]]
  BY <1>1, <1>2, <1>3, NothingSent DEF Indices
<1>6. \A i \in Indices : sent.calls[i] <= Len(Streamed.calls[i])
  BY <1>1, <1>2, <1>3, NothingSent, AnswerType DEF Indices
<1>7. gathered \in [DOMAIN gathered -> Seq(Token)] /\ text \in Seq(Nat) /\ DOMAIN text = {}
  BY DEF CallInit
<1>8. result \in [kind : {"none", "answer", "error", "raised"}, cut : BOOLEAN]
  BY DEF CallInit, NoResult
<1> QED BY <1>3, <1>4, <1>5, <1>6, <1>7, <1>8 DEF CallTypes, CallInit

\* What a piece of a call's arguments does to the calls that are gathered.
LEMMA PieceGathered ==
    ASSUME NEW i, NEW withId \in BOOLEAN, NEW piece \in Seq(Token),
           gathered \in [DOMAIN gathered -> Seq(Token)],
           Gather(i, withId, piece)
    PROVE  /\ gathered' \in [DOMAIN gathered' -> Seq(Token)]
           /\ withId \/ i \in started => started' = started \cup {i}
           /\ ~withId => started' = started
           /\ i \in started /\ i \in DOMAIN gathered =>
                /\ DOMAIN gathered' = DOMAIN gathered
                /\ gathered'[i] = gathered[i] \o piece
           /\ i \notin started /\ withId =>
                /\ DOMAIN gathered' = DOMAIN gathered \cup {i}
                /\ gathered'[i] = piece
           /\ \A j \in DOMAIN gathered \ {i} : j \in DOMAIN gathered' /\ gathered'[j] = gathered[j]
<1> DEFINE begun == [j \in DOMAIN gathered \cup {i} |-> IF j = i THEN <<>> ELSE gathered[j]]
<1>1. CASE withId /\ i \notin started
  <2>1. started' = started \cup {i} /\ gathered' = [begun EXCEPT ![i] = @ \o piece]
    BY <1>1 DEF Gather
  <2>2. <<>> \o piece = piece
    OBVIOUS
  <2>3. /\ DOMAIN gathered' = DOMAIN gathered \cup {i} /\ gathered'[i] = piece
        /\ \A j \in DOMAIN gathered \ {i} : j \in DOMAIN gathered' /\ gathered'[j] = gathered[j]
    BY <2>1, <2>2
  <2>4. gathered' = [j \in DOMAIN gathered \cup {i} |-> IF j = i THEN piece ELSE gathered[j]]
    BY <2>1, <2>2
  <2> HIDE DEF begun
  <2>5. gathered' \in [DOMAIN gathered' -> Seq(Token)]
    BY <2>4
  <2> QED BY <1>1, <2>1, <2>3, <2>5
<1>2. CASE ~(withId /\ i \notin started)
  <2>1. started' = started
    BY <1>2 DEF Gather
  <2>2. gathered' = IF i \in DOMAIN gathered THEN [gathered EXCEPT ![i] = @ \o piece] ELSE gathered
    BY <1>2 DEF Gather
  <2>3. i \in DOMAIN gathered => gathered[i] \o piece \in Seq(Token)
    OBVIOUS
  <2>4. gathered' \in [DOMAIN gathered' -> Seq(Token)]
    BY <2>2, <2>3
  <2>5. /\ i \in DOMAIN gathered => DOMAIN gathered' = DOMAIN gathered /\ gathered'[i] = gathered[i] \o piece
        /\ \A j \in DOMAIN gathered \ {i} : j \in DOMAIN gathered' /\ gathered'[j] = gathered[j]
    BY <2>2
  <2> QED BY <1>2, <2>1, <2>4, <2>5
<1> QED BY <1>1, <1>2

\* What is gathered of the attempt that is being received is what was sent of it.
Gathered ==
    /\ \A i \in started : /\ i \in DOMAIN gathered
                          /\ gathered[i] = UpTo(Streamed.calls[i], sent.calls[i])
    /\ \A i \in Indices \ started : sent.calls[i] = 0
    /\ sent.words <= Len(text)
    /\ \A k \in 1 .. sent.words : text[Len(text) + 1 - k] = Attempt

\* A call that is left of a broken attempt is one of that attempt, up to some place.
LeftOver ==
    \A i \in DOMAIN gathered :
      \E n \in 1 .. Attempt :
        /\ i \in DOMAIN answers[n].calls
        /\ \E k \in 0 .. Len(answers[n].calls[i]) :
             gathered[i] = UpTo(answers[n].calls[i], k)

\* An answer that was not cut off had been sent whole.
Whole ==
    /\ stage # "over" => result = NoResult
    /\ result.kind = "answer" /\ ~result.cut => AllSent

\* The inductive invariant of the call.
CallInv == CallTypes /\ Gathered /\ LeftOver /\ Whole

LEMMA InitCall == Texts /\ CallInit => CallInv
<1> SUFFICES ASSUME Texts, CallInit PROVE CallInv
  OBVIOUS
<1>1. CallTypes
  BY InitTypes
<1>2. PICK a \in Answers : answers = <<a>> /\ sent = NothingOf(a)
  BY DEF CallInit
<1>3. Streamed = a /\ sent.words = 0 /\ \A i \in Indices : sent.calls[i] = 0
  BY <1>2, NothingSent DEF Streamed, Attempt, Indices
<1>4. started = {} /\ DOMAIN gathered = {} /\ Len(text) = 0
  BY DEF CallInit
<1>5. Gathered /\ LeftOver
  BY <1>3, <1>4 DEF Gathered, LeftOver
<1>6. Whole
  BY DEF Whole, CallInit, NoResult
<1> QED BY <1>1, <1>5, <1>6 DEF CallInv

\* A step that receives something leaves the answers and the result as they are.
LEMMA SameAnswer ==
    ASSUME answers' = answers
    PROVE  Streamed' = Streamed /\ Attempt' = Attempt /\ Indices' = Indices
BY DEF Streamed, Attempt, Indices

LEMMA UpToNext ==
    ASSUME NEW S, NEW s \in Seq(S), NEW n \in Nat, n + 1 \in 1 .. Len(s)
    PROVE  SubSeq(s, 1, n + 1) = SubSeq(s, 1, n) \o <<s[n + 1]>>
<1>1. 1 \in 1 .. Len(s) + 1 /\ n + 1 \in 1 .. Len(s) /\ 1 <= n + 1
  OBVIOUS
<1>2. SubSeq(s, 1, n + 1) = SubSeq(s, 1, (n + 1) - 1) \o <<s[n + 1]>>
  BY <1>1, SubSeqRecursiveSecond
<1>3. (n + 1) - 1 = n
  OBVIOUS
<1> QED BY <1>2, <1>3

LEMMA WordStep ==
    ASSUME Texts, CallInv, ReceiveWord
    PROVE  CallInv'
<1> USE DEF CallInv
<1>1. /\ stage = "stream" /\ sent.words < Streamed.words
      /\ sent' = [sent EXCEPT !.words = @ + 1] /\ text' = Append(text, Attempt)
      /\ UNCHANGED <<stage, started, gathered, limited, answers, result>>
  BY DEF ReceiveWord, reading
<1>2. Streamed' = Streamed /\ Attempt' = Attempt /\ Indices' = Indices
  BY <1>1, SameAnswer
<1>3. Streamed.words \in Nat /\ Attempt \in Nat /\ sent.words \in Nat
  BY AnswerIsGiven, AnswerType DEF CallTypes
<1>4. /\ sent'.words = sent.words + 1 /\ sent'.calls = sent.calls
      /\ sent' \in [words : 0 .. Streamed.words, calls : [Indices -> Nat]]
  <2>1. sent.words + 1 \in 0 .. Streamed.words
    BY <1>1, <1>3
  <2> QED BY <2>1, <1>1 DEF CallTypes
<1>5. /\ text' \in Seq(Nat) /\ Len(text') = Len(text) + 1 /\ Len(text) \in Nat
      /\ text'[Len(text) + 1] = Attempt /\ \A k \in DOMAIN text : text'[k] = text[k]
      /\ DOMAIN text = 1 .. Len(text) /\ DOMAIN text' = 1 .. Len(text) + 1
  BY <1>1, <1>3 DEF CallTypes
<1>6. \A k \in DOMAIN text' : text'[k] \in 1 .. Attempt
  <2> TAKE k \in DOMAIN text'
  <2>1. CASE k \in DOMAIN text
    BY <2>1, <1>5 DEF CallTypes
  <2>2. CASE k = Len(text) + 1
    BY <2>2, <1>5 DEF CallTypes
  <2> QED BY <2>1, <2>2, <1>5
<1>7. CallTypes'
  BY <1>1, <1>2, <1>4, <1>5, <1>6 DEF CallTypes
<1>8. Gathered'
  <2>1. sent'.words <= Len(text')
    BY <1>3, <1>4, <1>5 DEF Gathered
  <2>2. \A k \in 1 .. sent'.words : text'[Len(text') + 1 - k] = Attempt
    <3> TAKE k \in 1 .. sent'.words
    <3>1. CASE k = 1
      BY <3>1, <1>5
    <3>2. CASE k # 1
      <4>1. k - 1 \in 1 .. sent.words /\ Len(text) + 1 - (k - 1) \in 1 .. Len(text)
        <5>1. /\ sent.words <= Len(text) /\ Len(text) \in Nat /\ sent.words \in Nat
              /\ sent'.words = sent.words + 1
          BY <1>3, <1>4, <1>5 DEF Gathered
        <5> QED BY ONLY <3>2, <5>1, k \in 1 .. sent'.words, SMT
      <4>2. text[Len(text) + 1 - (k - 1)] = Attempt
        BY <4>1 DEF Gathered
      <4>3. Len(text') + 1 - k = Len(text) + 1 - (k - 1)
        BY <1>5
      <4> QED BY <4>1, <4>2, <4>3, <1>5
    <3> QED BY <3>1, <3>2
  <2> QED BY <2>1, <2>2, <1>1, <1>2, <1>4 DEF Gathered
<1>9. LeftOver'
  BY <1>1, <1>2 DEF LeftOver
<1>10. Whole'
  <2>1. ~AllSent
    BY <1>1, <1>3 DEF AllSent
  <2> QED BY <2>1, <1>1 DEF Whole
<1> QED BY <1>7, <1>8, <1>9, <1>10

\* The call of an index that is begun, or goes on, with what was sent next.
LEMMA CallStep ==
    ASSUME Texts, CallInv, NEW i \in Indices,
           ReceiveCall(i) \/ ReceiveArguments(i)
    PROVE  CallInv'
<1> USE DEF CallInv
<1> DEFINE arguments == Streamed.calls[i]
<1>1. /\ stage = "stream" /\ UNCHANGED <<stage, text, limited, answers, result>>
      /\ ~AllSent
  <2>1. CASE ReceiveCall(i)
    BY <2>1 DEF ReceiveCall, reading, AllSent
  <2>2. CASE ReceiveArguments(i)
    <3>1. sent.calls[i] < Len(arguments) /\ sent.calls[i] \in Nat
      BY <2>2 DEF ReceiveArguments, CallTypes
    <3>2. Len(arguments) \in Nat
      BY AnswerIsGiven, AnswerType DEF Indices
    <3>3. sent.calls[i] # Len(arguments)
      BY <3>1, <3>2
    <3> QED BY <2>2, <3>3 DEF ReceiveArguments, reading, AllSent
  <2> QED BY <2>1, <2>2
<1>2. Streamed' = Streamed /\ Attempt' = Attempt /\ Indices' = Indices
  BY <1>1, SameAnswer
<1>3. /\ arguments \in Seq(Token) /\ Len(arguments) \in Nat
      /\ DOMAIN arguments = 1 .. Len(arguments)
  BY AnswerIsGiven, AnswerType DEF Indices
<1>4. /\ sent' \in [words : 0 .. Streamed.words, calls : [Indices -> Nat]]
      /\ sent'.words = sent.words
      /\ sent'.calls[i] \in 0 .. Len(arguments)
      /\ \A j \in Indices \ {i} : sent'.calls[j] = sent.calls[j]
      /\ gathered' \in [DOMAIN gathered' -> Seq(Token)]
      /\ started' = started \cup {i}
      /\ i \in DOMAIN gathered' /\ gathered'[i] = UpTo(arguments, sent'.calls[i])
      /\ \A j \in DOMAIN gathered \ {i} : j \in DOMAIN gathered' /\ gathered'[j] = gathered[j]
      /\ DOMAIN gathered' = DOMAIN gathered \cup {i}
  <2>1. CASE ReceiveCall(i)
    <3>1. i \notin started /\ Gather(i, TRUE, <<>>) /\ sent' = sent
      BY <2>1 DEF ReceiveCall
    <3>2. sent.calls[i] = 0
      BY <3>1 DEF Gathered
    <3>3. <<>> \in Seq(Token) /\ TRUE \in BOOLEAN
      OBVIOUS
    <3>4. gathered \in [DOMAIN gathered -> Seq(Token)]
      BY DEF CallTypes
    <3>5. /\ gathered' \in [DOMAIN gathered' -> Seq(Token)] /\ started' = started \cup {i}
          /\ DOMAIN gathered' = DOMAIN gathered \cup {i} /\ gathered'[i] = <<>>
          /\ \A j \in DOMAIN gathered \ {i} : j \in DOMAIN gathered' /\ gathered'[j] = gathered[j]
      BY <3>1, <3>3, <3>4, PieceGathered
    <3>6. UpTo(arguments, 0) = <<>>
      BY <1>3 DEF UpTo
    <3> QED BY <3>1, <3>2, <3>5, <3>6, <1>3 DEF CallTypes
  <2>2. CASE ReceiveArguments(i)
    <3>1. /\ i \in started /\ sent.calls[i] < Len(arguments)
          /\ sent' = [sent EXCEPT !.calls[i] = @ + 1]
      BY <2>2 DEF ReceiveArguments
    <3>2. PICK withId \in BOOLEAN :
             Gather(i, withId, <<arguments[sent.calls[i] + 1]>>)
      BY <2>2 DEF ReceiveArguments
    <3>3. sent.calls[i] \in Nat /\ sent.calls[i] + 1 \in 1 .. Len(arguments)
      BY <3>1, <1>3 DEF CallTypes
    <3>4. <<arguments[sent.calls[i] + 1]>> \in Seq(Token)
      BY <3>3, <1>3
    <3>5. gathered \in [DOMAIN gathered -> Seq(Token)]
      BY DEF CallTypes
    <3>6. i \in DOMAIN gathered /\ gathered[i] = UpTo(arguments, sent.calls[i])
      BY <3>1 DEF Gathered
    <3>7. /\ gathered' \in [DOMAIN gathered' -> Seq(Token)] /\ started' = started \cup {i}
          /\ DOMAIN gathered' = DOMAIN gathered
          /\ gathered'[i] = gathered[i] \o <<arguments[sent.calls[i] + 1]>>
          /\ \A j \in DOMAIN gathered \ {i} : j \in DOMAIN gathered' /\ gathered'[j] = gathered[j]
      <4> DEFINE piece == <<arguments[sent.calls[i] + 1]>>
      <4> HIDE DEF piece
      <4>1. piece \in Seq(Token) /\ Gather(i, withId, piece)
        BY <3>2, <3>4 DEF piece
      <4>2. /\ gathered' \in [DOMAIN gathered' -> Seq(Token)]
            /\ started' = started \cup {i}
            /\ DOMAIN gathered' = DOMAIN gathered
            /\ gathered'[i] = gathered[i] \o piece
            /\ \A j \in DOMAIN gathered \ {i} : j \in DOMAIN gathered' /\ gathered'[j] = gathered[j]
        <5>1. gathered \in [DOMAIN gathered -> Seq(Token)] /\ i \in started /\ i \in DOMAIN gathered
          BY <3>1, <3>5, <3>6
        <5>2. /\ gathered' \in [DOMAIN gathered' -> Seq(Token)]
              /\ withId \/ i \in started => started' = started \cup {i}
              /\ ~withId => started' = started
              /\ i \in started /\ i \in DOMAIN gathered =>
                   /\ DOMAIN gathered' = DOMAIN gathered
                   /\ gathered'[i] = gathered[i] \o piece
              /\ i \notin started /\ withId =>
                   /\ DOMAIN gathered' = DOMAIN gathered \cup {i}
                   /\ gathered'[i] = piece
              /\ \A j \in DOMAIN gathered \ {i} : j \in DOMAIN gathered' /\ gathered'[j] = gathered[j]
          BY <4>1, <5>1, PieceGathered, Zenon
        <5> QED BY <5>1, <5>2
      <4> QED BY <4>2 DEF piece
    <3>8. SubSeq(arguments, 1, sent.calls[i] + 1)
            = SubSeq(arguments, 1, sent.calls[i]) \o <<arguments[sent.calls[i] + 1]>>
      <4> DEFINE n == sent.calls[i]
      <4>1. n \in Nat /\ n + 1 \in 1 .. Len(arguments)
        BY <3>3
      <4> HIDE DEF n, arguments
      <4> QED BY <4>1, <1>3, UpToNext DEF n
    <3>9. /\ sent' \in [words : 0 .. Streamed.words, calls : [Indices -> Nat]]
          /\ sent'.words = sent.words /\ sent'.calls[i] = sent.calls[i] + 1
          /\ \A j \in Indices \ {i} : sent'.calls[j] = sent.calls[j]
      BY <3>1, <3>3 DEF CallTypes
    <3>10. gathered'[i] = UpTo(arguments, sent'.calls[i])
      <4> HIDE DEF arguments
      <4>1. gathered'[i] = gathered[i] \o <<arguments[sent.calls[i] + 1]>>
        BY <3>7
      <4>2. gathered[i] = SubSeq(arguments, 1, sent.calls[i])
        BY <3>6 DEF UpTo
      <4>3. sent'.calls[i] = sent.calls[i] + 1
        BY <3>9
      <4> QED BY ONLY <3>8, <4>1, <4>2, <4>3, Zenon DEF UpTo
    <3>11. i \in DOMAIN gathered /\ sent'.calls[i] \in 0 .. Len(arguments)
      BY <3>3, <3>6, <3>9, <1>3
    <3> HIDE DEF arguments
    <3> QED BY <3>7, <3>9, <3>10, <3>11
  <2> QED BY <2>1, <2>2
<1>5. CallTypes'
  <2>1. \A j \in Indices : sent'.calls[j] <= Len(Streamed.calls[j])
    <3> TAKE j \in Indices
    <3>1. CASE j = i
      BY <3>1, <1>3, <1>4
    <3>2. CASE j # i
      BY <3>2, <1>4 DEF CallTypes
    <3> QED BY <3>1, <3>2
  <2> QED BY <2>1, <1>1, <1>2, <1>4 DEF CallTypes
<1>6. Gathered'
  <2>1. \A j \in started' :
          j \in DOMAIN gathered' /\ gathered'[j] = UpTo(Streamed.calls[j], sent'.calls[j])
    <3> TAKE j \in started'
    <3>1. CASE j = i
      BY <3>1, <1>4
    <3>2. CASE j # i
      <4>1. j \in started /\ j \in Indices
        BY <3>2, <1>4 DEF CallTypes
      <4> QED BY <4>1, <3>2, <1>4 DEF Gathered
    <3> QED BY <3>1, <3>2
  <2>2. \A j \in Indices \ started' : sent'.calls[j] = 0
    BY <1>4 DEF Gathered
  <2> QED BY <2>1, <2>2, <1>1, <1>2, <1>4 DEF Gathered
<1>7. LeftOver'
  <2> SUFFICES ASSUME NEW j \in DOMAIN gathered'
               PROVE  \E n \in 1 .. Attempt :
                        /\ j \in DOMAIN answers[n].calls
                        /\ \E k \in 0 .. Len(answers[n].calls[j]) :
                             gathered'[j] = UpTo(answers[n].calls[j], k)
    BY <1>1, <1>2 DEF LeftOver
  <2>1. CASE j = i
    <3>1. /\ Attempt \in 1 .. Attempt /\ answers[Attempt] = Streamed
          /\ i \in DOMAIN Streamed.calls
      BY DEF CallTypes, Streamed, Indices
    <3> QED BY <2>1, <3>1, <1>4
  <2>2. CASE j # i
    BY <2>2, <1>4 DEF LeftOver
  <2> QED BY <2>1, <2>2
<1>8. Whole'
  BY <1>1 DEF Whole
<1> QED BY <1>5, <1>6, <1>7, <1>8

LEMMA PauseStep ==
    ASSUME Texts, CallInv, Wakes
    PROVE  CallInv'
<1> USE DEF CallInv
<1>1. PICK a \in Answers :
         /\ sent' = NothingOf(a)
         /\ answers' = IF Attempt < MaxRetries THEN Append(answers, a)
                       ELSE [answers EXCEPT ![Attempt] = a]
  BY DEF Wakes
<1>2. /\ stage = "backoff" /\ stage' = "stream" /\ started' = {}
      /\ UNCHANGED <<limited, text, gathered, result>>
  BY DEF Wakes
<1>3. a \in Answers
  OBVIOUS
<1>4. answers' = Append(answers, a) /\ answers \in Seq(Answers)
  BY <1>1, <1>2 DEF CallTypes
<1>5. /\ answers' \in Seq(Answers) /\ Attempt' = Attempt + 1 /\ Streamed' = a
      /\ \A n \in 1 .. Attempt : answers'[n] = answers[n]
      /\ Attempt \in Nat
  BY <1>3, <1>4 DEF Attempt, Streamed
<1>6. Attempt' \in 1 .. MaxRetries
  BY <1>2, <1>5, AttemptsArePositive DEF CallTypes, AttemptsArePositive
<1>7. /\ sent' \in [words : 0 .. a.words, calls : [DOMAIN a.calls -> Nat]]
      /\ sent'.words = 0 /\ \A i \in DOMAIN a.calls : sent'.calls[i] = 0
  BY <1>1, <1>3, NothingSent
<1>8. \A i \in DOMAIN a.calls : Len(a.calls[i]) \in Nat
  BY <1>3, AnswerType
<1>9. CallTypes'
  <2>1. Indices' = DOMAIN a.calls
    BY <1>5 DEF Indices
  <2>2. /\ sent' \in [words : 0 .. Streamed'.words, calls : [Indices' -> Nat]]
        /\ \A i \in Indices' : sent'.calls[i] <= Len(Streamed'.calls[i])
    BY <1>5, <1>7, <1>8, <2>1
  <2>3. \A k \in DOMAIN text' : text'[k] \in 1 .. Attempt'
    BY <1>2, <1>5 DEF CallTypes
  <2> QED BY <2>2, <2>3, <1>2, <1>5, <1>6 DEF CallTypes
<1>10. Gathered'
  BY <1>2, <1>5, <1>7 DEF Gathered, Indices, CallTypes
<1>11. LeftOver'
  <2> SUFFICES ASSUME NEW i \in DOMAIN gathered
               PROVE  \E n \in 1 .. Attempt' :
                        /\ i \in DOMAIN answers'[n].calls
                        /\ \E k \in 0 .. Len(answers'[n].calls[i]) :
                             gathered[i] = UpTo(answers'[n].calls[i], k)
    BY <1>2 DEF LeftOver
  <2>1. PICK n \in 1 .. Attempt :
           /\ i \in DOMAIN answers[n].calls
           /\ \E k \in 0 .. Len(answers[n].calls[i]) :
                gathered[i] = UpTo(answers[n].calls[i], k)
    BY DEF LeftOver
  <2>2. n \in 1 .. Attempt' /\ answers'[n] = answers[n]
    BY <1>5
  <2> QED BY <2>1, <2>2
<1>12. Whole'
  BY <1>2 DEF Whole, CallTypes, NoResult
<1> QED BY <1>9, <1>10, <1>11, <1>12

\* A call that ends, by the stream or by a timeout, keeps all that it has gathered.
LEMMA EndStep ==
    ASSUME CallInv, NEW r \in [kind : {"none", "answer", "error", "raised"}, cut : BOOLEAN],
           Return(r), r.kind = "answer" /\ ~r.cut => AllSent
    PROVE  CallInv'
<1> USE DEF CallInv
<1>1. /\ stage' = "over" /\ result' = r
      /\ UNCHANGED <<limited, answers, sent, started, text, gathered>>
  BY DEF Return
<1>2. Streamed' = Streamed /\ Attempt' = Attempt /\ Indices' = Indices
  BY <1>1, SameAnswer
<1>3. CallTypes'
  BY <1>1, <1>2 DEF CallTypes
<1>4. Gathered' /\ LeftOver'
  BY <1>1, <1>2 DEF Gathered, LeftOver
<1>5. Whole'
  BY <1>1, <1>2 DEF Whole, AllSent
<1> QED BY <1>3, <1>4, <1>5

LEMMA CallIsInvariant ==
    ASSUME Texts, CallInv, [CallNext]_(callVars)
    PROVE  CallInv'
<1> DEFINE Results == [kind : {"none", "answer", "error", "raised"}, cut : BOOLEAN]
<1>1. CASE ReceiveWord
  BY <1>1, WordStep
<1>2. CASE \E i \in Indices : ReceiveCall(i) \/ ReceiveArguments(i)
  BY <1>2, CallStep
<1>3. CASE Finishes
  <2>1. /\ [kind |-> "answer", cut |-> FALSE] \in Results
        /\ Return([kind |-> "answer", cut |-> FALSE]) /\ AllSent
    BY <1>3 DEF Finishes, Respond
  <2> QED BY <2>1, EndStep
<1>4. CASE EndsEarly
  <2>1. /\ [kind |-> "answer", cut |-> TRUE] \in Results
        /\ Return([kind |-> "answer", cut |-> TRUE])
    BY <1>4 DEF EndsEarly, Respond
  <2> QED BY <2>1, EndStep
<1>5. CASE \E final \in BOOLEAN : Breaks(final)
  <2> PICK final \in BOOLEAN : Breaks(final)
    BY <1>5
  <2>1. CASE final \/ Attempt = MaxRetries
    <3>1. /\ [kind |-> "error", cut |-> TRUE] \in Results
          /\ Return([kind |-> "error", cut |-> TRUE])
      BY <2>1 DEF Breaks, Fail
    <3> QED BY <3>1, EndStep
  <2>2. CASE ~(final \/ Attempt = MaxRetries)
    <3>1. /\ stage = "stream" /\ stage' = "backoff"
          /\ UNCHANGED <<limited, answers, sent, started, text, gathered, result>>
      BY <2>2 DEF Breaks
    <3>2. /\ Streamed' = Streamed /\ Attempt' = Attempt
          /\ Indices' = Indices
      BY <3>1, SameAnswer
    <3>3. Attempt < MaxRetries
      BY <2>2, AttemptsArePositive DEF CallInv, CallTypes, AttemptsArePositive
    <3>4. CallTypes'
      BY <3>1, <3>2, <3>3 DEF CallInv, CallTypes
    <3>5. Gathered' /\ LeftOver'
      BY <3>1, <3>2 DEF CallInv, Gathered, LeftOver
    <3>6. Whole'
      BY <3>1 DEF CallInv, Whole, NoResult
    <3> QED BY <3>4, <3>5, <3>6 DEF CallInv
  <2> QED BY <2>1, <2>2
<1>6. CASE Wakes
  BY <1>6, PauseStep
<1>7. CASE TimesOut
  <2>1. CASE stage = "stream" /\ Respond(~AllSent)
    <3> DEFINE cut == ~AllSent
    <3>1. cut \in BOOLEAN /\ (~cut => AllSent)
      BY DEF AllSent
    <3>2. Return([kind |-> "answer", cut |-> cut])
      BY <2>1, Zenon DEF Respond
    <3> HIDE DEF cut
    <3>3. [kind |-> "answer", cut |-> cut] \in Results
      BY <3>1
    <3>4. [kind |-> "answer", cut |-> cut].cut = cut
      OBVIOUS
    <3> QED BY <3>1, <3>2, <3>3, <3>4, EndStep
  <2>2. CASE stage = "backoff" /\ Return([kind |-> "raised", cut |-> TRUE])
    <3>1. [kind |-> "raised", cut |-> TRUE] \in Results
      OBVIOUS
    <3> QED BY <2>2, <3>1, EndStep
  <2> QED BY <1>7, <2>1, <2>2 DEF TimesOut
<1>8. CASE UNCHANGED callVars
  <2>1. UNCHANGED <<stage, limited, answers, sent, started, text, gathered, result>>
    BY <1>8 DEF callVars
  <2>2. Streamed' = Streamed /\ Attempt' = Attempt /\ Indices' = Indices
    BY <2>1, SameAnswer
  <2>3. CallTypes'
    BY <2>1, <2>2 DEF CallInv, CallTypes
  <2>4. Gathered' /\ LeftOver'
    BY <2>1, <2>2 DEF CallInv, Gathered, LeftOver
  <2>5. Whole'
    BY <2>1, <2>2 DEF CallInv, Whole, AllSent
  <2> QED BY <2>3, <2>4, <2>5 DEF CallInv
<1> QED
  BY <1>1, <1>2, <1>3, <1>4, <1>5, <1>6, <1>7, <1>8, Zenon DEF CallNext, Streams

\* The empty text is no JSON.
LEMMA NoTextIsNoJson == ~Loads(<<>>)
<1> DEFINE Body(f) == [s \in SUBSET (DOMAIN <<>>) |->
                         IF s = {} THEN Begin
                         ELSE LET x == Max(s) IN Accept(f[s \ {x}], <<>>[x])]
           g == CHOOSE f : f = Body(f)
<1>1. Read(<<>>) = g[DOMAIN <<>>]
  BY Zenon DEF Read, FoldLeft, MapThenFoldSet
<1>2. \A f : Body(f) = [s \in SUBSET {} |-> Begin]
  OBVIOUS
<1>3. g = Body(g)
  <2>1. \E f : f = Body(f)
    <3> WITNESS [s \in SUBSET {} |-> Begin]
    <3> HIDE DEF Body
    <3> QED BY <1>2
  <2> HIDE DEF Body
  <2> QED BY <2>1
<1> HIDE DEF g
<1>4. g[DOMAIN <<>>] = Begin
  <2>1. g = [s \in SUBSET {} |-> Begin]
    <3> HIDE DEF Body
    <3> QED BY <1>2, <1>3
  <2> QED BY <2>1
<1> QED BY <1>1, <1>4 DEF Loads, Begin

\* Arguments that are JSON are taken as they are.
LEMMA JsonIsKept ==
    ASSUME NEW s, Loads(s)
    PROVE  Arguments(s) = s
<1>1. s # <<>>
  BY NoTextIsNoJson
<1> DEFINE tries == <<s, CloseBrackets(s), CloseBrackets(TrimIncomplete(s)),
                      CloseBrackets(FixUnclosedString(s)),
                      CloseBrackets(RemoveTrailingComma(s))>>
           good == {i \in DOMAIN tries : Loads(tries[i])}
           first == CHOOSE i \in good : \A j \in good : i <= j
<1>2. RepairJson(s) = IF good = {} THEN <<>> ELSE tries[first]
  BY Zenon DEF RepairJson
<1>3. DOMAIN tries = 1 .. 5 /\ tries[1] = s
  OBVIOUS
<1> HIDE DEF tries
<1>4. 1 \in good /\ \A j \in good : j \in 1 .. 5
  BY <1>3
<1>5. first = 1
  <2>1. \E i \in good : \A j \in good : i <= j
    BY <1>4
  <2>2. first \in good /\ \A j \in good : first <= j
    BY <2>1
  <2> HIDE DEF first
  <2> QED BY <2>2, <1>4
<1>6. RepairJson(s) = s
  BY <1>2, <1>3, <1>4, <1>5
<1> QED BY <1>1, <1>6 DEF Arguments

LEMMA WholeCallInv ==
    ASSUME Texts
    PROVE  CallSpec => []CallInv
<1>1. CallInit => CallInv
  BY InitCall
<1>2. CallInv /\ [CallNext]_(callVars) => CallInv'
  BY CallIsInvariant
<1> QED BY <1>1, <1>2, PTL DEF CallSpec

\* Every variable of a call of the model keeps its type, for any answers and attempts.
THEOREM CallTypeCorrect == CallSpec => []CallTypeOK
<1> USE TextsHold
<1>1. CallInv => CallTypeOK
  <2> SUFFICES ASSUME CallInv
               PROVE  CallTypeOK
    OBVIOUS
  <2>1. CallTypes
    BY DEF CallInv
  <2>2. sent.words \in 0 .. Streamed.words /\ \A i \in Indices : sent.calls[i] \in Nat
    BY <2>1 DEF CallTypes
  <2>3. \A i \in Indices : sent.calls[i] \in 0 .. Len(Streamed.calls[i])
    <3> TAKE i \in Indices
    <3>1. sent.calls[i] \in Nat /\ sent.calls[i] <= Len(Streamed.calls[i])
      BY <2>1, <2>2 DEF CallTypes
    <3>2. Len(Streamed.calls[i]) \in Nat
      BY <2>1, AnswerIsGiven, AnswerType DEF CallTypes, Indices
    <3> QED BY <3>1, <3>2
  <2>4. result.kind \in {"none", "answer", "error", "raised"}
    BY <2>1 DEF CallTypes
  <2> QED BY <2>1, <2>2, <2>3, <2>4 DEF CallTypes, CallTypeOK
<1>2. CallSpec => []CallInv
  BY WholeCallInv
<1> QED BY <1>1, <1>2, PTL

\* Whatever broke before, an answer received to its end is whole: the words the model
\* gave are the last of the text, and each call has the arguments the model gave it.
THEOREM AnswersAreWhole == CallSpec => []AnswerIsWhole
<1> USE TextsHold
<1>1. CallInv => AnswerIsWhole
  <2> SUFFICES ASSUME CallInv, result.kind = "answer", ~result.cut
               PROVE  /\ Streamed.words <= Len(text)
                      /\ \A k \in 1 .. Streamed.words :
                           text[Len(text) + 1 - k] = Attempt
                      /\ \A i \in Indices : ToolCalls[i] = Streamed.calls[i]
    BY Zenon DEF AnswerIsWhole
  <2>1. AllSent
    BY DEF CallInv, Whole
  <2>2. /\ Streamed.words <= Len(text)
        /\ \A k \in 1 .. Streamed.words : text[Len(text) + 1 - k] = Attempt
    BY <2>1 DEF AllSent, CallInv, Gathered
  <2>3. ASSUME NEW i \in Indices
        PROVE  ToolCalls[i] = Streamed.calls[i]
    <3>1. /\ i \in DOMAIN gathered
          /\ gathered[i] = SubSeq(Streamed.calls[i], 1, Len(Streamed.calls[i]))
      BY <2>1 DEF AllSent, CallInv, Gathered, UpTo
    <3>2. Streamed.calls[i] \in Seq(Token) /\ Loads(Streamed.calls[i])
      BY AnswerIsGiven, AnswerType DEF Indices, CallInv
    <3>3. gathered[i] = Streamed.calls[i]
      BY <3>1, <3>2
    <3>4. ToolCalls[i] = Arguments(gathered[i])
      BY <3>1 DEF ToolCalls
    <3> QED BY <3>2, <3>3, <3>4, JsonIsKept
  <2> QED BY <2>2, <2>3
<1>2. CallSpec => []CallInv
  BY WholeCallInv
<1> QED BY <1>1, <1>2, PTL

\* The text is one of a JSON object.
Braced(w) == w[1] = "{"

\* No arguments at all are what an object says before its first member.
LEMMA EmptyIsCut ==
    ASSUME NEW w \in Seq(Token), Loads(w), Braced(w)
    PROVE  Truncated(<<"{", "}">>, w)
<1>1. w # <<>>
  BY NoTextIsNoJson, Zenon
<1>2. 1 \in 0 .. Len(w) /\ 1 \in 1 .. Len(w) /\ 1 \in 1 .. 1
  <2>1. Len(w) \in Nat /\ Len(w) # 0
    BY <1>1, EmptySeq
  <2> QED BY <2>1
<1> DEFINE s == UpTo(w, 1)
           t == w[1]
           c == Closer(t)
<1>3. s \in Seq(Token) /\ Len(s) = 1 /\ s[1] = t
  BY <1>2, UpToType
<1>4. t = "{" /\ t \in Opening /\ t \in Token
  BY Zenon DEF Braced, Opening, Token
<1>5. c = "}"
  BY <1>4 DEF Closer
<1>6. t = "{"
  BY <1>4
<1> HIDE DEF s, t, c
<1>7. s = Append(<<>>, t)
  BY <1>3
<1>8. <<>> \in Seq(Token) /\ <<>> \in Seq(Opening) /\ Closers(<<>>) = <<>>
  BY DEF Closers
<1>9. Read(s) = Accept(Begin, t)
  BY <1>4, <1>7, <1>8, ReadAppend
<1> DEFINE r == Begin
           a == Accept(r, t)
<1>10. r \in AcceptorStates /\ r.want = "value" /\ r.open = <<>>
  BY ReadBase DEF Begin
<1> HIDE DEF r
<1>11. a.want = "member"
  BY <1>6, <1>10 DEF Accept, Opens, AcceptorStates
<1>12. a.open = Append(<<>>, t)
  <2>1. r.want \in Outside /\ a.want # "nothing"
    BY <1>10, <1>11 DEF Outside
  <2> HIDE DEF a
  <2>2. a.open = Append(r.open, t)
    BY <1>4, <1>10, <2>1, ReadOutside DEF a
  <2> QED BY <1>10, <2>2
<1> HIDE DEF a
<1>13. Closers(a.open) = Append(<<>>, c)
  <2>1. Closers(Append(<<>>, t)) = Append(Closers(<<>>), Closer(t))
    BY <1>4, <1>8, ClosersOf
  <2> QED BY <1>8, <1>12, <2>1 DEF c
<1>14. Reverse(Append(<<>>, c)) = <<c>>
  BY DEF Reverse
<1>15. Closed(s) = s \o <<c>>
  <2>1. Read(s) = a
    BY <1>9 DEF a, r
  <2> QED BY <1>11, <1>13, <1>14, <2>1, ClosedOf
<1>16. Closed(s) = <<t, c>>
  <2> DEFINE e == <<c>>
             b == s \o e
  <2>1. e \in Seq({t, c}) /\ Len(e) = 1 /\ e[1] = c
    OBVIOUS
  <2>2. s \in Seq({t, c})
    <3> DEFINE S == {t, c}
    <3>1. <<>> \in Seq(S) /\ t \in S
      OBVIOUS
    <3> HIDE DEF S
    <3>2. Append(<<>>, t) \in Seq(S)
      BY <3>1, AppendProperties
    <3> QED BY <1>7, <3>2 DEF S
  <2> HIDE DEF e
  <2>3. /\ b \in Seq({t, c}) /\ Len(b) = 2
        /\ \A i \in 1 .. 2 : b[i] = IF i <= 1 THEN s[i] ELSE e[i - 1]
    <3> DEFINE S == {t, c}
    <3>1. s \in Seq(S) /\ e \in Seq(S) /\ Len(s) = 1 /\ Len(e) = 1
      BY <1>3, <2>1, <2>2
    <3> HIDE DEF S
    <3>2. /\ b \in Seq(S) /\ Len(b) = Len(s) + Len(e)
          /\ \A i \in 1 .. Len(s) + Len(e) : b[i] = IF i <= Len(s) THEN s[i] ELSE e[i - Len(s)]
      BY <3>1, ConcatProperties
    <3> HIDE DEF b
    <3>3. Len(s) + Len(e) = 2
      BY <3>1
    <3> QED BY <3>1, <3>2, <3>3 DEF S
  <2> HIDE DEF b
  <2>4. b[1] = t /\ b[2] = c
    BY <1>3, <2>1, <2>3
  <2>5. b = <<t, c>>
    BY <2>3, <2>4
  <2> QED BY <1>15, <2>5 DEF b, e
<1>17. Truncated(<<t, c>>, w)
  BY <1>2, <1>16 DEF Truncated, s
<1> QED BY <1>5, <1>6, <1>17, Zenon

\* Whatever attempts broke and wherever the last one was cut off, arguments that are not
\* given up are what one attempt said up to some place, closed there: no repair invents
\* or reorders, and no call mixes two attempts or two calls.
THEOREM RepairsOnlyTruncate == CallSpec => []RepairsAreTruncations
<1> USE TextsHold
<1>1. CallInv => RepairsAreTruncations
  <2> SUFFICES ASSUME CallInv, result.kind = "answer", NEW i \in DOMAIN gathered,
                      ToolCalls[i] # <<>>
               PROVE  \E n \in 1 .. Attempt :
                        /\ i \in DOMAIN answers[n].calls
                        /\ ToolCalls[i] \in Truncations(answers[n].calls[i])
    BY Zenon DEF RepairsAreTruncations
  <2>1. ToolCalls[i] = Arguments(gathered[i])
    BY DEF ToolCalls
  <2>2. PICK n \in 1 .. Attempt :
          /\ i \in DOMAIN answers[n].calls
          /\ \E k \in 0 .. Len(answers[n].calls[i]) :
               gathered[i] = UpTo(answers[n].calls[i], k)
    BY DEF CallInv, LeftOver
  <2> DEFINE w == answers[n].calls[i]
  <2>3. w \in Seq(Token) /\ Loads(w) /\ Braced(w)
    <3>1. answers[n] \in Answers
      BY DEF CallInv, CallTypes, Attempt
    <3> QED BY <2>2, <3>1, AnswerType DEF Texts, ArgumentsAreJson, Braced
  <2>4. PICK k \in 0 .. Len(w) : gathered[i] = UpTo(w, k)
    BY <2>2
  <2> HIDE DEF w
  <2>5. Truncated(Arguments(gathered[i]), w)
    <3>1. CASE gathered[i] = <<>>
      BY <2>3, <3>1, EmptyIsCut DEF Arguments
    <3>2. CASE gathered[i] # <<>>
      <4>1. Arguments(gathered[i]) = RepairJson(UpTo(w, k))
        BY <2>4, <3>2 DEF Arguments
      <4> QED BY <2>1, <2>3, <2>4, <3>2, <4>1, RepairTruncates
    <3> QED BY <3>1, <3>2
  <2>6. Arguments(gathered[i]) \in Truncations(w)
    BY <2>5 DEF Truncated, Truncations
  <2> QED BY <2>1, <2>2, <2>6 DEF w
<1>2. CallSpec => []CallInv
  BY WholeCallInv
<1> QED BY <1>1, <1>2, PTL

-----------------------------------------------------------------------------
(* Conversation: a part of a list.                                         *)

\* f gives the places in list that the elements of some are from.
Chooses(f, some, list, places) ==
    /\ f \in [1 .. Len(some) -> places]
    /\ \A i \in 1 .. Len(some) : some[i] = list[f[i]]
    /\ \A i, j \in 1 .. Len(some) : i < j => f[i] < f[j]
    /\ \A p \in places : \E i \in 1 .. Len(some) : f[i] = p

\* Of an empty list, nothing.
LEMMA ChoosesNone ==
    ASSUME NEW list
    PROVE  \E f : Chooses(f, <<>>, list, {})
<1> DEFINE f == [i \in 1 .. 0 |-> i]
<1>1. Len(<<>>) = 0 /\ 1 .. 0 = {}
  OBVIOUS
<1>2. f \in [1 .. 0 -> {}]
  BY <1>1
<1> HIDE DEF f
<1>3. Chooses(f, <<>>, list, {})
  BY <1>1, <1>2 DEF Chooses
<1> QED BY <1>3

\* One place more.
LEMMA ChoosesNext ==
    ASSUME NEW S, NEW some \in Seq(S), NEW list \in Seq(S), NEW m \in Nat,
           m + 1 \in 1 .. Len(list), NEW places \in SUBSET (1 .. m),
           \E f : Chooses(f, some, list, places)
    PROVE  \E f : Chooses(f, Append(some, list[m + 1]), list, places \cup {m + 1})
<1>1. PICK f : Chooses(f, some, list, places)
  OBVIOUS
<1> DEFINE n == Len(some)
           more == Append(some, list[m + 1])
           g == [i \in 1 .. n + 1 |-> IF i = n + 1 THEN m + 1 ELSE f[i]]
<1>2. /\ n \in Nat /\ list[m + 1] \in S
  OBVIOUS
<1>3. /\ more \in Seq(S) /\ Len(more) = n + 1 /\ more[n + 1] = list[m + 1]
      /\ \A i \in 1 .. n : more[i] = some[i]
  BY <1>2, AppendProperties
<1>4. /\ f \in [1 .. n -> places]
      /\ \A i \in 1 .. n : some[i] = list[f[i]]
      /\ \A i, j \in 1 .. n : i < j => f[i] < f[j]
      /\ \A p \in places : \E i \in 1 .. n : f[i] = p
  BY <1>1 DEF Chooses
<1>5. \A i \in 1 .. n : f[i] \in 1 .. m /\ i # n + 1 /\ i \in 1 .. n + 1
  <2> TAKE i \in 1 .. n
  <2>1. f[i] \in places
    BY <1>4
  <2>2. i # n + 1 /\ i \in 1 .. n + 1
    BY <1>2
  <2> QED BY <2>1, <2>2
<1> HIDE DEF more, n
<1>6. g \in [1 .. n + 1 -> places \cup {m + 1}]
  <2>1. \A i \in 1 .. n + 1 : i # n + 1 => f[i] \in places
    BY <1>2, <1>4
  <2> QED BY <2>1
<1>7. \A i \in 1 .. n + 1 : g[i] = IF i = n + 1 THEN m + 1 ELSE f[i]
  OBVIOUS
<1> HIDE DEF g
<1>8. \A i \in 1 .. n + 1 : i = n + 1 \/ i \in 1 .. n
  BY <1>2
<1>9. \A i \in 1 .. n + 1 : more[i] = list[g[i]]
  BY <1>3, <1>4, <1>5, <1>7, <1>8
<1>10. ASSUME NEW i \in 1 .. n + 1, NEW j \in 1 .. n + 1, i < j
       PROVE  g[i] < g[j]
  <2>1. i \in 1 .. n /\ g[i] = f[i] /\ f[i] \in 1 .. m
    BY <1>2, <1>5, <1>7, <1>10
  <2>2. CASE j = n + 1
    BY <2>1, <2>2, <1>7
  <2>3. CASE j \in 1 .. n
    <3>1. g[j] = f[j] /\ f[i] < f[j]
      BY <1>4, <1>5, <1>7, <1>10, <2>1, <2>3
    <3> QED BY <2>1, <3>1
  <2> QED BY <1>8, <2>2, <2>3
<1>11. ASSUME NEW p \in places \cup {m + 1}
       PROVE  \E i \in 1 .. n + 1 : g[i] = p
  <2>1. CASE p = m + 1
    <3>1. n + 1 \in 1 .. n + 1
      BY <1>2
    <3> QED BY <2>1, <3>1, <1>7
  <2>2. CASE p \in places
    BY <2>2, <1>4, <1>5, <1>7
  <2> QED BY <2>1, <2>2
<1>12. Chooses(g, more, list, places \cup {m + 1})
  BY <1>3, <1>6, <1>9, <1>10, <1>11 DEF Chooses
<1> QED BY <1>12 DEF more

\* The elements at some places: those and no others, in the order of the places.
LEMMA AtIs ==
    ASSUME NEW S, NEW list \in Seq(S), NEW places \in SUBSET DOMAIN list
    PROVE  /\ At(list, places) \in Seq(S)
           /\ \E f : Chooses(f, At(list, places), list, places)
<1> DEFINE N == Len(list)
           V == Seq(S)
           r == [i \in DOMAIN list |-> i]
           none == <<>>
           Take(some, k) == IF k \in places THEN Append(some, list[k]) ELSE some
           F == [p \in V \X (1 .. N) |-> Take(p[1], p[2])]
           Body(f) == [D \in SUBSET (DOMAIN r) |->
                         IF D = {} THEN none
                         ELSE LET x == Max(D) IN Take(f[D \ {x}], r[x])]
           c == CHOOSE f : f = Body(f)
<1>1. At(list, places) = c[DOMAIN r]
  BY Zenon DEF At, FoldLeftDomain, FoldLeft, MapThenFoldSet
<1>2. N \in Nat /\ r \in [1 .. N -> 1 .. N] /\ DOMAIN r = 1 .. N /\ \A i \in 1 .. N : r[i] = i
  OBVIOUS
<1>3. none \in V
  OBVIOUS
<1>4. ASSUME NEW some \in V, NEW k \in 1 .. N
      PROVE  Take(some, k) \in V
  <2>1. list[k] \in S
    OBVIOUS
  <2> QED BY <2>1, AppendProperties
<1>5. F \in [V \X (1 .. N) -> V]
  <2> HIDE DEF V, Take
  <2> QED BY <1>4
<1>14. places \in SUBSET (1 .. N) /\ list \in Seq(S) /\ Len(list) = N
  OBVIOUS
<1> HIDE DEF N, V, r, c, none
<1>6. c = Body(c)
  <2> HIDE DEF Take
  <2>1. PICK g \in [SUBSET (1 .. N) -> V] : IsFold(g, F, none, r, N)
    <3> HIDE DEF F
    <3>1. N \in Nat /\ r \in [1 .. N -> 1 .. N]
      BY <1>2
    <3> QED BY <1>3, <1>5, <3>1, FoldExists, Zenon
  <2>2. ASSUME NEW D \in SUBSET (DOMAIN r)
        PROVE  g[D] = IF D = {} THEN none ELSE Take(g[D \ {Max(D)}], r[Max(D)])
    <3>1. Max(D) = Greatest(D)
      BY Zenon DEF Max, Greatest
    <3>2. g[D] = IF D = {} THEN none ELSE F[<<g[D \ {Max(D)}], r[Max(D)]>>]
      BY <2>1, <1>2, <3>1, Zenon DEF IsFold
    <3>3. CASE D # {}
      <4>1. Max(D) \in DOMAIN r
        BY <1>2, <3>1, <3>3, GreatestIn
      <4>2. g[D \ {Max(D)}] \in V /\ r[Max(D)] \in 1 .. N
        BY <4>1, <1>2
      <4> QED BY <3>2, <3>3, <4>2
    <3> QED BY <3>2, <3>3
  <2>3. g = Body(g)
    <3>1. Body(g) = [D \in SUBSET (DOMAIN r) |-> g[D]]
      BY <2>2
    <3>2. g = [D \in SUBSET (DOMAIN r) |-> g[D]]
      BY <1>2
    <3> HIDE DEF Body
    <3> QED BY <3>1, <3>2
  <2> HIDE DEF Body
  <2> QED BY <2>3 DEF c
<1>7. c[{}] = none
  BY <1>6
<1>8. ASSUME NEW m \in 0 .. N - 1
      PROVE  c[1 .. m + 1] = Take(c[1 .. m], m + 1)
  <2> HIDE DEF Take, F
  <2>1. Max(1 .. m + 1) = m + 1
    <3>1. m + 1 \in 1 .. m + 1 /\ \A y \in 1 .. m + 1 : y \in Int /\ m + 1 >= y
      OBVIOUS
    <3>2. Greatest(1 .. m + 1) = m + 1
      BY <3>1, GreatestOf
    <3> QED BY <3>2, Zenon DEF Max, Greatest
  <2>2. /\ (1 .. m + 1) \ {m + 1} = 1 .. m /\ 1 .. m + 1 # {}
        /\ 1 .. m + 1 \in SUBSET (DOMAIN r) /\ r[m + 1] = m + 1
    <3>1. m \in Nat /\ m + 1 \in 1 .. N
      BY <1>2
    <3>2. (1 .. m + 1) \ {m + 1} = 1 .. m
      BY <3>1
    <3>3. 1 .. m + 1 # {} /\ 1 .. m + 1 \in SUBSET (DOMAIN r)
      <4>1. m + 1 \in 1 .. m + 1
        BY <3>1
      <4>2. \A i \in 1 .. m + 1 : i \in 1 .. N
        BY <3>1, <1>2
      <4> QED BY <4>1, <4>2, <1>2
    <3> QED BY <3>1, <3>2, <3>3, <1>2
  <2> QED BY <1>6, <2>1, <2>2
<1> DEFINE Good(m) == m <= N =>
                        /\ c[1 .. m] \in Seq(S)
                        /\ \E f : Chooses(f, c[1 .. m], list, places \cap (1 .. m))
           P == {m \in Nat : Good(m)}
<1>9. 0 \in P
  <2>1. 1 .. 0 = {} /\ places \cap {} = {}
    OBVIOUS
  <2> QED BY <1>3, <1>7, <2>1, ChoosesNone DEF V, none
<1>10. ASSUME NEW m \in Nat, m \in P PROVE m + 1 \in P
  <2>1. Good(m) /\ m + 1 \in Nat
    <3> HIDE DEF Good
    <3> QED BY <1>10
  <2>2. ASSUME m + 1 <= N
        PROVE  /\ c[1 .. m + 1] \in Seq(S)
               /\ \E f : Chooses(f, c[1 .. m + 1], list, places \cap (1 .. m + 1))
    <3>1. m <= N /\ m \in 0 .. N - 1 /\ m + 1 \in 1 .. N
      BY <1>2, <2>2
    <3>2. c[1 .. m] \in Seq(S) /\ \E f : Chooses(f, c[1 .. m], list, places \cap (1 .. m))
      BY <2>1, <3>1
    <3>3. CASE m + 1 \in places
      <4>1. c[1 .. m + 1] = Append(c[1 .. m], list[m + 1])
        BY <1>8, <3>1, <3>3
      <4>2. places \cap (1 .. m + 1) = (places \cap (1 .. m)) \cup {m + 1}
        BY <3>1, <3>3
      <4>3. list[m + 1] \in S
        BY <1>14, <3>1
      <4>4. \E f : Chooses(f, Append(c[1 .. m], list[m + 1]), list,
                           (places \cap (1 .. m)) \cup {m + 1})
        <5> DEFINE some == c[1 .. m]
                   some1 == places \cap (1 .. m)
        <5>1. some \in Seq(S) /\ \E f : Chooses(f, some, list, some1)
          BY <3>2
        <5>2. some1 \in SUBSET (1 .. m)
          OBVIOUS
        <5> HIDE DEF some, some1
        <5>3. \E f : Chooses(f, Append(some, list[m + 1]), list, some1 \cup {m + 1})
          BY <1>14, <3>1, <5>1, <5>2, ChoosesNext
        <5> QED BY <5>3 DEF some, some1
      <4>5. Append(c[1 .. m], list[m + 1]) \in Seq(S)
        BY <3>2, <4>3, AppendProperties
      <4> QED BY <4>1, <4>2, <4>4, <4>5
    <3>4. CASE m + 1 \notin places
      <4>1. c[1 .. m + 1] = c[1 .. m]
        BY <1>8, <3>1, <3>4
      <4>2. places \cap (1 .. m + 1) = places \cap (1 .. m)
        BY <3>1, <3>4
      <4> QED BY <3>2, <4>1, <4>2
    <3> QED BY <3>3, <3>4
  <2> QED BY <2>1, <2>2
<1>11. P = Nat
  <2>1. P \in SUBSET Nat
    OBVIOUS
  <2> HIDE DEF P
  <2> QED BY <1>9, <1>10, <2>1, Induct
<1>12. Good(N)
  <2> HIDE DEF Good
  <2> QED BY <1>2, <1>11
<1>13. N <= N /\ places \cap (1 .. N) = places
  BY <1>2, <1>14
<1> QED BY <1>1, <1>2, <1>12, <1>13

\* The places in a list of what the user and the model said.
Voices(list) == {k \in DOMAIN list : Spoken(list[k])}

\* The spoken part of b is a part of a's, in its order.
Thins(f, b, a) ==
    /\ f \in [Voices(b) -> Voices(a)]
    /\ \A i \in Voices(b) : b[i] = a[f[i]]
    /\ \A i, j \in Voices(b) : i < j => f[i] < f[j]

Thin(b, a) == \E f : Thins(f, b, a)

\* There are finitely many, no more than the list is long.
LEMMA VoicesOf ==
    ASSUME NEW S, NEW list \in Seq(S)
    PROVE  /\ Voices(list) \subseteq 1 .. Len(list) /\ IsFiniteSet(Voices(list))
           /\ Cardinality(Voices(list)) \in Nat /\ Cardinality(Voices(list)) <= Len(list)
<1>1. Len(list) \in Nat /\ DOMAIN list = 1 .. Len(list)
  OBVIOUS
<1>2. Voices(list) \in SUBSET (1 .. Len(list))
  BY <1>1 DEF Voices
<1>3. IsFiniteSet(1 .. Len(list)) /\ Cardinality(1 .. Len(list)) = Len(list)
  <2> DEFINE n == Len(list)
  <2>1. n \in Nat /\ 1 \in Int /\ n \in Int
    BY <1>1
  <2> HIDE DEF n
  <2>2. IsFiniteSet(1 .. n) /\ Cardinality(1 .. n) = IF 1 > n THEN 0 ELSE n - 1 + 1
    BY <2>1, FS_Interval
  <2>3. Cardinality(1 .. n) = n
    BY <2>1, <2>2
  <2> QED BY <2>2, <2>3 DEF n
<1>4. IsFiniteSet(Voices(list)) /\ Cardinality(Voices(list)) <= Cardinality(1 .. Len(list))
  BY <1>2, <1>3, FS_Subset
<1>5. Cardinality(Voices(list)) \in Nat
  BY <1>4, FS_CardinalityType
<1> QED BY <1>2, <1>3, <1>4, <1>5

\* A part is no larger.
LEMMA ThinCount ==
    ASSUME NEW S, NEW a \in Seq(S), NEW b \in Seq(S), Thin(b, a)
    PROVE  Cardinality(Voices(b)) <= Cardinality(Voices(a))
<1>1. PICK f : Thins(f, b, a)
  BY DEF Thin
<1>2. IsFiniteSet(Voices(a)) /\ Voices(b) \subseteq 1 .. Len(b) /\ Voices(a) \subseteq 1 .. Len(a)
  BY VoicesOf
<1>3. ASSUME NEW i \in Voices(b), NEW j \in Voices(b), f[i] = f[j]
      PROVE  i = j
  <2>1. i \in Nat /\ j \in Nat
    BY <1>2
  <2>2. f[i] \in Nat /\ f[j] \in Nat
    BY <1>1, <1>2 DEF Thins
  <2>3. (i < j => f[i] < f[j]) /\ (j < i => f[j] < f[i])
    BY <1>1 DEF Thins
  <2> QED BY <1>3, <2>1, <2>2, <2>3
<1>4. f \in Injection(Voices(b), Voices(a))
  BY <1>1, <1>3 DEF Thins, Injection, IsInjective
<1> QED BY <1>2, <1>4, FS_Injection

\* A part of a part is a part, and so is the whole.
LEMMA ThinThin ==
    ASSUME NEW a, NEW b, NEW c, Thin(b, a), Thin(c, b)
    PROVE  Thin(c, a)
<1>1. PICK f : Thins(f, b, a)
  BY DEF Thin
<1>2. PICK g : Thins(g, c, b)
  BY DEF Thin
<1> DEFINE h == [i \in Voices(c) |-> f[g[i]]]
<1>3. \A i \in Voices(c) : g[i] \in Voices(b) /\ f[g[i]] \in Voices(a) /\ h[i] = f[g[i]]
  BY <1>1, <1>2 DEF Thins
<1>4. h \in [Voices(c) -> Voices(a)]
  BY <1>3
<1> HIDE DEF h
<1>5. \A i \in Voices(c) : c[i] = a[h[i]]
  BY <1>1, <1>2, <1>3 DEF Thins
<1>6. \A i, j \in Voices(c) : i < j => h[i] < h[j]
  BY <1>1, <1>2, <1>3 DEF Thins
<1>7. Thins(h, c, a)
  BY <1>4, <1>5, <1>6 DEF Thins
<1> QED BY <1>7 DEF Thin

LEMMA ThinSame ==
    ASSUME NEW a
    PROVE  Thin(a, a)
<1> DEFINE f == [i \in Voices(a) |-> i]
<1>1. Thins(f, a, a)
  BY DEF Thins
<1> HIDE DEF f
<1> QED BY <1>1 DEF Thin

\* What is chosen from a list is a part of it.
LEMMA ChosenThin ==
    ASSUME NEW S, NEW a \in Seq(S), NEW places \in SUBSET DOMAIN a
    PROVE  At(a, places) \in Seq(S) /\ Thin(At(a, places), a)
<1> DEFINE b == At(a, places)
<1>1. b \in Seq(S) /\ \E f : Chooses(f, b, a, places)
  BY AtIs
<1> HIDE DEF b
<1>2. PICK f : Chooses(f, b, a, places)
  BY <1>1
<1> DEFINE g == [i \in Voices(b) |-> f[i]]
<1>3. Voices(b) \subseteq 1 .. Len(b)
  BY <1>1, VoicesOf
<1>4. \A i \in Voices(b) : f[i] \in Voices(a) /\ b[i] = a[f[i]]
  BY <1>2, <1>3 DEF Chooses, Voices
<1>5. g \in [Voices(b) -> Voices(a)] /\ \A i \in Voices(b) : g[i] = f[i]
  BY <1>4
<1> HIDE DEF g
<1>6. \A i, j \in Voices(b) : i < j => g[i] < g[j]
  BY <1>2, <1>3, <1>5 DEF Chooses
<1>7. Thins(g, b, a)
  BY <1>4, <1>5, <1>6 DEF Thins
<1> QED BY <1>1, <1>7 DEF Thin, b

\* A list with its middle taken out.
LEMMA ShortenedIs ==
    ASSUME NEW S, NEW a \in Seq(S), NEW tail \in Nat, NEW what, HeadCount \in Nat,
           Is(what) \in S, ~Spoken(Is(what))
    PROVE  LET b == Shortened(a, tail, what)
           IN  /\ b \in Seq(S) /\ Thin(b, a)
               /\ Len(b) <= HeadCount + tail + 1
               /\ Cardinality(Voices(b)) <= HeadCount + tail
<1> DEFINE H == HeadCount
           L == Len(a)
           m == Is(what)
           b == Shortened(a, tail, what)
<1>0. L \in Nat /\ H \in Nat /\ m \in S /\ ~Spoken(m)
  OBVIOUS
<1>1. b = IF L <= H + tail THEN a
          ELSE Append(SubSeq(a, 1, H), m) \o SubSeq(a, L - tail + 1, L)
  BY Zenon DEF Shortened
<1> HIDE DEF H, L, m, b
<1>2. CASE L <= H + tail
  <2>1. b = a
    BY <1>1, <1>2
  <2>2. Cardinality(Voices(a)) \in Nat /\ Cardinality(Voices(a)) <= L
    BY VoicesOf DEF L
  <2>3. L <= H + tail + 1 /\ Cardinality(Voices(a)) <= H + tail
    BY <1>0, <1>2, <2>2
  <2>4. Thin(a, a)
    BY ThinSame
  <2> QED BY <2>1, <2>3, <2>4 DEF b, H, L
<1>3. CASE ~(L <= H + tail)
  <2> DEFINE x == SubSeq(a, 1, H)
             y == Append(x, m)
             z == SubSeq(a, L - tail + 1, L)
             d == L - tail - H - 1
  <2>1. /\ d \in Nat /\ 1 \in 1 .. L + 1 /\ H \in 0 .. L /\ 1 <= H + 1
        /\ L - tail + 1 \in 1 .. L + 1 /\ L \in 0 .. L /\ L - tail + 1 <= L + 1
    BY <1>0, <1>3
  <2>2. x \in Seq(S) /\ Len(x) = H /\ \A i \in 1 .. H : x[i] = a[i]
    BY <1>0, <2>1, SubSeqProperties DEF L
  <2>3. z \in Seq(S) /\ Len(z) = tail /\ \A i \in 1 .. tail : z[i] = a[i + L - tail]
    <3>1. /\ z \in Seq(S) /\ Len(z) = L - (L - tail + 1) + 1
          /\ \A i \in 1 .. L - (L - tail + 1) + 1 : z[i] = a[(L - tail + 1) + i - 1]
      BY <1>0, <2>1, SubSeqProperties DEF L
    <3>2. L - (L - tail + 1) + 1 = tail /\ \A i \in 1 .. tail : (L - tail + 1) + i - 1 = i + L - tail
      BY <1>0
    <3> HIDE DEF z
    <3> QED BY <3>1, <3>2
  <2> HIDE DEF x
  <2>4. y \in Seq(S) /\ Len(y) = H + 1 /\ y[H + 1] = m /\ \A i \in 1 .. H : y[i] = x[i]
    BY <1>0, <2>2, AppendProperties
  <2> HIDE DEF y, z
  <2>5. b = y \o z
    BY <1>1, <1>3 DEF x, y, z
  <2>6. /\ b \in Seq(S) /\ Len(b) = H + 1 + tail
        /\ \A i \in 1 .. H + 1 + tail : b[i] = IF i <= H + 1 THEN y[i] ELSE z[i - (H + 1)]
    <3>1. y \in Seq(S) /\ z \in Seq(S)
      BY <2>3, <2>4
    <3>2. /\ y \o z \in Seq(S) /\ Len(y \o z) = Len(y) + Len(z)
          /\ \A i \in 1 .. Len(y) + Len(z) :
               (y \o z)[i] = IF i <= Len(y) THEN y[i] ELSE z[i - Len(y)]
      BY <3>1, ConcatProperties
    <3> QED BY <2>3, <2>4, <2>5, <3>2
  <2> DEFINE f == [i \in Voices(b) |-> IF i <= H THEN i ELSE i + d]
  <2>7. Voices(b) \subseteq 1 .. H + 1 + tail
    BY <2>6, VoicesOf
  <2>8. ASSUME NEW i \in Voices(b)
        PROVE  /\ i # H + 1 /\ i \in Nat
               /\ f[i] \in 1 .. L /\ b[i] = a[f[i]]
    <3>1. i \in 1 .. H + 1 + tail /\ Spoken(b[i])
      BY <2>7 DEF Voices
    <3>2. CASE i <= H
      <4>1. i \in 1 .. H /\ i <= H + 1 /\ i # H + 1 /\ i \in 1 .. L
        BY <1>0, <1>3, <3>1, <3>2
      <4> QED BY <2>2, <2>4, <2>6, <3>1, <3>2, <4>1
    <3>3. CASE i = H + 1
      <4>1. b[i] = m
        BY <1>0, <2>4, <2>6, <3>1, <3>3
      <4> QED BY <1>0, <3>1, <4>1
    <3>4. CASE i > H + 1
      <4>1. i - (H + 1) \in 1 .. tail /\ ~(i <= H + 1) /\ ~(i <= H) /\ i # H + 1
        BY <1>0, <3>1, <3>4
      <4>2. i + d \in 1 .. L /\ (i - (H + 1)) + L - tail = i + d
        BY <1>0, <3>1, <3>4, <2>1
      <4>3. b[i] = z[i - (H + 1)] /\ z[i - (H + 1)] = a[i + d]
        BY <2>3, <2>6, <3>1, <4>1, <4>2
      <4> HIDE DEF d
      <4> QED BY <3>1, <4>1, <4>2, <4>3
    <3> QED BY <1>0, <3>1, <3>2, <3>3, <3>4
  <2>9. \A i \in Voices(b) : f[i] = IF i <= H THEN i ELSE i + d
    OBVIOUS
  <2> HIDE DEF f
  <2>10. \A i \in Voices(b) : f[i] \in Voices(a)
    <3> TAKE i \in Voices(b)
    <3>1. f[i] \in DOMAIN a /\ Spoken(a[f[i]])
      BY <2>8 DEF L, Voices
    <3> QED BY <3>1 DEF Voices
  <2>11. ASSUME NEW i \in Voices(b), NEW j \in Voices(b), i < j
         PROVE  f[i] < f[j]
    <3>1. i \in Nat /\ j \in Nat
      BY <2>8
    <3> HIDE DEF d
    <3> QED BY <1>0, <2>1, <2>9, <2>11, <3>1
  <2>12. Thins(f, b, a)
    <3>1. f \in [Voices(b) -> Voices(a)]
      BY <2>10 DEF f
    <3> QED BY <2>8, <2>11, <3>1 DEF Thins
  <2>13. Cardinality(Voices(b)) <= H + tail
    <3> DEFINE n == H + 1 + tail
               T == 1 .. n
    <3>1. n \in Nat /\ 1 \in Int /\ n \in Int /\ H + 1 \in T
      BY <1>0
    <3> HIDE DEF n
    <3>2. IsFiniteSet(T) /\ Cardinality(T) = IF 1 > n THEN 0 ELSE n - 1 + 1
      BY <3>1, FS_Interval
    <3>3. Cardinality(T) = n
      BY <3>1, <3>2
    <3> HIDE DEF T
    <3>4. IsFiniteSet(T \ {H + 1}) /\ Cardinality(T \ {H + 1}) = n - 1
      BY <3>1, <3>2, <3>3, FS_RemoveElement
    <3>5. Voices(b) \in SUBSET (T \ {H + 1})
      BY <2>7, <2>8 DEF T, n
    <3>6. Cardinality(Voices(b)) <= n - 1
      BY <3>4, <3>5, FS_Subset
    <3>7. n - 1 = H + tail
      BY <1>0 DEF n
    <3> QED BY <3>6, <3>7
  <2>14. Len(b) <= H + tail + 1
    BY <1>0, <2>6
  <2> QED BY <2>6, <2>12, <2>13, <2>14 DEF Thin, b, H
<1> QED BY <1>2, <1>3

Kinds == {"system_prompt", "user_memory", "permanent_memory", "skills", "memory_index",
          "token_budget", "hook_context", "tool_result", "note",
          "marker", "summary", "merged", "question", "answer"}
\* What a message can be.
Pieces == [turn : Nat, at : Nat, cut : BOOLEAN]
Messages == [is : Kinds, turn : Nat, says : SUBSET Pieces]

\* What a compaction puts in is none of what was said.
LEMMA Marks ==
    /\ \A what \in {"marker", "summary", "merged", "note"} :
         Is(what) \in Messages /\ ~Spoken(Is(what))
    /\ \A what \in Kinds : Is(what) \in Messages
<1>1. {} \in SUBSET Pieces
  OBVIOUS
<1>2. 0 \in Nat
  OBVIOUS
<1>3. ASSUME NEW what \in Kinds
      PROVE  Is(what) \in Messages /\ Is(what).is = what
  BY <1>1, <1>2 DEF Is, Messages
<1>4. ASSUME NEW what \in {"marker", "summary", "merged", "note"}
      PROVE  Is(what) \in Messages /\ ~Spoken(Is(what))
  <2>1. what \in Kinds /\ what # "question" /\ what # "answer"
    BY DEF Kinds
  <2> QED BY <1>3, <2>1 DEF Spoken
<1> QED BY <1>3, <1>4

\* There are as many elements as places.
LEMMA ChosenCount ==
    ASSUME NEW S, NEW a \in Seq(S), NEW places \in SUBSET DOMAIN a
    PROVE  IsFiniteSet(places) /\ Cardinality(places) = Len(At(a, places))
<1> DEFINE b == At(a, places)
           n == Len(b)
<1>1. b \in Seq(S) /\ \E f : Chooses(f, b, a, places)
  BY AtIs
<1>2. n \in Nat /\ 1 \in Int /\ n \in Int
  <2> HIDE DEF b
  <2> QED BY <1>1
<1>3. PICK f : Chooses(f, b, a, places)
  BY <1>1
<1>4. IsFiniteSet(places)
  <2> DEFINE l == Len(a)
  <2>1. l \in Nat /\ 1 \in Int /\ l \in Int /\ places \in SUBSET (1 .. l)
    OBVIOUS
  <2> HIDE DEF l
  <2>2. IsFiniteSet(1 .. l)
    BY <2>1, FS_Interval
  <2> QED BY <2>1, <2>2, FS_Subset
<1> HIDE DEF b
<1>5. /\ f \in [1 .. n -> places] /\ \A i, j \in 1 .. n : i < j => f[i] < f[j]
      /\ \A p \in places : \E i \in 1 .. n : f[i] = p
  BY <1>3 DEF Chooses
<1>6. \A p \in places : p \in Int
  OBVIOUS
<1> HIDE DEF n
<1>7. ASSUME NEW i \in 1 .. n, NEW j \in 1 .. n, f[i] = f[j]
      PROVE  i = j
  <2>1. f[i] \in Int /\ f[j] \in Int
    BY <1>5, <1>6
  <2>2. (i < j => f[i] < f[j]) /\ (j < i => f[j] < f[i])
    BY <1>5
  <2>3. i \in Int /\ j \in Int
    BY <1>2
  <2> QED BY <1>7, <2>1, <2>2, <2>3
<1>8. IsFiniteSet(1 .. n) /\ Cardinality(1 .. n) = n
  <2>1. IsFiniteSet(1 .. n) /\ Cardinality(1 .. n) = IF 1 > n THEN 0 ELSE n - 1 + 1
    BY <1>2, FS_Interval
  <2> QED BY <1>2, <2>1
<1> DEFINE T == 1 .. n
<1>9. f \in Injection(T, places) /\ f \in Surjection(T, places)
  BY <1>5, <1>7 DEF Injection, IsInjective, Surjection
<1> HIDE DEF T
<1>10. Cardinality(T) = Cardinality(places)
  BY <1>4, <1>9, FS_Injection
<1> QED BY <1>4, <1>8, <1>10 DEF n, b, T

\* Something in front of a list, and behind it.
LEMMA PrefixThin ==
    ASSUME NEW S, NEW p \in Seq(S), NEW x \in Seq(S), Voices(p) = {}
    PROVE  p \o x \in Seq(S) /\ Len(p \o x) = Len(p) + Len(x) /\ Thin(p \o x, x)
<1> DEFINE b == p \o x
           n == Len(p)
           l == Len(x)
           f == [i \in Voices(b) |-> i - n]
<1>1. /\ b \in Seq(S) /\ Len(b) = n + l
      /\ \A i \in 1 .. n + l : b[i] = IF i <= n THEN p[i] ELSE x[i - n]
  BY ConcatProperties
<1>2. n \in Nat /\ l \in Nat /\ DOMAIN x = 1 .. l /\ DOMAIN p = 1 .. n
  OBVIOUS
<1>3. Voices(b) \subseteq 1 .. n + l
  <2> HIDE DEF b
  <2> QED BY <1>1, VoicesOf
<1> HIDE DEF b, n, l
<1>4. ASSUME NEW i \in Voices(b)
      PROVE  i \in Int /\ i - n \in Voices(x) /\ b[i] = x[i - n]
  <2>1. i \in 1 .. n + l /\ Spoken(b[i])
    BY <1>3 DEF Voices
  <2>2. CASE i <= n
    <3>1. i \in 1 .. n /\ b[i] = p[i]
      BY <1>1, <1>2, <2>1, <2>2
    <3>2. i \in Voices(p)
      BY <1>2, <2>1, <3>1 DEF Voices
    <3> QED BY <3>2
  <2>3. CASE ~(i <= n)
    <3>1. i - n \in 1 .. l /\ b[i] = x[i - n]
      BY <1>1, <1>2, <2>1, <2>3
    <3> QED BY <1>2, <2>1, <3>1 DEF Voices
  <2> QED BY <2>2, <2>3
<1>5. f \in [Voices(b) -> Voices(x)] /\ \A i \in Voices(b) : f[i] = i - n
  BY <1>4
<1> HIDE DEF f
<1>6. \A i, j \in Voices(b) : i < j => f[i] < f[j]
  BY <1>2, <1>4, <1>5
<1>7. Thins(f, b, x)
  BY <1>4, <1>5, <1>6 DEF Thins
<1>8. Thin(b, x)
  BY <1>7 DEF Thin
<1> QED BY <1>1, <1>8 DEF b, n, l

LEMMA SuffixThin ==
    ASSUME NEW S, NEW x \in Seq(S), NEW m \in S, ~Spoken(m)
    PROVE  Append(x, m) \in Seq(S) /\ Len(Append(x, m)) = Len(x) + 1 /\ Thin(Append(x, m), x)
<1> DEFINE b == Append(x, m)
           l == Len(x)
           f == [i \in Voices(b) |-> i]
<1>1. b \in Seq(S) /\ Len(b) = l + 1 /\ b[l + 1] = m /\ \A i \in 1 .. l : b[i] = x[i]
  BY AppendProperties
<1>2. l \in Nat /\ DOMAIN x = 1 .. l
  OBVIOUS
<1>3. Voices(b) \subseteq 1 .. l + 1
  <2> HIDE DEF b
  <2> QED BY <1>1, VoicesOf
<1> HIDE DEF b, l
<1>4. ASSUME NEW i \in Voices(b)
      PROVE  i \in Voices(x) /\ b[i] = x[i]
  <2>1. i \in 1 .. l + 1 /\ Spoken(b[i])
    BY <1>3 DEF Voices
  <2>2. i # l + 1
    BY <1>1, <2>1
  <2>3. i \in 1 .. l
    BY <1>2, <2>1, <2>2
  <2> QED BY <1>1, <1>2, <2>1, <2>3 DEF Voices
<1>5. Thins(f, b, x)
  BY <1>4 DEF Thins
<1> HIDE DEF f
<1>6. Thin(b, x)
  BY <1>5 DEF Thin
<1> QED BY <1>1, <1>6 DEF b, l

-----------------------------------------------------------------------------
(* Conversation: compaction.                                               *)

\* Summaries that are merged.
LEMMA ConsolidateIs ==
    ASSUME NEW a \in Seq(Messages), NEW tail \in Nat, HeadCount \in Nat,
           Len(a) <= HeadCount + tail + 1, Cardinality(Voices(a)) <= HeadCount + tail
    PROVE  LET b == Consolidate(a, tail)
           IN  /\ b \in Seq(Messages) /\ Thin(b, a)
               /\ Len(b) <= HeadCount + tail + 1
               /\ Cardinality(Voices(b)) <= HeadCount + tail
<1> DEFINE b == Consolidate(a, tail)
           U == {k \in DOMAIN a : a[k].is = "summary"}
           d == At(a, DOMAIN a \ U)
<1>1. Is("merged") \in Messages /\ ~Spoken(Is("merged"))
      /\ Is("marker") \in Messages /\ ~Spoken(Is("marker"))
  BY Marks
<1>4. b = IF Cardinality(U) <= 1 THEN Shortened(a, tail, "marker")
                                 ELSE Append(d, Is("merged"))
  BY Zenon DEF Consolidate, TrimMiddle
<1>5. DOMAIN a \ U \in SUBSET DOMAIN a /\ U \in SUBSET DOMAIN a
  OBVIOUS
<1> HIDE DEF U, b
<1>2. CASE Cardinality(U) <= 1
  <2>1. b = Shortened(a, tail, "marker")
    BY <1>2, <1>4
  <2> QED BY <1>1, <2>1, ShortenedIs DEF b
<1>3. CASE ~(Cardinality(U) <= 1)
  <2>1. b = Append(d, Is("merged"))
    BY <1>3, <1>4
  <2>3. d \in Seq(Messages) /\ Thin(d, a)
    BY <1>5, ChosenThin
  <2>4. Cardinality(DOMAIN a \ U) = Len(d)
    BY <1>5, ChosenCount
  <2>5. Len(d) <= Len(a) - 1
    <3> DEFINE n == Len(a)
               T == 1 .. n
    <3>1. n \in Nat /\ 1 \in Int /\ n \in Int
      OBVIOUS
    <3>2. T = DOMAIN a
      OBVIOUS
    <3>3. IsFiniteSet(T) /\ Cardinality(T) = n
      <4> HIDE DEF n
      <4>1. IsFiniteSet(1 .. n) /\ Cardinality(1 .. n) = IF 1 > n THEN 0 ELSE n - 1 + 1
        BY <3>1, FS_Interval
      <4> QED BY <3>1, <4>1
    <3>4. U \in SUBSET T
      BY <1>5, <3>2
    <3> HIDE DEF T, n, d
    <3>5. PICK x : x \in U
      <4>1. ASSUME U = {} PROVE FALSE
        <5>1. Cardinality({}) = 0
          BY FS_EmptySet
        <5>2. Cardinality(U) = 0
          BY <4>1, <5>1
        <5> QED BY <1>3, <5>2
      <4> QED BY <4>1
    <3>6. IsFiniteSet(T \ {x}) /\ Cardinality(T \ {x}) = n - 1
      BY <3>3, <3>4, <3>5, FS_RemoveElement
    <3>7. T \ U \in SUBSET (T \ {x})
      BY <3>5
    <3>8. Cardinality(T \ U) <= n - 1
      BY <3>6, <3>7, FS_Subset
    <3> QED BY <2>4, <3>2, <3>8 DEF n
  <2> HIDE DEF d
  <2>6. b \in Seq(Messages) /\ Len(b) = Len(d) + 1 /\ Thin(b, d)
    BY <1>1, <2>1, <2>3, SuffixThin
  <2>7. Thin(b, a)
    BY <2>3, <2>6, ThinThin
  <2>8. Cardinality(Voices(b)) <= Cardinality(Voices(a))
    BY <2>6, <2>7, ThinCount
  <2>9. Cardinality(Voices(b)) \in Nat /\ Cardinality(Voices(a)) \in Nat
    BY <2>6, VoicesOf
  <2>10. Len(d) \in Nat /\ Len(a) \in Nat
    BY <2>3
  <2>11. Len(b) <= HeadCount + tail + 1
    BY <2>5, <2>6, <2>10
  <2>12. Cardinality(Voices(b)) <= HeadCount + tail
    BY <2>8, <2>9
  <2> QED BY <2>6, <2>7, <2>11, <2>12 DEF b
<1> QED BY <1>2, <1>3

\* What a compaction leaves of the middle.
Middle(list, pressure, tail) ==
    LET trimmed == TrimMiddle(list, tail)
        summarized == SummarizeCore(trimmed, tail)
    IN  CASE pressure \in {"low", "trim"} -> trimmed
          [] pressure = "summarize" -> summarized
          [] pressure = "consolidate" -> Consolidate(summarized, tail)

\* However full the window is, what is left fits.
LEMMA MiddleIs ==
    ASSUME NEW a \in Seq(Messages), NEW pressure \in Pressures, NEW tail \in Nat,
           HeadCount \in Nat
    PROVE  LET b == Middle(a, pressure, tail)
           IN  /\ b \in Seq(Messages) /\ Thin(b, a)
               /\ Len(b) <= HeadCount + tail + 1
               /\ Cardinality(Voices(b)) <= HeadCount + tail
<1> DEFINE trimmed == TrimMiddle(a, tail)
           summarized == SummarizeCore(trimmed, tail)
           merged == Consolidate(summarized, tail)
           Small(b) == /\ b \in Seq(Messages) /\ Thin(b, a)
                       /\ Len(b) <= HeadCount + tail + 1
                       /\ Cardinality(Voices(b)) <= HeadCount + tail
<1>1. /\ Is("marker") \in Messages /\ ~Spoken(Is("marker"))
      /\ Is("summary") \in Messages /\ ~Spoken(Is("summary"))
  BY Marks
<1>2. Small(trimmed)
  <2>1. trimmed = Shortened(a, tail, "marker")
    BY DEF TrimMiddle
  <2> HIDE DEF trimmed
  <2> QED BY <1>1, <2>1, ShortenedIs
<1> HIDE DEF trimmed
<1>3. Small(summarized)
  <2>1. summarized = Shortened(trimmed, tail, "summary")
    BY DEF SummarizeCore
  <2> HIDE DEF summarized
  <2>2. trimmed \in Seq(Messages) /\ Thin(trimmed, a)
    BY <1>2
  <2>3. /\ summarized \in Seq(Messages) /\ Thin(summarized, trimmed)
        /\ Len(summarized) <= HeadCount + tail + 1
        /\ Cardinality(Voices(summarized)) <= HeadCount + tail
    BY <1>1, <2>1, <2>2, ShortenedIs
  <2>4. Thin(summarized, a)
    BY <2>2, <2>3, ThinThin
  <2> QED BY <2>3, <2>4
<1> HIDE DEF summarized
<1>4. Small(merged)
  <2>1. /\ merged \in Seq(Messages) /\ Thin(merged, summarized)
        /\ Len(merged) <= HeadCount + tail + 1
        /\ Cardinality(Voices(merged)) <= HeadCount + tail
    BY <1>3, ConsolidateIs
  <2>2. Thin(summarized, a)
    BY <1>3
  <2> HIDE DEF merged
  <2>3. Thin(merged, a)
    BY <2>1, <2>2, ThinThin
  <2> QED BY <2>1, <2>3
<1>5. Middle(a, pressure, tail) = CASE pressure \in {"low", "trim"} -> trimmed
                                    [] pressure = "summarize" -> summarized
                                    [] pressure = "consolidate" -> merged
  BY Zenon DEF Middle, trimmed, summarized
<1> HIDE DEF merged, Small
<1>6. Small(Middle(a, pressure, tail))
  <2>1. CASE pressure = "low" \/ pressure = "trim"
    BY <1>2, <1>5, <2>1
  <2>2. CASE pressure = "summarize"
    BY <1>3, <1>5, <2>2
  <2>3. CASE pressure = "consolidate"
    BY <1>4, <1>5, <2>3
  <2> QED BY <2>1, <2>2, <2>3 DEF Pressures
<1> QED BY <1>6 DEF Small

\* A compaction keeps a part of what was said, no larger than head and tail; if it leaves
\* a list as long as it was, that list was hardly longer.
LEMMA CompressIs ==
    ASSUME NEW list \in Seq(Messages), NEW pressure \in Pressures, NEW tail \in Nat,
           HeadCount \in Nat
    PROVE  LET b == Compress(list, pressure, tail)
           IN  /\ b \in Seq(Messages) /\ Thin(b, list)
               /\ Cardinality(Voices(b)) <= HeadCount + tail
               /\ Len(b) = Len(list) => Cardinality(Voices(list)) <= HeadCount + tail + 1
<1> DEFINE G == {k \in DOMAIN list : Protected(list[k])}
           D == DOMAIN list \ G
           p == At(list, G)
           d == At(list, D)
           x == Middle(d, pressure, tail)
           b == Compress(list, pressure, tail)
           n == Len(list)
           T == 1 .. n
<1>1. b = p \o x
  BY Zenon DEF Compress, Rebuilt, Middle
<1>2. G \in SUBSET DOMAIN list /\ D \in SUBSET DOMAIN list /\ T = DOMAIN list /\ n \in Nat
  OBVIOUS
<1>3. p \in Seq(Messages) /\ \E f : Chooses(f, p, list, G)
  BY <1>2, AtIs
<1>4. d \in Seq(Messages) /\ Thin(d, list) /\ Cardinality(D) = Len(d)
  BY <1>2, ChosenThin, ChosenCount
<1>5. IsFiniteSet(G) /\ Cardinality(G) = Len(p)
  BY <1>2, ChosenCount
<1>6. IsFiniteSet(T) /\ Cardinality(T) = n
  <2> HIDE DEF n
  <2>1. n \in Nat /\ 1 \in Int /\ n \in Int
    BY <1>2
  <2>2. IsFiniteSet(1 .. n) /\ Cardinality(1 .. n) = IF 1 > n THEN 0 ELSE n - 1 + 1
    BY <2>1, FS_Interval
  <2> QED BY <2>1, <2>2
<1>7. Voices(list) \in SUBSET D
  BY DEF Voices, Spoken, Protected
<1>8. \A k \in G : ~Spoken(list[k])
  BY DEF Spoken, Protected
<1> HIDE DEF G, p, d, x, b, n, T
<1>9. Voices(p) = {}
  <2>1. PICK f : Chooses(f, p, list, G)
    BY <1>3
  <2>2. ASSUME NEW i \in Voices(p)
        PROVE  FALSE
    <3>1. i \in 1 .. Len(p) /\ Spoken(p[i])
      BY <1>3 DEF Voices
    <3>2. p[i] = list[f[i]] /\ f[i] \in G
      BY <2>1, <3>1 DEF Chooses
    <3> QED BY <1>8, <3>1, <3>2
  <2> QED BY <2>2
<1>10. /\ x \in Seq(Messages) /\ Thin(x, d)
       /\ Len(x) <= HeadCount + tail + 1
       /\ Cardinality(Voices(x)) <= HeadCount + tail
  BY <1>4, MiddleIs DEF x
<1>11. b \in Seq(Messages) /\ Len(b) = Len(p) + Len(x) /\ Thin(b, x)
  BY <1>1, <1>3, <1>9, <1>10, PrefixThin
<1>12. Thin(b, list)
  <2>1. Thin(b, d)
    BY <1>10, <1>11, ThinThin
  <2> QED BY <2>1, <1>4, ThinThin
<1>13. Cardinality(Voices(b)) <= HeadCount + tail
  <2>1. Cardinality(Voices(b)) <= Cardinality(Voices(x))
    BY <1>10, <1>11, ThinCount
  <2>2. Cardinality(Voices(b)) \in Nat /\ Cardinality(Voices(x)) \in Nat
    BY <1>10, <1>11, VoicesOf
  <2> QED BY <1>10, <2>1, <2>2
<1>14. ASSUME Len(b) = n
       PROVE  Cardinality(Voices(list)) <= HeadCount + tail + 1
  <2>1. G \in SUBSET T /\ D = T \ G
    BY <1>2
  <2>2. IsFiniteSet(D) /\ Cardinality(D) = n - Cardinality(T \cap G)
    BY <1>6, <2>1, FS_Difference
  <2>3. T \cap G = G
    BY <2>1
  <2>4. Len(d) = n - Len(p)
    BY <1>4, <1>5, <2>2, <2>3
  <2>5. Cardinality(Voices(list)) <= Cardinality(D)
    <3> HIDE DEF D
    <3> QED BY <1>7, <2>2, FS_Subset
  <2>6. Len(d) \in Nat /\ Len(p) \in Nat /\ Len(x) \in Nat /\ Cardinality(Voices(list)) \in Nat
    <3>1. Cardinality(Voices(list)) \in Nat
      BY VoicesOf
    <3> QED BY <1>3, <1>4, <1>10, <3>1
  <2>7. Len(d) = Len(x)
    BY <1>2, <1>11, <1>14, <2>4, <2>6
  <2> HIDE DEF D
  <2>8. Cardinality(Voices(list)) <= Len(x)
    BY <1>4, <2>5, <2>7
  <2> QED BY <1>10, <2>6, <2>8
<1> QED BY <1>11, <1>12, <1>13, <1>14 DEF b, n

\* The kinds of messages are told apart no further than the model does.
LEMMA AsMessagesIs ==
    ASSUME NEW a \in Seq(Messages)
    PROVE  LET b == AsMessages(a)
           IN  b \in Seq(Messages) /\ Len(b) = Len(a) /\ Thin(b, a) /\ Voices(b) = Voices(a)
<1> DEFINE b == AsMessages(a)
           n == Len(a)
           Put(m) == m.is \in {"marker", "summary", "merged"}
<1>1. n \in Nat /\ DOMAIN a = 1 .. n /\ \A k \in 1 .. n : a[k] \in Messages
  OBVIOUS
<1>2. b = [k \in 1 .. n |-> IF Put(a[k]) THEN Is("note") ELSE a[k]]
  BY <1>1 DEF AsMessages
<1>3. Is("note") \in Messages /\ ~Spoken(Is("note"))
  BY Marks
<1>4. \A k \in 1 .. n : Put(a[k]) => ~Spoken(a[k])
  BY DEF Spoken
<1> HIDE DEF b, n, Put
<1>5. DOMAIN b = 1 .. n /\ \A k \in 1 .. n : b[k] = IF Put(a[k]) THEN Is("note") ELSE a[k]
  BY <1>2
<1>6. b \in Seq(Messages) /\ Len(b) = n
  <2>1. b \in [1 .. n -> Messages]
    BY <1>1, <1>2, <1>3
  <2> QED BY <1>1, <2>1
<1>7. Voices(b) = Voices(a) /\ \A k \in Voices(a) : b[k] = a[k]
  BY <1>1, <1>3, <1>4, <1>5 DEF Voices
<1> DEFINE f == [k \in Voices(b) |-> k]
<1>8. f \in [Voices(b) -> Voices(a)] /\ \A k \in Voices(b) : f[k] = k
  BY <1>7
<1> HIDE DEF f
<1>9. Thins(f, b, a)
  BY <1>7, <1>8 DEF Thins
<1>10. Thin(b, a)
  BY <1>9 DEF Thin
<1> QED BY <1>6, <1>7, <1>10 DEF b, n

\* How much is preserved at the end.
Behind(force) == IF force THEN ForcedRecent ELSE Recent

\* auto_compact.
LEMMA CompactedIs ==
    ASSUME SizesArePositive, msgs \in Seq(Messages),
           NEW pressure \in Pressures, NEW force \in BOOLEAN
    PROVE  LET b == Compacted(pressure, force)
           IN  /\ b \in Seq(Messages) /\ Thin(b, msgs)
               /\ force => Cardinality(Voices(b)) <= HeadCount + ForcedRecent
               /\ \/ b = msgs /\ ~force
                  \/ /\ Cardinality(Voices(b)) <= HeadCount + Behind(force)
                     /\ Len(b) = Len(msgs)
                          => Cardinality(Voices(msgs)) <= HeadCount + Behind(force) + 1
<1> DEFINE b == Compacted(pressure, force)
           t == Behind(force)
           c == Compress(msgs, pressure, t)
<1>1. b = IF pressure = "low" /\ ~force THEN msgs ELSE AsMessages(c)
  BY Zenon DEF Compacted, Behind
<1>2. t \in Nat /\ HeadCount \in Nat /\ (force => t = ForcedRecent)
  BY DEF Behind, SizesArePositive
<1> HIDE DEF b, t
<1>3. /\ c \in Seq(Messages) /\ Thin(c, msgs)
      /\ Cardinality(Voices(c)) <= HeadCount + t
      /\ Len(c) = Len(msgs) => Cardinality(Voices(msgs)) <= HeadCount + t + 1
  BY <1>2, CompressIs
<1> HIDE DEF c
<1>4. CASE pressure = "low" /\ ~force
  <2>1. b = msgs /\ ~force /\ Thin(msgs, msgs)
    BY <1>1, <1>4, ThinSame
  <2> QED BY <2>1 DEF b
<1>5. CASE ~(pressure = "low" /\ ~force)
  <2>1. b = AsMessages(c)
    BY <1>1, <1>5
  <2>2. b \in Seq(Messages) /\ Len(b) = Len(c) /\ Thin(b, c) /\ Voices(b) = Voices(c)
    BY <1>3, <2>1, AsMessagesIs
  <2>3. Thin(b, msgs)
    BY <1>3, <2>2, ThinThin
  <2>4. Cardinality(Voices(b)) <= HeadCount + t
    BY <1>3, <2>2
  <2>5. Len(b) = Len(msgs) => Cardinality(Voices(msgs)) <= HeadCount + t + 1
    BY <1>3, <2>2
  <2>6. force => Cardinality(Voices(b)) <= HeadCount + ForcedRecent
    BY <1>2, <2>4
  <2> QED BY <2>2, <2>3, <2>4, <2>5, <2>6 DEF b, t
<1> QED BY <1>4, <1>5

\* What a compaction does to the messages, and to the round it was last done in.
LEMMA CompactDoes ==
    ASSUME SizesArePositive, msgs \in Seq(Messages), NEW force \in BOOLEAN,
           NEW ifDone, NEW ifNot, Compact(force, ifDone, ifNot)
    PROVE  \/ /\ msgs' \in Seq(Messages) /\ Thin(msgs', msgs)
              /\ Cardinality(Voices(msgs')) <= HeadCount + Behind(force)
              /\ compressed' = Len(inputs) /\ place' = ifDone
           \/ /\ msgs' = msgs /\ compressed' = compressed /\ place' = ifNot
              /\ force => Cardinality(Voices(msgs)) <= HeadCount + Behind(force) + 1
<1>1. PICK pressure \in Pressures :
        \E different \in Different(Compacted(pressure, force)) :
          IF different
          THEN msgs' = Compacted(pressure, force) /\ compressed' = Len(inputs)
                 /\ place' = ifDone
          ELSE place' = ifNot /\ msgs' = msgs /\ compressed' = compressed
  BY DEF Compact, Round
<1> DEFINE b == Compacted(pressure, force)
<1>2. PICK different \in Different(b) :
        IF different
        THEN msgs' = b /\ compressed' = Len(inputs) /\ place' = ifDone
        ELSE place' = ifNot /\ msgs' = msgs /\ compressed' = compressed
  BY <1>1
<1>3. /\ b \in Seq(Messages) /\ Thin(b, msgs)
      /\ \/ b = msgs /\ ~force
         \/ /\ Cardinality(Voices(b)) <= HeadCount + Behind(force)
            /\ Len(b) = Len(msgs)
                 => Cardinality(Voices(msgs)) <= HeadCount + Behind(force) + 1
  BY CompactedIs
<1> HIDE DEF b
<1>4. CASE different
  <2>1. msgs' = b /\ compressed' = Len(inputs) /\ place' = ifDone
    BY <1>2, <1>4
  <2>2. b # msgs
    <3>1. ASSUME b = msgs PROVE FALSE
      <4>1. Different(b) = {FALSE}
        BY <3>1 DEF Different
      <4> QED BY <1>2, <1>4, <4>1
    <3> QED BY <3>1
  <2> QED BY <1>3, <2>1, <2>2
<1>5. CASE ~different
  <2>1. place' = ifNot /\ msgs' = msgs /\ compressed' = compressed
    BY <1>2, <1>5
  <2>2. Len(b) = Len(msgs)
    <3>1. ASSUME Len(b) # Len(msgs) PROVE FALSE
      <4>1. Different(b) = {TRUE}
        BY <3>1 DEF Different
      <4> QED BY <1>2, <1>5, <4>1
    <3> QED BY <3>1
  <2> QED BY <1>3, <2>1, <2>2
<1> QED BY <1>4, <1>5

-----------------------------------------------------------------------------
(* Conversation: the prompt, and types.                                    *)

\* Nothing the user or the model said in a is missing in b.
Keeps(b, a) == \A k \in Voices(a) : \E j \in Voices(b) : b[j] = a[k]

\* What is put in front of a list, or behind it, hides nothing of it.
LEMMA PrefixKeeps ==
    ASSUME NEW S, NEW p \in Seq(S), NEW x \in Seq(S)
    PROVE  Keeps(p \o x, x)
<1> DEFINE b == p \o x
           n == Len(p)
           l == Len(x)
<1>1. /\ b \in Seq(S) /\ Len(b) = n + l
      /\ \A i \in 1 .. n + l : b[i] = IF i <= n THEN p[i] ELSE x[i - n]
  BY ConcatProperties
<1>2. n \in Nat /\ l \in Nat /\ DOMAIN x = 1 .. l
  OBVIOUS
<1> HIDE DEF b, n, l
<1>3. ASSUME NEW k \in Voices(x)
      PROVE  \E j \in Voices(b) : b[j] = x[k]
  <2>1. k \in 1 .. l /\ Spoken(x[k])
    BY <1>2 DEF Voices
  <2>2. n + k \in 1 .. n + l /\ ~(n + k <= n) /\ n + k - n = k
    BY <1>2, <2>1
  <2> DEFINE j == n + k
  <2>3. j \in 1 .. n + l /\ ~(j <= n) /\ j - n = k
    BY <1>2, <2>1, <2>2
  <2> HIDE DEF j
  <2>4. b[j] = x[j - n]
    BY <1>1, <2>3
  <2>5. b[j] = x[k]
    BY <2>3, <2>4
  <2>6. j \in DOMAIN b
    BY <1>1, <1>2, <2>3
  <2> QED BY <2>1, <2>5, <2>6 DEF Voices
<1> QED BY <1>3 DEF Keeps, b

LEMMA SuffixKeeps ==
    ASSUME NEW S, NEW x \in Seq(S), NEW m \in S
    PROVE  Keeps(Append(x, m), x)
<1> DEFINE b == Append(x, m)
           l == Len(x)
<1>1. b \in Seq(S) /\ Len(b) = l + 1 /\ \A i \in 1 .. l : b[i] = x[i]
  BY AppendProperties
<1>2. l \in Nat /\ DOMAIN x = 1 .. l
  OBVIOUS
<1> HIDE DEF b, l
<1>3. ASSUME NEW k \in Voices(x)
      PROVE  k \in Voices(b) /\ b[k] = x[k]
  <2>1. k \in 1 .. l /\ Spoken(x[k])
    BY <1>2 DEF Voices
  <2>2. k \in DOMAIN b
    BY <1>1, <1>2, <2>1
  <2> QED BY <1>1, <2>1, <2>2 DEF Voices
<1> QED BY <1>3 DEF Keeps, b

\* Blocks that are none of what was said.
LEMMA NoVoicesIn ==
    ASSUME NEW x \in Seq(Messages), NEW y \in Seq(Messages), Voices(x) = {}, Voices(y) = {}
    PROVE  x \o y \in Seq(Messages) /\ Voices(x \o y) = {}
<1>1. x \o y \in Seq(Messages) /\ Thin(x \o y, y)
  BY PrefixThin
<1>2. PICK f : f \in [Voices(x \o y) -> {}]
  BY <1>1 DEF Thin, Thins
<1> QED BY <1>1, <1>2

LEMMA OneMark ==
    ASSUME NEW what \in Kinds, what # "question", what # "answer"
    PROVE  /\ <<Is(what)>> \in Seq(Messages) /\ Voices(<<Is(what)>>) = {}
           /\ Is(what) \in Messages /\ ~Spoken(Is(what))
<1> DEFINE m == Is(what)
<1>1. m \in Messages
  BY Marks
<1>2. m.is = what
  BY DEF Is
<1> HIDE DEF m
<1>3. ~Spoken(m)
  BY <1>2 DEF Spoken
<1>4. <<m>> \in Seq(Messages) /\ DOMAIN <<m>> = 1 .. 1 /\ <<m>>[1] = m
  BY <1>1
<1>5. Voices(<<m>>) = {}
  BY <1>3, <1>4 DEF Voices
<1> QED BY <1>1, <1>3, <1>4, <1>5 DEF m

LEMMA NoMark ==
    <<>> \in Seq(Messages) /\ Voices(<<>>) = {}
<1>1. <<>> \in Seq(Messages) /\ DOMAIN <<>> = {}
  OBVIOUS
<1> QED BY <1>1 DEF Voices

LEMMA BlocksAre ==
    Blocks \in Seq(Messages) /\ Voices(Blocks) = {}
<1> DEFINE Quiet(x) == x \in Seq(Messages) /\ Voices(x) = {}
           s == <<Is("system_prompt")>>
           u == MemoryBlock("user_memory")
           p == MemoryBlock("permanent_memory")
           k == <<Is("skills")>>
           i == MemoryBlock("memory_index")
<1>1. ASSUME NEW what \in {"user_memory", "permanent_memory", "memory_index"}
      PROVE  Quiet(MemoryBlock(what))
  <2>1. what \in Kinds /\ what # "question" /\ what # "answer"
    BY DEF Kinds
  <2>2. Quiet(<<Is(what)>>)
    BY <2>1, OneMark
  <2> QED BY <2>2, NoMark DEF MemoryBlock
<1>2. Quiet(u) /\ Quiet(p) /\ Quiet(i)
  <2> HIDE DEF Quiet
  <2> QED BY <1>1
<1>3. Quiet(s) /\ Quiet(k)
  <2>1. "system_prompt" \in Kinds /\ "system_prompt" # "question" /\ "system_prompt" # "answer"
    BY DEF Kinds
  <2>2. "skills" \in Kinds /\ "skills" # "question" /\ "skills" # "answer"
    BY DEF Kinds
  <2> QED BY <2>1, <2>2, OneMark
<1>4. Blocks = (((s \o u) \o p) \o k) \o i
  BY DEF Blocks
<1> HIDE DEF s, u, p, k, i
<1>5. Quiet(s \o u)
  BY <1>2, <1>3, NoVoicesIn
<1>6. Quiet((s \o u) \o p)
  BY <1>2, <1>5, NoVoicesIn
<1>7. Quiet(((s \o u) \o p) \o k)
  BY <1>3, <1>6, NoVoicesIn
<1>8. Quiet((((s \o u) \o p) \o k) \o i)
  BY <1>2, <1>7, NoVoicesIn
<1> QED BY <1>4, <1>8

\* The first message of the user or the model is never the one that is replaced, and
\* only empty answers are left out.
LEMMA AssembleIs ==
    ASSUME NEW a \in Seq(Messages), NEW contexts
    PROVE  LET b == Assemble(a, contexts)
           IN  /\ b \in Seq(Messages) /\ Thin(b, a)
               /\ \A k \in Voices(a) : a[k].is = "question" => \E j \in Voices(b) : b[j] = a[k]
<1> DEFINE first == SelectInSeq(a, LAMBDA m : ~Spoken(m))
           P == {k \in DOMAIN a \ {first} : a[k].is = "answer" => a[k].says # {}}
           kept == At(a, P)
           hooked == IF contexts = <<>> THEN <<>> ELSE <<Is("hook_context")>>
           x == Blocks \o kept
           y == x \o hooked
           end == Is("token_budget")
           b == Assemble(a, contexts)
           I == {i \in 1 .. Len(a) : ~Spoken(a[i])}
<1>1. b = Append(y, end)
  BY Zenon DEF Assemble, Finalized
<1>2. P \in SUBSET DOMAIN a
  OBVIOUS
<1>3. first \notin Voices(a)
  <2>1. first = IF I # {} THEN Min(I) ELSE 0
    BY Zenon DEF SelectInSeq
  <2>2. Voices(a) \subseteq 1 .. Len(a)
    BY VoicesOf
  <2>3. I \in SUBSET Nat /\ I \cap Voices(a) = {}
    BY DEF Voices
  <2> HIDE DEF I, first
  <2>4. CASE I = {}
    BY <2>1, <2>2, <2>4
  <2>5. CASE I # {}
    <3>1. \E m \in I : \A z \in I : m <= z
      BY <2>3, <2>5, LeastOf
    <3>2. Min(I) \in I
      BY <3>1 DEF Min
    <3> QED BY <2>1, <2>3, <2>5, <3>2
  <2> QED BY <2>4, <2>5
<1>4. \A k \in Voices(a) : a[k].is = "question" => k \in P
  <2> HIDE DEF first
  <2>1. \A k \in Voices(a) : k \in DOMAIN a /\ k # first
    BY <1>3 DEF Voices
  <2>2. \A m : m = "question" => m # "answer"
    OBVIOUS
  <2> QED BY <2>1, <2>2
<1> HIDE DEF P
<1>5. kept \in Seq(Messages) /\ Thin(kept, a) /\ \E f : Chooses(f, kept, a, P)
  BY <1>2, ChosenThin, AtIs
<1> HIDE DEF kept
<1>6. \A k \in Voices(a) : a[k].is = "question" => \E j \in Voices(kept) : kept[j] = a[k]
  <2>1. PICK f : Chooses(f, kept, a, P)
    BY <1>5
  <2> TAKE k \in Voices(a)
  <2> HAVE a[k].is = "question"
  <2>2. k \in P
    BY <1>4
  <2>3. PICK j \in 1 .. Len(kept) : f[j] = k
    BY <2>1, <2>2 DEF Chooses
  <2>4. kept[j] = a[k] /\ j \in DOMAIN kept /\ Spoken(a[k])
    BY <1>5, <2>1, <2>3 DEF Chooses, Voices
  <2> QED BY <2>4 DEF Voices
<1>7. x \in Seq(Messages) /\ Thin(x, kept) /\ Keeps(x, kept)
  <2>1. Blocks \in Seq(Messages) /\ Voices(Blocks) = {}
    BY BlocksAre
  <2> QED BY <1>5, <2>1, PrefixThin, PrefixKeeps
<1> HIDE DEF x
<1>8. y \in Seq(Messages) /\ Thin(y, x) /\ Keeps(y, x)
  <2>1. CASE contexts = <<>>
    <3>1. y = x
      BY <1>7, <2>1
    <3> HIDE DEF y
    <3> QED BY <1>7, <3>1, ThinSame DEF Keeps
  <2>2. CASE contexts # <<>>
    <3> DEFINE m == Is("hook_context")
    <3>1. m \in Messages /\ ~Spoken(m)
      <4>1. /\ "hook_context" \in Kinds
            /\ "hook_context" # "question" /\ "hook_context" # "answer"
        BY DEF Kinds
      <4> QED BY <4>1, OneMark
    <3>2. y = x \o <<m>>
      BY <2>2
    <3> HIDE DEF m, y
    <3>3. y = Append(x, m)
      BY <1>7, <3>1, <3>2, AppendIsConcat
    <3> QED BY <1>7, <3>1, <3>3, SuffixThin, SuffixKeeps
  <2> QED BY <2>1, <2>2
<1> HIDE DEF y
<1>9. end \in Messages /\ ~Spoken(end)
  <2>1. "token_budget" \in Kinds /\ "token_budget" # "question" /\ "token_budget" # "answer"
    BY DEF Kinds
  <2> QED BY <2>1, OneMark
<1> HIDE DEF end, b
<1>10. b \in Seq(Messages) /\ Thin(b, y) /\ Keeps(b, y)
  BY <1>1, <1>8, <1>9, SuffixThin, SuffixKeeps
<1>11. Thin(b, a)
  <2>1. Thin(x, a)
    BY <1>5, <1>7, ThinThin
  <2>2. Thin(y, a)
    BY <1>8, <2>1, ThinThin
  <2> QED BY <1>10, <2>2, ThinThin
<1>12. \A k \in Voices(kept) : \E j \in Voices(b) : b[j] = kept[k]
  <2> TAKE k \in Voices(kept)
  <2>1. PICK i \in Voices(x) : x[i] = kept[k]
    BY <1>7 DEF Keeps
  <2>2. PICK j \in Voices(y) : y[j] = x[i]
    BY <1>8 DEF Keeps
  <2>3. PICK l \in Voices(b) : b[l] = y[j]
    BY <1>10 DEF Keeps
  <2> QED BY <2>1, <2>2, <2>3
<1>13. \A k \in Voices(a) : a[k].is = "question" => \E j \in Voices(b) : b[j] = a[k]
  <2> TAKE k \in Voices(a)
  <2> HAVE a[k].is = "question"
  <2>1. PICK i \in Voices(kept) : kept[i] = a[k]
    BY <1>6
  <2>2. PICK j \in Voices(b) : b[j] = kept[i]
    BY <1>12
  <2> QED BY <2>1, <2>2
<1> QED BY <1>10, <1>11, <1>13 DEF b

\* A message of the model or the user, with its types.
LEMMA ReplyIs ==
    ASSUME NEW t \in Nat, NEW pieces \in SUBSET Pieces
    PROVE  LET m == Reply(t, pieces)
           IN  m \in Messages /\ m.is = "answer" /\ m.turn = t /\ m.says = pieces /\ Spoken(m)
<1>1. "answer" \in Kinds
  BY DEF Kinds
<1> QED BY <1>1 DEF Reply, Messages, Spoken

LEMMA QuestionIs ==
    ASSUME NEW t \in Nat
    PROVE  LET m == Question(t)
           IN  m \in Messages /\ m.is = "question" /\ m.turn = t /\ Spoken(m)
<1>1. "question" \in Kinds /\ {} \in SUBSET Pieces
  BY DEF Kinds
<1> QED BY <1>1 DEF Question, Messages, Spoken

\* Shortening changes no place, kind or turn.
LEMMA FreezeIs ==
    ASSUME NEW a \in Seq(Messages), NEW large
    PROVE  LET b == Freeze(a, large)
           IN  /\ b \in Seq(Messages) /\ DOMAIN b = DOMAIN a
               /\ \A k \in DOMAIN a :
                    /\ b[k].is = a[k].is /\ b[k].turn = a[k].turn
                    /\ \/ b[k].says = a[k].says
                       \/ b[k].says = {[p EXCEPT !.cut = TRUE] : p \in a[k].says}
<1> DEFINE b == Freeze(a, large)
           n == Len(a)
           Cut(m) == [m EXCEPT !.says = {[p EXCEPT !.cut = TRUE] : p \in @}]
<1>1. n \in Nat /\ DOMAIN a = 1 .. n /\ \A k \in 1 .. n : a[k] \in Messages
  OBVIOUS
<1>2. b = [k \in 1 .. n |-> IF k \in large THEN Cut(a[k]) ELSE a[k]]
  BY <1>1 DEF Freeze
<1>3. ASSUME NEW m \in Messages
      PROVE  /\ Cut(m) \in Messages /\ Cut(m).is = m.is /\ Cut(m).turn = m.turn
             /\ Cut(m).says = {[p EXCEPT !.cut = TRUE] : p \in m.says}
  <2> DEFINE s == {[p EXCEPT !.cut = TRUE] : p \in m.says}
  <2>1. m.is \in Kinds /\ m.turn \in Nat /\ m.says \in SUBSET Pieces
        /\ m = [is |-> m.is, turn |-> m.turn, says |-> m.says]
    BY DEF Messages
  <2>2. \A p \in Pieces : [p EXCEPT !.cut = TRUE] \in Pieces
    BY DEF Pieces
  <2>3. s \in SUBSET Pieces
    BY <2>1, <2>2
  <2> HIDE DEF s
  <2>4. Cut(m) = [m EXCEPT !.says = s]
    BY DEF s
  <2>5. Cut(m) = [is |-> m.is, turn |-> m.turn, says |-> s]
    BY <2>1, <2>4
  <2> HIDE DEF Cut
  <2>6. Cut(m) \in Messages
    BY <2>1, <2>3, <2>5 DEF Messages
  <2> QED BY <2>5, <2>6 DEF s
<1> HIDE DEF b, n, Cut
<1>4. DOMAIN b = 1 .. n /\ \A k \in 1 .. n : b[k] = IF k \in large THEN Cut(a[k]) ELSE a[k]
  BY <1>2
<1>5. b \in [1 .. n -> Messages]
  BY <1>1, <1>2, <1>3
<1>6. b \in Seq(Messages)
  BY <1>1, <1>5
<1>7. ASSUME NEW k \in DOMAIN a
      PROVE  /\ b[k].is = a[k].is /\ b[k].turn = a[k].turn
             /\ \/ b[k].says = a[k].says
                \/ b[k].says = {[p EXCEPT !.cut = TRUE] : p \in a[k].says}
  <2>1. a[k] \in Messages /\ k \in 1 .. n
    BY <1>1
  <2>2. CASE k \in large
    <3>1. b[k] = Cut(a[k])
      BY <1>4, <2>1, <2>2
    <3> QED BY <1>3, <2>1, <3>1
  <2>3. CASE k \notin large
    <3>1. b[k] = a[k]
      BY <1>4, <2>1, <2>3
    <3> QED BY <3>1
  <2> QED BY <2>2, <2>3
<1> QED BY <1>1, <1>4, <1>6, <1>7 DEF b

\* The answer is made of pieces.
LEMMA FinalAnswerIs ==
    ASSUME NEW a \in Seq(Messages), NEW t
    PROVE  FinalAnswer(a, t) \in SUBSET Pieces
<1> DEFINE J == {j \in DOMAIN a : /\ a[j].is = "answer"
                                  /\ \E i \in 1 .. j - 1 :
                                       a[i].is = "question" /\ inputs[a[i].turn] = inputs[t]}
<1>1. FinalAnswer(a, t) = UNION {a[k].says : k \in J}
  BY DEF FinalAnswer
<1>2. \A k \in J : a[k].says \in SUBSET Pieces
  <2> TAKE k \in J
  <2>1. a[k] \in Messages
    OBVIOUS
  <2> QED BY <2>1 DEF Messages
<1> HIDE DEF J
<1> QED BY <1>1, <1>2

\* One message more is one more at most.
LEMMA MoreVoices ==
    ASSUME NEW x \in Seq(Messages), NEW m \in Messages
    PROVE  /\ Append(x, m) \in Seq(Messages)
           /\ Cardinality(Voices(Append(x, m))) <= Cardinality(Voices(x)) + 1
           /\ Cardinality(Voices(Append(x, m))) \in Nat
<1> DEFINE b == Append(x, m)
           l == Len(x)
<1>1. b \in Seq(Messages) /\ Len(b) = l + 1 /\ \A i \in 1 .. l : b[i] = x[i]
  BY AppendProperties
<1>2. l \in Nat /\ DOMAIN x = 1 .. l
  OBVIOUS
<1> HIDE DEF b, l
<1>3. Voices(b) \in SUBSET (Voices(x) \cup {l + 1})
  <2> SUFFICES ASSUME NEW i \in Voices(b), i # l + 1
               PROVE  i \in Voices(x)
    OBVIOUS
  <2>1. i \in 1 .. l + 1 /\ Spoken(b[i])
    BY <1>1, VoicesOf DEF Voices
  <2>2. i \in 1 .. l
    BY <1>2, <2>1
  <2> QED BY <1>1, <1>2, <2>1, <2>2 DEF Voices
<1>4. IsFiniteSet(Voices(x)) /\ Cardinality(Voices(x)) \in Nat
  BY VoicesOf
<1>5. /\ IsFiniteSet(Voices(x) \cup {l + 1})
      /\ Cardinality(Voices(x) \cup {l + 1}) =
           IF l + 1 \in Voices(x) THEN Cardinality(Voices(x)) ELSE Cardinality(Voices(x)) + 1
  BY <1>4, FS_AddElement
<1>6. Cardinality(Voices(b)) <= Cardinality(Voices(x) \cup {l + 1})
  BY <1>3, <1>5, FS_Subset
<1>7. Cardinality(Voices(b)) \in Nat
  BY <1>1, VoicesOf
<1> QED BY <1>1, <1>4, <1>5, <1>6, <1>7 DEF b

-----------------------------------------------------------------------------

\* The places of a turn.
InTurn == {"hooks", "model", "compact", "told", "due", "toldAgain", "answer"}

\* The types of the state.
ConvTypes ==
    /\ place \in {"start", "prompt"} \cup InTurn
    /\ msgs \in Seq(Messages) /\ saved \in Seq(Messages) /\ prompt \in Seq(Messages)
    /\ said \in SUBSET Pieces
    /\ inputs \in Seq(Inputs) /\ compressed \in 0 .. Len(inputs)
    /\ calls \in Nat /\ undone \in Nat

LEMMA ConvTypesInit ==
    ASSUME ConvInit
    PROVE  ConvTypes
<1>1. "system_prompt" \in Kinds /\ "system_prompt" # "question" /\ "system_prompt" # "answer"
  BY DEF Kinds
<1>2. <<Is("system_prompt")>> \in Seq(Messages)
  BY <1>1, OneMark
<1>3. /\ <<>> \in Seq(Messages) /\ <<>> \in Seq(Inputs) /\ Len(<<>>) = 0 /\ 0 \in 0 .. 0
      /\ {} \in SUBSET Pieces
  OBVIOUS
<1> QED BY <1>2, <1>3 DEF ConvInit, ConvTypes

\* A piece of this turn, not shortened.
LEMMA PieceIs ==
    ASSUME ConvTypes
    PROVE  /\ Piece \in Pieces /\ Piece.turn = Len(inputs)
           /\ Round = Len(inputs) /\ Len(inputs) \in Nat
           /\ [Piece EXCEPT !.cut = FALSE] = Piece
<1>1. inputs \in Seq(Inputs) /\ calls \in Nat
  BY DEF ConvTypes
<1>2. Len(inputs) \in Nat /\ Round = Len(inputs)
  BY <1>1 DEF Round
<1> DEFINE n == Len(inputs)
<1> HIDE DEF n
<1>3. Piece = [turn |-> n, at |-> calls, cut |-> FALSE]
  BY <1>2 DEF Piece, n
<1>4. n \in Nat
  BY <1>2 DEF n
<1>5. Piece \in Pieces /\ Piece.turn = n
  BY <1>1, <1>3, <1>4 DEF Pieces
<1>6. [Piece EXCEPT !.cut = FALSE] = Piece
  <2>1. Piece.cut = FALSE
    BY <1>3
  <2>2. ASSUME NEW p \in Pieces, NEW b \in BOOLEAN, p.cut = b
        PROVE  [p EXCEPT !.cut = b] = p
    BY <2>2 DEF Pieces
  <2> QED BY <1>5, <2>1, <2>2
<1> QED BY <1>2, <1>5, <1>6 DEF n

\* What a round adds to the prompt.
LEMMA RoundIs ==
    ASSUME ConvTypes, NEW pieces \in {{}, {Piece}}
    PROVE  LET r == Reply(Round, pieces)
               a == prompt \o <<r, Is("tool_result")>>
           IN  /\ pieces \in SUBSET Pieces /\ r \in Messages
               /\ a = Append(Append(prompt, r), Is("tool_result"))
               /\ Is("tool_result") \in Messages /\ ~Spoken(Is("tool_result"))
               /\ a \in Seq(Messages)
<1> DEFINE r == Reply(Round, pieces)
           e == Is("tool_result")
<1>1. pieces \in SUBSET Pieces /\ Round \in Nat
  BY PieceIs
<1>2. r \in Messages
  BY <1>1, ReplyIs
<1>3. e \in Messages /\ ~Spoken(e)
  <2>1. "tool_result" \in Kinds /\ "tool_result" # "question" /\ "tool_result" # "answer"
    BY DEF Kinds
  <2> QED BY <2>1, OneMark
<1>4. prompt \in Seq(Messages)
  BY DEF ConvTypes
<1> HIDE DEF r, e
<1>5. prompt \o <<r, e>> = Append(Append(prompt, r), e)
  BY <1>2, <1>3, <1>4
<1>6. Append(Append(prompt, r), e) \in Seq(Messages)
  BY <1>2, <1>3, <1>4, AppendProperties
<1> QED BY <1>1, <1>2, <1>3, <1>5, <1>6 DEF r, e

LEMMA ConvTypesStep ==
    ASSUME SizesArePositive, BoundsAreNatural, ConvTypes, [ConvNext]_convVars
    PROVE  ConvTypes'
<1>1. CASE Rebuild
  BY <1>1 DEF Rebuild, ConvTypes
<1>2. CASE CompactByCommand
  <2>1. msgs' \in Seq(Messages)
    <3>1. PICK pressure \in Pressures : msgs' = Compacted(pressure, TRUE)
      BY <1>2 DEF CompactByCommand
    <3> QED BY <3>1, CompactedIs DEF ConvTypes
  <2> QED BY <1>2, <2>1 DEF CompactByCommand, ConvTypes
<1>3. ASSUME NEW force \in BOOLEAN, NEW ifDone \in {"prompt"} \cup InTurn,
             NEW ifNot \in {"prompt"} \cup InTurn,
             Compact(force, ifDone, ifNot),
             UNCHANGED <<inputs, prompt, calls, saved, said, undone>>
      PROVE  ConvTypes'
  <2>1. msgs \in Seq(Messages) /\ Len(inputs) \in Nat
    BY DEF ConvTypes
  <2>2. \/ msgs' \in Seq(Messages) /\ compressed' = Len(inputs) /\ place' = ifDone
        \/ msgs' = msgs /\ compressed' = compressed /\ place' = ifNot
    BY <1>3, <2>1, CompactDoes
  <2>3. msgs' \in Seq(Messages) /\ compressed' \in 0 .. Len(inputs)
    <3>1. Len(inputs) \in 0 .. Len(inputs) /\ compressed \in 0 .. Len(inputs)
      BY <2>1 DEF ConvTypes
    <3> QED BY <2>1, <2>2, <3>1
  <2>4. place' \in {"start", "prompt"} \cup InTurn
    <3>1. place' = ifDone \/ place' = ifNot
      BY <2>2
    <3> QED BY <3>1, Zenon
  <2> QED BY <1>3, <2>3, <2>4 DEF ConvTypes
<1>4. CASE CompactByRequest
  BY <1>3, <1>4 DEF CompactByRequest
<1>5. CASE Ask
  <2>1. PICK input \in Inputs : inputs' = Append(inputs, input)
    BY <1>5 DEF Ask
  <2>2. inputs \in Seq(Inputs) /\ Len(inputs) \in Nat /\ compressed \in 0 .. Len(inputs)
    BY DEF ConvTypes
  <2>3. inputs' \in Seq(Inputs) /\ Len(inputs') = Len(inputs) + 1
    BY <2>1, <2>2, AppendProperties
  <2>4. compressed \in 0 .. Len(inputs')
    BY <2>2, <2>3
  <2>5. msgs' \in Seq(Messages)
    <3>1. Question(Round + 1) \in Messages
      BY <2>2, QuestionIs DEF Round
    <3>2. msgs \in Seq(Messages)
      BY DEF ConvTypes
    <3>3. msgs' = Append(msgs, Question(Round + 1))
      BY <1>5 DEF Ask
    <3> QED BY <3>1, <3>2, <3>3, AppendProperties
  <2> QED BY <1>5, <2>3, <2>4, <2>5 DEF Ask, ConvTypes, InTurn
<1>6. CASE Assembles
  <2>1. prompt' \in Seq(Messages)
    BY <1>6, AssembleIs DEF Assembles, ConvTypes
  <2> QED BY <1>6, <2>1 DEF Assembles, ConvTypes, InTurn
<1>7. CASE ToolRound
  <2>1. PICK pieces \in {{}, {Piece}} :
          /\ \E large : prompt' = Freeze(prompt \o <<Reply(Round, pieces),
                                                        Is("tool_result")>>, large)
          /\ said' = said \cup pieces
    BY <1>7 DEF ToolRound
  <2>2. prompt' \in Seq(Messages)
    <3> DEFINE a == prompt \o <<Reply(Round, pieces), Is("tool_result")>>
    <3>1. a \in Seq(Messages)
      BY RoundIs
    <3>2. \E large : prompt' = Freeze(a, large)
      BY <2>1
    <3> HIDE DEF a
    <3> QED BY <3>1, <3>2, FreezeIs
  <2>3. said' \in SUBSET Pieces
    BY <2>1, RoundIs DEF ConvTypes
  <2>4. calls' \in Nat
    BY <1>7 DEF ToolRound, ConvTypes
  <2> QED BY <1>7, <2>2, <2>3, <2>4 DEF ToolRound, ConvTypes
<1>8. CASE LastRound
  <2>1. prompt' \in Seq(Messages) /\ said' \in SUBSET Pieces
    <3>1. /\ {Piece} \in SUBSET Pieces
          /\ Reply(Round, {Piece}) \in Messages
      BY RoundIs
    <3> DEFINE r == Reply(Round, {Piece})
    <3>2. \/ prompt' = prompt /\ said' \in {said, said \cup {BrokenOff}}
          \/ prompt' = Append(prompt, r) /\ said' = said \cup {Piece}
      BY <1>8 DEF LastRound
    <3>3. prompt \in Seq(Messages) /\ said \in SUBSET Pieces
      BY DEF ConvTypes
    <3> HIDE DEF r
    <3>4. Append(prompt, r) \in Seq(Messages)
      BY <3>1, <3>3, AppendProperties DEF r
    <3>5. BrokenOff \in Pieces
      BY PieceIs DEF BrokenOff, Pieces
    <3> QED BY <3>1, <3>2, <3>3, <3>4, <3>5
  <2> QED BY <1>8, <2>1 DEF LastRound, ConvTypes, InTurn
<1>9. CASE CompactBySize
  BY <1>3, <1>9 DEF CompactBySize, InTurn
<1>10. CASE GoesOn
  BY <1>10 DEF GoesOn, ConvTypes, InTurn
<1>11. CASE CompactByRounds
  BY <1>3, <1>11 DEF CompactByRounds, InTurn
<1>12. CASE NotDue
  BY <1>12 DEF NotDue, ConvTypes, InTurn
<1>13. CASE Answer
  <2>1. msgs' \in Seq(Messages)
    <3>1. FinalAnswer(prompt, Round) \in SUBSET Pieces
      BY FinalAnswerIs DEF ConvTypes
    <3>2. Reply(Round, FinalAnswer(prompt, Round)) \in Messages
      BY <3>1, PieceIs, ReplyIs
    <3>3. msgs \in Seq(Messages)
      BY DEF ConvTypes
    <3> QED BY <1>13, <3>2, <3>3, AppendProperties DEF Answer
  <2>2. <<>> \in Seq(Messages)
    OBVIOUS
  <2> QED BY <1>13, <2>1, <2>2 DEF Answer, ConvTypes
<1>14. CASE Abort
  <2>1. <<>> \in Seq(Messages) /\ {} \in SUBSET Pieces
    OBVIOUS
  <2>2. undone' \in Nat
    BY <1>14 DEF Abort, ConvTypes
  <2> QED BY <1>14, <2>1, <2>2 DEF Abort, ConvTypes
<1>15. CASE UNCHANGED convVars
  BY <1>15 DEF convVars, ConvTypes
<1> QED BY <1>1, <1>2, <1>4, <1>5, <1>6, <1>7, <1>8, <1>9, <1>10, <1>11, <1>12, <1>13,
           <1>14, <1>15 DEF ConvNext

-----------------------------------------------------------------------------
(* Conversation: how long it grows.                                        *)

\* How much was said.
Size(list) == Cardinality(Voices(list))

\* What a compaction may leave, and what u turns may add whose compaction was undone.
Left == HeadCount + IF Recent > ForcedRecent THEN Recent ELSE ForcedRecent
Added(u) == 2 * Interval * u

\* What the messages may have grown to, gap turns after the last compaction.
Room(gap, u) == Left + 2 + Added(u) + 2 * (IF gap < Interval THEN gap ELSE Interval - 1)

\* The turns since the last compaction.
Gap == Len(inputs) - compressed

\* Every turn of an interval adds a question and an answer; what a turn that is
\* compacted and aborted leaves is what was saved when it began.
Grows(at, size, sizeSaved, gap, u) ==
    IF at \in InTurn
    THEN /\ sizeSaved <= Left + Added(u) + 2 * Interval
         /\ gap > 0 => sizeSaved <= Room(gap - 1, u)
         /\ at \in {"hooks", "model", "compact"} => gap > 0 /\ size <= sizeSaved + 1
         /\ at \in {"told", "toldAgain"} => gap = 0 /\ size <= Left
         /\ at = "due" => \/ gap = 0 /\ size <= Left
                          \/ gap > 0 /\ size <= sizeSaved + 1
         /\ at = "answer" => size + 1 <= Room(gap, u)
    ELSE size <= Room(gap, u)

HistoryGrows == Grows(place, Size(msgs), Size(saved), Gap, undone)

LEMMA SizeIs ==
    ASSUME NEW list \in Seq(Messages)
    PROVE  Size(list) \in Nat
BY VoicesOf DEF Size

LEMMA LeftIs ==
    ASSUME SizesArePositive
    PROVE  /\ Left \in Nat /\ Interval \in Nat /\ Interval >= 1
           /\ HeadCount + Recent <= Left /\ HeadCount + ForcedRecent <= Left
           /\ HeadCount + Recent \in Nat /\ HeadCount + ForcedRecent \in Nat
<1>1. /\ HeadCount \in Nat /\ Recent \in Nat /\ ForcedRecent \in Nat /\ Interval \in Nat
      /\ Interval # 0
  BY DEF SizesArePositive
<1>2. Left \in Nat /\ HeadCount + Recent <= Left /\ HeadCount + ForcedRecent <= Left
  BY <1>1 DEF Left
<1> QED BY <1>1, <1>2

LEMMA AddedIs ==
    ASSUME Interval \in Nat, NEW u \in Nat
    PROVE  Added(u) \in Nat /\ Added(u + 1) = Added(u) + 2 * Interval
<1>1. 2 * Interval * u \in Nat
  OBVIOUS
<1>2. 2 * Interval * (u + 1) = 2 * Interval * u + 2 * Interval
  OBVIOUS
<1> QED BY <1>1, <1>2 DEF Added

\* The bound for any gap, and as the gap grows.
LEMMA RoomIs ==
    ASSUME SizesArePositive, NEW u \in Nat, NEW gap \in Nat
    PROVE  /\ Room(gap, u) \in Nat
           /\ Left + 2 + Added(u) <= Room(gap, u)
           /\ Room(gap, u) <= Left + Added(u) + 2 * Interval
           /\ Room(gap, u) <= Room(gap + 1, u)
           /\ gap + 1 < Interval => Room(gap + 1, u) = Room(gap, u) + 2
<1>1. Left \in Nat /\ Interval \in Nat /\ Interval >= 1 /\ Added(u) \in Nat
  BY LeftIs, AddedIs
<1> QED BY <1>1 DEF Room

LEMMA HistoryInit ==
    ASSUME SizesArePositive, ConvInit
    PROVE  HistoryGrows
<1>1. place = "start" /\ undone = 0 /\ Gap = 0
  BY DEF ConvInit, Gap
<1>2. place \notin InTurn
  BY <1>1 DEF InTurn
<1>3. Size(msgs) = 0
  <2>1. "system_prompt" \in Kinds /\ "system_prompt" # "question" /\ "system_prompt" # "answer"
    BY DEF Kinds
  <2>2. Voices(msgs) = {}
    BY <2>1, OneMark DEF ConvInit
  <2> QED BY <2>2, FS_EmptySet DEF Size
<1>4. Room(Gap, undone) \in Nat
  BY <1>1, RoomIs
<1>5. 0 <= Room(Gap, undone)
  BY <1>4
<1> QED BY <1>2, <1>3, <1>5 DEF HistoryGrows, Grows

LEMMA HistoryStep ==
    ASSUME SizesArePositive, ConvTypes, ConvTypes', HistoryGrows, [ConvNext]_convVars
    PROVE  HistoryGrows'
<1> DEFINE m == Size(msgs)
           s == Size(saved)
           g == Gap
           u == undone
           m2 == Size(msgs')
           s2 == Size(saved')
           g2 == Gap'
           u2 == undone'
           at == place
           at2 == place'
<1>1. /\ m \in Nat /\ s \in Nat /\ m2 \in Nat /\ s2 \in Nat
      /\ u \in Nat /\ u2 \in Nat /\ msgs \in Seq(Messages)
  BY SizeIs DEF ConvTypes
<1>2. /\ Len(inputs) \in Nat /\ Len(inputs') \in Nat
      /\ g \in Nat /\ (compressed = Len(inputs) <=> g = 0)
      /\ g2 \in Nat /\ (compressed' = Len(inputs') <=> g2 = 0)
  <2>1. /\ Len(inputs) \in Nat /\ compressed \in 0 .. Len(inputs)
    BY DEF ConvTypes
  <2>2. /\ Len(inputs') \in Nat /\ compressed' \in 0 .. Len(inputs')
    BY DEF ConvTypes
  <2>3. /\ Len(inputs) - compressed \in Nat
        /\ compressed = Len(inputs) <=> Len(inputs) - compressed = 0
    BY ONLY <2>1
  <2>4. /\ Len(inputs') - compressed' \in Nat
        /\ compressed' = Len(inputs') <=> Len(inputs') - compressed' = 0
    BY ONLY <2>2
  <2> QED BY <2>1, <2>2, <2>3, <2>4 DEF Gap
<1>3. /\ Left \in Nat /\ Interval \in Nat /\ Interval >= 1
      /\ HeadCount + Recent <= Left /\ HeadCount + ForcedRecent <= Left
      /\ HeadCount + Recent \in Nat /\ HeadCount + ForcedRecent \in Nat
  BY LeftIs
<1>4. /\ (UNCHANGED msgs => m2 = m) /\ (UNCHANGED saved => s2 = s)
      /\ (UNCHANGED <<inputs, compressed>> => g2 = g)
      /\ (msgs' = saved => m2 = s) /\ (saved' = msgs => s2 = m)
  BY DEF Gap
<1>5. ASSUME NEW gap \in Nat, NEW v \in Nat
      PROVE  /\ Room(gap, v) \in Nat
             /\ Left + 2 + Added(v) <= Room(gap, v)
             /\ Room(gap, v) <= Left + Added(v) + 2 * Interval
             /\ Room(gap, v) <= Room(gap + 1, v)
             /\ gap + 1 < Interval => Room(gap + 1, v) = Room(gap, v) + 2
  BY RoomIs
<1>6. Added(u) \in Nat /\ Added(u + 1) = Added(u) + 2 * Interval
  BY <1>1, <1>3, AddedIs
<1>7. Grows(at, m, s, g, u)
  BY DEF HistoryGrows
<1>8. SUFFICES Grows(at2, m2, s2, g2, u2)
  BY DEF HistoryGrows, Size
<1> HIDE DEF m, s, g, u, m2, s2, g2, u2, at, at2
<1>9. ASSUME g > 0
      PROVE  /\ g - 1 \in Nat /\ Room(g - 1, u) \in Nat /\ Room(g - 1, u) <= Room(g, u)
             /\ g < Interval => Room(g, u) = Room(g - 1, u) + 2
  <2>1. g - 1 \in Nat /\ (g - 1) + 1 = g
    BY <1>2, <1>9
  <2> DEFINE h == g - 1
  <2> HIDE DEF h
  <2>2. /\ Room(h, u) \in Nat /\ Room(h, u) <= Room(h + 1, u)
        /\ h + 1 < Interval => Room(h + 1, u) = Room(h, u) + 2
    BY <1>1, <1>5, <2>1 DEF h
  <2> QED BY <2>1, <2>2 DEF h
<1>10. /\ Room(g, u) \in Nat /\ Left + 2 + Added(u) <= Room(g, u)
       /\ Room(g, u) <= Left + Added(u) + 2 * Interval
  BY <1>1, <1>2, <1>5
<1>11. /\ Room(0, u) \in Nat /\ Left + 2 + Added(u) <= Room(0, u)
       /\ Left + 2 + Added(u + 1) <= Room(0, u + 1) /\ Room(0, u + 1) \in Nat
  <2>1. 0 \in Nat /\ u + 1 \in Nat
    BY <1>1
  <2> QED BY <1>1, <2>1, <1>5
\* How much a compaction leaves.
<1>12. ASSUME NEW force \in BOOLEAN, NEW ifDone, NEW ifNot,
              Compact(force, ifDone, ifNot), UNCHANGED inputs
       PROVE  \/ m2 <= Left /\ g2 = 0 /\ at2 = ifDone
              \/ m2 = m /\ g2 = g /\ at2 = ifNot /\ (force => m <= Left + 1)
  <2>1. \/ /\ m2 <= HeadCount + Behind(force) /\ compressed' = Len(inputs) /\ at2 = ifDone
        \/ /\ msgs' = msgs /\ compressed' = compressed /\ at2 = ifNot
           /\ force => m <= HeadCount + Behind(force) + 1
    BY <1>1, <1>12, CompactDoes DEF m, m2, at2, Size
  <2>2. HeadCount + Behind(force) <= Left /\ HeadCount + Behind(force) \in Nat
    BY <1>3 DEF Behind
  <2>3. CASE /\ m2 <= HeadCount + Behind(force) /\ compressed' = Len(inputs) /\ at2 = ifDone
    <3>1. compressed' = Len(inputs')
      BY <1>12, <2>3
    <3> QED BY <1>1, <1>2, <1>3, <2>2, <2>3, <3>1
  <2>4. CASE /\ msgs' = msgs /\ compressed' = compressed /\ at2 = ifNot
             /\ force => m <= HeadCount + Behind(force) + 1
    <3>1. m2 = m /\ g2 = g
      BY <1>4, <1>12, <2>4
    <3> QED BY <1>1, <1>3, <2>2, <2>4, <3>1
  <2> QED BY <2>1, <2>3, <2>4
<1> USE DEF Grows
<1>13. CASE Rebuild
  <2>1. at = "start" /\ at2 = "prompt" /\ m2 = m /\ g2 = g /\ u2 = u
    BY <1>4, <1>13 DEF Rebuild, at, at2, u, u2
  <2>2. at \notin InTurn /\ at2 \notin InTurn
    BY <2>1 DEF InTurn
  <2> QED BY <1>7, <2>1, <2>2
<1>14. CASE CompactByCommand
  <2>1. PICK pressure \in Pressures : msgs' = Compacted(pressure, TRUE)
    BY <1>14 DEF CompactByCommand
  <2>2. m2 <= HeadCount + ForcedRecent
    BY <1>1, <2>1, CompactedIs DEF Size, m2
  <2>3. at2 = "prompt" /\ g2 = g /\ u2 = u
    BY <1>4, <1>14 DEF CompactByCommand, at, at2, u, u2
  <2>4. at2 \notin InTurn
    BY <2>3 DEF InTurn
  <2>5. m2 <= Room(g, u)
    <3>1. /\ m2 \in Nat /\ Left \in Nat /\ Added(u) \in Nat /\ Room(g, u) \in Nat
          /\ Left + 2 + Added(u) <= Room(g, u) /\ m2 <= HeadCount + ForcedRecent
          /\ HeadCount + ForcedRecent <= Left /\ HeadCount + ForcedRecent \in Nat
      BY <1>1, <1>3, <1>6, <1>10, <2>2
    <3> QED BY ONLY <3>1
  <2> QED BY <2>3, <2>4, <2>5
<1>15. CASE CompactByRequest
  <2>1. /\ Compact(TRUE, "prompt", "prompt") /\ UNCHANGED inputs
        /\ at = "prompt" /\ u2 = u
    BY <1>15 DEF CompactByRequest, at, u, u2
  <2>2. \/ m2 <= Left /\ g2 = 0 /\ at2 = "prompt"
        \/ m2 = m /\ g2 = g /\ at2 = "prompt"
    BY <1>12, <2>1
  <2>3. "prompt" \notin InTurn
    BY DEF InTurn
  <2>4. m <= Room(g, u)
    BY <1>7, <2>1, <2>3
  <2>5. m2 <= Left => m2 <= Room(0, u)
    <3>1. /\ m2 \in Nat /\ Left \in Nat /\ Added(u) \in Nat /\ Room(0, u) \in Nat
          /\ Left + 2 + Added(u) <= Room(0, u)
      BY <1>1, <1>3, <1>6, <1>11
    <3> QED BY ONLY <3>1
  <2>6. m2 <= Room(g2, u)
    <3>1. CASE m2 <= Left /\ g2 = 0
      BY <2>5, <3>1
    <3>2. CASE m2 = m /\ g2 = g
      BY <2>4, <3>2
    <3> QED BY <2>2, <3>1, <3>2
  <2>7. at2 \notin InTurn /\ u2 = u
    BY <2>1, <2>2, <2>3
  <2> QED BY <2>6, <2>7
<1>16. CASE Ask
  <2>1. /\ at = "prompt" /\ at2 = "hooks" /\ u2 = u /\ s2 = m
        /\ msgs' = Append(msgs, Question(Round + 1))
    BY <1>4, <1>16 DEF Ask, at, at2, u, u2
  <2>2. g2 = g + 1
    <3>1. PICK input \in Inputs : inputs' = Append(inputs, input)
      BY <1>16 DEF Ask
    <3>2. inputs \in Seq(Inputs) /\ compressed \in 0 .. Len(inputs) /\ compressed' = compressed
      BY <1>16 DEF Ask, ConvTypes
    <3>3. Len(inputs') = Len(inputs) + 1
      BY <3>1, <3>2, AppendProperties
    <3> QED BY <1>2, <3>2, <3>3 DEF g, g2, Gap
  <2>3. m2 <= m + 1
    <3>1. Question(Round + 1) \in Messages
      BY <1>2, QuestionIs DEF Round
    <3> QED BY <1>1, <2>1, <3>1, MoreVoices DEF m, m2, Size
  <2>4. "prompt" \notin InTurn /\ "hooks" \in InTurn
    BY DEF InTurn
  <2>5. m <= Room(g, u)
    BY <1>7, <2>1, <2>4
  <2>6. g2 - 1 = g /\ g2 > 0
    BY <1>2, <2>2
  <2>7. m <= Left + Added(u) + 2 * Interval
    <3>1. /\ m \in Nat /\ Left \in Nat /\ Interval \in Nat /\ Added(u) \in Nat
          /\ Room(g, u) \in Nat /\ m <= Room(g, u)
          /\ Room(g, u) <= Left + Added(u) + 2 * Interval
      BY <1>1, <1>3, <1>6, <1>10, <2>5
    <3> QED BY ONLY <3>1
  <2>8. /\ s2 <= Left + Added(u2) + 2 * Interval
        /\ g2 > 0 /\ s2 <= Room(g2 - 1, u2) /\ m2 <= s2 + 1
    BY <2>1, <2>3, <2>5, <2>6, <2>7
  <2> QED BY <2>1, <2>4, <2>8
<1>17. CASE Assembles
  <2>1. at = "hooks" /\ at2 = "model" /\ m2 = m /\ s2 = s /\ g2 = g /\ u2 = u
    BY <1>4, <1>17 DEF Assembles, at, at2, u, u2
  <2> QED BY <1>7, <2>1 DEF InTurn
<1>18. CASE ToolRound
  <2>1. at2 = at /\ m2 = m /\ s2 = s /\ g2 = g /\ u2 = u
    BY <1>4, <1>18 DEF ToolRound, at, at2, u, u2
  <2> QED BY <1>7, <2>1
<1>19. CASE LastRound
  <2>1. at = "model" /\ at2 = "compact" /\ m2 = m /\ s2 = s /\ g2 = g /\ u2 = u
    BY <1>4, <1>19 DEF LastRound, at, at2, u, u2
  <2> QED BY <1>7, <2>1 DEF InTurn
<1>20. CASE CompactBySize
  <2>1. /\ Compact(FALSE, "told", "due") /\ UNCHANGED inputs
        /\ at = "compact" /\ s2 = s /\ u2 = u
    BY <1>4, <1>20 DEF CompactBySize, at, u, u2
  <2>2. \/ m2 <= Left /\ g2 = 0 /\ at2 = "told"
        \/ m2 = m /\ g2 = g /\ at2 = "due"
    BY <1>12, <2>1
  <2>3. "told" \in InTurn /\ "due" \in InTurn /\ "compact" \in InTurn
    BY DEF InTurn
  <2>4. /\ s <= Left + Added(u) + 2 * Interval
        /\ g > 0 /\ s <= Room(g - 1, u) /\ m <= s + 1
    BY <1>7, <2>1, <2>3
  <2> QED BY <1>2, <2>1, <2>2, <2>3, <2>4
<1>21. CASE GoesOn
  <2>1. /\ \/ at = "told" /\ at2 = "due"
           \/ at = "toldAgain" /\ at2 = "answer"
        /\ m2 = m /\ s2 = s /\ g2 = g /\ u2 = u
    BY <1>4, <1>21 DEF GoesOn, at, at2, u, u2
  <2>2. "told" \in InTurn /\ "due" \in InTurn /\ "toldAgain" \in InTurn /\ "answer" \in InTurn
    BY DEF InTurn
  <2>3. s <= Left + Added(u) + 2 * Interval /\ g = 0 /\ m <= Left
    BY <1>7, <2>1, <2>2
  <2>4. m + 1 <= Room(g, u)
    <3>1. /\ m \in Nat /\ Left \in Nat /\ Added(u) \in Nat /\ Room(g, u) \in Nat
          /\ Left + 2 + Added(u) <= Room(g, u) /\ m <= Left
      BY <1>1, <1>3, <1>6, <1>10, <2>3
    <3> QED BY ONLY <3>1
  <2> QED BY <1>2, <2>1, <2>2, <2>3, <2>4
<1>22. CASE CompactByRounds
  <2>1. /\ Compact(TRUE, "toldAgain", "answer") /\ UNCHANGED inputs
        /\ at = "due" /\ s2 = s /\ u2 = u
    BY <1>4, <1>22 DEF CompactByRounds, at, u, u2
  <2>2. \/ m2 <= Left /\ g2 = 0 /\ at2 = "toldAgain"
        \/ m2 = m /\ g2 = g /\ at2 = "answer" /\ m <= Left + 1
    BY <1>12, <2>1
  <2>3. "toldAgain" \in InTurn /\ "due" \in InTurn /\ "answer" \in InTurn
    BY DEF InTurn
  <2>4. s <= Left + Added(u) + 2 * Interval /\ (g > 0 => s <= Room(g - 1, u))
    BY <1>7, <2>1, <2>3
  <2>5. m <= Left + 1 => m + 1 <= Room(g, u)
    <3>1. /\ m \in Nat /\ Left \in Nat /\ Added(u) \in Nat /\ Room(g, u) \in Nat
          /\ Left + 2 + Added(u) <= Room(g, u)
      BY <1>1, <1>3, <1>6, <1>10
    <3> QED BY ONLY <3>1
  <2> QED BY <1>2, <2>1, <2>2, <2>3, <2>4, <2>5
<1>23. CASE NotDue
  <2>1. at = "due" /\ at2 = "answer" /\ m2 = m /\ s2 = s /\ g2 = g /\ u2 = u
    BY <1>4, <1>23 DEF NotDue, at, at2, u, u2
  <2>2. g < Interval
    <3>1. ~(Len(inputs) - compressed >= Interval)
      BY <1>23 DEF NotDue, IsDue, Round
    <3> QED BY <1>2, <1>3, <3>1 DEF g, Gap
  <2>3. "due" \in InTurn /\ "answer" \in InTurn
    BY DEF InTurn
  <2>4. /\ s <= Left + Added(u) + 2 * Interval /\ (g > 0 => s <= Room(g - 1, u))
        /\ \/ g = 0 /\ m <= Left
           \/ g > 0 /\ m <= s + 1
    BY <1>7, <2>1, <2>3
  <2>5. m + 1 <= Room(g, u)
    <3>1. CASE g = 0 /\ m <= Left
      <4>1. /\ m \in Nat /\ Left \in Nat /\ Added(u) \in Nat /\ Room(0, u) \in Nat
            /\ Left + 2 + Added(u) <= Room(0, u) /\ m <= Left
        BY <1>1, <1>3, <1>6, <1>11, <3>1
      <4>2. m + 1 <= Room(0, u)
        BY ONLY <4>1
      <4> QED BY <3>1, <4>2
    <3>2. CASE g > 0 /\ m <= s + 1
      BY <1>1, <1>9, <2>2, <2>4, <3>2
    <3> QED BY <2>4, <3>1, <3>2
  <2> QED BY <2>1, <2>3, <2>4, <2>5
<1>24. CASE Answer
  <2>1. /\ at = "answer" /\ at2 = "prompt" /\ g2 = g /\ u2 = u
        /\ msgs' = Append(msgs, Reply(Round, FinalAnswer(prompt, Round)))
    BY <1>4, <1>24 DEF Answer, at, at2, u, u2
  <2>2. m2 <= m + 1
    <3>1. FinalAnswer(prompt, Round) \in SUBSET Pieces
      BY FinalAnswerIs DEF ConvTypes
    <3>2. Reply(Round, FinalAnswer(prompt, Round)) \in Messages
      BY <3>1, PieceIs, ReplyIs
    <3> QED BY <1>1, <2>1, <3>2, MoreVoices DEF m, m2, Size
  <2>3. "prompt" \notin InTurn /\ "answer" \in InTurn
    BY DEF InTurn
  <2>4. m + 1 <= Room(g, u)
    BY <1>7, <2>1, <2>3
  <2>5. m2 <= Room(g, u)
    BY <1>1, <1>10, <2>2, <2>4
  <2> QED BY <2>1, <2>3, <2>5
<1>25. CASE Abort
  <2>1. at \in InTurn /\ at2 = "prompt" /\ g2 = g /\ m2 = s
        /\ u2 = IF compressed = Len(inputs) THEN u + 1 ELSE u
    BY <1>4, <1>25 DEF Abort, Round, InTurn, at, at2, u, u2
  <2>2. "prompt" \notin InTurn
    BY DEF InTurn
  <2>3. s <= Left + Added(u) + 2 * Interval /\ (g > 0 => s <= Room(g - 1, u))
    BY <1>7, <2>1
  <2>4. CASE g = 0
    <3>1. u2 = u + 1
      BY <1>2, <2>1, <2>4
    <3>2. s <= Room(0, u + 1)
      <4>1. Left + 2 + Added(u) + 2 * Interval <= Room(0, u + 1)
        <5>1. /\ Left \in Nat /\ Interval \in Nat /\ Added(u) \in Nat
              /\ Left + 2 + (Added(u) + 2 * Interval) <= Room(0, u + 1)
              /\ Room(0, u + 1) \in Nat
          BY <1>3, <1>6, <1>11
        <5> QED BY ONLY <5>1
      <4>2. s <= Left + Added(u) + 2 * Interval
        BY <2>3
      <4>3. Left + Added(u) + 2 * Interval \in Nat /\ Left + 2 + Added(u) + 2 * Interval \in Nat
        BY <1>3, <1>6
      <4>4. s <= Left + 2 + Added(u) + 2 * Interval
        BY ONLY <1>1, <1>3, <1>6, <4>2
      <4> QED BY <1>1, <1>11, <4>1, <4>3, <4>4
    <3> QED BY <2>1, <2>2, <2>4, <3>1, <3>2
  <2>5. CASE g > 0
    <3>1. u2 = u
      BY <1>2, <2>1, <2>5
    <3>2. s <= Room(g, u)
      BY <1>1, <1>9, <1>10, <2>3, <2>5
    <3> QED BY <2>1, <2>2, <3>1, <3>2
  <2> QED BY <1>2, <2>4, <2>5
<1>26. CASE UNCHANGED convVars
  <2>1. at2 = at /\ m2 = m /\ s2 = s /\ g2 = g /\ u2 = u
    BY <1>4, <1>26 DEF convVars, at, at2, u, u2
  <2> QED BY <1>7, <2>1
<1> QED BY <1>13, <1>14, <1>15, <1>16, <1>17, <1>18, <1>19, <1>20, <1>21, <1>22, <1>23,
           <1>24, <1>25, <1>26 DEF ConvNext

\* However the three ways to a compaction fall together, and whatever turns are aborted
\* after one, the conversation between turns stays within its bound.
THEOREM HistoryStaysBounded == ConvSpec => []HistoryIsBounded
<1> USE SizesArePositive, BoundsAreNatural
<1>1. ConvInit => ConvTypes /\ HistoryGrows
  BY ConvTypesInit, HistoryInit
<1>2. ConvTypes /\ HistoryGrows /\ [ConvNext]_convVars => ConvTypes' /\ HistoryGrows'
  <2> SUFFICES ASSUME ConvTypes, HistoryGrows, [ConvNext]_convVars
               PROVE  ConvTypes' /\ HistoryGrows'
    OBVIOUS
  <2>1. ConvTypes'
    BY ConvTypesStep
  <2>2. HistoryGrows'
    BY <2>1, HistoryStep
  <2> QED BY <2>1, <2>2
<1>3. ConvTypes /\ HistoryGrows => HistoryIsBounded
  <2> SUFFICES ASSUME ConvTypes, HistoryGrows, place = "prompt"
               PROVE  Cardinality({k \in DOMAIN msgs : Spoken(msgs[k])})
                        <= HeadCount + (IF Recent > ForcedRecent THEN Recent ELSE ForcedRecent)
                             + 2 * Interval * (undone + 1)
    BY DEF HistoryIsBounded
  <2>1. Cardinality({k \in DOMAIN msgs : Spoken(msgs[k])}) = Size(msgs)
    BY DEF Size, Voices
  <2>2. place \notin InTurn
    BY DEF InTurn
  <2>3. Size(msgs) <= Room(Gap, undone)
    BY <2>2 DEF HistoryGrows, Grows
  <2>4. Gap \in Nat /\ undone \in Nat /\ Size(msgs) \in Nat
    BY SizeIs DEF ConvTypes, Gap
  <2>5. /\ Room(Gap, undone) \in Nat
        /\ Room(Gap, undone) <= Left + Added(undone) + 2 * Interval
    BY <2>4, RoomIs
  <2>6. /\ Added(undone + 1) = Added(undone) + 2 * Interval /\ Added(undone) \in Nat
        /\ Left \in Nat /\ Interval \in Nat
    BY <2>4, LeftIs, AddedIs
  <2>7. Size(msgs) <= Left + Added(undone + 1)
    BY <2>3, <2>4, <2>5, <2>6
  <2> QED BY <2>1, <2>7 DEF Left, Added
<1> QED BY <1>1, <1>2, <1>3, PTL DEF ConvSpec

-----------------------------------------------------------------------------
(* Conversation: whose the answers are.                                    *)

\* An earlier turn with the input of turn t, since which an answer was given that was
\* about its own turn u or repeated an earlier one likewise.
Repeats(ins, t, u) ==
    \E q \in 1 .. t - 1 :
      /\ ins[q] = ins[t]
      /\ \E s \in q .. t - 1 : s = u \/ \E r \in 1 .. s - 1 : ins[r] = ins[s]

\* What an answer says is of its own turn, or of an earlier one it repeats.
Grounded(ins, m) ==
    \A p \in m.says : p.turn \in 1 .. m.turn /\ (p.turn = m.turn \/ Repeats(ins, m.turn, p.turn))

\* Questions and answers are in the order of their turns, up to the turn last.
Orderly(ins, list, last) ==
    /\ \A k \in Voices(list) : /\ list[k].turn \in 1 .. last
                               /\ list[k].is = "answer" => Grounded(ins, list[k])
    /\ \A i, j \in Voices(list) : i < j => list[i].turn <= list[j].turn

NoAnswerTo(list, t) == \A k \in Voices(list) : list[k].is = "answer" => list[k].turn # t

Uncut(pieces) == {[p EXCEPT !.cut = FALSE] : p \in pieces}

\* Every answer to turn t says all of what.
Says(list, t, what) ==
    \A k \in Voices(list) :
      list[k].is = "answer" /\ list[k].turn = t
        => Uncut({p \in list[k].says : p.turn = t}) = what

\* What the model said after place c.
Since(list, c) == UNION {list[k].says : k \in {j \in Voices(list) : j > c}}

\* The prompt of turn t, whose question is at place c.
Asked(ins, list, c, t, what) ==
    /\ c \in Voices(list) /\ list[c].is = "question" /\ list[c].turn = t
    /\ \A k \in Voices(list) : k < c => /\ list[k].turn \in 1 .. t - 1
                                        /\ list[k].is = "answer" => Grounded(ins, list[k])
    /\ \A i, j \in Voices(list) : i < j /\ j < c => list[i].turn <= list[j].turn
    /\ \A k \in Voices(list) : k > c => /\ list[k].is = "answer" /\ list[k].turn = t
                                        /\ \A p \in list[k].says : p.turn = t
    /\ Uncut(Since(list, c)) = what

\* The type of what was said.
LEMMA VoiceIs ==
    ASSUME NEW a \in Seq(Messages), NEW k \in Voices(a)
    PROVE  /\ k \in Nat /\ k \in 1 .. Len(a) /\ a[k] \in Messages
           /\ a[k].turn \in Nat /\ a[k].says \in SUBSET Pieces
           /\ (a[k].is = "question" \/ a[k].is = "answer")
<1>1. k \in 1 .. Len(a) /\ k \in DOMAIN a /\ Spoken(a[k])
  BY VoicesOf DEF Voices
<1>2. a[k] \in Messages /\ k \in Nat
  BY <1>1
<1> QED BY <1>1, <1>2 DEF Messages, Spoken

\* A part of an orderly list is orderly, ...
LEMMA ThinOrderly ==
    ASSUME NEW a \in Seq(Messages), NEW b \in Seq(Messages), Thin(b, a),
           NEW ins, NEW last
    PROVE  /\ Orderly(ins, a, last) => Orderly(ins, b, last)
           /\ \A t : NoAnswerTo(a, t) => NoAnswerTo(b, t)
           /\ \A t, what : Says(a, t, what) => Says(b, t, what)
<1>1. PICK f : Thins(f, b, a)
  BY DEF Thin
<1>2. /\ \A i \in Voices(b) : f[i] \in Voices(a) /\ b[i] = a[f[i]]
      /\ \A i, j \in Voices(b) : i < j => f[i] < f[j]
  BY <1>1 DEF Thins
<1>3. Orderly(ins, a, last) => Orderly(ins, b, last)
  BY <1>2 DEF Orderly
<1>4. \A t : NoAnswerTo(a, t) => NoAnswerTo(b, t)
  BY <1>2 DEF NoAnswerTo
<1>5. ASSUME NEW t, NEW what, Says(a, t, what) PROVE Says(b, t, what)
  <2> SUFFICES ASSUME NEW k \in Voices(b), b[k].is = "answer", b[k].turn = t
               PROVE  Uncut({p \in b[k].says : p.turn = t}) = what
    BY DEF Says
  <2>1. f[k] \in Voices(a) /\ b[k] = a[f[k]]
    BY <1>2
  <2>2. Uncut({p \in a[f[k]].says : p.turn = t}) = what
    BY <1>5, <2>1 DEF Says
  <2> QED BY <2>1, <2>2
<1> QED BY <1>3, <1>4, <1>5

\* What is at the places of a list with one message more.
LEMMA AppendVoices ==
    ASSUME NEW x \in Seq(Messages), NEW m \in Messages
    PROVE  LET b == Append(x, m)
           IN  /\ b \in Seq(Messages) /\ b[Len(x) + 1] = m
               /\ Spoken(m) => Voices(b) = Voices(x) \cup {Len(x) + 1}
               /\ ~Spoken(m) => Voices(b) = Voices(x)
               /\ \A k \in Voices(x) : b[k] = x[k] /\ k < Len(x) + 1
<1> DEFINE b == Append(x, m)
           l == Len(x)
<1>1. b \in Seq(Messages) /\ Len(b) = l + 1 /\ b[l + 1] = m /\ \A i \in 1 .. l : b[i] = x[i]
  BY AppendProperties
<1>2. l \in Nat /\ DOMAIN x = 1 .. l
  OBVIOUS
<1> HIDE DEF b, l
<1>3. DOMAIN b = 1 .. l + 1
  BY <1>1
<1>4. ASSUME NEW k
      PROVE  k \in Voices(b) <=> k \in Voices(x) \/ (Spoken(m) /\ k = l + 1)
  <2>1. CASE k = l + 1
    <3>1. k \in DOMAIN b /\ b[k] = m /\ k \notin DOMAIN x
      BY <1>1, <1>2, <1>3, <2>1
    <3> QED BY <2>1, <3>1 DEF Voices
  <2>2. CASE k # l + 1
    <3>1. k \in DOMAIN b <=> k \in DOMAIN x
      BY <1>2, <1>3, <2>2
    <3>2. k \in DOMAIN x => b[k] = x[k]
      BY <1>1, <1>2
    <3> QED BY <2>2, <3>1, <3>2 DEF Voices
  <2> QED BY <2>1, <2>2
<1>5. \A k \in Voices(x) : b[k] = x[k] /\ k < l + 1
  <2> TAKE k \in Voices(x)
  <2>1. k \in 1 .. l
    BY <1>2 DEF Voices
  <2> QED BY <1>1, <1>2, <2>1
<1>6. Spoken(m) => Voices(b) = Voices(x) \cup {l + 1}
  BY <1>4
<1>7. ~Spoken(m) => Voices(b) = Voices(x)
  BY <1>4
<1> QED BY <1>1, <1>5, <1>6, <1>7 DEF b, l

\* ... and so is one with the next message.
LEMMA AppendOrderly ==
    ASSUME NEW x \in Seq(Messages), NEW m \in Messages, NEW ins, NEW last \in Nat,
           Orderly(ins, x, last), m.turn = last, last >= 1, Spoken(m),
           m.is = "answer" => Grounded(ins, m)
    PROVE  Orderly(ins, Append(x, m), last)
<1> DEFINE b == Append(x, m)
           n == Len(x) + 1
<1>1. /\ b \in Seq(Messages) /\ b[n] = m /\ Voices(b) = Voices(x) \cup {n}
      /\ \A k \in Voices(x) : b[k] = x[k] /\ k < n
  BY AppendVoices
<1>2. \A k \in Voices(x) : k \in Nat /\ x[k].turn \in Nat
  BY VoiceIs
<1>3. n \in Nat
  OBVIOUS
<1> HIDE DEF b, n
<1>4. ASSUME NEW k \in Voices(b)
      PROVE  b[k].turn \in 1 .. last /\ (b[k].is = "answer" => Grounded(ins, b[k]))
  <2>1. CASE k = n
    BY <1>1, <2>1
  <2>2. CASE k \in Voices(x)
    BY <1>1, <2>2 DEF Orderly
  <2> QED BY <1>1, <2>1, <2>2
<1>5. ASSUME NEW i \in Voices(b), NEW j \in Voices(b), i < j
      PROVE  b[i].turn <= b[j].turn
  <2>1. CASE i = n
    BY <1>1, <1>2, <1>3, <1>5, <2>1
  <2>2. CASE i \in Voices(x) /\ j = n
    <3>1. b[i].turn \in 1 .. last /\ b[j].turn = last
      BY <1>1, <1>4, <2>2
    <3> QED BY <3>1
  <2>3. CASE i \in Voices(x) /\ j \in Voices(x)
    BY <1>1, <1>5, <2>3 DEF Orderly
  <2> QED BY <1>1, <2>1, <2>2, <2>3
<1> QED BY <1>4, <1>5 DEF Orderly, b

\* A question more changes nothing of what was said before.
LEMMA LaterOrderly ==
    ASSUME NEW S, NEW ins \in Seq(S), NEW input \in S, NEW a \in Seq(Messages),
           Orderly(ins, a, Len(ins))
    PROVE  Orderly(Append(ins, input), a, Len(ins))
<1> DEFINE more == Append(ins, input)
           n == Len(ins)
<1>1. n \in Nat /\ \A i \in 1 .. n : more[i] = ins[i]
  BY AppendProperties
<1> HIDE DEF more, n
<1>2. ASSUME NEW t \in 1 .. n, NEW u, Repeats(ins, t, u)
      PROVE  Repeats(more, t, u)
  <2>1. PICK q \in 1 .. t - 1 :
          /\ ins[q] = ins[t]
          /\ \E s \in q .. t - 1 : s = u \/ \E r \in 1 .. s - 1 : ins[r] = ins[s]
    BY <1>2 DEF Repeats
  <2>2. PICK s \in q .. t - 1 : s = u \/ \E r \in 1 .. s - 1 : ins[r] = ins[s]
    BY <2>1
  <2>3. q \in 1 .. n /\ s \in 1 .. n /\ \A r \in 1 .. s - 1 : r \in 1 .. n
    BY <1>1
  <2>4. more[q] = more[t]
    BY <1>1, <2>1, <2>3
  <2>5. s = u \/ \E r \in 1 .. s - 1 : more[r] = more[s]
    BY <1>1, <2>2, <2>3
  <2> QED BY <2>4, <2>5 DEF Repeats
<1>3. ASSUME NEW k \in Voices(a), a[k].is = "answer"
      PROVE  Grounded(more, a[k])
  <2>1. a[k].turn \in 1 .. n /\ Grounded(ins, a[k])
    BY <1>3 DEF Orderly, n
  <2> QED BY <1>2, <2>1 DEF Grounded
<1> QED BY <1>3 DEF Orderly, more, n

\* The prompt of a turn in which nothing was said yet.
LEMMA AssembleAsked ==
    ASSUME NEW a \in Seq(Messages), NEW ins, NEW t \in Nat, t >= 1, Orderly(ins, a, t - 1),
           NEW contexts
    PROVE  \E c : Asked(ins, Assemble(Append(a, Question(t)), contexts), c, t, {})
<1> DEFINE m == Question(t)
           n == Len(a) + 1
           x == Append(a, m)
           b == Assemble(x, contexts)
<1>1. m \in Messages /\ m.is = "question" /\ m.turn = t /\ Spoken(m)
  BY QuestionIs
<1>2. n \in Nat
  OBVIOUS
<1> HIDE DEF m
<1>3. /\ x \in Seq(Messages) /\ x[n] = m /\ Voices(x) = Voices(a) \cup {n}
      /\ \A k \in Voices(a) : x[k] = a[k] /\ k < n
  BY <1>1, AppendVoices
<1> HIDE DEF x, n
<1>4. /\ b \in Seq(Messages) /\ Thin(b, x)
      /\ \A k \in Voices(x) : x[k].is = "question" => \E j \in Voices(b) : b[j] = x[k]
  <2>1. x \in Seq(Messages)
    BY <1>3
  <2> QED BY <2>1, AssembleIs
<1> HIDE DEF b
<1>5. PICK c \in Voices(b) : b[c] = m
  BY <1>1, <1>3, <1>4
<1>6. PICK f : Thins(f, b, x)
  BY <1>4 DEF Thin
<1>7. /\ \A i \in Voices(b) : f[i] \in Voices(x) /\ b[i] = x[f[i]]
      /\ \A i, j \in Voices(b) : i < j => f[i] < f[j]
  BY <1>6 DEF Thins
<1>8. \A k \in Voices(x) : k \in Nat
  BY <1>3, VoiceIs
<1>9. f[c] = n
  <2>1. ASSUME f[c] \in Voices(a) PROVE FALSE
    <3>1. a[f[c]].turn = t
      BY <1>1, <1>3, <1>5, <1>7, <2>1
    <3>2. a[f[c]].turn \in 1 .. t - 1
      BY <2>1 DEF Orderly
    <3> QED BY <3>1, <3>2
  <2> QED BY <1>3, <1>7, <2>1
<1>10. ASSUME NEW k \in Voices(b), k # c
       PROVE  k < c /\ f[k] \in Voices(a) /\ b[k] = a[f[k]]
  <2>1. k \in Nat /\ c \in Nat /\ f[k] \in Nat /\ f[c] \in Nat
    BY <1>4, <1>7, <1>8, VoiceIs
  <2>2. f[k] <= n
    BY <1>2, <1>3, <1>7, <2>1
  <2>3. ~(c < k)
    <3>1. c < k => f[c] < f[k]
      BY <1>7
    <3> QED BY <1>2, <1>9, <2>1, <2>2, <3>1
  <2>4. k < c
    BY <1>10, <2>1, <2>3
  <2>5. f[k] < f[c]
    BY <1>7, <2>4
  <2>6. f[k] # n
    BY <1>2, <1>9, <2>1, <2>5
  <2> QED BY <1>3, <1>7, <2>4, <2>6
<1>11. \A k \in Voices(b) : k < c => /\ b[k].turn \in 1 .. t - 1
                                     /\ b[k].is = "answer" => Grounded(ins, b[k])
  <2> TAKE k \in Voices(b)
  <2> HAVE k < c
  <2>1. k # c
    BY <1>4, VoiceIs
  <2> QED BY <1>10, <2>1 DEF Orderly
<1>12. ASSUME NEW i \in Voices(b), NEW j \in Voices(b), i < j, j < c
       PROVE  b[i].turn <= b[j].turn
  <2>1. i \in Nat /\ j \in Nat /\ c \in Nat
    BY <1>4, VoiceIs
  <2>2. i # c /\ j # c /\ f[i] < f[j]
    BY <1>7, <1>12, <2>1
  <2> QED BY <1>10, <2>2 DEF Orderly
<1>13. \A k \in Voices(b) : ~(k > c)
  <2> TAKE k \in Voices(b)
  <2>1. k \in Nat /\ c \in Nat
    BY <1>4, VoiceIs
  <2> QED BY <1>10, <2>1
<1>14. Uncut(Since(b, c)) = {}
  BY <1>13 DEF Since, Uncut
<1>15. Asked(ins, b, c, t, {})
  BY <1>1, <1>5, <1>11, <1>12, <1>13, <1>14 DEF Asked
<1> QED BY <1>15 DEF b, x, m

\* Shortening a piece is undone, and keeps its turn.
LEMMA CutPieces ==
    ASSUME NEW s \in SUBSET Pieces
    PROVE  LET cut == {[p EXCEPT !.cut = TRUE] : p \in s}
           IN  Uncut(cut) = Uncut(s) /\ \A e \in cut : \E p \in s : e.turn = p.turn
<1> DEFINE cut == {[p EXCEPT !.cut = TRUE] : p \in s}
<1>1. \A p \in Pieces : /\ [[p EXCEPT !.cut = TRUE] EXCEPT !.cut = FALSE] = [p EXCEPT !.cut = FALSE]
                        /\ [p EXCEPT !.cut = TRUE].turn = p.turn
  BY DEF Pieces
<1>2. \A e \in cut : \E p \in s : e.turn = p.turn
  BY <1>1
<1>3. ASSUME NEW e
      PROVE  e \in Uncut(cut) <=> e \in Uncut(s)
  <2>1. ASSUME e \in Uncut(cut) PROVE e \in Uncut(s)
    <3>1. PICK d \in cut : e = [d EXCEPT !.cut = FALSE]
      BY <2>1 DEF Uncut
    <3>2. PICK p \in s : d = [p EXCEPT !.cut = TRUE]
      OBVIOUS
    <3>3. p \in Pieces
      OBVIOUS
    <3>4. e = [p EXCEPT !.cut = FALSE]
      BY <1>1, <3>1, <3>2, <3>3
    <3> QED BY <3>4 DEF Uncut
  <2>2. ASSUME e \in Uncut(s) PROVE e \in Uncut(cut)
    <3>1. PICK p \in s : e = [p EXCEPT !.cut = FALSE]
      BY <2>2 DEF Uncut
    <3> DEFINE d == [p EXCEPT !.cut = TRUE]
    <3>2. d \in cut
      OBVIOUS
    <3>3. e = [d EXCEPT !.cut = FALSE]
      BY <1>1, <3>1
    <3> HIDE DEF d, cut
    <3> QED BY <3>2, <3>3 DEF Uncut
  <2> QED BY <2>1, <2>2
<1>4. Uncut(cut) = Uncut(s)
  <2> HIDE DEF cut
  <2> QED BY <1>3 DEF Uncut
<1> QED BY <1>2, <1>4

\* Messages that are shortened say the same, as far as turns tell.
LEMMA FreezeAsked ==
    ASSUME NEW a \in Seq(Messages), NEW large, NEW ins, NEW c, NEW t \in Nat, NEW what,
           Asked(ins, a, c, t, what)
    PROVE  Asked(ins, Freeze(a, large), c, t, what)
<1> DEFINE b == Freeze(a, large)
<1>1. /\ b \in Seq(Messages) /\ DOMAIN b = DOMAIN a
      /\ \A k \in DOMAIN a : /\ b[k].is = a[k].is /\ b[k].turn = a[k].turn
                             /\ \/ b[k].says = a[k].says
                                \/ b[k].says = {[p EXCEPT !.cut = TRUE] : p \in a[k].says}
  BY FreezeIs
<1> HIDE DEF b
<1>2. Voices(b) = Voices(a)
  BY <1>1 DEF Voices, Spoken
<1>3. \A k \in Voices(a) : b[k].is = a[k].is /\ b[k].turn = a[k].turn
  BY <1>1 DEF Voices
<1>4. ASSUME NEW k \in Voices(a)
      PROVE  /\ Uncut(b[k].says) = Uncut(a[k].says)
             /\ \A e \in b[k].says : \E p \in a[k].says : e.turn = p.turn
  <2>1. k \in DOMAIN a /\ a[k].says \in SUBSET Pieces
    BY VoiceIs DEF Voices
  <2>2. CASE b[k].says = a[k].says
    BY <2>2
  <2>3. CASE b[k].says = {[p EXCEPT !.cut = TRUE] : p \in a[k].says}
    BY <2>1, <2>3, CutPieces
  <2> QED BY <1>1, <2>1, <2>2, <2>3
<1>5. ASSUME NEW k \in Voices(a), Grounded(ins, a[k])
      PROVE  Grounded(ins, b[k])
  BY <1>3, <1>4, <1>5 DEF Grounded
<1>6. ASSUME NEW e
      PROVE  e \in Uncut(Since(b, c)) <=> e \in Uncut(Since(a, c))
  <2>1. \A x \in {a, b} : e \in Uncut(Since(x, c)) <=>
                            \E k \in Voices(x) : k > c /\ e \in Uncut(x[k].says)
    BY DEF Uncut, Since
  <2> QED BY <1>2, <1>4, <2>1
<1>7. Uncut(Since(b, c)) = Uncut(Since(a, c))
  BY <1>6 DEF Uncut
<1> QED BY <1>2, <1>3, <1>4, <1>5, <1>7 DEF Asked, b

\* A reply adds what it says, a mark nothing.
LEMMA ReplyAsked ==
    ASSUME NEW a \in Seq(Messages), NEW ins, NEW c, NEW t \in Nat, NEW what,
           Asked(ins, a, c, t, what),
           NEW pieces \in SUBSET Pieces, \A p \in pieces : p.turn = t
    PROVE  Asked(ins, Append(a, Reply(t, pieces)), c, t, what \cup Uncut(pieces))
<1> DEFINE m == Reply(t, pieces)
           n == Len(a) + 1
           b == Append(a, m)
<1>1. m \in Messages /\ m.is = "answer" /\ m.turn = t /\ m.says = pieces /\ Spoken(m)
  BY ReplyIs
<1>2. n \in Nat
  OBVIOUS
<1> HIDE DEF m
<1>3. /\ b \in Seq(Messages) /\ b[n] = m /\ Voices(b) = Voices(a) \cup {n}
      /\ \A k \in Voices(a) : b[k] = a[k] /\ k < n
  BY <1>1, AppendVoices
<1> HIDE DEF b, n
<1>4. \A k \in Voices(a) : k \in Nat
  BY VoiceIs
<1>5. c \in Voices(a) /\ c \in Nat /\ c < n
  BY <1>3, <1>4 DEF Asked
<1>6. c \in Voices(b) /\ b[c].is = "question" /\ b[c].turn = t
  BY <1>3, <1>5 DEF Asked
<1>7. \A k \in Voices(b) : k < c => k \in Voices(a)
  BY <1>2, <1>3, <1>5
<1>8. \A k \in Voices(b) : k < c => /\ b[k].turn \in 1 .. t - 1
                                    /\ b[k].is = "answer" => Grounded(ins, b[k])
  BY <1>3, <1>7 DEF Asked
<1>9. ASSUME NEW i \in Voices(b), NEW j \in Voices(b), i < j, j < c
      PROVE  b[i].turn <= b[j].turn
  <2>1. j \in Voices(a) /\ j \in Nat
    BY <1>4, <1>7, <1>9
  <2>2. i \in Voices(a)
    BY <1>2, <1>3, <1>5, <1>9, <2>1
  <2> QED BY <1>3, <1>9, <2>1, <2>2 DEF Asked
<1>10. ASSUME NEW k \in Voices(b), k > c
       PROVE  /\ b[k].is = "answer" /\ b[k].turn = t
              /\ \A p \in b[k].says : p.turn = t
  <2>1. CASE k = n
    BY <1>1, <1>3, <2>1
  <2>2. CASE k \in Voices(a)
    BY <1>3, <1>10, <2>2 DEF Asked
  <2> QED BY <1>3, <2>1, <2>2
<1>11. ASSUME NEW e
       PROVE  e \in Uncut(Since(b, c)) <=> e \in what \/ e \in Uncut(pieces)
  <2>1. \A x \in {a, b} : e \in Uncut(Since(x, c)) <=>
                            \E k \in Voices(x) : k > c /\ e \in Uncut(x[k].says)
    BY DEF Uncut, Since
  <2>2. e \in what <=> \E k \in Voices(a) : k > c /\ e \in Uncut(a[k].says)
    BY <2>1 DEF Asked
  <2>3. b[n].says = pieces /\ n > c /\ n \in Voices(b)
    BY <1>1, <1>2, <1>3, <1>5
  <2> QED BY <1>3, <2>1, <2>2, <2>3
<1>12. Uncut(Since(b, c)) = what \cup Uncut(pieces)
  BY <1>11 DEF Uncut
<1>13. Asked(ins, b, c, t, what \cup Uncut(pieces))
  BY <1>6, <1>8, <1>9, <1>10, <1>12 DEF Asked
<1> QED BY <1>13 DEF b, m

LEMMA MarkAsked ==
    ASSUME NEW a \in Seq(Messages), NEW ins, NEW c, NEW t \in Nat, NEW what,
           Asked(ins, a, c, t, what), NEW m \in Messages, ~Spoken(m)
    PROVE  Asked(ins, Append(a, m), c, t, what)
<1> DEFINE b == Append(a, m)
<1>1. Voices(b) = Voices(a) /\ \A k \in Voices(a) : b[k] = a[k]
  BY AppendVoices
<1> HIDE DEF b
<1>2. Since(b, c) = Since(a, c)
  <2>1. {b[k].says : k \in {j \in Voices(b) : j > c}} = {a[k].says : k \in {j \in Voices(a) : j > c}}
    BY <1>1
  <2> QED BY <2>1 DEF Since
<1> QED BY <1>1, <1>2 DEF Asked, b

\* What the answer is put together from.
LEMMA AnswerIs ==
    ASSUME NEW a \in Seq(Messages), NEW c, NEW t \in Nat, t >= 1, NEW what,
           Asked(inputs, a, c, t, what)
    PROVE  LET whole == FinalAnswer(a, t)
           IN  /\ whole \in SUBSET Pieces
               /\ \A p \in whole : p.turn \in 1 .. t /\ (p.turn = t \/ Repeats(inputs, t, p.turn))
               /\ Uncut({p \in whole : p.turn = t}) = what
<1> DEFINE whole == FinalAnswer(a, t)
           J == {j \in DOMAIN a : /\ a[j].is = "answer"
                                  /\ \E i \in 1 .. j - 1 :
                                       a[i].is = "question" /\ inputs[a[i].turn] = inputs[t]}
<1>1. whole = UNION {a[k].says : k \in J}
  BY DEF FinalAnswer
<1>2. whole \in SUBSET Pieces
  BY FinalAnswerIs
<1>3. c \in Voices(a) /\ c \in Nat /\ a[c].is = "question" /\ a[c].turn = t
  BY VoiceIs DEF Asked
<1>4. ASSUME NEW j \in J
      PROVE  /\ j \in Voices(a) /\ j \in Nat /\ j # c /\ a[j].is = "answer"
             /\ \E i \in Voices(a) : /\ i \in Nat /\ i < j /\ a[i].is = "question"
                                     /\ inputs[a[i].turn] = inputs[t]
  <2>1. j \in DOMAIN a /\ a[j].is = "answer" /\ DOMAIN a = 1 .. Len(a) /\ Len(a) \in Nat
    OBVIOUS
  <2>2. PICK i \in 1 .. j - 1 : a[i].is = "question" /\ inputs[a[i].turn] = inputs[t]
    OBVIOUS
  <2>3. i \in Nat /\ i < j /\ i \in DOMAIN a /\ j \in Nat
    BY <2>1
  <2>4. i \in Voices(a) /\ j \in Voices(a)
    BY <2>1, <2>2, <2>3 DEF Voices, Spoken
  <2>5. j # c
    BY <1>3, <2>1
  <2> QED BY <2>1, <2>2, <2>3, <2>4, <2>5
<1>5. \A k \in Voices(a) : k > c => k \in J
  <2> TAKE k \in Voices(a)
  <2> HAVE k > c
  <2>1. k \in DOMAIN a /\ k \in Nat /\ a[k].is = "answer"
    BY VoiceIs DEF Asked, Voices
  <2>2. c \in 1 .. k - 1
    <3>1. c \in 1 .. Len(a)
      BY <1>3, VoiceIs
    <3> QED BY <1>3, <2>1, <3>1
  <2> QED BY <1>3, <2>1, <2>2
<1>6. \A p : p \in whole <=> \E j \in J : p \in a[j].says
  BY <1>1
<1> HIDE DEF J, whole
<1>7. ASSUME NEW p \in whole
      PROVE  /\ p.turn \in 1 .. t /\ (p.turn = t \/ Repeats(inputs, t, p.turn))
             /\ p.turn = t <=> p \in Since(a, c)
  <2>1. PICK j \in J : p \in a[j].says
    BY <1>6
  <2>2. CASE j > c
    <3>1. p.turn = t
      BY <1>4, <2>1, <2>2 DEF Asked
    <3>2. p \in Since(a, c)
      BY <1>4, <2>1, <2>2 DEF Since
    <3>3. t \in 1 .. t
      OBVIOUS
    <3> QED BY <3>1, <3>2, <3>3
  <2>3. CASE j < c
    <3> DEFINE u == p.turn
               s == a[j].turn
    <3>1. s \in 1 .. t - 1 /\ Grounded(inputs, a[j])
      BY <1>4, <2>3 DEF Asked
    <3>2. u \in 1 .. s /\ (u = s \/ Repeats(inputs, s, u))
      BY <2>1, <3>1 DEF Grounded
    <3>3. PICK i \in Voices(a) : /\ i \in Nat /\ i < j /\ a[i].is = "question"
                                 /\ inputs[a[i].turn] = inputs[t]
      BY <1>4
    <3> DEFINE q == a[i].turn
    <3>4. q <= s /\ q \in 1 .. t - 1
      <4>1. i < c
        BY <1>3, <1>4, <2>3, <3>3
      <4> QED BY <1>4, <2>3, <3>3, <4>1 DEF Asked
    <3>5. inputs[q] = inputs[t]
      BY <3>3
    <3> HIDE DEF u, s, q
    <3>6. s = u \/ \E r \in 1 .. s - 1 : inputs[r] = inputs[s]
      BY <3>2 DEF Repeats
    <3>7. s \in q .. t - 1
      BY <3>1, <3>4
    <3>8. Repeats(inputs, t, u)
      BY <3>4, <3>5, <3>6, <3>7 DEF Repeats
    <3>9. u \in 1 .. t /\ u # t
      BY <3>1, <3>2
    <3>10. p \notin Since(a, c)
      <4>1. ASSUME p \in Since(a, c) PROVE FALSE
        <5>1. p.turn = t
          BY <4>1 DEF Since, Asked
        <5> QED BY <3>9, <5>1 DEF u
      <4> QED BY <4>1
    <3> QED BY <3>8, <3>9, <3>10 DEF u
  <2> QED BY <1>3, <1>4, <2>2, <2>3
<1>8. {p \in whole : p.turn = t} = Since(a, c)
  <2>1. ASSUME NEW p \in Since(a, c)
        PROVE  p \in whole
    <3>1. PICK k \in Voices(a) : k > c /\ p \in a[k].says
      BY DEF Since
    <3> QED BY <1>5, <1>6, <3>1
  <2> QED BY <1>7, <2>1
<1>9. Uncut({p \in whole : p.turn = t}) = what
  BY <1>8 DEF Asked
<1> QED BY <1>2, <1>7, <1>9 DEF whole

\* In a turn the messages have no answer to it yet, and the prompt has its question and
\* then all that was said since; between turns its answer, if any, says all of that.
Owned(at, list, was, asked, ins, what) ==
    LET t == Len(ins)
    IN  IF at \in InTurn
        THEN /\ t >= 1
             /\ Orderly(ins, list, t) /\ NoAnswerTo(list, t) /\ Orderly(ins, was, t - 1)
             /\ IF at = "hooks"
                THEN list = Append(was, Question(t)) /\ what = {}
                ELSE \E c : Asked(ins, asked, c, t, what)
        ELSE Orderly(ins, list, t) /\ Says(list, t, what)

\* Of what was said, the part that no error broke off.
Told(pieces) == {p \in pieces : ~p.cut}

AnswersOwned == Owned(place, msgs, saved, prompt, inputs, Told(said))

\* Nobody has answered the turn that comes next.
LEMMA WiderOrderly ==
    ASSUME NEW a \in Seq(Messages), NEW ins, NEW n \in Nat, Orderly(ins, a, n)
    PROVE  /\ Orderly(ins, a, n + 1) /\ NoAnswerTo(a, n + 1)
           /\ \A what : Says(a, n + 1, what)
<1>1. \A k \in Voices(a) : a[k].turn \in 1 .. n
  BY DEF Orderly
<1>2. \A k \in Voices(a) : a[k].turn \in 1 .. n + 1 /\ a[k].turn # n + 1
  BY <1>1
<1> QED BY <1>2 DEF Orderly, NoAnswerTo, Says

LEMMA OwnedInit ==
    ASSUME ConvInit
    PROVE  AnswersOwned
<1>1. place = "start" /\ place \notin InTurn
  BY DEF ConvInit, InTurn
<1>2. Voices(msgs) = {}
  <2>1. "system_prompt" \in Kinds /\ "system_prompt" # "question" /\ "system_prompt" # "answer"
    BY DEF Kinds
  <2> QED BY <2>1, OneMark DEF ConvInit
<1> QED BY <1>1, <1>2 DEF AnswersOwned, Owned, Orderly, Says

LEMMA OwnedStep ==
    ASSUME SizesArePositive, ConvTypes, ConvTypes', AnswersOwned, [ConvNext]_convVars
    PROVE  AnswersOwned'
<1> DEFINE t == Len(inputs)
<1>1. /\ msgs \in Seq(Messages) /\ msgs' \in Seq(Messages) /\ saved \in Seq(Messages)
      /\ prompt \in Seq(Messages) /\ prompt' \in Seq(Messages)
      /\ inputs \in Seq(Inputs) /\ t \in Nat /\ Round = t
  BY DEF ConvTypes, Round
<1>2. Owned(place, msgs, saved, prompt, inputs, Told(said))
  BY DEF AnswersOwned
<1>3. SUFFICES Owned(place', msgs', saved', prompt', inputs', Told(said'))
  BY DEF AnswersOwned
<1>4. place \in InTurn =>
        /\ t >= 1
        /\ Orderly(inputs, msgs, t) /\ NoAnswerTo(msgs, t) /\ Orderly(inputs, saved, t - 1)
        /\ place = "hooks" => msgs = Append(saved, Question(t)) /\ Told(said) = {}
        /\ place # "hooks" => \E c : Asked(inputs, prompt, c, t, Told(said))
  BY <1>2 DEF Owned
<1>5. place \notin InTurn => Orderly(inputs, msgs, t) /\ Says(msgs, t, Told(said))
  BY <1>2 DEF Owned
<1>6. inputs' = inputs => Len(inputs') = t
  OBVIOUS
<1> HIDE DEF t
\* A step within a turn, and one between turns, that only thin out the messages.
<1>7. ASSUME place \in InTurn, place # "hooks", place' \in InTurn, place' # "hooks",
             Thin(msgs', msgs), UNCHANGED <<inputs, saved, prompt, said>>
      PROVE  Owned(place', msgs', saved', prompt', inputs', Told(said'))
  <2>1. Orderly(inputs, msgs', t) /\ NoAnswerTo(msgs', t)
    BY <1>1, <1>4, <1>7, ThinOrderly
  <2> QED BY <1>4, <1>6, <1>7, <2>1 DEF Owned
<1>8. ASSUME place \notin InTurn, place' \notin InTurn, Thin(msgs', msgs),
             UNCHANGED <<inputs, said>>
      PROVE  Owned(place', msgs', saved', prompt', inputs', Told(said'))
  <2>1. Orderly(inputs, msgs', t) /\ Says(msgs', t, Told(said))
    BY <1>1, <1>5, <1>8, ThinOrderly
  <2> QED BY <1>6, <1>8, <2>1 DEF Owned
<1>9. msgs' = msgs => Thin(msgs', msgs)
  BY ThinSame
\* A step of the rounds.
<1>10. ASSUME place \in InTurn, place' \in InTurn, place' # "hooks",
              UNCHANGED <<msgs, inputs, saved>>,
              \E c : Asked(inputs, prompt', c, t, Told(said'))
       PROVE  Owned(place', msgs', saved', prompt', inputs', Told(said'))
  BY <1>4, <1>6, <1>10 DEF Owned
<1>11. ASSUME NEW force \in BOOLEAN, NEW ifDone, NEW ifNot, Compact(force, ifDone, ifNot)
       PROVE  Thin(msgs', msgs) /\ (place' = ifDone \/ place' = ifNot)
  BY <1>1, <1>9, <1>11, CompactDoes
<1>12. /\ "start" \notin InTurn /\ "prompt" \notin InTurn
       /\ InTurn = {"hooks", "model", "compact", "told", "due", "toldAgain", "answer"}
  BY DEF InTurn
<1>13. CASE Rebuild
  BY <1>8, <1>9, <1>12, <1>13 DEF Rebuild
<1>14. CASE CompactByCommand
  <2>1. PICK pressure \in Pressures : msgs' = Compacted(pressure, TRUE)
    BY <1>14 DEF CompactByCommand
  <2>2. Thin(msgs', msgs)
    BY <1>1, <2>1, CompactedIs
  <2> QED BY <1>8, <1>12, <1>14, <2>2 DEF CompactByCommand
<1>15. CASE CompactByRequest
  <2>1. Thin(msgs', msgs) /\ place' = "prompt"
    BY <1>11, <1>15 DEF CompactByRequest
  <2> QED BY <1>8, <1>12, <1>15, <2>1 DEF CompactByRequest
<1>16. CASE Ask
  <2>1. PICK input \in Inputs : inputs' = Append(inputs, input)
    BY <1>16 DEF Ask
  <2>2. Len(inputs') = t + 1
    BY <1>1, <2>1, AppendProperties DEF t
  <2> DEFINE m == Question(t + 1)
  <2>3. /\ msgs' = Append(msgs, m) /\ saved' = msgs /\ said' = {} /\ place' = "hooks"
        /\ place = "prompt"
    BY <1>1, <1>16 DEF Ask
  <2>4. Orderly(inputs', msgs, t)
    BY <1>1, <1>5, <1>12, <2>1, <2>3, LaterOrderly DEF t
  <2>5. Orderly(inputs', msgs, t + 1) /\ NoAnswerTo(msgs, t + 1)
    BY <1>1, <2>4, WiderOrderly
  <2>6. t + 1 \in Nat /\ t + 1 >= 1 /\ t + 1 - 1 = t
    BY <1>1
  <2>7. /\ m \in Messages /\ m.is = "question" /\ m.turn = t + 1
        /\ Spoken(m) /\ m.is # "answer"
    BY <2>6, QuestionIs
  <2> HIDE DEF m
  <2>8. Orderly(inputs', Append(msgs, m), t + 1)
    BY <1>1, <2>5, <2>6, <2>7, AppendOrderly
  <2>9. NoAnswerTo(Append(msgs, m), t + 1)
    <3> DEFINE b == Append(msgs, m)
    <3>1. /\ Voices(b) = Voices(msgs) \cup {Len(msgs) + 1} /\ b[Len(msgs) + 1] = m
          /\ \A k \in Voices(msgs) : b[k] = msgs[k]
      <4>1. msgs \in Seq(Messages) /\ m \in Messages /\ Spoken(m)
        BY <1>1, <2>7
      <4>2. /\ b[Len(msgs) + 1] = m
            /\ Spoken(m) => Voices(b) = Voices(msgs) \cup {Len(msgs) + 1}
            /\ \A k \in Voices(msgs) : b[k] = msgs[k] /\ k < Len(msgs) + 1
        BY <4>1, AppendVoices
      <4> HIDE DEF b
      <4> QED BY <4>1, <4>2
    <3> HIDE DEF b
    <3>2. NoAnswerTo(b, t + 1)
      BY <2>5, <2>7, <3>1 DEF NoAnswerTo
    <3> QED BY <3>2 DEF b
  <2>10. Orderly(inputs', msgs, Len(inputs') - 1)
    <3>1. Len(inputs') - 1 = t
      BY <1>1, <2>2
    <3> QED BY <2>4, <3>1, Zenon
  <2> DEFINE n == Len(inputs')
  <2>11. /\ n >= 1 /\ Orderly(inputs', msgs', n) /\ NoAnswerTo(msgs', n)
         /\ Orderly(inputs', saved', n - 1) /\ msgs' = Append(saved', Question(n))
    BY <2>2, <2>3, <2>6, <2>8, <2>9, <2>10 DEF m
  <2> HIDE DEF n
  <2>12. place' \in InTurn /\ place' = "hooks"
    BY <1>12, <2>3
  <2>13. Told(said') = {}
    BY <2>3 DEF Told
  <2> QED BY <2>11, <2>12, <2>13 DEF Owned, n
<1>17. CASE Assembles
  <2>1. PICK contexts : prompt' = Assemble(msgs, contexts)
    BY <1>17 DEF Assembles
  <2>2. /\ place = "hooks" /\ place' = "model" /\ place # "model"
        /\ UNCHANGED <<msgs, inputs, saved, said>>
    BY <1>17 DEF Assembles
  <2>3. /\ t >= 1 /\ Orderly(inputs, saved, t - 1)
        /\ msgs = Append(saved, Question(t)) /\ Told(said) = {}
    BY <1>4, <1>12, <2>2
  <2>4. \E c : Asked(inputs, Assemble(Append(saved, Question(t)), contexts), c, t, {})
    BY <1>1, <2>3, AssembleAsked
  <2>5. \E c : Asked(inputs, prompt', c, t, Told(said'))
    BY <2>1, <2>2, <2>3, <2>4
  <2> QED BY <1>10, <1>12, <2>2, <2>5
<1>18. CASE ToolRound
  <2>1. PICK pieces \in {{}, {Piece}} :
          /\ \E large : prompt' = Freeze(prompt \o <<Reply(Round, pieces),
                                                        Is("tool_result")>>, large)
          /\ said' = said \cup pieces
    BY <1>18 DEF ToolRound
  <2>2. place = "model" /\ place' = "model" /\ UNCHANGED <<msgs, inputs, saved>>
    BY <1>18 DEF ToolRound
  <2>3. PICK c : Asked(inputs, prompt, c, t, Told(said))
    BY <1>4, <1>12, <2>2
  <2> DEFINE r == Reply(Round, pieces)
             e == Is("tool_result")
             a == prompt \o <<r, e>>
  <2>4. /\ pieces \in SUBSET Pieces /\ r \in Messages /\ a = Append(Append(prompt, r), e)
        /\ e \in Messages /\ ~Spoken(e) /\ a \in Seq(Messages)
    BY RoundIs
  <2>5. \A p \in pieces : p.turn = t /\ [p EXCEPT !.cut = FALSE] = p
    BY PieceIs DEF t
  <2>6. Uncut(pieces) = pieces
    BY <2>5 DEF Uncut
  <2>7. Asked(inputs, Append(prompt, r), c, t, Told(said) \cup pieces)
    BY <1>1, <2>3, <2>4, <2>5, <2>6, ReplyAsked
  <2>8. PICK large : prompt' = Freeze(a, large)
    BY <2>1
  <2> HIDE DEF r, e, a
  <2>9. Append(prompt, r) \in Seq(Messages)
    BY <1>1, <2>4, AppendProperties
  <2>10. Asked(inputs, a, c, t, Told(said) \cup pieces)
    BY <1>1, <2>4, <2>7, <2>9, MarkAsked
  <2>12. Told(said') = Told(said) \cup pieces
    <3>1. \A p \in pieces : ~p.cut
      BY DEF Piece
    <3> QED BY <2>1, <3>1 DEF Told
  <2>11. Asked(inputs, prompt', c, t, Told(said'))
    BY <1>1, <2>4, <2>8, <2>10, <2>12, FreezeAsked
  <2> QED BY <1>10, <1>12, <2>2, <2>11
<1>19. CASE LastRound
  <2>1. place = "model" /\ place' = "compact" /\ UNCHANGED <<msgs, inputs, saved>>
    BY <1>19 DEF LastRound
  <2>2. PICK c : Asked(inputs, prompt, c, t, Told(said))
    BY <1>4, <1>12, <2>1
  <2> DEFINE r == Reply(t, {Piece})
  <2>8. /\ Told(said \cup {BrokenOff}) = Told(said)
        /\ Told(said \cup {Piece}) = Told(said) \cup {Piece}
    BY DEF Told, BrokenOff, Piece
  <2>3. \/ prompt' = prompt /\ Told(said') = Told(said)
        \/ prompt' = Append(prompt, r) /\ Told(said') = Told(said) \cup {Piece}
    BY <1>1, <1>19, <2>8 DEF LastRound
  <2>4. {Piece} \in SUBSET Pieces /\ \A p \in {Piece} : p.turn = t
    BY PieceIs DEF t
  <2>5. Uncut({Piece}) = {Piece}
    BY PieceIs DEF Uncut
  <2>6. Asked(inputs, Append(prompt, r), c, t, Told(said) \cup {Piece})
    BY <1>1, <2>2, <2>4, <2>5, ReplyAsked
  <2> HIDE DEF r
  <2>7. Asked(inputs, prompt', c, t, Told(said'))
    BY <2>2, <2>3, <2>6
  <2> QED BY <1>10, <1>12, <2>1, <2>7
<1>20. CASE CompactBySize
  <2>1. Thin(msgs', msgs) /\ (place' = "told" \/ place' = "due")
    BY <1>11, <1>20 DEF CompactBySize
  <2> QED BY <1>7, <1>12, <1>20, <2>1 DEF CompactBySize
<1>21. CASE GoesOn
  BY <1>7, <1>9, <1>12, <1>21 DEF GoesOn
<1>22. CASE CompactByRounds
  <2>1. Thin(msgs', msgs) /\ (place' = "toldAgain" \/ place' = "answer")
    BY <1>11, <1>22 DEF CompactByRounds
  <2> QED BY <1>7, <1>12, <1>22, <2>1 DEF CompactByRounds
<1>23. CASE NotDue
  BY <1>7, <1>9, <1>12, <1>23 DEF NotDue
<1>24. CASE Answer
  <2> DEFINE whole == FinalAnswer(prompt, t)
             m == Reply(t, whole)
             b == Append(msgs, m)
  <2>1. place = "answer" /\ place' = "prompt" /\ msgs' = b /\ UNCHANGED <<inputs, said>>
    BY <1>1, <1>24 DEF Answer
  <2>2. t >= 1 /\ Orderly(inputs, msgs, t) /\ NoAnswerTo(msgs, t)
        /\ \E c : Asked(inputs, prompt, c, t, Told(said))
    BY <1>4, <1>12, <2>1
  <2>3. /\ whole \in SUBSET Pieces
        /\ \A p \in whole : p.turn \in 1 .. t /\ (p.turn = t \/ Repeats(inputs, t, p.turn))
        /\ Uncut({p \in whole : p.turn = t}) = Told(said)
    BY <1>1, <2>2, AnswerIs
  <2> HIDE DEF whole
  <2>4. m \in Messages /\ m.is = "answer" /\ m.turn = t /\ m.says = whole /\ Spoken(m)
    BY <1>1, <2>3, ReplyIs
  <2> HIDE DEF m
  <2>5. Grounded(inputs, m)
    BY <2>3, <2>4 DEF Grounded
  <2>6. Orderly(inputs, b, t)
    BY <1>1, <2>2, <2>4, <2>5, AppendOrderly
  <2>7. /\ Voices(b) = Voices(msgs) \cup {Len(msgs) + 1} /\ b[Len(msgs) + 1] = m
        /\ \A k \in Voices(msgs) : b[k] = msgs[k]
    <3>1. msgs \in Seq(Messages) /\ m \in Messages /\ Spoken(m)
      BY <1>1, <2>4
    <3>2. /\ b[Len(msgs) + 1] = m
          /\ Spoken(m) => Voices(b) = Voices(msgs) \cup {Len(msgs) + 1}
          /\ \A k \in Voices(msgs) : b[k] = msgs[k] /\ k < Len(msgs) + 1
      BY <3>1, AppendVoices
    <3> HIDE DEF b
    <3> QED BY <3>1, <3>2
  <2> HIDE DEF b
  <2>8. Says(b, t, Told(said))
    BY <2>2, <2>3, <2>4, <2>7 DEF Says, NoAnswerTo
  <2> QED BY <1>6, <1>12, <2>1, <2>6, <2>8 DEF Owned
<1>25. CASE Abort
  <2>1. /\ place \in InTurn /\ place' = "prompt" /\ msgs' = saved /\ said' = {}
        /\ UNCHANGED inputs
    BY <1>12, <1>25 DEF Abort
  <2>2. t >= 1 /\ Orderly(inputs, saved, t - 1)
    BY <1>4, <2>1
  <2> DEFINE n == t - 1
  <2>3. n \in Nat /\ n + 1 = t
    BY <1>1, <2>2
  <2> HIDE DEF n
  <2>4. Orderly(inputs, saved, n + 1) /\ Says(saved, n + 1, {})
    BY <1>1, <2>2, <2>3, WiderOrderly DEF n
  <2>5. Told(said') = {}
    BY <2>1 DEF Told
  <2> QED BY <1>6, <1>12, <2>1, <2>3, <2>4, <2>5 DEF Owned
<1>26. CASE UNCHANGED convVars
  BY <1>2, <1>26 DEF convVars
<1> QED BY <1>13, <1>14, <1>15, <1>16, <1>17, <1>18, <1>19, <1>20, <1>21, <1>22, <1>23,
           <1>24, <1>25, <1>26 DEF ConvNext

\* Whatever was compacted, shortened or aborted in between, an answer says all that the
\* model said to the user in its turn, but for a round that an error broke off; what
\* else it says is of a turn that an equal input repeats.
THEOREM AnswersStayOwn == ConvSpec => []AnswersAreOwn
<1> USE SizesArePositive, BoundsAreNatural
<1>1. ConvInit => ConvTypes /\ AnswersOwned
  BY ConvTypesInit, OwnedInit
<1>2. ConvTypes /\ AnswersOwned /\ [ConvNext]_convVars => ConvTypes' /\ AnswersOwned'
  <2> SUFFICES ASSUME ConvTypes, AnswersOwned, [ConvNext]_convVars
               PROVE  ConvTypes' /\ AnswersOwned'
    OBVIOUS
  <2>1. ConvTypes'
    BY ConvTypesStep
  <2>2. AnswersOwned'
    BY <2>1, OwnedStep
  <2> QED BY <2>1, <2>2
<1>3. ConvTypes /\ AnswersOwned => AnswersAreOwn
  <2> SUFFICES ASSUME ConvTypes, AnswersOwned, NEW k \in DOMAIN msgs, msgs[k].is = "answer"
               PROVE  LET t == msgs[k].turn
                          own == {p \in msgs[k].says : p.turn = t}
                      IN  /\ t = Round => {[p EXCEPT !.cut = FALSE] : p \in own}
                                             = {p \in said : ~p.cut}
                          /\ \A p \in msgs[k].says \ own :
                               \E q \in 1 .. t - 1 :
                                 /\ inputs[q] = inputs[t]
                                 /\ \E s \in q .. t - 1 :
                                      s = p.turn \/ \E r \in 1 .. s - 1 : inputs[r] = inputs[s]
    BY DEF AnswersAreOwn
  <2> DEFINE t == msgs[k].turn
             own == {p \in msgs[k].says : p.turn = t}
  <2>1. k \in Voices(msgs)
    BY DEF Voices, Spoken
  <2>2. Orderly(inputs, msgs, Len(inputs))
    BY DEF AnswersOwned, Owned
  <2>3. t = Len(inputs) => Uncut(own) = Told(said)
    <3> SUFFICES ASSUME t = Len(inputs)
                 PROVE  Uncut(own) = Told(said)
      OBVIOUS
    <3>1. ~NoAnswerTo(msgs, Len(inputs))
      BY <2>1 DEF NoAnswerTo
    <3>2. Says(msgs, Len(inputs), Told(said))
      BY <3>1 DEF AnswersOwned, Owned
    <3> QED BY <2>1, <3>2 DEF Says
  <2>4. Grounded(inputs, msgs[k])
    BY <2>1, <2>2 DEF Orderly
  <2>5. \A p \in msgs[k].says \ own : Repeats(inputs, t, p.turn)
    BY <2>4 DEF Grounded
  <2> QED BY <2>3, <2>5 DEF Uncut, Told, Repeats, Round
<1> QED BY <1>1, <1>2, <1>3, PTL DEF ConvSpec

-----------------------------------------------------------------------------
(* Conversation: the hooks of a call.                                      *)

\* The hooks as a set of records.
HookSet == {Registrations[i] : i \in DOMAIN Registrations}

\* f gives the registrations that the hooks of a list are from, those of H and each
\* before the next.
Ranks(f, hooks, H) ==
    /\ f \in [1 .. Len(hooks) -> H]
    /\ \A i \in 1 .. Len(hooks) : hooks[i] = Registrations[f[i]]
    /\ \A i, j \in 1 .. Len(hooks) : i < j => Before(Registrations, f[i], f[j])
    /\ \A h \in H : \E i \in 1 .. Len(hooks) : f[i] = h

\* Of no hooks, nothing.
LEMMA RanksNone == \E f : Ranks(f, <<>>, {})
<1> DEFINE f == [i \in 1 .. 0 |-> i]
<1>1. Len(<<>>) = 0 /\ 1 .. 0 = {}
  OBVIOUS
<1>2. f \in [1 .. 0 -> {}]
  BY <1>1
<1> HIDE DEF f
<1>3. Ranks(f, <<>>, {})
  BY <1>1, <1>2 DEF Ranks
<1> QED BY <1>3

\* Some of a list, in its order.
LEMMA SomeRanks ==
    ASSUME NEW S, NEW hooks \in Seq(S), NEW f, NEW H, Ranks(f, hooks, H),
           NEW places \in SUBSET DOMAIN hooks,
           NEW K, \A h : h \in K <=> \E p \in places : h = f[p]
    PROVE  /\ At(hooks, places) \in Seq(S)
           /\ \E g : Ranks(g, At(hooks, places), K)
<1> DEFINE some == At(hooks, places)
<1>1. PICK e : Chooses(e, some, hooks, places)
  BY AtIs
<1>2. some \in Seq(S)
  BY AtIs
<1> HIDE DEF some
<1> DEFINE n == Len(some)
           g == [i \in 1 .. n |-> f[e[i]]]
<1>3. /\ e \in [1 .. n -> places]
      /\ \A i \in 1 .. n : some[i] = hooks[e[i]]
      /\ \A i, j \in 1 .. n : i < j => e[i] < e[j]
      /\ \A p \in places : \E i \in 1 .. n : e[i] = p
  BY <1>1 DEF Chooses
<1>4. /\ places \in SUBSET (1 .. Len(hooks))
      /\ \A i \in 1 .. Len(hooks) : hooks[i] = Registrations[f[i]]
      /\ \A i, j \in 1 .. Len(hooks) : i < j => Before(Registrations, f[i], f[j])
  BY DEF Ranks
<1> HIDE DEF n
<1>5. \A i \in 1 .. n : g[i] = f[e[i]] /\ e[i] \in places /\ e[i] \in 1 .. Len(hooks)
  BY <1>3, <1>4
<1>6. g \in [1 .. n -> K]
  BY <1>3
<1> HIDE DEF g
<1>7. \A i \in 1 .. n : some[i] = Registrations[g[i]]
  BY <1>3, <1>4, <1>5
<1>8. \A i, j \in 1 .. n : i < j => Before(Registrations, g[i], g[j])
  BY <1>3, <1>4, <1>5
<1>9. \A h \in K : \E i \in 1 .. n : g[i] = h
  BY <1>3, <1>5
<1>10. Ranks(g, some, K)
  BY <1>6, <1>7, <1>8, <1>9 DEF Ranks, n
<1> QED BY <1>2, <1>10 DEF some

\* A hook that is registered goes behind those that come before it, and before the rest.
LEMMA RegisterRanks ==
    ASSUME NEW S, NEW hooks \in Seq(S), NEW m \in Nat, m + 1 \in DOMAIN Registrations,
           \A i \in 1 .. m + 1 : Registrations[i] \in S /\ Registrations[i].priority \in Int,
           \E f : Ranks(f, hooks, 1 .. m)
    PROVE  /\ Register(hooks, Registrations[m + 1]) \in Seq(S)
           /\ \E f : Ranks(f, Register(hooks, Registrations[m + 1]), 1 .. m + 1)
<1>1. PICK f : Ranks(f, hooks, 1 .. m)
  OBVIOUS
<1> DEFINE h == Registrations[m + 1]
           front == {i \in DOMAIN hooks : hooks[i].priority >= h.priority}
           back == DOMAIN hooks \ front
           a == At(hooks, front)
           b == At(hooks, back)
           c == Append(a, h)
           all == c \o b
           A == {f[p] : p \in front}
           B == {f[p] : p \in back}
<1>2. Register(hooks, h) = all
  BY Zenon DEF Register
<1>3. h \in S /\ h.priority \in Int /\ m + 1 \in 1 .. m + 1
  <2>1. m + 1 \in 1 .. m + 1
    OBVIOUS
  <2> QED BY <2>1
<1>4. front \in SUBSET DOMAIN hooks /\ back \in SUBSET DOMAIN hooks
      /\ front \cup back = DOMAIN hooks
  OBVIOUS
<1>5. /\ f \in [1 .. Len(hooks) -> 1 .. m]
      /\ \A i \in 1 .. Len(hooks) : hooks[i] = Registrations[f[i]]
      /\ \A x \in 1 .. m : \E i \in 1 .. Len(hooks) : f[i] = x
      /\ DOMAIN hooks = 1 .. Len(hooks)
  BY <1>1 DEF Ranks
<1>6. \A x \in A : x \in 1 .. m /\ Registrations[x].priority >= h.priority
  <2> TAKE x \in A
  <2>1. PICK p \in front : x = f[p]
    OBVIOUS
  <2>2. p \in 1 .. Len(hooks) /\ hooks[p].priority >= h.priority
    BY <2>1, <1>5
  <2> HIDE DEF front, A, h
  <2> QED BY <1>5, <2>1, <2>2
<1>7. \A x \in B : x \in 1 .. m /\ ~(Registrations[x].priority >= h.priority)
  <2> TAKE x \in B
  <2>1. PICK p \in back : x = f[p]
    OBVIOUS
  <2>2. p \in 1 .. Len(hooks) /\ ~(hooks[p].priority >= h.priority)
    BY <2>1, <1>5
  <2> HIDE DEF front, B, h
  <2> QED BY <1>5, <2>1, <2>2
<1>8. \A x : x \in A <=> \E i \in front : x = f[i]
  OBVIOUS
<1>9. \A x : x \in B <=> \E i \in back : x = f[i]
  OBVIOUS
<1>10. A \cup B = 1 .. m
  <2>1. \A x \in 1 .. m : x \in A \/ x \in B
    <3> TAKE x \in 1 .. m
    <3>1. PICK i \in 1 .. Len(hooks) : f[i] = x
      BY <1>5
    <3>2. i \in front \/ i \in back
      BY <1>5
    <3> HIDE DEF front, back
    <3> QED BY <3>1, <3>2
  <2> HIDE DEF A, B
  <2> QED BY <2>1, <1>6, <1>7
<1> HIDE DEF front, back, A, B
<1>11. a \in Seq(S) /\ \E g : Ranks(g, a, A)
  BY <1>1, <1>4, <1>8, SomeRanks
<1>12. b \in Seq(S) /\ \E g : Ranks(g, b, B)
  BY <1>1, <1>4, <1>9, SomeRanks
<1> HIDE DEF a, b
<1>13. PICK g1 : Ranks(g1, a, A)
  BY <1>11
<1>14. PICK g2 : Ranks(g2, b, B)
  BY <1>12
<1> DEFINE p == Len(a)
           q == Len(b)
           g == [i \in 1 .. p + 1 + q |-> IF i <= p THEN g1[i]
                                          ELSE IF i = p + 1 THEN m + 1 ELSE g2[i - (p + 1)]]
<1>15. p \in Nat /\ q \in Nat
  BY <1>11, <1>12
<1>16. /\ c \in Seq(S) /\ Len(c) = p + 1 /\ c[p + 1] = h
       /\ \A i \in 1 .. p : c[i] = a[i]
  <2> HIDE DEF h
  <2> QED BY <1>3, <1>11, AppendProperties
<1> HIDE DEF c
<1>17. /\ all \in Seq(S) /\ Len(all) = p + 1 + q
       /\ \A i \in 1 .. p + 1 : all[i] = c[i]
       /\ \A i \in 1 .. q : all[p + 1 + i] = b[i]
  <2>1. /\ all \in Seq(S) /\ Len(all) = Len(c) + Len(b)
        /\ \A i \in 1 .. Len(c) + Len(b) :
             all[i] = IF i <= Len(c) THEN c[i] ELSE b[i - Len(c)]
    BY <1>12, <1>16, ConcatProperties
  <2>2. Len(b) = q
    OBVIOUS
  <2> HIDE DEF all, p, q
  <2>3. \A i \in 1 .. p + 1 : i \in 1 .. p + 1 + q /\ i <= p + 1
    BY <1>15
  <2>4. \A i \in 1 .. p + 1 + q : all[i] = IF i <= p + 1 THEN c[i] ELSE b[i - (p + 1)]
    BY <1>16, <2>1, <2>2
  <2>5. \A i \in 1 .. p + 1 : all[i] = c[i]
    BY <2>3, <2>4
  <2>6. ASSUME NEW i \in 1 .. q PROVE all[p + 1 + i] = b[i]
    <3> DEFINE x == p + 1 + i
    <3>1. x \in 1 .. p + 1 + q /\ ~(x <= p + 1) /\ x - (p + 1) = i
      BY <1>15, <2>6
    <3> HIDE DEF x
    <3>2. all[x] = b[x - (p + 1)]
      BY <2>4, <3>1
    <3> QED BY <3>1, <3>2, Zenon DEF x
  <2> QED BY <1>16, <2>1, <2>2, <2>5, <2>6
<1> HIDE DEF all
<1>18. /\ g1 \in [1 .. p -> A] /\ \A i \in 1 .. p : a[i] = Registrations[g1[i]]
       /\ \A i, j \in 1 .. p : i < j => Before(Registrations, g1[i], g1[j])
       /\ \A x \in A : \E i \in 1 .. p : g1[i] = x
  BY <1>13 DEF Ranks
<1>19. /\ g2 \in [1 .. q -> B] /\ \A i \in 1 .. q : b[i] = Registrations[g2[i]]
       /\ \A i, j \in 1 .. q : i < j => Before(Registrations, g2[i], g2[j])
       /\ \A x \in B : \E i \in 1 .. q : g2[i] = x
  BY <1>14 DEF Ranks
<1> HIDE DEF p, q
<1>20. \A i \in 1 .. p : i \in 1 .. p + 1 + q /\ g[i] = g1[i]
  BY <1>15
<1>21. p + 1 \in 1 .. p + 1 + q /\ g[p + 1] = m + 1
  BY <1>15
<1>22. \A i \in 1 .. q : p + 1 + i \in 1 .. p + 1 + q /\ g[p + 1 + i] = g2[i]
  BY <1>15
<1>23. \A i \in 1 .. p + 1 + q :
         i \in 1 .. p \/ i = p + 1 \/ \E k \in 1 .. q : i = p + 1 + k
  <2> TAKE i \in 1 .. p + 1 + q
  <2>1. i > p + 1 => i - (p + 1) \in 1 .. q /\ i = p + 1 + (i - (p + 1))
    BY <1>15
  <2>2. i <= p + 1 => i \in 1 .. p \/ i = p + 1
    BY <1>15
  <2> QED BY <1>15, <2>1, <2>2
<1>24. g \in [1 .. p + 1 + q -> 1 .. m + 1]
  <2>1. \A i \in 1 .. p + 1 + q : g[i] \in 1 .. m + 1
    <3> TAKE i \in 1 .. p + 1 + q
    <3>1. \A x \in 1 .. m : x \in 1 .. m + 1
      OBVIOUS
    <3>2. \A x \in A \cup B : x \in 1 .. m + 1
      BY <3>1, <1>10
    <3> HIDE DEF g
    <3>3. CASE i \in 1 .. p
      BY <1>18, <1>20, <3>2, <3>3
    <3>4. CASE i = p + 1
      BY <1>3, <1>21, <3>4
    <3>5. CASE \E k \in 1 .. q : i = p + 1 + k
      BY <1>19, <1>22, <3>2, <3>5
    <3> QED BY <1>23, <3>3, <3>4, <3>5
  <2> QED BY <2>1
<1> HIDE DEF g
<1>25. \A i \in 1 .. p + 1 + q : all[i] = Registrations[g[i]]
  <2> TAKE i \in 1 .. p + 1 + q
  <2>1. CASE i \in 1 .. p
    <3>1. i \in 1 .. p + 1
      BY <1>15, <2>1
    <3>2. all[i] = c[i] /\ c[i] = a[i]
      BY <1>16, <1>17, <2>1, <3>1
    <3>3. a[i] = Registrations[g1[i]] /\ g[i] = g1[i]
      BY <1>18, <1>20, <2>1
    <3> QED BY <3>2, <3>3
  <2>2. CASE i = p + 1
    <3>1. i \in 1 .. p + 1
      BY <1>15, <2>2
    <3> QED BY <1>16, <1>17, <1>21, <2>2, <3>1
  <2>3. CASE \E k \in 1 .. q : i = p + 1 + k
    BY <1>17, <1>19, <1>22, <2>3
  <2> QED BY <1>23, <2>1, <2>2, <2>3
<1>26. ASSUME NEW x \in A PROVE Before(Registrations, x, m + 1)
  <2>1. x \in 1 .. m + 1 /\ x < m + 1 /\ Registrations[x].priority >= h.priority
    BY <1>6
  <2>2. Registrations[x].priority \in Int
    BY <2>1
  <2> QED BY <1>3, <2>1, <2>2 DEF Before
<1>27. ASSUME NEW x \in B PROVE Before(Registrations, m + 1, x)
  <2>1. x \in 1 .. m + 1 /\ ~(Registrations[x].priority >= h.priority)
    BY <1>7
  <2>2. Registrations[x].priority \in Int
    BY <2>1
  <2> QED BY <1>3, <2>1, <2>2 DEF Before
<1>28. ASSUME NEW x \in A, NEW y \in B PROVE Before(Registrations, x, y)
  <2>1. /\ x \in 1 .. m + 1 /\ Registrations[x].priority >= h.priority
        /\ y \in 1 .. m + 1 /\ ~(Registrations[y].priority >= h.priority)
    BY <1>6, <1>7
  <2>2. Registrations[x].priority \in Int /\ Registrations[y].priority \in Int
    BY <2>1
  <2> QED BY <1>3, <2>1, <2>2 DEF Before
<1> HIDE DEF h
<1>29. ASSUME NEW i \in 1 .. p + 1 + q, NEW j \in 1 .. p + 1 + q, i < j
       PROVE  Before(Registrations, g[i], g[j])
  <2>1. CASE i \in 1 .. p
    <3>1. g[i] \in A
      BY <1>18, <1>20, <2>1
    <3>2. CASE j \in 1 .. p
      BY <1>18, <1>20, <1>29, <2>1, <3>2
    <3>3. CASE j = p + 1
      BY <1>21, <1>26, <3>1, <3>3
    <3>4. CASE \E k \in 1 .. q : j = p + 1 + k
      <4>1. g[j] \in B
        BY <1>19, <1>22, <3>4
      <4> QED BY <1>28, <3>1, <4>1
    <3> QED BY <1>23, <3>2, <3>3, <3>4
  <2>2. CASE i = p + 1
    <3>1. PICK k \in 1 .. q : j = p + 1 + k
      BY <1>15, <1>23, <1>29, <2>2
    <3>2. g[j] \in B
      BY <1>19, <1>22, <3>1
    <3> QED BY <1>21, <1>27, <2>2, <3>2
  <2>3. CASE \E k \in 1 .. q : i = p + 1 + k
    <3>1. PICK k \in 1 .. q : i = p + 1 + k
      BY <2>3
    <3>2. PICK l \in 1 .. q : j = p + 1 + l
      BY <1>15, <1>23, <1>29, <3>1
    <3>3. k < l
      BY <1>15, <1>29, <3>1, <3>2
    <3> QED BY <1>19, <1>22, <3>1, <3>2, <3>3
  <2> QED BY <1>23, <2>1, <2>2, <2>3
<1>30. ASSUME NEW x \in 1 .. m + 1 PROVE \E i \in 1 .. p + 1 + q : g[i] = x
  <2>1. x \in A \/ x \in B \/ x = m + 1
    <3>1. x \in 1 .. m \/ x = m + 1
      OBVIOUS
    <3> QED BY <1>10, <3>1
  <2>2. CASE x \in A
    BY <1>18, <1>20, <2>2
  <2>3. CASE x \in B
    BY <1>19, <1>22, <2>3
  <2>4. CASE x = m + 1
    BY <1>21, <2>4
  <2> QED BY <2>1, <2>2, <2>3, <2>4
<1>31. Ranks(g, all, 1 .. m + 1)
  BY <1>17, <1>24, <1>25, <1>29, <1>30 DEF Ranks
<1> QED BY <1>2, <1>17, <1>31 DEF h

\* The type of a registration.
LEMMA RegisterIs ==
    ASSUME NEW S, NEW hooks \in Seq(S), NEW h \in S
    PROVE  Register(hooks, h) \in Seq(S)
<1> DEFINE front == {i \in DOMAIN hooks : hooks[i].priority >= h.priority}
           back == DOMAIN hooks \ front
           a == At(hooks, front)
           b == At(hooks, back)
<1>1. Register(hooks, h) = Append(a, h) \o b
  BY Zenon DEF Register
<1>2. front \in SUBSET DOMAIN hooks /\ back \in SUBSET DOMAIN hooks
  OBVIOUS
<1> HIDE DEF front, back
<1>3. a \in Seq(S) /\ b \in Seq(S)
  BY <1>2, AtIs
<1> HIDE DEF a, b
<1>4. Append(a, h) \in Seq(S)
  BY <1>3, AppendProperties
<1> QED BY <1>1, <1>3, <1>4, ConcatProperties

\* The hooks in the list, all of them and in their order: register by register.
LEMMA HookListIs ==
    ASSUME HooksAreNamed
    PROVE  /\ HookList \in Seq(HookSet)
           /\ \E f : Ranks(f, HookList, DOMAIN Registrations)
<1> DEFINE N == Len(Registrations)
           S == HookSet
           V == Seq(S)
           r == Registrations
           none == <<>>
           F == [p \in V \X S |-> Register(p[1], p[2])]
           Body(f) == [D \in SUBSET (DOMAIN r) |->
                         IF D = {} THEN none
                         ELSE LET x == Max(D) IN Register(f[D \ {x}], r[x])]
           c == CHOOSE f : f = Body(f)
<1>1. HookList = c[DOMAIN r]
  BY Zenon DEF HookList, FoldLeft, MapThenFoldSet
<1>2. /\ N \in Nat /\ DOMAIN r = 1 .. N /\ r \in [1 .. N -> S]
      /\ \A i \in 1 .. N : Registrations[i] \in S /\ Registrations[i].priority \in Int
  <2>1. Registrations \in Seq(S)
    BY DEF HooksAreNamed, HookSet
  <2>2. \A i \in DOMAIN Registrations : Registrations[i].priority \in Int
    BY DEF HooksAreNamed
  <2> HIDE DEF S
  <2>3. N \in Nat /\ DOMAIN Registrations = 1 .. N /\ Registrations \in [1 .. N -> S]
    BY <2>1
  <2> QED BY <2>2, <2>3
<1>3. none \in V
  OBVIOUS
<1> HIDE DEF S
<1>4. F \in [V \X S -> V]
  <2>1. \A x \in V, h \in S : Register(x, h) \in V
    BY RegisterIs
  <2> HIDE DEF V
  <2> QED BY <2>1
<1> HIDE DEF N, V, r, c, none
<1>6. c = Body(c)
  <2>1. PICK g \in [SUBSET (1 .. N) -> V] : IsFold(g, F, none, r, N)
    <3> HIDE DEF F
    <3>1. N \in Nat /\ r \in [1 .. N -> S]
      BY <1>2
    <3> QED BY <1>3, <1>4, <3>1, FoldExists, Zenon
  <2>2. ASSUME NEW D \in SUBSET (DOMAIN r)
        PROVE  g[D] = IF D = {} THEN none
                      ELSE Register(g[D \ {Max(D)}], r[Max(D)])
    <3>1. Max(D) = Greatest(D)
      BY Zenon DEF Max, Greatest
    <3>2. g[D] = IF D = {} THEN none ELSE F[<<g[D \ {Max(D)}], r[Max(D)]>>]
      BY <2>1, <1>2, <3>1, Zenon DEF IsFold
    <3>3. CASE D # {}
      <4>1. Max(D) \in DOMAIN r
        BY <1>2, <3>1, <3>3, GreatestIn
      <4>2. g[D \ {Max(D)}] \in V /\ r[Max(D)] \in S
        BY <4>1, <1>2
      <4> QED BY <3>2, <3>3, <4>2
    <3> QED BY <3>2, <3>3
  <2>3. g = Body(g)
    <3>1. Body(g) = [D \in SUBSET (DOMAIN r) |-> g[D]]
      BY <2>2
    <3>2. g = [D \in SUBSET (DOMAIN r) |-> g[D]]
      BY <1>2
    <3> HIDE DEF Body
    <3> QED BY <3>1, <3>2
  <2> HIDE DEF Body
  <2> QED BY <2>3 DEF c
<1>7. c[{}] = none
  BY <1>6
<1>8. ASSUME NEW m \in 0 .. N - 1
      PROVE  c[1 .. m + 1] = Register(c[1 .. m], Registrations[m + 1])
  <2> HIDE DEF F
  <2>1. Max(1 .. m + 1) = m + 1
    <3>1. m + 1 \in 1 .. m + 1 /\ \A y \in 1 .. m + 1 : y \in Int /\ m + 1 >= y
      OBVIOUS
    <3>2. Greatest(1 .. m + 1) = m + 1
      BY <3>1, GreatestOf
    <3> QED BY <3>2, Zenon DEF Max, Greatest
  <2>2. /\ (1 .. m + 1) \ {m + 1} = 1 .. m /\ 1 .. m + 1 # {}
        /\ 1 .. m + 1 \in SUBSET (DOMAIN r)
    <3>1. m \in Nat /\ m + 1 \in 1 .. N
      BY <1>2
    <3>2. (1 .. m + 1) \ {m + 1} = 1 .. m
      BY <3>1
    <3>3. 1 .. m + 1 # {} /\ 1 .. m + 1 \in SUBSET (DOMAIN r)
      <4>1. m + 1 \in 1 .. m + 1
        BY <3>1
      <4>2. \A i \in 1 .. m + 1 : i \in 1 .. N
        BY <3>1, <1>2
      <4> QED BY <4>1, <4>2, <1>2
    <3> QED BY <3>1, <3>2, <3>3
  <2>3. c[1 .. m + 1] = Register(c[(1 .. m + 1) \ {m + 1}], r[m + 1])
    BY <1>6, <2>1, <2>2
  <2> QED BY <2>2, <2>3 DEF r
<1> DEFINE Good(m) == m <= N => c[1 .. m] \in Seq(S) /\ \E f : Ranks(f, c[1 .. m], 1 .. m)
           P == {m \in Nat : Good(m)}
<1>9. 0 \in P
  <2>1. 1 .. 0 = {}
    OBVIOUS
  <2> QED BY <1>3, <1>7, <2>1, RanksNone DEF V, none
<1>10. ASSUME NEW m \in Nat, m \in P PROVE m + 1 \in P
  <2>1. Good(m) /\ m + 1 \in Nat
    <3> HIDE DEF Good
    <3> QED BY <1>10
  <2>2. ASSUME m + 1 <= N
        PROVE  c[1 .. m + 1] \in Seq(S) /\ \E f : Ranks(f, c[1 .. m + 1], 1 .. m + 1)
    <3>1. m <= N /\ m \in 0 .. N - 1 /\ m + 1 \in 1 .. N
      BY <1>2, <2>2
    <3> DEFINE hooks == c[1 .. m]
    <3>2. hooks \in Seq(S) /\ \E f : Ranks(f, hooks, 1 .. m)
      BY <2>1, <3>1
    <3>3. c[1 .. m + 1] = Register(hooks, Registrations[m + 1])
      BY <1>8, <3>1
    <3> HIDE DEF hooks, Good, P
    <3>4. \A i \in 1 .. m + 1 : Registrations[i] \in S /\ Registrations[i].priority \in Int
      <4>1. \A i \in 1 .. m + 1 : i \in 1 .. N
        BY <1>2, <3>1
      <4> QED BY <1>2, <4>1
    <3>5. m + 1 \in DOMAIN Registrations
      BY <1>2, <3>1 DEF r
    <3>6. /\ Register(hooks, Registrations[m + 1]) \in Seq(S)
          /\ \E f : Ranks(f, Register(hooks, Registrations[m + 1]), 1 .. m + 1)
      BY <3>2, <3>4, <3>5, RegisterRanks
    <3> QED BY <3>3, <3>6
  <2> QED BY <2>1, <2>2
<1>11. P = Nat
  <2>1. P \in SUBSET Nat
    OBVIOUS
  <2> HIDE DEF P
  <2> QED BY <1>9, <1>10, <2>1, Induct
<1>12. Good(N)
  <2> HIDE DEF Good
  <2> QED BY <1>2, <1>11
<1>13. N <= N /\ DOMAIN Registrations = 1 .. N
  BY <1>2 DEF r
<1> QED BY <1>1, <1>2, <1>12, <1>13 DEF S

\* The registrations that a chain is made of.
Chosen(point, tool) ==
    {h \in DOMAIN Registrations :
       Registrations[h].point = point /\ Matches(Registrations[h].matcher, tool)}

\* The hooks of a chain, all of them and in their order.
LEMMA SelectedRanks ==
    ASSUME HooksAreNamed, NEW point, NEW tool
    PROVE  /\ Selected(HookList, point, tool) \in Seq(HookSet)
           /\ \E f : Ranks(f, Selected(HookList, point, tool), Chosen(point, tool))
<1> DEFINE hooks == HookList
           S == HookSet
           H == DOMAIN Registrations
           places == {i \in DOMAIN hooks :
                        hooks[i].point = point /\ Matches(hooks[i].matcher, tool)}
<1>1. Selected(HookList, point, tool) = At(hooks, places)
  BY Zenon DEF Selected
<1>2. hooks \in Seq(S) /\ \E f : Ranks(f, hooks, H)
  BY HookListIs
<1> HIDE DEF hooks, S, H
<1>3. PICK f : Ranks(f, hooks, H)
  BY <1>2
<1>4. /\ f \in [1 .. Len(hooks) -> H] /\ DOMAIN hooks = 1 .. Len(hooks)
      /\ \A i \in 1 .. Len(hooks) : hooks[i] = Registrations[f[i]]
      /\ \A h \in H : \E i \in 1 .. Len(hooks) : f[i] = h
  BY <1>2, <1>3 DEF Ranks
<1>5. places \in SUBSET DOMAIN hooks
  OBVIOUS
<1>6. \A i \in DOMAIN hooks : i \in places <=> f[i] \in Chosen(point, tool)
  BY <1>4 DEF Chosen, H
<1> HIDE DEF places
<1>7. ASSUME NEW h PROVE h \in Chosen(point, tool) <=> \E p \in places : h = f[p]
  <2>1. \A p \in places : f[p] \in Chosen(point, tool)
    BY <1>5, <1>6
  <2>2. ASSUME h \in Chosen(point, tool) PROVE \E p \in places : h = f[p]
    <3>1. h \in H
      BY <2>2 DEF Chosen, H
    <3>2. PICK i \in DOMAIN hooks : f[i] = h
      BY <1>4, <3>1
    <3> QED BY <1>6, <2>2, <3>2
  <2> QED BY <2>1, <2>2
<1>8. /\ At(hooks, places) \in Seq(S)
      /\ \E g : Ranks(g, At(hooks, places), Chosen(point, tool))
  BY <1>2, <1>3, <1>5, <1>7, SomeRanks
<1> QED BY <1>1, <1>8 DEF S

\* The names of the hooks.
HookNames == {Registrations[i].name : i \in DOMAIN Registrations}

\* The states of a chain over the arguments of a call.
ChainStates(D, W) ==
    [ran: Seq(HookNames), over: BOOLEAN, blocked: BOOLEAN, context: Seq(HookNames),
     args: [D -> W]]

\* The type of a step of a chain.
LEMMA StepStays ==
    ASSUME NEW D, NEW W, NEW st \in ChainStates(D, W), NEW h \in HookSet, NEW o,
           \A k \in D : k \in DOMAIN o.args => o.args[k] \in W
    PROVE  Step(st, h, o) \in ChainStates(D, W)
<1> DEFINE n == h.name
           after == Step(st, h, o)
<1>1. n \in HookNames
  BY DEF HookSet, HookNames
<1>2. /\ st.ran \in Seq(HookNames) /\ st.over \in BOOLEAN /\ st.blocked \in BOOLEAN
      /\ st.context \in Seq(HookNames) /\ st.args \in [D -> W]
  BY DEF ChainStates
<1> HIDE DEF n
<1>3. Append(st.ran, n) \in Seq(HookNames) /\ Append(st.context, n) \in Seq(HookNames)
  BY <1>1, <1>2, AppendProperties
<1>4. CASE st.over
  BY <1>4 DEF Step
<1>5. CASE ~st.over /\ o.action = "fail" /\ Tolerant(h)
  <2>1. after = [st EXCEPT !.ran = Append(@, n)]
    BY <1>5, <1>2 DEF n, Step
  <2> HIDE DEF after
  <2>2. after \in ChainStates(D, W)
    BY <1>3, <2>1 DEF ChainStates
  <2> QED BY <2>2 DEF after
<1>6. CASE ~st.over /\ o.action = "fail" /\ ~Tolerant(h)
  <2> DEFINE none == <<>>
  <2>1. after = [st EXCEPT !.ran = Append(@, n), !.over = TRUE, !.blocked = TRUE,
                          !.context = none]
    BY <1>6, <1>2 DEF n, Step
  <2>2. none \in Seq(HookNames)
    OBVIOUS
  <2> HIDE DEF after, none
  <2>3. after \in ChainStates(D, W)
    BY <1>3, <2>1, <2>2 DEF ChainStates
  <2> QED BY <2>3 DEF after
<1>7. CASE ~st.over /\ o.action # "fail"
  <2> DEFINE c == IF o.context THEN Append(st.context, n) ELSE st.context
             a == IF o.action = "modify" THEN Updated(st.args, o.args) ELSE st.args
  <2>1. after = [ran |-> Append(st.ran, n), over |-> o.action \in {"block", "stop"},
                blocked |-> o.action = "block", context |-> c, args |-> a]
    BY <1>7, <1>2 DEF n, Step
  <2>2. c \in Seq(HookNames)
    BY <1>2, <1>3
  <2>3. a \in [D -> W]
    <3>1. Updated(st.args, o.args) \in [D -> W]
      BY <1>2 DEF Updated
    <3> QED BY <1>2, <3>1
  <2>4. (o.action \in {"block", "stop"}) \in BOOLEAN /\ (o.action = "block") \in BOOLEAN
    OBVIOUS
  <2> HIDE DEF after, c, a
  <2>5. after \in ChainStates(D, W)
    BY <1>3, <2>1, <2>2, <2>3, <2>4 DEF ChainStates
  <2> QED BY <2>5 DEF after
<1> QED BY <1>2, <1>4, <1>5, <1>6, <1>7

\* What ends a chain, and what changes an argument.
Ending(h, o) == o.action = "stop" \/ Refuses(h, o)
Changing(o, k) == o.action = "modify" /\ k \in DOMAIN o.args

\* The state after the first m hooks of a list, of which r were reached: the names of
\* those, that the last of them alone may have ended the chain, and of each argument the
\* last change.
Went(st, hooks, m, r, args, out) ==
    /\ r \in 0 .. m
    /\ Len(st.ran) = r /\ \A i \in 1 .. r : st.ran[i] = hooks[i].name
    /\ \A i \in 1 .. r - 1 : ~Ending(hooks[i], out[hooks[i].name])
    /\ st.over <=> (r > 0 /\ Ending(hooks[r], out[hooks[r].name]))
    /\ st.blocked <=> (r > 0 /\ Refuses(hooks[r], out[hooks[r].name]))
    /\ ~st.over => r = m
    /\ \A k \in DOMAIN args :
         \/ /\ st.args[k] = args[k]
            /\ \A i \in 1 .. r : ~Changing(out[hooks[i].name], k)
         \/ \E i \in 1 .. r :
              /\ Changing(out[hooks[i].name], k)
              /\ st.args[k] = out[hooks[i].name].args[k]
              /\ \A j \in 1 .. r : Changing(out[hooks[j].name], k) => j <= i

\* One hook more.
LEMMA StepWent ==
    ASSUME NEW args, NEW W, NEW st \in ChainStates(DOMAIN args, W), NEW hooks, NEW out,
           NEW m \in Nat, NEW r, Went(st, hooks, m, r, args, out)
    PROVE  LET h == hooks[m + 1]
           IN  \E s : Went(Step(st, h, out[h.name]), hooks, m + 1, s, args, out)
<1> DEFINE h == hooks[m + 1]
           o == out[h.name]
           new == Step(st, h, o)
           D == DOMAIN args
           Latest(a, k, s) ==
             \/ /\ a[k] = args[k]
                /\ \A i \in 1 .. s : ~Changing(out[hooks[i].name], k)
             \/ \E i \in 1 .. s :
                  /\ Changing(out[hooks[i].name], k)
                  /\ a[k] = out[hooks[i].name].args[k]
                  /\ \A j \in 1 .. s : Changing(out[hooks[j].name], k) => j <= i
<1>1. /\ st.ran \in Seq(HookNames) /\ st.over \in BOOLEAN /\ st.blocked \in BOOLEAN
      /\ st.args \in [D -> W] /\ DOMAIN st = {"ran", "over", "blocked", "context", "args"}
  BY DEF ChainStates
<1>2. /\ r \in 0 .. m
      /\ Len(st.ran) = r /\ \A i \in 1 .. r : st.ran[i] = hooks[i].name
      /\ \A i \in 1 .. r - 1 : ~Ending(hooks[i], out[hooks[i].name])
      /\ st.over <=> (r > 0 /\ Ending(hooks[r], out[hooks[r].name]))
      /\ st.blocked <=> (r > 0 /\ Refuses(hooks[r], out[hooks[r].name]))
      /\ ~st.over => r = m
      /\ \A k \in D : Latest(st.args, k, r)
  BY DEF Went
<1>3. CASE st.over
  <2>1. new = st
    BY <1>3 DEF Step
  <2>2. r \in 0 .. m + 1
    BY <1>2
  <2> HIDE DEF new
  <2>3. Went(new, hooks, m + 1, r, args, out)
    BY <1>2, <1>3, <2>1, <2>2 DEF Went
  <2> QED BY <2>3 DEF new
<1>4. CASE ~st.over
  <2>1. /\ r = m /\ ~st.blocked
        /\ \A i \in 1 .. m : ~Ending(hooks[i], out[hooks[i].name])
    <3>1. r = m /\ ~(r > 0 /\ Ending(hooks[r], out[hooks[r].name]))
      BY <1>2, <1>4
    <3>2. ~st.blocked
      BY <1>2, <3>1 DEF Ending
    <3>3. \A i \in 1 .. m : i \in 1 .. r - 1 \/ (i = r /\ r > 0)
      BY <3>1
    <3> QED BY <1>2, <3>1, <3>2, <3>3
  <2>2. SUFFICES Went(new, hooks, m + 1, m + 1, args, out)
    OBVIOUS
  <2>3. /\ Append(st.ran, h.name) \in Seq(HookNames \cup {h.name})
        /\ Len(Append(st.ran, h.name)) = m + 1
        /\ \A i \in 1 .. m + 1 : Append(st.ran, h.name)[i] = hooks[i].name
    <3> DEFINE S == HookNames \cup {h.name}
               n == h.name
    <3>1. n \in S /\ st.ran \in Seq(S)
      BY <1>1
    <3> HIDE DEF S, n
    <3>2. /\ Append(st.ran, n) \in Seq(S)
          /\ Len(Append(st.ran, n)) = m + 1
          /\ Append(st.ran, n)[m + 1] = n
          /\ \A i \in 1 .. m : Append(st.ran, n)[i] = st.ran[i]
      BY <1>2, <2>1, <3>1, AppendProperties
    <3>3. \A i \in 1 .. m + 1 : i \in 1 .. m \/ i = m + 1
      OBVIOUS
    <3>4. \A i \in 1 .. m : st.ran[i] = hooks[i].name
      BY <1>2, <2>1
    <3>5. \A i \in 1 .. m + 1 : Append(st.ran, n)[i] = hooks[i].name
      BY <3>2, <3>3, <3>4 DEF n
    <3> QED BY <3>2, <3>5 DEF S, n
  <2>4. /\ m + 1 \in 0 .. m + 1 /\ m + 1 > 0 /\ m + 1 - 1 = m
        /\ m + 1 \in 1 .. m + 1 /\ \A i \in 1 .. m : i \in 1 .. m + 1 /\ i <= m + 1
        /\ \A i \in 1 .. m + 1 : i <= m + 1 /\ (i \in 1 .. m \/ i = m + 1)
    OBVIOUS
  <2>5. ASSUME NEW k \in D, ~Changing(o, k) PROVE Latest(st.args, k, m + 1)
    <3>1. Latest(st.args, k, m)
      BY <1>2, <2>1
    <3>2. CASE /\ st.args[k] = args[k]
               /\ \A i \in 1 .. m : ~Changing(out[hooks[i].name], k)
      <4>1. \A i \in 1 .. m + 1 : ~Changing(out[hooks[i].name], k)
        BY <2>4, <2>5, <3>2
      <4> QED BY <3>2, <4>1
    <3>3. CASE \E i \in 1 .. m :
                 /\ Changing(out[hooks[i].name], k)
                 /\ st.args[k] = out[hooks[i].name].args[k]
                 /\ \A j \in 1 .. m : Changing(out[hooks[j].name], k) => j <= i
      <4>1. PICK i \in 1 .. m : /\ Changing(out[hooks[i].name], k)
                               /\ st.args[k] = out[hooks[i].name].args[k]
                               /\ \A j \in 1 .. m : Changing(out[hooks[j].name], k) => j <= i
        BY <3>3
      <4>2. \A j \in 1 .. m + 1 : Changing(out[hooks[j].name], k) => j <= i
        BY <2>4, <2>5, <4>1
      <4>3. i \in 1 .. m + 1
        BY <2>4
      <4> QED BY <4>1, <4>2, <4>3
    <3> QED BY <3>1, <3>2, <3>3
  <2>6. CASE o.action = "fail" /\ Tolerant(h)
    <3>1. new = [st EXCEPT !.ran = Append(@, h.name)]
      BY <1>4, <2>6 DEF Step
    <3> HIDE DEF new
    <3>2. /\ new.ran = Append(st.ran, h.name) /\ new.over = st.over
          /\ new.blocked = st.blocked /\ new.args = st.args
      BY <1>1, <3>1
    <3>3. /\ ~Ending(h, o) /\ ~Refuses(h, o) /\ \A k \in D : ~Changing(o, k)
      BY <2>6 DEF Ending, Refuses, Changing
    <3>4. \A k \in D : Latest(new.args, k, m + 1)
      BY <2>5, <3>2, <3>3
    <3> HIDE DEF o, h
    <3> QED BY <1>4, <2>1, <2>3, <2>4, <3>2, <3>3, <3>4 DEF Went, h, o
  <2>7. CASE o.action = "fail" /\ ~Tolerant(h)
    <3>1. new = [st EXCEPT !.ran = Append(@, h.name), !.over = TRUE,
                           !.blocked = TRUE, !.context = <<>>]
      BY <1>4, <2>7 DEF Step
    <3> HIDE DEF new
    <3>2. /\ new.ran = Append(st.ran, h.name) /\ new.over /\ new.blocked
          /\ new.args = st.args
      BY <1>1, <3>1
    <3>3. /\ Ending(h, o) /\ Refuses(h, o) /\ \A k \in D : ~Changing(o, k)
      BY <2>7 DEF Ending, Refuses, Changing
    <3>4. \A k \in D : Latest(new.args, k, m + 1)
      BY <2>5, <3>2, <3>3
    <3> HIDE DEF o, h
    <3> QED BY <2>1, <2>3, <2>4, <3>2, <3>3, <3>4 DEF Went, h, o
  <2>8. CASE o.action # "fail"
    <3> DEFINE c == IF o.context THEN Append(st.context, h.name) ELSE st.context
               a == IF o.action = "modify" THEN Updated(st.args, o.args) ELSE st.args
    <3>1. new = [ran |-> Append(st.ran, h.name), over |-> o.action \in {"block", "stop"},
                 blocked |-> o.action = "block", context |-> c, args |-> a]
      BY <1>4, <2>8 DEF Step
    <3> HIDE DEF new, c, a
    <3>2. /\ new.ran = Append(st.ran, h.name) /\ new.over = (o.action \in {"block", "stop"})
          /\ new.blocked = (o.action = "block") /\ new.args = a
      BY <3>1
    <3>3. /\ new.over <=> Ending(h, o)
          /\ new.blocked <=> Refuses(h, o)
      BY <2>8, <3>2 DEF Ending, Refuses
    <3>4. ASSUME NEW k \in D PROVE Latest(a, k, m + 1)
      <4>1. CASE Changing(o, k)
        <5>1. a[k] = o.args[k]
          BY <1>1, <4>1 DEF a, Changing, Updated
        <5>2. \A j \in 1 .. m + 1 : Changing(out[hooks[j].name], k) => j <= m + 1
          BY <2>4
        <5> QED BY <2>4, <4>1, <5>1, <5>2
      <4>2. CASE ~Changing(o, k)
        <5>1. a[k] = st.args[k]
          BY <1>1, <4>2 DEF a, Changing, Updated
        <5>2. Latest(st.args, k, m + 1)
          BY <2>5, <4>2
        <5> QED BY <5>1, <5>2
      <4> QED BY <4>1, <4>2
    <3>5. \A k \in D : Latest(new.args, k, m + 1)
      BY <3>2, <3>4
    <3> HIDE DEF o, h
    <3> QED BY <2>1, <2>3, <2>4, <3>2, <3>3, <3>5 DEF Went, h, o
  <2> QED BY <2>6, <2>7, <2>8
<1> QED BY <1>1, <1>3, <1>4

\* A list the other way round.
Backwards(s) == [i \in 1 .. Len(s) |-> s[Len(s) - i + 1]]

\* The order in which the hooks of a chain run.
InOrder(hooks, point, tool) ==
    IF point = "post_tool" THEN Reverse(Selected(hooks, point, tool))
    ELSE Selected(hooks, point, tool)

\* A whole chain, hook by hook.
LEMMA RunWent ==
    ASSUME NEW hooks, NEW point, NEW tool, NEW args, NEW out,
           InOrder(hooks, point, tool) \in Seq(HookSet),
           args = [k \in DOMAIN args |-> args[k]]
    PROVE  \E W : LET st == Run(hooks, point, tool, args, out)
                      inOrder == InOrder(hooks, point, tool)
                IN  /\ st \in ChainStates(DOMAIN args, W)
                    /\ \E s : Went(st, inOrder, Len(inOrder), s, args, out)
<1> DEFINE inOrder == InOrder(hooks, point, tool)
           N == Len(inOrder)
           S == HookSet
           D == DOMAIN args
           W == {args[k] : k \in D} \cup {out[h.name].args[k] : h \in S, k \in D}
           V == ChainStates(D, W)
           r == inOrder
           start == [ran |-> <<>>, over |-> FALSE, blocked |-> FALSE, context |-> <<>>,
                     args |-> args]
           Take(st, h) == Step(st, h, out[h.name])
           F == [p \in V \X S |-> Take(p[1], p[2])]
           Body(f) == [T \in SUBSET (DOMAIN r) |->
                         IF T = {} THEN start
                         ELSE LET x == Max(T) IN Take(f[T \ {x}], r[x])]
           c == CHOOSE f : f = Body(f)
<1>1. Run(hooks, point, tool, args, out) = c[DOMAIN r]
  BY Zenon DEF InOrder, Run, FoldLeft, MapThenFoldSet
<1>2. N \in Nat /\ DOMAIN r = 1 .. N /\ r \in [1 .. N -> S]
  OBVIOUS
<1>3. start \in V
  <2> DEFINE none == <<>>
  <2>1. none \in Seq(HookNames)
    OBVIOUS
  <2>2. \A k \in D : args[k] \in W
    OBVIOUS
  <2> HIDE DEF W
  <2>3. args \in [D -> W]
    BY <2>2
  <2> HIDE DEF none
  <2>4. [ran |-> none, over |-> FALSE, blocked |-> FALSE, context |-> none, args |-> args]
          \in V
    BY <2>1, <2>3 DEF ChainStates
  <2> QED BY <2>4 DEF none
<1>4. ASSUME NEW st \in V, NEW h \in S PROVE Take(st, h) \in V
  <2> DEFINE o == out[h.name]
  <2>1. \A k \in D : o.args[k] \in W
    OBVIOUS
  <2> HIDE DEF W
  <2>2. Step(st, h, o) \in V
    BY <2>1, StepStays
  <2> QED BY <2>2
<1>5. F \in [V \X S -> V]
  <2> HIDE DEF V, Take, S
  <2> QED BY <1>4
<1> HIDE DEF inOrder, N, V, r, c, start, S
<1>6. c = Body(c)
  <2> HIDE DEF Take
  <2>1. PICK g \in [SUBSET (1 .. N) -> V] : IsFold(g, F, start, r, N)
    <3> HIDE DEF F
    <3>1. N \in Nat /\ r \in [1 .. N -> S]
      BY <1>2
    <3> QED BY <1>3, <1>5, <3>1, FoldExists, Zenon
  <2>2. ASSUME NEW T \in SUBSET (DOMAIN r)
        PROVE  g[T] = IF T = {} THEN start ELSE Take(g[T \ {Max(T)}], r[Max(T)])
    <3>1. Max(T) = Greatest(T)
      BY Zenon DEF Max, Greatest
    <3>2. g[T] = IF T = {} THEN start ELSE F[<<g[T \ {Max(T)}], r[Max(T)]>>]
      BY <2>1, <1>2, <3>1, Zenon DEF IsFold
    <3>3. CASE T # {}
      <4>1. Max(T) \in DOMAIN r
        BY <1>2, <3>1, <3>3, GreatestIn
      <4>2. g[T \ {Max(T)}] \in V /\ r[Max(T)] \in S
        BY <4>1, <1>2
      <4> QED BY <3>2, <3>3, <4>2
    <3> QED BY <3>2, <3>3
  <2>3. g = Body(g)
    <3>1. Body(g) = [T \in SUBSET (DOMAIN r) |-> g[T]]
      BY <2>2
    <3>2. g = [T \in SUBSET (DOMAIN r) |-> g[T]]
      BY <1>2
    <3> HIDE DEF Body
    <3> QED BY <3>1, <3>2
  <2> HIDE DEF Body
  <2> QED BY <2>3 DEF c
<1>7. c[{}] = start
  BY <1>6
<1>8. ASSUME NEW m \in 0 .. N - 1
      PROVE  c[1 .. m + 1] = Take(c[1 .. m], r[m + 1])
  <2> HIDE DEF Take, F
  <2>1. Max(1 .. m + 1) = m + 1
    <3>1. m + 1 \in 1 .. m + 1 /\ \A y \in 1 .. m + 1 : y \in Int /\ m + 1 >= y
      OBVIOUS
    <3>2. Greatest(1 .. m + 1) = m + 1
      BY <3>1, GreatestOf
    <3> QED BY <3>2, Zenon DEF Max, Greatest
  <2>2. /\ (1 .. m + 1) \ {m + 1} = 1 .. m /\ 1 .. m + 1 # {}
        /\ 1 .. m + 1 \in SUBSET (DOMAIN r)
    <3>1. m \in Nat /\ m + 1 \in 1 .. N
      BY <1>2
    <3>2. (1 .. m + 1) \ {m + 1} = 1 .. m
      BY <3>1
    <3>3. 1 .. m + 1 # {} /\ 1 .. m + 1 \in SUBSET (DOMAIN r)
      <4>1. m + 1 \in 1 .. m + 1
        BY <3>1
      <4>2. \A i \in 1 .. m + 1 : i \in 1 .. N
        BY <3>1, <1>2
      <4> QED BY <4>1, <4>2, <1>2
    <3> QED BY <3>1, <3>2, <3>3
  <2>3. c[1 .. m + 1] = Take(c[(1 .. m + 1) \ {m + 1}], r[m + 1])
    BY <1>6, <2>1, <2>2
  <2> QED BY <2>2, <2>3
<1> DEFINE Good(m) == m <= N => /\ c[1 .. m] \in V
                                /\ \E s : Went(c[1 .. m], inOrder, m, s, args, out)
           P == {m \in Nat : Good(m)}
<1>9. 0 \in P
  <2>1. 1 .. 0 = {}
    OBVIOUS
  <2>2. start \in V /\ Went(start, inOrder, 0, 0, args, out)
    <3> DEFINE none == <<>>
               st == [ran |-> none, over |-> FALSE, blocked |-> FALSE, context |-> none,
                      args |-> args]
    <3>1. Len(none) = 0
      OBVIOUS
    <3> HIDE DEF none
    <3>2. st.ran = none /\ ~st.over /\ ~st.blocked /\ st.args = args
      OBVIOUS
    <3> HIDE DEF st
    <3>3. Went(st, inOrder, 0, 0, args, out)
      BY <3>1, <3>2 DEF Went
    <3> QED BY <1>3, <3>3 DEF st, none, start
  <2> QED BY <1>7, <2>1, <2>2
<1>10. ASSUME NEW m \in Nat, m \in P PROVE m + 1 \in P
  <2>1. Good(m) /\ m + 1 \in Nat
    <3> HIDE DEF Good
    <3> QED BY <1>10
  <2>2. ASSUME m + 1 <= N
        PROVE  /\ c[1 .. m + 1] \in V
               /\ \E s : Went(c[1 .. m + 1], inOrder, m + 1, s, args, out)
    <3>1. m <= N /\ m \in 0 .. N - 1 /\ m + 1 \in 1 .. N
      BY <1>2, <2>2
    <3> DEFINE st == c[1 .. m]
    <3>2. st \in V /\ \E s : Went(st, inOrder, m, s, args, out)
      BY <2>1, <3>1
    <3>3. c[1 .. m + 1] = Take(st, r[m + 1])
      BY <1>8, <3>1
    <3> HIDE DEF st, Good, P, Take
    <3>4. Take(st, r[m + 1]) \in V
      <4>1. r[m + 1] \in S
        BY <1>2, <3>1
      <4> QED BY <1>4, <3>2, <4>1
    <3>5. PICK s : Went(st, inOrder, m, s, args, out)
      BY <3>2
    <3>6. \E t : Went(Take(st, r[m + 1]), inOrder, m + 1, t, args, out)
      <4>1. st \in ChainStates(DOMAIN args, W)
        BY <3>2 DEF V
      <4> HIDE DEF W
      <4>2. \E t : Went(Step(st, inOrder[m + 1], out[inOrder[m + 1].name]), inOrder,
                        m + 1, t, args, out)
        BY <3>5, <4>1, StepWent
      <4> QED BY <4>2 DEF Take, r
    <3> QED BY <3>3, <3>4, <3>6
  <2> QED BY <2>1, <2>2
<1>11. P = Nat
  <2>1. P \in SUBSET Nat
    OBVIOUS
  <2> HIDE DEF P
  <2> QED BY <1>9, <1>10, <2>1, Induct
<1>12. Good(N)
  <2> HIDE DEF Good
  <2> QED BY <1>2, <1>11
<1>13. N <= N /\ DOMAIN r = 1 .. N
  BY <1>2
<1>14. /\ Run(hooks, point, tool, args, out) \in ChainStates(DOMAIN args, W)
       /\ \E s : Went(Run(hooks, point, tool, args, out), inOrder, Len(inOrder), s,
                      args, out)
  BY <1>1, <1>12, <1>13 DEF V, N
<1> HIDE DEF W
<1> QED BY <1>14 DEF inOrder

\* A chain that runs the other way round.
LEMMA BackwardsIs ==
    ASSUME NEW S, NEW s \in Seq(S)
    PROVE  /\ Reverse(s) = Backwards(s)
           /\ Backwards(s) \in Seq(S) /\ Len(Backwards(s)) = Len(s)
           /\ \A i \in 1 .. Len(s) : /\ Len(s) - i + 1 \in 1 .. Len(s)
                                     /\ Backwards(s)[i] = s[Len(s) - i + 1]
<1> DEFINE n == Len(s)
           t == [i \in 1 .. n |-> s[n - i + 1]]
<1>1. n \in Nat /\ \A i \in 1 .. n : s[i] \in S
  OBVIOUS
<1>2. Reverse(s) = t
  BY Zenon DEF Reverse
<1> HIDE DEF n
<1>3. \A i \in 1 .. n : n - i + 1 \in 1 .. n
  BY <1>1
<1>4. \A i \in 1 .. n : s[n - i + 1] \in S
  BY <1>1, <1>3
<1>5. t \in Seq(S) /\ Len(t) = n /\ \A i \in 1 .. n : t[i] = s[n - i + 1]
  <2>1. t \in [1 .. n -> S]
    BY <1>4
  <2> HIDE DEF t
  <2>2. t \in Seq(S) /\ Len(t) = n
    BY <1>1, <2>1
  <2> QED BY <2>2 DEF t
<1> QED BY <1>2, <1>3, <1>5, Zenon DEF n, Backwards

\* No two hooks come before each other.
LEMMA BeforeIsStrict ==
    ASSUME HooksAreNamed, NEW g \in DOMAIN Registrations, NEW h \in DOMAIN Registrations,
           Before(Registrations, g, h)
    PROVE  ~Before(Registrations, h, g) /\ g # h
<1>1. Registrations[g].priority \in Int /\ Registrations[h].priority \in Int
  BY DEF HooksAreNamed
<1>2. g \in Int /\ h \in Int
  BY DEF HooksAreNamed
<1> QED BY <1>1, <1>2 DEF Before

\* A name is of one hook.
LEMMA SameName ==
    ASSUME HooksAreNamed, NEW g \in DOMAIN Registrations, NEW h \in DOMAIN Registrations,
           Registrations[g].name = Registrations[h].name
    PROVE  g = h
BY DEF HooksAreNamed

\* What the hooks of a call say, as it is kept: of one that did not run, nothing.
Kept(says, out, hooks, r) ==
    \A i \in 1 .. Len(hooks) :
      /\ i <= r => says[hooks[i].name] = out[hooks[i].name]
      /\ i > r => says[hooks[i].name] = NotRun

\* The hooks that ran are those that the reference says a chain gets to.
LEMMA ReachedIs ==
    ASSUME HooksAreNamed, NEW tool, NEW hooks \in Seq(HookSet), NEW f,
           Ranks(f, hooks, Chosen("pre_tool", tool)),
           NEW D, NEW W, NEW st \in ChainStates(D, W), NEW args, NEW out, NEW r,
           Went(st, hooks, Len(hooks), r, args, out),
           NEW says, Kept(says, out, hooks, r)
    PROVE  \A h : h \in Reached(Registrations, "pre_tool", tool, says)
                    <=> \E i \in 1 .. r : h = f[i]
<1> DEFINE n == Len(hooks)
           H == Chosen("pre_tool", tool)
           Ends(g) == Ending(Registrations[g], says[Registrations[g].name])
<1>1. Reached(Registrations, "pre_tool", tool, says)
        = {h \in H : \A g \in H : Before(Registrations, g, h) => ~Ends(g)}
  BY DEF Reached, Chosen, Ending
<1>2. n \in Nat /\ H \in SUBSET DOMAIN Registrations
  BY DEF Chosen
<1>3. /\ f \in [1 .. n -> H]
      /\ \A i \in 1 .. n : hooks[i] = Registrations[f[i]]
      /\ \A i, j \in 1 .. n : i < j => Before(Registrations, f[i], f[j])
      /\ \A h \in H : \E i \in 1 .. n : f[i] = h
  BY DEF Ranks
<1>4. /\ r \in 0 .. n
      /\ \A i \in 1 .. r - 1 : ~Ending(hooks[i], out[hooks[i].name])
      /\ st.over <=> (r > 0 /\ Ending(hooks[r], out[hooks[r].name]))
      /\ ~st.over => r = n
  BY DEF Went
<1>5. st.over \in BOOLEAN
  BY DEF ChainStates
<1>6. \A i \in 1 .. n : /\ i <= r => says[hooks[i].name] = out[hooks[i].name]
                        /\ i > r => says[hooks[i].name] = NotRun
  BY DEF Kept
<1> HIDE DEF n, H
<1>7. \A i \in 1 .. n : f[i] \in H /\ f[i] \in DOMAIN Registrations
  BY <1>2, <1>3
<1>8. \A i \in 1 .. r - 1 : ~Ends(f[i])
  <2> TAKE i \in 1 .. r - 1
  <2>1. i \in 1 .. n /\ i <= r
    BY <1>2, <1>4
  <2>2. hooks[i] = Registrations[f[i]] /\ says[hooks[i].name] = out[hooks[i].name]
    BY <1>3, <1>6, <2>1
  <2>3. ~Ending(hooks[i], out[hooks[i].name])
    BY <1>4
  <2> QED BY <2>2, <2>3, Zenon
<1>9. ASSUME r # n PROVE r \in 1 .. n /\ Ends(f[r])
  <2>1. r > 0 /\ Ending(hooks[r], out[hooks[r].name])
    BY <1>4, <1>5, <1>9
  <2>2. r \in 1 .. n /\ r <= r
    BY <1>2, <1>4, <2>1
  <2>3. hooks[r] = Registrations[f[r]] /\ says[hooks[r].name] = out[hooks[r].name]
    BY <1>3, <1>6, <2>2
  <2>4. Ends(f[r])
    BY <2>1, <2>3, Zenon
  <2> QED BY <2>2, <2>4
<1> HIDE DEF Ends
<1>10. ASSUME NEW i \in 1 .. r, NEW g \in H, Before(Registrations, g, f[i])
       PROVE  ~Ends(g)
  <2>1. i \in 1 .. n
    BY <1>2, <1>4
  <2>2. PICK j \in 1 .. n : f[j] = g
    BY <1>3
  <2>3. ~Before(Registrations, f[i], g) /\ g # f[i]
    BY <1>7, <1>10, <2>1, <2>2, BeforeIsStrict
  <2>4. ~(i < j) /\ i # j
    BY <1>3, <2>1, <2>2, <2>3
  <2>5. j \in 1 .. r - 1
    BY <1>2, <1>4, <2>1, <2>4
  <2> QED BY <1>8, <2>2, <2>5
<1>11. ASSUME NEW h \in H, \A g \in H : Before(Registrations, g, h) => ~Ends(g)
       PROVE  \E i \in 1 .. r : h = f[i]
  <2>1. PICK i \in 1 .. n : f[i] = h
    BY <1>3
  <2>2. CASE i \in 1 .. r
    BY <2>1, <2>2
  <2>3. CASE i \notin 1 .. r
    <3>1. r # n /\ r < i
      BY <1>2, <1>4, <2>1, <2>3
    <3>2. r \in 1 .. n /\ Ends(f[r])
      BY <1>9, <3>1
    <3>3. Before(Registrations, f[r], h) /\ f[r] \in H
      BY <1>3, <1>7, <2>1, <3>1, <3>2
    <3> QED BY <1>11, <3>2, <3>3
  <2> QED BY <2>2, <2>3
<1>12. \A i \in 1 .. r : f[i] \in H
  <2> TAKE i \in 1 .. r
  <2>1. i \in 1 .. n
    BY <1>2, <1>4
  <2> QED BY <1>7, <2>1
<1> QED BY <1>1, <1>10, <1>11, <1>12

\* What those that are reached decide.
Decides(reached, says, pre, args) ==
    LET Returned(h) == says[Registrations[h].name]
        changers(k) == {h \in reached : Returned(h).action = "modify"
                                          /\ k \in DOMAIN Returned(h).args}
    IN  /\ pre.blocked = (\E h \in reached : Refuses(Registrations[h], Returned(h)))
        /\ ~pre.blocked =>
             \A k \in DOMAIN args :
               IF changers(k) = {}
               THEN pre.args[k] = args[k]
               ELSE \E h \in changers(k) :
                      /\ pre.args[k] = Returned(h).args[k]
                      /\ \A g \in changers(k) \ {h} : Before(Registrations, g, h)

\* What a chain before a call comes to is what those that it got to decide.
LEMMA PreDecides ==
    ASSUME NEW hooks \in Seq(HookSet), NEW f, NEW H, Ranks(f, hooks, H),
           NEW args, NEW W, NEW st \in ChainStates(DOMAIN args, W), NEW out, NEW r,
           Went(st, hooks, Len(hooks), r, args, out),
           NEW says, Kept(says, out, hooks, r),
           NEW reached, \A h : h \in reached <=> \E i \in 1 .. r : h = f[i]
    PROVE  Decides(reached, says, st, args)
<1> DEFINE n == Len(hooks)
           Returned(h) == says[Registrations[h].name]
           changers(k) == {h \in reached : Returned(h).action = "modify"
                                             /\ k \in DOMAIN Returned(h).args}
<1>1. n \in Nat /\ st.blocked \in BOOLEAN
  BY DEF ChainStates
<1>2. /\ r \in 0 .. n
      /\ \A i \in 1 .. r - 1 : ~Ending(hooks[i], out[hooks[i].name])
      /\ st.blocked <=> (r > 0 /\ Refuses(hooks[r], out[hooks[r].name]))
      /\ \A k \in DOMAIN args :
           \/ /\ st.args[k] = args[k]
              /\ \A i \in 1 .. r : ~Changing(out[hooks[i].name], k)
           \/ \E i \in 1 .. r :
                /\ Changing(out[hooks[i].name], k)
                /\ st.args[k] = out[hooks[i].name].args[k]
                /\ \A j \in 1 .. r : Changing(out[hooks[j].name], k) => j <= i
  BY DEF Went
<1>3. /\ \A i \in 1 .. n : hooks[i] = Registrations[f[i]]
      /\ \A i, j \in 1 .. n : i < j => Before(Registrations, f[i], f[j])
  BY DEF Ranks
<1>4. \A i \in 1 .. n : i <= r => says[hooks[i].name] = out[hooks[i].name]
  BY DEF Kept
<1> HIDE DEF n
<1>5. \A i \in 1 .. r : /\ i \in 1 .. n /\ hooks[i] = Registrations[f[i]] /\ f[i] \in reached
                        /\ Returned(f[i]) = out[hooks[i].name]
  <2> TAKE i \in 1 .. r
  <2>1. i \in 1 .. n /\ i <= r
    BY <1>1, <1>2
  <2>2. hooks[i] = Registrations[f[i]] /\ says[hooks[i].name] = out[hooks[i].name]
    BY <1>3, <1>4, <2>1
  <2>3. Returned(f[i]) = out[hooks[i].name]
    BY <2>2, Zenon
  <2> QED BY <2>1, <2>2, <2>3
<1>6. \A h \in reached : \E i \in 1 .. r : h = f[i]
  OBVIOUS
<1> HIDE DEF Returned
<1>7. ASSUME st.blocked
      PROVE  \E h \in reached : Refuses(Registrations[h], Returned(h))
  <2>1. r \in 1 .. r /\ Refuses(hooks[r], out[hooks[r].name])
    BY <1>2, <1>7
  <2>2. /\ f[r] \in reached /\ hooks[r] = Registrations[f[r]]
        /\ Returned(f[r]) = out[hooks[r].name]
    BY <1>5, <2>1
  <2>3. Refuses(Registrations[f[r]], Returned(f[r]))
    BY <2>1, <2>2, Zenon
  <2> QED BY <2>2, <2>3
<1>8. ASSUME NEW h \in reached, Refuses(Registrations[h], Returned(h))
      PROVE  st.blocked
  <2>1. PICK i \in 1 .. r : h = f[i]
    BY <1>6
  <2>2. hooks[i] = Registrations[h] /\ Returned(h) = out[hooks[i].name]
    BY <1>5, <2>1
  <2>3. Refuses(hooks[i], out[hooks[i].name])
    BY <1>8, <2>2, Zenon
  <2>4. Ending(hooks[i], out[hooks[i].name])
    BY <2>3 DEF Ending
  <2>5. i = r /\ r > 0
    <3>1. i \notin 1 .. r - 1
      BY <1>2, <2>4
    <3> QED BY <1>1, <1>2, <2>1, <3>1
  <2> QED BY <1>2, <2>3, <2>5
<1>9. ASSUME NEW k \in DOMAIN args, NEW h
      PROVE  h \in changers(k) <=> \E i \in 1 .. r : h = f[i] /\ Changing(out[hooks[i].name], k)
  <2>1. ASSUME h \in changers(k)
        PROVE  \E i \in 1 .. r : h = f[i] /\ Changing(out[hooks[i].name], k)
    <3>1. PICK i \in 1 .. r : h = f[i]
      BY <1>6, <2>1
    <3>2. Returned(h) = out[hooks[i].name]
      BY <1>5, <3>1
    <3>3. Changing(Returned(h), k)
      BY <2>1 DEF Changing
    <3> QED BY <3>1, <3>2, <3>3
  <2>2. ASSUME NEW i \in 1 .. r, h = f[i], Changing(out[hooks[i].name], k)
        PROVE  h \in changers(k)
    <3>1. h \in reached /\ Returned(h) = out[hooks[i].name]
      BY <1>5, <2>2
    <3>2. Changing(Returned(h), k)
      BY <2>2, <3>1
    <3> QED BY <3>1, <3>2 DEF Changing
  <2> QED BY <2>1, <2>2
<1>10. ASSUME NEW k \in DOMAIN args
       PROVE  IF changers(k) = {}
              THEN st.args[k] = args[k]
              ELSE \E h \in changers(k) :
                     /\ st.args[k] = Returned(h).args[k]
                     /\ \A g \in changers(k) \ {h} : Before(Registrations, g, h)
  <2> DEFINE C == changers(k)
  <2>1. \A h : h \in C <=> \E i \in 1 .. r : h = f[i] /\ Changing(out[hooks[i].name], k)
    BY <1>9
  <2> HIDE DEF C
  <2>2. CASE /\ st.args[k] = args[k]
             /\ \A i \in 1 .. r : ~Changing(out[hooks[i].name], k)
    <3>1. C = {}
      BY <2>1, <2>2
    <3> QED BY <2>2, <3>1 DEF C
  <2>3. CASE \E i \in 1 .. r :
               /\ Changing(out[hooks[i].name], k)
               /\ st.args[k] = out[hooks[i].name].args[k]
               /\ \A j \in 1 .. r : Changing(out[hooks[j].name], k) => j <= i
    <3>1. PICK i \in 1 .. r : /\ Changing(out[hooks[i].name], k)
                              /\ st.args[k] = out[hooks[i].name].args[k]
                              /\ \A j \in 1 .. r : Changing(out[hooks[j].name], k) => j <= i
      BY <2>3
    <3>2. f[i] \in C /\ st.args[k] = Returned(f[i]).args[k]
      BY <1>5, <2>1, <3>1
    <3>3. ASSUME NEW g \in C, g # f[i] PROVE Before(Registrations, g, f[i])
      <4>1. PICK j \in 1 .. r : g = f[j] /\ Changing(out[hooks[j].name], k)
        BY <2>1
      <4>2. j <= i /\ j # i
        BY <3>1, <3>3, <4>1
      <4>3. j < i /\ i \in 1 .. n /\ j \in 1 .. n
        BY <1>2, <1>5, <4>2
      <4> QED BY <1>3, <4>1, <4>3
    <3> QED BY <3>2, <3>3 DEF C
  <2> QED BY <1>2, <2>2, <2>3
<1>11. st.blocked = (\E h \in reached : Refuses(Registrations[h], Returned(h)))
  BY <1>1, <1>7, <1>8
<1> QED BY <1>10, <1>11 DEF Decides, Returned

\* The hooks that ran after a call, against the order of a chain before one.
Reversed(post) ==
    \A i, j \in DOMAIN Registrations :
      LET at(h) == {n \in DOMAIN post : post[n] = Registrations[h].name}
      IN  Before(Registrations, i, j) => \A n \in at(i), m \in at(j) : n > m

\* The chain before a call; the memory tool has none.
LEMMA PreIs ==
    ASSUME HooksAreNamed, NEW tool, NEW args, args = [k \in DOMAIN args |-> args[k]],
           NEW out
    PROVE  \E hooks, f, W, r :
             LET list == IF tool = "memory" THEN <<>> ELSE HookList
                 pre == Run(list, "pre_tool", tool, args, out)
             IN  /\ hooks \in Seq(HookSet)
                 /\ Ranks(f, hooks, IF tool = "memory" THEN {} ELSE Chosen("pre_tool", tool))
                 /\ pre \in ChainStates(DOMAIN args, W)
                 /\ Went(pre, hooks, Len(hooks), r, args, out)
<1> DEFINE none == <<>>
           list == IF tool = "memory" THEN none ELSE HookList
           H == IF tool = "memory" THEN {} ELSE Chosen("pre_tool", tool)
           hooks == Selected(list, "pre_tool", tool)
           pre == Run(list, "pre_tool", tool, args, out)
<1>1. hooks \in Seq(HookSet) /\ \E f : Ranks(f, hooks, H)
  <2>1. CASE tool = "memory"
    <3> DEFINE places == {i \in DOMAIN none :
                            /\ none[i].point = "pre_tool"
                            /\ Matches(none[i].matcher, tool)}
    <3>1. Selected(none, "pre_tool", tool) = At(none, places)
      BY Zenon DEF Selected
    <3>2. places = {} /\ none \in Seq(HookSet) /\ {} \in SUBSET DOMAIN none
      OBVIOUS
    <3>3. \E f : Ranks(f, none, {})
      BY RanksNone
    <3> HIDE DEF none, places
    <3>4. PICK f : Ranks(f, none, {})
      BY <3>3
    <3> DEFINE K == {}
    <3>5. \A h : h \in K <=> \E p \in {} : h = f[p]
      OBVIOUS
    <3> HIDE DEF K
    <3>6. At(none, {}) \in Seq(HookSet) /\ \E g : Ranks(g, At(none, {}), K)
      BY <3>2, <3>4, <3>5, SomeRanks
    <3> QED BY <2>1, <3>1, <3>2, <3>6 DEF K
  <2>2. CASE tool # "memory"
    <3>1. /\ Selected(HookList, "pre_tool", tool) \in Seq(HookSet)
          /\ \E f : Ranks(f, Selected(HookList, "pre_tool", tool),
                          Chosen("pre_tool", tool))
      BY SelectedRanks
    <3> QED BY <2>2, <3>1
  <2> QED BY <2>1, <2>2
<1> HIDE DEF list, H
<1>2. InOrder(list, "pre_tool", tool) = hooks
  BY DEF InOrder
<1> HIDE DEF hooks
<1>3. PICK f : Ranks(f, hooks, H)
  BY <1>1
<1>4. PICK W : LET inOrder == InOrder(list, "pre_tool", tool)
               IN  /\ pre \in ChainStates(DOMAIN args, W)
                   /\ \E s : Went(pre, inOrder, Len(inOrder), s, args, out)
  <2>1. InOrder(list, "pre_tool", tool) \in Seq(HookSet)
    BY <1>1, <1>2
  <2> QED BY <2>1, RunWent
<1> HIDE DEF pre
<1>5. PICK r : Went(pre, hooks, Len(hooks), r, args, out)
  BY <1>2, <1>4
<1>6. pre \in ChainStates(DOMAIN args, W)
  BY <1>4
<1> QED BY <1>1, <1>3, <1>5, <1>6 DEF pre, list, H, none

\* The chain after a call.
LEMMA PostIs ==
    ASSUME HooksAreNamed, NEW out
    PROVE  LET post == Run(HookList, "post_tool", NoTool, <<>>, out).ran
           IN  /\ Reversed(post)
               /\ post \in Seq(HookNames)
               /\ \A n \in DOMAIN post : \E h \in Chosen("post_tool", NoTool) :
                    post[n] = Registrations[h].name
<1> DEFINE chosen == Selected(HookList, "post_tool", NoTool)
           H == Chosen("post_tool", NoTool)
           order == InOrder(HookList, "post_tool", NoTool)
           L == Len(chosen)
           none == <<>>
           run == Run(HookList, "post_tool", NoTool, none, out)
           post == run.ran
<1>1. chosen \in Seq(HookSet) /\ \E f : Ranks(f, chosen, H)
  BY SelectedRanks
<1>2. order = Reverse(chosen)
  BY DEF InOrder
<1>3. none = [k \in DOMAIN none |-> none[k]]
  OBVIOUS
<1> HIDE DEF chosen, H, order, none
<1>4. PICK f : Ranks(f, chosen, H)
  BY <1>1
<1>5. /\ order \in Seq(HookSet) /\ Len(order) = L
      /\ \A i \in 1 .. L : L - i + 1 \in 1 .. L /\ order[i] = chosen[L - i + 1]
  <2>1. /\ Reverse(chosen) = Backwards(chosen)
        /\ Backwards(chosen) \in Seq(HookSet) /\ Len(Backwards(chosen)) = Len(chosen)
        /\ \A i \in 1 .. Len(chosen) : /\ Len(chosen) - i + 1 \in 1 .. Len(chosen)
                                       /\ Backwards(chosen)[i] = chosen[Len(chosen) - i + 1]
    BY <1>1, BackwardsIs
  <2>2. order = Backwards(chosen)
    BY <1>2, <2>1
  <2> QED BY <2>1, <2>2
<1>6. PICK W : /\ run \in ChainStates(DOMAIN none, W)
               /\ \E s : Went(run, order, Len(order), s, none, out)
  BY <1>3, <1>5, RunWent DEF order
<1> HIDE DEF run
<1>7. PICK r : Went(run, order, Len(order), r, none, out)
  BY <1>6
<1> HIDE DEF L
<1>8. /\ L \in Nat /\ r \in 0 .. L /\ post \in Seq(HookNames) /\ Len(post) = r
      /\ \A i \in 1 .. r : post[i] = order[i].name
  <2>1. post \in Seq(HookNames)
    BY <1>6 DEF ChainStates
  <2>2. L \in Nat
    BY <1>1 DEF L
  <2>3. r \in 0 .. Len(order) /\ Len(post) = r /\ \A i \in 1 .. r : post[i] = order[i].name
    BY <1>7 DEF Went
  <2> QED BY <1>5, <2>1, <2>2, <2>3
<1>9. DOMAIN post = 1 .. r
  BY <1>8
<1>10. /\ f \in [1 .. L -> H]
       /\ \A i \in 1 .. L : chosen[i] = Registrations[f[i]]
       /\ \A i, j \in 1 .. L : i < j => Before(Registrations, f[i], f[j])
  BY <1>4 DEF Ranks, L
<1> HIDE DEF post
<1>11. ASSUME NEW n \in 1 .. r
       PROVE  /\ L - n + 1 \in 1 .. L /\ f[L - n + 1] \in H
              /\ post[n] = Registrations[f[L - n + 1]].name
  <2>1. n \in 1 .. L
    BY <1>8
  <2>2. L - n + 1 \in 1 .. L /\ order[n] = chosen[L - n + 1] /\ post[n] = order[n].name
    BY <1>5, <1>8, <2>1
  <2> QED BY <1>10, <2>2
<1>12. H \in SUBSET DOMAIN Registrations
  BY DEF H, Chosen
<1>13. ASSUME NEW i \in DOMAIN Registrations, NEW j \in DOMAIN Registrations,
              Before(Registrations, i, j), NEW n \in 1 .. r, NEW m \in 1 .. r,
              post[n] = Registrations[i].name, post[m] = Registrations[j].name
       PROVE  n > m
  <2> DEFINE a == L - n + 1
             b == L - m + 1
  <2>1. /\ a \in 1 .. L /\ f[a] \in H /\ post[n] = Registrations[f[a]].name
        /\ b \in 1 .. L /\ f[b] \in H /\ post[m] = Registrations[f[b]].name
    BY <1>11
  <2>2. ~(n > m) => a = b \/ b < a
    BY <1>8
  <2> HIDE DEF a, b
  <2>3. f[a] = i /\ f[b] = j
    <3>1. f[a] \in DOMAIN Registrations /\ f[b] \in DOMAIN Registrations
      BY <1>12, <2>1
    <3> QED BY <1>13, <2>1, <3>1, SameName
  <2>4. ~Before(Registrations, j, i) /\ i # j
    BY <1>13, BeforeIsStrict
  <2> QED BY <1>10, <2>1, <2>2, <2>3, <2>4
<1>14. Reversed(post)
  BY <1>9, <1>13 DEF Reversed
<1>15. \A n \in DOMAIN post : \E h \in H : post[n] = Registrations[h].name
  BY <1>9, <1>11
<1> QED BY <1>8, <1>14, <1>15 DEF post, run, H, none

\* What HooksDecide says of a call.
CallDecided(c) ==
    LET reached == IF c.tool = "memory" THEN {}
                   ELSE Reached(Registrations, "pre_tool", c.tool, c.out)
    IN  Decides(reached, c.out, c.pre, c.args) /\ Reversed(c.post)

\* A call, whatever its hooks return.
LEMMA CalledDecided ==
    ASSUME HooksAreNamed, NEW c, c.args = [k \in DOMAIN c.args |-> c.args[k]], NEW X,
           NEW out \in [Names("pre_tool", c.tool) \cup Names("post_tool", NoTool)
                          -> X]
    PROVE  CallDecided(Called(c, out))
<1> DEFINE tool == c.tool
           args == c.args
           none == <<>>
           list == IF tool = "memory" THEN none ELSE HookList
           H == IF tool = "memory" THEN {} ELSE Chosen("pre_tool", tool)
           pre == Run(list, "pre_tool", tool, args, out)
           after == Run(HookList, "post_tool", NoTool, none, out).ran
           post == IF pre.blocked THEN none ELSE after
           Ran(h) == h \in ToSet(pre.ran) \cup ToSet(post)
           says == [h \in DOMAIN out |-> IF Ran(h) THEN out[h] ELSE NotRun]
           reached == IF tool = "memory" THEN {}
                      ELSE Reached(Registrations, "pre_tool", tool, says)
<1>1. Called(c, out) = [tool |-> tool, args |-> args, pre |-> pre, post |-> post,
                             out |-> says]
  BY Zenon DEF Called
<1>2. PICK hooks, f, W, r :
        /\ hooks \in Seq(HookSet)
        /\ Ranks(f, hooks, H)
        /\ pre \in ChainStates(DOMAIN args, W)
        /\ Went(pre, hooks, Len(hooks), r, args, out)
  BY PreIs
<1>3. /\ Reversed(after) /\ after \in Seq(HookNames)
      /\ \A n \in DOMAIN after : \E h \in Chosen("post_tool", NoTool) :
           after[n] = Registrations[h].name
  BY PostIs
<1> HIDE DEF after, pre
<1>4. /\ Reversed(post)
      /\ \A n \in DOMAIN post : \E h \in Chosen("post_tool", NoTool) :
           post[n] = Registrations[h].name
  <2>1. DOMAIN none = {}
    OBVIOUS
  <2>2. Reversed(none)
    BY <2>1 DEF Reversed
  <2> HIDE DEF none
  <2> QED BY <1>3, <2>1, <2>2
<1> HIDE DEF post
<1>5. Kept(says, out, hooks, r)
  <2>1. /\ r \in 0 .. Len(hooks) /\ Len(pre.ran) = r
        /\ \A i \in 1 .. r : pre.ran[i] = hooks[i].name
    BY <1>2 DEF Went
  <2>2. \A n : n \in ToSet(pre.ran) <=> \E i \in 1 .. r : n = hooks[i].name
    <3>1. pre.ran \in Seq(HookNames)
      BY <1>2 DEF ChainStates
    <3>2. DOMAIN pre.ran = 1 .. r
      BY <2>1, <3>1
    <3>3. \A n : n \in ToSet(pre.ran) <=> \E i \in DOMAIN pre.ran : n = pre.ran[i]
      BY DEF ToSet
    <3>4. \A i \in 1 .. r : pre.ran[i] = hooks[i].name
      BY <2>1
    <3> TAKE n
    <3>5. ASSUME n \in ToSet(pre.ran) PROVE \E i \in 1 .. r : n = hooks[i].name
      <4>1. PICK i \in DOMAIN pre.ran : n = pre.ran[i]
        BY <3>3, <3>5
      <4>2. i \in 1 .. r
        BY <3>2, <4>1
      <4>3. pre.ran[i] = hooks[i].name
        BY <3>4, <4>2
      <4> QED BY <4>1, <4>2, <4>3, Zenon
    <3>6. ASSUME NEW i \in 1 .. r, n = hooks[i].name PROVE n \in ToSet(pre.ran)
      <4>1. i \in DOMAIN pre.ran
        BY <3>2
      <4>2. pre.ran[i] = hooks[i].name
        BY <3>4
      <4> QED BY <3>3, <3>6, <4>1, <4>2, Zenon
    <3> QED BY <3>5, <3>6
  <2>3. /\ f \in [1 .. Len(hooks) -> H] /\ Len(hooks) \in Nat
        /\ \A i \in 1 .. Len(hooks) : hooks[i] = Registrations[f[i]]
        /\ \A i, j \in 1 .. Len(hooks) : i < j => Before(Registrations, f[i], f[j])
    BY <1>2 DEF Ranks
  <2>4. H \in SUBSET Chosen("pre_tool", tool)
    OBVIOUS
  <2> HIDE DEF H
  <2>5. ASSUME NEW i \in 1 .. Len(hooks)
        PROVE  /\ f[i] \in DOMAIN Registrations /\ hooks[i] = Registrations[f[i]]
               /\ hooks[i].point = "pre_tool" /\ Matches(hooks[i].matcher, tool)
               /\ hooks[i].name \in DOMAIN out
    <3>1. f[i] \in Chosen("pre_tool", tool) /\ hooks[i] = Registrations[f[i]]
      BY <2>3, <2>4
    <3>2. /\ f[i] \in DOMAIN Registrations /\ hooks[i].point = "pre_tool"
          /\ Matches(hooks[i].matcher, tool)
      BY <3>1 DEF Chosen
    <3>3. hooks[i].name \in Names("pre_tool", tool)
      BY <3>1, <3>2 DEF Names
    <3> QED BY <3>1, <3>2, <3>3
  <2>6. ASSUME NEW i \in 1 .. Len(hooks), NEW j \in 1 .. Len(hooks),
               hooks[i].name = hooks[j].name
        PROVE  i = j
    <3>1. f[i] = f[j]
      <4>1. /\ f[i] \in DOMAIN Registrations /\ f[j] \in DOMAIN Registrations
            /\ Registrations[f[i]].name = Registrations[f[j]].name
        BY <2>5, <2>6
      <4> QED BY <4>1, SameName
    <3>2. f[i] \in DOMAIN Registrations /\ f[j] \in DOMAIN Registrations
      BY <2>5
    <3>3. ~(i < j) /\ ~(j < i)
      BY <2>3, <3>1, <3>2, BeforeIsStrict
    <3> QED BY <2>3, <3>3
  <2>7. ASSUME NEW i \in 1 .. Len(hooks) PROVE hooks[i].name \notin ToSet(post)
    <3> SUFFICES ASSUME NEW n \in DOMAIN post, post[n] = hooks[i].name PROVE FALSE
      BY DEF ToSet
    <3>1. PICK h \in Chosen("post_tool", NoTool) : post[n] = Registrations[h].name
      BY <1>4
    <3>2. h \in DOMAIN Registrations /\ Registrations[h].point = "post_tool"
      BY DEF Chosen
    <3>3. f[i] = h
      <4>1. /\ f[i] \in DOMAIN Registrations
            /\ Registrations[f[i]].name = Registrations[h].name
        BY <2>5, <3>1
      <4> QED BY <3>2, <4>1, SameName
    <3> QED BY <2>5, <3>2, <3>3
  <2>8. ASSUME NEW i \in 1 .. Len(hooks)
        PROVE  /\ i <= r => says[hooks[i].name] = out[hooks[i].name]
               /\ i > r => says[hooks[i].name] = NotRun
    <3>1. i <= r => hooks[i].name \in ToSet(pre.ran)
      BY <2>1, <2>2, <2>3
    <3>2. i > r => hooks[i].name \notin ToSet(pre.ran)
      <4> SUFFICES ASSUME i > r, NEW j \in 1 .. r, hooks[i].name = hooks[j].name PROVE FALSE
        BY <2>2
      <4>1. j \in 1 .. Len(hooks) /\ i # j
        BY <2>1, <2>3
      <4> QED BY <2>6, <4>1
    <3>3. hooks[i].name \in DOMAIN out
      BY <2>5
    <3>4. says[hooks[i].name] = IF Ran(hooks[i].name) THEN out[hooks[i].name]
                                ELSE NotRun
      BY <3>3
    <3> HIDE DEF says
    <3> QED BY <2>7, <3>1, <3>2, <3>4
  <2> HIDE DEF says
  <2> QED BY <2>8 DEF Kept
<1> HIDE DEF says
<1>6. \A h : h \in reached <=> \E i \in 1 .. r : h = f[i]
  <2>1. CASE tool = "memory"
    <3>1. H = {}
      BY <2>1
    <3>2. f \in [1 .. Len(hooks) -> {}] /\ r \in 0 .. Len(hooks) /\ Len(hooks) \in Nat
      BY <1>2, <3>1 DEF Ranks, Went
    <3>3. r = 0
      <4>1. 1 \notin 1 .. Len(hooks)
        BY <3>2
      <4> QED BY <3>2, <4>1
    <3>4. 1 .. r = {}
      BY <3>3
    <3> QED BY <2>1, <3>4
  <2>2. CASE tool # "memory"
    <3>1. Ranks(f, hooks, Chosen("pre_tool", tool))
      BY <1>2, <2>2
    <3>2. \A h : h \in Reached(Registrations, "pre_tool", tool, says)
                    <=> \E i \in 1 .. r : h = f[i]
      <4> HIDE DEF tool, args
      <4> QED BY <1>2, <1>5, <3>1, ReachedIs
    <3> QED BY <2>2, <3>2
  <2> QED BY <2>1, <2>2
<1> HIDE DEF reached, H
<1>7. Decides(reached, says, pre, args)
  <2> HIDE DEF args
  <2> QED BY <1>2, <1>5, <1>6, PreDecides
<1> DEFINE d == Called(c, out)
<1>8. d.tool = tool /\ d.args = args /\ d.pre = pre /\ d.post = post /\ d.out = says
  BY <1>1
<1> HIDE DEF d
<1>9. CallDecided(d)
  BY <1>4, <1>7, <1>8 DEF CallDecided, reached
<1> QED BY <1>9 DEF d

\* The call that is kept.
HooksDecided == call # NoCall => CallDecided(call)

\* Only a round with a tool call makes one.
LEMMA HooksDecidedStep ==
    ASSUME HooksAreNamed, ArgumentsAreMapped, HooksDecided, [ConvNext]_(convVars)
    PROVE  HooksDecided'
<1>1. CASE call' = call
  BY <1>1 DEF HooksDecided
<1>2. CASE call' = NoCall
  BY <1>2 DEF HooksDecided
<1>3. CASE ToolRound
  <2>1. PICK c \in Calls : call' \in {Called(c, out) :
                                        out \in Returns(Names("pre_tool", c.tool)
                                                  \cup Names("post_tool", NoTool))}
    BY <1>3 DEF ToolRound
  <2>2. PICK out \in Returns(Names("pre_tool", c.tool)
                                    \cup Names("post_tool", NoTool)) :
               call' = Called(c, out)
    BY <2>1
  <2>3. PICK X : out \in [Names("pre_tool", c.tool)
                            \cup Names("post_tool", NoTool) -> X]
    BY DEF Returns
  <2>4. c.args = [k \in DOMAIN c.args |-> c.args[k]]
    BY DEF ArgumentsAreMapped
  <2>5. CallDecided(Called(c, out))
    BY <2>3, <2>4, CalledDecided
  <2>6. CallDecided(call')
    BY <2>2, <2>5
  <2> QED BY <2>6 DEF HooksDecided
<1>4. CASE UNCHANGED convVars
  BY <1>1, <1>4 DEF convVars
<1>5. CASE ConvNext
  BY <1>1, <1>2, <1>3, <1>5
     DEF ConvNext, Rebuild, CompactByCommand, CompactByRequest, Ask,
         Assembles, LastRound, CompactBySize, GoesOn,
         CompactByRounds, NotDue, Answer, Abort
<1> QED BY <1>4, <1>5

\* For every list of registrations and whatever the hooks return, a call is refused, or runs
\* with what it was changed to, as the priorities and the order of registration say.
THEOREM HooksAlwaysDecide == ConvSpec => []HooksDecide
<1> USE HooksAreNamed, ArgumentsAreMapped
<1>1. ConvInit => HooksDecided
  BY DEF ConvInit, HooksDecided
<1>2. HooksDecided /\ [ConvNext]_(convVars) => HooksDecided'
  BY HooksDecidedStep
<1>3. HooksDecided => HooksDecide
  BY DEF HooksDecided, CallDecided, Decides, Reversed, HooksDecide
<1> QED BY <1>1, <1>2, <1>3, PTL DEF ConvSpec

=============================================================================
