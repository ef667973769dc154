----------------------------- MODULE Dispatcher -----------------------------
(***************************************************************************)
(* The loop between the model and the tools (core/dispatcher.py): rounds   *)
(* of a retried LLM stream followed by the tool calls it asked for, the    *)
(* circuit breaker, and the assistant and tool messages of the prompt.     *)
(*                                                                         *)
(* dispatch_stream serves the turns of the main agent and runs the calls   *)
(* of a round concurrently; dispatch serves one subagent and runs them in  *)
(* order.  A tool call is one step here; ToolExecutor opens it.            *)
(***************************************************************************)
EXTENDS Naturals, Sequences

CONSTANTS
    Keys,         \* "<tool>:<arguments>", what the breaker compares
    MaxBatch,     \* bound: tool calls of one LLM answer
    MaxRounds,    \* max_rounds (200, 20 or 30 in the code)
    MaxAttempts,  \* RetryHandler's max_retries
    Limit,        \* _max_same_call_failures (5 in the code)
    MaxTurns      \* bound: turns of the main agent

None == "none"

ASSUME DispatcherAssumption ==
    /\ None \notin Keys
    /\ MaxBatch \in Nat /\ MaxTurns \in Nat
    /\ MaxRounds \in Nat \ {0} /\ MaxAttempts \in Nat \ {0} /\ Limit \in Nat \ {0}

VARIABLES
    api,        \* "stream" or "dispatch"
    phase,      \* "llm", "tools", "results", or how the last turn ended
    turn,       \* turns started
    round,      \* rounds of this turn
    attempt,    \* attempts at this round's stream
    announced,  \* tool calls this attempt has announced
    building,   \* tool_calls_building, by index
    results,    \* what each call of the batch returned, None before
    next,       \* first result not processed yet
    messages,   \* assistant and tool messages of this turn
    lastFailed, \* _last_failed_call
    failures,   \* _same_call_failures
    recent      \* history: the last Limit results, in the order they were processed

vars == <<api, phase, turn, round, attempt, announced, building, results, next,
          messages, lastFailed, failures, recent>>

streamVars == <<attempt, announced, building>>
batchVars == <<results, next>>
breakerVars == <<lastFailed, failures, recent>>

Over == {"idle", "done", "error", "breaker", "limit", "stopped"}
Outcomes == {"success", "error"}

CallIds == (1 .. MaxRounds) \X (1 .. MaxBatch)
AssistantMsg(ids) == [role |-> "assistant", calls |-> ids]
ToolMsg(id) == [role |-> "tool", id |-> id]
Record(k, r) == [key |-> k, result |-> r]
Message == [role : {"assistant"}, calls : Seq(CallIds)] \cup [role : {"tool"}, id : CallIds]
Records == [key : Keys, result : Outcomes]

\* The ids of the calls in building, all of this round.
BatchIds == [i \in DOMAIN building |-> <<round, i>>]

-----------------------------------------------------------------------------

Init ==
    /\ api \in {"stream", "dispatch"}
    /\ phase = "idle" /\ turn = 0 /\ round = 0
    /\ attempt = 1 /\ announced = 0 /\ building = <<>>
    /\ results = <<>> /\ next = 1 /\ messages = <<>>
    /\ lastFailed = None /\ failures = 0 /\ recent = <<>>

\* A dispatcher keeps its breaker from turn to turn; a subagent has one turn.
Start ==
    /\ phase \in Over /\ turn < MaxTurns
    /\ api = "stream" \/ turn = 0
    /\ phase' = "llm" /\ turn' = turn + 1 /\ round' = 1
    /\ attempt' = 1 /\ announced' = 0 /\ building' = <<>>
    /\ results' = <<>> /\ next' = 1 /\ messages' = <<>>
    /\ UNCHANGED <<api, breakerVars>>

\* A chunk that starts a tool call writes its index, whoever wrote it before.
Announce(k) ==
    /\ phase = "llm" /\ announced < MaxBatch
    /\ announced' = announced + 1
    /\ building' = IF announced' \in DOMAIN building
                     THEN [building EXCEPT ![announced'] = k]
                     ELSE Append(building, k)
    /\ UNCHANGED <<api, phase, turn, round, attempt, batchVars, messages, breakerVars>>

\* Mutant: the attempts are not counted.
RetriedForEver ==
    /\ phase = "llm" /\ attempt < MaxAttempts
    /\ announced' = 0
    /\ UNCHANGED <<api, phase, turn, round, attempt, building, batchVars, messages,
                   breakerVars>>

\* The stream breaks and the retry handler starts it again; the calls the
\* broken attempt announced stay in building.
StreamRetried ==
    /\ phase = "llm" /\ attempt < MaxAttempts
    /\ attempt' = attempt + 1 /\ announced' = 0
    /\ UNCHANGED <<api, phase, turn, round, building, batchVars, messages, breakerVars>>

\* Retries exhausted, or an error that is not retried.
StreamFails ==
    /\ phase = "llm"
    /\ phase' = "error"
    /\ UNCHANGED <<api, turn, round, streamVars, batchVars, messages, breakerVars>>

\* The answer is complete, or cut short by a cancellation that the retry handler
\* swallows while it waits for a chunk: the turn is over, or its calls are run.
StreamEnds ==
    /\ phase = "llm"
    /\ phase' = IF building = <<>> THEN "done" ELSE "tools"
    /\ messages' = IF building = <<>> /\ api = "dispatch"
                     THEN messages ELSE Append(messages, AssistantMsg(BatchIds))
    /\ results' = [i \in DOMAIN building |-> None]
    /\ next' = 1
    /\ UNCHANGED <<api, turn, round, streamVars, breakerVars>>

-----------------------------------------------------------------------------
(* The results.                                                            *)

\* Mutant: a success does not start the count again.
CountNoReset(k, r) ==
    /\ recent' = Append(IF Len(recent) < Limit THEN recent ELSE Tail(recent), Record(k, r))
    /\ IF r = "error"
         THEN /\ failures' = IF k = lastFailed THEN failures + 1 ELSE 1
              /\ lastFailed' = k
         ELSE UNCHANGED <<failures, lastFailed>>

\* The breaker counts consecutive failures of the same call.
Count(k, r) ==
    /\ recent' = Append(IF Len(recent) < Limit THEN recent ELSE Tail(recent), Record(k, r))
    /\ IF r = "error"
         THEN /\ failures' = IF k = lastFailed THEN failures + 1 ELSE 1
              /\ lastFailed' = k
         ELSE failures' = 0 /\ lastFailed' = None

\* Mutant: a call that failed is not answered.
AnsweredOnSuccess ==
    IF results[next] = "error" THEN messages ELSE Append(messages, ToolMsg(<<round, next>>))

Answered == Append(messages, ToolMsg(<<round, next>>))

\* The end of a round: the next one, unless they are used up.
NextRound ==
    IF round < MaxRounds
      THEN /\ phase' = "llm" /\ round' = round + 1
           /\ attempt' = 1 /\ announced' = 0 /\ building' = <<>>
           /\ results' = <<>> /\ next' = 1
      ELSE /\ phase' = "limit"
           /\ UNCHANGED <<round, streamVars, batchVars>>

\* dispatch_stream: the calls end in any order (asyncio.gather) ...
CallEnds(i, r) ==
    /\ api = "stream" /\ phase = "tools"
    /\ i \in DOMAIN results /\ results[i] = None
    /\ results' = [results EXCEPT ![i] = r]
    /\ phase' = IF \A j \in DOMAIN results : results'[j] # None THEN "results" ELSE "tools"
    /\ UNCHANGED <<api, turn, round, streamVars, next, messages, breakerVars>>

\* ... and their results are processed in the order of the calls.
ProcessResult ==
    /\ api = "stream" /\ phase = "results"
    /\ Count(building[next], results[next])
    /\ UNCHANGED <<api, turn>>
    /\ \/ /\ failures' >= Limit
          /\ phase' = "breaker"
          /\ UNCHANGED <<round, streamVars, batchVars, messages>>
       \/ /\ failures' < Limit
          /\ messages' = Answered
          /\ IF next < Len(building)
               THEN /\ next' = next + 1
                    /\ UNCHANGED <<phase, round, streamVars, results>>
               ELSE NextRound

\* dispatch: one call after the other; a tripped breaker only ends the batch.
RunCall(r) ==
    /\ api = "dispatch" /\ phase = "tools"
    /\ Count(building[next], r)
    /\ UNCHANGED <<api, turn>>
    /\ \/ /\ failures' >= Limit
          /\ UNCHANGED messages
          /\ NextRound
       \/ /\ failures' < Limit
          /\ messages' = Answered
          /\ IF next < Len(building)
               THEN /\ next' = next + 1
                    /\ results' = [results EXCEPT ![next] = r]
                    /\ UNCHANGED <<phase, round, streamVars>>
               ELSE NextRound

\* The turn is cancelled (a stop, a subagent's timeout): the breaker stays as it is.
Stopped ==
    /\ phase \notin Over
    /\ phase' = "stopped"
    /\ UNCHANGED <<api, turn, round, streamVars, batchVars, messages, breakerVars>>

Stream == StreamRetried \/ StreamFails \/ StreamEnds \/ \E k \in Keys : Announce(k)
Batch ==
    \/ \E i \in 1 .. MaxBatch, r \in Outcomes : CallEnds(i, r)
    \/ ProcessResult
    \/ \E r \in Outcomes : RunCall(r)

Next == Start \/ Stream \/ Batch \/ Stopped

Spec == Init /\ [][Next]_vars

\* Streams end or fail (the client library has timeouts), tools end (60 s).
FairSpec == Spec /\ WF_vars(Stream) /\ WF_vars(Batch)

-----------------------------------------------------------------------------
(* Properties.                                                             *)

TypeOK ==
    /\ api \in {"stream", "dispatch"}
    /\ phase \in Over \cup {"llm", "tools", "results"}
    /\ turn \in 0 .. MaxTurns /\ round \in 0 .. MaxRounds
    /\ attempt \in 1 .. MaxAttempts /\ announced \in 0 .. MaxBatch
    /\ building \in Seq(Keys) /\ Len(building) <= MaxBatch
    /\ announced <= Len(building)
    /\ results \in Seq(Outcomes \cup {None})
    /\ phase \in {"tools", "results"} => Len(results) = Len(building) /\ next \in DOMAIN building
    /\ phase = "results" => \A i \in DOMAIN results : results[i] # None
    /\ phase \notin Over => round \in 1 .. MaxRounds
    /\ next \in 1 .. MaxBatch + 1
    /\ messages \in Seq(Message)
    /\ lastFailed \in Keys \cup {None} /\ failures \in Nat
    /\ recent \in Seq(Records) /\ Len(recent) <= Limit

\* Every call of every assistant message is answered, by tool messages that
\* follow it at once and in the order of its calls.
Paired(m) ==
    \A p \in DOMAIN m : m[p].role = "assistant" =>
        \A j \in DOMAIN m[p].calls :
            p + j \in DOMAIN m /\ m[p + j] = ToolMsg(m[p].calls[j])

\* The prompt dispatch_stream sends to the model is well formed: whatever
\* failed, was retried or ended out of order, no tool call is unanswered and no
\* answer misplaced (a provider rejects such a prompt).
CallsPaired == api = "stream" /\ phase = "llm" => Paired(messages)

\* The last j results that were processed, whatever rounds and turns they belong
\* to, are failures of one and the same call.
Failing(j) ==
    /\ j <= Len(recent)
    /\ \E k \in Keys : \A i \in 1 .. Len(recent) :
          i > Len(recent) - j => recent[i] = Record(k, "error")

\* The breaker is exact up to its limit: it has counted j failures if and only
\* if the last j results were failures of the same call; a success or a failure
\* of another call in between starts it again, the end of a round or a turn, a
\* retried stream and a stop do not.
BreakerExact == \A j \in 1 .. Limit : failures >= j <=> Failing(j)

\* Every turn ends: the breaker, the rounds and the retries leave no way to go
\* on for ever.
TurnEnds == (phase \notin Over) ~> (phase \in Over)

=============================================================================
