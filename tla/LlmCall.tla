------------------------------ MODULE LlmCall ------------------------------
(***************************************************************************)
(* One call of LLMInvoker.invoke: the model's answer arrives in pieces     *)
(* from the client, through the retry loop, and is gathered into one       *)
(* response, whose tool calls get their arguments repaired when their JSON *)
(* was cut off.  An attempt that breaks is followed by another one, whose  *)
(* pieces arrive behind those of the broken one.                           *)
(***************************************************************************)
EXTENDS JsonRepair

CONSTANTS
    Answers,        \* what the model may answer: words, and arguments of calls
    MaxRetries      \* max_retries

ASSUME AttemptsArePositive == MaxRetries \in Nat \ {0}
ASSUME AnswersAreTexts ==
    \A a \in Answers : a.words \in Nat /\ a.calls \in Seq(Seq(Token))
ASSUME ArgumentsAreJson ==
    \A a \in Answers : \A i \in DOMAIN a.calls : Loads(a.calls[i]) /\ a.calls[i][1] = "{"

VARIABLES
    stage,          \* "stream", "backoff", "over"
    limited,        \* the caller waits for a limited time (wait_for): for a summary, or
                    \* for a subagent, which offers tools as a turn does
    answers,        \* the answer each attempt gets, the last one being streamed
    sent,           \* how much of it was sent: words, and tokens of each call
    started,        \* started_indices, of the client's stream
    text,           \* text_parts: the attempt each word is of
    gathered,       \* tool_calls: _args_raw of each index
    result          \* how the call ends, and whether its stream had been sent whole

callVars == <<stage, limited, answers, sent, started, text, gathered, result>>
reading == <<limited, answers, result>>

Attempt == Len(answers)
Streamed == answers[Attempt]
Indices == DOMAIN Streamed.calls

NothingOf(a) == [words |-> 0, calls |-> [i \in DOMAIN a.calls |-> 0]]
NoResult == [kind |-> "none", cut |-> FALSE]

CallTypeOK ==
    /\ stage \in {"stream", "backoff", "over"}
    /\ limited \in BOOLEAN
    /\ answers \in Seq(Answers) /\ Attempt \in 1 .. MaxRetries
    /\ sent.words \in 0 .. Streamed.words
    /\ \A i \in Indices : sent.calls[i] \in 0 .. Len(Streamed.calls[i])
    /\ started \subseteq Indices
    /\ \A k \in DOMAIN text : text[k] \in 1 .. Attempt
    /\ \A i \in DOMAIN gathered : gathered[i] \in Seq(Token)
    /\ result.kind \in {"none", "answer", "error", "raised"}

-----------------------------------------------------------------------------

CallInit ==
    /\ stage = "stream"
    /\ limited \in BOOLEAN
    /\ \E a \in Answers : answers = <<a>> /\ sent = NothingOf(a)
    /\ started = {} /\ text = <<>> /\ gathered = <<>>
    /\ result = NoResult

\* TextChunk.
ReceiveWord ==
    /\ stage = "stream" /\ sent.words < Streamed.words
    /\ sent' = [sent EXCEPT !.words = @ + 1]
    /\ text' = Append(text, Attempt)
    /\ UNCHANGED <<stage, started, gathered, reading>>

\* Mutant: the call of an attempt that broke is continued by the next attempt's.
GatherOn(i, withId, piece) ==
    LET new == withId /\ i \notin started
        begun == IF new THEN [j \in DOMAIN gathered \cup {i} |->
                                IF j \in DOMAIN gathered THEN gathered[j] ELSE <<>>]
                        ELSE gathered
    IN  /\ started' = IF new THEN started \cup {i} ELSE started
        /\ gathered' = IF i \in DOMAIN begun THEN [begun EXCEPT ![i] = @ \o piece]
                                          ELSE begun

\* Mutant: every piece with an id begins the call anew.
GatherAnew(i, withId, piece) ==
    LET begun == IF withId THEN [j \in DOMAIN gathered \cup {i} |->
                                   IF j = i THEN <<>> ELSE gathered[j]]
                           ELSE gathered
    IN  /\ started' = IF withId THEN started \cup {i} ELSE started
        /\ gathered' = IF i \in DOMAIN begun THEN [begun EXCEPT ![i] = @ \o piece]
                                          ELSE begun

\* What a piece of the call at index i does: the first one with the call's id emits
\* ToolCallStartChunk, which begins the call anew; its text is a ToolCallDeltaChunk,
\* for the call that has the index.
Gather(i, withId, piece) ==
    LET new == withId /\ i \notin started
        begun == IF new THEN [j \in DOMAIN gathered \cup {i} |->
                                IF j = i THEN <<>> ELSE gathered[j]]
                        ELSE gathered
    IN  /\ started' = IF new THEN started \cup {i} ELSE started
        /\ gathered' = IF i \in DOMAIN begun THEN [begun EXCEPT ![i] = @ \o piece]
                                          ELSE begun

\* The calls of an answer are opened in order; their arguments may arrive mixed.
ReceiveCall(i) ==
    /\ stage = "stream" /\ i \notin started
    /\ \A j \in 1 .. i - 1 : j \in started
    /\ Gather(i, TRUE, <<>>)
    /\ UNCHANGED <<stage, sent, text, reading>>

\* Some providers repeat the id with every piece.
ReceiveArguments(i) ==
    /\ stage = "stream" /\ i \in started /\ sent.calls[i] < Len(Streamed.calls[i])
    /\ sent' = [sent EXCEPT !.calls[i] = @ + 1]
    /\ \E withId \in BOOLEAN : Gather(i, withId, <<Streamed.calls[i][sent.calls[i] + 1]>>)
    /\ UNCHANGED <<stage, text, reading>>

AllSent ==
    /\ sent.words = Streamed.words /\ started = Indices
    /\ \A i \in Indices : sent.calls[i] = Len(Streamed.calls[i])

Return(r) ==
    /\ stage' = "over" /\ result' = r
    /\ UNCHANGED <<limited, answers, sent, started, text, gathered>>

Respond(cut) == Return([kind |-> "answer", cut |-> cut])

Fail == Return([kind |-> "error", cut |-> TRUE])

\* The tool calls of the response: the arguments are parsed, and repaired, when the
\* stream has ended; an error comes without calls.
ToolCalls ==
    IF result.kind = "answer" THEN [i \in DOMAIN gathered |-> Arguments(gathered[i])]
                              ELSE <<>>

\* finish_reason "stop" or "tool_calls".
Finishes ==
    /\ stage = "stream" /\ AllSent
    /\ Respond(FALSE)

\* finish_reason "length", or the stream ends without one, which counts as "stop".
EndsEarly ==
    /\ stage = "stream" /\ ~AllSent
    /\ Respond(TRUE)

\* Mutant: the attempts are not counted.
BreaksAlways(final) ==
    /\ stage = "stream"
    /\ IF final
       THEN Fail
       ELSE /\ stage' = "backoff"
            /\ UNCHANGED <<limited, answers, sent, started, text, gathered, result>>

\* An exception in the stream.  One about authentication is final; another one is
\* when the attempts are used up: the response has the text so far and the error.
Breaks(final) ==
    /\ stage = "stream"
    /\ IF final \/ Attempt = MaxRetries
       THEN Fail
       ELSE /\ stage' = "backoff"
            /\ UNCHANGED <<limited, answers, sent, started, text, gathered, result>>

\* The next attempt is a stream of its own; what was gathered stays.
Wakes ==
    /\ stage = "backoff"
    /\ stage' = "stream"
    /\ \E a \in Answers :
         /\ sent' = NothingOf(a)
         /\ answers' = IF Attempt < MaxRetries THEN Append(answers, a)
                                                ELSE [answers EXCEPT ![Attempt] = a]
    /\ started' = {}
    /\ UNCHANGED <<limited, text, gathered, result>>

\* wait_for cancels the call.  In the stream the retry loop takes the cancellation for
\* the end: the text so far is the answer.  In the pause nothing catches it.
TimesOut ==
    /\ limited
    /\ \/ stage = "stream" /\ Respond(~AllSent)
       \/ stage = "backoff" /\ Return([kind |-> "raised", cut |-> TRUE])

-----------------------------------------------------------------------------

Streams ==
    \/ ReceiveWord \/ Finishes \/ EndsEarly
    \/ \E i \in Indices : ReceiveCall(i) \/ ReceiveArguments(i)
    \/ \E final \in BOOLEAN : Breaks(final)

CallNext == Streams \/ Wakes \/ TimesOut

\* A stream goes on, ends or breaks: the HTTP client has a time limit of its own.
\* A pause is a sleep.
Fairness == WF_callVars(Streams) /\ WF_callVars(Wakes)

CallSpec == CallInit /\ [][CallNext]_callVars /\ Fairness

-----------------------------------------------------------------------------
(* Properties.                                                             *)

\* Whatever broke before, an answer that was received to its end is whole: its words
\* are the last of the text, and the calls at its indices have the arguments the
\* model gave them.
AnswerIsWhole ==
    result.kind = "answer" /\ ~result.cut =>
      /\ Streamed.words <= Len(text)
      /\ \A k \in 1 .. Streamed.words : text[Len(text) + 1 - k] = Attempt
      /\ \A i \in Indices : ToolCalls[i] = Streamed.calls[i]

\* Arguments that are not given up say what one attempt said, up to some place: no
\* repair invents or reorders, and no call mixes two attempts or two calls.  It holds
\* for what a broken attempt left behind, too.
RepairsAreTruncations ==
    result.kind = "answer" =>
      \A i \in DOMAIN gathered :
        LET args == ToolCalls[i]
        IN  args # <<>> =>
              \E n \in 1 .. Attempt : /\ i \in DOMAIN answers[n].calls
                                     /\ args \in Truncations(answers[n].calls[i])

\* The attempts end: every call returns.
CallsReturn == <>(stage = "over")

=============================================================================
