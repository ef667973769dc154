---------------------------- MODULE Conversation ----------------------------
(***************************************************************************)
(* The engine's conversation over the turns of Orchestrator.run_stream:    *)
(* the hooks, the prompt assembled from the messages, the rounds of the    *)
(* model with their tool calls, the compaction of the messages, by size,   *)
(* by number of rounds and by command, and the answer, which is put        *)
(* together from the prompt.  A turn may be aborted wherever it waits or   *)
(* hands out an event; the messages then are what they were before it.     *)
(*                                                                         *)
(* What the model says is a set of pieces; a message is large or not as    *)
(* the steps choose, and so is the share of the window the messages take.  *)
(***************************************************************************)
EXTENDS Hooks, FiniteSets

CONSTANTS
    Inputs,         \* what the user may type
    MemoryFiles,    \* the memory files that have a content at the start
    Registrations,  \* the hooks, in the order of their registration
    HookOutcomes,   \* what each hook may return, by its name
    Calls,          \* the tool calls the model may make: tool and arguments
    HeadCount,      \* head_count of a compaction
    Recent,         \* preserve_recent of a compaction by size (trim_tail)
    ForcedRecent,   \* preserve_recent of a forced one
    Interval,       \* compression_round_interval
    MaxInputs,      \* bound: turns
    MaxCalls,       \* bound: tool calls
    MaxManual       \* bound: compactions by command

ASSUME SizesArePositive == {HeadCount, Recent, ForcedRecent, Interval} \subseteq Nat \ {0}
ASSUME BoundsAreNatural == {MaxInputs, MaxCalls, MaxManual} \subseteq Nat

\* A hook has a name of its own, which tells here what it returns.
ASSUME HooksAreNamed ==
    /\ Registrations \in Seq({Registrations[i] : i \in DOMAIN Registrations})
    /\ \A i \in DOMAIN Registrations : Registrations[i].priority \in Int
    /\ \A i, j \in DOMAIN Registrations : Registrations[i].name = Registrations[j].name => i = j

\* The arguments of a call are a mapping.
ASSUME ArgumentsAreMapped ==
    \A c \in Calls : c.args = [k \in DOMAIN c.args |-> c.args[k]]

\* The memories the context manager can be given.
Memories == {"user_memory", "permanent_memory", "memory_index"}

ASSUME MemoryIsKnown == MemoryFiles \subseteq Memories

VARIABLES
    place,          \* where the turn is
    msgs,           \* the engine's messages
    inputs,         \* what was typed, by turn
    compressed,     \* _last_compress_round
    injected,       \* the memories the context manager was given
    prompt,         \* msgs_for_llm
    calls,          \* tool calls made so far
    call,           \* the last call: what was approved, and what its hooks did
    saved,          \* the messages in the checkpoint written before the turn
    manual,         \* compactions by command
    said,           \* history: what the model said to the user in this turn
    undone          \* history: compactions whose turn was aborted after them

convVars == <<place, msgs, inputs, compressed, injected, prompt, calls, call, saved, manual,
          said, undone>>

\* _round_count: every turn counts, an aborted one too.
Round == Len(inputs)

\* A message, or a block of the prompt: what it is, the turn it is of, what it says.
Is(what) == [is |-> what, turn |-> 0, says |-> {}]
Question(t) == [is |-> "question", turn |-> t, says |-> {}]
Reply(t, pieces) == [is |-> "answer", turn |-> t, says |-> pieces]

\* A piece of what the model said: its turn, how many calls were made before it, and
\* whether its message was shortened, or its round broken off by an error.
Piece == [turn |-> Round, at |-> calls, cut |-> FALSE]
BrokenOff == [Piece EXCEPT !.cut = TRUE]

Protected(m) == m.is \notin {"question", "answer", "marker", "summary", "merged"}
Spoken(m) == m.is \in {"question", "answer"}

NotRun == [action |-> "continue", context |-> FALSE, args |-> <<>>]
NoCall == [tool |-> NoTool, args |-> <<>>, out |-> <<>>, pre |-> <<>>, post |-> <<>>]

HookList == FoldLeft(Register, <<>>, Registrations)

\* What the hooks of a chain may return: those of a point, for a tool.
Names(point, tool) ==
    {Registrations[i].name : i \in {j \in DOMAIN Registrations :
                                      Registrations[j].point = point
                                        /\ Matches(Registrations[j].matcher, tool)}}
Returns(names) ==
    {out \in [names -> UNION {HookOutcomes[h] : h \in names}] :
       \A h \in names : out[h] \in HookOutcomes[h]}

ConvTypeOK ==
    /\ place \in {"start", "prompt", "hooks", "model", "compact", "told", "due", "toldAgain",
                  "answer"}
    /\ \A k \in DOMAIN msgs : msgs[k].turn \in 0 .. Round
    /\ inputs \in Seq(Inputs) /\ Round <= MaxInputs
    /\ compressed \in 0 .. Round
    /\ injected \subseteq MemoryFiles
    /\ calls \in 0 .. MaxCalls /\ manual \in 0 .. MaxManual
    /\ undone \in 0 .. Round

-----------------------------------------------------------------------------
(* Compaction: ContextCompressor.                                          *)

Shortened(blocks, tail, what) ==
    IF Len(blocks) <= HeadCount + tail
    THEN blocks
    ELSE Append(SubSeq(blocks, 1, HeadCount), Is(what))
           \o SubSeq(blocks, Len(blocks) - tail + 1, Len(blocks))

TrimMiddle(blocks, tail) == Shortened(blocks, tail, "marker")

\* What is summarized is what lies between head and tail of the trimmed list.
SummarizeCore(blocks, tail) == Shortened(blocks, tail, "summary")

Consolidate(blocks, tail) ==
    LET summaries == {k \in DOMAIN blocks : blocks[k].is = "summary"}
    IN  IF Cardinality(summaries) <= 1
        THEN TrimMiddle(blocks, tail)
        ELSE Append(At(blocks, DOMAIN blocks \ summaries), Is("merged"))

\* compress, by how much of the window the messages take: less than 0.70 of it is
\* "low", then from 0.70, 0.85 and 0.95 on.
Pressures == {"low", "trim", "summarize", "consolidate"}

\* _rebuild: what is protected comes first.
Rebuilt(protected, dynamic) == protected \o dynamic

Compress(list, pressure, tail) ==
    LET protected == {k \in DOMAIN list : Protected(list[k])}
        trimmed == TrimMiddle(At(list, DOMAIN list \ protected), tail)
        summarized == SummarizeCore(trimmed, tail)
    IN  Rebuilt(At(list, protected),
                CASE pressure \in {"low", "trim"} -> trimmed
                  [] pressure = "summarize" -> summarized
                  [] pressure = "consolidate" -> Consolidate(summarized, tail))

\* As messages again: what a compaction put in is a system message from now on.
AsMessages(list) ==
    [k \in DOMAIN list |-> IF list[k].is \in {"marker", "summary", "merged"}
                           THEN Is("note") ELSE list[k]]

\* Mutant: compaction by rounds waits for the window to fill as well.
CompactedWhenFull(pressure, force) ==
    IF pressure = "low"
    THEN msgs
    ELSE AsMessages(Compress(msgs, pressure, IF force THEN ForcedRecent ELSE Recent))

\* auto_compact.
Compacted(pressure, force) ==
    IF pressure = "low" /\ ~force
    THEN msgs
    ELSE AsMessages(Compress(msgs, pressure, IF force THEN ForcedRecent ELSE Recent))

\* Orchestrator.compact takes the result unless it has as many messages, and as many
\* tokens, as before: those of a list in which a message became a note may agree.
Different(list) ==
    IF Len(list) # Len(msgs) THEN {TRUE}
    ELSE IF ToSet(list) = ToSet(msgs) THEN {FALSE} ELSE BOOLEAN

Compact(force, ifDone, ifNot) ==
    \E list \in {Compacted(pressure, force) : pressure \in Pressures} :
      \E different \in Different(list) :
        IF different
        THEN msgs' = list /\ compressed' = Round /\ place' = ifDone
        ELSE place' = ifNot /\ UNCHANGED <<msgs, compressed>>

-----------------------------------------------------------------------------
(* The prompt: ContextManager.                                             *)

\* A block is made of the content that was set, however long ago: the cache of blocks
\* only spares making it again.
MemoryBlock(kind) == IF kind \in injected THEN <<Is(kind)>> ELSE <<>>

\* _build_protected_and_memory_blocks; the tools' schemas are never empty.
Blocks ==
    <<Is("system_prompt")>> \o MemoryBlock("user_memory") \o MemoryBlock("permanent_memory")
      \o <<Is("skills")>> \o MemoryBlock("memory_index")

\* _finalize_context: the budget comes last.
Finalized(blocks) == Append(blocks, Is("token_budget"))

\* assemble_from_messages_direct: the first system message is replaced by the blocks,
\* an empty answer is left out, what the hooks add comes last.
Assemble(list, contexts) ==
    LET first == SelectInSeq(list, LAMBDA m : ~Spoken(m))
        kept == At(list, {k \in DOMAIN list \ {first} :
                            list[k].is = "answer" => list[k].says # {}})
        hooked == IF contexts = <<>> THEN <<>> ELSE <<Is("hook_context")>>
    IN  Finalized(Blocks \o kept \o hooked)

\* _freeze_long_assistant_messages: large messages of the model are shortened.
Freeze(list, large) ==
    [k \in DOMAIN list |->
       IF k \in large THEN [list[k] EXCEPT !.says = {[p EXCEPT !.cut = TRUE] : p \in @}]
                      ELSE list[k]]

\* Mutant: the answer takes every answer of the prompt.
WholePrompt(list, t) ==
    UNION {list[k].says : k \in {j \in DOMAIN list : list[j].is = "answer"}}

\* The answer: what the model said after the first message equal to the input.
FinalAnswer(list, t) ==
    UNION {list[k].says :
             k \in {j \in DOMAIN list :
                      /\ list[j].is = "answer"
                      /\ \E i \in 1 .. j - 1 :
                           list[i].is = "question" /\ inputs[list[i].turn] = inputs[t]}}

-----------------------------------------------------------------------------
(* Between turns.                                                          *)

ConvInit ==
    /\ place = "start"
    /\ msgs = <<Is("system_prompt")>> /\ inputs = <<>> /\ compressed = 0
    /\ injected = {}
    /\ prompt = <<>> /\ calls = 0 /\ call = NoCall /\ saved = <<>>
    /\ manual = 0 /\ said = {} /\ undone = 0

\* rebuild, at the start: a file without a content sets nothing.
Rebuild ==
    /\ place = "start"
    /\ injected' = injected \cup MemoryFiles
    /\ place' = "prompt"
    /\ UNCHANGED <<msgs, inputs, compressed, prompt, calls, call, saved, manual, said, undone>>

\* Ctrl+X and /compact: the result is taken as it is, and the rounds go on counting.
CompactByCommand ==
    /\ place = "prompt" /\ manual < MaxManual
    /\ msgs' \in {Compacted(pressure, TRUE) : pressure \in Pressures}
    /\ manual' = manual + 1
    /\ UNCHANGED <<place, inputs, compressed, injected, prompt, calls, call, saved, said, undone>>

\* The compaction that the web client asks for.
CompactByRequest ==
    /\ place = "prompt" /\ manual < MaxManual
    /\ Compact(TRUE, "prompt", "prompt")
    /\ manual' = manual + 1
    /\ UNCHANGED <<inputs, injected, prompt, calls, call, saved, said, undone>>

-----------------------------------------------------------------------------
(* A turn.                                                                 *)

Ask ==
    /\ place = "prompt" /\ Round < MaxInputs
    /\ \E input \in Inputs : inputs' = Append(inputs, input)
    /\ saved' = msgs /\ msgs' = Append(msgs, Question(Round + 1))
    /\ place' = "hooks" /\ said' = {}
    /\ UNCHANGED <<compressed, injected, prompt, calls, call, manual, undone>>

\* The hooks before the assembly: only what they add to the context is used, of a
\* chain that was blocked as well.
Assembles ==
    /\ place = "hooks"
    /\ \E out \in Returns(Names("pre_context", NoTool)) :
         prompt' = Assemble(msgs, Run(HookList, "pre_context", NoTool, <<>>, out).context)
    /\ place' = "model"
    /\ UNCHANGED <<msgs, inputs, compressed, injected, calls, call, saved, manual, said, undone>>

\* ToolExecutor.execute, from the approval on: the memory tool passes the hooks before
\* a call; the ones after it are told no tool.  Of a hook that did not run nothing is
\* kept.
Called(c, out) ==
    LET pre == Run(IF c.tool = "memory" THEN <<>> ELSE HookList,
                   "pre_tool", c.tool, c.args, out)
        post == IF pre.blocked THEN <<>>
                ELSE Run(HookList, "post_tool", NoTool, <<>>, out).ran
        Ran(h) == h \in ToSet(pre.ran) \cup ToSet(post)
    IN  [tool |-> c.tool, args |-> c.args, pre |-> pre, post |-> post,
         out |-> [h \in DOMAIN out |-> IF Ran(h) THEN out[h] ELSE NotRun]]

\* A round with a tool call, with or without a text; then large messages of the model
\* are shortened, one at most here.
ToolRound ==
    /\ place = "model" /\ calls < MaxCalls
    /\ \E pieces \in {{}, {Piece}}, c \in Calls :
         /\ call' \in {Called(c, out) :
                         out \in Returns(Names("pre_tool", c.tool)
                                           \cup Names("post_tool", NoTool))}
         /\ LET list == prompt \o <<Reply(Round, pieces), Is("tool_result")>>
            IN  \E large \in {{}} \cup {{k} : k \in {j \in DOMAIN list : list[j].says # {}}} :
                  prompt' = Freeze(list, large)
         /\ said' = said \cup pieces
    /\ calls' = calls + 1
    /\ UNCHANGED <<place, msgs, inputs, compressed, injected, saved, manual, undone>>

\* The last round, or an error, which ends the rounds: what the round had streamed by
\* then, if anything, was said to the user, and no message has it.
LastRound ==
    /\ place = "model"
    /\ \/ UNCHANGED <<prompt, said>>
       \/ UNCHANGED prompt /\ said' = said \cup {BrokenOff}
       \/ prompt' = Append(prompt, Reply(Round, {Piece})) /\ said' = said \cup {Piece}
    /\ place' = "compact" /\ call' = NoCall
    /\ UNCHANGED <<msgs, inputs, compressed, injected, calls, saved, manual, undone>>

CompactBySize ==
    /\ place = "compact"
    /\ Compact(FALSE, "told", "due")
    /\ UNCHANGED <<inputs, injected, prompt, calls, call, saved, manual, said, undone>>

\* The client has got the event of a compaction and asks for the next one.
GoesOn ==
    /\ place \in {"told", "toldAgain"}
    /\ place' = IF place = "told" THEN "due" ELSE "answer"
    /\ UNCHANGED <<msgs, inputs, compressed, injected, prompt, calls, call, saved, manual,
                   said, undone>>

IsDue == Round - compressed >= Interval

CompactByRounds ==
    /\ place = "due" /\ IsDue
    /\ Compact(TRUE, "toldAgain", "answer")
    /\ UNCHANGED <<inputs, injected, prompt, calls, call, saved, manual, said, undone>>

NotDue ==
    /\ place = "due" /\ ~IsDue
    /\ place' = "answer"
    /\ UNCHANGED <<msgs, inputs, compressed, injected, prompt, calls, call, saved, manual,
                   said, undone>>

Answer ==
    /\ place = "answer"
    /\ msgs' = Append(msgs, Reply(Round, FinalAnswer(prompt, Round)))
    /\ place' = "prompt" /\ prompt' = <<>> /\ saved' = <<>>
    /\ UNCHANGED <<inputs, compressed, injected, calls, call, manual, said, undone>>

\* The turn is interrupted where it waits, or where an event is handed out.
Abort ==
    /\ place \in {"hooks", "model", "compact", "told", "due", "toldAgain"}
    /\ place = "due" => IsDue
    /\ msgs' = saved
    /\ undone' = IF compressed = Round THEN undone + 1 ELSE undone
    /\ place' = "prompt" /\ prompt' = <<>> /\ saved' = <<>> /\ call' = NoCall
    /\ said' = {}
    /\ UNCHANGED <<inputs, compressed, injected, calls, manual>>

-----------------------------------------------------------------------------

ConvNext ==
    \/ Rebuild \/ CompactByCommand \/ CompactByRequest
    \/ Ask \/ Assembles \/ ToolRound \/ LastRound
    \/ CompactBySize \/ GoesOn \/ CompactByRounds \/ NotDue \/ Answer \/ Abort

ConvSpec == ConvInit /\ [][ConvNext]_convVars

-----------------------------------------------------------------------------
(* Properties.                                                             *)

\* An answer says all that the model said to the user in its turn, shortened or not,
\* but for the text of a round that an error broke off, which no message has, whatever
\* the compactions between did to the messages.  What it says of an earlier turn comes from
\* an answer given since an earlier turn with the same input, which was about its own
\* turn there or repeated an earlier one likewise.
AnswersAreOwn ==
    \A k \in DOMAIN msgs :
      LET t == msgs[k].turn
          own == {p \in msgs[k].says : p.turn = t}
      IN  msgs[k].is = "answer" =>
            /\ t = Round =>
                 {[p EXCEPT !.cut = FALSE] : p \in own} = {p \in said : ~p.cut}
            /\ \A p \in msgs[k].says \ own :
                 \E q \in 1 .. t - 1 :
                   /\ inputs[q] = inputs[t]
                   /\ \E s \in q .. t - 1 :
                        s = p.turn \/ \E r \in 1 .. s - 1 : inputs[r] = inputs[s]

\* However the compactions by size, by rounds and by command fall together, the
\* conversation between turns is no longer than what a compaction leaves and what an
\* interval of turns adds; an aborted turn whose compaction is undone adds another
\* interval, because the rounds are counted from it all the same.
HistoryIsBounded ==
    place = "prompt" =>
      Cardinality({k \in DOMAIN msgs : Spoken(msgs[k])})
        <= HeadCount + (IF Recent > ForcedRecent THEN Recent ELSE ForcedRecent)
             + 2 * Interval * (undone + 1)

\* What the hooks of a tool call decide depends on their priorities and, among equals,
\* on the order of their registration: a call is refused if and only if one that is
\* reached refuses it, or fails without having been told to go on; otherwise it runs
\* with what was approved, changed by each in turn.  The hooks after the call run the
\* other way round.
HooksDecide ==
    call # NoCall =>
      LET reached == IF call.tool = "memory" THEN {}
                     ELSE Reached(Registrations, "pre_tool", call.tool, call.out)
          Says(h) == call.out[Registrations[h].name]
          changers(k) == {h \in reached : Says(h).action = "modify"
                                            /\ k \in DOMAIN Says(h).args}
      IN  /\ call.pre.blocked = (\E h \in reached : Refuses(Registrations[h], Says(h)))
          /\ ~call.pre.blocked =>
               \A k \in DOMAIN call.args :
                 IF changers(k) = {}
                 THEN call.pre.args[k] = call.args[k]
                 ELSE \E h \in changers(k) :
                        /\ call.pre.args[k] = Says(h).args[k]
                        /\ \A g \in changers(k) \ {h} : Before(Registrations, g, h)
          /\ \A i, j \in DOMAIN Registrations :
               LET at(h) == {n \in DOMAIN call.post : call.post[n] = Registrations[h].name}
               IN  Before(Registrations, i, j) =>
                     \A n \in at(i), m \in at(j) : n > m

\* What the documentation says, and the code does not keep; no run checks these.

\* A callable whose registration left it open goes on after a timeout or an error
\* (docs/hook_orchestrator.md:157; of a hook that refuses or modifies nothing, :10 and
\* hook_orchestrator.py:9, :336 as well): no call is refused by such a failure alone.
CallablesGoOn ==
    call # NoCall =>
      LET reached == IF call.tool = "memory" THEN {}
                     ELSE Reached(Registrations, "pre_tool", call.tool, call.out)
          IsOpen(h) == Registrations[h].handler = "callable"
                         /\ Registrations[h].goesOn = {"unset"}
          Says(h) == call.out[Registrations[h].name]
      IN  call.pre.blocked =>
            \E h \in reached : /\ Refuses(Registrations[h], Says(h))
                               /\ Says(h).action = "fail" => ~IsOpen(h)

\* The hooks after a call run with the highest priority first, as in the example of
\* docs/hook_orchestrator.md:141-144; its line 21 says the opposite, which the code does.
HighestFirstAfter ==
    call # NoCall =>
      \A i, j \in DOMAIN Registrations, n, m \in DOMAIN call.post :
        /\ Registrations[i].priority > Registrations[j].priority
        /\ call.post[n] = Registrations[i].name /\ call.post[m] = Registrations[j].name
        => n < m

=============================================================================
