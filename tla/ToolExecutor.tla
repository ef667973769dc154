---------------------------- MODULE ToolExecutor ----------------------------
(***************************************************************************)
(* How the tool calls of one LLM answer are run (core/tool_executor.py):   *)
(* the policy's decision, the user's approval, the semaphore, timeouts and *)
(* retries, a user's stop (core/dispatcher.py), and the subagent inside a  *)
(* task call (core/subagent/spawner.py), whose LLM stream swallows a       *)
(* cancellation (core/llm_clients/retry_handler.py).                       *)
(*                                                                         *)
(* The semaphore is the FIFO one of Python 3.11 and later.  No hook is     *)
(* registered for tools, so hooks do not suspend here.                     *)
(***************************************************************************)
EXTENDS Naturals, Sequences, FiniteSets

CONSTANTS
    Sessions,
    Free,           \* tools the policy lets through (memory and read-only tools)
    Categories,     \* the sets of names that approval_control's categories stand for
    Asked,          \* tools whose every call is asked for (bash, edit, write, MCP)
    MaxCalls,       \* bound: calls of one batch
    MaxConcurrent,  \* max_concurrent (5 in the code)
    MaxRetries,     \* max_retries (2 in the code)
    MaxSubCalls,    \* bound: tool calls of one subagent
    MaxMade         \* bound: calls of all made

Task == "task"
Control == "approval_control"
Missing == "missing"
Settings == "settings"

Gated == Asked \cup {Task}
Tools == Gated \cup Free \cup {Control, Missing}
Names == Gated \cup {"*"}
Calls == 1 .. MaxCalls

ASSUME ToolExecutorAssumption ==
    /\ MaxCalls \in Nat \ {0} /\ MaxConcurrent \in Nat \ {0}
    /\ MaxRetries \in Nat /\ MaxSubCalls \in Nat /\ MaxMade \in Nat
    /\ (Free \cup {Control, Missing}) \cap Gated = {} /\ "*" \notin Tools
    /\ Categories \subseteq SUBSET Names
    /\ Control \notin Free /\ Missing \notin Free /\ Settings \notin Sessions

VARIABLES
    session,   \* the current session
    served,    \* history: the sessions that the present policy engine has served
    cache,     \* _approval_cache: session and tool approved not long ago
    bypass,    \* _session_bypass
    persisted, \* _persist_bypass
    settings,  \* the bypasses in the settings file
    made,      \* calls made so far
    phase,     \* "idle", "batch", or the batch stopped once or twice
    tool,      \* the tool of each call
    pc,        \* where each call is
    attempt,   \* its attempt
    body,      \* what its tool is doing
    subCalls,  \* tool calls of its subagent
    expired,   \* calls whose timeout the subagent's stream has swallowed
    kills,     \* calls with a cancellation on its way
    permits,   \* free slots of the semaphore
    waiting,   \* calls that wait for a slot, in order
    how,       \* history: why the policy let a call through
    yes,       \* history: the session and the tool of every yes of the user
    opened     \* history: the session or the settings, and the names, of bypasses

here == <<session, served>>
bypasses == <<bypass, persisted, settings>>
policy == <<cache, bypasses>>
slots == <<permits, waiting>>
sub == <<subCalls, expired>>
history == <<how, yes, opened>>
vars == <<here, policy, made, phase, tool, pc, attempt, body, sub, kills, slots,
          history>>

\* A refusal, a timeout and a cancellation are errors here.
Ended == {"success", "error"}
Alive(c) == pc[c] \notin Ended \cup {"none"}
Holds(c) == pc[c] \in {"granted", "running"}

-----------------------------------------------------------------------------

\* The settings file may hold bypasses from earlier runs.
Init ==
    /\ session \in Sessions /\ served = {session}
    /\ cache = {} /\ bypass = {}
    /\ persisted \in {UNION C : C \in SUBSET Categories} /\ settings = persisted
    /\ made = 0 /\ phase = "idle"
    /\ tool = [c \in Calls |-> Missing] /\ pc = [c \in Calls |-> "none"]
    /\ attempt = [c \in Calls |-> 1] /\ body = [c \in Calls |-> "none"]
    /\ subCalls = [c \in Calls |-> 0] /\ expired = {} /\ kills = {}
    /\ permits = MaxConcurrent /\ waiting = <<>>
    /\ how = [c \in Calls |-> "none"] /\ yes = {}
    /\ opened = {Settings} \X persisted

\* Mutant: the policy engine stays the same, with the bypasses of the old session.
RebuildKeepsBypass(s) ==
    /\ phase = "idle" /\ s # session
    /\ session' = s /\ served' = {s}
    /\ cache' = {} /\ persisted' = settings /\ permits' = MaxConcurrent
    /\ UNCHANGED <<bypass, settings, made, phase, tool, pc, attempt, body, sub, kills, waiting,
                   history>>

\* A switch to another session, and a new session of the web interface, bring a
\* new policy engine and a new executor; the settings are read again.
Rebuild(s) ==
    /\ phase = "idle" /\ s # session
    /\ session' = s /\ served' = {s}
    /\ cache' = {} /\ bypass' = {} /\ persisted' = settings /\ permits' = MaxConcurrent
    /\ UNCHANGED <<settings, made, phase, tool, pc, attempt, body, sub, kills, waiting,
                   history>>

\* A new session of the terminal (/session new, Ctrl+N), which nobody has said
\* anything in yet: the policy engine stays, with its bypasses.
NewSession(s) ==
    /\ phase = "idle" /\ s \notin served /\ \A e \in yes \cup opened : e[1] # s
    /\ session' = s /\ served' = served \cup {s}
    /\ UNCHANGED <<policy, made, phase, tool, pc, attempt, body, sub, kills, slots, history>>

\* An entry of the approval cache is too old.
Expire ==
    /\ \E e \in cache : cache' = cache \ {e}
    /\ UNCHANGED <<here, bypasses, made, phase, tool, pc, attempt, body, sub,
                   kills, slots, history>>

\* Phase 2 of dispatch_stream: one task for each call.
Batch ==
    /\ phase = "idle" /\ phase' = "batch"
    /\ \E n \in Calls :
           /\ made' = made + n /\ made' <= MaxMade
           /\ \E ts \in [1 .. n -> Tools] :
                  tool' = [c \in Calls |-> IF c <= n THEN ts[c] ELSE Missing]
           /\ pc' = [c \in Calls |-> IF c <= n THEN "new" ELSE "none"]
    /\ attempt' = [c \in Calls |-> 1]
    /\ how' = [c \in Calls |-> "none"]
    /\ UNCHANGED <<here, policy, body, sub, kills, slots, yes, opened>>

-----------------------------------------------------------------------------
(* The semaphore.                                                          *)

\* The tool starts; a task call starts a subagent with a request to the LLM.
Starts(c) ==
    /\ pc' = [pc EXCEPT ![c] = "running"]
    /\ body' = [body EXCEPT ![c] = IF tool[c] = Task THEN "llm" ELSE "tool"]

\* A call takes a slot, unless others wait already.
Acquire(c) ==
    IF permits > 0 /\ waiting = <<>>
      THEN /\ permits' = permits - 1
           /\ Starts(c)
           /\ UNCHANGED waiting
      ELSE /\ waiting' = Append(waiting, c)
           /\ pc' = [pc EXCEPT ![c] = "queued"]
           /\ UNCHANGED <<permits, body>>

\* The sequence s without its i-th element.
Without(s, i) == [j \in 1 .. Len(s) - 1 |-> IF j < i THEN s[j] ELSE s[j + 1]]

\* Mutant: nobody is woken up for a slot that is free again.
ReleaseQuietly(c, p) ==
    /\ permits' = permits + 1
    /\ pc' = [pc EXCEPT ![c] = p]
    /\ body' = [body EXCEPT ![c] = "none"]
    /\ subCalls' = [subCalls EXCEPT ![c] = 0]
    /\ expired' = expired \ {c}
    /\ UNCHANGED waiting

\* A call leaves its slot, to the first that waits, and goes on to p.
Release(c, p) ==
    /\ IF waiting = <<>>
         THEN /\ permits' = permits + 1
              /\ pc' = [pc EXCEPT ![c] = p]
              /\ UNCHANGED waiting
         ELSE /\ waiting' = Tail(waiting)
              /\ pc' = [pc EXCEPT ![c] = p, ![Head(waiting)] = "granted"]
              /\ UNCHANGED permits
    /\ body' = [body EXCEPT ![c] = "none"]
    /\ subCalls' = [subCalls EXCEPT ![c] = 0]
    /\ expired' = expired \ {c}

\* A failed attempt is repeated, after a pause, as long as retries are left.
Retry(c) ==
    IF attempt[c] <= MaxRetries
      THEN Release(c, "backoff") /\ attempt' = [attempt EXCEPT ![c] = @ + 1]
      ELSE Release(c, "error") /\ UNCHANGED attempt

-----------------------------------------------------------------------------
(* One call.  A call that is being cancelled takes no other step.          *)

At(c, p) == pc[c] = p /\ c \notin kills

\* The hooks refuse the call, or it asks for a slot.
Passes(c) ==
    \/ /\ pc' = [pc EXCEPT ![c] = "error"]
       /\ UNCHANGED <<body, slots>>
    \/ Acquire(c)

Bypassed(t) == "*" \in bypass \cup persisted \/ t \in bypass \cup persisted

\* The policy knows three reasons to let a call through without asking.  The
\* command it looks for in its blacklist and its cache is always empty.
Decision(t) ==
    IF Bypassed(t) THEN "bypass"
    ELSE IF t \notin Gated THEN "free"
    ELSE IF <<session, t>> \in cache THEN "cache"
    ELSE "ask"

Evaluate(c) ==
    /\ At(c, "new")
    /\ \/ /\ tool[c] = Missing
          /\ pc' = [pc EXCEPT ![c] = "error"]
          /\ UNCHANGED <<body, slots, how>>
       \/ /\ tool[c] # Missing /\ Decision(tool[c]) = "ask"
          /\ pc' = [pc EXCEPT ![c] = "asking"]
          /\ UNCHANGED <<body, slots, how>>
       \/ /\ tool[c] # Missing /\ Decision(tool[c]) # "ask"
          /\ how' = [how EXCEPT ![c] = Decision(tool[c])]
          /\ Passes(c)
    /\ UNCHANGED <<here, policy, made, phase, tool, attempt, sub, kills, yes, opened>>

Approve(c) ==
    /\ At(c, "asking")
    /\ cache' = cache \cup {<<session, tool[c]>>}
    /\ yes' = yes \cup {<<session, tool[c]>>}
    /\ how' = [how EXCEPT ![c] = "asked"]
    /\ Passes(c)
    /\ UNCHANGED <<here, bypasses, made, phase, tool, attempt, sub, kills,
                   opened>>

\* No, or no answer in 120 s.
Reject(c) ==
    /\ At(c, "asking")
    /\ pc' = [pc EXCEPT ![c] = "error"]
    /\ UNCHANGED <<here, policy, made, phase, tool, attempt, body, sub, kills, slots,
                   history>>

\* A call that was given a slot runs, as does one whose pause is over.
Proceed(c) ==
    /\ \/ At(c, "granted") /\ Starts(c) /\ UNCHANGED slots
       \/ At(c, "backoff") /\ Acquire(c)
    /\ UNCHANGED <<here, policy, made, phase, tool, attempt, sub, kills, history>>

\* The subagent runs a tool, without asking anybody, and goes on.
SubCall(c) ==
    /\ At(c, "running")
    /\ \/ /\ body[c] = "llm" /\ subCalls[c] < MaxSubCalls
          /\ body' = [body EXCEPT ![c] = "sub"]
          /\ subCalls' = [subCalls EXCEPT ![c] = @ + 1]
       \/ /\ body[c] = "sub"
          /\ body' = [body EXCEPT ![c] = "llm"]
          /\ UNCHANGED subCalls
    /\ UNCHANGED <<here, policy, made, phase, tool, pc, attempt, expired, kills, slots,
                   history>>

\* approval_control opens or closes bypasses, for the session or for good.
ToggleSession(names) ==
    /\ \/ bypass' = bypass \cup names /\ opened' = opened \cup ({session} \X names)
       \/ bypass' = bypass \ names /\ UNCHANGED opened
    /\ UNCHANGED <<persisted, settings>>

TogglePersisted(names) ==
    /\ \/ persisted' = persisted \cup names /\ opened' = opened \cup ({Settings} \X names)
       \/ persisted' = persisted \ names /\ UNCHANGED opened
    /\ UNCHANGED bypass

NoToggle == UNCHANGED <<bypasses, opened>>

\* The tool returns, or raises what is not retried.
Returns(c) ==
    /\ At(c, "running")
    /\ \/ Release(c, "error") /\ NoToggle
       \/ Release(c, "success") /\ NoToggle
       \/ /\ Release(c, "success") /\ tool[c] = Control
          /\ \E names \in Categories :
                 \/ ToggleSession(names)
                 \/ TogglePersisted(names) /\ settings' = persisted'
    /\ UNCHANGED <<here, cache, made, phase, tool, attempt, kills, how, yes>>

\* The tool raises what is retried, approval_control after a write of the
\* settings that may have emptied the file.  A task call reports its errors.
Raises(c) ==
    /\ At(c, "running") /\ body[c] = "tool"
    /\ Retry(c)
    /\ \/ NoToggle
       \/ /\ tool[c] = Control
          /\ \E names \in Categories : TogglePersisted(names)
          /\ settings' \in {settings, {}}
    /\ UNCHANGED <<here, cache, made, phase, tool, kills, how, yes>>

\* wait_for cancels the tool and waits for its end.  A subagent that reads from
\* its LLM goes on as if the stream were over, and is not timed out again.
TimesOut(c) ==
    /\ At(c, "running") /\ c \notin expired /\ tool[c] # Control
    /\ \/ /\ Retry(c)
       \/ /\ body[c] = "llm"
          /\ expired' = expired \cup {c}
          /\ UNCHANGED <<pc, attempt, body, subCalls, slots>>
    /\ UNCHANGED <<here, policy, made, phase, tool, kills, history>>

\* The user stops the turn: the bridge cancels dispatch_stream, whose gather
\* cancels the calls and waits for all of them; 5 s later the bridge and the
\* gateway give up waiting, which cancels those that are still there again.
Stop ==
    /\ \/ phase = "batch" /\ phase' = "stopped"
       \/ phase = "stopped" /\ kills = {} /\ phase' = "stopped again"
    /\ \E c \in Calls : Alive(c)
    /\ kills' = {c \in Calls : Alive(c)}
    /\ UNCHANGED <<here, policy, made, tool, pc, attempt, body, sub, slots, history>>

\* Mutant: the approval handler takes the cancellation for a yes.
TakenForYes(c) == Passes(c) /\ UNCHANGED sub

\* The approval handler takes the cancellation for a no.
TakenForNo(c) ==
    /\ pc' = [pc EXCEPT ![c] = "error"]
    /\ UNCHANGED <<body, sub, slots>>

LeavesQueue(c) ==
    /\ \E i \in 1 .. Len(waiting) : waiting[i] = c /\ waiting' = Without(waiting, i)
    /\ pc' = [pc EXCEPT ![c] = "error"]
    /\ UNCHANGED <<body, sub, permits>>

\* Mutant: a call that is cancelled with its slot granted keeps the slot.
LeavesWithSlot(c) ==
    \/ pc[c] = "queued" /\ LeavesQueue(c)
    \/ pc[c] = "running" /\ Release(c, "error")
    \/ /\ pc[c] = "granted"
       /\ pc' = [pc EXCEPT ![c] = "error"]
       /\ UNCHANGED <<body, sub, slots>>

\* A cancelled call leaves the queue, or gives back the slot it holds.
Leaves(c) ==
    \/ pc[c] = "queued" /\ LeavesQueue(c)
    \/ Holds(c) /\ Release(c, "error")

\* CancelledError reaches a call.  An LLM stream swallows it.
Killed(c) ==
    /\ c \in kills
    /\ kills' = kills \ {c}
    /\ \/ /\ pc[c] \in {"new", "backoff"}
          /\ pc' = [pc EXCEPT ![c] = "error"]
          /\ UNCHANGED <<body, sub, slots>>
       \/ pc[c] = "asking" /\ TakenForNo(c)
       \/ Leaves(c)
       \/ body[c] = "llm" /\ UNCHANGED <<pc, body, sub, slots>>
    /\ UNCHANGED <<here, policy, made, phase, tool, attempt, history>>

\* gather is over when every call is.
BatchOver ==
    /\ phase # "idle" /\ \A c \in Calls : ~Alive(c)
    /\ phase' = "idle"
    /\ tool' = [c \in Calls |-> Missing] /\ pc' = [c \in Calls |-> "none"]
    /\ attempt' = [c \in Calls |-> 1] /\ how' = [c \in Calls |-> "none"]
    /\ UNCHANGED <<here, policy, made, body, sub, kills, slots, yes, opened>>

Call(c) ==
    \/ Evaluate(c) \/ Approve(c) \/ Reject(c) \/ Proceed(c) \/ SubCall(c)
    \/ Returns(c) \/ Raises(c) \/ TimesOut(c) \/ Killed(c)

Next ==
    \/ Batch \/ BatchOver \/ Stop \/ Expire
    \/ \E s \in Sessions : Rebuild(s) \/ NewSession(s)
    \/ \E c \in Calls : Call(c)

Spec == Init /\ [][Next]_vars

\* Tools and streams end, approvals time out; nobody has to stop anything.
FairSpec == Spec /\ WF_vars(BatchOver) /\ \A c \in Calls : WF_vars(Call(c))

-----------------------------------------------------------------------------
(* Properties.                                                             *)

\* The types of the state.
TypeOK ==
    /\ session \in served /\ served \subseteq Sessions
    /\ cache \subseteq Sessions \X Gated /\ bypass \subseteq Names /\ persisted \subseteq Names
    /\ settings \subseteq Names
    /\ made \in 0 .. MaxMade
    /\ phase \in {"idle", "batch", "stopped", "stopped again"}
    /\ tool \in [Calls -> Tools]
    /\ pc \in [Calls -> Ended \cup {"none", "new", "asking", "queued", "granted", "running",
                                     "backoff"}]
    /\ attempt \in [Calls -> 1 .. MaxRetries + 1]
    /\ body \in [Calls -> {"none", "tool", "llm", "sub"}]
    /\ subCalls \in [Calls -> 0 .. MaxSubCalls]
    /\ expired \subseteq Calls /\ kills \subseteq Calls
    /\ permits \in 0 .. MaxConcurrent /\ waiting \in Seq(Calls)
    /\ how \in [Calls -> {"none", "asked", "bypass", "free", "cache"}]
    /\ yes \subseteq Sessions \X Gated
    /\ opened \subseteq (Sessions \cup {Settings}) \X Names

\* No slot is lost or given out twice, whatever mixture of timeouts, retries and
\* cancellations releases them: the slots that are free and those that are held
\* add up, each waiting call waits once, and nobody waits while a slot is free.
SlotsConserved ==
    /\ permits + Cardinality({c \in Calls : Holds(c)}) = MaxConcurrent
    /\ \A i, j \in 1 .. Len(waiting) : waiting[i] = waiting[j] => i = j
    /\ \A c \in Calls : pc[c] = "queued" <=> \E i \in 1 .. Len(waiting) : waiting[i] = c
    /\ permits > 0 => waiting = <<>>

\* Someone opened a bypass for the tool of c, in one of the sessions ss or in the
\* settings.
BypassOpened(c, ss) ==
    /\ how[c] = "bypass"
    /\ \E s \in ss \cup {Settings}, n \in {"*", tool[c]} : <<s, n>> \in opened

\* A tool that needs approval only ever works, retries included, after a yes of
\* the user to that tool in this very session, or under a bypass that was opened
\* for it in the settings, in this session, or in one before it that the terminal
\* left for a new session since the policy engine was built: a switch of sessions
\* takes every yes and every bypass of the session away.
Consent ==
    \A c \in Calls : body[c] # "none" /\ tool[c] \in Gated =>
        \/ how[c] \in {"asked", "cache"} /\ <<session, tool[c]>> \in yes
        \/ BypassOpened(c, served)

\* What approval_control's description of persist says, a bypass that is not
\* persisted is for this session only: NewSession refutes it.
SessionConsent ==
    \A c \in Calls : body[c] # "none" /\ tool[c] \in Gated =>
        \/ how[c] \in {"asked", "cache"} /\ <<session, tool[c]>> \in yes
        \/ BypassOpened(c, {session})

\* Once the user has stopped the turn no further tool is started, be its call
\* waiting for an approval, for a slot or for its next attempt.  A task call is
\* excepted: a subagent can swallow the stop and even be started anew.
StopStops ==
    [][\A c \in Calls : phase # "batch" /\ body[c] = "none" /\ body'[c] # "none"
                          => tool[c] = Task]_vars

\* A batch always comes to its end, stopped or not.
BatchEnds == phase # "idle" ~> phase = "idle"

=============================================================================
