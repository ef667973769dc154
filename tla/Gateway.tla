------------------------------ MODULE Gateway ------------------------------
(***************************************************************************)
(* ChaChaAsyncGateway, the message bus of protocol/gateway.py: publishers  *)
(* put messages with a global sequence number into one bounded             *)
(* asyncio.Queue per registered session, subscribers iterate over it.      *)
(*                                                                         *)
(* All of it runs in one event loop, so a step is what a task does between *)
(* two awaits. wait_for(queue.put(msg)) wraps the put in a task of its own *)
(* before Python 3.12 and runs it in place from 3.12 on: a publisher's     *)
(* steps are those of the former, some of which the latter runs at once.   *)
(* The waiting lists of the queue are asyncio's: a get wakes the first     *)
(* putter, which looks at the queue only when the loop runs it. The loop   *)
(* runs puts in the order in which they became ready; when it runs the     *)
(* consumers of messages is left open.                                     *)
(***************************************************************************)
EXTENDS Naturals, Sequences, FiniteSets

CONSTANTS
    Sids,         \* session ids
    Pubs,         \* tasks that publish, one message at a time each
    Subs,         \* tasks that subscribe
    MaxSize,      \* max_queue_size (10000 by default)
    MaxHistory,   \* max_history (500 by default)
    MaxMsgs,      \* bound: messages published
    MaxContexts,  \* bound: SessionContext objects created
    MaxStarts,    \* bound: calls of start()
    Sharing       \* TRUE: several subscribers may iterate over one session

ASSUME GatewayAssumption ==
    /\ IsFiniteSet(Pubs)
    /\ MaxSize \in Nat \ {0} /\ MaxHistory \in Nat
    /\ MaxMsgs \in Nat /\ MaxContexts \in Nat /\ MaxStarts \in Nat
    /\ Sharing \in BOOLEAN

VARIABLES
    running,   \* _running
    starts,    \* calls of start() so far
    sessions,  \* _sessions: the context of each session id, 0 for none
    contexts,  \* contexts created so far
    queue,     \* SessionContext.queue of each context
    putters,   \* publishers waiting in its put
    getters,   \* subscribers waiting in its get
    ready,     \* publishers whose put the event loop is about to run, in its order
    sent,      \* send_count
    received,  \* received_count
    seq,       \* _seq: message m carries the number m - 1
    history,   \* _event_history
    pub,       \* what each publisher does
    msg,       \* the message it publishes
    sub,       \* what each subscriber does
    at,        \* the context it iterates over
    to,        \* context a message was addressed to, 0 when it had none
    result,    \* ghost: what its publish() returned
    got,       \* ghost: messages a context's subscribers yielded
    dropped,   \* ghost: messages unregister() threw away
    closed,    \* ghost: contexts that were registered at a stop()
    late       \* ghost: messages put into the queue of a context no longer registered

registry == <<running, starts, sessions, contexts>>
queues == <<queue, putters, getters, ready>>
counts == <<sent, received>>
publishing == <<seq, history, pub, msg, to, result>>
subscribing == <<sub, at, got>>
vars == <<registry, queues, counts, publishing, subscribing, dropped, closed,
          late>>

Msgs == 1 .. MaxMsgs
Contexts == 1 .. MaxContexts

\* The None a stop puts into a queue.
Sentinel == 0

Full(c) == Len(queue[c]) >= MaxSize

Registered(c) == \E s \in Sids : sessions[s] = c

SubAlive(u) == sub[u] # "idle"

Elements(s) == {s[i] : i \in 1 .. Len(s)}

\* list.remove: the first x goes, if there is one.
Without(s, x) ==
    IF x \in Elements(s)
    THEN LET i == CHOOSE j \in 1 .. Len(s) : s[j] = x IN
         SubSeq(s, 1, i - 1) \o SubSeq(s, i + 1, Len(s))
    ELSE s

\* The tasks n wake-ups take from a waiting list, and those they leave there.
First(s, n) == SubSeq(s, 1, IF n < Len(s) THEN n ELSE Len(s))
Rest(s, n) == SubSeq(s, n + 1, Len(s))

\* The states `f` of tasks once those of the sequence w are woken.
Woken(f, w) == [x \in DOMAIN f |-> IF x \in Elements(w) THEN "woken" ELSE f[x]]

-----------------------------------------------------------------------------
Init ==
    /\ running = FALSE /\ starts = 0
    /\ sessions = [s \in Sids |-> 0] /\ contexts = 0
    /\ queue = [c \in Contexts |-> <<>>]
    /\ putters = [c \in Contexts |-> <<>>] /\ getters = [c \in Contexts |-> <<>>]
    /\ sent = [c \in Contexts |-> 0] /\ received = [c \in Contexts |-> 0]
    /\ ready = <<>>
    /\ seq = 0 /\ history = <<>>
    /\ pub = [p \in Pubs |-> "idle"] /\ msg = [p \in Pubs |-> 0]
    /\ sub = [u \in Subs |-> "idle"] /\ at = [u \in Subs |-> 0]
    /\ to = [m \in Msgs |-> 0]
    /\ result = [m \in Msgs |-> "none"]
    /\ got = [c \in Contexts |-> <<>>]
    /\ dropped = {} /\ closed = {} /\ late = {}

-----------------------------------------------------------------------------
(* Life cycle and registry.                                                *)

Start ==
    /\ ~running /\ starts < MaxStarts
    /\ running' = TRUE /\ starts' = starts + 1
    /\ UNCHANGED <<sessions, contexts, queues, counts, publishing, subscribing, dropped,
                   closed, late>>

\* The sentinel goes into the queues of the contexts in `told`; the first waiting
\* subscriber of each is woken.
StopWith(told) ==
    /\ running
    /\ running' = FALSE
    /\ queue' = [c \in Contexts |->
                    IF c \in told THEN Append(queue[c], Sentinel) ELSE queue[c]]
    /\ getters' = [c \in Contexts |->
                      IF c \in told THEN Rest(getters[c], 1) ELSE getters[c]]
    /\ sub' = [u \in Subs |->
                  IF \E c \in told : u \in Elements(First(getters[c], 1))
                  THEN "woken" ELSE sub[u]]
    /\ closed' = closed \cup {c \in Contexts : Registered(c)}
    /\ sessions' = [s \in Sids |-> 0]
    /\ history' = <<>>
    /\ UNCHANGED <<starts, contexts, putters, ready, counts, seq, pub, msg, at, to,
                   result, got, dropped, late>>

\* Mutant: no sentinel.
StopSilently == StopWith({})

\* Every session's queue gets the sentinel if it has room. Nothing is awaited:
\* wait_tasks stays empty.
Stop == StopWith({c \in Contexts : Registered(c) /\ ~Full(c)})

Register(s) ==
    /\ sessions[s] = 0 /\ contexts < MaxContexts
    /\ contexts' = contexts + 1
    /\ sessions' = [sessions EXCEPT ![s] = contexts + 1]
    /\ UNCHANGED <<running, starts, queues, counts, publishing, subscribing, dropped,
                   closed, late>>

\* The queue is emptied; each message taken out wakes one waiting publisher,
\* which will put into the queue nobody can subscribe to any more.
Unregister(s) ==
    /\ sessions[s] # 0
    /\ sessions' = [sessions EXCEPT ![s] = 0]
    /\ LET c == sessions[s]
           n == Len(queue[c]) IN
       /\ dropped' = dropped \cup {queue[c][i] : i \in 1 .. n}
       /\ queue' = [queue EXCEPT ![c] = <<>>]
       /\ putters' = [putters EXCEPT ![c] = Rest(@, n)]
       /\ ready' = ready \o First(putters[c], n)
       /\ pub' = Woken(pub, First(putters[c], n))
    /\ UNCHANGED <<running, starts, contexts, getters, counts, seq, history, msg, to,
                   result, subscribing, closed, late>>

-----------------------------------------------------------------------------
(* Publishers.                                                             *)

Recent(h) ==
    SubSeq(h, (IF Len(h) > MaxHistory THEN Len(h) - MaxHistory ELSE 0) + 1, Len(h))

\* The lock around the number is never held across an await. A message for no
\* registered session only goes to the global handlers.
Publish(p, s) ==
    /\ running /\ pub[p] = "idle" /\ seq < MaxMsgs
    /\ seq' = seq + 1
    /\ history' = Recent(Append(history, seq + 1))
    /\ to' = [to EXCEPT ![seq + 1] = sessions[s]]
    /\ IF sessions[s] = 0
       THEN /\ result' = [result EXCEPT ![seq + 1] = "true"]
            /\ UNCHANGED <<pub, msg, ready>>
       ELSE /\ pub' = [pub EXCEPT ![p] = "ready"]
            /\ ready' = Append(ready, p)
            /\ msg' = [msg EXCEPT ![p] = seq + 1]
            /\ UNCHANGED result
    /\ UNCHANGED <<registry, queue, putters, getters, counts, subscribing, dropped,
                   closed, late>>

\* The event loop runs p's put now.
Runs(p) == ready # <<>> /\ Head(ready) = p

\* queue.put into context c: a full queue makes the publisher wait at the end of
\* the list, even when it had been woken for a place another one took meanwhile.
Put(p, c) ==
    /\ pub[p] \in {"ready", "woken"} /\ Runs(p)
    /\ ready' = Tail(ready)
    /\ IF Full(c)
       THEN /\ putters' = [putters EXCEPT ![c] = Append(@, p)]
            /\ pub' = [pub EXCEPT ![p] = "blocked"]
            /\ UNCHANGED <<queue, getters, sub, late>>
       ELSE /\ queue' = [queue EXCEPT ![c] = Append(@, msg[p])]
            /\ getters' = [getters EXCEPT ![c] = Rest(@, 1)]
            /\ sub' = Woken(sub, First(getters[c], 1))
            /\ pub' = [pub EXCEPT ![p] = "put"]
            /\ late' = late \cup (IF Registered(c) THEN {} ELSE {msg[p]})
            /\ UNCHANGED putters
    /\ UNCHANGED <<registry, counts, seq, history, msg, to, result, at, got, dropped,
                   closed>>

\* Mutant: the context is looked up again when the put runs.
EnterAgain(p) ==
    \E s \in Sids : Put(p, IF sessions[s] # 0 THEN sessions[s] ELSE to[msg[p]])

\* Mutant: the message goes into the queue's deque and wakes nobody.
EnterSilently(p) ==
    /\ pub[p] \in {"ready", "woken"} /\ Runs(p)
    /\ ready' = Tail(ready)
    /\ queue' = [queue EXCEPT ![to[msg[p]]] = Append(@, msg[p])]
    /\ pub' = [pub EXCEPT ![p] = "put"]
    /\ UNCHANGED <<registry, putters, getters, counts, seq, history, msg, to, result,
                   subscribing, dropped, closed, late>>

\* The put runs in the context its publish() had looked up.
Enter(p) == Put(p, to[msg[p]])

\* wait_for returns: the message is counted and the caller gets True.
Return(p) ==
    /\ pub[p] = "put"
    /\ sent' = [sent EXCEPT ![to[msg[p]]] = @ + 1]
    /\ result' = [result EXCEPT ![msg[p]] = "true"]
    /\ pub' = [pub EXCEPT ![p] = "idle"]
    /\ UNCHANGED <<registry, queues, received, seq, history, msg, to, subscribing,
                   dropped, closed, late>>

\* What ends a wait_for: the publisher leaves the list; if it had been woken and
\* not yet run, it hands its wake-up on when there still is a place.
GiveUp(p, c) ==
    LET n == IF pub[p] = "woken" /\ ~Full(c) THEN 1 ELSE 0 IN
    /\ pub[p] = "blocked" \/ (pub[p] = "woken" /\ Runs(p))
    /\ putters' = [putters EXCEPT ![c] = Rest(Without(@, p), n)]
    /\ ready' = Without(ready, p) \o First(putters[c], n)
    /\ pub' = [Woken(pub, First(putters[c], n)) EXCEPT ![p] = "idle"]
    /\ result' = [result EXCEPT ![msg[p]] = "false"]
    /\ UNCHANGED <<registry, queue, getters, received, seq, history, msg, to,
                   subscribing, dropped, closed, late>>

\* Mutant: a timed out message is counted as sent.
TimeoutCounted(p) ==
    /\ GiveUp(p, to[msg[p]])
    /\ sent' = [sent EXCEPT ![to[msg[p]]] = @ + 1]

\* publish_timeout goes by.
Timeout(p) == GiveUp(p, to[msg[p]]) /\ UNCHANGED sent

-----------------------------------------------------------------------------
(* Subscribers.                                                            *)

Subscribe(u, s) ==
    /\ sub[u] = "idle" /\ sessions[s] # 0
    /\ Sharing \/ \A v \in Subs : SubAlive(v) => at[v] # sessions[s]
    /\ sub' = [sub EXCEPT ![u] = "loop"]
    /\ at' = [at EXCEPT ![u] = sessions[s]]
    /\ UNCHANGED <<registry, queues, counts, publishing, got, dropped, closed, late>>

\* queue.get_nowait wakes the first waiting publisher.
Get(c) ==
    /\ queue[c] # <<>>
    /\ queue' = [queue EXCEPT ![c] = Tail(@)]
    /\ putters' = [putters EXCEPT ![c] = Rest(@, 1)]
    /\ ready' = ready \o First(putters[c], 1)
    /\ pub' = Woken(pub, First(putters[c], 1))
    /\ UNCHANGED <<registry, getters, sent, seq, history, msg, at, to, result, dropped,
                   closed, late>>

Yield(u, c) ==
    /\ sub' = [sub EXCEPT ![u] = "loop"]
    /\ received' = [received EXCEPT ![c] = @ + 1]
    /\ got' = [got EXCEPT ![c] = Append(@, Head(queue[c]))]

\* The sentinel ends the iteration, a message is counted and yielded.
Take(u, c) ==
    /\ Get(c)
    /\ IF Head(queue[c]) # Sentinel
       THEN Yield(u, c)
       ELSE sub' = [sub EXCEPT ![u] = "idle"] /\ UNCHANGED <<received, got>>

\* queue.get on an empty queue.
Wait(u, c) ==
    /\ queue[c] = <<>>
    /\ getters' = [getters EXCEPT ![c] = Append(@, u)]
    /\ sub' = [sub EXCEPT ![u] = "waiting"]
    /\ UNCHANGED <<registry, queue, putters, ready, counts, publishing, at, got, dropped,
                   closed, late>>

\* The consumer asks for the next message: only here the loop looks at _running.
Ask(u) ==
    /\ sub[u] = "loop"
    /\ IF running
       THEN Take(u, at[u]) \/ Wait(u, at[u])
       ELSE /\ sub' = [sub EXCEPT ![u] = "idle"]
            /\ UNCHANGED <<registry, queues, counts, publishing, at, got, dropped,
                           closed, late>>

\* A woken subscriber runs: another one may have taken the message.
Wake(u) ==
    /\ sub[u] = "woken"
    /\ Take(u, at[u]) \/ Wait(u, at[u])

\* The consumer breaks off or its task is cancelled; a wake-up it had got is
\* handed on if there still is a message.
Leave(u) ==
    LET c == at[u]
        n == IF sub[u] = "woken" /\ queue[c] # <<>> THEN 1 ELSE 0 IN
    /\ SubAlive(u)
    /\ getters' = [getters EXCEPT ![c] = Rest(Without(@, u), n)]
    /\ sub' = [Woken(sub, First(getters[c], n)) EXCEPT ![u] = "idle"]
    /\ UNCHANGED <<registry, queue, putters, ready, counts, publishing, at, got, dropped,
                   closed, late>>

-----------------------------------------------------------------------------
Next ==
    \/ Start \/ Stop
    \/ \E s \in Sids : Register(s) \/ Unregister(s)
    \/ \E p \in Pubs, s \in Sids : Publish(p, s)
    \/ \E p \in Pubs : Enter(p) \/ Return(p) \/ Timeout(p)
    \/ \E u \in Subs, s \in Sids : Subscribe(u, s)
    \/ \E u \in Subs : Ask(u) \/ Wake(u) \/ Leave(u)

Spec == Init /\ [][Next]_vars

\* The event loop runs what can run, consumers keep asking for the next message,
\* and the timers of blocked publishers go off in the end.
Fairness ==
    /\ \A p \in Pubs : WF_vars(Enter(p) \/ Return(p) \/ Timeout(p))
    /\ \A u \in Subs : WF_vars(Ask(u)) /\ WF_vars(Wake(u))

FairSpec == Spec /\ Fairness

-----------------------------------------------------------------------------
(* Properties.                                                             *)

RegistryType ==
    /\ running \in BOOLEAN /\ starts \in 0 .. MaxStarts
    /\ sessions \in [Sids -> 0 .. MaxContexts] /\ contexts \in 0 .. MaxContexts
    /\ closed \subseteq Contexts

QueuesType ==
    /\ queue \in [Contexts -> Seq(Msgs \cup {Sentinel})]
    /\ ready \in Seq(Pubs)
    /\ putters \in [Contexts -> Seq(Pubs)] /\ getters \in [Contexts -> Seq(Subs)]
    /\ sent \in [Contexts -> Nat] /\ received \in [Contexts -> Nat]

PublishingType ==
    /\ seq \in 0 .. MaxMsgs /\ history \in Seq(Msgs)
    /\ pub \in [Pubs -> {"idle", "ready", "blocked", "woken", "put"}]
    /\ msg \in [Pubs -> 0 .. MaxMsgs]
    /\ to \in [Msgs -> 0 .. MaxContexts]
    /\ result \in [Msgs -> {"none", "true", "false"}]

SubscribingType ==
    /\ sub \in [Subs -> {"idle", "loop", "waiting", "woken"}]
    /\ at \in [Subs -> 0 .. MaxContexts]
    /\ got \in [Contexts -> Seq(Msgs)]
    /\ dropped \subseteq Msgs \cup {Sentinel}

TypeOK ==
    /\ RegistryType /\ QueuesType /\ PublishingType /\ SubscribingType
    /\ late \subseteq Msgs

NoDuplicate(s) == \A i, j \in 1 .. Len(s) : s[i] = s[j] /\ s[i] # Sentinel => i = j

\* What the subscribers of a context got and what its queue holds.
Kept(c) == Elements(got[c]) \cup Elements(queue[c])

\* gateway.py:175: a publish to a registered session that returned True has put its
\* message into the queue of the context registered when it began, one that returned
\* False has not and never will, and no message is in two places or twice in one,
\* however puts, timeouts, wake-ups, unregister() and re-registration of the session
\* interleave. The comment also promises False once the queue is unregistered, which
\* is not so (RegisteredQueuesOnly below): the publishers that unregister() finds at
\* the queue put there afterwards and get True. What holds is that such late messages
\* are all that an unregistered queue keeps, and that no registered session has them.
ResultTruthful ==
    /\ \A m \in Msgs :
        /\ result[m] = "true" /\ to[m] # 0 => m \in Kept(to[m]) \cup dropped
        /\ result[m] = "false" \/ m \in dropped => \A c \in Contexts : m \notin Kept(c)
        /\ \A c \in Contexts : m \in Kept(c) => c = to[m]
    /\ \A c \in Contexts :
        /\ NoDuplicate(got[c]) /\ NoDuplicate(queue[c])
        /\ Elements(got[c]) \cap Elements(queue[c]) = {}
        /\ ~Registered(c) /\ c \notin closed => Elements(queue[c]) \subseteq late
        /\ Registered(c) => Kept(c) \cap late = {}

\* gateway.py:36-41: the counters behind the backpressure: what is in a registered
\* context's queue is what publishers counted, plus what they have put and not yet
\* counted, minus what subscribers counted; the queue is never longer than its size.
CountsMatch ==
    \A c \in Contexts : Registered(c) =>
        /\ received[c] + Len(queue[c]) =
               sent[c] + Cardinality({p \in Pubs : pub[p] = "put" /\ to[msg[p]] = c})
        /\ Len(queue[c]) <= MaxSize

\* A message in a queue is delivered, or thrown away by unregister(), as long as
\* the context keeps a subscriber: no wake-up is lost.
QueueServed ==
    \A c \in Contexts, m \in Msgs :
        m \in Elements(queue[c]) ~>
            m \notin Elements(queue[c]) \/ ~\E u \in Subs : SubAlive(u) /\ at[u] = c

\* gateway.py:245: a stop ends the iteration of the subscriber of every session
\* registered then, whether it waits, is woken or has the queue full before it,
\* unless the gateway is started again.
SubscribersEnd ==
    \A u \in Subs, c \in Contexts :
        ~running /\ c \in closed /\ SubAlive(u) /\ at[u] = c ~>
            running \/ ~(SubAlive(u) /\ at[u] = c)

-----------------------------------------------------------------------------
(* What the code's comments and tests say and the code does not do.        *)

\* test_gateway.py:106-108, gateway.py:7: a session's messages arrive in the order
\* of their numbers.
SeqOrder ==
    \A c \in Contexts : \A i, j \in 1 .. Len(got[c]) : i < j => got[c][i] < got[c][j]

\* gateway.py:175: publish() returns False when the queue has been unregistered, so
\* nothing is put into the queue of a context that is not registered. But unregister()
\* itself wakes the publishers waiting for a place there (135-145): each puts its
\* message into the queue nobody can subscribe to any more, counts it and returns
\* True; so does one whose put the loop has not run yet, and one that a stop() finds.
RegisteredQueuesOnly ==
    [][\A c \in Contexts, m \in Msgs :
           m \in Elements(queue'[c]) \ Elements(queue[c]) => Registered(c)]_vars
=============================================================================
