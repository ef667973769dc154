----------------------------- MODULE McpClient -----------------------------
(***************************************************************************)
(* The MCP client (capabilities/mcp_client.py) and the tables of tools it  *)
(* writes.  At the start the program connects to its servers and lists     *)
(* their tools, or takes the tools from a cache and lets a second client   *)
(* connect in the background.  Calls, broken connections, reconnections    *)
(* and changes of session, each with a new executor, go on meanwhile.      *)
(*                                                                         *)
(* An executor has two lists: the schemas it offers to the model, and the  *)
(* table it looks a call up in; the client changes only the table.         *)
(* Names of servers are taken to have no double underscore, so that no two *)
(* tools have the same name.                                               *)
(***************************************************************************)
EXTENDS Naturals

CONSTANTS
    Servers, Tools,
    Home,        \* the server of a tool
    Excluded,    \* tools the configuration filters out (include, exclude)
    Calls,       \* the calls of a batch
    None,
    MaxStarts    \* bound: starts of the program

Clients == {"main", "bg"}

ASSUME McpAssumption ==
    /\ Home \in [Tools -> Servers] /\ Excluded \subseteq Tools
    /\ None \notin Clients \cup Tools \cup Servers
    /\ MaxStarts \in Nat

VARIABLES
    starts, up,   \* starts so far; the program runs
    cache,        \* the cache file: None, or its hash, age and tools
    fromCache,
    offered,      \* tools whose schemas the model sees
    current,      \* the executor of the dispatcher
    table,        \* of an executor: the client behind a tool
    session,      \* of a client and a server
    refresh,      \* background_connect
    reconnect,    \* where it is, and the server
    call

tools == <<offered, current, table>>
vars == <<starts, up, cache, fromCache, tools, session, refresh, reconnect, call>>

Of(s) == {t \in Tools : Home[t] = s}

\* Mutant: nothing is filtered.
Unfiltered(listed) == listed

Filtered(listed) == listed \ Excluded

NoTable == [t \in Tools |-> None]
NoCall == [at |-> "idle", tool |-> None, via |-> None]
NoRefresh == [at |-> "none", todo |-> {}]
NoReconnect == [at |-> "no", server |-> None]
NoSession == [k \in Clients |-> [s \in Servers |-> "none"]]

Init ==
    /\ starts = 0 /\ up = FALSE
    /\ cache = None /\ fromCache = FALSE
    /\ offered = {} /\ current = "first"
    /\ table = [e \in {"first", "latest"} |-> NoTable]
    /\ session = NoSession
    /\ refresh = NoRefresh /\ reconnect = NoReconnect
    /\ call = [c \in Calls |-> NoCall]

-----------------------------------------------------------------------------
\* Start and end of the program

\* The tools are those of mcp_tools, whatever executor is built.
Executor(ts) == [t \in Tools |-> IF t \in ts THEN "main" ELSE None]

Starts(ts) ==
    /\ ~up /\ starts < MaxStarts
    /\ starts' = starts + 1 /\ up' = TRUE
    /\ offered' = ts
    /\ table' = [table EXCEPT !["first"] = Executor(ts)]
    /\ current' = "first"

CacheHit == cache # None /\ cache.ours /\ ~cache.old

\* What servers may list.
Lists(s) == SUBSET s

\* connect and get_tools: those servers answer that can, and the raw lists are
\* what is cached.  Nothing is written when no server could be reached.
StartConnected ==
    /\ ~CacheHit
    /\ \E connected \in SUBSET Servers :
          \E listed \in Lists({t \in Tools : Home[t] \in connected}) :
              /\ Starts(Filtered(listed))
              /\ session' = [session EXCEPT !["main"] =
                                [s \in Servers |-> IF s \in connected THEN "open" ELSE "none"]]
              /\ cache' = IF connected = {} THEN cache
                          ELSE [ours |-> TRUE, old |-> FALSE, tools |-> listed]
    /\ UNCHANGED <<fromCache, refresh, reconnect, call>>

\* The tools of the cache are taken as they are.
StartCached ==
    /\ CacheHit
    /\ Starts(cache.tools)
    /\ fromCache' = TRUE
    /\ refresh' = [at |-> "connecting", todo |-> Servers]
    /\ UNCHANGED <<cache, session, reconnect, call>>

Ends ==
    /\ up' = FALSE /\ fromCache' = FALSE
    /\ offered' = {} /\ current' = "first"
    /\ table' = [e \in DOMAIN table |-> NoTable]
    /\ session' = NoSession
    /\ refresh' = NoRefresh /\ reconnect' = NoReconnect
    /\ call' = [c \in Calls |-> NoCall]

Shutdown == up /\ Ends /\ UNCHANGED <<starts, cache>>

\* Twenty-four hours pass.
Ages ==
    /\ ~up /\ cache # None
    /\ cache' = [cache EXCEPT !.old = TRUE]
    /\ UNCHANGED <<starts, up, fromCache, tools, session, refresh, reconnect, call>>

\* set_tools_for_session: an executor the client does not know.
Rebuild ==
    /\ up /\ reconnect.at = "no"
    /\ table' = [table EXCEPT !["latest"] = Executor(offered)]
    /\ current' = "latest"
    /\ UNCHANGED <<starts, up, cache, fromCache, offered, session, refresh, reconnect, call>>

-----------------------------------------------------------------------------
\* background_connect

RefreshConnects(s) ==
    /\ refresh.at = "connecting" /\ s \in refresh.todo
    /\ refresh' = [refresh EXCEPT !.todo = @ \ {s}]
    /\ \/ session' = [session EXCEPT !["bg"][s] = "open"]
       \/ UNCHANGED session
    /\ UNCHANGED <<starts, up, cache, fromCache, tools, reconnect, call>>

\* The second client has computed no hash, so the cache it writes is nobody's.
\* The table of the executor of the start follows the lists.
RefreshEnds ==
    /\ refresh.at = "connecting" /\ refresh.todo = {}
    /\ LET reached == {s \in Servers : session["bg"][s] # "none"}
       IN \E listed \in Lists({t \in Tools : Home[t] \in reached}) :
              /\ cache' = IF reached = {} THEN cache
                          ELSE [ours |-> FALSE, old |-> FALSE, tools |-> listed]
              /\ table' = [table EXCEPT !["first"] =
                              [t \in Tools |-> IF t \in Filtered(listed) THEN "bg" ELSE None]]
    /\ refresh' = [refresh EXCEPT !.at = "done"]
    /\ UNCHANGED <<starts, up, fromCache, offered, current, session, reconnect, call>>

\* The cache cannot be written, or is left half written: _read_cache finds none.
RefreshFails ==
    /\ refresh.at = "connecting" /\ refresh.todo = {}
    /\ refresh' = [refresh EXCEPT !.at = "failed"]
    /\ cache' \in {cache, None}
    /\ UNCHANGED <<starts, up, fromCache, tools, session, reconnect, call>>

-----------------------------------------------------------------------------
\* Calls

Breaks(k, s) ==
    /\ session[k][s] = "open"
    /\ session' = [session EXCEPT ![k][s] = "broken"]
    /\ UNCHANGED <<starts, up, cache, fromCache, tools, refresh, reconnect, call>>

\* A server that is not connected answers with an error at once.
Sent(c, t, k) ==
    call' = [call EXCEPT ![c] = IF session[k][Home[t]] = "none" THEN NoCall
                                ELSE [at |-> "sent", tool |-> t, via |-> k]]

\* A name that is not in the table is an error of the executor, and a call is
\* an error of the client once the refresh has failed.
Begin(c, t) ==
    /\ up /\ reconnect.at = "no" /\ call[c].at = "idle" /\ table[current][t] # None
    /\ \/ /\ table[current][t] = "main" /\ fromCache /\ refresh.at = "connecting"
          /\ call' = [call EXCEPT ![c] = [at |-> "waiting", tool |-> t, via |-> None]]
       \/ /\ table[current][t] = "main" /\ fromCache /\ refresh.at = "done"
          /\ Sent(c, t, "bg")
       \/ /\ table[current][t] = "main" => ~fromCache
          /\ Sent(c, t, table[current][t])
    /\ UNCHANGED <<starts, up, cache, fromCache, tools, session, refresh, reconnect>>

Wakes(c) ==
    /\ call[c].at = "waiting" /\ refresh.at # "connecting"
    /\ IF refresh.at = "done" THEN Sent(c, call[c].tool, "bg")
       ELSE call' = [call EXCEPT ![c] = NoCall]
    /\ UNCHANGED <<starts, up, cache, fromCache, tools, session, refresh, reconnect>>

\* An answer, an error, a timeout of the client or of the executor, or a stop.
Returns(c) ==
    /\ call[c].at # "idle"
    /\ call' = [call EXCEPT ![c] = NoCall]
    /\ UNCHANGED <<starts, up, cache, fromCache, tools, session, refresh, reconnect>>

\* Mutant: the prefix has lost the name of the server.
WithoutAny(s) == NoTable

\* _remove_server_tools, on the executor of the start.
Without(s) == [t \in Tools |-> IF Home[t] = s THEN None ELSE table["first"][t]]

ConnectionLost(c) ==
    /\ call[c].at = "sent"
    /\ LET s == Home[call[c].tool]
       IN /\ session[call[c].via][s] = "broken"
          /\ table' = [table EXCEPT !["first"] = Without(s)]
    /\ call' = [call EXCEPT ![c] = NoCall]
    /\ UNCHANGED <<starts, up, cache, fromCache, offered, current, session, refresh, reconnect>>

-----------------------------------------------------------------------------
\* reconnect: a command of the terminal, while no turn runs

\* Mutant: the command is taken while a turn runs.
AnyTime == TRUE

NoTurn == \A c \in Calls : call[c].at = "idle"

ReconnectBegins(s) ==
    /\ up /\ reconnect.at = "no" /\ NoTurn
    /\ session' = [session EXCEPT !["main"][s] = "none"]
    /\ reconnect' = [at |-> "connecting", server |-> s]
    /\ UNCHANGED <<starts, up, cache, fromCache, tools, refresh, call>>

ReconnectConnects ==
    /\ reconnect.at = "connecting"
    /\ \/ /\ session' = [session EXCEPT !["main"][reconnect.server] = "open"]
          /\ reconnect' = [reconnect EXCEPT !.at = "listing"]
       \/ /\ reconnect' = NoReconnect
          /\ UNCHANGED session
    /\ UNCHANGED <<starts, up, cache, fromCache, tools, refresh, call>>

\* The list fails; or there is nothing to register; or register, which the
\* executor does not have, ends the program.
ReconnectEnds ==
    /\ reconnect.at = "listing"
    /\ \/ /\ reconnect' = NoReconnect
          /\ table' \in {table, [table EXCEPT !["first"] = Without(reconnect.server)]}
          /\ UNCHANGED <<up, fromCache, offered, current, session, refresh, call>>
       \/ \E listed \in Lists(Of(reconnect.server)) : Filtered(listed) # {} /\ Ends
    /\ UNCHANGED <<starts, cache>>

-----------------------------------------------------------------------------

Program == StartConnected \/ StartCached \/ Shutdown \/ Ages \/ Rebuild
Refresh == (\E s \in Servers : RefreshConnects(s)) \/ RefreshEnds \/ RefreshFails
Calling(c) == (\E t \in Tools : Begin(c, t)) \/ Wakes(c) \/ Returns(c) \/ ConnectionLost(c)
Reconnecting == (\E s \in Servers : ReconnectBegins(s)) \/ ReconnectConnects \/ ReconnectEnds

Next ==
    \/ Program \/ Refresh \/ Reconnecting
    \/ \E c \in Calls : Calling(c)
    \/ \E k \in Clients, s \in Servers : Breaks(k, s)

Spec == Init /\ [][Next]_vars

-----------------------------------------------------------------------------

(* All variables have their types. *)
TypeOK ==
    /\ starts \in 0 .. MaxStarts /\ up \in BOOLEAN /\ fromCache \in BOOLEAN
    /\ cache \in {None} \cup [ours : BOOLEAN, old : BOOLEAN, tools : SUBSET Tools]
    /\ offered \subseteq Tools /\ current \in {"first", "latest"}
    /\ table \in [{"first", "latest"} -> [Tools -> Clients \cup {None}]]
    /\ session \in [Clients -> [Servers -> {"none", "open", "broken"}]]
    /\ refresh \in [at : {"none", "connecting", "done", "failed"}, todo : SUBSET Servers]
    /\ reconnect \in [at : {"no", "connecting", "listing"}, server : Servers \cup {None}]
    /\ call \in [Calls -> [at : {"idle", "waiting", "sent"}, tool : Tools \cup {None},
                           via : Clients \cup {None}]]

(* The filter of the configuration fails only in a run that took its tools    *)
(* from the cache, and there only for tools the refresh has not replaced.     *)
ExcludedFiltered ==
    /\ \A e \in {"first", "latest"}, t \in Excluded :
          table[e][t] # None =>
              /\ fromCache /\ table[e][t] = "main"
              /\ e = "first" => refresh.at # "done"
    /\ \A c \in Calls : call[c].at = "sent" /\ call[c].tool \in Excluded => fromCache

(* A call is never on its way through a session its client has given up: a    *)
(* reconnection drops sessions of one client only, and only between turns.    *)
CallsHaveSessions ==
    \A c \in Calls : call[c].at = "sent" => session[call[c].via][Home[call[c].tool]] # "none"

(* A tool leaves the table only by the refresh, or because a call found the   *)
(* connection of its own server broken or that server is reconnected: what    *)
(* happens to one server leaves the tools of the others alone.                *)
LostForCause ==
    [][\A t \in Tools :
          table["first"][t] # None /\ table'["first"][t] = None /\ up' =>
              \/ refresh.at = "connecting" /\ refresh'.at = "done"
              \/ reconnect.at = "listing" /\ reconnect.server = Home[t]
              \/ \E c \in Calls : /\ call[c].at = "sent" /\ call'[c].at = "idle"
                                  /\ Home[call[c].tool] = Home[t]
                                  /\ session[call[c].via][Home[t]] = "broken"]_vars

(* "include/exclude": an excluded tool is never called at its server. *)
FilterHolds == \A c \in Calls : call[c].at = "sent" => call[c].tool \notin Excluded
=============================================================================
