-------------------------- MODULE McpClientProofs --------------------------
(***************************************************************************)
(* Proofs about McpClient, for any servers, tools, filters and calls.      *)
(*                                                                         *)
(* CacheInv says where an excluded tool may be: everywhere the adapters of *)
(* the cache are, and nowhere else.  TurnInv says that a reconnection has  *)
(* the client for itself.                                                  *)
(***************************************************************************)
EXTENDS McpClient, TLAPS

USE McpAssumption

Executors == {"first", "latest"}

CacheInv ==
    /\ offered \cap Excluded # {} => fromCache
    /\ \A c \in Calls : /\ call[c].at # "idle" => call[c].tool \in Tools
                        /\ call[c].at = "waiting" => fromCache
                        /\ call[c].at = "sent" => call[c].via \in Clients
    /\ refresh.at # "none" => fromCache

TurnInv == reconnect.at # "no" => \A c \in Calls : call[c].at = "idle"

DownInv ==
    ~up => /\ ~fromCache /\ table = [e \in {"first", "latest"} |-> NoTable]
           /\ refresh.at = "none" /\ reconnect.at = "no"
           /\ \A c \in Calls : call[c].at = "idle"

Rest == CacheInv /\ TurnInv /\ DownInv /\ ExcludedFiltered /\ CallsHaveSessions

IInv == TypeOK /\ Rest

-----------------------------------------------------------------------------
\* Types

LEMMA ExecutorType == ASSUME NEW ts PROVE Executor(ts) \in [Tools -> Clients \cup {None}]
BY DEF Executor, Clients

LEMMA WithoutType ==
    ASSUME TypeOK, NEW s PROVE Without(s) \in [Tools -> Clients \cup {None}]
BY DEF TypeOK, Without

LEMMA SentType ==
    ASSUME TypeOK, NEW c \in Calls, NEW t \in Tools, NEW k \in Clients, Sent(c, t, k)
    PROVE  call' \in [Calls -> [at : {"idle", "waiting", "sent"}, tool : Tools \cup {None},
                                via : Clients \cup {None}]]
BY DEF TypeOK, Sent, NoCall

LEMMA InitType == Init => IInv
<1> SUFFICES ASSUME Init PROVE IInv OBVIOUS
<1>1. TypeOK
  <2>1. /\ table \in [{"first", "latest"} -> [Tools -> Clients \cup {None}]]
        /\ session \in [Clients -> [Servers -> {"none", "open", "broken"}]]
        BY DEF Init, NoTable, NoSession
  <2>2. /\ refresh \in [at : {"none", "connecting", "done", "failed"}, todo : SUBSET Servers]
        /\ reconnect \in [at : {"no", "connecting", "listing"}, server : Servers \cup {None}]
        BY DEF Init, NoRefresh, NoReconnect
  <2>3. call \in [Calls -> [at : {"idle", "waiting", "sent"}, tool : Tools \cup {None},
                           via : Clients \cup {None}]]
        BY DEF Init, NoCall
  <2>4. starts \in 0 .. MaxStarts /\ cache = None /\ offered \subseteq Tools BY DEF Init
  <2>5. up \in BOOLEAN /\ fromCache \in BOOLEAN /\ current \in {"first", "latest"} BY DEF Init
  <2> QED BY <2>1, <2>2, <2>3, <2>4, <2>5 DEF TypeOK
<1>2. CacheInv /\ TurnInv /\ DownInv
      BY DEF Init, CacheInv, TurnInv, DownInv, NoCall, NoRefresh, NoReconnect
<1>3. ExcludedFiltered /\ CallsHaveSessions
      BY DEF Init, ExcludedFiltered, CallsHaveSessions, NoTable, NoCall
<1> QED BY <1>1, <1>2, <1>3 DEF IInv, Rest

LEMMA EndsType == ASSUME TypeOK, Ends PROVE
    /\ fromCache' \in BOOLEAN /\ up' \in BOOLEAN /\ offered' \subseteq Tools
    /\ current' \in Executors
    /\ table' \in [Executors -> [Tools -> Clients \cup {None}]]
    /\ session' \in [Clients -> [Servers -> {"none", "open", "broken"}]]
    /\ refresh' \in [at : {"none", "connecting", "done", "failed"}, todo : SUBSET Servers]
    /\ reconnect' \in [at : {"no", "connecting", "listing"}, server : Servers \cup {None}]
    /\ call' \in [Calls -> [at : {"idle", "waiting", "sent"}, tool : Tools \cup {None},
                            via : Clients \cup {None}]]
BY DEF TypeOK, Ends, NoTable, NoCall, NoRefresh, NoReconnect, NoSession, Executors

LEMMA StartsType ==
    ASSUME TypeOK, NEW ts \in SUBSET Tools, Starts(ts)
    PROVE  /\ starts' \in 0 .. MaxStarts /\ up' \in BOOLEAN
           /\ offered' \subseteq Tools /\ current' \in Executors
           /\ table' \in [Executors -> [Tools -> Clients \cup {None}]]
<1>1. Executor(ts) \in [Tools -> Clients \cup {None}] BY ExecutorType
<1> QED BY <1>1 DEF TypeOK, Starts, Executors

LEMMA ProgramType == ASSUME TypeOK, Program PROVE TypeOK'
<1>1. CASE StartConnected
  <2>1. PICK connected \in SUBSET Servers, listed \in SUBSET Tools :
          /\ Starts(Filtered(listed))
          /\ session' = [session EXCEPT !["main"] =
                            [s \in Servers |-> IF s \in connected THEN "open" ELSE "none"]]
          /\ cache' = IF connected = {} THEN cache
                      ELSE [ours |-> TRUE, old |-> FALSE, tools |-> listed]
        BY <1>1 DEF StartConnected, Lists
  <2>2. Filtered(listed) \in SUBSET Tools BY DEF Filtered
  <2>3. cache' \in {None} \cup [ours : BOOLEAN, old : BOOLEAN, tools : SUBSET Tools]
        BY <2>1, <2>2 DEF TypeOK
  <2>4. session' \in [Clients -> [Servers -> {"none", "open", "broken"}]]
        BY <2>1 DEF TypeOK, Clients
  <2> QED BY <1>1, <2>1, <2>2, <2>3, <2>4, StartsType DEF StartConnected, TypeOK, Executors
<1>2. CASE StartCached
  <2>1. cache.tools \in SUBSET Tools BY <1>2 DEF StartCached, CacheHit, TypeOK
  <2> QED BY <1>2, <2>1, StartsType DEF StartCached, TypeOK, Executors
<1>3. CASE Shutdown BY <1>3, EndsType DEF Shutdown, TypeOK, Executors
<1>4. CASE Ages BY <1>4 DEF Ages, TypeOK, tools
<1>5. CASE Rebuild BY <1>5, ExecutorType DEF Rebuild, TypeOK
<1> QED BY <1>1, <1>2, <1>3, <1>4, <1>5 DEF Program

LEMMA RefreshType == ASSUME TypeOK, Refresh PROVE TypeOK'
<1>1. ASSUME NEW s \in Servers, RefreshConnects(s) PROVE TypeOK'
  <2>1. session' \in [Clients -> [Servers -> {"none", "open", "broken"}]]
        BY <1>1 DEF RefreshConnects, TypeOK, Clients
  <2> QED BY <1>1, <2>1 DEF RefreshConnects, TypeOK, tools
<1>2. CASE RefreshEnds
  <2>1. PICK reached \in SUBSET Servers, listed \in SUBSET Tools :
          /\ cache' = IF reached = {} THEN cache
                      ELSE [ours |-> FALSE, old |-> FALSE, tools |-> listed]
          /\ table' = [table EXCEPT !["first"] =
                          [t \in Tools |-> IF t \in Filtered(listed) THEN "bg" ELSE None]]
        <3> DEFINE r == {s \in Servers : session["bg"][s] # "none"}
        <3>1. r \in SUBSET Servers OBVIOUS
        <3> QED BY <1>2, <3>1 DEF RefreshEnds, Lists
  <2>3. cache' \in {None} \cup [ours : BOOLEAN, old : BOOLEAN, tools : SUBSET Tools]
        BY <2>1 DEF TypeOK
  <2>4. table' \in [{"first", "latest"} -> [Tools -> Clients \cup {None}]]
        BY <2>1 DEF TypeOK, Clients
  <2> QED BY <1>2, <2>3, <2>4 DEF RefreshEnds, TypeOK
<1>3. CASE RefreshFails BY <1>3 DEF RefreshFails, TypeOK, tools
<1> QED BY <1>1, <1>2, <1>3 DEF Refresh

LEMMA CallingType == ASSUME TypeOK, NEW c \in Calls, Calling(c) PROVE TypeOK'
<1>1. ASSUME NEW t \in Tools, Begin(c, t) PROVE TypeOK'
  <2>1. table[current][t] \in Clients BY <1>1 DEF Begin, TypeOK
  <2>2. call' \in [Calls -> [at : {"idle", "waiting", "sent"}, tool : Tools \cup {None},
                             via : Clients \cup {None}]]
    <3>1. CASE Sent(c, t, "bg") BY <3>1, SentType DEF Clients
    <3>2. CASE Sent(c, t, table[current][t]) BY <2>1, <3>2, SentType
    <3>3. CASE call' = [call EXCEPT ![c] = [at |-> "waiting", tool |-> t, via |-> None]]
          BY <3>3 DEF TypeOK
    <3> QED BY <1>1, <3>1, <3>2, <3>3 DEF Begin
  <2> QED BY <1>1, <2>2 DEF Begin, TypeOK, tools
<1>2. CASE Wakes(c)
  <2>1. CASE refresh.at = "done" /\ call[c].tool \in Tools
    <3>1. Sent(c, call[c].tool, "bg") BY <1>2, <2>1 DEF Wakes
    <3>2. call' \in [Calls -> [at : {"idle", "waiting", "sent"}, tool : Tools \cup {None},
                               via : Clients \cup {None}]]
          BY <2>1, <3>1, SentType DEF Clients
    <3> QED BY <1>2, <3>2 DEF Wakes, TypeOK, tools
  <2>2. CASE ~ (refresh.at = "done" /\ call[c].tool \in Tools)
    <3>1. call[c].tool \in Tools \cup {None} BY DEF TypeOK
    <3>2. call' \in [Calls -> [at : {"idle", "waiting", "sent"}, tool : Tools \cup {None},
                               via : Clients \cup {None}]]
          BY <1>2, <2>2, <3>1 DEF Wakes, Sent, NoCall, TypeOK, Clients
    <3> QED BY <1>2, <3>2 DEF Wakes, TypeOK, tools
  <2> QED BY <2>1, <2>2
<1>3. CASE Returns(c) BY <1>3 DEF Returns, TypeOK, tools, NoCall
<1>4. CASE ConnectionLost(c) BY <1>4, WithoutType DEF ConnectionLost, TypeOK, NoCall
<1> QED BY <1>1, <1>2, <1>3, <1>4 DEF Calling

LEMMA ReconnectingType == ASSUME TypeOK, Reconnecting PROVE TypeOK'
<1>1. ASSUME NEW s \in Servers, ReconnectBegins(s) PROVE TypeOK'
  <2>1. session' \in [Clients -> [Servers -> {"none", "open", "broken"}]]
        BY <1>1 DEF ReconnectBegins, TypeOK, Clients
  <2> QED BY <1>1, <2>1 DEF ReconnectBegins, TypeOK, tools
<1>2. CASE ReconnectConnects
  <2>1. session' \in [Clients -> [Servers -> {"none", "open", "broken"}]]
        BY <1>2 DEF ReconnectConnects, TypeOK, Clients
  <2> QED BY <1>2, <2>1 DEF ReconnectConnects, TypeOK, tools, NoReconnect
<1>3. CASE ReconnectEnds
  <2>1. CASE Ends BY <1>3, <2>1, EndsType DEF ReconnectEnds, TypeOK, Executors
  <2>2. CASE ~ Ends
        BY <1>3, <2>2, WithoutType DEF ReconnectEnds, TypeOK, NoReconnect
  <2> QED BY <2>1, <2>2
<1> QED BY <1>1, <1>2, <1>3 DEF Reconnecting

LEMMA BreaksType == ASSUME TypeOK, NEW k \in Clients, NEW s \in Servers, Breaks(k, s) PROVE TypeOK'
<1>1. session' \in [Clients -> [Servers -> {"none", "open", "broken"}]]
      BY DEF Breaks, TypeOK, Clients
<1> QED BY <1>1 DEF Breaks, TypeOK, tools

LEMMA NextType == TypeOK /\ [Next]_vars => TypeOK'
<1> SUFFICES ASSUME TypeOK, [Next]_vars PROVE TypeOK' OBVIOUS
<1>1. CASE UNCHANGED vars BY <1>1 DEF vars, tools, TypeOK
<1> QED
  BY <1>1, ProgramType, RefreshType, CallingType, ReconnectingType, BreaksType DEF Next

(* All variables keep their types, for any servers, tools and calls. *)
THEOREM TypeCorrect == Spec => []TypeOK
<1>1. Init => TypeOK BY InitType DEF IInv
<1> QED BY <1>1, NextType, PTL DEF Spec

-----------------------------------------------------------------------------
\* The filter and the sessions of calls

\* A step that leaves the tables alone and sends at most one call.
LEMMA CallStep ==
    ASSUME IInv, NEW c \in Calls, NEW t \in Tools, NEW k \in Clients,
           Sent(c, t, k), t \in Excluded => fromCache,
           UNCHANGED <<fromCache, offered, table, session, refresh, reconnect>>, reconnect.at = "no",
           up, up'
    PROVE  Rest'
<1>1. /\ \A d \in Calls : d # c => call'[d] = call[d]
      /\ \/ call'[c] = NoCall
         \/ call'[c] = [at |-> "sent", tool |-> t, via |-> k] /\ session[k][Home[t]] # "none"
      BY DEF Sent, IInv, TypeOK
<1>2. CacheInv' BY <1>1 DEF IInv, Rest, CacheInv, NoCall
<1>3. TurnInv' BY DEF TurnInv
<1>4. ExcludedFiltered' BY <1>1 DEF IInv, Rest, ExcludedFiltered, NoCall
<1>5. CallsHaveSessions' BY <1>1 DEF IInv, Rest, CallsHaveSessions, NoCall
<1> QED BY <1>2, <1>3, <1>4, <1>5 DEF Rest, DownInv

\* A step that ends one call at most and changes no session.
LEMMA RestStep ==
    ASSUME IInv, NEW c \in Calls, call' = [call EXCEPT ![c] = NoCall],
           UNCHANGED <<fromCache, offered, session, refresh, reconnect>>, up, up',
           table' \in {table, [table EXCEPT !["first"] = Without(Home[call[c].tool])]}
    PROVE  Rest'
<1>1. \A d \in Calls : call'[d] = call[d] \/ call'[d] = NoCall BY DEF IInv, TypeOK
<1>2. \A e \in {"first", "latest"}, t \in Tools : table'[e][t] \in {table[e][t], None}
      BY DEF IInv, TypeOK, Without
<1>3. CacheInv' BY <1>1 DEF IInv, Rest, CacheInv, NoCall
<1>4. TurnInv' BY <1>1 DEF IInv, Rest, TurnInv, NoCall
<1>5. ExcludedFiltered' BY <1>1, <1>2 DEF IInv, Rest, ExcludedFiltered, NoCall
<1>6. CallsHaveSessions' BY <1>1 DEF IInv, Rest, CallsHaveSessions, NoCall
<1> QED BY <1>3, <1>4, <1>5, <1>6 DEF Rest, DownInv

LEMMA CallingInv ==
    ASSUME IInv, NEW c \in Calls, Calling(c)
    PROVE  Rest'
<1>1. ASSUME NEW t \in Tools, Begin(c, t)
      PROVE  Rest'
  <2>1. table[current][t] \in Clients /\ current \in {"first", "latest"}
        BY <1>1 DEF Begin, IInv, TypeOK
  <2>2. t \in Excluded => fromCache BY <1>1, <2>1 DEF Begin, IInv, Rest, ExcludedFiltered
  <2>3. /\ UNCHANGED <<fromCache, offered, table, session, refresh, reconnect>>
        /\ reconnect.at = "no" /\ up /\ up'
        BY <1>1 DEF Begin, tools
  <2>4. CASE Sent(c, t, "bg") BY <2>2, <2>3, <2>4, CallStep DEF Clients
  <2>5. CASE Sent(c, t, table[current][t]) BY <2>1, <2>2, <2>3, <2>5, CallStep
  <2>6. CASE /\ fromCache
             /\ call' = [call EXCEPT ![c] = [at |-> "waiting", tool |-> t, via |-> None]]
    <3>1. /\ \A d \in Calls : d # c => call'[d] = call[d]
          /\ call'[c].at = "waiting"
          BY <2>6 DEF IInv, TypeOK
    <3>2. CacheInv' BY <2>3, <2>6, <3>1 DEF IInv, Rest, CacheInv
    <3>3. TurnInv' BY <2>3 DEF TurnInv
    <3>4. ExcludedFiltered' BY <2>3, <3>1 DEF IInv, Rest, ExcludedFiltered
    <3>5. CallsHaveSessions' BY <2>3, <3>1 DEF IInv, Rest, CallsHaveSessions
    <3> QED BY <2>3, <3>2, <3>3, <3>4, <3>5 DEF Rest, DownInv
  <2> QED BY <1>1, <2>4, <2>5, <2>6 DEF Begin
<1>2. CASE Wakes(c)
  <2>1. /\ UNCHANGED <<fromCache, offered, table, session, refresh, reconnect>>
        /\ fromCache /\ reconnect.at = "no" /\ up /\ up'
        BY <1>2 DEF Wakes, tools, IInv, Rest, CacheInv, TurnInv, DownInv
  <2>2. CASE refresh.at = "done" /\ call[c].tool \in Tools
        BY <1>2, <2>1, <2>2, CallStep DEF Wakes, Clients
  <2>3. CASE refresh.at # "done" BY <1>2, <2>1, <2>3, RestStep DEF Wakes
  <2>4. call[c].tool \in Tools BY <1>2 DEF Wakes, IInv, Rest, CacheInv
  <2> QED BY <2>2, <2>3, <2>4
<1>3. CASE Returns(c) BY <1>3, RestStep DEF Returns, tools, IInv, Rest, DownInv
<1>4. CASE ConnectionLost(c) BY <1>4, RestStep DEF ConnectionLost, IInv, Rest, DownInv
<1> QED BY <1>1, <1>2, <1>3, <1>4 DEF Calling

LEMMA EndsInv ==
    ASSUME TypeOK, Ends PROVE Rest'
<1>1. CacheInv' BY DEF Ends, CacheInv, NoCall, NoRefresh
<1>2. TurnInv' BY DEF Ends, TurnInv, NoCall
<1>3. ExcludedFiltered'
      BY DEF TypeOK, Ends, ExcludedFiltered, NoCall, NoTable
<1>4. CallsHaveSessions' BY DEF Ends, CallsHaveSessions, NoCall
<1>5. DownInv' BY DEF TypeOK, Ends, DownInv, NoCall, NoRefresh, NoReconnect
<1> QED BY <1>1, <1>2, <1>3, <1>4, <1>5 DEF Rest

\* After a start every adapter is the main client's, and no call is under way.
LEMMA StartInv ==
    ASSUME IInv, NEW ts \in SUBSET Tools, Starts(ts), ts \cap Excluded # {} => fromCache',
           UNCHANGED <<reconnect, call>>, refresh'.at # "none" => fromCache',
           refresh'.at # "done"
    PROVE  Rest'
<1>1. /\ \A c \in Calls : call'[c].at = "idle"
      /\ reconnect'.at = "no" /\ up'
      BY DEF IInv, Rest, DownInv, Starts
<1>2. \A e \in {"first", "latest"}, t \in Tools : table'[e][t] \in {None, "main"}
      BY DEF IInv, TypeOK, Rest, DownInv, Starts, Executor, NoTable
<1>3. \A e \in {"first", "latest"}, t \in Excluded : table'[e][t] # None => fromCache'
      BY DEF IInv, TypeOK, Rest, DownInv, Starts, Executor, NoTable
<1>4. CacheInv' BY <1>1 DEF CacheInv, Starts
<1>5. ExcludedFiltered' BY <1>1, <1>2, <1>3 DEF ExcludedFiltered
<1>6. CallsHaveSessions' /\ TurnInv' /\ DownInv' BY <1>1 DEF CallsHaveSessions, TurnInv, DownInv
<1> QED BY <1>4, <1>5, <1>6 DEF Rest

LEMMA ProgramInv == ASSUME IInv, Program PROVE Rest'
<1>1. CASE StartConnected
  <2>1. PICK connected \in SUBSET Servers, listed \in SUBSET Tools : Starts(Filtered(listed))
        BY <1>1 DEF StartConnected, Lists
  <2>2. /\ Filtered(listed) \in SUBSET Tools /\ Filtered(listed) \cap Excluded = {}
        /\ UNCHANGED <<reconnect, call>> /\ refresh'.at = "none"
        BY <1>1, <2>1 DEF StartConnected, Filtered, Starts, IInv, Rest, DownInv
  <2> QED BY <2>1, <2>2, StartInv
<1>2. CASE StartCached
  <2>1. cache.tools \in SUBSET Tools BY <1>2 DEF StartCached, CacheHit, IInv, TypeOK
  <2> QED BY <1>2, <2>1, StartInv DEF StartCached
<1>3. CASE Shutdown BY <1>3, EndsInv DEF Shutdown, IInv
<1>4. CASE Ages
  <2>1. UNCHANGED <<up, fromCache, offered, table, session, refresh, reconnect, call>>
        BY <1>4 DEF Ages, tools
  <2> QED BY <2>1 DEF IInv, Rest, CacheInv, TurnInv, DownInv, ExcludedFiltered, CallsHaveSessions
<1>5. CASE Rebuild
  <2>1. /\ UNCHANGED <<fromCache, offered, session, refresh, reconnect, call>> /\ up'
        /\ table'["first"] = table["first"]
        /\ table'["latest"] = Executor(offered)
        BY <1>5 DEF Rebuild, IInv, TypeOK
  <2>2. \A t \in Excluded : table'["latest"][t] # None
                                => fromCache /\ table'["latest"][t] = "main"
        BY <2>1 DEF IInv, Rest, CacheInv, Executor
  <2>3. ExcludedFiltered' BY <2>1, <2>2 DEF IInv, Rest, ExcludedFiltered
  <2>4. CacheInv' /\ TurnInv' /\ CallsHaveSessions' /\ DownInv'
        BY <2>1 DEF IInv, Rest, CacheInv, TurnInv, CallsHaveSessions, DownInv
  <2> QED BY <2>3, <2>4 DEF Rest
<1> QED BY <1>1, <1>2, <1>3, <1>4, <1>5 DEF Program

\* A session may open or break, but is not given up.
LEMMA SessionStep ==
    ASSUME IInv, up, up', UNCHANGED <<fromCache, offered, table, call>>,
           refresh'.at = refresh.at, reconnect'.at # "no" => reconnect.at # "no",
           \A k \in Clients, s \in Servers : session[k][s] # "none" => session'[k][s] # "none"
    PROVE  Rest'
<1>1. \A c \in Calls : call[c].at = "sent" => call[c].via \in Clients /\ call[c].tool \in Tools
      BY DEF IInv, Rest, CacheInv
<1>2. CallsHaveSessions' BY <1>1 DEF IInv, Rest, CallsHaveSessions
<1>3. CacheInv' /\ TurnInv' /\ ExcludedFiltered'
      BY DEF IInv, Rest, CacheInv, TurnInv, ExcludedFiltered
<1> QED BY <1>2, <1>3 DEF Rest, DownInv

LEMMA RefreshInv == ASSUME IInv, Refresh PROVE Rest'
<1>1. up BY DEF Refresh, RefreshConnects, RefreshEnds, RefreshFails, IInv, Rest, DownInv
<1>2. ASSUME NEW r \in Servers, RefreshConnects(r) PROVE Rest'
  <2>1. \A k \in Clients, s \in Servers : session[k][s] # "none" => session'[k][s] # "none"
        BY <1>2 DEF RefreshConnects, IInv, TypeOK
  <2>2. /\ up' /\ UNCHANGED <<fromCache, offered, table, call, reconnect>>
        /\ refresh'.at = refresh.at
        BY <1>1, <1>2 DEF RefreshConnects, tools, IInv, TypeOK
  <2> QED BY <1>1, <2>1, <2>2, SessionStep
<1>3. CASE RefreshEnds
  <2>1. /\ UNCHANGED <<fromCache, offered, session, reconnect, call>> /\ up' /\ fromCache
        /\ refresh'.at = "done"
        BY <1>1, <1>3 DEF RefreshEnds, IInv, TypeOK, Rest, CacheInv
  <2>2. \A t \in Tools : /\ table'["first"][t] = None \/ t \notin Excluded
                         /\ table'["latest"][t] = table["latest"][t]
        BY <1>3 DEF RefreshEnds, Lists, Filtered, IInv, TypeOK
  <2>3. ExcludedFiltered' BY <2>1, <2>2 DEF IInv, Rest, ExcludedFiltered
  <2>4. CacheInv' /\ TurnInv' /\ CallsHaveSessions' /\ DownInv'
        BY <2>1 DEF IInv, Rest, CacheInv, TurnInv, CallsHaveSessions, DownInv
  <2> QED BY <2>3, <2>4 DEF Rest
<1>4. CASE RefreshFails
  <2>1. /\ UNCHANGED <<fromCache, offered, table, session, reconnect, call>> /\ up' /\ fromCache
        /\ refresh'.at = "failed"
        BY <1>1, <1>4 DEF RefreshFails, tools, IInv, TypeOK, Rest, CacheInv
  <2>2. ExcludedFiltered' BY <2>1 DEF IInv, Rest, ExcludedFiltered
  <2>3. CacheInv' /\ TurnInv' /\ CallsHaveSessions' /\ DownInv'
        BY <2>1 DEF IInv, Rest, CacheInv, TurnInv, CallsHaveSessions, DownInv
  <2> QED BY <2>2, <2>3 DEF Rest
<1> QED BY <1>2, <1>3, <1>4 DEF Refresh

LEMMA ReconnectingInv == ASSUME IInv, Reconnecting PROVE Rest'
<1>1. up
      BY DEF Reconnecting, ReconnectBegins, ReconnectConnects, ReconnectEnds, IInv, Rest, DownInv
<1>2. ASSUME NEW r \in Servers, ReconnectBegins(r) PROVE Rest'
  <2>1. /\ UNCHANGED <<fromCache, offered, table, refresh, call>> /\ up'
        /\ \A c \in Calls : call[c].at = "idle"
        BY <1>1, <1>2 DEF ReconnectBegins, NoTurn, tools
  <2>2. ExcludedFiltered' BY <2>1 DEF IInv, Rest, ExcludedFiltered
  <2>3. CacheInv' /\ TurnInv' /\ CallsHaveSessions' /\ DownInv'
        BY <2>1 DEF IInv, Rest, CacheInv, TurnInv, CallsHaveSessions, DownInv
  <2> QED BY <2>2, <2>3 DEF Rest
<1>3. CASE ReconnectConnects
  <2>1. \A k \in Clients, s \in Servers : session[k][s] # "none" => session'[k][s] # "none"
        BY <1>3 DEF ReconnectConnects, IInv, TypeOK
  <2>2. /\ up' /\ UNCHANGED <<fromCache, offered, table, call, refresh>>
        /\ reconnect.at # "no"
        BY <1>1, <1>3 DEF ReconnectConnects, tools
  <2> QED BY <1>1, <2>1, <2>2, SessionStep
<1>4. CASE ReconnectEnds
  <2>1. CASE Ends BY <2>1, EndsInv DEF IInv
  <2>2. CASE ~ Ends
    <3>1. /\ UNCHANGED <<up, fromCache, offered, session, refresh, call>>
          /\ reconnect' = NoReconnect
          /\ table' \in {table, [table EXCEPT !["first"] = Without(reconnect.server)]}
          BY <1>4, <2>2 DEF ReconnectEnds
    <3>2. \A e \in {"first", "latest"}, t \in Tools : table'[e][t] \in {table[e][t], None}
          BY <3>1 DEF IInv, TypeOK, Without
    <3>3. ExcludedFiltered' BY <3>1, <3>2 DEF IInv, Rest, ExcludedFiltered
    <3>4. CacheInv' /\ CallsHaveSessions' BY <3>1 DEF IInv, Rest, CacheInv, CallsHaveSessions
    <3>5. TurnInv' /\ DownInv' BY <1>1, <3>1 DEF TurnInv, DownInv, NoReconnect
    <3> QED BY <3>3, <3>4, <3>5 DEF Rest
  <2> QED BY <2>1, <2>2
<1> QED BY <1>2, <1>3, <1>4 DEF Reconnecting

LEMMA BreaksInv == ASSUME IInv, NEW k \in Clients, NEW s \in Servers, Breaks(k, s) PROVE Rest'
<1>1. /\ \A j \in Clients, r \in Servers : session[j][r] # "none" => session'[j][r] # "none"
      /\ UNCHANGED <<up, fromCache, offered, table, call, refresh, reconnect>>
      BY DEF Breaks, tools, IInv, TypeOK
<1>2. CallsHaveSessions' BY <1>1 DEF IInv, Rest, CacheInv, CallsHaveSessions
<1>3. ExcludedFiltered' BY <1>1 DEF IInv, Rest, ExcludedFiltered
<1>4. CacheInv' /\ TurnInv' /\ DownInv' BY <1>1 DEF IInv, Rest, CacheInv, TurnInv, DownInv
<1> QED BY <1>2, <1>3, <1>4 DEF Rest

LEMMA NextInv == IInv /\ [Next]_vars => IInv'
<1> SUFFICES ASSUME IInv, [Next]_vars PROVE IInv' OBVIOUS
<1>1. TypeOK' BY NextType DEF IInv
<1>2. Rest'
  <2>1. CASE UNCHANGED vars
    <3>1. CacheInv' /\ TurnInv' /\ DownInv'
          BY <2>1 DEF vars, tools, IInv, Rest, CacheInv, TurnInv, DownInv
    <3>2. ExcludedFiltered' /\ CallsHaveSessions'
          BY <2>1 DEF vars, tools, IInv, Rest, ExcludedFiltered, CallsHaveSessions
    <3> QED BY <3>1, <3>2 DEF Rest
  <2> QED BY <2>1, ProgramInv, RefreshInv, CallingInv, ReconnectingInv, BreaksInv DEF Next
<1> QED BY <1>1, <1>2 DEF IInv

THEOREM Invariant == Spec => []IInv
BY InitType, NextInv, PTL DEF Spec

(* Outside of the cache nothing that the configuration excludes is ever in a *)
(* table or called, for any number of servers, tools and calls.              *)
THEOREM FilterIsKept == Spec => []ExcludedFiltered
<1>1. IInv => ExcludedFiltered BY DEF IInv, Rest
<1> QED BY <1>1, Invariant, PTL

(* No call uses a session that its client has given up. *)
THEOREM SessionsOutliveCalls == Spec => []CallsHaveSessions
<1>1. IInv => CallsHaveSessions BY DEF IInv, Rest
<1> QED BY <1>1, Invariant, PTL

-----------------------------------------------------------------------------
\* Why a tool is lost

Lost(t) == table["first"][t] # None /\ table'["first"][t] = None /\ up'

Cause(t) ==
    \/ refresh.at = "connecting" /\ refresh'.at = "done"
    \/ reconnect.at = "listing" /\ reconnect.server = Home[t]
    \/ \E c \in Calls : /\ call[c].at = "sent" /\ call'[c].at = "idle"
                        /\ Home[call[c].tool] = Home[t]
                        /\ session[call[c].via][Home[t]] = "broken"

LEMMA LossStep == IInv /\ [Next]_vars => [\A t \in Tools : Lost(t) => Cause(t)]_vars
<1> SUFFICES ASSUME IInv, Next, NEW t \in Tools, Lost(t) PROVE Cause(t)
    BY DEF vars
<1>1. CASE Program
  <2>1. CASE StartConnected \/ StartCached
    <3>1. ~up BY <2>1 DEF StartConnected, StartCached, Starts
    <3>2. table["first"][t] = None BY <3>1 DEF IInv, Rest, DownInv, NoTable
    <3> QED BY <3>2 DEF Lost
  <2>2. CASE Shutdown \/ Ages BY <2>2 DEF Shutdown, Ends, Ages, Lost, tools
  <2>3. CASE Rebuild BY <2>3 DEF Rebuild, Lost, IInv, TypeOK
  <2> QED BY <1>1, <2>1, <2>2, <2>3 DEF Program
<1>2. CASE Refresh
      BY <1>2 DEF Refresh, RefreshConnects, RefreshEnds, RefreshFails, Lost, Cause, tools, IInv,
                  TypeOK
<1>3. ASSUME NEW c \in Calls, Calling(c) PROVE Cause(t)
  <2>1. CASE ConnectionLost(c)
        BY <2>1 DEF ConnectionLost, Without, Lost, Cause, NoCall, IInv, TypeOK
  <2>2. CASE ~ ConnectionLost(c)
        BY <1>3, <2>2 DEF Calling, Begin, Wakes, Returns, Lost, tools
  <2> QED BY <2>1, <2>2
<1>4. CASE Reconnecting
  <2>1. CASE ReconnectEnds
        BY <2>1 DEF ReconnectEnds, Ends, Without, Lost, Cause, IInv, TypeOK
  <2>2. CASE ~ ReconnectEnds
        BY <1>4, <2>2 DEF Reconnecting, ReconnectBegins, ReconnectConnects, Lost, tools
  <2> QED BY <2>1, <2>2
<1>5. CASE \E k \in Clients, s \in Servers : Breaks(k, s) BY <1>5 DEF Breaks, Lost, tools
<1> QED BY <1>1, <1>2, <1>3, <1>4, <1>5 DEF Next

(* A tool leaves the table of the first executor only by the refresh or for  *)
(* what happened to its own server.                                          *)
THEOREM LossesHaveCauses == Spec => LostForCause
<1>1. [\A t \in Tools : Lost(t) => Cause(t)]_vars
        => [\A t \in Tools :
              table["first"][t] # None /\ table'["first"][t] = None /\ up' =>
                  \/ refresh.at = "connecting" /\ refresh'.at = "done"
                  \/ reconnect.at = "listing" /\ reconnect.server = Home[t]
                  \/ \E c \in Calls : /\ call[c].at = "sent" /\ call'[c].at = "idle"
                                      /\ Home[call[c].tool] = Home[t]
                                      /\ session[call[c].via][Home[t]] = "broken"]_vars
      BY DEF Lost, Cause
<1> QED BY <1>1, LossStep, Invariant, PTL DEF Spec, LostForCause
=============================================================================
