--------------------------- MODULE GatewayProofs ---------------------------
(***************************************************************************)
(* Proofs about Gateway, for any sessions, publishers, subscribers, queue  *)
(* size and bounds, with or without several subscribers of a session.      *)
(***************************************************************************)
EXTENDS Gateway, FiniteSetTheorems, TLAPS

USE GatewayAssumption DEF GatewayAssumption, Msgs, Contexts, Sentinel

-----------------------------------------------------------------------------
(* The inductive invariant: what makes the properties survive every step.  *)

Active(p) == pub[p] # "idle"

\* The message of an active publisher has a number and a context, no result yet,
\* and no other publisher.
Flying ==
    /\ \A p \in Pubs : Active(p) =>
           /\ msg[p] \in 1 .. seq /\ msg[p] \in Msgs
           /\ to[msg[p]] \in 1 .. contexts /\ to[msg[p]] \in Contexts
           /\ result[msg[p]] = "none"
    /\ \A p, q \in Pubs : Active(p) /\ Active(q) /\ msg[p] = msg[q] => p = q
    /\ \A m \in Msgs : m > seq => result[m] = "none"

\* A subscriber that iterates over something, or may be woken, has a context.
Iterating ==
    /\ \A u \in Subs : SubAlive(u) => at[u] \in Contexts
    /\ \A c \in Contexts : \A u \in Elements(getters[c]) : at[u] \in Contexts

Distinct(s) == \A i, j \in 1 .. Len(s) : s[i] = s[j] => i = j

\* A context's waiting list holds publishers blocked on this context, each once:
\* a wake-up never reaches one that is past its put.
Waiting ==
    \A c \in Contexts :
        /\ Distinct(putters[c])
        /\ \A p \in Elements(putters[c]) : pub[p] = "blocked" /\ to[msg[p]] = c

\* Where a message is, from what its publisher does and from its result.
Fates ==
    /\ \A m \in Msgs, c \in Contexts : m \in Kept(c) =>
           c = to[m] /\ m <= seq /\ result[m] # "false" /\ m \notin dropped
    /\ \A m \in Msgs : m \in dropped => m <= seq /\ result[m] # "false"
    /\ \A p \in Pubs : pub[p] \in {"ready", "blocked", "woken"} =>
           msg[p] \notin dropped /\ \A c \in Contexts : msg[p] \notin Kept(c)
    /\ \A p \in Pubs : pub[p] = "put" => msg[p] \in Kept(to[msg[p]]) \cup dropped
    /\ \A m \in Msgs : result[m] = "true" /\ to[m] # 0 => m \in Kept(to[m]) \cup dropped

Orders ==
    \A c \in Contexts :
        /\ NoDuplicate(got[c]) /\ NoDuplicate(queue[c])
        /\ Elements(got[c]) \cap Elements(queue[c]) = {}

\* Session ids have contexts of their own, contexts not made yet are untouched and
\* those still registered have seen no stop.
Naming ==
    /\ \A s \in Sids : sessions[s] <= contexts
    /\ \A s, r \in Sids : sessions[s] # 0 /\ sessions[s] = sessions[r] => s = r
    /\ \A c \in Contexts : c > contexts =>
           queue[c] = <<>> /\ sent[c] = 0 /\ received[c] = 0
    /\ \A c \in Contexts : Registered(c) => Sentinel \notin Elements(queue[c])

\* What is left in the queue of a context that was unregistered came there later,
\* and only messages of such contexts come late.
Leftovers ==
    /\ \A c \in Contexts : ~Registered(c) /\ c \notin closed => Elements(queue[c]) \subseteq late
    /\ \A m \in late : m <= seq /\ to[m] \in 1 .. contexts /\ ~Registered(to[m])

Delivery ==
    Flying /\ Iterating /\ Waiting /\ Naming /\ Fates /\ Orders /\ Leftovers

-----------------------------------------------------------------------------
(* The waiting lists.                                                      *)

\* The elements a wake-up takes are elements of the list.
LEMMA FirstType ==
    ASSUME NEW S, NEW s \in Seq(S), NEW n \in Nat
    PROVE  /\ First(s, n) \in Seq(S)
           /\ Elements(First(s, n)) \subseteq Elements(s)
<1> DEFINE k == IF n < Len(s) THEN n ELSE Len(s)
<1>1. k \in 0 .. Len(s)
  OBVIOUS
<1>2. /\ SubSeq(s, 1, k) \in Seq(S) /\ Len(SubSeq(s, 1, k)) = k
      /\ \A i \in 1 .. k : SubSeq(s, 1, k)[i] = s[i]
  BY <1>1
<1> QED
  BY <1>1, <1>2 DEF First, Elements

\* What it leaves there is the list without them.
LEMMA RestType ==
    ASSUME NEW S, NEW s \in Seq(S), NEW n \in Nat
    PROVE  /\ Rest(s, n) \in Seq(S)
           /\ Elements(Rest(s, n)) \subseteq Elements(s)
           /\ \A i \in 1 .. Len(Rest(s, n)) : n + i \in 1 .. Len(s) /\ Rest(s, n)[i] = s[n + i]
           /\ \A i \in 1 .. Len(First(s, n)) :
                  i \in 1 .. Len(s) /\ i <= n /\ First(s, n)[i] = s[i]
<1>1. /\ Rest(s, n) \in Seq(S)
      /\ Len(Rest(s, n)) = IF n < Len(s) THEN Len(s) - n ELSE 0
      /\ \A i \in 1 .. Len(Rest(s, n)) : Rest(s, n)[i] = s[n + i]
  BY DEF Rest
<1>2. \A i \in 1 .. Len(Rest(s, n)) : n + i \in 1 .. Len(s)
  BY <1>1
<1>3. \A i \in 1 .. Len(First(s, n)) : i \in 1 .. Len(s) /\ i <= n /\ First(s, n)[i] = s[i]
  BY DEF First
<1> QED
  BY <1>1, <1>2, <1>3 DEF Elements

\* A list without x is a list of some of its other elements.
LEMMA WithoutType ==
    ASSUME NEW S, NEW s \in Seq(S), NEW x
    PROVE  /\ Without(s, x) \in Seq(S)
           /\ Elements(Without(s, x)) \subseteq Elements(s)
<1>1. CASE x \in Elements(s)
  <2> DEFINE i == CHOOSE j \in 1 .. Len(s) : s[j] = x
  <2>1. i \in 1 .. Len(s)
    BY <1>1 DEF Elements
  <2> HIDE DEF i
  <2> DEFINE a == SubSeq(s, 1, i - 1)
             b == SubSeq(s, i + 1, Len(s))
  <2>2. /\ a \in Seq(S) /\ Len(a) = i - 1
        /\ \A j \in 1 .. Len(a) : a[j] = s[j]
    BY <2>1
  <2>3. /\ b \in Seq(S) /\ Len(b) = Len(s) - i
        /\ \A j \in 1 .. Len(b) : b[j] = s[i + j]
    BY <2>1
  <2> HIDE DEF a, b
  <2>4. /\ a \o b \in Seq(S) /\ Len(a \o b) = Len(s) - 1
        /\ \A j \in 1 .. Len(a \o b) : (a \o b)[j] = IF j <= Len(a) THEN a[j] ELSE b[j - Len(a)]
    <3>1. Len(a) + Len(b) = Len(s) - 1
      BY <2>1, <2>2, <2>3
    <3> QED
      BY <3>1, <2>2, <2>3
  <2>5. \A j \in 1 .. Len(a \o b) : (a \o b)[j] \in Elements(s)
    <3> TAKE j \in 1 .. Len(a \o b)
    <3>1. CASE j <= Len(a)
      <4>1. j \in 1 .. Len(s) /\ (a \o b)[j] = s[j]
        BY <3>1, <2>1, <2>2, <2>4
      <4> QED
        BY <4>1 DEF Elements
    <3>2. CASE ~(j <= Len(a))
      <4>1. j - Len(a) \in 1 .. Len(b) /\ i + (j - Len(a)) \in 1 .. Len(s)
        BY <3>2, <2>1, <2>2, <2>3, <2>4
      <4>2. (a \o b)[j] = s[i + (j - Len(a))]
        BY <3>2, <4>1, <2>3, <2>4
      <4> QED
        BY <4>1, <4>2 DEF Elements
    <3> QED
      BY <3>1, <3>2
  <2>6. Without(s, x) = a \o b
    BY <1>1, Zenon DEF Without, i, a, b
  <2> QED
    BY <2>4, <2>5, <2>6 DEF Elements
<1>2. CASE x \notin Elements(s)
  BY <1>2 DEF Without
<1> QED
  BY <1>1, <1>2

\* Elements of a longer and of a shorter list.
LEMMA AppendElements ==
    ASSUME NEW S, NEW s \in Seq(S), NEW x \in S
    PROVE  Elements(Append(s, x)) = Elements(s) \cup {x}
<1>1. /\ Len(Append(s, x)) = Len(s) + 1 /\ Append(s, x)[Len(s) + 1] = x
      /\ \A i \in 1 .. Len(s) : Append(s, x)[i] = s[i]
  OBVIOUS
<1>2. Len(s) \in Nat /\ 1 .. Len(s) + 1 = 1 .. Len(s) \cup {Len(s) + 1}
  OBVIOUS
<1> QED
  BY <1>1, <1>2 DEF Elements

LEMMA TailElements ==
    ASSUME NEW S, NEW s \in Seq(S), s # <<>>
    PROVE  Elements(s) = {Head(s)} \cup Elements(Tail(s))
<1>1. /\ Len(s) \in Nat \ {0} /\ Head(s) = s[1] /\ Len(Tail(s)) = Len(s) - 1
      /\ \A i \in 1 .. Len(s) - 1 : Tail(s)[i] = s[i + 1]
  OBVIOUS
<1>2. Elements(s) \subseteq {Head(s)} \cup Elements(Tail(s))
  <2> SUFFICES ASSUME NEW i \in 1 .. Len(s), i # 1
               PROVE  s[i] \in Elements(Tail(s))
    BY <1>1 DEF Elements
  <2>1. i - 1 \in 1 .. Len(s) - 1 /\ (i - 1) + 1 = i
    BY <1>1
  <2>2. Tail(s)[i - 1] = s[i]
    BY <1>1, <2>1
  <2> QED
    BY <1>1, <2>1, <2>2 DEF Elements
<1>3. {Head(s)} \cup Elements(Tail(s)) \subseteq Elements(s)
  <2>1. Head(s) \in Elements(s)
    BY <1>1 DEF Elements
  <2>2. \A i \in 1 .. Len(s) - 1 : i + 1 \in 1 .. Len(s)
    BY <1>1
  <2>3. \A i \in 1 .. Len(Tail(s)) : Tail(s)[i] \in Elements(s)
    BY <1>1, <2>2 DEF Elements
  <2> QED
    BY <2>1, <2>3 DEF Elements
<1> QED
  BY <1>2, <1>3

\* Duplicates in them.
LEMMA AppendNoDuplicate ==
    ASSUME NEW S, NEW s \in Seq(S), NEW x \in S, NoDuplicate(s),
           x \notin Elements(s) \/ x = Sentinel
    PROVE  NoDuplicate(Append(s, x))
<1>1. /\ Len(s) \in Nat /\ Len(Append(s, x)) = Len(s) + 1 /\ Append(s, x)[Len(s) + 1] = x
      /\ \A i \in 1 .. Len(s) : Append(s, x)[i] = s[i]
  OBVIOUS
<1>2. ASSUME NEW i \in 1 .. Len(s) + 1, NEW j \in 1 .. Len(s) + 1,
             Append(s, x)[i] = Append(s, x)[j], Append(s, x)[i] # Sentinel
      PROVE  i = j
  <2>1. CASE i \in 1 .. Len(s) /\ j \in 1 .. Len(s)
    BY <1>1, <1>2, <2>1 DEF NoDuplicate
  <2>2. CASE i = Len(s) + 1 /\ j \in 1 .. Len(s)
    BY <1>1, <1>2, <2>2 DEF Elements
  <2>3. CASE j = Len(s) + 1 /\ i \in 1 .. Len(s)
    BY <1>1, <1>2, <2>3 DEF Elements
  <2> QED
    BY <1>1, <2>1, <2>2, <2>3
<1> QED
  BY <1>1, <1>2 DEF NoDuplicate

LEMMA TailNoDuplicate ==
    ASSUME NEW S, NEW s \in Seq(S), s # <<>>, NoDuplicate(s)
    PROVE  /\ NoDuplicate(Tail(s))
           /\ Head(s) # Sentinel => Head(s) \notin Elements(Tail(s))
<1>1. /\ Len(s) \in Nat \ {0} /\ Head(s) = s[1] /\ Len(Tail(s)) = Len(s) - 1
      /\ \A i \in 1 .. Len(s) - 1 : Tail(s)[i] = s[i + 1]
  OBVIOUS
<1>2. \A i \in 1 .. Len(s) - 1 : i + 1 \in 1 .. Len(s) /\ i + 1 # 1
  BY <1>1
<1>3. ASSUME NEW i \in 1 .. Len(s) - 1, NEW j \in 1 .. Len(s) - 1,
             Tail(s)[i] = Tail(s)[j], Tail(s)[i] # Sentinel
      PROVE  i = j
  <2>1. s[i + 1] = s[j + 1] /\ s[i + 1] # Sentinel
    BY <1>1, <1>3
  <2>2. i + 1 = j + 1
    BY <1>2, <2>1 DEF NoDuplicate
  <2> QED
    BY <2>2
<1>4. ASSUME NEW i \in 1 .. Len(s) - 1, Tail(s)[i] = Head(s), Head(s) # Sentinel
      PROVE  FALSE
  <2>1. s[i + 1] = s[1] /\ s[1] # Sentinel /\ 1 \in 1 .. Len(s)
    BY <1>1, <1>4
  <2> QED
    BY <1>2, <2>1 DEF NoDuplicate
<1> QED
  BY <1>1, <1>3, <1>4 DEF NoDuplicate, Elements

\* A wake-up takes tasks off a waiting list for good.
LEMMA RestDistinct ==
    ASSUME NEW S, NEW s \in Seq(S), NEW n \in Nat, Distinct(s)
    PROVE  /\ Distinct(Rest(s, n))
           /\ Elements(Rest(s, n)) \cap Elements(First(s, n)) = {}
<1>1. ASSUME NEW i \in 1 .. Len(Rest(s, n)), NEW j \in 1 .. Len(Rest(s, n)),
             Rest(s, n)[i] = Rest(s, n)[j]
      PROVE  i = j
  <2>1. n + i \in 1 .. Len(s) /\ n + j \in 1 .. Len(s) /\ s[n + i] = s[n + j]
    BY <1>1, RestType
  <2>2. n + i = n + j
    BY <2>1 DEF Distinct
  <2> QED
    BY <2>2, RestType
<1>2. ASSUME NEW i \in 1 .. Len(Rest(s, n)), NEW j \in 1 .. Len(First(s, n)),
             Rest(s, n)[i] = First(s, n)[j]
      PROVE  FALSE
  <2>1. /\ n + i \in 1 .. Len(s) /\ j \in 1 .. Len(s) /\ j <= n
        /\ s[n + i] = s[j]
    BY <1>2, RestType
  <2>2. n + i = j
    BY <2>1 DEF Distinct
  <2> QED
    BY <2>1, <2>2
<1> QED
  BY <1>1, <1>2 DEF Distinct, Elements

\* A task that gives up is on the list no more.
LEMMA WithoutDistinct ==
    ASSUME NEW S, NEW s \in Seq(S), NEW x, Distinct(s)
    PROVE  Distinct(Without(s, x)) /\ x \notin Elements(Without(s, x))
<1>1. CASE x \in Elements(s)
  <2> DEFINE i == CHOOSE j \in 1 .. Len(s) : s[j] = x
  <2>1. i \in 1 .. Len(s) /\ s[i] = x
    BY <1>1 DEF Elements
  <2> HIDE DEF i
  <2> DEFINE a == SubSeq(s, 1, i - 1)
             b == SubSeq(s, i + 1, Len(s))
             w == a \o b
             at_(j) == IF j < i THEN j ELSE j + 1
  <2>2. Without(s, x) = w
    BY <1>1, Zenon DEF Without, i
  <2>3. a \in Seq(S) /\ Len(a) = i - 1 /\ \A j \in 1 .. i - 1 : a[j] = s[j]
    BY <2>1
  <2>4. b \in Seq(S) /\ Len(b) = Len(s) - i /\ \A j \in 1 .. Len(s) - i : b[j] = s[i + j]
    BY <2>1
  <2> HIDE DEF a, b
  <2>5. Len(w) = Len(s) - 1
    <3>1. a \in Seq(S) /\ b \in Seq(S)
      BY <2>3, <2>4
    <3>2. Len(w) = Len(a) + Len(b)
      BY <3>1, SMTT(60)
    <3>3. Len(a) = i - 1 /\ Len(b) = Len(s) - i
      BY <2>3, <2>4
    <3> QED
      BY <2>1, <3>2, <3>3
  <2>6. \A j \in 1 .. Len(s) - 1 : w[j] = s[at_(j)]
    <3> TAKE j \in 1 .. Len(s) - 1
    <3>1. w[j] = IF j <= Len(a) THEN a[j] ELSE b[j - Len(a)]
      <4>1. Len(a) + Len(b) = Len(s) - 1
        BY <2>1, <2>3, <2>4
      <4> QED
        BY <4>1, <2>3, <2>4
    <3>2. CASE j < i
      BY <2>1, <2>3, <3>1, <3>2
    <3>3. CASE ~(j < i)
      <4>1. /\ j - (i - 1) \in 1 .. Len(s) - i
            /\ i + (j - (i - 1)) = j + 1
            /\ ~(j <= i - 1)
        BY <2>1, <3>3
      <4>2. w[j] = b[j - (i - 1)]
        BY <2>3, <3>1, <4>1
      <4> QED
        BY <2>4, <3>3, <4>1, <4>2
    <3> QED
      BY <3>2, <3>3
  <2>7. \A j \in 1 .. Len(s) - 1 : at_(j) \in 1 .. Len(s) /\ at_(j) # i
    BY <2>1
  <2>8. \A j, k \in 1 .. Len(s) - 1 : at_(j) = at_(k) => j = k
    BY <2>1
  <2> HIDE DEF w, at_
  <2>9. Distinct(w)
    <3> SUFFICES ASSUME NEW j \in 1 .. Len(s) - 1, NEW k \in 1 .. Len(s) - 1, w[j] = w[k]
                 PROVE  j = k
      BY <2>5 DEF Distinct
    <3>1. at_(j) = at_(k)
      BY <2>6, <2>7 DEF Distinct
    <3> QED
      BY <3>1, <2>8
  <2>10. x \notin Elements(w)
    BY <2>1, <2>5, <2>6, <2>7 DEF Distinct, Elements
  <2> QED
    BY <2>2, <2>9, <2>10
<1>2. CASE x \notin Elements(s)
  BY <1>2 DEF Without
<1> QED
  BY <1>1, <1>2

\* A list gets longer by somebody who is not on it; waking nobody takes nobody off.
LEMMA AppendDistinct ==
    ASSUME NEW S, NEW s \in Seq(S), NEW x \in S, Distinct(s), x \notin Elements(s)
    PROVE  Distinct(Append(s, x))
<1>1. /\ Len(s) \in Nat /\ Len(Append(s, x)) = Len(s) + 1 /\ Append(s, x)[Len(s) + 1] = x
      /\ \A i \in 1 .. Len(s) : Append(s, x)[i] = s[i]
  OBVIOUS
<1>2. ASSUME NEW i \in 1 .. Len(s) + 1, NEW j \in 1 .. Len(s) + 1,
             Append(s, x)[i] = Append(s, x)[j]
      PROVE  i = j
  <2>1. CASE i \in 1 .. Len(s) /\ j \in 1 .. Len(s)
    BY <1>1, <1>2, <2>1 DEF Distinct
  <2>2. CASE i = Len(s) + 1 /\ j \in 1 .. Len(s)
    BY <1>1, <1>2, <2>2 DEF Elements
  <2>3. CASE j = Len(s) + 1 /\ i \in 1 .. Len(s)
    BY <1>1, <1>2, <2>3 DEF Elements
  <2> QED
    BY <1>1, <2>1, <2>2, <2>3
<1> QED
  BY <1>1, <1>2 DEF Distinct

LEMMA FirstNone ==
    ASSUME NEW S, NEW s \in Seq(S), NEW n, n = 0
    PROVE  Elements(First(s, n)) = {}
<1>1. First(s, n) = SubSeq(s, 1, 0)
  BY DEF First
<1>2. Len(SubSeq(s, 1, 0)) = 0
  OBVIOUS
<1> QED
  BY <1>1, <1>2 DEF Elements

\* A recent history is a history.
LEMMA RecentType == ASSUME NEW h \in Seq(Msgs) PROVE Recent(h) \in Seq(Msgs)
<1> DEFINE n == IF Len(h) > MaxHistory THEN Len(h) - MaxHistory ELSE 0
<1>1. n \in Nat
  OBVIOUS
<1> HIDE DEF n
<1>2. SubSeq(h, n + 1, Len(h)) \in Seq(Msgs)
  BY <1>1
<1> QED
  BY <1>2 DEF Recent, n

-----------------------------------------------------------------------------
(* Types.                                                                  *)

LEMMA InitType == Init => TypeOK
<1> SUFFICES ASSUME Init PROVE TypeOK
  OBVIOUS
<1>1. RegistryType
  <2>1. running \in BOOLEAN
    BY Zenon DEF Init
  <2>2. starts \in 0 .. MaxStarts /\ sessions \in [Sids -> 0 .. MaxContexts]
        /\ contexts \in 0 .. MaxContexts /\ closed \subseteq Contexts
    BY DEF Init
  <2> QED
    BY <2>1, <2>2 DEF RegistryType
<1>2. QueuesType
  BY DEF Init, QueuesType
<1>3. PublishingType
  BY DEF Init, PublishingType
<1>4. SubscribingType /\ late \subseteq Msgs
  BY DEF Init, SubscribingType
<1> QED
  BY <1>1, <1>2, <1>3, <1>4 DEF TypeOK

\* Steps that leave a group of variables alone leave their types alone.
LEMMA SameTypes ==
    /\ RegistryType /\ UNCHANGED <<registry, closed>> => RegistryType'
    /\ QueuesType /\ UNCHANGED <<queues, counts>> => QueuesType'
    /\ PublishingType /\ UNCHANGED publishing => PublishingType'
    /\ SubscribingType /\ UNCHANGED <<subscribing, dropped>> => SubscribingType'
<1>1. RegistryType /\ UNCHANGED <<registry, closed>> => RegistryType'
  BY DEF RegistryType, registry
<1>2. QueuesType /\ UNCHANGED <<queues, counts>> => QueuesType'
  BY DEF QueuesType, queues, counts
<1>3. PublishingType /\ UNCHANGED publishing => PublishingType'
  BY DEF PublishingType, publishing
<1>4. SubscribingType /\ UNCHANGED <<subscribing, dropped>> => SubscribingType'
  BY DEF SubscribingType, subscribing
<1> QED
  BY <1>1, <1>2, <1>3, <1>4

\* The life cycle and the registry.
LEMMA RegistrySteps ==
    ASSUME TypeOK, Start \/ Stop \/ \E s \in Sids : Register(s) \/ Unregister(s)
    PROVE  TypeOK'
<1> USE DEF TypeOK
<1>1. CASE Start
  <2>1. RegistryType'
    BY <1>1 DEF Start, RegistryType
  <2> QED
    BY <1>1, <2>1, SameTypes DEF Start
<1>2. CASE Stop
  <2> DEFINE told == {c \in Contexts : Registered(c) /\ ~Full(c)}
  <2>1. \A c \in Contexts : Rest(getters[c], 1) \in Seq(Subs)
    BY RestType DEF QueuesType
  <2>2. \A c \in Contexts : Append(queue[c], Sentinel) \in Seq(Msgs \cup {Sentinel})
    BY DEF QueuesType
  <2> HIDE DEF told
  <2>3. StopWith(told)
    BY <1>2 DEF Stop, told
  <2>4. QueuesType'
    BY <2>1, <2>2, <2>3 DEF StopWith, QueuesType, counts
  <2>5. RegistryType'
    <3>1. running' \in BOOLEAN
      BY <2>3, Zenon DEF StopWith
    <3>2. sessions' \in [Sids -> 0 .. MaxContexts]
      BY <2>3 DEF StopWith
    <3>3. closed' \subseteq Contexts
      BY <2>3 DEF StopWith, RegistryType
    <3>4. starts' \in 0 .. MaxStarts /\ contexts' \in 0 .. MaxContexts
      BY <2>3 DEF StopWith, RegistryType
    <3> QED
      BY <3>1, <3>2, <3>3, <3>4 DEF RegistryType
  <2>6. PublishingType'
    BY <2>3 DEF StopWith, PublishingType
  <2>7. SubscribingType' /\ late' = late
    BY <2>3 DEF StopWith, SubscribingType
  <2> QED
    BY <2>4, <2>5, <2>6, <2>7
<1>3. ASSUME NEW s \in Sids, Register(s)
      PROVE  TypeOK'
  <2>1. RegistryType'
    BY <1>3 DEF Register, RegistryType
  <2> QED
    BY <1>3, <2>1, SameTypes DEF Register
<1>4. ASSUME NEW s \in Sids, Unregister(s)
      PROVE  TypeOK'
  <2> DEFINE c == sessions[s]
  <2>0. /\ sessions[s] # 0 /\ sessions' = [sessions EXCEPT ![s] = 0]
        /\ UNCHANGED <<running, starts, contexts, closed>>
    BY <1>4 DEF Unregister
  <2>1. c \in Contexts
    BY <2>0 DEF RegistryType
  <2> DEFINE n == Len(queue[c])
  <2>2. queue[c] \in Seq(Msgs \cup {Sentinel}) /\ putters[c] \in Seq(Pubs)
    BY <2>1 DEF QueuesType
  <2>3. n \in Nat /\ {queue[c][i] : i \in 1 .. n} \subseteq Msgs \cup {Sentinel}
    BY <2>2
  <2>4. /\ queue' = [queue EXCEPT ![c] = <<>>]
        /\ putters' = [putters EXCEPT ![c] = Rest(@, n)]
        /\ ready' = ready \o First(putters[c], n)
        /\ pub' = Woken(pub, First(putters[c], n))
        /\ dropped' = dropped \cup {queue[c][i] : i \in 1 .. n}
    BY <1>4 DEF Unregister
  <2> HIDE DEF c, n
  <2>5. First(putters[c], n) \in Seq(Pubs) /\ Rest(putters[c], n) \in Seq(Pubs)
    BY <2>2, <2>3, FirstType, RestType
  <2>6. QueuesType'
    <3>1. queue' \in [Contexts -> Seq(Msgs \cup {Sentinel})]
      BY <2>1, <2>4, SMTT(60) DEF QueuesType
    <3>2. putters' \in [Contexts -> Seq(Pubs)] /\ ready' \in Seq(Pubs)
      BY <2>1, <2>4, <2>5 DEF QueuesType
    <3> QED
      BY <1>4, <3>1, <3>2 DEF Unregister, QueuesType, counts
  <2>7. RegistryType'
    BY <2>0 DEF RegistryType
  <2>8. PublishingType'
    BY <1>4, <2>4 DEF Unregister, PublishingType, Woken
  <2>9. SubscribingType' /\ late' = late
    BY <1>4, <2>3, <2>4 DEF Unregister, SubscribingType, subscribing
  <2> QED
    BY <2>6, <2>7, <2>8, <2>9
<1> QED
  BY <1>1, <1>2, <1>3, <1>4

\* The publishers.
LEMMA PublisherSteps ==
    ASSUME TypeOK, Flying, NEW p \in Pubs,
           (\E s \in Sids : Publish(p, s)) \/ Enter(p) \/ Return(p) \/ Timeout(p)
    PROVE  TypeOK'
<1> USE DEF TypeOK
<1>1. ASSUME NEW s \in Sids, Publish(p, s)
      PROVE  TypeOK'
  <2>1. seq + 1 \in Msgs /\ seq + 1 \in 0 .. MaxMsgs
    BY <1>1 DEF Publish, PublishingType
  <2>2. history' \in Seq(Msgs)
    <3>1. Append(history, seq + 1) \in Seq(Msgs)
      BY <2>1 DEF PublishingType
    <3> QED
      BY <1>1, <3>1, RecentType DEF Publish
  <2>3. PublishingType'
    BY <1>1, <2>1, <2>2 DEF Publish, PublishingType, RegistryType
  <2>4. QueuesType'
    <3>1. CASE sessions[s] = 0
      BY <1>1, <3>1 DEF Publish, QueuesType, counts
    <3>2. CASE sessions[s] # 0
      <4>1. ready' \in Seq(Pubs)
        <5>1. ready \in Seq(Pubs)
          BY DEF QueuesType
        <5>2. ready' = Append(ready, p)
          BY <1>1, <3>2 DEF Publish
        <5> QED
          BY <5>1, <5>2
      <4> QED
        BY <1>1, <4>1 DEF Publish, QueuesType, counts
    <3> QED
      BY <3>1, <3>2
  <2> QED
    BY <1>1, <2>3, <2>4, SameTypes DEF Publish
<1>2. CASE Enter(p)
  <2> DEFINE c == to[msg[p]]
  <2>1. c \in Contexts /\ msg[p] \in Msgs /\ Put(p, c)
    BY <1>2 DEF Enter, Put, Flying, Active
  <2> HIDE DEF c
  <2>2. ready' \in Seq(Pubs)
    BY <2>1 DEF Put, Runs, QueuesType
  <2>3. /\ Append(putters[c], p) \in Seq(Pubs)
        /\ Append(queue[c], msg[p]) \in Seq(Msgs \cup {Sentinel})
    BY <2>1 DEF QueuesType
  <2>4. Rest(getters[c], 1) \in Seq(Subs)
    BY <2>1, RestType DEF QueuesType
  <2>5. QueuesType'
    <3>1. UNCHANGED <<sent, received>>
      BY <2>1 DEF Put, counts
    <3>2. CASE Full(c)
      <4>1. putters' = [putters EXCEPT ![c] = Append(putters[c], p)]
            /\ UNCHANGED <<queue, getters>>
        BY <2>1, <3>2 DEF Put
      <4> QED
        BY <2>1, <2>2, <2>3, <3>1, <4>1 DEF QueuesType
    <3>3. CASE ~Full(c)
      <4>1. /\ queue' = [queue EXCEPT ![c] = Append(queue[c], msg[p])]
            /\ getters' = [getters EXCEPT ![c] = Rest(getters[c], 1)]
            /\ UNCHANGED putters
        BY <2>1, <3>3 DEF Put
      <4> QED
        BY <2>1, <2>2, <2>3, <2>4, <3>1, <4>1 DEF QueuesType
    <3> QED
      BY <3>2, <3>3
  <2>6. PublishingType'
    BY <2>1 DEF Put, PublishingType
  <2>7. SubscribingType'
    BY <2>1 DEF Put, SubscribingType, Woken
  <2>8. late' \subseteq Msgs
    BY <2>1 DEF Put
  <2> QED
    BY <2>1, <2>5, <2>6, <2>7, <2>8, SameTypes DEF Put
<1>3. CASE Return(p)
  <2>1. to[msg[p]] \in Contexts /\ msg[p] \in Msgs
    BY <1>3 DEF Return, Flying, Active
  <2>2. QueuesType'
    <3>1. sent[to[msg[p]]] + 1 \in Nat
      <4>1. sent \in [Contexts -> Nat]
        BY DEF QueuesType
      <4> QED
        BY <2>1, <4>1
    <3>2. sent' \in [Contexts -> Nat]
      BY <1>3, <3>1 DEF Return, QueuesType
    <3> QED
      BY <1>3, <3>2 DEF Return, QueuesType, queues
  <2>3. PublishingType'
    BY <1>3, <2>1 DEF Return, PublishingType
  <2> QED
    BY <1>3, <2>2, <2>3, SameTypes DEF Return
<1>4. CASE Timeout(p)
  <2> DEFINE c == to[msg[p]]
  <2>1. c \in Contexts /\ msg[p] \in Msgs /\ GiveUp(p, c) /\ UNCHANGED sent
    BY <1>4 DEF Timeout, GiveUp, Flying, Active
  <2> HIDE DEF c
  <2> DEFINE n == IF pub[p] = "woken" /\ ~Full(c) THEN 1 ELSE 0
  <2>2. n \in Nat
    OBVIOUS
  <2>3. /\ putters' = [putters EXCEPT ![c] = Rest(Without(putters[c], p), n)]
        /\ ready' = Without(ready, p) \o First(putters[c], n)
        /\ pub' = [Woken(pub, First(putters[c], n)) EXCEPT ![p] = "idle"]
    BY <2>1 DEF GiveUp, QueuesType
  <2> HIDE DEF n
  <2>4. Without(putters[c], p) \in Seq(Pubs) /\ Without(ready, p) \in Seq(Pubs)
    BY <2>1, WithoutType DEF QueuesType
  <2>5. Rest(Without(putters[c], p), n) \in Seq(Pubs) /\ First(putters[c], n) \in Seq(Pubs)
    BY <2>1, <2>2, <2>4, RestType, FirstType DEF QueuesType
  <2>6. putters' \in [Contexts -> Seq(Pubs)] /\ ready' \in Seq(Pubs)
    BY <2>1, <2>3, <2>4, <2>5 DEF QueuesType
  <2>7. QueuesType'
    BY <2>1, <2>6 DEF GiveUp, QueuesType
  <2>8. PublishingType'
    BY <2>1, <2>3 DEF GiveUp, PublishingType, Woken
  <2> QED
    BY <2>1, <2>7, <2>8, SameTypes DEF GiveUp
<1> QED
  BY <1>1, <1>2, <1>3, <1>4

\* queue.get and what follows it.
LEMMA TakeStep ==
    ASSUME TypeOK, NEW u \in Subs, NEW c \in Contexts, Take(u, c)
    PROVE  TypeOK'
<1> USE DEF TypeOK
<1>1. /\ queue[c] \in Seq(Msgs \cup {Sentinel}) /\ queue[c] # <<>>
      /\ putters[c] \in Seq(Pubs) /\ got[c] \in Seq(Msgs)
  BY DEF Take, Get, QueuesType, SubscribingType
<1>2. /\ Tail(queue[c]) \in Seq(Msgs \cup {Sentinel})
      /\ Head(queue[c]) \in Msgs \cup {Sentinel}
  BY <1>1
<1>3. First(putters[c], 1) \in Seq(Pubs) /\ Rest(putters[c], 1) \in Seq(Pubs)
  BY <1>1, FirstType, RestType
<1>4. queue' \in [Contexts -> Seq(Msgs \cup {Sentinel})]
  BY <1>2 DEF Take, Get, QueuesType
<1>5. putters' \in [Contexts -> Seq(Pubs)] /\ ready' \in Seq(Pubs)
  BY <1>3 DEF Take, Get, QueuesType
<1>6. received' \in [Contexts -> Nat]
  <2>1. received[c] + 1 \in Nat
    BY DEF QueuesType
  <2> QED
    BY <2>1 DEF Take, Yield, QueuesType
<1>7. QueuesType'
  BY <1>4, <1>5, <1>6 DEF Take, Get, QueuesType
<1>8. PublishingType'
  BY DEF Take, Get, PublishingType, Woken
<1>9. SubscribingType'
  <2>1. CASE Head(queue[c]) # Sentinel
    <3>1. Append(got[c], Head(queue[c])) \in Seq(Msgs)
      BY <1>1, <1>2, <2>1
    <3> QED
      BY <2>1, <3>1 DEF Take, Get, Yield, SubscribingType
  <2>2. CASE Head(queue[c]) = Sentinel
    BY <2>2 DEF Take, Get, SubscribingType
  <2> QED
    BY <2>1, <2>2
<1> QED
  BY <1>7, <1>8, <1>9, SameTypes DEF Take, Get

LEMMA WaitStep ==
    ASSUME TypeOK, NEW u \in Subs, NEW c \in Contexts, Wait(u, c)
    PROVE  TypeOK'
<1> USE DEF TypeOK
<1>1. Append(getters[c], u) \in Seq(Subs)
  BY DEF QueuesType
<1>2. QueuesType'
  BY <1>1 DEF Wait, QueuesType, counts
<1>3. SubscribingType'
  BY DEF Wait, SubscribingType
<1> QED
  BY <1>2, <1>3, SameTypes DEF Wait

\* The subscribers.
LEMMA SubscriberSteps ==
    ASSUME TypeOK, Iterating, NEW u \in Subs,
           (\E s \in Sids : Subscribe(u, s)) \/ Ask(u) \/ Wake(u) \/ Leave(u)
    PROVE  TypeOK'
<1> USE DEF TypeOK
<1>1. ASSUME NEW s \in Sids, Subscribe(u, s)
      PROVE  TypeOK'
  <2>1. SubscribingType'
    BY <1>1 DEF Subscribe, SubscribingType, RegistryType
  <2> QED
    BY <1>1, <2>1, SameTypes DEF Subscribe
<1>2. CASE Ask(u)
  <2>1. at[u] \in Contexts
    BY <1>2 DEF Ask, Iterating, SubAlive
  <2>2. CASE Take(u, at[u]) \/ Wait(u, at[u])
    BY <2>1, <2>2, TakeStep, WaitStep
  <2>3. CASE /\ sub' = [sub EXCEPT ![u] = "idle"]
             /\ UNCHANGED <<registry, queues, counts, publishing, at, got, dropped,
                            closed, late>>
    <3>1. SubscribingType'
      BY <2>3 DEF SubscribingType
    <3> QED
      BY <2>3, <3>1, SameTypes
  <2> QED
    BY <1>2, <2>2, <2>3 DEF Ask
<1>3. CASE Wake(u)
  <2>1. at[u] \in Contexts
    BY <1>3 DEF Wake, Iterating, SubAlive
  <2> QED
    BY <1>3, <2>1, TakeStep, WaitStep DEF Wake
<1>4. CASE Leave(u)
  <2> DEFINE c == at[u]
  <2>1. c \in Contexts
    BY <1>4 DEF Leave, Iterating
  <2> DEFINE n == IF sub[u] = "woken" /\ queue[c] # <<>> THEN 1 ELSE 0
  <2>2. n \in Nat
    OBVIOUS
  <2>3. /\ getters' = [getters EXCEPT ![c] = Rest(Without(getters[c], u), n)]
        /\ sub' = [Woken(sub, First(getters[c], n)) EXCEPT ![u] = "idle"]
    BY <1>4 DEF Leave, QueuesType
  <2> HIDE DEF c, n
  <2>4. Without(getters[c], u) \in Seq(Subs)
    BY <2>1, WithoutType DEF QueuesType
  <2>5. Rest(Without(getters[c], u), n) \in Seq(Subs)
    BY <2>2, <2>4, RestType
  <2>6. getters' \in [Contexts -> Seq(Subs)]
    BY <2>1, <2>3, <2>5 DEF QueuesType
  <2>7. QueuesType'
    BY <1>4, <2>6 DEF Leave, QueuesType, counts
  <2>8. SubscribingType'
    BY <1>4, <2>3 DEF Leave, SubscribingType, Woken
  <2> QED
    BY <1>4, <2>7, <2>8, SameTypes DEF Leave
<1> QED
  BY <1>1, <1>2, <1>3, <1>4

-----------------------------------------------------------------------------
(* Who is woken, and what a step that wakes leaves as it is.               *)

\* Only publishers blocked on c are woken there, and they are off its list.
LEMMA WokenPublishers ==
    ASSUME TypeOK, Waiting, NEW c \in Contexts, NEW n \in Nat
    PROVE  \A p \in Pubs :
               \/ Woken(pub, First(putters[c], n))[p] = pub[p]
               \/ /\ pub[p] = "blocked" /\ to[msg[p]] = c
                  /\ Woken(pub, First(putters[c], n))[p] = "woken"
<1> TAKE p \in Pubs
<1>1. DOMAIN pub = Pubs /\ putters[c] \in Seq(Pubs)
  BY DEF TypeOK, PublishingType, QueuesType
<1>2. p \in Elements(First(putters[c], n)) => pub[p] = "blocked" /\ to[msg[p]] = c
  BY <1>1, FirstType DEF Waiting
<1> QED
  BY <1>1, <1>2 DEF Woken

\* The waiting lists after n wake-ups of context c.
LEMMA WokenWaiting ==
    ASSUME TypeOK, Waiting, NEW c \in Contexts, NEW n \in Nat,
           putters' = [putters EXCEPT ![c] = Rest(putters[c], n)],
           pub' = Woken(pub, First(putters[c], n)), UNCHANGED <<msg, to>>
    PROVE  Waiting'
<1>1. /\ putters \in [Contexts -> Seq(Pubs)] /\ putters[c] \in Seq(Pubs)
      /\ DOMAIN pub = Pubs
  BY DEF TypeOK, QueuesType, PublishingType
<1>2. ASSUME NEW d \in Contexts
      PROVE  /\ Distinct(putters'[d])
             /\ \A p \in Elements(putters'[d]) : pub'[p] = "blocked" /\ to[msg[p]] = d
  <2>1. CASE d = c
    <3>1. /\ putters'[d] = Rest(putters[c], n)
          /\ Distinct(putters[c])
          /\ \A p \in Elements(putters[c]) : p \in Pubs /\ pub[p] = "blocked" /\ to[msg[p]] = c
      BY <1>1, <2>1 DEF Waiting, Elements
    <3>2. /\ Distinct(Rest(putters[c], n))
          /\ Elements(Rest(putters[c], n)) \subseteq Elements(putters[c])
          /\ Elements(Rest(putters[c], n)) \cap Elements(First(putters[c], n)) = {}
      BY <1>1, <3>1, RestType, RestDistinct
    <3> QED
      BY <1>1, <2>1, <3>1, <3>2 DEF Woken
  <2>2. CASE d # c
    <3>1. /\ putters'[d] = putters[d] /\ putters[d] \in Seq(Pubs)
          /\ \A p \in Elements(putters[d]) : p \in Pubs /\ pub[p] = "blocked" /\ to[msg[p]] = d
      BY <1>1, <2>2 DEF Waiting, Elements
    <3>2. \A p \in Elements(putters[d]) : p \notin Elements(First(putters[c], n))
      BY <1>1, <2>2, <3>1, FirstType DEF Waiting
    <3> QED
      BY <1>1, <2>2, <3>1, <3>2 DEF Woken, Waiting
  <2> QED
    BY <2>1, <2>2
<1> QED
  BY <1>2 DEF Waiting

-----------------------------------------------------------------------------
(* Steps that leave a part of the invariant alone.                         *)

Staying == {"ready", "blocked", "woken"}

\* Publishers and their messages.
LEMMA SameFlying ==
    ASSUME TypeOK, Flying, UNCHANGED <<seq, msg, to, result>>,
           contexts' \in Nat, contexts <= contexts',
           \A p \in Pubs : pub'[p] # "idle" => pub[p] # "idle"
    PROVE  Flying'
<1>1. \A p \in Pubs : Active(p)' => Active(p)
  BY DEF Active
<1>2. contexts \in Nat
  BY DEF TypeOK, RegistryType
<1> HIDE DEF Active
<1>3. (\A p \in Pubs : Active(p) =>
           /\ msg[p] \in 1 .. seq /\ msg[p] \in Msgs
           /\ to[msg[p]] \in 1 .. contexts /\ to[msg[p]] \in Contexts
           /\ result[msg[p]] = "none")'
  BY <1>1, <1>2 DEF Flying
<1>4. (\A p, q \in Pubs : Active(p) /\ Active(q) /\ msg[p] = msg[q] => p = q)'
  BY <1>1 DEF Flying
<1>5. (\A m \in Msgs : m > seq => result[m] = "none")'
  BY DEF Flying
<1> QED
  BY <1>3, <1>4, <1>5 DEF Flying

\* Where messages are.
LEMMA SameFates ==
    ASSUME Fates, UNCHANGED <<seq, msg, to, result, dropped>>,
           \A c \in Contexts, m \in Msgs : m \in Kept(c)' <=> m \in Kept(c),
           \A p \in Pubs : \/ pub'[p] = pub[p] \/ pub'[p] = "idle"
                           \/ pub[p] \in Staying /\ pub'[p] \in Staying,
           TypeOK, Flying
    PROVE  Fates'
<1>1. \A p \in Pubs : pub[p] \in Staying \cup {"put"} =>
          msg[p] \in Msgs /\ to[msg[p]] \in Contexts
  BY DEF Flying, Active, Staying
<1> HIDE DEF Kept
<1>2. (\A m \in Msgs, c \in Contexts : m \in Kept(c) =>
           c = to[m] /\ m <= seq /\ result[m] # "false" /\ m \notin dropped)'
  BY DEF Fates
<1>3. (\A m \in Msgs : m \in dropped => m <= seq /\ result[m] # "false")'
  BY DEF Fates
<1>4. (\A p \in Pubs : pub[p] \in {"ready", "blocked", "woken"} =>
           msg[p] \notin dropped /\ \A c \in Contexts : msg[p] \notin Kept(c))'
  BY <1>1 DEF Fates, Staying
<1>5. (\A p \in Pubs : pub[p] = "put" => msg[p] \in Kept(to[msg[p]]) \cup dropped)'
  BY <1>1 DEF Fates, Staying
<1>6. (\A m \in Msgs : result[m] = "true" /\ to[m] # 0 => m \in Kept(to[m]) \cup dropped)'
  BY DEF Fates, TypeOK, PublishingType
<1> QED
  BY <1>2, <1>3, <1>4, <1>5, <1>6 DEF Fates

\* A publish() that ends leaves its message to nobody.
LEMMA LandingFlying ==
    ASSUME TypeOK, Flying, NEW p \in Pubs, NEW x, pub[p] # "idle",
           UNCHANGED <<contexts, seq, msg, to>>,
           result' = [result EXCEPT ![msg[p]] = x], pub'[p] = "idle",
           \A q \in Pubs : pub'[q] # "idle" => pub[q] # "idle"
    PROVE  Flying'
<1>1. \A q \in Pubs : Active(q)' => Active(q) /\ q # p
  BY DEF Active
<1>2. Active(p)
  BY DEF Active
<1>3. result \in [Msgs -> {"none", "true", "false"}] /\ seq \in Nat
  BY DEF TypeOK, PublishingType
<1> HIDE DEF Active
<1>4. msg[p] \in 1 .. seq /\ \A q \in Pubs : Active(q)' => msg[q] # msg[p]
  BY <1>1, <1>2 DEF Flying
<1>5. (\A q \in Pubs : Active(q) =>
           /\ msg[q] \in 1 .. seq /\ msg[q] \in Msgs
           /\ to[msg[q]] \in 1 .. contexts /\ to[msg[q]] \in Contexts
           /\ result[msg[q]] = "none")'
  BY <1>1, <1>3, <1>4 DEF Flying
<1>6. (\A q, r \in Pubs : Active(q) /\ Active(r) /\ msg[q] = msg[r] => q = r)'
  BY <1>1 DEF Flying
<1>7. (\A m \in Msgs : m > seq => result[m] = "none")'
  BY <1>3, <1>4 DEF Flying
<1> QED
  BY <1>5, <1>6, <1>7 DEF Flying

-----------------------------------------------------------------------------
(* Every step.                                                             *)

\* The loop's end in a subscriber that finds the gateway stopped.
Break(u) ==
    /\ sub' = [sub EXCEPT ![u] = "idle"]
    /\ UNCHANGED <<registry, queues, counts, publishing, at, got, dropped, closed, late>>

LEMMA Steps ==
    ASSUME Next, Iterating
    PROVE  \/ Start \/ Stop
           \/ \E s \in Sids : Register(s) \/ Unregister(s)
           \/ \E p \in Pubs, s \in Sids : Publish(p, s)
           \/ \E p \in Pubs : Enter(p) \/ Return(p) \/ Timeout(p)
           \/ \E u \in Subs, s \in Sids : Subscribe(u, s)
           \/ \E u \in Subs : Break(u) \/ Leave(u)
           \/ \E u \in Subs, c \in Contexts : at[u] = c /\ (Take(u, c) \/ Wait(u, c))
<1>1. ASSUME NEW u \in Subs, Ask(u) \/ Wake(u)
      PROVE  Break(u) \/ \E c \in Contexts : at[u] = c /\ (Take(u, c) \/ Wait(u, c))
  <2>1. at[u] \in Contexts
    BY <1>1 DEF Ask, Wake, Iterating, SubAlive
  <2> QED
    BY <1>1, <2>1 DEF Ask, Wake, Break
<1> QED
  BY <1>1 DEF Next

LEMMA FlyingStep ==
    ASSUME TypeOK, Flying, Iterating, Waiting, Naming, Next
    PROVE  Flying'
<1> USE DEF TypeOK
<1>0. contexts \in Nat /\ contexts <= contexts /\ contexts <= contexts + 1
  BY DEF RegistryType
<1>1. CASE Start
  BY <1>0, <1>1, SameFlying DEF Start, registry, publishing
<1>2. CASE Stop
  BY <1>0, <1>2, SameFlying DEF Stop, StopWith
<1>3. ASSUME NEW s \in Sids, Register(s)
      PROVE  Flying'
  BY <1>0, <1>3, SameFlying DEF Register, publishing
<1>4. ASSUME NEW s \in Sids, Unregister(s)
      PROVE  Flying'
  <2>1. sessions[s] \in Contexts
    BY <1>4 DEF Unregister, RegistryType
  <2>2. Len(queue[sessions[s]]) \in Nat
    BY <2>1 DEF QueuesType
  <2>3. \A p \in Pubs : pub'[p] # "idle" => pub[p] # "idle"
    BY <1>4, <2>1, <2>2, WokenPublishers, SMTT(60) DEF Unregister
  <2> QED
    BY <1>0, <1>4, <2>3, SameFlying DEF Unregister
<1>5. ASSUME NEW p \in Pubs, NEW s \in Sids, Publish(p, s)
      PROVE  Flying'
  <2>1. /\ seq + 1 \in Msgs /\ seq \in Nat /\ seq' = seq + 1 /\ contexts' = contexts
        /\ to' = [to EXCEPT ![seq + 1] = sessions[s]]
    BY <1>5 DEF Publish, PublishingType, registry
  <2>2. \A q \in Pubs : Active(q) => msg[q] # seq + 1 /\ to'[msg[q]] = to[msg[q]]
    BY <2>1 DEF Flying, PublishingType
  <2>3. CASE sessions[s] = 0
    <3>1. UNCHANGED <<pub, msg>> /\ result' = [result EXCEPT ![seq + 1] = "true"]
      BY <1>5, <2>3 DEF Publish
    <3>2. \A q \in Pubs : Active(q)' <=> Active(q)
      BY <3>1 DEF Active
    <3> HIDE DEF Active
    <3>3. (\A q \in Pubs : Active(q) =>
               /\ msg[q] \in 1 .. seq /\ msg[q] \in Msgs
               /\ to[msg[q]] \in 1 .. contexts /\ to[msg[q]] \in Contexts
               /\ result[msg[q]] = "none")'
      BY <2>1, <2>2, <3>1, <3>2 DEF Flying, PublishingType
    <3>4. (\A q, r \in Pubs : Active(q) /\ Active(r) /\ msg[q] = msg[r] => q = r)'
      BY <3>1, <3>2 DEF Flying
    <3>5. (\A m \in Msgs : m > seq => result[m] = "none")'
      BY <2>1, <3>1 DEF Flying, PublishingType
    <3> QED
      BY <3>3, <3>4, <3>5 DEF Flying
  <2>4. CASE sessions[s] # 0
    <3>1. /\ msg' = [msg EXCEPT ![p] = seq + 1] /\ result' = result
          /\ pub' = [pub EXCEPT ![p] = "ready"]
          /\ sessions[s] \in Contexts /\ sessions[s] \in 1 .. contexts
      BY <1>5, <2>4 DEF Publish, RegistryType, Naming
    <3>2. \A q \in Pubs : q # p => (Active(q)' <=> Active(q)) /\ msg'[q] = msg[q]
      BY <3>1 DEF Active, PublishingType
    <3>3. msg'[p] = seq + 1 /\ to'[seq + 1] = sessions[s] /\ result[seq + 1] = "none"
      BY <2>1, <3>1 DEF Flying, PublishingType
    <3> HIDE DEF Active
    <3>4. (\A q \in Pubs : Active(q) =>
               /\ msg[q] \in 1 .. seq /\ msg[q] \in Msgs
               /\ to[msg[q]] \in 1 .. contexts /\ to[msg[q]] \in Contexts
               /\ result[msg[q]] = "none")'
      <4> SUFFICES ASSUME NEW q \in Pubs, Active(q)'
                   PROVE  (/\ msg[q] \in 1 .. seq /\ msg[q] \in Msgs
                           /\ to[msg[q]] \in 1 .. contexts /\ to[msg[q]] \in Contexts
                           /\ result[msg[q]] = "none")'
        OBVIOUS
      <4>1. CASE q = p
        BY <2>1, <3>1, <3>3, <4>1
      <4>2. CASE q # p
        BY <2>1, <2>2, <3>1, <3>2, <4>2 DEF Flying
      <4> QED
        BY <4>1, <4>2
    <3>5. (\A q, r \in Pubs : Active(q) /\ Active(r) /\ msg[q] = msg[r] => q = r)'
      BY <2>2, <3>2, <3>3 DEF Flying
    <3>6. (\A m \in Msgs : m > seq => result[m] = "none")'
      BY <2>1, <3>1 DEF Flying, PublishingType
    <3> QED
      BY <3>4, <3>5, <3>6 DEF Flying
  <2> QED
    BY <2>3, <2>4
<1>6. ASSUME NEW p \in Pubs, Enter(p)
      PROVE  Flying'
  BY <1>0, <1>6, SameFlying DEF Enter, Put, registry, PublishingType
<1>7. ASSUME NEW p \in Pubs, Return(p)
      PROVE  Flying'
  BY <1>7, LandingFlying DEF Return, registry, PublishingType
<1>8. ASSUME NEW p \in Pubs, Timeout(p)
      PROVE  Flying'
  <2>1. /\ to[msg[p]] \in Contexts /\ pub[p] # "idle" /\ GiveUp(p, to[msg[p]])
    BY <1>8 DEF Timeout, GiveUp, Flying, Active
  <2> DEFINE n == IF pub[p] = "woken" /\ ~Full(to[msg[p]]) THEN 1 ELSE 0
             w == Woken(pub, First(putters[to[msg[p]]], n))
  <2>2. n \in Nat
    OBVIOUS
  <2>3. /\ pub' = [w EXCEPT ![p] = "idle"] /\ UNCHANGED <<contexts, seq, msg, to>>
        /\ result' = [result EXCEPT ![msg[p]] = "false"]
    BY <2>1 DEF GiveUp, registry
  <2> HIDE DEF n
  <2>4. \A q \in Pubs : w[q] # "idle" => pub[q] # "idle"
    BY <2>1, <2>2, WokenPublishers
  <2>5. DOMAIN w = Pubs
    BY DEF Woken, PublishingType
  <2> HIDE DEF w
  <2> QED
    BY <2>1, <2>3, <2>4, <2>5, LandingFlying
<1>9. ASSUME NEW u \in Subs, NEW s \in Sids, Subscribe(u, s)
      PROVE  Flying'
  BY <1>0, <1>9, SameFlying DEF Subscribe, registry, publishing
<1>10. ASSUME NEW u \in Subs, Break(u) \/ Leave(u)
       PROVE  Flying'
  <2>1. UNCHANGED <<contexts, pub, seq, msg, to, result>>
    BY <1>10 DEF Break, Leave, registry, publishing
  <2> QED
    BY <1>0, <2>1, SameFlying
<1>11. ASSUME NEW u \in Subs, NEW c \in Contexts, Take(u, c)
       PROVE  Flying'
  <2>1. pub' = Woken(pub, First(putters[c], 1))
    BY <1>11 DEF Take, Get
  <2>2. \A p \in Pubs : pub'[p] # "idle" => pub[p] # "idle"
    BY <2>1, WokenPublishers
  <2>3. UNCHANGED <<contexts, seq, msg, to, result>>
    BY <1>11 DEF Take, Get, registry
  <2> QED
    BY <1>0, <2>2, <2>3, SameFlying
<1>12. ASSUME NEW u \in Subs, NEW c \in Contexts, Wait(u, c)
       PROVE  Flying'
  BY <1>0, <1>12, SameFlying DEF Wait, registry, publishing
<1> HIDE DEF TypeOK
<1> QED
  BY <1>1, <1>2, <1>3, <1>4, <1>5, <1>6, <1>7, <1>8, <1>9, <1>10, <1>11, <1>12, Steps

\* Waking n subscribers of a context.
LEMMA WokenSubscribers ==
    ASSUME TypeOK, Iterating, NEW c \in Contexts, NEW n \in Nat
    PROVE  /\ \A v \in Subs : Woken(sub, First(getters[c], n))[v] # sub[v] =>
                  v \in Elements(getters[c])
           /\ Elements(Rest(getters[c], n)) \subseteq Elements(getters[c])
<1>1. getters[c] \in Seq(Subs) /\ DOMAIN sub = Subs
  BY DEF TypeOK, QueuesType, SubscribingType
<1> QED
  BY <1>1, FirstType, RestType DEF Woken

LEMMA IteratingStep == ASSUME TypeOK, Flying, Iterating, Next PROVE Iterating'
<1>1. CASE Start
  BY <1>1 DEF Start, Iterating, SubAlive, queues, subscribing
<1>2. CASE Stop
  <2> DEFINE told == {c \in Contexts : Registered(c) /\ ~Full(c)}
  <2>1. StopWith(told)
    BY <1>2 DEF Stop
  <2> HIDE DEF told
  <2>2. /\ getters \in [Contexts -> Seq(Subs)] /\ at' = at
        /\ sub \in [Subs -> {"idle", "loop", "waiting", "woken"}]
    BY <2>1 DEF StopWith, TypeOK, QueuesType, SubscribingType
  <2>3. \A c \in Contexts : /\ Elements(First(getters[c], 1)) \subseteq Elements(getters[c])
                            /\ Elements(Rest(getters[c], 1)) \subseteq Elements(getters[c])
    BY <2>2, FirstType, RestType
  <2>4. \A d \in Contexts : Elements(getters'[d]) \subseteq Elements(getters[d])
    BY <2>1, <2>3 DEF StopWith
  <2>5. ASSUME NEW v \in Subs, SubAlive(v)'
        PROVE  at[v] \in Contexts
    <3>1. CASE \E c \in told : v \in Elements(First(getters[c], 1))
      BY <2>3, <3>1 DEF Iterating, told
    <3>2. CASE ~\E c \in told : v \in Elements(First(getters[c], 1))
      <4>1. sub'[v] = sub[v]
        BY <2>1, <3>2 DEF StopWith
      <4> QED
        BY <2>5, <4>1 DEF Iterating, SubAlive
    <3> QED
      BY <3>1, <3>2
  <2> QED
    BY <2>2, <2>4, <2>5 DEF Iterating
<1>3. ASSUME NEW s \in Sids, Register(s) \/ Unregister(s)
      PROVE  Iterating'
  BY <1>3 DEF Register, Unregister, Iterating, SubAlive, queues, subscribing
<1>4. ASSUME NEW p \in Pubs, NEW s \in Sids, Publish(p, s)
      PROVE  Iterating'
  BY <1>4 DEF Publish, Iterating, SubAlive, subscribing
<1>5. ASSUME NEW p \in Pubs, Enter(p)
      PROVE  Iterating'
  <2> DEFINE c == to[msg[p]]
  <2>1. c \in Contexts /\ Put(p, c) /\ at' = at
    BY <1>5 DEF Enter, Put, Flying, Active
  <2>2. CASE Full(c)
    BY <2>1, <2>2 DEF Put, Iterating, SubAlive
  <2>3. CASE ~Full(c)
    <3>1. /\ getters' = [getters EXCEPT ![c] = Rest(getters[c], 1)]
          /\ sub' = Woken(sub, First(getters[c], 1))
          /\ getters \in [Contexts -> Seq(Subs)]
      BY <2>1, <2>3 DEF Put, TypeOK, QueuesType
    <3>2. \A v \in Subs : sub'[v] # sub[v] => at[v] \in Contexts
      BY <2>1, <3>1, WokenSubscribers DEF Iterating
    <3>3. \A d \in Contexts : Elements(getters'[d]) \subseteq Elements(getters[d])
      BY <2>1, <3>1, WokenSubscribers
    <3> QED
      BY <2>1, <3>2, <3>3 DEF Iterating, SubAlive
  <2> QED
    BY <2>2, <2>3
<1>6. ASSUME NEW p \in Pubs, Return(p) \/ Timeout(p)
      PROVE  Iterating'
  BY <1>6 DEF Return, Timeout, GiveUp, Iterating, SubAlive, queues, subscribing
<1>7. ASSUME NEW u \in Subs, NEW s \in Sids, Subscribe(u, s)
      PROVE  Iterating'
  <2>1. /\ sessions[s] \in Contexts /\ getters' = getters
        /\ \A v \in Subs : at'[v] = IF v = u THEN sessions[s] ELSE at[v]
        /\ \A v \in Subs : v # u => sub'[v] = sub[v]
    BY <1>7 DEF Subscribe, queues, TypeOK, RegistryType, SubscribingType
  <2>2. \A d \in Contexts : \A v \in Elements(getters[d]) : v \in Subs
    BY DEF Elements, TypeOK, QueuesType
  <2> QED
    BY <2>1, <2>2 DEF Iterating, SubAlive
<1>8. ASSUME NEW u \in Subs, Break(u)
      PROVE  Iterating'
  BY <1>8 DEF Break, Iterating, SubAlive, queues, TypeOK, SubscribingType
<1>9. ASSUME NEW u \in Subs, Leave(u)
      PROVE  Iterating'
  <2> DEFINE c == at[u]
             n == IF sub[u] = "woken" /\ queue[c] # <<>> THEN 1 ELSE 0
             w == Woken(sub, First(getters[c], n))
  <2>1. c \in Contexts /\ at' = at /\ n \in Nat
    BY <1>9 DEF Leave, Iterating
  <2>2. /\ getters' = [getters EXCEPT ![c] = Rest(Without(getters[c], u), n)]
        /\ sub' = [w EXCEPT ![u] = "idle"]
        /\ getters \in [Contexts -> Seq(Subs)] /\ DOMAIN w = Subs
    BY <1>9 DEF Leave, TypeOK, QueuesType, SubscribingType, Woken
  <2> HIDE DEF c, n
  <2>3. \A v \in Subs : w[v] # sub[v] => at[v] \in Contexts
    BY <2>1, WokenSubscribers DEF Iterating
  <2> HIDE DEF w
  <2>4. Without(getters[c], u) \in Seq(Subs)
        /\ Elements(Without(getters[c], u)) \subseteq Elements(getters[c])
    BY <2>1, <2>2, WithoutType
  <2>5. Elements(Rest(Without(getters[c], u), n)) \subseteq Elements(getters[c])
    BY <2>1, <2>4, RestType
  <2>6. \A d \in Contexts : Elements(getters'[d]) \subseteq Elements(getters[d])
    BY <2>1, <2>2, <2>5
  <2>7. \A v \in Subs : sub'[v] = IF v = u THEN "idle" ELSE w[v]
    BY <2>2
  <2> QED
    BY <2>1, <2>3, <2>6, <2>7 DEF Iterating, SubAlive
<1>10. ASSUME NEW u \in Subs, NEW c \in Contexts, at[u] = c, Take(u, c)
       PROVE  Iterating'
  <2>1. /\ getters' = getters /\ at' = at
        /\ \A v \in Subs : v # u => sub'[v] = sub[v]
    BY <1>10 DEF Take, Get, Yield, TypeOK, SubscribingType
  <2> QED
    BY <1>10, <2>1 DEF Iterating, SubAlive
<1>11. ASSUME NEW u \in Subs, NEW c \in Contexts, at[u] = c, Wait(u, c)
       PROVE  Iterating'
  <2>1. /\ getters' = [getters EXCEPT ![c] = Append(getters[c], u)] /\ at' = at
        /\ getters \in [Contexts -> Seq(Subs)]
        /\ \A v \in Subs : v # u => sub'[v] = sub[v]
    BY <1>11 DEF Wait, TypeOK, QueuesType, SubscribingType
  <2>2. Elements(Append(getters[c], u)) = Elements(getters[c]) \cup {u}
    BY <2>1, AppendElements
  <2>3. \A d \in Contexts : Elements(getters'[d]) \subseteq Elements(getters[d]) \cup {u}
    BY <2>1, <2>2
  <2> QED
    BY <1>11, <2>1, <2>3 DEF Iterating, SubAlive
<1> QED
  BY <1>1, <1>2, <1>3, <1>4, <1>5, <1>6, <1>7, <1>8, <1>9, <1>10, <1>11, Steps

\* Who is on a waiting list.
LEMMA Blocked ==
    ASSUME TypeOK, Waiting, NEW c \in Contexts
    PROVE  \A q \in Elements(putters[c]) :
               q \in Pubs /\ pub[q] = "blocked" /\ to[msg[q]] = c
<1>1. putters[c] \in Seq(Pubs)
  BY DEF TypeOK, QueuesType
<1>2. \A q \in Elements(putters[c]) : q \in Pubs
  BY <1>1 DEF Elements
<1> QED
  BY <1>2 DEF Waiting

\* Waiting lists and those on them stay as they are.
LEMMA SameWaiting ==
    ASSUME Waiting, UNCHANGED <<putters, pub, msg, to>>
    PROVE  Waiting'
BY DEF Waiting

\* A publisher on no waiting list does something else.
LEMMA OtherWaiting ==
    ASSUME TypeOK, Waiting, NEW p \in Pubs, pub[p] # "blocked",
           putters' = putters,
           \A q \in Pubs : q # p => pub'[q] = pub[q] /\ to'[msg'[q]] = to[msg[q]]
    PROVE  Waiting'
<1>1. ASSUME NEW c \in Contexts
      PROVE  /\ Distinct(putters'[c])
             /\ \A q \in Elements(putters'[c]) : pub'[q] = "blocked" /\ to'[msg'[q]] = c
  <2>1. /\ putters'[c] = putters[c] /\ Distinct(putters[c])
        /\ \A q \in Elements(putters[c]) : pub[q] = "blocked" /\ to[msg[q]] = c
    BY DEF Waiting
  <2>2. \A q \in Elements(putters[c]) : q \in Pubs /\ q # p
    BY <2>1, Blocked
  <2> QED
    BY <2>1, <2>2
<1> QED
  BY <1>1 DEF Waiting

LEMMA WaitingStep ==
    ASSUME TypeOK, Flying, Iterating, Waiting, Next
    PROVE  Waiting'
<1>1. CASE Start \/ Stop
  BY <1>1, SameWaiting DEF Start, Stop, StopWith, queues, publishing
<1>2. ASSUME NEW s \in Sids, Register(s)
      PROVE  Waiting'
  BY <1>2, SameWaiting DEF Register, queues, publishing
<1>3. ASSUME NEW s \in Sids, Unregister(s)
      PROVE  Waiting'
  <2>1. sessions[s] \in Contexts /\ putters \in [Contexts -> Seq(Pubs)]
    BY <1>3, SMTT(60) DEF Unregister, TypeOK, RegistryType, QueuesType
  <2>2. Len(queue[sessions[s]]) \in Nat
    BY <2>1 DEF TypeOK, QueuesType
  <2> DEFINE n == Len(queue[sessions[s]])
  <2>3. /\ putters' = [putters EXCEPT ![sessions[s]] = Rest(putters[sessions[s]], n)]
        /\ pub' = Woken(pub, First(putters[sessions[s]], n)) /\ UNCHANGED <<msg, to>>
    BY <1>3, <2>1 DEF Unregister
  <2> QED
    BY <2>1, <2>2, <2>3, WokenWaiting
<1>4. ASSUME NEW p \in Pubs, NEW s \in Sids, Publish(p, s)
      PROVE  Waiting'
  <2>1. /\ pub[p] = "idle" /\ putters' = putters
        /\ pub \in [Pubs -> {"idle", "ready", "blocked", "woken", "put"}]
        /\ to \in [Msgs -> 0 .. MaxContexts] /\ seq \in Nat
        /\ to' = [to EXCEPT ![seq + 1] = sessions[s]]
    BY <1>4 DEF Publish, TypeOK, PublishingType
  <2>2. \A q \in Pubs : q # p => pub'[q] = pub[q] /\ msg'[q] = msg[q]
    <3>1. CASE sessions[s] = 0
      BY <1>4, <3>1 DEF Publish
    <3>2. CASE sessions[s] # 0
      <4>1. pub' = [pub EXCEPT ![p] = "ready"] /\ msg' = [msg EXCEPT ![p] = seq + 1]
        BY <1>4, <3>2 DEF Publish
      <4> QED
        BY <4>1 DEF TypeOK, PublishingType
    <3> QED
      BY <3>1, <3>2
  <2>3. \A c \in Contexts : \A q \in Elements(putters[c]) :
            q \in Pubs /\ q # p /\ Active(q)
    BY <2>1, Blocked DEF Active
  <2>4. \A q \in Pubs : Active(q) => to'[msg[q]] = to[msg[q]]
    BY <2>1 DEF Flying
  <2> QED
    BY <2>1, <2>2, <2>3, <2>4, SMTT(60) DEF Waiting
<1>5. ASSUME NEW p \in Pubs, Enter(p)
      PROVE  Waiting'
  <2> DEFINE c == to[msg[p]]
  <2>1. c \in Contexts /\ Put(p, c) /\ pub[p] # "blocked"
    BY <1>5 DEF Enter, Put, Flying, Active
  <2>2. /\ UNCHANGED <<msg, to>> /\ putters \in [Contexts -> Seq(Pubs)]
        /\ pub \in [Pubs -> {"idle", "ready", "blocked", "woken", "put"}]
    BY <2>1 DEF Put, TypeOK, PublishingType, QueuesType
  <2>3. CASE ~Full(c)
    <3>1. putters' = putters /\ \A q \in Pubs : q # p => pub'[q] = pub[q]
      BY <2>1, <2>2, <2>3 DEF Put
    <3> QED
      BY <2>1, <2>2, <3>1, OtherWaiting
  <2>4. CASE Full(c)
    <3>1. /\ putters' = [putters EXCEPT ![c] = Append(putters[c], p)]
          /\ pub' = [pub EXCEPT ![p] = "blocked"]
      BY <2>1, <2>2, <2>4 DEF Put
    <3>2. \A d \in Contexts : \A q \in Elements(putters[d]) :
              q \in Pubs /\ q # p /\ pub[q] = "blocked" /\ to[msg[q]] = d
      BY <2>1, <2>2 DEF Waiting, Elements
    <3>3. Elements(Append(putters[c], p)) = Elements(putters[c]) \cup {p}
      BY <2>1, <2>2, AppendElements
    <3>4. Distinct(Append(putters[c], p))
      BY <2>1, <2>2, <3>2, AppendDistinct DEF Waiting
    <3>5. ASSUME NEW d \in Contexts
          PROVE  /\ Distinct(putters'[d])
                 /\ \A q \in Elements(putters'[d]) : pub'[q] = "blocked" /\ to[msg[q]] = d
      <4>1. CASE d = c
        BY <2>1, <2>2, <3>1, <3>2, <3>3, <3>4, <4>1
      <4>2. CASE d # c
        BY <2>1, <2>2, <3>1, <3>2, <4>2 DEF Waiting
      <4> QED
        BY <4>1, <4>2
    <3> QED
      BY <2>2, <3>5 DEF Waiting
  <2> QED
    BY <2>3, <2>4
<1>6. ASSUME NEW p \in Pubs, Return(p)
      PROVE  Waiting'
  BY <1>6, OtherWaiting DEF Return, queues, TypeOK, PublishingType
<1>7. ASSUME NEW p \in Pubs, Timeout(p)
      PROVE  Waiting'
  <2> DEFINE c == to[msg[p]]
             n == IF pub[p] = "woken" /\ ~Full(c) THEN 1 ELSE 0
             w == First(putters[c], n)
             l == Without(putters[c], p)
  <2>1. c \in Contexts /\ GiveUp(p, c)
    BY <1>7 DEF Timeout, GiveUp, Flying, Active
  <2>2. /\ n \in Nat /\ putters \in [Contexts -> Seq(Pubs)] /\ UNCHANGED <<msg, to>>
        /\ pub \in [Pubs -> {"idle", "ready", "blocked", "woken", "put"}]
    BY <2>1 DEF GiveUp, TypeOK, QueuesType, PublishingType
  <2>3. /\ putters' = [putters EXCEPT ![c] = Rest(l, n)]
        /\ pub' = [Woken(pub, w) EXCEPT ![p] = "idle"]
    BY <2>1, <2>2 DEF GiveUp
  <2>4. \A q \in Pubs : q # p => pub'[q] = IF q \in Elements(w) THEN "woken" ELSE pub[q]
    BY <2>2, <2>3 DEF Woken
  <2>5. pub[p] \in {"blocked", "woken"} /\ (pub[p] = "blocked" => n = 0)
    BY <2>1 DEF GiveUp
  <2> HIDE DEF c, n
  <2>6. n = 0 => Elements(w) = {}
    BY <2>1, <2>2, FirstNone
  <2>7. /\ Distinct(l) /\ l \in Seq(Pubs)
        /\ p \notin Elements(l) /\ Elements(l) \subseteq Elements(putters[c])
    BY <2>1, <2>2, WithoutType, WithoutDistinct DEF Waiting
  <2>8. \A d \in Contexts : \A q \in Elements(putters[d]) :
            q \in Pubs /\ pub[q] = "blocked" /\ to[msg[q]] = d
    BY <2>2 DEF Waiting, Elements
  <2>9. pub[p] = "woken" => l = putters[c]
    BY <2>1, <2>8 DEF Without
  <2>10. Distinct(Rest(l, n)) /\ Elements(Rest(l, n)) \subseteq Elements(l)
         /\ Elements(Rest(l, n)) \cap Elements(w) = {}
    <3>1. Distinct(Rest(l, n)) /\ Elements(Rest(l, n)) \cap Elements(First(l, n)) = {}
      BY <2>2, <2>7, RestDistinct
    <3>2. Elements(Rest(l, n)) \subseteq Elements(l)
      BY <2>2, <2>7, RestType
    <3>3. Elements(w) \subseteq Elements(First(l, n))
      BY <2>5, <2>6, <2>9
    <3> QED
      BY <3>1, <3>2, <3>3
  <2>11. Elements(w) \subseteq Elements(putters[c])
    BY <2>1, <2>2, FirstType
  <2> HIDE DEF w, l
  <2>12. ASSUME NEW d \in Contexts
         PROVE  /\ Distinct(putters'[d])
                /\ \A q \in Elements(putters'[d]) : pub'[q] = "blocked" /\ to[msg[q]] = d
    <3>1. CASE d = c
      BY <2>1, <2>2, <2>3, <2>4, <2>7, <2>8, <2>10, <3>1
    <3>2. CASE d # c
      <4>1. putters'[d] = putters[d] /\ Distinct(putters[d])
        BY <2>2, <2>3, <3>2 DEF Waiting
      <4>2. \A q \in Elements(putters[d]) : q # p /\ q \notin Elements(w)
        BY <2>1, <2>8, <2>11, <3>2 DEF c
      <4> QED
        BY <2>4, <2>8, <4>1, <4>2
    <3> QED
      BY <3>1, <3>2
  <2> QED
    BY <2>2, <2>12 DEF Waiting
<1>8. ASSUME NEW u \in Subs, NEW s \in Sids, Subscribe(u, s)
      PROVE  Waiting'
  BY <1>8, SameWaiting DEF Subscribe, queues, publishing
<1>9. ASSUME NEW u \in Subs, Break(u) \/ Leave(u)
      PROVE  Waiting'
  <2>1. UNCHANGED <<putters, pub, msg, to>>
    BY <1>9 DEF Break, Leave, queues, publishing
  <2> QED
    BY <2>1, SameWaiting
<1>10. ASSUME NEW u \in Subs, NEW c \in Contexts, Take(u, c)
       PROVE  Waiting'
  <2>1. /\ putters' = [putters EXCEPT ![c] = Rest(putters[c], 1)]
        /\ pub' = Woken(pub, First(putters[c], 1)) /\ UNCHANGED <<msg, to>>
    BY <1>10 DEF Take, Get, TypeOK, QueuesType
  <2> QED
    BY <2>1, WokenWaiting
<1>11. ASSUME NEW u \in Subs, NEW c \in Contexts, Wait(u, c)
       PROVE  Waiting'
  BY <1>11, SameWaiting DEF Wait, publishing
<1> QED
  BY <1>1, <1>2, <1>3, <1>4, <1>5, <1>6, <1>7, <1>8, <1>9, <1>10, <1>11, Steps

-----------------------------------------------------------------------------
(* Where messages go.                                                      *)

LEMMA NamingStep == ASSUME TypeOK, Flying, Iterating, Naming, Next PROVE Naming'
<1>0. /\ contexts \in Nat /\ sessions \in [Sids -> 0 .. MaxContexts]
      /\ queue \in [Contexts -> Seq(Msgs \cup {Sentinel})]
  <2>1. contexts \in Nat /\ sessions \in [Sids -> 0 .. MaxContexts]
    BY DEF TypeOK, RegistryType
  <2>2. queue \in [Contexts -> Seq(Msgs \cup {Sentinel})]
    BY DEF TypeOK, QueuesType
  <2> QED
    BY <2>1, <2>2
<1> USE DEF Naming, Registered
<1>1. CASE Start
  BY <1>1 DEF Start, queues, counts
<1>2. CASE Stop
  <2> DEFINE told == {c \in Contexts : Registered(c) /\ ~Full(c)}
  <2>1. \A c \in told : c <= contexts
    BY <1>0
  <2>2. StopWith(told)
    BY <1>2 DEF Stop
  <2> HIDE DEF told
  <2>3. \A c \in Contexts : c > contexts => c \notin told
    BY <1>0, <2>1
  <2>4. /\ \A c \in Contexts : c \notin told => queue'[c] = queue[c]
        /\ UNCHANGED <<contexts, sent, received>>
        /\ sessions' = [s \in Sids |-> 0]
    BY <2>2 DEF StopWith, counts
  <2>5. (\A c \in Contexts : c > contexts =>
             queue[c] = <<>> /\ sent[c] = 0 /\ received[c] = 0)'
    BY <2>3, <2>4
  <2>6. (\A s \in Sids : sessions[s] = 0)' /\ 0 <= contexts
    BY <1>0, <2>4
  <2>7. \A c \in Contexts : c # 0
    OBVIOUS
  <2> QED
    BY <2>4, <2>5, <2>6, <2>7
<1>3. ASSUME NEW s \in Sids, Register(s)
      PROVE  Naming'
  <2>1. /\ contexts' = contexts + 1 /\ contexts + 1 \in Contexts
        /\ \A r \in Sids : sessions'[r] = IF r = s THEN contexts + 1 ELSE sessions[r]
        /\ UNCHANGED <<queue, sent, received>>
    BY <1>0, <1>3 DEF Register, queues, counts
  <2>2. \A c \in Contexts : c > contexts + 1 => c > contexts
    BY <1>0
  <2>3. queue[contexts + 1] = <<>> /\ Elements(<<>>) = {}
    <3>1. Elements(<<>>) = {}
      BY DEF Elements
    <3>2. contexts + 1 > contexts
      BY <1>0
    <3> QED
      BY <2>1, <3>1, <3>2
  <2>4. (\A r \in Sids : sessions[r] <= contexts)'
    BY <1>0, <2>1, SMTT(60)
  <2>5. (\A r, t \in Sids : sessions[r] # 0 /\ sessions[r] = sessions[t] => r = t)'
    <3>1. \A r \in Sids : sessions[r] # contexts + 1
      BY <1>0
    <3> QED
      BY <2>1, <3>1
  <2>6. (\A c \in Contexts : c > contexts =>
             queue[c] = <<>> /\ sent[c] = 0 /\ received[c] = 0)'
    BY <2>1, <2>2
  <2>7. (\A c \in Contexts : Registered(c) => Sentinel \notin Elements(queue[c]))'
    BY <2>1, <2>3
  <2> QED
    BY <2>4, <2>5, <2>6, <2>7
<1>4. ASSUME NEW s \in Sids, Unregister(s)
      PROVE  Naming'
  <2>1. /\ sessions[s] \in Contexts /\ queue' = [queue EXCEPT ![sessions[s]] = <<>>]
        /\ sessions' = [sessions EXCEPT ![s] = 0]
        /\ UNCHANGED <<contexts, sent, received>>
    BY <1>0, <1>4 DEF Unregister, counts
  <2>2. \A c \in Contexts : queue'[c] = <<>> \/ queue'[c] = queue[c]
    BY <1>0, <2>1
  <2>3. Elements(<<>>) = {}
    BY DEF Elements
  <2>4. \A r \in Sids : sessions'[r] = IF r = s THEN 0 ELSE sessions[r]
    BY <1>0, <2>1
  <2> QED
    BY <1>0, <2>1, <2>2, <2>3, <2>4
<1>5. ASSUME NEW p \in Pubs, NEW s \in Sids, Publish(p, s)
      PROVE  Naming'
  BY <1>5 DEF Publish, registry, counts
<1>6. ASSUME NEW p \in Pubs, Enter(p)
      PROVE  Naming'
  <2> DEFINE c == to[msg[p]]
  <2>1. /\ c \in Contexts /\ c <= contexts /\ msg[p] \in Msgs /\ Put(p, c)
        /\ UNCHANGED <<sessions, contexts, sent, received>>
    BY <1>0, <1>6 DEF Enter, Put, Flying, Active, registry, counts
  <2>2. CASE Full(c)
    BY <2>1, <2>2 DEF Put
  <2>3. CASE ~Full(c)
    <3>1. queue' = [queue EXCEPT ![c] = Append(queue[c], msg[p])]
      BY <1>0, <2>1, <2>3 DEF Put
    <3>2. Elements(Append(queue[c], msg[p])) = Elements(queue[c]) \cup {msg[p]}
      <4>1. queue[c] \in Seq(Msgs \cup {Sentinel}) /\ msg[p] \in Msgs \cup {Sentinel}
        BY <1>0, <2>1
      <4> QED
        BY <4>1, AppendElements
    <3>3. \A d \in Contexts :
              /\ d > contexts => queue'[d] = queue[d]
              /\ Sentinel \notin Elements(queue[d]) => Sentinel \notin Elements(queue'[d])
      BY <1>0, <2>1, <3>1, <3>2
    <3> QED
      BY <2>1, <3>3
  <2> QED
    BY <2>2, <2>3
<1>7. ASSUME NEW p \in Pubs, Return(p)
      PROVE  Naming'
  <2>1. /\ to[msg[p]] \in Contexts /\ to[msg[p]] <= contexts
        /\ UNCHANGED <<sessions, contexts, queue, received>>
        /\ sent' = [sent EXCEPT ![to[msg[p]]] = sent[to[msg[p]]] + 1]
    BY <1>0, <1>7 DEF Return, Flying, Active, registry, queues, TypeOK, QueuesType
  <2>2. sent \in [Contexts -> Nat] /\ contexts \in Nat
    BY <1>0 DEF TypeOK, QueuesType, RegistryType
  <2>3. \A c \in Contexts : c > contexts => c # to[msg[p]]
    BY <2>1, <2>2 DEF Contexts
  <2>4. \A c \in Contexts : c > contexts => sent'[c] = sent[c]
    BY <2>1, <2>2, <2>3
  <2> QED
    BY <2>1, <2>4
<1>8. ASSUME NEW p \in Pubs, Timeout(p)
      PROVE  Naming'
  BY <1>8 DEF Timeout, GiveUp, registry
<1>9. ASSUME NEW u \in Subs, NEW s \in Sids, Subscribe(u, s)
      PROVE  Naming'
  BY <1>9 DEF Subscribe, registry, queues, counts
<1>10. ASSUME NEW u \in Subs, Break(u) \/ Leave(u)
       PROVE  Naming'
  <2>1. UNCHANGED <<sessions, contexts, queue, sent, received>>
    BY <1>10 DEF Break, Leave, registry, queues, counts
  <2> QED
    BY <2>1
<1>11. ASSUME NEW u \in Subs, NEW c \in Contexts, Take(u, c)
       PROVE  Naming'
  <2>1. /\ queue[c] # <<>> /\ queue' = [queue EXCEPT ![c] = Tail(queue[c])]
        /\ UNCHANGED <<sessions, contexts, sent>>
    BY <1>0, <1>11 DEF Take, Get, registry
  <2>2. ~(c > contexts) /\ Elements(Tail(queue[c])) \subseteq Elements(queue[c])
    BY <1>0, <2>1, TailElements
  <2>3. \A d \in Contexts : d # c => received'[d] = received[d] /\ queue'[d] = queue[d]
    <3>1. CASE Head(queue[c]) # Sentinel
      BY <1>0, <1>11, <2>1, <3>1 DEF Take, Yield, TypeOK, QueuesType
    <3>2. CASE Head(queue[c]) = Sentinel
      BY <1>0, <1>11, <2>1, <3>2 DEF Take
    <3> QED
      BY <3>1, <3>2
  <2>4. \A d \in Contexts : Elements(queue'[d]) \subseteq Elements(queue[d])
    BY <1>0, <2>1, <2>2, <2>3
  <2> QED
    BY <1>0, <2>1, <2>2, <2>3, <2>4
<1>12. ASSUME NEW u \in Subs, NEW c \in Contexts, Wait(u, c)
       PROVE  Naming'
  BY <1>12 DEF Wait, registry, counts
<1> HIDE DEF Naming, Registered
<1> QED
  BY <1>1, <1>2, <1>3, <1>4, <1>5, <1>6, <1>7, <1>8, <1>9, <1>10, <1>11, <1>12, Steps

\* What queues and deliveries hold.
LEMMA Contents ==
    ASSUME TypeOK, NEW c \in Contexts
    PROVE  /\ queue[c] \in Seq(Msgs \cup {Sentinel}) /\ got[c] \in Seq(Msgs)
           /\ Elements(queue[c]) \subseteq Msgs \cup {Sentinel}
           /\ Elements(got[c]) \subseteq Msgs /\ Sentinel \notin Elements(got[c])
<1>1. queue[c] \in Seq(Msgs \cup {Sentinel}) /\ got[c] \in Seq(Msgs)
  <2>1. queue[c] \in Seq(Msgs \cup {Sentinel})
    BY DEF TypeOK, QueuesType
  <2>2. got[c] \in Seq(Msgs)
    BY DEF TypeOK, SubscribingType
  <2> QED
    BY <2>1, <2>2
<1>2. Elements(queue[c]) \subseteq Msgs \cup {Sentinel}
  BY <1>1 DEF Elements
<1>3. Elements(got[c]) \subseteq Msgs
  BY <1>1 DEF Elements
<1>4. Sentinel \notin Msgs
  BY DEF Sentinel, Msgs
<1> QED
  BY <1>1, <1>2, <1>3, <1>4

\* A sentinel is no message.
LEMMA StopKept ==
    ASSUME TypeOK, Orders, Stop
    PROVE  /\ \A d \in Contexts, m \in Msgs : m \in Kept(d)' <=> m \in Kept(d)
           /\ Orders'
<1> DEFINE told == {c \in Contexts : Registered(c) /\ ~Full(c)}
<1>1. /\ got' = got
      /\ \A d \in Contexts : queue'[d] = queue[d] \/ queue'[d] = Append(queue[d], Sentinel)
  BY DEF Stop, StopWith
<1> HIDE DEF told
<1>2. ASSUME NEW d \in Contexts
      PROVE  /\ \A m \in Msgs : m \in Elements(queue'[d]) <=> m \in Elements(queue[d])
             /\ NoDuplicate(queue'[d]) /\ Elements(got[d]) \cap Elements(queue'[d]) = {}
  <2>1. /\ Elements(Append(queue[d], Sentinel)) = Elements(queue[d]) \cup {Sentinel}
        /\ Sentinel \in Msgs \cup {Sentinel}
    BY Contents, AppendElements
  <2>2. NoDuplicate(Append(queue[d], Sentinel))
    BY <2>1, Contents, AppendNoDuplicate DEF Orders
  <2>3. Sentinel \notin Msgs
    OBVIOUS
  <2>4. Elements(got[d]) \cap Elements(queue[d]) = {} /\ NoDuplicate(queue[d])
    BY DEF Orders
  <2> QED
    BY <1>1, <2>1, <2>2, <2>3, <2>4, Contents
<1> QED
  BY <1>1, <1>2 DEF Kept, Orders

\* A put adds its message, which is nowhere yet.
LEMMA PutKept ==
    ASSUME TypeOK, Flying, Fates, Orders, NEW p \in Pubs, Enter(p), ~Full(to[msg[p]])
    PROVE  /\ \A d \in Contexts, m \in Msgs :
                  m \in Kept(d)' <=> m \in Kept(d) \/ (d = to[msg[p]] /\ m = msg[p])
           /\ Orders'
<1> DEFINE c == to[msg[p]]
<1>1. /\ c \in Contexts /\ msg[p] \in Msgs /\ got' = got
      /\ queue' = [queue EXCEPT ![c] = Append(queue[c], msg[p])]
  <2>1. c \in Contexts /\ msg[p] \in Msgs /\ Put(p, c) /\ ~Full(c)
    BY DEF Enter, Put, Flying, Active
  <2> QED
    BY <2>1 DEF Put, TypeOK, QueuesType
<1>2. queue \in [Contexts -> Seq(Msgs \cup {Sentinel})] /\ msg[p] \in Msgs \cup {Sentinel}
  <2>1. queue \in [Contexts -> Seq(Msgs \cup {Sentinel})]
    BY DEF TypeOK, QueuesType
  <2> QED
    BY <1>1, <2>1
<1>3. msg[p] \notin Elements(queue[c]) /\ msg[p] \notin Elements(got[c])
  <2>1. pub[p] \in {"ready", "blocked", "woken"}
    BY DEF Enter, Put
  <2>2. msg[p] \notin Kept(c)
    BY <1>1, <2>1 DEF Fates
  <2> QED
    BY <2>2 DEF Kept
<1> HIDE DEF c
<1>4. Elements(Append(queue[c], msg[p])) = Elements(queue[c]) \cup {msg[p]}
  <2>1. queue[c] \in Seq(Msgs \cup {Sentinel})
    BY <1>1, <1>2
  <2> QED
    BY <1>2, <2>1, AppendElements
<1>5. NoDuplicate(queue[c]) /\ Elements(got[c]) \cap Elements(queue[c]) = {}
  BY <1>1 DEF Orders
<1>6. NoDuplicate(Append(queue[c], msg[p]))
  BY <1>1, <1>2, <1>3, <1>5, Contents, AppendNoDuplicate
<1>7. ASSUME NEW d \in Contexts, d # c
      PROVE  queue'[d] = queue[d]
  BY <1>1, <1>2, <1>7
<1>8. queue'[c] = Append(queue[c], msg[p])
  BY <1>1, <1>2
<1>9. Orders'
  BY <1>1, <1>3, <1>4, <1>5, <1>6, <1>7, <1>8 DEF Orders
<1>10. \A d \in Contexts, m \in Msgs :
           m \in Kept(d)' <=> m \in Kept(d) \/ (d = c /\ m = msg[p])
  BY <1>1, <1>4, <1>7, <1>8 DEF Kept
<1> QED
  BY <1>9, <1>10 DEF c

\* A message taken out of a queue is yielded.
LEMMA TakeKept ==
    ASSUME TypeOK, Orders, NEW u \in Subs, NEW c \in Contexts, Take(u, c)
    PROVE  /\ \A d \in Contexts, m \in Msgs : m \in Kept(d)' <=> m \in Kept(d)
           /\ Orders'
<1> DEFINE q == queue[c]
           g == got[c]
           h == Head(q)
<1>1. q # <<>> /\ q \in Seq(Msgs \cup {Sentinel}) /\ g \in Seq(Msgs)
  BY Contents DEF Take, Get
<1>2. h \in Msgs \cup {Sentinel} /\ Tail(q) \in Seq(Msgs \cup {Sentinel})
  BY <1>1
<1>3. Elements(q) = {h} \cup Elements(Tail(q))
  BY <1>1, TailElements
<1>4. NoDuplicate(q) /\ NoDuplicate(g) /\ Elements(g) \cap Elements(q) = {}
  BY DEF Orders
<1>5. NoDuplicate(Tail(q)) /\ (h # Sentinel => h \notin Elements(Tail(q)))
  BY <1>1, <1>4, TailNoDuplicate
<1>6. /\ queue \in [Contexts -> Seq(Msgs \cup {Sentinel})] /\ got \in [Contexts -> Seq(Msgs)]
  BY DEF TypeOK, QueuesType, SubscribingType
<1>7. queue'[c] = Tail(q) /\ \A d \in Contexts : d # c => queue'[d] = queue[d]
  BY <1>6 DEF Take, Get
<1>8. CASE h # Sentinel
  <2>1. h \in Msgs /\ h \notin Elements(g)
    BY <1>2, <1>3, <1>4, <1>8
  <2>2. Elements(Append(g, h)) = Elements(g) \cup {h} /\ NoDuplicate(Append(g, h))
    BY <1>1, <1>4, <2>1, AppendElements, AppendNoDuplicate
  <2>3. got'[c] = Append(g, h) /\ \A d \in Contexts : d # c => got'[d] = got[d]
    BY <1>6, <1>8 DEF Take, Yield
  <2> HIDE DEF q, g, h
  <2>4. Elements(got'[c]) \cap Elements(queue'[c]) = {}
    BY <1>3, <1>4, <1>5, <1>7, <1>8, <2>2, <2>3
  <2>5. Orders'
    BY <1>5, <1>7, <2>2, <2>3, <2>4 DEF Orders
  <2>6. Elements(got'[c]) \cup Elements(queue'[c]) = Elements(g) \cup Elements(q)
    BY <1>3, <1>7, <2>2, <2>3
  <2>7. \A d \in Contexts : Kept(d)' = Kept(d)
    BY <1>7, <2>3, <2>6 DEF Kept, q, g
  <2> QED
    BY <2>5, <2>7
<1>9. CASE h = Sentinel
  <2>1. got' = got
    BY <1>9 DEF Take
  <2>2. h \notin Msgs
    BY <1>9
  <2>3. Elements(got'[c]) \cap Elements(queue'[c]) = {}
    BY <1>3, <1>4, <1>7, <2>1
  <2>4. Orders'
    BY <1>5, <1>7, <2>1, <2>3 DEF Orders
  <2> HIDE DEF h
  <2>5. \A m \in Msgs : m \in Elements(queue'[c]) <=> m \in Elements(queue[c])
    BY <1>3, <1>7, <2>2
  <2>6. \A d \in Contexts, m \in Msgs : m \in Kept(d)' <=> m \in Kept(d)
    BY <1>7, <2>1, <2>5 DEF Kept
  <2> QED
    BY <2>4, <2>6
<1> QED
  BY <1>8, <1>9

\* An emptied queue.
LEMMA UnregisterKept ==
    ASSUME TypeOK, Orders, NEW s \in Sids, Unregister(s)
    PROVE  /\ sessions[s] \in Contexts
           /\ dropped' = dropped \cup Elements(queue[sessions[s]])
           /\ \A d \in Contexts : Kept(d)' = IF d = sessions[s] THEN Elements(got[d]) ELSE Kept(d)
           /\ Orders'
<1> DEFINE c == sessions[s]
<1>1. c \in Contexts /\ got' = got /\ queue' = [queue EXCEPT ![c] = <<>>]
  BY DEF Unregister, TypeOK, RegistryType, subscribing
<1>2. dropped' = dropped \cup Elements(queue[c])
  BY DEF Unregister, Elements
<1> HIDE DEF c
<1>3. queue'[c] = <<>> /\ \A d \in Contexts : d # c => queue'[d] = queue[d]
  BY <1>1 DEF TypeOK, QueuesType
<1>4. Elements(<<>>) = {} /\ NoDuplicate(<<>>)
  BY DEF Elements, NoDuplicate
<1>5. Orders'
  BY <1>1, <1>3, <1>4 DEF Orders
<1>6. \A d \in Contexts : Kept(d)' = IF d = c THEN Elements(got[d]) ELSE Kept(d)
  BY <1>1, <1>3, <1>4 DEF Kept
<1> QED
  BY <1>1, <1>2, <1>5, <1>6 DEF c

\* Steps that move no message.
LEMMA SameKept ==
    ASSUME Orders, UNCHANGED <<queue, got>>
    PROVE  /\ \A d \in Contexts : Kept(d)' = Kept(d)
           /\ Orders'
BY DEF Kept, Orders

LEMMA OrdersStep ==
    ASSUME TypeOK, Flying, Iterating, Fates, Orders, Next
    PROVE  Orders'
<1>1. CASE Start
  BY <1>1, SameKept DEF Start, queues, subscribing
<1>2. CASE Stop
  BY <1>2, StopKept
<1>3. ASSUME NEW s \in Sids, Register(s)
      PROVE  Orders'
  BY <1>3, SameKept DEF Register, queues, subscribing
<1>4. ASSUME NEW s \in Sids, Unregister(s)
      PROVE  Orders'
  BY <1>4, UnregisterKept
<1>5. ASSUME NEW p \in Pubs, NEW s \in Sids, Publish(p, s)
      PROVE  Orders'
  BY <1>5, SameKept DEF Publish, subscribing
<1>6. ASSUME NEW p \in Pubs, Enter(p)
      PROVE  Orders'
  <2>1. CASE Full(to[msg[p]])
    BY <1>6, <2>1, SameKept DEF Enter, Put
  <2> QED
    BY <1>6, <2>1, PutKept
<1>7. ASSUME NEW p \in Pubs, Return(p) \/ Timeout(p)
      PROVE  Orders'
  BY <1>7, SameKept DEF Return, Timeout, GiveUp, queues, subscribing
<1>8. ASSUME NEW u \in Subs, NEW s \in Sids, Subscribe(u, s)
      PROVE  Orders'
  BY <1>8, SameKept DEF Subscribe, queues
<1>9. ASSUME NEW u \in Subs, Break(u) \/ Leave(u)
      PROVE  Orders'
  BY <1>9, SameKept DEF Break, Leave, queues
<1>10. ASSUME NEW u \in Subs, NEW c \in Contexts, Take(u, c)
       PROVE  Orders'
  BY <1>10, TakeKept
<1>11. ASSUME NEW u \in Subs, NEW c \in Contexts, Wait(u, c)
       PROVE  Orders'
  BY <1>11, SameKept DEF Wait
<1> QED
  BY <1>1, <1>2, <1>3, <1>4, <1>5, <1>6, <1>7, <1>8, <1>9, <1>10, <1>11, Steps

LEMMA FatesStep ==
    ASSUME TypeOK, Flying, Iterating, Waiting, Fates, Orders, Next
    PROVE  Fates'
<1>1. CASE Start
  BY <1>1, SameKept, SameFates DEF Start, queues, publishing, subscribing
<1>2. CASE Stop
  BY <1>2, StopKept, SameFates DEF Stop, StopWith
<1>3. ASSUME NEW s \in Sids, Register(s)
      PROVE  Fates'
  BY <1>3, SameKept, SameFates DEF Register, queues, publishing, subscribing
<1>4. ASSUME NEW s \in Sids, Unregister(s)
      PROVE  Fates'
  <2> DEFINE c == sessions[s]
  <2>1. /\ c \in Contexts /\ dropped' = dropped \cup Elements(queue[c])
        /\ \A d \in Contexts : Kept(d)' = IF d = c THEN Elements(got[d]) ELSE Kept(d)
    BY <1>4, UnregisterKept
  <2>2. Elements(got[c]) \cap Elements(queue[c]) = {} /\ Kept(c) = Elements(got[c]) \cup Elements(queue[c])
    BY <2>1 DEF Orders, Kept
  <2>3. UNCHANGED <<seq, msg, to, result>> /\ Len(queue[c]) \in Nat
    BY <1>4, <2>1, Contents DEF Unregister
  <2>4. \A p \in Pubs : pub'[p] = pub[p] \/ (pub[p] = "blocked" /\ pub'[p] = "woken")
    <3>1. pub' = Woken(pub, First(putters[c], Len(queue[c])))
      BY <1>4 DEF Unregister
    <3> HIDE DEF c
    <3> QED
      BY <2>1, <2>3, <3>1, WokenPublishers
  <2>5. \A p \in Pubs : pub[p] # "idle" => msg[p] \in Msgs /\ to[msg[p]] \in Contexts
    BY DEF Flying, Active
  <2>6. \A d \in Contexts : /\ Kept(d)' \subseteq Kept(d)
                            /\ Kept(d) \subseteq Kept(d)' \cup dropped'
    BY <2>1, <2>2
  <2> HIDE DEF c, Kept
  <2>7. (\A m \in Msgs, d \in Contexts : m \in Kept(d) =>
             d = to[m] /\ m <= seq /\ result[m] # "false" /\ m \notin dropped)'
    <3> SUFFICES ASSUME NEW m \in Msgs, NEW d \in Contexts, m \in Kept(d)'
                 PROVE  d = to[m] /\ m <= seq /\ result[m] # "false" /\ m \notin dropped'
      BY <2>3
    <3>1. d = to[m] /\ m <= seq /\ result[m] # "false" /\ m \notin dropped
      BY <2>6 DEF Fates
    <3>2. m \notin Elements(queue[c])
      <4>1. CASE d = c
        BY <2>1, <2>2, <4>1
      <4>2. CASE d # c
        BY <2>1, <2>2, <3>1, <4>2 DEF Fates
      <4> QED
        BY <4>1, <4>2
    <3> QED
      BY <2>1, <3>1, <3>2
  <2>8. (\A m \in Msgs : m \in dropped => m <= seq /\ result[m] # "false")'
    BY <2>1, <2>2, <2>3 DEF Fates
  <2>9. (\A p \in Pubs : pub[p] \in {"ready", "blocked", "woken"} =>
             msg[p] \notin dropped /\ \A d \in Contexts : msg[p] \notin Kept(d))'
    BY <2>1, <2>2, <2>3, <2>4, <2>6 DEF Fates
  <2>10. (\A p \in Pubs : pub[p] = "put" => msg[p] \in Kept(to[msg[p]]) \cup dropped)'
    BY <2>1, <2>3, <2>4, <2>5, <2>6 DEF Fates
  <2>11. (\A m \in Msgs : result[m] = "true" /\ to[m] # 0 => m \in Kept(to[m]) \cup dropped)'
    BY <2>1, <2>3, <2>6 DEF Fates, TypeOK, PublishingType
  <2> QED
    BY <2>7, <2>8, <2>9, <2>10, <2>11 DEF Fates
<1>5. ASSUME NEW p \in Pubs, NEW s \in Sids, Publish(p, s)
      PROVE  Fates'
  <2>1. /\ seq \in Nat /\ seq + 1 \in Msgs /\ seq' = seq + 1 /\ dropped' = dropped
        /\ to' = [to EXCEPT ![seq + 1] = sessions[s]] /\ to \in [Msgs -> 0 .. MaxContexts]
        /\ result \in [Msgs -> {"none", "true", "false"}]
    BY <1>5 DEF Publish, TypeOK, PublishingType
  <2>2. \A d \in Contexts : Kept(d)' = Kept(d)
    BY <1>5, SameKept DEF Publish, subscribing
  <2> DEFINE new == seq + 1
  <2>3. /\ \A d \in Contexts : new \notin Kept(d)
        /\ new \notin dropped /\ result[new] = "none"
    BY <2>1 DEF Fates, Flying
  <2>4. \A m \in Msgs : m # new => to'[m] = to[m] /\ result'[m] = result[m]
    <3>1. result' = result \/ result' = [result EXCEPT ![new] = "true"]
      BY <1>5 DEF Publish
    <3> QED
      BY <2>1, <3>1
  <2>5. result'[new] # "false" /\ (result'[new] = "true" => to'[new] = 0)
    <3>1. CASE sessions[s] = 0
      BY <1>5, <2>1, <3>1 DEF Publish
    <3>2. CASE sessions[s] # 0
      BY <1>5, <2>3, <3>2 DEF Publish
    <3> QED
      BY <3>1, <3>2
  <2>6. ASSUME NEW q \in Pubs
        PROVE  \/ pub'[q] = pub[q] /\ msg'[q] = msg[q]
               \/ pub'[q] = "ready" /\ msg'[q] = new
    <3>1. CASE sessions[s] = 0
      BY <1>5, <3>1 DEF Publish
    <3>2. CASE sessions[s] # 0
      <4>1. pub' = [pub EXCEPT ![p] = "ready"] /\ msg' = [msg EXCEPT ![p] = new]
        BY <1>5, <3>2 DEF Publish
      <4> QED
        BY <4>1 DEF TypeOK, PublishingType
    <3> QED
      BY <3>1, <3>2
  <2>7. \A q \in Pubs : pub[q] # "idle" => msg[q] \in Msgs /\ msg[q] # new
                                          /\ to[msg[q]] \in Contexts
    BY <2>1 DEF Flying, Active
  <2>8. \A m \in Msgs : m <= seq => m <= seq'
    BY <2>1
  <2> HIDE DEF Kept, new
  <2>9. (\A m \in Msgs, d \in Contexts : m \in Kept(d) =>
             d = to[m] /\ m <= seq /\ result[m] # "false" /\ m \notin dropped)'
    BY <2>1, <2>2, <2>3, <2>4, <2>8 DEF Fates
  <2>10. (\A m \in Msgs : m \in dropped => m <= seq /\ result[m] # "false")'
    BY <2>1, <2>3, <2>4, <2>8 DEF Fates
  <2>11. (\A q \in Pubs : pub[q] \in {"ready", "blocked", "woken"} =>
              msg[q] \notin dropped /\ \A d \in Contexts : msg[q] \notin Kept(d))'
    BY <2>1, <2>2, <2>3, <2>6 DEF Fates
  <2>12. (\A q \in Pubs : pub[q] = "put" => msg[q] \in Kept(to[msg[q]]) \cup dropped)'
    BY <2>1, <2>2, <2>4, <2>6, <2>7 DEF Fates
  <2>13. (\A m \in Msgs : result[m] = "true" /\ to[m] # 0 => m \in Kept(to[m]) \cup dropped)'
    BY <2>1, <2>2, <2>4, <2>5 DEF Fates, new
  <2> QED
    BY <2>9, <2>10, <2>11, <2>12, <2>13 DEF Fates
<1>6. ASSUME NEW p \in Pubs, Enter(p)
      PROVE  Fates'
  <2>1. /\ to[msg[p]] \in Contexts /\ msg[p] \in Msgs /\ Put(p, to[msg[p]])
        /\ pub[p] \in {"ready", "woken"}
        /\ UNCHANGED <<seq, msg, to, result, dropped>>
    BY <1>6 DEF Enter, Put, Flying, Active
  <2>2. CASE Full(to[msg[p]])
    <3>1. /\ UNCHANGED <<queue, got>> /\ pub' = [pub EXCEPT ![p] = "blocked"]
      BY <2>1, <2>2 DEF Put
    <3>2. \A q \in Pubs : pub'[q] = pub[q] \/ (pub[q] \in Staying /\ pub'[q] \in Staying)
      <4>1. DOMAIN pub = Pubs
        BY DEF TypeOK, PublishingType
      <4> QED
        BY <2>1, <3>1, <4>1 DEF Staying
    <3> QED
      BY <2>1, <3>1, <3>2, SameKept, SameFates
  <2>3. CASE ~Full(to[msg[p]])
    <3>1. \A d \in Contexts, m \in Msgs :
              m \in Kept(d)' <=> m \in Kept(d) \/ (d = to[msg[p]] /\ m = msg[p])
      BY <1>6, <2>3, PutKept
    <3>2. \A q \in Pubs : pub'[q] = IF q = p THEN "put" ELSE pub[q]
      BY <2>1, <2>3 DEF Put, TypeOK, PublishingType
    <3>3. \A q \in Pubs : pub[q] # "idle" => /\ msg[q] \in Msgs /\ to[msg[q]] \in Contexts
                                             /\ q # p => msg[q] # msg[p]
      BY <2>1 DEF Flying, Active
    <3>4. msg[p] <= seq /\ result[msg[p]] = "none" /\ msg[p] \notin dropped
      BY <2>1 DEF Flying, Active, Fates, TypeOK, PublishingType
    <3> HIDE DEF Kept
    <3>5. (\A m \in Msgs, d \in Contexts : m \in Kept(d) =>
               d = to[m] /\ m <= seq /\ result[m] # "false" /\ m \notin dropped)'
      BY <2>1, <3>1, <3>4 DEF Fates
    <3>6. (\A m \in Msgs : m \in dropped => m <= seq /\ result[m] # "false")'
      BY <2>1 DEF Fates
    <3>7. (\A q \in Pubs : pub[q] \in {"ready", "blocked", "woken"} =>
               msg[q] \notin dropped /\ \A d \in Contexts : msg[q] \notin Kept(d))'
      BY <2>1, <3>1, <3>2, <3>3 DEF Fates
    <3>8. (\A q \in Pubs : pub[q] = "put" => msg[q] \in Kept(to[msg[q]]) \cup dropped)'
      BY <2>1, <3>1, <3>2, <3>3 DEF Fates
    <3>9. (\A m \in Msgs : result[m] = "true" /\ to[m] # 0 => m \in Kept(to[m]) \cup dropped)'
      BY <2>1, <3>1 DEF Fates, TypeOK, PublishingType
    <3> QED
      BY <3>5, <3>6, <3>7, <3>8, <3>9 DEF Fates
  <2> QED
    BY <2>2, <2>3
<1>7. ASSUME NEW p \in Pubs, NEW x, pub[p] # "idle",
             UNCHANGED <<queue, got, seq, msg, to, dropped>>,
             result' = [result EXCEPT ![msg[p]] = x],
             x = "true" \/ (x = "false" /\ pub[p] # "put"),
             x = "true" => pub[p] = "put",
             \A q \in Pubs : \/ pub'[q] = pub[q] \/ pub'[q] = "idle"
                             \/ pub[q] \in Staying /\ pub'[q] \in Staying
      PROVE  Fates'
  <2>1. /\ msg[p] \in Msgs /\ to[msg[p]] \in Contexts
        /\ result \in [Msgs -> {"none", "true", "false"}]
        /\ pub[p] \in Staying \cup {"put"}
    BY <1>7 DEF Flying, Active, Staying, TypeOK, PublishingType
  <2>2. \A d \in Contexts : Kept(d)' = Kept(d)
    BY <1>7, SameKept
  <2>3. \A m \in Msgs : result'[m] = IF m = msg[p] THEN x ELSE result[m]
    BY <1>7, <2>1
  <2>4. x = "false" => msg[p] \notin dropped /\ \A d \in Contexts : msg[p] \notin Kept(d)
    BY <1>7, <2>1 DEF Fates, Staying
  <2>5. x = "true" => msg[p] \in Kept(to[msg[p]]) \cup dropped
    BY <1>7 DEF Fates
  <2>6. \A q \in Pubs : pub[q] # "idle" => msg[q] \in Msgs /\ to[msg[q]] \in Contexts
    BY DEF Flying, Active
  <2> HIDE DEF Kept
  <2>7. (\A m \in Msgs, d \in Contexts : m \in Kept(d) =>
             d = to[m] /\ m <= seq /\ result[m] # "false" /\ m \notin dropped)'
    BY <1>7, <2>2, <2>3, <2>4 DEF Fates
  <2>8. (\A m \in Msgs : m \in dropped => m <= seq /\ result[m] # "false")'
    BY <1>7, <2>3, <2>4 DEF Fates
  <2>9. (\A q \in Pubs : pub[q] \in {"ready", "blocked", "woken"} =>
             msg[q] \notin dropped /\ \A d \in Contexts : msg[q] \notin Kept(d))'
    BY <1>7, <2>2 DEF Fates, Staying
  <2>10. (\A q \in Pubs : pub[q] = "put" => msg[q] \in Kept(to[msg[q]]) \cup dropped)'
    BY <1>7, <2>2, <2>6 DEF Fates, Staying
  <2>11. (\A m \in Msgs : result[m] = "true" /\ to[m] # 0 => m \in Kept(to[m]) \cup dropped)'
    BY <1>7, <2>2, <2>3, <2>5 DEF Fates, TypeOK, PublishingType
  <2> QED
    BY <2>7, <2>8, <2>9, <2>10, <2>11 DEF Fates
<1>8. ASSUME NEW p \in Pubs, Return(p)
      PROVE  Fates'
  <2>1. /\ UNCHANGED <<queue, got, seq, msg, to, dropped>> /\ pub[p] = "put"
        /\ result' = [result EXCEPT ![msg[p]] = "true"]
        /\ \A q \in Pubs : pub'[q] = pub[q] \/ pub'[q] = "idle"
    BY <1>8 DEF Return, queues, subscribing, TypeOK, PublishingType
  <2> QED
    BY <1>7, <2>1
<1>9. ASSUME NEW p \in Pubs, Timeout(p)
      PROVE  Fates'
  <2> DEFINE c == to[msg[p]]
             n == IF pub[p] = "woken" /\ ~Full(c) THEN 1 ELSE 0
             w == Woken(pub, First(putters[c], n))
  <2>1. /\ c \in Contexts /\ pub[p] \in {"blocked", "woken"} /\ GiveUp(p, c)
    BY <1>9 DEF Timeout, GiveUp, Flying, Active
  <2>2. /\ UNCHANGED <<queue, got, seq, msg, to, dropped>>
        /\ result' = [result EXCEPT ![msg[p]] = "false"]
        /\ pub' = [w EXCEPT ![p] = "idle"] /\ DOMAIN w = Pubs /\ n \in Nat
    BY <2>1 DEF GiveUp, subscribing, TypeOK, PublishingType, Woken
  <2> HIDE DEF c, n
  <2>3. \A q \in Pubs : w[q] = pub[q] \/ (pub[q] = "blocked" /\ w[q] = "woken")
    BY <2>1, <2>2, WokenPublishers
  <2> HIDE DEF w
  <2>4. \A q \in Pubs : \/ pub'[q] = pub[q] \/ pub'[q] = "idle"
                        \/ pub[q] \in Staying /\ pub'[q] \in Staying
    BY <2>2, <2>3 DEF Staying
  <2> QED
    BY <1>7, <2>1, <2>2, <2>4
<1>10. ASSUME NEW u \in Subs, NEW s \in Sids, Subscribe(u, s)
       PROVE  Fates'
  BY <1>10, SameKept, SameFates DEF Subscribe, queues, publishing
<1>11. ASSUME NEW u \in Subs, Break(u) \/ Leave(u)
       PROVE  Fates'
  <2>1. UNCHANGED <<queue, got, seq, msg, to, result, dropped, pub>>
    BY <1>11 DEF Break, Leave, queues, publishing
  <2> QED
    BY <2>1, SameKept, SameFates
<1>12. ASSUME NEW u \in Subs, NEW c \in Contexts, Take(u, c)
       PROVE  Fates'
  <2>1. UNCHANGED <<seq, msg, to, result, dropped>> /\ pub' = Woken(pub, First(putters[c], 1))
    BY <1>12 DEF Take, Get
  <2>2. \A p \in Pubs : pub'[p] = pub[p] \/ (pub[p] \in Staying /\ pub'[p] \in Staying)
    <3>1. \A p \in Pubs : pub'[p] = pub[p] \/ (pub[p] = "blocked" /\ pub'[p] = "woken")
      BY <2>1, WokenPublishers
    <3> QED
      BY <3>1 DEF Staying
  <2> QED
    BY <1>12, <2>1, <2>2, TakeKept, SameFates
<1>13. ASSUME NEW u \in Subs, NEW c \in Contexts, Wait(u, c)
       PROVE  Fates'
  BY <1>13, SameKept, SameFates DEF Wait, publishing
<1> QED
  BY <1>1, <1>2, <1>3, <1>4, <1>5, <1>6, <1>8, <1>9, <1>10, <1>11, <1>12, <1>13, Steps

-----------------------------------------------------------------------------
(* The theorems.                                                           *)

\* Steps that put nothing into a queue.
LEMMA SameLeftovers ==
    ASSUME TypeOK, Leftovers, UNCHANGED <<registry, queue, closed, late>>,
           seq \in Nat, seq' \in Nat, seq <= seq', \A m \in Msgs : m <= seq => to'[m] = to[m]
    PROVE  Leftovers'
<1>1. \A c \in Contexts : Registered(c)' <=> Registered(c)
  BY DEF Registered, registry
<1>2. \A m \in late : m \in Msgs /\ to[m] \in Contexts /\ to'[m] = to[m]
  BY DEF Leftovers, TypeOK, RegistryType
<1> QED
  BY <1>1, <1>2 DEF Leftovers, registry, TypeOK

LEMMA LeftoversStep ==
    ASSUME TypeOK, Flying, Iterating, Naming, Leftovers, Next
    PROVE  Leftovers'
<1>0. seq \in Nat /\ contexts \in Nat /\ late \subseteq Msgs
  BY DEF TypeOK, PublishingType, RegistryType
<1>1. CASE Start
  BY <1>0, <1>1 DEF Start, queues, publishing, Leftovers, Registered
<1>2. CASE Stop
  <2>1. /\ closed' = closed \cup {c \in Contexts : Registered(c)} /\ late' = late
        /\ sessions' = [s \in Sids |-> 0] /\ UNCHANGED <<contexts, seq, to>>
        /\ \A c \in Contexts : ~Registered(c) => queue'[c] = queue[c]
    BY <1>2 DEF Stop, StopWith
  <2>2. \A c \in 1 .. contexts : ~Registered(c)'
    BY <2>1 DEF Registered
  <2> QED
    BY <1>0, <2>1, <2>2 DEF Leftovers
<1>3. ASSUME NEW s \in Sids, Register(s)
      PROVE  Leftovers'
  <2>1. /\ sessions[s] = 0 /\ contexts' = contexts + 1
        /\ sessions' = [sessions EXCEPT ![s] = contexts + 1]
        /\ UNCHANGED <<queue, closed, late, seq, to>> /\ sessions \in [Sids -> 0 .. MaxContexts]
    BY <1>3 DEF Register, queues, publishing, TypeOK, RegistryType
  <2>2. \A c \in Contexts : c # contexts + 1 => (Registered(c)' <=> Registered(c))
    BY <2>1 DEF Registered
  <2>3. \A c \in Contexts : c = contexts + 1 => Registered(c)'
    BY <2>1 DEF Registered
  <2>4. contexts + 1 \in Contexts
    BY <1>0, <1>3 DEF Register
  <2> QED
    BY <1>0, <2>1, <2>2, <2>3, <2>4 DEF Leftovers
<1>4. ASSUME NEW s \in Sids, Unregister(s)
      PROVE  Leftovers'
  <2> DEFINE c == sessions[s]
  <2>1. /\ c \in Contexts /\ queue' = [queue EXCEPT ![c] = <<>>]
        /\ sessions' = [sessions EXCEPT ![s] = 0]
        /\ UNCHANGED <<contexts, closed, late, seq, to>>
    BY <1>4 DEF Unregister, TypeOK, RegistryType
  <2>2. sessions \in [Sids -> 0 .. MaxContexts]
    BY DEF TypeOK, RegistryType
  <2>3. Elements(queue'[c]) = {} /\ \A d \in Contexts : d # c => queue'[d] = queue[d]
    BY <2>1 DEF TypeOK, QueuesType, Elements
  <2>4. \A d \in Contexts : Registered(d)' => Registered(d)
    BY <2>1, <2>2 DEF Registered
  <2>5. \A d \in Contexts : d # c => (Registered(d)' <=> Registered(d))
    BY <2>1, <2>2 DEF Registered
  <2> HIDE DEF c
  <2>6. \A d \in 1 .. contexts : d \in Contexts
    BY DEF TypeOK, RegistryType
  <2> QED
    BY <1>0, <2>1, <2>3, <2>4, <2>5, <2>6 DEF Leftovers
<1>5. ASSUME NEW p \in Pubs, NEW s \in Sids, Publish(p, s)
      PROVE  Leftovers'
  <2>1. /\ seq' = seq + 1 /\ to' = [to EXCEPT ![seq + 1] = sessions[s]]
        /\ UNCHANGED <<registry, queue, closed, late>>
    BY <1>5 DEF Publish
  <2>2. \A m \in Msgs : m <= seq => to'[m] = to[m]
    BY <1>0, <2>1 DEF TypeOK, PublishingType
  <2> QED
    BY <1>0, <2>1, <2>2, SameLeftovers
<1>6. ASSUME NEW p \in Pubs, Enter(p)
      PROVE  Leftovers'
  <2> DEFINE c == to[msg[p]]
  <2>1. /\ msg[p] \in Msgs /\ c \in Contexts /\ c \in 1 .. contexts /\ msg[p] <= seq
        /\ Put(p, c)
    BY <1>6 DEF Enter, Put, Flying, Active
  <2> HIDE DEF c
  <2>2. UNCHANGED <<registry, closed, seq, to>>
    BY <2>1 DEF Put
  <2>3. CASE Full(c)
    BY <1>0, <2>1, <2>2, <2>3, SameLeftovers DEF Put
  <2>4. CASE ~Full(c)
    <3>1. /\ queue' = [queue EXCEPT ![c] = Append(queue[c], msg[p])]
          /\ late' = late \cup (IF Registered(c) THEN {} ELSE {msg[p]})
      BY <2>1, <2>4 DEF Put
    <3>2. /\ queue[c] \in Seq(Msgs \cup {Sentinel})
          /\ queue'[c] = Append(queue[c], msg[p])
          /\ \A d \in Contexts : d # c => queue'[d] = queue[d]
      BY <2>1, <3>1 DEF TypeOK, QueuesType
    <3>3. Elements(queue'[c]) = Elements(queue[c]) \cup {msg[p]}
      BY <2>1, <3>2, AppendElements
    <3>4. \A d \in Contexts : Registered(d)' <=> Registered(d)
      BY <2>2 DEF Registered, registry
    <3>5. \A d \in 1 .. contexts : d \in Contexts
      BY DEF TypeOK, RegistryType
    <3>6. contexts' = contexts /\ to[msg[p]] = c
      BY <2>2 DEF registry, c
    <3>7. (\A d \in Contexts :
              ~Registered(d) /\ d \notin closed => Elements(queue[d]) \subseteq late)'
      <4>1. ASSUME NEW d \in Contexts, ~Registered(d), d \notin closed
            PROVE  Elements(queue'[d]) \subseteq late'
        <5>1. Elements(queue[d]) \subseteq late
          BY <4>1 DEF Leftovers
        <5>2. CASE d = c
          BY <3>1, <3>3, <4>1, <5>1, <5>2
        <5>3. CASE d # c
          BY <3>1, <3>2, <5>1, <5>3
        <5> QED
          BY <5>2, <5>3
      <4> QED
        BY <2>2, <3>4, <4>1
    <3>8. (\A m \in late : m <= seq /\ to[m] \in 1 .. contexts /\ ~Registered(to[m]))'
      <4>1. \A m \in late : m <= seq /\ to[m] \in 1 .. contexts /\ ~Registered(to[m])
        BY DEF Leftovers
      <4>2. \A m \in late' : m \in late \/ (m = msg[p] /\ ~Registered(c))
        BY <3>1
      <4>3. \A m \in late' : m <= seq /\ to[m] \in 1 .. contexts /\ ~Registered(to[m])
        BY <2>1, <3>6, <4>1, <4>2
      <4> QED
        BY <2>2, <4>3 DEF Registered, registry
    <3> QED
      BY <3>7, <3>8 DEF Leftovers
  <2> QED
    BY <2>3, <2>4
<1>7. ASSUME NEW p \in Pubs, Return(p) \/ Timeout(p)
      PROVE  Leftovers'
  BY <1>0, <1>7, SameLeftovers DEF Return, Timeout, GiveUp, queues
<1>8. ASSUME NEW u \in Subs, NEW s \in Sids, Subscribe(u, s)
      PROVE  Leftovers'
  BY <1>0, <1>8, SameLeftovers DEF Subscribe, queues, publishing
<1>9. ASSUME NEW u \in Subs, Break(u) \/ Leave(u)
      PROVE  Leftovers'
  BY <1>0, <1>9, SameLeftovers DEF Break, Leave, queues, publishing
<1>10. ASSUME NEW u \in Subs, NEW c \in Contexts, Take(u, c)
       PROVE  Leftovers'
  <2>1. /\ queue[c] # <<>> /\ queue' = [queue EXCEPT ![c] = Tail(queue[c])]
        /\ UNCHANGED <<registry, closed, late, seq, to>>
    BY <1>10 DEF Take, Get
  <2>2. queue[c] \in Seq(Msgs \cup {Sentinel})
    BY Contents
  <2>3. Elements(queue'[c]) \subseteq Elements(queue[c])
        /\ \A d \in Contexts : d # c => queue'[d] = queue[d]
    <3>1. queue'[c] = Tail(queue[c]) /\ \A d \in Contexts : d # c => queue'[d] = queue[d]
      BY <2>1 DEF TypeOK, QueuesType
    <3>2. Elements(queue[c]) = {Head(queue[c])} \cup Elements(Tail(queue[c]))
      BY <2>1, <2>2, TailElements
    <3> QED
      BY <3>1, <3>2
  <2>4. \A d : Registered(d)' <=> Registered(d)
    BY <2>1 DEF Registered, registry
  <2>5. contexts' = contexts
    BY <2>1 DEF registry
  <2> QED
    BY <2>1, <2>3, <2>4, <2>5 DEF Leftovers
<1>11. ASSUME NEW u \in Subs, NEW c \in Contexts, Wait(u, c)
       PROVE  Leftovers'
  BY <1>0, <1>11, SameLeftovers DEF Wait, publishing
<1> QED
  BY <1>1, <1>2, <1>3, <1>4, <1>5, <1>6, <1>7, <1>8, <1>9, <1>10, <1>11, Steps

LEMMA InitDelivery == Init => Delivery
<1> SUFFICES ASSUME Init PROVE Delivery
  OBVIOUS
<1>1. Elements(<<>>) = {} /\ NoDuplicate(<<>>) /\ Distinct(<<>>)
  BY DEF Elements, NoDuplicate, Distinct
<1>2. Flying
  BY DEF Init, Flying, Active
<1>3. Iterating
  BY <1>1 DEF Init, Iterating, SubAlive
<1>4. Waiting
  BY <1>1 DEF Init, Waiting
<1>5. Naming
  BY <1>1 DEF Init, Naming, Registered
<1>6. Fates
  BY <1>1 DEF Init, Fates, Kept
<1>7. Orders /\ Leftovers
  BY <1>1 DEF Init, Orders, Leftovers
<1> QED
  BY <1>2, <1>3, <1>4, <1>5, <1>6, <1>7 DEF Delivery

LEMMA TypeStep == ASSUME TypeOK, Flying, Iterating, Next PROVE TypeOK'
<1>1. ASSUME NEW u \in Subs, Ask(u) \/ Wake(u) \/ Leave(u) \/ \E s \in Sids : Subscribe(u, s)
      PROVE  TypeOK'
  BY <1>1, SubscriberSteps
<1>2. ASSUME NEW p \in Pubs, Enter(p) \/ Return(p) \/ Timeout(p) \/ \E s \in Sids : Publish(p, s)
      PROVE  TypeOK'
  BY <1>2, PublisherSteps
<1>3. CASE Start \/ Stop \/ \E s \in Sids : Register(s) \/ Unregister(s)
  BY <1>3, RegistrySteps
<1> QED
  BY <1>1, <1>2, <1>3 DEF Next

\* The invariant is inductive.
THEOREM DeliveryInvariant == Spec => [](TypeOK /\ Delivery)
<1>1. Init => TypeOK /\ Delivery
  BY InitType, InitDelivery
<1>2. TypeOK /\ Delivery /\ [Next]_vars => (TypeOK /\ Delivery)'
  <2>1. ASSUME TypeOK, Delivery, Next
        PROVE  (TypeOK /\ Delivery)'
    <3>1. Flying /\ Iterating /\ Waiting /\ Naming /\ Fates /\ Orders /\ Leftovers
      BY <2>1 DEF Delivery
    <3>2. TypeOK'
      BY <2>1, <3>1, TypeStep
    <3>3. Flying' /\ Iterating' /\ Waiting' /\ Naming'
      BY <2>1, <3>1, FlyingStep, IteratingStep, WaitingStep, NamingStep
    <3>4. Fates' /\ Orders' /\ Leftovers'
      BY <2>1, <3>1, FatesStep, OrdersStep, LeftoversStep
    <3> QED
      BY <3>2, <3>3, <3>4 DEF Delivery
  <2>2. ASSUME TypeOK, Delivery, UNCHANGED vars
        PROVE  (TypeOK /\ Delivery)'
    <3> USE <2>2 DEF vars, registry, queues, counts, publishing, subscribing
    <3>1. TypeOK'
      BY SameTypes DEF TypeOK
    <3>2. Flying' /\ Iterating' /\ Waiting' /\ Naming'
      BY DEF Delivery, Flying, Active, Iterating, SubAlive, Waiting, Naming, Registered
    <3>3. Fates' /\ Orders' /\ Leftovers'
      BY DEF Delivery, Fates, Orders, Leftovers, Registered, Kept
    <3> QED
      BY <3>1, <3>2, <3>3 DEF Delivery
  <2> QED
    BY <2>1, <2>2
<1> QED
  BY <1>1, <1>2, PTL DEF Spec

\* Type correctness: every queue, list and counter of the gateway stays well formed
\* in every execution of gateway.py, whatever the number of tasks and sessions.
THEOREM TypeCorrect == Spec => []TypeOK
<1>1. TypeOK /\ Delivery => TypeOK
  OBVIOUS
<1> QED
  BY <1>1, DeliveryInvariant, PTL

\* gateway.py:175: what publish() returned is true: True means put into the queue
\* of the context registered when it began, False means never delivered; no message is
\* duplicated or in the queue of another context; and what an unregistered context's
\* queue still holds was put there by a publisher that unregister() found at it.
THEOREM ResultsAreTruthful == Spec => []ResultTruthful
<1>1. ASSUME TypeOK, Delivery
      PROVE  ResultTruthful
  <2>1. \A c \in Contexts : Registered(c) => Kept(c) \cap late = {}
    <3>1. \A m \in late : m \in Msgs /\ ~Registered(to[m])
      BY <1>1 DEF TypeOK, Delivery, Leftovers
    <3>2. \A m \in Msgs, c \in Contexts : m \in Kept(c) => c = to[m]
      BY <1>1 DEF Delivery, Fates
    <3> QED
      BY <3>1, <3>2
  <2>2. \A c \in Contexts : ~Registered(c) /\ c \notin closed => Elements(queue[c]) \subseteq late
    BY <1>1 DEF Delivery, Leftovers
  <2> QED
    BY <1>1, <2>1, <2>2 DEF TypeOK, Delivery, ResultTruthful, Fates, Orders
<1> QED
  BY <1>1, DeliveryInvariant, PTL

-----------------------------------------------------------------------------
(* The counters.                                                           *)

\* Publishers whose put has happened and whose message is not counted yet.
Uncounted(c) == {p \in Pubs : pub[p] = "put" /\ to[msg[p]] = c}

Balanced(c) ==
    /\ received[c] + Len(queue[c]) = sent[c] + Cardinality(Uncounted(c))
    /\ Len(queue[c]) <= MaxSize

LEMMA UncountedFinite ==
    ASSUME NEW c
    PROVE  IsFiniteSet(Uncounted(c)) /\ Cardinality(Uncounted(c)) \in Nat
<1>1. Uncounted(c) \subseteq Pubs
  BY DEF Uncounted
<1> QED
  BY <1>1, FS_Subset, FS_CardinalityType

LEMMA CountersType ==
    ASSUME TypeOK, NEW c \in Contexts
    PROVE  sent[c] \in Nat /\ received[c] \in Nat /\ Len(queue[c]) \in Nat
<1>1. sent \in [Contexts -> Nat] /\ received \in [Contexts -> Nat]
  BY DEF TypeOK, QueuesType
<1> QED
  BY <1>1, Contents

\* A publisher not past its put is not uncounted, whatever becomes of it.
LEMMA SameUncounted ==
    ASSUME TypeOK, Flying, NEW c,
           \A p \in Pubs : pub'[p] = "put" <=> pub[p] = "put",
           \A p \in Pubs : pub[p] = "put" => to'[msg'[p]] = to[msg[p]]
    PROVE  Uncounted(c)' = Uncounted(c)
BY DEF Uncounted

\* A step that leaves what one context counts as it is.
LEMMA SameBalanced ==
    ASSUME NEW c \in Contexts, Balanced(c), Uncounted(c)' = Uncounted(c),
           sent'[c] = sent[c], received'[c] = received[c], queue'[c] = queue[c]
    PROVE  Balanced(c)'
<1> HIDE DEF Uncounted
<1> QED
  BY DEF Balanced

LEMMA CountsStep ==
    ASSUME TypeOK, Delivery, CountsMatch, Next
    PROVE  CountsMatch'
<1>0. /\ Flying /\ Iterating /\ Waiting /\ Naming /\ Fates
      /\ \A c \in Contexts : Registered(c) => Balanced(c)
  BY DEF Delivery, CountsMatch, Balanced, Uncounted
<1> SUFFICES ASSUME NEW c \in Contexts, Registered(c)'
             PROVE  Balanced(c)'
  BY DEF CountsMatch, Balanced, Uncounted
<1> USE <1>0
<1> DEFINE Same == /\ pub' = pub /\ to' = to /\ msg' = msg
                   /\ queue' = queue /\ sent' = sent /\ received' = received
                   /\ sessions' = sessions
<1>1. CASE Same
  <2>1. Balanced(c)
    BY <1>1 DEF Registered
  <2>2. Uncounted(c)' = Uncounted(c)
    BY <1>1 DEF Uncounted
  <2> QED
    BY <1>1, <2>1, <2>2, SameBalanced
<1>2. ASSUME Start \/ \E u \in Subs : Break(u) \/ Leave(u) \/ \E s \in Sids : Subscribe(u, s)
      PROVE  Balanced(c)'
  <2>1. Same
    BY <1>2 DEF Start, Break, Leave, Subscribe, registry, queues, counts, publishing
  <2> QED
    BY <1>1, <2>1
<1>3. ASSUME NEW u \in Subs, NEW d \in Contexts, Wait(u, d)
      PROVE  Balanced(c)'
  <2>1. Same
    BY <1>3 DEF Wait, registry, counts, publishing
  <2> QED
    BY <1>1, <2>1
<1>4. CASE Stop
  <2>1. \A s \in Sids : sessions'[s] = 0
    BY <1>4 DEF Stop, StopWith
  <2> QED
    BY <2>1 DEF Registered
<1>5. ASSUME NEW s \in Sids, Register(s)
      PROVE  Balanced(c)'
  <2>1. /\ sessions' = [sessions EXCEPT ![s] = contexts + 1] /\ contexts \in Nat
        /\ UNCHANGED <<pub, msg, to, queue, sent, received>>
    BY <1>5 DEF Register, queues, counts, publishing, TypeOK, RegistryType
  <2>2. Uncounted(c)' = Uncounted(c)
    BY <2>1 DEF Uncounted
  <2>3. Registered(c) \/ c = contexts + 1
    BY <2>1 DEF Registered, TypeOK, RegistryType
  <2>4. CASE c = contexts + 1
    <3>1. queue[c] = <<>> /\ sent[c] = 0 /\ received[c] = 0
      BY <2>1, <2>4 DEF Naming
    <3>2. \A p \in Pubs : pub[p] = "put" => to[msg[p]] # c
      BY <2>1, <2>4 DEF Flying, Active
    <3>3. Uncounted(c) = {}
      BY <3>2 DEF Uncounted
    <3>4. Cardinality({}) = 0
      BY FS_EmptySet
    <3>5. Balanced(c)
      BY <3>1, <3>3, <3>4 DEF Balanced
    <3> QED
      BY <2>1, <2>2, <3>5, SameBalanced
  <2> QED
    BY <2>1, <2>2, <2>3, <2>4, SameBalanced
<1>6. ASSUME NEW s \in Sids, Unregister(s)
      PROVE  Balanced(c)'
  <2>1. /\ sessions[s] \in Contexts /\ sessions' = [sessions EXCEPT ![s] = 0]
        /\ queue' = [queue EXCEPT ![sessions[s]] = <<>>]
        /\ pub' = Woken(pub, First(putters[sessions[s]], Len(queue[sessions[s]])))
        /\ UNCHANGED <<msg, to, sent, received>>
    BY <1>6 DEF Unregister, counts, TypeOK, RegistryType
  <2>2. Registered(c) /\ c # sessions[s]
    <3>1. PICK r \in Sids : sessions'[r] = c
      BY DEF Registered
    <3>2. r # s /\ sessions[r] = c
      BY <2>1, <3>1 DEF TypeOK, RegistryType
    <3> QED
      BY <3>2 DEF Registered, Naming
  <2>3. queue'[c] = queue[c]
    BY <2>1, <2>2 DEF TypeOK, QueuesType
  <2>4. \A p \in Pubs : pub'[p] = "put" <=> pub[p] = "put"
    BY <2>1, CountersType, WokenPublishers
  <2>5. Uncounted(c)' = Uncounted(c)
    BY <2>1, <2>4 DEF Uncounted
  <2> QED
    BY <2>1, <2>2, <2>3, <2>5, SameBalanced
<1>7. ASSUME NEW p \in Pubs, NEW s \in Sids, Publish(p, s)
      PROVE  Balanced(c)'
  <2>1. /\ seq \in Nat /\ pub[p] = "idle" /\ to' = [to EXCEPT ![seq + 1] = sessions[s]]
        /\ UNCHANGED <<sessions, queue, sent, received>>
    BY <1>7 DEF Publish, registry, counts, TypeOK, PublishingType
  <2>2. \A q \in Pubs : /\ pub'[q] = "put" <=> pub[q] = "put"
                        /\ pub[q] = "put" => msg'[q] = msg[q]
    <3>1. CASE sessions[s] = 0
      BY <1>7, <3>1 DEF Publish
    <3>2. CASE sessions[s] # 0
      <4>1. pub' = [pub EXCEPT ![p] = "ready"] /\ msg' = [msg EXCEPT ![p] = seq + 1]
        BY <1>7, <3>2 DEF Publish
      <4> QED
        BY <2>1, <4>1 DEF TypeOK, PublishingType
    <3> QED
      BY <3>1, <3>2
  <2>3. \A q \in Pubs : pub[q] = "put" => to'[msg[q]] = to[msg[q]]
    <3>1. \A q \in Pubs : pub[q] = "put" => msg[q] \in Msgs /\ msg[q] \in 1 .. seq
      BY DEF Flying, Active
    <3>2. to \in [Msgs -> 0 .. MaxContexts]
      BY DEF TypeOK, PublishingType
    <3> QED
      BY <2>1, <3>1, <3>2
  <2>4. Uncounted(c)' = Uncounted(c)
    BY <2>2, <2>3 DEF Uncounted
  <2> QED
    BY <2>1, <2>4, SameBalanced DEF Registered
<1>8. ASSUME NEW p \in Pubs, Enter(p)
      PROVE  Balanced(c)'
  <2> DEFINE d == to[msg[p]]
  <2>1. /\ d \in Contexts /\ msg[p] \in Msgs /\ Put(p, d) /\ pub[p] \in {"ready", "woken"}
        /\ DOMAIN pub = Pubs
    BY <1>8 DEF Enter, Put, Flying, Active, TypeOK, PublishingType
  <2>2. UNCHANGED <<sessions, msg, to, sent, received>> /\ Balanced(c)
    BY <2>1 DEF Put, registry, counts, Registered
  <2>3. CASE Full(d)
    <3>1. queue' = queue /\ pub' = [pub EXCEPT ![p] = "blocked"]
      BY <2>1, <2>3 DEF Put
    <3>2. Uncounted(c)' = Uncounted(c)
      BY <2>1, <2>2, <3>1 DEF Uncounted
    <3> QED
      BY <2>2, <3>1, <3>2, SameBalanced
  <2>4. CASE ~Full(d)
    <3>1. /\ queue' = [queue EXCEPT ![d] = Append(queue[d], msg[p])]
          /\ pub' = [pub EXCEPT ![p] = "put"]
          /\ queue \in [Contexts -> Seq(Msgs \cup {Sentinel})]
      BY <2>1, <2>4 DEF Put, TypeOK, QueuesType
    <3>2. CASE c # d
      <4>1. queue'[c] = queue[c]
        BY <3>1, <3>2
      <4>2. Uncounted(c)' = Uncounted(c)
        BY <2>1, <2>2, <3>1, <3>2 DEF Uncounted
      <4> QED
        BY <2>2, <4>1, <4>2, SameBalanced
    <3>3. CASE c = d
      <4>1. Uncounted(c)' = Uncounted(c) \cup {p} /\ p \notin Uncounted(c)
        BY <2>1, <2>2, <3>1, <3>3 DEF Uncounted
      <4>2. Cardinality(Uncounted(c)') = Cardinality(Uncounted(c)) + 1
        BY <4>1, UncountedFinite, FS_AddElement
      <4>3. Len(queue'[c]) = Len(queue[c]) + 1 /\ Len(queue[c]) < MaxSize
        BY <2>4, <3>1, <3>3, CountersType DEF Full
      <4>4. sent'[c] = sent[c] /\ received'[c] = received[c]
        BY <2>2
      <4>5. /\ received[c] + Len(queue[c]) = sent[c] + Cardinality(Uncounted(c))
            /\ sent[c] \in Nat /\ received[c] \in Nat /\ Len(queue[c]) \in Nat
            /\ Cardinality(Uncounted(c)) \in Nat
        BY <2>2, UncountedFinite, CountersType DEF Balanced
      <4> HIDE DEF d, Uncounted
      <4>6. /\ received'[c] + Len(queue'[c]) = sent'[c] + Cardinality(Uncounted(c)')
            /\ Len(queue'[c]) <= MaxSize
        <5>1. MaxSize \in Nat
          OBVIOUS
        <5>2. Len(queue'[c]) <= MaxSize
          BY <4>3, <4>5, <5>1
        <5>3. received'[c] + Len(queue'[c]) = sent'[c] + Cardinality(Uncounted(c)')
          <6>1. received[c] + (Len(queue[c]) + 1) = sent[c] + (Cardinality(Uncounted(c)) + 1)
            BY <4>5, SMTT(60)
          <6> QED
            BY <4>2, <4>3, <4>4, <6>1
        <5> QED
          BY <5>2, <5>3
      <4> QED
        BY <4>6 DEF Balanced
    <3> QED
      BY <3>2, <3>3
  <2> QED
    BY <2>3, <2>4
<1>9. ASSUME NEW p \in Pubs, Return(p)
      PROVE  Balanced(c)'
  <2> DEFINE d == to[msg[p]]
  <2>1. /\ d \in Contexts /\ pub[p] = "put" /\ DOMAIN pub = Pubs
        /\ sent' = [sent EXCEPT ![d] = sent[d] + 1] /\ pub' = [pub EXCEPT ![p] = "idle"]
        /\ UNCHANGED <<sessions, msg, to, queue, received>>
    BY <1>9 DEF Return, Flying, Active, registry, queues, TypeOK, PublishingType
  <2>2. Balanced(c) /\ sent \in [Contexts -> Nat]
    BY <2>1 DEF Registered, TypeOK, QueuesType
  <2>3. CASE c # d
    <3>1. Uncounted(c)' = Uncounted(c) /\ sent'[c] = sent[c]
      BY <2>1, <2>2, <2>3 DEF Uncounted
    <3> QED
      BY <2>1, <2>2, <3>1, SameBalanced
  <2>4. CASE c = d
    <3>1. Uncounted(c)' = Uncounted(c) \ {p} /\ p \in Uncounted(c)
      BY <2>1, <2>4 DEF Uncounted
    <3>2. Cardinality(Uncounted(c)') = Cardinality(Uncounted(c)) - 1
      <4>1. IsFiniteSet(Uncounted(c))
        BY UncountedFinite
      <4>2. Cardinality(Uncounted(c) \ {p}) = Cardinality(Uncounted(c)) - 1
        BY <3>1, <4>1, FS_RemoveElement
      <4> QED
        BY <3>1, <4>2
    <3>3. sent'[c] = sent[c] + 1
      BY <2>1, <2>2, <2>4
    <3> HIDE DEF d
    <3> QED
      BY <2>1, <2>2, <3>2, <3>3, UncountedFinite, CountersType DEF Balanced
  <2> QED
    BY <2>3, <2>4
<1>10. ASSUME NEW p \in Pubs, Timeout(p)
       PROVE  Balanced(c)'
  <2> DEFINE d == to[msg[p]]
             n == IF pub[p] = "woken" /\ ~Full(d) THEN 1 ELSE 0
             w == Woken(pub, First(putters[d], n))
  <2>1. /\ d \in Contexts /\ pub[p] # "put" /\ GiveUp(p, d) /\ UNCHANGED sent
    BY <1>10 DEF Timeout, GiveUp, Flying, Active
  <2>2. /\ pub' = [w EXCEPT ![p] = "idle"] /\ DOMAIN w = Pubs /\ n \in Nat
        /\ UNCHANGED <<sessions, queue, received, msg, to>>
    BY <2>1 DEF GiveUp, registry, TypeOK, PublishingType, Woken
  <2> HIDE DEF d, n
  <2>3. \A q \in Pubs : w[q] = "put" <=> pub[q] = "put"
    BY <2>1, <2>2, WokenPublishers
  <2> HIDE DEF w
  <2>4. Uncounted(c)' = Uncounted(c)
    BY <2>1, <2>2, <2>3 DEF Uncounted
  <2> QED
    BY <2>1, <2>2, <2>4, SameBalanced DEF Registered
<1>11. ASSUME NEW u \in Subs, NEW d \in Contexts, Take(u, d)
       PROVE  Balanced(c)'
  <2>1. /\ queue[d] # <<>> /\ queue' = [queue EXCEPT ![d] = Tail(queue[d])]
        /\ pub' = Woken(pub, First(putters[d], 1))
        /\ UNCHANGED <<sessions, sent, msg, to>>
        /\ queue \in [Contexts -> Seq(Msgs \cup {Sentinel})]
        /\ received \in [Contexts -> Nat]
    <3>1. /\ queue \in [Contexts -> Seq(Msgs \cup {Sentinel})]
          /\ received \in [Contexts -> Nat]
      BY DEF TypeOK, QueuesType
    <3> QED
      BY <1>11, <3>1 DEF Take, Get, registry
  <2>2. Registered(c) /\ Balanced(c)
    BY <2>1 DEF Registered
  <2>3. \A q \in Pubs : pub'[q] = "put" <=> pub[q] = "put"
    <3>1. pub' = Woken(pub, First(putters[d], 1)) /\ 1 \in Nat
      BY <2>1
    <3>2. \A q \in Pubs : pub'[q] = pub[q] \/ (pub[q] = "blocked" /\ pub'[q] = "woken")
      BY <3>1, WokenPublishers
    <3> QED
      BY <3>2
  <2>4. Uncounted(c)' = Uncounted(c)
    BY <2>1, <2>3 DEF Uncounted
  <2>5. CASE c # d
    <3>1. queue'[c] = queue[c] /\ received'[c] = received[c]
      <4>1. CASE Head(queue[d]) # Sentinel
        BY <1>11, <2>1, <2>5, <4>1 DEF Take, Yield
      <4>2. CASE Head(queue[d]) = Sentinel
        BY <1>11, <2>1, <2>5, <4>2 DEF Take
      <4> QED
        BY <4>1, <4>2
    <3> QED
      BY <2>1, <2>2, <2>4, <3>1, SameBalanced
  <2>6. CASE c = d
    <3>1. Head(queue[d]) # Sentinel
      BY <2>1, <2>2, <2>6, TailElements DEF Naming
    <3>2. received'[c] = received[c] + 1
      BY <1>11, <2>1, <2>6, <3>1 DEF Take, Yield
    <3>3. queue[c] \in Seq(Msgs \cup {Sentinel}) /\ queue[c] # <<>> /\ queue'[c] = Tail(queue[c])
      BY <2>1, <2>6
    <3>4. Len(queue'[c]) = Len(queue[c]) - 1
      BY <3>3
    <3>5. /\ received[c] + Len(queue[c]) = sent[c] + Cardinality(Uncounted(c))
          /\ Len(queue[c]) <= MaxSize
          /\ sent[c] \in Nat /\ received[c] \in Nat /\ Len(queue[c]) \in Nat
          /\ Cardinality(Uncounted(c)) \in Nat
      BY <2>2, UncountedFinite, CountersType DEF Balanced
    <3>6. sent'[c] = sent[c]
      BY <2>1
    <3> HIDE DEF Uncounted
    <3>7. /\ received'[c] + Len(queue'[c]) = sent'[c] + Cardinality(Uncounted(c)')
          /\ Len(queue'[c]) <= MaxSize
      BY <2>4, <3>2, <3>4, <3>5, <3>6, SMTT(60)
    <3> QED
      BY <3>7 DEF Balanced
  <2> QED
    BY <2>5, <2>6
<1> QED
  BY <1>2, <1>3, <1>4, <1>5, <1>6, <1>7, <1>8, <1>9, <1>10, <1>11, Steps

\* gateway.py:36-41: the backpressure of a registered session is its queue's length
\* less the publishers that have put and not yet counted, and no queue is longer
\* than max_queue_size, for any number of publishers.
THEOREM CountersMatch == Spec => []CountsMatch
<1>1. Init => CountsMatch
  <2>1. Init => \A c \in Contexts : ~Registered(c)
    BY DEF Init, Registered
  <2> QED
    BY <2>1 DEF CountsMatch
<1>2. TypeOK /\ Delivery /\ CountsMatch /\ [Next]_vars => CountsMatch'
  <2>1. CASE UNCHANGED vars
    BY <2>1 DEF vars, registry, queues, counts, publishing, CountsMatch, Registered
  <2> QED
    BY <2>1, CountsStep
<1> QED
  BY <1>1, <1>2, DeliveryInvariant, PTL DEF Spec

-----------------------------------------------------------------------------
(* Wake-ups.                                                               *)

\* Publishers of a context, and its subscribers, that have a wake-up to use.
WokenFor(c) == {p \in Pubs : pub[p] = "woken" /\ to[msg[p]] = c}
WokenAt(c) == {u \in Subs : sub[u] = "woken" /\ at[u] = c}

\* Nobody waits for a place, or for a message, that is there and that no wake-up
\* is on its way for: one that is lost in a timeout, a cancellation or a stop would
\* leave the others waiting.
PlacesOffered(c) ==
    putters[c] # <<>> => MaxSize <= Len(queue[c]) + Cardinality(WokenFor(c))

MessagesOffered(c) ==
    getters[c] # <<>> => Len(queue[c]) <= Cardinality(WokenAt(c))

NoWakeUpLost == \A c \in Contexts : PlacesOffered(c) /\ MessagesOffered(c)

\* The subscribers on a context's waiting list wait for this context, each once.
Listening ==
    \A c \in Contexts :
        /\ Distinct(getters[c])
        /\ \A u \in Elements(getters[c]) : sub[u] = "waiting" /\ at[u] = c

-----------------------------------------------------------------------------

\* n wake-ups that leave somebody on the list have woken n.
LEMMA FirstSize ==
    ASSUME NEW S, NEW s \in Seq(S), NEW n \in Nat, Distinct(s), Rest(s, n) # <<>>
    PROVE  /\ IsFiniteSet(Elements(First(s, n)))
           /\ Cardinality(Elements(First(s, n))) = n
<1>1. Len(s) \in Nat
  OBVIOUS
<1>2. n < Len(s)
  <2>1. CASE n >= Len(s)
    <3>1. Rest(s, n) = SubSeq(s, n + 1, Len(s)) /\ n + 1 > Len(s)
      BY <1>1, <2>1 DEF Rest
    <3>2. Len(SubSeq(s, n + 1, Len(s))) = 0
      BY <1>1, <2>1
    <3> QED
      BY <3>1, <3>2
  <2> QED
    BY <1>1, <2>1
<1>3. First(s, n) = SubSeq(s, 1, n)
  BY <1>1, <1>2 DEF First
<1>4. /\ Len(First(s, n)) = n
      /\ \A i \in 1 .. n : First(s, n)[i] = s[i]
  BY <1>1, <1>2, <1>3
<1> DEFINE f == [i \in 1 .. n |-> First(s, n)[i]]
           T == Elements(First(s, n))
<1>5. f \in [1 .. n -> T] /\ \A t \in T : \E i \in 1 .. n : f[i] = t
  BY <1>4 DEF Elements
<1>6. \A i, j \in 1 .. n : f[i] = f[j] => i = j
  BY <1>1, <1>2, <1>4 DEF Distinct
<1>7. f \in Bijection(1 .. n, T)
  BY <1>5, <1>6 DEF Bijection, Injection, Surjection, IsInjective
<1>8. IsFiniteSet(1 .. n) /\ Cardinality(1 .. n) = n
  BY FS_Interval
<1> HIDE DEF f, T
<1>9. ExistsBijection(1 .. n, T)
  BY <1>7 DEF ExistsBijection
<1> QED
  BY <1>8, <1>9, FS_Bijection DEF T

LEMMA WokenMore ==
    ASSUME NEW S, NEW s \in Seq(S), NEW n \in Nat, Distinct(s), Rest(s, n) # <<>>,
           NEW W, IsFiniteSet(W), W \cap Elements(s) = {}
    PROVE  /\ IsFiniteSet(W \cup Elements(First(s, n)))
           /\ Cardinality(W \cup Elements(First(s, n))) = Cardinality(W) + n
<1> DEFINE F == Elements(First(s, n))
<1>1. IsFiniteSet(F) /\ Cardinality(F) = n
  BY FirstSize
<1>2. F \subseteq Elements(s)
  BY FirstType
<1> HIDE DEF F
<1>3. W \cap F = {}
  BY <1>2
<1>4. Cardinality(W \cap F) = 0
  BY <1>3, FS_EmptySet
<1>5. Cardinality(W) \in Nat
  BY FS_CardinalityType
<1>6. IsFiniteSet(W \cup F) /\ Cardinality(W \cup F) = Cardinality(W) + Cardinality(F) - 0
  BY <1>1, <1>4, FS_Union
<1> QED
  BY <1>1, <1>5, <1>6 DEF F

LEMMA RestOfNone ==
    ASSUME NEW S, NEW n \in Nat PROVE Rest(<<>>, n) = <<>> /\ \A x : Without(<<>>, x) = <<>>
<1>1. Len(<<>>) = 0 OBVIOUS
<1>2. SubSeq(<<>>, n + 1, 0) = <<>> OBVIOUS
<1> QED
  BY <1>1, <1>2 DEF Rest, Without, Elements

-----------------------------------------------------------------------------
(* Publishers.                                                             *)

LEMMA WokenForFinite ==
    ASSUME NEW c PROVE IsFiniteSet(WokenFor(c)) /\ Cardinality(WokenFor(c)) \in Nat
<1>1. WokenFor(c) \subseteq Pubs
  BY DEF WokenFor
<1> QED
  BY <1>1, FS_Subset, FS_CardinalityType

\* The publishers with a wake-up once n have been woken.
LEMMA PuttersWoken ==
    ASSUME TypeOK, Waiting, NEW c \in Contexts, NEW n \in Nat
    PROVE  /\ {p \in Pubs : Woken(pub, First(putters[c], n))[p] = "woken" /\ to[msg[p]] = c}
                  = WokenFor(c) \cup Elements(First(putters[c], n))
           /\ \A d \in Contexts \ {c} :
                  {p \in Pubs : Woken(pub, First(putters[c], n))[p] = "woken" /\ to[msg[p]] = d}
                      = WokenFor(d)
           /\ WokenFor(c) \cap Elements(putters[c]) = {}
<1>1. DOMAIN pub = Pubs /\ putters[c] \in Seq(Pubs)
  BY DEF TypeOK, PublishingType, QueuesType
<1>2. \A p \in Elements(putters[c]) : p \in Pubs /\ pub[p] = "blocked" /\ to[msg[p]] = c
  BY Blocked
<1>3. Elements(First(putters[c], n)) \subseteq Elements(putters[c])
  BY <1>1, FirstType
<1> DEFINE e == Elements(First(putters[c], n))
           w == Woken(pub, First(putters[c], n))
<1>4. \A p \in Pubs : w[p] = (IF p \in e THEN "woken" ELSE pub[p])
  BY <1>1 DEF Woken
<1>5. \A p \in e : p \in Pubs /\ to[msg[p]] = c
  BY <1>2, <1>3
<1> HIDE DEF e, w
<1>6. {p \in Pubs : w[p] = "woken" /\ to[msg[p]] = c} = WokenFor(c) \cup e
  BY <1>4, <1>5 DEF WokenFor
<1>7. \A d \in Contexts \ {c} :
          {p \in Pubs : w[p] = "woken" /\ to[msg[p]] = d} = WokenFor(d)
  BY <1>4, <1>5 DEF WokenFor
<1>8. WokenFor(c) \cap Elements(putters[c]) = {}
  BY <1>2 DEF WokenFor
<1> QED
  BY <1>6, <1>7, <1>8 DEF e, w

\* Waking publishers of d wakes none of c.
LEMMA OthersWoken ==
    ASSUME TypeOK, Waiting, NEW d \in Contexts, NEW c \in Contexts, c # d, NEW n \in Nat,
           pub' = Woken(pub, First(putters[d], n)), UNCHANGED <<msg, to>>
    PROVE  WokenFor(c)' = WokenFor(c)
<1> DEFINE w == Woken(pub, First(putters[d], n))
<1>1. {p \in Pubs : w[p] = "woken" /\ to[msg[p]] = c} = WokenFor(c)
  BY PuttersWoken
<1>2. pub' = w
  OBVIOUS
<1> HIDE DEF w
<1>3. WokenFor(c)' = {p \in Pubs : w[p] = "woken" /\ to[msg[p]] = c}
  BY <1>2 DEF WokenFor
<1> QED
  BY <1>1, <1>3

LEMMA PlacesStay ==
    ASSUME TypeOK, NEW c \in Contexts, PlacesOffered(c), putters'[c] = putters[c],
           Len(queue[c]) <= Len(queue'[c]), Len(queue'[c]) \in Nat,
           WokenFor(c)' = WokenFor(c)
    PROVE  PlacesOffered(c)'
<1>1. Cardinality(WokenFor(c)) \in Nat /\ Len(queue[c]) \in Nat
  BY WokenForFinite, CountersType
<1> HIDE DEF WokenFor
<1> QED
  BY <1>1 DEF PlacesOffered

\* Waking n publishers makes up for n messages less in the queue.
LEMMA PlacesGiven ==
    ASSUME TypeOK, Waiting, NEW c \in Contexts, NEW n \in Nat, PlacesOffered(c),
           putters' = [putters EXCEPT ![c] = Rest(putters[c], n)],
           pub' = Woken(pub, First(putters[c], n)), UNCHANGED <<msg, to>>,
           Len(queue'[c]) + n = Len(queue[c]), Len(queue'[c]) \in Nat
    PROVE  PlacesOffered(c)'
<1> SUFFICES ASSUME putters'[c] # <<>>
             PROVE  MaxSize <= Len(queue'[c]) + Cardinality(WokenFor(c)')
  BY DEF PlacesOffered
<1>1. putters \in [Contexts -> Seq(Pubs)]
  BY DEF TypeOK, QueuesType
<1>2. Rest(putters[c], n) # <<>> /\ putters[c] # <<>>
  BY <1>1, RestOfNone
<1>3. WokenFor(c)' = WokenFor(c) \cup Elements(First(putters[c], n))
  <2> DEFINE w == Woken(pub, First(putters[c], n))
  <2>1. {p \in Pubs : w[p] = "woken" /\ to[msg[p]] = c}
            = WokenFor(c) \cup Elements(First(putters[c], n))
    BY PuttersWoken
  <2>2. pub' = w
    OBVIOUS
  <2> HIDE DEF w
  <2>3. WokenFor(c)' = {p \in Pubs : w[p] = "woken" /\ to[msg[p]] = c}
    BY <2>2 DEF WokenFor
  <2> QED
    BY <2>1, <2>3
<1>4. Cardinality(WokenFor(c)') = Cardinality(WokenFor(c)) + n
  <2>1. Distinct(putters[c]) /\ putters[c] \in Seq(Pubs)
    BY <1>1 DEF Waiting
  <2>2. WokenFor(c) \cap Elements(putters[c]) = {}
    BY PuttersWoken
  <2>3. IsFiniteSet(WokenFor(c))
    BY WokenForFinite
  <2> QED
    BY <1>2, <1>3, <2>1, <2>2, <2>3, WokenMore
<1>5. MaxSize <= Len(queue[c]) + Cardinality(WokenFor(c))
  BY <1>2 DEF PlacesOffered
<1>6. Cardinality(WokenFor(c)) \in Nat /\ Len(queue[c]) \in Nat
  BY WokenForFinite, CountersType
<1> HIDE DEF WokenFor
<1> QED
  BY <1>4, <1>5, <1>6

\* A queue that is full has no place to offer.
LEMMA FullOffers ==
    ASSUME NEW c \in Contexts, Len(queue'[c]) \in Nat, MaxSize <= Len(queue'[c]),
           Cardinality(WokenFor(c)') \in Nat
    PROVE  PlacesOffered(c)'
<1> HIDE DEF WokenFor
<1> QED
  BY DEF PlacesOffered

LEMMA EnterPlaces ==
    ASSUME TypeOK, Flying, NEW p \in Pubs, Enter(p), NEW c \in Contexts, PlacesOffered(c),
           TypeOK'
    PROVE  PlacesOffered(c)'
<1> DEFINE d == to[msg[p]]
<1>1. /\ d \in Contexts /\ Put(p, d) /\ pub[p] \in {"ready", "woken"}
      /\ pub \in [Pubs -> {"idle", "ready", "blocked", "woken", "put"}]
      /\ queue \in [Contexts -> Seq(Msgs \cup {Sentinel})] /\ putters \in [Contexts -> Seq(Pubs)]
      /\ msg[p] \in Msgs
  BY DEF Enter, Put, Flying, Active, TypeOK, PublishingType, QueuesType
<1>2. UNCHANGED <<msg, to>> /\ Len(queue[c]) \in Nat /\ Len(queue'[c]) \in Nat
  <2>1. Len(queue'[c]) \in Nat
    BY DEF TypeOK, QueuesType
  <2> QED
    BY <1>1, <2>1, CountersType DEF Put
<1>3. CASE Full(d)
  <2>1. /\ queue' = queue /\ pub' = [pub EXCEPT ![p] = "blocked"]
        /\ putters' = [putters EXCEPT ![d] = Append(putters[d], p)]
    BY <1>1, <1>3 DEF Put
  <2>2. CASE c = d
    <3>1. MaxSize <= Len(queue'[c])
      BY <1>3, <2>1, <2>2 DEF Full
    <3>2. Cardinality(WokenFor(c)') \in Nat
      <4>1. WokenFor(c)' \subseteq Pubs
        BY DEF WokenFor
      <4> QED
        BY <4>1, FS_Subset, FS_CardinalityType
    <3> QED
      BY <1>2, <3>1, <3>2, FullOffers
  <2>3. CASE c # d
    <3>1. WokenFor(c)' = WokenFor(c) /\ putters'[c] = putters[c]
      BY <1>1, <1>2, <2>1, <2>3 DEF WokenFor
    <3>2. Len(queue[c]) <= Len(queue'[c])
      BY <1>2, <2>1
    <3> QED
      BY <1>2, <3>1, <3>2, PlacesStay
  <2> QED
    BY <2>2, <2>3
<1>4. CASE ~Full(d)
  <2>1. /\ queue' = [queue EXCEPT ![d] = Append(queue[d], msg[p])]
        /\ pub' = [pub EXCEPT ![p] = "put"] /\ putters' = putters
    BY <1>1, <1>4 DEF Put
  <2>2. CASE c # d
    <3>1. WokenFor(c)' = WokenFor(c) /\ queue'[c] = queue[c]
      BY <1>1, <1>2, <2>1, <2>2 DEF WokenFor
    <3>2. Len(queue[c]) <= Len(queue'[c])
      BY <1>2, <3>1
    <3> QED
      BY <1>2, <2>1, <3>1, <3>2, PlacesStay
  <2>3. CASE c = d
    <3>1. Len(queue'[c]) = Len(queue[c]) + 1
      BY <1>1, <2>1, <2>3
    <3>2. WokenFor(c)' = WokenFor(c) \ {p}
      BY <1>1, <1>2, <2>1 DEF WokenFor
    <3>3. IsFiniteSet(WokenFor(c)) /\ Cardinality(WokenFor(c)) \in Nat
      BY WokenForFinite
    <3>4. Cardinality(WokenFor(c)') \in {Cardinality(WokenFor(c)) - 1, Cardinality(WokenFor(c))}
      <4>1. Cardinality(WokenFor(c) \ {p}) \in
                {Cardinality(WokenFor(c)) - 1, Cardinality(WokenFor(c))}
        BY <3>3, FS_RemoveElement
      <4> QED
        BY <3>2, <4>1
    <3>5. putters'[c] # <<>> => MaxSize <= Len(queue[c]) + Cardinality(WokenFor(c))
      BY <2>1 DEF PlacesOffered
    <3> HIDE DEF WokenFor, d
    <3>6. putters'[c] # <<>> => MaxSize <= Len(queue'[c]) + Cardinality(WokenFor(c)')
      BY <1>2, <3>1, <3>3, <3>4, <3>5
    <3> QED
      BY <3>6 DEF PlacesOffered
  <2> QED
    BY <2>2, <2>3
<1> QED
  BY <1>3, <1>4

LEMMA TimeoutPlaces ==
    ASSUME TypeOK, Flying, Waiting, NEW p \in Pubs, Timeout(p), NEW c \in Contexts,
           PlacesOffered(c)
    PROVE  PlacesOffered(c)'
<1> DEFINE d == to[msg[p]]
           n == IF pub[p] = "woken" /\ ~Full(d) THEN 1 ELSE 0
           w == Woken(pub, First(putters[d], n))
<1>1. /\ d \in Contexts /\ GiveUp(p, d) /\ pub[p] \in {"blocked", "woken"} /\ n \in Nat
      /\ putters \in [Contexts -> Seq(Pubs)]
      /\ pub \in [Pubs -> {"idle", "ready", "blocked", "woken", "put"}]
  BY DEF Timeout, GiveUp, Flying, Active, TypeOK, QueuesType, PublishingType
<1>2. /\ putters' = [putters EXCEPT ![d] = Rest(Without(putters[d], p), n)]
      /\ pub' = [w EXCEPT ![p] = "idle"] /\ UNCHANGED <<queue, msg, to>>
      /\ DOMAIN w = Pubs
  BY <1>1 DEF GiveUp, Woken
<1>3. /\ {q \in Pubs : w[q] = "woken" /\ to[msg[q]] = d}
             = WokenFor(d) \cup Elements(First(putters[d], n))
      /\ \A e \in Contexts \ {d} : {q \in Pubs : w[q] = "woken" /\ to[msg[q]] = e} = WokenFor(e)
      /\ WokenFor(d) \cap Elements(putters[d]) = {}
  BY <1>1, PuttersWoken
<1>4. Len(queue[c]) \in Nat /\ Len(queue'[c]) = Len(queue[c])
  BY <1>2, CountersType
<1>5. CASE c # d
  <2> HIDE DEF d, n
  <2>1. to[msg[p]] = d
    BY DEF d
  <2>2. WokenFor(c)' = {q \in Pubs : w[q] = "woken" /\ to[msg[q]] = c}
    <3> HIDE DEF w
    <3> QED
      BY <1>2, <1>5, <2>1 DEF WokenFor
  <2>3. WokenFor(c)' = WokenFor(c)
    BY <1>3, <1>5, <2>2
  <2>4. putters'[c] = putters[c]
    BY <1>1, <1>2, <1>5
  <2>5. Len(queue[c]) <= Len(queue'[c]) /\ Len(queue'[c]) \in Nat
    BY <1>4
  <2> QED
    BY <2>3, <2>4, <2>5, PlacesStay
<1>6. CASE c = d
  <2>1. CASE Full(d)
    <3>1. MaxSize <= Len(queue'[c])
      BY <1>2, <1>6, <2>1 DEF Full
    <3>2. Cardinality(WokenFor(c)') \in Nat
      <4>1. WokenFor(c)' \subseteq Pubs
        BY DEF WokenFor
      <4> QED
        BY <4>1, FS_Subset, FS_CardinalityType
    <3>3. Len(queue'[c]) \in Nat
      BY <1>4
    <3> QED
      BY <3>1, <3>2, <3>3, FullOffers
  <2>2. CASE ~Full(d) /\ pub[p] = "blocked"
    <3>1. n = 0
      BY <2>2
    <3>2. Elements(First(putters[d], n)) = {}
      BY <1>1, <3>1, FirstNone
    <3>3. p \notin WokenFor(d)
      BY <2>2 DEF WokenFor
    <3>4. WokenFor(c)' = WokenFor(c)
      <4>1. pub' = [w EXCEPT ![p] = "idle"] /\ DOMAIN w = Pubs /\ msg' = msg /\ to' = to
        BY <1>2
      <4>2. {q \in Pubs : w[q] = "woken" /\ to[msg[q]] = c} = WokenFor(c) /\ p \notin WokenFor(c)
        BY <1>3, <1>6, <3>2, <3>3
      <4> HIDE DEF w, d
      <4>3. \A q \in Pubs : pub'[q] = IF q = p THEN "idle" ELSE w[q]
        BY <4>1
      <4>4. WokenFor(c)' = {q \in Pubs : w[q] = "woken" /\ to[msg[q]] = c} \ {p}
        BY <4>1, <4>3 DEF WokenFor
      <4> QED
        BY <4>2, <4>4
    <3>5. putters'[c] # <<>> => putters[c] # <<>>
      BY <1>1, <1>2, <1>6, RestOfNone
    <3> HIDE DEF WokenFor
    <3> QED
      BY <1>4, <3>4, <3>5 DEF PlacesOffered
  <2>3. CASE ~Full(d) /\ pub[p] = "woken"
    <3>1. n = 1
      BY <2>3
    <3>2. p \in WokenFor(d)
      BY <2>3 DEF WokenFor
    <3>3. p \notin Elements(putters[d])
      BY <1>3, <3>2
    <3>4. putters' = [putters EXCEPT ![d] = Rest(putters[d], 1)]
      BY <1>2, <3>1, <3>3 DEF Without
    <3> SUFFICES ASSUME putters'[c] # <<>>
                 PROVE  MaxSize <= Len(queue'[c]) + Cardinality(WokenFor(c)')
      BY DEF PlacesOffered
    <3>5. Rest(putters[c], 1) # <<>> /\ putters[c] # <<>>
      BY <1>1, <1>6, <3>4, RestOfNone
    <3> DEFINE more == WokenFor(c) \cup Elements(First(putters[c], 1))
    <3>6. WokenFor(c)' = more \ {p}
      <4>1. more = {q \in Pubs : w[q] = "woken" /\ to[msg[q]] = d}
        BY <1>3, <1>6, <3>1
      <4>2. pub' = [w EXCEPT ![p] = "idle"] /\ DOMAIN w = Pubs /\ msg' = msg /\ to' = to
        BY <1>2
      <4> HIDE DEF w, d, more
      <4>3. \A q \in Pubs : pub'[q] = IF q = p THEN "idle" ELSE w[q]
        BY <4>2
      <4> QED
        BY <1>6, <4>1, <4>2, <4>3 DEF WokenFor
    <3>7. IsFiniteSet(more) /\ Cardinality(more) = Cardinality(WokenFor(c)) + 1
      <4>1. Distinct(putters[c]) /\ putters[c] \in Seq(Pubs)
        BY <1>1 DEF Waiting
      <4>2. WokenFor(c) \cap Elements(putters[c]) = {}
        BY <1>3, <1>6
      <4>3. IsFiniteSet(WokenFor(c))
        BY WokenForFinite
      <4> QED
        BY <3>5, <4>1, <4>2, <4>3, WokenMore
    <3>8. p \in more
      BY <1>6, <3>2
    <3>9. MaxSize <= Len(queue[c]) + Cardinality(WokenFor(c))
      BY <3>5 DEF PlacesOffered
    <3>10. Cardinality(WokenFor(c)) \in Nat
      BY WokenForFinite
    <3> HIDE DEF more, WokenFor
    <3>11. Cardinality(more \ {p}) = Cardinality(more) - 1
      BY <3>7, <3>8, FS_RemoveElement
    <3>12. Cardinality(WokenFor(c)') = Cardinality(WokenFor(c))
      BY <3>6, <3>7, <3>10, <3>11
    <3> QED
      BY <1>4, <3>9, <3>12
  <2> QED
    BY <1>1, <2>1, <2>2, <2>3
<1> QED
  BY <1>5, <1>6

\* No step leaves a place that is there without a wake-up.
LEMMA PlacesStep ==
    ASSUME TypeOK, TypeOK', Flying, Iterating, Waiting, Naming, NEW c \in Contexts,
           PlacesOffered(c), Next
    PROVE  PlacesOffered(c)'
<1>0. Len(queue[c]) \in Nat /\ Len(queue'[c]) \in Nat /\ Len(queue[c]) <= Len(queue[c])
  <2>1. Len(queue'[c]) \in Nat
    BY DEF TypeOK, QueuesType
  <2> QED
    BY <2>1, CountersType
<1>1. CASE /\ UNCHANGED <<putters, pub, msg, to>>
           /\ Len(queue[c]) <= Len(queue'[c])
  <2>1. WokenFor(c)' = WokenFor(c)
    BY <1>1 DEF WokenFor
  <2> QED
    BY <1>0, <1>1, <2>1, PlacesStay
<1>2. CASE Start
  BY <1>0, <1>1, <1>2 DEF Start, queues, publishing
<1>3. CASE Stop
  <2> DEFINE told == {d \in Contexts : Registered(d) /\ ~Full(d)}
  <2>1. /\ queue' = [d \in Contexts |-> IF d \in told THEN Append(queue[d], Sentinel) ELSE queue[d]]
        /\ UNCHANGED <<putters, pub, msg, to>>
    BY <1>3 DEF Stop, StopWith
  <2> HIDE DEF told
  <2>2. queue'[c] = Append(queue[c], Sentinel) \/ queue'[c] = queue[c]
    BY <2>1
  <2>3. queue[c] \in Seq(Msgs \cup {Sentinel})
    BY DEF TypeOK, QueuesType
  <2>4. Len(queue[c]) <= Len(queue'[c])
    BY <1>0, <2>2, <2>3
  <2> QED
    BY <1>1, <2>1, <2>4
<1>4. ASSUME NEW s \in Sids, Register(s)
      PROVE  PlacesOffered(c)'
  BY <1>0, <1>1, <1>4 DEF Register, queues, publishing
<1>5. ASSUME NEW s \in Sids, Unregister(s)
      PROVE  PlacesOffered(c)'
  <2> DEFINE d == sessions[s]
             n == Len(queue[d])
  <2>1. /\ d \in Contexts
        /\ queue' = [queue EXCEPT ![d] = <<>>]
        /\ putters' = [putters EXCEPT ![d] = Rest(putters[d], n)]
        /\ pub' = Woken(pub, First(putters[d], n))
        /\ UNCHANGED <<msg, to>>
    BY <1>5 DEF Unregister, TypeOK, RegistryType
  <2>2. n \in Nat /\ queue \in [Contexts -> Seq(Msgs \cup {Sentinel})]
    BY <2>1, CountersType DEF TypeOK, QueuesType
  <2> HIDE DEF d, n
  <2>3. CASE c = d
    <3>1. Len(queue'[c]) = 0 /\ Len(queue[c]) = n
      BY <2>1, <2>2, <2>3 DEF n
    <3>2. Len(queue'[c]) + n = Len(queue[c])
      BY <2>2, <3>1
    <3> QED
      BY <1>0, <2>1, <2>2, <2>3, <3>2, PlacesGiven
  <2>4. CASE c # d
    <3>1. WokenFor(c)' = WokenFor(c)
      BY <2>1, <2>2, <2>4, OthersWoken
    <3>2. putters'[c] = putters[c] /\ queue'[c] = queue[c]
      BY <2>1, <2>2, <2>4 DEF TypeOK, QueuesType
    <3> QED
      BY <1>0, <3>1, <3>2, PlacesStay
  <2> QED
    BY <2>3, <2>4
<1>6. ASSUME NEW p \in Pubs, NEW s \in Sids, Publish(p, s)
      PROVE  PlacesOffered(c)'
  <2>1. /\ seq + 1 \in Msgs /\ seq \in Nat /\ UNCHANGED <<queue, putters>>
        /\ to' = [to EXCEPT ![seq + 1] = sessions[s]]
        /\ pub[p] = "idle" /\ pub \in [Pubs -> {"idle", "ready", "blocked", "woken", "put"}]
        /\ msg \in [Pubs -> 0 .. MaxMsgs] /\ to \in [Msgs -> 0 .. MaxContexts]
        /\ \/ UNCHANGED <<pub, msg>>
           \/ /\ pub' = [pub EXCEPT ![p] = "ready"]
              /\ msg' = [msg EXCEPT ![p] = seq + 1]
    BY <1>6 DEF Publish, TypeOK, PublishingType
  <2>2. \A q \in Pubs : pub[q] = "woken" \/ pub'[q] = "woken" =>
            pub'[q] = pub[q] /\ msg'[q] = msg[q] /\ to'[msg[q]] = to[msg[q]]
    <3> TAKE q \in Pubs
    <3>1. pub[q] = "woken" \/ pub'[q] = "woken" =>
              pub'[q] = pub[q] /\ msg'[q] = msg[q] /\ pub[q] = "woken"
      BY <2>1
    <3>2. pub[q] = "woken" => msg[q] \in 1 .. seq /\ msg[q] \in Msgs
      BY DEF Flying, Active
    <3>3. pub[q] = "woken" => to'[msg[q]] = to[msg[q]]
      BY <2>1, <3>2
    <3> QED
      BY <3>1, <3>3
  <2>3. WokenFor(c)' = WokenFor(c)
    BY <2>2 DEF WokenFor
  <2> QED
    BY <1>0, <2>1, <2>3, PlacesStay
<1>7. ASSUME NEW p \in Pubs, Enter(p)
      PROVE  PlacesOffered(c)'
  BY <1>7, EnterPlaces
<1>8. ASSUME NEW p \in Pubs, Return(p)
      PROVE  PlacesOffered(c)'
  <2>1. /\ pub[p] = "put" /\ pub' = [pub EXCEPT ![p] = "idle"] /\ UNCHANGED <<queue, putters, msg, to>>
        /\ pub \in [Pubs -> {"idle", "ready", "blocked", "woken", "put"}]
    BY <1>8 DEF Return, queues, TypeOK, PublishingType
  <2>2. WokenFor(c)' = WokenFor(c)
    BY <2>1 DEF WokenFor
  <2> QED
    BY <1>0, <2>1, <2>2, PlacesStay
<1>9. ASSUME NEW p \in Pubs, Timeout(p)
      PROVE  PlacesOffered(c)'
  BY <1>9, TimeoutPlaces
<1>10. ASSUME NEW u \in Subs, NEW s \in Sids, Subscribe(u, s)
       PROVE  PlacesOffered(c)'
  BY <1>0, <1>1, <1>10 DEF Subscribe, queues, publishing
<1>11. ASSUME NEW u \in Subs, Break(u) \/ Leave(u)
       PROVE  PlacesOffered(c)'
  BY <1>0, <1>1, <1>11 DEF Break, Leave, queues, publishing
<1>12. ASSUME NEW u \in Subs, NEW d \in Contexts, Wait(u, d)
       PROVE  PlacesOffered(c)'
  BY <1>0, <1>1, <1>12 DEF Wait, queues, publishing
<1>13. ASSUME NEW u \in Subs, NEW d \in Contexts, Take(u, d)
       PROVE  PlacesOffered(c)'
  <2>1. /\ queue[d] # <<>> /\ queue' = [queue EXCEPT ![d] = Tail(queue[d])]
        /\ putters' = [putters EXCEPT ![d] = Rest(putters[d], 1)]
        /\ pub' = Woken(pub, First(putters[d], 1))
        /\ UNCHANGED <<msg, to>>
        /\ queue \in [Contexts -> Seq(Msgs \cup {Sentinel})] /\ putters \in [Contexts -> Seq(Pubs)]
    BY <1>13 DEF Take, Get, TypeOK, QueuesType
  <2>2. CASE c = d
    <3>1. Len(Tail(queue[c])) + 1 = Len(queue[c])
      BY <2>1, <2>2
    <3> QED
      BY <1>0, <2>1, <2>2, <3>1, PlacesGiven
  <2>3. CASE c # d
    <3>1. WokenFor(c)' = WokenFor(c)
      BY <2>1, <2>3, OthersWoken
    <3>2. putters'[c] = putters[c] /\ queue'[c] = queue[c]
      BY <2>1, <2>3
    <3> QED
      BY <1>0, <3>1, <3>2, PlacesStay
  <2> QED
    BY <2>2, <2>3
<1> QED
  BY <1>2, <1>3, <1>4, <1>5, <1>6, <1>7, <1>8, <1>9, <1>10, <1>11, <1>12, <1>13, Steps

-----------------------------------------------------------------------------
(* Subscribers.                                                            *)

\* What a step may do to the subscribers and to the lengths of the queues.
LEMMA SubscriberMoves ==
    ASSUME TypeOK, TypeOK', Iterating, Next
    PROVE  \/ UNCHANGED <<getters, sub, at>> /\ \A c \in Contexts : Len(queue'[c]) <= Len(queue[c])
           \/ Stop
           \/ \E p \in Pubs : Enter(p)
           \/ \E u \in Subs, s \in Sids : Subscribe(u, s)
           \/ \E u \in Subs : Leave(u)
           \/ \E u \in Subs : sub[u] = "loop" /\ Break(u)
           \/ \E u \in Subs, c \in Contexts :
                  /\ at[u] = c /\ sub[u] \in {"loop", "woken"}
                  /\ Take(u, c) \/ Wait(u, c)
<1>1. \A c \in Contexts : Len(queue[c]) \in Nat /\ Len(queue[c]) <= Len(queue[c])
  BY CountersType
<1>2. CASE UNCHANGED <<getters, sub, at, queue>>
  BY <1>1, <1>2
<1>3. Start \/ (\E s \in Sids : Register(s)) => UNCHANGED <<getters, sub, at, queue>>
  BY DEF Start, Register, queues, subscribing
<1>4. (\E p \in Pubs, s \in Sids : Publish(p, s)) => UNCHANGED <<getters, sub, at, queue>>
  BY DEF Publish, subscribing
<1>5. (\E p \in Pubs : Return(p) \/ Timeout(p)) => UNCHANGED <<getters, sub, at, queue>>
  BY DEF Return, Timeout, GiveUp, queues, subscribing
<1>6. ASSUME NEW s \in Sids, Unregister(s)
      PROVE  UNCHANGED <<getters, sub, at>> /\ \A c \in Contexts : Len(queue'[c]) <= Len(queue[c])
  <2>1. UNCHANGED <<getters, sub, at>> /\ queue' = [queue EXCEPT ![sessions[s]] = <<>>]
    BY <1>6 DEF Unregister, subscribing
  <2>2. \A c \in Contexts : queue'[c] = queue[c] \/ queue'[c] = <<>>
    BY <2>1 DEF TypeOK, QueuesType
  <2>3. Len(<<>>) = 0
    OBVIOUS
  <2> QED
    BY <1>1, <2>1, <2>2, <2>3
<1>7. ASSUME NEW u \in Subs, Ask(u) \/ Wake(u)
      PROVE  /\ at[u] \in Contexts /\ sub[u] \in {"loop", "woken"}
             /\ (sub[u] = "loop" /\ Break(u)) \/ Take(u, at[u]) \/ Wait(u, at[u])
  <2>1. at[u] \in Contexts
    BY <1>7 DEF Ask, Wake, Iterating, SubAlive
  <2> QED
    BY <1>7, <2>1 DEF Ask, Wake, Break
<1> QED
  BY <1>2, <1>3, <1>4, <1>5, <1>6, <1>7 DEF Next

\* The subscribers with a wake-up once n have been woken.
LEMMA GettersWoken ==
    ASSUME TypeOK, Listening, NEW c \in Contexts, NEW n \in Nat
    PROVE  /\ {u \in Subs : Woken(sub, First(getters[c], n))[u] = "woken" /\ at[u] = c}
                  = WokenAt(c) \cup Elements(First(getters[c], n))
           /\ \A d \in Contexts \ {c} :
                  {u \in Subs : Woken(sub, First(getters[c], n))[u] = "woken" /\ at[u] = d}
                      = WokenAt(d)
           /\ WokenAt(c) \cap Elements(getters[c]) = {}
<1>1. DOMAIN sub = Subs /\ getters[c] \in Seq(Subs)
  BY DEF TypeOK, SubscribingType, QueuesType
<1>2. \A u \in Elements(getters[c]) : u \in Subs /\ sub[u] = "waiting" /\ at[u] = c
  BY <1>1 DEF Listening, Elements
<1>3. Elements(First(getters[c], n)) \subseteq Elements(getters[c])
  BY <1>1, FirstType
<1> QED
  BY <1>1, <1>2, <1>3 DEF Woken, WokenAt

\* A list some leave, and whose others go on waiting.
LEMMA StillListening ==
    ASSUME Listening, NEW c \in Contexts, Distinct(getters'[c]),
           Elements(getters'[c]) \subseteq Elements(getters[c]),
           \A u \in Elements(getters'[c]) : sub'[u] = sub[u] /\ at'[u] = at[u]
    PROVE  /\ Distinct(getters'[c])
           /\ \A u \in Elements(getters'[c]) : sub'[u] = "waiting" /\ at'[u] = c
BY DEF Listening

\* n subscribers of d are woken.
LEMMA WakingListening ==
    ASSUME TypeOK, Listening, NEW d \in Contexts, NEW n \in Nat,
           getters' = [getters EXCEPT ![d] = Rest(getters[d], n)],
           sub' = Woken(sub, First(getters[d], n)), at' = at
    PROVE  Listening'
<1> SUFFICES ASSUME NEW c \in Contexts
             PROVE  /\ Distinct(getters'[c])
                    /\ \A u \in Elements(getters'[c]) : sub'[u] = "waiting" /\ at'[u] = c
  BY DEF Listening
<1>1. getters \in [Contexts -> Seq(Subs)] /\ DOMAIN sub = Subs
  BY DEF TypeOK, QueuesType, SubscribingType
<1>2. \A u \in Subs : sub'[u] # sub[u] => u \in Elements(First(getters[d], n))
  BY <1>1 DEF Woken
<1>3. Elements(getters[c]) \subseteq Subs
  BY <1>1 DEF Elements
<1>4. Distinct(getters[c]) /\ Distinct(getters[d])
  BY DEF Listening
<1>5. CASE c = d
  <2>1. Distinct(Rest(getters[c], n))
        /\ Elements(Rest(getters[c], n)) \cap Elements(First(getters[c], n)) = {}
    BY <1>1, <1>4, RestDistinct
  <2>2. Elements(Rest(getters[c], n)) \subseteq Elements(getters[c])
    BY <1>1, RestType
  <2>3. getters'[c] = Rest(getters[c], n)
    BY <1>1, <1>5
  <2>4. \A u \in Elements(getters'[c]) : sub'[u] = sub[u] /\ at'[u] = at[u]
    BY <1>2, <1>3, <1>5, <2>1, <2>2, <2>3
  <2> QED
    BY <2>1, <2>2, <2>3, <2>4, StillListening
<1>6. CASE c # d
  <2>1. getters'[c] = getters[c]
    BY <1>1, <1>6
  <2>2. Elements(First(getters[d], n)) \subseteq Elements(getters[d])
    BY <1>1, FirstType
  <2>3. \A u \in Elements(getters[c]) : u \notin Elements(getters[d])
    BY <1>6 DEF Listening
  <2>4. \A u \in Elements(getters'[c]) : sub'[u] = sub[u] /\ at'[u] = at[u]
    BY <1>2, <1>3, <2>1, <2>2, <2>3
  <2> QED
    BY <1>4, <2>1, <2>4, StillListening
<1> QED
  BY <1>5, <1>6

LEMMA WokenAtFinite ==
    ASSUME IsFiniteSet(Subs), NEW c
    PROVE  IsFiniteSet(WokenAt(c)) /\ Cardinality(WokenAt(c)) \in Nat
<1>1. WokenAt(c) \subseteq Subs
  BY DEF WokenAt
<1> QED
  BY <1>1, FS_Subset, FS_CardinalityType

LEMMA MessagesStay ==
    ASSUME TypeOK, IsFiniteSet(Subs), NEW c \in Contexts, MessagesOffered(c),
           getters'[c] # <<>> => getters[c] # <<>>,
           Len(queue'[c]) <= Len(queue[c]), Len(queue'[c]) \in Nat,
           WokenAt(c)' = WokenAt(c)
    PROVE  MessagesOffered(c)'
<1>1. Cardinality(WokenAt(c)) \in Nat /\ Len(queue[c]) \in Nat
  BY WokenAtFinite, CountersType
<1> HIDE DEF WokenAt
<1> QED
  BY <1>1 DEF MessagesOffered

\* As many subscribers are woken as there are messages more.
LEMMA MessagesGiven ==
    ASSUME TypeOK, IsFiniteSet(Subs), Listening, NEW c \in Contexts, NEW n \in Nat,
           MessagesOffered(c), getters'[c] = Rest(getters[c], n),
           WokenAt(c)' = WokenAt(c) \cup Elements(First(getters[c], n)),
           Len(queue'[c]) = Len(queue[c]) + n
    PROVE  MessagesOffered(c)'
<1> SUFFICES ASSUME getters'[c] # <<>>
             PROVE  Len(queue'[c]) <= Cardinality(WokenAt(c)')
  BY DEF MessagesOffered
<1>1. Distinct(getters[c]) /\ getters[c] \in Seq(Subs)
  BY DEF TypeOK, QueuesType, Listening
<1>2. Rest(getters[c], n) # <<>> /\ getters[c] # <<>>
  BY RestOfNone
<1>3. WokenAt(c) \cap Elements(getters[c]) = {}
  BY GettersWoken
<1>4. IsFiniteSet(WokenAt(c)) /\ Cardinality(WokenAt(c)) \in Nat /\ Len(queue[c]) \in Nat
  BY WokenAtFinite, CountersType
<1>5. Cardinality(WokenAt(c)') = Cardinality(WokenAt(c)) + n
  <2>1. Cardinality(WokenAt(c) \cup Elements(First(getters[c], n))) = Cardinality(WokenAt(c)) + n
    BY <1>1, <1>2, <1>3, <1>4, WokenMore
  <2> QED
    BY <2>1
<1>6. Len(queue[c]) <= Cardinality(WokenAt(c))
  BY <1>2 DEF MessagesOffered
<1> HIDE DEF WokenAt
<1> QED
  BY <1>4, <1>5, <1>6

\* An empty queue has no message to offer.
LEMMA EmptyOffers ==
    ASSUME IsFiniteSet(Subs), NEW c \in Contexts, queue'[c] = <<>>
    PROVE  MessagesOffered(c)'
<1>1. WokenAt(c)' \subseteq Subs
  BY DEF WokenAt
<1>2. Cardinality(WokenAt(c)') \in Nat
  BY <1>1, FS_Subset, FS_CardinalityType
<1>3. Len(queue'[c]) = 0
  OBVIOUS
<1> HIDE DEF WokenAt
<1> QED
  BY <1>2, <1>3 DEF MessagesOffered

-----------------------------------------------------------------------------
\* What every step keeps of the subscribers: one lemma for each way to move them.
Served == Listening /\ \A c \in Contexts : MessagesOffered(c)

LEMMA SameServed ==
    ASSUME TypeOK, TypeOK', IsFiniteSet(Subs), Served, UNCHANGED <<getters, sub, at>>,
           \A c \in Contexts : Len(queue'[c]) <= Len(queue[c])
    PROVE  Served'
<1>1. Listening'
  BY DEF Served, Listening
<1>2. ASSUME NEW c \in Contexts
      PROVE  MessagesOffered(c)'
  <2>1. WokenAt(c)' = WokenAt(c)
    BY DEF WokenAt
  <2>2. Len(queue'[c]) \in Nat
    BY DEF TypeOK, QueuesType
  <2> QED
    BY <2>1, <2>2, MessagesStay DEF Served
<1> QED
  BY <1>1, <1>2 DEF Served

LEMMA StopServed ==
    ASSUME TypeOK, TypeOK', IsFiniteSet(Subs), Served, Stop
    PROVE  Served'
<1> DEFINE told == {d \in Contexts : Registered(d) /\ ~Full(d)}
<1>1. StopWith(told) /\ told \subseteq Contexts
  BY DEF Stop
<1> HIDE DEF told
<1>2. /\ getters \in [Contexts -> Seq(Subs)] /\ DOMAIN sub = Subs
      /\ queue \in [Contexts -> Seq(Msgs \cup {Sentinel})] /\ Listening
  BY DEF TypeOK, QueuesType, SubscribingType, Served
<1>3. /\ queue' = [d \in Contexts |-> IF d \in told THEN Append(queue[d], Sentinel) ELSE queue[d]]
      /\ getters' = [d \in Contexts |-> IF d \in told THEN Rest(getters[d], 1) ELSE getters[d]]
      /\ sub' = [u \in Subs |-> IF \E d \in told : u \in Elements(First(getters[d], 1))
                                THEN "woken" ELSE sub[u]]
      /\ at' = at
  BY <1>1 DEF StopWith
<1>4. \A d \in Contexts : /\ Elements(First(getters[d], 1)) \subseteq Elements(getters[d])
                          /\ Elements(Rest(getters[d], 1)) \subseteq Elements(getters[d])
                          /\ Elements(getters[d]) \subseteq Subs
  <2> TAKE d \in Contexts
  <2>1. getters[d] \in Seq(Subs)
    BY <1>2
  <2>2. Elements(getters[d]) \subseteq Subs
    BY <2>1 DEF Elements
  <2> QED
    BY <2>1, <2>2, FirstType, RestType
<1>5. \A d \in Contexts, u \in Subs : u \in Elements(getters[d]) => at[u] = d /\ sub[u] = "waiting"
  BY <1>2 DEF Listening
<1>6. \A c \in Contexts, u \in Subs : at[u] = c =>
          sub'[u] = IF c \in told /\ u \in Elements(First(getters[c], 1)) THEN "woken" ELSE sub[u]
  BY <1>1, <1>3, <1>4, <1>5
<1>7. ASSUME NEW c \in Contexts
      PROVE  /\ Distinct(getters'[c])
             /\ \A u \in Elements(getters'[c]) : sub'[u] = "waiting" /\ at'[u] = c
  <2>1. Distinct(getters[c])
    BY <1>2 DEF Listening
  <2>2. CASE c \in told
    <3>1. getters'[c] = Rest(getters[c], 1)
      BY <1>3, <2>2
    <3>2. Distinct(Rest(getters[c], 1))
          /\ Elements(Rest(getters[c], 1)) \cap Elements(First(getters[c], 1)) = {}
      BY <1>2, <2>1, RestDistinct
    <3>3. \A u \in Elements(getters'[c]) : u \in Subs /\ at[u] = c /\ sub'[u] = sub[u] /\ at'[u] = at[u]
      BY <1>3, <1>4, <1>5, <1>6, <3>1, <3>2
    <3> QED
      BY <1>2, <1>4, <3>1, <3>2, <3>3, StillListening
  <2>3. CASE c \notin told
    <3>1. getters'[c] = getters[c]
      BY <1>3, <2>3
    <3>2. \A u \in Elements(getters'[c]) : u \in Subs /\ at[u] = c /\ sub'[u] = sub[u] /\ at'[u] = at[u]
      BY <1>3, <1>4, <1>5, <1>6, <2>3, <3>1
    <3> QED
      BY <1>2, <2>1, <3>1, <3>2, StillListening
  <2> QED
    BY <2>2, <2>3
<1>8. ASSUME NEW c \in Contexts
      PROVE  MessagesOffered(c)'
  <2>0. Len(queue'[c]) \in Nat /\ Len(queue[c]) \in Nat
    <3>1. Len(queue'[c]) \in Nat
      BY DEF TypeOK, QueuesType
    <3> QED
      BY <3>1, CountersType
  <2>1. CASE c \in told
    <3>1. getters'[c] = Rest(getters[c], 1) /\ queue'[c] = Append(queue[c], Sentinel)
      BY <1>3, <2>1
    <3>2. queue[c] \in Seq(Msgs \cup {Sentinel})
      BY <1>2
    <3>3. Len(queue'[c]) = Len(queue[c]) + 1
      BY <3>1, <3>2
    <3>4. WokenAt(c)' = WokenAt(c) \cup Elements(First(getters[c], 1))
      <4>1. \A u \in Subs : at[u] = c =>
                sub'[u] = IF u \in Elements(First(getters[c], 1)) THEN "woken" ELSE sub[u]
        BY <1>6, <2>1
      <4>2. \A u \in Elements(First(getters[c], 1)) : u \in Subs /\ at[u] = c
        BY <1>4, <1>5
      <4> QED
        BY <1>3, <4>1, <4>2 DEF WokenAt
    <3> QED
      BY <1>2, <3>1, <3>3, <3>4, MessagesGiven DEF Served
  <2>2. CASE c \notin told
    <3>1. getters'[c] = getters[c] /\ queue'[c] = queue[c]
      BY <1>3, <2>2
    <3>2. WokenAt(c)' = WokenAt(c)
      BY <1>3, <1>6, <2>2 DEF WokenAt
    <3>3. Len(queue'[c]) <= Len(queue[c])
      BY <2>0, <3>1
    <3> QED
      BY <2>0, <3>1, <3>2, <3>3, MessagesStay DEF Served
  <2> QED
    BY <2>1, <2>2
<1> QED
  BY <1>7, <1>8 DEF Served, Listening

LEMMA EnterServed ==
    ASSUME TypeOK, TypeOK', Flying, IsFiniteSet(Subs), Served, NEW p \in Pubs, Enter(p)
    PROVE  Served'
<1> DEFINE d == to[msg[p]]
<1>1. /\ d \in Contexts /\ Put(p, d) /\ Listening /\ at' = at
      /\ queue \in [Contexts -> Seq(Msgs \cup {Sentinel})] /\ getters \in [Contexts -> Seq(Subs)]
      /\ msg[p] \in Msgs
  BY DEF Enter, Put, Flying, Active, Served, TypeOK, QueuesType
<1>2. CASE Full(d)
  <2>1. UNCHANGED <<getters, sub, at, queue>>
    BY <1>1, <1>2 DEF Put
  <2>2. \A c \in Contexts : Len(queue'[c]) <= Len(queue[c])
    BY <2>1, CountersType
  <2> QED
    BY <2>1, <2>2, SameServed
<1>3. CASE ~Full(d)
  <2>1. /\ queue' = [queue EXCEPT ![d] = Append(queue[d], msg[p])]
        /\ getters' = [getters EXCEPT ![d] = Rest(getters[d], 1)]
        /\ sub' = Woken(sub, First(getters[d], 1))
    BY <1>1, <1>3 DEF Put
  <2>2. /\ {u \in Subs : Woken(sub, First(getters[d], 1))[u] = "woken" /\ at[u] = d}
               = WokenAt(d) \cup Elements(First(getters[d], 1))
        /\ \A e \in Contexts \ {d} :
               {u \in Subs : Woken(sub, First(getters[d], 1))[u] = "woken" /\ at[u] = e} = WokenAt(e)
    BY <1>1, GettersWoken
  <2> HIDE DEF d
  <2>3. Listening'
    BY <1>1, <2>1, WakingListening
  <2>4. ASSUME NEW c \in Contexts
        PROVE  MessagesOffered(c)'
    <3> DEFINE w == Woken(sub, First(getters[d], 1))
    <3>1. sub' = w
      BY <2>1
    <3> HIDE DEF w
    <3>2. WokenAt(c)' = {u \in Subs : w[u] = "woken" /\ at[u] = c}
      BY <1>1, <3>1 DEF WokenAt
    <3>3. CASE c = d
      <4>1. WokenAt(c)' = WokenAt(c) \cup Elements(First(getters[c], 1))
        BY <2>2, <3>2, <3>3 DEF w
      <4>2. getters'[c] = Rest(getters[c], 1) /\ Len(queue'[c]) = Len(queue[c]) + 1
        BY <1>1, <2>1, <3>3
      <4> QED
        BY <1>1, <4>1, <4>2, MessagesGiven DEF Served
    <3>4. CASE c # d
      <4>1. WokenAt(c)' = WokenAt(c)
        BY <2>2, <3>2, <3>4 DEF w
      <4>2. getters'[c] = getters[c] /\ queue'[c] = queue[c]
        BY <1>1, <2>1, <3>4
      <4>3. Len(queue'[c]) <= Len(queue[c]) /\ Len(queue'[c]) \in Nat
        BY <4>2, CountersType
      <4> QED
        BY <4>1, <4>2, <4>3, MessagesStay DEF Served
    <3> QED
      BY <3>3, <3>4
  <2> QED
    BY <2>3, <2>4 DEF Served
<1> QED
  BY <1>2, <1>3

\* A subscriber on no list does something else; a wake-up it had is gone.
LEMMA OtherListening ==
    ASSUME TypeOK, Listening, NEW u \in Subs, sub[u] # "waiting", getters' = getters,
           \A v \in Subs : v # u => sub'[v] = sub[v] /\ at'[v] = at[v]
    PROVE  Listening'
<1> SUFFICES ASSUME NEW c \in Contexts
             PROVE  /\ Distinct(getters'[c])
                    /\ \A v \in Elements(getters'[c]) : sub'[v] = "waiting" /\ at'[v] = c
  BY DEF Listening
<1>1. getters[c] \in Seq(Subs)
  BY DEF TypeOK, QueuesType
<1>2. Elements(getters[c]) \subseteq Subs
  BY <1>1 DEF Elements
<1>3. /\ Distinct(getters[c])
      /\ \A v \in Elements(getters[c]) : sub[v] = "waiting" /\ at[v] = c
  BY DEF Listening
<1> QED
  BY <1>2, <1>3

LEMMA SubscribeServed ==
    ASSUME TypeOK, TypeOK', IsFiniteSet(Subs), Served,
           NEW u \in Subs, NEW s \in Sids, Subscribe(u, s)
    PROVE  Served'
<1>1. /\ sub[u] = "idle" /\ getters' = getters /\ queue' = queue
      /\ \A v \in Subs : v # u => sub'[v] = sub[v] /\ at'[v] = at[v]
      /\ sub'[u] = "loop" /\ Listening
  BY DEF Subscribe, queues, TypeOK, SubscribingType, Served
<1>2. Listening'
  BY <1>1, OtherListening
<1>3. ASSUME NEW c \in Contexts
      PROVE  MessagesOffered(c)'
  <2>1. WokenAt(c)' = WokenAt(c)
    BY <1>1 DEF WokenAt
  <2>2. Len(queue'[c]) \in Nat /\ Len(queue'[c]) <= Len(queue[c])
    BY <1>1, CountersType
  <2> QED
    BY <1>1, <2>1, <2>2, MessagesStay DEF Served
<1> QED
  BY <1>2, <1>3 DEF Served

LEMMA BreakServed ==
    ASSUME TypeOK, TypeOK', IsFiniteSet(Subs), Served,
           NEW u \in Subs, sub[u] = "loop", Break(u)
    PROVE  Served'
<1>1. /\ getters' = getters /\ queue' = queue /\ at' = at
      /\ \A v \in Subs : v # u => sub'[v] = sub[v]
      /\ sub'[u] = "idle" /\ Listening
  BY DEF Break, queues, TypeOK, SubscribingType, Served
<1>2. Listening'
  BY <1>1, OtherListening
<1>3. ASSUME NEW c \in Contexts
      PROVE  MessagesOffered(c)'
  <2>1. WokenAt(c)' = WokenAt(c)
    BY <1>1 DEF WokenAt
  <2>2. Len(queue'[c]) \in Nat /\ Len(queue'[c]) <= Len(queue[c])
    BY <1>1, CountersType
  <2> QED
    BY <1>1, <2>1, <2>2, MessagesStay DEF Served
<1> QED
  BY <1>2, <1>3 DEF Served

\* A message less in the queue and at most one wake-up less.
LEMMA MessagesTaken ==
    ASSUME TypeOK, IsFiniteSet(Subs), NEW c \in Contexts, MessagesOffered(c), NEW u,
           getters'[c] # <<>> => getters[c] # <<>>, queue[c] # <<>>,
           Len(queue'[c]) = Len(queue[c]) - 1,
           WokenAt(c)' = WokenAt(c) \ {u}
    PROVE  MessagesOffered(c)'
<1> SUFFICES ASSUME getters'[c] # <<>>
             PROVE  Len(queue'[c]) <= Cardinality(WokenAt(c)')
  BY DEF MessagesOffered
<1>1. /\ IsFiniteSet(WokenAt(c)) /\ Cardinality(WokenAt(c)) \in Nat /\ Len(queue[c]) \in Nat
      /\ Len(queue[c]) <= Cardinality(WokenAt(c))
  BY WokenAtFinite, CountersType DEF MessagesOffered
<1> HIDE DEF WokenAt
<1>2. Cardinality(WokenAt(c) \ {u}) = IF u \in WokenAt(c) THEN Cardinality(WokenAt(c)) - 1
                                                          ELSE Cardinality(WokenAt(c))
  BY <1>1, FS_RemoveElement
<1>3. Cardinality(WokenAt(c)') = Cardinality(WokenAt(c) \ {u})
  OBVIOUS
<1> QED
  BY <1>1, <1>2, <1>3

LEMMA TakeServed ==
    ASSUME TypeOK, TypeOK', IsFiniteSet(Subs), Served,
           NEW u \in Subs, NEW d \in Contexts, at[u] = d, sub[u] \in {"loop", "woken"}, Take(u, d)
    PROVE  Served'
<1>1. /\ queue[d] # <<>> /\ queue' = [queue EXCEPT ![d] = Tail(queue[d])]
      /\ getters' = getters /\ at' = at
      /\ \A v \in Subs : v # u => sub'[v] = sub[v]
      /\ sub'[u] \in {"loop", "idle"} /\ Listening
      /\ queue \in [Contexts -> Seq(Msgs \cup {Sentinel})]
  <2>1. /\ queue[d] # <<>> /\ queue' = [queue EXCEPT ![d] = Tail(queue[d])]
        /\ getters' = getters /\ at' = at
    BY DEF Take, Get
  <2>2. \E x \in {"loop", "idle"} : sub' = [sub EXCEPT ![u] = x]
    BY DEF Take, Yield
  <2>3. /\ Listening /\ sub \in [Subs -> {"idle", "loop", "waiting", "woken"}]
        /\ queue \in [Contexts -> Seq(Msgs \cup {Sentinel})]
    BY DEF TypeOK, SubscribingType, QueuesType, Served
  <2>4. sub'[u] \in {"loop", "idle"} /\ \A v \in Subs : v # u => sub'[v] = sub[v]
    BY <2>2, <2>3
  <2> QED
    BY <2>1, <2>3, <2>4
<1>2. Listening'
  BY <1>1, OtherListening
<1>3. ASSUME NEW c \in Contexts
      PROVE  MessagesOffered(c)'
  <2>1. CASE c = d
    <3>1. WokenAt(c)' = WokenAt(c) \ {u}
      BY <1>1, <2>1 DEF WokenAt
    <3>2. queue[c] # <<>> /\ Len(queue'[c]) = Len(queue[c]) - 1
      BY <1>1, <2>1
    <3> QED
      BY <1>1, <3>1, <3>2, MessagesTaken DEF Served
  <2>2. CASE c # d
    <3>1. WokenAt(c)' = WokenAt(c)
      BY <1>1, <2>2 DEF WokenAt
    <3>2. queue'[c] = queue[c]
      BY <1>1, <2>2
    <3>3. Len(queue'[c]) \in Nat /\ Len(queue'[c]) <= Len(queue[c])
      BY <3>2, CountersType
    <3> QED
      BY <1>1, <3>1, <3>3, MessagesStay DEF Served
  <2> QED
    BY <2>1, <2>2
<1> QED
  BY <1>2, <1>3 DEF Served

LEMMA WaitServed ==
    ASSUME TypeOK, TypeOK', IsFiniteSet(Subs), Served,
           NEW u \in Subs, NEW d \in Contexts, at[u] = d, sub[u] \in {"loop", "woken"}, Wait(u, d)
    PROVE  Served'
<1>1. /\ queue[d] = <<>> /\ queue' = queue /\ at' = at
      /\ getters' = [getters EXCEPT ![d] = Append(getters[d], u)]
      /\ \A v \in Subs : v # u => sub'[v] = sub[v]
      /\ sub'[u] = "waiting" /\ Listening
      /\ getters \in [Contexts -> Seq(Subs)]
  BY DEF Wait, TypeOK, SubscribingType, QueuesType, Served
<1>2. Listening'
  <2> SUFFICES ASSUME NEW c \in Contexts
               PROVE  /\ Distinct(getters'[c])
                      /\ \A v \in Elements(getters'[c]) : sub'[v] = "waiting" /\ at'[v] = c
    BY DEF Listening
  <2>1. /\ Distinct(getters[c]) /\ getters[c] \in Seq(Subs)
        /\ \A v \in Elements(getters[c]) : sub[v] = "waiting" /\ at[v] = c
    BY <1>1 DEF Listening
  <2>2. Elements(getters[c]) \subseteq Subs /\ u \notin Elements(getters[c])
    BY <2>1 DEF Elements
  <2>3. CASE c = d
    <3>1. Distinct(Append(getters[c], u)) /\ Elements(Append(getters[c], u)) = Elements(getters[c]) \cup {u}
      BY <2>1, <2>2, AppendDistinct, AppendElements
    <3>2. getters'[c] = Append(getters[c], u)
      BY <1>1, <2>3
    <3> QED
      BY <1>1, <2>1, <2>2, <2>3, <3>1, <3>2
  <2>4. CASE c # d
    <3>1. getters'[c] = getters[c]
      BY <1>1, <2>4
    <3> QED
      BY <1>1, <2>1, <2>2, <3>1
  <2> QED
    BY <2>3, <2>4
<1>3. ASSUME NEW c \in Contexts
      PROVE  MessagesOffered(c)'
  <2>1. CASE c = d
    BY <1>1, <2>1, EmptyOffers
  <2>2. CASE c # d
    <3>1. WokenAt(c)' = WokenAt(c)
      BY <1>1, <2>2 DEF WokenAt
    <3>2. getters'[c] = getters[c]
      BY <1>1, <2>2
    <3>3. Len(queue'[c]) \in Nat /\ Len(queue'[c]) <= Len(queue[c])
      BY <1>1, CountersType
    <3> QED
      BY <3>1, <3>2, <3>3, MessagesStay DEF Served
  <2> QED
    BY <2>1, <2>2
<1> QED
  BY <1>2, <1>3 DEF Served

\* A subscriber that had been woken hands its wake-up on.
LEMMA HandOn ==
    ASSUME TypeOK, TypeOK', IsFiniteSet(Subs), Served,
           NEW u \in Subs, NEW d \in Contexts, at[u] = d, sub[u] = "woken",
           queue' = queue, at' = at,
           getters' = [getters EXCEPT ![d] = Rest(getters[d], 1)],
           sub' = [Woken(sub, First(getters[d], 1)) EXCEPT ![u] = "idle"]
    PROVE  Served'
<1> DEFINE w == Woken(sub, First(getters[d], 1))
<1>1. /\ getters \in [Contexts -> Seq(Subs)] /\ DOMAIN w = Subs /\ DOMAIN sub = Subs /\ Listening
  BY DEF TypeOK, QueuesType, SubscribingType, Served, Woken
<1>2. /\ {v \in Subs : w[v] = "woken" /\ at[v] = d} = WokenAt(d) \cup Elements(First(getters[d], 1))
      /\ \A e \in Contexts \ {d} : {v \in Subs : w[v] = "woken" /\ at[v] = e} = WokenAt(e)
      /\ WokenAt(d) \cap Elements(getters[d]) = {}
  BY <1>1, GettersWoken
<1>3. \A v \in Subs : w[v] # sub[v] => v \in Elements(First(getters[d], 1))
  BY <1>1 DEF Woken
<1>4. sub' = [w EXCEPT ![u] = "idle"]
  OBVIOUS
<1> HIDE DEF w
<1>5. \A v \in Subs : sub'[v] = IF v = u THEN "idle" ELSE w[v]
  BY <1>1, <1>4
<1>6. \A c \in Contexts : Elements(getters[c]) \subseteq Subs /\ u \notin Elements(getters[c])
  <2> TAKE c \in Contexts
  <2>1. getters[c] \in Seq(Subs) /\ \A v \in Elements(getters[c]) : sub[v] = "waiting"
    BY <1>1 DEF Listening
  <2> QED
    BY <2>1 DEF Elements
<1>7. Elements(First(getters[d], 1)) \subseteq Elements(getters[d])
      /\ Elements(Rest(getters[d], 1)) \subseteq Elements(getters[d])
  BY <1>1, FirstType, RestType
<1>8. Distinct(Rest(getters[d], 1))
      /\ Elements(Rest(getters[d], 1)) \cap Elements(First(getters[d], 1)) = {}
  BY <1>1, RestDistinct DEF Listening
<1>9. ASSUME NEW c \in Contexts
      PROVE  /\ Distinct(getters'[c])
             /\ \A v \in Elements(getters'[c]) : sub'[v] = "waiting" /\ at'[v] = c
  <2>1. CASE c = d
    <3>1. getters'[c] = Rest(getters[d], 1)
      BY <1>1, <2>1
    <3>2. \A v \in Elements(getters'[c]) : sub'[v] = sub[v] /\ at'[v] = at[v]
      BY <1>3, <1>5, <1>6, <1>7, <1>8, <3>1
    <3> QED
      BY <1>1, <1>7, <1>8, <2>1, <3>1, <3>2, StillListening
  <2>2. CASE c # d
    <3>1. getters'[c] = getters[c]
      BY <1>1, <2>2
    <3>2. \A v \in Elements(getters[c]) : v \notin Elements(getters[d])
      <4> SUFFICES ASSUME NEW v, v \in Elements(getters[c]), v \in Elements(getters[d])
                   PROVE  FALSE
        OBVIOUS
      <4>1. at[v] = c
        BY <1>1 DEF Listening
      <4>2. \A x \in Elements(getters[d]) : at[x] = d
        BY <1>1 DEF Listening
      <4> QED
        BY <2>2, <4>1, <4>2
    <3>3. \A v \in Elements(getters'[c]) : sub'[v] = sub[v] /\ at'[v] = at[v]
      BY <1>3, <1>5, <1>6, <1>7, <3>1, <3>2
    <3>4. Distinct(getters'[c])
      BY <1>1, <3>1 DEF Listening
    <3> QED
      BY <1>1, <3>1, <3>3, <3>4, StillListening
  <2> QED
    BY <2>1, <2>2
<1>10. ASSUME NEW c \in Contexts
       PROVE  MessagesOffered(c)'
  <2>0. WokenAt(c)' = {v \in Subs : w[v] = "woken" /\ at[v] = c} \ {u}
    BY <1>5 DEF WokenAt
  <2>1. CASE c # d
    <3>1. WokenAt(c)' = WokenAt(c)
      <4>1. u \notin WokenAt(c)
        BY <2>1 DEF WokenAt
      <4> QED
        BY <1>2, <2>0, <2>1, <4>1
    <3>2. getters'[c] = getters[c] /\ Len(queue'[c]) \in Nat /\ Len(queue'[c]) <= Len(queue[c])
      BY <1>1, <2>1, CountersType
    <3> QED
      BY <3>1, <3>2, MessagesStay DEF Served
  <2>2. CASE c = d
    <3> SUFFICES ASSUME getters'[c] # <<>>
                 PROVE  Len(queue'[c]) <= Cardinality(WokenAt(c)')
      BY DEF MessagesOffered
    <3>1. Rest(getters[c], 1) # <<>> /\ getters[c] # <<>>
      BY <1>1, <2>2, RestOfNone
    <3> DEFINE more == WokenAt(c) \cup Elements(First(getters[c], 1))
    <3>2. WokenAt(c)' = more \ {u} /\ u \in more
      <4>1. u \in WokenAt(c)
        BY <2>2 DEF WokenAt
      <4> QED
        BY <1>2, <2>0, <2>2, <4>1
    <3>3. IsFiniteSet(more) /\ Cardinality(more) = Cardinality(WokenAt(c)) + 1
      <4>1. Distinct(getters[c]) /\ getters[c] \in Seq(Subs)
        <5>1. Distinct(getters[c])
          BY <1>1 DEF Listening
        <5>2. getters[c] \in Seq(Subs)
          BY <1>1
        <5> QED
          BY <5>1, <5>2
      <4>2. WokenAt(c) \cap Elements(getters[c]) = {}
        BY <1>2, <2>2
      <4>3. IsFiniteSet(WokenAt(c))
        BY WokenAtFinite
      <4> QED
        BY <3>1, <4>1, <4>2, <4>3, WokenMore
    <3>4. /\ Len(queue[c]) <= Cardinality(WokenAt(c)) /\ Cardinality(WokenAt(c)) \in Nat
          /\ Len(queue[c]) \in Nat
      BY <3>1, WokenAtFinite, CountersType DEF Served, MessagesOffered
    <3> HIDE DEF more, WokenAt
    <3>5. Cardinality(more \ {u}) = Cardinality(more) - 1
      BY <3>2, <3>3, FS_RemoveElement
    <3>6. Cardinality(WokenAt(c)') = Cardinality(WokenAt(c))
      BY <3>2, <3>3, <3>4, <3>5
    <3> QED
      BY <3>4, <3>6
  <2> QED
    BY <2>1, <2>2
<1> QED
  BY <1>9, <1>10 DEF Served, Listening

\* A subscriber leaves that was not woken, or woken for a message that is gone.
LEMMA LeaveQuietly ==
    ASSUME TypeOK, TypeOK', IsFiniteSet(Subs), Served,
           NEW u \in Subs, NEW d \in Contexts, at[u] = d, sub[u] = "woken" => queue[d] = <<>>,
           queue' = queue, at' = at,
           getters' = [getters EXCEPT ![d] = Rest(Without(getters[d], u), 0)],
           sub' = [sub EXCEPT ![u] = "idle"]
    PROVE  Served'
<1>1. /\ getters \in [Contexts -> Seq(Subs)] /\ DOMAIN sub = Subs /\ Listening
  BY DEF TypeOK, QueuesType, SubscribingType, Served
<1>2. \A c \in Contexts : Elements(getters[c]) \subseteq Subs /\ (c # d => u \notin Elements(getters[c]))
  <2> TAKE c \in Contexts
  <2>1. getters[c] \in Seq(Subs) /\ \A v \in Elements(getters[c]) : at[v] = c
    BY <1>1 DEF Listening
  <2> QED
    BY <2>1 DEF Elements
<1> DEFINE l == Rest(Without(getters[d], u), 0)
<1>3. Distinct(l) /\ Elements(l) \subseteq Elements(getters[d]) /\ u \notin Elements(l)
  <2>1. getters[d] \in Seq(Subs) /\ Distinct(getters[d])
    BY <1>1 DEF Listening
  <2>2. /\ Without(getters[d], u) \in Seq(Subs) /\ Distinct(Without(getters[d], u))
        /\ Elements(Without(getters[d], u)) \subseteq Elements(getters[d])
        /\ u \notin Elements(Without(getters[d], u))
    BY <2>1, WithoutType, WithoutDistinct
  <2>3. Distinct(l) /\ Elements(l) \subseteq Elements(Without(getters[d], u))
    BY <2>2, RestDistinct, RestType
  <2> QED
    BY <2>2, <2>3
<1>4. getters[d] = <<>> => l = <<>>
  BY RestOfNone
<1>5. getters'[d] = l /\ \A c \in Contexts : c # d => getters'[c] = getters[c]
  BY <1>1
<1> HIDE DEF l
<1>6. \A v \in Subs : sub'[v] = IF v = u THEN "idle" ELSE sub[v]
  BY <1>1
<1>7. ASSUME NEW c \in Contexts
      PROVE  /\ Distinct(getters'[c])
             /\ \A v \in Elements(getters'[c]) : sub'[v] = "waiting" /\ at'[v] = c
  <2>1. /\ Distinct(getters'[c]) /\ Elements(getters'[c]) \subseteq Elements(getters[c])
        /\ u \notin Elements(getters'[c])
    BY <1>1, <1>2, <1>3, <1>5 DEF Listening
  <2>2. \A v \in Elements(getters'[c]) : sub'[v] = sub[v] /\ at'[v] = at[v]
    BY <1>2, <1>6, <2>1
  <2> QED
    BY <1>1, <2>1, <2>2, StillListening
<1>8. ASSUME NEW c \in Contexts
      PROVE  MessagesOffered(c)'
  <2>1. CASE u \in WokenAt(c)
    <3>1. queue'[c] = <<>>
      BY <2>1 DEF WokenAt
    <3> QED
      BY <3>1, EmptyOffers
  <2>2. CASE u \notin WokenAt(c)
    <3>1. WokenAt(c)' = WokenAt(c)
      BY <1>6, <2>2 DEF WokenAt
    <3>2. getters'[c] # <<>> => getters[c] # <<>>
      BY <1>4, <1>5
    <3>3. Len(queue'[c]) \in Nat /\ Len(queue'[c]) <= Len(queue[c])
      BY CountersType
    <3> QED
      BY <3>1, <3>2, <3>3, MessagesStay DEF Served
  <2> QED
    BY <2>1, <2>2
<1> QED
  BY <1>7, <1>8 DEF Served, Listening

LEMMA LeaveServed ==
    ASSUME TypeOK, TypeOK', Iterating, IsFiniteSet(Subs), Served, NEW u \in Subs, Leave(u)
    PROVE  Served'
<1> DEFINE d == at[u]
<1>1. /\ d \in Contexts /\ queue' = queue /\ at' = at
      /\ getters \in [Contexts -> Seq(Subs)] /\ DOMAIN sub = Subs /\ Listening
  BY DEF Leave, Iterating, TypeOK, QueuesType, SubscribingType, Served
<1>2. CASE sub[u] = "woken" /\ queue[d] # <<>>
  <2>1. /\ getters' = [getters EXCEPT ![d] = Rest(Without(getters[d], u), 1)]
        /\ sub' = [Woken(sub, First(getters[d], 1)) EXCEPT ![u] = "idle"]
    BY <1>2 DEF Leave
  <2>2. u \notin Elements(getters[d])
    BY <1>1, <1>2 DEF Listening
  <2>3. Without(getters[d], u) = getters[d]
    BY <2>2 DEF Without
  <2>4. getters' = [getters EXCEPT ![d] = Rest(getters[d], 1)]
    BY <2>1, <2>3
  <2> QED
    BY <1>1, <1>2, <2>1, <2>4, HandOn
<1>3. CASE ~(sub[u] = "woken" /\ queue[d] # <<>>)
  <2>1. /\ getters' = [getters EXCEPT ![d] = Rest(Without(getters[d], u), 0)]
        /\ sub' = [Woken(sub, First(getters[d], 0)) EXCEPT ![u] = "idle"]
    BY <1>3 DEF Leave
  <2>2. Elements(First(getters[d], 0)) = {}
    BY <1>1, FirstNone
  <2>3. Woken(sub, First(getters[d], 0)) = sub
    BY <1>1, <2>2 DEF Woken, TypeOK, SubscribingType
  <2>4. sub' = [sub EXCEPT ![u] = "idle"] /\ (sub[u] = "woken" => queue[d] = <<>>)
    BY <1>3, <2>1, <2>3
  <2> QED
    BY <1>1, <2>1, <2>4, LeaveQuietly
<1> QED
  BY <1>2, <1>3

LEMMA ServedStep ==
    ASSUME TypeOK, TypeOK', Flying, Iterating, IsFiniteSet(Subs), Served, Next
    PROVE  Served'
BY SubscriberMoves, SameServed, StopServed, EnterServed, SubscribeServed, LeaveServed,
   BreakServed, TakeServed, WaitServed

\* gateway.py:208, 255: no wake-up is lost. While a publisher waits for a place, every
\* place the queue has is on its way to a publisher woken for it, and while a subscriber
\* waits, so is every message, whatever puts, timeouts, cancellations, unregister() and
\* stops do to those that wait: what keeps a served queue from getting stuck (QueueServed).
THEOREM WakeUpsAreKept == ASSUME IsFiniteSet(Subs) PROVE Spec => []NoWakeUpLost
<1> DEFINE Places == \A c \in Contexts : PlacesOffered(c)
<1>1. Init => Places /\ Served
  <2> SUFFICES ASSUME Init, NEW c \in Contexts
               PROVE  PlacesOffered(c) /\ MessagesOffered(c) /\ getters[c] = <<>>
    <3>1. Len(<<>>) = 0
      OBVIOUS
    <3> QED
      BY <3>1 DEF Served, Listening, Distinct, Elements
  <2> QED
    BY DEF Init, PlacesOffered, MessagesOffered
<1>2. /\ TypeOK /\ TypeOK' /\ Delivery /\ Places /\ Served /\ [Next]_vars
      => Places' /\ Served'
  <2> SUFFICES ASSUME TypeOK, TypeOK', Delivery, Places, Served, [Next]_vars
               PROVE  Places' /\ Served'
    OBVIOUS
  <2>1. CASE UNCHANGED vars
    BY <2>1 DEF vars, registry, queues, counts, publishing, subscribing, Served, Listening,
                PlacesOffered, MessagesOffered, WokenFor, WokenAt
  <2>2. CASE Next
    <3>1. Places'
      BY <2>2, PlacesStep DEF Delivery
    <3>2. Served'
      BY <2>2, ServedStep DEF Delivery
    <3> QED
      BY <3>1, <3>2
  <2> QED
    BY <2>1, <2>2
<1>3. Places /\ Served => NoWakeUpLost
  BY DEF Served, NoWakeUpLost
<1> QED
  BY <1>1, <1>2, <1>3, DeliveryInvariant, PTL DEF Spec
=============================================================================
