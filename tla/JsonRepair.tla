----------------------------- MODULE JsonRepair -----------------------------
(***************************************************************************)
(* OutputGovernor: what becomes of the arguments of a tool call whose JSON *)
(* text arrived cut off.                                                   *)
(*                                                                         *)
(* A text is a sequence of tokens, which stand for the characters the      *)
(* algorithms tell apart: brackets, the comma, the colon, the quote "q",   *)
(* the backslash "b", a digit "1", and any other character "a".            *)
(***************************************************************************)
EXTENDS Integers, SequencesExt

Token == {"{", "}", "[", "]", ",", ":", "q", "b", "1", "a"}

Closer(t) == IF t = "{" THEN "}" ELSE "]"

UpTo(s, n) == SubSeq(s, 1, n)

-----------------------------------------------------------------------------
(* json.loads, as the acceptor of its grammar: what may follow, and the    *)
(* brackets that are open.                                                 *)

Begin == [want |-> "value", open |-> <<>>, key |-> FALSE]
Reject == [want |-> "nothing", open |-> <<>>, key |-> FALSE]

Closes(st, t) ==
    IF st.open # <<>> /\ Closer(Last(st.open)) = t
    THEN [st EXCEPT !.want = "more", !.open = Front(@)] ELSE Reject

Continues(st, t) ==
    CASE t = "," /\ st.open # <<>> ->
           [st EXCEPT !.want = IF Last(st.open) = "{" THEN "key" ELSE "value"]
      [] t \in {"}", "]"} -> Closes(st, t)
      [] OTHER -> Reject

Opens(st, t) ==
    CASE t = "q" -> [st EXCEPT !.want = "string", !.key = FALSE]
      [] t = "1" -> [st EXCEPT !.want = "number"]
      [] t = "{" -> [st EXCEPT !.want = "member", !.open = Append(@, t)]
      [] t = "[" -> [st EXCEPT !.want = "element", !.open = Append(@, t)]
      [] OTHER -> Reject

Accept(st, t) ==
    CASE st.want = "string" /\ t = "b" -> [st EXCEPT !.want = "escaped"]
      [] st.want = "string" /\ t = "q" ->
           [st EXCEPT !.want = IF st.key THEN "colon" ELSE "more"]
      [] st.want = "string" /\ t \notin {"b", "q"} -> st
      [] st.want = "escaped" ->
           IF t \in {"b", "q"} THEN [st EXCEPT !.want = "string"] ELSE Reject
      [] st.want \in {"key", "member"} /\ t = "q" ->
           [st EXCEPT !.want = "string", !.key = TRUE]
      [] st.want = "member" /\ t # "q" -> IF t = "}" THEN Closes(st, t) ELSE Reject
      [] st.want = "colon" /\ t = ":" -> [st EXCEPT !.want = "value", !.key = FALSE]
      [] st.want = "element" /\ t = "]" -> Closes(st, t)
      [] st.want = "element" /\ t # "]" -> Opens(st, t)
      [] st.want = "value" -> Opens(st, t)
      [] st.want = "number" /\ t = "1" -> st
      [] st.want = "number" /\ t # "1" -> Continues(st, t)
      [] st.want = "more" -> Continues(st, t)
      [] OTHER -> Reject

Read(s) == FoldLeft(Accept, Begin, s)

Loads(s) == LET st == Read(s) IN st.want \in {"more", "number"} /\ st.open = <<>>

-----------------------------------------------------------------------------
(* The repairs.                                                            *)

\* A scan that only knows whether it is in a string, as all the helpers make it.
Plain == [in |-> FALSE, skip |-> FALSE, stack |-> <<>>]

Scan(st, t) ==
    CASE st.skip -> [st EXCEPT !.skip = FALSE]
      [] ~st.skip /\ st.in ->
           [st EXCEPT !.skip = (t = "b"), !.in = (t # "q")]
      [] ~st.skip /\ ~st.in /\ t = "q" -> [st EXCEPT !.in = TRUE]
      [] ~st.skip /\ ~st.in /\ t \in {"{", "["} ->
           [st EXCEPT !.stack = Append(@, Closer(t))]
      [] ~st.skip /\ ~st.in /\ t \in {"}", "]"} ->
           [st EXCEPT !.stack = IF @ # <<>> /\ Last(@) = t THEN Front(@) ELSE @]
      [] OTHER -> st

CloseBrackets(s) == s \o Reverse(FoldLeft(Scan, Plain, s).stack)

\* The last comma outside strings, looked for from the end: what is inside and what
\* outside is wrong when the text ends in a string, and a backslash hides the
\* character before it.
LastComma(s) ==
    LET Back(st, i) ==
          IF st.at # 0 THEN st
          ELSE CASE st.skip -> [st EXCEPT !.skip = FALSE]
                 [] ~st.skip /\ s[i] = "b" -> [st EXCEPT !.skip = TRUE]
                 [] ~st.skip /\ s[i] = "q" -> [st EXCEPT !.in = ~@]
                 [] ~st.skip /\ s[i] = "," /\ ~st.in -> [st EXCEPT !.at = i]
                 [] OTHER -> st
    IN  FoldLeft(Back, [in |-> FALSE, skip |-> FALSE, at |-> 0],
                 [i \in 1 .. Len(s) |-> Len(s) + 1 - i]).at

TrimIncomplete(s) ==
    LET at == LastComma(s)
    IN  IF at > 1 /\ s[at - 1] \in {"q", "}", "]"} THEN UpTo(s, at - 1) ELSE s

FixUnclosedString(s) ==
    CASE Last(s) = "b" -> Append(Front(s), "q")
      [] Last(s) \notin {"b", "}", "]", "q"} /\ FoldLeft(Scan, Plain, s).in ->
           Append(s, "q")
      [] OTHER -> s

RemoveTrailingComma(s) == IF Last(s) = "," THEN Front(s) ELSE s

\* _repair_json: the first of the strategies whose result is JSON; none: <<>>.
RepairJson(s) ==
    LET tries == <<s, CloseBrackets(s), CloseBrackets(TrimIncomplete(s)),
                   CloseBrackets(FixUnclosedString(s)),
                   CloseBrackets(RemoveTrailingComma(s))>>
        good == {i \in DOMAIN tries : Loads(tries[i])}
    IN  IF good = {} THEN <<>> ELSE tries[CHOOSE i \in good : \A j \in good : i <= j]

\* validate_tool_call of what arrived; no text at all means no arguments.
Arguments(raw) == IF raw = <<>> THEN <<"{", "}">> ELSE RepairJson(raw)

-----------------------------------------------------------------------------
(* Reference: what a text says up to a place, closed there.                *)

Closed(s) ==
    LET st == Read(s)
        body == CASE st.want = "string" -> Append(s, "q")
                  [] st.want = "escaped" -> Append(Front(s), "q")
                  [] OTHER -> s
    IN  body \o Reverse([i \in DOMAIN st.open |-> Closer(st.open[i])])

Truncations(s) == {Closed(UpTo(s, n)) : n \in 0 .. Len(s)}

=============================================================================
