------------------------------- MODULE Hooks -------------------------------
(***************************************************************************)
(* HookOrchestrator: the chain of hooks at a point of a turn.  The list of *)
(* a chain is taken when it begins and nothing else reads what its hooks   *)
(* pass on, so a chain is one operator of what each of its hooks returns.  *)
(*                                                                         *)
(* A hook is a record: its name, its point, its matcher, its priority, its *)
(* handler ("callable" or "command"), and after which failures ("timeout", *)
(* "error") it was registered to go on; {"unset"} when that was left open. *)
(***************************************************************************)
EXTENDS Integers, SequencesExt

NoTool == "none"

\* The elements of a list at some places, in their order.
At(list, places) ==
    FoldLeftDomain(LAMBDA some, k : IF k \in places THEN Append(some, list[k]) ELSE some,
                   <<>>, list)

-----------------------------------------------------------------------------
(* Registration and selection.                                             *)

\* Mutant: among hooks of one priority, the one registered last comes first.
RegisterBefore(hooks, h) ==
    LET before == {i \in DOMAIN hooks : hooks[i].priority > h.priority}
    IN  Append(At(hooks, before), h) \o At(hooks, DOMAIN hooks \ before)

\* The list is sorted by priority, the highest first; the sort is stable.
Register(hooks, h) ==
    LET before == {i \in DOMAIN hooks : hooks[i].priority >= h.priority}
    IN  Append(At(hooks, before), h) \o At(hooks, DOMAIN hooks \ before)

\* HookMatcher.matches.  Expressions over names are sets of names here.  A tool call
\* has no command, and a name that is missing matches nothing, before an inversion.
MatchesOne(m, tool) ==
    CASE m.type = "tool_name" -> (tool \in m.names) # m.invert
      [] m.type = "command" -> m.invert
      [] OTHER -> TRUE

Matches(m, tool) ==
    CASE m.type = "all" -> \A c \in m.children : MatchesOne(c, tool)
      [] m.type = "any" -> \E c \in m.children : MatchesOne(c, tool)
      [] OTHER -> MatchesOne(m, tool)

Selected(hooks, point, tool) ==
    At(hooks, {i \in DOMAIN hooks :
                 hooks[i].point = point /\ Matches(hooks[i].matcher, tool)})

-----------------------------------------------------------------------------
(* The chain.                                                              *)

\* What a hook may return: an action, arguments it changes (of "modify"), and whether
\* it adds to the context.  "fail": it raises, exits with an error or runs too long.
Actions == {"continue", "stop", "block", "modify", "fail"}

\* _get_error_tolerance: a hook goes on after a failure, of either kind, if it was told
\* to after both.  Left open, a callable refuses as a command does.
Tolerant(h) == h.goesOn = {"timeout", "error"}

Refuses(h, o) == o.action = "block" \/ (o.action = "fail" /\ ~Tolerant(h))

\* Later entries win: dict.update.
Updated(args, new) == [k \in DOMAIN args |-> IF k \in DOMAIN new THEN new[k] ELSE args[k]]

\* One hook.  A refusal by a failure drops the context gathered so far.
Step(st, h, o) ==
    CASE st.over -> st
      [] ~st.over /\ o.action = "fail" ->
           IF Tolerant(h)
           THEN [st EXCEPT !.ran = Append(@, h.name)]
           ELSE [st EXCEPT !.ran = Append(@, h.name), !.over = TRUE,
                           !.blocked = TRUE, !.context = <<>>]
      [] ~st.over /\ o.action # "fail" ->
           [ran |-> Append(st.ran, h.name),
            over |-> o.action \in {"block", "stop"},
            blocked |-> o.action = "block",
            context |-> IF o.context THEN Append(st.context, h.name) ELSE st.context,
            args |-> IF o.action = "modify" THEN Updated(st.args, o.args) ELSE st.args]

\* run: before an operation the highest priority is first, after it the last.
Run(hooks, point, tool, args, out) ==
    LET chosen == Selected(hooks, point, tool)
        inOrder == IF point = "post_tool" THEN Reverse(chosen) ELSE chosen
    IN  FoldLeft(LAMBDA st, h : Step(st, h, out[h.name]),
                 [ran |-> <<>>, over |-> FALSE, blocked |-> FALSE, context |-> <<>>,
                  args |-> args],
                 inOrder)

-----------------------------------------------------------------------------
(* Reference: what a set of hooks decides, from their priorities alone.    *)

\* Whether g comes before h in a chain; both are given by their place in the
\* sequence of registrations.
Before(regs, g, h) ==
    regs[g].priority > regs[h].priority
      \/ (regs[g].priority = regs[h].priority /\ g < h)

\* The hooks that a chain before an operation gets to.
Reached(regs, point, tool, out) ==
    LET chosen == {h \in DOMAIN regs :
                     regs[h].point = point /\ Matches(regs[h].matcher, tool)}
        Ends(g) == out[regs[g].name].action = "stop"
                     \/ Refuses(regs[g], out[regs[g].name])
    IN  {h \in chosen : \A g \in chosen : Before(regs, g, h) => ~Ends(g)}

=============================================================================
