--------------------------- MODULE MCConversation ---------------------------
EXTENDS Conversation, TLC

InputsAreAlike == Permutations(Inputs)

Always == [type |-> "always"]
Named(names, inv) == [type |-> "tool_name", names |-> names, invert |-> inv]

Hook(name, point, priority, matcher, goesOn) ==
    [name |-> name, point |-> point, priority |-> priority, matcher |-> matcher,
     handler |-> "callable", goesOn |-> goesOn]

\* The hook of the program, and ones as the rules of its users would register them.
MCRegistrations ==
    <<Hook("git-context", "pre_context", 10, Always, {"unset"}),
      Hook("paths", "pre_tool", 5, Named({"write"}, FALSE), {"timeout", "error"}),
      Hook("guard", "pre_tool", 5,
           [type |-> "any", children |-> {Named({"write"}, FALSE), [type |-> "command", invert |-> FALSE]}],
           {"timeout"}),
      Hook("audit", "pre_tool", 9,
           [type |-> "all", children |-> {Named({"memory"}, TRUE), Always}], {"unset"}),
      Hook("first", "post_tool", 2, Named({"write"}, TRUE), {"unset"}),
      Hook("second", "post_tool", 1, Always, {"unset"})>>

Says(action) == [action |-> action, context |-> FALSE, args |-> <<>>]
Adds(action) == [action |-> action, context |-> TRUE, args |-> <<>>]
Sets(to) == [action |-> "modify", context |-> FALSE, args |-> [path |-> to]]

MCOutcomes ==
    [h \in {"git-context", "paths", "guard", "audit", "first", "second"} |->
       CASE h = "git-context" -> {Adds("continue")}
         [] h = "paths" -> {Sets("p"), Says("fail"), Says("stop")}
         [] h = "guard" -> {Says("block"), Says("fail"), Sets("g")}
         [] h = "audit" -> {Adds("continue"), Says("fail")}
         [] h = "second" -> {Says("continue"), Says("fail")}
         [] OTHER -> {Says("continue")}]

MCCalls == {[tool |-> "write", args |-> [path |-> "asked", text |-> "text"]],
            [tool |-> "memory", args |-> [path |-> "note"]]}
=============================================================================
