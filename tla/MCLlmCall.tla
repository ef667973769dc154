----------------------------- MODULE MCLlmCall -----------------------------
EXTENDS LlmCall

\* {"":1}
Short == <<"{", "q", "q", ":", "1", "}">>
\* {"a":"\","}
Escape == <<"{", "q", "a", "q", ":", "q", "b", "q", ",", "q", "}">>
\* {"a":["}","\\"],"":11}
Nested == <<"{", "q", "a", "q", ":", "[", "q", "}", "q", ",", "q", "b", "b", "q", "]",
            ",", "q", "q", ":", "1", "1", "}">>
\* {"":{"":{}},"a":[1,[]]}
Deep == <<"{", "q", "q", ":", "{", "q", "q", ":", "{", "}", "}", ",", "q", "a", "q", ":",
          "[", "1", ",", "[", "]", "]", "}">>

MCAnswers ==
    {[words |-> 2, calls |-> <<>>],
     [words |-> 0, calls |-> <<Short, Escape>>],
     [words |-> 1, calls |-> <<Escape>>],
     [words |-> 0, calls |-> <<Nested>>],
     [words |-> 0, calls |-> <<Deep>>]}
=============================================================================
