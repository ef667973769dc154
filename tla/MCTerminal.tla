----------------------------- MODULE MCTerminal -----------------------------
EXTENDS Terminal, TLC

SessionSymmetry == Permutations(Sessions)
=============================================================================
