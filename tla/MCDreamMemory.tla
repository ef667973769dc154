--------------------------- MODULE MCDreamMemory ---------------------------
(***************************************************************************)
(* Small instances of DreamMemory.                                         *)
(***************************************************************************)
EXTENDS DreamMemory, TLC

CONSTANTS s1, s2, d1, d2

MCSessions == {s1, s2}
MCDreams == {d1, d2}
=============================================================================
