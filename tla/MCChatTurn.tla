----------------------------- MODULE MCChatTurn -----------------------------
(* Small instances of ChatTurn for TLC.                                    *)
EXTENDS ChatTurn, TLC
=============================================================================
