---------------------------- MODULE MCMcpClient ----------------------------
(***************************************************************************)
(* Small instances of McpClient: s1 has two tools, one of them excluded.   *)
(***************************************************************************)
EXTENDS McpClient, TLC

CONSTANTS s1, s2, t1, t2, t3, c1, c2

MCServers == {s1, s2}
MCTools == {t1, t2, t3}
MCHome == (t1 :> s1) @@ (t2 :> s1) @@ (t3 :> s2)
MCExcluded == {t2}
MCCalls == {c1, c2}
MCSymmetry == Permutations(MCCalls)
=============================================================================
