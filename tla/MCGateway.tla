----------------------------- MODULE MCGateway -----------------------------
(* Model values and symmetry for the model-checking runs of Gateway.       *)
EXTENDS Gateway, TLC

CONSTANTS a, b, p1, p2, u1, u2

MCSids == {a, b}
MCPubs == {p1, p2}
MCSubs == {u1, u2}
=============================================================================
