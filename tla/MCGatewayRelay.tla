--------------------------- MODULE MCGatewayRelay ---------------------------
(* Finite instances of GatewayRelay for TLC. *)
EXTENDS GatewayRelay, TLC

CONSTANTS c1, c2, c3, m1, m2

Symmetry == Permutations({c1, c2, c3}) \cup Permutations({m1, m2})
=============================================================================
