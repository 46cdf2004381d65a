------------------------- MODULE MCSessionRegistry -------------------------
(* Instances of SessionRegistry for TLC.                                   *)
EXTENDS SessionRegistry, TLC

CONSTANTS c1, c2

MCClient == {c1, c2}
Symmetry == Permutations(MCClient)
=============================================================================
