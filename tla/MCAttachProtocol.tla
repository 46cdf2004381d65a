-------------------------- MODULE MCAttachProtocol --------------------------
(* Instances of AttachProtocol for TLC.                                    *)
EXTENDS AttachProtocol, TLC

CONSTANTS c1, c2, s1, s2

MCClient == {c1, c2}
MCSession == {s1, s2}
Symmetry == Permutations(MCClient) \cup Permutations(MCSession)
=============================================================================
