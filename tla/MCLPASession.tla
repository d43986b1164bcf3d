---------------------------- MODULE MCLPASession ----------------------------
(* Instances of LPASession for TLC: two buffers, as BUFFER_COUNT has it.     *)
EXTENDS LPASession, TLC

CONSTANTS b1, b2

MCBuffers == {b1, b2}
Symmetry == Permutations(MCBuffers)
=============================================================================
