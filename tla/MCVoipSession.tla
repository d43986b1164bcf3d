--------------------------- MODULE MCVoipSession ---------------------------
(* Instances of VoipSession for TLC: one uplink stream, as the code intends. *)
EXTENDS VoipSession

CONSTANT i1

OneInput == {i1}

StreamOps == {"openOut", "openIn", "closeIn"}
=============================================================================
