----------------------------- MODULE MCPowerHAL -----------------------------
(* Two threads, two descriptors, two governors with a boostpulse file and   *)
(* one without.                                                             *)
EXTENDS PowerHAL
MCThreads == {"t1", "t2"}
MCDescriptors == 1 .. 2
MCTunable == {"ondemand", "interactive"}
MCOtherGovernors == {"performance"}
=============================================================================
