------------------------- MODULE MCCaptureRegistry --------------------------
(* Three streams, enough for a recording, a VoIP uplink and a refused open. *)
EXTENDS CaptureRegistry
MCObjects == {"s1", "s2", "s3"}
MCDescriptors == 1 .. 2
=============================================================================
