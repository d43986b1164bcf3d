---------------------------- MODULE MCAudioPolicy ----------------------------
(* The instance of AudioPolicy and AudioHal checked.                       *)
EXTENDS AudioHal

MCDirectRequests == {[flags |-> {"DIRECT", "LPA"}, params |-> "44100"],
                     [flags |-> {"DIRECT", "LPA"}, params |-> "48000"],
                     [flags |-> {"DIRECT"}, params |-> "44100"],
                     [flags |-> {"VOIP_RX"}, params |-> "8000"]}
=============================================================================
