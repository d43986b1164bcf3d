----------------------------- MODULE LPADriver -----------------------------
(***************************************************************************)
(* The kernel's low-power audio decoder /dev/msm_pcm_lp_dec, as the session *)
(* AudioSessionOutLPA of audio/AudioHardware.cpp uses it.  The driver is not*)
(* part of the repository: each operator below is the effect the session    *)
(* relies on when it issues the ioctl of that name, and the two actions are *)
(* what the hardware does on its own.                                       *)
(*                                                                          *)
(* What the session tells about the driver:                                 *)
(*   - AUDIO_ASYNC_WRITE hands a buffer over; a WRITE_DONE event, fetched   *)
(*     with AUDIO_GET_EVENT, gives it back;                                 *)
(*   - AUDIO_FLUSH leaves a paused decoder running: flush() pauses again    *)
(*     after it when the session is paused, and not otherwise;              *)
(*   - flush() takes every buffer back by itself and the event thread       *)
(*     ignores completions it has no buffer for: the driver may or may not  *)
(*     post WRITE_DONE for the buffers it drops;                            *)
(*   - the SUSPEND handler leaves the filled queue alone after AUDIO_STOP:  *)
(*     the buffers come back as WRITE_DONE events.                          *)
(***************************************************************************)
EXTENDS Naturals, Sequences

CONSTANTS
  Buffers,         (* the ION buffers the session may allocate               *)
  Suspend,         (* the AUDIO_EVENT_SUSPEND event                          *)
  Faults,          (* which environment faults may happen in this instance   *)
  MaxOutstanding   (* bound: buffers at the driver plus events not fetched   *)

FaultKinds == {"ioctl", "interrupt", "ion", "spurious"}

ASSUME DriverAssumption ==
  /\ Suspend \notin Buffers
  /\ Faults \subseteq FaultKinds
  /\ MaxOutstanding \in Nat \ {0}

VARIABLES
  afd,         (* the session's descriptor: "open" or "closed"               *)
  decoder,     (* state of the decoder: stopped, running or paused           *)
  submitted,   (* buffers handed over and not given back, in order           *)
  events,      (* events not yet fetched by AUDIO_GET_EVENT, in order        *)
  abort        (* "pending" when AUDIO_ABORT_GET_EVENT is not yet answered    *)

driverVars == <<afd, decoder, submitted, events, abort>>

DriverTypeOK ==
  /\ afd \in {"open", "closed"}
  /\ abort \in {"none", "pending"}
  /\ decoder \in {"stopped", "running", "paused"}
  /\ submitted \in Seq(Buffers)
  /\ events \in Seq(Buffers \cup {Suspend})

----------------------------------------------------------------------------
(* Outcomes of an ioctl: it fails on a closed descriptor, and it may fail    *)
(* anyway where the instance admits ioctl faults.                            *)
IoctlOutcomes ==
  IF afd = "closed" THEN {FALSE} ELSE IF "ioctl" \in Faults THEN BOOLEAN ELSE {TRUE}

AUDIO_START(ok) ==
  /\ decoder' = IF ok THEN "running" ELSE decoder
  /\ UNCHANGED <<afd, submitted, events, abort>>

(* Stopping gives the buffers back.                                          *)
AUDIO_STOP(ok) ==
  /\ decoder' = IF ok THEN "stopped" ELSE decoder
  /\ submitted' = IF ok THEN <<>> ELSE submitted
  /\ events' = IF ok THEN events \o submitted ELSE events
  /\ UNCHANGED <<afd, abort>>

AUDIO_PAUSE(ok, on) ==
  /\ decoder' = IF ok /\ decoder # "stopped"
                THEN IF on THEN "paused" ELSE "running"
                ELSE decoder
  /\ UNCHANGED <<afd, submitted, events, abort>>

(* The buffers are dropped, with or without completions for them.           *)
AUDIO_FLUSH(resulting) ==
  /\ decoder' = IF decoder = "stopped" THEN decoder ELSE resulting
  /\ submitted' = <<>>
  /\ events' \in {events, events \o submitted}
  /\ UNCHANGED <<afd, abort>>

AUDIO_ASYNC_WRITE(ok, b) ==
  /\ submitted' = IF ok THEN Append(submitted, b) ELSE submitted
  /\ UNCHANGED <<afd, decoder, events, abort>>

AUDIO_ABORT_GET_EVENT(ok) ==
  /\ abort' = IF ok THEN "pending" ELSE abort
  /\ UNCHANGED <<afd, decoder, submitted, events>>

----------------------------------------------------------------------------
(* The decoder has consumed the oldest buffer.  A descriptor closed by the   *)
(* session does not stop it: the event thread's ioctl keeps the file open.   *)
Play ==
  /\ decoder = "running"
  /\ submitted # <<>>
  /\ submitted' = Tail(submitted)
  /\ events' = Append(events, Head(submitted))
  /\ UNCHANGED <<afd, decoder, abort>>

(* The system is about to suspend; the driver asks the session to stop.      *)
SuspendRequest ==
  /\ decoder # "stopped"
  /\ \A i \in DOMAIN events : events[i] # Suspend
  /\ Len(submitted) + Len(events) < MaxOutstanding
  /\ events' = Append(events, Suspend)
  /\ UNCHANGED <<afd, decoder, submitted, abort>>

HardwareStep == Play \/ SuspendRequest
=============================================================================
