-------------------------- MODULE CaptureRegistry ---------------------------
(***************************************************************************)
(* The input streams of AudioHardware: recordings (AudioStreamInMSM72xx)   *)
(* and VoIP uplinks (AudioStreamInVoip), which derive from them and so     *)
(* share the static InstanceCount that limits recordings to one.           *)
(*                                                                         *)
(* One thread opens and closes streams, as AudioPolicyService does; each   *)
(* recording is read, and put into standby, by a thread of its own that is *)
(* idle when the stream is closed.  set() runs with mLock held and is one  *)
(* step; a destructor runs without it, between two of them.  The driver of *)
(* a VoIP uplink is the subject of VoipSession, routing of AudioRouting.   *)
(* Left out: the refusal of a sample rate during a voice call, which       *)
(* leaves no state, and a VoIP set() that rejects its format, after which  *)
(* the destructor has no mHardware to lock.                                *)
(*                                                                         *)
(* The definitions named ...Variant are the definition of that name with   *)
(* a plausible mistake; no run uses them.                                  *)
(***************************************************************************)
EXTENDS Integers, FiniteSets

CONSTANTS
    Objects,        \* addresses of input streams
    Descriptors,    \* descriptor numbers
    MaxFailures     \* bound on the failures of the drivers

NoFd == -1
NoObject == "none"

ASSUME ObjectsAssumption == NoObject \notin Objects /\ IsFiniteSet(Objects)
ASSUME DescriptorsAssumption == Descriptors \subseteq Nat
ASSUME FailuresAssumption == MaxFailures \in Nat

VARIABLES
    obj,            \* the objects: [kind, state, fd]; kind "free" is no object
    InstanceCount,
    mInputs, mVoipInputs,
    openFds,        \* the open descriptors of the recording drivers
    reading,        \* the recordings inside read(), between set() and AUDIO_START
    pc, target,     \* the control thread, and the stream it destroys
    failures

vars == <<obj, InstanceCount, mInputs, mVoipInputs, openFds, reading, pc, target, failures>>

NoStream == [kind |-> "free", state |-> "CLOSED", fd |-> NoFd]
Constructed(kind) == [NoStream EXCEPT !.kind = kind]

Init ==
    /\ obj = [s \in Objects |-> NoStream] /\ InstanceCount = 0
    /\ mInputs = {} /\ mVoipInputs = {} /\ openFds = {} /\ reading = {}
    /\ pc = "idle" /\ target = NoObject /\ failures = 0

-----------------------------------------------------------------------------
(* AudioStreamInMSM72xx::set(), with n instances alive: the stream it      *)
(* leaves and the descriptors then open.  All three formats open a driver, *)
(* configure it and give it back when that fails.                          *)

MoreThanOneVariant(n) == n > 2
MoreThanOne(n) == n > 1

Failing == failures < MaxFailures /\ failures' = failures + 1
Succeeding == UNCHANGED failures

setSucceeds(s, stream, n) ==
    /\ ~MoreThanOne(n) /\ Succeeding
    /\ \E fd \in Descriptors \ openFds :
        /\ openFds' = openFds \cup {fd}
        /\ obj' = [obj EXCEPT ![s] = [stream EXCEPT !.state = "OPENED", !.fd = fd]]

\* Busy, a bad format, rate or channel count, or a driver that does not open.
setRejects(s, stream, n) ==
    /\ IF MoreThanOne(n) THEN Succeeding ELSE Failing
    /\ obj' = [obj EXCEPT ![s] = stream]
    /\ UNCHANGED openFds

\* The error path forgets to close the driver.
setFailsVariant(s, stream, n) ==
    /\ ~MoreThanOne(n) /\ Failing
    /\ \E fd \in Descriptors \ openFds : openFds' = openFds \cup {fd}
    /\ obj' = [obj EXCEPT ![s] = stream]

\* The driver is opened and not configured: it is closed again.  A sample rate
\* outside the table of pre-processing is noticed with mState already set.
setFails(s, stream, n) ==
    /\ ~MoreThanOne(n) /\ Failing
    /\ \E state \in {"CLOSED", "OPENED"} :
        obj' = [obj EXCEPT ![s] = [stream EXCEPT !.state = state]]
    /\ UNCHANGED openFds

-----------------------------------------------------------------------------
(* The control thread.                                                     *)

OpenRecording(s) ==
    /\ pc = "idle" /\ obj[s] = NoStream
    /\ InstanceCount' = InstanceCount + 1
    /\ LET new == Constructed("recording") IN
        \/ /\ setSucceeds(s, new, InstanceCount + 1)
           /\ mInputs' = mInputs \cup {s}
           /\ UNCHANGED <<pc, target>>
        \/ /\ setRejects(s, new, InstanceCount + 1) \/ setFails(s, new, InstanceCount + 1)
           /\ pc' = "delete" /\ target' = s
           /\ UNCHANGED mInputs
    /\ UNCHANGED <<mVoipInputs, reading>>

OpenVoip(s) ==
    /\ pc = "idle" /\ obj[s] = NoStream
    /\ InstanceCount' = InstanceCount + 1
    /\ obj' = [obj EXCEPT ![s] = Constructed("voip")]
    /\ \/ /\ Succeeding
          /\ mVoipInputs' = mVoipInputs \cup {s}
          /\ UNCHANGED <<pc, target>>
       \/ /\ Failing
          /\ pc' = "delete" /\ target' = s
          /\ UNCHANGED mVoipInputs
    /\ UNCHANGED <<mInputs, openFds, reading>>

\* closeInputStream(): the stream is found and mLock given up.
CloseInput(s) ==
    /\ pc = "idle" /\ s \in (mInputs \cup mVoipInputs) \ reading
    /\ pc' = "delete" /\ target' = s
    /\ UNCHANGED <<obj, InstanceCount, mInputs, mVoipInputs, openFds, reading, failures>>

\* Only a stream that is in use is counted down.
CountDownVariant ==
    /\ pc = "delete" /\ pc' = "standby"
    /\ InstanceCount' = InstanceCount - (IF obj[target].state = "CLOSED" THEN 0 ELSE 1)
    /\ UNCHANGED <<obj, mInputs, mVoipInputs, openFds, reading, target, failures>>

\* The destructor counts down, then closes; a VoIP uplink is a recording
\* that has never been open.
CountDown ==
    /\ pc = "delete" /\ pc' = "standby"
    /\ InstanceCount' = InstanceCount - 1
    /\ UNCHANGED <<obj, mInputs, mVoipInputs, openFds, reading, target, failures>>

DestroyStream ==
    /\ pc = "standby"
    /\ openFds' = openFds \ {obj[target].fd}
    /\ obj' = [obj EXCEPT ![target] = NoStream]
    /\ pc' = IF target \in mInputs \cup mVoipInputs THEN "remove" ELSE "idle"
    /\ target' = IF pc' = "idle" THEN NoObject ELSE target
    /\ UNCHANGED <<InstanceCount, mInputs, mVoipInputs, reading, failures>>

\* A VoIP uplink stays in its list.
RemoveInputVariant ==
    /\ pc = "remove" /\ pc' = "idle" /\ target' = NoObject
    /\ mInputs' = mInputs \ {target}
    /\ UNCHANGED <<mVoipInputs, obj, InstanceCount, openFds, reading, failures>>

RemoveInput ==
    /\ pc = "remove" /\ pc' = "idle" /\ target' = NoObject
    /\ mInputs' = mInputs \ {target} /\ mVoipInputs' = mVoipInputs \ {target}
    /\ UNCHANGED <<obj, InstanceCount, openFds, reading, failures>>

-----------------------------------------------------------------------------
(* The thread of a recording: read() and standby().                        *)

Reads(s) == s \in mInputs /\ s # target

\* A stream in standby is set again, with what it was opened with.
ReadReopens(s) ==
    /\ Reads(s) /\ s \notin reading /\ obj[s].state = "CLOSED"
    /\ \/ setSucceeds(s, obj[s], InstanceCount) /\ reading' = reading \cup {s}
       \/ /\ setRejects(s, obj[s], InstanceCount) \/ setFails(s, obj[s], InstanceCount)
          /\ UNCHANGED reading
    /\ UNCHANGED <<InstanceCount, mInputs, mVoipInputs, pc, target>>

AudioStartOK(s) == obj[s].fd # NoFd

ReadStarts(s) ==
    /\ Reads(s) /\ obj[s].state = "OPENED" /\ AudioStartOK(s)
    /\ obj' = [obj EXCEPT ![s].state = "STARTED"]
    /\ reading' = reading \ {s}
    /\ UNCHANGED <<InstanceCount, mInputs, mVoipInputs, openFds, pc, target, failures>>

InStandby(s) ==
    /\ obj' = [obj EXCEPT ![s].state = "CLOSED", ![s].fd = NoFd]
    /\ openFds' = openFds \ {obj[s].fd}

\* A failing start is reported, and the stream taken to be started.
ReadStartFailsVariant(s) ==
    /\ Reads(s) /\ obj[s].state = "OPENED"
    /\ IF AudioStartOK(s) THEN Failing ELSE Succeeding
    /\ reading' = reading \ {s}
    /\ UNCHANGED <<obj, openFds, InstanceCount, mInputs, mVoipInputs, pc, target>>

ReadStartFails(s) ==
    /\ Reads(s) /\ obj[s].state = "OPENED"
    /\ IF AudioStartOK(s) THEN Failing ELSE Succeeding
    /\ InStandby(s)
    /\ reading' = reading \ {s}
    /\ UNCHANGED <<InstanceCount, mInputs, mVoipInputs, pc, target>>

Standby(s) ==
    /\ Reads(s) /\ s \notin reading /\ obj[s].state # "CLOSED"
    /\ InStandby(s)
    /\ UNCHANGED <<InstanceCount, mInputs, mVoipInputs, reading, pc, target, failures>>

read(s) == ReadReopens(s) \/ ReadStarts(s) \/ ReadStartFails(s)

-----------------------------------------------------------------------------
Next ==
    \/ \E s \in Objects : OpenRecording(s) \/ OpenVoip(s) \/ CloseInput(s)
    \/ CountDown \/ DestroyStream \/ RemoveInput
    \/ \E s \in Objects : read(s) \/ Standby(s)

\* A recording is read in a loop; a destructor that has begun goes on.
Fairness ==
    /\ \A s \in Objects : WF_vars(read(s))
    /\ WF_vars(CountDown \/ DestroyStream \/ RemoveInput)

Spec == Init /\ [][Next]_vars /\ Fairness

-----------------------------------------------------------------------------
(* Properties.                                                             *)

Live == {s \in Objects : obj[s].kind # "free"}
Destroying == IF pc = "standby" THEN {target} ELSE {}

\* The variables are well typed, and every stream that is not being destroyed
\* is in the list of its kind.
CaptureTypeOK ==
    /\ obj \in [Objects -> [kind : {"free", "recording", "voip"},
                            state : {"CLOSED", "OPENED", "STARTED"},
                            fd : Descriptors \cup {NoFd}]]
    /\ InstanceCount \in Nat
    /\ openFds \subseteq Descriptors /\ reading \subseteq mInputs
    /\ pc \in {"idle", "delete", "standby", "remove"}
    /\ target \in Objects \cup {NoObject} /\ (target = NoObject <=> pc = "idle")
    /\ mInputs \ {target} = {s \in Live \ {target} : obj[s].kind = "recording"}
    /\ mVoipInputs \ {target} = {s \in Live \ {target} : obj[s].kind = "voip"}

\* InstanceCount is the number of streams whose destructor has not run, through
\* refused opens, failing drivers and closes: it is neither used up nor too low.
InstancesCounted == InstanceCount = Cardinality(Live \ Destroying)

\* "only one input can be in this state": at most one recording is not in
\* standby, also when a read() opens the driver again beside other streams.
OneActiveInput ==
    \A r, s \in mInputs : obj[r].state # "CLOSED" /\ obj[s].state # "CLOSED" => r = s

\* The open descriptors of the recording drivers are those that live recordings
\* hold, one each: no error path of set() or read() loses one or closes another's.
DescriptorsOwned ==
    /\ openFds = {obj[s].fd : s \in Live} \ {NoFd}
    /\ \A r, s \in Live : obj[r].fd = obj[s].fd /\ r # s => obj[s].fd = NoFd

\* A recording that from some time on is the only stream is started by its
\* reads, whatever refused it before: VoIP uplinks that shared the count, failing
\* drivers, a rejected sample rate.
RecordingResumes == \A s \in Objects :
    <>[](s \in mInputs /\ Live = {s} /\ pc = "idle") => []<>(obj[s].state = "STARTED")
=============================================================================
