---------------------------- MODULE VoipSession ----------------------------
(***************************************************************************)
(* VoIP calls through the MVS voice driver (audio/AudioHardware.cpp): the   *)
(* uplink AudioStreamInVoip and the downlink AudioStreamOutDirect share one *)
(* descriptor, AudioHardware::mVoipFd, and tell each other with two flags,  *)
(* mVoipInActive and mVoipOutActive, whether it may be closed.              *)
(*                                                                          *)
(* The threads are those of AudioFlinger: one capture thread per uplink     *)
(* stream, which reads or puts it in standby; a playback thread for the     *)
(* downlink stream; and the control thread, which opens and closes streams, *)
(* a stream's thread being idle, and sets the telephony mode.               *)
(*                                                                          *)
(* An action is the code from one point where another thread can matter to  *)
(* the next: the acquisition of mLock or mVoipLock, and the accesses to the *)
(* shared descriptor, flags and mode, most of which no mutex protects.      *)
(***************************************************************************)
EXTENDS Naturals

CONSTANTS
  Inputs,        (* the uplink streams that may be opened                    *)
  MaxFds,        (* bound: descriptors of the driver, 1..MaxFds              *)
  MaxOpens,      (* bound: opens of the one downlink stream                  *)
  DriverFails,   (* may open() or an ioctl of the driver fail?               *)
  ControlOps     (* the control operations in use                            *)

Control == "control"
Playback == "playback"
Nobody == "nobody"
NoFd == 0
AllControlOps == {"openOut", "closeOut", "openIn", "closeIn", "setMode"}

ASSUME VoipAssumption ==
  /\ {Control, Playback, Nobody} \cap Inputs = {}
  /\ MaxFds \in Nat \ {0} /\ MaxOpens \in Nat \ {0}
  /\ DriverFails \in BOOLEAN
  /\ ControlOps \subseteq AllControlOps

Threads == {Control, Playback} \cup Inputs
Fds == 1..MaxFds

VARIABLES
  pc,               (* where each thread is                                  *)
  after,            (* where it goes on after setupDeviceforVoipCall()       *)
  target,           (* the input the control thread is opening or closing    *)
  mLock, mVoipLock, (* their owners                                          *)
  openFds,          (* descriptors of the driver that are open               *)
  mVoipFd,          (* the shared one, or NoFd                               *)
  active,           (* {"in"} for mVoipInActive, {"out"} for mVoipOutActive  *)
  mMode, mMicMute,
  mDirectOutrefCnt, (* 0 when mDirectOutput is NULL                          *)
  outFd, mStandby,  (* AudioStreamOutDirect                                  *)
  mVoipInputs,      (* the inputs that are registered                        *)
  inFd, mState,     (* AudioStreamInVoip, per input                          *)
  setUp             (* the inputs whose mSetupDevice is true                 *)

lockVars == <<mLock, mVoipLock>>
fdVars   == <<openFds, mVoipFd, active>>
modeVars == <<mMode, mMicMute>>
outVars  == <<mDirectOutrefCnt, outFd, mStandby>>
inVars   == <<mVoipInputs, inFd, mState, setUp>>
vars == <<pc, after, target, lockVars, fdVars, modeVars, outVars, inVars>>

PCs == {"idle", "setup", "setMode", "mute",
        "outOpen", "outConfig", "outActive", "outSetup", "outDone", "outError", "outLost",
        "outStandby", "outForget", "outEnd",
        "readLock", "inSet", "inOpen", "inConfig", "inActive", "inSetup", "inError", "inLost",
        "inFail", "inStandby", "inForget", "inClosed", "inEnd", "inRemove"}

VoipTypeOK ==
  /\ pc \in [Threads -> PCs]
  /\ after \in [Threads -> {"idle", "outDone", "outEnd", "inClosed"}]
  /\ target \in Inputs
  /\ mLock \in Threads \cup {Nobody} /\ mVoipLock \in Threads \cup {Nobody}
  /\ openFds \subseteq Fds /\ mVoipFd \in Fds \cup {NoFd}
  /\ active \subseteq {"in", "out"}
  /\ mMode \in {"normal", "inCall", "inCommunication"} /\ mMicMute \in BOOLEAN
  /\ mDirectOutrefCnt \in 0..MaxOpens
  /\ outFd \in Fds \cup {NoFd} /\ mStandby \in BOOLEAN
  /\ mVoipInputs \subseteq Inputs /\ setUp \subseteq Inputs
  /\ inFd \in [Inputs -> Fds \cup {NoFd}]
  /\ mState \in [Inputs -> {"closed", "opened", "started"}]

Init ==
  /\ pc = [t \in Threads |-> "idle"] /\ after = [t \in Threads |-> "idle"]
  /\ target \in Inputs
  /\ mLock = Nobody /\ mVoipLock = Nobody
  /\ openFds = {} /\ mVoipFd = NoFd /\ active = {}
  /\ mMode = "normal" /\ mMicMute = TRUE
  /\ mDirectOutrefCnt = 0 /\ outFd = NoFd /\ mStandby = TRUE
  /\ mVoipInputs = {}
  /\ inFd = [i \in Inputs |-> NoFd] /\ mState = [i \in Inputs |-> "closed"]
  /\ setUp = {}

----------------------------------------------------------------------------
Goto(t, place) == pc' = [pc EXCEPT ![t] = place]

(* The thread calls setupDeviceforVoipCall() and goes on at place.           *)
CallSetup(t, place) ==
  /\ Goto(t, "setup")
  /\ after' = [after EXCEPT ![t] = place]

(* Only the standby() functions call it with false.                          *)
SetupValue(t) == after[t] \notin {"outEnd", "inClosed"}

Subject(t) == IF t = Control THEN target ELSE t

(* A stream is used by its thread unless the control thread is working on it.*)
InUse(i) == i \in mVoipInputs /\ ~(pc[Control] # "idle" /\ target = i)
OutInUse == mDirectOutrefCnt > 0

----------------------------------------------------------------------------
(* The driver.  open() gives the lowest free descriptor.                     *)
FreeFds == Fds \ openFds
LowestFree == CHOOSE f \in FreeFds : \A g \in FreeFds : f <= g

OpenSucceeds(f) == FreeFds # {} /\ f = LowestFree
OpenFails == DriverFails \/ FreeFds = {}

----------------------------------------------------------------------------
(* The definitions named ...Variant are the definition of that name with one *)
(* plausible mistake; no specification uses them.  Each breaks one property. *)

----------------------------------------------------------------------------
(* setupDeviceforVoipCall()                                                  *)

CheckVoiceCall(t) ==
  /\ pc[t] = "setup"
  /\ Goto(t, IF mMode = "inCall" /\ ~SetupValue(t) THEN after[t] ELSE "setMode")
  /\ UNCHANGED <<after, target, lockVars, fdVars, modeVars, outVars, inVars>>

SetVoipMode(t) ==
  /\ pc[t] = "setMode"
  /\ mMode' = IF SetupValue(t) THEN "inCommunication" ELSE "normal"
  /\ Goto(t, "mute")
  /\ UNCHANGED <<after, target, lockVars, fdVars, mMicMute, outVars, inVars>>

(* setMicMute() takes mLock for itself.                                      *)
MuteMic(t) ==
  /\ pc[t] = "mute"
  /\ mLock = Nobody
  /\ mMicMute' = ~SetupValue(t)
  /\ Goto(t, after[t])
  /\ UNCHANGED <<after, target, lockVars, fdVars, mMode, outVars, inVars>>

----------------------------------------------------------------------------
(* AudioStreamOutDirect                                                      *)

(* write() in standby: the shared descriptor, or one of its own.             *)
OutWrite ==
  /\ pc[Playback] = "idle" /\ OutInUse /\ mStandby
  /\ IF mVoipFd # NoFd
       THEN outFd' = mVoipFd /\ Goto(Playback, "outActive")
       ELSE UNCHANGED outFd /\ Goto(Playback, "outOpen")
  /\ UNCHANGED <<after, target, lockVars, fdVars, modeVars, mDirectOutrefCnt, mStandby,
                 inVars>>

OutOpen ==
  /\ pc[Playback] = "outOpen"
  /\ \/ \E f \in Fds :
          /\ OpenSucceeds(f)
          /\ openFds' = openFds \cup {f} /\ mVoipFd' = f /\ outFd' = f
          /\ UNCHANGED active
          /\ Goto(Playback, "outConfig")
     \/ /\ OpenFails
        /\ Goto(Playback, "outError")
        /\ UNCHANGED <<fdVars, outFd>>
  /\ UNCHANGED <<after, target, lockVars, modeVars, mDirectOutrefCnt, mStandby, inVars>>

OutConfigFails ==
  /\ pc[Playback] = "outConfig"
  /\ DriverFails
  /\ Goto(Playback, "outError")
  /\ UNCHANGED <<after, target, lockVars, fdVars, modeVars, outVars, inVars>>

(* Error: close what mFd says, which an earlier open may have left there.    *)
OutError ==
  /\ pc[Playback] = "outError"
  /\ openFds' = openFds \ {outFd}
  /\ Goto(Playback, IF outFd # NoFd THEN "outLost" ELSE "idle")
  /\ UNCHANGED <<after, target, lockVars, mVoipFd, active, modeVars, outVars, inVars>>

(* The driver is configured and started, or was already.                     *)
OutActive ==
  /\ pc[Playback] \in {"outConfig", "outActive"}
  /\ active' = active \cup {"out"}
  /\ Goto(Playback, "outSetup")
  /\ UNCHANGED <<after, target, lockVars, openFds, mVoipFd, modeVars, outVars, inVars>>

OutSetsUp ==
  /\ pc[Playback] = "outSetup"
  /\ IF "in" \in active
       THEN CallSetup(Playback, "outDone")
       ELSE Goto(Playback, "outDone") /\ UNCHANGED after
  /\ UNCHANGED <<target, lockVars, fdVars, modeVars, outVars, inVars>>

OutDone ==
  /\ pc[Playback] = "outDone"
  /\ mStandby' = FALSE
  /\ Goto(Playback, "idle")
  /\ UNCHANGED <<after, target, lockVars, fdVars, modeVars, mDirectOutrefCnt, outFd, inVars>>

OutStandbyCall ==
  /\ pc[Playback] = "idle" /\ OutInUse
  /\ Goto(Playback, "outStandby")
  /\ UNCHANGED <<after, target, lockVars, fdVars, modeVars, outVars, inVars>>

(* standby() under mVoipLock, by the playback thread or by the destructor.   *)
OutStandby(t) ==
  /\ pc[t] = "outStandby"
  /\ mVoipLock = Nobody
  /\ mVoipLock' = t
  /\ active' = active \ {"out"}
  /\ IF mVoipFd # NoFd /\ "in" \notin active
       THEN openFds' = openFds \ {outFd} /\ Goto(t, "outForget")
       ELSE UNCHANGED openFds /\ Goto(t, "outEnd")
  /\ UNCHANGED <<after, target, mLock, mVoipFd, modeVars, outVars, inVars>>

(* mFd = mVoipFd = -1, after the close(), in standby() and in write().       *)
OutForget(t) ==
  /\ pc[t] \in {"outForget", "outLost"}
  /\ outFd' = NoFd /\ mVoipFd' = NoFd
  /\ IF pc[t] = "outForget"
       THEN CallSetup(t, "outEnd")
       ELSE UNCHANGED after /\ Goto(t, "idle")
  /\ UNCHANGED <<target, lockVars, openFds, active, modeVars, mDirectOutrefCnt, mStandby,
                 inVars>>

(* The end of standby(), and of closeOutputStream() if the destructor ran it.*)
OutStandbyEnd(t) ==
  /\ pc[t] = "outEnd"
  /\ mStandby' = TRUE
  /\ mVoipLock' = Nobody
  /\ mLock' = IF t = Control THEN Nobody ELSE mLock
  /\ Goto(t, "idle")
  /\ UNCHANGED <<after, target, fdVars, modeVars, mDirectOutrefCnt, outFd, inVars>>

----------------------------------------------------------------------------
(* AudioStreamInVoip                                                         *)

(* read(): "reopen the device", decided before mLock is taken.               *)
ReadReopens(i) ==
  /\ pc[i] = "idle" /\ InUse(i)
  /\ mState[i] = "closed" \/ mVoipFd = NoFd
  /\ Goto(i, "readLock")
  /\ UNCHANGED <<after, target, lockVars, fdVars, modeVars, outVars, inVars>>

LockToReopen(i) ==
  /\ pc[i] = "readLock"
  /\ mLock = Nobody
  /\ mLock' = i
  /\ Goto(i, "inSet")
  /\ UNCHANGED <<after, target, mVoipLock, fdVars, modeVars, outVars, inVars>>

(* read() with the device open, and not yet set up for a call.               *)
ReadSetsUp(i) ==
  /\ pc[i] = "idle" /\ InUse(i)
  /\ mState[i] # "closed" /\ mVoipFd # NoFd
  /\ i \notin setUp
  /\ setUp' = setUp \cup {i}
  /\ CallSetup(i, "idle")
  /\ UNCHANGED <<target, lockVars, fdVars, modeVars, outVars, mVoipInputs, inFd, mState>>

(* set(), with mLock held: "Check if driver is open".                        *)
InSet(t) ==
  /\ pc[t] = "inSet"
  /\ IF mVoipFd # NoFd
       THEN inFd' = [inFd EXCEPT ![Subject(t)] = mVoipFd] /\ Goto(t, "inActive")
       ELSE UNCHANGED inFd /\ Goto(t, "inOpen")
  /\ UNCHANGED <<after, target, lockVars, fdVars, modeVars, outVars, mVoipInputs, mState,
                 setUp>>

InOpen(t) ==
  /\ pc[t] = "inOpen"
  /\ \/ \E f \in Fds :
          /\ OpenSucceeds(f)
          /\ openFds' = openFds \cup {f} /\ mVoipFd' = f
          /\ inFd' = [inFd EXCEPT ![Subject(t)] = f]
          /\ UNCHANGED active
          /\ Goto(t, "inConfig")
     \/ /\ OpenFails
        /\ Goto(t, "inError")
        /\ UNCHANGED <<fdVars, inFd>>
  /\ UNCHANGED <<after, target, lockVars, modeVars, outVars, mVoipInputs, mState, setUp>>

InConfigFails(t) ==
  /\ pc[t] = "inConfig"
  /\ DriverFails
  /\ Goto(t, "inError")
  /\ UNCHANGED <<after, target, lockVars, fdVars, modeVars, outVars, inVars>>

InError(t) ==
  /\ pc[t] = "inError"
  /\ openFds' = openFds \ {inFd[Subject(t)]}
  /\ Goto(t, IF inFd[Subject(t)] # NoFd THEN "inLost" ELSE "inFail")
  /\ UNCHANGED <<after, target, lockVars, mVoipFd, active, modeVars, outVars, inVars>>

(* The end of a set() that succeeds, and mLock's release: openInputStream()  *)
(* registers the stream, read() goes on with a started one.                  *)
InActive(t) ==
  /\ pc[t] \in {"inConfig", "inActive"}
  /\ active' = active \cup {"in"}
  /\ mState' = [mState EXCEPT ![Subject(t)] = IF t = Control THEN "opened" ELSE "started"]
  /\ mVoipInputs' = mVoipInputs \cup {Subject(t)}
  /\ mLock' = Nobody
  /\ Goto(t, "inSetup")
  /\ UNCHANGED <<after, target, mVoipLock, openFds, mVoipFd, modeVars, outVars, inFd, setUp>>

(* read() sets the device up unless mSetupDevice says it did, and            *)
(* openInputStream() if the downlink is active by now.                       *)
InSetsUp(t) ==
  /\ pc[t] = "inSetup"
  /\ IF IF t = Control THEN "out" \in active ELSE t \notin setUp
       THEN setUp' = setUp \cup {Subject(t)} /\ CallSetup(t, "idle")
       ELSE UNCHANGED <<setUp, after>> /\ Goto(t, "idle")
  /\ UNCHANGED <<target, lockVars, fdVars, modeVars, outVars, mVoipInputs, inFd, mState>>

(* read() returns with mLock held.                                           *)
InFailVariant(t) ==
  /\ pc[t] = "inFail"
  /\ mLock' = IF t = Control THEN Nobody ELSE mLock
  /\ IF t = Control
       THEN active' = active \ {"in"} /\ Goto(t, "inStandby")
       ELSE UNCHANGED active /\ Goto(t, "idle")
  /\ UNCHANGED <<after, target, mVoipLock, openFds, mVoipFd, modeVars, outVars, inVars>>

(* A failing set(): openInputStream() deletes the stream, read() returns.    *)
InFail(t) ==
  /\ pc[t] = "inFail"
  /\ mLock' = Nobody
  /\ IF t = Control
       THEN active' = active \ {"in"} /\ Goto(t, "inStandby")
       ELSE UNCHANGED active /\ Goto(t, "idle")
  /\ UNCHANGED <<after, target, mVoipLock, openFds, mVoipFd, modeVars, outVars, inVars>>

InStandbyCall(i) ==
  /\ pc[i] = "idle" /\ InUse(i)
  /\ Goto(i, "inStandby")
  /\ UNCHANGED <<after, target, lockVars, fdVars, modeVars, outVars, inVars>>

(* standby() under mVoipLock, by the capture thread or by the destructor.    *)
InStandby(t) ==
  /\ pc[t] = "inStandby"
  /\ mVoipLock = Nobody
  /\ mVoipLock' = t
  /\ active' = active \ {"in"}
  /\ LET i == Subject(t)
         closes == mState[i] # "closed" /\ "out" \notin active
     IN IF closes /\ mVoipFd # NoFd
          THEN openFds' = openFds \ {inFd[i]} /\ Goto(t, "inForget")
          ELSE UNCHANGED openFds /\ Goto(t, IF closes THEN "inClosed" ELSE "inEnd")
  /\ UNCHANGED <<after, target, mLock, mVoipFd, modeVars, outVars, inVars>>

(* The error path of set() forgets to clear mVoipFd.                         *)
InForgetVariant(t) ==
  /\ pc[t] \in {"inForget", "inLost"}
  /\ inFd' = [inFd EXCEPT ![Subject(t)] = NoFd]
  /\ mVoipFd' = IF pc[t] = "inForget" THEN NoFd ELSE mVoipFd
  /\ IF pc[t] = "inForget"
       THEN setUp' = setUp \ {Subject(t)} /\ CallSetup(t, "inClosed")
       ELSE UNCHANGED <<setUp, after>> /\ Goto(t, "inFail")
  /\ UNCHANGED <<target, lockVars, openFds, active, modeVars, outVars, mVoipInputs, mState>>

(* mFd = mVoipFd = -1, after the close(), in standby() and in set().         *)
InForget(t) ==
  /\ pc[t] \in {"inForget", "inLost"}
  /\ inFd' = [inFd EXCEPT ![Subject(t)] = NoFd] /\ mVoipFd' = NoFd
  /\ IF pc[t] = "inForget"
       THEN setUp' = setUp \ {Subject(t)} /\ CallSetup(t, "inClosed")
       ELSE UNCHANGED <<setUp, after>> /\ Goto(t, "inFail")
  /\ UNCHANGED <<target, lockVars, openFds, active, modeVars, outVars, mVoipInputs, mState>>

InStandbyEnd(t) ==
  /\ pc[t] \in {"inClosed", "inEnd"}
  /\ mState' = [mState EXCEPT ![Subject(t)] = IF pc[t] = "inClosed" THEN "closed" ELSE @]
  /\ mVoipLock' = Nobody
  /\ Goto(t, IF t = Control /\ target \in mVoipInputs THEN "inRemove" ELSE "idle")
  /\ UNCHANGED <<after, target, mLock, fdVars, modeVars, outVars, mVoipInputs, inFd, setUp>>

----------------------------------------------------------------------------
(* AudioHardware, on the control thread                                      *)

ControlCalls(op) == pc[Control] = "idle" /\ op \in ControlOps

(* mLock is kept for the setup.                                             *)
OpenOutVariant ==
  /\ ControlCalls("openOut")
  /\ mLock = Nobody
  /\ mDirectOutrefCnt < MaxOpens
  /\ mDirectOutrefCnt' = mDirectOutrefCnt + 1
  /\ IF mDirectOutrefCnt = 0
       THEN /\ outFd' = NoFd /\ mStandby' = TRUE
            /\ active' = active \cup {"out"}
            /\ IF "in" \in active
                 THEN CallSetup(Control, "idle") /\ mLock' = Control
                 ELSE UNCHANGED <<pc, after, mLock>>
       ELSE UNCHANGED <<outFd, mStandby, active, pc, after, mLock>>
  /\ UNCHANGED <<target, mVoipLock, openFds, mVoipFd, modeVars, inVars>>

(* openOutputStream() of a direct VoIP output; mLock is given up for the     *)
(* setup.                                                                    *)
OpenOut ==
  /\ ControlCalls("openOut")
  /\ mLock = Nobody
  /\ mDirectOutrefCnt < MaxOpens
  /\ mDirectOutrefCnt' = mDirectOutrefCnt + 1
  /\ IF mDirectOutrefCnt = 0
       THEN /\ outFd' = NoFd /\ mStandby' = TRUE
            /\ active' = active \cup {"out"}
            /\ IF "in" \in active THEN CallSetup(Control, "idle") ELSE UNCHANGED <<pc, after>>
       ELSE UNCHANGED <<outFd, mStandby, active, pc, after>>
  /\ UNCHANGED <<target, lockVars, openFds, mVoipFd, modeVars, inVars>>

(* closeOutputStream() does not look whether there is a stream to close.     *)
CloseOutVariant ==
  /\ ControlCalls("closeOut")
  /\ mLock = Nobody
  /\ pc[Playback] = "idle"
  /\ mDirectOutrefCnt' = mDirectOutrefCnt - 1
  /\ IF mDirectOutrefCnt = 1
       THEN /\ mLock' = Control
            /\ active' = active \ {"out"}
            /\ Goto(Control, "outStandby")
       ELSE UNCHANGED <<mLock, active, pc>>
  /\ UNCHANGED <<after, target, mVoipLock, openFds, mVoipFd, modeVars, outFd, mStandby,
                 inVars>>

(* closeOutputStream(): the last close deletes the stream with mLock held.   *)
CloseOut ==
  /\ ControlCalls("closeOut")
  /\ mLock = Nobody
  /\ OutInUse /\ pc[Playback] = "idle"
  /\ mDirectOutrefCnt' = mDirectOutrefCnt - 1
  /\ IF mDirectOutrefCnt = 1
       THEN /\ mLock' = Control
            /\ active' = active \ {"out"}
            /\ Goto(Control, "outStandby")
       ELSE UNCHANGED <<mLock, active, pc>>
  /\ UNCHANGED <<after, target, mVoipLock, openFds, mVoipFd, modeVars, outFd, mStandby,
                 inVars>>

(* openInputStream() of a communication input at 8 kHz.                      *)
OpenIn(i) ==
  /\ ControlCalls("openIn")
  /\ mLock = Nobody
  /\ i \notin mVoipInputs
  /\ mLock' = Control
  /\ target' = i
  /\ inFd' = [inFd EXCEPT ![i] = NoFd]
  /\ mState' = [mState EXCEPT ![i] = "closed"]
  /\ setUp' = setUp \ {i}
  /\ Goto(Control, "inSet")
  /\ UNCHANGED <<after, mVoipLock, fdVars, modeVars, outVars, mVoipInputs>>

(* closeInputStream(): mLock is given up for the destructor.                 *)
CloseIn(i) ==
  /\ ControlCalls("closeIn")
  /\ mLock = Nobody
  /\ i \in mVoipInputs /\ pc[i] = "idle"
  /\ target' = i
  /\ active' = active \ {"in"}
  /\ Goto(Control, "inStandby")
  /\ UNCHANGED <<after, lockVars, openFds, mVoipFd, modeVars, outVars, inVars>>

RemoveInput ==
  /\ pc[Control] = "inRemove"
  /\ mLock = Nobody
  /\ mVoipInputs' = mVoipInputs \ {target}
  /\ Goto(Control, "idle")
  /\ UNCHANGED <<after, target, lockVars, fdVars, modeVars, outVars, inFd, mState, setUp>>

(* setMode(), when a telephone call begins or ends.                          *)
SetMode ==
  /\ ControlCalls("setMode")
  /\ mMode' \in {"normal", "inCall"}
  /\ UNCHANGED <<pc, after, target, lockVars, fdVars, mMicMute, outVars, inVars>>

----------------------------------------------------------------------------
SetupStep(t) == CheckVoiceCall(t) \/ SetVoipMode(t) \/ MuteMic(t)

OutCall(t) == OutStandby(t) \/ OutForget(t) \/ OutStandbyEnd(t)

InCall(t) ==
  InSet(t) \/ InOpen(t) \/ InConfigFails(t) \/ InActive(t) \/ InSetsUp(t)
    \/ InError(t) \/ InFail(t) \/ InStandby(t) \/ InForget(t) \/ InStandbyEnd(t)

(* The steps of a call under way, and those that begin one.                  *)
PlaybackCall == OutOpen \/ OutConfigFails \/ OutError \/ OutActive \/ OutSetsUp \/ OutDone
CaptureCall(i) == LockToReopen(i)
CallStep(t) ==
  \/ SetupStep(t)
  \/ t \in {Control, Playback} /\ OutCall(t)
  \/ t \in {Control} \cup Inputs /\ InCall(t)
  \/ t = Playback /\ PlaybackCall
  \/ t \in Inputs /\ CaptureCall(t)
  \/ t = Control /\ RemoveInput

NewCall ==
  \/ OutWrite \/ OutStandbyCall
  \/ \E i \in Inputs : ReadReopens(i) \/ ReadSetsUp(i) \/ InStandbyCall(i)
  \/ OpenOut \/ CloseOut \/ SetMode
  \/ \E i \in Inputs : OpenIn(i) \/ CloseIn(i)

Next == NewCall \/ \E t \in Threads : CallStep(t)

Spec == Init /\ [][Next]_vars

(* A thread in a call goes on, and gets a mutex that is free again and again.*)
FairSpec == Spec /\ \A t \in Threads : SF_vars(CallStep(t))

----------------------------------------------------------------------------
(* Correctness.                                                              *)

(* Every mutex is held exactly by the thread whose code is between its lock  *)
(* and its unlock, through set(), the two standby() and the setup they call. *)
InSection(t, places) ==
  pc[t] \in places \/ (pc[t] \in {"setup", "setMode", "mute"} /\ after[t] \in places)

VoipLockOwnership ==
  \A t \in Threads :
    /\ mVoipLock = t <=>
         InSection(t, {"outForget", "outEnd", "inForget", "inClosed", "inEnd"})
    /\ mLock = t <=>
         \/ pc[t] \in {"inSet", "inOpen", "inConfig", "inActive", "inError", "inLost", "inFail"}
         \/ t = Control /\ InSection(t, {"outStandby", "outForget", "outEnd"})

(* What a stream finds in mVoipFd is an open descriptor, except while some   *)
(* thread is between its close() and the assignment that says so: each error *)
(* path and each standby() clears mVoipFd after closing its own mFd.         *)
SharedDescriptorOpen ==
  \/ mVoipFd \in openFds \cup {NoFd}
  \/ \E t \in Threads : pc[t] \in {"outForget", "outLost", "inForget", "inLost"}

(* Every call on a stream and every open or close returns: mVoipLock and     *)
(* mLock are never taken in opposite orders, because openOutputStream(),     *)
(* openInputStream() and closeInputStream() give mLock up before they set    *)
(* the device up or run a destructor.                                        *)
CallsReturn == \A t \in Threads : pc[t] # "idle" ~> pc[t] = "idle"

(* setMicMute_nosync() is to be called "with mutex held", setMicMute() not:  *)
(* a thread that calls setMicMute() does not hold mLock.                     *)
SetMicMuteWithoutLock == \A t \in Threads : pc[t] = "mute" => mLock # t
=============================================================================
