---------------------------- MODULE AudioRouting ----------------------------
(***************************************************************************)
(* Routing in AudioHardware (src/audio/AudioHardware.cpp): which endpoint  *)
(* of the sound driver is selected, with which mutes, as the playback      *)
(* thread, the capture thread and binder calls (mode, mute, parameters,    *)
(* the low-power session) drive it.                                        *)
(*                                                                         *)
(* doRouting() holds mLock from its choice of a device to its last         *)
(* assignment, and the three threads interleave around it: setMode() and   *)
(* the capture stream clear the cached device, the FM flag, and the        *)
(* post-processing statics are written, without the lock.                  *)
(*                                                                         *)
(* Abstractions: a set of AudioSystem device bits is a set of names, an    *)
(* endpoint id is the endpoint's name, "none" stands for -1.  A call that  *)
(* runs under mLock from end to end is one step.                           *)
(*                                                                         *)
(* The definitions named ...Variant are the definition of that name with   *)
(* one plausible mistake; no specification uses them.                      *)
(***************************************************************************)
EXTENDS AudioPostproc

CONSTANTS
    Endpoints,      \* the names the driver reports for its endpoints
    OutRoutes,      \* device sets the policy routes the output stream to
    LPARoutes,      \* ... and the low-power session
    InDevices,      \* capture devices; "0" is the policy's "no device"
    Modes,          \* modes the framework sets
    TtyModes,       \* values of the tty_mode parameter
    Analog,         \* the property hw.fm.isAnalog
    Calibrations,   \* contents AudioFilter.csv may have
    MaxCalls,       \* bound: calls the framework makes in all
    MaxFaults,      \* bound: driver calls that fail
    Faults,         \* subset of {"snd", "pin", "pcm"}: calls that may fail
    BtRegs, FmRegs  \* the shared pins

Pin == INSTANCE PinSwitching

ASSUME RoutingAssumption ==
    /\ "CURRENT" \in Endpoints /\ "none" \notin Endpoints
    /\ {} \notin LPARoutes /\ Analog \in BOOLEAN
    /\ InDevices \subseteq {"IN_MIC", "IN_SCO", "IN_WIRED_HEADSET", "IN_FM_RX",
                            "IN_FM_RX_A2DP", "IN_VOICE_CALL", "0"}
    /\ TtyModes \subseteq {"TTY_OFF", "TTY_FULL", "TTY_VCO", "TTY_HCO"}
    /\ BtRegs \in Seq(Range(BtRegs)) /\ FmRegs \in Seq(Range(FmRegs))
    /\ Range(BtRegs) \cap Range(FmRegs) = {}

Threads == {"playback", "record", "binder"}
NoThread == "nobody"

VARIABLES
    mLock,          \* the thread in doRouting, or NoThread
    pc,             \* each thread's position: [at, then, call, dev]
    mMode, mMicMute, mTtyMode, mDualMicEnabled,
    mCurSndDevice,  \* the cached endpoint; "none" when it was cleared
    FmA2dpStatus,   \* whether it equals true (at first it is -1)
    fmOn,           \* mFmFd # -1
    out,            \* primary output: [devices, standby, toFill]
    hpcm, lpa,      \* hpcm_ / lpa_playback_in_progress
    pp,             \* [mask, newMask, snd_device, audpp]
    cal,            \* what get_audpp_filter left
    in,             \* the capture stream: [state, devices], or NoInput
    audpre,         \* pre-processing features enabled in the DSP
    calls,          \* the calls made so far
    snd, pins,      \* the driver's selection and the chip's pins
    hist            \* history the properties read

hardware == <<mMode, mMicMute, mTtyMode, mDualMicEnabled>>
streams  == <<out, hpcm, lpa, in, audpre>>
route    == <<mCurSndDevice, FmA2dpStatus, fmOn>>
device   == <<snd, pins>>
vars == <<mLock, pc, calls, hardware, route, streams, pp, cal, device, hist>>

-----------------------------------------------------------------------------
(* Endpoints.                                                              *)

\* An endpoint the driver does not list is used all the same.
SND_DEVICEVariant(x) == x

\* SND_DEVICE_x: the endpoint's id, or -1 when the driver does not list it.
SND_DEVICE(x) == IF x \in Endpoints THEN x ELSE "none"

FmDigital == {SND_DEVICE("FM_DIGITAL_STEREO_HEADSET"),
              SND_DEVICE("FM_DIGITAL_SPEAKER_PHONE"),
              SND_DEVICE("FM_DIGITAL_BT_A2DP_HEADSET")}

\* The device a capture stream asks for, "none" when it asks for none of its
\* own: then the output's route is restored.
InputRoute(d, outs) ==
    CASE d = "IN_SCO"           -> SND_DEVICE("BT")
      [] d = "IN_WIRED_HEADSET" -> SND_DEVICE("HEADSET")
      [] d = "IN_FM_RX_A2DP"    -> SND_DEVICE("FM_DIGITAL_BT_A2DP_HEADSET")
      [] d \in {"0", "IN_FM_RX"} -> "none"
      [] d = "IN_MIC" -> SND_DEVICE(IF "SPEAKER" \in outs THEN "SPEAKER" ELSE "HANDSET")

\* The device for the output's set, tried in the code's order; filters says
\* that new_post_proc_feature_mask is set to all features.
OutputRoute(outs) ==
    LET With(x, f) == [device |-> SND_DEVICE(x), filters |-> f]
        wired == outs \cap {"WIRED_HEADSET", "WIRED_HEADPHONE"} # {}
    IN
    IF /\ mTtyMode # "TTY_OFF" /\ mMode = "MODE_IN_CALL" /\ "WIRED_HEADSET" \in outs
    THEN With([TTY_FULL |-> "TTY_HEADSET", TTY_VCO |-> "TTY_VCO",
               TTY_HCO |-> "TTY_HCO"][mTtyMode], FALSE)
    ELSE IF wired /\ "SPEAKER" \in outs
    THEN With("STEREO_HEADSET_AND_SPEAKER", TRUE)
    ELSE IF {"WIRED_HEADSET", "FM"} \subseteq outs
    THEN IF Analog THEN With("FM_ANALOG_STEREO_HEADSET_CODEC", FALSE)
                   ELSE With("FM_DIGITAL_STEREO_HEADSET", TRUE)
    ELSE IF {"SPEAKER", "FM"} \subseteq outs
    THEN With("FM_DIGITAL_SPEAKER_PHONE", TRUE)
    ELSE IF "FM" \in outs /\ Analog
    THEN With("FM_ANALOG_STEREO_HEADSET", FALSE)
    ELSE IF "SCO" \in outs THEN With("BT", FALSE)
    ELSE IF "SCO_CARKIT" \in outs THEN With("CARKIT", FALSE)
    ELSE IF wired THEN With("HEADSET", TRUE)
    ELSE IF "SPEAKER" \in outs THEN With("SPEAKER", TRUE)
    ELSE IF "EARPIECE" \in outs THEN With("HANDSET", TRUE)
    ELSE With("none", FALSE)

\* In a call with the second microphone on, handset and speaker have
\* endpoints of their own.
DualMic(d) ==
    IF ~(mDualMicEnabled /\ mMode = "MODE_IN_CALL") THEN d
    ELSE CASE d = SND_DEVICE("HANDSET") -> SND_DEVICE("IN_S_SADC_OUT_HANDSET")
           [] d = SND_DEVICE("SPEAKER") /\ d # SND_DEVICE("HANDSET") ->
                SND_DEVICE("IN_S_SADC_OUT_SPEAKER_PHONE")
           [] OTHER -> d

\* A call of doRouting: by what ("output": input is NULL and the device 0,
\* "input": the capture stream, "lpa": a device of its own), and the set.
OutDevices(call) == IF call.by = "lpa" THEN call.devices ELSE out.devices
InDevice(call) == IF call.by = "input" THEN in.devices ELSE "0"

\* new_snd_device, and whether the choice sets the new feature mask.
Selected(call) ==
    LET outs == OutDevices(call)
        i == InputRoute(InDevice(call), outs)
        o == OutputRoute(outs)
    IN  IF i # "none"
        THEN [device |-> DualMic(i),
              filters |-> InDevice(call) = "IN_MIC" /\ "SPEAKER" \in outs]
        ELSE [device |-> DualMic(o.device), filters |-> o.filters]

\* A call of the kind may fail; failures are counted in hist.
MayFail(kind) == kind \in Faults /\ hist.faults < MaxFaults

\* The cleared cache, and what a clear does to the record of the pins.
clearCurDevice(failed) ==
    /\ mCurSndDevice' = "none"
    /\ hist' = [hist EXCEPT !.pinsLost = @ \/ mCurSndDevice \in FmDigital,
                            !.faults = @ + failed]

-----------------------------------------------------------------------------
(* The driver.                                                             *)

\* do_route_audio_rpc: the outcomes of selecting device d with the two mutes.
\* A real device with an open microphone is first selected muted.
do_route_audio_rpc(d, ear, mic) ==
    LET Sel(m) == [device |-> IF d = "CURRENT" THEN snd.device ELSE d,
                   ear |-> ear, mic |-> m]
        twoSteps == d # "CURRENT" /\ ~mic /\ d \notin FmDigital
    IN  IF d = "none" THEN {[ok |-> TRUE, snd |-> snd]}
        ELSE {[ok |-> TRUE, snd |-> Sel(mic)]} \cup
             (IF ~MayFail("snd") THEN {}
              ELSE {[ok |-> FALSE, snd |-> snd]} \cup
                   (IF twoSteps THEN {[ok |-> FALSE, snd |-> Sel(TRUE)]} ELSE {}))

\* The pins are not given back.
PinModeVariant(d) == IF d \in FmDigital /\ d # mCurSndDevice THEN "MODE_FM" ELSE "same"

\* The pins follow a change of device into or out of the FM devices, as far as
\* the cached device tells; the mute's CURRENT counts as another device.
PinMode(d) ==
    CASE d \in FmDigital /\ d # mCurSndDevice -> "MODE_FM"
      [] d \notin FmDigital /\ mCurSndDevice \in FmDigital -> "MODE_BTSCO"
      [] OTHER -> "same"

\* doAudioRouteOrMute, called with mLock held: FM opens both paths and the
\* microphone mute is forgotten.
doAudioRouteOrMute(d, mute) ==
    LET mic == ~fmOn /\ mute
        ear == ~fmOn /\ mMode \notin {"MODE_IN_CALL", "MODE_IN_COMMUNICATION"}
        mode == PinMode(d)
    IN
    /\ mMicMute' = mic
    /\ pins' \in IF mode = "same" THEN {pins}
                 ELSE Pin!switch_mode(pins, mode, MayFail("pin"))
    /\ \E r \in do_route_audio_rpc(d, ear, mic) :
        LET pinFails == mode # "same" /\ pins' \notin Pin!switch_mode(pins, mode, FALSE) IN
        /\ snd' = r.snd
        /\ hist' =
            [mode     |-> IF r.ok THEN mMode ELSE hist.mode,
             lost     |-> ~r.ok \/ (d = "CURRENT" /\ hist.lost),
             overlap  |-> d = "CURRENT" /\ hist.overlap,
             pinsLost |-> IF mode = "same" THEN hist.pinsLost
                          ELSE d = "CURRENT" \/ pinFails,
             faults   |-> hist.faults + (IF ~r.ok \/ pinFails THEN 1 ELSE 0)]

-----------------------------------------------------------------------------
(* Threads: a thread is idle, in doRouting ("doRouting" wants mLock,       *)
(* "apply" and "enable" hold it), or at a step of its own around it.       *)

NoCall == [by |-> "output", devices |-> {}]
InputCall == [by |-> "input", devices |-> {}]
Idle == [at |-> "idle", then |-> "idle", call |-> NoCall, dev |-> "none"]

Is(t, at) == pc[t].at = at

\* The framework makes a call on thread t; a step inside a call.
Enter(t) ==
    /\ Is(t, "idle") /\ calls < MaxCalls
    /\ calls' = calls + 1
Within(t, at) == Is(t, at) /\ UNCHANGED calls

At(t, at) == pc' = [pc EXCEPT ![t] = [Idle EXCEPT !.at = at]]
Calls(t, call, then) ==
    pc' = [pc EXCEPT ![t] = [Idle EXCEPT !.at = "doRouting", !.then = then, !.call = call]]
Returns(t) == pc' = [pc EXCEPT ![t] = [Idle EXCEPT !.at = pc[t].then]]

\* doRouting, up to and with the routing call: nothing is done for a capture
\* in a voice call, or when the device is the cached one.
ChooseDevice(t) ==
    LET call == pc[t].call
        sel == Selected(call)
        a2dp == FmA2dpStatus \/ InDevice(call) = "IN_FM_RX_A2DP"
        dev == IF OutDevices(call) = {} /\ a2dp
               THEN SND_DEVICE("FM_DIGITAL_BT_A2DP_HEADSET") ELSE sel.device
    IN
    /\ Within(t, "doRouting") /\ mLock = NoThread
    /\ IF InDevice(call) = "IN_VOICE_CALL"
       THEN /\ Returns(t)
            /\ UNCHANGED <<mLock, pp, FmA2dpStatus, mMicMute, device, hist>>
       ELSE /\ FmA2dpStatus' = a2dp
            /\ pp' = [pp EXCEPT !.newMask = IF sel.filters THEN Features ELSE @]
            /\ IF dev \in {"none", mCurSndDevice}
               THEN /\ Returns(t)
                    /\ UNCHANGED <<mLock, mMicMute, device, hist>>
               ELSE /\ mLock' = t
                    /\ pc' = [pc EXCEPT ![t].at = "apply", ![t].dev = dev]
                    /\ doAudioRouteOrMute(dev, mMicMute)
    /\ UNCHANGED <<mMode, mTtyMode, mDualMicEnabled, mCurSndDevice, fmOn, streams, cal>>

\* The statics are updated only when nothing plays.
StaleDeviceVariant(t) ==
    LET on == hpcm \/ lpa
        off == IF on THEN msm72xx_enable_postproc(pp, cal, FALSE) ELSE pp IN
    /\ Within(t, "apply")
    /\ pp' = [off EXCEPT !.snd_device = IF on THEN @ ELSE pc[t].dev, !.mask = pp.newMask]
    /\ pc' = [pc EXCEPT ![t].at = "enable"]
    /\ UNCHANGED <<mLock, hardware, route, streams, cal, device, hist>>

\* ... the features of the previous device are disabled if something plays,
\* and the statics describe the new one;
ApplyDevice(t) ==
    LET off == IF hpcm \/ lpa THEN msm72xx_enable_postproc(pp, cal, FALSE) ELSE pp IN
    /\ Within(t, "apply")
    /\ pp' = [off EXCEPT !.snd_device = pc[t].dev, !.mask = pp.newMask]
    /\ pc' = [pc EXCEPT ![t].at = "enable"]
    /\ UNCHANGED <<mLock, hardware, route, streams, cal, device, hist>>

\* ... its features are enabled if something plays now, and the device is
\* cached, whether the routing call succeeded or not.
CacheDevice(t) ==
    /\ Within(t, "enable")
    /\ pp' = IF hpcm \/ lpa THEN msm72xx_enable_postproc(pp, cal, TRUE) ELSE pp
    /\ mCurSndDevice' = pc[t].dev
    /\ mLock' = NoThread
    /\ Returns(t)
    /\ UNCHANGED <<hardware, FmA2dpStatus, fmOn, streams, cal, device, hist>>

doRouting(t) == ChooseDevice(t) \/ ApplyDevice(t) \/ CacheDevice(t)

-----------------------------------------------------------------------------
(* Binder calls.                                                           *)

\* setMode: the base class stores the mode (a mode already set is refused),
\* then the cached device is cleared, without mLock.
setMode(m) ==
    /\ Enter("binder") /\ m # mMode
    /\ mMode' = m
    /\ At("binder", "clear")
    /\ UNCHANGED <<mLock, mMicMute, mTtyMode, mDualMicEnabled, route, streams,
                   pp, cal, device, hist>>

\* The cache is kept.
ClearForModeVariant ==
    /\ Within("binder", "clear") /\ At("binder", "idle")
    /\ UNCHANGED <<mLock, hardware, route, streams, pp, cal, device, hist>>

ClearForMode ==
    /\ Within("binder", "clear")
    /\ mCurSndDevice' = "none"
    /\ hist' = [hist EXCEPT !.pinsLost = @ \/ mCurSndDevice \in FmDigital,
                            !.overlap = mLock # NoThread]
    /\ At("binder", "idle")
    /\ UNCHANGED <<mLock, hardware, FmA2dpStatus, fmOn, streams, pp, cal, device>>

\* The state is stored and not sent while no device is cached.
setMicMuteVariant(state) ==
    /\ Enter("binder") /\ mLock = NoThread /\ mCurSndDevice = "none"
    /\ mMicMute' = state
    /\ UNCHANGED <<mLock, pc, mMode, mTtyMode, mDualMicEnabled, route, streams, pp,
                   cal, device, hist>>

\* setMicMute: nothing is sent when the state is the stored one.
setMicMute(state) ==
    /\ Enter("binder") /\ mLock = NoThread
    /\ state # mMicMute
    /\ doAudioRouteOrMute("CURRENT", state)
    /\ UNCHANGED <<mLock, pc, mMode, mTtyMode, mDualMicEnabled, route, streams, pp, cal>>

\* setParameters: tty_mode re-routes only a headset in a call; the second
\* microphone and an unknown Bluetooth name always route again.
setTtyMode(m) ==
    /\ Enter("binder")
    /\ mTtyMode' = m
    /\ IF mMode = "MODE_IN_CALL" /\ mCurSndDevice = SND_DEVICE("HEADSET")
       THEN Calls("binder", NoCall, "idle") ELSE pc' = pc
    /\ UNCHANGED <<mLock, mMode, mMicMute, mDualMicEnabled, route, streams, pp,
                   cal, device, hist>>

setDualMic(on) ==
    /\ Enter("binder")
    /\ mDualMicEnabled' = on
    /\ Calls("binder", NoCall, "idle")
    /\ UNCHANGED <<mLock, mMode, mMicMute, mTtyMode, route, streams, pp, cal,
                   device, hist>>

\* The low-power session: opening and closing it take mLock; its own routing
\* parameter routes to a device that the output stream does not have.
openLPA ==
    /\ Enter("binder") /\ mLock = NoThread /\ ~lpa
    /\ lpa' = TRUE
    /\ UNCHANGED <<mLock, pc, hardware, route, out, hpcm, in, audpre, pp,
                   cal, device, hist>>

closeLPA ==
    /\ Enter("binder") /\ mLock = NoThread /\ lpa
    /\ lpa' = FALSE
    /\ UNCHANGED <<mLock, pc, hardware, route, out, hpcm, in, audpre, pp,
                   cal, device, hist>>

routeLPA(devices) ==
    /\ Enter("binder") /\ lpa
    /\ Calls("binder", [by |-> "lpa", devices |-> devices], "idle")
    /\ UNCHANGED <<mLock, hardware, route, streams, pp, cal, device, hist>>

-----------------------------------------------------------------------------
(* The primary output (AudioStreamOutMSM72xx), on the playback thread.     *)

AUDIO_HW_NUM_OUT_BUF == 2

\* write: the driver is opened and configured on the first write after a
\* standby (a failure leaves the stream in standby); the second write starts
\* it and the features of the routed device.
write ==
    /\ Enter("playback")
    /\ LET left == IF out.standby THEN AUDIO_HW_NUM_OUT_BUF ELSE out.toFill IN
       /\ out' = [out EXCEPT !.standby = FALSE, !.toFill = IF left = 0 THEN 0 ELSE left - 1]
       /\ IF left = 1
          THEN /\ hpcm' = TRUE
               /\ pp' = msm72xx_enable_postproc([pp EXCEPT !.mask = pp.newMask], cal, TRUE)
          ELSE UNCHANGED <<hpcm, pp>>
    /\ UNCHANGED <<mLock, pc, hardware, route, lpa, in, audpre, cal, device, hist>>

\* standby: the features are left to a low-power session that still plays.
standby ==
    /\ Enter("playback") /\ ~out.standby
    /\ out' = [out EXCEPT !.standby = TRUE]
    /\ hpcm' = FALSE
    /\ pp' = IF lpa THEN pp ELSE msm72xx_enable_postproc(pp, cal, FALSE)
    /\ UNCHANGED <<mLock, pc, hardware, route, lpa, in, audpre, cal, device, hist>>

\* setParameters(routing).
routeOutput(devices) ==
    /\ Enter("playback")
    /\ out' = [out EXCEPT !.devices = devices]
    /\ Calls("playback", NoCall, "idle")
    /\ UNCHANGED <<mLock, hardware, route, hpcm, lpa, in, audpre, pp, cal,
                   device, hist>>

\* setParameters(handle_fm): enableFM opens and starts the FM driver; either
\* failure also closes the descriptor of an earlier call.
enableFM ==
    /\ Enter("playback")
    /\ \/ fmOn' = TRUE /\ UNCHANGED hist
       \/ /\ MayFail("pcm")
          /\ fmOn' = FALSE
          /\ hist' = [hist EXCEPT !.faults = @ + 1]
    /\ UNCHANGED <<mLock, pc, hardware, mCurSndDevice, FmA2dpStatus, streams, pp,
                   cal, device>>

disableFM ==
    /\ Enter("playback") /\ fmOn
    /\ fmOn' = FALSE
    /\ UNCHANGED <<mLock, pc, hardware, mCurSndDevice, FmA2dpStatus, streams, pp,
                   cal, device, hist>>

-----------------------------------------------------------------------------
(* The capture stream (AudioStreamInMSM72xx), on the capture thread, which *)
(* also opens and closes it: the framework ends the thread in between.     *)

NoInput == [state |-> "NONE", devices |-> "0"]
Rate == 8       \* SAMP_RATE_INDX_8000: the index a capture at 8 kHz uses

\* The part of standby() that runs once the driver is closed: the route is
\* chosen again for this stream, unless FM is on.
RestoreRoute(then, failed) ==
    IF ~Analog /\ ~fmOn
    THEN clearCurDevice(failed) /\ Calls("record", InputCall, then)
    ELSE /\ At("record", then)
         /\ hist' = [hist EXCEPT !.faults = @ + failed]
         /\ UNCHANGED mCurSndDevice

\* openInputStream and set(): a second stream is refused without effect (only
\* one instance may exist); when the driver fails, the new stream, which has
\* no device yet, is deleted, and its destructor routes again.
openInput(d) ==
    /\ Enter("record") /\ in = NoInput /\ mLock = NoThread
    /\ \/ /\ in' = [state |-> "OPENED", devices |-> d]
          /\ UNCHANGED <<pc, mCurSndDevice, hist>>
       \/ /\ MayFail("pcm")
          /\ in' = [state |-> "CLOSED", devices |-> "0"]
          /\ RestoreRoute("a2dpClose", 1)
    /\ UNCHANGED <<mLock, hardware, FmA2dpStatus, fmOn, out, hpcm, lpa,
                   audpre, pp, cal, device>>

\* read() of a stream in standby: set() again, under mLock.
reopenInput ==
    /\ Enter("record") /\ in.state = "CLOSED" /\ mLock = NoThread
    /\ in' = [in EXCEPT !.state = "OPENED"]
    /\ UNCHANGED <<mLock, pc, hardware, route, out, hpcm, lpa, audpre, pp,
                   cal, device, hist>>

\* read() of a stream not started: routing is forced to its device, except
\* for digital FM, which is routed already.
startInput ==
    /\ Enter("record") /\ in.state = "OPENED"
    /\ in' = [in EXCEPT !.state = "STARTED"]
    /\ IF in.devices # "IN_FM_RX"
       THEN clearCurDevice(0) /\ Calls("record", InputCall, "start")
       ELSE At("record", "start") /\ UNCHANGED <<mCurSndDevice, hist>>
    /\ UNCHANGED <<mLock, hardware, FmA2dpStatus, fmOn, out, hpcm, lpa,
                   audpre, pp, cal, device>>

CloseCapture ==
    /\ in' = [in EXCEPT !.state = "CLOSED"]
    /\ audpre' = IF in.state = "CLOSED" THEN audpre
                 ELSE msm72xx_enable_preproc(audpre, cal, Rate, FALSE)

\* The driver is closed and the pre-processing disabled (nothing to do in
\* standby already); then the route is restored.
InStandby(then, failed) ==
    /\ CloseCapture
    /\ RestoreRoute(then, failed)
    /\ UNCHANGED <<mLock, hardware, FmA2dpStatus, fmOn, out, hpcm, lpa, pp,
                   cal, device>>

\* AUDIO_START: a failure puts the stream in standby.
captureStarts ==
    /\ Within("record", "start")
    /\ audpre' = msm72xx_enable_preproc(audpre, cal, Rate, TRUE)
    /\ At("record", "idle")
    /\ UNCHANGED <<mLock, hardware, route, out, hpcm, lpa, in, pp, cal,
                   device, hist>>

captureFails == Within("record", "start") /\ MayFail("pcm") /\ InStandby("a2dp", 1)

standbyInput == Enter("record") /\ in # NoInput /\ InStandby("a2dp", 0)

\* closeInputStream: the destructor puts the stream in standby.
closeInput == Enter("record") /\ in # NoInput /\ InStandby("a2dpClose", 0)

\* A stream that is being deleted keeps the flag.
SwitchOffFmA2dpVariant ==
    /\ Within("record", "a2dpClose")
    /\ in' = NoInput
    /\ At("record", "idle")
    /\ UNCHANGED <<mLock, hardware, route, out, hpcm, lpa, audpre, pp, cal, device, hist>>

\* The end of standby(): FM over A2DP ends with the capture.
SwitchOffFmA2dp ==
    /\ Within("record", "a2dp") \/ Within("record", "a2dpClose")
    /\ FmA2dpStatus' = FALSE
    /\ in' = IF Is("record", "a2dpClose") THEN NoInput ELSE in
    /\ At("record", "idle")
    /\ UNCHANGED <<mLock, hardware, mCurSndDevice, fmOn, out, hpcm, lpa,
                   audpre, pp, cal, device, hist>>

\* setParameters(routing) of the capture stream.
routeInput(d) ==
    /\ Enter("record") /\ in # NoInput
    /\ in' = [in EXCEPT !.devices = d]
    /\ Calls("record", InputCall, "idle")
    /\ UNCHANGED <<mLock, hardware, route, out, hpcm, lpa, audpre, pp, cal,
                   device, hist>>

-----------------------------------------------------------------------------
Init ==
    /\ mLock = NoThread
    /\ pc = [t \in Threads |-> Idle] /\ calls = 0
    /\ mMode = "MODE_NORMAL" /\ mMicMute = TRUE
    /\ mTtyMode = "TTY_OFF" /\ mDualMicEnabled = FALSE
    /\ mCurSndDevice = "none" /\ FmA2dpStatus = FALSE /\ fmOn = FALSE
    /\ out = [devices |-> {"SPEAKER"}, standby |-> TRUE, toFill |-> 0]
    /\ hpcm = FALSE /\ lpa = FALSE
    /\ pp = [mask |-> {}, newMask |-> {}, snd_device |-> "none", audpp |-> {}]
    /\ \E lines \in Calibrations : cal = get_audpp_filter(lines)
    /\ in = NoInput /\ audpre = {}
    /\ snd = [device |-> "none", ear |-> TRUE, mic |-> TRUE]
    /\ pins = Range(BtRegs)
    /\ hist = [mode |-> "MODE_NORMAL", lost |-> TRUE, overlap |-> FALSE,
               pinsLost |-> FALSE, faults |-> 0]

Binder ==
    \/ \E m \in Modes : setMode(m)
    \/ ClearForMode
    \/ \E state \in BOOLEAN : setMicMute(state) \/ setDualMic(state)
    \/ \E m \in TtyModes : setTtyMode(m)
    \/ openLPA \/ closeLPA
    \/ \E devices \in LPARoutes : routeLPA(devices)

Playback ==
    \/ write \/ standby
    \/ \E devices \in OutRoutes : routeOutput(devices)
    \/ enableFM \/ disableFM

Record ==
    \/ \E d \in InDevices : openInput(d) \/ routeInput(d)
    \/ reopenInput \/ startInput \/ captureStarts \/ captureFails
    \/ standbyInput \/ closeInput \/ SwitchOffFmA2dp

Next == Binder \/ Playback \/ Record \/ \E t \in Threads : doRouting(t)

Spec == Init /\ [][Next]_vars

-----------------------------------------------------------------------------
(* Properties.                                                             *)

AllDevices == Endpoints \cup {"none"}

\* The variables are well typed, and mLock is held by a thread in the middle of
\* doRouting(); new post-processing masks are all of the features or none.
RoutingTypeOK ==
    /\ mLock = NoThread \/ pc[mLock].at \in {"apply", "enable"}
    /\ mCurSndDevice \in AllDevices /\ snd.device \in AllDevices
    /\ pp.audpp \subseteq Features /\ pp.newMask \in {{}, Features}
    /\ pins \in Pin!Pins
    /\ out.toFill \in 0 .. AUDIO_HW_NUM_OUT_BUF

\* Between routings the cached device is the one the driver has, as long as
\* the last selection was accepted (the code caches a refused one as well), and
\* it was selected under the present mode, on which the earpiece's mute depends:
\* that is why setMode() clears the cache.  It does so without mLock, so a
\* routing in flight at that moment ("overlap") caches the device of the mode
\* before.
CachedRouteIsCurrent ==
    mLock = NoThread /\ mCurSndDevice # "none" /\ ~hist.lost =>
        /\ snd.device = mCurSndDevice
        /\ hist.overlap \/ Is("binder", "clear") \/ hist.mode = mMode

\* The driver has the stored microphone mute: setMicMute() sends it only when
\* it differs from the stored one, FM overwrites the stored one.
MicMuteReachesDriver == ~hist.lost => snd.mic = mMicMute

\* The chip never drives the Bluetooth and the FM pins together, wherever the
\* writes of a switch stop.
PinsNeverShared == pins \cap Range(BtRegs) = {} \/ pins \cap Range(FmRegs) = {}

\* The FM pins are driven exactly while an FM device is cached, unless a
\* write failed, the mute was changed during FM or the cache was cleared
\* while it held an FM device ("pinsLost").
PinsFollowRoute ==
    mLock = NoThread /\ mCurSndDevice # "none" /\ ~hist.pinsLost
        => pins = Range(IF mCurSndDevice \in FmDigital THEN FmRegs ELSE BtRegs)

\* While the primary output plays and no routing is under way, the DSP runs
\* only features that the tables of the device in the driver allow, whichever
\* of the stream's start and the routing came first.
PostprocMatchesRoute ==
    hpcm /\ mLock = NoThread /\ ~hist.lost
        => pp.audpp \subseteq Allowed(cal, snd.device)

\* A capture leaves nothing on behind it: FM is routed to A2DP on behalf of a
\* capture stream only and ends with it, and pre-processing runs only for a
\* capture that has started, whichever of its calls failed.
CaptureLeavesNothingOn ==
    /\ in = NoInput => ~FmA2dpStatus
    /\ audpre # {} => in.state = "STARTED"
=============================================================================
