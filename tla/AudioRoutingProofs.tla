-------------------------- MODULE AudioRoutingProofs --------------------------
(***************************************************************************)
(* Safety of the routing of AudioHardware for any endpoints, routes, modes, *)
(* calibration files and failures, and any number of calls.                *)
(*                                                                         *)
(* The properties speak of the moments when no routing is under way; what  *)
(* makes them inductive is what holds in the middle of one: that the       *)
(* driver, the pins and the statics are already those of the device that   *)
(* doRouting() has chosen and has yet to cache.                            *)
(***************************************************************************)
EXTENDS AudioRouting, TLAPS

-----------------------------------------------------------------------------
(* Types.                                                                  *)

Places == {"idle", "doRouting", "apply", "enable", "clear", "start", "a2dp", "a2dpClose"}
InRouting == {"apply", "enable"}
Continuations == {"idle", "start", "a2dp", "a2dpClose"}
CallType == [by : {"output", "input", "lpa"}, devices : LPARoutes \cup {{}}]
PCType == [at : Places, then : Continuations, call : CallType, dev : AllDevices]

SndType == [device : AllDevices, ear : BOOLEAN, mic : BOOLEAN]
PPType == [mask : SUBSET Features, newMask : {{}, Features}, snd_device : AllDevices,
           audpp : SUBSET Features]
OutType == [devices : OutRoutes \cup {{"SPEAKER"}}, standby : BOOLEAN,
            toFill : 0 .. AUDIO_HW_NUM_OUT_BUF]
InType == [state : {"NONE", "OPENED", "CLOSED", "STARTED"}, devices : InDevices \cup {"0"}]
HistType == [mode : Modes \cup {"MODE_NORMAL"}, lost : BOOLEAN, overlap : BOOLEAN,
             pinsLost : BOOLEAN, faults : Nat]

RoutingTypes ==
    /\ mLock \in Threads \cup {NoThread}
    /\ pc \in [Threads -> PCType]
    /\ mMode \in Modes \cup {"MODE_NORMAL"} /\ mMicMute \in BOOLEAN
    /\ mTtyMode \in TtyModes \cup {"TTY_OFF"} /\ mDualMicEnabled \in BOOLEAN
    /\ mCurSndDevice \in AllDevices \ {"CURRENT"}
    /\ FmA2dpStatus \in BOOLEAN /\ fmOn \in BOOLEAN
    /\ out \in OutType /\ hpcm \in BOOLEAN /\ lpa \in BOOLEAN
    /\ pp \in PPType /\ in \in InType
    /\ snd \in SndType /\ pins \in Pin!Pins /\ hist \in HistType

-----------------------------------------------------------------------------
(* The inductive invariant.                                                *)

\* mLock is held exactly by the thread in the middle of doRouting(), which has
\* chosen a device of the driver.
LockInv ==
    \A t \in Threads :
        /\ mLock = t <=> pc[t].at \in InRouting
        /\ mLock = t => pc[t].dev \notin {"none", "CURRENT"}

\* The device of the last routing, cached or to be cached, is in the driver,
\* selected under the present mode.
UnderThisMode == hist.overlap \/ Is("binder", "clear") \/ hist.mode = mMode
RouteInv ==
    ~hist.lost =>
        /\ \A t \in Threads : mLock = t => snd.device = pc[t].dev /\ UnderThisMode
        /\ mLock = NoThread /\ mCurSndDevice # "none" =>
             snd.device = mCurSndDevice /\ UnderThisMode

\* The pins are those of that device, the Bluetooth pins when there is none.
DevicePins(d) == Range(IF d # "none" /\ d \in FmDigital THEN FmRegs ELSE BtRegs)
PinsInv ==
    ~hist.pinsLost =>
        /\ \A t \in Threads : mLock = t => pins = DevicePins(pc[t].dev)
        /\ mLock = NoThread => pins = DevicePins(mCurSndDevice)

\* The statics follow: from "enable" on they describe the device in the driver,
\* and what the DSP runs was allowed for the device they describe.
StaticsInv ==
    /\ \A t \in Threads : pc[t].at = "enable" => pp.snd_device = pc[t].dev
    /\ mLock = NoThread /\ ~hist.lost => pp.snd_device = snd.device
    /\ hpcm => pp.audpp \subseteq Allowed(cal, pp.snd_device)
    /\ pp.audpp # {} => cal.inited /\ pp.snd_device # "none"

\* What the capture's thread is doing tells the state of its stream.
RecordAt(places) == pc["record"].at \in places \/ pc["record"].then \in places
CaptureInv ==
    /\ pc["record"].at \notin InRouting \cup {"doRouting"} => pc["record"].then = "idle"
    /\ \A t \in Threads \ {"record"} : pc[t].call.by # "input"
    /\ RecordAt({"start"}) => in.state = "STARTED"
    /\ RecordAt({"a2dp", "a2dpClose"}) => in.state = "CLOSED"
    /\ in.state = "NONE" => in = NoInput
    /\ audpre # {} => cal.inited

RoutingInv ==
    /\ RoutingTypes /\ LockInv
    /\ RouteInv /\ MicMuteReachesDriver
    /\ PinsNeverShared /\ PinsInv
    /\ StaticsInv
    /\ CaptureInv /\ CaptureLeavesNothingOn

-----------------------------------------------------------------------------
(* The pins.                                                               *)

LEMMA RegsDiffer ==
    /\ BtRegs \in Seq(Range(BtRegs)) /\ FmRegs \in Seq(Range(FmRegs))
    /\ Len(BtRegs) \in Nat /\ Len(FmRegs) \in Nat
    /\ Range(BtRegs) = {BtRegs[i] : i \in 1 .. Len(BtRegs)}
    /\ Range(FmRegs) = {FmRegs[i] : i \in 1 .. Len(FmRegs)}
    /\ Range(BtRegs) \cap Range(FmRegs) = {}
BY RoutingAssumption DEF Range

LEMMA PinsAre == Pin!Pins = SUBSET (Range(BtRegs) \cup Range(FmRegs))
BY DEF Pin!Pins, Pin!Range, Range

\* The first n writes of a loop reach every register of it once n is their number.
LEMMA LoopWrites ==
    ASSUME NEW regs, regs \in Seq(Range(regs)), NEW n \in Int
    PROVE  /\ Pin!marimba_write(regs, n) \subseteq Range(regs)
           /\ n >= Len(regs) => Pin!marimba_write(regs, n) = Range(regs)
           /\ n <= 0 => Pin!marimba_write(regs, n) = {}
BY DEF Pin!marimba_write, Range

NotShared(p) == p \cap Range(BtRegs) = {} \/ p \cap Range(FmRegs) = {}
ModePins(mode) == Range(IF mode = "MODE_FM" THEN FmRegs ELSE BtRegs)

\* A switch, wherever its writes stop, never leaves both functions driven; one
\* that is complete leaves exactly the pins of its mode driven.
LEMMA SwitchEnds ==
    ASSUME NEW p \in Pin!Pins, NEW mode \in {"MODE_FM", "MODE_BTSCO"},
           NEW mayFail \in BOOLEAN, NEW q \in Pin!switch_mode(p, mode, mayFail)
    PROVE  /\ q \in Pin!Pins
           /\ NotShared(p) => NotShared(q)
           /\ ~mayFail => q = ModePins(mode)
<1>1. CASE mayFail /\ q = p
  BY <1>1
<1>2. CASE q \in Pin!switch_pins(p, mode, mayFail)
  <2> DEFINE off == IF mode = "MODE_FM" THEN BtRegs ELSE FmRegs
             on  == IF mode = "MODE_FM" THEN FmRegs ELSE BtRegs
  <2>1. /\ off \in Seq(Range(off)) /\ on \in Seq(Range(on))
        /\ Len(off) \in Nat /\ Len(on) \in Nat /\ Range(off) \cap Range(on) = {}
        /\ {Range(off), Range(on)} = {Range(BtRegs), Range(FmRegs)}
        /\ ModePins(mode) = Range(on)
    BY RegsDiffer DEF ModePins
  <2>2. PICK n \in 0 .. (Len(off) + Len(on)) :
          /\ q = (p \ Pin!marimba_write(off, n)) \cup Pin!marimba_write(on, n - Len(off))
          /\ ~mayFail => n = Len(off) + Len(on)
    BY <1>2, RegsDiffer DEF Pin!switch_pins, Pin!AfterWrites
  <2>3. p \subseteq Range(off) \cup Range(on)
    BY <2>1, PinsAre
  <2> HIDE DEF off, on
  <2>4. Pin!marimba_write(off, n) \subseteq Range(off)
        /\ Pin!marimba_write(on, n - Len(off)) \subseteq Range(on)
    BY <2>1, LoopWrites
  <2>5. q \subseteq Range(off) \cup Range(on)
    BY <2>2, <2>3, <2>4
  <2>6. CASE n >= Len(off)
    <3>1. Pin!marimba_write(off, n) = Range(off)
      BY <2>1, <2>6, LoopWrites
    <3>2. q \cap Range(off) = {}
      BY <2>1, <2>2, <2>4, <3>1
    <3>3. ~mayFail => Pin!marimba_write(on, n - Len(off)) = Range(on)
      BY <2>1, <2>2, LoopWrites
    <3>4. ~mayFail => q = Range(on)
      BY <2>2, <2>3, <3>1, <3>3
    <3> QED  BY <2>1, <2>5, <3>2, <3>4, PinsAre DEF NotShared
  <2>7. CASE n < Len(off)
    <3>1. n - Len(off) <= 0 /\ n - Len(off) \in Int
      BY <2>1, <2>7
    <3>2. Pin!marimba_write(on, n - Len(off)) = {}
      BY <2>1, <3>1, LoopWrites
    <3>3. q \subseteq p
      BY <2>2, <3>2
    <3>4. mayFail
      BY <2>1, <2>2, <2>7
    <3> QED  BY <2>1, <2>5, <3>3, <3>4, PinsAre DEF NotShared
  <2> QED  BY <2>1, <2>6, <2>7
<1> QED  BY <1>1, <1>2 DEF Pin!switch_mode

-----------------------------------------------------------------------------
(* The driver.                                                             *)

LEMMA DeviceNames ==
    /\ "CURRENT" \in AllDevices /\ "none" \in AllDevices /\ "none" \notin Endpoints
    /\ FmDigital \subseteq AllDevices \ {"CURRENT"}
    /\ \A x : x # "CURRENT" => SND_DEVICE(x) \in AllDevices \ {"CURRENT"}
BY RoutingAssumption DEF AllDevices, FmDigital, SND_DEVICE

LEMMA RouteOutcomes ==
    ASSUME NEW d \in AllDevices \ {"none"}, NEW ear \in BOOLEAN, NEW mic \in BOOLEAN,
           RoutingTypes, NEW r \in do_route_audio_rpc(d, ear, mic)
    PROVE  /\ r.snd \in SndType /\ r.ok \in BOOLEAN
           /\ r.ok => r.snd.mic = mic
           /\ r.ok => r.snd.device = IF d = "CURRENT" THEN snd.device ELSE d
<1> DEFINE Sel(m) == [device |-> IF d = "CURRENT" THEN snd.device ELSE d,
                      ear |-> ear, mic |-> m]
<1>1. snd \in SndType /\ \A m \in BOOLEAN : Sel(m) \in SndType
  BY DEF RoutingTypes, SndType
<1>2. \/ r = [ok |-> TRUE, snd |-> Sel(mic)]
      \/ r = [ok |-> FALSE, snd |-> snd]
      \/ r = [ok |-> FALSE, snd |-> Sel(TRUE)]
  BY DEF do_route_audio_rpc
<1>3. /\ Sel(mic).mic = mic
      /\ \A m : Sel(m).device = IF d = "CURRENT" THEN snd.device ELSE d
  OBVIOUS
<1>4. CASE r = [ok |-> TRUE, snd |-> Sel(mic)]
  <2> HIDE DEF Sel
  <2>1. r.ok = TRUE /\ r.snd = Sel(mic)
    BY <1>4
  <2> QED  BY <1>1, <1>3, <2>1
<1>5. ASSUME NEW kept \in SndType, r = [ok |-> FALSE, snd |-> kept]
      PROVE  r.ok = FALSE /\ r.snd \in SndType
  BY <1>5
<1> HIDE DEF Sel
<1> QED  BY <1>1, <1>2, <1>4, <1>5

\* What one call of doAudioRouteOrMute() leaves behind.
LEMMA RoutingCall ==
    ASSUME RoutingTypes, NEW d \in AllDevices \ {"none"}, NEW mute \in BOOLEAN,
           doAudioRouteOrMute(d, mute)
    PROVE  /\ mMicMute' \in BOOLEAN /\ snd' \in SndType /\ hist' \in HistType
           /\ ~hist'.lost => /\ snd'.mic = mMicMute' /\ hist'.mode = mMode
                             /\ snd'.device = IF d = "CURRENT" THEN snd.device ELSE d
           /\ d = "CURRENT" /\ hist.lost => hist'.lost
<1> DEFINE mic == ~fmOn /\ mute
           ear == ~fmOn /\ mMode \notin {"MODE_IN_CALL", "MODE_IN_COMMUNICATION"}
           mode == PinMode(d)
<1>1. mic \in BOOLEAN /\ ear \in BOOLEAN
  OBVIOUS
<1>2. PICK r \in do_route_audio_rpc(d, ear, mic) :
        LET pinFails == mode # "same" /\ pins' \notin Pin!switch_mode(pins, mode, FALSE) IN
        /\ mMicMute' = mic
        /\ snd' = r.snd
        /\ hist' =
            [mode     |-> IF r.ok THEN mMode ELSE hist.mode,
             lost     |-> ~r.ok \/ (d = "CURRENT" /\ hist.lost),
             overlap  |-> d = "CURRENT" /\ hist.overlap,
             pinsLost |-> IF mode = "same" THEN hist.pinsLost
                          ELSE d = "CURRENT" \/ pinFails,
             faults   |-> hist.faults + (IF ~r.ok \/ pinFails THEN 1 ELSE 0)]
  BY DEF doAudioRouteOrMute
<1> HIDE DEF mic, ear, mode
<1>3. /\ r.snd \in SndType /\ r.ok \in BOOLEAN
      /\ r.ok => r.snd.mic = mic
      /\ r.ok => r.snd.device = IF d = "CURRENT" THEN snd.device ELSE d
  BY <1>1, RouteOutcomes
<1>4. hist' \in HistType
  <2>1. /\ mMode \in Modes \cup {"MODE_NORMAL"} /\ hist.mode \in Modes \cup {"MODE_NORMAL"}
        /\ hist.lost \in BOOLEAN /\ hist.overlap \in BOOLEAN /\ hist.pinsLost \in BOOLEAN
        /\ hist.faults \in Nat
    BY DEF RoutingTypes, HistType
  <2> DEFINE pinFails == mode # "same" /\ pins' \notin Pin!switch_mode(pins, mode, FALSE)
             lost == ~r.ok \/ (d = "CURRENT" /\ hist.lost)
             overlap == d = "CURRENT" /\ hist.overlap
             pinsLost == IF mode = "same" THEN hist.pinsLost ELSE d = "CURRENT" \/ pinFails
             faults == hist.faults + (IF ~r.ok \/ pinFails THEN 1 ELSE 0)
             new == IF r.ok THEN mMode ELSE hist.mode
  <2>2. lost \in BOOLEAN /\ overlap \in BOOLEAN /\ faults \in Nat
    <3>1. lost \in BOOLEAN /\ overlap \in BOOLEAN
      OBVIOUS
    <3>2. (IF ~r.ok \/ pinFails THEN 1 ELSE 0) \in Nat
      OBVIOUS
    <3> HIDE DEF pinFails
    <3> QED  BY <2>1, <3>1, <3>2
  <2>3. new \in Modes \cup {"MODE_NORMAL"}
    BY <1>3, <2>1
  <2>4. pinsLost \in BOOLEAN
    <3>1. CASE mode = "same"
      BY <2>1, <3>1
    <3>2. CASE mode # "same"
      BY <3>2
    <3> QED  BY <3>1, <3>2
  <2>5. hist' = [mode |-> new, lost |-> lost, overlap |-> overlap, pinsLost |-> pinsLost,
                 faults |-> faults]
    BY <1>2
  <2> HIDE DEF lost, overlap, pinsLost, faults, new
  <2> QED  BY <2>2, <2>3, <2>4, <2>5 DEF HistType
<1>5. hist'.lost = (~r.ok \/ (d = "CURRENT" /\ hist.lost)) /\ (r.ok => hist'.mode = mMode)
  BY <1>2, <1>3
<1> QED  BY <1>1, <1>2, <1>3, <1>4, <1>5

\* The pins follow the device of the call; a change of the mute alone switches
\* them only when it loses track of them.
LEMMA RoutingPins ==
    ASSUME RoutingTypes, PinsInv, mLock = NoThread, NEW d \in AllDevices \ {"none"},
           d # mCurSndDevice, NEW mute, doAudioRouteOrMute(d, mute)
    PROVE  /\ pins' \in Pin!Pins
           /\ PinsNeverShared => PinsNeverShared'
           /\ ~hist'.pinsLost =>
                pins' = DevicePins(IF d = "CURRENT" THEN mCurSndDevice ELSE d)
<1> DEFINE mode == PinMode(d)
<1>1. /\ pins' \in IF mode = "same" THEN {pins}
                   ELSE Pin!switch_mode(pins, mode, MayFail("pin"))
      /\ hist'.pinsLost = IF mode = "same" THEN hist.pinsLost
                          ELSE d = "CURRENT" \/ (mode # "same"
                                 /\ pins' \notin Pin!switch_mode(pins, mode, FALSE))
  BY DEF doAudioRouteOrMute
<1>2. pins \in Pin!Pins /\ MayFail("pin") \in BOOLEAN
  BY DEF RoutingTypes, MayFail
<1>3. \/ d \in FmDigital /\ mode = "MODE_FM"
      \/ d \notin FmDigital /\ mCurSndDevice \in FmDigital /\ mode = "MODE_BTSCO"
      \/ d \notin FmDigital /\ mCurSndDevice \notin FmDigital /\ mode = "same"
  BY DEF PinMode
<1> HIDE DEF mode
<1>4. CASE mode = "same"
  BY <1>1, <1>2, <1>3, <1>4 DEF PinsInv, DevicePins, PinsNeverShared
<1>5. CASE mode \in {"MODE_FM", "MODE_BTSCO"}
  <2>1. pins' \in Pin!Pins /\ (NotShared(pins) => NotShared(pins'))
    BY <1>1, <1>2, <1>5, SwitchEnds
  <2>2. ~hist'.pinsLost => d # "CURRENT" /\ pins' = ModePins(mode)
    BY <1>1, <1>2, <1>5, SwitchEnds
  <2>3. d # "CURRENT" => DevicePins(d) = ModePins(mode)
    BY <1>3, <1>5 DEF DevicePins, ModePins
  <2> QED  BY <2>1, <2>2, <2>3 DEF NotShared, PinsNeverShared
<1> QED  BY <1>3, <1>4, <1>5

-----------------------------------------------------------------------------
(* doRouting().                                                            *)

\* The choice of a device is one of the driver's, or none.
LEMMA InputRouteIsDevice ==
    ASSUME RoutingTypes, NEW call, InDevice(call) # "IN_VOICE_CALL", NEW outs
    PROVE  InputRoute(InDevice(call), outs) \in AllDevices \ {"CURRENT"}
<1>1. InDevice(call) \in {"IN_MIC", "IN_SCO", "IN_WIRED_HEADSET", "IN_FM_RX", "IN_FM_RX_A2DP",
                          "0"}
  BY RoutingAssumption DEF RoutingTypes, InType, InDevice
<1> QED  BY <1>1, DeviceNames DEF InputRoute

LEMMA OutputRouteIsDevice ==
    ASSUME RoutingTypes, NEW outs
    PROVE  OutputRoute(outs).device \in AllDevices \ {"CURRENT"}
<1>1. mTtyMode \in {"TTY_OFF", "TTY_FULL", "TTY_VCO", "TTY_HCO"}
  BY RoutingAssumption DEF RoutingTypes
<1> DEFINE tty == [TTY_FULL |-> "TTY_HEADSET", TTY_VCO |-> "TTY_VCO", TTY_HCO |-> "TTY_HCO"]
<1>2. mTtyMode # "TTY_OFF" => tty[mTtyMode] # "CURRENT"
  BY <1>1
<1> HIDE DEF tty
<1> QED  BY <1>2, DeviceNames DEF OutputRoute, tty

LEMMA SelectedIsDevice ==
    ASSUME RoutingTypes, NEW call, InDevice(call) # "IN_VOICE_CALL"
    PROVE  Selected(call).device \in AllDevices \ {"CURRENT"}
<1>1. \A d \in AllDevices \ {"CURRENT"} : DualMic(d) \in AllDevices \ {"CURRENT"}
  BY DeviceNames DEF DualMic
<1> QED  BY <1>1, InputRouteIsDevice, OutputRouteIsDevice DEF Selected

-----------------------------------------------------------------------------
(* Where a step takes its thread.                                          *)

LEMMA ThreadsAre ==
    /\ "binder" \in Threads /\ "playback" \in Threads /\ "record" \in Threads
    /\ NoThread \notin Threads
BY DEF Threads, NoThread

\* A step of thread t takes it to "at", to go on at "then", with the call "by".
Moves(t, at, then, by) ==
    /\ pc' \in [Threads -> PCType]
    /\ pc'[t].at = at /\ pc'[t].then = then /\ pc'[t].call.by = by
    /\ \A u \in Threads \ {t} : pc'[u] = pc[u]

LEMMA CallsAreTyped ==
    /\ NoCall \in CallType /\ NoCall.by = "output"
    /\ InputCall \in CallType /\ InputCall.by = "input"
    /\ \A devices \in LPARoutes : [by |-> "lpa", devices |-> devices] \in CallType
BY DEF NoCall, InputCall, CallType

LEMMA AtMoves ==
    ASSUME RoutingTypes, NEW t \in Threads, NEW at \in Places, At(t, at)
    PROVE  Moves(t, at, "idle", "output")
<1> DEFINE new == [Idle EXCEPT !.at = at]
<1>1. new \in PCType /\ new.at = at /\ new.then = "idle" /\ new.call.by = "output"
  BY CallsAreTyped, DeviceNames DEF Idle, PCType, Places, InRouting, Continuations
<1>2. pc' = [pc EXCEPT ![t] = new]
  BY DEF At
<1> HIDE DEF new
<1> QED  BY <1>1, <1>2 DEF Moves, RoutingTypes

LEMMA CallsMoves ==
    ASSUME RoutingTypes, NEW t \in Threads, NEW call \in CallType,
           NEW then \in Continuations, Calls(t, call, then)
    PROVE  Moves(t, "doRouting", then, call.by)
<1> DEFINE new == [Idle EXCEPT !.at = "doRouting", !.then = then, !.call = call]
<1>1. new \in PCType /\ new.at = "doRouting" /\ new.then = then /\ new.call = call
  BY CallsAreTyped, DeviceNames DEF Idle, PCType, Places, InRouting, Continuations
<1>2. pc' = [pc EXCEPT ![t] = new]
  BY DEF Calls
<1> HIDE DEF new
<1> QED  BY <1>1, <1>2 DEF Moves, RoutingTypes

LEMMA ReturnsMoves ==
    ASSUME RoutingTypes, NEW t \in Threads, Returns(t)
    PROVE  Moves(t, pc[t].then, "idle", "output") /\ pc[t].then \in Continuations
<1> DEFINE new == [Idle EXCEPT !.at = pc[t].then]
<1>1. pc[t].then \in Continuations
  BY DEF RoutingTypes, PCType
<1>2. new \in PCType /\ new.at = pc[t].then /\ new.then = "idle" /\ new.call.by = "output"
  BY <1>1, CallsAreTyped, DeviceNames DEF Idle, PCType, Places, InRouting, Continuations
<1>3. pc' = [pc EXCEPT ![t] = new]
  BY DEF Returns
<1> HIDE DEF new
<1> QED  BY <1>1, <1>2, <1>3 DEF Moves, RoutingTypes

LEMMA StaysMoves ==
    ASSUME RoutingTypes, NEW t \in Threads, pc' = pc
    PROVE  Moves(t, pc[t].at, pc[t].then, pc[t].call.by)
BY DEF RoutingTypes, Moves

-----------------------------------------------------------------------------
(* Steps outside doRouting().                                              *)

\* The route, the mute and the pins are those of before; the cache may have
\* been cleared, which is recorded when it loses track of the pins.
KeepsRoute ==
    /\ UNCHANGED <<mLock, mMicMute, snd, pins>>
    /\ hist'.lost = hist.lost /\ hist'.mode = hist.mode
    /\ \/ mCurSndDevice' = mCurSndDevice /\ hist'.pinsLost = hist.pinsLost
       \/ /\ mCurSndDevice' = "none"
          /\ hist'.pinsLost = (hist.pinsLost \/ mCurSndDevice \in FmDigital)

\* The mode is that of before, or the binder thread has yet to clear the cache
\* for it, or clears it now and records a routing under way.
KeepsMode ==
    \/ /\ mMode' = mMode /\ hist'.overlap = hist.overlap
       /\ Is("binder", "clear")' <=> Is("binder", "clear")
    \/ hist'.overlap = hist.overlap /\ Is("binder", "clear")'
    \/ mCurSndDevice' = "none" /\ hist'.overlap = (mLock # NoThread)

\* Thread t was not in the middle of doRouting(), and is not.
Outside(t) ==
    /\ pc[t].at \notin InRouting /\ pc'[t].at \notin InRouting
    /\ \A u \in Threads \ {t} : pc'[u] = pc[u]

LEMMA OutsideKeepsRoute ==
    ASSUME RoutingInv, NEW t \in Threads, Outside(t), KeepsRoute, KeepsMode
    PROVE  LockInv' /\ RouteInv' /\ MicMuteReachesDriver' /\ PinsNeverShared' /\ PinsInv'
<1>1. LockInv'
  BY DEF RoutingInv, LockInv, Outside, KeepsRoute
<1>2. \A u \in Threads : mLock' = u => u # t /\ pc'[u] = pc[u]
  BY DEF RoutingInv, LockInv, Outside, KeepsRoute
<1>3. RouteInv'
  BY <1>2, ThreadsAre
     DEF RoutingInv, RouteInv, UnderThisMode, KeepsRoute, KeepsMode
<1>4. MicMuteReachesDriver' /\ PinsNeverShared'
  BY DEF RoutingInv, MicMuteReachesDriver, PinsNeverShared, KeepsRoute
<1>5. PinsInv'
  BY <1>2 DEF RoutingInv, PinsInv, DevicePins, KeepsRoute
<1> QED  BY <1>1, <1>3, <1>4, <1>5

\* ... and the post-processing is left alone, or the stream stops.
LEMMA OutsideKeepsStatics ==
    ASSUME RoutingInv, NEW t \in Threads, Outside(t), KeepsRoute, pp' = pp, cal' = cal,
           hpcm' => hpcm
    PROVE  StaticsInv'
BY DEF RoutingInv, StaticsInv, Outside, KeepsRoute, InRouting

\* A step of another thread leaves the capture alone.
LEMMA OthersKeepCapture ==
    ASSUME RoutingInv, NEW t \in Threads \ {"record"}, UNCHANGED <<in, audpre, cal>>,
           FmA2dpStatus' = FmA2dpStatus,
           \A u \in Threads \ {t} : pc'[u] = pc[u], pc'[t].call.by # "input"
    PROVE  CaptureInv' /\ CaptureLeavesNothingOn'
BY ThreadsAre DEF RoutingInv, CaptureInv, RecordAt, CaptureLeavesNothingOn

-----------------------------------------------------------------------------
(* Binder calls.                                                           *)

LEMMA SetModeKeeps ==
    ASSUME RoutingInv, NEW m \in Modes, setMode(m) PROVE RoutingInv'
<1> USE ThreadsAre DEF setMode, Enter, Is, hardware, route, streams, device, Places, InRouting, Continuations
<1>1. RoutingTypes
  BY DEF RoutingInv
<1>2. Moves("binder", "clear", "idle", "output")
  BY <1>1, AtMoves
<1>3. RoutingTypes'
  BY <1>1, <1>2 DEF RoutingTypes, Moves
<1>4. Outside("binder") /\ KeepsRoute /\ KeepsMode
  BY <1>2 DEF Outside, KeepsRoute, KeepsMode, Moves
<1>5. CaptureInv' /\ CaptureLeavesNothingOn'
  BY <1>2, OthersKeepCapture DEF Moves
<1>6. StaticsInv'
  BY <1>4, OutsideKeepsStatics
<1> QED  BY <1>3, <1>4, <1>5, <1>6, OutsideKeepsRoute DEF RoutingInv

LEMMA ClearForModeKeeps == ASSUME RoutingInv, ClearForMode PROVE RoutingInv'
<1> USE ThreadsAre DEF ClearForMode, Within, Is, hardware, streams, device, Places, InRouting, Continuations
<1>1. RoutingTypes
  BY DEF RoutingInv
<1>2. Moves("binder", "idle", "idle", "output")
  BY <1>1, AtMoves
<1>3. hist' \in HistType
  BY <1>1 DEF RoutingTypes, HistType
<1>4. RoutingTypes'
  BY <1>1, <1>2, <1>3, DeviceNames DEF RoutingTypes, Moves
<1>5. hist'.lost = hist.lost /\ hist'.mode = hist.mode
      /\ hist'.pinsLost = (hist.pinsLost \/ mCurSndDevice \in FmDigital)
      /\ hist'.overlap = (mLock # NoThread)
  BY <1>1 DEF RoutingTypes, HistType
<1>6. Outside("binder") /\ KeepsRoute /\ KeepsMode
  BY <1>2, <1>5 DEF Outside, KeepsRoute, KeepsMode, Moves
<1>7. CaptureInv' /\ CaptureLeavesNothingOn'
  BY <1>2, OthersKeepCapture DEF Moves
<1>8. StaticsInv'
  BY <1>6, OutsideKeepsStatics
<1> QED  BY <1>4, <1>6, <1>7, <1>8, OutsideKeepsRoute DEF RoutingInv

LEMMA SetMicMuteKeeps ==
    ASSUME RoutingInv, NEW state \in BOOLEAN, setMicMute(state) PROVE RoutingInv'
<1> USE ThreadsAre DEF setMicMute, Enter, Is, route, streams, InRouting
<1>1. RoutingTypes /\ "CURRENT" \in AllDevices \ {"none"} /\ "CURRENT" # mCurSndDevice
  BY DeviceNames, RoutingAssumption DEF RoutingInv, RoutingTypes
<1>2. /\ mMicMute' \in BOOLEAN /\ snd' \in SndType /\ hist' \in HistType
      /\ ~hist'.lost => /\ snd'.mic = mMicMute' /\ hist'.mode = mMode
                        /\ snd'.device = snd.device /\ ~hist.lost
  BY <1>1, RoutingCall
<1>3. /\ pins' \in Pin!Pins /\ PinsNeverShared'
      /\ ~hist'.pinsLost => pins' = DevicePins(mCurSndDevice)
  BY <1>1, RoutingPins DEF RoutingInv
<1>4. RoutingTypes'
  BY <1>1, <1>2, <1>3 DEF RoutingTypes
<1>5. LockInv' /\ \A t \in Threads : mLock' # t
  BY DEF RoutingInv, LockInv
<1>6. RouteInv' /\ MicMuteReachesDriver'
  BY <1>2, <1>5 DEF RoutingInv, RouteInv, UnderThisMode, MicMuteReachesDriver
<1>7. PinsInv'
  BY <1>3, <1>5 DEF PinsInv, DevicePins
<1>8. StaticsInv'
  BY <1>2 DEF RoutingInv, StaticsInv
<1>9. CaptureInv' /\ CaptureLeavesNothingOn'
  BY DEF RoutingInv, CaptureInv, RecordAt, CaptureLeavesNothingOn
<1> QED  BY <1>3, <1>4, <1>5, <1>6, <1>7, <1>8, <1>9 DEF RoutingInv

\* The parameters, and the low-power session.
LEMMA ParametersKeep ==
    ASSUME RoutingInv,
           \/ \E m \in TtyModes : setTtyMode(m)
           \/ \E on \in BOOLEAN : setDualMic(on)
           \/ openLPA \/ closeLPA
           \/ \E devices \in LPARoutes : routeLPA(devices)
    PROVE  RoutingInv'
<1> USE ThreadsAre DEF setTtyMode, setDualMic, openLPA, closeLPA, routeLPA, Enter, Is,
        hardware, route, streams, device, Places, InRouting, Continuations
<1>1. RoutingTypes
  BY DEF RoutingInv
<1>2. pc["binder"].at = "idle"
  OBVIOUS
<1>3. \/ Moves("binder", "doRouting", "idle", "output")
      \/ Moves("binder", "doRouting", "idle", "lpa")
      \/ pc' = pc
  <2>1. \/ Calls("binder", NoCall, "idle") \/ pc' = pc
        \/ \E call \in CallType : call.by = "lpa" /\ Calls("binder", call, "idle")
    BY CallsAreTyped
  <2> QED  BY <1>1, <2>1, CallsMoves, CallsAreTyped
<1>4. RoutingTypes'
  BY <1>1, <1>3 DEF RoutingTypes, Moves
<1>5. Outside("binder") /\ KeepsRoute /\ KeepsMode
  BY <1>2, <1>3 DEF Outside, KeepsRoute, KeepsMode, Moves
<1>6. pc'["binder"].call.by # "input"
  BY <1>3 DEF Moves, RoutingInv, CaptureInv
<1>7. /\ UNCHANGED <<in, audpre, cal>> /\ FmA2dpStatus' = FmA2dpStatus
      /\ pp' = pp /\ cal' = cal /\ hpcm' = hpcm
  OBVIOUS
<1>8. StaticsInv'
  BY <1>5, <1>7, OutsideKeepsStatics
<1>9. CaptureInv' /\ CaptureLeavesNothingOn'
  <2>1. "binder" \in Threads \ {"record"}
    OBVIOUS
  <2>2. \A u \in Threads \ {"binder"} : pc'[u] = pc[u]
    BY <1>5 DEF Outside
  <2> QED  BY RoutingInv, <1>6, <1>7, <2>1, <2>2, OthersKeepCapture
<1> QED  BY <1>4, <1>5, <1>8, <1>9, OutsideKeepsRoute DEF RoutingInv

-----------------------------------------------------------------------------
(* The primary output.                                                     *)

LEMMA PostprocTypes ==
    ASSUME NEW p \in PPType, NEW on \in BOOLEAN
    PROVE  /\ msm72xx_enable_postproc(p, cal, on) \in PPType
           /\ msm72xx_enable_postproc(p, cal, on).snd_device = p.snd_device
           /\ msm72xx_enable_postproc(p, cal, on).newMask = p.newMask
BY DEF msm72xx_enable_postproc, PPType

\* What msm72xx_enable_postproc() leaves enabled: features of the mask that the
\* tables of the device allow, none of them when switched off, and what there
\* was without tables or a device.
LEMMA PostprocEnables ==
    ASSUME NEW p \in PPType, NEW on \in BOOLEAN
    PROVE  LET q == msm72xx_enable_postproc(p, cal, on) IN
           /\ cal.inited /\ p.snd_device # "none" =>
                /\ q.audpp \subseteq Allowed(cal, p.snd_device)
                /\ ~on => q.audpp = {}
           /\ ~(cal.inited /\ p.snd_device # "none") => q.audpp = p.audpp
BY DEF msm72xx_enable_postproc, PPType

LEMMA WriteKeeps == ASSUME RoutingInv, write PROVE RoutingInv'
<1> USE ThreadsAre DEF write, Enter, Is, hardware, route, device, InRouting
<1> DEFINE old == [pp EXCEPT !.mask = pp.newMask]
<1>1. RoutingTypes
  BY DEF RoutingInv
<1>2. old \in PPType /\ old.snd_device = pp.snd_device /\ old.audpp = pp.audpp
  BY <1>1 DEF RoutingTypes, PPType
<1>3. \/ pp' = pp /\ hpcm' = hpcm
      \/ pp' = msm72xx_enable_postproc(old, cal, TRUE) /\ hpcm' = TRUE
  OBVIOUS
<1> HIDE DEF old
<1>4. pp' \in PPType /\ pp'.snd_device = pp.snd_device
  BY <1>1, <1>2, <1>3, PostprocTypes DEF RoutingTypes
<1>5. out' \in OutType
  <2> DEFINE left == IF out.standby THEN AUDIO_HW_NUM_OUT_BUF ELSE out.toFill
  <2>1. left \in 0 .. AUDIO_HW_NUM_OUT_BUF /\ out \in OutType
    BY <1>1 DEF RoutingTypes, OutType, AUDIO_HW_NUM_OUT_BUF
  <2>2. (IF left = 0 THEN 0 ELSE left - 1) \in 0 .. AUDIO_HW_NUM_OUT_BUF
    BY <2>1 DEF AUDIO_HW_NUM_OUT_BUF
  <2> HIDE DEF left
  <2>3. out' = [out EXCEPT !.standby = FALSE, !.toFill = IF left = 0 THEN 0 ELSE left - 1]
    BY DEF left
  <2> QED  BY <2>1, <2>2, <2>3 DEF OutType
<1>6. RoutingTypes'
  BY <1>1, <1>3, <1>4, <1>5 DEF RoutingTypes
<1>7. Outside("playback") /\ KeepsRoute /\ KeepsMode
  BY DEF Outside, KeepsRoute, KeepsMode
<1>8. CaptureInv' /\ CaptureLeavesNothingOn'
  BY <1>7, OthersKeepCapture DEF RoutingInv, CaptureInv
<1>9. StaticsInv'
  <2>1. /\ hpcm' => pp'.audpp \subseteq Allowed(cal, pp.snd_device)
        /\ pp'.audpp # {} => cal.inited /\ pp.snd_device # "none"
    <3>1. CASE pp' = pp /\ hpcm' = hpcm
      BY <3>1 DEF RoutingInv, StaticsInv
    <3>2. CASE pp' = msm72xx_enable_postproc(old, cal, TRUE)
      BY <1>2, <3>2, PostprocEnables DEF RoutingInv, StaticsInv
    <3> QED  BY <1>3, <3>1, <3>2
  <2> QED  BY <1>4, <2>1 DEF RoutingInv, StaticsInv
<1> QED  BY <1>6, <1>7, <1>8, <1>9, OutsideKeepsRoute DEF RoutingInv

LEMMA StandbyKeeps == ASSUME RoutingInv, standby PROVE RoutingInv'
<1> USE ThreadsAre DEF standby, Enter, Is, hardware, route, device, InRouting
<1>1. RoutingTypes /\ pp \in PPType
  BY DEF RoutingInv, RoutingTypes
<1>2. pp' = pp \/ pp' = msm72xx_enable_postproc(pp, cal, FALSE)
  OBVIOUS
<1>3. pp' \in PPType /\ pp'.snd_device = pp.snd_device
  BY <1>1, <1>2, PostprocTypes
<1>4. out' \in OutType
  BY <1>1 DEF RoutingTypes, OutType
<1>5. RoutingTypes'
  BY <1>1, <1>3, <1>4 DEF RoutingTypes
<1>6. Outside("playback") /\ KeepsRoute /\ KeepsMode
  BY DEF Outside, KeepsRoute, KeepsMode
<1>7. CaptureInv' /\ CaptureLeavesNothingOn'
  BY <1>6, OthersKeepCapture DEF RoutingInv, CaptureInv
<1>8. StaticsInv'
  <2>1. pp'.audpp # {} => pp'.audpp = pp.audpp
    BY <1>1, <1>2, PostprocEnables
  <2> QED  BY <1>3, <2>1 DEF RoutingInv, StaticsInv
<1> QED  BY <1>5, <1>6, <1>7, <1>8, OutsideKeepsRoute DEF RoutingInv

LEMMA OutputKeeps ==
    ASSUME RoutingInv,
           (\E devices \in OutRoutes : routeOutput(devices)) \/ enableFM \/ disableFM
    PROVE  RoutingInv'
<1> USE ThreadsAre DEF routeOutput, enableFM, disableFM, Enter, Is, hardware, route, streams,
        device, Places, InRouting, Continuations
<1>1. RoutingTypes /\ pc["playback"].at = "idle"
  BY DEF RoutingInv
<1>2. Moves("playback", "doRouting", "idle", "output") \/ pc' = pc
  BY <1>1, CallsMoves, CallsAreTyped
<1>3. /\ hist' \in HistType
      /\ hist'.lost = hist.lost /\ hist'.mode = hist.mode
      /\ hist'.pinsLost = hist.pinsLost /\ hist'.overlap = hist.overlap
  BY <1>1 DEF RoutingTypes, HistType
<1>4. out' \in OutType
  BY <1>1 DEF RoutingTypes, OutType
<1>5. RoutingTypes'
  BY <1>1, <1>2, <1>3, <1>4 DEF RoutingTypes, Moves
<1>6. Outside("playback") /\ KeepsRoute /\ KeepsMode
  BY <1>1, <1>2, <1>3 DEF Outside, KeepsRoute, KeepsMode, Moves
<1>7. pc'["playback"].call.by # "input"
  BY <1>2 DEF Moves, RoutingInv, CaptureInv
<1>8. CaptureInv' /\ CaptureLeavesNothingOn'
  BY <1>6, <1>7, OthersKeepCapture DEF Outside
<1>9. StaticsInv'
  BY <1>6, OutsideKeepsStatics
<1> QED  BY <1>5, <1>6, <1>8, <1>9, OutsideKeepsRoute DEF RoutingInv

-----------------------------------------------------------------------------
(* The capture stream.                                                     *)

\* A step of the capture's thread, outside doRouting(), that leaves the
\* capture's part of the invariant true.
RecordStep ==
    /\ \E at \in Places \ InRouting, then \in Continuations,
          by \in {"output", "input", "lpa"} :
          Moves("record", at, then, by)
    /\ pc["record"].at \notin InRouting
    /\ KeepsRoute /\ hist' \in HistType /\ hist'.overlap = hist.overlap
    /\ UNCHANGED <<mMode, mTtyMode, mDualMicEnabled, fmOn, out, hpcm, lpa, pp, cal>>
    /\ in' \in InType /\ FmA2dpStatus' \in BOOLEAN

LEMMA RecordStepKeeps ==
    ASSUME RoutingInv, RecordStep, CaptureInv', CaptureLeavesNothingOn' PROVE RoutingInv'
<1> USE ThreadsAre
<1>1. RoutingTypes'
  BY DeviceNames DEF RoutingInv, RoutingTypes, RecordStep, KeepsRoute, Moves
<1>2. Outside("record") /\ KeepsRoute /\ KeepsMode
  BY DEF RecordStep, Moves, Outside, KeepsMode, Is
<1>3. StaticsInv'
  BY <1>2, OutsideKeepsStatics DEF RecordStep
<1> QED  BY <1>1, <1>2, <1>3, OutsideKeepsRoute DEF RoutingInv

\* The other threads' part of CaptureInv.
LEMMA OthersCalls ==
    ASSUME RoutingInv, RecordStep
    PROVE  \A t \in Threads \ {"record"} : pc'[t].call.by # "input"
BY DEF RoutingInv, CaptureInv, RecordStep, Moves

\* Clearing the cached device keeps track of the pins as far as it can.
LEMMA ClearKeepsRoute ==
    ASSUME RoutingTypes, NEW failed \in {0, 1},
           clearCurDevice(failed) \/ (/\ hist' = [hist EXCEPT !.faults = @ + failed]
                                      /\ UNCHANGED mCurSndDevice),
           UNCHANGED <<mLock, hardware, device>>
    PROVE  KeepsRoute /\ hist' \in HistType /\ hist'.overlap = hist.overlap
<1>1. hist \in HistType
  BY DEF RoutingTypes
<1>2. CASE clearCurDevice(failed)
  <2> DEFINE l == hist.pinsLost \/ mCurSndDevice \in FmDigital
             f == hist.faults + failed
  <2>1. hist' = [hist EXCEPT !.pinsLost = l, !.faults = f] /\ mCurSndDevice' = "none"
    BY <1>2 DEF clearCurDevice
  <2>2. l \in BOOLEAN /\ f \in Nat
    BY <1>1 DEF HistType
  <2>3. l = (hist.pinsLost \/ mCurSndDevice \in FmDigital)
    OBVIOUS
  <2> HIDE DEF l, f
  <2>4. hist' \in HistType /\ hist'.pinsLost = l /\ hist'.overlap = hist.overlap
        /\ hist'.lost = hist.lost /\ hist'.mode = hist.mode
    BY <1>1, <2>1, <2>2 DEF HistType
  <2> QED  BY <2>1, <2>3, <2>4 DEF KeepsRoute, hardware, device
<1>3. CASE hist' = [hist EXCEPT !.faults = @ + failed] /\ UNCHANGED mCurSndDevice
  BY <1>1, <1>3 DEF HistType, KeepsRoute, hardware, device
<1> QED  BY <1>2, <1>3

\* The end of standby() and of the destructor: the route is chosen again.
LEMMA RestoreMoves ==
    ASSUME RoutingTypes, NEW then \in {"a2dp", "a2dpClose"}, NEW failed \in {0, 1},
           RestoreRoute(then, failed), UNCHANGED <<mLock, hardware, device>>
    PROVE  /\ \/ Moves("record", "doRouting", then, "input")
              \/ Moves("record", then, "idle", "output")
           /\ KeepsRoute /\ hist' \in HistType /\ hist'.overlap = hist.overlap
<1> USE ThreadsAre DEF Places, InRouting, Continuations
<1>1. Calls("record", InputCall, then) => Moves("record", "doRouting", then, "input")
  BY CallsMoves, CallsAreTyped
<1>2. At("record", then) => Moves("record", then, "idle", "output")
  BY AtMoves
<1> QED  BY <1>1, <1>2, ClearKeepsRoute DEF RestoreRoute

LEMMA OpenInputKeeps == ASSUME RoutingInv, NEW d \in InDevices, openInput(d) PROVE RoutingInv'
<1> USE ThreadsAre DEF openInput, Enter, Is, Places, InRouting, Continuations
<1>1. /\ RoutingTypes /\ pc["record"].at = "idle" /\ pc["record"].then = "idle"
      /\ in = NoInput /\ audpre = {} /\ audpre' = {} /\ FmA2dpStatus' = FALSE
      /\ pc["record"].call.by \in {"output", "input", "lpa"}
  BY DEF RoutingInv, CaptureLeavesNothingOn, CaptureInv, NoInput, RoutingTypes, PCType, CallType
<1>2. CASE in' = [state |-> "OPENED", devices |-> d] /\ UNCHANGED <<pc, mCurSndDevice, hist>>
  <2>1. Moves("record", "idle", "idle", pc["record"].call.by)
    BY <1>1, <1>2, StaysMoves
  <2>2. in' \in InType /\ hist' \in HistType
    BY <1>1, <1>2 DEF InType, RoutingTypes
  <2>3. RecordStep
    BY <1>1, <1>2, <2>1, <2>2 DEF RecordStep, KeepsRoute, hardware, device
  <2>4. CaptureInv' /\ CaptureLeavesNothingOn'
    BY <1>1, <1>2, <2>1, <2>3, OthersCalls
       DEF CaptureInv, RecordAt, CaptureLeavesNothingOn, Moves
  <2> QED  BY <2>3, <2>4, RecordStepKeeps
<1>3. CASE in' = [state |-> "CLOSED", devices |-> "0"] /\ RestoreRoute("a2dpClose", 1)
  <2>1. /\ \/ Moves("record", "doRouting", "a2dpClose", "input")
           \/ Moves("record", "a2dpClose", "idle", "output")
        /\ KeepsRoute /\ hist' \in HistType /\ hist'.overlap = hist.overlap
    BY <1>1, <1>3, RestoreMoves
  <2>2. in' \in InType
    BY <1>3 DEF InType
  <2>3. RecordStep
    BY <1>1, <2>1, <2>2 DEF RecordStep, hardware
  <2>4. CaptureInv' /\ CaptureLeavesNothingOn'
    BY <1>1, <1>3, <2>1, <2>3, OthersCalls
       DEF CaptureInv, RecordAt, CaptureLeavesNothingOn, Moves
  <2> QED  BY <2>3, <2>4, RecordStepKeeps
<1> QED  BY <1>2, <1>3

\* A step of an idle capture's thread on a stream there is, which does not
\* close it.
LEMMA StreamKeepsCapture ==
    ASSUME RoutingInv, RecordStep, in.state # "NONE", in'.state # "NONE",
           UNCHANGED <<FmA2dpStatus, audpre>>,
           audpre # {} => in'.state = "STARTED",
           pc'["record"].at \notin {"a2dp", "a2dpClose", "start"},
           \/ pc'["record"].at = "doRouting" /\ pc'["record"].then = "idle"
           \/ pc'["record"].then = "idle"
           \/ /\ pc'["record"].at = "doRouting" /\ pc'["record"].then = "start"
              /\ in'.state = "STARTED"
    PROVE  CaptureInv' /\ CaptureLeavesNothingOn'
BY OthersCalls DEF RoutingInv, CaptureInv, RecordAt, CaptureLeavesNothingOn, NoInput, RecordStep,
   InRouting

LEMMA RouteInputKeeps ==
    ASSUME RoutingInv, NEW d \in InDevices, routeInput(d) PROVE RoutingInv'
<1> USE ThreadsAre DEF routeInput, Enter, Is, Places, InRouting, Continuations
<1>1. RoutingTypes /\ pc["record"].at = "idle" /\ in \in InType /\ in.state # "NONE"
  BY DEF RoutingInv, CaptureInv, RoutingTypes
<1>2. Moves("record", "doRouting", "idle", "input") /\ hist' \in HistType
  BY <1>1, CallsMoves, CallsAreTyped DEF RoutingTypes
<1>3. in' \in InType /\ in'.state = in.state
  BY <1>1 DEF InType
<1>4. RecordStep
  BY <1>1, <1>2, <1>3 DEF RecordStep, KeepsRoute, hardware, device, route, RoutingTypes
<1>5. CaptureInv' /\ CaptureLeavesNothingOn'
  BY <1>1, <1>2, <1>3, <1>4, StreamKeepsCapture
     DEF Moves, route, RoutingInv, CaptureLeavesNothingOn
<1> QED  BY <1>4, <1>5, RecordStepKeeps

LEMMA ReopenInputKeeps == ASSUME RoutingInv, reopenInput PROVE RoutingInv'
<1> USE ThreadsAre DEF reopenInput, Enter, Is, Places, InRouting, Continuations
<1>1. /\ RoutingTypes /\ pc["record"].at = "idle" /\ pc["record"].then = "idle"
      /\ in \in InType /\ audpre = {} /\ pc["record"].call.by \in {"output", "input", "lpa"}
  BY DEF RoutingInv, CaptureInv, CaptureLeavesNothingOn, RoutingTypes, PCType, CallType
<1>2. Moves("record", "idle", "idle", pc["record"].call.by) /\ hist' \in HistType
  BY <1>1, StaysMoves DEF RoutingTypes
<1>3. in' \in InType /\ in'.state = "OPENED"
  BY <1>1 DEF InType
<1>4. RecordStep
  BY <1>1, <1>2, <1>3 DEF RecordStep, KeepsRoute, hardware, device, route, RoutingTypes
<1>5. CaptureInv' /\ CaptureLeavesNothingOn'
  BY <1>1, <1>2, <1>3, <1>4, StreamKeepsCapture DEF Moves, route
<1> QED  BY <1>4, <1>5, RecordStepKeeps

LEMMA StartInputKeeps == ASSUME RoutingInv, startInput PROVE RoutingInv'
<1> USE ThreadsAre DEF startInput, Enter, Is, Places, InRouting, Continuations
<1>1. /\ RoutingTypes /\ pc["record"].at = "idle" /\ in \in InType /\ audpre = {}
      /\ FmA2dpStatus \in BOOLEAN
  BY DEF RoutingInv, CaptureInv, CaptureLeavesNothingOn, RoutingTypes
<1>2. in' \in InType /\ in'.state = "STARTED" /\ in' # NoInput
  BY <1>1 DEF InType, NoInput
<1>3. CASE clearCurDevice(0) /\ Calls("record", InputCall, "start")
  <2>1. Moves("record", "doRouting", "start", "input")
    BY <1>1, <1>3, CallsMoves, CallsAreTyped
  <2>2. KeepsRoute /\ hist' \in HistType /\ hist'.overlap = hist.overlap
    BY <1>1, <1>3, ClearKeepsRoute
  <2>3. RecordStep
    BY <1>1, <1>2, <2>1, <2>2 DEF RecordStep, hardware
  <2>4. CaptureInv' /\ CaptureLeavesNothingOn'
    BY <1>1, <1>2, <2>1, <2>3, OthersCalls
       DEF CaptureInv, RecordAt, CaptureLeavesNothingOn, Moves
  <2> QED  BY <2>3, <2>4, RecordStepKeeps
<1>4. CASE At("record", "start") /\ UNCHANGED <<mCurSndDevice, hist>>
  <2>1. Moves("record", "start", "idle", "output")
    BY <1>1, <1>4, AtMoves
  <2>2. RecordStep
    BY <1>1, <1>2, <1>4, <2>1 DEF RecordStep, KeepsRoute, hardware, device, RoutingTypes
  <2>3. CaptureInv' /\ CaptureLeavesNothingOn'
    BY <1>1, <1>2, <2>1, <2>2, OthersCalls
       DEF CaptureInv, RecordAt, CaptureLeavesNothingOn, Moves
  <2> QED  BY <2>2, <2>3, RecordStepKeeps
<1> QED  BY <1>3, <1>4

LEMMA CaptureStartsKeeps == ASSUME RoutingInv, captureStarts PROVE RoutingInv'
<1> USE ThreadsAre DEF captureStarts, Within, Is, Places, InRouting, Continuations
<1>1. /\ RoutingTypes /\ pc["record"].at = "start" /\ in.state = "STARTED"
      /\ FmA2dpStatus \in BOOLEAN /\ in \in InType /\ in # NoInput
  BY DEF RoutingInv, CaptureInv, RecordAt, RoutingTypes, NoInput
<1>2. Moves("record", "idle", "idle", "output")
  BY <1>1, AtMoves
<1>3. RecordStep
  BY <1>1, <1>2 DEF RecordStep, KeepsRoute, hardware, device, route, RoutingTypes
<1>4. audpre' # {} => cal.inited
  BY DEF msm72xx_enable_preproc, RoutingInv, CaptureInv
<1>5. CaptureInv' /\ CaptureLeavesNothingOn'
  BY <1>1, <1>2, <1>3, <1>4, OthersCalls
     DEF CaptureInv, RecordAt, CaptureLeavesNothingOn, Moves, RecordStep
<1> QED  BY <1>3, <1>5, RecordStepKeeps

\* standby(), however it was reached.
LEMMA InStandbyKeeps ==
    ASSUME RoutingInv, NEW then \in {"a2dp", "a2dpClose"}, NEW failed \in {0, 1},
           pc["record"].at \notin InRouting, in # NoInput, InStandby(then, failed)
    PROVE  RoutingInv'
<1> USE ThreadsAre DEF InStandby, Places, InRouting, Continuations
<1>1. RoutingTypes /\ in \in InType /\ FmA2dpStatus \in BOOLEAN
  BY DEF RoutingInv, RoutingTypes
<1>2. /\ \/ Moves("record", "doRouting", then, "input")
         \/ Moves("record", then, "idle", "output")
      /\ KeepsRoute /\ hist' \in HistType /\ hist'.overlap = hist.overlap
  BY <1>1, RestoreMoves
<1>3. in' \in InType /\ in'.state = "CLOSED" /\ in' # NoInput
  BY <1>1 DEF CloseCapture, InType, NoInput
<1>4. audpre' = {}
  BY DEF CloseCapture, msm72xx_enable_preproc, RoutingInv, CaptureInv, CaptureLeavesNothingOn
<1>5. RecordStep
  BY <1>1, <1>2, <1>3 DEF RecordStep, hardware
<1>6. CaptureInv' /\ CaptureLeavesNothingOn'
  BY <1>2, <1>3, <1>4, <1>5, OthersCalls
     DEF CaptureInv, RecordAt, CaptureLeavesNothingOn, Moves
<1> QED  BY <1>5, <1>6, RecordStepKeeps

LEMMA CaptureEndsKeeps ==
    ASSUME RoutingInv, captureFails \/ standbyInput \/ closeInput PROVE RoutingInv'
<1>1. pc["record"].at \in {"idle", "start"} /\ in # NoInput
  BY DEF captureFails, standbyInput, closeInput, Enter, Within, Is, RoutingInv, CaptureInv,
         RecordAt, NoInput
<1>2. \/ InStandby("a2dp", 1) \/ InStandby("a2dp", 0) \/ InStandby("a2dpClose", 0)
  BY DEF captureFails, standbyInput, closeInput
<1> QED  BY <1>1, <1>2, InStandbyKeeps DEF InRouting

LEMMA SwitchOffKeeps == ASSUME RoutingInv, SwitchOffFmA2dp PROVE RoutingInv'
<1> USE ThreadsAre DEF SwitchOffFmA2dp, Within, Is, Places, InRouting, Continuations
<1>1. /\ RoutingTypes /\ in \in InType /\ in.state = "CLOSED" /\ audpre = {}
      /\ pc["record"].at \in {"a2dp", "a2dpClose"} /\ in # NoInput
  BY DEF RoutingInv, RoutingTypes, CaptureInv, RecordAt, CaptureLeavesNothingOn, NoInput
<1>2. Moves("record", "idle", "idle", "output")
  BY <1>1, AtMoves
<1>3. in' \in {in, NoInput} /\ in' \in InType
  BY <1>1 DEF NoInput, InType
<1>4. RecordStep
  BY <1>1, <1>2, <1>3 DEF RecordStep, KeepsRoute, hardware, device, RoutingTypes
<1>5. CaptureInv' /\ CaptureLeavesNothingOn'
  BY <1>1, <1>2, <1>3, <1>4, OthersCalls
     DEF CaptureInv, RecordAt, CaptureLeavesNothingOn, Moves
<1> QED  BY <1>4, <1>5, RecordStepKeeps

-----------------------------------------------------------------------------
(* The steps of doRouting().                                               *)

\* The capture's part of a step of doRouting(): the thread's call goes on, or
\* it returns to where its caller goes on.
RoutingMoves(t) ==
    /\ pc' \in [Threads -> PCType] /\ \A u \in Threads \ {t} : pc'[u] = pc[u]
    /\ \/ pc'[t].at \in InRouting /\ pc'[t].then = pc[t].then /\ pc'[t].call = pc[t].call
       \/ pc'[t].at = pc[t].then /\ pc'[t].then = "idle" /\ pc'[t].call.by = "output"

LEMMA RoutingKeepsCapture ==
    ASSUME RoutingInv, NEW t \in Threads, RoutingMoves(t),
           UNCHANGED <<in, audpre, cal>>, FmA2dpStatus' = FmA2dpStatus \/ in # NoInput
    PROVE  CaptureInv' /\ CaptureLeavesNothingOn'
<1>1. pc'[t].at \in InRouting \/ pc'[t].then = "idle"
  BY DEF RoutingMoves
<1>2. CaptureLeavesNothingOn'
  BY DEF RoutingInv, CaptureLeavesNothingOn
<1>3. pc["record"].then \in Continuations
  BY ThreadsAre DEF RoutingInv, RoutingTypes, PCType
<1>4. pc'["record"].at \notin InRouting \cup {"doRouting"} => pc'["record"].then = "idle"
  BY <1>1, ThreadsAre DEF RoutingMoves, RoutingInv, CaptureInv
<1>5. \A u \in Threads \ {"record"} : pc'[u].call.by # "input"
  BY DEF RoutingMoves, RoutingInv, CaptureInv
<1>6. \A places \in SUBSET {"start", "a2dp", "a2dpClose"} : RecordAt(places)' => RecordAt(places)
  BY <1>3, ThreadsAre DEF RoutingMoves, RecordAt, InRouting, Continuations
<1> QED  BY <1>2, <1>4, <1>5, <1>6 DEF CaptureInv, RoutingInv

\* The thread that returns without a routing call.
LEMMA ChooseNothingKeeps ==
    ASSUME RoutingInv, NEW t \in Threads, pc[t].at = "doRouting", Returns(t),
           FmA2dpStatus' \in BOOLEAN, FmA2dpStatus' = FmA2dpStatus \/ in # NoInput,
           pp' \in PPType, pp'.snd_device = pp.snd_device, pp'.audpp = pp.audpp,
           UNCHANGED <<mLock, hardware, mCurSndDevice, fmOn, streams, cal, device, hist>>
    PROVE  RoutingInv'
<1> USE ThreadsAre DEF hardware, streams, device, Places, InRouting, Continuations
<1>1. RoutingTypes
  BY DEF RoutingInv
<1>2. Moves(t, pc[t].then, "idle", "output") /\ pc[t].then \in Continuations
  BY <1>1, ReturnsMoves
<1>3. RoutingTypes'
  BY <1>1, <1>2 DEF RoutingTypes, Moves
<1>4. RoutingMoves(t)
  BY <1>2 DEF Moves, RoutingMoves
<1>5. CaptureInv' /\ CaptureLeavesNothingOn'
  BY <1>4, RoutingKeepsCapture
<1>6. pc[t].then # "clear"
  BY <1>2
<1>7. Outside(t) /\ KeepsRoute /\ KeepsMode
  BY <1>2, <1>6 DEF Moves, Outside, KeepsRoute, KeepsMode, Is
<1>8. StaticsInv'
  BY <1>2 DEF RoutingInv, StaticsInv, Moves
<1> QED  BY <1>3, <1>5, <1>7, <1>8, OutsideKeepsRoute DEF RoutingInv

\* The routing call: from here to CacheDevice the driver and the pins are ahead
\* of the cache.
LEMMA ChooseRouteKeeps ==
    ASSUME RoutingInv, NEW t \in Threads, pc[t].at = "doRouting", mLock = NoThread,
           NEW dev \in AllDevices \ {"none", "CURRENT"}, dev # mCurSndDevice,
           mLock' = t, pc' = [pc EXCEPT ![t].at = "apply", ![t].dev = dev],
           doAudioRouteOrMute(dev, mMicMute),
           FmA2dpStatus' \in BOOLEAN, FmA2dpStatus' = FmA2dpStatus \/ in # NoInput,
           pp' \in PPType, pp'.snd_device = pp.snd_device, pp'.audpp = pp.audpp,
           UNCHANGED <<mMode, mTtyMode, mDualMicEnabled, mCurSndDevice, fmOn, streams, cal>>
    PROVE  RoutingInv'
<1> USE ThreadsAre DEF streams, Places, InRouting, Continuations
<1>1. RoutingTypes /\ pc \in [Threads -> PCType] /\ mMicMute \in BOOLEAN
  BY DEF RoutingInv, RoutingTypes
<1>2. /\ pc' \in [Threads -> PCType] /\ \A u \in Threads \ {t} : pc'[u] = pc[u]
      /\ pc'[t].at = "apply" /\ pc'[t].dev = dev
      /\ pc'[t].then = pc[t].then /\ pc'[t].call = pc[t].call
  BY <1>1 DEF PCType
<1>3. /\ mMicMute' \in BOOLEAN /\ snd' \in SndType /\ hist' \in HistType
      /\ ~hist'.lost => /\ snd'.mic = mMicMute' /\ hist'.mode = mMode
                        /\ snd'.device = dev
  BY <1>1, RoutingCall
<1>4. /\ pins' \in Pin!Pins /\ PinsNeverShared'
      /\ ~hist'.pinsLost => pins' = DevicePins(dev)
  BY <1>1, RoutingPins DEF RoutingInv
<1>5. RoutingTypes'
  BY <1>1, <1>2, <1>3, <1>4 DEF RoutingTypes
<1>6. LockInv'
  BY <1>2 DEF RoutingInv, LockInv
<1>7. RouteInv' /\ MicMuteReachesDriver'
  BY <1>2, <1>3 DEF RouteInv, UnderThisMode, MicMuteReachesDriver
<1>8. PinsInv'
  BY <1>2, <1>4 DEF PinsInv, DevicePins
<1>9. StaticsInv'
  BY <1>2 DEF RoutingInv, StaticsInv
<1>10. RoutingMoves(t)
  BY <1>2 DEF RoutingMoves
<1>11. CaptureInv' /\ CaptureLeavesNothingOn'
  BY <1>10, RoutingKeepsCapture
<1> QED  BY <1>4, <1>5, <1>6, <1>7, <1>8, <1>9, <1>11 DEF RoutingInv

LEMMA ChooseDeviceKeeps ==
    ASSUME RoutingInv, NEW t \in Threads, ChooseDevice(t) PROVE RoutingInv'
<1> DEFINE call == pc[t].call
           sel == Selected(call)
           a2dp == FmA2dpStatus \/ InDevice(call) = "IN_FM_RX_A2DP"
           dev == IF OutDevices(call) = {} /\ a2dp
                  THEN SND_DEVICE("FM_DIGITAL_BT_A2DP_HEADSET") ELSE sel.device
           new == [pp EXCEPT !.newMask = IF sel.filters THEN Features ELSE @]
<1>1. RoutingTypes /\ pp \in PPType
  BY DEF RoutingInv, RoutingTypes
<1>2. pc[t].at = "doRouting" /\ mLock = NoThread
  BY DEF ChooseDevice, Within, Is
<1>3. CASE InDevice(call) = "IN_VOICE_CALL"
  <2>1. /\ Returns(t) /\ FmA2dpStatus' = FmA2dpStatus /\ pp' = pp
        /\ UNCHANGED <<mLock, hardware, mCurSndDevice, fmOn, streams, cal, device, hist>>
    BY <1>3 DEF ChooseDevice, hardware
  <2> QED  BY <1>1, <1>2, <2>1, ChooseNothingKeeps DEF RoutingTypes
<1>4. CASE InDevice(call) # "IN_VOICE_CALL"
  <2>1. /\ FmA2dpStatus' = a2dp /\ pp' = new
        /\ \/ /\ Returns(t)
              /\ UNCHANGED <<mLock, mMicMute, device, hist>>
           \/ /\ dev \notin {"none", mCurSndDevice} /\ mLock' = t
              /\ pc' = [pc EXCEPT ![t].at = "apply", ![t].dev = dev]
              /\ doAudioRouteOrMute(dev, mMicMute)
        /\ UNCHANGED <<mMode, mTtyMode, mDualMicEnabled, mCurSndDevice, fmOn, streams, cal>>
    BY <1>4 DEF ChooseDevice
  <2>2. a2dp \in BOOLEAN /\ (a2dp = FmA2dpStatus \/ in # NoInput)
    <3>1. InDevice(call) = "IN_FM_RX_A2DP" => in # NoInput
      BY DEF InDevice, NoInput
    <3> QED  BY <1>1, <3>1 DEF RoutingTypes
  <2>3. new \in PPType /\ new.snd_device = pp.snd_device /\ new.audpp = pp.audpp
    BY <1>1 DEF PPType
  <2>4. dev \in AllDevices \ {"CURRENT"}
    BY <1>1, <1>4, SelectedIsDevice, DeviceNames
  <2> HIDE DEF a2dp, dev, new
  <2>5. CASE Returns(t) /\ UNCHANGED <<mLock, mMicMute, device, hist>>
    BY <1>2, <2>1, <2>2, <2>3, <2>5, ChooseNothingKeeps DEF hardware
  <2>6. CASE /\ dev \notin {"none", mCurSndDevice} /\ mLock' = t
             /\ pc' = [pc EXCEPT ![t].at = "apply", ![t].dev = dev]
             /\ doAudioRouteOrMute(dev, mMicMute)
    BY <1>2, <2>1, <2>2, <2>3, <2>4, <2>6, ChooseRouteKeeps
  <2> QED  BY <2>1, <2>5, <2>6
<1> QED  BY <1>3, <1>4

\* ApplyDevice: the DSP runs nothing when the statics change.
LEMMA ApplyDeviceKeeps ==
    ASSUME RoutingInv, NEW t \in Threads, ApplyDevice(t) PROVE RoutingInv'
<1> USE ThreadsAre DEF Within, Is, hardware, route, streams, device, Places, InRouting
<1> DEFINE off == IF hpcm \/ lpa THEN msm72xx_enable_postproc(pp, cal, FALSE) ELSE pp
<1>1. /\ RoutingTypes /\ pc \in [Threads -> PCType] /\ pp \in PPType
      /\ pc[t].at = "apply" /\ mLock = t /\ pc[t] \in PCType /\ pc[t].dev # "none"
  BY DEF RoutingInv, RoutingTypes, LockInv, ApplyDevice
<1>2. /\ pc' \in [Threads -> PCType] /\ \A u \in Threads \ {t} : pc'[u] = pc[u]
      /\ pc'[t].at = "enable" /\ pc'[t].dev = pc[t].dev
      /\ pc'[t].then = pc[t].then /\ pc'[t].call = pc[t].call
  <2>1. pc' = [pc EXCEPT ![t].at = "enable"]
    BY DEF ApplyDevice
  <2> QED  BY <1>1, <2>1 DEF PCType
<1>3. /\ off \in PPType
      /\ hpcm => off.audpp = {}
      /\ off.audpp # {} => cal.inited
  <2>1. off \in PPType
    BY <1>1, PostprocTypes
  <2>2. CASE hpcm \/ lpa
    <3>1. off = msm72xx_enable_postproc(pp, cal, FALSE)
      BY <2>2
    <3> HIDE DEF off
    <3>2. off.audpp # {} => ~(cal.inited /\ pp.snd_device # "none") /\ off.audpp = pp.audpp
      BY <1>1, <3>1, PostprocEnables
    <3> QED  BY <2>1, <3>2 DEF RoutingInv, StaticsInv
  <2>3. CASE ~(hpcm \/ lpa)
    <3>1. off = pp
      BY <2>3
    <3> HIDE DEF off
    <3> QED  BY <2>1, <2>3, <3>1 DEF RoutingInv, StaticsInv
  <2> QED  BY <2>1, <2>2, <2>3
<1>4. pp' = [off EXCEPT !.snd_device = pc[t].dev, !.mask = pp.newMask]
  BY DEF ApplyDevice
<1>5. /\ mLock' = mLock /\ hpcm' = hpcm
      /\ UNCHANGED <<hardware, route, streams, cal, device, hist>>
  BY DEF ApplyDevice
<1> HIDE DEF off
<1>6. pp' \in PPType /\ pp'.snd_device = pc[t].dev /\ pp'.audpp = off.audpp
  BY <1>1, <1>3, <1>4 DEF PPType, PCType
<1>7. RoutingTypes'
  BY <1>1, <1>2, <1>5, <1>6 DEF RoutingTypes
<1>8. LockInv'
  BY <1>1, <1>2, <1>5 DEF RoutingInv, LockInv
<1>9. RouteInv' /\ MicMuteReachesDriver'
  BY <1>1, <1>2, <1>5 DEF RoutingInv, RouteInv, UnderThisMode, MicMuteReachesDriver
<1>10. PinsNeverShared' /\ PinsInv'
  BY <1>1, <1>2, <1>5 DEF RoutingInv, PinsNeverShared, PinsInv, DevicePins
<1>11. StaticsInv'
  BY <1>1, <1>2, <1>3, <1>5, <1>6 DEF RoutingInv, StaticsInv, LockInv
<1>12. RoutingMoves(t)
  BY <1>2 DEF RoutingMoves
<1>13. CaptureInv' /\ CaptureLeavesNothingOn'
  BY <1>5, <1>12, RoutingKeepsCapture
<1> QED  BY <1>7, <1>8, <1>9, <1>10, <1>11, <1>13 DEF RoutingInv

\* CacheDevice: the cache catches up with the driver and the pins.
LEMMA CacheDeviceKeeps ==
    ASSUME RoutingInv, NEW t \in Threads, CacheDevice(t) PROVE RoutingInv'
<1> USE ThreadsAre DEF Within, Is, hardware, streams, device, Places, InRouting, Continuations
<1>1. /\ RoutingTypes /\ pp \in PPType
      /\ pc[t].at = "enable" /\ mLock = t /\ pc[t].dev \in AllDevices \ {"none", "CURRENT"}
  BY DEF RoutingInv, RoutingTypes, PCType, LockInv, CacheDevice
<1>2. /\ Moves(t, pc[t].then, "idle", "output") /\ pc[t].then \in Continuations
  BY <1>1, ReturnsMoves DEF CacheDevice
<1>3. pp' = pp \/ pp' = msm72xx_enable_postproc(pp, cal, TRUE)
  BY DEF CacheDevice
<1>4. pp' \in PPType /\ pp'.snd_device = pp.snd_device
  BY <1>1, <1>3, PostprocTypes
<1>5. /\ mLock' = NoThread /\ mCurSndDevice' = pc[t].dev
      /\ UNCHANGED <<hardware, FmA2dpStatus, fmOn, streams, cal, device, hist>>
  BY DEF CacheDevice
<1>6. RoutingTypes'
  BY <1>1, <1>2, <1>4, <1>5 DEF RoutingTypes, Moves
<1>7. LockInv' /\ \A u \in Threads : mLock' # u
  BY <1>1, <1>2, <1>5 DEF RoutingInv, LockInv, Moves
<1>8. Is("binder", "clear")' <=> Is("binder", "clear")
  BY <1>1, <1>2 DEF Moves
<1>9. RouteInv' /\ MicMuteReachesDriver'
  BY <1>1, <1>5, <1>7, <1>8 DEF RoutingInv, RouteInv, UnderThisMode, MicMuteReachesDriver
<1>10. PinsNeverShared' /\ PinsInv'
  BY <1>1, <1>5, <1>7 DEF RoutingInv, PinsNeverShared, PinsInv, DevicePins
<1>11. StaticsInv'
  <2>1. /\ hpcm => pp'.audpp \subseteq Allowed(cal, pp.snd_device)
        /\ pp'.audpp # {} => cal.inited /\ pp.snd_device # "none"
    BY <1>1, <1>3, PostprocEnables DEF RoutingInv, StaticsInv
  <2>2. ~hist.lost => pp.snd_device = snd.device
    BY <1>1 DEF RoutingInv, StaticsInv, RouteInv
  <2>3. \A u \in Threads : pc'[u].at # "enable"
    BY <1>7 DEF LockInv
  <2> QED  BY <1>4, <1>5, <2>1, <2>2, <2>3 DEF StaticsInv
<1>12. RoutingMoves(t)
  BY <1>2 DEF Moves, RoutingMoves
<1>13. CaptureInv' /\ CaptureLeavesNothingOn'
  BY <1>5, <1>12, RoutingKeepsCapture
<1> QED  BY <1>6, <1>7, <1>9, <1>10, <1>11, <1>13 DEF RoutingInv

-----------------------------------------------------------------------------
(* The invariant.                                                          *)

LEMMA RoutingInit == Init => RoutingInv
<1> SUFFICES ASSUME Init PROVE RoutingInv
  OBVIOUS
<1> USE ThreadsAre DEF Init
<1>1. \A t \in Threads : pc[t] = Idle
  OBVIOUS
<1>2. Idle \in PCType /\ Idle.at = "idle" /\ Idle.then = "idle" /\ Idle.call.by = "output"
  BY CallsAreTyped, DeviceNames DEF Idle, PCType, Places, InRouting, Continuations
<1>3. RoutingTypes
  <2>1. pc \in [Threads -> PCType] /\ mLock \in Threads \cup {NoThread}
    BY <1>2
  <2>2. mCurSndDevice \in AllDevices \ {"CURRENT"} /\ snd \in SndType /\ pp \in PPType
    BY DeviceNames DEF SndType, PPType
  <2>3. out \in OutType /\ in \in InType /\ hist \in HistType
    BY DEF OutType, InType, HistType, NoInput, AUDIO_HW_NUM_OUT_BUF
  <2>4. pins \in Pin!Pins
    BY PinsAre
  <2> QED  BY <2>1, <2>2, <2>3, <2>4 DEF RoutingTypes
<1>4. LockInv /\ RouteInv /\ MicMuteReachesDriver
  BY <1>1, <1>2 DEF LockInv, RouteInv, MicMuteReachesDriver, InRouting
<1>5. PinsNeverShared /\ PinsInv
  BY RegsDiffer DEF PinsNeverShared, PinsInv, DevicePins
<1>6. StaticsInv
  BY <1>1, <1>2 DEF StaticsInv
<1>7. CaptureInv /\ CaptureLeavesNothingOn
  BY <1>1, <1>2 DEF CaptureInv, RecordAt, CaptureLeavesNothingOn, NoInput
<1> QED  BY <1>3, <1>4, <1>5, <1>6, <1>7 DEF RoutingInv

LEMMA RoutingStep == RoutingInv /\ [Next]_vars => RoutingInv'
<1> SUFFICES ASSUME RoutingInv, [Next]_vars PROVE RoutingInv'
  OBVIOUS
<1>1. CASE Binder
  BY <1>1, SetModeKeeps, ClearForModeKeeps, SetMicMuteKeeps, ParametersKeep DEF Binder
<1>2. CASE Playback
  BY <1>2, WriteKeeps, StandbyKeeps, OutputKeeps DEF Playback
<1>3. CASE Record
  BY <1>3, OpenInputKeeps, RouteInputKeeps, ReopenInputKeeps, StartInputKeeps,
     CaptureStartsKeeps, CaptureEndsKeeps, SwitchOffKeeps DEF Record
<1>4. ASSUME NEW t \in Threads, doRouting(t) PROVE RoutingInv'
  BY <1>4, ChooseDeviceKeeps, ApplyDeviceKeeps, CacheDeviceKeeps DEF doRouting
<1>5. CASE UNCHANGED vars
  <2>1. UNCHANGED <<mLock, pc, mMode, mMicMute, mTtyMode, mDualMicEnabled, mCurSndDevice,
                    FmA2dpStatus, fmOn, out, hpcm, lpa, pp, cal, in, audpre, snd, pins, hist>>
    BY <1>5 DEF vars, hardware, route, streams, device
  <2> QED  BY <2>1 DEF RoutingInv, RoutingTypes, LockInv, RouteInv, UnderThisMode, Is,
              MicMuteReachesDriver, PinsNeverShared, PinsInv, DevicePins, StaticsInv,
              CaptureInv, RecordAt, CaptureLeavesNothingOn
<1> QED  BY <1>1, <1>2, <1>3, <1>4, <1>5 DEF Next

LEMMA RoutingHolds == Spec => []RoutingInv
BY RoutingInit, RoutingStep, PTL DEF Spec

-----------------------------------------------------------------------------
(* The theorems.                                                           *)

\* The variables are well typed and mLock is held by a thread in the middle of
\* doRouting() (AudioHardware.cpp, doRouting).
THEOREM RoutingTypeCorrect == Spec => []RoutingTypeOK
<1>1. RoutingInv => RoutingTypeOK
  <2> SUFFICES ASSUME RoutingInv PROVE RoutingTypeOK
    OBVIOUS
  <2>1. mLock = NoThread \/ pc[mLock].at \in {"apply", "enable"}
    BY DEF RoutingInv, RoutingTypes, LockInv, InRouting
  <2>2. /\ mCurSndDevice \in AllDevices /\ snd.device \in AllDevices
        /\ pp.audpp \subseteq Features /\ pp.newMask \in {{}, Features}
        /\ pins \in Pin!Pins /\ out.toFill \in 0 .. AUDIO_HW_NUM_OUT_BUF
    BY DEF RoutingInv, RoutingTypes, SndType, PPType, OutType
  <2> QED  BY <2>1, <2>2 DEF RoutingTypeOK
<1> QED  BY <1>1, RoutingHolds, PTL

\* Between routings the cached device is the driver's, selected under the
\* present mode, for any interleaving of the mode's change with the routings
\* (setMode, doRouting, setMicMute).
THEOREM CachedRouteStaysCurrent == Spec => []CachedRouteIsCurrent
<1>1. RoutingInv => CachedRouteIsCurrent
  BY DEF RoutingInv, RouteInv, UnderThisMode, CachedRouteIsCurrent
<1> QED  BY <1>1, RoutingHolds, PTL

\* The driver has the stored microphone mute after every call that it accepted
\* (setMicMute, doAudioRouteOrMute).
THEOREM MicMuteIsInDriver == Spec => []MicMuteReachesDriver
BY RoutingHolds, PTL DEF RoutingInv

\* The Bluetooth and the FM pins are never driven together, for any registers
\* and wherever a switch fails (switch_pins).
THEOREM PinsAreNeverShared == Spec => []PinsNeverShared
BY RoutingHolds, PTL DEF RoutingInv

\* The pins are those of the cached device whenever the code has kept track of
\* them (doAudioRouteOrMute).
THEOREM PinsAreOfTheRoute == Spec => []PinsFollowRoute
<1>1. RoutingInv => PinsFollowRoute
  BY DEF RoutingInv, PinsInv, DevicePins, PinsFollowRoute
<1> QED  BY <1>1, RoutingHolds, PTL

\* While the primary output plays, the DSP runs only features that the tables
\* of the routed device allow (doRouting, write, msm72xx_enable_postproc).
THEOREM PostprocIsOfTheRoute == Spec => []PostprocMatchesRoute
<1>1. RoutingInv => PostprocMatchesRoute
  BY DEF RoutingInv, StaticsInv, PostprocMatchesRoute
<1> QED  BY <1>1, RoutingHolds, PTL

\* FM over A2DP and pre-processing end with the capture they were for, whichever
\* of its calls fail (AudioStreamInMSM72xx::standby).
THEOREM CapturesLeaveNothingOn == Spec => []CaptureLeavesNothingOn
BY RoutingHolds, PTL DEF RoutingInv
=============================================================================
