----------------------------- MODULE AudioPolicy -----------------------------
(***************************************************************************)
(* The audio policy (src/audio/AudioPolicyManager.cpp): which devices each *)
(* output is routed to, as devices connect, streams start and stop, the    *)
(* phone state and the forced uses change, and FM radio runs.  The policy  *)
(* service calls it with its lock held, so an operation is one step; the   *)
(* difficulty is in the sequences of operations.                           *)
(*                                                                         *)
(* The object is the record apm; an operator named after a method takes    *)
(* the object before the call to the object after it.  A set of device     *)
(* bits is a set of names.  AudioPolicyManagerBase is outside this         *)
(* repository: its methods are modelled by what the code here needs of     *)
(* them.  Left out: the "respectful" strategy (it depends on time), the    *)
(* delays, and the volumes themselves (muting is counted).                 *)
(*                                                                         *)
(* The definitions named ...Variant are the definition of that name with   *)
(* one plausible mistake; no specification uses them.                      *)
(***************************************************************************)
EXTENDS Integers, Sequences, FiniteSets

CONSTANTS
    Connectable,    \* output devices that come and go
    Streams,        \* streams clients play
    PhoneStates, MediaConfigs, CommConfigs, RecordConfigs,
    Sources,        \* audio sources clients record from
    DirectRequests, \* flags and parameters of direct outputs clients ask for
    MaxRefs,        \* bound: tracks started per output and stream
    MaxCalls        \* bound: operations in all

\* The names of the devices, streams and sources are those of the source.
ASSUME PolicyAssumption ==
    /\ MaxRefs \in Nat \ {0} /\ MaxCalls \in Nat
    /\ Streams \subseteq {"VOICE_CALL", "RING", "MUSIC", "SYSTEM"}
    /\ {"MUSIC", "RING"} \subseteq Streams
    /\ Sources \subseteq {"DEFAULT", "MIC", "VOICE_UPLINK", "VOICE_DOWNLINK", "VOICE_CALL",
                          "CAMCORDER", "VOICE_RECOGNITION", "VOICE_COMMUNICATION",
                          "REMOTE_SUBMIX", "HOTWORD", "FM_RX", "FM_RX_A2DP"}

VARIABLES
    apm,            \* the AudioPolicyManager
    requested,      \* the last FOR_MEDIA configuration asked for and accepted
    started,        \* [output -> [stream -> tracks clients have started]]
    calls

vars == <<apm, requested, started, calls>>

-----------------------------------------------------------------------------
(* Outputs: a descriptor is [profile, device, refs, muted, muteCount,      *)
(* params, openCount]; muted is mStrategyMutedByDevice.                    *)

\* The output profiles of audio_policy.conf, and the duplicating thread.
Profiles == [
    primary |-> {"SPEAKER", "EARPIECE", "WIRED_HEADSET", "WIRED_HEADPHONE",
                 "SCO", "SCO_HEADSET", "SCO_CARKIT", "AUX_DIGITAL", "FM"},
    voip    |-> {"SPEAKER", "EARPIECE", "WIRED_HEADSET", "WIRED_HEADPHONE"},
    lpa     |-> {"SPEAKER", "EARPIECE", "WIRED_HEADSET", "WIRED_HEADPHONE",
                 "SCO", "SCO_HEADSET", "SCO_CARKIT", "AUX_DIGITAL"},
    a2dp    |-> {"A2DP", "A2DP_HEADPHONES", "A2DP_SPEAKER"}]
ProfileFlags == [primary |-> {"PRIMARY"}, voip |-> {"VOIP_RX"},
                 lpa |-> {"DIRECT", "LPA"}, a2dp |-> {"PRIMARY"}]
Attached == {"SPEAKER", "EARPIECE"}
AttachedInputs == {"BUILTIN_MIC", "VOICE_CALL", "COMMUNICATION"}

OutputIds == {"primary", "voip", "lpa", "a2dp", "dup"}
Supported(o) == IF o = "dup" THEN Profiles.primary \cup Profiles.a2dp ELSE Profiles[o]

Strategies == {"MEDIA", "PHONE", "SONIFICATION", "DTMF", "ENFORCED_AUDIBLE"}
getStrategy(stream) ==
    CASE stream = "VOICE_CALL" -> "PHONE" [] stream = "RING" -> "SONIFICATION"
      [] stream \in {"MUSIC", "SYSTEM"} -> "MEDIA"

NoRefs == [stream \in Streams |-> 0]
NewOutput(device) ==
    [device |-> device, refs |-> NoRefs, muted |-> {},
     muteCount |-> [i \in Strategies |-> 0], params |-> "none", openCount |-> 0]

Opened(outs, o, desc) ==
    [x \in DOMAIN outs \cup {o} |-> IF x = o THEN desc ELSE outs[x]]

\* changeRefCount: a duplicating output counts on both its outputs as well.
changeRefCount(outs, o, stream, delta) ==
    LET counted == IF o = "dup" THEN {"dup", "primary", "a2dp"} ELSE {o}
        Sum(n) == IF n + delta < 0 THEN 0 ELSE n + delta
    IN  [x \in DOMAIN outs |->
            IF x \in counted THEN [outs[x] EXCEPT !.refs[stream] = Sum(@)] ELSE outs[x]]

\* device(): both devices of a duplicating output.
DeviceOf(outs, o) ==
    IF o = "dup" THEN outs["primary"].device \cup outs["a2dp"].device ELSE outs[o].device

IsActive(desc) == \E stream \in Streams : desc.refs[stream] > 0
StrategyActive(desc, i) ==
    \E stream \in Streams : getStrategy(stream) = i /\ desc.refs[stream] > 0

\* closeOutput: tracks of a duplicating output that goes no longer count on
\* the primary output.
closeOutput(outs, o) ==
    LET gone == IF o = "a2dp" THEN {"a2dp", "dup"} ELSE {o}
        Left(x, stream) == IF x = "primary" /\ o = "a2dp" /\ "dup" \in DOMAIN outs
                           THEN outs[x].refs[stream] - outs["dup"].refs[stream]
                           ELSE outs[x].refs[stream]
    IN  [x \in DOMAIN outs \ gone |->
            [outs[x] EXCEPT !.refs = [stream \in Streams |-> Left(x, stream)]]]

-----------------------------------------------------------------------------
(* The device of a strategy.                                               *)

IsStateInCall(phone) == phone \in {"IN_CALL", "IN_COMMUNICATION"}
isInCall(s) == IsStateInCall(s.phone)

\* The first available device of a list, as a set; {} when there is none.
FirstOf(avail, names) ==
    {names[i] : i \in {j \in DOMAIN names : /\ names[j] \in avail
                                           /\ \A k \in 1 .. j - 1 : names[k] \notin avail}}
First(s, names) == FirstOf(s.avail, names)

\* The first nonempty set of a list.
OrElse(a, b) == IF a # {} THEN a ELSE b

DefaultOutputDevice == {"SPEAKER"}
A2dpUsable(s) ==
    s.force.MEDIA # "NO_BT_A2DP" /\ "a2dp" \in DOMAIN s.outs /\ ~s.suspended

PhoneDevice(s, strategy) ==
    LET sco == First(s, IF isInCall(s) /\ strategy = "DTMF"
                        THEN <<"SCO_HEADSET", "SCO">>
                        ELSE <<"SCO_CARKIT", "SCO_HEADSET", "SCO">>)
        a2dp(names) == IF A2dpUsable(s) /\ ~isInCall(s) THEN First(s, names) ELSE {}
        none == OrElse(a2dp(<<"A2DP", "A2DP_HEADPHONES">>),
                       First(s, <<"WIRED_HEADPHONE", "WIRED_HEADSET", "USB_DEVICE",
                                  "DGTL_DOCK", "AUX_DIGITAL", "ANLG_DOCK", "EARPIECE">>))
        speaker == OrElse(a2dp(<<"A2DP_SPEAKER">>),
                          First(s, <<"USB_DEVICE", "DGTL_DOCK", "AUX_DIGITAL",
                                     "ANLG_DOCK", "SPEAKER">>))
        chosen == CASE s.force.COMMUNICATION = "SPEAKER" -> speaker
                    [] s.force.COMMUNICATION = "BT_SCO"  -> OrElse(sco, none)
                    [] OTHER -> none
    IN  IF "FM" \in s.avail /\ s.force.MEDIA = "SPEAKER" THEN {"SPEAKER"}
        ELSE OrElse(chosen, DefaultOutputDevice)

\* Analog FM uses the headset as its antenna and is heard through it: the
\* headset's bit goes.
WithFm(s, device) ==
    CASE "FM" \notin s.avail -> device
      [] "FM" \in s.avail /\ s.fm # "FM_ANALOG" -> device \cup {"FM"}
      [] OTHER -> IF device = {"SPEAKER", "WIRED_HEADSET"} THEN {"SPEAKER"}
                  ELSE (device \cup {"FM"}) \ {"WIRED_HEADSET"}

\* STRATEGY_MEDIA, reached also by fall-through with a first device.
MediaDevice(s, first) ==
    LET a2dp == IF A2dpUsable(s) /\ s.fm # "FM_ANALOG"
                THEN First(s, <<"A2DP", "A2DP_HEADPHONES", "A2DP_SPEAKER">>) ELSE {}
        second == OrElse(a2dp, First(s, <<"WIRED_HEADPHONE", "WIRED_HEADSET",
                         "USB_ACCESSORY", "USB_DEVICE", "DGTL_DOCK", "AUX_DIGITAL",
                         "ANLG_DOCK", "SPEAKER">>))
        speaker == s.avail \cap {"SPEAKER"}
    IN  WithFm(s, IF s.force.MEDIA = "SPEAKER" THEN speaker
                  ELSE OrElse(first \cup second, speaker))

\* getDeviceForStrategy(strategy, false), given the devices of the phone and of
\* what is heard.  The enforced audible stream can be muted (no camera sound
\* regulation): it follows media, and the phone in a call that media would
\* disturb.
DeviceAmong(s, strategy, phone, heard) ==
    CASE strategy = "PHONE" \/ (strategy \in {"DTMF", "SONIFICATION"} /\ isInCall(s)) -> phone
      [] strategy = "ENFORCED_AUDIBLE" ->
            IF /\ s.phone = "IN_CALL" /\ s.fm # "FM_ANALOG"
               /\ \A d \in Profiles.a2dp : heard # {d}
            THEN s.cache["PHONE"] ELSE heard
      [] OTHER -> heard

\* A ring tone is heard on the speaker too; during analog FM it and the
\* enforced audible stream do not fall through to the devices of media.
getDeviceForStrategy(s, strategy) ==
    LET ringing == strategy = "SONIFICATION" /\ ~isInCall(s)
        first == IF ringing THEN s.avail \cap {"SPEAKER"} ELSE {}
        alone == s.fm = "FM_ANALOG" /\ (ringing \/ strategy = "ENFORCED_AUDIBLE")
    IN  DeviceAmong(s, strategy, PhoneDevice(s, strategy),
                    IF alone THEN first ELSE MediaDevice(s, first))

\* getNewDevice: the device of the first strategy that is active on an output.
NoStrategy == "none"
RoutingStrategy(s, o) ==
    LET active == {i \in Strategies : StrategyActive(s.outs[o], i)} IN
    CASE isInCall(s) \/ "PHONE" \in active -> "PHONE"
      [] "SONIFICATION" \in active /\ ~isInCall(s) -> "SONIFICATION"
      [] active = {"MEDIA"} /\ ~isInCall(s) -> "MEDIA"
      [] OTHER -> NoStrategy
getNewDevice(s, o) ==
    IF RoutingStrategy(s, o) = NoStrategy THEN {}
    ELSE getDeviceForStrategy(s, RoutingStrategy(s, o))
getNewDeviceFromCache(s, o) ==
    IF RoutingStrategy(s, o) = NoStrategy THEN {} ELSE s.cache[RoutingStrategy(s, o)]

-----------------------------------------------------------------------------
(* Routing an output.                                                      *)

\* getDeviceForVolume: of several devices, the one whose volume counts.
getDeviceForVolume(device) ==
    IF device = {} THEN {"SPEAKER"}
    ELSE IF Cardinality(device) = 1 THEN device
    ELSE IF "SPEAKER" \in device THEN {"SPEAKER"}
    ELSE IF "FM" \in device THEN {"FM"}
    ELSE IF "WIRED_HEADSET" \in device THEN {"WIRED_HEADSET"}
    ELSE device \cap Profiles.a2dp

\* An unmute without a mute counts below zero.
MutedVariant(n, mute) == IF mute THEN n + 1 ELSE n - 1

\* setStrategyMute / setStreamMute: mutes are counted, and an unmute that has
\* no mute to match does nothing.
Muted(n, mute) == IF mute THEN n + 1 ELSE IF n = 0 THEN 0 ELSE n - 1

\* A strategy whose mute has ended is forgotten and not unmuted.
checkDeviceMuteStrategiesVariant(s, o, prevDevice) ==
    LET desc == s.outs[o]
        Mute(i) == LET cur == getDeviceForStrategy(s, i) IN
                   /\ IsActive(desc) /\ Cardinality(desc.device) >= 2
                   /\ cur \cap desc.device # {} /\ cur # desc.device
        Counts(x) == [i \in Strategies |-> s.outs[x].muteCount[i]
                        + (IF Mute(i) /\ i \notin desc.muted THEN 1 ELSE 0)]
    IN  [x \in DOMAIN s.outs |->
            [s.outs[x] EXCEPT !.muteCount = Counts(x),
                              !.muted = IF x = o THEN {i \in Strategies : Mute(i)} ELSE @]]

\* checkDeviceMuteStrategies: when the output plays on several devices, the
\* strategies that want only some of them are muted on every output sharing a
\* device with it.  A temporary mute (the volume device changed) applies the
\* present mute of every strategy once more; mutes are the strategies to mute.
ApplyMutes(s, o, tempMute, mutes) ==
    LET touched == {i \in Strategies : tempMute \/ (i \in mutes) # (i \in s.outs[o].muted)}
        Counts(x) == [i \in Strategies |->
            IF i \in touched /\ Supported(x) \cap Supported(o) # {}
            THEN Muted(s.outs[x].muteCount[i], i \in mutes) ELSE s.outs[x].muteCount[i]]
    IN  [x \in DOMAIN s.outs |->
            [s.outs[x] EXCEPT !.muteCount = Counts(x),
                              !.muted = IF x = o THEN mutes ELSE @]]

checkDeviceMuteStrategies(s, o, prevDevice) ==
    LET desc == s.outs[o]
        device == desc.device
        shouldMute == IsActive(desc) /\ Cardinality(device) >= (IF "FM" \in device THEN 3 ELSE 2)
        tempMute == IsActive(desc) /\ getDeviceForVolume(device) # getDeviceForVolume(prevDevice)
        Conflicts(cur) == cur \cap device # {} /\ cur # device
    IN  ApplyMutes(s, o, tempMute,
            {i \in Strategies : shouldMute /\ Conflicts(getDeviceForStrategy(s, i))})

\* setOutputDevice: a device the output does not support changes nothing; no
\* device keeps the route and only checks the mutes.
SetOne(s, o, device) ==
    LET d == device \cap Supported(o)
        to == [s EXCEPT !.outs[o].device = IF d = {} THEN @ ELSE d]
    IN  IF device # {} /\ d = {} THEN s.outs
        ELSE checkDeviceMuteStrategies(to, o, s.outs[o].device)

RouteOne(s, o, device) == [s EXCEPT !.outs = SetOne(s, o, device)]

RouteOutput(s, o, device) ==
    IF o = "dup" THEN RouteOne(RouteOne(s, "primary", device), "a2dp", device)
    ELSE RouteOne(s, o, device)

\* Every output of a set is given its device, in the order of the keys of mOutputs.
RouteAll(s, ids, Device(_, _)) ==
    LET Route(x, o) == IF o \in ids THEN RouteOutput(x, o, Device(x, o)) ELSE x
    IN  Route(Route(Route(Route(Route(s, "primary"), "voip"), "lpa"), "a2dp"), "dup")
RouteFromCache(s) == RouteAll(s, DOMAIN s.outs, getNewDeviceFromCache)

\* updateDevicesAndOutputs: the whole cache; the enforced audible strategy, the
\* only one to read the cache and the last, finds what was just stored for the phone.
PhoneCached(s) == [s EXCEPT !.cache["PHONE"] = getDeviceForStrategy(s, "PHONE")]
updateDevicesAndOutputs(s) ==
    [s EXCEPT !.cache = [i \in Strategies |-> getDeviceForStrategy(PhoneCached(s), i)]]

\* checkA2dpSuspend: A2DP is suspended during SCO, a ring tone and a call.
checkA2dpSuspend(s) ==
    LET sco == s.avail \cap {"SCO", "SCO_HEADSET", "SCO_CARKIT"} # {}
        wanted == "BT_SCO" \in {s.force.COMMUNICATION, s.force.RECORD}
        phone == s.phone \in {"IN_CALL", "RINGTONE"}
    IN  [s EXCEPT !.suspended =
            IF "a2dp" \notin DOMAIN s.outs THEN @ ELSE (sco /\ wanted) \/ phone]

-----------------------------------------------------------------------------
(* Inputs.                                                                 *)

\* getDeviceForInputSource; "none" stands for AUDIO_DEVICE_NONE.
getDeviceForInputSource(s, source) ==
    LET Have(d) == d \in s.in
        mic == IF s.force.RECORD = "BT_SCO" /\ Have("SCO_HEADSET") THEN "SCO_HEADSET"
               ELSE IF Have("WIRED_HEADSET") THEN "WIRED_HEADSET"
               ELSE IF Have("BUILTIN_MIC") THEN "BUILTIN_MIC" ELSE "none"
        Avail(d) == IF Have(d) THEN d ELSE "none"
    IN  CASE source = "VOICE_UPLINK" -> IF Have("VOICE_CALL") THEN "VOICE_CALL" ELSE mic
          [] source \in {"DEFAULT", "MIC", "VOICE_RECOGNITION", "HOTWORD"} -> mic
          [] source = "VOICE_COMMUNICATION" -> "COMMUNICATION"
          [] source = "CAMCORDER" ->
                IF Have("BACK_MIC") THEN "BACK_MIC" ELSE Avail("BUILTIN_MIC")
          [] source \in {"VOICE_DOWNLINK", "VOICE_CALL"} -> Avail("VOICE_CALL")
          [] source = "REMOTE_SUBMIX" -> Avail("REMOTE_SUBMIX")
          [] source = "FM_RX" -> "FM_RX"
          [] source = "FM_RX_A2DP" -> "FM_RX_A2DP"

NoInput == [source |-> "none", device |-> "none"]

\* The active input follows a change of what is available or forced.
RouteInput(s) ==
    LET d == getDeviceForInputSource(s, s.input.source) IN
    IF s.input = NoInput \/ d = "none" THEN s ELSE [s EXCEPT !.input.device = d]

-----------------------------------------------------------------------------
(* setForceUse.                                                            *)

Accepts == [
    MEDIA |-> {"HEADPHONES", "BT_A2DP", "SPEAKER", "WIRED_ACCESSORY", "ANALOG_DOCK",
               "DIGITAL_DOCK", "NONE", "NO_BT_A2DP"},
    COMMUNICATION |-> {"SPEAKER", "BT_SCO", "NONE"},
    RECORD |-> {"BT_SCO", "WIRED_ACCESSORY", "NONE"}]

\* Digital FM keeps the forced use; "none" is remembered for its end.
Deferred(s, usage, config) ==
    usage = "MEDIA" /\ s.fm = "FM_DIGITAL" /\ config = "NONE"

\* A later configuration leaves the deferred one pending.
StoreForceUseVariant(s, usage, config) ==
    [s EXCEPT !.force[usage] = config]

StoreForceUse(s, usage, config) ==
    [s EXCEPT !.force[usage] = config,
              !.pending = IF usage = "MEDIA" THEN FALSE ELSE @]

\* The active input is not looked at.
ForcedVariant(s, usage, config) ==
    RouteFromCache(updateDevicesAndOutputs(checkA2dpSuspend(StoreForceUse(s, usage, config))))

Forced(s, usage, config) ==
    RouteInput(RouteFromCache(updateDevicesAndOutputs(
        checkA2dpSuspend(StoreForceUse(s, usage, config)))))

setForceUse(s, usage, config) ==
    IF config \notin Accepts[usage] THEN s
    ELSE IF Deferred(s, usage, config) THEN [s EXCEPT !.pending = TRUE]
    ELSE Forced(s, usage, config)

-----------------------------------------------------------------------------
(* setDeviceConnectionState.                                               *)

InputOf(device) ==
    CASE device = "WIRED_HEADSET" -> {"WIRED_HEADSET"}
      [] device \in {"SCO", "SCO_HEADSET", "SCO_CARKIT"} -> {"SCO_HEADSET"}
      [] OTHER -> {}

CloseA2dp(s, closed) ==
    IF closed THEN [s EXCEPT !.outs = closeOutput(@, "a2dp")] ELSE s

\* The end of both: the primary output first, then A2DP's suspension, the
\* outputs that are not needed any more, the cache, and every output again.
Reroute(s, newDevice, closed) ==
    RouteFromCache(updateDevicesAndOutputs(
        CloseA2dp(checkA2dpSuspend(RouteOutput(s, "primary", newDevice)), closed)))

\* checkOutputsForDevice: A2DP needs an output of its own and one that
\* duplicates to it, opened when the first such device connects.
checkOutputsForDevice(s, device) ==
    IF device \in Profiles.a2dp /\ "a2dp" \notin DOMAIN s.outs
    THEN Opened(Opened(s.outs, "a2dp", NewOutput({device})), "dup", NewOutput({}))
    ELSE s.outs

\* FM radio is counted when it starts and not when it ends.
changeFmRefCountVariant(s, device, delta) ==
    IF device = "FM" /\ delta > 0
    THEN [s EXCEPT !.outs = changeRefCount(@, "primary", "MUSIC", delta)] ELSE s

\* FM radio counts as a user of the music stream.
changeFmRefCount(s, device, delta) ==
    IF device = "FM" THEN [s EXCEPT !.outs = changeRefCount(@, "primary", "MUSIC", delta)]
    ELSE s

FmModeOnConnect(s, device, analog) ==
    IF device = "FM" /\ s.fm = "FM_NONE" THEN IF analog THEN "FM_ANALOG" ELSE "FM_DIGITAL"
    ELSE s.fm

Available(s, device) ==
    [s EXCEPT !.avail = @ \cup {device},
              !.outs = checkOutputsForDevice(s, device),
              !.suspended = IF device \in Profiles.a2dp THEN FALSE ELSE @]

RouteConnected(s, device) ==
    Reroute(s, getNewDevice(s, "primary") \cup ({device} \cap {"FM"}), FALSE)

PlugInput(s, device) ==
    IF InputOf(device) \subseteq s.in THEN s
    ELSE RouteInput([s EXCEPT !.in = @ \cup InputOf(device)])

\* connected; opens says that the output A2DP needs can be opened.
Connect(s, device, analog, opens) ==
    LET fm == [s EXCEPT !.fm = FmModeOnConnect(s, device, analog)]
        needs == device \in Profiles.a2dp /\ "a2dp" \notin DOMAIN s.outs
    IN  IF device = "FM" /\ s.fm # "FM_NONE" THEN s
        ELSE IF device \in s.avail \/ (needs /\ ~opens) THEN fm
        ELSE PlugInput(RouteConnected(
                changeFmRefCount(Available(fm, device), device, 1), device), device)

\* The mode is left as it was.
FmOffVariant(s) == IF s.pending THEN setForceUse(s, "MEDIA", "NONE") ELSE s

\* When media now plays over A2DP, the codec is routed to the headset.
RestoreCodec(s) ==
    IF getDeviceForStrategy(s, "MEDIA") \cap Profiles.a2dp = {} THEN s
    ELSE RouteOutput(s, "primary", {"WIRED_HEADSET"})

\* The end of FM: the mode first, then the deferred forced use.
FmOff(s) ==
    LET none == [s EXCEPT !.fm = "FM_NONE"] IN
    RestoreCodec(IF s.pending THEN setForceUse(none, "MEDIA", "NONE") ELSE none)

Unavailable(s, device) ==
    [s EXCEPT !.avail = @ \ {device},
              !.suspended = IF device \in Profiles.a2dp THEN FALSE ELSE @]

\* The new device is chosen with FM radio still counted; the output of A2DP
\* closes with its last device.
RouteDisconnected(s, device) ==
    Reroute(changeFmRefCount(s, device, -1), getNewDevice(s, "primary"),
            "a2dp" \in DOMAIN s.outs /\ s.avail \cap Profiles.a2dp = {})

UnplugInput(s, device) ==
    IF InputOf(device) \cap s.in = {} THEN s
    ELSE RouteInput([s EXCEPT !.in = @ \ InputOf(device)])

Disconnected(s, device) ==
    IF device \notin s.avail THEN s
    ELSE UnplugInput(RouteDisconnected(Unavailable(s, device), device), device)

Disconnect(s, device) == Disconnected(IF device = "FM" THEN FmOff(s) ELSE s, device)

-----------------------------------------------------------------------------
(* setPhoneState.                                                          *)

\* handleIncallSonification, called only in a call: ring tones are muted on the
\* primary output, as many times as tracks play when the call starts or ends.
handleIncallSonification(s, stream, starting, stateChange) ==
    LET n == s.outs["primary"].refs[stream]
        times == IF stateChange THEN n ELSE 1
        count == s.outs["primary"].muteCount["SONIFICATION"]
        after == IF starting THEN count + times ELSE IF count < times THEN 0 ELSE count - times
    IN  IF ~isInCall(s) \/ stream # "RING" \/ n = 0 THEN s
        ELSE [s EXCEPT !.outs["primary"].muteCount["SONIFICATION"] = after]

RingMute(s, mute) ==
    [s EXCEPT !.outs["primary"].muteCount["SONIFICATION"] = Muted(@, mute)]

\* The cache is left as it was.
NewPhoneVariant(s, phone) == checkA2dpSuspend([s EXCEPT !.phone = phone])

\* The phone's state, and what is computed from it.
NewPhone(s, phone) == updateDevicesAndOutputs(checkA2dpSuspend([s EXCEPT !.phone = phone]))

\* The primary output's device, chosen before A2DP is suspended or restored; it
\* keeps its own when there is none after a call.
PrimaryForPhone(s, phone) ==
    OrElse(getNewDevice([s EXCEPT !.phone = phone], "primary"),
           IF isInCall(s) THEN s.outs["primary"].device ELSE {})

RoutePhone(s, device, rings) ==
    IF rings THEN RingMute(RouteOutput(RingMute(s, TRUE), "primary", device), FALSE)
    ELSE RouteOutput(s, "primary", device)

RouteOthers(s) ==
    RouteAll(s, {o \in DOMAIN s.outs \ {"primary"} : IsActive(s.outs[o])}, getNewDevice)

\* setPhoneState: ring tones are unmuted when a call ends and muted when one
\* begins, and the other outputs are routed after a call.  (The mute and unmute
\* of media on the way leave the counts as they were.)
setPhoneState(s, phone) ==
    LET left == handleIncallSonification(s, "RING", FALSE, TRUE)
        in == handleIncallSonification(
                RoutePhone(NewPhone(left, phone), PrimaryForPhone(left, phone),
                           IsStateInCall(phone) /\ s.phone = "RINGTONE"),
                "RING", TRUE, TRUE)
    IN  IF phone = s.phone THEN s
        ELSE IF isInCall(s) /\ ~IsStateInCall(phone) THEN RouteOthers(in)
        ELSE in

-----------------------------------------------------------------------------
(* Streams.                                                                *)

\* handleNotificationRoutingForStream: music may change other strategies.
handleNotificationRoutingForStream(s, stream) ==
    IF stream = "MUSIC" THEN updateDevicesAndOutputs(s) ELSE s

\* With analog FM, a system sound needs the codec on the headset.
StartDevice(s, stream, device) ==
    IF stream = "SYSTEM" /\ s.fm = "FM_ANALOG" /\ device = {"FM"}
    THEN {"FM", "WIRED_HEADSET"} ELSE device

\* Only the first track on the output routes it.
startOutputVariant(s, o, stream) ==
    LET up == [s EXCEPT !.outs = changeRefCount(@, o, stream, 1)] IN
    IF IsActive(s.outs[o]) THEN up
    ELSE handleNotificationRoutingForStream(RouteOutput(up, o, getNewDevice(up, o)), stream)

\* startOutput: the output is routed by the first track of a stream.
startOutput(s, o, stream) ==
    LET up == [s EXCEPT !.outs = changeRefCount(@, o, stream, 1)] IN
    IF up.outs[o].refs[stream] # 1 THEN up
    ELSE handleNotificationRoutingForStream(
            handleIncallSonification(
                RouteOutput(up, o, StartDevice(s, stream, getNewDevice(up, o))),
                stream, TRUE, FALSE),
            stream)

\* The active outputs of the same module are routed again when they are on
\* another device.
RouteModule(s, o, newDevice) ==
    LET SameModule(x) == "dup" \in {x, o} \/ (x = "a2dp") = (o = "a2dp") IN
    RouteAll(s, {x \in DOMAIN s.outs \ {o} :
                    /\ IsActive(s.outs[x]) /\ SameModule(x)
                    /\ newDevice # DeviceOf(s.outs, x)}, getNewDevice)

RouteStopped(s, o, newDevice) == RouteModule(RouteOutput(s, o, newDevice), o, newDevice)

\* stopOutput: the last track of a stream lets the output be routed again.
stopOutput(s, o, stream) ==
    LET unmuted == handleIncallSonification(s, stream, FALSE, FALSE)
        down == [unmuted EXCEPT !.outs = changeRefCount(@, o, stream, -1)]
    IN  IF s.outs[o].refs[stream] = 0 THEN unmuted
        ELSE IF down.outs[o].refs[stream] # 0 THEN down
        ELSE handleNotificationRoutingForStream(
                RouteStopped(down, o, getNewDevice(down, o)), stream)

\* isCompatibleProfile, getProfileForDirectOutput: the profile whose flags are
\* those asked for and which supports the device; {} when there is none.
isCompatibleProfile(o, device, flags) == device \subseteq Profiles[o] /\ ProfileFlags[o] = flags

getProfileForDirectOutput(s, device, flags) ==
    LET f == IF flags \cap {"LPA", "TUNNEL", "VOIP_RX"} = {} THEN {"DIRECT"} ELSE flags
    IN  {o \in DOMAIN Profiles : /\ isCompatibleProfile(o, device, f)
                                 /\ s.avail \cap Profiles[o] # {}}

\* getOutput for a direct output: one that is open with the same parameters is
\* shared, one with others is closed first; opening may fail.
DirectOutput(s, device, request, opens) ==
    LET fits == getProfileForDirectOutput(s, device, request.flags)
        o == CHOOSE x \in fits : TRUE
        open == o \in DOMAIN s.outs
        cut == IF open THEN closeOutput(s.outs, o) ELSE s.outs
        desc == [NewOutput(device) EXCEPT !.params = request.params, !.openCount = 1]
    IN  IF fits = {} THEN s
        ELSE IF open /\ s.outs[o].params = request.params
        THEN [s EXCEPT !.outs[o].openCount = @ + 1]
        ELSE [s EXCEPT !.outs = IF opens THEN Opened(cut, o, desc) ELSE cut]

\* getOutput: only the flags of a direct output are looked up; any other request
\* is given an output that is open.
getOutput(s, stream, request, opens) ==
    IF "DIRECT" \in request.flags
    THEN DirectOutput(s, getDeviceForStrategy(s, getStrategy(stream)), request, opens)
    ELSE s

\* releaseOutput: a low-power output closes whatever its count.
releaseOutput(s, o) ==
    IF o = "dup" \/ "DIRECT" \notin ProfileFlags[o] THEN s ELSE [s EXCEPT !.outs = closeOutput(@, o)]

-----------------------------------------------------------------------------
Init ==
    \E pending \in BOOLEAN :       \* the constructor does not set it
        LET s == [avail |-> Attached, in |-> AttachedInputs, phone |-> "NORMAL",
                  force |-> [MEDIA |-> "NONE", COMMUNICATION |-> "NONE", RECORD |-> "NONE"],
                  fm |-> "FM_NONE", pending |-> pending, suspended |-> FALSE,
                  cache |-> [i \in Strategies |-> {}], input |-> NoInput,
                  outs |-> Opened(<<>>, "primary", NewOutput(DefaultOutputDevice))]
        IN  /\ apm = updateDevicesAndOutputs(s)
            /\ requested = "NONE"
            /\ started = [o \in OutputIds |-> NoRefs]
            /\ calls = 0

\* An operation takes the object to s; the tracks of an output that closes
\* (to open with other parameters, perhaps) are gone.
Becomes(s) ==
    /\ calls < MaxCalls /\ calls' = calls + 1
    /\ apm' = s
Closes(s, o) ==
    \/ o \notin DOMAIN s.outs
    \/ o \in DOMAIN apm.outs /\ s.outs[o].params # apm.outs[o].params
Tracks(s, o, stream, delta) ==
    started' = [x \in DOMAIN started |->
        IF Closes(s, x) THEN NoRefs
        ELSE IF x = o THEN [started[x] EXCEPT ![stream] = @ + delta] ELSE started[x]]
Operation(s) == Becomes(s) /\ Tracks(s, "none", "none", 0)
TrackChanges(s, o, stream, delta) == Becomes(s) /\ Tracks(s, o, stream, delta)

\* setDeviceConnectionState(AVAILABLE / UNAVAILABLE).
DeviceConnected(device) ==
    /\ \E analog, opens \in BOOLEAN : Operation(Connect(apm, device, analog, opens))
    /\ UNCHANGED requested

DeviceDisconnected(device) == Operation(Disconnect(apm, device)) /\ UNCHANGED requested

PhoneStateSet(phone) == Operation(setPhoneState(apm, phone)) /\ UNCHANGED requested

ForceUseSet(usage, config) ==
    /\ Becomes(setForceUse(apm, usage, config))
    /\ requested' = IF usage = "MEDIA" /\ config \in Accepts.MEDIA THEN config ELSE requested
    /\ UNCHANGED started

\* A client starts a track on an output getOutput() gave it, and stops it.
OutputStarted(o, stream) ==
    /\ o \in DOMAIN apm.outs /\ started[o][stream] < MaxRefs
    /\ TrackChanges(startOutput(apm, o, stream), o, stream, 1)
    /\ UNCHANGED requested

OutputStopped(o, stream) ==
    /\ o \in DOMAIN apm.outs /\ started[o][stream] > 0
    /\ TrackChanges(stopOutput(apm, o, stream), o, stream, -1)
    /\ UNCHANGED requested

DirectOutputAsked(stream, request) ==
    /\ \E opens \in BOOLEAN : Operation(getOutput(apm, stream, request, opens))
    /\ UNCHANGED requested

OutputReleased(o) ==
    /\ o \in DOMAIN apm.outs
    /\ Operation(releaseOutput(apm, o))
    /\ UNCHANGED requested

\* The base class starts the input of a source that has a device; stopInput.
InputStarted(source) ==
    LET d == getDeviceForInputSource(apm, source) IN
    /\ apm.input = NoInput /\ d # "none"
    /\ Becomes([apm EXCEPT !.input = [source |-> source, device |-> d]])
    /\ UNCHANGED <<requested, started>>

stopInput ==
    /\ apm.input # NoInput
    /\ Becomes([apm EXCEPT !.input = NoInput])
    /\ UNCHANGED <<requested, started>>

Next ==
    \/ \E d \in Connectable : DeviceConnected(d) \/ DeviceDisconnected(d)
    \/ \E phone \in PhoneStates : PhoneStateSet(phone)
    \/ \E c \in MediaConfigs : ForceUseSet("MEDIA", c)
    \/ \E c \in CommConfigs : ForceUseSet("COMMUNICATION", c)
    \/ \E c \in RecordConfigs : ForceUseSet("RECORD", c)
    \/ \E o \in DOMAIN apm.outs, stream \in Streams :
            /\ o = "lpa" => stream = "MUSIC"
            /\ OutputStarted(o, stream) \/ OutputStopped(o, stream)
    \/ \E request \in DirectRequests : DirectOutputAsked("MUSIC", request)
    \/ \E o \in DOMAIN apm.outs : OutputReleased(o)
    \/ \E source \in Sources : InputStarted(source)
    \/ stopInput

Spec == Init /\ [][Next]_vars

-----------------------------------------------------------------------------
(* Properties.                                                             *)

\* The state is of its type: an output has only devices it supports, tracks and
\* mutes are never counted below zero (setOutputDevice, setStreamMute).
PolicyTypeOK ==
    /\ apm.fm \in {"FM_NONE", "FM_DIGITAL", "FM_ANALOG"}
    /\ apm.pending \in BOOLEAN /\ apm.suspended \in BOOLEAN
    /\ apm.avail \subseteq Attached \cup Connectable
    /\ "primary" \in DOMAIN apm.outs
    /\ \A o \in DOMAIN apm.outs :
        /\ apm.outs[o].device \subseteq Supported(o)
        /\ \A stream \in Streams : apm.outs[o].refs[stream] \in Nat
        /\ \A i \in Strategies : apm.outs[o].muteCount[i] \in Nat

\* The forced use of media is the last one asked for, except that digital FM
\* may be holding back FORCE_NONE; nothing is held back that a later request
\* replaced (setForceUse, and the end of FM in setDeviceConnectionState).
ForceUseRemembered ==
    /\ apm.force.MEDIA = requested \/ (apm.fm = "FM_DIGITAL" /\ apm.pending)
    /\ apm.pending => requested = "NONE"

\* There is an FM mode exactly while the FM device is available, although
\* setDeviceConnectionState sets the mode before it accepts or refuses.
FmModeMatchesConnection == apm.fm # "FM_NONE" <=> "FM" \in apm.avail

\* Every output counts the tracks clients have running on it, those of the
\* output duplicating to it, and FM radio, through outputs that open and close
\* (startOutput, stopOutput, setDeviceConnectionState).
TracksCounted ==
    \A o \in DOMAIN apm.outs, stream \in Streams :
        apm.outs[o].refs[stream] =
            started[o][stream]
            + (IF o \in {"primary", "a2dp"} THEN started["dup"][stream] ELSE 0)
            + (IF o = "primary" /\ stream = "MUSIC" /\ "FM" \in apm.avail THEN 1 ELSE 0)

\* mDeviceForStrategy is what getDeviceForStrategy would compute: every
\* operation that changes what it depends on updates the cache.
CacheIsFresh == \A i \in Strategies : apm.cache[i] = getDeviceForStrategy(apm, i)

\* The active input is on the device its source now asks for, after every
\* change of devices or forced use (setDeviceConnectionState, setForceUse).
InputFollowsPolicy ==
    apm.input # NoInput =>
        getDeviceForInputSource(apm, apm.input.source) \in {apm.input.device, "none"}

\* A system sound during analog FM plays on the headset as well.
SoundOverFm(s, o) ==
    IF s.fm = "FM_ANALOG" /\ \E stream \in Streams : stream = "SYSTEM" /\ s.outs[o].refs[stream] > 0
    THEN {"WIRED_HEADSET"} ELSE {}

RoutesFollow(s, ids) ==
    \A o \in DOMAIN s.outs \cap ids :
        LET d == getNewDevice(s, o) \cap Supported(o) IN
        IsActive(s.outs[o]) /\ d # {} => s.outs[o].device \in {d, d \cup SoundOverFm(s, o)}

NoA2dp(s) == "dup" \notin DOMAIN s.outs
CallBegins == ~isInCall(apm) /\ isInCall(apm')

\* While no output duplicates to another, no operation leaves an output that
\* plays on a device other than the policy's; a call that begins moves only
\* the primary output, and a system sound adds the headset to analog FM (the
\* setOutputDevice calls of every operation).
RoutesFollowPolicy ==
    [][(NoA2dp(apm) /\ RoutesFollow(apm, DOMAIN apm.outs) /\ NoA2dp(apm'))
       => RoutesFollow(apm', IF CallBegins THEN {"primary"} ELSE DOMAIN apm'.outs)]_vars

\* Media and calls are muted only while the devices of some output call for
\* it: no sequence of reroutings leaves a mute behind (checkDeviceMuteStrategies).
NothingStaysMuted ==
    \A o \in DOMAIN apm.outs, i \in {"MEDIA", "PHONE"} :
        apm.outs[o].muteCount[i] > 0 =>
            \E x \in DOMAIN apm.outs : i \in apm.outs[x].muted
=============================================================================
