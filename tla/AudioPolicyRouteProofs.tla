------------------------ MODULE AudioPolicyRouteProofs ------------------------
(***************************************************************************)
(* What the routes of the audio policy are, for any devices,               *)
(* configurations and direct outputs, and any number of operations.        *)
(*                                                                         *)
(* No mute is left behind.  checkDeviceMuteStrategies() counts a mute up   *)
(* when a strategy begins to conflict with the devices of an output and    *)
(* down when it ceases to; it also applies the present mutes once more     *)
(* when the device whose volume counts has changed.  An output plays on    *)
(* one device, with the speaker and FM perhaps beside it, so whatever is   *)
(* muted for its devices plays on the speaker, and the volume device stays *)
(* the speaker while the mute lasts.  Only the primary output ever is on   *)
(* two devices, so that no output that closes takes a mute with it.        *)
(*                                                                         *)
(* Outputs follow the policy.  Routing an output changes nothing the       *)
(* policy reads, so that outputs routed one after the other all follow at  *)
(* the end; an operation either routes every output after the last change  *)
(* of what the policy reads, or changes it for the outputs it routes only. *)
(***************************************************************************)
EXTENDS AudioPolicyProofs, FiniteSetTheorems

-----------------------------------------------------------------------------
(* The devices of an output.                                               *)

Heard == {"MEDIA", "PHONE"}

Lone(device) == \A a, b \in device : a = b
Thin(device) == Lone(device \ {"SPEAKER", "FM"})

\* The devices the strategies that route an output may have.
Routable(device, i) ==
    /\ Thin(device)
    /\ i = "PHONE" => Lone(device)
    /\ i = "MEDIA" => Lone(device \ {"FM"})
Routing == {"PHONE", "SONIFICATION", "MEDIA"}

\* A list of devices: the first that is available is one.
IsList(names) == \A i \in DOMAIN names : i \in Nat /\ i >= 1

LEMMA FirstIsLone ==
    ASSUME NEW s, NEW names, IsList(names)
    PROVE  Lone(First(s, names))
<1> SUFFICES ASSUME NEW i \in DOMAIN names, NEW j \in DOMAIN names,
                    names[i] \in s.avail, \A k \in 1 .. i - 1 : names[k] \notin s.avail,
                    names[j] \in s.avail, \A k \in 1 .. j - 1 : names[k] \notin s.avail
             PROVE  names[i] = names[j]
  BY DEF First, FirstOf, Lone
<1>1. i \in Nat /\ i >= 1 /\ j \in Nat /\ j >= 1
  BY DEF IsList
<1>2. ~(i < j) /\ ~(j < i)
  BY <1>1
<1> QED
  BY <1>1, <1>2

LEMMA PhoneIsLone == ASSUME NEW s, NEW i PROVE Lone(PhoneDevice(s, i))
<1>1. Lone({}) /\ Lone({"SPEAKER"}) /\ Lone(DefaultOutputDevice)
  BY DEF Lone, DefaultOutputDevice
<1>2. \A a, b : Lone(a) /\ Lone(b) => Lone(OrElse(a, b))
  BY DEF OrElse
<1>3. \A names : IsList(names) => Lone(First(s, names))
  BY FirstIsLone
<1> DEFINE sco == First(s, IF isInCall(s) /\ i = "DTMF"
                           THEN <<"SCO_HEADSET", "SCO">>
                           ELSE <<"SCO_CARKIT", "SCO_HEADSET", "SCO">>)
           a2dp(names) == IF A2dpUsable(s) /\ ~isInCall(s) THEN First(s, names) ELSE {}
           none == OrElse(a2dp(<<"A2DP", "A2DP_HEADPHONES">>),
                          First(s, <<"WIRED_HEADPHONE", "WIRED_HEADSET", "USB_DEVICE",
                                     "DGTL_DOCK", "AUX_DIGITAL", "ANLG_DOCK", "EARPIECE">>))
           speaker == OrElse(a2dp(<<"A2DP_SPEAKER">>),
                             First(s, <<"USB_DEVICE", "DGTL_DOCK", "AUX_DIGITAL",
                                        "ANLG_DOCK", "SPEAKER">>))
           chosen == CASE s.force.COMMUNICATION = "SPEAKER" -> speaker
                       [] s.force.COMMUNICATION = "BT_SCO"  -> OrElse(sco, none)
                       [] OTHER -> none
<1>4. PhoneDevice(s, i) = IF "FM" \in s.avail /\ s.force.MEDIA = "SPEAKER" THEN {"SPEAKER"}
                          ELSE OrElse(chosen, DefaultOutputDevice)
  BY DEF PhoneDevice
<1>5. Lone(sco)
  <2>1. IsList(<<"SCO_HEADSET", "SCO">>) /\ IsList(<<"SCO_CARKIT", "SCO_HEADSET", "SCO">>)
    BY DEF IsList
  <2> QED
    BY <1>3, <2>1
<1>6. \A names : IsList(names) => Lone(a2dp(names))
  BY <1>1, <1>3
<1>7. Lone(none) /\ Lone(speaker)
  <2> HIDE DEF a2dp
  <2>1. IsList(<<"A2DP", "A2DP_HEADPHONES">>) /\ IsList(<<"A2DP_SPEAKER">>)
    BY DEF IsList
  <2>2. IsList(<<"WIRED_HEADPHONE", "WIRED_HEADSET", "USB_DEVICE",
          "DGTL_DOCK", "AUX_DIGITAL", "ANLG_DOCK", "EARPIECE">>)
    BY DEF IsList
  <2>3. IsList(<<"USB_DEVICE", "DGTL_DOCK", "AUX_DIGITAL", "ANLG_DOCK", "SPEAKER">>)
    BY DEF IsList
  <2> QED
    BY <1>2, <1>3, <1>6, <2>1, <2>2, <2>3
<1> HIDE DEF sco, none, speaker
<1>8. Lone(chosen)
  BY <1>2, <1>5, <1>7
<1> HIDE DEF chosen
<1> QED
  BY <1>1, <1>2, <1>4, <1>8

\* What media is heard on: one device of its own, the first and FM.
LEMMA MediaIsThin ==
    ASSUME NEW s, NEW first \in SUBSET {"SPEAKER"}
    PROVE  /\ Thin(MediaDevice(s, first))
           /\ first = {} => Lone(MediaDevice(s, first) \ {"FM"})
<1> DEFINE a2dp == IF A2dpUsable(s) /\ s.fm # "FM_ANALOG"
                   THEN First(s, <<"A2DP", "A2DP_HEADPHONES", "A2DP_SPEAKER">>) ELSE {}
           second == OrElse(a2dp, First(s, <<"WIRED_HEADPHONE", "WIRED_HEADSET",
                            "USB_ACCESSORY", "USB_DEVICE", "DGTL_DOCK", "AUX_DIGITAL",
                            "ANLG_DOCK", "SPEAKER">>))
           speaker == s.avail \cap {"SPEAKER"}
           base == IF s.force.MEDIA = "SPEAKER" THEN speaker ELSE OrElse(first \cup second, speaker)
<1>1. MediaDevice(s, first) = WithFm(s, base)
  BY DEF MediaDevice
<1>2. Lone(a2dp) /\ Lone(First(s, <<"WIRED_HEADPHONE", "WIRED_HEADSET", "USB_ACCESSORY",
            "USB_DEVICE", "DGTL_DOCK", "AUX_DIGITAL", "ANLG_DOCK", "SPEAKER">>))
  <2>1. IsList(<<"A2DP", "A2DP_HEADPHONES", "A2DP_SPEAKER">>)
    BY DEF IsList
  <2>2. IsList(<<"WIRED_HEADPHONE", "WIRED_HEADSET", "USB_ACCESSORY", "USB_DEVICE", "DGTL_DOCK",
          "AUX_DIGITAL", "ANLG_DOCK", "SPEAKER">>)
    BY DEF IsList
  <2> QED
    BY <2>1, <2>2, FirstIsLone DEF Lone
<1>3. Lone(second)
  BY <1>2 DEF OrElse
<1> HIDE DEF second
<1>4. Thin(base) /\ (first = {} => Lone(base))
  BY <1>3 DEF OrElse, Lone, Thin
<1> HIDE DEF base
<1>5. WithFm(s, base) \subseteq base \cup {"FM"} \/ WithFm(s, base) = {"SPEAKER"}
  BY DEF WithFm
<1> QED
  BY <1>1, <1>4, <1>5 DEF Lone, Thin

\* Every strategy that routes an output has such a device.
LEMMA DevicesAreRoutable ==
    ASSUME NEW s, NEW i \in Routing
    PROVE  Routable(getDeviceForStrategy(s, i), i)
<1> DEFINE ringing == i = "SONIFICATION" /\ ~isInCall(s)
           first == IF ringing THEN s.avail \cap {"SPEAKER"} ELSE {}
           alone == s.fm = "FM_ANALOG" /\ (ringing \/ i = "ENFORCED_AUDIBLE")
           heard == IF alone THEN first ELSE MediaDevice(s, first)
<1>1. getDeviceForStrategy(s, i) = DeviceAmong(s, i, PhoneDevice(s, i), heard)
  BY DEF getDeviceForStrategy
<1>2. Thin(heard) /\ (i = "MEDIA" => Lone(heard \ {"FM"}))
  <2>1. first \in SUBSET {"SPEAKER"} /\ (i = "MEDIA" => first = {} /\ ~alone)
    OBVIOUS
  <2>2. Thin(first)
    BY <2>1 DEF Thin, Lone
  <2> HIDE DEF first, alone
  <2> QED
    BY <2>1, <2>2, MediaIsThin
<1> HIDE DEF heard
<1>3. Lone(PhoneDevice(s, i))
  BY PhoneIsLone
<1>4. /\ i = "PHONE" => getDeviceForStrategy(s, i) = PhoneDevice(s, i)
      /\ i = "MEDIA" => getDeviceForStrategy(s, i) = heard
      /\ getDeviceForStrategy(s, i) \in {PhoneDevice(s, i), heard}
  BY <1>1 DEF DeviceAmong, Routing
<1> QED
  BY <1>2, <1>3, <1>4 DEF Routable, Thin, Lone
-----------------------------------------------------------------------------
(* What is muted.                                                          *)

\* Only the primary output is on two devices, and strategies are muted for its
\* devices only.
RoutesThin(outs) ==
    /\ "voip" \notin DOMAIN outs
    /\ \A o \in DOMAIN outs : Thin(outs[o].device)
    /\ \A o \in DOMAIN outs \ {"primary"} :
          Lone(outs[o].device) /\ outs[o].muted \cap Heard = {}

\* A mute that is counted is the primary output's, which is heard on the speaker.
MutesCounted(outs) ==
    \A o \in DOMAIN outs, i \in Heard :
        outs[o].muteCount[i] = 0
        \/ (/\ outs[o].muteCount[i] = 1
            /\ i \in outs["primary"].muted
            /\ Supported(o) \cap Supported("primary") # {})
HeardOnSpeaker(muted, device) ==
    muted \cap Heard # {} => getDeviceForVolume(device) = {"SPEAKER"}
MutesShown(outs) ==
    MutesCounted(outs) /\ HeardOnSpeaker(outs["primary"].muted, outs["primary"].device)

\* A low-power output plays music only.
MusicOnly(outs) ==
    "lpa" \in DOMAIN outs => \A z \in Streams \ {"MUSIC"} : outs["lpa"].refs[z] = 0

CacheThin(s) == \A i \in Routing : Routable(s.cache[i], i)

QuietOuts(outs) == MusicOnly(outs) /\ RoutesThin(outs) /\ MutesShown(outs)
Quiet(s) == QuietOuts(s.outs) /\ CacheThin(s)

\* A device an output may be routed to.
Fits(o, device) == Thin(device) /\ (o = "lpa" => Lone(device \ {"FM"}))

LEMMA AtMostTwo ==
    ASSUME NEW a, NEW b, NEW device \in SUBSET {a, b}
    PROVE  /\ Cardinality(device) \in Nat /\ Cardinality(device) <= 2
           /\ a = b => Cardinality(device) <= 1
<1>1. IsFiniteSet({a}) /\ Cardinality({a}) = 1
  BY FS_Singleton
<1>2. IsFiniteSet({a} \cup {b})
      /\ Cardinality({a} \cup {b}) = IF b \in {a} THEN Cardinality({a}) ELSE Cardinality({a}) + 1
  BY <1>1, FS_AddElement
<1>3. {a} \cup {b} = {a, b}
  OBVIOUS
<1>4. IsFiniteSet({a, b})
  BY <1>2, <1>3
<1>5. Cardinality({a, b}) = IF a = b THEN 1 ELSE 2
  BY <1>1, <1>2, <1>3
<1>6. IsFiniteSet(device) /\ Cardinality(device) <= Cardinality({a, b})
  BY <1>4, FS_Subset
<1>7. Cardinality(device) \in Nat
  BY <1>6, FS_CardinalityType
<1> QED
  BY <1>5, <1>6, <1>7

\* A lone device is one; of the devices of an output, several without FM or more
\* than two, one is the speaker.
LEMMA SeveralHaveSpeaker ==
    ASSUME NEW device, Thin(device),
           Cardinality(device) >= (IF "FM" \in device THEN 3 ELSE 2)
    PROVE  ~Lone(device) /\ getDeviceForVolume(device) = {"SPEAKER"}
<1>1. ~Lone(device)
  <2> SUFFICES ASSUME Lone(device) PROVE FALSE
    OBVIOUS
  <2>1. PICK a : device \in SUBSET {a, a}
    BY DEF Lone
  <2>2. Cardinality(device) \in Nat /\ Cardinality(device) <= 1
    BY <2>1, AtMostTwo
  <2> QED
    BY <2>2
<1>2. "SPEAKER" \in device
  <2> SUFFICES ASSUME "SPEAKER" \notin device PROVE FALSE
    OBVIOUS
  <2>1. PICK a : device \in SUBSET {a, "FM"}
    BY DEF Thin, Lone
  <2>2. Cardinality(device) \in Nat /\ Cardinality(device) <= 2
    BY <2>1, AtMostTwo
  <2>3. CASE "FM" \in device
    BY <2>2, <2>3
  <2>4. CASE "FM" \notin device
    <3>1. device \in SUBSET {a, a}
      BY <2>1, <2>4
    <3>2. Cardinality(device) <= 1
      BY <3>1, AtMostTwo
    <3> QED
      BY <2>2, <2>4, <3>2
  <2> QED
    BY <2>3, <2>4
<1>3. device # {} /\ Cardinality(device) # 1
  BY <1>2
<1> QED
  BY <1>1, <1>2, <1>3 DEF getDeviceForVolume

\* checkDeviceMuteStrategies(): the output is on its new device already.
LEMMA MutesStayShown ==
    ASSUME NEW s, Object(s), MusicOnly(s.outs), RoutesThin(s.outs), MutesCounted(s.outs),
           NEW o \in DOMAIN s.outs, NEW prevDevice,
           HeardOnSpeaker(s.outs["primary"].muted,
                          IF o = "primary" THEN prevDevice ELSE s.outs["primary"].device)
    PROVE  QuietOuts(checkDeviceMuteStrategies(s, o, prevDevice))
<1> DEFINE device == s.outs[o].device
           tempMute == IsActive(s.outs[o])
                       /\ getDeviceForVolume(device) # getDeviceForVolume(prevDevice)
           shouldMute == IsActive(s.outs[o])
                         /\ Cardinality(device) >= (IF "FM" \in device THEN 3 ELSE 2)
           Conflicts(cur) == cur \cap device # {} /\ cur # device
           mutes == {i \in Strategies : shouldMute /\ Conflicts(getDeviceForStrategy(s, i))}
           touched == {i \in Strategies : tempMute \/ (i \in mutes) # (i \in s.outs[o].muted)}
           Counts(x) == [i \in Strategies |->
               IF i \in touched /\ Supported(x) \cap Supported(o) # {}
               THEN Muted(s.outs[x].muteCount[i], i \in mutes) ELSE s.outs[x].muteCount[i]]
           new == checkDeviceMuteStrategies(s, o, prevDevice)
<1>1. new = [x \in DOMAIN s.outs |->
                [s.outs[x] EXCEPT !.muteCount = Counts(x),
                                  !.muted = IF x = o THEN mutes ELSE @]]
  BY DEF checkDeviceMuteStrategies, ApplyMutes
<1>2. mutes # {} => /\ ~Lone(device)
                    /\ getDeviceForVolume(device) = {"SPEAKER"}
  BY SeveralHaveSpeaker DEF RoutesThin
<1>3. mutes # {} => o = "primary"
  BY <1>2 DEF RoutesThin
<1>4. \A x \in DOMAIN s.outs : DOMAIN s.outs[x] = DescFields
  BY DEF Object, OutputsOK, DescOK
<1>5. "primary" \in DOMAIN s.outs
  BY DEF Object, OutputsOK
<1> HIDE DEF mutes, touched, Counts, new
<1>6. /\ DOMAIN new = DOMAIN s.outs
      /\ \A x \in DOMAIN s.outs :
           /\ new[x].device = s.outs[x].device /\ new[x].refs = s.outs[x].refs
           /\ new[x].muteCount = Counts(x)
           /\ new[x].muted = IF x = o THEN mutes ELSE s.outs[x].muted
  BY <1>1, <1>4 DEF DescFields
<1>7. MusicOnly(new)
  BY <1>6 DEF MusicOnly
<1>8. RoutesThin(new)
  BY <1>3, <1>6 DEF RoutesThin
<1>9. HeardOnSpeaker(new["primary"].muted, new["primary"].device)
  BY <1>2, <1>3, <1>5, <1>6 DEF HeardOnSpeaker
<1>10. ASSUME NEW x \in DOMAIN s.outs, NEW i \in Heard
       PROVE  new[x].muteCount[i] = 0
              \/ (/\ new[x].muteCount[i] = 1
                  /\ i \in new["primary"].muted
                  /\ Supported(x) \cap Supported("primary") # {})
  <2> DEFINE n == s.outs[x].muteCount[i]
  <2>1. i \in Strategies
    BY DEF Heard, Strategies
  <2>2. new[x].muteCount[i] = IF i \in touched /\ Supported(x) \cap Supported(o) # {}
                              THEN Muted(n, i \in mutes) ELSE n
    BY <1>6, <2>1 DEF Counts
  <2>3. n = 0 \/ (/\ n = 1 /\ i \in s.outs["primary"].muted
                  /\ Supported(x) \cap Supported("primary") # {})
    BY DEF MutesCounted
  <2> HIDE DEF n
  <2>4. Muted(n, i \in mutes) = IF i \in mutes THEN n + 1 ELSE 0
    BY <2>3 DEF Muted
  <2>5. CASE i \in mutes
    <3>1. o = "primary" /\ new["primary"].muted = mutes
      BY <1>3, <1>5, <1>6, <2>5
    <3>2. CASE i \in s.outs["primary"].muted
      <4>1. getDeviceForVolume(prevDevice) = {"SPEAKER"}
        BY <3>1, <3>2 DEF HeardOnSpeaker
      <4>2. i \notin touched
        BY <1>2, <2>5, <3>1, <3>2, <4>1 DEF touched
      <4> QED
        BY <2>2, <2>3, <2>5, <3>1, <4>2
    <3>3. CASE i \notin s.outs["primary"].muted
      <4>1. n = 0 /\ Muted(n, i \in mutes) = 1
        BY <2>3, <2>4, <2>5, <3>3
      <4> QED
        BY <2>2, <2>5, <3>1, <4>1
    <3> QED
      BY <3>2, <3>3
  <2>6. CASE i \notin mutes
    <3>1. CASE o = "primary"
      <4>1. CASE i \in s.outs["primary"].muted
        <5>1. i \in touched
          BY <2>1, <2>6, <3>1, <4>1 DEF touched
        <5> QED
          BY <2>2, <2>3, <2>4, <2>6, <3>1, <5>1
      <4>2. CASE i \notin s.outs["primary"].muted
        BY <2>2, <2>3, <2>4, <2>6, <4>2
      <4> QED
        BY <4>1, <4>2
    <3>2. CASE o # "primary"
      <4>1. new["primary"].muted = s.outs["primary"].muted
        BY <1>5, <1>6, <3>2
      <4> QED
        BY <2>2, <2>3, <2>4, <2>6, <4>1
    <3> QED
      BY <3>1, <3>2
  <2> QED
    BY <2>5, <2>6
<1>11. MutesCounted(new)
  BY <1>6, <1>10 DEF MutesCounted
<1> QED
  BY <1>7, <1>8, <1>9, <1>11 DEF QuietOuts, MutesShown, new

\* setOutputDevice() on one output.
LEMMA SetOneStaysQuiet ==
    ASSUME NEW s, Object(s), QuietOuts(s.outs), NEW o \in DOMAIN s.outs \ {"dup"},
           NEW device, Fits(o, device)
    PROVE  QuietOuts(SetOne(s, o, device))
<1> DEFINE d == device \cap Supported(o)
           to == [s EXCEPT !.outs[o].device = IF d = {} THEN @ ELSE d]
<1>1. CASE device # {} /\ d = {}
  BY <1>1 DEF SetOne
<1>2. CASE ~(device # {} /\ d = {})
  <2>1. SetOne(s, o, device) = checkDeviceMuteStrategies(to, o, s.outs[o].device)
    BY <1>2 DEF SetOne
  <2>2. DescOK(o, s.outs[o]) /\ DOMAIN s = Fields
    BY DEF Object, OutputsOK
  <2>3. /\ SameButOuts(s, to) /\ DOMAIN to.outs = DOMAIN s.outs
        /\ \A x \in DOMAIN s.outs \ {o} : to.outs[x] = s.outs[x]
    BY <2>2 DEF SameButOuts, Fields
  <2>4. to.outs[o] = [s.outs[o] EXCEPT !.device = IF d = {} THEN @ ELSE d]
    BY <2>2 DEF Fields
  <2>5. /\ DescOK(o, to.outs[o]) /\ to.outs[o].refs = s.outs[o].refs
        /\ to.outs[o].muted = s.outs[o].muted /\ to.outs[o].muteCount = s.outs[o].muteCount
        /\ to.outs[o].device = IF d = {} THEN s.outs[o].device ELSE d
    BY <2>2, <2>4 DEF DescOK, DescFields
  <2> HIDE DEF to
  <2>6. Object(to)
    BY <2>3, <2>5 DEF Object, OutputsOK, SameButOuts, Fields
  <2>7. Thin(d) /\ (o # "primary" => Lone(d))
    <3>1. Thin(d)
      BY DEF Fits, Thin, Lone
    <3>2. o \in {"primary", "lpa", "a2dp"}
      BY DEF Object, OutputsOK, OutputIds, QuietOuts, RoutesThin
    <3>3. o = "a2dp" => Lone(d)
      BY <3>1 DEF Thin, Lone, Supported, Profiles
    <3>4. o = "lpa" => Lone(d)
      BY DEF Fits, Lone, Supported, Profiles
    <3> QED
      BY <3>1, <3>2, <3>3, <3>4
  <2> HIDE DEF d
  <2>8. MusicOnly(to.outs)
    BY <2>3, <2>5 DEF QuietOuts, MusicOnly
  <2>9. RoutesThin(to.outs)
    BY <2>3, <2>5, <2>7 DEF QuietOuts, RoutesThin
  <2>10. "primary" \in DOMAIN s.outs /\ to.outs["primary"].muted = s.outs["primary"].muted
    BY <2>3, <2>5 DEF Object, OutputsOK
  <2>11. MutesCounted(to.outs)
    BY <2>3, <2>5, <2>10 DEF QuietOuts, MutesShown, MutesCounted
  <2>12. HeardOnSpeaker(to.outs["primary"].muted,
                IF o = "primary" THEN s.outs[o].device ELSE to.outs["primary"].device)
    BY <2>3, <2>10 DEF QuietOuts, MutesShown
  <2>13. o \in DOMAIN to.outs
    BY <2>3
  <2> QED
    BY <2>1, <2>6, <2>8, <2>9, <2>11, <2>12, <2>13, MutesStayShown
<1> QED
  BY <1>1, <1>2


LEMMA RouteOneStaysQuiet ==
    ASSUME NEW s, Object(s), Quiet(s), NEW o \in DOMAIN s.outs \ {"dup"},
           NEW device, Fits(o, device)
    PROVE  Quiet(RouteOne(s, o, device))
<1>1. QuietOuts(SetOne(s, o, device)) /\ OutputsOK(SetOne(s, o, device))
  BY SetOneStaysQuiet, SetOneReroutes DEF Quiet
<1>2. /\ RouteOne(s, o, device).outs = SetOne(s, o, device)
      /\ RouteOne(s, o, device).cache = s.cache
  BY <1>1, OtherOuts DEF RouteOne, SameButOuts, Fields
<1> QED
  BY <1>1, <1>2 DEF Quiet, CacheThin

\* setOutputDevice(): a duplicating output passes its device to both its outputs.
LEMMA RouteOutputStaysQuiet ==
    ASSUME NEW s, Object(s), Quiet(s), NEW o \in DOMAIN s.outs, NEW device, Fits(o, device)
    PROVE  Quiet(RouteOutput(s, o, device))
<1>1. CASE o # "dup"
  BY <1>1, RouteOneStaysQuiet DEF RouteOutput
<1>2. CASE o = "dup"
  <2> DEFINE t == RouteOne(s, "primary", device)
  <2>1. "primary" \in DOMAIN s.outs \ {"dup"} /\ "a2dp" \in DOMAIN s.outs \ {"dup"}
    BY <1>2 DEF Object, OutputsOK
  <2>2. Fits("primary", device) /\ Fits("a2dp", device)
    BY DEF Fits
  <2>3. Rerouted(s, t) /\ Quiet(t)
    BY <2>1, <2>2, RouteOneReroutes, RouteOneStaysQuiet
  <2> HIDE DEF t
  <2>4. Object(t) /\ "a2dp" \in DOMAIN t.outs \ {"dup"}
    BY <2>1, <2>3 DEF Rerouted, SameOutputs
  <2>5. Quiet(RouteOne(t, "a2dp", device))
    BY <2>2, <2>3, <2>4, RouteOneStaysQuiet
  <2> QED
    BY <1>2, <2>5 DEF RouteOutput, t
<1> QED
  BY <1>1, <1>2

\* getNewDevice(): the device of a strategy that routes; of a low-power output,
\* that of media or of the phone.
LEMMA NewDevicesFit ==
    ASSUME NEW s, Object(s), Quiet(s), NEW o \in DOMAIN s.outs
    PROVE  Fits(o, getNewDevice(s, o)) /\ Fits(o, getNewDeviceFromCache(s, o))
<1> DEFINE i == RoutingStrategy(s, o)
           active == {j \in Strategies : StrategyActive(s.outs[o], j)}
<1>1. i \in Routing \cup {NoStrategy}
  BY DEF RoutingStrategy, Routing
<1>2. o = "lpa" => i # "SONIFICATION"
  <2> SUFFICES ASSUME o = "lpa" PROVE i # "SONIFICATION"
    OBVIOUS
  <2>1. \A z \in Streams : z # "MUSIC" => s.outs[o].refs[z] = 0
    BY DEF Quiet, QuietOuts, MusicOnly
  <2>2. "SONIFICATION" \notin active
    BY <2>1 DEF StrategyActive, getStrategy
  <2> QED
    BY <2>2 DEF RoutingStrategy, NoStrategy
<1> HIDE DEF i
<1>3. ASSUME i \in Routing
      PROVE  Routable(getDeviceForStrategy(s, i), i) /\ Routable(s.cache[i], i)
  BY <1>3, DevicesAreRoutable DEF Quiet, CacheThin
<1>4. ASSUME NEW device, i \in Routing, Routable(device, i) PROVE Fits(o, device)
  BY <1>2, <1>4 DEF Routable, Routing, Fits, Lone
<1>5. Fits(o, {})
  BY DEF Fits, Thin, Lone
<1>6. CASE i = NoStrategy
  BY <1>5, <1>6 DEF getNewDevice, getNewDeviceFromCache, i
<1>7. CASE i # NoStrategy
  <2>1. i \in Routing
    BY <1>1, <1>7
  <2>2. getNewDevice(s, o) = getDeviceForStrategy(s, i) /\ getNewDeviceFromCache(s, o) = s.cache[i]
    BY <1>7 DEF getNewDevice, getNewDeviceFromCache, i
  <2> QED
    BY <1>3, <1>4, <2>1, <2>2
<1> QED
  BY <1>6, <1>7

\* The outputs routed in turn, by getNewDevice and from the cache.
LEMMA StepStaysQuiet ==
    ASSUME NEW s, NEW t, Rerouted(s, t), Quiet(t), NEW ids \in SUBSET DOMAIN s.outs, NEW o
    PROVE  /\ Quiet(IF o \in ids THEN RouteOutput(t, o, getNewDevice(t, o)) ELSE t)
           /\ Quiet(IF o \in ids THEN RouteOutput(t, o, getNewDeviceFromCache(t, o)) ELSE t)
<1>1. CASE o \in ids
  <2>1. Object(t) /\ o \in DOMAIN t.outs
    BY <1>1 DEF Rerouted, SameOutputs
  <2>2. Fits(o, getNewDevice(t, o)) /\ Fits(o, getNewDeviceFromCache(t, o))
    BY <2>1, NewDevicesFit
  <2>3. /\ Quiet(RouteOutput(t, o, getNewDevice(t, o)))
        /\ Quiet(RouteOutput(t, o, getNewDeviceFromCache(t, o)))
    BY <2>1, <2>2, RouteOutputStaysQuiet
  <2> QED
    BY <1>1, <2>3
<1> QED
  BY <1>1

LEMMA RouteAllStaysQuiet ==
    ASSUME NEW s, Object(s), Quiet(s), NEW ids \in SUBSET DOMAIN s.outs
    PROVE  Quiet(RouteAll(s, ids, getNewDevice))
<1> DEFINE Route(x, o) == IF o \in ids THEN RouteOutput(x, o, getNewDevice(x, o)) ELSE x
           Fine(x) == Rerouted(s, x) /\ Quiet(x)
<1>1. \A x, o : Fine(x) => Fine(Route(x, o))
  BY StepReroutes, StepStaysQuiet
<1>2. RouteAll(s, ids, getNewDevice) =
        Route(Route(Route(Route(Route(s, "primary"), "voip"), "lpa"), "a2dp"), "dup")
  BY DEF RouteAll
<1>3. Fine(s)
  BY ReroutedIsPreorder
<1>4. \A x : Fine(x) => Quiet(x)
  OBVIOUS
<1> HIDE DEF Route, Fine
<1> QED
  BY <1>1, <1>2, <1>3, <1>4

LEMMA RouteFromCacheStaysQuiet ==
    ASSUME NEW s, Object(s), Quiet(s)
    PROVE  Quiet(RouteFromCache(s))
<1> DEFINE ids == DOMAIN s.outs
           Route(x, o) == IF o \in ids THEN RouteOutput(x, o, getNewDeviceFromCache(x, o)) ELSE x
           Fine(x) == Rerouted(s, x) /\ Quiet(x)
<1>1. \A x, o : Fine(x) => Fine(Route(x, o))
  BY StepReroutes, StepStaysQuiet
<1>2. RouteFromCache(s) =
        Route(Route(Route(Route(Route(s, "primary"), "voip"), "lpa"), "a2dp"), "dup")
  BY DEF RouteFromCache, RouteAll
<1>3. Fine(s)
  BY ReroutedIsPreorder
<1>4. \A x : Fine(x) => Quiet(x)
  OBVIOUS
<1> HIDE DEF Route, Fine
<1> QED
  BY <1>1, <1>2, <1>3, <1>4


-----------------------------------------------------------------------------
(* What leaves the mutes alone.                                            *)

\* new has outputs of outs, with their devices and mutes.
Silent(outs, new) ==
    /\ DOMAIN new \subseteq DOMAIN outs /\ "primary" \in DOMAIN new
    /\ \A x \in DOMAIN new :
        /\ new[x].device = outs[x].device /\ new[x].muted = outs[x].muted
        /\ \A i \in Heard : new[x].muteCount[i] = outs[x].muteCount[i]
    /\ "lpa" \in DOMAIN new =>
         \A z \in Streams \ {"MUSIC"} : new["lpa"].refs[z] = outs["lpa"].refs[z]

LEMMA SilentStaysQuiet ==
    ASSUME NEW s, Quiet(s), NEW t, t.cache = s.cache, Silent(s.outs, t.outs)
    PROVE  Quiet(t)
<1>1. MusicOnly(t.outs) /\ RoutesThin(t.outs)
  BY DEF Quiet, QuietOuts, MusicOnly, RoutesThin, Silent
<1>2. MutesShown(t.outs)
  BY DEF Quiet, QuietOuts, MutesShown, MutesCounted, Silent
<1> QED
  BY <1>1, <1>2 DEF Quiet, QuietOuts, CacheThin

LEMMA SameOutsStayQuiet ==
    ASSUME NEW s, Quiet(s), NEW t, t.outs = s.outs, t.cache = s.cache
    PROVE  Quiet(t)
BY DEF Quiet, CacheThin

LEMMA UpdateStaysQuiet ==
    ASSUME NEW s, Object(s), Quiet(s)
    PROVE  Quiet(updateDevicesAndOutputs(s))
<1> DEFINE t == updateDevicesAndOutputs(s)
<1>1. DOMAIN s = Fields
  BY DEF Object
<1>2. t.outs = s.outs /\ \A i \in Routing : t.cache[i] = getDeviceForStrategy(PhoneCached(s), i)
  BY <1>1 DEF updateDevicesAndOutputs, Fields, Routing, Strategies
<1> HIDE DEF t
<1>3. CacheThin(t)
  BY <1>2, DevicesAreRoutable DEF CacheThin
<1> QED
  BY <1>2, <1>3 DEF Quiet, t

LEMMA SuspendStaysQuiet ==
    ASSUME NEW s, Object(s), Quiet(s)
    PROVE  Quiet(checkA2dpSuspend(s))
<1> DEFINE t == checkA2dpSuspend(s)
<1>1. t.outs = s.outs /\ t.cache = s.cache
  BY SuspendKeeps DEF Fields
<1> QED
  BY <1>1, SameOutsStayQuiet

LEMMA InputsStayQuiet ==
    ASSUME NEW s, Object(s), Quiet(s), NEW device
    PROVE  /\ Quiet(RouteInput(s))
           /\ Quiet(PlugInput(s, device)) /\ Quiet(UnplugInput(s, device))
<1>1. ASSUME NEW x, DOMAIN x = Fields, x.outs = s.outs, x.cache = s.cache
      PROVE  RouteInput(x).outs = s.outs /\ RouteInput(x).cache = s.cache
  BY <1>1 DEF RouteInput, Fields
<1>2. DOMAIN s = Fields
  BY DEF Object
<1>3. \A in : /\ DOMAIN [s EXCEPT !.in = in] = Fields
              /\ [s EXCEPT !.in = in].outs = s.outs /\ [s EXCEPT !.in = in].cache = s.cache
  BY <1>2 DEF Fields
<1>4. Quiet(RouteInput(s))
  BY <1>1, <1>2, SameOutsStayQuiet
<1>5. \A in : Quiet(RouteInput([s EXCEPT !.in = in]))
  BY <1>1, <1>3, SameOutsStayQuiet
<1> QED
  BY <1>4, <1>5 DEF PlugInput, UnplugInput

LEMMA CloseIsSilent ==
    ASSUME NEW outs, OutputsOK(outs), NEW o \in {"voip", "lpa", "a2dp"}
    PROVE  Silent(outs, closeOutput(outs, o))
<1> DEFINE gone == IF o = "a2dp" THEN {"a2dp", "dup"} ELSE {o}
           new == closeOutput(outs, o)
<1>1. /\ DOMAIN new = DOMAIN outs \ gone
      /\ \A x \in DOMAIN new :
           new[x] = [outs[x] EXCEPT !.refs = LeftRefs(outs, o, x)]
  BY DEF closeOutput, LeftRefs
<1>2. \A x \in DOMAIN outs : DOMAIN outs[x] = DescFields
  BY DEF OutputsOK, DescOK
<1> HIDE DEF new
<1>3. \A x \in DOMAIN new :
        /\ x \in DOMAIN outs
        /\ new[x].device = outs[x].device /\ new[x].muted = outs[x].muted
        /\ new[x].muteCount = outs[x].muteCount /\ new[x].refs = LeftRefs(outs, o, x)
  BY <1>1, <1>2 DEF DescFields
<1>4. "primary" \in DOMAIN new
  BY <1>1 DEF OutputsOK
<1>5. \A z \in Streams : LeftRefs(outs, o, "lpa")[z] = outs["lpa"].refs[z]
  BY DEF LeftRefs
<1> QED
  BY <1>3, <1>4, <1>5 DEF Silent, new

LEMMA CountIsSilent ==
    ASSUME NEW outs, OutputsOK(outs), NEW o \in DOMAIN outs, NEW stream, NEW delta,
           o = "lpa" => stream = "MUSIC"
    PROVE  Silent(outs, changeRefCount(outs, o, stream, delta))
<1> DEFINE new == changeRefCount(outs, o, stream, delta)
           Sum(n) == IF n + delta < 0 THEN 0 ELSE n + delta
<1>1. /\ DOMAIN new = DOMAIN outs
      /\ \A x \in DOMAIN outs :
           new[x] = IF x \in Counting(o) THEN [outs[x] EXCEPT !.refs[stream] = Sum(@)] ELSE outs[x]
  BY DEF changeRefCount, Counting
<1>2. \A x \in DOMAIN outs : DOMAIN outs[x] = DescFields /\ DOMAIN outs[x].refs = Streams
  BY DEF OutputsOK, DescOK
<1> HIDE DEF new, Sum
<1>3. \A x \in DOMAIN new :
        /\ new[x].device = outs[x].device /\ new[x].muted = outs[x].muted
        /\ new[x].muteCount = outs[x].muteCount
        /\ \A z \in Streams \ {stream} : new[x].refs[z] = outs[x].refs[z]
  BY <1>1, <1>2 DEF DescFields
<1>4. "primary" \in DOMAIN new
  BY <1>1 DEF OutputsOK
<1>5. "lpa" \in DOMAIN new => \A z \in Streams \ {"MUSIC"} : new["lpa"].refs[z] = outs["lpa"].refs[z]
  <2>1. CASE o = "lpa"
    BY <1>3, <2>1
  <2>2. CASE o # "lpa"
    <3>1. "lpa" \in DOMAIN new => new["lpa"] = outs["lpa"]
      BY <1>1, <2>2 DEF Counting
    <3> QED
      BY <3>1
  <2> QED
    BY <2>1, <2>2
<1> QED
  BY <1>1, <1>3, <1>4, <1>5 DEF Silent, new


-----------------------------------------------------------------------------
(* Devices and forced uses.                                                *)

LEMMA RerouteStaysQuiet ==
    ASSUME NEW s, Reroutable(s), Quiet(s), NEW newDevice, Fits("primary", newDevice), NEW closed
    PROVE  Quiet(Reroute(s, newDevice, closed))
<1> DEFINE a == RouteOutput(s, "primary", newDevice)
           b == checkA2dpSuspend(a)
           c == CloseA2dp(b, closed)
           d == updateDevicesAndOutputs(c)
<1> USE DEF Reroutable
<1>1. "primary" \in DOMAIN s.outs
  BY DEF Object, OutputsOK
<1>2. Rerouted(s, a) /\ Quiet(a)
  BY <1>1, RouteOutputReroutes, RouteOutputStaysQuiet
<1> HIDE DEF a
<1>3. Object(b) /\ Quiet(b) /\ b.outs = a.outs
  BY <1>2, SuspendKeeps, SuspendStaysQuiet DEF Rerouted, Fields
<1> HIDE DEF b
<1>4. DupCounted(b.outs)
  BY <1>1, <1>2, <1>3 DEF DupCounted, Rerouted, SameOutputs
<1>5. Object(c) /\ Quiet(c)
  <2>1. CASE closed
    <3> DEFINE outs == closeOutput(b.outs, "a2dp")
    <3>1. OutputsOK(b.outs)
      BY <1>3 DEF Object
    <3>2. OutputsOK(outs)
      BY <1>4, <3>1, CloseOutputHolds
    <3>3. Silent(b.outs, outs)
      BY <3>1, CloseIsSilent
    <3>4. c = [b EXCEPT !.outs = outs]
      BY <1>3, <2>1 DEF CloseA2dp
    <3> HIDE DEF outs, c
    <3>5. Object(c) /\ SameButOuts(b, c) /\ c.outs = outs
      BY <1>3, <3>2, <3>4, OtherOuts
    <3> QED
      BY <1>3, <3>3, <3>5, SilentStaysQuiet DEF SameButOuts, Fields
  <2>2. CASE ~closed
    BY <1>3, <2>2 DEF CloseA2dp
  <2> QED
    BY <2>1, <2>2
<1> HIDE DEF c
<1>6. Object(d) /\ Quiet(d)
  BY <1>5, UpdateRefreshes, UpdateStaysQuiet
<1> HIDE DEF d
<1>7. Quiet(RouteFromCache(d))
  BY <1>6, RouteFromCacheStaysQuiet
<1> QED
  BY <1>7 DEF Reroute, d, c, b, a

LEMMA ForcedStaysQuiet ==
    ASSUME NEW s, Object(s), Quiet(s), NEW usage \in Usages, NEW config
    PROVE  Quiet(Forced(s, usage, config))
<1> DEFINE a == StoreForceUse(s, usage, config)
           b == checkA2dpSuspend(a)
           c == updateDevicesAndOutputs(b)
           d == RouteFromCache(c)
<1>1. DOMAIN s = Fields /\ DOMAIN s.force = Usages
  BY DEF Object
<1>2. /\ DOMAIN a = Fields /\ \A f \in Fields \ {"force", "pending"} : a[f] = s[f]
      /\ DOMAIN a.force = Usages
      /\ a.pending = IF usage = "MEDIA" THEN FALSE ELSE s.pending
  BY <1>1 DEF StoreForceUse, Fields
<1> HIDE DEF a
<1>3. /\ a.avail = s.avail /\ a.fm = s.fm /\ a.suspended = s.suspended /\ a.outs = s.outs
      /\ a.cache = s.cache /\ a.input = s.input
  BY <1>2 DEF Fields
<1>4. a.pending \in BOOLEAN
  BY <1>2 DEF Object
<1>5. Object(a)
  BY <1>2, <1>3, <1>4 DEF Object
<1>6. Quiet(a)
  BY <1>3, SameOutsStayQuiet
<1>7. Object(b) /\ Quiet(b)
  BY <1>5, <1>6, SuspendKeeps, SuspendStaysQuiet
<1> HIDE DEF b
<1>8. Object(c) /\ Quiet(c)
  BY <1>7, UpdateRefreshes, UpdateStaysQuiet
<1> HIDE DEF c
<1>9. Object(d) /\ Quiet(d)
  BY <1>8, RouteFromCacheReroutes, RouteFromCacheStaysQuiet DEF Rerouted
<1> HIDE DEF d
<1>10. Quiet(RouteInput(d))
  BY <1>9, InputsStayQuiet
<1> QED
  BY <1>10 DEF Forced, d, c, b, a

LEMMA setForceUseStaysQuiet ==
    ASSUME NEW s, Object(s), Quiet(s), NEW usage \in Usages, NEW config
    PROVE  Quiet(setForceUse(s, usage, config))
<1>1. Quiet([s EXCEPT !.pending = TRUE])
  <2> DEFINE t == [s EXCEPT !.pending = TRUE]
  <2>1. t.outs = s.outs /\ t.cache = s.cache
    BY DEF Object, Fields
  <2> QED
    BY <2>1, SameOutsStayQuiet
<1>2. Quiet(Forced(s, usage, config))
  BY ForcedStaysQuiet
<1> QED
  BY <1>1, <1>2 DEF setForceUse

\* A new output is of one device, and mutes nothing.
LEMMA OpenedStaysQuiet ==
    ASSUME NEW s, OutputsOK(s.outs), Quiet(s), NEW t, t.cache = s.cache,
           DOMAIN s.outs \subseteq DOMAIN t.outs, "voip" \notin DOMAIN t.outs,
           \A x \in DOMAIN s.outs : t.outs[x] = s.outs[x],
           \A x \in DOMAIN t.outs \ DOMAIN s.outs :
              /\ Lone(t.outs[x].device) /\ t.outs[x].muted = {}
              /\ t.outs[x].refs = NoRefs
              /\ t.outs[x].muteCount = [i \in Strategies |-> 0]
    PROVE  Quiet(t)
<1>1. "primary" \in DOMAIN s.outs
  BY DEF OutputsOK
<1>2. MusicOnly(t.outs)
  BY DEF Quiet, QuietOuts, MusicOnly, NoRefs
<1>3. RoutesThin(t.outs)
  BY <1>1 DEF Quiet, QuietOuts, RoutesThin, Lone, Thin
<1>4. MutesShown(t.outs)
  <2>1. \A i \in Heard : i \in Strategies
    BY DEF Heard, Strategies
  <2> QED
    BY <1>1, <2>1 DEF Quiet, QuietOuts, MutesShown, MutesCounted
<1> QED
  BY <1>2, <1>3, <1>4 DEF Quiet, QuietOuts, CacheThin

LEMMA FmCountStaysQuiet ==
    ASSUME NEW s, Object(s), Quiet(s), NEW device, NEW delta
    PROVE  Quiet(changeFmRefCount(s, device, delta))
<1> DEFINE outs == changeRefCount(s.outs, "primary", "MUSIC", delta)
           t == changeFmRefCount(s, device, delta)
<1>1. OutputsOK(s.outs) /\ DOMAIN s = Fields /\ "primary" \in DOMAIN s.outs
  BY DEF Object, OutputsOK
<1>2. CASE device = "FM"
  <2>1. Silent(s.outs, outs)
    BY <1>1, CountIsSilent
  <2>2. t = [s EXCEPT !.outs = outs]
    BY <1>2 DEF changeFmRefCount
  <2> HIDE DEF outs, t
  <2>3. t.outs = outs /\ t.cache = s.cache
    BY <1>1, <2>2 DEF Fields
  <2> QED
    BY <2>1, <2>3, SilentStaysQuiet DEF t
<1>3. CASE device # "FM"
  BY <1>3 DEF changeFmRefCount
<1> QED
  BY <1>2, <1>3

LEMMA ConnectStaysQuiet ==
    ASSUME NEW s, NEW device \in Connectable, NEW analog \in BOOLEAN, NEW opens \in BOOLEAN,
           NEW st, NEW config, PolicyOK(s, config, st), Quiet(s)
    PROVE  Quiet(Connect(s, device, analog, opens))
<1> DEFINE fm == [s EXCEPT !.fm = FmModeOnConnect(s, device, analog)]
           needs == device \in Profiles.a2dp /\ "a2dp" \notin DOMAIN s.outs
           a == Available(fm, device)
           b == changeFmRefCount(a, device, 1)
           c == RouteConnected(b, device)
           t == Connect(s, device, analog, opens)
<1>1. DOMAIN s = Fields /\ OutputsOK(s.outs)
  BY DEF PolicyOK, Good, Object
<1>2. fm.outs = s.outs /\ fm.cache = s.cache
  BY <1>1 DEF Fields
<1>3. Quiet(fm)
  BY <1>2, SameOutsStayQuiet
<1>4. CASE device = "FM" /\ s.fm # "FM_NONE"
  BY <1>4 DEF Connect
<1>5. CASE ~(device = "FM" /\ s.fm # "FM_NONE") /\ (device \in s.avail \/ (needs /\ ~opens))
  BY <1>3, <1>5 DEF Connect
<1>6. CASE ~(device = "FM" /\ s.fm # "FM_NONE") /\ ~(device \in s.avail \/ (needs /\ ~opens))
  <2>1. t = PlugInput(c, device)
    BY <1>6 DEF Connect
  <2> HIDE DEF t, fm
  <2>2. device \notin s.avail
    BY <1>6
  <2>3. MadeAvailable(s, a, device)
    BY <1>6, <2>2, AvailableHolds DEF fm, PolicyOK
  <2> HIDE DEF a
  <2>4. Reroutable(b)
    BY <2>2, <2>3, ConnectedHolds DEF MadeAvailable, PolicyOK
  <2>5. Quiet(a)
    <3>1. a.outs = checkOutputsForDevice(s, device) /\ a.cache = s.cache
      BY <2>3 DEF MadeAvailable, Fields
    <3>2. \A d : /\ NewOutput(d).device = d /\ NewOutput(d).muted = {}
                 /\ NewOutput(d).refs = NoRefs
                 /\ NewOutput(d).muteCount = [i \in Strategies |-> 0]
      BY DEF NewOutput
    <3>3. Lone({}) /\ Lone({device})
      BY DEF Lone
    <3>4. "voip" \notin DOMAIN s.outs
      BY DEF Quiet, QuietOuts, RoutesThin
    <3>5. CASE needs
      <4>1. a.outs = Opened(Opened(s.outs, "a2dp", NewOutput({device})), "dup", NewOutput({}))
        BY <3>1, <3>5 DEF checkOutputsForDevice
      <4>2. "a2dp" \notin DOMAIN s.outs /\ "dup" \notin DOMAIN s.outs
        BY <1>1, <3>5 DEF OutputsOK
      <4>3. /\ DOMAIN a.outs = DOMAIN s.outs \cup {"a2dp", "dup"}
            /\ \A x \in DOMAIN s.outs : a.outs[x] = s.outs[x]
            /\ a.outs["a2dp"] = NewOutput({device}) /\ a.outs["dup"] = NewOutput({})
        BY <4>1, <4>2 DEF Opened
      <4>4. \A x \in DOMAIN a.outs \ DOMAIN s.outs :
              /\ Lone(a.outs[x].device) /\ a.outs[x].muted = {}
              /\ a.outs[x].refs = NoRefs
              /\ a.outs[x].muteCount = [i \in Strategies |-> 0]
        BY <3>2, <3>3, <4>3
      <4> QED
        BY <1>1, <3>1, <3>4, <4>3, <4>4, OpenedStaysQuiet
    <3>6. CASE ~needs
      <4>1. a.outs = s.outs
        BY <3>1, <3>6 DEF checkOutputsForDevice
      <4> QED
        BY <3>1, <4>1, SameOutsStayQuiet
    <3> QED
      BY <3>5, <3>6
  <2>6. Quiet(b)
    BY <2>3, <2>5, FmCountStaysQuiet DEF MadeAvailable
  <2> HIDE DEF b
  <2>7. Object(b) /\ "primary" \in DOMAIN b.outs
    BY <2>4 DEF Reroutable, Object, OutputsOK
  <2>8. Fits("primary", getNewDevice(b, "primary") \cup ({device} \cap {"FM"}))
    <3>1. Fits("primary", getNewDevice(b, "primary"))
      BY <2>6, <2>7, NewDevicesFit
    <3> QED
      BY <3>1 DEF Fits, Thin, Lone
  <2>9. Quiet(c)
    BY <2>4, <2>6, <2>8, RerouteStaysQuiet DEF RouteConnected
  <2>10. Object(c)
    <3>1. AllRerouted(b, c, FALSE)
      BY <2>4, RerouteHolds DEF RouteConnected, Reroutable
    <3> QED
      BY <3>1 DEF AllRerouted
  <2> HIDE DEF c
  <2>11. Quiet(PlugInput(c, device))
    BY <2>9, <2>10, InputsStayQuiet
  <2> QED
    BY <2>1, <2>11 DEF t
<1> QED
  BY <1>4, <1>5, <1>6

LEMMA FmOffStaysQuiet ==
    ASSUME NEW s, Object(s), SourceOK(s), Quiet(s)
    PROVE  Quiet(FmOff(s))
<1> DEFINE none == [s EXCEPT !.fm = "FM_NONE"]
           a == IF s.pending THEN setForceUse(none, "MEDIA", "NONE") ELSE none
<1>1. DOMAIN s = Fields
  BY DEF Object
<1>2. DOMAIN none = Fields /\ none.fm = "FM_NONE" /\ \A f \in Fields \ {"fm"} : none[f] = s[f]
  BY <1>1 DEF Fields
<1> HIDE DEF none
<1>3. /\ none.avail = s.avail /\ none.force = s.force /\ none.suspended = s.suspended
      /\ none.outs = s.outs /\ none.cache = s.cache /\ none.pending = s.pending
      /\ none.input = s.input
  BY <1>2 DEF Fields
<1>4. Object(none) /\ Quiet(none)
  BY <1>2, <1>3, SameOutsStayQuiet DEF Object
<1>5. SourceOK(none)
  BY <1>3 DEF SourceOK
<1>6. Object(a) /\ Quiet(a)
  <2>1. "MEDIA" \in Usages
    BY DEF Usages
  <2>2. setForceUse(none, "MEDIA", "NONE") = Forced(none, "MEDIA", "NONE")
    BY <1>2 DEF setForceUse, Deferred, Accepts
  <2>3. ForcedTo(none, Forced(none, "MEDIA", "NONE"), "MEDIA", "NONE")
    BY <1>4, <1>5, <2>1, ForcedHolds
  <2>4. Quiet(Forced(none, "MEDIA", "NONE"))
    BY <1>4, <2>1, ForcedStaysQuiet
  <2> QED
    BY <1>4, <2>2, <2>3, <2>4 DEF ForcedTo
<1> HIDE DEF a
<1>7. FmOff(s) = RestoreCodec(a)
  BY DEF FmOff, a, none
<1>8. Fits("primary", {"WIRED_HEADSET"})
  BY DEF Fits, Thin, Lone
<1>9. "primary" \in DOMAIN a.outs
  BY <1>6 DEF Object, OutputsOK
<1>10. Quiet(RouteOutput(a, "primary", {"WIRED_HEADSET"}))
  BY <1>6, <1>8, <1>9, RouteOutputStaysQuiet
<1> QED
  BY <1>6, <1>7, <1>10 DEF RestoreCodec

LEMMA DisconnectedStaysQuiet ==
    ASSUME NEW e, Object(e), Quiet(e), NEW device,
           Reroutable(changeFmRefCount(Unavailable(e, device), device, -1))
    PROVE  Quiet(Disconnected(e, device))
<1> DEFINE a == Unavailable(e, device)
           b == changeFmRefCount(a, device, -1)
           closed == "a2dp" \in DOMAIN a.outs /\ a.avail \cap Profiles.a2dp = {}
           c == RouteDisconnected(a, device)
           t == Disconnected(e, device)
<1>1. CASE device \notin e.avail
  BY <1>1 DEF Disconnected
<1>2. CASE device \in e.avail
  <2>1. /\ DOMAIN a = Fields /\ a.avail = e.avail \ {device}
        /\ a.suspended = IF device \in Profiles.a2dp THEN FALSE ELSE e.suspended
        /\ \A f \in Fields \ {"avail", "suspended"} : a[f] = e[f]
    BY DEF Object, Unavailable, Fields
  <2>2. t = UnplugInput(c, device)
    BY <1>2 DEF Disconnected
  <2>3. Reroutable(b)
    OBVIOUS
  <2> HIDE DEF a, t
  <2>4. /\ a.force = e.force /\ a.fm = e.fm /\ a.outs = e.outs /\ a.cache = e.cache
        /\ a.pending = e.pending /\ a.input = e.input /\ a.suspended \in BOOLEAN
    BY <2>1 DEF Fields, Object
  <2>5. Object(a) /\ Quiet(a)
    BY <2>1, <2>4, SameOutsStayQuiet DEF Object
  <2>6. Quiet(b)
    BY <2>5, FmCountStaysQuiet
  <2>7. Fits("primary", getNewDevice(a, "primary"))
    BY <2>5, NewDevicesFit DEF Object, OutputsOK
  <2>8. c = Reroute(b, getNewDevice(a, "primary"), closed)
    BY DEF RouteDisconnected
  <2> HIDE DEF b, closed, c
  <2>9. Quiet(c)
    BY <2>3, <2>6, <2>7, <2>8, RerouteStaysQuiet
  <2>10. AllRerouted(b, c, closed)
    BY <2>3, <2>8, RerouteHolds DEF Reroutable
  <2>11. Quiet(UnplugInput(c, device))
    BY <2>9, <2>10, InputsStayQuiet DEF AllRerouted
  <2> QED
    BY <2>2, <2>11 DEF t
<1> QED
  BY <1>1, <1>2

LEMMA DisconnectStaysQuiet ==
    ASSUME NEW s, NEW device, NEW config, NEW st, PolicyOK(s, config, st), Quiet(s)
    PROVE  Quiet(Disconnect(s, device))
<1> DEFINE u == FmOff(s)
           e == IF device = "FM" THEN u ELSE s
<1> USE DEF PolicyOK
<1>1. Object(s) /\ SourceOK(s)
  BY DEF Good, InputOn, SourceOK
<1>2. Quiet(u)
  BY <1>1, FmOffStaysQuiet
<1>3. /\ Object(u) /\ InputOn(u) /\ u.fm = "FM_NONE" /\ u.avail = s.avail
      /\ SameOutputs(s.outs, u.outs) /\ Remembered(u, config)
  BY FmOffHolds
<1>4. Disconnect(s, device) = Disconnected(e, device)
  BY DEF Disconnect
<1> HIDE DEF u
<1>5. /\ Object(e) /\ InputOn(e) /\ e.avail = s.avail /\ SameOutputs(s.outs, e.outs)
      /\ Remembered(e, config) /\ e.fm = (IF device = "FM" THEN "FM_NONE" ELSE s.fm)
  BY <1>3 DEF Good, SameOutputs
<1>6. Quiet(e)
  BY <1>2
<1> HIDE DEF e
<1>7. CASE device \in e.avail
  <2>1. Reroutable(changeFmRefCount(Unavailable(e, device), device, -1))
    BY <1>5, <1>7, DisconnectedHolds
  <2> QED
    BY <1>4, <1>5, <1>6, <2>1, DisconnectedStaysQuiet
<1>8. CASE device \notin e.avail
  BY <1>4, <1>6, <1>8 DEF Disconnected
<1> QED
  BY <1>7, <1>8

-----------------------------------------------------------------------------
(* The phone.                                                              *)

LEMMA RingMutesStayQuiet ==
    ASSUME NEW s, Object(s), Quiet(s), NEW n
    PROVE  Quiet([s EXCEPT !.outs["primary"].muteCount["SONIFICATION"] = n])
<1> DEFINE old == s.outs["primary"]
           new == [old EXCEPT !.muteCount["SONIFICATION"] = n]
           outs == [s.outs EXCEPT !["primary"] = new]
           t == [s EXCEPT !.outs["primary"].muteCount["SONIFICATION"] = n]
<1>1. DOMAIN s = Fields /\ "primary" \in DOMAIN s.outs /\ DescOK("primary", old)
  BY DEF Object, OutputsOK
<1>2. t = [s EXCEPT !.outs = outs]
  BY <1>1 DEF Fields, DescOK, DescFields
<1>3. /\ new.device = old.device /\ new.refs = old.refs /\ new.muted = old.muted
      /\ new.muteCount = [old.muteCount EXCEPT !["SONIFICATION"] = n]
  BY <1>1 DEF DescOK, DescFields
<1> HIDE DEF new, t
<1>4. \A i \in Heard : new.muteCount[i] = old.muteCount[i]
  BY <1>1, <1>3 DEF DescOK, Heard, Strategies
<1>5. /\ DOMAIN outs = DOMAIN s.outs /\ outs["primary"] = new
      /\ \A x \in DOMAIN s.outs \ {"primary"} : outs[x] = s.outs[x]
  BY <1>1
<1>6. t.outs = outs /\ t.cache = s.cache
  BY <1>1, <1>2 DEF Fields
<1> HIDE DEF outs
<1>7. Silent(s.outs, outs)
  BY <1>1, <1>3, <1>4, <1>5 DEF Silent
<1> QED
  BY <1>6, <1>7, SilentStaysQuiet DEF t

LEMMA RingMuteStaysQuiet ==
    ASSUME NEW s, Object(s), Quiet(s), NEW mute
    PROVE  Quiet(RingMute(s, mute))
<1> DEFINE n == s.outs["primary"].muteCount["SONIFICATION"]
<1>1. /\ "primary" \in DOMAIN s.outs /\ DOMAIN s = Fields
      /\ DescOK("primary", s.outs["primary"])
  BY DEF Object, OutputsOK
<1>2. RingMute(s, mute)
        = [s EXCEPT !.outs["primary"].muteCount["SONIFICATION"] = Muted(n, mute)]
  BY <1>1 DEF RingMute, DescOK, DescFields, Fields, Strategies
<1> HIDE DEF n
<1> QED
  BY <1>2, RingMutesStayQuiet

LEMMA SonificationStaysQuiet ==
    ASSUME NEW s, Object(s), Quiet(s), NEW stream, NEW starting, NEW stateChange
    PROVE  Quiet(handleIncallSonification(s, stream, starting, stateChange))
BY RingMutesStayQuiet DEF handleIncallSonification

LEMMA RoutePhoneStaysQuiet ==
    ASSUME NEW s, Object(s), Quiet(s), NEW device, Fits("primary", device), NEW rings
    PROVE  Quiet(RoutePhone(s, device, rings))
<1> DEFINE a == RingMute(s, TRUE)
           b == RouteOutput(a, "primary", device)
           c == RingMute(b, FALSE)
<1>1. \A t : Object(t) => "primary" \in DOMAIN t.outs
  BY DEF Object, OutputsOK
<1>2. Object(a) /\ Quiet(a)
  BY RingMuteReroutes, RingMuteStaysQuiet DEF Rerouted
<1> HIDE DEF a
<1>3. Object(b) /\ Quiet(b)
  BY <1>1, <1>2, RouteOutputReroutes, RouteOutputStaysQuiet DEF Rerouted
<1> HIDE DEF b
<1>4. Quiet(c)
  BY <1>3, RingMuteStaysQuiet
<1>5. Quiet(RouteOutput(s, "primary", device))
  BY <1>1, RouteOutputStaysQuiet
<1> HIDE DEF c
<1> QED
  BY <1>4, <1>5 DEF RoutePhone, c, b, a

LEMMA setPhoneStateStaysQuiet ==
    ASSUME NEW s, NEW phone, Object(s), Quiet(s)
    PROVE  Quiet(setPhoneState(s, phone))
<1> DEFINE left == handleIncallSonification(s, "RING", FALSE, TRUE)
           a == [left EXCEPT !.phone = phone]
           b == checkA2dpSuspend(a)
           c == updateDevicesAndOutputs(b)
           device == PrimaryForPhone(left, phone)
           d == RoutePhone(c, device, IsStateInCall(phone) /\ s.phone = "RINGTONE")
           in == handleIncallSonification(d, "RING", TRUE, TRUE)
           t == setPhoneState(s, phone)
<1>1. t = s \/ t = in \/ t = RouteOthers(in)
  BY DEF setPhoneState, NewPhone
<1>2. Object(left) /\ Quiet(left)
  BY SonificationReroutes, SonificationStaysQuiet DEF Rerouted
<1> HIDE DEF left, t
<1>3. device = OrElse(getNewDevice(a, "primary"),
                      IF isInCall(left) THEN left.outs["primary"].device ELSE {})
  BY DEF PrimaryForPhone
<1>4. DOMAIN a = Fields /\ \A f \in Fields \ {"phone"} : a[f] = left[f]
  BY <1>2 DEF Object, Fields
<1> HIDE DEF a, device
<1>5. /\ a.avail = left.avail /\ a.force = left.force /\ a.fm = left.fm /\ a.outs = left.outs
      /\ a.suspended = left.suspended /\ a.cache = left.cache /\ a.pending = left.pending
      /\ a.input = left.input
  BY <1>4 DEF Fields
<1>6. Object(a) /\ Quiet(a)
  BY <1>2, <1>4, <1>5, SameOutsStayQuiet DEF Object
<1>7. Object(b) /\ Quiet(b)
  BY <1>6, SuspendKeeps, SuspendStaysQuiet
<1> HIDE DEF b
<1>8. Object(c) /\ Quiet(c)
  BY <1>7, UpdateRefreshes, UpdateStaysQuiet
<1> HIDE DEF c
<1>9. Fits("primary", device)
  <2>1. "primary" \in DOMAIN a.outs
    BY <1>6 DEF Object, OutputsOK
  <2>2. Fits("primary", getNewDevice(a, "primary"))
    BY <1>6, <2>1, NewDevicesFit
  <2>3. Thin(left.outs["primary"].device) /\ Thin({})
    BY <1>5, <1>6, <2>1 DEF Quiet, QuietOuts, RoutesThin, Thin, Lone
  <2> QED
    BY <1>3, <2>2, <2>3 DEF OrElse, Fits
<1>10. Object(d) /\ Quiet(d)
  BY <1>8, <1>9, RoutePhoneReroutes, RoutePhoneStaysQuiet DEF Rerouted
<1> HIDE DEF d
<1>11. Object(in) /\ Quiet(in)
  BY <1>10, SonificationReroutes, SonificationStaysQuiet DEF Rerouted
<1> HIDE DEF in
<1>12. Quiet(RouteOthers(in))
  BY <1>11, RouteAllStaysQuiet DEF RouteOthers
<1> QED
  BY <1>1, <1>11, <1>12 DEF t

-----------------------------------------------------------------------------
(* Tracks.                                                                 *)

LEMMA TrackStaysQuiet ==
    ASSUME NEW s, Object(s), Quiet(s), NEW o \in DOMAIN s.outs, NEW stream, NEW delta,
           o = "lpa" => stream = "MUSIC"
    PROVE  Quiet(CountTrack(s, o, stream, delta))
<1> DEFINE outs == changeRefCount(s.outs, o, stream, delta)
           t == CountTrack(s, o, stream, delta)
<1>1. Silent(s.outs, outs)
  BY CountIsSilent DEF Object
<1>2. t.outs = outs /\ t.cache = s.cache
  BY DEF CountTrack, Object, Fields
<1> HIDE DEF outs, t
<1> QED
  BY <1>1, <1>2, SilentStaysQuiet DEF t

LEMMA NotifiedStaysQuiet ==
    ASSUME NEW s, Object(s), Quiet(s), NEW stream
    PROVE  Quiet(handleNotificationRoutingForStream(s, stream))
BY UpdateStaysQuiet DEF handleNotificationRoutingForStream

LEMMA startOutputStaysQuiet ==
    ASSUME NEW s, NEW config, NEW st, PolicyOK(s, config, st), Quiet(s),
           NEW o \in DOMAIN s.outs, NEW stream \in Streams, o = "lpa" => stream = "MUSIC"
    PROVE  Quiet(startOutput(s, o, stream))
<1> DEFINE up == CountTrack(s, o, stream, 1)
           device == StartDevice(s, stream, getNewDevice(up, o))
           a == RouteOutput(up, o, device)
           b == handleIncallSonification(a, stream, TRUE, FALSE)
           c == handleNotificationRoutingForStream(b, stream)
<1>1. startOutput(s, o, stream) = IF up.outs[o].refs[stream] # 1 THEN up ELSE c
  BY DEF startOutput, CountTrack
<1>2. Object(up) /\ o \in DOMAIN up.outs
  BY TrackCounted DEF PolicyOK, Good
<1>3. Quiet(up)
  BY TrackStaysQuiet DEF PolicyOK, Good
<1> HIDE DEF up
<1>4. Fits(o, device)
  <2>1. Fits(o, getNewDevice(up, o))
    BY <1>2, <1>3, NewDevicesFit
  <2>2. stream = "SYSTEM" => Fits(o, {"FM", "WIRED_HEADSET"})
    BY DEF Fits, Thin, Lone
  <2> QED
    BY <2>1, <2>2 DEF StartDevice
<1> HIDE DEF device
<1>5. Object(a) /\ Quiet(a)
  BY <1>2, <1>3, <1>4, RouteOutputReroutes, RouteOutputStaysQuiet DEF Rerouted
<1> HIDE DEF a
<1>6. Object(b) /\ Quiet(b)
  BY <1>5, SonificationReroutes, SonificationStaysQuiet DEF Rerouted
<1> HIDE DEF b
<1>7. Quiet(c)
  BY <1>6, NotifiedStaysQuiet
<1> QED
  BY <1>1, <1>3, <1>7

LEMMA RouteStoppedStaysQuiet ==
    ASSUME NEW s, Object(s), Quiet(s), NEW o \in DOMAIN s.outs, NEW device, Fits(o, device)
    PROVE  LET t == RouteStopped(s, o, device) IN Object(t) /\ Quiet(t)
<1> DEFINE a == RouteOutput(s, o, device)
           SameModule(x) == "dup" \in {x, o} \/ (x = "a2dp") = (o = "a2dp")
           ids == {x \in DOMAIN a.outs \ {o} :
                      /\ IsActive(a.outs[x]) /\ SameModule(x)
                      /\ device # DeviceOf(a.outs, x)}
<1>1. Object(a) /\ Quiet(a)
  BY RouteOutputReroutes, RouteOutputStaysQuiet DEF Rerouted
<1>2. RouteStopped(s, o, device) = RouteAll(a, ids, getNewDevice)
  BY DEF RouteStopped, RouteModule
<1>3. ids \in SUBSET DOMAIN a.outs
  OBVIOUS
<1> HIDE DEF a, ids
<1> QED
  BY <1>1, <1>2, <1>3, RouteAllStaysQuiet, RouteAllReroutes DEF Rerouted

LEMMA stopOutputStaysQuiet ==
    ASSUME NEW s, NEW config, NEW st, PolicyOK(s, config, st), Quiet(s),
           NEW o \in DOMAIN s.outs, NEW stream \in Streams, o = "lpa" => stream = "MUSIC",
           st[o][stream] > 0
    PROVE  Quiet(stopOutput(s, o, stream))
<1> DEFINE unmuted == handleIncallSonification(s, stream, FALSE, FALSE)
           down == CountTrack(unmuted, o, stream, -1)
           a == RouteStopped(down, o, getNewDevice(down, o))
           b == handleNotificationRoutingForStream(a, stream)
<1>1. stopOutput(s, o, stream) \in {unmuted, down, b}
  BY DEF stopOutput, CountTrack
<1>2. Rerouted(s, unmuted) /\ Quiet(unmuted) /\ Fresh(s)
  BY SonificationReroutes, SonificationStaysQuiet DEF PolicyOK, Good
<1>3. PolicyOK(unmuted, config, st)
  <2> HIDE DEF unmuted
  <2> QED
    BY <1>2, ReroutedIsRevised, RevisedHolds
<1> HIDE DEF unmuted
<1>4. o \in DOMAIN unmuted.outs /\ Object(unmuted)
  BY <1>2 DEF Rerouted, SameOutputs
<1>5. Object(down) /\ o \in DOMAIN down.outs
  <2>1. -1 \in {1, -1}
    OBVIOUS
  <2> QED
    BY <1>3, <1>4, <2>1, TrackCounted DEF PolicyOK, Good
<1>6. Quiet(down)
  BY <1>2, <1>4, TrackStaysQuiet
<1> HIDE DEF down
<1>7. Fits(o, getNewDevice(down, o))
  BY <1>5, <1>6, NewDevicesFit
<1>8. Object(a) /\ Quiet(a)
  BY <1>5, <1>6, <1>7, RouteStoppedStaysQuiet
<1> HIDE DEF a
<1>9. Quiet(b)
  BY <1>8, NotifiedStaysQuiet
<1> QED
  BY <1>1, <1>2, <1>6, <1>9


-----------------------------------------------------------------------------
(* Direct outputs.                                                         *)

\* A direct output is the low-power one: no other profile has the flag.
LEMMA DirectIsLowPower ==
    ASSUME NEW s, NEW device, NEW flags, "DIRECT" \in flags,
           NEW o \in getProfileForDirectOutput(s, device, flags)
    PROVE  o = "lpa" /\ device \subseteq Profiles.lpa
<1>1. o \in {"voip", "lpa"} /\ device \subseteq Supported(o)
  BY FitsAreDirect
<1>2. ProfileFlags[o] = {"DIRECT"} \/ ProfileFlags[o] = flags
  BY DEF getProfileForDirectOutput, isCompatibleProfile
<1>3. o # "voip"
  BY <1>2 DEF ProfileFlags
<1> QED
  BY <1>1, <1>3 DEF Supported

LEMMA ShareStaysQuiet ==
    ASSUME NEW s, Object(s), Quiet(s), NEW o \in DOMAIN s.outs
    PROVE  Quiet([s EXCEPT !.outs[o].openCount = @ + 1])
<1> DEFINE shared == [s.outs[o] EXCEPT !.openCount = @ + 1]
           more == [s.outs EXCEPT ![o] = shared]
           t == [s EXCEPT !.outs[o].openCount = @ + 1]
<1>1. DOMAIN s = Fields /\ DescOK(o, s.outs[o]) /\ "primary" \in DOMAIN s.outs
  BY DEF Object, OutputsOK
<1>2. t = [s EXCEPT !.outs = more]
  BY <1>1 DEF Fields
<1>3. /\ shared.device = s.outs[o].device /\ shared.muted = s.outs[o].muted
      /\ shared.muteCount = s.outs[o].muteCount /\ shared.refs = s.outs[o].refs
  BY <1>1 DEF DescOK, DescFields
<1> HIDE DEF shared, t
<1>4. t.outs = more /\ t.cache = s.cache
  BY <1>1, <1>2 DEF Fields
<1>5. Silent(s.outs, more)
  BY <1>1, <1>3 DEF Silent
<1> HIDE DEF more
<1> QED
  BY <1>4, <1>5, SilentStaysQuiet DEF t

LEMMA CloseDirectStaysQuiet ==
    ASSUME NEW s, NEW config, NEW st, PolicyOK(s, config, st), Quiet(s),
           NEW o \in {"voip", "lpa"}
    PROVE  LET t == [s EXCEPT !.outs = closeOutput(s.outs, o)] IN
           Object(t) /\ Quiet(t) /\ DOMAIN t.outs = DOMAIN s.outs \ {o} /\ t.cache = s.cache
<1> DEFINE outs == closeOutput(s.outs, o)
           t == [s EXCEPT !.outs = outs]
<1>1. OutputsOK(outs) /\ DOMAIN outs = DOMAIN s.outs \ {o}
  BY CloseDirectHolds
<1>2. Silent(s.outs, outs)
  BY CloseIsSilent DEF PolicyOK, Good, Object
<1> HIDE DEF outs
<1>3. Object(t) /\ SameButOuts(s, t) /\ t.outs = outs
  BY <1>1, OtherOuts DEF PolicyOK, Good
<1>4. t.cache = s.cache
  BY <1>3 DEF SameButOuts, Fields
<1> HIDE DEF t
<1>5. Quiet(t)
  BY <1>2, <1>3, <1>4, SilentStaysQuiet
<1> QED
  BY <1>1, <1>3, <1>4, <1>5 DEF t, outs

LEMMA DirectOutputStaysQuiet ==
    ASSUME NEW s, NEW config, NEW st, PolicyOK(s, config, st), Quiet(s),
           NEW device, Lone(device \ {"FM"}), NEW request, "DIRECT" \in request.flags,
           NEW opens \in BOOLEAN
    PROVE  Quiet(DirectOutput(s, device, request, opens))
<1> DEFINE fits == getProfileForDirectOutput(s, device, request.flags)
           o == CHOOSE x \in fits : TRUE
           open == o \in DOMAIN s.outs
           cut == IF open THEN closeOutput(s.outs, o) ELSE s.outs
           desc == [NewOutput(device) EXCEPT !.params = request.params, !.openCount = 1]
           outs == IF opens THEN Opened(cut, o, desc) ELSE cut
           closed == [s EXCEPT !.outs = cut]
           t == DirectOutput(s, device, request, opens)
<1>1. DOMAIN s = Fields /\ Object(s)
  BY DEF PolicyOK, Good, Object
<1>2. CASE fits = {}
  BY <1>2 DEF DirectOutput
<1>3. CASE fits # {}
  <2>1. o = "lpa" /\ device \subseteq Profiles.lpa
    <3>1. o \in fits
      BY <1>3
    <3> HIDE DEF o
    <3> QED
      BY <3>1, DirectIsLowPower
  <2>2. Lone(device)
    BY <2>1 DEF Profiles, Lone
  <2>3. CASE open /\ s.outs[o].params = request.params
    <3>1. t = [s EXCEPT !.outs[o].openCount = @ + 1]
      BY <1>3, <2>3 DEF DirectOutput
    <3> HIDE DEF fits, o, t
    <3> QED
      BY <1>1, <2>3, <3>1, ShareStaysQuiet DEF t
  <2>4. CASE ~(open /\ s.outs[o].params = request.params)
    <3>1. t = [s EXCEPT !.outs = outs]
      BY <1>3, <2>4 DEF DirectOutput
    <3>2. /\ desc.device = device /\ desc.muted = {} /\ desc.refs = NoRefs
          /\ desc.muteCount = [i \in Strategies |-> 0]
      <4> HIDE DEF o
      <4> QED
        BY DEF NewOutput
    <3> HIDE DEF fits, o, desc, t
    <3>3. /\ OutputsOK(closed.outs) /\ Quiet(closed) /\ closed.outs = cut
          /\ DOMAIN cut = DOMAIN s.outs \ {"lpa"} /\ closed.cache = s.cache
      <4>1. closed.outs = cut
        BY <1>1 DEF Fields
      <4>2. CASE open
        <5>1. LET x == [s EXCEPT !.outs = closeOutput(s.outs, o)] IN
              Object(x) /\ Quiet(x) /\ DOMAIN x.outs = DOMAIN s.outs \ {o} /\ x.cache = s.cache
          BY <2>1, CloseDirectStaysQuiet
        <5>2. cut = closeOutput(s.outs, o)
          BY <4>2
        <5> HIDE DEF cut
        <5> QED
          BY <2>1, <4>1, <5>1, <5>2 DEF Object
      <4>3. CASE ~open
        <5>1. cut = s.outs
          BY <4>3
        <5> HIDE DEF cut
        <5>2. closed.outs = s.outs /\ closed.cache = s.cache
          BY <1>1, <5>1 DEF Fields
        <5> HIDE DEF closed
        <5>3. Quiet(closed)
          BY <5>2, SameOutsStayQuiet
        <5> QED
          BY <1>1, <2>1, <4>1, <4>3, <5>1, <5>2, <5>3 DEF Object
      <4> QED
        BY <4>2, <4>3
    <3>4. t.outs = outs /\ t.cache = s.cache
      BY <1>1, <3>1 DEF Fields
    <3> HIDE DEF closed
    <3>5. CASE ~opens
      <4>1. t.outs = cut
        BY <3>4, <3>5
      <4> HIDE DEF cut, outs
      <4> QED
        BY <3>3, <3>4, <4>1, SameOutsStayQuiet DEF t
    <3>6. CASE opens
      <4> HIDE DEF cut
      <4>1. /\ DOMAIN t.outs = DOMAIN cut \cup {"lpa"} /\ t.outs["lpa"] = desc
            /\ \A x \in DOMAIN cut : t.outs[x] = cut[x]
        BY <2>1, <3>3, <3>4, <3>6 DEF Opened
      <4> HIDE DEF outs
      <4>2. "voip" \notin DOMAIN t.outs
        BY <3>3, <4>1 DEF Quiet, QuietOuts, RoutesThin
      <4>3. \A x \in DOMAIN t.outs \ DOMAIN closed.outs :
              /\ Lone(t.outs[x].device) /\ t.outs[x].muted = {}
              /\ t.outs[x].refs = NoRefs
              /\ t.outs[x].muteCount = [i \in Strategies |-> 0]
        BY <2>2, <3>2, <3>3, <4>1
      <4>4. Quiet(t)
        BY <3>3, <3>4, <4>1, <4>2, <4>3, OpenedStaysQuiet
      <4> QED
        BY <4>4 DEF t
    <3> QED
      BY <3>5, <3>6
  <2> QED
    BY <2>3, <2>4
<1> QED
  BY <1>2, <1>3

LEMMA getOutputStaysQuiet ==
    ASSUME NEW s, NEW config, NEW st, PolicyOK(s, config, st), Quiet(s),
           NEW request, NEW opens \in BOOLEAN
    PROVE  Quiet(getOutput(s, "MUSIC", request, opens))
<1>1. getStrategy("MUSIC") = "MEDIA"
  BY DEF getStrategy
<1>2. Lone(getDeviceForStrategy(s, "MEDIA") \ {"FM"})
  <2>1. "MEDIA" \in Routing
    BY DEF Routing
  <2> QED
    BY <2>1, DevicesAreRoutable DEF Routable
<1>3. CASE "DIRECT" \in request.flags
  BY <1>1, <1>2, <1>3, DirectOutputStaysQuiet DEF getOutput
<1>4. CASE "DIRECT" \notin request.flags
  BY <1>4 DEF getOutput
<1> QED
  BY <1>3, <1>4

LEMMA releaseOutputStaysQuiet ==
    ASSUME NEW s, NEW config, NEW st, PolicyOK(s, config, st), Quiet(s), NEW o \in DOMAIN s.outs
    PROVE  Quiet(releaseOutput(s, o))
<1>1. CASE o = "dup" \/ "DIRECT" \notin ProfileFlags[o]
  BY <1>1 DEF releaseOutput
<1>2. CASE ~(o = "dup" \/ "DIRECT" \notin ProfileFlags[o])
  <2>1. o \in {"voip", "lpa"}
    <3>1. o \in OutputIds
      BY DEF PolicyOK, Good, Object, OutputsOK
    <3> QED
      BY <1>2, <3>1 DEF OutputIds, ProfileFlags
  <2>2. releaseOutput(s, o) = [s EXCEPT !.outs = closeOutput(s.outs, o)]
    <3>1. DOMAIN s = Fields
      BY DEF PolicyOK, Good, Object
    <3> QED
      BY <1>2, <3>1 DEF releaseOutput, Fields
  <2>3. LET x == [s EXCEPT !.outs = closeOutput(s.outs, o)] IN
        Object(x) /\ Quiet(x) /\ DOMAIN x.outs = DOMAIN s.outs \ {o} /\ x.cache = s.cache
    BY <2>1, CloseDirectStaysQuiet
  <2> QED
    BY <2>2, <2>3
<1> QED
  BY <1>1, <1>2


-----------------------------------------------------------------------------
(* The invariant.                                                          *)

QuietInv == Quiet(apm)

LEMMA InitIsQuiet == Init => QuietInv
<1> SUFFICES ASSUME Init PROVE QuietInv
  OBVIOUS
<1> DEFINE desc == NewOutput(DefaultOutputDevice)
           outs == Opened(<<>>, "primary", desc)
           Object0(pending) ==
             [avail |-> Attached, in |-> AttachedInputs, phone |-> "NORMAL",
              force |-> [MEDIA |-> "NONE", COMMUNICATION |-> "NONE", RECORD |-> "NONE"],
              fm |-> "FM_NONE", pending |-> pending, suspended |-> FALSE,
              cache |-> [i \in Strategies |-> {}], input |-> NoInput, outs |-> outs]
<1>1. PICK pending \in BOOLEAN : apm = updateDevicesAndOutputs(Object0(pending))
  BY DEF Init
<1> DEFINE s == Object0(pending)
<1>2. DOMAIN s = Fields /\ s.outs = outs
  BY DEF Fields
<1>3. /\ desc.device = {"SPEAKER"} /\ desc.muted = {}
      /\ desc.muteCount = [i \in Strategies |-> 0]
  BY DEF NewOutput, DefaultOutputDevice
<1> HIDE DEF desc
<1>4. DOMAIN outs = {"primary"} /\ outs["primary"] = desc
  <2>1. outs = [x \in DOMAIN (<<>>) \cup {"primary"} |-> IF x = "primary" THEN desc ELSE (<<>>)[x]]
    BY DEF Opened
  <2>2. DOMAIN (<<>>) = {}
    OBVIOUS
  <2> QED
    BY <2>1, <2>2
<1> HIDE DEF outs, s
<1>5. apm.outs = outs /\ \A i \in Routing : apm.cache[i] = getDeviceForStrategy(PhoneCached(s), i)
  BY <1>1, <1>2 DEF updateDevicesAndOutputs, Fields, Routing, Strategies, s
<1>6. CacheThin(apm)
  BY <1>5, DevicesAreRoutable DEF CacheThin
<1>7. MusicOnly(outs) /\ RoutesThin(outs)
  BY <1>3, <1>4 DEF MusicOnly, RoutesThin, Thin, Lone
<1>8. MutesShown(outs)
  <2>1. \A i \in Heard : i \in Strategies
    BY DEF Heard, Strategies
  <2> QED
    BY <1>3, <1>4, <2>1 DEF MutesShown, MutesCounted, HeardOnSpeaker
<1> QED
  BY <1>5, <1>6, <1>7, <1>8 DEF QuietInv, Quiet, QuietOuts

LEMMA StepIsQuiet == PolicyInv /\ QuietInv /\ [Next]_vars => QuietInv'
<1> SUFFICES ASSUME PolicyInv, QuietInv, [Next]_vars PROVE QuietInv'
  OBVIOUS
<1>0. PolicyOK(apm, requested, started) /\ Object(apm) /\ Quiet(apm)
  BY DEF PolicyInv, PolicyOK, Good, QuietInv
<1>1. ASSUME NEW t, Becomes(t), Quiet(t) PROVE QuietInv'
  BY <1>1 DEF Becomes, QuietInv
<1>2. ASSUME NEW t, Operation(t), Quiet(t) PROVE QuietInv'
  BY <1>1, <1>2 DEF Operation
<1>3. ASSUME NEW d \in Connectable, DeviceConnected(d) PROVE QuietInv'
  <2>1. PICK analog \in BOOLEAN, opens \in BOOLEAN : Operation(Connect(apm, d, analog, opens))
    BY <1>3 DEF DeviceConnected
  <2>2. Quiet(Connect(apm, d, analog, opens))
    BY <1>0, ConnectStaysQuiet
  <2> QED
    BY <1>2, <2>1, <2>2
<1>4. ASSUME NEW d \in Connectable, DeviceDisconnected(d) PROVE QuietInv'
  <2>1. Operation(Disconnect(apm, d)) /\ Quiet(Disconnect(apm, d))
    BY <1>0, <1>4, DisconnectStaysQuiet DEF DeviceDisconnected
  <2> QED
    BY <1>2, <2>1
<1>5. ASSUME NEW phone \in PhoneStates, PhoneStateSet(phone) PROVE QuietInv'
  <2>1. Operation(setPhoneState(apm, phone)) /\ Quiet(setPhoneState(apm, phone))
    BY <1>0, <1>5, setPhoneStateStaysQuiet DEF PhoneStateSet
  <2> QED
    BY <1>2, <2>1
<1>6. ASSUME NEW usage \in Usages, NEW config, ForceUseSet(usage, config) PROVE QuietInv'
  <2>1. Becomes(setForceUse(apm, usage, config)) /\ Quiet(setForceUse(apm, usage, config))
    BY <1>0, <1>6, setForceUseStaysQuiet DEF ForceUseSet
  <2> QED
    BY <1>1, <2>1
<1>7. ASSUME NEW o \in DOMAIN apm.outs, NEW stream \in Streams, o = "lpa" => stream = "MUSIC",
             OutputStarted(o, stream)
      PROVE  QuietInv'
  <2>1. Becomes(startOutput(apm, o, stream))
    BY <1>7 DEF OutputStarted, TrackChanges
  <2>2. Quiet(startOutput(apm, o, stream))
    BY <1>0, <1>7, startOutputStaysQuiet
  <2> QED
    BY <1>1, <2>1, <2>2
<1>8. ASSUME NEW o \in DOMAIN apm.outs, NEW stream \in Streams, o = "lpa" => stream = "MUSIC",
             OutputStopped(o, stream)
      PROVE  QuietInv'
  <2>1. Becomes(stopOutput(apm, o, stream)) /\ started[o][stream] > 0
    BY <1>8 DEF OutputStopped, TrackChanges
  <2>2. Quiet(stopOutput(apm, o, stream))
    BY <1>0, <1>8, <2>1, stopOutputStaysQuiet
  <2> QED
    BY <1>1, <2>1, <2>2
<1>9. ASSUME NEW request \in DirectRequests, DirectOutputAsked("MUSIC", request) PROVE QuietInv'
  <2>1. PICK opens \in BOOLEAN : Operation(getOutput(apm, "MUSIC", request, opens))
    BY <1>9 DEF DirectOutputAsked
  <2>2. Quiet(getOutput(apm, "MUSIC", request, opens))
    BY <1>0, getOutputStaysQuiet
  <2> QED
    BY <1>2, <2>1, <2>2
<1>10. ASSUME NEW o \in DOMAIN apm.outs, OutputReleased(o) PROVE QuietInv'
  <2>1. Operation(releaseOutput(apm, o)) /\ Quiet(releaseOutput(apm, o))
    BY <1>0, <1>10, releaseOutputStaysQuiet DEF OutputReleased
  <2> QED
    BY <1>2, <2>1
<1>11. ASSUME (\E source \in Sources : InputStarted(source)) \/ stopInput PROVE QuietInv'
  <2>1. PICK input : apm' = [apm EXCEPT !.input = input]
    BY <1>11 DEF InputStarted, stopInput, Becomes
  <2>2. apm'.outs = apm.outs /\ apm'.cache = apm.cache
    BY <1>0, <2>1 DEF Object, Fields
  <2> QED
    BY <1>0, <2>2, SameOutsStayQuiet DEF QuietInv
<1>12. CASE UNCHANGED vars
  BY <1>12 DEF vars, QuietInv
<1>13. {"MEDIA", "COMMUNICATION", "RECORD"} \subseteq Usages
  BY DEF Usages
<1> QED
  BY <1>3, <1>4, <1>5, <1>6, <1>7, <1>8, <1>9, <1>10, <1>11, <1>12, <1>13 DEF Next

\* A mute that is counted is the primary output's, once, and lasts while the
\* devices of that output call for it; no other output is ever on two devices.
THEOREM MutesAreShown == Spec => []QuietInv
BY InitIsQuiet, StepIsQuiet, PolicyHolds, PTL DEF Spec

\* Media and calls are muted only while the devices of some output call for it
\* (NothingStaysMuted): checkDeviceMuteStrategies() ends every mute it began,
\* through whatever devices, calls, forced uses and outputs come and go.
THEOREM NoMuteIsLeft == Spec => []NothingStaysMuted
<1>1. PolicyInv /\ QuietInv => NothingStaysMuted
  <2> SUFFICES ASSUME PolicyInv, QuietInv PROVE NothingStaysMuted
    OBVIOUS
  <2>1. MutesCounted(apm.outs) /\ "primary" \in DOMAIN apm.outs
    BY DEF PolicyInv, PolicyOK, Good, Object, OutputsOK, QuietInv, Quiet, QuietOuts, MutesShown
  <2> QED
    BY <2>1 DEF NothingStaysMuted, MutesCounted, Heard
<1> QED
  BY <1>1, PolicyHolds, MutesAreShown, PTL

-----------------------------------------------------------------------------
(* Outputs follow the policy.                                              *)

\* Nothing is duplicated: there is no output of A2DP either.
Plain(s) == Object(s) /\ NoA2dp(s)

\* Whatever the policy reads for output o is the same in t as in s.
SameAsk(s, t, o) ==
    /\ isInCall(t) = isInCall(s) /\ t.avail = s.avail /\ t.force = s.force /\ t.fm = s.fm
    /\ \A z \in Streams : t.outs[o].refs[z] > 0 <=> s.outs[o].refs[z] > 0

\* Output o, if it plays, is on the policy's device.
Follows(s, o) == RoutesFollow(s, {o})

\* Without A2DP, the device of a strategy that routes is the same in the same
\* circumstances: A2DP's suspension and the cache are not read.
LEMMA RoutingReads ==
    ASSUME NEW s, NEW t, NEW i \in Routing, Plain(s), Plain(t),
           isInCall(t) = isInCall(s), t.avail = s.avail, t.force = s.force, t.fm = s.fm
    PROVE  getDeviceForStrategy(t, i) = getDeviceForStrategy(s, i)
<1>1. ~A2dpUsable(t) /\ ~A2dpUsable(s)
  BY DEF A2dpUsable, Plain, NoA2dp, Object, OutputsOK
<1>2. \A names : First(t, names) = First(s, names)
  BY DEF First
<1>3. PhoneDevice(t, i) = PhoneDevice(s, i)
  BY <1>1, <1>2 DEF PhoneDevice
<1>4. \A device : WithFm(t, device) = WithFm(s, device)
  BY DEF WithFm
<1>5. \A first : MediaDevice(t, first) = MediaDevice(s, first)
  BY <1>1, <1>2, <1>4 DEF MediaDevice
<1>6. \A phone, heard : DeviceAmong(t, i, phone, heard) = DeviceAmong(s, i, phone, heard)
  BY DEF DeviceAmong, Routing
<1> QED
  BY <1>3, <1>5, <1>6 DEF getDeviceForStrategy

LEMMA SameAnswer ==
    ASSUME NEW s, NEW t, Plain(s), Plain(t), NEW o, SameAsk(s, t, o)
    PROVE  /\ getNewDevice(t, o) = getNewDevice(s, o)
           /\ IsActive(t.outs[o]) <=> IsActive(s.outs[o])
           /\ SoundOverFm(t, o) = SoundOverFm(s, o)
<1>1. \A i : StrategyActive(t.outs[o], i) <=> StrategyActive(s.outs[o], i)
  BY DEF SameAsk, StrategyActive
<1>2. RoutingStrategy(t, o) = RoutingStrategy(s, o)
  BY <1>1 DEF RoutingStrategy, SameAsk
<1>3. RoutingStrategy(s, o) \in Routing \cup {NoStrategy}
  BY DEF RoutingStrategy, Routing
<1>4. \A i \in Routing : getDeviceForStrategy(t, i) = getDeviceForStrategy(s, i)
  BY RoutingReads DEF SameAsk
<1> QED
  BY <1>2, <1>3, <1>4 DEF getNewDevice, SameAsk, IsActive, SoundOverFm

\* An output left on its device still follows.
LEMMA StillFollows ==
    ASSUME NEW s, NEW t, Plain(s), Plain(t), NEW o \in DOMAIN s.outs, SameAsk(s, t, o),
           t.outs[o].device = s.outs[o].device, Follows(s, o)
    PROVE  Follows(t, o)
BY SameAnswer DEF Follows, RoutesFollow

LEMMA FollowOneByOne ==
    ASSUME NEW s, NEW ids
    PROVE  RoutesFollow(s, ids) <=> \A o \in DOMAIN s.outs \cap ids : Follows(s, o)
BY DEF RoutesFollow, Follows

\* Rerouting changes nothing the policy reads.
LEMMA ReroutedAsksSame ==
    ASSUME NEW s, NEW t, Rerouted(s, t)
    PROVE  /\ \A o \in DOMAIN s.outs : SameAsk(s, t, o)
           /\ DOMAIN t.outs = DOMAIN s.outs
           /\ Plain(s) => Plain(t)
<1>1. t.phone = s.phone /\ t.avail = s.avail /\ t.force = s.force /\ t.fm = s.fm
  BY DEF Rerouted, SameButOuts, Fields
<1> QED
  BY <1>1 DEF Rerouted, SameOutputs, SameAsk, isInCall, Plain, NoA2dp

\* setOutputDevice(): the output takes what it supports of the device, if any;
\* the others keep theirs.
Placed(s, t, o, device) ==
    /\ t.outs[o].device = OrElse(device \cap Supported(o), s.outs[o].device)
    /\ \A x \in DOMAIN s.outs \ {o} : t.outs[x].device = s.outs[x].device

LEMMA RouteOnePlaces ==
    ASSUME NEW s, Object(s), NEW o \in DOMAIN s.outs \ {"dup"}, NEW device
    PROVE  Placed(s, RouteOne(s, o, device), o, device)
<1> DEFINE d == device \cap Supported(o)
           to == [s EXCEPT !.outs[o].device = IF d = {} THEN @ ELSE d]
<1>1. DOMAIN s = Fields /\ \A x \in DOMAIN s.outs : DOMAIN s.outs[x] = DescFields
  BY DEF Object, OutputsOK, DescOK
<1>2. /\ DOMAIN to.outs = DOMAIN s.outs
      /\ \A x \in DOMAIN s.outs : DOMAIN to.outs[x] = DescFields
      /\ to.outs[o].device = OrElse(d, s.outs[o].device)
      /\ \A x \in DOMAIN s.outs \ {o} : to.outs[x].device = s.outs[x].device
  BY <1>1 DEF Fields, DescFields, OrElse
<1> HIDE DEF to
<1>3. ASSUME NEW tempMute, NEW mutes, NEW x \in DOMAIN s.outs
      PROVE  ApplyMutes(to, o, tempMute, mutes)[x].device = to.outs[x].device
  BY <1>2 DEF ApplyMutes, DescFields
<1>4. \A x \in DOMAIN s.outs :
        checkDeviceMuteStrategies(to, o, s.outs[o].device)[x].device = to.outs[x].device
  BY <1>3 DEF checkDeviceMuteStrategies
<1>5. RouteOne(s, o, device).outs = SetOne(s, o, device)
  BY <1>1 DEF RouteOne, Fields
<1>6. SetOne(s, o, device) = IF device # {} /\ d = {} THEN s.outs
                             ELSE checkDeviceMuteStrategies(to, o, s.outs[o].device)
  BY DEF SetOne, to
<1> QED
  BY <1>2, <1>4, <1>5, <1>6 DEF Placed, OrElse

\* An output that is given the policy's device follows, and the others still do.
LEMMA RouteOutputFollows ==
    ASSUME NEW s, Plain(s), NEW o \in DOMAIN s.outs, NEW device,
           device = getNewDevice(s, o), NEW done, RoutesFollow(s, done)
    PROVE  RoutesFollow(RouteOutput(s, o, device), done \cup {o})
<1> DEFINE t == RouteOutput(s, o, device)
<1>1. o # "dup" /\ t = RouteOne(s, o, device) /\ Object(s)
  BY DEF Plain, NoA2dp, RouteOutput
<1>2. Placed(s, t, o, device)
  BY <1>1, RouteOnePlaces
<1>3. Rerouted(s, t)
  BY <1>1, RouteOutputReroutes
<1> HIDE DEF t
<1>4. /\ \A x \in DOMAIN s.outs : SameAsk(s, t, x)
      /\ DOMAIN t.outs = DOMAIN s.outs /\ Plain(t)
  BY <1>3, ReroutedAsksSame
<1>5. Follows(t, o)
  <2>1. getNewDevice(t, o) = device
    BY <1>4, SameAnswer
  <2> QED
    BY <1>2, <2>1 DEF Placed, Follows, RoutesFollow, OrElse
<1>6. ASSUME NEW x \in (DOMAIN t.outs \cap done) \ {o} PROVE Follows(t, x)
  <2>1. Follows(s, x)
    BY <1>4, FollowOneByOne
  <2> QED
    BY <1>2, <1>4, <2>1, StillFollows DEF Placed
<1> QED
  BY <1>5, <1>6, FollowOneByOne DEF t

LEMMA StepFollows ==
    ASSUME NEW s, Plain(s), NEW t, Rerouted(s, t), NEW ids \in SUBSET DOMAIN s.outs,
           NEW o, NEW device, o \in ids => device = getNewDevice(t, o),
           NEW done, RoutesFollow(t, done)
    PROVE  RoutesFollow(IF o \in ids THEN RouteOutput(t, o, device) ELSE t,
                        done \cup (ids \cap {o}))
<1>1. CASE o \in ids
  <2>1. Plain(t) /\ o \in DOMAIN t.outs
    BY <1>1, ReroutedAsksSame
  <2>2. ids \cap {o} = {o}
    BY <1>1
  <2> QED
    BY <1>1, <2>1, <2>2, RouteOutputFollows
<1>2. CASE o \notin ids
  <2>1. done \cup (ids \cap {o}) = done
    BY <1>2
  <2> QED
    BY <1>2, <2>1
<1> QED
  BY <1>1, <1>2

\* The outputs routed in turn, by getNewDevice and from the cache.
LEMMA RouteAllFollows ==
    ASSUME NEW s, Plain(s), NEW ids \in SUBSET DOMAIN s.outs, NEW done, RoutesFollow(s, done)
    PROVE  RoutesFollow(RouteAll(s, ids, getNewDevice), done \cup ids)
<1> DEFINE Route(x, o) == IF o \in ids THEN RouteOutput(x, o, getNewDevice(x, o)) ELSE x
           Fine(x, more) == Rerouted(s, x) /\ RoutesFollow(x, more)
<1>1. \A x, o, more : Fine(x, more) => Fine(Route(x, o), more \cup (ids \cap {o}))
  <2> SUFFICES ASSUME NEW x, NEW o, NEW more, Rerouted(s, x), RoutesFollow(x, more)
               PROVE  Fine(Route(x, o), more \cup (ids \cap {o}))
    OBVIOUS
  <2>1. Object(s) /\ Rerouted(s, Route(x, o))
    BY StepReroutes DEF Plain
  <2> QED
    BY <2>1, StepFollows
<1>2. RouteAll(s, ids, getNewDevice) =
        Route(Route(Route(Route(Route(s, "primary"), "voip"), "lpa"), "a2dp"), "dup")
  BY DEF RouteAll
<1>3. Fine(s, done)
  BY ReroutedIsPreorder DEF Plain
<1>4. \A x, more : Fine(x, more) => RoutesFollow(x, more)
  OBVIOUS
<1> HIDE DEF Route, Fine
<1>5. RoutesFollow(RouteAll(s, ids, getNewDevice),
                   ((((done \cup (ids \cap {"primary"})) \cup (ids \cap {"voip"}))
                     \cup (ids \cap {"lpa"})) \cup (ids \cap {"a2dp"})) \cup (ids \cap {"dup"}))
  BY <1>1, <1>2, <1>3, <1>4
<1>6. ids \subseteq OutputIds
  BY DEF Plain, Object, OutputsOK
<1>7. ((((done \cup (ids \cap {"primary"})) \cup (ids \cap {"voip"}))
        \cup (ids \cap {"lpa"})) \cup (ids \cap {"a2dp"})) \cup (ids \cap {"dup"}) = done \cup ids
  BY <1>6 DEF OutputIds
<1> QED
  BY <1>5, <1>7

LEMMA RouteFromCacheFollows ==
    ASSUME NEW s, Plain(s), Fresh(s)
    PROVE  LET t == RouteFromCache(s) IN RoutesFollow(t, DOMAIN t.outs)
<1> DEFINE ids == DOMAIN s.outs
           Route(x, o) == IF o \in ids THEN RouteOutput(x, o, getNewDeviceFromCache(x, o)) ELSE x
           Fine(x, more) == Rerouted(s, x) /\ RoutesFollow(x, more)
           done == {}
           t == RouteFromCache(s)
<1>1. \A x, o, more : Fine(x, more) => Fine(Route(x, o), more \cup (ids \cap {o}))
  <2> SUFFICES ASSUME NEW x, NEW o, NEW more, Rerouted(s, x), RoutesFollow(x, more)
               PROVE  Fine(Route(x, o), more \cup (ids \cap {o}))
    OBVIOUS
  <2>1. Object(s) /\ Rerouted(s, Route(x, o))
    BY StepReroutes DEF Plain
  <2>2. Fresh(x)
    BY RerouteKeepsFresh
  <2>3. getNewDeviceFromCache(x, o) = getNewDevice(x, o)
    BY <2>2 DEF getNewDeviceFromCache, getNewDevice, Fresh, RoutingStrategy, Strategies
  <2> QED
    BY <2>1, <2>3, StepFollows
<1>2. t = Route(Route(Route(Route(Route(s, "primary"), "voip"), "lpa"), "a2dp"), "dup")
  BY DEF RouteFromCache, RouteAll
<1>3. Fine(s, done)
  BY ReroutedIsPreorder DEF Plain, RoutesFollow
<1>4. \A x, more : Fine(x, more) => RoutesFollow(x, more) /\ Rerouted(s, x)
  OBVIOUS
<1> HIDE DEF Route, Fine, t, done, ids
<1> DEFINE all == ((((done \cup (ids \cap {"primary"})) \cup (ids \cap {"voip"}))
                    \cup (ids \cap {"lpa"})) \cup (ids \cap {"a2dp"})) \cup (ids \cap {"dup"})
<1>5. Fine(t, all)
  BY <1>1, <1>2, <1>3
<1>6. ids \subseteq OutputIds
  BY DEF Plain, Object, OutputsOK, ids
<1>7. all = ids
  BY <1>6 DEF OutputIds, done
<1>8. DOMAIN t.outs = ids
  BY <1>4, <1>5, ReroutedAsksSame DEF ids
<1> QED
  BY <1>4, <1>5, <1>7, <1>8 DEF t


\* The outputs of ids are where they were, and the policy reads the same.
LeftAlone(s, t, ids) ==
    /\ Plain(t)
    /\ \A o \in DOMAIN t.outs \cap ids :
        o \in DOMAIN s.outs /\ SameAsk(s, t, o) /\ t.outs[o].device = s.outs[o].device

LEMMA LeftAloneFollows ==
    ASSUME NEW s, NEW t, NEW ids, Plain(s), LeftAlone(s, t, ids), RoutesFollow(s, ids)
    PROVE  RoutesFollow(t, ids)
<1>1. \A o \in DOMAIN t.outs \cap ids : Follows(t, o)
  BY FollowOneByOne, StillFollows DEF LeftAlone
<1> QED
  BY <1>1, FollowOneByOne

\* What is not read may change.
LEMMA SameFieldsFollow ==
    ASSUME NEW s, NEW t, NEW ids, Plain(s), Object(t),
           \A f \in {"avail", "phone", "force", "fm", "outs"} : t[f] = s[f],
           RoutesFollow(s, ids)
    PROVE  RoutesFollow(t, ids)
<1>1. t.avail = s.avail /\ t.phone = s.phone /\ t.force = s.force /\ t.fm = s.fm /\ t.outs = s.outs
  OBVIOUS
<1>2. LeftAlone(s, t, ids)
  BY <1>1 DEF LeftAlone, Plain, NoA2dp, SameAsk, isInCall
<1> QED
  BY <1>2, LeftAloneFollows

-----------------------------------------------------------------------------
(* Devices and forced uses.                                                *)

\* Every output that is open follows.
AllFollow(s) == RoutesFollow(s, DOMAIN s.outs)

LEMMA RerouteFollows ==
    ASSUME NEW s, Reroutable(s), NEW newDevice, NEW closed, NoA2dp(Reroute(s, newDevice, closed))
    PROVE  AllFollow(Reroute(s, newDevice, closed))
<1> DEFINE a == RouteOutput(s, "primary", newDevice)
           b == checkA2dpSuspend(a)
           c == CloseA2dp(b, closed)
           d == updateDevicesAndOutputs(c)
           t == RouteFromCache(d)
<1>1. "primary" \in DOMAIN s.outs /\ Object(s) /\ DupCounted(s.outs)
  BY DEF Reroutable, Object, OutputsOK
<1>2. Rerouted(s, a)
  BY <1>1, RouteOutputReroutes
<1> HIDE DEF a
<1>3. Object(b) /\ b.outs = a.outs
  BY <1>2, SuspendKeeps DEF Rerouted, Fields
<1> HIDE DEF b
<1>4. Object(c)
  <2>1. CASE closed
    <3> DEFINE outs == closeOutput(b.outs, "a2dp")
    <3>1. OutputsOK(b.outs) /\ DupCounted(b.outs)
      BY <1>1, <1>2, <1>3 DEF Object, OutputsOK, Rerouted, SameOutputs, DupCounted
    <3>2. OutputsOK(outs)
      BY <3>1, CloseOutputHolds
    <3>3. c = [b EXCEPT !.outs = outs]
      BY <1>3, <2>1 DEF CloseA2dp
    <3> HIDE DEF outs, c
    <3> QED
      BY <1>3, <3>2, <3>3, OtherOuts
  <2> QED
    BY <1>3, <2>1 DEF CloseA2dp
<1> HIDE DEF c
<1>5. Object(d) /\ Fresh(d)
  BY <1>4, UpdateRefreshes
<1> HIDE DEF d
<1>6. Reroute(s, newDevice, closed) = t
  BY DEF Reroute, a, b, c, d
<1>7. Rerouted(d, t)
  BY <1>5, RouteFromCacheReroutes
<1>8. Plain(d)
  <2>1. DOMAIN t.outs = DOMAIN d.outs /\ NoA2dp(t)
    BY <1>6, <1>7 DEF Rerouted, SameOutputs
  <2> HIDE DEF t
  <2> QED
    BY <1>5, <2>1 DEF Plain, NoA2dp
<1>9. AllFollow(t)
  BY <1>5, <1>8, RouteFromCacheFollows DEF AllFollow
<1> QED
  BY <1>6, <1>9

LEMMA InputsFollow ==
    ASSUME NEW s, Good(s), NoA2dp(s), AllFollow(s), NEW device
    PROVE  AllFollow(PlugInput(s, device)) /\ AllFollow(UnplugInput(s, device))
<1>1. ASSUME NEW t, Good(t), \A f \in Fields \ {"in", "input"} : t[f] = s[f]
      PROVE  AllFollow(t)
  <2>1. \A f \in {"avail", "phone", "force", "fm", "outs"} : t[f] = s[f]
    BY <1>1 DEF Fields
  <2>2. Plain(s) /\ Object(t) /\ t.outs = s.outs
    BY <1>1, <2>1 DEF Plain, Good
  <2> QED
    BY <2>1, <2>2, SameFieldsFollow DEF AllFollow
<1> QED
  BY <1>1, PlugsHold

LEMMA ForcedFollows ==
    ASSUME NEW s, Plain(s), NEW usage \in Usages, NEW config
    PROVE  AllFollow(Forced(s, usage, config))
<1> DEFINE a == StoreForceUse(s, usage, config)
           b == checkA2dpSuspend(a)
           c == updateDevicesAndOutputs(b)
           d == RouteFromCache(c)
           t == RouteInput(d)
<1>1. DOMAIN s = Fields /\ DOMAIN s.force = Usages /\ Object(s)
  BY DEF Object, Plain
<1>2. /\ DOMAIN a = Fields /\ \A f \in Fields \ {"force", "pending"} : a[f] = s[f]
      /\ a.force = [s.force EXCEPT ![usage] = config]
      /\ a.pending = IF usage = "MEDIA" THEN FALSE ELSE s.pending
  BY <1>1 DEF StoreForceUse, Fields
<1> HIDE DEF a
<1>3. /\ a.avail = s.avail /\ a.fm = s.fm /\ a.suspended = s.suspended /\ a.outs = s.outs
      /\ a.cache = s.cache /\ a.input = s.input
  BY <1>2 DEF Fields
<1>4. DOMAIN a.force = Usages /\ a.pending \in BOOLEAN
  BY <1>1, <1>2 DEF Object
<1>5. Object(a)
  BY <1>1, <1>2, <1>3, <1>4 DEF Object
<1>6. Object(b) /\ b.outs = s.outs
  BY <1>3, <1>5, SuspendKeeps DEF Fields
<1> HIDE DEF b
<1>7. Object(c) /\ Fresh(c) /\ c.outs = s.outs
  BY <1>6, UpdateRefreshes
<1> HIDE DEF c
<1>8. Plain(c)
  BY <1>7 DEF Plain, NoA2dp
<1>9. AllFollow(d) /\ Rerouted(c, d)
  BY <1>7, <1>8, RouteFromCacheFollows, RouteFromCacheReroutes DEF AllFollow
<1> HIDE DEF d
<1>10. DOMAIN d = Fields /\ Plain(d)
  BY <1>8, <1>9, ReroutedAsksSame DEF Plain, Object
<1>11. t.outs = d.outs /\ DOMAIN t = Fields /\ DOMAIN t.input = {"source", "device"}
       /\ \A f \in Fields \ {"input"} : t[f] = d[f]
  BY <1>10 DEF RouteInput, Fields, Plain, Object
<1> HIDE DEF t
<1>12. \A f \in {"avail", "phone", "force", "fm", "outs"} : t[f] = d[f]
  BY <1>11 DEF Fields
<1>13. Object(t)
  <2>1. /\ t.avail = d.avail /\ t.force = d.force /\ t.fm = d.fm /\ t.suspended = d.suspended
        /\ t.pending = d.pending /\ t.cache = d.cache /\ t.outs = d.outs
    BY <1>11 DEF Fields
  <2> QED
    BY <1>10, <1>11, <2>1 DEF Object, Plain
<1>14. AllFollow(t)
  BY <1>9, <1>10, <1>11, <1>12, <1>13, SameFieldsFollow DEF AllFollow
<1>15. t = Forced(s, usage, config)
  BY DEF Forced, a, b, c, d, t
<1> QED
  BY <1>14, <1>15

LEMMA setForceUseFollows ==
    ASSUME NEW s, Plain(s), AllFollow(s), NEW usage \in Usages, NEW config
    PROVE  AllFollow(setForceUse(s, usage, config))
<1> DEFINE t == [s EXCEPT !.pending = TRUE]
<1>1. AllFollow(t)
  <2>1. DOMAIN s = Fields /\ Object(s)
    BY DEF Plain, Object
  <2>2. /\ DOMAIN t = Fields /\ t.pending = TRUE /\ t.avail = s.avail /\ t.phone = s.phone
        /\ t.force = s.force /\ t.fm = s.fm /\ t.outs = s.outs /\ t.suspended = s.suspended
        /\ t.cache = s.cache /\ t.input = s.input
    BY <2>1 DEF Fields
  <2> HIDE DEF t
  <2>3. Object(t)
    BY <2>1, <2>2 DEF Object
  <2> QED
    BY <2>2, <2>3, SameFieldsFollow DEF AllFollow
<1>2. AllFollow(Forced(s, usage, config))
  BY ForcedFollows
<1> HIDE DEF t
<1> QED
  BY <1>1, <1>2 DEF setForceUse, t


LEMMA ReroutedAndPluggedFollows ==
    ASSUME NEW s, Reroutable(s), InputOn(s), NEW newDevice, NEW closed, NEW device,
           NEW t \in {PlugInput(Reroute(s, newDevice, closed), device),
                      UnplugInput(Reroute(s, newDevice, closed), device)},
           NoA2dp(t)
    PROVE  AllFollow(t)
<1> DEFINE c == Reroute(s, newDevice, closed)
<1>1. AllRerouted(s, c, closed)
  BY RerouteHolds DEF Reroutable
<1>2. NoA2dp(c) => AllFollow(c)
  BY RerouteFollows
<1>3. t \in {PlugInput(c, device), UnplugInput(c, device)}
  OBVIOUS
<1> HIDE DEF c
<1>4. c.in = s.in /\ c.force = s.force /\ c.input = s.input /\ Object(c) /\ Fresh(c)
  BY <1>1 DEF AllRerouted, Fields
<1>5. Good(c)
  BY <1>4, InputKept DEF Good
<1>6. t.outs = c.outs
  BY <1>3, <1>5, PlugsHold DEF Fields
<1>7. NoA2dp(c)
  BY <1>6 DEF NoA2dp
<1> QED
  BY <1>2, <1>3, <1>5, <1>7, InputsFollow

LEMMA ConnectFollows ==
    ASSUME NEW s, NEW device \in Connectable, NEW analog \in BOOLEAN, NEW opens \in BOOLEAN,
           NEW st, NEW config, PolicyOK(s, config, st), NoA2dp(s), AllFollow(s),
           NoA2dp(Connect(s, device, analog, opens))
    PROVE  AllFollow(Connect(s, device, analog, opens))
<1> DEFINE fm == [s EXCEPT !.fm = FmModeOnConnect(s, device, analog)]
           needs == device \in Profiles.a2dp /\ "a2dp" \notin DOMAIN s.outs
           t == Connect(s, device, analog, opens)
<1>0. Good(s) /\ FmAgrees(s) /\ Remembered(s, config) /\ Counted(s, st)
  BY DEF PolicyOK
<1>1. DOMAIN s = Fields /\ Plain(s)
  BY <1>0 DEF Good, Object, Plain
<1>2. CASE device = "FM" /\ s.fm # "FM_NONE"
  BY <1>2 DEF Connect
<1>3. CASE ~(device = "FM" /\ s.fm # "FM_NONE") /\ (device \in s.avail \/ (needs /\ ~opens))
  <2>1. t = fm
    BY <1>3 DEF Connect
  <2>2. device # "FM"
    BY <1>0, <1>3 DEF FmAgrees, Profiles
  <2>3. \A f \in Fields : fm[f] = s[f]
    BY <1>1, <2>2 DEF Fields, FmModeOnConnect
  <2>4. PolicyOK(t, config, st)
    BY ConnectHolds
  <2> HIDE DEF fm, t
  <2>5. \A f \in {"avail", "phone", "force", "fm", "outs"} : t[f] = s[f]
    BY <2>1, <2>3 DEF Fields
  <2>6. AllFollow(t)
    BY <1>1, <2>4, <2>5, SameFieldsFollow DEF AllFollow, PolicyOK, Good
  <2> QED
    BY <2>6 DEF t
<1>4. CASE ~(device = "FM" /\ s.fm # "FM_NONE") /\ ~(device \in s.avail \/ (needs /\ ~opens))
  <2> DEFINE a == Available(fm, device)
             b == changeFmRefCount(a, device, 1)
             u == PlugInput(RouteConnected(b, device), device)
  <2>1. t = u
    BY <1>4 DEF Connect
  <2>2. NoA2dp(t)
    OBVIOUS
  <2> HIDE DEF t
  <2>3. device \notin s.avail
    BY <1>4
  <2>4. MadeAvailable(s, a, device)
    BY <1>0, <1>4, <2>3, AvailableHolds
  <2> HIDE DEF a
  <2>5. Reroutable(b)
    BY <1>0, <2>3, <2>4, ConnectedHolds DEF MadeAvailable
  <2>6. SameButOuts(a, b)
    <3>1. 1 \in Int
      OBVIOUS
    <3> QED
      BY <2>4, <3>1, FmCountHolds DEF MadeAvailable
  <2> HIDE DEF b
  <2>7. b.in = s.in /\ b.force = s.force /\ b.input = s.input
    BY <2>4, <2>6 DEF MadeAvailable, SameButOuts, Fields
  <2>8. InputOn(b)
    BY <1>0, <2>7, InputKept DEF Good
  <2>9. AllFollow(u)
    BY <2>1, <2>2, <2>5, <2>8, ReroutedAndPluggedFollows DEF RouteConnected
  <2> HIDE DEF u
  <2> QED
    BY <2>1, <2>9 DEF t
<1> QED
  BY <1>2, <1>3, <1>4

\* Media has no A2DP device without an output for it.
LEMMA MediaIsNotA2dp ==
    ASSUME NEW s, Plain(s)
    PROVE  getDeviceForStrategy(s, "MEDIA") \cap Profiles.a2dp = {}
<1> DEFINE names == <<"WIRED_HEADPHONE", "WIRED_HEADSET", "USB_ACCESSORY", "USB_DEVICE",
                      "DGTL_DOCK", "AUX_DIGITAL", "ANLG_DOCK", "SPEAKER">>
           wired == First(s, names)
<1>1. ~A2dpUsable(s)
  BY DEF A2dpUsable, Plain, NoA2dp, Object, OutputsOK
<1>2. wired \cap Profiles.a2dp = {}
  <2>1. \A i \in DOMAIN names : names[i] \notin Profiles.a2dp
    <3>1. Profiles.a2dp = {"A2DP", "A2DP_HEADPHONES", "A2DP_SPEAKER"}
      BY DEF Profiles
    <3>2. DOMAIN names = 1 .. 8
      OBVIOUS
    <3> QED
      BY <3>1, <3>2
  <2> HIDE DEF names
  <2> QED
    BY <2>1 DEF First, FirstOf
<1>3. getDeviceForStrategy(s, "MEDIA") = MediaDevice(s, {})
  BY DEF getDeviceForStrategy, DeviceAmong
<1>4. MediaDevice(s, {}) \in {WithFm(s, s.avail \cap {"SPEAKER"}), WithFm(s, wired)}
  BY <1>1 DEF MediaDevice, OrElse
<1>5. \A device : WithFm(s, device) \subseteq device \cup {"FM", "SPEAKER"}
  BY DEF WithFm
<1>6. "FM" \notin Profiles.a2dp /\ "SPEAKER" \notin Profiles.a2dp
  BY DEF Profiles
<1> HIDE DEF wired
<1> QED
  BY <1>2, <1>3, <1>4, <1>5, <1>6

LEMMA FmOffFollows ==
    ASSUME NEW s, NEW config, NEW st, PolicyOK(s, config, st), NoA2dp(s), AllFollow(s),
           "FM" \notin s.avail
    PROVE  AllFollow(FmOff(s))
<1> DEFINE none == [s EXCEPT !.fm = "FM_NONE"]
           a == IF s.pending THEN setForceUse(none, "MEDIA", "NONE") ELSE none
<1>1. DOMAIN s = Fields /\ Object(s) /\ s.fm = "FM_NONE"
  BY DEF PolicyOK, Good, Object, FmAgrees
<1>2. DOMAIN none = Fields /\ \A f \in Fields : none[f] = s[f]
  BY <1>1 DEF Fields
<1> HIDE DEF none
<1>3. /\ none.avail = s.avail /\ none.phone = s.phone /\ none.force = s.force /\ none.fm = s.fm
      /\ none.outs = s.outs /\ none.suspended = s.suspended /\ none.cache = s.cache
      /\ none.pending = s.pending /\ none.input = s.input /\ none.in = s.in
  BY <1>2 DEF Fields
<1>4. Good(none) /\ Plain(none) /\ AllFollow(none)
  <2>1. Object(none)
    BY <1>1, <1>2, <1>3 DEF Object
  <2>2. Plain(s) /\ Plain(none)
    BY <1>1, <1>3, <2>1 DEF Plain, NoA2dp
  <2>3. AllFollow(none)
    BY <1>3, <2>1, <2>2, SameFieldsFollow DEF AllFollow
  <2>4. Fresh(none) /\ InputOn(none)
    BY <1>3, FreshKept, InputKept DEF PolicyOK, Good
  <2> QED
    BY <2>1, <2>2, <2>3, <2>4 DEF Good
<1>5. "MEDIA" \in Usages
  BY DEF Usages
<1>6. AllFollow(a) /\ Object(a) /\ DOMAIN a.outs = DOMAIN s.outs
  <2>1. CASE s.pending
    <3> DEFINE u == setForceUse(none, "MEDIA", "NONE")
    <3>1. Good(u) /\ SameOutputs(none.outs, u.outs) /\ AllFollow(u)
      BY <1>4, <1>5, setForceUseHolds, setForceUseFollows
    <3> HIDE DEF u
    <3>2. a = u
      BY <2>1 DEF u
    <3> QED
      BY <1>3, <3>1, <3>2 DEF Good, SameOutputs
  <2>2. CASE ~s.pending
    BY <1>3, <1>4, <2>2 DEF Good
  <2> QED
    BY <2>1, <2>2
<1> HIDE DEF a
<1>7. Plain(a)
  BY <1>6 DEF Plain, NoA2dp
<1>8. FmOff(s) = a
  BY <1>7, MediaIsNotA2dp DEF FmOff, RestoreCodec, a, none
<1> QED
  BY <1>6, <1>8

LEMMA DisconnectFollows ==
    ASSUME NEW s, NEW device, NEW config, NEW st, PolicyOK(s, config, st), NoA2dp(s),
           AllFollow(s), NoA2dp(Disconnect(s, device))
    PROVE  AllFollow(Disconnect(s, device))
<1> DEFINE e == IF device = "FM" THEN FmOff(s) ELSE s
           a == Unavailable(e, device)
           b == changeFmRefCount(a, device, -1)
           c == RouteDisconnected(a, device)
           u == UnplugInput(c, device)
           t == Disconnect(s, device)
<1>1. /\ Object(e) /\ InputOn(e) /\ e.avail = s.avail /\ SameOutputs(s.outs, e.outs)
      /\ Remembered(e, config) /\ e.fm = (IF device = "FM" THEN "FM_NONE" ELSE s.fm)
  <2>1. CASE device = "FM"
    BY <2>1, FmOffHolds
  <2>2. CASE device # "FM"
    BY <2>2 DEF PolicyOK, Good, SameOutputs
  <2> QED
    BY <2>1, <2>2
<1>2. NoA2dp(t)
  OBVIOUS
<1>3. t = Disconnected(e, device)
  BY DEF Disconnect
<1>4. device \notin s.avail => AllFollow(e)
  BY FmOffFollows
<1> HIDE DEF e, t
<1>5. CASE device \notin e.avail
  BY <1>1, <1>3, <1>4, <1>5 DEF Disconnected, t
<1>6. CASE device \in e.avail
  <2>1. Reroutable(b)
    BY <1>1, <1>6, DisconnectedHolds
  <2>2. t = u
    BY <1>3, <1>6 DEF Disconnected
  <2>3. c = Reroute(b, getNewDevice(a, "primary"),
                    "a2dp" \in DOMAIN a.outs /\ a.avail \cap Profiles.a2dp = {})
    BY DEF RouteDisconnected
  <2>4. DOMAIN a = Fields /\ \A f \in Fields \ {"avail", "suspended"} : a[f] = e[f]
    BY <1>1 DEF Object, Unavailable, Fields
  <2> HIDE DEF a
  <2>5. b.in = a.in /\ b.force = a.force /\ b.input = a.input
    BY <2>4 DEF changeFmRefCount, Fields
  <2> HIDE DEF b
  <2>6. b.in = e.in /\ b.force = e.force /\ b.input = e.input
    BY <2>4, <2>5 DEF Fields
  <2>7. InputOn(b)
    BY <1>1, <2>6, InputKept
  <2>8. AllFollow(u)
    BY <1>2, <2>1, <2>2, <2>3, <2>7, ReroutedAndPluggedFollows
  <2> HIDE DEF u
  <2> QED
    BY <2>2, <2>8 DEF t
<1> QED
  BY <1>5, <1>6

-----------------------------------------------------------------------------
(* The phone.                                                              *)

\* t is s with other mutes only.
Remuted(s, t) ==
    Rerouted(s, t) /\ \A x \in DOMAIN s.outs : t.outs[x].device = s.outs[x].device

LEMMA RemutedFollows ==
    ASSUME NEW s, NEW t, NEW ids, Plain(s), Remuted(s, t), RoutesFollow(s, ids)
    PROVE  RoutesFollow(t, ids)
<1>1. LeftAlone(s, t, ids)
  BY ReroutedAsksSame DEF Remuted, LeftAlone
<1> QED
  BY <1>1, LeftAloneFollows

LEMMA SonificationRemutes ==
    ASSUME NEW s, Object(s), NEW stream, NEW starting, NEW stateChange
    PROVE  Remuted(s, handleIncallSonification(s, stream, starting, stateChange))
<1> DEFINE t == handleIncallSonification(s, stream, starting, stateChange)
<1>1. Rerouted(s, t)
  BY SonificationReroutes
<1>2. DOMAIN s = Fields /\ \A x \in DOMAIN s.outs : DOMAIN s.outs[x] = DescFields
  BY DEF Object, OutputsOK, DescOK
<1>3. ASSUME NEW n, NEW x \in DOMAIN s.outs
      PROVE  [s EXCEPT !.outs["primary"].muteCount["SONIFICATION"] = n].outs[x].device
               = s.outs[x].device
  BY <1>2 DEF DescFields, Fields
<1>4. \A x \in DOMAIN s.outs : t.outs[x].device = s.outs[x].device
  BY <1>3 DEF handleIncallSonification
<1> QED
  BY <1>1, <1>4 DEF Remuted

LEMMA RingMuteRemutes ==
    ASSUME NEW s, Object(s), NEW mute
    PROVE  Remuted(s, RingMute(s, mute))
<1> DEFINE t == RingMute(s, mute)
<1>1. Rerouted(s, t)
  BY RingMuteReroutes
<1>2. DOMAIN s = Fields /\ \A x \in DOMAIN s.outs : DOMAIN s.outs[x] = DescFields
  BY DEF Object, OutputsOK, DescOK
<1>3. \A x \in DOMAIN s.outs : t.outs[x].device = s.outs[x].device
  BY <1>2 DEF RingMute, DescFields, Fields
<1> QED
  BY <1>1, <1>3 DEF Remuted

LEMMA RoutePhonePlaces ==
    ASSUME NEW s, Object(s), NEW device, NEW rings
    PROVE  Placed(s, RoutePhone(s, device, rings), "primary", device)
<1>1. "primary" \in DOMAIN s.outs \ {"dup"}
  BY DEF Object, OutputsOK
<1>2. CASE ~rings
  BY <1>1, <1>2, RouteOnePlaces DEF RoutePhone, RouteOutput
<1>3. CASE rings
  <2> DEFINE a == RingMute(s, TRUE)
             b == RouteOne(a, "primary", device)
             c == RingMute(b, FALSE)
  <2>1. Remuted(s, a)
    BY RingMuteRemutes
  <2> HIDE DEF a
  <2>2. Object(a) /\ DOMAIN a.outs = DOMAIN s.outs
    BY <2>1 DEF Remuted, Rerouted, SameOutputs
  <2>3. Placed(a, b, "primary", device) /\ Rerouted(a, b)
    BY <1>1, <2>2, RouteOnePlaces, RouteOneReroutes
  <2> HIDE DEF b
  <2>4. Remuted(b, c)
    BY <2>3, RingMuteRemutes DEF Rerouted
  <2>5. DOMAIN b.outs = DOMAIN s.outs
    BY <2>2, <2>3 DEF Rerouted, SameOutputs
  <2>6. RoutePhone(s, device, rings) = c
    BY <1>3 DEF RoutePhone, RouteOutput, a, b
  <2> HIDE DEF c
  <2> QED
    BY <1>1, <2>1, <2>2, <2>3, <2>4, <2>5, <2>6 DEF Placed, Remuted
<1> QED
  BY <1>2, <1>3

LEMMA setPhoneStateFollows ==
    ASSUME NEW s, NEW phone, Plain(s), AllFollow(s)
    PROVE  LET t == setPhoneState(s, phone) IN
           RoutesFollow(t, IF ~isInCall(s) /\ isInCall(t) THEN {"primary"} ELSE DOMAIN t.outs)
<1> DEFINE left == handleIncallSonification(s, "RING", FALSE, TRUE)
           a == [left EXCEPT !.phone = phone]
           b == checkA2dpSuspend(a)
           c == updateDevicesAndOutputs(b)
           dev == PrimaryForPhone(left, phone)
           d == RoutePhone(c, dev, IsStateInCall(phone) /\ s.phone = "RINGTONE")
           in == handleIncallSonification(d, "RING", TRUE, TRUE)
           t == setPhoneState(s, phone)
<1>1. t = IF phone = s.phone THEN s
          ELSE IF isInCall(s) /\ ~IsStateInCall(phone) THEN RouteOthers(in) ELSE in
  BY DEF setPhoneState, NewPhone
<1> HIDE DEF t
<1>2. CASE phone = s.phone
  <2>1. RoutesFollow(s, {"primary"})
    BY FollowOneByOne DEF AllFollow
  <2> QED
    BY <1>1, <1>2, <2>1 DEF AllFollow, t
<1>3. CASE phone # s.phone
  <2>0. Object(s)
    BY DEF Plain
  <2> HIDE DEF left
  <2>1. Remuted(s, left) /\ Object(left)
    <3>1. Remuted(s, left)
      BY <2>0, SonificationRemutes DEF left
    <3> QED
      BY <3>1 DEF Remuted, Rerouted
  <2>2. DOMAIN a = Fields /\ a.phone = phone /\ \A f \in Fields \ {"phone"} : a[f] = left[f]
    BY <2>1 DEF Object, Fields
  <2>3. getNewDevice(a, "primary") # {} => dev = getNewDevice(a, "primary")
    BY DEF PrimaryForPhone, OrElse
  <2> HIDE DEF a, dev
  <2>4. /\ a.avail = s.avail /\ a.force = s.force /\ a.fm = s.fm /\ a.outs = left.outs
        /\ a.suspended = s.suspended /\ a.cache = s.cache /\ a.pending = s.pending
        /\ a.input = s.input
    BY <2>1, <2>2 DEF Remuted, Rerouted, SameButOuts, Fields
  <2>5. Object(a)
    BY <2>1, <2>2, <2>4 DEF Object, Plain
  <2>6. Object(b) /\ \A f \in Fields \ {"suspended"} : b[f] = a[f]
    BY <2>5, SuspendKeeps
  <2> HIDE DEF b
  <2>7. Object(c) /\ c.outs = b.outs /\ \A f \in Fields \ {"cache"} : c[f] = b[f]
    BY <2>6, UpdateRefreshes
  <2> HIDE DEF c
  <2>8. /\ c.avail = s.avail /\ c.force = s.force /\ c.fm = s.fm /\ c.outs = left.outs
        /\ c.phone = phone
    BY <2>2, <2>4, <2>6, <2>7 DEF Fields
  <2>9. Rerouted(c, d) /\ Placed(c, d, "primary", dev)
    BY <2>7, RoutePhoneReroutes, RoutePhonePlaces
  <2> HIDE DEF d
  <2>10. Remuted(d, in)
    BY <2>9, SonificationRemutes DEF Rerouted
  <2> HIDE DEF in
  <2>11. /\ DOMAIN left.outs = DOMAIN s.outs /\ DOMAIN in.outs = DOMAIN s.outs
         /\ "primary" \in DOMAIN s.outs
    BY <2>1, <2>8, <2>9, <2>10 DEF Remuted, Rerouted, SameOutputs, Plain, Object, OutputsOK
  <2>12. Plain(a) /\ Plain(c) /\ Plain(in)
    BY <2>4, <2>5, <2>7, <2>8, <2>10, <2>11 DEF Plain, NoA2dp, Remuted, Rerouted
  <2>13. /\ in.avail = s.avail /\ in.force = s.force /\ in.fm = s.fm /\ in.phone = phone
         /\ \A x \in DOMAIN s.outs : in.outs[x].refs = s.outs[x].refs
    BY <2>1, <2>8, <2>9, <2>10, <2>11
       DEF Remuted, Rerouted, SameButOuts, SameOutputs, Fields
  <2>14. Follows(in, "primary")
    <3>1. SameAsk(a, in, "primary")
      BY <2>1, <2>2, <2>4, <2>11, <2>13 DEF SameAsk, isInCall, Remuted, Rerouted, SameOutputs
    <3>2. getNewDevice(in, "primary") = getNewDevice(a, "primary")
      BY <2>12, <3>1, SameAnswer
    <3>3. in.outs["primary"].device = OrElse(dev \cap Supported("primary"),
                                             c.outs["primary"].device)
      BY <2>8, <2>9, <2>10, <2>11 DEF Placed, Remuted, Rerouted, SameOutputs
    <3> QED
      BY <2>3, <3>2, <3>3 DEF Follows, RoutesFollow, OrElse
  <2>15. CASE isInCall(s) <=> IsStateInCall(phone)
    <3>1. t = in
      BY <1>1, <1>3, <2>15
    <3>2. ASSUME NEW x \in DOMAIN s.outs \ {"primary"} PROVE Follows(in, x)
      <4>1. in.outs[x].device = s.outs[x].device
        BY <2>1, <2>8, <2>9, <2>10, <2>11 DEF Placed, Remuted, Rerouted, SameOutputs
      <4>2. isInCall(in) = isInCall(s)
        BY <2>13, <2>15 DEF isInCall, IsStateInCall
      <4>3. SameAsk(s, in, x)
        BY <2>13, <4>2 DEF SameAsk
      <4>4. Follows(s, x)
        BY FollowOneByOne DEF AllFollow
      <4> QED
        BY <2>12, <4>1, <4>3, <4>4, StillFollows
    <3>3. RoutesFollow(in, DOMAIN in.outs)
      BY <2>11, <2>14, <3>2, FollowOneByOne
    <3>4. isInCall(in) <=> isInCall(s)
      BY <2>13, <2>15 DEF isInCall
    <3> QED
      BY <3>1, <3>3, <3>4 DEF t
  <2>16. CASE ~isInCall(s) /\ IsStateInCall(phone)
    <3>1. t = in
      BY <1>1, <1>3, <2>16
    <3>2. isInCall(in)
      BY <2>13, <2>16 DEF isInCall
    <3>3. RoutesFollow(in, {"primary"})
      BY <2>14 DEF Follows
    <3> QED
      BY <2>16, <3>1, <3>2, <3>3 DEF t
  <2>17. CASE isInCall(s) /\ ~IsStateInCall(phone)
    <3> DEFINE ids == {o \in DOMAIN in.outs \ {"primary"} : IsActive(in.outs[o])}
               u == RouteAll(in, ids, getNewDevice)
    <3>1. t = u
      BY <1>1, <1>3, <2>17 DEF RouteOthers
    <3>2. ids \in SUBSET DOMAIN in.outs /\ Object(in)
      BY <2>12 DEF Plain
    <3>3. RoutesFollow(u, {"primary"} \cup ids)
      BY <2>12, <2>14, <3>2, RouteAllFollows DEF Follows
    <3>4. Rerouted(in, u)
      BY <3>2, RouteAllReroutes
    <3>5. \A o \in DOMAIN in.outs : o \in {"primary"} \cup ids \/ ~IsActive(in.outs[o])
      OBVIOUS
    <3> HIDE DEF ids, u
    <3>6. DOMAIN u.outs = DOMAIN in.outs
      BY <3>4 DEF Rerouted, SameOutputs
    <3>7. \A o \in DOMAIN u.outs : IsActive(u.outs[o]) => o \in {"primary"} \cup ids
      BY <3>4, <3>5, <3>6 DEF Rerouted, SameOutputs, IsActive
    <3>8. RoutesFollow(u, DOMAIN u.outs)
      BY <3>3, <3>7 DEF RoutesFollow
    <3> QED
      BY <2>17, <3>1, <3>8 DEF t
  <2> QED
    BY <2>15, <2>16, <2>17
<1> QED
  BY <1>2, <1>3

-----------------------------------------------------------------------------
(* Tracks.                                                                 *)

\* t is s with other tracks of a stream on output o.
Recounted(s, t, o, stream, n) ==
    /\ Plain(t) /\ DOMAIN t.outs = DOMAIN s.outs /\ t.fm = s.fm
    /\ \A x \in DOMAIN s.outs : t.outs[x].device = s.outs[x].device
    /\ \A x \in DOMAIN s.outs \ {o} : SameAsk(s, t, x)
    /\ t.outs[o].refs[stream] = n
    /\ (n > 0 <=> s.outs[o].refs[stream] > 0) => SameAsk(s, t, o)

LEMMA TrackRecounts ==
    ASSUME NEW s, Plain(s), NEW o \in DOMAIN s.outs, NEW stream \in Streams, NEW delta \in {1, -1}
    PROVE  Recounted(s, CountTrack(s, o, stream, delta), o, stream,
                     Added(s.outs[o].refs[stream], delta))
<1> DEFINE outs == changeRefCount(s.outs, o, stream, delta)
           t == [s EXCEPT !.outs = outs]
<1>1. Object(s) /\ OutputsOK(s.outs) /\ DOMAIN s = Fields /\ o # "dup" /\ delta \in Int
  BY DEF Plain, Object, NoA2dp
<1>2. /\ OutputsOK(outs) /\ DOMAIN outs = DOMAIN s.outs
      /\ \A x \in DOMAIN s.outs :
           /\ outs[x].params = s.outs[x].params
           /\ \A z \in Streams : outs[x].refs[z] =
                IF x \in Counting(o) /\ z = stream
                THEN Added(s.outs[x].refs[z], delta) ELSE s.outs[x].refs[z]
  BY <1>1, RefCountHolds
<1>3. \A x \in DOMAIN s.outs : outs[x].device = s.outs[x].device
  BY <1>1 DEF changeRefCount, OutputsOK, DescOK, DescFields
<1>4. CountTrack(s, o, stream, delta) = t
  BY <1>1 DEF CountTrack, Fields
<1> HIDE DEF outs
<1>5. Object(t) /\ SameButOuts(s, t) /\ t.outs = outs
  BY <1>1, <1>2, OtherOuts
<1> HIDE DEF t
<1>6. t.avail = s.avail /\ t.force = s.force /\ t.fm = s.fm /\ t.phone = s.phone
  BY <1>5 DEF SameButOuts, Fields
<1>7. \A x \in DOMAIN s.outs, z \in Streams : outs[x].refs[z] =
        IF x = o /\ z = stream THEN Added(s.outs[x].refs[z], delta) ELSE s.outs[x].refs[z]
  BY <1>1, <1>2 DEF Counting
<1>8. Plain(t)
  BY <1>2, <1>5 DEF Plain, NoA2dp
<1>9. \A x \in DOMAIN s.outs \ {o} : SameAsk(s, t, x)
  BY <1>5, <1>6, <1>7 DEF SameAsk, isInCall
<1>10. (Added(s.outs[o].refs[stream], delta) > 0 <=> s.outs[o].refs[stream] > 0)
         => SameAsk(s, t, o)
  BY <1>5, <1>6, <1>7 DEF SameAsk, isInCall
<1>11. /\ t.outs[o].refs[stream] = Added(s.outs[o].refs[stream], delta)
       /\ DOMAIN t.outs = DOMAIN s.outs
       /\ \A x \in DOMAIN s.outs : t.outs[x].device = s.outs[x].device
  BY <1>2, <1>3, <1>5, <1>7
<1> QED
  BY <1>4, <1>6, <1>8, <1>9, <1>10, <1>11 DEF Recounted

\* A track more or less of a stream that plays on: nothing moves.
LEMMA StillPlaysFollows ==
    ASSUME NEW s, NEW t, Plain(s), AllFollow(s), NEW o \in DOMAIN s.outs, NEW stream \in Streams,
           NEW n, Recounted(s, t, o, stream, n), n > 0, s.outs[o].refs[stream] > 0
    PROVE  AllFollow(t)
<1>1. LeftAlone(s, t, DOMAIN t.outs)
  BY DEF Recounted, LeftAlone
<1> QED
  BY <1>1, LeftAloneFollows DEF AllFollow, Recounted

\* The other outputs still follow.
LEMMA OthersStillFollow ==
    ASSUME NEW s, NEW t, Plain(s), AllFollow(s), NEW o \in DOMAIN s.outs, NEW stream \in Streams,
           NEW n, Recounted(s, t, o, stream, n)
    PROVE  RoutesFollow(t, DOMAIN t.outs \ {o})
<1>1. LeftAlone(s, t, DOMAIN t.outs \ {o}) /\ DOMAIN t.outs = DOMAIN s.outs
  BY DEF Recounted, LeftAlone
<1>2. RoutesFollow(s, DOMAIN t.outs \ {o})
  BY <1>1 DEF AllFollow, RoutesFollow
<1> QED
  BY <1>1, <1>2, LeftAloneFollows

LEMMA NotifiedFollows ==
    ASSUME NEW s, Plain(s), AllFollow(s), NEW stream
    PROVE  AllFollow(handleNotificationRoutingForStream(s, stream))
<1> DEFINE t == updateDevicesAndOutputs(s)
<1>1. Object(t) /\ t.outs = s.outs /\ \A f \in Fields \ {"cache"} : t[f] = s[f]
  BY UpdateRefreshes DEF Plain
<1> HIDE DEF t
<1>2. \A f \in {"avail", "phone", "force", "fm", "outs"} : t[f] = s[f]
  BY <1>1 DEF Fields
<1>3. AllFollow(t)
  BY <1>1, <1>2, SameFieldsFollow DEF AllFollow
<1> QED
  BY <1>3 DEF handleNotificationRoutingForStream, t

\* The first track of a stream: the sound over FM is of the headset too.
LEMMA StartDeviceFollows ==
    ASSUME NEW s, Plain(s), NEW o \in DOMAIN s.outs, NEW stream \in Streams,
           s.outs[o].refs[stream] > 0, RoutesFollow(s, DOMAIN s.outs \ {o})
    PROVE  AllFollow(RouteOutput(s, o, StartDevice(s, stream, getNewDevice(s, o))))
<1> DEFINE new == getNewDevice(s, o)
           device == StartDevice(s, stream, new)
           t == RouteOutput(s, o, device)
<1>1. o # "dup" /\ t = RouteOne(s, o, device) /\ Object(s) /\ o \in OutputIds
  BY DEF Plain, NoA2dp, RouteOutput, Object, OutputsOK
<1>2. Placed(s, t, o, device) /\ Rerouted(s, t)
  BY <1>1, RouteOnePlaces, RouteOneReroutes
<1> HIDE DEF t
<1>3. /\ \A x \in DOMAIN s.outs : SameAsk(s, t, x)
      /\ DOMAIN t.outs = DOMAIN s.outs /\ Plain(t)
  BY <1>2, ReroutedAsksSame
<1>4. getNewDevice(t, o) = new /\ SoundOverFm(t, o) = SoundOverFm(s, o)
  BY <1>3, SameAnswer
<1>5. new \cap Supported(o) # {} =>
        t.outs[o].device \in {new \cap Supported(o), (new \cap Supported(o)) \cup SoundOverFm(s, o)}
  <2>1. CASE device = new
    BY <1>2, <2>1 DEF Placed, OrElse
  <2>2. CASE device # new
    <3>1. /\ stream = "SYSTEM" /\ s.fm = "FM_ANALOG" /\ new = {"FM"}
          /\ device = {"FM", "WIRED_HEADSET"}
      BY <2>2 DEF StartDevice
    <3>2. SoundOverFm(s, o) = {"WIRED_HEADSET"}
      BY <3>1 DEF SoundOverFm
    <3>3. CASE "FM" \in Supported(o)
      <4>1. o = "primary"
        BY <1>1, <3>3 DEF Supported, Profiles, OutputIds
      <4>2. device \cap Supported(o) = {"FM", "WIRED_HEADSET"}
        BY <3>1, <4>1 DEF Supported, Profiles
      <4>3. new \cap Supported(o) = {"FM"}
        BY <3>1, <3>3
      <4> HIDE DEF new, device
      <4> QED
        BY <1>2, <3>2, <4>2, <4>3 DEF Placed, OrElse
    <3>4. CASE "FM" \notin Supported(o)
      BY <3>1, <3>4
    <3> QED
      BY <3>3, <3>4
  <2> QED
    BY <2>1, <2>2
<1>6. Follows(t, o)
  BY <1>4, <1>5 DEF Follows, RoutesFollow
<1>7. ASSUME NEW x \in DOMAIN t.outs \ {o} PROVE Follows(t, x)
  BY <1>2, <1>3, <1>7, FollowOneByOne, StillFollows DEF Placed
<1> QED
  BY <1>6, <1>7, FollowOneByOne DEF AllFollow, t

LEMMA startOutputFollows ==
    ASSUME NEW s, Plain(s), AllFollow(s), NEW o \in DOMAIN s.outs, NEW stream \in Streams
    PROVE  AllFollow(startOutput(s, o, stream))
<1> DEFINE up == CountTrack(s, o, stream, 1)
           a == RouteOutput(up, o, StartDevice(s, stream, getNewDevice(up, o)))
           b == handleIncallSonification(a, stream, TRUE, FALSE)
           c == handleNotificationRoutingForStream(b, stream)
           n == Added(s.outs[o].refs[stream], 1)
           t == startOutput(s, o, stream)
<1>1. t = IF up.outs[o].refs[stream] # 1 THEN up ELSE c
  BY DEF startOutput, CountTrack
<1>2. Recounted(s, up, o, stream, n)
  BY TrackRecounts
<1>3. s.outs[o].refs[stream] \in Nat
  BY DEF Plain, Object, OutputsOK, DescOK
<1>4. up.outs[o].refs[stream] = s.outs[o].refs[stream] + 1 /\ n = s.outs[o].refs[stream] + 1
  BY <1>2, <1>3 DEF Recounted, Added
<1> HIDE DEF up, n, t
<1>5. CASE up.outs[o].refs[stream] # 1
  BY <1>1, <1>2, <1>3, <1>4, <1>5, StillPlaysFollows DEF t
<1>6. CASE up.outs[o].refs[stream] = 1
  <2>1. Plain(up) /\ o \in DOMAIN up.outs /\ up.fm = s.fm
    BY <1>2 DEF Recounted
  <2>2. RoutesFollow(up, DOMAIN up.outs \ {o})
    BY <1>2, OthersStillFollow
  <2>3. StartDevice(s, stream, getNewDevice(up, o)) = StartDevice(up, stream, getNewDevice(up, o))
    BY <2>1 DEF StartDevice
  <2>4. up.outs[o].refs[stream] > 0
    BY <1>6
  <2>5. AllFollow(a)
    BY <2>1, <2>2, <2>3, <2>4, StartDeviceFollows
  <2>6. Rerouted(up, a)
    BY <2>1, RouteOutputReroutes DEF Plain
  <2> HIDE DEF a
  <2>7. Plain(a)
    BY <2>1, <2>6, ReroutedAsksSame
  <2>8. Remuted(a, b)
    BY <2>7, SonificationRemutes DEF Plain
  <2> HIDE DEF b
  <2>9. Plain(b) /\ DOMAIN b.outs = DOMAIN a.outs
    BY <2>7, <2>8, ReroutedAsksSame DEF Remuted
  <2>10. AllFollow(b)
    BY <2>5, <2>7, <2>8, <2>9, RemutedFollows DEF AllFollow
  <2>11. AllFollow(c)
    BY <2>9, <2>10, NotifiedFollows
  <2> HIDE DEF c
  <2> QED
    BY <1>1, <1>6, <2>11 DEF t
<1> QED
  BY <1>5, <1>6

LEMMA stopOutputFollows ==
    ASSUME NEW s, Plain(s), AllFollow(s), NEW o \in DOMAIN s.outs, NEW stream \in Streams
    PROVE  AllFollow(stopOutput(s, o, stream))
<1> DEFINE unmuted == handleIncallSonification(s, stream, FALSE, FALSE)
           down == CountTrack(unmuted, o, stream, -1)
           new == getNewDevice(down, o)
           a == RouteOutput(down, o, new)
           b == RouteModule(a, o, new)
           c == handleNotificationRoutingForStream(b, stream)
           n == Added(unmuted.outs[o].refs[stream], -1)
           t == stopOutput(s, o, stream)
<1>1. t = IF s.outs[o].refs[stream] = 0 THEN unmuted
          ELSE IF down.outs[o].refs[stream] # 0 THEN down ELSE c
  BY DEF stopOutput, RouteStopped, CountTrack
<1>2. Remuted(s, unmuted)
  BY SonificationRemutes DEF Plain
<1> HIDE DEF unmuted, t
<1>3. /\ Plain(unmuted) /\ o \in DOMAIN unmuted.outs /\ DOMAIN unmuted.outs = DOMAIN s.outs
      /\ unmuted.outs[o].refs = s.outs[o].refs
  BY <1>2, ReroutedAsksSame DEF Remuted, Rerouted, SameOutputs
<1>4. AllFollow(unmuted)
  BY <1>2, <1>3, RemutedFollows DEF AllFollow
<1>5. Recounted(unmuted, down, o, stream, n)
  BY <1>3, TrackRecounts
<1>6. s.outs[o].refs[stream] \in Nat
  BY DEF Plain, Object, OutputsOK, DescOK
<1>7. s.outs[o].refs[stream] # 0 =>
        /\ unmuted.outs[o].refs[stream] > 0 /\ n \in Nat /\ down.outs[o].refs[stream] = n
  BY <1>3, <1>5, <1>6 DEF Recounted, Added
<1> HIDE DEF down, n
<1>8. CASE s.outs[o].refs[stream] = 0
  BY <1>1, <1>4, <1>8 DEF t
<1>9. CASE s.outs[o].refs[stream] # 0 /\ down.outs[o].refs[stream] # 0
  <2>1. AllFollow(down)
    BY <1>3, <1>4, <1>5, <1>7, <1>9, StillPlaysFollows
  <2> QED
    BY <1>1, <1>9, <2>1 DEF t
<1>10. CASE s.outs[o].refs[stream] # 0 /\ down.outs[o].refs[stream] = 0
  <2>1. Plain(down) /\ o \in DOMAIN down.outs
    BY <1>3, <1>5 DEF Recounted
  <2>2. RoutesFollow(down, DOMAIN down.outs \ {o})
    BY <1>3, <1>4, <1>5, OthersStillFollow
  <2>3. RoutesFollow(a, (DOMAIN down.outs \ {o}) \cup {o})
    BY <2>1, <2>2, RouteOutputFollows
  <2>4. Rerouted(down, a)
    BY <2>1, RouteOutputReroutes DEF Plain
  <2> HIDE DEF a, new
  <2>5. Plain(a) /\ DOMAIN a.outs = DOMAIN down.outs
    BY <2>1, <2>4, ReroutedAsksSame
  <2>6. AllFollow(a)
    <3>1. (DOMAIN down.outs \ {o}) \cup {o} = DOMAIN a.outs
      BY <2>1, <2>5
    <3> QED
      BY <2>3, <3>1 DEF AllFollow
  <2>7. PICK ids \in SUBSET DOMAIN a.outs : b = RouteAll(a, ids, getNewDevice)
    BY DEF RouteModule
  <2>8. Rerouted(a, b)
    BY <2>5, <2>7, RouteAllReroutes DEF Plain
  <2>9. RoutesFollow(b, DOMAIN a.outs \cup ids)
    BY <2>5, <2>6, <2>7, RouteAllFollows DEF AllFollow
  <2> HIDE DEF b
  <2>10. Plain(b) /\ DOMAIN b.outs = DOMAIN a.outs
    BY <2>5, <2>8, ReroutedAsksSame
  <2>11. AllFollow(b)
    BY <2>9, <2>10 DEF AllFollow, RoutesFollow
  <2>12. AllFollow(c)
    BY <2>10, <2>11, NotifiedFollows
  <2> HIDE DEF c
  <2> QED
    BY <1>1, <1>10, <2>12 DEF t
<1> QED
  BY <1>8, <1>9, <1>10

-----------------------------------------------------------------------------
(* Direct outputs.                                                         *)

\* t is s with the direct output o opened, shared or closed.
Redirected(s, t, o) ==
    /\ Object(t) /\ SameButOuts(s, t)
    /\ DOMAIN t.outs \subseteq DOMAIN s.outs \cup {o}
    /\ \A x \in DOMAIN t.outs :
        \/ x = o /\ t.outs[x].refs = NoRefs
        \/ x \in DOMAIN s.outs /\ t.outs[x].refs = s.outs[x].refs
                               /\ t.outs[x].device = s.outs[x].device

LEMMA RedirectedFollows ==
    ASSUME NEW s, NEW t, Plain(s), AllFollow(s), NEW o \in {"voip", "lpa"}, Redirected(s, t, o)
    PROVE  AllFollow(t)
<1>1. t.avail = s.avail /\ t.phone = s.phone /\ t.force = s.force /\ t.fm = s.fm
  BY DEF Redirected, SameButOuts, Fields
<1>2. Plain(t)
  BY DEF Redirected, Plain, NoA2dp
<1>3. ASSUME NEW x \in DOMAIN t.outs PROVE Follows(t, x)
  <2>1. CASE x = o /\ t.outs[x].refs = NoRefs
    <3>1. ~IsActive(t.outs[x])
      BY <2>1 DEF IsActive, NoRefs
    <3> QED
      BY <3>1 DEF Follows, RoutesFollow
  <2>2. CASE x \in DOMAIN s.outs /\ t.outs[x].refs = s.outs[x].refs
                                 /\ t.outs[x].device = s.outs[x].device
    <3>1. SameAsk(s, t, x)
      BY <1>1, <2>2 DEF SameAsk, isInCall
    <3>2. Follows(s, x)
      BY <2>2, FollowOneByOne DEF AllFollow
    <3> QED
      BY <1>2, <2>2, <3>1, <3>2, StillFollows
  <2> QED
    BY <2>1, <2>2 DEF Redirected
<1> QED
  BY <1>3, FollowOneByOne DEF AllFollow

LEMMA CloseRedirects ==
    ASSUME NEW s, NEW config, NEW st, PolicyOK(s, config, st), NEW o \in {"voip", "lpa"}
    PROVE  Redirected(s, [s EXCEPT !.outs = closeOutput(s.outs, o)], o)
<1> DEFINE outs == closeOutput(s.outs, o)
           t == [s EXCEPT !.outs = outs]
<1>1. /\ OutputsOK(outs) /\ DOMAIN outs = DOMAIN s.outs \ {o}
      /\ \A x \in DOMAIN outs : outs[x].refs = s.outs[x].refs
  BY CloseDirectHolds
<1>2. Silent(s.outs, outs)
  BY CloseIsSilent DEF PolicyOK, Good, Object
<1> HIDE DEF outs
<1>3. Object(t) /\ SameButOuts(s, t) /\ t.outs = outs
  BY <1>1, OtherOuts DEF PolicyOK, Good
<1> HIDE DEF t
<1> QED
  BY <1>1, <1>2, <1>3 DEF Redirected, Silent, t, outs

LEMMA getOutputFollows ==
    ASSUME NEW s, NEW config, NEW st, PolicyOK(s, config, st), NoA2dp(s), AllFollow(s),
           NEW stream, NEW request, NEW opens \in BOOLEAN
    PROVE  AllFollow(getOutput(s, stream, request, opens))
<1> DEFINE device == getDeviceForStrategy(s, getStrategy(stream))
           fits == getProfileForDirectOutput(s, device, request.flags)
           o == CHOOSE x \in fits : TRUE
           open == o \in DOMAIN s.outs
           cut == IF open THEN closeOutput(s.outs, o) ELSE s.outs
           desc == [NewOutput(device) EXCEPT !.params = request.params, !.openCount = 1]
           outs == IF opens THEN Opened(cut, o, desc) ELSE cut
           t == getOutput(s, stream, request, opens)
<1>1. DOMAIN s = Fields /\ Plain(s) /\ Object(s)
  BY DEF PolicyOK, Good, Object, Plain
<1>2. Object(t)
  BY getOutputHolds DEF PolicyOK, Good
<1>3. CASE "DIRECT" \notin request.flags \/ fits = {}
  BY <1>3 DEF getOutput, DirectOutput
<1>4. CASE ~("DIRECT" \notin request.flags \/ fits = {})
  <2>1. o \in {"voip", "lpa"}
    <3>1. o \in fits
      BY <1>4
    <3> HIDE DEF o, device
    <3> QED
      BY <3>1, FitsAreDirect
  <2>2. t = IF open /\ s.outs[o].params = request.params
            THEN [s EXCEPT !.outs[o].openCount = @ + 1] ELSE [s EXCEPT !.outs = outs]
    BY <1>4 DEF getOutput, DirectOutput
  <2>3. desc.refs = NoRefs
    <3> HIDE DEF o, device
    <3> QED
      BY DEF NewOutput
  <2> HIDE DEF fits, o, desc, t, device
  <2>4. CASE open /\ s.outs[o].params = request.params
    <3>1. SameButOuts(s, t) /\ DOMAIN t.outs = DOMAIN s.outs
      BY <1>1, <2>2, <2>4 DEF SameButOuts, Fields
    <3>2. \A x \in DOMAIN s.outs : t.outs[x].refs = s.outs[x].refs
                                   /\ t.outs[x].device = s.outs[x].device
      BY <1>1, <2>2, <2>4 DEF Object, OutputsOK, DescOK, DescFields, Fields
    <3> QED
      BY <1>1, <1>2, <2>1, <3>1, <3>2, RedirectedFollows DEF Redirected, t
  <2>5. CASE ~(open /\ s.outs[o].params = request.params)
    <3>1. SameButOuts(s, t) /\ t.outs = outs
      BY <1>1, <2>2, <2>5 DEF SameButOuts, Fields
    <3>2. /\ DOMAIN cut = DOMAIN s.outs \ {o}
          /\ \A x \in DOMAIN cut : cut[x].refs = s.outs[x].refs /\ cut[x].device = s.outs[x].device
      <4>1. CASE open
        <5> DEFINE closed == [s EXCEPT !.outs = closeOutput(s.outs, o)]
        <5>1. Redirected(s, closed, o)
          BY <2>1, CloseRedirects
        <5>2. closed.outs = cut
          BY <1>1, <4>1 DEF Fields
        <5>3. DOMAIN closeOutput(s.outs, o) = DOMAIN s.outs \ {o}
          BY <2>1, CloseDirectHolds
        <5>4. cut = closeOutput(s.outs, o)
          BY <4>1
        <5> HIDE DEF closed, cut
        <5> QED
          BY <5>1, <5>2, <5>3, <5>4 DEF Redirected
      <4>2. CASE ~open
        BY <4>2
      <4> QED
        BY <4>1, <4>2
    <3> HIDE DEF cut
    <3>3. /\ DOMAIN outs \subseteq DOMAIN cut \cup {o}
          /\ \A x \in DOMAIN outs : outs[x] = IF x = o THEN desc ELSE cut[x]
      BY <3>2 DEF Opened
    <3> HIDE DEF outs
    <3>4. Redirected(s, t, o)
      BY <1>2, <2>3, <3>1, <3>2, <3>3 DEF Redirected, t
    <3> QED
      BY <1>1, <2>1, <3>4, RedirectedFollows DEF t
  <2> QED
    BY <2>4, <2>5
<1> QED
  BY <1>3, <1>4

LEMMA releaseOutputFollows ==
    ASSUME NEW s, NEW config, NEW st, PolicyOK(s, config, st), NoA2dp(s), AllFollow(s),
           NEW o \in DOMAIN s.outs
    PROVE  AllFollow(releaseOutput(s, o))
<1>1. CASE o = "dup" \/ "DIRECT" \notin ProfileFlags[o]
  BY <1>1 DEF releaseOutput
<1>2. CASE ~(o = "dup" \/ "DIRECT" \notin ProfileFlags[o])
  <2>1. o \in {"voip", "lpa"}
    <3>1. o \in OutputIds
      BY DEF PolicyOK, Good, Object, OutputsOK
    <3> QED
      BY <1>2, <3>1 DEF OutputIds, ProfileFlags
  <2>2. releaseOutput(s, o) = [s EXCEPT !.outs = closeOutput(s.outs, o)]
    <3>1. DOMAIN s = Fields
      BY DEF PolicyOK, Good, Object
    <3> QED
      BY <1>2, <3>1 DEF releaseOutput, Fields
  <2>3. Redirected(s, releaseOutput(s, o), o)
    BY <2>1, <2>2, CloseRedirects
  <2>4. Plain(s)
    BY DEF PolicyOK, Good, Plain
  <2> QED
    BY <2>1, <2>3, <2>4, RedirectedFollows
<1> QED
  BY <1>1, <1>2

-----------------------------------------------------------------------------
(* The action property.                                                    *)

LEMMA StepFollowsPolicy ==
    ASSUME PolicyInv, [Next]_vars, NoA2dp(apm), AllFollow(apm), NoA2dp(apm')
    PROVE  RoutesFollow(apm', IF CallBegins THEN {"primary"} ELSE DOMAIN apm'.outs)
<1>0. PolicyOK(apm, requested, started) /\ Good(apm) /\ Plain(apm)
  BY DEF PolicyInv, PolicyOK, Good, Plain
<1>1. ASSUME NEW t, apm' = t, NoA2dp(t), AllFollow(t)
      PROVE  RoutesFollow(apm', IF CallBegins THEN {"primary"} ELSE DOMAIN apm'.outs)
  BY <1>1 DEF AllFollow, RoutesFollow
<1> DEFINE Goal == RoutesFollow(apm', IF CallBegins THEN {"primary"} ELSE DOMAIN apm'.outs)
<1>2. ASSUME NEW t, Operation(t), NoA2dp(t) => AllFollow(t) PROVE Goal
  BY <1>1, <1>2 DEF Operation, Becomes
<1>3. ASSUME NEW d \in Connectable, DeviceConnected(d) PROVE Goal
  <2>1. PICK analog \in BOOLEAN, opens \in BOOLEAN : Operation(Connect(apm, d, analog, opens))
    BY <1>3 DEF DeviceConnected
  <2>2. NoA2dp(Connect(apm, d, analog, opens)) => AllFollow(Connect(apm, d, analog, opens))
    BY <1>0, ConnectFollows
  <2> QED
    BY <1>2, <2>1, <2>2
<1>4. ASSUME NEW d \in Connectable, DeviceDisconnected(d) PROVE Goal
  <2>1. Operation(Disconnect(apm, d))
    BY <1>4 DEF DeviceDisconnected
  <2>2. NoA2dp(Disconnect(apm, d)) => AllFollow(Disconnect(apm, d))
    BY <1>0, DisconnectFollows
  <2> QED
    BY <1>2, <2>1, <2>2
<1>5. ASSUME NEW phone \in PhoneStates, PhoneStateSet(phone) PROVE Goal
  <2>1. apm' = setPhoneState(apm, phone)
    BY <1>5 DEF PhoneStateSet, Operation, Becomes
  <2>2. LET t == setPhoneState(apm, phone) IN
        RoutesFollow(t, IF ~isInCall(apm) /\ isInCall(t) THEN {"primary"} ELSE DOMAIN t.outs)
    BY <1>0, setPhoneStateFollows
  <2>3. CallBegins <=> ~isInCall(apm) /\ isInCall(setPhoneState(apm, phone))
    BY <2>1 DEF CallBegins
  <2> QED
    BY <2>1, <2>2, <2>3
<1>6. ASSUME NEW usage \in Usages, NEW config, ForceUseSet(usage, config) PROVE Goal
  <2>1. apm' = setForceUse(apm, usage, config)
    BY <1>6 DEF ForceUseSet, Becomes
  <2>2. AllFollow(setForceUse(apm, usage, config))
    BY <1>0, setForceUseFollows
  <2> QED
    BY <1>1, <2>1, <2>2
<1>7. ASSUME NEW o \in DOMAIN apm.outs, NEW stream \in Streams, OutputStarted(o, stream)
      PROVE  Goal
  <2>1. apm' = startOutput(apm, o, stream)
    BY <1>7 DEF OutputStarted, TrackChanges, Becomes
  <2>2. AllFollow(startOutput(apm, o, stream))
    BY <1>0, startOutputFollows
  <2> QED
    BY <1>1, <2>1, <2>2
<1>8. ASSUME NEW o \in DOMAIN apm.outs, NEW stream \in Streams, OutputStopped(o, stream)
      PROVE  Goal
  <2>1. apm' = stopOutput(apm, o, stream)
    BY <1>8 DEF OutputStopped, TrackChanges, Becomes
  <2>2. AllFollow(stopOutput(apm, o, stream))
    BY <1>0, stopOutputFollows
  <2> QED
    BY <1>1, <2>1, <2>2
<1>9. ASSUME NEW request \in DirectRequests, DirectOutputAsked("MUSIC", request) PROVE Goal
  <2>1. PICK opens \in BOOLEAN : Operation(getOutput(apm, "MUSIC", request, opens))
    BY <1>9 DEF DirectOutputAsked
  <2>2. AllFollow(getOutput(apm, "MUSIC", request, opens))
    BY <1>0, getOutputFollows
  <2> QED
    BY <1>2, <2>1, <2>2
<1>10. ASSUME NEW o \in DOMAIN apm.outs, OutputReleased(o) PROVE Goal
  <2>1. Operation(releaseOutput(apm, o)) /\ AllFollow(releaseOutput(apm, o))
    BY <1>0, <1>10, releaseOutputFollows DEF OutputReleased
  <2> QED
    BY <1>2, <2>1
<1>11. ASSUME (\E source \in Sources : InputStarted(source)) \/ stopInput PROVE Goal
  <2>1. PolicyInv'
    BY <1>11, InputsHold
  <2>2. PICK input : apm' = [apm EXCEPT !.input = input]
    BY <1>11 DEF InputStarted, stopInput, Becomes
  <2> DEFINE t == [apm EXCEPT !.input = input]
  <2>3. Object(t)
    BY <2>1, <2>2 DEF PolicyInv, PolicyOK, Good
  <2>4. \A f \in {"avail", "phone", "force", "fm", "outs"} : t[f] = apm[f]
    BY <1>0 DEF Plain, Object, Fields
  <2>5. apm' = t
    BY <2>2
  <2> HIDE DEF t
  <2>6. AllFollow(t)
    BY <1>0, <2>3, <2>4, SameFieldsFollow DEF AllFollow
  <2> QED
    BY <1>1, <2>5, <2>6
<1>12. CASE UNCHANGED vars
  BY <1>1, <1>12 DEF vars
<1>13. {"MEDIA", "COMMUNICATION", "RECORD"} \subseteq Usages
  BY DEF Usages
<1> QED
  BY <1>3, <1>4, <1>5, <1>6, <1>7, <1>8, <1>9, <1>10, <1>11, <1>12, <1>13 DEF Next

\* While nothing is duplicated over A2DP, no operation leaves an output that
\* plays on a device other than the policy's (RoutesFollowPolicy): of every
\* call that can change a route, setOutputDevice() reaches the outputs that it
\* must, but for the other outputs when a call begins.
THEOREM OutputsFollowPolicy == Spec => RoutesFollowPolicy
<1>1. PolicyInv /\ [Next]_vars =>
        [(NoA2dp(apm) /\ RoutesFollow(apm, DOMAIN apm.outs) /\ NoA2dp(apm'))
         => RoutesFollow(apm', IF CallBegins THEN {"primary"} ELSE DOMAIN apm'.outs)]_vars
  BY StepFollowsPolicy DEF AllFollow
<1> QED
  BY <1>1, PolicyHolds, PTL DEF Spec, RoutesFollowPolicy

=============================================================================
