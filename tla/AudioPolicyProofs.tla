-------------------------- MODULE AudioPolicyProofs --------------------------
(***************************************************************************)
(* Safety of the audio policy for any devices, configurations and direct   *)
(* outputs, and any number of operations.                                  *)
(*                                                                         *)
(* An operator of AudioPolicy takes the object to the object, and the      *)
(* lemmas say what each leaves: the routing of an output changes nothing a *)
(* device is computed from, and whatever does change such a thing ends in  *)
(* the update of the cache and of the input.                               *)
(***************************************************************************)
EXTENDS AudioPolicy, TLAPS

-----------------------------------------------------------------------------
(* The object.                                                             *)

Fields == {"avail", "in", "phone", "force", "fm", "pending", "suspended", "cache", "input", "outs"}
Usages == {"MEDIA", "COMMUNICATION", "RECORD"}
DescFields == {"device", "refs", "muted", "muteCount", "params", "openCount"}

DescOK(o, desc) ==
    /\ DOMAIN desc = DescFields
    /\ desc.device \subseteq Supported(o)
    /\ desc.refs \in [Streams -> Nat] /\ desc.muteCount \in [Strategies -> Nat]

\* The output of A2DP comes and goes with the one that duplicates to it.
OutputsOK(outs) ==
    /\ DOMAIN outs \subseteq OutputIds /\ "primary" \in DOMAIN outs
    /\ "a2dp" \in DOMAIN outs <=> "dup" \in DOMAIN outs
    /\ \A o \in DOMAIN outs : DescOK(o, outs[o])

Object(s) ==
    /\ DOMAIN s = Fields
    /\ s.fm \in {"FM_NONE", "FM_DIGITAL", "FM_ANALOG"}
    /\ s.pending \in BOOLEAN /\ s.suspended \in BOOLEAN
    /\ s.avail \subseteq Attached \cup Connectable
    /\ DOMAIN s.force = Usages /\ DOMAIN s.cache = Strategies
    /\ DOMAIN s.input = {"source", "device"}
    /\ OutputsOK(s.outs)

\* t is s with other outputs.
SameButOuts(s, t) ==
    /\ DOMAIN t = DOMAIN s
    /\ \A f \in Fields \ {"outs"} : t[f] = s[f]

\* t is s with outputs on other devices, and muted otherwise.
SameOutputs(outs, new) ==
    /\ DOMAIN new = DOMAIN outs
    /\ \A o \in DOMAIN outs : /\ new[o].refs = outs[o].refs
                              /\ new[o].params = outs[o].params
Rerouted(s, t) == Object(t) /\ SameButOuts(s, t) /\ SameOutputs(s.outs, t.outs)

-----------------------------------------------------------------------------
(* What a device is computed from.                                         *)

LEMMA DeviceReads ==
    ASSUME NEW s, NEW t, NEW i,
           t.avail = s.avail, t.phone = s.phone, t.force = s.force, t.fm = s.fm,
           t.suspended = s.suspended, t.cache["PHONE"] = s.cache["PHONE"],
           "a2dp" \in DOMAIN t.outs <=> "a2dp" \in DOMAIN s.outs
    PROVE  getDeviceForStrategy(t, i) = getDeviceForStrategy(s, i)
<1>1. isInCall(t) = isInCall(s)
  BY DEF isInCall
<1>2. A2dpUsable(t) <=> A2dpUsable(s)
  BY DEF A2dpUsable
<1>3. \A names : First(t, names) = First(s, names)
  BY DEF First
<1>4. PhoneDevice(t, i) = PhoneDevice(s, i)
  BY <1>1, <1>2, <1>3 DEF PhoneDevice
<1>5. \A device : WithFm(t, device) = WithFm(s, device)
  BY DEF WithFm
<1>6. \A first : MediaDevice(t, first) = MediaDevice(s, first)
  BY <1>2, <1>3, <1>5 DEF MediaDevice
<1>7. \A phone, heard : DeviceAmong(t, i, phone, heard) = DeviceAmong(s, i, phone, heard)
  BY <1>1 DEF DeviceAmong
<1> QED
  BY <1>1, <1>4, <1>6, <1>7 DEF getDeviceForStrategy

LEMMA InputReads ==
    ASSUME NEW s, NEW t, NEW source \in Sources,
           t.in = s.in, t.force["RECORD"] = s.force["RECORD"]
    PROVE  getDeviceForInputSource(t, source) = getDeviceForInputSource(s, source)
BY PolicyAssumption DEF getDeviceForInputSource

-----------------------------------------------------------------------------
(* Routing an output.                                                      *)

LEMMA ReroutedIsPreorder ==
    /\ \A s : Object(s) => Rerouted(s, s)
    /\ \A s, t, u : Rerouted(s, t) /\ Rerouted(t, u) => Rerouted(s, u)
BY DEF Rerouted, SameButOuts, SameOutputs, Object

LEMMA MutesReroute ==
    ASSUME NEW s, Object(s), NEW o \in DOMAIN s.outs, NEW tempMute, NEW mutes
    PROVE  OutputsOK(ApplyMutes(s, o, tempMute, mutes))
           /\ SameOutputs(s.outs, ApplyMutes(s, o, tempMute, mutes))
<1> DEFINE outs == s.outs
           touched == {i \in Strategies : tempMute \/ (i \in mutes) # (i \in s.outs[o].muted)}
           Counts(x) == [i \in Strategies |->
               IF i \in touched /\ Supported(x) \cap Supported(o) # {}
               THEN Muted(s.outs[x].muteCount[i], i \in mutes) ELSE s.outs[x].muteCount[i]]
           new == ApplyMutes(s, o, tempMute, mutes)
<1>1. new = [x \in DOMAIN s.outs |->
                [s.outs[x] EXCEPT !.muteCount = Counts(x),
                                  !.muted = IF x = o THEN mutes ELSE @]]
  BY DEF ApplyMutes
<1>2. \A x \in DOMAIN outs : DescOK(x, outs[x])
  BY DEF Object, OutputsOK
<1>3. \A x \in DOMAIN outs : Counts(x) \in [Strategies -> Nat]
  BY <1>2 DEF DescOK, Muted
<1> HIDE DEF touched, Counts, new
<1>4. \A x \in DOMAIN outs :
        /\ DOMAIN new[x] = DOMAIN outs[x]
        /\ new[x].device = outs[x].device /\ new[x].refs = outs[x].refs
        /\ new[x].params = outs[x].params /\ new[x].muteCount = Counts(x)
  BY <1>1, <1>2 DEF DescOK, DescFields
<1>5. DOMAIN new = DOMAIN outs
  BY <1>1
<1>6. \A x \in DOMAIN new : DescOK(x, new[x])
  BY <1>2, <1>3, <1>4, <1>5 DEF DescOK
<1>7. OutputsOK(new)
  BY <1>5, <1>6 DEF OutputsOK, Object
<1> QED
  BY <1>4, <1>5, <1>7 DEF SameOutputs, new

LEMMA SetOneReroutes ==
    ASSUME NEW s, Object(s), NEW o \in DOMAIN s.outs \ {"dup"}, NEW device
    PROVE  OutputsOK(SetOne(s, o, device)) /\ SameOutputs(s.outs, SetOne(s, o, device))
<1> DEFINE d == device \cap Supported(o)
           to == [s EXCEPT !.outs[o].device = IF d = {} THEN @ ELSE d]
<1>1. CASE device # {} /\ d = {}
  BY <1>1 DEF SetOne, Object, SameOutputs
<1>2. CASE ~(device # {} /\ d = {})
  <2>1. SetOne(s, o, device) = checkDeviceMuteStrategies(to, o, s.outs[o].device)
    BY <1>2 DEF SetOne
  <2>2. DescOK(o, s.outs[o]) /\ DOMAIN s = Fields
    BY DEF Object, OutputsOK
  <2>3. /\ SameButOuts(s, to) /\ DOMAIN to.outs = DOMAIN s.outs
        /\ \A x \in DOMAIN s.outs \ {o} : to.outs[x] = s.outs[x]
    BY <2>2 DEF SameButOuts, Fields
  <2>4. to.outs[o] = [s.outs[o] EXCEPT !.device = IF d = {} THEN @ ELSE d]
    BY <2>2 DEF Fields
  <2>5. DescOK(o, to.outs[o]) /\ to.outs[o].refs = s.outs[o].refs
        /\ to.outs[o].params = s.outs[o].params
    BY <2>2, <2>4 DEF DescOK, DescFields
  <2> HIDE DEF to
  <2>6. OutputsOK(to.outs) /\ SameOutputs(s.outs, to.outs)
    BY <2>3, <2>5 DEF OutputsOK, SameOutputs, Object
  <2>7. Object(to)
    BY <2>3, <2>6 DEF Object, SameButOuts, Fields
  <2>8. PICK tempMute, mutes :
          checkDeviceMuteStrategies(to, o, s.outs[o].device) = ApplyMutes(to, o, tempMute, mutes)
    BY DEF checkDeviceMuteStrategies
  <2>9. OutputsOK(SetOne(s, o, device)) /\ SameOutputs(to.outs, SetOne(s, o, device))
    BY <2>1, <2>3, <2>7, <2>8, MutesReroute
  <2> QED
    BY <2>6, <2>9 DEF SameOutputs
<1> QED
  BY <1>1, <1>2

\* Whatever outputs an object is given, its other fields are kept.
LEMMA OtherOuts ==
    ASSUME NEW s, Object(s), NEW outs, OutputsOK(outs)
    PROVE  /\ Object([s EXCEPT !.outs = outs]) /\ SameButOuts(s, [s EXCEPT !.outs = outs])
           /\ [s EXCEPT !.outs = outs].outs = outs
<1> DEFINE t == [s EXCEPT !.outs = outs]
<1>1. SameButOuts(s, t) /\ t.outs = outs
  BY DEF Object, SameButOuts, Fields
<1> HIDE DEF t
<1>2. Object(t)
  BY <1>1 DEF Object, SameButOuts, Fields
<1> QED
  BY <1>1, <1>2 DEF t

LEMMA RouteOneReroutes ==
    ASSUME NEW s, Object(s), NEW o \in DOMAIN s.outs \ {"dup"}, NEW device
    PROVE  Rerouted(s, RouteOne(s, o, device))
BY SetOneReroutes, OtherOuts DEF RouteOne, Rerouted

LEMMA RouteOutputReroutes ==
    ASSUME NEW s, Object(s), NEW o \in DOMAIN s.outs, NEW device
    PROVE  Rerouted(s, RouteOutput(s, o, device))
<1>1. CASE o # "dup"
  BY <1>1, RouteOneReroutes DEF RouteOutput
<1>2. CASE o = "dup"
  <2> DEFINE t == RouteOne(s, "primary", device)
  <2>1. {"primary", "a2dp"} \subseteq DOMAIN s.outs
    BY <1>2 DEF Object, OutputsOK
  <2>2. Rerouted(s, t)
    BY <2>1, RouteOneReroutes
  <2> HIDE DEF t
  <2>3. Rerouted(t, RouteOne(t, "a2dp", device))
    BY <2>1, <2>2, RouteOneReroutes DEF Rerouted, SameOutputs
  <2> QED
    BY <1>2, <2>2, <2>3, ReroutedIsPreorder DEF RouteOutput, t
<1> QED
  BY <1>1, <1>2

LEMMA StepReroutes ==
    ASSUME NEW s, NEW t, Rerouted(s, t), NEW ids \in SUBSET DOMAIN s.outs, NEW o, NEW device
    PROVE  Rerouted(s, IF o \in ids THEN RouteOutput(t, o, device) ELSE t)
<1>1. CASE o \in ids
  <2>1. Object(t) /\ o \in DOMAIN t.outs
    BY <1>1 DEF Rerouted, SameOutputs
  <2>2. Rerouted(t, RouteOutput(t, o, device))
    BY <2>1, RouteOutputReroutes
  <2> QED
    BY <1>1, <2>2, ReroutedIsPreorder
<1> QED
  BY <1>1

\* The outputs routed in turn by getNewDevice, and from the cache.
LEMMA RouteAllReroutes ==
    ASSUME NEW s, Object(s), NEW ids \in SUBSET DOMAIN s.outs
    PROVE  Rerouted(s, RouteAll(s, ids, getNewDevice))
<1> DEFINE Route(x, o) == IF o \in ids THEN RouteOutput(x, o, getNewDevice(x, o)) ELSE x
<1>1. \A x, o : Rerouted(s, x) => Rerouted(s, Route(x, o))
  BY StepReroutes
<1>2. RouteAll(s, ids, getNewDevice) =
        Route(Route(Route(Route(Route(s, "primary"), "voip"), "lpa"), "a2dp"), "dup")
  BY DEF RouteAll
<1> HIDE DEF Route
<1> QED
  BY <1>1, <1>2, ReroutedIsPreorder

LEMMA RouteFromCacheReroutes ==
    ASSUME NEW s, Object(s)
    PROVE  Rerouted(s, RouteFromCache(s))
<1> DEFINE ids == DOMAIN s.outs
           Route(x, o) == IF o \in ids THEN RouteOutput(x, o, getNewDeviceFromCache(x, o)) ELSE x
<1>1. \A x, o : Rerouted(s, x) => Rerouted(s, Route(x, o))
  BY StepReroutes
<1>2. RouteFromCache(s) =
        Route(Route(Route(Route(Route(s, "primary"), "voip"), "lpa"), "a2dp"), "dup")
  BY DEF RouteFromCache, RouteAll
<1> HIDE DEF Route
<1> QED
  BY <1>1, <1>2, ReroutedIsPreorder

-----------------------------------------------------------------------------
(* The cache and the input.                                                *)

Fresh(s) == \A i \in Strategies : s.cache[i] = getDeviceForStrategy(s, i)

InputOn(s) ==
    s.input # NoInput =>
        /\ s.input.source \in Sources
        /\ getDeviceForInputSource(s, s.input.source) \in {s.input.device, "none"}

LEMMA RerouteKeepsFresh ==
    ASSUME NEW s, NEW t, Rerouted(s, t)
    PROVE  Fresh(s) => Fresh(t)
<1>1. /\ t.avail = s.avail /\ t.phone = s.phone /\ t.force = s.force /\ t.fm = s.fm
      /\ t.suspended = s.suspended /\ t.cache = s.cache /\ DOMAIN t.outs = DOMAIN s.outs
  BY DEF Rerouted, SameButOuts, SameOutputs, Fields
<1>2. \A i : getDeviceForStrategy(t, i) = getDeviceForStrategy(s, i)
  BY <1>1, DeviceReads
<1> QED
  BY <1>1, <1>2 DEF Fresh

LEMMA RerouteKeepsInput ==
    ASSUME NEW s, NEW t, SameButOuts(s, t)
    PROVE  InputOn(s) => InputOn(t)
<1>1. t.in = s.in /\ t.force = s.force /\ t.input = s.input
  BY DEF SameButOuts, Fields
<1> QED
  BY <1>1, InputReads DEF InputOn

\* Only the enforced audible strategy reads the cache: it finds the device that
\* is stored for the phone in the same update.
LEMMA PhoneReadsNoCache ==
    ASSUME NEW s, NEW t,
           t.avail = s.avail, t.phone = s.phone, t.force = s.force, t.fm = s.fm,
           t.suspended = s.suspended, t.outs = s.outs
    PROVE  getDeviceForStrategy(t, "PHONE") = getDeviceForStrategy(s, "PHONE")
<1>1. isInCall(t) = isInCall(s)
  BY DEF isInCall
<1>2. A2dpUsable(t) <=> A2dpUsable(s)
  BY DEF A2dpUsable
<1>3. \A names : First(t, names) = First(s, names)
  BY DEF First
<1>4. PhoneDevice(t, "PHONE") = PhoneDevice(s, "PHONE")
  BY <1>1, <1>2, <1>3 DEF PhoneDevice
<1>5. \A x, heard : DeviceAmong(x, "PHONE", PhoneDevice(x, "PHONE"), heard) = PhoneDevice(x, "PHONE")
  BY DEF DeviceAmong
<1> QED
  BY <1>4, <1>5 DEF getDeviceForStrategy

LEMMA UpdateRefreshes ==
    ASSUME NEW s, Object(s)
    PROVE  LET t == updateDevicesAndOutputs(s) IN
           /\ Object(t) /\ Fresh(t) /\ t.outs = s.outs
           /\ \A f \in Fields \ {"cache"} : t[f] = s[f]
<1> DEFINE p == PhoneCached(s)
           cache == [i \in Strategies |-> getDeviceForStrategy(p, i)]
           t == updateDevicesAndOutputs(s)
<1>1. DOMAIN s = Fields /\ DOMAIN s.cache = Strategies
  BY DEF Object
<1>2. /\ \A f \in Fields \ {"cache"} : p[f] = s[f]
      /\ p.cache["PHONE"] = getDeviceForStrategy(s, "PHONE")
  BY <1>1 DEF PhoneCached, Fields, Strategies
<1>3. /\ DOMAIN t = Fields /\ t.cache = cache
      /\ \A f \in Fields \ {"cache"} : t[f] = s[f]
  BY <1>1 DEF updateDevicesAndOutputs, Fields
<1> HIDE DEF p, t
<1>4. /\ p.avail = s.avail /\ p.phone = s.phone /\ p.force = s.force /\ p.fm = s.fm
      /\ p.suspended = s.suspended /\ p.outs = s.outs
  BY <1>2 DEF Fields
<1>5. /\ t.avail = s.avail /\ t.phone = s.phone /\ t.force = s.force /\ t.fm = s.fm
      /\ t.suspended = s.suspended /\ t.outs = s.outs /\ t.input = s.input
      /\ t.pending = s.pending
  BY <1>3 DEF Fields
<1>6. t.cache["PHONE"] = p.cache["PHONE"]
  BY <1>2, <1>3, <1>4, PhoneReadsNoCache DEF Strategies
<1>7. \A i : getDeviceForStrategy(t, i) = getDeviceForStrategy(p, i)
  BY <1>4, <1>5, <1>6, DeviceReads
<1>8. Fresh(t)
  BY <1>3, <1>7 DEF Fresh
<1>9. Object(t)
  BY <1>3, <1>5 DEF Object
<1> QED
  BY <1>3, <1>5, <1>8, <1>9 DEF t

LEMMA FreshKept ==
    ASSUME NEW s, NEW t, Fresh(s),
           \A f \in {"avail", "phone", "force", "fm", "suspended", "cache"} : t[f] = s[f],
           "a2dp" \in DOMAIN t.outs <=> "a2dp" \in DOMAIN s.outs
    PROVE  Fresh(t)
<1>1. /\ t.avail = s.avail /\ t.phone = s.phone /\ t.force = s.force /\ t.fm = s.fm
      /\ t.suspended = s.suspended /\ t.cache = s.cache
  OBVIOUS
<1>2. \A i : getDeviceForStrategy(t, i) = getDeviceForStrategy(s, i)
  BY <1>1, DeviceReads
<1> QED
  BY <1>1, <1>2 DEF Fresh

SourceOK(s) == s.input # NoInput => s.input.source \in Sources

\* The input is on the device its source asks for, wherever it was.
LEMMA RouteInputFollows ==
    ASSUME NEW s, Object(s), SourceOK(s)
    PROVE  LET t == RouteInput(s) IN
           /\ Object(t) /\ InputOn(t) /\ SourceOK(t)
           /\ \A f \in Fields \ {"input"} : t[f] = s[f]
<1> DEFINE d == getDeviceForInputSource(s, s.input.source)
           t == RouteInput(s)
<1>1. CASE s.input = NoInput \/ d = "none"
  <2>1. t = s
    BY <1>1 DEF RouteInput
  <2> QED
    BY <1>1, <2>1 DEF InputOn, SourceOK
<1>2. CASE ~(s.input = NoInput \/ d = "none")
  <2>1. DOMAIN s = Fields /\ DOMAIN s.input = {"source", "device"}
    BY DEF Object
  <2>2. t = [s EXCEPT !.input.device = d]
    BY <1>2 DEF RouteInput
  <2> HIDE DEF d, t
  <2>3. /\ DOMAIN t = Fields /\ \A f \in Fields \ {"input"} : t[f] = s[f]
        /\ DOMAIN t.input = {"source", "device"}
        /\ t.input.source = s.input.source /\ t.input.device = d
    BY <2>1, <2>2 DEF Fields
  <2>4. /\ t.avail = s.avail /\ t.phone = s.phone /\ t.force = s.force /\ t.fm = s.fm
        /\ t.suspended = s.suspended /\ t.outs = s.outs /\ t.cache = s.cache
        /\ t.pending = s.pending /\ t.in = s.in
    BY <2>3 DEF Fields
  <2>5. s.input.source \in Sources
    BY <1>2 DEF SourceOK
  <2>6. getDeviceForInputSource(t, t.input.source) = d
    BY <2>3, <2>4, <2>5, InputReads DEF d
  <2>7. Object(t)
    BY <2>3, <2>4 DEF Object
  <2> QED
    BY <2>3, <2>5, <2>6, <2>7 DEF InputOn, SourceOK, t
<1> QED
  BY <1>1, <1>2

LEMMA SuspendKeeps ==
    ASSUME NEW s, Object(s)
    PROVE  LET t == checkA2dpSuspend(s) IN
           Object(t) /\ \A f \in Fields \ {"suspended"} : t[f] = s[f]
<1> DEFINE t == checkA2dpSuspend(s)
<1>1. DOMAIN s = Fields /\ s.suspended \in BOOLEAN
  BY DEF Object
<1>2. PICK b \in BOOLEAN : t = [s EXCEPT !.suspended = b]
  BY <1>1 DEF checkA2dpSuspend
<1> HIDE DEF t
<1>3. DOMAIN t = Fields /\ t.suspended = b /\ \A f \in Fields \ {"suspended"} : t[f] = s[f]
  BY <1>1, <1>2 DEF Fields
<1>4. /\ t.avail = s.avail /\ t.phone = s.phone /\ t.force = s.force /\ t.fm = s.fm
      /\ t.outs = s.outs /\ t.cache = s.cache /\ t.pending = s.pending /\ t.input = s.input
  BY <1>3 DEF Fields
<1>5. Object(t)
  BY <1>3, <1>4 DEF Object
<1> QED
  BY <1>3, <1>5 DEF t

-----------------------------------------------------------------------------
(* setForceUse.                                                            *)

\* t is s with the forced use stored, and everything routed by it.
ForcedTo(s, t, usage, config) ==
    /\ Object(t) /\ Fresh(t) /\ InputOn(t) /\ SameOutputs(s.outs, t.outs)
    /\ t.avail = s.avail /\ t.fm = s.fm
    /\ t.force = [s.force EXCEPT ![usage] = config]
    /\ t.pending = IF usage = "MEDIA" THEN FALSE ELSE s.pending

LEMMA ForcedHolds ==
    ASSUME NEW s, Object(s), SourceOK(s), NEW usage \in Usages, NEW config
    PROVE  ForcedTo(s, Forced(s, usage, config), usage, config)
<1> DEFINE a == StoreForceUse(s, usage, config)
           b == checkA2dpSuspend(a)
           c == updateDevicesAndOutputs(b)
           d == RouteFromCache(c)
           t == RouteInput(d)
<1>1. DOMAIN s = Fields /\ DOMAIN s.force = Usages
  BY DEF Object
<1>2. /\ DOMAIN a = Fields /\ \A f \in Fields \ {"force", "pending"} : a[f] = s[f]
      /\ a.force = [s.force EXCEPT ![usage] = config]
      /\ a.pending = IF usage = "MEDIA" THEN FALSE ELSE s.pending
  BY <1>1 DEF StoreForceUse, Fields
<1> HIDE DEF a
<1>3. /\ a.avail = s.avail /\ a.fm = s.fm /\ a.suspended = s.suspended /\ a.outs = s.outs
      /\ a.cache = s.cache /\ a.input = s.input
  BY <1>2 DEF Fields
<1>4. DOMAIN a.force = Usages /\ a.pending \in BOOLEAN
  BY <1>1, <1>2 DEF Object
<1>5. Object(a)
  BY <1>2, <1>3, <1>4 DEF Object
<1>6. Object(b) /\ \A f \in Fields \ {"suspended"} : b[f] = a[f]
  BY <1>5, SuspendKeeps
<1> HIDE DEF b
<1>7. /\ Object(c) /\ Fresh(c) /\ c.outs = b.outs
      /\ \A f \in Fields \ {"cache"} : c[f] = b[f]
  BY <1>6, UpdateRefreshes
<1> HIDE DEF c
<1>8. Rerouted(c, d)
  BY <1>7, RouteFromCacheReroutes
<1> HIDE DEF d
<1>9. Object(d) /\ Fresh(d) /\ SameButOuts(c, d) /\ SameOutputs(c.outs, d.outs)
  BY <1>7, <1>8, RerouteKeepsFresh DEF Rerouted
<1>10. d.input = s.input
  BY <1>3, <1>6, <1>7, <1>9 DEF SameButOuts, Fields
<1>11. SourceOK(d)
  BY <1>10 DEF SourceOK
<1>12. /\ Object(t) /\ InputOn(t) /\ \A f \in Fields \ {"input"} : t[f] = d[f]
  BY <1>9, <1>11, RouteInputFollows
<1> HIDE DEF t
<1>13. Fresh(t)
  BY <1>9, <1>12, FreshKept DEF Fields
<1>14. t.outs = d.outs /\ c.outs = s.outs
  BY <1>3, <1>6, <1>7, <1>12 DEF Fields
<1>15. /\ t.avail = s.avail /\ t.fm = s.fm /\ t.force = a.force /\ t.pending = a.pending
  BY <1>3, <1>6, <1>7, <1>9, <1>12 DEF SameButOuts, Fields
<1>16. t = Forced(s, usage, config)
  BY DEF t, d, c, b, a, Forced
<1> QED
  BY <1>2, <1>9, <1>12, <1>13, <1>14, <1>15, <1>16 DEF ForcedTo

FmAgrees(s) == s.fm # "FM_NONE" <=> "FM" \in s.avail

Remembered(s, config) ==
    /\ s.force.MEDIA = config \/ (s.fm = "FM_DIGITAL" /\ s.pending)
    /\ s.pending => config = "NONE"

Good(s) == Object(s) /\ Fresh(s) /\ InputOn(s)

LEMMA setForceUseHolds ==
    ASSUME NEW s, Good(s), NEW usage \in Usages, NEW config
    PROVE  LET t == setForceUse(s, usage, config) IN
           /\ Good(t) /\ SameOutputs(s.outs, t.outs) /\ t.avail = s.avail /\ t.fm = s.fm
           /\ \A last : Remembered(s, last) =>
                 Remembered(t, IF usage = "MEDIA" /\ config \in Accepts.MEDIA
                               THEN config ELSE last)
<1> DEFINE t == setForceUse(s, usage, config)
<1>1. DOMAIN s = Fields /\ DOMAIN s.force = Usages
  BY DEF Good, Object
<1>2. CASE config \notin Accepts[usage]
  <2>1. t = s
    BY <1>2 DEF setForceUse
  <2> QED
    BY <1>2, <2>1 DEF SameOutputs
<1>3. CASE config \in Accepts[usage] /\ Deferred(s, usage, config)
  <2>1. usage = "MEDIA" /\ s.fm = "FM_DIGITAL" /\ config = "NONE"
    BY <1>3 DEF Deferred
  <2>2. t = [s EXCEPT !.pending = TRUE]
    BY <1>3 DEF setForceUse
  <2> HIDE DEF t
  <2>3. DOMAIN t = Fields /\ t.pending = TRUE /\ \A f \in Fields \ {"pending"} : t[f] = s[f]
    BY <1>1, <2>2 DEF Fields
  <2>4. /\ t.avail = s.avail /\ t.phone = s.phone /\ t.force = s.force /\ t.fm = s.fm
        /\ t.suspended = s.suspended /\ t.outs = s.outs /\ t.cache = s.cache
        /\ t.input = s.input /\ t.in = s.in
    BY <2>3 DEF Fields
  <2>5. Object(t)
    BY <2>3, <2>4 DEF Object, Good
  <2>6. Fresh(t)
    BY <2>3, FreshKept DEF Fields, Good
  <2>7. InputOn(t)
    BY <2>4, InputReads DEF InputOn, Good
  <2>8. \A last : Remembered(t, "NONE")
    BY <2>1, <2>3, <2>4 DEF Remembered
  <2> QED
    BY <1>3, <2>1, <2>4, <2>5, <2>6, <2>7, <2>8 DEF Good, SameOutputs, t
<1>4. CASE config \in Accepts[usage] /\ ~Deferred(s, usage, config)
  <2>1. t = Forced(s, usage, config)
    BY <1>4 DEF setForceUse
  <2>2. SourceOK(s) /\ Object(s)
    BY DEF Good, InputOn, SourceOK
  <2> HIDE DEF t
  <2>3. /\ Object(t) /\ Fresh(t) /\ InputOn(t) /\ SameOutputs(s.outs, t.outs)
        /\ t.avail = s.avail /\ t.fm = s.fm
        /\ t.force = [s.force EXCEPT ![usage] = config]
        /\ t.pending = IF usage = "MEDIA" THEN FALSE ELSE s.pending
    <3>1. ForcedTo(s, t, usage, config)
      BY <2>1, <2>2, ForcedHolds
    <3> QED
      BY <3>1 DEF ForcedTo
  <2>4. ASSUME NEW last, Remembered(s, last)
        PROVE  Remembered(t, IF usage = "MEDIA" /\ config \in Accepts.MEDIA THEN config ELSE last)
    <3>1. CASE usage = "MEDIA"
      <4>1. t.force.MEDIA = config /\ t.pending = FALSE
        BY <1>1, <2>3, <3>1 DEF Usages
      <4>2. config \in Accepts.MEDIA
        BY <1>4, <3>1
      <4> QED
        BY <3>1, <4>1, <4>2 DEF Remembered
    <3>2. CASE usage # "MEDIA"
      <4>1. t.force.MEDIA = s.force.MEDIA /\ t.pending = s.pending
        BY <1>1, <2>3, <3>2 DEF Usages
      <4> QED
        BY <2>3, <2>4, <3>2, <4>1 DEF Remembered
    <3> QED
      BY <3>1, <3>2
  <2> QED
    BY <2>3, <2>4 DEF Good, t
<1> QED
  BY <1>2, <1>3, <1>4

-----------------------------------------------------------------------------
(* Outputs that close.                                                     *)

\* Every track of the duplicating output is one of the primary output.
DupCounted(outs) ==
    "dup" \in DOMAIN outs =>
        \A stream \in Streams : outs["dup"].refs[stream] <= outs["primary"].refs[stream]

\* The tracks of an output once o has closed.
LeftRefs(outs, o, x) ==
    [stream \in Streams |->
        IF x = "primary" /\ o = "a2dp" /\ "dup" \in DOMAIN outs
        THEN outs[x].refs[stream] - outs["dup"].refs[stream] ELSE outs[x].refs[stream]]

LEMMA CloseOutputHolds ==
    ASSUME NEW outs, OutputsOK(outs), DupCounted(outs), NEW o \in {"voip", "lpa", "a2dp"}
    PROVE  LET new == closeOutput(outs, o) IN
           /\ OutputsOK(new)
           /\ DOMAIN new = DOMAIN outs \ (IF o = "a2dp" THEN {"a2dp", "dup"} ELSE {o})
           /\ \A x \in DOMAIN new : /\ new[x].refs = LeftRefs(outs, o, x)
                                    /\ new[x].params = outs[x].params
<1> DEFINE new == closeOutput(outs, o)
           gone == IF o = "a2dp" THEN {"a2dp", "dup"} ELSE {o}
<1>1. new = [x \in DOMAIN outs \ gone |-> [outs[x] EXCEPT !.refs = LeftRefs(outs, o, x)]]
  BY DEF closeOutput, LeftRefs
<1>2. \A x \in DOMAIN outs : DescOK(x, outs[x])
  BY DEF OutputsOK
<1>3. ASSUME NEW x \in DOMAIN outs
      PROVE  LeftRefs(outs, o, x) \in [Streams -> Nat]
  <2>1. ASSUME NEW stream \in Streams
        PROVE  (IF x = "primary" /\ o = "a2dp" /\ "dup" \in DOMAIN outs
                THEN outs[x].refs[stream] - outs["dup"].refs[stream]
                ELSE outs[x].refs[stream]) \in Nat
    <3>1. outs[x].refs[stream] \in Nat
      BY <1>2 DEF DescOK
    <3>2. CASE x = "primary" /\ o = "a2dp" /\ "dup" \in DOMAIN outs
      <4>1. outs["dup"].refs[stream] \in Nat
        BY <1>2, <3>2 DEF DescOK
      <4>2. outs["dup"].refs[stream] <= outs[x].refs[stream]
        BY <3>2 DEF DupCounted
      <4>3. outs[x].refs[stream] - outs["dup"].refs[stream] \in Nat
        BY <3>1, <4>1, <4>2
      <4> QED
        BY <3>2, <4>3
    <3> QED
      BY <3>1, <3>2
  <2> QED
    BY <2>1 DEF LeftRefs
<1> HIDE DEF new
<1>4. DOMAIN new = DOMAIN outs \ gone
  BY <1>1
<1>5. \A x \in DOMAIN new :
        /\ DOMAIN new[x] = DOMAIN outs[x] /\ new[x].refs = LeftRefs(outs, o, x)
        /\ new[x].device = outs[x].device /\ new[x].params = outs[x].params
        /\ new[x].muteCount = outs[x].muteCount
  BY <1>1, <1>2, <1>4 DEF DescOK, DescFields
<1>6. \A x \in DOMAIN new : DescOK(x, new[x])
  BY <1>2, <1>3, <1>4, <1>5 DEF DescOK
<1>7. OutputsOK(new)
  BY <1>4, <1>6 DEF OutputsOK
<1> QED
  BY <1>4, <1>5, <1>7 DEF new


\* The outputs that go, and the tracks that are left, if A2DP's closes.
ClosingIds(closed) == IF closed THEN {"a2dp", "dup"} ELSE {}
RefsAfter(outs, closed, x) == IF closed THEN LeftRefs(outs, "a2dp", x) ELSE outs[x].refs

\* t is s with every output routed again, A2DP's closed or not.
AllRerouted(s, t, closed) ==
    /\ Object(t) /\ Fresh(t)
    /\ \A f \in Fields \ {"suspended", "cache", "outs"} : t[f] = s[f]
    /\ DOMAIN t.outs = DOMAIN s.outs \ ClosingIds(closed)
    /\ \A x \in DOMAIN t.outs : /\ t.outs[x].params = s.outs[x].params
                                /\ t.outs[x].refs = RefsAfter(s.outs, closed, x)

\* What routing every output anew takes.
Reroutable(s) == Object(s) /\ DupCounted(s.outs)

LEMMA RerouteHolds ==
    ASSUME NEW s, Object(s), DupCounted(s.outs), NEW newDevice, NEW closed
    PROVE  AllRerouted(s, Reroute(s, newDevice, closed), closed)
<1> DEFINE a == RouteOutput(s, "primary", newDevice)
           b == checkA2dpSuspend(a)
           c == CloseA2dp(b, closed)
           d == updateDevicesAndOutputs(c)
           t == RouteFromCache(d)
           Gone == ClosingIds(closed)
           Refs(x) == RefsAfter(s.outs, closed, x)
<1>1. "primary" \in DOMAIN s.outs
  BY DEF Object, OutputsOK
<1>2. Rerouted(s, a)
  BY <1>1, RouteOutputReroutes
<1> HIDE DEF a
<1>3. Object(b) /\ \A f \in Fields \ {"suspended"} : b[f] = a[f]
  BY <1>2, SuspendKeeps DEF Rerouted
<1> HIDE DEF b
<1>4. SameOutputs(s.outs, b.outs) /\ \A f \in Fields \ {"suspended", "outs"} : b[f] = s[f]
  BY <1>2, <1>3 DEF Rerouted, SameButOuts, Fields
<1>5. DupCounted(b.outs)
  BY <1>1, <1>4 DEF DupCounted, SameOutputs
<1>6. /\ Object(c) /\ SameButOuts(b, c) /\ DOMAIN c.outs = DOMAIN s.outs \ Gone
      /\ \A x \in DOMAIN c.outs : /\ c.outs[x].params = s.outs[x].params
                                  /\ c.outs[x].refs = Refs(x)
  <2>1. CASE closed
    <3> DEFINE outs == closeOutput(b.outs, "a2dp")
    <3>1. OutputsOK(b.outs)
      BY <1>3 DEF Object
    <3>2. /\ OutputsOK(outs) /\ DOMAIN outs = DOMAIN b.outs \ {"a2dp", "dup"}
          /\ \A x \in DOMAIN outs : /\ outs[x].refs = LeftRefs(b.outs, "a2dp", x)
                                    /\ outs[x].params = b.outs[x].params
      BY <1>5, <3>1, CloseOutputHolds
    <3>3. \A x \in DOMAIN s.outs : LeftRefs(b.outs, "a2dp", x) = LeftRefs(s.outs, "a2dp", x)
      BY <1>4 DEF LeftRefs, SameOutputs
    <3>4. c = [b EXCEPT !.outs = outs]
      BY <1>3, <2>1 DEF CloseA2dp
    <3> HIDE DEF outs, c
    <3>5. Object(c) /\ SameButOuts(b, c) /\ c.outs = outs
      BY <1>3, <3>2, <3>4, OtherOuts
    <3> QED
      BY <1>4, <2>1, <3>2, <3>3, <3>5 DEF SameOutputs, ClosingIds, RefsAfter
  <2>2. CASE ~closed
    <3>1. c = b
      BY <2>2 DEF CloseA2dp
    <3> HIDE DEF c
    <3> QED
      BY <1>3, <1>4, <2>2, <3>1 DEF SameButOuts, SameOutputs, ClosingIds, RefsAfter
  <2> QED
    BY <2>1, <2>2
<1> HIDE DEF c
<1>7. /\ Object(d) /\ Fresh(d) /\ d.outs = c.outs
      /\ \A f \in Fields \ {"cache"} : d[f] = c[f]
  BY <1>6, UpdateRefreshes
<1> HIDE DEF d
<1>8. Rerouted(d, t)
  BY <1>7, RouteFromCacheReroutes
<1> HIDE DEF t
<1>9. Object(t) /\ Fresh(t) /\ SameButOuts(d, t) /\ SameOutputs(c.outs, t.outs)
  BY <1>7, <1>8, RerouteKeepsFresh DEF Rerouted
<1>10. \A f \in Fields \ {"suspended", "cache", "outs"} : t[f] = s[f]
  BY <1>4, <1>6, <1>7, <1>9 DEF SameButOuts
<1>11. DOMAIN t.outs = DOMAIN s.outs \ Gone
  BY <1>6, <1>9 DEF SameOutputs
<1>12. \A x \in DOMAIN t.outs : /\ t.outs[x].params = s.outs[x].params
                                /\ t.outs[x].refs = Refs(x)
  BY <1>6, <1>9 DEF SameOutputs
<1>13. t = Reroute(s, newDevice, closed)
  BY DEF t, d, c, b, a, Reroute
<1> QED
  BY <1>9, <1>10, <1>11, <1>12, <1>13 DEF AllRerouted

-----------------------------------------------------------------------------
(* Tracks.                                                                 *)

Counting(o) == IF o = "dup" THEN {"dup", "primary", "a2dp"} ELSE {o}
Added(n, delta) == IF n + delta < 0 THEN 0 ELSE n + delta

LEMMA RefCountHolds ==
    ASSUME NEW outs, OutputsOK(outs), NEW o \in DOMAIN outs, NEW stream, NEW delta \in Int
    PROVE  LET new == changeRefCount(outs, o, stream, delta) IN
           /\ OutputsOK(new) /\ DOMAIN new = DOMAIN outs
           /\ \A x \in DOMAIN outs :
                /\ new[x].params = outs[x].params
                /\ \A z \in Streams : new[x].refs[z] =
                     IF x \in Counting(o) /\ z = stream
                     THEN Added(outs[x].refs[z], delta) ELSE outs[x].refs[z]
<1> DEFINE new == changeRefCount(outs, o, stream, delta)
           Refs(x) == [outs[x].refs EXCEPT ![stream] = Added(@, delta)]
<1>1. new = [x \in DOMAIN outs |->
               IF x \in Counting(o) THEN [outs[x] EXCEPT !.refs[stream] = Added(@, delta)]
               ELSE outs[x]]
  BY DEF changeRefCount, Counting, Added
<1>2. \A x \in DOMAIN outs : DescOK(x, outs[x])
  BY DEF OutputsOK
<1>3. \A n \in Nat : Added(n, delta) \in Nat
  BY DEF Added
<1>4. ASSUME NEW x \in DOMAIN outs
      PROVE  /\ Refs(x) \in [Streams -> Nat]
             /\ \A z \in Streams : Refs(x)[z] =
                  IF z = stream THEN Added(outs[x].refs[z], delta) ELSE outs[x].refs[z]
  BY <1>2, <1>3 DEF DescOK
<1> HIDE DEF new
<1>5. DOMAIN new = DOMAIN outs
  BY <1>1
<1>6. ASSUME NEW x \in DOMAIN outs
      PROVE  /\ DOMAIN new[x] = DescFields
             /\ new[x].device = outs[x].device /\ new[x].muteCount = outs[x].muteCount
             /\ new[x].params = outs[x].params
             /\ new[x].refs = IF x \in Counting(o) THEN Refs(x) ELSE outs[x].refs
  <2>1. DOMAIN outs[x] = DescFields
    BY <1>2 DEF DescOK
  <2>2. CASE x \in Counting(o)
    <3>1. new[x] = [outs[x] EXCEPT !.refs = Refs(x)]
      BY <1>1, <2>1, <2>2 DEF DescFields
    <3> HIDE DEF Refs
    <3> QED
      BY <2>1, <2>2, <3>1 DEF DescFields
  <2>3. CASE x \notin Counting(o)
    BY <1>1, <2>1, <2>3
  <2> QED
    BY <2>2, <2>3
<1> HIDE DEF Refs
<1>7. \A x \in DOMAIN new : DescOK(x, new[x])
  BY <1>2, <1>4, <1>5, <1>6 DEF DescOK
<1>8. OutputsOK(new)
  BY <1>5, <1>7 DEF OutputsOK
<1> QED
  BY <1>4, <1>5, <1>6, <1>8 DEF new


\* What every output counts, given the tracks that clients have started.
Tally(s, st, x, z) ==
    st[x][z] + (IF x \in {"primary", "a2dp"} THEN st["dup"][z] ELSE 0)
    + (IF x = "primary" /\ z = "MUSIC" /\ "FM" \in s.avail THEN 1 ELSE 0)
Started == [OutputIds -> [Streams -> Nat]]
Counted(s, st) ==
    /\ st \in Started
    /\ \A x \in DOMAIN s.outs, z \in Streams : s.outs[x].refs[z] = Tally(s, st, x, z)
    /\ \A x \in OutputIds \ DOMAIN s.outs : st[x] = NoRefs

LEMMA TallyIsNat ==
    ASSUME NEW s, NEW st \in Started, NEW x \in OutputIds, NEW z \in Streams
    PROVE  /\ Tally(s, st, x, z) \in Nat
           /\ st["dup"][z] \in Nat /\ st[x][z] \in Nat
           /\ Tally(s, st, "dup", z) = st["dup"][z]
           /\ st["dup"][z] <= Tally(s, st, "primary", z)
<1>1. /\ st[x][z] \in Nat /\ st["dup"][z] \in Nat /\ st["primary"][z] \in Nat
  BY DEF Started, OutputIds
<1> QED
  BY <1>1 DEF Tally

LEMMA CountedGivesDup ==
    ASSUME NEW s, Object(s), NEW st, Counted(s, st)
    PROVE  DupCounted(s.outs)
<1>1. st \in Started /\ "primary" \in DOMAIN s.outs /\ "dup" \in OutputIds
  BY DEF Counted, Object, OutputsOK, OutputIds
<1> QED
  BY <1>1, TallyIsNat DEF Counted, DupCounted

LEMMA CountedKept ==
    ASSUME NEW s, NEW t, NEW st, Counted(s, st), t.avail = s.avail,
           DOMAIN t.outs = DOMAIN s.outs,
           \A x \in DOMAIN s.outs : t.outs[x].refs = s.outs[x].refs
    PROVE  Counted(t, st)
BY DEF Counted, Tally

LEMMA InputKept ==
    ASSUME NEW s, NEW t, InputOn(s), t.in = s.in, t.force = s.force, t.input = s.input
    PROVE  InputOn(t) /\ SourceOK(t)
BY InputReads DEF InputOn, SourceOK

-----------------------------------------------------------------------------
(* setDeviceConnectionState.                                               *)

LEMMA InputChangeHolds ==
    ASSUME NEW s, Good(s), NEW in
    PROVE  LET t == RouteInput([s EXCEPT !.in = in]) IN
           Good(t) /\ \A f \in Fields \ {"in", "input"} : t[f] = s[f]
<1> DEFINE a == [s EXCEPT !.in = in]
           t == RouteInput(a)
<1>1. DOMAIN a = Fields /\ \A f \in Fields \ {"in"} : a[f] = s[f]
  BY DEF Good, Object, Fields
<1> HIDE DEF a
<1>2. /\ a.avail = s.avail /\ a.phone = s.phone /\ a.force = s.force /\ a.fm = s.fm
      /\ a.suspended = s.suspended /\ a.outs = s.outs /\ a.cache = s.cache
      /\ a.pending = s.pending /\ a.input = s.input
  BY <1>1 DEF Fields
<1>3. Object(a)
  BY <1>1, <1>2 DEF Good, Object
<1>4. SourceOK(a)
  BY <1>2 DEF Good, InputOn, SourceOK
<1>5. Object(t) /\ InputOn(t) /\ \A f \in Fields \ {"input"} : t[f] = a[f]
  BY <1>3, <1>4, RouteInputFollows
<1> HIDE DEF t
<1>6. \A f \in Fields \ {"in", "input"} : t[f] = s[f]
  BY <1>1, <1>5
<1>7. Fresh(t)
  BY <1>6, FreshKept DEF Good, Fields
<1> QED
  BY <1>5, <1>6, <1>7 DEF Good, t, a

LEMMA PlugsHold ==
    ASSUME NEW s, Good(s), NEW device
    PROVE  /\ Good(PlugInput(s, device)) /\ Good(UnplugInput(s, device))
           /\ \A f \in Fields \ {"in", "input"} :
                PlugInput(s, device)[f] = s[f] /\ UnplugInput(s, device)[f] = s[f]
<1> DEFINE R(in) == RouteInput([s EXCEPT !.in = in])
<1>1. \A in : Good(R(in)) /\ \A f \in Fields \ {"in", "input"} : R(in)[f] = s[f]
  BY InputChangeHolds
<1>2. /\ PlugInput(s, device) \in {s, R(s.in \cup InputOf(device))}
      /\ UnplugInput(s, device) \in {s, R(s.in \ InputOf(device))}
  BY DEF PlugInput, UnplugInput
<1> HIDE DEF R
<1> QED
  BY <1>1, <1>2

\* The duplicating output is opened with that of A2DP.
LEMMA NewOutputsHold ==
    ASSUME NEW s, Object(s), NEW device
    PROVE  LET outs == checkOutputsForDevice(s, device)
               more == IF device \in Profiles.a2dp THEN {"a2dp", "dup"} ELSE {}
           IN  /\ OutputsOK(outs) /\ DOMAIN outs = DOMAIN s.outs \cup more
               /\ \A x \in DOMAIN outs :
                    IF x \in DOMAIN s.outs THEN outs[x] = s.outs[x] ELSE outs[x].refs = NoRefs
<1> DEFINE outs == checkOutputsForDevice(s, device)
<1>1. /\ DOMAIN s.outs \subseteq OutputIds /\ "primary" \in DOMAIN s.outs
      /\ "a2dp" \in DOMAIN s.outs <=> "dup" \in DOMAIN s.outs
      /\ \A o \in DOMAIN s.outs : DescOK(o, s.outs[o])
  BY DEF Object, OutputsOK
<1>2. CASE device \in Profiles.a2dp /\ "a2dp" \notin DOMAIN s.outs
  <2> DEFINE new == NewOutput({device})
             dup == NewOutput({})
  <2>1. DescOK("a2dp", new) /\ new.refs = NoRefs
    BY <1>2 DEF NewOutput, DescOK, DescFields, Supported, NoRefs
  <2>2. DescOK("dup", dup) /\ dup.refs = NoRefs
    BY DEF NewOutput, DescOK, DescFields, NoRefs
  <2>3. outs = Opened(Opened(s.outs, "a2dp", new), "dup", dup)
    BY <1>2 DEF checkOutputsForDevice
  <2> HIDE DEF new, dup, outs
  <2>4. /\ DOMAIN outs = DOMAIN s.outs \cup {"a2dp", "dup"}
        /\ \A x \in DOMAIN outs : outs[x] = IF x = "dup" THEN dup
                                            ELSE IF x = "a2dp" THEN new ELSE s.outs[x]
    BY <2>3 DEF Opened
  <2>5. "dup" \notin DOMAIN s.outs
    BY <1>1, <1>2
  <2>6. OutputsOK(outs)
    BY <1>1, <2>1, <2>2, <2>4 DEF OutputsOK, OutputIds
  <2> QED
    BY <1>2, <2>1, <2>2, <2>4, <2>5, <2>6 DEF outs
<1>3. CASE ~(device \in Profiles.a2dp /\ "a2dp" \notin DOMAIN s.outs)
  <2>1. outs = s.outs
    BY <1>3 DEF checkOutputsForDevice
  <2> QED
    BY <1>1, <1>3, <2>1 DEF OutputsOK
<1> QED
  BY <1>2, <1>3


LEMMA FmCountHolds ==
    ASSUME NEW s, Object(s), NEW device, NEW delta \in Int
    PROVE  LET t == changeFmRefCount(s, device, delta) IN
           /\ Object(t) /\ SameButOuts(s, t) /\ DOMAIN t.outs = DOMAIN s.outs
           /\ \A x \in DOMAIN s.outs :
                /\ t.outs[x].params = s.outs[x].params
                /\ \A z \in Streams : t.outs[x].refs[z] =
                     IF device = "FM" /\ x = "primary" /\ z = "MUSIC"
                     THEN Added(s.outs[x].refs[z], delta) ELSE s.outs[x].refs[z]
<1> DEFINE t == changeFmRefCount(s, device, delta)
<1>1. CASE device = "FM"
  <2> DEFINE outs == changeRefCount(s.outs, "primary", "MUSIC", delta)
  <2>1. OutputsOK(s.outs) /\ "primary" \in DOMAIN s.outs /\ DOMAIN s = Fields
    BY DEF Object, OutputsOK
  <2>2. /\ OutputsOK(outs) /\ DOMAIN outs = DOMAIN s.outs
        /\ \A x \in DOMAIN s.outs :
             /\ outs[x].params = s.outs[x].params
             /\ \A z \in Streams : outs[x].refs[z] =
                  IF x \in Counting("primary") /\ z = "MUSIC"
                  THEN Added(s.outs[x].refs[z], delta) ELSE s.outs[x].refs[z]
    BY <2>1, RefCountHolds
  <2>3. t = [s EXCEPT !.outs = outs]
    BY <1>1, <2>1 DEF changeFmRefCount, Fields
  <2> HIDE DEF outs, t
  <2>4. Object(t) /\ SameButOuts(s, t) /\ t.outs = outs
    BY <2>2, <2>3, OtherOuts
  <2> QED
    BY <1>1, <2>2, <2>4 DEF Counting, t
<1>2. CASE device # "FM"
  BY <1>2 DEF changeFmRefCount, SameButOuts
<1> QED
  BY <1>1, <1>2

\* A device that connects.
LEMMA ConnectedHolds ==
    ASSUME NEW s, NEW device \in Connectable, NEW a, NEW st, NEW config,
           Good(s), FmAgrees(s), Remembered(s, config), Counted(s, st),
           device \notin s.avail, Object(a),
           \A f \in Fields \ {"fm", "avail", "outs", "suspended"} : a[f] = s[f],
           a.fm # "FM_NONE" <=> device = "FM" \/ s.fm # "FM_NONE",
           s.fm # "FM_NONE" => a.fm = s.fm,
           a.avail = s.avail \cup {device},
           a.outs = checkOutputsForDevice(s, device)
    PROVE  LET t == PlugInput(RouteConnected(changeFmRefCount(a, device, 1), device), device) IN
           /\ Good(t) /\ FmAgrees(t) /\ Remembered(t, config) /\ Counted(t, st)
           /\ DOMAIN s.outs \subseteq DOMAIN t.outs
           /\ \A x \in DOMAIN s.outs : t.outs[x].params = s.outs[x].params
           /\ Reroutable(changeFmRefCount(a, device, 1))
<1> DEFINE b == changeFmRefCount(a, device, 1)
           c == RouteConnected(b, device)
           t == PlugInput(c, device)
<1>1. /\ DOMAIN s.outs \subseteq DOMAIN a.outs
      /\ \A x \in DOMAIN a.outs :
           IF x \in DOMAIN s.outs THEN a.outs[x] = s.outs[x] ELSE a.outs[x].refs = NoRefs
  <2> DEFINE outs == checkOutputsForDevice(s, device)
  <2>1. /\ \E more : DOMAIN outs = DOMAIN s.outs \cup more
        /\ \A x \in DOMAIN outs :
             IF x \in DOMAIN s.outs THEN outs[x] = s.outs[x] ELSE outs[x].refs = NoRefs
    BY NewOutputsHold, Zenon DEF Good
  <2> HIDE DEF outs
  <2> QED
    BY <2>1 DEF outs
<1>2. /\ Object(b) /\ SameButOuts(a, b) /\ DOMAIN b.outs = DOMAIN a.outs
      /\ \A x \in DOMAIN a.outs :
           /\ b.outs[x].params = a.outs[x].params
           /\ \A z \in Streams : b.outs[x].refs[z] =
                IF device = "FM" /\ x = "primary" /\ z = "MUSIC"
                THEN Added(a.outs[x].refs[z], 1) ELSE a.outs[x].refs[z]
  BY FmCountHolds
<1> HIDE DEF b
<1>3. b.avail = s.avail \cup {device} /\ b.fm = a.fm
  BY <1>2 DEF SameButOuts, Fields
<1>4. st \in Started /\ \A x \in DOMAIN b.outs : x \in OutputIds
  BY <1>2 DEF Counted, Object, OutputsOK
<1>5. ASSUME NEW x \in DOMAIN b.outs, NEW z \in Streams
      PROVE  b.outs[x].refs[z] = Tally(b, st, x, z)
  <2>1. a.outs[x].refs[z] = Tally(s, st, x, z)
    <3>1. CASE x \in DOMAIN s.outs
      BY <1>1, <1>2, <3>1 DEF Counted
    <3>2. CASE x \notin DOMAIN s.outs
      <4>1. x # "primary" /\ (x = "a2dp" => "dup" \notin DOMAIN s.outs)
        BY <3>2 DEF Good, Object, OutputsOK
      <4>2. st[x][z] = 0 /\ (x = "a2dp" => st["dup"][z] = 0)
        BY <1>4, <3>2, <4>1 DEF Counted, NoRefs, OutputIds
      <4>3. a.outs[x].refs[z] = 0
        BY <1>1, <1>2, <3>2 DEF NoRefs
      <4> QED
        BY <4>1, <4>2, <4>3 DEF Tally
    <3> QED
      BY <3>1, <3>2
  <2>2. Tally(s, st, x, z) \in Nat
    BY <1>4, TallyIsNat
  <2>3. CASE device = "FM" /\ x = "primary" /\ z = "MUSIC"
    <3>1. b.outs[x].refs[z] = Tally(s, st, x, z) + 1
      BY <1>2, <2>1, <2>2, <2>3 DEF Added
    <3>2. "FM" \notin s.avail /\ "FM" \in b.avail
      BY <1>3, <2>3
    <3>3. st["primary"][z] \in Nat /\ st["dup"][z] \in Nat
      BY <1>4 DEF Started, OutputIds
    <3> QED
      BY <2>3, <3>1, <3>2, <3>3 DEF Tally
  <2>4. CASE ~(device = "FM" /\ x = "primary" /\ z = "MUSIC")
    <3>1. b.outs[x].refs[z] = Tally(s, st, x, z)
      BY <1>2, <2>1, <2>4
    <3>2. x = "primary" /\ z = "MUSIC" => ("FM" \in b.avail <=> "FM" \in s.avail)
      BY <1>3, <2>4
    <3> QED
      BY <3>1, <3>2 DEF Tally
  <2> QED
    BY <2>3, <2>4
<1>6. Counted(b, st)
  BY <1>1, <1>2, <1>4, <1>5 DEF Counted
<1>7. DupCounted(b.outs)
  BY <1>2, <1>6, CountedGivesDup
<1>8. /\ Object(c) /\ Fresh(c)
      /\ \A f \in Fields \ {"suspended", "cache", "outs"} : c[f] = b[f]
      /\ DOMAIN c.outs = DOMAIN b.outs
      /\ \A x \in DOMAIN c.outs : /\ c.outs[x].params = b.outs[x].params
                                  /\ c.outs[x].refs = b.outs[x].refs
  <2>1. AllRerouted(b, c, FALSE)
    BY <1>2, <1>7, RerouteHolds DEF RouteConnected
  <2> HIDE DEF c
  <2> QED
    BY <2>1 DEF AllRerouted, ClosingIds, RefsAfter
<1> HIDE DEF c
<1>9. InputOn(c)
  <2>1. c.in = s.in /\ c.force = s.force /\ c.input = s.input
    BY <1>2, <1>8 DEF SameButOuts, Fields
  <2> QED
    BY <2>1, InputKept DEF Good
<1>10. Good(t) /\ \A f \in Fields \ {"in", "input"} : t[f] = c[f]
  BY <1>8, <1>9, PlugsHold DEF Good
<1> HIDE DEF t
<1>11. /\ t.outs = c.outs /\ t.avail = b.avail /\ t.fm = a.fm /\ c.avail = b.avail
       /\ t.force = s.force /\ t.pending = s.pending
  BY <1>2, <1>8, <1>10 DEF SameButOuts, Fields
<1>12. Counted(t, st)
  BY <1>6, <1>8, <1>11, CountedKept
<1>13. FmAgrees(t)
  BY <1>3, <1>11 DEF FmAgrees
<1>14. Remembered(t, config)
  BY <1>11 DEF Remembered
<1>15. /\ DOMAIN s.outs \subseteq DOMAIN t.outs
       /\ \A x \in DOMAIN s.outs : t.outs[x].params = s.outs[x].params
  BY <1>1, <1>2, <1>8, <1>11
<1> QED
  BY <1>2, <1>7, <1>10, <1>12, <1>13, <1>14, <1>15 DEF t, c, b, Reroutable


\* The inductive invariant, as an operator on the object, the forced use last
\* asked for and the tracks started.
PolicyOK(s, config, st) ==
    Good(s) /\ FmAgrees(s) /\ Remembered(s, config) /\ Counted(s, st)

\* Every output of s is in t, opened no other way.
OutputsStay(s, t) ==
    /\ DOMAIN s.outs \subseteq DOMAIN t.outs
    /\ \A x \in DOMAIN s.outs : t.outs[x].params = s.outs[x].params

\* a is s once a device is available, before anything is routed.
MadeAvailable(s, a, device) ==
    /\ Object(a)
    /\ \A f \in Fields \ {"fm", "avail", "outs", "suspended"} : a[f] = s[f]
    /\ a.fm # "FM_NONE" <=> device = "FM" \/ s.fm # "FM_NONE"
    /\ s.fm # "FM_NONE" => a.fm = s.fm
    /\ a.avail = s.avail \cup {device}
    /\ a.outs = checkOutputsForDevice(s, device)

LEMMA AvailableHolds ==
    ASSUME NEW s, Good(s), NEW device \in Connectable, NEW analog \in BOOLEAN,
           ~(device = "FM" /\ s.fm # "FM_NONE"), device \notin s.avail
    PROVE  MadeAvailable(s, Available([s EXCEPT !.fm = FmModeOnConnect(s, device, analog)], device),
                         device)
<1> DEFINE fm == [s EXCEPT !.fm = FmModeOnConnect(s, device, analog)]
           a == Available(fm, device)
<1>1. DOMAIN s = Fields
  BY DEF Good, Object
<1>2. /\ DOMAIN fm = Fields /\ \A f \in Fields \ {"fm"} : fm[f] = s[f]
      /\ fm.fm = FmModeOnConnect(s, device, analog)
  BY <1>1 DEF Fields
<1> HIDE DEF fm
<1>3. fm.outs = s.outs /\ fm.avail = s.avail /\ fm.suspended = s.suspended
  BY <1>2 DEF Fields
<1>4. checkOutputsForDevice(fm, device) = checkOutputsForDevice(s, device)
  BY <1>3 DEF checkOutputsForDevice
<1>5. /\ DOMAIN a = Fields
      /\ \A f \in Fields \ {"avail", "outs", "suspended"} : a[f] = fm[f]
      /\ a.avail = s.avail \cup {device} /\ a.outs = checkOutputsForDevice(s, device)
      /\ a.suspended = IF device \in Profiles.a2dp THEN FALSE ELSE s.suspended
  BY <1>2, <1>3, <1>4 DEF Available, Fields
<1> HIDE DEF a
<1>6. /\ a.fm \in {"FM_NONE", "FM_ANALOG", "FM_DIGITAL"}
      /\ a.fm # "FM_NONE" <=> device = "FM" \/ s.fm # "FM_NONE"
      /\ s.fm # "FM_NONE" => a.fm = s.fm
  <2>1. a.fm = FmModeOnConnect(s, device, analog)
    BY <1>2, <1>5 DEF Fields
  <2> QED
    BY <2>1 DEF FmModeOnConnect, Good, Object
<1>7. \A f \in Fields \ {"fm", "avail", "outs", "suspended"} : a[f] = s[f]
  BY <1>2, <1>5
<1>8. a.force = s.force /\ a.cache = s.cache /\ a.pending = s.pending /\ a.input = s.input
  BY <1>7 DEF Fields
<1>9. a.suspended \in BOOLEAN
  BY <1>5 DEF Good, Object
<1>10. OutputsOK(a.outs)
  <2>1. OutputsOK(checkOutputsForDevice(s, device))
    BY NewOutputsHold, Zenon DEF Good
  <2> QED
    BY <1>5, <2>1
<1>11. Object(a)
  BY <1>5, <1>6, <1>8, <1>9, <1>10 DEF Object, Good
<1> QED
  BY <1>5, <1>6, <1>7, <1>11 DEF MadeAvailable, a, fm

LEMMA ConnectHolds ==
    ASSUME NEW s, NEW device \in Connectable, NEW analog \in BOOLEAN, NEW opens \in BOOLEAN,
           NEW st, NEW config, PolicyOK(s, config, st)
    PROVE  LET t == Connect(s, device, analog, opens) IN
           PolicyOK(t, config, st) /\ OutputsStay(s, t)
<1> DEFINE fm == [s EXCEPT !.fm = FmModeOnConnect(s, device, analog)]
           needs == device \in Profiles.a2dp /\ "a2dp" \notin DOMAIN s.outs
           t == Connect(s, device, analog, opens)
<1> USE DEF PolicyOK
<1>1. DOMAIN s = Fields
  BY DEF Good, Object
<1>2. /\ DOMAIN fm = Fields /\ \A f \in Fields \ {"fm"} : fm[f] = s[f]
      /\ fm.fm = FmModeOnConnect(s, device, analog)
  BY <1>1 DEF Fields
<1>3. CASE device = "FM" /\ s.fm # "FM_NONE"
  BY <1>3 DEF Connect, OutputsStay
<1>4. CASE ~(device = "FM" /\ s.fm # "FM_NONE") /\ (device \in s.avail \/ (needs /\ ~opens))
  <2>1. t = fm
    BY <1>4 DEF Connect
  <2>2. device # "FM"
    BY <1>4 DEF FmAgrees, Profiles
  <2> HIDE DEF fm, t
  <2>3. fm.fm = s.fm
    BY <1>2, <2>2 DEF FmModeOnConnect
  <2>4. \A f \in Fields : fm[f] = s[f]
    BY <1>2, <2>3
  <2>5. /\ fm.avail = s.avail /\ fm.phone = s.phone /\ fm.force = s.force
        /\ fm.suspended = s.suspended /\ fm.outs = s.outs /\ fm.cache = s.cache
        /\ fm.pending = s.pending /\ fm.input = s.input /\ fm.in = s.in
    BY <2>4 DEF Fields
  <2>6. Object(fm)
    BY <1>2, <2>3, <2>5 DEF Object, Good
  <2>7. Fresh(fm) /\ InputOn(fm)
    BY <2>4, <2>5, FreshKept, InputKept DEF Fields, Good
  <2>8. Counted(fm, st)
    BY <2>5, CountedKept
  <2> QED
    BY <2>1, <2>3, <2>5, <2>6, <2>7, <2>8 DEF Good, FmAgrees, Remembered, OutputsStay, t
<1>5. CASE ~(device = "FM" /\ s.fm # "FM_NONE") /\ ~(device \in s.avail \/ (needs /\ ~opens))
  <2> DEFINE a == Available(fm, device)
             u == PlugInput(RouteConnected(changeFmRefCount(a, device, 1), device), device)
  <2>1. t = u
    BY <1>5 DEF Connect
  <2> HIDE DEF t
  <2>2. device \notin s.avail
    BY <1>5
  <2>3. MadeAvailable(s, a, device)
    BY <1>5, <2>2, AvailableHolds
  <2> HIDE DEF a
  <2>4. /\ Good(u) /\ FmAgrees(u) /\ Remembered(u, config) /\ Counted(u, st)
        /\ DOMAIN s.outs \subseteq DOMAIN u.outs
        /\ \A x \in DOMAIN s.outs : u.outs[x].params = s.outs[x].params
    BY <2>2, <2>3, ConnectedHolds DEF MadeAvailable
  <2> HIDE DEF u
  <2> QED
    BY <2>1, <2>4 DEF OutputsStay, t
<1> QED
  BY <1>3, <1>4, <1>5


\* The tracks started, once the outputs that t closes are gone.
Carried(s, t, st) ==
    [x \in DOMAIN st |->
        IF x \notin DOMAIN t.outs \/ (x \in DOMAIN s.outs /\ t.outs[x].params # s.outs[x].params)
        THEN NoRefs ELSE st[x]]

LEMMA NothingCarried ==
    ASSUME NEW s, NEW t, NEW st, NEW config, PolicyOK(s, config, st), OutputsStay(s, t)
    PROVE  Carried(s, t, st) = st
<1>1. st \in Started /\ \A x \in OutputIds \ DOMAIN s.outs : st[x] = NoRefs
  BY DEF PolicyOK, Counted
<1>2. \A x \in OutputIds :
        (IF x \notin DOMAIN t.outs \/ (x \in DOMAIN s.outs /\ t.outs[x].params # s.outs[x].params)
         THEN NoRefs ELSE st[x]) = st[x]
  BY <1>1 DEF OutputsStay
<1> QED
  BY <1>1, <1>2 DEF Carried, Started

\* The end of FM mode: the device is still there, and the cache may be old.
LEMMA FmOffHolds ==
    ASSUME NEW s, NEW config, NEW st, PolicyOK(s, config, st)
    PROVE  LET t == FmOff(s) IN
           /\ Object(t) /\ InputOn(t) /\ t.fm = "FM_NONE" /\ t.avail = s.avail
           /\ SameOutputs(s.outs, t.outs) /\ Remembered(t, config)
           /\ s.fm = "FM_NONE" => Fresh(t)
<1> DEFINE none == [s EXCEPT !.fm = "FM_NONE"]
           a == IF s.pending THEN setForceUse(none, "MEDIA", "NONE") ELSE none
           t == FmOff(s)
<1> USE DEF PolicyOK
<1>1. DOMAIN s = Fields
  BY DEF Good, Object
<1>2. DOMAIN none = Fields /\ none.fm = "FM_NONE" /\ \A f \in Fields \ {"fm"} : none[f] = s[f]
  BY <1>1 DEF Fields
<1> HIDE DEF none
<1>3. /\ none.avail = s.avail /\ none.force = s.force /\ none.suspended = s.suspended
      /\ none.outs = s.outs /\ none.cache = s.cache /\ none.pending = s.pending
      /\ none.input = s.input /\ none.in = s.in /\ none.phone = s.phone
  BY <1>2 DEF Fields
<1>4. Object(none)
  BY <1>2, <1>3 DEF Good, Object
<1>5. InputOn(none) /\ SourceOK(none)
  BY <1>3, InputKept DEF Good
<1>6. /\ Object(a) /\ InputOn(a) /\ a.fm = "FM_NONE" /\ a.avail = s.avail
      /\ SameOutputs(s.outs, a.outs) /\ Remembered(a, config)
      /\ s.fm = "FM_NONE" => Fresh(a)
  <2>1. CASE s.pending
    <3> DEFINE u == Forced(none, "MEDIA", "NONE")
    <3>1. config = "NONE"
      BY <2>1 DEF Remembered
    <3>2. a = u
      BY <1>2, <2>1 DEF setForceUse, Deferred, Accepts
    <3>3. "MEDIA" \in Usages
      BY DEF Usages
    <3>4. ForcedTo(none, u, "MEDIA", "NONE")
      BY <1>4, <1>5, <3>3, ForcedHolds
    <3>5. u.force.MEDIA = "NONE" /\ u.pending = FALSE
      BY <1>4, <3>3, <3>4 DEF ForcedTo, Object
    <3>6. Remembered(u, config)
      BY <3>1, <3>5 DEF Remembered
    <3> QED
      BY <1>2, <1>3, <3>2, <3>4, <3>6 DEF ForcedTo
  <2>2. CASE ~s.pending
    <3>1. a = none
      BY <2>2
    <3>2. Remembered(none, config)
      BY <1>3, <2>2 DEF Remembered
    <3>3. s.fm = "FM_NONE" => Fresh(none)
      <4>1. SUFFICES ASSUME s.fm = "FM_NONE" PROVE Fresh(none)
        OBVIOUS
      <4>2. none.fm = s.fm
        BY <1>2, <4>1
      <4> QED
        BY <1>3, <4>2, FreshKept DEF Good
    <3> HIDE DEF a
    <3> QED
      BY <1>2, <1>3, <1>4, <1>5, <3>1, <3>2, <3>3 DEF SameOutputs
  <2> QED
    BY <2>1, <2>2
<1> HIDE DEF a
<1>7. t = RestoreCodec(a)
  BY DEF FmOff, a, none
<1>8. Rerouted(a, t)
  <2>1. "primary" \in DOMAIN a.outs
    BY <1>6 DEF Object, OutputsOK
  <2>2. Rerouted(a, RouteOutput(a, "primary", {"WIRED_HEADSET"})) /\ Rerouted(a, a)
    BY <1>6, <2>1, RouteOutputReroutes, ReroutedIsPreorder
  <2> HIDE DEF t
  <2> QED
    BY <1>7, <2>2 DEF RestoreCodec
<1> HIDE DEF t
<1>9. /\ t.fm = a.fm /\ t.avail = a.avail /\ t.force = a.force /\ t.pending = a.pending
      /\ t.in = a.in /\ t.input = a.input
  BY <1>8 DEF Rerouted, SameButOuts, Fields
<1>10. InputOn(t) /\ Remembered(t, config)
  BY <1>6, <1>9, InputKept DEF Remembered
<1>11. Object(t) /\ SameOutputs(s.outs, t.outs)
  BY <1>6, <1>8 DEF Rerouted, SameOutputs
<1>12. Fresh(a) => Fresh(t)
  BY <1>8, RerouteKeepsFresh
<1> QED
  BY <1>6, <1>9, <1>10, <1>11, <1>12 DEF t


\* A device that goes; s is the object before, e after the end of FM, if any.
LEMMA DisconnectedHolds ==
    ASSUME NEW s, NEW e, NEW device, NEW config, NEW st, PolicyOK(s, config, st),
           Object(e), InputOn(e), e.avail = s.avail, SameOutputs(s.outs, e.outs),
           Remembered(e, config), e.fm = (IF device = "FM" THEN "FM_NONE" ELSE s.fm),
           device \in e.avail
    PROVE  LET t == Disconnected(e, device) IN
           /\ PolicyOK(t, config, Carried(s, t, st))
           /\ Reroutable(changeFmRefCount(Unavailable(e, device), device, -1))
<1> DEFINE a == Unavailable(e, device)
           b == changeFmRefCount(a, device, -1)
           closed == "a2dp" \in DOMAIN a.outs /\ a.avail \cap Profiles.a2dp = {}
           c == RouteDisconnected(a, device)
           t == Disconnected(e, device)
<1> USE DEF PolicyOK
<1>1. /\ DOMAIN a = Fields /\ a.avail = s.avail \ {device}
      /\ a.suspended = IF device \in Profiles.a2dp THEN FALSE ELSE e.suspended
      /\ \A f \in Fields \ {"avail", "suspended"} : a[f] = e[f]
  BY DEF Object, Unavailable, Fields
<1> HIDE DEF a
<1>2. /\ a.phone = e.phone /\ a.force = e.force /\ a.fm = e.fm /\ a.outs = e.outs
      /\ a.cache = e.cache /\ a.pending = e.pending /\ a.input = e.input /\ a.in = e.in
  BY <1>1 DEF Fields
<1>3. a.suspended \in BOOLEAN
  BY <1>1 DEF Object
<1>4. Object(a)
  BY <1>1, <1>2, <1>3 DEF Object
<1>5. /\ Object(b) /\ SameButOuts(a, b) /\ DOMAIN b.outs = DOMAIN s.outs
      /\ \A x \in DOMAIN s.outs :
           /\ b.outs[x].params = s.outs[x].params
           /\ \A z \in Streams : b.outs[x].refs[z] =
                IF device = "FM" /\ x = "primary" /\ z = "MUSIC"
                THEN Added(s.outs[x].refs[z], -1) ELSE s.outs[x].refs[z]
  <2>1. -1 \in Int
    OBVIOUS
  <2> DEFINE ao == a.outs
  <2>2. /\ Object(b) /\ SameButOuts(a, b) /\ DOMAIN b.outs = DOMAIN ao
        /\ \A x \in DOMAIN ao :
             /\ b.outs[x].params = ao[x].params
             /\ \A z \in Streams : b.outs[x].refs[z] =
                  IF device = "FM" /\ x = "primary" /\ z = "MUSIC"
                  THEN Added(ao[x].refs[z], -1) ELSE ao[x].refs[z]
    BY <1>4, <2>1, FmCountHolds
  <2>3. SameOutputs(s.outs, ao)
    BY <1>2
  <2> HIDE DEF b, ao
  <2> QED
    BY <2>2, <2>3 DEF SameOutputs
<1> HIDE DEF b
<1>6. b.avail = s.avail \ {device} /\ b.fm = e.fm /\ b.force = e.force
      /\ b.pending = e.pending /\ b.in = e.in /\ b.input = e.input
  BY <1>1, <1>2, <1>5 DEF SameButOuts, Fields
<1>7. st \in Started /\ DOMAIN s.outs \subseteq OutputIds
  BY DEF Counted, Good, Object, OutputsOK
<1>8. ASSUME NEW x \in DOMAIN s.outs, NEW z \in Streams
      PROVE  b.outs[x].refs[z] = Tally(b, st, x, z)
  <2>1. s.outs[x].refs[z] = Tally(s, st, x, z)
    BY DEF Counted
  <2>2. CASE device = "FM" /\ x = "primary" /\ z = "MUSIC"
    <3>1. "FM" \in s.avail /\ "FM" \notin b.avail
      BY <1>6, <2>2
    <3>2. st["primary"][z] \in Nat /\ st["dup"][z] \in Nat
      BY <1>7 DEF Started, OutputIds
    <3>3. s.outs[x].refs[z] = st["primary"][z] + st["dup"][z] + 1
      BY <2>1, <2>2, <3>1 DEF Tally
    <3>4. b.outs[x].refs[z] = st["primary"][z] + st["dup"][z]
      BY <1>5, <2>2, <3>2, <3>3 DEF Added
    <3> QED
      BY <2>2, <3>1, <3>2, <3>4 DEF Tally
  <2>3. CASE ~(device = "FM" /\ x = "primary" /\ z = "MUSIC")
    <3>1. b.outs[x].refs[z] = Tally(s, st, x, z)
      BY <1>5, <2>1, <2>3
    <3>2. x = "primary" /\ z = "MUSIC" => ("FM" \in b.avail <=> "FM" \in s.avail)
      BY <1>6, <2>3
    <3> QED
      BY <3>1, <3>2 DEF Tally
  <2> QED
    BY <2>2, <2>3
<1>9. Counted(b, st)
  BY <1>5, <1>7, <1>8 DEF Counted
<1>10. DupCounted(b.outs)
  BY <1>5, <1>9, CountedGivesDup
<1> HIDE DEF closed
<1>11. AllRerouted(b, c, closed)
  BY <1>5, <1>10, RerouteHolds DEF RouteDisconnected, b, closed
<1> HIDE DEF c
<1>12. /\ Object(c) /\ Fresh(c) /\ c.in = b.in /\ c.force = b.force /\ c.input = b.input
       /\ c.avail = b.avail /\ c.fm = b.fm /\ c.pending = b.pending
       /\ DOMAIN c.outs = DOMAIN s.outs \ ClosingIds(closed)
       /\ \A x \in DOMAIN c.outs : /\ c.outs[x].params = s.outs[x].params
                                   /\ c.outs[x].refs = RefsAfter(b.outs, closed, x)
  BY <1>5, <1>11 DEF AllRerouted, Fields
<1>13. Good(c)
  BY <1>6, <1>12, InputKept DEF Good
<1>14. Good(t) /\ \A f \in Fields \ {"in", "input"} : t[f] = c[f]
  BY <1>13, PlugsHold DEF Disconnected, c, a
<1> HIDE DEF t
<1>15. /\ t.outs = c.outs /\ t.avail = s.avail \ {device} /\ t.fm = e.fm
       /\ t.force = e.force /\ t.pending = e.pending
  BY <1>6, <1>12, <1>14 DEF Fields
<1>16. FmAgrees(t) /\ Remembered(t, config)
  BY <1>15 DEF FmAgrees, Remembered
<1> DEFINE new == Carried(s, t, st)
<1>17. \A x \in OutputIds : new[x] = IF x \in DOMAIN t.outs THEN st[x] ELSE NoRefs
  BY <1>7, <1>12, <1>15 DEF Carried, Started
<1>18. new \in Started
  <2>1. NoRefs \in [Streams -> Nat]
    BY DEF NoRefs
  <2> QED
    BY <1>7, <2>1 DEF Carried, Started
<1> HIDE DEF new
<1>19. ASSUME NEW x \in DOMAIN t.outs, NEW z \in Streams
       PROVE  t.outs[x].refs[z] = Tally(t, new, x, z)
  <2>1. x \in DOMAIN s.outs /\ x \in OutputIds /\ "dup" \in OutputIds /\ new[x] = st[x]
    BY <1>7, <1>12, <1>15, <1>17 DEF OutputIds
  <2>2. b.outs[x].refs[z] = Tally(b, st, x, z)
    BY <1>5, <1>9, <2>1 DEF Counted
  <2>3. t.avail = b.avail
    BY <1>6, <1>15
  <2>4. CASE closed
    <3>1. "dup" \notin DOMAIN t.outs /\ "a2dp" \notin DOMAIN t.outs
      BY <1>12, <1>15, <2>4 DEF ClosingIds
    <3>2. "dup" \in DOMAIN b.outs
      BY <1>2, <1>5, <2>4 DEF closed, Object, OutputsOK, SameOutputs
    <3>3. new["dup"][z] = 0
      BY <1>17, <2>1, <3>1 DEF NoRefs
    <3>4. t.outs[x].refs[z] = LeftRefs(b.outs, "a2dp", x)[z]
      BY <1>12, <1>15, <2>4 DEF RefsAfter
    <3>5. CASE x = "primary"
      <4>1. t.outs[x].refs[z] = b.outs[x].refs[z] - b.outs["dup"].refs[z]
        BY <3>2, <3>4, <3>5 DEF LeftRefs
      <4>2. b.outs["dup"].refs[z] = st["dup"][z]
        BY <1>7, <1>9, <2>1, <3>2, TallyIsNat DEF Counted
      <4>3. st["dup"][z] \in Nat /\ st["primary"][z] \in Nat
        BY <1>7, <2>1, <3>5 DEF Started
      <4> QED
        BY <2>1, <2>2, <2>3, <3>3, <3>5, <4>1, <4>2, <4>3 DEF Tally
    <3>6. CASE x # "primary"
      <4>1. t.outs[x].refs[z] = b.outs[x].refs[z]
        BY <3>4, <3>6 DEF LeftRefs
      <4> QED
        BY <2>1, <2>2, <3>1, <3>6, <4>1 DEF Tally
    <3> QED
      BY <3>5, <3>6
  <2>5. CASE ~closed
    <3>1. t.outs[x].refs = b.outs[x].refs /\ DOMAIN t.outs = DOMAIN s.outs
      BY <1>12, <1>15, <2>5 DEF RefsAfter, ClosingIds
    <3>2. new["dup"] = st["dup"]
      BY <1>17, <2>1, <3>1 DEF Counted
    <3> QED
      BY <2>1, <2>2, <2>3, <3>1, <3>2 DEF Tally
  <2> QED
    BY <2>4, <2>5
<1>20. Counted(t, new)
  BY <1>17, <1>18, <1>19 DEF Counted
<1> QED
  BY <1>5, <1>10, <1>14, <1>16, <1>20 DEF t, new, a, b, Reroutable

LEMMA DisconnectHolds ==
    ASSUME NEW s, NEW device, NEW config, NEW st, PolicyOK(s, config, st)
    PROVE  LET t == Disconnect(s, device) IN PolicyOK(t, config, Carried(s, t, st))
<1> DEFINE e == IF device = "FM" THEN FmOff(s) ELSE s
           t == Disconnect(s, device)
<1> USE DEF PolicyOK
<1>1. /\ Object(e) /\ InputOn(e) /\ e.avail = s.avail /\ SameOutputs(s.outs, e.outs)
      /\ Remembered(e, config) /\ e.fm = (IF device = "FM" THEN "FM_NONE" ELSE s.fm)
      /\ device # "FM" \/ s.fm = "FM_NONE" => Fresh(e)
  <2>1. CASE device = "FM"
    <3> DEFINE u == FmOff(s)
    <3>1. /\ Object(u) /\ InputOn(u) /\ u.fm = "FM_NONE" /\ u.avail = s.avail
          /\ SameOutputs(s.outs, u.outs) /\ Remembered(u, config)
          /\ s.fm = "FM_NONE" => Fresh(u)
      BY FmOffHolds
    <3> HIDE DEF u
    <3>2. e = u
      BY <2>1 DEF u
    <3> HIDE DEF e
    <3> QED
      BY <2>1, <3>1, <3>2
  <2>2. CASE device # "FM"
    BY <2>2 DEF Good, SameOutputs
  <2> QED
    BY <2>1, <2>2
<1>2. t = Disconnected(e, device)
  BY DEF Disconnect
<1> HIDE DEF e, t
<1>3. CASE device \in e.avail
  BY <1>1, <1>2, <1>3, DisconnectedHolds DEF t
<1>4. CASE device \notin e.avail
  <2>1. t = e
    BY <1>2, <1>4 DEF Disconnected
  <2>2. device = "FM" => s.fm = "FM_NONE"
    BY <1>1, <1>4 DEF FmAgrees
  <2>3. Good(e) /\ FmAgrees(e)
    BY <1>1, <2>2 DEF Good, FmAgrees
  <2>4. Counted(e, st)
    BY <1>1, CountedKept DEF SameOutputs
  <2>5. OutputsStay(s, e)
    BY <1>1 DEF SameOutputs, OutputsStay
  <2>6. Carried(s, e, st) = st
    BY <2>5, NothingCarried
  <2> QED
    BY <1>1, <2>1, <2>3, <2>4, <2>6 DEF t
<1> QED
  BY <1>3, <1>4


-----------------------------------------------------------------------------
(* Operations that route and mute.                                         *)

\* t is s routed and muted otherwise, its cache up to date.
Revised(s, t) ==
    /\ Object(t) /\ Fresh(t) /\ SameOutputs(s.outs, t.outs)
    /\ \A f \in Fields \ {"outs", "cache"} : t[f] = s[f]

LEMMA RevisedHolds ==
    ASSUME NEW s, NEW t, NEW config, NEW st, PolicyOK(s, config, st), Revised(s, t)
    PROVE  PolicyOK(t, config, st) /\ OutputsStay(s, t)
<1>1. /\ t.avail = s.avail /\ t.force = s.force /\ t.fm = s.fm /\ t.pending = s.pending
      /\ t.input = s.input /\ t.in = s.in
  BY DEF Revised, Fields
<1>2. InputOn(t)
  BY <1>1, InputKept DEF PolicyOK, Good
<1>3. Counted(t, st)
  BY <1>1, CountedKept DEF PolicyOK, Revised, SameOutputs
<1>4. FmAgrees(t) /\ Remembered(t, config)
  BY <1>1 DEF PolicyOK, FmAgrees, Remembered
<1> QED
  BY <1>2, <1>3, <1>4 DEF PolicyOK, Good, Revised, OutputsStay, SameOutputs

LEMMA ReroutedIsRevised ==
    ASSUME NEW s, NEW t, Fresh(s), Rerouted(s, t)
    PROVE  Revised(s, t) /\ Revised(s, updateDevicesAndOutputs(t))
<1> DEFINE u == updateDevicesAndOutputs(t)
<1>1. Object(t) /\ Fresh(t)
  BY RerouteKeepsFresh DEF Rerouted
<1>2. Object(u) /\ Fresh(u) /\ u.outs = t.outs /\ \A f \in Fields \ {"cache"} : u[f] = t[f]
  BY <1>1, UpdateRefreshes
<1> HIDE DEF u
<1> QED
  BY <1>1, <1>2 DEF Revised, Rerouted, SameButOuts, u

LEMMA MuteReroutes ==
    ASSUME NEW s, Object(s), NEW n \in Nat
    PROVE  Rerouted(s, [s EXCEPT !.outs["primary"].muteCount["SONIFICATION"] = n])
<1> DEFINE old == s.outs["primary"]
           new == [old EXCEPT !.muteCount["SONIFICATION"] = n]
           outs == [s.outs EXCEPT !["primary"] = new]
<1>1. DOMAIN s = Fields /\ "primary" \in DOMAIN s.outs /\ DescOK("primary", old)
  BY DEF Object, OutputsOK
<1>2. [s EXCEPT !.outs["primary"].muteCount["SONIFICATION"] = n] = [s EXCEPT !.outs = outs]
  BY <1>1 DEF Fields, DescOK, DescFields
<1>3. /\ DOMAIN new = DescFields /\ new.device = old.device /\ new.refs = old.refs
      /\ new.params = old.params
      /\ new.muteCount = [old.muteCount EXCEPT !["SONIFICATION"] = n]
  BY <1>1 DEF DescOK, DescFields
<1> HIDE DEF new
<1>4. [old.muteCount EXCEPT !["SONIFICATION"] = n] \in [Strategies -> Nat]
  BY <1>1 DEF DescOK
<1>5. DescOK("primary", new)
  BY <1>1, <1>3, <1>4 DEF DescOK
<1>6. OutputsOK(outs) /\ SameOutputs(s.outs, outs)
  BY <1>1, <1>3, <1>5 DEF OutputsOK, SameOutputs, Object
<1> HIDE DEF outs
<1>7. Rerouted(s, [s EXCEPT !.outs = outs])
  BY <1>6, OtherOuts DEF Rerouted
<1> QED
  BY <1>2, <1>7

LEMMA RingMuteReroutes ==
    ASSUME NEW s, Object(s), NEW mute
    PROVE  Rerouted(s, RingMute(s, mute))
<1> DEFINE n == s.outs["primary"].muteCount["SONIFICATION"]
<1>1. n \in Nat /\ "primary" \in DOMAIN s.outs /\ DOMAIN s = Fields
      /\ DescOK("primary", s.outs["primary"])
  BY DEF Object, OutputsOK, DescOK, Strategies
<1>2. Muted(n, mute) \in Nat
  BY <1>1 DEF Muted
<1>3. RingMute(s, mute)
        = [s EXCEPT !.outs["primary"].muteCount["SONIFICATION"] = Muted(n, mute)]
  BY <1>1 DEF RingMute
<1> HIDE DEF n
<1> QED
  BY <1>2, <1>3, MuteReroutes

LEMMA SonificationReroutes ==
    ASSUME NEW s, Object(s), NEW stream, NEW starting, NEW stateChange
    PROVE  Rerouted(s, handleIncallSonification(s, stream, starting, stateChange))
<1> DEFINE n == s.outs["primary"].refs[stream]
           times == IF stateChange THEN n ELSE 1
           count == s.outs["primary"].muteCount["SONIFICATION"]
           after == IF starting THEN count + times
                    ELSE IF count < times THEN 0 ELSE count - times
           t == handleIncallSonification(s, stream, starting, stateChange)
<1>1. DescOK("primary", s.outs["primary"])
  BY DEF Object, OutputsOK
<1>2. CASE ~isInCall(s) \/ stream # "RING" \/ n = 0
  BY <1>2, ReroutedIsPreorder DEF handleIncallSonification
<1>3. CASE ~(~isInCall(s) \/ stream # "RING" \/ n = 0)
  <2>1. stream \in Streams
    BY <1>3, PolicyAssumption
  <2>2. n \in Nat /\ count \in Nat
    BY <1>1, <2>1 DEF DescOK, Strategies
  <2>3. t = [s EXCEPT !.outs["primary"].muteCount["SONIFICATION"] = after]
    BY <1>3 DEF handleIncallSonification
  <2> HIDE DEF n, count, t
  <2>4. times \in Nat
    BY <2>2
  <2> HIDE DEF times
  <2>5. after \in Nat
    BY <2>2, <2>4
  <2> HIDE DEF after
  <2> QED
    BY <2>3, <2>5, MuteReroutes DEF t
<1> QED
  BY <1>2, <1>3


LEMMA RoutePhoneReroutes ==
    ASSUME NEW s, Object(s), NEW device, NEW rings
    PROVE  Rerouted(s, RoutePhone(s, device, rings))
<1> DEFINE a == RingMute(s, TRUE)
           b == RouteOutput(a, "primary", device)
           c == RingMute(b, FALSE)
<1>0. \A t : Object(t) => "primary" \in DOMAIN t.outs
  BY DEF Object, OutputsOK
<1>1. Rerouted(s, a)
  BY RingMuteReroutes
<1> HIDE DEF a
<1>2. Rerouted(a, b)
  BY <1>0, <1>1, RouteOutputReroutes DEF Rerouted
<1> HIDE DEF b
<1>3. Rerouted(b, c)
  BY <1>2, RingMuteReroutes DEF Rerouted
<1> HIDE DEF c
<1>4. Rerouted(s, c)
  BY <1>1, <1>2, <1>3, ReroutedIsPreorder
<1>5. Rerouted(s, RouteOutput(s, "primary", device))
  BY <1>0, RouteOutputReroutes
<1> QED
  BY <1>4, <1>5 DEF RoutePhone, c, b, a

LEMMA setPhoneStateHolds ==
    ASSUME NEW s, NEW phone, NEW config, NEW st, PolicyOK(s, config, st)
    PROVE  LET t == setPhoneState(s, phone) IN PolicyOK(t, config, st) /\ OutputsStay(s, t)
<1> DEFINE left == handleIncallSonification(s, "RING", FALSE, TRUE)
           a == [left EXCEPT !.phone = phone]
           b == checkA2dpSuspend(a)
           c == updateDevicesAndOutputs(b)
           d == RoutePhone(c, PrimaryForPhone(left, phone),
                           IsStateInCall(phone) /\ s.phone = "RINGTONE")
           in == handleIncallSonification(d, "RING", TRUE, TRUE)
           t == setPhoneState(s, phone)
<1>1. t = s \/ t = in \/ t = RouteOthers(in)
  BY DEF setPhoneState, NewPhone
<1>2. Rerouted(s, left)
  BY SonificationReroutes DEF PolicyOK, Good
<1> HIDE DEF left, t
<1>3. DOMAIN a = Fields /\ \A f \in Fields \ {"phone"} : a[f] = left[f]
  BY <1>2 DEF Rerouted, Object, Fields
<1> HIDE DEF a
<1>4. /\ a.avail = s.avail /\ a.force = s.force /\ a.fm = s.fm /\ a.outs = left.outs
      /\ a.suspended = s.suspended /\ a.cache = s.cache /\ a.pending = s.pending
      /\ a.input = s.input
  BY <1>2, <1>3 DEF Rerouted, SameButOuts, Fields
<1>5. Object(a)
  BY <1>2, <1>3, <1>4 DEF Rerouted, Object, PolicyOK, Good
<1>6. Object(b) /\ \A f \in Fields \ {"suspended"} : b[f] = a[f]
  BY <1>5, SuspendKeeps
<1> HIDE DEF b
<1>7. Object(c) /\ Fresh(c) /\ c.outs = b.outs /\ \A f \in Fields \ {"cache"} : c[f] = b[f]
  BY <1>6, UpdateRefreshes
<1> HIDE DEF c
<1>8. Rerouted(c, d)
  BY <1>7, RoutePhoneReroutes
<1> HIDE DEF d
<1>9. Rerouted(c, in)
  BY <1>8, SonificationReroutes, ReroutedIsPreorder DEF Rerouted
<1> HIDE DEF in
<1>10. Rerouted(c, RouteOthers(in))
  <2>1. Rerouted(in, RouteOthers(in))
    BY <1>9, RouteAllReroutes DEF RouteOthers, Rerouted
  <2> QED
    BY <1>9, <2>1, ReroutedIsPreorder
<1>11. ASSUME NEW u, Rerouted(c, u)
       PROVE  PolicyOK(u, config, st) /\ OutputsStay(s, u)
  <2>1. Object(u) /\ Fresh(u)
    BY <1>7, <1>11, RerouteKeepsFresh DEF Rerouted
  <2>2. /\ \A f \in Fields \ {"suspended", "phone", "cache", "outs"} : u[f] = s[f]
        /\ c.outs = left.outs
    BY <1>2, <1>3, <1>6, <1>7, <1>11 DEF Rerouted, SameButOuts, Fields
  <2>3. SameOutputs(s.outs, u.outs)
    BY <1>2, <1>11, <2>2 DEF Rerouted, SameOutputs
  <2>4. /\ u.avail = s.avail /\ u.force = s.force /\ u.fm = s.fm /\ u.pending = s.pending
        /\ u.input = s.input /\ u.in = s.in
    BY <2>2 DEF Fields
  <2>5. InputOn(u)
    BY <2>4, InputKept DEF PolicyOK, Good
  <2>6. Counted(u, st)
    BY <2>3, <2>4, CountedKept DEF PolicyOK, SameOutputs
  <2>7. FmAgrees(u) /\ Remembered(u, config)
    BY <2>4 DEF PolicyOK, FmAgrees, Remembered
  <2> QED
    BY <2>1, <2>3, <2>5, <2>6, <2>7 DEF PolicyOK, Good, OutputsStay, SameOutputs
<1>12. OutputsStay(s, s)
  BY DEF OutputsStay
<1> QED
  BY <1>1, <1>9, <1>10, <1>11, <1>12 DEF t

-----------------------------------------------------------------------------
(* Tracks that start and stop.                                             *)

\* A track counted on its output, and by the client.
CountTrack(s, o, stream, delta) ==
    [s EXCEPT !.outs = changeRefCount(@, o, stream, delta)]
CountClient(st, o, stream, delta) == [st EXCEPT ![o][stream] = @ + delta]

LEMMA TrackCounted ==
    ASSUME NEW s, NEW config, NEW st, PolicyOK(s, config, st), NEW o \in DOMAIN s.outs,
           NEW stream \in Streams, NEW delta \in {1, -1}, delta = 1 \/ st[o][stream] > 0
    PROVE  LET t == CountTrack(s, o, stream, delta) IN
           /\ PolicyOK(t, config, CountClient(st, o, stream, delta))
           /\ OutputsStay(s, t) /\ DOMAIN t.outs = DOMAIN s.outs
<1> DEFINE outs == changeRefCount(s.outs, o, stream, delta)
           t == [s EXCEPT !.outs = outs]
           new == CountClient(st, o, stream, delta)
<1>1. OutputsOK(s.outs) /\ DOMAIN s = Fields /\ DOMAIN s.outs \subseteq OutputIds
  BY DEF PolicyOK, Good, Object, OutputsOK
<1>2. /\ OutputsOK(outs) /\ DOMAIN outs = DOMAIN s.outs
      /\ \A x \in DOMAIN s.outs :
           /\ outs[x].params = s.outs[x].params
           /\ \A z \in Streams : outs[x].refs[z] =
                IF x \in Counting(o) /\ z = stream
                THEN Added(s.outs[x].refs[z], delta) ELSE s.outs[x].refs[z]
  BY <1>1, RefCountHolds
<1>3. t = CountTrack(s, o, stream, delta)
  BY <1>1 DEF CountTrack, Fields
<1> HIDE DEF outs
<1>4. Object(t) /\ SameButOuts(s, t) /\ t.outs = outs
  BY <1>2, OtherOuts DEF PolicyOK, Good
<1> HIDE DEF t
<1>5. st \in Started /\ o \in OutputIds /\ \A x \in OutputIds : st[x] \in [Streams -> Nat]
  BY <1>1 DEF PolicyOK, Counted, Started
<1>6. \A x \in OutputIds, z \in Streams :
        new[x][z] = IF x = o /\ z = stream THEN st[x][z] + delta ELSE st[x][z]
  BY <1>5 DEF CountClient, Started
<1>7. new \in Started
  <2>1. st[o][stream] + delta \in Nat
    BY <1>5
  <2>2. [st[o] EXCEPT ![stream] = @ + delta] \in [Streams -> Nat]
    BY <1>5, <2>1
  <2> QED
    BY <1>5, <2>2 DEF CountClient, Started
<1> HIDE DEF new
<1>8. t.avail = s.avail /\ t.in = s.in /\ t.force = s.force /\ t.input = s.input
      /\ t.fm = s.fm /\ t.pending = s.pending
  BY <1>4 DEF SameButOuts, Fields
<1>9. ASSUME NEW x \in DOMAIN t.outs, NEW z \in Streams
      PROVE  t.outs[x].refs[z] = Tally(t, new, x, z)
  <2>1. s.outs[x].refs[z] = Tally(s, st, x, z) /\ x \in OutputIds /\ "dup" \in OutputIds
    BY <1>1, <1>2, <1>4 DEF PolicyOK, Counted, OutputIds
  <2>2. st[x][z] \in Nat /\ st["dup"][z] \in Nat
    BY <1>5, <2>1
  <2>3. CASE x \in Counting(o) /\ z = stream
    <3>1. t.outs[x].refs[z] = Added(Tally(s, st, x, z), delta)
      BY <1>2, <1>4, <2>1, <2>3
    <3>2. CASE x = o
      <4>1. new[x][z] = st[x][z] + delta /\ (x # "dup" => new["dup"][z] = st["dup"][z])
        BY <1>6, <2>1, <2>3, <3>2
      <4>2. Tally(t, new, x, z) = Tally(s, st, x, z) + delta
        BY <1>8, <2>2, <3>2, <4>1 DEF Tally
      <4>3. delta = 1 \/ st[x][z] > 0
        BY <2>3, <3>2
      <4>4. Added(Tally(s, st, x, z), delta) = Tally(s, st, x, z) + delta
        BY <2>2, <4>3 DEF Added, Tally
      <4> QED
        BY <3>1, <4>2, <4>4
    <3>3. CASE x # o
      <4>1. o = "dup" /\ x \in {"primary", "a2dp"}
        BY <2>3, <3>3 DEF Counting
      <4>2. new[x][z] = st[x][z] /\ new["dup"][z] = st["dup"][z] + delta
        BY <1>6, <2>1, <2>3, <4>1
      <4>3. Tally(t, new, x, z) = Tally(s, st, x, z) + delta
        BY <1>8, <2>2, <4>1, <4>2 DEF Tally
      <4>4. delta = 1 \/ st["dup"][z] > 0
        BY <2>3, <4>1
      <4>5. Added(Tally(s, st, x, z), delta) = Tally(s, st, x, z) + delta
        BY <2>2, <4>1, <4>4 DEF Added, Tally
      <4> QED
        BY <3>1, <4>3, <4>5
    <3> QED
      BY <3>2, <3>3
  <2>4. CASE ~(x \in Counting(o) /\ z = stream)
    <3>1. t.outs[x].refs[z] = Tally(s, st, x, z)
      BY <1>2, <1>4, <2>1, <2>4
    <3>2. new[x][z] = st[x][z]
      BY <1>6, <2>1, <2>4 DEF Counting
    <3>3. x \in {"primary", "a2dp"} => new["dup"][z] = st["dup"][z]
      BY <1>6, <2>1, <2>4 DEF Counting
    <3> QED
      BY <1>8, <3>1, <3>2, <3>3 DEF Tally
  <2> QED
    BY <2>3, <2>4
<1>10. \A x \in OutputIds \ DOMAIN t.outs : new[x] = NoRefs
  <2>1. ASSUME NEW x \in OutputIds \ DOMAIN t.outs PROVE new[x] = NoRefs
    <3>1. x # o /\ st[x] = NoRefs
      BY <1>2, <1>4 DEF PolicyOK, Counted
    <3> QED
      BY <1>5, <3>1 DEF CountClient, Started, new
  <2> QED
    BY <2>1
<1>11. Counted(t, new)
  BY <1>7, <1>9, <1>10 DEF Counted
<1>12. Fresh(t) /\ InputOn(t)
  BY <1>2, <1>4, <1>8, FreshKept, InputKept DEF PolicyOK, Good, SameButOuts, Fields
<1>13. FmAgrees(t) /\ Remembered(t, config)
  BY <1>8 DEF PolicyOK, FmAgrees, Remembered
<1> QED
  BY <1>2, <1>3, <1>4, <1>11, <1>12, <1>13 DEF PolicyOK, Good, OutputsStay, new


LEMMA NotifiedHolds ==
    ASSUME NEW s, NEW t, NEW config, NEW st, PolicyOK(s, config, st), Rerouted(s, t), NEW stream
    PROVE  LET u == handleNotificationRoutingForStream(t, stream) IN
           PolicyOK(u, config, st) /\ OutputsStay(s, u)
<1>1. Revised(s, t) /\ Revised(s, updateDevicesAndOutputs(t))
  BY ReroutedIsRevised DEF PolicyOK, Good
<1> QED
  BY <1>1, RevisedHolds DEF handleNotificationRoutingForStream

LEMMA StayIsTransitive ==
    ASSUME NEW s, NEW t, NEW u, OutputsStay(s, t), OutputsStay(t, u)
    PROVE  OutputsStay(s, u)
BY DEF OutputsStay

LEMMA startOutputHolds ==
    ASSUME NEW s, NEW config, NEW st, PolicyOK(s, config, st), NEW o \in DOMAIN s.outs,
           NEW stream \in Streams
    PROVE  LET t == startOutput(s, o, stream) IN
           /\ PolicyOK(t, config, CountClient(st, o, stream, 1))
           /\ OutputsStay(s, t)
<1> DEFINE up == CountTrack(s, o, stream, 1)
           a == RouteOutput(up, o, StartDevice(s, stream, getNewDevice(up, o)))
           b == handleIncallSonification(a, stream, TRUE, FALSE)
           c == handleNotificationRoutingForStream(b, stream)
           t == startOutput(s, o, stream)
           new == CountClient(st, o, stream, 1)
<1>1. PolicyOK(up, config, new) /\ OutputsStay(s, up) /\ DOMAIN up.outs = DOMAIN s.outs
  BY TrackCounted
<1>2. t = up \/ t = c
  BY DEF startOutput, CountTrack
<1> HIDE DEF up, new, t
<1>3. Rerouted(up, a)
  BY <1>1, RouteOutputReroutes DEF PolicyOK, Good
<1> HIDE DEF a
<1>4. Rerouted(up, b)
  BY <1>3, SonificationReroutes, ReroutedIsPreorder DEF Rerouted
<1> HIDE DEF b
<1>5. PolicyOK(c, config, new) /\ OutputsStay(up, c)
  BY <1>1, <1>4, NotifiedHolds
<1> HIDE DEF c
<1>6. OutputsStay(s, c)
  BY <1>1, <1>5, StayIsTransitive
<1> QED
  BY <1>1, <1>2, <1>5, <1>6 DEF t, new

LEMMA stopOutputHolds ==
    ASSUME NEW s, NEW config, NEW st, PolicyOK(s, config, st), NEW o \in DOMAIN s.outs,
           NEW stream \in Streams, st[o][stream] > 0
    PROVE  LET t == stopOutput(s, o, stream) IN
           /\ PolicyOK(t, config, CountClient(st, o, stream, -1))
           /\ OutputsStay(s, t)
<1> DEFINE unmuted == handleIncallSonification(s, stream, FALSE, FALSE)
           down == CountTrack(unmuted, o, stream, -1)
           newDevice == getNewDevice(down, o)
           a == RouteOutput(down, o, newDevice)
           b == RouteModule(a, o, newDevice)
           c == handleNotificationRoutingForStream(b, stream)
           t == stopOutput(s, o, stream)
           new == CountClient(st, o, stream, -1)
<1>1. s.outs[o].refs[stream] # 0
  <2>1. st \in Started /\ o \in OutputIds
    BY DEF PolicyOK, Good, Object, OutputsOK, Counted
  <2>2. s.outs[o].refs[stream] = Tally(s, st, o, stream)
    BY DEF PolicyOK, Counted
  <2>3. st[o][stream] \in Nat /\ st["dup"][stream] \in Nat
    BY <2>1, TallyIsNat
  <2> QED
    BY <2>2, <2>3 DEF Tally
<1>2. t = down \/ t = c
  BY <1>1 DEF stopOutput, RouteStopped, CountTrack
<1> HIDE DEF t
<1>3. Rerouted(s, unmuted)
  BY SonificationReroutes DEF PolicyOK, Good
<1> HIDE DEF unmuted
<1>4. PolicyOK(unmuted, config, st) /\ OutputsStay(s, unmuted) /\ o \in DOMAIN unmuted.outs
  BY <1>3, ReroutedIsRevised, RevisedHolds DEF PolicyOK, Good, Rerouted, SameOutputs
<1>5. PolicyOK(down, config, new) /\ OutputsStay(unmuted, down)
      /\ DOMAIN down.outs = DOMAIN unmuted.outs
  <2>1. -1 \in {1, -1}
    OBVIOUS
  <2> QED
    BY <1>4, <2>1, TrackCounted
<1> HIDE DEF down, new, newDevice
<1>6. Rerouted(down, a)
  BY <1>4, <1>5, RouteOutputReroutes DEF PolicyOK, Good
<1> HIDE DEF a
<1>7. Rerouted(a, b)
  BY <1>6, RouteAllReroutes DEF RouteModule, Rerouted
<1> HIDE DEF b
<1>8. Rerouted(down, b)
  BY <1>6, <1>7, ReroutedIsPreorder
<1>9. PolicyOK(c, config, new) /\ OutputsStay(down, c)
  BY <1>5, <1>8, NotifiedHolds
<1> HIDE DEF c
<1>10. OutputsStay(s, down) /\ OutputsStay(s, c)
  BY <1>4, <1>5, <1>9, StayIsTransitive
<1> QED
  BY <1>2, <1>5, <1>9, <1>10 DEF t, new

-----------------------------------------------------------------------------
(* Direct outputs.                                                         *)

\* One direct output opens anew, or closes; the others stay.
LEMMA DirectHolds ==
    ASSUME NEW s, NEW t, NEW config, NEW st, PolicyOK(s, config, st),
           NEW o \in {"voip", "lpa"},
           Object(t), SameButOuts(s, t),
           DOMAIN t.outs \in {DOMAIN s.outs \ {o}, DOMAIN s.outs \cup {o}},
           \A x \in DOMAIN t.outs \ {o} : /\ t.outs[x].refs = s.outs[x].refs
                                          /\ t.outs[x].params = s.outs[x].params,
           o \in DOMAIN t.outs =>
             /\ t.outs[o].refs = NoRefs
             /\ o \in DOMAIN s.outs => t.outs[o].params # s.outs[o].params
    PROVE  PolicyOK(t, config, Carried(s, t, st))
<1> DEFINE new == Carried(s, t, st)
<1>1. /\ t.avail = s.avail /\ t.in = s.in /\ t.force = s.force /\ t.input = s.input
      /\ t.fm = s.fm /\ t.pending = s.pending
  BY DEF SameButOuts, Fields
<1>2. Fresh(t) /\ InputOn(t)
  BY <1>1, FreshKept, InputKept DEF PolicyOK, Good, SameButOuts, Fields
<1>3. FmAgrees(t) /\ Remembered(t, config)
  BY <1>1 DEF PolicyOK, FmAgrees, Remembered
<1>4. st \in Started /\ \A x \in OutputIds \ DOMAIN s.outs : st[x] = NoRefs
  BY DEF PolicyOK, Counted
<1>5. \A x \in OutputIds : new[x] = IF x = o THEN NoRefs ELSE st[x]
  BY <1>4 DEF Carried, Started
<1>6. new \in Started
  <2>1. NoRefs \in [Streams -> Nat]
    BY DEF NoRefs
  <2> QED
    BY <1>4, <2>1 DEF Carried, Started
<1> HIDE DEF new
<1>7. ASSUME NEW x \in DOMAIN t.outs, NEW z \in Streams
      PROVE  t.outs[x].refs[z] = Tally(t, new, x, z)
  <2>1. x \in OutputIds /\ new["dup"] = st["dup"]
    BY <1>5 DEF Object, OutputsOK, OutputIds
  <2>2. CASE x = o
    <3>1. new[x][z] = 0 /\ t.outs[x].refs[z] = 0
      BY <1>5, <2>1, <2>2 DEF NoRefs
    <3> QED
      BY <2>2, <3>1 DEF Tally
  <2>3. CASE x # o
    <3>1. x \in DOMAIN s.outs /\ new[x] = st[x] /\ t.outs[x].refs = s.outs[x].refs
      BY <1>5, <2>1, <2>3
    <3>2. s.outs[x].refs[z] = Tally(s, st, x, z)
      BY <3>1 DEF PolicyOK, Counted
    <3> QED
      BY <1>1, <2>1, <3>1, <3>2 DEF Tally
  <2> QED
    BY <2>2, <2>3
<1>8. Counted(t, new)
  BY <1>4, <1>5, <1>6, <1>7 DEF Counted
<1> QED
  BY <1>2, <1>3, <1>8 DEF PolicyOK, Good, new


\* Only the profiles of direct outputs fit: the flags looked for are those of
\* one, whatever the client asked for.
LEMMA FitsAreDirect ==
    ASSUME NEW s, NEW device, NEW flags,
           NEW o \in getProfileForDirectOutput(s, device, flags)
    PROVE  o \in {"voip", "lpa"} /\ device \subseteq Supported(o)
<1>1. o \in DOMAIN Profiles /\ device \subseteq Profiles[o]
  BY DEF getProfileForDirectOutput, isCompatibleProfile
<1>2. o \in {"primary", "voip", "lpa", "a2dp"}
  BY <1>1 DEF Profiles
<1>3. \/ ProfileFlags[o] = {"DIRECT"}
      \/ ProfileFlags[o] \cap {"LPA", "TUNNEL", "VOIP_RX"} # {}
  BY DEF getProfileForDirectOutput, isCompatibleProfile
<1>4. o # "primary" /\ o # "a2dp"
  BY <1>3 DEF ProfileFlags
<1> QED
  BY <1>1, <1>2, <1>4 DEF Supported

LEMMA CloseDirectHolds ==
    ASSUME NEW s, NEW config, NEW st, PolicyOK(s, config, st), NEW o \in {"voip", "lpa"}
    PROVE  LET outs == closeOutput(s.outs, o) IN
           /\ OutputsOK(outs) /\ DOMAIN outs = DOMAIN s.outs \ {o}
           /\ \A x \in DOMAIN outs : /\ outs[x].refs = s.outs[x].refs
                                     /\ outs[x].params = s.outs[x].params
<1> DEFINE outs == closeOutput(s.outs, o)
<1>1. OutputsOK(s.outs) /\ \A x \in DOMAIN s.outs : s.outs[x].refs \in [Streams -> Nat]
  BY DEF PolicyOK, Good, Object, OutputsOK, DescOK
<1>2. DupCounted(s.outs)
  BY CountedGivesDup DEF PolicyOK, Good
<1>3. /\ OutputsOK(outs) /\ DOMAIN outs = DOMAIN s.outs \ {o}
      /\ \A x \in DOMAIN outs : /\ outs[x].refs = LeftRefs(s.outs, o, x)
                                /\ outs[x].params = s.outs[x].params
  <2>1. o \in {"voip", "lpa", "a2dp"} /\ o # "a2dp"
    OBVIOUS
  <2> QED
    BY <1>1, <1>2, <2>1, CloseOutputHolds
<1>4. \A x \in DOMAIN s.outs : LeftRefs(s.outs, o, x) = s.outs[x].refs
  BY <1>1 DEF LeftRefs
<1> HIDE DEF outs
<1> QED
  BY <1>3, <1>4 DEF outs

LEMMA DirectOutputHolds ==
    ASSUME NEW s, NEW config, NEW st, PolicyOK(s, config, st), NEW device, NEW request,
           NEW opens \in BOOLEAN
    PROVE  LET t == DirectOutput(s, device, request, opens) IN
           PolicyOK(t, config, Carried(s, t, st))
<1> DEFINE fits == getProfileForDirectOutput(s, device, request.flags)
           o == CHOOSE x \in fits : TRUE
           open == o \in DOMAIN s.outs
           cut == IF open THEN closeOutput(s.outs, o) ELSE s.outs
           desc == [NewOutput(device) EXCEPT !.params = request.params, !.openCount = 1]
           outs == IF opens THEN Opened(cut, o, desc) ELSE cut
           t == DirectOutput(s, device, request, opens)
<1>1. DOMAIN s = Fields /\ OutputsOK(s.outs)
  BY DEF PolicyOK, Good, Object
<1>2. CASE fits = {}
  <2>1. t = s /\ OutputsStay(s, s)
    BY <1>2 DEF DirectOutput, OutputsStay
  <2> QED
    BY <2>1, NothingCarried
<1>3. CASE fits # {}
  <2>1. o \in {"voip", "lpa"} /\ device \subseteq Supported(o)
    <3>1. o \in fits
      BY <1>3
    <3> HIDE DEF o
    <3> QED
      BY <3>1, FitsAreDirect
  <2>2. CASE open /\ s.outs[o].params = request.params
    <3>1. t = [s EXCEPT !.outs[o].openCount = @ + 1]
      BY <1>3, <2>2 DEF DirectOutput
    <3> HIDE DEF fits, o
    <3> DEFINE shared == [s.outs[o] EXCEPT !.openCount = @ + 1]
               more == [s.outs EXCEPT ![o] = shared]
    <3>2. DescOK(o, s.outs[o])
      BY <1>1, <2>2 DEF OutputsOK
    <3>3. DescOK(o, shared) /\ shared.refs = s.outs[o].refs
          /\ shared.params = s.outs[o].params
      BY <3>2 DEF DescOK, DescFields
    <3>4. t = [s EXCEPT !.outs = more]
      BY <1>1, <3>1 DEF Fields
    <3> HIDE DEF shared, t
    <3>5. OutputsOK(more) /\ SameOutputs(s.outs, more)
      BY <1>1, <3>3 DEF OutputsOK, SameOutputs
    <3> HIDE DEF more
    <3>6. Rerouted(s, t)
      BY <3>4, <3>5, OtherOuts DEF Rerouted, PolicyOK, Good
    <3>7. PolicyOK(t, config, st) /\ OutputsStay(s, t)
      BY <3>6, ReroutedIsRevised, RevisedHolds DEF PolicyOK, Good
    <3> QED
      BY <3>7, NothingCarried DEF t
  <2>3. CASE ~(open /\ s.outs[o].params = request.params)
    <3>1. t = [s EXCEPT !.outs = outs]
      BY <1>3, <2>3 DEF DirectOutput
    <3>2. DescOK(o, desc) /\ desc.refs = NoRefs /\ desc.params = request.params
      <4> HIDE DEF o
      <4> QED
        BY <2>1 DEF NewOutput, DescOK, DescFields, NoRefs
    <3> HIDE DEF fits, o, desc
    <3>3. /\ OutputsOK(cut) /\ DOMAIN cut = DOMAIN s.outs \ {o}
          /\ \A x \in DOMAIN cut : /\ cut[x].refs = s.outs[x].refs
                                   /\ cut[x].params = s.outs[x].params
      <4>1. CASE open
        BY <2>1, <4>1, CloseDirectHolds
      <4>2. CASE ~open
        BY <1>1, <4>2
      <4> QED
        BY <4>1, <4>2
    <3> HIDE DEF cut
    <3>4. /\ DOMAIN outs = IF opens THEN DOMAIN s.outs \cup {o} ELSE DOMAIN s.outs \ {o}
          /\ \A x \in DOMAIN outs : outs[x] = IF x = o THEN desc ELSE cut[x]
      BY <3>3 DEF Opened
    <3>5. OutputsOK(outs)
      BY <2>1, <3>2, <3>3, <3>4 DEF OutputsOK, OutputIds
    <3> HIDE DEF outs, t
    <3>6. Object(t) /\ SameButOuts(s, t) /\ t.outs = outs
      BY <3>1, <3>5, OtherOuts DEF PolicyOK, Good
    <3>7. \A x \in DOMAIN t.outs \ {o} : /\ t.outs[x].refs = s.outs[x].refs
                                         /\ t.outs[x].params = s.outs[x].params
      BY <3>3, <3>4, <3>6
    <3>8. o \in DOMAIN t.outs =>
            /\ t.outs[o].refs = NoRefs
            /\ o \in DOMAIN s.outs => t.outs[o].params # s.outs[o].params
      BY <2>3, <3>2, <3>4, <3>6
    <3>9. DOMAIN t.outs \in {DOMAIN s.outs \ {o}, DOMAIN s.outs \cup {o}}
      BY <3>4, <3>6
    <3> QED
      BY <2>1, <3>6, <3>7, <3>8, <3>9, DirectHolds DEF t
  <2> QED
    BY <2>2, <2>3
<1> QED
  BY <1>2, <1>3

LEMMA getOutputHolds ==
    ASSUME NEW s, NEW config, NEW st, PolicyOK(s, config, st), NEW stream, NEW request,
           NEW opens \in BOOLEAN
    PROVE  LET t == getOutput(s, stream, request, opens) IN
           PolicyOK(t, config, Carried(s, t, st))
<1>1. CASE "DIRECT" \in request.flags
  BY <1>1, DirectOutputHolds DEF getOutput
<1>2. CASE "DIRECT" \notin request.flags
  <2>1. getOutput(s, stream, request, opens) = s
    BY <1>2 DEF getOutput
  <2>2. Carried(s, s, st) = st
    BY NothingCarried DEF OutputsStay
  <2> QED
    BY <2>1, <2>2
<1> QED
  BY <1>1, <1>2

LEMMA releaseOutputHolds ==
    ASSUME NEW s, NEW config, NEW st, PolicyOK(s, config, st), NEW o \in DOMAIN s.outs
    PROVE  LET t == releaseOutput(s, o) IN PolicyOK(t, config, Carried(s, t, st))
<1> DEFINE outs == closeOutput(s.outs, o)
           t == releaseOutput(s, o)
<1>1. CASE o = "dup" \/ "DIRECT" \notin ProfileFlags[o]
  <2>1. t = s /\ OutputsStay(s, s)
    BY <1>1 DEF releaseOutput, OutputsStay
  <2> QED
    BY <2>1, NothingCarried
<1>2. CASE ~(o = "dup" \/ "DIRECT" \notin ProfileFlags[o])
  <2>1. o \in {"voip", "lpa"}
    <3>1. o \in OutputIds
      BY DEF PolicyOK, Good, Object, OutputsOK
    <3> QED
      BY <1>2, <3>1 DEF OutputIds, ProfileFlags
  <2>2. t = [s EXCEPT !.outs = outs]
    <3>1. DOMAIN s = Fields
      BY DEF PolicyOK, Good, Object
    <3> QED
      BY <1>2, <3>1 DEF releaseOutput, Fields
  <2>3. /\ OutputsOK(outs) /\ DOMAIN outs = DOMAIN s.outs \ {o}
        /\ \A x \in DOMAIN outs : /\ outs[x].refs = s.outs[x].refs
                                  /\ outs[x].params = s.outs[x].params
    BY <2>1, CloseDirectHolds
  <2> HIDE DEF outs, t
  <2>4. Object(t) /\ SameButOuts(s, t) /\ t.outs = outs
    BY <2>2, <2>3, OtherOuts DEF PolicyOK, Good
  <2> QED
    BY <2>1, <2>3, <2>4, DirectHolds DEF t
<1> QED
  BY <1>1, <1>2


-----------------------------------------------------------------------------
(* The invariant.                                                          *)

PolicyInv == PolicyOK(apm, requested, started)

LEMMA InitHolds == Init => PolicyInv
<1> SUFFICES ASSUME Init PROVE PolicyInv
  OBVIOUS
<1>1. PICK pending \in BOOLEAN :
        LET s == [avail |-> Attached, in |-> AttachedInputs, phone |-> "NORMAL",
                  force |-> [MEDIA |-> "NONE", COMMUNICATION |-> "NONE", RECORD |-> "NONE"],
                  fm |-> "FM_NONE", pending |-> pending, suspended |-> FALSE,
                  cache |-> [i \in Strategies |-> {}], input |-> NoInput,
                  outs |-> Opened(<<>>, "primary", NewOutput(DefaultOutputDevice))]
        IN  /\ apm = updateDevicesAndOutputs(s)
            /\ requested = "NONE"
            /\ started = [o \in OutputIds |-> NoRefs]
  BY DEF Init
<1> DEFINE desc == NewOutput(DefaultOutputDevice)
           outs == Opened(<<>>, "primary", desc)
           force == [MEDIA |-> "NONE", COMMUNICATION |-> "NONE", RECORD |-> "NONE"]
           s == [avail |-> Attached, in |-> AttachedInputs, phone |-> "NORMAL",
                 force |-> force,
                 fm |-> "FM_NONE", pending |-> pending, suspended |-> FALSE,
                 cache |-> [i \in Strategies |-> {}], input |-> NoInput, outs |-> outs]
<1>2. /\ apm = updateDevicesAndOutputs(s) /\ requested = "NONE"
      /\ started = [o \in OutputIds |-> NoRefs]
  BY <1>1
<1>3. /\ DOMAIN s = Fields /\ s.avail = Attached /\ s.fm = "FM_NONE" /\ s.input = NoInput
      /\ s.pending = pending /\ s.suspended = FALSE /\ s.force = force /\ s.outs = outs
      /\ s.cache = [i \in Strategies |-> {}]
  BY DEF Fields
<1>4. DescOK("primary", desc) /\ desc.refs = NoRefs
  BY DEF NewOutput, DescOK, DescFields, Supported, Profiles, DefaultOutputDevice, NoRefs
<1> HIDE DEF desc
<1>5. DOMAIN outs = {"primary"} /\ outs["primary"] = desc
  <2>1. outs = [x \in DOMAIN (<<>>) \cup {"primary"} |-> IF x = "primary" THEN desc ELSE (<<>>)[x]]
    BY DEF Opened
  <2>2. DOMAIN (<<>>) = {}
    OBVIOUS
  <2> QED
    BY <2>1, <2>2
<1> HIDE DEF outs
<1>6. OutputsOK(outs)
  BY <1>4, <1>5 DEF OutputsOK, OutputIds
<1>7. DOMAIN force = Usages /\ force.MEDIA = "NONE" /\ DOMAIN NoInput = {"source", "device"}
  BY DEF Usages, NoInput
<1> HIDE DEF force, s
<1>8. Object(s)
  BY <1>3, <1>6, <1>7 DEF Object
<1>9. Object(apm) /\ Fresh(apm) /\ apm.outs = outs /\ \A f \in Fields \ {"cache"} : apm[f] = s[f]
  BY <1>2, <1>3, <1>8, UpdateRefreshes
<1>10. /\ apm.avail = Attached /\ apm.fm = "FM_NONE" /\ apm.input = NoInput
       /\ apm.force = force /\ apm.pending = pending
  BY <1>3, <1>9 DEF Fields
<1>11. InputOn(apm) /\ FmAgrees(apm) /\ Remembered(apm, requested)
  BY <1>2, <1>7, <1>10 DEF InputOn, FmAgrees, Remembered, Attached
<1>12. Counted(apm, started)
  <2>1. started \in Started /\ \A x \in OutputIds : started[x] = NoRefs
    BY <1>2 DEF Started, NoRefs
  <2>2. ASSUME NEW z \in Streams
        PROVE  apm.outs["primary"].refs[z] = Tally(apm, started, "primary", z)
    <3>1. NoRefs[z] = 0 /\ "primary" \in OutputIds /\ "dup" \in OutputIds /\ "FM" \notin apm.avail
      BY <1>10 DEF NoRefs, OutputIds, Attached
    <3> QED
      BY <1>4, <1>5, <1>9, <2>1, <3>1 DEF Tally
  <2> QED
    BY <1>5, <1>9, <2>1, <2>2 DEF Counted
<1> QED
  BY <1>9, <1>11, <1>12 DEF PolicyInv, PolicyOK, Good

LEMMA OperationTracks ==
    ASSUME PolicyInv, NEW s, Operation(s)
    PROVE  apm' = s /\ started' = Carried(apm, s, started)
<1>1. DOMAIN started = OutputIds /\ "none" \notin OutputIds
  BY DEF PolicyInv, PolicyOK, Counted, Started, OutputIds
<1>2. started' = [x \in DOMAIN started |->
        IF Closes(s, x) THEN NoRefs
        ELSE IF x = "none" THEN [started[x] EXCEPT !["none"] = @ + 0] ELSE started[x]]
  BY DEF Operation, Tracks
<1>3. apm' = s
  BY DEF Operation, Becomes
<1> QED
  BY <1>1, <1>2, <1>3 DEF Carried, Closes

LEMMA TrackChangeTracks ==
    ASSUME PolicyInv, NEW s, NEW o \in OutputIds, NEW stream \in Streams, NEW delta,
           TrackChanges(s, o, stream, delta),
           PolicyOK(s, requested, CountClient(started, o, stream, delta)),
           OutputsStay(apm, s)
    PROVE  apm' = s /\ started' = CountClient(started, o, stream, delta)
<1> DEFINE new == CountClient(started, o, stream, delta)
<1>1. apm' = s /\ started' = [x \in DOMAIN started |->
        IF Closes(s, x) THEN NoRefs
        ELSE IF x = o THEN [started[x] EXCEPT ![stream] = @ + delta] ELSE started[x]]
  BY DEF TrackChanges, Becomes, Tracks
<1>2. started \in Started
  BY DEF PolicyInv, PolicyOK, Counted
<1>3. \A x \in OutputIds : Closes(s, x) <=> x \notin DOMAIN s.outs
  BY DEF Closes, OutputsStay
<1>4. \A x \in OutputIds \ DOMAIN s.outs : new[x] = NoRefs
  BY DEF PolicyOK, Counted
<1>5. /\ new = [x \in OutputIds |->
              IF x = o THEN [started[x] EXCEPT ![stream] = @ + delta] ELSE started[x]]
  BY <1>2 DEF CountClient, Started
<1> HIDE DEF new
<1>6. \A x \in OutputIds :
        new[x] = IF Closes(s, x) THEN NoRefs
                 ELSE IF x = o THEN [started[x] EXCEPT ![stream] = @ + delta] ELSE started[x]
  BY <1>3, <1>4, <1>5
<1>7. DOMAIN new = OutputIds /\ new = [x \in OutputIds |-> new[x]]
  BY <1>5
<1>8. started' = [x \in OutputIds |-> new[x]]
  BY <1>1, <1>2, <1>6 DEF Started
<1> QED
  BY <1>1, <1>7, <1>8 DEF new

LEMMA InputsHold ==
    ASSUME PolicyInv, (\E source \in Sources : InputStarted(source)) \/ stopInput
    PROVE  PolicyInv'
<1> DEFINE IsInput(input) ==
             /\ apm' = [apm EXCEPT !.input = input] /\ UNCHANGED <<requested, started>>
             /\ DOMAIN input = {"source", "device"}
             /\ \/ input = NoInput
                \/ /\ input.source \in Sources
                   /\ getDeviceForInputSource(apm, input.source) = input.device
<1>1. PICK input : IsInput(input)
  <2>1. CASE stopInput
    BY <2>1 DEF stopInput, Becomes, NoInput
  <2>2. ASSUME NEW source \in Sources, InputStarted(source)
        PROVE  \E input : IsInput(input)
    <3> DEFINE d == getDeviceForInputSource(apm, source)
               input == [source |-> source, device |-> d]
    <3>1. apm' = [apm EXCEPT !.input = input] /\ UNCHANGED <<requested, started>>
      BY <2>2 DEF InputStarted, Becomes
    <3>2. DOMAIN input = {"source", "device"} /\ input.source = source /\ input.device = d
      OBVIOUS
    <3> HIDE DEF input
    <3> QED
      BY <3>1, <3>2
  <2> QED
    BY <2>1, <2>2
<1>2. /\ DOMAIN apm' = Fields /\ apm'.input = input
      /\ \A f \in Fields \ {"input"} : apm'[f] = apm[f]
  BY <1>1 DEF PolicyInv, PolicyOK, Good, Object, Fields
<1>3. /\ apm'.avail = apm.avail /\ apm'.phone = apm.phone /\ apm'.force = apm.force
      /\ apm'.fm = apm.fm /\ apm'.suspended = apm.suspended /\ apm'.outs = apm.outs
      /\ apm'.cache = apm.cache /\ apm'.pending = apm.pending /\ apm'.in = apm.in
  BY <1>2 DEF Fields
<1>4. Object(apm')
  BY <1>1, <1>2, <1>3 DEF Object, PolicyInv, PolicyOK, Good
<1>5. Fresh(apm')
  BY <1>3, FreshKept DEF PolicyInv, PolicyOK, Good
<1>6. InputOn(apm')
  <2>1. CASE input = NoInput
    BY <1>2, <2>1 DEF InputOn
  <2>2. CASE input # NoInput
    <3>1. input.source \in Sources /\ getDeviceForInputSource(apm, input.source) = input.device
      BY <1>1, <2>2
    <3>2. getDeviceForInputSource(apm', input.source) = getDeviceForInputSource(apm, input.source)
      BY <1>3, <3>1, InputReads
    <3> QED
      BY <1>2, <3>1, <3>2 DEF InputOn
  <2> QED
    BY <2>1, <2>2
<1>7. Counted(apm', started)
  BY <1>3, CountedKept DEF PolicyInv, PolicyOK
<1>8. FmAgrees(apm') /\ Remembered(apm', requested)
  BY <1>3 DEF PolicyInv, PolicyOK, FmAgrees, Remembered
<1> QED
  BY <1>1, <1>4, <1>5, <1>6, <1>7, <1>8 DEF PolicyInv, PolicyOK, Good


LEMMA StepHolds == PolicyInv /\ [Next]_vars => PolicyInv'
<1> SUFFICES ASSUME PolicyInv, [Next]_vars PROVE PolicyInv'
  OBVIOUS
<1>0. PolicyOK(apm, requested, started)
  BY DEF PolicyInv
<1>1. ASSUME NEW d \in Connectable, DeviceConnected(d)
      PROVE  PolicyInv'
  <2>1. PICK analog \in BOOLEAN, opens \in BOOLEAN : Operation(Connect(apm, d, analog, opens))
    BY <1>1 DEF DeviceConnected
  <2> DEFINE t == Connect(apm, d, analog, opens)
  <2>2. PolicyOK(t, requested, started) /\ OutputsStay(apm, t)
    BY <1>0, ConnectHolds
  <2> HIDE DEF t
  <2>3. apm' = t /\ started' = Carried(apm, t, started) /\ requested' = requested
    BY <1>1, <2>1, OperationTracks DEF DeviceConnected, t
  <2>4. Carried(apm, t, started) = started
    BY <1>0, <2>2, NothingCarried
  <2> QED
    BY <2>2, <2>3, <2>4 DEF PolicyInv
<1>2. ASSUME NEW d \in Connectable, DeviceDisconnected(d)
      PROVE  PolicyInv'
  <2> DEFINE t == Disconnect(apm, d)
  <2>1. PolicyOK(t, requested, Carried(apm, t, started))
    BY <1>0, DisconnectHolds
  <2>2. apm' = t /\ started' = Carried(apm, t, started) /\ requested' = requested
    BY <1>2, OperationTracks DEF DeviceDisconnected
  <2> HIDE DEF t
  <2> QED
    BY <2>1, <2>2 DEF PolicyInv
<1>3. ASSUME NEW phone \in PhoneStates, PhoneStateSet(phone)
      PROVE  PolicyInv'
  <2> DEFINE t == setPhoneState(apm, phone)
  <2>1. PolicyOK(t, requested, started) /\ OutputsStay(apm, t)
    BY <1>0, setPhoneStateHolds
  <2>2. apm' = t /\ started' = Carried(apm, t, started) /\ requested' = requested
    BY <1>3, OperationTracks DEF PhoneStateSet
  <2> HIDE DEF t
  <2>3. Carried(apm, t, started) = started
    BY <1>0, <2>1, NothingCarried
  <2> QED
    BY <2>1, <2>2, <2>3 DEF PolicyInv
<1>4. ASSUME NEW usage \in Usages, NEW config, ForceUseSet(usage, config)
      PROVE  PolicyInv'
  <2> DEFINE t == setForceUse(apm, usage, config)
             last == IF usage = "MEDIA" /\ config \in Accepts.MEDIA THEN config ELSE requested
  <2>1. /\ Good(t) /\ SameOutputs(apm.outs, t.outs) /\ t.avail = apm.avail /\ t.fm = apm.fm
        /\ Remembered(t, last)
    BY <1>0, setForceUseHolds DEF PolicyOK
  <2>2. apm' = t /\ requested' = last /\ started' = started
    BY <1>4 DEF ForceUseSet, Becomes
  <2> HIDE DEF t, last
  <2>3. FmAgrees(t) /\ Counted(t, started)
    BY <1>0, <2>1, CountedKept DEF PolicyOK, FmAgrees, SameOutputs
  <2> QED
    BY <2>1, <2>2, <2>3 DEF PolicyInv, PolicyOK
<1>5. ASSUME NEW o \in DOMAIN apm.outs, NEW stream \in Streams, OutputStarted(o, stream)
      PROVE  PolicyInv'
  <2> DEFINE t == startOutput(apm, o, stream)
  <2>1. PolicyOK(t, requested, CountClient(started, o, stream, 1)) /\ OutputsStay(apm, t)
    BY <1>0, startOutputHolds
  <2>2. TrackChanges(t, o, stream, 1) /\ requested' = requested
    BY <1>5 DEF OutputStarted
  <2> HIDE DEF t
  <2>3. o \in OutputIds
    BY <1>0 DEF PolicyOK, Good, Object, OutputsOK
  <2>4. apm' = t /\ started' = CountClient(started, o, stream, 1)
    BY <2>1, <2>2, <2>3, TrackChangeTracks
  <2> QED
    BY <2>1, <2>2, <2>4 DEF PolicyInv
<1>6. ASSUME NEW o \in DOMAIN apm.outs, NEW stream \in Streams, OutputStopped(o, stream)
      PROVE  PolicyInv'
  <2> DEFINE t == stopOutput(apm, o, stream)
  <2>1. started[o][stream] > 0
    BY <1>6 DEF OutputStopped
  <2>2. PolicyOK(t, requested, CountClient(started, o, stream, -1)) /\ OutputsStay(apm, t)
    BY <1>0, <2>1, stopOutputHolds
  <2>3. TrackChanges(t, o, stream, -1) /\ requested' = requested
    BY <1>6 DEF OutputStopped
  <2> HIDE DEF t
  <2>4. o \in OutputIds
    BY <1>0 DEF PolicyOK, Good, Object, OutputsOK
  <2>5. apm' = t /\ started' = CountClient(started, o, stream, -1)
    BY <2>2, <2>3, <2>4, TrackChangeTracks
  <2> QED
    BY <2>2, <2>3, <2>5 DEF PolicyInv
<1>7. ASSUME NEW request \in DirectRequests, DirectOutputAsked("MUSIC", request)
      PROVE  PolicyInv'
  <2>1. PICK opens \in BOOLEAN : Operation(getOutput(apm, "MUSIC", request, opens))
    BY <1>7 DEF DirectOutputAsked
  <2> DEFINE t == getOutput(apm, "MUSIC", request, opens)
  <2>2. PolicyOK(t, requested, Carried(apm, t, started))
    BY <1>0, getOutputHolds
  <2>3. apm' = t /\ started' = Carried(apm, t, started) /\ requested' = requested
    BY <1>7, <2>1, OperationTracks DEF DirectOutputAsked
  <2> HIDE DEF t
  <2> QED
    BY <2>2, <2>3 DEF PolicyInv
<1>8. ASSUME NEW o \in DOMAIN apm.outs, OutputReleased(o)
      PROVE  PolicyInv'
  <2> DEFINE t == releaseOutput(apm, o)
  <2>1. PolicyOK(t, requested, Carried(apm, t, started))
    BY <1>0, releaseOutputHolds
  <2>2. apm' = t /\ started' = Carried(apm, t, started) /\ requested' = requested
    BY <1>8, OperationTracks DEF OutputReleased
  <2> HIDE DEF t
  <2> QED
    BY <2>1, <2>2 DEF PolicyInv
<1>9. ASSUME (\E source \in Sources : InputStarted(source)) \/ stopInput
      PROVE  PolicyInv'
  BY <1>9, InputsHold
<1>10. CASE UNCHANGED vars
  BY <1>10 DEF vars, PolicyInv
<1>11. {"MEDIA", "COMMUNICATION", "RECORD"} \subseteq Usages
  BY DEF Usages
<1> QED
  BY <1>1, <1>2, <1>3, <1>4, <1>5, <1>6, <1>7, <1>8, <1>9, <1>10, <1>11 DEF Next

\* PolicyInv is an invariant of the audio policy.
THEOREM PolicyHolds == Spec => []PolicyInv
BY InitHolds, StepHolds, PTL DEF Spec

\* The state of the audio policy is of its type (PolicyTypeOK): an output is on
\* devices it supports only, and no track or mute is counted below zero.
THEOREM PolicyTypeCorrect == Spec => []PolicyTypeOK
<1>1. PolicyInv => PolicyTypeOK
  BY DEF PolicyInv, PolicyOK, Good, Object, OutputsOK, DescOK, PolicyTypeOK
<1> QED
  BY <1>1, PolicyHolds, PTL

\* Every output counts the tracks clients have running on it, those of the
\* duplicating output, and FM radio (TracksCounted): the counts of startOutput(),
\* stopOutput() and setDeviceConnectionState() stay exact through outputs that
\* open and close.
THEOREM TracksAreCounted == Spec => []TracksCounted
<1>1. PolicyInv => TracksCounted
  BY DEF PolicyInv, PolicyOK, Counted, Tally, TracksCounted
<1> QED
  BY <1>1, PolicyHolds, PTL

\* mDeviceForStrategy is never stale (CacheIsFresh): whatever an operation changes
\* that getDeviceForStrategy() reads, it updates the cache after.
THEOREM CacheStaysFresh == Spec => []CacheIsFresh
<1>1. PolicyInv => CacheIsFresh
  BY DEF PolicyInv, PolicyOK, Good, Fresh, CacheIsFresh
<1> QED
  BY <1>1, PolicyHolds, PTL

\* There is an FM mode exactly while the FM device is available
\* (FmModeMatchesConnection), although setDeviceConnectionState() sets the mode
\* before it accepts or refuses.
THEOREM FmModeIsOfTheConnection == Spec => []FmModeMatchesConnection
<1>1. PolicyInv => FmModeMatchesConnection
  BY DEF PolicyInv, PolicyOK, FmAgrees, FmModeMatchesConnection
<1> QED
  BY <1>1, PolicyHolds, PTL

\* The forced use of media is the last one asked for, unless digital FM holds
\* FORCE_NONE back (ForceUseRemembered): setForceUse() and the end of FM.
THEOREM ForceUseIsRemembered == Spec => []ForceUseRemembered
<1>1. PolicyInv => ForceUseRemembered
  BY DEF PolicyInv, PolicyOK, Remembered, ForceUseRemembered
<1> QED
  BY <1>1, PolicyHolds, PTL

\* The active input is on the device its source now asks for
\* (InputFollowsPolicy), after every change in setDeviceConnectionState() and
\* setForceUse().
THEOREM InputStaysOnPolicy == Spec => []InputFollowsPolicy
<1>1. PolicyInv => InputFollowsPolicy
  BY DEF PolicyInv, PolicyOK, Good, InputOn, InputFollowsPolicy
<1> QED
  BY <1>1, PolicyHolds, PTL


=============================================================================
