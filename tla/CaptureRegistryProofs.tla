------------------------ MODULE CaptureRegistryProofs ------------------------
(***************************************************************************)
(* Safety of the input streams of AudioHardware for any streams,           *)
(* descriptors and failures.  The properties are not inductive alone: that *)
(* a recording is refused beside another one rests on the count, the count *)
(* on what the control thread is destroying, and that a descriptor is not  *)
(* lost when a stream is set again on a closed stream having none.         *)
(***************************************************************************)
EXTENDS CaptureRegistry, FiniteSetTheorems, TLAPS

States == {"CLOSED", "OPENED", "STARTED"}
StreamType == [kind : {"free", "recording", "voip"}, state : States,
               fd : Descriptors \cup {NoFd}]

\* What the control thread is destroying.
Teardown ==
    /\ mInputs \subseteq Objects /\ mVoipInputs \subseteq Objects
    /\ pc \in {"delete", "standby"} => target \in Live
    /\ pc = "remove" => target \notin Live
    /\ target \notin reading

\* A recording is opened only when there is no other stream.
OneRecording == \A r, s \in mInputs : r = s

ClosedHasNoFd == \A s \in Objects : obj[s].state = "CLOSED" => obj[s].fd = NoFd

RegistryInv ==
    /\ CaptureTypeOK /\ Teardown /\ InstancesCounted
    /\ OneRecording /\ ClosedHasNoFd /\ DescriptorsOwned

-----------------------------------------------------------------------------
(* What set() leaves of the stream it works on.                            *)

\* The stream s after set() on a stream without a descriptor: its kind is that
\* of the stream, and the open descriptors grow by its own, if any.
Set(s, stream) ==
    /\ \E new \in StreamType :
        /\ new.kind = stream.kind
        /\ new.state = "CLOSED" => new.fd = NoFd
        /\ obj' = [obj EXCEPT ![s] = new]
        /\ \/ new.fd = NoFd /\ openFds' = openFds
           \/ new.fd \notin openFds \cup {NoFd} /\ openFds' = openFds \cup {new.fd}

LEMMA SetOutcome ==
    ASSUME NEW s \in Objects, NEW stream \in StreamType, NEW n,
           stream.fd = NoFd,
           setSucceeds(s, stream, n) \/ setRejects(s, stream, n) \/ setFails(s, stream, n)
    PROVE  Set(s, stream)
<1> USE DescriptorsAssumption DEF StreamType, States, NoFd
<1>1. CASE setSucceeds(s, stream, n)
  <2>1. PICK fd \in Descriptors \ openFds :
          /\ openFds' = openFds \cup {fd}
          /\ obj' = [obj EXCEPT ![s] = [stream EXCEPT !.state = "OPENED", !.fd = fd]]
    BY <1>1 DEF setSucceeds
  <2> DEFINE new == [stream EXCEPT !.state = "OPENED", !.fd = fd]
  <2>2. new \in StreamType /\ new.kind = stream.kind /\ new.state = "OPENED" /\ new.fd = fd
    OBVIOUS
  <2>3. fd # NoFd
    OBVIOUS
  <2> HIDE DEF new
  <2> QED  BY <2>1, <2>2, <2>3 DEF Set, new
<1>2. CASE setRejects(s, stream, n)
  BY <1>2 DEF setRejects, Set
<1>3. CASE setFails(s, stream, n)
  <2>1. PICK state \in {"CLOSED", "OPENED"} :
          obj' = [obj EXCEPT ![s] = [stream EXCEPT !.state = state]] /\ UNCHANGED openFds
    BY <1>3 DEF setFails
  <2> DEFINE new == [stream EXCEPT !.state = state]
  <2>2. new \in StreamType /\ new.kind = stream.kind /\ new.fd = NoFd
    OBVIOUS
  <2> HIDE DEF new
  <2> QED  BY <2>1, <2>2 DEF Set, new
<1> QED  BY <1>1, <1>2, <1>3

-----------------------------------------------------------------------------
(* Initially.                                                              *)

LEMMA RegistryInit == Init => RegistryInv
<1> SUFFICES ASSUME Init PROVE RegistryInv
  OBVIOUS
<1> USE DEF Init, NoStream
<1>1. Live = {}
  BY DEF Live
<1>2. CaptureTypeOK
  <2>1. obj \in [Objects -> StreamType]
    BY DEF StreamType, States
  <2> QED  BY <1>1, <2>1 DEF CaptureTypeOK, StreamType, States
<1>3. Teardown
  BY DEF Teardown
<1>4. InstancesCounted
  BY <1>1, FS_EmptySet DEF InstancesCounted, Destroying
<1>5. OneRecording /\ ClosedHasNoFd
  BY DEF OneRecording, ClosedHasNoFd
<1>6. DescriptorsOwned
  BY <1>1 DEF DescriptorsOwned
<1> QED  BY <1>2, <1>3, <1>4, <1>5, <1>6 DEF RegistryInv

-----------------------------------------------------------------------------
(* The steps, by what they do to the streams.                              *)

\* A step of a recording's own thread or of set() on a new stream: one live
\* stream's state and descriptor.
LEMMA SetOwnsDescriptors ==
    ASSUME NEW s \in Objects, NEW stream \in StreamType, RegistryInv, Set(s, stream),
           obj[s].fd = NoFd, stream.kind # "free"
    PROVE  /\ obj' \in [Objects -> StreamType]
           /\ openFds' \subseteq Descriptors
           /\ Live' = Live \cup {s}
           /\ obj'[s].kind = stream.kind /\ \A r \in Objects \ {s} : obj'[r] = obj[r]
           /\ DescriptorsOwned' /\ ClosedHasNoFd'
<1>1. obj \in [Objects -> StreamType]
  BY DEF RegistryInv, CaptureTypeOK, StreamType, States
<1>2. PICK new \in StreamType :
        /\ new.kind = stream.kind
        /\ new.state = "CLOSED" => new.fd = NoFd
        /\ obj' = [obj EXCEPT ![s] = new]
        /\ \/ new.fd = NoFd /\ openFds' = openFds
           \/ new.fd \notin openFds \cup {NoFd} /\ openFds' = openFds \cup {new.fd}
  BY DEF Set
<1>3. obj' \in [Objects -> StreamType] /\ obj'[s] = new
      /\ \A r \in Objects \ {s} : obj'[r] = obj[r]
  BY <1>1, <1>2
<1>4. openFds' \subseteq Descriptors
  BY <1>2 DEF RegistryInv, CaptureTypeOK, StreamType
<1>5. Live' = Live \cup {s}
  BY <1>2, <1>3 DEF Live
<1>6. ClosedHasNoFd'
  BY <1>2, <1>3 DEF RegistryInv, ClosedHasNoFd
<1>7. DescriptorsOwned'
  <2>1. openFds = {obj[r].fd : r \in Live} \ {NoFd}
    BY DEF RegistryInv, DescriptorsOwned
  <2>2. openFds' = {obj'[r].fd : r \in Live'} \ {NoFd}
    <3>1. ASSUME NEW d PROVE d \in openFds' <=> d \in {obj'[r].fd : r \in Live'} \ {NoFd}
      <4>1. d \in {obj'[r].fd : r \in Live'} <=> d = new.fd \/ \E r \in Live \ {s} : d = obj[r].fd
        BY <1>3, <1>5 DEF Live
      <4>2. d \in openFds <=> d # NoFd /\ \E r \in Live \ {s} : d = obj[r].fd
        BY <2>1
      <4> QED  BY <1>2, <4>1, <4>2
    <3> QED  BY <3>1
  <2>3. ASSUME NEW r \in Live', NEW q \in Live', obj'[r].fd = obj'[q].fd, r # q
        PROVE  obj'[q].fd = NoFd
    <3>1. CASE r # s /\ q # s
      BY <1>3, <1>5, <2>3, <3>1 DEF RegistryInv, DescriptorsOwned, Live
    <3>2. CASE r = s
      <4>1. q \in Live \ {s} /\ obj'[q] = obj[q] /\ new.fd = obj[q].fd
        BY <1>3, <1>5, <2>3, <3>2 DEF Live
      <4> QED  BY <1>2, <2>1, <4>1
    <3>3. CASE q = s
      <4>1. r \in Live \ {s} /\ obj'[r] = obj[r] /\ new.fd = obj[r].fd /\ obj'[q] = new
        BY <1>3, <1>5, <2>3, <3>3 DEF Live
      <4> QED  BY <1>2, <2>1, <4>1
    <3> QED  BY <3>1, <3>2, <3>3
  <2> QED  BY <2>2, <2>3 DEF DescriptorsOwned
<1> QED  BY <1>3, <1>4, <1>5, <1>6, <1>7, <1>2

\* Giving up the descriptor of a stream that is left closed or freed.
LEMMA ReleaseOwnsDescriptors ==
    ASSUME NEW s \in Live, NEW new \in StreamType, RegistryInv,
           new.fd = NoFd, obj' = [obj EXCEPT ![s] = new],
           openFds' = openFds \ {obj[s].fd}
    PROVE  /\ obj' \in [Objects -> StreamType]
           /\ openFds' \subseteq Descriptors
           /\ Live' = IF new.kind = "free" THEN Live \ {s} ELSE Live
           /\ obj'[s] = new /\ \A r \in Objects \ {s} : obj'[r] = obj[r]
           /\ DescriptorsOwned' /\ ClosedHasNoFd'
<1>1. obj \in [Objects -> StreamType] /\ s \in Objects
  BY DEF RegistryInv, CaptureTypeOK, StreamType, States, Live
<1>2. obj' \in [Objects -> StreamType] /\ obj'[s] = new
      /\ \A r \in Objects \ {s} : obj'[r] = obj[r]
  BY <1>1
<1>3. openFds' \subseteq Descriptors
  BY DEF RegistryInv, CaptureTypeOK
<1>4. Live' = IF new.kind = "free" THEN Live \ {s} ELSE Live
  BY <1>1, <1>2 DEF Live
<1>5. ClosedHasNoFd'
  BY <1>2 DEF RegistryInv, ClosedHasNoFd
<1>6. DescriptorsOwned'
  <2>1. openFds = {obj[r].fd : r \in Live} \ {NoFd}
        /\ \A r, q \in Live : obj[r].fd = obj[q].fd /\ r # q => obj[q].fd = NoFd
    BY DEF RegistryInv, DescriptorsOwned
  <2>2. Live' \subseteq Live /\ Live \ {s} \subseteq Live' /\ Live \subseteq Objects
    BY <1>4 DEF Live
  <2>3. openFds' = {obj'[r].fd : r \in Live'} \ {NoFd}
    <3>1. ASSUME NEW d PROVE d \in openFds' <=> d \in {obj'[r].fd : r \in Live'} \ {NoFd}
      <4>1. d \in openFds' <=> d # NoFd /\ d # obj[s].fd /\ \E r \in Live : d = obj[r].fd
        BY <2>1
      <4>2. d \in {obj'[r].fd : r \in Live'} \ {NoFd}
              <=> d # NoFd /\ \E r \in Live \ {s} : d = obj[r].fd
        BY <1>2, <2>2
      <4> QED  BY <2>1, <4>1, <4>2
    <3> QED  BY <3>1
  <2>4. ASSUME NEW r \in Live', NEW q \in Live', obj'[r].fd = obj'[q].fd, r # q
        PROVE  obj'[q].fd = NoFd
    <3>1. CASE r # s /\ q # s
      <4>1. obj'[r] = obj[r] /\ obj'[q] = obj[q] /\ r \in Live /\ q \in Live
        BY <1>2, <2>2, <3>1
      <4> QED  BY <2>1, <2>4, <4>1
    <3>2. CASE r = s \/ q = s
      BY <1>2, <2>4, <3>2
    <3> QED  BY <3>1, <3>2
  <2> QED  BY <2>3, <2>4 DEF DescriptorsOwned
<1> QED  BY <1>2, <1>3, <1>4, <1>5, <1>6

\* The streams are finitely many, and the control thread's is one of them.
LEMMA LiveIsFinite ==
    ASSUME RegistryInv
    PROVE  /\ Live \subseteq Objects /\ IsFiniteSet(Live)
           /\ Cardinality(Live) \in Nat
           /\ pc = "idle" => mInputs \cup mVoipInputs \subseteq Live
<1>1. Live \subseteq Objects /\ IsFiniteSet(Live)
  BY ObjectsAssumption, FS_Subset DEF Live
<1>2. pc = "idle" => mInputs \cup mVoipInputs \subseteq Live
  BY ObjectsAssumption DEF RegistryInv, CaptureTypeOK, Teardown, Live
<1> QED  BY <1>1, <1>2, FS_CardinalityType

\* A stream constructed by an idle control thread is one more.
LEMMA OneMoreCounted ==
    ASSUME RegistryInv, NEW s \in Objects \ Live, pc = "idle", pc' \in {"idle", "delete"},
           Live' = Live \cup {s}, InstanceCount' = InstanceCount + 1
    PROVE  InstanceCount' \in Nat /\ InstancesCounted'
<1>1. Cardinality(Live \cup {s}) = Cardinality(Live) + 1
  BY LiveIsFinite, FS_AddElement
<1>2. Destroying = {} /\ Destroying' = {}
  BY DEF Destroying
<1>3. InstanceCount = Cardinality(Live)
  BY <1>2 DEF RegistryInv, InstancesCounted
<1> QED  BY <1>1, <1>2, <1>3, LiveIsFinite DEF InstancesCounted

-----------------------------------------------------------------------------
(* The invariant, action by action.                                        *)

LEMMA OpenRecordingKeeps ==
    ASSUME RegistryInv, NEW s \in Objects, OpenRecording(s) PROVE RegistryInv'
<1> DEFINE new == Constructed("recording")
<1>1. pc = "idle" /\ obj[s] = NoStream /\ target = NoObject /\ s # NoObject /\ reading \subseteq mInputs
  BY ObjectsAssumption DEF OpenRecording, RegistryInv, CaptureTypeOK
<1>2. new \in StreamType /\ new.kind = "recording" /\ new.fd = NoFd
  BY DEF Constructed, NoStream, StreamType, States
<1>3. /\ InstanceCount' = InstanceCount + 1 /\ UNCHANGED <<mVoipInputs, reading>>
      /\ \/ /\ setSucceeds(s, new, InstanceCount + 1)
            /\ mInputs' = mInputs \cup {s} /\ pc' = "idle" /\ target' = NoObject
         \/ /\ setRejects(s, new, InstanceCount + 1) \/ setFails(s, new, InstanceCount + 1)
            /\ mInputs' = mInputs /\ pc' = "delete" /\ target' = s
  BY <1>1 DEF OpenRecording
<1> HIDE DEF new
<1>4. s \notin Live /\ obj[s].fd = NoFd
  BY <1>1 DEF Live, NoStream
<1>5. Set(s, new)
  BY <1>2, <1>3, SetOutcome
<1>6. /\ obj' \in [Objects -> StreamType] /\ openFds' \subseteq Descriptors
      /\ Live' = Live \cup {s} /\ obj'[s].kind = "recording"
      /\ \A r \in Objects \ {s} : obj'[r] = obj[r]
      /\ DescriptorsOwned' /\ ClosedHasNoFd'
  BY <1>2, <1>4, <1>5, SetOwnsDescriptors
<1>7. InstanceCount' \in Nat /\ InstancesCounted'
  BY <1>1, <1>3, <1>4, <1>6, OneMoreCounted
<1>8. Live \subseteq Objects /\ mInputs = {r \in Live : obj[r].kind = "recording"}
      /\ mVoipInputs = {r \in Live : obj[r].kind = "voip"}
  BY <1>1, ObjectsAssumption, LiveIsFinite DEF RegistryInv, CaptureTypeOK
<1>9. CaptureTypeOK'
  <2>1. mInputs' \ {target'} = {r \in Live' \ {target'} : obj'[r].kind = "recording"}
    BY <1>1, <1>3, <1>4, <1>6, <1>8, ObjectsAssumption
  <2>2. mVoipInputs' \ {target'} = {r \in Live' \ {target'} : obj'[r].kind = "voip"}
    BY <1>1, <1>3, <1>4, <1>6, <1>8, ObjectsAssumption
  <2> QED  BY <1>1, <1>3, <1>6, <1>7, <2>1, <2>2 DEF CaptureTypeOK, StreamType, States
<1>10. Teardown'
  BY <1>1, <1>3, <1>4, <1>6, <1>8, ObjectsAssumption DEF Teardown
<1>11. OneRecording'
  <2>1. CASE setSucceeds(s, new, InstanceCount + 1)
    <3>1. InstanceCount = 0
      BY <2>1 DEF setSucceeds, MoreThanOne, RegistryInv, CaptureTypeOK
    <3>2. Live = {}
      BY <1>1, <3>1, LiveIsFinite, FS_EmptySet DEF RegistryInv, InstancesCounted, Destroying
    <3> QED  BY <1>3, <1>8, <3>2 DEF OneRecording, RegistryInv
  <2>2. CASE mInputs' = mInputs
    BY <2>2 DEF RegistryInv, OneRecording
  <2> QED  BY <1>3, <2>1, <2>2
<1> QED  BY <1>6, <1>7, <1>9, <1>10, <1>11 DEF RegistryInv

LEMMA OpenVoipKeeps ==
    ASSUME RegistryInv, NEW s \in Objects, OpenVoip(s) PROVE RegistryInv'
<1> DEFINE new == Constructed("voip")
<1>1. pc = "idle" /\ obj[s] = NoStream /\ target = NoObject /\ s # NoObject /\ reading \subseteq mInputs
  BY ObjectsAssumption DEF OpenVoip, RegistryInv, CaptureTypeOK
<1>2. new \in StreamType /\ new.kind = "voip" /\ new.fd = NoFd
  BY DEF Constructed, NoStream, StreamType, States
<1>3. /\ InstanceCount' = InstanceCount + 1 /\ UNCHANGED <<mInputs, openFds, reading>>
      /\ obj' = [obj EXCEPT ![s] = new]
      /\ \/ mVoipInputs' = mVoipInputs \cup {s} /\ pc' = "idle" /\ target' = NoObject
         \/ mVoipInputs' = mVoipInputs /\ pc' = "delete" /\ target' = s
  BY <1>1 DEF OpenVoip
<1> HIDE DEF new
<1>4. s \notin Live /\ obj[s].fd = NoFd
  BY <1>1 DEF Live, NoStream
<1>5. Set(s, new)
  BY <1>2, <1>3 DEF Set
<1>6. /\ obj' \in [Objects -> StreamType] /\ openFds' \subseteq Descriptors
      /\ Live' = Live \cup {s} /\ obj'[s].kind = "voip"
      /\ \A r \in Objects \ {s} : obj'[r] = obj[r]
      /\ DescriptorsOwned' /\ ClosedHasNoFd'
  BY <1>2, <1>4, <1>5, SetOwnsDescriptors
<1>7. InstanceCount' \in Nat /\ InstancesCounted'
  BY <1>1, <1>3, <1>4, <1>6, OneMoreCounted
<1>8. Live \subseteq Objects /\ mInputs = {r \in Live : obj[r].kind = "recording"}
      /\ mVoipInputs = {r \in Live : obj[r].kind = "voip"}
  BY <1>1, ObjectsAssumption, LiveIsFinite DEF RegistryInv, CaptureTypeOK
<1>9. CaptureTypeOK'
  <2>1. mInputs' \ {target'} = {r \in Live' \ {target'} : obj'[r].kind = "recording"}
    BY <1>1, <1>3, <1>4, <1>6, <1>8, ObjectsAssumption
  <2>2. mVoipInputs' \ {target'} = {r \in Live' \ {target'} : obj'[r].kind = "voip"}
    BY <1>1, <1>3, <1>4, <1>6, <1>8, ObjectsAssumption
  <2> QED  BY <1>1, <1>3, <1>6, <1>7, <2>1, <2>2 DEF CaptureTypeOK, StreamType, States
<1>10. Teardown'
  BY <1>1, <1>3, <1>4, <1>6, <1>8, ObjectsAssumption DEF Teardown
<1>11. OneRecording'
  BY <1>3 DEF RegistryInv, OneRecording
<1> QED  BY <1>6, <1>7, <1>9, <1>10, <1>11 DEF RegistryInv

\* The control thread on its way through a close.
LEMMA CloseKeeps ==
    ASSUME RegistryInv, (\E s \in Objects : CloseInput(s)) \/ CountDown \/ RemoveInput
    PROVE  RegistryInv'
<1>1. UNCHANGED <<obj, openFds, reading>> /\ Live' = Live
  BY DEF CloseInput, CountDown, RemoveInput, Live
<1>2. ClosedHasNoFd' /\ DescriptorsOwned'
  BY <1>1 DEF RegistryInv, ClosedHasNoFd, DescriptorsOwned
<1>3. ASSUME NEW s \in Objects, CloseInput(s) PROVE RegistryInv'
  <2> USE <1>1, <1>3 DEF CloseInput
  <2>1. CaptureTypeOK'
    <3>1. /\ NoObject \notin mInputs \cup mVoipInputs \cup Live /\ target = NoObject
          /\ mInputs = {r \in Live : obj[r].kind = "recording"}
          /\ mVoipInputs = {r \in Live : obj[r].kind = "voip"}
      BY ObjectsAssumption, LiveIsFinite DEF RegistryInv, CaptureTypeOK, Teardown
    <3>2. mInputs' \ {target'} = {r \in Live' \ {target'} : obj'[r].kind = "recording"}
      BY <3>1
    <3>3. mVoipInputs' \ {target'} = {r \in Live' \ {target'} : obj'[r].kind = "voip"}
      BY <3>1
    <3> QED  BY <3>2, <3>3, ObjectsAssumption DEF RegistryInv, CaptureTypeOK
  <2>2. Teardown'
    BY LiveIsFinite DEF RegistryInv, Teardown
  <2>3. InstancesCounted' /\ OneRecording'
    BY DEF RegistryInv, InstancesCounted, Destroying, OneRecording
  <2> QED  BY <1>2, <2>1, <2>2, <2>3 DEF RegistryInv
<1>4. CASE CountDown
  <2> USE <1>1, <1>4 DEF CountDown
  <2>1. target \in Live /\ Destroying = {} /\ Destroying' = {target}
    BY DEF RegistryInv, Teardown, Destroying
  <2>2. Cardinality(Live \ {target}) = Cardinality(Live) - 1
    BY <2>1, LiveIsFinite, FS_RemoveElement
  <2>3. Live \ {target} \subseteq Live /\ InstanceCount = Cardinality(Live)
    BY <2>1 DEF RegistryInv, InstancesCounted
  <2>4. Cardinality(Live \ {target}) \in Nat
    BY <2>3, LiveIsFinite, FS_Subset, FS_CardinalityType
  <2>5. InstancesCounted' /\ InstanceCount' \in Nat
    BY <2>1, <2>2, <2>3, <2>4 DEF InstancesCounted
  <2>6. CaptureTypeOK'
    BY <2>5 DEF RegistryInv, CaptureTypeOK
  <2>7. Teardown' /\ OneRecording'
    BY DEF RegistryInv, Teardown, OneRecording
  <2> QED  BY <1>2, <2>5, <2>6, <2>7 DEF RegistryInv
<1>5. CASE RemoveInput
  <2> USE <1>1, <1>5 DEF RemoveInput
  <2>1. target \notin Live /\ NoObject \notin Objects /\ target \in Objects
    BY ObjectsAssumption DEF RegistryInv, Teardown, CaptureTypeOK
  <2>2. CaptureTypeOK'
    <3>1. mInputs' \ {target'} = {r \in Live' \ {target'} : obj'[r].kind = "recording"}
      BY <2>1, LiveIsFinite DEF RegistryInv, CaptureTypeOK
    <3>2. mVoipInputs' \ {target'} = {r \in Live' \ {target'} : obj'[r].kind = "voip"}
      BY <2>1, LiveIsFinite DEF RegistryInv, CaptureTypeOK
    <3> QED  BY <3>1, <3>2 DEF RegistryInv, CaptureTypeOK, Teardown
  <2>3. Teardown'
    BY <2>1 DEF RegistryInv, Teardown, CaptureTypeOK
  <2>4. InstancesCounted' /\ OneRecording'
    BY DEF RegistryInv, InstancesCounted, Destroying, OneRecording
  <2> QED  BY <1>2, <2>2, <2>3, <2>4 DEF RegistryInv
<1> QED  BY <1>3, <1>4, <1>5

LEMMA DestroyStreamKeeps == ASSUME RegistryInv, DestroyStream PROVE RegistryInv'
<1>1. /\ pc = "standby" /\ target \in Live /\ target # NoObject
      /\ openFds' = openFds \ {obj[target].fd} /\ obj' = [obj EXCEPT ![target] = NoStream]
      /\ UNCHANGED <<InstanceCount, mInputs, mVoipInputs, reading>>
      /\ \/ target \in mInputs \cup mVoipInputs /\ pc' = "remove" /\ target' = target
         \/ target \notin mInputs \cup mVoipInputs /\ pc' = "idle" /\ target' = NoObject
  BY DEF DestroyStream, RegistryInv, Teardown, CaptureTypeOK
<1>2. NoStream \in StreamType /\ NoStream.fd = NoFd /\ NoStream.kind = "free"
  BY DEF NoStream, StreamType, States
<1>3. /\ obj' \in [Objects -> StreamType] /\ openFds' \subseteq Descriptors
      /\ Live' = Live \ {target} /\ \A r \in Objects \ {target} : obj'[r] = obj[r]
      /\ DescriptorsOwned' /\ ClosedHasNoFd'
  <2> HIDE DEF NoStream
  <2> QED  BY <1>1, <1>2, ReleaseOwnsDescriptors
<1>4. Live \subseteq Objects /\ NoObject \notin Objects
      /\ mInputs \ {target} = {r \in Live \ {target} : obj[r].kind = "recording"}
      /\ mVoipInputs \ {target} = {r \in Live \ {target} : obj[r].kind = "voip"}
  BY ObjectsAssumption, LiveIsFinite DEF RegistryInv, CaptureTypeOK
<1>5. CaptureTypeOK'
  <2>1. mInputs' \ {target'} = {r \in Live' \ {target'} : obj'[r].kind = "recording"}
    BY <1>1, <1>3, <1>4
  <2>2. mVoipInputs' \ {target'} = {r \in Live' \ {target'} : obj'[r].kind = "voip"}
    BY <1>1, <1>3, <1>4
  <2>3. /\ InstanceCount' \in Nat /\ reading' \subseteq mInputs'
        /\ pc' \in {"idle", "delete", "standby", "remove"}
        /\ target' \in Objects \cup {NoObject} /\ (target' = NoObject <=> pc' = "idle")
    BY <1>1, <1>4 DEF RegistryInv, CaptureTypeOK
  <2> QED  BY <1>3, <2>1, <2>2, <2>3 DEF CaptureTypeOK, StreamType, States
<1>6. Teardown'
  BY <1>1, <1>3, <1>4 DEF RegistryInv, Teardown, CaptureTypeOK
<1>7. InstancesCounted'
  <2>1. Destroying = {target} /\ Destroying' = {}
    BY <1>1 DEF Destroying
  <2> QED  BY <1>1, <1>3, <2>1 DEF RegistryInv, InstancesCounted
<1>8. OneRecording'
  BY <1>1 DEF RegistryInv, OneRecording
<1> QED  BY <1>3, <1>5, <1>6, <1>7, <1>8 DEF RegistryInv

\* A step of a recording's thread changes its stream and no other.
LEMMA RecordingKeeps ==
    ASSUME RegistryInv, NEW s \in Objects, Reads(s),
           UNCHANGED <<InstanceCount, mInputs, mVoipInputs, pc, target>>,
           reading' \subseteq reading \cup {s},
           obj' \in [Objects -> StreamType], openFds' \subseteq Descriptors, Live' = Live,
           obj'[s].kind = obj[s].kind, \A r \in Objects \ {s} : obj'[r] = obj[r],
           DescriptorsOwned', ClosedHasNoFd'
    PROVE  RegistryInv'
<1>1. \A r \in Live : obj'[r].kind = obj[r].kind
  BY LiveIsFinite
<1>2. s \in mInputs /\ s # target
  BY DEF Reads
<1>3. CaptureTypeOK'
  <2>1. mInputs' \ {target'} = {r \in Live' \ {target'} : obj'[r].kind = "recording"}
    BY <1>1 DEF RegistryInv, CaptureTypeOK
  <2>2. mVoipInputs' \ {target'} = {r \in Live' \ {target'} : obj'[r].kind = "voip"}
    BY <1>1 DEF RegistryInv, CaptureTypeOK
  <2> QED  BY <1>2, <2>1, <2>2 DEF RegistryInv, CaptureTypeOK, StreamType, States
<1>4. Teardown' /\ OneRecording'
  BY <1>2 DEF RegistryInv, Teardown, OneRecording
<1>5. InstancesCounted'
  BY DEF RegistryInv, InstancesCounted, Destroying
<1> QED  BY <1>3, <1>4, <1>5 DEF RegistryInv

\* What a thread knows of a recording that nobody is closing.
LEMMA ReadersStream ==
    ASSUME RegistryInv, NEW s \in Objects, Reads(s)
    PROVE  s \in Live /\ obj[s] \in StreamType /\ obj[s].kind = "recording"
BY DEF RegistryInv, CaptureTypeOK, Reads, StreamType, States

LEMMA ReadReopensKeeps ==
    ASSUME RegistryInv, NEW s \in Objects, ReadReopens(s) PROVE RegistryInv'
<1>1. /\ Reads(s) /\ obj[s].state = "CLOSED"
      /\ \/ setSucceeds(s, obj[s], InstanceCount) \/ setRejects(s, obj[s], InstanceCount)
         \/ setFails(s, obj[s], InstanceCount)
      /\ reading' \subseteq reading \cup {s}
      /\ UNCHANGED <<InstanceCount, mInputs, mVoipInputs, pc, target>>
  BY DEF ReadReopens
<1>2. s \in Live /\ obj[s] \in StreamType /\ obj[s].kind = "recording" /\ obj[s].fd = NoFd
  BY <1>1, ReadersStream DEF RegistryInv, ClosedHasNoFd
<1>3. Set(s, obj[s])
  BY <1>1, <1>2, SetOutcome
<1>4. /\ obj' \in [Objects -> StreamType] /\ openFds' \subseteq Descriptors
      /\ Live' = Live \cup {s} /\ obj'[s].kind = obj[s].kind
      /\ \A r \in Objects \ {s} : obj'[r] = obj[r]
      /\ DescriptorsOwned' /\ ClosedHasNoFd'
  BY <1>2, <1>3, SetOwnsDescriptors
<1> QED  BY <1>1, <1>2, <1>4, RecordingKeeps

LEMMA ReadStartsKeeps ==
    ASSUME RegistryInv, NEW s \in Objects, ReadStarts(s) PROVE RegistryInv'
<1>1. /\ Reads(s) /\ obj' = [obj EXCEPT ![s].state = "STARTED"] /\ UNCHANGED openFds
      /\ reading' \subseteq reading \cup {s}
      /\ UNCHANGED <<InstanceCount, mInputs, mVoipInputs, pc, target>>
  BY DEF ReadStarts
<1>2. s \in Live /\ obj \in [Objects -> StreamType]
  BY <1>1, ReadersStream DEF RegistryInv, CaptureTypeOK, StreamType, States
<1>3. /\ obj' \in [Objects -> StreamType]
      /\ \A r \in Objects : obj'[r].kind = obj[r].kind /\ obj'[r].fd = obj[r].fd
      /\ \A r \in Objects \ {s} : obj'[r] = obj[r]
      /\ obj'[s].state = "STARTED"
  BY <1>1, <1>2 DEF StreamType, States
<1>4. Live' = Live /\ openFds' \subseteq Descriptors
  BY <1>1, <1>3 DEF Live, RegistryInv, CaptureTypeOK
<1>5. DescriptorsOwned' /\ ClosedHasNoFd'
  <2>1. DescriptorsOwned'
    <3>1. {obj'[r].fd : r \in Live'} = {obj[r].fd : r \in Live}
      BY <1>3, <1>4, LiveIsFinite
    <3>2. \A r, q \in Live' : obj'[r].fd = obj'[q].fd /\ r # q => obj'[q].fd = NoFd
      BY <1>3, <1>4, LiveIsFinite DEF RegistryInv, DescriptorsOwned
    <3> QED  BY <1>1, <3>1, <3>2 DEF RegistryInv, DescriptorsOwned
  <2>2. ClosedHasNoFd'
    BY <1>3 DEF RegistryInv, ClosedHasNoFd
  <2> QED  BY <2>1, <2>2
<1> QED  BY <1>1, <1>3, <1>4, <1>5, RecordingKeeps

LEMMA StandbyKeeps ==
    ASSUME RegistryInv, NEW s \in Objects, ReadStartFails(s) \/ Standby(s) PROVE RegistryInv'
<1> DEFINE new == [obj[s] EXCEPT !.state = "CLOSED", !.fd = NoFd]
<1>1. /\ Reads(s) /\ InStandby(s) /\ reading' \subseteq reading \cup {s}
      /\ UNCHANGED <<InstanceCount, mInputs, mVoipInputs, pc, target>>
  BY DEF ReadStartFails, Standby
<1>2. s \in Live /\ obj \in [Objects -> StreamType] /\ obj[s] \in StreamType
  BY <1>1, ReadersStream DEF RegistryInv, CaptureTypeOK, StreamType, States
<1>3. new \in StreamType /\ new.fd = NoFd /\ new.kind = obj[s].kind
  BY <1>2 DEF StreamType, States
<1>4. obj' = [obj EXCEPT ![s] = new] /\ openFds' = openFds \ {obj[s].fd}
  BY <1>1, <1>2 DEF InStandby
<1> HIDE DEF new
<1>5. /\ obj' \in [Objects -> StreamType] /\ openFds' \subseteq Descriptors
      /\ Live' = IF new.kind = "free" THEN Live \ {s} ELSE Live
      /\ obj'[s] = new /\ \A r \in Objects \ {s} : obj'[r] = obj[r]
      /\ DescriptorsOwned' /\ ClosedHasNoFd'
  BY <1>2, <1>3, <1>4, ReleaseOwnsDescriptors
<1> QED  BY <1>1, <1>2, <1>3, <1>5, RecordingKeeps, ReadersStream

LEMMA RegistryStep == RegistryInv /\ [Next]_vars => RegistryInv'
<1> SUFFICES ASSUME RegistryInv, [Next]_vars PROVE RegistryInv'
  OBVIOUS
<1>1. ASSUME NEW s \in Objects, OpenRecording(s) \/ OpenVoip(s) \/ CloseInput(s)
      PROVE  RegistryInv'
  BY <1>1, OpenRecordingKeeps, OpenVoipKeeps, CloseKeeps
<1>2. CASE CountDown \/ DestroyStream \/ RemoveInput
  BY <1>2, CloseKeeps, DestroyStreamKeeps
<1>3. ASSUME NEW s \in Objects, read(s) \/ Standby(s) PROVE RegistryInv'
  BY <1>3, ReadReopensKeeps, ReadStartsKeeps, StandbyKeeps DEF read
<1>4. CASE UNCHANGED vars
  BY <1>4 DEF vars, RegistryInv, CaptureTypeOK, Teardown, InstancesCounted, OneRecording,
              ClosedHasNoFd, DescriptorsOwned, Live, Destroying
<1> QED  BY <1>1, <1>2, <1>3, <1>4 DEF Next

-----------------------------------------------------------------------------
(* The theorems.                                                           *)

\* The registry keeps its invariant through every open, close, read and standby.
THEOREM RegistryHolds == Spec => []RegistryInv
BY RegistryInit, RegistryStep, PTL DEF Spec

\* The variables are well typed and every stream is in the list of its kind
\* (openInputStream, closeInputStream).
THEOREM CaptureTypeCorrect == Spec => []CaptureTypeOK
BY RegistryHolds, PTL DEF RegistryInv

\* InstanceCount counts the streams whose destructor has not run, for any
\* streams and any failures of their drivers.
THEOREM InstancesAreCounted == Spec => []InstancesCounted
BY RegistryHolds, PTL DEF RegistryInv

\* At most one recording is active: it is the only one there is.
THEOREM OneInputIsActive == Spec => []OneActiveInput
<1>1. RegistryInv => OneActiveInput
  BY DEF RegistryInv, OneRecording, OneActiveInput
<1> QED  BY <1>1, RegistryHolds, PTL

\* Every open descriptor of a recording driver belongs to one live recording.
THEOREM DescriptorsAreOwned == Spec => []DescriptorsOwned
BY RegistryHolds, PTL DEF RegistryInv
=============================================================================
