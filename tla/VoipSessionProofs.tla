-------------------------- MODULE VoipSessionProofs --------------------------
(***************************************************************************)
(* Safety of the VoIP stream pair for any number of uplink streams, any    *)
(* number of descriptors and any failures of the driver: who holds mLock   *)
(* and mVoipLock, that the shared descriptor is open, and that the close   *)
(* of the downlink is the only operation that takes the mutexes in the     *)
(* wrong order.                                                            *)
(***************************************************************************)
EXTENDS VoipSession, TLAPS

LEMMA ThreadsDiffer ==
    /\ Control \in Threads /\ Playback \in Threads /\ Inputs \subseteq Threads
    /\ Control # Playback /\ Control \notin Inputs /\ Playback \notin Inputs
    /\ Nobody \notin Threads
BY VoipAssumption DEF Threads, Control, Playback, Nobody

LEMMA FdsArePositive == NoFd \notin Fds
BY VoipAssumption DEF NoFd, Fds

-----------------------------------------------------------------------------
(* Typing.                                                                 *)

LEMMA VoipTypeInit == Init => VoipTypeOK
BY VoipAssumption DEF Init, VoipTypeOK, PCs

LEMMA SubjectIsInput ==
    ASSUME VoipTypeOK, NEW t \in {Control} \cup Inputs PROVE Subject(t) \in Inputs
BY DEF VoipTypeOK, Subject

LEMMA SetupTypes ==
    ASSUME VoipTypeOK, NEW t \in Threads, SetupStep(t) PROVE VoipTypeOK'
<1> USE DEF VoipTypeOK, Goto, PCs, lockVars, fdVars, modeVars, outVars, inVars
<1>1. CASE CheckVoiceCall(t)
  BY <1>1 DEF CheckVoiceCall
<1>2. CASE SetVoipMode(t)
  BY <1>2 DEF SetVoipMode
<1>3. CASE MuteMic(t)
  BY <1>3 DEF MuteMic, SetupValue
<1> QED  BY <1>1, <1>2, <1>3 DEF SetupStep

LEMMA PlaybackTypes ==
    ASSUME VoipTypeOK, OutWrite \/ OutStandbyCall \/ PlaybackCall PROVE VoipTypeOK'
<1> USE ThreadsDiffer
    DEF VoipTypeOK, Goto, CallSetup, PCs, lockVars, fdVars, modeVars, outVars, inVars
<1>1. CASE OutWrite
  BY <1>1 DEF OutWrite
<1>2. CASE OutStandbyCall
  BY <1>2 DEF OutStandbyCall
<1>3. CASE OutOpen
  BY <1>3 DEF OutOpen
<1>4. CASE OutConfigFails
  BY <1>4 DEF OutConfigFails
<1>5. CASE OutError
  BY <1>5 DEF OutError
<1>6. CASE OutActive
  BY <1>6 DEF OutActive
<1>7. CASE OutSetsUp
  BY <1>7 DEF OutSetsUp
<1>8. CASE OutDone
  BY <1>8 DEF OutDone
<1> QED  BY <1>1, <1>2, <1>3, <1>4, <1>5, <1>6, <1>7, <1>8 DEF PlaybackCall

LEMMA OutCallTypes ==
    ASSUME VoipTypeOK, NEW t \in {Control, Playback}, OutCall(t) PROVE VoipTypeOK'
<1> USE ThreadsDiffer
    DEF VoipTypeOK, Goto, CallSetup, PCs, lockVars, fdVars, modeVars, outVars, inVars
<1>1. CASE OutStandby(t)
  BY <1>1 DEF OutStandby
<1>2. CASE OutForget(t)
  BY <1>2 DEF OutForget
<1>3. CASE OutStandbyEnd(t)
  BY <1>3 DEF OutStandbyEnd
<1> QED  BY <1>1, <1>2, <1>3 DEF OutCall

LEMMA InCallTypes ==
    ASSUME VoipTypeOK, NEW t \in {Control} \cup Inputs, InCall(t) PROVE VoipTypeOK'
<1> USE ThreadsDiffer, SubjectIsInput
    DEF VoipTypeOK, Goto, CallSetup, PCs, lockVars, fdVars, modeVars, outVars, inVars
<1>1. CASE InSet(t)
  BY <1>1 DEF InSet
<1>2. CASE InOpen(t)
  <2>1. /\ openFds' \subseteq Fds /\ mVoipFd' \in Fds \cup {NoFd} /\ active' = active
        /\ inFd' \in [Inputs -> Fds \cup {NoFd}]
    BY <1>2 DEF InOpen
  <2>2. pc' \in [Threads -> PCs]
    BY <1>2 DEF InOpen
  <2> QED  BY <1>2, <2>1, <2>2 DEF InOpen
<1>3. CASE InConfigFails(t)
  BY <1>3 DEF InConfigFails
<1>4. CASE InActive(t)
  BY <1>4 DEF InActive
<1>5. CASE InSetsUp(t)
  BY <1>5 DEF InSetsUp
<1>6. CASE InError(t)
  BY <1>6 DEF InError
<1>7. CASE InFail(t)
  BY <1>7 DEF InFail
<1>8. CASE InStandby(t)
  BY <1>8 DEF InStandby
<1>9. CASE InForget(t)
  BY <1>9 DEF InForget
<1>10. CASE InStandbyEnd(t)
  BY <1>10 DEF InStandbyEnd
<1> QED  BY <1>1, <1>2, <1>3, <1>4, <1>5, <1>6, <1>7, <1>8, <1>9, <1>10 DEF InCall

LEMMA InNewCallTypes ==
    ASSUME VoipTypeOK, NEW i \in Inputs,
           ReadReopens(i) \/ ReadSetsUp(i) \/ InStandbyCall(i) \/ LockToReopen(i)
    PROVE  VoipTypeOK'
<1> USE ThreadsDiffer
    DEF VoipTypeOK, Goto, CallSetup, PCs, lockVars, fdVars, modeVars, outVars, inVars
<1>1. CASE ReadReopens(i)
  BY <1>1 DEF ReadReopens
<1>2. CASE ReadSetsUp(i)
  BY <1>2 DEF ReadSetsUp
<1>3. CASE InStandbyCall(i)
  BY <1>3 DEF InStandbyCall
<1>4. CASE LockToReopen(i)
  BY <1>4 DEF LockToReopen
<1> QED  BY <1>1, <1>2, <1>3, <1>4

LEMMA CountStaysInRange ==
    ASSUME VoipTypeOK, OpenOut \/ CloseOut PROVE mDirectOutrefCnt' \in 0..MaxOpens
<1>1. mDirectOutrefCnt \in 0..MaxOpens /\ MaxOpens \in Nat
  BY VoipAssumption DEF VoipTypeOK
<1>2. CASE OpenOut
  BY <1>1, <1>2 DEF OpenOut
<1>3. CASE CloseOut
  BY <1>1, <1>3 DEF CloseOut, OutInUse
<1> QED  BY <1>2, <1>3

LEMMA ControlTypes ==
    ASSUME VoipTypeOK, OpenOut \/ CloseOut \/ SetMode \/ RemoveInput PROVE VoipTypeOK'
<1> USE ThreadsDiffer
    DEF VoipTypeOK, Goto, CallSetup, PCs, lockVars, fdVars, modeVars, outVars, inVars
<1>1. CASE OpenOut
  <2>1. mDirectOutrefCnt' \in 0..MaxOpens
    BY <1>1, CountStaysInRange
  <2> QED  BY <1>1, <2>1 DEF OpenOut
<1>2. CASE CloseOut
  <2>1. mDirectOutrefCnt' \in 0..MaxOpens
    BY <1>2, CountStaysInRange
  <2> QED  BY <1>2, <2>1 DEF CloseOut
<1>3. CASE SetMode
  BY <1>3 DEF SetMode
<1>4. CASE RemoveInput
  BY <1>4 DEF RemoveInput
<1> QED  BY <1>1, <1>2, <1>3, <1>4

LEMMA ControlInTypes ==
    ASSUME VoipTypeOK, NEW i \in Inputs, OpenIn(i) \/ CloseIn(i) PROVE VoipTypeOK'
<1> USE ThreadsDiffer
    DEF VoipTypeOK, Goto, CallSetup, PCs, lockVars, fdVars, modeVars, outVars, inVars
<1>1. CASE OpenIn(i)
  BY <1>1 DEF OpenIn
<1>2. CASE CloseIn(i)
  BY <1>2 DEF CloseIn
<1> QED  BY <1>1, <1>2

LEMMA VoipTypeStep == VoipTypeOK /\ [Next]_vars => VoipTypeOK'
<1> SUFFICES ASSUME VoipTypeOK, [Next]_vars PROVE VoipTypeOK'
  OBVIOUS
<1>1. CASE NewCall
  BY <1>1, PlaybackTypes, InNewCallTypes, ControlTypes, ControlInTypes DEF NewCall
<1>2. ASSUME NEW t \in Threads, CallStep(t) PROVE VoipTypeOK'
  BY <1>2, SetupTypes, OutCallTypes, InCallTypes, PlaybackTypes, InNewCallTypes, ControlTypes
     DEF CallStep, CaptureCall
<1>3. CASE UNCHANGED vars
  BY <1>3 DEF vars, VoipTypeOK, lockVars, fdVars, modeVars, outVars, inVars
<1> QED  BY <1>1, <1>2, <1>3 DEF Next

-----------------------------------------------------------------------------
(* Who holds the mutexes.                                                  *)

\* The two sides of VoipLockOwnership: where a thread's code holds each mutex.
InVoipLock(t) == InSection(t, {"outForget", "outEnd", "inForget", "inClosed", "inEnd"})

InLock(t) ==
    \/ pc[t] \in {"inSet", "inOpen", "inConfig", "inActive", "inError", "inLost", "inFail"}
    \/ t = Control /\ InSection(t, {"outStandby", "outForget", "outEnd"})

LEMMA OwnershipByThread ==
    VoipLockOwnership <=> \A t \in Threads : (mVoipLock = t <=> InVoipLock(t))
                                          /\ (mLock = t <=> InLock(t))
BY DEF VoipLockOwnership, InVoipLock, InLock

\* What a step of thread t does to the mutexes and to the other threads.
MovesOnly(t) ==
    /\ \A u \in Threads \ {t} : pc'[u] = pc[u] /\ after'[u] = after[u]
    /\ mVoipLock' = mVoipLock \/ {mVoipLock, mVoipLock'} = {t, Nobody}
    /\ mLock' = mLock \/ {mLock, mLock'} = {t, Nobody}

\* The other threads hold what they held: only the moving thread matters.
LEMMA OwnershipOfOthers ==
    ASSUME VoipLockOwnership, NEW t \in Threads, MovesOnly(t),
           mVoipLock' = t <=> InVoipLock(t)', mLock' = t <=> InLock(t)'
    PROVE  VoipLockOwnership'
<1>1. ASSUME NEW u \in Threads \ {t}
      PROVE  /\ InVoipLock(u)' <=> InVoipLock(u)
             /\ InLock(u)' <=> InLock(u)
             /\ mVoipLock' = u <=> mVoipLock = u
             /\ mLock' = u <=> mLock = u
  BY ThreadsDiffer DEF MovesOnly, InVoipLock, InLock, InSection
<1>2. \A u \in Threads : (mVoipLock' = u <=> InVoipLock(u)') /\ (mLock' = u <=> InLock(u)')
  BY <1>1, OwnershipByThread
<1> QED  BY <1>2 DEF VoipLockOwnership, InVoipLock, InLock

VoipInv == VoipTypeOK /\ VoipLockOwnership /\ SharedDescriptorOpen

LEMMA LocksInit == Init => VoipLockOwnership
BY ThreadsDiffer DEF Init, VoipLockOwnership, InSection

LEMMA SetupLocks ==
    ASSUME VoipTypeOK, VoipLockOwnership, NEW t \in Threads, SetupStep(t)
    PROVE  VoipLockOwnership'
<1>1. pc[t] \in {"setup", "setMode", "mute"} /\ after' = after /\ UNCHANGED lockVars
  BY DEF SetupStep, CheckVoiceCall, SetVoipMode, MuteMic
<1>2. PICK place \in {after[t], "setMode", "mute"} : pc' = [pc EXCEPT ![t] = place]
  BY DEF SetupStep, CheckVoiceCall, SetVoipMode, MuteMic, Goto
<1>3. after[t] \in {"idle", "outDone", "outEnd", "inClosed"}
  BY DEF VoipTypeOK
<1>4. pc'[t] = place /\ after'[t] = after[t]
  BY <1>1, <1>2 DEF VoipTypeOK
<1>5. InVoipLock(t)' <=> InVoipLock(t)
  BY <1>1, <1>2, <1>3, <1>4 DEF InVoipLock, InSection
<1>6. InLock(t)' <=> InLock(t)
  BY <1>1, <1>2, <1>3, <1>4 DEF InLock, InSection
<1>7. MovesOnly(t)
  BY <1>1, <1>2 DEF MovesOnly, lockVars, VoipTypeOK
<1> QED  BY <1>1, <1>5, <1>6, <1>7, OwnershipOfOthers, OwnershipByThread DEF lockVars

LEMMA PlaybackLocks ==
    ASSUME VoipTypeOK, VoipLockOwnership, OutWrite \/ OutStandbyCall \/ PlaybackCall
    PROVE  VoipLockOwnership'
<1> DEFINE t == Playback
<1> DEFINE Here == {"idle", "outOpen", "outConfig", "outActive", "outSetup", "outDone",
                    "outError", "outLost", "outStandby"}
<1>1. pc[t] \in Here \ {"outStandby", "outLost"} /\ UNCHANGED lockVars
  BY DEF OutWrite, OutStandbyCall, PlaybackCall, OutOpen, OutConfigFails, OutError, OutActive,
         OutSetsUp, OutDone
<1>2. \/ \E place \in Here : pc' = [pc EXCEPT ![t] = place] /\ after' = after
      \/ CallSetup(t, "outDone")
  BY DEF OutWrite, OutStandbyCall, PlaybackCall, OutOpen, OutConfigFails, OutError, OutActive,
         OutSetsUp, OutDone, Goto
<1>3. MovesOnly(t)
  BY <1>1, <1>2, ThreadsDiffer DEF MovesOnly, lockVars, VoipTypeOK, CallSetup, Goto
<1>4. ~InVoipLock(t) /\ ~InLock(t)
  BY <1>1, ThreadsDiffer DEF InVoipLock, InLock, InSection
<1>5. pc'[t] \in Here \/ (pc'[t] = "setup" /\ after'[t] = "outDone")
  BY <1>2, ThreadsDiffer DEF VoipTypeOK, CallSetup, Goto
<1>6. ~InVoipLock(t)' /\ ~InLock(t)'
  BY <1>5, ThreadsDiffer DEF InVoipLock, InLock, InSection
<1> QED  BY <1>1, <1>3, <1>4, <1>6, ThreadsDiffer, OwnershipOfOthers, OwnershipByThread
         DEF lockVars

LEMMA OutCallLocks ==
    ASSUME VoipTypeOK, VoipLockOwnership, NEW t \in {Control, Playback}, OutCall(t)
    PROVE  VoipLockOwnership'
<1> USE ThreadsDiffer, OwnershipByThread
    DEF MovesOnly, InVoipLock, InLock, InSection, Goto, CallSetup, lockVars
<1>1. t \in Threads /\ Nobody # t /\ pc \in [Threads -> PCs]
      /\ after \in [Threads -> {"idle", "outDone", "outEnd", "inClosed"}]
  BY DEF VoipTypeOK
<1>2. CASE OutStandby(t)
  <2>1. /\ pc[t] = "outStandby" /\ mVoipLock = Nobody /\ mVoipLock' = t
        /\ mLock' = mLock /\ after' = after
        /\ \E place \in {"outForget", "outEnd"} : pc' = [pc EXCEPT ![t] = place]
    BY <1>2 DEF OutStandby
  <2>2. MovesOnly(t)
    BY <1>1, <2>1
  <2>3. (mVoipLock' = t <=> InVoipLock(t)') /\ (mLock' = t <=> InLock(t)')
    BY <1>1, <2>1
  <2> QED  BY <1>1, <2>2, <2>3, OwnershipOfOthers
<1>3. CASE OutForget(t)
  <2>1. /\ pc[t] \in {"outForget", "outLost"} /\ UNCHANGED lockVars
        /\ pc[t] = "outForget" => CallSetup(t, "outEnd")
        /\ pc[t] = "outLost" => pc' = [pc EXCEPT ![t] = "idle"] /\ after' = after
    BY <1>3 DEF OutForget
  <2>2. MovesOnly(t)
    BY <1>1, <2>1
  <2>3. (mVoipLock' = t <=> InVoipLock(t)') /\ (mLock' = t <=> InLock(t)')
    BY <1>1, <2>1
  <2> QED  BY <1>1, <2>2, <2>3, OwnershipOfOthers
<1>4. CASE OutStandbyEnd(t)
  <2>1. /\ pc[t] = "outEnd" /\ mVoipLock' = Nobody
        /\ mLock' = (IF t = Control THEN Nobody ELSE mLock) /\ after' = after
        /\ pc' = [pc EXCEPT ![t] = "idle"]
    BY <1>4 DEF OutStandbyEnd
  <2>2. MovesOnly(t)
    BY <1>1, <2>1
  <2>3. (mVoipLock' = t <=> InVoipLock(t)') /\ (mLock' = t <=> InLock(t)')
    BY <1>1, <2>1
  <2> QED  BY <1>1, <2>2, <2>3, OwnershipOfOthers
<1> QED  BY <1>2, <1>3, <1>4 DEF OutCall

\* The steps of set(), with mLock held.
LEMMA SetLocks ==
    ASSUME VoipTypeOK, VoipLockOwnership, NEW t \in {Control} \cup Inputs,
           \/ InSet(t) \/ InOpen(t) \/ InConfigFails(t) \/ InActive(t) \/ InError(t)
           \/ InFail(t) \/ InSetsUp(t)
    PROVE  VoipLockOwnership'
<1> USE ThreadsDiffer, OwnershipByThread
    DEF MovesOnly, InVoipLock, InLock, InSection, Goto, CallSetup, lockVars
<1> DEFINE InSetCall == {"inSet", "inOpen", "inConfig", "inActive", "inError", "inLost", "inFail"}
<1>1. t \in Threads /\ Nobody # t /\ pc \in [Threads -> PCs]
      /\ after \in [Threads -> {"idle", "outDone", "outEnd", "inClosed"}]
  BY DEF VoipTypeOK
<1>2. CASE InSet(t) \/ InOpen(t) \/ InConfigFails(t) \/ InError(t)
  <2>1. /\ pc[t] \in InSetCall /\ UNCHANGED lockVars /\ after' = after
        /\ \E place \in InSetCall : pc' = [pc EXCEPT ![t] = place]
    BY <1>2 DEF InSet, InOpen, InConfigFails, InError
  <2>2. MovesOnly(t)
    BY <1>1, <2>1
  <2>3. (mVoipLock' = t <=> InVoipLock(t)') /\ (mLock' = t <=> InLock(t)')
    BY <1>1, <2>1
  <2> QED  BY <1>1, <2>2, <2>3, OwnershipOfOthers
<1>3. CASE InActive(t) \/ InFail(t)
  <2>1. /\ pc[t] \in InSetCall /\ mLock' = Nobody /\ mVoipLock' = mVoipLock /\ after' = after
        /\ \E place \in {"inSetup", "inStandby", "idle"} : pc' = [pc EXCEPT ![t] = place]
    BY <1>3 DEF InActive, InFail
  <2>2. MovesOnly(t)
    BY <1>1, <2>1
  <2>3. (mVoipLock' = t <=> InVoipLock(t)') /\ (mLock' = t <=> InLock(t)')
    BY <1>1, <2>1
  <2> QED  BY <1>1, <2>2, <2>3, OwnershipOfOthers
<1>4. CASE InSetsUp(t)
  <2>1. /\ pc[t] = "inSetup" /\ UNCHANGED lockVars
        /\ \/ CallSetup(t, "idle")
           \/ pc' = [pc EXCEPT ![t] = "idle"] /\ after' = after
    BY <1>4 DEF InSetsUp
  <2>2. MovesOnly(t)
    BY <1>1, <2>1
  <2>3. (mVoipLock' = t <=> InVoipLock(t)') /\ (mLock' = t <=> InLock(t)')
    BY <1>1, <2>1
  <2> QED  BY <1>1, <2>2, <2>3, OwnershipOfOthers
<1> QED  BY <1>2, <1>3, <1>4

\* The steps of the uplink's standby(), with mVoipLock held.
LEMMA InStandbyLocks ==
    ASSUME VoipTypeOK, VoipLockOwnership, NEW t \in {Control} \cup Inputs,
           InStandby(t) \/ InForget(t) \/ InStandbyEnd(t)
    PROVE  VoipLockOwnership'
<1> USE ThreadsDiffer, OwnershipByThread
    DEF MovesOnly, InVoipLock, InLock, InSection, Goto, CallSetup, lockVars
<1>1. t \in Threads /\ Nobody # t /\ pc \in [Threads -> PCs]
      /\ after \in [Threads -> {"idle", "outDone", "outEnd", "inClosed"}]
  BY DEF VoipTypeOK
<1>2. CASE InStandby(t)
  <2>1. /\ pc[t] = "inStandby" /\ mVoipLock = Nobody /\ mVoipLock' = t
        /\ mLock' = mLock /\ after' = after
        /\ \E place \in {"inForget", "inClosed", "inEnd"} : pc' = [pc EXCEPT ![t] = place]
    BY <1>2 DEF InStandby
  <2>2. MovesOnly(t)
    BY <1>1, <2>1
  <2>3. (mVoipLock' = t <=> InVoipLock(t)') /\ (mLock' = t <=> InLock(t)')
    BY <1>1, <2>1
  <2> QED  BY <1>1, <2>2, <2>3, OwnershipOfOthers
<1>3. CASE InForget(t)
  <2>1. /\ pc[t] \in {"inForget", "inLost"} /\ UNCHANGED lockVars
        /\ pc[t] = "inForget" => CallSetup(t, "inClosed")
        /\ pc[t] = "inLost" => pc' = [pc EXCEPT ![t] = "inFail"] /\ after' = after
    BY <1>3 DEF InForget
  <2>2. MovesOnly(t)
    BY <1>1, <2>1
  <2>3. (mVoipLock' = t <=> InVoipLock(t)') /\ (mLock' = t <=> InLock(t)')
    BY <1>1, <2>1
  <2> QED  BY <1>1, <2>2, <2>3, OwnershipOfOthers
<1>4. CASE InStandbyEnd(t)
  <2>1. /\ pc[t] \in {"inClosed", "inEnd"} /\ mVoipLock' = Nobody
        /\ mLock' = mLock /\ after' = after
        /\ \E place \in {"inRemove", "idle"} : pc' = [pc EXCEPT ![t] = place]
    BY <1>4 DEF InStandbyEnd
  <2>2. MovesOnly(t)
    BY <1>1, <2>1
  <2>3. (mVoipLock' = t <=> InVoipLock(t)') /\ (mLock' = t <=> InLock(t)')
    BY <1>1, <2>1
  <2> QED  BY <1>1, <2>2, <2>3, OwnershipOfOthers
<1> QED  BY <1>2, <1>3, <1>4

\* The steps that begin a call, and removeInput's, of the thread t.
LEMMA NewCallLocks ==
    ASSUME VoipTypeOK, VoipLockOwnership, NEW i \in Inputs,
           \/ ReadReopens(i) \/ ReadSetsUp(i) \/ InStandbyCall(i) \/ LockToReopen(i)
           \/ OpenIn(i) \/ CloseIn(i) \/ OpenOut \/ CloseOut \/ RemoveInput \/ SetMode
    PROVE  VoipLockOwnership'
<1> USE ThreadsDiffer, OwnershipByThread
    DEF MovesOnly, InVoipLock, InLock, InSection, Goto, CallSetup, lockVars
<1>1. /\ i \in Threads /\ Nobody # i /\ Nobody # Control /\ i # Control
      /\ pc \in [Threads -> PCs]
      /\ after \in [Threads -> {"idle", "outDone", "outEnd", "inClosed"}]
  BY DEF VoipTypeOK
<1>2. CASE ReadReopens(i) \/ ReadSetsUp(i) \/ InStandbyCall(i)
  <2>1. /\ pc[i] = "idle" /\ UNCHANGED lockVars
        /\ \/ CallSetup(i, "idle")
           \/ /\ after' = after
              /\ \E place \in {"readLock", "inStandby"} : pc' = [pc EXCEPT ![i] = place]
    BY <1>2 DEF ReadReopens, ReadSetsUp, InStandbyCall
  <2>2. MovesOnly(i)
    BY <1>1, <2>1
  <2>3. (mVoipLock' = i <=> InVoipLock(i)') /\ (mLock' = i <=> InLock(i)')
    BY <1>1, <2>1
  <2> QED  BY <1>1, <2>2, <2>3, OwnershipOfOthers
<1>3. CASE LockToReopen(i)
  <2>1. /\ pc[i] = "readLock" /\ mLock = Nobody /\ mLock' = i /\ mVoipLock' = mVoipLock
        /\ after' = after /\ pc' = [pc EXCEPT ![i] = "inSet"]
    BY <1>3 DEF LockToReopen
  <2>2. MovesOnly(i)
    BY <1>1, <2>1
  <2>3. (mVoipLock' = i <=> InVoipLock(i)') /\ (mLock' = i <=> InLock(i)')
    BY <1>1, <2>1
  <2> QED  BY <1>1, <2>2, <2>3, OwnershipOfOthers
<1>4. CASE OpenIn(i) \/ CloseOut
  <2>1. /\ pc[Control] = "idle" /\ mLock = Nobody /\ mVoipLock' = mVoipLock /\ after' = after
        /\ \/ /\ mLock' = Control
              /\ \E place \in {"inSet", "outStandby"} : pc' = [pc EXCEPT ![Control] = place]
           \/ mLock' = mLock /\ pc' = pc
    BY <1>4 DEF OpenIn, CloseOut, ControlCalls
  <2>2. MovesOnly(Control)
    BY <1>1, <2>1
  <2>3. /\ mVoipLock' = Control <=> InVoipLock(Control)'
        /\ mLock' = Control <=> InLock(Control)'
    BY <1>1, <2>1
  <2> QED  BY <1>1, <2>2, <2>3, OwnershipOfOthers
<1>5. CASE CloseIn(i) \/ OpenOut \/ RemoveInput \/ SetMode
  <2>1. /\ UNCHANGED lockVars
        /\ \/ /\ pc[Control] \in {"idle", "inRemove"}
              /\ CallSetup(Control, "idle")
           \/ /\ pc[Control] \in {"idle", "inRemove"} /\ after' = after
              /\ \E place \in {"idle", "inStandby"} : pc' = [pc EXCEPT ![Control] = place]
           \/ pc' = pc /\ after' = after
    BY <1>5 DEF CloseIn, OpenOut, RemoveInput, SetMode, ControlCalls
  <2>2. MovesOnly(Control)
    BY <1>1, <2>1
  <2>3. /\ mVoipLock' = Control <=> InVoipLock(Control)'
        /\ mLock' = Control <=> InLock(Control)'
    BY <1>1, <2>1
  <2> QED  BY <1>1, <2>2, <2>3, OwnershipOfOthers
<1> QED  BY <1>2, <1>3, <1>4, <1>5

LEMMA LocksStep == VoipTypeOK /\ VoipLockOwnership /\ [Next]_vars => VoipLockOwnership'
<1> SUFFICES ASSUME VoipTypeOK, VoipLockOwnership, [Next]_vars PROVE VoipLockOwnership'
  OBVIOUS
<1>1. target \in Inputs
  BY DEF VoipTypeOK
<1>2. CASE NewCall
  BY <1>1, <1>2, PlaybackLocks, NewCallLocks DEF NewCall
<1>3. ASSUME NEW t \in Threads, CallStep(t) PROVE VoipLockOwnership'
  BY <1>1, <1>3, SetupLocks, OutCallLocks, SetLocks, InStandbyLocks, PlaybackLocks, NewCallLocks
     DEF CallStep, InCall, CaptureCall
<1>4. CASE UNCHANGED vars
  BY <1>4 DEF vars, lockVars, VoipLockOwnership, InSection
<1> QED  BY <1>2, <1>3, <1>4 DEF Next

-----------------------------------------------------------------------------
(* The shared descriptor.                                                  *)

\* Thread t is between its close() and the assignment that says so.
Forgetting(t) == pc[t] \in {"outForget", "outLost", "inForget", "inLost"}

\* A step of t that closes nothing, or that says so: mVoipFd stays, becomes
\* the descriptor just opened, or is cleared.
KeepsShared(t) ==
    /\ \A u \in Threads \ {t} : pc'[u] = pc[u]
    /\ \/ mVoipFd' = NoFd
       \/ mVoipFd' \in openFds'
       \/ mVoipFd' = mVoipFd /\ openFds \subseteq openFds' /\ ~Forgetting(t)

\* A step of t that closes a descriptor and has yet to say so.
ClosesShared(t) == Forgetting(t)'

LEMMA SharedStaysOpen ==
    ASSUME SharedDescriptorOpen, NEW t \in Threads, KeepsShared(t) \/ ClosesShared(t)
    PROVE  SharedDescriptorOpen'
BY DEF SharedDescriptorOpen, KeepsShared, ClosesShared, Forgetting

LEMMA SetupShared ==
    ASSUME VoipTypeOK, NEW t \in Threads, SetupStep(t) PROVE KeepsShared(t)
BY DEF SetupStep, CheckVoiceCall, SetVoipMode, MuteMic, Goto, fdVars, VoipTypeOK, KeepsShared,
       Forgetting

LEMMA PlaybackShared ==
    ASSUME VoipTypeOK, OutWrite \/ OutStandbyCall \/ PlaybackCall
    PROVE  KeepsShared(Playback) \/ ClosesShared(Playback)
<1> USE ThreadsDiffer, FdsArePositive DEF VoipTypeOK, Goto, CallSetup, fdVars, KeepsShared,
        Forgetting
<1>1. CASE OutWrite \/ OutStandbyCall \/ OutConfigFails \/ OutActive \/ OutSetsUp \/ OutDone
  BY <1>1 DEF OutWrite, OutStandbyCall, OutConfigFails, OutActive, OutSetsUp, OutDone
<1>2. CASE OutOpen
  BY <1>2 DEF OutOpen
<1>3. CASE OutError /\ outFd = NoFd
  BY <1>3 DEF OutError
<1>4. CASE OutError /\ outFd # NoFd
  <2>1. pc'[Playback] = "outLost"
    BY <1>4 DEF OutError
  <2> QED  BY <2>1 DEF ClosesShared
<1> QED  BY <1>1, <1>2, <1>3, <1>4 DEF PlaybackCall

LEMMA OutCallShared ==
    ASSUME VoipTypeOK, NEW t \in {Control, Playback}, OutCall(t)
    PROVE  KeepsShared(t) \/ ClosesShared(t)
<1> USE ThreadsDiffer DEF VoipTypeOK, Goto, CallSetup, fdVars, KeepsShared, Forgetting
<1>1. CASE OutStandby(t) /\ mVoipFd # NoFd /\ "in" \notin active
  BY <1>1 DEF OutStandby, ClosesShared
<1>2. CASE OutStandby(t) /\ ~(mVoipFd # NoFd /\ "in" \notin active)
  BY <1>2 DEF OutStandby
<1>3. CASE OutForget(t) \/ OutStandbyEnd(t)
  BY <1>3 DEF OutForget, OutStandbyEnd
<1> QED  BY <1>1, <1>2, <1>3 DEF OutCall

LEMMA InCallShared ==
    ASSUME VoipTypeOK, NEW t \in {Control} \cup Inputs, InCall(t)
    PROVE  KeepsShared(t) \/ ClosesShared(t)
<1> USE ThreadsDiffer, SubjectIsInput, FdsArePositive
    DEF VoipTypeOK, Goto, CallSetup, fdVars, KeepsShared, Forgetting
<1>1. CASE InSet(t) \/ InConfigFails(t) \/ InActive(t) \/ InSetsUp(t) \/ InFail(t)
  BY <1>1 DEF InSet, InConfigFails, InActive, InSetsUp, InFail
<1>2. CASE InOpen(t)
  BY <1>2 DEF InOpen
<1>3. CASE InError(t)
  <2>1. CASE inFd[Subject(t)] = NoFd
    BY <1>3, <2>1 DEF InError
  <2>2. CASE inFd[Subject(t)] # NoFd
    BY <1>3, <2>2 DEF InError, ClosesShared
  <2> QED  BY <2>1, <2>2
<1>4. CASE InStandby(t)
  <2>1. /\ mVoipFd' = mVoipFd /\ pc[t] = "inStandby"
        /\ \/ pc' = [pc EXCEPT ![t] = "inForget"]
           \/ openFds' = openFds /\ \E place \in PCs : pc' = [pc EXCEPT ![t] = place]
    BY <1>4 DEF InStandby, PCs
  <2> QED  BY <2>1 DEF ClosesShared
<1>5. CASE InForget(t) \/ InStandbyEnd(t)
  BY <1>5 DEF InForget, InStandbyEnd
<1> QED  BY <1>1, <1>2, <1>3, <1>4, <1>5 DEF InCall

LEMMA NewCallShared ==
    ASSUME VoipTypeOK, NEW i \in Inputs,
           \/ ReadReopens(i) \/ ReadSetsUp(i) \/ InStandbyCall(i) \/ LockToReopen(i)
           \/ OpenIn(i) \/ CloseIn(i) \/ OpenOut \/ CloseOut \/ RemoveInput \/ SetMode
    PROVE  \E t \in Threads : KeepsShared(t)
<1> USE ThreadsDiffer
    DEF VoipTypeOK, Goto, CallSetup, fdVars, KeepsShared, Forgetting, ControlCalls
<1>1. CASE ReadReopens(i) \/ ReadSetsUp(i) \/ InStandbyCall(i) \/ LockToReopen(i)
  <2>1. KeepsShared(i)
    BY <1>1 DEF ReadReopens, ReadSetsUp, InStandbyCall, LockToReopen
  <2> QED  BY <2>1
<1>2. CASE OpenIn(i) \/ CloseIn(i) \/ OpenOut \/ CloseOut \/ RemoveInput
  <2>1. KeepsShared(Control)
    BY <1>2 DEF OpenIn, CloseIn, OpenOut, CloseOut, RemoveInput
  <2> QED  BY <2>1
<1>3. CASE SetMode
  <2>1. KeepsShared(Control)
    BY <1>3 DEF SetMode
  <2> QED  BY <2>1
<1> QED  BY <1>1, <1>2, <1>3

LEMMA SharedStep ==
    VoipTypeOK /\ SharedDescriptorOpen /\ [Next]_vars => SharedDescriptorOpen'
<1> SUFFICES ASSUME VoipTypeOK, SharedDescriptorOpen, [Next]_vars PROVE SharedDescriptorOpen'
  OBVIOUS
<1>1. target \in Inputs
  BY DEF VoipTypeOK
<1>2. CASE NewCall
  BY <1>1, <1>2, PlaybackShared, NewCallShared, SharedStaysOpen, ThreadsDiffer DEF NewCall
<1>3. ASSUME NEW t \in Threads, CallStep(t) PROVE SharedDescriptorOpen'
  BY <1>1, <1>3, SetupShared, OutCallShared, InCallShared, PlaybackShared, NewCallShared,
     SharedStaysOpen, ThreadsDiffer DEF CallStep, CaptureCall
<1>4. CASE UNCHANGED vars
  BY <1>4 DEF vars, fdVars, SharedDescriptorOpen
<1> QED  BY <1>2, <1>3, <1>4 DEF Next

LEMMA VoipHolds == Spec => []VoipInv
<1>1. Init => VoipInv
  BY VoipTypeInit, LocksInit DEF VoipInv, Init, SharedDescriptorOpen
<1>2. VoipInv /\ [Next]_vars => VoipInv'
  BY VoipTypeStep, LocksStep, SharedStep DEF VoipInv
<1> QED  BY <1>1, <1>2, PTL DEF Spec

-----------------------------------------------------------------------------
(* The order of the mutexes.                                               *)

\* Where a thread waits for mLock, and for mVoipLock.
WaitsForLock(t) == pc[t] \in {"mute", "readLock", "inRemove"}
WaitsForVoipLock(t) == pc[t] \in {"outStandby", "inStandby"}

\* A thread that holds mLock waits for neither mutex: mVoipLock is always
\* taken first, and mLock is taken once.
LockOrder == \A t \in Threads : mLock = t => ~WaitsForLock(t) /\ ~WaitsForVoipLock(t)

\* The control thread is not in the destructor of the downlink.
NotClosingOut ==
    /\ pc[Control] \notin {"outStandby", "outForget", "outLost", "outEnd"}
    /\ after[Control] # "outEnd"

LEMMA NotClosingOutStep ==
    ASSUME "closeOut" \notin ControlOps, VoipInv, NotClosingOut, [Next]_vars
    PROVE  NotClosingOut'
<1> USE ThreadsDiffer DEF VoipInv, VoipTypeOK, NotClosingOut, Goto, CallSetup
<1>1. CASE OpenOut \/ SetMode \/ RemoveInput \/ (\E i \in Inputs : OpenIn(i) \/ CloseIn(i))
  BY <1>1 DEF OpenOut, SetMode, RemoveInput, OpenIn, CloseIn
<1>2. CASE CloseOut
  BY <1>2 DEF CloseOut, ControlCalls
<1>3. CASE PlaybackCall \/ OutWrite \/ OutStandbyCall
  BY <1>3 DEF PlaybackCall, OutWrite, OutStandbyCall, OutOpen, OutConfigFails, OutError,
              OutActive, OutSetsUp, OutDone
<1>4. ASSUME NEW i \in Inputs,
             ReadReopens(i) \/ ReadSetsUp(i) \/ InStandbyCall(i) \/ LockToReopen(i)
      PROVE  NotClosingOut'
  BY <1>4 DEF ReadReopens, ReadSetsUp, InStandbyCall, LockToReopen
<1>5. ASSUME NEW t \in Threads, SetupStep(t) PROVE NotClosingOut'
  BY <1>5 DEF SetupStep, CheckVoiceCall, SetVoipMode, MuteMic
<1>6. ASSUME NEW t \in {Control, Playback}, OutCall(t) PROVE NotClosingOut'
  BY <1>6 DEF OutCall, OutStandby, OutForget, OutStandbyEnd
<1>7. ASSUME NEW t \in {Control} \cup Inputs,
             InSet(t) \/ InOpen(t) \/ InConfigFails(t) \/ InActive(t) \/ InSetsUp(t)
      PROVE  NotClosingOut'
  BY <1>7 DEF InSet, InOpen, InConfigFails, InActive, InSetsUp
<1>8. ASSUME NEW t \in {Control} \cup Inputs,
             InError(t) \/ InFail(t) \/ InStandby(t) \/ InForget(t) \/ InStandbyEnd(t)
      PROVE  NotClosingOut'
  BY <1>8 DEF InError, InFail, InStandby, InForget, InStandbyEnd
<1>9. CASE UNCHANGED vars
  BY <1>9 DEF vars
<1> QED  BY <1>1, <1>2, <1>3, <1>4, <1>5, <1>6, <1>7, <1>8, <1>9
         DEF Next, NewCall, CallStep, InCall, CaptureCall

LEMMA HolderDoesNotWait == VoipInv /\ NotClosingOut => LockOrder
<1> SUFFICES ASSUME VoipInv, NotClosingOut, NEW t \in Threads, mLock = t
             PROVE  ~WaitsForLock(t) /\ ~WaitsForVoipLock(t)
  BY DEF LockOrder
<1>1. InLock(t)
  BY OwnershipByThread DEF VoipInv
<1>2. after[t] \in {"idle", "outDone", "outEnd", "inClosed"}
  BY DEF VoipInv, VoipTypeOK
<1> QED  BY <1>1, <1>2 DEF InLock, InSection, NotClosingOut, WaitsForLock, WaitsForVoipLock

-----------------------------------------------------------------------------
(* The theorems.                                                           *)

\* The variables of the stream pair are well typed (AudioStreamInVoip,
\* AudioStreamOutDirect).
THEOREM VoipTypeCorrect == Spec => []VoipTypeOK
BY VoipHolds, PTL DEF VoipInv

\* mLock and mVoipLock are held exactly by the threads between their lock and
\* their unlock, whatever fails (set, standby, setupDeviceforVoipCall).
THEOREM VoipLocksAreOwned == Spec => []VoipLockOwnership
BY VoipHolds, PTL DEF VoipInv

\* What a stream finds in mVoipFd is open, unless a thread is between its
\* close() and the assignment that says so (write, read, standby).
THEOREM SharedDescriptorIsOpen == Spec => []SharedDescriptorOpen
BY VoipHolds, PTL DEF VoipInv

\* As long as no downlink is closed, a thread that holds mLock waits for no
\* mutex: closeOutputStream(), which deletes the stream with mLock held, is the
\* only operation that can take part in a deadlock.
THEOREM OnlyCloseOutBreaksLockOrder ==
    ASSUME "closeOut" \notin ControlOps PROVE Spec => []LockOrder
<1>1. Init => NotClosingOut
  BY ThreadsDiffer DEF Init, NotClosingOut
<1>2. VoipInv /\ NotClosingOut /\ [Next]_vars => NotClosingOut'
  BY NotClosingOutStep
<1> QED  BY <1>1, <1>2, VoipHolds, HolderDoesNotWait, PTL DEF Spec

\* setMicMute(), which takes mLock, is then never called with mLock held, as its
\* comment asks.
THEOREM SetMicMuteIsUnlocked ==
    ASSUME "closeOut" \notin ControlOps PROVE Spec => []SetMicMuteWithoutLock
<1>1. LockOrder => SetMicMuteWithoutLock
  BY DEF LockOrder, WaitsForLock, SetMicMuteWithoutLock
<1> QED  BY <1>1, OnlyCloseOutBreaksLockOrder, PTL
=============================================================================
