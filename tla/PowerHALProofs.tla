--------------------------- MODULE PowerHALProofs ---------------------------
(***************************************************************************)
(* Safety of the power HAL for any threads, descriptors, governors and     *)
(* bounds.  The properties speak of the moments when nobody holds the lock;*)
(* the inductive invariant adds what the holder of the lock may find, and  *)
(* that a descriptor never belongs to an epoch still to come.              *)
(***************************************************************************)
EXTENDS PowerHAL, TLAPS

Critical == {"test", "open", "configure", "unlock", "close", "clear"}

LockOwner == \A t \in Threads : pc[t] \in Critical <=> lock = t

DescriptorOwned ==
    /\ (\A t \in Threads : pc[t] # "clear")
          => \A d \in Descriptors : file[d] \in Epochs <=> d = boostpulse_fd
    /\ \A t \in Threads : pc[t] = "clear" => \A d \in Descriptors : file[d] \notin Epochs
    /\ \A t \in Threads : pc[t] = "open" => boostpulse_fd = NoFd

PastEpochs == \A d \in Descriptors : file[d] <= epoch

FdCurrent == boostpulse_fd # NoFd /\ file[boostpulse_fd] = epoch

BeingConfigured ==
    /\ FdCurrent => epoch \in configured \/ \E t \in Threads : pc[t] = "configure"
    /\ \A t \in Threads : pc[t] = "configure" /\ FdCurrent
          => governor \in Tunable /\ governor = scaling

PowerInv ==
    /\ PowerTypeOK /\ LockOwner /\ DescriptorOwned
    /\ PastEpochs /\ BeingConfigured /\ ForeignDescriptorsKept

-----------------------------------------------------------------------------
(* Initially.                                                              *)

LEMMA PowerInit == Init => PowerInv
<1> SUFFICES ASSUME Init PROVE PowerInv
  OBVIOUS
<1> USE ThreadsAssumption, DescriptorsAssumption, GovernorsAssumption, BoundsAssumption
<1>1. PowerTypeOK
  <2>1. pc \in [Threads -> Locations] /\ arg \in [Threads -> Descriptors \cup {NoFd}]
    BY DEF Init, Locations
  <2>2. file \in [Descriptors -> Epochs \cup {Free, Foreign}]
    BY DEF Init
  <2>3. epoch \in Epochs /\ readFailures \in 0 .. MaxReadFailures
    BY DEF Init, Epochs
  <2> QED  BY <2>1, <2>2, <2>3, Zenon DEF Init, PowerTypeOK
<1>2. LockOwner
  BY DEF Init, LockOwner, Critical
<1>3. DescriptorOwned /\ PastEpochs /\ BeingConfigured /\ ForeignDescriptorsKept
  BY DEF Init, DescriptorOwned, PastEpochs, BeingConfigured, FdCurrent,
         ForeignDescriptorsKept, Epochs, Free, NoFd
<1> QED  BY <1>1, <1>2, <1>3 DEF PowerInv

-----------------------------------------------------------------------------
(* The variables keep their types.                                         *)

LEMMA PowerTypeStep == PowerTypeOK /\ [Next]_vars => PowerTypeOK'
<1> SUFFICES ASSUME PowerTypeOK, [Next]_vars PROVE PowerTypeOK'
  OBVIOUS
<1> USE BoundsAssumption DEF PowerTypeOK, hal, kernel, Locations, Epochs, Free, Foreign
<1>1. CASE InitReads
  BY <1>1 DEF InitReads, get_scaling_governor
<1>2. CASE InitConfigures
  BY <1>2 DEF InitConfigures, configure_governor
<1>3. ASSUME NEW t \in Threads, BeginHint(t) PROVE PowerTypeOK'
  BY <1>3 DEF BeginHint, Goto
<1>4. ASSUME NEW t \in Threads, LockForOpen(t) PROVE PowerTypeOK'
  BY <1>4 DEF LockForOpen, Goto
<1>5. ASSUME NEW t \in Threads, AlreadyOpen(t) PROVE PowerTypeOK'
  BY <1>5 DEF AlreadyOpen, Goto
<1>6. ASSUME NEW t \in Threads, ReadGovernor(t) PROVE PowerTypeOK'
  <2>1. PICK ok \in BOOLEAN :
          /\ pc' = [pc EXCEPT ![t] = IF ok THEN "open" ELSE "unlock"]
          /\ ok \/ readFailures < MaxReadFailures
          /\ governor' = IF ok THEN scaling ELSE governor
          /\ readFailures' = IF ok THEN readFailures ELSE readFailures + 1
          /\ boostpulse_warned' = IF ok THEN boostpulse_warned ELSE TRUE
    BY <1>6 DEF ReadGovernor, get_scaling_governor, Goto
  <2>2. boostpulse_warned' \in BOOLEAN
    BY <2>1, Zenon
  <2>3. pc' \in [Threads -> Locations]
    BY <2>1
  <2>4. boot = "done"
    BY <1>6 DEF ReadGovernor, Goto
  <2>5. governor' \in Governors \cup {Unread} /\ readFailures' \in 0 .. MaxReadFailures
    BY <2>1
  <2>6. UNCHANGED <<lock, boostpulse_fd, boot, arg, scaling, epoch, file, held,
                    configured, boosted>>
    BY <1>6 DEF ReadGovernor
  <2> QED  BY <2>2, <2>3, <2>4, <2>5, <2>6
<1>7. ASSUME NEW t \in Threads, OpenBoostpulse(t) PROVE PowerTypeOK'
  BY <1>7 DEF OpenBoostpulse, BoostpulseExists, FreeDescriptors, Goto
<1>8. ASSUME NEW t \in Threads, OpenFails(t) PROVE PowerTypeOK'
  BY <1>8 DEF OpenFails, Goto
<1>9. ASSUME NEW t \in Threads, Configure(t) PROVE PowerTypeOK'
  BY <1>9 DEF Configure, configure_governor, Goto
<1>10. ASSUME NEW t \in Threads, UnlockAfterOpen(t) PROVE PowerTypeOK'
  BY <1>10 DEF UnlockAfterOpen, Goto
<1>11. ASSUME NEW t \in Threads, CheckDescriptor(t) PROVE PowerTypeOK'
  BY <1>11 DEF CheckDescriptor, Goto
<1>12. ASSUME NEW t \in Threads, FetchDescriptor(t) PROVE PowerTypeOK'
  BY <1>12 DEF FetchDescriptor, Goto
<1>13. ASSUME NEW t \in Threads, WriteBoostpulse(t) PROVE PowerTypeOK'
  BY <1>13 DEF WriteBoostpulse, Goto
<1>14. ASSUME NEW t \in Threads, WriteFails(t) PROVE PowerTypeOK'
  BY <1>14 DEF WriteFails, Goto
<1>15. ASSUME NEW t \in Threads, LockForClose(t) PROVE PowerTypeOK'
  BY <1>15 DEF LockForClose, Goto
<1>16. ASSUME NEW t \in Threads, CloseBoostpulse(t) PROVE PowerTypeOK'
  BY <1>16 DEF CloseBoostpulse, Goto
<1>17. ASSUME NEW t \in Threads, ForgetBoostpulse(t) PROVE PowerTypeOK'
  BY <1>17 DEF ForgetBoostpulse, Goto
<1>18. ASSUME NEW d \in Descriptors, ForeignOpen(d) PROVE PowerTypeOK'
  BY <1>18 DEF ForeignOpen
<1>19. ASSUME NEW d \in Descriptors, ForeignClose(d) PROVE PowerTypeOK'
  BY <1>19 DEF ForeignClose
<1>20. CASE ChangeGovernor
  BY <1>20 DEF ChangeGovernor
<1>21. CASE UNCHANGED vars
  BY <1>21 DEF vars
<1> QED
  BY <1>1, <1>2, <1>3, <1>4, <1>5, <1>6, <1>7, <1>8, <1>9, <1>10, <1>11, <1>12, <1>13, <1>14, <1>15, <1>16, <1>17, <1>18, <1>19, <1>20, <1>21 DEF Next, HintStep

-----------------------------------------------------------------------------
(* The rest of the invariant.                                              *)

LEMMA LockStep == PowerTypeOK /\ LockOwner /\ [Next]_vars => LockOwner'
<1> SUFFICES ASSUME PowerTypeOK, LockOwner, [Next]_vars PROVE LockOwner'
  OBVIOUS
<1> USE ThreadsAssumption DEF PowerTypeOK, LockOwner, hal, kernel, Critical
<1>1. CASE InitReads
  BY <1>1 DEF InitReads, get_scaling_governor
<1>2. CASE InitConfigures
  BY <1>2 DEF InitConfigures, configure_governor
<1>3. ASSUME NEW t \in Threads, BeginHint(t) PROVE LockOwner'
  BY <1>3 DEF BeginHint, Goto
<1>4. ASSUME NEW t \in Threads, LockForOpen(t) PROVE LockOwner'
  BY <1>4 DEF LockForOpen, Goto
<1>5. ASSUME NEW t \in Threads, AlreadyOpen(t) PROVE LockOwner'
  BY <1>5 DEF AlreadyOpen, Goto
<1>6. ASSUME NEW t \in Threads, ReadGovernor(t) PROVE LockOwner'
  BY <1>6 DEF ReadGovernor, get_scaling_governor, Goto
<1>7. ASSUME NEW t \in Threads, OpenBoostpulse(t) PROVE LockOwner'
  BY <1>7 DEF OpenBoostpulse, BoostpulseExists, FreeDescriptors, Goto
<1>8. ASSUME NEW t \in Threads, OpenFails(t) PROVE LockOwner'
  BY <1>8 DEF OpenFails, Goto
<1>9. ASSUME NEW t \in Threads, Configure(t) PROVE LockOwner'
  BY <1>9 DEF Configure, configure_governor, Goto
<1>10. ASSUME NEW t \in Threads, UnlockAfterOpen(t) PROVE LockOwner'
  BY <1>10 DEF UnlockAfterOpen, Goto
<1>11. ASSUME NEW t \in Threads, CheckDescriptor(t) PROVE LockOwner'
  BY <1>11 DEF CheckDescriptor, Goto
<1>12. ASSUME NEW t \in Threads, FetchDescriptor(t) PROVE LockOwner'
  BY <1>12 DEF FetchDescriptor, Goto
<1>13. ASSUME NEW t \in Threads, WriteBoostpulse(t) PROVE LockOwner'
  BY <1>13 DEF WriteBoostpulse, Goto
<1>14. ASSUME NEW t \in Threads, WriteFails(t) PROVE LockOwner'
  BY <1>14 DEF WriteFails, Goto
<1>15. ASSUME NEW t \in Threads, LockForClose(t) PROVE LockOwner'
  BY <1>15 DEF LockForClose, Goto
<1>16. ASSUME NEW t \in Threads, CloseBoostpulse(t) PROVE LockOwner'
  BY <1>16 DEF CloseBoostpulse, Goto
<1>17. ASSUME NEW t \in Threads, ForgetBoostpulse(t) PROVE LockOwner'
  BY <1>17 DEF ForgetBoostpulse, Goto
<1>18. ASSUME NEW d \in Descriptors, ForeignOpen(d) PROVE LockOwner'
  BY <1>18 DEF ForeignOpen
<1>19. ASSUME NEW d \in Descriptors, ForeignClose(d) PROVE LockOwner'
  BY <1>19 DEF ForeignClose
<1>20. CASE ChangeGovernor
  BY <1>20 DEF ChangeGovernor
<1>21. CASE UNCHANGED vars
  BY <1>21 DEF vars
<1> QED
  BY <1>1, <1>2, <1>3, <1>4, <1>5, <1>6, <1>7, <1>8, <1>9, <1>10, <1>11, <1>12, <1>13, <1>14, <1>15, <1>16, <1>17, <1>18, <1>19, <1>20, <1>21 DEF Next, HintStep

LEMMA DescriptorStep == PowerInv /\ [Next]_vars
    => (DescriptorOwned /\ ForeignDescriptorsKept /\ PastEpochs)'
<1> DEFINE Goal == DescriptorOwned /\ ForeignDescriptorsKept /\ PastEpochs
<1> SUFFICES ASSUME PowerInv, [Next]_vars PROVE Goal'
  OBVIOUS
<1> USE ThreadsAssumption, DescriptorsAssumption, BoundsAssumption
    DEF PowerInv, PowerTypeOK, LockOwner, hal, kernel, Critical, Epochs, Free, Foreign, NoFd,
        DescriptorOwned, ForeignDescriptorsKept, PastEpochs
<1>1. CASE InitReads
  BY <1>1 DEF InitReads, get_scaling_governor
<1>2. CASE InitConfigures
  BY <1>2 DEF InitConfigures, configure_governor
<1>3. ASSUME NEW t \in Threads, BeginHint(t) PROVE Goal'
  BY <1>3 DEF BeginHint, Goto
<1>4. ASSUME NEW t \in Threads, LockForOpen(t) PROVE Goal'
  BY <1>4 DEF LockForOpen, Goto
<1>5. ASSUME NEW t \in Threads, AlreadyOpen(t) PROVE Goal'
  BY <1>5 DEF AlreadyOpen, Goto
<1>6. ASSUME NEW t \in Threads, ReadGovernor(t) PROVE Goal'
  BY <1>6 DEF ReadGovernor, get_scaling_governor, Goto
<1>7. ASSUME NEW t \in Threads, OpenBoostpulse(t) PROVE Goal'
  BY <1>7 DEF OpenBoostpulse, BoostpulseExists, FreeDescriptors, Goto
<1>8. ASSUME NEW t \in Threads, OpenFails(t) PROVE Goal'
  BY <1>8 DEF OpenFails, Goto
<1>9. ASSUME NEW t \in Threads, Configure(t) PROVE Goal'
  BY <1>9 DEF Configure, configure_governor, Goto
<1>10. ASSUME NEW t \in Threads, UnlockAfterOpen(t) PROVE Goal'
  BY <1>10 DEF UnlockAfterOpen, Goto
<1>11. ASSUME NEW t \in Threads, CheckDescriptor(t) PROVE Goal'
  BY <1>11 DEF CheckDescriptor, Goto
<1>12. ASSUME NEW t \in Threads, FetchDescriptor(t) PROVE Goal'
  BY <1>12 DEF FetchDescriptor, Goto
<1>13. ASSUME NEW t \in Threads, WriteBoostpulse(t) PROVE Goal'
  BY <1>13 DEF WriteBoostpulse, Goto
<1>14. ASSUME NEW t \in Threads, WriteFails(t) PROVE Goal'
  BY <1>14 DEF WriteFails, Goto
<1>15. ASSUME NEW t \in Threads, LockForClose(t) PROVE Goal'
  BY <1>15 DEF LockForClose, Goto
<1>16. ASSUME NEW t \in Threads, CloseBoostpulse(t) PROVE Goal'
  BY <1>16 DEF CloseBoostpulse, Goto
<1>17. ASSUME NEW t \in Threads, ForgetBoostpulse(t) PROVE Goal'
  BY <1>17 DEF ForgetBoostpulse, Goto
<1>18. ASSUME NEW d \in Descriptors, ForeignOpen(d) PROVE Goal'
  BY <1>18 DEF ForeignOpen
<1>19. ASSUME NEW d \in Descriptors, ForeignClose(d) PROVE Goal'
  BY <1>19 DEF ForeignClose
<1>20. CASE ChangeGovernor
  BY <1>20 DEF ChangeGovernor
<1>21. CASE UNCHANGED vars
  BY <1>21 DEF vars
<1> QED
  BY <1>1, <1>2, <1>3, <1>4, <1>5, <1>6, <1>7, <1>8, <1>9, <1>10, <1>11, <1>12, <1>13, <1>14, <1>15, <1>16, <1>17, <1>18, <1>19, <1>20, <1>21 DEF Next, HintStep

LEMMA ConfiguredStep == PowerInv /\ [Next]_vars => BeingConfigured'
<1> SUFFICES ASSUME PowerInv, [Next]_vars PROVE BeingConfigured'
  OBVIOUS
<1> USE ThreadsAssumption, DescriptorsAssumption, BoundsAssumption
    DEF PowerInv, PowerTypeOK, LockOwner, hal, kernel, Critical, Epochs, Free, Foreign, NoFd,
        DescriptorOwned, PastEpochs, FdCurrent, BeingConfigured
<1>1. CASE InitReads
  BY <1>1 DEF InitReads, get_scaling_governor
<1>2. CASE InitConfigures
  BY <1>2 DEF InitConfigures, configure_governor
<1>3. ASSUME NEW t \in Threads, BeginHint(t) PROVE BeingConfigured'
  BY <1>3 DEF BeginHint, Goto
<1>4. ASSUME NEW t \in Threads, LockForOpen(t) PROVE BeingConfigured'
  BY <1>4 DEF LockForOpen, Goto
<1>5. ASSUME NEW t \in Threads, AlreadyOpen(t) PROVE BeingConfigured'
  BY <1>5 DEF AlreadyOpen, Goto
<1>6. ASSUME NEW t \in Threads, ReadGovernor(t) PROVE BeingConfigured'
  BY <1>6 DEF ReadGovernor, get_scaling_governor, Goto
<1>7. ASSUME NEW t \in Threads, OpenBoostpulse(t) PROVE BeingConfigured'
  BY <1>7 DEF OpenBoostpulse, BoostpulseExists, FreeDescriptors, Goto
<1>8. ASSUME NEW t \in Threads, OpenFails(t) PROVE BeingConfigured'
  BY <1>8 DEF OpenFails, Goto
<1>9. ASSUME NEW t \in Threads, Configure(t) PROVE BeingConfigured'
  BY <1>9 DEF Configure, configure_governor, Goto
<1>10. ASSUME NEW t \in Threads, UnlockAfterOpen(t) PROVE BeingConfigured'
  BY <1>10 DEF UnlockAfterOpen, Goto
<1>11. ASSUME NEW t \in Threads, CheckDescriptor(t) PROVE BeingConfigured'
  BY <1>11 DEF CheckDescriptor, Goto
<1>12. ASSUME NEW t \in Threads, FetchDescriptor(t) PROVE BeingConfigured'
  BY <1>12 DEF FetchDescriptor, Goto
<1>13. ASSUME NEW t \in Threads, WriteBoostpulse(t) PROVE BeingConfigured'
  BY <1>13 DEF WriteBoostpulse, Goto
<1>14. ASSUME NEW t \in Threads, WriteFails(t) PROVE BeingConfigured'
  BY <1>14 DEF WriteFails, Goto
<1>15. ASSUME NEW t \in Threads, LockForClose(t) PROVE BeingConfigured'
  BY <1>15 DEF LockForClose, Goto
<1>16. ASSUME NEW t \in Threads, CloseBoostpulse(t) PROVE BeingConfigured'
  BY <1>16 DEF CloseBoostpulse, Goto
<1>17. ASSUME NEW t \in Threads, ForgetBoostpulse(t) PROVE BeingConfigured'
  BY <1>17 DEF ForgetBoostpulse, Goto
<1>18. ASSUME NEW d \in Descriptors, ForeignOpen(d) PROVE BeingConfigured'
  BY <1>18 DEF ForeignOpen
<1>19. ASSUME NEW d \in Descriptors, ForeignClose(d) PROVE BeingConfigured'
  BY <1>19 DEF ForeignClose
<1>20. CASE ChangeGovernor
  BY <1>20 DEF ChangeGovernor
<1>21. CASE UNCHANGED vars
  BY <1>21 DEF vars
<1> QED
  BY <1>1, <1>2, <1>3, <1>4, <1>5, <1>6, <1>7, <1>8, <1>9, <1>10, <1>11, <1>12, <1>13, <1>14, <1>15, <1>16, <1>17, <1>18, <1>19, <1>20, <1>21 DEF Next, HintStep

-----------------------------------------------------------------------------
(* The theorems.                                                           *)

\* PowerInv is an invariant of the power HAL.
THEOREM PowerCorrect == Spec => []PowerInv
<1>1. PowerInv /\ [Next]_vars => PowerInv'
  BY PowerTypeStep, LockStep, DescriptorStep, ConfiguredStep DEF PowerInv
<1> QED  BY PowerInit, <1>1, PTL DEF Spec

\* The variables of power.c and of the kernel are well typed, for any threads,
\* descriptors and governors, and hints only run after cm_power_init().
THEOREM PowerTypeCorrect == Spec => []PowerTypeOK
<1>1. PowerInv => PowerTypeOK
  BY DEF PowerInv
<1> QED  BY PowerCorrect, <1>1, PTL

\* boostpulse_open() and the error path of cm_power_hint() lose no descriptor
\* and keep no closed one, however many threads race.
THEOREM NoDescriptorIsLost == Spec => []NoDescriptorLost
<1>1. PowerInv => NoDescriptorLost
  <2> SUFFICES ASSUME PowerInv, lock = NoThread
               PROVE  BoostpulseDescriptors = {boostpulse_fd} \ {NoFd}
    BY DEF NoDescriptorLost
  <2>1. \A t \in Threads : pc[t] # "clear"
    BY ThreadsAssumption DEF PowerInv, LockOwner, Critical
  <2>2. \A d \in Descriptors : file[d] \in Epochs <=> d = boostpulse_fd
    BY <2>1 DEF PowerInv, DescriptorOwned
  <2>3. boostpulse_fd \in Descriptors \cup {NoFd} /\ NoFd \notin Descriptors
    BY DescriptorsAssumption DEF PowerInv, PowerTypeOK, NoFd
  <2> QED  BY <2>2, <2>3 DEF BoostpulseDescriptors
<1> QED  BY PowerCorrect, <1>1, PTL

\* cm_power_hint() never closes a descriptor of other code of the process.
THEOREM ForeignDescriptorsAreKept == Spec => []ForeignDescriptorsKept
<1>1. PowerInv => ForeignDescriptorsKept
  BY DEF PowerInv
<1> QED  BY PowerCorrect, <1>1, PTL

\* A published boostpulse descriptor of the governor in use belongs to a
\* configured governor.
THEOREM GovernorIsConfigured == Spec => []GovernorConfigured
<1>1. PowerInv => GovernorConfigured
  BY ThreadsAssumption
     DEF PowerInv, LockOwner, Critical, BeingConfigured, FdCurrent, GovernorConfigured
<1> QED  BY PowerCorrect, <1>1, PTL
=============================================================================
