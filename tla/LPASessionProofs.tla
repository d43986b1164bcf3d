-------------------------- MODULE LPASessionProofs --------------------------
(***************************************************************************)
(* Theorems about LPASession, for every set of buffers, every set of control*)
(* operations and, but for the last two theorems, every kind of fault; those*)
(* two name the faults under which they would be false.  SessionInv is      *)
(* inductive; it is built in layers, each of which uses the ones before:    *)
(* types, the owners of the mutexes, the queues, the teardown.  The         *)
(* refinement of BufferExchange follows from it step by step.               *)
(***************************************************************************)
EXTENDS LPASession, TLAPS

----------------------------------------------------------------------------
(* Types.                                                                    *)

(* An ioctl has an outcome.                                                  *)
LEMMA IoctlOutcomesType == IoctlOutcomes \in SUBSET BOOLEAN
BY DEF IoctlOutcomes

(* What each ioctl, and the hardware, leaves of the driver is a driver state.*)
LEMMA DriverTypes ==
  ASSUME DriverTypeOK
  PROVE  /\ \A ok \in BOOLEAN : AUDIO_START(ok) => DriverTypeOK'
         /\ \A ok \in BOOLEAN : AUDIO_STOP(ok) => DriverTypeOK'
         /\ \A ok, on \in BOOLEAN : AUDIO_PAUSE(ok, on) => DriverTypeOK'
         /\ \A r \in {"running", "paused"} : AUDIO_FLUSH(r) => DriverTypeOK'
         /\ \A ok \in BOOLEAN, b \in Buffers : AUDIO_ASYNC_WRITE(ok, b) => DriverTypeOK'
         /\ \A ok \in BOOLEAN : AUDIO_ABORT_GET_EVENT(ok) => DriverTypeOK'
         /\ HardwareStep => DriverTypeOK'
<1> USE DEF DriverTypeOK
<1>1. ASSUME NEW ok \in BOOLEAN, AUDIO_START(ok) PROVE DriverTypeOK'
  BY <1>1 DEF AUDIO_START
<1>2. ASSUME NEW ok \in BOOLEAN, AUDIO_STOP(ok) PROVE DriverTypeOK'
  <2>1. submitted \in Seq(Buffers \cup {Suspend})
    OBVIOUS
  <2> QED  BY <1>2, <2>1 DEF AUDIO_STOP
<1>3. ASSUME NEW ok \in BOOLEAN, NEW on \in BOOLEAN, AUDIO_PAUSE(ok, on) PROVE DriverTypeOK'
  BY <1>3 DEF AUDIO_PAUSE
<1>4. ASSUME NEW r \in {"running", "paused"}, AUDIO_FLUSH(r) PROVE DriverTypeOK'
  <2>1. submitted \in Seq(Buffers \cup {Suspend})
    OBVIOUS
  <2>2. events \o submitted \in Seq(Buffers \cup {Suspend})
    BY <2>1
  <2>3. events' \in Seq(Buffers \cup {Suspend})
    BY <1>4, <2>2, Zenon DEF AUDIO_FLUSH
  <2> QED  BY <1>4, <2>3 DEF AUDIO_FLUSH
<1>5. ASSUME NEW ok \in BOOLEAN, NEW b \in Buffers, AUDIO_ASYNC_WRITE(ok, b)
      PROVE  DriverTypeOK'
  BY <1>5 DEF AUDIO_ASYNC_WRITE
<1>6. ASSUME NEW ok \in BOOLEAN, AUDIO_ABORT_GET_EVENT(ok) PROVE DriverTypeOK'
  BY <1>6 DEF AUDIO_ABORT_GET_EVENT
<1>7. CASE Play
  BY <1>7 DEF Play
<1>8. CASE SuspendRequest
  BY <1>8 DEF SuspendRequest
<1> QED
  BY <1>1, <1>2, <1>3, <1>4, <1>5, <1>6, <1>7, <1>8 DEF HardwareStep

(* Types are preserved by every step.                                        *)
LEMMA TypeStep == TypeOK /\ [Next]_vars => TypeOK'
<1> SUFFICES ASSUME TypeOK, [Next]_vars
             PROVE  TypeOK'
  OBVIOUS
<1> USE  DEF TypeOK, ThreadsOK, QueuesOK, WriterPCs, ControllerPCs, EventPCs, Sizes, Flags, Marks,
      Nobody, Writer, Controller, EventThread, NoBuffer,
      driverVars, pcVars, callVars, lockVars, queueVars, history
<1>1. CASE IsBufferAvailable
  BY <1>1 DEF IsBufferAvailable, DriverTypeOK
<1>2. CASE SpuriousWakeup
  BY <1>2 DEF SpuriousWakeup, DriverTypeOK
<1>3. ASSUME NEW size \in Sizes, BeginWrite(size)
      PROVE  TypeOK'
  BY <1>3 DEF BeginWrite, DriverTypeOK
<1>4. CASE WaitForBuffer
  BY <1>4 DEF WaitForBuffer, DriverTypeOK
<1>5. CASE CheckSkipAfterWait
  BY <1>5 DEF CheckSkipAfterWait, DriverTypeOK
<1>6. CASE DequeueBuffer
  BY <1>6 DEF DequeueBuffer, DriverTypeOK
<1>7. CASE PostEOSFromWrite
  BY <1>7 DEF PostEOSFromWrite, OnePostMore, DriverTypeOK
<1>8. CASE EnqueueFilled
  BY <1>8 DEF EnqueueFilled, DriverTypeOK
<1>9. CASE SubmitToDriver
  <2>1. CASE mIsDriverStarted \in flags
    <3>1. PICK ok \in IoctlOutcomes, b \in wbuf : AUDIO_ASYNC_WRITE(ok, b)
      BY <1>9, <2>1 DEF SubmitToDriver
    <3>2. DriverTypeOK'
      BY <3>1, DriverTypes, IoctlOutcomesType
    <3> QED  BY <1>9, <3>2 DEF SubmitToDriver
  <2>2. CASE mIsDriverStarted \notin flags
    BY <1>9, <2>2 DEF SubmitToDriver, DriverTypeOK
  <2> QED  BY <2>1, <2>2
<1>10. CASE MarkLastBuffer
  BY <1>10 DEF MarkLastBuffer, DriverTypeOK
<1>11. CASE EventThreadEntry
  BY <1>11 DEF EventThreadEntry, DriverTypeOK
<1>12. CASE CallGetEvent
  BY <1>12 DEF CallGetEvent, DriverTypeOK
<1>13. CASE FetchEvent
  BY <1>13 DEF FetchEvent, HandlerOf, DriverTypeOK
<1>14. CASE FetchInterrupted
  BY <1>14 DEF FetchInterrupted, HandlerOf, DriverTypeOK
<1>15. CASE FetchAborted
  BY <1>15 DEF FetchAborted, DriverTypeOK
<1>16. CASE EventThreadExit
  BY <1>16 DEF EventThreadExit, DriverTypeOK
<1>17. CASE LockForWriteDone
  BY <1>17 DEF LockForWriteDone, DriverTypeOK
<1>18. CASE IgnoreWriteDone
  BY <1>18 DEF IgnoreWriteDone, Signalled, DriverTypeOK
<1>19. CASE WriteDone
  BY <1>19 DEF WriteDone, RecycleBuffer, Signalled, EndOfStream, DriverTypeOK
<1>20. CASE WriteDoneAtEnd
  BY <1>20 DEF WriteDoneAtEnd, RecycleBuffer, EndOfStream, DriverTypeOK
<1>21. CASE PostEOSFromEvent
  BY <1>21 DEF PostEOSFromEvent, OnePostMore, Signalled, DriverTypeOK
<1>22. CASE SuspendSession
  BY <1>22 DEF SuspendSession, AUDIO_STOP, DriverTypeOK
<1>23. CASE SuspendNoted
  BY <1>23 DEF SuspendNoted, DriverTypeOK
<1>24. CASE SetObserver
  BY <1>24 DEF SetObserver, DriverTypeOK
<1>25. CASE Pause
  BY <1>25 DEF Pause, AUDIO_PAUSE, DriverTypeOK
<1>26. CASE PauseNoted
  BY <1>26 DEF PauseNoted, DriverTypeOK
<1>27. CASE Start
  BY <1>27 DEF Start, DriverTypeOK
<1>28. CASE ResumeDriver
  BY <1>28 DEF ResumeDriver, AUDIO_PAUSE, DriverTypeOK
<1>29. CASE ConfigFails
  BY <1>29 DEF ConfigFails, DriverTypeOK
<1>30. CASE StartDriver
  BY <1>30 DEF StartDriver, AUDIO_START, DriverTypeOK
<1>31. CASE StartNoted
  BY <1>31 DEF StartNoted, DriverTypeOK
<1>32. CASE Flush
  BY <1>32 DEF Flush, DriverTypeOK
<1>33. CASE FlushQueues
  BY <1>33 DEF FlushQueues, DriverTypeOK
<1>34. CASE FlushDriver
  <2>1. DriverTypeOK'
    <3>1. CASE FlushSucceeds
      BY <3>1, DriverTypes DEF FlushSucceeds, DriverTypeOK
    <3>2. CASE FlushFails
      BY <3>2, DriverTypes DEF FlushFails, DriverTypeOK
    <3> QED  BY <1>34, <3>1, <3>2 DEF FlushDriver
  <2>2. flags' \in SUBSET Flags /\ wpc' \in WriterPCs
    BY <1>34 DEF FlushDriver, FlushSucceeds, FlushFails, Signalled
  <2> QED  BY <1>34, <2>1, <2>2 DEF FlushDriver
<1>35. CASE Stop
  BY <1>35 DEF Stop, Signalled, DriverTypeOK
<1>36. CASE Destroy
  BY <1>36 DEF Destroy, Signalled, DriverTypeOK
<1>37. CASE Reset
  BY <1>37 DEF Reset, AUDIO_STOP, DriverTypeOK
<1>38. CASE ResetNoted
  BY <1>38 DEF ResetNoted, DriverTypeOK
<1>39. CASE RequestEventThreadExit
  BY <1>39 DEF RequestEventThreadExit, AUDIO_ABORT_GET_EVENT, DriverTypeOK
<1>40. CASE JoinEventThread
  BY <1>40 DEF JoinEventThread, DriverTypeOK
<1>41. CASE FreeEmptyQueue
  BY <1>41 DEF FreeEmptyQueue, DriverTypeOK
<1>42. CASE FreeFilledQueue
  BY <1>42 DEF FreeFilledQueue, DriverTypeOK
<1>43. CASE Hardware
  BY <1>43, DriverTypes DEF Hardware
<1>44. CASE UNCHANGED vars
  BY <1>44 DEF vars, driverVars, pcVars, callVars, lockVars, queueVars, history,
      DriverTypeOK
<1> QED
  BY <1>1, <1>2, <1>3, <1>4, <1>5, <1>6, <1>7, <1>8, <1>9, <1>10, <1>11,
      <1>12, <1>13, <1>14, <1>15, <1>16, <1>17, <1>18, <1>19, <1>20, <1>21, <1>22,
      <1>23, <1>24, <1>25, <1>26, <1>27, <1>28, <1>29, <1>30, <1>31, <1>32, <1>33,
      <1>34, <1>35, <1>36, <1>37, <1>38, <1>39, <1>40, <1>41, <1>42, <1>43, <1>44
     DEF Next, WriterStep, WriterCall, EventThreadStep, ControllerStep, ControlCall, Finished

(* Init is in the types.                                                     *)
LEMMA TypeInit == Init => TypeOK
BY SessionAssumption
   DEF Init, DeviceOpened, bufferAlloc, DriverTypeOK, TypeOK, ThreadsOK, QueuesOK, WriterPCs, ControllerPCs,
       EventPCs, Sizes, Flags, Marks, Nobody, Writer, Controller, EventThread, NoBuffer

(* Every variable keeps its type, whatever the client, the driver and the    *)
(* faults do: in particular write() never has more than buffers in hand and  *)
(* a failing ioctl leaves no half-updated member.                            *)
THEOREM TypeCorrect == Spec => []TypeOK
BY TypeInit, TypeStep, PTL DEF Spec


----------------------------------------------------------------------------
(* The owners of the mutexes.                                                *)

LEMMA LockStep == LockOwnership /\ [Next]_vars => LockOwnership'
<1> SUFFICES ASSUME LockOwnership, [Next]_vars
             PROVE  LockOwnership'
  OBVIOUS
<1> USE DEF LockOwnership, Nobody, Writer, Controller, EventThread,
            driverVars, pcVars, callVars, lockVars, queueVars, history
<1>1. CASE IsBufferAvailable
  BY <1>1 DEF IsBufferAvailable
<1>2. CASE SpuriousWakeup
  BY <1>2 DEF SpuriousWakeup
<1>3. ASSUME NEW size \in Sizes, BeginWrite(size)
      PROVE  LockOwnership'
  BY <1>3 DEF BeginWrite
<1>4. CASE WaitForBuffer
  BY <1>4 DEF WaitForBuffer
<1>5. CASE CheckSkipAfterWait
  BY <1>5 DEF CheckSkipAfterWait
<1>6. CASE DequeueBuffer
  BY <1>6 DEF DequeueBuffer
<1>7. CASE PostEOSFromWrite
  BY <1>7 DEF PostEOSFromWrite, OnePostMore
<1>8. CASE EnqueueFilled
  BY <1>8 DEF EnqueueFilled
<1>9. CASE SubmitToDriver
  BY <1>9 DEF SubmitToDriver, AUDIO_ASYNC_WRITE
<1>10. CASE MarkLastBuffer
  BY <1>10 DEF MarkLastBuffer
<1>11. CASE EventThreadEntry
  BY <1>11 DEF EventThreadEntry
<1>12. CASE CallGetEvent
  BY <1>12 DEF CallGetEvent
<1>13. CASE FetchEvent
  BY <1>13 DEF FetchEvent, HandlerOf
<1>14. CASE FetchInterrupted
  BY <1>14 DEF FetchInterrupted, HandlerOf
<1>15. CASE FetchAborted
  BY <1>15 DEF FetchAborted
<1>16. CASE EventThreadExit
  BY <1>16 DEF EventThreadExit
<1>17. CASE LockForWriteDone
  BY <1>17 DEF LockForWriteDone
<1>18. CASE IgnoreWriteDone
  BY <1>18 DEF IgnoreWriteDone, Signalled
<1>19. CASE WriteDone
  BY <1>19 DEF WriteDone, RecycleBuffer, Signalled, EndOfStream
<1>20. CASE WriteDoneAtEnd
  BY <1>20 DEF WriteDoneAtEnd, RecycleBuffer, EndOfStream
<1>21. CASE PostEOSFromEvent
  BY <1>21 DEF PostEOSFromEvent, OnePostMore, Signalled
<1>22. CASE SuspendSession
  BY <1>22 DEF SuspendSession, AUDIO_STOP
<1>23. CASE SuspendNoted
  BY <1>23 DEF SuspendNoted
<1>24. CASE SetObserver
  BY <1>24 DEF SetObserver
<1>25. CASE Pause
  BY <1>25 DEF Pause, AUDIO_PAUSE
<1>26. CASE PauseNoted
  BY <1>26 DEF PauseNoted
<1>27. CASE Start
  BY <1>27 DEF Start
<1>28. CASE ResumeDriver
  BY <1>28 DEF ResumeDriver, AUDIO_PAUSE
<1>29. CASE ConfigFails
  BY <1>29 DEF ConfigFails
<1>30. CASE StartDriver
  BY <1>30 DEF StartDriver, AUDIO_START
<1>31. CASE StartNoted
  BY <1>31 DEF StartNoted
<1>32. CASE Flush
  BY <1>32 DEF Flush
<1>33. CASE FlushQueues
  BY <1>33 DEF FlushQueues
<1>34. CASE FlushDriver
  BY <1>34 DEF FlushDriver, FlushSucceeds, FlushFails, Signalled
<1>35. CASE Stop
  BY <1>35 DEF Stop, Signalled
<1>36. CASE Destroy
  BY <1>36 DEF Destroy, Signalled
<1>37. CASE Reset
  BY <1>37 DEF Reset, AUDIO_STOP
<1>38. CASE ResetNoted
  BY <1>38 DEF ResetNoted
<1>39. CASE RequestEventThreadExit
  BY <1>39 DEF RequestEventThreadExit, AUDIO_ABORT_GET_EVENT
<1>40. CASE JoinEventThread
  BY <1>40 DEF JoinEventThread
<1>41. CASE FreeEmptyQueue
  BY <1>41 DEF FreeEmptyQueue
<1>42. CASE FreeFilledQueue
  BY <1>42 DEF FreeFilledQueue
<1>43. CASE Hardware
  BY <1>43 DEF Hardware, HardwareStep, Play, SuspendRequest
<1>44. CASE UNCHANGED vars
  BY <1>44 DEF vars, driverVars, pcVars, callVars, lockVars, queueVars, history
<1> QED
  BY <1>1, <1>2, <1>3, <1>4, <1>5, <1>6, <1>7, <1>8, <1>9, <1>10, <1>11,
      <1>12, <1>13, <1>14, <1>15, <1>16, <1>17, <1>18, <1>19, <1>20, <1>21, <1>22,
      <1>23, <1>24, <1>25, <1>26, <1>27, <1>28, <1>29, <1>30, <1>31, <1>32, <1>33,
      <1>34, <1>35, <1>36, <1>37, <1>38, <1>39, <1>40, <1>41, <1>42, <1>43, <1>44
     DEF Next, WriterStep, WriterCall, EventThreadStep, ControllerStep, ControlCall, Finished

LEMMA LockInit == Init => LockOwnership
BY DEF Init, LockOwnership, Nobody, Writer, Controller, EventThread

(* No thread ever returns from a call, or waits on mWriteCv, with a mutex    *)
(* still locked, and none runs a critical section without it.                *)
THEOREM LocksCorrect == Spec => []LockOwnership
BY LockInit, LockStep, PTL DEF Spec

----------------------------------------------------------------------------
(* The buffers.                                                              *)

LEMMA QueueStep ==
  TypeOK /\ LockOwnership /\ QueueInv /\ [Next]_vars => QueueInv'
<1> SUFFICES ASSUME TypeOK, LockOwnership, QueueInv, [Next]_vars
             PROVE  QueueInv'
  OBVIOUS
<1> USE DEF QueueInv, BufferConservation, BufferInHand, DrainedAtEOS, ReleasedLast,
            InHand, Live, LockOwnership, Nobody, Writer, Controller, EventThread, NoBuffer,
            driverVars, pcVars, callVars, lockVars, queueVars, history
<1>1. CASE IsBufferAvailable
  BY <1>1 DEF IsBufferAvailable
<1>2. CASE SpuriousWakeup
  BY <1>2 DEF SpuriousWakeup
<1>3. ASSUME NEW size \in Sizes, BeginWrite(size)
      PROVE  QueueInv'
  BY <1>3 DEF BeginWrite
<1>4. CASE WaitForBuffer
  BY <1>4 DEF WaitForBuffer
<1>5. CASE CheckSkipAfterWait
  BY <1>5 DEF CheckSkipAfterWait
<1>6. CASE DequeueBuffer
  BY <1>6 DEF DequeueBuffer
<1>7. CASE PostEOSFromWrite
  BY <1>7 DEF PostEOSFromWrite, OnePostMore
<1>8. CASE EnqueueFilled
  BY <1>8 DEF EnqueueFilled
<1>9. CASE SubmitToDriver
  BY <1>9 DEF SubmitToDriver, AUDIO_ASYNC_WRITE
<1>10. CASE MarkLastBuffer
  BY <1>10 DEF MarkLastBuffer
<1>11. CASE EventThreadEntry
  BY <1>11 DEF EventThreadEntry
<1>12. CASE CallGetEvent
  BY <1>12 DEF CallGetEvent
<1>13. CASE FetchEvent
  BY <1>13 DEF FetchEvent, HandlerOf
<1>14. CASE FetchInterrupted
  BY <1>14 DEF FetchInterrupted, HandlerOf
<1>15. CASE FetchAborted
  BY <1>15 DEF FetchAborted
<1>16. CASE EventThreadExit
  BY <1>16 DEF EventThreadExit
<1>17. CASE LockForWriteDone
  BY <1>17 DEF LockForWriteDone
<1>18. CASE IgnoreWriteDone
  BY <1>18 DEF IgnoreWriteDone, Signalled
<1>19. CASE WriteDone
  BY <1>19 DEF WriteDone, RecycleBuffer, Signalled, EndOfStream
<1>20. CASE WriteDoneAtEnd
  BY <1>20 DEF WriteDoneAtEnd, RecycleBuffer, EndOfStream
<1>21. CASE PostEOSFromEvent
  BY <1>21 DEF PostEOSFromEvent, OnePostMore, Signalled
<1>22. CASE SuspendSession
  BY <1>22 DEF SuspendSession, AUDIO_STOP
<1>23. CASE SuspendNoted
  BY <1>23 DEF SuspendNoted
<1>24. CASE SetObserver
  BY <1>24 DEF SetObserver
<1>25. CASE Pause
  BY <1>25 DEF Pause, AUDIO_PAUSE
<1>26. CASE PauseNoted
  BY <1>26 DEF PauseNoted
<1>27. CASE Start
  BY <1>27 DEF Start
<1>28. CASE ResumeDriver
  BY <1>28 DEF ResumeDriver, AUDIO_PAUSE
<1>29. CASE ConfigFails
  BY <1>29 DEF ConfigFails
<1>30. CASE StartDriver
  BY <1>30 DEF StartDriver, AUDIO_START
<1>31. CASE StartNoted
  BY <1>31 DEF StartNoted
<1>32. CASE Flush
  BY <1>32 DEF Flush
<1>33. CASE FlushQueues
  BY <1>33 DEF FlushQueues
<1>34. CASE FlushDriver
  BY <1>34 DEF FlushDriver, FlushSucceeds, FlushFails, Signalled
<1>35. CASE Stop
  BY <1>35 DEF Stop, Signalled
<1>36. CASE Destroy
  BY <1>36 DEF Destroy, Signalled
<1>37. CASE Reset
  BY <1>37 DEF Reset, AUDIO_STOP
<1>38. CASE ResetNoted
  BY <1>38 DEF ResetNoted
<1>39. CASE RequestEventThreadExit
  BY <1>39 DEF RequestEventThreadExit, AUDIO_ABORT_GET_EVENT
<1>40. CASE JoinEventThread
  BY <1>40 DEF JoinEventThread
<1>41. CASE FreeEmptyQueue
  BY <1>41 DEF FreeEmptyQueue
<1>42. CASE FreeFilledQueue
  BY <1>42 DEF FreeFilledQueue
<1>43. CASE Hardware
  BY <1>43 DEF Hardware, HardwareStep, Play, SuspendRequest
<1>44. CASE UNCHANGED vars
  BY <1>44 DEF vars, driverVars, pcVars, callVars, lockVars, queueVars, history
<1> QED
  BY <1>1, <1>2, <1>3, <1>4, <1>5, <1>6, <1>7, <1>8, <1>9, <1>10, <1>11,
      <1>12, <1>13, <1>14, <1>15, <1>16, <1>17, <1>18, <1>19, <1>20, <1>21, <1>22,
      <1>23, <1>24, <1>25, <1>26, <1>27, <1>28, <1>29, <1>30, <1>31, <1>32, <1>33,
      <1>34, <1>35, <1>36, <1>37, <1>38, <1>39, <1>40, <1>41, <1>42, <1>43, <1>44
     DEF Next, WriterStep, WriterCall, EventThreadStep, ControllerStep, ControlCall, Finished

LEMMA QueueInit == Init => QueueInv
BY DEF Init, bufferAlloc, QueueInv, BufferConservation, BufferInHand, DrainedAtEOS,
       ReleasedLast, InHand, Live

(* No buffer is lost or doubled, however write(), flush(), the event thread  *)
(* and the destructor interleave and whichever ioctls fail.                  *)
THEOREM BuffersConserved == Spec => []BufferConservation
<1>1. TypeOK /\ LockOwnership /\ QueueInv /\ [Next]_vars => (TypeOK /\ LockOwnership /\ QueueInv)'
  BY TypeStep, LockStep, QueueStep
<1>2. Init => TypeOK /\ LockOwnership /\ QueueInv
  BY TypeInit, LockInit, QueueInit
<1>3. QueueInv => BufferConservation
  BY DEF QueueInv
<1> QED  BY <1>1, <1>2, <1>3, PTL DEF Spec

----------------------------------------------------------------------------
(* The teardown.                                                             *)

LEMMA TeardownStep == TeardownInv /\ [Next]_vars => TeardownInv'
<1> SUFFICES ASSUME TeardownInv, [Next]_vars
             PROVE  TeardownInv'
  OBVIOUS
<1> USE DEF TeardownInv, TeardownQuiescent, DeadIsDeclaredLast,
            mPaused, mIsDriverStarted, mGenerateEOS, mReachedEOS, mSkipWrite,
            mEosEventReceived, mEventThreadAlive, mKillEventThread, mObserver,
            driverVars, pcVars, callVars, lockVars, queueVars, history
<1>1. CASE IsBufferAvailable
  BY <1>1 DEF IsBufferAvailable
<1>2. CASE SpuriousWakeup
  BY <1>2 DEF SpuriousWakeup
<1>3. ASSUME NEW size \in Sizes, BeginWrite(size)
      PROVE  TeardownInv'
  BY <1>3 DEF BeginWrite
<1>4. CASE WaitForBuffer
  BY <1>4 DEF WaitForBuffer
<1>5. CASE CheckSkipAfterWait
  BY <1>5 DEF CheckSkipAfterWait
<1>6. CASE DequeueBuffer
  BY <1>6 DEF DequeueBuffer
<1>7. CASE PostEOSFromWrite
  BY <1>7 DEF PostEOSFromWrite, OnePostMore
<1>8. CASE EnqueueFilled
  BY <1>8 DEF EnqueueFilled
<1>9. CASE SubmitToDriver
  BY <1>9 DEF SubmitToDriver, AUDIO_ASYNC_WRITE
<1>10. CASE MarkLastBuffer
  BY <1>10 DEF MarkLastBuffer
<1>11. CASE EventThreadEntry
  BY <1>11 DEF EventThreadEntry
<1>12. CASE CallGetEvent
  BY <1>12 DEF CallGetEvent
<1>13. CASE FetchEvent
  BY <1>13 DEF FetchEvent, HandlerOf
<1>14. CASE FetchInterrupted
  BY <1>14 DEF FetchInterrupted, HandlerOf
<1>15. CASE FetchAborted
  BY <1>15 DEF FetchAborted
<1>16. CASE EventThreadExit
  BY <1>16 DEF EventThreadExit
<1>17. CASE LockForWriteDone
  BY <1>17 DEF LockForWriteDone
<1>18. CASE IgnoreWriteDone
  BY <1>18 DEF IgnoreWriteDone, Signalled
<1>19. CASE WriteDone
  BY <1>19 DEF WriteDone, RecycleBuffer, Signalled, EndOfStream
<1>20. CASE WriteDoneAtEnd
  BY <1>20 DEF WriteDoneAtEnd, RecycleBuffer, EndOfStream
<1>21. CASE PostEOSFromEvent
  BY <1>21 DEF PostEOSFromEvent, OnePostMore, Signalled
<1>22. CASE SuspendSession
  BY <1>22 DEF SuspendSession, AUDIO_STOP
<1>23. CASE SuspendNoted
  BY <1>23 DEF SuspendNoted
<1>24. CASE SetObserver
  BY <1>24 DEF SetObserver
<1>25. CASE Pause
  BY <1>25 DEF Pause, AUDIO_PAUSE
<1>26. CASE PauseNoted
  BY <1>26 DEF PauseNoted
<1>27. CASE Start
  BY <1>27 DEF Start
<1>28. CASE ResumeDriver
  BY <1>28 DEF ResumeDriver, AUDIO_PAUSE
<1>29. CASE ConfigFails
  BY <1>29 DEF ConfigFails
<1>30. CASE StartDriver
  BY <1>30 DEF StartDriver, AUDIO_START
<1>31. CASE StartNoted
  BY <1>31 DEF StartNoted
<1>32. CASE Flush
  BY <1>32 DEF Flush
<1>33. CASE FlushQueues
  BY <1>33 DEF FlushQueues
<1>34. CASE FlushDriver
  BY <1>34 DEF FlushDriver, FlushSucceeds, FlushFails
<1>35. CASE Stop
  BY <1>35 DEF Stop, Signalled
<1>36. CASE Destroy
  BY <1>36 DEF Destroy, Signalled
<1>37. CASE Reset
  BY <1>37 DEF Reset, AUDIO_STOP
<1>38. CASE ResetNoted
  BY <1>38 DEF ResetNoted
<1>39. CASE RequestEventThreadExit
  BY <1>39 DEF RequestEventThreadExit, AUDIO_ABORT_GET_EVENT
<1>40. CASE JoinEventThread
  BY <1>40 DEF JoinEventThread
<1>41. CASE FreeEmptyQueue
  BY <1>41 DEF FreeEmptyQueue
<1>42. CASE FreeFilledQueue
  BY <1>42 DEF FreeFilledQueue
<1>43. CASE Hardware
  BY <1>43 DEF Hardware, HardwareStep, Play, SuspendRequest
<1>44. CASE UNCHANGED vars
  BY <1>44 DEF vars, driverVars, pcVars, callVars, lockVars, queueVars, history
<1> QED
  BY <1>1, <1>2, <1>3, <1>4, <1>5, <1>6, <1>7, <1>8, <1>9, <1>10, <1>11,
      <1>12, <1>13, <1>14, <1>15, <1>16, <1>17, <1>18, <1>19, <1>20, <1>21, <1>22,
      <1>23, <1>24, <1>25, <1>26, <1>27, <1>28, <1>29, <1>30, <1>31, <1>32, <1>33,
      <1>34, <1>35, <1>36, <1>37, <1>38, <1>39, <1>40, <1>41, <1>42, <1>43, <1>44
     DEF Next, WriterStep, WriterCall, EventThreadStep, ControllerStep, ControlCall, Finished

LEMMA TeardownInit == Init => TeardownInv
BY DEF Init, DeviceOpened, TeardownInv, TeardownQuiescent, DeadIsDeclaredLast,
       mEventThreadAlive, mGenerateEOS, mIsDriverStarted

(* When bufferDeAlloc() frees a queue the event thread has ended, also when  *)
(* requestAndWaitForEventThreadExit() returned early without joining it.     *)
THEOREM TeardownIsQuiescent == Spec => []TeardownQuiescent
<1>1. TeardownInv => TeardownQuiescent
  BY DEF TeardownInv
<1> QED  BY <1>1, TeardownInit, TeardownStep, PTL DEF Spec

(* All of it together.                                                       *)
THEOREM SessionCorrect == Spec => []SessionInv
<1>1. SessionInv /\ [Next]_vars => SessionInv'
  BY TypeStep, LockStep, QueueStep, TeardownStep DEF SessionInv
<1>2. Init => SessionInv
  BY TypeInit, LockInit, QueueInit, TeardownInit DEF SessionInv
<1> QED  BY <1>1, <1>2, PTL DEF Spec

----------------------------------------------------------------------------
(* The refinement.                                                           *)

LEMMA ExchangeInit == Init => Exchange!Init
BY DEF Init, bufferAlloc, InHand, Exchange!Init

(* The count of EOS posts goes up to 2 and no further.                       *)
LEMMA OneMore ==
  TypeOK => /\ posted \in {posted, posted + 1} \cap (0..2)
            /\ OnePostMore \in {posted, posted + 1} \cap (0..2)
<1> SUFFICES ASSUME posted \in 0..2
             PROVE  /\ posted \in {posted, posted + 1} \cap (0..2)
                    /\ OnePostMore \in {posted, posted + 1} \cap (0..2)
  BY DEF TypeOK
<1>1. posted = 0 \/ posted = 1 \/ posted = 2
  OBVIOUS
<1>2. CASE posted = 0
  <2>1. OnePostMore = 1
    BY <1>2 DEF OnePostMore
  <2> QED  BY <1>2, <2>1
<1>3. CASE posted = 1
  <2>1. OnePostMore = 2
    BY <1>3 DEF OnePostMore
  <2> QED  BY <1>3, <2>1
<1>4. CASE posted = 2
  <2>1. OnePostMore = 2
    BY <1>4 DEF OnePostMore
  <2> QED  BY <1>4, <2>1
<1> QED  BY <1>1, <1>2, <1>3, <1>4

LEMMA ExchangeStep ==
  TypeOK /\ LockOwnership /\ QueueInv /\ [Next]_vars => [Exchange!Next]_(Exchange!vars)
<1> SUFFICES ASSUME TypeOK, LockOwnership, QueueInv, [Next]_vars
             PROVE  Exchange!Next \/ UNCHANGED Exchange!vars
  OBVIOUS
<1> USE DEF InHand, NoBuffer, driverVars, pcVars, callVars, lockVars, queueVars, history, Exchange!vars
<1>1. CASE IsBufferAvailable
  BY <1>1 DEF IsBufferAvailable
<1>2. CASE SpuriousWakeup
  BY <1>2 DEF SpuriousWakeup
<1>3. ASSUME NEW size \in Sizes, BeginWrite(size)
      PROVE  Exchange!Next \/ UNCHANGED Exchange!vars
  BY <1>3 DEF BeginWrite
<1>4. CASE WaitForBuffer
  BY <1>4 DEF WaitForBuffer
<1>5. CASE CheckSkipAfterWait
  BY <1>5 DEF CheckSkipAfterWait
<1>6. CASE DequeueBuffer
  <2>1. CASE wpc' = "fill"
    <3>1. PICK b \in mEmptyQueue : wbuf' = {b} /\ mEmptyQueue' = mEmptyQueue \ {b}
      BY <1>6, <2>1 DEF DequeueBuffer
    <3>2. Exchange!Take(b)
      BY <1>6, <2>1, <3>1 DEF DequeueBuffer, Exchange!Take
    <3> QED  BY <3>1, <3>2 DEF Exchange!Next, TypeOK, QueuesOK
  <2>2. CASE wpc' # "fill"
    BY <1>6, <2>2 DEF DequeueBuffer
  <2> QED  BY <2>1, <2>2
<1>7. CASE PostEOSFromWrite
  <2>1. CASE mFilledQueue = {} /\ mEosEventReceived \notin flags
    <3>1. posted' \in {posted, posted + 1} \cap (0..2)
      BY <1>7, <2>1, OneMore DEF PostEOSFromWrite
    <3>2. Exchange!AnnounceEnd
      BY <1>7, <2>1, <3>1 DEF PostEOSFromWrite, Exchange!AnnounceEnd
    <3> QED  BY <3>2 DEF Exchange!Next
  <2>2. CASE ~(mFilledQueue = {} /\ mEosEventReceived \notin flags)
    BY <1>7, <2>2 DEF PostEOSFromWrite
  <2> QED  BY <2>1, <2>2
<1>8. CASE EnqueueFilled
  BY <1>8 DEF EnqueueFilled, QueueInv, BufferInHand, Exchange!Fill, Exchange!Next
<1>9. CASE SubmitToDriver
  BY <1>9 DEF SubmitToDriver, AUDIO_ASYNC_WRITE
<1>10. CASE MarkLastBuffer
  BY <1>10 DEF MarkLastBuffer
<1>11. CASE EventThreadEntry
  BY <1>11 DEF EventThreadEntry
<1>12. CASE CallGetEvent
  BY <1>12 DEF CallGetEvent
<1>13. CASE FetchEvent
  BY <1>13 DEF FetchEvent, HandlerOf
<1>14. CASE FetchInterrupted
  BY <1>14 DEF FetchInterrupted, HandlerOf
<1>15. CASE FetchAborted
  BY <1>15 DEF FetchAborted
<1>16. CASE EventThreadExit
  BY <1>16 DEF EventThreadExit
<1>17. CASE LockForWriteDone
  BY <1>17 DEF LockForWriteDone
<1>18. CASE IgnoreWriteDone
  BY <1>18 DEF IgnoreWriteDone, Signalled
<1>19. CASE WriteDone
  <2>1. Exchange!Recycle(event)
    BY <1>19 DEF WriteDone, RecycleBuffer, Signalled, Exchange!Recycle
  <2> QED  BY <1>19, <2>1 DEF WriteDone, Exchange!Next, TypeOK, QueuesOK
<1>20. CASE WriteDoneAtEnd
  <2>1. Exchange!Recycle(event)
    BY <1>20 DEF WriteDoneAtEnd, RecycleBuffer, Exchange!Recycle
  <2> QED  BY <1>20, <2>1 DEF WriteDoneAtEnd, Exchange!Next, TypeOK, QueuesOK
<1>21. CASE PostEOSFromEvent
  <2>1. mFilledQueue = {} /\ wpc # "fill"
    BY <1>21 DEF PostEOSFromEvent, QueueInv, DrainedAtEOS, LockOwnership, Nobody, Writer
  <2>2. posted' \in {posted, posted + 1} \cap (0..2)
    BY <1>21, OneMore DEF PostEOSFromEvent
  <2>3. Exchange!AnnounceEnd
    BY <1>21, <2>1, <2>2 DEF PostEOSFromEvent, Signalled, Exchange!AnnounceEnd
  <2> QED  BY <2>3 DEF Exchange!Next
<1>22. CASE SuspendSession
  BY <1>22 DEF SuspendSession, AUDIO_STOP
<1>23. CASE SuspendNoted
  BY <1>23 DEF SuspendNoted
<1>24. CASE SetObserver
  BY <1>24 DEF SetObserver
<1>25. CASE Pause
  BY <1>25 DEF Pause, AUDIO_PAUSE
<1>26. CASE PauseNoted
  BY <1>26 DEF PauseNoted
<1>27. CASE Start
  BY <1>27 DEF Start
<1>28. CASE ResumeDriver
  BY <1>28 DEF ResumeDriver, AUDIO_PAUSE
<1>29. CASE ConfigFails
  BY <1>29 DEF ConfigFails
<1>30. CASE StartDriver
  BY <1>30 DEF StartDriver, AUDIO_START
<1>31. CASE StartNoted
  BY <1>31 DEF StartNoted
<1>32. CASE Flush
  BY <1>32 DEF Flush
<1>33. CASE FlushQueues
  <2>1. wpc # "fill" /\ freed = {} /\ mBufPool = mEmptyQueue \cup mFilledQueue
    BY <1>33 DEF FlushQueues, QueueInv, BufferConservation, ReleasedLast, Live,
             LockOwnership, Writer, Controller
  <2> QED  BY <1>33, <2>1 DEF FlushQueues, Exchange!TakeBack, Exchange!Next
<1>34. CASE FlushDriver
  BY <1>34 DEF FlushDriver, FlushSucceeds, FlushFails, Signalled
<1>35. CASE Stop
  BY <1>35 DEF Stop, Signalled
<1>36. CASE Destroy
  BY <1>36 DEF Destroy, Signalled
<1>37. CASE Reset
  BY <1>37 DEF Reset, AUDIO_STOP
<1>38. CASE ResetNoted
  BY <1>38 DEF ResetNoted
<1>39. CASE RequestEventThreadExit
  BY <1>39 DEF RequestEventThreadExit, AUDIO_ABORT_GET_EVENT
<1>40. CASE JoinEventThread
  BY <1>40 DEF JoinEventThread
<1>41. CASE FreeEmptyQueue
  BY <1>41 DEF FreeEmptyQueue, Exchange!ReleaseEmpty, Exchange!Next
<1>42. CASE FreeFilledQueue
  BY <1>42 DEF FreeFilledQueue, Exchange!ReleaseFilled, Exchange!Next
<1>43. CASE Hardware
  BY <1>43 DEF Hardware
<1>44. CASE UNCHANGED vars
  BY <1>44 DEF vars, driverVars, pcVars, callVars, lockVars, queueVars, history
<1> QED
  BY <1>1, <1>2, <1>3, <1>4, <1>5, <1>6, <1>7, <1>8, <1>9, <1>10, <1>11,
      <1>12, <1>13, <1>14, <1>15, <1>16, <1>17, <1>18, <1>19, <1>20, <1>21, <1>22,
      <1>23, <1>24, <1>25, <1>26, <1>27, <1>28, <1>29, <1>30, <1>31, <1>32, <1>33,
      <1>34, <1>35, <1>36, <1>37, <1>38, <1>39, <1>40, <1>41, <1>42, <1>43, <1>44
     DEF Next, WriterStep, WriterCall, EventThreadStep, ControllerStep, ControlCall, Finished

(* The session, with its threads, its locks and its driver, does to its      *)
(* buffers only what BufferExchange allows: flush() takes back the filled    *)
(* buffers only between two writes, and EOS is posted only with no buffer    *)
(* filled or in write()'s hands.                                             *)
THEOREM SessionImplementsExchange == Spec => ImplementsExchange
<1>1. TypeOK /\ LockOwnership /\ QueueInv /\ [Next]_vars => (TypeOK /\ LockOwnership /\ QueueInv)'
  BY TypeStep, LockStep, QueueStep
<1>2. Init => TypeOK /\ LockOwnership /\ QueueInv
  BY TypeInit, LockInit, QueueInit
<1> QED
  BY <1>1, <1>2, ExchangeInit, ExchangeStep, PTL DEF Spec, ImplementsExchange, Exchange!Spec

----------------------------------------------------------------------------
(* The flush.                                                                *)

(* Between its two halves flush() holds mLock, and the queues stay as it left*)
(* them.                                                                     *)
FlushInv ==
  cpc = "flushDriver" => /\ mEmptyQueue = mBufPool /\ mFilledQueue = {}
                         /\ flushed \in marks

LEMMA FlushStep ==
  ASSUME LockOwnership, FlushInv, [Next]_vars
  PROVE  FlushInv'
<1> USE DEF FlushInv, LockOwnership, Nobody, Writer, Controller, EventThread, ended, fresh,
            flushed, driverVars, pcVars, callVars, lockVars, queueVars, history
<1>1. CASE IsBufferAvailable
  BY <1>1 DEF IsBufferAvailable
<1>2. CASE SpuriousWakeup
  BY <1>2 DEF SpuriousWakeup
<1>3. ASSUME NEW size \in Sizes, BeginWrite(size)
      PROVE  FlushInv'
  BY <1>3 DEF BeginWrite
<1>4. CASE WaitForBuffer
  BY <1>4 DEF WaitForBuffer
<1>5. CASE CheckSkipAfterWait
  BY <1>5 DEF CheckSkipAfterWait
<1>6. CASE DequeueBuffer
  BY <1>6 DEF DequeueBuffer
<1>7. CASE PostEOSFromWrite
  BY <1>7 DEF PostEOSFromWrite, OnePostMore
<1>8. CASE EnqueueFilled
  BY <1>8 DEF EnqueueFilled
<1>9. CASE SubmitToDriver
  BY <1>9 DEF SubmitToDriver, AUDIO_ASYNC_WRITE
<1>10. CASE MarkLastBuffer
  BY <1>10 DEF MarkLastBuffer
<1>11. CASE EventThreadEntry
  BY <1>11 DEF EventThreadEntry
<1>12. CASE CallGetEvent
  BY <1>12 DEF CallGetEvent
<1>13. CASE FetchEvent
  BY <1>13 DEF FetchEvent, HandlerOf
<1>14. CASE FetchInterrupted
  BY <1>14 DEF FetchInterrupted, HandlerOf
<1>15. CASE FetchAborted
  BY <1>15 DEF FetchAborted
<1>16. CASE EventThreadExit
  BY <1>16 DEF EventThreadExit
<1>17. CASE LockForWriteDone
  BY <1>17 DEF LockForWriteDone
<1>18. CASE IgnoreWriteDone
  BY <1>18 DEF IgnoreWriteDone, Signalled
<1>19. CASE WriteDone
  BY <1>19 DEF WriteDone, RecycleBuffer, Signalled, EndOfStream
<1>20. CASE WriteDoneAtEnd
  BY <1>20 DEF WriteDoneAtEnd, RecycleBuffer, EndOfStream
<1>21. CASE PostEOSFromEvent
  BY <1>21 DEF PostEOSFromEvent, OnePostMore, Signalled
<1>22. CASE SuspendSession
  BY <1>22 DEF SuspendSession, AUDIO_STOP
<1>23. CASE SuspendNoted
  BY <1>23 DEF SuspendNoted
<1>24. CASE SetObserver
  BY <1>24 DEF SetObserver
<1>25. CASE Pause
  BY <1>25 DEF Pause, AUDIO_PAUSE
<1>26. CASE PauseNoted
  BY <1>26 DEF PauseNoted
<1>27. CASE Start
  BY <1>27 DEF Start
<1>28. CASE ResumeDriver
  BY <1>28 DEF ResumeDriver, AUDIO_PAUSE
<1>29. CASE ConfigFails
  BY <1>29 DEF ConfigFails
<1>30. CASE StartDriver
  BY <1>30 DEF StartDriver, AUDIO_START
<1>31. CASE StartNoted
  BY <1>31 DEF StartNoted
<1>32. CASE Flush
  BY <1>32 DEF Flush
<1>33. CASE FlushQueues
  BY <1>33 DEF FlushQueues
<1>34. CASE FlushDriver
  BY <1>34 DEF FlushDriver, FlushSucceeds, FlushFails, Signalled
<1>35. CASE Stop
  BY <1>35 DEF Stop, Signalled
<1>36. CASE Destroy
  BY <1>36 DEF Destroy, Signalled
<1>37. CASE Reset
  BY <1>37 DEF Reset, AUDIO_STOP
<1>38. CASE ResetNoted
  BY <1>38 DEF ResetNoted
<1>39. CASE RequestEventThreadExit
  BY <1>39 DEF RequestEventThreadExit, AUDIO_ABORT_GET_EVENT
<1>40. CASE JoinEventThread
  BY <1>40 DEF JoinEventThread
<1>41. CASE FreeEmptyQueue
  BY <1>41 DEF FreeEmptyQueue
<1>42. CASE FreeFilledQueue
  BY <1>42 DEF FreeFilledQueue
<1>43. CASE Hardware
  BY <1>43 DEF Hardware, HardwareStep, Play, SuspendRequest
<1>44. CASE UNCHANGED vars
  BY <1>44 DEF vars, driverVars, pcVars, callVars, lockVars, queueVars, history
<1> QED
  BY <1>1, <1>2, <1>3, <1>4, <1>5, <1>6, <1>7, <1>8, <1>9, <1>10, <1>11,
      <1>12, <1>13, <1>14, <1>15, <1>16, <1>17, <1>18, <1>19, <1>20, <1>21, <1>22,
      <1>23, <1>24, <1>25, <1>26, <1>27, <1>28, <1>29, <1>30, <1>31, <1>32, <1>33,
      <1>34, <1>35, <1>36, <1>37, <1>38, <1>39, <1>40, <1>41, <1>42, <1>43, <1>44
     DEF Next, WriterStep, WriterCall, EventThreadStep, ControllerStep, ControlCall, Finished

LEMMA FlushInit == Init => FlushInv
BY DEF Init, FlushInv

----------------------------------------------------------------------------
(* The end of the stream.                                                    *)

(* What writer and event thread know of the stream's end while nothing is    *)
(* flushed: whoever has seen it, the client has written it; once EOS is      *)
(* posted, or about to be, nothing is filled any more.                       *)
Drained ==
  /\ mFilledQueue = {} /\ ended \in marks /\ mEosEventReceived \in flags
  /\ wpc \in {"dequeue", "fill", "submit", "mark"} => wsize = "zero"

EOSInv ==
  /\ wpc \in {"mark", "eos"} => wsize # "full"
  /\ wpc = "fill" => wsize # "zero"
  /\ flushed \notin marks =>
       /\ fresh \in marks
       /\ mReachedEOS \in flags => ended \in marks
       /\ wpc \in {"dequeue", "fill", "submit", "mark", "eos"} /\ wsize # "full" =>
            ended \in marks
       /\ posted > 0 \/ epc = "fsync" => Drained
       /\ epc = "fsync" => posted = 0

LEMMA EOSStep ==
  ASSUME TypeOK, LockOwnership, FlushInv, EOSInv, [Next]_vars
  PROVE  EOSInv'
<1> USE DEF EOSInv, Drained, FlushInv, TypeOK, LockOwnership, Nobody, Writer, Controller, EventThread,
            Sizes, fresh, ended, flushed,
            mPaused, mIsDriverStarted, mGenerateEOS, mReachedEOS, mSkipWrite,
            mEosEventReceived, mEventThreadAlive, mKillEventThread, mObserver,
            driverVars, pcVars, callVars, lockVars, queueVars, history
<1>1. CASE IsBufferAvailable
  BY <1>1 DEF IsBufferAvailable
<1>2. CASE SpuriousWakeup
  BY <1>2 DEF SpuriousWakeup
<1>3. ASSUME NEW size \in Sizes, BeginWrite(size)
      PROVE  EOSInv'
  BY <1>3 DEF BeginWrite
<1>4. CASE WaitForBuffer
  BY <1>4 DEF WaitForBuffer
<1>5. CASE CheckSkipAfterWait
  BY <1>5 DEF CheckSkipAfterWait
<1>6. CASE DequeueBuffer
  BY <1>6 DEF DequeueBuffer
<1>7. CASE PostEOSFromWrite
  BY <1>7 DEF PostEOSFromWrite, OnePostMore
<1>8. CASE EnqueueFilled
  BY <1>8 DEF EnqueueFilled
<1>9. CASE SubmitToDriver
  BY <1>9 DEF SubmitToDriver, AUDIO_ASYNC_WRITE
<1>10. CASE MarkLastBuffer
  BY <1>10 DEF MarkLastBuffer
<1>11. CASE EventThreadEntry
  BY <1>11 DEF EventThreadEntry
<1>12. CASE CallGetEvent
  BY <1>12 DEF CallGetEvent
<1>13. CASE FetchEvent
  BY <1>13 DEF FetchEvent, HandlerOf
<1>14. CASE FetchInterrupted
  BY <1>14 DEF FetchInterrupted, HandlerOf
<1>15. CASE FetchAborted
  BY <1>15 DEF FetchAborted
<1>16. CASE EventThreadExit
  BY <1>16 DEF EventThreadExit
<1>17. CASE LockForWriteDone
  BY <1>17 DEF LockForWriteDone
<1>18. CASE IgnoreWriteDone
  BY <1>18 DEF IgnoreWriteDone, Signalled
<1>19. CASE WriteDone
  BY <1>19 DEF WriteDone, RecycleBuffer, Signalled, EndOfStream
<1>20. CASE WriteDoneAtEnd
  BY <1>20 DEF WriteDoneAtEnd, RecycleBuffer, EndOfStream
<1>21. CASE PostEOSFromEvent
  BY <1>21 DEF PostEOSFromEvent, OnePostMore, Signalled
<1>22. CASE SuspendSession
  BY <1>22 DEF SuspendSession, AUDIO_STOP
<1>23. CASE SuspendNoted
  BY <1>23 DEF SuspendNoted
<1>24. CASE SetObserver
  BY <1>24 DEF SetObserver
<1>25. CASE Pause
  BY <1>25 DEF Pause, AUDIO_PAUSE
<1>26. CASE PauseNoted
  BY <1>26 DEF PauseNoted
<1>27. CASE Start
  BY <1>27 DEF Start
<1>28. CASE ResumeDriver
  BY <1>28 DEF ResumeDriver, AUDIO_PAUSE
<1>29. CASE ConfigFails
  BY <1>29 DEF ConfigFails
<1>30. CASE StartDriver
  BY <1>30 DEF StartDriver, AUDIO_START
<1>31. CASE StartNoted
  BY <1>31 DEF StartNoted
<1>32. CASE Flush
  BY <1>32 DEF Flush
<1>33. CASE FlushQueues
  BY <1>33 DEF FlushQueues
<1>34. CASE FlushDriver
  BY <1>34 DEF FlushDriver, FlushSucceeds, FlushFails, Signalled
<1>35. CASE Stop
  BY <1>35 DEF Stop, Signalled
<1>36. CASE Destroy
  BY <1>36 DEF Destroy, Signalled
<1>37. CASE Reset
  BY <1>37 DEF Reset, AUDIO_STOP
<1>38. CASE ResetNoted
  BY <1>38 DEF ResetNoted
<1>39. CASE RequestEventThreadExit
  BY <1>39 DEF RequestEventThreadExit, AUDIO_ABORT_GET_EVENT
<1>40. CASE JoinEventThread
  BY <1>40 DEF JoinEventThread
<1>41. CASE FreeEmptyQueue
  BY <1>41 DEF FreeEmptyQueue
<1>42. CASE FreeFilledQueue
  BY <1>42 DEF FreeFilledQueue
<1>43. CASE Hardware
  BY <1>43 DEF Hardware, HardwareStep, Play, SuspendRequest
<1>44. CASE UNCHANGED vars
  BY <1>44 DEF vars, driverVars, pcVars, callVars, lockVars, queueVars, history
<1> QED
  BY <1>1, <1>2, <1>3, <1>4, <1>5, <1>6, <1>7, <1>8, <1>9, <1>10, <1>11,
      <1>12, <1>13, <1>14, <1>15, <1>16, <1>17, <1>18, <1>19, <1>20, <1>21, <1>22,
      <1>23, <1>24, <1>25, <1>26, <1>27, <1>28, <1>29, <1>30, <1>31, <1>32, <1>33,
      <1>34, <1>35, <1>36, <1>37, <1>38, <1>39, <1>40, <1>41, <1>42, <1>43, <1>44
     DEF Next, WriterStep, WriterCall, EventThreadStep, ControllerStep, ControlCall, Finished

LEMMA EOSInit == Init => EOSInv
BY DEF Init, DeviceOpened, EOSInv, Drained, fresh, flushed, mGenerateEOS, mReachedEOS,
       mEventThreadAlive, mIsDriverStarted

(* Only write() and the event thread post, each with what the other has not  *)
(* done yet.                                                                 *)
LEMMA OnePost ==
  ASSUME TypeOK, EOSInv, [Next]_vars, flushed \notin marks, posted' > posted
  PROVE  ended \in marks /\ posted = 0
<1> USE DEF EOSInv, Drained, TypeOK
<1>1. CASE PostEOSFromWrite
  BY <1>1 DEF PostEOSFromWrite
<1>2. CASE PostEOSFromEvent
  BY <1>2 DEF PostEOSFromEvent
<1>3. CASE FlushQueues
  BY <1>3 DEF FlushQueues
<1>4. PostEOSFromWrite \/ PostEOSFromEvent \/ FlushQueues \/ posted' = posted
  BY DEF Next, WriterStep, WriterCall, EventThreadStep, ControllerStep, ControlCall, Finished,
      IsBufferAvailable, SpuriousWakeup, BeginWrite, WaitForBuffer, CheckSkipAfterWait,
      DequeueBuffer, EnqueueFilled, SubmitToDriver, MarkLastBuffer, EventThreadEntry,
      CallGetEvent, FetchEvent, FetchInterrupted, FetchAborted, EventThreadExit,
      LockForWriteDone, IgnoreWriteDone, WriteDone, WriteDoneAtEnd, SuspendSession,
      SuspendNoted, SetObserver, Pause, PauseNoted, Start, ResumeDriver, ConfigFails,
      StartDriver, StartNoted, Flush, FlushDriver, Stop, Destroy, Reset, ResetNoted,
      RequestEventThreadExit, JoinEventThread, FreeEmptyQueue, FreeFilledQueue, Hardware,
      vars, history
<1> QED  BY <1>1, <1>2, <1>3, <1>4

(* Until something is flushed, EOS is posted only when the client has written*)
(* the end of its stream, and once: write() and eventThreadEntry() test and   *)
(* set mEosEventReceived and the queue, whatever fails between.              *)
THEOREM EOSIsPostedOnce == Spec => EOSOnceAtStreamEnd
<1>1. TypeOK /\ LockOwnership /\ FlushInv /\ EOSInv /\ [Next]_vars =>
        [flushed \notin marks /\ posted' > posted => ended \in marks /\ posted = 0]_vars
  BY OnePost
<1>2. TypeOK /\ LockOwnership /\ FlushInv /\ EOSInv /\ [Next]_vars =>
        (TypeOK /\ LockOwnership /\ FlushInv /\ EOSInv)'
  BY TypeStep, LockStep, FlushStep, EOSStep
<1>3. Init => TypeOK /\ LockOwnership /\ FlushInv /\ EOSInv
  BY TypeInit, LockInit, FlushInit, EOSInit
<1> QED  BY <1>1, <1>2, <1>3, PTL DEF Spec, EOSOnceAtStreamEnd

----------------------------------------------------------------------------
(* What the driver holds.                                                    *)

Held(s) == {s[i] : i \in DOMAIN s}

(* No buffer is in s twice.                                                  *)
Once(s) == \A i, j \in DOMAIN s : s[i] = s[j] /\ s[i] \in Buffers => i = j

LEMMA HeldBySeq ==
  ASSUME NEW S, NEW s \in Seq(S), NEW t \in Seq(S), NEW x \in S
  PROVE  /\ Held(<<>>) = {} /\ Held(s) \subseteq S
         /\ Held(Append(s, x)) = Held(s) \cup {x}
         /\ Held(s \o t) = Held(s) \cup Held(t)
         /\ s # <<>> => Held(s) = {Head(s)} \cup Held(Tail(s))
<1>1. Held(<<>>) = {} /\ Held(s) \subseteq S
  BY DEF Held
<1>2. Held(Append(s, x)) = Held(s) \cup {x}
  <2>1. DOMAIN Append(s, x) = DOMAIN s \cup {Len(s) + 1}
    OBVIOUS
  <2>2. \A i \in DOMAIN s : Append(s, x)[i] = s[i]
    OBVIOUS
  <2>3. Append(s, x)[Len(s) + 1] = x
    OBVIOUS
  <2> QED  BY <2>1, <2>2, <2>3 DEF Held
<1>3. Held(s \o t) = Held(s) \cup Held(t)
  <2>1. /\ \A i \in DOMAIN s : i \in DOMAIN (s \o t) /\ (s \o t)[i] = s[i]
        /\ \A i \in DOMAIN t : Len(s) + i \in DOMAIN (s \o t) /\ (s \o t)[Len(s) + i] = t[i]
    OBVIOUS
  <2>2. \A i \in DOMAIN (s \o t) : i \in DOMAIN s \/ i - Len(s) \in DOMAIN t
    OBVIOUS
  <2>3. \A i \in DOMAIN (s \o t) : i \notin DOMAIN s => (s \o t)[i] = t[i - Len(s)]
    OBVIOUS
  <2>4. Held(s) \cup Held(t) \subseteq Held(s \o t)
    BY <2>1 DEF Held
  <2>5. ASSUME NEW i \in DOMAIN (s \o t) PROVE (s \o t)[i] \in Held(s) \cup Held(t)
    BY <2>1, <2>2, <2>3 DEF Held
  <2> QED  BY <2>4, <2>5 DEF Held
<1>4. s # <<>> => Held(s) = {Head(s)} \cup Held(Tail(s))
  <2> SUFFICES ASSUME s # <<>> PROVE Held(s) = {Head(s)} \cup Held(Tail(s))
    OBVIOUS
  <2>1. \A i \in DOMAIN Tail(s) : i + 1 \in DOMAIN s /\ Tail(s)[i] = s[i + 1]
    OBVIOUS
  <2>2. 1 \in DOMAIN s /\ Head(s) = s[1]
    OBVIOUS
  <2>3. \A i \in DOMAIN s : i = 1 \/ (i - 1 \in DOMAIN Tail(s) /\ Tail(s)[i - 1] = s[i])
    OBVIOUS
  <2>4. {Head(s)} \cup Held(Tail(s)) \subseteq Held(s)
    BY <2>1, <2>2 DEF Held
  <2>5. ASSUME NEW i \in DOMAIN s PROVE s[i] \in {Head(s)} \cup Held(Tail(s))
    BY <2>2, <2>3 DEF Held
  <2> QED  BY <2>4, <2>5 DEF Held
<1> QED  BY <1>1, <1>2, <1>3, <1>4

LEMMA OnceInSeq ==
  ASSUME NEW S, NEW s \in Seq(S), NEW t \in Seq(S), NEW x \in S, Once(s)
  PROVE  /\ Once(<<>>)
         /\ x \notin Held(s) \cap Buffers => Once(Append(s, x))
         /\ Once(t) /\ Held(s) \cap Held(t) \cap Buffers = {} => Once(s \o t)
         /\ s # <<>> => Once(Tail(s)) /\ Head(s) \notin Held(Tail(s)) \cap Buffers
<1>1. Once(<<>>)
  BY DEF Once
<1>2. x \notin Held(s) \cap Buffers => Once(Append(s, x))
  <2>1. DOMAIN Append(s, x) = DOMAIN s \cup {Len(s) + 1}
    OBVIOUS
  <2>2. \A i \in DOMAIN s : Append(s, x)[i] = s[i]
    OBVIOUS
  <2>3. Append(s, x)[Len(s) + 1] = x
    OBVIOUS
  <2> QED  BY <2>1, <2>2, <2>3 DEF Held, Once
<1>3. Once(t) /\ Held(s) \cap Held(t) \cap Buffers = {} => Once(s \o t)
  <2>1. \A i \in DOMAIN s : (s \o t)[i] = s[i]
    OBVIOUS
  <2>2. \A i \in DOMAIN (s \o t) \ DOMAIN s :
          i - Len(s) \in DOMAIN t /\ (s \o t)[i] = t[i - Len(s)]
    OBVIOUS
  <2>3. Len(s) \in Nat /\ DOMAIN (s \o t) \subseteq Nat
    OBVIOUS
  <2>4. \A i, j \in DOMAIN (s \o t) : i - Len(s) = j - Len(s) => i = j
    BY <2>3
  <2> QED  BY <2>1, <2>2, <2>4 DEF Held, Once
<1>4. s # <<>> => Once(Tail(s)) /\ Head(s) \notin Held(Tail(s)) \cap Buffers
  <2> SUFFICES ASSUME s # <<>>
               PROVE  Once(Tail(s)) /\ Head(s) \notin Held(Tail(s)) \cap Buffers
    OBVIOUS
  <2>1. \A i \in DOMAIN Tail(s) : /\ i \in Nat \ {0} /\ i + 1 \in DOMAIN s
                                 /\ Tail(s)[i] = s[i + 1]
    OBVIOUS
  <2>2. 1 \in DOMAIN s /\ Head(s) = s[1]
    OBVIOUS
  <2>3. \A i, j \in Nat \ {0} : i + 1 # 1 /\ (i + 1 = j + 1 => i = j)
    OBVIOUS
  <2> QED  BY <2>1, <2>2, <2>3 DEF Held, Once
<1> QED  BY <1>1, <1>2, <1>3, <1>4

(* A buffer is at the driver once, and until something is flushed, filled.   *)
Handled == IF epc \in {"lock", "done"} THEN {event} ELSE {}
Queued == Held(submitted) \cup Held(events)

OnceAtDriver ==
  Once(submitted) /\ Once(events) /\ Held(submitted) \cap Held(events) \cap Buffers = {}

DriverInv ==
  flushed \notin marks =>
    /\ OnceAtDriver
    /\ Handled \cap Queued = {} /\ Handled \subseteq Buffers
    /\ (Queued \cup Handled) \cap Buffers \subseteq mFilledQueue \cup freed
    /\ wpc = "submit" => /\ wbuf \subseteq mFilledQueue \cup freed
                         /\ wbuf \cap (Queued \cup Handled) = {}

LEMMA StopKeepsBuffers ==
  ASSUME DriverTypeOK, OnceAtDriver, NEW ok \in BOOLEAN, AUDIO_STOP(ok)
  PROVE  OnceAtDriver' /\ Queued' = Queued
<1>1. submitted \in Seq(Buffers \cup {Suspend}) /\ events \in Seq(Buffers \cup {Suspend})
  BY DEF DriverTypeOK
<1>2. CASE ok
  <2>1. submitted' = <<>> /\ events' = events \o submitted
    BY <1>2 DEF AUDIO_STOP
  <2>2. Held(<<>>) = {} /\ Held(events \o submitted) = Queued
    BY <1>1, HeldBySeq DEF Queued
  <2>3. Once(<<>>) /\ Once(events \o submitted)
    BY <1>1, OnceInSeq DEF OnceAtDriver
  <2> QED  BY <2>1, <2>2, <2>3 DEF OnceAtDriver, Queued
<1>3. CASE ~ok
  BY <1>3 DEF AUDIO_STOP, OnceAtDriver, Queued
<1> QED  BY <1>2, <1>3

LEMMA PlayKeepsBuffers ==
  ASSUME DriverTypeOK, OnceAtDriver, Play
  PROVE  OnceAtDriver' /\ Queued' = Queued
<1> DEFINE S == Buffers \cup {Suspend}
<1>1. submitted \in Seq(S) /\ events \in Seq(S) /\ submitted # <<>> /\ Head(submitted) \in S
      /\ Tail(submitted) \in Seq(S)
  BY DEF DriverTypeOK, Play
<1>2. submitted' = Tail(submitted) /\ events' = Append(events, Head(submitted))
  BY DEF Play
<1> HIDE DEF S
<1>3. /\ Held(submitted) = {Head(submitted)} \cup Held(submitted')
      /\ Held(events') = Held(events) \cup {Head(submitted)}
  BY <1>1, <1>2, HeldBySeq
<1>4. Once(submitted') /\ Head(submitted) \notin Held(submitted') \cap Buffers
  BY <1>1, <1>2, OnceInSeq DEF OnceAtDriver
<1>5. Once(events')
  <2>1. Head(submitted) \notin Held(events) \cap Buffers
    BY <1>3 DEF OnceAtDriver
  <2> QED  BY <1>1, <1>2, <2>1, OnceInSeq DEF OnceAtDriver
<1> QED  BY <1>3, <1>4, <1>5 DEF OnceAtDriver, Queued

LEMMA DriverStep ==
  ASSUME TypeOK, LockOwnership, QueueInv, FlushInv, DriverInv, "interrupt" \notin Faults, [Next]_vars
  PROVE  DriverInv'
<1> USE DEF DriverInv, LockOwnership, Handled, Nobody, Writer, Controller, EventThread,
            ended, fresh, flushed, driverVars, pcVars, callVars, lockVars, queueVars, history
<1>0. UNCHANGED <<submitted, events>> => Queued' = Queued /\ (OnceAtDriver => OnceAtDriver')
  BY DEF Queued, OnceAtDriver
<1>1. CASE IsBufferAvailable
  BY <1>0, <1>1 DEF IsBufferAvailable
<1>2. CASE SpuriousWakeup
  BY <1>0, <1>2 DEF SpuriousWakeup
<1>3. ASSUME NEW size \in Sizes, BeginWrite(size)
      PROVE  DriverInv'
  BY <1>0, <1>3 DEF BeginWrite
<1>4. CASE WaitForBuffer
  BY <1>0, <1>4 DEF WaitForBuffer
<1>5. CASE CheckSkipAfterWait
  BY <1>0, <1>5 DEF CheckSkipAfterWait
<1>6. CASE DequeueBuffer
  BY <1>0, <1>6 DEF DequeueBuffer
<1>7. CASE PostEOSFromWrite
  BY <1>0, <1>7 DEF PostEOSFromWrite, OnePostMore
<1>8. CASE EnqueueFilled
  <2>1. wbuf \subseteq Buffers /\ wbuf \cap (mFilledQueue \cup freed) = {}
    BY <1>8 DEF EnqueueFilled, TypeOK, ThreadsOK, QueueInv, BufferConservation, InHand
  <2> QED  BY <1>0, <1>8, <2>1 DEF EnqueueFilled
<1>9. CASE SubmitToDriver
  <2>1. CASE UNCHANGED driverVars
    BY <1>0, <1>9, <2>1 DEF SubmitToDriver
  <2>2. ASSUME NEW b \in wbuf, submitted' = Append(submitted, b)
        PROVE  DriverInv'
    <3>1. b \in Buffers /\ submitted \in Seq(Buffers) /\ UNCHANGED <<events, epc, event, marks>>
          /\ UNCHANGED <<mFilledQueue, freed>> /\ wpc = "submit" /\ wpc' # "submit"
      BY <1>9, <2>2
         DEF SubmitToDriver, AUDIO_ASYNC_WRITE, TypeOK, ThreadsOK, DriverTypeOK
    <3>2. Held(submitted') = Held(submitted) \cup {b}
      BY <2>2, <3>1, HeldBySeq
    <3>3. flushed \notin marks => Once(submitted')
      BY <2>2, <3>1, OnceInSeq DEF OnceAtDriver, Queued
    <3>4. flushed \notin marks => OnceAtDriver'
      BY <3>1, <3>2, <3>3 DEF OnceAtDriver, Queued
    <3>5. Queued' = Queued \cup {b}
      BY <3>1, <3>2 DEF Queued
    <3> QED  BY <3>1, <3>4, <3>5
  <2>3. UNCHANGED driverVars \/ \E b \in wbuf : submitted' = Append(submitted, b)
    BY <1>9 DEF SubmitToDriver, AUDIO_ASYNC_WRITE
  <2> QED  BY <2>1, <2>2, <2>3
<1>10. CASE MarkLastBuffer
  BY <1>0, <1>10 DEF MarkLastBuffer
<1>11. CASE EventThreadEntry
  BY <1>0, <1>11 DEF EventThreadEntry
<1>12. CASE CallGetEvent
  BY <1>0, <1>12 DEF CallGetEvent
<1>13. CASE FetchEvent
  <2> DEFINE e == Head(events)
  <2>1. /\ events \in Seq(Buffers \cup {Suspend}) /\ events # <<>>
        /\ e \in Buffers \cup {Suspend}
    BY <1>13 DEF FetchEvent, TypeOK, DriverTypeOK
  <2>2. /\ event' = e /\ events' = Tail(events)
        /\ UNCHANGED <<submitted, marks, mFilledQueue, freed, wpc, wbuf>> /\ epc = "blocked"
        /\ epc' = IF e \in Buffers THEN "lock"
                  ELSE IF e = Suspend /\ mPaused \in flags THEN "suspend" ELSE "get"
    BY <1>13 DEF FetchEvent, HandlerOf
  <2>3. Held(events) = {e} \cup Held(events')
    BY <2>1, <2>2, HeldBySeq
  <2>4. flushed \notin marks => Once(events') /\ e \notin Held(events') \cap Buffers
    BY <2>1, <2>2, OnceInSeq DEF OnceAtDriver
  <2> HIDE DEF e
  <2>5. Handled' = IF e \in Buffers THEN {e} ELSE {}
    BY <2>2
  <2>6. flushed \notin marks => OnceAtDriver'
    BY <2>2, <2>3, <2>4 DEF OnceAtDriver
  <2>7. Queued' = Held(submitted) \cup Held(events') /\ Queued = {e} \cup Queued'
    BY <2>2, <2>3 DEF Queued
  <2>8. flushed \notin marks => Handled' \cap Queued' = {} /\ Handled' \subseteq Buffers
    BY <2>3, <2>4, <2>5, <2>7 DEF OnceAtDriver
  <2>9. Queued' \cup Handled' \subseteq Queued
    BY <2>5, <2>7
  <2> QED  BY <2>2, <2>6, <2>8, <2>9
<1>14. CASE FetchInterrupted
  BY <1>14 DEF FetchInterrupted
<1>15. CASE FetchAborted
  BY <1>0, <1>15 DEF FetchAborted
<1>16. CASE EventThreadExit
  BY <1>0, <1>16 DEF EventThreadExit
<1>17. CASE LockForWriteDone
  BY <1>0, <1>17 DEF LockForWriteDone
<1>18. CASE IgnoreWriteDone
  BY <1>0, <1>18 DEF IgnoreWriteDone, Signalled
<1>19. CASE WriteDone
  BY <1>0, <1>19 DEF WriteDone, RecycleBuffer, Signalled, EndOfStream
<1>20. CASE WriteDoneAtEnd
  BY <1>0, <1>20 DEF WriteDoneAtEnd, RecycleBuffer, EndOfStream
<1>21. CASE PostEOSFromEvent
  BY <1>0, <1>21 DEF PostEOSFromEvent, OnePostMore, Signalled
<1>22. CASE SuspendSession
  <2>1. flushed \notin marks => OnceAtDriver' /\ Queued' = Queued
    BY <1>22, StopKeepsBuffers, IoctlOutcomesType DEF SuspendSession, TypeOK
  <2> QED  BY <1>22, <2>1 DEF SuspendSession
<1>23. CASE SuspendNoted
  BY <1>0, <1>23 DEF SuspendNoted
<1>24. CASE SetObserver
  BY <1>0, <1>24 DEF SetObserver
<1>25. CASE Pause
  BY <1>0, <1>25 DEF Pause, AUDIO_PAUSE
<1>26. CASE PauseNoted
  BY <1>0, <1>26 DEF PauseNoted
<1>27. CASE Start
  BY <1>0, <1>27 DEF Start
<1>28. CASE ResumeDriver
  BY <1>0, <1>28 DEF ResumeDriver, AUDIO_PAUSE
<1>29. CASE ConfigFails
  BY <1>0, <1>29 DEF ConfigFails
<1>30. CASE StartDriver
  BY <1>0, <1>30 DEF StartDriver, AUDIO_START
<1>31. CASE StartNoted
  BY <1>0, <1>31 DEF StartNoted
<1>32. CASE Flush
  BY <1>0, <1>32 DEF Flush
<1>33. CASE FlushQueues
  BY <1>0, <1>33 DEF FlushQueues
<1>34. CASE FlushDriver
  BY <1>34 DEF FlushDriver, FlushInv
<1>35. CASE Stop
  BY <1>0, <1>35 DEF Stop, Signalled
<1>36. CASE Destroy
  BY <1>0, <1>36 DEF Destroy, Signalled
<1>37. CASE Reset
  <2>1. flushed \notin marks => OnceAtDriver' /\ Queued' = Queued
    BY <1>37, StopKeepsBuffers, IoctlOutcomesType DEF Reset, TypeOK
  <2> QED  BY <1>37, <2>1 DEF Reset
<1>38. CASE ResetNoted
  BY <1>0, <1>38 DEF ResetNoted
<1>39. CASE RequestEventThreadExit
  BY <1>0, <1>39 DEF RequestEventThreadExit, AUDIO_ABORT_GET_EVENT
<1>40. CASE JoinEventThread
  BY <1>0, <1>40 DEF JoinEventThread
<1>41. CASE FreeEmptyQueue
  BY <1>0, <1>41 DEF FreeEmptyQueue
<1>42. CASE FreeFilledQueue
  BY <1>0, <1>42 DEF FreeFilledQueue
<1>43. CASE Hardware
  <2>1. CASE Play
    <3>1. flushed \notin marks => OnceAtDriver' /\ Queued' = Queued
      BY <2>1, PlayKeepsBuffers DEF TypeOK
    <3> QED  BY <1>43, <3>1 DEF Hardware
  <2>2. CASE SuspendRequest
    <3>1. /\ events' = Append(events, Suspend) /\ submitted' = submitted
          /\ Suspend \notin Buffers /\ events \in Seq(Buffers \cup {Suspend})
      BY <2>2, DriverAssumption DEF SuspendRequest, TypeOK, DriverTypeOK
    <3>2. Held(events') = Held(events) \cup {Suspend}
      BY <3>1, HeldBySeq
    <3>3. flushed \notin marks => Once(events')
      BY <3>1, OnceInSeq DEF OnceAtDriver
    <3>4. flushed \notin marks => OnceAtDriver'
      BY <3>1, <3>2, <3>3 DEF OnceAtDriver
    <3>5. Queued' = Queued \cup {Suspend}
      BY <3>1, <3>2 DEF Queued
    <3> QED  BY <1>43, <3>1, <3>4, <3>5 DEF Hardware, TypeOK, ThreadsOK
  <2> QED  BY <1>43, <2>1, <2>2 DEF Hardware, HardwareStep
<1>44. CASE UNCHANGED vars
  BY <1>0, <1>44 DEF vars, driverVars, pcVars, callVars, lockVars, queueVars, history
<1> QED
  BY <1>1, <1>2, <1>3, <1>4, <1>5, <1>6, <1>7, <1>8, <1>9, <1>10, <1>11,
      <1>12, <1>13, <1>14, <1>15, <1>16, <1>17, <1>18, <1>19, <1>20, <1>21, <1>22,
      <1>23, <1>24, <1>25, <1>26, <1>27, <1>28, <1>29, <1>30, <1>31, <1>32, <1>33,
      <1>34, <1>35, <1>36, <1>37, <1>38, <1>39, <1>40, <1>41, <1>42, <1>43, <1>44
     DEF Next, WriterStep, WriterCall, EventThreadStep, ControllerStep, ControlCall, Finished

LEMMA DriverInit == Init => DriverInv
<1> SUFFICES ASSUME Init PROVE DriverInv
  OBVIOUS
<1>1. Held(submitted) = {} /\ Held(events) = {} /\ Once(submitted) /\ Once(events)
  BY DEF Init, Held, Once
<1> QED  BY <1>1 DEF Init, DriverInv, OnceAtDriver, Queued, Handled

(* Until something is flushed, a buffer the decoder has, or has finished, is *)
(* filled: isBufferAvailable() offers none the decoder reads from.  Without  *)
(* interrupted ioctls, which make eventThreadEntry() recycle a buffer twice. *)
THEOREM NoBufferIsShared ==
  ASSUME "interrupt" \notin Faults
  PROVE  Spec => []NoBufferSharedWithDriver
<1> DEFINE Inv == TypeOK /\ LockOwnership /\ QueueInv /\ FlushInv /\ DriverInv
<1>1. Inv /\ [Next]_vars => Inv'
  BY TypeStep, LockStep, QueueStep, FlushStep, DriverStep
<1>2. Init => Inv
  BY TypeInit, LockInit, QueueInit, FlushInit, DriverInit
<1>3. Inv => NoBufferSharedWithDriver
  BY DEF DriverInv, NoBufferSharedWithDriver, AtDriver, Queued, Handled, Held
<1> QED  BY <1>1, <1>2, <1>3, PTL DEF Spec

----------------------------------------------------------------------------
(* The buffer announced.                                                     *)

(* The driver's buffers are the session's, unless they were released.        *)
PoolInv ==
  Live => /\ (Queued \cup Handled) \cap Buffers \subseteq mBufPool
          /\ wbuf \subseteq mBufPool
          /\ Handled \subseteq Buffers

(* A writer is woken for a buffer or to skip its write; a session that has   *)
(* no buffers announces none.                                                *)
TornDown == cpc \in {"freeFilled", "dead"}
WokenInv ==
  /\ wpc = "relock" /\ ~TornDown => mSkipWrite \in flags \/ mEmptyQueue # {}
  /\ ~TornDown /\ mBufPool = {} => /\ wpc \in {"idle", "gap", "wait", "relock"}
                                   /\ epc # "fsync" /\ mEosEventReceived \notin flags

LEMMA StopKeepsQueued ==
  ASSUME DriverTypeOK, NEW ok \in BOOLEAN, AUDIO_STOP(ok)
  PROVE  Queued' = Queued
<1>1. /\ submitted \in Seq(Buffers \cup {Suspend}) /\ events \in Seq(Buffers \cup {Suspend})
      /\ Held(<<>>) = {}
  BY HeldBySeq DEF DriverTypeOK, Held
<1>2. Held(events \o submitted) = Held(events) \cup Held(submitted)
  BY <1>1, HeldBySeq
<1> QED  BY <1>1, <1>2 DEF AUDIO_STOP, Queued

LEMMA FlushKeepsQueued ==
  ASSUME DriverTypeOK, NEW to, AUDIO_FLUSH(to)
  PROVE  Queued' \subseteq Queued
<1>1. /\ submitted \in Seq(Buffers \cup {Suspend}) /\ events \in Seq(Buffers \cup {Suspend})
      /\ Held(<<>>) = {}
  BY DEF DriverTypeOK, Held
<1>2. Held(events \o submitted) = Held(events) \cup Held(submitted)
  BY <1>1, HeldBySeq
<1> QED  BY <1>1, <1>2 DEF AUDIO_FLUSH, Queued

LEMMA PoolStep ==
  ASSUME TypeOK, QueueInv, PoolInv, "interrupt" \notin Faults, [Next]_vars
  PROVE  PoolInv'
<1> USE DEF PoolInv, Live, Handled, driverVars, pcVars, callVars, lockVars, queueVars, history
<1>0. UNCHANGED <<submitted, events>> => Queued' = Queued
  BY DEF Queued
<1>1. CASE IsBufferAvailable
  BY <1>0, <1>1 DEF IsBufferAvailable
<1>2. CASE SpuriousWakeup
  BY <1>0, <1>2 DEF SpuriousWakeup
<1>3. ASSUME NEW size \in Sizes, BeginWrite(size)
      PROVE  PoolInv'
  BY <1>0, <1>3 DEF BeginWrite
<1>4. CASE WaitForBuffer
  BY <1>0, <1>4 DEF WaitForBuffer
<1>5. CASE CheckSkipAfterWait
  BY <1>0, <1>5 DEF CheckSkipAfterWait
<1>6. CASE DequeueBuffer
  <2>1. wbuf' \subseteq wbuf \cup mEmptyQueue
    BY <1>6 DEF DequeueBuffer
  <2>2. mEmptyQueue \subseteq mBufPool
    BY <1>6 DEF DequeueBuffer, QueueInv, BufferConservation
  <2> QED  BY <1>0, <1>6, <2>1, <2>2 DEF DequeueBuffer
<1>7. CASE PostEOSFromWrite
  BY <1>0, <1>7 DEF PostEOSFromWrite, OnePostMore
<1>8. CASE EnqueueFilled
  BY <1>0, <1>8 DEF EnqueueFilled
<1>9. CASE SubmitToDriver
  <2>1. CASE UNCHANGED driverVars
    BY <1>0, <1>9, <2>1 DEF SubmitToDriver, NoBuffer
  <2>2. ASSUME NEW b \in wbuf, submitted' = Append(submitted, b) \/ submitted' = submitted
        PROVE  PoolInv'
    <3>1. b \in Buffers /\ submitted \in Seq(Buffers) /\ UNCHANGED <<events, epc, event>>
          /\ wbuf' = {} /\ UNCHANGED <<mBufPool, cpc>>
      BY <1>9, <2>2
         DEF SubmitToDriver, AUDIO_ASYNC_WRITE, TypeOK, ThreadsOK, DriverTypeOK, NoBuffer
    <3>2. Held(submitted') \subseteq Held(submitted) \cup {b}
      <4>1. Held(Append(submitted, b)) = Held(submitted) \cup {b}
        BY <3>1, HeldBySeq
      <4> QED  BY <2>2, <4>1
    <3>3. Queued' \subseteq Queued \cup {b}
      BY <3>1, <3>2 DEF Queued
    <3> QED  BY <3>1, <3>3
  <2>3. UNCHANGED driverVars \/ \E b \in wbuf : submitted' = Append(submitted, b)
    BY <1>9 DEF SubmitToDriver, AUDIO_ASYNC_WRITE
  <2> QED  BY <2>1, <2>2, <2>3
<1>10. CASE MarkLastBuffer
  BY <1>0, <1>10 DEF MarkLastBuffer
<1>11. CASE EventThreadEntry
  BY <1>0, <1>11 DEF EventThreadEntry
<1>12. CASE CallGetEvent
  BY <1>0, <1>12 DEF CallGetEvent
<1>13. CASE FetchEvent
  <2>1. events \in Seq(Buffers \cup {Suspend}) /\ events # <<>>
    BY <1>13 DEF FetchEvent, TypeOK, DriverTypeOK
  <2>2. Held(events) = {Head(events)} \cup Held(Tail(events))
    BY <2>1, HeldBySeq
  <2>3. Queued' \cup {Head(events)} = Queued
    BY <1>13, <2>2 DEF FetchEvent, Queued
  <2>4. Handled' \subseteq {Head(events)} \cap Buffers
    BY <1>13 DEF FetchEvent, HandlerOf
  <2> QED  BY <1>13, <2>3, <2>4 DEF FetchEvent
<1>14. CASE FetchInterrupted
  BY <1>14 DEF FetchInterrupted
<1>15. CASE FetchAborted
  BY <1>0, <1>15 DEF FetchAborted
<1>16. CASE EventThreadExit
  BY <1>0, <1>16 DEF EventThreadExit
<1>17. CASE LockForWriteDone
  BY <1>0, <1>17 DEF LockForWriteDone
<1>18. CASE IgnoreWriteDone
  BY <1>0, <1>18 DEF IgnoreWriteDone, Signalled
<1>19. CASE WriteDone
  BY <1>0, <1>19 DEF WriteDone, RecycleBuffer, Signalled, EndOfStream
<1>20. CASE WriteDoneAtEnd
  BY <1>0, <1>20 DEF WriteDoneAtEnd, RecycleBuffer, EndOfStream
<1>21. CASE PostEOSFromEvent
  BY <1>0, <1>21 DEF PostEOSFromEvent, OnePostMore, Signalled
<1>22. CASE SuspendSession
  <2>1. Queued' = Queued
    BY <1>22, StopKeepsQueued, IoctlOutcomesType DEF SuspendSession, TypeOK
  <2> QED  BY <1>22, <2>1 DEF SuspendSession
<1>23. CASE SuspendNoted
  BY <1>0, <1>23 DEF SuspendNoted
<1>24. CASE SetObserver
  BY <1>0, <1>24 DEF SetObserver
<1>25. CASE Pause
  BY <1>0, <1>25 DEF Pause, AUDIO_PAUSE
<1>26. CASE PauseNoted
  BY <1>0, <1>26 DEF PauseNoted
<1>27. CASE Start
  BY <1>0, <1>27 DEF Start
<1>28. CASE ResumeDriver
  BY <1>0, <1>28 DEF ResumeDriver, AUDIO_PAUSE
<1>29. CASE ConfigFails
  BY <1>0, <1>29 DEF ConfigFails
<1>30. CASE StartDriver
  BY <1>0, <1>30 DEF StartDriver, AUDIO_START
<1>31. CASE StartNoted
  BY <1>0, <1>31 DEF StartNoted
<1>32. CASE Flush
  BY <1>0, <1>32 DEF Flush
<1>33. CASE FlushQueues
  BY <1>0, <1>33 DEF FlushQueues
<1>34. CASE FlushDriver
  <2>1. UNCHANGED driverVars \/ AUDIO_PAUSE(TRUE, TRUE) \/ \E to : AUDIO_FLUSH(to)
    BY <1>34 DEF FlushDriver, FlushSucceeds, FlushFails
  <2>2. Queued' \subseteq Queued
    BY <2>1, <1>0, FlushKeepsQueued DEF AUDIO_PAUSE, TypeOK
  <2> QED  BY <1>34, <2>2 DEF FlushDriver
<1>35. CASE Stop
  BY <1>0, <1>35 DEF Stop, Signalled
<1>36. CASE Destroy
  BY <1>0, <1>36 DEF Destroy, Signalled
<1>37. CASE Reset
  <2>1. Queued' = Queued
    BY <1>37, StopKeepsQueued, IoctlOutcomesType DEF Reset, TypeOK
  <2> QED  BY <1>37, <2>1 DEF Reset
<1>38. CASE ResetNoted
  BY <1>0, <1>38 DEF ResetNoted
<1>39. CASE RequestEventThreadExit
  BY <1>0, <1>39 DEF RequestEventThreadExit, AUDIO_ABORT_GET_EVENT
<1>40. CASE JoinEventThread
  BY <1>0, <1>40 DEF JoinEventThread
<1>41. CASE FreeEmptyQueue
  BY <1>0, <1>41 DEF FreeEmptyQueue
<1>42. CASE FreeFilledQueue
  BY <1>0, <1>42 DEF FreeFilledQueue
<1>43. CASE Hardware
  <2>1. CASE Play
    <3>1. /\ submitted \in Seq(Buffers \cup {Suspend}) /\ submitted # <<>>
          /\ events \in Seq(Buffers \cup {Suspend}) /\ Head(submitted) \in Buffers \cup {Suspend}
      BY <2>1 DEF Play, TypeOK, DriverTypeOK
    <3>2. /\ Held(submitted) = {Head(submitted)} \cup Held(Tail(submitted))
          /\ Held(Append(events, Head(submitted))) = Held(events) \cup {Head(submitted)}
      BY <3>1, HeldBySeq
    <3>3. Queued' = Queued
      BY <2>1, <3>2 DEF Play, Queued
    <3> QED  BY <1>43, <3>3 DEF Hardware
  <2>2. CASE SuspendRequest
    <3>1. /\ events' = Append(events, Suspend) /\ submitted' = submitted
          /\ Suspend \notin Buffers /\ events \in Seq(Buffers \cup {Suspend})
      BY <2>2, DriverAssumption DEF SuspendRequest, TypeOK, DriverTypeOK
    <3>2. Held(events') = Held(events) \cup {Suspend}
      BY <3>1, HeldBySeq
    <3>3. Queued' = Queued \cup {Suspend}
      BY <3>1, <3>2 DEF Queued
    <3> QED  BY <1>43, <3>1, <3>3 DEF Hardware
  <2> QED  BY <1>43, <2>1, <2>2 DEF Hardware, HardwareStep
<1>44. CASE UNCHANGED vars
  BY <1>0, <1>44 DEF vars, driverVars, pcVars, callVars, lockVars, queueVars, history
<1> QED
  BY <1>1, <1>2, <1>3, <1>4, <1>5, <1>6, <1>7, <1>8, <1>9, <1>10, <1>11,
      <1>12, <1>13, <1>14, <1>15, <1>16, <1>17, <1>18, <1>19, <1>20, <1>21, <1>22,
      <1>23, <1>24, <1>25, <1>26, <1>27, <1>28, <1>29, <1>30, <1>31, <1>32, <1>33,
      <1>34, <1>35, <1>36, <1>37, <1>38, <1>39, <1>40, <1>41, <1>42, <1>43, <1>44
     DEF Next, WriterStep, WriterCall, EventThreadStep, ControllerStep, ControlCall, Finished

LEMMA AnnounceStep ==
  ASSUME TypeOK, LockOwnership, QueueInv, TeardownInv, FlushInv, PoolInv,
         AnnouncedBufferIsThere, WokenInv, "spurious" \notin Faults, [Next]_vars
  PROVE  (AnnouncedBufferIsThere /\ WokenInv)'
<1> USE DEF AnnouncedBufferIsThere, WokenInv, TornDown, Live, LockOwnership,
            Nobody, Writer, Controller, EventThread,
            mPaused, mIsDriverStarted, mGenerateEOS, mReachedEOS, mSkipWrite,
            mEosEventReceived, mEventThreadAlive, mKillEventThread, mObserver,
            driverVars, pcVars, callVars, lockVars, queueVars, history
<1>a. /\ epc # "dead" => ~TornDown
      /\ ~TornDown => freed = {} /\ mBufPool = mEmptyQueue \cup mFilledQueue \cup InHand
      /\ wpc # "fill" => InHand = {}
  BY DEF TeardownInv, TeardownQuiescent, QueueInv, ReleasedLast, BufferConservation, InHand
<1>1. CASE IsBufferAvailable
  BY <1>a, <1>1 DEF IsBufferAvailable, Closing
<1>2. CASE SpuriousWakeup
  BY <1>2 DEF SpuriousWakeup
<1>3. ASSUME NEW size \in Sizes, BeginWrite(size)
      PROVE  (AnnouncedBufferIsThere /\ WokenInv)'
  BY <1>3 DEF BeginWrite
<1>4. CASE WaitForBuffer
  BY <1>4 DEF WaitForBuffer
<1>5. CASE CheckSkipAfterWait
  BY <1>a, <1>5 DEF CheckSkipAfterWait
<1>6. CASE DequeueBuffer
  BY <1>a, <1>6 DEF DequeueBuffer
<1>7. CASE PostEOSFromWrite
  BY <1>7 DEF PostEOSFromWrite, OnePostMore
<1>8. CASE EnqueueFilled
  BY <1>8 DEF EnqueueFilled
<1>9. CASE SubmitToDriver
  BY <1>9 DEF SubmitToDriver, AUDIO_ASYNC_WRITE
<1>10. CASE MarkLastBuffer
  BY <1>10 DEF MarkLastBuffer
<1>11. CASE EventThreadEntry
  BY <1>11 DEF EventThreadEntry
<1>12. CASE CallGetEvent
  BY <1>12 DEF CallGetEvent
<1>13. CASE FetchEvent
  BY <1>13 DEF FetchEvent, HandlerOf
<1>14. CASE FetchInterrupted
  BY <1>14 DEF FetchInterrupted, HandlerOf
<1>15. CASE FetchAborted
  BY <1>15 DEF FetchAborted
<1>16. CASE EventThreadExit
  BY <1>16 DEF EventThreadExit
<1>17. CASE LockForWriteDone
  BY <1>17 DEF LockForWriteDone
<1>18. CASE IgnoreWriteDone
  <2>1. event \in mBufPool
    BY <1>a, <1>18 DEF IgnoreWriteDone, PoolInv, Handled
  <2>2. wpc = "wait" => mEmptyQueue # {}
    BY <1>a, <1>18, <2>1 DEF IgnoreWriteDone
  <2> QED  BY <1>18, <2>2 DEF IgnoreWriteDone, Signalled
<1>19. CASE WriteDone
  <2>1. event \in mBufPool /\ mEmptyQueue' # {}
    BY <1>a, <1>19 DEF WriteDone, RecycleBuffer
  <2> QED  BY <1>19, <2>1 DEF WriteDone, RecycleBuffer, Signalled, EndOfStream
<1>20. CASE WriteDoneAtEnd
  <2>1. event \in mBufPool /\ mEmptyQueue' # {}
    BY <1>a, <1>20 DEF WriteDoneAtEnd, RecycleBuffer
  <2> QED  BY <1>20, <2>1 DEF WriteDoneAtEnd, RecycleBuffer
<1>21. CASE PostEOSFromEvent
  <2>1. wpc = "wait" => mEmptyQueue # {}
    BY <1>a, <1>21 DEF PostEOSFromEvent, QueueInv, DrainedAtEOS
  <2> QED  BY <1>21, <2>1 DEF PostEOSFromEvent, Signalled
<1>22. CASE SuspendSession
  BY <1>22 DEF SuspendSession, AUDIO_STOP
<1>23. CASE SuspendNoted
  BY <1>23 DEF SuspendNoted
<1>24. CASE SetObserver
  BY <1>24 DEF SetObserver
<1>25. CASE Pause
  BY <1>25 DEF Pause, AUDIO_PAUSE
<1>26. CASE PauseNoted
  BY <1>26 DEF PauseNoted
<1>27. CASE Start
  BY <1>27 DEF Start
<1>28. CASE ResumeDriver
  BY <1>28 DEF ResumeDriver, AUDIO_PAUSE
<1>29. CASE ConfigFails
  BY <1>29 DEF ConfigFails
<1>30. CASE StartDriver
  BY <1>30 DEF StartDriver, AUDIO_START
<1>31. CASE StartNoted
  BY <1>31 DEF StartNoted
<1>32. CASE Flush
  BY <1>32 DEF Flush
<1>33. CASE FlushQueues
  <2>1. ~TornDown
    BY <1>33 DEF FlushQueues
  <2>2. mEmptyQueue \subseteq mBufPool
    BY <1>a, <2>1
  <2>3. mBufPool = {} => mEmptyQueue = {}
    BY <2>2
  <2> QED  BY <1>33, <2>1, <2>2 DEF FlushQueues
<1>34. CASE FlushDriver
  <2>1. mEmptyQueue = mBufPool
    BY <1>34 DEF FlushDriver, FlushInv
  <2>2. \/ mSkipWrite \in flags' \/ wpc' = wpc
        \/ mEosEventReceived \in flags
    BY <1>34 DEF FlushDriver, FlushSucceeds, FlushFails
  <2>3. mSkipWrite \in flags => mSkipWrite \in flags'
    BY <1>34 DEF FlushDriver, FlushSucceeds, FlushFails
  <2>4. mEosEventReceived \notin flags => mEosEventReceived \notin flags'
    <3>1. CASE FlushSucceeds
      BY <3>1 DEF FlushSucceeds
    <3>2. CASE FlushFails
      <4>1. \/ flags' = flags \ {mReachedEOS}
            \/ flags' = (flags \ {mReachedEOS}) \cup {mSkipWrite}
        BY <3>2 DEF FlushFails
      <4> QED  BY <4>1
    <3> QED  BY <1>34, <3>1, <3>2 DEF FlushDriver
  <2>5. cpc' = "idle" /\ UNCHANGED <<mBufPool, mEmptyQueue, epc>>
    BY <1>34 DEF FlushDriver
  <2>6. wpc' = wpc \/ wpc' = Signalled
    BY <1>34 DEF FlushDriver, FlushSucceeds, FlushFails
  <2> QED  BY <1>34, <2>1, <2>2, <2>3, <2>4, <2>5, <2>6 DEF FlushDriver, Signalled
<1>35. CASE Stop
  BY <1>35 DEF Stop, Signalled
<1>36. CASE Destroy
  BY <1>36 DEF Destroy, Signalled
<1>37. CASE Reset
  BY <1>37 DEF Reset, AUDIO_STOP
<1>38. CASE ResetNoted
  BY <1>38 DEF ResetNoted
<1>39. CASE RequestEventThreadExit
  BY <1>39 DEF RequestEventThreadExit, AUDIO_ABORT_GET_EVENT
<1>40. CASE JoinEventThread
  BY <1>40 DEF JoinEventThread
<1>41. CASE FreeEmptyQueue
  BY <1>a, <1>41 DEF FreeEmptyQueue
<1>42. CASE FreeFilledQueue
  BY <1>a, <1>42 DEF FreeFilledQueue
<1>43. CASE Hardware
  BY <1>43 DEF Hardware, HardwareStep, Play, SuspendRequest
<1>44. CASE UNCHANGED vars
  BY <1>44 DEF vars, driverVars, pcVars, callVars, lockVars, queueVars, history
<1> QED
  BY <1>1, <1>2, <1>3, <1>4, <1>5, <1>6, <1>7, <1>8, <1>9, <1>10, <1>11,
      <1>12, <1>13, <1>14, <1>15, <1>16, <1>17, <1>18, <1>19, <1>20, <1>21, <1>22,
      <1>23, <1>24, <1>25, <1>26, <1>27, <1>28, <1>29, <1>30, <1>31, <1>32, <1>33,
      <1>34, <1>35, <1>36, <1>37, <1>38, <1>39, <1>40, <1>41, <1>42, <1>43, <1>44
     DEF Next, WriterStep, WriterCall, EventThreadStep, ControllerStep, ControlCall, Finished

LEMMA AnnounceInit == Init => AnnouncedBufferIsThere /\ WokenInv /\ PoolInv
<1> SUFFICES ASSUME Init PROVE AnnouncedBufferIsThere /\ WokenInv /\ PoolInv
  OBVIOUS
<1>1. Queued = {}
  BY DEF Init, Held, Queued
<1> QED
  BY <1>1 DEF Init, DeviceOpened, AnnouncedBufferIsThere, WokenInv, PoolInv, TornDown, Live,
              Handled, NoBuffer, mGenerateEOS, mEventThreadAlive, mIsDriverStarted,
              mEosEventReceived

(* When isBufferAvailable() has said so, a buffer is there until write()     *)
(* dequeues it, whatever ioctls and allocations fail.  A writer woken for no *)
(* reason, or by an event that was never fetched, would not look again.      *)
THEOREM AnnouncedIsThere ==
  ASSUME {"interrupt", "spurious"} \cap Faults = {}
  PROVE  Spec => []AnnouncedBufferIsThere
<1> DEFINE Inv == /\ TypeOK /\ LockOwnership /\ QueueInv /\ TeardownInv
                  /\ FlushInv /\ PoolInv /\ AnnouncedBufferIsThere /\ WokenInv
<1>1. Inv /\ [Next]_vars => Inv'
  BY TypeStep, LockStep, QueueStep, TeardownStep, FlushStep, PoolStep, AnnounceStep
<1>2. Init => Inv
  BY TypeInit, LockInit, QueueInit, TeardownInit, FlushInit, AnnounceInit
<1> QED  BY <1>1, <1>2, PTL DEF Spec
============================================================================
