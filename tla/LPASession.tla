----------------------------- MODULE LPASession -----------------------------
(***************************************************************************)
(* AudioHardware::AudioSessionOutLPA (audio/AudioHardware.cpp): one playback*)
(* session on the low-power decoder.  Three threads share it:               *)
(*                                                                          *)
(*   the writer      the client's decode thread; it asks isBufferAvailable()*)
(*                   and, when told there is a buffer, calls write();       *)
(*   the controller  the client's control thread: start(), pause(), flush(),*)
(*                   stop(), setObserver() and the destructor;              *)
(*   the event thread eventThreadEntry(), which fetches driver events.      *)
(*                                                                          *)
(* The actions are the stretches of code between two points where another   *)
(* thread can matter: the acquisition of a mutex that may be contended, the *)
(* wait on mWriteCv, and each access to a flag that no mutex protects.      *)
(* mFilledQueueMutex is held across such a point only by the event thread,  *)
(* and mEmptyQueueMutex only by a writer about to wait, so the short        *)
(* sections of the other threads are guards "is free" and not owners.       *)
(*                                                                          *)
(* The queues are sets: BufferConservation shows that a buffer is never in  *)
(* a queue twice.                                                           *)
(***************************************************************************)
EXTENDS LPADriver

CONSTANTS
  ControlOps,      (* the control operations the client uses                 *)
  NoEvent          (* cur_pcmdec_event before the first event                *)

AllControlOps == {"start", "pause", "flush", "stop", "setObserver", "close"}

ASSUME SessionAssumption ==
  /\ ControlOps \subseteq AllControlOps
  /\ NoEvent \notin Buffers \cup {Suspend}

VARIABLES
  wpc, cpc, epc,            (* where writer, controller, event thread are    *)
  wsize,                    (* size class of the write in progress           *)
  wbuf,                     (* the buffer write() has dequeued: {} or one    *)
  event,                    (* cur_pcmdec_event: the last event fetched      *)
  mLock,                    (* its owner                                     *)
  mEmptyQueueMutex,         (* its owner, when held across steps             *)
  mFilledQueueMutex,        (* its owner, when held across steps             *)
  mBufPool, mEmptyQueue, mFilledQueue,
  freed,                    (* buffers bufferDeAlloc() has released          *)
  flags,                    (* the members, of those below, that are true    *)
  posted,                   (* history: EOS posts since the last flush, <= 2 *)
  marks                     (* history: what, of the below, has happened     *)

pcVars    == <<wpc, cpc, epc>>
callVars  == <<wsize, wbuf, event>>
lockVars  == <<mLock, mEmptyQueueMutex, mFilledQueueMutex>>
queueVars == <<mBufPool, mEmptyQueue, mFilledQueue, freed>>
history   == <<posted, marks>>
vars == <<driverVars, pcVars, callVars, lockVars, queueVars, flags, history>>

(* The Boolean members; mObserver is true when it is not NULL.               *)
mPaused == "mPaused"
mIsDriverStarted == "mIsDriverStarted"
mGenerateEOS == "mGenerateEOS"
mReachedEOS == "mReachedEOS"
mSkipWrite == "mSkipWrite"
mEosEventReceived == "mEosEventReceived"
mEventThreadAlive == "mEventThreadAlive"
mKillEventThread == "mKillEventThread"
mObserver == "mObserver"
Flags == {mPaused, mIsDriverStarted, mGenerateEOS, mReachedEOS, mSkipWrite,
          mEosEventReceived, mEventThreadAlive, mKillEventThread, mObserver}

(* The history marks: flush() has emptied the queues; the client has written *)
(* its stream's end since; no flush() since the writer's current             *)
(* isBufferAvailable() began.                                                *)
flushed == "flushed"
ended == "ended"
fresh == "fresh"
Marks == {flushed, ended, fresh}

Sizes == {"full", "short", "zero"}
Nobody == "nobody"
Writer == "writer"
Controller == "controller"
EventThread == "eventThread"
NoBuffer == {}

WriterPCs == {"idle", "gap", "wait", "relock", "ready",
              "dequeue", "fill", "submit", "mark", "eos", "corrupt"}
ControllerPCs == {"idle", "pausing", "starting", "resuming", "started", "flushing",
                  "flushDriver", "reset", "stopped", "exit", "join", "freeEmpty",
                  "freeFilled", "dead"}
EventPCs == {"entry", "get", "blocked", "lock", "done", "fsync",
             "suspend", "suspended", "exiting", "dead"}

ThreadsOK ==
  /\ wpc \in WriterPCs /\ cpc \in ControllerPCs /\ epc \in EventPCs
  /\ wsize \in Sizes
  /\ wbuf \in SUBSET Buffers
  /\ event \in Buffers \cup {Suspend, NoEvent}
  /\ mLock \in {Nobody, Writer, Controller, EventThread}
  /\ mEmptyQueueMutex \in {Nobody, Writer}
  /\ mFilledQueueMutex \in {Nobody, EventThread}

QueuesOK ==
  /\ mBufPool \in SUBSET Buffers
  /\ mEmptyQueue \in SUBSET Buffers
  /\ mFilledQueue \in SUBSET Buffers
  /\ freed \in SUBSET Buffers

TypeOK ==
  /\ DriverTypeOK /\ ThreadsOK /\ QueuesOK
  /\ flags \in SUBSET Flags /\ marks \in SUBSET Marks
  /\ posted \in 0..2

(* The destructor has been entered: the client starts no further call.       *)
Closing == cpc \in {"reset", "stopped", "exit", "join", "freeEmpty", "freeFilled", "dead"}

(* The session ends with the object: nothing is done to it afterwards.       *)
Live == cpc # "dead"

----------------------------------------------------------------------------
(* The definitions named ...Variant are the definition of that name with one *)
(* plausible mistake; no specification uses them.  Each breaks one property. *)

(* One buffer too many is registered, one that memBufferAlloc() did not make.*)
bufferAllocVariant == mBufPool = Buffers \cup {NoEvent} /\ mEmptyQueue = mBufPool

(* The constructor: flags, openAudioSessionDevice() with start() and         *)
(* bufferAlloc(), then createEventThread().  A failing start() is not        *)
(* noticed, and neither is a failing allocation: the session is returned     *)
(* to the client all the same.                                               *)
DeviceOpened ==
  \/ afd = "open" /\ decoder = "running"
     /\ flags = {mGenerateEOS, mEventThreadAlive, mIsDriverStarted}
  \/ /\ "ioctl" \in Faults
     /\ afd \in {"open", "closed"}    \* AUDIO_START or the configuration failed
     /\ decoder = "stopped"
     /\ flags = {mGenerateEOS, mEventThreadAlive}

bufferAlloc ==
  /\ mBufPool \in IF "ion" \in Faults THEN SUBSET Buffers ELSE {Buffers}
  /\ mEmptyQueue = mBufPool

Init ==
  /\ DeviceOpened
  /\ submitted = <<>> /\ events = <<>> /\ abort = "none"
  /\ bufferAlloc
  /\ mFilledQueue = {} /\ freed = {}
  /\ wpc = "idle" /\ cpc = "idle" /\ epc = "entry"
  /\ wsize = "full" /\ wbuf = NoBuffer /\ event = NoEvent
  /\ mLock = Nobody /\ mEmptyQueueMutex = Nobody /\ mFilledQueueMutex = Nobody
  /\ posted = 0 /\ marks = {fresh}

(* mWriteCv.signal(): the writer is the only thread that ever waits.         *)
Signalled == IF wpc = "wait" THEN "relock" ELSE wpc

OnePostMore == IF posted < 2 THEN posted + 1 ELSE posted

----------------------------------------------------------------------------
(* The writer: isBufferAvailable().                                          *)

(* A buffer is there, or mLock is given up before the wait; mEmptyQueueMutex *)
(* stays with the writer until it waits.                                     *)
IsBufferAvailable ==
  /\ wpc \in {"idle", "ready"} /\ ~Closing
  /\ mLock = Nobody /\ mEmptyQueueMutex = Nobody
  /\ IF mEmptyQueue # {}
       THEN wpc' = "ready" /\ UNCHANGED mEmptyQueueMutex
       ELSE wpc' = "gap" /\ mEmptyQueueMutex' = Writer
  /\ marks' = marks \cup {fresh}
  /\ UNCHANGED <<driverVars, cpc, epc, callVars, mLock, mFilledQueueMutex, queueVars,
                 flags, posted>>

(* mWriteCv.wait(mEmptyQueueMutex)                                           *)
WaitForBuffer ==
  /\ Live /\ wpc = "gap"
  /\ wpc' = "wait"
  /\ mEmptyQueueMutex' = Nobody
  /\ UNCHANGED <<driverVars, cpc, epc, callVars, mLock, mFilledQueueMutex, queueVars,
                 flags, history>>

(* A condition variable may wake its waiter without a signal.                *)
SpuriousWakeup ==
  /\ "spurious" \in Faults
  /\ Live /\ wpc = "wait"
  /\ wpc' = "relock"
  /\ UNCHANGED <<driverVars, cpc, epc, callVars, lockVars, queueVars, flags, history>>

(* After the wait only mSkipWrite is looked at, not the queue.               *)
CheckSkipAfterWait ==
  /\ Live /\ wpc = "relock"
  /\ mLock = Nobody
  /\ wpc' = IF mSkipWrite \in flags THEN "idle" ELSE "ready"
  /\ flags' = flags \ {mSkipWrite}
  /\ UNCHANGED <<driverVars, cpc, epc, callVars, lockVars, queueVars, history>>

(* The writer: write().  The client calls it with the buffer announced to    *)
(* it, and sends nothing but empty writes once it has written a stream's end.*)

(* mSkipWrite drops a full buffer and turns a short one into an empty write. *)
BeginWrite(size) ==
  /\ wpc = "ready" /\ ~Closing
  /\ ended \in marks => size = "zero"
  /\ Len(submitted) + Len(events) < MaxOutstanding
  /\ mLock = Nobody
  /\ flags' = flags \ {mSkipWrite}
  /\ marks' = IF size # "full" /\ fresh \in marks THEN marks \cup {ended} ELSE marks
  /\ IF mSkipWrite \in flags /\ size = "full"
       THEN wpc' = "idle" /\ UNCHANGED <<wsize, mLock>>
       ELSE /\ wpc' = "dequeue"
            /\ wsize' = IF mSkipWrite \in flags THEN "zero" ELSE size
            /\ mLock' = Writer
  /\ UNCHANGED <<driverVars, cpc, epc, wbuf, event, mEmptyQueueMutex,
                 mFilledQueueMutex, queueVars, posted>>

(* The front of mEmptyQueue, whether or not it has one.  An empty write puts *)
(* it back at once.                                                          *)
DequeueBuffer ==
  /\ Live /\ wpc = "dequeue"
  /\ mEmptyQueueMutex = Nobody
  /\ \/ /\ mEmptyQueue = {}
        /\ wpc' = "corrupt"
        /\ UNCHANGED <<wbuf, mEmptyQueue, flags>>
     \/ /\ mEmptyQueue # {} /\ wsize = "zero"
        /\ wpc' = "eos"
        /\ flags' = flags \cup {mReachedEOS}
        /\ UNCHANGED <<wbuf, mEmptyQueue>>
     \/ /\ wsize # "zero"
        /\ wpc' = "fill"
        /\ \E b \in mEmptyQueue :
             wbuf' = {b} /\ mEmptyQueue' = mEmptyQueue \ {b}
        /\ UNCHANGED flags
  /\ UNCHANGED <<driverVars, cpc, epc, wsize, event, lockVars, mBufPool, mFilledQueue,
                 freed, history>>

(* EOS is posted without asking whether it was posted before.                *)
PostEOSFromWriteVariant ==
  /\ Live /\ wpc = "eos"
  /\ mFilledQueueMutex = Nobody
  /\ IF mFilledQueue = {}
       THEN /\ flags' = flags \cup {mEosEventReceived}
            /\ posted' = IF mObserver \in flags THEN OnePostMore ELSE posted
       ELSE UNCHANGED <<flags, posted>>
  /\ mLock' = Nobody
  /\ wpc' = "idle"
  /\ UNCHANGED <<driverVars, cpc, epc, callVars, mEmptyQueueMutex, mFilledQueueMutex,
                 queueVars, marks>>

(* The end of an empty write: EOS is posted here only if nothing is playing. *)
PostEOSFromWrite ==
  /\ Live /\ wpc = "eos"
  /\ mFilledQueueMutex = Nobody
  /\ IF mFilledQueue = {} /\ mEosEventReceived \notin flags
       THEN /\ flags' = flags \cup {mEosEventReceived}
            /\ posted' = IF mObserver \in flags THEN OnePostMore ELSE posted
       ELSE UNCHANGED <<flags, posted>>
  /\ mLock' = Nobody
  /\ wpc' = "idle"
  /\ UNCHANGED <<driverVars, cpc, epc, callVars, mEmptyQueueMutex, mFilledQueueMutex,
                 queueVars, marks>>

EnqueueFilled ==
  /\ Live /\ wpc = "fill"
  /\ mFilledQueueMutex = Nobody
  /\ mFilledQueue' = mFilledQueue \cup wbuf
  /\ wpc' = "submit"
  /\ UNCHANGED <<driverVars, cpc, epc, callVars, lockVars, mBufPool, mEmptyQueue,
                 freed, flags, history>>

(* The buffer goes to a started driver only; a failing ioctl is logged.      *)
SubmitToDriver ==
  /\ Live /\ wpc = "submit"
  /\ IF mIsDriverStarted \in flags
       THEN \E ok \in IoctlOutcomes, b \in wbuf : AUDIO_ASYNC_WRITE(ok, b)
       ELSE UNCHANGED driverVars
  /\ wbuf' = NoBuffer
  /\ IF wsize = "short"
       THEN wpc' = "mark" /\ UNCHANGED mLock
       ELSE wpc' = "idle" /\ mLock' = Nobody
  /\ UNCHANGED <<cpc, epc, wsize, event, mEmptyQueueMutex, mFilledQueueMutex,
                 queueVars, flags, history>>

(* "Last buffer case"                                                        *)
MarkLastBuffer ==
  /\ Live /\ wpc = "mark"
  /\ flags' = flags \cup {mReachedEOS}
  /\ mLock' = Nobody
  /\ wpc' = "idle"
  /\ UNCHANGED <<driverVars, cpc, epc, callVars, mEmptyQueueMutex, mFilledQueueMutex,
                 queueVars, history>>

----------------------------------------------------------------------------
(* The event thread: eventThreadEntry().                                     *)

EventThreadEntry ==
  /\ epc = "entry"
  /\ flags' = IF mKillEventThread \in flags
                THEN flags \ {mEventThreadAlive} ELSE flags \cup {mEventThreadAlive}
  /\ epc' = IF mKillEventThread \in flags THEN "dead" ELSE "get"
  /\ UNCHANGED <<driverVars, wpc, cpc, callVars, lockVars, queueVars, history>>

(* ioctl(afd, AUDIO_GET_EVENT): EBADF on a closed descriptor, else it blocks.*)
CallGetEvent ==
  /\ epc = "get"
  /\ epc' = IF afd = "open" THEN "blocked" ELSE "exiting"
  /\ UNCHANGED <<driverVars, wpc, cpc, callVars, lockVars, queueVars, flags, history>>

(* What the handler of an event starts with: mLock, or the test of mPaused.  *)
HandlerOf(e) ==
  IF e \in Buffers THEN "lock"
  ELSE IF e = Suspend /\ mPaused \in flags THEN "suspend" ELSE "get"

FetchEvent ==
  /\ epc = "blocked" /\ abort = "none"
  /\ events # <<>>
  /\ event' = Head(events)
  /\ events' = Tail(events)
  /\ epc' = HandlerOf(Head(events))
  /\ UNCHANGED <<afd, decoder, submitted, abort, wpc, cpc, wsize, wbuf, lockVars,
                 queueVars, flags, history>>

(* An interrupted ioctl is not told from a successful one: the event fetched *)
(* last is handled again.  Before the first one cur_pcmdec_event is not      *)
(* initialized: its type can be any, its buffer is none of the session's.    *)
FetchInterrupted ==
  /\ "interrupt" \in Faults
  /\ epc = "blocked" /\ abort = "none"
  /\ epc' \in IF event = NoEvent
               THEN {HandlerOf(e) : e \in Buffers \cup {Suspend, NoEvent}}
               ELSE {HandlerOf(event)}
  /\ UNCHANGED <<driverVars, wpc, cpc, callVars, lockVars, queueVars, flags, history>>

(* The driver answers an abort with ENODEV.                                  *)
FetchAborted ==
  /\ epc = "blocked" /\ abort = "pending"
  /\ abort' = "none"
  /\ epc' = "exiting"
  /\ UNCHANGED <<afd, decoder, submitted, events, wpc, cpc, callVars, lockVars,
                 queueVars, flags, history>>

EventThreadExit ==
  /\ epc = "exiting"
  /\ flags' = flags \ {mEventThreadAlive}
  /\ epc' = "dead"
  /\ UNCHANGED <<driverVars, wpc, cpc, callVars, lockVars, queueVars, history>>

LockForWriteDone ==
  /\ epc = "lock"
  /\ mLock = Nobody
  /\ mLock' = EventThread
  /\ epc' = "done"
  /\ UNCHANGED <<driverVars, wpc, cpc, callVars, mEmptyQueueMutex, mFilledQueueMutex,
                 queueVars, flags, history>>

(* A return from the handler that leaves mFilledQueueMutex locked.           *)
IgnoreWriteDoneVariant ==
  /\ epc = "done"
  /\ event \notin mFilledQueue
  /\ wpc' = Signalled
  /\ mLock' = Nobody /\ mFilledQueueMutex' = EventThread
  /\ epc' = "get"
  /\ UNCHANGED <<driverVars, cpc, callVars, mEmptyQueueMutex, queueVars, flags, history>>

(* AUDIO_EVENT_WRITE_DONE, with both queue mutexes taken in turn.  A buffer  *)
(* that is not in mFilledQueue any more is ignored; the writer is signalled  *)
(* either way.                                                               *)
IgnoreWriteDone ==
  /\ epc = "done"
  /\ event \notin mFilledQueue
  /\ wpc' = Signalled
  /\ mLock' = Nobody
  /\ epc' = "get"
  /\ UNCHANGED <<driverVars, cpc, callVars, mEmptyQueueMutex, mFilledQueueMutex,
                 queueVars, flags, history>>

(* Any drained queue is taken for the end of the stream.                     *)
EndOfStreamVariant == mFilledQueue = {event} /\ mGenerateEOS \in flags

EndOfStream == mFilledQueue = {event} /\ {mReachedEOS, mGenerateEOS} \subseteq flags

(* The first filled buffer is recycled, not the one that matched.            *)
RecycleBufferVariant ==
  /\ \E b \in mFilledQueue : mFilledQueue' = mFilledQueue \ {b}
                            /\ mEmptyQueue' = mEmptyQueue \cup {b}
  /\ UNCHANGED <<mBufPool, freed>>

RecycleBuffer ==
  /\ mFilledQueue' = mFilledQueue \ {event}
  /\ mEmptyQueue' = mEmptyQueue \cup {event}
  /\ UNCHANGED <<mBufPool, freed>>

WriteDone ==
  /\ epc = "done"
  /\ mFilledQueueMutex = Nobody /\ mEmptyQueueMutex = Nobody
  /\ event \in mFilledQueue
  /\ ~(EndOfStream /\ mObserver \in flags)
  /\ RecycleBuffer
  /\ flags' = IF EndOfStream THEN flags \cup {mEosEventReceived} ELSE flags
  /\ wpc' = Signalled
  /\ mLock' = Nobody
  /\ epc' = "get"
  /\ UNCHANGED <<driverVars, cpc, callVars, mEmptyQueueMutex, mFilledQueueMutex,
                 history>>

(* mFilledQueueMutex is given up around fsync() as well.                     *)
WriteDoneAtEndVariant ==
  /\ epc = "done"
  /\ mFilledQueueMutex = Nobody /\ mEmptyQueueMutex = Nobody
  /\ event \in mFilledQueue
  /\ EndOfStream /\ mObserver \in flags
  /\ RecycleBuffer
  /\ flags' = flags \cup {mEosEventReceived}
  /\ mLock' = Nobody
  /\ epc' = "fsync"
  /\ UNCHANGED <<driverVars, wpc, cpc, callVars, mEmptyQueueMutex, mFilledQueueMutex,
                 history>>

(* At the end of the stream mLock is given up around fsync(), and            *)
(* mFilledQueueMutex is not.                                                 *)
WriteDoneAtEnd ==
  /\ epc = "done"
  /\ mFilledQueueMutex = Nobody /\ mEmptyQueueMutex = Nobody
  /\ event \in mFilledQueue
  /\ EndOfStream /\ mObserver \in flags
  /\ RecycleBuffer
  /\ flags' = flags \cup {mEosEventReceived}
  /\ mFilledQueueMutex' = EventThread
  /\ mLock' = Nobody
  /\ epc' = "fsync"
  /\ UNCHANGED <<driverVars, wpc, cpc, callVars, mEmptyQueueMutex, history>>

(* mLock.lock(), mObserver->postEOS(0), both mutexes released, signal.       *)
PostEOSFromEvent ==
  /\ epc = "fsync"
  /\ mLock = Nobody
  /\ posted' = OnePostMore
  /\ mFilledQueueMutex' = Nobody
  /\ wpc' = Signalled
  /\ epc' = "get"
  /\ UNCHANGED <<driverVars, cpc, callVars, mLock, mEmptyQueueMutex, queueVars, flags,
                 marks>>

(* AUDIO_EVENT_SUSPEND of a paused session, without any lock.                *)
SuspendSession ==
  /\ epc = "suspend"
  /\ flags' = flags \ {mReachedEOS}
  /\ \E ok \in IoctlOutcomes : AUDIO_STOP(ok)
  /\ epc' = "suspended"
  /\ UNCHANGED <<wpc, cpc, callVars, lockVars, queueVars, history>>

SuspendNoted ==
  /\ epc = "suspended"
  /\ flags' = flags \ {mIsDriverStarted}
  /\ epc' = "get"
  /\ UNCHANGED <<driverVars, wpc, cpc, callVars, lockVars, queueVars, history>>

----------------------------------------------------------------------------
(* The controller.                                                           *)

SetObserver ==
  /\ cpc = "idle" /\ "setObserver" \in ControlOps
  /\ flags' = flags \cup {mObserver}
  /\ UNCHANGED <<driverVars, pcVars, callVars, lockVars, queueVars, history>>

Pause ==
  /\ cpc = "idle" /\ "pause" \in ControlOps
  /\ \E ok \in IoctlOutcomes : AUDIO_PAUSE(ok, TRUE)
  /\ cpc' = "pausing"
  /\ UNCHANGED <<wpc, epc, callVars, lockVars, queueVars, flags, history>>

(* mPaused is set whether or not the driver paused.                          *)
PauseNoted ==
  /\ cpc = "pausing"
  /\ flags' = flags \cup {mPaused}
  /\ cpc' = "idle"
  /\ UNCHANGED <<driverVars, wpc, epc, callVars, lockVars, queueVars, history>>

(* start() resumes a paused started driver and starts it in every other case.*)
Start ==
  /\ cpc = "idle" /\ "start" \in ControlOps
  /\ flags' = flags \ {mPaused}
  /\ cpc' = IF {mPaused, mIsDriverStarted} \subseteq flags THEN "resuming" ELSE "starting"
  /\ UNCHANGED <<driverVars, wpc, epc, callVars, lockVars, queueVars, history>>

ResumeDriver ==
  /\ cpc = "resuming"
  /\ \E ok \in IoctlOutcomes : AUDIO_PAUSE(ok, FALSE)
  /\ cpc' = "idle"
  /\ UNCHANGED <<wpc, epc, callVars, lockVars, queueVars, flags, history>>

(* AUDIO_GET_CONFIG or AUDIO_SET_CONFIG failed: the descriptor is closed.    *)
ConfigFails ==
  /\ cpc = "starting"
  /\ afd = "open" /\ FALSE \in IoctlOutcomes
  /\ afd' = "closed"
  /\ cpc' = "idle"
  /\ UNCHANGED <<decoder, submitted, events, abort, wpc, epc, callVars, lockVars,
                 queueVars, flags, history>>

StartDriver ==
  /\ cpc = "starting"
  /\ \E ok \in IoctlOutcomes :
       AUDIO_START(ok) /\ cpc' = IF ok THEN "started" ELSE "idle"
  /\ UNCHANGED <<wpc, epc, callVars, lockVars, queueVars, flags, history>>

StartNoted ==
  /\ cpc = "started"
  /\ flags' = flags \cup {mIsDriverStarted}
  /\ cpc' = "idle"
  /\ UNCHANGED <<driverVars, wpc, epc, callVars, lockVars, queueVars, history>>

Flush ==
  /\ cpc = "idle" /\ "flush" \in ControlOps
  /\ mLock = Nobody
  /\ mLock' = Controller
  /\ cpc' = "flushing"
  /\ UNCHANGED <<driverVars, wpc, epc, callVars, mEmptyQueueMutex, mFilledQueueMutex,
                 queueVars, flags, history>>

(* The filled queue is not cleared.                                          *)
FlushQueuesVariant ==
  /\ cpc = "flushing"
  /\ mFilledQueueMutex = Nobody /\ mEmptyQueueMutex = Nobody
  /\ mEmptyQueue' = mBufPool
  /\ cpc' = "flushDriver"
  /\ posted' = 0 /\ marks' = {flushed}
  /\ UNCHANGED <<driverVars, wpc, epc, callVars, lockVars, mBufPool, mFilledQueue,
                 freed, flags>>

(* Every buffer of the pool goes to mEmptyQueue.                             *)
FlushQueues ==
  /\ cpc = "flushing"
  /\ mFilledQueueMutex = Nobody /\ mEmptyQueueMutex = Nobody
  /\ mEmptyQueue' = mBufPool
  /\ mFilledQueue' = {}
  /\ cpc' = "flushDriver"
  /\ posted' = 0 /\ marks' = {flushed}
  /\ UNCHANGED <<driverVars, wpc, epc, callVars, lockVars, mBufPool, freed, flags>>

(* The writer is not signalled.                                              *)
FlushSucceedsVariant ==
  /\ TRUE \in IoctlOutcomes
  /\ AUDIO_FLUSH(IF mPaused \in flags THEN "paused" ELSE "running")
  /\ flags' = (flags \ {mEosEventReceived, mReachedEOS}) \cup {mSkipWrite}
  /\ UNCHANGED wpc

(* What flush() does once the queues are reset.  The driver is neither paused*)
(* nor flushed, and no write is skipped, when EOS was already received on a  *)
(* playing session; a failing ioctl leaves the rest undone, the signal       *)
(* included.                                                                 *)
FlushSucceeds ==
  /\ IF mPaused \notin flags /\ mEosEventReceived \in flags
       THEN /\ flags' = flags \ {mEosEventReceived, mReachedEOS}
            /\ UNCHANGED driverVars
       ELSE /\ TRUE \in IoctlOutcomes
            /\ AUDIO_FLUSH(IF mPaused \in flags THEN "paused" ELSE "running")
            /\ flags' = (flags \ {mEosEventReceived, mReachedEOS}) \cup {mSkipWrite}
  /\ wpc' = Signalled

FlushFails ==
  /\ FALSE \in IoctlOutcomes
  /\ \/ /\ {mPaused, mEosEventReceived} \cap flags = {}
        /\ flags' = flags \ {mReachedEOS}
        /\ UNCHANGED driverVars
     \/ /\ {mPaused, mEosEventReceived} \cap flags = {}
        /\ TRUE \in IoctlOutcomes
        /\ AUDIO_PAUSE(TRUE, TRUE)
        /\ flags' = (flags \ {mReachedEOS}) \cup {mSkipWrite}
     \/ /\ mPaused \in flags
        /\ UNCHANGED driverVars \/ (TRUE \in IoctlOutcomes /\ AUDIO_FLUSH("running"))
        /\ flags' = (flags \ {mReachedEOS}) \cup {mSkipWrite}
  /\ UNCHANGED wpc

(* mLock stays locked on the error returns.                                  *)
FlushDriverVariant ==
  /\ cpc = "flushDriver"
  /\ \/ FlushSucceeds /\ mLock' = Nobody
     \/ FlushFails /\ UNCHANGED mLock
  /\ cpc' = "idle"
  /\ UNCHANGED <<epc, callVars, mEmptyQueueMutex, mFilledQueueMutex, queueVars, history>>

FlushDriver ==
  /\ cpc = "flushDriver"
  /\ FlushSucceeds \/ FlushFails
  /\ mLock' = Nobody
  /\ cpc' = "idle"
  /\ UNCHANGED <<epc, callVars, mEmptyQueueMutex, mFilledQueueMutex, queueVars, history>>

(* The writer is signalled, and not told to skip.                            *)
StopVariant ==
  /\ cpc = "idle" /\ "stop" \in ControlOps
  /\ mLock = Nobody
  /\ wpc' = Signalled
  /\ UNCHANGED <<driverVars, cpc, epc, callVars, lockVars, queueVars, flags, history>>

Stop ==
  /\ cpc = "idle" /\ "stop" \in ControlOps
  /\ mLock = Nobody
  /\ flags' = flags \cup {mSkipWrite}
  /\ wpc' = Signalled
  /\ UNCHANGED <<driverVars, cpc, epc, callVars, lockVars, queueVars, history>>

(* The destructor signals the writer without a lock, then calls reset().     *)
Destroy ==
  /\ cpc = "idle" /\ "close" \in ControlOps
  /\ flags' = flags \cup {mSkipWrite}
  /\ wpc' = Signalled
  /\ cpc' = "reset"
  /\ UNCHANGED <<driverVars, epc, callVars, lockVars, queueVars, history>>

Reset ==
  /\ cpc = "reset"
  /\ flags' = flags \ {mGenerateEOS}
  /\ \E ok \in IoctlOutcomes : AUDIO_STOP(ok)
  /\ cpc' = "stopped"
  /\ UNCHANGED <<wpc, epc, callVars, lockVars, queueVars, history>>

ResetNoted ==
  /\ cpc = "stopped"
  /\ flags' = flags \ {mIsDriverStarted}
  /\ cpc' = "exit"
  /\ UNCHANGED <<driverVars, wpc, epc, callVars, lockVars, queueVars, history>>

(* The thread is asked to exit, and not joined.                              *)
NoJoinVariant ==
  /\ cpc = "exit"
  /\ flags' = flags \cup {mKillEventThread}
  /\ \E ok \in IoctlOutcomes : AUDIO_ABORT_GET_EVENT(ok)
  /\ cpc' = "freeEmpty"
  /\ UNCHANGED <<wpc, epc, callVars, lockVars, queueVars, history>>

(* requestAndWaitForEventThreadExit(): a thread that has declared itself     *)
(* dead is not joined.                                                       *)
RequestEventThreadExit ==
  /\ cpc = "exit"
  /\ IF mEventThreadAlive \in flags
       THEN /\ flags' = flags \cup {mKillEventThread}
            /\ \E ok \in IoctlOutcomes : AUDIO_ABORT_GET_EVENT(ok)
            /\ cpc' = "join"
       ELSE /\ cpc' = "freeEmpty"
            /\ UNCHANGED <<driverVars, flags>>
  /\ UNCHANGED <<wpc, epc, callVars, lockVars, queueVars, history>>

JoinEventThread ==
  /\ cpc = "join"
  /\ epc = "dead"
  /\ cpc' = "freeEmpty"
  /\ UNCHANGED <<driverVars, wpc, epc, callVars, lockVars, queueVars, flags, history>>

(* bufferDeAlloc(): the two queues in turn, then the pool; close(afd).       *)
FreeEmptyQueue ==
  /\ cpc = "freeEmpty"
  /\ mEmptyQueueMutex = Nobody
  /\ freed' = freed \cup mEmptyQueue
  /\ mEmptyQueue' = {}
  /\ cpc' = "freeFilled"
  /\ UNCHANGED <<driverVars, wpc, epc, callVars, lockVars, mBufPool, mFilledQueue,
                 flags, history>>

FreeFilledQueue ==
  /\ cpc = "freeFilled"
  /\ mFilledQueueMutex = Nobody
  /\ freed' = freed \cup mFilledQueue
  /\ mFilledQueue' = {}
  /\ mBufPool' = {}
  /\ afd' = "closed"
  /\ cpc' = "dead"
  /\ UNCHANGED <<decoder, submitted, events, abort, wpc, epc, callVars, lockVars,
                 mEmptyQueue, flags, history>>

----------------------------------------------------------------------------
WriterCall ==
  \/ WaitForBuffer \/ CheckSkipAfterWait \/ DequeueBuffer \/ PostEOSFromWrite
  \/ EnqueueFilled \/ SubmitToDriver \/ MarkLastBuffer

WriterStep ==
  \/ IsBufferAvailable \/ SpuriousWakeup
  \/ \E size \in Sizes : BeginWrite(size)
  \/ WriterCall

EventThreadStep ==
  \/ EventThreadEntry \/ CallGetEvent \/ FetchEvent \/ FetchInterrupted \/ FetchAborted
  \/ EventThreadExit \/ LockForWriteDone \/ IgnoreWriteDone \/ WriteDone
  \/ WriteDoneAtEnd \/ PostEOSFromEvent \/ SuspendSession \/ SuspendNoted

ControlCall ==
  \/ PauseNoted \/ ResumeDriver \/ ConfigFails \/ StartDriver \/ StartNoted
  \/ FlushQueues \/ FlushDriver
  \/ Reset \/ ResetNoted \/ RequestEventThreadExit \/ JoinEventThread
  \/ FreeEmptyQueue \/ FreeFilledQueue

ControllerStep ==
  SetObserver \/ Pause \/ Start \/ Flush \/ Stop \/ Destroy \/ ControlCall

Hardware ==
  /\ Live /\ HardwareStep
  /\ UNCHANGED <<pcVars, callVars, lockVars, queueVars, flags, history>>

Finished == ~Live /\ UNCHANGED vars

Next ==
  WriterStep \/ EventThreadStep \/ ControllerStep \/ Hardware \/ Finished

Spec == Init /\ [][Next]_vars

(* Each thread goes on with the call it is in, the event thread always, and  *)
(* a running decoder plays.  A mutex that is free again and again is granted *)
(* in the end: the client pauses between calls far longer than they take.    *)
LockGrants ==
  /\ SF_vars(CheckSkipAfterWait)
  /\ SF_vars(LockForWriteDone)
  /\ SF_vars(PostEOSFromEvent)

Fairness ==
  /\ WF_vars(WriterCall)
  /\ WF_vars(EventThreadStep)
  /\ WF_vars(ControlCall)
  /\ WF_vars(Hardware /\ Play)
  /\ LockGrants

FairSpec == Spec /\ Fairness

----------------------------------------------------------------------------
(* Correctness.                                                              *)

(* The buffer write() holds between the two queues.                          *)
InHand == IF wpc = "fill" THEN wbuf ELSE {}

(* Every allocated buffer is in exactly one place: empty, filled, in the     *)
(* writer's hands between the two, or released by bufferDeAlloc().  flush()  *)
(* refills mEmptyQueue from the pool while a write may be under way, so a    *)
(* lost or doubled buffer would need only one missing lock.                  *)
BufferConservation ==
  /\ mEmptyQueue \cap mFilledQueue = {}
  /\ InHand \cap (mEmptyQueue \cup mFilledQueue) = {}
  /\ freed \cap (mEmptyQueue \cup mFilledQueue \cup InHand) = {}
  /\ Live => mBufPool = mEmptyQueue \cup mFilledQueue \cup InHand \cup freed

(* Each mutex is held exactly by the thread whose code is between its lock   *)
(* and its unlock, also on the early returns of flush() and write() and      *)
(* where eventThreadEntry() unlocks mLock by hand around fsync().            *)
LockOwnership ==
  /\ mLock = Writer <=> wpc \in {"dequeue", "fill", "submit", "mark", "eos", "corrupt"}
  /\ mLock = EventThread <=> epc = "done"
  /\ mLock = Controller <=> cpc \in {"flushing", "flushDriver"}
  /\ mEmptyQueueMutex = Writer <=> wpc = "gap"
  /\ mFilledQueueMutex = EventThread <=> epc = "fsync"

(* "Wait till a empty buffer is available in the Empty buffer queue":        *)
(* whenever isBufferAvailable() says so, and until write() dequeues it, an   *)
(* empty buffer is there (the writer tests only mSkipWrite after the wait).  *)
AnnouncedBufferIsThere ==
  /\ wpc = "corrupt" => cpc \in {"freeFilled", "dead"}
  /\ wpc \in {"ready", "dequeue"} /\ cpc \notin {"freeFilled", "dead"} => mEmptyQueue # {}

(* The destructor frees the queues only when the event thread touches them   *)
(* no more.                                                                  *)
TeardownQuiescent ==
  cpc \in {"freeEmpty", "freeFilled", "dead"} => epc = "dead"

(* What BufferConservation, TeardownQuiescent and the refinement below need   *)
(* to be inductive: write() fills a buffer it has; nothing is enqueued while *)
(* the event thread waits to post EOS with mFilledQueueMutex; buffers are    *)
(* released only by bufferDeAlloc(); the event thread declares itself dead   *)
(* as the last thing it does.                                                *)
BufferInHand == wpc = "fill" => wbuf # NoBuffer
DrainedAtEOS == epc = "fsync" => mFilledQueue = {}
ReleasedLast == cpc \notin {"freeFilled", "dead"} => freed = {}
DeadIsDeclaredLast == mEventThreadAlive \notin flags => epc = "dead"

QueueInv == BufferConservation /\ BufferInHand /\ DrainedAtEOS /\ ReleasedLast
TeardownInv == TeardownQuiescent /\ DeadIsDeclaredLast

SessionInv == TypeOK /\ LockOwnership /\ QueueInv /\ TeardownInv

(* As long as nothing is flushed, EOS is posted only for a stream whose end  *)
(* the client wrote ("Skip the current write from the decoder"), and once,   *)
(* though write() and the event thread can both see the end of the stream.   *)
EOSOnceAtStreamEnd ==
  [][flushed \notin marks /\ posted' > posted => ended \in marks /\ posted = 0]_vars

(* As long as nothing is flushed, what the driver holds or has finished is   *)
(* in mFilledQueue: no buffer is offered to write() while the decoder reads  *)
(* from it.                                                                  *)
AtDriver ==
  {submitted[i] : i \in DOMAIN submitted}
    \cup {events[i] : i \in DOMAIN events}
    \cup (IF epc \in {"lock", "done"} THEN {event} ELSE {})

NoBufferSharedWithDriver ==
  flushed \notin marks => AtDriver \cap Buffers \subseteq mFilledQueue \cup freed

(* flush(): "Skip the current write from the decoder".  The write that       *)
(* mSkipWrite drops belongs to a buffer announced before the flush.          *)
SkipsOnlyStaleWrite ==
  [][wpc = "ready" /\ wpc' = "idle" => fresh \notin marks]_vars

(* "Post EOS in case the filled queue is empty and EOS is reached": when the *)
(* event thread has recycled the last buffer of an observed stream, the      *)
(* observer gets its EOS.                                                    *)
EOSPosted == epc = "fsync" ~> epc # "fsync"

(* A write, a flush and the destructor come to an end: no thread keeps a     *)
(* mutex another one waits for, and the event thread is stopped.             *)
WritesReturn == wpc \in {"dequeue", "fill", "submit", "mark", "eos"} ~> (wpc = "idle" \/ ~Live)
FlushReturns == cpc \in {"flushing", "flushDriver"} ~> cpc = "idle"
CloseReturns == cpc = "reset" ~> cpc = "dead"
CallsReturn == WritesReturn /\ FlushReturns /\ CloseReturns

(* A writer waiting for a buffer when a flush starts is released by it: the  *)
(* signal cannot fall between its look at the queue and its wait.            *)
FlushReleasesWriter ==
  (cpc = "flushing" /\ wpc \in {"gap", "wait"}) ~> (wpc \in {"idle", "ready"} \/ ~Live)

(* The session implements the exchange of buffers it promises.  What is hard  *)
(* to keep is that flush() never empties the queues under a writer holding a  *)
(* buffer, and that no EOS overtakes a buffer still filled or being written.  *)
Exchange == INSTANCE BufferExchange
  WITH empty <- mEmptyQueue, hand <- InHand, filled <- mFilledQueue,
       released <- freed, announced <- posted

ImplementsExchange == Exchange!Spec
=============================================================================
