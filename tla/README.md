# TLA+ models of the msm7x27a device tree

This directory models the parts of `android_device_samsung_msm7x27a-common` that have
state and concurrency of their own. The repository is an Android device tree: hardware
abstraction libraries (audio, power, lights, camera, Bluetooth, health), a radio
interface class, and configuration. Nearly all of its own logic is in `audio/`.

## 1. Inventory

| component | state | operations | hard behaviour | what makes it correct |
|---|---|---|---|---|
| `AudioSessionOutLPA` (`audio/AudioHardware.cpp` 3352-4102) | queues of ION buffers (empty, filled, pool), nine flags, three mutexes, a condition variable, the descriptor of `/dev/msm_pcm_lp_dec` | `isBufferAvailable`, `write`, `start`, `pause`, `flush`, `stop`, `setObserver`, destructor, event thread | three threads; mutexes given up by hand around `wait()` and `fsync()`; flags without a lock; completions that race a flush; suspend; failing ioctls | no buffer lost or doubled, an announced buffer is there, EOS once and only at the end, teardown waits for the event thread, every call returns |
| VoIP pair: `AudioStreamInVoip` (2105-2427), `AudioStreamOutDirect` (2684-2942) | one descriptor `mVoipFd`, flags `mVoipInActive`, `mVoipOutActive`, `mVoipLock`, telephony mode, mute; per stream `mFd`, `mState`/`mStandby`, `mSetupDevice`; `mDirectOutrefCnt` | open, close, first write, reopening read, standby, `setupDeviceforVoipCall`, `setMode` | capture, playback and control threads; most accesses unlocked; two mutexes taken in both orders; error paths that close the shared descriptor | mutexes held by whom the code says, descriptor open when announced, no deadlock, mode of a telephone call kept |
| `AudioHardware` routing (1659-2014) | `mCurSndDevice`, mode, mute, FM descriptor, TTY, Bluetooth | `doRouting`, `doAudioRouteOrMute`, `setMode`, `setMicMute`, `enableFM`, `disableFM`, `setParameters` | cache cleared without the lock; FM overrides mute; pins switched on cached comparisons | the device in use is the one of the last request; FM pins follow the device |
| Stream registry and `AudioStreamInMSM72xx` (407-497, 2976-3268, 4108-4262) | `mInputs`, `InstanceCount`, `mState`, `mFd` | open, read, standby, close | lock given up around the destructor; a static count shared with VoIP inputs | one recording at a time, and always possible again after a close |
| `AudioStreamOutMSM72xx` (2435-2680) | `mStandby`, `mFd` | `set`, `write`, `standby` | post-processing and routing switched with LPA playback | standby closes the driver |
| `AudioPolicyManager` (1767 lines) | connected devices, outputs with reference counts, forced uses, FM mode, phone state | device connection, `startOutput`/`stopOutput`, `startInput`/`stopInput`, `setForceUse`, `setPhoneState` | FM state set before the connection can fail; deferred force use; reference counts | counts balanced, FM state agrees with the connected devices |
| `HardwarePinSwitching.c` | registers of the WCN2243 chip | `switch_mode` | a failure in the middle | BT and FM never both drive the pins |
| Audio HAL wrappers | none of their own | forward to the C++ objects | - | every device the policy uses converted without loss, in both directions |
| Post/pre-processing, calibration parser (85-1240) | coefficient tables, feature flags, the static `snd_device` and feature mask | read file, enable and disable features | a file cut short; statics written without a lock | only features of the device in use run |
| Power HAL | `boostpulse_fd`, `boostpulse_warned`, lock | `powerHint`, `init` | descriptor used outside the lock | one descriptor, never another's closed; the governor in use configured and boosted |
| Camera HAL (not built: its makefile is disabled) | static `qCamera` | open, close, forwarders, callbacks | callbacks racing close | no callback after close |
| Bluetooth vendor library | static UART descriptor, rfkill state | power, serial open/close | sequences of operations | descriptor closed once |
| Lights HAL, healthd, SamsungRIL, kernel headers, rc scripts, patches, overlays, prebuilt files | little or none | - | - | not modelled, see section 8 |

`AudioFlinger` (outside the repository) calls the audio library: one thread per stream,
and a control thread that opens and closes streams and sets modes. The policy manager
calls `AudioFlinger` to route; `AudioHardware` calls `switch_mode()` and the streams'
`standby()`; streams call back `doRouting()` and `setMode()` on `AudioHardware`, and the
LPA session calls `postEOS()` on its observer. `PROJECT.json` lists the components and
the hazards, each at its line.

## 2. Plan

Done, in this order:

1. `LPADriver`, `LPASession`, `BufferExchange`, `LPASessionProofs`: the low-power session,
   the abstract exchange of buffers it implements, and the proofs.
2. `VoipSession`: the two VoIP streams and `AudioHardware`'s part in them; `VoipSessionProofs`.
3. `AudioRouting`, composed of `PinSwitching` and `AudioPostproc`: routing, mode, mute, FM,
   playback and capture as they change the route; `AudioRoutingProofs`.
4. `AudioPolicy`, and `AudioHal` on top of it: the routes the policy decides and the words
   they travel in; `AudioPolicyProofs` for its counts, caches and modes,
   `AudioPolicyRouteProofs` for its mutes and routes, `AudioHalProofs`.
5. `PowerHAL` with `PowerHALProofs`.
6. `CaptureRegistry` with `CaptureRegistryProofs`: recordings and VoIP uplinks together.

Every safety property of a passing run is proved; what cannot be is listed in section 5.
Left: the hazards without a property in `PROJECT.json`, each with the reason there, and
what the modules leave out, in section 8.

## 3. Modules

### LPADriver
The decoder as the session uses it: one operator per ioctl with its outcome as a
parameter, and two actions of the hardware (`Play`, `SuspendRequest`). It is not part of
the repository; the comment at its head says which code of the session each assumption is
read from. `Faults` selects what may go wrong: failing ioctls, interrupted ioctls, failed
allocations, spurious wakeups of a condition variable.

### LPASession
Three threads, each with a program counter (`wpc`, `cpc`, `epc`). An action is the code
between two points where another thread can matter: acquiring a contended mutex, the wait
on `mWriteCv`, each access to a flag outside a mutex.

| code | actions |
|---|---|
| `isBufferAvailable()` | `IsBufferAvailable`, `WaitForBuffer`, `SpuriousWakeup`, `CheckSkipAfterWait` |
| `write()` | `BeginWrite`, `DequeueBuffer`, `EnqueueFilled`, `SubmitToDriver`, `MarkLastBuffer`, `PostEOSFromWrite` |
| `eventThreadEntry()` | `EventThreadEntry`, `CallGetEvent`, `FetchEvent`, `FetchInterrupted`, `FetchAborted`, `EventThreadExit`; WRITE_DONE: `LockForWriteDone`, `IgnoreWriteDone`, `WriteDone`, `WriteDoneAtEnd`, `PostEOSFromEvent`; SUSPEND: `SuspendSession`, `SuspendNoted` |
| `start()` | `Start`, `ResumeDriver`, `ConfigFails`, `StartDriver`, `StartNoted` |
| `pause()`, `flush()`, `stop()`, `setObserver()` | `Pause`, `PauseNoted`; `Flush`, `FlushQueues`, `FlushDriver`; `Stop`; `SetObserver` |
| destructor, `reset()`, `requestAndWaitForEventThreadExit()`, `bufferDeAlloc()` | `Destroy`, `Reset`, `ResetNoted`, `RequestEventThreadExit`, `JoinEventThread`, `FreeEmptyQueue`, `FreeFilledQueue` |

Abstractions: a buffer is a model value and its data one of three sizes (full, short,
empty); queues are sets, which `BufferConservation` justifies (the order of the queues is
not a subject of any property); the flags are the set of those that are true. Times,
volume and logging are left out. `posted` and `marks` are history variables. A write to
an empty list is the state `"corrupt"`, where the writer stops. The client is assumed to call
`write()` after `isBufferAvailable()` said so, to send nothing but empty writes after the
end of a stream until a flush, and to call the control operations from one thread.

### BufferExchange
What the session promises about its buffers, independent of threads and locks: a buffer
is empty, in a writer's hands, filled or released; it moves one at a time, except that
everything can be taken back when no writer holds one; the end is announced only when
nothing is filled or in hand. `LPASession` instantiates it with the queues and
`posted`.

### VoipSession
A program counter per thread: the control thread, the playback thread and one capture
thread per input. `setupDeviceforVoipCall()` is a subroutine: `after` holds the place to
return to. `open()` and the publication of its result in `mVoipFd` are one step: another
thread that reads `mVoipFd` in between acts as one that read it before the open. `close()`
and the assignments that follow it are two. A failing open is possible when `DriverFails`
and when all `MaxFds` descriptors are open, which stands for the limit of the process.
Formats are accepted (a rejected one leaves no state), frames are not modelled, and a
stream's own thread is idle when the control thread closes it, as `AudioFlinger` does.

### AudioRouting, with PinSwitching and AudioPostproc
Three threads: playback, capture, and one for binder calls. `doRouting()` is three steps
that hold `mLock` (`ChooseDevice` with `doAudioRouteOrMute()`, `ApplyDevice`,
`CacheDevice`), between which the code that does not take `mLock` runs: `ClearForMode`,
`startInput` and `RestoreRoute` clear the cached device, `SwitchOffFmA2dp` the FM flag,
`write` and `standby` of the playback stream use the statics of post-processing. A call
that runs under `mLock` from end to end is one step. A device mask is a set of names, an
endpoint its name; the driver's list of endpoints is a constant, and an endpoint that is
not in it is "none", the code's -1. `hist` holds what the properties need of the past:
whether the last selection was refused, whether the cache was cleared during a routing,
whether the pins' record was lost.

`PinSwitching` gives the registers after the first `n` writes of a `switch_mode()`
(`marimba_write(regs, n)`), where `n` is short of all of them when one fails. `AudioPostproc` has the parser of `AudioFilter.csv` as a fold over its lines,
each of which may be cut short, and which features a device's tables allow.

### AudioPolicy, with AudioHal
The policy manager is a record, and an operator named after a method takes the record
before the call to the one after it; the policy service calls it with its lock held, so
an operation is one action. `setOutputDevice()` is `RouteOutput`, which sets one output
with `RouteOne` and a duplicating one by both its outputs; `RouteAll` does so for a set of
outputs, in the order of the five keys of `mOutputs`. The outputs are those of `audio_policy.conf`, and a
duplicating output when A2DP is connected. `getOutput()` looks a profile up only for a
request with the DIRECT flag, so that one for VOIP_RX alone gets no direct output, which
the instance also asks for. `requested` and `started` are what the clients
asked for, which the properties compare with. `AudioPolicyManagerBase` is not in this
repository: its methods are external, modelled as far as the code here depends on them.
`AudioHal` extends it with the table and the conversion of `audio_hw_hal.cpp`: a device
word is a set of bit numbers, and the routes converted are the ones the policy has in use.

### PowerHAL
Each hint is a sequence of steps between accesses to what the threads share: the lock,
`boostpulse_fd` (read for a test and once more for the write, both without the lock) and
the static `governor`. The kernel's governor changes at any time, and every installation
is an epoch to which a descriptor belongs. Other code of the process opens and closes
descriptors of the same numbers.

### CaptureRegistry
A control thread that opens and closes streams, and a thread per recording that reads it
and puts it into standby. `set()` runs under `mLock` and is one step; a destructor runs
without the lock and is two (`CountDown`, `DestroyStream`) before `RemoveInput`. What a
VoIP uplink does to its driver is in `VoipSession`, what a capture does to the route in
`AudioRouting`.

### Variants
Definitions named `...Variant` are a definition with one plausible mistake; no
specification uses them. Substituted for the original one at a time, each makes TLC
report the property `PROJECT.json` pairs it with, which shows that the property can fail.

## 4. Runs

| run | instance | result |
|---|---|---|
| `lpa_session` | all operations, no faults | type invariant, `BufferConservation`, `AnnouncedBufferIsThere`, `TeardownQuiescent`, refinement of `BufferExchange`; while nothing is flushed, `NoBufferSharedWithDriver` and `EOSOnceAtStreamEnd` |
| `lpa_faults` | start, flush, close; ioctl failures, interrupted ioctls, failed allocations, spurious wakeups | the inductive invariant `SessionInv` holds |
| `lpa_calls_return` | flush and close, no observer, fair threads | writes, flushes and the destructor return; a flush releases the waiting writer |
| `voip_streams` | one input, two opens of the output, failing driver | `VoipTypeOK`, `VoipLockOwnership`, `SharedDescriptorOpen` hold |
| `voip_calls_return` | one input, the output is opened and not closed, fair threads | every call returns |
| `audio_routing` | three threads, three output routes, the low-power session, four capture devices, a failing driver | the cached route, the mute, the pins and post-processing agree with the driver (`CachedRouteIsCurrent`, `MicMuteReachesDriver`, `PinsFollowRoute`, `PostprocMatchesRoute`); `PinsNeverShared`; `CaptureLeavesNothingOn` |
| `audio_policy` | headset, FM, A2DP and SCO devices that come and go, calls, forced uses, direct outputs | counts (`TracksCounted`), modes (`FmModeMatchesConnection`, `ForceUseRemembered`), caches (`CacheIsFresh`), routes (`RoutesFollowPolicy`, `InputFollowsPolicy`, `NothingStaysMuted`), and `RoutesReachHardware` |
| `power_hints` | two threads, two descriptors, changing governors | `NoDescriptorLost`, `ForeignDescriptorsKept`, `GovernorConfigured`; a stale descriptor is replaced (`BoostRecovers`) |
| `capture_registry` | three streams, failing drivers | `InstancesCounted`, `OneActiveInput`, `DescriptorsOwned`; a recording left alone starts again (`RecordingResumes`) |

Runs that end in a violation, each of one statement of the source:

| run | what it shows |
|---|---|
| `lpa_eos_deadlock` | at the end of a stream the event thread waits for `mLock` with `mFilledQueueMutex` held, while `write()` does the opposite |
| `lpa_flush_skip` | a flush with no write under way drops the first buffer written after it |
| `voip_close_deadlock` | closing the last VoIP output calls `setMicMute()` with `mLock` held |

`CHECK_DEADLOCK FALSE` is given where the system may really stop: a writer that waits on a
session stopped by the control thread, the deadlocks listed above, a writer in
`"corrupt"` state, and in `audio_routing` and `audio_policy` the end of the bounded number
of calls. `lpa_calls_return`, `voip_calls_return`, `power_hints` and `capture_registry` also show
that no state of theirs is stuck.

### Bounds
- `Buffers`: two, which is `BUFFER_COUNT`. `MaxOutstanding = 2` bounds buffers at the
  driver plus unfetched events and so how many completions may be late; the guard is on
  the writer's next write and on the hardware's suspend request only.
- `posted` saturates at 2: nothing tells more posts apart.
- `Inputs`: one, the number the code intends (two share one flag and are listed as a hazard).
- `MaxFds`: 2 descriptors let both directions open the driver at once, and one leak;
  `voip_calls_return` has 1, its subject being the mutexes. `MaxOpens = 2` reaches the reference count's two branches.
- `audio_routing`: at most `MaxCalls` calls and `MaxFaults` failing driver calls. A call
  sets a route, a mode or a stream; the properties relate two or three of them (a route, a
  clear of the cache, a route again), and their variants fail within the bound. The
  endpoints leave one out that the code asks for; the calibrations are a whole file and one cut short.
- `audio_policy`: `MaxCalls` operations from the initial state, at most `MaxRefs` tracks of
  a stream on an output. A headset, an FM session, a forced use that it holds back and a
  call are five.
- `power_hints`: two threads are enough for every race on one descriptor; `MaxEpoch` and
  `MaxReadFailures` bound the changes of governor and the unreadable names.
- `capture_registry`: three streams are a recording, an uplink and one that is refused.
  `MaxFailures` bounds the failures of the drivers, without which nothing could ever start.
- Symmetry of the buffers is used in safety runs of the session only; their names occur
  nowhere in the specification.

### Fairness
`LPASession`: weak fairness of the writer's, controller's and event thread's calls under
way and of a running decoder: a thread inside a call is scheduled, and the decoder plays.
Nothing obliges the client to make a call. Three acquisitions of `mLock` have strong
fairness: a mutex that is free again and again is granted, the critical sections being
microseconds and the client's pauses the length of a buffer. `VoipSession`: strong
fairness of each thread's calls under way, for the same reason. `PowerHAL`: weak fairness
of initialisation and of every thread's steps inside a hint, which is what the scheduler
gives; that hints keep coming is a premise of `BoostRecovers`, not an assumption.
`CaptureRegistry`: weak fairness of a recording's reads, which its thread makes in a
loop, and of a destructor that has begun. `AudioRouting` and `AudioPolicy` have safety
properties only and assume none.

## 5. Proofs

Every safety property that a passing run checks on its instance is proved for every value
of the constants. Each proof has an inductive invariant, split into named parts; TLC has
found each of them to hold on the instances before it was proved. A step of it is proved
action by action. The assumptions on the constants are named, stand in the module of the
component, and are evaluated by TLC on every run.

### The low-power session: `LPASessionProofs`

For every set of buffers, every set of faults and operations and every bound:

- `TypeCorrect`, `LocksCorrect`, `BuffersConserved`, `TeardownIsQuiescent`: the named
  properties are invariants of `Spec`, and so is `SessionInv` (`SessionCorrect`).
- `SessionImplementsExchange`: every step is a step of `BufferExchange` or a stutter.
- `EOSIsPostedOnce`: `EOSOnceAtStreamEnd`, with every fault.
- `NoBufferIsShared`: `NoBufferSharedWithDriver`, if no ioctl is interrupted.
- `AnnouncedIsThere`: `AnnouncedBufferIsThere`, if no ioctl is interrupted and no wakeup is
  spurious.

`DriverAssumption` and `SessionAssumption` say that the special events are not buffers,
that the sets are subsets of those named, and that the bound is positive.

`BufferConservation` alone is not inductive: that a write in progress holds a buffer that
no flush returns to the empty queue follows from `mLock`, so `LockOwnership` is needed;
that `EnqueueFilled` and `FlushQueues` do not happen while the event thread waits for
`mLock` at the end of a stream is `DrainedAtEOS` with `LockOwnership`, and gives the
guard of the abstract `AnnounceEnd`; that the pool is conserved while it is released is
`ReleasedLast`. `TeardownQuiescent` needs that a thread that has declared itself dead does
nothing more (`DeadIsDeclaredLast`), since the destructor does not join such a thread.
`SessionInv` is checked by TLC in `lpa_faults`.

The end of the stream is announced once because whoever announces it has drained the queue
and set `mEosEventReceived` (`Drained`, in `EOSInv`); the queues stay as a flush left them
until it gives up `mLock` (`FlushInv`). That the driver's buffers are filled is
`DriverInv`: no buffer is twice at the driver, and the one a completion is being handled for
is no longer there. An interrupted ioctl breaks it and is excluded: the event thread then
handles the event before once more (or one never fetched), and recycles a buffer that the
driver has been given again. That an announced buffer is there needs `PoolInv` (whatever
the driver has is a buffer of the session, while there is one) and `WokenInv` (a woken writer finds a
buffer or is to skip its write). A spurious wakeup breaks that one, because
`isBufferAvailable()` tests the queue with `if` and looks only at `mSkipWrite` after the wait. Both exclusions are hypotheses of the
theorems and the values of `Faults` with which `lpa_session` checks the same properties.

### The VoIP streams: `VoipSessionProofs`

For every set of inputs and descriptors, and every bound: `VoipTypeCorrect`,
`VoipLocksAreOwned` and `SharedDescriptorIsOpen`, from the invariant `VoipInv`: the types,
`VoipLockOwnership` and `SharedDescriptorOpen`. `setupDeviceforVoipCall()` is reached from
four places with different locks held, so ownership is stated by the place to return to. The
deadlock that `voip_close_deadlock` shows has one cause: if the downlink is never closed
(`"closeOut"` is not among `ControlOps`), a thread that holds `mLock` waits for no mutex
(`OnlyCloseOutBreaksLockOrder`), and `setMicMute()` is never called with `mLock` held
(`SetMicMuteIsUnlocked`). `VoipAssumption` names the operations and bounds.

### Routing: `AudioRoutingProofs`

For every list of endpoints, routes, modes, calibrations and any number of calls and
failures: `RoutingTypeCorrect`, `CachedRouteStaysCurrent`, `MicMuteIsInDriver`,
`PinsAreNeverShared`, `PinsAreOfTheRoute`, `PostprocIsOfTheRoute` and
`CapturesLeaveNothingOn`, from the invariant `RoutingInv`. None is inductive alone, as
`doRouting()` is several steps and other threads run between them. `LockInv`: `mLock` is held
exactly by the thread in the middle of `doRouting()`, which has chosen a device of the
driver. `RouteInv`: that device, or the cached one when nobody holds the lock, is in the
driver under the present mode. `PinsInv`: the pins are those of that device, Bluetooth's when
there is none. `StaticsInv`: from the step that enables features on, the statics of
post-processing describe the device in the driver, and what the DSP runs was allowed for the
device they describe. `CaptureInv`: what the capture's thread is doing tells the state of its
stream. `PinsNeverShared` rests on the order of the register writes: wherever they stop, one
function is tri-stated before the other is driven (`SwitchEnds`). `RoutingAssumption` says
that `"CURRENT"` is an endpoint and `"none"` is not, that the registers of the two functions
are different, and names the input devices and TTY modes.

### The policy: `AudioPolicyProofs`, `AudioPolicyRouteProofs`

For every set of devices, configurations, phone states, sources and direct outputs, and any
number of operations, in `AudioPolicyProofs`: `PolicyTypeCorrect`, `TracksAreCounted`,
`CacheStaysFresh`, `FmModeIsOfTheConnection`, `ForceUseIsRemembered` and
`InputStaysOnPolicy`, from `PolicyHolds`. The invariant `PolicyInv` is `PolicyOK` of the
present object: well formed, cache and input up to date (`Good`), `FmAgrees`, `Remembered`,
`Counted`. It is stated of an object because an operation goes through many of them, and at
most of them the cache is stale: a lemma for each operator says what it leaves. The ones
that carry the proof are that routing an output changes nothing a device is computed from
(`Rerouted`, `DeviceReads`), that an update makes the cache what would be computed
(`UpdateRefreshes`), and that closing A2DP's output takes the duplicated tracks off the
primary output exactly (`CloseOutputHolds`).

`AudioPolicyRouteProofs` adds two arguments. `NoMuteIsLeft` (`NothingStaysMuted`) needs the
invariant `QuietInv` (`MutesAreShown`): only the primary output is ever on two devices, as no
VoIP output can be opened and the low-power output plays music only; an output is on one
device, with the speaker and FM perhaps beside it. A strategy muted for its devices therefore
is heard on the speaker, and while it is, the volume device remains the speaker, so that
the temporary mute of `checkDeviceMuteStrategies()` never counts the same mute twice. This also
needs the cached devices to be of that kind (`CacheThin`). `OutputsFollowPolicy`
(`RoutesFollowPolicy`) needs `PolicyInv` only: without A2DP, what the policy reads for an
output is the phone being in a call, the devices, the forced uses, FM and the tracks
(`SameAsk`, `SameAnswer`), so outputs routed in turn all follow at the end
(`RouteAllFollows`, `RouteFromCacheFollows`, the latter because the cache is fresh). Each
operation then either routes every output after its last change of those, or changes them
for the output it routes, or for outputs that do not play.

`PolicyAssumption` names the streams and sources of the source and bounds `MaxRefs`.

### The words of the HAL: `AudioHalProofs`

`RoutesArrive`: `RoutesReachHardware`, for every set of devices the policy may choose, from
`PolicyTypeCorrect` and from the conversion tables being injective on the devices that
outputs support.

### The power HAL: `PowerHALProofs`

For every set of threads and descriptors, every partition of the
governors and all bounds: `PowerTypeCorrect`, `NoDescriptorIsLost`,
`ForeignDescriptorsAreKept` and `GovernorIsConfigured`, from `PowerCorrect`, which states
that `PowerInv` is an invariant. They assume that the model's special values are not
members of the sets, that descriptor 0 is taken, and that the bounds are natural numbers.
The three properties speak of the moments when nobody
holds the lock and are not inductive: `LockOwner` ties the lock to the steps between
`pthread_mutex_lock` and `unlock`, `DescriptorOwned` says what its holder may find (a
descriptor closed and not yet forgotten only at `clear`, none at `open`), `PastEpochs`
that no descriptor belongs to a governor still to come, and `BeingConfigured` that the
one thread between `open()` and the writes of the tunables has in its buffer the
governor the file belongs to, as long as that governor is in use.

### The input streams: `CaptureRegistryProofs`

For every finite set of streams, every set of descriptors
and any number of failures: `CaptureTypeCorrect`, `InstancesAreCounted`,
`OneInputIsActive` and `DescriptorsAreOwned`, from `RegistryHolds`, which states that
`RegistryInv` is an invariant. They assume that there are finitely many streams, that
`"none"` is not one, and that descriptors are natural numbers. The properties are not
inductive alone: that a second recording is refused follows from the count being exact,
and gives `OneRecording`; that the count is exact needs `Teardown` (the stream being
destroyed is alive until its destructor has run, and is not read meanwhile); that
setting a stream again loses no descriptor needs `ClosedHasNoFd`. `SetOutcome` says once
for all three outcomes of `set()` what they leave.

### Only model-checked

- Liveness under fairness, which is out of the prover's reach: `CallsReturn` of the session
  and of the VoIP streams, `FlushReleasesWriter`, `BoostRecovers`, `RecordingResumes`.
- The three statements of the source that the code violates: a counterexample on a small
  instance is all there is to show.
- What the parser of `AudioPostproc` computes for every file: it is a fold over the lines, and
  an induction over data cannot be made here. The proofs about routing hold for whatever
  tables the parser yields.

## 6. What the results say

With one observer of each stream the session's data is sound: buffers and teardown are
protected under every interleaving and fault. Its weak points are the end of the stream
(a deadlock with a writer or a flush) and the flag `mSkipWrite`, which outlives its write.
The VoIP pair survives on the order of calls: closing the output deadlocks whenever it
finds the driver open and the input inactive. Three more things the models show are listed
as hazards and not as findings, because no comment or test says otherwise: a standby by a
stream that has never used the driver itself loses the shared descriptor, a mode
of a telephone call that begins during such a standby is undone, and a short buffer skipped
after a flush announces the end of the stream that was just flushed.

Routing keeps its cache, mutes and pins consistent with four exceptions, each of which is a
conjunct of a property and can be seen to be needed by removing it: a routing call that
fails is cached as if it had succeeded; a mode set during a routing leaves the device
cached with the mutes of the mode before; a mute or a cleared cache during FM loses the
record the pins are switched by. The policy's counts, modes and caches balance over every
sequence within the bound. Its routes follow the policy except where the source itself
moves only the primary output (the beginning of a call) and under duplication; a temporary
mute of one output may unmute media that another output has muted. The power HAL never
loses or doubles its descriptor, but two threads whose writes fail in turn may close what
the other has opened without end, and a write may reach a descriptor number that was given
away in between. A recording in standby cannot be started again while a VoIP uplink
exists, because both count in `InstanceCount`, and can afterwards. A session suspended
while the client writes keeps those buffers for ever.

## 7. How to run

    tlc -config lpa_session.cfg MCLPASession.tla
    tlc -config voip_streams.cfg MCVoipSession.tla
    tlc -config audio_routing.cfg MCAudioRouting.tla
    tlc -config audio_policy.cfg MCAudioPolicy.tla
    tlc -config power_hints.cfg MCPowerHAL.tla
    tlc -config capture_registry.cfg MCCaptureRegistry.tla
    tlapm LPASessionProofs.tla
    tlapm VoipSessionProofs.tla
    tlapm AudioRoutingProofs.tla
    tlapm AudioPolicyProofs.tla
    tlapm AudioPolicyRouteProofs.tla
    tlapm AudioHalProofs.tla
    tlapm PowerHALProofs.tla
    tlapm CaptureRegistryProofs.tla

## 8. Not modelled

- Samples, coefficients, volumes and volume curves, time stamps and delays: data that no
  control decision modelled here depends on. The respectful sonification strategy depends
  on how long ago music played.
- Of `AudioHardware`: voice, master and FM volume and the Bluetooth headset's name, which
  are sent to the driver. Of the VoIP streams: rejected formats (the destructor then
  dereferences a null pointer, after which there is no state) and routing.
- The HAL wrappers but for device words: each entry point forwards its arguments.
- Bluetooth vendor library: one sequential client opens and closes a static descriptor; a
  failed `tcgetattr()` leaves the closed number in it and the client's next close closes
  it again, and the correct order of calls is the client's.
- Camera HAL: its makefile is disabled and the library in use is a prebuilt one.
- Lights, healthd: each call computes and writes one value; no state.
- `SamsungRIL` parses parcels for a base class outside the repository.
- Kernel headers (`include/linux`), prebuilt files, overlays, patches and rc scripts have
  no logic of their own.
