------------------------------ MODULE PowerHAL ------------------------------
(***************************************************************************)
(* The power HAL (src/power/power.c): the threads of the system send       *)
(* hints, and each hint writes to the boostpulse file of the CPU frequency *)
(* governor through one descriptor they share.  The descriptor is opened   *)
(* and closed with the module's lock held, and used without it.            *)
(*                                                                         *)
(* The governor may be replaced at any time.  The kernel then removes the  *)
(* files of the old one: every installation of a governor is an epoch, a   *)
(* descriptor belongs to the epoch it was opened in, and a write to it     *)
(* fails once that epoch is over.                                          *)
(*                                                                         *)
(* The definitions named ...Variant are the definition of that name with   *)
(* a plausible mistake; no run uses them.                                  *)
(***************************************************************************)
EXTENDS Integers, FiniteSets

CONSTANTS
    Threads,            \* the threads that send hints
    Descriptors,        \* the process's free descriptor numbers; zygote holds 0
    Tunable,            \* "ondemand", "interactive": they have a boostpulse file
    OtherGovernors,     \* "performance", ...: they have none
    MaxEpoch,           \* bound on the changes of governor
    MaxReadFailures     \* bound on the failing reads of scaling_governor

NoThread == "none"
Unread == "unread"      \* the static buffer before the first read
NoFd == -1
Free == -1              \* a descriptor number nobody holds
Foreign == -2           \* a descriptor of other code of the process

Governors == Tunable \cup OtherGovernors

ASSUME ThreadsAssumption == NoThread \notin Threads
ASSUME DescriptorsAssumption == Descriptors \subseteq Nat \ {0}
ASSUME GovernorsAssumption ==
    /\ Unread \notin Governors
    /\ Tunable \cap OtherGovernors = {}
ASSUME BoundsAssumption == MaxEpoch \in Nat /\ MaxReadFailures \in Nat

VARIABLES
    lock,               \* cm->lock: the thread that holds it
    boostpulse_fd,      \* cm->boostpulse_fd
    boostpulse_warned,  \* cm->boostpulse_warned
    governor,           \* the static buffer governor[]
    boot,               \* where cm_power_init() is
    pc,                 \* where each thread is in its hint
    arg,                \* the descriptor each thread has fetched for its write()
    scaling, epoch,     \* the kernel's governor and how often it was replaced
    file,               \* what each descriptor number refers to
    held,               \* the descriptors other code believes it holds
    configured,         \* the epochs whose tunables have been written
    boosted,            \* the epochs whose boostpulse was written
    readFailures

hal == <<lock, boostpulse_fd, boostpulse_warned, governor>>
kernel == <<scaling, epoch, file, held, configured, boosted, readFailures>>
vars == <<hal, boot, pc, arg, kernel>>

Epochs == 0 .. MaxEpoch
Locations == {"idle", "lock", "test", "open", "configure", "unlock",
              "check", "fetch", "write", "relock", "close", "clear"}

\* The variables are well typed, and hints only come after cm_power_init().
PowerTypeOK ==
    /\ lock \in Threads \cup {NoThread}
    /\ boostpulse_fd \in Descriptors \cup {NoFd}
    /\ boostpulse_warned \in BOOLEAN
    /\ governor \in Governors \cup {Unread}
    /\ boot \in {"read", "configure", "done"}
    /\ pc \in [Threads -> Locations]
    /\ arg \in [Threads -> Descriptors \cup {NoFd}]
    /\ scaling \in Governors /\ epoch \in Epochs
    /\ file \in [Descriptors -> Epochs \cup {Free, Foreign}]
    /\ held \subseteq Descriptors
    /\ configured \subseteq Epochs /\ boosted \subseteq Epochs
    /\ readFailures \in 0 .. MaxReadFailures
    /\ boot # "done" => \A t \in Threads : pc[t] = "idle"

Init ==
    /\ lock = NoThread /\ boostpulse_fd = NoFd /\ boostpulse_warned = FALSE
    /\ governor = Unread /\ boot = "read"
    /\ pc = [t \in Threads |-> "idle"] /\ arg = [t \in Threads |-> NoFd]
    /\ scaling \in Governors /\ epoch = 0
    /\ file = [d \in Descriptors |-> Free] /\ held = {}
    /\ configured = {} /\ boosted = {} /\ readFailures = 0

Goto(t, from, to) == pc[t] = from /\ pc' = [pc EXCEPT ![t] = to]

-----------------------------------------------------------------------------
(* The kernel's files.                                                     *)

\* A failing read leaves an empty string.
get_scaling_governorVariant(ok) ==
    /\ ok \/ readFailures < MaxReadFailures
    /\ governor' = IF ok THEN scaling ELSE ""
    /\ readFailures' = IF ok THEN readFailures ELSE readFailures + 1

\* get_scaling_governor(): the name is read and its newline removed, or the
\* buffer keeps what it held.
get_scaling_governor(ok) ==
    /\ ok \/ readFailures < MaxReadFailures
    /\ governor' = IF ok THEN scaling ELSE governor
    /\ readFailures' = IF ok THEN readFailures ELSE readFailures + 1

\* configure_governor(): the tunables of the governor in the buffer are written;
\* the files exist only while the kernel uses that governor.
configure_governor ==
    configured' = IF governor \in Tunable /\ governor = scaling
                  THEN configured \cup {epoch} ELSE configured

\* open() of the boostpulse file of the governor in the buffer.
BoostpulseExists == governor \in Tunable /\ governor = scaling
FreeDescriptors == {d \in Descriptors : file[d] = Free}

\* write() succeeds on any open file but one of a governor that has gone.
WriteSucceeds(d) == d # NoFd /\ (file[d] = Foreign \/ file[d] = epoch)

-----------------------------------------------------------------------------
(* cm_power_init(), called once before the first hint.                     *)

InitReads == \E ok \in BOOLEAN :
    /\ boot = "read" /\ boot' = "configure"
    /\ get_scaling_governor(ok)
    /\ UNCHANGED <<lock, boostpulse_fd, boostpulse_warned, pc, arg,
                   scaling, epoch, file, held, configured, boosted>>

InitConfigures ==
    /\ boot = "configure" /\ boot' = "done"
    /\ configure_governor
    /\ UNCHANGED <<hal, pc, arg, scaling, epoch, file, held, boosted, readFailures>>

-----------------------------------------------------------------------------
(* cm_power_hint() for INTERACTION and CPU_BOOST; the other hints do       *)
(* nothing.  First boostpulse_open().                                      *)

BeginHint(t) ==
    /\ boot = "done" /\ Goto(t, "idle", "lock")
    /\ UNCHANGED <<hal, boot, arg, kernel>>

LockForOpen(t) ==
    /\ lock = NoThread /\ lock' = t
    /\ Goto(t, "lock", "test")
    /\ UNCHANGED <<boostpulse_fd, boostpulse_warned, governor, boot, arg, kernel>>

\* The descriptor is opened without a look at the one there is.
AlreadyOpenVariant(t) ==
    /\ Goto(t, "test", "open")
    /\ UNCHANGED <<hal, boot, arg, kernel>>

AlreadyOpen(t) ==
    /\ boostpulse_fd # NoFd
    /\ Goto(t, "test", "unlock")
    /\ UNCHANGED <<hal, boot, arg, kernel>>

\* The governor is read once, by cm_power_init().
ReadGovernorVariant(t) ==
    /\ boostpulse_fd = NoFd
    /\ Goto(t, "test", "open")
    /\ UNCHANGED <<hal, boot, arg, kernel>>

ReadGovernor(t) == \E ok \in BOOLEAN :
    /\ boostpulse_fd = NoFd
    /\ Goto(t, "test", IF ok THEN "open" ELSE "unlock")
    /\ get_scaling_governor(ok)
    /\ boostpulse_warned' = IF ok THEN boostpulse_warned ELSE TRUE
    /\ UNCHANGED <<lock, boostpulse_fd, boot, arg,
                   scaling, epoch, file, held, configured, boosted>>

OpenBoostpulse(t) == \E d \in FreeDescriptors :
    /\ BoostpulseExists
    /\ Goto(t, "open", "configure")
    /\ boostpulse_fd' = d /\ file' = [file EXCEPT ![d] = epoch]
    /\ UNCHANGED <<lock, boostpulse_warned, governor, boot, arg,
                   scaling, epoch, held, configured, boosted, readFailures>>

OpenFails(t) ==
    /\ ~BoostpulseExists \/ FreeDescriptors = {}
    /\ Goto(t, "open", "unlock")
    /\ boostpulse_warned' = TRUE
    /\ UNCHANGED <<lock, boostpulse_fd, governor, boot, arg, kernel>>

\* The tunables are written by cm_power_init() only.
ConfigureVariant(t) ==
    /\ Goto(t, "configure", "unlock")
    /\ UNCHANGED <<hal, boot, arg, kernel>>

Configure(t) ==
    /\ Goto(t, "configure", "unlock")
    /\ configure_governor
    /\ UNCHANGED <<hal, boot, arg, scaling, epoch, file, held, boosted, readFailures>>

UnlockAfterOpen(t) ==
    /\ Goto(t, "unlock", "check") /\ lock' = NoThread
    /\ UNCHANGED <<boostpulse_fd, boostpulse_warned, governor, boot, arg, kernel>>

-----------------------------------------------------------------------------
(* The rest of the hint.  The descriptor is read once for the test and once*)
(* more for the write, both times without the lock.                        *)

CheckDescriptor(t) ==
    /\ Goto(t, "check", IF boostpulse_fd = NoFd THEN "idle" ELSE "fetch")
    /\ UNCHANGED <<hal, boot, arg, kernel>>

FetchDescriptor(t) ==
    /\ Goto(t, "fetch", "write")
    /\ arg' = [arg EXCEPT ![t] = boostpulse_fd]
    /\ UNCHANGED <<hal, boot, kernel>>

WriteBoostpulse(t) ==
    /\ WriteSucceeds(arg[t])
    /\ Goto(t, "write", "idle")
    /\ boosted' = IF file[arg[t]] = epoch THEN boosted \cup {epoch} ELSE boosted
    /\ arg' = [arg EXCEPT ![t] = NoFd]
    /\ UNCHANGED <<hal, boot, scaling, epoch, file, held, configured, readFailures>>

WriteFails(t) ==
    /\ ~WriteSucceeds(arg[t])
    /\ Goto(t, "write", "relock")
    /\ arg' = [arg EXCEPT ![t] = NoFd]
    /\ UNCHANGED <<hal, boot, kernel>>

LockForClose(t) ==
    /\ lock = NoThread /\ lock' = t
    /\ Goto(t, "relock", "close")
    /\ UNCHANGED <<boostpulse_fd, boostpulse_warned, governor, boot, arg, kernel>>

\* The descriptor closed is the one the module holds now, which need not be
\* the one the write failed on; close(-1) does nothing.
CloseBoostpulse(t) ==
    /\ Goto(t, "close", "clear")
    /\ file' = [d \in Descriptors |-> IF d = boostpulse_fd THEN Free ELSE file[d]]
    /\ UNCHANGED <<hal, boot, arg, scaling, epoch, held, configured, boosted, readFailures>>

\* The descriptor is closed and not forgotten.
ForgetBoostpulseVariant(t) ==
    /\ Goto(t, "clear", "idle")
    /\ lock' = NoThread
    /\ UNCHANGED <<boostpulse_fd, boostpulse_warned, governor, boot, arg, kernel>>

ForgetBoostpulse(t) ==
    /\ Goto(t, "clear", "idle")
    /\ boostpulse_fd' = NoFd /\ boostpulse_warned' = FALSE
    /\ lock' = NoThread
    /\ UNCHANGED <<governor, boot, arg, kernel>>

HintStep(t) ==
    \/ LockForOpen(t) \/ AlreadyOpen(t) \/ ReadGovernor(t) \/ OpenBoostpulse(t)
    \/ OpenFails(t) \/ Configure(t) \/ UnlockAfterOpen(t)
    \/ CheckDescriptor(t) \/ FetchDescriptor(t) \/ WriteBoostpulse(t) \/ WriteFails(t)
    \/ LockForClose(t) \/ CloseBoostpulse(t) \/ ForgetBoostpulse(t)

-----------------------------------------------------------------------------
(* The rest of the process and the kernel.                                 *)

ForeignOpen(d) ==
    /\ file[d] = Free
    /\ file' = [file EXCEPT ![d] = Foreign] /\ held' = held \cup {d}
    /\ UNCHANGED <<hal, boot, pc, arg, scaling, epoch, configured, boosted, readFailures>>

ForeignClose(d) ==
    /\ d \in held /\ held' = held \ {d}
    /\ file' = [file EXCEPT ![d] = Free]
    /\ UNCHANGED <<hal, boot, pc, arg, scaling, epoch, configured, boosted, readFailures>>

ChangeGovernor == \E g \in Governors \ {scaling} :
    /\ epoch < MaxEpoch
    /\ scaling' = g /\ epoch' = epoch + 1
    /\ UNCHANGED <<hal, boot, pc, arg, file, held, configured, boosted, readFailures>>

Next ==
    \/ InitReads \/ InitConfigures
    \/ \E t \in Threads : BeginHint(t) \/ HintStep(t)
    \/ \E d \in Descriptors : ForeignOpen(d) \/ ForeignClose(d)
    \/ ChangeGovernor

\* The scheduler runs every thread that can run; whether a thread sends another
\* hint is up to its callers.
Fairness ==
    /\ WF_vars(InitReads) /\ WF_vars(InitConfigures)
    /\ \A t \in Threads : WF_vars(HintStep(t))

Spec == Init /\ [][Next]_vars /\ Fairness

-----------------------------------------------------------------------------
(* Properties.                                                             *)

BoostpulseDescriptors == {d \in Descriptors : file[d] \in Epochs}

\* Whenever nobody holds the lock, the open boostpulse descriptors are exactly
\* the one in boostpulse_fd: however hints race and fail, boostpulse_open() loses
\* none and cm_power_hint()'s error path leaves no closed one behind.
NoDescriptorLost ==
    lock = NoThread => BoostpulseDescriptors = {boostpulse_fd} \ {NoFd}

\* A descriptor that other code of the process has opened and not closed is
\* still its file: the error path of cm_power_hint() never closes a number
\* twice, the second time after it has been reused.
ForeignDescriptorsKept == \A d \in held : file[d] = Foreign

\* A boostpulse descriptor of the governor in use, once published by releasing
\* the lock, belongs to a governor whose tunables configure_governor() has
\* written, whatever the governor did between the read, the open and the writes.
GovernorConfigured ==
    lock = NoThread /\ boostpulse_fd # NoFd /\ file[boostpulse_fd] = epoch
        => epoch \in configured

\* The governor in use from some time on is boosted if it has a boostpulse file
\* and one thread alone keeps sending hints: the stale descriptor of an earlier
\* governor is found out, closed and replaced.  With several threads failing in
\* turn each may close the descriptor the other has just opened.
BoostRecovers == \A e \in Epochs : \A t \in Threads :
    <>[](/\ epoch = e /\ scaling \in Tunable
         /\ \A u \in Threads \ {t} : pc[u] = "idle"
         /\ \E d \in Descriptors : file[d] # Foreign)
    /\ []<>(pc[t] = "lock")
        => <>(e \in boosted)

=============================================================================
