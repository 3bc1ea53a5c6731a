----------------------------- MODULE CotDriver ------------------------------
(***************************************************************************)
(* The event loop of cotamer (driver::loop in cotamer.cc, watch_fds in     *)
(* io.cc, the driver methods of cotamer_impl.hh): the list of things to do *)
(* at once, timers, driver guards, the list to which other threads migrate *)
(* events, and the eventfd that wakes a driver blocked in the kernel.      *)
(*                                                                         *)
(* A job is a coroutine waiting for an event.  When it runs it may post    *)
(* another job (asap or after), clear the driver or just end; the jobs in  *)
(* Remote are posted once, each by a thread of its own, and hold a         *)
(* driver_guard until they run, as the comment on driver_guard asks, or    *)
(* are named by keepalive().  No file descriptor is watched: FdEvents      *)
(* models those.                                                           *)
(***************************************************************************)
EXTENDS Integers, Sequences, FiniteSets, SequencesExt, FiniteSetsExt

CONSTANTS
    Local,      \* the jobs posted on the driver's own thread
    Remote,     \* the jobs posted by other threads, one each
    First,      \* the local job that starts it all
    Kept,       \* the sequence of jobs whose events keepalive() was called with
    RealTime,   \* real_time_
    Quota,      \* asap_quota, 4096 in the code
    Delays,     \* the delays used with after()
    Clears,     \* whether a job may call clear()
    MaxTime     \* bound: the clock stops there

ASSUME JobsAssumption ==
    /\ Local \cap Remote = {} /\ First \in Local /\ IsFiniteSet(Remote)
    /\ Kept \in Seq(Local \cup Remote) /\ Delays \subseteq Nat

VARIABLES
    loopPc,         \* where the loop is
    asap_, timed_, guard_count_, keepalives_, clearing_,
    snow_,      \* the driver's idea of the time
    clock,      \* the steady clock of the machine, in real time
    locked,     \* the df_lock bit of lock_
    nonempty,   \* the df_nonempty bit
    migrate_,   \* events handed over by other threads
    wakefd_,    \* whether other threads have to write to the eventfd
    eventfd,    \* whether the eventfd is readable
    quota,      \* n in the asap loop
    until,      \* when the kernel should give up waiting
    rpc,        \* where each remote thread is
    ran,        \* the jobs that have run
    posted      \* the local jobs that have been posted

driverVars == <<loopPc, asap_, timed_, guard_count_, keepalives_, clearing_, snow_, clock, locked, nonempty,
          migrate_, wakefd_, eventfd, quota, until, rpc, ran, posted>>
driving == <<asap_, timed_, guard_count_, keepalives_, clearing_, snow_, ran, posted>>
handover  == <<locked, nonempty, migrate_, wakefd_, eventfd>>

Forever == MaxTime + 1          \* the hour for which an idle driver blocks

DriverInit ==
    /\ loopPc = "import"
    /\ asap_ = <<First>> /\ timed_ = <<>>
    /\ guard_count_ = Cardinality(Remote \ Range(Kept)) /\ keepalives_ = Kept
    /\ clearing_ = FALSE
    /\ snow_ = 0 /\ clock = 0
    /\ locked = FALSE /\ nonempty = FALSE /\ migrate_ = <<>>
    /\ wakefd_ = FALSE /\ eventfd = FALSE
    /\ quota = 0 /\ until = 0
    /\ rpc = [r \in Remote |-> "idle"]
    /\ ran = {} /\ posted = {First}

steady_now == IF RealTime THEN clock ELSE snow_

\* The timer that timer_heap has on top: the earliest, the first set of those.
TopTime == Min({timed_[i].when : i \in DOMAIN timed_})
TopIndex == Min({i \in DOMAIN timed_ : timed_[i].when = TopTime})
NoTimer == timed_ = <<>>

\* lock_ != 0
LockWord == locked \/ nonempty

-----------------------------------------------------------------------------
(* The coroutines *)

\* How many guards go with a job; guards do not count in a driver that clears.
driver_guard(j) == IF j \in Remote \ Range(Kept) /\ ~clearing_ THEN 1 ELSE 0

\* What one job does when it is resumed, the rest of asap_ and timed_ given; a
\* job of a driver that is being cleared only throws.  Then step_time().
Run(j, rest, timers) ==
    /\ ran' = ran \union {j}
    /\ guard_count_' = guard_count_ - driver_guard(j)
    /\ UNCHANGED keepalives_
    /\ snow_' = IF RealTime THEN snow_ ELSE snow_ + 1
    /\ \/ /\ asap_' = rest /\ timed_' = timers
          /\ UNCHANGED <<clearing_, posted>>
       \/ \E k \in Local \ posted :
            /\ ~clearing_
            /\ posted' = posted \union {k}
            /\ \/ asap_' = Append(rest, k) /\ timed_' = timers
               \/ \E d \in Delays :
                    /\ timed_' = Append(timers, [when |-> steady_now + d, job |-> k])
                    /\ asap_' = rest
            /\ UNCHANGED clearing_
       \/ /\ Clears /\ ~clearing_ /\ clearing_' = TRUE
          /\ asap_' = rest /\ timed_' = timers
          /\ UNCHANGED posted

-----------------------------------------------------------------------------
(* driver::loop *)

Go(from, to) == loopPc = from /\ loopPc' = to

\* Import migrated events when lock_ says there may be some.
Import ==
    /\ loopPc = "import"
    /\ loopPc' = IF LockWord THEN "lock" ELSE "asap"
    /\ quota' = Quota
    /\ UNCHANGED <<driving, handover, clock, until, rpc>>

FinishLock ==
    /\ Go("lock", "swap")
    /\ ~locked /\ locked' = TRUE
    /\ UNCHANGED <<driving, nonempty, migrate_, wakefd_, eventfd, clock, quota, until, rpc>>

finish_migrate ==
    /\ Go("swap", "asap")
    /\ asap_' = asap_ \o migrate_
    /\ migrate_' = <<>>
    /\ locked' = FALSE /\ nonempty' = FALSE
    /\ UNCHANGED <<timed_, guard_count_, keepalives_, clearing_, snow_, ran, posted, wakefd_, eventfd, clock,
                   quota, until, rpc>>

\* One job of the aliquot.
RunAsap ==
    /\ loopPc = "asap" /\ quota # 0 /\ asap_ # <<>>
    /\ Run(Head(asap_), Tail(asap_), timed_)
    /\ quota' = quota - 1
    /\ UNCHANGED <<loopPc, handover, clock, until, rpc>>

\* event_body::triggered().  The loop triggers an event of its own thread when it
\* runs the job; an event of another thread is triggered before it is handed over.
triggered(j) == IF j \in Remote THEN rpc[j] # "idle" ELSE j \in ran

\* The triggered events at the end of keepalives_ go.
Alive(s) == SubSeq(s, 1, Max({0} \union {i \in DOMAIN s : ~triggered(s[i])}))

AsapDone ==
    /\ loopPc = "asap" /\ (quota = 0 \/ asap_ = <<>>)
    /\ loopPc' = IF clearing_ THEN "clear" ELSE "exit"
    /\ keepalives_' = Alive(keepalives_)
    /\ UNCHANGED <<asap_, timed_, guard_count_, clearing_, snow_, ran, posted, handover, clock, quota, until, rpc>>

ClearedGuards == 0

\* process_clearing: guards count no longer, timers run at once.
process_clearing ==
    /\ loopPc = "clear"
    /\ guard_count_' = ClearedGuards /\ keepalives_' = <<>>
    /\ IF NoTimer THEN loopPc' = "exit" /\ UNCHANGED <<timed_, ran>>
       ELSE /\ ran' = ran \union {timed_[TopIndex].job}
            /\ timed_' = RemoveAt(timed_, TopIndex)
            /\ UNCHANGED loopPc
    /\ UNCHANGED <<asap_, clearing_, snow_, posted, handover, clock, quota, until, rpc>>

MutantNothingToDo == NoTimer /\ ~LockWord /\ guard_count_ = 0
MutantNoGuards == NoTimer /\ ~LockWord /\ keepalives_ = <<>>
\* The test for "nothing to do".
NothingToDo == NoTimer /\ ~LockWord /\ guard_count_ = 0 /\ keepalives_ = <<>>

Exit ==
    /\ Go("exit", "exited")
    /\ NothingToDo
    /\ clearing_' = FALSE
    /\ UNCHANGED <<asap_, timed_, guard_count_, keepalives_, snow_, ran, posted, handover, clock, quota, until, rpc>>

\* Compute the timeout: none, the first timer, or an hour.
Timeout ==
    /\ loopPc = "exit" /\ ~NothingToDo
    /\ until' = IF asap_ # <<>> \/ ~RealTime \/ LockWord \/ clearing_ THEN 0
                ELSE IF ~NoTimer THEN TopTime ELSE Forever
    /\ loopPc' = IF until' <= clock THEN "time" ELSE "arm"
    /\ UNCHANGED <<driving, handover, clock, quota, rpc>>

\* watch_fds: other threads have to write to the eventfd from now on.
Arm ==
    /\ Go("arm", "look")
    /\ wakefd_' = TRUE
    /\ UNCHANGED <<driving, locked, nonempty, migrate_, eventfd, clock, quota, until, rpc>>

MutantLook ==
    /\ Go("look", "wait")
    /\ UNCHANGED <<driving, handover, clock, quota, until, rpc>>
\* watch_fds: do not block if something was handed over before that.
Look ==
    /\ Go("look", "wait")
    /\ until' = IF LockWord THEN 0 ELSE until
    /\ UNCHANGED <<driving, handover, clock, quota, rpc>>

\* watch_fds: epoll_wait returns, because of the eventfd or of the timeout; the
\* eventfd is drained when it is what epoll_wait reported.
watch_fds ==
    /\ Go("wait", "time")
    /\ eventfd \/ until <= clock
    /\ wakefd_' = FALSE
    /\ eventfd' = FALSE
    /\ UNCHANGED <<driving, locked, nonempty, migrate_, clock, quota, until, rpc>>

\* The time after the wait; virtual time jumps to the first timer when nothing
\* else is left to do.
UpdatedTime ==
    IF RealTime THEN clock
    ELSE IF ~NoTimer /\ asap_ = <<>> THEN TopTime
    ELSE snow_

UpdateTime ==
    /\ Go("time", "timers")
    /\ snow_' = UpdatedTime
    /\ UNCHANGED <<asap_, timed_, guard_count_, keepalives_, clearing_, ran, posted, handover, clock, quota, until, rpc>>

RunTimer ==
    /\ loopPc = "timers" /\ ~NoTimer /\ TopTime <= snow_
    /\ Run(timed_[TopIndex].job, asap_, RemoveAt(timed_, TopIndex))
    /\ UNCHANGED <<loopPc, handover, clock, quota, until, rpc>>

TimersDone ==
    /\ Go("timers", "import")
    /\ ~NoTimer => TopTime > snow_
    /\ UNCHANGED <<driving, handover, clock, quota, until, rpc>>

loop ==
    \/ Import \/ FinishLock \/ finish_migrate \/ RunAsap \/ AsapDone \/ process_clearing
    \/ Exit \/ Timeout \/ Arm \/ Look \/ watch_fds \/ UpdateTime \/ RunTimer \/ TimersDone

-----------------------------------------------------------------------------
(* Other threads: event_body::trigger_unlock, driver::migrate_asap, migrate_wake *)

RStep(r, from, to) == rpc[r] = from /\ rpc' = [rpc EXCEPT ![r] = to]

\* The event is triggered; the driver that waits for it learns of it later.
trigger_unlock(r) ==
    /\ RStep(r, "idle", "triggered")
    /\ UNCHANGED <<loopPc, driving, handover, clock, quota, until>>

RemoteLock(r) ==
    /\ RStep(r, "triggered", "locked")
    /\ ~locked /\ locked' = TRUE
    /\ UNCHANGED <<loopPc, driving, nonempty, migrate_, wakefd_, eventfd, clock, quota, until>>

migrate_asap(r) ==
    /\ RStep(r, "locked", "wake")
    /\ migrate_' = Append(migrate_, r)
    /\ locked' = FALSE /\ nonempty' = TRUE
    /\ UNCHANGED <<loopPc, driving, wakefd_, eventfd, clock, quota, until>>

\* migrate_wake: read wakefd_, and write to it in a second step.
ReadWakefd(r) ==
    /\ RStep(r, "wake", IF wakefd_ THEN "write" ELSE "done")
    /\ UNCHANGED <<loopPc, driving, handover, clock, quota, until>>

migrate_wake(r) ==
    /\ RStep(r, "write", "done")
    /\ eventfd' = TRUE
    /\ UNCHANGED <<loopPc, driving, locked, nonempty, migrate_, wakefd_, clock, quota, until>>

remote(r) == trigger_unlock(r) \/ RemoteLock(r) \/ migrate_asap(r) \/ ReadWakefd(r) \/ migrate_wake(r)

\* Time passes on the machine.
Tick ==
    /\ RealTime /\ clock < MaxTime
    /\ clock' = clock + 1
    /\ UNCHANGED <<loopPc, driving, handover, quota, until, rpc>>

DriverNext == loop \/ (\E r \in Remote : remote(r)) \/ Tick

DriverSpec == DriverInit /\ [][DriverNext]_driverVars

-----------------------------------------------------------------------------
\* The loop of a driver that nobody clears does not end under a guard or a
\* keepalive: a guard "keeps the driver loop alive as long as it exists", so when
\* the loop returns every job of another thread that holds one has run; and for
\* keepalive() the "loop continues until event triggers".  A job that has only a
\* keepalive may be left behind: its event is triggered before it is handed over.
GuardHolds ==
    loopPc = "exited" => /\ Remote \ Range(Kept) \subseteq ran
                         /\ \A j \in Range(Kept) : triggered(j)

\* Everything migrated to the driver runs, although the driver may be about to
\* block for an hour when it is handed over, unless the driver is cleared.
MigratedRuns == \A r \in Remote : rpc[r] # "idle" ~> r \in ran \/ clearing_ \/ loopPc = "exited"

\* A driver that is cleared gets out of its loop.
ClearEnds == clearing_ ~> loopPc = "exited"

=============================================================================
