------------------------------- MODULE MCLoop -------------------------------
(***************************************************************************)
(* The parts of a driver: its loop (CotDriver), its timers (TimerHeap),    *)
(* its watches (FdEvents), and the body of a descriptor that drivers share *)
(* (FdBody).  Each is modelled on its own: a behaviour picks one part, and *)
(* the others rest in their initial states.                                *)
(***************************************************************************)
EXTENDS CotDriver, TimerHeap, FdEvents, FdBody

CONSTANTS a, b, r1, r2   \* local and remote jobs

VARIABLES
    part,       \* the part that runs
    vPc, vAsap, vTimed, vGuards, vKeepalives, vClearing, vSnow, vClock, vLocked,
    vNonempty, vMigrate, vWakefd, vEventfd, vQuota, vUntil, vRpc, vRan, vPosted

\* CotDriver itself is a driver in real time that nobody clears. One remote job
\* runs under a guard, the other under keepalive().
KeptJobs == <<a, r2>>

\* A driver in virtual time, which a job may clear.
Virtual == INSTANCE CotDriver WITH
    RealTime <- FALSE, Clears <- TRUE,
    loopPc <- vPc, asap_ <- vAsap, timed_ <- vTimed, guard_count_ <- vGuards, keepalives_ <- vKeepalives,
    clearing_ <- vClearing, snow_ <- vSnow, clock <- vClock, locked <- vLocked, nonempty <- vNonempty,
    migrate_ <- vMigrate, wakefd_ <- vWakefd, eventfd <- vEventfd, quota <- vQuota, until <- vUntil,
    rpc <- vRpc, ran <- vRan, posted <- vPosted

\* The order number wraps while the heap is in use.  The heap of arity 2, which
\* the code provides for as well, is deep enough with few timers for the last
\* element to rise when it fills a gap.
CullHeap == INSTANCE TimerHeap WITH
    arity <- 2, CullSize <- 5

virtualVars == <<vPc, vAsap, vTimed, vGuards, vKeepalives, vClearing, vSnow, vClock, vLocked,
                 vNonempty, vMigrate, vWakefd, vEventfd, vQuota, vUntil, vRpc, vRan, vPosted>>
allVars == <<part, driverVars, virtualVars, heapVars, fdsVars, vars>>

besideDriver  == <<part, virtualVars, heapVars, fdsVars, vars>>
besideVirtual == <<part, driverVars, heapVars, fdsVars, vars>>
besideHeap    == <<part, driverVars, virtualVars, fdsVars, vars>>
besideFds     == <<part, driverVars, virtualVars, heapVars, vars>>
besideBody    == <<part, driverVars, virtualVars, heapVars, fdsVars>>

MCInit ==
    /\ part \in {"driver", "virtual", "heap", "cull", "fds", "body"}
    /\ DriverInit
    /\ Virtual!DriverInit
    /\ HeapInit
    /\ FdsInit
    /\ Init
    /\ part = "body" \/ handles[CHOOSE t \in Thread : TRUE] = 1

\* The loop has returned, or waits at the end of the clock; the descriptor has
\* no reference left.
Finished ==
    /\ \/ part = "driver" /\ (loopPc = "exited" \/ clock = MaxTime)
       \/ part = "virtual" /\ vPc = "exited"
       \/ part = "body" /\ Quiet
    /\ UNCHANGED allVars

MCNext ==
    \/ part = "driver" /\ DriverNext /\ UNCHANGED besideDriver
    \/ part = "virtual" /\ Virtual!DriverNext /\ UNCHANGED besideVirtual
    \/ part = "heap" /\ HeapNext /\ UNCHANGED besideHeap
    \/ part = "cull" /\ CullHeap!HeapNext /\ UNCHANGED besideHeap
    \/ part = "fds" /\ FdsNext /\ UNCHANGED besideFds
    \/ part = "body" /\ Next /\ UNCHANGED besideBody
    \/ Finished

\* The loop and the other threads keep running and time passes.  epoll_wait
\* returns, and it is level-triggered: a peer that has hung up is reported by
\* every later call that has the descriptor.
Fairness ==
    /\ WF_allVars(part = "driver" /\ loop /\ UNCHANGED besideDriver)
    /\ WF_allVars(part = "driver" /\ Tick /\ UNCHANGED besideDriver)
    /\ WF_allVars(part = "virtual" /\ Virtual!loop /\ UNCHANGED besideVirtual)
    /\ \A r \in {r1, r2} :
        /\ WF_allVars(part = "driver" /\ remote(r) /\ UNCHANGED besideDriver)
        /\ WF_allVars(part = "virtual" /\ Virtual!remote(r) /\ UNCHANGED besideVirtual)
    /\ WF_allVars(part = "fds" /\ LoopStep /\ UNCHANGED besideFds)
    /\ WF_allVars(part = "fds" /\ phase = "wait" /\ FdsNext /\ UNCHANGED besideFds)
    /\ SF_allVars(part = "fds" /\ Wait({"hup"}) /\ UNCHANGED besideFds)

MCSpec == MCInit /\ [][MCNext]_allVars /\ Fairness

-----------------------------------------------------------------------------
\* A job handed to a driver runs although the driver may be about to block for an
\* hour, and a driver that is cleared returns.
LoopProgress == MigratedRuns /\ Virtual!ClearEnds
=============================================================================
