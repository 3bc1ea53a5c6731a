------------------------------- MODULE MCParts -------------------------------
(***************************************************************************)
(* Parts of the system that share no state with one another, in one run: a *)
(* behaviour picks one part, and the others rest in one of their initial   *)
(* states.  They are                                                       *)
(*                                                                         *)
(* - what the tests drive the replicas with and judge them by: the         *)
(*   lock-sequence clients (LockSeq), the comparison of databases          *)
(*   (PancydbReplay), the simulated editors (CollabModel) and the failure  *)
(*   schedules (Faults);                                                   *)
(* - the submission of puts by the HTTP server: SubmitPut itself has two   *)
(*   puts across an election between two replicas, "failing" one put to    *)
(*   three replicas of which the first may fail;                           *)
(* - the transformation of operations (DocOps);                            *)
(* - what threads share in the coroutine runtime: the mutex (CotMutex),    *)
(*   and events and quorums (CotEvent).                                    *)
(***************************************************************************)
EXTENDS SubmitPut, LockSeq, PancydbReplay, CollabModel, Faults, DocOps, CotMutex, TLC

CONSTANTS
    s1, s2,                 \* puts
    t1, t2, t3,             \* threads
    e1, e2, q1, q2, w       \* events, quorums, the waiting thread

VARIABLES
    part,       \* the part that runs
    alive, ref, locked, trig, full, listeners, members, count, stack, posted, co

\* One group of LockSeq: the lock, key -1, and three values; one value besides
\* the absent one.
LockKeys == -1..2
OneValue == {<<"x">>}

\* Documents of up to four characters, with two operations of others committing
\* after the author's.  All characters are different, so that the properties can
\* tell which one was deleted or moved.
MCChar  == 1..4 \cup {11, 12, 21, 22, 31, 32}
MCDocs  == {<<>>, <<1>>, <<1, 2>>, <<1, 2, 3>>, <<1, 2, 3, 4>>}
MCTexts == [k \in 0..2 |-> {<<>>, <<10 * k + 11>>, <<10 * k + 11, 10 * k + 12>>}]

ASSUME InstanceAssumption == CharactersDiffer

FailingPut == INSTANCE SubmitPut WITH
    N <- 3, Replica <- 0..2, Serial <- {s1}, MaxRound <- 1, MaxLog <- 2, MaxAttempts <- 2, Failures <- {0}

\* CotMutex itself is for two threads that lock twice, one through deferred guards
\* (t3 makes no call then).  These are for three threads that lock once, without
\* and with deferred guards.
Once == INSTANCE CotMutex WITH Rounds <- 1, Guarded <- {}

Deferred == INSTANCE CotMutex WITH Rounds <- 1, Guarded <- Thread

\* quorum(2, all(e1, e2), e2, e2): events have several places.
Nested == INSTANCE CotEvent WITH
    Plain <- {e1, e2}, Quorums <- <<q1, q2>>, Waiter <- w,
    Members <- (q1 :> <<e1, e2>>) @@ (q2 :> <<q1, e2, e2>>),
    Quorum <- (q1 :> 2) @@ (q2 :> 2)

\* any(any(e1), e2).
Either == INSTANCE CotEvent WITH
    Plain <- {e1, e2}, Quorums <- <<q1, q2>>, Waiter <- w,
    Members <- (q1 :> <<e1>>) @@ (q2 :> <<q1, e2>>),
    Quorum <- (q1 :> 1) @@ (q2 :> 1)

eventVars  == <<alive, ref, locked, trig, full, listeners, members, count, stack, posted, co>>
testVars   == <<lockVars, replayVars, editorVars, faultVars>>
threadVars == <<mutexVars, eventVars>>
allVars == <<part, testVars, putVars, vars, threadVars>>

-----------------------------------------------------------------------------
\* darias cuts every link, so its choices are too many for more replicas.
TestInit ==
    /\ LockInit
    /\ ReplayInit
    /\ EditorsInit
    /\ FaultsInit
    /\ schedule = "darias" => nreplicas <= 4
    /\ part = "faults" \/ (schedule = "none" /\ nreplicas = 3)

ThreadInit ==
    /\ IF part \in {"once", "deferred"} THEN Once!MutexInit ELSE MutexInit
    /\ IF part = "either" THEN Either!Init ELSE Nested!Init

MCInit ==
    /\ part \in {"clients", "store", "editors", "faults", "puts", "failing", "ops",
                 "once", "deferred", "again", "nested", "either"}
    /\ TestInit
    /\ IF part = "failing" THEN FailingPut!PutInit ELSE PutInit
    /\ Init
    /\ part = "ops" \/ (doc = <<>> /\ orig = Insert(0, <<>>))
    /\ ThreadInit

TestNext ==
    /\ \/ part = "clients" /\ LockNext    /\ UNCHANGED <<replayVars, editorVars, faultVars>>
       \/ part = "store"   /\ ReplayNext  /\ UNCHANGED <<lockVars, editorVars, faultVars>>
       \/ part = "editors" /\ EditorsNext /\ UNCHANGED <<lockVars, replayVars, faultVars>>
       \/ part = "faults"  /\ FaultsNext  /\ UNCHANGED <<lockVars, replayVars, editorVars>>
    /\ UNCHANGED <<part, putVars, vars, threadVars>>

ThreadNext ==
    /\ \/ part = "once"     /\ Once!MutexNext     /\ UNCHANGED eventVars
       \/ part = "deferred" /\ Deferred!MutexNext /\ UNCHANGED eventVars
       \/ part = "again"    /\ MutexNext /\ round'[t3] = 0 /\ UNCHANGED eventVars
       \/ part = "nested"   /\ Nested!Next /\ UNCHANGED mutexVars
       \/ part = "either"   /\ Either!Next /\ UNCHANGED mutexVars
    /\ UNCHANGED <<part, testVars, putVars, vars>>

PutsNext ==
    /\ \/ part = "puts"    /\ PutNext
       \/ part = "failing" /\ FailingPut!PutNext
    /\ UNCHANGED <<part, testVars, vars, threadVars>>

OpsNext == part = "ops" /\ Next /\ UNCHANGED <<part, testVars, putVars, threadVars>>

\* The states in which a part may stop: the clients have made all their requests,
\* every put has ended, the threads are done.  In any other state without a
\* successor they would wait for each other.
Finished ==
    /\ \/ part \in {"clients", "store", "editors", "faults", "ops"}
       \/ part \in {"puts", "failing"} /\ \A s \in DOMAIN submit : submit[s].pc \in {"done", "failed"}
       \/ part \in {"once", "deferred", "again"} /\ \A t \in Thread : mutexPc[t] = "idle"
       \/ part = "nested" /\ Nested!Quiet
       \/ part = "either" /\ Either!Quiet
    /\ UNCHANGED allVars

MCNext == TestNext \/ PutsNext \/ OpsNext \/ ThreadNext \/ Finished

MCSpec == MCInit /\ [][MCNext]_allVars

Symmetric == Permutations({s1, s2})

-----------------------------------------------------------------------------
\* No deleted event is used and all are deleted in the end, a quorum triggers
\* only when enough of its members have, and no waiter is forgotten.
EventsSafe ==
    IF part = "either"
    THEN Either!NoUseAfterFree /\ Either!NoLeak /\ Either!QuorumSound /\ Either!Resumed
    ELSE Nested!NoUseAfterFree /\ Nested!NoLeak /\ Nested!QuorumSound /\ Nested!Resumed
=============================================================================
