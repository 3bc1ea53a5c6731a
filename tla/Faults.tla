------------------------------- MODULE Faults -------------------------------
(***************************************************************************)
(* The failure schedules of the Paxos tester (pt-paxos.cc, from            *)
(* heal_all_links to run_failure_schedule; pt-collab.cc has copies of the  *)
(* first ones) and the choice of the replicas that try_one_seed compares   *)
(* at the end.  A link whose loss is set to 1.0 is cut, any other loss is  *)
(* the network's normal one, which module PtPaxos has.  A step is what a   *)
(* schedule does between two waits; how often a timed loop runs, the       *)
(* random choices and who is leader are left open.                         *)
(***************************************************************************)
EXTENDS Naturals, FiniteSets, FiniteSetsExt

CONSTANTS
    Sizes,          \* the values of tester.nreplicas
    Schedules,      \* the schedules of the run
    initial_leader  \* tester.initial_leader

ASSUME SizesAssumption ==
    /\ Sizes \subseteq Nat
    /\ \A n \in Sizes : initial_leader \in 0..(n - 1)

VARIABLES
    nreplicas,          \* tester.nreplicas, which never changes
    schedule,           \* the schedule that runs
    pc,                 \* where it waits
    cut,                \* the directed replica links with loss 1.0
    requestCut,         \* the replicas whose link from the clients is cut
    responseCut,        \* the replicas whose link to the clients is cut
    replica_available,  \* the replicas the tester takes for up
    ignored,            \* ignored_replica_for_check, a set of at most one
    connected_group,    \* the core that is kept together
    victim,             \* the replica that is down now
    first_round,        \* the directions darias cuts first
    compared            \* the replicas compared at the end

faultVars == <<nreplicas, schedule, pc, cut, requestCut, responseCut, replica_available, ignored,
               connected_group, victim, first_round, compared>>
netvars == <<cut, requestCut, responseCut, replica_available>>

ReplicaIds == 0..(nreplicas - 1)
Links(a, b) == (a \X b) \union (b \X a)
isolated_group == ReplicaIds \ connected_group

\* A mutant: a bare majority.
MutantConnectedCount == Max({2, nreplicas \div 2 + 1})
\* std::min(n, n / 2 + 2), at least 2.
connected_count == Max({2, Min({nreplicas, nreplicas \div 2 + 2})})

FaultsInit ==
    /\ nreplicas \in Sizes
    /\ schedule \in Schedules
    /\ pc = "start"
    /\ cut = {} /\ requestCut = {} /\ responseCut = {}
    /\ replica_available = ReplicaIds /\ ignored = {}
    /\ connected_group = {} /\ victim = initial_leader
    /\ first_round = {} /\ compared = {}

\* The network changes, from a set c of cut links.
Heal == cut' = {} /\ requestCut' = {} /\ responseCut' = {}

\* Mutants: only the links out of the replica are cut, or healed.
MutantFailed(c, r) == c \union ({r} \X ReplicaIds)
MutantRecovered(c, r) == c \ ({r} \X ReplicaIds)

\* fail_replica and recover_replica, on the replica links...
Failed(c, r) == c \union Links({r}, ReplicaIds)
Recovered(c, r) == c \ Links({r}, ReplicaIds)

\* set_partition_loss between the core and the others.
Repartition(c) == c \union Links(connected_group, isolated_group)

\* ... and with the client links, when r goes down or comes back.
fail_replica(r) ==
    /\ replica_available' = replica_available \ {r}
    /\ requestCut' = requestCut \union {r}
    /\ responseCut' = responseCut \union {r}
    /\ victim' = r

recover_replica(r) ==
    /\ replica_available' = replica_available \union {r}
    /\ requestCut' = requestCut \ {r}
    /\ responseCut' = responseCut \ {r}

Fail(r) == fail_replica(r) /\ cut' = Failed(cut, r)
Recover(r) == recover_replica(r) /\ cut' = Recovered(cut, r) /\ UNCHANGED victim

\* partition_one_against_rest heals first; clients still reach the replica.
partition_one_against_rest(r) ==
    /\ cut' = Links({r}, ReplicaIds \ {r})
    /\ requestCut' = {} /\ responseCut' = {}

\* The links set_replica_interconnectivity sets, between r and the others.
set_replica_interconnectivity(r) == Links({r}, ReplicaIds \ {r})

At(s, l) == schedule \in s /\ pc = l
Goto(l) == pc' = l

\* The schedules that do nothing with a single replica, and none.
NoSchedule ==
    /\ pc = "start"
    /\ schedule \in {"none"} \union (IF nreplicas > 1 THEN {} ELSE {"split", "unstable", "torture", "darias"})
    /\ Goto("done")
    /\ UNCHANGED <<schedule, netvars, ignored, connected_group, victim, first_round, compared>>

schedule_random ==
    /\ At({"random"}, "start")
    /\ schedule' \in {"failover", "recover", "split", "unstable"}
    /\ UNCHANGED <<pc, netvars, ignored, connected_group, victim, first_round, compared>>

\* schedule_failover, and schedule_recovery with its second half.
schedule_failover ==
    /\ At({"failover", "recover"}, "start")
    /\ Fail(initial_leader)
    /\ Goto(IF schedule = "recover" THEN "down" ELSE "done")
    /\ UNCHANGED <<schedule, ignored, connected_group, first_round, compared>>

schedule_recovery ==
    /\ At({"recover"}, "down")
    /\ Recover(initial_leader)
    /\ Goto("done")
    /\ UNCHANGED <<schedule, ignored, connected_group, first_round, compared>>

schedule_split_brain ==
    /\ nreplicas > 1
    /\ \/ /\ At({"split"}, "start")
          /\ partition_one_against_rest(initial_leader)
          /\ Goto("down")
       \/ /\ At({"split"}, "down")
          /\ Heal
          /\ Goto("done")
    /\ UNCHANGED <<schedule, replica_available, ignored, connected_group, victim, first_round, compared>>

Flapping == {"unstable", "torture"}

\* The core is chosen, the rest cut off, and the first victim fails.
StartFlaps ==
    /\ At(Flapping, "start") /\ nreplicas > 1
    /\ \E followers \in kSubset(connected_count - 1, ReplicaIds \ {initial_leader}) :
        connected_group' = {initial_leader} \union followers
    /\ \E v \in connected_group' :
        /\ fail_replica(v)
        /\ cut' = Failed(Links(connected_group', ReplicaIds \ connected_group'), v)
    /\ Goto("flap")
    /\ UNCHANGED <<schedule, ignored, first_round, compared>>

\* The victim comes back and the partition is cut again.
EndFlap ==
    /\ At(Flapping, "flap")
    /\ recover_replica(victim)
    /\ cut' = Repartition(Recovered(cut, victim))
    /\ Goto("rest")
    /\ UNCHANGED <<schedule, ignored, connected_group, victim, first_round, compared>>

\* schedule_torture: with the victim back, a replica of the fringe fails too.
FringeFails ==
    /\ At({"torture"}, "flap")
    /\ \E r \in isolated_group :
        /\ replica_available' = (replica_available \union {victim}) \ {r}
        /\ requestCut' = (requestCut \ {victim}) \union {r}
        /\ responseCut' = (responseCut \ {victim}) \union {r}
        /\ cut' = Failed(Repartition(Recovered(cut, victim)), r)
        /\ victim' = r
    /\ Goto("fringe")
    /\ UNCHANGED <<schedule, ignored, connected_group, first_round, compared>>

EndFringe ==
    /\ At({"torture"}, "fringe")
    /\ recover_replica(victim)
    /\ cut' = Repartition(Recovered(cut, victim))
    /\ Goto("rest")
    /\ UNCHANGED <<schedule, ignored, connected_group, victim, first_round, compared>>

\* The partition lasts on: another replica of the core fails, in
\* schedule_torture the leader if it is there.
NextFlap ==
    /\ At(Flapping, "rest")
    /\ \E v \in connected_group : Fail(v)
    /\ Goto("flap")
    /\ UNCHANGED <<schedule, ignored, connected_group, first_round, compared>>

\* The partition is over: heal_all_links, and anyone may fail.
StartChurn ==
    /\ At(Flapping, "rest")
    /\ \E v \in ReplicaIds : fail_replica(v) /\ cut' = Failed({}, v)
    /\ Goto("churn")
    /\ UNCHANGED <<schedule, ignored, connected_group, first_round, compared>>

EndChurn ==
    /\ At(Flapping, "churn")
    /\ Recover(victim)
    /\ Goto("churn_rest")
    /\ UNCHANGED <<schedule, ignored, connected_group, first_round, compared>>

NextChurn ==
    /\ At(Flapping, "churn_rest")
    /\ \E v \in ReplicaIds : Fail(v)
    /\ Goto("churn")
    /\ UNCHANGED <<schedule, ignored, connected_group, first_round, compared>>

\* schedule_unstable_mixed heals and recovers at the end, schedule_torture does not.
EndSchedule ==
    /\ At(Flapping, "churn_rest")
    /\ Goto("done")
    /\ IF schedule = "unstable" THEN Heal /\ replica_available' = ReplicaIds ELSE UNCHANGED netvars
    /\ UNCHANGED <<schedule, ignored, connected_group, victim, first_round, compared>>

\* schedule_darias: a direction of each pair is chosen to be cut first.
Pairs == {p \in ReplicaIds \X ReplicaIds : p[1] < p[2]}
Flip(p) == <<p[2], p[1]>>
second_round == {Flip(p) : p \in first_round}

StartDarias ==
    /\ At({"darias"}, "start") /\ nreplicas > 1
    /\ \E flipped \in SUBSET Pairs :
        first_round' = (Pairs \ flipped) \union {Flip(p) : p \in flipped}
    /\ Goto("first")
    /\ UNCHANGED <<schedule, netvars, ignored, connected_group, victim, compared>>

\* A mutant: the second round cuts along with the first.
MutantRound == IF pc = "first" THEN first_round \union second_round ELSE second_round

Round == IF pc = "first" THEN first_round ELSE second_round

CutOne ==
    /\ At({"darias"}, pc) /\ pc \in {"first", "second"}
    /\ \E p \in Round \ cut : cut' = cut \union {p}
    /\ UNCHANGED <<schedule, pc, requestCut, responseCut, replica_available, ignored,
                   connected_group, victim, first_round, compared>>

EndRound ==
    /\ At({"darias"}, pc) /\ pc \in {"first", "second"}
    /\ Round \subseteq cut
    /\ Goto(IF pc = "first" THEN "second" ELSE "hold")
    /\ UNCHANGED <<schedule, netvars, ignored, connected_group, victim, first_round, compared>>

\* A mutant: only the first directions are restored.
MutantEndDarias ==
    /\ At({"darias"}, "hold")
    /\ cut' = cut \ first_round
    /\ Goto("done")
    /\ UNCHANGED <<schedule, requestCut, responseCut, replica_available, ignored,
                   connected_group, victim, first_round, compared>>

EndDarias ==
    /\ At({"darias"}, "hold")
    /\ cut' = cut \ (first_round \union second_round)
    /\ Goto("done")
    /\ UNCHANGED <<schedule, requestCut, responseCut, replica_available, ignored,
                   connected_group, victim, first_round, compared>>

Eric == {"eric", "eric_recover", "eric_split"}

\* schedule_eric and its variants fail the replica that replica 0 takes for the
\* leader, through set_replica_failure or set_replica_interconnectivity.
schedule_eric ==
    /\ At(Eric, "start")
    /\ \E r \in ReplicaIds :
        /\ victim' = r
        /\ ignored' = IF schedule = "eric" THEN {r} ELSE ignored
        /\ cut' = cut \union set_replica_interconnectivity(r)
        /\ IF schedule = "eric_split" THEN UNCHANGED <<requestCut, responseCut>>
           ELSE /\ requestCut' = requestCut \union {r}
                /\ responseCut' = responseCut \union {r}
    /\ Goto(IF schedule = "eric" THEN "done" ELSE "down")
    /\ UNCHANGED <<schedule, replica_available, connected_group, first_round, compared>>

schedule_eric_recover ==
    /\ At(Eric, "down")
    /\ cut' = cut \ set_replica_interconnectivity(victim)
    /\ requestCut' = requestCut \ {victim}
    /\ responseCut' = responseCut \ {victim}
    /\ Goto("done")
    /\ UNCHANGED <<schedule, replica_available, ignored, connected_group, victim, first_round, compared>>

\* The replica whose database is the reference, for what each has applied.
Best(last_applied) ==
    LET better[s \in ReplicaIds] ==
        IF s = 0 THEN 0
        ELSE LET b == better[s - 1] IN
             IF /\ s \in replica_available /\ s \notin ignored
                /\ b \notin replica_available \/ last_applied[s] > last_applied[b]
             THEN s ELSE b
    IN better[nreplicas - 1]

\* try_one_seed after the loop: the reference is compared with the replicas up.
try_one_seed ==
    /\ pc = "done"
    /\ \E last_applied \in [ReplicaIds -> 0..1] :
        compared' = {Best(last_applied)} \union replica_available
    /\ Goto("checked")
    /\ UNCHANGED <<schedule, netvars, ignored, connected_group, victim, first_round>>

run_failure_schedule ==
    \/ NoSchedule \/ schedule_random
    \/ schedule_failover \/ schedule_recovery \/ schedule_split_brain
    \/ StartFlaps \/ EndFlap \/ FringeFails \/ EndFringe \/ NextFlap
    \/ StartChurn \/ EndChurn \/ NextChurn \/ EndSchedule
    \/ StartDarias \/ CutOne \/ EndRound \/ EndDarias
    \/ schedule_eric \/ schedule_eric_recover

FaultsNext == (run_failure_schedule \/ try_one_seed) /\ UNCHANGED nreplicas

FaultsSpec == FaultsInit /\ [][FaultsNext]_faultVars
-----------------------------------------------------------------------------
Talking(q) == \A a, b \in q : a # b => <<a, b>> \notin cut

\* "a single failure still leaves a quorum available for consensus": under every
\* schedule but darias, which cuts everything, some majority can exchange
\* messages both ways and one of it can be reached by the clients.  One or two
\* replicas have no majority without the one that fails.
CoreKeepsQuorum ==
    schedule # "darias" /\ nreplicas >= 3 =>
        \E q \in kSubset(nreplicas \div 2 + 1, ReplicaIds) :
            Talking(q) /\ ~(q \subseteq requestCut \union responseCut)

\* A replica the tester takes for down is cut off from the clients and from every
\* other replica: recovering or healing others must not reconnect it.
FailedIsolated ==
    \A r \in ReplicaIds \ replica_available :
        /\ r \in requestCut \intersect responseCut
        /\ Links({r}, ReplicaIds) \subseteq cut

\* Unless the schedule fails a replica for good, it ends with every link healed
\* and every replica up, so that the clients can make progress and the replicas
\* agree before they are compared.
HealedAtEnd ==
    pc = "done" /\ schedule \notin {"failover", "eric"} =>
        cut = {} /\ requestCut = {} /\ responseCut = {} /\ replica_available = ReplicaIds

\* darias: "First round cuts one direction per pair, second round cuts the reverse".
OneDirectionAtATime ==
    /\ At({"darias"}, "first") => \A p \in cut : Flip(p) \notin cut
    /\ At({"darias"}, "hold") => cut = {p \in ReplicaIds \X ReplicaIds : p[1] # p[2]}

\* The failure schedules leave a majority that can talk, really cut off the
\* replicas they fail, and end with a whole network.
SchedulesSound == CoreKeepsQuorum /\ FailedIsolated /\ HealedAtEnd /\ OneDirectionAtATime
=============================================================================
