---------------------------- MODULE ReplicaGroup ----------------------------
(***************************************************************************)
(* The replicas of the collaboration server (pt-collab.cc) as their one    *)
(* client sees them: who leads, whom the others name as leader, which puts *)
(* are decided in which order, and how far each replica has executed them. *)
(* PtPaxos models the protocol itself, message by message; here the log is *)
(* the one sequence of decided puts that the protocol agrees on.           *)
(***************************************************************************)
EXTENDS Integers, Sequences, FiniteSets

CONSTANTS N,        \* number of replicas
          Replica,  \* the replicas, by their index
          Serial,   \* the serials of the puts
          MaxRound, \* bound: the highest round
          MaxLog    \* bound: the length of the log

ASSUME ReplicasAssumption == N \in Nat \ {0} /\ Replica = 0..(N - 1)

VARIABLES role, current_round, promised_leader,
          leader_index, \* whom a replica takes for the leader
          pending,      \* puts a leader has taken on and not yet answered
          up,           \* replicas whose links are not cut
          probes,       \* [round, leader]: the probes ever sent
          prepares,     \* [round, leader, server]: the promises ever given
          logged,       \* puts that are in some replica's log
          order,        \* the decided puts, slot by slot; a retried one may recur
          last_applied  \* how many slots a replica has executed

group == <<role, current_round, promised_leader, leader_index, pending, up,
           probes, prepares, logged, order, last_applied>>

votes == <<probes, prepares>>
logs  == <<logged, order, last_applied>>

None == -1

has_quorum(n) == n >= N \div 2 + 1

GroupInit ==
    /\ role = [r \in Replica |-> IF r = 0 THEN "leader" ELSE "follower"]
    /\ current_round = [r \in Replica |-> 0]
    /\ promised_leader = [r \in Replica |-> IF r = 0 THEN 0 ELSE None]
    /\ leader_index = [r \in Replica |-> 0]
    /\ pending = [r \in Replica |-> {}]
    /\ up = [r \in Replica |-> TRUE]
    /\ probes = {} /\ prepares = {}
    /\ logged = {} /\ order = <<>>
    /\ last_applied = [r \in Replica |-> 0]

-----------------------------------------------------------------------------
(* What a replica has executed: response_cache_ and the database.          *)

\* The serials among the first n slots.
Executed(n) == {order[i] : i \in 1..n}

\* Faulty variant: a put that recurs in the log is executed again, and the
\* answer names the last execution.
MutantVersionOf(s) ==
    CHOOSE i \in 1..Len(order) : order[i] = s /\ \A j \in (i + 1)..Len(order) : order[j] # s

\* A put is executed at the first slot that holds it (response_cache_), and
\* every execution takes the next version.
VersionOf(s) ==
    LET first == CHOOSE i \in 1..Len(order) : order[i] = s /\ s \notin Executed(i - 1)
    IN  Cardinality(Executed(first))

Respond(s) == [type |-> "ok", version |-> VersionOf(s)]

-----------------------------------------------------------------------------
(* Elections.                                                              *)

\* A step down from whatever the replica was; promised says to whom.
become_follower(r, rd, hint, promised) ==
    /\ role' = [role EXCEPT ![r] = "follower"]
    /\ current_round' = [current_round EXCEPT ![r] = rd]
    /\ promised_leader' = [promised_leader EXCEPT ![r] = promised]
    /\ leader_index' = [leader_index EXCEPT ![r] = hint]
    /\ pending' = [pending EXCEPT ![r] = {}]

become_leader(r) ==
    /\ role' = [role EXCEPT ![r] = "leader"]
    /\ leader_index' = [leader_index EXCEPT ![r] = r]
    /\ promised_leader' = [promised_leader EXCEPT ![r] = r]

start_probe_round(r) ==
    /\ role[r] # "leader"
    /\ current_round[r] < MaxRound
    /\ role' = [role EXCEPT ![r] = "candidate"]
    /\ current_round' = [current_round EXCEPT ![r] = @ + 1]
    /\ leader_index' = [leader_index EXCEPT ![r] = r]
    /\ promised_leader' = [promised_leader EXCEPT ![r] = r]
    /\ probes' = probes \cup {[round |-> current_round'[r], leader |-> r]}
    /\ prepares' = prepares \cup {[round |-> current_round'[r], leader |-> r, server |-> r]}
    /\ UNCHANGED <<pending, up, logs>>

\* A probe of round m.round or later: the replica promises, if it is free to
\* and the candidate's log is recent enough, or only takes on the round.
handle_probe(r, m) ==
    /\ up[r] /\ up[m.leader] /\ m.leader # r
    /\ m.round >= current_round[r]
    /\ LET isNewer == m.round > current_round[r]
           held    == IF isNewer THEN None ELSE promised_leader[r]
       IN  \/ /\ held \in {None, m.leader}
              /\ prepares' = prepares \cup {[round |-> m.round, leader |-> m.leader, server |-> r]}
              /\ IF isNewer
                 THEN become_follower(r, m.round, m.leader, m.leader)
                 ELSE /\ promised_leader' = [promised_leader EXCEPT ![r] = m.leader]
                      /\ leader_index' = [leader_index EXCEPT ![r] = m.leader]
                      /\ UNCHANGED <<role, current_round, pending>>
           \/ /\ isNewer
              /\ become_follower(r, m.round, leader_index[r], None)
              /\ UNCHANGED prepares
    /\ UNCHANGED <<up, probes, logs>>

\* The promise that completes a quorum.
handle_prepare(r) ==
    /\ role[r] = "candidate"
    /\ has_quorum(Cardinality({m \in prepares : m.round = current_round[r] /\ m.leader = r}))
    /\ become_leader(r)
    /\ UNCHANGED <<current_round, pending, up, votes, logs>>

\* Whoever hears of a later round in an answer steps down.
step_down(r) ==
    \E q \in Replica \ {r} :
        /\ up[r] /\ up[q]
        /\ current_round[q] > current_round[r]
        /\ become_follower(r, current_round[q], leader_index[r], None)
        /\ UNCHANGED <<up, votes, logs>>

-----------------------------------------------------------------------------
(* The log.                                                                *)

\* A proposal of leader l: r follows l, and executes what it is told is
\* decided.
handle_propose(r, l) ==
    /\ r # l /\ up[r] /\ up[l]
    /\ role[l] = "leader"
    /\ current_round[l] >= current_round[r]
    /\ become_follower(r, current_round[l], l,
                       IF current_round[l] > current_round[r] THEN None ELSE promised_leader[r])
    /\ \E n \in last_applied[r]..Len(order) : last_applied' = [last_applied EXCEPT ![r] = n]
    /\ UNCHANGED <<up, votes, logged, order>>

\* A logged put is decided: a quorum holds it, or the next leader finds it.
Decide(s) ==
    /\ s \in logged
    /\ Len(order) < MaxLog
    /\ order' = Append(order, s)
    /\ UNCHANGED <<role, current_round, promised_leader, leader_index, pending, up,
                   votes, logged, last_applied>>
=============================================================================
