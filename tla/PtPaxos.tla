------------------------------ MODULE PtPaxos ------------------------------
(***************************************************************************)
(* The replicated log of pset4/pt-paxos.cc (pset4/pt-collab.cc carries a   *)
(* copy of the same code): round-based leader election, log replication    *)
(* in batches, commitment by quorum, log trimming, and the client-facing   *)
(* half of a replica (request batching, deduplication, replies).           *)
(*                                                                         *)
(* Every replica is one coroutine, pt_paxos_replica::run, that handles one *)
(* client request, replica message or timeout to its end before it takes   *)
(* the next: an action below is one turn of that loop.  Nothing is lost    *)
(* when a replica "fails" (fail_replica only cuts its links), so there is  *)
(* no crash action.  channel::send loses a message when its coin flip says *)
(* so (always, on a cut link): Transmit chooses the messages that survive. *)
(*                                                                         *)
(* Data.  A request is its serial (a retry resends the same request).  The *)
(* response to a request is a function of the requests executed before it, *)
(* so it is abstracted to the slot at which the request was executed;      *)
(* response_cache, which maps serials to these slots, then also determines *)
(* the contents of db_.  Time is left out: a timeout may fire whenever the *)
(* loop waits on it.                                                       *)
(***************************************************************************)
EXTENDS Integers, Sequences, FiniteSets, FiniteSetsExt

CONSTANTS Replicas,       \* the replica ids
          InitialLeader,  \* testinfo::initial_leader
          Serials,        \* the serials of the client requests
          AppendBatch,    \* append_batch_size_ (16 in the code)
          TrimRetention,  \* trim_retention_ (256 in the code)
          None,           \* an empty std::optional<size_t>
          Absent,         \* "no entry at this slot"
          MaxRound,       \* bound: no election starts a round above it
          MaxSlot,        \* bound: no request is accepted beyond this slot
          MaxInFlight     \* bound: messages under way at a time; the others are lost

ASSUME ReplicasAssumption ==
    /\ IsFiniteSet(Replicas)
    /\ InitialLeader \in Replicas
    /\ None \notin Replicas

ASSUME BoundsAssumption ==
    /\ AppendBatch \in Nat \ {0}
    /\ TrimRetention \in Nat
    /\ MaxRound \in Nat
    /\ MaxSlot \in Nat
    /\ MaxInFlight \in Nat \ {0}

Rounds == 0 .. MaxRound
Slots == 1 .. MaxSlot

\* log_entry; its slot is the place it is stored at.
LogEntry == [round : Rounds, serial : Serials]

ASSUME AbsentAssumption == Absent \notin LogEntry

\* std::map<uint64_t, log_entry> log_, and the entries of a propose_message.
Log == [Slots -> LogEntry \cup {Absent}]

ProbeMessage ==
    [type : {"probe"}, round : Rounds, leader : Replicas,
     last_log_index : 0 .. MaxSlot, last_log_round : Rounds]

PrepareMessage ==
    [type : {"prepare"}, round : Rounds, server : Replicas,
     promised : BOOLEAN]

ProposeMessage ==
    [type : {"propose"}, round : Rounds, leader : Replicas,
     prev_log_index : 0 .. MaxSlot, prev_log_round : Rounds,
     decide_through : 0 .. MaxSlot, trim_through : 0 .. MaxSlot,
     entries : Log]

AckMessage ==
    [type : {"ack"}, round : Rounds, server : Replicas, success : BOOLEAN,
     match_index : 0 .. MaxSlot, next_index : 1 .. MaxSlot + 1]

Message == ProbeMessage \cup PrepareMessage \cup ProposeMessage \cup AckMessage

\* The protocol state of a pt_paxos_replica.  prepare_ok is the set of the
\* servers whose flag is set; 0 stands for "no entry" in response_cache and
\* pending_clients, since slots start at 1.
ReplicaState ==
    [role : {"follower", "candidate", "leader"},
     leader_index : Replicas,
     current_round : Rounds,
     promised_leader : Replicas \cup {None},
     prepare_ok : SUBSET Replicas,
     log : Log,
     next_slot : 1 .. MaxSlot + 1,
     commit_index : 0 .. MaxSlot,
     last_applied : 0 .. MaxSlot,
     trim_through : 0 .. MaxSlot,
     trim_round : Rounds,
     match_index : [Replicas -> 0 .. MaxSlot],
     next_index : [Replicas -> 1 .. MaxSlot + 1],
     response_cache : [Serials -> 0 .. MaxSlot],
     pending_clients : [Serials -> 0 .. MaxSlot],
     pending_client_requests : Seq(Serials),
     pending_client_serials : SUBSET Serials]

VARIABLES replica,   \* replica[r]: the state of replica r
          channel,   \* channel[s][d]: messages sent by s, not yet received by d
          replies,   \* history: every response sent to a client
          granted,   \* history: every promise given in an election
          leaderLog, \* history: leaderLog[t], the log of the leader of round t,
                     \* trimmed slots included
          acked      \* history: how much of that log a server has stored, for
                     \* every successful ack and for the leader itself

vars == <<replica, channel, replies, granted, leaderLog, acked>>

-----------------------------------------------------------------------------
(* Reading a replica's state *)

IsQuorum(S) == Cardinality(S) >= Cardinality(Replicas) \div 2 + 1

LastLogIndex(st) == st.next_slot - 1

RoundAt(st, slot) ==
    IF slot = 0 THEN 0
    ELSE IF slot = st.trim_through THEN st.trim_round
    ELSE IF slot \in Slots /\ st.log[slot] # Absent THEN st.log[slot].round
    ELSE 0

LastLogRound(st) == RoundAt(st, LastLogIndex(st))

\* Mutant: the longer log wins, whatever the rounds.
LongerLogWins(st, last_log_index, last_log_round) ==
    last_log_index >= LastLogIndex(st)

LeaderIsUpToDate(st, last_log_index, last_log_round) ==
    \/ last_log_round > LastLogRound(st)
    \/ last_log_round = LastLogRound(st) /\ last_log_index >= LastLogIndex(st)

\* Mutant: an entry of any round is taken for a match.
PrefixPresent(st, prev_log_index, prev_log_round) ==
    IF prev_log_index = 0 THEN st.trim_through = 0
    ELSE IF prev_log_index <= st.trim_through THEN prev_log_index = st.trim_through
    ELSE st.log[prev_log_index] # Absent

PrefixMatches(st, prev_log_index, prev_log_round) ==
    IF prev_log_index = 0 THEN st.trim_through = 0
    ELSE IF prev_log_index < st.trim_through THEN FALSE
    ELSE IF prev_log_index = st.trim_through THEN prev_log_round = st.trim_round
    ELSE /\ st.log[prev_log_index] # Absent
         /\ st.log[prev_log_index].round = prev_log_round

-----------------------------------------------------------------------------
(* The helpers that change a replica's state, as functions of that state *)

BecomeFollower(st, round, leader_hint) ==
    [st EXCEPT
        !.current_round = IF round > @ THEN round ELSE @,
        !.promised_leader = IF round > st.current_round THEN None ELSE @,
        !.role = "follower",
        !.leader_index = leader_hint,
        !.prepare_ok = {},
        !.pending_clients = [s \in Serials |-> 0],
        !.pending_client_requests = <<>>,
        !.pending_client_serials = {}]

BecomeLeader(r, st) ==
    [st EXCEPT
        !.role = "leader",
        !.leader_index = r,
        !.promised_leader = r,
        !.prepare_ok = {},
        !.match_index = [s \in Replicas |-> IF s = r THEN LastLogIndex(st) ELSE 0],
        !.next_index = [s \in Replicas |-> LastLogIndex(st) + 1]]

TrimLogPrefix(st) ==
    LET erased == {k \in Slots : k <= st.trim_through /\ st.log[k] # Absent}
    IN  [st EXCEPT
            !.trim_round = IF erased = {} THEN @ ELSE st.log[Max(erased)].round,
            !.log = [k \in Slots |-> IF k \in erased THEN Absent ELSE st.log[k]]]

\* The servers that update_commit_index counts for a slot.
Replicated(r, st, slot) ==
    {r} \cup {s \in Replicas : st.match_index[s] >= slot}

\* Mutant: entries of earlier rounds are committed by counting replicas, too.
CommitAnyRound(r, st) ==
    LET decided == {k \in Slots :
                       /\ st.commit_index < k /\ k <= LastLogIndex(st)
                       /\ IsQuorum(Replicated(r, st, k))}
    IN  IF st.role = "leader" /\ decided # {}
        THEN [st EXCEPT !.commit_index = Max(decided)]
        ELSE st

UpdateCommitIndex(r, st) ==
    LET decided == {k \in Slots :
                       /\ st.commit_index < k /\ k <= LastLogIndex(st)
                       /\ RoundAt(st, k) = st.current_round
                       /\ IsQuorum(Replicated(r, st, k))}
    IN  IF st.role = "leader" /\ decided # {}
        THEN [st EXCEPT !.commit_index = Max(decided)]
        ELSE st

\* Mutant: the leader trims what is committed, whoever still lacks it.
TrimCommitted(r, st) ==
    IF st.role = "leader" /\ st.commit_index > st.trim_through + TrimRetention
    THEN TrimLogPrefix([st EXCEPT !.trim_through = st.commit_index - TrimRetention])
    ELSE st

UpdateTrimWatermark(r, st) ==
    LET min_match == Min({st.match_index[s] : s \in Replicas} \cup {st.commit_index})
        target_trim == IF min_match > TrimRetention
                       THEN min_match - TrimRetention ELSE 0
    IN  IF st.role = "leader" /\ target_trim > st.trim_through
        THEN TrimLogPrefix([st EXCEPT !.trim_through = target_trim])
        ELSE st

\* The slots the loop of apply_committed_entries executes: the committed ones
\* not applied yet, except those that are missing from the log.
ToApply(st) ==
    {k \in Slots : /\ st.last_applied < k /\ k <= st.commit_index
                   /\ st.log[k] # Absent}

\* The serials answered by that loop: a leader answers a request when it
\* applies the very slot it gave the request.
Answered(st) ==
    {s \in Serials : /\ st.role = "leader"
                     /\ st.pending_clients[s] \in ToApply(st)
                     /\ st.log[st.pending_clients[s]].serial = s}

\* Mutant: a request is executed again for every slot it occupies.
ApplyWithoutDedup(st) ==
    LET slotsOf(s) == {k \in ToApply(st) : st.log[k].serial = s}
    IN  TrimLogPrefix([st EXCEPT
            !.response_cache =
                [s \in Serials |-> IF slotsOf(s) # {} THEN Max(slotsOf(s)) ELSE @[s]],
            !.last_applied = IF st.commit_index > @ THEN st.commit_index ELSE @,
            !.pending_clients =
                [s \in Serials |-> IF s \in Answered(st) THEN 0 ELSE @[s]],
            !.pending_client_serials = @ \ Answered(st)])

ApplyCommittedEntries(st) ==
    LET slotsOf(s) == {k \in ToApply(st) : st.log[k].serial = s}
    IN  TrimLogPrefix([st EXCEPT
            !.response_cache =
                [s \in Serials |-> IF @[s] = 0 /\ slotsOf(s) # {}
                                   THEN Min(slotsOf(s)) ELSE @[s]],
            !.last_applied = IF st.commit_index > @ THEN st.commit_index ELSE @,
            !.pending_clients =
                [s \in Serials |-> IF s \in Answered(st) THEN 0 ELSE @[s]],
            !.pending_client_serials = @ \ Answered(st)])

\* The responses that go out while ApplyCommittedEntries(st) runs.
RepliesOf(st) ==
    {[serial |-> s, slot |-> ApplyCommittedEntries(st).response_cache[s]] :
        s \in Answered(st)}

\* send_propose_to's first half: never resend below the trimmed prefix.
ClampNextIndex(st, peers) ==
    [st EXCEPT !.next_index =
        [s \in Replicas |-> IF s \in peers /\ @[s] < st.trim_through + 1
                            THEN st.trim_through + 1 ELSE @[s]]]

\* The propose_message that send_propose_to builds once next_index is clamped.
ProposeTo(r, st, peer) ==
    LET next == st.next_index[peer]
    IN  [type |-> "propose", round |-> st.current_round, leader |-> r,
         prev_log_index |-> next - 1,
         prev_log_round |-> RoundAt(st, next - 1),
         decide_through |-> st.commit_index,
         trim_through |-> st.trim_through,
         entries |->
            [k \in Slots |->
                IF next <= k /\ k < next + AppendBatch
                   /\ \A j \in Slots : next <= j /\ j <= k => st.log[j] # Absent
                THEN st.log[k] ELSE Absent]]

-----------------------------------------------------------------------------
(* The network: one FIFO channel per ordered pair (link_delay_ is constant) *)

\* The channels once d has taken the first message from s.
Receive(s, d) == [channel EXCEPT ![s][d] = Tail(@)]

InFlight(c) ==
    {p \in Replicas \X Replicas \X (1 .. MaxInFlight + 1) : p[3] <= Len(c[p[1]][p[2]])}

\* From the channels c, s sends out[d] to every d in dests.  Each message gets
\* through or is lost; every choice within the bound is possible.
Transmit(c, s, out, dests) ==
    \E kept \in SUBSET dests :
        /\ channel' = [c EXCEPT ![s] = [d \in Replicas |->
                           IF d \in kept THEN Append(@[d], out[d]) ELSE @[d]]]
        /\ Cardinality(InFlight(channel')) <= MaxInFlight

Peers(r) == Replicas \ {r}

\* send_propose_to for each of the peers, with next_index already clamped.
TransmitProposals(c, r, st, peers) ==
    Transmit(c, r, [d \in Replicas |-> ProposeTo(r, st, d)], peers)

-----------------------------------------------------------------------------
(* Following a leader: the parts of handle_propose *)

Nack(r, st, next_index) ==
    [type |-> "ack", round |-> st.current_round, server |-> r,
     success |-> FALSE, match_index |-> LastLogIndex(st),
     next_index |-> next_index]

\* The proposed entries that collide with an entry of another round.
Conflicts(st, entries) ==
    {k \in Slots : /\ k > st.trim_through
                   /\ entries[k] # Absent /\ st.log[k] # Absent
                   /\ st.log[k].round # entries[k].round}

\* Mutant: next_slot_ is left where it was.
TruncateLogOnly(st, slot) ==
    [st EXCEPT !.log = [k \in Slots |-> IF k < slot THEN @[k] ELSE Absent]]

\* The suffix from slot on is erased.
Truncate(st, slot) ==
    [st EXCEPT !.log = [k \in Slots |-> IF k < slot THEN @[k] ELSE Absent],
               !.next_slot = slot]

\* Every proposed entry of a slot that holds none is stored.
StoreMissing(st, entries) ==
    LET missing == {k \in Slots : /\ k > st.trim_through
                                  /\ entries[k] # Absent /\ st.log[k] = Absent}
    IN  [st EXCEPT
            !.log = [k \in Slots |-> IF k \in missing THEN entries[k] ELSE @[k]],
            !.next_slot = Max({@} \cup {k + 1 : k \in missing})]

\* What the entry loop leaves behind when it reaches the end of the batch ...
AppendEntries(st, entries) ==
    LET conflicts == Conflicts(st, entries)
    IN  StoreMissing(IF conflicts = {} THEN st ELSE Truncate(st, Min(conflicts)),
                     entries)

\* ... and when it stops at a conflict with an entry believed committed.
StoreUpTo(st, entries, slot) ==
    StoreMissing(st, [k \in Slots |-> IF k < slot THEN entries[k] ELSE Absent])

\* Mutant: off by one.
OnePastProposed(m) ==
    Max({m.prev_log_index} \cup {k \in Slots : m.entries[k] # Absent}) + 1

LastProposed(m) ==
    Max({m.prev_log_index} \cup {k \in Slots : m.entries[k] # Absent})

FollowerCommit(st, m) ==
    IF m.decide_through > st.commit_index
    THEN [st EXCEPT !.commit_index = Min({m.decide_through, LastLogIndex(st)})]
    ELSE st

FollowerTrim(st, m) ==
    IF m.trim_through > st.trim_through
    THEN TrimLogPrefix([st EXCEPT !.trim_through =
                            Min({m.trim_through, st.last_applied})])
    ELSE st

\* Mutant: the follower reports its tail, which the leader may not have.
AcceptWithTail(r, st, m) ==
    [type |-> "ack", round |-> st.current_round, server |-> r, success |-> TRUE,
     match_index |-> LastLogIndex(st), next_index |-> LastLogIndex(st) + 1]

Accept(r, st, m) ==
    [type |-> "ack", round |-> st.current_round, server |-> r, success |-> TRUE,
     match_index |-> LastProposed(m), next_index |-> LastProposed(m) + 1]

\* The state a propose_message leaves replica r in, and its answer.
ProposeOutcome(r, old, m) ==
    LET st == BecomeFollower(old, m.round, m.leader)
        conflicts == Conflicts(st, m.entries)
        backup == IF m.prev_log_index > st.trim_through
                  THEN Min({m.prev_log_index, LastLogIndex(st) + 1})
                  ELSE st.trim_through + 1
    IN  IF m.round < old.current_round
        THEN [state |-> old, ack |-> Nack(r, old, LastLogIndex(old) + 1)]
        ELSE IF ~PrefixMatches(st, m.prev_log_index, m.prev_log_round)
        THEN [state |-> st, ack |-> Nack(r, st, backup)]
        ELSE IF conflicts # {} /\ st.commit_index >= Min(conflicts)
        THEN LET kept == StoreUpTo(st, m.entries, Min(conflicts))
             IN  [state |-> kept, ack |-> Nack(r, kept, Min(conflicts))]
        ELSE LET appended == AppendEntries(st, m.entries)
                 applied == ApplyCommittedEntries(FollowerCommit(appended, m))
             IN  [state |-> FollowerTrim(applied, m), ack |-> Accept(r, appended, m)]

-----------------------------------------------------------------------------
(* The history of the leaders' logs, which no action reads *)

\* The log of a state with the slots it has trimmed, which are those of the leader
\* of its last round.
WholeLog(st) ==
    [k \in Slots |-> IF k <= st.trim_through THEN leaderLog[LastLogRound(st)][k]
                     ELSE st.log[k]]

Acked(server, round, index) ==
    [server |-> server, round |-> round, index |-> index]

\* Replica r leads with the log of st.
Lead(r, st) ==
    /\ leaderLog' = [leaderLog EXCEPT ![st.current_round] = WholeLog(st)]
    /\ acked' = acked \cup {Acked(r, st.current_round, LastLogIndex(st))}

-----------------------------------------------------------------------------
(* Actions *)

\* The first message on the channel from s to r is of the given type.
Incoming(s, r, type) ==
    channel[s][r] # <<>> /\ Head(channel[s][r]).type = type

\* An election timeout: r asks everyone for a promise in the next round.  The
\* only replica of a cluster of one leads at once.
StartProbeRound(r) ==
    LET old == replica[r]
        st == [old EXCEPT !.role = "candidate",
                          !.current_round = @ + 1,
                          !.leader_index = r,
                          !.promised_leader = r,
                          !.prepare_ok = {r}]
        msg == [type |-> "probe", round |-> st.current_round, leader |-> r,
                last_log_index |-> LastLogIndex(st),
                last_log_round |-> LastLogRound(st)]
    IN  /\ old.role # "leader"
        /\ old.current_round < MaxRound
        /\ replica' = [replica EXCEPT ![r] =
                           IF IsQuorum({r}) THEN BecomeLeader(r, st) ELSE st]
        /\ Transmit(channel, r, [d \in Replicas |-> msg], Peers(r))
        /\ granted' = granted \cup
                {[round |-> st.current_round, server |-> r, leader |-> r]}
        /\ IF IsQuorum({r}) THEN Lead(r, BecomeLeader(r, st))
           ELSE UNCHANGED <<leaderLog, acked>>
        /\ UNCHANGED replies

\* Mutant: the promise given earlier in the round is not looked at.
CanPromiseTwice(st, m) ==
    LeaderIsUpToDate(st, m.last_log_index, m.last_log_round)

\* May a replica that has caught up with the round of a probe promise its sender?
CanPromise(st, m) ==
    /\ st.promised_leader \in {None, m.leader}
    /\ LeaderIsUpToDate(st, m.last_log_index, m.last_log_round)

HandleProbe(s, r) ==
    LET m == Head(channel[s][r])
        old == replica[r]
        st == IF m.round > old.current_round
              THEN BecomeFollower(old, m.round, old.leader_index) ELSE old
        promise == m.round >= old.current_round /\ CanPromise(st, m)
        answer == [type |-> "prepare", round |-> st.current_round, server |-> r,
                   promised |-> promise]
    IN  /\ Incoming(s, r, "probe")
        /\ replica' = [replica EXCEPT ![r] =
               IF promise THEN [st EXCEPT !.promised_leader = m.leader,
                                          !.leader_index = m.leader]
               ELSE st]
        /\ Transmit(Receive(s, r), r, [d \in Replicas |-> answer], {m.leader})
        /\ granted' = IF promise
                      THEN granted \cup {[round |-> m.round, server |-> r,
                                          leader |-> m.leader]}
                      ELSE granted
        /\ UNCHANGED <<replies, leaderLog, acked>>

HandlePrepare(s, r) ==
    LET m == Head(channel[s][r])
        old == replica[r]
        counts == /\ old.role = "candidate" /\ m.round = old.current_round
                  /\ m.promised /\ m.server \notin old.prepare_ok
        st == [old EXCEPT !.prepare_ok = @ \cup {m.server}]
        leading == ClampNextIndex(BecomeLeader(r, st), Peers(r))
    IN  /\ Incoming(s, r, "prepare")
        /\ \/ /\ m.round > old.current_round
              /\ replica' = [replica EXCEPT ![r] =
                                BecomeFollower(old, m.round, old.leader_index)]
              /\ channel' = Receive(s, r)
              /\ UNCHANGED <<leaderLog, acked>>
           \/ /\ m.round <= old.current_round /\ ~counts
              /\ channel' = Receive(s, r)
              /\ UNCHANGED <<replica, leaderLog, acked>>
           \/ /\ counts /\ ~IsQuorum(st.prepare_ok)
              /\ replica' = [replica EXCEPT ![r] = st]
              /\ channel' = Receive(s, r)
              /\ UNCHANGED <<leaderLog, acked>>
           \/ /\ counts /\ IsQuorum(st.prepare_ok)
              /\ replica' = [replica EXCEPT ![r] = leading]
              /\ TransmitProposals(Receive(s, r), r, leading, Peers(r))
              /\ Lead(r, leading)
        /\ UNCHANGED <<replies, granted>>

HandlePropose(s, r) ==
    LET m == Head(channel[s][r])
        outcome == ProposeOutcome(r, replica[r], m)
    IN  /\ Incoming(s, r, "propose")
        /\ replica' = [replica EXCEPT ![r] = outcome.state]
        /\ Transmit(Receive(s, r), r, [d \in Replicas |-> outcome.ack], {m.leader})
        /\ acked' = IF outcome.ack.success
                    THEN acked \cup {Acked(r, outcome.ack.round,
                                           outcome.ack.match_index)}
                    ELSE acked
        /\ UNCHANGED <<replies, granted, leaderLog>>

\* The state a successful ack leaves the leader in, before it sends anything.
AckProgress(r, st, m) ==
    LET known == [st EXCEPT !.match_index[m.server] = Max({@, m.match_index}),
                            !.next_index[m.server] = Max({@, m.next_index})]
        decided == UpdateCommitIndex(r, known)
    IN  [decided |-> decided,
         state |-> UpdateTrimWatermark(r, ApplyCommittedEntries(decided))]

\* Mutant: the index that failed is tried again.
NoFallback(st, m) == st.next_index[m.server]

\* The next_index a failed ack backs the leader up to.
Fallback(st, m) ==
    LET next == st.next_index[m.server]
        asked == IF m.next_index = 0 THEN 1 ELSE m.next_index
        tried == IF asked < next THEN asked
                 ELSE IF next > 1 THEN next - 1 ELSE 1
    IN  Max({tried, st.trim_through + 1})

\* Is an ack meant for this incarnation of the leader?
AckIsCurrent(st, m) == st.role = "leader" /\ m.round = st.current_round

HandleAck(s, r) ==
    LET m == Head(channel[s][r])
        old == replica[r]
        current == AckIsCurrent(old, m)
        progress == AckProgress(r, old, m)
        caughtUp == progress.state.next_index[m.server] > LastLogIndex(progress.state)
        resend == ClampNextIndex(progress.state, {m.server})
        backedUp == [old EXCEPT !.next_index[m.server] = Fallback(old, m)]
    IN  /\ Incoming(s, r, "ack")
        /\ \/ /\ m.round > old.current_round
              /\ replica' = [replica EXCEPT ![r] =
                                BecomeFollower(old, m.round, old.leader_index)]
              /\ channel' = Receive(s, r)
              /\ UNCHANGED replies
           \/ /\ m.round <= old.current_round /\ ~current
              /\ channel' = Receive(s, r)
              /\ UNCHANGED <<replica, replies>>
           \/ /\ current /\ m.success
              /\ replica' = [replica EXCEPT ![r] =
                                IF caughtUp THEN progress.state ELSE resend]
              /\ TransmitProposals(Receive(s, r), r, resend,
                                   IF caughtUp THEN {} ELSE {m.server})
              /\ replies' = replies \cup RepliesOf(progress.decided)
           \/ /\ current /\ ~m.success
              /\ replica' = [replica EXCEPT ![r] = backedUp]
              /\ TransmitProposals(Receive(s, r), r, backedUp, {m.server})
              /\ UNCHANGED replies
        /\ UNCHANGED <<granted, leaderLog, acked>>

\* The queued requests take the next slots in order.
AppendQueue(r, st) ==
    LET queue == st.pending_client_requests
        first == st.next_slot
        taken == {k \in Slots : first <= k /\ k < first + Len(queue)}
        slotOf(s) == CHOOSE k \in taken : queue[k - first + 1] = s
    IN  [st EXCEPT
            !.log = [k \in Slots |->
                IF k \in taken THEN [round |-> st.current_round,
                                     serial |-> queue[k - first + 1]]
                ELSE @[k]],
            !.next_slot = @ + Len(queue),
            !.match_index[r] = first + Len(queue) - 1,
            !.next_index[r] = first + Len(queue),
            !.pending_clients = [s \in Serials |->
                IF @[s] = 0 /\ \E i \in 1 .. Len(queue) : queue[i] = s
                THEN slotOf(s) ELSE @[s]],
            !.pending_client_requests = <<>>]

\* flush_pending_client_requests: a queue that reaches one batch is flushed at
\* once (HandleClientRequest), so it is never longer and the loop runs once.
Flush(r, st) ==
    LET sent == ClampNextIndex(AppendQueue(r, st), Peers(r))
        decided == UpdateCommitIndex(r, sent)
    IN  [sent |-> sent, decided |-> decided,
         state |-> UpdateTrimWatermark(r, ApplyCommittedEntries(decided))]

BatchFull(st) == Len(st.pending_client_requests) >= AppendBatch

\* A client request (or a retry of one) arrives at r.  A replica that does not
\* lead answers with a redirection; a leader answers from its cache, ignores a
\* request it is already working on, or queues it; a full batch is flushed.
HandleClientRequest(r, serial) ==
    LET old == replica[r]
        queued == [old EXCEPT
                      !.pending_client_serials = @ \cup {serial},
                      !.pending_client_requests = Append(@, serial)]
        full == BatchFull(queued)
        flushed == Flush(r, queued)
        fresh == /\ old.role = "leader"
                 /\ old.response_cache[serial] = 0
                 /\ serial \notin old.pending_client_serials
    IN  /\ \/ ~fresh /\ UNCHANGED <<replica, channel>>
           \/ /\ fresh
              /\ old.next_slot + Len(old.pending_client_requests) <= MaxSlot
              /\ replica' = [replica EXCEPT ![r] =
                                IF full THEN flushed.state ELSE queued]
              /\ TransmitProposals(channel, r, flushed.sent,
                                   IF full THEN Peers(r) ELSE {})
        /\ replies' = replies \cup
                (IF fresh
                 THEN IF full THEN RepliesOf(flushed.decided) ELSE {}
                 ELSE IF old.role = "leader" /\ old.response_cache[serial] # 0
                 THEN {[serial |-> serial, slot |-> old.response_cache[serial]]}
                 ELSE {})
        /\ IF fresh /\ full THEN Lead(r, flushed.sent)
           ELSE UNCHANGED <<leaderLog, acked>>
        /\ UNCHANGED granted

\* The batch deadline of a leader expires.
FlushPendingClientRequests(r) ==
    LET old == replica[r]
        flushed == Flush(r, old)
    IN  /\ old.role = "leader"
        /\ old.pending_client_requests # <<>>
        /\ replica' = [replica EXCEPT ![r] = flushed.state]
        /\ TransmitProposals(channel, r, flushed.sent, Peers(r))
        /\ replies' = replies \cup RepliesOf(flushed.decided)
        /\ Lead(r, flushed.sent)
        /\ UNCHANGED granted

\* The heartbeat timeout of a leader with no queued request.
Heartbeat(r) ==
    LET st == ClampNextIndex(replica[r], Peers(r))
    IN  /\ st.role = "leader"
        /\ st.pending_client_requests = <<>>
        /\ replica' = [replica EXCEPT ![r] = st]
        /\ TransmitProposals(channel, r, st, Peers(r))
        /\ UNCHANGED <<replies, granted, leaderLog, acked>>

-----------------------------------------------------------------------------
InitialState(r) ==
    [role |-> IF r = InitialLeader THEN "leader" ELSE "follower",
     leader_index |-> InitialLeader,
     current_round |-> 0,
     promised_leader |-> IF r = InitialLeader THEN r ELSE None,
     prepare_ok |-> {},
     log |-> [k \in Slots |-> Absent],
     next_slot |-> 1,
     commit_index |-> 0,
     last_applied |-> 0,
     trim_through |-> 0,
     trim_round |-> 0,
     match_index |-> [s \in Replicas |-> 0],
     next_index |-> [s \in Replicas |-> 1],
     response_cache |-> [s \in Serials |-> 0],
     pending_clients |-> [s \in Serials |-> 0],
     pending_client_requests |-> <<>>,
     pending_client_serials |-> {}]

Init ==
    /\ replica = [r \in Replicas |-> InitialState(r)]
    /\ channel = [s \in Replicas |-> [d \in Replicas |-> <<>>]]
    /\ replies = {}
    /\ granted = {}
    /\ leaderLog = [t \in Rounds |-> [k \in Slots |-> Absent]]
    /\ acked = {Acked(InitialLeader, 0, 0)}

Next ==
    \E r \in Replicas :
        \/ StartProbeRound(r)
        \/ \E serial \in Serials : HandleClientRequest(r, serial)
        \/ FlushPendingClientRequests(r)
        \/ Heartbeat(r)
        \/ \E s \in Peers(r) : \/ HandleProbe(s, r)
                               \/ HandlePrepare(s, r)
                               \/ HandlePropose(s, r)
                               \/ HandleAck(s, r)

Spec == Init /\ [][Next]_vars

-----------------------------------------------------------------------------
(* Safety properties *)

\* The type of the state: rounds, slots and indices stay in range, and only
\* well-formed messages are on the channels.
TypeOK ==
    /\ replica \in [Replicas -> ReplicaState]
    /\ channel \in [Replicas -> [Replicas -> Seq(Message)]]
    /\ replies \subseteq [serial : Serials, slot : 0 .. MaxSlot]
    /\ granted \subseteq [round : Rounds, server : Replicas, leader : Replicas]
    /\ leaderLog \in [Rounds -> Log]
    /\ acked \subseteq [server : Replicas, round : Rounds, index : 0 .. MaxSlot]

\* No two replicas lead in the same round, however probes and promises of
\* several candidates interleave or are lost (handle_probe, handle_prepare).
ElectionSafety ==
    \A a, b \in Replicas :
        /\ replica[a].role = "leader" /\ replica[b].role = "leader"
        /\ replica[a].current_round = replica[b].current_round
        => a = b

\* The entry of a slot both replicas still hold.
SameEntry(a, b, k) ==
    replica[a].log[k] # Absent /\ replica[b].log[k] # Absent
        => replica[a].log[k] = replica[b].log[k]

\* Two logs with an entry of the same round at some slot agree on that slot and
\* on all earlier ones: what prefix_matches and the truncation of a conflicting
\* suffix in handle_propose are for.
LogMatching ==
    \A a, b \in Replicas, k \in Slots :
        /\ replica[a].log[k] # Absent /\ replica[b].log[k] # Absent
        /\ replica[a].log[k].round = replica[b].log[k].round
        => \A j \in 1 .. k : SameEntry(a, b, j)

\* A request one replica has executed at a slot is executed at that same slot by
\* every replica that has applied as far, so all databases go through the same
\* states (apply_committed_entries, commit_index_ of leader and follower).
StateMachineSafety ==
    \A a, b \in Replicas, s \in Serials :
        /\ replica[a].response_cache[s] # 0
        /\ replica[a].response_cache[s] <= replica[b].last_applied
        => replica[b].response_cache[s] = replica[a].response_cache[s]

\* A leader has every entry that a replica of its own or an earlier round knows
\* to be committed: what the up-to-date check of handle_probe and the
\* current-round rule of update_commit_index guarantee together.
LeaderCompleteness ==
    \A l, a \in Replicas :
        /\ replica[l].role = "leader"
        /\ replica[a].current_round <= replica[l].current_round
        => \A k \in 1 .. replica[a].commit_index :
               \/ k <= replica[l].trim_through
               \/ replica[l].log[k] # Absent /\ SameEntry(l, a, k)

\* A log holds exactly the slots after the trimmed prefix up to next_slot_, and
\* only applied slots are trimmed: apply_committed_entries, which silently skips
\* a slot it does not find, never has one to skip.
LogContiguous ==
    \A r \in Replicas :
        LET st == replica[r]
        IN  /\ st.trim_through <= st.last_applied
            /\ st.last_applied = st.commit_index
            /\ st.commit_index <= LastLogIndex(st)
            /\ \A k \in Slots : st.log[k] # Absent <=>
                                st.trim_through < k /\ k <= LastLogIndex(st)

\* The leader's match_index_ is true of the follower's log as long as the
\* follower has seen no later round: acks counted by update_commit_index stand
\* for entries really stored.
MatchIndexSound ==
    \A l, s \in Replicas :
        /\ replica[l].role = "leader"
        /\ replica[s].current_round = replica[l].current_round
        => /\ replica[l].match_index[s] <= LastLogIndex(replica[s])
           /\ \A k \in 1 .. replica[l].match_index[s] : SameEntry(l, s, k)

\* What one replica has trimmed, every replica still has or has trimmed as well,
\* with the same round at the boundary: no follower can need an entry that its
\* leader has discarded (there is no snapshot to send it instead).
TrimmedPrefixShared ==
    \A a, b \in Replicas :
        LET trimmed == replica[a].trim_through
        IN  /\ trimmed <= LastLogIndex(replica[b])
            /\ replica[b].trim_through <= trimmed
               => RoundAt(replica[b], trimmed) = replica[a].trim_round

\* All responses ever sent for one serial are the same response, whichever
\* leader sends it and however often the client retries.
ConsistentReplies ==
    \A x, y \in replies : x.serial = y.serial => x.slot = y.slot

\* No step takes back what a replica has committed, executed or learnt of
\* rounds: committed entries are only ever removed by trimming, and a cached
\* response never changes.
CommittedStepOK(old, new) ==
    /\ new.current_round >= old.current_round
    /\ new.commit_index >= old.commit_index
    /\ new.trim_through >= old.trim_through
    /\ \A k \in Slots : k <= old.commit_index /\ k > new.trim_through
                          => new.log[k] = old.log[k]
    /\ \A s \in Serials : old.response_cache[s] # 0
                             => new.response_cache[s] = old.response_cache[s]

CommittedIsFinal ==
    [][\A r \in Replicas : CommittedStepOK(replica[r], replica'[r])]_vars

=============================================================================
