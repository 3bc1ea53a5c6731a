--------------------------- MODULE PtPaxosProofs ---------------------------
(***************************************************************************)
(* Theorems about PtPaxos, for every cluster, every batch size and every   *)
(* bound: its state is well typed, no round has two leaders, no log has a  *)
(* gap, and what a replica has committed it never takes back.  The last    *)
(* part prepares PtPaxosSafetyProofs: it compares every log with the logs  *)
(* the leaders of the rounds had, which the variable leaderLog records.    *)
(***************************************************************************)
EXTENDS PtPaxos, TLAPS, FiniteSetTheorems, WellFoundedInduction

-----------------------------------------------------------------------------
(* Arithmetic of the helpers: least and greatest elements, quorums *)

\* A nonempty set of naturals has a least element: what the loops that search
\* for a first slot find.
LEMMA MinOfNaturals ==
  ASSUME NEW S \in SUBSET Nat, S # {}
  PROVE  Min(S) \in S /\ \A y \in S : Min(S) <= y
<1>1. PICK x \in S : \A y \in S : ~(<<y, x>> \in OpToRel(<, Nat))
  BY NatLessThanWellFounded, WFMin
<1>2. \A y \in S : x <= y
  <2> SUFFICES ASSUME NEW y \in S, y < x
               PROVE  FALSE
    OBVIOUS
  <2>1. <<y, x>> \in OpToRel(<, Nat)
    BY Zenon DEF OpToRel
  <2> QED BY <1>1, <2>1, Zenon
<1> QED BY <1>2 DEF Min

\* A nonempty bounded set of naturals has a greatest element.
LEMMA MaxOfNaturals ==
  ASSUME NEW S \in SUBSET Nat, S # {}, NEW n \in Nat, \A x \in S : x <= n
  PROVE  Max(S) \in S /\ \A y \in S : Max(S) >= y
<1> DEFINE T == {n - x : x \in S}
<1>1. T \in SUBSET Nat /\ T # {}
  <2>1. \A x \in S : n - x \in Nat
    OBVIOUS
  <2>2. T \in SUBSET Nat
    BY <2>1
  <2>3. PICK x \in S : TRUE
    OBVIOUS
  <2>4. n - x \in T
    OBVIOUS
  <2> QED BY <2>2, <2>4
<1>2. PICK x \in S : Min(T) = n - x
  BY <1>1, MinOfNaturals
<1>3. \A u \in T : n - x <= u
  BY <1>1, <1>2, MinOfNaturals
<1>4. \A y \in S : x >= y
  <2> TAKE y \in S
  <2>1. n - x <= n - y
    BY <1>3
  <2> QED BY <2>1
<1> QED BY <1>4 DEF Max

\* The same for a set of indices, or of slots.
LEMMA MinMaxOfIndices ==
  ASSUME NEW b \in Nat, NEW S \in SUBSET (0 .. b), S # {}
  PROVE  /\ Min(S) \in S /\ Min(S) \in 0 .. b /\ \A y \in S : Min(S) <= y
         /\ Max(S) \in S /\ Max(S) \in 0 .. b /\ \A y \in S : Max(S) >= y
<1>1. S \in SUBSET Nat /\ \A x \in S : x <= b
  OBVIOUS
<1> QED BY <1>1, MinOfNaturals, MaxOfNaturals

LEMMA MinMaxOfSlots ==
  ASSUME NEW S \in SUBSET Slots, S # {}
  PROVE  /\ Min(S) \in S /\ Min(S) \in Slots /\ \A y \in S : Min(S) <= y
         /\ Max(S) \in S /\ Max(S) \in Slots /\ \A y \in S : Max(S) >= y
<1>1. S \in SUBSET (0 .. MaxSlot)
  BY BoundsAssumption DEF Slots
<1> QED BY <1>1, MinMaxOfIndices, BoundsAssumption

\* Two quorums have a server in common.
LEMMA QuorumsIntersect ==
  ASSUME NEW P \in SUBSET Replicas, NEW Q \in SUBSET Replicas,
         IsQuorum(P), IsQuorum(Q)
  PROVE  P \cap Q # {}
<1>1. /\ Cardinality(Replicas) \in Nat
      /\ IsFiniteSet(P) /\ Cardinality(P) \in Nat
      /\ IsFiniteSet(Q) /\ Cardinality(Q) \in Nat
  BY ReplicasAssumption, FS_Subset, FS_CardinalityType
<1>2. Cardinality(P) + Cardinality(Q) > Cardinality(Replicas)
  BY <1>1 DEF IsQuorum
<1> QED
  BY <1>1, <1>2, ReplicasAssumption, FS_MajoritiesIntersect

-----------------------------------------------------------------------------
(* What the helpers return, for a well-typed state *)

\* round_at returns a round for every slot, also for one that is not in the log.
LEMMA RoundAtType ==
  ASSUME NEW st \in ReplicaState, NEW k \in 0 .. MaxSlot
  PROVE  RoundAt(st, k) \in Rounds
<1>1. 0 \in Rounds /\ st.trim_round \in Rounds
  BY BoundsAssumption DEF ReplicaState, Rounds
<1>2. st.log \in [Slots -> LogEntry \cup {Absent}]
  BY DEF ReplicaState, Log
<1>3. k \in Slots /\ st.log[k] # Absent => st.log[k].round \in Rounds
  BY <1>2 DEF LogEntry
<1> QED BY <1>1, <1>3, Zenon DEF RoundAt

\* last_log_index() is a slot or 0.
LEMMA LastLogIndexType ==
  ASSUME NEW st \in ReplicaState
  PROVE  LastLogIndex(st) \in 0 .. MaxSlot
BY BoundsAssumption DEF LastLogIndex, ReplicaState

\* become_follower keeps a state well typed.
LEMMA BecomeFollowerType ==
  ASSUME NEW st \in ReplicaState, NEW round \in Rounds, NEW hint \in Replicas
  PROVE  BecomeFollower(st, round, hint) \in ReplicaState
<1>1. [s \in Serials |-> 0] \in [Serials -> 0 .. MaxSlot]
  BY BoundsAssumption
<1>2. <<>> \in Seq(Serials)
  OBVIOUS
<1>3. /\ (IF round > st.current_round THEN round ELSE st.current_round) \in Rounds
      /\ (IF round > st.current_round THEN None ELSE st.promised_leader)
             \in Replicas \cup {None}
  <2>1. st.current_round \in Rounds /\ st.promised_leader \in Replicas \cup {None}
    BY DEF ReplicaState
  <2> QED BY <2>1
<1> QED BY <1>1, <1>2, <1>3, ZenonT(60) DEF BecomeFollower, ReplicaState

\* become_leader keeps a state well typed.
LEMMA BecomeLeaderType ==
  ASSUME NEW st \in ReplicaState, NEW r \in Replicas
  PROVE  BecomeLeader(r, st) \in ReplicaState
<1>1. /\ [s \in Replicas |-> IF s = r THEN LastLogIndex(st) ELSE 0]
             \in [Replicas -> 0 .. MaxSlot]
      /\ [s \in Replicas |-> LastLogIndex(st) + 1] \in [Replicas -> 1 .. MaxSlot + 1]
  BY BoundsAssumption, LastLogIndexType
<1> QED BY <1>1, Zenon DEF BecomeLeader, ReplicaState

\* trim_log_prefix keeps a state well typed: the round it keeps for the trimmed
\* prefix is the round of an entry it erases.
LEMMA TrimLogPrefixType ==
  ASSUME NEW st \in ReplicaState
  PROVE  TrimLogPrefix(st) \in ReplicaState
<1> DEFINE erased == {k \in Slots : k <= st.trim_through /\ st.log[k] # Absent}
<1>1. erased # {} => Max(erased) \in erased
  BY MinMaxOfSlots, Zenon
<1>2. (IF erased = {} THEN st.trim_round ELSE st.log[Max(erased)].round) \in Rounds
  BY <1>1 DEF ReplicaState, Log, LogEntry
<1>3. [k \in Slots |-> IF k \in erased THEN Absent ELSE st.log[k]] \in Log
  BY DEF ReplicaState, Log
<1> QED BY <1>2, <1>3, Zenon DEF TrimLogPrefix, ReplicaState

\* update_commit_index keeps a state well typed, and moves the commit index
\* to a slot of the log or not at all.
LEMMA UpdateCommitIndexType ==
  ASSUME NEW st \in ReplicaState, NEW r \in Replicas
  PROVE  UpdateCommitIndex(r, st) \in ReplicaState
<1> DEFINE decided == {k \in Slots :
                          /\ st.commit_index < k /\ k <= LastLogIndex(st)
                          /\ RoundAt(st, k) = st.current_round
                          /\ IsQuorum(Replicated(r, st, k))}
<1>1. decided # {} => Max(decided) \in Slots
  BY MinMaxOfSlots, Zenon
<1>2. decided # {} => Max(decided) \in 0 .. MaxSlot
  BY <1>1, BoundsAssumption DEF Slots
<1> QED BY <1>2, Zenon DEF UpdateCommitIndex, ReplicaState

\* update_trim_watermark keeps a state well typed.
LEMMA UpdateTrimWatermarkType ==
  ASSUME NEW st \in ReplicaState, NEW r \in Replicas
  PROVE  UpdateTrimWatermark(r, st) \in ReplicaState
<1> DEFINE lows == {st.match_index[s] : s \in Replicas} \cup {st.commit_index}
           target == IF Min(lows) > TrimRetention THEN Min(lows) - TrimRetention ELSE 0
<1>1. lows \in SUBSET (0 .. MaxSlot) /\ lows # {}
  BY DEF ReplicaState
<1>2. Min(lows) \in 0 .. MaxSlot
  BY <1>1, MinMaxOfIndices, BoundsAssumption
<1>3. target \in 0 .. MaxSlot
  BY <1>2, BoundsAssumption
<1>4. [st EXCEPT !.trim_through = target] \in ReplicaState
  BY <1>3, Zenon DEF ReplicaState
<1> QED BY <1>4, TrimLogPrefixType, Zenon DEF UpdateTrimWatermark

\* apply_committed_entries keeps a state well typed.
LEMMA ApplyCommittedEntriesType ==
  ASSUME NEW st \in ReplicaState
  PROVE  ApplyCommittedEntries(st) \in ReplicaState
<1> DEFINE slotsOf(s) == {k \in ToApply(st) : st.log[k].serial = s}
           cache == [s \in Serials |->
                        IF st.response_cache[s] = 0 /\ slotsOf(s) # {}
                        THEN Min(slotsOf(s)) ELSE st.response_cache[s]]
           pending == [s \in Serials |->
                          IF s \in Answered(st) THEN 0 ELSE st.pending_clients[s]]
<1>1. cache \in [Serials -> 0 .. MaxSlot]
  <2>1. ASSUME NEW s \in Serials, slotsOf(s) # {}
        PROVE  Min(slotsOf(s)) \in 0 .. MaxSlot
    <3>1. slotsOf(s) \in SUBSET Slots
      BY DEF ToApply
    <3>2. Min(slotsOf(s)) \in Slots
      BY <2>1, <3>1, MinMaxOfSlots, Zenon
    <3> HIDE DEF slotsOf
    <3> QED BY <3>2, BoundsAssumption DEF Slots
  <2> QED BY <2>1 DEF ReplicaState
<1>2. pending \in [Serials -> 0 .. MaxSlot]
  BY BoundsAssumption DEF ReplicaState
<1>3. (IF st.commit_index > st.last_applied THEN st.commit_index ELSE st.last_applied)
          \in 0 .. MaxSlot
  BY DEF ReplicaState
<1>4. st.pending_client_serials \ Answered(st) \in SUBSET Serials
  BY DEF ReplicaState
<1> DEFINE applied == [st EXCEPT
            !.response_cache = cache,
            !.last_applied = IF st.commit_index > @ THEN st.commit_index ELSE @,
            !.pending_clients = pending,
            !.pending_client_serials = @ \ Answered(st)]
<1>5. applied \in ReplicaState
  <2> HIDE DEF cache, pending
  <2> QED BY <1>1, <1>2, <1>3, <1>4, Zenon DEF ReplicaState
<1>6. TrimLogPrefix(applied) \in ReplicaState
  BY <1>5, TrimLogPrefixType, Zenon
<1> QED BY <1>6, Zenon DEF ApplyCommittedEntries

\* The next_index half of send_propose_to keeps a state well typed.
LEMMA ClampNextIndexType ==
  ASSUME NEW st \in ReplicaState, NEW peers
  PROVE  ClampNextIndex(st, peers) \in ReplicaState
<1>1. [s \in Replicas |-> IF s \in peers /\ st.next_index[s] < st.trim_through + 1
                          THEN st.trim_through + 1 ELSE st.next_index[s]]
         \in [Replicas -> 1 .. MaxSlot + 1]
  BY BoundsAssumption DEF ReplicaState
<1> QED BY <1>1, Zenon DEF ClampNextIndex, ReplicaState

\* send_propose_to builds a well-formed propose_message.
LEMMA ProposeToType ==
  ASSUME NEW st \in ReplicaState, NEW r \in Replicas, NEW peer \in Replicas
  PROVE  ProposeTo(r, st, peer) \in ProposeMessage
<1>1. /\ st.next_index[peer] \in 1 .. MaxSlot + 1
      /\ st.next_index[peer] - 1 \in 0 .. MaxSlot
  <2>1. st.next_index \in [Replicas -> 1 .. MaxSlot + 1]
    BY DEF ReplicaState
  <2>2. st.next_index[peer] \in 1 .. MaxSlot + 1
    BY <2>1
  <2> QED BY <2>2, BoundsAssumption
<1>2. RoundAt(st, st.next_index[peer] - 1) \in Rounds
  BY <1>1, RoundAtType
<1>3. ProposeTo(r, st, peer).entries \in Log
  BY DEF ProposeTo, ReplicaState, Log
<1>4. /\ st.current_round \in Rounds /\ st.commit_index \in 0 .. MaxSlot
      /\ st.trim_through \in 0 .. MaxSlot
  BY DEF ReplicaState
<1> QED BY <1>1, <1>2, <1>3, <1>4, Zenon DEF ProposeTo, ProposeMessage

\* Erasing a suffix of the log keeps a state well typed.
LEMMA TruncateType ==
  ASSUME NEW st \in ReplicaState, NEW slot \in Slots
  PROVE  Truncate(st, slot) \in ReplicaState
<1>1. [k \in Slots |-> IF k < slot THEN st.log[k] ELSE Absent] \in Log
  BY DEF ReplicaState, Log
<1>2. slot \in 1 .. MaxSlot + 1
  BY BoundsAssumption DEF Slots
<1> QED BY <1>1, <1>2, Zenon DEF Truncate, ReplicaState

\* Storing proposed entries keeps a state well typed.
LEMMA StoreMissingType ==
  ASSUME NEW st \in ReplicaState, NEW entries \in Log
  PROVE  StoreMissing(st, entries) \in ReplicaState
<1> DEFINE missing == {k \in Slots : /\ k > st.trim_through
                                     /\ entries[k] # Absent /\ st.log[k] = Absent}
           nexts == {st.next_slot} \cup {k + 1 : k \in missing}
<1>1. [k \in Slots |-> IF k \in missing THEN entries[k] ELSE st.log[k]] \in Log
  BY DEF ReplicaState, Log
<1>2. nexts \in SUBSET (0 .. MaxSlot + 1) /\ nexts # {} /\ 0 \notin nexts
  BY BoundsAssumption DEF ReplicaState, Slots
<1>3. Max(nexts) \in nexts /\ Max(nexts) \in 0 .. MaxSlot + 1
  <2> HIDE DEF nexts
  <2> QED BY <1>2, MinMaxOfIndices, BoundsAssumption
<1>4. Max(nexts) \in 1 .. MaxSlot + 1
  <2> HIDE DEF nexts
  <2> QED BY <1>2, <1>3, BoundsAssumption
<1> QED BY <1>1, <1>4, Zenon DEF StoreMissing, ReplicaState

\* So does the whole loop over the entries of a propose_message, ...
LEMMA AppendEntriesType ==
  ASSUME NEW st \in ReplicaState, NEW entries \in Log
  PROVE  AppendEntries(st, entries) \in ReplicaState
<1>1. Conflicts(st, entries) # {} => Min(Conflicts(st, entries)) \in Slots
  BY MinMaxOfSlots, Zenon DEF Conflicts
<1> QED BY <1>1, TruncateType, StoreMissingType, Zenon DEF AppendEntries

\* ... also when it stops halfway.
LEMMA StoreUpToType ==
  ASSUME NEW st \in ReplicaState, NEW entries \in Log, NEW slot \in Slots
  PROVE  StoreUpTo(st, entries, slot) \in ReplicaState
<1>1. [k \in Slots |-> IF k < slot THEN entries[k] ELSE Absent] \in Log
  BY DEF Log
<1> QED BY <1>1, StoreMissingType, Zenon DEF StoreUpTo

\* The last slot a propose_message is about.
LEMMA LastProposedType ==
  ASSUME NEW m \in ProposeMessage
  PROVE  LastProposed(m) \in 0 .. MaxSlot
<1> DEFINE S == {m.prev_log_index} \cup {k \in Slots : m.entries[k] # Absent}
<1>1. S \in SUBSET (0 .. MaxSlot) /\ S # {}
  BY BoundsAssumption DEF ProposeMessage, Slots
<1>2. Max(S) \in 0 .. MaxSlot
  <2> HIDE DEF S
  <2> QED BY <1>1, MinMaxOfIndices, BoundsAssumption
<1> QED BY <1>2 DEF LastProposed

\* A follower's commitment keeps a state well typed.
LEMMA FollowerCommitType ==
  ASSUME NEW st \in ReplicaState, NEW m \in ProposeMessage
  PROVE  FollowerCommit(st, m) \in ReplicaState
<1>1. {m.decide_through, LastLogIndex(st)} \in SUBSET (0 .. MaxSlot)
  BY LastLogIndexType DEF ProposeMessage
<1>2. Min({m.decide_through, LastLogIndex(st)}) \in 0 .. MaxSlot
  BY <1>1, MinMaxOfIndices, BoundsAssumption
<1> QED BY <1>2, Zenon DEF FollowerCommit, ReplicaState

\* A follower's trimming keeps a state well typed.
LEMMA FollowerTrimType ==
  ASSUME NEW st \in ReplicaState, NEW m \in ProposeMessage
  PROVE  FollowerTrim(st, m) \in ReplicaState
<1>1. {m.trim_through, st.last_applied} \in SUBSET (0 .. MaxSlot)
  BY DEF ProposeMessage, ReplicaState
<1>2. Min({m.trim_through, st.last_applied}) \in 0 .. MaxSlot
  BY <1>1, MinMaxOfIndices, BoundsAssumption
<1>3. [st EXCEPT !.trim_through = Min({m.trim_through, st.last_applied})] \in ReplicaState
  BY <1>2, Zenon DEF ReplicaState
<1> QED BY <1>3, TrimLogPrefixType, Zenon DEF FollowerTrim

\* The two kinds of answers to a propose_message are well formed.
LEMMA NackType ==
  ASSUME NEW r \in Replicas, NEW st \in ReplicaState, NEW next \in 1 .. MaxSlot + 1
  PROVE  Nack(r, st, next) \in AckMessage
<1>1. st.current_round \in Rounds
  BY DEF ReplicaState
<1> QED BY <1>1, LastLogIndexType, Zenon DEF Nack, AckMessage

LEMMA AcceptType ==
  ASSUME NEW r \in Replicas, NEW st \in ReplicaState, NEW m \in ProposeMessage
  PROVE  Accept(r, st, m) \in AckMessage
<1>1. st.current_round \in Rounds
  BY DEF ReplicaState
<1>2. LastProposed(m) + 1 \in 1 .. MaxSlot + 1
  BY LastProposedType, BoundsAssumption
<1> QED BY <1>1, <1>2, LastProposedType, Zenon DEF Accept, AckMessage

\* handle_propose leaves a well-typed state and sends a well-formed ack.
LEMMA ProposeOutcomeType ==
  ASSUME NEW r \in Replicas, NEW old \in ReplicaState, NEW m \in ProposeMessage
  PROVE  /\ ProposeOutcome(r, old, m).state \in ReplicaState
         /\ ProposeOutcome(r, old, m).ack \in AckMessage
<1> DEFINE st == BecomeFollower(old, m.round, m.leader)
           conflicts == Conflicts(st, m.entries)
           backup == IF m.prev_log_index > st.trim_through
                     THEN Min({m.prev_log_index, LastLogIndex(st) + 1})
                     ELSE st.trim_through + 1
           kept == StoreUpTo(st, m.entries, Min(conflicts))
           appended == AppendEntries(st, m.entries)
           applied == ApplyCommittedEntries(FollowerCommit(appended, m))
<1>1. st \in ReplicaState /\ m.entries \in Log
  BY BecomeFollowerType DEF ProposeMessage
<1> HIDE DEF st
<1>2. LastLogIndex(old) + 1 \in 1 .. MaxSlot + 1
  BY LastLogIndexType, BoundsAssumption
<1>3. backup \in 1 .. MaxSlot + 1
  <2>1. m.prev_log_index \in 0 .. MaxSlot /\ st.trim_through \in 0 .. MaxSlot
    BY <1>1 DEF ProposeMessage, ReplicaState
  <2>2. LastLogIndex(st) + 1 \in 1 .. MaxSlot + 1
    BY <1>1, LastLogIndexType, BoundsAssumption
  <2>3. CASE m.prev_log_index > st.trim_through
    <3>1. {m.prev_log_index, LastLogIndex(st) + 1} \in SUBSET (0 .. MaxSlot + 1)
      BY <2>1, <2>2, BoundsAssumption
    <3>2. /\ Min({m.prev_log_index, LastLogIndex(st) + 1})
                \in {m.prev_log_index, LastLogIndex(st) + 1}
          /\ Min({m.prev_log_index, LastLogIndex(st) + 1}) \in 0 .. MaxSlot + 1
      BY <3>1, MinMaxOfIndices, BoundsAssumption
    <3> QED BY <2>1, <2>2, <2>3, <3>2, BoundsAssumption
  <2> QED BY <2>1, <2>3, BoundsAssumption
<1>4. conflicts # {} => Min(conflicts) \in Slots /\ Min(conflicts) \in 1 .. MaxSlot + 1
  <2>1. conflicts # {} => Min(conflicts) \in Slots
    BY MinMaxOfSlots, Zenon DEF Conflicts
  <2> QED BY <2>1, BoundsAssumption DEF Slots
<1>5. conflicts # {} => kept \in ReplicaState
  BY <1>1, <1>4, StoreUpToType
<1>6. appended \in ReplicaState
  BY <1>1, AppendEntriesType
<1>7. FollowerTrim(applied, m) \in ReplicaState
  BY <1>6, FollowerCommitType, ApplyCommittedEntriesType, FollowerTrimType
<1> HIDE DEF conflicts, backup, kept, appended, applied
<1>8. ProposeOutcome(r, old, m) =
        IF m.round < old.current_round
        THEN [state |-> old, ack |-> Nack(r, old, LastLogIndex(old) + 1)]
        ELSE IF ~PrefixMatches(st, m.prev_log_index, m.prev_log_round)
        THEN [state |-> st, ack |-> Nack(r, st, backup)]
        ELSE IF conflicts # {} /\ st.commit_index >= Min(conflicts)
        THEN [state |-> kept, ack |-> Nack(r, kept, Min(conflicts))]
        ELSE [state |-> FollowerTrim(applied, m), ack |-> Accept(r, appended, m)]
  BY Zenon DEF ProposeOutcome, st, conflicts, backup, kept, appended, applied
<1> QED
  BY <1>1, <1>2, <1>3, <1>4, <1>5, <1>6, <1>7, <1>8, NackType, AcceptType

-----------------------------------------------------------------------------
(* What the helpers leave alone *)

\* Two states that differ only in the log, its indices and the client tables.
SameElection(a, b) ==
  /\ a.role = b.role
  /\ a.current_round = b.current_round
  /\ a.promised_leader = b.promised_leader
  /\ a.prepare_ok = b.prepare_ok
  /\ a.pending_client_requests = b.pending_client_requests

\* The helpers of a leader touch neither the election nor the end of the log.
LEMMA LeaderHelpersFrame ==
  ASSUME NEW st \in ReplicaState, NEW r \in Replicas, NEW peers
  PROVE  /\ SameElection(TrimLogPrefix(st), st)
         /\ TrimLogPrefix(st).next_slot = st.next_slot
         /\ SameElection(UpdateCommitIndex(r, st), st)
         /\ UpdateCommitIndex(r, st).next_slot = st.next_slot
         /\ SameElection(UpdateTrimWatermark(r, st), st)
         /\ UpdateTrimWatermark(r, st).next_slot = st.next_slot
         /\ SameElection(ApplyCommittedEntries(st), st)
         /\ ApplyCommittedEntries(st).next_slot = st.next_slot
         /\ SameElection(ClampNextIndex(st, peers), st)
         /\ ClampNextIndex(st, peers).next_slot = st.next_slot
<1>1. /\ SameElection(TrimLogPrefix(st), st)
      /\ TrimLogPrefix(st).next_slot = st.next_slot
  BY Zenon DEF TrimLogPrefix, SameElection, ReplicaState
<1>2. /\ SameElection(UpdateCommitIndex(r, st), st)
      /\ UpdateCommitIndex(r, st).next_slot = st.next_slot
  BY Zenon DEF UpdateCommitIndex, SameElection, ReplicaState
<1>3. /\ SameElection(UpdateTrimWatermark(r, st), st)
      /\ UpdateTrimWatermark(r, st).next_slot = st.next_slot
  BY Zenon DEF UpdateTrimWatermark, TrimLogPrefix, SameElection, ReplicaState
<1>4. /\ SameElection(ApplyCommittedEntries(st), st)
      /\ ApplyCommittedEntries(st).next_slot = st.next_slot
  BY Zenon DEF ApplyCommittedEntries, TrimLogPrefix, SameElection, ReplicaState
<1>5. /\ SameElection(ClampNextIndex(st, peers), st)
      /\ ClampNextIndex(st, peers).next_slot = st.next_slot
  BY Zenon DEF ClampNextIndex, SameElection, ReplicaState
<1> QED BY <1>1, <1>2, <1>3, <1>4, <1>5

\* handle_propose ignores a message of an old round; else it follows the sender,
\* and the rest of it leaves the election alone.
LEMMA ProposeOutcomeFrame ==
  ASSUME NEW r \in Replicas, NEW old \in ReplicaState, NEW m \in ProposeMessage
  PROVE  \/ ProposeOutcome(r, old, m).state = old
         \/ SameElection(ProposeOutcome(r, old, m).state,
                         BecomeFollower(old, m.round, m.leader))
<1> DEFINE st == BecomeFollower(old, m.round, m.leader)
           conflicts == Conflicts(st, m.entries)
           kept == StoreUpTo(st, m.entries, Min(conflicts))
           appended == AppendEntries(st, m.entries)
           committed == FollowerCommit(appended, m)
           applied == ApplyCommittedEntries(committed)
<1>1. st \in ReplicaState /\ m.entries \in Log
  BY BecomeFollowerType DEF ProposeMessage
<1> HIDE DEF st
<1>2. SameElection(kept, st)
  BY <1>1, Zenon DEF StoreUpTo, StoreMissing, SameElection, ReplicaState
<1>3. SameElection(appended, st)
  BY <1>1, Zenon DEF AppendEntries, StoreMissing, Truncate, SameElection, ReplicaState
<1>4. appended \in ReplicaState
  BY <1>1, AppendEntriesType
<1> HIDE DEF appended
<1>5. SameElection(committed, appended) /\ committed \in ReplicaState
  BY <1>4, FollowerCommitType, Zenon DEF FollowerCommit, SameElection, ReplicaState
<1> HIDE DEF committed
<1>6. SameElection(applied, committed) /\ applied \in ReplicaState
  BY <1>5, LeaderHelpersFrame, ApplyCommittedEntriesType
<1> HIDE DEF applied
<1>7. SameElection(FollowerTrim(applied, m), applied)
  BY <1>6, Zenon DEF FollowerTrim, TrimLogPrefix, SameElection, ReplicaState
<1>8. SameElection(FollowerTrim(applied, m), st)
  BY <1>3, <1>5, <1>6, <1>7 DEF SameElection
<1>9. SameElection(st, st)
  BY DEF SameElection
<1>10. \/ ProposeOutcome(r, old, m).state = old
       \/ ProposeOutcome(r, old, m).state = st
       \/ ProposeOutcome(r, old, m).state = kept
       \/ ProposeOutcome(r, old, m).state = FollowerTrim(applied, m)
  BY Zenon DEF ProposeOutcome, st, conflicts, kept, appended, committed, applied
<1> QED BY <1>2, <1>8, <1>9, <1>10 DEF st

\* The responses that apply_committed_entries sends are well formed.
LEMMA RepliesOfType ==
  ASSUME NEW st \in ReplicaState
  PROVE  RepliesOf(st) \in SUBSET [serial : Serials, slot : 0 .. MaxSlot]
<1>1. ApplyCommittedEntries(st).response_cache \in [Serials -> 0 .. MaxSlot]
  BY ApplyCommittedEntriesType DEF ReplicaState
<1> QED BY <1>1 DEF RepliesOf, Answered

\* A successful ack leaves the leader in a well-typed state.
LEMMA AckProgressType ==
  ASSUME NEW r \in Replicas, NEW st \in ReplicaState, NEW m \in AckMessage
  PROVE  /\ AckProgress(r, st, m).decided \in ReplicaState
         /\ AckProgress(r, st, m).state \in ReplicaState
         /\ SameElection(AckProgress(r, st, m).state, st)
         /\ AckProgress(r, st, m).state.next_slot = st.next_slot
<1> DEFINE match == Max({st.match_index[m.server], m.match_index})
           next == Max({st.next_index[m.server], m.next_index})
           known == [st EXCEPT !.match_index[m.server] = match,
                               !.next_index[m.server] = next]
           decided == UpdateCommitIndex(r, known)
           applied == ApplyCommittedEntries(decided)
           state == UpdateTrimWatermark(r, applied)
<1>1. m.server \in Replicas /\ m.match_index \in 0 .. MaxSlot
      /\ m.next_index \in 1 .. MaxSlot + 1
  BY DEF AckMessage
<1>2. /\ st.match_index \in [Replicas -> 0 .. MaxSlot]
      /\ st.next_index \in [Replicas -> 1 .. MaxSlot + 1]
  BY DEF ReplicaState
<1>3. match \in 0 .. MaxSlot /\ next \in 1 .. MaxSlot + 1
  <2>1. /\ {st.match_index[m.server], m.match_index} \in SUBSET (0 .. MaxSlot)
        /\ {st.next_index[m.server], m.next_index} \in SUBSET (0 .. MaxSlot + 1)
    BY <1>1, <1>2, BoundsAssumption
  <2>2. match \in 0 .. MaxSlot
    BY <2>1, MinMaxOfIndices, BoundsAssumption
  <2>3. next \in {st.next_index[m.server], m.next_index}
    BY <2>1, MinMaxOfIndices, BoundsAssumption
  <2> QED BY <1>1, <1>2, <2>2, <2>3
<1> HIDE DEF match, next
<1>4. /\ [st.match_index EXCEPT ![m.server] = match] \in [Replicas -> 0 .. MaxSlot]
      /\ [st.next_index EXCEPT ![m.server] = next] \in [Replicas -> 1 .. MaxSlot + 1]
  BY <1>1, <1>2, <1>3
<1>5. known \in ReplicaState
  BY <1>4, Zenon DEF ReplicaState
<1>6. SameElection(known, st) /\ known.next_slot = st.next_slot
  BY Zenon DEF SameElection, ReplicaState
<1> HIDE DEF known
<1>7. decided \in ReplicaState /\ SameElection(decided, known)
      /\ decided.next_slot = known.next_slot
  BY <1>5, UpdateCommitIndexType, LeaderHelpersFrame
<1> HIDE DEF decided
<1>8. applied \in ReplicaState /\ SameElection(applied, decided)
      /\ applied.next_slot = decided.next_slot
  BY <1>7, ApplyCommittedEntriesType, LeaderHelpersFrame
<1> HIDE DEF applied
<1>9. state \in ReplicaState /\ SameElection(state, applied)
      /\ state.next_slot = applied.next_slot
  BY <1>8, UpdateTrimWatermarkType, LeaderHelpersFrame
<1>10. /\ AckProgress(r, st, m).decided = decided
       /\ AckProgress(r, st, m).state = state
  BY Zenon DEF AckProgress, state, applied, decided, known, match, next
<1> HIDE DEF state
<1> QED BY <1>6, <1>7, <1>8, <1>9, <1>10 DEF SameElection

\* A failed ack never backs the leader up below its trimmed prefix or slot 1.
LEMMA FallbackType ==
  ASSUME NEW st \in ReplicaState, NEW m \in AckMessage
  PROVE  Fallback(st, m) \in 1 .. MaxSlot + 1
<1> DEFINE next == st.next_index[m.server]
           asked == IF m.next_index = 0 THEN 1 ELSE m.next_index
           tried == IF asked < next THEN asked
                    ELSE IF next > 1 THEN next - 1 ELSE 1
<1>1. next \in 1 .. MaxSlot + 1 /\ asked \in 1 .. MaxSlot + 1
      /\ st.trim_through \in 0 .. MaxSlot
  <2>1. m.server \in Replicas /\ m.next_index \in 1 .. MaxSlot + 1
    BY DEF AckMessage
  <2>2. /\ st.next_index \in [Replicas -> 1 .. MaxSlot + 1]
        /\ st.trim_through \in 0 .. MaxSlot
    BY DEF ReplicaState
  <2>3. next \in 1 .. MaxSlot + 1
    BY <2>1, <2>2
  <2>4. asked \in 1 .. MaxSlot + 1
    BY <2>1, BoundsAssumption
  <2> QED BY <2>2, <2>3, <2>4
<1> HIDE DEF next, asked
<1>2. tried \in 1 .. MaxSlot + 1
  BY <1>1, BoundsAssumption
<1> HIDE DEF tried
<1>3. {tried, st.trim_through + 1} \in SUBSET (0 .. MaxSlot + 1)
  BY <1>1, <1>2, BoundsAssumption
<1>4. Max({tried, st.trim_through + 1}) \in {tried, st.trim_through + 1}
  BY <1>3, MinMaxOfIndices, BoundsAssumption
<1>5. Fallback(st, m) = Max({tried, st.trim_through + 1})
  BY Zenon DEF Fallback, tried, asked, next
<1> QED BY <1>1, <1>2, <1>4, <1>5, BoundsAssumption

\* There is room in the log for the requests a leader has queued.
QueueFits(st) == st.next_slot + Len(st.pending_client_requests) <= MaxSlot + 1

\* The queued requests get the next slots, which leaves the queue empty.
LEMMA AppendQueueType ==
  ASSUME NEW r \in Replicas, NEW st \in ReplicaState, QueueFits(st)
  PROVE  /\ AppendQueue(r, st) \in ReplicaState
         /\ SameElection(AppendQueue(r, st),
                         [st EXCEPT !.pending_client_requests = <<>>])
         /\ AppendQueue(r, st).pending_client_requests = <<>>
<1> DEFINE queue == st.pending_client_requests
           first == st.next_slot
           taken == {k \in Slots : first <= k /\ k < first + Len(queue)}
           slotOf(s) == CHOOSE k \in taken : queue[k - first + 1] = s
           log == [k \in Slots |->
                      IF k \in taken THEN [round |-> st.current_round,
                                           serial |-> queue[k - first + 1]]
                      ELSE st.log[k]]
           clients == [s \in Serials |->
                          IF st.pending_clients[s] = 0
                             /\ \E i \in 1 .. Len(queue) : queue[i] = s
                          THEN slotOf(s) ELSE st.pending_clients[s]]
           appended == [st EXCEPT !.log = log,
                                  !.next_slot = @ + Len(queue),
                                  !.match_index[r] = first + Len(queue) - 1,
                                  !.next_index[r] = first + Len(queue),
                                  !.pending_clients = clients,
                                  !.pending_client_requests = <<>>]
<1>1. /\ queue \in Seq(Serials) /\ Len(queue) \in Nat /\ first \in 1 .. MaxSlot + 1
      /\ first + Len(queue) <= MaxSlot + 1
  BY DEF ReplicaState, QueueFits
<1>2. \A k \in taken : k - first + 1 \in 1 .. Len(queue) /\ queue[k - first + 1] \in Serials
  <2> HIDE DEF queue, first
  <2> QED BY <1>1, BoundsAssumption DEF Slots
<1>3. log \in Log
  <2>1. st.log \in Log /\ st.current_round \in Rounds
    BY DEF ReplicaState
  <2> HIDE DEF taken, queue, first
  <2> QED BY <1>2, <2>1 DEF Log, LogEntry
<1>4. clients \in [Serials -> 0 .. MaxSlot]
  <2>1. ASSUME NEW s \in Serials, NEW i \in 1 .. Len(queue), queue[i] = s
        PROVE  slotOf(s) \in 0 .. MaxSlot
    <3>1. first + i - 1 \in Slots /\ first <= first + i - 1
          /\ first + i - 1 < first + Len(queue) /\ (first + i - 1) - first + 1 = i
      <4> HIDE DEF queue, first
      <4> QED BY <1>1, BoundsAssumption DEF Slots
    <3>2. \E k \in taken : queue[k - first + 1] = s
      BY <2>1, <3>1
    <3>3. slotOf(s) \in taken
      BY <3>2, Zenon
    <3> HIDE DEF slotOf, queue, first
    <3> QED BY <3>3, BoundsAssumption DEF Slots
  <2>2. st.pending_clients \in [Serials -> 0 .. MaxSlot]
    BY DEF ReplicaState
  <2> HIDE DEF slotOf, queue
  <2> QED BY <2>1, <2>2
<1>5. /\ first + Len(queue) \in 1 .. MaxSlot + 1
      /\ first + Len(queue) - 1 \in 0 .. MaxSlot
  <2> HIDE DEF queue, first
  <2> QED BY <1>1, BoundsAssumption
<1>6. /\ [st.match_index EXCEPT ![r] = first + Len(queue) - 1]
             \in [Replicas -> 0 .. MaxSlot]
      /\ [st.next_index EXCEPT ![r] = first + Len(queue)]
             \in [Replicas -> 1 .. MaxSlot + 1]
  <2>1. /\ st.match_index \in [Replicas -> 0 .. MaxSlot]
        /\ st.next_index \in [Replicas -> 1 .. MaxSlot + 1]
    BY DEF ReplicaState
  <2> HIDE DEF queue, first
  <2> QED BY <1>5, <2>1
<1>7. <<>> \in Seq(Serials)
  OBVIOUS
<1>8. appended \in ReplicaState
  <2> HIDE DEF log, clients
  <2> QED BY <1>3, <1>4, <1>5, <1>6, <1>7, Zenon DEF ReplicaState
<1>9. /\ SameElection(appended, [st EXCEPT !.pending_client_requests = <<>>])
      /\ appended.pending_client_requests = <<>>
  <2> HIDE DEF log, clients
  <2> QED BY Zenon DEF ReplicaState, SameElection
<1>10. AppendQueue(r, st) = appended
  BY Zenon DEF AppendQueue
<1> HIDE DEF appended
<1> QED BY <1>8, <1>9, <1>10

\* flush_pending_client_requests does not touch the election.
LEMMA FlushType ==
  ASSUME NEW r \in Replicas, NEW st \in ReplicaState, QueueFits(st)
  PROVE  /\ Flush(r, st).sent \in ReplicaState
         /\ Flush(r, st).decided \in ReplicaState
         /\ Flush(r, st).state \in ReplicaState
         /\ SameElection(Flush(r, st).state,
                         [st EXCEPT !.pending_client_requests = <<>>])
         /\ QueueFits(Flush(r, st).state)
<1> DEFINE appended == AppendQueue(r, st)
           sent == ClampNextIndex(appended, Peers(r))
           decided == UpdateCommitIndex(r, sent)
           applied == ApplyCommittedEntries(decided)
           state == UpdateTrimWatermark(r, applied)
<1>1. /\ appended \in ReplicaState
      /\ SameElection(appended, [st EXCEPT !.pending_client_requests = <<>>])
      /\ appended.pending_client_requests = <<>>
  BY AppendQueueType
<1> HIDE DEF appended
<1>2. /\ sent \in ReplicaState /\ SameElection(sent, appended)
  BY <1>1, ClampNextIndexType, LeaderHelpersFrame
<1> HIDE DEF sent
<1>3. /\ decided \in ReplicaState /\ SameElection(decided, sent)
  BY <1>2, UpdateCommitIndexType, LeaderHelpersFrame
<1> HIDE DEF decided
<1>4. /\ applied \in ReplicaState /\ SameElection(applied, decided)
  BY <1>3, ApplyCommittedEntriesType, LeaderHelpersFrame
<1> HIDE DEF applied
<1>5. /\ state \in ReplicaState /\ SameElection(state, applied)
  BY <1>4, UpdateTrimWatermarkType, LeaderHelpersFrame
<1>6. /\ Flush(r, st).sent = sent /\ Flush(r, st).decided = decided
      /\ Flush(r, st).state = state
  BY Zenon DEF Flush, state, applied, decided, sent, appended
<1> HIDE DEF state
<1>7. SameElection(state, [st EXCEPT !.pending_client_requests = <<>>])
      /\ state.pending_client_requests = <<>>
  BY <1>1, <1>2, <1>3, <1>4, <1>5 DEF SameElection
<1>8. QueueFits(state)
  BY <1>5, <1>7 DEF QueueFits, ReplicaState
<1> QED BY <1>2, <1>3, <1>5, <1>6, <1>7, <1>8

-----------------------------------------------------------------------------
(* The network *)

Channels == [Replicas -> [Replicas -> Seq(Message)]]

\* The messages on their way from s to d.
InTransit(c, s, d) == {c[s][d][i] : i \in 1 .. Len(c[s][d])}

\* Taking the first message from a channel.
LEMMA ReceiveLemma ==
  ASSUME channel \in Channels, NEW s \in Replicas, NEW d \in Replicas,
         channel[s][d] # <<>>
  PROVE  /\ Receive(s, d) \in Channels
         /\ Head(channel[s][d]) \in Message
         /\ Head(channel[s][d]) \in InTransit(channel, s, d)
         /\ \A x, y \in Replicas :
               InTransit(Receive(s, d), x, y) \subseteq InTransit(channel, x, y)
<1>1. channel[s][d] \in Seq(Message)
  BY DEF Channels
<1>2. /\ Len(channel[s][d]) \in Nat \ {0}
      /\ Head(channel[s][d]) = channel[s][d][1]
      /\ Tail(channel[s][d]) \in Seq(Message)
      /\ Len(Tail(channel[s][d])) = Len(channel[s][d]) - 1
      /\ \A i \in 1 .. Len(channel[s][d]) - 1 :
            Tail(channel[s][d])[i] = channel[s][d][i + 1]
  BY <1>1
<1>3. /\ Head(channel[s][d]) \in Message
      /\ Head(channel[s][d]) \in InTransit(channel, s, d)
  BY <1>1, <1>2 DEF InTransit
<1>4. Receive(s, d) \in Channels
  BY <1>2 DEF Receive, Channels
<1>5. ASSUME NEW x \in Replicas, NEW y \in Replicas
      PROVE  InTransit(Receive(s, d), x, y) \subseteq InTransit(channel, x, y)
  <2>1. CASE x = s /\ y = d
    <3>1. Receive(s, d)[x][y] = Tail(channel[s][d])
      BY <2>1 DEF Receive, Channels
    <3> QED BY <1>2, <2>1, <3>1 DEF InTransit
  <2>2. CASE ~(x = s /\ y = d)
    <3>1. Receive(s, d)[x][y] = channel[x][y]
      BY <2>2 DEF Receive, Channels
    <3> QED BY <3>1 DEF InTransit
  <2> QED BY <2>1, <2>2
<1> QED BY <1>3, <1>4, <1>5

\* Sending adds no other messages than those that are sent.
LEMMA TransmitLemma ==
  ASSUME NEW c \in Channels, NEW s \in Replicas, NEW out, NEW dests,
         dests \in SUBSET Replicas,
         \A d \in dests : out[d] \in Message,
         Transmit(c, s, out, dests)
  PROVE  /\ channel' \in Channels
         /\ \A x, y \in Replicas : \A m \in InTransit(channel', x, y) :
               \/ m \in InTransit(c, x, y)
               \/ x = s /\ y \in dests /\ m = out[y]
<1>1. PICK kept \in SUBSET dests :
          channel' = [c EXCEPT ![s] = [d \in Replicas |->
                         IF d \in kept THEN Append(@[d], out[d]) ELSE @[d]]]
  BY DEF Transmit
<1>2. \A x, y \in Replicas :
          channel'[x][y] = IF x = s /\ y \in kept THEN Append(c[x][y], out[y])
                           ELSE c[x][y]
  BY <1>1 DEF Channels
<1>3. channel' \in Channels
  <2>1. ASSUME NEW d \in Replicas
        PROVE  (IF d \in kept THEN Append(c[s][d], out[d]) ELSE c[s][d]) \in Seq(Message)
    <3>1. c[s][d] \in Seq(Message)
      BY DEF Channels
    <3> QED BY <3>1
  <2> QED BY <1>1, <2>1 DEF Channels
<1>4. ASSUME NEW x \in Replicas, NEW y \in Replicas, NEW m \in InTransit(channel', x, y)
      PROVE  \/ m \in InTransit(c, x, y)
             \/ x = s /\ y \in dests /\ m = out[y]
  <2>1. CASE x = s /\ y \in kept
    <3>1. channel'[x][y] = Append(c[x][y], out[y])
      BY <1>2, <2>1
    <3>2. c[x][y] \in Seq(Message)
      BY DEF Channels
    <3>3. /\ Len(Append(c[x][y], out[y])) = Len(c[x][y]) + 1
          /\ \A i \in 1 .. Len(c[x][y]) + 1 :
                Append(c[x][y], out[y])[i] =
                    IF i = Len(c[x][y]) + 1 THEN out[y] ELSE c[x][y][i]
          /\ Len(c[x][y]) \in Nat
      BY <3>2
    <3>4. PICK i \in 1 .. Len(c[x][y]) + 1 : m = Append(c[x][y], out[y])[i]
      BY <3>1, <3>3 DEF InTransit
    <3> QED BY <2>1, <3>3, <3>4 DEF InTransit
  <2>2. CASE ~(x = s /\ y \in kept)
    BY <1>2, <2>2 DEF InTransit
  <2> QED BY <2>1, <2>2
<1> QED BY <1>3, <1>4

\* The type field of a message tells which of the four structs it is.
LEMMA MessageKinds ==
  ASSUME NEW m \in Message
  PROVE  /\ m.type = "probe" => m \in ProbeMessage
         /\ m.type = "prepare" => m \in PrepareMessage
         /\ m.type = "propose" => m \in ProposeMessage
         /\ m.type = "ack" => m \in AckMessage
BY DEF Message, ProbeMessage, PrepareMessage, ProposeMessage, AckMessage

-----------------------------------------------------------------------------
(* Type correctness *)

\* TypeOK is not inductive: that a flush stays within the slots needs that the
\* queue of a leader fits behind its log.
TypeInv == TypeOK /\ \A r \in Replicas : QueueFits(replica[r])

\* The type of the history of the leaders' logs.
AckRecord == [server : Replicas, round : Rounds, index : 0 .. MaxSlot]

HistoryTyped == leaderLog \in [Rounds -> Log] /\ acked \subseteq AckRecord

\* What is left to show of an action that changes the state of one replica.
LEMMA OneReplicaSteps ==
  ASSUME TypeInv, NEW r \in Replicas, NEW st \in ReplicaState, QueueFits(st),
         replica' = [replica EXCEPT ![r] = st],
         channel' \in Channels,
         replies' \subseteq [serial : Serials, slot : 0 .. MaxSlot],
         granted' \subseteq [round : Rounds, server : Replicas, leader : Replicas],
         HistoryTyped'
  PROVE  TypeInv'
BY DEF TypeInv, TypeOK, Channels, QueueFits, HistoryTyped, AckRecord

\* The facts of TypeInv that every action starts from.
LEMMA TypeFacts ==
  ASSUME TypeInv
  PROVE  /\ \A r \in Replicas : replica[r] \in ReplicaState /\ QueueFits(replica[r])
         /\ replica \in [Replicas -> ReplicaState]
         /\ channel \in Channels
         /\ replies \subseteq [serial : Serials, slot : 0 .. MaxSlot]
         /\ granted \subseteq [round : Rounds, server : Replicas, leader : Replicas]
         /\ replica = [r \in Replicas |-> replica[r]]
         /\ HistoryTyped
BY DEF TypeInv, TypeOK, Channels, HistoryTyped, AckRecord

\* Proposals to peers are well formed and go out on well-formed channels.
LEMMA TransmitProposalsLemma ==
  ASSUME NEW c \in Channels, NEW r \in Replicas, NEW st \in ReplicaState,
         NEW peers \in SUBSET Replicas, TransmitProposals(c, r, st, peers)
  PROVE  /\ channel' \in Channels
         /\ \A x, y \in Replicas : \A m \in InTransit(channel', x, y) :
               m \in InTransit(c, x, y) \/ m.type = "propose"
<1> DEFINE out == [d \in Replicas |-> ProposeTo(r, st, d)]
<1>1. \A d \in Replicas : out[d] \in Message /\ out[d].type = "propose"
  BY ProposeToType DEF Message, ProposeMessage
<1>2. Transmit(c, r, out, peers)
  BY Zenon DEF TransmitProposals
<1> HIDE DEF out
<1> QED BY <1>1, <1>2, TransmitLemma

\* become_follower empties the queue and leaves the log alone.
LEMMA BecomeFollowerFits ==
  ASSUME NEW st \in ReplicaState, QueueFits(st), NEW round \in Rounds, NEW hint \in Replicas
  PROVE  /\ QueueFits(BecomeFollower(st, round, hint))
         /\ BecomeFollower(st, round, hint).pending_client_requests = <<>>
<1>1. /\ BecomeFollower(st, round, hint).pending_client_requests = <<>>
      /\ BecomeFollower(st, round, hint).next_slot = st.next_slot
  BY Zenon DEF BecomeFollower, ReplicaState
<1> QED BY <1>1 DEF QueueFits, ReplicaState

\* A step of replica r that neither starts an election nor gives or counts a
\* promise: r moves to a later round as a follower, or stays in its round with
\* its promise and either steps down or keeps its role.
Quiet(old, new) ==
  \/ new.current_round > old.current_round /\ new.role = "follower"
  \/ /\ new.current_round = old.current_round
     /\ new.promised_leader = old.promised_leader
     /\ new.role = "follower" \/ (new.role = old.role /\ new.prepare_ok = old.prepare_ok)

QuietStep(r) ==
  /\ \E new \in ReplicaState : /\ QueueFits(new) /\ Quiet(replica[r], new)
                               /\ replica' = [replica EXCEPT ![r] = new]
  /\ channel' \in Channels
  /\ \A x, y \in Replicas : \A m \in InTransit(channel', x, y) :
        m \in InTransit(channel, x, y) \/ m.type # "prepare"
  /\ replies' \subseteq [serial : Serials, slot : 0 .. MaxSlot]
  /\ granted' = granted

LEMMA SameElectionIsQuiet ==
  ASSUME NEW old \in ReplicaState, NEW new, SameElection(new, old)
  PROVE  Quiet(old, new)
BY DEF SameElection, Quiet, ReplicaState

LEMMA BecomeFollowerIsQuiet ==
  ASSUME NEW old \in ReplicaState, NEW round \in Rounds, NEW hint \in Replicas,
         NEW new, SameElection(new, BecomeFollower(old, round, hint))
  PROVE  Quiet(old, new)
<1> DEFINE st == BecomeFollower(old, round, hint)
<1>1. /\ st.role = "follower"
      /\ st.current_round = IF round > old.current_round THEN round ELSE old.current_round
      /\ st.promised_leader = IF round > old.current_round THEN None
                              ELSE old.promised_leader
  BY Zenon DEF BecomeFollower, ReplicaState
<1> HIDE DEF st
<1>2. /\ new.role = st.role /\ new.current_round = st.current_round
      /\ new.promised_leader = st.promised_leader
  BY DEF SameElection, st
<1>3. old.current_round \in Nat /\ round \in Nat
  BY BoundsAssumption DEF ReplicaState, Rounds
<1> QED BY <1>1, <1>2, <1>3 DEF Quiet

\* handle_propose is quiet.
LEMMA HandleProposeQuiet ==
  ASSUME TypeInv, NEW r \in Replicas, NEW s \in Replicas, HandlePropose(s, r)
  PROVE  QuietStep(r)
<1> DEFINE m == Head(channel[s][r])
           old == replica[r]
           new == ProposeOutcome(r, old, m).state
           ack == ProposeOutcome(r, old, m).ack
           out == [d \in Replicas |-> ack]
<1>1. /\ channel[s][r] # <<>> /\ m.type = "propose"
      /\ replica' = [replica EXCEPT ![r] = new]
      /\ Transmit(Receive(s, r), r, out, {m.leader})
      /\ replies' = replies /\ granted' = granted
  BY Zenon DEF HandlePropose, Incoming
<1>2. old \in ReplicaState /\ QueueFits(old)
  BY TypeFacts
<1>3. /\ m \in ProposeMessage /\ Receive(s, r) \in Channels
      /\ \A x, y \in Replicas : InTransit(Receive(s, r), x, y) \subseteq InTransit(channel, x, y)
  BY <1>1, TypeFacts, ReceiveLemma, MessageKinds
<1>4. m.leader \in Replicas /\ m.round \in Rounds
  BY <1>3 DEF ProposeMessage
<1> HIDE DEF m, old
<1>5. new \in ReplicaState /\ ack \in AckMessage
  BY <1>2, <1>3, ProposeOutcomeType
<1>6. Quiet(old, new) /\ QueueFits(new)
  <2>1. CASE new = old
    BY <1>2, <2>1, SameElectionIsQuiet DEF SameElection
  <2>2. CASE SameElection(new, BecomeFollower(old, m.round, m.leader))
    <3>1. Quiet(old, new)
      BY <1>2, <1>4, <2>2, BecomeFollowerIsQuiet
    <3>2. new.pending_client_requests = <<>>
      BY <1>2, <1>4, <2>2, BecomeFollowerFits DEF SameElection
    <3>3. new.next_slot \in 1 .. MaxSlot + 1
      BY <1>5 DEF ReplicaState
    <3> HIDE DEF new
    <3> QED BY <3>1, <3>2, <3>3 DEF QueueFits
  <2> QED BY <1>2, <1>3, <2>1, <2>2, ProposeOutcomeFrame
<1> HIDE DEF new
<1>7. ack \in Message /\ ack.type = "ack"
  BY <1>5 DEF Message, AckMessage
<1> HIDE DEF ack
<1>8. \A d \in {m.leader} : out[d] = ack
  BY <1>4
<1> HIDE DEF out
<1>9. /\ channel' \in Channels
      /\ \A x, y \in Replicas : \A n \in InTransit(channel', x, y) :
            n \in InTransit(Receive(s, r), x, y) \/ n = ack
  BY <1>1, <1>3, <1>4, <1>7, <1>8, TransmitLemma
<1> QED BY <1>1, <1>3, <1>5, <1>6, <1>7, <1>9, TypeFacts DEF QuietStep, old

\* What a step leaves when it only takes a message and follows a later round.
LEMMA StepDownQuiet ==
  ASSUME TypeInv, NEW r \in Replicas, NEW s \in Replicas, channel[s][r] # <<>>,
         NEW round \in Rounds,
         \/ replica' = replica
         \/ replica' = [replica EXCEPT ![r] =
                           BecomeFollower(replica[r], round, replica[r].leader_index)],
         channel' = Receive(s, r), replies' = replies, granted' = granted
  PROVE  QuietStep(r)
<1> DEFINE old == replica[r]
           st == BecomeFollower(old, round, old.leader_index)
<1>1. old \in ReplicaState /\ QueueFits(old) /\ old.leader_index \in Replicas
  BY TypeFacts DEF ReplicaState
<1>2. st \in ReplicaState /\ QueueFits(st)
  BY <1>1, BecomeFollowerType, BecomeFollowerFits
<1>3. Quiet(old, st) /\ Quiet(old, old)
  BY <1>1, BecomeFollowerIsQuiet, SameElectionIsQuiet DEF SameElection
<1>4. replica = [replica EXCEPT ![r] = old]
  BY TypeFacts
<1>5. \E new \in ReplicaState : /\ QueueFits(new) /\ Quiet(old, new)
                                /\ replica' = [replica EXCEPT ![r] = new]
  <2> HIDE DEF st
  <2> QED BY <1>1, <1>2, <1>3, <1>4 DEF st
<1> QED BY <1>5, TypeFacts, ReceiveLemma DEF QuietStep

\* handle_ack is quiet.
LEMMA HandleAckQuiet ==
  ASSUME TypeInv, NEW r \in Replicas, NEW s \in Replicas, HandleAck(s, r)
  PROVE  QuietStep(r)
<1> DEFINE m == Head(channel[s][r])
           old == replica[r]
           progress == AckProgress(r, old, m)
           caughtUp == progress.state.next_index[m.server] > LastLogIndex(progress.state)
           resend == ClampNextIndex(progress.state, {m.server})
           backedUp == [old EXCEPT !.next_index[m.server] = Fallback(old, m)]
           new == IF caughtUp THEN progress.state ELSE resend
           peers == IF caughtUp THEN {} ELSE {m.server}
<1>1. channel[s][r] # <<>> /\ m.type = "ack" /\ granted' = granted
  BY Zenon DEF HandleAck, Incoming
<1>2. \/ /\ replica' = [replica EXCEPT ![r] =
                            BecomeFollower(old, m.round, old.leader_index)]
         /\ channel' = Receive(s, r) /\ replies' = replies
      \/ channel' = Receive(s, r) /\ replica' = replica /\ replies' = replies
      \/ /\ replica' = [replica EXCEPT ![r] = new]
         /\ TransmitProposals(Receive(s, r), r, resend, peers)
         /\ replies' = replies \cup RepliesOf(progress.decided)
      \/ /\ replica' = [replica EXCEPT ![r] = backedUp]
         /\ TransmitProposals(Receive(s, r), r, backedUp, {m.server})
         /\ replies' = replies
  BY Zenon DEF HandleAck
<1>3. old \in ReplicaState /\ QueueFits(old)
  BY TypeFacts
<1>4. /\ m \in AckMessage /\ Receive(s, r) \in Channels
      /\ \A x, y \in Replicas : InTransit(Receive(s, r), x, y) \subseteq InTransit(channel, x, y)
  BY <1>1, TypeFacts, ReceiveLemma, MessageKinds
<1>5. m.server \in Replicas /\ m.round \in Rounds
  BY <1>4 DEF AckMessage
<1>6. /\ progress.state \in ReplicaState /\ progress.decided \in ReplicaState
      /\ SameElection(progress.state, old) /\ progress.state.next_slot = old.next_slot
  BY <1>3, <1>4, AckProgressType
<1>7. /\ resend \in ReplicaState /\ SameElection(resend, progress.state)
      /\ resend.next_slot = progress.state.next_slot
  BY <1>6, ClampNextIndexType, LeaderHelpersFrame
<1>8. backedUp \in ReplicaState /\ Quiet(old, backedUp) /\ QueueFits(backedUp)
  <2>1. [old.next_index EXCEPT ![m.server] = Fallback(old, m)]
           \in [Replicas -> 1 .. MaxSlot + 1]
    BY <1>3, <1>4, <1>5, FallbackType DEF ReplicaState
  <2>2. backedUp \in ReplicaState
    BY <1>3, <2>1, Zenon DEF ReplicaState
  <2>3. SameElection(backedUp, old) /\ backedUp.next_slot = old.next_slot
    BY <1>3, Zenon DEF SameElection, ReplicaState
  <2> HIDE DEF backedUp, old
  <2> QED BY <1>3, <2>2, <2>3, SameElectionIsQuiet DEF QueueFits, SameElection
<1>9. new \in ReplicaState /\ Quiet(old, new) /\ QueueFits(new)
  <2>1. SameElection(new, old) /\ new.next_slot = old.next_slot /\ new \in ReplicaState
    <3> HIDE DEF progress, old, resend, caughtUp
    <3> QED BY <1>6, <1>7 DEF SameElection
  <2> HIDE DEF new, old
  <2> QED BY <1>3, <2>1, SameElectionIsQuiet DEF QueueFits, SameElection
<1> HIDE DEF m, progress, caughtUp, resend, backedUp, new
<1>10. CASE \/ /\ replica' = [replica EXCEPT ![r] =
                                 BecomeFollower(old, m.round, old.leader_index)]
               /\ channel' = Receive(s, r) /\ replies' = replies
            \/ channel' = Receive(s, r) /\ replica' = replica /\ replies' = replies
  BY <1>1, <1>5, <1>10, StepDownQuiet
<1>11. CASE /\ replica' = [replica EXCEPT ![r] = new]
            /\ TransmitProposals(Receive(s, r), r, resend, peers)
            /\ replies' = replies \cup RepliesOf(progress.decided)
  <2>1. peers \in SUBSET Replicas
    BY <1>5
  <2> HIDE DEF peers
  <2>2. /\ channel' \in Channels
        /\ \A x, y \in Replicas : \A n \in InTransit(channel', x, y) :
              n \in InTransit(Receive(s, r), x, y) \/ n.type = "propose"
    BY <1>4, <1>7, <1>11, <2>1, TransmitProposalsLemma
  <2>3. replies' \subseteq [serial : Serials, slot : 0 .. MaxSlot]
    BY <1>6, <1>11, RepliesOfType, TypeFacts
  <2> QED BY <1>1, <1>4, <1>9, <1>11, <2>2, <2>3 DEF QuietStep
<1>12. CASE /\ replica' = [replica EXCEPT ![r] = backedUp]
            /\ TransmitProposals(Receive(s, r), r, backedUp, {m.server})
            /\ replies' = replies
  <2>1. /\ channel' \in Channels
        /\ \A x, y \in Replicas : \A n \in InTransit(channel', x, y) :
              n \in InTransit(Receive(s, r), x, y) \/ n.type = "propose"
    BY <1>4, <1>5, <1>8, <1>12, TransmitProposalsLemma
  <2> QED BY <1>1, <1>4, <1>8, <1>12, <2>1, TypeFacts DEF QuietStep
<1> QED BY <1>2, <1>10, <1>11, <1>12

\* A flush is quiet.
LEMMA FlushQuiet ==
  ASSUME TypeInv, NEW r \in Replicas, NEW st \in ReplicaState, QueueFits(st),
         Quiet(replica[r], [st EXCEPT !.pending_client_requests = <<>>]),
         replica' = [replica EXCEPT ![r] = Flush(r, st).state],
         TransmitProposals(channel, r, Flush(r, st).sent, Peers(r)),
         replies' = replies \cup RepliesOf(Flush(r, st).decided),
         granted' = granted
  PROVE  QuietStep(r)
<1> DEFINE f == Flush(r, st)
<1>1. /\ f.sent \in ReplicaState /\ f.decided \in ReplicaState
      /\ f.state \in ReplicaState /\ QueueFits(f.state)
      /\ SameElection(f.state, [st EXCEPT !.pending_client_requests = <<>>])
  BY FlushType
<1> HIDE DEF f
<1>2. Quiet(replica[r], f.state)
  BY <1>1 DEF Quiet, SameElection
<1>3. Peers(r) \in SUBSET Replicas
  BY DEF Peers
<1>4. /\ channel' \in Channels
      /\ \A x, y \in Replicas : \A n \in InTransit(channel', x, y) :
            n \in InTransit(channel, x, y) \/ n.type = "propose"
  BY <1>1, <1>3, TypeFacts, TransmitProposalsLemma DEF f
<1>5. replies' \subseteq [serial : Serials, slot : 0 .. MaxSlot]
  BY <1>1, RepliesOfType, TypeFacts DEF f
<1>6. replica' = [replica EXCEPT ![r] = f.state]
  BY DEF f
<1> QED BY <1>1, <1>2, <1>4, <1>5, <1>6 DEF QuietStep

LEMMA FlushPendingQuiet ==
  ASSUME TypeInv, NEW r \in Replicas, FlushPendingClientRequests(r)
  PROVE  QuietStep(r)
<1> DEFINE old == replica[r]
<1>1. old \in ReplicaState /\ QueueFits(old)
  BY TypeFacts
<1>2. Quiet(old, [old EXCEPT !.pending_client_requests = <<>>])
  <2> HIDE DEF old
  <2> QED BY <1>1, Zenon DEF Quiet, ReplicaState
<1>3. /\ replica' = [replica EXCEPT ![r] = Flush(r, old).state]
      /\ TransmitProposals(channel, r, Flush(r, old).sent, Peers(r))
      /\ replies' = replies \cup RepliesOf(Flush(r, old).decided)
      /\ granted' = granted
  BY Zenon DEF FlushPendingClientRequests
<1> QED BY <1>1, <1>2, <1>3, FlushQuiet

LEMMA HeartbeatQuiet ==
  ASSUME TypeInv, NEW r \in Replicas, Heartbeat(r)
  PROVE  QuietStep(r)
<1> DEFINE old == replica[r]
           st == ClampNextIndex(old, Peers(r))
<1>1. old \in ReplicaState /\ QueueFits(old)
  BY TypeFacts
<1>2. /\ replica' = [replica EXCEPT ![r] = st]
      /\ TransmitProposals(channel, r, st, Peers(r))
      /\ replies' = replies /\ granted' = granted
  BY Zenon DEF Heartbeat
<1> HIDE DEF old
<1>3. st \in ReplicaState /\ SameElection(st, old) /\ st.next_slot = old.next_slot
  BY <1>1, ClampNextIndexType, LeaderHelpersFrame
<1> HIDE DEF st
<1>4. QueueFits(st) /\ Quiet(old, st)
  BY <1>1, <1>3, SameElectionIsQuiet DEF QueueFits, SameElection
<1>5. Peers(r) \in SUBSET Replicas
  BY DEF Peers
<1>6. /\ channel' \in Channels
      /\ \A x, y \in Replicas : \A n \in InTransit(channel', x, y) :
            n \in InTransit(channel, x, y) \/ n.type = "propose"
  BY <1>2, <1>3, <1>5, TypeFacts, TransmitProposalsLemma
<1> QED BY <1>2, <1>3, <1>4, <1>6, TypeFacts DEF QuietStep, old

\* A client request is quiet.
LEMMA HandleClientRequestQuiet ==
  ASSUME TypeInv, NEW r \in Replicas, NEW serial \in Serials,
         HandleClientRequest(r, serial)
  PROVE  QuietStep(r)
<1> DEFINE old == replica[r]
           queued == [old EXCEPT
                         !.pending_client_serials = @ \cup {serial},
                         !.pending_client_requests = Append(@, serial)]
           full == BatchFull(queued)
           flushed == Flush(r, queued)
           cached == {[serial |-> serial, slot |-> old.response_cache[serial]]}
<1>1. old \in ReplicaState /\ QueueFits(old)
  BY TypeFacts
<1>2. granted' = granted
  BY Zenon DEF HandleClientRequest
<1>3. \/ /\ replica' = replica /\ channel' = channel
         /\ replies' = replies \cup cached \/ replies' = replies \cup {}
      \/ /\ old.next_slot + Len(old.pending_client_requests) <= MaxSlot
         /\ replica' = [replica EXCEPT ![r] = IF full THEN flushed.state ELSE queued]
         /\ TransmitProposals(channel, r, flushed.sent, IF full THEN Peers(r) ELSE {})
         /\ replies' = replies \cup
               (IF full THEN RepliesOf(flushed.decided) ELSE {})
  BY Zenon DEF HandleClientRequest
<1>4. CASE /\ replica' = replica /\ channel' = channel
           /\ replies' = replies \cup cached \/ replies' = replies \cup {}
  <2>1. replica = [replica EXCEPT ![r] = old]
    BY TypeFacts
  <2>2. Quiet(old, old)
    BY <1>1, SameElectionIsQuiet DEF SameElection
  <2>3. replies' \subseteq [serial : Serials, slot : 0 .. MaxSlot]
    <3>1. old.response_cache[serial] \in 0 .. MaxSlot
      BY <1>1 DEF ReplicaState
    <3> HIDE DEF old
    <3> QED BY <1>4, <3>1, TypeFacts
  <2> QED BY <1>1, <1>2, <1>4, <2>1, <2>2, <2>3, TypeFacts DEF QuietStep
<1>5. CASE /\ old.next_slot + Len(old.pending_client_requests) <= MaxSlot
           /\ replica' = [replica EXCEPT ![r] = IF full THEN flushed.state ELSE queued]
           /\ TransmitProposals(channel, r, flushed.sent, IF full THEN Peers(r) ELSE {})
           /\ replies' = replies \cup
                 (IF full THEN RepliesOf(flushed.decided) ELSE {})
  <2> HIDE DEF old
  <2>1. /\ old.pending_client_requests \in Seq(Serials)
        /\ old.pending_client_serials \in SUBSET Serials
        /\ old.next_slot \in Nat
    BY <1>1 DEF ReplicaState
  <2>2. /\ Append(old.pending_client_requests, serial) \in Seq(Serials)
        /\ Len(Append(old.pending_client_requests, serial)) =
              Len(old.pending_client_requests) + 1
        /\ Len(old.pending_client_requests) \in Nat
        /\ old.pending_client_serials \cup {serial} \in SUBSET Serials
    BY <2>1
  <2>3. queued \in ReplicaState
    BY <1>1, <2>2, Zenon DEF ReplicaState
  <2>4. /\ queued.next_slot = old.next_slot
        /\ queued.pending_client_requests = Append(old.pending_client_requests, serial)
    BY <1>1, Zenon DEF ReplicaState
  <2>5. Quiet(old, queued) /\ Quiet(old, [queued EXCEPT !.pending_client_requests = <<>>])
    BY <1>1, Zenon DEF Quiet, ReplicaState
  <2> HIDE DEF queued
  <2>6. QueueFits(queued)
    BY <1>5, <2>1, <2>2, <2>4, BoundsAssumption DEF QueueFits
  <2>7. CASE full
    BY <1>2, <1>5, <2>3, <2>5, <2>6, <2>7, FlushQuiet DEF old
  <2>8. CASE ~full
    <3>1. flushed.sent \in ReplicaState
      BY <2>3, <2>6, FlushType
    <3>2. TransmitProposals(channel, r, flushed.sent, {})
      BY <1>5, <2>8
    <3> HIDE DEF flushed
    <3>3. /\ channel' \in Channels
          /\ \A x, y \in Replicas : \A n \in InTransit(channel', x, y) :
                n \in InTransit(channel, x, y) \/ n.type = "propose"
      BY <3>1, <3>2, TypeFacts, TransmitProposalsLemma
    <3>4. replica' = [replica EXCEPT ![r] = queued] /\ replies' = replies
      BY <1>5, <2>8
    <3> QED BY <1>2, <2>3, <2>5, <2>6, <3>3, <3>4, TypeFacts DEF QuietStep, old
  <2> QED BY <2>7, <2>8
<1> QED BY <1>3, <1>4, <1>5

\* What handle_probe does: r catches up with the round of the probe and, if it
\* promises, the promise is recorded, remembered and sent to the candidate.
ProbeEffect(r, new, round, leader, promise) ==
  /\ QueueFits(new)
  /\ replica' = [replica EXCEPT ![r] = new]
  /\ ~promise => Quiet(replica[r], new)
  /\ promise =>
        /\ new.current_round = round
        /\ new.promised_leader = leader
        /\ \/ round > replica[r].current_round /\ new.role = "follower"
           \/ /\ round = replica[r].current_round
              /\ replica[r].promised_leader \in {None, leader}
              /\ new.role = replica[r].role
              /\ new.prepare_ok = replica[r].prepare_ok
  /\ granted' = IF promise
                THEN granted \cup {[round |-> round, server |-> r, leader |-> leader]}
                ELSE granted
  /\ channel' \in Channels
  /\ \A x, y \in Replicas : \A m \in InTransit(channel', x, y) :
        \/ m \in InTransit(channel, x, y)
        \/ /\ x = r /\ y = leader
           /\ m.type = "prepare" /\ m.server = r /\ m.promised = promise
           /\ promise => m.round = round
  /\ replies' = replies

LEMMA HandleProbeEffect ==
  ASSUME TypeInv, NEW r \in Replicas, NEW s \in Replicas, HandleProbe(s, r)
  PROVE  \E new \in ReplicaState, round \in Rounds, leader \in Replicas, promise \in BOOLEAN :
            ProbeEffect(r, new, round, leader, promise)
<1> DEFINE m == Head(channel[s][r])
           old == replica[r]
           follow == BecomeFollower(old, m.round, old.leader_index)
           st == IF m.round > old.current_round THEN follow ELSE old
           promise == m.round >= old.current_round /\ CanPromise(st, m)
           answer == [type |-> "prepare", round |-> st.current_round, server |-> r,
                      promised |-> promise]
           new == IF promise THEN [st EXCEPT !.promised_leader = m.leader,
                                             !.leader_index = m.leader]
                  ELSE st
           out == [d \in Replicas |-> answer]
<1>1. /\ channel[s][r] # <<>> /\ m.type = "probe"
      /\ replica' = [replica EXCEPT ![r] = new]
      /\ Transmit(Receive(s, r), r, out, {m.leader})
      /\ granted' = IF promise
                    THEN granted \cup {[round |-> m.round, server |-> r,
                                        leader |-> m.leader]}
                    ELSE granted
      /\ replies' = replies
  BY Zenon DEF HandleProbe, Incoming
<1>2. old \in ReplicaState /\ QueueFits(old) /\ old.leader_index \in Replicas
  BY TypeFacts DEF ReplicaState
<1>3. /\ m \in ProbeMessage /\ Receive(s, r) \in Channels
      /\ \A x, y \in Replicas : InTransit(Receive(s, r), x, y) \subseteq InTransit(channel, x, y)
  BY <1>1, TypeFacts, ReceiveLemma, MessageKinds
<1>4. m.leader \in Replicas /\ m.round \in Rounds /\ m.round \in Nat
  BY <1>3, BoundsAssumption DEF ProbeMessage, Rounds
<1>5. promise \in BOOLEAN
  OBVIOUS
<1> HIDE DEF m, old
<1>6. /\ follow \in ReplicaState /\ QueueFits(follow) /\ Quiet(old, follow)
      /\ m.round > old.current_round => follow.current_round = m.round
      /\ follow.role = "follower"
  <2>1. SameElection(follow, follow)
    BY DEF SameElection
  <2>2. /\ follow.current_round = IF m.round > old.current_round THEN m.round
                                  ELSE old.current_round
        /\ follow.role = "follower"
    BY <1>2, Zenon DEF BecomeFollower, ReplicaState
  <2> HIDE DEF follow
  <2> QED
    BY <1>2, <1>4, <2>1, <2>2, BecomeFollowerType, BecomeFollowerFits,
       BecomeFollowerIsQuiet DEF follow
<1> HIDE DEF follow
<1>7. st \in ReplicaState /\ QueueFits(st) /\ Quiet(old, st)
  BY <1>2, <1>6, SameElectionIsQuiet DEF SameElection
<1>8. promise => /\ st.current_round = m.round
                 /\ \/ m.round > old.current_round /\ st.role = "follower"
                    \/ /\ m.round = old.current_round
                       /\ old.promised_leader \in {None, m.leader}
                       /\ st.role = old.role /\ st.prepare_ok = old.prepare_ok
  <2>1. old.current_round \in Nat
    BY <1>2, BoundsAssumption DEF ReplicaState, Rounds
  <2> QED BY <1>4, <1>6, <2>1 DEF CanPromise
<1> HIDE DEF st, promise
<1>9. /\ new \in ReplicaState /\ QueueFits(new)
      /\ ~promise => Quiet(old, new)
      /\ new.current_round = st.current_round
      /\ promise => new.promised_leader = m.leader
      /\ new.role = st.role /\ new.prepare_ok = st.prepare_ok
  <2>1. /\ new \in ReplicaState
        /\ promise => new.promised_leader = m.leader
        /\ new.role = st.role /\ new.prepare_ok = st.prepare_ok
        /\ new.current_round = st.current_round
        /\ new.next_slot = st.next_slot
        /\ new.pending_client_requests = st.pending_client_requests
    BY <1>4, <1>7, Zenon DEF ReplicaState
  <2>2. ~promise => Quiet(old, new)
    BY <1>7
  <2> HIDE DEF new
  <2> QED BY <1>7, <2>1, <2>2 DEF QueueFits
<1>10. answer \in Message
  <2>1. st.current_round \in Rounds
    BY <1>7 DEF ReplicaState
  <2> QED BY <1>5, <2>1 DEF Message, PrepareMessage
<1>11. /\ answer.type = "prepare" /\ answer.server = r /\ answer.promised = promise
       /\ promise => answer.round = m.round
  BY <1>8
<1> HIDE DEF answer
<1>12. \A d \in {m.leader} : out[d] = answer
  BY <1>4
<1> HIDE DEF out, new
<1>13. /\ channel' \in Channels
       /\ \A x, y \in Replicas : \A n \in InTransit(channel', x, y) :
             n \in InTransit(Receive(s, r), x, y) \/ (x = r /\ y = m.leader /\ n = answer)
  BY <1>1, <1>3, <1>4, <1>10, <1>12, TransmitLemma
<1>14. promise =>
          /\ new.current_round = m.round
          /\ new.promised_leader = m.leader
          /\ \/ m.round > old.current_round /\ new.role = "follower"
             \/ /\ m.round = old.current_round
                /\ old.promised_leader \in {None, m.leader}
                /\ new.role = old.role
                /\ new.prepare_ok = old.prepare_ok
  BY <1>8, <1>9
<1>15. \A x, y \in Replicas : \A n \in InTransit(channel', x, y) :
          \/ n \in InTransit(channel, x, y)
          \/ /\ x = r /\ y = m.leader
             /\ n.type = "prepare" /\ n.server = r /\ n.promised = promise
             /\ promise => n.round = m.round
  BY <1>3, <1>11, <1>13
<1>16. ProbeEffect(r, new, m.round, m.leader, promise)
  BY <1>1, <1>9, <1>13, <1>14, <1>15, Zenon DEF ProbeEffect, old
<1> QED BY <1>4, <1>5, <1>9, <1>16

\* What start_probe_round does: r moves to the next round, promises itself to
\* itself and is a candidate, or a leader at once if it is a quorum.
ProbeRoundEffect(r, new) ==
  /\ QueueFits(new)
  /\ replica' = [replica EXCEPT ![r] = new]
  /\ new.current_round = replica[r].current_round + 1
  /\ new.promised_leader = r
  /\ \/ new.role = "candidate" /\ new.prepare_ok = {r}
     \/ new.role = "leader" /\ IsQuorum({r})
  /\ granted' = granted \cup
        {[round |-> new.current_round, server |-> r, leader |-> r]}
  /\ channel' \in Channels
  /\ \A x, y \in Replicas : \A m \in InTransit(channel', x, y) :
        m \in InTransit(channel, x, y) \/ m.type # "prepare"
  /\ replies' = replies

LEMMA StartProbeRoundEffect ==
  ASSUME TypeInv, NEW r \in Replicas, StartProbeRound(r)
  PROVE  \E new \in ReplicaState : ProbeRoundEffect(r, new)
<1> DEFINE old == replica[r]
           st == [old EXCEPT !.role = "candidate",
                             !.current_round = @ + 1,
                             !.leader_index = r,
                             !.promised_leader = r,
                             !.prepare_ok = {r}]
           msg == [type |-> "probe", round |-> st.current_round, leader |-> r,
                   last_log_index |-> LastLogIndex(st),
                   last_log_round |-> LastLogRound(st)]
           out == [d \in Replicas |-> msg]
           new == IF IsQuorum({r}) THEN BecomeLeader(r, st) ELSE st
<1>1. old \in ReplicaState /\ QueueFits(old) /\ channel \in Channels
  BY TypeFacts
<1>2. /\ old.current_round < MaxRound
      /\ replica' = [replica EXCEPT ![r] = new]
      /\ Transmit(channel, r, out, Peers(r))
      /\ granted' = granted \cup
            {[round |-> st.current_round, server |-> r, leader |-> r]}
      /\ replies' = replies
  BY Zenon DEF StartProbeRound
<1> HIDE DEF old
<1>3. old.current_round + 1 \in Rounds
  <2>1. old.current_round \in Rounds
    BY <1>1 DEF ReplicaState
  <2>2. old.current_round < MaxRound
    BY <1>2, Zenon
  <2> QED BY <2>1, <2>2, BoundsAssumption DEF Rounds
<1>4. /\ st \in ReplicaState /\ st.current_round = old.current_round + 1
      /\ st.role = "candidate" /\ st.prepare_ok = {r} /\ st.promised_leader = r
      /\ st.next_slot = old.next_slot
      /\ st.pending_client_requests = old.pending_client_requests
  BY <1>1, <1>3, Zenon DEF ReplicaState
<1> HIDE DEF st
<1>5. /\ new \in ReplicaState
      /\ new.current_round = st.current_round
      /\ new.promised_leader = r
      /\ \/ new.role = "candidate" /\ new.prepare_ok = {r}
         \/ new.role = "leader" /\ IsQuorum({r})
      /\ new.next_slot = st.next_slot
      /\ new.pending_client_requests = st.pending_client_requests
  <2>1. /\ BecomeLeader(r, st).next_slot = st.next_slot
        /\ BecomeLeader(r, st).pending_client_requests = st.pending_client_requests
        /\ BecomeLeader(r, st).role = "leader"
        /\ BecomeLeader(r, st).current_round = st.current_round
        /\ BecomeLeader(r, st).promised_leader = r
    BY <1>4, Zenon DEF BecomeLeader, ReplicaState
  <2> QED BY <1>4, <2>1, BecomeLeaderType
<1> HIDE DEF new
<1>6. QueueFits(new)
  BY <1>1, <1>4, <1>5 DEF QueueFits
<1>7. msg \in Message /\ msg.type # "prepare"
  <2>1. LastLogRound(st) \in Rounds /\ LastLogIndex(st) \in 0 .. MaxSlot
        /\ st.current_round \in Rounds
    BY <1>3, <1>4, LastLogIndexType, RoundAtType DEF LastLogRound
  <2> QED BY <2>1 DEF Message, ProbeMessage
<1> HIDE DEF msg
<1>8. Peers(r) \in SUBSET Replicas /\ \A d \in Peers(r) : out[d] = msg
  BY DEF Peers
<1> HIDE DEF out
<1>9. /\ channel' \in Channels
      /\ \A x, y \in Replicas : \A m \in InTransit(channel', x, y) :
            m \in InTransit(channel, x, y) \/ m.type # "prepare"
  BY <1>1, <1>2, <1>7, <1>8, TransmitLemma
<1>10. ProbeRoundEffect(r, new)
  BY <1>2, <1>4, <1>5, <1>6, <1>9 DEF ProbeRoundEffect, old
<1> QED BY <1>5, <1>10

\* What handle_prepare does when it counts a promise: the candidate has one more
\* server behind it, and leads if these are a quorum.
PrepareEffect(s, r, m, new) ==
  /\ m \in InTransit(channel, s, r) /\ m.type = "prepare" /\ m.promised
  /\ replica[r].role = "candidate" /\ m.round = replica[r].current_round
  /\ QueueFits(new)
  /\ replica' = [replica EXCEPT ![r] = new]
  /\ new.current_round = replica[r].current_round
  /\ \/ /\ new.role = "candidate"
        /\ new.promised_leader = replica[r].promised_leader
        /\ new.prepare_ok = replica[r].prepare_ok \cup {m.server}
     \/ /\ new.role = "leader" /\ new.promised_leader = r
        /\ IsQuorum(replica[r].prepare_ok \cup {m.server})
  /\ granted' = granted
  /\ channel' \in Channels
  /\ \A x, y \in Replicas : \A n \in InTransit(channel', x, y) :
        n \in InTransit(channel, x, y) \/ n.type # "prepare"
  /\ replies' = replies

LEMMA HandlePrepareEffect ==
  ASSUME TypeInv, NEW r \in Replicas, NEW s \in Replicas, HandlePrepare(s, r)
  PROVE  \/ QuietStep(r)
         \/ \E m \in PrepareMessage, new \in ReplicaState : PrepareEffect(s, r, m, new)
<1> DEFINE m == Head(channel[s][r])
           old == replica[r]
           counts == /\ old.role = "candidate" /\ m.round = old.current_round
                     /\ m.promised /\ m.server \notin old.prepare_ok
           ok == old.prepare_ok \cup {m.server}
           st == [old EXCEPT !.prepare_ok = ok]
           leader == BecomeLeader(r, st)
           leading == ClampNextIndex(leader, Peers(r))
<1>1. channel[s][r] # <<>> /\ m.type = "prepare" /\ granted' = granted /\ replies' = replies
  BY Zenon DEF HandlePrepare, Incoming
<1>2. \/ /\ replica' = [replica EXCEPT ![r] =
                            BecomeFollower(old, m.round, old.leader_index)]
         /\ channel' = Receive(s, r)
      \/ channel' = Receive(s, r) /\ replica' = replica
      \/ /\ counts /\ ~IsQuorum(st.prepare_ok)
         /\ replica' = [replica EXCEPT ![r] = st]
         /\ channel' = Receive(s, r)
      \/ /\ counts /\ IsQuorum(st.prepare_ok)
         /\ replica' = [replica EXCEPT ![r] = leading]
         /\ TransmitProposals(Receive(s, r), r, leading, Peers(r))
  BY Zenon DEF HandlePrepare
<1>3. old \in ReplicaState /\ QueueFits(old)
  BY TypeFacts
<1>4. /\ m \in PrepareMessage /\ Receive(s, r) \in Channels
      /\ m \in InTransit(channel, s, r)
      /\ \A x, y \in Replicas : InTransit(Receive(s, r), x, y) \subseteq InTransit(channel, x, y)
  BY <1>1, TypeFacts, ReceiveLemma, MessageKinds
<1>5. m.server \in Replicas /\ m.round \in Rounds
  BY <1>4 DEF PrepareMessage
<1> HIDE DEF m
<1>6. CASE \/ /\ replica' = [replica EXCEPT ![r] =
                                 BecomeFollower(old, m.round, old.leader_index)]
              /\ channel' = Receive(s, r)
           \/ channel' = Receive(s, r) /\ replica' = replica
  BY <1>1, <1>5, <1>6, StepDownQuiet
<1> HIDE DEF old
<1>7. ok \in SUBSET Replicas
  BY <1>3, <1>5 DEF ReplicaState
<1> HIDE DEF ok
<1>8. /\ st \in ReplicaState /\ st.prepare_ok = ok
      /\ st.role = old.role /\ st.current_round = old.current_round
      /\ st.promised_leader = old.promised_leader /\ st.next_slot = old.next_slot
      /\ st.pending_client_requests = old.pending_client_requests
  BY <1>3, <1>7, Zenon DEF ReplicaState
<1> HIDE DEF st
<1>9. /\ leader \in ReplicaState
      /\ leader.role = "leader" /\ leader.current_round = st.current_round
      /\ leader.promised_leader = r /\ leader.next_slot = st.next_slot
      /\ leader.pending_client_requests = st.pending_client_requests
  <2>1. /\ leader.role = "leader" /\ leader.current_round = st.current_round
        /\ leader.promised_leader = r /\ leader.next_slot = st.next_slot
        /\ leader.pending_client_requests = st.pending_client_requests
    BY <1>8, Zenon DEF BecomeLeader, ReplicaState
  <2> QED BY <1>8, <2>1, BecomeLeaderType
<1> HIDE DEF leader
<1>10. /\ leading \in ReplicaState /\ SameElection(leading, leader)
       /\ leading.next_slot = leader.next_slot
  BY <1>9, ClampNextIndexType, LeaderHelpersFrame
<1> HIDE DEF leading
<1>11. QueueFits(st) /\ QueueFits(leading)
  BY <1>3, <1>8, <1>9, <1>10 DEF QueueFits, SameElection
<1>12. CASE /\ counts /\ ~IsQuorum(st.prepare_ok)
            /\ replica' = [replica EXCEPT ![r] = st]
            /\ channel' = Receive(s, r)
  <2>1. PrepareEffect(s, r, m, st)
    BY <1>1, <1>4, <1>8, <1>11, <1>12 DEF PrepareEffect, old, ok
  <2> QED BY <1>4, <1>8, <2>1
<1>13. CASE /\ counts /\ IsQuorum(st.prepare_ok)
            /\ replica' = [replica EXCEPT ![r] = leading]
            /\ TransmitProposals(Receive(s, r), r, leading, Peers(r))
  <2>1. Peers(r) \in SUBSET Replicas
    BY DEF Peers
  <2>2. /\ channel' \in Channels
        /\ \A x, y \in Replicas : \A n \in InTransit(channel', x, y) :
              n \in InTransit(Receive(s, r), x, y) \/ n.type = "propose"
    BY <1>4, <1>10, <1>13, <2>1, TransmitProposalsLemma
  <2>3. /\ leading.role = "leader" /\ leading.promised_leader = r
        /\ leading.current_round = old.current_round
    BY <1>8, <1>9, <1>10 DEF SameElection
  <2>4. PrepareEffect(s, r, m, leading)
    BY <1>1, <1>4, <1>8, <1>11, <1>13, <2>2, <2>3 DEF PrepareEffect, old, ok
  <2> QED BY <1>4, <1>10, <2>4
<1> QED BY <1>2, <1>6, <1>12, <1>13 DEF old

\* Every step is of one of four kinds.
LEMMA StepKinds ==
  ASSUME TypeInv, Next
  PROVE  \E r \in Replicas :
            \/ QuietStep(r)
            \/ \E new \in ReplicaState : ProbeRoundEffect(r, new)
            \/ \E new \in ReplicaState, round \in Rounds, leader \in Replicas,
                  promise \in BOOLEAN : ProbeEffect(r, new, round, leader, promise)
            \/ \E s \in Replicas, m \in PrepareMessage, new \in ReplicaState :
                  PrepareEffect(s, r, m, new)
<1>1. PICK r \in Replicas :
          \/ StartProbeRound(r)
          \/ \E serial \in Serials : HandleClientRequest(r, serial)
          \/ FlushPendingClientRequests(r)
          \/ Heartbeat(r)
          \/ \E s \in Peers(r) : \/ HandleProbe(s, r)
                                 \/ HandlePrepare(s, r)
                                 \/ HandlePropose(s, r)
                                 \/ HandleAck(s, r)
  BY Zenon DEF Next
<1>2. Peers(r) \subseteq Replicas
  BY DEF Peers
<1>3. CASE StartProbeRound(r)
  BY <1>3, StartProbeRoundEffect
<1>4. CASE \E serial \in Serials : HandleClientRequest(r, serial)
  BY <1>4, HandleClientRequestQuiet
<1>5. CASE FlushPendingClientRequests(r)
  BY <1>5, FlushPendingQuiet
<1>6. CASE Heartbeat(r)
  BY <1>6, HeartbeatQuiet
<1>7. CASE \E s \in Peers(r) : HandleProbe(s, r)
  BY <1>2, <1>7, HandleProbeEffect
<1>8. CASE \E s \in Peers(r) : HandlePrepare(s, r)
  <2>1. PICK s \in Replicas : HandlePrepare(s, r)
    BY <1>2, <1>8
  <2> QED BY <2>1, HandlePrepareEffect
<1>9. CASE \E s \in Peers(r) : HandlePropose(s, r)
  BY <1>2, <1>9, HandleProposeQuiet
<1>10. CASE \E s \in Peers(r) : HandleAck(s, r)
  BY <1>2, <1>10, HandleAckQuiet
<1> QED BY <1>1, <1>3, <1>4, <1>5, <1>6, <1>7, <1>8, <1>9, <1>10

\* The log of a leader is recorded with its trimmed slots.
LEMMA WholeLogType ==
  ASSUME HistoryTyped, NEW st \in ReplicaState
  PROVE  WholeLog(st) \in Log
<1>1. LastLogRound(st) \in Rounds /\ st.log \in Log
  BY LastLogIndexType, RoundAtType DEF LastLogRound, ReplicaState
<1>2. leaderLog[LastLogRound(st)] \in Log
  BY <1>1 DEF HistoryTyped
<1> QED BY <1>1, <1>2 DEF WholeLog, Log

LEMMA LeadTypes ==
  ASSUME HistoryTyped, NEW r \in Replicas, NEW st \in ReplicaState, Lead(r, st)
  PROVE  HistoryTyped'
<1>1. st.current_round \in Rounds /\ LastLogIndex(st) \in 0 .. MaxSlot
  BY LastLogIndexType DEF ReplicaState
<1>2. WholeLog(st) \in Log
  BY WholeLogType
<1>3. leaderLog' \in [Rounds -> Log]
  BY <1>1, <1>2 DEF Lead, HistoryTyped
<1>4. acked' \subseteq AckRecord
  BY <1>1 DEF Lead, Acked, HistoryTyped, AckRecord
<1> QED BY <1>3, <1>4 DEF HistoryTyped

\* The state from which a client request may be flushed.
LEMMA QueuedFits ==
  ASSUME NEW old \in ReplicaState, NEW serial \in Serials,
         old.next_slot + Len(old.pending_client_requests) <= MaxSlot
  PROVE  LET queued == [old EXCEPT
                           !.pending_client_serials = @ \cup {serial},
                           !.pending_client_requests = Append(@, serial)]
         IN  queued \in ReplicaState /\ QueueFits(queued)
<1> DEFINE queued == [old EXCEPT
                         !.pending_client_serials = @ \cup {serial},
                         !.pending_client_requests = Append(@, serial)]
<1>1. /\ old.pending_client_requests \in Seq(Serials)
      /\ old.pending_client_serials \in SUBSET Serials
      /\ old.next_slot \in Nat
  BY DEF ReplicaState
<1>2. /\ Append(old.pending_client_requests, serial) \in Seq(Serials)
      /\ Len(Append(old.pending_client_requests, serial)) =
            Len(old.pending_client_requests) + 1
      /\ Len(old.pending_client_requests) \in Nat
      /\ old.pending_client_serials \cup {serial} \in SUBSET Serials
  BY <1>1
<1>3. queued \in ReplicaState
  BY <1>2, Zenon DEF ReplicaState
<1>4. /\ queued.next_slot = old.next_slot
      /\ queued.pending_client_requests = Append(old.pending_client_requests, serial)
  BY Zenon DEF ReplicaState
<1> HIDE DEF queued
<1>5. QueueFits(queued)
  BY <1>1, <1>2, <1>4, BoundsAssumption DEF QueueFits
<1> QED BY <1>3, <1>5 DEF queued

\* The history records well-formed logs and acks only.
LEMMA HistoryTypes ==
  ASSUME TypeInv, Next
  PROVE  HistoryTyped'
<1>1. PICK r \in Replicas :
          \/ StartProbeRound(r)
          \/ \E serial \in Serials : HandleClientRequest(r, serial)
          \/ FlushPendingClientRequests(r)
          \/ Heartbeat(r)
          \/ \E s \in Peers(r) : \/ HandleProbe(s, r)
                                 \/ HandlePrepare(s, r)
                                 \/ HandlePropose(s, r)
                                 \/ HandleAck(s, r)
  BY Zenon DEF Next
<1> DEFINE old == replica[r]
<1>2. old \in ReplicaState /\ QueueFits(old) /\ HistoryTyped
  BY TypeFacts
<1>3. UNCHANGED <<leaderLog, acked>> => HistoryTyped'
  BY <1>2 DEF HistoryTyped
<1>4. \A st \in ReplicaState : Lead(r, st) => HistoryTyped'
  BY <1>2, LeadTypes
<1>5. ASSUME StartProbeRound(r)
      PROVE  HistoryTyped'
  <2> DEFINE st == [old EXCEPT !.role = "candidate",
                               !.current_round = @ + 1,
                               !.leader_index = r,
                               !.promised_leader = r,
                               !.prepare_ok = {r}]
  <2>1. /\ old.current_round < MaxRound
        /\ Lead(r, BecomeLeader(r, st)) \/ UNCHANGED <<leaderLog, acked>>
    BY <1>5, Zenon DEF StartProbeRound
  <2> HIDE DEF old
  <2>2. old.current_round + 1 \in Rounds
    <3>1. old.current_round \in Rounds
      BY <1>2, Zenon DEF ReplicaState
    <3>2. old.current_round < MaxRound
      BY <2>1
    <3> HIDE DEF st
    <3> QED BY <3>1, <3>2, BoundsAssumption DEF Rounds
  <2>3. st \in ReplicaState
    BY <1>2, <2>2, Zenon DEF ReplicaState
  <2> HIDE DEF st
  <2> QED BY <1>3, <1>4, <2>1, <2>3, BecomeLeaderType
<1>6. ASSUME NEW serial \in Serials, HandleClientRequest(r, serial)
      PROVE  HistoryTyped'
  <2> DEFINE queued == [old EXCEPT
                           !.pending_client_serials = @ \cup {serial},
                           !.pending_client_requests = Append(@, serial)]
  <2>1. \/ /\ old.next_slot + Len(old.pending_client_requests) <= MaxSlot
           /\ Lead(r, Flush(r, queued).sent)
        \/ UNCHANGED <<leaderLog, acked>>
    BY <1>6, Zenon DEF HandleClientRequest
  <2>2. CASE /\ old.next_slot + Len(old.pending_client_requests) <= MaxSlot
             /\ Lead(r, Flush(r, queued).sent)
    <3>1. queued \in ReplicaState /\ QueueFits(queued)
      BY <1>2, <2>2, QueuedFits
    <3> HIDE DEF queued
    <3> QED BY <1>4, <2>2, <3>1, FlushType
  <2> QED BY <1>3, <2>1, <2>2
<1>7. ASSUME FlushPendingClientRequests(r)
      PROVE  HistoryTyped'
  <2>1. Lead(r, Flush(r, old).sent)
    BY <1>7, Zenon DEF FlushPendingClientRequests
  <2> QED BY <1>2, <1>4, <2>1, FlushType
<1>8. ASSUME NEW s \in Replicas, HandlePrepare(s, r)
      PROVE  HistoryTyped'
  <2> DEFINE m == Head(channel[s][r])
             st == [old EXCEPT !.prepare_ok = @ \cup {m.server}]
             leading == ClampNextIndex(BecomeLeader(r, st), Peers(r))
  <2>1. channel[s][r] # <<>> /\ m.type = "prepare"
    BY <1>8, Zenon DEF HandlePrepare, Incoming
  <2>2. Lead(r, leading) \/ UNCHANGED <<leaderLog, acked>>
    BY <1>8, Zenon DEF HandlePrepare
  <2>3. m \in PrepareMessage
    BY <2>1, TypeFacts, ReceiveLemma, MessageKinds
  <2>4. m.server \in Replicas
    BY <2>3 DEF PrepareMessage
  <2>5. old.prepare_ok \cup {m.server} \in SUBSET Replicas
    BY <1>2, <2>4 DEF ReplicaState
  <2> HIDE DEF old
  <2>6. st \in ReplicaState
    BY <1>2, <2>5, Zenon DEF ReplicaState
  <2> HIDE DEF st
  <2> QED BY <1>3, <1>4, <2>2, <2>6, BecomeLeaderType, ClampNextIndexType
<1>9. ASSUME NEW s \in Replicas, HandlePropose(s, r)
      PROVE  HistoryTyped'
  <2> DEFINE m == Head(channel[s][r])
             ack == ProposeOutcome(r, old, m).ack
  <2>1. /\ channel[s][r] # <<>> /\ m.type = "propose"
        /\ leaderLog' = leaderLog
        /\ acked' = IF ack.success THEN acked \cup {Acked(r, ack.round, ack.match_index)}
                    ELSE acked
    BY <1>9, Zenon DEF HandlePropose, Incoming
  <2>2. m \in ProposeMessage
    BY <2>1, TypeFacts, ReceiveLemma, MessageKinds
  <2>3. ack \in AckMessage
    BY <1>2, <2>2, ProposeOutcomeType
  <2> HIDE DEF ack
  <2>4. Acked(r, ack.round, ack.match_index) \in AckRecord
    BY <2>3 DEF AckMessage, Acked, AckRecord
  <2> QED BY <1>2, <2>1, <2>4 DEF HistoryTyped
<1>10. ASSUME \/ Heartbeat(r)
              \/ \E s \in Replicas : HandleProbe(s, r) \/ HandleAck(s, r)
       PROVE  HistoryTyped'
  <2>1. UNCHANGED <<leaderLog, acked>>
    BY <1>10, Zenon DEF Heartbeat, HandleProbe, HandleAck
  <2> QED BY <1>3, <2>1
<1>11. Peers(r) \subseteq Replicas
  BY DEF Peers
<1> QED BY <1>1, <1>5, <1>6, <1>7, <1>8, <1>9, <1>10, <1>11

LEMMA TypeInit ==
  ASSUME Init
  PROVE  TypeInv
<1>1. ASSUME NEW r \in Replicas
      PROVE  InitialState(r) \in ReplicaState /\ QueueFits(InitialState(r))
  <2>1. /\ [k \in Slots |-> Absent] \in Log
        /\ [s \in Replicas |-> 0] \in [Replicas -> 0 .. MaxSlot]
        /\ [s \in Replicas |-> 1] \in [Replicas -> 1 .. MaxSlot + 1]
        /\ [s \in Serials |-> 0] \in [Serials -> 0 .. MaxSlot]
        /\ <<>> \in Seq(Serials)
        /\ 1 \in 1 .. MaxSlot + 1 /\ 0 \in 0 .. MaxSlot /\ 0 \in Rounds
    BY BoundsAssumption DEF Log, Rounds
  <2>2. InitialState(r) \in ReplicaState
    BY <2>1, ReplicasAssumption, Zenon DEF InitialState, ReplicaState
  <2>3. InitialState(r).next_slot = 1 /\ InitialState(r).pending_client_requests = <<>>
    BY Zenon DEF InitialState
  <2> QED BY <2>2, <2>3, BoundsAssumption DEF QueueFits
<1>2. replica \in [Replicas -> ReplicaState] /\ \A r \in Replicas : QueueFits(replica[r])
  BY <1>1 DEF Init
<1>3. channel \in [Replicas -> [Replicas -> Seq(Message)]]
  BY DEF Init
<1>4. leaderLog \in [Rounds -> Log]
  BY DEF Init, Log
<1>5. acked \subseteq [server : Replicas, round : Rounds, index : 0 .. MaxSlot]
  BY ReplicasAssumption, BoundsAssumption DEF Init, Acked, Rounds
<1> QED BY <1>2, <1>3, <1>4, <1>5 DEF Init, TypeInv, TypeOK

LEMMA TypeStep ==
  ASSUME TypeInv, [Next]_vars
  PROVE  TypeInv'
<1>1. CASE UNCHANGED vars
  BY <1>1 DEF TypeInv, TypeOK, QueueFits, vars
<1>2. CASE Next
  <2>1. PICK r \in Replicas :
            \/ QuietStep(r)
            \/ \E new \in ReplicaState : ProbeRoundEffect(r, new)
            \/ \E new \in ReplicaState, round \in Rounds, leader \in Replicas,
                  promise \in BOOLEAN : ProbeEffect(r, new, round, leader, promise)
            \/ \E s \in Replicas, m \in PrepareMessage, new \in ReplicaState :
                  PrepareEffect(s, r, m, new)
    BY <1>2, StepKinds
  <2>2. HistoryTyped'
    BY <1>2, HistoryTypes
  <2>3. CASE QuietStep(r)
    BY <2>3, <2>2, TypeFacts, OneReplicaSteps DEF QuietStep
  <2>4. ASSUME NEW new \in ReplicaState, ProbeRoundEffect(r, new)
        PROVE  TypeInv'
    <3>1. new.current_round \in Rounds
      BY DEF ReplicaState
    <3>2. granted' \subseteq [round : Rounds, server : Replicas, leader : Replicas]
      BY <2>4, <3>1, TypeFacts DEF ProbeRoundEffect
    <3> QED BY <2>4, <2>2, <3>2, TypeFacts, OneReplicaSteps DEF ProbeRoundEffect
  <2>5. ASSUME NEW new \in ReplicaState, NEW round \in Rounds, NEW leader \in Replicas,
               NEW promise \in BOOLEAN, ProbeEffect(r, new, round, leader, promise)
        PROVE  TypeInv'
    <3>1. granted' \subseteq [round : Rounds, server : Replicas, leader : Replicas]
      BY <2>5, TypeFacts DEF ProbeEffect
    <3> QED BY <2>5, <2>2, <3>1, TypeFacts, OneReplicaSteps DEF ProbeEffect
  <2>6. ASSUME NEW s \in Replicas, NEW m \in PrepareMessage, NEW new \in ReplicaState,
               PrepareEffect(s, r, m, new)
        PROVE  TypeInv'
    BY <2>6, <2>2, TypeFacts, OneReplicaSteps DEF PrepareEffect
  <2> QED BY <2>1, <2>3, <2>4, <2>5, <2>6
<1> QED BY <1>1, <1>2

\* Every reachable state is well typed: rounds, slots and indices stay in range
\* through elections, appends, truncation and trimming, and only well-formed
\* messages are ever sent (all handlers of pt_paxos_replica).
THEOREM TypeCorrect == Spec => []TypeOK
<1>1. Init => TypeInv
  BY TypeInit
<1>2. TypeInv /\ [Next]_vars => TypeInv'
  BY TypeStep
<1>3. TypeInv => TypeOK
  BY DEF TypeInv
<1> QED BY <1>1, <1>2, <1>3, PTL DEF Spec

-----------------------------------------------------------------------------
(* Election safety *)

Promise(round, server, leader) ==
  [round |-> round, server |-> server, leader |-> leader]

\* A server promises a round to one candidate only ...
GrantsUnique ==
  \A g, h \in granted : g.round = h.round /\ g.server = h.server => g.leader = h.leader

\* ... because it remembers the promise of its round, and its round never falls.
GrantsRemembered ==
  \A g \in granted :
    /\ g.round <= replica[g.server].current_round
    /\ g.round = replica[g.server].current_round
          => replica[g.server].promised_leader = g.leader

\* A promise under way to a candidate was given to that candidate.
PromisesSent ==
  \A s, d \in Replicas : \A m \in InTransit(channel, s, d) :
    m.type = "prepare" /\ m.promised => Promise(m.round, m.server, d) \in granted

\* A candidate counts promises of its own round only.
Candidates ==
  \A r \in Replicas : replica[r].role = "candidate" =>
    /\ replica[r].current_round > 0
    /\ replica[r].promised_leader = r
    /\ \A p \in replica[r].prepare_ok : Promise(replica[r].current_round, p, r) \in granted

\* A leader is the initial one or has a quorum of promises.
Leaders ==
  \A r \in Replicas : replica[r].role = "leader" =>
    \/ replica[r].current_round = 0 /\ r = InitialLeader
    \/ /\ replica[r].current_round > 0
       /\ \E Q \in SUBSET Replicas :
             IsQuorum(Q) /\ \A p \in Q : Promise(replica[r].current_round, p, r) \in granted

ElectionInv ==
  /\ GrantsUnique
  /\ GrantsRemembered
  /\ PromisesSent
  /\ Candidates
  /\ Leaders

LEMMA RoundIsNatural ==
  ASSUME NEW st \in ReplicaState
  PROVE  st.current_round \in Nat
BY BoundsAssumption DEF ReplicaState, Rounds

LEMMA GrantFacts ==
  ASSUME TypeInv, NEW g \in granted
  PROVE  g.round \in Nat /\ g.server \in Replicas /\ g.leader \in Replicas
<1>1. g \in [round : Rounds, server : Replicas, leader : Replicas]
  BY TypeFacts
<1> QED BY <1>1, BoundsAssumption DEF Rounds

\* Two leaders of one round would share a server that promised both.
LEMMA ElectionInvImpliesSafety ==
  ASSUME TypeInv, ElectionInv
  PROVE  ElectionSafety
<1> SUFFICES ASSUME NEW a \in Replicas, NEW b \in Replicas,
                    replica[a].role = "leader", replica[b].role = "leader",
                    replica[a].current_round = replica[b].current_round
             PROVE  a = b
  BY DEF ElectionSafety
<1> DEFINE round == replica[a].current_round
<1>1. round \in Nat
  BY TypeFacts, RoundIsNatural
<1>2. CASE round = 0
  <2>1. a = InitialLeader
    BY <1>2 DEF ElectionInv, Leaders
  <2>2. replica[b].current_round = 0
    BY <1>2
  <2>3. b = InitialLeader
    BY <2>2 DEF ElectionInv, Leaders
  <2> QED BY <2>1, <2>3
<1>3. CASE round > 0
  <2>1. PICK P \in SUBSET Replicas :
            IsQuorum(P) /\ \A p \in P : Promise(round, p, a) \in granted
    BY <1>1, <1>3 DEF ElectionInv, Leaders
  <2>2. PICK Q \in SUBSET Replicas :
            IsQuorum(Q) /\ \A p \in Q : Promise(round, p, b) \in granted
    BY <1>1, <1>3 DEF ElectionInv, Leaders
  <2>3. PICK p \in P \cap Q : TRUE
    BY <2>1, <2>2, QuorumsIntersect
  <2>4. Promise(round, p, a) \in granted /\ Promise(round, p, b) \in granted
    BY <2>1, <2>2, <2>3
  <2> QED BY <2>4 DEF ElectionInv, GrantsUnique, Promise
<1> QED BY <1>1, <1>2, <1>3

LEMMA ElectionInit ==
  ASSUME Init
  PROVE  ElectionInv
<1>1. granted = {} /\ \A r \in Replicas : replica[r] = InitialState(r)
  BY DEF Init
<1>2. \A r \in Replicas : /\ InitialState(r).role = IF r = InitialLeader THEN "leader"
                                                    ELSE "follower"
                          /\ InitialState(r).current_round = 0
  BY Zenon DEF InitialState
<1>3. PromisesSent
  <2>1. \A s, d \in Replicas : InTransit(channel, s, d) = {}
    BY DEF Init, InTransit
  <2> QED BY <2>1 DEF PromisesSent
<1> QED BY <1>1, <1>2, <1>3
        DEF ElectionInv, GrantsUnique, GrantsRemembered, Candidates, Leaders

\* The state of the replicas after a step of replica r.
LEMMA AfterStep ==
  ASSUME TypeInv, NEW r \in Replicas, NEW new, replica' = [replica EXCEPT ![r] = new]
  PROVE  replica'[r] = new /\ \A q \in Replicas : q # r => replica'[q] = replica[q]
BY DEF TypeInv, TypeOK

\* A step that sends at most a refusal keeps the invariant if it is quiet.
LEMMA QuietKeepsElection ==
  ASSUME TypeInv, ElectionInv, NEW r \in Replicas, NEW new \in ReplicaState,
         Quiet(replica[r], new),
         replica' = [replica EXCEPT ![r] = new],
         \A x, y \in Replicas : \A m \in InTransit(channel', x, y) :
            m \in InTransit(channel, x, y) \/ m.type # "prepare" \/ ~m.promised,
         granted' = granted
  PROVE  ElectionInv'
<1>1. replica'[r] = new /\ \A q \in Replicas : q # r => replica'[q] = replica[q]
  BY AfterStep
<1>2. /\ replica[r].current_round \in Nat /\ new.current_round \in Nat
      /\ \A g \in granted : g.round \in Nat /\ g.server \in Replicas
  BY TypeFacts, RoundIsNatural, GrantFacts
<1>3. GrantsUnique'
  BY DEF ElectionInv, GrantsUnique
<1>4. GrantsRemembered'
  <2> SUFFICES ASSUME NEW g \in granted
               PROVE  /\ g.round <= replica'[g.server].current_round
                      /\ g.round = replica'[g.server].current_round
                            => replica'[g.server].promised_leader = g.leader
    BY DEF GrantsRemembered
  <2>1. /\ g.round <= replica[g.server].current_round
        /\ g.round = replica[g.server].current_round
              => replica[g.server].promised_leader = g.leader
    BY DEF ElectionInv, GrantsRemembered
  <2>2. CASE g.server = r
    BY <1>1, <1>2, <2>1, <2>2 DEF Quiet
  <2>3. CASE g.server # r
    BY <1>1, <1>2, <2>1, <2>3
  <2> QED BY <2>2, <2>3
<1>5. PromisesSent'
  BY DEF ElectionInv, PromisesSent
<1>6. Candidates'
  BY <1>1, <1>2 DEF ElectionInv, Candidates, Quiet
<1>7. Leaders'
  BY <1>1, <1>2 DEF ElectionInv, Leaders, Quiet
<1> QED BY <1>3, <1>4, <1>5, <1>6, <1>7 DEF ElectionInv

LEMMA ProbeRoundKeepsElection ==
  ASSUME TypeInv, ElectionInv, NEW r \in Replicas, NEW new \in ReplicaState,
         ProbeRoundEffect(r, new)
  PROVE  ElectionInv'
<1> DEFINE mine == Promise(new.current_round, r, r)
<1>1. /\ replica'[r] = new /\ \A q \in Replicas : q # r => replica'[q] = replica[q]
      /\ granted' = granted \cup {mine}
  <2>1. replica' = [replica EXCEPT ![r] = new] /\ granted' = granted \cup {mine}
    BY Zenon DEF ProbeRoundEffect, Promise
  <2> QED BY <2>1, AfterStep
<1>2. /\ replica[r].current_round \in Nat
      /\ new.current_round = replica[r].current_round + 1
      /\ new.current_round \in Nat /\ new.current_round > 0
      /\ \A g \in granted : g.round \in Nat /\ g.server \in Replicas
  BY TypeFacts, RoundIsNatural, GrantFacts DEF ProbeRoundEffect
<1>3. \A g \in granted : g.server = r => g.round < new.current_round
  BY <1>2 DEF ElectionInv, GrantsRemembered
<1>4. mine.round = new.current_round /\ mine.server = r /\ mine.leader = r
  BY DEF Promise
<1> HIDE DEF mine
<1>5. GrantsUnique'
  <2> SUFFICES ASSUME NEW g \in granted', NEW h \in granted',
                      g.round = h.round, g.server = h.server
               PROVE  g.leader = h.leader
    BY DEF GrantsUnique
  <2>1. CASE g \in granted /\ h \in granted
    BY <2>1 DEF ElectionInv, GrantsUnique
  <2>2. CASE g = mine \/ h = mine
    BY <1>1, <1>2, <1>3, <1>4, <2>2
  <2> QED BY <1>1, <2>1, <2>2
<1>6. GrantsRemembered'
  <2> SUFFICES ASSUME NEW g \in granted'
               PROVE  /\ g.round <= replica'[g.server].current_round
                      /\ g.round = replica'[g.server].current_round
                            => replica'[g.server].promised_leader = g.leader
    BY DEF GrantsRemembered
  <2>1. CASE g = mine
    BY <1>1, <1>2, <1>4, <2>1 DEF ProbeRoundEffect
  <2>2. CASE g \in granted /\ g.server = r
    BY <1>1, <1>2, <1>3, <2>2
  <2>3. CASE g \in granted /\ g.server # r
    BY <1>1, <1>2, <2>3 DEF ElectionInv, GrantsRemembered
  <2> QED BY <1>1, <2>1, <2>2, <2>3
<1>7. PromisesSent'
  BY <1>1 DEF ElectionInv, PromisesSent, ProbeRoundEffect
<1>8. Candidates'
  <2> SUFFICES ASSUME NEW q \in Replicas, replica'[q].role = "candidate"
               PROVE  /\ replica'[q].current_round > 0
                      /\ replica'[q].promised_leader = q
                      /\ \A p \in replica'[q].prepare_ok :
                            Promise(replica'[q].current_round, p, q) \in granted'
    BY DEF Candidates
  <2>1. CASE q = r
    BY <1>1, <1>2, <2>1 DEF ProbeRoundEffect, mine
  <2>2. CASE q # r
    BY <1>1, <2>2 DEF ElectionInv, Candidates
  <2> QED BY <2>1, <2>2
<1>9. Leaders'
  <2> SUFFICES ASSUME NEW q \in Replicas, replica'[q].role = "leader"
               PROVE  \/ replica'[q].current_round = 0 /\ q = InitialLeader
                      \/ /\ replica'[q].current_round > 0
                         /\ \E Q \in SUBSET Replicas : IsQuorum(Q) /\
                               \A p \in Q : Promise(replica'[q].current_round, p, q) \in granted'
    BY DEF Leaders
  <2>1. CASE q = r
    <3>1. IsQuorum({r})
      BY <1>1, <2>1 DEF ProbeRoundEffect
    <3>2. \A p \in {r} : Promise(replica'[q].current_round, p, q) \in granted'
      BY <1>1, <2>1 DEF mine
    <3> QED BY <1>1, <1>2, <2>1, <3>1, <3>2
  <2>2. CASE q # r
    BY <1>1, <2>2 DEF ElectionInv, Leaders
  <2> QED BY <2>1, <2>2
<1> QED BY <1>5, <1>6, <1>7, <1>8, <1>9 DEF ElectionInv

LEMMA ProbeKeepsElection ==
  ASSUME TypeInv, ElectionInv, NEW r \in Replicas, NEW new \in ReplicaState,
         NEW round \in Rounds, NEW leader \in Replicas,
         ProbeEffect(r, new, round, leader, TRUE)
  PROVE  ElectionInv'
<1> DEFINE mine == Promise(round, r, leader)
<1>1. /\ replica'[r] = new /\ \A q \in Replicas : q # r => replica'[q] = replica[q]
      /\ granted' = granted \cup {mine}
  BY AfterStep DEF ProbeEffect, Promise
<1>2. /\ replica[r].current_round \in Nat /\ round \in Nat
      /\ new.current_round = round /\ new.promised_leader = leader
      /\ \/ round > replica[r].current_round /\ new.role = "follower"
         \/ /\ round = replica[r].current_round
            /\ replica[r].promised_leader \in {None, leader}
            /\ new.role = replica[r].role
            /\ new.prepare_ok = replica[r].prepare_ok
  BY TypeFacts, RoundIsNatural DEF ProbeEffect
<1>3. \A g \in granted : g.round \in Nat /\ g.server \in Replicas /\ g.leader \in Replicas
  BY GrantFacts
\* An earlier promise of the same round went to the same candidate.
<1>4. \A g \in granted : g.server = r =>
          g.round <= round /\ (g.round = round => g.leader = leader)
  BY <1>2, <1>3, ReplicasAssumption DEF ElectionInv, GrantsRemembered
<1>5. mine.round = round /\ mine.server = r /\ mine.leader = leader
  BY DEF Promise
<1> HIDE DEF mine
<1>6. GrantsUnique'
  <2> SUFFICES ASSUME NEW g \in granted', NEW h \in granted',
                      g.round = h.round, g.server = h.server
               PROVE  g.leader = h.leader
    BY DEF GrantsUnique
  <2>1. CASE g \in granted /\ h \in granted
    BY <2>1 DEF ElectionInv, GrantsUnique
  <2>2. CASE g = mine \/ h = mine
    BY <1>1, <1>4, <1>5, <2>2
  <2> QED BY <1>1, <2>1, <2>2
<1>7. GrantsRemembered'
  <2> SUFFICES ASSUME NEW g \in granted'
               PROVE  /\ g.round <= replica'[g.server].current_round
                      /\ g.round = replica'[g.server].current_round
                            => replica'[g.server].promised_leader = g.leader
    BY DEF GrantsRemembered
  <2>1. CASE g = mine
    BY <1>1, <1>2, <1>5, <2>1
  <2>2. CASE g \in granted /\ g.server = r
    BY <1>1, <1>2, <1>4, <2>2
  <2>3. CASE g \in granted /\ g.server # r
    BY <1>1, <1>3, <2>3 DEF ElectionInv, GrantsRemembered
  <2> QED BY <1>1, <2>1, <2>2, <2>3
<1>8. PromisesSent'
  <2> SUFFICES ASSUME NEW s \in Replicas, NEW d \in Replicas,
                      NEW m \in InTransit(channel', s, d),
                      m.type = "prepare", m.promised
               PROVE  Promise(m.round, m.server, d) \in granted'
    BY DEF PromisesSent
  <2>1. CASE m \in InTransit(channel, s, d)
    BY <1>1, <2>1 DEF ElectionInv, PromisesSent
  <2>2. CASE d = leader /\ m.server = r /\ m.round = round
    BY <1>1, <2>2 DEF mine
  <2> QED BY <2>1, <2>2 DEF ProbeEffect
<1>9. Candidates'
  <2> SUFFICES ASSUME NEW q \in Replicas, replica'[q].role = "candidate"
               PROVE  /\ replica'[q].current_round > 0
                      /\ replica'[q].promised_leader = q
                      /\ \A p \in replica'[q].prepare_ok :
                            Promise(replica'[q].current_round, p, q) \in granted'
    BY DEF Candidates
  <2>1. CASE q = r
    <3>1. /\ replica[r].role = "candidate" /\ replica[r].current_round = round
          /\ replica[r].promised_leader \in {None, leader}
          /\ new.prepare_ok = replica[r].prepare_ok
      BY <1>1, <1>2, <2>1
    <3>2. /\ round > 0 /\ leader = r
          /\ \A p \in new.prepare_ok : Promise(round, p, r) \in granted
      BY <3>1, ReplicasAssumption DEF ElectionInv, Candidates
    <3> QED BY <1>1, <1>2, <2>1, <3>2
  <2>2. CASE q # r
    BY <1>1, <2>2 DEF ElectionInv, Candidates
  <2> QED BY <2>1, <2>2
<1>10. Leaders'
  <2> SUFFICES ASSUME NEW q \in Replicas, replica'[q].role = "leader"
               PROVE  \/ replica'[q].current_round = 0 /\ q = InitialLeader
                      \/ /\ replica'[q].current_round > 0
                         /\ \E Q \in SUBSET Replicas : IsQuorum(Q) /\
                               \A p \in Q : Promise(replica'[q].current_round, p, q) \in granted'
    BY DEF Leaders
  <2>1. replica[q].role = "leader" /\ replica'[q].current_round = replica[q].current_round
    BY <1>1, <1>2
  <2> QED BY <1>1, <2>1 DEF ElectionInv, Leaders
<1> QED BY <1>6, <1>7, <1>8, <1>9, <1>10 DEF ElectionInv

LEMMA PrepareKeepsElection ==
  ASSUME TypeInv, ElectionInv, NEW r \in Replicas, NEW s \in Replicas,
         NEW m \in PrepareMessage, NEW new \in ReplicaState,
         PrepareEffect(s, r, m, new)
  PROVE  ElectionInv'
<1> DEFINE ok == replica[r].prepare_ok \cup {m.server}
<1>1. /\ replica'[r] = new /\ \A q \in Replicas : q # r => replica'[q] = replica[q]
      /\ granted' = granted
  BY AfterStep DEF PrepareEffect
<1>2. /\ replica[r].role = "candidate"
      /\ new.current_round = replica[r].current_round
      /\ \/ /\ new.role = "candidate"
            /\ new.promised_leader = replica[r].promised_leader
            /\ new.prepare_ok = ok
         \/ new.role = "leader" /\ new.promised_leader = r /\ IsQuorum(ok)
  BY DEF PrepareEffect
<1>3. replica[r].promised_leader = r /\ replica[r].current_round > 0
  BY <1>2 DEF ElectionInv, Candidates
<1>4. ok \in SUBSET Replicas
  BY TypeFacts DEF ReplicaState, PrepareMessage
<1>5. \A p \in ok : Promise(replica[r].current_round, p, r) \in granted
  BY <1>2 DEF ElectionInv, Candidates, PromisesSent, PrepareEffect
<1> HIDE DEF ok
<1>6. GrantsUnique'
  BY <1>1 DEF ElectionInv, GrantsUnique
<1>7. GrantsRemembered'
  <2> SUFFICES ASSUME NEW g \in granted
               PROVE  /\ g.round <= replica'[g.server].current_round
                      /\ g.round = replica'[g.server].current_round
                            => replica'[g.server].promised_leader = g.leader
    BY <1>1 DEF GrantsRemembered
  <2>1. g.server \in Replicas
    BY GrantFacts
  <2>2. /\ replica'[g.server].current_round = replica[g.server].current_round
        /\ replica'[g.server].promised_leader = replica[g.server].promised_leader
    BY <1>1, <1>2, <1>3, <2>1
  <2> QED BY <2>2 DEF ElectionInv, GrantsRemembered
<1>8. PromisesSent'
  BY <1>1 DEF ElectionInv, PromisesSent, PrepareEffect
<1>9. Candidates'
  <2> SUFFICES ASSUME NEW q \in Replicas, replica'[q].role = "candidate"
               PROVE  /\ replica'[q].current_round > 0
                      /\ replica'[q].promised_leader = q
                      /\ \A p \in replica'[q].prepare_ok :
                            Promise(replica'[q].current_round, p, q) \in granted
    BY <1>1 DEF Candidates
  <2>1. CASE q = r
    BY <1>1, <1>2, <1>3, <1>5, <2>1
  <2>2. CASE q # r
    BY <1>1, <2>2 DEF ElectionInv, Candidates
  <2> QED BY <2>1, <2>2
<1>10. Leaders'
  <2> SUFFICES ASSUME NEW q \in Replicas, replica'[q].role = "leader"
               PROVE  \/ replica'[q].current_round = 0 /\ q = InitialLeader
                      \/ /\ replica'[q].current_round > 0
                         /\ \E Q \in SUBSET Replicas : IsQuorum(Q) /\
                               \A p \in Q : Promise(replica'[q].current_round, p, q) \in granted
    BY <1>1 DEF Leaders
  <2>1. CASE q = r
    BY <1>1, <1>2, <1>3, <1>4, <1>5, <2>1
  <2>2. CASE q # r
    BY <1>1, <2>2 DEF ElectionInv, Leaders
  <2> QED BY <2>1, <2>2
<1> QED BY <1>6, <1>7, <1>8, <1>9, <1>10 DEF ElectionInv

LEMMA ElectionStep ==
  ASSUME TypeInv, ElectionInv, [Next]_vars
  PROVE  ElectionInv'
<1>1. CASE UNCHANGED vars
  BY <1>1 DEF ElectionInv, GrantsUnique, GrantsRemembered, PromisesSent,
              Candidates, Leaders, InTransit, vars
<1>2. CASE Next
  <2>1. PICK r \in Replicas :
            \/ QuietStep(r)
            \/ \E new \in ReplicaState : ProbeRoundEffect(r, new)
            \/ \E new \in ReplicaState, round \in Rounds, leader \in Replicas,
                  promise \in BOOLEAN : ProbeEffect(r, new, round, leader, promise)
            \/ \E s \in Replicas, m \in PrepareMessage, new \in ReplicaState :
                  PrepareEffect(s, r, m, new)
    BY <1>2, StepKinds
  <2>2. CASE QuietStep(r)
    BY <2>2, QuietKeepsElection DEF QuietStep
  <2>3. ASSUME NEW new \in ReplicaState, ProbeRoundEffect(r, new)
        PROVE  ElectionInv'
    BY <2>3, ProbeRoundKeepsElection
  <2>4. ASSUME NEW new \in ReplicaState, NEW round \in Rounds, NEW leader \in Replicas,
               NEW promise \in BOOLEAN, ProbeEffect(r, new, round, leader, promise)
        PROVE  ElectionInv'
    <3>1. CASE promise = TRUE
      BY <2>4, <3>1, ProbeKeepsElection
    <3>2. CASE promise = FALSE
      BY <2>4, <3>2, QuietKeepsElection DEF ProbeEffect
    <3> QED BY <3>1, <3>2
  <2>5. ASSUME NEW s \in Replicas, NEW m \in PrepareMessage, NEW new \in ReplicaState,
               PrepareEffect(s, r, m, new)
        PROVE  ElectionInv'
    BY <2>5, PrepareKeepsElection
  <2> QED BY <2>1, <2>2, <2>3, <2>4, <2>5
<1> QED BY <1>1, <1>2

\* No round ever has two leaders, for any number of replicas, whatever messages are
\* lost or delayed: start_probe_round, handle_probe and handle_prepare together.
THEOREM ElectionSafe == Spec => []ElectionSafety
<1>1. Init => TypeInv /\ ElectionInv
  BY TypeInit, ElectionInit
<1>2. TypeInv /\ ElectionInv /\ [Next]_vars => TypeInv' /\ ElectionInv'
  BY TypeStep, ElectionStep
<1>3. TypeInv /\ ElectionInv => ElectionSafety
  BY ElectionInvImpliesSafety
<1> QED BY <1>1, <1>2, <1>3, PTL DEF Spec

-----------------------------------------------------------------------------
(* The log of a replica: it has no gaps, nothing is trimmed before it was  *)
(* applied, and no step takes back what a replica has committed.           *)

\* A log without gaps, with its four indices in order: LogContiguous between two
\* turns of a replica, and within a turn while commitment is ahead of execution.
Contiguous(st) ==
  /\ st.trim_through <= st.last_applied
  /\ st.last_applied <= st.commit_index
  /\ st.commit_index <= LastLogIndex(st)
  /\ \A k \in Slots : st.log[k] # Absent <=>
                      st.trim_through < k /\ k <= LastLogIndex(st)

\* What a helper does to a log without gaps.
Advances(old, new) ==
  new \in ReplicaState /\ Contiguous(new) /\ CommittedStepOK(old, new)

\* The fields of a state that Contiguous and CommittedStepOK are about.
SameLog(a, b) ==
  /\ a.current_round = b.current_round
  /\ a.log = b.log
  /\ a.next_slot = b.next_slot
  /\ a.commit_index = b.commit_index
  /\ a.last_applied = b.last_applied
  /\ a.trim_through = b.trim_through
  /\ a.response_cache = b.response_cache

LEMMA Indices ==
  ASSUME NEW st \in ReplicaState
  PROVE  /\ st.trim_through \in Nat /\ st.last_applied \in Nat
         /\ st.commit_index \in Nat /\ st.next_slot \in Nat \ {0}
         /\ st.current_round \in Nat
         /\ LastLogIndex(st) \in Nat /\ st.next_slot = LastLogIndex(st) + 1
         /\ st.commit_index <= MaxSlot /\ st.trim_through <= MaxSlot
         /\ LastLogIndex(st) <= MaxSlot
         /\ st.log \in Log
<1>1. /\ st.trim_through \in 0 .. MaxSlot /\ st.last_applied \in 0 .. MaxSlot
      /\ st.commit_index \in 0 .. MaxSlot /\ st.next_slot \in 1 .. MaxSlot + 1
      /\ st.current_round \in Rounds /\ st.log \in Log
  BY Zenon DEF ReplicaState
<1>2. LastLogIndex(st) = st.next_slot - 1
  BY DEF LastLogIndex
<1> QED BY <1>1, <1>2, BoundsAssumption DEF Rounds

LEMMA SlotIsNatural ==
  ASSUME NEW k \in Slots
  PROVE  k \in Nat \ {0} /\ k <= MaxSlot
BY BoundsAssumption DEF Slots

LEMMA SameLogAdvances ==
  ASSUME NEW old \in ReplicaState, NEW new \in ReplicaState, Contiguous(old),
         SameLog(new, old)
  PROVE  Advances(old, new)
<1>1. LastLogIndex(new) = LastLogIndex(old)
  BY DEF SameLog, LastLogIndex
<1>2. Contiguous(new)
  BY <1>1 DEF Contiguous, SameLog
<1>3. CommittedStepOK(old, new)
  BY Indices DEF CommittedStepOK, SameLog
<1> QED BY <1>2, <1>3 DEF Advances

\* What is final stays final over several helpers.
LEMMA AdvancesTransitive ==
  ASSUME NEW a \in ReplicaState, NEW b, NEW c, Advances(a, b), Advances(b, c)
  PROVE  Advances(a, c)
<1>1. b \in ReplicaState /\ c \in ReplicaState
  BY DEF Advances
<1>2. /\ c.current_round >= a.current_round /\ c.commit_index >= a.commit_index
      /\ c.trim_through >= a.trim_through
  BY <1>1, Indices DEF Advances, CommittedStepOK
<1>3. ASSUME NEW k \in Slots, k <= a.commit_index, k > c.trim_through
      PROVE  c.log[k] = a.log[k]
  <2>1. k <= b.commit_index /\ k > b.trim_through
    BY <1>1, <1>3, Indices, SlotIsNatural DEF Advances, CommittedStepOK
  <2> QED BY <1>3, <2>1 DEF Advances, CommittedStepOK
<1>4. \A s \in Serials : a.response_cache[s] # 0
                            => c.response_cache[s] = a.response_cache[s]
  BY DEF Advances, CommittedStepOK
<1> QED BY <1>2, <1>3, <1>4 DEF Advances, CommittedStepOK

-----------------------------------------------------------------------------
(* The helpers, on a log without gaps *)

\* A turn of a replica: nothing committed is lost, and execution is up to date.
Settles(old, new) ==
  Advances(old, new) /\ new.last_applied = new.commit_index

LEMMA BecomeFollowerSettles ==
  ASSUME NEW st \in ReplicaState, Contiguous(st), st.last_applied = st.commit_index,
         NEW round \in Rounds, NEW hint \in Replicas
  PROVE  /\ BecomeFollower(st, round, hint) \in ReplicaState
         /\ Settles(st, BecomeFollower(st, round, hint))
<1> DEFINE new == BecomeFollower(st, round, hint)
<1>1. new \in ReplicaState
  BY BecomeFollowerType
<1>2. /\ new.log = st.log /\ new.next_slot = st.next_slot
      /\ new.commit_index = st.commit_index /\ new.last_applied = st.last_applied
      /\ new.trim_through = st.trim_through /\ new.response_cache = st.response_cache
      /\ new.current_round = IF round > st.current_round THEN round
                             ELSE st.current_round
  BY Zenon DEF BecomeFollower, ReplicaState
<1> HIDE DEF new
<1>3. new.current_round >= st.current_round
  BY <1>2, Indices, BoundsAssumption DEF Rounds
<1>4. LastLogIndex(new) = LastLogIndex(st)
  BY <1>2 DEF LastLogIndex
<1>5. Contiguous(new)
  BY <1>2, <1>4 DEF Contiguous
<1>6. CommittedStepOK(st, new)
  BY <1>2, <1>3, Indices DEF CommittedStepOK
<1> QED BY <1>1, <1>2, <1>5, <1>6 DEF Settles, Advances, new

LEMMA RoleChangesAdvance ==
  ASSUME NEW st \in ReplicaState, Contiguous(st), NEW r \in Replicas, NEW peers
  PROVE  /\ Advances(st, BecomeLeader(r, st))
         /\ Advances(st, ClampNextIndex(st, peers))
<1>1. Advances(st, BecomeLeader(r, st))
  <2>1. SameLog(BecomeLeader(r, st), st)
    BY Zenon DEF SameLog, BecomeLeader, ReplicaState
  <2> QED BY <2>1, BecomeLeaderType, SameLogAdvances
<1>2. Advances(st, ClampNextIndex(st, peers))
  <2>1. SameLog(ClampNextIndex(st, peers), st)
    BY Zenon DEF SameLog, ClampNextIndex, ReplicaState
  <2> QED BY <2>1, ClampNextIndexType, SameLogAdvances
<1> QED BY <1>1, <1>2

\* trim_log_prefix leaves exactly the slots above the watermark.
LEMMA TrimLogPrefixLog ==
  ASSUME NEW st \in ReplicaState
  PROVE  LET new == TrimLogPrefix(st) IN
         /\ new.current_round = st.current_round
         /\ new.next_slot = st.next_slot
         /\ new.commit_index = st.commit_index
         /\ new.last_applied = st.last_applied
         /\ new.trim_through = st.trim_through
         /\ new.response_cache = st.response_cache
         /\ \A k \in Slots :
               new.log[k] = IF k <= st.trim_through THEN Absent ELSE st.log[k]
<1> DEFINE new == TrimLogPrefix(st)
           erased == {k \in Slots : k <= st.trim_through /\ st.log[k] # Absent}
<1>1. /\ new.current_round = st.current_round /\ new.next_slot = st.next_slot
      /\ new.commit_index = st.commit_index /\ new.last_applied = st.last_applied
      /\ new.trim_through = st.trim_through /\ new.response_cache = st.response_cache
      /\ new.log = [k \in Slots |-> IF k \in erased THEN Absent ELSE st.log[k]]
  BY Zenon DEF TrimLogPrefix, ReplicaState
<1> HIDE DEF new
<1>2. ASSUME NEW k \in Slots
      PROVE  new.log[k] = IF k <= st.trim_through THEN Absent ELSE st.log[k]
  BY <1>1
<1> QED BY <1>1, <1>2 DEF new

\* Raising the watermark to an applied slot.
LEMMA TrimAdvances ==
  ASSUME NEW st \in ReplicaState, Contiguous(st), NEW t \in 0 .. MaxSlot,
         st.trim_through <= t, t <= st.last_applied
  PROVE  /\ Advances(st, TrimLogPrefix([st EXCEPT !.trim_through = t]))
         /\ TrimLogPrefix([st EXCEPT !.trim_through = t]).commit_index = st.commit_index
         /\ TrimLogPrefix([st EXCEPT !.trim_through = t]).last_applied = st.last_applied
<1> DEFINE mid == [st EXCEPT !.trim_through = t]
           new == TrimLogPrefix(mid)
<1>1. /\ mid \in ReplicaState
      /\ mid.current_round = st.current_round /\ mid.next_slot = st.next_slot
      /\ mid.commit_index = st.commit_index /\ mid.last_applied = st.last_applied
      /\ mid.trim_through = t /\ mid.response_cache = st.response_cache
      /\ mid.log = st.log
  BY Zenon DEF ReplicaState
<1> HIDE DEF mid
<1>2. /\ new \in ReplicaState
      /\ new.current_round = st.current_round /\ new.next_slot = st.next_slot
      /\ new.commit_index = st.commit_index /\ new.last_applied = st.last_applied
      /\ new.trim_through = t /\ new.response_cache = st.response_cache
      /\ \A k \in Slots : new.log[k] = IF k <= t THEN Absent ELSE st.log[k]
  BY <1>1, TrimLogPrefixType, TrimLogPrefixLog
<1> HIDE DEF new
<1>3. LastLogIndex(new) = LastLogIndex(st)
  BY <1>2 DEF LastLogIndex
<1>4. Contiguous(new)
  BY <1>2, <1>3, Indices, SlotIsNatural DEF Contiguous
<1>5. CommittedStepOK(st, new)
  BY <1>2, Indices, SlotIsNatural DEF CommittedStepOK
<1> QED BY <1>2, <1>4, <1>5 DEF Advances, new, mid

\* apply_committed_entries catches up with the commit index and skips nothing.
LEMMA ApplyAdvances ==
  ASSUME NEW st \in ReplicaState, Contiguous(st)
  PROVE  /\ Advances(st, ApplyCommittedEntries(st))
         /\ ApplyCommittedEntries(st).last_applied = ApplyCommittedEntries(st).commit_index
<1> DEFINE slotsOf(s) == {k \in ToApply(st) : st.log[k].serial = s}
           cache == [s \in Serials |->
                        IF st.response_cache[s] = 0 /\ slotsOf(s) # {}
                        THEN Min(slotsOf(s)) ELSE st.response_cache[s]]
           new == ApplyCommittedEntries(st)
<1>1. new \in ReplicaState
  BY ApplyCommittedEntriesType
<1>2. /\ new.current_round = st.current_round /\ new.next_slot = st.next_slot
      /\ new.commit_index = st.commit_index
      /\ new.last_applied = IF st.commit_index > st.last_applied
                            THEN st.commit_index ELSE st.last_applied
      /\ new.trim_through = st.trim_through
      /\ new.response_cache = cache
      /\ new.log = [k \in Slots |->
                      IF k \in {j \in Slots : j <= st.trim_through /\ st.log[j] # Absent}
                      THEN Absent ELSE st.log[k]]
  BY Zenon DEF ApplyCommittedEntries, TrimLogPrefix, ReplicaState
<1> HIDE DEF new
<1>3. \A s \in Serials : st.response_cache[s] # 0 => cache[s] = st.response_cache[s]
  OBVIOUS
<1> HIDE DEF cache
<1>4. new.last_applied = st.commit_index
  BY <1>2, Indices DEF Contiguous
<1>5. \A k \in Slots : new.log[k] = st.log[k]
  BY <1>2, Indices, SlotIsNatural DEF Contiguous
<1>6. LastLogIndex(new) = LastLogIndex(st)
  BY <1>2 DEF LastLogIndex
<1>7. Contiguous(new)
  BY <1>2, <1>4, <1>5, <1>6, Indices DEF Contiguous
<1>8. CommittedStepOK(st, new)
  BY <1>2, <1>3, <1>5, Indices DEF CommittedStepOK
<1> QED BY <1>1, <1>2, <1>4, <1>7, <1>8 DEF Advances, new

\* A leader commits slots of its log only, and never fewer than before.
LEMMA UpdateCommitAdvances ==
  ASSUME NEW st \in ReplicaState, Contiguous(st), NEW r \in Replicas
  PROVE  Advances(st, UpdateCommitIndex(r, st))
<1> DEFINE decided == {k \in Slots :
                          /\ st.commit_index < k /\ k <= LastLogIndex(st)
                          /\ RoundAt(st, k) = st.current_round
                          /\ IsQuorum(Replicated(r, st, k))}
           new == UpdateCommitIndex(r, st)
<1>1. new \in ReplicaState
  BY UpdateCommitIndexType
<1>2. decided # {} => /\ Max(decided) \in Slots
                      /\ st.commit_index < Max(decided)
                      /\ Max(decided) <= LastLogIndex(st)
  <2>1. decided # {} => Max(decided) \in decided
    BY MinMaxOfSlots, Zenon
  <2> QED BY <2>1, Zenon
<1>3. /\ new.current_round = st.current_round /\ new.next_slot = st.next_slot
      /\ new.last_applied = st.last_applied /\ new.trim_through = st.trim_through
      /\ new.response_cache = st.response_cache /\ new.log = st.log
      /\ \/ new.commit_index = st.commit_index
         \/ decided # {} /\ new.commit_index = Max(decided)
  BY Zenon DEF UpdateCommitIndex, ReplicaState
<1> HIDE DEF decided, new
<1>4. new.commit_index >= st.commit_index /\ new.commit_index <= LastLogIndex(st)
  BY <1>1, <1>2, <1>3, Indices, SlotIsNatural DEF Contiguous
<1>5. LastLogIndex(new) = LastLogIndex(st)
  BY <1>3 DEF LastLogIndex
<1>6. Contiguous(new)
  BY <1>1, <1>3, <1>4, <1>5, Indices DEF Contiguous
<1>7. CommittedStepOK(st, new)
  BY <1>3, <1>4, Indices DEF CommittedStepOK
<1> QED BY <1>1, <1>6, <1>7 DEF Advances, new

\* update_trim_watermark trims applied slots only.
LEMMA UpdateTrimAdvances ==
  ASSUME NEW st \in ReplicaState, Contiguous(st), NEW r \in Replicas,
         st.last_applied = st.commit_index
  PROVE  /\ Advances(st, UpdateTrimWatermark(r, st))
         /\ UpdateTrimWatermark(r, st).last_applied = UpdateTrimWatermark(r, st).commit_index
<1> DEFINE lows == {st.match_index[s] : s \in Replicas} \cup {st.commit_index}
           target == IF Min(lows) > TrimRetention THEN Min(lows) - TrimRetention ELSE 0
           trimmed == TrimLogPrefix([st EXCEPT !.trim_through = target])
<1>1. lows \in SUBSET (0 .. MaxSlot) /\ lows # {} /\ st.commit_index \in lows
  BY DEF ReplicaState
<1> HIDE DEF lows
<1>2. Min(lows) \in 0 .. MaxSlot /\ Min(lows) <= st.commit_index
  BY <1>1, MinMaxOfIndices, BoundsAssumption
<1>3. target \in 0 .. MaxSlot /\ target <= st.last_applied
  BY <1>2, Indices, BoundsAssumption
<1> HIDE DEF target
<1>4. st.trim_through < target =>
         /\ Advances(st, trimmed)
         /\ trimmed.last_applied = trimmed.commit_index
  <2> HIDE DEF trimmed
  <2> QED BY <1>3, TrimAdvances, Indices DEF trimmed
<1> HIDE DEF trimmed
<1>5. Advances(st, st)
  BY SameLogAdvances DEF SameLog
<1>6. UpdateTrimWatermark(r, st) =
         IF st.role = "leader" /\ target > st.trim_through THEN trimmed ELSE st
  BY Zenon DEF UpdateTrimWatermark, trimmed, target, lows
<1>7. st.trim_through \in Nat /\ target \in Nat
  BY <1>3, Indices, BoundsAssumption
<1> QED BY <1>4, <1>5, <1>6, <1>7

-----------------------------------------------------------------------------
(* The follower's helpers *)

\* The entries of a propose_message follow its prev_log_index without gaps.
From(p, entries) ==
  \A k \in Slots : entries[k] # Absent =>
      k > p /\ \A j \in Slots : p < j /\ j <= k => entries[j] # Absent

\* A helper that leaves commitment and execution where they were.
Keeps(old, new) ==
  /\ Advances(old, new)
  /\ new.commit_index = old.commit_index
  /\ new.last_applied = old.last_applied
  /\ new.trim_through = old.trim_through

\* prefix_matches accepts only a prefix that ends inside the log.
LEMMA PrefixInside ==
  ASSUME NEW st \in ReplicaState, Contiguous(st), NEW p \in 0 .. MaxSlot,
         NEW round, PrefixMatches(st, p, round)
  PROVE  p \in Nat /\ st.trim_through <= p /\ p <= LastLogIndex(st)
<1>1. p \in Nat /\ (p # 0 => p \in Slots)
  BY BoundsAssumption DEF Slots
<1> QED BY <1>1, Indices DEF PrefixMatches, Contiguous

\* Storing what is missing from entries that start inside the log.
LEMMA StoreKeeps ==
  ASSUME NEW st \in ReplicaState, Contiguous(st), NEW entries \in Log,
         NEW p \in Nat, From(p, entries),
         st.trim_through <= p, p <= LastLogIndex(st)
  PROVE  Keeps(st, StoreMissing(st, entries))
<1> DEFINE missing == {k \in Slots : /\ k > st.trim_through
                                     /\ entries[k] # Absent /\ st.log[k] = Absent}
           ends == {st.next_slot} \cup {k + 1 : k \in missing}
           new == StoreMissing(st, entries)
<1>1. new \in ReplicaState
  BY StoreMissingType
<1>2. /\ new.current_round = st.current_round
      /\ new.commit_index = st.commit_index /\ new.last_applied = st.last_applied
      /\ new.trim_through = st.trim_through
      /\ new.response_cache = st.response_cache
      /\ new.log = [k \in Slots |-> IF k \in missing THEN entries[k] ELSE st.log[k]]
      /\ new.next_slot = Max(ends)
  BY Zenon DEF StoreMissing, ReplicaState
<1> HIDE DEF new
<1>3. \A k \in missing : /\ k \in Slots /\ k > LastLogIndex(st)
                         /\ entries[k] # Absent
  BY Indices, SlotIsNatural DEF Contiguous
<1>4. ends \in SUBSET (0 .. MaxSlot + 1) /\ ends # {} /\ st.next_slot \in ends
  BY <1>3, BoundsAssumption DEF ReplicaState, Slots
<1>5. Max(ends) \in ends /\ \A y \in ends : Max(ends) >= y
  <2> HIDE DEF ends
  <2> QED BY <1>4, MinMaxOfIndices, BoundsAssumption
<1>6. LastLogIndex(new) = Max(ends) - 1 /\ LastLogIndex(new) \in Nat
      /\ LastLogIndex(new) >= LastLogIndex(st)
      /\ new.next_slot \in Nat /\ new.next_slot = LastLogIndex(new) + 1
  <2> HIDE DEF ends
  <2>1. Max(ends) >= st.next_slot
    BY <1>4, <1>5
  <2>2. new.next_slot = Max(ends) /\ new.next_slot \in Nat \ {0} /\ st.next_slot \in Nat \ {0}
    BY <1>1, <1>2, Indices
  <2> QED BY <2>1, <2>2 DEF LastLogIndex
<1>7. \A k \in missing : k <= LastLogIndex(new)
  <2>1. ASSUME NEW k \in missing PROVE k <= LastLogIndex(new)
    <3>1. k \in Nat /\ k + 1 \in ends
      BY <1>3, SlotIsNatural
    <3> HIDE DEF ends, missing
    <3>2. Max(ends) >= k + 1
      BY <1>5, <3>1
    <3> QED BY <1>2, <1>6, <3>1, <3>2
  <2> QED BY <2>1
<1>8. LastLogIndex(new) = LastLogIndex(st) \/ LastLogIndex(new) \in missing
  <2>1. CASE Max(ends) = st.next_slot
    BY <1>6, <2>1 DEF LastLogIndex
  <2>2. CASE Max(ends) # st.next_slot
    <3>1. PICK k \in missing : Max(ends) = k + 1
      BY <1>5, <2>2
    <3>2. k \in Nat
      BY <1>3, SlotIsNatural
    <3> HIDE DEF ends, missing
    <3>3. LastLogIndex(new) = k
      BY <1>6, <3>1, <3>2
    <3> QED BY <3>1, <3>3
  <2> QED BY <2>1, <2>2
<1> HIDE DEF ends
<1>9. ASSUME NEW k \in Slots
      PROVE  new.log[k] # Absent <=> st.trim_through < k /\ k <= LastLogIndex(new)
  <2>1. CASE k <= LastLogIndex(st)
    <3>1. k \notin missing
      BY <1>3, <2>1, Indices, SlotIsNatural
    <3>2. new.log[k] = st.log[k]
      BY <1>2, <3>1
    <3> QED BY <1>6, <2>1, <3>2, Indices, SlotIsNatural DEF Contiguous
  <2>2. CASE k > LastLogIndex(st) /\ k <= LastLogIndex(new)
    <3>1. LastLogIndex(new) \in missing
      BY <1>6, <1>8, <2>2, Indices, SlotIsNatural
    <3>2. LastLogIndex(new) \in Slots /\ entries[LastLogIndex(new)] # Absent
      BY <1>3, <3>1
    <3>3. p < k /\ k > st.trim_through
      BY <2>2, Indices, SlotIsNatural
    <3>4. entries[k] # Absent
      BY <2>2, <3>2, <3>3 DEF From
    <3>5. st.log[k] = Absent
      BY <2>2, Indices, SlotIsNatural DEF Contiguous
    <3>6. new.log[k] = entries[k]
      BY <1>2, <3>3, <3>4, <3>5
    <3> QED BY <2>2, <3>3, <3>4, <3>6
  <2>3. CASE k > LastLogIndex(new)
    <3>1. k \notin missing
      <4> HIDE DEF missing
      <4> QED BY <1>6, <1>7, <2>3, SlotIsNatural
    <3>2. new.log[k] = st.log[k] /\ k > LastLogIndex(st)
      BY <1>2, <1>6, <2>3, <3>1, Indices, SlotIsNatural
    <3> QED BY <1>6, <2>3, <3>2, Indices, SlotIsNatural DEF Contiguous
  <2> QED BY <1>6, <2>1, <2>2, <2>3, Indices, SlotIsNatural
<1>10. Contiguous(new)
  BY <1>2, <1>6, <1>9, Indices DEF Contiguous
<1>11. ASSUME NEW k \in Slots, k <= st.commit_index
       PROVE  new.log[k] = st.log[k]
  <2>1. k \notin missing
    BY <1>3, <1>11, Indices, SlotIsNatural DEF Contiguous
  <2> QED BY <1>2, <2>1
<1>12. CommittedStepOK(st, new)
  BY <1>2, <1>11, Indices DEF CommittedStepOK
<1> QED BY <1>1, <1>2, <1>10, <1>12 DEF Keeps, Advances, new

\* Erasing a suffix that starts above the commit index.
LEMMA TruncateKeeps ==
  ASSUME NEW st \in ReplicaState, Contiguous(st), NEW slot \in Slots,
         st.commit_index < slot, slot <= LastLogIndex(st)
  PROVE  Keeps(st, Truncate(st, slot)) /\ LastLogIndex(Truncate(st, slot)) = slot - 1
<1> DEFINE new == Truncate(st, slot)
<1>1. new \in ReplicaState
  BY TruncateType
<1>2. /\ new.current_round = st.current_round
      /\ new.commit_index = st.commit_index /\ new.last_applied = st.last_applied
      /\ new.trim_through = st.trim_through
      /\ new.response_cache = st.response_cache
      /\ new.log = [k \in Slots |-> IF k < slot THEN st.log[k] ELSE Absent]
      /\ new.next_slot = slot
  BY Zenon DEF Truncate, ReplicaState
<1> HIDE DEF new
<1>3. LastLogIndex(new) = slot - 1
  BY <1>2 DEF LastLogIndex
<1>4. \A k \in Slots : new.log[k] = IF k < slot THEN st.log[k] ELSE Absent
  BY <1>2
<1>5. Contiguous(new)
  BY <1>2, <1>3, <1>4, Indices, SlotIsNatural DEF Contiguous
<1>6. CommittedStepOK(st, new)
  BY <1>2, <1>4, Indices, SlotIsNatural DEF CommittedStepOK
<1> QED BY <1>1, <1>2, <1>3, <1>5, <1>6 DEF Keeps, Advances, new

LEMMA KeepsTransitive ==
  ASSUME NEW a \in ReplicaState, NEW b, NEW c, Keeps(a, b), Keeps(b, c)
  PROVE  Keeps(a, c)
BY AdvancesTransitive DEF Keeps

\* The entry loop of handle_propose, when no committed slot is in conflict ...
LEMMA AppendEntriesKeeps ==
  ASSUME NEW st \in ReplicaState, Contiguous(st), NEW entries \in Log,
         NEW p \in Nat, From(p, entries),
         st.trim_through <= p, p <= LastLogIndex(st),
         ~(Conflicts(st, entries) # {} /\ st.commit_index >= Min(Conflicts(st, entries)))
  PROVE  Keeps(st, AppendEntries(st, entries))
<1> DEFINE conflicts == Conflicts(st, entries)
           c == Min(conflicts)
           cut == Truncate(st, c)
<1>1. CASE conflicts = {}
  <2>1. AppendEntries(st, entries) = StoreMissing(st, entries)
    BY <1>1, Zenon DEF AppendEntries
  <2> QED BY <2>1, StoreKeeps
<1>2. CASE conflicts # {}
  <2>1. conflicts \in SUBSET Slots
    BY DEF Conflicts
  <2>2. c \in Slots /\ c \in conflicts
    <3> HIDE DEF conflicts
    <3> QED BY <1>2, <2>1, MinMaxOfSlots
  <2>3. st.log[c] # Absent /\ entries[c] # Absent
    <3> HIDE DEF c
    <3> QED BY <2>2 DEF Conflicts
  <2> HIDE DEF conflicts, c
  <2>4. st.commit_index < c
    BY <1>2, <2>2, Indices, SlotIsNatural DEF conflicts, c
  <2>5. c <= LastLogIndex(st) /\ p < c
    BY <2>2, <2>3 DEF Contiguous, From
  <2>6. Keeps(st, cut) /\ LastLogIndex(cut) = c - 1
    BY <2>2, <2>4, <2>5, TruncateKeeps
  <2>7. cut \in ReplicaState /\ Contiguous(cut) /\ cut.trim_through = st.trim_through
    BY <2>6 DEF Keeps, Advances
  <2>8. p <= LastLogIndex(cut)
    BY <2>2, <2>5, <2>6, SlotIsNatural
  <2>9. AppendEntries(st, entries) = StoreMissing(cut, entries)
    BY <1>2, Zenon DEF AppendEntries, conflicts, c
  <2> HIDE DEF cut
  <2>10. Keeps(cut, StoreMissing(cut, entries))
    BY <2>7, <2>8, StoreKeeps
  <2> QED BY <2>6, <2>9, <2>10, KeepsTransitive
<1> QED BY <1>1, <1>2

\* ... and when it stops at one.
LEMMA StoreUpToKeeps ==
  ASSUME NEW st \in ReplicaState, Contiguous(st), NEW entries \in Log,
         NEW p \in Nat, From(p, entries),
         st.trim_through <= p, p <= LastLogIndex(st), NEW slot \in Slots
  PROVE  Keeps(st, StoreUpTo(st, entries, slot))
<1> DEFINE part == [k \in Slots |-> IF k < slot THEN entries[k] ELSE Absent]
<1>1. part \in Log
  BY DEF Log
<1>2. From(p, part)
  BY SlotIsNatural DEF From
<1>3. StoreUpTo(st, entries, slot) = StoreMissing(st, part)
  BY Zenon DEF StoreUpTo
<1> HIDE DEF part
<1> QED BY <1>1, <1>2, <1>3, StoreKeeps

\* A follower commits no further than its log, and never less than before.
LEMMA FollowerCommitAdvances ==
  ASSUME NEW st \in ReplicaState, Contiguous(st), NEW m \in ProposeMessage
  PROVE  Advances(st, FollowerCommit(st, m))
<1> DEFINE low == Min({m.decide_through, LastLogIndex(st)})
           new == FollowerCommit(st, m)
<1>1. new \in ReplicaState
  BY FollowerCommitType
<1>2. /\ new.current_round = st.current_round /\ new.next_slot = st.next_slot
      /\ new.last_applied = st.last_applied /\ new.trim_through = st.trim_through
      /\ new.response_cache = st.response_cache /\ new.log = st.log
      /\ new.commit_index = IF m.decide_through > st.commit_index THEN low
                            ELSE st.commit_index
  BY Zenon DEF FollowerCommit, ReplicaState
<1> HIDE DEF new
<1>3. {m.decide_through, LastLogIndex(st)} \in SUBSET (0 .. MaxSlot)
  BY LastLogIndexType DEF ProposeMessage
<1>4. low \in {m.decide_through, LastLogIndex(st)} /\ low <= LastLogIndex(st)
  BY <1>3, MinMaxOfIndices, BoundsAssumption
<1>5. m.decide_through \in Nat
  BY BoundsAssumption DEF ProposeMessage
<1> HIDE DEF low
<1>6. new.commit_index >= st.commit_index /\ new.commit_index <= LastLogIndex(st)
  BY <1>2, <1>4, <1>5, Indices DEF Contiguous
<1>7. LastLogIndex(new) = LastLogIndex(st)
  BY <1>2 DEF LastLogIndex
<1>8. Contiguous(new)
  BY <1>1, <1>2, <1>6, <1>7, Indices DEF Contiguous
<1>9. CommittedStepOK(st, new)
  BY <1>2, <1>6, Indices DEF CommittedStepOK
<1> QED BY <1>1, <1>8, <1>9 DEF Advances, new

\* A follower trims what it has applied.
LEMMA FollowerTrimSettles ==
  ASSUME NEW st \in ReplicaState, Contiguous(st), NEW m \in ProposeMessage,
         st.last_applied = st.commit_index
  PROVE  Settles(st, FollowerTrim(st, m))
<1> DEFINE t == Min({m.trim_through, st.last_applied})
           trimmed == TrimLogPrefix([st EXCEPT !.trim_through = t])
<1>1. {m.trim_through, st.last_applied} \in SUBSET (0 .. MaxSlot)
  BY DEF ProposeMessage, ReplicaState
<1>2. /\ t \in 0 .. MaxSlot /\ t \in {m.trim_through, st.last_applied}
      /\ t <= st.last_applied
  BY <1>1, MinMaxOfIndices, BoundsAssumption
<1>3. m.trim_through \in Nat
  BY BoundsAssumption DEF ProposeMessage
<1> HIDE DEF t
<1>4. CASE m.trim_through > st.trim_through
  <2>1. st.trim_through <= t
    BY <1>2, <1>3, <1>4, Indices DEF Contiguous
  <2>2. Settles(st, trimmed)
    <3> HIDE DEF trimmed
    <3> QED BY <1>2, <2>1, TrimAdvances DEF Settles, trimmed
  <2> QED BY <1>4, <2>2, Zenon DEF FollowerTrim, t
<1>5. CASE ~(m.trim_through > st.trim_through)
  <2>1. Settles(st, st)
    BY SameLogAdvances DEF SameLog, Settles
  <2> QED BY <1>5, <2>1, Zenon DEF FollowerTrim
<1> QED BY <1>4, <1>5

LEMMA SettlesAfter ==
  ASSUME NEW a \in ReplicaState, NEW b, NEW c, Advances(a, b), Settles(b, c)
  PROVE  Settles(a, c)
BY AdvancesTransitive DEF Settles

\* handle_propose, whatever it answers.
LEMMA ProposeOutcomeSettles ==
  ASSUME NEW r \in Replicas, NEW old \in ReplicaState, Contiguous(old),
         old.last_applied = old.commit_index,
         NEW m \in ProposeMessage, From(m.prev_log_index, m.entries)
  PROVE  Settles(old, ProposeOutcome(r, old, m).state)
<1> DEFINE st == BecomeFollower(old, m.round, m.leader)
           conflicts == Conflicts(st, m.entries)
           kept == StoreUpTo(st, m.entries, Min(conflicts))
           appended == AppendEntries(st, m.entries)
           committed == FollowerCommit(appended, m)
           applied == ApplyCommittedEntries(committed)
           final == FollowerTrim(applied, m)
           stuck == conflicts # {} /\ st.commit_index >= Min(conflicts)
           out == ProposeOutcome(r, old, m).state
<1>1. \/ m.round < old.current_round /\ out = old
      \/ ~PrefixMatches(st, m.prev_log_index, m.prev_log_round) /\ out = st
      \/ /\ PrefixMatches(st, m.prev_log_index, m.prev_log_round)
         /\ stuck /\ out = kept
      \/ /\ PrefixMatches(st, m.prev_log_index, m.prev_log_round)
         /\ ~stuck /\ out = final
  BY Zenon DEF ProposeOutcome
<1>2. /\ m.round \in Rounds /\ m.leader \in Replicas /\ m.entries \in Log
      /\ m.prev_log_index \in 0 .. MaxSlot
  BY DEF ProposeMessage
<1>3. /\ Advances(old, st) /\ Settles(old, st)
      /\ st.last_applied = st.commit_index
  <2> HIDE DEF st
  <2> QED BY <1>2, BecomeFollowerSettles DEF st, Settles
<1>4. st \in ReplicaState /\ Contiguous(st)
  BY <1>3 DEF Advances
<1> HIDE DEF st
<1>5. PrefixMatches(st, m.prev_log_index, m.prev_log_round) =>
         /\ m.prev_log_index \in Nat
         /\ st.trim_through <= m.prev_log_index
         /\ m.prev_log_index <= LastLogIndex(st)
  BY <1>2, <1>4, PrefixInside
<1> HIDE DEF out
<1>6. CASE m.round < old.current_round /\ out = old
  BY <1>6, SameLogAdvances DEF SameLog, Settles, out
<1>7. CASE ~PrefixMatches(st, m.prev_log_index, m.prev_log_round) /\ out = st
  BY <1>3, <1>7 DEF out
<1>8. CASE /\ PrefixMatches(st, m.prev_log_index, m.prev_log_round)
           /\ stuck /\ out = kept
  <2>1. conflicts \in SUBSET Slots /\ conflicts # {}
    BY <1>8 DEF Conflicts
  <2> HIDE DEF conflicts
  <2>2. Min(conflicts) \in Slots
    BY <2>1, MinMaxOfSlots
  <2>3. Keeps(st, kept)
    BY <1>2, <1>4, <1>5, <1>8, <2>2, StoreUpToKeeps
  <2> HIDE DEF kept
  <2>4. Settles(st, kept)
    BY <1>3, <2>3 DEF Keeps, Settles
  <2> QED BY <1>3, <1>8, <2>4, SettlesAfter DEF out
<1>9. CASE /\ PrefixMatches(st, m.prev_log_index, m.prev_log_round)
           /\ ~stuck /\ out = final
  <2>1. Keeps(st, appended)
    BY <1>2, <1>4, <1>5, <1>9, AppendEntriesKeeps
  <2> HIDE DEF appended
  <2>2. Advances(old, appended) /\ appended \in ReplicaState /\ Contiguous(appended)
    BY <1>3, <2>1, AdvancesTransitive DEF Keeps, Advances
  <2>3. Advances(appended, committed)
    BY <2>2, FollowerCommitAdvances
  <2> HIDE DEF committed
  <2>4. Advances(old, committed) /\ committed \in ReplicaState /\ Contiguous(committed)
    BY <2>2, <2>3, AdvancesTransitive DEF Advances
  <2>5. Advances(committed, applied) /\ applied.last_applied = applied.commit_index
    BY <2>4, ApplyAdvances
  <2> HIDE DEF applied
  <2>6. Advances(old, applied) /\ applied \in ReplicaState /\ Contiguous(applied)
    BY <2>4, <2>5, AdvancesTransitive DEF Advances
  <2>7. Settles(applied, final)
    BY <2>5, <2>6, FollowerTrimSettles
  <2> HIDE DEF final
  <2> QED BY <1>9, <2>6, <2>7, SettlesAfter DEF out
<1> QED BY <1>1, <1>6, <1>7, <1>8, <1>9 DEF out

-----------------------------------------------------------------------------
(* The leader's helpers *)

\* The tail that handle_ack and a flush share: commit, apply, trim.
LEMMA LeaderTailSettles ==
  ASSUME NEW old \in ReplicaState, NEW st, Advances(old, st), NEW r \in Replicas
  PROVE  Settles(old, UpdateTrimWatermark(r, ApplyCommittedEntries(
                                                UpdateCommitIndex(r, st))))
<1> DEFINE decided == UpdateCommitIndex(r, st)
           applied == ApplyCommittedEntries(decided)
           final == UpdateTrimWatermark(r, applied)
<1>1. st \in ReplicaState /\ Contiguous(st)
  BY DEF Advances
<1>2. Advances(st, decided)
  BY <1>1, UpdateCommitAdvances
<1> HIDE DEF decided
<1>3. Advances(old, decided) /\ decided \in ReplicaState /\ Contiguous(decided)
  BY <1>1, <1>2, AdvancesTransitive DEF Advances
<1>4. Advances(decided, applied) /\ applied.last_applied = applied.commit_index
  BY <1>3, ApplyAdvances
<1> HIDE DEF applied
<1>5. Advances(old, applied) /\ applied \in ReplicaState /\ Contiguous(applied)
  BY <1>3, <1>4, AdvancesTransitive DEF Advances
<1>6. Settles(applied, final)
  BY <1>4, <1>5, UpdateTrimAdvances DEF Settles
<1> HIDE DEF final
<1>7. Settles(old, final)
  BY <1>5, <1>6, SettlesAfter
<1> QED BY <1>7 DEF final, applied, decided

LEMMA AckProgressSettles ==
  ASSUME NEW r \in Replicas, NEW st \in ReplicaState, Contiguous(st),
         NEW m \in AckMessage
  PROVE  Settles(st, AckProgress(r, st, m).state)
<1> DEFINE known == [st EXCEPT !.match_index[m.server] = Max({@, m.match_index}),
                               !.next_index[m.server] = Max({@, m.next_index})]
<1>1. /\ m.server \in Replicas /\ m.match_index \in 0 .. MaxSlot
      /\ m.next_index \in 1 .. MaxSlot + 1
  BY DEF AckMessage
<1>2. /\ st.match_index \in [Replicas -> 0 .. MaxSlot]
      /\ st.next_index \in [Replicas -> 1 .. MaxSlot + 1]
  BY DEF ReplicaState
<1>3. Max({st.match_index[m.server], m.match_index}) \in 0 .. MaxSlot
  <2>1. {st.match_index[m.server], m.match_index} \in SUBSET (0 .. MaxSlot)
    BY <1>1, <1>2
  <2> QED BY <2>1, MinMaxOfIndices, BoundsAssumption
<1>4. Max({st.next_index[m.server], m.next_index}) \in 1 .. MaxSlot + 1
  <2>1. /\ {st.next_index[m.server], m.next_index} \in SUBSET (0 .. MaxSlot + 1)
        /\ \A x \in {st.next_index[m.server], m.next_index} : x \in 1 .. MaxSlot + 1
    BY <1>1, <1>2, BoundsAssumption
  <2>2. Max({st.next_index[m.server], m.next_index})
           \in {st.next_index[m.server], m.next_index}
    <3>1. MaxSlot + 1 \in Nat
      BY BoundsAssumption
    <3> QED BY <2>1, <3>1, MinMaxOfIndices, Zenon
  <2> QED BY <2>1, <2>2, Zenon
<1>5. /\ [st.match_index EXCEPT ![m.server] = Max({@, m.match_index})]
             \in [Replicas -> 0 .. MaxSlot]
      /\ [st.next_index EXCEPT ![m.server] = Max({@, m.next_index})]
             \in [Replicas -> 1 .. MaxSlot + 1]
  BY <1>1, <1>2, <1>3, <1>4
<1>6. known \in ReplicaState
  BY <1>5, Zenon DEF ReplicaState
<1>7. SameLog(known, st)
  BY Zenon DEF SameLog, ReplicaState
<1>8. AckProgress(r, st, m).state =
         UpdateTrimWatermark(r, ApplyCommittedEntries(UpdateCommitIndex(r, known)))
  BY Zenon DEF AckProgress
<1> HIDE DEF known
<1>9. Advances(st, known)
  BY <1>6, <1>7, SameLogAdvances
<1> QED BY <1>8, <1>9, LeaderTailSettles

\* A flush appends its requests right behind the log.
LEMMA FlushSettles ==
  ASSUME NEW r \in Replicas, NEW st \in ReplicaState, Contiguous(st), QueueFits(st)
  PROVE  Settles(st, Flush(r, st).state)
<1> DEFINE queue == st.pending_client_requests
           first == st.next_slot
           taken == {k \in Slots : first <= k /\ k < first + Len(queue)}
           slotOf(s) == CHOOSE k \in taken : queue[k - first + 1] = s
           log == [k \in Slots |->
                      IF k \in taken THEN [round |-> st.current_round,
                                           serial |-> queue[k - first + 1]]
                      ELSE st.log[k]]
           clients == [s \in Serials |->
                          IF st.pending_clients[s] = 0
                             /\ \E i \in 1 .. Len(queue) : queue[i] = s
                          THEN slotOf(s) ELSE st.pending_clients[s]]
           appended == [st EXCEPT !.log = log,
                                  !.next_slot = @ + Len(queue),
                                  !.match_index[r] = first + Len(queue) - 1,
                                  !.next_index[r] = first + Len(queue),
                                  !.pending_clients = clients,
                                  !.pending_client_requests = <<>>]
           sent == ClampNextIndex(AppendQueue(r, st), Peers(r))
<1>1. /\ queue \in Seq(Serials) /\ Len(queue) \in Nat /\ first \in 1 .. MaxSlot + 1
      /\ first + Len(queue) <= MaxSlot + 1
  BY DEF ReplicaState, QueueFits
<1>2. \A k \in taken : /\ k - first + 1 \in 1 .. Len(queue)
                       /\ queue[k - first + 1] \in Serials
  <2> HIDE DEF queue, first
  <2> QED BY <1>1, BoundsAssumption DEF Slots
<1>3. \A k \in taken : [round |-> st.current_round, serial |-> queue[k - first + 1]]
                          # Absent
  <2>1. st.current_round \in Rounds
    BY DEF ReplicaState
  <2> HIDE DEF taken, queue, first
  <2> QED BY <1>2, <2>1, AbsentAssumption DEF LogEntry
<1>4. /\ appended.current_round = st.current_round
      /\ appended.next_slot = first + Len(queue)
      /\ appended.commit_index = st.commit_index
      /\ appended.last_applied = st.last_applied
      /\ appended.trim_through = st.trim_through
      /\ appended.response_cache = st.response_cache
      /\ appended.log = log
  <2> HIDE DEF log, clients
  <2> QED BY Zenon DEF ReplicaState
<1>5. AppendQueue(r, st) = appended
  BY Zenon DEF AppendQueue
<1>6. /\ AppendQueue(r, st) \in ReplicaState
      /\ Flush(r, st).state =
           UpdateTrimWatermark(r, ApplyCommittedEntries(UpdateCommitIndex(r, sent)))
  BY AppendQueueType, Zenon DEF Flush
<1>7. \A k \in Slots : /\ k \in taken => log[k] # Absent
                       /\ k \notin taken => log[k] = st.log[k]
  <2> HIDE DEF taken
  <2> QED BY <1>3
<1> HIDE DEF appended, log
<1>8. \A k \in Slots : k \in taken <=> first <= k /\ k < first + Len(queue)
  OBVIOUS
<1> HIDE DEF taken, queue
<1>9. LastLogIndex(appended) = LastLogIndex(st) + Len(queue)
      /\ LastLogIndex(appended) \in Nat
  BY <1>1, <1>4, Indices DEF LastLogIndex
<1>10. ASSUME NEW k \in Slots
       PROVE  log[k] # Absent <=> st.trim_through < k /\ k <= LastLogIndex(appended)
  <2>1. st.log[k] # Absent <=> st.trim_through < k /\ k <= LastLogIndex(st)
    BY DEF Contiguous
  <2>2. k \in taken <=> LastLogIndex(st) < k /\ k <= LastLogIndex(appended)
    BY <1>1, <1>8, <1>9, Indices, SlotIsNatural
  <2>3. st.trim_through <= LastLogIndex(st) /\ LastLogIndex(st) <= LastLogIndex(appended)
    BY <1>1, <1>9, Indices DEF Contiguous
  <2> QED BY <1>7, <1>9, <2>1, <2>2, <2>3, Indices, SlotIsNatural
<1>11. Contiguous(appended)
  BY <1>1, <1>4, <1>9, <1>10, Indices DEF Contiguous
<1>12. \A k \in Slots : k <= st.commit_index => log[k] = st.log[k]
  BY <1>1, <1>7, <1>8, Indices, SlotIsNatural DEF Contiguous
<1>13. CommittedStepOK(st, appended)
  BY <1>4, <1>12, Indices DEF CommittedStepOK
<1>14. Advances(st, appended)
  BY <1>5, <1>6, <1>11, <1>13 DEF Advances
<1>15. Advances(appended, sent)
  BY <1>5, <1>6, <1>11, RoleChangesAdvance
<1> HIDE DEF sent
<1>16. Advances(st, sent)
  BY <1>14, <1>15, AdvancesTransitive
<1> QED BY <1>6, <1>16, LeaderTailSettles

-----------------------------------------------------------------------------
(* The invariant and the steps *)

\* A propose_message carries a contiguous run of entries.
Shaped(m) == m.type = "propose" => From(m.prev_log_index, m.entries)

\* LogContiguous is not inductive: a follower's log stays free of gaps only if
\* the runs of entries on their way to it are.
LogInv ==
  /\ LogContiguous
  /\ \A x, y \in Replicas : \A m \in InTransit(channel, x, y) : Shaped(m)

\* What every action does to the logs.
LogStep(r) ==
  /\ \E new \in ReplicaState : /\ Settles(replica[r], new)
                               /\ replica' = [replica EXCEPT ![r] = new]
  /\ \A x, y \in Replicas : \A m \in InTransit(channel', x, y) :
        m \in InTransit(channel, x, y) \/ Shaped(m)

LEMMA LogFacts ==
  ASSUME TypeInv, LogInv, NEW r \in Replicas
  PROVE  /\ replica[r] \in ReplicaState /\ Contiguous(replica[r])
         /\ replica[r].last_applied = replica[r].commit_index
         /\ Settles(replica[r], replica[r])
         /\ replica = [replica EXCEPT ![r] = replica[r]]
<1>1. replica[r] \in ReplicaState /\ replica = [replica EXCEPT ![r] = replica[r]]
  BY TypeFacts
<1>2. Contiguous(replica[r]) /\ replica[r].last_applied = replica[r].commit_index
  BY <1>1, Indices DEF LogInv, LogContiguous, Contiguous
<1> QED BY <1>1, <1>2, SameLogAdvances DEF Settles, SameLog

\* send_propose_to sends a contiguous run.
LEMMA ProposeToShaped ==
  ASSUME NEW st \in ReplicaState, NEW r, NEW peer \in Replicas
  PROVE  Shaped(ProposeTo(r, st, peer))
<1> DEFINE next == st.next_index[peer]
           entries == [k \in Slots |->
                IF next <= k /\ k < next + AppendBatch
                   /\ \A j \in Slots : next <= j /\ j <= k => st.log[j] # Absent
                THEN st.log[k] ELSE Absent]
           m == ProposeTo(r, st, peer)
<1>1. next \in Nat \ {0}
  <2>1. st.next_index \in [Replicas -> 1 .. MaxSlot + 1]
    BY DEF ReplicaState
  <2> QED BY <2>1, BoundsAssumption
<1>2. m.prev_log_index = next - 1 /\ m.entries = entries
  BY Zenon DEF ProposeTo
<1> HIDE DEF next, m
<1>3. ASSUME NEW k \in Slots, entries[k] # Absent
      PROVE  /\ next <= k /\ k < next + AppendBatch
             /\ \A j \in Slots : next <= j /\ j <= k => st.log[j] # Absent
  BY <1>3
<1>4. ASSUME NEW k \in Slots, entries[k] # Absent,
             NEW j \in Slots, next - 1 < j, j <= k
      PROVE  entries[j] # Absent
  <2>1. next <= j /\ j < next + AppendBatch
    BY <1>1, <1>3, <1>4, SlotIsNatural, BoundsAssumption
  <2>2. \A i \in Slots : next <= i /\ i <= j => st.log[i] # Absent
    BY <1>1, <1>3, <1>4, SlotIsNatural
  <2>3. st.log[j] # Absent
    BY <2>1, <2>2, SlotIsNatural
  <2> QED BY <2>1, <2>2, <2>3
<1> HIDE DEF entries
<1>5. \A k \in Slots : entries[k] # Absent => k > next - 1
  BY <1>1, <1>3, SlotIsNatural
<1> QED BY <1>2, <1>4, <1>5 DEF Shaped, From, m

LEMMA TransmitShaped ==
  ASSUME NEW c \in Channels, NEW r \in Replicas, NEW st \in ReplicaState,
         NEW peers \in SUBSET Replicas, TransmitProposals(c, r, st, peers)
  PROVE  \A x, y \in Replicas : \A m \in InTransit(channel', x, y) :
            m \in InTransit(c, x, y) \/ Shaped(m)
<1> DEFINE out == [d \in Replicas |-> ProposeTo(r, st, d)]
<1>1. \A d \in Replicas : out[d] \in Message /\ Shaped(out[d])
  BY ProposeToType, ProposeToShaped DEF Message
<1>2. Transmit(c, r, out, peers)
  BY Zenon DEF TransmitProposals
<1> HIDE DEF out
<1> QED BY <1>1, <1>2, TransmitLemma

LEMMA HandleProposeLog ==
  ASSUME TypeInv, LogInv, NEW r \in Replicas, NEW s \in Replicas, HandlePropose(s, r)
  PROVE  LogStep(r)
<1> DEFINE m == Head(channel[s][r])
           old == replica[r]
           new == ProposeOutcome(r, old, m).state
           ack == ProposeOutcome(r, old, m).ack
           out == [d \in Replicas |-> ack]
<1>1. /\ channel[s][r] # <<>> /\ m.type = "propose"
      /\ replica' = [replica EXCEPT ![r] = new]
      /\ Transmit(Receive(s, r), r, out, {m.leader})
  BY Zenon DEF HandlePropose, Incoming
<1>2. /\ m \in ProposeMessage /\ Receive(s, r) \in Channels
      /\ m \in InTransit(channel, s, r)
      /\ \A x, y \in Replicas : InTransit(Receive(s, r), x, y) \subseteq InTransit(channel, x, y)
  BY <1>1, TypeFacts, ReceiveLemma, MessageKinds
<1>3. From(m.prev_log_index, m.entries)
  BY <1>1, <1>2 DEF LogInv, Shaped
<1>4. m.leader \in Replicas
  BY <1>2 DEF ProposeMessage
<1>5. /\ old \in ReplicaState /\ Contiguous(old)
      /\ old.last_applied = old.commit_index
  BY LogFacts
<1> HIDE DEF m, old
<1>6. Settles(old, new) /\ ack \in AckMessage /\ new \in ReplicaState
  BY <1>2, <1>3, <1>5, ProposeOutcomeSettles, ProposeOutcomeType
<1> HIDE DEF new
<1>7. ack \in Message /\ Shaped(ack)
  BY <1>6 DEF Message, AckMessage, Shaped
<1> HIDE DEF ack
<1>8. \A d \in {m.leader} : out[d] = ack
  BY <1>4
<1> HIDE DEF out
<1>9. \A x, y \in Replicas : \A n \in InTransit(channel', x, y) :
         n \in InTransit(Receive(s, r), x, y) \/ n = ack
  BY <1>1, <1>2, <1>4, <1>7, <1>8, TransmitLemma
<1> QED BY <1>1, <1>2, <1>6, <1>7, <1>9 DEF LogStep, old

\* A step that only takes a message, and may follow a later round.
LEMMA StepDownLog ==
  ASSUME TypeInv, LogInv, NEW r \in Replicas, NEW s \in Replicas,
         channel[s][r] # <<>>, NEW round \in Rounds,
         \/ replica' = replica
         \/ replica' = [replica EXCEPT ![r] =
                           BecomeFollower(replica[r], round, replica[r].leader_index)],
         channel' = Receive(s, r)
  PROVE  LogStep(r)
<1> DEFINE old == replica[r]
           st == BecomeFollower(old, round, old.leader_index)
<1>1. /\ old \in ReplicaState /\ Contiguous(old) /\ Settles(old, old)
      /\ old.last_applied = old.commit_index
      /\ old.leader_index \in Replicas
      /\ replica = [replica EXCEPT ![r] = old]
  BY LogFacts DEF ReplicaState
<1>2. st \in ReplicaState /\ Settles(old, st)
  <2> HIDE DEF old
  <2> QED BY <1>1, BecomeFollowerSettles
<1>3. \E new \in ReplicaState : /\ Settles(old, new)
                                /\ replica' = [replica EXCEPT ![r] = new]
  <2> HIDE DEF st
  <2> QED BY <1>1, <1>2 DEF st
<1> QED BY <1>3, TypeFacts, ReceiveLemma DEF LogStep

LEMMA HandleAckLog ==
  ASSUME TypeInv, LogInv, NEW r \in Replicas, NEW s \in Replicas, HandleAck(s, r)
  PROVE  LogStep(r)
<1> DEFINE m == Head(channel[s][r])
           old == replica[r]
           progress == AckProgress(r, old, m)
           caughtUp == progress.state.next_index[m.server] > LastLogIndex(progress.state)
           resend == ClampNextIndex(progress.state, {m.server})
           backedUp == [old EXCEPT !.next_index[m.server] = Fallback(old, m)]
           new == IF caughtUp THEN progress.state ELSE resend
           peers == IF caughtUp THEN {} ELSE {m.server}
<1>1. channel[s][r] # <<>> /\ m.type = "ack"
  BY Zenon DEF HandleAck, Incoming
<1>2. \/ /\ replica' = [replica EXCEPT ![r] =
                            BecomeFollower(old, m.round, old.leader_index)]
         /\ channel' = Receive(s, r)
      \/ channel' = Receive(s, r) /\ replica' = replica
      \/ /\ replica' = [replica EXCEPT ![r] = new]
         /\ TransmitProposals(Receive(s, r), r, resend, peers)
      \/ /\ replica' = [replica EXCEPT ![r] = backedUp]
         /\ TransmitProposals(Receive(s, r), r, backedUp, {m.server})
  BY Zenon DEF HandleAck
<1>3. /\ old \in ReplicaState /\ Contiguous(old)
      /\ old.last_applied = old.commit_index
  BY LogFacts
<1>4. /\ m \in AckMessage /\ Receive(s, r) \in Channels
      /\ \A x, y \in Replicas : InTransit(Receive(s, r), x, y) \subseteq InTransit(channel, x, y)
  BY <1>1, TypeFacts, ReceiveLemma, MessageKinds
<1>5. m.server \in Replicas /\ m.round \in Rounds
  BY <1>4 DEF AckMessage
<1>6. progress.state \in ReplicaState /\ Settles(old, progress.state)
  BY <1>3, <1>4, AckProgressType, AckProgressSettles
<1>7. resend \in ReplicaState /\ Settles(old, resend)
  <2> DEFINE ps == progress.state
  <2> HIDE DEF ps, progress
  <2>1. Contiguous(ps) /\ ps \in ReplicaState /\ ps.last_applied = ps.commit_index
    BY <1>6 DEF Settles, Advances, ps
  <2>2. SameLog(ClampNextIndex(ps, {m.server}), ps)
    BY <2>1, Zenon DEF SameLog, ClampNextIndex, ReplicaState
  <2>3. Advances(ps, ClampNextIndex(ps, {m.server}))
    BY <2>1, <2>2, SameLogAdvances, ClampNextIndexType
  <2>4. Settles(ps, ClampNextIndex(ps, {m.server}))
    BY <2>1, <2>2, <2>3 DEF Settles, SameLog
  <2>5. Advances(old, ps)
    BY <1>6 DEF Settles, ps
  <2>6. resend = ClampNextIndex(ps, {m.server})
    BY DEF ps
  <2> HIDE DEF resend, old
  <2> QED BY <1>3, <2>1, <2>4, <2>5, <2>6, SettlesAfter, ClampNextIndexType
<1>8. backedUp \in ReplicaState /\ Settles(old, backedUp)
  <2>1. [old.next_index EXCEPT ![m.server] = Fallback(old, m)]
           \in [Replicas -> 1 .. MaxSlot + 1]
    BY <1>3, <1>4, <1>5, FallbackType DEF ReplicaState
  <2>2. backedUp \in ReplicaState
    BY <1>3, <2>1, Zenon DEF ReplicaState
  <2>3. SameLog(backedUp, old)
    BY <1>3, Zenon DEF SameLog, ReplicaState
  <2> HIDE DEF backedUp, old
  <2> QED BY <1>3, <2>2, <2>3, SameLogAdvances DEF Settles, SameLog
<1>9. new \in ReplicaState /\ Settles(old, new)
  <2> HIDE DEF progress, old, resend, caughtUp
  <2> QED BY <1>6, <1>7
<1> HIDE DEF m, progress, caughtUp, resend, backedUp, new
<1>10. CASE \/ /\ replica' = [replica EXCEPT ![r] =
                                 BecomeFollower(old, m.round, old.leader_index)]
               /\ channel' = Receive(s, r)
            \/ channel' = Receive(s, r) /\ replica' = replica
  BY <1>1, <1>5, <1>10, StepDownLog
<1>11. CASE /\ replica' = [replica EXCEPT ![r] = new]
            /\ TransmitProposals(Receive(s, r), r, resend, peers)
  <2>1. peers \in SUBSET Replicas
    BY <1>5
  <2> HIDE DEF peers
  <2>2. \A x, y \in Replicas : \A n \in InTransit(channel', x, y) :
           n \in InTransit(Receive(s, r), x, y) \/ Shaped(n)
    BY <1>4, <1>7, <1>11, <2>1, TransmitShaped
  <2> QED BY <1>4, <1>9, <1>11, <2>2 DEF LogStep
<1>12. CASE /\ replica' = [replica EXCEPT ![r] = backedUp]
            /\ TransmitProposals(Receive(s, r), r, backedUp, {m.server})
  <2>1. \A x, y \in Replicas : \A n \in InTransit(channel', x, y) :
           n \in InTransit(Receive(s, r), x, y) \/ Shaped(n)
    BY <1>4, <1>5, <1>8, <1>12, TransmitShaped
  <2> QED BY <1>4, <1>8, <1>12, <2>1 DEF LogStep
<1> QED BY <1>2, <1>10, <1>11, <1>12

LEMMA FlushLog ==
  ASSUME TypeInv, NEW r \in Replicas, NEW st \in ReplicaState, QueueFits(st),
         Advances(replica[r], st),
         replica' = [replica EXCEPT ![r] = Flush(r, st).state],
         TransmitProposals(channel, r, Flush(r, st).sent, Peers(r))
  PROVE  LogStep(r)
<1> DEFINE f == Flush(r, st)
<1>1. f.sent \in ReplicaState /\ f.state \in ReplicaState
  BY FlushType
<1>2. Contiguous(st)
  BY DEF Advances
<1>3. Settles(st, f.state)
  BY <1>2, FlushSettles
<1>4. TransmitProposals(channel, r, f.sent, Peers(r))
      /\ replica' = [replica EXCEPT ![r] = f.state]
  OBVIOUS
<1> HIDE DEF f
<1>5. Settles(replica[r], f.state)
  BY <1>3, TypeFacts, SettlesAfter
<1>6. Peers(r) \in SUBSET Replicas
  BY DEF Peers
<1>7. \A x, y \in Replicas : \A n \in InTransit(channel', x, y) :
         n \in InTransit(channel, x, y) \/ Shaped(n)
  BY <1>1, <1>4, <1>6, TypeFacts, TransmitShaped
<1> QED BY <1>1, <1>4, <1>5, <1>7 DEF LogStep

LEMMA FlushPendingLog ==
  ASSUME TypeInv, LogInv, NEW r \in Replicas, FlushPendingClientRequests(r)
  PROVE  LogStep(r)
<1>1. /\ replica[r] \in ReplicaState /\ QueueFits(replica[r])
      /\ Advances(replica[r], replica[r])
  BY TypeFacts, LogFacts DEF Settles
<1>2. /\ replica' = [replica EXCEPT ![r] = Flush(r, replica[r]).state]
      /\ TransmitProposals(channel, r, Flush(r, replica[r]).sent, Peers(r))
  BY Zenon DEF FlushPendingClientRequests
<1> QED BY <1>1, <1>2, FlushLog

LEMMA HeartbeatLog ==
  ASSUME TypeInv, LogInv, NEW r \in Replicas, Heartbeat(r)
  PROVE  LogStep(r)
<1> DEFINE old == replica[r]
           st == ClampNextIndex(old, Peers(r))
<1>1. /\ old \in ReplicaState /\ Contiguous(old)
      /\ old.last_applied = old.commit_index
  BY LogFacts
<1>2. /\ replica' = [replica EXCEPT ![r] = st]
      /\ TransmitProposals(channel, r, st, Peers(r))
  BY Zenon DEF Heartbeat
<1> HIDE DEF old
<1>3. st \in ReplicaState /\ SameLog(st, old)
  <2>1. SameLog(st, old)
    BY <1>1, Zenon DEF SameLog, ClampNextIndex, ReplicaState
  <2> QED BY <1>1, <2>1, ClampNextIndexType
<1> HIDE DEF st
<1>4. Settles(old, st)
  BY <1>1, <1>3, SameLogAdvances DEF Settles, SameLog
<1>5. Peers(r) \in SUBSET Replicas
  BY DEF Peers
<1>6. \A x, y \in Replicas : \A n \in InTransit(channel', x, y) :
         n \in InTransit(channel, x, y) \/ Shaped(n)
  BY <1>2, <1>3, <1>5, TypeFacts, TransmitShaped
<1> QED BY <1>2, <1>3, <1>4, <1>6 DEF LogStep, old

LEMMA HandleClientRequestLog ==
  ASSUME TypeInv, LogInv, NEW r \in Replicas, NEW serial \in Serials,
         HandleClientRequest(r, serial)
  PROVE  LogStep(r)
<1> DEFINE old == replica[r]
           queued == [old EXCEPT
                         !.pending_client_serials = @ \cup {serial},
                         !.pending_client_requests = Append(@, serial)]
           full == BatchFull(queued)
           flushed == Flush(r, queued)
<1>1. /\ old \in ReplicaState /\ QueueFits(old) /\ Contiguous(old)
      /\ Settles(old, old) /\ old.last_applied = old.commit_index
      /\ replica = [replica EXCEPT ![r] = old]
  BY TypeFacts, LogFacts
<1>2. \/ replica' = replica /\ channel' = channel
      \/ /\ old.next_slot + Len(old.pending_client_requests) <= MaxSlot
         /\ replica' = [replica EXCEPT ![r] = IF full THEN flushed.state ELSE queued]
         /\ TransmitProposals(channel, r, flushed.sent, IF full THEN Peers(r) ELSE {})
  BY Zenon DEF HandleClientRequest
<1>3. CASE replica' = replica /\ channel' = channel
  BY <1>1, <1>3 DEF LogStep
<1>4. CASE /\ old.next_slot + Len(old.pending_client_requests) <= MaxSlot
           /\ replica' = [replica EXCEPT ![r] = IF full THEN flushed.state ELSE queued]
           /\ TransmitProposals(channel, r, flushed.sent, IF full THEN Peers(r) ELSE {})
  <2>1. /\ old.pending_client_requests \in Seq(Serials)
        /\ old.pending_client_serials \in SUBSET Serials
        /\ old.next_slot \in Nat
    <3> HIDE DEF old
    <3>1. /\ old.pending_client_requests \in Seq(Serials)
          /\ old.pending_client_serials \in SUBSET Serials
      BY <1>1, Zenon DEF ReplicaState
    <3> QED BY <1>1, <3>1, Indices
  <2>2. /\ Append(old.pending_client_requests, serial) \in Seq(Serials)
        /\ Len(Append(old.pending_client_requests, serial))
              = Len(old.pending_client_requests) + 1
        /\ Len(old.pending_client_requests) \in Nat
        /\ old.pending_client_serials \cup {serial} \in SUBSET Serials
    BY <2>1
  <2>3. queued \in ReplicaState
    BY <1>1, <2>2, Zenon DEF ReplicaState
  <2>4. /\ queued.next_slot = old.next_slot
        /\ queued.pending_client_requests = Append(old.pending_client_requests, serial)
        /\ SameLog(queued, old)
    BY <1>1, Zenon DEF SameLog, ReplicaState
  <2> HIDE DEF queued
  <2>5. QueueFits(queued)
    BY <1>4, <2>1, <2>2, <2>4, BoundsAssumption DEF QueueFits
  <2>6. Advances(old, queued) /\ Settles(old, queued)
    <3> HIDE DEF old
    <3> QED BY <1>1, <2>3, <2>4, SameLogAdvances DEF Settles, SameLog
  <2>7. CASE full
    BY <1>4, <2>3, <2>5, <2>6, <2>7, FlushLog
  <2>8. CASE ~full
    <3>1. flushed.sent \in ReplicaState
      BY <2>3, <2>5, FlushType
    <3>2. /\ TransmitProposals(channel, r, flushed.sent, {})
          /\ replica' = [replica EXCEPT ![r] = queued]
      BY <1>4, <2>8
    <3> HIDE DEF flushed
    <3>3. \A x, y \in Replicas : \A n \in InTransit(channel', x, y) :
             n \in InTransit(channel, x, y) \/ Shaped(n)
      BY <3>1, <3>2, TypeFacts, TransmitShaped
    <3> QED BY <2>3, <2>6, <3>2, <3>3 DEF LogStep
  <2> QED BY <2>7, <2>8
<1> QED BY <1>2, <1>3, <1>4

LEMMA HandleProbeLog ==
  ASSUME TypeInv, LogInv, NEW r \in Replicas, NEW s \in Replicas, HandleProbe(s, r)
  PROVE  LogStep(r)
<1> DEFINE m == Head(channel[s][r])
           old == replica[r]
           follow == BecomeFollower(old, m.round, old.leader_index)
           st == IF m.round > old.current_round THEN follow ELSE old
           promise == m.round >= old.current_round /\ CanPromise(st, m)
           answer == [type |-> "prepare", round |-> st.current_round, server |-> r,
                      promised |-> promise]
           new == IF promise THEN [st EXCEPT !.promised_leader = m.leader,
                                             !.leader_index = m.leader]
                  ELSE st
           out == [d \in Replicas |-> answer]
<1>1. /\ channel[s][r] # <<>> /\ m.type = "probe"
      /\ replica' = [replica EXCEPT ![r] = new]
      /\ Transmit(Receive(s, r), r, out, {m.leader})
  BY Zenon DEF HandleProbe, Incoming
<1>2. /\ old \in ReplicaState /\ Contiguous(old) /\ Settles(old, old)
      /\ old.last_applied = old.commit_index /\ old.leader_index \in Replicas
  BY LogFacts DEF ReplicaState
<1>3. /\ m \in ProbeMessage /\ Receive(s, r) \in Channels
      /\ \A x, y \in Replicas : InTransit(Receive(s, r), x, y) \subseteq InTransit(channel, x, y)
  BY <1>1, TypeFacts, ReceiveLemma, MessageKinds
<1>4. m.leader \in Replicas /\ m.round \in Rounds
  BY <1>3 DEF ProbeMessage
<1>5. promise \in BOOLEAN
  OBVIOUS
<1> HIDE DEF m, old
<1>6. follow \in ReplicaState /\ Settles(old, follow)
  BY <1>2, <1>4, BecomeFollowerSettles
<1> HIDE DEF follow
<1>7. st \in ReplicaState /\ Settles(old, st)
  BY <1>2, <1>6
<1> HIDE DEF st, promise
<1>8. new \in ReplicaState /\ SameLog(new, st)
  BY <1>4, <1>7, Zenon DEF SameLog, ReplicaState
<1>9. answer \in Message /\ Shaped(answer)
  <2>1. st.current_round \in Rounds
    BY <1>7 DEF ReplicaState
  <2> QED BY <1>5, <2>1 DEF Message, PrepareMessage, Shaped
<1> HIDE DEF answer
<1>10. \A d \in {m.leader} : out[d] = answer
  BY <1>4
<1> HIDE DEF out, new
<1>11. Settles(old, new)
  <2>1. Contiguous(st) /\ Advances(old, st) /\ st.last_applied = st.commit_index
    BY <1>7 DEF Settles, Advances
  <2>2. Settles(st, new)
    BY <1>7, <1>8, <2>1, SameLogAdvances DEF Settles, SameLog
  <2> QED BY <1>2, <2>1, <2>2, SettlesAfter
<1>12. \A x, y \in Replicas : \A n \in InTransit(channel', x, y) :
          n \in InTransit(Receive(s, r), x, y) \/ n = answer
  BY <1>1, <1>3, <1>4, <1>9, <1>10, TransmitLemma
<1> QED BY <1>1, <1>3, <1>8, <1>9, <1>11, <1>12 DEF LogStep, old

LEMMA HandlePrepareLog ==
  ASSUME TypeInv, LogInv, NEW r \in Replicas, NEW s \in Replicas, HandlePrepare(s, r)
  PROVE  LogStep(r)
<1> DEFINE m == Head(channel[s][r])
           old == replica[r]
           ok == old.prepare_ok \cup {m.server}
           st == [old EXCEPT !.prepare_ok = ok]
           leader == BecomeLeader(r, st)
           leading == ClampNextIndex(leader, Peers(r))
<1>1. channel[s][r] # <<>> /\ m.type = "prepare"
  BY Zenon DEF HandlePrepare, Incoming
<1>2. \/ /\ replica' = [replica EXCEPT ![r] =
                            BecomeFollower(old, m.round, old.leader_index)]
         /\ channel' = Receive(s, r)
      \/ channel' = Receive(s, r) /\ replica' = replica
      \/ replica' = [replica EXCEPT ![r] = st] /\ channel' = Receive(s, r)
      \/ /\ replica' = [replica EXCEPT ![r] = leading]
         /\ TransmitProposals(Receive(s, r), r, leading, Peers(r))
  BY Zenon DEF HandlePrepare
<1>3. /\ old \in ReplicaState /\ Contiguous(old)
      /\ old.last_applied = old.commit_index
  BY LogFacts
<1>4. /\ m \in PrepareMessage /\ Receive(s, r) \in Channels
      /\ \A x, y \in Replicas : InTransit(Receive(s, r), x, y) \subseteq InTransit(channel, x, y)
  BY <1>1, TypeFacts, ReceiveLemma, MessageKinds
<1>5. m.server \in Replicas /\ m.round \in Rounds
  BY <1>4 DEF PrepareMessage
<1> HIDE DEF m
<1>6. CASE \/ /\ replica' = [replica EXCEPT ![r] =
                                 BecomeFollower(old, m.round, old.leader_index)]
              /\ channel' = Receive(s, r)
           \/ channel' = Receive(s, r) /\ replica' = replica
  BY <1>1, <1>5, <1>6, StepDownLog
<1> HIDE DEF old
<1>7. ok \in SUBSET Replicas
  BY <1>3, <1>5 DEF ReplicaState
<1> HIDE DEF ok
<1>8. st \in ReplicaState /\ SameLog(st, old)
  BY <1>3, <1>7, Zenon DEF SameLog, ReplicaState
<1> HIDE DEF st
<1>9. leader \in ReplicaState /\ SameLog(leader, st)
  <2>1. SameLog(leader, st)
    BY <1>8, Zenon DEF SameLog, BecomeLeader, ReplicaState
  <2> QED BY <1>8, <2>1, BecomeLeaderType
<1> HIDE DEF leader
<1>10. leading \in ReplicaState /\ SameLog(leading, leader)
  <2>1. SameLog(leading, leader)
    BY <1>9, Zenon DEF SameLog, ClampNextIndex, ReplicaState
  <2> QED BY <1>9, <2>1, ClampNextIndexType
<1> HIDE DEF leading
<1>11. SameLog(leading, old)
  BY <1>8, <1>9, <1>10 DEF SameLog
<1>12. Settles(old, st) /\ Settles(old, leading)
  BY <1>3, <1>8, <1>10, <1>11, SameLogAdvances DEF Settles, SameLog
<1>13. CASE replica' = [replica EXCEPT ![r] = st] /\ channel' = Receive(s, r)
  BY <1>4, <1>8, <1>12, <1>13 DEF LogStep, old
<1>14. CASE /\ replica' = [replica EXCEPT ![r] = leading]
            /\ TransmitProposals(Receive(s, r), r, leading, Peers(r))
  <2>1. Peers(r) \in SUBSET Replicas
    BY DEF Peers
  <2>2. \A x, y \in Replicas : \A n \in InTransit(channel', x, y) :
           n \in InTransit(Receive(s, r), x, y) \/ Shaped(n)
    BY <1>4, <1>10, <1>14, <2>1, TransmitShaped
  <2> QED BY <1>4, <1>10, <1>12, <1>14, <2>2 DEF LogStep, old
<1> QED BY <1>2, <1>6, <1>13, <1>14

LEMMA StartProbeRoundLog ==
  ASSUME TypeInv, LogInv, NEW r \in Replicas, StartProbeRound(r)
  PROVE  LogStep(r)
<1> DEFINE old == replica[r]
           st == [old EXCEPT !.role = "candidate",
                             !.current_round = @ + 1,
                             !.leader_index = r,
                             !.promised_leader = r,
                             !.prepare_ok = {r}]
           msg == [type |-> "probe", round |-> st.current_round, leader |-> r,
                   last_log_index |-> LastLogIndex(st),
                   last_log_round |-> LastLogRound(st)]
           out == [d \in Replicas |-> msg]
           new == IF IsQuorum({r}) THEN BecomeLeader(r, st) ELSE st
<1>1. /\ old \in ReplicaState /\ Contiguous(old) /\ channel \in Channels
      /\ old.last_applied = old.commit_index
  BY TypeFacts, LogFacts
<1>2. /\ old.current_round < MaxRound
      /\ replica' = [replica EXCEPT ![r] = new]
      /\ Transmit(channel, r, out, Peers(r))
  BY Zenon DEF StartProbeRound
<1> HIDE DEF old
<1>3. old.current_round + 1 \in Rounds
  <2>1. old.current_round \in Rounds
    BY <1>1 DEF ReplicaState
  <2>2. old.current_round < MaxRound
    BY <1>2, Zenon
  <2> QED BY <2>1, <2>2, BoundsAssumption DEF Rounds
<1>4. /\ st \in ReplicaState /\ st.current_round = old.current_round + 1
      /\ st.log = old.log /\ st.next_slot = old.next_slot
      /\ st.commit_index = old.commit_index /\ st.last_applied = old.last_applied
      /\ st.trim_through = old.trim_through /\ st.response_cache = old.response_cache
  BY <1>1, <1>3, Zenon DEF ReplicaState
<1> HIDE DEF st
<1>5. Settles(old, st)
  <2>1. LastLogIndex(st) = LastLogIndex(old)
    BY <1>4 DEF LastLogIndex
  <2>2. Contiguous(st)
    BY <1>1, <1>4, <2>1 DEF Contiguous
  <2>3. CommittedStepOK(old, st)
    BY <1>1, <1>4, Indices DEF CommittedStepOK
  <2> QED BY <1>1, <1>4, <2>2, <2>3 DEF Settles, Advances
<1>6. new \in ReplicaState /\ Settles(old, new)
  <2>1. SameLog(BecomeLeader(r, st), st)
    BY <1>4, Zenon DEF SameLog, BecomeLeader, ReplicaState
  <2>2. Contiguous(st) /\ Advances(old, st) /\ st.last_applied = st.commit_index
    BY <1>5 DEF Settles, Advances
  <2>3. Settles(st, BecomeLeader(r, st)) /\ BecomeLeader(r, st) \in ReplicaState
    BY <1>4, <2>1, <2>2, SameLogAdvances, BecomeLeaderType DEF Settles, SameLog
  <2>4. Settles(old, BecomeLeader(r, st))
    BY <1>1, <2>2, <2>3, SettlesAfter
  <2> QED BY <1>4, <1>5, <2>3, <2>4
<1> HIDE DEF new
<1>7. msg \in Message /\ Shaped(msg)
  <2>1. LastLogRound(st) \in Rounds /\ LastLogIndex(st) \in 0 .. MaxSlot
        /\ st.current_round \in Rounds
    BY <1>3, <1>4, LastLogIndexType, RoundAtType DEF LastLogRound
  <2> QED BY <2>1 DEF Message, ProbeMessage, Shaped
<1> HIDE DEF msg
<1>8. Peers(r) \in SUBSET Replicas /\ \A d \in Peers(r) : out[d] = msg
  BY DEF Peers
<1> HIDE DEF out
<1>9. \A x, y \in Replicas : \A m \in InTransit(channel', x, y) :
         m \in InTransit(channel, x, y) \/ Shaped(m)
  BY <1>1, <1>2, <1>7, <1>8, TransmitLemma
<1> QED BY <1>2, <1>6, <1>9 DEF LogStep, old

-----------------------------------------------------------------------------
(* The theorems *)

LEMMA LogInit == Init => LogInv
<1> SUFFICES ASSUME Init PROVE LogInv
  OBVIOUS
<1>1. ASSUME NEW r \in Replicas
      PROVE  /\ replica[r].trim_through = 0 /\ replica[r].last_applied = 0
             /\ replica[r].commit_index = 0 /\ replica[r].next_slot = 1
             /\ \A k \in Slots : replica[r].log[k] = Absent
  <2>1. replica[r] = InitialState(r)
    BY DEF Init
  <2> QED BY <2>1 DEF InitialState
<1>2. LogContiguous
  <2>1. \A r \in Replicas : LastLogIndex(replica[r]) = 0
    BY <1>1 DEF LastLogIndex
  <2> QED BY <1>1, <2>1, SlotIsNatural DEF LogContiguous
<1>3. \A x, y \in Replicas : InTransit(channel, x, y) = {}
  <2>1. \A x, y \in Replicas : channel[x][y] = <<>>
    BY DEF Init
  <2> QED BY <2>1 DEF InTransit
<1> QED BY <1>2, <1>3 DEF LogInv

LEMMA EveryStepIsALogStep ==
  ASSUME TypeInv, LogInv, Next
  PROVE  \E r \in Replicas : LogStep(r)
<1>1. \A r \in Replicas : Peers(r) \subseteq Replicas
  BY DEF Peers
<1>2. PICK r \in Replicas :
        \/ StartProbeRound(r)
        \/ \E serial \in Serials : HandleClientRequest(r, serial)
        \/ FlushPendingClientRequests(r)
        \/ Heartbeat(r)
        \/ \E s \in Replicas : \/ HandleProbe(s, r) \/ HandlePrepare(s, r)
                               \/ HandlePropose(s, r) \/ HandleAck(s, r)
  BY <1>1, Zenon DEF Next
<1>3. LogStep(r)
  BY <1>2, StartProbeRoundLog, HandleClientRequestLog, FlushPendingLog, HeartbeatLog,
     HandleProbeLog, HandlePrepareLog, HandleProposeLog, HandleAckLog
<1> QED BY <1>3

\* One step keeps the invariant and takes back nothing that is committed.
LEMMA LogNext ==
  ASSUME TypeInv, LogInv, Next
  PROVE  /\ LogInv'
         /\ \A r \in Replicas : CommittedStepOK(replica[r], replica'[r])
<1>1. PICK r \in Replicas : LogStep(r)
  BY EveryStepIsALogStep
<1>2. PICK new \in ReplicaState : /\ Settles(replica[r], new)
                                  /\ replica' = [replica EXCEPT ![r] = new]
  BY <1>1 DEF LogStep
<1>3. replica'[r] = new /\ \A q \in Replicas : q # r => replica'[q] = replica[q]
  BY <1>2, AfterStep
<1>4. ASSUME NEW q \in Replicas
      PROVE  Settles(replica[q], replica'[q])
  <2>1. Settles(replica[q], replica[q])
    BY LogFacts
  <2> QED BY <1>2, <1>3, <2>1
<1>5. \A q \in Replicas : CommittedStepOK(replica[q], replica'[q])
  BY <1>4 DEF Settles, Advances
<1>6. LogContiguous'
  <2> SUFFICES ASSUME NEW q \in Replicas
               PROVE  /\ replica'[q].trim_through <= replica'[q].last_applied
                      /\ replica'[q].last_applied = replica'[q].commit_index
                      /\ replica'[q].commit_index <= LastLogIndex(replica'[q])
                      /\ \A k \in Slots : replica'[q].log[k] # Absent <=>
                            /\ replica'[q].trim_through < k
                            /\ k <= LastLogIndex(replica'[q])
    BY DEF LogContiguous, LastLogIndex
  <2> QED BY <1>4 DEF Settles, Advances, Contiguous
<1>7. (\A x, y \in Replicas : \A m \in InTransit(channel, x, y) : Shaped(m))'
  BY <1>1 DEF LogStep, LogInv, InTransit, Shaped, From
<1> QED BY <1>5, <1>6, <1>7 DEF LogInv

LEMMA LogStutter ==
  ASSUME LogInv, UNCHANGED vars
  PROVE  LogInv'
BY DEF LogInv, LogContiguous, LastLogIndex, InTransit, Shaped, From, vars

LEMMA TypeAndLogStep ==
  TypeInv /\ LogInv /\ [Next]_vars => TypeInv' /\ LogInv'
BY TypeStep, LogNext, LogStutter

\* No log ever has a gap, and no slot is trimmed before it was applied, for any
\* number of replicas and any batch size, however leaders change and messages get
\* lost: apply_committed_entries never has to skip a slot (handle_propose,
\* flush_pending_client_requests, trim_log_prefix).
THEOREM LogsContiguous == Spec => []LogContiguous
<1>1. Init => TypeInv /\ LogInv
  BY TypeInit, LogInit
<1>2. LogInv => LogContiguous
  BY DEF LogInv
<1> QED BY <1>1, <1>2, TypeAndLogStep, PTL DEF Spec

\* No replica ever takes back a round, a committed entry or a cached response: a
\* conflicting suffix is erased above the commit index only, and a committed entry
\* leaves the log by trimming only.
THEOREM CommittedFinal == Spec => CommittedIsFinal
<1>1. Init => TypeInv /\ LogInv
  BY TypeInit, LogInit
<1>2. TypeInv /\ LogInv /\ [Next]_vars
        => [\A r \in Replicas : CommittedStepOK(replica[r], replica'[r])]_vars
  BY LogNext
<1> QED BY <1>1, <1>2, TypeAndLogStep, PTL DEF Spec, CommittedIsFinal

-----------------------------------------------------------------------------
(* Logs that are prefixes of other logs *)

Agree(K, L, n) == \A j \in Slots : j <= n => K[j] = L[j]

\* What a state still knows of its log is a prefix of L.
PrefixOf(st, L) ==
  \A k \in Slots : k <= LastLogIndex(st) =>
     /\ L[k] # Absent
     /\ k > st.trim_through => st.log[k] = L[k]
     /\ k = st.trim_through => st.trim_round = L[k].round

\* No trimmed prefix has no round.
TrimRoundInit(st) == st.trim_through = 0 => st.trim_round = 0

\* The log ends where it did and is a prefix of the same logs.
SameTip(old, new) ==
  /\ LastLogIndex(new) = LastLogIndex(old)
  /\ LastLogRound(new) = LastLogRound(old)
  /\ TrimRoundInit(old) => TrimRoundInit(new)
  /\ \A L \in Log : PrefixOf(old, L) => PrefixOf(new, L)

LEMMA EntryType ==
  ASSUME NEW L \in Log, NEW k \in Slots, L[k] # Absent
  PROVE  L[k] \in LogEntry /\ L[k].round \in Rounds /\ L[k].round \in Nat
<1>1. L[k] \in LogEntry
  BY DEF Log
<1> QED BY <1>1, BoundsAssumption DEF LogEntry, Rounds

LEMMA RoundAtPrefix ==
  ASSUME NEW st \in ReplicaState, Contiguous(st), NEW L \in Log, PrefixOf(st, L),
         NEW k \in Slots, st.trim_through <= k, k <= LastLogIndex(st)
  PROVE  RoundAt(st, k) = L[k].round /\ L[k] # Absent
<1>1. k # 0
  BY SlotIsNatural
<1>2. k # st.trim_through => st.log[k] # Absent /\ st.log[k] = L[k]
  BY Indices, SlotIsNatural DEF Contiguous, PrefixOf
<1> QED BY <1>1, <1>2 DEF RoundAt, PrefixOf

\* last_log_round() is the round of the last entry.
LEMMA TipRound ==
  ASSUME NEW st \in ReplicaState, Contiguous(st), NEW L \in Log, PrefixOf(st, L)
  PROVE  /\ LastLogIndex(st) = 0 => LastLogRound(st) = 0
         /\ LastLogIndex(st) # 0 =>
               /\ LastLogIndex(st) \in Slots
               /\ L[LastLogIndex(st)] # Absent
               /\ LastLogRound(st) = L[LastLogIndex(st)].round
<1>1. LastLogIndex(st) = 0 => LastLogRound(st) = 0
  BY DEF LastLogRound, RoundAt
<1>2. ASSUME LastLogIndex(st) # 0
      PROVE  /\ LastLogIndex(st) \in Slots
             /\ L[LastLogIndex(st)] # Absent
             /\ LastLogRound(st) = L[LastLogIndex(st)].round
  <2>1. LastLogIndex(st) \in Slots
    BY <1>2, Indices, BoundsAssumption DEF Slots
  <2>2. st.trim_through <= LastLogIndex(st)
    BY Indices DEF Contiguous
  <2> QED BY <2>1, <2>2, Indices, RoundAtPrefix DEF LastLogRound
<1> QED BY <1>1, <1>2

LEMMA SameLogTip ==
  ASSUME NEW old, NEW new, new.log = old.log, new.next_slot = old.next_slot,
         new.trim_through = old.trim_through, new.trim_round = old.trim_round
  PROVE  SameTip(old, new)
<1>1. LastLogIndex(new) = LastLogIndex(old)
  BY DEF LastLogIndex
<1>2. LastLogRound(new) = LastLogRound(old)
  BY <1>1 DEF LastLogRound, RoundAt
<1> QED BY <1>1, <1>2 DEF SameTip, TrimRoundInit, PrefixOf

LEMMA SameTipTransitive ==
  ASSUME NEW a, NEW b, NEW c, SameTip(a, b), SameTip(b, c)
  PROVE  SameTip(a, c)
BY DEF SameTip

\* Raising the trim watermark keeps the round of the entry it discards last.
LEMMA TrimTip ==
  ASSUME NEW st \in ReplicaState, Contiguous(st), NEW t \in 0 .. MaxSlot,
         st.trim_through <= t, t <= LastLogIndex(st)
  PROVE  SameTip(st, TrimLogPrefix([st EXCEPT !.trim_through = t]))
<1> DEFINE mid == [st EXCEPT !.trim_through = t]
           erased == {k \in Slots : k <= mid.trim_through /\ mid.log[k] # Absent}
           new == TrimLogPrefix(mid)
<1>1. /\ mid.next_slot = st.next_slot /\ mid.trim_through = t
      /\ mid.trim_round = st.trim_round /\ mid.log = st.log
      /\ mid \in ReplicaState
  BY Zenon DEF ReplicaState
<1> HIDE DEF mid
<1>2. /\ new.next_slot = mid.next_slot /\ new.trim_through = mid.trim_through
      /\ new.trim_round = IF erased = {} THEN mid.trim_round
                          ELSE mid.log[Max(erased)].round
      /\ new.log = [k \in Slots |-> IF k \in erased THEN Absent ELSE mid.log[k]]
  BY <1>1, Zenon DEF TrimLogPrefix, ReplicaState
<1> HIDE DEF new
<1>3. \A k \in Slots : k \in erased <=> st.trim_through < k /\ k <= t
  BY <1>1, Indices, SlotIsNatural, BoundsAssumption DEF Contiguous
<1>4. t \in Nat
  BY BoundsAssumption
<1>5. /\ t = st.trim_through => erased = {}
      /\ t # st.trim_through => t \in Slots /\ erased # {} /\ Max(erased) = t
  <2>1. erased \in SUBSET Slots
    OBVIOUS
  <2> HIDE DEF erased
  <2>2. t = st.trim_through => erased = {}
    BY <1>3, <2>1, SlotIsNatural, Indices
  <2>3. t # st.trim_through => t \in Slots /\ t \in erased
    BY <1>3, Indices, BoundsAssumption DEF Slots
  <2>4. t # st.trim_through => Max(erased) \in erased /\ Max(erased) >= t
    BY <2>1, <2>3, MinMaxOfSlots
  <2>5. \A x \in erased : x \in Nat /\ x <= t
    BY <1>3, <2>1, SlotIsNatural
  <2> QED BY <1>4, <2>2, <2>3, <2>4, <2>5
<1> HIDE DEF erased
<1>6. /\ \A k \in Slots : k > t => new.log[k] = st.log[k]
      /\ t = st.trim_through => new.trim_round = st.trim_round /\
                                \A k \in Slots : new.log[k] = st.log[k]
      /\ t # st.trim_through => new.trim_round = st.log[t].round
      /\ new.trim_through = t
  BY <1>1, <1>2, <1>3, <1>4, <1>5, SlotIsNatural
<1>7. LastLogIndex(new) = LastLogIndex(st)
  BY <1>1, <1>2 DEF LastLogIndex
<1> DEFINE last == LastLogIndex(st)
<1>8. LastLogRound(new) = LastLogRound(st)
  <2> SUFFICES RoundAt(new, last) = RoundAt(st, last)
    BY <1>7 DEF LastLogRound
  <2>1. CASE t = st.trim_through
    BY <1>6, <2>1 DEF RoundAt
  <2>2. CASE t # st.trim_through
    <3>1. last # 0 /\ last \in Slots /\ last # st.trim_through
      BY <1>4, <2>2, Indices, BoundsAssumption DEF Slots
    <3>2. st.log[last] # Absent
      BY <3>1, Indices DEF Contiguous
    <3>3. RoundAt(st, last) = st.log[last].round
      BY <3>1, <3>2 DEF RoundAt
    <3>4. CASE last = t
      BY <1>6, <2>2, <3>1, <3>3, <3>4 DEF RoundAt
    <3>5. CASE last # t
      <4>1. new.log[last] = st.log[last]
        BY <1>4, <1>6, <3>1, <3>5, Indices
      <4> QED BY <1>6, <3>1, <3>2, <3>3, <3>5, <4>1 DEF RoundAt
    <3> QED BY <3>4, <3>5
  <2> QED BY <2>1, <2>2
<1>9. TrimRoundInit(st) => TrimRoundInit(new)
  BY <1>4, <1>6, Indices DEF TrimRoundInit
<1>10. ASSUME NEW L \in Log, PrefixOf(st, L), NEW k \in Slots, k <= LastLogIndex(new)
       PROVE  /\ L[k] # Absent
              /\ k > new.trim_through => new.log[k] = L[k]
              /\ k = new.trim_through => new.trim_round = L[k].round
  <2>1. /\ L[k] # Absent
        /\ k > st.trim_through => st.log[k] = L[k]
        /\ k = st.trim_through => st.trim_round = L[k].round
    BY <1>7, <1>10 DEF PrefixOf
  <2>2. k > t => k > st.trim_through
    BY <1>4, Indices, SlotIsNatural
  <2>3. t # st.trim_through => t > st.trim_through
    BY <1>4, Indices
  <2> QED BY <1>6, <2>1, <2>2, <2>3
<1> QED BY <1>7, <1>8, <1>9, <1>10 DEF SameTip, PrefixOf, new, mid

LEMMA ApplyTip ==
  ASSUME NEW st \in ReplicaState, Contiguous(st)
  PROVE  SameTip(st, ApplyCommittedEntries(st))
<1> DEFINE new == ApplyCommittedEntries(st)
           erased == {j \in Slots : j <= st.trim_through /\ st.log[j] # Absent}
<1>1. /\ new.next_slot = st.next_slot /\ new.trim_through = st.trim_through
      /\ new.log = [k \in Slots |-> IF k \in erased THEN Absent ELSE st.log[k]]
      /\ new.trim_round = IF erased = {} THEN st.trim_round
                          ELSE st.log[Max(erased)].round
  BY Zenon DEF ApplyCommittedEntries, TrimLogPrefix, ReplicaState
<1>2. erased = {}
  BY Indices, SlotIsNatural DEF Contiguous
<1> HIDE DEF new, erased
<1>3. st.log = [k \in Slots |-> st.log[k]]
  BY Indices DEF Log
<1>4. new.log = st.log /\ new.trim_round = st.trim_round
  BY <1>1, <1>2, <1>3
<1> QED BY <1>1, <1>4, SameLogTip DEF new

-----------------------------------------------------------------------------
(* Storing proposed entries *)

\* The entries after slot p up to slot q, and no others.
Run(p, q, entries) == \A k \in Slots : entries[k] # Absent <=> p < k /\ k <= q

LEMMA LastProposedRun ==
  ASSUME NEW m \in ProposeMessage, From(m.prev_log_index, m.entries)
  PROVE  /\ LastProposed(m) \in 0 .. MaxSlot /\ LastProposed(m) \in Nat
         /\ m.prev_log_index \in Nat /\ m.prev_log_index <= LastProposed(m)
         /\ Run(m.prev_log_index, LastProposed(m), m.entries)
<1> DEFINE p == m.prev_log_index
           ends == {p} \cup {k \in Slots : m.entries[k] # Absent}
           q == LastProposed(m)
<1>1. p \in 0 .. MaxSlot /\ p \in Nat
  BY BoundsAssumption DEF ProposeMessage
<1>2. ends \in SUBSET (0 .. MaxSlot) /\ ends # {}
  BY <1>1, BoundsAssumption DEF Slots
<1>3. q = Max(ends)
  BY Zenon DEF LastProposed
<1>4. q \in ends /\ q \in 0 .. MaxSlot /\ \A y \in ends : q >= y
  <2> HIDE DEF ends, q
  <2> QED BY <1>2, <1>3, MinMaxOfIndices, BoundsAssumption
<1> HIDE DEF q
<1>5. p <= q /\ q \in Nat
  BY <1>1, <1>4, BoundsAssumption
<1>6. ASSUME NEW k \in Slots, m.entries[k] # Absent
      PROVE  p < k /\ k <= q
  <2>1. k \in ends
    BY <1>6
  <2> HIDE DEF ends
  <2> QED BY <1>4, <1>5, <1>6, <2>1, SlotIsNatural DEF From
<1>7. ASSUME NEW k \in Slots, p < k, k <= q
      PROVE  m.entries[k] # Absent
  <2>1. q \in Slots /\ m.entries[q] # Absent
    BY <1>1, <1>4, <1>5, <1>7, SlotIsNatural
  <2> HIDE DEF p
  <2> QED BY <1>7, <2>1 DEF From, p
<1> QED BY <1>1, <1>4, <1>5, <1>6, <1>7 DEF Run, q

\* A run that reaches beyond the log extends it.
LEMMA StoreExtends ==
  ASSUME NEW st \in ReplicaState, Contiguous(st), NEW B \in Log, PrefixOf(st, B),
         NEW entries \in Log, NEW p \in Nat, NEW q \in 0 .. MaxSlot, Run(p, q, entries),
         p <= LastLogIndex(st), LastLogIndex(st) <= q,
         \A k \in Slots : entries[k] # Absent => entries[k] = B[k]
  PROVE  LET new == StoreMissing(st, entries) IN
         /\ LastLogIndex(new) = q /\ PrefixOf(new, B)
         /\ new.trim_through = st.trim_through /\ new.trim_round = st.trim_round
<1> DEFINE missing == {k \in Slots : /\ k > st.trim_through
                                     /\ entries[k] # Absent /\ st.log[k] = Absent}
           ends == {st.next_slot} \cup {k + 1 : k \in missing}
           last == LastLogIndex(st)
           new == StoreMissing(st, entries)
<1>1. /\ new.trim_through = st.trim_through /\ new.trim_round = st.trim_round
      /\ new.log = [k \in Slots |-> IF k \in missing THEN entries[k] ELSE st.log[k]]
      /\ new.next_slot = Max(ends)
  BY Zenon DEF StoreMissing, ReplicaState
<1> HIDE DEF new
<1>2. /\ q \in Nat /\ last \in Nat /\ st.next_slot = last + 1 /\ st.trim_through \in Nat
      /\ st.trim_through <= last
  BY Indices, BoundsAssumption DEF Contiguous
<1>3. \A k \in Slots : k \in missing <=> last < k /\ k <= q
  BY <1>2, SlotIsNatural DEF Contiguous, Run
<1>4. missing \in SUBSET Slots
  OBVIOUS
<1>5. Max(ends) = q + 1
  <2>1. ends \in SUBSET (0 .. MaxSlot + 1) /\ ends # {}
    <3> HIDE DEF missing
    <3> QED BY <1>2, <1>4, Indices, BoundsAssumption DEF Slots
  <2>2. Max(ends) \in ends /\ \A y \in ends : Max(ends) >= y
    <3> HIDE DEF ends
    <3> QED BY <2>1, MinMaxOfIndices, BoundsAssumption
  <2>3. \A y \in ends : y \in Nat /\ y <= q + 1
    <3> HIDE DEF missing
    <3> QED BY <1>2, <1>3, <1>4, SlotIsNatural
  <2>4. q + 1 \in ends
    <3>1. CASE q = last
      BY <1>2, <3>1
    <3>2. CASE q # last
      <4>1. q \in Slots /\ q \in missing
        <5> HIDE DEF missing
        <5> QED BY <1>2, <1>3, <3>2, BoundsAssumption DEF Slots
      <4> QED BY <4>1
    <3> QED BY <3>1, <3>2
  <2> HIDE DEF ends
  <2> QED BY <1>2, <2>2, <2>3, <2>4
<1>6. LastLogIndex(new) = q
  BY <1>1, <1>2, <1>5 DEF LastLogIndex
<1>7. ASSUME NEW k \in Slots, k <= q
      PROVE  /\ B[k] # Absent
             /\ k > new.trim_through => new.log[k] = B[k]
             /\ k = new.trim_through => new.trim_round = B[k].round
  <2>1. CASE k <= last
    <3>1. k \notin missing
      BY <1>2, <1>3, <2>1, SlotIsNatural
    <3>2. new.log[k] = st.log[k]
      BY <1>1, <3>1
    <3> QED BY <1>1, <2>1, <3>2 DEF PrefixOf
  <2>2. CASE k > last
    <3>1. k \in missing
      BY <1>3, <1>7, <2>2
    <3>2. new.log[k] = entries[k] /\ entries[k] # Absent /\ entries[k] = B[k]
      BY <1>1, <3>1
    <3>3. k # new.trim_through
      <4> HIDE DEF missing, last
      <4> QED BY <1>1, <1>2, <2>2, SlotIsNatural
    <3> QED BY <3>2, <3>3
  <2> HIDE DEF missing, last
  <2> QED BY <1>2, <2>1, <2>2, SlotIsNatural
<1> QED BY <1>1, <1>6, <1>7 DEF PrefixOf, new

\* A run inside the log stores nothing.
LEMMA StoreNothing ==
  ASSUME NEW st \in ReplicaState, Contiguous(st), NEW entries \in Log,
         \A k \in Slots : entries[k] # Absent => k <= LastLogIndex(st)
  PROVE  LET new == StoreMissing(st, entries) IN
         /\ new.log = st.log /\ new.next_slot = st.next_slot
         /\ new.trim_through = st.trim_through /\ new.trim_round = st.trim_round
<1> DEFINE missing == {k \in Slots : /\ k > st.trim_through
                                     /\ entries[k] # Absent /\ st.log[k] = Absent}
           ends == {st.next_slot} \cup {k + 1 : k \in missing}
           new == StoreMissing(st, entries)
<1>1. /\ new.trim_through = st.trim_through /\ new.trim_round = st.trim_round
      /\ new.log = [k \in Slots |-> IF k \in missing THEN entries[k] ELSE st.log[k]]
      /\ new.next_slot = Max(ends)
  BY Zenon DEF StoreMissing, ReplicaState
<1> HIDE DEF new
<1>2. missing = {}
  BY Indices, SlotIsNatural DEF Contiguous
<1>3. ends = {st.next_slot}
  BY <1>2
<1>4. Max(ends) = st.next_slot
  <2>1. ends \in SUBSET (0 .. MaxSlot + 1) /\ ends # {}
    <3>1. st.next_slot \in 0 .. MaxSlot + 1
      BY BoundsAssumption DEF ReplicaState
    <3> HIDE DEF ends
    <3> QED BY <1>3, <3>1
  <2>2. Max(ends) \in ends
    <3> HIDE DEF ends
    <3> QED BY <2>1, MinMaxOfIndices, BoundsAssumption
  <2> QED BY <1>3, <2>2
<1>5. st.log = [k \in Slots |-> st.log[k]]
  BY Indices DEF Log
<1>6. new.log = st.log
  <2> HIDE DEF missing
  <2> QED BY <1>1, <1>2, <1>5
<1> HIDE DEF ends, missing
<1> QED BY <1>1, <1>4, <1>6 DEF new

\* Two logs that agree wherever they have entries of the same round.
Matching(A, B) ==
  \A k \in Slots : A[k] # Absent /\ B[k] # Absent /\ A[k].round = B[k].round
                    => Agree(A, B, k)

\* A log that agrees with B to its end is a prefix of B.
LEMMA AgreePrefix ==
  ASSUME NEW st \in ReplicaState, Contiguous(st), NEW A \in Log, NEW B \in Log,
         PrefixOf(st, A), Agree(A, B, LastLogIndex(st))
  PROVE  PrefixOf(st, B)
BY DEF PrefixOf, Agree

\* The entry loop of handle_propose, for entries of a log B behind a slot up to which
\* the log, a prefix of A, agrees with B: the log already holds them, or it becomes
\* the prefix of B that ends with them and loses nothing on which A and B agree.
LEMMA AppendMatches ==
  ASSUME NEW st \in ReplicaState, Contiguous(st), NEW A \in Log, NEW B \in Log,
         PrefixOf(st, A), Matching(A, B),
         NEW entries \in Log, NEW p \in Nat, NEW q \in 0 .. MaxSlot, Run(p, q, entries),
         p <= q, st.trim_through <= p, p <= LastLogIndex(st), Agree(A, B, p),
         \A k \in Slots : entries[k] # Absent => entries[k] = B[k],
         ~(Conflicts(st, entries) # {} /\ st.commit_index >= Min(Conflicts(st, entries)))
  PROVE  LET new == AppendEntries(st, entries) IN
         \/ /\ SameTip(st, new) /\ q <= LastLogIndex(st) /\ Agree(A, B, q)
         \/ /\ LastLogIndex(new) = q /\ PrefixOf(new, B)
            /\ TrimRoundInit(st) => TrimRoundInit(new)
            /\ st.commit_index <= q /\ Agree(A, B, st.commit_index)
            /\ \A k \in Slots : k <= LastLogIndex(st) /\ A[k] = B[k] => k <= q
<1> DEFINE conflicts == Conflicts(st, entries)
           c == Min(conflicts)
           cut == Truncate(st, c)
           last == LastLogIndex(st)
           new == AppendEntries(st, entries)
<1>1. /\ q \in Nat /\ last \in Nat /\ last <= MaxSlot /\ st.trim_through \in Nat
      /\ st.trim_through <= last /\ st.commit_index \in Nat /\ st.commit_index <= last
  BY Indices, BoundsAssumption DEF Contiguous
<1>2. ASSUME NEW d \in Slots, p < d, d <= q, d <= last, d \notin conflicts
      PROVE  Agree(A, B, d)
  <2>1. entries[d] # Absent /\ entries[d] = B[d] /\ d > st.trim_through
    BY <1>1, <1>2, SlotIsNatural DEF Run
  <2>2. st.log[d] # Absent /\ st.log[d] = A[d]
    BY <1>2, <2>1 DEF Contiguous, PrefixOf
  <2>3. A[d].round = B[d].round
    BY <1>2, <2>1, <2>2 DEF Conflicts
  <2> HIDE DEF conflicts
  <2> QED BY <2>1, <2>2, <2>3 DEF Matching
<1>3. CASE conflicts = {} /\ q <= last
  <2>1. new = StoreMissing(st, entries)
    BY <1>3, Zenon DEF AppendEntries
  <2>2. \A k \in Slots : entries[k] # Absent => k <= last
    BY <1>1, <1>3, SlotIsNatural DEF Run
  <2>3. SameTip(st, new)
    <3> HIDE DEF new
    <3> QED BY <2>1, <2>2, StoreNothing, SameLogTip
  <2>4. Agree(A, B, q)
    <3>1. CASE q = p
      BY <3>1
    <3>2. CASE q # p
      <4>1. q \in Slots /\ p < q
        BY <1>1, <3>2, BoundsAssumption DEF Slots
      <4> QED BY <1>1, <1>2, <1>3, <4>1
    <3> QED BY <3>1, <3>2
  <2> HIDE DEF new, conflicts
  <2> QED BY <1>3, <2>3, <2>4 DEF new
<1>4. CASE conflicts = {} /\ q > last
  <2>1. new = StoreMissing(st, entries)
    BY <1>4, Zenon DEF AppendEntries
  <2>2. Agree(A, B, last)
    <3>1. CASE last = p
      BY <3>1
    <3>2. CASE last # p
      <4>1. last \in Slots /\ p < last /\ last <= q
        BY <1>1, <1>4, <3>2, BoundsAssumption DEF Slots
      <4> HIDE DEF last
      <4> QED BY <1>1, <1>2, <1>4, <4>1
    <3> QED BY <3>1, <3>2
  <2>3. PrefixOf(st, B)
    BY <2>2, AgreePrefix
  <2>4. /\ LastLogIndex(new) = q /\ PrefixOf(new, B)
        /\ new.trim_through = st.trim_through /\ new.trim_round = st.trim_round
    <3>1. LastLogIndex(st) <= q
      BY <1>1, <1>4
    <3> HIDE DEF new, conflicts, last
    <3> QED BY <2>1, <2>3, <3>1, StoreExtends
  <2> HIDE DEF new, conflicts
  <2>5. Agree(A, B, st.commit_index) /\ st.commit_index <= q
    BY <1>1, <1>4, <2>2, SlotIsNatural DEF Agree
  <2>6. \A k \in Slots : k <= last => k <= q
    BY <1>1, <1>4, SlotIsNatural
  <2> QED BY <2>4, <2>5, <2>6 DEF TrimRoundInit, new
<1>5. CASE conflicts # {}
  <2>1. conflicts \in SUBSET Slots
    BY DEF Conflicts
  <2>2. c \in Slots /\ c \in conflicts /\ \A y \in conflicts : c <= y
    <3> HIDE DEF conflicts
    <3> QED BY <1>5, <2>1, MinMaxOfSlots
  <2>3. /\ st.log[c] # Absent /\ entries[c] # Absent /\ c > st.trim_through
        /\ st.log[c].round # entries[c].round
    <3> HIDE DEF c
    <3> QED BY <2>2 DEF Conflicts
  <2> HIDE DEF conflicts, c
  <2>4. st.commit_index < c
    BY <1>1, <1>5, <2>2, SlotIsNatural DEF conflicts, c
  <2>5. c <= last /\ p < c /\ c <= q /\ c \in Nat
    BY <2>2, <2>3, SlotIsNatural DEF Contiguous, Run
  <2>6. Agree(A, B, c - 1)
    <3>1. CASE c - 1 = p
      BY <3>1
    <3>2. CASE c - 1 # p
      <4>1. c - 1 \in Slots /\ p < c - 1 /\ c - 1 <= q /\ c - 1 <= last
        BY <1>1, <2>2, <2>5, <3>2, BoundsAssumption DEF Slots
      <4>2. c - 1 \notin conflicts
        BY <2>2, <2>5
      <4> QED BY <1>2, <4>1, <4>2
    <3> QED BY <3>1, <3>2
  <2>7. A[c] # B[c]
    <3>1. st.log[c] = A[c] /\ entries[c] = B[c]
      BY <2>2, <2>3, <2>5 DEF PrefixOf
    <3> QED BY <2>3, <3>1
  <2>8. ASSUME NEW k \in Slots, k <= last, A[k] = B[k]
        PROVE  k <= q
    <3>1. A[k] # Absent
      BY <2>8 DEF PrefixOf
    <3>2. Agree(A, B, k)
      BY <2>8, <3>1 DEF Matching
    <3>3. ~(c <= k)
      BY <2>2, <2>7, <3>2 DEF Agree
    <3> QED BY <1>1, <2>5, <3>3, SlotIsNatural
  <2>9. Keeps(st, cut) /\ LastLogIndex(cut) = c - 1
    BY <2>2, <2>4, <2>5, TruncateKeeps
  <2>10. cut \in ReplicaState /\ Contiguous(cut)
    BY <2>9 DEF Keeps, Advances
  <2>11. /\ cut.trim_through = st.trim_through /\ cut.trim_round = st.trim_round
         /\ cut.log = [k \in Slots |-> IF k < c THEN st.log[k] ELSE Absent]
    BY Zenon DEF Truncate, ReplicaState
  <2>12. new = StoreMissing(cut, entries)
    BY <1>5, Zenon DEF AppendEntries, conflicts, c
  <2> HIDE DEF cut, new
  <2>13. PrefixOf(cut, B)
    <3> SUFFICES ASSUME NEW k \in Slots, k <= c - 1
                 PROVE  /\ B[k] # Absent
                        /\ k > st.trim_through => cut.log[k] = B[k]
                        /\ k = st.trim_through => st.trim_round = B[k].round
      BY <2>9, <2>11 DEF PrefixOf
    <3>1. A[k] = B[k] /\ k < c /\ k <= last
      BY <1>1, <2>5, <2>6, SlotIsNatural DEF Agree
    <3>2. cut.log[k] = st.log[k]
      BY <2>11, <3>1
    <3> QED BY <3>1, <3>2 DEF PrefixOf
  <2>14. p <= LastLogIndex(cut) /\ LastLogIndex(cut) <= q
    BY <1>1, <2>5, <2>9
  <2>15. /\ LastLogIndex(new) = q /\ PrefixOf(new, B)
         /\ new.trim_through = cut.trim_through /\ new.trim_round = cut.trim_round
    BY <2>10, <2>12, <2>13, <2>14, StoreExtends
  <2>16. Agree(A, B, st.commit_index) /\ st.commit_index <= q
    BY <1>1, <2>4, <2>5, <2>6, SlotIsNatural DEF Agree
  <2> QED BY <2>8, <2>11, <2>15, <2>16 DEF TrimRoundInit, new
<1> QED BY <1>1, <1>3, <1>4, <1>5

-----------------------------------------------------------------------------
(* Executing a log *)

\* c is the first slot of L up to n that holds serial s, or 0 if there is none.
First(L, n, s, c) ==
  IF c = 0 THEN \A k \in Slots : k <= n => L[k].serial # s
  ELSE /\ c \in Slots /\ c <= n /\ L[c].serial = s
       /\ \A k \in Slots : k < c => L[k].serial # s

\* The response cache of a state tells where L has the requests applied so far.
CacheOf(st, L) ==
  \A s \in Serials : First(L, st.last_applied, s, st.response_cache[s])

\* apply_committed_entries executes a request at its first slot, and answers with it.
LEMMA ApplyCache ==
  ASSUME NEW st \in ReplicaState, Contiguous(st), NEW L \in Log, PrefixOf(st, L),
         CacheOf(st, L)
  PROVE  /\ CacheOf(ApplyCommittedEntries(st), L)
         /\ \A x \in RepliesOf(st) :
               /\ x.serial \in Serials /\ x.slot \in Slots /\ x.slot <= st.commit_index
               /\ First(L, x.slot, x.serial, x.slot)
<1> DEFINE slotsOf(s) == {k \in ToApply(st) : st.log[k].serial = s}
           cache == [s \in Serials |->
                        IF st.response_cache[s] = 0 /\ slotsOf(s) # {}
                        THEN Min(slotsOf(s)) ELSE st.response_cache[s]]
           new == ApplyCommittedEntries(st)
           done == st.last_applied
           commit == st.commit_index
<1>1. new.response_cache = cache
      /\ new.last_applied = IF commit > done THEN commit ELSE done
  BY Zenon DEF ApplyCommittedEntries, TrimLogPrefix, ReplicaState
<1>2. /\ done \in Nat /\ commit \in Nat /\ done <= commit /\ commit <= LastLogIndex(st)
      /\ LastLogIndex(st) \in Nat /\ st.trim_through \in Nat /\ st.trim_through <= done
  BY Indices DEF Contiguous
<1>3. new.last_applied = commit
  <2> HIDE DEF new, done, commit
  <2> QED BY <1>1, <1>2
<1>4. \A k \in Slots : k \in ToApply(st) <=> done < k /\ k <= commit
  BY <1>2, SlotIsNatural DEF ToApply, Contiguous
<1>5. ToApply(st) \in SUBSET Slots
  BY DEF ToApply
<1>6. \A k \in ToApply(st) : st.log[k] = L[k]
  BY <1>2, <1>4, <1>5, SlotIsNatural DEF PrefixOf
<1> HIDE DEF new, done, commit
<1>7. ASSUME NEW s \in Serials
      PROVE  /\ First(L, commit, s, cache[s])
             /\ slotsOf(s) # {} => cache[s] # 0
  <2> DEFINE c == st.response_cache[s]
             S == slotsOf(s)
  <2>1. First(L, done, s, c)
    BY DEF CacheOf, done
  <2>2. /\ S \in SUBSET Slots
        /\ \A k \in Slots : k \in S <=> done < k /\ k <= commit /\ L[k].serial = s
    BY <1>4, <1>5, <1>6
  <2>3. cache[s] = IF c = 0 /\ S # {} THEN Min(S) ELSE c
    OBVIOUS
  <2> HIDE DEF cache, S, c
  <2>4. CASE c # 0
    BY <1>2, <2>1, <2>3, <2>4, SlotIsNatural DEF First, S
  <2>5. CASE c = 0 /\ S = {}
    <3>1. \A k \in Slots : k <= commit => L[k].serial # s
      BY <1>2, <2>1, <2>2, <2>5, SlotIsNatural DEF First
    <3> QED BY <2>3, <2>5, <3>1 DEF First, S
  <2>6. CASE c = 0 /\ S # {}
    <3> DEFINE f == Min(S)
    <3>1. f \in S /\ \A y \in S : f <= y
      BY <2>2, <2>6, MinMaxOfSlots
    <3> HIDE DEF f
    <3>2. f \in Slots /\ done < f /\ f <= commit /\ L[f].serial = s /\ f # 0
      BY <2>2, <3>1, SlotIsNatural
    <3>3. ASSUME NEW k \in Slots, k < f
          PROVE  L[k].serial # s
      <4>1. k \notin S
        BY <3>1, <3>2, <3>3, SlotIsNatural
      <4>2. k <= commit
        BY <1>2, <3>2, <3>3, SlotIsNatural
      <4>3. done < k => L[k].serial # s
        BY <2>2, <4>1, <4>2
      <4>4. k <= done => L[k].serial # s
        BY <2>1, <2>6 DEF First
      <4> QED BY <1>2, <4>3, <4>4, SlotIsNatural
    <3>4. cache[s] = f
      BY <2>3, <2>6 DEF f
    <3> QED BY <3>2, <3>3, <3>4 DEF First
  <2> QED BY <2>4, <2>5, <2>6
<1>8. CacheOf(new, L)
  <2> HIDE DEF cache
  <2> QED BY <1>1, <1>3, <1>7 DEF CacheOf
<1>9. ASSUME NEW x \in RepliesOf(st)
      PROVE  /\ x.serial \in Serials /\ x.slot \in Slots /\ x.slot <= commit
             /\ First(L, x.slot, x.serial, x.slot)
  <2>1. PICK s \in Answered(st) : x = [serial |-> s, slot |-> new.response_cache[s]]
    BY Zenon DEF RepliesOf, new
  <2>2. s \in Serials /\ slotsOf(s) # {}
    BY <2>1 DEF Answered
  <2>3. x.serial = s /\ x.slot = cache[s]
    BY <1>1, <2>1
  <2>4. First(L, commit, s, cache[s]) /\ cache[s] # 0
    BY <1>7, <2>2
  <2> HIDE DEF cache
  <2> QED BY <2>2, <2>3, <2>4, SlotIsNatural DEF First
<1> QED BY <1>8, <1>9 DEF new, commit

-----------------------------------------------------------------------------
(* The leader's helpers *)

\* The fields that only a leader's own bookkeeping changes.
SameProgress(a, b) ==
  /\ a.role = b.role /\ a.current_round = b.current_round
  /\ a.match_index = b.match_index /\ a.next_index = b.next_index

\* A reply that is right for log L: the first slot of the request, and a committed one.
ReplyOf(x, L, commit) ==
  /\ x.serial \in Serials /\ x.slot \in Slots /\ x.slot <= commit
  /\ First(L, x.slot, x.serial, x.slot)

LEMMA CommitRule ==
  ASSUME NEW st \in ReplicaState, Contiguous(st), NEW r \in Replicas
  PROVE  LET new == UpdateCommitIndex(r, st) IN
         /\ SameTip(st, new) /\ SameProgress(new, st)
         /\ new.trim_through = st.trim_through
         /\ new.last_applied = st.last_applied
         /\ new.response_cache = st.response_cache
         /\ \/ new.commit_index = st.commit_index
            \/ /\ new.commit_index \in Slots /\ new.commit_index <= LastLogIndex(st)
               /\ new.commit_index > st.commit_index
               /\ RoundAt(st, new.commit_index) = st.current_round
               /\ IsQuorum(Replicated(r, st, new.commit_index))
<1> DEFINE decided == {k \in Slots :
                          /\ st.commit_index < k /\ k <= LastLogIndex(st)
                          /\ RoundAt(st, k) = st.current_round
                          /\ IsQuorum(Replicated(r, st, k))}
           new == UpdateCommitIndex(r, st)
<1>1. decided # {} => Max(decided) \in decided
  BY MinMaxOfSlots, Zenon
<1>2. /\ SameProgress(new, st)
      /\ new.next_slot = st.next_slot /\ new.log = st.log
      /\ new.trim_through = st.trim_through /\ new.trim_round = st.trim_round
      /\ new.last_applied = st.last_applied
      /\ new.response_cache = st.response_cache
      /\ \/ new.commit_index = st.commit_index
         \/ decided # {} /\ new.commit_index = Max(decided)
  BY Zenon DEF UpdateCommitIndex, ReplicaState, SameProgress
<1> HIDE DEF new
<1>3. SameTip(st, new)
  BY <1>2, SameLogTip
<1>4. new.commit_index = st.commit_index \/ new.commit_index \in decided
  <2> HIDE DEF decided
  <2> QED BY <1>1, <1>2
<1> QED BY <1>2, <1>3, <1>4 DEF new

LEMMA ApplyFrame ==
  ASSUME NEW st \in ReplicaState
  PROVE  LET new == ApplyCommittedEntries(st) IN
         /\ SameProgress(new, st)
         /\ new.trim_through = st.trim_through
         /\ new.commit_index = st.commit_index
BY Zenon DEF ApplyCommittedEntries, TrimLogPrefix, ReplicaState, SameProgress

LEMMA TrimFrame ==
  ASSUME NEW st \in ReplicaState, NEW t \in 0 .. MaxSlot
  PROVE  LET new == TrimLogPrefix([st EXCEPT !.trim_through = t]) IN
         /\ SameProgress(new, st)
         /\ new.trim_through = t
         /\ new.commit_index = st.commit_index
         /\ new.last_applied = st.last_applied
         /\ new.response_cache = st.response_cache
BY Zenon DEF TrimLogPrefix, ReplicaState, SameProgress

\* A leader trims what every server has stored and what is committed.
LEMMA TrimRule ==
  ASSUME NEW st \in ReplicaState, Contiguous(st), NEW r \in Replicas
  PROVE  LET new == UpdateTrimWatermark(r, st) IN
         /\ SameTip(st, new) /\ SameProgress(new, st)
         /\ new.commit_index = st.commit_index
         /\ new.last_applied = st.last_applied
         /\ new.response_cache = st.response_cache
         /\ \/ new.trim_through = st.trim_through
            \/ /\ new.trim_through <= st.commit_index
               /\ \A s \in Replicas : new.trim_through <= st.match_index[s]
<1> DEFINE lows == {st.match_index[s] : s \in Replicas} \cup {st.commit_index}
           min == Min(lows)
           target == IF min > TrimRetention THEN min - TrimRetention ELSE 0
           trimmed == TrimLogPrefix([st EXCEPT !.trim_through = target])
           new == UpdateTrimWatermark(r, st)
<1>1. /\ lows \in SUBSET (0 .. MaxSlot) /\ lows # {} /\ st.commit_index \in lows
      /\ \A s \in Replicas : st.match_index[s] \in lows
  BY DEF ReplicaState
<1> HIDE DEF lows
<1>2. min \in 0 .. MaxSlot /\ \A y \in lows : min <= y
  BY <1>1, MinMaxOfIndices, BoundsAssumption
<1> HIDE DEF min
<1>3. /\ target \in 0 .. MaxSlot /\ target \in Nat
      /\ \A y \in lows : y \in Nat /\ target <= y
  <2>1. \A y \in lows : y \in Nat
    BY <1>1, BoundsAssumption
  <2> QED BY <1>2, <2>1, BoundsAssumption
<1>4. /\ target <= st.commit_index
      /\ \A s \in Replicas : target <= st.match_index[s]
  <2> HIDE DEF target
  <2> QED BY <1>1, <1>3
<1> HIDE DEF target
<1>5. new = IF st.role = "leader" /\ target > st.trim_through THEN trimmed ELSE st
  BY Zenon DEF UpdateTrimWatermark, trimmed, target, lows, min
<1>6. CASE new = trimmed /\ target > st.trim_through
  <2>1. st.trim_through <= target /\ target <= LastLogIndex(st)
    BY <1>3, <1>4, <1>6, Indices DEF Contiguous
  <2>2. SameTip(st, trimmed)
    BY <1>3, <2>1, TrimTip
  <2>3. /\ SameProgress(trimmed, st) /\ trimmed.trim_through = target
        /\ trimmed.commit_index = st.commit_index
        /\ trimmed.last_applied = st.last_applied
        /\ trimmed.response_cache = st.response_cache
    BY <1>3, TrimFrame
  <2> HIDE DEF trimmed, new
  <2> QED BY <1>4, <1>6, <2>2, <2>3 DEF new
<1>7. CASE new = st
  <2> HIDE DEF new
  <2> QED BY <1>7, SameLogTip DEF SameProgress, new
<1> HIDE DEF new, trimmed
<1> QED BY <1>5, <1>6, <1>7

\* The tail that handle_ack and a flush share: commit, apply, trim.
LEMMA LeaderTail ==
  ASSUME NEW st \in ReplicaState, Contiguous(st), NEW r \in Replicas
  PROVE  LET decided == UpdateCommitIndex(r, st)
             final == UpdateTrimWatermark(r, ApplyCommittedEntries(decided)) IN
         /\ SameTip(st, final) /\ SameProgress(final, st)
         /\ \/ final.commit_index = st.commit_index
            \/ /\ final.commit_index \in Slots /\ final.commit_index <= LastLogIndex(st)
               /\ RoundAt(st, final.commit_index) = st.current_round
               /\ IsQuorum(Replicated(r, st, final.commit_index))
         /\ \/ final.trim_through = st.trim_through
            \/ /\ final.trim_through <= final.commit_index
               /\ \A s \in Replicas : final.trim_through <= st.match_index[s]
         /\ \A L \in Log : PrefixOf(st, L) /\ CacheOf(st, L) =>
               /\ CacheOf(final, L)
               /\ \A x \in RepliesOf(decided) : ReplyOf(x, L, final.commit_index)
<1> DEFINE decided == UpdateCommitIndex(r, st)
           applied == ApplyCommittedEntries(decided)
           final == UpdateTrimWatermark(r, applied)
<1>1. /\ SameTip(st, decided) /\ SameProgress(decided, st)
      /\ decided.trim_through = st.trim_through
      /\ decided.last_applied = st.last_applied
      /\ decided.response_cache = st.response_cache
      /\ \/ decided.commit_index = st.commit_index
         \/ /\ decided.commit_index \in Slots /\ decided.commit_index <= LastLogIndex(st)
            /\ RoundAt(st, decided.commit_index) = st.current_round
            /\ IsQuorum(Replicated(r, st, decided.commit_index))
  BY CommitRule
<1>2. decided \in ReplicaState /\ Contiguous(decided)
  BY UpdateCommitAdvances DEF Advances
<1> HIDE DEF decided
<1>3. /\ SameTip(decided, applied) /\ SameProgress(applied, decided)
      /\ applied.trim_through = decided.trim_through
      /\ applied.commit_index = decided.commit_index
      /\ applied \in ReplicaState /\ Contiguous(applied)
  BY <1>2, ApplyTip, ApplyFrame, ApplyAdvances DEF Advances
<1>4. \A L \in Log : PrefixOf(decided, L) /\ CacheOf(decided, L) =>
         /\ CacheOf(applied, L)
         /\ \A x \in RepliesOf(decided) : ReplyOf(x, L, decided.commit_index)
  BY <1>2, ApplyCache DEF ReplyOf
<1> HIDE DEF applied
<1>5. /\ SameTip(applied, final) /\ SameProgress(final, applied)
      /\ final.commit_index = applied.commit_index
      /\ final.last_applied = applied.last_applied
      /\ final.response_cache = applied.response_cache
      /\ \/ final.trim_through = applied.trim_through
         \/ /\ final.trim_through <= applied.commit_index
            /\ \A s \in Replicas : final.trim_through <= applied.match_index[s]
  BY <1>3, TrimRule
<1> HIDE DEF final
<1>6. SameTip(st, final)
  BY <1>1, <1>3, <1>5, SameTipTransitive
<1>7. SameProgress(final, st) /\ applied.match_index = st.match_index
  BY <1>1, <1>3, <1>5 DEF SameProgress
<1>8. ASSUME NEW L \in Log, PrefixOf(st, L), CacheOf(st, L)
      PROVE  /\ CacheOf(final, L)
             /\ \A x \in RepliesOf(decided) : ReplyOf(x, L, final.commit_index)
  <2>1. PrefixOf(decided, L)
    BY <1>1, <1>8 DEF SameTip
  <2>2. CacheOf(decided, L)
    BY <1>1, <1>8 DEF CacheOf
  <2>3. /\ CacheOf(applied, L)
        /\ \A x \in RepliesOf(decided) : ReplyOf(x, L, decided.commit_index)
    BY <1>4, <2>1, <2>2
  <2> QED BY <1>3, <1>5, <2>3 DEF CacheOf
<1> QED BY <1>1, <1>3, <1>5, <1>6, <1>7, <1>8 DEF final, applied, decided

-----------------------------------------------------------------------------
(* Following a leader *)

SameStore(a, b) ==
  /\ a.log = b.log /\ a.next_slot = b.next_slot
  /\ a.commit_index = b.commit_index /\ a.last_applied = b.last_applied
  /\ a.trim_through = b.trim_through /\ a.trim_round = b.trim_round
  /\ a.response_cache = b.response_cache

LEMMA SameStoreTip ==
  ASSUME NEW old, NEW new, SameStore(new, old)
  PROVE  SameTip(old, new)
BY SameLogTip DEF SameStore

\* The log, a prefix of A, has taken over B up to slot q.
Stored(old, new, A, B, q) ==
  \/ /\ SameTip(old, new) /\ q <= LastLogIndex(old) /\ Agree(A, B, q)
     /\ CacheOf(old, A) => CacheOf(new, A)
  \/ /\ LastLogIndex(new) = q /\ PrefixOf(new, B)
     /\ TrimRoundInit(old) => TrimRoundInit(new)
     /\ old.commit_index <= q /\ Agree(A, B, old.commit_index)
     /\ \A k \in Slots : k <= LastLogIndex(old) /\ A[k] = B[k] => k <= q
     /\ CacheOf(old, B) => CacheOf(new, B)

\* If the whole log fits into a batch, a proposal reaches as far as it decides.
WholeBatch(m) == AppendBatch >= MaxSlot => m.decide_through <= LastProposed(m)

\* A propose_message of the leader whose log is B.
ProposalOf(m, B) ==
  /\ WholeBatch(m)
  /\ \A k \in Slots : m.entries[k] # Absent => m.entries[k] = B[k]
  /\ m.prev_log_index # 0 =>
        /\ B[m.prev_log_index] # Absent
        /\ B[m.prev_log_index].round = m.prev_log_round

\* A prefix that ends with the right round is the right prefix.
LEMMA PrefixAgrees ==
  ASSUME NEW st \in ReplicaState, Contiguous(st), NEW m \in ProposeMessage,
         NEW A \in Log, NEW B \in Log, PrefixOf(st, A), Matching(A, B), ProposalOf(m, B),
         PrefixMatches(st, m.prev_log_index, m.prev_log_round)
  PROVE  Agree(A, B, m.prev_log_index)
<1> DEFINE p == m.prev_log_index
<1>1. p \in 0 .. MaxSlot
  BY DEF ProposeMessage
<1>2. p \in Nat /\ st.trim_through <= p /\ p <= LastLogIndex(st)
  BY <1>1, PrefixInside
<1>3. CASE p = 0
  BY <1>3, SlotIsNatural DEF Agree
<1>4. CASE p # 0
  <2>1. p \in Slots
    BY <1>1, <1>4, BoundsAssumption DEF Slots
  <2>2. RoundAt(st, p) = A[p].round /\ A[p] # Absent
    BY <1>2, <2>1, RoundAtPrefix
  <2>3. RoundAt(st, p) = m.prev_log_round
    <3>1. st.trim_through \in Nat
      BY Indices
    <3> QED BY <1>2, <1>4, <2>1, <3>1 DEF RoundAt, PrefixMatches
  <2> QED BY <1>4, <2>1, <2>2, <2>3 DEF ProposalOf, Matching
<1> QED BY <1>3, <1>4

\* handle_propose: it refuses and keeps its log, or it has taken over the log of the
\* leader up to the slot it acknowledges.
LEMMA ProposeStores ==
  ASSUME NEW r \in Replicas, NEW old \in ReplicaState, Contiguous(old),
         old.last_applied = old.commit_index,
         NEW m \in ProposeMessage, From(m.prev_log_index, m.entries),
         NEW A \in Log, NEW B \in Log, PrefixOf(old, A), Matching(A, B), ProposalOf(m, B)
  PROVE  LET new == ProposeOutcome(r, old, m).state
             ack == ProposeOutcome(r, old, m).ack
             q == LastProposed(m) IN
         \/ ~ack.success /\ SameStore(new, old)
         \/ /\ ack.success /\ ack.server = r /\ ack.round = m.round
            /\ ack.match_index = q /\ ack.next_index = q + 1
            /\ new.role = "follower" /\ new.current_round = m.round
            /\ old.current_round <= m.round
            /\ \A k \in Slots : k <= q => B[k] # Absent
            /\ new.commit_index = old.commit_index \/ new.commit_index <= m.decide_through
            /\ new.trim_through = old.trim_through \/ new.trim_through <= m.trim_through
            /\ Stored(old, new, A, B, q)
<1> DEFINE st == BecomeFollower(old, m.round, m.leader)
           conflicts == Conflicts(st, m.entries)
           stuck == conflicts # {} /\ st.commit_index >= Min(conflicts)
           kept == StoreUpTo(st, m.entries, Min(conflicts))
           appended == AppendEntries(st, m.entries)
           committed == FollowerCommit(appended, m)
           applied == ApplyCommittedEntries(committed)
           final == FollowerTrim(applied, m)
           matches == PrefixMatches(st, m.prev_log_index, m.prev_log_round)
           new == ProposeOutcome(r, old, m).state
           ack == ProposeOutcome(r, old, m).ack
           q == LastProposed(m)
<1>1. \/ new = old /\ ack.success = FALSE
      \/ new = st /\ ack.success = FALSE
      \/ matches /\ stuck /\ new = kept /\ ack.success = FALSE
      \/ /\ ~(m.round < old.current_round) /\ matches /\ ~stuck
         /\ new = final /\ ack = Accept(r, appended, m)
  BY Zenon DEF ProposeOutcome, Nack
<1>2. /\ m.round \in Rounds /\ m.leader \in Replicas /\ m.entries \in Log
      /\ m.prev_log_index \in 0 .. MaxSlot /\ m.round \in Nat
      /\ m.decide_through \in 0 .. MaxSlot /\ m.trim_through \in 0 .. MaxSlot
  BY BoundsAssumption DEF ProposeMessage, Rounds
<1>3. /\ st \in ReplicaState /\ Contiguous(st) /\ st.last_applied = st.commit_index
  BY <1>2, BecomeFollowerSettles DEF Settles, Advances
<1>4. /\ SameStore(st, old) /\ st.role = "follower"
      /\ st.current_round = IF m.round > old.current_round THEN m.round
                            ELSE old.current_round
  BY Zenon DEF BecomeFollower, SameStore, ReplicaState
<1> HIDE DEF st
<1>5. SameTip(old, st) /\ PrefixOf(st, A)
  BY <1>4, SameStoreTip DEF SameTip
<1>6. /\ q \in 0 .. MaxSlot /\ q \in Nat
      /\ m.prev_log_index \in Nat /\ m.prev_log_index <= q
      /\ Run(m.prev_log_index, q, m.entries)
  BY LastProposedRun
<1> HIDE DEF q
<1>7. matches => /\ st.trim_through <= m.prev_log_index
                 /\ m.prev_log_index <= LastLogIndex(st)
                 /\ Agree(A, B, m.prev_log_index)
  BY <1>2, <1>3, <1>5, PrefixInside, PrefixAgrees
<1>8. CASE new = old /\ ack.success = FALSE
  <2> HIDE DEF new, ack
  <2>1. SameStore(new, old)
    BY <1>8 DEF SameStore
  <2> QED BY <1>8, <2>1 DEF new, ack
<1>9. CASE new = st /\ ack.success = FALSE
  <2> HIDE DEF new, ack
  <2> QED BY <1>4, <1>9 DEF new, ack
<1>10. CASE matches /\ stuck /\ new = kept /\ ack.success = FALSE
  <2> DEFINE c == Min(conflicts)
             part == [k \in Slots |-> IF k < c THEN m.entries[k] ELSE Absent]
  <2>1. conflicts \in SUBSET Slots /\ conflicts # {}
    BY <1>10 DEF Conflicts
  <2>2. c \in Slots /\ c \in conflicts
    <3> HIDE DEF conflicts
    <3> QED BY <2>1, MinMaxOfSlots
  <2>3. st.log[c] # Absent
    <3> HIDE DEF c
    <3> QED BY <2>2 DEF Conflicts
  <2> HIDE DEF conflicts, c
  <2>4. c <= LastLogIndex(st)
    BY <1>3, <2>2, <2>3 DEF Contiguous
  <2>5. part \in Log
    BY <1>2 DEF Log
  <2>6. \A k \in Slots : part[k] # Absent => k <= LastLogIndex(st)
    BY <1>3, <2>2, <2>4, SlotIsNatural, Indices
  <2>7. kept = StoreMissing(st, part)
    BY Zenon DEF StoreUpTo, c
  <2> HIDE DEF part
  <2>8. /\ kept.log = st.log /\ kept.next_slot = st.next_slot
        /\ kept.trim_through = st.trim_through /\ kept.trim_round = st.trim_round
    BY <1>3, <2>5, <2>6, <2>7, StoreNothing
  <2>9. /\ kept.commit_index = st.commit_index /\ kept.last_applied = st.last_applied
        /\ kept.response_cache = st.response_cache
    BY <1>3, <2>7, Zenon DEF StoreMissing, ReplicaState
  <2> HIDE DEF kept, new, ack
  <2>10. SameStore(new, old)
    BY <1>4, <1>10, <2>8, <2>9 DEF SameStore
  <2> QED BY <1>10, <2>10 DEF new, ack
<1>11. CASE /\ ~(m.round < old.current_round) /\ matches /\ ~stuck
            /\ new = final /\ ack = Accept(r, appended, m)
  <2>1. Keeps(st, appended)
    <3> HIDE DEF new, ack
    <3> QED BY <1>2, <1>3, <1>6, <1>7, <1>11, AppendEntriesKeeps DEF Run, From
  <2>2. /\ appended \in ReplicaState /\ Contiguous(appended)
        /\ appended.commit_index = st.commit_index /\ appended.last_applied = st.last_applied
        /\ appended.trim_through = st.trim_through
    BY <2>1 DEF Keeps, Advances
  <2>3. /\ appended.response_cache = st.response_cache
        /\ appended.role = st.role /\ appended.current_round = st.current_round
    BY <1>3, Zenon DEF AppendEntries, StoreMissing, Truncate, ReplicaState
  <2>4. \/ SameTip(st, appended) /\ q <= LastLogIndex(st) /\ Agree(A, B, q)
        \/ /\ LastLogIndex(appended) = q /\ PrefixOf(appended, B)
           /\ TrimRoundInit(st) => TrimRoundInit(appended)
           /\ st.commit_index <= q /\ Agree(A, B, st.commit_index)
           /\ \A k \in Slots : k <= LastLogIndex(st) /\ A[k] = B[k] => k <= q
    <3>1. \A k \in Slots : m.entries[k] # Absent => m.entries[k] = B[k]
      BY DEF ProposalOf
    <3> HIDE DEF new, ack
    <3> QED BY <1>2, <1>3, <1>5, <1>6, <1>7, <1>11, <3>1, AppendMatches
  <2> HIDE DEF appended
  <2>5. /\ SameTip(appended, committed)
        /\ committed.role = appended.role
        /\ committed.current_round = appended.current_round
        /\ committed.trim_through = appended.trim_through
        /\ committed.last_applied = appended.last_applied
        /\ committed.response_cache = appended.response_cache
        /\ \/ committed.commit_index = appended.commit_index
           \/ committed.commit_index <= m.decide_through
    <3>1. /\ committed.log = appended.log /\ committed.next_slot = appended.next_slot
          /\ committed.trim_through = appended.trim_through
          /\ committed.trim_round = appended.trim_round
          /\ committed.role = appended.role
          /\ committed.current_round = appended.current_round
          /\ committed.last_applied = appended.last_applied
          /\ committed.response_cache = appended.response_cache
          /\ \/ committed.commit_index = appended.commit_index
             \/ committed.commit_index = Min({m.decide_through, LastLogIndex(appended)})
      BY <2>2, Zenon DEF FollowerCommit, ReplicaState
    <3>2. {m.decide_through, LastLogIndex(appended)} \in SUBSET (0 .. MaxSlot)
      BY <1>2, <2>2, LastLogIndexType
    <3>3. Min({m.decide_through, LastLogIndex(appended)}) <= m.decide_through
      BY <3>2, MinMaxOfIndices, BoundsAssumption
    <3> HIDE DEF committed
    <3> QED BY <3>1, <3>3, SameLogTip
  <2>6. committed \in ReplicaState /\ Contiguous(committed)
    BY <2>2, FollowerCommitAdvances DEF Advances
  <2> HIDE DEF committed
  <2>7. /\ SameTip(committed, applied) /\ SameProgress(applied, committed)
        /\ applied.trim_through = committed.trim_through
        /\ applied.commit_index = committed.commit_index
        /\ applied \in ReplicaState /\ Contiguous(applied)
        /\ \A L \in Log : PrefixOf(committed, L) /\ CacheOf(committed, L) => CacheOf(applied, L)
    BY <2>6, ApplyTip, ApplyFrame, ApplyAdvances, ApplyCache DEF Advances
  <2> HIDE DEF applied
  <2>8. /\ SameTip(applied, final) /\ SameProgress(final, applied)
        /\ final.commit_index = applied.commit_index
        /\ final.last_applied = applied.last_applied
        /\ final.response_cache = applied.response_cache
        /\ \/ final.trim_through = applied.trim_through
           \/ final.trim_through <= m.trim_through
    <3> DEFINE t == Min({m.trim_through, applied.last_applied})
               trimmed == TrimLogPrefix([applied EXCEPT !.trim_through = t])
    <3>1. {m.trim_through, applied.last_applied} \in SUBSET (0 .. MaxSlot)
      BY <1>2, <2>7 DEF ReplicaState
    <3>2. /\ t \in 0 .. MaxSlot /\ t \in {m.trim_through, applied.last_applied}
          /\ t <= applied.last_applied /\ t <= m.trim_through
      BY <3>1, MinMaxOfIndices, BoundsAssumption
    <3>3. final = IF m.trim_through > applied.trim_through THEN trimmed ELSE applied
      BY Zenon DEF FollowerTrim
    <3> HIDE DEF t
    <3>4. CASE m.trim_through > applied.trim_through /\ final = trimmed
      <4>1. m.trim_through \in Nat /\ t \in Nat
        BY <1>2, <3>2, BoundsAssumption
      <4>2. applied.trim_through <= t /\ t <= LastLogIndex(applied)
        BY <2>7, <3>2, <3>4, <4>1, Indices DEF Contiguous
      <4>3. SameTip(applied, trimmed)
        BY <2>7, <3>2, <4>2, TrimTip
      <4>4. /\ SameProgress(trimmed, applied) /\ trimmed.trim_through = t
            /\ trimmed.commit_index = applied.commit_index
            /\ trimmed.last_applied = applied.last_applied
            /\ trimmed.response_cache = applied.response_cache
        BY <2>7, <3>2, TrimFrame
      <4> HIDE DEF trimmed, final
      <4> QED BY <3>2, <3>4, <4>3, <4>4
    <3>5. CASE final = applied
      <4> HIDE DEF final
      <4> QED BY <3>5, SameLogTip DEF SameProgress
    <3> HIDE DEF trimmed, final
    <3> QED BY <3>3, <3>4, <3>5
  <2> HIDE DEF final
  <2>9. SameTip(appended, final)
    BY <2>5, <2>7, <2>8, SameTipTransitive
  <2>10. /\ final.role = "follower" /\ final.current_round = m.round
         /\ old.current_round <= m.round
    <3>1. old.current_round \in Nat
      BY Indices
    <3>2. ~(m.round < old.current_round)
      BY <1>11
    <3> QED BY <1>2, <1>4, <2>3, <2>5, <2>7, <2>8, <3>1, <3>2 DEF SameProgress
  <2>11. /\ final.commit_index = old.commit_index \/ final.commit_index <= m.decide_through
         /\ final.trim_through = old.trim_through \/ final.trim_through <= m.trim_through
    BY <1>4, <2>2, <2>5, <2>7, <2>8 DEF SameStore
  <2>12. ASSUME NEW L \in Log, PrefixOf(appended, L), CacheOf(old, L)
         PROVE  CacheOf(final, L)
    <3>1. CacheOf(committed, L)
      BY <1>4, <2>2, <2>3, <2>5, <2>12 DEF CacheOf, SameStore
    <3>2. PrefixOf(committed, L)
      BY <2>5, <2>12 DEF SameTip
    <3>3. CacheOf(applied, L)
      BY <2>7, <3>1, <3>2
    <3> QED BY <2>8, <3>3 DEF CacheOf
  <2>13. Stored(old, final, A, B, q)
    <3>1. CASE SameTip(st, appended) /\ q <= LastLogIndex(st) /\ Agree(A, B, q)
      <4>1. SameTip(old, final) /\ LastLogIndex(st) = LastLogIndex(old)
        BY <1>5, <2>9, <3>1, SameTipTransitive DEF SameTip
      <4>2. PrefixOf(appended, A)
        BY <1>5, <3>1 DEF SameTip
      <4> QED BY <2>12, <3>1, <4>1, <4>2 DEF Stored
    <3>2. CASE /\ LastLogIndex(appended) = q /\ PrefixOf(appended, B)
               /\ TrimRoundInit(st) => TrimRoundInit(appended)
               /\ st.commit_index <= q /\ Agree(A, B, st.commit_index)
               /\ \A k \in Slots : k <= LastLogIndex(st) /\ A[k] = B[k] => k <= q
      <4>1. LastLogIndex(final) = q /\ PrefixOf(final, B)
        BY <2>9, <3>2 DEF SameTip
      <4>2. TrimRoundInit(old) => TrimRoundInit(final)
        BY <1>5, <2>9, <3>2 DEF SameTip
      <4>3. st.commit_index = old.commit_index /\ LastLogIndex(st) = LastLogIndex(old)
        BY <1>4, <1>5 DEF SameStore, SameTip
      <4> QED BY <2>12, <3>2, <4>1, <4>2, <4>3 DEF Stored
    <3> QED BY <2>4, <3>1, <3>2
  <2>14. \A k \in Slots : k <= q => B[k] # Absent
    <3> SUFFICES ASSUME NEW k \in Slots, k <= q
                 PROVE  B[k] # Absent
      OBVIOUS
    <3>1. CASE k <= m.prev_log_index
      <4>1. A[k] = B[k] /\ k <= LastLogIndex(st)
        BY <1>3, <1>6, <1>7, <1>11, <3>1, Indices, SlotIsNatural DEF Agree
      <4> QED BY <1>5, <4>1 DEF PrefixOf
    <3>2. CASE k > m.prev_log_index
      BY <1>6, <3>2, SlotIsNatural DEF Run, ProposalOf
    <3> QED BY <1>6, <3>1, <3>2, SlotIsNatural
  <2>15. /\ ack.success = TRUE /\ ack.server = r /\ ack.round = m.round
         /\ ack.match_index = q /\ ack.next_index = q + 1
    <3>1. /\ ack.success = TRUE /\ ack.server = r /\ ack.round = appended.current_round
          /\ ack.match_index = q /\ ack.next_index = q + 1
      <4> HIDE DEF ack
      <4> QED BY <1>11, Zenon DEF Accept, q
    <3> HIDE DEF ack
    <3> QED BY <2>5, <2>7, <2>8, <2>10, <3>1 DEF SameProgress
  <2> HIDE DEF new, ack
  <2> QED BY <1>11, <2>10, <2>11, <2>13, <2>14, <2>15 DEF new, ack, q
<1> HIDE DEF new, ack
<1> QED BY <1>1, <1>8, <1>9, <1>10, <1>11

-----------------------------------------------------------------------------
(* The invariant *)

\* The rounds that have had a leader.
Elected == {a.round : a \in acked}

\* The leaders' logs form a tree: an entry and all before it are the ones that the
\* leader of the entry's round had there.
LogTree ==
  /\ 0 \in Elected
  /\ \A u \in Elected, k \in Slots : leaderLog[u][k] # Absent =>
        /\ leaderLog[u][k].round \in Elected
        /\ leaderLog[u][k].round <= u
        /\ \A j \in Slots : j <= k =>
              /\ leaderLog[u][j] # Absent
              /\ leaderLog[leaderLog[u][k].round][j] = leaderLog[u][j]

\* A replica's log is a prefix of the one of the leader of its last round.
LogSound(q) ==
  LET st == replica[q]
  IN  /\ LastLogRound(st) \in Elected
      /\ LastLogRound(st) <= st.current_round
      /\ PrefixOf(st, leaderLog[LastLogRound(st)])
      /\ TrimRoundInit(st)

\* A server keeps what it has acknowledged, unless the leader of a later round that
\* it knows of has something else there.
AckKept(a) ==
  LET st == replica[a.server]
  IN  /\ a.round <= st.current_round
      /\ \A k \in Slots : k <= a.index =>
            /\ leaderLog[a.round][k] # Absent
            /\ \/ /\ k <= LastLogIndex(st)
                  /\ leaderLog[LastLogRound(st)][k] = leaderLog[a.round][k]
               \/ \E u \in Elected : /\ a.round < u /\ u <= st.current_round
                                      /\ leaderLog[u][k] # leaderLog[a.round][k]

\* Every round that has had a leader was won by a quorum of promises to a replica
\* that is not a candidate of that round any more.
ElectedOnce ==
  \A u \in Elected : u # 0 =>
    \E l \in Replicas, Q \in SUBSET Replicas :
       /\ IsQuorum(Q) /\ \A p \in Q : Promise(u, p, l) \in granted
       /\ u <= replica[l].current_round
       /\ ~(replica[l].role = "candidate" /\ replica[l].current_round = u)

\* A leader has the log that is recorded for its round, and counts what is acknowledged.
Leading(q) ==
  LET st == replica[q]
  IN  st.role = "leader" =>
        /\ Acked(q, st.current_round, LastLogIndex(st)) \in acked
        /\ PrefixOf(st, leaderLog[st.current_round])
        /\ \A k \in Slots : leaderLog[st.current_round][k] # Absent =>
                              k <= LastLogIndex(st)
        /\ \A s \in Replicas :
              /\ st.next_index[s] <= LastLogIndex(st) + 1
              /\ st.match_index[s] # 0 =>
                    Acked(s, st.current_round, st.match_index[s]) \in acked

\* Proposals carry the leader's log, and positive acks what is acknowledged.
MessageSound(m) ==
  /\ m.type = "propose" => m.round \in Elected /\ ProposalOf(m, leaderLog[m.round])
  /\ m.type = "ack" /\ m.success =>
        /\ Acked(m.server, m.round, m.match_index) \in acked
        /\ m.next_index = m.match_index + 1

HistInv ==
  /\ LogTree
  /\ ElectedOnce
  /\ \A q \in Replicas : LogSound(q) /\ Leading(q)
  /\ \A a \in acked : AckKept(a)
  /\ \A x, y \in Replicas : \A m \in InTransit(channel, x, y) : MessageSound(m)

Base == TypeInv /\ LogInv /\ ElectionInv

LEMMA HistFacts ==
  ASSUME TypeInv
  PROVE  /\ \A t \in Elected : t \in Rounds /\ t \in Nat /\ leaderLog[t] \in Log
         /\ \A t \in Rounds : leaderLog[t] \in Log
         /\ \A a \in acked : /\ a.round \in Elected /\ a.server \in Replicas
                              /\ a.index \in 0 .. MaxSlot /\ a.index \in Nat
                              /\ a = Acked(a.server, a.round, a.index)
<1>1. leaderLog \in [Rounds -> Log] /\ acked \subseteq AckRecord
  BY TypeFacts DEF HistoryTyped
<1>2. \A a \in acked : /\ a.round \in Rounds /\ a.server \in Replicas
                       /\ a.index \in 0 .. MaxSlot
                       /\ a = [server |-> a.server, round |-> a.round, index |-> a.index]
  BY <1>1 DEF AckRecord
<1>3. \A t \in Elected : t \in Rounds
  BY <1>2 DEF Elected
<1> QED BY <1>1, <1>2, <1>3, BoundsAssumption DEF Elected, Rounds, Acked

LEMMA BaseFacts ==
  ASSUME Base, NEW q \in Replicas
  PROVE  /\ TypeInv /\ LogInv /\ ElectionInv
         /\ replica[q] \in ReplicaState /\ Contiguous(replica[q])
         /\ replica[q].last_applied = replica[q].commit_index
         /\ replica[q].current_round \in Nat /\ replica[q].current_round \in Rounds
<1>1. TypeInv /\ LogInv /\ ElectionInv
  BY DEF Base
<1>2. /\ replica[q] \in ReplicaState /\ Contiguous(replica[q])
      /\ replica[q].last_applied = replica[q].commit_index
  BY <1>1, LogFacts
<1> QED BY <1>1, <1>2, Indices DEF ReplicaState

\* Entries of the same round at the same slot have the same history.
LEMMA TreeMatching ==
  ASSUME LogTree, NEW u \in Elected, NEW v \in Elected
  PROVE  Matching(leaderLog[u], leaderLog[v])
BY DEF LogTree, Matching, Agree

\* Rounds do not decrease along a log.
LEMMA TreeRounds ==
  ASSUME LogTree, NEW u \in Elected, NEW k \in Slots, leaderLog[u][k] # Absent,
         NEW j \in Slots, j <= k
  PROVE  leaderLog[u][j].round <= leaderLog[u][k].round
BY DEF LogTree

\* Of all leaders' logs it is a prefix of, a replica's log shares its history with the
\* one of its last round.
LEMMA TipAgrees ==
  ASSUME TypeInv, LogTree, NEW st \in ReplicaState, Contiguous(st),
         NEW v \in Elected, PrefixOf(st, leaderLog[v])
  PROVE  /\ LastLogRound(st) \in Elected /\ LastLogRound(st) <= v
         /\ Agree(leaderLog[LastLogRound(st)], leaderLog[v], LastLogIndex(st))
         /\ PrefixOf(st, leaderLog[LastLogRound(st)])
<1> DEFINE last == LastLogIndex(st)
           tip == LastLogRound(st)
<1>1. leaderLog[v] \in Log /\ v \in Nat /\ \A t \in Elected : leaderLog[t] \in Log
  BY HistFacts
<1>2. CASE last = 0
  <2>1. tip = 0
    BY <1>1, <1>2, TipRound
  <2>2. \A k \in Slots : ~(k <= last)
    BY <1>2, SlotIsNatural
  <2> HIDE DEF last, tip
  <2> QED BY <1>1, <2>1, <2>2 DEF LogTree, Agree, PrefixOf, last, tip
<1>3. CASE last # 0
  <2>1. last \in Slots /\ leaderLog[v][last] # Absent /\ tip = leaderLog[v][last].round
    BY <1>1, <1>3, TipRound
  <2> HIDE DEF last, tip
  <2>2. tip \in Elected /\ tip <= v /\ Agree(leaderLog[tip], leaderLog[v], last)
    BY <2>1 DEF LogTree, Agree
  <2>3. Agree(leaderLog[v], leaderLog[tip], last)
    BY <2>2 DEF Agree
  <2>4. PrefixOf(st, leaderLog[tip])
    BY <1>1, <2>2, <2>3, AgreePrefix DEF last
  <2> QED BY <2>2, <2>4 DEF last, tip
<1> QED BY <1>2, <1>3

-----------------------------------------------------------------------------
(* What a step does to the history of the leaders' logs *)

\* Neither the log's end nor the history changes.
Idle(r, new) ==
  SameTip(replica[r], new) /\ leaderLog' = leaderLog /\ acked' = acked

\* r has taken over the log of the leader of round w up to slot q.
Takes(r, new, w, q) ==
  LET old == replica[r]
  IN  /\ w \in Elected /\ q \in 0 .. MaxSlot
      /\ old.current_round <= w /\ new.current_round = w /\ new.role = "follower"
      /\ \A k \in Slots : k <= q => leaderLog[w][k] # Absent
      /\ Stored(old, new, leaderLog[LastLogRound(old)], leaderLog[w], q)
      /\ leaderLog' = leaderLog
      /\ acked' = acked \cup {Acked(r, w, q)}

\* The leader r appends entries of its round; its log is then L.
Extends(r, new, L) ==
  LET old == replica[r]
      u == old.current_round
  IN  /\ old.role = "leader" /\ new.role = "leader" /\ new.current_round = u
      /\ LastLogRound(new) = u
      /\ LastLogIndex(new) >= LastLogIndex(old)
      /\ PrefixOf(new, L)
      /\ TrimRoundInit(old) => TrimRoundInit(new)
      /\ Agree(leaderLog[u], L, LastLogIndex(old))
      /\ \A k \in Slots : k > LastLogIndex(old) /\ L[k] # Absent =>
                            k <= LastLogIndex(new) /\ L[k].round = u
      /\ leaderLog' = [leaderLog EXCEPT ![u] = L]
      /\ acked' = acked \cup {Acked(r, u, LastLogIndex(new))}

\* The candidate r wins a round that had no leader; its log is then L.
Wins(r, new, L) ==
  LET old == replica[r]
      u == new.current_round
  IN  /\ new.role = "leader" /\ u \notin Elected
      /\ SameTip(old, new)
      /\ Agree(leaderLog[LastLogRound(old)], L, LastLogIndex(old))
      /\ \A k \in Slots : L[k] # Absent => k <= LastLogIndex(old)
      /\ leaderLog' = [leaderLog EXCEPT ![u] = L]
      /\ acked' = acked \cup {Acked(r, u, LastLogIndex(new))}

HistoryStep(r, new) ==
  \/ Idle(r, new)
  \/ \E w \in Rounds, q \in 0 .. MaxSlot : Takes(r, new, w, q)
  \/ \E L \in Log : Extends(r, new, L) \/ Wins(r, new, L)

\* The whole effect of a step of replica r that HistInv is about.
HistEffect(r, new) ==
  /\ new \in ReplicaState /\ Contiguous(new)
  /\ replica' = [replica EXCEPT ![r] = new]
  /\ replica[r].current_round <= new.current_round
  /\ HistoryStep(r, new)
  /\ new.role = "leader" =>
        /\ \/ \E L \in Log : Wins(r, new, L)
           \/ replica[r].role = "leader" /\ new.current_round = replica[r].current_round
        /\ \A s \in Replicas :
              /\ new.next_index[s] <= LastLogIndex(new) + 1
              /\ new.match_index[s] # 0 =>
                    Acked(s, new.current_round, new.match_index[s]) \in acked'
  /\ new.role = "candidate" =>
        \/ replica[r].role = "candidate" /\ new.current_round = replica[r].current_round
        \/ replica[r].current_round < new.current_round
  /\ \A x, y \in Replicas : \A m \in InTransit(channel', x, y) :
        m \in InTransit(channel, x, y) \/ MessageSound(m)'
  /\ granted \subseteq granted'

\* The history of a round that has had a leader only grows by entries of that round.
Grows ==
  /\ acked \subseteq acked'
  /\ \A t \in Elected, k \in Slots :
        \/ leaderLog'[t][k] = leaderLog[t][k]
        \/ /\ leaderLog[t][k] = Absent
           /\ leaderLog'[t][k] # Absent /\ leaderLog'[t][k].round = t

LEMMA EffectGrows ==
  ASSUME Base, HistInv, NEW r \in Replicas, NEW new, HistEffect(r, new)
  PROVE  Grows
<1>1. /\ leaderLog \in [Rounds -> Log] /\ acked \subseteq AckRecord
      /\ \A t \in Elected : t \in Rounds
  BY TypeFacts, HistFacts DEF Base, HistoryTyped
<1>2. CASE Idle(r, new)
  BY <1>2 DEF Idle, Grows
<1>3. ASSUME NEW w \in Rounds, NEW q \in 0 .. MaxSlot, Takes(r, new, w, q)
      PROVE  Grows
  BY <1>3 DEF Takes, Grows
<1>4. ASSUME NEW L \in Log, Extends(r, new, L)
      PROVE  Grows
  <2> DEFINE old == replica[r]
             u == old.current_round
             last == LastLogIndex(old)
  <2>1. /\ old \in ReplicaState /\ last \in Nat
    BY BaseFacts, Indices
  <2>2. /\ old.role = "leader"
        /\ Agree(leaderLog[u], L, last)
        /\ \A k \in Slots : k > last /\ L[k] # Absent => L[k].round = u
        /\ leaderLog' = [leaderLog EXCEPT ![u] = L] /\ acked \subseteq acked'
    BY <1>4 DEF Extends
  <2>3. \A k \in Slots : leaderLog[u][k] # Absent => k <= last
    BY <2>2 DEF HistInv, Leading
  <2> HIDE DEF u, last
  <2>4. ASSUME NEW t \in Elected, NEW k \in Slots
        PROVE  \/ leaderLog'[t][k] = leaderLog[t][k]
               \/ /\ leaderLog[t][k] = Absent
                  /\ leaderLog'[t][k] # Absent /\ leaderLog'[t][k].round = t
    <3>1. CASE t # u
      BY <1>1, <2>2, <3>1
    <3>2. CASE t = u
      <4>1. leaderLog'[t] = L
        BY <1>1, <2>2, <3>2
      <4>2. CASE k <= last
        BY <2>2, <3>2, <4>1, <4>2 DEF Agree
      <4>3. CASE k > last
        <5>1. leaderLog[t][k] = Absent
          BY <2>1, <2>3, <3>2, <4>3, SlotIsNatural
        <5> QED BY <2>2, <3>2, <4>1, <4>3, <5>1
      <4> QED BY <2>1, <4>2, <4>3, SlotIsNatural
    <3> QED BY <3>1, <3>2
  <2> QED BY <2>2, <2>4 DEF Grows
<1>5. ASSUME NEW L \in Log, Wins(r, new, L)
      PROVE  Grows
  BY <1>1, <1>5 DEF Wins, Grows
<1> QED BY <1>2, <1>3, <1>4, <1>5 DEF HistEffect, HistoryStep

\* What Grows keeps: entries, prefixes, and disagreements with a later round.
LEMMA GrowsKeeps ==
  ASSUME TypeInv, LogTree, Grows
  PROVE  /\ Elected \subseteq Elected'
         /\ \A t \in Elected, k \in Slots : leaderLog[t][k] # Absent =>
               leaderLog'[t][k] = leaderLog[t][k]
         /\ \A t \in Elected : \A st : PrefixOf(st, leaderLog[t]) => PrefixOf(st, leaderLog'[t])
         /\ \A t \in Elected, u \in Elected, k \in Slots :
               /\ t < u /\ leaderLog[t][k] # Absent /\ leaderLog[u][k] # leaderLog[t][k]
               => leaderLog'[u][k] # leaderLog'[t][k]
<1>1. Elected \subseteq Elected'
  BY DEF Grows, Elected
<1>2. \A t \in Elected, k \in Slots : leaderLog[t][k] # Absent =>
         leaderLog'[t][k] = leaderLog[t][k]
  BY DEF Grows
<1>3. \A t \in Elected : \A st : PrefixOf(st, leaderLog[t]) => PrefixOf(st, leaderLog'[t])
  BY <1>2 DEF PrefixOf
<1>4. ASSUME NEW t \in Elected, NEW u \in Elected, NEW k \in Slots,
             t < u, leaderLog[t][k] # Absent, leaderLog[u][k] # leaderLog[t][k]
      PROVE  leaderLog'[u][k] # leaderLog'[t][k]
  <2>1. leaderLog'[t][k] = leaderLog[t][k]
    BY <1>2, <1>4
  <2>2. CASE leaderLog'[u][k] = leaderLog[u][k]
    BY <1>4, <2>1, <2>2
  <2>3. CASE leaderLog'[u][k].round = u
    <3>1. leaderLog[t][k].round <= t
      BY <1>4 DEF LogTree
    <3>2. t \in Nat /\ u \in Nat /\ leaderLog[t][k].round \in Nat
      BY <1>4, HistFacts, EntryType
    <3> QED BY <1>4, <2>1, <2>3, <3>1, <3>2
  <2> QED BY <2>2, <2>3 DEF Grows
<1> QED BY <1>1, <1>2, <1>3, <1>4

-----------------------------------------------------------------------------
(* A step keeps the invariant *)

LEMMA ElectedAfter ==
  ASSUME Base, HistInv, NEW r \in Replicas, NEW new, HistEffect(r, new)
  PROVE  /\ (Idle(r, new) \/ (\E w \in Rounds, q \in 0 .. MaxSlot : Takes(r, new, w, q))
              \/ (\E L \in Log : Extends(r, new, L))) => Elected' = Elected
         /\ (\E L \in Log : Wins(r, new, L)) => Elected' = Elected \cup {new.current_round}
<1>1. Idle(r, new) => Elected' = Elected
  BY DEF Idle, Elected
<1>2. ASSUME NEW w \in Rounds, NEW q \in 0 .. MaxSlot, Takes(r, new, w, q)
      PROVE  Elected' = Elected
  BY <1>2 DEF Takes, Elected, Acked
<1>3. ASSUME NEW L \in Log, Extends(r, new, L)
      PROVE  Elected' = Elected
  <2> DEFINE u == replica[r].current_round
  <2>1. Acked(r, u, LastLogIndex(replica[r])) \in acked
    BY <1>3 DEF Extends, HistInv, Leading
  <2>2. u \in Elected
    <3> HIDE DEF u
    <3> QED BY <2>1 DEF Elected, Acked
  <2>3. acked' = acked \cup {Acked(r, u, LastLogIndex(new))}
    BY <1>3 DEF Extends
  <2> HIDE DEF u
  <2> QED BY <2>2, <2>3 DEF Elected, Acked
<1>4. ASSUME NEW L \in Log, Wins(r, new, L)
      PROVE  Elected' = Elected \cup {new.current_round}
  <2>1. acked' = acked \cup {Acked(r, new.current_round, LastLogIndex(new))}
    BY <1>4 DEF Wins
  <2> DEFINE a == Acked(r, new.current_round, LastLogIndex(new))
  <2>2. a.round = new.current_round
    BY DEF Acked
  <2> HIDE DEF a
  <2> QED BY <2>1, <2>2 DEF Elected, a
<1> QED BY <1>1, <1>2, <1>3, <1>4

LEMMA TreeKept ==
  ASSUME Base, HistInv, NEW r \in Replicas, NEW new, HistEffect(r, new)
  PROVE  LogTree'
<1> DEFINE Rooted(u, k) == /\ leaderLog'[u][k].round \in Elected'
                           /\ leaderLog'[u][k].round <= u
                           /\ \A j \in Slots : j <= k =>
                                 /\ leaderLog'[u][j] # Absent
                                 /\ leaderLog'[leaderLog'[u][k].round][j] = leaderLog'[u][j]
<1>1. LogTree /\ TypeInv /\ Grows
  BY EffectGrows DEF HistInv, Base
<1>2. /\ Elected \subseteq Elected'
      /\ \A t \in Elected, k \in Slots : leaderLog[t][k] # Absent =>
            leaderLog'[t][k] = leaderLog[t][k]
  BY <1>1, GrowsKeeps
<1>3. ASSUME NEW u \in Elected, NEW k \in Slots, leaderLog[u][k] # Absent
      PROVE  Rooted(u, k)
  <2> DEFINE t == leaderLog[u][k].round
  <2>1. /\ t \in Elected /\ t <= u /\ leaderLog'[u][k] = leaderLog[u][k]
        /\ \A j \in Slots : j <= k =>
              leaderLog[u][j] # Absent /\ leaderLog[t][j] = leaderLog[u][j]
    BY <1>1, <1>2, <1>3 DEF LogTree
  <2> HIDE DEF t
  <2>2. \A j \in Slots : j <= k =>
           /\ leaderLog'[u][j] # Absent
           /\ leaderLog'[t][j] = leaderLog'[u][j]
    BY <1>2, <2>1
  <2> QED BY <1>2, <2>1, <2>2 DEF t
<1>4. 0 \in Elected'
  BY <1>1, <1>2 DEF LogTree
<1>5. ASSUME Elected' = Elected,
             \A u \in Elected, k \in Slots :
                leaderLog[u][k] = Absent /\ leaderLog'[u][k] # Absent => Rooted(u, k)
      PROVE  LogTree'
  <2>1. \A u \in Elected', k \in Slots : leaderLog'[u][k] # Absent => Rooted(u, k)
    <3> HIDE DEF Rooted
    <3> QED BY <1>3, <1>5
  <2> QED BY <1>4, <2>1 DEF LogTree
<1>6. CASE Idle(r, new)
  <2>1. leaderLog' = leaderLog /\ Elected' = Elected
    BY <1>6, ElectedAfter DEF Idle
  <2> HIDE DEF Rooted
  <2> QED BY <1>5, <2>1
<1>7. ASSUME NEW w \in Rounds, NEW q \in 0 .. MaxSlot, Takes(r, new, w, q)
      PROVE  LogTree'
  <2>1. leaderLog' = leaderLog /\ Elected' = Elected
    BY <1>7, ElectedAfter DEF Takes
  <2> HIDE DEF Rooted
  <2> QED BY <1>5, <2>1
<1>8. ASSUME NEW L \in Log, Extends(r, new, L)
      PROVE  LogTree'
  <2> DEFINE v == replica[r].current_round
             last == LastLogIndex(new)
  <2>1. /\ leaderLog' = [leaderLog EXCEPT ![v] = L] /\ PrefixOf(new, L)
        /\ LastLogIndex(new) >= LastLogIndex(replica[r])
        /\ Agree(leaderLog[v], L, LastLogIndex(replica[r]))
        /\ \A k \in Slots : k > LastLogIndex(replica[r]) /\ L[k] # Absent => k <= last
        /\ Elected' = Elected
    BY <1>8, ElectedAfter DEF Extends
  <2>2. /\ leaderLog \in [Rounds -> Log] /\ v \in Rounds
        /\ LastLogIndex(replica[r]) \in Nat /\ last \in Nat
    BY TypeFacts, BaseFacts, Indices DEF Base, HistoryTyped, HistEffect
  <2>3. ASSUME NEW u \in Elected, NEW k \in Slots,
               leaderLog[u][k] = Absent, leaderLog'[u][k] # Absent
        PROVE  Rooted(u, k)
    <3>1. u = v /\ leaderLog'[u] = L
      <4> HIDE DEF v, last
      <4> QED BY <2>1, <2>2, <2>3
    <3>2. leaderLog'[u][k].round = u
      BY <1>1, <2>3 DEF Grows
    <3>3. k <= last
      <4>1. ~(k <= LastLogIndex(replica[r]))
        BY <2>1, <2>3, <3>1 DEF Agree
      <4> QED BY <2>1, <2>2, <2>3, <3>1, <4>1, SlotIsNatural
    <3>4. \A j \in Slots : j <= k => L[j] # Absent
      <4>1. \A j \in Slots : j <= k => j <= last
        BY <2>2, <3>3, SlotIsNatural
      <4> QED BY <2>1, <4>1 DEF PrefixOf
    <3>5. u \in Elected' /\ u <= u
      BY <1>2, HistFacts, <1>1
    <3> HIDE DEF v, last
    <3> QED BY <3>1, <3>2, <3>4, <3>5
  <2> HIDE DEF Rooted
  <2> QED BY <1>5, <2>1, <2>3
<1>9. ASSUME NEW L \in Log, Wins(r, new, L)
      PROVE  LogTree'
  <2> DEFINE v == new.current_round
             old == replica[r]
             tip == LastLogRound(old)
             last == LastLogIndex(old)
  <2>1. /\ v \notin Elected /\ Agree(leaderLog[tip], L, last)
        /\ \A k \in Slots : L[k] # Absent => k <= last
        /\ leaderLog' = [leaderLog EXCEPT ![v] = L]
        /\ Elected' = Elected \cup {v}
    BY <1>9, ElectedAfter DEF Wins
  <2>2. /\ leaderLog \in [Rounds -> Log] /\ v \in Rounds /\ v \in Nat
        /\ old.current_round \in Nat /\ last \in Nat /\ old.current_round <= v
    BY TypeFacts, BaseFacts, Indices, RoundIsNatural
       DEF Base, HistoryTyped, HistEffect, ReplicaState
  <2>3. /\ tip \in Elected /\ tip <= old.current_round
        /\ PrefixOf(old, leaderLog[tip])
    BY DEF HistInv, LogSound
  <2>4. /\ \A t \in Elected : t \in Rounds /\ t \in Nat /\ leaderLog'[t] = leaderLog[t]
        /\ leaderLog'[v] = L
    <3> HIDE DEF v
    <3> QED BY <1>1, <2>1, <2>2, HistFacts
  <2> HIDE DEF tip, last, v, old
  <2>5. ASSUME NEW k \in Slots, L[k] # Absent
        PROVE  Rooted(v, k)
    <3> DEFINE t == L[k].round
    <3>1. L[k] = leaderLog[tip][k] /\ k <= last
      BY <2>1, <2>5 DEF Agree
    <3>2. /\ t \in Elected /\ t <= tip
          /\ \A j \in Slots : j <= k =>
                leaderLog[tip][j] # Absent /\ leaderLog[t][j] = leaderLog[tip][j]
      BY <1>1, <2>3, <2>5, <3>1 DEF LogTree
    <3>3. \A j \in Slots : j <= k => L[j] = leaderLog[tip][j]
      BY <2>1, <2>2, <3>1, SlotIsNatural DEF Agree
    <3>4. t \in Elected' /\ t <= v
      BY <2>1, <2>2, <2>3, <2>4, <3>2
    <3> HIDE DEF t
    <3>5. \A j \in Slots : j <= k =>
             leaderLog'[v][j] # Absent /\ leaderLog'[t][j] = leaderLog'[v][j]
      BY <2>4, <3>2, <3>3
    <3> QED BY <2>4, <3>4, <3>5 DEF t
  <2>6. \A u \in Elected', k \in Slots : leaderLog'[u][k] # Absent => Rooted(u, k)
    <3> HIDE DEF Rooted
    <3> QED BY <1>3, <2>1, <2>4, <2>5
  <2> QED BY <1>4, <2>6 DEF LogTree
<1> QED BY <1>6, <1>7, <1>8, <1>9 DEF HistEffect, HistoryStep

\* The type of the next state.
LEMMA NextTypes ==
  ASSUME TypeInv'
  PROVE  /\ \A q \in Replicas : /\ replica'[q] \in ReplicaState
                                /\ replica'[q].current_round \in Nat
         /\ \A t \in Rounds : leaderLog'[t] \in Log
         /\ \A a \in acked' : /\ a.round \in Elected' /\ a.round \in Rounds
                               /\ a.round \in Nat /\ a.server \in Replicas
                               /\ a.index \in 0 .. MaxSlot /\ a.index \in Nat
                               /\ a = Acked(a.server, a.round, a.index)
         /\ \A t \in Elected' : t \in Rounds /\ t \in Nat /\ leaderLog'[t] \in Log
<1>1. /\ replica' \in [Replicas -> ReplicaState] /\ leaderLog' \in [Rounds -> Log]
      /\ acked' \subseteq AckRecord
  BY DEF TypeInv, TypeOK, AckRecord
<1>2. \A a \in acked' : /\ a.round \in Rounds /\ a.server \in Replicas
                        /\ a.index \in 0 .. MaxSlot
                        /\ a = [server |-> a.server, round |-> a.round, index |-> a.index]
  BY <1>1 DEF AckRecord
<1>3. \A t \in Elected' : t \in Rounds
  BY <1>2 DEF Elected
<1>4. \A q \in Replicas : /\ replica'[q] \in ReplicaState
                          /\ replica'[q].current_round \in Nat
  BY <1>1, RoundIsNatural
<1>5. \A a \in acked' : a.round \in Elected'
  BY DEF Elected
<1> QED BY <1>1, <1>2, <1>3, <1>4, <1>5, BoundsAssumption DEF Rounds, Acked

\* A replica whose log ends where it did keeps what it has.
LEMMA TipKept ==
  ASSUME Base, HistInv, Base', Grows, NEW q \in Replicas,
         SameTip(replica[q], replica'[q]),
         replica[q].current_round <= replica'[q].current_round
  PROVE  LogSound(q)' /\ \A a \in acked : a.server = q => AckKept(a)'
<1> DEFINE old == replica[q]
           new == replica'[q]
           tip == LastLogRound(old)
<1>1. /\ TypeInv /\ LogTree /\ LogSound(q)
      /\ old.current_round \in Nat /\ new.current_round \in Nat
  <2>1. new.current_round \in Nat
    BY NextTypes DEF Base
  <2> QED BY <2>1, BaseFacts DEF HistInv, Base
<1>2. /\ tip \in Elected /\ tip <= old.current_round /\ PrefixOf(old, leaderLog[tip])
      /\ TrimRoundInit(old) /\ tip \in Nat /\ leaderLog[tip] \in Log
  BY <1>1, HistFacts DEF LogSound
<1>3. /\ LastLogIndex(new) = LastLogIndex(old) /\ LastLogRound(new) = tip
      /\ TrimRoundInit(new) /\ PrefixOf(new, leaderLog[tip])
  BY <1>2 DEF SameTip
<1>4. /\ Elected \subseteq Elected'
      /\ \A t \in Elected, k \in Slots : leaderLog[t][k] # Absent =>
            leaderLog'[t][k] = leaderLog[t][k]
      /\ PrefixOf(new, leaderLog'[tip])
      /\ \A t \in Elected, u \in Elected, k \in Slots :
            /\ t < u /\ leaderLog[t][k] # Absent /\ leaderLog[u][k] # leaderLog[t][k]
            => leaderLog'[u][k] # leaderLog'[t][k]
  <2> HIDE DEF new, tip
  <2> QED BY <1>1, <1>2, <1>3, GrowsKeeps
<1>5. tip <= new.current_round /\ old.current_round <= new.current_round
  <2> HIDE DEF tip
  <2> QED BY <1>1, <1>2
<1>6. LogSound(q)'
  <2> HIDE DEF tip
  <2> QED BY <1>2, <1>3, <1>4, <1>5 DEF LogSound
<1>7. ASSUME NEW a \in acked, a.server = q
      PROVE  AckKept(a)'
  <2> DEFINE t == a.round
  <2>1. /\ AckKept(a) /\ t \in Elected /\ t \in Nat
    BY <1>1, HistFacts DEF HistInv
  <2>2. t <= new.current_round
    <3>1. t <= old.current_round
      BY <1>7, <2>1 DEF AckKept
    <3> HIDE DEF t, old, new
    <3> QED BY <1>1, <1>5, <2>1, <3>1
  <2>3. ASSUME NEW k \in Slots, k <= a.index
        PROVE  /\ leaderLog'[t][k] # Absent
               /\ \/ k <= LastLogIndex(new) /\ leaderLog'[tip][k] = leaderLog'[t][k]
                  \/ \E u \in Elected' : /\ t < u /\ u <= new.current_round
                                          /\ leaderLog'[u][k] # leaderLog'[t][k]
    <3>1. /\ leaderLog[t][k] # Absent
          /\ \/ k <= LastLogIndex(old) /\ leaderLog[tip][k] = leaderLog[t][k]
             \/ \E u \in Elected : /\ t < u /\ u <= old.current_round
                                    /\ leaderLog[u][k] # leaderLog[t][k]
      BY <1>7, <2>1, <2>3 DEF AckKept
    <3>2. leaderLog'[t][k] = leaderLog[t][k]
      BY <1>4, <2>1, <3>1
    <3>3. CASE k <= LastLogIndex(old) /\ leaderLog[tip][k] = leaderLog[t][k]
      BY <1>2, <1>3, <1>4, <3>1, <3>2, <3>3
    <3>4. ASSUME NEW u \in Elected, t < u, u <= old.current_round,
                 leaderLog[u][k] # leaderLog[t][k]
          PROVE  \E v \in Elected' : /\ t < v /\ v <= new.current_round
                                     /\ leaderLog'[v][k] # leaderLog'[t][k]
      <4>1. u \in Elected' /\ leaderLog'[u][k] # leaderLog'[t][k]
        BY <1>4, <2>1, <3>1, <3>4
      <4>2. u \in Nat /\ u <= new.current_round
        <5>1. u \in Nat
          BY <1>1, HistFacts
        <5> HIDE DEF old, new
        <5> QED BY <1>1, <1>5, <3>4, <5>1
      <4> QED BY <3>4, <4>1, <4>2
    <3> QED BY <3>1, <3>2, <3>3, <3>4
  <2> HIDE DEF t, tip
  <2> QED BY <1>3, <1>7, <2>2, <2>3 DEF AckKept, t
<1> QED BY <1>6, <1>7

\* A follower that has taken over a leader's log keeps what both have.
LEMMA TakesKept ==
  ASSUME Base, HistInv, Base', NEW r \in Replicas, NEW new, HistEffect(r, new),
         NEW w \in Rounds, NEW q \in 0 .. MaxSlot, Takes(r, new, w, q)
  PROVE  LogSound(r)' /\ \A a \in acked' : a.server = r => AckKept(a)'
<1> DEFINE old == replica[r]
           tip == LastLogRound(old)
           A == leaderLog[tip]
           B == leaderLog[w]
           mine == Acked(r, w, q)
<1>1. /\ w \in Elected /\ old.current_round <= w /\ new.current_round = w
      /\ \A k \in Slots : k <= q => B[k] # Absent
      /\ Stored(old, new, A, B, q)
      /\ leaderLog' = leaderLog /\ acked' = acked \cup {mine}
  BY DEF Takes
<1>2. /\ Grows /\ Elected' = Elected /\ replica'[r] = new
      /\ TypeInv /\ LogTree /\ LogSound(r)
      /\ new \in ReplicaState /\ Contiguous(new)
  BY EffectGrows, ElectedAfter, AfterStep DEF Base, HistInv, HistEffect
<1>3. /\ old.current_round \in Nat /\ w \in Nat /\ q \in Nat
      /\ old \in ReplicaState /\ Contiguous(old)
  BY BaseFacts, BoundsAssumption DEF Rounds
<1>4. /\ tip \in Elected /\ A \in Log /\ B \in Log /\ PrefixOf(old, A) /\ TrimRoundInit(old)
      /\ tip \in Nat
  BY <1>1, <1>2, HistFacts DEF LogSound
<1>5. mine.server = r /\ mine.round = w /\ mine.index = q
  BY DEF Acked
<1> HIDE DEF mine
<1>6. CASE SameTip(old, new) /\ q <= LastLogIndex(old) /\ Agree(A, B, q)
  <2>1. LogSound(r)' /\ \A a \in acked : a.server = r => AckKept(a)'
    BY <1>1, <1>2, <1>6, TipKept
  <2>2. LastLogRound(new) = tip /\ LastLogIndex(new) = LastLogIndex(old)
    BY <1>6 DEF SameTip
  <2>3. \A k \in Slots : k <= q => k <= LastLogIndex(old)
    BY <1>3, <1>6, SlotIsNatural, Indices
  <2>4. AckKept(mine)'
    <3> HIDE DEF tip, A, B
    <3> QED BY <1>1, <1>2, <1>3, <1>5, <1>6, <2>2, <2>3 DEF AckKept, Agree, A, B
  <2> QED BY <1>1, <2>1, <2>4
<1>7. CASE /\ LastLogIndex(new) = q /\ PrefixOf(new, B)
           /\ TrimRoundInit(old) => TrimRoundInit(new)
           /\ \A k \in Slots : k <= LastLogIndex(old) /\ A[k] = B[k] => k <= q
  <2> DEFINE tip2 == LastLogRound(new)
  <2>1. /\ tip2 \in Elected /\ tip2 <= w
        /\ Agree(leaderLog[tip2], B, q) /\ PrefixOf(new, leaderLog[tip2])
    BY <1>1, <1>2, <1>7, TipAgrees
  <2> HIDE DEF tip2
  <2>2. LogSound(r)'
    BY <1>1, <1>2, <1>4, <1>7, <2>1 DEF LogSound, tip2
  <2>3. AckKept(mine)'
    BY <1>1, <1>2, <1>3, <1>5, <1>7, <2>1 DEF AckKept, Agree, tip2
  <2>4. ASSUME NEW a \in acked, a.server = r
        PROVE  AckKept(a)'
    <3> DEFINE t == a.round
    <3>1. AckKept(a) /\ t \in Elected /\ t \in Nat
      BY <1>2, HistFacts DEF HistInv
    <3>2. t <= old.current_round
      BY <2>4, <3>1 DEF AckKept
    <3>3. t <= w
      <4> HIDE DEF t, old
      <4> QED BY <1>1, <1>3, <3>1, <3>2
    <3>4. ASSUME NEW k \in Slots, k <= a.index
          PROVE  /\ leaderLog[t][k] # Absent
                 /\ \/ k <= q /\ leaderLog[tip2][k] = leaderLog[t][k]
                    \/ \E u \in Elected : /\ t < u /\ u <= w
                                           /\ leaderLog[u][k] # leaderLog[t][k]
      <4>1. /\ leaderLog[t][k] # Absent
            /\ \/ k <= LastLogIndex(old) /\ A[k] = leaderLog[t][k]
               \/ \E u \in Elected : /\ t < u /\ u <= old.current_round
                                      /\ leaderLog[u][k] # leaderLog[t][k]
        BY <2>4, <3>1, <3>4 DEF AckKept
      <4>2. ASSUME NEW u \in Elected, t < u, u <= old.current_round,
                   leaderLog[u][k] # leaderLog[t][k]
            PROVE  u <= w
        <5>1. u \in Nat
          BY <1>2, HistFacts
        <5> HIDE DEF old
        <5> QED BY <1>1, <1>3, <4>2, <5>1
      <4>3. CASE k <= LastLogIndex(old) /\ A[k] = leaderLog[t][k]
        <5>1. CASE B[k] = leaderLog[t][k]
          <6>1. k <= q
            BY <1>7, <4>3, <5>1
          <6>2. leaderLog[tip2][k] = B[k]
            BY <2>1, <6>1 DEF Agree
          <6> QED BY <4>1, <5>1, <6>1, <6>2
        <5>2. CASE B[k] # leaderLog[t][k]
          <6>1. t # w
            BY <5>2
          <6>2. t < w /\ w <= w
            <7> HIDE DEF t
            <7> QED BY <1>3, <3>1, <3>3, <6>1
          <6> QED BY <1>1, <4>1, <5>2, <6>2
        <5> QED BY <5>1, <5>2
      <4> QED BY <4>1, <4>2, <4>3
    <3> HIDE DEF t
    <3> QED BY <1>1, <1>2, <1>7, <2>4, <3>3, <3>4 DEF AckKept, t, tip2
  <2> QED BY <1>1, <2>2, <2>3, <2>4
<1> QED BY <1>1, <1>6, <1>7 DEF Stored

\* So does a leader that appends to its log.
LEMMA ExtendsKept ==
  ASSUME Base, HistInv, Base', NEW r \in Replicas, NEW new, HistEffect(r, new),
         NEW L \in Log, Extends(r, new, L)
  PROVE  LogSound(r)' /\ \A a \in acked' : a.server = r => AckKept(a)'
<1> DEFINE old == replica[r]
           tip == LastLogRound(old)
           u == new.current_round
           last == LastLogIndex(old)
           mine == Acked(r, u, LastLogIndex(new))
<1>1. /\ old.role = "leader" /\ old.current_round = u
      /\ LastLogRound(new) = u /\ LastLogIndex(new) >= last
      /\ PrefixOf(new, L)
      /\ TrimRoundInit(old) => TrimRoundInit(new)
      /\ Agree(leaderLog[u], L, last)
      /\ leaderLog' = [leaderLog EXCEPT ![u] = L]
      /\ acked' = acked \cup {mine}
  BY DEF Extends
<1>2. /\ Grows /\ Elected' = Elected /\ replica'[r] = new
      /\ TypeInv /\ LogTree /\ LogSound(r) /\ Leading(r)
      /\ new \in ReplicaState
  BY EffectGrows, ElectedAfter, AfterStep DEF Base, HistInv, HistEffect
<1>3. /\ u \in Nat /\ u \in Rounds /\ old \in ReplicaState /\ Contiguous(old)
      /\ last \in Nat /\ LastLogIndex(new) \in Nat
      /\ leaderLog \in [Rounds -> Log]
  BY <1>1, <1>2, BaseFacts, Indices, TypeFacts DEF HistoryTyped
<1>4. u \in Elected /\ PrefixOf(old, leaderLog[u])
  <2>1. Acked(r, u, last) \in acked /\ PrefixOf(old, leaderLog[u])
    BY <1>1, <1>2 DEF Leading
  <2> HIDE DEF u, last
  <2> QED BY <2>1 DEF Elected, Acked
<1>5. Agree(leaderLog[tip], leaderLog[u], last)
  BY <1>2, <1>3, <1>4, TipAgrees
<1>6. leaderLog'[u] = L
  <2> HIDE DEF u
  <2> QED BY <1>1, <1>3
<1>7. mine.server = r /\ mine.round = u /\ mine.index = LastLogIndex(new)
  BY DEF Acked
<1> HIDE DEF mine
<1>8. LogSound(r)'
  <2>1. TrimRoundInit(new)
    BY <1>1, <1>2 DEF LogSound
  <2>2. u <= u
    BY <1>3
  <2>3. PrefixOf(new, leaderLog'[u])
    BY <1>1, <1>6
  <2> QED BY <1>1, <1>2, <1>4, <2>1, <2>2, <2>3 DEF LogSound
<1>9. AckKept(mine)'
  <2>1. \A k \in Slots : k <= mine.index => leaderLog'[u][k] # Absent /\ k <= LastLogIndex(new)
    BY <1>1, <1>6, <1>7 DEF PrefixOf
  <2>2. u <= u
    BY <1>3
  <2> QED BY <1>1, <1>2, <1>7, <2>1, <2>2 DEF AckKept
<1> HIDE DEF u
<1>10. ASSUME NEW a \in acked, a.server = r
       PROVE  AckKept(a)'
  <2> DEFINE t == a.round
  <2>1. AckKept(a) /\ t \in Elected
    BY <1>2, HistFacts DEF HistInv
  <2>2. t <= u
    BY <1>1, <1>10, <2>1 DEF AckKept
  <2>3. /\ \A v \in Elected, k \in Slots : leaderLog[v][k] # Absent =>
              leaderLog'[v][k] = leaderLog[v][k]
        /\ \A v \in Elected, k \in Slots :
              /\ t < v /\ leaderLog[t][k] # Absent /\ leaderLog[v][k] # leaderLog[t][k]
              => leaderLog'[v][k] # leaderLog'[t][k]
    BY <1>2, <2>1, GrowsKeeps
  <2>4. ASSUME NEW k \in Slots, k <= a.index
        PROVE  /\ leaderLog'[t][k] # Absent
               /\ \/ k <= LastLogIndex(new) /\ L[k] = leaderLog'[t][k]
                  \/ \E v \in Elected : /\ t < v /\ v <= u
                                         /\ leaderLog'[v][k] # leaderLog'[t][k]
    <3>1. /\ leaderLog[t][k] # Absent
          /\ \/ k <= last /\ leaderLog[tip][k] = leaderLog[t][k]
             \/ \E v \in Elected : /\ t < v /\ v <= u
                                    /\ leaderLog[v][k] # leaderLog[t][k]
      BY <1>1, <1>10, <2>1, <2>4 DEF AckKept
    <3>2. leaderLog'[t][k] = leaderLog[t][k]
      BY <2>1, <2>3, <3>1
    <3>3. CASE k <= last /\ leaderLog[tip][k] = leaderLog[t][k]
      <4>1. L[k] = leaderLog[t][k]
        BY <1>1, <1>5, <3>3 DEF Agree
      <4>2. k <= LastLogIndex(new)
        <5> HIDE DEF last
        <5> QED BY <1>1, <1>3, <3>3, SlotIsNatural
      <4> QED BY <3>1, <3>2, <4>1, <4>2
    <3>4. CASE \E v \in Elected : /\ t < v /\ v <= u
                                  /\ leaderLog[v][k] # leaderLog[t][k]
      BY <2>3, <3>1, <3>2, <3>4
    <3> QED BY <3>1, <3>3, <3>4
  <2> HIDE DEF t
  <2> QED BY <1>1, <1>2, <1>6, <1>10, <2>2, <2>4 DEF AckKept, t, u
<1> QED BY <1>1, <1>8, <1>9, <1>10

\* ... and a candidate that wins.
LEMMA WinsKept ==
  ASSUME Base, HistInv, Base', NEW r \in Replicas, NEW new, HistEffect(r, new),
         NEW L \in Log, Wins(r, new, L)
  PROVE  LogSound(r)' /\ \A a \in acked' : a.server = r => AckKept(a)'
<1> DEFINE old == replica[r]
           tip == LastLogRound(old)
           u == new.current_round
           last == LastLogIndex(old)
           mine == Acked(r, u, LastLogIndex(new))
<1>1. /\ u \notin Elected /\ SameTip(old, new)
      /\ Agree(leaderLog[tip], L, last)
      /\ leaderLog' = [leaderLog EXCEPT ![u] = L]
      /\ acked' = acked \cup {mine}
      /\ LastLogIndex(new) = last /\ LastLogRound(new) = tip
  BY DEF Wins, SameTip
<1>2. /\ Grows /\ replica'[r] = new
      /\ TypeInv /\ LogSound(r) /\ new \in ReplicaState
      /\ replica[r].current_round <= replica'[r].current_round
      /\ leaderLog \in [Rounds -> Log] /\ u \in Rounds /\ u \in Nat
  <2>1. new \in ReplicaState /\ Grows /\ TypeInv /\ LogSound(r)
    BY EffectGrows DEF Base, HistInv, HistEffect
  <2>2. u \in Rounds /\ u \in Nat
    BY <2>1, RoundIsNatural DEF ReplicaState
  <2> QED BY <2>1, <2>2, AfterStep, TypeFacts DEF HistEffect, HistoryTyped
<1>3. LogSound(r)' /\ \A a \in acked : a.server = r => AckKept(a)'
  BY <1>1, <1>2, TipKept
<1>4. tip \in Elected /\ PrefixOf(old, leaderLog[tip]) /\ tip \in Rounds
  BY <1>2, HistFacts DEF LogSound
<1>5. leaderLog'[u] = L /\ leaderLog'[tip] = leaderLog[tip]
  <2> HIDE DEF u, tip
  <2> QED BY <1>1, <1>2, <1>4
<1>6. mine.server = r /\ mine.round = u /\ mine.index = last
  BY <1>1 DEF Acked
<1> HIDE DEF mine
<1>7. AckKept(mine)'
  <2>1. \A k \in Slots : k <= last => L[k] # Absent /\ leaderLog'[tip][k] = L[k]
    BY <1>1, <1>4, <1>5 DEF PrefixOf, Agree
  <2> HIDE DEF tip, last
  <2> QED BY <1>1, <1>2, <1>5, <1>6, <2>1 DEF AckKept, tip, last
<1> QED BY <1>1, <1>3, <1>7

LEMMA MessagesInTransit ==
  ASSUME TypeInv, NEW x \in Replicas, NEW y \in Replicas, NEW m \in InTransit(channel, x, y)
  PROVE  m \in Message
<1>1. channel[x][y] \in Seq(Message)
  BY TypeFacts DEF Channels
<1> QED BY <1>1 DEF InTransit

LEMMA LeadingKept ==
  ASSUME Base, HistInv, NEW r \in Replicas, NEW new, HistEffect(r, new),
         NEW q \in Replicas
  PROVE  Leading(q)'
<1> DEFINE old == replica[r]
<1>1. /\ Grows /\ TypeInv /\ LogTree /\ LogSound(r) /\ Leading(r) /\ Leading(q)
      /\ replica'[r] = new /\ \A p \in Replicas : p # r => replica'[p] = replica[p]
      /\ leaderLog \in [Rounds -> Log] /\ acked \subseteq acked'
      /\ new \in ReplicaState /\ old \in ReplicaState /\ Contiguous(old)
  <2>1. Grows /\ TypeInv
    BY EffectGrows DEF Base
  <2> QED BY <2>1, AfterStep, TypeFacts, BaseFacts DEF HistInv, HistEffect, HistoryTyped, Grows
<1>2. ASSUME q # r, replica[q].role = "leader"
      PROVE  leaderLog'[replica[q].current_round] = leaderLog[replica[q].current_round]
  <2> DEFINE v == replica[q].current_round
  <2>1. v \in Elected /\ v \in Rounds
    <3>1. Acked(q, v, LastLogIndex(replica[q])) \in acked
      BY <1>1, <1>2 DEF Leading
    <3> HIDE DEF v
    <3>2. v \in Elected
      BY <3>1 DEF Elected, Acked
    <3> QED BY <1>1, <3>2, HistFacts
  <2>2. ElectionSafety
    BY ElectionInvImpliesSafety DEF Base
  <2>3. ASSUME NEW L \in Log, Extends(r, new, L)
        PROVE  leaderLog'[v] = leaderLog[v]
    <3>1. v # old.current_round
      BY <1>2, <2>2, <2>3 DEF Extends, ElectionSafety
    <3>2. leaderLog' = [leaderLog EXCEPT ![old.current_round] = L]
      BY <2>3 DEF Extends
    <3> HIDE DEF v
    <3> QED BY <1>1, <2>1, <3>1, <3>2
  <2>4. ASSUME NEW L \in Log, Wins(r, new, L)
        PROVE  leaderLog'[v] = leaderLog[v]
    <3>1. v # new.current_round /\ leaderLog' = [leaderLog EXCEPT ![new.current_round] = L]
      BY <2>1, <2>4 DEF Wins
    <3> HIDE DEF v
    <3> QED BY <1>1, <2>1, <3>1
  <2> QED BY <2>3, <2>4 DEF HistEffect, HistoryStep, Idle, Takes
<1>3. CASE q # r
  BY <1>1, <1>2, <1>3 DEF Leading
<1>4. ASSUME q = r, new.role = "leader"
      PROVE  /\ Acked(r, new.current_round, LastLogIndex(new)) \in acked'
             /\ PrefixOf(new, leaderLog'[new.current_round])
             /\ \A k \in Slots : leaderLog'[new.current_round][k] # Absent =>
                                   k <= LastLogIndex(new)
  <2> DEFINE u == new.current_round
             tip == LastLogRound(old)
             last == LastLogIndex(old)
  <2>1. u \in Rounds /\ last \in Nat /\ LastLogIndex(new) \in Nat
    BY <1>1, Indices DEF ReplicaState
  <2>2. ASSUME NEW L \in Log, Wins(r, new, L)
        PROVE  /\ Acked(r, u, LastLogIndex(new)) \in acked'
               /\ PrefixOf(new, leaderLog'[u])
               /\ \A k \in Slots : leaderLog'[u][k] # Absent => k <= LastLogIndex(new)
    <3>1. /\ SameTip(old, new) /\ Agree(leaderLog[tip], L, last)
          /\ \A k \in Slots : L[k] # Absent => k <= last
          /\ leaderLog' = [leaderLog EXCEPT ![u] = L]
          /\ Acked(r, u, LastLogIndex(new)) \in acked'
      BY <2>2 DEF Wins
    <3>2. leaderLog'[u] = L
      <4> HIDE DEF u
      <4> QED BY <1>1, <2>1, <3>1
    <3>3. PrefixOf(old, leaderLog[tip]) /\ leaderLog[tip] \in Log
      BY <1>1, HistFacts DEF LogSound
    <3>4. PrefixOf(old, L)
      BY <1>1, <3>1, <3>3, AgreePrefix
    <3> QED BY <3>1, <3>2, <3>4 DEF SameTip
  <2>3. CASE old.role = "leader" /\ u = old.current_round
    <3>1. /\ Acked(r, u, last) \in acked /\ PrefixOf(old, leaderLog[u])
          /\ \A k \in Slots : leaderLog[u][k] # Absent => k <= last
      BY <1>1, <2>3 DEF Leading
    <3>2. CASE Idle(r, new)
      <4>1. leaderLog[u] \in Log
        BY <1>1, <2>1
      <4> HIDE DEF u
      <4> QED BY <1>1, <3>1, <3>2, <4>1 DEF Idle, SameTip, u
    <3>3. ASSUME NEW L \in Log, Extends(r, new, L)
          PROVE  /\ Acked(r, u, LastLogIndex(new)) \in acked'
                 /\ PrefixOf(new, leaderLog'[u])
                 /\ \A k \in Slots : leaderLog'[u][k] # Absent => k <= LastLogIndex(new)
      <4>1. /\ leaderLog' = [leaderLog EXCEPT ![u] = L] /\ PrefixOf(new, L)
            /\ Acked(r, u, LastLogIndex(new)) \in acked'
            /\ LastLogIndex(new) >= last
            /\ \A k \in Slots : k > last /\ L[k] # Absent => k <= LastLogIndex(new)
        BY <2>3, <3>3 DEF Extends
      <4>2. leaderLog'[u] = L
        <5> HIDE DEF u
        <5> QED BY <1>1, <2>1, <4>1
      <4>3. \A k \in Slots : L[k] # Absent => k <= LastLogIndex(new)
        <5> HIDE DEF last
        <5> QED BY <2>1, <4>1, SlotIsNatural
      <4> QED BY <4>1, <4>2, <4>3
    <3>4. ~ \E w \in Rounds, p \in 0 .. MaxSlot : Takes(r, new, w, p)
      BY <1>4 DEF Takes
    <3> HIDE DEF u
    <3> QED BY <2>2, <3>2, <3>3, <3>4 DEF HistEffect, HistoryStep, u
  <2> QED BY <1>4, <2>2, <2>3 DEF HistEffect
<1>5. CASE q = r
  <2>1. new.role = "leader" =>
          \A s \in Replicas :
              /\ new.next_index[s] <= LastLogIndex(new) + 1
              /\ new.match_index[s] # 0 =>
                    Acked(s, new.current_round, new.match_index[s]) \in acked'
    BY DEF HistEffect
  <2> QED BY <1>1, <1>4, <1>5, <2>1 DEF Leading
<1> QED BY <1>3, <1>5

LEMMA ElectedOnceKept ==
  ASSUME Base, HistInv, Base', NEW r \in Replicas, NEW new, HistEffect(r, new)
  PROVE  ElectedOnce'
<1>1. /\ replica'[r] = new /\ \A p \in Replicas : p # r => replica'[p] = replica[p]
      /\ TypeInv /\ granted \subseteq granted'
      /\ replica[r].current_round \in Nat /\ new.current_round \in Nat
      /\ replica[r].current_round <= new.current_round
  <2>1. replica'[r] = new /\ \A p \in Replicas : p # r => replica'[p] = replica[p]
    BY AfterStep DEF Base, HistEffect
  <2> QED BY <2>1, BaseFacts, RoundIsNatural DEF HistEffect
<1> SUFFICES ASSUME NEW u \in Elected', u # 0
             PROVE  \E l \in Replicas, Q \in SUBSET Replicas :
                       /\ IsQuorum(Q) /\ \A p \in Q : Promise(u, p, l) \in granted'
                       /\ u <= replica'[l].current_round
                       /\ ~(replica'[l].role = "candidate" /\ replica'[l].current_round = u)
  BY DEF ElectedOnce
<1>2. CASE u \in Elected
  <2>1. PICK l \in Replicas, Q \in SUBSET Replicas :
            /\ IsQuorum(Q) /\ \A p \in Q : Promise(u, p, l) \in granted
            /\ u <= replica[l].current_round
            /\ ~(replica[l].role = "candidate" /\ replica[l].current_round = u)
    BY <1>2 DEF HistInv, ElectedOnce
  <2>2. u \in Nat
    BY <1>1, <1>2, HistFacts
  <2>3. CASE l # r
    BY <1>1, <2>1, <2>3
  <2>4. CASE l = r
    <3>1. u <= new.current_round
      BY <1>1, <2>1, <2>2, <2>4
    <3>2. ~(new.role = "candidate" /\ new.current_round = u)
      <4>1. new.role = "candidate" =>
              \/ replica[r].role = "candidate" /\ new.current_round = replica[r].current_round
              \/ replica[r].current_round < new.current_round
        BY DEF HistEffect
      <4> QED BY <1>1, <2>1, <2>2, <2>4, <4>1
    <3> QED BY <1>1, <2>1, <2>4, <3>1, <3>2
  <2> QED BY <2>3, <2>4
<1>3. CASE u \notin Elected
  <2>1. u = new.current_round /\ new.role = "leader"
    <3>1. PICK L \in Log : Wins(r, new, L)
      BY <1>3, ElectedAfter DEF HistEffect, HistoryStep
    <3> QED BY <1>3, <3>1, ElectedAfter DEF Wins
  <2>2. \E Q \in SUBSET Replicas :
           IsQuorum(Q) /\ \A p \in Q : Promise(u, p, r) \in granted'
    <3>1. Leaders'
      BY DEF Base, ElectionInv
    <3> QED BY <1>1, <2>1, <3>1 DEF Leaders
  <2>3. u <= replica'[r].current_round /\ replica'[r].role # "candidate"
    BY <1>1, <2>1
  <2> QED BY <2>2, <2>3
<1> QED BY <1>2, <1>3

LEMMA MessageKept ==
  ASSUME TypeInv, LogTree, Grows, NEW m \in Message, MessageSound(m)
  PROVE  MessageSound(m)'
<1>1. /\ Elected \subseteq Elected' /\ acked \subseteq acked'
      /\ \A t \in Elected, k \in Slots : leaderLog[t][k] # Absent =>
            leaderLog'[t][k] = leaderLog[t][k]
  BY GrowsKeeps DEF Grows
<1>2. ASSUME m.type = "propose"
      PROVE  m.round \in Elected' /\ ProposalOf(m, leaderLog'[m.round])
  <2>1. m.round \in Elected /\ ProposalOf(m, leaderLog[m.round])
    BY <1>2 DEF MessageSound
  <2>2. m.prev_log_index # 0 => m.prev_log_index \in Slots
    BY <1>2, MessageKinds, BoundsAssumption DEF ProposeMessage, Slots
  <2> QED BY <1>1, <2>1, <2>2 DEF ProposalOf
<1> QED BY <1>1, <1>2 DEF MessageSound

\* Every step of this kind keeps the invariant.
LEMMA HistKeeps ==
  ASSUME Base, HistInv, Base', NEW r \in Replicas, NEW new, HistEffect(r, new)
  PROVE  HistInv'
<1>1. /\ Grows /\ TypeInv /\ LogTree
      /\ replica'[r] = new /\ \A p \in Replicas : p # r => replica'[p] = replica[p]
      /\ replica[r].current_round <= new.current_round
  <2>1. Grows /\ TypeInv
    BY EffectGrows DEF Base
  <2> QED BY <2>1, AfterStep DEF HistInv, HistEffect
<1>2. ASSUME NEW q \in Replicas, q # r
      PROVE  LogSound(q)' /\ \A a \in acked : a.server = q => AckKept(a)'
  <2>1. replica'[q] = replica[q] /\ replica[q].current_round <= replica'[q].current_round
    BY <1>1, <1>2, BaseFacts
  <2>2. SameTip(replica[q], replica'[q])
    BY <2>1, SameLogTip
  <2> QED BY <1>1, <2>1, <2>2, TipKept
<1>3. /\ LogSound(r)' /\ \A a \in acked' : a.server = r => AckKept(a)'
  <2>1. CASE Idle(r, new)
    BY <1>1, <2>1, TipKept DEF Idle
  <2> QED BY <2>1, TakesKept, ExtendsKept, WinsKept DEF HistEffect, HistoryStep
<1>4. \A a \in acked' : a.server # r => a \in acked /\ a.server \in Replicas
  <2>1. \A a \in acked' : a.server \in Replicas
    BY NextTypes DEF Base
  <2>2. \A a \in acked' : a \in acked \/ a.server = r
    BY DEF HistEffect, HistoryStep, Idle, Takes, Extends, Wins, Acked
  <2> QED BY <2>1, <2>2
<1>5. \A a \in acked' : AckKept(a)'
  BY <1>2, <1>3, <1>4
<1>6. \A q \in Replicas : LogSound(q)' /\ Leading(q)'
  BY <1>2, <1>3, LeadingKept
<1>7. ASSUME NEW x \in Replicas, NEW y \in Replicas, NEW m \in InTransit(channel', x, y)
      PROVE  MessageSound(m)'
  <2>1. CASE m \in InTransit(channel, x, y)
    <3>1. m \in Message /\ MessageSound(m)
      BY <1>1, <2>1, MessagesInTransit DEF HistInv
    <3> QED BY <1>1, <3>1, MessageKept
  <2> QED BY <1>7, <2>1 DEF HistEffect
<1>8. LogTree' /\ ElectedOnce'
  BY TreeKept, ElectedOnceKept
<1> QED BY <1>5, <1>6, <1>7, <1>8 DEF HistInv
=============================================================================
