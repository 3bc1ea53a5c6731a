------------------------ MODULE PtPaxosSafetyProofs -------------------------
(***************************************************************************)
(* Theorems about what the replicas of PtPaxos agree on, for every cluster *)
(* and every bound.  Every action is seen as a turn of one replica: what   *)
(* it does to the replica's log, to the history of the leaders' logs, to   *)
(* the messages under way, to the promises and to the replies.  From that: *)
(* logs match, and a leader's match_index is true of its followers; an     *)
(* entry that a quorum has stored in its own round is in the log of every  *)
(* later leader; and what is committed, executed, trimmed and answered is  *)
(* the same everywhere.                                                    *)
(***************************************************************************)
EXTENDS PtPaxosProofs

-----------------------------------------------------------------------------
(* The turns of a replica *)

\* The acknowledgements in A say that s has stored the log of round u up to slot k.
Stores(A, s, u, k) == \E a \in A : a.server = s /\ a.round = u /\ k <= a.index

QuorumStores(A, u, k) ==
  \E Q \in SUBSET Replicas : IsQuorum(Q) /\ \A s \in Q : Stores(A, s, u, k)

\* A leader goes on leading in its round u with log L: it commits what a quorum has
\* stored and what is of its round, trims what is committed and everyone has stored,
\* and answers from its log.
LeaderTurn(r, new) ==
  LET old == replica[r]
      u == old.current_round
      L == leaderLog'[u]
  IN  /\ old.role = "leader" /\ new.role = "leader" /\ new.current_round = u
      /\ \/ new.commit_index = old.commit_index
         \/ /\ new.commit_index \in Slots
            /\ L[new.commit_index] # Absent /\ L[new.commit_index].round = u
            /\ QuorumStores(acked', u, new.commit_index)
      /\ \/ new.trim_through \in {0, old.trim_through}
         \/ /\ new.trim_through <= new.commit_index
            /\ \A s \in Replicas : Stores(acked', s, u, new.trim_through)
      /\ CacheOf(old, L) =>
            /\ CacheOf(new, L)
            /\ \A x \in replies' : x \in replies \/ ReplyOf(x, L, new.commit_index)

\* A follower takes over the entries of a proposal, and what is decided and trimmed.
FollowerTurn(r, new) ==
  LET old == replica[r]
  IN  \E x \in Replicas : \E m \in InTransit(channel, x, r) :
        /\ m.type = "propose"
        /\ Takes(r, new, m.round, LastProposed(m))
        /\ new.commit_index = old.commit_index \/ new.commit_index <= m.decide_through
        /\ new.trim_through = old.trim_through \/ new.trim_through <= m.trim_through
        /\ replies' = replies

\* A turn that leaves the log and the database alone.
StoreTurn(r, new) == SameStore(new, replica[r]) /\ replies' = replies

\* The messages that replica r, then in state new, sends.
Sends(r, new, n) ==
  /\ n.type = "propose" =>
        /\ new.role = "leader" /\ n.round = new.current_round
        /\ n.decide_through <= new.commit_index
        /\ n.trim_through <= new.trim_through
  /\ n.type = "probe" =>
        /\ n.leader = r /\ n.round = new.current_round
        /\ n.last_log_index = LastLogIndex(new)
        /\ n.last_log_round = LastLogRound(new)

\* The promises it gives: to itself in a new round, or to the sender of a probe whose
\* log is as good as its own.
Grants(r, new, g) ==
  \/ /\ g = Promise(new.current_round, r, r)
     /\ replica[r].current_round < new.current_round
  \/ \E x \in Replicas : \E m \in InTransit(channel, x, r) :
        /\ m.type = "probe" /\ g = Promise(m.round, r, m.leader)
        /\ new.current_round = m.round
        /\ LeaderIsUpToDate(replica[r], m.last_log_index, m.last_log_round)

Turn(r, new) ==
  /\ HistEffect(r, new)
  /\ LeaderTurn(r, new) \/ FollowerTurn(r, new) \/ StoreTurn(r, new)
  /\ (\E L \in Log : Wins(r, new, L)) =>
        \/ /\ replica[r].role = "candidate" /\ granted' = granted
           /\ replica[r].current_round = new.current_round
        \/ replica[r].current_round < new.current_round /\ IsQuorum({r})
  /\ \A x, y \in Replicas : \A n \in InTransit(channel', x, y) :
        n \in InTransit(channel, x, y) \/ Sends(r, new, n)
  /\ \A g \in granted' : g \in granted \/ (Grants(r, new, g) /\ SameStore(new, replica[r]))

-----------------------------------------------------------------------------
(* Turns that keep the log *)

LEMMA WinsIsNew ==
  ASSUME NEW r, NEW new, NEW L, Wins(r, new, L), TypeInv, acked' = acked
  PROVE  FALSE
<1>1. Acked(r, new.current_round, LastLogIndex(new)) \in acked
  BY DEF Wins
<1>2. Acked(r, new.current_round, LastLogIndex(new)).round = new.current_round
  BY DEF Acked
<1>3. new.current_round \in Elected
  BY <1>1, <1>2 DEF Elected
<1> QED BY <1>3 DEF Wins

LEMMA SameStoreContiguous ==
  ASSUME NEW old \in ReplicaState, Contiguous(old), NEW new, SameStore(new, old)
  PROVE  Contiguous(new)
BY DEF SameStore, Contiguous, LastLogIndex

\* Elections, refusals and answers that are not counted.
LEMMA QuietTurn ==
  ASSUME Base, HistInv, NEW r \in Replicas, NEW new \in ReplicaState,
         SameStore(new, replica[r]),
         replica[r].current_round <= new.current_round,
         \/ new.role = "follower"
         \/ new.role = "candidate" /\ replica[r].current_round < new.current_round
         \/ SameProgress(new, replica[r]),
         replica' = [replica EXCEPT ![r] = new],
         leaderLog' = leaderLog, acked' = acked, replies' = replies,
         granted \subseteq granted',
         \A g \in granted' : g \in granted \/ Grants(r, new, g),
         \A x, y \in Replicas : \A n \in InTransit(channel', x, y) :
            \/ n \in InTransit(channel, x, y)
            \/ /\ n.type \in {"probe", "prepare", "ack"}
               /\ n.type = "ack" => ~n.success
               /\ n.type = "probe" => Sends(r, new, n)
  PROVE  Turn(r, new)
<1> DEFINE old == replica[r]
<1>1. old \in ReplicaState /\ Contiguous(old) /\ TypeInv
  BY BaseFacts
<1>2. Contiguous(new)
  BY <1>1, SameStoreContiguous
<1>3. SameTip(old, new) /\ LastLogIndex(new) = LastLogIndex(old)
  BY SameStoreTip DEF SameStore, LastLogIndex
<1>4. Idle(r, new)
  BY <1>3 DEF Idle
<1>5. ASSUME new.role = "leader"
      PROVE  /\ old.role = "leader" /\ new.current_round = old.current_round
             /\ \A s \in Replicas :
                   /\ new.next_index[s] <= LastLogIndex(new) + 1
                   /\ new.match_index[s] # 0 =>
                         Acked(s, new.current_round, new.match_index[s]) \in acked'
  <2>1. SameProgress(new, old)
    BY <1>5
  <2>2. Leading(r) /\ old.role = "leader"
    BY <1>5, <2>1 DEF HistInv, SameProgress
  <2> QED BY <1>3, <2>1, <2>2 DEF Leading, SameProgress
<1>6. new.role = "candidate" =>
         \/ old.role = "candidate" /\ new.current_round = old.current_round
         \/ old.current_round < new.current_round
  BY DEF SameProgress
<1>7. ASSUME NEW x \in Replicas, NEW y \in Replicas, NEW n \in InTransit(channel', x, y),
             n \notin InTransit(channel, x, y)
      PROVE  MessageSound(n)' /\ Sends(r, new, n)
  <2>1. n.type \in {"probe", "prepare", "ack"} /\ (n.type = "ack" => ~n.success)
    BY <1>7
  <2> QED BY <1>7, <2>1 DEF MessageSound, Sends
<1>8. HistEffect(r, new)
  BY <1>2, <1>4, <1>5, <1>6, <1>7 DEF HistEffect, HistoryStep
<1>9. ~\E L \in Log : Wins(r, new, L)
  BY <1>1, WinsIsNew
<1> QED BY <1>7, <1>8, <1>9 DEF Turn, StoreTurn

LEMMA AdvancesRound ==
  ASSUME NEW old, NEW new, Settles(old, new)
  PROVE  old.current_round <= new.current_round /\ new \in ReplicaState /\ Contiguous(new)
BY DEF Settles, Advances, CommittedStepOK

LEMMA HandleProposeTurn ==
  ASSUME Base, HistInv, NEW r \in Replicas, NEW s \in Replicas, HandlePropose(s, r)
  PROVE  \E new \in ReplicaState : Turn(r, new)
<1> DEFINE m == Head(channel[s][r])
           old == replica[r]
           new == ProposeOutcome(r, old, m).state
           ack == ProposeOutcome(r, old, m).ack
           out == [d \in Replicas |-> ack]
           A == leaderLog[LastLogRound(old)]
           B == leaderLog[m.round]
           q == LastProposed(m)
<1>1. /\ channel[s][r] # <<>> /\ m.type = "propose"
      /\ replica' = [replica EXCEPT ![r] = new]
      /\ Transmit(Receive(s, r), r, out, {m.leader})
      /\ acked' = IF ack.success THEN acked \cup {Acked(r, ack.round, ack.match_index)}
                  ELSE acked
      /\ replies' = replies /\ granted' = granted /\ leaderLog' = leaderLog
  BY Zenon DEF HandlePropose, Incoming
<1>2. /\ TypeInv /\ LogInv /\ old \in ReplicaState /\ Contiguous(old)
      /\ old.last_applied = old.commit_index
  BY BaseFacts
<1>3. /\ m \in ProposeMessage /\ Receive(s, r) \in Channels
      /\ m \in InTransit(channel, s, r)
      /\ \A x, y \in Replicas : InTransit(Receive(s, r), x, y) \subseteq InTransit(channel, x, y)
  BY <1>1, <1>2, TypeFacts, ReceiveLemma, MessageKinds
<1>4. From(m.prev_log_index, m.entries)
  BY <1>1, <1>2, <1>3 DEF LogInv, Shaped
<1>5. /\ m.leader \in Replicas /\ m.round \in Rounds /\ m.round \in Elected
      /\ ProposalOf(m, B)
  BY <1>1, <1>3 DEF ProposeMessage, HistInv, MessageSound
<1>6. /\ A \in Log /\ B \in Log /\ PrefixOf(old, A) /\ Matching(A, B)
      /\ LastLogRound(old) \in Elected
  BY <1>2, <1>5, HistFacts, TreeMatching DEF HistInv, LogSound
<1> HIDE DEF m, old
<1>7. Settles(old, new) /\ ack \in AckMessage
  BY <1>2, <1>3, <1>4, ProposeOutcomeSettles, ProposeOutcomeType
<1>8. /\ old.current_round <= new.current_round
      /\ new \in ReplicaState /\ Contiguous(new)
  BY <1>7, AdvancesRound
<1>9. \/ ~ack.success /\ SameStore(new, old)
      \/ /\ ack.success /\ ack.server = r /\ ack.round = m.round
         /\ ack.match_index = q /\ ack.next_index = q + 1
         /\ new.role = "follower" /\ new.current_round = m.round
         /\ old.current_round <= m.round
         /\ \A k \in Slots : k <= q => B[k] # Absent
         /\ new.commit_index = old.commit_index \/ new.commit_index <= m.decide_through
         /\ new.trim_through = old.trim_through \/ new.trim_through <= m.trim_through
         /\ Stored(old, new, A, B, q)
  <2> HIDE DEF A, B
  <2> QED BY <1>2, <1>3, <1>4, <1>6, <1>5, ProposeStores
<1>10. new.role = "follower" \/ SameProgress(new, old)
  <2>1. BecomeFollower(old, m.round, m.leader).role = "follower"
    BY <1>2, Zenon DEF BecomeFollower, ReplicaState
  <2>2. \/ new = old
        \/ SameElection(new, BecomeFollower(old, m.round, m.leader))
    BY <1>2, <1>3, ProposeOutcomeFrame
  <2> HIDE DEF new
  <2> QED BY <2>1, <2>2 DEF SameElection, SameProgress
<1>11. ack \in Message /\ ack.type = "ack"
  BY <1>7 DEF Message, AckMessage
<1> HIDE DEF new, ack
<1>12. \A d \in {m.leader} : out[d] = ack
  BY <1>5
<1> HIDE DEF out
<1>13. \A x, y \in Replicas : \A n \in InTransit(channel', x, y) :
         n \in InTransit(channel, x, y) \/ n = ack
  BY <1>1, <1>3, <1>5, <1>11, <1>12, TransmitLemma
<1>14. CASE ~ack.success /\ SameStore(new, old)
  <2>1. acked' = acked
    BY <1>1, <1>14
  <2> QED BY <1>1, <1>8, <1>10, <1>11, <1>13, <1>14, <2>1, QuietTurn DEF old
<1>15. CASE ack.success
  <2>1. q \in 0 .. MaxSlot /\ q \in Nat
    BY <1>3, <1>4, LastProposedRun
  <2> HIDE DEF q
  <2>2. Takes(r, new, m.round, q)
    BY <1>1, <1>5, <1>9, <1>15, <2>1 DEF Takes, old, A, B
  <2>3. ASSUME NEW x \in Replicas, NEW y \in Replicas, NEW n \in InTransit(channel', x, y),
               n \notin InTransit(channel, x, y)
        PROVE  MessageSound(n)' /\ Sends(r, new, n)
    <3>1. n = ack /\ Acked(r, ack.round, ack.match_index) \in acked'
      BY <1>1, <1>13, <1>15, <2>3
    <3> QED BY <1>9, <1>11, <1>15, <3>1 DEF MessageSound, Sends
  <2>4. new.role = "follower"
    BY <1>9, <1>15
  <2>5. HistEffect(r, new)
    BY <1>1, <1>5, <1>8, <2>1, <2>2, <2>3, <2>4 DEF HistEffect, HistoryStep, old
  <2>6. FollowerTurn(r, new)
    BY <1>1, <1>3, <1>9, <1>15, <2>2 DEF FollowerTurn, old, q
  <2>7. ~\E L \in Log : Wins(r, new, L)
    BY <2>4 DEF Wins
  <2>8. Turn(r, new)
    BY <1>1, <2>3, <2>5, <2>6, <2>7 DEF Turn
  <2> QED BY <1>8, <2>8
<1> QED BY <1>9, <1>14, <1>15

LEMMA FollowerKeepsStore ==
  ASSUME NEW st \in ReplicaState, NEW round \in Rounds, NEW hint \in Replicas
  PROVE  LET new == BecomeFollower(st, round, hint) IN
         /\ new \in ReplicaState /\ SameStore(new, st) /\ new.role = "follower"
         /\ new.current_round = IF round > st.current_round THEN round ELSE st.current_round
         /\ st.current_round <= new.current_round
<1> DEFINE new == BecomeFollower(st, round, hint)
<1>1. /\ SameStore(new, st) /\ new.role = "follower"
      /\ new.current_round = IF round > st.current_round THEN round ELSE st.current_round
  BY Zenon DEF BecomeFollower, ReplicaState, SameStore
<1>2. new \in ReplicaState
  BY BecomeFollowerType
<1> HIDE DEF new
<1>3. st.current_round \in Nat /\ round \in Nat
  BY Indices, BoundsAssumption DEF Rounds
<1>4. st.current_round <= new.current_round
  BY <1>1, <1>3
<1> QED BY <1>1, <1>2, <1>4 DEF new

\* A message that is only taken, or that makes the replica follow a later round.
LEMMA StepDownTurn ==
  ASSUME Base, HistInv, NEW r \in Replicas, NEW s \in Replicas,
         channel[s][r] # <<>>, NEW round \in Rounds,
         \/ replica' = replica
         \/ replica' = [replica EXCEPT ![r] =
                           BecomeFollower(replica[r], round, replica[r].leader_index)],
         channel' = Receive(s, r), granted' = granted,
         leaderLog' = leaderLog, acked' = acked, replies' = replies
  PROVE  \E new \in ReplicaState : Turn(r, new)
<1> DEFINE old == replica[r]
           st == BecomeFollower(old, round, old.leader_index)
<1>1. TypeInv /\ old \in ReplicaState /\ replica = [replica EXCEPT ![r] = old]
  <2>1. TypeInv /\ LogInv
    BY DEF Base
  <2> QED BY <2>1, LogFacts
<1>2. old.leader_index \in Replicas /\ old.current_round \in Nat
  BY <1>1, Indices DEF ReplicaState
<1>3. /\ SameStore(old, old) /\ SameProgress(old, old)
      /\ old.current_round <= old.current_round
  BY <1>2 DEF SameStore, SameProgress
<1> HIDE DEF old
<1>4. /\ st \in ReplicaState /\ SameStore(st, old) /\ st.role = "follower"
      /\ old.current_round <= st.current_round
  BY <1>1, <1>2, FollowerKeepsStore
<1>5. \A x, y \in Replicas : InTransit(channel', x, y) \subseteq InTransit(channel, x, y)
  BY <1>1, TypeFacts, ReceiveLemma
<1>6. CASE replica' = replica
  <2>1. Turn(r, old)
    <3>1. replica' = [replica EXCEPT ![r] = old]
      BY <1>1, <1>6
    <3> QED BY <1>1, <1>3, <1>5, <3>1, QuietTurn DEF old
  <2> QED BY <1>1, <2>1
<1>7. CASE replica' = [replica EXCEPT ![r] = st]
  <2> HIDE DEF st
  <2>1. Turn(r, st)
    BY <1>4, <1>5, <1>7, QuietTurn DEF old
  <2> QED BY <1>4, <2>1
<1> QED BY <1>6, <1>7 DEF old

LEMMA HandleProbeTurn ==
  ASSUME Base, HistInv, NEW r \in Replicas, NEW s \in Replicas, HandleProbe(s, r)
  PROVE  \E new \in ReplicaState : Turn(r, new)
<1> DEFINE m == Head(channel[s][r])
           old == replica[r]
           st == IF m.round > old.current_round
                 THEN BecomeFollower(old, m.round, old.leader_index) ELSE old
           promise == m.round >= old.current_round /\ CanPromise(st, m)
           answer == [type |-> "prepare", round |-> st.current_round, server |-> r,
                      promised |-> promise]
           out == [d \in Replicas |-> answer]
           kept == [st EXCEPT !.promised_leader = m.leader, !.leader_index = m.leader]
           new == IF promise THEN kept ELSE st
<1>1. /\ channel[s][r] # <<>> /\ m.type = "probe"
      /\ replica' = [replica EXCEPT ![r] = new]
      /\ Transmit(Receive(s, r), r, out, {m.leader})
      /\ granted' = IF promise
                    THEN granted \cup {[round |-> m.round, server |-> r, leader |-> m.leader]}
                    ELSE granted
      /\ replies' = replies /\ leaderLog' = leaderLog /\ acked' = acked
  BY Zenon DEF HandleProbe, Incoming
<1>2. TypeInv /\ old \in ReplicaState
  BY BaseFacts
<1>3. /\ m \in ProbeMessage /\ Receive(s, r) \in Channels
      /\ m \in InTransit(channel, s, r)
      /\ \A x, y \in Replicas : InTransit(Receive(s, r), x, y) \subseteq InTransit(channel, x, y)
  BY <1>1, <1>2, TypeFacts, ReceiveLemma, MessageKinds
<1>4. m.leader \in Replicas /\ m.round \in Rounds /\ m.round \in Nat
  BY <1>3, BoundsAssumption DEF ProbeMessage, Rounds
<1>5. /\ old.leader_index \in Replicas /\ old.current_round \in Nat
      /\ old.current_round \in Rounds
  BY <1>2, Indices DEF ReplicaState
<1>6. /\ st \in ReplicaState /\ SameStore(st, old) /\ old.current_round <= st.current_round
      /\ st.role = "follower" \/ SameProgress(st, old)
      /\ m.round >= old.current_round => st.current_round = m.round
  <2> HIDE DEF m, old
  <2>1. CASE m.round > old.current_round
    <3> DEFINE f == BecomeFollower(old, m.round, old.leader_index)
    <3>1. /\ f \in ReplicaState /\ SameStore(f, old) /\ f.role = "follower"
          /\ f.current_round = m.round /\ old.current_round <= f.current_round
      BY <1>2, <1>4, <1>5, <2>1, FollowerKeepsStore
    <3>2. st = f
      BY <2>1
    <3> HIDE DEF f, st
    <3> QED BY <3>1, <3>2
  <2>2. CASE ~(m.round > old.current_round)
    <3>1. st = old
      BY <2>2
    <3> HIDE DEF st
    <3> QED BY <1>2, <1>4, <1>5, <2>2, <3>1 DEF SameStore, SameProgress
  <2> QED BY <2>1, <2>2
<1> HIDE DEF m, old, st
<1>7. /\ kept \in ReplicaState /\ SameStore(kept, st) /\ SameProgress(kept, st)
  BY <1>4, <1>6, Zenon DEF ReplicaState, SameStore, SameProgress
<1> HIDE DEF kept
<1>8. /\ new \in ReplicaState /\ SameStore(new, st) /\ SameProgress(new, st)
  <2>1. new = kept \/ new = st
    OBVIOUS
  <2> HIDE DEF new
  <2> QED BY <1>6, <1>7, <2>1 DEF SameStore, SameProgress
<1>9. promise => /\ m.round >= old.current_round
                 /\ LeaderIsUpToDate(st, m.last_log_index, m.last_log_round)
  BY DEF CanPromise
<1> HIDE DEF new, promise
<1>10. /\ SameStore(new, old) /\ old.current_round <= new.current_round
       /\ new.role = "follower" \/ SameProgress(new, old)
       /\ m.round >= old.current_round => new.current_round = m.round
  BY <1>6, <1>8 DEF SameStore, SameProgress
<1>11. ASSUME promise
       PROVE  Grants(r, new, Promise(m.round, r, m.leader))
  <2>1. LeaderIsUpToDate(old, m.last_log_index, m.last_log_round)
    <3>1. LastLogIndex(st) = LastLogIndex(old) /\ LastLogRound(st) = LastLogRound(old)
      BY <1>6, SameStoreTip DEF SameTip
    <3> QED BY <1>9, <1>11, <3>1 DEF LeaderIsUpToDate
  <2> QED BY <1>1, <1>3, <1>9, <1>10, <1>11, <2>1 DEF Grants, old
<1>12. \A g \in granted' : g \in granted \/ Grants(r, new, g)
  BY <1>1, <1>11 DEF Promise
<1>13. answer \in Message /\ answer.type = "prepare"
  <2>1. promise \in BOOLEAN
    BY DEF promise
  <2>2. st.current_round \in Rounds
    BY <1>6 DEF ReplicaState
  <2> QED BY <2>1, <2>2 DEF Message, PrepareMessage
<1> HIDE DEF answer
<1>14. \A d \in {m.leader} : out[d] = answer
  BY <1>4
<1> HIDE DEF out
<1>15. \A x, y \in Replicas : \A n \in InTransit(channel', x, y) :
          n \in InTransit(channel, x, y) \/ n = answer
  BY <1>1, <1>3, <1>4, <1>13, <1>14, TransmitLemma
<1>16. granted \subseteq granted'
  BY <1>1
<1>17. Turn(r, new)
  BY <1>1, <1>8, <1>10, <1>12, <1>13, <1>15, <1>16, QuietTurn DEF old
<1> QED BY <1>8, <1>17

-----------------------------------------------------------------------------
(* Proposals *)

LEMMA ClampKeepsStore ==
  ASSUME NEW st \in ReplicaState, NEW peers
  PROVE  LET new == ClampNextIndex(st, peers) IN
         /\ new \in ReplicaState /\ SameStore(new, st)
         /\ new.role = st.role /\ new.current_round = st.current_round
         /\ new.match_index = st.match_index
         /\ \A s \in Replicas :
               /\ \/ new.next_index[s] = st.next_index[s]
                  \/ new.next_index[s] = st.trim_through + 1
               /\ s \in peers => st.trim_through + 1 <= new.next_index[s]
<1> DEFINE new == ClampNextIndex(st, peers)
           next == [s \in Replicas |->
                      IF s \in peers /\ st.next_index[s] < st.trim_through + 1
                      THEN st.trim_through + 1 ELSE st.next_index[s]]
<1>1. /\ SameStore(new, st) /\ new.role = st.role /\ new.current_round = st.current_round
      /\ new.match_index = st.match_index
      /\ new.next_index = next
  BY Zenon DEF ClampNextIndex, ReplicaState, SameStore
<1>2. new \in ReplicaState
  BY ClampNextIndexType
<1> HIDE DEF new
<1>3. st.trim_through \in Nat /\ \A s \in Replicas : st.next_index[s] \in Nat
  <2>1. st.next_index \in [Replicas -> 1 .. MaxSlot + 1]
    BY DEF ReplicaState
  <2> QED BY <2>1, Indices, BoundsAssumption
<1>4. ASSUME NEW s \in Replicas
      PROVE  /\ \/ new.next_index[s] = st.next_index[s]
                \/ new.next_index[s] = st.trim_through + 1
             /\ s \in peers => st.trim_through + 1 <= new.next_index[s]
  BY <1>1, <1>3
<1> QED BY <1>1, <1>2, <1>4 DEF new

\* A proposal carries a part of the log of the leader that sends it.
LEMMA ProposalFrom ==
  ASSUME NEW r \in Replicas, NEW st \in ReplicaState, Contiguous(st),
         NEW L \in Log, PrefixOf(st, L), NEW d \in Replicas,
         st.trim_through + 1 <= st.next_index[d],
         st.next_index[d] <= LastLogIndex(st) + 1
  PROVE  LET m == ProposeTo(r, st, d) IN
         /\ m \in Message /\ m.type = "propose" /\ m.round = st.current_round
         /\ m.decide_through = st.commit_index /\ m.trim_through = st.trim_through
         /\ ProposalOf(m, L)
<1> DEFINE m == ProposeTo(r, st, d)
           next == st.next_index[d]
           entries == [k \in Slots |->
                IF next <= k /\ k < next + AppendBatch
                   /\ \A j \in Slots : next <= j /\ j <= k => st.log[j] # Absent
                THEN st.log[k] ELSE Absent]
<1>1. /\ m.type = "propose" /\ m.round = st.current_round
      /\ m.decide_through = st.commit_index /\ m.trim_through = st.trim_through
      /\ m.prev_log_index = next - 1 /\ m.prev_log_round = RoundAt(st, next - 1)
      /\ m.entries = entries
  BY Zenon DEF ProposeTo
<1>2. m \in Message
  BY ProposeToType DEF Message
<1>3. next \in Nat \ {0} /\ next <= MaxSlot + 1
  <2>1. st.next_index \in [Replicas -> 1 .. MaxSlot + 1]
    BY DEF ReplicaState
  <2> QED BY <2>1, BoundsAssumption
<1> HIDE DEF m
<1>4. ASSUME NEW k \in Slots, entries[k] # Absent
      PROVE  entries[k] = L[k]
  <2>1. entries[k] = st.log[k]
    BY <1>4
  <2> HIDE DEF entries
  <2>2. st.log[k] # Absent
    BY <1>4, <2>1
  <2> QED BY <2>1, <2>2 DEF Contiguous, PrefixOf
<1> HIDE DEF entries, next
<1>5. ASSUME next - 1 # 0
      PROVE  L[next - 1] # Absent /\ L[next - 1].round = RoundAt(st, next - 1)
  <2>1. next - 1 \in Slots
    BY <1>3, <1>5, BoundsAssumption DEF Slots
  <2>2. st.trim_through <= next - 1 /\ next - 1 <= LastLogIndex(st)
    BY <1>3, Indices DEF next
  <2> QED BY <2>1, <2>2, RoundAtPrefix
<1>6. ASSUME AppendBatch >= MaxSlot
      PROVE  m.decide_through <= LastProposed(m)
  <2> DEFINE ends == {m.prev_log_index} \cup {k \in Slots : m.entries[k] # Absent}
             last == LastLogIndex(st)
  <2>1. LastProposed(m) = Max(ends)
    BY Zenon DEF LastProposed
  <2>2. ends \in SUBSET (0 .. MaxSlot)
    BY <1>1, <1>3, BoundsAssumption DEF Slots
  <2>3. /\ last \in Nat /\ last <= MaxSlot /\ st.commit_index \in Nat
        /\ st.trim_through \in Nat /\ st.commit_index <= last /\ next <= last + 1
        /\ st.trim_through + 1 <= next
    BY Indices DEF Contiguous, next
  <2>4. last \in ends
    <3>1. CASE next = last + 1
      BY <1>1, <2>3, <3>1
    <3>2. CASE next # last + 1
      <4>1. last \in Slots /\ next <= last
        BY <1>3, <2>3, <3>2, BoundsAssumption DEF Slots
      <4>2. last < next + AppendBatch
        BY <1>3, <1>6, <2>3, BoundsAssumption
      <4>3. \A j \in Slots : next <= j /\ j <= last => st.log[j] # Absent
        BY <1>3, <2>3, SlotIsNatural DEF Contiguous
      <4>4. entries[last] = st.log[last]
        BY <4>1, <4>2, <4>3 DEF entries
      <4>5. m.entries[last] # Absent
        BY <1>1, <2>3, <4>1, <4>3, <4>4
      <4> QED BY <4>1, <4>5
    <3> QED BY <3>1, <3>2
  <2> HIDE DEF ends, last
  <2>5. Max(ends) >= last /\ Max(ends) \in 0 .. MaxSlot
    <3>1. ends # {}
      BY <2>4
    <3>2. Max(ends) \in 0 .. MaxSlot /\ \A y \in ends : Max(ends) >= y
      BY <2>2, <3>1, MinMaxOfIndices, BoundsAssumption
    <3> QED BY <2>4, <3>2
  <2>6. Max(ends) \in Nat
    BY <2>5, BoundsAssumption
  <2> QED BY <1>1, <2>1, <2>3, <2>5, <2>6
<1> QED BY <1>1, <1>2, <1>4, <1>5, <1>6 DEF ProposalOf, WholeBatch, m

\* The proposals that replica r sends to peers from state st, whose log is L.
LEMMA ProposalsSent ==
  ASSUME NEW c \in Channels, NEW r \in Replicas, NEW st \in ReplicaState, Contiguous(st),
         NEW L \in Log, PrefixOf(st, L), NEW peers \in SUBSET Replicas,
         \A d \in peers : /\ st.trim_through + 1 <= st.next_index[d]
                          /\ st.next_index[d] <= LastLogIndex(st) + 1,
         TransmitProposals(c, r, st, peers)
  PROVE  \A x, y \in Replicas : \A n \in InTransit(channel', x, y) :
            \/ n \in InTransit(c, x, y)
            \/ /\ n.type = "propose" /\ n.round = st.current_round
               /\ n.decide_through = st.commit_index /\ n.trim_through = st.trim_through
               /\ ProposalOf(n, L)
<1> DEFINE out == [d \in Replicas |-> ProposeTo(r, st, d)]
<1>1. ASSUME NEW d \in peers
      PROVE  /\ out[d] \in Message
             /\ out[d].type = "propose" /\ out[d].round = st.current_round
             /\ out[d].decide_through = st.commit_index
             /\ out[d].trim_through = st.trim_through
             /\ ProposalOf(out[d], L)
  <2>1. d \in Replicas /\ out[d] = ProposeTo(r, st, d)
    OBVIOUS
  <2> HIDE DEF out
  <2> QED BY <2>1, ProposalFrom
<1>2. Transmit(c, r, out, peers)
  BY Zenon DEF TransmitProposals
<1> HIDE DEF out
<1>3. \A x, y \in Replicas : \A m \in InTransit(channel', x, y) :
         m \in InTransit(c, x, y) \/ (y \in peers /\ m = out[y])
  BY <1>1, <1>2, TransmitLemma
<1> QED BY <1>1, <1>3

-----------------------------------------------------------------------------
(* Winning an election *)

\* A round is won once: a candidate with a quorum of promises is its first leader.
LEMMA NotElectedYet ==
  ASSUME Base, HistInv, NEW r \in Replicas, NEW u \in Nat, u # 0,
         NEW Q \in SUBSET Replicas, IsQuorum(Q),
         \/ /\ replica[r].role = "candidate" /\ replica[r].current_round = u
            /\ \A p \in Q : Promise(u, p, r) \in granted
         \/ Q = {r} /\ replica[r].current_round < u
  PROVE  u \notin Elected
<1> SUFFICES ASSUME u \in Elected PROVE FALSE
  OBVIOUS
<1>1. PICK l \in Replicas, P \in SUBSET Replicas :
         /\ IsQuorum(P) /\ \A p \in P : Promise(u, p, l) \in granted
         /\ ~(replica[l].role = "candidate" /\ replica[l].current_round = u)
  BY DEF HistInv, ElectedOnce
<1>2. PICK p \in Replicas : p \in P /\ p \in Q
  BY <1>1, QuorumsIntersect
<1>3. Promise(u, p, l) \in granted
  BY <1>1, <1>2
<1>4. \A q : /\ Promise(u, p, q).round = u /\ Promise(u, p, q).server = p
             /\ Promise(u, p, q).leader = q
  BY DEF Promise
<1>5. CASE /\ replica[r].role = "candidate" /\ replica[r].current_round = u
           /\ \A q \in Q : Promise(u, q, r) \in granted
  <2>1. Promise(u, p, r) \in granted
    BY <1>2, <1>5
  <2>2. l = r
    BY <1>3, <1>4, <2>1 DEF Base, ElectionInv, GrantsUnique
  <2> QED BY <1>1, <1>5, <2>2
<1>6. CASE Q = {r} /\ replica[r].current_round < u
  <2>1. p = r
    BY <1>2, <1>6
  <2>2. u <= replica[r].current_round
    BY <1>3, <1>4, <2>1 DEF Base, ElectionInv, GrantsRemembered
  <2>3. replica[r].current_round \in Nat
    BY BaseFacts
  <2> QED BY <1>6, <2>2, <2>3
<1> QED BY <1>5, <1>6

\* become_leader, from the candidate that has won.
LEMMA WinningTurn ==
  ASSUME Base, HistInv, NEW r \in Replicas, NEW new \in ReplicaState,
         SameStore(new, replica[r]), new.role = "leader",
         replica[r].current_round <= new.current_round,
         new.current_round \notin Elected,
         \A s \in Replicas : /\ new.next_index[s] <= LastLogIndex(new) + 1
                             /\ new.match_index[s] = IF s = r THEN LastLogIndex(new) ELSE 0,
         replica' = [replica EXCEPT ![r] = new], Lead(r, new), replies' = replies,
         \/ /\ replica[r].role = "candidate" /\ granted' = granted
            /\ replica[r].current_round = new.current_round
         \/ /\ replica[r].current_round < new.current_round /\ IsQuorum({r})
            /\ granted' = granted \cup {Promise(new.current_round, r, r)},
         \A x, y \in Replicas : \A n \in InTransit(channel', x, y) :
            \/ n \in InTransit(channel, x, y)
            \/ /\ n.type = "probe" /\ Sends(r, new, n)
            \/ /\ n.type = "propose" /\ n.round = new.current_round
               /\ n.decide_through = new.commit_index
               /\ n.trim_through = new.trim_through
               /\ ProposalOf(n, WholeLog(new))
  PROVE  Turn(r, new)
<1> DEFINE old == replica[r]
           u == new.current_round
           L == WholeLog(new)
           own == Acked(r, u, LastLogIndex(new))
<1>1. TypeInv /\ old \in ReplicaState /\ Contiguous(old) /\ HistoryTyped
  BY BaseFacts, TypeFacts
<1>2. Contiguous(new) /\ SameTip(old, new)
  BY <1>1, SameStoreContiguous, SameStoreTip
<1>3. LastLogIndex(new) = LastLogIndex(old) /\ LastLogRound(new) = LastLogRound(old)
  BY <1>2 DEF SameTip
<1>4. L \in Log /\ u \in Rounds
  BY <1>1, WholeLogType DEF ReplicaState
<1>5. leaderLog' = [leaderLog EXCEPT ![u] = L] /\ acked' = acked \cup {own}
  BY DEF Lead
<1>6. leaderLog'[u] = L
  BY <1>1, <1>4, <1>5 DEF HistoryTyped
<1>7. u \in Elected'
  <2>1. own.round = u /\ own \in acked'
    BY <1>5 DEF Acked
  <2> QED BY <2>1 DEF Elected
<1>8. ASSUME NEW k \in Slots
      PROVE  /\ k <= LastLogIndex(old) => leaderLog[LastLogRound(old)][k] = L[k]
             /\ L[k] # Absent => k <= LastLogIndex(old)
  <2>1. L[k] = IF k <= new.trim_through THEN leaderLog[LastLogRound(new)][k]
               ELSE new.log[k]
    BY DEF WholeLog
  <2>2. PrefixOf(old, leaderLog[LastLogRound(old)])
    BY DEF HistInv, LogSound
  <2>3. new.trim_through = old.trim_through /\ new.log = old.log
    BY DEF SameStore
  <2>4. k > old.trim_through /\ k <= LastLogIndex(old) =>
           old.log[k] = leaderLog[LastLogRound(old)][k]
    BY <2>2 DEF PrefixOf
  <2>5. /\ old.trim_through \in Nat /\ LastLogIndex(old) \in Nat /\ k \in Nat
        /\ old.trim_through <= LastLogIndex(old)
        /\ old.log[k] # Absent => k <= LastLogIndex(old)
    BY <1>1, Indices, SlotIsNatural DEF Contiguous
  <2> HIDE DEF L, old
  <2> QED BY <1>3, <2>1, <2>3, <2>4, <2>5
<1>9. Wins(r, new, L)
  BY <1>2, <1>5, <1>8 DEF Wins, Agree
<1>10. \A s \in Replicas : new.match_index[s] # 0 =>
                              Acked(s, u, new.match_index[s]) \in acked'
  BY <1>5
<1>11. ASSUME NEW x \in Replicas, NEW y \in Replicas, NEW n \in InTransit(channel', x, y),
              n \notin InTransit(channel, x, y)
       PROVE  MessageSound(n)' /\ Sends(r, new, n)
  <2>1. CASE n.type = "probe" /\ Sends(r, new, n)
    BY <2>1 DEF MessageSound
  <2>2. CASE /\ n.type = "propose" /\ n.round = u
             /\ n.decide_through = new.commit_index
             /\ n.trim_through = new.trim_through
             /\ ProposalOf(n, L)
    <3>1. ProposalOf(n, leaderLog'[n.round])
      BY <1>6, <2>2
    <3>2. MessageSound(n)'
      BY <1>7, <2>2, <3>1 DEF MessageSound, ProposalOf
    <3>3. new.commit_index \in Nat /\ new.trim_through \in Nat
      BY Indices
    <3> QED BY <2>2, <3>2, <3>3 DEF Sends
  <2> QED BY <1>11, <2>1, <2>2
<1>12. HistEffect(r, new)
  <2>1. HistoryStep(r, new) /\ \E K \in Log : Wins(r, new, K)
    BY <1>4, <1>9 DEF HistoryStep
  <2>2. granted \subseteq granted'
    OBVIOUS
  <2> QED BY <1>2, <1>10, <1>11, <2>1, <2>2 DEF HistEffect
<1>13. \A g \in granted' : g \in granted \/ Grants(r, new, g)
  BY DEF Grants
<1> QED BY <1>11, <1>12, <1>13 DEF Turn, StoreTurn

LEMMA LeaderKeepsStore ==
  ASSUME NEW r \in Replicas, NEW st \in ReplicaState
  PROVE  LET new == BecomeLeader(r, st) IN
         /\ new \in ReplicaState /\ SameStore(new, st) /\ new.role = "leader"
         /\ new.current_round = st.current_round
         /\ \A s \in Replicas :
               /\ new.next_index[s] = LastLogIndex(st) + 1
               /\ new.match_index[s] = IF s = r THEN LastLogIndex(st) ELSE 0
<1> DEFINE new == BecomeLeader(r, st)
<1>1. /\ SameStore(new, st) /\ new.role = "leader" /\ new.current_round = st.current_round
      /\ new.match_index = [s \in Replicas |-> IF s = r THEN LastLogIndex(st) ELSE 0]
      /\ new.next_index = [s \in Replicas |-> LastLogIndex(st) + 1]
  BY Zenon DEF BecomeLeader, ReplicaState, SameStore
<1>2. new \in ReplicaState
  BY BecomeLeaderType
<1> HIDE DEF new
<1> QED BY <1>1, <1>2 DEF new

LEMMA HandlePrepareTurn ==
  ASSUME Base, HistInv, NEW r \in Replicas, NEW s \in Replicas, HandlePrepare(s, r)
  PROVE  \E new \in ReplicaState : Turn(r, new)
<1> DEFINE m == Head(channel[s][r])
           old == replica[r]
           counts == /\ old.role = "candidate" /\ m.round = old.current_round
                     /\ m.promised /\ m.server \notin old.prepare_ok
           ok == old.prepare_ok \cup {m.server}
           st == [old EXCEPT !.prepare_ok = ok]
           leader == BecomeLeader(r, st)
           leading == ClampNextIndex(leader, Peers(r))
<1>1. channel[s][r] # <<>> /\ m.type = "prepare" /\ granted' = granted /\ replies' = replies
  BY Zenon DEF HandlePrepare, Incoming
<1>2. \/ /\ \/ replica' = replica
            \/ replica' = [replica EXCEPT ![r] =
                              BecomeFollower(old, m.round, old.leader_index)]
         /\ channel' = Receive(s, r) /\ leaderLog' = leaderLog /\ acked' = acked
      \/ /\ counts /\ replica' = [replica EXCEPT ![r] = st]
         /\ channel' = Receive(s, r) /\ leaderLog' = leaderLog /\ acked' = acked
      \/ /\ counts /\ IsQuorum(st.prepare_ok)
         /\ replica' = [replica EXCEPT ![r] = leading]
         /\ TransmitProposals(Receive(s, r), r, leading, Peers(r))
         /\ Lead(r, leading)
  BY Zenon DEF HandlePrepare
<1>3. TypeInv /\ old \in ReplicaState /\ Contiguous(old) /\ old.current_round \in Nat
  BY BaseFacts
<1>4. /\ m \in PrepareMessage /\ Receive(s, r) \in Channels
      /\ m \in InTransit(channel, s, r)
      /\ \A x, y \in Replicas : InTransit(Receive(s, r), x, y) \subseteq InTransit(channel, x, y)
  BY <1>1, <1>3, TypeFacts, ReceiveLemma, MessageKinds
<1>5. m.server \in Replicas /\ m.round \in Rounds
  BY <1>4 DEF PrepareMessage
<1> HIDE DEF m
<1>6. CASE /\ \/ replica' = replica
              \/ replica' = [replica EXCEPT ![r] =
                                BecomeFollower(old, m.round, old.leader_index)]
           /\ channel' = Receive(s, r) /\ leaderLog' = leaderLog /\ acked' = acked
  BY <1>1, <1>5, <1>6, StepDownTurn
<1> HIDE DEF old
<1>7. ok \in SUBSET Replicas
  BY <1>3, <1>5 DEF ReplicaState
<1> HIDE DEF ok
<1>8. /\ st \in ReplicaState /\ st.prepare_ok = ok
      /\ SameStore(st, old) /\ SameProgress(st, old)
  BY <1>3, <1>7, Zenon DEF ReplicaState, SameStore, SameProgress
<1> HIDE DEF st
<1>9. CASE /\ counts /\ replica' = [replica EXCEPT ![r] = st]
           /\ channel' = Receive(s, r) /\ leaderLog' = leaderLog /\ acked' = acked
  <2>1. old.current_round <= st.current_round
    BY <1>3, <1>8 DEF SameProgress
  <2>2. Turn(r, st)
    BY <1>1, <1>4, <1>8, <1>9, <2>1, QuietTurn DEF old
  <2> QED BY <1>8, <2>2
<1>10. CASE /\ counts /\ IsQuorum(st.prepare_ok)
            /\ replica' = [replica EXCEPT ![r] = leading]
            /\ TransmitProposals(Receive(s, r), r, leading, Peers(r))
            /\ Lead(r, leading)
  <2> DEFINE u == old.current_round
             last == LastLogIndex(old)
  <2>1. /\ leader \in ReplicaState /\ SameStore(leader, old) /\ leader.role = "leader"
        /\ leader.current_round = u
        /\ \A q \in Replicas : /\ leader.next_index[q] = last + 1
                               /\ leader.match_index[q] = IF q = r THEN last ELSE 0
    <3>1. LastLogIndex(st) = last
      BY <1>8 DEF SameStore, LastLogIndex
    <3>2. /\ leader \in ReplicaState /\ SameStore(leader, st) /\ leader.role = "leader"
          /\ leader.current_round = st.current_round
          /\ \A q \in Replicas : /\ leader.next_index[q] = LastLogIndex(st) + 1
                                 /\ leader.match_index[q] = IF q = r THEN LastLogIndex(st) ELSE 0
      BY <1>8, LeaderKeepsStore
    <3> HIDE DEF leader, last
    <3> QED BY <1>8, <3>1, <3>2 DEF SameStore, SameProgress
  <2> HIDE DEF leader
  <2>2. /\ leading \in ReplicaState /\ SameStore(leading, leader)
        /\ leading.role = leader.role /\ leading.current_round = leader.current_round
        /\ leading.match_index = leader.match_index
        /\ \A q \in Replicas :
              /\ \/ leading.next_index[q] = leader.next_index[q]
                 \/ leading.next_index[q] = leader.trim_through + 1
              /\ q \in Peers(r) => leader.trim_through + 1 <= leading.next_index[q]
    BY <2>1, ClampKeepsStore
  <2> HIDE DEF leading
  <2>3. SameStore(leading, old) /\ leading.trim_through = leader.trim_through
    BY <2>1, <2>2 DEF SameStore
  <2>4. Contiguous(leading) /\ LastLogIndex(leading) = last
    BY <1>3, <2>3, SameStoreContiguous DEF SameStore, LastLogIndex
  <2>5. leader.trim_through \in Nat /\ last \in Nat /\ leader.trim_through <= last
    <3>1. leader.trim_through = old.trim_through
      BY <2>1 DEF SameStore
    <3> QED BY <1>3, <3>1, Indices DEF Contiguous
  <2>6. ASSUME NEW q \in Replicas
        PROVE  /\ leading.next_index[q] <= LastLogIndex(leading) + 1
               /\ leading.match_index[q] = IF q = r THEN LastLogIndex(leading) ELSE 0
    <3> HIDE DEF last
    <3> QED BY <2>1, <2>2, <2>4, <2>5
  <2>7. ASSUME NEW p \in ok
        PROVE  Promise(u, p, r) \in granted
    <3>1. Promise(m.round, m.server, r) \in granted
      BY <1>1, <1>4, <1>10 DEF Base, ElectionInv, PromisesSent, m
    <3>2. \A q \in old.prepare_ok : Promise(u, q, r) \in granted
      BY <1>10 DEF Base, ElectionInv, Candidates, old
    <3> QED BY <1>10, <2>7, <3>1, <3>2 DEF ok
  <2>8. u \notin Elected
    <3>1. u # 0
      <4>1. u > 0
        BY <1>10 DEF Base, ElectionInv, Candidates, old
      <4> QED BY <1>3, <4>1
    <3> QED BY <1>3, <1>7, <1>8, <1>10, <2>7, <3>1, NotElectedYet DEF old
  <2> DEFINE L == WholeLog(leading)
  <2>9. L \in Log /\ PrefixOf(leading, L)
    <3>1. L \in Log
      BY <1>3, <2>2, TypeFacts, WholeLogType
    <3>2. PrefixOf(old, leaderLog[LastLogRound(old)])
      BY DEF HistInv, LogSound, old
    <3>3. PrefixOf(leading, leaderLog[LastLogRound(old)]) /\ LastLogRound(leading) = LastLogRound(old)
      BY <2>3, <3>2, SameStoreTip DEF PrefixOf, SameStore, LastLogIndex, SameTip
    <3>4. \A k \in Slots : L[k] = IF k <= leading.trim_through
                                   THEN leaderLog[LastLogRound(old)][k] ELSE leading.log[k]
      BY <3>3 DEF WholeLog
    <3> HIDE DEF L
    <3>5. \A k \in Slots : k <= leading.trim_through \/ k > leading.trim_through
      BY <2>2, Indices, SlotIsNatural
    <3>6. \A k \in Slots : k <= LastLogIndex(leading) => L[k] = leaderLog[LastLogRound(old)][k]
      BY <3>3, <3>4, <3>5 DEF PrefixOf
    <3> QED BY <3>1, <3>3, <3>6 DEF PrefixOf
  <2>10. Peers(r) \in SUBSET Replicas
    BY DEF Peers
  <2>11. \A x, y \in Replicas : \A n \in InTransit(channel', x, y) :
            \/ n \in InTransit(channel, x, y)
            \/ /\ n.type = "propose" /\ n.round = leading.current_round
               /\ n.decide_through = leading.commit_index
               /\ n.trim_through = leading.trim_through
               /\ ProposalOf(n, L)
    <3> HIDE DEF L
    <3>1. \A d \in Peers(r) : /\ leading.trim_through + 1 <= leading.next_index[d]
                              /\ leading.next_index[d] <= LastLogIndex(leading) + 1
      BY <2>2, <2>3, <2>6, <2>10
    <3>2. TransmitProposals(Receive(s, r), r, leading, Peers(r))
      BY <1>10
    <3>3. \A x, y \in Replicas : \A n \in InTransit(channel', x, y) :
            \/ n \in InTransit(Receive(s, r), x, y)
            \/ /\ n.type = "propose" /\ n.round = leading.current_round
               /\ n.decide_through = leading.commit_index
               /\ n.trim_through = leading.trim_through
               /\ ProposalOf(n, L)
      BY <1>4, <2>2, <2>4, <2>9, <2>10, <3>1, <3>2, ProposalsSent
    <3> QED BY <1>4, <3>3
  <2>12. Turn(r, leading)
    <3>1. u <= leading.current_round /\ leading.current_round \notin Elected
          /\ leading.role = "leader" /\ old.role = "candidate" /\ u = leading.current_round
      BY <1>3, <1>10, <2>1, <2>2, <2>8
    <3>2. replica' = [replica EXCEPT ![r] = leading] /\ Lead(r, leading)
      BY <1>10
    <3> QED BY <1>1, <2>2, <2>3, <2>6, <2>11, <3>1, <3>2, WinningTurn DEF old
  <2> QED BY <2>2, <2>12
<1> QED BY <1>2, <1>6, <1>9, <1>10 DEF old

LEMMA StartProbeRoundTurn ==
  ASSUME Base, HistInv, NEW r \in Replicas, StartProbeRound(r)
  PROVE  \E new \in ReplicaState : Turn(r, new)
<1> DEFINE old == replica[r]
           st == [old EXCEPT !.role = "candidate", !.current_round = @ + 1,
                             !.leader_index = r, !.promised_leader = r,
                             !.prepare_ok = {r}]
           leader == BecomeLeader(r, st)
           new == IF IsQuorum({r}) THEN leader ELSE st
           msg == [type |-> "probe", round |-> st.current_round, leader |-> r,
                   last_log_index |-> LastLogIndex(st),
                   last_log_round |-> LastLogRound(st)]
           out == [d \in Replicas |-> msg]
<1>1. /\ old.current_round < MaxRound
      /\ replica' = [replica EXCEPT ![r] = new]
      /\ Transmit(channel, r, out, Peers(r))
      /\ granted' = granted \cup
            {[round |-> st.current_round, server |-> r, leader |-> r]}
      /\ IF IsQuorum({r}) THEN Lead(r, leader) ELSE leaderLog' = leaderLog /\ acked' = acked
      /\ replies' = replies
  BY Zenon DEF StartProbeRound
<1>2. TypeInv /\ old \in ReplicaState /\ Contiguous(old) /\ old.current_round \in Nat
  BY BaseFacts
<1> HIDE DEF old
<1>3. old.current_round + 1 \in Rounds
  BY <1>1, <1>2, BoundsAssumption DEF Rounds
<1>4. /\ st \in ReplicaState /\ SameStore(st, old) /\ st.role = "candidate"
      /\ st.current_round = old.current_round + 1
  BY <1>2, <1>3, Zenon DEF ReplicaState, SameStore
<1> HIDE DEF st
<1>5. /\ leader \in ReplicaState /\ SameStore(leader, st) /\ leader.role = "leader"
      /\ leader.current_round = st.current_round
      /\ \A q \in Replicas : /\ leader.next_index[q] = LastLogIndex(st) + 1
                             /\ leader.match_index[q] = IF q = r THEN LastLogIndex(st) ELSE 0
  BY <1>4, LeaderKeepsStore
<1> HIDE DEF leader
<1>6. SameStore(leader, old)
  BY <1>4, <1>5 DEF SameStore
<1>7. /\ msg \in Message /\ msg.type = "probe" /\ msg.leader = r
      /\ msg.round = st.current_round
      /\ msg.last_log_index = LastLogIndex(st) /\ msg.last_log_round = LastLogRound(st)
  <2>1. /\ st.current_round \in Rounds /\ LastLogIndex(st) \in 0 .. MaxSlot
        /\ LastLogRound(st) \in Rounds
    BY <1>4, LastLogIndexType, RoundAtType DEF ReplicaState, LastLogRound
  <2> QED BY <2>1 DEF Message, ProbeMessage
<1> HIDE DEF msg
<1>8. Peers(r) \in SUBSET Replicas /\ channel \in Channels
  BY <1>2, TypeFacts DEF Peers
<1>9. \A d \in Peers(r) : out[d] = msg
  BY <1>8
<1> HIDE DEF out
<1>10. \A x, y \in Replicas : \A n \in InTransit(channel', x, y) :
          n \in InTransit(channel, x, y) \/ n = msg
  BY <1>1, <1>7, <1>8, <1>9, TransmitLemma
<1>11. CASE IsQuorum({r})
  <2>1. /\ replica' = [replica EXCEPT ![r] = leader] /\ Lead(r, leader)
        /\ granted' = granted \cup {Promise(leader.current_round, r, r)}
    BY <1>1, <1>5, <1>11 DEF Promise
  <2>2. LastLogIndex(leader) = LastLogIndex(st) /\ LastLogRound(leader) = LastLogRound(st)
    BY <1>5, SameStoreTip DEF SameTip
  <2>3. Sends(r, leader, msg)
    BY <1>5, <1>7, <2>2 DEF Sends
  <2>4. /\ old.current_round < leader.current_round
        /\ old.current_round <= leader.current_round
        /\ leader.current_round \in Nat /\ leader.current_round # 0
    BY <1>2, <1>4, <1>5
  <2>5. leader.current_round \notin Elected
    BY <1>11, <2>4, NotElectedYet DEF old
  <2>6. \A q \in Replicas :
           /\ leader.next_index[q] <= LastLogIndex(leader) + 1
           /\ leader.match_index[q] = IF q = r THEN LastLogIndex(leader) ELSE 0
    <3>1. LastLogIndex(leader) \in Nat
      BY <1>5, Indices
    <3> QED BY <1>5, <2>2, <3>1
  <2>7. replies' = replies
    BY <1>1
  <2>8. \A x, y \in Replicas : \A n \in InTransit(channel', x, y) :
           n \in InTransit(channel, x, y) \/ (n.type = "probe" /\ Sends(r, leader, n))
    BY <1>7, <1>10, <2>3
  <2>9. Turn(r, leader)
    BY <1>5, <1>6, <1>11, <2>1, <2>4, <2>5, <2>6, <2>7, <2>8, WinningTurn DEF old
  <2> QED BY <1>5, <2>9
<1>12. CASE ~IsQuorum({r})
  <2>1. /\ replica' = [replica EXCEPT ![r] = st]
        /\ leaderLog' = leaderLog /\ acked' = acked
        /\ granted' = granted \cup {Promise(st.current_round, r, r)}
    BY <1>1, <1>12 DEF Promise
  <2>2. old.current_round < st.current_round /\ old.current_round <= st.current_round
    BY <1>2, <1>4
  <2>3. \A g \in granted' : g \in granted \/ Grants(r, st, g)
    BY <2>1, <2>2 DEF Grants, old
  <2>4. Sends(r, st, msg)
    BY <1>7 DEF Sends
  <2>5. replies' = replies /\ granted \subseteq granted'
    BY <1>1
  <2>6. \A x, y \in Replicas : \A n \in InTransit(channel', x, y) :
           n \in InTransit(channel, x, y) \/ (n.type = "probe" /\ Sends(r, st, n))
    BY <1>7, <1>10, <2>4
  <2>7. Turn(r, st)
    BY <1>4, <2>1, <2>2, <2>3, <2>5, <2>6, QuietTurn DEF old
  <2> QED BY <1>4, <2>7
<1> QED BY <1>11, <1>12

-----------------------------------------------------------------------------
(* Leading *)

\* A leader has the log of its round, and has acknowledged it.
LEMMA LeaderFacts ==
  ASSUME Base, HistInv, NEW r \in Replicas, replica[r].role = "leader"
  PROVE  LET old == replica[r]
             u == old.current_round IN
         /\ u \in Elected /\ u \in Rounds /\ leaderLog[u] \in Log
         /\ PrefixOf(old, leaderLog[u])
         /\ Acked(r, u, LastLogIndex(old)) \in acked
         /\ \A s \in Replicas :
               /\ old.next_index[s] <= LastLogIndex(old) + 1
               /\ old.match_index[s] # 0 => Acked(s, u, old.match_index[s]) \in acked
         /\ \A a \in acked : a.round = u => a.index <= LastLogIndex(old)
<1> DEFINE old == replica[r]
           u == old.current_round
           own == Acked(r, u, LastLogIndex(old))
<1>1. TypeInv /\ old \in ReplicaState /\ Leading(r)
  BY BaseFacts DEF HistInv
<1>2. own \in acked /\ own.round = u
  BY <1>1 DEF Leading, Acked
<1>3. u \in Elected /\ u \in Rounds /\ leaderLog[u] \in Log
  BY <1>1, <1>2, HistFacts DEF Elected
<1>4. ASSUME NEW a \in acked, a.round = u
      PROVE  a.index <= LastLogIndex(old)
  <2>1. a.index \in 0 .. MaxSlot /\ a.index \in Nat
    BY <1>1, HistFacts
  <2>2. CASE a.index = 0
    BY <1>1, <2>2, Indices
  <2>3. CASE a.index # 0
    <3>1. a.index \in Slots /\ a.index <= a.index
      BY <2>1, <2>3, BoundsAssumption DEF Slots
    <3>2. leaderLog[u][a.index] # Absent
      BY <1>4, <3>1 DEF HistInv, AckKept
    <3> QED BY <1>1, <3>1, <3>2 DEF Leading
  <2> QED BY <2>2, <2>3
<1> QED BY <1>1, <1>2, <1>3, <1>4 DEF Leading

\* What a leader commits, trims and answers after its bookkeeping, st.
LEMMA TailTurn ==
  ASSUME Base, NEW r \in Replicas, replica[r].role = "leader",
         NEW st \in ReplicaState, Contiguous(st), st.current_round = replica[r].current_round,
         st.commit_index = replica[r].commit_index,
         st.trim_through = replica[r].trim_through,
         st.last_applied = replica[r].last_applied,
         st.response_cache = replica[r].response_cache,
         NEW L \in Log, leaderLog'[st.current_round] = L, PrefixOf(st, L),
         Acked(r, st.current_round, LastLogIndex(st)) \in acked',
         \A s \in Replicas : st.match_index[s] # 0 =>
            Acked(s, st.current_round, st.match_index[s]) \in acked',
         NEW final,
         final = UpdateTrimWatermark(r, ApplyCommittedEntries(UpdateCommitIndex(r, st))),
         NEW new, SameStore(new, final), new.role = "leader",
         new.current_round = st.current_round,
         replies' = replies \cup RepliesOf(UpdateCommitIndex(r, st))
  PROVE  LeaderTurn(r, new)
<1> DEFINE old == replica[r]
           u == st.current_round
           commit == final.commit_index
           trim == final.trim_through
<1>1. /\ commit = st.commit_index \/ (/\ commit \in Slots /\ commit <= LastLogIndex(st)
                                      /\ RoundAt(st, commit) = u
                                      /\ IsQuorum(Replicated(r, st, commit)))
      /\ trim = st.trim_through \/ (/\ trim <= commit
                                    /\ \A s \in Replicas : trim <= st.match_index[s])
      /\ PrefixOf(st, L) /\ CacheOf(st, L) =>
            /\ CacheOf(final, L)
            /\ \A x \in RepliesOf(UpdateCommitIndex(r, st)) : ReplyOf(x, L, commit)
  BY LeaderTail
<1>2. Settles(st, final)
  <2>1. SameLog(st, st)
    BY DEF SameLog
  <2>2. Advances(st, st)
    BY <2>1, SameLogAdvances
  <2> QED BY <2>2, LeaderTailSettles
<1>3. /\ final \in ReplicaState /\ commit >= st.commit_index /\ trim >= st.trim_through
      /\ commit \in Nat /\ trim \in Nat
  BY <1>2, Indices DEF Settles, Advances, CommittedStepOK
<1>4. \A s \in Replicas : st.match_index[s] \in Nat
  <2>1. st.match_index \in [Replicas -> 0 .. MaxSlot]
    BY DEF ReplicaState
  <2> QED BY <2>1, BoundsAssumption
<1> HIDE DEF commit, trim
<1>5. /\ new.commit_index = commit /\ new.trim_through = trim
      /\ CacheOf(final, L) => CacheOf(new, L)
  BY DEF SameStore, CacheOf, commit, trim
<1>6. ASSUME NEW s \in Replicas, NEW k \in Nat, k # 0, k <= st.match_index[s]
      PROVE  Stores(acked', s, u, k)
  <2>1. Acked(s, u, st.match_index[s]) \in acked'
    BY <1>4, <1>6
  <2> QED BY <1>6, <2>1 DEF Stores, Acked
<1>7. ASSUME commit # st.commit_index
      PROVE  /\ commit \in Slots
             /\ L[commit] # Absent /\ L[commit].round = u
             /\ QuorumStores(acked', u, commit)
  <2>1. commit \in Slots /\ commit <= LastLogIndex(st) /\ RoundAt(st, commit) = u
    BY <1>1, <1>7
  <2>2. st.trim_through <= commit
    BY <1>3, Indices DEF Contiguous
  <2>3. L[commit] # Absent /\ L[commit].round = u
    BY <2>1, <2>2, RoundAtPrefix
  <2>4. ASSUME NEW s \in Replicated(r, st, commit)
        PROVE  s \in Replicas /\ Stores(acked', s, u, commit)
    <3>1. CASE s = r
      BY <2>1, <3>1 DEF Stores, Acked
    <3>2. CASE s # r
      <4>1. s \in Replicas /\ st.match_index[s] >= commit
        BY <2>4, <3>2 DEF Replicated
      <4>2. commit # 0 /\ commit \in Nat
        BY <2>1, SlotIsNatural
      <4> QED BY <1>4, <1>6, <4>1, <4>2
    <3> QED BY <3>1, <3>2
  <2> QED BY <1>1, <1>7, <2>1, <2>3, <2>4 DEF QuorumStores
<1>8. ASSUME trim # st.trim_through, trim # 0
      PROVE  trim <= commit /\ \A s \in Replicas : Stores(acked', s, u, trim)
  BY <1>1, <1>3, <1>6, <1>8
<1>9. ASSUME CacheOf(old, L)
      PROVE  /\ CacheOf(new, L)
             /\ \A x \in replies' : x \in replies \/ ReplyOf(x, L, commit)
  <2>1. CacheOf(st, L)
    BY <1>9 DEF CacheOf
  <2> QED BY <1>1, <1>5, <2>1
<1> QED BY <1>5, <1>7, <1>8, <1>9 DEF LeaderTurn

\* A turn in which the leader does not append.
LEMMA LeaderIdleTurn ==
  ASSUME Base, HistInv, NEW r \in Replicas, NEW new \in ReplicaState, Contiguous(new),
         LeaderTurn(r, new), SameTip(replica[r], new),
         replica' = [replica EXCEPT ![r] = new],
         leaderLog' = leaderLog, acked' = acked, granted' = granted,
         \A s \in Replicas :
            /\ new.next_index[s] <= LastLogIndex(new) + 1
            /\ new.match_index[s] # 0 =>
                  Acked(s, new.current_round, new.match_index[s]) \in acked,
         \A x, y \in Replicas : \A n \in InTransit(channel', x, y) :
            \/ n \in InTransit(channel, x, y)
            \/ /\ n.type = "propose" /\ n.round = new.current_round
               /\ n.decide_through <= new.commit_index
               /\ n.trim_through <= new.trim_through
               /\ ProposalOf(n, leaderLog[new.current_round])
  PROVE  Turn(r, new)
<1> DEFINE old == replica[r]
           u == new.current_round
<1>1. /\ TypeInv /\ old.role = "leader" /\ new.role = "leader" /\ u = old.current_round
      /\ u \in Nat /\ old.current_round <= u
  BY BaseFacts DEF LeaderTurn
<1>2. u \in Elected
  BY <1>1, LeaderFacts
<1>3. Elected' = Elected
  BY DEF Elected
<1>4. ASSUME NEW x \in Replicas, NEW y \in Replicas, NEW n \in InTransit(channel', x, y),
              n \notin InTransit(channel, x, y)
       PROVE  MessageSound(n)' /\ Sends(r, new, n)
  <2>1. /\ n.type = "propose" /\ n.round = u
        /\ n.decide_through <= new.commit_index
        /\ n.trim_through <= new.trim_through
        /\ ProposalOf(n, leaderLog[u])
    BY <1>4
  <2>2. MessageSound(n)'
    BY <1>2, <1>3, <2>1 DEF MessageSound, ProposalOf
  <2> QED BY <1>1, <2>1, <2>2 DEF Sends
<1>5. HistEffect(r, new)
  BY <1>1, <1>4 DEF HistEffect, HistoryStep, Idle
<1>6. ~\E L \in Log : Wins(r, new, L)
  BY <1>1, WinsIsNew
<1> QED BY <1>4, <1>5, <1>6 DEF Turn

\* The index a refusal backs the leader up to is one it can propose from.
LEMMA FallbackBound ==
  ASSUME NEW st \in ReplicaState, Contiguous(st), NEW m \in AckMessage,
         st.next_index[m.server] <= LastLogIndex(st) + 1
  PROVE  /\ st.trim_through + 1 <= Fallback(st, m)
         /\ Fallback(st, m) <= LastLogIndex(st) + 1
<1> DEFINE next == st.next_index[m.server]
           asked == IF m.next_index = 0 THEN 1 ELSE m.next_index
           tried == IF asked < next THEN asked
                    ELSE IF next > 1 THEN next - 1 ELSE 1
           both == {tried, st.trim_through + 1}
<1>1. /\ m.server \in Replicas /\ m.next_index \in Nat /\ m.next_index >= 1
  BY BoundsAssumption DEF AckMessage
<1>2. /\ next \in Nat /\ next >= 1
      /\ next <= MaxSlot + 1
  <2>1. st.next_index \in [Replicas -> 1 .. MaxSlot + 1]
    BY DEF ReplicaState
  <2> QED BY <1>1, <2>1, BoundsAssumption
<1>3. Fallback(st, m) = Max(both)
  BY Zenon DEF Fallback
<1> HIDE DEF next
<1>4. tried \in Nat /\ tried <= next
  BY <1>1, <1>2
<1> HIDE DEF tried
<1>5. /\ st.trim_through \in Nat /\ LastLogIndex(st) \in Nat /\ LastLogIndex(st) <= MaxSlot
      /\ st.trim_through <= LastLogIndex(st) /\ MaxSlot + 1 \in Nat
  BY Indices, BoundsAssumption DEF Contiguous
<1>6. both \in SUBSET (0 .. MaxSlot + 1) /\ both # {}
  <2>1. tried \in 0 .. MaxSlot + 1 /\ st.trim_through + 1 \in 0 .. MaxSlot + 1
    BY <1>2, <1>4, <1>5, BoundsAssumption
  <2> QED BY <2>1
<1>7. Max(both) \in both /\ \A y \in both : Max(both) >= y
  <2> HIDE DEF both
  <2> QED BY <1>5, <1>6, MinMaxOfIndices
<1>8. next <= LastLogIndex(st) + 1
  BY DEF next
<1> QED BY <1>2, <1>3, <1>4, <1>5, <1>7, <1>8

\* The bookkeeping of a positive ack.
LEMMA AckKnown ==
  ASSUME NEW r \in Replicas, NEW st \in ReplicaState, NEW m \in AckMessage
  PROVE  \E known \in ReplicaState :
         /\ SameStore(known, st)
         /\ known.role = st.role /\ known.current_round = st.current_round
         /\ \A s \in Replicas :
               /\ \/ known.match_index[s] = st.match_index[s]
                  \/ s = m.server /\ known.match_index[s] = m.match_index
               /\ \/ known.next_index[s] = st.next_index[s]
                  \/ s = m.server /\ known.next_index[s] = m.next_index
         /\ AckProgress(r, st, m).decided = UpdateCommitIndex(r, known)
         /\ AckProgress(r, st, m).state =
               UpdateTrimWatermark(r, ApplyCommittedEntries(UpdateCommitIndex(r, known)))
<1> DEFINE match == Max({st.match_index[m.server], m.match_index})
           next == Max({st.next_index[m.server], m.next_index})
           matches == [st.match_index EXCEPT ![m.server] = match]
           nexts == [st.next_index EXCEPT ![m.server] = next]
           known == [st EXCEPT !.match_index[m.server] = match,
                               !.next_index[m.server] = next]
<1>1. m.server \in Replicas /\ m.match_index \in 0 .. MaxSlot
      /\ m.next_index \in 1 .. MaxSlot + 1
  BY DEF AckMessage
<1>2. /\ st.match_index \in [Replicas -> 0 .. MaxSlot]
      /\ st.next_index \in [Replicas -> 1 .. MaxSlot + 1]
  BY DEF ReplicaState
<1>3. /\ match \in {st.match_index[m.server], m.match_index}
      /\ next \in {st.next_index[m.server], m.next_index}
  <2>1. /\ {st.match_index[m.server], m.match_index} \in SUBSET (0 .. MaxSlot)
        /\ {st.next_index[m.server], m.next_index} \in SUBSET (0 .. MaxSlot + 1)
        /\ MaxSlot + 1 \in Nat
    BY <1>1, <1>2, BoundsAssumption
  <2>2. match \in {st.match_index[m.server], m.match_index}
    BY <2>1, MinMaxOfIndices, BoundsAssumption
  <2>3. next \in {st.next_index[m.server], m.next_index}
    BY <2>1, MinMaxOfIndices, Zenon
  <2> QED BY <2>2, <2>3
<1>4. /\ AckProgress(r, st, m).decided = UpdateCommitIndex(r, known)
      /\ AckProgress(r, st, m).state =
            UpdateTrimWatermark(r, ApplyCommittedEntries(UpdateCommitIndex(r, known)))
  BY Zenon DEF AckProgress
<1> HIDE DEF match, next
<1>5. matches \in [Replicas -> 0 .. MaxSlot] /\ nexts \in [Replicas -> 1 .. MaxSlot + 1]
  BY <1>1, <1>2, <1>3
<1>6. /\ known \in ReplicaState /\ SameStore(known, st)
      /\ known.role = st.role /\ known.current_round = st.current_round
      /\ known.match_index = matches /\ known.next_index = nexts
  BY <1>5, Zenon DEF ReplicaState, SameStore
<1> HIDE DEF known
<1>7. ASSUME NEW s \in Replicas
      PROVE  /\ \/ known.match_index[s] = st.match_index[s]
                \/ s = m.server /\ known.match_index[s] = m.match_index
             /\ \/ known.next_index[s] = st.next_index[s]
                \/ s = m.server /\ known.next_index[s] = m.next_index
  BY <1>2, <1>3, <1>6
<1> QED BY <1>4, <1>6, <1>7

LEMMA HandleAckTurn ==
  ASSUME Base, HistInv, NEW r \in Replicas, NEW s \in Replicas, HandleAck(s, r)
  PROVE  \E new \in ReplicaState : Turn(r, new)
<1> DEFINE m == Head(channel[s][r])
           old == replica[r]
           u == old.current_round
           progress == AckProgress(r, old, m)
           caughtUp == progress.state.next_index[m.server] > LastLogIndex(progress.state)
           resend == ClampNextIndex(progress.state, {m.server})
           backedUp == [old EXCEPT !.next_index[m.server] = Fallback(old, m)]
           new == IF caughtUp THEN progress.state ELSE resend
           peers == IF caughtUp THEN {} ELSE {m.server}
<1>1. /\ channel[s][r] # <<>> /\ m.type = "ack"
      /\ granted' = granted /\ leaderLog' = leaderLog /\ acked' = acked
  BY Zenon DEF HandleAck, Incoming
<1>2. \/ /\ \/ replica' = replica
            \/ replica' = [replica EXCEPT ![r] =
                              BecomeFollower(old, m.round, old.leader_index)]
         /\ channel' = Receive(s, r) /\ replies' = replies
      \/ /\ AckIsCurrent(old, m) /\ m.success
         /\ replica' = [replica EXCEPT ![r] = new]
         /\ TransmitProposals(Receive(s, r), r, resend, peers)
         /\ replies' = replies \cup RepliesOf(progress.decided)
      \/ /\ AckIsCurrent(old, m)
         /\ replica' = [replica EXCEPT ![r] = backedUp]
         /\ TransmitProposals(Receive(s, r), r, backedUp, {m.server})
         /\ replies' = replies
  BY Zenon DEF HandleAck
<1>3. /\ TypeInv /\ LogInv /\ old \in ReplicaState /\ Contiguous(old)
      /\ u \in Nat
  BY BaseFacts
<1>4. /\ m \in AckMessage /\ Receive(s, r) \in Channels
      /\ m \in InTransit(channel, s, r)
      /\ \A x, y \in Replicas : InTransit(Receive(s, r), x, y) \subseteq InTransit(channel, x, y)
  BY <1>1, <1>3, TypeFacts, ReceiveLemma, MessageKinds
<1>5. m.server \in Replicas /\ m.round \in Rounds /\ m.match_index \in Nat
  BY <1>4, BoundsAssumption DEF AckMessage
<1>6. m.success => /\ Acked(m.server, m.round, m.match_index) \in acked
                   /\ m.next_index = m.match_index + 1
  BY <1>1, <1>4 DEF HistInv, MessageSound
<1> HIDE DEF m
<1>7. CASE /\ \/ replica' = replica
              \/ replica' = [replica EXCEPT ![r] =
                                BecomeFollower(old, m.round, old.leader_index)]
           /\ channel' = Receive(s, r) /\ replies' = replies
  BY <1>1, <1>5, <1>7, StepDownTurn
<1>8. ASSUME AckIsCurrent(old, m)
      PROVE  /\ m.round = u /\ old.role = "leader"
             /\ u \in Elected /\ leaderLog[u] \in Log /\ PrefixOf(old, leaderLog[u])
             /\ Acked(r, u, LastLogIndex(old)) \in acked
             /\ \A q \in Replicas :
                   /\ old.next_index[q] <= LastLogIndex(old) + 1
                   /\ old.match_index[q] # 0 => Acked(q, u, old.match_index[q]) \in acked
             /\ \A a \in acked : a.round = u => a.index <= LastLogIndex(old)
  BY <1>8, LeaderFacts DEF AckIsCurrent
<1> DEFINE L == leaderLog[u]
<1>9. CASE /\ AckIsCurrent(old, m) /\ m.success
           /\ replica' = [replica EXCEPT ![r] = new]
           /\ TransmitProposals(Receive(s, r), r, resend, peers)
           /\ replies' = replies \cup RepliesOf(progress.decided)
  <2> DEFINE last == LastLogIndex(old)
             final == progress.state
  <2>1. PICK known \in ReplicaState :
         /\ SameStore(known, old)
         /\ known.role = old.role /\ known.current_round = u
         /\ \A q \in Replicas :
               /\ \/ known.match_index[q] = old.match_index[q]
                  \/ q = m.server /\ known.match_index[q] = m.match_index
               /\ \/ known.next_index[q] = old.next_index[q]
                  \/ q = m.server /\ known.next_index[q] = m.next_index
         /\ progress.decided = UpdateCommitIndex(r, known)
         /\ progress.state =
               UpdateTrimWatermark(r, ApplyCommittedEntries(UpdateCommitIndex(r, known)))
    BY <1>3, <1>4, AckKnown
  <2>2. Contiguous(known) /\ SameTip(old, known) /\ LastLogIndex(known) = last
    BY <1>3, <2>1, SameStoreContiguous, SameStoreTip DEF SameTip
  <2>3. final \in ReplicaState /\ Settles(old, final)
    BY <1>3, <1>4, AckProgressType, AckProgressSettles
  <2>4. SameTip(known, final) /\ SameProgress(final, known)
    BY <2>1, <2>2, LeaderTail
  <2> HIDE DEF progress, old
  <2>5. m.match_index <= last
    <3>1. Acked(m.server, m.round, m.match_index).index = m.match_index
          /\ Acked(m.server, m.round, m.match_index).round = m.round
      BY DEF Acked
    <3> QED BY <1>6, <1>8, <1>9, <3>1
  <2>6. \A q \in Replicas :
           /\ known.next_index[q] <= last + 1
           /\ known.match_index[q] # 0 => Acked(q, u, known.match_index[q]) \in acked
    <3>1. last \in Nat
      BY <1>3, Indices
    <3>2. ASSUME NEW q \in Replicas
          PROVE  known.next_index[q] <= last + 1
      <4> HIDE DEF last
      <4> QED BY <1>5, <1>6, <1>8, <1>9, <2>1, <2>5, <3>1 DEF last
    <3>3. ASSUME NEW q \in Replicas, known.match_index[q] # 0
          PROVE  Acked(q, u, known.match_index[q]) \in acked
      BY <1>6, <1>8, <1>9, <2>1, <3>3
    <3> QED BY <3>2, <3>3
  <2>7. /\ resend \in ReplicaState /\ SameStore(resend, final)
        /\ resend.role = final.role /\ resend.current_round = final.current_round
        /\ resend.match_index = final.match_index
        /\ \A q \in Replicas :
              /\ \/ resend.next_index[q] = final.next_index[q]
                 \/ resend.next_index[q] = final.trim_through + 1
              /\ q \in {m.server} => final.trim_through + 1 <= resend.next_index[q]
    BY <2>3, ClampKeepsStore
  <2>8. Contiguous(final) /\ final.last_applied = final.commit_index
    BY <2>3 DEF Settles, Advances
  <2>9. /\ LastLogIndex(final) = last /\ final.role = "leader" /\ final.current_round = u
        /\ final.next_index = known.next_index /\ final.match_index = known.match_index
    BY <1>8, <1>9, <2>1, <2>2, <2>4 DEF SameTip, SameProgress
  <2>10. /\ SameStore(final, final) /\ SameTip(old, final)
         /\ PrefixOf(final, L)
    <3>1. SameTip(old, final)
      BY <2>2, <2>4, SameTipTransitive
    <3> QED BY <1>8, <1>9, <3>1 DEF SameStore, SameTip
  <2>11. final.trim_through \in Nat /\ last \in Nat /\ final.trim_through <= last
    BY <2>3, <2>8, <2>9, Indices DEF Contiguous
  <2> HIDE DEF final, resend, last
  <2>12. SameStore(new, final) /\ new \in ReplicaState /\ new.role = "leader"
         /\ new.current_round = u /\ new.match_index = known.match_index
         /\ \A q \in Replicas : \/ new.next_index[q] = known.next_index[q]
                                \/ new.next_index[q] = final.trim_through + 1
    <3>1. new = final \/ new = resend
      BY DEF final
    <3> HIDE DEF new
    <3> QED BY <2>3, <2>7, <2>9, <2>10, <3>1
  <2>13. /\ Contiguous(new) /\ SameTip(old, new) /\ LastLogIndex(new) = last
    <3>1. SameTip(final, new) /\ Contiguous(new)
      BY <2>3, <2>8, <2>12, SameStoreTip, SameStoreContiguous
    <3> QED BY <2>9, <2>10, <3>1, SameTipTransitive DEF SameTip
  <2> HIDE DEF new
  <2>14. \A q \in Replicas : new.next_index[q] <= LastLogIndex(new) + 1
    BY <2>6, <2>11, <2>12, <2>13
  <2>15. LeaderTurn(r, new)
    <3>1. PrefixOf(known, L)
      BY <1>8, <1>9, <2>2 DEF SameTip
    <3>2. /\ known.commit_index = old.commit_index
          /\ known.trim_through = old.trim_through
          /\ known.last_applied = old.last_applied
          /\ known.response_cache = old.response_cache
      BY <2>1 DEF SameStore
    <3>3. leaderLog'[u] = L /\ acked' = acked
      BY <1>1
    <3>4. replies' = replies \cup RepliesOf(UpdateCommitIndex(r, known))
      BY <1>9, <2>1
    <3>5. final = UpdateTrimWatermark(r, ApplyCommittedEntries(UpdateCommitIndex(r, known)))
      BY <2>1 DEF final
    <3>6. Acked(r, u, LastLogIndex(known)) \in acked
      BY <1>8, <1>9, <2>2 DEF last
    <3> HIDE DEF L
    <3> QED BY <1>8, <1>9, <2>1, <2>2, <2>6, <2>12, <3>1, <3>2, <3>3, <3>4, <3>5, <3>6,
               TailTurn DEF old, L
  <2>16. /\ Contiguous(resend) /\ PrefixOf(resend, L) /\ LastLogIndex(resend) = last
    <3>1. L \in Log
      BY <1>8, <1>9
    <3>2. Contiguous(resend) /\ SameTip(final, resend)
      BY <2>3, <2>7, <2>8, SameStoreContiguous, SameStoreTip
    <3> HIDE DEF L
    <3> QED BY <2>9, <2>10, <3>1, <3>2 DEF SameTip
  <2>17. peers \in SUBSET Replicas
         /\ \A d \in peers : /\ resend.trim_through + 1 <= resend.next_index[d]
                             /\ resend.next_index[d] <= LastLogIndex(resend) + 1
    <3>1. peers \subseteq {m.server}
      OBVIOUS
    <3> HIDE DEF peers
    <3>2. resend.trim_through = final.trim_through
      BY <2>7 DEF SameStore
    <3> QED BY <1>5, <2>6, <2>7, <2>9, <2>11, <2>16, <3>1, <3>2
  <2> HIDE DEF peers
  <2>18. \A x, y \in Replicas : \A n \in InTransit(channel', x, y) :
            \/ n \in InTransit(channel, x, y)
            \/ /\ n.type = "propose" /\ n.round = new.current_round
               /\ n.decide_through <= new.commit_index
               /\ n.trim_through <= new.trim_through
               /\ ProposalOf(n, leaderLog[new.current_round])
    <3>1. /\ resend.commit_index = new.commit_index /\ resend.trim_through = new.trim_through
          /\ resend.current_round = new.current_round /\ new.current_round = u
          /\ new.commit_index \in Nat /\ new.trim_through \in Nat
      BY <2>7, <2>9, <2>12, Indices DEF SameStore
    <3>2. L \in Log /\ TransmitProposals(Receive(s, r), r, resend, peers)
      BY <1>8, <1>9
    <3> HIDE DEF L
    <3>3. \A x, y \in Replicas : \A n \in InTransit(channel', x, y) :
            \/ n \in InTransit(Receive(s, r), x, y)
            \/ /\ n.type = "propose" /\ n.round = resend.current_round
               /\ n.decide_through = resend.commit_index
               /\ n.trim_through = resend.trim_through
               /\ ProposalOf(n, L)
      BY <1>4, <2>7, <2>16, <2>17, <3>2, ProposalsSent
    <3> QED BY <1>4, <3>1, <3>3 DEF L
  <2>19. Turn(r, new)
    <3>1. replica' = [replica EXCEPT ![r] = new]
      BY <1>9
    <3> QED BY <1>1, <2>6, <2>12, <2>13, <2>14, <2>15, <2>18, <3>1, LeaderIdleTurn DEF old
  <2> QED BY <2>12, <2>19
<1>10. CASE /\ AckIsCurrent(old, m)
            /\ replica' = [replica EXCEPT ![r] = backedUp]
            /\ TransmitProposals(Receive(s, r), r, backedUp, {m.server})
            /\ replies' = replies
  <2> DEFINE next == [old.next_index EXCEPT ![m.server] = Fallback(old, m)]
  <2> HIDE DEF old
  <2>1. old.next_index \in [Replicas -> 1 .. MaxSlot + 1]
        /\ next \in [Replicas -> 1 .. MaxSlot + 1]
    BY <1>3, <1>4, <1>5, FallbackType DEF ReplicaState
  <2>2. /\ backedUp \in ReplicaState /\ SameStore(backedUp, old)
        /\ backedUp.role = old.role /\ backedUp.current_round = u
        /\ backedUp.match_index = old.match_index /\ backedUp.next_index = next
    BY <1>3, <2>1, Zenon DEF ReplicaState, SameStore
  <2>3. /\ old.trim_through + 1 <= Fallback(old, m)
        /\ Fallback(old, m) <= LastLogIndex(old) + 1
    BY <1>3, <1>4, <1>5, <1>8, <1>10, FallbackBound
  <2>4. /\ \A q \in Replicas : next[q] = IF q = m.server THEN Fallback(old, m)
                                          ELSE old.next_index[q]
    BY <1>5, <2>1
  <2> HIDE DEF next, backedUp
  <2>5. /\ Contiguous(backedUp) /\ SameTip(old, backedUp)
        /\ LastLogIndex(backedUp) = LastLogIndex(old)
        /\ backedUp.trim_through = old.trim_through
        /\ backedUp.commit_index = old.commit_index
    BY <1>3, <2>2, SameStoreContiguous, SameStoreTip DEF SameTip, SameStore
  <2>6. /\ \A q \in Replicas :
              /\ backedUp.next_index[q] <= LastLogIndex(backedUp) + 1
              /\ backedUp.match_index[q] # 0 =>
                    Acked(q, backedUp.current_round, backedUp.match_index[q]) \in acked
        /\ backedUp.trim_through + 1 <= backedUp.next_index[m.server]
    BY <1>5, <1>8, <1>10, <2>2, <2>3, <2>4, <2>5
  <2>7. LeaderTurn(r, backedUp)
    <3>1. CacheOf(old, leaderLog'[u]) => CacheOf(backedUp, leaderLog'[u])
      BY <2>2 DEF CacheOf, SameStore
    <3> QED BY <1>8, <1>10, <2>2, <2>5, <3>1 DEF LeaderTurn, old
  <2>8. L \in Log /\ PrefixOf(backedUp, L)
    BY <1>8, <1>10, <2>5 DEF SameTip
  <2>9. \A x, y \in Replicas : \A n \in InTransit(channel', x, y) :
            \/ n \in InTransit(channel, x, y)
            \/ /\ n.type = "propose" /\ n.round = backedUp.current_round
               /\ n.decide_through <= backedUp.commit_index
               /\ n.trim_through <= backedUp.trim_through
               /\ ProposalOf(n, leaderLog[backedUp.current_round])
    <3> HIDE DEF L
    <3>1. \A x, y \in Replicas : \A n \in InTransit(channel', x, y) :
            \/ n \in InTransit(Receive(s, r), x, y)
            \/ /\ n.type = "propose" /\ n.round = backedUp.current_round
               /\ n.decide_through = backedUp.commit_index
               /\ n.trim_through = backedUp.trim_through
               /\ ProposalOf(n, L)
      <4>1. \A d \in {m.server} :
               /\ backedUp.trim_through + 1 <= backedUp.next_index[d]
               /\ backedUp.next_index[d] <= LastLogIndex(backedUp) + 1
        BY <1>5, <2>6
      <4>2. {m.server} \in SUBSET Replicas
        BY <1>5
      <4> QED BY <1>4, <1>10, <2>2, <2>5, <2>8, <4>1, <4>2, ProposalsSent
    <3>2. backedUp.commit_index \in Nat /\ backedUp.trim_through \in Nat
      BY <2>2, Indices
    <3> QED BY <1>4, <2>2, <3>1, <3>2 DEF L
  <2>10. Turn(r, backedUp)
    BY <1>1, <1>10, <2>2, <2>5, <2>6, <2>7, <2>9, LeaderIdleTurn DEF old
  <2> QED BY <2>2, <2>10
<1> QED BY <1>2, <1>7, <1>9, <1>10

LEMMA HeartbeatTurn ==
  ASSUME Base, HistInv, NEW r \in Replicas, Heartbeat(r)
  PROVE  \E new \in ReplicaState : Turn(r, new)
<1> DEFINE old == replica[r]
           st == ClampNextIndex(old, Peers(r))
           u == old.current_round
           L == leaderLog[u]
<1>1. /\ st.role = "leader" /\ replica' = [replica EXCEPT ![r] = st]
      /\ TransmitProposals(channel, r, st, Peers(r))
      /\ replies' = replies /\ granted' = granted /\ leaderLog' = leaderLog /\ acked' = acked
  BY Zenon DEF Heartbeat
<1>2. TypeInv /\ old \in ReplicaState /\ Contiguous(old) /\ channel \in Channels
  BY BaseFacts, TypeFacts
<1>3. /\ st \in ReplicaState /\ SameStore(st, old)
      /\ st.role = old.role /\ st.current_round = u
      /\ st.match_index = old.match_index
      /\ \A s \in Replicas :
            /\ \/ st.next_index[s] = old.next_index[s]
               \/ st.next_index[s] = old.trim_through + 1
            /\ s \in Peers(r) => old.trim_through + 1 <= st.next_index[s]
  BY <1>2, ClampKeepsStore
<1>4. /\ old.role = "leader" /\ L \in Log /\ PrefixOf(old, L)
      /\ \A s \in Replicas :
            /\ old.next_index[s] <= LastLogIndex(old) + 1
            /\ old.match_index[s] # 0 => Acked(s, u, old.match_index[s]) \in acked
  BY <1>1, <1>3, LeaderFacts
<1>5. /\ Contiguous(st) /\ SameTip(old, st) /\ LastLogIndex(st) = LastLogIndex(old)
      /\ st.trim_through = old.trim_through /\ st.commit_index = old.commit_index
  BY <1>2, <1>3, SameStoreContiguous, SameStoreTip DEF SameTip, SameStore
<1> HIDE DEF st, old, L
<1>6. PrefixOf(st, L)
  BY <1>4, <1>5 DEF SameTip
<1>7. \A s \in Replicas :
         /\ st.next_index[s] <= LastLogIndex(st) + 1
         /\ st.match_index[s] # 0 => Acked(s, u, st.match_index[s]) \in acked
  <2>1. old.trim_through + 1 <= LastLogIndex(old) + 1
    BY <1>2, Indices DEF Contiguous
  <2> QED BY <1>3, <1>4, <1>5, <2>1
<1>8. LeaderTurn(r, st)
  <2>1. CacheOf(old, leaderLog'[u]) => CacheOf(st, leaderLog'[u])
    BY <1>3 DEF CacheOf, SameStore
  <2> QED BY <1>1, <1>3, <1>4, <1>5, <2>1 DEF LeaderTurn, old
<1>9. Peers(r) \in SUBSET Replicas
  BY DEF Peers
<1>10. \A d \in Peers(r) : /\ st.trim_through + 1 <= st.next_index[d]
                           /\ st.next_index[d] <= LastLogIndex(st) + 1
  BY <1>3, <1>5, <1>7, <1>9
<1>11. \A x, y \in Replicas : \A n \in InTransit(channel', x, y) :
          \/ n \in InTransit(channel, x, y)
          \/ /\ n.type = "propose" /\ n.round = st.current_round
             /\ n.decide_through <= st.commit_index
             /\ n.trim_through <= st.trim_through
             /\ ProposalOf(n, leaderLog[st.current_round])
  <2>1. \A x, y \in Replicas : \A n \in InTransit(channel', x, y) :
          \/ n \in InTransit(channel, x, y)
          \/ /\ n.type = "propose" /\ n.round = st.current_round
             /\ n.decide_through = st.commit_index
             /\ n.trim_through = st.trim_through
             /\ ProposalOf(n, L)
    BY <1>1, <1>2, <1>3, <1>4, <1>5, <1>6, <1>9, <1>10, ProposalsSent
  <2>2. st.commit_index \in Nat /\ st.trim_through \in Nat
    BY <1>3, Indices
  <2> QED BY <1>3, <2>1, <2>2 DEF L
<1>12. Turn(r, st)
  BY <1>1, <1>3, <1>5, <1>7, <1>8, <1>11, LeaderIdleTurn DEF old
<1> QED BY <1>3, <1>12

\* What a flush appends, and from which state it then proposes.
LEMMA FlushAppends ==
  ASSUME NEW r \in Replicas, NEW st \in ReplicaState, Contiguous(st), QueueFits(st)
  PROVE  LET f == Flush(r, st)
             sent == f.sent
             last == LastLogIndex(st) IN
         /\ sent \in ReplicaState /\ Contiguous(sent)
         /\ sent.role = st.role /\ sent.current_round = st.current_round
         /\ sent.commit_index = st.commit_index /\ sent.last_applied = st.last_applied
         /\ sent.trim_through = st.trim_through /\ sent.trim_round = st.trim_round
         /\ sent.response_cache = st.response_cache
         /\ LastLogIndex(sent) = last + Len(st.pending_client_requests)
         /\ \A k \in Slots :
               /\ k <= last => sent.log[k] = st.log[k]
               /\ k > last /\ sent.log[k] # Absent => sent.log[k].round = st.current_round
         /\ \A s \in Replicas :
               /\ sent.match_index[s] = IF s = r THEN LastLogIndex(sent) ELSE st.match_index[s]
               /\ \/ sent.next_index[s] = st.next_index[s]
                  \/ sent.next_index[s] = st.trim_through + 1
                  \/ sent.next_index[s] = LastLogIndex(sent) + 1
               /\ s \in Peers(r) => st.trim_through + 1 <= sent.next_index[s]
         /\ f.decided = UpdateCommitIndex(r, sent)
         /\ f.state = UpdateTrimWatermark(r, ApplyCommittedEntries(UpdateCommitIndex(r, sent)))
<1> DEFINE queue == st.pending_client_requests
           first == st.next_slot
           len == Len(queue)
           taken == {k \in Slots : first <= k /\ k < first + Len(queue)}
           slotOf(s) == CHOOSE k \in taken : queue[k - first + 1] = s
           log == [k \in Slots |->
                      IF k \in taken THEN [round |-> st.current_round,
                                           serial |-> queue[k - first + 1]]
                      ELSE st.log[k]]
           clients == [s \in Serials |->
                          IF st.pending_clients[s] = 0
                             /\ \E i \in 1 .. Len(queue) : queue[i] = s
                          THEN slotOf(s) ELSE st.pending_clients[s]]
           appended == [st EXCEPT !.log = log,
                                  !.next_slot = @ + Len(queue),
                                  !.match_index[r] = first + Len(queue) - 1,
                                  !.next_index[r] = first + Len(queue),
                                  !.pending_clients = clients,
                                  !.pending_client_requests = <<>>]
           last == LastLogIndex(st)
           sent == ClampNextIndex(AppendQueue(r, st), Peers(r))
<1>1. /\ queue \in Seq(Serials) /\ len \in Nat /\ first \in 1 .. MaxSlot + 1
      /\ first + len <= MaxSlot + 1 /\ first = last + 1 /\ last \in Nat
      /\ st.trim_through \in Nat /\ st.trim_through <= last
  <2>1. queue \in Seq(Serials) /\ len \in Nat /\ first \in 1 .. MaxSlot + 1
        /\ first + len <= MaxSlot + 1
    BY DEF ReplicaState, QueueFits
  <2>2. /\ first = last + 1 /\ last \in Nat
        /\ st.trim_through \in Nat /\ st.trim_through <= last
    BY Indices DEF Contiguous
  <2> QED BY <2>1, <2>2
<1>2. AppendQueue(r, st) = appended /\ AppendQueue(r, st) \in ReplicaState
  <2>1. AppendQueue(r, st) = appended
    BY Zenon DEF AppendQueue
  <2> QED BY <2>1, AppendQueueType
<1>3. /\ Flush(r, st).sent = sent
      /\ Flush(r, st).decided = UpdateCommitIndex(r, sent)
      /\ Flush(r, st).state =
           UpdateTrimWatermark(r, ApplyCommittedEntries(UpdateCommitIndex(r, sent)))
  BY Zenon DEF Flush
<1>4. /\ appended.role = st.role /\ appended.current_round = st.current_round
      /\ appended.commit_index = st.commit_index /\ appended.last_applied = st.last_applied
      /\ appended.trim_through = st.trim_through /\ appended.trim_round = st.trim_round
      /\ appended.response_cache = st.response_cache
      /\ appended.log = log /\ appended.next_slot = first + len
      /\ appended.match_index = [st.match_index EXCEPT ![r] = first + len - 1]
      /\ appended.next_index = [st.next_index EXCEPT ![r] = first + len]
  <2> HIDE DEF log, clients
  <2> QED BY Zenon DEF ReplicaState
<1>5. \A k \in Slots : /\ k \in taken => log[k].round = st.current_round
                       /\ k \notin taken => log[k] = st.log[k]
  <2> HIDE DEF taken
  <2> QED OBVIOUS
<1>6. \A k \in Slots : k \in taken <=> first <= k /\ k < first + len
  OBVIOUS
<1>7. ASSUME NEW k \in Slots, k \in taken
      PROVE  log[k] # Absent
  <2>1. k - first + 1 \in 1 .. len
    <3> HIDE DEF queue, first
    <3> QED BY <1>1, <1>6, <1>7, SlotIsNatural
  <2>2. queue[k - first + 1] \in Serials /\ st.current_round \in Rounds
    BY <1>1, <2>1 DEF ReplicaState
  <2>3. log[k] = [round |-> st.current_round, serial |-> queue[k - first + 1]]
    <3> HIDE DEF taken
    <3> QED BY <1>7
  <2> HIDE DEF log, queue, first
  <2> QED BY <2>2, <2>3, AbsentAssumption DEF LogEntry
<1> HIDE DEF appended, log, taken, queue
<1>8. LastLogIndex(appended) = last + len /\ last + len \in Nat
  <2> HIDE DEF first, len, last
  <2> QED BY <1>1, <1>4 DEF LastLogIndex
<1>9. ASSUME NEW k \in Slots
      PROVE  /\ k <= last => log[k] = st.log[k]
             /\ k > last /\ log[k] # Absent => log[k].round = st.current_round
             /\ log[k] # Absent <=> st.trim_through < k /\ k <= last + len
  <2>1. st.log[k] # Absent <=> st.trim_through < k /\ k <= last
    BY DEF Contiguous
  <2> HIDE DEF first, len, last
  <2>2. k \in taken <=> last < k /\ k <= last + len
    BY <1>1, <1>6, SlotIsNatural
  <2> QED BY <1>1, <1>5, <1>7, <2>1, <2>2, SlotIsNatural
<1>10. Contiguous(appended)
  <2>1. st.trim_through <= st.last_applied /\ st.last_applied <= st.commit_index
        /\ st.commit_index <= last /\ st.commit_index \in Nat
    BY Indices DEF Contiguous
  <2> HIDE DEF len, last
  <2> QED BY <1>1, <1>4, <1>8, <1>9, <2>1 DEF Contiguous
<1>11. /\ sent \in ReplicaState /\ SameStore(sent, appended)
       /\ sent.role = appended.role /\ sent.current_round = appended.current_round
       /\ sent.match_index = appended.match_index
       /\ \A s \in Replicas :
            /\ \/ sent.next_index[s] = appended.next_index[s]
               \/ sent.next_index[s] = appended.trim_through + 1
            /\ s \in Peers(r) => appended.trim_through + 1 <= sent.next_index[s]
  BY <1>2, ClampKeepsStore
<1> HIDE DEF sent
<1>12. Contiguous(sent) /\ LastLogIndex(sent) = last + len
  BY <1>2, <1>8, <1>10, <1>11, SameStoreContiguous DEF SameStore, LastLogIndex
<1>13. ASSUME NEW s \in Replicas
       PROVE  /\ sent.match_index[s] = IF s = r THEN last + len ELSE st.match_index[s]
              /\ \/ sent.next_index[s] = st.next_index[s]
                 \/ sent.next_index[s] = st.trim_through + 1
                 \/ sent.next_index[s] = last + len + 1
              /\ s \in Peers(r) => st.trim_through + 1 <= sent.next_index[s]
  <2>1. /\ DOMAIN st.match_index = Replicas /\ DOMAIN st.next_index = Replicas
    BY DEF ReplicaState
  <2>2. first + len - 1 = last + len /\ first + len = last + len + 1
    <3> HIDE DEF first, len, last
    <3> QED BY <1>1
  <2>3. /\ appended.match_index[s] = IF s = r THEN last + len ELSE st.match_index[s]
        /\ appended.next_index[s] = IF s = r THEN last + len + 1 ELSE st.next_index[s]
    BY <1>4, <2>1, <2>2
  <2> QED BY <1>4, <1>11, <2>3
<1>14. /\ sent.commit_index = st.commit_index /\ sent.last_applied = st.last_applied
       /\ sent.trim_through = st.trim_through /\ sent.trim_round = st.trim_round
       /\ sent.response_cache = st.response_cache /\ sent.log = log
       /\ sent.role = st.role /\ sent.current_round = st.current_round
  BY <1>4, <1>11 DEF SameStore
<1>15. len = Len(st.pending_client_requests)
  BY DEF queue
<1> HIDE DEF len, last
<1> QED BY <1>3, <1>9, <1>11, <1>12, <1>13, <1>14, <1>15 DEF last

LEMMA FlushTurn ==
  ASSUME Base, HistInv, NEW r \in Replicas, replica[r].role = "leader",
         NEW st \in ReplicaState, QueueFits(st), Len(st.pending_client_requests) > 0,
         SameStore(st, replica[r]), SameProgress(st, replica[r]),
         replica' = [replica EXCEPT ![r] = Flush(r, st).state],
         TransmitProposals(channel, r, Flush(r, st).sent, Peers(r)),
         replies' = replies \cup RepliesOf(Flush(r, st).decided),
         Lead(r, Flush(r, st).sent), granted' = granted
  PROVE  \E new \in ReplicaState : Turn(r, new)
<1> DEFINE old == replica[r]
           f == Flush(r, st)
           sent == f.sent
           new == f.state
           u == old.current_round
           K == leaderLog[u]
           L == WholeLog(sent)
           last == LastLogIndex(old)
           end == LastLogIndex(sent)
<1>1. /\ TypeInv /\ old \in ReplicaState /\ Contiguous(old) /\ HistoryTyped
      /\ channel \in Channels
  BY BaseFacts, TypeFacts
<1>2. /\ u \in Elected /\ u \in Rounds /\ K \in Log /\ PrefixOf(old, K)
      /\ \A s \in Replicas :
            /\ old.next_index[s] <= last + 1
            /\ old.match_index[s] # 0 => Acked(s, u, old.match_index[s]) \in acked
  BY LeaderFacts
<1>3. Contiguous(st) /\ LastLogIndex(st) = last
  BY <1>1, SameStoreContiguous DEF SameStore, LastLogIndex
<1>4. /\ sent \in ReplicaState /\ Contiguous(sent)
      /\ sent.role = st.role /\ sent.current_round = st.current_round
      /\ sent.commit_index = st.commit_index /\ sent.last_applied = st.last_applied
      /\ sent.trim_through = st.trim_through /\ sent.trim_round = st.trim_round
      /\ sent.response_cache = st.response_cache
      /\ end = LastLogIndex(st) + Len(st.pending_client_requests)
      /\ \A k \in Slots :
            /\ k <= LastLogIndex(st) => sent.log[k] = st.log[k]
            /\ k > LastLogIndex(st) /\ sent.log[k] # Absent =>
                  sent.log[k].round = st.current_round
      /\ \A s \in Replicas :
            /\ sent.match_index[s] = IF s = r THEN end ELSE st.match_index[s]
            /\ \/ sent.next_index[s] = st.next_index[s]
               \/ sent.next_index[s] = st.trim_through + 1
               \/ sent.next_index[s] = end + 1
            /\ s \in Peers(r) => st.trim_through + 1 <= sent.next_index[s]
      /\ f.decided = UpdateCommitIndex(r, sent)
      /\ new = UpdateTrimWatermark(r, ApplyCommittedEntries(UpdateCommitIndex(r, sent)))
  BY <1>3, FlushAppends
<1>5. Settles(st, new)
  BY <1>3, FlushSettles
<1>6. /\ replica' = [replica EXCEPT ![r] = new]
      /\ TransmitProposals(channel, r, sent, Peers(r))
      /\ replies' = replies \cup RepliesOf(UpdateCommitIndex(r, sent))
      /\ Lead(r, sent)
  BY <1>4
<1> HIDE DEF f
<1>7. /\ new \in ReplicaState /\ Contiguous(new)
      /\ new.commit_index >= st.commit_index /\ new.trim_through >= st.trim_through
  BY <1>5 DEF Settles, Advances, CommittedStepOK
<1>8. SameTip(sent, new) /\ SameProgress(new, sent)
  BY <1>4, LeaderTail
<1> HIDE DEF sent, new, old
<1>9. /\ sent.role = "leader" /\ sent.current_round = u
      /\ sent.commit_index = old.commit_index /\ sent.last_applied = old.last_applied
      /\ sent.trim_through = old.trim_through /\ sent.trim_round = old.trim_round
      /\ sent.response_cache = old.response_cache
      /\ \A k \in Slots : k <= last => sent.log[k] = old.log[k]
      /\ \A k \in Slots : k > last /\ sent.log[k] # Absent => sent.log[k].round = u
  BY <1>3, <1>4 DEF SameStore, SameProgress, old
<1>10. /\ last \in Nat /\ end \in Nat /\ end > last /\ old.trim_through \in Nat
       /\ old.trim_through <= last
  <2>1. last \in Nat /\ end \in Nat /\ old.trim_through \in Nat /\ old.trim_through <= last
    BY <1>1, <1>4, Indices, SMTT(30) DEF Contiguous
  <2>2. Len(st.pending_client_requests) \in Nat
    BY DEF ReplicaState
  <2> QED BY <1>3, <1>4, <2>1, <2>2
<1>11. LastLogRound(sent) = u
  <2>1. end \in Slots /\ end # 0 /\ end # sent.trim_through /\ sent.trim_through < end
    BY <1>4, <1>9, <1>10, Indices, BoundsAssumption DEF Slots
  <2>2. sent.log[end] # Absent
    BY <1>4, <1>10, <2>1 DEF Contiguous
  <2>3. sent.log[end].round = u
    BY <1>9, <1>10, <2>1, <2>2
  <2> QED BY <2>1, <2>2, <2>3 DEF LastLogRound, RoundAt
<1>12. L \in Log /\ leaderLog' = [leaderLog EXCEPT ![u] = L] /\ leaderLog'[u] = L
       /\ acked' = acked \cup {Acked(r, u, end)}
  <2>1. L \in Log
    BY <1>1, <1>4, WholeLogType
  <2>2. leaderLog' = [leaderLog EXCEPT ![u] = L] /\ acked' = acked \cup {Acked(r, u, end)}
    BY <1>6, <1>9 DEF Lead
  <2> HIDE DEF L
  <2> QED BY <1>1, <1>2, <2>1, <2>2 DEF HistoryTyped
<1>13. \A k \in Slots : L[k] = IF k <= old.trim_through THEN K[k] ELSE sent.log[k]
  BY <1>9, <1>11 DEF WholeLog
<1> HIDE DEF L, K
<1>14. ASSUME NEW k \in Slots, k <= last
       PROVE  /\ L[k] = K[k] /\ L[k] # Absent
              /\ k > old.trim_through => sent.log[k] = L[k]
              /\ k = old.trim_through => old.trim_round = L[k].round
  <2>1. /\ K[k] # Absent
        /\ k > old.trim_through => old.log[k] = K[k]
        /\ k = old.trim_through => old.trim_round = K[k].round
    BY <1>2, <1>14 DEF PrefixOf
  <2> HIDE DEF last
  <2>2. sent.log[k] = old.log[k]
    BY <1>9, <1>14
  <2>3. k <= old.trim_through \/ k > old.trim_through
    BY <1>10, SlotIsNatural
  <2> QED BY <1>13, <2>1, <2>2, <2>3
<1>15. ASSUME NEW k \in Slots, k > last
       PROVE  /\ L[k] = sent.log[k]
              /\ L[k] # Absent => k <= end /\ L[k].round = u
              /\ k <= end => L[k] # Absent
              /\ k # old.trim_through
  <2> HIDE DEF last, end
  <2>1. ~(k <= old.trim_through) /\ k # old.trim_through /\ old.trim_through < k
    BY <1>10, <1>15, SlotIsNatural
  <2>2. sent.log[k] # Absent <=> k <= end
    BY <1>4, <1>9, <2>1 DEF Contiguous, end
  <2> QED BY <1>9, <1>13, <1>15, <2>1, <2>2
<1>16. PrefixOf(sent, L)
  <2> SUFFICES ASSUME NEW k \in Slots, k <= end
               PROVE  /\ L[k] # Absent
                      /\ k > sent.trim_through => sent.log[k] = L[k]
                      /\ k = sent.trim_through => sent.trim_round = L[k].round
    BY DEF PrefixOf
  <2>1. CASE k <= last
    BY <1>9, <1>14, <2>1
  <2>2. CASE k > last
    BY <1>9, <1>15, <2>2
  <2> HIDE DEF last
  <2> QED BY <1>10, <2>1, <2>2, SlotIsNatural
<1>17. /\ LastLogIndex(new) = end /\ LastLogRound(new) = u
       /\ PrefixOf(new, L) /\ new.role = "leader" /\ new.current_round = u
       /\ new.match_index = sent.match_index /\ new.next_index = sent.next_index
       /\ TrimRoundInit(old) => TrimRoundInit(new)
  <2>1. TrimRoundInit(old) => TrimRoundInit(sent)
    BY <1>9 DEF TrimRoundInit
  <2> QED BY <1>8, <1>9, <1>11, <1>12, <1>16, <2>1 DEF SameTip, SameProgress
<1>18. Extends(r, new, L)
  <2>1. Agree(K, L, last)
    BY <1>14 DEF Agree
  <2>2. end >= last
    <3> HIDE DEF end, last
    <3> QED BY <1>10
  <2> QED BY <1>12, <1>15, <1>17, <2>1, <2>2 DEF Extends, old, K
<1>19. ASSUME NEW s \in Replicas
       PROVE  /\ sent.next_index[s] <= end + 1
              /\ sent.match_index[s] # 0 => Acked(s, u, sent.match_index[s]) \in acked'
  <2>1. /\ st.next_index[s] = old.next_index[s] /\ st.match_index[s] = old.match_index[s]
        /\ st.trim_through = old.trim_through /\ old.next_index[s] <= last + 1
    BY <1>2 DEF SameProgress, SameStore, old
  <2>2. old.next_index[s] \in Nat
    <3>1. old.next_index \in [Replicas -> 1 .. MaxSlot + 1]
      BY <1>1 DEF ReplicaState
    <3> QED BY <3>1, BoundsAssumption
  <2> HIDE DEF last, end
  <2>3. sent.next_index[s] <= end + 1
    BY <1>4, <1>10, <2>1, <2>2
  <2>4. (sent.match_index[s] = end /\ s = r) \/ sent.match_index[s] = old.match_index[s]
    BY <1>4, <2>1
  <2> QED BY <1>2, <1>12, <2>3, <2>4
<1>20. LeaderTurn(r, new)
  <2>1. Acked(r, u, LastLogIndex(sent)) \in acked'
    BY <1>12
  <2>2. SameStore(new, new)
    BY DEF SameStore
  <2>3. new = UpdateTrimWatermark(r, ApplyCommittedEntries(UpdateCommitIndex(r, sent)))
    BY <1>4
  <2> QED BY <1>4, <1>6, <1>9, <1>12, <1>16, <1>17, <1>19, <2>1, <2>2, <2>3, TailTurn DEF old
<1>21. Peers(r) \in SUBSET Replicas
  BY DEF Peers
<1>22. \A x, y \in Replicas : \A n \in InTransit(channel', x, y) :
          \/ n \in InTransit(channel, x, y)
          \/ /\ n.type = "propose" /\ n.round = sent.current_round
             /\ n.decide_through = sent.commit_index /\ n.trim_through = sent.trim_through
             /\ ProposalOf(n, L)
  <2>1. \A d \in Peers(r) : /\ sent.trim_through + 1 <= sent.next_index[d]
                            /\ sent.next_index[d] <= LastLogIndex(sent) + 1
    BY <1>4, <1>19, <1>21
  <2> QED BY <1>1, <1>4, <1>6, <1>12, <1>16, <1>21, <2>1, ProposalsSent
<1>23. u \in Elected'
  BY <1>2, <1>12 DEF Elected
<1>24. ASSUME NEW x \in Replicas, NEW y \in Replicas, NEW n \in InTransit(channel', x, y),
              n \notin InTransit(channel, x, y)
       PROVE  MessageSound(n)' /\ Sends(r, new, n)
  <2>1. /\ n.type = "propose" /\ n.round = u
        /\ n.decide_through = st.commit_index /\ n.trim_through = st.trim_through
        /\ ProposalOf(n, L)
    BY <1>4, <1>9, <1>22, <1>24
  <2>2. ProposalOf(n, leaderLog'[n.round])
    BY <1>12, <2>1
  <2>3. MessageSound(n)'
    BY <1>23, <2>1, <2>2 DEF MessageSound, ProposalOf
  <2>4. /\ st.commit_index \in Nat /\ st.trim_through \in Nat
        /\ new.commit_index \in Nat /\ new.trim_through \in Nat
    BY <1>7, Indices
  <2> QED BY <1>7, <1>17, <2>1, <2>3, <2>4 DEF Sends
<1>25. HistEffect(r, new)
  <2>1. u <= new.current_round /\ old.role = "leader"
    BY <1>1, <1>17, Indices DEF old
  <2>2. HistoryStep(r, new)
    BY <1>12, <1>18 DEF HistoryStep
  <2>3. \A s \in Replicas :
           /\ new.next_index[s] <= LastLogIndex(new) + 1
           /\ new.match_index[s] # 0 => Acked(s, new.current_round, new.match_index[s]) \in acked'
    BY <1>17, <1>19
  <2> QED BY <1>6, <1>7, <1>17, <1>24, <2>1, <2>2, <2>3 DEF HistEffect, old
<1>26. ~\E M \in Log : Wins(r, new, M)
  BY <1>2, <1>17 DEF Wins
<1>27. Turn(r, new)
  BY <1>20, <1>24, <1>25, <1>26 DEF Turn
<1> QED BY <1>7, <1>27

LEMMA FlushPendingTurn ==
  ASSUME Base, HistInv, NEW r \in Replicas, FlushPendingClientRequests(r)
  PROVE  \E new \in ReplicaState : Turn(r, new)
<1> DEFINE old == replica[r]
<1>1. /\ old.role = "leader" /\ old.pending_client_requests # <<>>
      /\ replica' = [replica EXCEPT ![r] = Flush(r, old).state]
      /\ TransmitProposals(channel, r, Flush(r, old).sent, Peers(r))
      /\ replies' = replies \cup RepliesOf(Flush(r, old).decided)
      /\ Lead(r, Flush(r, old).sent) /\ granted' = granted
  BY Zenon DEF FlushPendingClientRequests
<1>2. old \in ReplicaState /\ QueueFits(old)
  BY TypeFacts DEF Base
<1>3. Len(old.pending_client_requests) > 0
  <2>1. old.pending_client_requests \in Seq(Serials)
    BY <1>2 DEF ReplicaState
  <2> QED BY <1>1, <2>1
<1>4. SameStore(old, old) /\ SameProgress(old, old)
  BY DEF SameStore, SameProgress
<1> QED BY <1>1, <1>2, <1>3, <1>4, FlushTurn

\* A leader answers a request it has executed with the slot it executed it at.
LEMMA CachedReply ==
  ASSUME NEW st \in ReplicaState, st.last_applied = st.commit_index, NEW L \in Log,
         CacheOf(st, L), NEW serial \in Serials, st.response_cache[serial] # 0
  PROVE  ReplyOf([serial |-> serial, slot |-> st.response_cache[serial]], L, st.commit_index)
<1> DEFINE c == st.response_cache[serial]
<1>1. First(L, st.last_applied, serial, c)
  BY DEF CacheOf
<1> HIDE DEF c
<1>2. c # 0
  BY DEF c
<1>3. /\ c \in Slots /\ c <= st.commit_index /\ c <= c
      /\ L[c].serial = serial /\ \A k \in Slots : k < c => L[k].serial # serial
  BY <1>1, <1>2, SlotIsNatural DEF First
<1>4. First(L, c, serial, c)
  BY <1>2, <1>3 DEF First
<1> QED BY <1>3, <1>4 DEF ReplyOf, c

LEMMA HandleClientRequestTurn ==
  ASSUME Base, HistInv, NEW r \in Replicas, NEW serial \in Serials,
         HandleClientRequest(r, serial)
  PROVE  \E new \in ReplicaState : Turn(r, new)
<1> DEFINE old == replica[r]
           u == old.current_round
           L == leaderLog[u]
           queued == [old EXCEPT
                         !.pending_client_serials = @ \cup {serial},
                         !.pending_client_requests = Append(@, serial)]
           full == BatchFull(queued)
           flushed == Flush(r, queued)
           reply == [serial |-> serial, slot |-> old.response_cache[serial]]
           still == leaderLog' = leaderLog /\ acked' = acked
<1>1. /\ \/ /\ replica' = replica /\ channel' = channel /\ still
            /\ replies' = replies
         \/ /\ replica' = replica /\ channel' = channel /\ still
            /\ old.role = "leader" /\ old.response_cache[serial] # 0
            /\ replies' = replies \cup {reply}
         \/ /\ old.role = "leader"
            /\ old.next_slot + Len(old.pending_client_requests) <= MaxSlot
            /\ replica' = [replica EXCEPT ![r] = IF full THEN flushed.state ELSE queued]
            /\ TransmitProposals(channel, r, flushed.sent, IF full THEN Peers(r) ELSE {})
            /\ replies' = replies \cup (IF full THEN RepliesOf(flushed.decided) ELSE {})
            /\ IF full THEN Lead(r, flushed.sent) ELSE still
      /\ granted' = granted
  BY Zenon DEF HandleClientRequest
<1>2. /\ TypeInv /\ LogInv /\ old \in ReplicaState /\ QueueFits(old) /\ Contiguous(old)
      /\ old.last_applied = old.commit_index /\ u \in Nat
      /\ replica = [replica EXCEPT ![r] = old] /\ channel \in Channels
  <2>1. TypeInv /\ LogInv
    BY DEF Base
  <2> QED BY <2>1, BaseFacts, TypeFacts, LogFacts
<1>3. /\ SameStore(old, old) /\ SameProgress(old, old) /\ SameTip(old, old) /\ u <= u
  BY <1>2, SameStoreTip DEF SameStore, SameProgress
<1>4. old.role = "leader" =>
         /\ L \in Log
         /\ \A s \in Replicas :
               /\ old.next_index[s] <= LastLogIndex(old) + 1
               /\ old.match_index[s] # 0 => Acked(s, u, old.match_index[s]) \in acked
  BY LeaderFacts
<1>5. CASE replica' = replica /\ channel' = channel /\ still /\ replies' = replies
  <2>1. replica' = [replica EXCEPT ![r] = old]
    BY <1>2, <1>5
  <2>2. Turn(r, old)
    BY <1>1, <1>2, <1>3, <1>5, <2>1, QuietTurn
  <2> QED BY <1>2, <2>2
<1>6. CASE /\ replica' = replica /\ channel' = channel /\ still
           /\ old.role = "leader" /\ old.response_cache[serial] # 0
           /\ replies' = replies \cup {reply}
  <2>1. replica' = [replica EXCEPT ![r] = old]
    BY <1>2, <1>6
  <2>2. leaderLog'[u] = L
    BY <1>6
  <2>3. CacheOf(old, L) => ReplyOf(reply, L, old.commit_index)
    <3> HIDE DEF old, L
    <3> QED BY <1>2, <1>4, <1>6, CachedReply
  <2>4. LeaderTurn(r, old)
    <3> HIDE DEF reply, L
    <3> QED BY <1>6, <2>2, <2>3 DEF LeaderTurn, L
  <2>5. Turn(r, old)
    BY <1>1, <1>2, <1>3, <1>4, <1>6, <2>1, <2>4, LeaderIdleTurn
  <2> QED BY <1>2, <2>5
<1>7. CASE /\ old.role = "leader"
           /\ old.next_slot + Len(old.pending_client_requests) <= MaxSlot
           /\ replica' = [replica EXCEPT ![r] = IF full THEN flushed.state ELSE queued]
           /\ TransmitProposals(channel, r, flushed.sent, IF full THEN Peers(r) ELSE {})
           /\ replies' = replies \cup (IF full THEN RepliesOf(flushed.decided) ELSE {})
           /\ IF full THEN Lead(r, flushed.sent) ELSE still
  <2>1. queued \in ReplicaState /\ QueueFits(queued)
    BY <1>2, <1>7, QueuedFits
  <2>2. /\ SameStore(queued, old) /\ SameProgress(queued, old)
        /\ queued.pending_client_requests = Append(old.pending_client_requests, serial)
    BY <1>2, Zenon DEF SameStore, SameProgress, ReplicaState
  <2>3. Len(queued.pending_client_requests) > 0
    <3>1. old.pending_client_requests \in Seq(Serials)
      BY <1>2 DEF ReplicaState
    <3> QED BY <2>2, <3>1
  <2> HIDE DEF queued
  <2>4. CASE full
    <3>1. /\ replica' = [replica EXCEPT ![r] = flushed.state]
          /\ TransmitProposals(channel, r, flushed.sent, Peers(r))
          /\ replies' = replies \cup RepliesOf(flushed.decided)
          /\ Lead(r, flushed.sent)
      BY <1>7, <2>4
    <3> QED BY <1>1, <1>7, <2>1, <2>2, <2>3, <3>1, FlushTurn
  <2>5. CASE ~full
    <3>1. /\ replica' = [replica EXCEPT ![r] = queued] /\ still /\ replies' = replies
          /\ TransmitProposals(channel, r, flushed.sent, {})
      BY <1>7, <2>5
    <3>2. \A x, y \in Replicas : InTransit(channel', x, y) \subseteq InTransit(channel, x, y)
      <4> DEFINE out == [d \in Replicas |-> ProposeTo(r, flushed.sent, d)]
      <4>1. Transmit(channel, r, out, {})
        BY <3>1, Zenon DEF TransmitProposals
      <4> HIDE DEF out
      <4> QED BY <1>2, <4>1, TransmitLemma
    <3>3. /\ Contiguous(queued) /\ SameTip(old, queued)
          /\ LastLogIndex(queued) = LastLogIndex(old)
          /\ queued.commit_index = old.commit_index
          /\ queued.trim_through = old.trim_through
      BY <1>2, <2>2, SameStoreContiguous, SameStoreTip DEF SameTip, SameStore
    <3>4. LeaderTurn(r, queued)
      <4>1. CacheOf(old, leaderLog'[u]) => CacheOf(queued, leaderLog'[u])
        BY <2>2 DEF CacheOf, SameStore
      <4> QED BY <1>7, <2>2, <3>1, <3>3, <4>1 DEF LeaderTurn, SameProgress
    <3>5. \A s \in Replicas :
             /\ queued.next_index[s] <= LastLogIndex(queued) + 1
             /\ queued.match_index[s] # 0 =>
                   Acked(s, queued.current_round, queued.match_index[s]) \in acked
      BY <1>4, <1>7, <2>2, <3>3 DEF SameProgress
    <3>6. Turn(r, queued)
      BY <1>1, <2>1, <3>1, <3>2, <3>3, <3>4, <3>5, LeaderIdleTurn
    <3> QED BY <2>1, <3>6
  <2> QED BY <2>4, <2>5
<1> QED BY <1>1, <1>5, <1>6, <1>7

-----------------------------------------------------------------------------
(* The theorems *)

\* Every step is a turn of some replica.
LEMMA EveryStepIsATurn ==
  ASSUME Base, HistInv, Next
  PROVE  \E r \in Replicas, new \in ReplicaState : Turn(r, new)
<1>1. PICK r \in Replicas :
          \/ StartProbeRound(r)
          \/ \E serial \in Serials : HandleClientRequest(r, serial)
          \/ FlushPendingClientRequests(r)
          \/ Heartbeat(r)
          \/ \E s \in Peers(r) : \/ HandleProbe(s, r)
                                 \/ HandlePrepare(s, r)
                                 \/ HandlePropose(s, r)
                                 \/ HandleAck(s, r)
  BY Zenon DEF Next
<1>2. Peers(r) \subseteq Replicas
  BY DEF Peers
<1>3. \E new \in ReplicaState : Turn(r, new)
  <2>1. CASE StartProbeRound(r)
    BY <2>1, StartProbeRoundTurn
  <2>2. CASE \E serial \in Serials : HandleClientRequest(r, serial)
    BY <2>2, HandleClientRequestTurn
  <2>3. CASE FlushPendingClientRequests(r)
    BY <2>3, FlushPendingTurn
  <2>4. CASE Heartbeat(r)
    BY <2>4, HeartbeatTurn
  <2>5. CASE \E s \in Peers(r) : HandleProbe(s, r)
    BY <1>2, <2>5, HandleProbeTurn
  <2>6. CASE \E s \in Peers(r) : HandlePrepare(s, r)
    BY <1>2, <2>6, HandlePrepareTurn
  <2>7. CASE \E s \in Peers(r) : HandlePropose(s, r)
    BY <1>2, <2>7, HandleProposeTurn
  <2>8. CASE \E s \in Peers(r) : HandleAck(s, r)
    BY <1>2, <2>8, HandleAckTurn
  <2> QED BY <1>1, <2>1, <2>2, <2>3, <2>4, <2>5, <2>6, <2>7, <2>8
<1> QED BY <1>3

LEMMA HistInit ==
  ASSUME Init
  PROVE  HistInv
<1> DEFINE own == Acked(InitialLeader, 0, 0)
<1>1. \A q \in Replicas : replica[q] = InitialState(q)
  BY Zenon DEF Init
<1>2. \A q \in Replicas :
         /\ replica[q].role \in {"leader", "follower"}
         /\ replica[q].role = "leader" => q = InitialLeader
         /\ replica[q].current_round = 0 /\ replica[q].next_slot = 1
         /\ replica[q].trim_through = 0 /\ replica[q].trim_round = 0
         /\ \A s \in Replicas : replica[q].match_index[s] = 0 /\ replica[q].next_index[s] = 1
  <2> SUFFICES ASSUME NEW q \in Replicas
               PROVE  LET st == InitialState(q) IN
                      /\ st.role \in {"leader", "follower"}
                      /\ st.role = "leader" => q = InitialLeader
                      /\ st.current_round = 0 /\ st.next_slot = 1
                      /\ st.trim_through = 0 /\ st.trim_round = 0
                      /\ \A s \in Replicas : st.match_index[s] = 0 /\ st.next_index[s] = 1
    BY <1>1
  <2> QED BY DEF InitialState
<1>3. /\ acked = {own} /\ own.server = InitialLeader /\ own.round = 0 /\ own.index = 0
      /\ InitialLeader \in Replicas /\ Elected = {0}
  BY ReplicasAssumption DEF Init, Acked, Elected
<1>4. \A k \in Slots : leaderLog[0][k] = Absent
  <2>1. 0 \in Rounds
    BY BoundsAssumption DEF Rounds
  <2> QED BY <2>1 DEF Init
<1>5. \A q \in Replicas : /\ LastLogIndex(replica[q]) = 0 /\ LastLogRound(replica[q]) = 0
                          /\ \A k \in Slots : ~(k <= LastLogIndex(replica[q]))
  BY <1>2, SlotIsNatural DEF LastLogIndex, LastLogRound, RoundAt
<1>6. LogTree /\ ElectedOnce
  BY <1>3, <1>4 DEF LogTree, ElectedOnce
<1>7. ASSUME NEW q \in Replicas
      PROVE  LogSound(q) /\ Leading(q)
  <2>1. PrefixOf(replica[q], leaderLog[0])
    BY <1>5, <1>7 DEF PrefixOf
  <2>2. LogSound(q)
    BY <1>2, <1>3, <1>5, <2>1 DEF LogSound, TrimRoundInit
  <2>3. Leading(q)
    BY <1>2, <1>3, <1>4, <1>5, <2>1 DEF Leading
  <2> QED BY <2>2, <2>3
<1>8. \A a \in acked : AckKept(a)
  BY <1>2, <1>3, SlotIsNatural DEF AckKept
<1>9. \A x, y \in Replicas : InTransit(channel, x, y) = {}
  BY DEF Init, InTransit
<1> QED BY <1>6, <1>7, <1>8, <1>9 DEF HistInv

LEMMA HistStutter ==
  ASSUME HistInv, UNCHANGED vars
  PROVE  HistInv'
<1>1. /\ replica' = replica /\ channel' = channel /\ leaderLog' = leaderLog
      /\ acked' = acked /\ granted' = granted /\ Elected' = Elected
  BY DEF vars, Elected
<1>2. LogTree'
  BY <1>1 DEF HistInv, LogTree
<1>3. ElectedOnce'
  BY <1>1 DEF HistInv, ElectedOnce
<1>4. ASSUME NEW q \in Replicas
      PROVE  LogSound(q)'
  BY <1>1, <1>4 DEF HistInv, LogSound
<1>5. ASSUME NEW q \in Replicas
      PROVE  Leading(q)'
  BY <1>1, <1>5 DEF HistInv, Leading
<1>6. ASSUME NEW a \in acked'
      PROVE  AckKept(a)'
  BY <1>1, <1>6 DEF HistInv, AckKept
<1>7. ASSUME NEW x \in Replicas, NEW y \in Replicas, NEW m \in InTransit(channel', x, y)
      PROVE  MessageSound(m)'
  BY <1>1, <1>7 DEF HistInv, MessageSound
<1> QED BY <1>2, <1>3, <1>4, <1>5, <1>6, <1>7 DEF HistInv

LEMMA BaseStep ==
  ASSUME Base, [Next]_vars
  PROVE  Base'
BY TypeAndLogStep, ElectionStep DEF Base

LEMMA HistStep ==
  ASSUME Base, HistInv, [Next]_vars
  PROVE  Base' /\ HistInv'
<1>1. Base'
  BY BaseStep
<1>2. CASE Next
  <2>1. PICK r \in Replicas, new \in ReplicaState : Turn(r, new)
    BY <1>2, EveryStepIsATurn
  <2>2. HistEffect(r, new)
    BY <2>1 DEF Turn
  <2> QED BY <1>1, <2>2, HistKeeps
<1> QED BY <1>1, <1>2, HistStutter

\* Every log is a prefix of the log of a leader of its last round, and entries of the
\* same round at the same slot have the same past.
LEMMA HistMatching ==
  ASSUME Base, HistInv
  PROVE  LogMatching
<1> SUFFICES ASSUME NEW a \in Replicas, NEW b \in Replicas, NEW k \in Slots,
                    replica[a].log[k] # Absent, replica[b].log[k] # Absent,
                    replica[a].log[k].round = replica[b].log[k].round,
                    NEW j \in 1 .. k
             PROVE  SameEntry(a, b, j)
  BY DEF LogMatching
<1> DEFINE t(q) == LastLogRound(replica[q])
<1>1. j \in Slots /\ j <= k /\ LogTree
  BY SlotIsNatural, BoundsAssumption DEF Slots, HistInv
<1>2. ASSUME NEW q \in Replicas, NEW i \in Slots, replica[q].log[i] # Absent
      PROVE  t(q) \in Elected /\ leaderLog[t(q)][i] = replica[q].log[i]
  <2>1. Contiguous(replica[q]) /\ LogSound(q)
    BY BaseFacts DEF HistInv
  <2> QED BY <1>2, <2>1 DEF LogSound, PrefixOf, Contiguous
<1>3. Agree(leaderLog[t(a)], leaderLog[t(b)], k)
  <2>1. /\ t(a) \in Elected /\ leaderLog[t(a)][k] = replica[a].log[k]
        /\ t(b) \in Elected /\ leaderLog[t(b)][k] = replica[b].log[k]
    BY <1>2
  <2>2. Matching(leaderLog[t(a)], leaderLog[t(b)])
    BY <1>1, <2>1, TreeMatching
  <2> QED BY <2>1, <2>2 DEF Matching
<1> QED BY <1>1, <1>2, <1>3 DEF SameEntry, Agree

LEMMA HistMatchIndex ==
  ASSUME Base, HistInv
  PROVE  MatchIndexSound
<1> SUFFICES ASSUME NEW l \in Replicas, NEW s \in Replicas, replica[l].role = "leader",
                    replica[s].current_round = replica[l].current_round
             PROVE  /\ replica[l].match_index[s] <= LastLogIndex(replica[s])
                    /\ \A k \in 1 .. replica[l].match_index[s] : SameEntry(l, s, k)
  BY DEF MatchIndexSound
<1> DEFINE u == replica[l].current_round
           match == replica[l].match_index[s]
           t(q) == LastLogRound(replica[q])
           a == Acked(s, u, match)
<1>1. /\ replica[l] \in ReplicaState /\ Contiguous(replica[l]) /\ TypeInv
      /\ replica[s] \in ReplicaState /\ Contiguous(replica[s]) /\ u \in Nat
  BY BaseFacts
<1>2. match \in 0 .. MaxSlot /\ match \in Nat
  <2>1. replica[l].match_index \in [Replicas -> 0 .. MaxSlot]
    BY <1>1 DEF ReplicaState
  <2> QED BY <2>1, BoundsAssumption
<1>3. /\ u \in Elected /\ PrefixOf(replica[l], leaderLog[u])
      /\ match # 0 => a \in acked
  BY LeaderFacts
<1>4. a.server = s /\ a.round = u /\ a.index = match
  BY DEF Acked
<1> HIDE DEF match, a
<1>5. ASSUME NEW k \in Slots, k <= match
      PROVE  k <= LastLogIndex(replica[s]) /\ leaderLog[t(s)][k] = leaderLog[u][k]
  <2>1. match # 0
    BY <1>2, <1>5, SlotIsNatural
  <2>2. AckKept(a)
    BY <1>3, <2>1 DEF HistInv
  <2>3. ~\E v \in Elected : u < v /\ v <= u
    <3>1. \A v \in Elected : v \in Nat
      BY <1>1, HistFacts
    <3> QED BY <1>1, <3>1
  <2> QED BY <1>4, <1>5, <2>2, <2>3 DEF AckKept
<1>6. match <= LastLogIndex(replica[s])
  <2>1. CASE match = 0
    BY <1>1, <2>1, Indices
  <2>2. CASE match # 0
    <3>1. match \in Slots /\ match <= match
      BY <1>2, <2>2, BoundsAssumption DEF Slots
    <3> QED BY <1>5, <3>1
  <2> QED BY <2>1, <2>2
<1>7. ASSUME NEW k \in 1 .. match
      PROVE  SameEntry(l, s, k)
  <2>1. k \in Slots /\ k <= match
    BY <1>2, BoundsAssumption DEF Slots
  <2>2. leaderLog[t(s)][k] = leaderLog[u][k]
    BY <1>5, <2>1
  <2>3. replica[s].log[k] # Absent => replica[s].log[k] = leaderLog[t(s)][k]
    BY <1>1, <2>1 DEF HistInv, LogSound, PrefixOf, Contiguous
  <2>4. replica[l].log[k] # Absent => replica[l].log[k] = leaderLog[u][k]
    BY <1>1, <1>3, <2>1 DEF PrefixOf, Contiguous
  <2> QED BY <2>2, <2>3, <2>4 DEF SameEntry
<1> QED BY <1>6, <1>7 DEF match

LEMMA BaseInit ==
  ASSUME Init
  PROVE  Base
BY TypeInit, LogInit, ElectionInit DEF Base

LEMMA HistAlways == Spec => [](Base /\ HistInv)
<1>1. Init => Base /\ HistInv
  BY BaseInit, HistInit
<1>2. Base /\ HistInv /\ [Next]_vars => Base' /\ HistInv'
  BY HistStep
<1> QED BY <1>1, <1>2, PTL DEF Spec

\* Two logs with an entry of the same round at a slot agree up to that slot, for
\* every cluster: the prefix check of handle_propose and the truncation of a
\* conflicting suffix (LogMatching).
THEOREM LogsMatch == Spec => []LogMatching
<1>1. Base /\ HistInv => LogMatching
  BY HistMatching
<1> QED BY <1>1, HistAlways, PTL

\* What handle_ack records in match_index_ is true of the follower as long as it has
\* seen no later round, whatever acks are lost or delayed (MatchIndexSound).
THEOREM MatchIndexTrue == Spec => []MatchIndexSound
<1>1. Base /\ HistInv => MatchIndexSound
  BY HistMatchIndex
<1> QED BY <1>1, HistAlways, PTL

-----------------------------------------------------------------------------
(* What a vote is worth *)

\* s has stored the entry that the leader of round t appended at slot k.
Holds(s, t, k) == Stores(acked, s, t, k) /\ leaderLog[t][k].round = t

\* A leader between rounds t and u has something else at slot k.
Superseded(t, k, u) ==
  \E v \in Elected : t < v /\ v < u /\ leaderLog[v][k] # leaderLog[t][k]

\* A log that ends with this round and index is as good as one with an entry of round t
\* at slot k.
TipCovers(st, t, k) ==
  LastLogRound(st) > t \/ (LastLogRound(st) = t /\ LastLogIndex(st) >= k)

\* The log of st is as good as everything s has stored before round u.
VoteRight(s, u, st) ==
  \A t \in Elected, k \in Slots :
     t < u /\ Holds(s, t, k) => Superseded(t, k, u) \/ TipCovers(st, t, k)

\* The leader of round u has everything s has stored before.
LeaderHasAll(s, u) ==
  \A t \in Elected, k \in Slots :
     t < u /\ Holds(s, t, k) => Superseded(t, k, u) \/ leaderLog[u][k] = leaderLog[t][k]

\* Until a candidate wins, the promises it has were given to the log it has.
Votes ==
  \A g \in granted :
    /\ g.round <= replica[g.leader].current_round
    /\ /\ replica[g.leader].role = "candidate"
       /\ replica[g.leader].current_round = g.round
       /\ g.round \notin Elected
       => VoteRight(g.server, g.round, replica[g.leader])

Electors ==
  \A u \in Elected : \E Q \in SUBSET Replicas :
    IsQuorum(Q) /\ \A s \in Q : u <= replica[s].current_round /\ LeaderHasAll(s, u)

\* A probe of a candidate tells where the candidate's log ends.
ProbeTip(m) ==
  m.type = "probe" =>
    /\ m.round <= replica[m.leader].current_round
    /\ /\ replica[m.leader].role = "candidate"
       /\ replica[m.leader].current_round = m.round
       => /\ m.last_log_index = LastLogIndex(replica[m.leader])
          /\ m.last_log_round = LastLogRound(replica[m.leader])

VoteInv ==
  /\ Votes
  /\ Electors
  /\ \A x, y \in Replicas : \A m \in InTransit(channel, x, y) : ProbeTip(m)

\* The one acknowledgement a step may record is of the round that its server is then in.
LEMMA NewAck ==
  ASSUME Base, HistInv, NEW r \in Replicas, NEW new, HistEffect(r, new)
  PROVE  \A a \in acked' : a \in acked \/ (a.server = r /\ a.round = new.current_round)
<1>1. Idle(r, new) => acked' = acked
  BY DEF Idle
<1>2. ASSUME NEW w \in Rounds, NEW q \in 0 .. MaxSlot, Takes(r, new, w, q)
      PROVE  acked' = acked \cup {Acked(r, new.current_round, q)}
  BY <1>2 DEF Takes
<1>3. ASSUME NEW L \in Log, Extends(r, new, L) \/ Wins(r, new, L)
      PROVE  acked' = acked \cup {Acked(r, new.current_round, LastLogIndex(new))}
  BY <1>3 DEF Extends, Wins
<1>4. \A i : /\ Acked(r, new.current_round, i).server = r
             /\ Acked(r, new.current_round, i).round = new.current_round
  BY DEF Acked
<1>5. HistoryStep(r, new)
  BY DEF HistEffect
<1> QED BY <1>1, <1>2, <1>3, <1>4, <1>5 DEF HistoryStep

\* What a server is known to hold of rounds before its own, it held already.
LEMMA HeldBefore ==
  ASSUME Base, HistInv, NEW r \in Replicas, NEW new, HistEffect(r, new), Grows,
         NEW s \in Replicas, NEW t \in Elected', NEW k \in Slots, Holds(s, t, k)',
         s = r => t # new.current_round
  PROVE  /\ t \in Elected /\ Holds(s, t, k)
         /\ leaderLog[t][k] # Absent /\ leaderLog'[t][k] = leaderLog[t][k]
<1>1. PICK a \in acked' : a.server = s /\ a.round = t /\ k <= a.index
  BY DEF Holds, Stores
<1>2. a \in acked
  BY <1>1, NewAck
<1>3. t \in Elected /\ Stores(acked, s, t, k)
  BY <1>1, <1>2 DEF Elected, Stores
<1>4. leaderLog[t][k] # Absent
  BY <1>1, <1>2 DEF HistInv, AckKept
<1>5. leaderLog'[t][k] = leaderLog[t][k]
  BY <1>3, <1>4 DEF Grows
<1> QED BY <1>3, <1>4, <1>5 DEF Holds

LEMMA SupersededStays ==
  ASSUME TypeInv, LogTree, Grows, NEW t \in Elected, NEW k \in Slots, NEW u,
         leaderLog[t][k] # Absent, Superseded(t, k, u)
  PROVE  Superseded(t, k, u)'
<1>1. PICK v \in Elected : t < v /\ v < u /\ leaderLog[v][k] # leaderLog[t][k]
  BY DEF Superseded
<1>2. v \in Elected' /\ leaderLog'[v][k] # leaderLog'[t][k]
  BY <1>1, GrowsKeeps
<1> QED BY <1>1, <1>2 DEF Superseded

\* A replica's own log is as good as what it has stored itself.
LEMMA OwnTip ==
  ASSUME Base, HistInv, NEW s \in Replicas, NEW u \in Nat,
         replica[s].current_round <= u,
         replica[s].current_round = u => u \notin Elected
  PROVE  VoteRight(s, u, replica[s])
<1> DEFINE st == replica[s]
           tip == LastLogRound(st)
<1> SUFFICES ASSUME NEW t \in Elected, NEW k \in Slots, t < u, Holds(s, t, k)
             PROVE  Superseded(t, k, u) \/ TipCovers(st, t, k)
  BY DEF VoteRight
<1>1. PICK a \in acked : a.server = s /\ a.round = t /\ k <= a.index
  BY DEF Holds, Stores
<1>2. AckKept(a) /\ LogTree /\ LogSound(s) /\ TypeInv
  BY <1>1 DEF HistInv, Base
<1>3. tip \in Elected /\ st.current_round \in Nat /\ st \in ReplicaState
  BY <1>2, BaseFacts DEF LogSound
<1>4. \A v \in Elected : v \in Nat
  BY <1>2, HistFacts
<1>5. leaderLog[t][k].round = t
  BY DEF Holds
<1> HIDE DEF tip
<1>6. leaderLog[t][k] # Absent /\
      \/ k <= LastLogIndex(st) /\ leaderLog[tip][k] = leaderLog[t][k]
      \/ \E v \in Elected : /\ t < v /\ v <= st.current_round
                             /\ leaderLog[v][k] # leaderLog[t][k]
  BY <1>1, <1>2 DEF AckKept, tip
<1>7. CASE k <= LastLogIndex(st) /\ leaderLog[tip][k] = leaderLog[t][k]
  <2>1. t <= tip
    BY <1>2, <1>3, <1>5, <1>6, <1>7 DEF LogTree
  <2>2. LastLogIndex(st) \in Nat /\ k \in Nat
    BY <1>3, Indices, SlotIsNatural
  <2> QED BY <1>3, <1>4, <1>7, <2>1, <2>2 DEF TipCovers, tip
<1>8. ASSUME NEW v \in Elected, t < v, v <= st.current_round,
             leaderLog[v][k] # leaderLog[t][k]
      PROVE  Superseded(t, k, u)
  <2>1. v < u
    BY <1>3, <1>4, <1>8
  <2> QED BY <1>8, <2>1 DEF Superseded
<1> QED BY <1>6, <1>7, <1>8

\* A candidate keeps its log until it wins or gives up.
LEMMA CandidateKeeps ==
  ASSUME Base, HistInv, NEW r \in Replicas, NEW new \in ReplicaState, Turn(r, new),
         NEW l \in Replicas, replica'[l].role = "candidate",
         replica'[l].current_round <= replica[l].current_round
  PROVE  /\ replica[l].role = "candidate"
         /\ replica[l].current_round = replica'[l].current_round
         /\ LastLogIndex(replica'[l]) = LastLogIndex(replica[l])
         /\ LastLogRound(replica'[l]) = LastLogRound(replica[l])
<1>1. replica' = [replica EXCEPT ![r] = new] /\ replica \in [Replicas -> ReplicaState]
  <2>1. TypeOK
    BY DEF Base, TypeInv
  <2> QED BY <2>1 DEF Turn, HistEffect, TypeOK
<1>2. CASE l # r
  BY <1>1, <1>2
<1>3. CASE l = r
  <2>1. replica'[l] = new /\ new.role = "candidate"
    BY <1>1, <1>3
  <2>2. replica[r].current_round \in Nat /\ new.current_round \in Nat
    BY BaseFacts, RoundIsNatural
  <2>3. replica[r].role = "candidate" /\ new.current_round = replica[r].current_round
    BY <1>3, <2>1, <2>2 DEF Turn, HistEffect
  <2>4. StoreTurn(r, new)
    BY <2>1 DEF Turn, LeaderTurn, FollowerTurn, Takes
  <2>5. SameTip(replica[r], new)
    BY <2>4, SameStoreTip DEF StoreTurn
  <2> QED BY <1>3, <2>1, <2>3, <2>5 DEF SameTip
<1> QED BY <1>2, <1>3

LEMMA TurnFacts ==
  ASSUME Base, HistInv, Base', NEW r \in Replicas, NEW new \in ReplicaState, Turn(r, new)
  PROVE  /\ HistEffect(r, new) /\ Grows /\ TypeInv /\ LogTree
         /\ replica' = [replica EXCEPT ![r] = new] /\ replica'[r] = new
         /\ \A q \in Replicas : /\ q # r => replica'[q] = replica[q]
                                /\ replica[q].current_round \in Nat
                                /\ replica'[q].current_round \in Nat
                                /\ replica[q].current_round <= replica'[q].current_round
<1>1. HistEffect(r, new)
  BY DEF Turn
<1>2. Grows /\ TypeInv /\ LogTree
  BY <1>1, EffectGrows DEF Base, HistInv
<1>3. /\ replica' = [replica EXCEPT ![r] = new] /\ replica[r].current_round <= new.current_round
  BY <1>1 DEF HistEffect
<1>4. replica \in [Replicas -> ReplicaState]
  BY <1>2 DEF TypeInv, TypeOK
<1>5. \A q \in Replicas : /\ replica[q].current_round \in Nat
                          /\ replica'[q].current_round \in Nat
  BY NextTypes, BaseFacts DEF Base
<1> QED BY <1>1, <1>2, <1>3, <1>4, <1>5

\* A vote for a log is as good after a step of that server or of another one.
LEMMA VoteStays ==
  ASSUME Base, HistInv, Base', NEW r \in Replicas, NEW new \in ReplicaState, Turn(r, new),
         NEW s \in Replicas, NEW u \in Nat, u <= replica'[s].current_round,
         NEW st, NEW st2, VoteRight(s, u, st),
         LastLogIndex(st2) = LastLogIndex(st), LastLogRound(st2) = LastLogRound(st)
  PROVE  \A t \in Elected', k \in Slots :
            t < u /\ Holds(s, t, k)' => Superseded(t, k, u)' \/ TipCovers(st2, t, k)
<1>1. /\ HistEffect(r, new) /\ Grows /\ TypeInv /\ LogTree /\ replica'[r] = new
      /\ replica'[s].current_round \in Nat
  BY TurnFacts
<1> SUFFICES ASSUME NEW t \in Elected', NEW k \in Slots, t < u, Holds(s, t, k)'
             PROVE  Superseded(t, k, u)' \/ TipCovers(st2, t, k)
  OBVIOUS
<1>2. t \in Nat
  BY NextTypes DEF Base
<1>3. s = r => t # new.current_round
  BY <1>1, <1>2
<1>4. t \in Elected /\ Holds(s, t, k) /\ leaderLog[t][k] # Absent
  BY <1>1, <1>3, HeldBefore
<1>5. Superseded(t, k, u) \/ TipCovers(st, t, k)
  BY <1>4 DEF VoteRight
<1>6. Superseded(t, k, u) => Superseded(t, k, u)'
  BY <1>1, <1>4, SupersededStays
<1> QED BY <1>5, <1>6 DEF TipCovers

LEMMA ProbesKept ==
  ASSUME Base, HistInv, VoteInv, Base', NEW r \in Replicas, NEW new \in ReplicaState,
         Turn(r, new),
         NEW x \in Replicas, NEW y \in Replicas, NEW m \in InTransit(channel', x, y)
  PROVE  ProbeTip(m)'
<1> SUFFICES ASSUME m.type = "probe"
             PROVE  ProbeTip(m)'
  BY DEF ProbeTip
<1>1. CASE m \in InTransit(channel, x, y)
  <2> DEFINE l == m.leader
  <2>1. m \in Message
    <3>1. channel[x][y] \in Seq(Message)
      BY DEF Base, TypeInv, TypeOK
    <3> QED BY <1>1, <3>1 DEF InTransit
  <2>2. l \in Replicas /\ m.round \in Nat
    BY <2>1, MessageKinds, BoundsAssumption DEF ProbeMessage, Rounds
  <2>3. ProbeTip(m)
    BY <1>1 DEF VoteInv
  <2>4. m.round <= replica[l].current_round
    BY <2>3 DEF ProbeTip
  <2>5. /\ replica[l].current_round \in Nat /\ replica'[l].current_round \in Nat
        /\ replica[l].current_round <= replica'[l].current_round
    BY <2>2, TurnFacts
  <2>6. m.round <= replica'[l].current_round
    <3> HIDE DEF l
    <3> QED BY <2>2, <2>4, <2>5
  <2>7. ASSUME replica'[l].role = "candidate", replica'[l].current_round = m.round
        PROVE  /\ m.last_log_index = LastLogIndex(replica'[l])
               /\ m.last_log_round = LastLogRound(replica'[l])
    <3>1. /\ replica[l].role = "candidate"
          /\ replica[l].current_round = replica'[l].current_round
          /\ LastLogIndex(replica'[l]) = LastLogIndex(replica[l])
          /\ LastLogRound(replica'[l]) = LastLogRound(replica[l])
      BY <2>2, <2>4, <2>7, CandidateKeeps
    <3> QED BY <2>3, <2>7, <3>1 DEF ProbeTip
  <2> QED BY <2>6, <2>7 DEF ProbeTip
<1>2. CASE m \notin InTransit(channel, x, y)
  <2>1. Sends(r, new, m)
    BY <1>2 DEF Turn
  <2>2. /\ m.leader = r /\ m.round = new.current_round
        /\ m.last_log_index = LastLogIndex(new) /\ m.last_log_round = LastLogRound(new)
    BY <2>1 DEF Sends
  <2>3. replica'[r] = new /\ new.current_round \in Nat
    BY TurnFacts, RoundIsNatural
  <2> QED BY <2>2, <2>3 DEF ProbeTip
<1> QED BY <1>1, <1>2

LEMMA VotesKept ==
  ASSUME Base, HistInv, VoteInv, Base', NEW r \in Replicas, NEW new \in ReplicaState,
         Turn(r, new)
  PROVE  Votes'
<1> SUFFICES ASSUME NEW g \in granted'
             PROVE  /\ g.round <= replica'[g.leader].current_round
                    /\ /\ replica'[g.leader].role = "candidate"
                       /\ replica'[g.leader].current_round = g.round
                       /\ g.round \notin Elected'
                       => VoteRight(g.server, g.round, replica[g.leader])'
  BY DEF Votes
<1> DEFINE l == g.leader
           s == g.server
           u == g.round
<1>1. l \in Replicas /\ s \in Replicas /\ u \in Nat
  <2>1. granted' \subseteq [round : Rounds, server : Replicas, leader : Replicas]
    BY DEF Base, TypeInv, TypeOK
  <2> QED BY <2>1, BoundsAssumption DEF Rounds
<1>2. /\ replica'[r] = new /\ Grows /\ TypeInv /\ LogTree
      /\ \A q \in Replicas : /\ replica[q].current_round \in Nat
                             /\ replica'[q].current_round \in Nat
                             /\ replica[q].current_round <= replica'[q].current_round
  BY TurnFacts
<1>3. Elected \subseteq Elected'
  BY <1>2, GrowsKeeps
<1>4. u <= replica'[s].current_round
  BY DEF Base, ElectionInv, GrantsRemembered
<1> HIDE DEF l, s, u
<1>5. \/ g \in granted /\ u <= replica[l].current_round
      \/ /\ g = Promise(u, r, r) /\ s = r /\ l = r /\ u = new.current_round
         /\ replica[r].current_round < u /\ SameStore(new, replica[r])
      \/ \E x \in Replicas : \E m \in InTransit(channel, x, r) :
            /\ m.type = "probe" /\ u = m.round /\ s = r /\ l = m.leader
            /\ u = new.current_round /\ SameStore(new, replica[r])
            /\ LeaderIsUpToDate(replica[r], m.last_log_index, m.last_log_round)
  <2>1. CASE g \in granted
    BY <2>1 DEF VoteInv, Votes, l, u
  <2>2. CASE g \notin granted
    <3>1. Grants(r, new, g) /\ SameStore(new, replica[r])
      BY <2>2 DEF Turn
    <3>2. \A a, b, c : /\ Promise(a, b, c).round = a /\ Promise(a, b, c).server = b
                       /\ Promise(a, b, c).leader = c
      BY DEF Promise
    <3>3. CASE g = Promise(new.current_round, r, r) /\ replica[r].current_round < new.current_round
      BY <3>1, <3>2, <3>3 DEF l, s, u
    <3>4. ASSUME NEW x \in Replicas, NEW m \in InTransit(channel, x, r),
                 m.type = "probe", g = Promise(m.round, r, m.leader),
                 new.current_round = m.round,
                 LeaderIsUpToDate(replica[r], m.last_log_index, m.last_log_round)
          PROVE  /\ u = m.round /\ s = r /\ l = m.leader /\ u = new.current_round
      BY <3>2, <3>4 DEF l, s, u
    <3> QED BY <3>1, <3>3, <3>4 DEF Grants
  <2> QED BY <2>1, <2>2
<1>6. CASE g \in granted /\ u <= replica[l].current_round
  <2>1. u <= replica'[l].current_round
    BY <1>1, <1>2, <1>6
  <2>2. ASSUME replica'[l].role = "candidate", replica'[l].current_round = u, u \notin Elected'
        PROVE  VoteRight(s, u, replica[l])'
    <3>1. /\ replica[l].role = "candidate"
          /\ replica[l].current_round = replica'[l].current_round
          /\ LastLogIndex(replica'[l]) = LastLogIndex(replica[l])
          /\ LastLogRound(replica'[l]) = LastLogRound(replica[l])
      BY <1>1, <1>6, <2>2, CandidateKeeps
    <3>2. u \notin Elected
      BY <1>3, <2>2
    <3>3. VoteRight(s, u, replica[l])
      BY <1>6, <2>2, <3>1, <3>2 DEF VoteInv, Votes, l, u, s
    <3>4. \A t \in Elected', k \in Slots :
             t < u /\ Holds(s, t, k)' => Superseded(t, k, u)' \/ TipCovers(replica'[l], t, k)
      BY <1>1, <1>4, <3>1, <3>3, VoteStays
    <3> QED BY <3>4 DEF VoteRight
  <2> QED BY <2>1, <2>2 DEF l, s, u
<1>7. CASE /\ g = Promise(u, r, r) /\ s = r /\ l = r /\ u = new.current_round
           /\ replica[r].current_round < u /\ SameStore(new, replica[r])
  <2>1. u <= replica'[l].current_round
    BY <1>1, <1>2, <1>7
  <2>2. VoteRight(r, u, replica[r])
    BY <1>1, <1>2, <1>7, OwnTip
  <2>3. LastLogIndex(new) = LastLogIndex(replica[r]) /\ LastLogRound(new) = LastLogRound(replica[r])
    BY <1>7, SameStoreTip DEF SameTip
  <2>4. \A t \in Elected', k \in Slots :
           t < u /\ Holds(r, t, k)' => Superseded(t, k, u)' \/ TipCovers(new, t, k)
    BY <1>1, <1>4, <1>7, <2>2, <2>3, VoteStays
  <2>5. VoteRight(s, u, replica[l])'
    BY <1>2, <1>7, <2>4 DEF VoteRight
  <2> QED BY <2>1, <2>5 DEF l, s, u
<1>8. ASSUME NEW x \in Replicas, NEW m \in InTransit(channel, x, r),
             m.type = "probe", u = m.round, s = r, l = m.leader,
             u = new.current_round, SameStore(new, replica[r]),
             LeaderIsUpToDate(replica[r], m.last_log_index, m.last_log_round)
      PROVE  /\ u <= replica'[l].current_round
             /\ /\ replica'[l].role = "candidate"
                /\ replica'[l].current_round = u
                /\ u \notin Elected'
                => VoteRight(s, u, replica[l])'
  <2>1. ProbeTip(m)
    BY <1>8 DEF VoteInv
  <2>2. u <= replica[l].current_round
    BY <1>8, <2>1 DEF ProbeTip
  <2>3. u <= replica'[l].current_round
    BY <1>1, <1>2, <2>2
  <2>4. ASSUME replica'[l].role = "candidate", replica'[l].current_round = u, u \notin Elected'
        PROVE  VoteRight(s, u, replica[l])'
    <3>1. /\ replica[l].role = "candidate"
          /\ replica[l].current_round = replica'[l].current_round
          /\ LastLogIndex(replica'[l]) = LastLogIndex(replica[l])
          /\ LastLogRound(replica'[l]) = LastLogRound(replica[l])
      BY <1>1, <2>2, <2>4, CandidateKeeps
    <3>2. /\ m.last_log_index = LastLogIndex(replica[l])
          /\ m.last_log_round = LastLogRound(replica[l])
      BY <1>8, <2>1, <2>4, <3>1 DEF ProbeTip
    <3>3. VoteRight(r, u, replica[r])
      <4>1. replica[r].current_round <= u /\ u \notin Elected
        BY <1>2, <1>3, <1>8, <2>4
      <4> QED BY <1>1, <4>1, OwnTip
    <3>4. ASSUME NEW t \in Elected, NEW k \in Slots, TipCovers(replica[r], t, k)
          PROVE  TipCovers(replica[l], t, k)
      <4>1. /\ LastLogRound(replica[r]) \in Nat /\ LastLogIndex(replica[r]) \in Nat
            /\ LastLogRound(replica[l]) \in Nat /\ LastLogIndex(replica[l]) \in Nat
        <5>1. ASSUME NEW q \in Replicas
              PROVE  LastLogRound(replica[q]) \in Nat /\ LastLogIndex(replica[q]) \in Nat
          BY <5>1, BaseFacts, HistFacts, Indices DEF HistInv, LogSound
        <5> QED BY <1>1, <5>1
      <4>2. \/ LastLogRound(replica[l]) > LastLogRound(replica[r])
            \/ /\ LastLogRound(replica[l]) = LastLogRound(replica[r])
               /\ LastLogIndex(replica[l]) >= LastLogIndex(replica[r])
        BY <1>8, <3>2 DEF LeaderIsUpToDate
      <4>3. t \in Nat /\ k \in Nat
        BY <1>2, HistFacts, SlotIsNatural
      <4> QED BY <3>4, <4>1, <4>2, <4>3 DEF TipCovers
    <3>5. VoteRight(s, u, replica[l])
      BY <1>8, <3>3, <3>4 DEF VoteRight
    <3>6. \A t \in Elected', k \in Slots :
             t < u /\ Holds(s, t, k)' => Superseded(t, k, u)' \/ TipCovers(replica'[l], t, k)
      BY <1>1, <1>4, <3>1, <3>5, VoteStays
    <3> QED BY <3>6 DEF VoteRight
  <2> QED BY <2>3, <2>4
<1> QED BY <1>5, <1>6, <1>7, <1>8 DEF l, s, u

\* The winner of a round has everything its electors had stored.
LEMMA WinnerHasAll ==
  ASSUME Base, HistInv, Base', NEW r \in Replicas, NEW new \in ReplicaState, Turn(r, new),
         NEW L \in Log, Wins(r, new, L),
         NEW s \in Replicas, VoteRight(s, new.current_round, replica[r])
  PROVE  LeaderHasAll(s, new.current_round)'
<1> DEFINE old == replica[r]
           u == new.current_round
           tip == LastLogRound(old)
           last == LastLogIndex(old)
<1>1. /\ HistEffect(r, new) /\ Grows /\ TypeInv /\ LogTree /\ replica'[r] = new
      /\ u \in Nat /\ old.current_round \in Nat /\ old.current_round <= u
  BY TurnFacts
<1>2. /\ u \notin Elected /\ Agree(leaderLog[tip], L, last)
      /\ leaderLog' = [leaderLog EXCEPT ![u] = L]
  BY DEF Wins
<1>3. /\ old \in ReplicaState /\ Contiguous(old) /\ LogSound(r) /\ last \in Nat
      /\ u \in Rounds /\ leaderLog \in [Rounds -> Log]
  <2>1. old \in ReplicaState /\ Contiguous(old) /\ LogSound(r)
    BY BaseFacts DEF HistInv
  <2> QED BY <1>1, <2>1, Indices, TypeFacts DEF HistoryTyped, ReplicaState
<1>4. /\ tip \in Elected /\ tip \in Nat /\ PrefixOf(old, leaderLog[tip])
      /\ leaderLog[tip] \in Log /\ tip <= old.current_round
  BY <1>1, <1>3, HistFacts DEF LogSound
<1>5. tip < u
  BY <1>1, <1>2, <1>4
<1> HIDE DEF u
<1> SUFFICES ASSUME NEW t \in Elected', NEW k \in Slots, t < u, Holds(s, t, k)'
             PROVE  Superseded(t, k, u)' \/ leaderLog'[u][k] = leaderLog'[t][k]
  BY DEF LeaderHasAll, u
<1>6. t \in Nat
  BY NextTypes DEF Base
<1>7. /\ t \in Elected /\ Holds(s, t, k)
      /\ leaderLog[t][k] # Absent /\ leaderLog'[t][k] = leaderLog[t][k]
  <2>1. s = r => t # new.current_round
    BY <1>1, <1>6 DEF u
  <2> QED BY <1>1, <2>1, HeldBefore
<1>8. leaderLog[t][k].round = t
  BY <1>7 DEF Holds
<1>9. Superseded(t, k, u) \/ TipCovers(old, t, k)
  BY <1>7 DEF VoteRight, u
<1>10. CASE Superseded(t, k, u)
  BY <1>1, <1>7, <1>10, SupersededStays
<1>11. leaderLog'[u] = L
  BY <1>2, <1>3
<1>12. ASSUME k <= last, leaderLog[tip][k] = leaderLog[t][k]
       PROVE  leaderLog'[u][k] = leaderLog'[t][k]
  BY <1>2, <1>7, <1>11, <1>12 DEF Agree
<1> HIDE DEF tip, last, old
<1>13. CASE tip = t /\ last >= k
  BY <1>3, <1>12, <1>13, SlotIsNatural
<1>14. CASE tip > t
  <2>1. CASE leaderLog[tip][k] # leaderLog[t][k]
    <3>1. Superseded(t, k, u)
      BY <1>4, <1>5, <1>6, <1>14, <2>1 DEF Superseded
    <3> QED BY <1>1, <1>7, <3>1, SupersededStays
  <2>2. CASE leaderLog[tip][k] = leaderLog[t][k]
    <3>1. last # 0
      <4>1. last = 0 => tip = 0
        BY <1>3, <1>4, TipRound DEF tip, last
      <4> QED BY <1>6, <1>14, <4>1
    <3>2. /\ last \in Slots /\ leaderLog[tip][last] # Absent
          /\ tip = leaderLog[tip][last].round
      BY <1>3, <1>4, <3>1, TipRound DEF tip, last
    <3>3. k < last
      <4>1. last <= k => tip <= t
        <5>1. last <= k => leaderLog[tip][last].round <= leaderLog[tip][k].round
          BY <1>1, <1>4, <1>7, <2>2, <3>2, TreeRounds
        <5> QED BY <1>8, <2>2, <3>2, <5>1
      <4> QED BY <1>3, <1>4, <1>6, <1>14, <4>1, SlotIsNatural
    <3> QED BY <1>3, <1>12, <2>2, <3>3, SlotIsNatural
  <2> QED BY <2>1, <2>2
<1>15. Superseded(t, k, u) \/ tip > t \/ (tip = t /\ last >= k)
  BY <1>9 DEF TipCovers, tip, last
<1> QED BY <1>10, <1>13, <1>14, <1>15

LEMMA ElectorsKept ==
  ASSUME Base, HistInv, VoteInv, Base', NEW r \in Replicas, NEW new \in ReplicaState,
         Turn(r, new)
  PROVE  Electors'
<1>1. /\ HistEffect(r, new) /\ Grows /\ TypeInv /\ LogTree /\ replica'[r] = new
      /\ \A q \in Replicas : /\ replica[q].current_round \in Nat
                             /\ replica'[q].current_round \in Nat
                             /\ replica[q].current_round <= replica'[q].current_round
  BY TurnFacts
<1> SUFFICES ASSUME NEW u \in Elected'
             PROVE  \E Q \in SUBSET Replicas :
                       /\ IsQuorum(Q)
                       /\ \A s \in Q : u <= replica'[s].current_round /\ LeaderHasAll(s, u)'
  BY DEF Electors
<1>2. u \in Nat
  BY NextTypes DEF Base
<1>3. CASE u \in Elected
  <2>1. PICK Q \in SUBSET Replicas :
           IsQuorum(Q) /\ \A s \in Q : u <= replica[s].current_round /\ LeaderHasAll(s, u)
    BY <1>3 DEF VoteInv, Electors
  <2>2. ASSUME NEW s \in Q
        PROVE  u <= replica'[s].current_round /\ LeaderHasAll(s, u)'
    <3>1. u <= replica[s].current_round /\ LeaderHasAll(s, u) /\ s \in Replicas
      BY <2>1, <2>2
    <3>2. u <= replica'[s].current_round
      BY <1>1, <1>2, <3>1
    <3>3. ASSUME NEW t \in Elected', NEW k \in Slots, t < u, Holds(s, t, k)'
          PROVE  Superseded(t, k, u)' \/ leaderLog'[u][k] = leaderLog'[t][k]
      <4>1. t \in Nat
        BY NextTypes DEF Base
      <4>2. s = r => t # new.current_round
        BY <1>1, <1>2, <3>2, <3>3, <4>1
      <4>3. /\ t \in Elected /\ Holds(s, t, k)
            /\ leaderLog[t][k] # Absent /\ leaderLog'[t][k] = leaderLog[t][k]
        BY <1>1, <3>1, <3>3, <4>2, HeldBefore
      <4>4. Superseded(t, k, u) => Superseded(t, k, u)'
        BY <1>1, <4>3, SupersededStays
      <4>5. Superseded(t, k, u) \/ leaderLog[u][k] = leaderLog[t][k]
        BY <3>1, <3>3, <4>3 DEF LeaderHasAll
      <4>6. leaderLog[u][k] = leaderLog[t][k] => leaderLog'[u][k] = leaderLog[u][k]
        BY <1>1, <1>3, <4>3 DEF Grows
      <4> QED BY <4>3, <4>4, <4>5, <4>6
    <3> QED BY <3>2, <3>3 DEF LeaderHasAll
  <2> QED BY <2>1, <2>2
<1>4. CASE u \notin Elected
  <2>1. PICK L \in Log : Wins(r, new, L)
    BY <1>1, <1>4, ElectedAfter DEF HistEffect, HistoryStep
  <2>2. u = new.current_round
    BY <1>1, <1>4, <2>1, ElectedAfter
  <2>3. ASSUME NEW s \in Replicas, VoteRight(s, u, replica[r])
        PROVE  LeaderHasAll(s, u)'
    <3>1. LeaderHasAll(s, new.current_round)'
      BY <2>1, <2>2, <2>3, WinnerHasAll
    <3> QED BY <2>2, <3>1
  <2>4. CASE /\ replica[r].role = "candidate" /\ granted' = granted
             /\ replica[r].current_round = new.current_round
    <3>1. replica'[r].role = "leader" /\ u # 0
      BY <1>1, <1>4, <2>1 DEF Wins, LogTree
    <3>2. PICK Q \in SUBSET Replicas :
             IsQuorum(Q) /\ \A p \in Q : Promise(u, p, r) \in granted
      BY <1>1, <2>2, <2>4, <3>1 DEF Base, ElectionInv, Leaders
    <3>3. ASSUME NEW s \in Q
          PROVE  u <= replica'[s].current_round /\ LeaderHasAll(s, u)'
      <4> DEFINE g == Promise(u, s, r)
      <4>1. /\ g \in granted /\ s \in Replicas
            /\ g.round = u /\ g.server = s /\ g.leader = r
        BY <3>2, <3>3 DEF Promise
      <4> HIDE DEF g
      <4>2. u <= replica'[s].current_round
        BY <2>4, <4>1 DEF Base, ElectionInv, GrantsRemembered
      <4>3. VoteRight(s, u, replica[r])
        BY <1>4, <2>2, <2>4, <4>1 DEF VoteInv, Votes
      <4> QED BY <2>3, <4>1, <4>2, <4>3
    <3> QED BY <3>2, <3>3
  <2>5. CASE replica[r].current_round < new.current_round /\ IsQuorum({r})
    <3>1. VoteRight(r, u, replica[r])
      BY <1>1, <1>2, <2>2, <2>5, OwnTip
    <3>2. LeaderHasAll(r, u)' /\ u <= replica'[r].current_round
      BY <1>1, <1>2, <2>2, <2>3, <3>1
    <3>3. {r} \in SUBSET Replicas /\ \A s \in {r} : s = r
      OBVIOUS
    <3> QED BY <2>5, <3>2, <3>3
  <2> QED BY <2>1, <2>4, <2>5 DEF Turn
<1> QED BY <1>3, <1>4

LEMMA VoteKept ==
  ASSUME Base, HistInv, VoteInv, Base', NEW r \in Replicas, NEW new \in ReplicaState,
         Turn(r, new)
  PROVE  VoteInv'
BY VotesKept, ElectorsKept, ProbesKept DEF VoteInv

LEMMA VoteInit ==
  ASSUME Init
  PROVE  VoteInv
<1>1. acked = {Acked(InitialLeader, 0, 0)} /\ granted = {}
  BY DEF Init
<1>2. Elected = {0}
  BY <1>1 DEF Elected, Acked
<1>3. \A s \in Replicas : 0 <= replica[s].current_round
  BY TypeInit, TypeFacts, RoundIsNatural
<1>4. IsQuorum(Replicas)
  <2>1. Cardinality(Replicas) \in Nat /\ Cardinality(Replicas) # 0
    BY ReplicasAssumption, FS_CardinalityType, FS_EmptySet
  <2> QED BY <2>1 DEF IsQuorum
<1>5. \A s \in Replicas : LeaderHasAll(s, 0)
  BY <1>2 DEF LeaderHasAll
<1>6. Electors
  BY <1>2, <1>3, <1>4, <1>5 DEF Electors
<1>7. Votes
  BY <1>1 DEF Votes
<1>8. \A x, y \in Replicas : InTransit(channel, x, y) = {}
  BY DEF Init, InTransit
<1> QED BY <1>6, <1>7, <1>8 DEF VoteInv

-----------------------------------------------------------------------------
(* What is chosen *)

\* A quorum has stored the entry that the leader of round t appended at slot k.
Chosen(t, k) ==
  /\ t \in Elected
  /\ leaderLog[t][k] # Absent /\ leaderLog[t][k].round = t
  /\ QuorumStores(acked, t, k)

\* The log of the leader of round t is final up to slot c.
Decided(t, c) == t \in Elected /\ (c = 0 \/ \E k \in Slots : c <= k /\ Chosen(t, k))

\* Every later leader has a chosen entry.
LEMMA ChosenStays ==
  ASSUME Base, HistInv, VoteInv, NEW t, NEW k \in Slots, Chosen(t, k),
         NEW u \in Elected, t < u
  PROVE  leaderLog[u][k] = leaderLog[t][k]
<1> DEFINE S == {v \in Elected : t < v /\ leaderLog[v][k] # leaderLog[t][k]}
<1>1. \A v \in Elected : v \in Nat
  BY HistFacts DEF Base
<1> SUFFICES ASSUME S # {} PROVE FALSE
  OBVIOUS
<1>2. PICK v \in S : \A w \in S : v <= w
  <2>1. S \in SUBSET Nat
    BY <1>1
  <2> HIDE DEF S
  <2>2. Min(S) \in S /\ \A w \in S : Min(S) <= w
    BY <2>1, MinOfNaturals
  <2> QED BY <2>2
<1>3. PICK P \in SUBSET Replicas :
         IsQuorum(P) /\ \A s \in P : Stores(acked, s, t, k)
  BY DEF Chosen, QuorumStores
<1>4. PICK Q \in SUBSET Replicas :
         IsQuorum(Q) /\ \A s \in Q : LeaderHasAll(s, v)
  BY <1>2 DEF VoteInv, Electors
<1>5. PICK s \in Replicas : s \in P /\ s \in Q
  BY <1>3, <1>4, QuorumsIntersect
<1>6. Holds(s, t, k)
  BY <1>3, <1>5 DEF Holds, Chosen
<1>7. Superseded(t, k, v) \/ leaderLog[v][k] = leaderLog[t][k]
  BY <1>2, <1>4, <1>5, <1>6 DEF LeaderHasAll, Chosen
<1>8. ASSUME NEW w \in Elected, t < w, w < v, leaderLog[w][k] # leaderLog[t][k]
      PROVE  FALSE
  BY <1>1, <1>2, <1>8
<1> QED BY <1>2, <1>7, <1>8 DEF Superseded

\* The leader of the round and every later one agree up to there.
LEMMA DecidedStays ==
  ASSUME Base, HistInv, VoteInv, NEW t, NEW c \in Nat, Decided(t, c),
         NEW u \in Elected, t <= u
  PROVE  /\ Agree(leaderLog[u], leaderLog[t], c)
         /\ \A j \in Slots : j <= c => leaderLog[u][j] # Absent
<1>1. CASE c = 0
  BY <1>1, SlotIsNatural DEF Agree
<1>2. CASE c # 0
  <2>1. PICK k \in Slots : c <= k /\ Chosen(t, k)
    BY <1>2 DEF Decided
  <2>2. t \in Elected /\ t \in Nat /\ u \in Nat /\ LogTree
    BY HistFacts DEF Decided, Base, HistInv
  <2>3. leaderLog[u][k] = leaderLog[t][k]
    BY <2>1, <2>2, ChosenStays
  <2>4. leaderLog[u][k] # Absent /\ leaderLog[u][k].round = t
    BY <2>1, <2>3 DEF Chosen
  <2>5. ASSUME NEW j \in Slots, j <= c
        PROVE  leaderLog[u][j] # Absent /\ leaderLog[u][j] = leaderLog[t][j]
    <3>1. j <= k
      BY <2>1, <2>5, SlotIsNatural
    <3> QED BY <2>2, <2>4, <3>1 DEF LogTree
  <2> QED BY <2>5 DEF Agree
<1> QED BY <1>1, <1>2

\* What is decided twice is the same.
LEMMA DecidedAgree ==
  ASSUME Base, HistInv, VoteInv, NEW t, NEW c \in Nat, Decided(t, c),
         NEW v, NEW d \in Nat, Decided(v, d), NEW j \in Slots, j <= c, j <= d
  PROVE  leaderLog[t][j] = leaderLog[v][j]
<1>1. t \in Elected /\ v \in Elected /\ t \in Nat /\ v \in Nat
  BY HistFacts DEF Decided, Base
<1>2. CASE t <= v
  BY <1>1, <1>2, DecidedStays DEF Agree
<1>3. CASE v <= t
  BY <1>1, <1>3, DecidedStays DEF Agree
<1> QED BY <1>1, <1>2, <1>3

LEMMA DecidedBelow ==
  ASSUME NEW t, NEW c \in Nat, Decided(t, c), NEW d \in Nat, d <= c
  PROVE  Decided(t, d)
<1>1. ASSUME NEW k \in Slots, c <= k
      PROVE  d <= k
  BY <1>1, SlotIsNatural
<1> QED BY <1>1 DEF Decided

LEMMA DecidedKept ==
  ASSUME TypeInv, LogTree, Grows, NEW t, NEW c, Decided(t, c)
  PROVE  Decided(t, c)'
<1>1. t \in Elected /\ t \in Elected'
  BY GrowsKeeps DEF Decided
<1>2. ASSUME NEW k \in Slots, Chosen(t, k)
      PROVE  Chosen(t, k)'
  <2>1. leaderLog'[t][k] = leaderLog[t][k]
    BY <1>1, <1>2 DEF Grows, Chosen
  <2>2. QuorumStores(acked', t, k)
    BY <1>2 DEF Chosen, QuorumStores, Stores, Grows
  <2> QED BY <1>1, <1>2, <2>1, <2>2 DEF Chosen
<1> QED BY <1>1, <1>2 DEF Decided

LEMMA DecidedBelowNext ==
  ASSUME NEW t, NEW c \in Nat, Decided(t, c)', NEW d \in Nat, d <= c
  PROVE  Decided(t, d)'
<1>1. ASSUME NEW k \in Slots, c <= k
      PROVE  d <= k
  BY <1>1, SlotIsNatural
<1> QED BY <1>1 DEF Decided

-----------------------------------------------------------------------------
(* What is committed, trimmed, executed and answered *)

\* What q knows to be committed is decided, and it is in q's log.
Committed(q) ==
  LET st == replica[q]
  IN  \E t \in Elected :
        /\ t <= st.current_round /\ Decided(t, st.commit_index)
        /\ Agree(leaderLog[LastLogRound(st)], leaderLog[t], st.commit_index)

\* The first n slots are decided, and every server has stored them.
Shared(n) ==
  n = 0 \/ \E u \in Elected : /\ \E t \in Elected : t <= u /\ Decided(t, n)
                              /\ \A s \in Replicas : Stores(acked, s, u, n)

\* A proposal says what is decided and shared.
Announces(m) ==
  m.type = "propose" =>
    /\ \E t \in Elected : t <= m.round /\ Decided(t, m.decide_through)
    /\ Shared(m.trim_through)

\* A reply is the first slot of the request, and that slot is decided.
Answer(x) ==
  /\ x.slot \in Slots
  /\ \E t \in Elected : Decided(t, x.slot) /\ First(leaderLog[t], x.slot, x.serial, x.slot)

CommitInv ==
  /\ \A q \in Replicas : /\ Committed(q) /\ Shared(replica[q].trim_through)
                         /\ CacheOf(replica[q], leaderLog[LastLogRound(replica[q])])
  /\ \A x, y \in Replicas : \A m \in InTransit(channel, x, y) : Announces(m)
  /\ \A x \in replies : Answer(x)

\* A follower that reads a commit index from a proposal has taken over the log up to it:
\* the batch of entries that a leader sends reaches as far as its commit index.
ProposalsCover ==
  \A x, y \in Replicas : \A m \in InTransit(channel, x, y) :
    m.type = "propose" => m.decide_through <= LastProposed(m)

LEMMA SharedKept ==
  ASSUME TypeInv, LogTree, Grows, NEW n, Shared(n)
  PROVE  Shared(n)'
<1>1. CASE n = 0
  BY <1>1 DEF Shared
<1>2. ASSUME NEW u \in Elected, NEW t \in Elected, t <= u, Decided(t, n),
             \A s \in Replicas : Stores(acked, s, u, n)
      PROVE  Shared(n)'
  <2>1. u \in Elected' /\ t \in Elected'
    BY GrowsKeeps
  <2>2. Decided(t, n)'
    BY <1>2, DecidedKept
  <2>3. \A s \in Replicas : Stores(acked', s, u, n)
    BY <1>2 DEF Stores, Grows
  <2> QED BY <1>2, <2>1, <2>2, <2>3 DEF Shared
<1> QED BY <1>1, <1>2 DEF Shared

LEMMA SharedBelowNext ==
  ASSUME TypeInv', NEW n \in Nat, Shared(n)', NEW j \in Nat, j <= n
  PROVE  Shared(j)'
<1>1. CASE n = 0
  BY <1>1 DEF Shared
<1>2. ASSUME NEW u \in Elected', NEW t \in Elected', t <= u, Decided(t, n)',
             \A s \in Replicas : Stores(acked', s, u, n)
      PROVE  Shared(j)'
  <2>1. Decided(t, j)'
    BY <1>2, DecidedBelowNext
  <2>2. \A a \in acked' : a.index \in Nat
    BY NextTypes
  <2>3. \A s \in Replicas : Stores(acked', s, u, j)
    BY <1>2, <2>2 DEF Stores
  <2> QED BY <1>2, <2>1, <2>3 DEF Shared
<1> QED BY <1>1, <1>2 DEF Shared

\* Two logs that a state's log is a prefix of agree on it.
LEMMA PrefixesAgree ==
  ASSUME NEW st \in ReplicaState, Contiguous(st), NEW A \in Log, NEW B \in Log,
         PrefixOf(st, A), PrefixOf(st, B), Matching(A, B)
  PROVE  Agree(A, B, LastLogIndex(st))
<1> DEFINE last == LastLogIndex(st)
<1>1. CASE last = 0
  BY <1>1, SlotIsNatural DEF Agree
<1>2. CASE last # 0
  <2>1. /\ last \in Slots /\ A[last] # Absent /\ B[last] # Absent
        /\ A[last].round = B[last].round
    BY <1>2, TipRound
  <2> HIDE DEF last
  <2> QED BY <2>1 DEF Matching, last
<1> QED BY <1>1, <1>2

LEMMA AgreeBelow ==
  ASSUME NEW A, NEW B, NEW n \in Nat, Agree(A, B, n), NEW j \in Nat, j <= n
  PROVE  Agree(A, B, j)
<1>1. ASSUME NEW k \in Slots, k <= j
      PROVE  k <= n
  BY <1>1, SlotIsNatural
<1> QED BY <1>1 DEF Agree

LEMMA CacheAgrees ==
  ASSUME NEW st \in ReplicaState, NEW A, NEW B, CacheOf(st, A),
         Agree(A, B, st.last_applied)
  PROVE  CacheOf(st, B)
<1> SUFFICES ASSUME NEW s \in Serials
             PROVE  First(B, st.last_applied, s, st.response_cache[s])
  BY DEF CacheOf
<1> DEFINE c == st.response_cache[s]
           n == st.last_applied
<1>1. First(A, n, s, c) /\ n \in Nat
  BY Indices DEF CacheOf
<1> HIDE DEF c, n
<1>2. \A k \in Slots : k <= n => A[k] = B[k]
  BY DEF Agree, n
<1>3. CASE c = 0
  BY <1>1, <1>2, <1>3 DEF First, c, n
<1>4. CASE c # 0
  <2>1. c \in Slots /\ c <= n /\ A[c].serial = s /\ \A k \in Slots : k < c => A[k].serial # s
    BY <1>1, <1>4 DEF First
  <2>2. \A k \in Slots : k < c => k <= n
    BY <1>1, <2>1, SlotIsNatural
  <2> QED BY <1>2, <1>4, <2>1, <2>2 DEF First, c, n
<1> QED BY <1>3, <1>4

\* A log's tip is where its entries come from, and what it holds is there for good.
LEMMA TipFacts ==
  ASSUME Base, HistInv, NEW q \in Replicas
  PROVE  LET st == replica[q]
             tip == LastLogRound(st) IN
         /\ st \in ReplicaState /\ Contiguous(st)
         /\ tip \in Elected /\ leaderLog[tip] \in Log /\ PrefixOf(st, leaderLog[tip])
         /\ st.commit_index \in Nat /\ st.last_applied = st.commit_index
         /\ LastLogIndex(st) \in Nat /\ st.commit_index <= LastLogIndex(st)
         /\ st.current_round \in Nat /\ st.trim_through \in Nat
         /\ \A k \in Slots : k <= LastLogIndex(st) => leaderLog[tip][k] # Absent
         /\ Grows => \A k \in Slots : k <= LastLogIndex(st) =>
                        leaderLog'[tip][k] = leaderLog[tip][k]
<1> DEFINE st == replica[q]
           tip == LastLogRound(st)
<1>1. /\ st \in ReplicaState /\ Contiguous(st) /\ st.last_applied = st.commit_index
      /\ TypeInv /\ LogSound(q)
  BY BaseFacts DEF HistInv
<1>2. tip \in Elected /\ leaderLog[tip] \in Log /\ PrefixOf(st, leaderLog[tip])
  BY <1>1, HistFacts DEF LogSound
<1>3. /\ st.commit_index \in Nat /\ LastLogIndex(st) \in Nat
      /\ st.commit_index <= LastLogIndex(st) /\ st.current_round \in Nat
      /\ st.trim_through \in Nat
  BY <1>1, Indices DEF Contiguous
<1>4. \A k \in Slots : k <= LastLogIndex(st) => leaderLog[tip][k] # Absent
  BY <1>2 DEF PrefixOf
<1>5. Grows => \A k \in Slots : k <= LastLogIndex(st) =>
                  leaderLog'[tip][k] = leaderLog[tip][k]
  <2> HIDE DEF tip, st
  <2> QED BY <1>2, <1>4 DEF Grows
<1> QED BY <1>1, <1>2, <1>3, <1>4, <1>5

LEMMA TipFactsNext ==
  ASSUME Base', HistInv', NEW q \in Replicas, NEW st, st = replica'[q]
  PROVE  LET tip == LastLogRound(st) IN
         /\ st \in ReplicaState /\ Contiguous(st)
         /\ tip \in Elected' /\ leaderLog'[tip] \in Log /\ PrefixOf(st, leaderLog'[tip])
         /\ st.commit_index \in Nat /\ st.last_applied = st.commit_index
         /\ LastLogIndex(st) \in Nat /\ st.commit_index <= LastLogIndex(st)
         /\ st.current_round \in Nat /\ st.trim_through \in Nat
<1>1. st \in ReplicaState /\ st.current_round \in Nat
  BY NextTypes DEF Base
<1>2. Contiguous(st) /\ st.last_applied = st.commit_index
  <2>1. LogContiguous'
    BY DEF Base, LogInv
  <2>2. /\ st.trim_through <= st.last_applied /\ st.last_applied = st.commit_index
        /\ st.commit_index <= LastLogIndex(st)
        /\ \A k \in Slots : st.log[k] # Absent <=>
                            st.trim_through < k /\ k <= LastLogIndex(st)
    BY <2>1 DEF LogContiguous
  <2> QED BY <1>1, <2>2, Indices DEF Contiguous
<1>3. LastLogRound(st) \in Elected' /\ PrefixOf(st, leaderLog'[LastLogRound(st)])
  BY DEF HistInv, LogSound
<1>4. leaderLog'[LastLogRound(st)] \in Log
  BY <1>3, NextTypes DEF Base
<1>5. /\ st.commit_index \in Nat /\ LastLogIndex(st) \in Nat
      /\ st.commit_index <= LastLogIndex(st) /\ st.trim_through \in Nat
  BY <1>1, <1>2, Indices DEF Contiguous
<1> QED BY <1>1, <1>2, <1>3, <1>4, <1>5

\* The leaders' logs match each other.
LEMMA NextMatching ==
  ASSUME HistInv', NEW u \in Elected', NEW v \in Elected'
  PROVE  Matching(leaderLog'[u], leaderLog'[v])
BY DEF HistInv, LogTree, Matching, Agree

LEMMA CommittedNext ==
  ASSUME NEW q \in Replicas, NEW st, st = replica'[q], NEW t \in Elected',
         t <= st.current_round, NEW c, c = st.commit_index, Decided(t, c)',
         Agree(leaderLog'[LastLogRound(st)], leaderLog'[t], c)
  PROVE  Committed(q)'
BY DEF Committed, Decided

LEMMA SharedNext ==
  ASSUME NEW q \in Replicas, NEW n, n = replica'[q].trim_through, Shared(n)'
  PROVE  Shared(replica[q].trim_through)'
BY DEF Shared, Decided

\* A replica whose store does not change.
LEMMA StoreKeepsCommit ==
  ASSUME Base, HistInv, VoteInv, CommitInv, Base', Grows, NEW q \in Replicas,
         SameStore(replica'[q], replica[q]),
         replica[q].current_round <= replica'[q].current_round
  PROVE  /\ Committed(q)' /\ Shared(replica[q].trim_through)'
         /\ CacheOf(replica[q], leaderLog[LastLogRound(replica[q])])'
<1> DEFINE old == replica[q]
           new == replica'[q]
           tip == LastLogRound(old)
<1>0. PICK c : c = old.commit_index
  OBVIOUS
<1>1. /\ old \in ReplicaState /\ tip \in Elected /\ c \in Nat
      /\ old.last_applied = c /\ LastLogIndex(old) \in Nat /\ c <= LastLogIndex(old)
      /\ old.current_round \in Nat
      /\ \A k \in Slots : k <= LastLogIndex(old) => leaderLog[tip][k] # Absent
      /\ \A k \in Slots : k <= LastLogIndex(old) => leaderLog'[tip][k] = leaderLog[tip][k]
  BY <1>0, TipFacts
<1>2. new \in ReplicaState /\ new.current_round \in Nat
  BY NextTypes DEF Base
<1>3. SameTip(old, new)
  BY SameStoreTip
<1>4. /\ LastLogRound(new) = tip /\ new.commit_index = c /\ new.last_applied = c
      /\ new.trim_through = old.trim_through /\ new.response_cache = old.response_cache
  BY <1>0, <1>1, <1>3 DEF SameStore, SameTip
<1>5. TypeInv /\ LogTree
  BY DEF Base, HistInv
<1>6. PICK t \in Elected : /\ t <= old.current_round /\ Decided(t, c)
                           /\ Agree(leaderLog[tip], leaderLog[t], c)
  BY <1>0 DEF CommitInv, Committed
<1>7. t \in Nat
  BY <1>5, HistFacts
<1> HIDE DEF old, new, tip
<1>8. t \in Elected' /\ t <= new.current_round /\ Decided(t, c)'
  <2>1. old.current_round <= new.current_round
    BY DEF old, new
  <2>2. Decided(t, c)' /\ Elected \subseteq Elected'
    BY <1>5, <1>6, DecidedKept, GrowsKeeps
  <2> QED BY <1>1, <1>2, <1>6, <1>7, <2>1, <2>2
<1>9. \A k \in Slots : k <= c => k <= LastLogIndex(old)
  BY <1>1, SlotIsNatural
<1>10. Agree(leaderLog'[tip], leaderLog'[t], c)
  <2> SUFFICES ASSUME NEW k \in Slots, k <= c
               PROVE  leaderLog'[tip][k] = leaderLog'[t][k]
    BY DEF Agree
  <2>1. /\ leaderLog[tip][k] # Absent /\ leaderLog[tip][k] = leaderLog[t][k]
        /\ leaderLog'[tip][k] = leaderLog[tip][k]
    BY <1>1, <1>6, <1>9 DEF Agree
  <2> QED BY <1>6, <2>1 DEF Grows
<1>11. Committed(q)'
  BY <1>4, <1>8, <1>10, CommittedNext DEF new
<1>12. Shared(replica[q].trim_through)'
  <2>1. Shared(old.trim_through)
    BY DEF CommitInv, old
  <2>2. Shared(new.trim_through)
    BY <1>4, <2>1
  <2>3. PICK n : n = new.trim_through
    OBVIOUS
  <2>4. Shared(n)'
    BY <1>5, <2>2, <2>3, SharedKept
  <2> QED BY <2>3, <2>4, SharedNext DEF new
<1>13. CacheOf(replica[q], leaderLog[LastLogRound(replica[q])])'
  <2>1. CacheOf(old, leaderLog[tip])
    BY DEF CommitInv, old, tip
  <2>2. CacheOf(new, leaderLog[tip])
    BY <1>1, <1>4, <2>1 DEF CacheOf
  <2>3. Agree(leaderLog[tip], leaderLog'[tip], new.last_applied)
    BY <1>1, <1>4, <1>9 DEF Agree
  <2>4. CacheOf(new, leaderLog'[LastLogRound(new)])
    BY <1>2, <1>4, <2>2, <2>3, CacheAgrees
  <2> QED BY <2>4 DEF CacheOf, new
<1> QED BY <1>11, <1>12, <1>13

\* A leader commits what a quorum has stored in its round, and with it all before;
\* it trims what everyone has, and it answers what is committed.
LEMMA LeaderKeepsCommit ==
  ASSUME Base, HistInv, VoteInv, CommitInv, Base', HistInv',
         NEW r \in Replicas, NEW new \in ReplicaState, Turn(r, new), LeaderTurn(r, new)
  PROVE  /\ Committed(r)' /\ Shared(replica[r].trim_through)'
         /\ CacheOf(replica[r], leaderLog[LastLogRound(replica[r])])'
         /\ \A x \in replies' : x \in replies \/ Answer(x)'
<1> DEFINE old == replica[r]
           tip == LastLogRound(old)
           u == new.current_round
           c == new.commit_index
           L == leaderLog'[u]
           L2 == leaderLog'[LastLogRound(new)]
<1>1. Grows /\ TypeInv /\ LogTree /\ new = replica'[r]
  BY TurnFacts
<1>2. /\ old.role = "leader" /\ new.role = "leader" /\ old.current_round = u
      /\ \/ c = old.commit_index
         \/ /\ c \in Slots /\ L[c] # Absent /\ L[c].round = u
            /\ QuorumStores(acked', u, c)
      /\ \/ new.trim_through \in {0, old.trim_through}
         \/ /\ new.trim_through <= c
            /\ \A s \in Replicas : Stores(acked', s, u, new.trim_through)
      /\ CacheOf(old, L) =>
            /\ CacheOf(new, L)
            /\ \A x \in replies' : x \in replies \/ ReplyOf(x, L, c)
  BY DEF LeaderTurn
<1>3. u \in Elected /\ PrefixOf(old, leaderLog[u])
  BY <1>2, LeaderFacts
<1>4. /\ old \in ReplicaState /\ Contiguous(old) /\ tip \in Elected
      /\ PrefixOf(old, leaderLog[tip]) /\ leaderLog[tip] \in Log
      /\ old.commit_index \in Nat /\ old.last_applied = old.commit_index
      /\ LastLogIndex(old) \in Nat /\ old.commit_index <= LastLogIndex(old)
  BY TipFacts
<1>5. /\ Contiguous(new) /\ LastLogRound(new) \in Elected' /\ L2 \in Log
      /\ PrefixOf(new, L2) /\ c \in Nat /\ new.last_applied = c
      /\ LastLogIndex(new) \in Nat /\ c <= LastLogIndex(new)
      /\ u \in Nat /\ new.trim_through \in Nat
  BY <1>1, TipFactsNext
<1>6. u \in Elected' /\ L \in Log
  <2>1. u \in Elected'
    BY <1>1, <1>3, GrowsKeeps
  <2> QED BY <2>1, NextTypes DEF Base
<1>7. Agree(L2, L, c)
  <2>1. PrefixOf(new, L)
    BY <1>1, <1>2 DEF HistInv, Leading
  <2>2. Agree(L2, L, LastLogIndex(new))
    BY <1>5, <1>6, <2>1, PrefixesAgree, NextMatching
  <2> QED BY <1>5, <2>2, AgreeBelow
<1>8. \E t \in Elected' : t <= u /\ Decided(t, c)' /\ Agree(L, leaderLog'[t], c)
  <2>1. CASE c = old.commit_index
    <3>1. PICK t \in Elected : t <= u /\ Decided(t, c)
      BY <1>2, <2>1 DEF CommitInv, Committed
    <3>2. /\ Agree(leaderLog[u], leaderLog[t], c)
          /\ \A j \in Slots : j <= c => leaderLog[u][j] # Absent
      BY <1>3, <1>5, <3>1, DecidedStays
    <3>3. Agree(L, leaderLog'[t], c)
      <4> SUFFICES ASSUME NEW j \in Slots, j <= c
                   PROVE  leaderLog'[u][j] = leaderLog'[t][j]
        BY DEF Agree
      <4>1. leaderLog[u][j] # Absent /\ leaderLog[u][j] = leaderLog[t][j]
        BY <3>2 DEF Agree
      <4> QED BY <1>1, <1>3, <3>1, <4>1 DEF Grows
    <3>4. Decided(t, c)' /\ t \in Elected'
      BY <1>1, <3>1, DecidedKept, GrowsKeeps
    <3> QED BY <3>1, <3>3, <3>4
  <2>2. CASE c \in Slots /\ L[c] # Absent /\ L[c].round = u /\ QuorumStores(acked', u, c)
    <3>1. Chosen(u, c)'
      BY <1>6, <2>2 DEF Chosen
    <3>2. Decided(u, c)'
      BY <1>5, <1>6, <2>2, <3>1 DEF Decided
    <3> QED BY <1>5, <1>6, <3>2 DEF Agree
  <2> QED BY <1>2, <2>1, <2>2
<1>9. PICK t \in Elected' : t <= u /\ Decided(t, c)' /\ Agree(L, leaderLog'[t], c)
  BY <1>8
<1>10. Committed(r)'
  <2>1. Agree(L2, leaderLog'[t], c)
    BY <1>7, <1>9 DEF Agree
  <2> QED BY <1>1, <1>9, <2>1, CommittedNext
<1>11. Shared(replica[r].trim_through)'
  <2> DEFINE n == new.trim_through
  <2>1. CASE n = 0
    <3>1. Shared(n)'
      BY <2>1 DEF Shared
    <3> QED BY <1>1, <3>1, SharedNext
  <2>2. CASE n = old.trim_through
    <3>1. Shared(n)
      BY <2>2 DEF CommitInv
    <3>2. Shared(n)'
      BY <1>1, <3>1, SharedKept
    <3> QED BY <1>1, <3>2, SharedNext
  <2>3. CASE n <= c /\ \A s \in Replicas : Stores(acked', s, u, n)
    <3>1. Decided(t, n)'
      BY <1>5, <1>9, <2>3, DecidedBelowNext
    <3>2. Shared(n)'
      BY <1>6, <1>9, <2>3, <3>1 DEF Shared
    <3> QED BY <1>1, <3>2, SharedNext
  <2> QED BY <1>2, <2>1, <2>2, <2>3
<1>12. CacheOf(old, L)
  <2>1. Agree(leaderLog[tip], leaderLog[u], LastLogIndex(old))
    <3>1. leaderLog[u] \in Log
      BY <1>1, <1>3, HistFacts
    <3> QED BY <1>1, <1>3, <1>4, <3>1, PrefixesAgree, TreeMatching
  <2>2. Agree(leaderLog[tip], L, old.last_applied)
    <3> SUFFICES ASSUME NEW j \in Slots, j <= old.last_applied
                 PROVE  leaderLog[tip][j] = leaderLog'[u][j]
      BY DEF Agree
    <3>1. j <= LastLogIndex(old)
      BY <1>4, SlotIsNatural
    <3>2. leaderLog[tip][j] = leaderLog[u][j] /\ leaderLog[u][j] # Absent
      BY <1>3, <2>1, <3>1 DEF Agree, PrefixOf
    <3> QED BY <1>1, <1>3, <3>2 DEF Grows
  <2>3. CacheOf(old, leaderLog[tip])
    BY DEF CommitInv
  <2> HIDE DEF old, tip, L
  <2> QED BY <1>4, <2>2, <2>3, CacheAgrees
<1>13. CacheOf(replica[r], leaderLog[LastLogRound(replica[r])])'
  <2>1. CacheOf(new, L) /\ Agree(L, L2, new.last_applied)
    BY <1>2, <1>5, <1>7, <1>12 DEF Agree
  <2>2. CacheOf(new, L2)
    <3> HIDE DEF L, L2
    <3> QED BY <2>1, CacheAgrees
  <2> QED BY <1>1, <2>2 DEF CacheOf
<1>14. ASSUME NEW x \in replies', ReplyOf(x, L, c)
       PROVE  Answer(x)'
  <2>1. /\ x.slot \in Slots /\ x.slot \in Nat \ {0} /\ x.slot <= c
        /\ First(L, x.slot, x.serial, x.slot)
    BY <1>14, SlotIsNatural DEF ReplyOf
  <2>2. Decided(t, x.slot)'
    BY <1>5, <1>9, <2>1, DecidedBelowNext
  <2>3. \A j \in Slots : j <= x.slot => L[j] = leaderLog'[t][j]
    BY <1>5, <1>9, <2>1, SlotIsNatural DEF Agree
  <2>4. First(leaderLog'[t], x.slot, x.serial, x.slot)
    <3> HIDE DEF L
    <3>1. L[x.slot].serial = x.serial /\ \A j \in Slots : j < x.slot => L[j].serial # x.serial
      BY <2>1 DEF First
    <3>2. \A j \in Slots : j < x.slot => j <= x.slot
      BY <2>1, SlotIsNatural
    <3> QED BY <2>1, <2>3, <3>1, <3>2 DEF First
  <2> QED BY <1>9, <2>1, <2>2, <2>4 DEF Answer
<1> QED BY <1>2, <1>10, <1>11, <1>12, <1>13, <1>14

\* A follower that takes over a leader's log commits what that leader's proposal
\* announces, which the log then holds.
LEMMA FollowerKeepsCommit ==
  ASSUME Base, HistInv, VoteInv, CommitInv, ProposalsCover, Base', HistInv',
         NEW r \in Replicas, NEW new \in ReplicaState, Turn(r, new), FollowerTurn(r, new)
  PROVE  /\ Committed(r)' /\ Shared(replica[r].trim_through)'
         /\ CacheOf(replica[r], leaderLog[LastLogRound(replica[r])])'
         /\ replies' = replies
<1> DEFINE old == replica[r]
           tip == LastLogRound(old)
           c == new.commit_index
           A == leaderLog[tip]
           L2 == leaderLog[LastLogRound(new)]
<1>1. Grows /\ TypeInv /\ LogTree /\ new = replica'[r]
  BY TurnFacts
<1>2. PICK x \in Replicas : \E m \in InTransit(channel, x, r) :
         /\ m.type = "propose" /\ Takes(r, new, m.round, LastProposed(m))
         /\ new.commit_index = old.commit_index \/ new.commit_index <= m.decide_through
         /\ new.trim_through = old.trim_through \/ new.trim_through <= m.trim_through
         /\ replies' = replies
  BY DEF FollowerTurn
<1>3. PICK m \in InTransit(channel, x, r) :
         /\ m.type = "propose" /\ Takes(r, new, m.round, LastProposed(m))
         /\ new.commit_index = old.commit_index \/ new.commit_index <= m.decide_through
         /\ new.trim_through = old.trim_through \/ new.trim_through <= m.trim_through
         /\ replies' = replies
  BY <1>2
<1> DEFINE w == m.round
           q == LastProposed(m)
           B == leaderLog[w]
<1>4. /\ w \in Elected /\ q \in 0 .. MaxSlot /\ old.current_round <= w
      /\ new.current_round = w
      /\ Stored(old, new, A, B, q) /\ leaderLog' = leaderLog
  BY <1>3 DEF Takes
<1>5. m \in ProposeMessage
  <2>1. channel[x][r] \in Seq(Message)
    BY DEF Base, TypeInv, TypeOK
  <2>2. m \in Message
    BY <2>1 DEF InTransit
  <2> QED BY <1>3, <2>2, MessageKinds
<1>6. /\ m.decide_through \in Nat /\ m.trim_through \in Nat /\ q \in Nat
      /\ w \in Nat /\ B \in Log /\ m.decide_through <= q
  <2>1. m.decide_through \in 0 .. MaxSlot /\ m.trim_through \in 0 .. MaxSlot
    BY <1>5 DEF ProposeMessage
  <2>2. m.decide_through <= q
    BY <1>3 DEF ProposalsCover
  <2> QED BY <1>1, <1>4, <2>1, <2>2, BoundsAssumption, HistFacts
<1>7. /\ old \in ReplicaState /\ Contiguous(old) /\ tip \in Elected
      /\ PrefixOf(old, A) /\ A \in Log
      /\ old.commit_index \in Nat /\ old.last_applied = old.commit_index
      /\ LastLogIndex(old) \in Nat /\ old.commit_index <= LastLogIndex(old)
      /\ old.current_round \in Nat
  BY TipFacts
<1>8. /\ Contiguous(new) /\ LastLogRound(new) \in Elected' /\ L2 \in Log
      /\ PrefixOf(new, L2) /\ c \in Nat /\ new.last_applied = c
      /\ LastLogIndex(new) \in Nat /\ c <= LastLogIndex(new)
      /\ new.trim_through \in Nat
  BY <1>1, <1>4, TipFactsNext
<1>9. w \in Elected' /\ Elected \subseteq Elected'
  BY <1>1, <1>4, GrowsKeeps
<1>10. PICK t0 \in Elected : /\ t0 <= old.current_round /\ Decided(t0, old.commit_index)
                             /\ Agree(A, leaderLog[t0], old.commit_index)
  BY DEF CommitInv, Committed
<1>11. PICK t1 \in Elected : t1 <= w /\ Decided(t1, m.decide_through)
  BY <1>3 DEF CommitInv, Announces
<1>12. t0 \in Nat /\ t1 \in Nat
  BY <1>1, HistFacts
<1>13. CacheOf(old, A)
  BY DEF CommitInv
<1> HIDE DEF old, tip, A, B, q, w, L2
\* The log after the step, compared with the leader's.
<1>14. /\ c = old.commit_index => Agree(L2, leaderLog[t0], c)
       /\ c <= m.decide_through => Agree(L2, B, c)
       /\ CacheOf(new, L2)
  <2>1. CASE /\ SameTip(old, new) /\ q <= LastLogIndex(old) /\ Agree(A, B, q)
             /\ CacheOf(old, A) => CacheOf(new, A)
    <3>1. L2 = A
      BY <2>1 DEF SameTip, L2, A, tip
    <3>2. c <= m.decide_through => Agree(A, B, c)
      <4>1. c <= m.decide_through => c <= q
        BY <1>6, <1>8
      <4> QED BY <1>6, <1>8, <2>1, <4>1, AgreeBelow
    <3> QED BY <1>10, <1>13, <2>1, <3>1, <3>2
  <2>2. CASE /\ LastLogIndex(new) = q /\ PrefixOf(new, B)
             /\ old.commit_index <= q /\ Agree(A, B, old.commit_index)
             /\ CacheOf(old, B) => CacheOf(new, B)
    <3>1. Agree(L2, B, LastLogIndex(new))
      <4>1. Matching(L2, B)
        BY <1>4, <1>8, <1>9, NextMatching DEF L2, B
      <4> QED BY <1>6, <1>8, <2>2, <4>1, PrefixesAgree
    <3>2. Agree(L2, B, c)
      BY <1>8, <3>1, AgreeBelow
    <3>3. c = old.commit_index => Agree(L2, leaderLog[t0], c)
      BY <1>10, <2>2, <3>2 DEF Agree
    <3>4. CacheOf(old, B)
      BY <1>7, <1>13, <2>2, CacheAgrees
    <3>5. CacheOf(new, L2)
      <4>1. Agree(B, L2, new.last_applied)
        BY <1>8, <3>2 DEF Agree
      <4> QED BY <2>2, <3>4, <4>1, CacheAgrees
    <3> QED BY <3>2, <3>3, <3>5
  <2> QED BY <1>4, <2>1, <2>2 DEF Stored
<1>15. ASSUME c = old.commit_index PROVE Committed(r)'
  <2>1. Decided(t0, c)
    BY <1>10, <1>15
  <2>2. Decided(t0, c)' /\ t0 \in Elected' /\ t0 <= new.current_round
    <3>1. Decided(t0, c)'
      BY <1>1, <2>1, DecidedKept
    <3> QED BY <1>4, <1>6, <1>7, <1>9, <1>10, <1>12, <3>1
  <2>3. Agree(leaderLog'[LastLogRound(new)], leaderLog'[t0], c)
    BY <1>4, <1>14, <1>15 DEF L2
  <2> QED BY <1>1, <2>2, <2>3, CommittedNext
<1>16. ASSUME c <= m.decide_through PROVE Committed(r)'
  <2>1. Decided(t1, c)
    BY <1>6, <1>8, <1>11, <1>16, DecidedBelow
  <2>2. Decided(t1, c)' /\ t1 \in Elected' /\ t1 <= new.current_round
    <3>1. Decided(t1, c)'
      BY <1>1, <2>1, DecidedKept
    <3> QED BY <1>4, <1>9, <1>11, <3>1
  <2>3. Agree(B, leaderLog[t1], c)
    BY <1>4, <1>8, <1>11, <2>1, DecidedStays DEF B
  <2>4. Agree(leaderLog'[LastLogRound(new)], leaderLog'[t1], c)
    BY <1>4, <1>14, <1>16, <2>3 DEF L2, Agree
  <2> QED BY <1>1, <2>2, <2>4, CommittedNext
<1>17. Committed(r)'
  BY <1>3, <1>15, <1>16 DEF old
<1>18. Shared(replica[r].trim_through)'
  <2> DEFINE n == new.trim_through
  <2>1. CASE n = old.trim_through
    <3>1. Shared(n)
      BY <2>1 DEF CommitInv, old
    <3>2. Shared(n)'
      BY <1>1, <3>1, SharedKept
    <3> QED BY <1>1, <3>2, SharedNext
  <2>2. CASE n <= m.trim_through
    <3>1. Shared(m.trim_through)
      BY <1>3 DEF CommitInv, Announces
    <3>2. Shared(m.trim_through)'
      BY <1>1, <3>1, SharedKept
    <3>3. Shared(n)'
      BY <1>6, <1>8, <2>2, <3>2, SharedBelowNext DEF Base
    <3> QED BY <1>1, <3>3, SharedNext
  <2> QED BY <1>3, <2>1, <2>2 DEF old
<1>19. CacheOf(replica[r], leaderLog[LastLogRound(replica[r])])'
  BY <1>1, <1>4, <1>14 DEF CacheOf, L2
<1> QED BY <1>3, <1>17, <1>18, <1>19

LEMMA AnnouncesKept ==
  ASSUME Base, HistInv, Base', HistInv', CommitInv,
         NEW r \in Replicas, NEW new \in ReplicaState, Turn(r, new),
         Committed(r)', Shared(replica[r].trim_through)',
         NEW x \in Replicas, NEW y \in Replicas, NEW m \in InTransit(channel', x, y)
  PROVE  Announces(m)'
<1>1. Grows /\ TypeInv /\ LogTree /\ new = replica'[r]
  BY TurnFacts
<1> SUFFICES ASSUME m.type = "propose"
             PROVE  /\ \E t \in Elected' : t <= m.round /\ Decided(t, m.decide_through)'
                    /\ Shared(m.trim_through)'
  BY DEF Announces
<1>2. CASE m \in InTransit(channel, x, y)
  <2>1. Shared(m.trim_through)
    BY <1>2 DEF CommitInv, Announces
  <2>2. PICK t \in Elected : t <= m.round /\ Decided(t, m.decide_through)
    BY <1>2 DEF CommitInv, Announces
  <2>3. Shared(m.trim_through)' /\ Decided(t, m.decide_through)' /\ t \in Elected'
    BY <1>1, <2>1, <2>2, SharedKept, DecidedKept, GrowsKeeps
  <2> QED BY <2>2, <2>3
<1>3. CASE m \notin InTransit(channel, x, y)
  <2>1. /\ m.round = new.current_round /\ m.decide_through <= new.commit_index
        /\ m.trim_through <= new.trim_through
    BY <1>3 DEF Turn, Sends
  <2>2. m \in ProposeMessage
    <3>1. channel'[x][y] \in Seq(Message)
      BY DEF Base, TypeInv, TypeOK
    <3>2. m \in Message
      BY <3>1 DEF InTransit
    <3> QED BY <3>2, MessageKinds
  <2>3. /\ m.decide_through \in Nat /\ m.trim_through \in Nat
        /\ new.commit_index \in Nat /\ new.trim_through \in Nat
    <3>1. m.decide_through \in 0 .. MaxSlot /\ m.trim_through \in 0 .. MaxSlot
      BY <2>2 DEF ProposeMessage
    <3> QED BY <3>1, BoundsAssumption, Indices
  <2>4. PICK t \in Elected' : t <= new.current_round /\ Decided(t, new.commit_index)'
    <3>1. \E t \in Elected' : /\ t <= replica'[r].current_round
                              /\ Decided(t, replica[r].commit_index)'
      BY DEF Committed
    <3>2. PICK t \in Elected' : /\ t <= replica'[r].current_round
                                /\ Decided(t, replica[r].commit_index)'
      BY <3>1
    <3>3. Decided(t, new.commit_index)'
      BY <1>1, <3>2 DEF Decided
    <3> QED BY <1>1, <3>2, <3>3
  <2>5. Decided(t, m.decide_through)'
    BY <2>1, <2>3, <2>4, DecidedBelowNext
  <2>6. Shared(new.trim_through)'
    BY <1>1 DEF Shared, Decided
  <2>7. Shared(m.trim_through)'
    BY <2>1, <2>3, <2>6, SharedBelowNext DEF Base
  <2> QED BY <2>1, <2>4, <2>5, <2>7
<1> QED BY <1>2, <1>3

LEMMA CommitKept ==
  ASSUME Base, HistInv, VoteInv, CommitInv, ProposalsCover, Base', HistInv',
         NEW r \in Replicas, NEW new \in ReplicaState, Turn(r, new)
  PROVE  CommitInv'
<1>1. /\ Grows /\ TypeInv /\ LogTree /\ new = replica'[r]
      /\ \A q \in Replicas : /\ q # r => replica'[q] = replica[q]
                             /\ replica[q].current_round <= replica'[q].current_round
  BY TurnFacts
<1>2. ASSUME NEW q \in Replicas, SameStore(replica'[q], replica[q])
      PROVE  /\ Committed(q)' /\ Shared(replica[q].trim_through)'
             /\ CacheOf(replica[q], leaderLog[LastLogRound(replica[q])])'
  BY <1>1, <1>2, StoreKeepsCommit
<1>3. \A q \in Replicas : q # r => SameStore(replica'[q], replica[q])
  BY <1>1 DEF SameStore
<1>4. /\ Committed(r)' /\ Shared(replica[r].trim_through)'
      /\ CacheOf(replica[r], leaderLog[LastLogRound(replica[r])])'
      /\ \A x \in replies' : x \in replies \/ Answer(x)'
  <2>1. CASE LeaderTurn(r, new)
    BY <2>1, LeaderKeepsCommit
  <2>2. CASE FollowerTurn(r, new)
    BY <2>2, FollowerKeepsCommit
  <2>3. CASE StoreTurn(r, new)
    BY <1>1, <1>2, <2>3 DEF StoreTurn
  <2> QED BY <2>1, <2>2, <2>3 DEF Turn
<1>5. ASSUME NEW x \in replies, Answer(x)
      PROVE  Answer(x)'
  <2>1. PICK t \in Elected : Decided(t, x.slot) /\ First(leaderLog[t], x.slot, x.serial, x.slot)
    BY <1>5 DEF Answer
  <2>2. x.slot \in Slots /\ x.slot \in Nat \ {0}
    BY <1>5, SlotIsNatural DEF Answer
  <2>3. PICK k \in Slots : x.slot <= k /\ leaderLog[t][k] # Absent
    BY <2>1, <2>2 DEF Decided, Chosen
  <2>4. \A j \in Slots : j <= x.slot => leaderLog'[t][j] = leaderLog[t][j]
    <3>1. \A j \in Slots : j <= x.slot => j <= k
      BY <2>2, <2>3, SlotIsNatural
    <3>2. \A j \in Slots : j <= x.slot => leaderLog[t][j] # Absent
      BY <1>1, <2>3, <3>1 DEF LogTree
    <3> QED BY <1>1, <3>2 DEF Grows
  <2>5. First(leaderLog'[t], x.slot, x.serial, x.slot)
    <3>1. /\ leaderLog[t][x.slot].serial = x.serial
          /\ \A j \in Slots : j < x.slot => leaderLog[t][j].serial # x.serial
      BY <2>1, <2>2 DEF First
    <3>2. x.slot <= x.slot /\ \A j \in Slots : j < x.slot => j <= x.slot
      BY <2>2, SlotIsNatural
    <3> QED BY <2>2, <2>4, <3>1, <3>2 DEF First
  <2>6. Decided(t, x.slot)' /\ t \in Elected'
    BY <1>1, <2>1, DecidedKept, GrowsKeeps
  <2> QED BY <2>2, <2>5, <2>6 DEF Answer
<1>6. \A x \in replies' : Answer(x)'
  BY <1>4, <1>5 DEF CommitInv
<1>7. ASSUME NEW x \in Replicas, NEW y \in Replicas, NEW m \in InTransit(channel', x, y)
      PROVE  Announces(m)'
  BY <1>4, <1>7, AnnouncesKept
<1>8. ASSUME NEW q \in Replicas
      PROVE  /\ Committed(q)' /\ Shared(replica[q].trim_through)'
             /\ CacheOf(replica[q], leaderLog[LastLogRound(replica[q])])'
  BY <1>2, <1>3, <1>4, <1>8
<1> QED BY <1>6, <1>7, <1>8 DEF CommitInv

LEMMA CommitInit ==
  ASSUME Init
  PROVE  CommitInv
<1>1. Base /\ HistInv
  BY BaseInit, HistInit
<1>2. 0 \in Elected
  BY <1>1 DEF HistInv, LogTree
<1>3. \A q \in Replicas : replica[q] = InitialState(q)
  BY Zenon DEF Init
<1>4. \A q \in Replicas : /\ replica[q].commit_index = 0 /\ replica[q].trim_through = 0
                          /\ replica[q].last_applied = 0 /\ replica[q].current_round = 0
                          /\ \A s \in Serials : replica[q].response_cache[s] = 0
  <2>1. \A q \in Replicas : LET st == InitialState(q) IN
           /\ st.commit_index = 0 /\ st.trim_through = 0
           /\ st.last_applied = 0 /\ st.current_round = 0
           /\ \A s \in Serials : st.response_cache[s] = 0
    BY DEF InitialState
  <2> QED BY <1>3, <2>1
<1>5. \A k \in Slots : ~(k <= 0)
  BY SlotIsNatural
<1>6. Decided(0, 0) /\ Shared(0)
  BY <1>2 DEF Decided, Shared
<1>7. ASSUME NEW q \in Replicas
      PROVE  Committed(q)
  BY <1>2, <1>4, <1>5, <1>6 DEF Committed, Agree
<1>8. ASSUME NEW q \in Replicas
      PROVE  CacheOf(replica[q], leaderLog[LastLogRound(replica[q])])
  BY <1>4, <1>5 DEF CacheOf, First
<1>9. ASSUME NEW q \in Replicas
      PROVE  Shared(replica[q].trim_through)
  BY <1>4, <1>6
<1>10. replies = {} /\ \A x, y \in Replicas : InTransit(channel, x, y) = {}
  BY DEF Init, InTransit
<1> QED BY <1>7, <1>8, <1>9, <1>10 DEF CommitInv

LEMMA VoteStutter ==
  ASSUME VoteInv, UNCHANGED vars
  PROVE  VoteInv'
<1>1. /\ replica' = replica /\ channel' = channel /\ leaderLog' = leaderLog
      /\ acked' = acked /\ granted' = granted /\ Elected' = Elected
  BY DEF vars, Elected
<1>2. \A s, t, k : Holds(s, t, k)' <=> Holds(s, t, k)
  BY <1>1 DEF Holds, Stores
<1>3. \A t, k, u : Superseded(t, k, u)' <=> Superseded(t, k, u)
  BY <1>1 DEF Superseded
<1>4. Votes'
  BY <1>1, <1>2, <1>3 DEF VoteInv, Votes, VoteRight
<1>5. Electors'
  BY <1>1, <1>2, <1>3 DEF VoteInv, Electors, LeaderHasAll
<1>6. ASSUME NEW x \in Replicas, NEW y \in Replicas, NEW m \in InTransit(channel', x, y)
      PROVE  ProbeTip(m)'
  BY <1>1, <1>6 DEF VoteInv, ProbeTip
<1> QED BY <1>4, <1>5, <1>6 DEF VoteInv

LEMMA CommitStutter ==
  ASSUME CommitInv, UNCHANGED vars
  PROVE  CommitInv'
<1>1. /\ replica' = replica /\ channel' = channel /\ leaderLog' = leaderLog
      /\ acked' = acked /\ replies' = replies /\ Elected' = Elected
  BY DEF vars, Elected
<1>2. \A t, c : Decided(t, c) => Decided(t, c)'
  BY <1>1 DEF Decided, Chosen
<1>3. \A n : Shared(n) => Shared(n)'
  BY <1>1, <1>2 DEF Shared
<1>4. ASSUME NEW q \in Replicas
      PROVE  Committed(q)' /\ Shared(replica[q].trim_through)'
  <2>1. Committed(q)'
    BY <1>1, <1>4 DEF CommitInv, Committed, Decided, Chosen
  <2>2. Shared(replica[q].trim_through)'
    BY <1>1, <1>4 DEF CommitInv, Shared, Decided, Chosen
  <2> QED BY <2>1, <2>2
<1>5. ASSUME NEW q \in Replicas
      PROVE  CacheOf(replica[q], leaderLog[LastLogRound(replica[q])])'
  BY <1>1, <1>5 DEF CommitInv
<1>6. ASSUME NEW x \in Replicas, NEW y \in Replicas, NEW m \in InTransit(channel', x, y)
      PROVE  Announces(m)'
  BY <1>1, <1>2, <1>3, <1>6 DEF CommitInv, Announces
<1>7. ASSUME NEW x \in replies'
      PROVE  Answer(x)'
  BY <1>1, <1>2, <1>7 DEF CommitInv, Answer
<1> QED BY <1>4, <1>5, <1>6, <1>7 DEF CommitInv

LEMMA VoteStep ==
  ASSUME Base, HistInv, VoteInv, [Next]_vars
  PROVE  Base' /\ HistInv' /\ VoteInv'
<1>1. Base' /\ HistInv'
  BY HistStep
<1>2. CASE Next
  <2>1. PICK r \in Replicas, new \in ReplicaState : Turn(r, new)
    BY <1>2, EveryStepIsATurn
  <2> QED BY <1>1, <2>1, VoteKept
<1> QED BY <1>1, <1>2, VoteStutter

LEMMA CommitStep ==
  ASSUME Base, HistInv, VoteInv, CommitInv, ProposalsCover, [Next]_vars
  PROVE  CommitInv'
<1>1. Base' /\ HistInv'
  BY HistStep
<1>2. CASE Next
  <2>1. PICK r \in Replicas, new \in ReplicaState : Turn(r, new)
    BY <1>2, EveryStepIsATurn
  <2> QED BY <1>1, <2>1, CommitKept
<1> QED BY <1>2, CommitStutter

LEMMA VoteAlways == Spec => [](Base /\ HistInv /\ VoteInv)
<1>1. Init => Base /\ HistInv /\ VoteInv
  BY BaseInit, HistInit, VoteInit
<1>2. Base /\ HistInv /\ VoteInv /\ [Next]_vars => (Base /\ HistInv /\ VoteInv)'
  BY VoteStep
<1> QED BY <1>1, <1>2, PTL DEF Spec

LEMMA CommitAlways == Spec /\ []ProposalsCover => [](Base /\ HistInv /\ VoteInv /\ CommitInv)
<1>1. Init => CommitInv
  BY CommitInit
<1>2. Base /\ HistInv /\ VoteInv /\ CommitInv /\ ProposalsCover /\ [Next]_vars => CommitInv'
  BY CommitStep
<1> QED BY <1>1, <1>2, VoteAlways, PTL DEF Spec

-----------------------------------------------------------------------------
(* The safety properties *)

\* What a replica has committed is decided, and that is where its log has it from.
LEMMA CommittedFacts ==
  ASSUME Base, HistInv, VoteInv, CommitInv, NEW q \in Replicas
  PROVE  \E t \in Elected :
           /\ t <= replica[q].current_round /\ Decided(t, replica[q].commit_index)
           /\ \A k \in Slots : k <= replica[q].commit_index =>
                 /\ leaderLog[LastLogRound(replica[q])][k] = leaderLog[t][k]
                 /\ replica[q].log[k] # Absent => replica[q].log[k] = leaderLog[t][k]
<1> DEFINE st == replica[q]
           tip == LastLogRound(st)
<1>1. /\ st \in ReplicaState /\ Contiguous(st) /\ PrefixOf(st, leaderLog[tip])
      /\ st.commit_index \in Nat /\ LastLogIndex(st) \in Nat
      /\ st.commit_index <= LastLogIndex(st)
  BY TipFacts
<1>2. PICK t \in Elected : /\ t <= st.current_round /\ Decided(t, st.commit_index)
                           /\ Agree(leaderLog[tip], leaderLog[t], st.commit_index)
  BY DEF CommitInv, Committed
<1>3. ASSUME NEW k \in Slots, k <= st.commit_index
      PROVE  /\ leaderLog[tip][k] = leaderLog[t][k]
             /\ st.log[k] # Absent => st.log[k] = leaderLog[t][k]
  <2>1. leaderLog[tip][k] = leaderLog[t][k]
    BY <1>2, <1>3 DEF Agree
  <2>2. k <= LastLogIndex(st)
    BY <1>1, <1>3, SlotIsNatural
  <2>3. st.log[k] # Absent => k > st.trim_through
    BY <1>1, Indices, SlotIsNatural DEF Contiguous
  <2> QED BY <1>1, <2>1, <2>2, <2>3 DEF PrefixOf
<1> QED BY <1>2, <1>3

LEMMA CommitLeaders ==
  ASSUME Base, HistInv, VoteInv, CommitInv
  PROVE  LeaderCompleteness
<1> SUFFICES ASSUME NEW l \in Replicas, NEW a \in Replicas, replica[l].role = "leader",
                    replica[a].current_round <= replica[l].current_round,
                    NEW k \in 1 .. replica[a].commit_index
             PROVE  \/ k <= replica[l].trim_through
                    \/ replica[l].log[k] # Absent /\ SameEntry(l, a, k)
  BY DEF LeaderCompleteness
<1> DEFINE u == replica[l].current_round
<1>1. /\ replica[l] \in ReplicaState /\ Contiguous(replica[l])
      /\ replica[l].trim_through \in Nat /\ u \in Nat
      /\ replica[a] \in ReplicaState /\ replica[a].commit_index \in Nat
      /\ replica[a].current_round \in Nat
  BY TipFacts
<1>2. k \in Slots /\ k <= replica[a].commit_index /\ k \in Nat
  BY <1>1, Indices, BoundsAssumption DEF Slots
<1>3. PICK t \in Elected :
         /\ t <= replica[a].current_round /\ Decided(t, replica[a].commit_index)
         /\ replica[a].log[k] # Absent => replica[a].log[k] = leaderLog[t][k]
  BY <1>2, CommittedFacts
<1>4. /\ u \in Elected /\ PrefixOf(replica[l], leaderLog[u])
      /\ leaderLog[u][k] # Absent => k <= LastLogIndex(replica[l])
  BY <1>2, LeaderFacts DEF HistInv, Leading
<1>5. t <= u
  <2>1. t \in Nat
    BY HistFacts DEF Base
  <2> QED BY <1>1, <1>3, <2>1
<1>6. leaderLog[u][k] = leaderLog[t][k] /\ leaderLog[u][k] # Absent
  BY <1>1, <1>2, <1>3, <1>4, <1>5, DecidedStays DEF Agree
<1>7. CASE k > replica[l].trim_through
  <2>1. replica[l].log[k] # Absent /\ replica[l].log[k] = leaderLog[u][k]
    BY <1>1, <1>2, <1>4, <1>6, <1>7 DEF Contiguous, PrefixOf
  <2> QED BY <1>3, <1>6, <2>1 DEF SameEntry
<1> QED BY <1>1, <1>2, <1>7

LEMMA CommitMachines ==
  ASSUME Base, HistInv, VoteInv, CommitInv
  PROVE  StateMachineSafety
<1> SUFFICES ASSUME NEW a \in Replicas, NEW b \in Replicas, NEW s \in Serials,
                    replica[a].response_cache[s] # 0,
                    replica[a].response_cache[s] <= replica[b].last_applied
             PROVE  replica[b].response_cache[s] = replica[a].response_cache[s]
  BY DEF StateMachineSafety
<1> DEFINE A == leaderLog[LastLogRound(replica[a])]
           B == leaderLog[LastLogRound(replica[b])]
           c == replica[a].response_cache[s]
           d == replica[b].response_cache[s]
           m == replica[a].commit_index
           n == replica[b].commit_index
<1>1. /\ replica[a].last_applied = m /\ m \in Nat
      /\ replica[b].last_applied = n /\ n \in Nat
  BY TipFacts
<1>2. First(A, m, s, c) /\ First(B, n, s, d)
  BY <1>1 DEF CommitInv, CacheOf
<1>3. PICK t \in Elected : /\ Decided(t, m)
                           /\ \A k \in Slots : k <= m => A[k] = leaderLog[t][k]
  BY CommittedFacts
<1>4. PICK v \in Elected : /\ Decided(v, n)
                           /\ \A k \in Slots : k <= n => B[k] = leaderLog[v][k]
  BY CommittedFacts
<1>5. \A k \in Slots : k <= m /\ k <= n => A[k] = B[k]
  BY <1>1, <1>3, <1>4, DecidedAgree
<1>6. c # 0 /\ c <= n
  BY <1>1
<1> HIDE DEF A, B, c, d, m, n
<1>7. c \in Slots /\ c <= m /\ A[c].serial = s /\ \A k \in Slots : k < c => A[k].serial # s
  BY <1>2, <1>6 DEF First
<1>8. A[c] = B[c] /\ c \in Nat
  BY <1>5, <1>6, <1>7, SlotIsNatural
<1>9. d # 0
  BY <1>2, <1>6, <1>7, <1>8 DEF First
<1>10. d \in Slots /\ d <= n /\ B[d].serial = s /\ \A k \in Slots : k < d => B[k].serial # s
  BY <1>2, <1>9 DEF First
<1>11. ~(c < d)
  BY <1>7, <1>8, <1>10
<1>12. ~(d < c)
  <2>1. d < c => d <= m
    BY <1>1, <1>7, <1>8, <1>10, SlotIsNatural
  <2>2. d < c => A[d] = B[d]
    BY <1>5, <1>10, <2>1
  <2> QED BY <1>7, <1>10, <2>2
<1>13. c = d
  BY <1>8, <1>10, <1>11, <1>12, SlotIsNatural
<1> QED BY <1>13 DEF c, d

LEMMA CommitReplies ==
  ASSUME Base, HistInv, VoteInv, CommitInv
  PROVE  ConsistentReplies
<1> SUFFICES ASSUME NEW x \in replies, NEW y \in replies, x.serial = y.serial
             PROVE  x.slot = y.slot
  BY DEF ConsistentReplies
<1> DEFINE c == x.slot
           d == y.slot
           s == x.serial
<1>1. Answer(x) /\ Answer(y)
  BY DEF CommitInv
<1>2. c \in Slots /\ c \in Nat \ {0} /\ d \in Slots /\ d \in Nat \ {0}
  BY <1>1, SlotIsNatural DEF Answer
<1>3. PICK t \in Elected : Decided(t, c) /\ First(leaderLog[t], c, s, c)
  BY <1>1 DEF Answer
<1>4. PICK v \in Elected : Decided(v, d) /\ First(leaderLog[v], d, s, d)
  BY <1>1 DEF Answer
<1> HIDE DEF c, d, s
<1>5. \A k \in Slots : k <= c /\ k <= d => leaderLog[t][k] = leaderLog[v][k]
  BY <1>2, <1>3, <1>4, DecidedAgree
<1>6. /\ leaderLog[t][c].serial = s /\ \A k \in Slots : k < c => leaderLog[t][k].serial # s
      /\ leaderLog[v][d].serial = s /\ \A k \in Slots : k < d => leaderLog[v][k].serial # s
  BY <1>2, <1>3, <1>4 DEF First
<1>7. ~(c < d)
  BY <1>2, <1>5, <1>6
<1>8. ~(d < c)
  BY <1>2, <1>5, <1>6
<1> QED BY <1>2, <1>7, <1>8 DEF c, d

\* What is shared is in every log.
LEMMA SharedEverywhere ==
  ASSUME Base, HistInv, VoteInv, NEW n \in Slots, Shared(n)
  PROVE  \E e : \A q \in Replicas :
            /\ n <= LastLogIndex(replica[q])
            /\ leaderLog[LastLogRound(replica[q])][n] = e
<1>1. n \in Nat \ {0}
  BY SlotIsNatural
<1>2. PICK u \in Elected : /\ \E t \in Elected : t <= u /\ Decided(t, n)
                           /\ \A s \in Replicas : Stores(acked, s, u, n)
  BY <1>1 DEF Shared
<1>3. PICK t \in Elected : t <= u /\ Decided(t, n)
  BY <1>2
<1>4. \A v \in Elected : v \in Nat
  BY HistFacts DEF Base
<1>5. ASSUME NEW v \in Elected, u <= v
      PROVE  leaderLog[v][n] = leaderLog[t][n]
  <2>1. t <= v
    BY <1>3, <1>4, <1>5
  <2>2. n <= n
    BY <1>1
  <2> QED BY <1>1, <1>3, <2>1, <2>2, DecidedStays DEF Agree
<1>6. ASSUME NEW q \in Replicas
      PROVE  /\ n <= LastLogIndex(replica[q])
             /\ leaderLog[LastLogRound(replica[q])][n] = leaderLog[u][n]
  <2>1. PICK a \in acked : a.server = q /\ a.round = u /\ n <= a.index
    BY <1>2 DEF Stores
  <2>2. AckKept(a)
    BY DEF HistInv
  <2>3. ASSUME NEW v \in Elected, u < v
        PROVE  leaderLog[v][n] = leaderLog[u][n]
    BY <1>4, <1>5, <2>3
  <2> QED BY <2>1, <2>2, <2>3 DEF AckKept
<1> QED BY <1>6

LEMMA CommitTrims ==
  ASSUME Base, HistInv, VoteInv, CommitInv
  PROVE  TrimmedPrefixShared
<1> SUFFICES ASSUME NEW a \in Replicas, NEW b \in Replicas
             PROVE  /\ replica[a].trim_through <= LastLogIndex(replica[b])
                    /\ replica[b].trim_through <= replica[a].trim_through
                       => RoundAt(replica[b], replica[a].trim_through) = replica[a].trim_round
  BY DEF TrimmedPrefixShared
<1> DEFINE n == replica[a].trim_through
<1>1. /\ replica[a] \in ReplicaState /\ Contiguous(replica[a]) /\ n \in Nat
      /\ PrefixOf(replica[a], leaderLog[LastLogRound(replica[a])])
      /\ replica[b] \in ReplicaState /\ Contiguous(replica[b])
      /\ leaderLog[LastLogRound(replica[b])] \in Log
      /\ PrefixOf(replica[b], leaderLog[LastLogRound(replica[b])])
      /\ LastLogIndex(replica[b]) \in Nat
  BY TipFacts
<1>2. n <= MaxSlot /\ Shared(n)
  BY <1>1, Indices DEF CommitInv
<1>3. CASE n = 0
  <2>1. replica[a].trim_round = 0
    BY <1>3 DEF HistInv, LogSound, TrimRoundInit
  <2> QED BY <1>1, <1>3, <2>1 DEF RoundAt
<1>4. CASE n # 0
  <2>1. n \in Slots
    BY <1>1, <1>2, <1>4, BoundsAssumption DEF Slots
  <2>2. PICK e : \A q \in Replicas : /\ n <= LastLogIndex(replica[q])
                                     /\ leaderLog[LastLogRound(replica[q])][n] = e
    BY <1>2, <2>1, SharedEverywhere
  <2>3. replica[a].trim_round = e.round
    BY <1>1, <2>1, <2>2 DEF PrefixOf
  <2>4. ASSUME replica[b].trim_through <= n
        PROVE  RoundAt(replica[b], n) = e.round
    <3> HIDE DEF n
    <3> QED BY <1>1, <2>1, <2>2, <2>4, RoundAtPrefix
  <2> QED BY <2>2, <2>3, <2>4
<1> QED BY <1>3, <1>4

\* The servers that have stored the log of the leader of round t up to slot k.
StoredBy(t, k) == {a.server : a \in {b \in acked : b.round = t /\ b.index >= k}}

\* An entry that a quorum has stored in the very round it was proposed in is in the
\* log of every leader from then on, whether or not anyone has counted the acks yet:
\* what update_commit_index may rely on when it counts replicas, and what the
\* up-to-date check of handle_probe is for.
QuorumEntriesKept ==
    \A t \in Rounds, k \in Slots, l \in Replicas :
        /\ leaderLog[t][k] # Absent /\ leaderLog[t][k].round = t
        /\ IsQuorum(StoredBy(t, k))
        /\ replica[l].role = "leader" /\ replica[l].current_round >= t
        => /\ k <= LastLogIndex(replica[l])
           /\ replica[l].log[k] # Absent => replica[l].log[k] = leaderLog[t][k]

LEMMA ChosenLeaders ==
  ASSUME Base, HistInv, VoteInv
  PROVE  QuorumEntriesKept
<1> SUFFICES ASSUME NEW t \in Rounds, NEW k \in Slots, NEW l \in Replicas,
                    leaderLog[t][k] # Absent, leaderLog[t][k].round = t,
                    IsQuorum(StoredBy(t, k)),
                    replica[l].role = "leader", replica[l].current_round >= t
             PROVE  /\ k <= LastLogIndex(replica[l])
                    /\ replica[l].log[k] # Absent => replica[l].log[k] = leaderLog[t][k]
  BY DEF QuorumEntriesKept
<1> DEFINE Q == StoredBy(t, k)
           u == replica[l].current_round
<1>1. \A a \in acked : a.server \in Replicas /\ a.index \in Nat
  BY HistFacts DEF Base
<1>2. Q \in SUBSET Replicas /\ \A s \in Q : Stores(acked, s, t, k)
  BY <1>1, SlotIsNatural DEF StoredBy, Stores
<1> HIDE DEF Q
<1>3. PICK s \in Q : TRUE
  BY <1>2, QuorumsIntersect DEF Q
<1>4. t \in Elected
  BY <1>2, <1>3 DEF Stores, Elected
<1>5. Chosen(t, k)
  BY <1>2, <1>4 DEF Chosen, QuorumStores, Q
<1>6. /\ u \in Elected /\ PrefixOf(replica[l], leaderLog[u])
      /\ leaderLog[u][k] # Absent => k <= LastLogIndex(replica[l])
  BY LeaderFacts DEF HistInv, Leading
<1>7. /\ replica[l] \in ReplicaState /\ Contiguous(replica[l])
      /\ replica[l].trim_through \in Nat /\ u \in Nat /\ t \in Nat
  BY <1>4, TipFacts, HistFacts DEF Base
<1>8. leaderLog[u][k] = leaderLog[t][k]
  <2>1. CASE u = t
    BY <2>1
  <2>2. CASE t < u
    BY <1>5, <1>6, <2>2, ChosenStays
  <2> QED BY <1>7, <2>1, <2>2
<1>9. replica[l].log[k] # Absent => k > replica[l].trim_through
  BY <1>7, SlotIsNatural DEF Contiguous
<1> QED BY <1>6, <1>8, <1>9 DEF PrefixOf

\* An entry that a quorum has stored in the round it was proposed in is in the log of
\* that leader and of every later one, for every cluster, every batch size and every loss
\* or delay of messages (QuorumEntriesKept).
THEOREM QuorumEntriesStay == Spec => []QuorumEntriesKept
<1>1. Base /\ HistInv /\ VoteInv => QuorumEntriesKept
  BY ChosenLeaders
<1> QED BY <1>1, VoteAlways, PTL

\* If the log fits into one batch, every proposal reaches as far as the commit index it
\* carries (send_propose_to).
THEOREM OneBatchCovers == AppendBatch >= MaxSlot => (Spec => []ProposalsCover)
<1> SUFFICES ASSUME AppendBatch >= MaxSlot
             PROVE  Spec => []ProposalsCover
  OBVIOUS
<1>1. HistInv => ProposalsCover
  BY DEF HistInv, MessageSound, ProposalOf, WholeBatch, ProposalsCover
<1> QED BY <1>1, HistAlways, PTL

\* As long as no proposal announces more than it reaches, a leader has every entry
\* that a replica of its own or an earlier round has committed (LeaderCompleteness).
THEOREM LeadersComplete == Spec /\ []ProposalsCover => []LeaderCompleteness
<1>1. Base /\ HistInv /\ VoteInv /\ CommitInv => LeaderCompleteness
  BY CommitLeaders
<1> QED BY <1>1, CommitAlways, PTL

\* As long as no proposal announces more than it reaches, all replicas execute the same
\* requests at the same slots (StateMachineSafety).
THEOREM DatabasesAgree == Spec /\ []ProposalsCover => []StateMachineSafety
<1>1. Base /\ HistInv /\ VoteInv /\ CommitInv => StateMachineSafety
  BY CommitMachines
<1> QED BY <1>1, CommitAlways, PTL

\* As long as no proposal announces more than it reaches, what one replica has trimmed
\* every replica has, with the same round at the boundary (TrimmedPrefixShared).
THEOREM TrimmedEverywhere == Spec /\ []ProposalsCover => []TrimmedPrefixShared
<1>1. Base /\ HistInv /\ VoteInv /\ CommitInv => TrimmedPrefixShared
  BY CommitTrims
<1> QED BY <1>1, CommitAlways, PTL

\* As long as no proposal announces more than it reaches, all replies to a request are
\* the same, whoever sends them (ConsistentReplies).
THEOREM RepliesAgree == Spec /\ []ProposalsCover => []ConsistentReplies
<1>1. Base /\ HistInv /\ VoteInv /\ CommitInv => ConsistentReplies
  BY CommitReplies
<1> QED BY <1>1, CommitAlways, PTL

\* With a batch that holds the whole log, all of this holds without a condition on the
\* proposals.
COROLLARY OneBatchSafe ==
  AppendBatch >= MaxSlot =>
    (Spec => [](/\ LeaderCompleteness /\ StateMachineSafety
                /\ TrimmedPrefixShared /\ ConsistentReplies))
<1> SUFFICES ASSUME AppendBatch >= MaxSlot
             PROVE  Spec => [](/\ LeaderCompleteness /\ StateMachineSafety
                               /\ TrimmedPrefixShared /\ ConsistentReplies)
  OBVIOUS
<1>1. Spec => []ProposalsCover
  BY OneBatchCovers
<1> QED BY <1>1, LeadersComplete, DatabasesAgree, TrimmedEverywhere, RepliesAgree, PTL
=============================================================================
