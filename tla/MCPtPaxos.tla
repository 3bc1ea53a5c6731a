----------------------------- MODULE MCPtPaxos -----------------------------
(* Instances of PtPaxos for TLC. *)
EXTENDS PtPaxos, TLC

CONSTANTS A, B, C, X, Y

\* B and C start in the same state; so do the serials.
FollowersAndSerials == Permutations(Replicas \ {InitialLeader}) \cup Permutations(Serials)

\* What the future of a state and the properties depend on: become_leader resets
\* the indices a leader keeps about its peers, leader_index only goes into
\* redirections, and the other histories are read by no action.
LiveState ==
    <<[r \in Replicas |->
          [replica[r] EXCEPT
              !.leader_index = r,
              !.match_index = IF replica[r].role = "leader" THEN @ ELSE <<>>,
              !.next_index = IF replica[r].role = "leader" THEN @ ELSE <<>>]],
      channel, replies>>

\* Two messages may be under way while no log has an entry, so that candidates
\* compete, and up to round 1, so that a message of a deposed leader arrives during
\* or after an election; one otherwise.  A message beyond that may as well be lost,
\* so every behaviour with one message under way remains.
UnderWay(n) == Cardinality(InFlight(channel)) <= n

NoEntries     == \A r \in Replicas : replica[r].next_slot = 1
RoundsUpTo(n) == \A r \in Replicas : replica[r].current_round <= n

DelayedMessages == UnderWay(1) \/ (UnderWay(2) /\ (NoEntries \/ RoundsUpTo(1)))
=============================================================================
