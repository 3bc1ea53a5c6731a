--------------------------- MODULE MCPtPaxosBatch ---------------------------
(* An instance of PtPaxos whose logs grow longer than one batch. *)
EXTENDS MCPtPaxos

\* The replica that TLC lets run in a round.
Runner(round) == CASE round = 0 -> A [] round = 1 -> B [] round = 2 -> C

\* Keeps TLC near the behaviours in which A stores X, then Y on its own, B and
\* then C are elected without A, and logs grow by one slot per round; only C
\* commits anything.  It leaves behaviours out and adds none.
StaleSuffixAtA ==
    /\ \A r \in Replicas :
          /\ replica[r].role # "follower" => r = Runner(replica[r].current_round)
          /\ replica[r].commit_index > 0 => replica[r].current_round = 2
          /\ \A k \in Slots :
                 \/ replica[r].log[k] = Absent
                 \/ replica[r].log[k] = [round |-> k - 1, serial |-> X]
                 \/ r = A /\ k = 2 /\ replica[r].log[k] = [round |-> 0, serial |-> Y]
    /\ channel[A][B] # <<>> => replica[B].current_round = 0
    /\ channel[B][A] = <<>>
    /\ channel[C][A] # <<>> => replica[C].role = "leader"
=============================================================================
