--------------------------- MODULE MCPtPaxosLive ---------------------------
(* Progress of PtPaxos once a leader is no longer challenged. *)
EXTENDS MCPtPaxos

\* The steps that fairness is about, told by what only they do.
SomeReceive == \E s, r \in Replicas : Len(channel'[s][r]) < Len(channel[s][r])

HeartbeatReaches(d) ==
    \E r \in Peers(d) : /\ replica[r].role = "leader"
                        /\ replica'[r].next_slot = replica[r].next_slot
                        /\ channel = [channel' EXCEPT ![r] = channel[r]]
                        /\ channel'[r][d] # channel[r][d]

ProposeAnswered(d) ==
    \E s \in Peers(d) : /\ Incoming(s, d, "propose")
                        /\ Len(channel'[s][d]) < Len(channel[s][d])
                        /\ Len(channel'[d][s]) > Len(channel[d][s])

SomeFlush ==
    \E r \in Replicas : replica'[r].next_slot > replica[r].next_slot
                        /\ replica'[r].role = "leader"

SomeRequest ==
    \E r \in Replicas :
        ~(replica'[r].pending_client_serials \subseteq replica[r].pending_client_serials)

Leads(r) == replica[r].role = "leader"

\* Messages are handled, the heartbeat timer of a leader fires when nothing else
\* happens, batch deadlines expire, and clients retry until they are answered; a
\* link that is used again and again does not lose every message.  It is enough to
\* assume each step of some replica: a stale leader can take only so many of them
\* before it is told of the new round.
Fairness ==
    /\ <>[](InFlight(channel) # {}) => []<><<SomeReceive>>_vars
    /\ \A d \in Replicas :
          /\ []<>(/\ InFlight(channel) = {}
                  /\ \E r \in Peers(d) : /\ Leads(r)
                                          /\ replica[r].pending_client_requests = <<>>)
                => []<><<HeartbeatReaches(d)>>_vars
          /\ []<>(\E s \in Peers(d) : Incoming(s, d, "propose"))
                => []<><<ProposeAnswered(d)>>_vars
    /\ <>[](\E r \in Replicas : Leads(r) /\ replica[r].pending_client_requests # <<>>)
           => []<><<SomeFlush>>_vars
    /\ <>[](\E r \in Replicas, s \in Serials :
              /\ Leads(r)
              /\ replica[r].response_cache[s] = 0
              /\ s \notin replica[r].pending_client_serials)
           => []<><<SomeRequest>>_vars

LiveSpec == Spec /\ Fairness

\* A leader of the last round cannot be deposed: it stands for one whose
\* followers hear from it before their election timeouts.
Unchallenged ==
    \E r \in Replicas : /\ replica[r].role = "leader"
                        /\ replica[r].current_round = MaxRound

\* Under such a leader every request is executed by every replica, also by those
\* whose logs its predecessors left behind or divergent.
Progress ==
    Unchallenged ~> \A r \in Replicas, s \in Serials :
                        replica[r].response_cache[s] # 0
=============================================================================
