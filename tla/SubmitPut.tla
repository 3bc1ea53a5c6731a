------------------------------ MODULE SubmitPut ------------------------------
(***************************************************************************)
(* How the HTTP server gets a put through the replicas: submit_put sends   *)
(* it to the replica it believes to lead, waits for the response or two    *)
(* seconds, follows redirections, and gives up after a number of attempts. *)
(* Requests of many browsers share the one client of the replicas; each    *)
(* put has a serial of its own, and its responses wait in inq_ until the   *)
(* put that they answer picks them up (client_model.hh).                   *)
(***************************************************************************)
EXTENDS ReplicaGroup, SequencesExt

CONSTANTS MaxAttempts, \* kMaxAttempts
          Failures     \* the replicas that may be failed

VARIABLES leader,      \* leader_, where the next put starts and reads go
          submit,      \* per put: where submit_put is
          requests,    \* requests under way
          inq          \* per serial, the responses that have arrived

putVars == <<group, leader, submit, requests, inq>>
clientVars == <<leader, submit, inq>>

-----------------------------------------------------------------------------
Idle == [pc |-> "idle", tries |-> 0, replica |-> 0, version |-> 0]

PutInit ==
    /\ GroupInit
    /\ leader = 0
    /\ submit = [s \in Serial |-> Idle]
    /\ requests = {}
    /\ inq = [s \in Serial |-> <<>>]

\* "Try a different replica next round."
NextReplica(r) == (r + 1) % N

send_request(s, r) == requests \cup {q \in {[serial |-> s, replica |-> r]} : up[r]}

\* The next turn of submit_put's loop: one more attempt, at replica r, or none.
Attempt(s, r, tries) ==
    IF tries < MaxAttempts
    THEN /\ submit' = [submit EXCEPT ![s] = [@ EXCEPT !.pc = "waiting", !.tries = tries, !.replica = r]]
         /\ requests' = send_request(s, r)
    ELSE /\ submit' = [submit EXCEPT ![s] = [@ EXCEPT !.pc = "failed", !.tries = tries, !.replica = r]]
         /\ UNCHANGED requests

submit_put(s) ==
    /\ submit[s].pc = "idle"
    /\ Attempt(s, leader, 0)
    /\ UNCHANGED <<group, leader, inq>>

\* attempt(receive_response(replica, serial), after(2s)), when a response to
\* this serial has come: a success ends the loop; a redirection sets replica,
\* and then counts as no response.
receive_response(s) ==
    /\ submit[s].pc = "waiting"
    /\ inq[s] # <<>>
    /\ inq' = [inq EXCEPT ![s] = Tail(@)]
    /\ LET m == Head(inq[s])
       IN  \/ /\ m.type = "ok"
              /\ leader' = submit[s].replica
              /\ submit' = [submit EXCEPT ![s] = [@ EXCEPT !.pc = "done", !.version = m.version]]
              /\ UNCHANGED requests
           \/ /\ m.type = "redirect"
              /\ Attempt(s, NextReplica(m.replica), submit[s].tries + 1)
              /\ UNCHANGED leader
    /\ UNCHANGED group

\* The two seconds are over before a response has come.
TimeoutPut(s) ==
    /\ submit[s].pc = "waiting"
    /\ inq[s] = <<>>
    /\ Attempt(s, NextReplica(submit[s].replica), submit[s].tries + 1)
    /\ UNCHANGED <<group, leader, inq>>

-----------------------------------------------------------------------------
(* The replicas' side.                                                     *)

\* A response of replica r, lost if its links are cut.
Reply(r, s, m) == inq' = IF up[r] THEN [inq EXCEPT ![s] = Append(@, m)] ELSE inq

\* A follower or a candidate redirects; a leader answers from its cache,
\* ignores what it has already taken on, and takes on the rest.
handle_client_request(q) ==
    LET r == q.replica
        s == q.serial
    IN  /\ q \in requests
        /\ requests' = requests \ {q}
        /\ \/ /\ role[r] # "leader"
              /\ Reply(r, s, [type |-> "redirect",
                              replica |-> IF role[r] = "candidate" THEN r ELSE leader_index[r]])
              /\ UNCHANGED <<pending, logged>>
           \/ /\ role[r] = "leader"
              /\ s \in Executed(last_applied[r])
              /\ Reply(r, s, Respond(s))
              /\ UNCHANGED <<pending, logged>>
           \/ /\ role[r] = "leader"
              /\ s \notin Executed(last_applied[r])
              /\ pending' = [pending EXCEPT ![r] = @ \cup {s}]
              /\ logged' = logged \cup {s}
              /\ UNCHANGED inq
        /\ UNCHANGED <<role, current_round, promised_leader, leader_index, up, votes,
                       order, last_applied, leader, submit>>

\* A leader executes the next slot. It answers the put it took on for that
\* slot; an earlier entry of the same put, left by another leader, it only
\* executes.
apply_committed_entries(r) ==
    LET s == order[last_applied[r] + 1]
    IN  /\ role[r] = "leader"
        /\ last_applied[r] < Len(order)
        /\ last_applied' = [last_applied EXCEPT ![r] = @ + 1]
        /\ \/ /\ s \in pending[r]
              /\ pending' = [pending EXCEPT ![r] = @ \ {s}]
              /\ Reply(r, s, Respond(s))
           \/ UNCHANGED <<pending, inq>>
        /\ UNCHANGED <<role, current_round, promised_leader, leader_index, up, votes,
                       logged, order, leader, submit, requests>>

\* POST /admin/fail: all links of the replica are cut, for good.
admin_fail(r) ==
    /\ r \in Failures
    /\ up[r]
    /\ up' = [up EXCEPT ![r] = FALSE]
    /\ requests' = {q \in requests : q.replica # r}
    /\ UNCHANGED <<role, current_round, promised_leader, leader_index, pending, votes, logs, clientVars>>

Group ==
    /\ \/ \E r \in Replica : start_probe_round(r) \/ handle_prepare(r) \/ step_down(r)
       \/ \E r \in Replica, m \in probes : handle_probe(r, m)
       \/ \E r, l \in Replica : handle_propose(r, l)
       \/ \E s \in Serial : Decide(s)
    /\ UNCHANGED <<clientVars, requests>>

PutNext ==
    \/ Group
    \/ \E s \in Serial : submit_put(s) \/ receive_response(s) \/ TimeoutPut(s)
    \/ \E q \in requests : handle_client_request(q)
    \/ \E r \in Replica : apply_committed_entries(r) \/ admin_fail(r)

PutSpec == PutInit /\ [][PutNext]_putVars

-----------------------------------------------------------------------------

(***************************************************************************)
(* The version that submit_put returns is the version of the put in every  *)
(* replica's database, for good: neither the attempts after the first, nor *)
(* entries of the put that several leaders have logged, nor the responses  *)
(* to other puts that wait in the same queue change it.                    *)
(***************************************************************************)
AckedVersion ==
    \A s \in DOMAIN submit : submit[s].pc = "done" =>
        s \in Executed(Len(order)) /\ submit[s].version = VersionOf(s)

=============================================================================
