----------------------------- MODULE ClientProofs -----------------------------
(***************************************************************************)
(* What the clients of the replicas rely on, for every number of them and  *)
(* every bound: the puts of the HTTP server (SubmitPut), the clients of    *)
(* the tests, which take turns by a lock (LockSeq) or edit a document      *)
(* together (CollabModel), the comparison of databases by which they judge *)
(* the replicas (PancydbReplay), and what their failure schedules leave of *)
(* the network (Faults).  The five share no state; each has an inductive   *)
(* invariant of its own.                                                   *)
(***************************************************************************)
EXTENDS SubmitPut, LockSeq, PancydbReplay, CollabModel, Faults, FiniteSetTheorems,
        WellFoundedInduction, TLAPS

-----------------------------------------------------------------------------
(* The invariants.                                                         *)

(***************************************************************************)
(* SubmitPut.  A response waits in inq_ under the serial of its put, and a *)
(* success names the version of that put, which is executed; new slots of  *)
(* the log leave the version of what is executed alone.                    *)
(***************************************************************************)
Redirects(q) == \A i \in 1..Len(q) : q[i].type = "redirect" => q[i].replica \in Replica
Answers(s, q) ==
    \A i \in 1..Len(q) : q[i].type = "ok" => s \in Executed(Len(order)) /\ q[i].version = VersionOf(s)

GroupTypes ==
    /\ order \in Seq(Serial)
    /\ logged \subseteq Serial
    /\ last_applied \in [Replica -> Nat]
    /\ \A r \in Replica : last_applied[r] <= Len(order)
    /\ leader_index \in [Replica -> Replica]
    /\ \A m \in probes : m.leader \in Replica

SubmitFields == {"pc", "tries", "replica", "version"}
Queue(s, q) == q \in Seq(Range(q)) /\ Redirects(q) /\ Answers(s, q)
Acked(s, f) == f.pc = "done" => s \in Executed(Len(order)) /\ f.version = VersionOf(s)

SubmitInv ==
    /\ GroupTypes
    /\ leader \in Replica
    /\ requests \subseteq [serial : Serial, replica : Replica]
    /\ DOMAIN submit = Serial
    /\ DOMAIN inq = Serial
    /\ \A s \in Serial : /\ DOMAIN submit[s] = SubmitFields
                         /\ submit[s].replica \in Replica
                         /\ Queue(s, inq[s])
                         /\ Acked(s, submit[s])

(***************************************************************************)
(* LockSeq.  A client has the lock from the moment its compare-and-swap    *)
(* succeeds, which it may not know yet, to the moment its removal of the   *)
(* lock is executed; no one else has taken the lock's cell.                *)
(***************************************************************************)
Holds(c) ==
    \/ cs[c].pc \in {"write", "clear"}
    \/ cs[c].pc = "unlock" /\ ~HasResponse(c)
    \/ cs[c].pc = "lock" /\ cached[c].errcode = "ok"

HeldAt(c) == IF cs[c].pc = "lock" THEN cached[c].version ELSE cs[c].lock_version

LockTypes ==
    /\ DOMAIN db = {"next_version", "cells", "recent_removes"}
    /\ DOMAIN db.cells = Key
    /\ DOMAIN cs = Client
    /\ DOMAIN cached = Client
    /\ \A c \in Client :
         /\ DOMAIN cs[c] = {"pc", "round", "n", "nvalues", "tries", "lock_version"}
         /\ cs[c].pc \in {"idle", "lock", "write", "clear", "unlock", "thrown"}
         /\ cs[c].pc \in {"lock", "write", "clear"} =>
              cs[c].n \in 0..(max_sequence_length - 1) /\ cs[c].nvalues \in 1..max_sequence_length

\* No response makes a client give up while it has the lock, and one that did
\* not get the lock hears of another client.
Responses ==
    \A c \in Client : HasResponse(c) =>
        /\ cs[c].pc = "lock" => cached[c].errcode = "ok" \/ (cached[c].actual[1] # c /\ cached[c].actual # ValueOf(c))
        /\ cs[c].pc = "write" => cached[c].errcode = "ok"
        /\ cs[c].pc = "clear" => cached[c].errcode # "no_match"

LockInv ==
    /\ LockTypes
    /\ Responses
    /\ \A c \in Client : Holds(c) => db.cells[Lock] = [value |-> ValueOf(c), version |-> HeldAt(c)]
    /\ db.cells[Lock].value # <<>> => \E c \in Client : Holds(c)

(***************************************************************************)
(* CollabModel.  Of its own operations an editor has read back all but the *)
(* pending ones; at most the front of these is in the database.            *)
(***************************************************************************)
EditorFields == {"pc", "peer", "best", "local_text", "pending", "pending_seqs", "next_seq", "peer_next_seq"}

\* Editor e, in state s, with its operations in the database.
EditorInv(e, s, log) ==
    LET own == s.peer_next_seq[e]
    IN  /\ DOMAIN s = EditorFields
        /\ s.pending \in Seq(Range(s.pending))
        /\ Len(s.pending_seqs) = Len(s.pending)
        /\ s.next_seq \in Nat
        /\ DOMAIN s.peer_next_seq = Editor
        /\ own \in 0..s.next_seq
        /\ s.pending_seqs = [i \in 1..(s.next_seq - own) |-> own + i - 1]
        /\ log \in Seq(Range(log))
        /\ Len(log) \in {own, own + 1}
        /\ Len(log) <= s.next_seq
        /\ s.best.peer = e => own < Len(log)

EditorsInv == DOMAIN es = Editor /\ DOMAIN cells = Editor /\ \A e \in Editor : EditorInv(e, es[e], cells[e])

-----------------------------------------------------------------------------
(* LockSeq: the lock's cell and the client that has it.                    *)

ClientFields == {"pc", "round", "n", "nvalues", "tries", "lock_version"}
Phases == {"idle", "lock", "write", "clear", "unlock", "thrown"}

\* A client's state is inside its sequence.
Inside(f) ==
    /\ DOMAIN f = ClientFields
    /\ f.pc \in Phases
    /\ f.pc \in {"lock", "write", "clear"} =>
         f.n \in 0..(max_sequence_length - 1) /\ f.nvalues \in 1..max_sequence_length

LEMMA LockStart == LockInit => LockInv
  <1> SUFFICES ASSUME LockInit PROVE LockInv
    OBVIOUS
  <1>1. /\ db = EmptyDb
        /\ cs = [c \in Client |-> [pc |-> "idle", round |-> 0, n |-> 0, nvalues |-> 0, tries |-> 0, lock_version |-> 0]]
        /\ cached = [c \in Client |-> NoResp]
    BY DEF LockInit
  <1>2. Lock \in Key
    BY KeysAssumption DEF Lock
  <1>3. db.cells[Lock].value = <<>> /\ DOMAIN db = {"next_version", "cells", "recent_removes"} /\ DOMAIN db.cells = Key
    BY <1>1, <1>2 DEF EmptyDb, nonexistent_vv
  <1>4. \A c \in Client : /\ cs[c].pc = "idle" /\ cached[c] = NoResp
                          /\ DOMAIN cs[c] = {"pc", "round", "n", "nvalues", "tries", "lock_version"}
    BY <1>1
  <1>5. DOMAIN cs = Client /\ DOMAIN cached = Client
    BY <1>1
  <1>6. LockTypes
    BY <1>3, <1>4, <1>5 DEF LockTypes
  <1>7. Responses
    BY <1>4 DEF Responses, HasResponse
  <1> QED  BY <1>3, <1>4, <1>6, <1>7 DEF LockInv, Holds

\* A client goes on to another state without a request answered there. One
\* that writes, clears or unlocks then has the lock; one that does not had
\* not got it.
LEMMA GoKeeps ==
    ASSUME LockInv, NEW c \in Client, NEW f, Inside(f),
           cs' = [cs EXCEPT ![c] = f], cached' = [cached EXCEPT ![c] = NoResp], db' = db,
           f.pc \in {"write", "clear", "unlock"} =>
             db.cells[Lock] = [value |-> <<c, f.round>>, version |-> f.lock_version],
           f.pc \notin {"write", "clear", "unlock"} => ~Holds(c)
    PROVE  LockInv'
  <1>1. /\ DOMAIN cs' = Client /\ DOMAIN cached' = Client /\ cs'[c] = f /\ cached'[c] = NoResp
        /\ \A d \in Client \ {c} : cs'[d] = cs[d] /\ cached'[d] = cached[d]
    BY DEF LockInv, LockTypes
  <1>2. \A d \in Client \ {c} : /\ HasResponse(d)' = HasResponse(d) /\ Holds(d)' = Holds(d)
                                /\ ValueOf(d)' = ValueOf(d) /\ HeldAt(d)' = HeldAt(d)
    BY <1>1, Zenon DEF HasResponse, Holds, ValueOf, HeldAt
  <1>3. ~HasResponse(c)' /\ ValueOf(c)' = <<c, f.round>>
    BY <1>1 DEF HasResponse, ValueOf
  <1>4. cached'[c].errcode = "none"
    BY <1>1 DEF NoResp
  <1>5. /\ f.pc \in {"write", "clear", "unlock"} => Holds(c)' /\ HeldAt(c)' = f.lock_version
        /\ f.pc \notin {"write", "clear", "unlock"} => ~Holds(c)'
    BY <1>1, <1>3, <1>4 DEF Holds, HeldAt
  <1>6. LockTypes'
    <2>1. \A d \in Client : Inside(cs'[d])
      <3> TAKE d \in Client
      <3>1. d # c => Inside(cs[d])
        BY DEF LockInv, LockTypes, Inside, ClientFields, Phases
      <3> QED  BY <1>1, <3>1
    <2> QED  BY <1>1, <2>1, Zenon DEF LockInv, LockTypes, Inside, ClientFields, Phases
  <1>7. Responses'
    <2> SUFFICES ASSUME NEW d \in Client, HasResponse(d)'
                 PROVE  /\ cs'[d].pc = "lock" => cached'[d].errcode = "ok" \/ (cached'[d].actual[1] # d /\ cached'[d].actual # ValueOf(d)')
                        /\ cs'[d].pc = "write" => cached'[d].errcode = "ok"
                        /\ cs'[d].pc = "clear" => cached'[d].errcode # "no_match"
      BY Zenon DEF Responses
    <2>1. d # c
      BY <1>3
    <2>2. HasResponse(d) =>
            /\ cs[d].pc = "lock" => cached[d].errcode = "ok" \/ (cached[d].actual[1] # d /\ cached[d].actual # ValueOf(d))
            /\ cs[d].pc = "write" => cached[d].errcode = "ok"
            /\ cs[d].pc = "clear" => cached[d].errcode # "no_match"
      BY DEF LockInv, Responses
    <2>3. cs'[d] = cs[d] /\ cached'[d] = cached[d] /\ HasResponse(d) /\ ValueOf(d)' = ValueOf(d)
      BY <1>1, <1>2, <2>1
    <2> QED  BY <2>2, <2>3
  <1>8. \A d \in Client : Holds(d)' => db'.cells[Lock] = [value |-> ValueOf(d)', version |-> HeldAt(d)']
    <2> TAKE d \in Client
    <2>1. CASE d = c
      BY <2>1, <1>3, <1>5
    <2>2. CASE d # c
      BY <2>2, <1>2, Zenon DEF LockInv
    <2> QED  BY <2>1, <2>2
  <1>9. db'.cells[Lock].value # <<>> => \E d \in Client : Holds(d)'
    BY <1>2, <1>5, Zenon DEF LockInv
  <1> QED  BY <1>6, <1>7, <1>8, <1>9, Zenon DEF LockInv

\* What is known of a client before it goes on.
LEMMA ClientKnown ==
    ASSUME LockInv, NEW c \in Client
    PROVE  /\ Inside(cs[c])
           /\ Holds(c) => db.cells[Lock] = [value |-> <<c, cs[c].round>>, version |-> HeldAt(c)]
  <1>1. Inside(cs[c])
    BY DEF LockInv, LockTypes, Inside, ClientFields, Phases
  <1>2. Holds(c) => db.cells[Lock] = [value |-> ValueOf(c), version |-> HeldAt(c)]
    BY Zenon DEF LockInv
  <1> QED  BY <1>1, <1>2, Zenon DEF ValueOf

LEMMA StartRoundKeeps ==
    ASSUME LockInv, NEW c \in Client, StartRound(c)
    PROVE  LockInv'
  <1>1. PICK len \in 1..max_sequence_length :
          Go(c, [cs[c] EXCEPT !.pc = "lock", !.round = @ + 1, !.n = 0, !.nvalues = len])
    BY DEF StartRound
  <1> DEFINE g == [cs[c] EXCEPT !.pc = "lock", !.round = @ + 1, !.n = 0, !.nvalues = len]
             f == [g EXCEPT !.tries = 0]
  <1>2. cs' = [cs EXCEPT ![c] = f] /\ cached' = [cached EXCEPT ![c] = NoResp] /\ db' = db
    BY <1>1, Zenon DEF Go, StartRound
  <1>3. DOMAIN cs[c] = ClientFields /\ cs[c].pc = "idle"
    BY ClientKnown DEF Inside, StartRound
  <1>4. DOMAIN g = ClientFields /\ g.pc = "lock" /\ g.n = 0 /\ g.nvalues = len
    BY <1>3 DEF ClientFields
  <1> HIDE DEF g
  <1>5. DOMAIN f = ClientFields /\ f.pc = "lock" /\ f.n = 0 /\ f.nvalues = len
    BY <1>4 DEF ClientFields
  <1> HIDE DEF f
  <1>6. Inside(f)
    BY <1>5, KeysAssumption DEF Inside, Phases
  <1>7. ~Holds(c)
    BY <1>3 DEF Holds
  <1> QED  BY <1>2, <1>5, <1>6, <1>7, GoKeeps

\* The same request again: only the count of attempts changes.
LEMMA TriesKeeps ==
    ASSUME LockInv, NEW c \in Client, cs' = [cs EXCEPT ![c].tries = @ + 1], cached' = cached, db' = db
    PROVE  LockInv'
  <1>1. DOMAIN cs' = Client /\ \A d \in Client \ {c} : cs'[d] = cs[d]
    BY DEF LockInv, LockTypes
  <1>2. Inside(cs[c])
    BY ClientKnown
  <1>3. /\ DOMAIN cs'[c] = DOMAIN cs[c] /\ cs'[c].pc = cs[c].pc /\ cs'[c].round = cs[c].round /\ cs'[c].n = cs[c].n
        /\ cs'[c].nvalues = cs[c].nvalues /\ cs'[c].lock_version = cs[c].lock_version
    BY <1>2 DEF LockInv, LockTypes, Inside, ClientFields
  <1>4. \A d \in Client :
          /\ DOMAIN cs'[d] = DOMAIN cs[d] /\ cs'[d].pc = cs[d].pc /\ cs'[d].round = cs[d].round /\ cs'[d].n = cs[d].n
          /\ cs'[d].nvalues = cs[d].nvalues /\ cs'[d].lock_version = cs[d].lock_version
    BY <1>1, <1>3, Zenon
  <1>5. \A d \in Client : /\ HasResponse(d)' = HasResponse(d) /\ Holds(d)' = Holds(d)
                          /\ ValueOf(d)' = ValueOf(d) /\ HeldAt(d)' = HeldAt(d)
    BY <1>4, Zenon DEF HasResponse, Holds, ValueOf, HeldAt
  <1>6. LockTypes'
    BY <1>1, <1>4, Zenon DEF LockInv, LockTypes
  <1>7. Responses'
    <2> SUFFICES ASSUME NEW d \in Client, HasResponse(d)'
                 PROVE  /\ cs'[d].pc = "lock" => cached[d].errcode = "ok" \/ (cached[d].actual[1] # d /\ cached[d].actual # ValueOf(d)')
                        /\ cs'[d].pc = "write" => cached[d].errcode = "ok"
                        /\ cs'[d].pc = "clear" => cached[d].errcode # "no_match"
      BY Zenon DEF Responses
    <2>1. HasResponse(d) /\ cs'[d].pc = cs[d].pc /\ ValueOf(d)' = ValueOf(d)
      BY <1>4, <1>5, Zenon
    <2> QED  BY <2>1, Zenon DEF LockInv, Responses
  <1> QED  BY <1>5, <1>6, <1>7, Zenon DEF LockInv

\* The lock is taken, or the client gives up; it never waits for itself.
LEMMA LockedKeeps ==
    ASSUME LockInv, NEW c \in Client, Locked(c)
    PROVE  LockInv'
  <1> DEFINE resp == cached[c]
             g == [cs[c] EXCEPT !.pc = "write", !.lock_version = resp.version]
             h == [cs[c] EXCEPT !.pc = "thrown"]
  <1>1. /\ cs[c].pc = "lock" /\ HasResponse(c) /\ db' = db
        /\ IF resp.errcode = "ok" \/ (resp.actual = ValueOf(c) /\ cs[c].tries > 0) THEN Go(c, g)
           ELSE IF resp.actual[1] # c THEN Go(c, h)
           ELSE cs' = [cs EXCEPT ![c].tries = @ + 1] /\ UNCHANGED cached
    BY Zenon DEF Locked
  <1>2. resp.errcode = "ok" \/ (resp.actual[1] # c /\ resp.actual # ValueOf(c))
    BY <1>1, Zenon DEF LockInv, Responses
  <1>3. Inside(cs[c]) /\ (Holds(c) => db.cells[Lock] = [value |-> <<c, cs[c].round>>, version |-> HeldAt(c)])
    BY ClientKnown
  <1>4. CASE resp.errcode = "ok"
    <2> DEFINE f == [g EXCEPT !.tries = 0]
    <2>1. cs' = [cs EXCEPT ![c] = f] /\ cached' = [cached EXCEPT ![c] = NoResp]
      BY <1>1, <1>4, Zenon DEF Go
    <2>2. /\ DOMAIN g = ClientFields /\ g.pc = "write" /\ g.n = cs[c].n /\ g.nvalues = cs[c].nvalues
          /\ g.round = cs[c].round /\ g.lock_version = resp.version
      BY <1>3 DEF Inside, ClientFields
    <2> HIDE DEF g
    <2>3. /\ DOMAIN f = ClientFields /\ f.pc = "write" /\ f.n = cs[c].n /\ f.nvalues = cs[c].nvalues
          /\ f.round = cs[c].round /\ f.lock_version = resp.version
      BY <2>2 DEF ClientFields
    <2> HIDE DEF f
    <2>4. Inside(f)
      BY <1>1, <1>3, <2>3 DEF Inside, Phases
    <2>5. Holds(c) /\ HeldAt(c) = resp.version
      BY <1>1, <1>4 DEF Holds, HeldAt
    <2>6. f.pc = "write" /\ db.cells[Lock] = [value |-> <<c, f.round>>, version |-> f.lock_version]
      BY <1>3, <2>3, <2>5
    <2>7. db' = db
      BY <1>1
    <2> QED  BY <2>1, <2>4, <2>6, <2>7, GoKeeps
  <1>5. CASE resp.errcode # "ok"
    <2> DEFINE f == [h EXCEPT !.tries = 0]
    <2>1. cs' = [cs EXCEPT ![c] = f] /\ cached' = [cached EXCEPT ![c] = NoResp]
      BY <1>1, <1>2, <1>5, Zenon DEF Go
    <2>2. DOMAIN h = ClientFields /\ h.pc = "thrown"
      BY <1>3 DEF Inside, ClientFields
    <2> HIDE DEF h
    <2>3. DOMAIN f = ClientFields /\ f.pc = "thrown"
      BY <2>2 DEF ClientFields
    <2> HIDE DEF f
    <2>4. Inside(f)
      BY <2>3 DEF Inside, Phases
    <2>5. ~Holds(c)
      BY <1>1, <1>5 DEF Holds
    <2> QED  BY <1>1, <2>1, <2>3, <2>4, <2>5, GoKeeps
  <1> QED  BY <1>4, <1>5

\* After a value the client has the lock still, and its next key is a value's.
LEMMA NextValueKeeps ==
    ASSUME LockInv, NEW c \in Client, cs[c].pc \in {"write", "clear"}, db' = db,
           Go(c, AfterValue(cs[c])) \/ Go(c, [cs[c] EXCEPT !.pc = "unlock"])
    PROVE  LockInv'
  <1> DEFINE e == cs[c]
  <1>1. Inside(e) /\ (Holds(c) => db.cells[Lock] = [value |-> <<c, e.round>>, version |-> HeldAt(c)])
    BY ClientKnown
  <1>2. db.cells[Lock] = [value |-> <<c, e.round>>, version |-> e.lock_version]
    <2>1. Holds(c) /\ HeldAt(c) = e.lock_version
      BY DEF Holds, HeldAt
    <2> QED  BY <1>1, <2>1
  <1>3. /\ DOMAIN e = ClientFields /\ e.n \in 0..(max_sequence_length - 1) /\ e.nvalues \in 1..max_sequence_length
        /\ max_sequence_length \in Nat
    BY <1>1, KeysAssumption DEF Inside
  <1>4. ASSUME NEW g, Go(c, g), DOMAIN g = ClientFields, g.pc \in {"write", "clear", "unlock"},
               g.round = e.round, g.lock_version = e.lock_version,
               g.pc # "unlock" => g.n \in 0..(max_sequence_length - 1) /\ g.nvalues \in 1..max_sequence_length
        PROVE  LockInv'
    <2> DEFINE f == [g EXCEPT !.tries = 0]
    <2>1. cs' = [cs EXCEPT ![c] = f] /\ cached' = [cached EXCEPT ![c] = NoResp]
      BY <1>4, Zenon DEF Go
    <2>2. /\ DOMAIN f = ClientFields /\ f.pc = g.pc /\ f.n = g.n /\ f.nvalues = g.nvalues
          /\ f.round = g.round /\ f.lock_version = g.lock_version
      BY <1>4 DEF ClientFields
    <2> HIDE DEF f
    <2>3. Inside(f)
      BY <1>4, <2>2 DEF Inside, Phases
    <2> QED  BY <1>2, <1>4, <2>1, <2>2, <2>3, GoKeeps
  <1>5. CASE Go(c, [e EXCEPT !.pc = "unlock"])
    <2> DEFINE g == [e EXCEPT !.pc = "unlock"]
    <2>1. DOMAIN g = ClientFields /\ g.pc = "unlock" /\ g.round = e.round /\ g.lock_version = e.lock_version
      BY <1>3 DEF ClientFields
    <2>2. Go(c, g)
      BY <1>5
    <2> HIDE DEF g
    <2> QED  BY <1>4, <2>1, <2>2
  <1>6. CASE Go(c, AfterValue(e))
    <2> DEFINE w == [e EXCEPT !.pc = "write", !.n = @ + 1]
               k == [e EXCEPT !.pc = "clear", !.n = @ + 1]
               u == [e EXCEPT !.pc = "unlock"]
    <2>1. /\ DOMAIN w = ClientFields /\ w.pc = "write" /\ w.n = e.n + 1 /\ w.nvalues = e.nvalues
          /\ w.round = e.round /\ w.lock_version = e.lock_version
      BY <1>3 DEF ClientFields
    <2>2. /\ DOMAIN k = ClientFields /\ k.pc = "clear" /\ k.n = e.n + 1 /\ k.nvalues = e.nvalues
          /\ k.round = e.round /\ k.lock_version = e.lock_version
      BY <1>3 DEF ClientFields
    <2>3. AfterValue(e) = IF e.n + 1 < e.nvalues THEN w ELSE IF e.n + 1 < max_sequence_length THEN k ELSE u
      BY DEF AfterValue
    <2> HIDE DEF w, k, e
    <2>4. CASE e.n + 1 < e.nvalues
      <3>1. w.n \in 0..(max_sequence_length - 1) /\ w.nvalues \in 1..max_sequence_length
        BY <1>3, <2>1, <2>4
      <3>2. Go(c, w)
        BY <1>6, <2>3, <2>4
      <3> QED  BY <1>4, <2>1, <3>1, <3>2
    <2>5. CASE ~(e.n + 1 < e.nvalues) /\ e.n + 1 < max_sequence_length
      <3>1. k.n \in 0..(max_sequence_length - 1) /\ k.nvalues \in 1..max_sequence_length
        BY <1>3, <2>2, <2>5
      <3>2. Go(c, k)
        BY <1>6, <2>3, <2>5
      <3> QED  BY <1>4, <2>2, <3>1, <3>2
    <2>6. CASE ~(e.n + 1 < e.nvalues) /\ ~(e.n + 1 < max_sequence_length)
      BY <1>5, <1>6, <2>3, <2>6
    <2> QED  BY <2>4, <2>5, <2>6
  <1> QED  BY <1>5, <1>6

LEMMA WrittenKeeps ==
    ASSUME LockInv, NEW c \in Client, Written(c)
    PROVE  LockInv'
  <1>1. cs[c].pc = "write" /\ HasResponse(c) /\ db' = db
    BY DEF Written
  <1>2. cached[c].errcode = "ok"
    BY <1>1 DEF LockInv, Responses
  <1>3. Go(c, AfterValue(cs[c]))
    BY <1>2, Zenon DEF Written
  <1> QED  BY <1>1, <1>3, NextValueKeeps

LEMMA ClearedKeeps ==
    ASSUME LockInv, NEW c \in Client, Cleared(c)
    PROVE  LockInv'
  <1>1. cs[c].pc = "clear" /\ HasResponse(c) /\ db' = db
    BY DEF Cleared
  <1>2. cached[c].errcode # "no_match"
    BY <1>1 DEF LockInv, Responses
  <1>3. Go(c, AfterValue(cs[c])) \/ Go(c, [cs[c] EXCEPT !.pc = "unlock"])
    BY <1>2, Zenon DEF Cleared
  <1> QED  BY <1>1, <1>3, NextValueKeeps

LEMMA UnlockedKeeps ==
    ASSUME LockInv, NEW c \in Client, Unlocked(c)
    PROVE  LockInv'
  <1>1. PICK l \in {"thrown", "idle"} : Go(c, [cs[c] EXCEPT !.pc = l])
    <2> DEFINE l == IF cached[c].errcode # "ok" /\ cs[c].tries = 0 THEN "thrown" ELSE "idle"
    <2>1. l \in {"thrown", "idle"}
      OBVIOUS
    <2>2. Go(c, [cs[c] EXCEPT !.pc = l])
      BY Zenon DEF Unlocked
    <2> HIDE DEF l
    <2> QED  BY <2>1, <2>2, Zenon
  <1>2. cs[c].pc = "unlock" /\ HasResponse(c) /\ db' = db
    BY DEF Unlocked
  <1> DEFINE g == [cs[c] EXCEPT !.pc = l]
             f == [g EXCEPT !.tries = 0]
  <1>3. cs' = [cs EXCEPT ![c] = f] /\ cached' = [cached EXCEPT ![c] = NoResp]
    BY <1>1, Zenon DEF Go
  <1>4. DOMAIN cs[c] = ClientFields
    BY ClientKnown DEF Inside
  <1>5. DOMAIN g = ClientFields /\ g.pc = l
    BY <1>4 DEF ClientFields
  <1> HIDE DEF g
  <1>6. DOMAIN f = ClientFields /\ f.pc = l
    BY <1>5 DEF ClientFields
  <1> HIDE DEF f
  <1>7. Inside(f) /\ f.pc \notin {"write", "clear", "unlock"}
    BY <1>1, <1>6 DEF Inside, Phases
  <1>8. ~Holds(c)
    BY <1>2 DEF Holds
  <1> QED  BY <1>2, <1>3, <1>7, <1>8, GoKeeps

\* What a removal does to the cells.
DbFields == {"next_version", "cells", "recent_removes"}

LEMMA RemoveCells ==
    ASSUME NEW a, DOMAIN a = DbFields, DOMAIN a.cells = Key, NEW k \in Key
    PROVE  LET b == do_remove(a, k)
           IN  /\ DOMAIN b = DbFields /\ DOMAIN b.cells = Key
               /\ b.cells[k] = nonexistent_vv
               /\ \A j \in Key : j # k => b.cells[j] = a.cells[j]
  <1> DEFINE b == do_remove(a, k)
  <1>1. DOMAIN b = DbFields /\ b.cells = [a.cells EXCEPT ![k] = nonexistent_vv]
    BY Zenon DEF do_remove, DbFields
  <1> HIDE DEF b
  <1>2. DOMAIN b.cells = Key /\ b.cells[k] = nonexistent_vv /\ \A j \in Key : j # k => b.cells[j] = a.cells[j]
    BY <1>1
  <1> QED  BY <1>1, <1>2, Zenon DEF b

\* A request is executed. A client that may have the lock is left with its
\* cell, and whoever is left with a cell has it.
LEMMA ExecutedKeeps ==
    ASSUME LockInv, NEW c \in Client, ~HasResponse(c), NEW r, r # NoResp,
           cs' = cs, cached' = [cached EXCEPT ![c] = r],
           DOMAIN db' = DbFields, DOMAIN db'.cells = Key,
           /\ cs[c].pc = "lock" => r.errcode = "ok" \/ (r.actual[1] # c /\ r.actual # ValueOf(c))
           /\ cs[c].pc = "write" => r.errcode = "ok"
           /\ cs[c].pc = "clear" => r.errcode # "no_match",
           \A d \in Client \ {c} : Holds(d) => db'.cells[Lock] = db.cells[Lock],
           Holds(c)' => db'.cells[Lock] = [value |-> ValueOf(c), version |-> HeldAt(c)'],
           db'.cells[Lock].value # <<>> => Holds(c)' \/ \E d \in Client \ {c} : Holds(d)
    PROVE  LockInv'
  <1>1. DOMAIN cached' = Client /\ cached'[c] = r /\ \A d \in Client \ {c} : cached'[d] = cached[d]
    BY DEF LockInv, LockTypes
  <1>2. \A d \in Client \ {c} : /\ HasResponse(d)' = HasResponse(d) /\ Holds(d)' = Holds(d)
                                /\ ValueOf(d)' = ValueOf(d) /\ HeldAt(d)' = HeldAt(d)
    BY <1>1, Zenon DEF HasResponse, Holds, ValueOf, HeldAt
  <1>3. ValueOf(c)' = ValueOf(c)
    BY Zenon DEF ValueOf
  <1>4. LockTypes'
    BY <1>1, Zenon DEF LockInv, LockTypes, DbFields
  <1>5. Responses'
    <2> SUFFICES ASSUME NEW d \in Client, HasResponse(d)'
                 PROVE  /\ cs'[d].pc = "lock" => cached'[d].errcode = "ok" \/ (cached'[d].actual[1] # d /\ cached'[d].actual # ValueOf(d)')
                        /\ cs'[d].pc = "write" => cached'[d].errcode = "ok"
                        /\ cs'[d].pc = "clear" => cached'[d].errcode # "no_match"
      BY Zenon DEF Responses
    <2>1. CASE d = c
      BY <1>1, <1>3, <2>1, Zenon
    <2>2. CASE d # c
      <3>1. HasResponse(d) =>
              /\ cs[d].pc = "lock" => cached[d].errcode = "ok" \/ (cached[d].actual[1] # d /\ cached[d].actual # ValueOf(d))
              /\ cs[d].pc = "write" => cached[d].errcode = "ok"
              /\ cs[d].pc = "clear" => cached[d].errcode # "no_match"
        BY DEF LockInv, Responses
      <3>2. cs'[d] = cs[d] /\ cached'[d] = cached[d] /\ HasResponse(d) /\ ValueOf(d)' = ValueOf(d)
        BY <1>1, <1>2, <2>2
      <3> QED  BY <3>1, <3>2
    <2> QED  BY <2>1, <2>2
  <1>6. \A d \in Client : Holds(d)' => db'.cells[Lock] = [value |-> ValueOf(d)', version |-> HeldAt(d)']
    <2> TAKE d \in Client
    <2>1. CASE d = c
      BY <1>3, <2>1, Zenon
    <2>2. CASE d # c
      BY <1>2, <2>2, Zenon DEF LockInv
    <2> QED  BY <2>1, <2>2
  <1>7. db'.cells[Lock].value # <<>> => \E d \in Client : Holds(d)'
    BY <1>2, Zenon
  <1> QED  BY <1>4, <1>5, <1>6, <1>7, Zenon DEF LockInv

LEMMA ExecuteKeeps ==
    ASSUME LockInv, NEW c \in Client, Execute(c)
    PROVE  LockInv'
  <1> DEFINE q == RequestOf(c)
             r == process_req(db, q)
             vv == db.cells[Lock]
  <1>1. /\ cs[c].pc \in {"lock", "write", "clear", "unlock"} /\ ~HasResponse(c)
        /\ db' = r.db /\ cs' = cs /\ cached' = [cached EXCEPT ![c] = r.resp]
    BY Zenon DEF Execute, Sending
  <1>2. DOMAIN db = DbFields /\ DOMAIN db.cells = Key /\ DOMAIN cached = Client
    BY DEF LockInv, LockTypes, DbFields
  <1>3. Lock \in Key /\ Lock \notin 0..(max_sequence_length - 1) /\ 0..(max_sequence_length - 1) \subseteq Key
    BY KeysAssumption DEF Lock
  <1>4. cached'[c] = r.resp
    BY <1>1, <1>2, Zenon
  <1>5. cached[c].errcode = "none"
    BY <1>1 DEF HasResponse, NoResp
  <1>6. ASSUME NEW d \in Client, Holds(d)
        PROVE  vv.value = <<d, cs[d].round>> /\ vv.value # <<>>
    <2>1. vv = [value |-> <<d, cs[d].round>>, version |-> HeldAt(d)]
      BY <1>6, ClientKnown, Zenon
    <2> HIDE DEF vv
    <2> QED  BY <2>1
  <1>7. Inside(cs[c])
    BY ClientKnown
  <1> HIDE DEF r
  <1>8. CASE cs[c].pc = "lock"
    <2>1. q = [type |-> "cas", key |-> Lock, expected |-> <<>>, value |-> ValueOf(c), version_match |-> any_version]
      BY <1>8, Zenon DEF RequestOf
    <2>2. q.type = "cas" /\ q.key = Lock /\ q.expected = <<>> /\ q.value = ValueOf(c) /\ q.version_match < 0
      BY <2>1 DEF any_version
    <2> HIDE DEF q
    <2>3. r = IF vv.value # <<>> THEN [db |-> db, resp |-> mod_no_match(vv)] ELSE Store(db, Lock, ValueOf(c))
      <3>1. r = process_cas(db, q)
        BY <2>2 DEF r, process_req
      <3> QED  BY <2>2, <3>1 DEF process_cas, Matches
    <2>4. ~Holds(c)
      BY <1>5, <1>8 DEF Holds
    <2>5. CASE vv.value # <<>>
      <3>1. r.db = db /\ r.resp.errcode = "no_match" /\ r.resp.actual = vv.value
        BY <2>3, <2>5 DEF mod_no_match
      <3>2. PICK d \in Client : Holds(d)
        BY <2>5, Zenon DEF LockInv
      <3>3. d # c /\ vv.value = <<d, cs[d].round>>
        BY <1>6, <2>4, <3>2
      <3>4. vv.value[1] # c /\ vv.value # ValueOf(c)
        BY <3>3 DEF ValueOf
      <3>5. r.resp # NoResp
        BY <3>1 DEF NoResp
      <3>6. ~Holds(c)'
        BY <1>1, <1>4, <1>8, <3>1 DEF Holds
      <3> QED  BY <1>1, <1>2, <1>8, <3>1, <3>2, <3>3, <3>4, <3>5, <3>6, ExecutedKeeps
    <2>6. CASE vv.value = <<>>
      <3>1. r.db = Store(db, Lock, ValueOf(c)).db /\ r.resp = mod_ok(vv.version, db.next_version)
        BY <2>3, <2>6 DEF Store
      <3>2. r.resp.errcode = "ok" /\ r.resp.version = db.next_version
        BY <3>1 DEF mod_ok
      <3>3. DOMAIN db' = DbFields /\ DOMAIN db'.cells = Key /\ db'.cells[Lock] = [value |-> ValueOf(c), version |-> db.next_version]
        <4>1. PICK w : w = [value |-> ValueOf(c), version |-> db.next_version]
          OBVIOUS
        <4>2. db' = [db EXCEPT !.cells[Lock] = w, !.next_version = @ + 1]
          BY <1>1, <3>1, <4>1 DEF Store
        <4>3. DOMAIN db' = DbFields /\ db'.cells = [db.cells EXCEPT ![Lock] = w]
          BY <1>2, <4>2 DEF DbFields
        <4> QED  BY <1>2, <1>3, <4>1, <4>3
      <3>4. \A d \in Client : ~Holds(d)
        BY <1>6, <2>6
      <3>5. r.resp # NoResp
        BY <3>2 DEF NoResp
      <3>6. Holds(c)' /\ HeldAt(c)' = db.next_version
        BY <1>1, <1>4, <1>8, <3>2 DEF Holds, HeldAt
      <3> QED  BY <1>1, <1>8, <3>2, <3>3, <3>4, <3>5, <3>6, ExecutedKeeps
    <2> QED  BY <2>5, <2>6
  <1>9. ASSUME cs[c].pc \in {"write", "clear"}, DOMAIN db' = DbFields, DOMAIN db'.cells = Key, db'.cells[Lock] = vv,
               r.resp.errcode \in {"ok", "not_found"}, cs[c].pc = "write" => r.resp.errcode = "ok"
        PROVE  LockInv'
    <2>1. Holds(c) /\ Holds(c)' /\ HeldAt(c)' = HeldAt(c)
      BY <1>1, <1>9 DEF Holds, HeldAt
    <2>2. vv = [value |-> ValueOf(c), version |-> HeldAt(c)]
      BY <2>1, Zenon DEF LockInv
    <2>3. r.resp # NoResp
      BY <1>9 DEF NoResp
    <2> QED  BY <1>1, <1>9, <2>1, <2>2, <2>3, ExecutedKeeps
  <1>10. CASE cs[c].pc = "write"
    <2>1. PICK k \in Key : k = cs[c].n /\ k # Lock
      BY <1>3, <1>7, <1>10 DEF Inside
    <2>2. PICK v : v = ValueOf(c)
      OBVIOUS
    <2>3. q = [type |-> "put", key |-> k, value |-> v, version_match |-> any_version]
      BY <1>10, <2>1, <2>2, Zenon DEF RequestOf, ValueKey
    <2>4. q.type = "put" /\ q.key = k /\ q.value = v /\ q.version_match < 0
      BY <2>3 DEF any_version
    <2> HIDE DEF q
    <2>5. r = process_put(db, q)
      BY <2>4 DEF r, process_req
    <2>6. r = Store(db, k, v)
      BY <2>4, <2>5 DEF process_put, Matches
    <2>7. r.resp.errcode = "ok"
      BY <2>6 DEF Store, mod_ok
    <2>8. db' = Store(db, k, v).db
      BY <1>1, <2>6
    <2>9. DOMAIN db' = DbFields /\ DOMAIN db'.cells = Key /\ db'.cells[Lock] = vv
      <3>1. PICK w : w = [value |-> v, version |-> db.next_version]
        OBVIOUS
      <3>2. db' = [db EXCEPT !.cells[k] = w, !.next_version = @ + 1]
        BY <2>8, <3>1 DEF Store
      <3>3. DOMAIN db' = DbFields /\ db'.cells = [db.cells EXCEPT ![k] = w]
        BY <1>2, <3>2 DEF DbFields
      <3> QED  BY <1>2, <1>3, <2>1, <3>3
    <2> QED  BY <1>9, <1>10, <2>7, <2>9
  <1>11. CASE cs[c].pc = "clear"
    <2> DEFINE k == cs[c].n
    <2>1. k \in Key /\ k # Lock
      BY <1>3, <1>7, <1>11 DEF Inside
    <2>2. q = [type |-> "remove", key |-> k, version_match |-> any_version]
      BY <1>11, Zenon DEF RequestOf, ValueKey
    <2>3. q.type = "remove" /\ q.key = k /\ q.version_match < 0
      BY <2>2 DEF any_version
    <2> HIDE DEF q, k
    <2>4. r = process_remove(db, q)
      BY <2>3 DEF r, process_req
    <2>5. CASE db.cells[k] = nonexistent_vv
      <3>1. r.db = db /\ r.resp.errcode = "not_found"
        BY <2>3, <2>4, <2>5 DEF process_remove
      <3> QED  BY <1>1, <1>2, <1>9, <1>11, <3>1
    <2>6. CASE db.cells[k] # nonexistent_vv
      <3>1. r.db = do_remove(db, k) /\ r.resp.errcode = "ok"
        BY <2>3, <2>4, <2>6 DEF process_remove, Matches, mod_ok
      <3>2. DOMAIN db' = DbFields /\ DOMAIN db'.cells = Key /\ db'.cells[Lock] = vv
        BY <1>1, <1>2, <1>3, <2>1, <3>1, RemoveCells
      <3> QED  BY <1>9, <1>11, <3>1, <3>2
    <2> QED  BY <2>5, <2>6
  <1>12. CASE cs[c].pc = "unlock"
    <2>1. q = [type |-> "remove", key |-> Lock, version_match |-> cs[c].lock_version]
      BY <1>12, Zenon DEF RequestOf
    <2>2. q.type = "remove" /\ q.key = Lock /\ q.version_match = cs[c].lock_version
      BY <2>1
    <2> HIDE DEF q
    <2>3. r = process_remove(db, q)
      BY <2>2 DEF r, process_req
    <2>4. Holds(c) /\ HeldAt(c) = cs[c].lock_version
      BY <1>1, <1>12 DEF Holds, HeldAt
    <2>5. vv.version = cs[c].lock_version /\ vv # nonexistent_vv
      <3>1. vv = [value |-> ValueOf(c), version |-> HeldAt(c)]
        BY <2>4, Zenon DEF LockInv
      <3>2. vv.value # <<>>
        BY <1>6, <2>4
      <3> QED  BY <2>4, <3>1, <3>2 DEF nonexistent_vv
    <2>6. r.db = do_remove(db, Lock) /\ r.resp.errcode = "ok"
      BY <2>2, <2>3, <2>5 DEF process_remove, Matches, mod_ok
    <2>7. DOMAIN db' = DbFields /\ DOMAIN db'.cells = Key /\ db'.cells[Lock] = nonexistent_vv
      BY <1>1, <1>2, <1>3, <2>6, RemoveCells
    <2>8. db'.cells[Lock].value = <<>>
      BY <2>7 DEF nonexistent_vv
    <2>9. \A d \in Client \ {c} : ~Holds(d)
      <3> SUFFICES ASSUME NEW d \in Client, Holds(d) PROVE d = c
        OBVIOUS
      <3>1. <<d, cs[d].round>> = <<c, cs[c].round>>
        BY <1>6, <2>4
      <3> QED  BY <3>1
    <2>10. r.resp # NoResp
      BY <2>6 DEF NoResp
    <2>11. ~Holds(c)'
      BY <1>1, <1>4, <1>12, <2>10 DEF Holds, HasResponse
    <2> QED  BY <1>1, <1>12, <2>7, <2>8, <2>9, <2>10, <2>11, ExecutedKeeps
  <1> QED  BY <1>1, <1>8, <1>10, <1>11, <1>12

LEMMA LockStep ==
    ASSUME LockInv, [LockNext]_lockVars
    PROVE  LockInv'
  <1>1. ASSUME NEW c \in Client, Retry(c) PROVE LockInv'
    BY <1>1, TriesKeeps DEF Retry
  <1>2. CASE UNCHANGED lockVars
    BY <1>2, Zenon DEF lockVars, LockInv, LockTypes, Responses, Holds, HeldAt, HasResponse, ValueOf
  <1> QED  BY <1>1, <1>2, StartRoundKeeps, LockedKeeps, WrittenKeeps, ClearedKeeps, UnlockedKeeps, ExecuteKeeps
           DEF LockNext, client

(***************************************************************************)
(* The lock excludes, for any number of clients and rounds: while a client *)
(* writes, clears or unlocks, the cell of the lock is its own, at the      *)
(* version that its release names, although requests are sent again and    *)
(* their responses come late.                                              *)
(***************************************************************************)
THEOREM MutualExclusionTheorem == LockSpec => []MutualExclusion
  <1>1. LockInv => MutualExclusion
    <2> SUFFICES ASSUME LockInv, NEW c \in Client,
                        cs[c].pc \in {"write", "clear"} \/ (cs[c].pc = "unlock" /\ ~HasResponse(c))
                 PROVE  db.cells[Lock] = [value |-> ValueOf(c), version |-> cs[c].lock_version]
      BY Zenon DEF MutualExclusion
    <2>1. Holds(c) /\ HeldAt(c) = cs[c].lock_version
      BY DEF Holds, HeldAt
    <2> QED  BY <2>1, Zenon DEF LockInv
  <1> QED  BY <1>1, LockStart, LockStep, PTL DEF LockSpec

-----------------------------------------------------------------------------
(* LockSeq: the values below the lock, and the scan that checks them.      *)

(***************************************************************************)
(* The values of the group.  The holder of the lock has written the first  *)
(* of them, then come keys it has removed, and what an earlier sequence    *)
(* left is one run of one value; without a holder there is only that run.  *)
(***************************************************************************)
OneRun(a) ==
    \A i, j \in a..(max_sequence_length - 1) : i <= j /\ Val(j) # <<>> => Val(i) = Val(j)

ValuesAre(wrote, swept, v) ==
    /\ \A i \in 0..(wrote - 1) : Val(i) = v
    /\ \A i \in wrote..(swept - 1) : Val(i) = <<>>
    /\ OneRun(swept)

\* How far a client in state e has come, with response resp to its request.
Served(resp) == IF resp = NoResp THEN 0 ELSE 1

Wrote(e, resp) ==
    CASE e.pc = "lock"  -> 0
      [] e.pc = "write" -> e.n + Served(resp)
      [] OTHER          -> e.nvalues

Swept(e, resp) ==
    CASE e.pc = "lock"  -> 0
      [] e.pc = "write" -> e.n + Served(resp)
      [] e.pc = "clear" /\ resp.errcode # "not_found" -> e.n + Served(resp)
      [] OTHER          -> max_sequence_length

Staged(e) ==
    /\ e.pc = "lock" => e.n = 0
    /\ e.pc = "write" => e.n < e.nvalues
    /\ e.pc = "clear" => e.nvalues <= e.n
    /\ e.pc = "unlock" => e.nvalues \in 1..max_sequence_length

ValuesInv ==
    /\ \A c \in Client : Staged(cs[c])
    /\ \A c \in Client : Holds(c) => ValuesAre(Wrote(cs[c], cached[c]), Swept(cs[c], cached[c]), ValueOf(c))
    /\ (\A c \in Client : ~Holds(c)) => OneRun(0)

\* Scan is what its equation says.
Scanned(g, i) ==
    IF i = 0 THEN CheckStart
    ELSE IF i - 1 \in Present THEN CheckKey(g[i - 1], i - 1) ELSE g[i - 1]

LEMMA ScanExists ==
    ASSUME NEW n \in Nat
    PROVE  \E g : g = [i \in 0..n |-> Scanned(g, i)]
  <1> DEFINE Good(k) == \E g : g = [i \in 0..k |-> Scanned(g, i)]
             T == {k \in Nat : ~Good(k)}
  <1>1. ASSUME NEW k \in Nat, Good(k) PROVE Good(k + 1)
    <2>1. PICK g : g = [i \in 0..k |-> Scanned(g, i)]
      BY <1>1
    <2> DEFINE h == [i \in 0..(k + 1) |-> IF i = k + 1 THEN Scanned(g, k + 1) ELSE g[i]]
    <2>2. \A i \in 0..k : h[i] = g[i] /\ g[i] = Scanned(g, i)
      BY <2>1
    <2>3. h[k + 1] = Scanned(g, k + 1)
      OBVIOUS
    <2>4. DOMAIN h = 0..(k + 1) /\ h = [i \in DOMAIN h |-> h[i]]
      OBVIOUS
    <2> HIDE DEF h
    <2>5. ASSUME NEW i \in 0..(k + 1) PROVE h[i] = Scanned(h, i)
      <3>1. CASE i = 0
        BY <2>2, <3>1 DEF Scanned
      <3>2. CASE i # 0
        <4>1. i - 1 \in 0..k
          BY <3>2
        <4>2. h[i - 1] = g[i - 1]
          BY <2>2, <4>1
        <4>3. Scanned(h, i) = Scanned(g, i)
          BY <4>2, Zenon DEF Scanned
        <4>4. h[i] = Scanned(g, i)
          BY <2>2, <2>3
        <4> QED  BY <4>3, <4>4
      <3> QED  BY <3>1, <3>2
    <2>6. h = [i \in 0..(k + 1) |-> Scanned(h, i)]
      BY <2>4, <2>5
    <2> QED  BY <2>6
  <1>2. Good(0)
    <2> DEFINE h == [i \in 0..0 |-> CheckStart]
    <2>1. h = [i \in 0..0 |-> Scanned(h, i)]
      BY DEF Scanned
    <2> QED  BY <2>1
  <1> HIDE DEF Good
  <1>3. T = {}
    <2> SUFFICES ASSUME T # {} PROVE FALSE
      OBVIOUS
    <2>1. PICK k \in T : \A j \in T : ~(<<j, k>> \in OpToRel(<, Nat))
      BY NatLessThanWellFounded, WFMin
    <2>2. k \in Nat /\ \A j \in T : ~(j < k)
      BY <2>1 DEF OpToRel
    <2>3. CASE k = 0
      BY <1>2, <2>1, <2>3
    <2>4. CASE k # 0
      <3>1. k - 1 \in Nat /\ k - 1 < k /\ (k - 1) + 1 = k
        BY <2>2, <2>4
      <3>2. Good(k - 1)
        BY <2>2, <3>1
      <3>3. Good(k)
        BY <1>1, <3>1, <3>2
      <3> QED  BY <2>1, <3>3
    <2> QED  BY <2>3, <2>4
  <1> QED  BY <1>3 DEF Good

LEMMA ScanDef ==
    \A i \in 0..max_sequence_length : Scan[i] = Scanned(Scan, i)
  <1>1. max_sequence_length \in Nat
    BY KeysAssumption
  <1>2. \E g : g = [i \in 0..max_sequence_length |-> Scanned(g, i)]
    BY <1>1, ScanExists
  <1>3. Scan = [i \in 0..max_sequence_length |-> Scanned(Scan, i)]
    BY <1>2, Zenon DEF Scan, Scanned
  <1> QED  BY <1>3, Zenon

LEMMA LeastOf ==
    ASSUME NEW T \in SUBSET Nat, T # {}
    PROVE  \E k \in T : \A j \in T : k <= j
  <1>1. PICK k \in T : \A j \in T : ~(<<j, k>> \in OpToRel(<, Nat))
    BY NatLessThanWellFounded, WFMin
  <1>2. k \in Nat /\ \A j \in T : j \in Nat /\ ~(j < k)
    BY <1>1 DEF OpToRel
  <1>3. \A j \in T : k <= j
    BY <1>2
  <1> QED  BY <1>3

\* The scan has come to the i-th key of a group: it is at the values of the
\* holder, in the gap, or in the last run, and has found nothing wrong.
ScanAt(i, wrote, swept, holder) ==
    /\ Scan[i].ok
    /\ i <= swept \/ Val(swept) = <<>> =>
         /\ Scan[i].lock = CheckStart.lock /\ Scan[i].value = holder
         /\ Scan[i].index = IF i <= wrote THEN i ELSE wrote
    /\ i > swept /\ Val(swept) # <<>> =>
         /\ Scan[i].value = Val(swept)
         /\ Val(i - 1) # <<>> => Scan[i].index = i

LEMMA ScanNext ==
    ASSUME NEW i \in 0..(max_sequence_length - 1), NEW wrote \in 0..max_sequence_length,
           NEW swept \in wrote..max_sequence_length, NEW holder,
           holder = db.cells[Lock].value, holder = <<>> => swept = 0,
           ValuesAre(wrote, swept, holder), ScanAt(i, wrote, swept, holder)
    PROVE  ScanAt(i + 1, wrote, swept, holder)
  <1>0. max_sequence_length \in Nat
    BY KeysAssumption
  <1>1. Scan[i + 1] = IF i \in Present THEN CheckKey(Scan[i], i) ELSE Scan[i]
    <2>1. i + 1 \in 0..max_sequence_length /\ (i + 1) - 1 = i /\ i + 1 # 0
      BY <1>0
    <2>2. Scan[i + 1] = Scanned(Scan, i + 1)
      BY <2>1, ScanDef
    <2>3. i + 1 # 0 /\ (i + 1) - 1 = i
      BY <2>1
    <2> QED  BY <2>2, <2>3 DEF Scanned
  <1>2. i \in Present <=> Val(i) # <<>>
    BY DEF Present
  <1> DEFINE st == Scan[i]
             gap == i # st.index
             lock == IF gap THEN "rest" ELSE st.lock
             value == IF gap THEN <<>> ELSE st.value
             other == value # <<>> /\ Val(i) # value
  <1>3. /\ CheckKey(st, i).ok = (st.ok /\ (gap => st.lock = "start") /\ (other => lock = "start"))
        /\ CheckKey(st, i).lock = IF other THEN "rest" ELSE lock
        /\ CheckKey(st, i).value = Val(i)
        /\ CheckKey(st, i).index = i + 1
    BY DEF CheckKey
  <1>4. CheckStart.lock = IF holder = <<>> THEN "unlocked" ELSE "start"
    BY DEF CheckStart
  <1>5. st.ok
    BY DEF ScanAt
  <1>6. ASSUME NEW j \in swept..(max_sequence_length - 1), NEW k \in swept..(max_sequence_length - 1), j <= k, Val(k) # <<>>
        PROVE  Val(j) = Val(k)
    BY <1>6 DEF ValuesAre, OneRun
  <1>7. CASE i < wrote
    <2>1. Val(i) = holder
      BY <1>7 DEF ValuesAre
    <2>2. holder # <<>>
      BY <1>0, <1>7
    <2>3. st.lock = CheckStart.lock /\ st.value = holder /\ st.index = i
      BY <1>7 DEF ScanAt
    <2>4. ~gap /\ ~other /\ lock = CheckStart.lock
      BY <2>1, <2>3
    <2>5. Scan[i + 1] = CheckKey(st, i)
      BY <1>1, <1>2, <2>1, <2>2
    <2>6. CheckKey(st, i).ok /\ CheckKey(st, i).lock = CheckStart.lock
      BY <1>3, <1>5, <2>4
    <2>7. Scan[i + 1].value = holder /\ Scan[i + 1].index = i + 1 /\ i + 1 <= wrote /\ i + 1 <= swept
      BY <1>0, <1>3, <1>7, <2>1, <2>5
    <2> HIDE DEF st, gap, lock, value, other
    <2>8. Scan[i + 1].ok /\ Scan[i + 1].lock = CheckStart.lock
      BY <2>5, <2>6
    <2> QED  BY <2>7, <2>8 DEF ScanAt
  <1>8. CASE wrote <= i /\ i < swept
    <2>1. Val(i) = <<>>
      BY <1>0, <1>8 DEF ValuesAre
    <2>2. Scan[i + 1] = st
      BY <1>1, <1>2, <2>1
    <2>3. st.lock = CheckStart.lock /\ st.value = holder /\ st.index = wrote
      BY <1>8 DEF ScanAt
    <2> QED  BY <1>5, <1>8, <2>2, <2>3 DEF ScanAt
  <1>9. CASE i >= swept /\ Val(i) = <<>>
    <2>1. Scan[i + 1] = st
      BY <1>1, <1>2, <1>9
    <2>2. CASE Val(swept) = <<>>
      <3>1. st.lock = CheckStart.lock /\ st.value = holder /\ st.index = IF i <= wrote THEN i ELSE wrote
        BY <2>2 DEF ScanAt
      <3>2. i >= wrote /\ i + 1 > wrote
        BY <1>0, <1>9
      <3>3. st.index = wrote
        BY <3>1, <3>2
      <3> QED  BY <1>0, <1>5, <2>1, <2>2, <3>1, <3>2, <3>3 DEF ScanAt
    <2>3. CASE Val(swept) # <<>>
      <3>1. i > swept
        BY <1>9, <2>3
      <3>2. st.value = Val(swept)
        BY <2>3, <3>1 DEF ScanAt
      <3>3. (i + 1) - 1 = i /\ ~(i + 1 <= swept)
        BY <1>0, <3>1
      <3> QED  BY <1>5, <1>9, <2>1, <2>3, <3>2, <3>3 DEF ScanAt
    <2> QED  BY <2>2, <2>3
  <1>10. CASE i >= swept /\ Val(i) # <<>>
    <2>1. Scan[i + 1] = CheckKey(st, i)
      BY <1>1, <1>2, <1>10
    <2>2. Val(swept) = Val(i)
      <3>1. swept \in swept..(max_sequence_length - 1) /\ i \in swept..(max_sequence_length - 1) /\ swept <= i
        BY <1>0, <1>10
      <3> QED  BY <1>6, <1>10, <3>1
    <2>3. (gap => st.lock = "start") /\ (other => lock = "start")
      <3>1. CASE i = swept
        <4>1. st.lock = CheckStart.lock /\ st.value = holder /\ st.index = IF i <= wrote THEN i ELSE wrote
          BY <3>1 DEF ScanAt
        <4>2. holder = <<>> => ~gap
          BY <1>0, <3>1, <4>1
        <4>3. holder = <<>> => ~other
          BY <4>1, <4>2
        <4>4. holder # <<>> => st.lock = "start"
          BY <1>4, <4>1
        <4> QED  BY <4>2, <4>3, <4>4
      <3>2. CASE i > swept
        <4>1. Val(i - 1) = Val(i)
          <5>1. i - 1 \in swept..(max_sequence_length - 1) /\ i \in swept..(max_sequence_length - 1) /\ i - 1 <= i
            BY <1>0, <3>2
          <5> QED  BY <1>6, <1>10, <5>1
        <4>2. st.value = Val(swept) /\ st.index = i
          BY <1>10, <2>2, <3>2, <4>1 DEF ScanAt
        <4> QED  BY <2>2, <4>2
      <3> QED  BY <1>0, <1>10, <3>1, <3>2
    <2>4. Scan[i + 1].ok /\ Scan[i + 1].value = Val(swept) /\ Scan[i + 1].index = i + 1
      BY <1>3, <1>5, <2>1, <2>2, <2>3
    <2>5. Val(swept) # <<>> /\ ~(i + 1 <= swept)
      BY <1>0, <1>10, <2>2
    <2> HIDE DEF st, gap, lock, value, other
    <2> QED  BY <2>4, <2>5 DEF ScanAt
  <1> QED  BY <1>0, <1>7, <1>8, <1>9, <1>10

LEMMA GroupAccepted ==
    ASSUME NEW wrote \in 0..max_sequence_length, NEW swept \in wrote..max_sequence_length, NEW holder,
           holder = db.cells[Lock].value, holder = <<>> => swept = 0, ValuesAre(wrote, swept, holder)
    PROVE  check
  <1>0. max_sequence_length \in Nat
    BY KeysAssumption
  <1> DEFINE T == {i \in 0..max_sequence_length : ~ScanAt(i, wrote, swept, holder)}
  <1>1. ScanAt(0, wrote, swept, holder)
    <2>1. Scan[0] = CheckStart
      <3>1. 0 \in 0..max_sequence_length
        BY <1>0
      <3>2. Scan[0] = Scanned(Scan, 0)
        BY <3>1, ScanDef
      <3> QED  BY <3>2, Zenon DEF Scanned
    <2>2. CheckStart.ok /\ CheckStart.value = holder /\ CheckStart.index = 0
      BY DEF CheckStart
    <2> QED  BY <1>0, <2>1, <2>2 DEF ScanAt
  <1>2. T = {}
    <2> SUFFICES ASSUME T # {} PROVE FALSE
      OBVIOUS
    <2>1. PICK k \in T : \A j \in T : k <= j
      <3>1. T \in SUBSET Nat
        OBVIOUS
      <3> HIDE DEF T
      <3> QED  BY <3>1, LeastOf
    <2>2. k \in 1..max_sequence_length
      BY <1>0, <1>1, <2>1
    <2>3. k - 1 \in 0..(max_sequence_length - 1) /\ k - 1 \in 0..max_sequence_length /\ (k - 1) + 1 = k /\ ~(k <= k - 1)
      BY <1>0, <2>2
    <2>4. ScanAt(k - 1, wrote, swept, holder)
      BY <2>1, <2>3
    <2>5. ScanAt((k - 1) + 1, wrote, swept, holder)
      BY <2>3, <2>4, ScanNext
    <2> QED  BY <2>1, <2>3, <2>5
  <1>3. ScanAt(max_sequence_length, wrote, swept, holder)
    BY <1>0, <1>2
  <1> QED  BY <1>3 DEF check, ScanAt

LEMMA ValuesStart == LockInit => ValuesInv
  <1> SUFFICES ASSUME LockInit PROVE ValuesInv
    OBVIOUS
  <1>1. /\ db = EmptyDb
        /\ \A c \in Client : cs[c].pc = "idle" /\ cached[c] = NoResp
    BY DEF LockInit
  <1>2. \A i \in 0..(max_sequence_length - 1) : Val(i) = <<>>
    BY <1>1, KeysAssumption DEF Val, ValueKey, EmptyDb, nonexistent_vv
  <1>3. OneRun(0)
    BY <1>2 DEF OneRun
  <1>4. \A c \in Client : ~Holds(c) /\ Staged(cs[c])
    BY <1>1 DEF Holds, Staged
  <1> QED  BY <1>3, <1>4 DEF ValuesInv

\* At most one client has the lock.
LEMMA OneHolder ==
    ASSUME LockInv, NEW c \in Client, NEW d \in Client, Holds(c), Holds(d)
    PROVE  c = d
  <1>1. /\ db.cells[Lock] = [value |-> <<c, cs[c].round>>, version |-> HeldAt(c)]
        /\ db.cells[Lock] = [value |-> <<d, cs[d].round>>, version |-> HeldAt(d)]
    BY ClientKnown
  <1>2. db.cells[Lock].value = <<c, cs[c].round>> /\ db.cells[Lock].value = <<d, cs[d].round>>
    BY <1>1
  <1> QED  BY <1>2

\* The values, and so the runs, are functions of the cells.
LEMMA RunsSame ==
    ASSUME \A i \in 0..(max_sequence_length - 1) : Val(i)' = Val(i)
    PROVE  /\ OneRun(0) => OneRun(0)'
           /\ \A w \in 0..max_sequence_length : \A s \in w..max_sequence_length : \A v :
                ValuesAre(w, s, v) => ValuesAre(w, s, v)'
  <1>0. max_sequence_length \in Nat
    BY KeysAssumption
  <1>1. ASSUME NEW a \in Nat, OneRun(a) PROVE OneRun(a)'
    <2> SUFFICES ASSUME NEW i \in a..(max_sequence_length - 1), NEW j \in a..(max_sequence_length - 1),
                        i <= j, Val(j)' # <<>>
                 PROVE  Val(i)' = Val(j)'
      BY DEF OneRun
    <2>1. i \in 0..(max_sequence_length - 1) /\ j \in 0..(max_sequence_length - 1)
      BY <1>0
    <2>2. Val(i)' = Val(i) /\ Val(j)' = Val(j)
      BY <2>1
    <2> QED  BY <1>1, <2>2 DEF OneRun
  <1>2. ASSUME NEW w \in 0..max_sequence_length, NEW s \in w..max_sequence_length, NEW v, ValuesAre(w, s, v)
        PROVE  ValuesAre(w, s, v)'
    <2>1. \A i \in 0..(w - 1) : i \in 0..(max_sequence_length - 1) /\ Val(i)' = v
      BY <1>0, <1>2 DEF ValuesAre
    <2>2. \A i \in w..(s - 1) : i \in 0..(max_sequence_length - 1) /\ Val(i)' = <<>>
      BY <1>0, <1>2 DEF ValuesAre
    <2>3. OneRun(s)'
      BY <1>0, <1>1, <1>2 DEF ValuesAre
    <2> QED  BY <2>1, <2>2, <2>3 DEF ValuesAre
  <1> QED  BY <1>1, <1>2

\* Where a client that has the lock can be.
LEMMA StageRange ==
    ASSUME LockInv, ValuesInv, NEW c \in Client, Holds(c)
    PROVE  /\ Wrote(cs[c], cached[c]) \in 0..max_sequence_length
           /\ Swept(cs[c], cached[c]) \in Wrote(cs[c], cached[c])..max_sequence_length
  <1> DEFINE e == cs[c]
  <1>0. max_sequence_length \in Nat
    BY KeysAssumption
  <1>1. Inside(e) /\ Staged(e)
    BY ClientKnown DEF ValuesInv
  <1>2. e.pc \in {"lock", "write", "clear", "unlock"}
    BY DEF Holds
  <1>3. Served(cached[c]) \in {0, 1}
    BY DEF Served
  <1> HIDE DEF e
  <1>4. CASE e.pc = "lock"
    BY <1>0, <1>4 DEF Wrote, Swept, e
  <1>5. CASE e.pc = "write"
    <2>1. e.n + Served(cached[c]) \in 0..max_sequence_length
      BY <1>0, <1>1, <1>3, <1>5 DEF Inside, Staged
    <2>2. Wrote(cs[c], cached[c]) = e.n + Served(cached[c]) /\ Swept(cs[c], cached[c]) = e.n + Served(cached[c])
      BY <1>5 DEF Wrote, Swept, e
    <2> QED  BY <1>0, <2>1, <2>2
  <1>6. CASE e.pc = "clear"
    <2>1. e.nvalues \in 0..max_sequence_length /\ e.n + Served(cached[c]) \in e.nvalues..max_sequence_length
      BY <1>0, <1>1, <1>3, <1>6 DEF Inside, Staged
    <2>2. Wrote(cs[c], cached[c]) = e.nvalues
      BY <1>6 DEF Wrote, e
    <2>3. Swept(cs[c], cached[c]) = IF cached[c].errcode # "not_found" THEN e.n + Served(cached[c]) ELSE max_sequence_length
      BY <1>6 DEF Swept, e
    <2> QED  BY <1>0, <2>1, <2>2, <2>3
  <1>7. CASE e.pc = "unlock"
    <2>1. e.nvalues \in 0..max_sequence_length
      BY <1>0, <1>1, <1>7 DEF Staged
    <2>2. Wrote(cs[c], cached[c]) = e.nvalues /\ Swept(cs[c], cached[c]) = max_sequence_length
      BY <1>7 DEF Wrote, Swept, e
    <2> QED  BY <1>0, <2>1, <2>2
  <1> QED  BY <1>2, <1>4, <1>5, <1>6, <1>7

LEMMA InvAccepts ==
    ASSUME LockInv, ValuesInv
    PROVE  CheckAccepts
  <1>0. max_sequence_length \in Nat
    BY KeysAssumption
  <1>1. CASE \A c \in Client : ~Holds(c)
    <2>1. db.cells[Lock].value = <<>>
      BY <1>1, Zenon DEF LockInv
    <2>2. ValuesAre(0, 0, <<>>)
      BY <1>1 DEF ValuesInv, ValuesAre
    <2> QED  BY <1>0, <2>1, <2>2, GroupAccepted DEF CheckAccepts
  <1>2. ASSUME NEW c \in Client, Holds(c) PROVE CheckAccepts
    <2>1. db.cells[Lock] = [value |-> <<c, cs[c].round>>, version |-> HeldAt(c)]
      BY <1>2, ClientKnown
    <2>2. db.cells[Lock].value = <<c, cs[c].round>> /\ db.cells[Lock].value # <<>>
      BY <2>1
    <2>3. ValuesAre(Wrote(cs[c], cached[c]), Swept(cs[c], cached[c]), <<c, cs[c].round>>)
      BY <1>2, Zenon DEF ValuesInv, ValueOf
    <2>4. /\ Wrote(cs[c], cached[c]) \in 0..max_sequence_length
          /\ Swept(cs[c], cached[c]) \in Wrote(cs[c], cached[c])..max_sequence_length
      BY <1>2, StageRange
    <2> QED  BY <2>2, <2>3, <2>4, GroupAccepted DEF CheckAccepts
  <1> QED  BY <1>1, <1>2

\* A client goes on without a request answered there.
LEMMA GoValues ==
    ASSUME LockInv, ValuesInv, NEW c \in Client, NEW f, Staged(f),
           cs' = [cs EXCEPT ![c] = f], cached' = [cached EXCEPT ![c] = NoResp], db' = db,
           f.pc \in {"write", "clear", "unlock"} =>
             ValuesAre(Wrote(f, NoResp), Swept(f, NoResp), <<c, f.round>>),
           f.pc \notin {"write", "clear", "unlock"} => ~Holds(c)
    PROVE  ValuesInv'
  <1>1. /\ cs'[c] = f /\ cached'[c] = NoResp
        /\ \A d \in Client \ {c} : cs'[d] = cs[d] /\ cached'[d] = cached[d]
    BY DEF LockInv, LockTypes
  <1>2. \A d \in Client \ {c} : Holds(d)' = Holds(d) /\ ValueOf(d)' = ValueOf(d)
    BY <1>1, Zenon DEF HasResponse, Holds, ValueOf
  <1>3. Holds(c)' => f.pc \in {"write", "clear", "unlock"}
    BY <1>1 DEF Holds, NoResp
  <1>4. ValueOf(c)' = <<c, f.round>>
    BY <1>1 DEF ValueOf
  <1>5. \A i, j : OneRun(i)' = OneRun(i) /\ \A v : ValuesAre(i, j, v)' = ValuesAre(i, j, v)
    BY DEF OneRun, ValuesAre, Val, ValueKey
  <1>6. \A d \in Client : Staged(cs[d])'
    <2> TAKE d \in Client
    <2>1. Staged(cs'[d])
      BY <1>1, Zenon DEF ValuesInv
    <2> QED  BY <2>1 DEF Staged
  <1>7. ASSUME NEW d \in Client, Holds(d)'
        PROVE  ValuesAre(Wrote(cs[d], cached[d]), Swept(cs[d], cached[d]), ValueOf(d))'
    <2>1. CASE d = c
      <3>1. ValuesAre(Wrote(cs'[d], cached'[d]), Swept(cs'[d], cached'[d]), <<c, f.round>>)
        BY <1>1, <1>3, <1>7, <2>1
      <3> QED  BY <1>4, <2>1, <3>1 DEF OneRun, ValuesAre, Val, ValueKey, Wrote, Swept, Served
    <2>2. CASE d # c
      <3>1. ValuesAre(Wrote(cs[d], cached[d]), Swept(cs[d], cached[d]), ValueOf(d))
        BY <1>2, <1>7, <2>2 DEF ValuesInv
      <3>2. cs'[d] = cs[d] /\ cached'[d] = cached[d] /\ ValueOf(d)' = ValueOf(d)
        BY <1>1, <1>2, <2>2
      <3> QED  BY <3>1, <3>2 DEF OneRun, ValuesAre, Val, ValueKey, Wrote, Swept, Served
    <2> QED  BY <2>1, <2>2
  <1>8. (\A d \in Client : ~Holds(d)') => OneRun(0)'
    <2> SUFFICES ASSUME \A d \in Client : ~Holds(d)' PROVE OneRun(0)'
      OBVIOUS
    <2>1. ~Holds(c)
      <3>1. f.pc \in {"write", "clear", "unlock"} => Holds(c)'
        BY <1>1 DEF Holds, HasResponse
      <3> QED  BY <3>1
    <2>2. \A d \in Client : ~Holds(d)
      BY <1>2, <2>1
    <2> QED  BY <1>5, <2>2 DEF ValuesInv
  <1> QED  BY <1>6, <1>7, <1>8, Zenon DEF ValuesInv

\* What a holder has swept to the end, it has swept to any point.
LEMMA SweptAll ==
    ASSUME NEW w \in 0..max_sequence_length, NEW s \in w..max_sequence_length, NEW v,
           ValuesAre(w, max_sequence_length, v)
    PROVE  ValuesAre(w, s, v)
  <1>0. max_sequence_length \in Nat
    BY KeysAssumption
  <1>1. \A i \in w..(max_sequence_length - 1) : Val(i) = <<>>
    BY DEF ValuesAre
  <1>2. \A i \in w..(s - 1) : Val(i) = <<>>
    BY <1>0, <1>1
  <1>3. \A i \in s..(max_sequence_length - 1) : Val(i) = <<>>
    BY <1>0, <1>1
  <1> QED  BY <1>2, <1>3 DEF ValuesAre, OneRun

LEMMA StartRoundValues ==
    ASSUME LockInv, ValuesInv, NEW c \in Client, StartRound(c)
    PROVE  ValuesInv'
  <1>1. PICK len \in 1..max_sequence_length :
          Go(c, [cs[c] EXCEPT !.pc = "lock", !.round = @ + 1, !.n = 0, !.nvalues = len])
    BY DEF StartRound
  <1> DEFINE g == [cs[c] EXCEPT !.pc = "lock", !.round = @ + 1, !.n = 0, !.nvalues = len]
             f == [g EXCEPT !.tries = 0]
  <1>2. cs' = [cs EXCEPT ![c] = f] /\ cached' = [cached EXCEPT ![c] = NoResp] /\ db' = db
    BY <1>1, Zenon DEF Go, StartRound
  <1>3. DOMAIN cs[c] = ClientFields /\ cs[c].pc = "idle"
    BY ClientKnown DEF Inside, StartRound
  <1>4. DOMAIN g = ClientFields /\ g.pc = "lock" /\ g.n = 0
    BY <1>3 DEF ClientFields
  <1> HIDE DEF g
  <1>5. f.pc = "lock" /\ f.n = 0
    BY <1>4 DEF ClientFields
  <1> HIDE DEF f
  <1>6. Staged(f) /\ ~Holds(c)
    BY <1>3, <1>5 DEF Staged, Holds
  <1> QED  BY <1>2, <1>5, <1>6, GoValues

LEMMA LockedValues ==
    ASSUME LockInv, ValuesInv, NEW c \in Client, Locked(c)
    PROVE  ValuesInv'
  <1> DEFINE resp == cached[c]
             g == [cs[c] EXCEPT !.pc = "write", !.lock_version = resp.version]
             h == [cs[c] EXCEPT !.pc = "thrown"]
  <1>1. /\ cs[c].pc = "lock" /\ HasResponse(c) /\ db' = db
        /\ IF resp.errcode = "ok" \/ (resp.actual = ValueOf(c) /\ cs[c].tries > 0) THEN Go(c, g)
           ELSE IF resp.actual[1] # c THEN Go(c, h)
           ELSE cs' = [cs EXCEPT ![c].tries = @ + 1] /\ UNCHANGED cached
    BY Zenon DEF Locked
  <1>2. resp.errcode = "ok" \/ (resp.actual[1] # c /\ resp.actual # ValueOf(c))
    BY <1>1, Zenon DEF LockInv, Responses
  <1>3. Inside(cs[c]) /\ Staged(cs[c])
    BY ClientKnown DEF ValuesInv
  <1>4. CASE resp.errcode = "ok"
    <2> DEFINE f == [g EXCEPT !.tries = 0]
    <2>1. cs' = [cs EXCEPT ![c] = f] /\ cached' = [cached EXCEPT ![c] = NoResp]
      BY <1>1, <1>4, Zenon DEF Go
    <2>2. /\ DOMAIN g = ClientFields /\ g.pc = "write" /\ g.n = cs[c].n /\ g.nvalues = cs[c].nvalues
          /\ g.round = cs[c].round
      BY <1>3 DEF Inside, ClientFields
    <2> HIDE DEF g
    <2>3. f.pc = "write" /\ f.n = cs[c].n /\ f.nvalues = cs[c].nvalues /\ f.round = cs[c].round
      BY <2>2 DEF ClientFields
    <2> HIDE DEF f
    <2>4. f.n = 0 /\ f.nvalues \in 1..max_sequence_length
      BY <1>1, <1>3, <2>3 DEF Inside, Staged
    <2>5. Staged(f)
      BY <2>3, <2>4, KeysAssumption DEF Staged
    <2>6. ValuesAre(0, 0, <<c, f.round>>)
      <3>1. Holds(c)
        BY <1>1, <1>4 DEF Holds
      <3>2. ValuesAre(Wrote(cs[c], cached[c]), Swept(cs[c], cached[c]), ValueOf(c))
        BY <3>1 DEF ValuesInv
      <3>3. Wrote(cs[c], cached[c]) = 0 /\ Swept(cs[c], cached[c]) = 0
        BY <1>1 DEF Wrote, Swept
      <3> QED  BY <2>3, <3>2, <3>3 DEF ValueOf
    <2>7. Wrote(f, NoResp) = 0 /\ Swept(f, NoResp) = 0
      BY <2>3, <2>4 DEF Wrote, Swept, Served
    <2>8. f.pc = "write" /\ ValuesAre(Wrote(f, NoResp), Swept(f, NoResp), <<c, f.round>>) /\ db' = db
      BY <1>1, <2>3, <2>6, <2>7
    <2> QED  BY <2>1, <2>5, <2>8, GoValues
  <1>5. CASE resp.errcode # "ok"
    <2> DEFINE f == [h EXCEPT !.tries = 0]
    <2>1. cs' = [cs EXCEPT ![c] = f] /\ cached' = [cached EXCEPT ![c] = NoResp]
      BY <1>1, <1>2, <1>5, Zenon DEF Go
    <2>2. DOMAIN h = ClientFields /\ h.pc = "thrown"
      BY <1>3 DEF Inside, ClientFields
    <2> HIDE DEF h
    <2>3. f.pc = "thrown"
      BY <2>2 DEF ClientFields
    <2> HIDE DEF f
    <2>4. Staged(f) /\ ~Holds(c) /\ db' = db
      BY <1>1, <1>5, <2>3 DEF Staged, Holds
    <2> QED  BY <2>1, <2>3, <2>4, GoValues
  <1> QED  BY <1>4, <1>5

\* After a value, or after the last one there is to clear.
LEMMA NextValueValues ==
    ASSUME LockInv, ValuesInv, NEW c \in Client, cs[c].pc \in {"write", "clear"}, HasResponse(c), db' = db,
           \/ Go(c, AfterValue(cs[c]))
           \/ Go(c, [cs[c] EXCEPT !.pc = "unlock"]) /\ cs[c].pc = "clear" /\ cached[c].errcode = "not_found"
    PROVE  ValuesInv'
  <1> DEFINE e == cs[c]
             resp == cached[c]
  <1>0. max_sequence_length \in Nat
    BY KeysAssumption
  <1>1. Inside(e) /\ Staged(e) /\ Holds(c)
    BY ClientKnown DEF ValuesInv, Holds
  <1>2. /\ DOMAIN e = ClientFields /\ e.n \in 0..(max_sequence_length - 1) /\ e.nvalues \in 1..max_sequence_length
        /\ e.pc = "write" => e.n < e.nvalues
        /\ e.pc = "clear" => e.nvalues <= e.n
    BY <1>1 DEF Inside, Staged
  <1>3. ValuesAre(Wrote(e, resp), Swept(e, resp), <<c, e.round>>)
    BY <1>1, Zenon DEF ValuesInv, ValueOf
  <1>4. Served(resp) = 1
    BY DEF Served, HasResponse
  <1>5. e.pc = "write" => ValuesAre(e.n + 1, e.n + 1, <<c, e.round>>)
    BY <1>3, <1>4 DEF Wrote, Swept
  <1>6. e.pc = "clear" => ValuesAre(e.nvalues, e.n + 1, <<c, e.round>>)
    <2> SUFFICES ASSUME e.pc = "clear" PROVE ValuesAre(e.nvalues, e.n + 1, <<c, e.round>>)
      OBVIOUS
    <2>1. Wrote(e, resp) = e.nvalues
      BY DEF Wrote
    <2>2. CASE resp.errcode # "not_found"
      <3>1. Swept(e, resp) = e.n + 1
        BY <1>4, <2>2 DEF Swept
      <3> QED  BY <1>3, <2>1, <3>1
    <2>3. CASE resp.errcode = "not_found"
      <3>1. Swept(e, resp) = max_sequence_length
        BY <2>3 DEF Swept
      <3>2. ValuesAre(e.nvalues, max_sequence_length, <<c, e.round>>)
        BY <1>3, <2>1, <3>1
      <3>3. e.nvalues \in 0..max_sequence_length /\ e.n + 1 \in e.nvalues..max_sequence_length
        BY <1>0, <1>2
      <3> HIDE DEF e, resp
      <3> QED  BY <3>2, <3>3, SweptAll
    <2> QED  BY <2>2, <2>3
  <1>7. ASSUME NEW g, Go(c, g), DOMAIN g = ClientFields, g.pc \in {"write", "clear", "unlock"}, Staged(g),
               g.round = e.round, ValuesAre(Wrote(g, NoResp), Swept(g, NoResp), <<c, g.round>>)
        PROVE  ValuesInv'
    <2> DEFINE f == [g EXCEPT !.tries = 0]
    <2>1. cs' = [cs EXCEPT ![c] = f] /\ cached' = [cached EXCEPT ![c] = NoResp]
      BY <1>7, Zenon DEF Go
    <2>2. f.pc = g.pc /\ f.n = g.n /\ f.nvalues = g.nvalues /\ f.round = g.round
      BY <1>7 DEF ClientFields
    <2> HIDE DEF f
    <2>3. Staged(f)
      BY <1>7, <2>2 DEF Staged
    <2>4. Wrote(f, NoResp) = Wrote(g, NoResp) /\ Swept(f, NoResp) = Swept(g, NoResp)
      BY <2>2 DEF Wrote, Swept
    <2>5. ValuesAre(Wrote(f, NoResp), Swept(f, NoResp), <<c, f.round>>)
      BY <1>7, <2>2, <2>4
    <2>6. f.pc \in {"write", "clear", "unlock"}
      BY <1>7, <2>2
    <2> QED  BY <2>1, <2>3, <2>5, <2>6, GoValues
  <1>8. ASSUME Go(c, [e EXCEPT !.pc = "unlock"]), ValuesAre(e.nvalues, max_sequence_length, <<c, e.round>>)
        PROVE  ValuesInv'
    <2> DEFINE g == [e EXCEPT !.pc = "unlock"]
    <2>1. DOMAIN g = ClientFields /\ g.pc = "unlock" /\ g.round = e.round /\ g.nvalues = e.nvalues
      BY <1>2 DEF ClientFields
    <2>2. Go(c, g)
      BY <1>8
    <2> HIDE DEF g
    <2>3. Wrote(g, NoResp) = e.nvalues /\ Swept(g, NoResp) = max_sequence_length
      BY <2>1 DEF Wrote, Swept
    <2>4. Staged(g)
      BY <1>2, <2>1 DEF Staged
    <2>5. ValuesAre(Wrote(g, NoResp), Swept(g, NoResp), <<c, g.round>>)
      BY <1>8, <2>1, <2>3
    <2> QED  BY <1>7, <2>1, <2>2, <2>4, <2>5
  <1>9. CASE Go(c, [e EXCEPT !.pc = "unlock"]) /\ e.pc = "clear" /\ resp.errcode = "not_found"
    <2>1. Wrote(e, resp) = e.nvalues /\ Swept(e, resp) = max_sequence_length
      BY <1>9 DEF Wrote, Swept
    <2>2. ValuesAre(e.nvalues, max_sequence_length, <<c, e.round>>)
      BY <1>3, <2>1
    <2> QED  BY <1>8, <1>9, <2>2
  <1>10. CASE Go(c, AfterValue(e))
    <2> DEFINE w == [e EXCEPT !.pc = "write", !.n = @ + 1]
               k == [e EXCEPT !.pc = "clear", !.n = @ + 1]
               u == [e EXCEPT !.pc = "unlock"]
    <2>1. /\ DOMAIN w = ClientFields /\ w.pc = "write" /\ w.n = e.n + 1 /\ w.nvalues = e.nvalues /\ w.round = e.round
      BY <1>2 DEF ClientFields
    <2>2. /\ DOMAIN k = ClientFields /\ k.pc = "clear" /\ k.n = e.n + 1 /\ k.nvalues = e.nvalues /\ k.round = e.round
      BY <1>2 DEF ClientFields
    <2>3. AfterValue(e) = IF e.n + 1 < e.nvalues THEN w ELSE IF e.n + 1 < max_sequence_length THEN k ELSE u
      BY DEF AfterValue
    <2>4. e.pc \in {"write", "clear"}
      OBVIOUS
    <2> HIDE DEF w, k, e, resp
    <2>5. CASE e.n + 1 < e.nvalues
      <3>1. e.pc = "write"
        BY <1>0, <1>2, <2>4, <2>5
      <3>2. Go(c, w)
        BY <1>10, <2>3, <2>5
      <3>3. Wrote(w, NoResp) = e.n + 1 /\ Swept(w, NoResp) = e.n + 1
        <4>1. Wrote(w, NoResp) = w.n + Served(NoResp) /\ Swept(w, NoResp) = w.n + Served(NoResp)
          BY <2>1 DEF Wrote, Swept
        <4>2. Served(NoResp) = 0
          BY DEF Served
        <4> QED  BY <1>0, <1>2, <2>1, <4>1, <4>2
      <3>4. Staged(w)
        BY <2>1, <2>5 DEF Staged
      <3>5. ValuesAre(Wrote(w, NoResp), Swept(w, NoResp), <<c, w.round>>)
        BY <1>5, <2>1, <3>1, <3>3
      <3> QED  BY <1>7, <2>1, <3>2, <3>4, <3>5
    <2>6. CASE ~(e.n + 1 < e.nvalues)
      <3>1. ValuesAre(e.nvalues, e.n + 1, <<c, e.round>>) /\ e.nvalues <= e.n + 1
        <4>1. e.pc = "write" => e.n + 1 = e.nvalues
          BY <1>0, <1>2, <2>6
        <4> QED  BY <1>0, <1>2, <1>5, <1>6, <2>4, <2>6, <4>1
      <3>2. CASE e.n + 1 < max_sequence_length
        <4>1. Go(c, k)
          BY <1>10, <2>3, <2>6, <3>2
        <4>2. Wrote(k, NoResp) = e.nvalues /\ Swept(k, NoResp) = e.n + 1
          <5>1. Wrote(k, NoResp) = k.nvalues /\ Swept(k, NoResp) = k.n + Served(NoResp)
            BY <2>2 DEF Wrote, Swept, NoResp
          <5>2. Served(NoResp) = 0
            BY DEF Served
          <5> QED  BY <1>0, <1>2, <2>2, <5>1, <5>2
        <4>3. Staged(k)
          BY <2>2, <3>1 DEF Staged
        <4>4. ValuesAre(Wrote(k, NoResp), Swept(k, NoResp), <<c, k.round>>)
          BY <2>2, <3>1, <4>2
        <4> QED  BY <1>7, <2>2, <4>1, <4>3, <4>4
      <3>3. CASE ~(e.n + 1 < max_sequence_length)
        <4>1. e.n + 1 = max_sequence_length
          BY <1>0, <1>2, <3>3
        <4>2. Go(c, u)
          BY <1>10, <2>3, <2>6, <3>3
        <4> QED  BY <1>8, <3>1, <4>1, <4>2
      <3> QED  BY <3>2, <3>3
    <2> QED  BY <2>5, <2>6
  <1> QED  BY <1>9, <1>10

LEMMA WrittenValues ==
    ASSUME LockInv, ValuesInv, NEW c \in Client, Written(c)
    PROVE  ValuesInv'
  <1>1. cs[c].pc = "write" /\ HasResponse(c) /\ db' = db
    BY DEF Written
  <1>2. cached[c].errcode = "ok"
    BY <1>1 DEF LockInv, Responses
  <1>3. Go(c, AfterValue(cs[c]))
    BY <1>2, Zenon DEF Written
  <1> QED  BY <1>1, <1>3, NextValueValues

LEMMA ClearedValues ==
    ASSUME LockInv, ValuesInv, NEW c \in Client, Cleared(c)
    PROVE  ValuesInv'
  <1>1. cs[c].pc = "clear" /\ HasResponse(c) /\ db' = db
    BY DEF Cleared
  <1>2. cached[c].errcode # "no_match"
    BY <1>1 DEF LockInv, Responses
  <1>3. \/ Go(c, AfterValue(cs[c]))
        \/ Go(c, [cs[c] EXCEPT !.pc = "unlock"]) /\ cached[c].errcode = "not_found"
    BY <1>2, Zenon DEF Cleared, EndOfSequence
  <1> QED  BY <1>1, <1>3, NextValueValues

LEMMA UnlockedValues ==
    ASSUME LockInv, ValuesInv, NEW c \in Client, Unlocked(c)
    PROVE  ValuesInv'
  <1> DEFINE l == IF cached[c].errcode # "ok" /\ cs[c].tries = 0 THEN "thrown" ELSE "idle"
             g == [cs[c] EXCEPT !.pc = l]
             f == [g EXCEPT !.tries = 0]
  <1>1. l \in {"thrown", "idle"}
    OBVIOUS
  <1>2. Go(c, g)
    BY Zenon DEF Unlocked
  <1> HIDE DEF l
  <1>3. cs' = [cs EXCEPT ![c] = f] /\ cached' = [cached EXCEPT ![c] = NoResp]
    BY <1>2, Zenon DEF Go
  <1>4. DOMAIN cs[c] = ClientFields
    BY ClientKnown DEF Inside
  <1>5. DOMAIN g = ClientFields /\ g.pc = l
    BY <1>4 DEF ClientFields
  <1> HIDE DEF g
  <1>6. f.pc = l
    BY <1>5 DEF ClientFields
  <1> HIDE DEF f
  <1>7. f.pc \notin {"lock", "write", "clear", "unlock"}
    BY <1>1, <1>6
  <1>8. Staged(f) /\ ~Holds(c) /\ db' = db
    BY <1>7 DEF Staged, Holds, Unlocked
  <1> QED  BY <1>3, <1>7, <1>8, GoValues

\* The same request again.
LEMMA TriesValues ==
    ASSUME LockInv, ValuesInv, NEW c \in Client, cs' = [cs EXCEPT ![c].tries = @ + 1], cached' = cached, db' = db
    PROVE  ValuesInv'
  <1>1. \A d \in Client \ {c} : cs'[d] = cs[d]
    BY DEF LockInv, LockTypes
  <1>2. Inside(cs[c])
    BY ClientKnown
  <1>3. /\ cs'[c].pc = cs[c].pc /\ cs'[c].round = cs[c].round /\ cs'[c].n = cs[c].n
        /\ cs'[c].nvalues = cs[c].nvalues
    BY <1>2 DEF LockInv, LockTypes, Inside, ClientFields
  <1>4. \A d \in Client : /\ cs'[d].pc = cs[d].pc /\ cs'[d].round = cs[d].round /\ cs'[d].n = cs[d].n
                          /\ cs'[d].nvalues = cs[d].nvalues
    BY <1>1, <1>3, Zenon
  <1>5. \A d \in Client : Holds(d)' = Holds(d) /\ ValueOf(d)' = ValueOf(d)
    BY <1>4, Zenon DEF HasResponse, Holds, ValueOf
  <1>6. \A d \in Client : Staged(cs[d])'
    <2> TAKE d \in Client
    <2>1. Staged(cs[d]) /\ cs'[d].pc = cs[d].pc /\ cs'[d].n = cs[d].n /\ cs'[d].nvalues = cs[d].nvalues
      BY <1>4 DEF ValuesInv
    <2> QED  BY <2>1 DEF Staged
  <1>7. ASSUME NEW d \in Client, Holds(d)'
        PROVE  ValuesAre(Wrote(cs[d], cached[d]), Swept(cs[d], cached[d]), ValueOf(d))'
    <2>1. ValuesAre(Wrote(cs[d], cached[d]), Swept(cs[d], cached[d]), ValueOf(d))
      BY <1>5, <1>7 DEF ValuesInv
    <2>2. /\ cs'[d].pc = cs[d].pc /\ cs'[d].n = cs[d].n /\ cs'[d].nvalues = cs[d].nvalues
          /\ ValueOf(d)' = ValueOf(d)
      BY <1>4, <1>5
    <2>3. Wrote(cs[d], cached[d])' = Wrote(cs[d], cached[d]) /\ Swept(cs[d], cached[d])' = Swept(cs[d], cached[d])
      BY <2>2 DEF Wrote, Swept, Served
    <2> QED  BY <2>1, <2>2, <2>3 DEF OneRun, ValuesAre, Val, ValueKey
  <1>8. OneRun(0) => OneRun(0)'
    BY DEF OneRun, Val, ValueKey
  <1> QED  BY <1>5, <1>6, <1>7, <1>8, Zenon DEF ValuesInv

\* What the execution of a client's request does to the values.
LEMMA ExecuteOutcome ==
    ASSUME LockInv, NEW c \in Client, Execute(c)
    PROVE  /\ cs[c].pc \in {"lock", "write", "clear", "unlock"} /\ ~HasResponse(c) /\ HasResponse(c)' /\ cs' = cs
           /\ \A d \in Client \ {c} : cached'[d] = cached[d]
           /\ cs[c].pc \in {"lock", "unlock"} =>
                \A i \in 0..(max_sequence_length - 1) : Val(i)' = Val(i)
           /\ cs[c].pc = "lock" /\ cached'[c].errcode = "ok" => db.cells[Lock].value = <<>>
           /\ cs[c].pc \in {"write", "clear"} =>
                \A i \in 0..(max_sequence_length - 1) : i # cs[c].n => Val(i)' = Val(i)
           /\ cs[c].pc = "write" => Val(cs[c].n)' = ValueOf(c)
           /\ cs[c].pc = "clear" => Val(cs[c].n)' = <<>>
           /\ cs[c].pc = "clear" /\ cached'[c].errcode = "not_found" => Val(cs[c].n) = <<>>
  <1> DEFINE q == RequestOf(c)
             r == process_req(db, q)
             vv == db.cells[Lock]
  <1>1. /\ cs[c].pc \in {"lock", "write", "clear", "unlock"} /\ ~HasResponse(c)
        /\ db' = r.db /\ cs' = cs /\ cached' = [cached EXCEPT ![c] = r.resp]
    BY Zenon DEF Execute, Sending
  <1>2. DOMAIN db = DbFields /\ DOMAIN db.cells = Key /\ DOMAIN cached = Client
    BY DEF LockInv, LockTypes, DbFields
  <1>3. Lock \in Key /\ Lock \notin 0..(max_sequence_length - 1) /\ 0..(max_sequence_length - 1) \subseteq Key
    BY KeysAssumption DEF Lock
  <1>4. cached'[c] = r.resp /\ \A d \in Client \ {c} : cached'[d] = cached[d]
    BY <1>1, <1>2, Zenon
  <1>5. ASSUME r.resp.errcode \in {"ok", "no_match", "not_found"} PROVE HasResponse(c)'
    <2>1. r.resp # NoResp
      BY <1>5 DEF NoResp
    <2> QED  BY <1>4, <2>1 DEF HasResponse
  <1>6. \A i : Val(i) = db.cells[i].value /\ Val(i)' = db'.cells[i].value
    BY DEF Val, ValueKey
  <1>7. ASSUME NEW k \in Key, NEW v, db' = Store(db, k, v).db
        PROVE  db'.cells[k].value = v /\ \A j \in Key : j # k => db'.cells[j] = db.cells[j]
    <2>1. PICK w : w = [value |-> v, version |-> db.next_version]
      OBVIOUS
    <2>2. db' = [db EXCEPT !.cells[k] = w, !.next_version = @ + 1]
      BY <1>7, <2>1 DEF Store
    <2>3. db'.cells = [db.cells EXCEPT ![k] = w]
      BY <1>2, <2>2 DEF DbFields
    <2>4. db'.cells[k] = w /\ \A j \in Key : j # k => db'.cells[j] = db.cells[j]
      BY <1>2, <2>3
    <2> QED  BY <2>1, <2>4
  <1>8. ASSUME NEW k \in Key, db' = do_remove(db, k)
        PROVE  db'.cells[k].value = <<>> /\ \A j \in Key : j # k => db'.cells[j] = db.cells[j]
    <2>1. db'.cells[k] = nonexistent_vv /\ \A j \in Key : j # k => db'.cells[j] = db.cells[j]
      BY <1>2, <1>8, RemoveCells
    <2> QED  BY <2>1 DEF nonexistent_vv
  <1> HIDE DEF r
  <1>9. CASE cs[c].pc = "lock"
    <2>1. q = [type |-> "cas", key |-> Lock, expected |-> <<>>, value |-> ValueOf(c), version_match |-> any_version]
      BY <1>9, Zenon DEF RequestOf
    <2>2. q.type = "cas" /\ q.key = Lock /\ q.expected = <<>> /\ q.value = ValueOf(c) /\ q.version_match < 0
      BY <2>1 DEF any_version
    <2> HIDE DEF q
    <2>3. r = IF vv.value # <<>> THEN [db |-> db, resp |-> mod_no_match(vv)] ELSE Store(db, Lock, ValueOf(c))
      <3>1. r = process_cas(db, q)
        BY <2>2 DEF r, process_req
      <3> QED  BY <2>2, <3>1 DEF process_cas, Matches
    <2>4. CASE vv.value # <<>>
      <3>1. r.db = db /\ r.resp.errcode = "no_match"
        BY <2>3, <2>4 DEF mod_no_match
      <3>2. \A i \in 0..(max_sequence_length - 1) : Val(i)' = Val(i)
        BY <1>1, <1>6, <3>1
      <3>3. HasResponse(c)' /\ cached'[c].errcode # "ok"
        BY <1>4, <1>5, <3>1
      <3> QED  BY <1>1, <1>4, <1>9, <3>2, <3>3
    <2>5. CASE vv.value = <<>>
      <3>1. db' = Store(db, Lock, ValueOf(c)).db /\ r.resp = mod_ok(vv.version, db.next_version)
        BY <1>1, <2>3, <2>5 DEF Store
      <3>2. \A j \in Key : j # Lock => db'.cells[j] = db.cells[j]
        BY <1>3, <1>7, <3>1
      <3>3. \A i \in 0..(max_sequence_length - 1) : Val(i)' = Val(i)
        BY <1>3, <1>6, <3>2
      <3>4. r.resp.errcode = "ok"
        BY <3>1 DEF mod_ok
      <3>5. HasResponse(c)'
        BY <1>5, <3>4
      <3> QED  BY <1>1, <1>4, <1>9, <2>5, <3>3, <3>5
    <2> QED  BY <2>4, <2>5
  <1>10. ASSUME cs[c].pc \in {"write", "clear"}
         PROVE  cs[c].n \in Key /\ cs[c].n # Lock
    <2>1. Inside(cs[c])
      BY ClientKnown
    <2> QED  BY <1>3, <1>10, <2>1 DEF Inside
  <1>11. CASE cs[c].pc = "write"
    <2>1. PICK k \in Key : k = cs[c].n /\ k # Lock
      BY <1>10, <1>11
    <2>2. PICK v : v = ValueOf(c)
      OBVIOUS
    <2>3. q = [type |-> "put", key |-> k, value |-> v, version_match |-> any_version]
      BY <1>11, <2>1, <2>2, Zenon DEF RequestOf, ValueKey
    <2>4. q.type = "put" /\ q.key = k /\ q.value = v /\ q.version_match < 0
      BY <2>3 DEF any_version
    <2> HIDE DEF q
    <2>5. r = process_put(db, q)
      BY <2>4 DEF r, process_req
    <2>6. r = Store(db, k, v)
      BY <2>4, <2>5 DEF process_put, Matches
    <2>7. r.resp.errcode = "ok"
      BY <2>6 DEF Store, mod_ok
    <2>8. db' = Store(db, k, v).db
      BY <1>1, <2>6
    <2>9. db'.cells[k].value = v /\ \A j \in Key : j # k => db'.cells[j] = db.cells[j]
      BY <1>7, <2>8
    <2>10. Val(cs[c].n)' = ValueOf(c)
      <3>1. cs'[c].n = k
        BY <1>1, <2>1
      <3> QED  BY <1>6, <2>2, <2>9, <3>1 DEF Val, ValueKey
    <2>11. \A i \in 0..(max_sequence_length - 1) : i # cs[c].n => Val(i)' = Val(i)
      BY <1>3, <1>6, <2>1, <2>9
    <2>12. HasResponse(c)'
      BY <1>5, <2>7
    <2> QED  BY <1>1, <1>4, <1>11, <2>10, <2>11, <2>12
  <1>12. CASE cs[c].pc = "clear"
    <2>1. PICK k \in Key : k = cs[c].n /\ k # Lock
      BY <1>10, <1>12
    <2>2. q = [type |-> "remove", key |-> k, version_match |-> any_version]
      BY <1>12, <2>1, Zenon DEF RequestOf, ValueKey
    <2>3. q.type = "remove" /\ q.key = k /\ q.version_match < 0
      BY <2>2 DEF any_version
    <2> HIDE DEF q
    <2>4. r = process_remove(db, q)
      BY <2>3 DEF r, process_req
    <2>5. CASE db.cells[k] = nonexistent_vv
      <3>1. r.db = db /\ r.resp.errcode = "not_found"
        BY <2>3, <2>4, <2>5 DEF process_remove
      <3>2. db.cells[k].value = <<>> /\ db' = db
        BY <1>1, <2>5, <3>1 DEF nonexistent_vv
      <3>3. Val(cs[c].n) = <<>> /\ Val(cs[c].n)' = <<>>
        BY <1>1, <2>1, <3>2 DEF Val, ValueKey
      <3>4. \A i \in 0..(max_sequence_length - 1) : i # cs[c].n => Val(i)' = Val(i)
        BY <1>6, <3>2
      <3>5. HasResponse(c)'
        BY <1>5, <3>1
      <3> QED  BY <1>1, <1>4, <1>12, <3>3, <3>4, <3>5
    <2>6. CASE db.cells[k] # nonexistent_vv
      <3>1. r.db = do_remove(db, k) /\ r.resp.errcode = "ok"
        BY <2>3, <2>4, <2>6 DEF process_remove, Matches, mod_ok
      <3>2. db'.cells[k].value = <<>> /\ \A j \in Key : j # k => db'.cells[j] = db.cells[j]
        BY <1>1, <1>8, <3>1
      <3>3. Val(cs[c].n)' = <<>>
        BY <1>1, <2>1, <3>2 DEF Val, ValueKey
      <3>4. \A i \in 0..(max_sequence_length - 1) : i # cs[c].n => Val(i)' = Val(i)
        BY <1>3, <1>6, <2>1, <3>2
      <3>5. HasResponse(c)' /\ cached'[c].errcode = "ok"
        BY <1>4, <1>5, <3>1
      <3> QED  BY <1>1, <1>4, <1>12, <3>3, <3>4, <3>5
    <2> QED  BY <2>5, <2>6
  <1>13. CASE cs[c].pc = "unlock"
    <2>1. q = [type |-> "remove", key |-> Lock, version_match |-> cs[c].lock_version]
      BY <1>13, Zenon DEF RequestOf
    <2>2. q.type = "remove" /\ q.key = Lock /\ q.version_match = cs[c].lock_version
      BY <2>1
    <2> HIDE DEF q
    <2>3. r = process_remove(db, q)
      BY <2>2 DEF r, process_req
    <2>4. r.db = db \/ r.db = do_remove(db, Lock)
      BY <2>2, <2>3 DEF process_remove
    <2>5. r.resp.errcode \in {"ok", "no_match", "not_found"}
      BY <2>3 DEF process_remove, mod_no_match, mod_ok
    <2>6. \A i \in 0..(max_sequence_length - 1) : Val(i)' = Val(i)
      BY <1>1, <1>3, <1>6, <1>8, <2>4
    <2>7. HasResponse(c)'
      BY <1>5, <2>5
    <2> QED  BY <1>1, <1>4, <1>13, <2>6, <2>7
  <1> QED  BY <1>1, <1>9, <1>11, <1>12, <1>13

LEMMA ExecuteValues ==
    ASSUME LockInv, ValuesInv, NEW c \in Client, Execute(c), LockInv'
    PROVE  ValuesInv'
  <1> DEFINE e == cs[c]
             v == <<c, e.round>>
             last == max_sequence_length - 1
  <1>0. max_sequence_length \in Nat
    BY KeysAssumption
  <1>1. /\ e.pc \in {"lock", "write", "clear", "unlock"} /\ ~HasResponse(c) /\ HasResponse(c)' /\ cs' = cs
        /\ \A d \in Client \ {c} : cached'[d] = cached[d]
    BY ExecuteOutcome
  <1>2. Inside(e) /\ Staged(e) /\ ValueOf(c) = v /\ ValueOf(c)' = v
    BY <1>1, ClientKnown DEF ValuesInv, ValueOf
  <1>3. /\ \A d \in Client \ {c} : Holds(d)' = Holds(d) /\ ValueOf(d)' = ValueOf(d)
        /\ \A d \in Client : Staged(cs[d])'
    <2>1. \A d \in Client \ {c} : cs'[d] = cs[d] /\ cached'[d] = cached[d]
      BY <1>1
    <2>2. \A d \in Client : Staged(cs'[d])
      BY <1>1 DEF ValuesInv
    <2>3. \A d \in Client : Staged(cs[d])'
      BY <2>2 DEF Staged
    <2> QED  BY <2>1, <2>3, Zenon DEF Holds, HasResponse, ValueOf
  <1>4. Served(cached[c]) = 0 /\ Served(cached[c])' = 1 /\ cached[c] = NoResp
    BY <1>1 DEF Served, HasResponse
  <1>5. ASSUME Holds(c)', ValuesAre(Wrote(cs[c], cached[c]), Swept(cs[c], cached[c]), ValueOf(c))'
        PROVE  ValuesInv'
    <2>1. \A d \in Client \ {c} : ~Holds(d)'
      <3> SUFFICES ASSUME NEW d \in Client, Holds(d)' PROVE d = c
        OBVIOUS
      <3>1. /\ db'.cells[Lock] = [value |-> ValueOf(c)', version |-> HeldAt(c)']
            /\ db'.cells[Lock] = [value |-> ValueOf(d)', version |-> HeldAt(d)']
        BY <1>5, Zenon DEF LockInv
      <3>2. db'.cells[Lock].value = ValueOf(c)' /\ db'.cells[Lock].value = ValueOf(d)'
        BY <3>1
      <3>3. <<c, cs'[c].round>> = <<d, cs'[d].round>>
        BY <3>2, Zenon DEF ValueOf
      <3> QED  BY <3>3
    <2> QED  BY <1>3, <1>5, <2>1, Zenon DEF ValuesInv
  <1>6. CASE e.pc = "lock"
    <2>1. \A i \in 0..(max_sequence_length - 1) : Val(i)' = Val(i)
      BY <1>6, ExecuteOutcome
    <2>2. ~Holds(c)
      BY <1>4, <1>6 DEF Holds, NoResp
    <2>3. CASE Holds(c)'
      <3>1. db.cells[Lock].value = <<>>
        <4>1. cached'[c].errcode = "ok"
          BY <1>1, <1>6, <2>3 DEF Holds
        <4> QED  BY <1>6, <4>1, ExecuteOutcome
      <3>2. \A d \in Client : ~Holds(d)
        <4> SUFFICES ASSUME NEW d \in Client, Holds(d) PROVE FALSE
          OBVIOUS
        <4>1. db.cells[Lock] = [value |-> <<d, cs[d].round>>, version |-> HeldAt(d)]
          BY ClientKnown
        <4> QED  BY <3>1, <4>1
      <3>3. OneRun(0)'
        BY <2>1, <3>2, RunsSame DEF ValuesInv
      <3>4. Wrote(cs[c], cached[c])' = 0 /\ Swept(cs[c], cached[c])' = 0
        BY <1>1, <1>6 DEF Wrote, Swept
      <3>5. ValuesAre(Wrote(cs[c], cached[c]), Swept(cs[c], cached[c]), ValueOf(c))'
        BY <3>3, <3>4 DEF ValuesAre
      <3> QED  BY <1>5, <2>3, <3>5
    <2>4. CASE ~Holds(c)'
      <3>1. \A d \in Client : Holds(d)' <=> Holds(d)
        BY <1>3, <2>2, <2>4, Zenon
      <3>2. ASSUME NEW d \in Client, Holds(d)'
            PROVE  ValuesAre(Wrote(cs[d], cached[d]), Swept(cs[d], cached[d]), ValueOf(d))'
        <4> DEFINE w == Wrote(cs[d], cached[d])
                   s == Swept(cs[d], cached[d])
        <4>1. d # c /\ Holds(d)
          BY <2>4, <3>1, <3>2
        <4>2. w \in 0..max_sequence_length /\ s \in w..max_sequence_length
          BY <4>1, StageRange
        <4>3. ValuesAre(w, s, ValueOf(d))
          BY <4>1 DEF ValuesInv
        <4>4. Wrote(cs[d], cached[d])' = w /\ Swept(cs[d], cached[d])' = s /\ ValueOf(d)' = ValueOf(d)
          BY <1>1, <1>3, <4>1 DEF Wrote, Swept, Served
        <4> HIDE DEF w, s
        <4>5. PICK x : x = ValueOf(d)
          OBVIOUS
        <4>6. ValuesAre(w, s, x)
          BY <4>3, <4>5
        <4>7. \A i \in 0..(w - 1) : Val(i)' = x
          BY <1>0, <2>1, <4>2, <4>6 DEF ValuesAre
        <4>8. \A i \in w..(s - 1) : Val(i)' = <<>>
          BY <1>0, <2>1, <4>2, <4>6 DEF ValuesAre
        <4>9. \A i, j \in s..(max_sequence_length - 1) : i <= j /\ Val(j)' # <<>> => Val(i)' = Val(j)'
          <5>1. \A i \in s..(max_sequence_length - 1) : i \in 0..(max_sequence_length - 1)
            BY <1>0, <4>2
          <5> QED  BY <2>1, <4>6, <5>1 DEF ValuesAre, OneRun
        <4> QED  BY <4>4, <4>5, <4>7, <4>8, <4>9 DEF ValuesAre, OneRun
      <3>3. (\A d \in Client : ~Holds(d)') => OneRun(0)'
        BY <2>1, <3>1, RunsSame DEF ValuesInv
      <3> QED  BY <1>3, <3>2, <3>3, Zenon DEF ValuesInv
    <2> QED  BY <2>3, <2>4
  <1>7. ASSUME e.pc # "lock"
        PROVE  Holds(c) /\ ValuesAre(Wrote(e, cached[c]), Swept(e, cached[c]), v)
    <2>1. Holds(c)
      BY <1>1, <1>7 DEF Holds
    <2> QED  BY <1>2, <2>1 DEF ValuesInv
  <1>8. CASE e.pc = "write"
    <2>1. e.n \in 0..last /\ Wrote(e, cached[c]) = e.n /\ Swept(e, cached[c]) = e.n
      <3>1. e.n \in 0..last
        BY <1>2, <1>8 DEF Inside
      <3>2. Wrote(e, cached[c]) = e.n + 0 /\ Swept(e, cached[c]) = e.n + 0
        BY <1>4, <1>8 DEF Wrote, Swept
      <3> QED  BY <3>1, <3>2
    <2>2. ValuesAre(e.n, e.n, v)
      BY <1>7, <1>8, <2>1
    <2>6. PICK k : k = e.n
      OBVIOUS
    <2>3. Val(k)' = v /\ \A i \in 0..last : i # k => Val(i)' = Val(i)
      <3>1. Val(k)' = Val(cs[c].n)'
        BY <1>1, <2>6 DEF Val, ValueKey
      <3> QED  BY <1>2, <1>8, <2>6, <3>1, ExecuteOutcome
    <2>4. Wrote(cs[c], cached[c])' = e.n + 1 /\ Swept(cs[c], cached[c])' = e.n + 1
      BY <1>1, <1>4, <1>8 DEF Wrote, Swept
    <2>5. Holds(c)'
      BY <1>1, <1>8 DEF Holds
    <2> HIDE DEF e, v, last
    <2>7. \A i \in 0..k : Val(i)' = v
      <3>1. \A i \in 0..(k - 1) : Val(i) = v /\ i \in 0..last /\ i # k
        BY <1>0, <2>1, <2>2, <2>6 DEF ValuesAre, last
      <3>2. \A i \in 0..k : i = k \/ i \in 0..(k - 1)
        BY <2>1, <2>6
      <3>3. \A i \in 0..(k - 1) : Val(i)' = v
        BY <2>3, <3>1
      <3> QED  BY <2>3, <3>2, <3>3
    <2>8. \A i, j \in (k + 1)..last : i <= j /\ Val(j)' # <<>> => Val(i)' = Val(j)'
      <3>1. \A i \in (k + 1)..last : i \in k..last /\ i \in 0..last /\ i # k
        BY <1>0, <2>1, <2>6 DEF last
      <3>2. \A i \in (k + 1)..last : Val(i)' = Val(i)
        BY <2>3, <2>6, <3>1
      <3> QED  BY <2>2, <2>6, <3>1, <3>2 DEF ValuesAre, OneRun, last
    <2>9. (k + 1) - 1 = k /\ k \in Nat
      BY <1>0, <2>1, <2>6 DEF last
    <2>11. ValuesAre(Wrote(cs[c], cached[c]), Swept(cs[c], cached[c]), ValueOf(c))'
      <3>1. v' = v
        BY <1>1 DEF v, e
      <3> QED  BY <1>2, <2>4, <2>6, <2>7, <2>8, <2>9, <3>1 DEF ValuesAre, OneRun, last
    <2> QED  BY <1>5, <2>5, <2>11
  <1>9. CASE e.pc = "clear"
    <2>1. /\ e.n \in 0..last /\ e.nvalues \in 0..e.n
          /\ Wrote(e, cached[c]) = e.nvalues /\ Swept(e, cached[c]) = e.n
      <3>1. e.n \in 0..last /\ e.nvalues \in 0..e.n
        BY <1>0, <1>2, <1>9 DEF Inside, Staged
      <3>2. Wrote(e, cached[c]) = e.nvalues /\ Swept(e, cached[c]) = e.n + 0
        BY <1>4, <1>9 DEF Wrote, Swept, NoResp
      <3> QED  BY <3>1, <3>2
    <2>2. ValuesAre(e.nvalues, e.n, v)
      BY <1>7, <1>9, <2>1
    <2>6. PICK k, w : k = e.n /\ w = e.nvalues
      OBVIOUS
    <2>3. /\ Val(k)' = <<>> /\ \A i \in 0..last : i # k => Val(i)' = Val(i)
          /\ cached'[c].errcode = "not_found" => Val(k) = <<>>
      <3>1. Val(k)' = Val(cs[c].n)'
        BY <1>1, <2>6 DEF Val, ValueKey
      <3> QED  BY <1>9, <2>6, <3>1, ExecuteOutcome
    <2>4. /\ Wrote(cs[c], cached[c])' = e.nvalues
          /\ Swept(cs[c], cached[c])' = IF cached'[c].errcode # "not_found" THEN e.n + 1 ELSE max_sequence_length
      BY <1>1, <1>4, <1>9 DEF Wrote, Swept
    <2>5. Holds(c)'
      BY <1>1, <1>9 DEF Holds
    <2>7. PICK s : s = IF cached'[c].errcode # "not_found" THEN k + 1 ELSE max_sequence_length
      OBVIOUS
    <2>8. v' = v
      BY <1>1
    <2> HIDE DEF e, v, last
    <2>9. k \in 0..last /\ w \in 0..k /\ s \in (k + 1)..max_sequence_length
      BY <1>0, <2>1, <2>6, <2>7 DEF last
    <2>10. \A i \in 0..(w - 1) : Val(i)' = v
      <3>1. \A i \in 0..(w - 1) : Val(i) = v /\ i \in 0..last /\ i # k
        BY <1>0, <2>2, <2>6, <2>9 DEF ValuesAre, last
      <3> QED  BY <2>3, <2>6, <3>1
    <2>11. \A i \in k..last : cached'[c].errcode = "not_found" => Val(i)' = <<>>
      <3> SUFFICES ASSUME NEW i \in k..last, cached'[c].errcode = "not_found" PROVE Val(i)' = <<>>
        OBVIOUS
      <3>1. k \in k..last /\ k <= i /\ i \in 0..last
        BY <1>0, <2>9 DEF last
      <3>2. Val(i) # <<>> => Val(k) = Val(i)
        BY <2>2, <2>6, <3>1 DEF ValuesAre, OneRun, last
      <3>3. Val(i) = <<>>
        BY <2>3, <2>6, <3>2
      <3> QED  BY <2>3, <2>6, <3>1, <3>3
    <2>12. \A i \in w..(s - 1) : Val(i)' = <<>>
      <3> SUFFICES ASSUME NEW i \in w..(s - 1) PROVE Val(i)' = <<>>
        OBVIOUS
      <3>1. CASE i < k
        <4>1. i \in w..(k - 1) /\ i \in 0..last /\ i # k
          BY <1>0, <2>9, <3>1 DEF last
        <4>2. Val(i) = <<>>
          BY <2>2, <2>6, <4>1 DEF ValuesAre
        <4> QED  BY <2>3, <2>6, <4>1, <4>2
      <3>2. CASE i = k
        BY <2>3, <2>6, <3>2
      <3>3. CASE i > k
        <4>1. s # k + 1 /\ i \in k..last
          BY <1>0, <2>9, <3>3 DEF last
        <4> QED  BY <2>7, <2>11, <4>1
      <3> QED  BY <2>9, <3>1, <3>2, <3>3
    <2>13. \A i, j \in s..last : i <= j /\ Val(j)' # <<>> => Val(i)' = Val(j)'
      <3>1. \A i \in s..last : i \in k..last /\ i \in 0..last /\ i # k
        BY <1>0, <2>9 DEF last
      <3>2. \A i \in s..last : Val(i)' = Val(i)
        BY <2>3, <2>6, <3>1
      <3> QED  BY <2>2, <2>6, <3>1, <3>2 DEF ValuesAre, OneRun, last
    <2>14. ValuesAre(Wrote(cs[c], cached[c]), Swept(cs[c], cached[c]), ValueOf(c))'
      BY <1>2, <2>4, <2>6, <2>7, <2>8, <2>10, <2>12, <2>13 DEF ValuesAre, OneRun, last
    <2> QED  BY <1>5, <2>5, <2>14
  <1>10. CASE e.pc = "unlock"
    <2>1. e.nvalues \in 0..max_sequence_length
      BY <1>0, <1>2, <1>10 DEF Staged
    <2>2. ValuesAre(e.nvalues, max_sequence_length, v)
      <3>1. Wrote(e, cached[c]) = e.nvalues /\ Swept(e, cached[c]) = max_sequence_length
        BY <1>10 DEF Wrote, Swept
      <3> QED  BY <1>7, <1>10, <3>1
    <2>3. \A i \in 0..(max_sequence_length - 1) : Val(i)' = Val(i)
      BY <1>10, ExecuteOutcome
    <2>4. OneRun(0)
      <3> SUFFICES ASSUME NEW i \in 0..(max_sequence_length - 1), NEW j \in 0..(max_sequence_length - 1),
                          i <= j, Val(j) # <<>>
                   PROVE  Val(i) = Val(j)
        BY DEF OneRun
      <3> DEFINE w == e.nvalues
      <3>1. w \in 0..max_sequence_length /\ ValuesAre(w, max_sequence_length, v)
        BY <2>1, <2>2
      <3> HIDE DEF w, v
      <3>2. j < w
        <4>1. CASE j >= w
          <5>1. j \in w..(max_sequence_length - 1)
            BY <1>0, <3>1, <4>1
          <5> QED  BY <3>1, <5>1 DEF ValuesAre
        <4> QED  BY <3>1, <4>1
      <3>3. i \in 0..(w - 1) /\ j \in 0..(w - 1)
        BY <3>1, <3>2
      <3> QED  BY <3>1, <3>3 DEF ValuesAre
    <2>5. OneRun(0)'
      BY <2>3, <2>4, RunsSame
    <2>6. \A d \in Client : ~Holds(d)'
      <3>1. ~Holds(c)'
        BY <1>1, <1>10 DEF Holds
      <3>2. \A d \in Client \ {c} : ~Holds(d)
        BY <1>7, <1>10, OneHolder
      <3> QED  BY <1>3, <3>1, <3>2
    <2> QED  BY <1>3, <2>5, <2>6, Zenon DEF ValuesInv
  <1> QED  BY <1>1, <1>6, <1>8, <1>9, <1>10

LEMMA ValuesStep ==
    ASSUME LockInv, ValuesInv, [LockNext]_lockVars
    PROVE  ValuesInv'
  <1>1. ASSUME NEW c \in Client, Retry(c) PROVE ValuesInv'
    BY <1>1, TriesValues DEF Retry
  <1>2. CASE UNCHANGED lockVars
    <2>1. db' = db /\ cs' = cs /\ cached' = cached
      BY <1>2 DEF lockVars
    <2>2. \A d \in Client : (Holds(d)' <=> Holds(d)) /\ (Staged(cs[d])' <=> Staged(cs[d]))
      BY <2>1, Zenon DEF Holds, HasResponse, ValueOf, Staged
    <2>3. ASSUME NEW d \in Client,
                 ValuesAre(Wrote(cs[d], cached[d]), Swept(cs[d], cached[d]), ValueOf(d))
          PROVE  ValuesAre(Wrote(cs[d], cached[d]), Swept(cs[d], cached[d]), ValueOf(d))'
      <3>1. /\ Wrote(cs[d], cached[d])' = Wrote(cs[d], cached[d]) /\ Swept(cs[d], cached[d])' = Swept(cs[d], cached[d])
            /\ ValueOf(d)' = ValueOf(d)
        BY <2>1, Zenon DEF Wrote, Swept, Served, ValueOf
      <3> QED  BY <2>1, <2>3, <3>1 DEF OneRun, ValuesAre, Val, ValueKey
    <2>4. OneRun(0) => OneRun(0)'
      BY <2>1 DEF OneRun, Val, ValueKey
    <2> QED  BY <2>2, <2>3, <2>4, Zenon DEF ValuesInv
  <1>3. LockInv'
    BY LockStep
  <1> QED  BY <1>1, <1>2, <1>3, StartRoundValues, LockedValues, WrittenValues, ClearedValues, UnlockedValues,
              ExecuteValues DEF LockNext, client

(***************************************************************************)
(* The check of the lock-sequence model raises no false alarm: for any     *)
(* number of clients, rounds and values it accepts every database that     *)
(* clients can make, wherever they have stopped in a round, so what it     *)
(* reports is a fault of the replicas.                                     *)
(***************************************************************************)
THEOREM CheckAcceptsTheorem == LockSpec => []CheckAccepts
  <1>1. LockInit => LockInv /\ ValuesInv
    BY LockStart, ValuesStart
  <1>2. LockInv /\ ValuesInv /\ [LockNext]_lockVars => LockInv' /\ ValuesInv'
    BY LockStep, ValuesStep
  <1>3. LockInv /\ ValuesInv => CheckAccepts
    BY InvAccepts
  <1> QED  BY <1>1, <1>2, <1>3, PTL DEF LockSpec

-----------------------------------------------------------------------------
(* CollabModel: one editor moves, and only its own operations are put.     *)

LEMMA EditorsStart == EditorsInit => EditorsInv
  <1> SUFFICES ASSUME EditorsInit PROVE EditorsInv
    OBVIOUS
  <1>1. DOMAIN es = Editor /\ DOMAIN cells = Editor
    BY DEF EditorsInit
  <1> SUFFICES ASSUME NEW e \in Editor PROVE EditorInv(e, es[e], cells[e])
    BY <1>1, Zenon DEF EditorsInv
  <1>2. cells[e] = <<>> /\ es[e] = Start
    BY DEF EditorsInit
  <1>3. e # -1
    BY EditorsAssumption DEF Editor
  <1>4. /\ DOMAIN Start = EditorFields /\ Start.pending = <<>> /\ Start.pending_seqs = <<>> /\ Start.next_seq = 0
        /\ Start.best = NoBest /\ Start.peer_next_seq = [p \in Editor |-> 0]
    BY DEF Start, EditorFields
  <1>5. NoBest.peer = -1
    BY DEF NoBest
  <1>6. DOMAIN Start.peer_next_seq = Editor /\ Start.peer_next_seq[e] = 0
    BY <1>4
  <1>7. <<>> = [i \in 1..(0 - 0) |-> 0 + i - 1]
    OBVIOUS
  <1>8. <<>> \in Seq(Range(<<>>)) /\ Len(<<>>) = 0
    OBVIOUS
  <1> QED  BY <1>2, <1>3, <1>4, <1>5, <1>6, <1>7, <1>8 DEF EditorInv

LEMMA EditorMoves ==
    ASSUME EditorsInv, NEW e \in Editor, NEW f, NEW log, es' = [es EXCEPT ![e] = f],
           \/ cells' = cells /\ log = cells[e]
           \/ cells' = [cells EXCEPT ![e] = log],
           EditorInv(e, f, log)
    PROVE  EditorsInv'
  <1>1. DOMAIN es = Editor /\ DOMAIN cells = Editor /\ \A d \in Editor : EditorInv(d, es[d], cells[d])
    BY DEF EditorsInv
  <1>2. DOMAIN es' = Editor /\ DOMAIN cells' = Editor /\ es'[e] = f /\ cells'[e] = log
    BY <1>1
  <1>3. \A d \in Editor : d # e => es'[d] = es[d] /\ cells'[d] = cells[d]
    BY <1>1
  <1>4. \A d \in Editor : EditorInv(d, es'[d], cells'[d])
    BY <1>1, <1>2, <1>3
  <1> QED  BY <1>2, <1>4 DEF EditorsInv

\* An editor reads, and its pending operations keep their number.
LEMMA EditorReads ==
    ASSUME EditorsInv, NEW e \in Editor, NEW f, es' = [es EXCEPT ![e] = f], cells' = cells,
           DOMAIN f = EditorFields, f.pending_seqs = es[e].pending_seqs, f.next_seq = es[e].next_seq,
           DOMAIN f.peer_next_seq = Editor, f.peer_next_seq[e] = es[e].peer_next_seq[e],
           f.pending \in Seq(Range(f.pending)), Len(f.pending) = Len(es[e].pending),
           f.best.peer = e => es[e].best.peer = e \/ es[e].peer_next_seq[e] < Len(cells[e])
    PROVE  EditorsInv'
  <1>1. EditorInv(e, es[e], cells[e])
    BY DEF EditorsInv
  <1>2. EditorInv(e, f, cells[e])
    BY <1>1 DEF EditorInv
  <1> QED  BY <1>2, EditorMoves

LEMMA SameState ==
    ASSUME EditorsInv, NEW e \in Editor
    PROVE  /\ DOMAIN es[e] = EditorFields /\ DOMAIN es[e].peer_next_seq = Editor
           /\ es[e].pending \in Seq(Range(es[e].pending))
  BY DEF EditorsInv, EditorInv

LEMMA GetKeeps ==
    ASSUME EditorsInv, NEW e \in Editor, NEW p \in Editor, Get(e, p) \/ GetLost(e, p)
    PROVE  EditorsInv'
  <1> DEFINE s == es[e]
  <1>1. DOMAIN s = EditorFields /\ DOMAIN s.peer_next_seq = Editor /\ s.pending \in Seq(Range(s.pending))
    BY SameState
  <1>2. PICK b : /\ es' = [es EXCEPT ![e] = [s EXCEPT !.peer = p + 1, !.best = b]] /\ cells' = cells
                 /\ b = s.best \/ (b.peer = p /\ s.peer_next_seq[p] < Len(cells[p]))
    <2>1. CASE Get(e, p)
      <3> DEFINE cell == cells[p][s.peer_next_seq[p] + 1]
                 new == [peer |-> p, version |-> cell.version, op |-> cell.op]
                 b == IF s.peer_next_seq[p] < Len(cells[p])
                      THEN IF Older(cell.version, s.best) THEN new ELSE s.best
                      ELSE s.best
      <3>1. es' = [es EXCEPT ![e] = [s EXCEPT !.peer = p + 1, !.best = b]] /\ cells' = cells
        BY <1>1, <2>1 DEF Get, EditorFields
      <3>2. new.peer = p
        OBVIOUS
      <3>3. b = s.best \/ (b.peer = p /\ s.peer_next_seq[p] < Len(cells[p]))
        BY <3>2
      <3> HIDE DEF b
      <3> QED  BY <3>1, <3>3
    <2>2. CASE GetLost(e, p)
      <3>1. es' = [es EXCEPT ![e] = [s EXCEPT !.peer = p + 1]] /\ cells' = cells
        BY <2>2 DEF GetLost
      <3>2. [s EXCEPT !.peer = p + 1] = [s EXCEPT !.peer = p + 1, !.best = s.best]
        BY <1>1 DEF EditorFields
      <3> QED  BY <3>1, <3>2
    <2> QED  BY <2>1, <2>2
  <1> DEFINE f == [s EXCEPT !.peer = p + 1, !.best = b]
  <1>3. /\ DOMAIN f = EditorFields /\ f.pending_seqs = s.pending_seqs /\ f.next_seq = s.next_seq /\ f.pending = s.pending
        /\ f.peer_next_seq = s.peer_next_seq /\ f.best = b
    BY <1>1 DEF EditorFields
  <1>4. es' = [es EXCEPT ![e] = f]
    BY <1>2
  <1> HIDE DEF f
  <1>5. f.best.peer = e => s.best.peer = e \/ s.peer_next_seq[e] < Len(cells[e])
    BY <1>2, <1>3
  <1> QED  BY <1>1, <1>2, <1>3, <1>4, <1>5, EditorReads

LEMMA NothingToPutKeeps ==
    ASSUME EditorsInv, NEW e \in Editor, NEW l, es' = [es EXCEPT ![e] = [es[e] EXCEPT !.pc = l]], cells' = cells
    PROVE  EditorsInv'
  <1> DEFINE s == es[e]
             f == [s EXCEPT !.pc = l]
  <1>1. DOMAIN s = EditorFields /\ DOMAIN s.peer_next_seq = Editor /\ s.pending \in Seq(Range(s.pending))
    BY SameState
  <1>2. /\ DOMAIN f = EditorFields /\ f.pending_seqs = s.pending_seqs /\ f.next_seq = s.next_seq /\ f.pending = s.pending
        /\ f.peer_next_seq = s.peer_next_seq /\ f.best = s.best
    BY <1>1 DEF EditorFields
  <1> HIDE DEF f
  <1>3. es' = [es EXCEPT ![e] = f]
    BY DEF f
  <1> QED  BY <1>1, <1>2, <1>3, EditorReads

LEMMA TailFacts ==
    ASSUME NEW S, NEW q \in Seq(S), q # <<>>
    PROVE  /\ Tail(q) \in Seq(S) /\ Len(Tail(q)) = Len(q) - 1 /\ Len(q) \in Nat \ {0}
           /\ \A i \in 1..(Len(q) - 1) : Tail(q)[i] = q[i + 1]
  OBVIOUS

\* A sequence is one of its own elements.
LEMMA OfOwnRange ==
    ASSUME NEW q, NEW n \in Nat, DOMAIN q = 1..n, q = [i \in DOMAIN q |-> q[i]]
    PROVE  q \in Seq(Range(q)) /\ Len(q) = n
  <1>1. \A i \in 1..n : q[i] \in Range(q)
    BY DEF Range
  <1>2. q \in [1..n -> Range(q)]
    BY <1>1
  <1> QED  BY <1>2

\* The pending sequence numbers, from own on.
Seqs(own, next) == [i \in 1..(next - own) |-> own + i - 1]

LEMMA SeqsFacts ==
    ASSUME NEW own \in Nat, NEW next \in Nat, own <= next
    PROVE  /\ Seqs(own, next) \in Seq(Nat) /\ Len(Seqs(own, next)) = next - own
           /\ Append(Seqs(own, next), next) = Seqs(own, next + 1)
           /\ own < next => Head(Seqs(own, next)) = own /\ Tail(Seqs(own, next)) = Seqs(own + 1, next)
  <1> DEFINE q == Seqs(own, next)
             n == next - own
  <1>1. n \in Nat /\ q = [i \in 1..n |-> own + i - 1]
    BY DEF Seqs
  <1>2. q \in Seq(Nat) /\ Len(q) = n /\ \A i \in 1..n : q[i] = own + i - 1
    BY <1>1
  <1>3. Seqs(own, next + 1) = [i \in 1..(n + 1) |-> own + i - 1]
    BY DEF Seqs
  <1>4. n = 0 \/ Seqs(own + 1, next) = [i \in 1..(n - 1) |-> own + i]
    BY DEF Seqs
  <1>5. own < next <=> n > 0
    OBVIOUS
  <1>6. own + n = next
    OBVIOUS
  <1> HIDE DEF q, n
  <1>7. Append(q, next) = [i \in 1..(n + 1) |-> own + i - 1]
    <2>1. Append(q, next) \in Seq(Nat) /\ Len(Append(q, next)) = n + 1
      BY <1>1, <1>2
    <2>2. \A i \in 1..(n + 1) : Append(q, next)[i] = own + i - 1
      <3> TAKE i \in 1..(n + 1)
      <3>1. CASE i \in 1..n
        BY <1>2, <3>1
      <3>2. CASE i = n + 1
        BY <1>1, <1>2, <1>6, <3>2
      <3> QED  BY <1>1, <3>1, <3>2
    <2> DEFINE a == Append(q, next)
    <2>3. DOMAIN a = 1..(n + 1) /\ a = [i \in DOMAIN a |-> a[i]]
      BY <1>1, <2>1
    <2>4. \A i \in 1..(n + 1) : a[i] = own + i - 1
      BY <2>2
    <2> HIDE DEF a
    <2>5. a = [i \in 1..(n + 1) |-> own + i - 1]
      BY <2>3, <2>4
    <2> QED  BY <2>5 DEF a
  <1>8. ASSUME n > 0 PROVE Head(q) = own /\ Tail(q) = [i \in 1..(n - 1) |-> own + i]
    <2>1. Head(q) = own
      BY <1>1, <1>2, <1>8
    <2>2. Tail(q) \in Seq(Nat) /\ Len(Tail(q)) = n - 1
      <3>1. q # <<>>
        BY <1>2, <1>8
      <3> QED  BY <1>2, <3>1, TailFacts
    <2>3. \A i \in 1..(n - 1) : Tail(q)[i] = own + i
      <3>1. q # <<>>
        BY <1>2, <1>8
      <3>2. \A i \in 1..(n - 1) : Tail(q)[i] = q[i + 1]
        BY <1>2, <3>1, TailFacts
      <3>3. \A i \in 1..(n - 1) : i + 1 \in 1..n /\ own + (i + 1) - 1 = own + i
        BY <1>1
      <3> QED  BY <1>2, <3>2, <3>3
    <2> DEFINE t == Tail(q)
    <2>4. DOMAIN t = 1..(n - 1) /\ t = [i \in DOMAIN t |-> t[i]] /\ \A i \in 1..(n - 1) : t[i] = own + i
      BY <1>1, <2>2, <2>3
    <2> HIDE DEF t
    <2>5. t = [i \in 1..(n - 1) |-> own + i]
      BY <2>4
    <2> QED  BY <2>1, <2>5 DEF t
  <1>9. own < next => Head(q) = own /\ Tail(q) = Seqs(own + 1, next)
    <2> SUFFICES ASSUME own < next PROVE Head(q) = own /\ Tail(q) = Seqs(own + 1, next)
      OBVIOUS
    <2>1. n > 0 /\ n # 0
      BY <1>1, <1>5
    <2>2. Seqs(own + 1, next) = [i \in 1..(n - 1) |-> own + i]
      BY <1>4, <2>1, Zenon
    <2>3. Head(q) = own /\ Tail(q) = [i \in 1..(n - 1) |-> own + i]
      BY <1>8, <2>1, Zenon
    <2> QED  BY <2>2, <2>3, Zenon
  <1>10. Append(q, next) = Seqs(own, next + 1)
    BY <1>3, <1>7
  <1> QED  BY <1>2, <1>9, <1>10 DEF q, n

\* What is known of an editor, own being its operations that it has read back.
LEMMA EditorKnown ==
    ASSUME EditorsInv, NEW e \in Editor
    PROVE  LET s == es[e]
               own == s.peer_next_seq[e]
           IN  /\ DOMAIN s = EditorFields /\ DOMAIN s.peer_next_seq = Editor
               /\ s.pending \in Seq(Range(s.pending)) /\ cells[e] \in Seq(Range(cells[e]))
               /\ own \in Nat /\ s.next_seq \in Nat /\ own <= s.next_seq
               /\ s.pending_seqs = Seqs(own, s.next_seq) /\ Len(s.pending) = s.next_seq - own
               /\ Len(cells[e]) \in {own, own + 1} /\ Len(cells[e]) <= s.next_seq
               /\ s.best.peer = e => own < Len(cells[e])
  <1> DEFINE s == es[e]
             own == s.peer_next_seq[e]
  <1>1. EditorInv(e, s, cells[e])
    BY DEF EditorsInv
  <1>2. own \in Nat /\ s.next_seq \in Nat /\ own <= s.next_seq /\ s.pending_seqs = Seqs(own, s.next_seq)
    BY <1>1 DEF EditorInv, Seqs
  <1>3. Len(s.pending) = s.next_seq - own
    BY <1>1, <1>2, SeqsFacts DEF EditorInv
  <1> QED  BY <1>1, <1>2, <1>3 DEF EditorInv

\* The invariant again, by Seqs.
LEMMA EditorFrom ==
    ASSUME NEW e \in Editor, NEW f, NEW log,
           DOMAIN f = EditorFields, DOMAIN f.peer_next_seq = Editor,
           f.pending \in Seq(Range(f.pending)), log \in Seq(Range(log)),
           f.peer_next_seq[e] \in Nat, f.next_seq \in Nat, f.peer_next_seq[e] <= f.next_seq,
           f.pending_seqs = Seqs(f.peer_next_seq[e], f.next_seq), Len(f.pending) = f.next_seq - f.peer_next_seq[e],
           Len(log) \in {f.peer_next_seq[e], f.peer_next_seq[e] + 1}, Len(log) <= f.next_seq,
           f.best.peer = e => f.peer_next_seq[e] < Len(log)
    PROVE  EditorInv(e, f, log)
  <1>1. Len(f.pending_seqs) = Len(f.pending)
    BY SeqsFacts
  <1>2. f.pending_seqs = [i \in 1..(f.next_seq - f.peer_next_seq[e]) |-> f.peer_next_seq[e] + i - 1]
    BY DEF Seqs
  <1> QED  BY <1>1, <1>2 DEF EditorInv

LEMMA SyncKeeps ==
    ASSUME EditorsInv, NEW e \in Editor, sync_committed_ops(e)
    PROVE  EditorsInv'
  <1> DEFINE s == es[e]
             own == s.peer_next_seq[e]
             best == s.best
             next == [s EXCEPT !.peer = 0, !.best = NoBest, !.peer_next_seq[best.peer] = @ + 1]
             done == [s EXCEPT !.pc = "edit", !.peer = 0]
             other == [next EXCEPT !.local_text = apply_op(@, best.op),
                                   !.pending = [i \in DOMAIN @ |-> transform(@[i], best.op)]]
  <1>1. /\ cells' = cells
        /\ es' = [es EXCEPT ![e] =
             IF best = NoBest THEN done
             ELSE IF best.peer # e THEN other
             ELSE IF s.pending # <<>> /\ Head(s.pending_seqs) = own THEN PopOwn(next)
             ELSE next]
    BY Zenon DEF sync_committed_ops
  <1>2. /\ DOMAIN s = EditorFields /\ DOMAIN s.peer_next_seq = Editor
        /\ s.pending \in Seq(Range(s.pending)) /\ cells[e] \in Seq(Range(cells[e]))
        /\ own \in Nat /\ s.next_seq \in Nat /\ own <= s.next_seq
        /\ s.pending_seqs = Seqs(own, s.next_seq) /\ Len(s.pending) = s.next_seq - own
        /\ Len(cells[e]) \in {own, own + 1} /\ Len(cells[e]) <= s.next_seq
        /\ s.best.peer = e => own < Len(cells[e])
    BY EditorKnown
  <1>3. NoBest.peer # e
    BY EditorsAssumption DEF NoBest, Editor
  <1>4. CASE best = NoBest
    <2>1. /\ DOMAIN done = EditorFields /\ done.pending_seqs = s.pending_seqs /\ done.next_seq = s.next_seq
          /\ done.pending = s.pending /\ done.peer_next_seq = s.peer_next_seq /\ done.best = s.best
      BY <1>2 DEF EditorFields
    <2>2. es' = [es EXCEPT ![e] = done]
      BY <1>1, <1>4, Zenon
    <2> HIDE DEF done
    <2>3. /\ DOMAIN done.peer_next_seq = Editor /\ done.peer_next_seq[e] = own
          /\ done.pending \in Seq(Range(done.pending)) /\ Len(done.pending) = Len(s.pending)
          /\ done.best.peer = e => s.best.peer = e
      BY <1>2, <2>1
    <2> QED  BY <1>1, <2>1, <2>2, <2>3, EditorReads
  <1>5. /\ DOMAIN next = EditorFields /\ next.pending_seqs = s.pending_seqs /\ next.next_seq = s.next_seq
        /\ next.pending = s.pending /\ next.best = NoBest
        /\ next.peer_next_seq = [s.peer_next_seq EXCEPT ![best.peer] = @ + 1]
    BY <1>2, Zenon DEF EditorFields
  <1>6. DOMAIN next.peer_next_seq = Editor
    BY <1>2, <1>5
  <1> HIDE DEF next
  <1>7. CASE best # NoBest /\ best.peer # e
    <2> DEFINE p == [i \in DOMAIN s.pending |-> transform(s.pending[i], best.op)]
    <2>1. /\ DOMAIN other = EditorFields /\ other.pending_seqs = s.pending_seqs /\ other.next_seq = s.next_seq
          /\ other.pending = p /\ other.best = NoBest /\ other.peer_next_seq = next.peer_next_seq
      BY <1>5 DEF EditorFields
    <2>2. es' = [es EXCEPT ![e] = other]
      BY <1>1, <1>7, Zenon
    <2>3. other.peer_next_seq[e] = own
      BY <1>2, <1>5, <1>7, <2>1
    <2>4. p \in Seq(Range(p)) /\ Len(p) = Len(s.pending)
      <3>1. DOMAIN s.pending = 1..Len(s.pending) /\ Len(s.pending) \in Nat
        BY <1>2
      <3>2. DOMAIN p = 1..Len(s.pending) /\ p = [i \in DOMAIN p |-> p[i]]
        BY <3>1
      <3> HIDE DEF p
      <3> QED  BY <3>1, <3>2, OfOwnRange
    <2> HIDE DEF other, p
    <2>5. /\ DOMAIN other.peer_next_seq = Editor
          /\ other.pending \in Seq(Range(other.pending)) /\ Len(other.pending) = Len(s.pending)
          /\ other.best.peer # e
      BY <1>3, <1>6, <2>1, <2>4
    <2> QED  BY <1>1, <2>1, <2>2, <2>3, <2>5, EditorReads
  <1>8. CASE best # NoBest /\ best.peer = e
    <2>1. own < s.next_seq /\ Len(cells[e]) = own + 1
      BY <1>2, <1>8
    <2>2. Head(s.pending_seqs) = own /\ Tail(s.pending_seqs) = Seqs(own + 1, s.next_seq)
      BY <1>2, <2>1, SeqsFacts
    <2>3. s.pending # <<>>
      BY <1>2, <2>1
    <2> DEFINE f == PopOwn(next)
    <2>4. es' = [es EXCEPT ![e] = f]
      BY <1>1, <1>8, <2>2, <2>3, Zenon
    <2>5. /\ DOMAIN f = EditorFields /\ f.pending_seqs = Tail(s.pending_seqs) /\ f.next_seq = s.next_seq
          /\ f.pending = Tail(s.pending) /\ f.best = NoBest /\ f.peer_next_seq = next.peer_next_seq
      BY <1>5 DEF PopOwn, EditorFields
    <2>6. f.peer_next_seq[e] = own + 1
      BY <1>2, <1>5, <1>8, <2>5
    <2> HIDE DEF f
    <2>7. f.pending \in Seq(Range(f.pending)) /\ Len(f.pending) = s.next_seq - (own + 1)
      <3>1. f.pending \in Seq(Range(s.pending)) /\ Len(f.pending) = Len(s.pending) - 1
        BY <1>2, <2>3, <2>5, TailFacts
      <3>2. /\ Len(f.pending) \in Nat /\ DOMAIN f.pending = 1..Len(f.pending)
            /\ f.pending = [i \in DOMAIN f.pending |-> f.pending[i]]
        BY <3>1
      <3>3. f.pending \in Seq(Range(f.pending))
        BY <3>2, OfOwnRange
      <3> QED  BY <1>2, <3>1, <3>3
    <2>8. EditorInv(e, f, cells[e])
      <3>1. own + 1 \in Nat /\ own + 1 <= s.next_seq
        BY <1>2, <2>1
      <3> QED  BY <1>2, <1>3, <1>6, <2>1, <2>2, <2>5, <2>6, <2>7, <3>1, EditorFrom
    <2> QED  BY <1>1, <2>4, <2>8, EditorMoves
  <1> QED  BY <1>4, <1>7, <1>8

LEMMA AppendFacts ==
    ASSUME NEW q, q \in Seq(Range(q)), NEW x
    PROVE  Append(q, x) \in Seq(Range(Append(q, x))) /\ Len(Append(q, x)) = Len(q) + 1 /\ Len(q) \in Nat
  <1> DEFINE a == Append(q, x)
             n == Len(q)
  <1>1. n \in Nat /\ q \in Seq(Range(q) \cup {x})
    OBVIOUS
  <1>2. a \in Seq(Range(q) \cup {x}) /\ Len(a) = n + 1
    BY <1>1
  <1> HIDE DEF a, n
  <1>3. DOMAIN a = 1..(n + 1) /\ a = [i \in DOMAIN a |-> a[i]]
    BY <1>1, <1>2
  <1>4. a \in Seq(Range(a)) /\ Len(a) = n + 1
    BY <1>1, <1>3, OfOwnRange
  <1> QED  BY <1>1, <1>4 DEF a, n

LEMMA EditKeeps ==
    ASSUME EditorsInv, NEW e \in Editor, Edit(e)
    PROVE  EditorsInv'
  <1> DEFINE s == es[e]
             own == s.peer_next_seq[e]
  <1>1. cells' = cells
    BY DEF Edit
  <1>2. CASE es' = [es EXCEPT ![e].pc = "put"]
    BY <1>1, <1>2, NothingToPutKeeps
  <1>3. ASSUME NEW op, es' = [es EXCEPT ![e] = [s EXCEPT !.pc = "put", !.local_text = apply_op(@, op), !.next_seq = @ + 1,
                                                     !.pending = Append(@, op), !.pending_seqs = Append(@, s.next_seq)]]
        PROVE  EditorsInv'
    <2> DEFINE f == [s EXCEPT !.pc = "put", !.local_text = apply_op(@, op), !.next_seq = @ + 1,
                              !.pending = Append(@, op), !.pending_seqs = Append(@, s.next_seq)]
    <2>1. /\ DOMAIN s = EditorFields /\ DOMAIN s.peer_next_seq = Editor
          /\ s.pending \in Seq(Range(s.pending)) /\ cells[e] \in Seq(Range(cells[e]))
          /\ own \in Nat /\ s.next_seq \in Nat /\ own <= s.next_seq
          /\ s.pending_seqs = Seqs(own, s.next_seq) /\ Len(s.pending) = s.next_seq - own
          /\ Len(cells[e]) \in {own, own + 1} /\ Len(cells[e]) <= s.next_seq
          /\ s.best.peer = e => own < Len(cells[e])
      BY EditorKnown
    <2>2. /\ DOMAIN f = EditorFields /\ f.next_seq = s.next_seq + 1
          /\ f.pending = Append(s.pending, op) /\ f.pending_seqs = Append(s.pending_seqs, s.next_seq)
          /\ f.peer_next_seq = s.peer_next_seq /\ f.best = s.best
      BY <2>1, Zenon DEF EditorFields
    <2>3. es' = [es EXCEPT ![e] = f]
      BY <1>3, Zenon
    <2> HIDE DEF f
    <2>4. f.pending \in Seq(Range(f.pending)) /\ Len(f.pending) = (s.next_seq + 1) - own
      <3>1. PICK q : q = s.pending
        OBVIOUS
      <3>2. f.pending = Append(q, op) /\ q \in Seq(Range(q)) /\ Len(q) = s.next_seq - own
        BY <2>1, <2>2, <3>1
      <3>3. f.pending \in Seq(Range(f.pending)) /\ Len(f.pending) = Len(q) + 1
        BY <3>2, AppendFacts
      <3> QED  BY <2>1, <3>2, <3>3
    <2>5. f.pending_seqs = Seqs(own, s.next_seq + 1)
      BY <2>1, <2>2, SeqsFacts
    <2>6. /\ s.next_seq + 1 \in Nat /\ own <= s.next_seq + 1 /\ Len(cells[e]) <= s.next_seq + 1
      BY <2>1
    <2>7. EditorInv(e, f, cells[e])
      BY <2>1, <2>2, <2>4, <2>5, <2>6, EditorFrom
    <2> QED  BY <1>1, <2>3, <2>7, EditorMoves
  <1> QED  BY <1>2, <1>3, Zenon DEF Edit

LEMMA PutKeeps ==
    ASSUME EditorsInv, NEW e \in Editor, Put(e)
    PROVE  EditorsInv'
  <1> DEFINE s == es[e]
             own == s.peer_next_seq[e]
             log == cells[e]
             f == [s EXCEPT !.pc = "sync"]
             op == [version |-> version + 1, op |-> Head(s.pending)]
             new == IF Head(s.pending_seqs) < Len(log) THEN [log EXCEPT ![Head(s.pending_seqs) + 1] = op]
                    ELSE Append(log, op)
  <1>1. es' = [es EXCEPT ![e] = f] /\ s.pending # <<>>
    BY DEF Put
  <1>2. cells' = [cells EXCEPT ![e] = new]
    BY Zenon DEF Put
  <1>3. /\ DOMAIN s = EditorFields /\ DOMAIN s.peer_next_seq = Editor
        /\ s.pending \in Seq(Range(s.pending)) /\ log \in Seq(Range(log))
        /\ own \in Nat /\ s.next_seq \in Nat /\ own <= s.next_seq
        /\ s.pending_seqs = Seqs(own, s.next_seq) /\ Len(s.pending) = s.next_seq - own
        /\ Len(log) \in {own, own + 1} /\ Len(log) <= s.next_seq
        /\ s.best.peer = e => own < Len(log)
    BY EditorKnown
  <1>4. own < s.next_seq
    <2>1. Len(s.pending) # 0
      BY <1>1, <1>3
    <2> QED  BY <1>3, <2>1
  <1>5. Head(s.pending_seqs) = own
    BY <1>3, <1>4, SeqsFacts
  <1>6. /\ DOMAIN f = EditorFields /\ f.next_seq = s.next_seq /\ f.pending = s.pending
        /\ f.pending_seqs = s.pending_seqs /\ f.peer_next_seq = s.peer_next_seq /\ f.best = s.best
    BY <1>3 DEF EditorFields
  <1>7. new = IF own < Len(log) THEN [log EXCEPT ![own + 1] = op] ELSE Append(log, op)
    BY <1>5
  <1> HIDE DEF f, op, new
  <1>8. new \in Seq(Range(new)) /\ Len(new) = own + 1
    <2>1. CASE own < Len(log)
      <3>1. Len(log) = own + 1 /\ DOMAIN log = 1..Len(log)
        BY <1>3, <2>1
      <3>2. new = [log EXCEPT ![own + 1] = op]
        BY <1>7, <2>1
      <3>3. DOMAIN new = 1..(own + 1) /\ new = [i \in DOMAIN new |-> new[i]]
        BY <3>1, <3>2
      <3>4. own + 1 \in Nat
        BY <1>3
      <3> QED  BY <3>3, <3>4, OfOwnRange
    <2>2. CASE ~(own < Len(log))
      <3>1. Len(log) = own /\ new = Append(log, op)
        BY <1>3, <1>7, <2>2
      <3> QED  BY <1>3, <3>1, AppendFacts
    <2> QED  BY <2>1, <2>2
  <1>9. own + 1 \in {own, own + 1} /\ own + 1 <= s.next_seq /\ own < own + 1
    <2>1. own \in Nat /\ s.next_seq \in Nat /\ own < s.next_seq
      BY <1>3, <1>4
    <2> HIDE DEF own, s
    <2> QED  BY <2>1
  <1>10. EditorInv(e, f, new)
    BY <1>3, <1>6, <1>8, <1>9, EditorFrom
  <1> QED  BY <1>1, <1>2, <1>10, EditorMoves

LEMMA EditorsStep ==
    ASSUME EditorsInv, [EditorsNext]_editorVars
    PROVE  EditorsInv'
  <1>1. ASSUME NEW e \in Editor, NothingToPut(e) PROVE EditorsInv'
    BY <1>1, NothingToPutKeeps DEF NothingToPut
  <1>2. CASE UNCHANGED editorVars
    BY <1>2, Zenon DEF editorVars, EditorsInv
  <1> QED  BY <1>1, <1>2, GetKeeps, SyncKeeps, EditKeeps, PutKeeps DEF EditorsNext, editor

(***************************************************************************)
(* An editor's pending operations are those of its own that it has not yet *)
(* read back, in order and without a gap, and at most the first of them is *)
(* in the database, for any number of editors: whichever reads fail and    *)
(* however often a put is made again.                                      *)
(***************************************************************************)
THEOREM PendingExactTheorem == EditorsSpec => []PendingExact
  <1>1. EditorsInv => PendingExact
    BY DEF EditorsInv, EditorInv, PendingExact
  <1> QED  BY <1>1, EditorsStart, EditorsStep, PTL DEF EditorsSpec

-----------------------------------------------------------------------------
(* PancydbReplay: one database is a later state of the other.              *)

VersionedValue == [value : {<<>>} \cup Value, version : Nat]
Removal == [key : Key, vv : VersionedValue, remove_version : Nat]
StoreState == [next_version : Nat, cells : [Key -> VersionedValue], recent_removes : Seq(Removal)]

\* Every version below the next one is that of one modification at most.
CellsApart(a) ==
    /\ a.next_version >= 1
    /\ \A k \in Key : a.cells[k] = nonexistent_vv \/ a.cells[k].version \in 1..(a.next_version - 1)
    /\ \A k, l \in Key : a.cells[k].version = a.cells[l].version => k = l \/ a.cells[k].version = 0

RemovesApart(a) ==
    /\ Len(a.recent_removes) <= max_recent_removes
    /\ \A i \in 1..Len(a.recent_removes) :
         /\ a.recent_removes[i].remove_version < a.next_version
         /\ a.recent_removes[i].vv.version \in 1..(a.recent_removes[i].remove_version - 1)
         /\ \A k \in Key : a.cells[k].version # a.recent_removes[i].remove_version
         /\ \A j \in 1..(i - 1) : a.recent_removes[i].remove_version < a.recent_removes[j].remove_version

WellFormed(a) == a \in StoreState /\ CellsApart(a) /\ RemovesApart(a)

(***************************************************************************)
(* a is a later state than b.  What was removed in between was b's value   *)
(* or a later one.  A key that b has and a lacks was removed in between: a *)
(* remembers that, or remembers only removals that came later still.       *)
(***************************************************************************)
RemovedSince(a, b) ==
    \A i \in 1..Len(a.recent_removes) :
        a.recent_removes[i].remove_version >= b.next_version =>
          \/ a.recent_removes[i].vv = b.cells[a.recent_removes[i].key]
          \/ a.recent_removes[i].vv.version >= b.next_version

Remembered(a, b, k) ==
    \E i \in 1..Len(a.recent_removes) :
        a.recent_removes[i].key = k /\ a.recent_removes[i].remove_version >= b.next_version

Forgotten(a, b) ==
    /\ Len(a.recent_removes) = max_recent_removes
    /\ \A i \in 1..Len(a.recent_removes) : a.recent_removes[i].remove_version > b.next_version

Later(a, b, k) ==
    \/ a.cells[k] = b.cells[k]
    \/ a.cells[k].version >= b.next_version
    \/ /\ a.cells[k] = nonexistent_vv /\ b.cells[k] # nonexistent_vv
       /\ Remembered(a, b, k) \/ Forgotten(a, b)

Newer(a, b) ==
    /\ b.next_version <= a.next_version
    /\ RemovedSince(a, b)
    /\ \A k \in Key : Later(a, b, k)

\* The database of the replica ahead after each of the requests, in h.
Replays(h) ==
    /\ DOMAIN h = 0..Len(history)
    /\ h[Len(history)] = db1 /\ h[replayed] = db2
    /\ \A i \in 0..Len(history) : WellFormed(h[i])
    /\ \A i \in 1..Len(history) : h[i] = process_req(h[i - 1], history[i]).db
    /\ \A i \in 0..Len(history) : \A j \in 0..i : Newer(h[i], h[j])

\* The version of a key is the one that its last modification answered with.
Answered(k) ==
    \/ Modified(k, Len(history)) = {} /\ db1.cells[k].version = nonexistent_version
    \/ \E j \in Modified(k, Len(history)) : /\ \A i \in Modified(k, Len(history)) : i <= j
                                            /\ db1.cells[k].version = answers[j].version

StoreInv ==
    /\ history \in Seq(Request) /\ answers \in Seq(Range(answers)) /\ Len(answers) = Len(history)
    /\ replayed \in 0..Len(history)
    /\ \E h : Replays(h)
    /\ ResponsesChain
    /\ \A k \in Key : Answered(k)

\* A modification stores a value with the next version.
StoredOne(a, k, v, b) ==
    /\ b \in StoreState /\ b.next_version = a.next_version + 1 /\ b.recent_removes = a.recent_removes
    /\ b.cells[k] = [value |-> v, version |-> a.next_version]
    /\ \A l \in Key \ {k} : b.cells[l] = a.cells[l]

LEMMA StoreEffect ==
    ASSUME NEW a \in StoreState, NEW k \in Key, NEW v \in Value, NEW b, b = Store(a, k, v).db
    PROVE  StoredOne(a, k, v, b)
  <1>1. b = [a EXCEPT !.cells[k] = [value |-> v, version |-> a.next_version], !.next_version = @ + 1]
    BY DEF Store
  <1>2. [value |-> v, version |-> a.next_version] \in VersionedValue
    BY DEF StoreState, VersionedValue
  <1>3. /\ b.next_version = a.next_version + 1 /\ b.recent_removes = a.recent_removes
        /\ b.cells = [a.cells EXCEPT ![k] = [value |-> v, version |-> a.next_version]]
        /\ b = [next_version |-> b.next_version, cells |-> b.cells, recent_removes |-> b.recent_removes]
    BY <1>1 DEF StoreState
  <1>4. b.cells \in [Key -> VersionedValue] /\ b.next_version \in Nat /\ b.recent_removes \in Seq(Removal)
    BY <1>2, <1>3 DEF StoreState
  <1>5. b \in StoreState
    BY <1>3, <1>4, Zenon DEF StoreState
  <1> QED  BY <1>3, <1>5 DEF StoredOne, StoreState

\* A removal is put before the earlier ones, of which the last may be forgotten.
RemovedOne(a, k, b) ==
    /\ b \in StoreState /\ b.next_version = a.next_version + 1
    /\ b.cells[k] = nonexistent_vv
    /\ \A l \in Key \ {k} : b.cells[l] = a.cells[l]
    /\ Len(b.recent_removes) = IF Len(a.recent_removes) < max_recent_removes THEN Len(a.recent_removes) + 1
                               ELSE max_recent_removes
    /\ Len(b.recent_removes) >= 1
    /\ b.recent_removes[1] = [key |-> k, vv |-> a.cells[k], remove_version |-> a.next_version]
    /\ \A i \in 2..Len(b.recent_removes) :
         i - 1 \in 1..Len(a.recent_removes) /\ b.recent_removes[i] = a.recent_removes[i - 1]

LEMMA RemoveEffect ==
    ASSUME NEW a \in StoreState, NEW k \in Key, NEW b, b = do_remove(a, k),
           Len(a.recent_removes) <= max_recent_removes
    PROVE  RemovedOne(a, k, b)
  <1> DEFINE q == a.recent_removes
             r == [key |-> k, vv |-> a.cells[k], remove_version |-> a.next_version]
             n == IF Len(q) < max_recent_removes THEN Len(q) + 1 ELSE max_recent_removes
             p == <<r>> \o q
  <1>0. max_recent_removes \in Nat \ {0}
    BY ReplayAssumption
  <1>1. b = [a EXCEPT !.cells[k] = nonexistent_vv, !.next_version = @ + 1, !.recent_removes = SubSeq(<<r>> \o @, 1,
               IF Len(@) < max_recent_removes THEN Len(@) + 1 ELSE max_recent_removes)]
    BY DEF do_remove
  <1>2. a.next_version \in Nat /\ a.cells \in [Key -> VersionedValue] /\ q \in Seq(Removal) /\ r \in Removal
        /\ nonexistent_vv \in VersionedValue
    BY DEF StoreState, Removal, VersionedValue, nonexistent_vv, nonexistent_version
  <1>3. /\ b.next_version = a.next_version + 1 /\ b.recent_removes = SubSeq(p, 1, n)
        /\ b.cells = [a.cells EXCEPT ![k] = nonexistent_vv]
        /\ b = [next_version |-> b.next_version, cells |-> b.cells, recent_removes |-> b.recent_removes]
    BY <1>1 DEF StoreState
  <1>4. n \in 1..(Len(q) + 1)
    BY <1>0, <1>2
  <1> HIDE DEF q, r, n
  <1>5. p \in Seq(Removal) /\ Len(p) = Len(q) + 1 /\ p[1] = r /\ \A i \in 1..Len(q) : p[i + 1] = q[i]
    BY <1>2
  <1> HIDE DEF p
  <1>6. SubSeq(p, 1, n) \in Seq(Removal) /\ Len(SubSeq(p, 1, n)) = n /\ \A i \in 1..n : SubSeq(p, 1, n)[i] = p[i]
    BY <1>2, <1>4, <1>5
  <1>7. \A i \in 2..n : i - 1 \in 1..Len(q) /\ p[i] = q[i - 1]
    BY <1>2, <1>4, <1>5
  <1>8. b \in StoreState
    <2>1. b.next_version \in Nat /\ b.cells \in [Key -> VersionedValue] /\ b.recent_removes \in Seq(Removal)
      BY <1>2, <1>3, <1>6
    <2> QED  BY <1>3, <2>1, Zenon DEF StoreState
  <1>9. b.cells[k] = nonexistent_vv /\ \A l \in Key \ {k} : b.cells[l] = a.cells[l]
    BY <1>2, <1>3
  <1>10. 1 \in 1..n /\ \A i \in 2..n : i \in 1..n
    BY <1>4
  <1>11. Len(b.recent_removes) = n /\ n >= 1 /\ b.recent_removes[1] = r
         /\ \A i \in 2..n : i - 1 \in 1..Len(q) /\ b.recent_removes[i] = q[i - 1]
    BY <1>3, <1>4, <1>5, <1>6, <1>7, <1>10
  <1> QED  BY <1>3, <1>8, <1>9, <1>11 DEF RemovedOne, q, r, n

\* What a request does to the database, and what it answers.
LEMMA RequestEffect ==
    ASSUME NEW a \in StoreState, NEW req \in Request
    PROVE  /\ req.key \in Key
           /\ \/ /\ process_req(a, req).db = a
                 /\ req.type = "get" \/ process_req(a, req).resp.errcode # "ok"
              \/ /\ req.type # "get"
                 /\ \E v \in Value : process_req(a, req) = Store(a, req.key, v)
              \/ /\ req.type # "get"
                 /\ a.cells[req.key] # nonexistent_vv
                 /\ process_req(a, req) = [db   |-> do_remove(a, req.key),
                                           resp |-> mod_ok(a.cells[req.key].version, nonexistent_version)]
  <1>0. req.key \in Key
    BY ReplayAssumption DEF Request
  <1>1. CASE req.type = "get"
    <2>1. process_req(a, req).db = a
      BY <1>1 DEF process_req, process_get
    <2> QED  BY <1>0, <1>1, <2>1
  <1>2. CASE req.type = "put"
    <2>0. req.value \in Value
      BY <1>2 DEF Request
    <2>1. process_req(a, req) = process_put(a, req)
      BY <1>2 DEF process_req
    <2>2. process_req(a, req) = Store(a, req.key, req.value)
          \/ process_req(a, req) = [db |-> a, resp |-> mod_no_match(a.cells[req.key])]
      BY <2>1 DEF process_put
    <2>3. mod_no_match(a.cells[req.key]).errcode # "ok"
      BY DEF mod_no_match
    <2> QED  BY <1>0, <1>2, <2>0, <2>2, <2>3
  <1>3. CASE req.type = "cas"
    <2>0. req.value \in Value
      BY <1>3 DEF Request
    <2>1. process_req(a, req) = process_cas(a, req)
      BY <1>3 DEF process_req
    <2>2. process_req(a, req) = Store(a, req.key, req.value)
          \/ process_req(a, req) = [db |-> a, resp |-> mod_no_match(a.cells[req.key])]
      BY <2>1 DEF process_cas
    <2>3. mod_no_match(a.cells[req.key]).errcode # "ok"
      BY DEF mod_no_match
    <2> QED  BY <1>0, <1>3, <2>0, <2>2, <2>3
  <1>4. CASE req.type = "remove"
    <2> DEFINE none == [errcode |-> "not_found", actual |-> <<>>, previous_version |-> 0, version |-> 0]
    <2>1. process_req(a, req) = process_remove(a, req)
      BY <1>4 DEF process_req
    <2>2. \/ process_req(a, req) = [db |-> a, resp |-> none]
          \/ process_req(a, req) = [db |-> a, resp |-> mod_no_match(a.cells[req.key])]
          \/ /\ a.cells[req.key] # nonexistent_vv
             /\ process_req(a, req) = [db   |-> do_remove(a, req.key),
                                       resp |-> mod_ok(a.cells[req.key].version, nonexistent_version)]
      BY <2>1 DEF process_remove
    <2>3. mod_no_match(a.cells[req.key]).errcode # "ok" /\ none.errcode # "ok"
      BY DEF mod_no_match
    <2> QED  BY <1>0, <1>4, <2>2, <2>3
  <1> QED  BY <1>1, <1>2, <1>3, <1>4 DEF Request

LEMMA StateTypes ==
    ASSUME NEW a \in StoreState
    PROVE  /\ a.next_version \in Nat /\ Len(a.recent_removes) \in Nat
           /\ \A l \in Key : a.cells[l] \in VersionedValue /\ a.cells[l].version \in Nat
           /\ \A i \in 1..Len(a.recent_removes) :
                /\ a.recent_removes[i] \in Removal
                /\ a.recent_removes[i].remove_version \in Nat /\ a.recent_removes[i].vv.version \in Nat
  <1>1. a.next_version \in Nat /\ a.cells \in [Key -> VersionedValue] /\ a.recent_removes \in Seq(Removal)
    BY DEF StoreState
  <1>2. \A x \in VersionedValue : x.version \in Nat
    BY DEF VersionedValue
  <1>3. \A x \in Removal : x.remove_version \in Nat /\ x.vv \in VersionedValue
    BY DEF Removal
  <1>4. \A l \in Key : a.cells[l] \in VersionedValue
    BY <1>1
  <1>5. Len(a.recent_removes) \in Nat /\ \A i \in 1..Len(a.recent_removes) : a.recent_removes[i] \in Removal
    BY <1>1
  <1> QED  BY <1>1, <1>2, <1>3, <1>4, <1>5

LEMMA EmptyWellFormed == WellFormed(EmptyDb) /\ EmptyDb \in StoreState
  <1>1. nonexistent_vv \in VersionedValue /\ nonexistent_vv.version = 0
    BY DEF nonexistent_vv, VersionedValue, nonexistent_version
  <1>2. /\ EmptyDb.next_version = 1 /\ EmptyDb.cells = [k \in Key |-> nonexistent_vv] /\ EmptyDb.recent_removes = <<>>
    BY DEF EmptyDb
  <1>3. EmptyDb \in StoreState
    BY <1>1 DEF EmptyDb, StoreState
  <1>4. CellsApart(EmptyDb)
    BY <1>1, <1>2 DEF CellsApart
  <1>5. RemovesApart(EmptyDb)
    BY <1>2, ReplayAssumption DEF RemovesApart
  <1> QED  BY <1>3, <1>4, <1>5 DEF WellFormed

LEMMA StoreWellFormed ==
    ASSUME NEW a, WellFormed(a), NEW k \in Key, NEW v \in Value, NEW b, b = Store(a, k, v).db
    PROVE  WellFormed(b)
  <1>0. a \in StoreState /\ CellsApart(a) /\ RemovesApart(a)
    BY DEF WellFormed
  <1>1. /\ b \in StoreState /\ b.next_version = a.next_version + 1 /\ b.recent_removes = a.recent_removes
        /\ b.cells[k].version = a.next_version
        /\ \A l \in Key \ {k} : b.cells[l] = a.cells[l]
    <2>1. StoredOne(a, k, v, b)
      BY <1>0, StoreEffect
    <2> QED  BY <2>1 DEF StoredOne
  <1>2. /\ a.next_version \in Nat /\ Len(a.recent_removes) \in Nat
        /\ \A l \in Key : a.cells[l].version \in Nat
        /\ \A i \in 1..Len(a.recent_removes) : a.recent_removes[i].remove_version \in Nat
    BY <1>0, StateTypes
  <1>3. nonexistent_vv.version = 0
    BY DEF nonexistent_vv, nonexistent_version
  <1>4. CellsApart(b)
    <2>1. b.next_version >= 1
      BY <1>1, <1>2
    <2>2. \A l \in Key : a.cells[l].version < a.next_version
      BY <1>0, <1>2, <1>3 DEF CellsApart
    <2>3. ASSUME NEW l \in Key
          PROVE  b.cells[l] = nonexistent_vv \/ b.cells[l].version \in 1..(b.next_version - 1)
      <3>1. CASE l = k
        BY <1>0, <1>1, <1>2, <3>1 DEF CellsApart
      <3>2. CASE l # k
        <4>1. b.cells[l] = a.cells[l] /\ (a.cells[l] = nonexistent_vv \/ a.cells[l].version \in 1..(a.next_version - 1))
          BY <1>0, <1>1, <3>2 DEF CellsApart
        <4> QED  BY <1>1, <1>2, <4>1
      <3> QED  BY <3>1, <3>2
    <2>4. ASSUME NEW l \in Key, NEW m \in Key, b.cells[l].version = b.cells[m].version
          PROVE  l = m \/ b.cells[l].version = 0
      <3>1. CASE l # k /\ m # k
        BY <1>0, <1>1, <2>4, <3>1 DEF CellsApart
      <3>2. CASE l = k /\ m # k
        BY <1>1, <1>2, <2>2, <2>4, <3>2
      <3>3. CASE l # k /\ m = k
        BY <1>1, <1>2, <2>2, <2>4, <3>3
      <3> QED  BY <3>1, <3>2, <3>3
    <2> QED  BY <2>1, <2>3, <2>4 DEF CellsApart
  <1>5. RemovesApart(b)
    <2>1. Len(b.recent_removes) <= max_recent_removes
      BY <1>0, <1>1 DEF RemovesApart
    <2>2. ASSUME NEW i \in 1..Len(a.recent_removes)
          PROVE  /\ a.recent_removes[i].remove_version < b.next_version
                 /\ a.recent_removes[i].vv.version \in 1..(a.recent_removes[i].remove_version - 1)
                 /\ \A l \in Key : b.cells[l].version # a.recent_removes[i].remove_version
                 /\ \A j \in 1..(i - 1) : a.recent_removes[i].remove_version < a.recent_removes[j].remove_version
      <3>1. /\ a.recent_removes[i].remove_version < a.next_version
            /\ a.recent_removes[i].vv.version \in 1..(a.recent_removes[i].remove_version - 1)
            /\ \A l \in Key : a.cells[l].version # a.recent_removes[i].remove_version
            /\ \A j \in 1..(i - 1) : a.recent_removes[i].remove_version < a.recent_removes[j].remove_version
        BY <1>0 DEF RemovesApart
      <3>2. a.recent_removes[i].remove_version < b.next_version
        BY <1>1, <1>2, <3>1
      <3>3. \A l \in Key : b.cells[l].version # a.recent_removes[i].remove_version
        <4> TAKE l \in Key
        <4>1. CASE l = k
          BY <1>1, <1>2, <3>1, <4>1
        <4>2. CASE l # k
          BY <1>1, <3>1, <4>2
        <4> QED  BY <4>1, <4>2
      <3> QED  BY <3>1, <3>2, <3>3
    <2> QED  BY <1>1, <2>1, <2>2 DEF RemovesApart
  <1> QED  BY <1>1, <1>4, <1>5 DEF WellFormed

LEMMA RemoveWellFormed ==
    ASSUME NEW a, WellFormed(a), NEW k \in Key, a.cells[k] # nonexistent_vv, NEW b, b = do_remove(a, k)
    PROVE  WellFormed(b)
  <1> DEFINE q == a.recent_removes
             p == b.recent_removes
  <1>0. a \in StoreState /\ CellsApart(a) /\ RemovesApart(a) /\ Len(q) <= max_recent_removes
    BY DEF WellFormed, RemovesApart
  <1>1. /\ b \in StoreState /\ b.next_version = a.next_version + 1
        /\ b.cells[k] = nonexistent_vv
        /\ \A l \in Key \ {k} : b.cells[l] = a.cells[l]
        /\ Len(p) = IF Len(q) < max_recent_removes THEN Len(q) + 1 ELSE max_recent_removes
        /\ p[1] = [key |-> k, vv |-> a.cells[k], remove_version |-> a.next_version]
        /\ \A i \in 2..Len(p) : i - 1 \in 1..Len(q) /\ p[i] = q[i - 1]
    <2>1. RemovedOne(a, k, b)
      BY <1>0, RemoveEffect
    <2> QED  BY <2>1 DEF RemovedOne
  <1>2. /\ a.next_version \in Nat /\ Len(q) \in Nat
        /\ \A l \in Key : a.cells[l].version \in Nat
        /\ \A i \in 1..Len(q) : q[i].remove_version \in Nat
        /\ max_recent_removes \in Nat
    BY <1>0, StateTypes, ReplayAssumption
  <1>3. nonexistent_vv.version = 0
    BY DEF nonexistent_vv, nonexistent_version
  <1>4. a.cells[k].version \in 1..(a.next_version - 1)
    BY <1>0 DEF CellsApart
  <1>5. \A l \in Key : a.cells[l].version < a.next_version
    BY <1>0, <1>2, <1>3 DEF CellsApart
  <1>6. \A i \in 1..Len(q) : /\ q[i].remove_version < a.next_version
                             /\ q[i].vv.version \in 1..(q[i].remove_version - 1)
                             /\ \A l \in Key : a.cells[l].version # q[i].remove_version
                             /\ \A j \in 1..(i - 1) : q[i].remove_version < q[j].remove_version
    BY <1>0 DEF RemovesApart
  <1>7. CellsApart(b)
    <2>1. b.next_version >= 1
      BY <1>1, <1>2
    <2>3. ASSUME NEW l \in Key
          PROVE  b.cells[l] = nonexistent_vv \/ b.cells[l].version \in 1..(b.next_version - 1)
      <3>1. CASE l = k
        BY <1>1, <3>1
      <3>2. CASE l # k
        <4>1. b.cells[l] = a.cells[l]
          BY <1>1, <3>2
        <4> QED  BY <1>0, <1>1, <1>2, <4>1 DEF CellsApart
      <3> QED  BY <3>1, <3>2
    <2>4. ASSUME NEW l \in Key, NEW m \in Key, b.cells[l].version = b.cells[m].version
          PROVE  l = m \/ b.cells[l].version = 0
      <3>1. CASE l # k /\ m # k
        BY <1>0, <1>1, <2>4, <3>1 DEF CellsApart
      <3>2. CASE l = k \/ m = k
        BY <1>1, <1>3, <2>4, <3>2
      <3> QED  BY <3>1, <3>2
    <2> QED  BY <2>1, <2>3, <2>4 DEF CellsApart
  <1> HIDE DEF q, p
  <1>8. ASSUME NEW i \in 1..Len(p)
        PROVE  /\ p[i].remove_version < b.next_version
               /\ p[i].vv.version \in 1..(p[i].remove_version - 1)
               /\ \A l \in Key : b.cells[l].version # p[i].remove_version
               /\ \A j \in 1..(i - 1) : p[i].remove_version < p[j].remove_version
    <2>1. CASE i = 1
      <3>1. p[i].remove_version = a.next_version /\ p[i].vv = a.cells[k]
        BY <1>1, <2>1
      <3>2. \A l \in Key : b.cells[l].version # a.next_version
        <4> TAKE l \in Key
        <4>1. CASE l = k
          BY <1>1, <1>2, <1>3, <1>4, <4>1
        <4>2. CASE l # k
          BY <1>1, <1>2, <1>5, <4>2
        <4> QED  BY <4>1, <4>2
      <3> QED  BY <1>1, <1>2, <1>4, <2>1, <3>1, <3>2
    <2>2. CASE i # 1
      <3>1. i \in 2..Len(p)
        BY <1>1, <1>2, <2>2
      <3>2. i - 1 \in 1..Len(q) /\ p[i] = q[i - 1]
        BY <1>1, <3>1
      <3> DEFINE m == i - 1
      <3>3. m \in 1..Len(q) /\ i = m + 1
        BY <3>2
      <3>4. p[i] = q[m]
        BY <3>2
      <3> HIDE DEF m
      <3>5. /\ q[m].remove_version < a.next_version
            /\ q[m].vv.version \in 1..(q[m].remove_version - 1)
            /\ \A l \in Key : a.cells[l].version # q[m].remove_version
            /\ \A j \in 1..(m - 1) : q[m].remove_version < q[j].remove_version
        BY <1>6, <3>3
      <3>6. \A l \in Key : b.cells[l].version # q[m].remove_version
        <4> TAKE l \in Key
        <4>1. CASE l = k
          BY <1>1, <1>2, <1>3, <3>3, <3>5, <4>1
        <4>2. CASE l # k
          BY <1>1, <3>5, <4>2
        <4> QED  BY <4>1, <4>2
      <3>7. ASSUME NEW j \in 1..(i - 1) PROVE q[m].remove_version < p[j].remove_version
        <4>1. CASE j = 1
          BY <1>1, <3>5, <4>1
        <4>2. CASE j # 1
          <5>1. j \in 2..Len(p) /\ j - 1 \in 1..(m - 1)
            BY <1>1, <1>2, <3>3, <4>2
          <5>2. p[j] = q[j - 1]
            BY <1>1, <5>1
          <5> QED  BY <3>5, <5>1, <5>2
        <4> QED  BY <4>1, <4>2
      <3>8. q[m].remove_version < b.next_version
        BY <1>1, <1>2, <3>3, <3>5
      <3> QED  BY <3>4, <3>5, <3>6, <3>7, <3>8
    <2> QED  BY <2>1, <2>2
  <1>9. Len(p) <= max_recent_removes
    BY <1>1, <1>2
  <1>10. RemovesApart(b)
    BY <1>8, <1>9 DEF RemovesApart, p
  <1> QED  BY <1>1, <1>7, <1>10 DEF WellFormed

LEMMA NewerSelf ==
    ASSUME NEW a, WellFormed(a)
    PROVE  Newer(a, a)
  <1>1. /\ a \in StoreState /\ a.next_version \in Nat
        /\ \A i \in 1..Len(a.recent_removes) : a.recent_removes[i].remove_version < a.next_version
    BY StateTypes DEF WellFormed, RemovesApart
  <1>2. \A i \in 1..Len(a.recent_removes) : ~(a.recent_removes[i].remove_version >= a.next_version)
    BY <1>1, StateTypes
  <1> QED  BY <1>1, <1>2 DEF Newer, Later, RemovedSince

\* What comes after a later state is later still.
LEMMA StoreNewer ==
    ASSUME NEW a, WellFormed(a), NEW c \in StoreState, Newer(a, c),
           NEW k \in Key, NEW v \in Value, NEW b, b = Store(a, k, v).db
    PROVE  Newer(b, c)
  <1>0. a \in StoreState /\ a.next_version \in Nat /\ c.next_version \in Nat /\ c.next_version <= a.next_version
    BY StateTypes DEF WellFormed, Newer
  <1>1. /\ b.next_version = a.next_version + 1 /\ b.recent_removes = a.recent_removes
        /\ b.cells[k] = [value |-> v, version |-> a.next_version]
        /\ \A l \in Key \ {k} : b.cells[l] = a.cells[l]
    <2>1. StoredOne(a, k, v, b)
      BY <1>0, StoreEffect
    <2> QED  BY <2>1 DEF StoredOne
  <1>2. ASSUME NEW l \in Key PROVE Later(b, c, l)
    <2>1. CASE l = k
      <3>1. b.cells[l].version = a.next_version
        BY <1>1, <2>1
      <3> QED  BY <1>0, <3>1 DEF Later
    <2>2. CASE l # k
      <3>1. Later(a, c, l) /\ b.cells[l] = a.cells[l] /\ b.recent_removes = a.recent_removes
        BY <1>1, <2>2 DEF Newer
      <3> QED  BY <3>1, Zenon DEF Later, Remembered, Forgotten
    <2> QED  BY <2>1, <2>2
  <1>3. RemovedSince(b, c)
    BY <1>1 DEF Newer, RemovedSince
  <1> QED  BY <1>0, <1>1, <1>2, <1>3 DEF Newer

LEMMA RemoveNewer ==
    ASSUME NEW a, WellFormed(a), NEW c, WellFormed(c), Newer(a, c),
           NEW k \in Key, a.cells[k] # nonexistent_vv, NEW b, b = do_remove(a, k)
    PROVE  Newer(b, c)
  <1> DEFINE q == a.recent_removes
             p == b.recent_removes
  <1>0. /\ a \in StoreState /\ a.next_version \in Nat /\ c.next_version \in Nat /\ c.next_version <= a.next_version
        /\ Len(q) \in Nat /\ Len(q) <= max_recent_removes /\ max_recent_removes \in Nat \ {0}
        /\ \A i \in 1..Len(q) : q[i].remove_version \in Nat
    BY StateTypes, ReplayAssumption DEF WellFormed, Newer, RemovesApart
  <1>1. /\ b.next_version = a.next_version + 1
        /\ b.cells[k] = nonexistent_vv
        /\ \A l \in Key \ {k} : b.cells[l] = a.cells[l]
        /\ Len(p) = IF Len(q) < max_recent_removes THEN Len(q) + 1 ELSE max_recent_removes
        /\ p[1] = [key |-> k, vv |-> a.cells[k], remove_version |-> a.next_version]
        /\ \A i \in 2..Len(p) : i - 1 \in 1..Len(q) /\ p[i] = q[i - 1]
    <2>1. RemovedOne(a, k, b)
      BY <1>0, RemoveEffect
    <2> QED  BY <2>1 DEF RemovedOne
  <1>2. p[1].key = k /\ p[1].vv = a.cells[k] /\ p[1].remove_version = a.next_version
    BY <1>1
  <1>3. \A i \in 1..Len(q) : /\ q[i].remove_version < a.next_version
                             /\ \A j \in 1..(i - 1) : q[i].remove_version < q[j].remove_version
    BY DEF WellFormed, RemovesApart
  <1>4. Later(b, c, k)
    <2>1. CASE c.cells[k] = nonexistent_vv
      BY <1>1, <2>1 DEF Later
    <2>2. CASE c.cells[k] # nonexistent_vv
      <3>2. 1 \in 1..Len(p)
        BY <1>0, <1>1
      <3>3. Remembered(b, c, k)
        <4>1. p[1].key = k /\ p[1].remove_version >= c.next_version
          BY <1>0, <1>2
        <4> QED  BY <3>2, <4>1, Zenon DEF Remembered
      <3> QED  BY <1>1, <2>2, <3>3 DEF Later
    <2> QED  BY <2>1, <2>2
  <1> HIDE DEF q, p
  <1>5. ASSUME NEW l \in Key, l # k, Remembered(a, c, l)
        PROVE  Remembered(b, c, l) \/ Forgotten(b, c)
    <2>1. PICK i \in 1..Len(q) : q[i].key = l /\ q[i].remove_version >= c.next_version
      BY <1>5, Zenon DEF Remembered, q
    <2> DEFINE n == i + 1
    <2>2. n \in Nat /\ n >= 2 /\ n - 1 = i
      BY <1>0
    <2>3. CASE n <= Len(p)
      <3>1. n \in 2..Len(p) /\ n \in 1..Len(p)
        BY <1>0, <1>1, <2>2, <2>3
      <3>2. p[n] = q[i]
        BY <1>1, <2>2, <3>1
      <3> HIDE DEF n
      <3>3. p[n].key = l /\ p[n].remove_version >= c.next_version
        BY <2>1, <3>2
      <3> QED  BY <3>1, <3>3, Zenon DEF Remembered, p
    <2>4. CASE n > Len(p)
      <3>1. Len(p) = max_recent_removes /\ i = Len(p) /\ Len(q) = i
        BY <1>0, <1>1, <2>2, <2>4
      <3>2. ASSUME NEW m \in 1..Len(p) PROVE p[m].remove_version > c.next_version
        <4>1. CASE m = 1
          <5>1. q[i].remove_version < a.next_version /\ q[i].remove_version \in Nat
            BY <1>0, <1>3
          <5> QED  BY <1>0, <1>2, <2>1, <4>1, <5>1
        <4>2. CASE m # 1
          <5>1. m \in 2..Len(p) /\ m - 1 \in 1..(i - 1) /\ m - 1 \in 1..Len(q)
            BY <1>0, <3>1, <4>2
          <5>2. p[m] = q[m - 1] /\ q[i].remove_version < q[m - 1].remove_version
            BY <1>1, <1>3, <5>1
          <5>3. q[i].remove_version \in Nat /\ q[m - 1].remove_version \in Nat
            BY <1>0, <5>1
          <5>4. PICK u, w, z : u = q[i].remove_version /\ w = q[m - 1].remove_version /\ z = c.next_version
            OBVIOUS
          <5>5. u \in Nat /\ w \in Nat /\ z \in Nat /\ u >= z /\ u < w
            BY <1>0, <2>1, <5>2, <5>3, <5>4
          <5>6. w > z
            BY <5>5
          <5> QED  BY <5>2, <5>4, <5>6
        <4> QED  BY <4>1, <4>2
      <3> QED  BY <3>1, <3>2 DEF Forgotten, p
    <2> QED  BY <1>0, <1>1, <2>2, <2>3, <2>4
  <1>6. ASSUME Forgotten(a, c) PROVE Forgotten(b, c)
    <2>1. Len(q) = max_recent_removes /\ \A i \in 1..Len(q) : q[i].remove_version > c.next_version
      BY <1>6 DEF Forgotten, q
    <2>2. Len(p) = max_recent_removes
      BY <1>0, <1>1, <2>1
    <2>3. ASSUME NEW m \in 1..Len(p) PROVE p[m].remove_version > c.next_version
      <3>1. CASE m = 1
        <4>1. 1 \in 1..Len(q)
          BY <1>0, <2>1
        <4> QED  BY <1>0, <1>2, <1>3, <2>1, <3>1, <4>1
      <3>2. CASE m # 1
        <4>1. m \in 2..Len(p)
          BY <1>0, <2>2, <3>2
        <4> QED  BY <1>1, <2>1, <4>1
      <3> QED  BY <3>1, <3>2
    <2> QED  BY <2>2, <2>3 DEF Forgotten, p
  <1>7. ASSUME NEW l \in Key, l # k PROVE Later(b, c, l)
    <2>1. Later(a, c, l) /\ b.cells[l] = a.cells[l]
      BY <1>1, <1>7 DEF Newer
    <2> QED  BY <1>5, <1>6, <1>7, <2>1, Zenon DEF Later
  <1>8. c.next_version <= b.next_version
    BY <1>0, <1>1
  <1>9. \A l \in Key : Later(b, c, l)
    BY <1>4, <1>7
  <1>10. RemovedSince(b, c)
    <2> SUFFICES ASSUME NEW i \in 1..Len(p), p[i].remove_version >= c.next_version
                 PROVE  p[i].vv = c.cells[p[i].key] \/ p[i].vv.version >= c.next_version
      BY DEF RemovedSince, p
    <2>1. CASE i = 1
      <3>1. a.cells[k] = c.cells[k] \/ a.cells[k].version >= c.next_version
        BY DEF Newer, Later
      <3> QED  BY <1>2, <2>1, <3>1
    <2>2. CASE i # 1
      <3>1. i \in 2..Len(p)
        BY <1>0, <1>1, <2>2
      <3>2. i - 1 \in 1..Len(q) /\ p[i] = q[i - 1]
        BY <1>1, <3>1
      <3> QED  BY <3>2 DEF Newer, RemovedSince, q
    <2> QED  BY <2>1, <2>2
  <1> QED  BY <1>8, <1>9, <1>10 DEF Newer

LEMMA RequestKeeps ==
    ASSUME NEW a, WellFormed(a), NEW req \in Request
    PROVE  /\ WellFormed(process_req(a, req).db)
           /\ \A c : WellFormed(c) /\ Newer(a, c) => Newer(process_req(a, req).db, c)
  <1> DEFINE b == process_req(a, req).db
  <1>1. a \in StoreState /\ \A c : WellFormed(c) => c \in StoreState
    BY DEF WellFormed
  <1>2. CASE b = a
    BY <1>2
  <1>3. ASSUME NEW v \in Value, req.key \in Key, b = Store(a, req.key, v).db
        PROVE  WellFormed(b) /\ \A c : WellFormed(c) /\ Newer(a, c) => Newer(b, c)
    <2> HIDE DEF b
    <2> QED  BY <1>1, <1>3, StoreWellFormed, StoreNewer
  <1>4. ASSUME req.key \in Key, a.cells[req.key] # nonexistent_vv, b = do_remove(a, req.key)
        PROVE  WellFormed(b) /\ \A c : WellFormed(c) /\ Newer(a, c) => Newer(b, c)
    <2> HIDE DEF b
    <2> QED  BY <1>1, <1>4, RemoveWellFormed, RemoveNewer
  <1>5. \/ b = a
        \/ req.key \in Key /\ \E v \in Value : b = Store(a, req.key, v).db
        \/ req.key \in Key /\ a.cells[req.key] # nonexistent_vv /\ b = do_remove(a, req.key)
    BY <1>1, RequestEffect
  <1> QED  BY <1>2, <1>3, <1>4, <1>5

\* find_recent_remove gives the first removal of the key in the window.
LEMMA FirstRemoval ==
    ASSUME NEW a \in StoreState, NEW k \in Key, NEW min \in Int
    PROVE  \/ /\ find_recent_remove(a, k, min) = nonexistent_vv
              /\ \A i \in 1..Len(a.recent_removes) :
                   ~(a.recent_removes[i].key = k /\ a.recent_removes[i].remove_version >= min)
           \/ \E i \in 1..Len(a.recent_removes) :
                /\ a.recent_removes[i].key = k /\ a.recent_removes[i].remove_version >= min
                /\ \A j \in 1..(i - 1) : ~(a.recent_removes[j].key = k /\ a.recent_removes[j].remove_version >= min)
                /\ find_recent_remove(a, k, min) = a.recent_removes[i].vv
  <1> DEFINE q == a.recent_removes
             found == {i \in 1..Len(q) : q[i].key = k /\ q[i].remove_version >= min}
  <1>0. Len(q) \in Nat
    BY StateTypes
  <1>1. find_recent_remove(a, k, min) = IF found = {} THEN nonexistent_vv ELSE q[Min(found)].vv
    BY DEF find_recent_remove
  <1> HIDE DEF q
  <1>2. CASE found = {}
    <2>1. \A i \in 1..Len(q) : ~(q[i].key = k /\ q[i].remove_version >= min)
      BY <1>2
    <2> QED  BY <1>1, <1>2, <2>1 DEF q
  <1>3. CASE found # {}
    <2>1. found \in SUBSET Nat
      BY <1>0
    <2>2. \E i \in found : \A j \in found : i <= j
      BY <1>3, <2>1, LeastOf
    <2> DEFINE n == Min(found)
    <2>3. n \in found /\ \A j \in found : n <= j
      BY <2>2 DEF Min
    <2>4. find_recent_remove(a, k, min) = q[n].vv
      BY <1>1, <1>3
    <2> HIDE DEF n
    <2>5. n \in 1..Len(q) /\ q[n].key = k /\ q[n].remove_version >= min
      BY <2>3
    <2>6. \A j \in 1..(n - 1) : ~(q[j].key = k /\ q[j].remove_version >= min)
      <3>1. \A j \in 1..(n - 1) : j \in 1..Len(q) /\ ~(n <= j)
        BY <1>0, <2>5
      <3> QED  BY <2>3, <3>1
    <2>7. \E i \in 1..Len(q) :
                /\ q[i].key = k /\ q[i].remove_version >= min
                /\ \A j \in 1..(i - 1) : ~(q[j].key = k /\ q[j].remove_version >= min)
                /\ find_recent_remove(a, k, min) = q[i].vv
      BY <2>4, <2>5, <2>6, Zenon
    <2> QED  BY <2>7 DEF q
  <1> QED  BY <1>2, <1>3

\* The value that diff takes for a key.
Found(a, k, min) == IF a.cells[k] # nonexistent_vv THEN a.cells[k] ELSE find_recent_remove(a, k, min)

Complete(a, min) ==
    \/ Len(a.recent_removes) < max_recent_removes
    \/ Last(a.recent_removes).remove_version <= min

Differ(x, y, complete, min) ==
    /\ ~(x # nonexistent_vv /\ y = nonexistent_vv /\ x.version >= min)
    /\ ~(x = nonexistent_vv /\ ~complete)
    /\ \/ x = nonexistent_vv
       \/ y = nonexistent_vv
       \/ x.version < y.version
       \/ x.version > y.version /\ x.version < min
       \/ x.version = y.version /\ x.value # y.value

LEMMA DiffIs ==
    ASSUME NEW a, NEW c, NEW skew, NEW k \in Key, NEW min, min = a.next_version - skew
    PROVE  k \in DiffKeys(a, c, skew) <=>
             /\ a.cells[k] # nonexistent_vv \/ c.cells[k] # nonexistent_vv
             /\ Differ(Found(a, k, min), Found(c, k, min), Complete(a, min), min)
  BY Zenon DEF DiffKeys, MinVersion, Found, Complete, Differ

\* Whatever diff finds for a key in a database is older than the next version.
LEMMA FoundOlder ==
    ASSUME NEW a, WellFormed(a), NEW k \in Key, NEW min \in Int
    PROVE  \/ Found(a, k, min) = nonexistent_vv
           \/ Found(a, k, min).version \in 1..(a.next_version - 1)
  <1>1. a \in StoreState /\ a.next_version \in Nat
    BY StateTypes DEF WellFormed
  <1>2. CASE a.cells[k] # nonexistent_vv
    BY <1>2 DEF WellFormed, CellsApart, Found
  <1>3. ASSUME a.cells[k] = nonexistent_vv, NEW i \in 1..Len(a.recent_removes),
               find_recent_remove(a, k, min) = a.recent_removes[i].vv
        PROVE  Found(a, k, min).version \in 1..(a.next_version - 1)
    <2>1. /\ a.recent_removes[i].remove_version < a.next_version
          /\ a.recent_removes[i].vv.version \in 1..(a.recent_removes[i].remove_version - 1)
          /\ a.recent_removes[i].remove_version \in Nat
      BY <1>1, StateTypes DEF WellFormed, RemovesApart
    <2>2. Found(a, k, min) = a.recent_removes[i].vv
      BY <1>3 DEF Found
    <2> DEFINE rv == a.recent_removes[i].remove_version
               v == a.recent_removes[i].vv.version
    <2>3. rv \in Nat /\ rv < a.next_version /\ v \in 1..(rv - 1)
      BY <2>1
    <2>4. Found(a, k, min).version = v
      BY <2>2
    <2> HIDE DEF rv, v
    <2>5. v \in 1..(a.next_version - 1)
      BY <1>1, <2>3
    <2> QED  BY <2>4, <2>5
  <1>4. CASE a.cells[k] = nonexistent_vv
    <2>1. Found(a, k, min) = find_recent_remove(a, k, min)
      BY <1>4 DEF Found
    <2> QED  BY <1>1, <1>3, <1>4, <2>1, FirstRemoval
  <1> QED  BY <1>2, <1>4

(***************************************************************************)
(* diff accepts a later state within the skew.                             *)
(***************************************************************************)
LEMMA LagAccepted ==
    ASSUME NEW a, WellFormed(a), NEW c, WellFormed(c), Newer(a, c), NEW skew \in Nat,
           a.next_version - c.next_version <= skew
    PROVE  DiffKeys(a, c, skew) = {}
  <1> SUFFICES ASSUME NEW k \in Key, k \in DiffKeys(a, c, skew) PROVE FALSE
    BY Zenon DEF DiffKeys
  <1> DEFINE min == a.next_version - skew
             x == Found(a, k, min)
             y == Found(c, k, min)
             q == a.recent_removes
  <1>0. /\ a \in StoreState /\ c \in StoreState /\ a.next_version \in Nat /\ c.next_version \in Nat
        /\ Len(q) \in Nat /\ \A i \in 1..Len(q) : q[i].remove_version \in Nat /\ q[i].vv.version \in Nat
        /\ a.cells[k].version \in Nat /\ c.cells[k].version \in Nat
    BY StateTypes DEF WellFormed
  <1>1. min \in Int /\ min <= c.next_version
    BY <1>0
  <1>2. /\ a.cells[k] # nonexistent_vv \/ c.cells[k] # nonexistent_vv
        /\ Differ(x, y, Complete(a, min), min)
    BY DiffIs
  <1>3. y = nonexistent_vv \/ y.version \in 1..(c.next_version - 1)
    BY <1>1, FoundOlder
  <1>4. Later(a, c, k)
    BY DEF Newer
  <1>5. nonexistent_vv.version = 0
    BY DEF nonexistent_vv, nonexistent_version
  <1>6. ASSUME x # nonexistent_vv, x.version \in Nat, x.version >= c.next_version PROVE FALSE
    <2> HIDE DEF x, y, min
    <2> QED  BY <1>0, <1>1, <1>2, <1>3, <1>6 DEF Differ
  <1>7. CASE a.cells[k] = c.cells[k]
    <2>1. x = a.cells[k] /\ y = x /\ x # nonexistent_vv
      BY <1>2, <1>7 DEF Found
    <2> HIDE DEF x, y, min
    <2> QED  BY <1>0, <1>2, <2>1 DEF Differ
  <1>8. CASE a.cells[k] # nonexistent_vv /\ a.cells[k].version >= c.next_version
    <2>1. x = a.cells[k]
      BY <1>8 DEF Found
    <2> QED  BY <1>0, <1>6, <1>8, <2>1
  <1>9. CASE a.cells[k] = nonexistent_vv /\ c.cells[k] # nonexistent_vv /\ (Remembered(a, c, k) \/ Forgotten(a, c))
    <2>1. x = find_recent_remove(a, k, min) /\ y = c.cells[k]
      BY <1>9 DEF Found
    <2>2. ASSUME x = nonexistent_vv, \A i \in 1..Len(q) : ~(q[i].key = k /\ q[i].remove_version >= min)
          PROVE  FALSE
      <3>2. ~Remembered(a, c, k)
        <4> SUFFICES ASSUME NEW i \in 1..Len(q), q[i].key = k, q[i].remove_version >= c.next_version PROVE FALSE
          BY DEF Remembered
        <4>1. q[i].remove_version >= min
          BY <1>0, <1>1
        <4> QED  BY <2>2, <4>1
      <3>3. Len(q) = max_recent_removes /\ Len(q) \in 1..Len(q) /\ q[Len(q)].remove_version > c.next_version
        BY <1>0, <1>9, <3>2, ReplayAssumption DEF Forgotten
      <3>4. ~Complete(a, min)
        BY <1>0, <1>1, <3>3 DEF Complete, Last
      <3> QED  BY <1>2, <2>2, <3>4 DEF Differ
    <2>3. ASSUME NEW n \in 1..Len(q), q[n].key = k, x = q[n].vv,
                 \A j \in 1..(n - 1) : ~(q[j].key = k /\ q[j].remove_version >= min)
          PROVE  FALSE
      <3>1. q[n].remove_version >= c.next_version
        <4>1. CASE Forgotten(a, c)
          BY <1>0, <4>1 DEF Forgotten
        <4>2. ASSUME NEW i \in 1..Len(q), q[i].key = k, q[i].remove_version >= c.next_version
              PROVE  q[n].remove_version >= c.next_version
          <5>1. q[i].remove_version >= min
            <6>1. q[i].remove_version \in Nat
              BY <1>0
            <6> HIDE DEF min, q
            <6> QED  BY <1>0, <1>1, <4>2, <6>1
          <5>2. ~(i < n)
            <6>1. i < n => i \in 1..(n - 1)
              BY <1>0
            <6> QED  BY <2>3, <4>2, <5>1, <6>1
          <5>3. n = i \/ n \in 1..(i - 1)
            BY <1>0, <5>2
          <5>4. n \in 1..(i - 1) => q[i].remove_version < q[n].remove_version
            BY DEF WellFormed, RemovesApart
          <5> QED  BY <1>0, <4>2, <5>3, <5>4
        <4> QED  BY <1>9, <4>1, <4>2 DEF Remembered
      <3>2. x = c.cells[k] \/ x.version >= c.next_version
        BY <2>3, <3>1 DEF Newer, RemovedSince
      <3>3. x # nonexistent_vv /\ x.version \in Nat
        BY <1>0, <1>5, <2>3 DEF WellFormed, RemovesApart
      <3>4. CASE x = y
        <4> HIDE DEF x, y, min
        <4> QED  BY <1>2, <3>3, <3>4 DEF Differ
      <3> QED  BY <1>6, <2>1, <3>2, <3>3, <3>4
    <2>4. \/ x = nonexistent_vv /\ \A i \in 1..Len(q) : ~(q[i].key = k /\ q[i].remove_version >= min)
          \/ \E i \in 1..Len(q) :
                /\ q[i].key = k /\ q[i].remove_version >= min
                /\ \A j \in 1..(i - 1) : ~(q[j].key = k /\ q[j].remove_version >= min)
                /\ x = q[i].vv
      <3> DEFINE f == find_recent_remove(a, k, min)
      <3> HIDE DEF min, q
      <3>1. \/ f = nonexistent_vv /\ \A i \in 1..Len(q) : ~(q[i].key = k /\ q[i].remove_version >= min)
            \/ \E i \in 1..Len(q) :
                  /\ q[i].key = k /\ q[i].remove_version >= min
                  /\ \A j \in 1..(i - 1) : ~(q[j].key = k /\ q[j].remove_version >= min)
                  /\ f = q[i].vv
        BY <1>0, <1>1, FirstRemoval DEF q
      <3>2. x = f
        BY <2>1
      <3> HIDE DEF f, x
      <3> QED  BY <3>1, <3>2
    <2> QED  BY <2>2, <2>3, <2>4
  <1>11. a.cells[k].version >= c.next_version => a.cells[k] # nonexistent_vv
    BY <1>0, <1>5 DEF WellFormed, CellsApart
  <1> QED  BY <1>4, <1>7, <1>8, <1>9, <1>11 DEF Later

LEMMA NothingRemoved ==
    ASSUME NEW a, WellFormed(a), NEW k \in Key, NEW min \in Nat, a.next_version <= min
    PROVE  find_recent_remove(a, k, min) = nonexistent_vv
  <1>1. a \in StoreState /\ a.next_version \in Nat
    BY StateTypes DEF WellFormed
  <1>2. ASSUME NEW i \in 1..Len(a.recent_removes) PROVE ~(a.recent_removes[i].remove_version >= min)
    <2>1. a.recent_removes[i].remove_version < a.next_version /\ a.recent_removes[i].remove_version \in Nat
      BY <1>1, StateTypes DEF WellFormed, RemovesApart
    <2> QED  BY <1>1, <2>1
  <1>3. min \in Int
    OBVIOUS
  <1> QED  BY <1>1, <1>2, <1>3, FirstRemoval

(***************************************************************************)
(* Without skew diff tells a later state from an earlier one just when     *)
(* their cells differ.                                                     *)
(***************************************************************************)
LEMMA DifferenceFound ==
    ASSUME NEW a, WellFormed(a), NEW c, WellFormed(c), Newer(a, c)
    PROVE  DiffKeys(a, c, 0) = {} <=> a.cells = c.cells
  <1> DEFINE min == a.next_version - 0
  <1>0. /\ a \in StoreState /\ c \in StoreState /\ a.next_version \in Nat /\ c.next_version \in Nat
        /\ min = a.next_version /\ c.next_version <= min /\ min \in Nat
    BY StateTypes DEF WellFormed, Newer
  <1>1. DiffKeys(a, c, 0) \subseteq Key
    BY Zenon DEF DiffKeys
  <1>2. DOMAIN a.cells = Key /\ DOMAIN c.cells = Key
        /\ a.cells = [k \in Key |-> a.cells[k]] /\ c.cells = [k \in Key |-> c.cells[k]]
    BY <1>0 DEF StoreState
  <1>3. nonexistent_vv.version = 0
    BY DEF nonexistent_vv, nonexistent_version
  <1>4. ASSUME NEW k \in Key, a.cells[k] = c.cells[k] PROVE k \notin DiffKeys(a, c, 0)
    <2>1. k \in DiffKeys(a, c, 0) <=>
             /\ a.cells[k] # nonexistent_vv \/ c.cells[k] # nonexistent_vv
             /\ Differ(Found(a, k, min), Found(c, k, min), Complete(a, min), min)
      BY DiffIs
    <2>2. a.cells[k] # nonexistent_vv => Found(a, k, min) = a.cells[k] /\ Found(c, k, min) = a.cells[k]
      BY <1>4 DEF Found
    <2>3. a.cells[k].version \in Nat
      BY <1>0, StateTypes
    <2>4. a.cells[k] # nonexistent_vv => ~Differ(a.cells[k], a.cells[k], Complete(a, min), min)
      BY <2>3 DEF Differ
    <2> QED  BY <1>4, <2>1, <2>2, <2>4
  <1>5. ASSUME NEW k \in Key, a.cells[k] # c.cells[k] PROVE k \in DiffKeys(a, c, 0)
    <2> DEFINE x == Found(a, k, min)
               y == Found(c, k, min)
    <2>0. k \in DiffKeys(a, c, 0) <=>
             /\ a.cells[k] # nonexistent_vv \/ c.cells[k] # nonexistent_vv
             /\ Differ(x, y, Complete(a, min), min)
      BY DiffIs
    <2>1. /\ a.cells[k] = nonexistent_vv \/ a.cells[k].version \in 1..(a.next_version - 1)
          /\ c.cells[k] = nonexistent_vv \/ c.cells[k].version \in 1..(c.next_version - 1)
      BY DEF WellFormed, CellsApart
    <2>2. find_recent_remove(a, k, min) = nonexistent_vv /\ find_recent_remove(c, k, min) = nonexistent_vv
      BY <1>0, NothingRemoved
    <2>3. x = a.cells[k] /\ y = c.cells[k]
      BY <2>2 DEF Found
    <2> HIDE DEF x, y
    <2>4. CASE a.cells[k] = nonexistent_vv
      <3>1. Complete(a, min)
        <4>1. Len(a.recent_removes) \in Nat /\ Len(a.recent_removes) <= max_recent_removes
          BY <1>0, StateTypes DEF WellFormed, RemovesApart
        <4>2. CASE Len(a.recent_removes) = max_recent_removes
          <5>1. Len(a.recent_removes) \in 1..Len(a.recent_removes)
            BY <4>1, <4>2, ReplayAssumption
          <5>2. a.recent_removes[Len(a.recent_removes)].remove_version < a.next_version
            BY <5>1 DEF WellFormed, RemovesApart
          <5>3. a.recent_removes[Len(a.recent_removes)].remove_version \in Nat
            BY <1>0, <5>1, StateTypes
          <5> QED  BY <1>0, <5>2, <5>3 DEF Complete, Last
        <4> QED  BY <4>1, <4>2, ReplayAssumption DEF Complete
      <3> QED  BY <1>5, <2>0, <2>3, <2>4, <3>1 DEF Differ
    <2>5. CASE a.cells[k] # nonexistent_vv
      <3>1. a.cells[k].version >= c.next_version /\ a.cells[k].version < min /\ a.cells[k].version \in Nat
        BY <1>0, <1>5, <2>1, <2>5 DEF Newer, Later
      <3>2. c.cells[k] # nonexistent_vv => c.cells[k].version < a.cells[k].version /\ c.cells[k].version \in Nat
        BY <1>0, <2>1, <3>1
      <3> QED  BY <1>0, <2>0, <2>3, <2>5, <3>1, <3>2 DEF Differ
    <2> QED  BY <2>4, <2>5
  <1>6. a.cells = c.cells <=> \A k \in Key : a.cells[k] = c.cells[k]
    BY <1>2
  <1> QED  BY <1>1, <1>4, <1>5, <1>6

\* Databases with the same next version have the same cells.
LEMMA SameVersion ==
    ASSUME NEW a, WellFormed(a), NEW c, WellFormed(c), Newer(a, c), a.next_version = c.next_version
    PROVE  Newer(c, a)
  <1>0. a \in StoreState /\ c \in StoreState /\ a.next_version \in Nat
    BY StateTypes DEF WellFormed
  <1>1. /\ \A i \in 1..Len(a.recent_removes) : ~(a.recent_removes[i].remove_version >= a.next_version)
        /\ \A i \in 1..Len(c.recent_removes) : ~(c.recent_removes[i].remove_version >= a.next_version)
    BY <1>0, StateTypes DEF WellFormed, RemovesApart
  <1>2. ASSUME NEW k \in Key PROVE a.cells[k] = c.cells[k]
    <2>1. ~(a.cells[k].version >= c.next_version)
      <3>1. nonexistent_vv.version = 0
        BY DEF nonexistent_vv, nonexistent_version
      <3> QED  BY <1>0, <3>1 DEF WellFormed, CellsApart
    <2>2. ~Remembered(a, c, k)
      BY <1>1 DEF Remembered
    <2>3. ~Forgotten(a, c)
      <3> SUFFICES ASSUME Forgotten(a, c) PROVE FALSE
        OBVIOUS
      <3>1. 1 \in 1..Len(a.recent_removes) /\ a.recent_removes[1].remove_version > c.next_version
        BY <1>0, ReplayAssumption DEF Forgotten
      <3>2. a.recent_removes[1].remove_version \in Nat
        BY <1>0, <3>1, StateTypes
      <3> QED  BY <1>0, <1>1, <3>1, <3>2
    <2> QED  BY <2>1, <2>2, <2>3 DEF Newer, Later
  <1>3. \A k \in Key : Later(c, a, k)
    BY <1>2 DEF Later
  <1>4. RemovedSince(c, a)
    BY <1>1 DEF RemovedSince
  <1> QED  BY <1>0, <1>3, <1>4 DEF Newer

LEMMA StoreStart == ReplayInit => StoreInv
  <1> SUFFICES ASSUME ReplayInit PROVE StoreInv
    OBVIOUS
  <1>1. history = <<>> /\ answers = <<>> /\ db1 = EmptyDb /\ db2 = EmptyDb /\ replayed = 0
    BY DEF ReplayInit
  <1>2. history \in Seq(Request) /\ answers \in Seq(Range(answers)) /\ Len(answers) = 0 /\ Len(history) = 0
        /\ DOMAIN answers = {}
    BY <1>1
  <1>3. Replays([i \in 0..0 |-> EmptyDb])
    <2> DEFINE h == [i \in 0..0 |-> EmptyDb]
    <2>1. DOMAIN h = 0..0 /\ \A i \in 0..0 : h[i] = EmptyDb /\ i = 0
      OBVIOUS
    <2>2. h[0] = EmptyDb /\ WellFormed(EmptyDb) /\ Newer(EmptyDb, EmptyDb)
      BY <2>1, EmptyWellFormed, NewerSelf
    <2> HIDE DEF h
    <2>3. /\ DOMAIN h = 0..Len(history) /\ h[Len(history)] = db1 /\ h[replayed] = db2
          /\ \A i \in 0..Len(history) : WellFormed(h[i])
          /\ \A i \in 0..Len(history) : \A j \in 0..i : Newer(h[i], h[j])
      BY <1>1, <1>2, <2>1, <2>2
    <2>4. \A i \in 1..Len(history) : FALSE
      BY <1>2
    <2> QED  BY <2>3, <2>4 DEF Replays, h
  <1>4. ResponsesChain
    BY <1>2 DEF ResponsesChain
  <1>5. \A k \in Key : Answered(k)
    <2> TAKE k \in Key
    <2>1. Modified(k, Len(history)) = {}
      BY <1>2 DEF Modified
    <2>2. db1.cells[k].version = nonexistent_version
      BY <1>1 DEF EmptyDb, nonexistent_vv
    <2> QED  BY <2>1, <2>2 DEF Answered
  <1>6. replayed \in 0..Len(history)
    BY <1>1, <1>2
  <1>7. \E h : Replays(h)
    BY <1>3
  <1> QED  BY <1>2, <1>4, <1>5, <1>6, <1>7 DEF StoreInv

\* The replica behind executes the next request: it has the database that the
\* one ahead had then.
LEMMA ReplayKeeps ==
    ASSUME StoreInv, Replay
    PROVE  StoreInv'
  <1>0. /\ history \in Seq(Request) /\ answers \in Seq(Range(answers)) /\ Len(answers) = Len(history)
        /\ replayed \in 0..Len(history)
    BY DEF StoreInv
  <1>1. /\ replayed < Len(history) /\ db2' = process_req(db2, history[replayed + 1]).db /\ replayed' = replayed + 1
        /\ history' = history /\ answers' = answers /\ db1' = db1
    BY DEF Replay
  <1>2. PICK h : Replays(h)
    BY DEF StoreInv
  <1>3. h[replayed + 1] = db2'
    <2>1. replayed + 1 \in 1..Len(history) /\ (replayed + 1) - 1 = replayed
      BY <1>0, <1>1
    <2>2. h[replayed + 1] = process_req(h[(replayed + 1) - 1], history[replayed + 1]).db /\ h[replayed] = db2
      BY <1>2, <2>1 DEF Replays
    <2> QED  BY <1>1, <2>1, <2>2
  <1>4. Replays(h)'
    BY <1>1, <1>2, <1>3 DEF Replays
  <1>5. ResponsesChain' /\ \A k \in Key : Answered(k)'
    <2>1. /\ \A k, n : Modified(k, n)' = Modified(k, n)
      BY <1>1 DEF Modified
    <2>2. ResponsesChain'
      BY <1>1, <2>1, Zenon DEF StoreInv, ResponsesChain
    <2>3. \A k \in Key : Answered(k)'
      BY <1>1, <2>1, Zenon DEF StoreInv, Answered
    <2> QED  BY <2>2, <2>3
  <1>6. (history \in Seq(Request) /\ answers \in Seq(Range(answers)) /\ Len(answers) = Len(history)
         /\ replayed \in 0..Len(history))'
    BY <1>0, <1>1
  <1>7. (\E g : Replays(g))'
    BY <1>4
  <1> QED  BY <1>5, <1>6, <1>7, Zenon DEF StoreInv

\* What a request answers and does to the versions of the keys.
LEMMA RequestAnswers ==
    ASSUME NEW a \in StoreState, Len(a.recent_removes) <= max_recent_removes, NEW req \in Request
    PROVE  LET r == process_req(a, req)
           IN  /\ \A k \in Key \ {req.key} : r.db.cells[k] = a.cells[k]
               /\ req.type = "get" \/ r.resp.errcode # "ok" => r.db = a
               /\ req.type # "get" /\ r.resp.errcode = "ok" =>
                    /\ r.resp.previous_version = a.cells[req.key].version
                    /\ r.resp.version = r.db.cells[req.key].version
  <1> DEFINE r == process_req(a, req)
             k == req.key
  <1>1. k \in Key
    BY RequestEffect
  <1>2. CASE r.db = a /\ (req.type = "get" \/ r.resp.errcode # "ok")
    BY <1>2
  <1>3. ASSUME NEW v \in Value, r = Store(a, k, v), req.type # "get" 
        PROVE  /\ \A l \in Key \ {k} : r.db.cells[l] = a.cells[l]
               /\ r.resp.errcode = "ok" /\ r.resp.previous_version = a.cells[k].version
               /\ r.resp.version = r.db.cells[k].version
    <2> HIDE DEF r, k
    <2>1. /\ r.db.cells[k] = [value |-> v, version |-> a.next_version]
          /\ \A l \in Key \ {k} : r.db.cells[l] = a.cells[l]
      <3>1. PICK b : b = r.db
        OBVIOUS
      <3>2. StoredOne(a, k, v, b)
        BY <1>1, <1>3, <3>1, StoreEffect
      <3> QED  BY <3>1, <3>2 DEF StoredOne
    <2>2. r.resp = mod_ok(a.cells[k].version, a.next_version)
      BY <1>3 DEF Store
    <2>3. r.resp.errcode = "ok" /\ r.resp.previous_version = a.cells[k].version /\ r.resp.version = a.next_version
      BY <2>2 DEF mod_ok
    <2> QED  BY <2>1, <2>3
  <1>4. ASSUME r = [db |-> do_remove(a, k), resp |-> mod_ok(a.cells[k].version, nonexistent_version)],
               req.type # "get"
        PROVE  /\ \A l \in Key \ {k} : r.db.cells[l] = a.cells[l]
               /\ r.resp.errcode = "ok" /\ r.resp.previous_version = a.cells[k].version
               /\ r.resp.version = r.db.cells[k].version
    <2> HIDE DEF r, k
    <2>1. r.db = do_remove(a, k) /\ r.resp = mod_ok(a.cells[k].version, nonexistent_version)
      BY <1>4
    <2>2. r.db.cells[k] = nonexistent_vv /\ \A l \in Key \ {k} : r.db.cells[l] = a.cells[l]
      <3>1. PICK b : b = do_remove(a, k)
        OBVIOUS
      <3>2. b.cells[k] = nonexistent_vv /\ \A l \in Key \ {k} : b.cells[l] = a.cells[l]
        <4>1. RemovedOne(a, k, b)
          BY <1>1, <3>1, RemoveEffect
        <4> QED  BY <4>1 DEF RemovedOne
      <3> QED  BY <2>1, <3>1, <3>2
    <2>3. /\ r.resp.errcode = "ok" /\ r.resp.previous_version = a.cells[k].version
          /\ r.resp.version = nonexistent_version
      BY <2>1 DEF mod_ok
    <2> QED  BY <2>2, <2>3 DEF nonexistent_vv
  <1>5. \/ r.db = a /\ (req.type = "get" \/ r.resp.errcode # "ok")
        \/ req.type # "get" /\ \E v \in Value : r = Store(a, k, v)
        \/ /\ req.type # "get"
           /\ r = [db |-> do_remove(a, k), resp |-> mod_ok(a.cells[k].version, nonexistent_version)]
    BY RequestEffect
  <1> HIDE DEF r, k
  <1>6. /\ \A l \in Key \ {k} : r.db.cells[l] = a.cells[l]
        /\ req.type = "get" \/ r.resp.errcode # "ok" => r.db = a
        /\ req.type # "get" /\ r.resp.errcode = "ok" =>
             /\ r.resp.previous_version = a.cells[k].version
             /\ r.resp.version = r.db.cells[k].version
    BY <1>2, <1>3, <1>4, <1>5
  <1> QED  BY <1>6 DEF r, k

LEMMA AheadReplays ==
    ASSUME StoreInv, NEW req \in Request, Ahead(req)
    PROVE  (\E h : Replays(h))'
  <1> DEFINE n == Len(history)
  <1>0. history \in Seq(Request) /\ n \in Nat /\ replayed \in 0..n
    BY DEF StoreInv
  <1>1. /\ history' = Append(history, req) /\ db1' = process_req(db1, req).db
        /\ db2' = db2 /\ replayed' = replayed
    BY DEF Ahead
  <1>2. Len(history') = n + 1 /\ history'[n + 1] = req /\ \A i \in 1..n : history'[i] = history[i]
    BY <1>0, <1>1
  <1>3. PICK h : Replays(h)
    BY DEF StoreInv
  <1> HIDE DEF n
  <1>4. /\ DOMAIN h = 0..n /\ h[n] = db1 /\ h[replayed] = db2
        /\ \A i \in 0..n : WellFormed(h[i])
        /\ \A i \in 1..n : h[i] = process_req(h[i - 1], history[i]).db
        /\ \A i \in 0..n : \A j \in 0..i : Newer(h[i], h[j])
    BY <1>3 DEF Replays, n
  <1>5. WellFormed(db1)
    BY <1>0, <1>4
  <1>6. WellFormed(db1') /\ \A c : WellFormed(c) /\ Newer(db1, c) => Newer(db1', c)
    BY <1>1, <1>5, RequestKeeps
  <1>7. PICK x : x = db1'
    OBVIOUS
  <1> DEFINE g == [i \in 0..(n + 1) |-> IF i = n + 1 THEN x ELSE h[i]]
  <1>8. g[n + 1] = x /\ (\A i \in 0..n : g[i] = h[i]) /\ DOMAIN g = 0..(n + 1)
    BY <1>0
  <1> HIDE DEF g
  <1>9. g[n + 1] = db1' /\ g[replayed] = db2
    BY <1>0, <1>4, <1>7, <1>8
  <1>10. \A i \in 0..(n + 1) : i = n + 1 \/ i \in 0..n
    BY <1>0
  <1>11. \A i \in 0..(n + 1) : WellFormed(g[i])
    BY <1>4, <1>6, <1>7, <1>8, <1>10
  <1>12. ASSUME NEW i \in 1..(n + 1) PROVE g[i] = process_req(g[i - 1], history'[i]).db
    <2>1. CASE i = n + 1
      <3>1. i - 1 = n /\ n \in 0..n
        BY <1>0, <2>1
      <3> QED  BY <1>1, <1>2, <1>4, <1>8, <1>9, <2>1, <3>1
    <2>2. CASE i # n + 1
      <3>1. i \in 1..n /\ i \in 0..n /\ i - 1 \in 0..n
        BY <1>0, <2>2
      <3> QED  BY <1>2, <1>4, <1>8, <3>1
    <2> QED  BY <2>1, <2>2
  <1>13. ASSUME NEW i \in 0..(n + 1), NEW j \in 0..i PROVE Newer(g[i], g[j])
    <2>1. CASE i # n + 1
      <3>1. i \in 0..n /\ j \in 0..n
        BY <1>0, <2>1
      <3> QED  BY <1>4, <1>8, <3>1
    <2>2. CASE i = n + 1 /\ j = n + 1
      BY <1>6, <1>9, <2>2, NewerSelf
    <2>3. CASE i = n + 1 /\ j # n + 1
      <3>1. j \in 0..n /\ n \in 0..n
        BY <1>0, <2>3
      <3>2. WellFormed(h[j]) /\ Newer(db1, h[j])
        BY <1>4, <3>1
      <3> QED  BY <1>6, <1>8, <1>9, <2>3, <3>1, <3>2
    <2> QED  BY <2>1, <2>2, <2>3
  <1>14. /\ DOMAIN g = 0..Len(history') /\ g[Len(history')] = db1' /\ g[replayed'] = db2'
         /\ \A i \in 0..Len(history') : WellFormed(g[i])
         /\ \A i \in 1..Len(history') : g[i] = process_req(g[i - 1], history'[i]).db
         /\ \A i \in 0..Len(history') : \A j \in 0..i : Newer(g[i], g[j])
    BY <1>1, <1>2, <1>8, <1>9, <1>11, <1>12, <1>13
  <1>15. PICK f : f = g
    OBVIOUS
  <1>16. Replays(f)'
    BY <1>14, <1>15, Zenon DEF Replays
  <1> QED  BY <1>16

\* A bounded set of numbers has a greatest element.
LEMMA GreatestOf ==
    ASSUME NEW n \in Nat, NEW S \in SUBSET (1..n), S # {}
    PROVE  \E x \in S : \A y \in S : x >= y
  <1> DEFINE T == {n - x : x \in S}
  <1>1. T \in SUBSET Nat /\ T # {}
    <2>1. \A x \in S : n - x \in Nat
      OBVIOUS
    <2>2. PICK x : x \in S
      OBVIOUS
    <2>3. n - x \in T
      BY <2>2
    <2> QED  BY <2>1, <2>3
  <1>2. PICK k \in T : \A j \in T : k <= j
    BY <1>1, LeastOf
  <1>3. PICK x \in S : k = n - x
    BY <1>2
  <1>4. \A y \in S : n - y \in T /\ y \in Int
    OBVIOUS
  <1>5. \A y \in S : n - x <= n - y
    BY <1>2, <1>3, <1>4
  <1>6. \A y \in S : x >= y
    BY <1>4, <1>5
  <1> QED  BY <1>6

\* The greatest element of a set of numbers, when there is one.
LEMMA MaxIs ==
    ASSUME NEW S \in SUBSET Nat, NEW m \in S, \A i \in S : i <= m
    PROVE  Max(S) = m
  <1>1. \E x \in S : \A y \in S : x >= y
    OBVIOUS
  <1>2. Max(S) \in S /\ \A y \in S : Max(S) >= y
    BY <1>1 DEF Max
  <1>3. Max(S) \in Nat /\ m \in Nat
    BY <1>2
  <1> QED  BY <1>2, <1>3

LEMMA AheadAnswers ==
    ASSUME StoreInv, NEW req \in Request, Ahead(req)
    PROVE  ResponsesChain' /\ \A k \in Key : Answered(k)'
  <1> DEFINE n == Len(history)
             r == process_req(db1, req)
             counts == req.type # "get" /\ r.resp.errcode = "ok"
  <1>0. /\ history \in Seq(Request) /\ answers \in Seq(Range(answers)) /\ Len(answers) = n /\ n \in Nat
        /\ DOMAIN answers = 1..n
    BY DEF StoreInv
  <1>1. /\ history' = Append(history, req) /\ answers' = Append(answers, r.resp) /\ db1' = r.db
    BY DEF Ahead
  <1>2. db1 \in StoreState /\ Len(db1.recent_removes) <= max_recent_removes
    <2>1. PICK h : Replays(h)
      BY DEF StoreInv
    <2>2. n \in 0..n /\ h[n] = db1 /\ \A i \in 0..n : WellFormed(h[i])
      BY <1>0, <2>1 DEF Replays
    <2> QED  BY <2>2 DEF WellFormed, RemovesApart
  <1>3. /\ \A l \in Key \ {req.key} : r.db.cells[l] = db1.cells[l]
        /\ ~counts => r.db = db1
        /\ counts => r.resp.previous_version = db1.cells[req.key].version
                     /\ r.resp.version = r.db.cells[req.key].version
    BY <1>2, RequestAnswers
  <1>4. req.key \in Key
    BY <1>2, RequestEffect
  <1>5. PICK ok, key, resp, b : ok = counts /\ key = req.key /\ resp = r.resp /\ b = r.db
    OBVIOUS
  <1>6. /\ Len(history') = n + 1 /\ history'[n + 1] = req /\ \A i \in 1..n : history'[i] = history[i]
        /\ DOMAIN answers' = 1..(n + 1) /\ answers'[n + 1] = resp
        /\ \A i \in 1..n : answers'[i] = answers[i]
    <2> HIDE DEF r
    <2> QED  BY <1>0, <1>1, <1>5
  <1>7. PICK m : m = n
    OBVIOUS
  <1> HIDE DEF n, r, counts
  <1>8. ASSUME NEW k, NEW i \in 0..m PROVE Modified(k, i)' = Modified(k, i)
    <2>1. \A j \in 1..i : j \in 1..n
      BY <1>0, <1>7
    <2>2. \A j \in 1..i : history'[j] = history[j] /\ answers'[j] = answers[j]
      BY <1>6, <2>1
    <2> QED  BY <2>2 DEF Modified
  <1>9. ASSUME NEW k
        PROVE  Modified(k, m + 1)' = IF ok /\ k = key THEN Modified(k, m) \cup {m + 1} ELSE Modified(k, m)
    <2>1. \A j \in 1..(m + 1) : j = m + 1 \/ j \in 1..m
      BY <1>0, <1>7
    <2>2. m + 1 \in 1..(m + 1) /\ \A j \in 1..m : j \in 1..(m + 1) /\ j # m + 1
      BY <1>0, <1>7
    <2>3. \A j \in 1..m : history'[j] = history[j] /\ answers'[j] = answers[j]
      BY <1>6, <1>7
    <2>4. history'[m + 1] = req /\ answers'[m + 1] = resp
      BY <1>6, <1>7
    <2>5. Modified(k, m + 1)' = {j \in 1..(m + 1) : history'[j].key = k /\ history'[j].type # "get" /\ answers'[j].errcode = "ok"}
      BY DEF Modified
    <2>6. Modified(k, m) = {j \in 1..m : history[j].key = k /\ history[j].type # "get" /\ answers[j].errcode = "ok"}
      BY DEF Modified
    <2>7. (req.key = k /\ req.type # "get" /\ resp.errcode = "ok") <=> (ok /\ k = key)
      BY <1>5 DEF counts
    <2>8. \A j : j \in Modified(k, m + 1)' <=> (j \in Modified(k, m) \/ (ok /\ k = key /\ j = m + 1))
      BY <2>1, <2>2, <2>3, <2>4, <2>5, <2>6, <2>7
    <2> QED  BY <2>8
  <1>10. \A k : Modified(k, m) \subseteq 1..m
    BY DEF Modified
  <1>11. ASSUME NEW k \in Key PROVE Answered(k)'
    <2>1. Answered(k) /\ Len(history') = m + 1
      BY <1>6, <1>7 DEF StoreInv
    <2>2. CASE ok /\ k = key
      <3>1. Modified(k, m + 1)' = Modified(k, m) \cup {m + 1} /\ \A i \in Modified(k, m) \cup {m + 1} : i <= m + 1
        <4>1. \A i \in Modified(k, m) : i <= m + 1
          BY <1>0, <1>7, <1>10
        <4>2. m + 1 <= m + 1
          BY <1>0, <1>7
        <4> QED  BY <1>9, <2>2, <4>1, <4>2
      <3>2. db1'.cells[k].version = answers'[m + 1].version
        BY <1>1, <1>3, <1>5, <1>6, <1>7, <2>2
      <3>3. m + 1 \in Modified(k, m + 1)'
        BY <3>1
      <3>4. \E j \in Modified(k, Len(history))' : /\ \A i \in Modified(k, Len(history))' : i <= j
                                                  /\ db1'.cells[k].version = answers'[j].version
        <4>1. Modified(k, Len(history))' = Modified(k, m + 1)'
          BY <2>1 DEF Modified
        <4> QED  BY <3>1, <3>2, <3>3, <4>1
      <3> QED  BY <3>4 DEF Answered
    <2>3. CASE ~(ok /\ k = key)
      <3>1. Modified(k, Len(history))' = Modified(k, m) /\ Modified(k, Len(history)) = Modified(k, m)
        <4>1. Modified(k, Len(history))' = Modified(k, m + 1)'
          BY <2>1 DEF Modified
        <4>2. Modified(k, Len(history)) = Modified(k, m)
          BY <1>7 DEF n
        <4> QED  BY <1>9, <2>3, <4>1, <4>2
      <3>2. db1'.cells[k] = db1.cells[k]
        <4>1. CASE ok
          BY <1>1, <1>3, <1>5, <2>3, <4>1
        <4>2. CASE ~ok
          BY <1>1, <1>3, <1>5, <4>2
        <4> QED  BY <4>1, <4>2
      <3>3. \A j \in Modified(k, m) : answers'[j] = answers[j]
        BY <1>6, <1>7, <1>10
      <3> QED  BY <2>1, <3>1, <3>2, <3>3 DEF Answered
    <2> QED  BY <2>2, <2>3
  <1>12. ASSUME NEW i \in 1..(m + 1), i \in Modified(history[i].key, i)'
         PROVE  answers'[i].previous_version =
                  IF Modified(history[i].key, i - 1)' = {} THEN nonexistent_version
                  ELSE answers'[Max(Modified(history[i].key, i - 1)')].version
    <2>1. PICK k : k = history'[i].key
      OBVIOUS
    <2>2. i \in Modified(k, i)' /\ Modified(history[i].key, i - 1)' = Modified(k, i - 1)'
      BY <1>12, <2>1 DEF Modified
    <2>3. i - 1 \in 0..m /\ Modified(k, i - 1)' = Modified(k, i - 1)
      BY <1>0, <1>7, <1>8
    <2>4. CASE i \in 1..m
      <3>1. i \in 0..m /\ history'[i] = history[i] /\ answers'[i] = answers[i] /\ i \in DOMAIN answers
        BY <1>0, <1>6, <1>7, <2>4
      <3>2. i \in Modified(history[i].key, i) /\ k = history[i].key
        BY <1>8, <2>1, <2>2, <3>1
      <3>3. answers[i].previous_version =
              IF Modified(k, i - 1) = {} THEN nonexistent_version ELSE answers[Max(Modified(k, i - 1))].version
        BY <3>1, <3>2, Zenon DEF StoreInv, ResponsesChain
      <3>4. CASE Modified(k, i - 1) = {}
        BY <2>2, <2>3, <3>1, <3>3, <3>4
      <3>5. CASE Modified(k, i - 1) # {}
        <4>1. Max(Modified(k, i - 1)) \in 1..n
          <5>1. Modified(k, i - 1) \subseteq 1..(i - 1)
            BY DEF Modified
          <5>3. \E x \in Modified(k, i - 1) : \A y \in Modified(k, i - 1) : x >= y
            <6>1. PICK p : p = i - 1
              OBVIOUS
            <6>2. p \in Nat /\ Modified(k, p) \in SUBSET (1..p) /\ Modified(k, p) # {}
              BY <1>0, <1>7, <2>3, <3>5, <5>1, <6>1
            <6> QED  BY <6>1, <6>2, GreatestOf
          <5>4. Max(Modified(k, i - 1)) \in Modified(k, i - 1)
            BY <5>3 DEF Max
          <5> QED  BY <1>0, <1>7, <2>4, <5>1, <5>4
        <4> QED  BY <1>6, <2>2, <2>3, <3>1, <3>3, <3>5, <4>1
      <3> QED  BY <3>4, <3>5
    <2>5. CASE i = m + 1
      <3>1. i - 1 = m /\ history'[i] = req /\ answers'[i] = resp /\ k = key
        BY <1>0, <1>5, <1>6, <1>7, <2>1, <2>5
      <3>2. ok
        <4>1. i \notin Modified(k, m)
          BY <1>0, <1>7, <1>10, <2>5
        <4> QED  BY <1>9, <2>2, <2>5, <4>1
      <3>3. answers'[i].previous_version = db1.cells[k].version
        BY <1>3, <1>5, <3>1, <3>2
      <3>4. k \in Key
        BY <1>4, <1>5, <3>1
      <3>5. /\ Modified(k, m) = {} => db1.cells[k].version = nonexistent_version
            /\ Modified(k, m) # {} => \E j \in Modified(k, m) : /\ \A l \in Modified(k, m) : l <= j
                                                                /\ db1.cells[k].version = answers[j].version
        BY <1>7, <3>4 DEF StoreInv, Answered, n
      <3>6. CASE Modified(k, m) = {}
        BY <2>2, <2>3, <3>1, <3>3, <3>5, <3>6
      <3>7. CASE Modified(k, m) # {}
        <4>1. PICK j \in Modified(k, m) : (\A l \in Modified(k, m) : l <= j) /\ db1.cells[k].version = answers[j].version
          BY <3>5, <3>7
        <4>2. j \in 1..n /\ Modified(k, m) \in SUBSET Nat
          BY <1>0, <1>7, <1>10
        <4>3. Max(Modified(k, m)) = j
          BY <4>1, <4>2, MaxIs
        <4> QED  BY <1>6, <2>2, <2>3, <3>1, <3>3, <3>7, <4>1, <4>2, <4>3
      <3> QED  BY <3>6, <3>7
    <2> QED  BY <1>0, <1>7, <2>4, <2>5
  <1>13. ResponsesChain'
    <2>1. DOMAIN answers' = 1..(m + 1)
      BY <1>6, <1>7
    <2> QED  BY <1>12, <2>1 DEF ResponsesChain
  <1> QED  BY <1>11, <1>13

LEMMA StoreStep == StoreInv /\ [ReplayNext]_replayVars => StoreInv'
  <1> SUFFICES ASSUME StoreInv, [ReplayNext]_replayVars PROVE StoreInv'
    OBVIOUS
  <1>1. ASSUME NEW req \in Request, Ahead(req) PROVE StoreInv'
    <2>1. /\ history \in Seq(Request) /\ answers \in Seq(Range(answers)) /\ Len(answers) = Len(history)
          /\ replayed \in 0..Len(history)
      BY DEF StoreInv
    <2>2. PICK resp : history' = Append(history, req) /\ answers' = Append(answers, resp) /\ replayed' = replayed
      BY <1>1 DEF Ahead
    <2>3. answers' \in Seq(Range(answers')) /\ Len(answers') = Len(answers) + 1
      BY <2>1, <2>2, AppendFacts
    <2>4. history' \in Seq(Request) /\ Len(history') = Len(history) + 1
      BY <2>1, <2>2
    <2>5. (history \in Seq(Request) /\ answers \in Seq(Range(answers)) /\ Len(answers) = Len(history)
           /\ replayed \in 0..Len(history))'
      BY <2>1, <2>2, <2>3, <2>4
    <2> QED  BY <1>1, <2>5, AheadReplays, AheadAnswers, Zenon DEF StoreInv
  <1>2. CASE UNCHANGED replayVars
    <2>1. history' = history /\ answers' = answers /\ db1' = db1 /\ db2' = db2 /\ replayed' = replayed
      BY <1>2 DEF replayVars
    <2>2. \A k, n : Modified(k, n)' = Modified(k, n)
      BY <2>1 DEF Modified
    <2>3. \A h : Replays(h) => Replays(h)'
      BY <2>1 DEF Replays
    <2>4. ResponsesChain' /\ \A k \in Key : Answered(k)'
      BY <2>1, <2>2, Zenon DEF StoreInv, ResponsesChain, Answered
    <2>5. (\E h : Replays(h))'
      BY <2>3 DEF StoreInv
    <2> QED  BY <2>1, <2>4, <2>5, Zenon DEF StoreInv
  <1> QED  BY <1>1, <1>2, ReplayKeeps DEF ReplayNext

LEMMA StoreInvSound == StoreInv => StoreSound
  <1> SUFFICES ASSUME StoreInv PROVE StoreSound
    OBVIOUS
  <1>1. WellFormed(db1) /\ WellFormed(db2) /\ Newer(db1, db2)
    <2>1. PICK h : Replays(h)
      BY DEF StoreInv
    <2>2. Len(history) \in 0..Len(history) /\ replayed \in 0..Len(history)
      BY DEF StoreInv
    <2> QED  BY <2>1, <2>2 DEF Replays
  <1>2. /\ db1 \in StoreState /\ db2 \in StoreState /\ db1.next_version \in Nat /\ db2.next_version \in Nat
        /\ db2.next_version <= db1.next_version
        /\ \A k \in Key : db1.cells[k].version \in Nat
    BY <1>1, StateTypes DEF WellFormed, Newer
  <1>3. VersionsDistinct
    <2>1. nonexistent_vv.version = 0
      BY DEF nonexistent_vv, nonexistent_version
    <2>2. \A k \in Key : db1.cells[k].version < db1.next_version
      BY <1>1, <1>2, <2>1 DEF WellFormed, CellsApart
    <2>3. DOMAIN db1.recent_removes = 1..Len(db1.recent_removes)
      BY <1>2 DEF StoreState
    <2> QED  BY <1>1, <2>2, <2>3 DEF VersionsDistinct, WellFormed, CellsApart, RemovesApart
  <1>4. db1.next_version = db2.next_version => Newer(db2, db1)
    BY <1>1, SameVersion
  <1>5. DiffAcceptsLag
    <2> SUFFICES ASSUME NEW skew \in 0..MaxRequests, db1.next_version - db2.next_version <= skew
                 PROVE  diff(db1, db2, skew) = {} /\ diff(db2, db1, skew) = {}
      BY DEF DiffAcceptsLag
    <2>1. skew \in Nat
      BY ReplayAssumption
    <2>2. DiffKeys(db1, db2, skew) = {}
      BY <1>1, <2>1, LagAccepted
    <2>3. ASSUME ~(db2.next_version < db1.next_version) PROVE DiffKeys(db2, db1, skew) = {}
      <3>1. Newer(db2, db1) /\ db2.next_version - db1.next_version <= skew
        BY <1>2, <1>4, <2>1, <2>3
      <3> QED  BY <1>1, <2>1, <3>1, LagAccepted
    <2>4. ~(db1.next_version < db2.next_version)
      BY <1>2
    <2> QED  BY <2>2, <2>3, <2>4, Zenon DEF diff
  <1>6. DiffExact
    <2>1. DiffKeys(db1, db2, 0) = {} <=> db1.cells = db2.cells
      BY <1>1, DifferenceFound
    <2>2. ASSUME ~(db2.next_version < db1.next_version) PROVE DiffKeys(db2, db1, 0) = {} <=> db1.cells = db2.cells
      <3>1. Newer(db2, db1)
        BY <1>2, <1>4, <2>2
      <3>2. DiffKeys(db2, db1, 0) = {} <=> db2.cells = db1.cells
        BY <1>1, <3>1, DifferenceFound
      <3> QED  BY <3>2
    <2> QED  BY <2>1, <2>2, Zenon DEF diff, DiffExact
  <1> QED  BY <1>3, <1>5, <1>6 DEF StoreSound, StoreInv

(***************************************************************************)
(* The comparison by which the tests judge the replicas is sound, for any  *)
(* keys, values, requests and capacity of the list of removals: versions   *)
(* identify modifications, the responses chain up, diff never accuses a    *)
(* replica that lags by no more than the skew, and without skew it reports *)
(* every difference between a replica and one that is behind it.           *)
(***************************************************************************)
THEOREM StoreSoundTheorem == ReplaySpec => []StoreSound
  BY StoreStart, StoreStep, StoreInvSound, PTL DEF ReplaySpec

-----------------------------------------------------------------------------
(* SubmitPut: the first slot of a put, and with it its version, stays.     *)

\* What the first n slots of a log hold, and the first slot that holds s.
Slots(q, n) == {q[i] : i \in 1..n}
IsFirst(q, i, s) == q[i] = s /\ s \notin Slots(q, i - 1)
First(q, s) == CHOOSE i \in 1..Len(q) : IsFirst(q, i, s)

LEMMA FirstUnique ==
    ASSUME NEW q, NEW s, NEW i \in Nat \ {0}, NEW j \in Nat \ {0}, IsFirst(q, i, s), IsFirst(q, j, s)
    PROVE  i = j
  <1>1. ASSUME NEW a \in Nat \ {0}, NEW b \in Nat \ {0}, IsFirst(q, a, s), IsFirst(q, b, s) PROVE ~(a < b)
    <2>1. a < b => a \in 1..(b - 1)
      OBVIOUS
    <2> QED  BY <1>1, <2>1 DEF IsFirst, Slots
  <1> QED  BY <1>1

LEMMA FirstExists ==
    ASSUME NEW q, NEW n \in Nat, NEW s \in Slots(q, n)
    PROVE  \E i \in 1..n : IsFirst(q, i, s)
  <1> DEFINE T == {i \in Nat : i \in 1..n /\ q[i] = s}
  <1>1. T # {} /\ T \subseteq Nat
    BY DEF Slots
  <1>2. IsWellFoundedOn(OpToRel(<, Nat), Nat)
    BY NatLessThanWellFounded
  <1>3. PICK i \in T : \A j \in T : ~(<<j, i>> \in OpToRel(<, Nat))
    BY <1>1, <1>2, WFMin
  <1>4. \A j \in T : ~(j < i)
    BY <1>3 DEF OpToRel
  <1>5. \A j \in 1..(i - 1) : j \in 1..n /\ j < i
    OBVIOUS
  <1>6. s \notin Slots(q, i - 1)
    BY <1>4, <1>5 DEF Slots
  <1> QED  BY <1>6 DEF IsFirst

\* A log that grows keeps the first slot of what it holds, and what is
\* before it.
LEMMA FirstStays ==
    ASSUME NEW S, NEW q \in Seq(S), NEW x \in S, NEW s \in Slots(q, Len(q))
    PROVE  LET p == Append(q, x)
           IN  /\ s \in Slots(p, Len(p))
               /\ First(p, s) = First(q, s)
               /\ Slots(p, First(p, s)) = Slots(q, First(q, s))
  <1> DEFINE p == Append(q, x)
             n == Len(q)
  <1>1. n \in Nat /\ Len(p) = n + 1 /\ \A i \in 1..n : p[i] = q[i]
    OBVIOUS
  <1>2. s \in Slots(q, n) /\ First(q, s) = CHOOSE i \in 1..n : IsFirst(q, i, s)
    BY DEF First
  <1>3. First(p, s) = CHOOSE i \in 1..(n + 1) : IsFirst(p, i, s)
    BY <1>1 DEF First
  <1> HIDE DEF p, n
  <1>4. PICK f \in 1..n : IsFirst(q, f, s)
    BY <1>1, <1>2, FirstExists
  <1>5. \A k \in 0..n : Slots(p, k) = Slots(q, k)
    BY <1>1 DEF Slots
  <1>6. IsFirst(p, f, s)
    <2>1. p[f] = q[f] /\ f - 1 \in 0..n
      BY <1>1
    <2> QED  BY <1>4, <1>5, <2>1 DEF IsFirst
  <1>7. First(q, s) = f
    <2>1. \A i \in 1..n : IsFirst(q, i, s) => i = f
      BY <1>1, <1>4, FirstUnique
    <2> QED  BY <1>2, <1>4, <2>1
  <1>8. First(p, s) = f
    <2>1. \A i \in 1..(n + 1) : IsFirst(p, i, s) => i = f
      BY <1>1, <1>6, FirstUnique
    <2>2. f \in 1..(n + 1)
      BY <1>1
    <2> QED  BY <1>3, <1>6, <2>1, <2>2
  <1>9. s \in Slots(p, n + 1)
    <2>1. f \in 1..(n + 1) /\ p[f] = s
      BY <1>1, <1>6 DEF IsFirst
    <2> QED  BY <2>1 DEF Slots
  <1>10. Slots(p, f) = Slots(q, f)
    BY <1>1, <1>5
  <1> QED  BY <1>1, <1>7, <1>8, <1>9, <1>10 DEF p, n

LEMMA VersionIs ==
    /\ Executed(Len(order)) = Slots(order, Len(order))
    /\ Executed(Len(order))' = Slots(order', Len(order'))
    /\ \A s : /\ VersionOf(s) = Cardinality(Slots(order, First(order, s)))
             /\ VersionOf(s)' = Cardinality(Slots(order', First(order', s)))
  BY DEF VersionOf, Executed, Slots, First, IsFirst

LEMMA VersionStays ==
    ASSUME order \in Seq(Serial), order' = order \/ \E x \in Serial : order' = Append(order, x),
           NEW s, s \in Executed(Len(order))
    PROVE  s \in Executed(Len(order))' /\ VersionOf(s)' = VersionOf(s)
  <1>1. CASE order' = order
    BY <1>1, VersionIs
  <1>2. ASSUME NEW x \in Serial, order' = Append(order, x)
        PROVE  s \in Executed(Len(order))' /\ VersionOf(s)' = VersionOf(s)
    BY <1>2, VersionIs, FirstStays
  <1> QED  BY <1>1, <1>2

LEMMA SubmitStart == PutInit => SubmitInv
  <1> SUFFICES ASSUME PutInit PROVE SubmitInv
    OBVIOUS
  <1>1. /\ GroupInit /\ leader = 0 /\ submit = [s \in Serial |-> Idle] /\ requests = {}
        /\ inq = [s \in Serial |-> <<>>]
    BY DEF PutInit
  <1>2. 0 \in Replica
    BY ReplicasAssumption
  <1>3. GroupTypes
    <2>1. /\ leader_index = [r \in Replica |-> 0] /\ probes = {} /\ logged = {} /\ order = <<>>
          /\ last_applied = [r \in Replica |-> 0]
      BY <1>1 DEF GroupInit
    <2> QED  BY <1>2, <2>1 DEF GroupTypes
  <1>4. DOMAIN Idle = SubmitFields /\ Idle.replica = 0 /\ Idle.pc = "idle"
    BY DEF Idle, SubmitFields
  <1>5. \A s \in Serial : Queue(s, <<>>)
    BY DEF Queue, Redirects, Answers
  <1>6. \A s \in Serial : Acked(s, Idle)
    BY <1>4 DEF Acked
  <1> QED  BY <1>1, <1>2, <1>3, <1>4, <1>5, <1>6 DEF SubmitInv

\* The log grows: what was answered stays right.
LEMMA GroupMoves ==
    ASSUME SubmitInv, GroupTypes', order' = order \/ \E x \in Serial : order' = Append(order, x),
           leader' = leader, submit' = submit, inq' = inq,
           requests' \subseteq [serial : Serial, replica : Replica]
    PROVE  SubmitInv'
  <1>1. /\ leader \in Replica /\ DOMAIN submit = Serial /\ DOMAIN inq = Serial
        /\ \A s \in Serial : /\ DOMAIN submit[s] = SubmitFields /\ submit[s].replica \in Replica
                             /\ Queue(s, inq[s]) /\ Acked(s, submit[s])
    BY DEF SubmitInv
  <1>2. order \in Seq(Serial)
    BY DEF SubmitInv, GroupTypes
  <1>3. \A s \in Serial : s \in Executed(Len(order)) => s \in Executed(Len(order))' /\ VersionOf(s)' = VersionOf(s)
    BY <1>2, VersionStays
  <1>4. \A s \in Serial : Queue(s, inq[s])' /\ Acked(s, submit[s])'
    <2> TAKE s \in Serial
    <2>1. Queue(s, inq[s]) /\ Acked(s, submit[s])
      BY <1>1
    <2>2. Queue(s, inq[s])'
      BY <1>3, <2>1 DEF Queue, Redirects, Answers
    <2>3. Acked(s, submit[s])'
      BY <1>3, <2>1 DEF Acked
    <2> QED  BY <2>2, <2>3
  <1>5. \A s \in Serial : DOMAIN submit'[s] = SubmitFields /\ submit'[s].replica \in Replica
    BY <1>1
  <1> QED  BY <1>1, <1>4, <1>5, Zenon DEF SubmitInv

\* One put goes on, or a response to it arrives.
LEMMA PutMoves ==
    ASSUME SubmitInv, GroupTypes', order' = order, NEW s \in Serial, NEW f, NEW q,
           leader' \in Replica, requests' \subseteq [serial : Serial, replica : Replica],
           (submit' = submit /\ f = submit[s]) \/ submit' = [submit EXCEPT ![s] = f],
           (inq' = inq /\ q = inq[s]) \/ inq' = [inq EXCEPT ![s] = q],
           DOMAIN f = SubmitFields, f.replica \in Replica, Queue(s, q), Acked(s, f)
    PROVE  SubmitInv'
  <1>1. /\ DOMAIN submit = Serial /\ DOMAIN inq = Serial
        /\ \A t \in Serial : /\ DOMAIN submit[t] = SubmitFields /\ submit[t].replica \in Replica
                             /\ Queue(t, inq[t]) /\ Acked(t, submit[t])
    BY DEF SubmitInv
  <1>2. /\ DOMAIN submit' = Serial /\ DOMAIN inq' = Serial /\ submit'[s] = f /\ inq'[s] = q
        /\ \A t \in Serial : t # s => submit'[t] = submit[t] /\ inq'[t] = inq[t]
    BY <1>1
  <1>3. \A t \in Serial : /\ DOMAIN submit'[t] = SubmitFields /\ submit'[t].replica \in Replica
                          /\ Queue(t, inq'[t]) /\ Acked(t, submit'[t])
    BY <1>1, <1>2, Zenon
  <1>4. Executed(Len(order))' = Executed(Len(order)) /\ \A t : VersionOf(t)' = VersionOf(t)
    BY VersionIs
  <1>5. \A t \in Serial : Queue(t, inq[t])' /\ Acked(t, submit[t])'
    <2> TAKE t \in Serial
    <2>1. Queue(t, inq'[t]) /\ Acked(t, submit'[t])
      BY <1>3
    <2>2. Queue(t, inq[t])'
      BY <1>4, <2>1 DEF Queue, Redirects, Answers
    <2>3. Acked(t, submit[t])'
      BY <1>4, <2>1 DEF Acked
    <2> QED  BY <2>2, <2>3
  <1> QED  BY <1>2, <1>3, <1>5, Zenon DEF SubmitInv

\* The replicas elect and learn: the log stays, and whom they name is a replica.
LEMMA GroupKeeps ==
    ASSUME SubmitInv, Group
    PROVE  SubmitInv'
  <1>0. /\ order \in Seq(Serial) /\ logged \subseteq Serial /\ last_applied \in [Replica -> Nat]
        /\ \A r \in Replica : last_applied[r] <= Len(order)
        /\ leader_index \in [Replica -> Replica] /\ \A m \in probes : m.leader \in Replica
        /\ requests \subseteq [serial : Serial, replica : Replica]
    BY DEF SubmitInv, GroupTypes
  <1>1. leader' = leader /\ submit' = submit /\ inq' = inq /\ requests' = requests
    BY DEF Group, clientVars
  <1>2. ASSUME NEW r \in Replica, NEW h \in Replica, leader_index' = [leader_index EXCEPT ![r] = h] \/ leader_index' = leader_index,
               probes' = probes \/ \E x : probes' = probes \cup {x} /\ x.leader = r,
               logged' = logged, order' = order,
               last_applied' = last_applied \/ \E n \in last_applied[r]..Len(order) : last_applied' = [last_applied EXCEPT ![r] = n]
        PROVE  SubmitInv'
    <2>1. leader_index' \in [Replica -> Replica]
      BY <1>0, <1>2
    <2>2. \A m \in probes' : m.leader \in Replica
      BY <1>0, <1>2
    <2>3. last_applied' \in [Replica -> Nat] /\ \A p \in Replica : last_applied'[p] <= Len(order)
      <3>1. CASE last_applied' = last_applied
        BY <1>0, <3>1
      <3>2. ASSUME NEW n \in last_applied[r]..Len(order), last_applied' = [last_applied EXCEPT ![r] = n]
            PROVE  last_applied' \in [Replica -> Nat] /\ \A p \in Replica : last_applied'[p] <= Len(order)
        <4>1. n \in Nat /\ n <= Len(order)
          BY <1>0
        <4> QED  BY <1>0, <3>2, <4>1
      <3> QED  BY <1>2, <3>1, <3>2
    <2>4. GroupTypes'
      BY <1>0, <1>2, <2>1, <2>2, <2>3 DEF GroupTypes
    <2> QED  BY <1>0, <1>1, <1>2, <2>4, GroupMoves
  <1>3. ASSUME NEW r \in Replica, start_probe_round(r) PROVE SubmitInv'
    <2>1. PICK x : x = [round |-> current_round'[r], leader |-> r]
      OBVIOUS
    <2>2. x.leader = r
      BY <2>1
    <2>3. /\ leader_index' = [leader_index EXCEPT ![r] = r] /\ probes' = probes \cup {x}
          /\ logged' = logged /\ order' = order /\ last_applied' = last_applied
      BY <1>3, <2>1, Zenon DEF start_probe_round, logs
    <2> QED  BY <1>2, <2>2, <2>3
  <1>4. ASSUME NEW r \in Replica, handle_prepare(r) PROVE SubmitInv'
    BY <1>2, <1>4 DEF handle_prepare, become_leader, votes, logs
  <1>5. ASSUME NEW r \in Replica, step_down(r) PROVE SubmitInv'
    <2>1. leader_index[r] \in Replica
      BY <1>0
    <2>2. /\ leader_index' = [leader_index EXCEPT ![r] = leader_index[r]] /\ probes' = probes
          /\ logged' = logged /\ order' = order /\ last_applied' = last_applied
      BY <1>5 DEF step_down, become_follower, votes, logs
    <2> QED  BY <1>2, <2>1, <2>2
  <1>6. ASSUME NEW r \in Replica, NEW m \in probes, handle_probe(r, m) PROVE SubmitInv'
    <2>1. leader_index[r] \in Replica /\ m.leader \in Replica
      BY <1>0
    <2>2. PICK h \in {m.leader, leader_index[r]} : leader_index' = [leader_index EXCEPT ![r] = h]
      BY <1>6 DEF handle_probe, become_follower
    <2>3. probes' = probes /\ logged' = logged /\ order' = order /\ last_applied' = last_applied
      BY <1>6 DEF handle_probe, logs
    <2> QED  BY <1>2, <2>1, <2>2, <2>3
  <1>7. ASSUME NEW r \in Replica, NEW l \in Replica, handle_propose(r, l) PROVE SubmitInv'
    <2>1. leader_index' = [leader_index EXCEPT ![r] = l] /\ probes' = probes /\ logged' = logged /\ order' = order
      BY <1>7 DEF handle_propose, become_follower, votes
    <2>2. \E n \in last_applied[r]..Len(order) : last_applied' = [last_applied EXCEPT ![r] = n]
      BY <1>7 DEF handle_propose
    <2> QED  BY <1>2, <2>1, <2>2
  <1>8. ASSUME NEW s \in Serial, Decide(s) PROVE SubmitInv'
    <2>1. /\ order' = Append(order, s) /\ leader_index' = leader_index /\ probes' = probes
          /\ logged' = logged /\ last_applied' = last_applied
      BY <1>8 DEF Decide, votes
    <2>2. order' \in Seq(Serial) /\ Len(order') = Len(order) + 1 /\ Len(order) \in Nat
      BY <1>0, <2>1
    <2>3. \A r \in Replica : last_applied'[r] <= Len(order')
      BY <1>0, <2>1, <2>2
    <2>4. GroupTypes'
      BY <1>0, <2>1, <2>2, <2>3 DEF GroupTypes
    <2> QED  BY <1>0, <1>1, <2>1, <2>4, GroupMoves
  <1> QED  BY <1>3, <1>4, <1>5, <1>6, <1>7, <1>8 DEF Group

LEMMA FailReplicaKeeps ==
    ASSUME SubmitInv, NEW r \in Replica, admin_fail(r)
    PROVE  SubmitInv'
  <1>1. /\ order' = order /\ leader_index' = leader_index /\ probes' = probes /\ logged' = logged
        /\ last_applied' = last_applied /\ leader' = leader /\ submit' = submit /\ inq' = inq
    BY DEF admin_fail, votes, logs, clientVars
  <1>2. requests' \subseteq [serial : Serial, replica : Replica]
    <2>1. requests' \subseteq requests
      BY DEF admin_fail
    <2> QED  BY <2>1 DEF SubmitInv
  <1>3. GroupTypes'
    BY <1>1 DEF SubmitInv, GroupTypes
  <1> QED  BY <1>1, <1>2, <1>3, GroupMoves

\* The next attempt of a put that is not done goes to a replica.
LEMMA AttemptKeeps ==
    ASSUME SubmitInv, NEW s \in Serial, NEW r \in Replica, NEW t, Attempt(s, r, t), UNCHANGED <<group, leader>>,
           NEW q, (inq' = inq /\ q = inq[s]) \/ inq' = [inq EXCEPT ![s] = q], Queue(s, q)
    PROVE  SubmitInv'
  <1>1. /\ GroupTypes /\ leader \in Replica /\ requests \subseteq [serial : Serial, replica : Replica]
        /\ DOMAIN submit = Serial /\ DOMAIN submit[s] = SubmitFields
    BY DEF SubmitInv
  <1>2. GroupTypes' /\ order' = order /\ leader' = leader
    BY <1>1 DEF GroupTypes, group
  <1>3. requests' \subseteq [serial : Serial, replica : Replica]
    <2>1. [serial |-> s, replica |-> r] \in [serial : Serial, replica : Replica]
      OBVIOUS
    <2>2. requests' = requests \/ requests' \subseteq requests \cup {[serial |-> s, replica |-> r]}
      BY DEF Attempt, send_request
    <2> QED  BY <1>1, <2>1, <2>2
  <1>4. PICK l \in {"waiting", "failed"} :
          submit' = [submit EXCEPT ![s] = [submit[s] EXCEPT !.pc = l, !.tries = t, !.replica = r]]
    BY Zenon DEF Attempt
  <1> DEFINE f == [submit[s] EXCEPT !.pc = l, !.tries = t, !.replica = r]
  <1>5. DOMAIN f = SubmitFields /\ f.pc = l /\ f.replica = r
    BY <1>1 DEF SubmitFields
  <1>6. submit' = [submit EXCEPT ![s] = f]
    BY <1>4
  <1> HIDE DEF f
  <1>7. Acked(s, f)
    BY <1>4, <1>5 DEF Acked
  <1> QED  BY <1>1, <1>2, <1>3, <1>5, <1>6, <1>7, PutMoves

LEMMA NextReplicaIn == \A r \in Replica : NextReplica(r) \in Replica
  BY ReplicasAssumption DEF NextReplica

LEMMA SubmitPutKeeps ==
    ASSUME SubmitInv, NEW s \in Serial, submit_put(s) \/ TimeoutPut(s)
    PROVE  SubmitInv'
  <1>1. UNCHANGED <<group, leader>> /\ inq' = inq
    BY DEF submit_put, TimeoutPut
  <1>2. Queue(s, inq[s]) /\ submit[s].replica \in Replica /\ leader \in Replica
    BY DEF SubmitInv
  <1>3. PICK r \in Replica : \E t : Attempt(s, r, t)
    BY <1>2, NextReplicaIn DEF submit_put, TimeoutPut
  <1> QED  BY <1>1, <1>2, <1>3, AttemptKeeps

LEMMA ReceiveResponseKeeps ==
    ASSUME SubmitInv, NEW s \in Serial, receive_response(s)
    PROVE  SubmitInv'
  <1> DEFINE q == inq[s]
             m == Head(q)
  <1>1. UNCHANGED group /\ inq' = [inq EXCEPT ![s] = Tail(q)] /\ q # <<>>
    BY DEF receive_response
  <1>2. /\ GroupTypes /\ requests \subseteq [serial : Serial, replica : Replica] /\ leader \in Replica
        /\ DOMAIN submit[s] = SubmitFields /\ submit[s].replica \in Replica
        /\ q \in Seq(Range(q)) /\ Redirects(q) /\ Answers(s, q)
    BY DEF SubmitInv, Queue
  <1>3. GroupTypes' /\ order' = order
    BY <1>1, <1>2 DEF GroupTypes, group
  <1>4. 1 \in 1..Len(q) /\ m = q[1]
    BY <1>1, <1>2
  <1>5. Queue(s, Tail(q))
    <2> DEFINE p == Tail(q)
               n == Len(q)
    <2>1. p \in Seq(Range(q)) /\ Len(p) = n - 1 /\ n \in Nat \ {0} /\ \A i \in 1..(n - 1) : p[i] = q[i + 1]
      BY <1>1, <1>2, TailFacts
    <2> HIDE DEF p, n
    <2>2. Len(p) \in Nat /\ DOMAIN p = 1..Len(p) /\ p = [i \in DOMAIN p |-> p[i]]
      BY <2>1
    <2>3. p \in Seq(Range(p))
      BY <2>2, OfOwnRange
    <2>4. \A i \in 1..Len(p) : i + 1 \in 1..Len(q) /\ p[i] = q[i + 1]
      BY <2>1 DEF n
    <2>5. Redirects(p) /\ Answers(s, p)
      BY <1>2, <2>4 DEF Redirects, Answers
    <2> QED  BY <2>3, <2>5 DEF Queue, p
  <1>6. CASE m.type = "redirect" /\ Attempt(s, NextReplica(m.replica), submit[s].tries + 1) /\ UNCHANGED leader
    <2>1. NextReplica(m.replica) \in Replica
      BY <1>2, <1>4, <1>6, NextReplicaIn DEF Redirects
    <2> QED  BY <1>1, <1>5, <1>6, <2>1, AttemptKeeps
  <1>7. CASE /\ m.type = "ok" /\ leader' = submit[s].replica /\ requests' = requests
             /\ submit' = [submit EXCEPT ![s] = [submit[s] EXCEPT !.pc = "done", !.version = m.version]]
    <2> DEFINE f == [submit[s] EXCEPT !.pc = "done", !.version = m.version]
    <2>1. DOMAIN f = SubmitFields /\ f.replica = submit[s].replica /\ f.version = m.version
      BY <1>2 DEF SubmitFields
    <2>2. submit' = [submit EXCEPT ![s] = f]
      BY <1>7
    <2> HIDE DEF f
    <2>3. s \in Executed(Len(order)) /\ m.version = VersionOf(s)
      BY <1>2, <1>4, <1>7 DEF Answers
    <2>4. Acked(s, f)
      BY <2>1, <2>3 DEF Acked
    <2> QED  BY <1>1, <1>2, <1>3, <1>5, <1>7, <2>1, <2>2, <2>4, PutMoves
  <1> QED  BY <1>6, <1>7, Zenon DEF receive_response

\* A replica replies: what it says of the put is right.
LEMMA ReplyKeeps ==
    ASSUME SubmitInv, GroupTypes', order' = order, leader' = leader, submit' = submit,
           requests' \subseteq [serial : Serial, replica : Replica],
           NEW s \in Serial, NEW r \in Replica, NEW m, Reply(r, s, m),
           m.type = "redirect" => m.replica \in Replica,
           m.type = "ok" => s \in Executed(Len(order)) /\ m.version = VersionOf(s)
    PROVE  SubmitInv'
  <1> DEFINE q == inq[s]
             p == Append(q, m)
             f == submit[s]
  <1>1. /\ leader \in Replica /\ DOMAIN f = SubmitFields /\ f.replica \in Replica
        /\ Queue(s, q) /\ Acked(s, f)
    BY DEF SubmitInv
  <1>2. inq' = inq \/ inq' = [inq EXCEPT ![s] = p]
    BY DEF Reply
  <1>3. Queue(s, p)
    <2> DEFINE n == Len(q)
    <2>1. q \in Seq(Range(q)) /\ Redirects(q) /\ Answers(s, q)
      BY <1>1 DEF Queue
    <2>2. p \in Seq(Range(p)) /\ Len(p) = n + 1 /\ n \in Nat
      BY <2>1, AppendFacts
    <2>3. p[n + 1] = m /\ \A i \in 1..n : p[i] = q[i]
      BY <2>1
    <2> HIDE DEF p
    <2>4. Redirects(p)
      BY <2>1, <2>2, <2>3 DEF Redirects
    <2>5. Answers(s, p)
      BY <2>1, <2>2, <2>3 DEF Answers
    <2> QED  BY <2>2, <2>4, <2>5 DEF Queue
  <1> HIDE DEF p
  <1> QED  BY <1>1, <1>2, <1>3, PutMoves

LEMMA HandleClientRequestKeeps ==
    ASSUME SubmitInv, NEW c \in requests, handle_client_request(c)
    PROVE  SubmitInv'
  <1> DEFINE r == c.replica
             s == c.serial
  <1>1. GroupTypes /\ requests \subseteq [serial : Serial, replica : Replica]
    BY DEF SubmitInv
  <1>2. r \in Replica /\ s \in Serial
    BY <1>1
  <1>3. /\ order' = order /\ leader_index' = leader_index /\ probes' = probes /\ last_applied' = last_applied
        /\ leader' = leader /\ submit' = submit /\ requests' = requests \ {c}
    BY DEF handle_client_request, votes
  <1>4. leader_index[r] \in Replica /\ last_applied[r] \in Nat /\ last_applied[r] <= Len(order) /\ order \in Seq(Serial)
    BY <1>1, <1>2 DEF GroupTypes
  <1>5. requests' \subseteq [serial : Serial, replica : Replica]
    BY <1>1, <1>3
  <1>6. ASSUME logged' = logged \/ logged' = logged \cup {s} PROVE GroupTypes'
    BY <1>1, <1>2, <1>3, <1>6 DEF GroupTypes
  <1>7. CASE logged' = logged /\ \E l \in {r, leader_index[r]} : Reply(r, s, [type |-> "redirect", replica |-> l])
    <2>1. PICK l \in {r, leader_index[r]} : Reply(r, s, [type |-> "redirect", replica |-> l])
      BY <1>7
    <2> DEFINE m == [type |-> "redirect", replica |-> l]
    <2>2. m.type = "redirect" /\ m.replica \in Replica /\ Reply(r, s, m)
      BY <1>2, <1>4, <2>1
    <2> HIDE DEF m
    <2> QED  BY <1>2, <1>3, <1>5, <1>6, <1>7, <2>2, ReplyKeeps
  <1>8. CASE logged' = logged /\ s \in Executed(last_applied[r]) /\ Reply(r, s, Respond(s))
    <2> DEFINE m == Respond(s)
    <2>1. m.type = "ok" /\ m.version = VersionOf(s) /\ Reply(r, s, m)
      BY <1>8 DEF Respond
    <2>2. s \in Executed(Len(order))
      BY <1>4, <1>8 DEF Executed
    <2> HIDE DEF m
    <2> QED  BY <1>2, <1>3, <1>5, <1>6, <1>8, <2>1, <2>2, ReplyKeeps
  <1>9. CASE logged' = logged \cup {s} /\ inq' = inq
    BY <1>2, <1>3, <1>5, <1>6, <1>9, GroupMoves
  <1> QED  BY <1>7, <1>8, <1>9, Zenon DEF handle_client_request

LEMMA ApplyKeeps ==
    ASSUME SubmitInv, NEW r \in Replica, apply_committed_entries(r)
    PROVE  SubmitInv'
  <1> DEFINE n == last_applied[r] + 1
             s == order[n]
  <1>1. GroupTypes /\ requests \subseteq [serial : Serial, replica : Replica]
    BY DEF SubmitInv
  <1>2. /\ order' = order /\ leader_index' = leader_index /\ probes' = probes /\ logged' = logged
        /\ leader' = leader /\ submit' = submit /\ requests' = requests
        /\ last_applied[r] < Len(order) /\ last_applied' = [last_applied EXCEPT ![r] = n]
    BY DEF apply_committed_entries, votes
  <1>3. /\ order \in Seq(Serial) /\ last_applied \in [Replica -> Nat]
        /\ \A p \in Replica : last_applied[p] <= Len(order)
    BY <1>1 DEF GroupTypes
  <1>4. n \in Nat /\ n \in 1..Len(order)
    BY <1>2, <1>3
  <1>5. s \in Serial /\ s \in Executed(Len(order))
    BY <1>3, <1>4 DEF Executed
  <1> HIDE DEF n
  <1>6. GroupTypes'
    <2>1. last_applied' \in [Replica -> Nat] /\ \A p \in Replica : last_applied'[p] <= Len(order)
      BY <1>2, <1>3, <1>4
    <2> QED  BY <1>1, <1>2, <2>1 DEF GroupTypes
  <1>7. CASE Reply(r, s, Respond(s))
    <2> DEFINE m == Respond(s)
    <2>1. m.type = "ok" /\ m.version = VersionOf(s) /\ Reply(r, s, m)
      BY <1>7 DEF Respond
    <2> HIDE DEF m, s
    <2> QED  BY <1>1, <1>2, <1>5, <1>6, <2>1, ReplyKeeps
  <1>8. CASE inq' = inq
    BY <1>1, <1>2, <1>6, <1>8, GroupMoves
  <1> QED  BY <1>7, <1>8, Zenon DEF apply_committed_entries, n

LEMMA SubmitStep ==
    ASSUME SubmitInv, [PutNext]_putVars
    PROVE  SubmitInv'
  <1>1. CASE UNCHANGED putVars
    <2>1. /\ order' = order /\ logged' = logged /\ last_applied' = last_applied /\ leader_index' = leader_index
          /\ probes' = probes /\ leader' = leader /\ submit' = submit /\ inq' = inq /\ requests' = requests
      BY <1>1 DEF putVars, group
    <2>2. GroupTypes' /\ requests' \subseteq [serial : Serial, replica : Replica]
      BY <2>1 DEF SubmitInv, GroupTypes
    <2> QED  BY <2>1, <2>2, GroupMoves
  <1> QED  BY <1>1, GroupKeeps, SubmitPutKeeps, ReceiveResponseKeeps, HandleClientRequestKeeps, ApplyKeeps,
              FailReplicaKeeps DEF PutNext

(***************************************************************************)
(* The version that submit_put returns is the one at which the replicas    *)
(* have executed the put, for good, for any number of replicas, puts and   *)
(* attempts: however often a put was sent, logged by another leader or     *)
(* answered, every answer to it names its first execution.                 *)
(***************************************************************************)
THEOREM AckedVersionTheorem == PutSpec => []AckedVersion
  <1>1. SubmitInv => AckedVersion
    BY Zenon DEF SubmitInv, AckedVersion, Acked
  <1> QED  BY <1>1, SubmitStart, SubmitStep, PTL DEF PutSpec

-----------------------------------------------------------------------------
(* The failure schedules.                                                  *)

(***************************************************************************)
(* Faults.  What a schedule has cut, by where it waits: nothing, the one   *)
(* replica that is down, or the partition of the core from the rest and    *)
(* the one replica that is down besides.                                   *)
(***************************************************************************)
NetWhole(partition) ==
    /\ cut = partition /\ requestCut = {} /\ responseCut = {}
    /\ replica_available = ReplicaIds

NetFailed(partition, r) ==
    /\ r \in ReplicaIds
    /\ cut = partition \union Links({r}, ReplicaIds)
    /\ requestCut = {r} /\ responseCut = {r}
    /\ replica_available = ReplicaIds \ {r}

NetCutOff(r, clients) ==
    /\ r \in ReplicaIds
    /\ cut = Links({r}, ReplicaIds \ {r})
    /\ requestCut = clients /\ responseCut = clients
    /\ replica_available = ReplicaIds

CoreChosen ==
    /\ connected_group \subseteq ReplicaIds
    /\ Cardinality(connected_group) = connected_count
    /\ nreplicas > 1

CorePartition == Links(connected_group, isolated_group)

\* One direction of every link between two replicas.
Oriented ==
    /\ first_round \subseteq ReplicaIds \X ReplicaIds
    /\ \A p \in first_round : p[1] # p[2] /\ Flip(p) \notin first_round
AllLinks == first_round \union second_round = {p \in ReplicaIds \X ReplicaIds : p[1] # p[2]}
Rounds == schedule = "darias" /\ Oriented /\ AllLinks /\ NetWhole(cut)

Downs ==
    \/ schedule = "recover" /\ NetFailed({}, initial_leader)
    \/ schedule = "split" /\ NetCutOff(initial_leader, {})
    \/ schedule = "eric_recover" /\ NetCutOff(victim, {victim})
    \/ schedule = "eric_split" /\ NetCutOff(victim, {})

Ends ==
    \/ schedule = "failover" /\ NetFailed({}, initial_leader)
    \/ schedule = "eric" /\ NetCutOff(victim, {victim})
    \/ NetWhole({})

FaultsInv ==
    /\ nreplicas \in Sizes
    /\ pc \in {"start", "down", "flap", "fringe", "rest", "churn", "churn_rest", "first", "second", "hold",
               "done", "checked"}
    /\ pc = "start" => NetWhole({})
    /\ pc = "down" => Downs
    /\ pc = "flap" => schedule \in Flapping /\ CoreChosen /\ victim \in connected_group
                      /\ NetFailed(CorePartition, victim)
    /\ pc = "fringe" => schedule \in Flapping /\ CoreChosen /\ victim \notin connected_group
                        /\ NetFailed(CorePartition, victim)
    /\ pc = "rest" => schedule \in Flapping /\ CoreChosen /\ NetWhole(CorePartition)
    /\ pc = "churn" => schedule \in Flapping /\ NetFailed({}, victim)
    /\ pc = "churn_rest" => schedule \in Flapping /\ NetWhole({})
    /\ pc = "first" => Rounds /\ cut \subseteq first_round
    /\ pc = "second" => Rounds /\ first_round \subseteq cut /\ cut \subseteq first_round \union second_round
    /\ pc = "hold" => Rounds /\ cut = first_round \union second_round
    /\ pc \in {"done", "checked"} => Ends

LEMMA SubsetOfSize ==
    ASSUME NEW S, IsFiniteSet(S), NEW k \in Nat, k <= Cardinality(S)
    PROVE  \E T \in SUBSET S : Cardinality(T) = k
  <1>1. /\ Cardinality(S) \in Nat
        /\ \E f : f \in Bijection(1..Cardinality(S), S)
    BY FS_CardinalityType DEF ExistsBijection
  <1>2. PICK f : f \in Bijection(1..Cardinality(S), S)
    BY <1>1
  <1> DEFINE T == {f[i] : i \in 1..k}
             g == [i \in 1..k |-> f[i]]
  <1>3. f \in [1..Cardinality(S) -> S] /\ \A i, j \in 1..Cardinality(S) : f[i] = f[j] => i = j
    BY <1>2 DEF Bijection, Injection, IsInjective
  <1>4. \A i \in 1..k : i \in 1..Cardinality(S)
    BY <1>1
  <1>5. g \in Bijection(1..k, T) /\ T \in SUBSET S
    BY <1>3, <1>4 DEF Bijection, Injection, Surjection, IsInjective
  <1>6. Cardinality(T) = k
    BY <1>5, FS_CountingElements DEF ExistsBijection
  <1> QED  BY <1>5, <1>6

LEMMA ReplicaCount ==
    ASSUME nreplicas \in Sizes
    PROVE  /\ nreplicas \in Nat /\ nreplicas > 0
           /\ IsFiniteSet(ReplicaIds) /\ Cardinality(ReplicaIds) = nreplicas
           /\ initial_leader \in ReplicaIds
  <1>1. nreplicas \in Nat /\ initial_leader \in 0..(nreplicas - 1)
    BY SizesAssumption
  <1>2. nreplicas > 0
    BY <1>1
  <1>3. IsFiniteSet(0..(nreplicas - 1)) /\ Cardinality(0..(nreplicas - 1)) = nreplicas
    BY <1>1, <1>2, FS_Interval
  <1> QED  BY <1>1, <1>2, <1>3 DEF ReplicaIds

LEMMA CoreCount ==
    ASSUME nreplicas \in Nat, nreplicas >= 3
    PROVE  connected_count \in Nat /\ connected_count >= nreplicas \div 2 + 2
  <1> DEFINE h == nreplicas \div 2
             m == Min({nreplicas, h + 2})
  <1>1. h \in Nat /\ h + 2 <= nreplicas
    BY SMT
  <1> HIDE DEF h
  <1>2. m = h + 2
    BY <1>1 DEF Min
  <1> HIDE DEF m
  <1>3. Max({2, m}) = m
    BY <1>1, <1>2 DEF Max
  <1> QED  BY <1>1, <1>2, <1>3 DEF connected_count, h, m

\* A core that talks, of a majority or more, keeps a majority.
LEMMA CoreSuffices ==
    ASSUME nreplicas \in Sizes, nreplicas >= 3,
           NEW core \in SUBSET ReplicaIds, Cardinality(core) >= nreplicas \div 2 + 1,
           Talking(core), core \intersect (requestCut \union responseCut) = {}
    PROVE  CoreKeepsQuorum
  <1> DEFINE k == nreplicas \div 2 + 1
  <1>1. k \in Nat /\ k > 0
    BY ReplicaCount
  <1>2. IsFiniteSet(core)
    BY ReplicaCount, FS_Subset
  <1>3. Cardinality(core) >= k
    OBVIOUS
  <1> HIDE DEF k
  <1>4. Cardinality(core) \in Nat
    BY <1>2, FS_CardinalityType
  <1>5. PICK q \in SUBSET core : Cardinality(q) = k
    BY <1>1, <1>2, <1>3, <1>4, SubsetOfSize
  <1>6. q # {}
    <2>1. Cardinality({}) = 0
      BY FS_EmptySet
    <2>2. k # 0
      BY <1>1
    <2> QED  BY <1>5, <2>1, <2>2, Zenon
  <1>7. q \in kSubset(k, ReplicaIds)
    BY <1>5 DEF kSubset
  <1>8. Talking(q) /\ ~(q \subseteq requestCut \union responseCut)
    BY <1>5, <1>6 DEF Talking
  <1> QED  BY <1>7, <1>8 DEF CoreKeepsQuorum, k

\* All but one replica are a majority.
LEMMA OthersSuffice ==
    ASSUME nreplicas \in Sizes, nreplicas >= 3, NEW r \in ReplicaIds,
           cut \subseteq Links({r}, ReplicaIds), requestCut \subseteq {r}, responseCut \subseteq {r}
    PROVE  CoreKeepsQuorum
  <1> DEFINE core == ReplicaIds \ {r}
  <1>1. Cardinality(core) = nreplicas - 1
    BY ReplicaCount, FS_RemoveElement
  <1>2. nreplicas - 1 >= nreplicas \div 2 + 1
    BY ReplicaCount
  <1>3. Cardinality(core) >= nreplicas \div 2 + 1
    BY <1>1, <1>2
  <1>4. Talking(core)
    BY DEF Talking, Links
  <1> QED  BY <1>3, <1>4, CoreSuffices

\* The core of a partition is a majority, and without one of it still one.
LEMMA PartitionSuffices ==
    ASSUME nreplicas \in Sizes, nreplicas >= 3, CoreChosen, NEW r,
           cut \subseteq CorePartition \union Links({r}, ReplicaIds),
           requestCut \subseteq {r}, responseCut \subseteq {r}
    PROVE  CoreKeepsQuorum
  <1> DEFINE core == connected_group \ {r}
  <1>1. IsFiniteSet(connected_group)
    BY ReplicaCount, FS_Subset DEF CoreChosen
  <1>2. Cardinality(core)
            = IF r \in connected_group THEN Cardinality(connected_group) - 1 ELSE Cardinality(connected_group)
    BY <1>1, FS_RemoveElement
  <1>3. Cardinality(connected_group) \in Nat /\ Cardinality(core) \in Nat
    BY <1>1, FS_RemoveElement, FS_CardinalityType
  <1>4. Cardinality(connected_group) >= nreplicas \div 2 + 2 /\ nreplicas \div 2 \in Nat
    BY CoreCount, ReplicaCount DEF CoreChosen
  <1>5. core \in SUBSET ReplicaIds
    BY DEF CoreChosen
  <1>6. Talking(core)
    BY DEF Talking, Links, CorePartition, isolated_group
  <1>7. core \intersect (requestCut \union responseCut) = {}
    OBVIOUS
  <1> HIDE DEF core
  <1>8. Cardinality(core) >= nreplicas \div 2 + 1
    BY <1>2, <1>3, <1>4
  <1> QED  BY <1>5, <1>6, <1>7, <1>8, CoreSuffices

LEMMA InvGivesSound == FaultsInv => SchedulesSound
  <1> SUFFICES ASSUME FaultsInv  PROVE SchedulesSound
    OBVIOUS
  <1>0. nreplicas \in Sizes /\ initial_leader \in ReplicaIds /\ nreplicas \in Nat
    BY ReplicaCount DEF FaultsInv
  <1>1. CoreKeepsQuorum
    <2> SUFFICES ASSUME schedule # "darias", nreplicas >= 3  PROVE CoreKeepsQuorum
      BY DEF CoreKeepsQuorum
    <2>1. ASSUME NEW r \in ReplicaIds, NetFailed({}, r) \/ NetCutOff(r, {r}) \/ NetCutOff(r, {})
          PROVE  CoreKeepsQuorum
      <3>1. cut \subseteq Links({r}, ReplicaIds) /\ requestCut \subseteq {r} /\ responseCut \subseteq {r}
        BY <2>1 DEF NetFailed, NetCutOff, Links
      <3> QED  BY <1>0, <3>1, OthersSuffice
    <2>2. ASSUME NetWhole({})
          PROVE  CoreKeepsQuorum
      BY <1>0, <2>2, OthersSuffice DEF NetWhole
    <2>3. CASE pc \in {"flap", "fringe", "rest"}
      <3>1. CoreChosen /\ (NetFailed(CorePartition, victim) \/ NetWhole(CorePartition))
        BY <2>3 DEF FaultsInv
      <3>2. /\ cut \subseteq CorePartition \union Links({victim}, ReplicaIds)
            /\ requestCut \subseteq {victim} /\ responseCut \subseteq {victim}
        BY <3>1 DEF NetFailed, NetWhole
      <3> QED  BY <1>0, <3>1, <3>2, PartitionSuffices
    <2>4. CASE pc \in {"start", "churn_rest", "churn"}
      BY <2>1, <2>2, <2>4 DEF FaultsInv, NetFailed
    <2>5. CASE pc = "down"
      BY <2>1, <2>5 DEF FaultsInv, Downs, NetFailed, NetCutOff
    <2>6. CASE pc \in {"done", "checked"}
      BY <2>1, <2>2, <2>6 DEF FaultsInv, Ends, NetFailed, NetCutOff
    <2> QED  BY <2>3, <2>4, <2>5, <2>6 DEF FaultsInv, Rounds
  <1>2. FailedIsolated
    <2>1. ASSUME replica_available = ReplicaIds
          PROVE  FailedIsolated
      BY <2>1 DEF FailedIsolated
    <2>2. ASSUME NEW c, NEW r, NetFailed(c, r)
          PROVE  FailedIsolated
      BY <2>2 DEF FailedIsolated, NetFailed
    <2>3. replica_available = ReplicaIds \/ \E c, r : NetFailed(c, r)
      <3>1. CASE pc \in {"flap", "fringe", "churn"}
        BY <3>1 DEF FaultsInv
      <3>2. CASE pc \in {"start", "rest", "churn_rest", "first", "second", "hold"}
        BY <3>2 DEF FaultsInv, NetWhole, Rounds
      <3>3. CASE pc \in {"down", "done", "checked"}
        BY <3>3 DEF FaultsInv, NetWhole, NetCutOff, Downs, Ends
      <3> QED  BY <3>1, <3>2, <3>3 DEF FaultsInv
    <2> QED  BY <2>1, <2>2, <2>3
  <1>3. HealedAtEnd
    BY DEF HealedAtEnd, FaultsInv, Ends, NetWhole
  <1>4. OneDirectionAtATime
    <2>1. ASSUME pc = "first"
          PROVE  \A p \in cut : Flip(p) \notin cut
      BY <2>1 DEF FaultsInv, Rounds, Oriented
    <2>2. ASSUME pc = "hold"
          PROVE  cut = {p \in ReplicaIds \X ReplicaIds : p[1] # p[2]}
      BY <2>2 DEF FaultsInv, Rounds, AllLinks
    <2> QED  BY <2>1, <2>2 DEF OneDirectionAtATime, At
  <1> QED  BY <1>1, <1>2, <1>3, <1>4 DEF SchedulesSound

LEMMA FaultsStart == FaultsInit => FaultsInv
  BY DEF FaultsInit, FaultsInv, NetWhole

\* What a step that fails, heals or restores makes of the network.
LEMMA NetMoves ==
    ASSUME nreplicas' = nreplicas
    PROVE  /\ ReplicaIds' = ReplicaIds
           /\ \A c, r : r \in ReplicaIds /\ NetWhole(c) /\ Fail(r) => NetFailed(c, r)'
           /\ \A c, r : NetFailed(c, r) /\ recover_replica(r) =>
                  requestCut' = {} /\ responseCut' = {} /\ replica_available' = ReplicaIds
           /\ \A r : NetFailed({}, r) /\ Recover(r) => NetWhole({})'
  <1>1. ReplicaIds' = ReplicaIds
    BY DEF ReplicaIds
  <1>2. ASSUME NEW c, NEW r, r \in ReplicaIds, NetWhole(c), Fail(r)
        PROVE  NetFailed(c, r)'
    BY <1>1, <1>2 DEF NetWhole, NetFailed, Fail, fail_replica, Failed, Links
  <1>3. ASSUME NEW c, NEW r, NetFailed(c, r), recover_replica(r)
        PROVE  requestCut' = {} /\ responseCut' = {} /\ replica_available' = ReplicaIds
    BY <1>3 DEF NetFailed, recover_replica
  <1>4. ASSUME NEW r, NetFailed({}, r), Recover(r)
        PROVE  NetWhole({})'
    <2>1. cut' = {}
      BY <1>4 DEF NetFailed, Recover, Recovered
    <2> QED  BY <1>1, <1>3, <1>4, <2>1 DEF NetWhole, Recover
  <1> QED  BY <1>1, <1>2, <1>3, <1>4

LEMMA CoreMoves ==
    ASSUME nreplicas' = nreplicas, connected_group' = connected_group
    PROVE  CorePartition' = CorePartition /\ (CoreChosen => CoreChosen')
  <1>1. ReplicaIds' = ReplicaIds /\ connected_count' = connected_count
    BY DEF ReplicaIds, connected_count
  <1> QED  BY <1>1 DEF CorePartition, CoreChosen, Links, isolated_group

\* A replica of the partition comes back, and perhaps another goes.
LEMMA PartitionRestored ==
    ASSUME NEW r, NetFailed(CorePartition, r)
    PROVE  Repartition(Recovered(cut, r)) = CorePartition
  BY DEF NetFailed, Repartition, Recovered, CorePartition

LEMMA QuietKeeps ==
    ASSUME FaultsInv, nreplicas' = nreplicas, NoSchedule \/ schedule_random
    PROVE  FaultsInv'
  <1>1. ReplicaIds' = ReplicaIds /\ pc = "start" /\ NetWhole({})
    BY NetMoves DEF FaultsInv, NoSchedule, schedule_random, At
  <1>2. NetWhole({})'
    BY <1>1 DEF NetWhole, NoSchedule, schedule_random, netvars
  <1>3. pc' \in {"start", "done"}
    BY <1>1 DEF NoSchedule, schedule_random, Goto
  <1> QED  BY <1>2, <1>3 DEF FaultsInv, Ends

LEMMA FailoverKeeps ==
    ASSUME FaultsInv, nreplicas' = nreplicas, schedule_failover \/ schedule_recovery
    PROVE  FaultsInv'
  <1>1. initial_leader \in ReplicaIds
    BY ReplicaCount DEF FaultsInv
  <1>2. CASE schedule_failover
    <2>1. NetFailed({}, initial_leader)'
      BY <1>1, <1>2, NetMoves DEF schedule_failover, FaultsInv, At
    <2>2. \/ pc' = "down" /\ schedule' = "recover"
          \/ pc' = "done" /\ schedule' = "failover"
      BY <1>2 DEF schedule_failover, Goto, At
    <2> QED  BY <2>1, <2>2 DEF FaultsInv, Downs, Ends
  <1>3. CASE schedule_recovery
    <2>1. NetFailed({}, initial_leader)
      BY <1>3 DEF schedule_recovery, FaultsInv, At, Downs
    <2>2. NetWhole({})'
      BY <1>3, <2>1, NetMoves DEF schedule_recovery
    <2> QED  BY <1>3, <2>2 DEF schedule_recovery, Goto, FaultsInv, Ends
  <1> QED  BY <1>2, <1>3

LEMMA SplitBrainKeeps ==
    ASSUME FaultsInv, nreplicas' = nreplicas, schedule_split_brain
    PROVE  FaultsInv'
  <1>1. initial_leader \in ReplicaIds /\ ReplicaIds' = ReplicaIds
    BY ReplicaCount, NetMoves DEF FaultsInv
  <1>2. replica_available = ReplicaIds /\ replica_available' = replica_available /\ schedule' = schedule
    BY DEF schedule_split_brain, FaultsInv, At, Downs, NetWhole, NetCutOff
  <1>3. CASE At({"split"}, "start") /\ partition_one_against_rest(initial_leader) /\ Goto("down")
    <2>1. NetCutOff(initial_leader, {})'
      BY <1>1, <1>2, <1>3 DEF partition_one_against_rest, NetCutOff, Links
    <2> QED  BY <1>2, <1>3, <2>1 DEF FaultsInv, Downs, At, Goto
  <1>4. CASE At({"split"}, "down") /\ Heal /\ Goto("done")
    <2>1. NetWhole({})'
      BY <1>1, <1>2, <1>4 DEF Heal, NetWhole
    <2> QED  BY <1>4, <2>1 DEF FaultsInv, Ends, Goto
  <1> QED  BY <1>3, <1>4 DEF schedule_split_brain

LEMMA StartFlapsKeeps ==
    ASSUME FaultsInv, nreplicas' = nreplicas, StartFlaps
    PROVE  FaultsInv'
  <1>1. /\ initial_leader \in ReplicaIds /\ ReplicaIds' = ReplicaIds /\ IsFiniteSet(ReplicaIds)
        /\ nreplicas \in Nat /\ nreplicas > 1 /\ NetWhole({})
    BY ReplicaCount, NetMoves DEF FaultsInv, StartFlaps, At
  <1>2. PICK followers \in kSubset(connected_count - 1, ReplicaIds \ {initial_leader}) :
            connected_group' = {initial_leader} \union followers
    BY DEF StartFlaps
  <1>3. PICK v \in connected_group' :
            /\ fail_replica(v)
            /\ cut' = Failed(Links(connected_group', ReplicaIds \ connected_group'), v)
    BY DEF StartFlaps
  <1>4. connected_count \in Nat /\ connected_count' = connected_count
    <2>1. connected_count' = connected_count
      BY DEF connected_count
    <2> DEFINE h == nreplicas \div 2
               m == Min({nreplicas, h + 2})
    <2>2. h \in Nat
      BY <1>1
    <2> HIDE DEF h
    <2>3. m \in Nat
      BY <1>1, <2>2 DEF Min
    <2> HIDE DEF m
    <2>4. Max({2, m}) \in Nat
      BY <2>3 DEF Max
    <2> QED  BY <2>1, <2>4 DEF connected_count, h, m
  <1>5. /\ followers \subseteq ReplicaIds /\ initial_leader \notin followers
        /\ Cardinality(followers) = connected_count - 1
    BY <1>2 DEF kSubset
  <1>6. Cardinality(followers \union {initial_leader}) = Cardinality(followers) + 1
    <2>1. IsFiniteSet(followers)
      BY <1>1, <1>5, FS_Subset
    <2> QED  BY <1>5, <2>1, FS_AddElement
  <1>7. connected_group' = followers \union {initial_leader}
    BY <1>2
  <1>8. CoreChosen'
    <2>1. Cardinality(connected_group') = connected_count
      BY <1>4, <1>5, <1>6, <1>7
    <2> QED  BY <1>1, <1>4, <1>5, <1>7, <2>1 DEF CoreChosen
  <1>9. NetFailed(CorePartition, victim)' /\ victim' = v
    <2>1. v \in ReplicaIds
      BY <1>1, <1>3, <1>8 DEF CoreChosen
    <2>2. CorePartition' = Links(connected_group', ReplicaIds \ connected_group')
      BY <1>1 DEF CorePartition, isolated_group, Links
    <2>3. cut' = CorePartition' \union Links({v}, ReplicaIds)
      BY <1>3, <2>2 DEF Failed
    <2>4. /\ requestCut' = {v} /\ responseCut' = {v} /\ victim' = v
          /\ replica_available' = ReplicaIds \ {v}
      BY <1>1, <1>3 DEF NetWhole, fail_replica
    <2> QED  BY <1>1, <2>1, <2>3, <2>4 DEF NetFailed, Links
  <1>10. pc' = "flap" /\ schedule' \in Flapping /\ victim' \in connected_group'
    BY <1>3, <1>9 DEF StartFlaps, At, Goto
  <1> QED  BY <1>8, <1>9, <1>10 DEF FaultsInv

\* The steps of the partition that end with all its replicas up, or one down.
LEMMA EndFlapKeeps ==
    ASSUME FaultsInv, nreplicas' = nreplicas, EndFlap \/ EndFringe
    PROVE  FaultsInv'
  <1>1. /\ pc \in {"flap", "fringe"} /\ pc' = "rest" /\ schedule' = schedule
        /\ connected_group' = connected_group
        /\ recover_replica(victim) /\ cut' = Repartition(Recovered(cut, victim))
    BY DEF EndFlap, EndFringe, At, Goto
  <1>2. schedule \in Flapping /\ CoreChosen /\ NetFailed(CorePartition, victim)
    BY <1>1 DEF FaultsInv
  <1>3. CoreChosen' /\ CorePartition' = CorePartition
    BY <1>1, <1>2, CoreMoves
  <1>4. NetWhole(CorePartition)'
    <2>1. cut' = CorePartition
      BY <1>1, <1>2, PartitionRestored
    <2>2. requestCut' = {} /\ responseCut' = {} /\ replica_available' = ReplicaIds /\ ReplicaIds' = ReplicaIds
      BY <1>1, <1>2, NetMoves
    <2> QED  BY <1>3, <2>1, <2>2 DEF NetWhole
  <1> QED  BY <1>1, <1>2, <1>3, <1>4 DEF FaultsInv

LEMMA FringeFailsKeeps ==
    ASSUME FaultsInv, nreplicas' = nreplicas, FringeFails
    PROVE  FaultsInv'
  <1>1. PICK r \in isolated_group :
            /\ replica_available' = (replica_available \union {victim}) \ {r}
            /\ requestCut' = (requestCut \ {victim}) \union {r}
            /\ responseCut' = (responseCut \ {victim}) \union {r}
            /\ cut' = Failed(Repartition(Recovered(cut, victim)), r)
            /\ victim' = r
    BY DEF FringeFails
  <1>2. /\ pc = "flap" /\ pc' = "fringe" /\ schedule' = schedule
        /\ connected_group' = connected_group
    BY DEF FringeFails, At, Goto
  <1>3. schedule \in Flapping /\ CoreChosen /\ NetFailed(CorePartition, victim)
    BY <1>2 DEF FaultsInv
  <1>4. CoreChosen' /\ CorePartition' = CorePartition /\ ReplicaIds' = ReplicaIds
    BY <1>2, <1>3, CoreMoves, NetMoves
  <1>5. r \in ReplicaIds /\ r \notin connected_group
    BY <1>1 DEF isolated_group
  <1>6. NetFailed(CorePartition, victim)'
    <2>1. cut' = CorePartition \union Links({r}, ReplicaIds)
      BY <1>1, <1>3, PartitionRestored DEF Failed
    <2>2. requestCut' = {r} /\ responseCut' = {r} /\ replica_available' = ReplicaIds \ {r}
      BY <1>1, <1>3 DEF NetFailed
    <2> QED  BY <1>1, <1>4, <1>5, <2>1, <2>2 DEF NetFailed, Links
  <1>7. victim' \notin connected_group'
    BY <1>1, <1>2, <1>5
  <1> QED  BY <1>2, <1>3, <1>4, <1>6, <1>7 DEF FaultsInv

LEMMA NextFlapKeeps ==
    ASSUME FaultsInv, nreplicas' = nreplicas, NextFlap
    PROVE  FaultsInv'
  <1>1. PICK v \in connected_group : Fail(v)
    BY DEF NextFlap
  <1>2. /\ pc = "rest" /\ pc' = "flap" /\ schedule' = schedule
        /\ connected_group' = connected_group /\ victim' = v
    BY <1>1 DEF NextFlap, At, Goto, Fail, fail_replica
  <1>3. schedule \in Flapping /\ CoreChosen /\ NetWhole(CorePartition)
    BY <1>2 DEF FaultsInv
  <1>4. CoreChosen' /\ CorePartition' = CorePartition /\ v \in ReplicaIds
    BY <1>2, <1>3, CoreMoves DEF CoreChosen
  <1>5. NetFailed(CorePartition, victim)'
    <2>1. ReplicaIds' = ReplicaIds
      BY NetMoves
    <2>2. /\ cut' = CorePartition \union Links({v}, ReplicaIds)
          /\ requestCut' = {v} /\ responseCut' = {v} /\ replica_available' = ReplicaIds \ {v}
      BY <1>1, <1>3 DEF NetWhole, Fail, fail_replica, Failed
    <2> QED  BY <1>2, <1>4, <2>1, <2>2 DEF NetFailed, Links
  <1> QED  BY <1>2, <1>3, <1>4, <1>5 DEF FaultsInv

LEMMA ChurnKeeps ==
    ASSUME FaultsInv, nreplicas' = nreplicas, StartChurn \/ EndChurn \/ NextChurn \/ EndSchedule
    PROVE  FaultsInv'
  <1>1. ReplicaIds' = ReplicaIds
    BY NetMoves
  <1>2. schedule' = schedule /\ schedule \in Flapping
    BY DEF StartChurn, EndChurn, NextChurn, EndSchedule, At
  <1>3. CASE StartChurn
    <2>1. PICK v \in ReplicaIds : fail_replica(v) /\ cut' = Failed({}, v)
      BY <1>3 DEF StartChurn
    <2>2. NetWhole(CorePartition) /\ pc' = "churn"
      BY <1>3 DEF StartChurn, FaultsInv, At, Goto
    <2>3. NetFailed({}, victim)'
      BY <1>1, <2>1, <2>2 DEF NetWhole, NetFailed, fail_replica, Failed, Links
    <2> QED  BY <1>2, <2>2, <2>3 DEF FaultsInv
  <1>4. CASE EndChurn
    <2>1. NetFailed({}, victim) /\ Recover(victim) /\ pc' = "churn_rest"
      BY <1>4 DEF EndChurn, FaultsInv, At, Goto
    <2>2. NetWhole({})'
      BY <2>1, NetMoves
    <2> QED  BY <1>2, <2>1, <2>2 DEF FaultsInv
  <1>5. CASE NextChurn
    <2>1. PICK v \in ReplicaIds : Fail(v)
      BY <1>5 DEF NextChurn
    <2>2. NetWhole({}) /\ pc' = "churn"
      BY <1>5 DEF NextChurn, FaultsInv, At, Goto
    <2>3. NetFailed({}, v)' /\ victim' = v
      BY <2>1, <2>2, NetMoves DEF Fail, fail_replica
    <2>4. NetFailed({}, victim)'
      BY <2>3 DEF NetFailed
    <2> QED  BY <1>2, <2>2, <2>4 DEF FaultsInv
  <1>6. CASE EndSchedule
    <2>1. NetWhole({}) /\ pc' = "done"
      BY <1>6 DEF EndSchedule, FaultsInv, At, Goto
    <2>2. NetWhole({})'
      BY <1>1, <1>6, <2>1 DEF EndSchedule, Heal, NetWhole, netvars
    <2> QED  BY <2>1, <2>2 DEF FaultsInv, Ends
  <1> QED  BY <1>3, <1>4, <1>5, <1>6

LEMMA StartDariasKeeps ==
    ASSUME FaultsInv, nreplicas' = nreplicas, StartDarias
    PROVE  FaultsInv'
  <1>1. ReplicaIds' = ReplicaIds /\ ReplicaIds \subseteq Nat
    BY NetMoves, ReplicaCount DEF FaultsInv, ReplicaIds
  <1>2. /\ NetWhole({}) /\ pc' = "first" /\ schedule' = "darias"
        /\ cut' = cut /\ requestCut' = requestCut /\ responseCut' = responseCut
        /\ replica_available' = replica_available
    BY DEF StartDarias, FaultsInv, At, Goto, netvars
  <1>3. PICK flipped \in SUBSET Pairs :
            first_round' = (Pairs \ flipped) \union {Flip(p) : p \in flipped}
    BY DEF StartDarias
  <1>4. \A p \in Pairs : p \in ReplicaIds \X ReplicaIds /\ p[1] < p[2]
    BY DEF Pairs
  <1>5. \A p \in ReplicaIds \X ReplicaIds :
            /\ Flip(p) \in ReplicaIds \X ReplicaIds
            /\ Flip(p)[1] = p[2] /\ Flip(p)[2] = p[1] /\ Flip(Flip(p)) = p
    BY DEF Flip
  <1>6. \A p \in ReplicaIds \X ReplicaIds : p[1] \in Nat /\ p[2] \in Nat
    BY <1>1
  <1>7. \A p \in first_round' : \/ p \in Pairs /\ p \notin flipped
                                \/ p \in ReplicaIds \X ReplicaIds /\ Flip(p) \in flipped
    BY <1>3, <1>4, <1>5
  <1>8. Oriented'
    <2>1. first_round' \subseteq ReplicaIds \X ReplicaIds
      BY <1>4, <1>7
    <2>2. ASSUME NEW p \in first_round'
          PROVE  p[1] # p[2] /\ Flip(p) \notin first_round'
      <3>1. p \in ReplicaIds \X ReplicaIds /\ Flip(p) \in ReplicaIds \X ReplicaIds
        BY <1>5, <2>1
      <3>2. CASE p \in Pairs /\ p \notin flipped
        <4>1. p[1] < p[2] /\ Flip(p) \notin Pairs
          BY <1>4, <1>5, <1>6, <3>1, <3>2
        <4> QED  BY <1>5, <1>6, <1>7, <3>1, <3>2, <4>1
      <3>3. CASE Flip(p) \in flipped
        <4>1. p[2] < p[1] /\ Flip(p) \in Pairs /\ p \notin Pairs
          BY <1>4, <1>5, <1>6, <3>1, <3>3
        <4>2. Flip(Flip(p)) \notin flipped
          BY <1>5, <3>1, <4>1
        <4> QED  BY <1>5, <1>6, <1>7, <3>1, <3>3, <4>1, <4>2
      <3> QED  BY <1>7, <3>2, <3>3
    <2> QED  BY <1>1, <2>1, <2>2 DEF Oriented, Flip
  <1>9. AllLinks'
    <2>1. second_round' = {Flip(p) : p \in first_round'}
      BY DEF second_round, Flip
    <2>2. ASSUME NEW p \in ReplicaIds \X ReplicaIds, p[1] # p[2]
          PROVE  p \in first_round' \/ p \in second_round'
      <3>1. p \in Pairs \/ Flip(p) \in Pairs
        BY <1>5, <1>6, <2>2 DEF Pairs
      <3>2. p \in first_round' \/ Flip(p) \in first_round'
        BY <1>3, <1>5, <2>2, <3>1
      <3> QED  BY <1>5, <2>1, <2>2, <3>2
    <2>3. ASSUME NEW p, p \in first_round' \/ p \in second_round'
          PROVE  p \in ReplicaIds \X ReplicaIds /\ p[1] # p[2]
      BY <1>1, <1>5, <1>8, <2>1, <2>3 DEF Oriented
    <2>4. first_round' \union second_round' = {p \in ReplicaIds \X ReplicaIds : p[1] # p[2]}
      BY <2>2, <2>3
    <2> QED  BY <1>1, <2>4 DEF AllLinks
  <1>10. Rounds' /\ cut' \subseteq first_round'
    BY <1>1, <1>2, <1>8, <1>9 DEF Rounds, NetWhole
  <1> QED  BY <1>2, <1>10 DEF FaultsInv

\* The rounds leave what was chosen alone.
LEMMA RoundsMove ==
    ASSUME nreplicas' = nreplicas, first_round' = first_round, schedule' = schedule, Rounds,
           requestCut' = requestCut, responseCut' = responseCut, replica_available' = replica_available
    PROVE  Rounds' /\ second_round' = second_round /\ ReplicaIds' = ReplicaIds
  <1>1. ReplicaIds' = ReplicaIds
    BY NetMoves
  <1>2. second_round' = second_round
    BY DEF second_round, Flip
  <1>3. Oriented' /\ AllLinks' /\ NetWhole(cut)'
    BY <1>1, <1>2 DEF Rounds, Oriented, AllLinks, NetWhole, Flip
  <1> QED  BY <1>1, <1>2, <1>3 DEF Rounds

LEMMA CutOneKeeps ==
    ASSUME FaultsInv, nreplicas' = nreplicas, CutOne
    PROVE  FaultsInv'
  <1>1. /\ pc \in {"first", "second"} /\ pc' = pc /\ Rounds
        /\ first_round' = first_round /\ schedule' = schedule /\ requestCut' = requestCut
        /\ responseCut' = responseCut /\ replica_available' = replica_available
    BY DEF CutOne, FaultsInv
  <1>2. Rounds' /\ second_round' = second_round
    BY <1>1, RoundsMove
  <1>3. PICK p \in Round : cut' = cut \union {p}
    BY DEF CutOne
  <1>4. CASE pc = "first"
    <2>1. cut' \subseteq first_round'
      BY <1>1, <1>3, <1>4 DEF FaultsInv, Round
    <2> QED  BY <1>1, <1>2, <1>4, <2>1 DEF FaultsInv
  <1>5. CASE pc = "second"
    <2>1. first_round' \subseteq cut' /\ cut' \subseteq first_round' \union second_round'
      BY <1>1, <1>2, <1>3, <1>5 DEF FaultsInv, Round
    <2> QED  BY <1>1, <1>2, <1>5, <2>1 DEF FaultsInv
  <1> QED  BY <1>1, <1>4, <1>5

LEMMA EndRoundKeeps ==
    ASSUME FaultsInv, nreplicas' = nreplicas, EndRound
    PROVE  FaultsInv'
  <1>1. /\ pc \in {"first", "second"} /\ Rounds /\ cut' = cut /\ Round \subseteq cut
        /\ first_round' = first_round /\ schedule' = schedule /\ requestCut' = requestCut
        /\ responseCut' = responseCut /\ replica_available' = replica_available
    BY DEF EndRound, FaultsInv, netvars
  <1>2. Rounds' /\ second_round' = second_round
    BY <1>1, RoundsMove
  <1>3. CASE pc = "first"
    <2>1. pc' = "second" /\ first_round \subseteq cut /\ cut \subseteq first_round
      BY <1>1, <1>3 DEF FaultsInv, EndRound, Goto, Round
    <2> QED  BY <1>1, <1>2, <2>1 DEF FaultsInv
  <1>4. CASE pc = "second"
    <2>1. pc' = "hold" /\ cut = first_round \union second_round
      BY <1>1, <1>4 DEF FaultsInv, EndRound, Goto, Round
    <2> QED  BY <1>1, <1>2, <2>1 DEF FaultsInv
  <1> QED  BY <1>1, <1>3, <1>4

LEMMA EndDariasKeeps ==
    ASSUME FaultsInv, nreplicas' = nreplicas, EndDarias
    PROVE  FaultsInv'
  <1>1. ReplicaIds' = ReplicaIds
    BY NetMoves
  <1>2. NetWhole({})'
    BY <1>1 DEF EndDarias, FaultsInv, At, Rounds, NetWhole
  <1> QED  BY <1>2 DEF EndDarias, FaultsInv, Ends, Goto

LEMMA EricKeeps ==
    ASSUME FaultsInv, nreplicas' = nreplicas, schedule_eric \/ schedule_eric_recover
    PROVE  FaultsInv'
  <1>1. ReplicaIds' = ReplicaIds
    BY NetMoves
  <1>2. CASE schedule_eric
    <2>1. PICK r \in ReplicaIds :
              /\ victim' = r
              /\ cut' = cut \union set_replica_interconnectivity(r)
              /\ IF schedule = "eric_split" THEN UNCHANGED <<requestCut, responseCut>>
                 ELSE requestCut' = requestCut \union {r} /\ responseCut' = responseCut \union {r}
      BY <1>2 DEF schedule_eric
    <2>2. NetWhole({}) /\ schedule' = schedule /\ schedule \in Eric /\ replica_available' = replica_available
      BY <1>2 DEF schedule_eric, FaultsInv, At
    <2>3. NetCutOff(victim, IF schedule = "eric_split" THEN {} ELSE {victim})'
      BY <1>1, <2>1, <2>2 DEF NetWhole, NetCutOff, set_replica_interconnectivity, Links
    <2>4. pc' = IF schedule = "eric" THEN "done" ELSE "down"
      BY <1>2 DEF schedule_eric, Goto
    <2>5. Downs' \/ pc' # "down"
      BY <2>2, <2>3, <2>4 DEF Downs, Eric
    <2>6. Ends' \/ pc' # "done"
      BY <2>2, <2>3, <2>4 DEF Ends, Eric
    <2> QED  BY <2>4, <2>5, <2>6 DEF FaultsInv
  <1>3. CASE schedule_eric_recover
    <2>1. NetCutOff(victim, {victim}) \/ NetCutOff(victim, {})
      BY <1>3 DEF schedule_eric_recover, FaultsInv, At, Downs, Eric
    <2>2. NetWhole({})'
      BY <1>1, <1>3, <2>1 DEF schedule_eric_recover, NetCutOff, NetWhole, set_replica_interconnectivity
    <2> QED  BY <1>3, <2>2 DEF schedule_eric_recover, FaultsInv, Ends, Goto
  <1> QED  BY <1>2, <1>3

LEMMA TryOneSeedKeeps ==
    ASSUME FaultsInv, nreplicas' = nreplicas, try_one_seed
    PROVE  FaultsInv'
  <1>1. ReplicaIds' = ReplicaIds
    BY NetMoves
  <1>2. /\ Ends /\ pc' = "checked" /\ schedule' = schedule /\ victim' = victim
        /\ cut' = cut /\ requestCut' = requestCut /\ responseCut' = responseCut
        /\ replica_available' = replica_available
    BY DEF try_one_seed, FaultsInv, Goto, netvars
  <1>3. Ends'
    BY <1>1, <1>2 DEF Ends, NetWhole, NetFailed, NetCutOff, Links
  <1> QED  BY <1>2, <1>3 DEF FaultsInv

LEMMA FaultsStep ==
    ASSUME FaultsInv, [FaultsNext]_faultVars
    PROVE  FaultsInv'
  <1>1. CASE FaultsNext
    <2>1. nreplicas' = nreplicas /\ (run_failure_schedule \/ try_one_seed)
      BY <1>1 DEF FaultsNext
    <2> QED  BY <2>1, QuietKeeps, FailoverKeeps, SplitBrainKeeps, StartFlapsKeeps, EndFlapKeeps, FringeFailsKeeps,
                NextFlapKeeps, ChurnKeeps, StartDariasKeeps, CutOneKeeps, EndRoundKeeps, EndDariasKeeps,
                EricKeeps, TryOneSeedKeeps DEF run_failure_schedule
  <1>2. CASE UNCHANGED faultVars
    <2>1. /\ nreplicas' = nreplicas /\ schedule' = schedule /\ pc' = pc /\ cut' = cut
          /\ requestCut' = requestCut /\ responseCut' = responseCut
          /\ replica_available' = replica_available /\ connected_group' = connected_group
          /\ victim' = victim /\ first_round' = first_round
      BY <1>2 DEF faultVars
    <2>2. ReplicaIds' = ReplicaIds /\ CorePartition' = CorePartition /\ (CoreChosen => CoreChosen')
      BY <2>1, NetMoves, CoreMoves
    <2>3. second_round' = second_round /\ (Rounds => Rounds')
      BY <2>1, RoundsMove DEF second_round, Flip
    <2>4. /\ \A c : NetWhole(c) => NetWhole(c)'
          /\ \A c, r : NetFailed(c, r) => NetFailed(c, r)'
          /\ \A c, r : NetCutOff(r, c) => NetCutOff(r, c)'
      BY <2>1, <2>2 DEF NetWhole, NetFailed, NetCutOff, Links
    <2>5. /\ NetWhole(CorePartition) => NetWhole(CorePartition)'
          /\ NetFailed(CorePartition, victim) => NetFailed(CorePartition, victim)'
          /\ NetFailed({}, victim) => NetFailed({}, victim)'
      BY <2>1, <2>2 DEF NetWhole, NetFailed, Links
    <2>6. (Downs => Downs') /\ (Ends => Ends')
      BY <2>1, <2>2 DEF Downs, Ends, NetWhole, NetFailed, NetCutOff, Links
    <2> QED  BY <2>1, <2>2, <2>3, <2>4, <2>5, <2>6 DEF FaultsInv
  <1> QED  BY <1>1, <1>2

(***************************************************************************)
(* For any number of replicas and any choice of the schedules: a majority  *)
(* of three or more replicas can talk and be reached, though one of the    *)
(* core fails inside a partition; a replica that is down is cut off from   *)
(* everyone; a schedule that fails nobody for good ends with a whole       *)
(* network; and darias cuts one direction of each link before the other.   *)
(***************************************************************************)
THEOREM SchedulesSoundTheorem == FaultsSpec => []SchedulesSound
  <1> QED  BY FaultsStart, FaultsStep, InvGivesSound, PTL DEF FaultsSpec
=============================================================================
