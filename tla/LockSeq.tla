------------------------------- MODULE LockSeq -------------------------------
(***************************************************************************)
(* The lock-sequence clients of the tests (lockseq_model.cc): a client     *)
(* takes a group's lock by compare-and-swap, writes a sequence of values,  *)
(* removes what a longer earlier sequence left, and gives the lock back.   *)
(* Requests are sent again after a timeout or a redirection, under their   *)
(* serial, and a serial is executed once: later copies get the response of *)
(* the first (response_cache_ of the replicas). One group is modelled.     *)
(***************************************************************************)
EXTENDS Pancydb, FiniteSets

CONSTANTS Client,
          max_sequence_length,
          MaxRounds,  \* bound: how often a client takes the lock
          MaxTries    \* bound: the number of attempts of a request

\* The keys are those of one group: -1, the lock, and 0, 1, ... for the values.
ASSUME KeysAssumption == max_sequence_length \in Nat /\ -1..(max_sequence_length - 1) \subseteq Key

VARIABLES db,     \* the replicated database
          cs,     \* per client: where its coroutine is
          cached  \* per client: the response to the request under way, if executed

lockVars == <<db, cs, cached>>

Lock == -1
NoResp == [errcode |-> "none"]

\* The value a client installs in a round, and the key of the i-th value.
ValueOf(c) == <<c, cs[c].round>>
ValueKey(i) == i

LockInit ==
    /\ db = EmptyDb
    /\ cs = [c \in Client |-> [pc |-> "idle", round |-> 0, n |-> 0, nvalues |-> 0, tries |-> 0, lock_version |-> 0]]
    /\ cached = [c \in Client |-> NoResp]

\* Faulty variant: the lock is taken without looking who has it.
MutantRequestOf(c) ==
    CASE cs[c].pc = "lock"   -> [type |-> "put", key |-> Lock, value |-> ValueOf(c), version_match |-> any_version]
      [] cs[c].pc = "write"  -> [type |-> "put", key |-> ValueKey(cs[c].n), value |-> ValueOf(c), version_match |-> any_version]
      [] cs[c].pc = "clear"  -> [type |-> "remove", key |-> ValueKey(cs[c].n), version_match |-> any_version]
      [] cs[c].pc = "unlock" -> [type |-> "remove", key |-> Lock, version_match |-> cs[c].lock_version]

\* Faulty variant: the client stops clearing after the first removal.
MutantEndOfSequence(c, resp) == resp.errcode = "ok"

-----------------------------------------------------------------------------
RequestOf(c) ==
    CASE cs[c].pc = "lock"   -> [type |-> "cas", key |-> Lock, expected |-> <<>>, value |-> ValueOf(c), version_match |-> any_version]
      [] cs[c].pc = "write"  -> [type |-> "put", key |-> ValueKey(cs[c].n), value |-> ValueOf(c), version_match |-> any_version]
      [] cs[c].pc = "clear"  -> [type |-> "remove", key |-> ValueKey(cs[c].n), version_match |-> any_version]
      [] cs[c].pc = "unlock" -> [type |-> "remove", key |-> Lock, version_match |-> cs[c].lock_version]

Sending(c) == cs[c].pc \in {"lock", "write", "clear", "unlock"}

\* A new request, with a serial of its own, in phase pc.
Go(c, e) == cs' = [cs EXCEPT ![c] = [e EXCEPT !.tries = 0]] /\ cached' = [cached EXCEPT ![c] = NoResp]

\* The phase that follows when the n-th value is done.
AfterValue(e) ==
    IF e.n + 1 < e.nvalues THEN [e EXCEPT !.pc = "write", !.n = @ + 1]
    ELSE IF e.n + 1 < max_sequence_length THEN [e EXCEPT !.pc = "clear", !.n = @ + 1]
    ELSE [e EXCEPT !.pc = "unlock"]

\* The pause is over: the client picks the length of its sequence.
StartRound(c) ==
    /\ cs[c].pc = "idle"
    /\ cs[c].round < MaxRounds
    /\ \E len \in 1..max_sequence_length :
         Go(c, [cs[c] EXCEPT !.pc = "lock", !.round = @ + 1, !.n = 0, !.nvalues = len])
    /\ UNCHANGED db

HasResponse(c) == cached[c] # NoResp

\* The replicas execute the request.
Execute(c) ==
    /\ Sending(c)
    /\ ~HasResponse(c)
    /\ LET r == process_req(db, RequestOf(c))
       IN  db' = r.db /\ cached' = [cached EXCEPT ![c] = r.resp]
    /\ UNCHANGED cs

\* No response in time, or a redirection: the same request again.
Retry(c) ==
    /\ Sending(c)
    /\ cs[c].tries < MaxTries
    /\ cs' = [cs EXCEPT ![c].tries = @ + 1]
    /\ UNCHANGED <<db, cached>>

\* An attempt to lock that was beaten by another client: "must not be waiting
\* for ourselves".
Locked(c) ==
    LET resp == cached[c]
    IN  /\ cs[c].pc = "lock"
        /\ HasResponse(c)
        /\ IF resp.errcode = "ok" \/ (resp.actual = ValueOf(c) /\ cs[c].tries > 0)
           THEN Go(c, [cs[c] EXCEPT !.pc = "write", !.lock_version = resp.version])
           ELSE IF resp.actual[1] # c
           THEN Go(c, [cs[c] EXCEPT !.pc = "thrown"])
           ELSE cs' = [cs EXCEPT ![c].tries = @ + 1] /\ UNCHANGED cached
        /\ UNCHANGED db

Written(c) ==
    /\ cs[c].pc = "write"
    /\ HasResponse(c)
    /\ IF cached[c].errcode # "ok" THEN Go(c, [cs[c] EXCEPT !.pc = "thrown"])
       ELSE Go(c, AfterValue(cs[c]))
    /\ UNCHANGED db

\* Nothing there, at the first try: the end of the earlier sequence.
EndOfSequence(c, resp) == resp.errcode = "not_found" /\ cs[c].tries = 0

Cleared(c) ==
    /\ cs[c].pc = "clear"
    /\ HasResponse(c)
    /\ IF cached[c].errcode = "no_match" THEN Go(c, [cs[c] EXCEPT !.pc = "thrown"])
       ELSE IF EndOfSequence(c, cached[c]) THEN Go(c, [cs[c] EXCEPT !.pc = "unlock"])
       ELSE Go(c, AfterValue(cs[c]))
    /\ UNCHANGED db

Unlocked(c) ==
    /\ cs[c].pc = "unlock"
    /\ HasResponse(c)
    /\ Go(c, [cs[c] EXCEPT !.pc = IF cached[c].errcode # "ok" /\ cs[c].tries = 0 THEN "thrown" ELSE "idle"])
    /\ UNCHANGED db

client(c) == StartRound(c) \/ Retry(c) \/ Locked(c) \/ Written(c) \/ Cleared(c) \/ Unlocked(c)

LockNext == \E c \in Client : client(c) \/ Execute(c)

LockSpec == LockInit /\ [][LockNext]_lockVars

-----------------------------------------------------------------------------
(* What the tests accept.                                                  *)

\* The values of the group, of which the absent ones are empty.
Val(i) == db.cells[ValueKey(i)].value
Present == {i \in 0..(max_sequence_length - 1) : Val(i) # <<>>}

\* One value key of the scan: i is out of turn, or its value is another one
\* than expected, only where a holder of the lock has left off.
CheckKey(st, i) ==
    LET gap   == i # st.index
        lock  == IF gap THEN "rest" ELSE st.lock
        value == IF gap THEN <<>> ELSE st.value
        other == value # <<>> /\ Val(i) # value
    IN  [ok    |-> st.ok /\ (gap => st.lock = "start") /\ (other => lock = "start"),
         lock  |-> IF other THEN "rest" ELSE lock,
         value |-> Val(i),
         index |-> i + 1]

CheckStart ==
    LET holder == db.cells[Lock].value
    IN  [ok |-> TRUE, lock |-> IF holder = <<>> THEN "unlocked" ELSE "start", value |-> holder, index |-> 0]

\* The scan before the i-th value key; it passes the keys that are present.
Scan[i \in 0..max_sequence_length] ==
    IF i = 0 THEN CheckStart
    ELSE IF i - 1 \in Present THEN CheckKey(Scan[i - 1], i - 1) ELSE Scan[i - 1]

check == Scan[max_sequence_length].ok

(***************************************************************************)
(* The lock excludes: while a client writes, clears or unlocks, the lock   *)
(* is its own, at the version it remembers, although requests are sent     *)
(* again and responses are lost; so its release removes no other's lock.   *)
(***************************************************************************)
MutualExclusion ==
    \A c \in Client :
        (cs[c].pc \in {"write", "clear"} \/ (cs[c].pc = "unlock" /\ ~HasResponse(c))) =>
            db.cells[Lock] = [value |-> ValueOf(c), version |-> cs[c].lock_version]

(***************************************************************************)
(* The test's check accepts every database that the clients can make, also *)
(* in the middle of a round: what it reports is a fault of the replicas.   *)
(***************************************************************************)
CheckAccepts == check

=============================================================================
