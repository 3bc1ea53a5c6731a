------------------------------- MODULE Pancydb -------------------------------
(***************************************************************************)
(* The key-value store (pancydb.cc): every key has a value and the version *)
(* of its last modification, and every modification takes the next         *)
(* version. A database is a record; process_req gives the database after a *)
(* request, and the response.                                              *)
(*                                                                         *)
(* diff compares the databases of two replicas. It is what the tests judge *)
(* the replicas by, so it must accept a replica that only lags behind.     *)
(***************************************************************************)
EXTENDS Integers, Sequences, SequencesExt

CONSTANTS Key, Value,
          max_recent_removes  \* how many removals a database remembers

nonexistent_version == 0
any_version == -1

\* Values are strings, that is sequences; an absent key reads as the empty one,
\* of version 0.
nonexistent_vv == [value |-> <<>>, version |-> nonexistent_version]

EmptyDb == [next_version |-> 1, cells |-> [k \in Key |-> nonexistent_vv], recent_removes |-> <<>>]

-----------------------------------------------------------------------------
(* Requests.                                                               *)

Matches(req, vv) == req.version_match < 0 \/ req.version_match = vv.version

mod_no_match(vv) ==
    [errcode |-> "no_match", actual |-> vv.value, previous_version |-> vv.version, version |-> vv.version]

mod_ok(previous, version) ==
    [errcode |-> "ok", actual |-> <<>>, previous_version |-> previous, version |-> version]

\* An absent key is no error: the response is ok, with version 0.
process_get(db, req) ==
    [db |-> db, resp |-> [errcode |-> "ok", actual |-> db.cells[req.key].value,
                          previous_version |-> 0, version |-> db.cells[req.key].version]]

\* Faulty variant: the version before is taken for the one replaced.
MutantStore(db, key, value) ==
    [db   |-> [db EXCEPT !.cells[key] = [value |-> value, version |-> db.next_version], !.next_version = @ + 1],
     resp |-> mod_ok(db.next_version - 1, db.next_version)]

Store(db, key, value) ==
    [db   |-> [db EXCEPT !.cells[key] = [value |-> value, version |-> db.next_version], !.next_version = @ + 1],
     resp |-> mod_ok(db.cells[key].version, db.next_version)]

process_put(db, req) ==
    LET vv == db.cells[req.key]
    IN  IF ~Matches(req, vv) THEN [db |-> db, resp |-> mod_no_match(vv)]
        ELSE Store(db, req.key, req.value)

process_cas(db, req) ==
    LET vv == db.cells[req.key]
    IN  IF req.expected # vv.value \/ ~Matches(req, vv) THEN [db |-> db, resp |-> mod_no_match(vv)]
        ELSE Store(db, req.key, req.value)

\* Faulty variant: a removal does not take a version.
MutantDoRemove(db, key) ==
    [db EXCEPT !.cells[key] = nonexistent_vv,
               !.recent_removes = SubSeq(<<[key |-> key, vv |-> db.cells[key], remove_version |-> db.next_version]>> \o @,
                                         1, IF Len(@) < max_recent_removes THEN Len(@) + 1 ELSE max_recent_removes)]

do_remove(db, key) ==
    [db EXCEPT !.cells[key] = nonexistent_vv,
               !.next_version = @ + 1,
               !.recent_removes = SubSeq(<<[key |-> key, vv |-> db.cells[key], remove_version |-> db.next_version]>> \o @,
                                         1, IF Len(@) < max_recent_removes THEN Len(@) + 1 ELSE max_recent_removes)]

process_remove(db, req) ==
    LET vv == db.cells[req.key]
    IN  IF vv = nonexistent_vv
        THEN [db |-> db, resp |-> [errcode |-> "not_found", actual |-> <<>>, previous_version |-> 0, version |-> 0]]
        ELSE IF ~Matches(req, vv) THEN [db |-> db, resp |-> mod_no_match(vv)]
        ELSE [db |-> do_remove(db, req.key), resp |-> mod_ok(vv.version, nonexistent_version)]

process_req(db, req) ==
    CASE req.type = "get"    -> process_get(db, req)
      [] req.type = "put"    -> process_put(db, req)
      [] req.type = "cas"    -> process_cas(db, req)
      [] req.type = "remove" -> process_remove(db, req)

-----------------------------------------------------------------------------
(* Comparing databases.                                                    *)

\* Faulty variant: a removal at the edge of the window is overlooked.
MutantFindRecentRemove(db, key, min_version) ==
    LET removes == db.recent_removes
        found   == {i \in 1..Len(removes) : removes[i].key = key /\ removes[i].remove_version > min_version}
    IN  IF found = {} THEN nonexistent_vv ELSE removes[Min(found)].vv

\* The last removal of the key in the window; the list begins with the last.
find_recent_remove(db, key, min_version) ==
    LET removes == db.recent_removes
        found   == {i \in 1..Len(removes) : removes[i].key = key /\ removes[i].remove_version >= min_version}
    IN  IF found = {} THEN nonexistent_vv ELSE removes[Min(found)].vv

\* Faulty variant: one version more than the skew allows.
MutantMinVersion(a, skew) == a.next_version - skew - 1

\* The least version that the older database may not have reached yet.
MinVersion(a, skew) == a.next_version - skew

\* The keys at which a, the newer database, and b differ by more than the
\* skew allows. (The code returns the least of them.)
DiffKeys(a, b, skew) ==
    LET min_version == MinVersion(a, skew)
        complete    == \/ Len(a.recent_removes) < max_recent_removes
                       \/ Last(a.recent_removes).remove_version <= min_version
        avv(k)      == IF a.cells[k] # nonexistent_vv THEN a.cells[k] ELSE find_recent_remove(a, k, min_version)
        bvv(k)      == IF b.cells[k] # nonexistent_vv THEN b.cells[k] ELSE find_recent_remove(b, k, min_version)
    IN  {k \in Key :
           /\ a.cells[k] # nonexistent_vv \/ b.cells[k] # nonexistent_vv
           /\ ~(avv(k) # nonexistent_vv /\ bvv(k) = nonexistent_vv /\ avv(k).version >= min_version)
           /\ ~(avv(k) = nonexistent_vv /\ ~complete)
           /\ \/ avv(k) = nonexistent_vv
              \/ bvv(k) = nonexistent_vv
              \/ avv(k).version < bvv(k).version
              \/ avv(k).version > bvv(k).version /\ avv(k).version < min_version
              \/ avv(k).version = bvv(k).version /\ avv(k).value # bvv(k).value}

diff(a, b, skew) ==
    IF a.next_version < b.next_version THEN DiffKeys(b, a, skew) ELSE DiffKeys(a, b, skew)
=============================================================================
