---------------------------- MODULE PancydbReplay ----------------------------
(***************************************************************************)
(* Two replicas that execute the same requests: db1 is ahead, db2 follows. *)
(***************************************************************************)
EXTENDS Pancydb

CONSTANTS ReplayKeys,   \* the keys that the requests name
          Versions,     \* the versions they ask for
          MaxRequests   \* bound: the number of requests

ASSUME ReplayAssumption ==
    /\ ReplayKeys \subseteq Key
    /\ Versions \subseteq Nat
    /\ MaxRequests \in Nat
    /\ max_recent_removes \in Nat \ {0}

VARIABLES history,      \* the requests, in the order of their execution
          answers,      \* the responses of the replica that is ahead
          db1, db2,     \* the databases of the two
          replayed      \* how many of the requests db2 has seen

replayVars == <<history, answers, db1, db2, replayed>>

Match == {any_version} \cup Versions

Request ==
    [type : {"get"}, key : ReplayKeys]
    \cup [type : {"put"}, key : ReplayKeys, value : Value, version_match : Match]
    \cup [type : {"cas"}, key : ReplayKeys, expected : {<<>>} \cup Value, value : Value, version_match : Match]
    \cup [type : {"remove"}, key : ReplayKeys, version_match : Match]

ReplayInit == history = <<>> /\ answers = <<>> /\ db1 = EmptyDb /\ db2 = EmptyDb /\ replayed = 0

Ahead(req) ==
    /\ Len(history) < MaxRequests
    /\ history' = Append(history, req)
    /\ db1' = process_req(db1, req).db
    /\ answers' = Append(answers, process_req(db1, req).resp)
    /\ UNCHANGED <<db2, replayed>>

Replay ==
    /\ replayed < Len(history)
    /\ db2' = process_req(db2, history[replayed + 1]).db
    /\ replayed' = replayed + 1
    /\ UNCHANGED <<history, answers, db1>>

ReplayNext == Replay \/ \E req \in Request : Ahead(req)

ReplaySpec == ReplayInit /\ [][ReplayNext]_replayVars

-----------------------------------------------------------------------------
(***************************************************************************)
(* Versions tell modifications apart: no two keys, and no key and a        *)
(* removal, have one, and none is in store for the next. A version_match   *)
(* can then only succeed against the very modification it means.           *)
(***************************************************************************)
VersionsDistinct ==
    LET used(k)  == db1.cells[k].version
        removes  == db1.recent_removes
    IN  /\ \A k \in Key : used(k) < db1.next_version
        /\ \A k, l \in Key : used(k) = used(l) => k = l \/ used(k) = 0
        /\ \A i \in DOMAIN removes : /\ removes[i].remove_version < db1.next_version
                                     /\ \A k \in Key : used(k) # removes[i].remove_version
                                     /\ \A j \in 1..(i - 1) : removes[i].remove_version < removes[j].remove_version

(***************************************************************************)
(* diff raises no alarm about a replica that lags by no more versions than *)
(* it is told to allow, whatever was changed, removed and added again in   *)
(* between, and however few removals a database remembers.                 *)
(***************************************************************************)
DiffAcceptsLag ==
    \A skew \in 0..MaxRequests :
        db1.next_version - db2.next_version <= skew => diff(db1, db2, skew) = {} /\ diff(db2, db1, skew) = {}

(***************************************************************************)
(* Without skew diff reports every difference.                             *)
(***************************************************************************)
DiffExact == (diff(db2, db1, 0) = {}) <=> (db1.cells = db2.cells)

\* The modifications of a key among the first n requests.
Modified(k, n) == {j \in 1..n : history[j].key = k /\ history[j].type # "get" /\ answers[j].errcode = "ok"}

(***************************************************************************)
(* What a modification says it replaced is what the last modification of   *)
(* the key before it left: the responses chain up, with removals between.  *)
(***************************************************************************)
ResponsesChain ==
    \A i \in DOMAIN answers :
        i \in Modified(history[i].key, i) =>
          LET earlier == Modified(history[i].key, i - 1)
          IN  answers[i].previous_version =
                IF earlier = {} THEN nonexistent_version ELSE answers[Max(earlier)].version

(***************************************************************************)
(* Versions identify modifications, responses name what they replaced, and *)
(* diff accepts a database that only lags and, without skew, misses no     *)
(* difference.                                                             *)
(***************************************************************************)
StoreSound == VersionsDistinct /\ ResponsesChain /\ DiffAcceptsLag /\ DiffExact
=============================================================================
