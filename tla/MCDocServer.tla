---------------------------- MODULE MCDocServer ----------------------------
(***************************************************************************)
(* The HTTP server: a connection (HttpConn), or a document (DocServer)     *)
(* with two replicas, under four sets of requests: operations of two       *)
(* clients, with one of them posted again, without a browser; one          *)
(* operation posted twice, and operations of two clients, watched by a     *)
(* browser whose stream breaks; cursor positions of one client.  A         *)
(* behaviour picks one of the five parts.                                  *)
(***************************************************************************)
EXTENDS DocServer, HttpConn

VARIABLE part       \* the part that runs

\* Every method and path without a body, and the post of an operation with one.
Get  == [method |-> "GET", path |-> [kind |-> "fixed", name |-> "/"], length |-> 0, body |-> <<>>]
Upload == [method |-> "POST", path |-> [kind |-> "doc", id |-> "valid", sub |-> "op"],
           length |-> 3, body |-> <<"b1", "b2", "b3">>]
Bodiless == [method : {"GET", "POST", "OPTIONS"}, path : Path, length : {0}, body : {<<>>}]

Requests == Bodiless \union {Upload}

Op(c, s, i)  == [kind |-> "op", client |-> c, seq |-> s, id |-> i]
Cursor(c, i) == [kind |-> "cursor", client |-> c, seq |-> 0, id |-> i]

\* The requests that DocServer itself gets.
TwoOps == {Op(1, 0, 1), Op(2, 0, 2)}

Retried == INSTANCE DocServer WITH
    Post <- {Op(1, 0, 1), Op(1, 0, 2), Op(2, 0, 3)}, Browser <- {}, MaxDrops <- 0

Twice == INSTANCE DocServer WITH Post <- {Op(1, 0, 1), Op(1, 0, 2)}

Cursors == INSTANCE DocServer WITH Post <- {Cursor(1, 1), Cursor(1, 2)}, MaxDrops <- 0

allVars == <<part, vars, connVars>>
besideDoc == <<part, connVars>>

MCInit ==
    /\ \/ part = "retried"    /\ Retried!Init
       \/ part = "twice"      /\ Twice!Init
       \/ part = "ops"        /\ Init
       \/ part = "cursors"    /\ Cursors!Init
       \/ part = "connection" /\ Init /\ leader = CHOOSE r \in Replica : TRUE
    /\ ConnInit
    /\ part = "connection" \/ (req = Get /\ limit = 0 /\ fate = "eof")

\* A connection stops when it is closed or has become a stream; the poller of a
\* document never does.
Finished == part = "connection" /\ pc \in {"closed", "stream"} /\ UNCHANGED allVars

MCNext ==
    \/ part = "retried"    /\ Retried!Next /\ UNCHANGED besideDoc
    \/ part = "twice"      /\ Twice!Next   /\ UNCHANGED besideDoc
    \/ part = "ops"        /\ Next         /\ UNCHANGED besideDoc
    \/ part = "cursors"    /\ Cursors!Next /\ UNCHANGED besideDoc
    \/ part = "connection" /\ ConnNext     /\ UNCHANGED <<part, vars>>
    \/ Finished

\* The poller wakes again and again, and replicas that can reach each other
\* catch up (Apply does not depend on the requests).
poll ==
    \/ part = "retried" /\ Retried!poll_doc_cache
    \/ part = "twice"   /\ Twice!poll_doc_cache
    \/ part = "ops"     /\ poll_doc_cache
    \/ part = "cursors" /\ Cursors!poll_doc_cache

Fairness ==
    /\ WF_allVars(poll /\ UNCHANGED besideDoc)
    /\ \A r \in Replica : WF_allVars(Apply(r) /\ UNCHANGED besideDoc)

FairSpec == MCInit /\ [][MCNext]_allVars /\ Fairness

\* Only the operations of two clients, watched by a browser.
OpsSpec == (part = "ops" /\ MCInit) /\ [][MCNext]_allVars

-----------------------------------------------------------------------------
\* When no more puts are made the cache comes to hold what the replicas have
\* decided on, and keeps it.
CacheConverges ==
    <>[](/\ part = "retried" => Retried!CacheCurrent
         /\ part = "twice"   => Twice!CacheCurrent
         /\ part = "ops"     => CacheCurrent
         /\ part = "cursors" => Cursors!CacheCurrent)
=============================================================================
