------------------------------ MODULE DocServer ------------------------------
(***************************************************************************)
(* One document of the HTTP server (http_server.cc): its cache of the      *)
(* committed operations and cursors, the POST handlers that put operations *)
(* and cursors through the replicas and then note them in the cache, the   *)
(* poller that refreshes the cache from a replica's database, and the      *)
(* event streams to the browsers.                                          *)
(*                                                                         *)
(* The handlers are coroutines of one thread: a step runs from one co_await *)
(* to the next. The replicas are what SubmitPut shows of them: puts are    *)
(* executed in one order, each takes the next version, a replica may lag   *)
(* behind, a put whose submission was given up may still be executed, and  *)
(* leader_ may name a replica that lags. The text is kept as the sequence  *)
(* of the operations that were applied to it.                              *)
(***************************************************************************)
EXTENDS Integers, Sequences, FiniteSets, SequencesExt, Functions

CONSTANTS Post,     \* [kind: "op" or "cursor", client, seq, id]: the POST requests
          Replica,
          Browser,
          MaxDrops  \* bound: how often a browser's stream breaks

VARIABLES
    post,          \* per request: where its handler is
    order,         \* the puts in the order of their execution; the index is the version
    last_applied,  \* per replica, how many puts its database contains
    leader,        \* leader_ of the server's client
    cache,         \* per_doc_cache: ops_, text_, version_, cursors_, cursor_epoch_
    client_labels, \* clients whose label the server knows
    stream,        \* per browser: the handler of its stream
    received       \* per browser: the op frames and cursors that it got

vars == <<post, order, last_applied, leader, cache, client_labels, stream, received>>
store == <<order, last_applied>>

Client == {p.client : p \in Post}
Key(p) == <<p.kind, p.client, p.seq>>
NoCursor == [version |-> 0, id |-> 0]

Init ==
    /\ post = [p \in Post |-> "idle"]
    /\ order = <<>>
    /\ last_applied = [r \in Replica |-> 0]
    /\ leader \in Replica
    /\ cache = [ops |-> <<>>, text |-> <<>>, version |-> 0,
                cursors |-> [c \in Client |-> NoCursor], cursor_epoch |-> 0]
    /\ client_labels = {}
    /\ stream = [b \in Browser |-> [pc |-> "closed", drops |-> 0, last_seen |-> 0,
                                    last_cursor_epoch |-> 0, ops_snap |-> <<>>]]
    /\ received = [b \in Browser |-> [ops |-> <<>>, cursors |-> [c \in Client |-> NoCursor]]]

-----------------------------------------------------------------------------
(* The database of a replica.                                              *)

\* The versions of the cells of a kind: the last put of every key.
Cells(n, kind) ==
    {v \in 1..n : /\ order[v].kind = kind
                  /\ \A w \in (v + 1)..n : Key(order[w]) # Key(order[v])}

\* The numbers of a finite set, in ascending order.
Ascending(S) ==
    CHOOSE s \in [1..Cardinality(S) -> S] : \A i, j \in DOMAIN s : i < j => s[i] < s[j]

\* The operations of the document in the order of their versions.
read_ops(n) ==
    LET versions == Ascending(Cells(n, "op"))
    IN  [i \in DOMAIN versions |->
           [version |-> versions[i], key |-> Key(order[versions[i]]),
            id |-> order[versions[i]].id, label |-> FALSE]]

read_cursors(n) ==
    [c \in Client |->
       LET mine == {v \in Cells(n, "cursor") : order[v].client = c}
       IN  IF mine = {} THEN NoCursor
           ELSE LET v == CHOOSE w \in mine : TRUE IN [version |-> v, id |-> order[v].id]]

reconstruct(ops) == [i \in DOMAIN ops |-> ops[i].id]

LastVersion(ops) == IF ops = <<>> THEN 0 ELSE Last(ops).version

-----------------------------------------------------------------------------
(* Faulty variants, which the properties below must catch.                 *)

\* The fast path is taken without looking at the prefix.
MutantAppendOnly(ops, fresh) == Len(fresh) >= Len(ops)

\* note_committed does not look for the operation in the cache.
MutantNoteCommitted(d, c) ==
    [d EXCEPT !.ops = Append(@, c), !.text = Append(@, c.id), !.version = c.version]

\* A stream starts over after it broke.
MutantResume(b) == 0

-----------------------------------------------------------------------------
(* per_doc_cache.                                                          *)

append_only(ops, fresh) ==
    /\ Len(fresh) >= Len(ops)
    /\ \A i \in DOMAIN ops : fresh[i].version = ops[i].version /\ fresh[i].key = ops[i].key

\* Nothing in the database: the cache is reset. The cached operations are a
\* prefix of those in the database: the rest is appended, labelled by what
\* client_labels_ knows. Otherwise the cache is rebuilt, labelled only by what
\* the old cache knew of the same operation.
refresh_ops_from_db(d, fresh) ==
    IF fresh = <<>> THEN [d EXCEPT !.ops = <<>>, !.text = <<>>, !.version = 0]
    ELSE IF append_only(d.ops, fresh)
    THEN LET new == [i \in 1..(Len(fresh) - Len(d.ops)) |->
                       [fresh[Len(d.ops) + i] EXCEPT !.label = fresh[Len(d.ops) + i].key[2] \in client_labels]]
         IN  [d EXCEPT !.ops = @ \o new, !.text = @ \o reconstruct(new), !.version = Last(fresh).version]
    ELSE LET saved_labels == {o.key : o \in {p \in Range(d.ops) : p.label}}
             ops          == [i \in DOMAIN fresh |-> [fresh[i] EXCEPT !.label = fresh[i].key \in saved_labels]]
         IN  [d EXCEPT !.ops = ops, !.text = reconstruct(ops), !.version = Last(fresh).version]

CursorsChanged(fresh, old) == fresh # old

refresh_cursors_from_db(d, fresh) ==
    IF CursorsChanged(fresh, d.cursors)
    THEN [d EXCEPT !.cursors = fresh, !.cursor_epoch = @ + 1]
    ELSE d

\* An operation that is in the cache already gets its label; a newer one than
\* all others is appended; any other is left to the poller.
note_committed(d, c) ==
    LET at == {i \in DOMAIN d.ops : d.ops[i].key = c.key}
    IN  IF at # {} THEN [d EXCEPT !.ops = [i \in DOMAIN @ |->
                                             IF i \in at THEN [@[i] EXCEPT !.label = TRUE] ELSE @[i]]]
        ELSE IF c.version > d.version
        THEN [d EXCEPT !.ops = Append(@, c), !.text = Append(@, c.id), !.version = c.version]
        ELSE d

\* Every cached operation of the client is labelled from now on.
note_client_label(d, client) ==
    [d EXCEPT !.ops = [i \in DOMAIN @ |-> IF @[i].key[2] = client
                                          THEN [@[i] EXCEPT !.label = TRUE] ELSE @[i]]]

-----------------------------------------------------------------------------
(* The POST handlers, and the poller.                                      *)

\* A browser waits for the answer to one request before it repeats it. Up to
\* the co_await of submit_put the two handlers do the same.
PostBegin(p) ==
    /\ post[p] = "idle"
    /\ \A q \in Post : Key(q) = Key(p) => post[q] # "waiting"
    /\ post' = [post EXCEPT ![p] = "waiting"]
    /\ client_labels' = client_labels \cup {p.client}
    /\ cache' = note_client_label(cache, p.client)
    /\ UNCHANGED <<store, leader, stream, received>>

\* The version that submit_put returns, once a replica has executed the put.
PutVersion(p) == CHOOSE v \in DOMAIN order : order[v] = p

Answered(p) ==
    /\ post[p] = "waiting"
    /\ \E r \in Replica : p \in {order[v] : v \in 1..last_applied[r]}
    /\ leader' \in Replica
    /\ post' = [post EXCEPT ![p] = "done"]
    /\ UNCHANGED <<store, client_labels, stream, received>>

handle_post_op_doc(p) ==
    /\ p.kind = "op"
    /\ Answered(p)
    /\ cache' = note_committed(cache, [version |-> PutVersion(p), key |-> Key(p), id |-> p.id, label |-> TRUE])

handle_post_cursor_doc(p) ==
    /\ p.kind = "cursor"
    /\ Answered(p)
    /\ cache' = [cache EXCEPT !.cursors[p.client] = [version |-> PutVersion(p), id |-> p.id],
                              !.cursor_epoch = @ + 1]

\* submit_put has given up: the browser is told 504.
GatewayTimeout(p) ==
    /\ post[p] = "waiting"
    /\ post' = [post EXCEPT ![p] = "failed"]
    /\ UNCHANGED <<store, leader, cache, client_labels, stream, received>>

poll_doc_cache ==
    LET n == last_applied[leader]  \* current_db
    IN  /\ cache' = refresh_cursors_from_db(refresh_ops_from_db(cache, read_ops(n)), read_cursors(n))
        /\ UNCHANGED <<post, store, leader, client_labels, stream, received>>

-----------------------------------------------------------------------------
(* The replicas.                                                           *)

Execute(p) ==
    /\ post[p] # "idle"
    /\ p \notin Range(order)
    /\ order' = Append(order, p)
    /\ UNCHANGED <<post, last_applied, leader, cache, client_labels, stream, received>>

Apply(r) ==
    /\ last_applied[r] < Len(order)
    /\ last_applied' = [last_applied EXCEPT ![r] = @ + 1]
    /\ UNCHANGED <<post, order, leader, cache, client_labels, stream, received>>

-----------------------------------------------------------------------------
(* The streams.                                                            *)

\* Last-Event-ID: the id of the last frame the browser has got.
ResumeFrom(b) == LastVersion(received[b].ops)

OpenStream(b) ==
    /\ stream[b].pc = "closed"
    /\ stream' = [stream EXCEPT ![b] = [@ EXCEPT !.pc = "scan", !.last_seen = ResumeFrom(b),
                                                 !.last_cursor_epoch = 0, !.ops_snap = <<>>]]
    /\ UNCHANGED <<post, store, leader, cache, client_labels, received>>

\* A turn of the loop begins: the operations are copied.
StreamScan(b) ==
    /\ stream[b].pc = "scan"
    /\ stream' = [stream EXCEPT ![b] = [@ EXCEPT !.pc = "send", !.ops_snap = cache.ops]]
    /\ UNCHANGED <<post, store, leader, cache, client_labels, received>>

\* One frame of the copy, unless it was seen.
StreamOp(b) ==
    /\ stream[b].pc = "send"
    /\ stream[b].ops_snap # <<>>
    /\ LET c == Head(stream[b].ops_snap)
       IN  IF c.version <= stream[b].last_seen
           THEN /\ stream' = [stream EXCEPT ![b].ops_snap = Tail(@)]
                /\ UNCHANGED received
           ELSE /\ stream' = [stream EXCEPT ![b].ops_snap = Tail(@), ![b].last_seen = c.version]
                /\ received' = [received EXCEPT ![b].ops = Append(@, c)]
    /\ UNCHANGED <<post, store, leader, cache, client_labels>>

\* The end of a turn: all cursors, if some have changed, and a pause.
StreamCursors(b) ==
    /\ stream[b].pc = "send"
    /\ stream[b].ops_snap = <<>>
    /\ stream' = [stream EXCEPT ![b].pc = "scan", ![b].last_cursor_epoch = cache.cursor_epoch]
    /\ received' = IF cache.cursor_epoch = stream[b].last_cursor_epoch THEN received
                   ELSE [received EXCEPT ![b].cursors =
                           [c \in Client |-> IF cache.cursors[c] = NoCursor THEN @[c] ELSE cache.cursors[c]]]
    /\ UNCHANGED <<post, store, leader, cache, client_labels>>

\* A write fails; the browser connects again.
StreamBreak(b) ==
    /\ stream[b].pc = "send"
    /\ stream[b].drops < MaxDrops
    /\ stream' = [stream EXCEPT ![b].pc = "closed", ![b].drops = @ + 1]
    /\ UNCHANGED <<post, store, leader, cache, client_labels, received>>

handle_stream_doc(b) == OpenStream(b) \/ StreamScan(b) \/ StreamOp(b) \/ StreamCursors(b)

Next ==
    \/ \E p \in Post : PostBegin(p) \/ handle_post_op_doc(p) \/ handle_post_cursor_doc(p)
                       \/ GatewayTimeout(p) \/ Execute(p)
    \/ \E r \in Replica : Apply(r)
    \/ poll_doc_cache
    \/ \E b \in Browser : handle_stream_doc(b) \/ StreamBreak(b)

Spec == Init /\ [][Next]_vars

-----------------------------------------------------------------------------
(***************************************************************************)
(* The cache holds executed operations only, each under the version it     *)
(* has, no key twice, in the order of the versions; the text is what they  *)
(* make; and version_ is that of the last. Appending, rebuilding,          *)
(* resetting and note_committed keep this, in whatever order polls and     *)
(* answers come. An operation below version_ may be missing until the      *)
(* poller has found it: the text is then one that the document never had.  *)
(***************************************************************************)
CacheSound ==
    /\ cache.text = reconstruct(cache.ops)
    /\ cache.version = LastVersion(cache.ops)
    /\ \A i \in DOMAIN cache.ops :
         LET o == cache.ops[i]
         IN  /\ Key(order[o.version]) = o.key /\ order[o.version].id = o.id
             /\ \A j \in 1..(i - 1) : cache.ops[j].version < o.version /\ cache.ops[j].key # o.key

(***************************************************************************)
(* A browser gets the operations in ascending versions, also across a      *)
(* broken stream: a frame that it had is not sent to it again.             *)
(***************************************************************************)
StreamAscending ==
    \A b \in DOMAIN received : \A i \in DOMAIN received[b].ops : \A j \in 1..(i - 1) :
        received[b].ops[j].version < received[b].ops[i].version

(***************************************************************************)
(* The cache holds the operations and cursors that the replicas have       *)
(* decided on.  When no more puts are made it comes to that and stays:     *)
(* answers that come late or out of order, puts that were given up and     *)
(* executed, and a poll of a replica that lags do no lasting harm.         *)
(***************************************************************************)
CacheCurrent ==
    /\ cache.text = reconstruct(read_ops(Len(order)))
    /\ cache.cursors = read_cursors(Len(order))

(***************************************************************************)
(* The stream "emits any committed ops with version > last_seen" (the      *)
(* comment on handle_stream_doc): up to the last version that a browser    *)
(* has got, it has got every operation of the document.                    *)
(***************************************************************************)
StreamComplete ==
    \A b \in DOMAIN received : \A v \in Cells(Len(order), "op") :
        v <= LastVersion(received[b].ops) => \E o \in Range(received[b].ops) : o.version = v
=============================================================================
