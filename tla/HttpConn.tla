------------------------------ MODULE HttpConn ------------------------------
(***************************************************************************)
(* One connection of the HTTP server (http_server.cc, handle_connection    *)
(* and its helpers): the request head is read until its end is seen, the   *)
(* body until Content-Length bytes are there, the request is dispatched on *)
(* its method and path, and the response is written.  The network splits   *)
(* the request and the response in any way, also inside the blank line     *)
(* that ends the head, and the peer may stop or break off at any byte.     *)
(* The bytes of a request are the items the server looks for: its request  *)
(* line, CR, LF, the Content-Length header and the bytes of the body.      *)
(***************************************************************************)
EXTENDS Naturals, Sequences, FiniteSets

CONSTANTS
    Byte,       \* the bytes of a body
    Request,    \* the requests, records [method, path, length, body]
    MaxHead,    \* 64 * 1024 in the code: the largest head
    BufSize,    \* 2048 in the code: the most a read returns
    Response    \* bytes of a response

\* A peer announces the body that it has.
ASSUME RequestAssumption ==
    /\ \A r \in Request : r.body \in Seq(Byte) /\ r.length = Len(r.body)
    /\ MaxHead \in Nat /\ BufSize \in Nat /\ Response \in Nat

VARIABLES
    req,        \* the request the peer sends
    limit,      \* the bytes of it the peer sends before it stops
    fate,       \* how it stops: "eof" or "error"
    pc,         \* "head", "body", "write", "closed"; "stream" is DocServer's part
    taken,      \* bytes read off the connection
    buf,        \* head_buf
    body,       \* the body read so far
    handler,    \* the handler the request went to, "none" before
    off         \* bytes of the response written

connVars == <<req, limit, fate, pc, taken, buf, body, handler, off>>
peer == <<req, limit, fate>>

NoLength == 0

\* The bytes of a request: a Content-Length header only if it has a length.
HeadBytes(r) ==
    IF r.length = NoLength THEN <<"line", "CR", "LF", "CR", "LF">>
    ELSE <<"line", "CR", "LF", "length", "CR", "LF", "CR", "LF">>
Bytes(r) == HeadBytes(r) \o r.body

\* A path: "/doc/" with an id and a rest, or one of the fixed ones.
DocPath == [kind : {"doc"}, id : {"valid", "invalid"}, sub : {"", "op", "cursor", "stream", "else"}]
FixedPath == {"/", "/editor.html", "/editor.js", "/docs", "/debug/log", "/admin/fail/0", "/else"}
FixedPaths == [kind : {"fixed"}, name : FixedPath]
Path == DocPath \union FixedPaths

\* parse_doc_route: is it the path of a document?
parse_doc_route(path) == path.kind = "doc" /\ path.id = "valid"

\* A mutant: the document page answers for every path below it.
MutantDocPage(m, p) == parse_doc_route(p) /\ m = "GET"

\* The document itself, not one of the paths below it.
DocPage(m, p) == parse_doc_route(p) /\ m = "GET" /\ p.sub = ""

\* The tests of the chain of branches in handle_connection.
Matches(h, m, p) ==
    LET doc == parse_doc_route(p)
        fixed(names) == p.kind = "fixed" /\ p.name \in names
    IN CASE h = "get_doc"     -> DocPage(m, p)
         [] h = "debug_log"   -> m = "POST" /\ fixed({"/debug/log"})
         [] h = "post_op"     -> doc /\ m = "POST" /\ p.sub = "op"
         [] h = "post_cursor" -> doc /\ m = "POST" /\ p.sub = "cursor"
         [] h = "stream"      -> doc /\ m = "GET" /\ p.sub = "stream"
         [] h = "get_docs"    -> m = "GET" /\ fixed({"/docs"})
         [] h = "post_docs"   -> m = "POST" /\ fixed({"/docs"})
         [] h = "static"      -> m = "GET" /\ fixed({"/", "/editor.html", "/editor.js"})
         [] h = "preflight"   -> m = "OPTIONS"
         [] h = "admin_fail"  -> m = "POST" /\ fixed({"/admin/fail/0"})

Branches == <<"get_doc", "debug_log", "post_op", "post_cursor", "stream", "get_docs",
              "post_docs", "static", "preflight", "admin_fail">>

\* The first branch that matches, or the 404 of the last one.
Dispatch(m, p) ==
    LET hits == {i \in DOMAIN Branches : Matches(Branches[i], m, p)}
    IN IF hits = {} THEN "not_found" ELSE Branches[CHOOSE i \in hits : \A j \in hits : i <= j]

\* A mutant: the first line break is taken for the end of the head.
MutantHeadEnds(s) == {i \in 2..Len(s) : s[i] = "LF" /\ s[i - 1] = "CR"}

\* Where find("\r\n\r\n") can match, by the position of its last byte.
HeadEnds(s) ==
    {i \in 4..Len(s) : s[i] = "LF" /\ s[i - 1] = "CR" /\ s[i - 2] = "LF" /\ s[i - 3] = "CR"}

\* parse_request_line's body_offset.
BodyOffset(s) == CHOOSE i \in HeadEnds(s) : \A j \in HeadEnds(s) : i <= j

\* Content-Length, as find_header finds it in the head.
Want(s) == IF \E i \in 1..BodyOffset(s) : s[i] = "length" THEN req.length ELSE 0

ConnInit ==
    /\ req \in Request
    /\ limit \in 0..Len(Bytes(req))
    /\ fate \in {"eof", "error"}
    /\ pc = "head" /\ taken = 0 /\ buf = <<>> /\ body = <<>>
    /\ handler = "none" /\ off = 0

\* read_once returns n of the next bytes.
Chunk(n) == SubSeq(Bytes(req), taken + 1, taken + n)
CanRead(n) == n <= BufSize /\ taken + n <= limit

\* read_once returns 0 or an error: both end the loops.
ReadEnds == taken = limit

HeadComplete == HeadEnds(buf) # {} \/ Len(buf) > MaxHead

read_request_head(n) ==
    /\ pc = "head" /\ ~HeadComplete /\ CanRead(n)
    /\ buf' = buf \o Chunk(n)
    /\ taken' = taken + n
    /\ UNCHANGED <<peer, pc, body, handler, off>>

\* handle_connection after the head: nothing to parse, or on to the body.
parse_request_line ==
    /\ pc = "head"
    /\ ~HeadComplete => ReadEnds
    /\ IF HeadEnds(buf) = {}
       THEN pc' = "closed" /\ UNCHANGED body
       ELSE /\ pc' = "body"
            /\ body' = SubSeq(buf, BodyOffset(buf) + 1, Len(buf))
    /\ UNCHANGED <<peer, taken, buf, handler, off>>

\* A mutant: one byte less is enough.
MutantBodyMissing == Len(body) + 1 < Want(buf)

BodyMissing == Len(body) < Want(buf)

read_body(n) ==
    /\ pc = "body" /\ BodyMissing /\ CanRead(n)
    /\ body' = body \o Chunk(n)
    /\ taken' = taken + n
    /\ UNCHANGED <<peer, pc, buf, handler, off>>

ReadBodyFails ==
    /\ pc = "body" /\ BodyMissing /\ ReadEnds
    /\ pc' = "closed"
    /\ UNCHANGED <<peer, taken, buf, body, handler, off>>

handle_connection ==
    /\ pc = "body" /\ ~BodyMissing
    /\ handler' = Dispatch(req.method, req.path)
    /\ pc' = IF handler' = "stream" THEN "stream" ELSE "write"
    /\ UNCHANGED <<peer, taken, buf, body, off>>

\* write_once takes n bytes of the response.
write_all(n) ==
    /\ pc = "write" /\ off + n <= Response
    /\ off' = off + n
    /\ pc' = IF off' = Response THEN "closed" ELSE "write"
    /\ UNCHANGED <<peer, taken, buf, body, handler>>

\* write_once fails, or takes nothing.
WriteFails ==
    /\ pc = "write"
    /\ pc' = "closed"
    /\ UNCHANGED <<peer, taken, buf, body, handler, off>>

ConnNext ==
    \/ \E n \in 1..BufSize : read_request_head(n) \/ read_body(n)
    \/ parse_request_line \/ ReadBodyFails \/ handle_connection
    \/ \E n \in 1..Response : write_all(n)
    \/ WriteFails

ConnSpec == ConnInit /\ [][ConnNext]_connVars
-----------------------------------------------------------------------------
\* However the network splits the request, a handler gets the whole body, neither
\* a byte of the head nor a missing one, and only of a request that came whole.
DispatchExact ==
    handler # "none" => limit = Len(Bytes(req)) /\ body = req.body

\* The order of the branches of handle_connection does not matter: no request
\* matches two of them.
RoutesDisjoint ==
    handler # "none" =>
        Cardinality({i \in DOMAIN Branches : Matches(Branches[i], req.method, req.path)}) <= 1

\* A handler gets the whole body of a whole request, however the network splits
\* it, and no request has two handlers.
RequestsHandled == DispatchExact /\ RoutesDisjoint
=============================================================================
