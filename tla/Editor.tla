-------------------------------- MODULE Editor --------------------------------
(***************************************************************************)
(* The browser editor (editor.js): several browsers edit one document. A   *)
(* browser keeps the server's text as far as it knows it, and its own      *)
(* operations that are not yet committed; it posts these one at a time,    *)
(* learns of commits from its event stream and from the answers to its     *)
(* posts, and transforms its own operations against those of others.       *)
(*                                                                         *)
(* The server is taken at its best: its cache is current, and the stream   *)
(* brings every operation, in order, under its client's label. DocServer   *)
(* shows what the server adds to that.                                     *)
(***************************************************************************)
EXTENDS Integers, Sequences, SequencesExt

CONSTANTS Browser,
          Char,      \* the characters of a text
          MaxEdits,  \* bound: the number of operations of each browser
          Settings   \* under what a behaviour may run, records of
                     \*   texts     what a user may change the text to
                     \*   loads     bound: how often a browser loads the document
                     \*   ackFirst  may the answer to a post come before the stream has its operation?
                     \*   timeouts  bound: how many posts of a browser are answered with 504

ASSUME SettingsAssumption == \A s \in Settings : s.texts \subseteq Seq(Char)

VARIABLES ed,        \* per browser: its state s, its textarea, and its stream's last_seen
          posts,     \* POST /op requests under way
          committed, \* the operations in the order of their versions
          setting    \* one of Settings, for good

vars == <<ed, posts, committed, setting>>

None == -1

-----------------------------------------------------------------------------
(* Operations.                                                             *)

Insert(pos, text) == [type |-> "I", pos |-> pos, text |-> text]
Delete(pos, len)  == [type |-> "D", pos |-> pos, len |-> len]
Least(m, n) == IF m <= n THEN m ELSE n

applyOp(text, op) ==
    LET pos == Least(op.pos, Len(text))
    IN  IF op.type = "I"
        THEN SubSeq(text, 1, pos) \o op.text \o SubSeq(text, pos + 1, Len(text))
        ELSE SubSeq(text, 1, pos) \o SubSeq(text, pos + Least(op.len, Len(text) - pos) + 1, Len(text))

ApplyAll(text, ops) ==
    LET after[n \in 0..Len(ops)] == IF n = 0 THEN text ELSE applyOp(after[n - 1], ops[n])
    IN  after[Len(ops)]

transform(a, b) ==
    CASE a.type = "I" /\ b.type = "I" ->
           IF b.pos <= a.pos THEN Insert(a.pos + Len(b.text), a.text) ELSE a
      [] a.type = "I" /\ b.type = "D" ->
           IF a.pos <= b.pos THEN a
           ELSE IF a.pos >= b.pos + b.len THEN Insert(a.pos - b.len, a.text) ELSE Insert(0, <<>>)
      [] a.type = "D" /\ b.type = "I" ->
           IF b.pos >= a.pos + a.len THEN a
           ELSE IF b.pos <= a.pos THEN Delete(a.pos + Len(b.text), a.len)
           ELSE Delete(a.pos, a.len + Len(b.text))
      [] OTHER ->
           LET aEnd == a.pos + a.len
               bEnd == b.pos + b.len
           IN  IF aEnd <= b.pos THEN a
               ELSE IF a.pos >= bEnd THEN Delete(a.pos - b.len, a.len)
               ELSE IF a.pos >= b.pos /\ aEnd <= bEnd THEN Delete(0, 0)
               ELSE IF a.pos <= b.pos /\ aEnd >= bEnd THEN Delete(a.pos, a.len - b.len)
               ELSE IF a.pos < b.pos THEN Delete(a.pos, b.pos - a.pos)
               ELSE Delete(b.pos, aEnd - bEnd)

\* The length of the longest common prefix.
CommonPrefix(s, t) ==
    CHOOSE n \in 0..Least(Len(s), Len(t)) :
        /\ SubSeq(s, 1, n) = SubSeq(t, 1, n)
        /\ n < Least(Len(s), Len(t)) => s[n + 1] # t[n + 1]

\* Faulty variant: the common suffix may run into the common prefix.
MutantComputeDelta(old, new) ==
    LET i == CommonPrefix(old, new)
        j == CommonPrefix(Reverse(old), Reverse(new))
    IN  (IF Len(old) - j > i THEN <<Delete(i, Len(old) - j - i)>> ELSE <<>>)
          \o (IF Len(new) - j > i THEN <<Insert(i, SubSeq(new, i + 1, Len(new) - j))>> ELSE <<>>)

\* What turns the old text into the new one, between the common prefix and
\* the common suffix of the rest.
computeDelta(old, new) ==
    LET i      == CommonPrefix(old, new)
        j      == CommonPrefix(Reverse(SubSeq(old, i + 1, Len(old))), Reverse(SubSeq(new, i + 1, Len(new))))
        oldMid == SubSeq(old, i + 1, Len(old) - j)
        newMid == SubSeq(new, i + 1, Len(new) - j)
    IN  (IF oldMid = <<>> THEN <<>> ELSE <<Delete(i, Len(oldMid))>>)
          \o (IF newMid = <<>> THEN <<>> ELSE <<Insert(i, newMid)>>)

-----------------------------------------------------------------------------
(* The server.                                                             *)

\* The versions of the operations in the database: of one that was put twice
\* only the later.
Live(n) == {v \in 1..n : \A w \in (v + 1)..n :
                committed[w].client # committed[v].client \/ committed[w].seq # committed[v].seq}

\* The text they make; an operation that is not there any more adds nothing.
TextAt(n) ==
    ApplyAll(<<>>, [v \in 1..n |-> IF v \in Live(n) THEN committed[v].op ELSE Insert(0, <<>>)])

NextOf(b) == {v \in Live(Len(committed)) : v > ed[b].last_seen}

-----------------------------------------------------------------------------
(* A browser's state.                                                      *)

Start == [serverText |-> <<>>, pending |-> <<>>, mySeqs |-> {}, inflightSeq |-> None, nextSeq |-> 0,
          serverVersion |-> 0, es |-> FALSE, ta |-> <<>>, last_seen |-> 0, loads |-> 0, timeouts |-> 0]

Init ==
    /\ ed = [b \in Browser |-> Start]
    /\ posts = {}
    /\ committed = <<>>
    /\ setting \in Settings

fullText(e) == ApplyAll(e.serverText, [i \in DOMAIN e.pending |-> e.pending[i].op])

syncTextareaFromModel(e) == [e EXCEPT !.ta = fullText(e)]

\* Faulty variant: the next operation goes out while one is in flight.
MutantSendPendingFront(b, e, ps) ==
    LET ready == {i \in DOMAIN e.pending : e.pending[i].seq \notin e.mySeqs}
    IN  IF ready = {}
        THEN ed' = [ed EXCEPT ![b] = e] /\ posts' = ps
        ELSE LET p == e.pending[CHOOSE i \in ready : \A j \in ready : i <= j]
             IN  /\ ed' = [ed EXCEPT ![b] = [e EXCEPT !.inflightSeq = p.seq, !.mySeqs = @ \cup {p.seq}]]
                 /\ posts' = ps \cup {[client |-> b, seq |-> p.seq, op |-> p.op, st |-> "sent", version |-> 0]}

\* Faulty variant: the front operation is removed, but stays in flight.
MutantAckOwn(e, version, op) ==
    syncTextareaFromModel([e EXCEPT !.serverText = applyOp(@, op), !.pending = Tail(@),
                                    !.mySeqs = @ \ {Head(e.pending).seq}, !.serverVersion = version])

\* Faulty variant: an operation that was loaded with the text is applied again.
MutantStale(e, version) == version <= e.last_seen

\* Post the front of pending, unless something is in flight.
sendPendingFront(b, e, ps) ==
    IF e.inflightSeq # None \/ e.pending = <<>>
    THEN ed' = [ed EXCEPT ![b] = e] /\ posts' = ps
    ELSE LET p == Head(e.pending)
         IN  /\ ed' = [ed EXCEPT ![b] = [e EXCEPT !.inflightSeq = p.seq, !.mySeqs = @ \cup {p.seq}]]
             /\ posts' = ps \cup {[client |-> b, seq |-> p.seq, op |-> p.op, st |-> "sent", version |-> 0]}

\* An own operation has been committed as op under a version.
AckOwn(e, version, op) ==
    syncTextareaFromModel([e EXCEPT !.serverText = applyOp(@, op), !.pending = Tail(@), !.inflightSeq = None,
                                    !.mySeqs = @ \ {Head(e.pending).seq}, !.serverVersion = version])

\* The pending operations after an operation of another browser.
TransformPending(pending, op) ==
    [i \in DOMAIN pending |-> [pending[i] EXCEPT !.op = transform(pending[i].op, op)]]

\* What GET /doc/<id> has brought already, or a post's answer.
Stale(e, version) == version <= e.serverVersion

\* disconnect, up to the wait for GET /doc/<id>.
connect(b) ==
    /\ ed[b].loads < setting.loads
    /\ ed' = [ed EXCEPT ![b] = [ed[b] EXCEPT !.pending = <<>>, !.mySeqs = {}, !.inflightSeq = None,
                                             !.es = FALSE, !.loads = @ + 1]]
    /\ UNCHANGED <<posts, committed>>

\* The answer comes, and the stream is opened, which begins at version 0.
Loaded(b) ==
    /\ ~ed[b].es
    /\ ed[b].loads > 0
    /\ LET text == TextAt(Len(committed))
       IN  ed' = [ed EXCEPT ![b] = [@ EXCEPT !.serverText = text, !.ta = text, !.es = TRUE, !.last_seen = 0,
                                             !.serverVersion = Len(committed)]]
    /\ UNCHANGED <<posts, committed>>

\* The user has changed the text.
onInput(b) ==
    /\ ed[b].es
    /\ \E text \in setting.texts :
         LET e   == ed[b]
             ops == computeDelta(fullText(e), text)
         IN  /\ ops # <<>>
             /\ e.nextSeq + Len(ops) <= MaxEdits[b]
             /\ sendPendingFront(b, [e EXCEPT !.ta = text, !.nextSeq = @ + Len(ops),
                                              !.pending = @ \o [i \in DOMAIN ops |-> [seq |-> e.nextSeq + i - 1, op |-> ops[i]]]],
                                 posts)
    /\ UNCHANGED committed

\* The next frame of the stream.
handleSSEOp(b) ==
    /\ ed[b].es
    /\ NextOf(b) # {}
    /\ LET version == CHOOSE v \in NextOf(b) : \A w \in NextOf(b) : v <= w
           data    == committed[version]
           e       == [ed[b] EXCEPT !.last_seen = version]
       IN  IF Stale(ed[b], version)
           THEN ed' = [ed EXCEPT ![b] = e] /\ UNCHANGED posts
           ELSE IF e.pending # <<>> /\ data.client = b /\ data.seq = Head(e.pending).seq /\ data.seq \in e.mySeqs
           THEN sendPendingFront(b, AckOwn(e, version, data.op), posts)
           ELSE /\ ed' = [ed EXCEPT ![b] = syncTextareaFromModel(
                            [e EXCEPT !.pending = TransformPending(@, data.op),
                                      !.serverText = applyOp(@, data.op), !.serverVersion = version])]
                /\ UNCHANGED posts
    /\ UNCHANGED committed

-----------------------------------------------------------------------------
(* Posts.                                                                  *)

\* The server commits the operation of a post, also of one it has given up.
Commit(p) ==
    /\ p.st \in {"sent", "late"}
    /\ committed' = Append(committed, [client |-> p.client, seq |-> p.seq, op |-> p.op])
    /\ posts' = (posts \ {p}) \cup {[p EXCEPT !.st = "executed", !.version = Len(committed) + 1] : q \in {p.st} \cap {"sent"}}
    /\ UNCHANGED ed

\* The answer: the operation is committed, unless the stream has told already.
ackPostIfStillInflight(p) ==
    LET b == p.client
        e == ed[b]
    IN  /\ p.st = "executed"
        /\ setting.ackFirst \/ e.last_seen >= p.version \/ ~e.es
        /\ IF e.inflightSeq # p.seq THEN sendPendingFront(b, e, posts \ {p})
           ELSE IF Stale(e, p.version)
           THEN sendPendingFront(b, [e EXCEPT !.inflightSeq = None], posts \ {p})
           ELSE sendPendingFront(b, AckOwn(e, p.version, Head(e.pending).op), posts \ {p})
        /\ UNCHANGED committed

\* 504: the operation stays in front and is not in flight any more. The next
\* input sends it again; the put may yet be executed.
PostFailed(p) ==
    LET b    == p.client
        e    == [ed[b] EXCEPT !.timeouts = @ + 1]
        rest == (posts \ {p}) \cup {[p EXCEPT !.st = "late"]}
    IN  /\ ed[b].timeouts < setting.timeouts
        /\ p.st = "sent"
        /\ IF e.inflightSeq # p.seq THEN sendPendingFront(b, e, rest)
           ELSE ed' = [ed EXCEPT ![b] = [e EXCEPT !.mySeqs = @ \ {p.seq}, !.inflightSeq = None]] /\ posts' = rest
        /\ UNCHANGED committed

Next ==
    /\ \/ \E b \in Browser : connect(b) \/ Loaded(b) \/ onInput(b) \/ handleSSEOp(b)
       \/ \E p \in posts : Commit(p) \/ ackPostIfStillInflight(p) \/ PostFailed(p)
    /\ UNCHANGED setting

Spec == Init /\ [][Next]_vars

-----------------------------------------------------------------------------
(***************************************************************************)
(* One operation of a browser is in flight at a time, the front of those   *)
(* that are pending; these are in the order in which they were made, and   *)
(* only the one in flight waits for a commit. No order of answers, frames, *)
(* failures and new connections leaves an operation in flight that is not  *)
(* pending.                                                                *)
(***************************************************************************)
InflightIsFront ==
    \A b \in Browser :
        LET e == ed[b]
        IN  /\ e.inflightSeq # None => e.pending # <<>> /\ Head(e.pending).seq = e.inflightSeq
            /\ \A i \in DOMAIN e.pending : e.pending[i].seq = e.nextSeq - Len(e.pending) + i - 1
            /\ \A p, q \in posts : (p.client = b /\ q.client = b /\ p.st = "sent" /\ q.st = "sent") =>
                 p = q \/ \E r \in {p, q} : r.seq \notin e.mySeqs

(***************************************************************************)
(* What a user sees is the text of the server and the own pending          *)
(* operations: what computeDelta makes of an edit reproduces that edit.    *)
(***************************************************************************)
TextShown == \A b \in Browser : ed[b].es => ed[b].ta = fullText(ed[b])

(***************************************************************************)
(* As long as no answer to a post overtakes the stream, a browser's idea   *)
(* of the server's text is the text that the committed operations up to    *)
(* its version make.                                                       *)
(***************************************************************************)
ServerTextTrue ==
    \A b \in Browser : ed[b].es => ed[b].serverText = TextAt(ed[b].serverVersion)

\* The server's answers do not overtake its stream, and no post fails.
Ordered == ~setting.ackFirst /\ setting.timeouts = 0

(***************************************************************************)
(* What a user sees is the server's text and the own pending operations;   *)
(* and, where no answer overtakes the stream, the browser's idea of the    *)
(* server's text is what the committed operations up to its version make:  *)
(* no operation is applied twice or left out, whether it comes with the    *)
(* document, on the stream or as the answer to a post.                     *)
(***************************************************************************)
TextTrue == TextShown /\ (Ordered => ServerTextTrue)

(***************************************************************************)
(* No edit is forgotten: the operation in flight has a post that has yet   *)
(* to be answered, and while operations are pending one of them is in      *)
(* flight, so that no frame or answer is mistaken in a way that leaves     *)
(* them waiting for nothing.  (After a 504 they do wait, for the next      *)
(* input.)                                                                 *)
(***************************************************************************)
NoneForgotten ==
    \A b \in Browser :
        LET e == ed[b]
        IN  /\ e.inflightSeq # None =>
                 \E p \in posts : p.client = b /\ p.seq = e.inflightSeq /\ p.st # "late"
            /\ e.pending # <<>> /\ e.timeouts = 0 => e.inflightSeq # None

(***************************************************************************)
(* "A browser client that converges against a live server" (the writeup):  *)
(* when everything has been committed and delivered, all browsers show the *)
(* text of the server.                                                     *)
(***************************************************************************)
EditorsConverge ==
    (posts = {} /\ \A b \in Browser : ed[b].es /\ ed[b].pending = <<>> /\ NextOf(b) = {})
      => \A b \in Browser : ed[b].ta = TextAt(Len(committed))
=============================================================================
