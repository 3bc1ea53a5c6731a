----------------------------- MODULE EditorProofs -----------------------------
(***************************************************************************)
(* What a browser holds about its own operations and about the server's    *)
(* text, for every number of browsers, every set of texts and every bound  *)
(* of Editor.                                                              *)
(*                                                                         *)
(* The browser numbers its operations and posts them one by one.  Two      *)
(* numbers tell it where it is: nextSeq, and Base, the number of the front *)
(* of pending.  The posts below Base are history; at or above Base there   *)
(* is at most one that still waits for its answer, and it is the one in    *)
(* flight.  That is what the two properties of the run rest on, and what   *)
(* frames, answers, failures and new connections all have to keep.         *)
(*                                                                         *)
(* That the textarea shows the server's text and what is pending rests on  *)
(* computeDelta, and on what ApplyAll, a recursive function, makes of more *)
(* operations.  That the server's text is right rests on the order of      *)
(* things: when the operation in flight is committed, the browser is at an *)
(* earlier version, and learns of it from the stream.                      *)
(***************************************************************************)
EXTENDS Editor, SequenceTheorems, WellFoundedInduction, TLAPS

EdFields == {"serverText", "pending", "mySeqs", "inflightSeq", "nextSeq", "serverVersion", "es", "ta",
             "last_seen", "loads", "timeouts"}

\* The number of the front of pending, or of the next operation.
Base(e) == e.nextSeq - Len(e.pending)

\* The pending operations are numbered one after the other, up to nextSeq.
PendingGood(e) ==
    /\ e.pending \in Seq(Range(e.pending))
    /\ e.nextSeq \in Nat
    /\ Len(e.pending) <= e.nextSeq
    /\ \A i \in 1..Len(e.pending) : DOMAIN e.pending[i] = {"seq", "op"}
    /\ \A i \in 1..Len(e.pending) : e.pending[i].seq = Base(e) + i - 1

\* Only the front can wait for its commit, and only the front is in flight.
FrontGood(e) ==
    /\ e.mySeqs \subseteq {Base(e)}
    /\ e.pending = <<>> => e.mySeqs = {}
    /\ e.inflightSeq # None => e.inflightSeq = Base(e) /\ e.pending # <<>>

\* What is posted has a number, and at or above Base only the operation in
\* flight has a post that waits for an answer.
PostsGood(b, e, ps) ==
    \A p \in ps : p.client = b =>
        /\ p.seq < e.nextSeq
        /\ p.st # "late" /\ p.seq >= Base(e) => e.inflightSeq = p.seq

\* The operation in flight has a post that waits for an answer.
Waiting(b, e, ps) ==
    e.inflightSeq # None => \E p \in ps : p.client = b /\ p.seq = e.inflightSeq /\ p.st # "late"

Good(b, e, ps) ==
    /\ DOMAIN e = EdFields
    /\ e.timeouts \in Nat
    /\ PendingGood(e)
    /\ FrontGood(e)
    /\ PostsGood(b, e, ps)
    /\ Waiting(b, e, ps)

\* Without a 504, an operation is in flight while some are pending.
Asking(e) == e.pending # <<>> /\ e.timeouts = 0 => e.inflightSeq # None

PostTypes(ps) ==
    \A p \in ps : /\ DOMAIN p = {"client", "seq", "op", "st", "version"}
                  /\ p.client \in Browser
                  /\ p.seq \in Nat

\* Of one operation, at most one post waits for its answer.
OneAnswer(ps) ==
    \A p, q \in ps : p.st # "late" /\ q.st # "late" /\ p.client = q.client /\ p.seq = q.seq => p = q

EditorInv ==
    /\ DOMAIN ed = Browser
    /\ PostTypes(posts)
    /\ OneAnswer(posts)
    /\ \A b \in Browser : Good(b, ed[b], posts) /\ Asking(ed[b])

-----------------------------------------------------------------------------
(* Sequences.                                                              *)

\* A sequence is one over its own elements.
LEMMA OwnRange ==
    ASSUME NEW S, NEW s \in Seq(S)
    PROVE  s \in Seq(Range(s)) /\ DOMAIN s = 1..Len(s) /\ Len(s) \in Nat
  <1>1. Len(s) \in Nat /\ DOMAIN s = 1..Len(s) /\ s = [i \in 1..Len(s) |-> s[i]]
    OBVIOUS
  <1>2. \A i \in 1..Len(s) : s[i] \in Range(s)
    BY <1>1 DEF Range
  <1>3. s \in [1..Len(s) -> Range(s)]
    BY <1>1, <1>2
  <1> QED  BY <1>1, <1>3

\* What an edit adds to pending is a sequence of at most two operations.
LEMMA DeltaLen ==
    ASSUME NEW old, NEW new
    PROVE  Len(computeDelta(old, new)) \in Nat /\ DOMAIN computeDelta(old, new) = 1..Len(computeDelta(old, new))
  <1> DEFINE i == CommonPrefix(old, new)
             j == CommonPrefix(Reverse(SubSeq(old, i + 1, Len(old))), Reverse(SubSeq(new, i + 1, Len(new))))
             oldMid == SubSeq(old, i + 1, Len(old) - j)
             newMid == SubSeq(new, i + 1, Len(new) - j)
             d == IF oldMid = <<>> THEN <<>> ELSE <<Delete(i, Len(oldMid))>>
             n == IF newMid = <<>> THEN <<>> ELSE <<Insert(i, newMid)>>
  <1> DEFINE S == {Delete(i, Len(oldMid)), Insert(i, newMid)}
  <1>1. computeDelta(old, new) = d \o n
    BY DEF computeDelta
  <1>2. Delete(i, Len(oldMid)) \in S /\ Insert(i, newMid) \in S
    OBVIOUS
  <1> HIDE DEF S, i, j, oldMid, newMid
  <1>3. d \in Seq(S) /\ n \in Seq(S)
    BY <1>2
  <1> HIDE DEF d, n
  <1>4. d \o n \in Seq(S)
    BY <1>3
  <1> QED  BY <1>1, <1>4

\* The pending operations after an edit.
LEMMA PendingExtended ==
    ASSUME NEW e, PendingGood(e), NEW ops, Len(ops) \in Nat, DOMAIN ops = 1..Len(ops), NEW f,
           f.nextSeq = e.nextSeq + Len(ops),
           f.pending = e.pending \o [i \in DOMAIN ops |-> [seq |-> e.nextSeq + i - 1, op |-> ops[i]]]
    PROVE  /\ PendingGood(f)
           /\ Base(f) = Base(e)
           /\ f.pending = <<>> => e.pending = <<>>
  <1> DEFINE s == e.pending
             t == [i \in DOMAIN ops |-> [seq |-> e.nextSeq + i - 1, op |-> ops[i]]]
  <1>1. /\ s \in Seq(Range(s)) /\ e.nextSeq \in Nat /\ Len(s) <= e.nextSeq
        /\ \A i \in 1..Len(s) : s[i].seq = e.nextSeq - Len(s) + i - 1
    BY DEF PendingGood, Base
  <1>1a. \A i \in 1..Len(s) : DOMAIN s[i] = {"seq", "op"}
    BY DEF PendingGood
  <1>2. /\ DOMAIN t = 1..Len(ops)
        /\ \A i \in 1..Len(ops) : t[i].seq = e.nextSeq + i - 1
        /\ \A i \in 1..Len(ops) : DOMAIN t[i] = {"seq", "op"}
    OBVIOUS
  <1>3. t \in [1..Len(ops) -> Range(t)]
    BY DEF Range
  <1>4. t \in Seq(Range(t)) /\ Len(t) = Len(ops)
    BY <1>3
  <1>5. f.pending = s \o t
    OBVIOUS
  <1> HIDE DEF s, t
  <1> DEFINE S == Range(s) \cup Range(t)
  <1>6. s \in Seq(S) /\ t \in Seq(S)
    BY <1>1, <1>4
  <1>6a. Len(s) \in Nat /\ Len(t) \in Nat
    BY <1>6
  <1>7. /\ s \o t \in Seq(S)
        /\ Len(s \o t) = Len(s) + Len(t)
        /\ \A i \in 1..(Len(s) + Len(t)) : (s \o t)[i] = IF i <= Len(s) THEN s[i] ELSE t[i - Len(s)]
    <2> HIDE DEF S
    <2> QED  BY <1>6
  <1>8. s \o t \in Seq(Range(s \o t))
    BY <1>7, OwnRange
  <1>9. \A i \in 1..Len(s \o t) : (s \o t)[i].seq = e.nextSeq - Len(s) + i - 1
    <2> TAKE i \in 1..Len(s \o t)
    <2>1. CASE i <= Len(s)
      BY <2>1, <1>1, <1>4, <1>6a, <1>7
    <2>2. CASE i > Len(s)
      <3>1. i - Len(s) \in 1..Len(ops)
        BY <2>2, <1>4, <1>6a, <1>7
      <3>2. t[i - Len(s)].seq = e.nextSeq + (i - Len(s)) - 1
        BY <3>1, <1>2
      <3> QED  BY <2>2, <3>2, <1>1, <1>4, <1>6a, <1>7
    <2> QED  BY <2>1, <2>2, <1>6a
  <1>9a. \A i \in 1..Len(s \o t) : DOMAIN (s \o t)[i] = {"seq", "op"}
    <2> TAKE i \in 1..Len(s \o t)
    <2>1. CASE i <= Len(s)
      BY <2>1, <1>1a, <1>4, <1>6a, <1>7
    <2>2. CASE i > Len(s)
      <3>1. i - Len(s) \in 1..Len(ops)
        BY <2>2, <1>4, <1>6a, <1>7
      <3>2. DOMAIN t[i - Len(s)] = {"seq", "op"}
        BY <3>1, <1>2
      <3> QED  BY <2>2, <3>2, <1>4, <1>6a, <1>7
    <2> QED  BY <2>1, <2>2, <1>6a
  <1>10. f.nextSeq - Len(s \o t) = e.nextSeq - Len(s)
    BY <1>1, <1>4, <1>6a, <1>7
  <1>11. s \o t = <<>> => s = <<>>
    BY <1>6, <1>6a, <1>7
  <1>12. Len(s \o t) <= f.nextSeq /\ f.nextSeq \in Nat
    BY <1>1, <1>4, <1>6a, <1>7
  <1>13. Base(f) = f.nextSeq - Len(s \o t)
    BY <1>5 DEF Base
  <1>14. Base(e) = e.nextSeq - Len(s)
    BY DEF Base, s
  <1>15. \A i \in 1..Len(f.pending) : f.pending[i].seq = Base(f) + i - 1
    BY <1>5, <1>9, <1>10, <1>13
  <1>16. PendingGood(f)
    BY <1>5, <1>8, <1>9a, <1>12, <1>15 DEF PendingGood
  <1> QED  BY <1>5, <1>10, <1>11, <1>13, <1>14, <1>16 DEF s

\* The pending operations after the front was committed.
LEMMA PendingShortened ==
    ASSUME NEW e, PendingGood(e), e.pending # <<>>, NEW f,
           f.nextSeq = e.nextSeq, f.pending = Tail(e.pending)
    PROVE  /\ PendingGood(f)
           /\ Base(f) = Base(e) + 1
           /\ Head(e.pending).seq = Base(e)
  <1> DEFINE s == e.pending
             S == Range(s)
  <1>1. /\ s \in Seq(S) /\ e.nextSeq \in Nat /\ Len(s) <= e.nextSeq
        /\ \A i \in 1..Len(s) : s[i].seq = e.nextSeq - Len(s) + i - 1
        /\ s # <<>>
    BY DEF PendingGood, Base
  <1>1a. \A i \in 1..Len(s) : DOMAIN s[i] = {"seq", "op"}
    BY DEF PendingGood
  <1>2. f.pending = Tail(s)
    OBVIOUS
  <1>3. Base(e) = e.nextSeq - Len(s)
    BY DEF Base
  <1> HIDE DEF s, S
  <1>4. /\ Len(s) \in Nat /\ Len(s) > 0
        /\ Tail(s) \in Seq(S) /\ Len(Tail(s)) = Len(s) - 1
        /\ \A i \in 1..(Len(s) - 1) : Tail(s)[i] = s[i + 1]
        /\ Head(s) = s[1]
    BY <1>1
  <1>5. Tail(s) \in Seq(Range(Tail(s)))
    BY <1>4, OwnRange
  <1> DEFINE n == Len(s)
             m == Len(f.pending)
  <1>5a. n \in Nat /\ n > 0 /\ m = n - 1 /\ e.nextSeq \in Nat /\ n <= e.nextSeq
    BY <1>1, <1>2, <1>4
  <1>5b. Base(f) = e.nextSeq - m
    BY DEF Base
  <1> HIDE DEF n, m
  <1>6. Base(f) = e.nextSeq - n + 1
    BY <1>5a, <1>5b
  <1>7. \A i \in 1..Len(f.pending) : f.pending[i].seq = Base(f) + i - 1
    <2> SUFFICES ASSUME NEW i \in 1..m PROVE f.pending[i].seq = Base(f) + i - 1
      BY DEF m
    <2>1. i \in Nat /\ i + 1 \in 1..n /\ i \in 1..(n - 1)
      BY <1>5a
    <2>2. f.pending[i].seq = s[i + 1].seq
      BY <2>1, <1>2, <1>4 DEF n
    <2>3. s[i + 1].seq = e.nextSeq - n + (i + 1) - 1
      BY <2>1, <1>1 DEF n
    <2>4. Base(f) + i - 1 = e.nextSeq - n + (i + 1) - 1
      BY <2>1, <1>5a, <1>6
    <2> QED  BY <2>2, <2>3, <2>4
  <1>7a. \A i \in 1..Len(f.pending) : DOMAIN f.pending[i] = {"seq", "op"}
    <2> SUFFICES ASSUME NEW i \in 1..m PROVE DOMAIN f.pending[i] = {"seq", "op"}
      BY DEF m
    <2>1. i \in Nat /\ i + 1 \in 1..n /\ i \in 1..(n - 1)
      BY <1>5a
    <2> QED  BY <2>1, <1>1a, <1>2, <1>4 DEF n
  <1>8. Len(f.pending) <= f.nextSeq /\ f.nextSeq \in Nat
    BY <1>5a DEF m
  <1>9. PendingGood(f)
    BY <1>2, <1>5, <1>7, <1>7a, <1>8 DEF PendingGood
  <1>10. Head(s).seq = e.nextSeq - Len(s)
    BY <1>1, <1>4
  <1> QED  BY <1>3, <1>6, <1>9, <1>10 DEF s, n

\* The pending operations after they were transformed: their numbers stay.
LEMMA PendingTransformed ==
    ASSUME NEW e, PendingGood(e), NEW op, NEW f, f.nextSeq = e.nextSeq,
           f.pending = TransformPending(e.pending, op)
    PROVE  /\ PendingGood(f)
           /\ Base(f) = Base(e)
           /\ f.pending = <<>> <=> e.pending = <<>>
  <1> DEFINE s == e.pending
             t == f.pending
  <1>1. /\ s \in Seq(Range(s)) /\ e.nextSeq \in Nat /\ Len(s) <= e.nextSeq
        /\ \A i \in 1..Len(s) : s[i].seq = e.nextSeq - Len(s) + i - 1
    BY DEF PendingGood, Base
  <1>2. Len(s) \in Nat /\ DOMAIN s = 1..Len(s)
    BY <1>1
  <1>3. DOMAIN t = 1..Len(s) /\ t = [i \in 1..Len(s) |-> t[i]]
    BY <1>2 DEF TransformPending
  <1>4. \A i \in 1..Len(s) : t[i].seq = s[i].seq /\ DOMAIN t[i] = {"seq", "op"}
    <2> TAKE i \in 1..Len(s)
    <2>1. t[i] = [s[i] EXCEPT !.op = transform(s[i].op, op)]
      BY <1>2 DEF TransformPending
    <2>2. DOMAIN s[i] = {"seq", "op"}
      BY DEF PendingGood
    <2> QED  BY <2>1, <2>2
  <1>5. Base(e) = e.nextSeq - Len(s) /\ Base(f) = e.nextSeq - Len(t)
    BY DEF Base
  <1> HIDE DEF s, t
  <1>6. t \in [1..Len(s) -> Range(t)]
    BY <1>3 DEF Range
  <1>7. t \in Seq(Range(t)) /\ Len(t) = Len(s)
    BY <1>2, <1>6
  <1>8. \A i \in 1..Len(t) : t[i].seq = Base(f) + i - 1
    BY <1>1, <1>4, <1>5, <1>7
  <1>8a. \A i \in 1..Len(t) : DOMAIN t[i] = {"seq", "op"}
    BY <1>4, <1>7
  <1>9. t = <<>> <=> s = <<>>
    BY <1>1, <1>7
  <1> QED  BY <1>1, <1>5, <1>7, <1>8, <1>8a, <1>9 DEF PendingGood, s, t

-----------------------------------------------------------------------------
(* The posts.                                                              *)

\* A post that is answered, committed or given up concerns no other browser.
LEMMA OthersKept ==
    ASSUME NEW c, NEW e, NEW ps, NEW qs, Good(c, e, ps),
           \A q \in qs : q.client = c => q \in ps,
           \A q \in ps : q.client = c => q \in qs
    PROVE  Good(c, e, qs)
  <1>1. DOMAIN e = EdFields /\ e.timeouts \in Nat /\ PendingGood(e) /\ FrontGood(e)
    BY DEF Good
  <1>2. PostsGood(c, e, qs)
    BY Zenon DEF Good, PostsGood
  <1>3. Waiting(c, e, qs)
    BY Zenon DEF Good, Waiting
  <1> QED  BY <1>1, <1>2, <1>3 DEF Good

\* The front of pending has the number Base.
LEMMA FrontSeq ==
    ASSUME NEW e, PendingGood(e), e.pending # <<>>
    PROVE  /\ Head(e.pending).seq = Base(e)
           /\ Base(e) \in Nat
           /\ Base(e) < e.nextSeq
  <1> DEFINE s == e.pending
  <1>1. /\ s \in Seq(Range(s)) /\ e.nextSeq \in Nat /\ Len(s) <= e.nextSeq /\ s # <<>>
        /\ \A i \in 1..Len(s) : s[i].seq = e.nextSeq - Len(s) + i - 1
    BY DEF PendingGood, Base
  <1>2. Base(e) = e.nextSeq - Len(s)
    BY DEF Base
  <1> HIDE DEF s
  <1>3. Head(s) = s[1] /\ Len(s) \in Nat /\ Len(s) > 0
    BY <1>1
  <1>3a. 1 \in 1..Len(s)
    BY <1>3
  <1>4. s[1].seq = e.nextSeq - Len(s) + 1 - 1
    BY <1>1, <1>3a, Zenon
  <1> QED  BY <1>1, <1>2, <1>3, <1>4 DEF s

\* sendPendingFront, called on any browser state and posts that are good
\* except that nothing may be in flight, leaves the invariant.
LEMMA SendKeeps ==
    ASSUME NEW b \in Browser, NEW e, NEW ps,
           DOMAIN ed = Browser, PostTypes(ps), OneAnswer(ps), Good(b, e, ps),
           \A c \in Browser \ {b} : Good(c, ed[c], ps) /\ Asking(ed[c]),
           sendPendingFront(b, e, ps)
    PROVE  EditorInv'
  <1>0. /\ DOMAIN e = EdFields /\ e.timeouts \in Nat /\ PendingGood(e) /\ FrontGood(e)
        /\ PostsGood(b, e, ps) /\ Waiting(b, e, ps)
    BY DEF Good
  <1>1. CASE e.inflightSeq # None \/ e.pending = <<>>
    <2>1. ed' = [ed EXCEPT ![b] = e] /\ posts' = ps
      BY <1>1, Zenon DEF sendPendingFront
    <2>2. DOMAIN ed' = Browser /\ ed'[b] = e /\ \A c \in Browser \ {b} : ed'[c] = ed[c]
      BY <2>1
    <2>3. Asking(e)
      BY <1>1, Zenon DEF Asking
    <2>4. \A c \in Browser : Good(c, ed'[c], ps) /\ Asking(ed'[c])
      BY <2>2, <2>3, Zenon
    <2> QED  BY <2>1, <2>2, <2>4, Zenon DEF EditorInv
  <1>2. CASE ~(e.inflightSeq # None \/ e.pending = <<>>)
    <2> DEFINE p == Head(e.pending)
               r == [client |-> b, seq |-> p.seq, op |-> p.op, st |-> "sent", version |-> 0]
               f == [e EXCEPT !.inflightSeq = p.seq, !.mySeqs = @ \cup {p.seq}]
               qs == ps \cup {r}
    <2>1. ed' = [ed EXCEPT ![b] = f] /\ posts' = qs
      BY <1>2, Zenon DEF sendPendingFront
    <2>2. p.seq = Base(e) /\ Base(e) \in Nat /\ Base(e) < e.nextSeq /\ e.nextSeq \in Nat
      BY <1>0, <1>2, FrontSeq DEF PendingGood
    <2>3. /\ DOMAIN f = EdFields /\ f.inflightSeq = p.seq /\ f.mySeqs = e.mySeqs \cup {p.seq}
          /\ f.pending = e.pending /\ f.nextSeq = e.nextSeq /\ f.timeouts = e.timeouts
      BY <1>0 DEF EdFields
    <2>4. /\ DOMAIN r = {"client", "seq", "op", "st", "version"}
          /\ r.client = b /\ r.seq = p.seq /\ r.st = "sent"
      OBVIOUS
    <2> HIDE DEF p, r, f
    <2>5. DOMAIN ed' = Browser /\ ed'[b] = f /\ \A c \in Browser \ {b} : ed'[c] = ed[c]
      BY <2>1
    <2>6. PostTypes(qs)
      BY <2>2, <2>4, Zenon DEF PostTypes
    <2>7. \A q \in ps : q.client = b /\ q.st # "late" => q.seq < Base(e)
      <3> SUFFICES ASSUME NEW q \in ps, q.client = b, q.st # "late", ~(q.seq < Base(e)) PROVE FALSE
        OBVIOUS
      <3>1. q.seq \in Nat
        BY DEF PostTypes
      <3>2. q.seq >= Base(e)
        BY <3>1, <2>2
      <3>3. e.inflightSeq = q.seq
        BY <3>2, <1>0, Zenon DEF PostsGood
      <3>4. e.inflightSeq = -1
        BY <1>2 DEF None
      <3> QED  BY <3>1, <3>3, <3>4
    <2>8. OneAnswer(qs)
      <3> SUFFICES ASSUME NEW x \in qs, NEW y \in qs, x.st # "late", y.st # "late", x.client = y.client, x.seq = y.seq
                   PROVE  x = y
        BY Zenon DEF OneAnswer
      <3>1. CASE x \in ps /\ y \in ps
        BY <3>1, Zenon DEF OneAnswer
      <3>2. CASE x = r /\ y \in ps
        <4>1. y.seq < Base(e) /\ y.seq = Base(e)
          BY <3>2, <2>2, <2>4, <2>7, Zenon
        <4> QED  BY <4>1, <2>2
      <3>3. CASE x \in ps /\ y = r
        <4>1. x.seq < Base(e) /\ x.seq = Base(e)
          BY <3>3, <2>2, <2>4, <2>7, Zenon
        <4> QED  BY <4>1, <2>2
      <3> QED  BY <3>1, <3>2, <3>3
    <2>9. Good(b, f, qs)
      <3>1. Base(f) = Base(e)
        BY <2>3 DEF Base
      <3>2. PendingGood(f)
        BY <1>0, <2>3, <3>1, Zenon DEF PendingGood
      <3>3. FrontGood(f)
        BY <1>0, <1>2, <2>2, <2>3, <3>1 DEF FrontGood
      <3>4. PostsGood(b, f, qs)
        <4> SUFFICES ASSUME NEW q \in qs, q.client = b
                     PROVE  /\ q.seq < f.nextSeq
                            /\ q.st # "late" /\ q.seq >= Base(f) => f.inflightSeq = q.seq
          BY Zenon DEF PostsGood
        <4>1. CASE q \in ps
          <5>1. q.seq < e.nextSeq /\ q.seq \in Nat
            BY <4>1, <1>0 DEF PostsGood, PostTypes
          <5>2. q.st # "late" => q.seq < Base(e)
            BY <4>1, <2>7
          <5> QED  BY <5>1, <5>2, <2>2, <2>3, <3>1
        <4>2. CASE q = r
          BY <4>2, <2>2, <2>3, <2>4
        <4> QED  BY <4>1, <4>2
      <3>5. Waiting(b, f, qs)
        BY <2>3, <2>4, Zenon DEF Waiting
      <3> QED  BY <1>0, <2>3, <3>2, <3>3, <3>4, <3>5 DEF Good
    <2>10. Asking(f)
      BY <2>2, <2>3 DEF Asking, None
    <2>11. \A c \in Browser \ {b} : Good(c, ed[c], qs)
      <3> TAKE c \in Browser \ {b}
      <3>1. \A q \in qs : q.client = c => q \in ps
        BY <2>4
      <3> QED  BY <3>1, OthersKept
    <2>12. \A c \in Browser : Good(c, ed'[c], qs) /\ Asking(ed'[c])
      <3> TAKE c \in Browser
      <3>1. CASE c = b
        BY <3>1, <2>5, <2>9, <2>10
      <3>2. CASE c # b
        BY <3>2, <2>5, <2>11
      <3> QED  BY <3>1, <3>2
    <2> HIDE DEF qs
    <2> QED  BY <2>1, <2>5, <2>6, <2>8, <2>12, Zenon DEF EditorInv
  <1> QED  BY <1>1, <1>2

-----------------------------------------------------------------------------
(* The steps.                                                              *)

\* connect drops what is pending; the posts under way are below nextSeq.
LEMMA ConnectKeeps ==
    ASSUME EditorInv, NEW b \in Browser, connect(b)
    PROVE  EditorInv'
  <1> DEFINE e == ed[b]
  <1> DEFINE f == [e EXCEPT !.pending = <<>>, !.mySeqs = {}, !.inflightSeq = None, !.es = FALSE,
                            !.loads = e.loads + 1]
  <1>1. ed' = [ed EXCEPT ![b] = f] /\ posts' = posts
    BY DEF connect
  <1>2. DOMAIN e = EdFields /\ e.timeouts \in Nat /\ PendingGood(e) /\ PostsGood(b, e, posts)
    BY DEF EditorInv, Good
  <1>3. /\ DOMAIN f = EdFields /\ f.pending = <<>> /\ f.mySeqs = {} /\ f.inflightSeq = None
        /\ f.nextSeq = e.nextSeq /\ f.timeouts = e.timeouts
    BY <1>2 DEF EdFields
  <1>4. DOMAIN ed' = Browser /\ ed'[b] = f /\ \A c \in Browser \ {b} : ed'[c] = ed[c]
    BY <1>1 DEF EditorInv
  <1> HIDE DEF e, f
  <1>5. Base(f) = f.nextSeq /\ f.nextSeq \in Nat
    BY <1>2, <1>3 DEF Base, PendingGood
  <1>6. PendingGood(f)
    BY <1>3, <1>5 DEF PendingGood
  <1>7. FrontGood(f) /\ Waiting(b, f, posts) /\ Asking(f)
    BY <1>3 DEF FrontGood, Waiting, Asking
  <1>8. PostsGood(b, f, posts)
    <2> SUFFICES ASSUME NEW p \in posts, p.client = b PROVE p.seq < f.nextSeq /\ ~(p.seq >= Base(f))
      BY Zenon DEF PostsGood
    <2>1. p.seq < e.nextSeq /\ p.seq \in Nat
      BY <1>2 DEF PostsGood, EditorInv, PostTypes
    <2> QED  BY <2>1, <1>3, <1>5
  <1>9. Good(b, f, posts)
    BY <1>2, <1>3, <1>6, <1>7, <1>8 DEF Good
  <1>10. \A c \in Browser : Good(c, ed'[c], posts) /\ Asking(ed'[c])
    BY <1>4, <1>7, <1>9, Zenon DEF EditorInv
  <1> QED  BY <1>1, <1>4, <1>10, Zenon DEF EditorInv

\* A step that leaves what the invariant is about alone.
LEMMA AsideKeeps ==
    ASSUME EditorInv, NEW b \in Browser, NEW f, DOMAIN f = EdFields,
           f.pending = ed[b].pending, f.mySeqs = ed[b].mySeqs, f.inflightSeq = ed[b].inflightSeq,
           f.nextSeq = ed[b].nextSeq, f.timeouts = ed[b].timeouts,
           ed' = [ed EXCEPT ![b] = f], posts' = posts
    PROVE  EditorInv'
  <1>1. DOMAIN ed' = Browser /\ ed'[b] = f /\ \A c \in Browser \ {b} : ed'[c] = ed[c]
    BY DEF EditorInv
  <1>2. Good(b, ed[b], posts) /\ Asking(ed[b])
    BY DEF EditorInv
  <1>3. Good(b, f, posts) /\ Asking(f)
    BY <1>2, Zenon DEF Good, PendingGood, FrontGood, PostsGood, Waiting, Asking, Base
  <1>4. \A c \in Browser : Good(c, ed'[c], posts) /\ Asking(ed'[c])
    BY <1>1, <1>3, Zenon DEF EditorInv
  <1> QED  BY <1>1, <1>4, Zenon DEF EditorInv

LEMMA LoadedKeeps ==
    ASSUME EditorInv, NEW b \in Browser, Loaded(b)
    PROVE  EditorInv'
  <1> DEFINE e == ed[b]
             text == TextAt(Len(committed))
  <1> DEFINE f == [e EXCEPT !.serverText = text, !.ta = text, !.es = TRUE, !.last_seen = 0,
                            !.serverVersion = Len(committed)]
  <1>1. ed' = [ed EXCEPT ![b] = f] /\ posts' = posts
    BY Zenon DEF Loaded
  <1>2. DOMAIN e = EdFields
    BY DEF EditorInv, Good
  <1> HIDE DEF text
  <1>3. /\ DOMAIN f = EdFields /\ f.pending = e.pending /\ f.mySeqs = e.mySeqs
        /\ f.inflightSeq = e.inflightSeq /\ f.nextSeq = e.nextSeq /\ f.timeouts = e.timeouts
    BY <1>2 DEF EdFields
  <1> HIDE DEF f
  <1> QED  BY <1>1, <1>3, AsideKeeps

\* A browser's state after an edit is good.
LEMMA EditedGood ==
    ASSUME NEW b, NEW e, NEW ps, Good(b, e, ps), PostTypes(ps), NEW f, NEW n \in Nat,
           DOMAIN f = EdFields, f.nextSeq = e.nextSeq + n, f.mySeqs = e.mySeqs,
           f.inflightSeq = e.inflightSeq, f.timeouts = e.timeouts,
           PendingGood(f), Base(f) = Base(e), f.pending = <<>> => e.pending = <<>>
    PROVE  Good(b, f, ps)
  <1>1. /\ e.timeouts \in Nat /\ PendingGood(e) /\ FrontGood(e)
        /\ PostsGood(b, e, ps) /\ Waiting(b, e, ps)
    BY DEF Good
  <1>2. FrontGood(f)
    BY <1>1, Zenon DEF FrontGood
  <1>3. PostsGood(b, f, ps)
    <2> SUFFICES ASSUME NEW p \in ps, p.client = b
                 PROVE  /\ p.seq < f.nextSeq
                        /\ p.st # "late" /\ p.seq >= Base(f) => f.inflightSeq = p.seq
      BY Zenon DEF PostsGood
    <2>1. /\ p.seq < e.nextSeq
          /\ p.st # "late" /\ p.seq >= Base(e) => e.inflightSeq = p.seq
      BY <1>1, Zenon DEF PostsGood
    <2>2. p.seq \in Nat /\ e.nextSeq \in Nat
      BY <1>1 DEF PostTypes, PendingGood
    <2>3. p.seq < f.nextSeq
      BY <2>1, <2>2
    <2> QED  BY <2>1, <2>3
  <1>4. Waiting(b, f, ps)
    BY <1>1, Zenon DEF Waiting
  <1> QED  BY <1>1, <1>2, <1>3, <1>4 DEF Good

\* The user's edit is put behind what is pending.
LEMMA InputKeeps ==
    ASSUME EditorInv, NEW b \in Browser, onInput(b)
    PROVE  EditorInv'
  <1> DEFINE e == ed[b]
  <1>1. PICK text \in setting.texts :
          LET ops == computeDelta(fullText(e), text)
          IN  sendPendingFront(b, [e EXCEPT !.ta = text, !.nextSeq = @ + Len(ops),
                                 !.pending = @ \o [i \in DOMAIN ops |-> [seq |-> e.nextSeq + i - 1, op |-> ops[i]]]],
                               posts)
    BY Zenon DEF onInput
  <1> DEFINE ops == computeDelta(fullText(e), text)
  <1> DEFINE g == [i \in DOMAIN ops |-> [seq |-> e.nextSeq + i - 1, op |-> ops[i]]]
             f == [e EXCEPT !.ta = text, !.nextSeq = @ + Len(ops), !.pending = @ \o g]
  <1>2. sendPendingFront(b, f, posts)
    BY <1>1, Zenon
  <1>3. DOMAIN e = EdFields /\ PendingGood(e) /\ Good(b, e, posts) /\ PostTypes(posts)
    BY DEF EditorInv, Good
  <1>4. Len(ops) \in Nat /\ DOMAIN ops = 1..Len(ops)
    BY DeltaLen
  <1> HIDE DEF ops
  <1>5. /\ DOMAIN f = EdFields /\ f.pending = e.pending \o g /\ f.nextSeq = e.nextSeq + Len(ops)
        /\ f.mySeqs = e.mySeqs /\ f.inflightSeq = e.inflightSeq /\ f.timeouts = e.timeouts
    <2> HIDE DEF g
    <2> QED  BY <1>3 DEF EdFields
  <1> HIDE DEF e, f
  <1>6. PendingGood(f) /\ Base(f) = Base(e) /\ (f.pending = <<>> => e.pending = <<>>)
    BY <1>3, <1>4, <1>5, PendingExtended
  <1> HIDE DEF g
  <1>7. Good(b, f, posts)
    BY <1>3, <1>4, <1>5, <1>6, EditedGood
  <1> QED  BY <1>2, <1>7, SendKeeps DEF EditorInv

\* A change of a browser's state that leaves the fields of the invariant alone.
LEMMA SameGood ==
    ASSUME NEW b, NEW e, NEW ps, Good(b, e, ps), NEW f, DOMAIN f = EdFields,
           f.pending = e.pending, f.mySeqs = e.mySeqs, f.inflightSeq = e.inflightSeq,
           f.nextSeq = e.nextSeq, f.timeouts \in Nat
    PROVE  Good(b, f, ps)
  BY Zenon DEF Good, PendingGood, FrontGood, PostsGood, Waiting, Base

\* AckOwn: the front is committed. No post at or above the new Base waits.
LEMMA AckGood ==
    ASSUME NEW b, NEW e, NEW ps, Good(b, e, ps), PostTypes(ps), e.pending # <<>>,
           NEW qs \in SUBSET ps, NEW version, NEW op
    PROVE  Good(b, AckOwn(e, version, op), qs)
  <1> DEFINE g == [e EXCEPT !.serverText = applyOp(@, op), !.pending = Tail(@), !.inflightSeq = None,
                            !.mySeqs = @ \ {Head(e.pending).seq}, !.serverVersion = version]
             f == [g EXCEPT !.ta = fullText(g)]
  <1>1. AckOwn(e, version, op) = f
    BY Zenon DEF AckOwn, syncTextareaFromModel
  <1>2. /\ DOMAIN e = EdFields /\ e.timeouts \in Nat /\ PendingGood(e) /\ FrontGood(e)
        /\ PostsGood(b, e, ps)
    BY DEF Good
  <1>3. /\ DOMAIN g = EdFields /\ g.pending = Tail(e.pending) /\ g.inflightSeq = None
        /\ g.mySeqs = e.mySeqs \ {Head(e.pending).seq} /\ g.nextSeq = e.nextSeq /\ g.timeouts = e.timeouts
    <2> DEFINE st == applyOp(e.serverText, op)
               my == e.mySeqs \ {Head(e.pending).seq}
               pe == Tail(e.pending)
    <2>1. g = [e EXCEPT !.serverText = st, !.pending = pe, !.inflightSeq = None, !.mySeqs = my,
                        !.serverVersion = version]
      BY Zenon
    <2> HIDE DEF st, my, pe, g
    <2>2. /\ DOMAIN g = EdFields /\ g.pending = pe /\ g.inflightSeq = None
          /\ g.mySeqs = my /\ g.nextSeq = e.nextSeq /\ g.timeouts = e.timeouts
      BY <2>1, <1>2 DEF EdFields
    <2> QED  BY <2>2 DEF my, pe
  <1> HIDE DEF g
  <1>4. /\ DOMAIN f = EdFields /\ f.pending = g.pending /\ f.inflightSeq = g.inflightSeq
        /\ f.mySeqs = g.mySeqs /\ f.nextSeq = g.nextSeq /\ f.timeouts = g.timeouts
    <2> DEFINE ta == fullText(g)
    <2> HIDE DEF ta
    <2> QED  BY <1>3 DEF EdFields
  <1> HIDE DEF f
  <1>5. PendingGood(f) /\ Base(f) = Base(e) + 1 /\ Head(e.pending).seq = Base(e)
    BY <1>2, <1>3, <1>4, PendingShortened
  <1>6. f.mySeqs = {} /\ f.inflightSeq = None
    BY <1>2, <1>3, <1>4, <1>5 DEF FrontGood
  <1>7. FrontGood(f) /\ Waiting(b, f, qs)
    BY <1>6, Zenon DEF FrontGood, Waiting
  <1>8. PostsGood(b, f, qs)
    <2> SUFFICES ASSUME NEW p \in qs, p.client = b
                 PROVE  p.seq < f.nextSeq /\ ~(p.st # "late" /\ p.seq >= Base(f))
      BY Zenon DEF PostsGood
    <2>1. p.seq \in Nat
      BY DEF PostTypes
    <2>2. p.seq < e.nextSeq /\ (p.st # "late" /\ p.seq >= Base(e) => e.inflightSeq = p.seq)
      BY <1>2, Zenon DEF PostsGood
    <2>3. Base(e) \in Nat
      BY <1>2, FrontSeq
    <2>4. SUFFICES ASSUME p.st # "late", p.seq >= Base(f) PROVE FALSE
      BY <2>2, <1>3, <1>4
    <2>5. p.seq >= Base(e) + 1
      BY <2>4, <1>5
    <2>6. e.inflightSeq = p.seq
      BY <2>1, <2>2, <2>3, <2>4, <2>5
    <2>7. e.inflightSeq # None
      BY <2>1, <2>6 DEF None
    <2>8. e.inflightSeq = Base(e)
      BY <2>7, <1>2, Zenon DEF FrontGood
    <2> QED  BY <2>1, <2>3, <2>5, <2>6, <2>8
  <1>9. Good(b, f, qs)
    BY <1>2, <1>3, <1>4, <1>5, <1>7, <1>8 DEF Good
  <1> QED  BY <1>1, <1>9

\* A frame of the stream: stale, the commit of the front, or of another's
\* operation.
LEMMA FrameKeeps ==
    ASSUME EditorInv, NEW b \in Browser, handleSSEOp(b)
    PROVE  EditorInv'
  <1> DEFINE version == CHOOSE v \in NextOf(b) : \A w \in NextOf(b) : v <= w
             data == committed[version]
             e == [ed[b] EXCEPT !.last_seen = version]
             g == [e EXCEPT !.pending = TransformPending(@, data.op), !.serverText = applyOp(@, data.op),
                            !.serverVersion = version]
  <1>1. IF Stale(ed[b], version) THEN ed' = [ed EXCEPT ![b] = e] /\ UNCHANGED posts
        ELSE IF e.pending # <<>> /\ data.client = b /\ data.seq = Head(e.pending).seq /\ data.seq \in e.mySeqs
        THEN sendPendingFront(b, AckOwn(e, version, data.op), posts)
        ELSE ed' = [ed EXCEPT ![b] = syncTextareaFromModel(g)] /\ UNCHANGED posts
    BY Zenon DEF handleSSEOp
  <1>2. Good(b, ed[b], posts) /\ PostTypes(posts) /\ DOMAIN ed = Browser /\ OneAnswer(posts)
        /\ \A c \in Browser : Good(c, ed[c], posts) /\ Asking(ed[c])
    BY DEF EditorInv
  <1>3. DOMAIN ed[b] = EdFields /\ ed[b].timeouts \in Nat
    BY <1>2 DEF Good
  <1> HIDE DEF version, data
  <1>4. /\ DOMAIN e = EdFields /\ e.pending = ed[b].pending /\ e.mySeqs = ed[b].mySeqs
        /\ e.inflightSeq = ed[b].inflightSeq /\ e.nextSeq = ed[b].nextSeq /\ e.timeouts = ed[b].timeouts
    BY <1>3 DEF EdFields
  <1> HIDE DEF e
  <1>5. Good(b, e, posts)
    BY <1>2, <1>3, <1>4, SameGood
  <1>6. CASE ed' = [ed EXCEPT ![b] = e] /\ UNCHANGED posts
    BY <1>6, <1>4, AsideKeeps
  <1>7. CASE e.pending # <<>> /\ sendPendingFront(b, AckOwn(e, version, data.op), posts)
    <2>1. Good(b, AckOwn(e, version, data.op), posts)
      BY <1>2, <1>5, <1>7, AckGood
    <2> DEFINE f == AckOwn(e, version, data.op)
    <2> HIDE DEF f
    <2>2. Good(b, f, posts) /\ sendPendingFront(b, f, posts)
      BY <1>7, <2>1 DEF f
    <2> QED  BY <1>2, <2>2, SendKeeps
  <1>8. CASE ed' = [ed EXCEPT ![b] = syncTextareaFromModel(g)] /\ UNCHANGED posts
    <2> DEFINE f == [g EXCEPT !.ta = fullText(g)]
    <2>1. ed' = [ed EXCEPT ![b] = f]
      BY <1>8, Zenon DEF syncTextareaFromModel
    <2>2. /\ DOMAIN g = EdFields /\ g.pending = TransformPending(e.pending, data.op)
          /\ g.inflightSeq = e.inflightSeq /\ g.mySeqs = e.mySeqs /\ g.nextSeq = e.nextSeq
          /\ g.timeouts = e.timeouts
      <3> DEFINE st == applyOp(e.serverText, data.op)
                 pe == TransformPending(e.pending, data.op)
      <3>1. g = [e EXCEPT !.pending = pe, !.serverText = st, !.serverVersion = version]
        BY Zenon
      <3> HIDE DEF st, pe, g
      <3>2. /\ DOMAIN g = EdFields /\ g.pending = pe
            /\ g.inflightSeq = e.inflightSeq /\ g.mySeqs = e.mySeqs /\ g.nextSeq = e.nextSeq
            /\ g.timeouts = e.timeouts
        BY <3>1, <1>4 DEF EdFields
      <3> QED  BY <3>2 DEF pe
    <2> HIDE DEF g
    <2>3. /\ DOMAIN f = EdFields /\ f.pending = g.pending /\ f.inflightSeq = g.inflightSeq
          /\ f.mySeqs = g.mySeqs /\ f.nextSeq = g.nextSeq /\ f.timeouts = g.timeouts
      <3> DEFINE ta == fullText(g)
      <3> HIDE DEF ta
      <3> QED  BY <2>2 DEF EdFields
    <2> HIDE DEF f
    <2>4. PendingGood(e) /\ FrontGood(e) /\ PostsGood(b, e, posts) /\ Waiting(b, e, posts) /\ e.timeouts \in Nat
      BY <1>5 DEF Good
    <2>5. PendingGood(f) /\ Base(f) = Base(e) /\ (f.pending = <<>> <=> e.pending = <<>>)
      BY <2>2, <2>3, <2>4, PendingTransformed
    <2>6. f.inflightSeq = e.inflightSeq /\ f.mySeqs = e.mySeqs /\ f.nextSeq = e.nextSeq /\ f.timeouts = e.timeouts
      BY <2>2, <2>3
    <2>7. FrontGood(f) /\ PostsGood(b, f, posts) /\ Waiting(b, f, posts)
      BY <2>4, <2>5, <2>6, Zenon DEF FrontGood, PostsGood, Waiting
    <2>8. Good(b, f, posts)
      BY <2>3, <2>4, <2>5, <2>6, <2>7 DEF Good
    <2>9. Asking(f)
      <3>1. Asking(ed[b])
        BY <1>2
      <3> QED  BY <3>1, <1>4, <2>5, <2>6 DEF Asking
    <2>10. DOMAIN ed' = Browser /\ ed'[b] = f /\ \A c \in Browser \ {b} : ed'[c] = ed[c]
      BY <1>2, <2>1
    <2>11. \A c \in Browser : Good(c, ed'[c], posts) /\ Asking(ed'[c])
      BY <1>2, <2>8, <2>9, <2>10, Zenon
    <2> QED  BY <1>2, <1>8, <2>10, <2>11, Zenon DEF EditorInv
  <1> QED  BY <1>1, <1>6, <1>7, <1>8, Zenon

\* The post of an operation is committed: it now waits for its answer only,
\* or for nothing when it was given up.
LEMMA CommitKeeps ==
    ASSUME EditorInv, NEW p \in posts, Commit(p)
    PROVE  EditorInv'
  <1> DEFINE r == [p EXCEPT !.st = "executed", !.version = Len(committed) + 1]
  <1>1. DOMAIN p = {"client", "seq", "op", "st", "version"} /\ p.client \in Browser /\ p.seq \in Nat
    BY DEF EditorInv, PostTypes
  <1>2. ed' = ed
    BY DEF Commit
  <1>3. CASE p.st = "sent"
    <2> DEFINE qs == (posts \ {p}) \cup {r}
    <2>1. posts' = qs
      <3>1. {p.st} \cap {"sent"} = {"sent"}
        BY <1>3
      <3>2. {r : q \in {"sent"}} = {r}
        OBVIOUS
      <3> QED  BY <3>1, <3>2, Zenon DEF Commit
    <2>2. /\ DOMAIN r = {"client", "seq", "op", "st", "version"}
          /\ r.client = p.client /\ r.seq = p.seq /\ r.st # "late" /\ p.st # "late"
      BY <1>1, <1>3
    <2> HIDE DEF r
    <2>3. PostTypes(qs)
      BY <1>1, <2>2, Zenon DEF EditorInv, PostTypes
    <2>4. OneAnswer(qs)
      <3> SUFFICES ASSUME NEW x \in qs, NEW y \in qs, x.st # "late", y.st # "late", x.client = y.client, x.seq = y.seq
                   PROVE  x = y
        BY Zenon DEF OneAnswer
      <3>1. CASE x \in posts \ {p} /\ y \in posts \ {p}
        BY <3>1, Zenon DEF OneAnswer, EditorInv
      <3>2. CASE x = r /\ y \in posts \ {p}
        <4>1. y = p
          BY <3>2, <2>2, Zenon DEF OneAnswer, EditorInv
        <4> QED  BY <3>2, <4>1
      <3>3. CASE x \in posts \ {p} /\ y = r
        <4>1. x = p
          BY <3>3, <2>2, Zenon DEF OneAnswer, EditorInv
        <4> QED  BY <3>3, <4>1
      <3> QED  BY <3>1, <3>2, <3>3
    <2>5. ASSUME NEW c \in Browser PROVE Good(c, ed[c], qs)
      <3>1. Good(c, ed[c], posts)
        BY DEF EditorInv
      <3>2. PostsGood(c, ed[c], qs)
        BY <3>1, <2>2, Zenon DEF Good, PostsGood
      <3>3. Waiting(c, ed[c], qs)
        <4> SUFFICES ASSUME ed[c].inflightSeq # None
                     PROVE  \E q \in qs : q.client = c /\ q.seq = ed[c].inflightSeq /\ q.st # "late"
          BY Zenon DEF Waiting
        <4>1. PICK q \in posts : q.client = c /\ q.seq = ed[c].inflightSeq /\ q.st # "late"
          BY <3>1, Zenon DEF Good, Waiting
        <4>2. CASE q = p
          BY <4>1, <4>2, <2>2, Zenon
        <4>3. CASE q # p
          BY <4>1, <4>3, Zenon
        <4> QED  BY <4>2, <4>3
      <3> QED  BY <3>1, <3>2, <3>3 DEF Good
    <2> HIDE DEF qs
    <2> QED  BY <1>2, <2>1, <2>3, <2>4, <2>5, Zenon DEF EditorInv
  <1>4. CASE p.st = "late"
    <2> DEFINE qs == posts \ {p}
    <2>1. posts' = qs
      <3>1. {p.st} \cap {"sent"} = {}
        BY <1>4
      <3>2. {r : q \in {}} = {}
        OBVIOUS
      <3>3. posts' = (posts \ {p}) \cup {r : q \in {}}
        BY <3>1, Zenon DEF Commit
      <3> HIDE DEF r
      <3> QED  BY <3>2, <3>3
    <2>2. PostTypes(qs) /\ OneAnswer(qs)
      BY Zenon DEF EditorInv, PostTypes, OneAnswer
    <2>3. ASSUME NEW c \in Browser PROVE Good(c, ed[c], qs)
      <3>1. Good(c, ed[c], posts)
        BY DEF EditorInv
      <3>2. PostsGood(c, ed[c], qs)
        BY <3>1, Zenon DEF Good, PostsGood
      <3>3. Waiting(c, ed[c], qs)
        BY <3>1, <1>4, Zenon DEF Good, Waiting
      <3> QED  BY <3>1, <3>2, <3>3 DEF Good
    <2> HIDE DEF qs
    <2> QED  BY <1>2, <2>1, <2>2, <2>3, Zenon DEF EditorInv
  <1> QED  BY <1>3, <1>4 DEF Commit

\* A post stops waiting for its answer: it is answered, or given up and late.
\* When it was in flight, nothing is any more; else nothing changes.
LEMMA Answered ==
    ASSUME EditorInv, NEW p \in posts, p.st # "late", NEW rest,
           \A q \in posts \ {p} : q \in rest,
           \A q \in rest : q \in posts \ {p} \/ (q.st = "late" /\ q.client = p.client /\ q.seq = p.seq /\ DOMAIN q = DOMAIN p)
    PROVE  /\ PostTypes(rest) /\ OneAnswer(rest)
           /\ \A c \in Browser \ {p.client} : Good(c, ed[c], rest) /\ Asking(ed[c])
           /\ ed[p.client].inflightSeq # p.seq => Good(p.client, ed[p.client], rest)
           /\ ed[p.client].inflightSeq = p.seq =>
                \A f : /\ DOMAIN f = EdFields /\ f.timeouts \in Nat
                      /\ f.pending = ed[p.client].pending /\ f.nextSeq = ed[p.client].nextSeq
                      /\ f.mySeqs \subseteq ed[p.client].mySeqs /\ f.inflightSeq = None
                      => Good(p.client, f, rest)
  <1> DEFINE b == p.client
             e == ed[b]
  <1>1. b \in Browser /\ p.seq \in Nat /\ DOMAIN p = {"client", "seq", "op", "st", "version"}
    BY DEF EditorInv, PostTypes
  <1>2. Good(b, e, posts)
    BY <1>1 DEF EditorInv
  <1>3. PostTypes(rest)
    BY <1>1, Zenon DEF EditorInv, PostTypes
  <1>4. OneAnswer(rest)
    BY Zenon DEF EditorInv, OneAnswer
  <1>5. ASSUME NEW c \in Browser \ {b} PROVE Good(c, ed[c], rest) /\ Asking(ed[c])
    <2>1. Good(c, ed[c], posts) /\ Asking(ed[c])
      BY DEF EditorInv
    <2>2. PostsGood(c, ed[c], rest)
      BY <2>1, Zenon DEF Good, PostsGood
    <2>3. Waiting(c, ed[c], rest)
      BY <2>1, Zenon DEF Good, Waiting
    <2> QED  BY <2>1, <2>2, <2>3 DEF Good
  <1>6. ASSUME e.inflightSeq # p.seq PROVE Good(b, e, rest)
    <2>1. PostsGood(b, e, rest)
      BY <1>2, Zenon DEF Good, PostsGood
    <2>2. Waiting(b, e, rest)
      BY <1>2, <1>6, Zenon DEF Good, Waiting
    <2> QED  BY <1>2, <2>1, <2>2 DEF Good
  <1>7. ASSUME e.inflightSeq = p.seq, NEW f, DOMAIN f = EdFields, f.timeouts \in Nat,
               f.pending = e.pending, f.nextSeq = e.nextSeq, f.mySeqs \subseteq e.mySeqs, f.inflightSeq = None
        PROVE  Good(b, f, rest)
    <2>1. Base(f) = Base(e)
      BY <1>7 DEF Base
    <2>2. PendingGood(f)
      BY <1>2, <1>7, <2>1, Zenon DEF Good, PendingGood
    <2>3. FrontGood(f)
      <3>1. FrontGood(e)
        BY <1>2 DEF Good
      <3> QED  BY <1>7, <2>1, <3>1 DEF FrontGood
    <2>4. PostsGood(b, f, rest)
      <3> SUFFICES ASSUME NEW q \in rest, q.client = b
                   PROVE  q.seq < f.nextSeq /\ ~(q.st # "late" /\ q.seq >= Base(f))
        BY Zenon DEF PostsGood
      <3>1. p.seq < e.nextSeq
        BY <1>2, Zenon DEF Good, PostsGood
      <3>2. q.seq < e.nextSeq
        BY <1>2, <3>1, Zenon DEF Good, PostsGood
      <3>3. q.st # "late" /\ q.seq >= Base(e) => q \in posts \ {p} /\ e.inflightSeq = q.seq
        BY <1>2, Zenon DEF Good, PostsGood
      <3>4. q.st # "late" /\ q \in posts /\ q.seq = p.seq => q = p
        BY Zenon DEF EditorInv, OneAnswer
      <3> QED  BY <1>7, <2>1, <3>2, <3>3, <3>4, Zenon
    <2>5. Waiting(b, f, rest)
      BY <1>7, Zenon DEF Waiting
    <2> QED  BY <1>7, <2>2, <2>3, <2>4, <2>5 DEF Good
  <1> HIDE DEF e
  <1> QED  BY <1>3, <1>4, <1>5, <1>6, <1>7, Zenon DEF e

\* The answer to a post.
LEMMA AnswerKeeps ==
    ASSUME EditorInv, NEW p \in posts, ackPostIfStillInflight(p)
    PROVE  EditorInv'
  <1> DEFINE b == p.client
             e == ed[b]
             rest == posts \ {p}
             f == [e EXCEPT !.inflightSeq = None]
  <1>1. b \in Browser /\ p.seq \in Nat /\ DOMAIN ed = Browser /\ PostTypes(posts) /\ Good(b, e, posts)
    BY DEF EditorInv, PostTypes
  <1>2. p.st = "executed"
    BY DEF ackPostIfStillInflight
  <1>3. /\ PostTypes(rest) /\ OneAnswer(rest)
        /\ \A c \in Browser \ {b} : Good(c, ed[c], rest) /\ Asking(ed[c])
        /\ e.inflightSeq # p.seq => Good(b, e, rest)
        /\ e.inflightSeq = p.seq =>
             \A g : /\ DOMAIN g = EdFields /\ g.timeouts \in Nat
                   /\ g.pending = e.pending /\ g.nextSeq = e.nextSeq
                   /\ g.mySeqs \subseteq e.mySeqs /\ g.inflightSeq = None
                   => Good(b, g, rest)
    <2>1. p.st # "late" /\ \A q \in posts \ {p} : q \in rest
      BY <1>2
    <2>2. \A q \in rest : q \in posts \ {p} \/ (q.st = "late" /\ q.client = p.client /\ q.seq = p.seq /\ DOMAIN q = DOMAIN p)
      OBVIOUS
    <2> HIDE DEF rest
    <2> QED  BY <2>1, <2>2, Answered
  <1>4. IF e.inflightSeq # p.seq THEN sendPendingFront(b, e, rest)
        ELSE IF Stale(e, p.version) THEN sendPendingFront(b, f, rest)
        ELSE sendPendingFront(b, AckOwn(e, p.version, Head(e.pending).op), rest)
    BY Zenon DEF ackPostIfStillInflight
  <1>5. DOMAIN e = EdFields /\ e.timeouts \in Nat /\ FrontGood(e)
    BY <1>1 DEF Good
  <1>6. /\ DOMAIN f = EdFields /\ f.timeouts \in Nat /\ f.pending = e.pending /\ f.nextSeq = e.nextSeq
        /\ f.mySeqs = e.mySeqs /\ f.inflightSeq = None
    BY <1>5 DEF EdFields
  <1> HIDE DEF e, f, rest
  <1>7. CASE e.inflightSeq # p.seq
    BY <1>1, <1>3, <1>4, <1>7, SendKeeps
  <1>8. CASE e.inflightSeq = p.seq /\ sendPendingFront(b, f, rest)
    <2>1. Good(b, f, rest)
      BY <1>3, <1>6, <1>8
    <2> QED  BY <1>1, <1>3, <1>8, <2>1, SendKeeps
  <1>9. CASE e.inflightSeq = p.seq /\ sendPendingFront(b, AckOwn(e, p.version, Head(e.pending).op), rest)
    <2> DEFINE g == AckOwn(e, p.version, Head(e.pending).op)
    <2>1. e.inflightSeq # None
      BY <1>1, <1>9 DEF None
    <2>2. e.pending # <<>>
      BY <2>1, <1>5 DEF FrontGood
    <2>3. rest \in SUBSET posts
      BY DEF rest
    <2>4. Good(b, g, rest)
      BY <1>1, <2>2, <2>3, AckGood
    <2> HIDE DEF g
    <2>5. sendPendingFront(b, g, rest)
      BY <1>9 DEF g
    <2> QED  BY <1>1, <1>3, <2>4, <2>5, SendKeeps
  <1> QED  BY <1>4, <1>7, <1>8, <1>9, Zenon

\* A post is given up, and may yet be executed.
LEMMA FailureKeeps ==
    ASSUME EditorInv, NEW p \in posts, PostFailed(p)
    PROVE  EditorInv'
  <1> DEFINE b == p.client
             e == ed[b]
             g == [e EXCEPT !.timeouts = @ + 1]
             r == [p EXCEPT !.st = "late"]
             rest == (posts \ {p}) \cup {r}
             f == [g EXCEPT !.mySeqs = @ \ {p.seq}, !.inflightSeq = None]
  <1>1. /\ b \in Browser /\ p.seq \in Nat /\ DOMAIN ed = Browser /\ PostTypes(posts) /\ Good(b, e, posts)
        /\ DOMAIN p = {"client", "seq", "op", "st", "version"}
    BY DEF EditorInv, PostTypes
  <1>2. p.st = "sent"
    BY DEF PostFailed
  <1>3. /\ PostTypes(rest) /\ OneAnswer(rest)
        /\ \A c \in Browser \ {b} : Good(c, ed[c], rest) /\ Asking(ed[c])
        /\ e.inflightSeq # p.seq => Good(b, e, rest)
        /\ e.inflightSeq = p.seq =>
             \A h : /\ DOMAIN h = EdFields /\ h.timeouts \in Nat
                   /\ h.pending = e.pending /\ h.nextSeq = e.nextSeq
                   /\ h.mySeqs \subseteq e.mySeqs /\ h.inflightSeq = None
                   => Good(b, h, rest)
    <2>1. p.st # "late" /\ \A q \in posts \ {p} : q \in rest
      BY <1>2
    <2>2. r.st = "late" /\ r.client = p.client /\ r.seq = p.seq /\ DOMAIN r = DOMAIN p
      BY <1>1
    <2>3. \A q \in rest : q \in posts \ {p} \/ (q.st = "late" /\ q.client = p.client /\ q.seq = p.seq /\ DOMAIN q = DOMAIN p)
      <3> HIDE DEF r
      <3> QED  BY <2>2
    <2> HIDE DEF rest
    <2> QED  BY <2>1, <2>3, Answered
  <1>4. IF g.inflightSeq # p.seq THEN sendPendingFront(b, g, rest)
        ELSE ed' = [ed EXCEPT ![b] = f] /\ posts' = rest
    BY Zenon DEF PostFailed
  <1>5. DOMAIN e = EdFields /\ e.timeouts \in Nat
    BY <1>1 DEF Good
  <1>6. /\ DOMAIN g = EdFields /\ g.timeouts = e.timeouts + 1 /\ g.pending = e.pending /\ g.nextSeq = e.nextSeq
        /\ g.mySeqs = e.mySeqs /\ g.inflightSeq = e.inflightSeq
    BY <1>5 DEF EdFields
  <1> HIDE DEF g
  <1>7. /\ DOMAIN f = EdFields /\ f.timeouts = g.timeouts /\ f.pending = g.pending /\ f.nextSeq = g.nextSeq
        /\ f.mySeqs = g.mySeqs \ {p.seq} /\ f.inflightSeq = None
    BY <1>6 DEF EdFields
  <1>8. g.timeouts \in Nat /\ g.timeouts # 0
    BY <1>5, <1>6
  <1> HIDE DEF e, f, rest, r
  <1>9. CASE g.inflightSeq # p.seq
    <2>1. Good(b, e, rest)
      BY <1>3, <1>6, <1>9
    <2>2. Good(b, g, rest)
      BY <1>6, <1>8, <2>1, SameGood
    <2> QED  BY <1>1, <1>3, <1>4, <1>9, <2>2, SendKeeps
  <1>10. CASE g.inflightSeq = p.seq
    <2>1. ed' = [ed EXCEPT ![b] = f] /\ posts' = rest
      BY <1>4, <1>10, Zenon
    <2>2. Good(b, f, rest)
      <3>1. f.mySeqs \subseteq e.mySeqs
        BY <1>6, <1>7
      <3>2. f.timeouts \in Nat /\ f.pending = e.pending /\ f.nextSeq = e.nextSeq /\ e.inflightSeq = p.seq
        BY <1>6, <1>7, <1>8, <1>10
      <3> QED  BY <1>3, <1>7, <3>1, <3>2, Zenon
    <2>3. Asking(f)
      BY <1>7, <1>8 DEF Asking
    <2>4. DOMAIN ed' = Browser /\ ed'[b] = f /\ \A c \in Browser \ {b} : ed'[c] = ed[c]
      BY <1>1, <2>1
    <2>5. \A c \in Browser : Good(c, ed'[c], rest) /\ Asking(ed'[c])
      BY <1>3, <2>2, <2>3, <2>4, Zenon
    <2> QED  BY <1>3, <2>1, <2>4, <2>5, Zenon DEF EditorInv
  <1> QED  BY <1>9, <1>10

-----------------------------------------------------------------------------
(* The theorems.                                                           *)

LEMMA EditorInit == Init => EditorInv
  <1> SUFFICES ASSUME Init PROVE EditorInv
    OBVIOUS
  <1>1. ed = [b \in Browser |-> Start] /\ posts = {}
    BY DEF Init
  <1>2. /\ DOMAIN Start = EdFields /\ Start.pending = <<>> /\ Start.mySeqs = {} /\ Start.inflightSeq = None
        /\ Start.nextSeq = 0 /\ Start.timeouts = 0
    BY DEF Start, EdFields
  <1>3. PendingGood(Start)
    BY <1>2 DEF PendingGood, Base
  <1>4. FrontGood(Start) /\ Asking(Start)
    BY <1>2 DEF FrontGood, Asking
  <1>5. \A b : Good(b, Start, {})
    BY <1>2, <1>3, <1>4 DEF Good, PostsGood, Waiting
  <1>6. DOMAIN ed = Browser /\ \A b \in Browser : ed[b] = Start
    BY <1>1
  <1>7. PostTypes(posts) /\ OneAnswer(posts)
    BY <1>1 DEF PostTypes, OneAnswer
  <1> QED  BY <1>1, <1>4, <1>5, <1>6, <1>7, Zenon DEF EditorInv

LEMMA EditorNext == EditorInv /\ [Next]_vars => EditorInv'
  <1> SUFFICES ASSUME EditorInv, [Next]_vars PROVE EditorInv'
    OBVIOUS
  <1>1. ASSUME NEW b \in Browser, connect(b) PROVE EditorInv'
    BY <1>1, ConnectKeeps
  <1>2. ASSUME NEW b \in Browser, Loaded(b) PROVE EditorInv'
    BY <1>2, LoadedKeeps
  <1>3. ASSUME NEW b \in Browser, onInput(b) PROVE EditorInv'
    BY <1>3, InputKeeps
  <1>4. ASSUME NEW b \in Browser, handleSSEOp(b) PROVE EditorInv'
    BY <1>4, FrameKeeps
  <1>5. ASSUME NEW p \in posts, Commit(p) PROVE EditorInv'
    BY <1>5, CommitKeeps
  <1>6. ASSUME NEW p \in posts, ackPostIfStillInflight(p) PROVE EditorInv'
    BY <1>6, AnswerKeeps
  <1>7. ASSUME NEW p \in posts, PostFailed(p) PROVE EditorInv'
    BY <1>7, FailureKeeps
  <1>8. CASE UNCHANGED vars
    <2>1. ed' = ed /\ posts' = posts
      BY <1>8 DEF vars
    <2> QED  BY <2>1, Zenon DEF EditorInv
  <1> QED  BY <1>1, <1>2, <1>3, <1>4, <1>5, <1>6, <1>7, <1>8, Zenon DEF Next

LEMMA EditorAlways == Spec => []EditorInv
  BY EditorInit, EditorNext, PTL DEF Spec

LEMMA InflightFollows == EditorInv => InflightIsFront
  <1> SUFFICES ASSUME EditorInv, NEW b \in Browser
               PROVE  /\ ed[b].inflightSeq # None => ed[b].pending # <<>> /\ Head(ed[b].pending).seq = ed[b].inflightSeq
                      /\ \A i \in DOMAIN ed[b].pending : ed[b].pending[i].seq = ed[b].nextSeq - Len(ed[b].pending) + i - 1
                      /\ \A p, q \in posts : (p.client = b /\ q.client = b /\ p.st = "sent" /\ q.st = "sent") =>
                           p = q \/ \E r \in {p, q} : r.seq \notin ed[b].mySeqs
    BY Zenon DEF InflightIsFront
  <1> DEFINE e == ed[b]
  <1>1. PendingGood(e) /\ FrontGood(e) /\ OneAnswer(posts)
    BY DEF EditorInv, Good
  <1> HIDE DEF e
  <1>2. ASSUME e.inflightSeq # None PROVE e.pending # <<>> /\ Head(e.pending).seq = e.inflightSeq
    <2>1. e.inflightSeq = Base(e) /\ e.pending # <<>>
      BY <1>1, <1>2 DEF FrontGood
    <2> QED  BY <1>1, <2>1, FrontSeq
  <1>3. ASSUME NEW i \in DOMAIN e.pending PROVE e.pending[i].seq = e.nextSeq - Len(e.pending) + i - 1
    <2>1. i \in 1..Len(e.pending)
      BY <1>1, <1>3, OwnRange DEF PendingGood
    <2> QED  BY <1>1, <2>1 DEF PendingGood, Base
  <1>4. ASSUME NEW p \in posts, NEW q \in posts, p.client = b, q.client = b, p.st = "sent", q.st = "sent",
               p.seq \in e.mySeqs, q.seq \in e.mySeqs
        PROVE  p = q
    <2>1. p.seq = q.seq
      BY <1>1, <1>4 DEF FrontGood
    <2>2. p.st # "late" /\ q.st # "late" /\ p.client = q.client
      BY <1>4
    <2> QED  BY <1>1, <1>4, <2>1, <2>2, Zenon DEF OneAnswer
  <1> QED  BY <1>2, <1>3, <1>4, Zenon DEF e

LEMMA NoneForgottenFollows == EditorInv => NoneForgotten
  BY Zenon DEF EditorInv, Good, Waiting, Asking, NoneForgotten

(***************************************************************************)
(* One operation of a browser is in flight at a time, and it is the front  *)
(* of those that are pending, which are numbered in the order in which     *)
(* they were made: sendPendingFront, the stream, the answers, the 504s and *)
(* disconnect keep it so in every order.                                   *)
(***************************************************************************)
THEOREM InflightTheorem == Spec => []InflightIsFront
  BY EditorAlways, InflightFollows, PTL

(***************************************************************************)
(* No edit is forgotten: the operation in flight has a post that is yet to *)
(* be answered, and unless a post was answered with 504, an operation is   *)
(* in flight as long as some are pending.                                  *)
(***************************************************************************)
THEOREM NoneForgottenTheorem == Spec => []NoneForgotten
  BY EditorAlways, NoneForgottenFollows, PTL

-----------------------------------------------------------------------------
(* Applying operations one after the other.                                *)

\* A non-empty set of numbers has a least one: what is shown of a recursive
\* function below rests on a least counterexample.
LEMMA LeastOf ==
    ASSUME NEW T \in SUBSET Nat, T # {}
    PROVE  \E k \in T : \A j \in T : k <= j
  <1>1. PICK k \in T : \A j \in T : ~(<<j, k>> \in OpToRel(<, Nat))
    BY NatLessThanWellFounded, WFMin
  <1>2. k \in Nat /\ \A j \in T : j \in Nat /\ ~(j < k)
    BY <1>1 DEF OpToRel
  <1>3. \A j \in T : k <= j
    BY <1>2
  <1> QED  BY <1>3

\* What ApplyAll's recursion says of g at k, and that a g obeys it up to n.
Applied(text, ops, g, k) == IF k = 0 THEN text ELSE applyOp(g[k - 1], ops[k])
Obeys(text, ops, g, n)   == g = [k \in 0..n |-> Applied(text, ops, g, k)]

LEMMA ObeysAt ==
    ASSUME NEW text, NEW ops, NEW g, NEW n \in Nat, Obeys(text, ops, g, n), NEW k \in 0..n
    PROVE  g[k] = Applied(text, ops, g, k)
  BY Zenon DEF Obeys

LEMMA ObeysMore ==
    ASSUME NEW text, NEW ops, NEW g, NEW n \in Nat, Obeys(text, ops, g, n)
    PROVE  \E h : Obeys(text, ops, h, n + 1)
  <1> DEFINE h == [k \in 0..(n + 1) |-> IF k = n + 1 THEN Applied(text, ops, g, n + 1) ELSE g[k]]
  <1>1. \A k \in 0..n : h[k] = g[k] /\ g[k] = Applied(text, ops, g, k)
    BY ObeysAt
  <1>2. h[n + 1] = Applied(text, ops, g, n + 1)
    OBVIOUS
  <1>3. DOMAIN h = 0..(n + 1) /\ h = [k \in DOMAIN h |-> h[k]]
    OBVIOUS
  <1> HIDE DEF h
  <1>4. ASSUME NEW k \in 0..(n + 1) PROVE h[k] = Applied(text, ops, h, k)
    <2>1. CASE k = 0
      BY <1>1, <2>1 DEF Applied
    <2>2. CASE k # 0
      <3>1. k - 1 \in 0..n
        BY <2>2
      <3>2. Applied(text, ops, h, k) = Applied(text, ops, g, k)
        BY <1>1, <3>1, Zenon DEF Applied
      <3>3. h[k] = Applied(text, ops, g, k)
        BY <1>1, <1>2
      <3> QED  BY <3>2, <3>3
    <2> QED  BY <2>1, <2>2
  <1>5. Obeys(text, ops, h, n + 1)
    BY <1>3, <1>4 DEF Obeys
  <1> QED  BY <1>5

LEMMA ObeysSome ==
    ASSUME NEW text, NEW ops, NEW n \in Nat
    PROVE  \E g : Obeys(text, ops, g, n)
  <1> DEFINE Has(k) == \E g : Obeys(text, ops, g, k)
             T == {k \in Nat : ~Has(k)}
  <1>1. Has(0)
    <2> DEFINE h == [k \in 0..0 |-> text]
    <2>1. h = [k \in 0..0 |-> Applied(text, ops, h, k)]
      BY DEF Applied
    <2> QED  BY <2>1 DEF Obeys
  <1>2. ASSUME NEW k \in Nat, Has(k) PROVE Has(k + 1)
    BY <1>2, ObeysMore
  <1> HIDE DEF Has
  <1>3. T = {}
    <2> SUFFICES ASSUME T # {} PROVE FALSE
      OBVIOUS
    <2>1. PICK k \in T : \A j \in T : k <= j
      BY LeastOf
    <2>2. CASE k = 0
      BY <1>1, <2>1, <2>2
    <2>3. CASE k # 0
      <3>1. k - 1 \in Nat /\ ~(k <= k - 1) /\ (k - 1) + 1 = k
        BY <2>1, <2>3
      <3>2. Has(k - 1)
        BY <2>1, <3>1
      <3> QED  BY <1>2, <2>1, <3>1, <3>2
    <2> QED  BY <2>2, <2>3
  <1> QED  BY <1>3 DEF Has

\* Two functions that obey it for operations that agree, agree.
LEMMA ObeysSame ==
    ASSUME NEW text, NEW ops, NEW qs, NEW g, NEW h, NEW n \in Nat, NEW m \in Nat, n <= m,
           Obeys(text, ops, g, n), Obeys(text, qs, h, m), \A i \in 1..n : ops[i] = qs[i]
    PROVE  \A k \in 0..n : g[k] = h[k]
  <1> DEFINE T == {k \in 0..n : g[k] # h[k]}
  <1> SUFFICES ASSUME T # {} PROVE FALSE
    OBVIOUS
  <1>1. PICK k \in T : \A j \in T : k <= j
    <2>1. T \in SUBSET Nat
      OBVIOUS
    <2> HIDE DEF T
    <2> QED  BY <2>1, LeastOf
  <1>2. k \in 0..n /\ k \in 0..m /\ g[k] # h[k]
    BY <1>1
  <1>3. g[k] = Applied(text, ops, g, k) /\ h[k] = Applied(text, qs, h, k)
    BY <1>2, ObeysAt
  <1>4. CASE k = 0
    BY <1>2, <1>3, <1>4 DEF Applied
  <1>5. CASE k # 0
    <2>1. k - 1 \in 0..n /\ ~(k <= k - 1) /\ k \in 1..n
      BY <1>2, <1>5
    <2>2. g[k - 1] = h[k - 1]
      BY <1>1, <2>1
    <2>3. ops[k] = qs[k]
      BY <2>1
    <2> QED  BY <1>2, <1>3, <2>2, <2>3, Zenon DEF Applied
  <1> QED  BY <1>4, <1>5

LEMMA ApplyAllObeys ==
    ASSUME NEW text, NEW ops, Len(ops) \in Nat
    PROVE  \E g : Obeys(text, ops, g, Len(ops)) /\ ApplyAll(text, ops) = g[Len(ops)]
  <1> DEFINE g == CHOOSE g : Obeys(text, ops, g, Len(ops))
  <1>1. Obeys(text, ops, g, Len(ops))
    BY ObeysSome, Zenon
  <1>2. ApplyAll(text, ops) = g[Len(ops)]
    BY Zenon DEF ApplyAll, Obeys, Applied
  <1> QED  BY <1>1, <1>2

LEMMA ApplyNone ==
    ASSUME NEW text
    PROVE  ApplyAll(text, <<>>) = text
  <1>1. Len(<<>>) = 0
    OBVIOUS
  <1>2. PICK g : Obeys(text, <<>>, g, Len(<<>>)) /\ ApplyAll(text, <<>>) = g[Len(<<>>)]
    BY <1>1, ApplyAllObeys
  <1>3. g[0] = Applied(text, <<>>, g, 0)
    BY <1>1, <1>2, ObeysAt
  <1> QED  BY <1>1, <1>2, <1>3 DEF Applied

\* One operation more.
LEMMA ApplyMore ==
    ASSUME NEW text, NEW ops, NEW qs, Len(ops) \in Nat, Len(qs) = Len(ops) + 1,
           \A i \in 1..Len(ops) : ops[i] = qs[i]
    PROVE  ApplyAll(text, qs) = applyOp(ApplyAll(text, ops), qs[Len(ops) + 1])
  <1>1. PICK g : Obeys(text, ops, g, Len(ops)) /\ ApplyAll(text, ops) = g[Len(ops)]
    BY ApplyAllObeys
  <1>2. PICK h : Obeys(text, qs, h, Len(qs)) /\ ApplyAll(text, qs) = h[Len(qs)]
    <2>1. Len(qs) \in Nat
      OBVIOUS
    <2> QED  BY <2>1, ApplyAllObeys
  <1> DEFINE n == Len(ops)
  <1>3. n \in Nat /\ n + 1 \in Nat /\ n <= n + 1 /\ n \in 0..n /\ n + 1 \in 0..(n + 1) /\ (n + 1) - 1 = n /\ n + 1 # 0
    OBVIOUS
  <1>4. Obeys(text, ops, g, n) /\ Obeys(text, qs, h, n + 1) /\ \A i \in 1..n : ops[i] = qs[i]
    BY <1>1, <1>2
  <1> HIDE DEF n
  <1>5. g[n] = h[n]
    BY <1>3, <1>4, ObeysSame
  <1>6. h[n + 1] = Applied(text, qs, h, n + 1)
    BY <1>3, <1>4, ObeysAt
  <1>7. h[n + 1] = applyOp(h[n], qs[n + 1])
    BY <1>3, <1>6, Zenon DEF Applied
  <1> QED  BY <1>1, <1>2, <1>5, <1>7 DEF n

LEMMA ApplySame ==
    ASSUME NEW text, NEW ops, NEW qs, Len(ops) \in Nat, Len(qs) = Len(ops),
           \A i \in 1..Len(ops) : ops[i] = qs[i]
    PROVE  ApplyAll(text, qs) = ApplyAll(text, ops)
  <1>1. PICK g : Obeys(text, ops, g, Len(ops)) /\ ApplyAll(text, ops) = g[Len(ops)]
    BY ApplyAllObeys
  <1>2. PICK h : Obeys(text, qs, h, Len(qs)) /\ ApplyAll(text, qs) = h[Len(qs)]
    BY ApplyAllObeys
  <1> DEFINE n == Len(ops)
  <1>3. n \in Nat /\ n <= n /\ n \in 0..n
    OBVIOUS
  <1>4. Obeys(text, ops, g, n) /\ Obeys(text, qs, h, n) /\ \A i \in 1..n : ops[i] = qs[i]
    BY <1>1, <1>2
  <1> HIDE DEF n
  <1>5. g[n] = h[n]
    BY <1>3, <1>4, ObeysSame
  <1> QED  BY <1>1, <1>2, <1>5 DEF n

-----------------------------------------------------------------------------
(* Single operations.                                                      *)

Insertion == [type : {"I"}, pos : Nat, text : Seq(Char)]
Deletion  == [type : {"D"}, pos : Nat, len : Nat]
Operation == Insertion \cup Deletion

LEMMA OperationFields ==
    ASSUME NEW op \in Operation
    PROVE  /\ op.pos \in Nat
           /\ op.type = "I" => op.text \in Seq(Char)
           /\ op.type # "I" => op.type = "D" /\ op.len \in Nat
  BY DEF Operation, Insertion, Deletion

LEMMA NewOperations ==
    ASSUME NEW pos \in Nat
    PROVE  /\ \A text \in Seq(Char) : Insert(pos, text) \in Operation
           /\ \A len \in Nat : Delete(pos, len) \in Operation
  BY DEF Operation, Insertion, Deletion, Insert, Delete

\* transform makes an operation of two.
LEMMA TransformTyped ==
    ASSUME NEW a \in Operation, NEW b \in Operation
    PROVE  transform(a, b) \in Operation
  <1>0. <<>> \in Seq(Char)
    OBVIOUS
  <1>1. CASE a.type = "I" /\ b.type = "I"
    <2> DEFINE n == Len(b.text)
    <2>1. a.pos \in Nat /\ n \in Nat /\ a.text \in Seq(Char)
      BY <1>1, OperationFields
    <2>2. transform(a, b) = IF b.pos <= a.pos THEN Insert(a.pos + n, a.text) ELSE a
      BY <1>1 DEF transform
    <2> HIDE DEF n
    <2>3. a.pos + n \in Nat
      BY <2>1
    <2> QED  BY <2>1, <2>2, <2>3, NewOperations
  <1>2. CASE a.type = "I" /\ b.type # "I"
    <2>1. a.pos \in Nat /\ b.pos \in Nat /\ a.text \in Seq(Char) /\ b.len \in Nat /\ b.type = "D"
      BY <1>2, OperationFields
    <2>2. transform(a, b) = IF a.pos <= b.pos THEN a
           ELSE IF a.pos >= b.pos + b.len THEN Insert(a.pos - b.len, a.text) ELSE Insert(0, <<>>)
      BY <1>2, <2>1 DEF transform
    <2>3. a.pos >= b.pos + b.len => a.pos - b.len \in Nat
      BY <2>1
    <2> QED  BY <1>0, <2>1, <2>2, <2>3, NewOperations
  <1>3. CASE a.type # "I" /\ b.type = "I"
    <2> DEFINE n == Len(b.text)
    <2>1. a.pos \in Nat /\ n \in Nat /\ a.len \in Nat /\ a.type = "D"
      BY <1>3, OperationFields
    <2>2. transform(a, b) = IF b.pos >= a.pos + a.len THEN a
           ELSE IF b.pos <= a.pos THEN Delete(a.pos + n, a.len)
           ELSE Delete(a.pos, a.len + n)
      BY <1>3, <2>1 DEF transform
    <2> HIDE DEF n
    <2>3. a.pos + n \in Nat /\ a.len + n \in Nat
      BY <2>1
    <2> QED  BY <2>1, <2>2, <2>3, NewOperations
  <1>4. CASE a.type # "I" /\ b.type # "I"
    <2>1. a.pos \in Nat /\ b.pos \in Nat /\ a.len \in Nat /\ b.len \in Nat /\ a.type = "D" /\ b.type = "D"
      BY <1>4, OperationFields
    <2> DEFINE aEnd == a.pos + a.len
               bEnd == b.pos + b.len
    <2>2. transform(a, b) = IF aEnd <= b.pos THEN a
               ELSE IF a.pos >= bEnd THEN Delete(a.pos - b.len, a.len)
               ELSE IF a.pos >= b.pos /\ aEnd <= bEnd THEN Delete(0, 0)
               ELSE IF a.pos <= b.pos /\ aEnd >= bEnd THEN Delete(a.pos, a.len - b.len)
               ELSE IF a.pos < b.pos THEN Delete(a.pos, b.pos - a.pos)
               ELSE Delete(b.pos, aEnd - bEnd)
      BY <1>4, <2>1 DEF transform
    <2>3. a.pos >= bEnd => a.pos - b.len \in Nat
      BY <2>1
    <2>4. a.pos <= b.pos /\ aEnd >= bEnd => a.len - b.len \in Nat
      BY <2>1
    <2>5. a.pos < b.pos => b.pos - a.pos \in Nat
      BY <2>1
    <2>6. ~(a.pos >= b.pos /\ aEnd <= bEnd) /\ ~(a.pos < b.pos) => aEnd - bEnd \in Nat
      BY <2>1
    <2> HIDE DEF aEnd, bEnd
    <2>7. 0 \in Nat
      OBVIOUS
    <2> QED  BY <2>1, <2>2, <2>3, <2>4, <2>5, <2>6, <2>7, NewOperations, Zenon
  <1> QED  BY <1>1, <1>2, <1>3, <1>4

\* A part of a text, character by character.
LEMMA Part ==
    ASSUME NEW t \in Seq(Char), NEW m \in 0..Len(t), NEW n \in m..Len(t)
    PROVE  /\ SubSeq(t, m + 1, n) \in Seq(Char)
           /\ Len(SubSeq(t, m + 1, n)) = n - m
           /\ \A k \in 1..(n - m) : SubSeq(t, m + 1, n)[k] = t[m + k]
  <1>1. Len(t) \in Nat
    OBVIOUS
  <1> QED  BY <1>1, SubSeqProperties, LenProperties

LEMMA Joined ==
    ASSUME NEW s \in Seq(Char), NEW t \in Seq(Char)
    PROVE  /\ s \o t \in Seq(Char)
           /\ Len(s \o t) = Len(s) + Len(t)
           /\ \A k \in 1..(Len(s) + Len(t)) : (s \o t)[k] = IF k <= Len(s) THEN s[k] ELSE t[k - Len(s)]
  BY ConcatProperties

LEMMA ApplyTyped ==
    ASSUME NEW t \in Seq(Char), NEW op \in Operation
    PROVE  applyOp(t, op) \in Seq(Char)
  <1> DEFINE pos == Least(op.pos, Len(t))
             n == Least(op.len, Len(t) - pos)
  <1>1. Len(t) \in Nat /\ pos \in 0..Len(t) /\ 0 \in 0..Len(t)
    BY OperationFields DEF Least
  <1>2. CASE op.type = "I"
    <2>1. applyOp(t, op) = (SubSeq(t, 1, pos) \o op.text) \o SubSeq(t, pos + 1, Len(t))
      BY <1>2 DEF applyOp
    <2> HIDE DEF pos
    <2>2. SubSeq(t, 0 + 1, pos) \in Seq(Char) /\ SubSeq(t, pos + 1, Len(t)) \in Seq(Char) /\ op.text \in Seq(Char)
      <3>1. pos \in 0..Len(t) /\ Len(t) \in pos..Len(t)
        BY <1>1
      <3> QED  BY <1>1, <1>2, <3>1, Part, OperationFields
    <2>3. SubSeq(t, 1, pos) \o op.text \in Seq(Char)
      BY <2>2, Joined
    <2> QED  BY <2>1, <2>2, <2>3, Joined
  <1>3. CASE op.type # "I"
    <2>1. applyOp(t, op) = SubSeq(t, 1, pos) \o SubSeq(t, (pos + n) + 1, Len(t))
      BY <1>3, Zenon DEF applyOp
    <2>2. op.len \in Nat
      BY <1>3, OperationFields
    <2> HIDE DEF pos
    <2>3. pos + n \in 0..Len(t) /\ Len(t) \in (pos + n)..Len(t)
      BY <1>1, <2>2 DEF Least
    <2> HIDE DEF n
    <2>4. SubSeq(t, 0 + 1, pos) \in Seq(Char) /\ SubSeq(t, (pos + n) + 1, Len(t)) \in Seq(Char)
      BY <1>1, <2>3, Part
    <2> QED  BY <2>1, <2>4, Joined
  <1> QED  BY <1>2, <1>3

\* The operations of ApplyAll give a text.
LEMMA ApplyAllTyped ==
    ASSUME NEW t \in Seq(Char), NEW ops, Len(ops) \in Nat, \A i \in 1..Len(ops) : ops[i] \in Operation
    PROVE  ApplyAll(t, ops) \in Seq(Char)
  <1>1. PICK g : Obeys(t, ops, g, Len(ops)) /\ ApplyAll(t, ops) = g[Len(ops)]
    BY ApplyAllObeys
  <1> DEFINE T == {k \in 0..Len(ops) : g[k] \notin Seq(Char)}
  <1>2. T = {}
    <2> SUFFICES ASSUME T # {} PROVE FALSE
      OBVIOUS
    <2>1. PICK k \in T : \A j \in T : k <= j
      <3>1. T \in SUBSET Nat
        OBVIOUS
      <3> HIDE DEF T
      <3> QED  BY <3>1, LeastOf
    <2>2. k \in 0..Len(ops) /\ g[k] \notin Seq(Char)
      BY <2>1
    <2>3. g[k] = Applied(t, ops, g, k)
      BY <1>1, <2>2, ObeysAt
    <2>4. CASE k = 0
      BY <2>2, <2>3, <2>4 DEF Applied
    <2>5. CASE k # 0
      <3>1. k - 1 \in 0..Len(ops) /\ ~(k <= k - 1) /\ k \in 1..Len(ops)
        BY <2>2, <2>5
      <3>2. g[k - 1] \in Seq(Char) /\ ops[k] \in Operation
        BY <2>1, <3>1
      <3>3. g[k] = applyOp(g[k - 1], ops[k])
        BY <2>3, <2>5, Zenon DEF Applied
      <3> QED  BY <2>2, <3>2, <3>3, ApplyTyped
    <2> QED  BY <2>4, <2>5
  <1> QED  BY <1>1, <1>2

\* An operation within a text, character by character.
LEMMA InsertedAt ==
    ASSUME NEW t \in Seq(Char), NEW x \in Seq(Char), NEW p \in 0..Len(t)
    PROVE  /\ applyOp(t, Insert(p, x)) \in Seq(Char)
           /\ Len(applyOp(t, Insert(p, x))) = Len(t) + Len(x)
           /\ \A k \in 1..(Len(t) + Len(x)) :
                applyOp(t, Insert(p, x))[k] =
                   IF k <= p THEN t[k] ELSE IF k <= p + Len(x) THEN x[k - p] ELSE t[k - Len(x)]
  <1> DEFINE a == SubSeq(t, 0 + 1, p)
             c == SubSeq(t, p + 1, Len(t))
             y == a \o x
             u == y \o c
  <1>1. Len(t) \in Nat /\ Len(x) \in Nat /\ p \in Nat /\ p <= Len(t)
    OBVIOUS
  <1>2. applyOp(t, Insert(p, x)) = u
    <2>1. Least(p, Len(t)) = p
      BY <1>1 DEF Least
    <2>2. Insert(p, x).type = "I" /\ Insert(p, x).pos = p /\ Insert(p, x).text = x
      BY DEF Insert
    <2>3. applyOp(t, Insert(p, x)) = SubSeq(t, 1, p) \o x \o SubSeq(t, p + 1, Len(t))
      BY <2>1, <2>2, Zenon DEF applyOp
    <2>4. 0 + 1 = 1
      OBVIOUS
    <2> QED  BY <2>3, <2>4, Zenon
  <1>3. a \in Seq(Char) /\ Len(a) = p /\ \A k \in 1..p : a[k] = t[k]
    <2>1. 0 \in 0..Len(t) /\ p \in 0..Len(t) /\ p - 0 = p /\ \A k \in 1..p : 0 + k = k
      BY <1>1
    <2> QED  BY <2>1, Part
  <1>4. c \in Seq(Char) /\ Len(c) = Len(t) - p /\ \A k \in 1..(Len(t) - p) : c[k] = t[p + k]
    <2>1. Len(t) \in p..Len(t)
      BY <1>1
    <2> QED  BY <2>1, Part
  <1> HIDE DEF a, c
  <1>5. /\ y \in Seq(Char) /\ Len(y) = Len(a) + Len(x)
        /\ \A k \in 1..(Len(a) + Len(x)) : y[k] = IF k <= Len(a) THEN a[k] ELSE x[k - Len(a)]
    BY <1>3, Joined
  <1> HIDE DEF y
  <1>6. /\ u \in Seq(Char) /\ Len(u) = Len(y) + Len(c)
        /\ \A k \in 1..(Len(y) + Len(c)) : u[k] = IF k <= Len(y) THEN y[k] ELSE c[k - Len(y)]
    BY <1>4, <1>5, Joined
  <1> HIDE DEF u
  <1>7. Len(y) = p + Len(x) /\ Len(u) = Len(t) + Len(x)
    BY <1>1, <1>3, <1>4, <1>5, <1>6
  <1>8. ASSUME NEW k \in 1..(Len(t) + Len(x))
        PROVE  u[k] = IF k <= p THEN t[k] ELSE IF k <= p + Len(x) THEN x[k - p] ELSE t[k - Len(x)]
    <2>0. u[k] = IF k <= p + Len(x) THEN y[k] ELSE c[k - (p + Len(x))]
      <3>1. k \in 1..(Len(y) + Len(c))
        BY <1>6, <1>7
      <3> QED  BY <1>6, <1>7, <3>1
    <2>1. CASE k <= p
      <3>1. k \in 1..(Len(a) + Len(x)) /\ k \in 1..p /\ k <= p + Len(x)
        BY <1>1, <1>3, <2>1
      <3> QED  BY <1>3, <1>5, <2>0, <2>1, <3>1
    <2>2. CASE ~(k <= p) /\ k <= p + Len(x)
      <3>1. k \in 1..(Len(a) + Len(x))
        BY <1>1, <1>3, <2>2
      <3> QED  BY <1>3, <1>5, <2>0, <2>2, <3>1
    <2>3. CASE ~(k <= p + Len(x))
      <3>1. k - (p + Len(x)) \in 1..(Len(t) - p) /\ p + (k - (p + Len(x))) = k - Len(x) /\ ~(k <= p)
        BY <1>1, <2>3
      <3>2. c[k - (p + Len(x))] = t[k - Len(x)]
        BY <1>4, <3>1, Zenon
      <3> QED  BY <2>0, <2>3, <3>1, <3>2, Zenon
    <2> QED  BY <2>1, <2>2, <2>3
  <1> QED  BY <1>2, <1>6, <1>7, <1>8

LEMMA ErasedAt ==
    ASSUME NEW t \in Seq(Char), NEW p \in Nat, NEW n \in Nat, p + n <= Len(t)
    PROVE  /\ applyOp(t, Delete(p, n)) \in Seq(Char)
           /\ Len(applyOp(t, Delete(p, n))) = Len(t) - n
           /\ \A k \in 1..(Len(t) - n) : applyOp(t, Delete(p, n))[k] = IF k <= p THEN t[k] ELSE t[k + n]
  <1> DEFINE a == SubSeq(t, 0 + 1, p)
             c == SubSeq(t, (p + n) + 1, Len(t))
             u == a \o c
  <1>1. Len(t) \in Nat
    OBVIOUS
  <1>2. applyOp(t, Delete(p, n)) = u
    <2>1. Least(p, Len(t)) = p /\ Least(n, Len(t) - p) = n
      BY <1>1 DEF Least
    <2>2. Delete(p, n).type = "D" /\ Delete(p, n).pos = p /\ Delete(p, n).len = n
      BY DEF Delete
    <2>3. Delete(p, n).type # "I"
      BY <2>2
    <2>4. applyOp(t, Delete(p, n)) = SubSeq(t, 1, p) \o SubSeq(t, p + n + 1, Len(t))
      BY <2>1, <2>2, <2>3, Zenon DEF applyOp
    <2>5. 0 + 1 = 1
      OBVIOUS
    <2> QED  BY <2>4, <2>5, Zenon
  <1>3. a \in Seq(Char) /\ Len(a) = p /\ \A k \in 1..p : a[k] = t[k]
    <2>1. 0 \in 0..Len(t) /\ p \in 0..Len(t) /\ p - 0 = p /\ \A k \in 1..p : 0 + k = k
      BY <1>1
    <2> QED  BY <2>1, Part
  <1>4. c \in Seq(Char) /\ Len(c) = Len(t) - (p + n) /\ \A k \in 1..(Len(t) - (p + n)) : c[k] = t[(p + n) + k]
    <2>1. p + n \in 0..Len(t) /\ Len(t) \in (p + n)..Len(t)
      BY <1>1
    <2> QED  BY <2>1, Part
  <1> HIDE DEF a, c
  <1>5. /\ u \in Seq(Char) /\ Len(u) = Len(a) + Len(c)
        /\ \A k \in 1..(Len(a) + Len(c)) : u[k] = IF k <= Len(a) THEN a[k] ELSE c[k - Len(a)]
    BY <1>3, <1>4, Joined
  <1> HIDE DEF u
  <1>6. Len(u) = Len(t) - n
    BY <1>1, <1>3, <1>4, <1>5
  <1>7. ASSUME NEW k \in 1..(Len(t) - n) PROVE u[k] = IF k <= p THEN t[k] ELSE t[k + n]
    <2>0. u[k] = IF k <= p THEN a[k] ELSE c[k - p]
      <3>1. k \in 1..(Len(a) + Len(c))
        BY <1>5, <1>6
      <3> QED  BY <1>3, <1>5, <3>1
    <2>1. CASE k <= p
      BY <1>1, <1>3, <2>0, <2>1
    <2>2. CASE ~(k <= p)
      <3>1. k - p \in 1..(Len(t) - (p + n)) /\ (p + n) + (k - p) = k + n
        BY <1>1, <2>2
      <3>2. c[k - p] = t[k + n]
        BY <1>4, <3>1, Zenon
      <3> QED  BY <2>0, <2>2, <3>2
    <2> QED  BY <2>1, <2>2
  <1> QED  BY <1>2, <1>5, <1>6, <1>7

\* Operations in two parts, one after the other.
LEMMA ApplyThen ==
    ASSUME NEW text, NEW ops, NEW d, NEW qs, Len(ops) \in Nat, Len(d) \in Nat, Len(qs) = Len(ops) + Len(d),
           \A i \in 1..Len(ops) : qs[i] = ops[i], \A i \in 1..Len(d) : qs[Len(ops) + i] = d[i]
    PROVE  ApplyAll(text, qs) = ApplyAll(ApplyAll(text, ops), d)
  <1> DEFINE n == Len(ops)
             m == Len(d)
             mid == ApplyAll(text, ops)
  <1>1. PICK g : Obeys(text, ops, g, n) /\ mid = g[n]
    BY ApplyAllObeys
  <1>2. PICK h : Obeys(text, qs, h, n + m) /\ ApplyAll(text, qs) = h[n + m]
    <2>1. Len(qs) \in Nat /\ Len(qs) = n + m
      OBVIOUS
    <2>2. \E h : Obeys(text, qs, h, Len(qs)) /\ ApplyAll(text, qs) = h[Len(qs)]
      BY <2>1, ApplyAllObeys
    <2> QED  BY <2>1, <2>2, Zenon
  <1>3. PICK f : Obeys(mid, d, f, m) /\ ApplyAll(mid, d) = f[m]
    BY ApplyAllObeys
  <1>4. /\ n \in Nat /\ m \in Nat
        /\ \A i \in 1..n : ops[i] = qs[i]
        /\ \A i \in 1..m : qs[n + i] = d[i]
    OBVIOUS
  <1> HIDE DEF n, m, mid
  <1>5. n <= n + m /\ n + m \in Nat /\ n \in 0..n /\ m \in 0..m
    BY <1>4
  <1>6. h[n] = mid
    BY <1>1, <1>2, <1>4, <1>5, ObeysSame
  <1> DEFINE T == {k \in 0..m : h[n + k] # f[k]}
  <1>7. T = {}
    <2> SUFFICES ASSUME T # {} PROVE FALSE
      OBVIOUS
    <2>1. PICK k \in T : \A j \in T : k <= j
      <3>1. T \in SUBSET Nat
        BY <1>4
      <3> HIDE DEF T
      <3> QED  BY <3>1, LeastOf
    <2>2. k \in 0..m /\ h[n + k] # f[k]
      BY <2>1
    <2>3. n + k \in 0..(n + m)
      BY <1>4, <2>2
    <2>4. h[n + k] = Applied(text, qs, h, n + k) /\ f[k] = Applied(mid, d, f, k)
      BY <1>2, <1>3, <1>4, <1>5, <2>2, <2>3, ObeysAt
    <2>5. CASE k = 0
      <3>1. n + k = n
        BY <1>4, <2>5
      <3>2. f[k] = mid
        BY <2>4, <2>5 DEF Applied
      <3> QED  BY <1>6, <2>2, <3>1, <3>2
    <2>6. CASE k # 0
      <3>1. k - 1 \in 0..m /\ ~(k <= k - 1) /\ k \in 1..m /\ (n + k) - 1 = n + (k - 1) /\ n + k # 0
        BY <1>4, <2>2, <2>6
      <3>2. h[n + (k - 1)] = f[k - 1]
        BY <2>1, <3>1
      <3>3. qs[n + k] = d[k]
        BY <1>4, <3>1
      <3>4. h[n + k] = applyOp(h[n + (k - 1)], qs[n + k])
        BY <2>4, <3>1, Zenon DEF Applied
      <3>5. f[k] = applyOp(f[k - 1], d[k])
        BY <2>4, <2>6, Zenon DEF Applied
      <3> QED  BY <2>2, <3>2, <3>3, <3>4, <3>5, Zenon
    <2> QED  BY <2>5, <2>6
  <1>8. h[n + m] = f[m]
    BY <1>5, <1>7
  <1> QED  BY <1>2, <1>3, <1>8 DEF mid

LEMMA ApplyOne ==
    ASSUME NEW text, NEW op
    PROVE  ApplyAll(text, <<op>>) = applyOp(text, op)
  <1> DEFINE none == <<>>
             one == <<op>>
  <1>1. Len(none) = 0 /\ Len(one) = 1 /\ one[1] = op /\ \A i \in 1..0 : FALSE
    OBVIOUS
  <1>2. ApplyAll(text, none) = text
    BY ApplyNone
  <1> HIDE DEF none, one
  <1>3. Len(none) \in Nat /\ Len(one) = Len(none) + 1 /\ \A i \in 1..Len(none) : none[i] = one[i]
    BY <1>1
  <1>4. ApplyAll(text, one) = applyOp(ApplyAll(text, none), one[Len(none) + 1])
    BY <1>3, ApplyMore
  <1>5. Len(none) + 1 = 1
    BY <1>1
  <1> QED  BY <1>1, <1>2, <1>4, <1>5 DEF one

-----------------------------------------------------------------------------
(* computeDelta.                                                           *)

\* There is a longest common prefix.
LEMMA PrefixCommon ==
    ASSUME NEW s \in Seq(Char), NEW t \in Seq(Char)
    PROVE  /\ CommonPrefix(s, t) \in 0..Len(s)
           /\ CommonPrefix(s, t) \in 0..Len(t)
           /\ \A k \in 1..CommonPrefix(s, t) : s[k] = t[k]
  <1> DEFINE l == Least(Len(s), Len(t))
             P(n) == /\ SubSeq(s, 1, n) = SubSeq(t, 1, n)
                     /\ n < l => s[n + 1] # t[n + 1]
  <1>1. l \in Nat /\ l <= Len(s) /\ l <= Len(t) /\ Len(s) \in Nat /\ Len(t) \in Nat
    BY DEF Least
  <1>2. CommonPrefix(s, t) = CHOOSE n \in 0..l : P(n)
    BY Zenon DEF CommonPrefix
  <1> HIDE DEF l
  <1>3. ASSUME NEW n \in 0..l
        PROVE  /\ SubSeq(s, 1, n) \in Seq(Char) /\ SubSeq(t, 1, n) \in Seq(Char)
               /\ Len(SubSeq(s, 1, n)) = n /\ Len(SubSeq(t, 1, n)) = n
               /\ \A k \in 1..n : SubSeq(s, 1, n)[k] = s[k] /\ SubSeq(t, 1, n)[k] = t[k]
    <2>1. n \in 0..Len(s) /\ n \in 0..Len(t) /\ 0 \in 0..Len(s) /\ 0 \in 0..Len(t) /\ n - 0 = n /\ 0 + 1 = 1
      BY <1>1
    <2>2. \A k \in 1..n : 0 + k = k
      OBVIOUS
    <2> QED  BY <2>1, <2>2, Part
  <1>4. \E n \in 0..l : P(n)
    <2> DEFINE T == {k \in 1..l : s[k] # t[k]}
    <2>1. PICK n \in 0..l : (\A k \in 1..n : s[k] = t[k]) /\ (n < l => s[n + 1] # t[n + 1])
      <3>1. CASE T = {}
        <4>1. l \in 0..l /\ ~(l < l) /\ \A k \in 1..l : s[k] = t[k]
          BY <1>1, <3>1
        <4> QED  BY <4>1
      <3>2. CASE T # {}
        <4>1. T \in SUBSET Nat
          OBVIOUS
        <4>2. PICK k \in T : \A j \in T : k <= j
          <5> HIDE DEF T
          <5> QED  BY <3>2, <4>1, LeastOf
        <4>3. k \in 1..l /\ s[k] # t[k]
          BY <4>2
        <4>4. k - 1 \in 0..l /\ (k - 1) + 1 = k
          BY <1>1, <4>3
        <4>5. \A j \in 1..(k - 1) : s[j] = t[j]
          BY <1>1, <4>2, <4>3
        <4> QED  BY <4>3, <4>4, <4>5
      <3> QED  BY <3>1, <3>2
    <2>2. SubSeq(s, 1, n) = SubSeq(t, 1, n)
      <3> DEFINE x == SubSeq(s, 1, n)
                 y == SubSeq(t, 1, n)
      <3>1. x \in Seq(Char) /\ y \in Seq(Char) /\ Len(x) = n /\ Len(y) = n /\ \A k \in 1..n : x[k] = y[k]
        BY <1>3, <2>1
      <3> HIDE DEF x, y
      <3>2. x = y
        BY <3>1, SeqEqual
      <3> QED  BY <3>2 DEF x, y
    <2> QED  BY <2>1, <2>2
  <1> DEFINE c == CommonPrefix(s, t)
  <1>5. c \in 0..l /\ P(c)
    BY <1>2, <1>4, Zenon
  <1> HIDE DEF c
  <1>6. \A k \in 1..c : s[k] = t[k]
    BY <1>3, <1>5
  <1>7. c \in 0..Len(s) /\ c \in 0..Len(t)
    BY <1>1, <1>5
  <1> QED  BY <1>6, <1>7 DEF c

LEMMA Reversed ==
    ASSUME NEW s \in Seq(Char)
    PROVE  /\ Reverse(s) \in Seq(Char)
           /\ Len(Reverse(s)) = Len(s)
           /\ \A k \in 1..Len(s) : Reverse(s)[k] = s[Len(s) - k + 1]
  <1> DEFINE r == [k \in 1..Len(s) |-> s[(Len(s) - k) + 1]]
  <1>1. Reverse(s) = r
    BY Zenon DEF Reverse
  <1>2. Len(s) \in Nat /\ s \in [1..Len(s) -> Char]
    OBVIOUS
  <1>3. \A k \in 1..Len(s) : (Len(s) - k) + 1 \in 1..Len(s)
    BY <1>2
  <1>4. r \in [1..Len(s) -> Char]
    BY <1>2, <1>3
  <1>5. r \in Seq(Char) /\ Len(r) = Len(s) /\ \A k \in 1..Len(s) : r[k] = s[(Len(s) - k) + 1]
    BY <1>2, <1>4
  <1> HIDE DEF r
  <1> QED  BY <1>1, <1>5

\* The operations of an edit make of the old text the new one.
LEMMA DeltaTrue ==
    ASSUME NEW old \in Seq(Char), NEW new \in Seq(Char)
    PROVE  /\ Len(computeDelta(old, new)) \in Nat
           /\ DOMAIN computeDelta(old, new) = 1..Len(computeDelta(old, new))
           /\ \A k \in 1..Len(computeDelta(old, new)) : computeDelta(old, new)[k] \in Operation
           /\ ApplyAll(old, computeDelta(old, new)) = new
  <1> DEFINE i == CommonPrefix(old, new)
             restOld == SubSeq(old, i + 1, Len(old))
             restNew == SubSeq(new, i + 1, Len(new))
             j == CommonPrefix(Reverse(restOld), Reverse(restNew))
             oldMid == SubSeq(old, i + 1, Len(old) - j)
             newMid == SubSeq(new, i + 1, Len(new) - j)
             del == IF oldMid = <<>> THEN <<>> ELSE <<Delete(i, Len(oldMid))>>
             ins == IF newMid = <<>> THEN <<>> ELSE <<Insert(i, newMid)>>
             lo == Len(old)
             ln == Len(new)
  <1>1. computeDelta(old, new) = del \o ins
    BY DEF computeDelta
  <1>2. lo \in Nat /\ ln \in Nat
    OBVIOUS
  <1>3. i \in 0..lo /\ i \in 0..ln /\ \A k \in 1..i : old[k] = new[k]
    BY PrefixCommon
  <1> HIDE DEF i
  <1>4. /\ restOld \in Seq(Char) /\ Len(restOld) = lo - i /\ \A k \in 1..(lo - i) : restOld[k] = old[i + k]
        /\ restNew \in Seq(Char) /\ Len(restNew) = ln - i /\ \A k \in 1..(ln - i) : restNew[k] = new[i + k]
    <2>1. lo \in i..lo /\ ln \in i..ln
      BY <1>2, <1>3
    <2> QED  BY <1>2, <1>3, <2>1, Part
  <1> HIDE DEF restOld, restNew
  <1>5. /\ j \in 0..(lo - i) /\ j \in 0..(ln - i)
        /\ \A k \in 1..j : Reverse(restOld)[k] = Reverse(restNew)[k]
    <2> DEFINE x == Reverse(restOld)
               y == Reverse(restNew)
    <2>1. x \in Seq(Char) /\ y \in Seq(Char) /\ Len(x) = lo - i /\ Len(y) = ln - i
      BY <1>4, Reversed
    <2> HIDE DEF x, y
    <2>2. CommonPrefix(x, y) \in 0..(lo - i) /\ CommonPrefix(x, y) \in 0..(ln - i)
          /\ \A k \in 1..CommonPrefix(x, y) : x[k] = y[k]
      BY <2>1, PrefixCommon
    <2> QED  BY <2>2, Zenon DEF x, y
  <1> HIDE DEF j
  <1>6. \A k \in 1..j : old[lo - k + 1] = new[ln - k + 1]
    <2> TAKE k \in 1..j
    <2>1. k \in 1..(lo - i) /\ k \in 1..(ln - i) /\ (lo - i) - k + 1 \in 1..(lo - i) /\ (ln - i) - k + 1 \in 1..(ln - i)
      BY <1>2, <1>3, <1>5
    <2>2. Reverse(restOld)[k] = restOld[(lo - i) - k + 1] /\ Reverse(restNew)[k] = restNew[(ln - i) - k + 1]
      <3>1. k \in 1..Len(restOld) /\ k \in 1..Len(restNew) /\ restOld \in Seq(Char) /\ restNew \in Seq(Char)
        BY <1>4, <2>1
      <3>2. /\ Reverse(restOld)[k] = restOld[Len(restOld) - k + 1]
            /\ Reverse(restNew)[k] = restNew[Len(restNew) - k + 1]
        BY <3>1, Reversed
      <3>3. Len(restOld) = lo - i /\ Len(restNew) = ln - i
        BY <1>4
      <3> QED  BY <3>2, <3>3, Zenon
    <2>3. i + ((lo - i) - k + 1) = lo - k + 1 /\ i + ((ln - i) - k + 1) = ln - k + 1
      BY <1>2, <1>3, <2>1
    <2>4. restOld[(lo - i) - k + 1] = old[lo - k + 1] /\ restNew[(ln - i) - k + 1] = new[ln - k + 1]
      BY <1>4, <2>1, <2>3
    <2> QED  BY <1>5, <2>2, <2>4
  <1>7. /\ oldMid \in Seq(Char) /\ Len(oldMid) = lo - j - i
        /\ newMid \in Seq(Char) /\ Len(newMid) = ln - j - i
        /\ \A k \in 1..(ln - j - i) : newMid[k] = new[i + k]
    <2>1. lo - j \in i..lo /\ ln - j \in i..ln
      BY <1>2, <1>3, <1>5
    <2> QED  BY <1>2, <1>3, <2>1, Part
  <1> HIDE DEF oldMid, newMid, lo, ln
  <1>8. i \in Nat /\ Len(oldMid) \in Nat /\ i + Len(oldMid) <= lo
    BY <1>2, <1>3, <1>5, <1>7
  <1>9. Delete(i, Len(oldMid)) \in Operation /\ Insert(i, newMid) \in Operation
    BY <1>7, <1>8, NewOperations
  \* After the deletion, prefix and suffix are left.
  <1>10. PICK mid : mid = ApplyAll(old, del)
    OBVIOUS
  <1>11. /\ mid \in Seq(Char) /\ Len(mid) = i + j
         /\ \A k \in 1..(i + j) : mid[k] = IF k <= i THEN old[k] ELSE old[k + (lo - j - i)]
    <2>1. CASE oldMid = <<>>
      <3>1. mid = old
        BY <1>10, <2>1, ApplyNone, Zenon
      <3>2. lo - j - i = 0
        BY <1>7, <2>1
      <3>3. lo = i + j /\ \A k \in 1..(i + j) : k + (lo - j - i) = k
        BY <1>2, <1>3, <1>5, <3>2
      <3> QED  BY <3>1, <3>3 DEF lo
    <2>2. CASE oldMid # <<>>
      <3>1. mid = applyOp(old, Delete(i, Len(oldMid)))
        BY <1>10, <2>2, ApplyOne, Zenon
      <3>2. lo - Len(oldMid) = i + j
        BY <1>2, <1>3, <1>5, <1>7
      <3>3. /\ mid \in Seq(Char) /\ Len(mid) = lo - Len(oldMid)
            /\ \A k \in 1..(lo - Len(oldMid)) : mid[k] = IF k <= i THEN old[k] ELSE old[k + Len(oldMid)]
        <4>1. PICK m : m = Len(oldMid)
          OBVIOUS
        <4>2. lo = Len(old) /\ i \in Nat /\ m \in Nat /\ i + m <= Len(old) /\ mid = applyOp(old, Delete(i, m))
          BY <1>8, <3>1, <4>1 DEF lo
        <4>3. /\ applyOp(old, Delete(i, m)) \in Seq(Char)
              /\ Len(applyOp(old, Delete(i, m))) = Len(old) - m
              /\ \A k \in 1..(Len(old) - m) : applyOp(old, Delete(i, m))[k] = IF k <= i THEN old[k] ELSE old[k + m]
          BY <4>2, ErasedAt
        <4> QED  BY <4>1, <4>2, <4>3, Zenon
      <3> QED  BY <1>7, <3>2, <3>3
    <2> QED  BY <2>1, <2>2
  \* After the insertion, the new text is there.
  <1>12. PICK u : u = ApplyAll(mid, ins)
    OBVIOUS
  <1>13. /\ u \in Seq(Char) /\ Len(u) = ln
         /\ \A k \in 1..ln : u[k] = IF k <= i THEN mid[k] ELSE IF k <= ln - j THEN newMid[k - i] ELSE mid[k - (ln - j - i)]
    <2>1. CASE newMid = <<>>
      <3>1. u = mid
        BY <1>12, <2>1, ApplyNone, Zenon
      <3>2. ln - j - i = 0
        BY <1>7, <2>1
      <3>3. ln = i + j /\ ln - j = i /\ \A k \in 1..ln : k - (ln - j - i) = k
        BY <1>2, <1>3, <1>5, <3>2
      <3> QED  BY <1>11, <3>1, <3>3
    <2>2. CASE newMid # <<>>
      <3>1. u = applyOp(mid, Insert(i, newMid))
        BY <1>12, <2>2, ApplyOne, Zenon
      <3>2. i \in 0..Len(mid) /\ Len(mid) + Len(newMid) = ln /\ i + Len(newMid) = ln - j
        BY <1>2, <1>3, <1>5, <1>7, <1>11
      <3>3. /\ u \in Seq(Char) /\ Len(u) = Len(mid) + Len(newMid)
            /\ \A k \in 1..(Len(mid) + Len(newMid)) :
                 u[k] = IF k <= i THEN mid[k] ELSE IF k <= i + Len(newMid) THEN newMid[k - i] ELSE mid[k - Len(newMid)]
        BY <1>7, <1>11, <3>1, <3>2, InsertedAt
      <3> QED  BY <1>7, <3>2, <3>3
    <2> QED  BY <2>1, <2>2
  <1>14. ASSUME NEW k \in 1..ln PROVE u[k] = new[k]
    <2>1. CASE k <= i
      <3>1. k \in 1..i /\ k \in 1..(i + j)
        BY <1>3, <1>5, <2>1
      <3> QED  BY <1>3, <1>11, <1>13, <2>1, <3>1
    <2>2. CASE ~(k <= i) /\ k <= ln - j
      <3>1. k - i \in 1..(ln - j - i) /\ i + (k - i) = k
        BY <1>2, <1>3, <1>5, <2>2
      <3>2. newMid[k - i] = new[k]
        BY <1>7, <3>1, Zenon
      <3> QED  BY <1>13, <2>2, <3>2
    <2>3. CASE ~(k <= ln - j)
      <3> DEFINE q == ln - k + 1
                 w == k - (ln - j - i)
      <3>1. ~(k <= i) /\ w \in 1..(i + j) /\ ~(w <= i) /\ w + (lo - j - i) = lo - q + 1 /\ q \in 1..j /\ ln - q + 1 = k
        BY <1>2, <1>3, <1>5, <2>3
      <3>2. u[k] = mid[w]
        BY <1>13, <2>3, <3>1
      <3> HIDE DEF q, w
      <3>3. mid[w] = old[lo - q + 1]
        BY <1>11, <3>1
      <3>4. old[lo - q + 1] = new[ln - q + 1]
        BY <1>6, <3>1
      <3> QED  BY <3>1, <3>2, <3>3, <3>4
    <2> QED  BY <2>1, <2>2, <2>3
  <1>15. u = new
    <2>1. Len(new) = ln
      BY DEF ln
    <2> QED  BY <1>13, <1>14, <2>1, SeqEqual
  <1>16. del \in Seq(Operation) /\ ins \in Seq(Operation)
    BY <1>9
  <1> DEFINE all == del \o ins
  <1> HIDE DEF del, ins
  <1>17. /\ all \in Seq(Operation) /\ Len(all) = Len(del) + Len(ins)
         /\ \A k \in 1..(Len(del) + Len(ins)) : all[k] = IF k <= Len(del) THEN del[k] ELSE ins[k - Len(del)]
    BY <1>16, ConcatProperties
  <1> HIDE DEF all
  <1>18. Len(del) \in Nat /\ Len(ins) \in Nat
    BY <1>16
  <1>19. \A k \in 1..Len(del) : all[k] = del[k]
    BY <1>17, <1>18
  <1>20. \A k \in 1..Len(ins) : all[Len(del) + k] = ins[k]
    <2> TAKE k \in 1..Len(ins)
    <2>1. Len(del) + k \in 1..(Len(del) + Len(ins)) /\ ~(Len(del) + k <= Len(del)) /\ (Len(del) + k) - Len(del) = k
      BY <1>18
    <2> QED  BY <1>17, <2>1
  <1>21. ApplyAll(old, all) = ApplyAll(ApplyAll(old, del), ins)
    BY <1>17, <1>18, <1>19, <1>20, ApplyThen
  <1>22. Len(all) \in Nat /\ DOMAIN all = 1..Len(all) /\ \A k \in 1..Len(all) : all[k] \in Operation
    BY <1>17
  <1>23. computeDelta(old, new) = all
    BY <1>1 DEF all, del, ins
  <1>24. ApplyAll(old, all) = new
    BY <1>10, <1>12, <1>15, <1>21 DEF del, ins
  <1> QED  BY <1>22, <1>23, <1>24

-----------------------------------------------------------------------------
(* What a user sees.                                                       *)

\* The state of a browser is made of texts and operations, and its textarea
\* shows them; nothing is pending without a document.
Shown(e) ==
    /\ e.es \in BOOLEAN
    /\ e.serverText \in Seq(Char)
    /\ \A i \in 1..Len(e.pending) : e.pending[i].op \in Operation
    /\ ~e.es => e.pending = <<>>
    /\ e.es => e.ta = fullText(e)

PostsTyped(ps) == \A p \in ps : p.op \in Operation

CommitRec == [client : Browser, seq : Nat, op : Operation]

ShownInv ==
    /\ setting \in Settings
    /\ committed \in Seq(CommitRec)
    /\ PostsTyped(posts)
    /\ \A b \in Browser : Shown(ed[b])

\* The operations of pending.
OpsOf(pending) == [i \in DOMAIN pending |-> pending[i].op]

LEMMA OpsOfPending ==
    ASSUME NEW S, NEW s \in Seq(S)
    PROVE  Len(s) \in Nat /\ Len(OpsOf(s)) = Len(s) /\ \A i \in 1..Len(s) : OpsOf(s)[i] = s[i].op
  <1>1. Len(s) \in Nat /\ DOMAIN s = 1..Len(s)
    OBVIOUS
  <1>2. DOMAIN OpsOf(s) = 1..Len(s) /\ \A i \in 1..Len(s) : OpsOf(s)[i] = s[i].op
    BY <1>1 DEF OpsOf
  <1>3. OpsOf(s) \in Seq(Range(OpsOf(s)))
    <2>1. OpsOf(s) = [i \in 1..Len(s) |-> OpsOf(s)[i]]
      BY <1>1 DEF OpsOf
    <2>2. OpsOf(s) \in [1..Len(s) -> Range(OpsOf(s))]
      BY <1>2, <2>1 DEF Range
    <2> QED  BY <1>1, <2>2
  <1>4. Len(OpsOf(s)) = Len(s)
    BY <1>1, <1>2, <1>3
  <1> QED  BY <1>1, <1>2, <1>4

LEMMA FullText ==
    ASSUME NEW e
    PROVE  fullText(e) = ApplyAll(e.serverText, OpsOf(e.pending))
  BY Zenon DEF fullText, OpsOf

\* Without pending operations the text is the server's.
LEMMA FullEmpty ==
    ASSUME NEW e, e.pending = <<>>
    PROVE  fullText(e) = e.serverText
  <1> DEFINE none == <<>>
  <1>1. none \in Seq({}) /\ Len(none) = 0 /\ e.pending = none
    OBVIOUS
  <1>2. ApplyAll(e.serverText, none) = e.serverText
    BY ApplyNone
  <1> HIDE DEF none
  <1>3. Len(OpsOf(none)) = 0
    BY <1>1, OpsOfPending
  <1>4. \A i \in 1..Len(none) : FALSE
    BY <1>1
  <1>5. Len(none) \in Nat /\ Len(OpsOf(none)) = Len(none)
    BY <1>1, <1>3
  <1>6. ApplyAll(e.serverText, OpsOf(none)) = ApplyAll(e.serverText, none)
    BY <1>4, <1>5, ApplySame
  <1> QED  BY <1>1, <1>2, <1>6, FullText

LEMMA FullTyped ==
    ASSUME NEW e, PendingGood(e), Shown(e)
    PROVE  fullText(e) \in Seq(Char)
  <1>1. e.pending \in Seq(Range(e.pending)) /\ e.serverText \in Seq(Char)
        /\ \A i \in 1..Len(e.pending) : e.pending[i].op \in Operation
    BY DEF PendingGood, Shown
  <1> DEFINE ops == OpsOf(e.pending)
  <1>2. Len(ops) \in Nat /\ \A i \in 1..Len(ops) : ops[i] \in Operation
    BY <1>1, OpsOfPending
  <1> HIDE DEF ops
  <1>3. ApplyAll(e.serverText, ops) \in Seq(Char)
    BY <1>1, <1>2, ApplyAllTyped
  <1> QED  BY <1>3, FullText DEF ops

\* The operations of an edit, as they are put behind the pending ones.
Numbered(n, ops) == [i \in DOMAIN ops |-> [seq |-> n + i - 1, op |-> ops[i]]]

\* After an edit, the text is the one the user made.
LEMMA FullEdited ==
    ASSUME NEW e, PendingGood(e), Shown(e), NEW text \in Seq(Char), NEW f, NEW ops,
           ops = computeDelta(fullText(e), text),
           f.serverText = e.serverText,
           f.pending = e.pending \o Numbered(e.nextSeq, ops)
    PROVE  /\ fullText(f) = text
           /\ \A i \in 1..Len(f.pending) : f.pending[i].op \in Operation
  <1> DEFINE s == e.pending
             t == [i \in DOMAIN ops |-> [seq |-> e.nextSeq + i - 1, op |-> ops[i]]]
             u == s \o t
  <1>1. s \in Seq(Range(s)) /\ \A i \in 1..Len(s) : s[i].op \in Operation
    BY DEF PendingGood, Shown
  <1>2. fullText(e) \in Seq(Char)
    BY FullTyped
  <1>3. /\ Len(ops) \in Nat /\ DOMAIN ops = 1..Len(ops) /\ \A k \in 1..Len(ops) : ops[k] \in Operation
        /\ ApplyAll(fullText(e), ops) = text
    BY <1>2, DeltaTrue
  <1>4. DOMAIN t = 1..Len(ops) /\ \A i \in 1..Len(ops) : t[i].op = ops[i]
    BY <1>3
  <1>5. t \in [1..Len(ops) -> Range(t)]
    BY <1>3 DEF Range
  <1>6. t \in Seq(Range(t)) /\ Len(t) = Len(ops)
    BY <1>3, <1>5
  <1>7. f.pending = u
    BY Zenon DEF Numbered
  <1> HIDE DEF s, t
  <1> DEFINE S == Range(s) \cup Range(t)
  <1>8. s \in Seq(S) /\ t \in Seq(S)
    BY <1>1, <1>6
  <1>9. u \in Seq(S) /\ Len(u) = Len(s) + Len(t)
        /\ \A i \in 1..(Len(s) + Len(t)) : u[i] = IF i <= Len(s) THEN s[i] ELSE t[i - Len(s)]
    <2> HIDE DEF S
    <2> QED  BY <1>8, ConcatProperties
  <1> HIDE DEF u, S
  <1>10. Len(s) \in Nat /\ Len(t) \in Nat
    BY <1>8
  <1>11. \A i \in 1..Len(s) : u[i] = s[i]
    BY <1>9, <1>10
  <1>12. \A i \in 1..Len(ops) : u[Len(s) + i] = t[i]
    <2> TAKE i \in 1..Len(ops)
    <2>1. Len(s) + i \in 1..(Len(s) + Len(t)) /\ ~(Len(s) + i <= Len(s)) /\ (Len(s) + i) - Len(s) = i
      BY <1>6, <1>10
    <2> QED  BY <1>9, <2>1
  <1>13. \A i \in 1..Len(u) : u[i].op \in Operation
    <2> TAKE i \in 1..Len(u)
    <2>1. CASE i <= Len(s)
      <3>1. i \in 1..Len(s)
        BY <1>9, <1>10, <2>1
      <3> QED  BY <1>1, <1>11, <3>1, Zenon
    <2>2. CASE ~(i <= Len(s))
      <3>1. i - Len(s) \in 1..Len(ops) /\ Len(s) + (i - Len(s)) = i
        BY <1>6, <1>9, <1>10, <2>2
      <3>2. u[i] = t[i - Len(s)]
        BY <1>12, <3>1
      <3> QED  BY <1>3, <1>4, <3>1, <3>2
    <2> QED  BY <2>1, <2>2
  <1> DEFINE os == OpsOf(s)
             ou == OpsOf(u)
  <1>14. /\ Len(os) = Len(s) /\ Len(ou) = Len(u)
         /\ \A i \in 1..Len(s) : os[i] = s[i].op
         /\ \A i \in 1..Len(u) : ou[i] = u[i].op
    BY <1>8, <1>9, OpsOfPending
  <1> HIDE DEF os, ou
  <1>15. Len(os) \in Nat /\ Len(ou) = Len(os) + Len(ops)
    BY <1>6, <1>9, <1>10, <1>14
  <1>16. \A i \in 1..Len(os) : ou[i] = os[i]
    <2> TAKE i \in 1..Len(os)
    <2>1. i \in 1..Len(s) /\ i \in 1..Len(u)
      BY <1>9, <1>10, <1>14
    <2> QED  BY <1>11, <1>14, <2>1
  <1>17. \A i \in 1..Len(ops) : ou[Len(os) + i] = ops[i]
    <2> TAKE i \in 1..Len(ops)
    <2>1. Len(s) + i \in 1..Len(u)
      BY <1>6, <1>9, <1>10
    <2>2. ou[Len(s) + i] = u[Len(s) + i].op
      BY <1>14, <2>1
    <2> QED  BY <1>4, <1>12, <1>14, <2>2
  <1>18. ApplyAll(e.serverText, ou) = ApplyAll(ApplyAll(e.serverText, os), ops)
    BY <1>3, <1>15, <1>16, <1>17, ApplyThen
  <1>19. fullText(e) = ApplyAll(e.serverText, os)
    BY FullText DEF os, s
  <1>20. fullText(f) = ApplyAll(e.serverText, ou)
    BY <1>7, FullText DEF ou
  <1> QED  BY <1>3, <1>7, <1>13, <1>18, <1>19, <1>20

-----------------------------------------------------------------------------
(* The fields that a browser's handlers set.                               *)

\* syncTextareaFromModel.
LEMMA SyncFields ==
    ASSUME NEW g, DOMAIN g = EdFields
    PROVE  /\ DOMAIN syncTextareaFromModel(g) = EdFields
           /\ syncTextareaFromModel(g).ta = fullText(g)
           /\ \A n \in EdFields \ {"ta"} : syncTextareaFromModel(g)[n] = g[n]
           /\ fullText(syncTextareaFromModel(g)) = fullText(g)
  <1> DEFINE ta == fullText(g)
             f == [g EXCEPT !.ta = ta]
  <1>1. syncTextareaFromModel(g) = f
    BY Zenon DEF syncTextareaFromModel
  <1> HIDE DEF ta
  <1>2. DOMAIN f = EdFields /\ f.ta = ta /\ \A n \in EdFields \ {"ta"} : f[n] = g[n]
    BY DEF EdFields
  <1>3. f.serverText = g.serverText /\ f.pending = g.pending
    BY DEF EdFields
  <1> HIDE DEF f
  <1>4. fullText(f) = fullText(g)
    BY <1>3, Zenon DEF fullText
  <1> QED  BY <1>1, <1>2, <1>4 DEF ta

\* A frame that is taken note of.
Seen(e, f, version) ==
    /\ DOMAIN f = EdFields /\ f.last_seen = version
    /\ f.serverText = e.serverText /\ f.pending = e.pending /\ f.inflightSeq = e.inflightSeq
    /\ f.mySeqs = e.mySeqs /\ f.serverVersion = e.serverVersion
    /\ f.es = e.es /\ f.nextSeq = e.nextSeq /\ f.timeouts = e.timeouts /\ f.ta = e.ta

LEMMA SeenFields ==
    ASSUME NEW e, DOMAIN e = EdFields, NEW version, NEW f, f = [e EXCEPT !.last_seen = version]
    PROVE  Seen(e, f, version)
  BY DEF EdFields, Seen

\* The commit of an own operation.
Acked(e, f, version, op) ==
    /\ DOMAIN f = EdFields
    /\ f.serverText = applyOp(e.serverText, op) /\ f.pending = Tail(e.pending) /\ f.inflightSeq = None
    /\ f.mySeqs = e.mySeqs \ {Head(e.pending).seq} /\ f.serverVersion = version
    /\ f.es = e.es /\ f.nextSeq = e.nextSeq /\ f.timeouts = e.timeouts /\ f.last_seen = e.last_seen
    /\ f.ta = fullText(f)

LEMMA AckFields ==
    ASSUME NEW e, DOMAIN e = EdFields, NEW version, NEW op, NEW f, f = AckOwn(e, version, op)
    PROVE  Acked(e, f, version, op)
  <1> DEFINE st == applyOp(e.serverText, op)
             my == e.mySeqs \ {Head(e.pending).seq}
             pe == Tail(e.pending)
             g == [e EXCEPT !.serverText = st, !.pending = pe, !.inflightSeq = None, !.mySeqs = my,
                            !.serverVersion = version]
  <1>1. f = syncTextareaFromModel(g)
    BY Zenon DEF AckOwn
  <1> HIDE DEF st, my, pe
  <1>2. /\ DOMAIN g = EdFields
        /\ g.serverText = st /\ g.pending = pe /\ g.inflightSeq = None
        /\ g.mySeqs = my /\ g.serverVersion = version
        /\ g.es = e.es /\ g.nextSeq = e.nextSeq /\ g.timeouts = e.timeouts /\ g.last_seen = e.last_seen
    BY DEF EdFields
  <1> HIDE DEF g
  <1>3. DOMAIN f = EdFields /\ f.ta = fullText(f) /\ \A n \in EdFields \ {"ta"} : f[n] = g[n]
    BY <1>1, <1>2, SyncFields
  <1>4. /\ f.serverText = g.serverText /\ f.pending = g.pending /\ f.inflightSeq = g.inflightSeq
        /\ f.mySeqs = g.mySeqs /\ f.serverVersion = g.serverVersion
        /\ f.es = g.es /\ f.nextSeq = g.nextSeq /\ f.timeouts = g.timeouts /\ f.last_seen = g.last_seen
    BY <1>3 DEF EdFields
  <1> QED  BY <1>1, <1>2, <1>3, <1>4 DEF st, my, pe, Acked

\* The operation of another browser.
Merge(e, version, op) ==
    syncTextareaFromModel([e EXCEPT !.pending = TransformPending(@, op), !.serverText = applyOp(@, op),
                                    !.serverVersion = version])

Merged(e, f, version, op) ==
    /\ DOMAIN f = EdFields
    /\ f.serverText = applyOp(e.serverText, op) /\ f.pending = TransformPending(e.pending, op)
    /\ f.inflightSeq = e.inflightSeq /\ f.mySeqs = e.mySeqs /\ f.serverVersion = version
    /\ f.es = e.es /\ f.nextSeq = e.nextSeq /\ f.timeouts = e.timeouts /\ f.last_seen = e.last_seen
    /\ f.ta = fullText(f)

LEMMA MergeFields ==
    ASSUME NEW e, DOMAIN e = EdFields, NEW version, NEW op, NEW f, f = Merge(e, version, op)
    PROVE  Merged(e, f, version, op)
  <1> DEFINE st == applyOp(e.serverText, op)
             pe == TransformPending(e.pending, op)
             g == [e EXCEPT !.pending = pe, !.serverText = st, !.serverVersion = version]
  <1>1. f = syncTextareaFromModel(g)
    BY Zenon DEF Merge
  <1> HIDE DEF st, pe
  <1>2. /\ DOMAIN g = EdFields
        /\ g.serverText = st /\ g.pending = pe /\ g.inflightSeq = e.inflightSeq
        /\ g.mySeqs = e.mySeqs /\ g.serverVersion = version
        /\ g.es = e.es /\ g.nextSeq = e.nextSeq /\ g.timeouts = e.timeouts /\ g.last_seen = e.last_seen
    BY DEF EdFields
  <1> HIDE DEF g
  <1>3. DOMAIN f = EdFields /\ f.ta = fullText(f) /\ \A n \in EdFields \ {"ta"} : f[n] = g[n]
    BY <1>1, <1>2, SyncFields
  <1>4. /\ f.serverText = g.serverText /\ f.pending = g.pending /\ f.inflightSeq = g.inflightSeq
        /\ f.mySeqs = g.mySeqs /\ f.serverVersion = g.serverVersion
        /\ f.es = g.es /\ f.nextSeq = g.nextSeq /\ f.timeouts = g.timeouts /\ f.last_seen = g.last_seen
    BY <1>3 DEF EdFields
  <1> QED  BY <1>1, <1>2, <1>3, <1>4 DEF st, pe, Merged

\* The frame that handleSSEOp takes up, and what it does with it.
Frame(b, version) ==
    LET data == committed[version]
        e    == [ed[b] EXCEPT !.last_seen = version]
    IN  /\ version \in NextOf(b)
        /\ \A w \in NextOf(b) : version <= w
        /\ \/ /\ Stale(ed[b], version)
              /\ ed' = [ed EXCEPT ![b] = e] /\ posts' = posts
           \/ /\ ~Stale(ed[b], version)
              /\ e.pending # <<>> /\ data.client = b /\ data.seq = Head(e.pending).seq /\ data.seq \in e.mySeqs
              /\ sendPendingFront(b, AckOwn(e, version, data.op), posts)
           \/ /\ ~Stale(ed[b], version)
              /\ ~(e.pending # <<>> /\ data.client = b /\ data.seq = Head(e.pending).seq /\ data.seq \in e.mySeqs)
              /\ ed' = [ed EXCEPT ![b] = Merge(e, version, data.op)] /\ posts' = posts

LEMMA FrameTaken ==
    ASSUME ShownInv, NEW b \in Browser, handleSSEOp(b)
    PROVE  ed[b].es /\ \E version \in 1..Len(committed) : Frame(b, version)
  <1>1. NextOf(b) \in SUBSET (1..Len(committed)) /\ Len(committed) \in Nat
    BY DEF NextOf, Live, ShownInv
  <1>2. \E v \in NextOf(b) : \A w \in NextOf(b) : v <= w
    <2>1. NextOf(b) \in SUBSET Nat /\ NextOf(b) # {}
      BY <1>1 DEF handleSSEOp
    <2> QED  BY <2>1, LeastOf
  <1> DEFINE version == CHOOSE v \in NextOf(b) : \A w \in NextOf(b) : v <= w
  <1>3. version \in NextOf(b) /\ \A w \in NextOf(b) : version <= w
    BY <1>2, Zenon
  <1>4. Frame(b, version)
    BY <1>3, Zenon DEF handleSSEOp, Frame, Merge
  <1> HIDE DEF version
  <1> QED  BY <1>1, <1>3, <1>4 DEF handleSSEOp

LEMMA CommittedOp ==
    ASSUME ShownInv, NEW v \in 1..Len(committed)
    PROVE  committed[v].op \in Operation /\ committed[v].client \in Browser /\ committed[v].seq \in Nat
  <1>1. committed[v] \in CommitRec
    BY DEF ShownInv
  <1> QED  BY <1>1 DEF CommitRec

\* The text of the server up to a version.
LEMMA TextAtTyped ==
    ASSUME ShownInv, NEW n \in 0..Len(committed)
    PROVE  TextAt(n) \in Seq(Char)
  <1> DEFINE ops == [v \in 1..n |-> IF v \in Live(n) THEN committed[v].op ELSE Insert(0, <<>>)]
  <1>1. Len(committed) \in Nat /\ n \in Nat /\ \A v \in 1..n : v \in 1..Len(committed)
    BY DEF ShownInv
  <1>2. \A v \in 1..n : committed[v].op \in Operation
    BY <1>1, CommittedOp
  <1>3. Insert(0, <<>>) \in Operation /\ <<>> \in Seq(Char)
    <2>1. <<>> \in Seq(Char) /\ 0 \in Nat
      OBVIOUS
    <2> QED  BY <2>1, NewOperations, Zenon
  <1>4. ops \in [1..n -> Operation]
    BY <1>2, <1>3
  <1>5. TextAt(n) = ApplyAll(<<>>, ops)
    BY Zenon DEF TextAt
  <1> HIDE DEF ops
  <1>6. Len(ops) = n /\ \A i \in 1..Len(ops) : ops[i] \in Operation
    BY <1>1, <1>4
  <1>7. ApplyAll(<<>>, ops) \in Seq(Char)
    BY <1>1, <1>3, <1>6, ApplyAllTyped
  <1> QED  BY <1>5, <1>7

\* Posting the front changes nothing of what is shown.
LEMMA SendShown ==
    ASSUME NEW b \in Browser, NEW e, NEW ps, DOMAIN ed = Browser, DOMAIN e = EdFields, PendingGood(e),
           Shown(e), PostsTyped(ps), \A c \in Browser \ {b} : Shown(ed[c]), sendPendingFront(b, e, ps)
    PROVE  PostsTyped(posts') /\ \A c \in Browser : Shown(ed'[c])
  <1>1. CASE e.inflightSeq # None \/ e.pending = <<>>
    <2>1. ed' = [ed EXCEPT ![b] = e] /\ posts' = ps
      BY <1>1, Zenon DEF sendPendingFront
    <2>2. ed'[b] = e /\ \A c \in Browser \ {b} : ed'[c] = ed[c]
      BY <2>1
    <2> QED  BY <2>1, <2>2, Zenon
  <1>2. CASE ~(e.inflightSeq # None \/ e.pending = <<>>)
    <2> DEFINE p == Head(e.pending)
               r == [client |-> b, seq |-> p.seq, op |-> p.op, st |-> "sent", version |-> 0]
               my == e.mySeqs \cup {p.seq}
               f == [e EXCEPT !.inflightSeq = p.seq, !.mySeqs = my]
    <2>1. ed' = [ed EXCEPT ![b] = f] /\ posts' = ps \cup {r}
      BY <1>2, Zenon DEF sendPendingFront
    <2>2. ed'[b] = f /\ \A c \in Browser \ {b} : ed'[c] = ed[c]
      BY <2>1
    <2>3. r.op = p.op
      OBVIOUS
    <2>4. p.op \in Operation
      <3> DEFINE s == e.pending
      <3>1. s \in Seq(Range(s)) /\ s # <<>> /\ \A i \in 1..Len(s) : s[i].op \in Operation
        BY <1>2 DEF PendingGood, Shown
      <3> HIDE DEF s
      <3>2. Head(s) = s[1] /\ 1 \in 1..Len(s)
        BY <3>1
      <3> QED  BY <3>1, <3>2 DEF s
    <2> HIDE DEF p, r, my
    <2>5. f.serverText = e.serverText /\ f.pending = e.pending /\ f.es = e.es /\ f.ta = e.ta
      BY DEF EdFields
    <2> HIDE DEF f
    <2>6. Shown(f)
      BY <2>5, Zenon DEF Shown, fullText
    <2>7. PostsTyped(posts')
      BY <2>1, <2>3, <2>4 DEF PostsTyped
    <2> QED  BY <2>2, <2>6, <2>7, Zenon
  <1> QED  BY <1>1, <1>2

\* A browser's state after the commit of its front, and after another's
\* operation.
LEMMA AckShown ==
    ASSUME NEW e, DOMAIN e = EdFields, PendingGood(e), Shown(e), e.pending # <<>>, e.es, NEW version,
           NEW op \in Operation
    PROVE  Shown(AckOwn(e, version, op))
  <1> DEFINE s == e.pending
  <1>0. PICK f : f = AckOwn(e, version, op)
    OBVIOUS
  <1>1. /\ f.serverText = applyOp(e.serverText, op) /\ f.pending = Tail(s)
        /\ f.es = e.es /\ f.ta = fullText(f)
    <2>1. Acked(e, f, version, op)
      BY <1>0, AckFields
    <2> QED  BY <2>1, Zenon DEF Acked
  <1>2. /\ s \in Seq(Range(s)) /\ s # <<>> /\ e.es \in BOOLEAN /\ e.serverText \in Seq(Char)
        /\ \A i \in 1..Len(s) : s[i].op \in Operation
    BY DEF PendingGood, Shown
  <1> HIDE DEF s
  <1>3. f.serverText \in Seq(Char)
    BY <1>1, <1>2, ApplyTyped
  <1>4. \A i \in 1..Len(f.pending) : f.pending[i].op \in Operation
    <2>1. Len(s) \in Nat /\ Len(Tail(s)) = Len(s) - 1 /\ \A i \in 1..(Len(s) - 1) : Tail(s)[i] = s[i + 1]
      BY <1>2
    <2>2. \A i \in 1..(Len(s) - 1) : i + 1 \in 1..Len(s)
      BY <2>1
    <2> QED  BY <1>1, <1>2, <2>1, <2>2
  <1>5. Shown(f)
    BY <1>1, <1>2, <1>3, <1>4, Zenon DEF Shown
  <1> QED  BY <1>0, <1>5

LEMMA MergeShown ==
    ASSUME NEW e, DOMAIN e = EdFields, PendingGood(e), Shown(e), e.es, NEW version, NEW op \in Operation
    PROVE  Shown(Merge(e, version, op))
  <1> DEFINE s == e.pending
  <1>0. PICK f : f = Merge(e, version, op)
    OBVIOUS
  <1>1. /\ f.serverText = applyOp(e.serverText, op) /\ f.pending = TransformPending(s, op)
        /\ f.es = e.es /\ f.ta = fullText(f)
    <2>1. Merged(e, f, version, op)
      BY <1>0, MergeFields
    <2> QED  BY <2>1, Zenon DEF Merged
  <1>2. /\ s \in Seq(Range(s)) /\ e.es \in BOOLEAN /\ e.serverText \in Seq(Char)
        /\ \A i \in 1..Len(s) : s[i].op \in Operation /\ DOMAIN s[i] = {"seq", "op"}
    BY DEF PendingGood, Shown
  <1> HIDE DEF s
  <1>3. f.serverText \in Seq(Char)
    BY <1>1, <1>2, ApplyTyped
  <1>4. \A i \in 1..Len(f.pending) : f.pending[i].op \in Operation
    <2> DEFINE t == TransformPending(s, op)
    <2>1. DOMAIN s = 1..Len(s) /\ Len(s) \in Nat
      BY <1>2
    <2>2. DOMAIN t = 1..Len(s) /\ \A i \in 1..Len(s) : t[i] = [s[i] EXCEPT !.op = transform(s[i].op, op)]
      BY <2>1 DEF TransformPending
    <2>3. \A i \in 1..Len(s) : t[i].op \in Operation
      <3> TAKE i \in 1..Len(s)
      <3> DEFINE x == transform(s[i].op, op)
      <3>1. x \in Operation
        BY <1>2, TransformTyped
      <3> HIDE DEF x
      <3>2. [s[i] EXCEPT !.op = x].op = x
        BY <1>2
      <3>3. t[i].op = x
        BY <2>2, <3>2 DEF x
      <3> QED  BY <3>1, <3>3
    <2>4. t = [i \in 1..Len(s) |-> t[i]]
      BY <2>1 DEF TransformPending
    <2> HIDE DEF t
    <2>5. Len(t) = Len(s)
      <3>1. t \in [1..Len(s) -> Range(t)]
        BY <2>2, <2>4 DEF Range
      <3>2. t \in Seq(Range(t))
        BY <2>1, <3>1
      <3> QED  BY <2>1, <2>2, <3>2
    <2> QED  BY <1>1, <2>3, <2>5 DEF t
  <1>5. Shown(f)
    <2>1. f.es \in BOOLEAN /\ f.es
      BY <1>1, <1>2
    <2> QED  BY <1>1, <1>3, <1>4, <2>1, Zenon DEF Shown
  <1> QED  BY <1>0, <1>5

-----------------------------------------------------------------------------
(* What is shown, step by step.                                            *)

\* One browser's state changes.
LEMMA OneShown ==
    ASSUME ShownInv, DOMAIN ed = Browser, NEW b \in Browser, NEW f, Shown(f), ed' = [ed EXCEPT ![b] = f],
           PostsTyped(posts'), committed' = committed, setting' = setting
    PROVE  ShownInv'
  <1>1. ed'[b] = f /\ \A c \in Browser \ {b} : ed'[c] = ed[c]
    OBVIOUS
  <1>2. \A c \in Browser : Shown(ed'[c])
    BY <1>1, Zenon DEF ShownInv
  <1> QED  BY <1>2, Zenon DEF ShownInv, PostsTyped

LEMMA ConnectShown ==
    ASSUME EditorInv, ShownInv, NEW b \in Browser, connect(b), setting' = setting
    PROVE  ShownInv'
  <1> DEFINE e == ed[b]
             f == [e EXCEPT !.pending = <<>>, !.mySeqs = {}, !.inflightSeq = None, !.es = FALSE,
                            !.loads = e.loads + 1]
  <1>1. ed' = [ed EXCEPT ![b] = f] /\ posts' = posts /\ committed' = committed
    BY DEF connect
  <1>2. DOMAIN e = EdFields /\ DOMAIN ed = Browser /\ Shown(e) /\ PostsTyped(posts)
    BY DEF EditorInv, Good, ShownInv
  <1>3. f.serverText = e.serverText /\ f.pending = <<>> /\ f.es = FALSE
    BY <1>2 DEF EdFields
  <1> HIDE DEF e, f
  <1>4. Shown(f)
    <2>1. \A i \in 1..Len(f.pending) : FALSE
      BY <1>3
    <2> QED  BY <1>2, <1>3, <2>1 DEF Shown
  <1> QED  BY <1>1, <1>2, <1>4, OneShown

LEMMA LoadedShown ==
    ASSUME EditorInv, ShownInv, NEW b \in Browser, Loaded(b), setting' = setting
    PROVE  ShownInv'
  <1> DEFINE e == ed[b]
             text == TextAt(Len(committed))
             f == [e EXCEPT !.serverText = text, !.ta = text, !.es = TRUE, !.last_seen = 0,
                            !.serverVersion = Len(committed)]
  <1>1. ed' = [ed EXCEPT ![b] = f] /\ posts' = posts /\ committed' = committed /\ ~e.es
    BY Zenon DEF Loaded
  <1>2. DOMAIN e = EdFields /\ DOMAIN ed = Browser /\ Shown(e) /\ PostsTyped(posts)
    BY DEF EditorInv, Good, ShownInv
  <1>3. text \in Seq(Char)
    <2>1. Len(committed) \in 0..Len(committed)
      BY DEF ShownInv
    <2> QED  BY <2>1, TextAtTyped
  <1>4. e.pending = <<>>
    BY <1>1, <1>2 DEF Shown
  <1> HIDE DEF text
  <1>5. f.serverText = text /\ f.ta = text /\ f.es = TRUE /\ f.pending = e.pending
    BY <1>2 DEF EdFields
  <1> HIDE DEF e, f
  <1>6. fullText(f) = text
    BY <1>4, <1>5, FullEmpty
  <1>7. Shown(f)
    <2>1. \A i \in 1..Len(f.pending) : FALSE
      BY <1>4, <1>5
    <2> QED  BY <1>3, <1>5, <1>6, <2>1 DEF Shown
  <1> QED  BY <1>1, <1>2, <1>7, OneShown

\* What sendPendingFront leaves is all of the invariant.
LEMMA SentShown ==
    ASSUME ShownInv, NEW b \in Browser, NEW e, NEW ps, DOMAIN ed = Browser, DOMAIN e = EdFields, PendingGood(e),
           Shown(e), PostsTyped(ps), sendPendingFront(b, e, ps), committed' = committed, setting' = setting
    PROVE  ShownInv'
  <1>1. \A c \in Browser \ {b} : Shown(ed[c])
    BY DEF ShownInv
  <1>2. PostsTyped(posts') /\ \A c \in Browser : Shown(ed'[c])
    BY <1>1, SendShown
  <1> QED  BY <1>2, Zenon DEF ShownInv, PostsTyped

LEMMA InputShown ==
    ASSUME EditorInv, ShownInv, NEW b \in Browser, onInput(b), setting' = setting
    PROVE  ShownInv'
  <1> DEFINE e == ed[b]
  <1>1. PICK text \in setting.texts :
          LET ops == computeDelta(fullText(e), text)
          IN  sendPendingFront(b, [e EXCEPT !.ta = text, !.nextSeq = @ + Len(ops),
                                 !.pending = @ \o [i \in DOMAIN ops |-> [seq |-> e.nextSeq + i - 1, op |-> ops[i]]]],
                               posts)
    BY Zenon DEF onInput
  <1> DEFINE ops == computeDelta(fullText(e), text)
  <1> DEFINE g == [i \in DOMAIN ops |-> [seq |-> e.nextSeq + i - 1, op |-> ops[i]]]
             f == [e EXCEPT !.ta = text, !.nextSeq = @ + Len(ops), !.pending = @ \o g]
  <1>2. sendPendingFront(b, f, posts) /\ committed' = committed /\ e.es
    BY <1>1, Zenon DEF onInput
  <1>3. DOMAIN e = EdFields /\ DOMAIN ed = Browser /\ Shown(e) /\ PendingGood(e) /\ PostsTyped(posts)
    BY DEF EditorInv, Good, ShownInv
  <1>4. text \in Seq(Char)
    BY <1>1, SettingsAssumption DEF ShownInv
  <1>5. Len(ops) \in Nat /\ DOMAIN ops = 1..Len(ops)
    BY DeltaLen
  <1>6. PICK os : os = ops
    OBVIOUS
  <1> HIDE DEF ops
  <1>7. /\ DOMAIN f = EdFields /\ f.pending = e.pending \o g /\ f.nextSeq = e.nextSeq + Len(ops)
        /\ f.serverText = e.serverText /\ f.ta = text /\ f.es = e.es
    <2> HIDE DEF g
    <2> QED  BY <1>3 DEF EdFields
  <1> HIDE DEF e, f
  <1>8. PendingGood(f)
    BY <1>3, <1>5, <1>7, PendingExtended
  <1>9. os = computeDelta(fullText(e), text)
    BY <1>6 DEF ops
  <1>10. f.pending = e.pending \o Numbered(e.nextSeq, os) /\ f.serverText = e.serverText
    BY <1>6, <1>7, Zenon DEF Numbered
  <1> HIDE DEF g
  <1>11. fullText(f) = text /\ \A i \in 1..Len(f.pending) : f.pending[i].op \in Operation
    BY <1>3, <1>4, <1>9, <1>10, FullEdited
  <1>12. Shown(f)
    BY <1>2, <1>3, <1>7, <1>11 DEF Shown
  <1> QED  BY <1>2, <1>3, <1>7, <1>8, <1>12, SentShown

LEMMA SameShown ==
    ASSUME NEW e, Shown(e), NEW f, f.serverText = e.serverText, f.pending = e.pending, f.es = e.es, f.ta = e.ta
    PROVE  Shown(f)
  BY Zenon DEF Shown, fullText

LEMMA SamePending ==
    ASSUME NEW e, PendingGood(e), NEW f, f.pending = e.pending, f.nextSeq = e.nextSeq
    PROVE  PendingGood(f)
  BY Zenon DEF PendingGood, Base

LEMMA FrameShown ==
    ASSUME EditorInv, ShownInv, NEW b \in Browser, handleSSEOp(b), setting' = setting
    PROVE  ShownInv'
  <1>1. PICK version \in 1..Len(committed) : Frame(b, version)
    BY FrameTaken
  <1> DEFINE op == committed[version].op
  <1>0. PICK e : e = [ed[b] EXCEPT !.last_seen = version]
    OBVIOUS
  <1>2. /\ DOMAIN ed[b] = EdFields /\ DOMAIN ed = Browser /\ Shown(ed[b]) /\ PendingGood(ed[b])
        /\ PostsTyped(posts) /\ ed[b].es
    BY FrameTaken DEF EditorInv, Good, ShownInv
  <1>3. op \in Operation
    BY <1>1, CommittedOp
  <1>4. \/ ed' = [ed EXCEPT ![b] = e] /\ posts' = posts
        \/ e.pending # <<>> /\ sendPendingFront(b, AckOwn(e, version, op), posts)
        \/ ed' = [ed EXCEPT ![b] = Merge(e, version, op)] /\ posts' = posts
    BY <1>0, <1>1, Zenon DEF Frame
  <1>5. committed' = committed
    BY DEF handleSSEOp
  <1>6. /\ DOMAIN e = EdFields /\ e.serverText = ed[b].serverText /\ e.pending = ed[b].pending
        /\ e.es = ed[b].es /\ e.ta = ed[b].ta /\ e.nextSeq = ed[b].nextSeq
    <2>1. Seen(ed[b], e, version)
      BY <1>0, <1>2, SeenFields
    <2> QED  BY <2>1, Zenon DEF Seen
  <1> HIDE DEF op
  <1>7. Shown(e) /\ PendingGood(e) /\ e.es
    BY <1>2, <1>6, SameShown, SamePending
  <1>8. CASE ed' = [ed EXCEPT ![b] = e] /\ posts' = posts
    BY <1>2, <1>5, <1>7, <1>8, OneShown
  <1>9. CASE e.pending # <<>> /\ sendPendingFront(b, AckOwn(e, version, op), posts)
    <2>0. PICK f : f = AckOwn(e, version, op)
      OBVIOUS
    <2>1. Shown(f)
      BY <2>0, <1>3, <1>6, <1>7, <1>9, AckShown
    <2>2. DOMAIN f = EdFields /\ f.pending = Tail(e.pending) /\ f.nextSeq = e.nextSeq
      <3>1. Acked(e, f, version, op)
        BY <1>6, <2>0, AckFields
      <3> QED  BY <3>1, Zenon DEF Acked
    <2>3. sendPendingFront(b, f, posts)
      BY <1>9, <2>0
    <2>4. PendingGood(f)
      BY <1>7, <1>9, <2>2, PendingShortened
    <2> QED  BY <1>2, <1>5, <2>1, <2>2, <2>3, <2>4, SentShown
  <1>10. CASE ed' = [ed EXCEPT ![b] = Merge(e, version, op)] /\ posts' = posts
    <2>0. PICK f : f = Merge(e, version, op)
      OBVIOUS
    <2>1. Shown(f) /\ ed' = [ed EXCEPT ![b] = f]
      BY <1>3, <1>6, <1>7, <1>10, <2>0, MergeShown
    <2> QED  BY <1>2, <1>5, <1>10, <2>1, OneShown
  <1> QED  BY <1>4, <1>8, <1>9, <1>10

LEMMA CommitShown ==
    ASSUME EditorInv, ShownInv, NEW p \in posts, Commit(p), setting' = setting
    PROVE  ShownInv'
  <1> DEFINE rec == [client |-> p.client, seq |-> p.seq, op |-> p.op]
             r == [p EXCEPT !.st = "executed", !.version = Len(committed) + 1]
  <1>1. DOMAIN p = {"client", "seq", "op", "st", "version"} /\ p.client \in Browser /\ p.seq \in Nat /\ p.op \in Operation
    BY DEF EditorInv, PostTypes, ShownInv, PostsTyped
  <1>2. ed' = ed /\ committed' = Append(committed, rec)
    BY DEF Commit
  <1>3. rec \in CommitRec
    BY <1>1 DEF CommitRec
  <1> HIDE DEF rec
  <1>4. committed' \in Seq(CommitRec)
    BY <1>2, <1>3 DEF ShownInv
  <1>5. \A q \in posts' : q \in posts \/ q = r
    BY DEF Commit
  <1>6. r.op = p.op
    BY <1>1
  <1> HIDE DEF r
  <1>7. PostsTyped(posts')
    BY <1>1, <1>5, <1>6 DEF ShownInv, PostsTyped
  <1> QED  BY <1>2, <1>4, <1>7, Zenon DEF ShownInv, PostsTyped

LEMMA AnswerShown ==
    ASSUME EditorInv, ShownInv, NEW p \in posts, ackPostIfStillInflight(p), setting' = setting
    PROVE  ShownInv'
  <1> DEFINE b == p.client
             e == ed[b]
             rest == posts \ {p}
             f == [e EXCEPT !.inflightSeq = None]
  <1>1. /\ b \in Browser /\ p.seq \in Nat /\ DOMAIN ed = Browser /\ DOMAIN e = EdFields /\ Shown(e) /\ PendingGood(e)
        /\ FrontGood(e)
    BY DEF EditorInv, PostTypes, Good, ShownInv
  <1>2. PostsTyped(rest)
    BY DEF ShownInv, PostsTyped
  <1>3. IF e.inflightSeq # p.seq THEN sendPendingFront(b, e, rest)
        ELSE IF Stale(e, p.version) THEN sendPendingFront(b, f, rest)
        ELSE sendPendingFront(b, AckOwn(e, p.version, Head(e.pending).op), rest)
    BY Zenon DEF ackPostIfStillInflight
  <1>4. committed' = committed
    BY DEF ackPostIfStillInflight
  <1>5. /\ DOMAIN f = EdFields /\ f.serverText = e.serverText /\ f.pending = e.pending
        /\ f.es = e.es /\ f.ta = e.ta /\ f.nextSeq = e.nextSeq
    BY <1>1 DEF EdFields
  <1> HIDE DEF e, f, rest
  <1>6. Shown(f) /\ PendingGood(f)
    BY <1>1, <1>5, SameShown, SamePending
  <1>7. CASE e.inflightSeq # p.seq
    BY <1>1, <1>2, <1>3, <1>4, <1>7, SentShown
  <1>8. CASE sendPendingFront(b, f, rest)
    BY <1>1, <1>2, <1>4, <1>5, <1>6, <1>8, SentShown
  <1>9. CASE e.inflightSeq = p.seq /\ sendPendingFront(b, AckOwn(e, p.version, Head(e.pending).op), rest)
    <2> DEFINE op == Head(e.pending).op
    <2>0. PICK g : g = AckOwn(e, p.version, op)
      OBVIOUS
    <2>1. e.inflightSeq # None
      BY <1>1, <1>9 DEF None
    <2>2. e.pending # <<>>
      BY <2>1, <1>1 DEF FrontGood
    <2>3. e.es
      BY <1>1, <2>2 DEF Shown
    <2>4. op \in Operation
      <3> DEFINE s == e.pending
      <3>1. s \in Seq(Range(s)) /\ s # <<>> /\ \A i \in 1..Len(s) : s[i].op \in Operation
        BY <1>1, <2>2 DEF PendingGood, Shown
      <3> HIDE DEF s
      <3>2. Head(s) = s[1] /\ 1 \in 1..Len(s)
        BY <3>1
      <3> QED  BY <3>1, <3>2 DEF s
    <2>5. sendPendingFront(b, g, rest)
      BY <1>9, <2>0
    <2> HIDE DEF op
    <2>6. Shown(g)
      BY <1>1, <2>0, <2>2, <2>3, <2>4, AckShown
    <2>7. DOMAIN g = EdFields /\ g.pending = Tail(e.pending) /\ g.nextSeq = e.nextSeq
      <3>1. Acked(e, g, p.version, op)
        BY <1>1, <2>0, AckFields
      <3> QED  BY <3>1, Zenon DEF Acked
    <2>8. PendingGood(g)
      BY <1>1, <2>2, <2>7, PendingShortened
    <2> QED  BY <1>1, <1>2, <1>4, <2>5, <2>6, <2>7, <2>8, SentShown
  <1> QED  BY <1>3, <1>7, <1>8, <1>9

LEMMA FailureShown ==
    ASSUME EditorInv, ShownInv, NEW p \in posts, PostFailed(p), setting' = setting
    PROVE  ShownInv'
  <1> DEFINE b == p.client
             e == ed[b]
             g == [e EXCEPT !.timeouts = @ + 1]
             r == [p EXCEPT !.st = "late"]
             rest == (posts \ {p}) \cup {r}
             f == [g EXCEPT !.mySeqs = @ \ {p.seq}, !.inflightSeq = None]
  <1>1. /\ b \in Browser /\ DOMAIN ed = Browser /\ DOMAIN e = EdFields /\ Shown(e) /\ PendingGood(e)
        /\ DOMAIN p = {"client", "seq", "op", "st", "version"} /\ p.op \in Operation
    BY DEF EditorInv, PostTypes, Good, ShownInv, PostsTyped
  <1>2. PostsTyped(rest)
    <2>1. r.op = p.op
      BY <1>1
    <2> HIDE DEF r
    <2> QED  BY <1>1, <2>1 DEF ShownInv, PostsTyped
  <1>3. IF g.inflightSeq # p.seq THEN sendPendingFront(b, g, rest)
        ELSE ed' = [ed EXCEPT ![b] = f] /\ posts' = rest
    BY Zenon DEF PostFailed
  <1>4. committed' = committed
    BY DEF PostFailed
  <1>5. /\ DOMAIN g = EdFields /\ g.serverText = e.serverText /\ g.pending = e.pending
        /\ g.es = e.es /\ g.ta = e.ta /\ g.nextSeq = e.nextSeq
    BY <1>1 DEF EdFields
  <1> HIDE DEF g
  <1>6. f.serverText = g.serverText /\ f.pending = g.pending /\ f.es = g.es /\ f.ta = g.ta
    BY <1>5 DEF EdFields
  <1> HIDE DEF e, f, rest
  <1>7. Shown(g) /\ PendingGood(g)
    BY <1>1, <1>5, SameShown, SamePending
  <1>8. Shown(f)
    BY <1>6, <1>7, SameShown
  <1>9. CASE sendPendingFront(b, g, rest)
    BY <1>1, <1>2, <1>4, <1>5, <1>7, <1>9, SentShown
  <1>10. CASE ed' = [ed EXCEPT ![b] = f] /\ posts' = rest
    BY <1>1, <1>2, <1>4, <1>8, <1>10, OneShown
  <1> QED  BY <1>3, <1>9, <1>10

LEMMA ShownInit == Init => ShownInv
  <1> SUFFICES ASSUME Init PROVE ShownInv
    OBVIOUS
  <1>1. ed = [b \in Browser |-> Start] /\ posts = {} /\ committed = <<>> /\ setting \in Settings
    BY DEF Init
  <1>2. Start.pending = <<>> /\ Start.es = FALSE /\ Start.serverText = <<>>
    BY DEF Start
  <1>3. Shown(Start)
    <2>1. \A i \in 1..Len(Start.pending) : FALSE
      BY <1>2
    <2>2. <<>> \in Seq(Char)
      OBVIOUS
    <2> QED  BY <1>2, <2>1, <2>2, Zenon DEF Shown
  <1>4. \A b \in Browser : Shown(ed[b])
    BY <1>1, <1>3, Zenon
  <1>5. PostsTyped(posts) /\ committed \in Seq(CommitRec)
    BY <1>1 DEF PostsTyped
  <1> QED  BY <1>1, <1>4, <1>5 DEF ShownInv

LEMMA ShownNext == EditorInv /\ ShownInv /\ [Next]_vars => ShownInv'
  <1> SUFFICES ASSUME EditorInv, ShownInv, [Next]_vars PROVE ShownInv'
    OBVIOUS
  <1>1. ASSUME NEW b \in Browser, connect(b), setting' = setting PROVE ShownInv'
    BY <1>1, ConnectShown
  <1>2. ASSUME NEW b \in Browser, Loaded(b), setting' = setting PROVE ShownInv'
    BY <1>2, LoadedShown
  <1>3. ASSUME NEW b \in Browser, onInput(b), setting' = setting PROVE ShownInv'
    BY <1>3, InputShown
  <1>4. ASSUME NEW b \in Browser, handleSSEOp(b), setting' = setting PROVE ShownInv'
    BY <1>4, FrameShown
  <1>5. ASSUME NEW p \in posts, Commit(p), setting' = setting PROVE ShownInv'
    BY <1>5, CommitShown
  <1>6. ASSUME NEW p \in posts, ackPostIfStillInflight(p), setting' = setting PROVE ShownInv'
    BY <1>6, AnswerShown
  <1>7. ASSUME NEW p \in posts, PostFailed(p), setting' = setting PROVE ShownInv'
    BY <1>7, FailureShown
  <1>8. CASE UNCHANGED vars
    <2>1. ed' = ed /\ posts' = posts /\ committed' = committed /\ setting' = setting
      BY <1>8 DEF vars
    <2> QED  BY <2>1, Zenon DEF ShownInv, PostsTyped
  <1> QED  BY <1>1, <1>2, <1>3, <1>4, <1>5, <1>6, <1>7, <1>8, Zenon DEF Next

-----------------------------------------------------------------------------
(* What a browser takes for the server's text.                             *)

\* The text that the first n committed operations make.
TextOf(cm, n) == ApplyAll(<<>>, [v \in 1..n |-> cm[v].op])

\* No operation is committed twice.
Distinct(cm) ==
    \A v, w \in 1..Len(cm) : cm[v].client = cm[w].client /\ cm[v].seq = cm[w].seq => v = w

\* A post that was sent is not committed; one that was executed is, at its
\* version; and none is given up.
PostsPlaced(ps, cm) ==
    \A p \in ps :
        /\ p.st \in {"sent", "executed"}
        /\ p.st = "sent" => \A v \in 1..Len(cm) : ~(cm[v].client = p.client /\ cm[v].seq = p.seq)
        /\ p.st = "executed" =>
             p.version \in 1..Len(cm) /\ cm[p.version].client = p.client /\ cm[p.version].seq = p.seq

\* Of the pending operations only the one in flight may be committed.
FrontOnly(b, e, cm) ==
    \A v \in 1..Len(cm) : cm[v].client = b => cm[v].seq < Base(e) \/ cm[v].seq = e.inflightSeq

\* The browser has the text of its version, and the stream is not ahead of it.
Current(e, cm) ==
    e.es => /\ e.last_seen \in Nat
            /\ e.serverVersion \in 0..Len(cm)
            /\ e.last_seen <= e.serverVersion
            /\ e.serverText = TextOf(cm, e.serverVersion)

\* When the operation in flight is committed, the browser does not know yet.
Unaware(b, e, ps) ==
    \A p \in ps : e.es /\ p.client = b /\ p.st = "executed" /\ p.seq = e.inflightSeq => p.version > e.serverVersion

Following(b, e, ps, cm) ==
    /\ e.timeouts = 0
    /\ e.inflightSeq # None => e.inflightSeq \in e.mySeqs
    /\ FrontOnly(b, e, cm)
    /\ Current(e, cm)
    /\ Unaware(b, e, ps)

OrderInv ==
    Ordered => /\ Distinct(committed)
               /\ PostsPlaced(posts, committed)
               /\ \A b \in Browser : Following(b, ed[b], posts, committed)

\* TextOf, one operation further, and while others are committed.
LEMMA TextOfNext ==
    ASSUME NEW cm, NEW n \in Nat
    PROVE  TextOf(cm, n + 1) = applyOp(TextOf(cm, n), cm[n + 1].op)
  <1> DEFINE ops == [v \in 1..n |-> cm[v].op]
             qs == [v \in 1..(n + 1) |-> cm[v].op]
  <1>1. Len(ops) = n /\ Len(qs) = n + 1
    <2>1. \A m \in Nat : Len([v \in 1..m |-> cm[v].op]) = m
      <3> TAKE m \in Nat
      <3> DEFINE t == [v \in 1..m |-> cm[v].op]
      <3>1. t \in [1..m -> Range(t)]
        BY DEF Range
      <3>2. DOMAIN t = 1..m
        OBVIOUS
      <3> HIDE DEF t
      <3>3. t \in Seq(Range(t))
        BY <3>1
      <3>4. Len(t) = m
        BY <3>2, <3>3
      <3> QED  BY <3>4 DEF t
    <2>2. n + 1 \in Nat
      OBVIOUS
    <2> QED  BY <2>1, <2>2
  <1>2. (\A i \in 1..n : ops[i] = qs[i]) /\ qs[n + 1] = cm[n + 1].op
    OBVIOUS
  <1>3. TextOf(cm, n) = ApplyAll(<<>>, ops) /\ TextOf(cm, n + 1) = ApplyAll(<<>>, qs)
    BY Zenon DEF TextOf
  <1> HIDE DEF ops, qs
  <1>4. Len(ops) \in Nat /\ Len(qs) = Len(ops) + 1 /\ \A i \in 1..Len(ops) : ops[i] = qs[i]
    BY <1>1, <1>2
  <1>5. ApplyAll(<<>>, qs) = applyOp(ApplyAll(<<>>, ops), qs[Len(ops) + 1])
    BY <1>4, ApplyMore
  <1> QED  BY <1>1, <1>2, <1>3, <1>5

LEMMA TextOfSame ==
    ASSUME NEW cm, NEW dm, NEW n \in Nat, \A v \in 1..n : cm[v] = dm[v]
    PROVE  TextOf(cm, n) = TextOf(dm, n)
  <1>1. [v \in 1..n |-> cm[v].op] = [v \in 1..n |-> dm[v].op]
    OBVIOUS
  <1> QED  BY <1>1, Zenon DEF TextOf

\* When no operation is committed twice, all of them are in the database.
LEMMA LiveAll ==
    ASSUME Distinct(committed), Len(committed) \in Nat, NEW n \in 0..Len(committed)
    PROVE  Live(n) = 1..n
  <1>1. ASSUME NEW v \in 1..n, NEW w \in (v + 1)..n,
               committed[w].client = committed[v].client, committed[w].seq = committed[v].seq
        PROVE  FALSE
    <2>1. v \in 1..Len(committed) /\ w \in 1..Len(committed) /\ v # w
      OBVIOUS
    <2> QED  BY <1>1, <2>1 DEF Distinct
  <1> QED  BY <1>1 DEF Live

LEMMA TextAtOrdered ==
    ASSUME Distinct(committed), Len(committed) \in Nat, NEW n \in 0..Len(committed)
    PROVE  TextAt(n) = TextOf(committed, n)
  <1>1. Live(n) = 1..n
    BY LiveAll
  <1>2. [v \in 1..n |-> IF v \in Live(n) THEN committed[v].op ELSE Insert(0, <<>>)] = [v \in 1..n |-> committed[v].op]
    BY <1>1
  <1> QED  BY <1>2, Zenon DEF TextAt, TextOf

\* A committed number is no mark.
LEMMA NoMark ==
    ASSUME NEW n \in Nat
    PROVE  n # None
  BY DEF None

LEMMA CommittedTyped ==
    ASSUME NEW cm \in Seq(CommitRec), NEW v \in 1..Len(cm)
    PROVE  cm[v].op \in Operation /\ cm[v].client \in Browser /\ cm[v].seq \in Nat
  <1>1. cm[v] \in CommitRec
    OBVIOUS
  <1> QED  BY <1>1 DEF CommitRec

\* Nothing at or above Base is committed when nothing is in flight.
LEMMA NoneCommitted ==
    ASSUME NEW b, NEW e, NEW cm \in Seq(CommitRec), FrontOnly(b, e, cm), e.inflightSeq = None,
           NEW v \in 1..Len(cm), cm[v].client = b
    PROVE  cm[v].seq < Base(e)
  <1>1. cm[v].seq \in Nat
    BY CommittedTyped
  <1>2. cm[v].seq # None
    BY <1>1, NoMark
  <1> QED  BY <1>2, Zenon DEF FrontOnly

\* Posting the front.
LEMMA SendFollowing ==
    ASSUME NEW b \in Browser, NEW e, NEW ps, NEW cm \in Seq(CommitRec),
           DOMAIN ed = Browser, PostTypes(ps), Good(b, e, ps), PostsPlaced(ps, cm), Following(b, e, ps, cm),
           \A c \in Browser \ {b} : Following(c, ed[c], ps, cm), sendPendingFront(b, e, ps)
    PROVE  PostsPlaced(posts', cm) /\ \A c \in Browser : Following(c, ed'[c], posts', cm)
  <1>1. CASE e.inflightSeq # None \/ e.pending = <<>>
    <2>1. ed' = [ed EXCEPT ![b] = e] /\ posts' = ps
      BY <1>1, Zenon DEF sendPendingFront
    <2>2. ed'[b] = e /\ \A c \in Browser \ {b} : ed'[c] = ed[c]
      BY <2>1
    <2> QED  BY <2>1, <2>2, Zenon
  <1>2. CASE ~(e.inflightSeq # None \/ e.pending = <<>>)
    <2> DEFINE p == Head(e.pending)
               r == [client |-> b, seq |-> p.seq, op |-> p.op, st |-> "sent", version |-> 0]
               my == e.mySeqs \cup {p.seq}
               f == [e EXCEPT !.inflightSeq = p.seq, !.mySeqs = my]
               qs == ps \cup {r}
    <2>1. ed' = [ed EXCEPT ![b] = f] /\ posts' = qs
      BY <1>2, Zenon DEF sendPendingFront
    <2>2. ed'[b] = f /\ \A c \in Browser \ {b} : ed'[c] = ed[c]
      BY <2>1
    <2>3. r.client = b /\ r.seq = p.seq /\ r.st = "sent"
      OBVIOUS
    <2>4. DOMAIN e = EdFields /\ PendingGood(e)
      BY DEF Good
    <2>5. p.seq = Base(e) /\ Base(e) \in Nat
      BY <1>2, <2>4, FrontSeq
    <2>6. my = e.mySeqs \cup {p.seq}
      OBVIOUS
    <2> HIDE DEF p, r, my
    <2>7. /\ f.inflightSeq = p.seq /\ f.mySeqs = my /\ f.timeouts = e.timeouts /\ f.nextSeq = e.nextSeq
          /\ f.pending = e.pending /\ f.serverText = e.serverText /\ f.es = e.es
          /\ f.serverVersion = e.serverVersion /\ f.last_seen = e.last_seen
      BY <2>4 DEF EdFields
    <2> HIDE DEF f
    <2>8. \A v \in 1..Len(cm) : cm[v].client = b => cm[v].seq < Base(e) /\ cm[v].seq \in Nat
      <3>1. FrontOnly(b, e, cm) /\ e.inflightSeq = None
        BY <1>2 DEF Following
      <3> QED  BY <3>1, NoneCommitted, CommittedTyped
    <2>9. \A v \in 1..Len(cm) : ~(cm[v].client = b /\ cm[v].seq = Base(e))
      BY <2>5, <2>8
    <2>10. PostsPlaced(qs, cm)
      <3> SUFFICES ASSUME NEW q \in qs
                   PROVE  /\ q.st \in {"sent", "executed"}
                          /\ q.st = "sent" => \A v \in 1..Len(cm) : ~(cm[v].client = q.client /\ cm[v].seq = q.seq)
                          /\ q.st = "executed" =>
                               q.version \in 1..Len(cm) /\ cm[q.version].client = q.client /\ cm[q.version].seq = q.seq
        BY Zenon DEF PostsPlaced
      <3>1. CASE q \in ps
        BY <3>1, Zenon DEF PostsPlaced
      <3>2. CASE q = r
        BY <3>2, <2>3, <2>5, <2>9
      <3> QED  BY <3>1, <3>2
    <2>11. Following(b, f, qs, cm)
      <3>1. Base(f) = Base(e)
        BY <2>7 DEF Base
      <3>2. f.timeouts = 0 /\ f.inflightSeq \in f.mySeqs
        BY <2>6, <2>7 DEF Following
      <3>3. FrontOnly(b, f, cm)
        BY <2>8, <3>1, Zenon DEF FrontOnly
      <3>4. Current(f, cm)
        BY <2>7, Zenon DEF Following, Current
      <3>5. Unaware(b, f, qs)
        <4> SUFFICES ASSUME NEW q \in qs, q.client = b, q.st = "executed", q.seq = f.inflightSeq PROVE FALSE
          BY Zenon DEF Unaware
        <4>1. q \in ps
          BY <2>3
        <4>2. q.version \in 1..Len(cm) /\ cm[q.version].client = b /\ cm[q.version].seq = q.seq
          BY <4>1, Zenon DEF PostsPlaced
        <4>3. q.seq = Base(e)
          BY <2>5, <2>7
        <4> QED  BY <2>9, <4>2, <4>3, Zenon
      <3> QED  BY <3>2, <3>3, <3>4, <3>5 DEF Following
    <2>12. ASSUME NEW c \in Browser \ {b} PROVE Following(c, ed[c], qs, cm)
      <3>1. Following(c, ed[c], ps, cm)
        OBVIOUS
      <3>2. Unaware(c, ed[c], qs)
        <4> SUFFICES ASSUME NEW q \in qs, ed[c].es, q.client = c, q.st = "executed", q.seq = ed[c].inflightSeq
                     PROVE  q.version > ed[c].serverVersion
          BY Zenon DEF Unaware
        <4>1. q \in ps
          BY <2>3
        <4> QED  BY <3>1, <4>1, Zenon DEF Following, Unaware
      <3> QED  BY <3>1, <3>2, Zenon DEF Following
    <2>13. \A c \in Browser : Following(c, ed'[c], qs, cm)
      BY <2>2, <2>11, <2>12, Zenon
    <2> HIDE DEF qs
    <2> QED  BY <2>1, <2>10, <2>13, Zenon
  <1> QED  BY <1>1, <1>2

-----------------------------------------------------------------------------
(* What is taken for the server's text, step by step.                      *)

\* One browser's state changes, and nothing else.
LEMMA OneFollowing ==
    ASSUME Ordered, OrderInv, DOMAIN ed = Browser, NEW b \in Browser, NEW f, ed' = [ed EXCEPT ![b] = f],
           Following(b, f, posts, committed), posts' = posts, committed' = committed
    PROVE  OrderInv'
  <1>1. ed'[b] = f /\ \A c \in Browser \ {b} : ed'[c] = ed[c]
    OBVIOUS
  <1>2. \A c \in Browser : Following(c, ed'[c], posts, committed)
    BY <1>1, Zenon DEF OrderInv
  <1> QED  BY <1>2, Zenon DEF OrderInv

\* Base does not fall below what is committed when pending is dropped.
LEMMA DroppedBase ==
    ASSUME NEW b, NEW e, PendingGood(e), FrontGood(e), NEW cm \in Seq(CommitRec), FrontOnly(b, e, cm),
           NEW v \in 1..Len(cm), cm[v].client = b
    PROVE  cm[v].seq < e.nextSeq /\ cm[v].seq < Base(e) + 1
  <1>1. cm[v].seq \in Nat
    BY CommittedTyped
  <1>2. Base(e) \in Nat /\ Base(e) <= e.nextSeq /\ e.nextSeq \in Nat
    BY DEF PendingGood, Base
  <1>3. CASE cm[v].seq < Base(e)
    BY <1>1, <1>2, <1>3
  <1>4. CASE cm[v].seq = e.inflightSeq
    <2>1. e.inflightSeq # None
      BY <1>1, <1>4, NoMark
    <2>2. e.inflightSeq = Base(e) /\ e.pending # <<>>
      BY <2>1, Zenon DEF FrontGood
    <2>3. Base(e) < e.nextSeq
      BY <2>2, FrontSeq
    <2> QED  BY <1>1, <1>2, <1>4, <2>2, <2>3
  <1> QED  BY <1>3, <1>4, Zenon DEF FrontOnly

LEMMA ConnectFollows ==
    ASSUME EditorInv, ShownInv, Ordered, OrderInv, NEW b \in Browser, connect(b)
    PROVE  OrderInv'
  <1> DEFINE e == ed[b]
             f == [e EXCEPT !.pending = <<>>, !.mySeqs = {}, !.inflightSeq = None, !.es = FALSE,
                            !.loads = e.loads + 1]
  <1>1. ed' = [ed EXCEPT ![b] = f] /\ posts' = posts /\ committed' = committed
    BY DEF connect
  <1>2. /\ DOMAIN e = EdFields /\ DOMAIN ed = Browser /\ PendingGood(e) /\ FrontGood(e)
        /\ committed \in Seq(CommitRec) /\ Following(b, e, posts, committed)
    BY DEF EditorInv, Good, ShownInv, OrderInv
  <1>3. /\ f.pending = <<>> /\ f.inflightSeq = None /\ f.es = FALSE
        /\ f.nextSeq = e.nextSeq /\ f.timeouts = e.timeouts
    BY <1>2 DEF EdFields
  <1> HIDE DEF e, f
  <1>4. Base(f) = e.nextSeq
    BY <1>2, <1>3 DEF Base, PendingGood
  <1>5. FrontOnly(b, f, committed)
    <2> SUFFICES ASSUME NEW v \in 1..Len(committed), committed[v].client = b
                 PROVE  committed[v].seq < Base(f)
      BY Zenon DEF FrontOnly
    <2>1. FrontOnly(b, e, committed)
      BY <1>2 DEF Following
    <2> QED  BY <1>2, <1>4, <2>1, DroppedBase
  <1>6. Following(b, f, posts, committed)
    BY <1>2, <1>3, <1>5, Zenon DEF Following, Current, Unaware
  <1> QED  BY <1>1, <1>2, <1>6, OneFollowing

LEMMA LoadedFollows ==
    ASSUME EditorInv, ShownInv, Ordered, OrderInv, NEW b \in Browser, Loaded(b)
    PROVE  OrderInv'
  <1> DEFINE e == ed[b]
             text == TextAt(Len(committed))
             n == Len(committed)
             f == [e EXCEPT !.serverText = text, !.ta = text, !.es = TRUE, !.last_seen = 0,
                            !.serverVersion = n]
  <1>1. ed' = [ed EXCEPT ![b] = f] /\ posts' = posts /\ committed' = committed /\ ~e.es
    BY Zenon DEF Loaded
  <1>2. /\ DOMAIN e = EdFields /\ DOMAIN ed = Browser /\ Shown(e) /\ FrontGood(e) /\ PostTypes(posts)
        /\ committed \in Seq(CommitRec) /\ Following(b, e, posts, committed) /\ Distinct(committed)
    BY DEF EditorInv, Good, ShownInv, OrderInv
  <1>3. n \in Nat /\ text = TextOf(committed, n)
    <2>1. Len(committed) \in Nat /\ Len(committed) \in 0..Len(committed)
      BY <1>2
    <2> QED  BY <1>2, <2>1, TextAtOrdered
  <1>4. e.inflightSeq = None
    BY <1>1, <1>2 DEF Shown, FrontGood
  <1> HIDE DEF text
  <1>5. /\ f.serverText = text /\ f.es = TRUE /\ f.pending = e.pending /\ f.last_seen = 0 /\ f.serverVersion = n
        /\ f.inflightSeq = e.inflightSeq /\ f.timeouts = e.timeouts /\ f.nextSeq = e.nextSeq
    <2> HIDE DEF n
    <2> QED  BY <1>2 DEF EdFields
  <1> HIDE DEF e, f
  <1>6. Current(f, committed)
    BY <1>3, <1>5 DEF Current
  <1>7. FrontOnly(b, f, committed)
    BY <1>2, <1>5, Zenon DEF FrontOnly, Following, Base
  <1>8. Unaware(b, f, posts)
    <2> SUFFICES ASSUME NEW q \in posts, q.seq = f.inflightSeq PROVE FALSE
      BY Zenon DEF Unaware
    <2>1. q.seq \in Nat
      BY <1>2 DEF PostTypes
    <2> QED  BY <1>4, <1>5, <2>1, NoMark
  <1>9. Following(b, f, posts, committed)
    BY <1>2, <1>4, <1>5, <1>6, <1>7, <1>8, Zenon DEF Following
  <1> QED  BY <1>1, <1>2, <1>9, OneFollowing

\* What sendPendingFront leaves is all of the invariant.
LEMMA SentFollowing ==
    ASSUME EditorInv, ShownInv, Ordered, OrderInv, NEW b \in Browser, NEW e, Good(b, e, posts),
           Following(b, e, posts, committed), sendPendingFront(b, e, posts), committed' = committed
    PROVE  OrderInv'
  <1>1. /\ DOMAIN ed = Browser /\ PostTypes(posts) /\ PostsPlaced(posts, committed) /\ committed \in Seq(CommitRec)
        /\ \A c \in Browser \ {b} : Following(c, ed[c], posts, committed)
    BY DEF EditorInv, ShownInv, OrderInv
  <1>2. PICK cm : cm = committed
    OBVIOUS
  <1>3. PICK ps : ps = posts
    OBVIOUS
  <1>4. PostsPlaced(posts', cm) /\ \A c \in Browser : Following(c, ed'[c], posts', cm)
    BY <1>1, <1>2, <1>3, SendFollowing
  <1> QED  BY <1>2, <1>4, Zenon DEF OrderInv

LEMMA InputFollows ==
    ASSUME EditorInv, ShownInv, Ordered, OrderInv, NEW b \in Browser, onInput(b)
    PROVE  OrderInv'
  <1> DEFINE e == ed[b]
  <1>1. PICK text \in setting.texts :
          LET ops == computeDelta(fullText(e), text)
          IN  sendPendingFront(b, [e EXCEPT !.ta = text, !.nextSeq = @ + Len(ops),
                                 !.pending = @ \o [i \in DOMAIN ops |-> [seq |-> e.nextSeq + i - 1, op |-> ops[i]]]],
                               posts)
    BY Zenon DEF onInput
  <1> DEFINE ops == computeDelta(fullText(e), text)
  <1> DEFINE g == [i \in DOMAIN ops |-> [seq |-> e.nextSeq + i - 1, op |-> ops[i]]]
             f == [e EXCEPT !.ta = text, !.nextSeq = @ + Len(ops), !.pending = @ \o g]
  <1>2. sendPendingFront(b, f, posts) /\ committed' = committed
    BY <1>1, Zenon DEF onInput
  <1>3. /\ DOMAIN e = EdFields /\ e.timeouts \in Nat /\ PendingGood(e) /\ Good(b, e, posts)
        /\ Following(b, e, posts, committed) /\ PostTypes(posts)
    BY DEF EditorInv, Good, OrderInv
  <1>4. Len(ops) \in Nat /\ DOMAIN ops = 1..Len(ops)
    BY DeltaLen
  <1> HIDE DEF ops
  <1>5. /\ DOMAIN f = EdFields /\ f.pending = e.pending \o g /\ f.nextSeq = e.nextSeq + Len(ops)
        /\ f.mySeqs = e.mySeqs /\ f.inflightSeq = e.inflightSeq /\ f.timeouts = e.timeouts
        /\ f.serverText = e.serverText /\ f.es = e.es /\ f.serverVersion = e.serverVersion
        /\ f.last_seen = e.last_seen
    <2> HIDE DEF g
    <2> QED  BY <1>3 DEF EdFields
  <1> HIDE DEF e, f
  <1>6. PendingGood(f) /\ Base(f) = Base(e) /\ (f.pending = <<>> => e.pending = <<>>)
    BY <1>3, <1>4, <1>5, PendingExtended
  <1> HIDE DEF g
  <1>7. Good(b, f, posts)
    BY <1>3, <1>4, <1>5, <1>6, EditedGood
  <1>8. Following(b, f, posts, committed)
    BY <1>3, <1>5, <1>6, Zenon DEF Following, FrontOnly, Current, Unaware
  <1> QED  BY <1>2, <1>7, <1>8, SentFollowing

\* The stream brings the version after the last one.
LEMMA FrameNext ==
    ASSUME ShownInv, Distinct(committed), NEW b \in Browser, ed[b].last_seen \in Nat,
           NEW version \in 1..Len(committed), version \in NextOf(b), \A w \in NextOf(b) : version <= w
    PROVE  version = ed[b].last_seen + 1
  <1> DEFINE n == Len(committed)
             l == ed[b].last_seen
  <1>1. n \in Nat /\ n \in 0..n
    BY DEF ShownInv
  <1>2. Live(n) = 1..n
    BY <1>1, LiveAll
  <1>3. NextOf(b) = {v \in 1..n : v > l}
    BY <1>2 DEF NextOf
  <1>4. l \in Nat /\ version \in 1..n
    OBVIOUS
  <1> HIDE DEF n, l
  <1>5. version > l
    BY <1>3
  <1>6. l + 1 \in 1..n /\ l + 1 > l
    BY <1>1, <1>4, <1>5
  <1>7. version <= l + 1
    BY <1>3, <1>6
  <1>8. version = l + 1
    BY <1>4, <1>5, <1>7
  <1> QED  BY <1>8 DEF l

LEMMA FrameFollows ==
    ASSUME EditorInv, ShownInv, Ordered, OrderInv, NEW b \in Browser, handleSSEOp(b)
    PROVE  OrderInv'
  <1>1. PICK version \in 1..Len(committed) : Frame(b, version)
    BY FrameTaken
  <1>0. PICK e : e = [ed[b] EXCEPT !.last_seen = version]
    OBVIOUS
  <1>2. PICK data : data = committed[version]
    OBVIOUS
  <1>3. /\ DOMAIN ed[b] = EdFields /\ DOMAIN ed = Browser /\ PendingGood(ed[b]) /\ FrontGood(ed[b])
        /\ Good(b, ed[b], posts) /\ PostTypes(posts) /\ PostsPlaced(posts, committed)
        /\ committed \in Seq(CommitRec) /\ Following(b, ed[b], posts, committed) /\ Distinct(committed)
    BY DEF EditorInv, Good, ShownInv, OrderInv
  <1>4. ed[b].es /\ committed' = committed
    BY FrameTaken DEF handleSSEOp
  <1>5. Seen(ed[b], e, version)
    BY <1>0, <1>3, SeenFields
  <1>6. /\ DOMAIN e = EdFields /\ e.pending = ed[b].pending /\ e.mySeqs = ed[b].mySeqs
        /\ e.inflightSeq = ed[b].inflightSeq /\ e.nextSeq = ed[b].nextSeq /\ e.timeouts = ed[b].timeouts
        /\ e.serverText = ed[b].serverText /\ e.serverVersion = ed[b].serverVersion /\ e.last_seen = version
        /\ e.es = ed[b].es
    BY <1>5, Zenon DEF Seen
  <1>7. /\ ed[b].last_seen \in Nat /\ ed[b].serverVersion \in 0..Len(committed)
        /\ ed[b].last_seen <= ed[b].serverVersion
        /\ ed[b].serverText = TextOf(committed, ed[b].serverVersion)
    BY <1>3, <1>4, Zenon DEF Following, Current
  <1>8. version = ed[b].last_seen + 1
    <2>1. version \in NextOf(b) /\ \A w \in NextOf(b) : version <= w
      BY <1>1, Zenon DEF Frame
    <2> QED  BY <1>3, <1>7, <2>1, FrameNext
  <1>9. Good(b, e, posts) /\ Base(e) = Base(ed[b])
    <2>1. e.timeouts \in Nat
      BY <1>3, <1>6 DEF Good
    <2>2. Good(b, e, posts)
      BY <1>3, <1>6, <2>1, SameGood
    <2> QED  BY <1>6, <2>2, Zenon DEF Base
  <1>10. /\ FrontOnly(b, e, committed) /\ Unaware(b, e, posts) /\ e.timeouts = 0
         /\ e.inflightSeq # None => e.inflightSeq \in e.mySeqs
    BY <1>3, <1>6, <1>9, Zenon DEF Following, FrontOnly, Unaware
  <1>11. Len(committed) \in Nat
    BY <1>3
  <1>12. CASE Stale(ed[b], version) /\ ed' = [ed EXCEPT ![b] = e] /\ posts' = posts
    <2>1. e.last_seen \in Nat /\ e.last_seen <= e.serverVersion
      BY <1>6, <1>12 DEF Stale
    <2>2. Current(e, committed)
      BY <1>6, <1>7, <2>1, Zenon DEF Current
    <2>3. Following(b, e, posts, committed)
      BY <1>10, <2>2 DEF Following
    <2> QED  BY <1>3, <1>4, <1>12, <2>3, OneFollowing
  \* The frame is the one after the browser's version.
  <1>13. ASSUME ~Stale(ed[b], version)
         PROVE  /\ version = e.serverVersion + 1 /\ e.serverVersion \in Nat
                /\ applyOp(e.serverText, data.op) = TextOf(committed, version)
    <2>1. ed[b].serverVersion \in Nat /\ ~(version <= ed[b].serverVersion)
      BY <1>7, <1>13 DEF Stale
    <2>2. version = ed[b].serverVersion + 1
      BY <1>7, <1>8, <2>1
    <2>3. TextOf(committed, ed[b].serverVersion + 1)
            = applyOp(TextOf(committed, ed[b].serverVersion), committed[ed[b].serverVersion + 1].op)
      BY <2>1, TextOfNext
    <2> QED  BY <1>2, <1>6, <1>7, <2>1, <2>2, <2>3
  <1>14. CASE /\ ~Stale(ed[b], version)
              /\ e.pending # <<>> /\ sendPendingFront(b, AckOwn(e, version, data.op), posts)
    <2>1. PICK f : f = AckOwn(e, version, data.op)
      OBVIOUS
    <2>2. Acked(e, f, version, data.op)
      BY <1>6, <2>1, AckFields
    <2>3. /\ f.serverText = applyOp(e.serverText, data.op) /\ f.pending = Tail(e.pending) /\ f.inflightSeq = None
          /\ f.serverVersion = version /\ f.es = e.es /\ f.nextSeq = e.nextSeq /\ f.timeouts = e.timeouts
          /\ f.last_seen = e.last_seen
      BY <2>2, Zenon DEF Acked
    <2>4. posts \in SUBSET posts
      OBVIOUS
    <2>5. Good(b, f, posts)
      BY <1>3, <1>9, <1>14, <2>1, <2>4, AckGood
    <2>6. Base(f) = Base(e) + 1
      BY <1>9, <1>14, <2>3, PendingShortened DEF Good
    <2>7. FrontOnly(b, f, committed)
      <3> SUFFICES ASSUME NEW v \in 1..Len(committed), committed[v].client = b
                   PROVE  committed[v].seq < Base(f)
        BY Zenon DEF FrontOnly
      <3>1. PendingGood(e) /\ FrontGood(e)
        BY <1>9 DEF Good
      <3> QED  BY <1>3, <1>10, <2>6, <3>1, DroppedBase
    <2>8. Current(f, committed)
      <3>1. f.last_seen \in Nat /\ f.serverVersion \in 0..Len(committed) /\ f.last_seen <= f.serverVersion
        BY <1>6, <1>11, <2>3
      <3>2. f.serverText = TextOf(committed, f.serverVersion)
        BY <1>13, <1>14, <2>3
      <3> QED  BY <3>1, <3>2, Zenon DEF Current
    <2>9. Unaware(b, f, posts)
      <3> SUFFICES ASSUME NEW q \in posts, q.seq = f.inflightSeq PROVE FALSE
        BY Zenon DEF Unaware
      <3>1. q.seq \in Nat
        BY <1>3 DEF PostTypes
      <3> QED  BY <2>3, <3>1, NoMark
    <2>10. Following(b, f, posts, committed)
      BY <1>10, <2>3, <2>7, <2>8, <2>9, Zenon DEF Following
    <2>11. sendPendingFront(b, f, posts)
      BY <1>14, <2>1
    <2> QED  BY <1>4, <2>5, <2>10, <2>11, SentFollowing
  <1>15. CASE /\ ~Stale(ed[b], version)
              /\ ~(e.pending # <<>> /\ data.client = b /\ data.seq = Head(e.pending).seq /\ data.seq \in e.mySeqs)
              /\ ed' = [ed EXCEPT ![b] = Merge(e, version, data.op)] /\ posts' = posts
    <2>1. PICK f : f = Merge(e, version, data.op)
      OBVIOUS
    <2>2. Merged(e, f, version, data.op)
      BY <1>6, <2>1, MergeFields
    <2>3. /\ f.serverText = applyOp(e.serverText, data.op) /\ f.pending = TransformPending(e.pending, data.op)
          /\ f.inflightSeq = e.inflightSeq /\ f.mySeqs = e.mySeqs
          /\ f.serverVersion = version /\ f.es = e.es /\ f.nextSeq = e.nextSeq /\ f.timeouts = e.timeouts
          /\ f.last_seen = e.last_seen
      BY <2>2, Zenon DEF Merged
    <2>4. PendingGood(e) /\ FrontGood(e)
      BY <1>9 DEF Good
    <2>5. Base(f) = Base(e)
      BY <2>3, <2>4, PendingTransformed
    <2>6. FrontOnly(b, f, committed)
      BY <1>10, <2>3, <2>5, Zenon DEF FrontOnly
    <2>7. Current(f, committed)
      <3>1. f.last_seen \in Nat /\ f.serverVersion \in 0..Len(committed) /\ f.last_seen <= f.serverVersion
        BY <1>6, <1>11, <2>3
      <3>2. f.serverText = TextOf(committed, f.serverVersion)
        BY <1>13, <1>15, <2>3
      <3> QED  BY <3>1, <3>2, Zenon DEF Current
    \* The operation in flight would have been recognised.
    <2>8. Unaware(b, f, posts)
      <3> SUFFICES ASSUME NEW q \in posts, q.client = b, q.st = "executed", q.seq = e.inflightSeq
                   PROVE  q.version > version
        BY <2>3, Zenon DEF Unaware
      <3>1. q.version > e.serverVersion
        BY <1>4, <1>6, <1>10, Zenon DEF Unaware
      <3>2. q.version \in 1..Len(committed) /\ committed[q.version].client = b /\ committed[q.version].seq = q.seq
        BY <1>3, Zenon DEF PostsPlaced
      <3>3. q.version # version
        <4> SUFFICES ASSUME q.version = version PROVE FALSE
          OBVIOUS
        <4>1. data.client = b /\ data.seq = e.inflightSeq
          BY <1>2, <3>2
        <4>2. e.inflightSeq # None
          <5>1. q.seq \in Nat
            BY <1>3 DEF PostTypes
          <5> QED  BY <5>1, NoMark
        <4>3. e.inflightSeq = Base(e) /\ e.pending # <<>> /\ e.inflightSeq \in e.mySeqs
          BY <1>10, <2>4, <4>2, Zenon DEF FrontGood
        <4>4. Head(e.pending).seq = Base(e)
          BY <2>4, <4>3, FrontSeq
        <4> QED  BY <1>15, <4>1, <4>3, <4>4
      <3>4. version = e.serverVersion + 1 /\ e.serverVersion \in Nat
        BY <1>13, <1>15
      <3>5. q.version \in Nat
        BY <1>11, <3>2
      <3> QED  BY <3>1, <3>3, <3>4, <3>5
    <2>9. Following(b, f, posts, committed)
      BY <1>10, <2>3, <2>6, <2>7, <2>8, Zenon DEF Following
    <2>10. ed' = [ed EXCEPT ![b] = f]
      BY <1>15, <2>1
    <2> QED  BY <1>3, <1>4, <1>15, <2>9, <2>10, OneFollowing
  <1>16. \/ Stale(ed[b], version) /\ ed' = [ed EXCEPT ![b] = e] /\ posts' = posts
         \/ ~Stale(ed[b], version) /\ e.pending # <<>> /\ sendPendingFront(b, AckOwn(e, version, data.op), posts)
         \/ /\ ~Stale(ed[b], version)
            /\ ~(e.pending # <<>> /\ data.client = b /\ data.seq = Head(e.pending).seq /\ data.seq \in e.mySeqs)
            /\ ed' = [ed EXCEPT ![b] = Merge(e, version, data.op)] /\ posts' = posts
    BY <1>0, <1>1, <1>2, Zenon DEF Frame
  <1> QED  BY <1>12, <1>14, <1>15, <1>16, Zenon

\* A commit: no browser can know of it.
LEMMA CommitFollows ==
    ASSUME EditorInv, ShownInv, Ordered, OrderInv, NEW p \in posts, Commit(p)
    PROVE  OrderInv'
  <1> DEFINE n == Len(committed)
             rec == [client |-> p.client, seq |-> p.seq, op |-> p.op]
             r == [p EXCEPT !.st = "executed", !.version = n + 1]
             qs == (posts \ {p}) \cup {r}
  <1>1. /\ DOMAIN p = {"client", "seq", "op", "st", "version"} /\ p.client \in Browser /\ p.seq \in Nat
        /\ PostsPlaced(posts, committed) /\ Distinct(committed) /\ committed \in Seq(CommitRec)
        /\ OneAnswer(posts) /\ PostTypes(posts)
    BY DEF EditorInv, PostTypes, ShownInv, OrderInv
  <1>2. p.st = "sent"
    BY <1>1 DEF PostsPlaced, Commit
  <1>3. posts' = qs
    <2>1. {p.st} \cap {"sent"} = {"sent"}
      BY <1>2
    <2>2. {r : q \in {"sent"}} = {r}
      OBVIOUS
    <2> QED  BY <2>1, <2>2, Zenon DEF Commit
  <1>4. ed' = ed /\ committed' = Append(committed, rec)
    BY DEF Commit
  <1>5. rec.client = p.client /\ rec.seq = p.seq
    OBVIOUS
  <1>6. r.client = p.client /\ r.seq = p.seq /\ r.st = "executed" /\ r.version = n + 1
    BY <1>1
  <1>7. PICK cm : cm = Append(committed, rec)
    OBVIOUS
  <1> HIDE DEF rec, r
  <1>8. n \in Nat /\ Len(cm) = n + 1 /\ cm[n + 1] = rec /\ \A v \in 1..n : cm[v] = committed[v]
    <2>1. committed \in Seq(CommitRec \cup {rec})
      BY <1>1
    <2> QED  BY <1>7, <2>1, AppendProperties
  <1> HIDE DEF n
  <1>9. n = Len(committed)
    BY DEF n
  <1>10. \A v \in 1..Len(cm) : v \in 1..n \/ v = n + 1
    BY <1>8
  <1>11. \A v \in 1..n : ~(committed[v].client = p.client /\ committed[v].seq = p.seq)
    BY <1>1, <1>2, <1>9, Zenon DEF PostsPlaced
  <1>12. Distinct(cm)
    <2> SUFFICES ASSUME NEW v \in 1..Len(cm), NEW w \in 1..Len(cm), cm[v].client = cm[w].client, cm[v].seq = cm[w].seq
                 PROVE  v = w
      BY Zenon DEF Distinct
    <2>1. CASE v \in 1..n /\ w \in 1..n
      BY <1>1, <1>8, <1>9, <2>1 DEF Distinct
    <2>2. CASE v \in 1..n /\ w = n + 1
      BY <1>5, <1>8, <1>11, <2>2
    <2>3. CASE v = n + 1 /\ w \in 1..n
      BY <1>5, <1>8, <1>11, <2>3
    <2> QED  BY <1>10, <2>1, <2>2, <2>3
  <1>13. PostsPlaced(qs, cm)
    <2> SUFFICES ASSUME NEW q \in qs
                 PROVE  /\ q.st \in {"sent", "executed"}
                        /\ q.st = "sent" => \A v \in 1..Len(cm) : ~(cm[v].client = q.client /\ cm[v].seq = q.seq)
                        /\ q.st = "executed" =>
                             q.version \in 1..Len(cm) /\ cm[q.version].client = q.client /\ cm[q.version].seq = q.seq
      BY Zenon DEF PostsPlaced
    <2>1. CASE q = r
      <3>1. q.st = "executed" /\ q.version = n + 1 /\ q.client = p.client /\ q.seq = p.seq
        BY <1>6, <2>1
      <3>2. n + 1 \in 1..Len(cm)
        BY <1>8
      <3> QED  BY <1>5, <1>8, <3>1, <3>2
    <2>2. CASE q \in posts \ {p}
      <3>1. /\ q.st \in {"sent", "executed"}
            /\ q.st = "sent" => \A v \in 1..n : ~(committed[v].client = q.client /\ committed[v].seq = q.seq)
            /\ q.st = "executed" =>
                 q.version \in 1..n /\ committed[q.version].client = q.client /\ committed[q.version].seq = q.seq
        BY <1>1, <1>9, <2>2, Zenon DEF PostsPlaced
      <3>2. ASSUME q.st = "sent", NEW v \in 1..Len(cm), cm[v].client = q.client, cm[v].seq = q.seq PROVE FALSE
        <4>1. CASE v \in 1..n
          BY <1>8, <3>1, <3>2, <4>1
        <4>2. CASE v = n + 1
          <5>1. q.client = p.client /\ q.seq = p.seq
            BY <1>5, <1>8, <3>2, <4>2
          <5>2. q.st # "late" /\ p.st # "late"
            BY <1>2, <3>2
          <5>3. q = p
            BY <1>1, <2>2, <5>1, <5>2, Zenon DEF OneAnswer
          <5> QED  BY <2>2, <5>3
        <4> QED  BY <1>10, <4>1, <4>2
      <3>3. ASSUME q.st = "executed"
            PROVE  q.version \in 1..Len(cm) /\ cm[q.version].client = q.client /\ cm[q.version].seq = q.seq
        <4>1. q.version \in 1..n /\ committed[q.version].client = q.client /\ committed[q.version].seq = q.seq
          BY <3>1, <3>3, Zenon
        <4>2. q.version \in 1..Len(cm) /\ cm[q.version] = committed[q.version]
          BY <1>8, <4>1
        <4> QED  BY <4>1, <4>2, Zenon
      <3> QED  BY <3>1, <3>2, <3>3, Zenon
    <2> QED  BY <2>1, <2>2
  <1>14. ASSUME NEW b \in Browser PROVE Following(b, ed[b], qs, cm)
    <2>1. PICK e : e = ed[b]
      OBVIOUS
    <2>2. Following(b, e, posts, committed) /\ PostsGood(b, e, posts) /\ PendingGood(e)
      BY <2>1 DEF OrderInv, EditorInv, Good
    <2>3. FrontOnly(b, e, cm)
      <3> SUFFICES ASSUME NEW v \in 1..Len(cm), cm[v].client = b
                   PROVE  cm[v].seq < Base(e) \/ cm[v].seq = e.inflightSeq
        BY Zenon DEF FrontOnly
      <3>1. CASE v \in 1..n
        BY <1>8, <1>9, <2>2, <3>1 DEF Following, FrontOnly
      <3>2. CASE v = n + 1
        <4>1. cm[v].seq = p.seq /\ p.client = b
          BY <1>5, <1>8, <3>2
        <4>2. p.st # "late"
          BY <1>2
        <4>3. p.seq >= Base(e) => e.inflightSeq = p.seq
          BY <2>2, <4>1, <4>2, Zenon DEF PostsGood
        <4>4. Base(e) \in Nat
          BY <2>2 DEF PendingGood, Base
        <4> QED  BY <1>1, <4>1, <4>3, <4>4
      <3> QED  BY <1>10, <3>1, <3>2
    <2>4. Current(e, cm)
      <3> SUFFICES ASSUME e.es
                   PROVE  /\ e.last_seen \in Nat
                          /\ e.serverVersion \in 0..Len(cm)
                          /\ e.last_seen <= e.serverVersion
                          /\ e.serverText = TextOf(cm, e.serverVersion)
        BY Zenon DEF Current
      <3>1. /\ e.last_seen \in Nat
            /\ e.serverVersion \in 0..n
            /\ e.last_seen <= e.serverVersion
            /\ e.serverText = TextOf(committed, e.serverVersion)
        BY <1>9, <2>2, Zenon DEF Following, Current
      <3>2. e.serverVersion \in 0..Len(cm) /\ e.serverVersion \in Nat /\ \A v \in 1..e.serverVersion : cm[v] = committed[v]
        BY <1>8, <3>1
      <3>3. TextOf(cm, e.serverVersion) = TextOf(committed, e.serverVersion)
        BY <3>2, TextOfSame
      <3> QED  BY <3>1, <3>2, <3>3
    <2>5. Unaware(b, e, qs)
      <3> SUFFICES ASSUME NEW q \in qs, e.es, q.client = b, q.st = "executed", q.seq = e.inflightSeq
                   PROVE  q.version > e.serverVersion
        BY Zenon DEF Unaware
      <3>1. CASE q = r
        <4>1. e.serverVersion \in 0..n
          BY <1>9, <2>2, Zenon DEF Following, Current
        <4>2. q.version = n + 1
          BY <1>6, <3>1
        <4> QED  BY <1>8, <4>1, <4>2
      <3>2. CASE q \in posts
        BY <2>2, <3>2, Zenon DEF Following, Unaware
      <3> QED  BY <3>1, <3>2
    <2>6. Following(b, e, qs, cm)
      BY <2>2, <2>3, <2>4, <2>5, Zenon DEF Following
    <2> QED  BY <2>1, <2>6
  <1> HIDE DEF qs
  <1>15. committed' = cm
    BY <1>4, <1>7
  <1> QED  BY <1>3, <1>4, <1>12, <1>13, <1>14, <1>15, Zenon DEF OrderInv

\* The answer to a post comes when the stream has told already.
LEMMA AnswerFollows ==
    ASSUME EditorInv, ShownInv, Ordered, OrderInv, NEW p \in posts, ackPostIfStillInflight(p)
    PROVE  OrderInv'
  <1> DEFINE b == p.client
             rest == posts \ {p}
  <1>0. PICK e : e = ed[b]
    OBVIOUS
  <1>1. /\ b \in Browser /\ p.seq \in Nat /\ DOMAIN ed = Browser /\ Shown(e) /\ FrontGood(e) /\ Asking(e)
        /\ Following(b, e, posts, committed) /\ PostsPlaced(posts, committed)
        /\ committed \in Seq(CommitRec)
    BY <1>0 DEF EditorInv, PostTypes, Good, ShownInv, OrderInv
  <1>2. p.st = "executed" /\ (e.last_seen >= p.version \/ ~e.es) /\ committed' = committed
    BY <1>0 DEF ackPostIfStillInflight, Ordered
  <1>3. e.inflightSeq # p.seq
    <2> SUFFICES ASSUME e.inflightSeq = p.seq PROVE FALSE
      OBVIOUS
    <2>1. e.inflightSeq # None
      BY <1>1, NoMark
    <2>2. e.es
      BY <1>1, <2>1 DEF FrontGood, Shown
    <2>3. p.version > e.serverVersion
      BY <1>1, <1>2, <2>2, Zenon DEF Following, Unaware
    <2>4. p.version \in 1..Len(committed)
      BY <1>1, <1>2, Zenon DEF PostsPlaced
    <2>5. e.last_seen \in Nat /\ e.serverVersion \in 0..Len(committed) /\ e.last_seen <= e.serverVersion
      BY <1>1, <2>2, Zenon DEF Following, Current
    <2>6. e.last_seen >= p.version
      BY <1>2, <2>2
    <2>7. Len(committed) \in Nat
      BY <1>1
    <2> QED  BY <2>3, <2>4, <2>5, <2>6, <2>7
  <1>4. sendPendingFront(b, e, rest)
    BY <1>0, <1>3, Zenon DEF ackPostIfStillInflight
  <1>5. e.inflightSeq # None \/ e.pending = <<>>
    BY <1>1 DEF Asking, Following
  <1>6. ed' = [ed EXCEPT ![b] = e] /\ posts' = rest
    BY <1>4, <1>5, Zenon DEF sendPendingFront
  <1>7. \A c \in Browser : ed'[c] = ed[c]
    BY <1>0, <1>1, <1>6
  <1>8. PostsPlaced(rest, committed)
    BY <1>1, Zenon DEF PostsPlaced
  <1>9. ASSUME NEW c \in Browser PROVE Following(c, ed[c], rest, committed)
    <2>1. Following(c, ed[c], posts, committed)
      BY DEF OrderInv
    <2>2. Unaware(c, ed[c], rest)
      BY <2>1, Zenon DEF Following, Unaware
    <2> QED  BY <2>1, <2>2, Zenon DEF Following
  <1> HIDE DEF rest
  <1>10. \A c \in Browser : Following(c, ed'[c], rest, committed)
    BY <1>7, <1>9, Zenon
  <1> QED  BY <1>2, <1>6, <1>8, <1>10, Zenon DEF OrderInv

LEMMA OrderInit == Init => OrderInv
  <1> SUFFICES ASSUME Init PROVE OrderInv
    OBVIOUS
  <1>1. ed = [b \in Browser |-> Start] /\ posts = {} /\ committed = <<>>
    BY DEF Init
  <1>2. Start.es = FALSE /\ Start.inflightSeq = None /\ Start.timeouts = 0
    BY DEF Start
  <1>3. Len(committed) = 0 /\ \A v \in 1..Len(committed) : FALSE
    BY <1>1
  <1>4. Distinct(committed) /\ PostsPlaced(posts, committed)
    BY <1>1, <1>3 DEF Distinct, PostsPlaced
  <1>5. \A b : Following(b, Start, posts, committed)
    <2> TAKE b
    <2>1. FrontOnly(b, Start, committed)
      BY <1>3, Zenon DEF FrontOnly
    <2>2. Current(Start, committed) /\ Unaware(b, Start, posts)
      BY <1>2 DEF Current, Unaware
    <2> QED  BY <1>2, <2>1, <2>2 DEF Following
  <1>6. \A b \in Browser : Following(b, ed[b], posts, committed)
    BY <1>1, <1>5, Zenon
  <1> QED  BY <1>4, <1>6 DEF OrderInv

LEMMA OrderNext == EditorInv /\ ShownInv /\ OrderInv /\ [Next]_vars => OrderInv'
  <1> SUFFICES ASSUME EditorInv, ShownInv, OrderInv, [Next]_vars PROVE OrderInv'
    OBVIOUS
  <1>1. setting' = setting
    BY DEF Next, vars
  <1>2. CASE ~Ordered
    <2>1. ~Ordered'
      BY <1>1, <1>2 DEF Ordered
    <2> QED  BY <2>1 DEF OrderInv
  <1>3. CASE Ordered
    <2>1. ASSUME NEW b \in Browser, connect(b) PROVE OrderInv'
      BY <1>3, <2>1, ConnectFollows
    <2>2. ASSUME NEW b \in Browser, Loaded(b) PROVE OrderInv'
      BY <1>3, <2>2, LoadedFollows
    <2>3. ASSUME NEW b \in Browser, onInput(b) PROVE OrderInv'
      BY <1>3, <2>3, InputFollows
    <2>4. ASSUME NEW b \in Browser, handleSSEOp(b) PROVE OrderInv'
      BY <1>3, <2>4, FrameFollows
    <2>5. ASSUME NEW p \in posts, Commit(p) PROVE OrderInv'
      BY <1>3, <2>5, CommitFollows
    <2>6. ASSUME NEW p \in posts, ackPostIfStillInflight(p) PROVE OrderInv'
      BY <1>3, <2>6, AnswerFollows
    <2>7. ASSUME NEW p \in posts, PostFailed(p) PROVE FALSE
      <3>1. ed[p.client].timeouts \in Nat
        BY DEF EditorInv, PostTypes, Good
      <3>2. ed[p.client].timeouts < 0
        BY <1>3, <2>7 DEF PostFailed, Ordered
      <3> QED  BY <3>1, <3>2
    <2>8. CASE UNCHANGED vars
      <3>1. ed' = ed /\ posts' = posts /\ committed' = committed
        BY <2>8 DEF vars
      <3> QED  BY <1>1, <3>1, Zenon DEF OrderInv, Ordered
    <2> QED  BY <2>1, <2>2, <2>3, <2>4, <2>5, <2>6, <2>7, <2>8, Zenon DEF Next
  <1> QED  BY <1>2, <1>3

LEMMA TextFollows == ShownInv /\ OrderInv => TextTrue
  <1> SUFFICES ASSUME ShownInv, OrderInv PROVE TextTrue
    OBVIOUS
  <1>1. TextShown
    BY Zenon DEF ShownInv, Shown, TextShown
  <1>2. ASSUME Ordered PROVE ServerTextTrue
    <2> SUFFICES ASSUME NEW b \in Browser, ed[b].es
                 PROVE  ed[b].serverText = TextAt(ed[b].serverVersion)
      BY Zenon DEF ServerTextTrue
    <2>1. Distinct(committed) /\ Following(b, ed[b], posts, committed) /\ Len(committed) \in Nat
      BY <1>2 DEF OrderInv, ShownInv
    <2>2. PICK n : n = ed[b].serverVersion
      OBVIOUS
    <2>3. n \in 0..Len(committed) /\ ed[b].serverText = TextOf(committed, n)
      BY <2>1, <2>2, Zenon DEF Following, Current
    <2>4. TextAt(n) = TextOf(committed, n)
      BY <2>1, <2>3, TextAtOrdered
    <2> QED  BY <2>2, <2>3, <2>4, Zenon
  <1> QED  BY <1>1, <1>2, Zenon DEF TextTrue

(***************************************************************************)
(* What a user sees is the server's text and the own pending operations:   *)
(* computeDelta reproduces every edit, whatever the texts and however many *)
(* operations are pending.  And where the answers to posts do not overtake *)
(* the stream and no post fails, the browser's idea of the server's text   *)
(* is what the committed operations up to its version make: none is taken  *)
(* twice or left out, whether it comes with the document or on the stream. *)
(***************************************************************************)
THEOREM TextTrueTheorem == Spec => []TextTrue
  BY EditorInit, EditorNext, ShownInit, ShownNext, OrderInit, OrderNext, TextFollows, PTL DEF Spec
=============================================================================
