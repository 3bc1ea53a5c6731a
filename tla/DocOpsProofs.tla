---------------------------- MODULE DocOpsProofs ----------------------------
(***************************************************************************)
(* Proofs about the operational-transformation engine, for every document  *)
(* and every operation on it.                                              *)
(*                                                                         *)
(* A text is cut at the ends of the two operations; each operation then    *)
(* inserts between two pieces or drops some of them, and the diamond is a  *)
(* matter of the pieces that are left.                                     *)
(***************************************************************************)
EXTENDS DocOps, SequenceTheorems, TLAPS

Txt == Seq(Char)

\* Joining texts; opaque to the provers except in the lemmas that expand it.
s \oplus t == s \o t

-----------------------------------------------------------------------------
(* Cutting and joining texts. *)

LEMMA LenNat ==
    ASSUME NEW t \in Txt
    PROVE  Len(t) \in Nat
  BY LenProperties DEF Txt

LEMMA Joined ==
    ASSUME NEW s \in Txt, NEW t \in Txt
    PROVE  s \oplus t \in Txt /\ Len(s \oplus t) = Len(s) + Len(t)
  BY ConcatProperties DEF Txt, \oplus

LEMMA Regroup ==
    ASSUME NEW s \in Txt, NEW t \in Txt, NEW u \in Txt
    PROVE  (s \oplus t) \oplus u = s \oplus (t \oplus u)
  BY ConcatAssociative DEF Txt, \oplus

LEMMA Nothing ==
    /\ <<>> \in Txt
    /\ Len(<<>>) = 0
    /\ \A t \in Txt : t \oplus <<>> = t /\ <<>> \oplus t = t
    /\ \A t \in Txt : Len(t) = 0 => t = <<>>
  BY ConcatEmptySeq, EmptySeq DEF Txt, \oplus

\* A text can be cut anywhere.
CutAt(t, p) ==
    \E a, b \in Txt : t = a \oplus b /\ Len(a) = p /\ Len(b) = Len(t) - p

LEMMA Cut ==
    ASSUME NEW t \in Txt, NEW p \in 0..Len(t)
    PROVE  CutAt(t, p)
<1> DEFINE a == SubSeq(t, 1, p)
           b == SubSeq(t, p + 1, Len(t))
<1>0. Len(t) \in Nat
  BY LenNat
<1>1. a \in Txt /\ Len(a) = p
  BY SubSeqProperties, LenProperties DEF Txt
<1>2. b \in Txt /\ Len(b) = Len(t) - p
  BY SubSeqProperties, LenProperties DEF Txt
<1>3. t = a \oplus b
  <2>1. /\ 1 \in 1..(Len(t) + 1) /\ p \in (1 - 1)..Len(t) /\ Len(t) \in p..Len(t)
    BY <1>0
  <2>2. SubSeq(t, 1, p) \oplus SubSeq(t, p + 1, Len(t)) = SubSeq(t, 1, Len(t))
    BY <2>1, ConcatAdjacentSubSeq DEF Txt, \oplus
  <2> QED BY <2>2, SubSeqFull DEF Txt
<1> HIDE DEF a, b
<1> QED BY <1>1, <1>2, <1>3, Zenon DEF CutAt

\* The two parts of a joined text.
LEMMA Parts ==
    ASSUME NEW a \in Txt, NEW b \in Txt
    PROVE  /\ SubSeq(a \oplus b, 1, Len(a)) = a
           /\ SubSeq(a \oplus b, Len(a) + 1, Len(a \oplus b)) = b
<1> DEFINE t == a \oplus b
           l == SubSeq(t, 1, Len(a))
           r == SubSeq(t, Len(a) + 1, Len(t))
<1>1. /\ Len(a) \in Nat /\ Len(b) \in Nat /\ Len(t) = Len(a) + Len(b) /\ t \in Seq(Char)
      /\ \A i \in 1..(Len(a) + Len(b)) : t[i] = IF i <= Len(a) THEN a[i] ELSE b[i - Len(a)]
  BY LenNat, ConcatProperties DEF Txt, \oplus
<1>2. \A i \in 1..Len(t) : t[i] \in Char
  BY <1>1, LenProperties
<1> HIDE DEF t
<1>3. /\ l \in Seq(Char) /\ Len(l) = Len(a)
      /\ \A i \in 1..Len(a) : l[i] = t[i]
  BY <1>1, <1>2, SubSeqProperties
<1>4. /\ r \in Seq(Char) /\ Len(r) = Len(b)
      /\ \A i \in 1..Len(b) : r[i] = t[Len(a) + i]
  BY <1>1, <1>2, SubSeqProperties
<1> HIDE DEF l, r
<1>5. ASSUME NEW i \in 1..Len(a)
      PROVE  l[i] = a[i]
  BY <1>1, <1>3
<1>6. ASSUME NEW i \in 1..Len(b)
      PROVE  r[i] = b[i]
  <2>1. /\ Len(a) + i \in 1..(Len(a) + Len(b)) /\ ~(Len(a) + i <= Len(a))
        /\ (Len(a) + i) - Len(a) = i
    BY <1>1
  <2>2. t[Len(a) + i] = b[(Len(a) + i) - Len(a)]
    BY <2>1, <1>1
  <2> QED BY <2>1, <2>2, <1>4
<1>7. l = a
  BY <1>3, <1>5, SeqEqual DEF Txt
<1>8. r = b
  BY <1>4, <1>6, SeqEqual DEF Txt
<1> QED BY <1>7, <1>8 DEF l, r, t

\* Inserting between two pieces, and dropping the piece between two others.
LEMMA InsertBetween ==
    ASSUME NEW a \in Txt, NEW x \in Txt, NEW b \in Txt
    PROVE  InsertAtPos(a \oplus b, Len(a), x) = a \oplus (x \oplus b)
<1>1. InsertAtPos(a \oplus b, Len(a), x) = (a \oplus x) \oplus b
  BY Parts DEF InsertAtPos, \oplus
<1> QED BY <1>1, Regroup

\* The same fact, named so that a use of it is a match and not a search.
InsertsBetween(a, x, b) ==
    InsertAtPos(a \oplus b, Len(a), x) = a \oplus (x \oplus b)

LEMMA InsertNamed ==
    ASSUME NEW a \in Txt, NEW x \in Txt, NEW b \in Txt
    PROVE  InsertsBetween(a, x, b)
  BY InsertBetween DEF InsertsBetween

LEMMA EraseBetween ==
    ASSUME NEW a \in Txt, NEW x \in Txt, NEW b \in Txt
    PROVE  EraseAtPos(a \oplus (x \oplus b), Len(a), Len(x)) = a \oplus b
<1> DEFINE c == a \oplus x
           t == a \oplus (x \oplus b)
<1>1. x \oplus b \in Txt /\ c \in Txt /\ Len(c) = Len(a) + Len(x)
  BY Joined
<1>2. t = c \oplus b
  BY Regroup
<1>3. SubSeq(t, 1, Len(a)) = a
  BY <1>1, Parts
<1> HIDE DEF c
<1>4. SubSeq(c \oplus b, Len(c) + 1, Len(c \oplus b)) = b
  BY <1>1, Parts
<1>5. SubSeq(t, Len(a) + Len(x) + 1, Len(t)) = b
  BY <1>1, <1>2, <1>4, Zenon
<1> HIDE DEF t
<1>6. EraseAtPos(t, Len(a), Len(x)) = a \oplus b
  BY <1>3, <1>5 DEF EraseAtPos, \oplus
<1> QED BY <1>6 DEF t

\* A text cut at two, three and four places.
CutAt2(t, p, q) ==
    \E a, b, c \in Txt :
        /\ t = a \oplus (b \oplus c)
        /\ Len(a) = p /\ Len(b) = q - p /\ Len(c) = Len(t) - q

CutAt3(t, p, q, r) ==
    \E a, b, c, d \in Txt :
        /\ t = a \oplus (b \oplus (c \oplus d))
        /\ Len(a) = p /\ Len(b) = q - p /\ Len(c) = r - q

CutAt4(t, p, q, r, s) ==
    \E a, b, c, d, e \in Txt :
        /\ t = a \oplus (b \oplus (c \oplus (d \oplus e)))
        /\ Len(a) = p /\ Len(b) = q - p /\ Len(c) = r - q /\ Len(d) = s - r

LEMMA Cut2 ==
    ASSUME NEW t \in Txt, NEW p \in Nat, NEW q \in Nat, p <= q, q <= Len(t)
    PROVE  CutAt2(t, p, q)
<1>0. Len(t) \in Nat
  BY LenNat
<1>1. PICK a \in Txt, u \in Txt : t = a \oplus u /\ Len(a) = p /\ Len(u) = Len(t) - p
  <2>1. p \in 0..Len(t)
    BY <1>0
  <2>2. CutAt(t, p)
    BY <2>1, Cut
  <2> QED BY <2>2 DEF CutAt
<1>2. PICK b \in Txt, c \in Txt : u = b \oplus c /\ Len(b) = q - p /\ Len(c) = Len(u) - (q - p)
  <2>1. q - p \in 0..Len(u)
    BY <1>0, <1>1
  <2>2. CutAt(u, q - p)
    BY <2>1, Cut
  <2> QED BY <2>2 DEF CutAt
<1>3. Len(c) = Len(t) - q
  BY <1>0, <1>1, <1>2
<1> QED BY <1>1, <1>2, <1>3 DEF CutAt2

LEMMA Cut3 ==
    ASSUME NEW t \in Txt, NEW p \in Nat, NEW q \in Nat, NEW r \in Nat,
           p <= q, q <= r, r <= Len(t)
    PROVE  CutAt3(t, p, q, r)
<1>0. Len(t) \in Nat
  BY LenNat
<1>1. PICK a \in Txt, b \in Txt, u \in Txt :
         /\ t = a \oplus (b \oplus u)
         /\ Len(a) = p /\ Len(b) = q - p /\ Len(u) = Len(t) - q
  <2>1. q <= Len(t)
    BY <1>0
  <2>2. CutAt2(t, p, q)
    BY <2>1, Cut2
  <2> QED BY <2>2 DEF CutAt2
<1>2. PICK c \in Txt, d \in Txt : u = c \oplus d /\ Len(c) = r - q
  <2>1. r - q \in 0..Len(u)
    BY <1>0, <1>1
  <2>2. CutAt(u, r - q)
    BY <2>1, Cut
  <2> QED BY <2>2 DEF CutAt
<1> QED BY <1>1, <1>2 DEF CutAt3

LEMMA Cut4 ==
    ASSUME NEW t \in Txt, NEW p \in Nat, NEW q \in Nat, NEW r \in Nat, NEW s \in Nat,
           p <= q, q <= r, r <= s, s <= Len(t)
    PROVE  CutAt4(t, p, q, r, s)
<1>0. Len(t) \in Nat
  BY LenNat
<1>1. PICK a \in Txt, b \in Txt, u \in Txt :
         /\ t = a \oplus (b \oplus u)
         /\ Len(a) = p /\ Len(b) = q - p /\ Len(u) = Len(t) - q
  <2>1. q <= Len(t)
    BY <1>0
  <2>2. CutAt2(t, p, q)
    BY <2>1, Cut2
  <2> QED BY <2>2 DEF CutAt2
<1> DEFINE m == r - q
           n == s - q
<1>2. m \in Nat /\ n \in Nat /\ m <= n /\ n <= Len(u) /\ n - m = s - r
  BY <1>0, <1>1
<1> HIDE DEF m, n
<1>3. PICK c \in Txt, d \in Txt, e \in Txt :
         u = c \oplus (d \oplus e) /\ Len(c) = m /\ Len(d) = n - m
  <2>1. CutAt2(u, m, n)
    BY <1>2, Cut2
  <2> QED BY <2>1 DEF CutAt2
<1>4. Len(c) = r - q /\ Len(d) = s - r
  BY <1>2, <1>3 DEF m
<1> QED BY <1>1, <1>3, <1>4 DEF CutAt4

-----------------------------------------------------------------------------
(* The ways two edits of one text commute.                                 *)

\* Two insertions: the one in front shifts the other.
LEMMA InsertInsert ==
    ASSUME NEW t \in Txt, NEW x \in Txt, NEW y \in Txt,
           NEW p \in Nat, NEW q \in Nat, p <= q, q <= Len(t)
    PROVE  InsertAtPos(InsertAtPos(t, p, x), q + Len(x), y)
             = InsertAtPos(InsertAtPos(t, q, y), p, x)
<1>1. PICK a \in Txt, b \in Txt, c \in Txt :
         /\ t = a \oplus (b \oplus c)
         /\ Len(a) = p /\ Len(b) = q - p
  <2>1. CutAt2(t, p, q)
    BY Cut2
  <2> QED BY <2>1 DEF CutAt2
<1> DEFINE ab  == a \oplus b
           bc  == b \oplus c
           yc  == y \oplus c
           byc == b \oplus yc
           ax  == a \oplus x
           axb == ax \oplus b
<1>2. /\ ab \in Txt /\ Len(ab) = Len(a) + Len(b)
      /\ bc \in Txt /\ yc \in Txt
      /\ ax \in Txt /\ Len(ax) = Len(a) + Len(x)
  BY Joined
<1>3. ab \oplus c = a \oplus bc /\ ab \oplus yc = a \oplus byc
  BY <1>2, Regroup
<1>4. ax \oplus bc = a \oplus (x \oplus bc) /\ ax \oplus byc = a \oplus (x \oplus byc)
  <2>1. byc \in Txt
    BY <1>2, Joined
  <2> QED BY <1>2, <2>1, Regroup
<1> HIDE DEF ab, ax, yc
<1>5. axb \in Txt /\ Len(axb) = Len(ax) + Len(b)
  BY <1>2, Joined
<1>6. axb \oplus c = ax \oplus bc /\ axb \oplus yc = ax \oplus byc
  BY <1>2, Regroup
<1>7. Len(ab) = q /\ Len(axb) = q + Len(x)
  BY <1>1, <1>2, <1>5, LenNat
<1> HIDE DEF axb
<1>8. InsertAtPos(axb \oplus c, Len(axb), y) = axb \oplus yc
  BY <1>5, InsertBetween DEF yc
<1>9. InsertAtPos(a \oplus bc, Len(a), x) = a \oplus (x \oplus bc)
  BY <1>2, InsertBetween
<1>10. InsertAtPos(ab \oplus c, Len(ab), y) = ab \oplus yc
  <2>1. InsertsBetween(ab, y, c)
    BY <1>2, InsertNamed
  <2> QED BY <2>1, Zenon DEF yc, InsertsBetween
<1>11. InsertAtPos(a \oplus byc, Len(a), x) = a \oplus (x \oplus byc)
  <2>1. byc \in Txt
    BY <1>2, Joined
  <2> QED BY <2>1, InsertBetween
<1>12. InsertAtPos(InsertAtPos(t, p, x), q + Len(x), y) = axb \oplus yc
  BY <1>1, <1>4, <1>6, <1>7, <1>8, <1>9, Zenon
<1>13. InsertAtPos(InsertAtPos(t, q, y), p, x) = a \oplus (x \oplus byc)
  BY <1>1, <1>3, <1>7, <1>10, <1>11, Zenon
<1> QED BY <1>4, <1>6, <1>12, <1>13, Zenon

\* An insertion in front of a deletion shifts it.
LEMMA InsertBeforeErase ==
    ASSUME NEW t \in Txt, NEW x \in Txt, NEW p \in Nat, NEW q \in Nat, NEW n \in Nat,
           p <= q, q + n <= Len(t)
    PROVE  InsertAtPos(EraseAtPos(t, q, n), p, x) = EraseAtPos(InsertAtPos(t, p, x), q + Len(x), n)
<1>1. PICK a \in Txt, b \in Txt, c \in Txt, d \in Txt :
         /\ t = a \oplus (b \oplus (c \oplus d))
         /\ Len(a) = p /\ Len(b) = q - p /\ Len(c) = (q + n) - q
  <2>1. q + n \in Nat /\ q <= q + n
    OBVIOUS
  <2>2. CutAt3(t, p, q, q + n)
    BY <2>1, Cut3
  <2> QED BY <2>2 DEF CutAt3
<1> DEFINE ab  == a \oplus b
           bd  == b \oplus d
           cd  == c \oplus d
           bcd == b \oplus cd
           ax  == a \oplus x
           axb == ax \oplus b
<1>2. /\ ab \in Txt /\ Len(ab) = Len(a) + Len(b) /\ ax \in Txt /\ Len(ax) = Len(a) + Len(x)
      /\ bd \in Txt /\ cd \in Txt
  BY Joined
<1>3. ab \oplus cd = a \oplus bcd /\ ab \oplus d = a \oplus bd
  BY <1>2, Regroup
<1> HIDE DEF ab, ax, cd
<1>4. bcd \in Txt /\ axb \in Txt /\ Len(axb) = Len(ax) + Len(b)
  BY <1>2, Joined
<1>5. axb \oplus cd = ax \oplus bcd /\ axb \oplus d = ax \oplus bd
  BY <1>2, Regroup
<1> HIDE DEF axb, bcd, bd
<1>6. ax \oplus bcd = a \oplus (x \oplus bcd) /\ ax \oplus bd = a \oplus (x \oplus bd)
  BY <1>2, <1>4, Regroup DEF ax
<1>7. Len(ab) = q /\ Len(axb) = q + Len(x) /\ Len(c) = n
  BY <1>1, <1>2, <1>4, LenNat
<1>8. /\ EraseAtPos(ab \oplus cd, Len(ab), Len(c)) = ab \oplus d
      /\ EraseAtPos(axb \oplus cd, Len(axb), Len(c)) = axb \oplus d
  <2>1. EraseAtPos(ab \oplus cd, Len(ab), Len(c)) = ab \oplus d
    BY <1>2, <1>4, EraseBetween DEF cd
  <2>2. EraseAtPos(axb \oplus cd, Len(axb), Len(c)) = axb \oplus d
    BY <1>2, <1>4, EraseBetween DEF cd
  <2> QED BY <2>1, <2>2, Zenon
<1>9. /\ InsertAtPos(a \oplus bd, Len(a), x) = a \oplus (x \oplus bd)
      /\ InsertAtPos(a \oplus bcd, Len(a), x) = a \oplus (x \oplus bcd)
  <2>1. InsertAtPos(a \oplus bd, Len(a), x) = a \oplus (x \oplus bd)
    BY <1>2, <1>4, InsertBetween
  <2>2. InsertAtPos(a \oplus bcd, Len(a), x) = a \oplus (x \oplus bcd)
    BY <1>2, <1>4, InsertBetween
  <2> QED BY <2>1, <2>2, Zenon
<1>10. t = a \oplus bcd
  BY <1>1 DEF bcd, cd
<1>11. InsertAtPos(EraseAtPos(t, q, n), p, x) = a \oplus (x \oplus bd)
  BY <1>1, <1>3, <1>7, <1>8, <1>9, <1>10, Zenon
<1>12. EraseAtPos(InsertAtPos(t, p, x), q + Len(x), n) = axb \oplus d
  BY <1>1, <1>5, <1>6, <1>7, <1>8, <1>9, <1>10, Zenon
<1> QED BY <1>5, <1>6, <1>11, <1>12, Zenon

\* A deletion in front of an insertion shifts it.
LEMMA InsertAfterErase ==
    ASSUME NEW t \in Txt, NEW x \in Txt, NEW p \in Nat, NEW q \in Nat, NEW n \in Nat,
           q + n <= p, p <= Len(t)
    PROVE  InsertAtPos(EraseAtPos(t, q, n), p - n, x) = EraseAtPos(InsertAtPos(t, p, x), q, n)
<1>1. PICK a \in Txt, b \in Txt, c \in Txt, d \in Txt :
         /\ t = a \oplus (b \oplus (c \oplus d))
         /\ Len(a) = q /\ Len(b) = (q + n) - q /\ Len(c) = p - (q + n)
  <2>1. q + n \in Nat /\ q <= q + n
    OBVIOUS
  <2>2. CutAt3(t, q, q + n, p)
    BY <2>1, Cut3
  <2> QED BY <2>2 DEF CutAt3
<1> DEFINE ab  == a \oplus b
           ac  == a \oplus c
           cd  == c \oplus d
           xd  == x \oplus d
           cxd == c \oplus xd
           abc == ab \oplus c
<1>2. /\ ab \in Txt /\ Len(ab) = Len(a) + Len(b) /\ ac \in Txt /\ Len(ac) = Len(a) + Len(c)
      /\ cd \in Txt /\ xd \in Txt
  BY Joined
<1>3. ac \oplus d = a \oplus cd /\ ac \oplus xd = a \oplus cxd
  BY <1>2, Regroup
<1> HIDE DEF ab, ac, xd
<1>4. cxd \in Txt /\ abc \in Txt /\ Len(abc) = Len(ab) + Len(c)
  BY <1>2, Joined
<1>5. abc \oplus d = ab \oplus cd /\ abc \oplus xd = ab \oplus cxd
  BY <1>2, Regroup
<1> HIDE DEF abc, cd, cxd
<1>6. ab \oplus cd = a \oplus (b \oplus cd) /\ ab \oplus cxd = a \oplus (b \oplus cxd)
  BY <1>2, <1>4, Regroup DEF ab
<1>7. Len(abc) = p /\ Len(ac) = p - n /\ Len(b) = n
  BY <1>1, <1>2, <1>4, LenNat
<1>8. /\ InsertAtPos(ac \oplus d, Len(ac), x) = ac \oplus xd
      /\ InsertAtPos(abc \oplus d, Len(abc), x) = abc \oplus xd
  <2>1. InsertsBetween(ac, x, d) /\ InsertsBetween(abc, x, d)
    BY <1>2, <1>4, InsertNamed
  <2> QED BY <2>1, Zenon DEF InsertsBetween, xd
<1>9. /\ EraseAtPos(a \oplus (b \oplus cd), Len(a), Len(b)) = a \oplus cd
      /\ EraseAtPos(a \oplus (b \oplus cxd), Len(a), Len(b)) = a \oplus cxd
  <2>1. EraseAtPos(a \oplus (b \oplus cd), Len(a), Len(b)) = a \oplus cd
    BY <1>2, <1>4, EraseBetween
  <2>2. EraseAtPos(a \oplus (b \oplus cxd), Len(a), Len(b)) = a \oplus cxd
    BY <1>2, <1>4, EraseBetween
  <2> QED BY <2>1, <2>2, Zenon
<1>10. t = a \oplus (b \oplus cd)
  BY <1>1 DEF cd
<1>11. InsertAtPos(EraseAtPos(t, q, n), p - n, x) = ac \oplus xd
  BY <1>1, <1>3, <1>7, <1>8, <1>9, <1>10, Zenon
<1>12. EraseAtPos(InsertAtPos(t, p, x), q, n) = a \oplus cxd
  BY <1>1, <1>5, <1>6, <1>7, <1>8, <1>9, <1>10, Zenon
<1> QED BY <1>3, <1>11, <1>12, Zenon

\* A deletion that grows over a text inserted inside it.
LEMMA InsertInsideErase ==
    ASSUME NEW t \in Txt, NEW x \in Txt, NEW p \in Nat, NEW q \in Nat, NEW n \in Nat,
           q <= p, p <= q + n, q + n <= Len(t)
    PROVE  EraseAtPos(InsertAtPos(t, p, x), q, n + Len(x)) = EraseAtPos(t, q, n)
<1>1. PICK a \in Txt, b \in Txt, c \in Txt, d \in Txt :
         /\ t = a \oplus (b \oplus (c \oplus d))
         /\ Len(a) = q /\ Len(b) = p - q /\ Len(c) = (q + n) - p
  <2>1. q + n \in Nat
    OBVIOUS
  <2>2. CutAt3(t, q, p, q + n)
    BY <2>1, Cut3
  <2> QED BY <2>2 DEF CutAt3
<1> DEFINE ab  == a \oplus b
           bc  == b \oplus c
           cd  == c \oplus d
           xcd == x \oplus cd
           bx  == b \oplus x
           bxc == bx \oplus c
<1>2. /\ ab \in Txt /\ Len(ab) = Len(a) + Len(b) /\ bc \in Txt /\ Len(bc) = Len(b) + Len(c)
      /\ cd \in Txt /\ bx \in Txt /\ Len(bx) = Len(b) + Len(x)
  BY Joined
<1>3. bc \oplus d = b \oplus cd /\ ab \oplus cd = a \oplus (b \oplus cd)
  BY <1>2, Regroup
<1>4. bx \oplus cd = b \oplus xcd
  BY <1>2, Regroup
<1> HIDE DEF bx
<1>5. bxc \in Txt /\ Len(bxc) = Len(bx) + Len(c)
  BY <1>2, Joined
<1>6. bxc \oplus d = bx \oplus cd
  BY <1>2, Regroup
<1> HIDE DEF bc, bxc, cd
<1>7. xcd \in Txt
  BY <1>2, Joined
<1>8. ab \oplus xcd = a \oplus (b \oplus xcd)
  BY <1>7, Regroup
<1> HIDE DEF ab
<1>9. Len(ab) = p /\ Len(bc) = n /\ Len(bxc) = n + Len(x)
  BY <1>1, <1>2, <1>5, LenNat
<1>10. InsertAtPos(ab \oplus cd, Len(ab), x) = ab \oplus xcd
  <2>1. InsertsBetween(ab, x, cd)
    BY <1>2, InsertNamed
  <2> QED BY <2>1, Zenon DEF InsertsBetween
<1>11. /\ EraseAtPos(a \oplus (bc \oplus d), Len(a), Len(bc)) = a \oplus d
       /\ EraseAtPos(a \oplus (bxc \oplus d), Len(a), Len(bxc)) = a \oplus d
  <2>1. EraseAtPos(a \oplus (bc \oplus d), Len(a), Len(bc)) = a \oplus d
    BY <1>2, <1>5, EraseBetween
  <2>2. EraseAtPos(a \oplus (bxc \oplus d), Len(a), Len(bxc)) = a \oplus d
    BY <1>2, <1>5, EraseBetween
  <2> QED BY <2>1, <2>2, Zenon
<1>12. t = a \oplus (b \oplus cd)
  BY <1>1 DEF cd
<1> HIDE DEF xcd
<1>13. EraseAtPos(t, q, n) = a \oplus d
  BY <1>1, <1>3, <1>9, <1>11, <1>12, Zenon
<1>14. EraseAtPos(InsertAtPos(t, p, x), q, n + Len(x)) = a \oplus d
  BY <1>1, <1>3, <1>4, <1>6, <1>8, <1>9, <1>10, <1>11, <1>12, Zenon
<1> QED BY <1>13, <1>14, Zenon

\* Two deletions that do not meet: the one in front shifts the other.
LEMMA EraseApart ==
    ASSUME NEW t \in Txt, NEW p \in Nat, NEW n \in Nat, NEW q \in Nat, NEW m \in Nat,
           p + n <= q, q + m <= Len(t)
    PROVE  EraseAtPos(EraseAtPos(t, p, n), q - n, m) = EraseAtPos(EraseAtPos(t, q, m), p, n)
<1>1. PICK a \in Txt, b \in Txt, c \in Txt, d \in Txt, e \in Txt :
         /\ t = a \oplus (b \oplus (c \oplus (d \oplus e)))
         /\ Len(a) = p /\ Len(b) = (p + n) - p /\ Len(c) = q - (p + n) /\ Len(d) = (q + m) - q
  <2>1. p + n \in Nat /\ p <= p + n /\ q + m \in Nat /\ q <= q + m
    OBVIOUS
  <2>2. CutAt4(t, p, p + n, q, q + m)
    BY <2>1, Cut4
  <2> QED BY <2>2 DEF CutAt4
<1> DEFINE ab  == a \oplus b
           ac  == a \oplus c
           ce  == c \oplus e
           de  == d \oplus e
           cde == c \oplus de
           abc == ab \oplus c
<1>2. /\ ab \in Txt /\ Len(ab) = Len(a) + Len(b) /\ ac \in Txt /\ Len(ac) = Len(a) + Len(c)
      /\ ce \in Txt /\ de \in Txt
  BY Joined
<1>3. ac \oplus de = a \oplus cde /\ ac \oplus e = a \oplus ce
  BY <1>2, Regroup
<1> HIDE DEF ab, ac, de
<1>4. cde \in Txt /\ abc \in Txt /\ Len(abc) = Len(ab) + Len(c)
  BY <1>2, Joined
<1>5. abc \oplus de = ab \oplus cde /\ abc \oplus e = ab \oplus ce
  BY <1>2, Regroup
<1> HIDE DEF abc, cde, ce
<1>6. ab \oplus cde = a \oplus (b \oplus cde) /\ ab \oplus ce = a \oplus (b \oplus ce)
  BY <1>2, <1>4, Regroup DEF ab
<1>7. Len(ac) = q - n /\ Len(abc) = q /\ Len(b) = n /\ Len(d) = m
  BY <1>1, <1>2, <1>4, LenNat
<1>8. /\ EraseAtPos(ac \oplus de, Len(ac), Len(d)) = ac \oplus e
      /\ EraseAtPos(abc \oplus de, Len(abc), Len(d)) = abc \oplus e
  <2>1. EraseAtPos(ac \oplus de, Len(ac), Len(d)) = ac \oplus e
    BY <1>2, <1>4, EraseBetween DEF de
  <2>2. EraseAtPos(abc \oplus de, Len(abc), Len(d)) = abc \oplus e
    BY <1>2, <1>4, EraseBetween DEF de
  <2> QED BY <2>1, <2>2, Zenon
<1>9. /\ EraseAtPos(a \oplus (b \oplus cde), Len(a), Len(b)) = a \oplus cde
      /\ EraseAtPos(a \oplus (b \oplus ce), Len(a), Len(b)) = a \oplus ce
  <2>1. EraseAtPos(a \oplus (b \oplus cde), Len(a), Len(b)) = a \oplus cde
    BY <1>2, <1>4, EraseBetween
  <2>2. EraseAtPos(a \oplus (b \oplus ce), Len(a), Len(b)) = a \oplus ce
    BY <1>2, <1>4, EraseBetween
  <2> QED BY <2>1, <2>2, Zenon
<1>10. t = a \oplus (b \oplus cde)
  BY <1>1 DEF cde, de
<1>11. EraseAtPos(EraseAtPos(t, p, n), q - n, m) = ac \oplus e
  BY <1>1, <1>3, <1>7, <1>8, <1>9, <1>10, Zenon
<1>12. EraseAtPos(EraseAtPos(t, q, m), p, n) = a \oplus ce
  BY <1>1, <1>5, <1>6, <1>7, <1>8, <1>9, <1>10, Zenon
<1> QED BY <1>3, <1>11, <1>12, Zenon

\* A deletion inside another one.
LEMMA EraseInside ==
    ASSUME NEW t \in Txt, NEW p \in Nat, NEW n \in Nat, NEW q \in Nat, NEW m \in Nat,
           p <= q, q + m <= p + n, p + n <= Len(t)
    PROVE  EraseAtPos(EraseAtPos(t, q, m), p, n - m) = EraseAtPos(t, p, n)
<1>1. PICK a \in Txt, b \in Txt, c \in Txt, d \in Txt, e \in Txt :
         /\ t = a \oplus (b \oplus (c \oplus (d \oplus e)))
         /\ Len(a) = p /\ Len(b) = q - p /\ Len(c) = (q + m) - q /\ Len(d) = (p + n) - (q + m)
  <2>1. q + m \in Nat /\ q <= q + m /\ p + n \in Nat
    OBVIOUS
  <2>2. CutAt4(t, p, q, q + m, p + n)
    BY <2>1, Cut4
  <2> QED BY <2>2 DEF CutAt4
<1> DEFINE ab  == a \oplus b
           bc  == b \oplus c
           bd  == b \oplus d
           de  == d \oplus e
           cde == c \oplus de
           bcd == bc \oplus d
<1>2. /\ ab \in Txt /\ Len(ab) = Len(a) + Len(b) /\ bc \in Txt /\ Len(bc) = Len(b) + Len(c)
      /\ bd \in Txt /\ Len(bd) = Len(b) + Len(d) /\ de \in Txt
  BY Joined
<1>3. bd \oplus e = b \oplus de
  BY Regroup
<1>4. bc \oplus de = b \oplus cde /\ ab \oplus de = a \oplus (b \oplus de)
  BY <1>2, Regroup
<1> HIDE DEF bc, bd
<1>5. bcd \in Txt /\ Len(bcd) = Len(bc) + Len(d)
  BY <1>2, Joined
<1>6. bcd \oplus e = bc \oplus de
  BY <1>2, Regroup
<1> HIDE DEF bcd, de
<1>7. cde \in Txt
  BY <1>2, Joined
<1> HIDE DEF cde
<1>8. ab \oplus cde = a \oplus (b \oplus cde)
  BY <1>7, Regroup
<1> HIDE DEF ab
<1>9. Len(ab) = q /\ Len(bd) = n - m /\ Len(bcd) = n /\ Len(c) = m
  BY <1>1, <1>2, <1>5, LenNat
<1>10. EraseAtPos(ab \oplus cde, Len(ab), Len(c)) = ab \oplus de
  BY <1>2, EraseBetween DEF cde
<1>11. /\ EraseAtPos(a \oplus (bd \oplus e), Len(a), Len(bd)) = a \oplus e
       /\ EraseAtPos(a \oplus (bcd \oplus e), Len(a), Len(bcd)) = a \oplus e
  <2>1. EraseAtPos(a \oplus (bd \oplus e), Len(a), Len(bd)) = a \oplus e
    BY <1>2, <1>5, EraseBetween
  <2>2. EraseAtPos(a \oplus (bcd \oplus e), Len(a), Len(bcd)) = a \oplus e
    BY <1>2, <1>5, EraseBetween
  <2> QED BY <2>1, <2>2, Zenon
<1>12. t = a \oplus (b \oplus cde)
  BY <1>1 DEF cde, de
<1>13. EraseAtPos(EraseAtPos(t, q, m), p, n - m) = a \oplus e
  BY <1>1, <1>3, <1>4, <1>8, <1>9, <1>10, <1>11, <1>12, Zenon
<1>14. EraseAtPos(t, p, n) = a \oplus e
  BY <1>1, <1>4, <1>6, <1>9, <1>11, <1>12, Zenon
<1> QED BY <1>13, <1>14, Zenon

\* Two deletions that overlap.
LEMMA EraseOverlap ==
    ASSUME NEW t \in Txt, NEW p \in Nat, NEW n \in Nat, NEW q \in Nat, NEW m \in Nat,
           p <= q, q <= p + n, p + n <= q + m, q + m <= Len(t)
    PROVE  EraseAtPos(EraseAtPos(t, p, n), p, (q + m) - (p + n))
             = EraseAtPos(EraseAtPos(t, q, m), p, q - p)
<1>1. PICK a \in Txt, b \in Txt, c \in Txt, d \in Txt, e \in Txt :
         /\ t = a \oplus (b \oplus (c \oplus (d \oplus e)))
         /\ Len(a) = p /\ Len(b) = q - p /\ Len(c) = (p + n) - q /\ Len(d) = (q + m) - (p + n)
  <2>1. p + n \in Nat /\ q + m \in Nat
    OBVIOUS
  <2>2. CutAt4(t, p, q, p + n, q + m)
    BY <2>1, Cut4
  <2> QED BY <2>2 DEF CutAt4
<1> DEFINE ab  == a \oplus b
           bc  == b \oplus c
           be  == b \oplus e
           cd  == c \oplus d
           de  == d \oplus e
           cde == c \oplus de
<1>2. /\ ab \in Txt /\ Len(ab) = Len(a) + Len(b) /\ bc \in Txt /\ Len(bc) = Len(b) + Len(c)
      /\ cd \in Txt /\ Len(cd) = Len(c) + Len(d) /\ de \in Txt
  BY Joined
<1>3. cd \oplus e = cde /\ ab \oplus e = a \oplus be
  BY Regroup
<1>4. bc \oplus de = b \oplus cde
  BY <1>2, Regroup
<1> HIDE DEF bc, cd, de
<1>5. cde \in Txt
  BY <1>2, Joined
<1> HIDE DEF cde
<1>6. ab \oplus cde = a \oplus (b \oplus cde)
  BY <1>5, Regroup
<1> HIDE DEF ab
<1>7. Len(ab) = q /\ Len(bc) = n /\ Len(cd) = m
  BY <1>1, <1>2, LenNat
<1>8. /\ EraseAtPos(a \oplus (bc \oplus de), Len(a), Len(bc)) = a \oplus de
      /\ EraseAtPos(ab \oplus (cd \oplus e), Len(ab), Len(cd)) = ab \oplus e
  <2>1. EraseAtPos(a \oplus (bc \oplus de), Len(a), Len(bc)) = a \oplus de
    BY <1>2, EraseBetween
  <2>2. EraseAtPos(ab \oplus (cd \oplus e), Len(ab), Len(cd)) = ab \oplus e
    BY <1>2, EraseBetween
  <2> QED BY <2>1, <2>2, Zenon
<1>9. /\ EraseAtPos(a \oplus de, Len(a), Len(d)) = a \oplus e
      /\ EraseAtPos(a \oplus be, Len(a), Len(b)) = a \oplus e
  <2>1. EraseAtPos(a \oplus de, Len(a), Len(d)) = a \oplus e
    BY EraseBetween DEF de
  <2>2. EraseAtPos(a \oplus be, Len(a), Len(b)) = a \oplus e
    BY EraseBetween DEF de
  <2> QED BY <2>1, <2>2, Zenon
<1>10. t = a \oplus (b \oplus cde)
  BY <1>1 DEF cde, de
<1> HIDE DEF be
<1>11. EraseAtPos(EraseAtPos(t, p, n), p, (q + m) - (p + n)) = a \oplus e
  BY <1>1, <1>4, <1>7, <1>8, <1>9, <1>10, Zenon
<1>12. EraseAtPos(EraseAtPos(t, q, m), p, q - p) = a \oplus e
  BY <1>1, <1>3, <1>6, <1>7, <1>8, <1>9, <1>10, Zenon
<1> QED BY <1>11, <1>12, Zenon

\* Edits that change nothing.
LEMMA EmptyEdit ==
    ASSUME NEW t \in Txt, NEW p \in Nat, p <= Len(t)
    PROVE  InsertAtPos(t, p, <<>>) = t /\ EraseAtPos(t, p, 0) = t
<1>1. PICK a \in Txt, b \in Txt : t = a \oplus b /\ Len(a) = p
  <2>1. p \in 0..Len(t)
    BY LenNat
  <2>2. CutAt(t, p)
    BY <2>1, Cut
  <2> QED BY <2>2 DEF CutAt
<1>2. <<>> \oplus b = b
  BY Nothing
<1>3. InsertAtPos(a \oplus b, Len(a), <<>>) = a \oplus (<<>> \oplus b)
  BY Nothing, InsertBetween
<1>4. EraseAtPos(a \oplus (<<>> \oplus b), Len(a), Len(<<>>)) = a \oplus b
  BY Nothing, EraseBetween
<1> QED BY <1>1, <1>2, <1>3, <1>4, Nothing, Zenon

\* The lengths the edits leave.
LEMMA EditLength ==
    ASSUME NEW t \in Txt, NEW p \in Nat
    PROVE  /\ p <= Len(t) => \A x \in Txt : /\ InsertAtPos(t, p, x) \in Txt
                                            /\ Len(InsertAtPos(t, p, x)) = Len(t) + Len(x)
           /\ \A n \in Nat : p + n <= Len(t) => /\ EraseAtPos(t, p, n) \in Txt
                                                /\ Len(EraseAtPos(t, p, n)) = Len(t) - n
<1>1. ASSUME NEW x \in Txt, p <= Len(t)
      PROVE  InsertAtPos(t, p, x) \in Txt /\ Len(InsertAtPos(t, p, x)) = Len(t) + Len(x)
  <2>1. PICK a \in Txt, b \in Txt : t = a \oplus b /\ Len(a) = p /\ Len(b) = Len(t) - p
    <3>1. p \in 0..Len(t)
      BY <1>1, LenNat
    <3>2. CutAt(t, p)
      BY <3>1, Cut
    <3> QED BY <3>2 DEF CutAt
  <2> DEFINE xb == x \oplus b
  <2>2. xb \in Txt /\ Len(xb) = Len(x) + Len(b)
    BY Joined
  <2> HIDE DEF xb
  <2>3. a \oplus xb \in Txt /\ Len(a \oplus xb) = Len(a) + Len(xb)
    BY <2>2, Joined
  <2>4. InsertAtPos(t, p, x) = a \oplus xb
    BY <2>1, InsertBetween DEF xb
  <2>5. Len(a) + Len(xb) = Len(t) + Len(x)
    BY <2>1, <2>2, LenNat
  <2> QED BY <2>3, <2>4, <2>5, Zenon
<1>2. ASSUME NEW n \in Nat, p + n <= Len(t)
      PROVE  EraseAtPos(t, p, n) \in Txt /\ Len(EraseAtPos(t, p, n)) = Len(t) - n
  <2>1. PICK a \in Txt, b \in Txt, c \in Txt :
           t = a \oplus (b \oplus c) /\ Len(a) = p /\ Len(b) = (p + n) - p /\ Len(c) = Len(t) - (p + n)
    <3>1. p + n \in Nat /\ p <= p + n
      OBVIOUS
    <3>2. CutAt2(t, p, p + n)
      BY <1>2, <3>1, Cut2
    <3> QED BY <3>2 DEF CutAt2
  <2>2. a \oplus c \in Txt /\ Len(a \oplus c) = Len(a) + Len(c)
    BY Joined
  <2>3. Len(b) = n /\ Len(a) + Len(c) = Len(t) - n
    BY <2>1, LenNat
  <2>4. EraseAtPos(t, p, n) = a \oplus c
    BY <2>1, <2>3, EraseBetween
  <2> QED BY <2>2, <2>3, <2>4, Zenon
<1> QED BY <1>1, <1>2

-----------------------------------------------------------------------------
(* Operations. *)

LEMMA OpForms ==
    ASSUME NEW a \in Op
    PROVE  \/ \E p \in Nat, x \in Txt : a = Insert(p, x)
           \/ \E p \in Nat, n \in Nat : a = Delete(p, n)
<1>1. CASE a \in Inserts
  <2>1. a.pos \in Nat /\ a.text \in Txt /\ a = Insert(a.pos, a.text)
    BY <1>1 DEF Inserts, Insert, Txt
  <2> QED BY <2>1
<1>2. CASE a \in Deletes
  <2>1. a.pos \in Nat /\ a.len \in Nat /\ a = Delete(a.pos, a.len)
    BY <1>2 DEF Deletes, Delete
  <2> QED BY <2>1
<1> QED BY <1>1, <1>2 DEF Op

LEMMA InsertForm ==
    ASSUME NEW p \in Nat, NEW x \in Txt
    PROVE  /\ Insert(p, x) \in Op
           /\ \A t \in Txt : InRange(Insert(p, x), t) <=> p <= Len(t)
           /\ \A t \in Txt : p <= Len(t) => apply_op(t, Insert(p, x)) = InsertAtPos(t, p, x)
<1>1. Insert(p, x) \in Op
  BY DEF Op, Inserts, Insert, Txt
<1>2. Insert(p, x).type = "I" /\ Insert(p, x).pos = p /\ Insert(p, x).text = x
  BY DEF Insert
<1> QED BY <1>1, <1>2 DEF InRange, apply_op, Least

LEMMA DeleteForm ==
    ASSUME NEW p \in Nat, NEW n \in Nat
    PROVE  /\ Delete(p, n) \in Op
           /\ \A t \in Txt : InRange(Delete(p, n), t) <=> p + n <= Len(t)
           /\ \A t \in Txt : p + n <= Len(t) => apply_op(t, Delete(p, n)) = EraseAtPos(t, p, n)
<1>1. Delete(p, n) \in Op
  BY DEF Op, Deletes, Delete
<1>2. /\ Delete(p, n).type = "D" /\ Delete(p, n).type # "I"
      /\ Delete(p, n).pos = p /\ Delete(p, n).len = n
  BY DEF Delete
<1>3. ASSUME NEW t \in Txt, p + n <= Len(t)
      PROVE  Least(p, Len(t)) = p /\ Least(n, Len(t) - p) = n
  BY <1>3, LenNat DEF Least
<1>4. ASSUME NEW t \in Txt, p + n <= Len(t)
      PROVE  apply_op(t, Delete(p, n)) = EraseAtPos(t, p, n)
  BY <1>2, <1>3, <1>4, Zenon DEF apply_op
<1>5. ASSUME NEW t \in Txt
      PROVE  InRange(Delete(p, n), t) <=> p + n <= Len(t)
  BY <1>2, Zenon DEF InRange
<1> QED BY <1>1, <1>4, <1>5

\* transform, case by case.
LEMMA FormII ==
    ASSUME NEW p \in Nat, NEW x \in Txt, NEW q \in Nat, NEW y \in Txt
    PROVE  transform(Insert(p, x), Insert(q, y)) =
              IF q <= p THEN Insert(p + Len(y), x) ELSE Insert(p, x)
<1> DEFINE a == Insert(p, x)
           b == Insert(q, y)
<1>1. a.type = "I" /\ a.pos = p /\ a.text = x /\ b.type = "I" /\ b.pos = q /\ b.text = y
  BY DEF Insert
<1> HIDE DEF a, b
<1>2. transform(a, b) = TransformII(a, b)
  BY <1>1 DEF transform
<1>3. TransformII(a, b) = IF q <= p THEN Insert(p + Len(y), x) ELSE a
  BY <1>1 DEF TransformII
<1> QED BY <1>2, <1>3, Zenon DEF a, b

\* What an insertion of x at p becomes after m characters are deleted at q.
Moved(p, x, q, m) ==
    IF p <= q THEN Insert(p, x)
    ELSE IF p >= q + m THEN Insert(p - m, x) ELSE Insert(0, <<>>)

LEMMA FormID ==
    ASSUME NEW p \in Nat, NEW x \in Txt, NEW q \in Nat, NEW m \in Nat
    PROVE  transform(Insert(p, x), Delete(q, m)) = Moved(p, x, q, m)
<1> DEFINE a == Insert(p, x)
           b == Delete(q, m)
<1>1. a.type = "I" /\ a.pos = p /\ a.text = x /\ b.type = "D" /\ b.pos = q /\ b.len = m
  BY DEF Insert, Delete
<1> HIDE DEF a, b
<1>2. transform(a, b) = TransformID(a, b)
  BY <1>1 DEF transform
<1>3. TransformID(a, b) =
         IF p <= q THEN a ELSE IF p >= q + m THEN Insert(p - m, x) ELSE Insert(0, <<>>)
  BY <1>1 DEF TransformID
<1> QED BY <1>2, <1>3, Zenon DEF a, b, Moved

\* What a deletion of n characters at p becomes after y is inserted at q.
Grown(p, n, q, y) ==
    IF q >= p + n THEN Delete(p, n)
    ELSE IF q <= p THEN Delete(p + Len(y), n) ELSE Delete(p, n + Len(y))

LEMMA FormDI ==
    ASSUME NEW p \in Nat, NEW n \in Nat, NEW q \in Nat, NEW y \in Txt
    PROVE  transform(Delete(p, n), Insert(q, y)) = Grown(p, n, q, y)
<1> DEFINE a == Delete(p, n)
           b == Insert(q, y)
<1>1. a.type = "D" /\ a.pos = p /\ a.len = n /\ b.type = "I" /\ b.pos = q /\ b.text = y
  BY DEF Insert, Delete
<1> HIDE DEF a, b
<1>2. transform(a, b) = TransformDI(a, b)
  BY <1>1 DEF transform
<1>3. TransformDI(a, b) =
         IF q >= p + n THEN a
         ELSE IF q <= p THEN Delete(p + Len(y), n) ELSE Delete(p, n + Len(y))
  BY <1>1 DEF TransformDI
<1> QED BY <1>2, <1>3, Zenon DEF a, b, Grown

\* What a deletion of n characters at p has left to delete after one of m at q.
Rest(p, n, q, m) ==
    IF p + n <= q THEN Delete(p, n)
    ELSE IF p >= q + m THEN Delete(p - m, n)
    ELSE IF p >= q /\ p + n <= q + m THEN Delete(0, 0)
    ELSE IF p <= q /\ p + n >= q + m THEN Delete(p, n - m)
    ELSE IF p < q THEN Delete(p, q - p)
    ELSE Delete(q, (p + n) - (q + m))

LEMMA FormDD ==
    ASSUME NEW p \in Nat, NEW n \in Nat, NEW q \in Nat, NEW m \in Nat
    PROVE  transform(Delete(p, n), Delete(q, m)) = Rest(p, n, q, m)
<1> DEFINE a == Delete(p, n)
           b == Delete(q, m)
<1>1. a.type = "D" /\ a.pos = p /\ a.len = n /\ b.type = "D" /\ b.pos = q /\ b.len = m
  BY DEF Delete
<1> HIDE DEF a, b
<1>2. transform(a, b) = TransformDD(a, b)
  BY <1>1 DEF transform
<1>3. TransformDD(a, b) =
         IF p + n <= q THEN a
         ELSE IF p >= q + m THEN Delete(p - m, n)
         ELSE IF p >= q /\ p + n <= q + m THEN Delete(0, 0)
         ELSE IF p <= q /\ p + n >= q + m THEN Delete(p, n - m)
         ELSE IF p < q THEN Delete(p, q - p)
         ELSE Delete(q, (p + n) - (q + m))
  BY <1>1 DEF TransformDD
<1> QED BY <1>2, <1>3, Zenon DEF a, b, Rest

-----------------------------------------------------------------------------
(* A transformed operation is one on the text it is applied to.            *)
Fits(t, a, b) ==
    transform(a, b) \in Op /\ InRange(transform(a, b), apply_op(t, b))

LEMMA FitsAfterInsert ==
    ASSUME NEW t \in Txt, NEW q \in Nat, NEW y \in Txt, NEW a \in Op, InRange(a, t), q <= Len(t)
    PROVE  Fits(t, a, Insert(q, y))
<1> DEFINE u == apply_op(t, Insert(q, y))
<1>1. u \in Txt /\ Len(u) = Len(t) + Len(y) /\ Len(t) \in Nat /\ Len(y) \in Nat
  <2>1. u = InsertAtPos(t, q, y)
    BY InsertForm
  <2> HIDE DEF u
  <2> QED BY <2>1, EditLength, LenNat
<1> HIDE DEF u
<1>2. ASSUME NEW p \in Nat, NEW x \in Txt, a = Insert(p, x)
      PROVE  transform(a, Insert(q, y)) \in Op /\ InRange(transform(a, Insert(q, y)), u)
  <2>1. p <= Len(t)
    BY <1>2, InsertForm
  <2>2. transform(a, Insert(q, y)) = IF q <= p THEN Insert(p + Len(y), x) ELSE Insert(p, x)
    BY <1>2, FormII, Zenon
  <2>3. p + Len(y) \in Nat /\ p + Len(y) <= Len(u) /\ p <= Len(u)
    BY <1>1, <2>1
  <2>4. /\ Insert(p + Len(y), x) \in Op /\ InRange(Insert(p + Len(y), x), u)
        /\ Insert(p, x) \in Op /\ InRange(Insert(p, x), u)
    BY <1>1, <2>3, InsertForm
  <2> QED BY <2>2, <2>4, Zenon
<1>3. ASSUME NEW p \in Nat, NEW n \in Nat, a = Delete(p, n)
      PROVE  transform(a, Insert(q, y)) \in Op /\ InRange(transform(a, Insert(q, y)), u)
  <2>1. p + n <= Len(t)
    BY <1>3, DeleteForm
  <2>2. transform(a, Insert(q, y)) = Grown(p, n, q, y)
    BY <1>3, FormDI, Zenon
  <2>3. /\ p + Len(y) \in Nat /\ n + Len(y) \in Nat
        /\ p + n <= Len(u) /\ (p + Len(y)) + n <= Len(u) /\ p + (n + Len(y)) <= Len(u)
    BY <1>1, <2>1
  <2>4. /\ Delete(p, n) \in Op /\ InRange(Delete(p, n), u)
        /\ Delete(p + Len(y), n) \in Op /\ InRange(Delete(p + Len(y), n), u)
        /\ Delete(p, n + Len(y)) \in Op /\ InRange(Delete(p, n + Len(y)), u)
    BY <1>1, <2>3, DeleteForm
  <2> QED BY <2>2, <2>4, Zenon DEF Grown
<1>4. transform(a, Insert(q, y)) \in Op /\ InRange(transform(a, Insert(q, y)), u)
  BY <1>2, <1>3, OpForms, Zenon
<1> QED BY <1>4 DEF Fits, u

LEMMA FitsAfterDelete ==
    ASSUME NEW t \in Txt, NEW q \in Nat, NEW m \in Nat, NEW a \in Op, InRange(a, t), q + m <= Len(t)
    PROVE  Fits(t, a, Delete(q, m))
<1> DEFINE u == apply_op(t, Delete(q, m))
<1>1. u \in Txt /\ Len(u) = Len(t) - m /\ Len(t) \in Nat
  <2>1. u = EraseAtPos(t, q, m)
    BY DeleteForm
  <2> HIDE DEF u
  <2> QED BY <2>1, EditLength, LenNat
<1> HIDE DEF u
<1>2. ASSUME NEW p \in Nat, NEW x \in Txt, a = Insert(p, x)
      PROVE  transform(a, Delete(q, m)) \in Op /\ InRange(transform(a, Delete(q, m)), u)
  <2>1. p <= Len(t)
    BY <1>2, InsertForm
  <2>2. transform(a, Delete(q, m)) = Moved(p, x, q, m)
    BY <1>2, FormID, Zenon
  <2>3. CASE p <= q
    <3>1. p <= Len(u)
      BY <1>1, <2>3
    <3>2. Insert(p, x) \in Op /\ InRange(Insert(p, x), u)
      BY <1>1, <3>1, InsertForm
    <3> QED BY <2>2, <2>3, <3>2, Zenon DEF Moved
  <2>4. CASE ~(p <= q) /\ p >= q + m
    <3>1. p - m \in Nat /\ p - m <= Len(u)
      BY <1>1, <2>1, <2>4
    <3>2. Insert(p - m, x) \in Op /\ InRange(Insert(p - m, x), u)
      BY <1>1, <3>1, InsertForm
    <3> QED BY <2>2, <2>4, <3>2, Zenon DEF Moved
  <2>5. CASE ~(p <= q) /\ ~(p >= q + m)
    <3>1. 0 <= Len(u)
      BY <1>1, LenNat
    <3>2. Insert(0, <<>>) \in Op /\ InRange(Insert(0, <<>>), u)
      BY <1>1, <3>1, Nothing, InsertForm
    <3> QED BY <2>2, <2>5, <3>2, Zenon DEF Moved
  <2> QED BY <2>3, <2>4, <2>5, Zenon
<1>3. ASSUME NEW p \in Nat, NEW n \in Nat, a = Delete(p, n)
      PROVE  transform(a, Delete(q, m)) \in Op /\ InRange(transform(a, Delete(q, m)), u)
  <2>1. p + n <= Len(t)
    BY <1>3, DeleteForm
  <2>2. transform(a, Delete(q, m)) = Rest(p, n, q, m)
    BY <1>3, FormDD, Zenon
  <2>3. PICK r \in Nat, k \in Nat : transform(a, Delete(q, m)) = Delete(r, k) /\ r + k <= Len(u)
    <3>1. CASE p + n <= q
      <4>1. p + n <= Len(u)
        BY <1>1, <3>1
      <4> QED BY <2>2, <3>1, <4>1, Zenon DEF Rest
    <3>2. CASE ~(p + n <= q) /\ p >= q + m
      <4>1. p - m \in Nat /\ (p - m) + n <= Len(u)
        BY <1>1, <2>1, <3>2
      <4> QED BY <2>2, <3>2, <4>1, Zenon DEF Rest
    <3>3. CASE ~(p + n <= q) /\ ~(p >= q + m) /\ p >= q /\ p + n <= q + m
      <4>1. 0 \in Nat /\ 0 + 0 <= Len(u)
        BY <1>1, LenNat
      <4> QED BY <2>2, <3>3, <4>1, Zenon DEF Rest
    <3>4. CASE /\ ~(p + n <= q) /\ ~(p >= q + m) /\ ~(p >= q /\ p + n <= q + m)
               /\ p <= q /\ p + n >= q + m
      <4>1. n - m \in Nat /\ p + (n - m) <= Len(u)
        BY <1>1, <2>1, <3>4
      <4> QED BY <2>2, <3>4, <4>1, Zenon DEF Rest
    <3>5. CASE /\ ~(p + n <= q) /\ ~(p >= q + m) /\ ~(p >= q /\ p + n <= q + m)
               /\ ~(p <= q /\ p + n >= q + m) /\ p < q
      <4>1. q - p \in Nat /\ p + (q - p) <= Len(u)
        BY <1>1, <3>5
      <4> QED BY <2>2, <3>5, <4>1, Zenon DEF Rest
    <3>6. CASE /\ ~(p + n <= q) /\ ~(p >= q + m) /\ ~(p >= q /\ p + n <= q + m)
               /\ ~(p <= q /\ p + n >= q + m) /\ ~(p < q)
      <4>1. (p + n) - (q + m) \in Nat /\ q + ((p + n) - (q + m)) <= Len(u)
        BY <1>1, <2>1, <3>6
      <4> QED BY <2>2, <3>6, <4>1, Zenon DEF Rest
    <3> QED BY <3>1, <3>2, <3>3, <3>4, <3>5, <3>6, Zenon
  <2> QED BY <1>1, <2>3, DeleteForm
<1>4. transform(a, Delete(q, m)) \in Op /\ InRange(transform(a, Delete(q, m)), u)
  BY <1>2, <1>3, OpForms, Zenon
<1> QED BY <1>4 DEF Fits, u

LEMMA TransformFits ==
    ASSUME NEW t \in Txt, NEW a \in Op, NEW b \in Op, InRange(a, t), InRange(b, t)
    PROVE  Fits(t, a, b)
<1>1. ASSUME NEW q \in Nat, NEW y \in Txt, b = Insert(q, y)
      PROVE  Fits(t, a, b)
  <2>1. q <= Len(t)
    BY <1>1, InsertForm
  <2> QED BY <1>1, <2>1, FitsAfterInsert
<1>2. ASSUME NEW q \in Nat, NEW m \in Nat, b = Delete(q, m)
      PROVE  Fits(t, a, b)
  <2>1. q + m <= Len(t)
    BY <1>2, DeleteForm
  <2> QED BY <1>2, <2>1, FitsAfterDelete
<1> QED BY <1>1, <1>2, OpForms, Zenon

\* An operation on a text gives a text.
LEMMA ApplyText ==
    ASSUME NEW t \in Txt, NEW a \in Op, InRange(a, t)
    PROVE  apply_op(t, a) \in Txt
<1>1. ASSUME NEW p \in Nat, NEW x \in Txt, a = Insert(p, x)
      PROVE  apply_op(t, a) \in Txt
  <2>1. p <= Len(t) /\ apply_op(t, a) = InsertAtPos(t, p, x)
    BY <1>1, InsertForm
  <2> QED BY <2>1, EditLength
<1>2. ASSUME NEW p \in Nat, NEW n \in Nat, a = Delete(p, n)
      PROVE  apply_op(t, a) \in Txt
  <2>1. p + n <= Len(t) /\ apply_op(t, a) = EraseAtPos(t, p, n)
    BY <1>2, DeleteForm
  <2> QED BY <2>1, EditLength
<1> QED BY <1>1, <1>2, OpForms, Zenon

-----------------------------------------------------------------------------
(* The diamond for one pair of operations.                                 *)
Meets(t, a, b) ==
    apply_op(apply_op(t, b), transform(a, b)) = apply_op(apply_op(t, a), transform(b, a))

LEMMA MeetsSymmetric ==
    ASSUME NEW t, NEW a, NEW b, Meets(t, a, b)
    PROVE  Meets(t, b, a)
  BY Zenon DEF Meets

\* An operation that has become empty changes nothing.
LEMMA EmptyOp ==
    ASSUME NEW t \in Txt, NEW p \in Nat, p <= Len(t)
    PROVE  apply_op(t, Insert(p, <<>>)) = t /\ apply_op(t, Delete(p, 0)) = t
<1>1. <<>> \in Txt /\ 0 \in Nat /\ p + 0 <= Len(t)
  BY Nothing, LenNat
<1>2. apply_op(t, Insert(p, <<>>)) = InsertAtPos(t, p, <<>>)
  BY <1>1, InsertForm
<1>3. apply_op(t, Delete(p, 0)) = EraseAtPos(t, p, 0)
  BY <1>1, DeleteForm
<1> QED BY <1>2, <1>3, EmptyEdit, Zenon

LEMMA MeetsII ==
    ASSUME NEW t \in Txt, NEW p \in Nat, NEW q \in Nat, NEW x \in Txt, NEW y \in Txt,
           p <= q, q <= Len(t), p = q => x = <<>> \/ y = <<>>
    PROVE  Meets(t, Insert(p, x), Insert(q, y))
<1> DEFINE u == InsertAtPos(t, p, x)
           v == InsertAtPos(t, q, y)
<1>0. Len(t) \in Nat /\ Len(x) \in Nat /\ Len(y) \in Nat /\ p <= Len(t)
  BY LenNat
<1>1. /\ u \in Txt /\ Len(u) = Len(t) + Len(x)
      /\ v \in Txt /\ Len(v) = Len(t) + Len(y)
  BY <1>0, EditLength
<1>2. apply_op(t, Insert(p, x)) = u /\ apply_op(t, Insert(q, y)) = v
  BY <1>0, InsertForm
<1>3. transform(Insert(p, x), Insert(q, y)) =
         IF q <= p THEN Insert(p + Len(y), x) ELSE Insert(p, x)
  BY FormII, Zenon
<1>4. transform(Insert(q, y), Insert(p, x)) =
         IF p <= q THEN Insert(q + Len(x), y) ELSE Insert(q, y)
  BY FormII, Zenon
<1>5. InsertAtPos(u, q + Len(x), y) = InsertAtPos(v, p, x)
  BY InsertInsert
<1> HIDE DEF u, v
<1>6. q + Len(x) \in Nat /\ q + Len(x) <= Len(u) /\ p <= Len(v)
  BY <1>0, <1>1
<1>7. /\ apply_op(u, Insert(q + Len(x), y)) = InsertAtPos(u, q + Len(x), y)
      /\ apply_op(v, Insert(p, x)) = InsertAtPos(v, p, x)
  BY <1>1, <1>6, InsertForm
<1>8. apply_op(v, transform(Insert(p, x), Insert(q, y))) = apply_op(v, Insert(p, x))
  <2>1. CASE p < q
    <3>1. ~(q <= p)
      BY <2>1
    <3> QED BY <3>1, <1>3, Zenon
  <2>2. CASE p = q /\ x = <<>>
    <3>1. q <= p /\ p + Len(y) \in Nat /\ p + Len(y) <= Len(v) /\ p <= Len(v)
      BY <1>0, <1>1, <2>2
    <3>2. apply_op(v, Insert(p + Len(y), x)) = v /\ apply_op(v, Insert(p, x)) = v
      BY <1>1, <2>2, <3>1, EmptyOp
    <3> QED BY <3>1, <3>2, <1>3, Zenon
  <2>3. CASE p = q /\ y = <<>>
    <3>1. q <= p /\ p + Len(y) = p
      BY <2>3, Nothing
    <3> QED BY <3>1, <1>3, Zenon
  <2> QED BY <2>1, <2>2, <2>3
<1> QED BY <1>2, <1>4, <1>5, <1>7, <1>8, Zenon DEF Meets

LEMMA MeetsID ==
    ASSUME NEW t \in Txt, NEW p \in Nat, NEW x \in Txt, NEW q \in Nat, NEW m \in Nat,
           p <= Len(t), q + m <= Len(t)
    PROVE  Meets(t, Insert(p, x), Delete(q, m))
<1> DEFINE a == Insert(p, x)
           b == Delete(q, m)
           u == InsertAtPos(t, p, x)
           v == EraseAtPos(t, q, m)
<1>0. Len(t) \in Nat /\ Len(x) \in Nat
  BY LenNat
<1>1. u \in Txt /\ Len(u) = Len(t) + Len(x)
  BY EditLength
<1>2. v \in Txt /\ Len(v) = Len(t) - m
  BY EditLength
<1>3. apply_op(t, a) = u /\ apply_op(t, b) = v
  BY InsertForm, DeleteForm
<1>4. transform(a, b) = Moved(p, x, q, m)
  BY FormID, Zenon
<1>5. transform(b, a) = Grown(q, m, p, x)
  BY FormDI, Zenon
<1>6. CASE p <= q /\ p >= q + m
  <2>1. p = q /\ m = 0
    BY <1>6
  <2>2. v = t
    BY <1>0, <2>1, EmptyEdit
  <2> HIDE DEF u, v
  <2>3. apply_op(u, Delete(q, m)) = u
    <3>1. q <= Len(u)
      BY <1>0, <1>1, <2>1
    <3> QED BY <1>1, <2>1, <3>1, EmptyOp
  <2> QED BY <1>3, <1>4, <1>5, <1>6, <2>2, <2>3, Zenon DEF Meets, Moved, Grown, a
<1>7. CASE p <= q /\ ~(p >= q + m)
  <2>1. InsertAtPos(v, p, x) = EraseAtPos(u, q + Len(x), m)
    BY <1>7, InsertBeforeErase
  <2> HIDE DEF u, v
  <2>2. p <= Len(v) /\ q + Len(x) \in Nat /\ (q + Len(x)) + m <= Len(u)
    BY <1>0, <1>1, <1>2, <1>7
  <2>3. apply_op(v, Insert(p, x)) = InsertAtPos(v, p, x)
    BY <1>2, <2>2, InsertForm
  <2>4. apply_op(u, Delete(q + Len(x), m)) = EraseAtPos(u, q + Len(x), m)
    BY <1>1, <2>2, DeleteForm
  <2> QED BY <1>3, <1>4, <1>5, <1>7, <2>1, <2>3, <2>4, Zenon DEF Meets, Moved, Grown
<1>8. CASE ~(p <= q) /\ p >= q + m
  <2>1. InsertAtPos(v, p - m, x) = EraseAtPos(u, q, m)
    BY <1>8, InsertAfterErase
  <2> HIDE DEF u, v
  <2>2. p - m \in Nat /\ p - m <= Len(v) /\ q + m <= Len(u)
    BY <1>0, <1>1, <1>2, <1>8
  <2>3. apply_op(v, Insert(p - m, x)) = InsertAtPos(v, p - m, x)
    BY <1>2, <2>2, InsertForm
  <2>4. apply_op(u, Delete(q, m)) = EraseAtPos(u, q, m)
    BY <1>1, <2>2, DeleteForm
  <2> QED BY <1>3, <1>4, <1>5, <1>8, <2>1, <2>3, <2>4, Zenon DEF Meets, Moved, Grown
<1>9. CASE ~(p <= q) /\ ~(p >= q + m)
  <2>1. EraseAtPos(u, q, m + Len(x)) = v
    <3>1. q <= p /\ p <= q + m
      BY <1>9
    <3> QED BY <3>1, InsertInsideErase
  <2> HIDE DEF u, v
  <2>2. 0 <= Len(v) /\ m + Len(x) \in Nat /\ q + (m + Len(x)) <= Len(u)
    BY <1>0, <1>1, <1>2
  <2>3. apply_op(v, Insert(0, <<>>)) = v
    BY <1>2, <2>2, EmptyOp
  <2>4. apply_op(u, Delete(q, m + Len(x))) = EraseAtPos(u, q, m + Len(x))
    BY <1>1, <2>2, DeleteForm
  <2> QED BY <1>3, <1>4, <1>5, <1>9, <2>1, <2>3, <2>4, Zenon DEF Meets, Moved, Grown
<1> QED BY <1>6, <1>7, <1>8, <1>9, Zenon

\* Two deletions, the first one not starting later than the second.
LEMMA MeetsDD ==
    ASSUME NEW t \in Txt, NEW p \in Nat, NEW n \in Nat, NEW q \in Nat, NEW m \in Nat,
           p <= q, p + n <= Len(t), q + m <= Len(t)
    PROVE  Meets(t, Delete(p, n), Delete(q, m))
<1> DEFINE a == Delete(p, n)
           b == Delete(q, m)
           u == EraseAtPos(t, p, n)
           v == EraseAtPos(t, q, m)
<1>0. Len(t) \in Nat
  BY LenNat
<1>1. u \in Txt /\ Len(u) = Len(t) - n
  BY EditLength
<1>2. v \in Txt /\ Len(v) = Len(t) - m
  BY EditLength
<1>3. apply_op(t, a) = u /\ apply_op(t, b) = v
  BY DeleteForm
<1>4. transform(a, b) = Rest(p, n, q, m)
  BY FormDD, Zenon
<1>5. transform(b, a) = Rest(q, m, p, n)
  BY FormDD, Zenon
<1>6. apply_op(u, Delete(0, 0)) = u /\ apply_op(v, Delete(0, 0)) = v
  <2> HIDE DEF u, v
  <2>1. 0 \in Nat /\ 0 <= Len(u) /\ 0 <= Len(v)
    BY <1>0, <1>1, <1>2
  <2> QED BY <1>1, <1>2, <2>1, EmptyOp
\* It is enough to find the two transformed deletions and what they leave.
<1>7. ASSUME NEW i \in Nat, NEW k \in Nat, NEW j \in Nat, NEW l \in Nat,
             Rest(p, n, q, m) = Delete(i, k), Rest(q, m, p, n) = Delete(j, l),
             apply_op(v, Delete(i, k)) = apply_op(u, Delete(j, l))
      PROVE  Meets(t, a, b)
  <2> HIDE DEF u, v, a, b
  <2> QED BY <1>3, <1>4, <1>5, <1>7, Zenon DEF Meets
<1>8. CASE m = 0 /\ p = q
  <2>1. Rest(p, n, q, m) = Delete(p, n)
    <3>1. (p + n <= q \/ p >= q + m) /\ p - m = p
      BY <1>8
    <3> QED BY <3>1, Zenon DEF Rest
  <2>2. Rest(q, m, p, n) = Delete(q, m)
    <3>1. q + m <= p
      BY <1>8
    <3> QED BY <3>1, Zenon DEF Rest
  <2>3. v = t
    BY <1>0, <1>8, EmptyEdit
  <2> HIDE DEF u, v
  <2>4. apply_op(u, Delete(q, m)) = u
    <3>1. q <= Len(u)
      BY <1>0, <1>1, <1>8
    <3> QED BY <1>1, <1>8, <3>1, EmptyOp
  <2>5. apply_op(v, Delete(p, n)) = u
    BY <1>3, <2>3, Zenon DEF a
  <2> QED BY <1>7, <2>1, <2>2, <2>4, <2>5, Zenon
<1>9. CASE ~(m = 0 /\ p = q) /\ p + n <= q
  <2>1. Rest(p, n, q, m) = Delete(p, n)
    BY <1>9, Zenon DEF Rest
  <2>2. Rest(q, m, p, n) = Delete(q - n, m) /\ q - n \in Nat
    <3>1. ~(q + m <= p) /\ q >= p + n /\ q - n \in Nat
      BY <1>9
    <3> QED BY <3>1, Zenon DEF Rest
  <2>3. EraseAtPos(u, q - n, m) = EraseAtPos(v, p, n)
    BY <1>9, EraseApart
  <2> HIDE DEF u, v
  <2>4. p + n <= Len(v) /\ (q - n) + m <= Len(u)
    BY <1>0, <1>1, <1>2, <1>9
  <2>5. /\ apply_op(v, Delete(p, n)) = EraseAtPos(v, p, n)
        /\ apply_op(u, Delete(q - n, m)) = EraseAtPos(u, q - n, m)
    BY <1>1, <1>2, <2>2, <2>4, DeleteForm
  <2> QED BY <1>7, <2>1, <2>2, <2>3, <2>5, Zenon
<1>10. CASE ~(m = 0 /\ p = q) /\ ~(p + n <= q) /\ p = q /\ n = m
  <2>1. Rest(p, n, q, m) = Delete(0, 0)
    <3>1. ~(p + n <= q) /\ ~(p >= q + m) /\ p >= q /\ p + n <= q + m
      BY <1>10
    <3> QED BY <3>1, Zenon DEF Rest
  <2>2. Rest(q, m, p, n) = Delete(0, 0)
    <3>1. ~(q + m <= p) /\ ~(q >= p + n) /\ q >= p /\ q + m <= p + n
      BY <1>10
    <3> QED BY <3>1, Zenon DEF Rest
  <2>3. u = v
    BY <1>10
  <2>4. 0 \in Nat
    OBVIOUS
  <2> HIDE DEF u, v
  <2> QED BY <1>6, <1>7, <2>1, <2>2, <2>3, <2>4, Zenon
<1>11. CASE ~(m = 0 /\ p = q) /\ ~(p + n <= q) /\ q + m <= p + n /\ ~(p = q /\ n = m)
  <2>1. Rest(p, n, q, m) = Delete(p, n - m) /\ n - m \in Nat
    <3>1. /\ ~(p + n <= q) /\ ~(p >= q + m) /\ ~(p >= q /\ p + n <= q + m)
          /\ p <= q /\ p + n >= q + m /\ n - m \in Nat
      BY <1>11
    <3> QED BY <3>1, Zenon DEF Rest
  <2>2. Rest(q, m, p, n) = Delete(0, 0)
    <3>1. ~(q + m <= p) /\ ~(q >= p + n) /\ q >= p /\ q + m <= p + n
      BY <1>11
    <3> QED BY <3>1, Zenon DEF Rest
  <2>3. EraseAtPos(v, p, n - m) = u
    BY <1>11, EraseInside
  <2> HIDE DEF u, v
  <2>4. p + (n - m) <= Len(v) /\ 0 \in Nat
    BY <1>0, <1>2
  <2>5. apply_op(v, Delete(p, n - m)) = EraseAtPos(v, p, n - m)
    BY <1>2, <2>1, <2>4, DeleteForm
  <2> QED BY <1>6, <1>7, <2>1, <2>2, <2>3, <2>4, <2>5, Zenon
<1>12. CASE ~(p + n <= q) /\ ~(q + m <= p + n) /\ p = q
  <2>1. Rest(p, n, q, m) = Delete(0, 0)
    <3>1. ~(p + n <= q) /\ ~(p >= q + m) /\ p >= q /\ p + n <= q + m
      BY <1>12
    <3> QED BY <3>1, Zenon DEF Rest
  <2>2. Rest(q, m, p, n) = Delete(q, m - n) /\ m - n \in Nat
    <3>1. /\ ~(q + m <= p) /\ ~(q >= p + n) /\ ~(q >= p /\ q + m <= p + n)
          /\ q <= p /\ q + m >= p + n /\ m - n \in Nat
      BY <1>12
    <3> QED BY <3>1, Zenon DEF Rest
  <2>3. EraseAtPos(u, q, m - n) = v
    <3>1. q <= p /\ p + n <= q + m
      BY <1>12
    <3> QED BY <3>1, EraseInside
  <2> HIDE DEF u, v
  <2>4. q + (m - n) <= Len(u) /\ 0 \in Nat
    BY <1>0, <1>1
  <2>5. apply_op(u, Delete(q, m - n)) = EraseAtPos(u, q, m - n)
    BY <1>1, <2>2, <2>4, DeleteForm
  <2> QED BY <1>6, <1>7, <2>1, <2>2, <2>3, <2>4, <2>5, Zenon
<1>13. CASE ~(p + n <= q) /\ ~(q + m <= p + n) /\ ~(p = q)
  <2>1. Rest(p, n, q, m) = Delete(p, q - p) /\ q - p \in Nat
    <3>1. /\ ~(p + n <= q) /\ ~(p >= q + m) /\ ~(p >= q /\ p + n <= q + m)
          /\ ~(p <= q /\ p + n >= q + m) /\ p < q /\ q - p \in Nat
      BY <1>13
    <3> QED BY <3>1, Zenon DEF Rest
  <2>2. /\ Rest(q, m, p, n) = Delete(p, (q + m) - (p + n))
        /\ (q + m) - (p + n) \in Nat
    <3>1. /\ ~(q + m <= p) /\ ~(q >= p + n) /\ ~(q >= p /\ q + m <= p + n)
          /\ ~(q <= p /\ q + m >= p + n) /\ ~(q < p) /\ (q + m) - (p + n) \in Nat
      BY <1>13
    <3> QED BY <3>1, Zenon DEF Rest
  <2>3. EraseAtPos(u, p, (q + m) - (p + n)) = EraseAtPos(v, p, q - p)
    <3>1. q <= p + n /\ p + n <= q + m
      BY <1>13
    <3> QED BY <3>1, EraseOverlap
  <2> HIDE DEF u, v
  <2>4. p + (q - p) <= Len(v) /\ p + ((q + m) - (p + n)) <= Len(u)
    BY <1>0, <1>1, <1>2
  <2>5. /\ apply_op(v, Delete(p, q - p)) = EraseAtPos(v, p, q - p)
        /\ apply_op(u, Delete(p, (q + m) - (p + n))) = EraseAtPos(u, p, (q + m) - (p + n))
    BY <1>1, <1>2, <2>1, <2>2, <2>4, DeleteForm
  <2> QED BY <1>7, <2>1, <2>2, <2>3, <2>5, Zenon
<1> QED BY <1>8, <1>9, <1>10, <1>11, <1>12, <1>13

\* Every pair of operations on a text, but for two texts inserted at one place.
LEMMA TransformMeets ==
    ASSUME NEW t \in Txt, NEW a \in Op, NEW b \in Op,
           InRange(a, t), InRange(b, t), ~Tie(a, b)
    PROVE  Meets(t, a, b)
<1>1. ASSUME NEW p \in Nat, NEW x \in Txt, a = Insert(p, x),
             NEW q \in Nat, NEW y \in Txt, b = Insert(q, y)
      PROVE  Meets(t, a, b)
  <2>1. p <= Len(t) /\ q <= Len(t)
    BY <1>1, InsertForm
  <2>2. p = q => x = <<>> \/ y = <<>>
    BY <1>1 DEF Tie, Insert
  <2>3. CASE p <= q
    BY <1>1, <2>1, <2>2, <2>3, MeetsII
  <2>4. CASE q <= p
    <3>1. Meets(t, b, a)
      BY <1>1, <2>1, <2>2, <2>4, MeetsII
    <3> QED BY <3>1, MeetsSymmetric, Zenon
  <2> QED BY <2>3, <2>4
<1>2. ASSUME NEW p \in Nat, NEW x \in Txt, a = Insert(p, x),
             NEW q \in Nat, NEW m \in Nat, b = Delete(q, m)
      PROVE  Meets(t, a, b)
  <2>1. p <= Len(t) /\ q + m <= Len(t)
    BY <1>2, InsertForm, DeleteForm
  <2> QED BY <1>2, <2>1, MeetsID
<1>3. ASSUME NEW p \in Nat, NEW n \in Nat, a = Delete(p, n),
             NEW q \in Nat, NEW y \in Txt, b = Insert(q, y)
      PROVE  Meets(t, a, b)
  <2>1. p + n <= Len(t) /\ q <= Len(t)
    BY <1>3, InsertForm, DeleteForm
  <2>2. Meets(t, b, a)
    BY <1>3, <2>1, MeetsID
  <2> QED BY <2>2, MeetsSymmetric, Zenon
<1>4. ASSUME NEW p \in Nat, NEW n \in Nat, a = Delete(p, n),
             NEW q \in Nat, NEW m \in Nat, b = Delete(q, m)
      PROVE  Meets(t, a, b)
  <2>1. p + n <= Len(t) /\ q + m <= Len(t)
    BY <1>4, DeleteForm
  <2>2. CASE p <= q
    BY <1>4, <2>1, <2>2, MeetsDD
  <2>3. CASE q <= p
    <3>1. Meets(t, b, a)
      BY <1>4, <2>1, <2>3, MeetsDD
    <3> QED BY <3>1, MeetsSymmetric, Zenon
  <2> QED BY <2>2, <2>3
<1>5. CASE \E p \in Nat, x \in Txt : a = Insert(p, x)
  BY <1>1, <1>2, <1>5, OpForms, Zenon
<1>6. CASE \E p \in Nat, n \in Nat : a = Delete(p, n)
  BY <1>3, <1>4, <1>6, OpForms, Zenon
<1> QED BY <1>5, <1>6, OpForms, Zenon

\* The operations an author can make are operations on its text.
LEMMA OpsOnText ==
    ASSUME NEW t \in Txt, NEW k \in 0..MaxCommits, NEW op \in OpsOn(t, Texts[k])
    PROVE  op \in Op /\ InRange(op, t)
<1>1. Texts[k] \in SUBSET Txt
  BY TextsAssumption DEF Txt
<1>2. InRange(op, t)
  BY DEF OpsOn
<1>3. CASE op \in {Insert(pos, txt) : pos \in 0..Len(t), txt \in Texts[k]}
  <2>1. PICK pos \in 0..Len(t), txt \in Texts[k] : op = Insert(pos, txt)
    BY <1>3
  <2>2. pos \in Nat /\ txt \in Txt
    BY <1>1, LenNat
  <2>3. op \in Op
    BY <2>1, <2>2, InsertForm
  <2> QED BY <1>2, <2>3
<1>4. CASE op \in {Delete(pos, len) : pos \in 0..Len(t), len \in 0..Len(t)}
  <2>1. PICK pos \in 0..Len(t), len \in 0..Len(t) : op = Delete(pos, len)
    BY <1>4
  <2>2. pos \in Nat /\ len \in Nat
    BY LenNat
  <2>3. op \in Op
    BY <2>1, <2>2, DeleteForm
  <2> QED BY <1>2, <2>3
<1> QED BY <1>3, <1>4 DEF OpsOn

-----------------------------------------------------------------------------
(* The invariant: the diamond needs the pending operation to be inside the *)
(* committed text, or clamping could pull the two paths apart.             *)
IInv == TypeOK /\ NoClamp /\ Diamond

LEMMA InitIInv == Init => IInv
<1> SUFFICES ASSUME Init PROVE IInv
  OBVIOUS
<1>1. doc \in Docs /\ doc \in Txt
  BY DocsAssumption DEF Init, Txt
<1>2. 0 \in 0..MaxCommits /\ commits = 0
  BY CommitsAssumption DEF Init
<1>3. orig \in OpsOn(doc, Texts[0]) /\ text = doc /\ pend = orig /\ view = apply_op(doc, orig)
  BY DEF Init
<1>4. orig \in Op /\ InRange(orig, doc)
  BY <1>1, <1>2, <1>3, OpsOnText
<1>5. view \in Txt
  BY <1>1, <1>3, <1>4, ApplyText
<1>6. TypeOK
  BY <1>1, <1>2, <1>3, <1>4, <1>5, Zenon DEF TypeOK, Txt
<1> QED BY <1>3, <1>4, <1>6, Zenon DEF IInv, NoClamp, Diamond

LEMMA NextIInv == IInv /\ [Next]_vars => IInv'
<1> SUFFICES ASSUME IInv, [Next]_vars PROVE IInv'
  OBVIOUS
<1>1. CASE UNCHANGED vars
  BY <1>1 DEF IInv, TypeOK, NoClamp, Diamond, vars
<1>2. ASSUME NEW b \in OpsOn(text, Texts[commits + 1]), Commit(b), commits < MaxCommits
      PROVE  IInv'
  <2>1. /\ doc \in Docs /\ text \in Txt /\ view \in Txt /\ orig \in Op /\ pend \in Op
        /\ commits \in 0..MaxCommits
    BY DEF IInv, TypeOK, Txt
  <2>2. InRange(pend, text) /\ view = apply_op(text, pend)
    BY DEF IInv, NoClamp, Diamond
  <2>3. commits + 1 \in 0..MaxCommits
    BY <1>2, <2>1, CommitsAssumption
  <2>4. b \in Op /\ InRange(b, text)
    BY <2>1, <2>3, OpsOnText
  <2>5. /\ ~Tie(pend, b) /\ text' = apply_op(text, b) /\ pend' = transform(pend, b)
        /\ view' = apply_op(view, transform(b, pend)) /\ commits' = commits + 1
        /\ doc' = doc /\ orig' = orig
    BY <1>2, Zenon DEF Commit
  <2>6. text' \in Txt
    BY <2>1, <2>4, <2>5, ApplyText
  <2>7. pend' \in Op /\ InRange(pend', text')
    <3>1. Fits(text, pend, b)
      BY <2>1, <2>2, <2>4, TransformFits
    <3> QED BY <2>5, <3>1, Zenon DEF Fits
  <2>8. view' \in Txt
    <3>1. Fits(text, b, pend)
      BY <2>1, <2>2, <2>4, TransformFits
    <3>2. transform(b, pend) \in Op /\ InRange(transform(b, pend), view)
      BY <2>2, <3>1, Zenon DEF Fits
    <3> QED BY <2>1, <2>5, <3>2, ApplyText
  <2>9. view' = apply_op(text', pend')
    <3>1. Meets(text, pend, b)
      BY <2>1, <2>2, <2>4, <2>5, TransformMeets
    <3> QED BY <2>2, <2>5, <3>1, Zenon DEF Meets
  <2>10. TypeOK'
    BY <2>1, <2>3, <2>5, <2>6, <2>7, <2>8, Zenon DEF TypeOK, Txt
  <2> QED BY <2>7, <2>9, <2>10, Zenon DEF IInv, NoClamp, Diamond
<1>3. CASE Next
  BY <1>2, <1>3, Zenon DEF Next
<1> QED BY <1>1, <1>3

(***************************************************************************)
(* Type correctness of the engine: a transformed operation never has a     *)
(* negative position or length (size_t would wrap, in C++).                *)
(***************************************************************************)
THEOREM OpsTyped == Spec => []TypeOK
<1>1. IInv => TypeOK
  BY DEF IInv
<1> QED BY <1>1, InitIInv, NextIInv, PTL DEF Spec

(***************************************************************************)
(* For all documents and operations, transform keeps an operation inside   *)
(* the text it is to be applied to: apply_op never has to clamp.           *)
(***************************************************************************)
THEOREM OpsInRange == Spec => []NoClamp
<1>1. IInv => NoClamp
  BY DEF IInv
<1> QED BY <1>1, InitIInv, NextIInv, PTL DEF Spec

(***************************************************************************)
(* For all documents and operations, and any number of operations that     *)
(* commit in between, the diamond of doc_ops.hh holds when no two texts    *)
(* are inserted at one place.                                              *)
(***************************************************************************)
THEOREM DiamondHolds == Spec => []Diamond
<1>1. IInv => Diamond
  BY DEF IInv
<1> QED BY <1>1, InitIInv, NextIInv, PTL DEF Spec

-----------------------------------------------------------------------------
(* Where the characters of a text come from.                               *)

LEMMA InChars ==
    ASSUME NEW t, NEW c
    PROVE  c \in Chars(t) <=> \E i \in 1..Len(t) : t[i] = c
  BY DEF Chars

LEMMA InsertedAt ==
    ASSUME NEW t \in Txt, NEW x \in Txt, NEW p \in 0..Len(t)
    PROVE  /\ InsertAtPos(t, p, x) \in Txt
           /\ Len(InsertAtPos(t, p, x)) = Len(t) + Len(x)
           /\ \A k \in 1..(Len(t) + Len(x)) :
                InsertAtPos(t, p, x)[k] =
                   IF k <= p THEN t[k] ELSE IF k <= p + Len(x) THEN x[k - p] ELSE t[k - Len(x)]
<1> DEFINE a == SubSeq(t, 1, p)
           b == SubSeq(t, p + 1, Len(t))
<1>0. Len(t) \in Nat /\ Len(x) \in Nat /\ p \in Nat /\ p <= Len(t)
  BY LenNat
<1>1. /\ a \in Seq(Char) /\ Len(a) = p /\ \A i \in 1..p : a[i] = t[i]
  BY <1>0, SubSeqProperties, LenProperties DEF Txt
<1>2. /\ b \in Seq(Char) /\ Len(b) = Len(t) - p /\ \A i \in 1..(Len(t) - p) : b[i] = t[p + i]
  BY <1>0, SubSeqProperties, LenProperties DEF Txt
<1>3. InsertAtPos(t, p, x) = (a \o x) \o b
  BY DEF InsertAtPos
<1> HIDE DEF a, b
<1>4. /\ a \o x \in Seq(Char) /\ Len(a \o x) = p + Len(x)
      /\ \A i \in 1..(p + Len(x)) : (a \o x)[i] = IF i <= p THEN a[i] ELSE x[i - p]
  <2>1. a \in Seq(Char) /\ x \in Seq(Char)
    BY <1>1 DEF Txt
  <2>2. /\ a \o x \in Seq(Char) /\ Len(a \o x) = Len(a) + Len(x)
        /\ \A i \in 1..(Len(a) + Len(x)) : (a \o x)[i] = IF i <= Len(a) THEN a[i] ELSE x[i - Len(a)]
    BY <2>1, ConcatProperties
  <2> QED BY <1>1, <2>2, Zenon
<1> DEFINE y == a \o x
<1> HIDE DEF y
<1>5. /\ y \in Seq(Char) /\ Len(y) = p + Len(x)
      /\ \A i \in 1..(p + Len(x)) : y[i] = IF i <= p THEN a[i] ELSE x[i - p]
  BY <1>4 DEF y
<1>6. /\ y \o b \in Seq(Char) /\ Len(y \o b) = Len(y) + Len(b)
      /\ \A i \in 1..(Len(y) + Len(b)) : (y \o b)[i] = IF i <= Len(y) THEN y[i] ELSE b[i - Len(y)]
  <2>1. y \in Seq(Char) /\ b \in Seq(Char)
    BY <1>2, <1>5
  <2> QED BY <2>1, ConcatProperties
<1>7. InsertAtPos(t, p, x) = y \o b
  BY <1>3 DEF y
<1> DEFINE u == y \o b
<1> HIDE DEF u
<1>8. /\ u \in Seq(Char) /\ Len(u) = Len(t) + Len(x)
      /\ \A i \in 1..(Len(t) + Len(x)) :
           u[i] = IF i <= p + Len(x) THEN y[i] ELSE b[i - (p + Len(x))]
  <2>1. Len(y) + Len(b) = Len(t) + Len(x)
    BY <1>0, <1>2, <1>5
  <2> QED BY <2>1, <1>5, <1>6, Zenon DEF u
<1>9. ASSUME NEW k \in 1..(Len(t) + Len(x))
      PROVE  u[k] = IF k <= p THEN t[k] ELSE IF k <= p + Len(x) THEN x[k - p] ELSE t[k - Len(x)]
  <2>1. CASE k <= p + Len(x)
    BY <2>1, <1>0, <1>1, <1>5, <1>8
  <2>2. CASE ~(k <= p + Len(x))
    <3>1. /\ k - (p + Len(x)) \in 1..(Len(t) - p) /\ p + (k - (p + Len(x))) = k - Len(x)
          /\ ~(k <= p)
      BY <2>2, <1>0
    <3>2. u[k] = b[k - (p + Len(x))]
      BY <2>2, <1>8, Zenon
    <3>3. b[k - (p + Len(x))] = t[k - Len(x)]
      BY <3>1, <1>2, Zenon
    <3> QED BY <3>1, <3>2, <3>3, <2>2, Zenon
  <2> QED BY <2>1, <2>2
<1> QED BY <1>7, <1>8, <1>9 DEF u, Txt

LEMMA ErasedAt ==
    ASSUME NEW t \in Txt, NEW p \in Nat, NEW n \in Nat, p + n <= Len(t)
    PROVE  /\ EraseAtPos(t, p, n) \in Txt
           /\ Len(EraseAtPos(t, p, n)) = Len(t) - n
           /\ \A k \in 1..(Len(t) - n) :
                EraseAtPos(t, p, n)[k] = IF k <= p THEN t[k] ELSE t[k + n]
<1> DEFINE a == SubSeq(t, 1, p)
           b == SubSeq(t, p + n + 1, Len(t))
<1>0. Len(t) \in Nat
  BY LenNat
<1>1. /\ a \in Seq(Char) /\ Len(a) = p /\ \A i \in 1..p : a[i] = t[i]
  BY <1>0, SubSeqProperties, LenProperties DEF Txt
<1>2. /\ b \in Seq(Char) /\ Len(b) = Len(t) - (p + n)
      /\ \A i \in 1..(Len(t) - (p + n)) : b[i] = t[(p + n) + i]
  BY <1>0, SubSeqProperties, LenProperties DEF Txt
<1>3. EraseAtPos(t, p, n) = a \o b
  BY DEF EraseAtPos
<1> HIDE DEF a, b
<1>4. /\ a \o b \in Seq(Char) /\ Len(a \o b) = Len(a) + Len(b)
      /\ \A i \in 1..(Len(a) + Len(b)) : (a \o b)[i] = IF i <= Len(a) THEN a[i] ELSE b[i - Len(a)]
  <2>1. a \in Seq(Char) /\ b \in Seq(Char)
    BY <1>1, <1>2
  <2> QED BY <2>1, ConcatProperties
<1> DEFINE u == a \o b
<1> HIDE DEF u
<1>5. /\ u \in Seq(Char) /\ Len(u) = Len(t) - n
      /\ \A i \in 1..(Len(t) - n) : u[i] = IF i <= p THEN a[i] ELSE b[i - p]
  <2>1. Len(a) + Len(b) = Len(t) - n
    BY <1>0, <1>1, <1>2
  <2> QED BY <2>1, <1>1, <1>4, Zenon DEF u
<1>6. ASSUME NEW k \in 1..(Len(t) - n)
      PROVE  u[k] = IF k <= p THEN t[k] ELSE t[k + n]
  <2>1. CASE k <= p
    BY <2>1, <1>0, <1>1, <1>5
  <2>2. CASE ~(k <= p)
    <3>1. k - p \in 1..(Len(t) - (p + n)) /\ (p + n) + (k - p) = k + n
      BY <2>2, <1>0
    <3> QED BY <3>1, <2>2, <1>0, <1>2, <1>5
  <2> QED BY <2>1, <2>2
<1> QED BY <1>3, <1>5, <1>6 DEF u, Txt

\* What an insertion and a deletion do to the set of characters.
LEMMA InsertedChars ==
    ASSUME NEW t \in Txt, NEW x \in Txt, NEW p \in 0..Len(t)
    PROVE  Chars(InsertAtPos(t, p, x)) = Chars(t) \cup Chars(x)
<1> DEFINE u == InsertAtPos(t, p, x)
<1>0. Len(t) \in Nat /\ Len(x) \in Nat /\ p \in Nat /\ p <= Len(t)
  BY LenNat
<1>1. /\ Len(u) = Len(t) + Len(x)
      /\ \A k \in 1..(Len(t) + Len(x)) :
           u[k] = IF k <= p THEN t[k] ELSE IF k <= p + Len(x) THEN x[k - p] ELSE t[k - Len(x)]
  BY InsertedAt
<1> HIDE DEF u
<1>2. ASSUME NEW k \in 1..Len(u)
      PROVE  u[k] \in Chars(t) \cup Chars(x)
  <2>1. CASE k <= p
    BY <2>1, <1>0, <1>1 DEF Chars
  <2>2. CASE ~(k <= p) /\ k <= p + Len(x)
    <3>1. k - p \in 1..Len(x) /\ u[k] = x[k - p]
      BY <2>2, <1>0, <1>1
    <3> QED BY <3>1 DEF Chars
  <2>3. CASE ~(k <= p) /\ ~(k <= p + Len(x))
    <3>1. k - Len(x) \in 1..Len(t) /\ u[k] = t[k - Len(x)]
      BY <2>3, <1>0, <1>1
    <3> QED BY <3>1 DEF Chars
  <2> QED BY <2>1, <2>2, <2>3
<1>3. ASSUME NEW i \in 1..Len(t)
      PROVE  t[i] \in Chars(u)
  <2>1. CASE i <= p
    <3>1. i \in 1..Len(u) /\ u[i] = t[i]
      BY <2>1, <1>0, <1>1
    <3> QED BY <3>1 DEF Chars
  <2>2. CASE ~(i <= p)
    <3>1. i + Len(x) \in 1..Len(u) /\ ~(i + Len(x) <= p) /\ ~(i + Len(x) <= p + Len(x)) /\ (i + Len(x)) - Len(x) = i
      BY <2>2, <1>0, <1>1
    <3>2. u[i + Len(x)] = t[i]
      BY <3>1, <1>1
    <3> QED BY <3>1, <3>2 DEF Chars
  <2> QED BY <2>1, <2>2
<1>4. ASSUME NEW i \in 1..Len(x)
      PROVE  x[i] \in Chars(u)
  <2>1. i + p \in 1..Len(u) /\ ~(i + p <= p) /\ i + p <= p + Len(x) /\ (i + p) - p = i
    BY <1>0, <1>1
  <2>2. u[i + p] = x[i]
    BY <2>1, <1>1
  <2> QED BY <2>1, <2>2 DEF Chars
<1>5. Chars(u) = Chars(t) \cup Chars(x)
  BY <1>2, <1>3, <1>4 DEF Chars
<1> QED BY <1>5 DEF u

\* The characters that a deletion removes.
Gone(t, p, n) == {t[i] : i \in (p + 1)..(p + n)}

LEMMA ErasedChars ==
    ASSUME NEW t \in Txt, NEW p \in Nat, NEW n \in Nat, p + n <= Len(t), Injective(t)
    PROVE  Chars(EraseAtPos(t, p, n)) = Chars(t) \ Gone(t, p, n)
<1> DEFINE u == EraseAtPos(t, p, n)
<1>0. Len(t) \in Nat
  BY LenNat
<1>1. /\ Len(u) = Len(t) - n
      /\ \A k \in 1..(Len(t) - n) : u[k] = IF k <= p THEN t[k] ELSE t[k + n]
  BY ErasedAt
<1> HIDE DEF u
<1>2. ASSUME NEW k \in 1..Len(u)
      PROVE  u[k] \in Chars(t) /\ u[k] \notin Gone(t, p, n)
  <2>1. PICK i \in 1..Len(t) : u[k] = t[i] /\ i \notin (p + 1)..(p + n)
    <3>1. CASE k <= p
      BY <3>1, <1>0, <1>1
    <3>2. CASE ~(k <= p)
      <4>1. k + n \in 1..Len(t) /\ k + n \notin (p + 1)..(p + n) /\ u[k] = t[k + n]
        BY <3>2, <1>0, <1>1
      <4> QED BY <4>1
    <3> QED BY <3>1, <3>2
  <2>2. ASSUME NEW j \in (p + 1)..(p + n)
        PROVE  t[j] # t[i]
    <3>1. j \in 1..Len(t) /\ j # i
      BY <1>0, <2>1
    <3> QED BY <3>1 DEF Injective
  <2> QED BY <2>1, <2>2 DEF Chars, Gone
<1>3. ASSUME NEW i \in 1..Len(t), t[i] \notin Gone(t, p, n)
      PROVE  t[i] \in Chars(u)
  <2>0. i \notin (p + 1)..(p + n)
    BY <1>3 DEF Gone
  <2>1. CASE i <= p
    <3>1. i \in 1..Len(u) /\ u[i] = t[i]
      BY <2>1, <1>0, <1>1
    <3> QED BY <3>1 DEF Chars
  <2>2. CASE ~(i <= p)
    <3>1. i - n \in 1..Len(u) /\ ~(i - n <= p) /\ (i - n) + n = i
      BY <2>0, <2>2, <1>0, <1>1
    <3>2. u[i - n] = t[i]
      BY <3>1, <1>1
    <3> QED BY <3>1, <3>2 DEF Chars
  <2> QED BY <2>1, <2>2
<1>4. Chars(u) = Chars(t) \ Gone(t, p, n)
  BY <1>2, <1>3 DEF Chars
<1> QED BY <1>4 DEF u

LEMMA InsertedInjective ==
    ASSUME NEW t \in Txt, NEW x \in Txt, NEW p \in 0..Len(t),
           Injective(t), Injective(x), Chars(t) \cap Chars(x) = {}
    PROVE  Injective(InsertAtPos(t, p, x))
<1> DEFINE u == InsertAtPos(t, p, x)
<1>0. Len(t) \in Nat /\ Len(x) \in Nat /\ p \in Nat /\ p <= Len(t)
  BY LenNat
<1>1. /\ Len(u) = Len(t) + Len(x)
      /\ \A k \in 1..(Len(t) + Len(x)) :
           u[k] = IF k <= p THEN t[k] ELSE IF k <= p + Len(x) THEN x[k - p] ELSE t[k - Len(x)]
  BY InsertedAt
<1> HIDE DEF u
<1>2. \A i \in 1..Len(t), j \in 1..Len(x) : t[i] # x[j]
  BY DEF Chars
<1>3. ASSUME NEW k \in 1..Len(u), NEW l \in 1..Len(u), u[k] = u[l]
      PROVE  k = l
  <2> DEFINE From(m) == IF m <= p THEN m ELSE m - Len(x)
             Old(m)  == m <= p \/ ~(m <= p + Len(x))
  <2>1. ASSUME NEW m \in 1..Len(u), Old(m)
        PROVE  From(m) \in 1..Len(t) /\ u[m] = t[From(m)]
    BY <2>1, <1>0, <1>1
  <2>2. ASSUME NEW m \in 1..Len(u), ~Old(m)
        PROVE  m - p \in 1..Len(x) /\ u[m] = x[m - p]
    BY <2>2, <1>0, <1>1
  <2>3. CASE Old(k) /\ Old(l)
    <3>1. From(k) = From(l)
      <4>1. From(k) \in 1..Len(t) /\ u[k] = t[From(k)] /\ From(l) \in 1..Len(t) /\ u[l] = t[From(l)]
        BY <2>1, <2>3
      <4> HIDE DEF From
      <4> QED BY <4>1, <1>3 DEF Injective
    <3> QED BY <3>1, <2>3, <1>0, <1>1
  <2>4. CASE ~Old(k) /\ ~Old(l)
    <3>1. k - p \in 1..Len(x) /\ u[k] = x[k - p] /\ l - p \in 1..Len(x) /\ u[l] = x[l - p]
      BY <2>2, <2>4
    <3>2. k - p = l - p
      BY <3>1, <1>3 DEF Injective
    <3> QED BY <3>2, <1>0, <1>1
  <2>5. CASE Old(k) /\ ~Old(l)
    <3> HIDE DEF From, Old
    <3> QED BY <2>1, <2>2, <2>5, <1>2, <1>3
  <2>6. CASE ~Old(k) /\ Old(l)
    <3> HIDE DEF From, Old
    <3> QED BY <2>1, <2>2, <2>6, <1>2, <1>3
  <2> QED BY <2>3, <2>4, <2>5, <2>6
<1>4. Injective(u)
  BY <1>3 DEF Injective
<1> QED BY <1>4 DEF u

LEMMA ErasedInjective ==
    ASSUME NEW t \in Txt, NEW p \in Nat, NEW n \in Nat, p + n <= Len(t), Injective(t)
    PROVE  Injective(EraseAtPos(t, p, n))
<1> DEFINE u == EraseAtPos(t, p, n)
           From(m) == IF m <= p THEN m ELSE m + n
<1>0. Len(t) \in Nat
  BY LenNat
<1>1. /\ Len(u) = Len(t) - n
      /\ \A k \in 1..(Len(t) - n) : u[k] = IF k <= p THEN t[k] ELSE t[k + n]
  BY ErasedAt
<1> HIDE DEF u
<1>2. ASSUME NEW m \in 1..Len(u)
      PROVE  From(m) \in 1..Len(t) /\ u[m] = t[From(m)]
  BY <1>0, <1>1
<1>3. ASSUME NEW k \in 1..Len(u), NEW l \in 1..Len(u), u[k] = u[l]
      PROVE  k = l
  <2>1. From(k) \in 1..Len(t) /\ u[k] = t[From(k)] /\ From(l) \in 1..Len(t) /\ u[l] = t[From(l)]
    BY <1>2
  <2>2. From(k) = From(l)
    <3> HIDE DEF From
    <3> QED BY <2>1, <1>3 DEF Injective
  <2> QED BY <2>2, <1>0, <1>1
<1>4. Injective(u)
  BY <1>3 DEF Injective
<1> QED BY <1>4 DEF u

-----------------------------------------------------------------------------
(* A transformed deletion deletes the same characters.                     *)

LEMMA GoneAt ==
    ASSUME NEW t \in Txt, NEW p \in Nat, NEW n \in Nat, p + n <= Len(t), Injective(t),
           NEW i \in 1..Len(t)
    PROVE  t[i] \in Gone(t, p, n) <=> i \in (p + 1)..(p + n)
<1>0. Len(t) \in Nat
  BY LenNat
<1>1. ASSUME NEW j \in (p + 1)..(p + n), t[i] = t[j]
      PROVE  i = j
  <2>1. j \in 1..Len(t)
    BY <1>0
  <2> QED BY <2>1, <1>1 DEF Injective
<1> QED BY <1>1 DEF Gone

\* The characters that t and u share are deleted from both or from none.
SameGone(t, p, n, u, q, m) ==
    \A c \in Chars(t) \cap Chars(u) : c \in Gone(u, q, m) <=> c \in Gone(t, p, n)

LEMMA GoneByIndex ==
    ASSUME NEW t \in Txt, NEW p \in Nat, NEW n \in Nat, p + n <= Len(t), Injective(t),
           NEW u \in Txt, NEW q \in Nat, NEW m \in Nat, q + m <= Len(u), Injective(u),
           \A i \in 1..Len(t), k \in 1..Len(u) :
              t[i] = u[k] => (i \in (p + 1)..(p + n) <=> k \in (q + 1)..(q + m))
    PROVE  SameGone(t, p, n, u, q, m)
<1>1. ASSUME NEW c \in Chars(t) \cap Chars(u)
      PROVE  c \in Gone(u, q, m) <=> c \in Gone(t, p, n)
  <2>1. PICK i \in 1..Len(t) : t[i] = c
    BY InChars
  <2>2. PICK k \in 1..Len(u) : u[k] = c
    BY InChars
  <2>3. c \in Gone(t, p, n) <=> i \in (p + 1)..(p + n)
    BY <2>1, GoneAt
  <2>4. c \in Gone(u, q, m) <=> k \in (q + 1)..(q + m)
    BY <2>2, GoneAt
  <2> QED BY <2>1, <2>2, <2>3, <2>4, Zenon
<1> QED BY <1>1 DEF SameGone

\* Where a character stands after an insertion and after a deletion.
LEMMA IndexInserted ==
    ASSUME NEW t \in Txt, NEW y \in Txt, NEW q \in 0..Len(t), Injective(t), Chars(t) \cap Chars(y) = {},
           NEW i \in 1..Len(t), NEW k \in 1..Len(InsertAtPos(t, q, y)), t[i] = InsertAtPos(t, q, y)[k]
    PROVE  k = IF i <= q THEN i ELSE i + Len(y)
<1> DEFINE u == InsertAtPos(t, q, y)
<1>0. Len(t) \in Nat /\ Len(y) \in Nat /\ q \in Nat /\ q <= Len(t)
  BY LenNat
<1>1. /\ Len(u) = Len(t) + Len(y)
      /\ \A l \in 1..(Len(t) + Len(y)) :
           u[l] = IF l <= q THEN t[l] ELSE IF l <= q + Len(y) THEN y[l - q] ELSE t[l - Len(y)]
  BY InsertedAt
<1>2. k \in 1..(Len(t) + Len(y)) /\ t[i] = u[k]
  BY <1>1
<1> HIDE DEF u
<1>3. \A j \in 1..Len(y) : t[i] # y[j]
  BY DEF Chars
<1>4. CASE k <= q
  <2>1. k \in 1..Len(t) /\ u[k] = t[k]
    BY <1>0, <1>1, <1>2, <1>4
  <2>2. k = i
    BY <2>1, <1>2 DEF Injective
  <2> QED BY <2>2, <1>4
<1>5. CASE ~(k <= q) /\ k <= q + Len(y)
  <2>1. k - q \in 1..Len(y) /\ u[k] = y[k - q]
    BY <1>0, <1>1, <1>2, <1>5
  <2> QED BY <2>1, <1>2, <1>3
<1>6. CASE ~(k <= q) /\ ~(k <= q + Len(y))
  <2>1. k - Len(y) \in 1..Len(t) /\ u[k] = t[k - Len(y)]
    BY <1>0, <1>1, <1>2, <1>6
  <2>2. k - Len(y) = i
    BY <2>1, <1>2 DEF Injective
  <2> QED BY <2>2, <1>0, <1>2, <1>6
<1> QED BY <1>4, <1>5, <1>6

LEMMA IndexErased ==
    ASSUME NEW t \in Txt, NEW q \in Nat, NEW m \in Nat, q + m <= Len(t), Injective(t),
           NEW i \in 1..Len(t), NEW k \in 1..Len(EraseAtPos(t, q, m)), t[i] = EraseAtPos(t, q, m)[k]
    PROVE  (i <= q /\ k = i) \/ (i > q + m /\ k = i - m)
<1> DEFINE u == EraseAtPos(t, q, m)
<1>0. Len(t) \in Nat
  BY LenNat
<1>1. /\ Len(u) = Len(t) - m
      /\ \A l \in 1..(Len(t) - m) : u[l] = IF l <= q THEN t[l] ELSE t[l + m]
  BY ErasedAt
<1>2. k \in 1..(Len(t) - m) /\ t[i] = u[k]
  BY <1>1
<1> HIDE DEF u
<1>4. CASE k <= q
  <2>1. k \in 1..Len(t) /\ u[k] = t[k]
    BY <1>0, <1>1, <1>2, <1>4
  <2>2. k = i
    BY <2>1, <1>2 DEF Injective
  <2> QED BY <2>2, <1>4
<1>5. CASE ~(k <= q)
  <2>1. k + m \in 1..Len(t) /\ u[k] = t[k + m]
    BY <1>0, <1>1, <1>2, <1>5
  <2>2. k + m = i
    BY <2>1, <1>2 DEF Injective
  <2> QED BY <2>2, <1>0, <1>2, <1>5
<1> QED BY <1>4, <1>5

LEMMA GoneAfterInsert ==
    ASSUME NEW t \in Txt, NEW p \in Nat, NEW n \in Nat, p + n <= Len(t), Injective(t),
           NEW q \in 0..Len(t), NEW y \in Txt, Injective(y), Chars(t) \cap Chars(y) = {}
    PROVE  \E k, l \in Nat : /\ Grown(p, n, q, y) = Delete(k, l)
                             /\ SameGone(t, p, n, InsertAtPos(t, q, y), k, l)
<1> DEFINE u == InsertAtPos(t, q, y)
<1>0. Len(t) \in Nat /\ Len(y) \in Nat /\ q \in Nat /\ q <= Len(t)
  BY LenNat
<1>1. u \in Txt /\ Len(u) = Len(t) + Len(y) /\ Injective(u)
  BY InsertedAt, InsertedInjective
<1>2. \A i \in 1..Len(t), k \in 1..Len(u) : t[i] = u[k] => k = IF i <= q THEN i ELSE i + Len(y)
  BY IndexInserted
<1> HIDE DEF u
<1>3. CASE q >= p + n
  <2>1. \A i \in 1..Len(t), k \in 1..Len(u) :
           t[i] = u[k] => (i \in (p + 1)..(p + n) <=> k \in (p + 1)..(p + n))
    BY <1>0, <1>1, <1>2, <1>3
  <2>2. p + n <= Len(u)
    BY <1>0, <1>1
  <2>3. SameGone(t, p, n, u, p, n)
    BY <1>1, <2>1, <2>2, GoneByIndex
  <2>4. Grown(p, n, q, y) = Delete(p, n)
    BY <1>3, Zenon DEF Grown
  <2> QED BY <2>3, <2>4 DEF u
<1>4. CASE ~(q >= p + n) /\ q <= p
  <2>1. \A i \in 1..Len(t), k \in 1..Len(u) :
           t[i] = u[k] => (i \in (p + 1)..(p + n) <=> k \in (p + Len(y) + 1)..(p + Len(y) + n))
    BY <1>0, <1>1, <1>2, <1>4
  <2>2. p + Len(y) + n <= Len(u) /\ p + Len(y) \in Nat
    BY <1>0, <1>1
  <2>3. SameGone(t, p, n, u, p + Len(y), n)
    BY <1>1, <2>1, <2>2, GoneByIndex
  <2>4. Grown(p, n, q, y) = Delete(p + Len(y), n)
    BY <1>4, Zenon DEF Grown
  <2> QED BY <2>2, <2>3, <2>4 DEF u
<1>5. CASE ~(q >= p + n) /\ ~(q <= p)
  <2>1. \A i \in 1..Len(t), k \in 1..Len(u) :
           t[i] = u[k] => (i \in (p + 1)..(p + n) <=> k \in (p + 1)..(p + (n + Len(y))))
    BY <1>0, <1>1, <1>2, <1>5
  <2>2. p + (n + Len(y)) <= Len(u) /\ n + Len(y) \in Nat
    BY <1>0, <1>1
  <2>3. SameGone(t, p, n, u, p, n + Len(y))
    BY <1>1, <2>1, <2>2, GoneByIndex
  <2>4. Grown(p, n, q, y) = Delete(p, n + Len(y))
    BY <1>5, Zenon DEF Grown
  <2> QED BY <2>2, <2>3, <2>4 DEF u
<1> QED BY <1>3, <1>4, <1>5

LEMMA GoneAfterErase ==
    ASSUME NEW t \in Txt, NEW p \in Nat, NEW n \in Nat, p + n <= Len(t), Injective(t),
           NEW q \in Nat, NEW m \in Nat, q + m <= Len(t)
    PROVE  \E k, l \in Nat : /\ Rest(p, n, q, m) = Delete(k, l)
                             /\ SameGone(t, p, n, EraseAtPos(t, q, m), k, l)
<1> DEFINE u == EraseAtPos(t, q, m)
<1>0. Len(t) \in Nat
  BY LenNat
<1>1. u \in Txt /\ Len(u) = Len(t) - m /\ Injective(u)
  BY ErasedAt, ErasedInjective
<1>2. \A i \in 1..Len(t), k \in 1..Len(u) :
         t[i] = u[k] => (i <= q /\ k = i) \/ (i > q + m /\ k = i - m)
  <2> SUFFICES ASSUME NEW i \in 1..Len(t), NEW k \in 1..Len(u), t[i] = u[k]
               PROVE  (i <= q /\ k = i) \/ (i > q + m /\ k = i - m)
    OBVIOUS
  <2> QED BY IndexErased
<1> HIDE DEF u
<1>r. ASSUME NEW a \in Nat, NEW b \in Nat, a + b <= Len(u), Rest(p, n, q, m) = Delete(a, b),
             \A i \in 1..Len(t), k \in 1..Len(u) :
                t[i] = u[k] => (i \in (p + 1)..(p + n) <=> k \in (a + 1)..(a + b))
      PROVE  \E k, l \in Nat : Rest(p, n, q, m) = Delete(k, l) /\ SameGone(t, p, n, u, k, l)
  <2>1. SameGone(t, p, n, u, a, b)
    BY <1>1, <1>r, GoneByIndex
  <2> QED BY <2>1, <1>r
<1>3. CASE p + n <= q
  <2>1. Rest(p, n, q, m) = Delete(p, n)
    BY <1>3, Zenon DEF Rest
  <2>2. p + n <= Len(u)
    BY <1>0, <1>1, <1>3
  <2>3. \A i \in 1..Len(t), k \in 1..Len(u) :
           t[i] = u[k] => (i \in (p + 1)..(p + n) <=> k \in (p + 1)..(p + n))
    BY <1>0, <1>1, <1>2, <1>3
  <2> QED BY <2>1, <2>2, <2>3, <1>r DEF u
<1>4. CASE ~(p + n <= q) /\ p >= q + m
  <2>1. Rest(p, n, q, m) = Delete(p - m, n)
    BY <1>4, Zenon DEF Rest
  <2>2. p - m \in Nat /\ (p - m) + n <= Len(u)
    BY <1>0, <1>1, <1>4
  <2>3. \A i \in 1..Len(t), k \in 1..Len(u) :
           t[i] = u[k] => (i \in (p + 1)..(p + n) <=> k \in ((p - m) + 1)..((p - m) + n))
    BY <1>0, <1>1, <1>2, <1>4
  <2> QED BY <2>1, <2>2, <2>3, <1>r DEF u
<1>5. CASE ~(p + n <= q) /\ ~(p >= q + m) /\ p >= q /\ p + n <= q + m
  <2>1. Rest(p, n, q, m) = Delete(0, 0)
    BY <1>5, Zenon DEF Rest
  <2>2. 0 + 0 <= Len(u)
    BY <1>1, LenNat
  <2>3. \A i \in 1..Len(t), k \in 1..Len(u) :
           t[i] = u[k] => (i \in (p + 1)..(p + n) <=> k \in (0 + 1)..(0 + 0))
    BY <1>0, <1>1, <1>2, <1>5
  <2> QED BY <2>1, <2>2, <2>3, <1>r DEF u
<1>6. CASE ~(p + n <= q) /\ ~(p >= q + m) /\ ~(p >= q /\ p + n <= q + m) /\ p <= q /\ p + n >= q + m
  <2>1. Rest(p, n, q, m) = Delete(p, n - m)
    BY <1>6, Zenon DEF Rest
  <2>2. n - m \in Nat /\ p + (n - m) <= Len(u)
    BY <1>0, <1>1, <1>6
  <2>3. \A i \in 1..Len(t), k \in 1..Len(u) :
           t[i] = u[k] => (i \in (p + 1)..(p + n) <=> k \in (p + 1)..(p + (n - m)))
    BY <1>0, <1>1, <1>2, <1>6
  <2> QED BY <2>1, <2>2, <2>3, <1>r DEF u
<1>7. CASE ~(p + n <= q) /\ ~(p >= q + m) /\ ~(p >= q /\ p + n <= q + m) /\ ~(p <= q /\ p + n >= q + m) /\ p < q
  <2>1. Rest(p, n, q, m) = Delete(p, q - p)
    BY <1>7, Zenon DEF Rest
  <2>2. q - p \in Nat /\ p + (q - p) <= Len(u)
    BY <1>0, <1>1, <1>7
  <2>3. \A i \in 1..Len(t), k \in 1..Len(u) :
           t[i] = u[k] => (i \in (p + 1)..(p + n) <=> k \in (p + 1)..(p + (q - p)))
    BY <1>0, <1>1, <1>2, <1>7
  <2> QED BY <2>1, <2>2, <2>3, <1>r DEF u
<1>8. CASE ~(p + n <= q) /\ ~(p >= q + m) /\ ~(p >= q /\ p + n <= q + m) /\ ~(p <= q /\ p + n >= q + m) /\ ~(p < q)
  <2>1. Rest(p, n, q, m) = Delete(q, (p + n) - (q + m))
    BY <1>8, Zenon DEF Rest
  <2>2. (p + n) - (q + m) \in Nat /\ q + ((p + n) - (q + m)) <= Len(u)
    BY <1>0, <1>1, <1>8
  <2>3. \A i \in 1..Len(t), k \in 1..Len(u) :
           t[i] = u[k] => (i \in (p + 1)..(p + n) <=> k \in (q + 1)..(q + ((p + n) - (q + m))))
    BY <1>0, <1>1, <1>2, <1>8
  <2> QED BY <2>1, <2>2, <2>3, <1>r DEF u
<1> QED BY <1>3, <1>4, <1>5, <1>6, <1>7, <1>8

-----------------------------------------------------------------------------
(* A transformed insertion stays beside the characters it was made beside. *)

\* An insertion at p of the text t stands where one at o of d was made: at the
\* end it was at, and beside those of its neighbours that are left.
Anchored(d, o, t, p) ==
    /\ o = 0 => p = 0
    /\ o = Len(d) => p = Len(t)
    /\ (o > 0 /\ d[o] \in Chars(t)) => p > 0 /\ t[p] = d[o]
    /\ (o < Len(d) /\ d[o + 1] \in Chars(t)) => p < Len(t) /\ t[p + 1] = d[o + 1]

\* Both its neighbours have been deleted.
Lost(d, o, t) == o > 0 /\ o < Len(d) /\ d[o] \notin Chars(t) /\ d[o + 1] \notin Chars(t)

LEMMA AnchorInsert ==
    ASSUME NEW d \in Txt, NEW o \in 0..Len(d), NEW t \in Txt, NEW p \in 0..Len(t), Anchored(d, o, t, p),
           NEW y \in Txt, NEW q \in 0..Len(t), q # p \/ Len(y) = 0, Chars(d) \cap Chars(y) = {}
    PROVE  Anchored(d, o, InsertAtPos(t, q, y), IF q <= p THEN p + Len(y) ELSE p)
<1> DEFINE u == InsertAtPos(t, q, y)
           r == IF q <= p THEN p + Len(y) ELSE p
<1>0. Len(t) \in Nat /\ Len(y) \in Nat /\ q \in Nat /\ q <= Len(t) /\ Len(d) \in Nat
  BY LenNat
<1>1. /\ Len(u) = Len(t) + Len(y)
      /\ \A l \in 1..(Len(t) + Len(y)) :
           u[l] = IF l <= q THEN t[l] ELSE IF l <= q + Len(y) THEN y[l - q] ELSE t[l - Len(y)]
  BY InsertedAt
<1>2. Chars(u) = Chars(t) \cup Chars(y)
  BY InsertedChars
<1> HIDE DEF u
<1>3. ASSUME NEW i \in 1..Len(d), d[i] \in Chars(u)
      PROVE  d[i] \in Chars(t)
  BY <1>2, <1>3 DEF Chars
<1>4. (o = 0 => r = 0) /\ (o = Len(d) => r = Len(u))
  <2>1. (o = 0 => p = 0) /\ (o = Len(d) => p = Len(t)) /\ p \in Nat /\ p <= Len(t)
    BY <1>0 DEF Anchored
  <2> QED BY <2>1, <1>0, <1>1
<1>5. ASSUME o > 0, d[o] \in Chars(u)
      PROVE  r > 0 /\ u[r] = d[o]
  <2>1. p > 0 /\ t[p] = d[o]
    BY <1>3, <1>5, <1>0 DEF Anchored
  <2>2. CASE q <= p
    <3>1. p + Len(y) \in 1..(Len(t) + Len(y)) /\ (p + Len(y)) - Len(y) = p
      BY <1>0, <2>1
    <3>2. (p + Len(y) <= q => Len(y) = 0) /\ (p + Len(y) <= q + Len(y) => p + Len(y) <= q)
      BY <1>0, <2>1, <2>2
    <3>3. u[p + Len(y)] = t[p]
      BY <1>0, <1>1, <3>1, <3>2
    <3> QED BY <2>1, <2>2, <3>1, <3>3, <1>0
  <2>3. CASE ~(q <= p)
    BY <2>1, <2>3, <1>0, <1>1
  <2> QED BY <2>2, <2>3
<1>6. ASSUME o < Len(d), d[o + 1] \in Chars(u)
      PROVE  r < Len(u) /\ u[r + 1] = d[o + 1]
  <2>1. p < Len(t) /\ t[p + 1] = d[o + 1]
    BY <1>3, <1>6, <1>0 DEF Anchored
  <2>2. CASE q <= p
    <3>1. /\ (p + Len(y)) + 1 \in 1..(Len(t) + Len(y)) /\ ((p + Len(y)) + 1) - Len(y) = p + 1
          /\ ~((p + Len(y)) + 1 <= q) /\ ~((p + Len(y)) + 1 <= q + Len(y))
      BY <1>0, <2>1, <2>2
    <3>3. u[(p + Len(y)) + 1] = t[p + 1]
      BY <1>1, <3>1
    <3> QED BY <2>1, <2>2, <3>3, <1>0, <1>1
  <2>3. CASE ~(q <= p)
    BY <2>1, <2>3, <1>0, <1>1
  <2> QED BY <2>2, <2>3
<1> HIDE DEF r
<1>7. Anchored(d, o, u, r)
  BY <1>4, <1>5, <1>6 DEF Anchored
<1> QED BY <1>7 DEF u, r

LEMMA AnchorErase ==
    ASSUME NEW d \in Txt, NEW o \in 0..Len(d), NEW t \in Txt, NEW p \in 0..Len(t), Anchored(d, o, t, p),
           NEW q \in Nat, NEW m \in Nat, q + m <= Len(t), p <= q \/ p >= q + m, Injective(t)
    PROVE  Anchored(d, o, EraseAtPos(t, q, m), IF p <= q THEN p ELSE p - m)
<1> DEFINE u == EraseAtPos(t, q, m)
           r == IF p <= q THEN p ELSE p - m
<1>0. Len(t) \in Nat /\ Len(d) \in Nat /\ p \in Nat
  BY LenNat
<1>1. /\ Len(u) = Len(t) - m
      /\ \A l \in 1..(Len(t) - m) : u[l] = IF l <= q THEN t[l] ELSE t[l + m]
  BY ErasedAt
<1>2. Chars(u) = Chars(t) \ Gone(t, q, m)
  BY ErasedChars
<1> HIDE DEF u
<1>3. ASSUME NEW i \in 1..Len(t), t[i] \in Chars(u)
      PROVE  i <= q \/ i > q + m
  <2>1. t[i] \notin Gone(t, q, m)
    BY <1>2, <1>3
  <2> QED BY <2>1, GoneAt, <1>0
<1>4. (o = 0 => r = 0) /\ (o = Len(d) => r = Len(u))
  BY <1>0, <1>1 DEF Anchored
<1>5. ASSUME o > 0, d[o] \in Chars(u)
      PROVE  r > 0 /\ u[r] = d[o]
  <2>1. p > 0 /\ t[p] = d[o]
    BY <1>2, <1>5, <1>0 DEF Anchored
  <2>2. p <= q \/ p > q + m
    BY <2>1, <1>3, <1>5, <1>0
  <2>3. CASE p <= q
    BY <2>1, <2>3, <1>0, <1>1
  <2>4. CASE ~(p <= q)
    <3>1. p - m \in 1..(Len(t) - m) /\ ~(p - m <= q) /\ (p - m) + m = p
      BY <2>2, <2>4, <1>0
    <3>2. u[p - m] = t[p]
      BY <3>1, <1>1
    <3> QED BY <3>1, <3>2, <2>1, <2>4, <1>0
  <2> QED BY <2>3, <2>4
<1>6. ASSUME o < Len(d), d[o + 1] \in Chars(u)
      PROVE  r < Len(u) /\ u[r + 1] = d[o + 1]
  <2>1. p < Len(t) /\ t[p + 1] = d[o + 1]
    BY <1>2, <1>6, <1>0 DEF Anchored
  <2>2. p + 1 <= q \/ p + 1 > q + m
    BY <2>1, <1>3, <1>6, <1>0
  <2>3. CASE p + 1 <= q
    BY <2>1, <2>3, <1>0, <1>1
  <2>4. CASE ~(p + 1 <= q)
    <3>1. /\ r = p - m /\ (p - m) + 1 \in 1..(Len(t) - m) /\ ~((p - m) + 1 <= q) /\ ((p - m) + 1) + m = p + 1
          /\ p - m < Len(u)
      BY <2>1, <2>2, <2>4, <1>0, <1>1
    <3>2. u[(p - m) + 1] = t[p + 1]
      BY <3>1, <1>1
    <3> QED BY <3>1, <3>2, <2>1
  <2> QED BY <2>3, <2>4
<1> HIDE DEF r
<1>7. Anchored(d, o, u, r)
  BY <1>4, <1>5, <1>6 DEF Anchored
<1> QED BY <1>7 DEF u, r

LEMMA AnchorLost ==
    ASSUME NEW d \in Txt, NEW o \in 0..Len(d), NEW t \in Txt, NEW p \in 0..Len(t), Anchored(d, o, t, p),
           NEW q \in Nat, NEW m \in Nat, q + m <= Len(t), ~(p <= q), ~(p >= q + m), Injective(t)
    PROVE  Lost(d, o, EraseAtPos(t, q, m))
<1> DEFINE u == EraseAtPos(t, q, m)
<1>0. Len(t) \in Nat /\ Len(d) \in Nat /\ p \in Nat
  BY LenNat
<1>2. Chars(u) = Chars(t) \ Gone(t, q, m)
  BY ErasedChars
<1> HIDE DEF u
<1>3. o > 0 /\ o < Len(d)
  BY <1>0 DEF Anchored
<1>4. p \in (q + 1)..(q + m) /\ p + 1 \in (q + 1)..(q + m)
  BY <1>0
<1>5. t[p] \in Gone(t, q, m) /\ t[p + 1] \in Gone(t, q, m)
  BY <1>4 DEF Gone
<1>6. d[o] \notin Chars(u) /\ d[o + 1] \notin Chars(u)
  BY <1>2, <1>3, <1>5 DEF Anchored
<1> QED BY <1>3, <1>6 DEF Lost, u

-----------------------------------------------------------------------------
(* Applying an operation moves no character across another.                *)
InOrder(s, v) ==
    \A i \in 1..Len(s), k \in 1..Len(v) : s[i] = v[k] =>
        \A j \in 1..Len(s), l \in 1..Len(v) : s[j] = v[l] => (i < j <=> k < l)

LEMMA OrderInserted ==
    ASSUME NEW s \in Txt, NEW v \in Txt, InOrder(s, v),
           NEW y \in Txt, NEW q \in 0..Len(v), Chars(s) \cap Chars(y) = {}
    PROVE  InOrder(s, InsertAtPos(v, q, y))
<1> DEFINE u == InsertAtPos(v, q, y)
           From(m) == IF m <= q THEN m ELSE m - Len(y)
<1>0. Len(v) \in Nat /\ Len(y) \in Nat /\ q \in Nat /\ q <= Len(v) /\ Len(s) \in Nat
  BY LenNat
<1>1. /\ Len(u) = Len(v) + Len(y)
      /\ \A l \in 1..(Len(v) + Len(y)) :
           u[l] = IF l <= q THEN v[l] ELSE IF l <= q + Len(y) THEN y[l - q] ELSE v[l - Len(y)]
  BY InsertedAt
<1> HIDE DEF u
<1>2. \A i \in 1..Len(s), j \in 1..Len(y) : s[i] # y[j]
  BY DEF Chars
<1>3. ASSUME NEW i \in 1..Len(s), NEW k \in 1..Len(u), s[i] = u[k]
      PROVE  (k <= q \/ k > q + Len(y)) /\ From(k) \in 1..Len(v) /\ s[i] = v[From(k)]
  <2>1. CASE k <= q
    BY <2>1, <1>0, <1>1, <1>3
  <2>2. CASE ~(k <= q) /\ k <= q + Len(y)
    <3>1. k - q \in 1..Len(y) /\ u[k] = y[k - q]
      BY <2>2, <1>0, <1>1
    <3> QED BY <3>1, <1>2, <1>3
  <2>3. CASE ~(k <= q) /\ ~(k <= q + Len(y))
    <3>1. k - Len(y) \in 1..Len(v) /\ u[k] = v[k - Len(y)]
      BY <2>3, <1>0, <1>1
    <3> QED BY <3>1, <2>3, <1>0, <1>1, <1>3
  <2> QED BY <2>1, <2>2, <2>3
<1>4. ASSUME NEW i \in 1..Len(s), NEW k \in 1..Len(u), s[i] = u[k],
             NEW j \in 1..Len(s), NEW l \in 1..Len(u), s[j] = u[l]
      PROVE  i < j <=> k < l
  <2>1. /\ (k <= q \/ k > q + Len(y)) /\ From(k) \in 1..Len(v) /\ s[i] = v[From(k)]
        /\ (l <= q \/ l > q + Len(y)) /\ From(l) \in 1..Len(v) /\ s[j] = v[From(l)]
    <3> HIDE DEF From
    <3> QED BY <1>3, <1>4
  <2>2. From(k) < From(l) <=> k < l
    <3>1. (k <= q \/ k > q + Len(y)) /\ (l <= q \/ l > q + Len(y)) /\ k \in Int /\ l \in Int
      <4>1. k \in Int /\ l \in Int
        BY <1>0, <1>1
      <4> QED BY <2>1, <4>1, Zenon
    <3> QED BY <3>1, <1>0
  <2>3. i < j <=> From(k) < From(l)
    <3> HIDE DEF From
    <3> QED BY <2>1 DEF InOrder
  <2> QED BY <2>2, <2>3
<1>5. InOrder(s, u)
  BY <1>4 DEF InOrder
<1> QED BY <1>5 DEF u

LEMMA OrderErased ==
    ASSUME NEW s \in Txt, NEW v \in Txt, InOrder(s, v),
           NEW q \in Nat, NEW m \in Nat, q + m <= Len(v)
    PROVE  InOrder(s, EraseAtPos(v, q, m))
<1> DEFINE u == EraseAtPos(v, q, m)
           From(k) == IF k <= q THEN k ELSE k + m
<1>0. Len(v) \in Nat /\ Len(s) \in Nat
  BY LenNat
<1>1. /\ Len(u) = Len(v) - m
      /\ \A l \in 1..(Len(v) - m) : u[l] = IF l <= q THEN v[l] ELSE v[l + m]
  BY ErasedAt
<1> HIDE DEF u
<1>3. ASSUME NEW k \in 1..Len(u)
      PROVE  From(k) \in 1..Len(v) /\ u[k] = v[From(k)]
  BY <1>0, <1>1
<1>4. ASSUME NEW i \in 1..Len(s), NEW k \in 1..Len(u), s[i] = u[k],
             NEW j \in 1..Len(s), NEW l \in 1..Len(u), s[j] = u[l]
      PROVE  i < j <=> k < l
  <2>1. From(k) \in 1..Len(v) /\ s[i] = v[From(k)] /\ From(l) \in 1..Len(v) /\ s[j] = v[From(l)]
    BY <1>3, <1>4
  <2>2. From(k) < From(l) <=> k < l
    BY <1>0, <1>1
  <2>3. i < j <=> From(k) < From(l)
    <3> HIDE DEF From
    <3> QED BY <2>1 DEF InOrder
  <2> QED BY <2>2, <2>3
<1>5. InOrder(s, u)
  BY <1>4 DEF InOrder
<1> QED BY <1>5 DEF u

\* What an author meant is in order with itself.
LEMMA OrderSelf ==
    ASSUME NEW s \in Txt, Injective(s)
    PROVE  InOrder(s, s)
  BY DEF InOrder, Injective

-----------------------------------------------------------------------------
(* The invariant about what the author meant.                              *)

\* The characters of the texts that the first n committed operations could insert.
Used(n) == UNION {Chars(x) : x \in UNION {Texts[k] : k \in 1..n}}

DeletesSame ==
    \A o, n \in Nat : orig = Delete(o, n) =>
        \E p, m \in Nat : pend = Delete(p, m) /\ SameGone(doc, o, n, text, p, m)

\* An insertion of z at p of the text u is what one of x at o was made as, or was
\* dropped with both its neighbours.
PlacedIn(o, x, u, p, z) ==
    (z = x /\ Anchored(doc, o, u, p)) \/ (z = <<>> /\ (x = <<>> \/ Lost(doc, o, u)))

InsertsPlaced ==
    \A o \in Nat, x \in Txt : orig = Insert(o, x) =>
        \E p \in Nat, z \in Txt : pend = Insert(p, z) /\ PlacedIn(o, x, text, p, z)

IntentInv ==
    /\ Injective(text)
    /\ Chars(text) \subseteq Chars(doc) \cup Used(commits)
    /\ orig \in OpsOn(doc, Texts[0])
    /\ InOrder(Intent, view)
    /\ DeletesSame
    /\ InsertsPlaced

LEMMA FormsOn ==
    ASSUME NEW t \in Txt, NEW k \in 0..MaxCommits, NEW op \in OpsOn(t, Texts[k])
    PROVE  \/ \E p \in 0..Len(t), x \in Texts[k] : op = Insert(p, x)
           \/ \E p, n \in Nat : op = Delete(p, n) /\ p + n <= Len(t)
<1>1. InRange(op, t)
  BY DEF OpsOn
<1>2. CASE op \in {Insert(pos, txt) : pos \in 0..Len(t), txt \in Texts[k]}
  BY <1>2
<1>3. CASE op \in {Delete(pos, len) : pos \in 0..Len(t), len \in 0..Len(t)}
  <2>1. PICK pos \in 0..Len(t), len \in 0..Len(t) : op = Delete(pos, len)
    BY <1>3
  <2>2. pos \in Nat /\ len \in Nat
    BY LenNat
  <2>3. pos + len <= Len(t)
    BY <1>1, <2>1, <2>2, DeleteForm
  <2> QED BY <2>1, <2>2, <2>3
<1> QED BY <1>2, <1>3 DEF OpsOn

LEMMA OneInsert ==
    \A p, x, q, y : Insert(p, x) = Insert(q, y) => p = q /\ x = y
<1>1. \A p, x : Insert(p, x).pos = p /\ Insert(p, x).text = x
  BY DEF Insert
<1> QED BY <1>1

LEMMA OneDelete ==
    \A p, n, q, m : Delete(p, n) = Delete(q, m) => p = q /\ n = m
<1>1. \A p, n : Delete(p, n).pos = p /\ Delete(p, n).len = n
  BY DEF Delete
<1> QED BY <1>1

LEMMA NotBoth ==
    \A p, x, q, m : Insert(p, x) # Delete(q, m)
<1>1. \A p, x : Insert(p, x).type = "I"
  BY DEF Insert
<1>2. \A p, x : Delete(p, x).type = "D"
  BY DEF Delete
<1> QED BY <1>1, <1>2

\* Texts that are inserted are new, and have characters of their own.
LEMMA FreshTexts ==
    ASSUME CharactersDiffer, NEW k \in 0..MaxCommits, NEW x \in Texts[k]
    PROVE  /\ x \in Txt
           /\ Injective(x)
           /\ \A d \in Docs : Chars(d) \cap Chars(x) = {}
           /\ \A l \in 0..MaxCommits : \A y \in Texts[l] : l # k => Chars(x) \cap Chars(y) = {}
           /\ \A n \in 0..MaxCommits : n < k => Used(n) \cap Chars(x) = {}
<1>1. x \in Txt
  BY TextsAssumption DEF Txt
<1>2. /\ Injective(x)
      /\ \A d \in Docs : Chars(d) \cap Chars(x) = {}
      /\ \A l \in 0..MaxCommits : \A y \in Texts[l] : l # k => Chars(x) \cap Chars(y) = {}
  BY DEF CharactersDiffer
<1>3. ASSUME NEW n \in 0..MaxCommits, n < k, NEW c \in Used(n)
      PROVE  c \notin Chars(x)
  <2>1. PICK l \in 1..n : \E y \in Texts[l] : c \in Chars(y)
    BY DEF Used
  <2>2. l \in 0..MaxCommits /\ l # k
    BY <1>3, CommitsAssumption
  <2> QED BY <2>1, <2>2, <1>2
<1> QED BY <1>1, <1>2, <1>3

\* What the author meant, as a set of characters.
LEMMA IntentChars ==
    ASSUME CharactersDiffer, TypeOK, orig \in OpsOn(doc, Texts[0])
    PROVE  /\ Intent \in Txt /\ Injective(Intent)
           /\ \A p \in Nat, x \in Txt : orig = Insert(p, x) =>
                /\ x \in Texts[0] /\ p \in 0..Len(doc)
                /\ Chars(Intent) = Chars(doc) \cup Chars(x)
           /\ \A p, n \in Nat : orig = Delete(p, n) =>
                p + n <= Len(doc) /\ Chars(Intent) = Chars(doc) \ Gone(doc, p, n)
           /\ \A k \in 1..MaxCommits : \A y \in Texts[k] : Chars(Intent) \cap Chars(y) = {}
<1>0. doc \in Txt /\ doc \in Docs /\ Injective(doc) /\ 0 \in 0..MaxCommits
  BY DocsAssumption, CommitsAssumption DEF TypeOK, CharactersDiffer, Txt
<1>1. \A k \in 1..MaxCommits : k \in 0..MaxCommits /\ k # 0
  BY CommitsAssumption
<1>2. ASSUME NEW p \in 0..Len(doc), NEW x \in Texts[0], orig = Insert(p, x)
      PROVE  /\ Intent \in Txt /\ Injective(Intent) /\ x \in Txt /\ p \in Nat
             /\ Chars(Intent) = Chars(doc) \cup Chars(x)
             /\ \A k \in 1..MaxCommits : \A y \in Texts[k] : Chars(Intent) \cap Chars(y) = {}
  <2>1. x \in Txt /\ Injective(x) /\ Chars(doc) \cap Chars(x) = {}
    BY <1>0, FreshTexts
  <2>2. p \in Nat /\ p <= Len(doc)
    BY <1>0, LenNat
  <2>3. Intent = InsertAtPos(doc, p, x)
    BY <1>0, <1>2, <2>1, <2>2, InsertForm DEF Intent
  <2>4. Intent \in Txt /\ Injective(Intent) /\ Chars(Intent) = Chars(doc) \cup Chars(x)
    BY <1>0, <2>1, <2>3, InsertedAt, InsertedInjective, InsertedChars
  <2>5. ASSUME NEW k \in 1..MaxCommits, NEW y \in Texts[k]
        PROVE  Chars(doc) \cap Chars(y) = {} /\ Chars(x) \cap Chars(y) = {}
    <3>1. Chars(doc) \cap Chars(y) = {}
      BY <1>0, <1>1, FreshTexts
    <3>2. Chars(y) \cap Chars(x) = {}
      BY <1>0, <1>1, FreshTexts
    <3> QED BY <3>1, <3>2
  <2> QED BY <2>1, <2>2, <2>4, <2>5
<1>3. ASSUME NEW p \in Nat, NEW n \in Nat, p + n <= Len(doc), orig = Delete(p, n)
      PROVE  /\ Intent \in Txt /\ Injective(Intent)
             /\ Chars(Intent) = Chars(doc) \ Gone(doc, p, n)
             /\ \A k \in 1..MaxCommits : \A y \in Texts[k] : Chars(Intent) \cap Chars(y) = {}
  <2>3. Intent = EraseAtPos(doc, p, n)
    BY <1>0, <1>3, DeleteForm DEF Intent
  <2>4. Intent \in Txt /\ Injective(Intent) /\ Chars(Intent) = Chars(doc) \ Gone(doc, p, n)
    BY <1>0, <1>3, <2>3, ErasedAt, ErasedInjective, ErasedChars
  <2>5. ASSUME NEW k \in 1..MaxCommits, NEW y \in Texts[k]
        PROVE  Chars(doc) \cap Chars(y) = {}
    BY <1>0, <1>1, FreshTexts
  <2> QED BY <2>4, <2>5
<1>4. CASE \E p \in 0..Len(doc), x \in Texts[0] : orig = Insert(p, x)
  <2>1. PICK p \in 0..Len(doc), x \in Texts[0] : orig = Insert(p, x)
    BY <1>4
  <2>2. \A q \in Nat, y \in Txt : orig = Insert(q, y) => q = p /\ y = x
    BY <2>1, OneInsert, Zenon
  <2>3. \A q, n \in Nat : orig # Delete(q, n)
    BY <2>1, NotBoth, Zenon
  <2> QED BY <2>1, <2>2, <2>3, <1>2
<1>5. CASE \E p, n \in Nat : orig = Delete(p, n) /\ p + n <= Len(doc)
  <2>1. PICK p, n \in Nat : orig = Delete(p, n) /\ p + n <= Len(doc)
    BY <1>5
  <2>2. \A q, m \in Nat : orig = Delete(q, m) => q = p /\ m = n
    BY <2>1, OneDelete, Zenon
  <2>3. \A q \in Nat, y \in Txt : orig # Insert(q, y)
    BY <2>1, NotBoth, Zenon
  <2> QED BY <2>1, <2>2, <2>3, <1>3
<1> QED BY <1>0, <1>4, <1>5, FormsOn

LEMMA InitIntent ==
    ASSUME CharactersDiffer, Init
    PROVE  IntentInv
<1>1. TypeOK /\ Diamond
  BY InitIInv DEF IInv
<1>2. orig \in OpsOn(doc, Texts[0]) /\ text = doc /\ pend = orig /\ view = Intent /\ commits = 0
  BY DEF Init, Intent
<1>3. doc \in Txt /\ Injective(doc)
  BY <1>1, DocsAssumption DEF TypeOK, CharactersDiffer, Txt
<1>4. Intent \in Txt /\ Injective(Intent)
  BY <1>1, <1>2, IntentChars
<1>5. InOrder(Intent, view)
  BY <1>2, <1>4, OrderSelf
<1>6. DeletesSame
  BY <1>2 DEF DeletesSame, SameGone
<1>7. InsertsPlaced
  <2>1. ASSUME NEW o \in Nat, NEW x \in Txt, orig = Insert(o, x)
        PROVE  Anchored(doc, o, text, o)
    <3>1. o \in 0..Len(doc)
      BY <1>1, <1>2, <2>1, IntentChars
    <3> QED BY <3>1, <1>2, <1>3, LenNat DEF Anchored
  <2> QED BY <1>2, <2>1 DEF InsertsPlaced, PlacedIn
<1> QED BY <1>2, <1>3, <1>5, <1>6, <1>7 DEF IntentInv

\* Transforming keeps the kind of an operation, and an inserted text or nothing.
LEMMA TransformKeepsKind ==
    ASSUME NEW a \in Op
    PROVE  /\ \A q \in Nat, y \in Txt :
                \E r \in Nat, z \in {y, <<>>} : transform(Insert(q, y), a) = Insert(r, z)
           /\ \A q, m \in Nat : \E r, l \in Nat : transform(Delete(q, m), a) = Delete(r, l)
<1>1. ASSUME NEW q \in Nat, NEW y \in Txt
      PROVE  \E r \in Nat, z \in {y, <<>>} : transform(Insert(q, y), a) = Insert(r, z)
  <2>1. ASSUME NEW p \in Nat, NEW x \in Txt, a = Insert(p, x)
        PROVE  \E r \in Nat, z \in {y, <<>>} : transform(Insert(q, y), a) = Insert(r, z)
    <3>1. transform(Insert(q, y), a) = IF p <= q THEN Insert(q + Len(x), y) ELSE Insert(q, y)
      BY <2>1, FormII, Zenon
    <3>2. q + Len(x) \in Nat
      BY LenNat
    <3> QED BY <3>1, <3>2, Zenon
  <2>2. ASSUME NEW p \in Nat, NEW n \in Nat, a = Delete(p, n)
        PROVE  \E r \in Nat, z \in {y, <<>>} : transform(Insert(q, y), a) = Insert(r, z)
    <3>1. transform(Insert(q, y), a) = Moved(q, y, p, n)
      BY <2>2, FormID, Zenon
    <3>2. CASE q <= p
      BY <3>1, <3>2, Zenon DEF Moved
    <3>3. CASE ~(q <= p) /\ q >= p + n
      <4>1. q - n \in Nat
        BY <3>3
      <4> QED BY <3>1, <3>3, <4>1, Zenon DEF Moved
    <3>4. CASE ~(q <= p) /\ ~(q >= p + n)
      <4>1. transform(Insert(q, y), a) = Insert(0, <<>>)
        BY <3>1, <3>4, Zenon DEF Moved
      <4> QED BY <4>1
    <3> QED BY <3>2, <3>3, <3>4, Zenon
  <2> QED BY <2>1, <2>2, OpForms, Zenon
<1>2. ASSUME NEW q \in Nat, NEW m \in Nat
      PROVE  \E r, l \in Nat : transform(Delete(q, m), a) = Delete(r, l)
  <2>1. ASSUME NEW p \in Nat, NEW x \in Txt, a = Insert(p, x)
        PROVE  \E r, l \in Nat : transform(Delete(q, m), a) = Delete(r, l)
    <3>1. transform(Delete(q, m), a) = Grown(q, m, p, x)
      BY <2>1, FormDI, Zenon
    <3>2. q + Len(x) \in Nat /\ m + Len(x) \in Nat
      BY LenNat
    <3> QED BY <3>1, <3>2, Zenon DEF Grown
  <2>2. ASSUME NEW p \in Nat, NEW n \in Nat, a = Delete(p, n)
        PROVE  \E r, l \in Nat : transform(Delete(q, m), a) = Delete(r, l)
    <3>1. transform(Delete(q, m), a) = Rest(q, m, p, n)
      BY <2>2, FormDD, Zenon
    <3>3. q >= p + n => q - n \in Nat
      OBVIOUS
    <3>4. ~(q + m <= p) /\ ~(q >= p + n) /\ q <= p /\ q + m >= p + n => m - n \in Nat
      OBVIOUS
    <3>5. q < p => p - q \in Nat
      OBVIOUS
    <3>6. ~(q >= p /\ q + m <= p + n) /\ ~(q < p) => (q + m) - (p + n) \in Nat
      OBVIOUS
    <3>7. 0 \in Nat
      OBVIOUS
    <3> QED BY <3>1, <3>3, <3>4, <3>5, <3>6, <3>7, Zenon DEF Rest
  <2> QED BY <2>1, <2>2, OpForms, Zenon
<1> QED BY <1>1, <1>2

LEMMA OrderStep ==
    ASSUME CharactersDiffer, IInv, IntentInv, commits < MaxCommits,
           NEW b \in OpsOn(text, Texts[commits + 1])
    PROVE  InOrder(Intent, apply_op(view, transform(b, pend)))
<1>1. /\ text \in Txt /\ view \in Txt /\ pend \in Op /\ commits \in 0..MaxCommits
      /\ InRange(pend, text) /\ view = apply_op(text, pend)
  BY DEF IInv, TypeOK, NoClamp, Diamond, Txt
<1>2. commits + 1 \in 0..MaxCommits /\ commits + 1 \in 1..MaxCommits
  BY <1>1, CommitsAssumption
<1>3. b \in Op /\ InRange(b, text)
  BY <1>1, <1>2, OpsOnText
<1>4. InRange(transform(b, pend), view)
  <2>1. Fits(text, b, pend)
    BY <1>1, <1>3, TransformFits
  <2> QED BY <2>1, <1>1, Zenon DEF Fits
<1>5. /\ Intent \in Txt /\ InOrder(Intent, view)
      /\ \A y \in Texts[commits + 1] : Chars(Intent) \cap Chars(y) = {}
  BY <1>2, IntentChars DEF IInv, IntentInv
<1>6. CASE \E p \in 0..Len(text), y \in Texts[commits + 1] : b = Insert(p, y)
  <2>1. PICK p \in 0..Len(text), y \in Texts[commits + 1] : b = Insert(p, y)
    BY <1>6
  <2>2. p \in Nat /\ y \in Txt
    BY <1>1, <1>2, LenNat, FreshTexts
  <2>3. PICK r \in Nat, z \in {y, <<>>} : transform(b, pend) = Insert(r, z)
    <3>1. \E r \in Nat, z \in {y, <<>>} : transform(Insert(p, y), pend) = Insert(r, z)
      BY <1>1, <2>2, TransformKeepsKind
    <3> QED BY <2>1, <3>1
  <2>4. z \in Txt /\ Chars(Intent) \cap Chars(z) = {}
    <3>1. CASE z = y
      BY <3>1, <2>2, <1>5
    <3>2. CASE z = <<>>
      <4>1. Chars(<<>>) = {}
        BY Nothing DEF Chars
      <4> QED BY <3>2, <4>1, Nothing
    <3> QED BY <3>1, <3>2
  <2>5. r <= Len(view)
    BY <1>1, <1>4, <2>3, <2>4, InsertForm
  <2>6. apply_op(view, transform(b, pend)) = InsertAtPos(view, r, z)
    BY <1>1, <2>3, <2>4, <2>5, InsertForm
  <2>7. r \in 0..Len(view)
    BY <1>1, <2>5, LenNat
  <2> QED BY <1>1, <1>5, <2>4, <2>6, <2>7, OrderInserted
<1>7. CASE \E p, n \in Nat : b = Delete(p, n) /\ p + n <= Len(text)
  <2>1. PICK p, n \in Nat : b = Delete(p, n)
    BY <1>7
  <2>3. PICK r, l \in Nat : transform(b, pend) = Delete(r, l)
    <3>1. \A q, m \in Nat : \E r, l \in Nat : transform(Delete(q, m), pend) = Delete(r, l)
      BY <1>1, TransformKeepsKind, Zenon
    <3>2. \E r, l \in Nat : transform(Delete(p, n), pend) = Delete(r, l)
      BY <3>1
    <3> QED BY <2>1, <3>2
  <2>5. r + l <= Len(view)
    BY <1>1, <1>4, <2>3, DeleteForm
  <2>6. apply_op(view, transform(b, pend)) = EraseAtPos(view, r, l)
    BY <1>1, <2>3, <2>5, DeleteForm
  <2> QED BY <1>1, <1>5, <2>5, <2>6, OrderErased
<1> QED BY <1>1, <1>2, <1>6, <1>7, FormsOn

\* What a commit does to the committed text.
LEMMA TextStep ==
    ASSUME CharactersDiffer, IInv, IntentInv, commits < MaxCommits,
           NEW b \in OpsOn(text, Texts[commits + 1])
    PROVE  /\ Injective(apply_op(text, b))
           /\ Chars(apply_op(text, b)) \subseteq Chars(doc) \cup Used(commits + 1)
           /\ Chars(doc) \cap Chars(apply_op(text, b)) \subseteq Chars(text)
           /\ \/ \E q \in 0..Len(text), y \in Txt :
                   /\ b = Insert(q, y) /\ apply_op(text, b) = InsertAtPos(text, q, y)
                   /\ Injective(y) /\ Chars(text) \cap Chars(y) = {} /\ Chars(doc) \cap Chars(y) = {}
              \/ \E q, m \in Nat : /\ b = Delete(q, m) /\ q + m <= Len(text)
                                   /\ apply_op(text, b) = EraseAtPos(text, q, m)
<1>1. /\ text \in Txt /\ commits \in 0..MaxCommits /\ doc \in Docs /\ Injective(text)
      /\ Chars(text) \subseteq Chars(doc) \cup Used(commits)
  BY DEF IInv, TypeOK, IntentInv, Txt
<1>2. commits + 1 \in 0..MaxCommits /\ commits \in Nat
  BY <1>1, CommitsAssumption
<1>3. Used(commits) \subseteq Used(commits + 1)
  <2>1. \A k \in 1..commits : k \in 1..(commits + 1)
    BY <1>2
  <2> QED BY <2>1 DEF Used
<1>6. CASE \E p \in 0..Len(text), y \in Texts[commits + 1] : b = Insert(p, y)
  <2>1. PICK q \in 0..Len(text), y \in Texts[commits + 1] : b = Insert(q, y)
    BY <1>6
  <2>2. /\ y \in Txt /\ Injective(y) /\ Chars(doc) \cap Chars(y) = {}
        /\ Used(commits) \cap Chars(y) = {}
    <3>1. commits < commits + 1
      BY <1>2
    <3> QED BY <3>1, <1>1, <1>2, FreshTexts
  <2>3. q \in Nat /\ q <= Len(text)
    BY <1>1, LenNat
  <2>4. apply_op(text, b) = InsertAtPos(text, q, y)
    BY <1>1, <2>1, <2>2, <2>3, InsertForm
  <2>5. Chars(text) \cap Chars(y) = {}
    BY <1>1, <2>2
  <2>6. Injective(InsertAtPos(text, q, y)) /\ Chars(InsertAtPos(text, q, y)) = Chars(text) \cup Chars(y)
    BY <1>1, <2>2, <2>5, InsertedInjective, InsertedChars
  <2>7. Chars(y) \subseteq Used(commits + 1)
    <3>1. commits + 1 \in 1..(commits + 1)
      BY <1>2
    <3> QED BY <3>1 DEF Used
  <2>8. /\ Injective(apply_op(text, b))
        /\ Chars(apply_op(text, b)) \subseteq Chars(doc) \cup Used(commits + 1)
        /\ Chars(doc) \cap Chars(apply_op(text, b)) \subseteq Chars(text)
    BY <1>1, <1>3, <2>2, <2>4, <2>6, <2>7
  <2> QED BY <2>1, <2>2, <2>4, <2>5, <2>8
<1>7. CASE \E p, n \in Nat : b = Delete(p, n) /\ p + n <= Len(text)
  <2>1. PICK q, m \in Nat : b = Delete(q, m) /\ q + m <= Len(text)
    BY <1>7
  <2>2. apply_op(text, b) = EraseAtPos(text, q, m)
    BY <1>1, <2>1, DeleteForm
  <2>3. Injective(EraseAtPos(text, q, m)) /\ Chars(EraseAtPos(text, q, m)) \subseteq Chars(text)
    BY <1>1, <2>1, ErasedInjective, ErasedChars
  <2>8. /\ Injective(apply_op(text, b))
        /\ Chars(apply_op(text, b)) \subseteq Chars(doc) \cup Used(commits + 1)
        /\ Chars(doc) \cap Chars(apply_op(text, b)) \subseteq Chars(text)
    BY <1>1, <1>3, <2>2, <2>3
  <2> QED BY <2>1, <2>2, <2>8
<1> QED BY <1>1, <1>2, <1>6, <1>7, FormsOn

LEMMA DeletesStep ==
    ASSUME CharactersDiffer, IInv, IntentInv, commits < MaxCommits,
           NEW b \in OpsOn(text, Texts[commits + 1]),
           NEW o \in Nat, NEW n \in Nat, orig = Delete(o, n)
    PROVE  \E k, l \in Nat : /\ transform(pend, b) = Delete(k, l)
                             /\ SameGone(doc, o, n, apply_op(text, b), k, l)
<1>1. text \in Txt /\ Injective(text) /\ InRange(pend, text)
  BY DEF IInv, TypeOK, NoClamp, IntentInv, Txt
<1>2. PICK p, m \in Nat : pend = Delete(p, m) /\ SameGone(doc, o, n, text, p, m)
  BY DEF IntentInv, DeletesSame
<1>3. p + m <= Len(text)
  BY <1>1, <1>2, DeleteForm
<1>4. \E k, l \in Nat : transform(pend, b) = Delete(k, l) /\ SameGone(text, p, m, apply_op(text, b), k, l)
  <2>1. CASE \E q \in 0..Len(text), y \in Txt :
                   /\ b = Insert(q, y) /\ apply_op(text, b) = InsertAtPos(text, q, y)
                   /\ Injective(y) /\ Chars(text) \cap Chars(y) = {}
    <3>1. PICK q \in 0..Len(text), y \in Txt :
                   /\ b = Insert(q, y) /\ apply_op(text, b) = InsertAtPos(text, q, y)
                   /\ Injective(y) /\ Chars(text) \cap Chars(y) = {}
      BY <2>1
    <3>2. PICK k, l \in Nat : /\ Grown(p, m, q, y) = Delete(k, l)
                              /\ SameGone(text, p, m, InsertAtPos(text, q, y), k, l)
      BY <1>1, <1>3, <3>1, GoneAfterInsert
    <3>3. q \in Nat
      BY <1>1, LenNat
    <3>4. transform(pend, b) = Grown(p, m, q, y)
      BY <1>2, <3>1, <3>3, FormDI, Zenon
    <3> QED BY <3>1, <3>2, <3>4, Zenon
  <2>2. CASE \E q, r \in Nat : /\ b = Delete(q, r) /\ q + r <= Len(text)
                               /\ apply_op(text, b) = EraseAtPos(text, q, r)
    <3>1. PICK q, r \in Nat : /\ b = Delete(q, r) /\ q + r <= Len(text)
                              /\ apply_op(text, b) = EraseAtPos(text, q, r)
      BY <2>2
    <3>2. PICK k, l \in Nat : /\ Rest(p, m, q, r) = Delete(k, l)
                              /\ SameGone(text, p, m, EraseAtPos(text, q, r), k, l)
      BY <1>1, <1>3, <3>1, GoneAfterErase
    <3>3. transform(Delete(p, m), Delete(q, r)) = Rest(p, m, q, r)
      BY FormDD
    <3>4. transform(pend, b) = Rest(p, m, q, r)
      BY <1>2, <3>1, <3>3
    <3> QED BY <3>1, <3>2, <3>4, Zenon
  <2> QED BY <2>1, <2>2, TextStep, Zenon
<1>5. PICK k, l \in Nat : transform(pend, b) = Delete(k, l) /\ SameGone(text, p, m, apply_op(text, b), k, l)
  BY <1>4
<1>6. Chars(doc) \cap Chars(apply_op(text, b)) \subseteq Chars(text)
  BY TextStep
<1>7. SameGone(doc, o, n, apply_op(text, b), k, l)
  BY <1>2, <1>5, <1>6, Zenon DEF SameGone
<1> QED BY <1>5, <1>7

LEMMA InsertsStep ==
    ASSUME CharactersDiffer, IInv, IntentInv, commits < MaxCommits,
           NEW b \in OpsOn(text, Texts[commits + 1]), ~Tie(pend, b),
           NEW o \in Nat, NEW x \in Txt, orig = Insert(o, x)
    PROVE  \E k \in Nat, w \in Txt : /\ transform(pend, b) = Insert(k, w)
                                     /\ PlacedIn(o, x, apply_op(text, b), k, w)
<1>0. PICK u : u = apply_op(text, b)
  OBVIOUS
<1> DEFINE Goal == \E k \in Nat, w \in Txt : transform(pend, b) = Insert(k, w) /\ PlacedIn(o, x, u, k, w)
<1> SUFFICES Goal
  BY <1>0, Zenon
<1>1. /\ text \in Txt /\ Injective(text) /\ InRange(pend, text) /\ doc \in Txt
      /\ Len(text) \in Nat /\ Len(doc) \in Nat
  BY DocsAssumption, LenNat DEF IInv, TypeOK, NoClamp, IntentInv, Txt
<1>2. PICK p \in Nat, z \in Txt : pend = Insert(p, z) /\ PlacedIn(o, x, text, p, z)
  BY DEF IntentInv, InsertsPlaced
<1>3. p <= Len(text) /\ p \in 0..Len(text)
  BY <1>1, <1>2, InsertForm
<1>4. o \in 0..Len(doc)
  BY IntentChars DEF IInv, IntentInv
<1>5. Chars(doc) \cap Chars(u) \subseteq Chars(text)
  BY <1>0, TextStep
<1>6. Lost(doc, o, text) => Lost(doc, o, u)
  <2>1. \A i \in 1..Len(doc) : doc[i] \in Chars(doc)
    BY DEF Chars
  <2> QED BY <1>1, <1>4, <1>5, <2>1 DEF Lost
<1>7. CASE \E q \in 0..Len(text), y \in Txt :
                   /\ b = Insert(q, y) /\ u = InsertAtPos(text, q, y)
                   /\ Chars(doc) \cap Chars(y) = {}
  <2>1. PICK q \in 0..Len(text), y \in Txt :
                   /\ b = Insert(q, y) /\ u = InsertAtPos(text, q, y)
                   /\ Chars(doc) \cap Chars(y) = {}
    BY <1>7
  <2>2. q \in Nat /\ Len(y) \in Nat
    BY <1>1, LenNat
  <2> DEFINE k == IF q <= p THEN p + Len(y) ELSE p
  <2>3. k \in Nat
    BY <2>2
  <2>4. transform(pend, b) = Insert(k, z)
    <3>1. transform(pend, b) = IF q <= p THEN Insert(p + Len(y), z) ELSE Insert(p, z)
      BY <1>2, <2>1, <2>2, FormII, Zenon
    <3> QED BY <3>1, Zenon
  <2>5. p = q => z = <<>> \/ y = <<>>
    BY <1>2, <2>1 DEF Tie, Insert
  <2>6. CASE z = x /\ Anchored(doc, o, text, p) /\ z # <<>>
    <3>1. q # p \/ Len(y) = 0
      BY <2>5, <2>6, Nothing
    <3>2. Anchored(doc, o, InsertAtPos(text, q, y), k)
      BY <1>1, <1>3, <1>4, <2>1, <2>6, <3>1, AnchorInsert
    <3> HIDE DEF k
    <3> QED BY <2>1, <2>3, <2>4, <2>6, <3>2, Zenon DEF PlacedIn
  <2>7. CASE z = <<>> /\ (x = <<>> \/ Lost(doc, o, text))
    <3> HIDE DEF k
    <3> QED BY <2>3, <2>4, <2>7, <1>6, Zenon DEF PlacedIn
  <2> QED BY <1>2, <2>6, <2>7, Zenon DEF PlacedIn
<1>8. CASE \E q, m \in Nat : /\ b = Delete(q, m) /\ q + m <= Len(text)
                             /\ u = EraseAtPos(text, q, m)
  <2>1. PICK q, m \in Nat : /\ b = Delete(q, m) /\ q + m <= Len(text)
                            /\ u = EraseAtPos(text, q, m)
    BY <1>8
  <2>2. transform(pend, b) = Moved(p, z, q, m)
    BY <1>2, <2>1, FormID, Zenon
  <2>3. CASE p <= q \/ p >= q + m
    <3> DEFINE k == IF p <= q THEN p ELSE p - m
    <3>1. k \in Nat
      BY <2>3
    <3>2. transform(pend, b) = Insert(k, z)
      BY <2>2, <2>3, Zenon DEF Moved
    <3>3. Anchored(doc, o, text, p) => Anchored(doc, o, EraseAtPos(text, q, m), k)
      BY <1>1, <1>3, <1>4, <2>1, <2>3, AnchorErase
    <3> HIDE DEF k
    <3> QED BY <1>2, <1>6, <2>1, <3>1, <3>2, <3>3, Zenon DEF PlacedIn
  <2>4. CASE ~(p <= q) /\ ~(p >= q + m)
    <3>1. transform(pend, b) = Insert(0, <<>>)
      BY <2>2, <2>4, Zenon DEF Moved
    <3>2. Anchored(doc, o, text, p) => Lost(doc, o, EraseAtPos(text, q, m))
      BY <1>1, <1>3, <1>4, <2>1, <2>4, AnchorLost
    <3>3. 0 \in Nat /\ <<>> \in Txt
      BY Nothing
    <3>4. PlacedIn(o, x, u, 0, <<>>)
      BY <1>2, <1>6, <2>1, <3>2, Zenon DEF PlacedIn
    <3> QED BY <3>1, <3>3, <3>4, Zenon
  <2> QED BY <2>3, <2>4
<1>9. \/ \E q \in 0..Len(text), y \in Txt :
                   /\ b = Insert(q, y) /\ u = InsertAtPos(text, q, y)
                   /\ Chars(doc) \cap Chars(y) = {}
      \/ \E q, m \in Nat : /\ b = Delete(q, m) /\ q + m <= Len(text)
                             /\ u = EraseAtPos(text, q, m)
  BY <1>0, TextStep, Zenon
<1> QED BY <1>7, <1>8, <1>9, Zenon

LEMMA NextIntent ==
    ASSUME CharactersDiffer, IInv, IntentInv, [Next]_vars
    PROVE  IntentInv'
<1>1. CASE UNCHANGED vars
  BY <1>1 DEF IntentInv, DeletesSame, InsertsPlaced, PlacedIn, Intent, vars
<1>2. ASSUME NEW b \in OpsOn(text, Texts[commits + 1]), Commit(b), commits < MaxCommits
      PROVE  IntentInv'
  <2>1. /\ ~Tie(pend, b) /\ text' = apply_op(text, b) /\ pend' = transform(pend, b)
        /\ view' = apply_op(view, transform(b, pend)) /\ commits' = commits + 1
        /\ doc' = doc /\ orig' = orig
    BY <1>2, Zenon DEF Commit
  <2>2. Injective(text') /\ Chars(text') \subseteq Chars(doc) \cup Used(commits + 1)
    BY <1>2, <2>1, TextStep
  <2>3. InOrder(Intent, view')
    BY <1>2, <2>1, OrderStep
  <2>4. Intent' = Intent
    BY <2>1 DEF Intent
  <2>5. DeletesSame'
    BY <1>2, <2>1, DeletesStep DEF DeletesSame
  <2>6. InsertsPlaced'
    BY <1>2, <2>1, InsertsStep DEF InsertsPlaced, PlacedIn
  <2>7. orig' \in OpsOn(doc', Texts[0])
    BY <2>1 DEF IntentInv
  <2>8. Injective(text)' /\ (Chars(text) \subseteq Chars(doc) \cup Used(commits))' /\ InOrder(Intent, view)'
    BY <2>1, <2>2, <2>3, <2>4
  <2> QED BY <2>5, <2>6, <2>7, <2>8 DEF IntentInv
<1>3. CASE Next
  BY <1>2, <1>3, Zenon DEF Next
<1> QED BY <1>1, <1>3

LEMMA IntentByInv ==
    ASSUME CharactersDiffer, IInv, IntentInv
    PROVE  IntentionKept
<1>1. /\ text \in Txt /\ Injective(text) /\ InRange(pend, text) /\ doc \in Txt /\ doc \in Docs
      /\ view = Merged /\ Len(doc) \in Nat /\ 0 \in 0..MaxCommits
  BY DocsAssumption, LenNat, CommitsAssumption DEF IInv, TypeOK, NoClamp, Diamond, IntentInv, Txt, Merged
<1>2. OrderKept
  BY <1>1 DEF IntentInv, OrderKept, InOrder
<1>3. ASSUME NEW o \in Nat, NEW x \in Txt, orig = Insert(o, x)
      PROVE  DeletesMerged /\ InsertKept
  <2>1. /\ x \in Texts[0] /\ o \in 0..Len(doc) /\ Chars(Intent) = Chars(doc) \cup Chars(x)
    BY <1>3, IntentChars DEF IInv, IntentInv
  <2>2. PICK p \in Nat, z \in Txt : pend = Insert(p, z) /\ PlacedIn(o, x, text, p, z)
    BY <1>3 DEF IntentInv, InsertsPlaced
  <2>3. p <= Len(text) /\ p \in 0..Len(text)
    BY <1>1, <2>2, InsertForm
  <2>4. Merged = InsertAtPos(text, p, z)
    BY <1>1, <2>2, <2>3, InsertForm DEF Merged
  <2>5. Chars(Merged) = Chars(text) \cup Chars(z)
    BY <1>1, <2>3, <2>4, InsertedChars
  <2>6. Chars(doc) \cap Chars(x) = {}
    BY <1>1, <2>1, FreshTexts
  <2>7. Chars(<<>>) = {}
    BY Nothing DEF Chars
  <2>8. z = x \/ z = <<>>
    BY <2>2 DEF PlacedIn
  <2>9. Chars(doc) \cap Chars(z) = {}
    BY <2>6, <2>7, <2>8
  <2>10. DeletesMerged
    BY <2>1, <2>5, <2>9 DEF DeletesMerged
  <2>11. orig.type = "I" /\ orig.pos = o /\ orig.text = x
    BY <1>3 DEF Insert
  <2>12. z = x => InsertKept
    BY <2>5, <2>11 DEF InsertKept
  <2>14. Lost(doc, o, text) => InsertKept
    BY <1>1, <2>11 DEF InsertKept, Lost
  <2> QED BY <2>2, <2>10, <2>12, <2>14 DEF PlacedIn
<1>4. ASSUME NEW o \in Nat, NEW n \in Nat, orig = Delete(o, n)
      PROVE  DeletesMerged /\ InsertKept
  <2>1. o + n <= Len(doc) /\ Chars(Intent) = Chars(doc) \ Gone(doc, o, n)
    BY <1>4, IntentChars DEF IInv, IntentInv
  <2>2. PICK p, m \in Nat : pend = Delete(p, m) /\ SameGone(doc, o, n, text, p, m)
    BY <1>4 DEF IntentInv, DeletesSame
  <2>3. p + m <= Len(text)
    BY <1>1, <2>2, DeleteForm
  <2>4. Merged = EraseAtPos(text, p, m)
    BY <1>1, <2>2, <2>3, DeleteForm DEF Merged
  <2>5. Chars(Merged) = Chars(text) \ Gone(text, p, m)
    BY <1>1, <2>3, <2>4, ErasedChars
  <2>6. DeletesMerged
    BY <2>1, <2>2, <2>5 DEF DeletesMerged, SameGone
  <2>7. orig.type # "I"
    BY <1>4 DEF Delete
  <2> QED BY <2>6, <2>7 DEF InsertKept
<1>5. orig \in Op
  BY DEF IInv, TypeOK
<1> QED BY <1>2, <1>3, <1>4, <1>5, OpForms, Zenon DEF IntentionKept

(***************************************************************************)
(* For all documents whose characters differ from one another and from     *)
(* those that are inserted, all operations and any number of commits,      *)
(* transforming neither loses nor widens a deletion, moves nothing and     *)
(* drops no insertion that still has a neighbour.                          *)
(***************************************************************************)
THEOREM IntentionTheorem ==
    ASSUME CharactersDiffer
    PROVE  Spec => []IntentionKept
<1>1. Init => IntentInv
  BY InitIntent
<1>2. IInv /\ IntentInv /\ [Next]_vars => IntentInv'
  BY NextIntent
<1>3. IInv /\ IntentInv => IntentionKept
  BY IntentByInv
<1> QED BY <1>1, <1>2, <1>3, InitIInv, NextIInv, PTL DEF Spec
=============================================================================
