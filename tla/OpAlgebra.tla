------------------------------ MODULE OpAlgebra ------------------------------
(***************************************************************************)
(* The two character-level operations on a document, how they are applied, *)
(* and how an operation is adjusted for another one that was applied       *)
(* before it (doc_ops.cc). Positions and lengths count characters; they    *)
(* are size_t in C++, and never near its limit here.                       *)
(***************************************************************************)
EXTENDS Integers, Sequences

Insert(pos, txt) == [type |-> "I", pos |-> pos, text |-> txt]
Delete(pos, len) == [type |-> "D", pos |-> pos, len |-> len]

Least(m, n) == IF m <= n THEN m ELSE n

\* std::string::insert and ::erase, for positions inside the text.
InsertAtPos(t, pos, txt) == SubSeq(t, 1, pos) \o txt \o SubSeq(t, pos + 1, Len(t))
EraseAtPos(t, pos, len)  == SubSeq(t, 1, pos) \o SubSeq(t, pos + len + 1, Len(t))

\* Apply an operation; positions and lengths beyond the text are clamped.
apply_op(t, op) ==
    LET pos == Least(op.pos, Len(t))
    IN  IF op.type = "I"
        THEN InsertAtPos(t, pos, op.text)
        ELSE EraseAtPos(t, pos, Least(op.len, Len(t) - pos))

-----------------------------------------------------------------------------
(* Plausible mistakes in transform, which the properties below must catch. *)

\* An insertion is not shifted by the one before it.
MutantII(a, b) == a

\* An insertion at the start of the deleted characters is dropped too.
MutantIDStart(a, b) ==
    IF a.pos < b.pos               THEN a
    ELSE IF a.pos >= b.pos + b.len THEN Insert(a.pos - b.len, a.text)
    ELSE Insert(0, <<>>)

\* A deletion keeps its length when a text is inserted inside it.
MutantDI(a, b) ==
    IF b.pos >= a.pos + a.len THEN a
    ELSE IF b.pos <= a.pos    THEN Delete(a.pos + Len(b.text), a.len)
    ELSE a

\* A deletion that starts inside b is taken for one behind b.
MutantDDBehind(a, b) ==
    LET aEnd == a.pos + a.len
        bEnd == b.pos + b.len
    IN  IF aEnd <= b.pos                            THEN a
        ELSE IF a.pos >= b.pos                      THEN Delete(a.pos - b.len, a.len)
        ELSE IF aEnd >= bEnd                        THEN Delete(a.pos, a.len - b.len)
        ELSE Delete(a.pos, b.pos - a.pos)

\* A deletion that covers b is not shrunk.
MutantDDCover(a, b) ==
    LET aEnd == a.pos + a.len
        bEnd == b.pos + b.len
    IN  IF aEnd <= b.pos                            THEN a
        ELSE IF a.pos >= bEnd                       THEN Delete(a.pos - b.len, a.len)
        ELSE IF a.pos >= b.pos /\ aEnd <= bEnd      THEN Delete(0, 0)
        ELSE IF a.pos < b.pos                       THEN Delete(a.pos, a.len)
        ELSE Delete(b.pos, aEnd - bEnd)

\* A deletion that overlaps b's end starts where it did.
MutantDDOverlap(a, b) ==
    LET aEnd == a.pos + a.len
        bEnd == b.pos + b.len
    IN  IF aEnd <= b.pos                            THEN a
        ELSE IF a.pos >= bEnd                       THEN Delete(a.pos - b.len, a.len)
        ELSE IF a.pos >= b.pos /\ aEnd <= bEnd      THEN Delete(0, 0)
        ELSE IF a.pos <= b.pos /\ aEnd >= bEnd      THEN Delete(a.pos, a.len - b.len)
        ELSE IF a.pos < b.pos                       THEN Delete(a.pos, b.pos - a.pos)
        ELSE Delete(a.pos, aEnd - bEnd)

-----------------------------------------------------------------------------
(* transform(a, b) is a, adjusted for b having been applied before it.     *)

\* b, already there, stays in front of a at the same position.
TransformII(a, b) ==
    IF b.pos <= a.pos THEN Insert(a.pos + Len(b.text), a.text) ELSE a

\* An insertion strictly inside deleted characters is dropped.
TransformID(a, b) ==
    IF a.pos <= b.pos              THEN a
    ELSE IF a.pos >= b.pos + b.len THEN Insert(a.pos - b.len, a.text)
    ELSE Insert(0, <<>>)

\* A deletion grows to cover a text inserted strictly inside it.
TransformDI(a, b) ==
    IF b.pos >= a.pos + a.len THEN a
    ELSE IF b.pos <= a.pos    THEN Delete(a.pos + Len(b.text), a.len)
    ELSE Delete(a.pos, a.len + Len(b.text))

\* What b deleted is not deleted again.
TransformDD(a, b) ==
    LET aEnd == a.pos + a.len
        bEnd == b.pos + b.len
    IN  IF aEnd <= b.pos                            THEN a
        ELSE IF a.pos >= bEnd                       THEN Delete(a.pos - b.len, a.len)
        ELSE IF a.pos >= b.pos /\ aEnd <= bEnd      THEN Delete(0, 0)
        ELSE IF a.pos <= b.pos /\ aEnd >= bEnd      THEN Delete(a.pos, a.len - b.len)
        ELSE IF a.pos < b.pos                       THEN Delete(a.pos, b.pos - a.pos)
        ELSE Delete(b.pos, aEnd - bEnd)

transform(a, b) ==
    CASE a.type = "I" /\ b.type = "I" -> TransformII(a, b)
      [] a.type = "I" /\ b.type = "D" -> TransformID(a, b)
      [] a.type = "D" /\ b.type = "I" -> TransformDI(a, b)
      [] a.type = "D" /\ b.type = "D" -> TransformDD(a, b)
=============================================================================
