------------------------------- MODULE DocOps -------------------------------
(***************************************************************************)
(* The operational-transformation engine (doc_ops.cc) at work on the       *)
(* operations of OpAlgebra.                                                *)
(*                                                                         *)
(* The state machine follows one operation of one author: the author has   *)
(* applied `orig' to the document, other authors' operations commit one    *)
(* after the other, and the author's is transformed against each of them   *)
(* (transform_seq). On the author's side each of them is transformed       *)
(* against the author's, which is the other path of the tests' `diamond'.  *)
(* The clients' own bookkeeping around the engine is not part of this.     *)
(***************************************************************************)
EXTENDS OpAlgebra

CONSTANTS Char,       \* the characters of a document
          Docs,       \* the documents an author may start from
          MaxCommits, \* bound: how many operations of others commit meanwhile
          Texts       \* Texts[0]: what the author may insert; Texts[k]: what the
                      \* author of the k-th committed operation may insert

ASSUME DocsAssumption    == Docs \subseteq Seq(Char)
ASSUME CommitsAssumption == MaxCommits \in Nat
ASSUME TextsAssumption   == Texts \in [0..MaxCommits -> SUBSET Seq(Char)]

VARIABLES doc,    \* the document when the author made its edit
          orig,   \* the author's operation, as it was made
          text,   \* doc with the committed operations applied, in their order
          pend,   \* orig, transformed against the committed operations
          view,   \* what the author sees: doc, its own operation, then the
                  \* committed ones transformed against its own
          commits \* how many operations of others have committed

vars == <<doc, orig, text, pend, view, commits>>

-----------------------------------------------------------------------------
Inserts == [type : {"I"}, pos : Nat, text : Seq(Char)]
Deletes == [type : {"D"}, pos : Nat, len : Nat]
Op      == Inserts \cup Deletes

-----------------------------------------------------------------------------
(* The operations an author can make on a text t are within it.            *)
InRange(op, t) ==
    IF op.type = "I" THEN op.pos <= Len(t) ELSE op.pos + op.len <= Len(t)

OpsOn(t, texts) ==
    {op \in {Insert(pos, txt) : pos \in 0..Len(t), txt \in texts}
              \cup {Delete(pos, len) : pos \in 0..Len(t), len \in 0..Len(t)} : InRange(op, t)}

\* Two texts inserted at one place: without the authors' identities their
\* order cannot be agreed on, and doc_ops.hh excludes the case.
Tie(a, b) ==
    /\ a.type = "I" /\ b.type = "I"
    /\ a.pos = b.pos
    /\ a.text # <<>> /\ b.text # <<>>

Init ==
    /\ doc \in Docs
    /\ orig \in OpsOn(doc, Texts[0])
    /\ text = doc
    /\ pend = orig
    /\ view = apply_op(doc, orig)
    /\ commits = 0

\* Another author's operation, made on the committed text, commits.
Commit(b) ==
    /\ ~Tie(pend, b)
    /\ text' = apply_op(text, b)
    /\ pend' = transform(pend, b)
    /\ view' = apply_op(view, transform(b, pend))
    /\ commits' = commits + 1
    /\ UNCHANGED <<doc, orig>>

Next == commits < MaxCommits /\ \E b \in OpsOn(text, Texts[commits + 1]) : Commit(b)

Spec == Init /\ [][Next]_vars

-----------------------------------------------------------------------------
(* Type correctness. *)
TypeOK ==
    /\ doc \in Docs
    /\ text \in Seq(Char)
    /\ view \in Seq(Char)
    /\ orig \in Op
    /\ pend \in Op
    /\ commits \in 0..MaxCommits

(***************************************************************************)
(* The diamond (doc_ops.hh, "Transform convention"; tested on single pairs *)
(* by `diamond' in doc_ops.cc): applying the committed operations and then *)
(* the transformed pending one gives the very text the author reaches by   *)
(* applying its own operation first and the others, transformed, after it, *)
(* however many operations commit in between.                              *)
(***************************************************************************)
Diamond == view = apply_op(text, pend)

(***************************************************************************)
(* A transformed operation stays inside the text it is applied to, so that *)
(* apply_op's silent clamping never hides a wrong position or length.      *)
(***************************************************************************)
NoClamp == InRange(pend, text)

Chars(t) == {t[i] : i \in 1..Len(t)}

\* No character occurs twice, so that a character tells where it comes from.
Injective(t) == \A i, j \in 1..Len(t) : t[i] = t[j] => i = j

\* The documents and the texts of different authors have no character in common:
\* the properties below tell by its characters what has become of a piece of text.
CharactersDiffer ==
    /\ \A t \in Docs : Injective(t)
    /\ \A k \in 0..MaxCommits : \A x \in Texts[k] :
        /\ Injective(x)
        /\ \A t \in Docs : Chars(t) \cap Chars(x) = {}
        /\ \A l \in 0..MaxCommits : \A y \in Texts[l] : l # k => Chars(x) \cap Chars(y) = {}

\* What the author meant to have, and what everybody gets.
Intent == apply_op(doc, orig)
Merged == apply_op(text, pend)

(***************************************************************************)
(* No deletion is lost and none is widened over an original character: an  *)
(* original character is in the merged text just when neither the author's *)
(* operation nor a committed one deleted it (all six overlaps of           *)
(* transform's delete/delete case).                                        *)
(***************************************************************************)
DeletesMerged ==
    \A c \in Chars(doc) : c \in Chars(Merged) <=> c \in Chars(text) \cap Chars(Intent)

(***************************************************************************)
(* What is left of the author's document stands in the order the author    *)
(* gave it: transforming never moves an inserted text across a surviving   *)
(* character.                                                              *)
(***************************************************************************)
OrderKept ==
    \A i \in 1..Len(Intent), k \in 1..Len(Merged) : Intent[i] = Merged[k] =>
        \A j \in 1..Len(Intent), l \in 1..Len(Merged) : Intent[j] = Merged[l] =>
            (i < j <=> k < l)

(***************************************************************************)
(* The insert/delete rule drops an insertion only when both characters it  *)
(* was made between have been deleted: one that still has a neighbour, or  *)
(* was made at an end of the document, is in the merged text as a whole.   *)
(***************************************************************************)
InsertKept ==
    (/\ orig.type = "I"
     /\ \/ orig.pos \in {0, Len(doc)}
        \/ doc[orig.pos] \in Chars(text)
        \/ doc[orig.pos + 1] \in Chars(text))
      => Chars(orig.text) \subseteq Chars(Merged)

(***************************************************************************)
(* Transforming keeps what the author meant by its operation: deletions    *)
(* are neither lost nor widened, nothing is moved, and no insertion is     *)
(* dropped that still has its place.                                       *)
(***************************************************************************)
IntentionKept == DeletesMerged /\ OrderKept /\ InsertKept
=============================================================================
