----------------------------- MODULE CollabModel -----------------------------
(***************************************************************************)
(* The simulated editors of the tests (collab_model.cc). An editor repeats *)
(* three steps: it reads its peers' next operations from the database, one *)
(* GET after the other, and takes over the one of the least version, until *)
(* there is none; it may make an edit; and it puts the front of its pending *)
(* operations. GETs and puts are executed in one order by the replicas;    *)
(* their responses may time out, and a put that was answered may be made   *)
(* again, under a new version, when the editor's read of it fails.         *)
(***************************************************************************)
EXTENDS OpAlgebra, FiniteSets, SequencesExt, Functions

CONSTANTS nclients,  \* number of editors (nclients_)
          MaxEdits,  \* bound: the number of edits of an editor
          MaxPuts,   \* bound: the number of puts
          Losses     \* may the response to a GET be lost?

ASSUME EditorsAssumption == nclients \in Nat

Editor == 0..(nclients - 1)

VARIABLES cells,     \* per editor: its operations in the database, by seq: [version, op]
          version,   \* the last version
          es         \* per editor: editor_state, and where its coroutine is

editorVars == <<cells, version, es>>

NoBest == [peer |-> -1, version |-> 0, op |-> Delete(0, 0)]

Start == [pc |-> "sync", peer |-> 0, best |-> NoBest, local_text |-> <<>>, pending |-> <<>>,
          pending_seqs |-> <<>>, next_seq |-> 0, peer_next_seq |-> [p \in Editor |-> 0]]

EditorsInit ==
    /\ cells = [p \in Editor |-> <<>>]
    /\ version = 0
    /\ es = [e \in Editor |-> Start]

\* Faulty variant: an own operation that was found in the database stays pending.
MutantPopOwn(s) == s

-----------------------------------------------------------------------------
Older(v, best) == best = NoBest \/ v < best.version

\* The response to the GET of peer p's next operation, if there is one.
Get(e, p) ==
    LET s == es[e]
    IN  /\ s.pc = "sync"
        /\ s.peer = p
        /\ es' = [es EXCEPT ![e] = [s EXCEPT !.peer = p + 1, !.best =
                    IF s.peer_next_seq[p] < Len(cells[p])
                    THEN LET cell == cells[p][s.peer_next_seq[p] + 1]
                         IN  IF Older(cell.version, @) THEN [peer |-> p, version |-> cell.version, op |-> cell.op] ELSE @
                    ELSE @]]
        /\ UNCHANGED <<cells, version>>

\* No response in time, or a redirection: the peer is passed over.
GetLost(e, p) ==
    /\ Losses
    /\ es[e].pc = "sync"
    /\ es[e].peer = p
    /\ es' = [es EXCEPT ![e].peer = p + 1]
    /\ UNCHANGED <<cells, version>>

\* The own operation at the front of pending has been committed.
PopOwn(s) == [s EXCEPT !.pending = Tail(@), !.pending_seqs = Tail(@)]

\* All peers were asked: take over the best operation and start again, or go on.
sync_committed_ops(e) ==
    LET s    == es[e]
        best == s.best
        next == [s EXCEPT !.peer = 0, !.best = NoBest, !.peer_next_seq[best.peer] = @ + 1]
    IN  /\ s.pc = "sync"
        /\ s.peer = nclients
        /\ es' = [es EXCEPT ![e] =
             IF best = NoBest THEN [s EXCEPT !.pc = "edit", !.peer = 0]
             ELSE IF best.peer # e
             THEN [next EXCEPT !.local_text = apply_op(@, best.op),
                               !.pending = [i \in DOMAIN @ |-> transform(@[i], best.op)]]
             ELSE IF s.pending # <<>> /\ Head(s.pending_seqs) = s.peer_next_seq[e] THEN PopOwn(next)
             ELSE next]
        /\ UNCHANGED <<cells, version>>

\* Step 2: an edit inside the local text, or none.
Edits(text) ==
    {Insert(pos, <<c>>) : pos \in 0..Len(text), c \in {1, 2}}
      \cup {Delete(pos, 1) : pos \in 0..(Len(text) - 1)}

Edit(e) ==
    /\ es[e].pc = "edit"
    /\ \/ es' = [es EXCEPT ![e].pc = "put"]
       \/ /\ es[e].next_seq < MaxEdits
          /\ \E op \in Edits(es[e].local_text) :
               es' = [es EXCEPT ![e] = [es[e] EXCEPT !.pc = "put", !.local_text = apply_op(@, op), !.next_seq = @ + 1,
                                                     !.pending = Append(@, op), !.pending_seqs = Append(@, es[e].next_seq)]]
    /\ UNCHANGED <<cells, version>>

\* Step 3: the front of pending is put until the put is answered. It is
\* executed once, under its serial.
Put(e) ==
    LET s   == es[e]
        seq == Head(s.pending_seqs)
        op  == [version |-> version + 1, op |-> Head(s.pending)]
    IN  /\ s.pc = "put"
        /\ s.pending # <<>>
        /\ version < MaxPuts
        /\ version' = version + 1
        /\ cells' = [cells EXCEPT ![e] = IF seq < Len(@) THEN [@ EXCEPT ![seq + 1] = op] ELSE Append(@, op)]
        /\ es' = [es EXCEPT ![e].pc = "sync"]

NothingToPut(e) ==
    /\ es[e].pc = "put"
    /\ es[e].pending = <<>>
    /\ es' = [es EXCEPT ![e].pc = "sync"]
    /\ UNCHANGED <<cells, version>>

editor(e) ==
    \/ \E p \in Editor : Get(e, p) \/ GetLost(e, p)
    \/ sync_committed_ops(e)
    \/ Edit(e)
    \/ Put(e)
    \/ NothingToPut(e)

EditorsNext == \E e \in Editor : editor(e)

EditorsSpec == EditorsInit /\ [][EditorsNext]_editorVars

-----------------------------------------------------------------------------
(***************************************************************************)
(* An editor's pending operations are exactly those of its own that it has *)
(* not yet read back, in order: whatever reads fail and however often a    *)
(* put is made again, none is forgotten and none is put after it was read. *)
(***************************************************************************)
PendingExact ==
    \A e \in Editor : LET s == es[e]
                      IN  /\ Len(s.pending_seqs) = Len(s.pending)
                          /\ s.pending_seqs = [i \in 1..(s.next_seq - s.peer_next_seq[e]) |-> s.peer_next_seq[e] + i - 1]
                          /\ Len(cells[e]) \in {s.peer_next_seq[e], s.peer_next_seq[e] + 1}

=============================================================================
