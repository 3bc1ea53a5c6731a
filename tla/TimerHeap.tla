----------------------------- MODULE TimerHeap ------------------------------
(***************************************************************************)
(* timer_heap (cotamer/timer_heap.hh): the timers of a driver as a heap of *)
(* arity 4 in an array.  Ties between equal times are broken by the order  *)
(* of insertion, kept as a circular integer (circular_int.hh) that wraps   *)
(* around; a driver that has set many timers starts anywhere below the     *)
(* wrap.  The element emplace looks at for a timer nobody waits for is     *)
(* chosen by a pseudo-random number, here by any position.  Growing the    *)
(* array (expand) changes no element and is left out.                      *)
(***************************************************************************)
EXTENDS Integers, Sequences, FiniteSets

CONSTANTS
    Time,           \* the times a timer may be set for
    MaxSet,         \* bound: timers set in all
    MaxUnwanted,    \* bound: timers nobody waits for any more
    Modulus,        \* 2^32 in the code: the values of an insertion number
    FirstOrder,     \* the order_ of the empty heap at the start
    arity,          \* 4 in the code
    CullSize        \* 32 in the code: the size at which emplace looks for empty timers

\* static_assert(arity >= 2)
ASSUME HeapAssumption ==
    /\ Time \subseteq Int /\ MaxSet \in Nat
    /\ Modulus \in Nat \ {0, 1} /\ FirstOrder \in 0..(Modulus - 1)
    /\ arity \in Nat \ {0, 1} /\ CullSize \in Nat \ {0}

VARIABLES
    es_,        \* the array: elements [when, order, n], n the count of emplace calls
    order_,     \* the last insertion number given, modulo Modulus
    empty,      \* the counts n of the elements whose event is empty
    calls       \* the emplace calls so far

heapVars == <<es_, order_, empty, calls>>

\* Mutants, one plausible slip of the code each.
MutantOrderLess(a, b) == a < b

\* circular_int <=>: difference_type(a - b) < 0.
OrderLess(a, b) == a # b /\ (a - b) % Modulus >= Modulus \div 2

\* element::operator<
Less(a, b) == a.when < b.when \/ (a.when = b.when /\ OrderLess(a.order, b.order))

\* Positions count from 0 as in the code.
At(s, i) == s[i + 1]
Swap(s, i, j) == [s EXCEPT ![i + 1] = s[j + 1], ![j + 1] = s[i + 1]]

heap_parent(i) == (i - (IF arity = 2 THEN 1 ELSE 0)) \div arity

heap_first_child(i) == i * arity + (IF arity = 2 \/ i = 0 THEN 1 ELSE 0)

heap_last_child(i, s) ==
    LET p == i * arity + arity + (IF arity = 2 THEN 1 ELSE 0) IN IF p < Len(s) THEN p ELSE Len(s)

\* A turn of a loop that moves an element through the heap: h has the array
\* and the position of the element.
MoveTo(h, pos) == [es |-> Swap(h.es, h.pos, pos), pos |-> pos]

TurnUp(h) ==
    IF h.pos = 0 \/ ~Less(At(h.es, h.pos), At(h.es, heap_parent(h.pos))) THEN h
    ELSE MoveTo(h, heap_parent(h.pos))

\* "Swap trec to proper position in heap": no element takes more turns than there
\* are positions.
SiftUp(s, pos) ==
    LET h[k \in 0..Len(s)] == IF k = 0 THEN [es |-> s, pos |-> pos] ELSE TurnUp(h[k - 1])
    IN  h[Len(s)].es

\* The smallest of an element and its children, the first loop of hard_cull.
Smallest(s, pos) ==
    LET family == {pos} \union heap_first_child(pos)..(heap_last_child(pos, s) - 1)
    IN CHOOSE m \in family : \A t \in family : ~Less(At(s, t), At(s, m))

TurnDown(h) ==
    IF Smallest(h.es, h.pos) = h.pos THEN h ELSE MoveTo(h, Smallest(h.es, h.pos))

SiftDown(s, pos) ==
    LET h[k \in 0..Len(s)] == IF k = 0 THEN [es |-> s, pos |-> pos] ELSE TurnDown(h[k - 1])
    IN  h[Len(s)].es

\* A mutant: the element moved into the gap only ever sinks.
MutantHardCull(s, pos) ==
    LET size == Len(s) - 1
        cut == SubSeq(Swap(s, size, pos), 1, size)
    IN IF pos = size THEN cut ELSE SiftDown(cut, pos)

hard_cull(s, pos) ==
    LET size == Len(s) - 1
        cut == SubSeq(Swap(s, size, pos), 1, size)
    IN CASE pos = size -> cut
         [] pos # size /\ (pos = 0 \/ ~Less(At(cut, pos), At(cut, heap_parent(pos)))) -> SiftDown(cut, pos)
         [] OTHER -> SiftUp(cut, pos)

MutantIsEmpty(e) == e.n + 1 \in empty

IsEmpty(e) == e.n \in empty

\* The positions whose element nobody waits for.
Dead(s) == {pos \in 0..(Len(s) - 1) : IsEmpty(At(s, pos))}

\* What one more look of emplace at a random position may make of the heaps.
TurnCull(heaps) ==
    UNION {{hard_cull(s, pos) : pos \in Dead(s)} : s \in {u \in heaps : Len(u) >= CullSize}}

\* emplace stops looking when it finds an element that is not empty, or when the
\* heap is small.
LooksOver(s) == Len(s) < CullSize \/ \E pos \in 0..(Len(s) - 1) : pos \notin Dead(s)

\* The heaps emplace may reach by looking at random positions.
Culled(s) ==
    LET heaps[k \in 0..Len(s)] == IF k = 0 THEN {s} ELSE TurnCull(heaps[k - 1])
    IN  {u \in UNION {heaps[k] : k \in 0..Len(s)} : LooksOver(u)}

TurnTop(s) == IF s # <<>> /\ IsEmpty(At(s, 0)) THEN hard_cull(s, 0) ELSE s

CullTop(s) ==
    LET h[k \in 0..Len(s)] == IF k = 0 THEN s ELSE TurnTop(h[k - 1])
    IN  h[Len(s)]

HeapInit == es_ = <<>> /\ order_ = FirstOrder /\ empty = {} /\ calls = 0

emplace(when) ==
    /\ calls < MaxSet
    /\ calls' = calls + 1
    /\ order_' = (order_ + 1) % Modulus
    /\ \E s \in Culled(es_) :
        es_' = SiftUp(Append(s, [when |-> when, order |-> order_', n |-> calls']), Len(s))
    /\ UNCHANGED empty

pop == es_ # <<>> /\ es_' = hard_cull(es_, 0) /\ UNCHANGED <<order_, empty, calls>>

cull == es_' = CullTop(es_) /\ UNCHANGED <<order_, empty, calls>>

clear == es_' = <<>> /\ UNCHANGED <<order_, empty, calls>>

\* The last waiter of the event of an element goes away.
LastWaiterGone(i) ==
    /\ Cardinality(empty) < MaxUnwanted
    /\ ~IsEmpty(es_[i])
    /\ empty' = empty \union {es_[i].n}
    /\ UNCHANGED <<es_, order_, calls>>

HeapNext ==
    \/ \E when \in Time : emplace(when)
    \/ pop \/ cull \/ clear
    \/ \E i \in DOMAIN es_ : LastWaiterGone(i)

HeapSpec == HeapInit /\ [][HeapNext]_heapVars
-----------------------------------------------------------------------------

Queue == INSTANCE TimerQueue WITH
    timers <- {[n |-> es_[i].n, when |-> es_[i].when] : i \in DOMAIN es_},
    unwanted <- empty,
    last <- calls

\* timer_heap implements the queue of timers driver::loop relies on: top and
\* pop give the earliest timer and the oldest among equals, also across the wrap
\* of order_, and emplace and cull lose no timer somebody waits for.
ImplementsQueue == Queue!QSpec
=============================================================================
