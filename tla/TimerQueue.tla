----------------------------- MODULE TimerQueue -----------------------------
(***************************************************************************)
(* What the event loop expects of timed_, the queue of its timers: the     *)
(* timer taken next is the one with the earliest time, the one set first   *)
(* among equals; a timer is lost only when nobody waits for its event any  *)
(* more or when the queue is cleared.  The loop's use of it is in          *)
(* cotamer.cc (driver::loop, process_clearing) and in driver::schedule of  *)
(* cotamer_impl.hh; TimerHeap is the implementation.                       *)
(***************************************************************************)
EXTENDS Naturals

CONSTANTS
    Time,       \* the times a timer may be set for
    MaxSet      \* bound: timers set in all

VARIABLES
    timers,     \* the timers of the queue, records [n, when], n counts the calls
    unwanted,   \* the numbers of the timers nobody waits for
    last        \* the number of the last timer set

qvars == <<timers, unwanted, last>>

Timer == [n : 1..MaxSet, when : Time]

\* a is due before b.
Before(a, b) == a.when < b.when \/ (a.when = b.when /\ a.n < b.n)

IsTop(t) == t \in timers /\ \A u \in timers \ {t} : Before(t, u)

QInit == timers = {} /\ unwanted = {} /\ last = 0

\* Setting a timer may drop unwanted ones, to keep the queue small.
Set(when) ==
    /\ last < MaxSet
    /\ last' = last + 1
    /\ \E dropped \in SUBSET {t \in timers : t.n \in unwanted} :
        timers' = (timers \ dropped) \union {[n |-> last + 1, when |-> when]}
    /\ UNCHANGED unwanted

TakeTop ==
    /\ \E t \in timers : IsTop(t) /\ timers' = timers \ {t}
    /\ UNCHANGED <<unwanted, last>>

\* The unwanted timers ahead of every wanted one are dropped.
DropLeading ==
    /\ timers' = {t \in timers : \E u \in timers : u.n \notin unwanted /\ ~Before(t, u)}
    /\ UNCHANGED <<unwanted, last>>

Clear == timers' = {} /\ UNCHANGED <<unwanted, last>>

Abandon(t) == t.n \notin unwanted /\ unwanted' = unwanted \union {t.n} /\ UNCHANGED <<timers, last>>

QNext ==
    \/ \E when \in Time : Set(when)
    \/ TakeTop \/ DropLeading \/ Clear
    \/ \E t \in timers : Abandon(t)

QSpec == QInit /\ [][QNext]_qvars
=============================================================================
