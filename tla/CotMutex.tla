------------------------------ MODULE CotMutex ------------------------------
(***************************************************************************)
(* The coroutine mutex of cotamer (cotamer.hh, cotamer_impl.hh,            *)
(* cotamer.cc): a shared/exclusive lock whose whole state is one atomic    *)
(* word, latch_, and a queue of events, waiters_, which the latch bit of   *)
(* the word protects.  Threads interleave at the atomic operations on the  *)
(* word and at the triggers of the waiters' events, which the waiter on    *)
(* its own thread sees at once.  A thread that waits may give up, as a     *)
(* coroutine does when a timeout wins against the lock or when it is       *)
(* destroyed: some time later it drops its event and the queue keeps an    *)
(* entry nobody wants, unless the lock was granted to it in between.       *)
(*                                                                         *)
(* The threads of Guarded lock through unique_lock::lock/shared_lock::lock *)
(* of a deferred guard, so the mutex sets the guard's owned_ flag; the     *)
(* others write `unique_lock guard(co_await m.lock())`.                    *)
(*                                                                         *)
(* A lock is lost when its caller goes without unlocking: it gave up and   *)
(* was granted the lock all the same, or its guard was destroyed before    *)
(* the mutex had set the flag.  Nobody unlocks for it then.                *)
(***************************************************************************)
EXTENDS Naturals, Sequences, FiniteSets

CONSTANTS
    Thread,     \* the threads, one coroutine on each
    Rounds,     \* bound: locks a thread asks for
    Guarded     \* the threads that lock through a deferred guard

VARIABLES
    latch_,     \* the atomic word, see the mf_ constants
    waiters_,   \* the queued calls, each a pair <<thread, round>>
    mutexPc,         \* where each thread is
    reg,        \* its local copy of the word, l in the code
    shared,     \* the kind of lock of its current call
    round,      \* calls it has made
    ev,         \* the event of each call: "none", "live", "dropped", "triggered"
    owned_,     \* the owned_ flag of the guard of each call
    lost        \* the calls whose lock is lost, which the code does not record

mutexVars == <<latch_, waiters_, mutexPc, reg, shared, round, ev, owned_, lost>>

mf_latch       == 1
mf_next_excl   == 2
mf_next_shared == 4
mf_lock_excl   == 8
mf_lock_shared == 16

Call == Thread \X (1..Rounds)

\* l & b, for a power of two b.
Bit(l, b) == (l \div b) % 2 = 1

LockUnit(s) == IF s THEN mf_lock_shared ELSE mf_lock_excl

\* Mutants, one plausible slip of the code each.
MutantTryLock(s) ==
    IF s THEN ~(\E b \in {mf_latch, mf_next_shared, mf_lock_excl} : Bit(latch_, b)) ELSE latch_ = 0
MutantAllow(s, l) == IF s THEN TRUE ELSE l < mf_lock_excl
MutantFastUnlock(s, l) == ~Bit(l, mf_latch) /\ ~Bit(l, mf_next_shared) /\ (s \/ ~Bit(l, mf_next_excl))
MutantLatched(l) == l

allow(s, l) == IF s THEN ~Bit(l, mf_lock_excl) ELSE l < mf_lock_excl

\* What unlatch adds for the first entry of the queue.
NextBits(w) ==
    IF w = <<>> THEN 0
    ELSE IF shared[Head(w)] THEN mf_next_shared ELSE mf_next_excl

\* The word as latch() returns it: without the next bits.
Latched(l) == (l \div mf_lock_excl) * mf_lock_excl

try_lock(s) ==
    IF s THEN ~(\E b \in {mf_latch, mf_next_excl, mf_next_shared, mf_lock_excl} : Bit(latch_, b))
    ELSE latch_ = 0

\* The words the fast path of unlock or unlock_shared accepts.
FastUnlock(s, l) ==
    /\ ~Bit(l, mf_latch) /\ ~Bit(l, mf_next_shared)
    /\ ~Bit(l, mf_next_excl) \/ (s /\ l >= 2 * mf_lock_shared)

Cur(t) == <<t, round[t]>>

MutexInit ==
    /\ latch_ = 0
    /\ waiters_ = <<>>
    /\ mutexPc = [t \in Thread |-> "idle"]
    /\ reg = [t \in Thread |-> 0]
    /\ shared = [c \in Call |-> FALSE]
    /\ round = [t \in Thread |-> 0]
    /\ ev = [c \in Call |-> "none"]
    /\ owned_ = [c \in Call |-> FALSE]
    /\ lost = {}

\* mutex::lock, mutex::lock_shared, up to the latch of lock_impl.
lock(t, s) ==
    /\ mutexPc[t] = "idle" /\ round[t] < Rounds
    /\ round' = [round EXCEPT ![t] = @ + 1]
    /\ shared' = [shared EXCEPT ![Cur(t)'] = s]
    /\ mutexPc' = [mutexPc EXCEPT ![t] = "lock"]
    /\ UNCHANGED <<latch_, waiters_, reg, ev, owned_, lost>>

\* try_lock, try_lock_shared when they succeed: one compare-and-exchange.
TryLock(t, s) ==
    /\ mutexPc[t] = "idle" /\ round[t] < Rounds
    /\ try_lock(s)
    /\ latch_' = latch_ + LockUnit(s)
    /\ round' = [round EXCEPT ![t] = @ + 1]
    /\ shared' = [shared EXCEPT ![Cur(t)'] = s]
    /\ ev' = [ev EXCEPT ![Cur(t)'] = "triggered"]
    /\ owned_' = [owned_ EXCEPT ![Cur(t)'] = TRUE]
    /\ mutexPc' = [mutexPc EXCEPT ![t] = "held"]
    /\ UNCHANGED <<waiters_, reg, lost>>

\* latch(), at the head of lock_impl.
LatchLock(t) ==
    /\ mutexPc[t] = "lock" /\ ~Bit(latch_, mf_latch)
    /\ latch_' = latch_ + mf_latch
    /\ reg' = [reg EXCEPT ![t] = Latched(latch_)]
    /\ mutexPc' = [mutexPc EXCEPT ![t] = "notify_lock"]
    /\ UNCHANGED <<waiters_, shared, round, ev, owned_, lost>>

\* latch(), at the head of unlock_impl, and the lock given back.
LatchUnlock(t) ==
    /\ mutexPc[t] = "unlock_impl" /\ ~Bit(latch_, mf_latch)
    /\ latch_' = latch_ + mf_latch
    /\ reg' = [reg EXCEPT ![t] = Latched(latch_) - LockUnit(shared[Cur(t)])]
    /\ mutexPc' = [mutexPc EXCEPT ![t] = "notify_unlock"]
    /\ UNCHANGED <<waiters_, shared, round, ev, owned_, lost>>

Notifying(t) == mutexPc[t] \in {"notify_lock", "notify_unlock"}

\* notify_locked: the first event is empty, nobody waits for it any more.
SkipDropped(t) ==
    /\ Notifying(t) /\ waiters_ # <<>>
    /\ ev[Head(waiters_)] = "dropped"
    /\ waiters_' = Tail(waiters_)
    /\ UNCHANGED <<latch_, mutexPc, reg, shared, round, ev, owned_, lost>>

\* notify_locked: the first event is triggered and its caller has the lock;
\* a guard's flag is set after the trigger, in a step of its own.
GrantNext(t) ==
    /\ Notifying(t) /\ waiters_ # <<>>
    /\ LET c == Head(waiters_) IN
        /\ ev[c] = "live"
        /\ allow(shared[c], reg[t])
        /\ ev' = [ev EXCEPT ![c] = "triggered"]
        /\ reg' = [reg EXCEPT ![t] = @ + LockUnit(shared[c])]
        /\ IF c[1] \in Guarded
           THEN /\ mutexPc' = [mutexPc EXCEPT ![t] = IF @ = "notify_lock" THEN "flag_lock" ELSE "flag_unlock"]
                /\ UNCHANGED waiters_
           ELSE waiters_' = Tail(waiters_) /\ UNCHANGED mutexPc
    /\ UNCHANGED <<latch_, shared, round, owned_, lost>>

\* notify_locked: *fw.second = true, and the entry leaves the queue.
SetOwned(t) ==
    /\ mutexPc[t] \in {"flag_lock", "flag_unlock"}
    /\ owned_' = [owned_ EXCEPT ![Head(waiters_)] = TRUE]
    /\ waiters_' = Tail(waiters_)
    /\ mutexPc' = [mutexPc EXCEPT ![t] = IF @ = "flag_lock" THEN "notify_lock" ELSE "notify_unlock"]
    /\ UNCHANGED <<latch_, reg, shared, round, ev, lost>>

\* notify_locked has nothing left to do.
Settled(t) ==
    waiters_ # <<>> => ev[Head(waiters_)] = "live" /\ ~allow(shared[Head(waiters_)], reg[t])

\* The rest of lock_impl: take the lock or join the queue, then unlatch.
FinishLock(t) ==
    /\ mutexPc[t] = "notify_lock" /\ Settled(t)
    /\ LET s == shared[Cur(t)] IN
        IF waiters_ = <<>> /\ allow(s, reg[t])
        THEN /\ ev' = [ev EXCEPT ![Cur(t)] = "triggered"]
             /\ owned_' = [owned_ EXCEPT ![Cur(t)] = TRUE]
             /\ mutexPc' = [mutexPc EXCEPT ![t] = "held"]
             /\ latch_' = reg[t] + LockUnit(s)
             /\ UNCHANGED waiters_
        ELSE /\ ev' = [ev EXCEPT ![Cur(t)] = "live"]
             /\ waiters_' = Append(waiters_, Cur(t))
             /\ mutexPc' = [mutexPc EXCEPT ![t] = "waiting"]
             /\ latch_' = reg[t] + NextBits(waiters_')
             /\ UNCHANGED owned_
    /\ UNCHANGED <<reg, shared, round, lost>>

\* The rest of unlock_impl: unlatch.
FinishUnlock(t) ==
    /\ mutexPc[t] = "notify_unlock" /\ Settled(t)
    /\ latch_' = reg[t] + NextBits(waiters_)
    /\ mutexPc' = [mutexPc EXCEPT ![t] = "idle"]
    /\ UNCHANGED <<waiters_, reg, shared, round, ev, owned_, lost>>

\* The waiting coroutine is resumed on its own thread; a guard constructed from
\* the result of co_await owns the lock, a deferred guard has what the mutex set.
Resume(t) ==
    /\ mutexPc[t] = "waiting" /\ ev[Cur(t)] = "triggered"
    /\ mutexPc' = [mutexPc EXCEPT ![t] = "held"]
    /\ owned_' = [owned_ EXCEPT ![Cur(t)] = @ \/ t \notin Guarded]
    /\ UNCHANGED <<latch_, waiters_, reg, shared, round, ev, lost>>

\* The waiting coroutine gives up: attempt(mutex_event) has found its event not
\* triggered, or its task is destroyed, be the event triggered or not.
GiveUp(t) ==
    /\ mutexPc[t] = "waiting"
    /\ mutexPc' = [mutexPc EXCEPT ![t] = "leaving"]
    /\ UNCHANGED <<latch_, waiters_, reg, shared, round, ev, owned_, lost>>

\* Its references to the event go.  If the event was triggered meanwhile, a
\* deferred guard is left to be destroyed; otherwise nobody is left to unlock.
Drop(t) ==
    /\ mutexPc[t] = "leaving"
    /\ \/ /\ ev[Cur(t)] = "live"
          /\ ev' = [ev EXCEPT ![Cur(t)] = "dropped"]
          /\ mutexPc' = [mutexPc EXCEPT ![t] = "idle"]
          /\ UNCHANGED lost
       \/ /\ ev[Cur(t)] = "triggered" /\ t \in Guarded
          /\ mutexPc' = [mutexPc EXCEPT ![t] = "held"]
          /\ UNCHANGED <<ev, lost>>
       \/ /\ ev[Cur(t)] = "triggered" /\ t \notin Guarded
          /\ lost' = lost \union {Cur(t)}
          /\ mutexPc' = [mutexPc EXCEPT ![t] = "idle"]
          /\ UNCHANGED ev
    /\ UNCHANGED <<latch_, waiters_, reg, shared, round, owned_>>

\* A guard calls unlock or unlock_shared of its mutex, when it is told to or
\* when it is destroyed or assigned over, only while its owned_ flag is set;
\* moving or swapping guards moves the flag along.
unique_lock(t) == ~shared[Cur(t)] /\ owned_[Cur(t)]
shared_lock(t) == shared[Cur(t)] /\ owned_[Cur(t)]

\* A guard is destroyed, or told to unlock and throws, while its flag is not set.
DestroyUnowned(t) ==
    /\ mutexPc[t] = "held" /\ ~owned_[Cur(t)]
    /\ lost' = lost \union {Cur(t)}
    /\ mutexPc' = [mutexPc EXCEPT ![t] = "idle"]
    /\ UNCHANGED <<latch_, waiters_, reg, shared, round, ev, owned_>>

\* unlock, unlock_shared: the load of the word.
UnlockLoad(t) ==
    /\ mutexPc[t] = "held"
    /\ unique_lock(t) \/ shared_lock(t)
    /\ reg' = [reg EXCEPT ![t] = latch_]
    /\ mutexPc' = [mutexPc EXCEPT ![t] = IF FastUnlock(shared[Cur(t)], latch_) THEN "cas" ELSE "unlock_impl"]
    /\ UNCHANGED <<latch_, waiters_, shared, round, ev, owned_, lost>>

\* unlock, unlock_shared: the compare-and-exchange of the fast path.
UnlockCas(t) ==
    /\ mutexPc[t] = "cas"
    /\ IF latch_ = reg[t]
       THEN /\ latch_' = latch_ - LockUnit(shared[Cur(t)])
            /\ mutexPc' = [mutexPc EXCEPT ![t] = "idle"]
       ELSE /\ mutexPc' = [mutexPc EXCEPT ![t] = "unlock_impl"]
            /\ UNCHANGED latch_
    /\ UNCHANGED <<waiters_, reg, shared, round, ev, owned_, lost>>

\* The steps a thread takes by itself once it has called the mutex.
Step(t) ==
    \/ LatchLock(t) \/ LatchUnlock(t) \/ SkipDropped(t) \/ GrantNext(t) \/ SetOwned(t)
    \/ FinishLock(t) \/ FinishUnlock(t) \/ Resume(t) \/ UnlockLoad(t) \/ UnlockCas(t)

MutexNext ==
    \E t \in Thread :
        \/ Step(t)
        \/ GiveUp(t) \/ Drop(t) \/ DestroyUnowned(t)
        \/ \E s \in BOOLEAN : lock(t, s) \/ TryLock(t, s)

MutexSpec == MutexInit /\ [][MutexNext]_mutexVars

-----------------------------------------------------------------------------
\* The threads whose call has been given the lock and that have not given it back.
Holding(t) ==
    \/ mutexPc[t] \in {"held", "cas", "unlock_impl"}
    \/ mutexPc[t] \in {"waiting", "leaving"} /\ ev[Cur(t)] = "triggered"

\* The calls that have the lock, lost or not.
Has(c) == c \in lost \/ (c = Cur(c[1]) /\ Holding(c[1]))

Live == {i \in 1..Len(waiters_) : ev[waiters_[i]] = "live"}

\* Two calls have the lock at once only if both have it shared: mutex::lock,
\* try_lock and the grants of notify_locked taken together.  What is lost is
\* given to nobody else.
Exclusion ==
    \A c, d \in Call : c # d /\ Has(c) /\ Has(d) => shared[c] /\ shared[d]

\* What the calls that have the lock add to the word.
Holders(s) == {c \in Call : Has(c) /\ shared[c] = s}
HeldUnits ==
    mf_lock_shared * Cardinality(Holders(TRUE)) + mf_lock_excl * Cardinality(Holders(FALSE))

\* Whenever the latch is free the word counts exactly the locks held and lost, and
\* its next bits describe the first entry of the queue: no fast path, slow path,
\* grant or race with a caller that gives up counts a lock twice or not at all.
LatchExact == ~Bit(latch_, mf_latch) => latch_ = NextBits(waiters_) + HeldUnits

\* No wake-up is lost but with a lock: when the latch is free and somebody still
\* waits, a call has the lock, whose unlock, if it is not lost, will look at the
\* queue.
NoLostWakeup ==
    ~Bit(latch_, mf_latch) /\ Live # {} => \E c \in Call : Has(c)

\* The mutex excludes, its word is exact and no wake-up is lost: mutex::lock, the
\* try functions, the two unlock paths and notify_locked together.
MutexSafe == Exclusion /\ LatchExact /\ NoLostWakeup

\* Nobody is overtaken: a call is given the lock only when no entry that is
\* still wanted stands before it in the queue, so a stream of shared locks does
\* not starve an exclusive one.
Overtakes ==
    \E c \in DOMAIN ev :
        /\ ev[c] # "triggered" /\ ev'[c] = "triggered"
        /\ \E i \in Live : \A j \in 1..i : waiters_[j] # c

\* No step of lock, try_lock or notify_locked overtakes a call that still waits.
NoBarging == [][~Overtakes]_mutexVars
=============================================================================
