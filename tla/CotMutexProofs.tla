--------------------------- MODULE CotMutexProofs ---------------------------
(***************************************************************************)
(* Theorems about the mutex of CotMutex, for any finite set of threads and *)
(* any number of calls: it excludes, its word counts the locks held and    *)
(* lost, no wake-up is lost and nobody is overtaken.                       *)
(***************************************************************************)
EXTENDS CotMutex, Integers, FiniteSetTheorems, TLAPS

-----------------------------------------------------------------------------
(* The inductive invariant *)

\* The threads between latch() and unlatch().
HasLatch(t) == mutexPc[t] \in {"notify_lock", "notify_unlock", "flag_lock", "flag_unlock"}

MutexType ==
  /\ latch_ \in Int
  /\ waiters_ \in Seq(Call)
  /\ mutexPc \in [Thread -> {"idle", "lock", "notify_lock", "notify_unlock", "flag_lock",
                        "flag_unlock", "waiting", "leaving", "held", "cas", "unlock_impl"}]
  /\ reg \in [Thread -> Int]
  /\ shared \in [Call -> BOOLEAN]
  /\ round \in [Thread -> 0 .. Rounds]
  /\ ev \in [Call -> {"none", "live", "dropped", "triggered"}]
  /\ owned_ \in [Call -> BOOLEAN]
  /\ lost \subseteq Call

\* A thread that is not idle has made a call.
Called == \A t \in Thread : mutexPc[t] # "idle" => Cur(t) \in Call

\* The queue has calls that were made, not calls to come.
Queued == \A i \in 1 .. Len(waiters_) : waiters_[i][2] <= round[waiters_[i][1]]

\* Whoever still wants the lock waits for it.
LiveWaits ==
  \A c \in Call : ev[c] = "live" => mutexPc[c[1]] \in {"waiting", "leaving"} /\ c = Cur(c[1])

\* Who has lost a lock has left the call, and makes another the next time.
LostLeft ==
  \A c \in lost : c[2] <= round[c[1]] /\ (c = Cur(c[1]) => mutexPc[c[1]] = "idle")

\* The latch is a spin lock: its bit is set while a thread is between latch() and
\* unlatch(), and there is one such thread at most.
LatchHeld ==
  /\ \A t \in Thread : HasLatch(t) => Bit(latch_, mf_latch)
  /\ \A t, u \in Thread : HasLatch(t) /\ HasLatch(u) => t = u

\* The entry whose flag is to be set is still the first of the queue.
Flagged == \A t \in Thread : mutexPc[t] \in {"flag_lock", "flag_unlock"} => waiters_ # <<>>

\* A thread that tries the fast path has found a word that admits it.
FastSeen ==
  \A t \in Thread :
     mutexPc[t] = "cas" => reg[t] \in Int /\ FastUnlock(shared[Cur(t)], reg[t])

\* The thread that has the latch works on a copy of the word that counts the holders.
Counted == \A t \in Thread : HasLatch(t) => reg[t] = HeldUnits

Control == MutexType /\ Called /\ Queued /\ LiveWaits /\ LostLeft /\ LatchHeld /\ Flagged /\ FastSeen

MutexInv == Control /\ Counted /\ MutexSafe

-----------------------------------------------------------------------------
(* Bits of the word *)

LEMMA CallPair ==
  ASSUME NEW c \in Call
  PROVE  c[1] \in Thread /\ c[2] \in 1 .. Rounds /\ c = <<c[1], c[2]>>
  BY DEF Call

LEMMA CallFinite ==
  ASSUME IsFiniteSet(Thread), Rounds \in Nat
  PROVE  IsFiniteSet(Call)
<1>1. IsFiniteSet(1 .. Rounds)
  BY FS_Interval
<1> QED BY <1>1, FS_Product DEF Call

LEMMA NextBitsValue ==
  \A w : NextBits(w) \in {0, 2, 4} /\ (NextBits(w) = 0 <=> w = <<>>)
  BY DEF NextBits, mf_next_shared, mf_next_excl

\* What the bits of a word with m shared and k exclusive locks say.
LEMMA WordBits ==
  ASSUME NEW n \in {0, 2, 4}, NEW m \in Nat, NEW k \in {0, 1}
  PROVE  LET l == n + (16 * m + 8 * k)
         IN  /\ ~Bit(l, mf_latch)
             /\ Bit(l, mf_next_excl) <=> n = 2
             /\ Bit(l, mf_next_shared) <=> n = 4
             /\ Bit(l, mf_lock_excl) <=> k = 1
             /\ Latched(l) = 16 * m + 8 * k
             /\ l < mf_lock_excl <=> (m = 0 /\ k = 0)
  BY DEF Bit, Latched, mf_latch, mf_next_excl, mf_next_shared, mf_lock_excl

LEMMA SetLatch ==
  ASSUME NEW l \in Int, ~Bit(l, mf_latch)
  PROVE  Bit(l + mf_latch, mf_latch)
  BY DEF Bit, mf_latch

-----------------------------------------------------------------------------
(* Counting the holders *)

\* The word that counts the holders, when they exclude each other.
LEMMA UnitsValue ==
  ASSUME IsFiniteSet(Call), Exclusion, Control
  PROVE  \E m \in Nat, k \in {0, 1} :
            /\ HeldUnits = 16 * m + 8 * k
            /\ k = 0 <=> Holders(FALSE) = {}
            /\ m = 0 <=> Holders(TRUE) = {}
            /\ m = Cardinality(Holders(TRUE))
<1>1. /\ IsFiniteSet(Holders(TRUE)) /\ IsFiniteSet(Holders(FALSE))
      /\ Holders(TRUE) \subseteq Call /\ Holders(FALSE) \subseteq Call
  BY FS_Subset DEF Holders
<1>2. /\ Cardinality(Holders(TRUE)) \in Nat /\ Cardinality(Holders(FALSE)) \in Nat
  BY <1>1, FS_CardinalityType
<1>3. /\ Cardinality(Holders(TRUE)) = 0 <=> Holders(TRUE) = {}
      /\ Cardinality(Holders(FALSE)) = 0 <=> Holders(FALSE) = {}
  BY <1>1, FS_EmptySet
<1>4. \A t, u \in Holders(FALSE) : t = u
  BY DEF Holders, Exclusion
<1>5. Cardinality(Holders(FALSE)) \in {0, 1}
  <2>1. CASE Holders(FALSE) = {}
    BY <1>3, <2>1
  <2>2. CASE Holders(FALSE) # {}
    <3>1. PICK u \in Holders(FALSE) : TRUE
      BY <2>2
    <3>2. Holders(FALSE) = {u}
      BY <1>4, <3>1
    <3> QED BY <3>2, FS_Singleton
  <2> QED BY <2>1, <2>2
<1> QED BY <1>2, <1>3, <1>5 DEF HeldUnits, mf_lock_shared, mf_lock_excl

\* allow() reads the word right.
LEMMA AllowMeans ==
  ASSUME IsFiniteSet(Call), Exclusion, Control
  PROVE  /\ allow(TRUE, HeldUnits) => Holders(FALSE) = {}
         /\ allow(FALSE, HeldUnits) => Holders(TRUE) = {} /\ Holders(FALSE) = {}
         /\ (Holders(TRUE) = {} /\ Holders(FALSE) = {}) =>
               allow(TRUE, HeldUnits) /\ allow(FALSE, HeldUnits)
<1>1. PICK m \in Nat, k \in {0, 1} :
            /\ HeldUnits = 16 * m + 8 * k
            /\ k = 0 <=> Holders(FALSE) = {}
            /\ m = 0 <=> Holders(TRUE) = {}
  BY UnitsValue
<1>2. HeldUnits = 0 + (16 * m + 8 * k)
  BY <1>1
<1>3. /\ Bit(HeldUnits, mf_lock_excl) <=> k = 1
      /\ HeldUnits < mf_lock_excl <=> (m = 0 /\ k = 0)
  BY <1>2, WordBits
<1>4. /\ allow(TRUE, HeldUnits) <=> ~Bit(HeldUnits, mf_lock_excl)
      /\ allow(FALSE, HeldUnits) <=> HeldUnits < mf_lock_excl
  BY DEF allow
<1>5. k # 1 <=> k = 0
  OBVIOUS
<1>6. (k = 0 <=> Holders(FALSE) = {}) /\ (m = 0 <=> Holders(TRUE) = {})
  BY <1>1, Zenon
<1>7. allow(TRUE, HeldUnits) <=> Holders(FALSE) = {}
  BY <1>3, <1>4, <1>5, <1>6, Zenon
<1>8. allow(FALSE, HeldUnits) <=> (Holders(TRUE) = {} /\ Holders(FALSE) = {})
  BY <1>3, <1>4, <1>6, Zenon
<1> QED BY <1>7, <1>8, Zenon

\* What a step does to the locks: call c has the same lock as before, or none; call d
\* is given one, or gives its own back.
Keeps(c) ==
  /\ Has(c)' <=> Has(c)
  /\ Has(c) => shared'[c] = shared[c]

Gains(d, s) ==
  /\ ~Has(d) /\ Has(d)' /\ shared'[d] = s
  /\ \A c \in Call : c # d => Keeps(c)

Loses(d) == Has(d) /\ ~Has(d)' /\ \A c \in Call : c # d => Keeps(c)

LEMMA UnitsSum ==
  /\ HeldUnits = 16 * Cardinality(Holders(TRUE)) + 8 * Cardinality(Holders(FALSE))
  /\ HeldUnits' = 16 * Cardinality(Holders(TRUE)') + 8 * Cardinality(Holders(FALSE)')
  /\ LockUnit(TRUE) = 16 /\ LockUnit(FALSE) = 8
  BY DEF HeldUnits, LockUnit, mf_lock_shared, mf_lock_excl

LEMMA UnitsAlgebra ==
  \A a, b \in Nat :
    /\ 16 * (a + 1) + 8 * b = (16 * a + 8 * b) + 16
    /\ 16 * a + 8 * (b + 1) = (16 * a + 8 * b) + 8
    /\ 16 * (a - 1) + 8 * b = (16 * a + 8 * b) - 16
    /\ 16 * a + 8 * (b - 1) = (16 * a + 8 * b) - 8
  OBVIOUS

LEMMA SameHolders ==
  ASSUME Exclusion, \A c \in Call : Keeps(c)
  PROVE  HeldUnits' = HeldUnits /\ Exclusion'
<1>1. Holders(TRUE)' = Holders(TRUE) /\ Holders(FALSE)' = Holders(FALSE)
  BY DEF Holders, Keeps
<1>2. HeldUnits' = HeldUnits
  BY <1>1 DEF HeldUnits, mf_lock_shared, mf_lock_excl
<1>3. Exclusion'
  BY DEF Exclusion, Keeps
<1> QED BY <1>2, <1>3

LEMMA HolderKinds ==
  ASSUME Control, NEW c \in Call, Has(c)
  PROVE  shared[c] \in BOOLEAN /\ c \in Holders(shared[c])
  BY DEF Control, MutexType, Holders

LEMMA MoreHolders ==
  ASSUME IsFiniteSet(Call), Exclusion, Control,
         NEW d \in Call, NEW s \in BOOLEAN, Gains(d, s), allow(s, HeldUnits)
  PROVE  HeldUnits' = HeldUnits + LockUnit(s) /\ Exclusion'
<1>1. /\ d \notin Holders(TRUE) /\ d \notin Holders(FALSE)
      /\ Holders(s)' = Holders(s) \cup {d}
      /\ Holders(~s)' = Holders(~s)
  BY DEF Holders, Gains, Keeps
<1>2. IsFiniteSet(Holders(TRUE)) /\ IsFiniteSet(Holders(FALSE))
  BY FS_Subset DEF Holders
<1>3. Cardinality(Holders(TRUE)) \in Nat /\ Cardinality(Holders(FALSE)) \in Nat
  BY <1>2, FS_CardinalityType
<1>4. HeldUnits' = HeldUnits + LockUnit(s)
  <2>1. CASE s = TRUE
    <3>1. /\ Cardinality(Holders(TRUE)') = Cardinality(Holders(TRUE)) + 1
          /\ Cardinality(Holders(FALSE)') = Cardinality(Holders(FALSE))
      BY <1>1, <1>2, <2>1, FS_AddElement
    <3> QED BY <1>3, <2>1, <3>1, UnitsSum, UnitsAlgebra, Zenon
  <2>2. CASE s = FALSE
    <3>1. /\ Cardinality(Holders(FALSE)') = Cardinality(Holders(FALSE)) + 1
          /\ Cardinality(Holders(TRUE)') = Cardinality(Holders(TRUE))
      BY <1>1, <1>2, <2>2, FS_AddElement
    <3> QED BY <1>3, <2>2, <3>1, UnitsSum, UnitsAlgebra, Zenon
  <2> QED BY <2>1, <2>2
<1>5. \A c \in Call : Has(c) => s /\ shared[c]
  <2> SUFFICES ASSUME NEW c \in Call, Has(c)
               PROVE  s /\ shared[c]
    OBVIOUS
  <2>1. shared[c] \in BOOLEAN /\ c \in Holders(shared[c])
    BY HolderKinds
  <2>2. CASE s = TRUE
    BY <2>1, <2>2, AllowMeans
  <2>3. CASE s = FALSE
    BY <2>1, <2>3, AllowMeans
  <2> QED BY <2>2, <2>3
<1>6. Exclusion'
  BY <1>5 DEF Exclusion, Gains, Keeps
<1> QED BY <1>4, <1>6

LEMMA FewerHolders ==
  ASSUME IsFiniteSet(Call), Exclusion, Control, NEW d \in Call, Loses(d)
  PROVE  HeldUnits' = HeldUnits - LockUnit(shared[d]) /\ Exclusion'
<1>1. shared[d] \in BOOLEAN /\ d \in Holders(shared[d])
  BY HolderKinds DEF Loses
<1>2. PICK s \in BOOLEAN : s = shared[d]
  BY <1>1
<1>3. d \in Holders(s) /\ Holders(s)' = Holders(s) \ {d} /\ Holders(~s)' = Holders(~s)
  BY <1>1, <1>2 DEF Holders, Loses, Keeps
<1>4. IsFiniteSet(Holders(TRUE)) /\ IsFiniteSet(Holders(FALSE))
  BY FS_Subset DEF Holders
<1>5. Cardinality(Holders(TRUE)) \in Nat /\ Cardinality(Holders(FALSE)) \in Nat
  BY <1>4, FS_CardinalityType
<1>6. HeldUnits' = HeldUnits - LockUnit(s)
  <2>1. CASE s = TRUE
    <3>1. /\ Cardinality(Holders(TRUE)') = Cardinality(Holders(TRUE)) - 1
          /\ Cardinality(Holders(FALSE)') = Cardinality(Holders(FALSE))
      BY <1>3, <1>4, <2>1, FS_RemoveElement
    <3> QED BY <1>5, <2>1, <3>1, UnitsSum, UnitsAlgebra, Zenon
  <2>2. CASE s = FALSE
    <3>1. /\ Cardinality(Holders(FALSE)') = Cardinality(Holders(FALSE)) - 1
          /\ Cardinality(Holders(TRUE)') = Cardinality(Holders(TRUE))
      BY <1>3, <1>4, <2>2, FS_RemoveElement
    <3> QED BY <1>5, <2>2, <3>1, UnitsSum, UnitsAlgebra, Zenon
  <2> QED BY <2>1, <2>2
<1>7. Exclusion'
  BY DEF Exclusion, Loses, Keeps
<1> QED BY <1>2, <1>6, <1>7

\* Most steps lose no lock, and move one thread.  Thread x holds what it held:
Same(x) ==
  /\ Holding(x)' <=> Holding(x)
  /\ Holding(x) => Cur(x)' = Cur(x) /\ shared'[Cur(x)] = shared[Cur(x)]

LostSame == lost' = lost /\ \A c \in lost : shared'[c] = shared[c]

LEMMA KeepsAll ==
  ASSUME LostSame, \A x \in Thread : Same(x)
  PROVE  \A c \in Call : Keeps(c)
<1> SUFFICES ASSUME NEW c \in Call
             PROVE  Keeps(c)
  OBVIOUS
<1>1. c[1] \in Thread
  BY CallPair
<1>2. Same(c[1])
  BY <1>1
<1>3. Has(c)' <=> Has(c)
  BY <1>2 DEF Same, LostSame, Has
<1>4. Has(c) => shared'[c] = shared[c]
  BY <1>2 DEF Same, LostSame, Has
<1> QED BY <1>3, <1>4 DEF Keeps

LEMMA GainsOne ==
  ASSUME LostSame, NEW u \in Thread, NEW d \in Call, NEW s \in BOOLEAN, d = Cur(u)', d \notin lost,
         ~Holding(u), Holding(u)', shared'[d] = s,
         \A x \in Thread : x # u => Same(x)
  PROVE  Gains(d, s)
<1>1. d[1] = u
  BY DEF Cur
<1>2. ~Has(d) /\ Has(d)'
  BY <1>1 DEF Has, LostSame
<1>3. ASSUME NEW c \in Call, c # d
      PROVE  Keeps(c)
  <2>1. CASE c[1] = u
    <3>1. (Has(c) <=> c \in lost) /\ (Has(c)' <=> c \in lost)
      BY <1>1, <1>3, <2>1 DEF Has, LostSame
    <3> QED BY <3>1 DEF Keeps, LostSame
  <2>2. CASE c[1] # u
    <3>1. Same(c[1])
      BY <2>2, CallPair
    <3>2. Has(c)' <=> Has(c)
      BY <3>1 DEF Same, LostSame, Has
    <3>3. Has(c) => shared'[c] = shared[c]
      BY <3>1 DEF Same, LostSame, Has
    <3> QED BY <3>2, <3>3 DEF Keeps
  <2> QED BY <2>1, <2>2
<1> QED BY <1>2, <1>3 DEF Gains

LEMMA LosesOne ==
  ASSUME LostSame, NEW u \in Thread, NEW d \in Call, d = Cur(u), d = Cur(u)', d \notin lost,
         Holding(u), ~Holding(u)',
         \A x \in Thread : x # u => Same(x)
  PROVE  Loses(d)
<1>1. d[1] = u
  BY DEF Cur
<1>2. Has(d) /\ ~Has(d)'
  BY <1>1 DEF Has, LostSame
<1>3. ASSUME NEW c \in Call, c # d
      PROVE  Keeps(c)
  <2>1. CASE c[1] = u
    <3>1. (Has(c) <=> c \in lost) /\ (Has(c)' <=> c \in lost)
      BY <1>1, <1>3, <2>1 DEF Has, LostSame
    <3> QED BY <3>1 DEF Keeps, LostSame
  <2>2. CASE c[1] # u
    <3>1. Same(c[1])
      BY <2>2, CallPair
    <3>2. Has(c)' <=> Has(c)
      BY <3>1 DEF Same, LostSame, Has
    <3>3. Has(c) => shared'[c] = shared[c]
      BY <3>1 DEF Same, LostSame, Has
    <3> QED BY <3>2, <3>3 DEF Keeps
  <2> QED BY <2>1, <2>2
<1> QED BY <1>2, <1>3 DEF Loses

-----------------------------------------------------------------------------
(* The control of the threads *)

LEMMA TryLockFree ==
  ASSUME NEW s \in BOOLEAN, try_lock(s)
  PROVE  ~Bit(latch_, mf_latch)
<1>1. ~Bit(0, mf_latch)
  BY DEF Bit, mf_latch
<1> QED BY <1>1 DEF try_lock

\* A step of thread t moves only t, and changes only t's current call.
LEMMA ControlLock ==
  ASSUME Control, NEW t \in Thread, NEW s \in BOOLEAN, lock(t, s) \/ TryLock(t, s), Rounds \in Nat
  PROVE  Control'
<1>1. /\ mutexPc[t] = "idle" /\ round[t] < Rounds /\ round' = [round EXCEPT ![t] = @ + 1]
      /\ Cur(t)' = <<t, round[t] + 1>> /\ Cur(t)' \in Call
      /\ shared' = [shared EXCEPT ![Cur(t)'] = s]
      /\ mutexPc' = [mutexPc EXCEPT ![t] = mutexPc'[t]] /\ mutexPc'[t] \in {"lock", "held"}
      /\ waiters_' = waiters_ /\ reg' = reg /\ lost' = lost
      /\ \A u \in Thread : u # t => Cur(u)' = Cur(u)
  BY DEF lock, TryLock, Control, MutexType, Cur, Call
<1>2. MutexType'
  <2>1. mutexPc' \in [Thread -> {"idle", "lock", "notify_lock", "notify_unlock", "flag_lock",
                            "flag_unlock", "waiting", "leaving", "held", "cas", "unlock_impl"}]
    BY <1>1 DEF Control, MutexType
  <2>2. round' \in [Thread -> 0 .. Rounds] /\ shared' \in [Call -> BOOLEAN]
    BY <1>1 DEF Control, MutexType
  <2>3. ev' \in [Call -> {"none", "live", "dropped", "triggered"}] /\ owned_' \in [Call -> BOOLEAN]
    BY <1>1 DEF Control, MutexType, lock, TryLock
  <2>4. latch_' \in Int
    BY DEF lock, TryLock, LockUnit, mf_lock_shared, mf_lock_excl, Control, MutexType
  <2> QED BY <1>1, <2>1, <2>2, <2>3, <2>4 DEF Control, MutexType
<1>3. Called'
  <2> SUFFICES ASSUME NEW u \in Thread, mutexPc'[u] # "idle"
               PROVE  Cur(u)' \in Call
    BY DEF Called
  <2>1. CASE u = t
    BY <1>1, <2>1
  <2>2. CASE u # t
    BY <1>1, <2>2 DEF Called, Control, MutexType
  <2> QED BY <2>1, <2>2
<1>4. Queued'
  <2> SUFFICES ASSUME NEW i \in 1 .. Len(waiters_)
               PROVE  waiters_[i][2] <= round'[waiters_[i][1]]
    BY <1>1 DEF Queued
  <2>1. waiters_[i] \in Call
    BY DEF Control, MutexType
  <2>2. waiters_[i][1] \in Thread /\ waiters_[i][2] \in Nat
    BY <2>1, CallPair
  <2>3. waiters_[i][2] <= round[waiters_[i][1]]
    BY DEF Control, Queued
  <2> QED BY <1>1, <2>2, <2>3 DEF Control, MutexType
<1>5. LiveWaits'
  <2> SUFFICES ASSUME NEW c \in Call, ev'[c] = "live"
               PROVE  mutexPc'[c[1]] \in {"waiting", "leaving"} /\ c = Cur(c[1])'
    BY DEF LiveWaits, Cur
  <2>1. ev[c] = "live"
    BY <1>1 DEF lock, TryLock, Control, MutexType
  <2>2. mutexPc[c[1]] \in {"waiting", "leaving"} /\ c = Cur(c[1]) /\ c[1] \in Thread
    BY <2>1, CallPair DEF Control, LiveWaits
  <2> QED BY <1>1, <2>2 DEF Control, MutexType
<1>10. LostLeft'
  <2> SUFFICES ASSUME NEW c \in lost
               PROVE  c[2] <= round'[c[1]] /\ (c = Cur(c[1])' => mutexPc'[c[1]] = "idle")
    BY <1>1 DEF LostLeft, Cur
  <2>1. c[1] \in Thread /\ c[2] \in Nat /\ c = <<c[1], c[2]>>
    BY CallPair DEF Control, MutexType
  <2>2. c[2] <= round[c[1]] /\ (c = Cur(c[1]) => mutexPc[c[1]] = "idle")
    BY DEF Control, LostLeft
  <2>3. CASE c[1] = t
    <3>1. round'[t] = round[t] + 1 /\ round[t] \in Nat
      BY <1>1 DEF Control, MutexType
    <3>2. c # Cur(t)'
      BY <1>1, <2>1, <2>2, <2>3, <3>1
    <3> QED BY <2>1, <2>2, <2>3, <3>1, <3>2
  <2>4. CASE c[1] # t
    BY <1>1, <2>1, <2>2, <2>4 DEF Control, MutexType
  <2> QED BY <2>3, <2>4
<1>6. \A u \in Thread : HasLatch(u)' <=> HasLatch(u)
  BY <1>1 DEF HasLatch, Control, MutexType
<1>7. LatchHeld'
  <2>1. CASE lock(t, s)
    BY <1>6, <2>1 DEF lock, LatchHeld, Control
  <2>2. CASE TryLock(t, s)
    BY <1>6, <2>2, TryLockFree DEF TryLock, LatchHeld, Control
  <2> QED BY <2>1, <2>2
<1>8. Flagged'
  BY <1>1 DEF Flagged, Control, MutexType
<1>9. FastSeen'
  <2> SUFFICES ASSUME NEW u \in Thread, mutexPc'[u] = "cas"
               PROVE  reg'[u] \in Int /\ FastUnlock(shared'[Cur(u)'], reg'[u])
    BY DEF FastSeen, FastUnlock
  <2>1. u # t /\ mutexPc[u] = "cas"
    BY <1>1 DEF Control, MutexType
  <2>2. shared'[Cur(u)'] = shared[Cur(u)]
    BY <1>1, <2>1 DEF Cur, Control, MutexType, Called
  <2> QED BY <1>1, <2>1, <2>2 DEF Control, FastSeen
<1> QED BY <1>2, <1>3, <1>4, <1>5, <1>7, <1>8, <1>9, <1>10 DEF Control

\* A step of thread t that makes no new call.
Moves(t) ==
  /\ round' = round /\ shared' = shared
  /\ mutexPc[t] # "idle"
  /\ \A u \in Thread : u # t => mutexPc'[u] = mutexPc[u] /\ reg'[u] = reg[u]

\* Nobody but t has the latch.
LatchOf(t) == \A u \in Thread : u # t => ~HasLatch(u)

LEMMA ControlMoves ==
  ASSUME Control, NEW t \in Thread, Moves(t), MutexType',
         \/ waiters_' = waiters_
         \/ LatchOf(t) /\ waiters_ # <<>> /\ waiters_' = Tail(waiters_)
         \/ LatchOf(t) /\ waiters_' = Append(waiters_, Cur(t)),
         \A c \in Call : ev'[c] = "live" =>
            /\ ev[c] = "live" \/ (c = Cur(t) /\ mutexPc'[t] = "waiting")
            /\ c[1] = t => mutexPc'[t] \in {"waiting", "leaving"},
         lost' = lost \/ (lost' = lost \cup {Cur(t)} /\ mutexPc'[t] = "idle"),
         \/ latch_' = latch_ /\ (HasLatch(t)' => HasLatch(t))
         \/ LatchOf(t) /\ (HasLatch(t)' => Bit(latch_', mf_latch)),
         mutexPc'[t] \in {"flag_lock", "flag_unlock"} => waiters_' # <<>>,
         mutexPc'[t] = "cas" => FastUnlock(shared[Cur(t)], reg'[t])
  PROVE  Control'
<1>1. \A u \in Thread : Cur(u)' = Cur(u)
  BY DEF Moves, Cur
<1>2. Called'
  <2> SUFFICES ASSUME NEW u \in Thread, mutexPc'[u] # "idle"
               PROVE  Cur(u)' \in Call
    BY DEF Called
  <2> QED BY <1>1 DEF Control, Called, Moves
<1>3. Queued'
  <2> SUFFICES ASSUME NEW i \in 1 .. Len(waiters_')
               PROVE  waiters_'[i][2] <= round[waiters_'[i][1]]
    BY DEF Queued, Moves
  <2>1. CASE waiters_' = waiters_
    BY <2>1 DEF Queued, Control
  <2>2. CASE waiters_ # <<>> /\ waiters_' = Tail(waiters_)
    <3>1. i + 1 \in 1 .. Len(waiters_) /\ waiters_'[i] = waiters_[i + 1]
      BY <2>2 DEF Control, MutexType
    <3> QED BY <3>1 DEF Queued, Control
  <2>3. CASE waiters_' = Append(waiters_, Cur(t))
    <3>1. waiters_ \in Seq(Call) /\ Cur(t) \in Call
      BY DEF Moves, Control, MutexType, Called
    <3>2. CASE i = Len(waiters_) + 1
      <4>1. waiters_'[i] = <<t, round[t]>>
        BY <2>3, <3>1, <3>2 DEF Cur
      <4>2. round[t] \in Int
        BY DEF Control, MutexType
      <4> QED BY <4>1, <4>2
    <3>3. CASE i # Len(waiters_) + 1
      <4>1. i \in 1 .. Len(waiters_) /\ waiters_'[i] = waiters_[i]
        BY <2>3, <3>1, <3>3
      <4> QED BY <4>1 DEF Queued, Control
    <3> QED BY <3>2, <3>3
  <2> QED BY <2>1, <2>2, <2>3
<1>4. LiveWaits'
  <2> SUFFICES ASSUME NEW c \in Call, ev'[c] = "live"
               PROVE  mutexPc'[c[1]] \in {"waiting", "leaving"} /\ c = Cur(c[1])'
    BY DEF LiveWaits, Cur
  <2>1. c[1] \in Thread
    BY CallPair
  <2>2. CASE ev[c] = "live"
    BY <1>1, <2>1, <2>2 DEF Control, LiveWaits, Moves
  <2>3. CASE c = Cur(t) /\ mutexPc'[t] = "waiting"
    BY <1>1, <2>1, <2>3 DEF Cur
  <2> QED BY <2>2, <2>3
<1>9. LostLeft'
  <2> SUFFICES ASSUME NEW c \in lost'
               PROVE  c[2] <= round[c[1]] /\ (c = Cur(c[1])' => mutexPc'[c[1]] = "idle")
    BY DEF LostLeft, Cur, Moves
  <2>1. c \in Call /\ c[1] \in Thread
    BY CallPair DEF MutexType
  <2>2. CASE c \in lost
    <3>1. c[2] <= round[c[1]] /\ (c = Cur(c[1]) => mutexPc[c[1]] = "idle")
      BY <2>2 DEF Control, LostLeft
    <3> QED BY <1>1, <2>1, <3>1 DEF Moves
  <2>3. CASE c = Cur(t) /\ mutexPc'[t] = "idle"
    <3>1. c[1] = t /\ c[2] = round[t] /\ round[t] \in Nat
      BY <2>3 DEF Cur, Control, MutexType
    <3> QED BY <2>3, <3>1
  <2> QED BY <2>2, <2>3
<1>5. \A u \in Thread : u # t => (HasLatch(u)' <=> HasLatch(u))
  BY DEF HasLatch, Moves
<1>6. LatchHeld'
  <2>1. CASE latch_' = latch_ /\ (HasLatch(t)' => HasLatch(t))
    BY <1>5, <2>1 DEF LatchHeld, Control
  <2>2. CASE LatchOf(t) /\ (HasLatch(t)' => Bit(latch_', mf_latch))
    BY <1>5, <2>2 DEF LatchHeld, LatchOf
  <2> QED BY <2>1, <2>2
<1>7. Flagged'
  <2> SUFFICES ASSUME NEW u \in Thread, mutexPc'[u] \in {"flag_lock", "flag_unlock"}
               PROVE  waiters_' # <<>>
    BY DEF Flagged
  <2>1. CASE u = t
    BY <2>1
  <2>2. CASE u # t
    <3>1. mutexPc[u] = mutexPc'[u] /\ HasLatch(u)
      BY <2>2 DEF Moves, HasLatch
    <3>2. waiters_' = waiters_
      BY <2>2, <3>1 DEF LatchOf
    <3> QED BY <3>1, <3>2 DEF Control, Flagged
  <2> QED BY <2>1, <2>2
<1>8. FastSeen'
  <2> SUFFICES ASSUME NEW u \in Thread, mutexPc'[u] = "cas"
               PROVE  reg'[u] \in Int /\ FastUnlock(shared'[Cur(u)'], reg'[u])
    BY DEF FastSeen, FastUnlock
  <2>1. reg'[u] \in Int
    BY DEF MutexType
  <2>2. CASE u = t
    BY <1>1, <2>1, <2>2 DEF Moves
  <2>3. CASE u # t
    BY <1>1, <2>3 DEF Moves, Control, FastSeen
  <2> QED BY <2>2, <2>3
<1> QED BY <1>2, <1>3, <1>4, <1>6, <1>7, <1>8, <1>9 DEF Control

-----------------------------------------------------------------------------
(* Steps that leave the holders and the word alone *)

\* The first entry of the queue is a call, so its kind does not change.
LEMMA HeadCall ==
  ASSUME Control, waiters_ # <<>>
  PROVE  /\ Head(waiters_) \in Call /\ Head(waiters_) = waiters_[1]
         /\ 1 \in 1 .. Len(waiters_)
         /\ Head(waiters_)[2] <= round[Head(waiters_)[1]]
<1>1. waiters_ \in Seq(Call)
  BY DEF Control, MutexType
<1>2. Head(waiters_) = waiters_[1] /\ 1 \in 1 .. Len(waiters_)
  BY <1>1
<1>3. waiters_[1] \in Call
  BY <1>1, <1>2
<1> QED BY <1>2, <1>3 DEF Control, Queued

LEMMA QuietStep ==
  ASSUME MutexInv, Control', \A c \in Call : Keeps(c),
         latch_' = latch_, waiters_' = waiters_, NextBits(waiters_)' = NextBits(waiters_),
         \A c \in Call : ev'[c] = "live" => ev[c] = "live",
         \A u \in Thread : HasLatch(u)' => HasLatch(u) /\ reg'[u] = reg[u]
  PROVE  MutexInv'
<1>1. HeldUnits' = HeldUnits /\ Exclusion'
  BY SameHolders DEF MutexInv, MutexSafe
<1>2. Counted'
  BY <1>1 DEF Counted, MutexInv
<1>3. LatchExact'
  BY <1>1 DEF LatchExact, MutexInv, MutexSafe
<1>4. Live' \subseteq Live
  BY DEF Live, MutexInv, Control, MutexType
<1>5. NoLostWakeup'
  BY <1>4 DEF NoLostWakeup, Keeps, MutexInv, MutexSafe
<1> QED BY <1>1, <1>2, <1>3, <1>5 DEF MutexInv, MutexSafe

LEMMA InvLock ==
  ASSUME MutexInv, NEW t \in Thread, NEW s \in BOOLEAN, lock(t, s), Rounds \in Nat
  PROVE  MutexInv'
<1>1. Control'
  BY ControlLock DEF MutexInv
<1>2. /\ round' = [round EXCEPT ![t] = @ + 1] /\ Cur(t)' = <<t, round[t] + 1>>
      /\ shared' = [shared EXCEPT ![Cur(t)'] = s]
      /\ mutexPc' = [mutexPc EXCEPT ![t] = "lock"] /\ mutexPc[t] = "idle"
      /\ \A u \in Thread : u # t => Cur(u)' = Cur(u)
      /\ latch_' = latch_ /\ waiters_' = waiters_ /\ reg' = reg /\ ev' = ev /\ lost' = lost
      /\ Thread = DOMAIN mutexPc /\ mutexPc = [x \in DOMAIN mutexPc |-> mutexPc[x]]
      /\ Call = DOMAIN shared /\ shared = [x \in DOMAIN shared |-> shared[x]]
      /\ round \in [Thread -> 0 .. Rounds] /\ waiters_ \in Seq(Call)
  BY DEF lock, MutexInv, Control, MutexType, Cur
<1>3. ASSUME NEW x \in Thread
      PROVE  Same(x)
  <2>1. CASE x = t
    BY <1>2, <2>1 DEF Same, Holding
  <2>2. CASE x # t
    <3>1. mutexPc'[x] = mutexPc[x] /\ Cur(x)' = Cur(x)
      BY <1>2, <2>2
    <3>2. Holding(x) => shared'[Cur(x)] = shared[Cur(x)]
      BY <1>2, <2>2 DEF Cur, Holding, MutexInv, Control, Called
    <3> QED BY <1>2, <3>1, <3>2 DEF Same, Holding
  <2> QED BY <2>1, <2>2
<1>4. NextBits(waiters_)' = NextBits(waiters_)
  <2>1. CASE waiters_ = <<>>
    BY <1>2, <2>1 DEF NextBits
  <2>2. CASE waiters_ # <<>>
    <3>1. Head(waiters_) \in Call /\ Head(waiters_)[2] <= round[Head(waiters_)[1]]
      BY <2>2, HeadCall DEF MutexInv
    <3>2. Head(waiters_) # <<t, round[t] + 1>>
      BY <1>2, <3>1
    <3>3. shared'[Head(waiters_)] = shared[Head(waiters_)]
      BY <1>2, <3>1, <3>2
    <3> QED BY <1>2, <2>2, <3>3 DEF NextBits
  <2> QED BY <2>1, <2>2
<1>6. LostSame
  <2> SUFFICES ASSUME NEW c \in lost
               PROVE  shared'[c] = shared[c]
    BY <1>2 DEF LostSame
  <2>1. c \in Call /\ c[2] <= round[c[1]]
    BY DEF MutexInv, Control, MutexType, LostLeft
  <2>2. c # <<t, round[t] + 1>>
    BY <1>2, <2>1
  <2> QED BY <1>2, <2>1, <2>2
<1>7. \A c \in Call : Keeps(c)
  BY <1>3, <1>6, KeepsAll
<1>5. \A u \in Thread : HasLatch(u)' => HasLatch(u)
  BY <1>2 DEF HasLatch
<1> QED BY <1>1, <1>2, <1>4, <1>5, <1>7, QuietStep

\* A thread that stays away from the latch, and holds before and after or neither.
LEMMA InvAside ==
  ASSUME MutexInv, NEW t \in Thread,
         \/ Resume(t) \/ GiveUp(t) \/ UnlockLoad(t)
         \/ UnlockCas(t) /\ latch_ # reg[t]
  PROVE  MutexInv'
<1>1. /\ latch_' = latch_ /\ waiters_' = waiters_ /\ shared' = shared /\ round' = round
      /\ lost' = lost /\ ev' = ev
      /\ mutexPc[t] \in {"waiting", "held", "cas"} /\ mutexPc'[t] \in {"leaving", "held", "cas", "unlock_impl"}
      /\ mutexPc[t] = "waiting" => mutexPc'[t] = "leaving" \/ ev[Cur(t)] = "triggered"
      /\ mutexPc'[t] = "leaving" => mutexPc[t] = "waiting"
      /\ \A u \in Thread : u # t => mutexPc'[u] = mutexPc[u] /\ reg'[u] = reg[u]
      /\ \A u \in Thread : Cur(u)' = Cur(u)
  BY DEF Resume, GiveUp, UnlockLoad, UnlockCas, MutexInv, Control, MutexType, Cur
<1>2. MutexType'
  BY DEF Resume, GiveUp, UnlockLoad, UnlockCas, MutexInv, Control, MutexType
<1>3. Moves(t)
  BY <1>1 DEF Moves
<1>4. mutexPc'[t] = "cas" => FastUnlock(shared[Cur(t)], reg'[t])
  BY DEF Resume, GiveUp, UnlockLoad, UnlockCas, MutexInv, Control, MutexType
<1>5. \A c \in Call : ev'[c] = "live" => ev[c] = "live" /\ (c[1] = t => mutexPc'[t] \in {"waiting", "leaving"})
  BY <1>1 DEF MutexInv, Control, LiveWaits
<1>6. ~HasLatch(t)'
  BY <1>1 DEF HasLatch
<1>7. Control'
  BY <1>1, <1>2, <1>3, <1>4, <1>5, <1>6, ControlMoves DEF MutexInv
<1>8. ASSUME NEW x \in Thread
      PROVE  Same(x)
  <2>1. CASE x = t
    BY <1>1, <2>1 DEF Same, Holding
  <2>2. CASE x # t
    BY <1>1, <2>2 DEF Same, Holding
  <2> QED BY <2>1, <2>2
<1>9. NextBits(waiters_)' = NextBits(waiters_)
  BY <1>1 DEF NextBits
<1>10. \A u \in Thread : HasLatch(u)' => HasLatch(u) /\ reg'[u] = reg[u]
  BY <1>1, <1>6 DEF HasLatch
<1>11. \A c \in Call : Keeps(c)
  BY <1>1, <1>8, KeepsAll DEF LostSame
<1> QED BY <1>1, <1>5, <1>7, <1>9, <1>10, <1>11, QuietStep

\* A thread that leaves its call without unlocking: if it has the lock, the lock is lost
\* and stays where it was.
LEMMA InvLeave ==
  ASSUME MutexInv, NEW t \in Thread, Drop(t) \/ DestroyUnowned(t)
  PROVE  MutexInv'
<1>1. /\ latch_' = latch_ /\ waiters_' = waiters_ /\ shared' = shared /\ round' = round /\ reg' = reg
      /\ \A u \in Thread : u # t => mutexPc'[u] = mutexPc[u]
      /\ \A u \in Thread : Cur(u)' = Cur(u)
      /\ mutexPc[t] \in {"leaving", "held"}
  BY DEF Drop, DestroyUnowned, MutexInv, Control, MutexType, Cur
<1>2. Cur(t) \in Call /\ Cur(t) \notin lost
  BY <1>1 DEF MutexInv, Control, Called, LostLeft, Cur
<1>3. MutexType'
  BY <1>2 DEF Drop, DestroyUnowned, MutexInv, Control, MutexType
<1>4. \/ /\ ev[Cur(t)] = "live" /\ ev' = [ev EXCEPT ![Cur(t)] = "dropped"]
         /\ mutexPc[t] = "leaving" /\ mutexPc'[t] = "idle" /\ lost' = lost
      \/ /\ ev[Cur(t)] = "triggered" /\ ev' = ev
         /\ mutexPc[t] = "leaving" /\ mutexPc'[t] = "held" /\ lost' = lost
      \/ /\ Holding(t) /\ ev' = ev /\ ev[Cur(t)] # "live"
         /\ mutexPc'[t] = "idle" /\ lost' = lost \cup {Cur(t)}
  <2>1. CASE Drop(t)
    BY <2>1 DEF Drop, Holding, MutexInv, Control, MutexType
  <2>2. CASE DestroyUnowned(t)
    <3>1. ev[Cur(t)] # "live"
      BY <1>2, <2>2 DEF DestroyUnowned, MutexInv, Control, LiveWaits, Cur
    <3> QED BY <2>2, <3>1 DEF DestroyUnowned, Holding, MutexInv, Control, MutexType
  <2> QED BY <2>1, <2>2
<1>5. mutexPc'[t] \in {"idle", "held"}
  BY <1>4
<1>6. ASSUME NEW c \in Call
      PROVE  ev'[c] = "live" => ev[c] = "live" /\ c[1] # t
  <2>1. c # Cur(t) => ev'[c] = ev[c]
    BY <1>2, <1>4 DEF MutexInv, Control, MutexType
  <2>2. ev'[Cur(t)] # "live"
    BY <1>2, <1>4 DEF MutexInv, Control, MutexType
  <2>3. ev[c] = "live" => c = Cur(c[1])
    BY DEF MutexInv, Control, LiveWaits
  <2> QED BY <2>1, <2>2, <2>3
<1>7. Moves(t) /\ ~HasLatch(t)'
  BY <1>1, <1>5 DEF Moves, HasLatch
<1>8. lost' = lost \/ (lost' = lost \cup {Cur(t)} /\ mutexPc'[t] = "idle")
  BY <1>4
<1>9. Control'
  BY <1>1, <1>3, <1>5, <1>6, <1>7, <1>8, ControlMoves DEF MutexInv
<1>10. ASSUME NEW c \in Call
       PROVE  Keeps(c)
  <2>1. c[1] \in Thread
    BY CallPair
  <2>2. CASE c[1] # t
    <3>1. c # Cur(t) /\ Cur(c[1]) # Cur(t)
      BY <2>2 DEF Cur
    <3>2. ev'[Cur(c[1])] = ev[Cur(c[1])] \/ Cur(c[1]) \notin Call
      BY <1>2, <1>4, <3>1 DEF MutexInv, Control, MutexType
    <3>3. Holding(c[1])' <=> Holding(c[1])
      BY <1>1, <2>1, <2>2, <3>2 DEF Holding, MutexInv, Control, Called
    <3>4. c \in lost' <=> c \in lost
      BY <1>8, <3>1
    <3> QED BY <1>1, <2>1, <3>3, <3>4 DEF Keeps, Has
  <2>3. CASE c[1] = t /\ c # Cur(t)
    BY <1>1, <1>8, <2>1, <2>3 DEF Keeps, Has
  <2>4. CASE c = Cur(t)
    <3>1. c[1] = t
      BY <2>4 DEF Cur
    <3>2. Has(c) <=> Holding(t)
      BY <1>2, <2>4, <3>1 DEF Has
    <3>3. Has(c)' <=> (c \in lost' \/ Holding(t)')
      BY <1>1, <2>4, <3>1 DEF Has
    <3>4. (c \in lost' \/ Holding(t)') <=> Holding(t)
      BY <1>1, <1>2, <1>4, <2>4 DEF Holding
    <3> QED BY <1>1, <3>2, <3>3, <3>4 DEF Keeps
  <2> QED BY <2>2, <2>3, <2>4
<1>11. NextBits(waiters_)' = NextBits(waiters_)
  BY <1>1 DEF NextBits
<1>12. \A u \in Thread : HasLatch(u)' => HasLatch(u) /\ reg'[u] = reg[u]
  BY <1>1, <1>7 DEF HasLatch
<1> QED BY <1>1, <1>6, <1>9, <1>10, <1>11, <1>12, QuietStep

\* The lock of a call that goes on is not lost.
LEMMA CurKept ==
  ASSUME Control, NEW t \in Thread, mutexPc[t] # "idle"
  PROVE  Cur(t) \in Call /\ Cur(t) \notin lost
<1>1. Cur(t)[1] = t
  BY DEF Cur
<1> QED BY <1>1 DEF Control, Called, LostLeft

-----------------------------------------------------------------------------
(* Steps under the latch *)

\* While a thread has the latch, its copy of the word is all that counts.
LEMMA UnderLatch ==
  ASSUME Control', NEW t \in Thread, HasLatch(t)', Exclusion', reg'[t] = HeldUnits'
  PROVE  MutexInv'
<1>1. Bit(latch_', mf_latch) /\ \A u \in Thread : HasLatch(u)' => u = t
  BY DEF Control, LatchHeld
<1>2. Counted'
  BY <1>1 DEF Counted
<1>3. LatchExact' /\ NoLostWakeup'
  BY <1>1 DEF LatchExact, NoLostWakeup, Bit, mf_latch
<1> QED BY <1>2, <1>3 DEF MutexInv, MutexSafe

LEMMA LatchedWord ==
  ASSUME IsFiniteSet(Call), MutexInv, ~Bit(latch_, mf_latch)
  PROVE  Latched(latch_) = HeldUnits /\ HeldUnits \in Int
<1>1. PICK m \in Nat, k \in {0, 1} : HeldUnits = 16 * m + 8 * k
  BY UnitsValue DEF MutexInv, MutexSafe
<1>2. latch_ = NextBits(waiters_) + (16 * m + 8 * k)
  BY <1>1 DEF MutexInv, MutexSafe, LatchExact
<1>3. Latched(latch_) = 16 * m + 8 * k
  BY <1>2, NextBitsValue, WordBits
<1> QED BY <1>1, <1>3

LEMMA InvLatch ==
  ASSUME IsFiniteSet(Call), MutexInv, NEW t \in Thread, LatchLock(t) \/ LatchUnlock(t)
  PROVE  MutexInv'
<1>1. /\ waiters_' = waiters_ /\ shared' = shared /\ round' = round /\ ev' = ev /\ lost' = lost
      /\ ~Bit(latch_, mf_latch) /\ latch_' = latch_ + mf_latch
      /\ mutexPc[t] \in {"lock", "unlock_impl"} /\ mutexPc'[t] \in {"notify_lock", "notify_unlock"}
      /\ \A u \in Thread : u # t => mutexPc'[u] = mutexPc[u] /\ reg'[u] = reg[u]
      /\ \A u \in Thread : Cur(u)' = Cur(u)
      /\ latch_ \in Int
  BY DEF LatchLock, LatchUnlock, MutexInv, Control, MutexType, Cur
<1>2. Latched(latch_) = HeldUnits /\ HeldUnits \in Int
  BY <1>1, LatchedWord
<1>3. LockUnit(shared[Cur(t)]) \in Int
  BY DEF LockUnit, mf_lock_shared, mf_lock_excl
<1>4. MutexType'
  <2>1. reg' \in [Thread -> Int]
    BY <1>2, <1>3 DEF LatchLock, LatchUnlock, MutexInv, Control, MutexType
  <2>2. latch_' \in Int
    BY <1>1 DEF mf_latch
  <2>3. mutexPc' \in [Thread -> {"idle", "lock", "notify_lock", "notify_unlock", "flag_lock",
                            "flag_unlock", "waiting", "leaving", "held", "cas", "unlock_impl"}]
    BY DEF LatchLock, LatchUnlock, MutexInv, Control, MutexType
  <2> QED BY <1>1, <2>1, <2>2, <2>3 DEF LatchLock, LatchUnlock, MutexInv, Control, MutexType
<1>5. Moves(t)
  BY <1>1 DEF Moves
<1>6. LatchOf(t)
  BY <1>1 DEF LatchOf, MutexInv, Control, LatchHeld
<1>7. \A c \in Call : ev'[c] = "live" => ev[c] = "live" /\ c[1] # t
  BY <1>1 DEF MutexInv, Control, LiveWaits
<1>8. HasLatch(t)' /\ Bit(latch_', mf_latch)
  BY <1>1, SetLatch DEF HasLatch
<1>9. Control'
  BY <1>1, <1>4, <1>5, <1>6, <1>7, <1>8, ControlMoves DEF MutexInv
<1>10. ASSUME NEW x \in Thread, x # t
       PROVE  Same(x)
  BY <1>1, <1>10 DEF Same, Holding
<1>11. CASE LatchLock(t)
  <2>1. Same(t)
    BY <1>1, <1>11 DEF Same, Holding, LatchLock
  <2>2. HeldUnits' = HeldUnits /\ Exclusion'
    BY <1>1, <1>10, <2>1, KeepsAll, SameHolders DEF LostSame, MutexInv, MutexSafe
  <2>3. reg'[t] = HeldUnits
    BY <1>2, <1>11 DEF LatchLock, MutexInv, Control, MutexType
  <2> QED BY <1>8, <1>9, <2>2, <2>3, UnderLatch
<1>12. CASE LatchUnlock(t)
  <2>4. Holding(t) /\ ~Holding(t)'
    BY <1>1, <1>12 DEF Holding, LatchUnlock
  <2>5. Cur(t) \in Call /\ Cur(t) \notin lost
    BY <1>1, CurKept DEF MutexInv
  <2>1. Loses(Cur(t))
    BY <1>1, <1>10, <2>4, <2>5, LosesOne DEF LostSame
  <2>2. HeldUnits' = HeldUnits - LockUnit(shared[Cur(t)]) /\ Exclusion'
    BY <2>1, <2>5, FewerHolders DEF MutexInv, MutexSafe
  <2>3. reg'[t] = HeldUnits - LockUnit(shared[Cur(t)])
    BY <1>2, <1>12 DEF LatchUnlock, MutexInv, Control, MutexType
  <2> QED BY <1>8, <1>9, <2>2, <2>3, UnderLatch
<1> QED BY <1>11, <1>12

LEMMA InvPop ==
  ASSUME IsFiniteSet(Call), MutexInv, NEW t \in Thread, SkipDropped(t) \/ SetOwned(t)
  PROVE  MutexInv'
<1>1. /\ latch_' = latch_ /\ shared' = shared /\ round' = round /\ ev' = ev /\ reg' = reg /\ lost' = lost
      /\ waiters_ # <<>> /\ waiters_' = Tail(waiters_)
      /\ HasLatch(t) /\ mutexPc'[t] \in {"notify_lock", "notify_unlock"}
      /\ \A u \in Thread : u # t => mutexPc'[u] = mutexPc[u]
      /\ \A u \in Thread : Cur(u)' = Cur(u)
  BY DEF SkipDropped, SetOwned, Notifying, HasLatch, MutexInv, Control, MutexType, Flagged, Cur
<1>2. MutexType'
  <2>1. waiters_' \in Seq(Call)
    BY <1>1 DEF MutexInv, Control, MutexType
  <2>2. Head(waiters_) \in Call
    BY <1>1, HeadCall DEF MutexInv
  <2>3. owned_' \in [Call -> BOOLEAN]
    BY <2>2 DEF SkipDropped, SetOwned, MutexInv, Control, MutexType
  <2>4. mutexPc' \in [Thread -> {"idle", "lock", "notify_lock", "notify_unlock", "flag_lock",
                            "flag_unlock", "waiting", "leaving", "held", "cas", "unlock_impl"}]
    BY DEF SkipDropped, SetOwned, MutexInv, Control, MutexType
  <2> QED BY <1>1, <2>1, <2>3, <2>4 DEF MutexInv, Control, MutexType
<1>3. Moves(t)
  BY <1>1 DEF Moves, HasLatch
<1>4. LatchOf(t) /\ Bit(latch_, mf_latch)
  BY <1>1 DEF LatchOf, MutexInv, Control, LatchHeld
<1>5. \A c \in Call : ev'[c] = "live" => ev[c] = "live" /\ c[1] # t
  BY <1>1 DEF MutexInv, Control, LiveWaits, HasLatch
<1>6. HasLatch(t)'
  BY <1>1 DEF HasLatch
<1>7. Control'
  BY <1>1, <1>2, <1>3, <1>4, <1>5, <1>6, ControlMoves DEF MutexInv
<1>8. \A x \in Thread : Same(x)
  BY <1>1 DEF Same, Holding, HasLatch
<1>9. HeldUnits' = HeldUnits /\ Exclusion'
  BY <1>1, <1>8, KeepsAll, SameHolders DEF LostSame, MutexInv, MutexSafe
<1>10. reg'[t] = HeldUnits
  BY <1>1 DEF MutexInv, Counted
<1> QED BY <1>6, <1>7, <1>9, <1>10, UnderLatch

\* notify_locked gives the lock to the first of the queue.
LEMMA InvGrant ==
  ASSUME IsFiniteSet(Call), MutexInv, NEW t \in Thread, GrantNext(t)
  PROVE  MutexInv'
<1>1. waiters_ # <<>>
  BY DEF GrantNext
<1>2. PICK c \in Call : c = Head(waiters_)
  BY <1>1, HeadCall DEF MutexInv
<1>3. PICK u \in Thread, s \in BOOLEAN : u = c[1] /\ s = shared[c]
  BY CallPair DEF MutexInv, Control, MutexType
<1>4. /\ lost' = lost /\ latch_' = latch_ /\ shared' = shared /\ round' = round
      /\ ev[c] = "live" /\ ev' = [ev EXCEPT ![c] = "triggered"]
      /\ allow(s, reg[t]) /\ reg' = [reg EXCEPT ![t] = @ + LockUnit(s)]
      /\ Notifying(t) /\ mutexPc' = [mutexPc EXCEPT ![t] = mutexPc'[t]]
      /\ \/ mutexPc'[t] \in {"flag_lock", "flag_unlock"} /\ waiters_' = waiters_
         \/ mutexPc'[t] = mutexPc[t] /\ waiters_' = Tail(waiters_)
  BY <1>2, <1>3 DEF GrantNext, MutexInv, Control, MutexType
<1>5. /\ HasLatch(t) /\ HasLatch(t)' /\ mutexPc[t] \notin {"waiting", "leaving", "idle"}
      /\ \A x \in Thread : x # t => mutexPc'[x] = mutexPc[x] /\ reg'[x] = reg[x]
      /\ \A x \in Thread : Cur(x)' = Cur(x)
  BY <1>4 DEF HasLatch, Notifying, Cur, MutexInv, Control, MutexType
<1>6. mutexPc[u] \in {"waiting", "leaving"} /\ c = Cur(u) /\ u # t
  BY <1>3, <1>4, <1>5 DEF MutexInv, Control, LiveWaits
<1>7. MutexType'
  <2>1. LockUnit(s) \in Int
    BY DEF LockUnit, mf_lock_shared, mf_lock_excl
  <2>2. reg' \in [Thread -> Int] /\ ev' \in [Call -> {"none", "live", "dropped", "triggered"}]
    BY <1>4, <2>1 DEF MutexInv, Control, MutexType
  <2>3. waiters_' \in Seq(Call)
    <3>1. waiters_ \in Seq(Call) /\ (waiters_' = waiters_ \/ waiters_' = Tail(waiters_))
      BY <1>4 DEF MutexInv, Control, MutexType
    <3> QED BY <1>1, <3>1
  <2>4. mutexPc' \in [Thread -> {"idle", "lock", "notify_lock", "notify_unlock", "flag_lock",
                            "flag_unlock", "waiting", "leaving", "held", "cas", "unlock_impl"}]
    BY <1>4 DEF MutexInv, Control, MutexType
  <2>5. owned_' = owned_
    BY DEF GrantNext
  <2> QED BY <1>4, <2>2, <2>3, <2>4, <2>5 DEF MutexInv, Control, MutexType
<1>8. Control'
  <2>1. Moves(t)
    BY <1>4, <1>5 DEF Moves
  <2>2. LatchOf(t)
    BY <1>5 DEF LatchOf, MutexInv, Control, LatchHeld
  <2>3. ASSUME NEW d \in Call, ev'[d] = "live"
        PROVE  ev[d] = "live" /\ d[1] # t
    <3>1. ev[d] = "live"
      BY <1>4, <2>3 DEF MutexInv, Control, MutexType
    <3> QED BY <1>5, <3>1 DEF MutexInv, Control, LiveWaits
  <2>4. mutexPc'[t] # "cas"
    BY <1>5 DEF HasLatch
  <2>5. waiters_' = waiters_ \/ waiters_' = Tail(waiters_)
    BY <1>4
  <2>6. mutexPc'[t] \in {"flag_lock", "flag_unlock"} => waiters_' # <<>>
    BY <1>1, <1>4 DEF Notifying
  <2>7. Control /\ latch_' = latch_ /\ lost' = lost
    BY <1>4 DEF MutexInv
  <2> QED BY <1>1, <1>5, <1>7, <2>1, <2>2, <2>3, <2>4, <2>5, <2>6, <2>7, ControlMoves
<1>9. Gains(c, s)
  <2>3. c \notin lost
    BY <1>6, CurKept DEF MutexInv
  <2>1. ~Holding(u) /\ Holding(u)' /\ shared'[c] = s
    BY <1>3, <1>4, <1>5, <1>6 DEF Holding, MutexInv, Control, MutexType
  <2>2. ASSUME NEW x \in Thread, x # u
        PROVE  Same(x)
    <3>1. Cur(x) # c
      BY <1>3, <2>2 DEF Cur
    <3>2. mutexPc'[x] = mutexPc[x] \/ x = t
      BY <1>5
    <3>3. ev'[Cur(x)] = ev[Cur(x)]
      BY <1>4, <3>1 DEF MutexInv, Control, MutexType
    <3>4. CASE x = t
      BY <1>5, <3>4 DEF Same, Holding, HasLatch
    <3>5. CASE x # t
      BY <1>4, <1>5, <3>2, <3>3, <3>5 DEF Same, Holding
    <3> QED BY <3>4, <3>5
  <2> QED BY <1>4, <1>5, <1>6, <2>1, <2>2, <2>3, GainsOne DEF LostSame
<1>10. reg[t] = HeldUnits
  BY <1>5 DEF MutexInv, Counted
<1>11. HeldUnits' = HeldUnits + LockUnit(s) /\ Exclusion'
  BY <1>4, <1>9, <1>10, MoreHolders DEF MutexInv, MutexSafe
<1>12. reg'[t] = HeldUnits'
  BY <1>4, <1>10, <1>11 DEF MutexInv, Control, MutexType
<1> QED BY <1>5, <1>8, <1>11, <1>12, UnderLatch

-----------------------------------------------------------------------------
(* Steps that leave the latch free *)

LEMMA LatchFree ==
  ASSUME Control', Exclusion', \A u \in Thread : ~HasLatch(u)',
         latch_' = NextBits(waiters_)' + HeldUnits', NoLostWakeup'
  PROVE  MutexInv'
<1>1. Counted' /\ LatchExact'
  BY DEF Counted, LatchExact
<1> QED BY <1>1 DEF MutexInv, MutexSafe

\* A lock is refused only because of a holder.
LEMMA RefusedMeans ==
  ASSUME IsFiniteSet(Call), MutexInv, NEW s \in BOOLEAN, ~allow(s, HeldUnits)
  PROVE  \E c \in Call : Has(c)
<1>1. ~(Holders(TRUE) = {} /\ Holders(FALSE) = {})
  BY AllowMeans DEF MutexInv, MutexSafe
<1> QED BY <1>1 DEF Holders

\* When notify_locked is done, whoever is left in the queue waits for a holder.
LEMMA SettledMeans ==
  ASSUME IsFiniteSet(Call), MutexInv, NEW t \in Thread, HasLatch(t), Settled(t), waiters_ # <<>>
  PROVE  \E c \in Call : Has(c)
<1>1. Head(waiters_) \in Call
  BY HeadCall DEF MutexInv
<1>2. PICK s \in BOOLEAN : s = shared[Head(waiters_)]
  BY <1>1 DEF MutexInv, Control, MutexType
<1>3. ~allow(s, HeldUnits)
  BY <1>2 DEF Settled, MutexInv, Counted
<1> QED BY <1>3, RefusedMeans

LEMMA InvFinishUnlock ==
  ASSUME IsFiniteSet(Call), MutexInv, NEW t \in Thread, FinishUnlock(t)
  PROVE  MutexInv'
<1>1. /\ waiters_' = waiters_ /\ shared' = shared /\ round' = round /\ ev' = ev /\ lost' = lost
      /\ mutexPc[t] = "notify_unlock" /\ mutexPc'[t] = "idle" /\ HasLatch(t) /\ Settled(t)
      /\ latch_' = reg[t] + NextBits(waiters_)
      /\ \A u \in Thread : u # t => mutexPc'[u] = mutexPc[u] /\ reg'[u] = reg[u]
      /\ \A u \in Thread : Cur(u)' = Cur(u)
  BY DEF FinishUnlock, HasLatch, MutexInv, Control, MutexType, Cur
<1>2. NextBits(waiters_) \in Int /\ NextBits(waiters_)' = NextBits(waiters_)
  BY <1>1, NextBitsValue DEF NextBits
<1>3. reg[t] = HeldUnits /\ reg[t] \in Int /\ LatchOf(t)
  BY <1>1 DEF MutexInv, Counted, Control, MutexType, LatchOf, LatchHeld
<1>4. MutexType'
  <2>1. latch_' \in Int
    BY <1>1, <1>2, <1>3
  <2> QED BY <2>1 DEF FinishUnlock, MutexInv, Control, MutexType
<1>5. Moves(t) /\ ~HasLatch(t)'
  BY <1>1 DEF Moves, HasLatch
<1>6. \A c \in Call : ev'[c] = "live" => ev[c] = "live" /\ c[1] # t
  BY <1>1 DEF MutexInv, Control, LiveWaits
<1>7. Control'
  BY <1>1, <1>3, <1>4, <1>5, <1>6, ControlMoves DEF MutexInv
<1>13. \A x \in Thread : Same(x)
  BY <1>1 DEF Same, Holding
<1>8. \A c \in Call : Keeps(c)
  BY <1>1, <1>13, KeepsAll DEF LostSame
<1>9. HeldUnits' = HeldUnits /\ Exclusion'
  BY <1>8, SameHolders DEF MutexInv, MutexSafe
<1>10. \A u \in Thread : ~HasLatch(u)'
  BY <1>1, <1>3, <1>5 DEF HasLatch, LatchOf
<1>11. NoLostWakeup'
  <2> SUFFICES ASSUME Live' # {}
               PROVE  \E c \in Call : Has(c)'
    BY DEF NoLostWakeup
  <2>1. waiters_ # <<>>
    BY <1>1 DEF Live
  <2> QED BY <1>1, <1>8, <2>1, SettledMeans DEF Keeps
<1>12. latch_' = NextBits(waiters_)' + HeldUnits'
  BY <1>1, <1>2, <1>3, <1>9
<1> QED BY <1>7, <1>9, <1>10, <1>11, <1>12, LatchFree

LEMMA InvFinishLock ==
  ASSUME IsFiniteSet(Call), MutexInv, NEW t \in Thread, FinishLock(t)
  PROVE  MutexInv'
<1>1. /\ shared' = shared /\ round' = round /\ reg' = reg /\ lost' = lost
      /\ mutexPc[t] = "notify_lock" /\ HasLatch(t) /\ Settled(t)
      /\ mutexPc' = [mutexPc EXCEPT ![t] = mutexPc'[t]] /\ mutexPc'[t] \in {"held", "waiting"}
      /\ \A u \in Thread : u # t => mutexPc'[u] = mutexPc[u]
      /\ \A u \in Thread : Cur(u)' = Cur(u)
  BY DEF FinishLock, HasLatch, MutexInv, Control, MutexType, Cur
<1>2. Cur(t) \in Call /\ shared[Cur(t)] \in BOOLEAN
  BY <1>1 DEF MutexInv, Control, MutexType, Called
<1>3. PICK s \in BOOLEAN : s = shared[Cur(t)]
  BY <1>2
<1>4. reg[t] = HeldUnits /\ reg[t] \in Int /\ LatchOf(t) /\ LockUnit(s) \in Int
  BY <1>1 DEF MutexInv, Counted, Control, MutexType, LatchOf, LatchHeld, LockUnit,
    mf_lock_shared, mf_lock_excl
<1>5. Moves(t) /\ ~HasLatch(t)' /\ \A u \in Thread : ~HasLatch(u)'
  BY <1>1, <1>4 DEF Moves, HasLatch, LatchOf
<1>6. CASE waiters_ = <<>> /\ allow(s, reg[t])
  <2>1. /\ ev' = [ev EXCEPT ![Cur(t)] = "triggered"] /\ mutexPc'[t] = "held"
        /\ latch_' = reg[t] + LockUnit(s) /\ waiters_' = waiters_
        /\ owned_' = [owned_ EXCEPT ![Cur(t)] = TRUE]
    BY <1>3, <1>6 DEF FinishLock, MutexInv, Control, MutexType
  <2>2. MutexType'
    <3>1. latch_' \in Int
      BY <1>4, <2>1
    <3> QED BY <1>1, <1>2, <2>1, <3>1 DEF MutexInv, Control, MutexType
  <2>3. ASSUME NEW c \in Call, ev'[c] = "live"
        PROVE  ev[c] = "live" /\ c[1] # t
    <3>1. ev[c] = "live"
      BY <1>2, <2>1, <2>3 DEF MutexInv, Control, MutexType
    <3> QED BY <1>1, <3>1 DEF MutexInv, Control, LiveWaits
  <2>4. Control'
    BY <1>1, <1>4, <1>5, <2>1, <2>2, <2>3, ControlMoves DEF MutexInv
  <2>5. Gains(Cur(t), s)
    <3>3. Cur(t) \notin lost
      BY <1>1, CurKept DEF MutexInv
    <3>1. ~Holding(t) /\ Holding(t)' /\ shared'[Cur(t)] = s
      BY <1>1, <1>3, <2>1 DEF Holding
    <3>2. ASSUME NEW x \in Thread, x # t
          PROVE  Same(x)
      <4>1. Cur(x) # Cur(t)
        BY <3>2 DEF Cur
      <4>2. ev'[Cur(x)] = ev[Cur(x)]
        BY <1>2, <2>1, <4>1 DEF MutexInv, Control, MutexType
      <4> QED BY <1>1, <3>2, <4>2 DEF Same, Holding
    <3> QED BY <1>1, <1>2, <3>1, <3>2, <3>3, GainsOne DEF LostSame
  <2>6. HeldUnits' = HeldUnits + LockUnit(s) /\ Exclusion'
    BY <1>2, <1>4, <1>6, <2>5, MoreHolders DEF MutexInv, MutexSafe
  <2>7. NextBits(waiters_)' = 0
    BY <1>6, <2>1 DEF NextBits
  <2>8. latch_' = NextBits(waiters_)' + HeldUnits'
    BY <1>4, <2>1, <2>6, <2>7
  <2>9. NoLostWakeup'
    BY <1>1, <1>2, <2>5 DEF NoLostWakeup, Gains
  <2> QED BY <1>5, <2>4, <2>6, <2>8, <2>9, LatchFree
<1>7. CASE ~(waiters_ = <<>> /\ allow(s, reg[t]))
  <2>1. /\ ev' = [ev EXCEPT ![Cur(t)] = "live"] /\ mutexPc'[t] = "waiting"
        /\ latch_' = reg[t] + NextBits(waiters_') /\ waiters_' = Append(waiters_, Cur(t))
        /\ owned_' = owned_
    BY <1>3, <1>7 DEF FinishLock, MutexInv, Control, MutexType
  <2>2. NextBits(waiters_)' = NextBits(waiters_') /\ NextBits(waiters_') \in Int
    BY <1>1, NextBitsValue DEF NextBits
  <2>3. MutexType'
    <3>1. latch_' \in Int
      BY <1>4, <2>1, <2>2
    <3>2. waiters_ \in Seq(Call)
      BY DEF MutexInv, Control, MutexType
    <3>3. waiters_' \in Seq(Call)
      BY <1>2, <2>1, <3>2
    <3> QED BY <1>1, <1>2, <2>1, <3>1, <3>3 DEF MutexInv, Control, MutexType
  <2>4. ASSUME NEW c \in Call, ev'[c] = "live"
        PROVE  ev[c] = "live" \/ (c = Cur(t) /\ mutexPc'[t] = "waiting")
    BY <1>2, <2>1, <2>4 DEF MutexInv, Control, MutexType
  <2>5. Control'
    BY <1>1, <1>4, <1>5, <2>1, <2>3, <2>4, ControlMoves DEF MutexInv
  <2>6. ASSUME NEW x \in Thread
        PROVE  Same(x)
    <3>1. CASE x = t
      <4>1. ev'[Cur(t)] = "live"
        BY <1>2, <2>1 DEF MutexInv, Control, MutexType
      <4> QED BY <1>1, <2>1, <3>1, <4>1 DEF Same, Holding
    <3>2. CASE x # t
      <4>1. Cur(x) # Cur(t)
        BY <3>2 DEF Cur
      <4>2. ev'[Cur(x)] = ev[Cur(x)]
        BY <1>2, <2>1, <4>1 DEF MutexInv, Control, MutexType
      <4> QED BY <1>1, <3>2, <4>2 DEF Same, Holding
    <3> QED BY <3>1, <3>2
  <2>11. \A c \in Call : Keeps(c)
    BY <1>1, <2>6, KeepsAll DEF LostSame
  <2>7. HeldUnits' = HeldUnits /\ Exclusion'
    BY <2>11, SameHolders DEF MutexInv, MutexSafe
  <2>8. latch_' = NextBits(waiters_)' + HeldUnits'
    BY <1>4, <2>1, <2>2, <2>7
  <2>9. \E c \in Call : Has(c)
    BY <1>1, <1>4, <1>7, SettledMeans, RefusedMeans
  <2>10. NoLostWakeup'
    BY <2>9, <2>11 DEF NoLostWakeup, Keeps
  <2> QED BY <1>5, <2>5, <2>7, <2>8, <2>10, LatchFree
<1> QED BY <1>6, <1>7

\* try_lock and try_lock_shared succeed only when the lock may be given and nobody waits.
LEMMA TryMeans ==
  ASSUME IsFiniteSet(Call), MutexInv, NEW s \in BOOLEAN, try_lock(s)
  PROVE  /\ ~Bit(latch_, mf_latch) /\ allow(s, HeldUnits) /\ waiters_ = <<>>
         /\ latch_ = HeldUnits /\ HeldUnits \in Int
<1>1. ~Bit(latch_, mf_latch)
  BY TryLockFree
<1>2. PICK m \in Nat, k \in {0, 1} :
         HeldUnits = 16 * m + 8 * k /\ (k = 0 <=> Holders(FALSE) = {})
  BY UnitsValue DEF MutexInv, MutexSafe
<1>3. PICK n \in {0, 2, 4} : n = NextBits(waiters_) /\ (n = 0 <=> waiters_ = <<>>)
  BY NextBitsValue
<1>4. latch_ = n + (16 * m + 8 * k)
  BY <1>1, <1>2, <1>3 DEF MutexInv, MutexSafe, LatchExact
<1>5. /\ Bit(latch_, mf_next_excl) <=> n = 2
      /\ Bit(latch_, mf_next_shared) <=> n = 4
      /\ Bit(latch_, mf_lock_excl) <=> k = 1
  BY <1>4, WordBits
<1>6. HeldUnits = 0 + (16 * m + 8 * k)
  BY <1>2
<1>7. /\ Bit(HeldUnits, mf_lock_excl) <=> k = 1
      /\ HeldUnits < mf_lock_excl <=> (m = 0 /\ k = 0)
  BY <1>6, WordBits
<1>8. CASE s = TRUE
  <2>1. ~Bit(latch_, mf_next_excl) /\ ~Bit(latch_, mf_next_shared) /\ ~Bit(latch_, mf_lock_excl)
    BY <1>8 DEF try_lock
  <2>2. n = 0 /\ k # 1
    BY <1>5, <2>1
  <2>3. allow(s, HeldUnits)
    BY <1>7, <1>8, <2>2 DEF allow
  <2>4. latch_ = HeldUnits /\ HeldUnits \in Int
    BY <1>2, <1>4, <2>2
  <2> QED BY <1>1, <1>3, <2>2, <2>3, <2>4
<1>9. CASE s = FALSE
  <2>1. latch_ = 0
    BY <1>9 DEF try_lock
  <2>2. n = 0 /\ m = 0 /\ k = 0
    BY <1>4, <2>1
  <2>3. allow(s, HeldUnits)
    BY <1>7, <1>9, <2>2 DEF allow
  <2>4. latch_ = HeldUnits /\ HeldUnits \in Int
    BY <1>2, <1>4, <2>2
  <2> QED BY <1>1, <1>3, <2>2, <2>3, <2>4
<1> QED BY <1>8, <1>9

LEMMA InvTryLock ==
  ASSUME IsFiniteSet(Call), MutexInv, Rounds \in Nat,
         NEW t \in Thread, NEW s \in BOOLEAN, TryLock(t, s)
  PROVE  MutexInv'
<1>1. Control'
  BY ControlLock DEF MutexInv
<1>2. /\ ~Bit(latch_, mf_latch) /\ allow(s, HeldUnits) /\ waiters_ = <<>>
      /\ latch_ = HeldUnits /\ HeldUnits \in Int
  BY TryMeans DEF TryLock
<1>3. /\ round' = [round EXCEPT ![t] = @ + 1] /\ Cur(t)' = <<t, round[t] + 1>>
      /\ Cur(t)' \in Call /\ shared' = [shared EXCEPT ![Cur(t)'] = s]
      /\ mutexPc[t] = "idle" /\ mutexPc'[t] = "held"
      /\ \A u \in Thread : u # t => Cur(u)' = Cur(u) /\ mutexPc'[u] = mutexPc[u]
      /\ latch_' = latch_ + LockUnit(s) /\ waiters_' = waiters_ /\ lost' = lost
      /\ ev' = [ev EXCEPT ![Cur(t)'] = "triggered"]
  BY DEF TryLock, MutexInv, Control, MutexType, Cur, Call
<1>11. PICK d \in Call : d = Cur(t)'
  BY <1>3
<1>12. d \notin lost /\ \A c \in lost : shared'[c] = shared[c]
  <2> SUFFICES ASSUME NEW c \in lost
               PROVE  c # d /\ shared'[c] = shared[c]
    OBVIOUS
  <2>1. c \in Call /\ c[2] <= round[c[1]]
    BY DEF MutexInv, Control, MutexType, LostLeft
  <2>2. round[t] \in Int
    BY DEF MutexInv, Control, MutexType
  <2>3. c # d
    BY <1>3, <1>11, <2>1, <2>2
  <2> QED BY <1>3, <1>11, <2>1, <2>3 DEF MutexInv, Control, MutexType
<1>4. Gains(d, s)
  <2>1. ~Holding(t) /\ Holding(t)' /\ shared'[d] = s
    BY <1>3, <1>11 DEF Holding, MutexInv, Control, MutexType
  <2>2. ASSUME NEW x \in Thread, x # t
        PROVE  Same(x)
    <3>1. Cur(x) # Cur(t)'
      BY <1>3, <2>2 DEF Cur
    <3>2. Cur(x) \in Call => ev'[Cur(x)] = ev[Cur(x)] /\ shared'[Cur(x)] = shared[Cur(x)]
      BY <1>3, <3>1 DEF MutexInv, Control, MutexType
    <3>3. mutexPc[x] # "idle" => Cur(x) \in Call
      BY DEF MutexInv, Control, Called
    <3> QED BY <1>3, <2>2, <3>2, <3>3 DEF Same, Holding
  <2> QED BY <1>3, <1>11, <1>12, <2>1, <2>2, GainsOne DEF LostSame
<1>5. HeldUnits' = HeldUnits + LockUnit(s) /\ Exclusion'
  BY <1>2, <1>4, MoreHolders DEF MutexInv, MutexSafe
<1>6. NextBits(waiters_)' = 0
  BY <1>2, <1>3 DEF NextBits
<1>7. LockUnit(s) \in Int
  BY DEF LockUnit, mf_lock_shared, mf_lock_excl
<1>8. latch_' = NextBits(waiters_)' + HeldUnits'
  BY <1>2, <1>3, <1>5, <1>6, <1>7
<1>9. \A u \in Thread : ~HasLatch(u)'
  <2>1. \A u \in Thread : ~HasLatch(u)
    BY <1>2 DEF MutexInv, Control, LatchHeld
  <2> QED BY <1>3, <2>1 DEF HasLatch
<1>10. NoLostWakeup'
  BY <1>4 DEF NoLostWakeup, Gains
<1> QED BY <1>1, <1>5, <1>8, <1>9, <1>10, LatchFree

\* The fast path of unlock is taken only when nobody waits or another holder is left.
LEMMA FastMeans ==
  ASSUME IsFiniteSet(Call), MutexInv, NEW t \in Thread, mutexPc[t] = "cas", latch_ = reg[t]
  PROVE  /\ ~Bit(latch_, mf_latch) /\ latch_ = NextBits(waiters_) + HeldUnits
         /\ HeldUnits \in Int
         /\ waiters_ = <<>> \/ \E c \in Call : c # Cur(t) /\ Has(c)
<1>10. PICK d \in Call : d = Cur(t)
  BY CurKept DEF MutexInv
<1>11. Has(d)
  BY <1>10 DEF Has, Holding, Cur
<1>1. PICK s \in BOOLEAN : s = shared[Cur(t)] /\ d \in Holders(s)
  BY <1>10, <1>11, HolderKinds DEF MutexInv
<1>2. /\ ~Bit(latch_, mf_latch) /\ ~Bit(latch_, mf_next_shared)
      /\ ~Bit(latch_, mf_next_excl) \/ (s /\ latch_ >= 2 * mf_lock_shared)
  BY <1>1 DEF MutexInv, Control, FastSeen, FastUnlock
<1>3. PICK m \in Nat, k \in {0, 1} :
            /\ HeldUnits = 16 * m + 8 * k
            /\ k = 0 <=> Holders(FALSE) = {}
            /\ m = Cardinality(Holders(TRUE))
  BY UnitsValue DEF MutexInv, MutexSafe
<1>4. PICK n \in {0, 2, 4} : n = NextBits(waiters_) /\ (n = 0 <=> waiters_ = <<>>)
  BY NextBitsValue
<1>5. latch_ = n + HeldUnits
  BY <1>2, <1>4 DEF MutexInv, MutexSafe, LatchExact
<1>6. latch_ = n + (16 * m + 8 * k)
  BY <1>3, <1>5
<1>7. (Bit(latch_, mf_next_excl) <=> n = 2) /\ (Bit(latch_, mf_next_shared) <=> n = 4)
  BY <1>6, WordBits
<1> HeldUnits \in Int /\ ~Bit(latch_, mf_latch) /\ latch_ = NextBits(waiters_) + HeldUnits
  <2>1. HeldUnits \in Int
    <3>1. 16 * m + 8 * k \in Int
      OBVIOUS
    <3> QED BY <1>3, <3>1, Zenon
  <2> QED BY <1>2, <1>4, <1>5, <2>1, Zenon
<1>8. CASE n = 0
  BY <1>4, <1>8, Zenon
<1>9. CASE n # 0
  <2>1. s = TRUE /\ latch_ >= 32 /\ n = 2
    BY <1>2, <1>7, <1>9 DEF mf_lock_shared
  <2>2. k = 0
    <3>1. Has(d) /\ shared[d] = TRUE
      BY <1>1, <1>10, <1>11, <2>1
    <3>2. \A c \in Call : Has(c) => shared[c]
      BY <3>1 DEF MutexInv, MutexSafe, Exclusion
    <3>3. Holders(FALSE) = {}
      BY <3>2 DEF Holders
    <3> QED BY <1>3, <3>3, Zenon
  <2>3. m >= 2
    BY <1>6, <2>1, <2>2
  <2>4. \E c \in Holders(TRUE) : c # d
    <3> SUFFICES ASSUME Holders(TRUE) \subseteq {d}
                 PROVE  FALSE
      OBVIOUS
    <3>1. Holders(TRUE) = {d}
      BY <1>1, <2>1
    <3>2. Cardinality(Holders(TRUE)) = 1
      BY <3>1, FS_Singleton
    <3>3. m = 1
      BY <1>3, <3>2, Zenon
    <3> QED BY <2>3, <3>3
  <2>5. \E c \in Call : c # Cur(t) /\ Has(c)
    BY <1>10, <2>4 DEF Holders
  <2> QED BY <2>5, Zenon
<1> QED BY <1>8, <1>9

LEMMA InvCas ==
  ASSUME IsFiniteSet(Call), MutexInv, NEW t \in Thread, UnlockCas(t), latch_ = reg[t]
  PROVE  MutexInv'
<1>1. /\ waiters_' = waiters_ /\ shared' = shared /\ round' = round /\ ev' = ev /\ lost' = lost
      /\ mutexPc[t] = "cas" /\ mutexPc'[t] = "idle" /\ latch_' = latch_ - LockUnit(shared[Cur(t)])
      /\ \A u \in Thread : u # t => mutexPc'[u] = mutexPc[u] /\ reg'[u] = reg[u]
      /\ \A u \in Thread : Cur(u)' = Cur(u)
      /\ latch_ \in Int
  BY DEF UnlockCas, MutexInv, Control, MutexType, Cur
<1>2. /\ ~Bit(latch_, mf_latch) /\ latch_ = NextBits(waiters_) + HeldUnits
      /\ HeldUnits \in Int
      /\ waiters_ = <<>> \/ \E c \in Call : c # Cur(t) /\ Has(c)
  BY <1>1, FastMeans
<1>3. LockUnit(shared[Cur(t)]) \in Int
  BY DEF LockUnit, mf_lock_shared, mf_lock_excl
<1>4. MutexType'
  <2>1. latch_' \in Int
    BY <1>1, <1>3
  <2> QED BY <2>1 DEF UnlockCas, MutexInv, Control, MutexType
<1>5. Moves(t) /\ ~HasLatch(t)'
  BY <1>1 DEF Moves, HasLatch
<1>6. LatchOf(t)
  BY <1>2 DEF LatchOf, MutexInv, Control, LatchHeld
<1>7. \A c \in Call : ev'[c] = "live" => ev[c] = "live" /\ c[1] # t
  BY <1>1 DEF MutexInv, Control, LiveWaits
<1>8. Control'
  BY <1>1, <1>4, <1>5, <1>6, <1>7, ControlMoves DEF MutexInv
<1>15. Cur(t) \in Call /\ Cur(t) \notin lost
  BY <1>1, CurKept DEF MutexInv
<1>16. \A x \in Thread : x # t => Same(x)
  BY <1>1 DEF Same, Holding
<1>17. Holding(t) /\ ~Holding(t)'
  BY <1>1 DEF Holding
<1>9. Loses(Cur(t))
  BY <1>1, <1>15, <1>16, <1>17, LosesOne DEF LostSame
<1>10. HeldUnits' = HeldUnits - LockUnit(shared[Cur(t)]) /\ Exclusion'
  BY <1>9, <1>15, FewerHolders DEF MutexInv, MutexSafe
<1>11. NextBits(waiters_)' = NextBits(waiters_) /\ NextBits(waiters_) \in Int
  BY <1>1, NextBitsValue DEF NextBits
<1>12. latch_' = NextBits(waiters_)' + HeldUnits'
  BY <1>1, <1>2, <1>3, <1>10, <1>11
<1>13. \A u \in Thread : ~HasLatch(u)'
  BY <1>1, <1>5, <1>6 DEF LatchOf, HasLatch
<1>14. NoLostWakeup'
  <2> SUFFICES ASSUME Live' # {}
               PROVE  \E c \in Call : Has(c)'
    BY DEF NoLostWakeup
  <2>1. waiters_ # <<>>
    BY <1>1 DEF Live
  <2> QED BY <1>2, <1>9, <2>1 DEF Loses, Keeps
<1> QED BY <1>8, <1>10, <1>12, <1>13, <1>14, LatchFree

-----------------------------------------------------------------------------
(* The theorems *)

LEMMA MutexInitInv ==
  ASSUME IsFiniteSet(Call), Rounds \in Nat, MutexInit
  PROVE  MutexInv
<1>1. MutexType
  BY DEF MutexInit, MutexType
<1>2. \A t \in Thread : mutexPc[t] = "idle"
  BY DEF MutexInit
<1>3. Control
  BY <1>1, <1>2 DEF MutexInit, Control, Called, Queued, LiveWaits, LostLeft, LatchHeld, HasLatch, Flagged, FastSeen
<1>9. \A c \in Call : ~Has(c)
  BY <1>2, CallPair DEF Has, Holding, MutexInit
<1>4. Holders(TRUE) = {} /\ Holders(FALSE) = {}
  BY <1>9 DEF Holders
<1>5. HeldUnits = 0
  <2>1. Cardinality(Holders(TRUE)) = 0 /\ Cardinality(Holders(FALSE)) = 0
    BY <1>4, FS_EmptySet, Zenon
  <2>2. 16 * 0 + 8 * 0 = 0
    OBVIOUS
  <2> QED BY <2>1, <2>2, UnitsSum, Zenon
<1>6. latch_ = NextBits(waiters_) + HeldUnits
  BY <1>5 DEF MutexInit, NextBits
<1>7. Live = {}
  BY DEF Live, MutexInit
<1>8. Exclusion /\ Counted
  BY <1>2, <1>9 DEF Exclusion, Counted, HasLatch
<1> QED BY <1>3, <1>6, <1>7, <1>8 DEF MutexInv, MutexSafe, LatchExact, NoLostWakeup

LEMMA MutexStutter ==
  ASSUME MutexInv, UNCHANGED mutexVars
  PROVE  MutexInv'
<1>1. MutexType' /\ Called' /\ Queued' /\ LiveWaits' /\ LostLeft'
  BY DEF mutexVars, MutexInv, Control, MutexType, Called, Queued, LiveWaits, LostLeft, Cur
<1>2. LatchHeld' /\ Flagged' /\ FastSeen'
  BY DEF mutexVars, MutexInv, Control, LatchHeld, HasLatch, Flagged, FastSeen, Cur, FastUnlock, Bit, mf_latch
<1>3. \A c \in Call : Keeps(c)
  BY DEF mutexVars, Keeps, Has, Holding, Cur
<1>4. NextBits(waiters_)' = NextBits(waiters_)
  BY DEF mutexVars, NextBits
<1>5. \A u \in Thread : HasLatch(u)' => HasLatch(u) /\ reg'[u] = reg[u]
  BY DEF mutexVars, HasLatch
<1>6. latch_' = latch_ /\ waiters_' = waiters_ /\ ev' = ev
  BY DEF mutexVars
<1> QED BY <1>1, <1>2, <1>3, <1>4, <1>5, <1>6, QuietStep DEF Control

LEMMA MutexStep ==
  ASSUME IsFiniteSet(Call), Rounds \in Nat, MutexInv, MutexNext
  PROVE  MutexInv'
<1>1. PICK t \in Thread :
         \/ Step(t)
         \/ GiveUp(t) \/ Drop(t) \/ DestroyUnowned(t)
         \/ \E s \in BOOLEAN : lock(t, s) \/ TryLock(t, s)
  BY DEF MutexNext
<1>2. CASE LatchLock(t) \/ LatchUnlock(t)
  BY <1>2, InvLatch
<1>3. CASE SkipDropped(t) \/ SetOwned(t)
  BY <1>3, InvPop
<1>4. CASE GrantNext(t)
  BY <1>4, InvGrant
<1>5. CASE FinishLock(t)
  BY <1>5, InvFinishLock
<1>6. CASE FinishUnlock(t)
  BY <1>6, InvFinishUnlock
<1>7. CASE Resume(t) \/ GiveUp(t) \/ UnlockLoad(t)
  BY <1>7, InvAside
<1>8. CASE UnlockCas(t)
  BY <1>8, InvAside, InvCas
<1>10. CASE Drop(t) \/ DestroyUnowned(t)
  BY <1>10, InvLeave
<1>9. ASSUME NEW s \in BOOLEAN, lock(t, s) \/ TryLock(t, s)
      PROVE  MutexInv'
  BY <1>9, InvLock, InvTryLock
<1> QED BY <1>1, <1>2, <1>3, <1>4, <1>5, <1>6, <1>7, <1>8, <1>9, <1>10 DEF Step

\* For any finite number of threads and calls, with shared and exclusive locks, waits
\* given up and tasks destroyed at any moment, and guards of either kind destroyed before
\* or after the mutex has marked them: two calls have the mutex only if both share it, its
\* word counts exactly the locks held or lost when the latch is free, and whoever waits
\* then has a call before it whose lock keeps it away (MutexSafe; lock_impl, unlock_impl,
\* notify_locked and the two fast paths).
THEOREM MutexIsSafe == IsFiniteSet(Thread) /\ Rounds \in Nat => (MutexSpec => []MutexSafe)
<1> SUFFICES ASSUME IsFiniteSet(Call), Rounds \in Nat
             PROVE  MutexSpec => []MutexSafe
  BY CallFinite
<1>1. MutexInit => MutexInv
  BY MutexInitInv
<1>2. MutexInv /\ [MutexNext]_mutexVars => MutexInv'
  BY MutexStep, MutexStutter
<1>3. MutexInv => MutexSafe
  BY DEF MutexInv
<1> QED BY <1>1, <1>2, <1>3, PTL DEF MutexSpec

\* A step that gives the lock to a call gives it to the first that still waits, or
\* nobody waits.
LEMMA NoOvertaking ==
  ASSUME IsFiniteSet(Call), Rounds \in Nat, MutexInv, MutexNext
  PROVE  ~Overtakes
<1> SUFFICES ASSUME NEW c \in Call, ev[c] # "triggered", ev'[c] = "triggered",
                    NEW i \in Live, \A j \in 1 .. i : waiters_[j] # c
             PROVE  FALSE
  <2>1. DOMAIN ev = Call
    BY DEF MutexInv, Control, MutexType
  <2> QED BY <2>1 DEF Overtakes
<1>1. PICK t \in Thread :
         \/ Step(t)
         \/ GiveUp(t) \/ Drop(t) \/ DestroyUnowned(t)
         \/ \E s \in BOOLEAN : lock(t, s) \/ TryLock(t, s)
  BY DEF MutexNext
<1>2. i \in 1 .. Len(waiters_) /\ waiters_ \in Seq(Call)
  BY DEF Live, MutexInv, Control, MutexType
<1>3. waiters_ # <<>> /\ 1 \in 1 .. i
  BY <1>2
<1>4. Head(waiters_) # c
  BY <1>3, HeadCall DEF MutexInv
<1>5. CASE GrantNext(t)
  <2>1. ev' = [ev EXCEPT ![Head(waiters_)] = "triggered"]
    BY <1>5 DEF GrantNext
  <2> QED BY <1>4, <2>1 DEF MutexInv, Control, MutexType
<1>6. CASE FinishLock(t)
  <2>1. ev' = [ev EXCEPT ![Cur(t)] = "live"]
    BY <1>3, <1>6 DEF FinishLock
  <2> QED BY <2>1 DEF MutexInv, Control, MutexType
<1>7. ASSUME NEW s \in BOOLEAN, TryLock(t, s)
      PROVE  FALSE
  BY <1>3, <1>7, TryMeans DEF TryLock
<1>8. CASE Drop(t)
  BY <1>8 DEF Drop, MutexInv, Control, MutexType
<1>9. ev' # ev
  OBVIOUS
<1> QED BY <1>1, <1>5, <1>6, <1>7, <1>8, <1>9 DEF Step, lock, LatchLock, LatchUnlock, SkipDropped,
      SetOwned, FinishUnlock, Resume, GiveUp, DestroyUnowned, UnlockLoad, UnlockCas

\* Nobody is overtaken, for any number of threads: no call is given the lock while
\* another that still wants it stands before it in waiters_ (NoBarging; the next bits of
\* the word keep try_lock away, and lock_impl joins a queue that is not empty).
THEOREM NobodyOvertaken == IsFiniteSet(Thread) /\ Rounds \in Nat => (MutexSpec => NoBarging)
<1> SUFFICES ASSUME IsFiniteSet(Call), Rounds \in Nat
             PROVE  MutexSpec => NoBarging
  BY CallFinite
<1>1. MutexInit => MutexInv
  BY MutexInitInv
<1>2. MutexInv /\ [MutexNext]_mutexVars => MutexInv'
  BY MutexStep, MutexStutter
<1>3. MutexInv /\ [MutexNext]_mutexVars => [~Overtakes]_mutexVars
  BY NoOvertaking
<1> QED BY <1>1, <1>2, <1>3, PTL DEF MutexSpec, NoBarging
=============================================================================
