----------------------------- MODULE LoopProofs -----------------------------
(***************************************************************************)
(* Theorems about a driver: the body of a descriptor that several drivers  *)
(* share, for any set of threads; the watches of one driver, for any       *)
(* number of them and of openings; its loop, for any jobs and threads; its *)
(* timers, for any arity of the heap and any wrap of the insertion numbers.*)
(***************************************************************************)
EXTENDS CotDriver, TimerHeap, FdEvents, FdBody, FiniteSetTheorems, SequenceTheorems, TLAPS

-----------------------------------------------------------------------------
(* The inductive invariant.                                                 *)

Flags == [Thread -> BOOLEAN]
Labels == {"idle", "watch", "sub", "close", "unlocked", "notify_close", "remove_listener"}

BodyType ==
  /\ fd_ \in BOOLEAN /\ base_fd_ \in BOOLEAN /\ freed \in BOOLEAN /\ osOpen \in BOOLEAN
  /\ ref_ \in Nat /\ drivers_ \in SUBSET Thread
  /\ handles \in [Thread -> Nat] /\ pc \in [Thread -> Labels]
  /\ fdrec \in Flags /\ registered \in Flags
  /\ because_deref \in Flags /\ closable \in Flags /\ deletable \in Flags

\* The references that ref_ counts: the fd objects of a thread, and the one that a
\* deref of the thread has taken away and not yet subtracted.
Dropping(t) == pc[t] = "sub" \/ (pc[t] = "close" /\ because_deref[t])
Refs == {r \in Thread \X Nat : r[2] \in 1 .. handles[r[1]] \/ (r[2] = 0 /\ Dropping(r[1]))}

Counted == IsFiniteSet(Refs) /\ ref_ = Cardinality(Refs)

\* A deref that found a count of one is alone with the body; any other call holds an
\* fd object.
Held ==
  \A t \in Thread :
    /\ pc[t] = "close" /\ because_deref[t] => ref_ = 1
    /\ pc[t] = "close" /\ ~because_deref[t] => handles[t] > 0 /\ t \in Closers
    /\ pc[t] = "watch" => handles[t] > 0 /\ t \in Watchers

\* The listeners are the drivers whose fdrec points to the body, and those about to
\* be removed.
Listening ==
  \A t \in Thread :
    /\ t \in drivers_ <=> fdrec[t] \/ pc[t] = "remove_listener"
    /\ pc[t] = "remove_listener" => ~fdrec[t] /\ ~fd_
    /\ registered[t] => fdrec[t]

\* A body that is deleted, or is about to be, has no reference and no listener.
DeletedLast ==
  /\ \A t \in Thread : deletable[t] => pc[t] = "unlocked"
  /\ freed \/ (\E t \in Thread : deletable[t]) => ref_ = 0 /\ drivers_ = {} /\ ~fd_
  /\ freed => \A t \in Thread : ~deletable[t]
  /\ \A t, u \in Thread : deletable[t] /\ deletable[u] => t = u

BodyInv == BodyType /\ Counted /\ Held /\ Listening /\ DeletedLast

-----------------------------------------------------------------------------
(* Counting references.                                                     *)

LEMMA RefIn ==
  ASSUME BodyType, NEW t \in Thread, NEW i
  PROVE  <<t, i>> \in Refs <=> i \in Nat /\ (i \in 1 .. handles[t] \/ (i = 0 /\ Dropping(t)))
  BY DEF Refs

\* Whoever has a reference is counted.
LEMMA SomeRef ==
  ASSUME BodyType, Counted, NEW t \in Thread, handles[t] > 0 \/ Dropping(t)
  PROVE  ref_ \in Nat /\ ref_ >= 1
<1>1. handles[t] \in Nat
  BY DEF BodyType
<1>2. \E i \in Nat : <<t, i>> \in Refs
  <2>1. CASE handles[t] > 0
    <3>1. 1 \in Nat /\ 1 \in 1 .. handles[t]
      BY <1>1, <2>1
    <3> QED BY <3>1, RefIn
  <2>2. CASE Dropping(t)
    BY <2>2, RefIn
  <2> QED BY <2>1, <2>2
<1>3. Refs # {}
  BY <1>2, Zenon
<1>4. Cardinality(Refs) # 0 /\ Cardinality(Refs) \in Nat
  BY <1>3, FS_EmptySet, FS_CardinalityType, Zenon DEF Counted
<1> QED BY <1>4 DEF Counted

\* Somebody else's reference is counted besides.
LEMMA TwoRefs ==
  ASSUME BodyType, Counted, NEW t \in Thread, NEW u \in Thread, t # u,
         Dropping(t), handles[u] > 0 \/ Dropping(u)
  PROVE  ref_ # 1
<1>1. handles[u] \in Nat
  BY DEF BodyType
<1>2. PICK i \in Nat : <<u, i>> \in Refs
  <2>1. CASE handles[u] > 0
    <3>1. 1 \in Nat /\ 1 \in 1 .. handles[u]
      BY <1>1, <2>1
    <3> QED BY <3>1, RefIn
  <2>2. CASE Dropping(u)
    BY <2>2, RefIn
  <2> QED BY <2>1, <2>2
<1>3. <<t, 0>> \in Refs
  BY RefIn
<1>4. <<t, 0>> # <<u, i>>
  OBVIOUS
<1>5. ASSUME Cardinality(Refs) = 1
      PROVE  FALSE
  <2>1. PICK r : Refs = {r}
    BY <1>5, FS_Singleton, Zenon DEF Counted
  <2>2. \A x, y : x \in Refs /\ y \in Refs => x = y
    BY <2>1, Zenon
  <2> QED BY <1>2, <1>3, <1>4, <2>2, Zenon
<1> QED BY <1>5, Zenon DEF Counted

LEMMA CountKept ==
  ASSUME BodyType, Counted, handles' = handles, ref_' = ref_,
         \A t \in Thread : Dropping(t)' <=> Dropping(t)
  PROVE  Counted'
<1>1. Refs' = Refs
  <2>1. \A r \in Thread \X Nat : r[1] \in Thread
    OBVIOUS
  <2>2. \A r \in Thread \X Nat : Dropping(r[1])' <=> Dropping(r[1])
    BY <2>1, Zenon
  <2> HIDE DEF Dropping
  <2> QED BY <2>2, Zenon DEF Refs
<1> QED BY <1>1, Zenon DEF Counted

\* A copy adds one.
LEMMA CountCopy ==
  ASSUME BodyType, Counted, NEW u \in Thread, handles' = [handles EXCEPT ![u] = @ + 1],
         ref_' = ref_ + 1, \A t \in Thread : Dropping(t)' <=> Dropping(t)
  PROVE  Counted'
<1> DEFINE x == <<u, handles[u] + 1>>
<1>1. handles \in [Thread -> Nat] /\ handles[u] \in Nat
  BY DEF BodyType
<1>2. \A t \in Thread : handles'[t] = IF t = u THEN handles[u] + 1 ELSE handles[t]
  BY <1>1
<1>3. \A t \in Thread, i \in Nat : <<t, i>> \in Refs' <=> <<t, i>> \in Refs \/ <<t, i>> = x
  <2> TAKE t \in Thread, i \in Nat
  <2>1. <<t, i>> \in Refs' <=> i \in 1 .. handles'[t] \/ (i = 0 /\ Dropping(t)')
    BY DEF Refs
  <2>2. <<t, i>> \in Refs <=> i \in 1 .. handles[t] \/ (i = 0 /\ Dropping(t))
    BY DEF Refs
  <2>3. i \in 1 .. handles'[t] <=> i \in 1 .. handles[t] \/ (t = u /\ i = handles[u] + 1)
    BY <1>1, <1>2
  <2>4. <<t, i>> = x <=> (t = u /\ i = handles[u] + 1)
    OBVIOUS
  <2>5. Dropping(t)' <=> Dropping(t)
    OBVIOUS
  <2> QED BY <2>1, <2>2, <2>3, <2>4, <2>5, Zenon
<1>4. Refs' \subseteq Thread \X Nat /\ Refs \subseteq Thread \X Nat /\ x \in Thread \X Nat
  BY <1>1 DEF Refs
<1>5. x \notin Refs
  <2>1. ~(handles[u] + 1 \in 1 .. handles[u]) /\ handles[u] + 1 # 0
    BY <1>1
  <2> QED BY <2>1, RefIn
<1> HIDE DEF x
<1>6. Refs' = Refs \cup {x}
  BY <1>3, <1>4
<1> QED BY <1>5, <1>6, FS_AddElement, Zenon DEF Counted

\* A deref subtracts its own.
LEMMA CountDrop ==
  ASSUME BodyType, Counted, NEW u \in Thread, Dropping(u), handles' = handles, ref_' = ref_ - 1,
         ~Dropping(u)', \A t \in Thread \ {u} : Dropping(t)' <=> Dropping(t)
  PROVE  Counted'
<1> DEFINE x == <<u, 0>>
<1>1. handles \in [Thread -> Nat]
  BY DEF BodyType
<1>2. \A t \in Thread, i \in Nat : <<t, i>> \in Refs' <=> <<t, i>> \in Refs /\ <<t, i>> # x
  <2> TAKE t \in Thread, i \in Nat
  <2>1. <<t, i>> \in Refs' <=> i \in 1 .. handles[t] \/ (i = 0 /\ Dropping(t)')
    BY DEF Refs
  <2>2. <<t, i>> \in Refs <=> i \in 1 .. handles[t] \/ (i = 0 /\ Dropping(t))
    BY DEF Refs
  <2>3. i \in 1 .. handles[t] => i # 0
    BY <1>1
  <2>4. <<t, i>> = x <=> (t = u /\ i = 0)
    OBVIOUS
  <2>5. t # u => (Dropping(t)' <=> Dropping(t))
    OBVIOUS
  <2> QED BY <2>1, <2>2, <2>3, <2>4, <2>5, Zenon
<1>3. Refs' \subseteq Thread \X Nat /\ Refs \subseteq Thread \X Nat
  BY DEF Refs
<1>4. x \in Refs
  BY RefIn
<1> HIDE DEF x
<1>5. Refs' = Refs \ {x}
  BY <1>2, <1>3
<1> QED BY <1>4, <1>5, FS_RemoveElement, Zenon DEF Counted

\* The fd object of a deref that begins is no more, but is still counted.
LEMMA CountMove ==
  ASSUME BodyType, Counted, NEW u \in Thread, handles[u] > 0, ~Dropping(u),
         handles' = [handles EXCEPT ![u] = @ - 1], ref_' = ref_,
         Dropping(u)', \A t \in Thread \ {u} : Dropping(t)' <=> Dropping(t)
  PROVE  Counted'
<1> DEFINE x == <<u, handles[u]>>
           y == <<u, 0>>
<1>1. handles \in [Thread -> Nat] /\ handles[u] \in Nat
  BY DEF BodyType
<1>2. \A t \in Thread : handles'[t] = IF t = u THEN handles[u] - 1 ELSE handles[t]
  BY <1>1
<1>3. \A t \in Thread, i \in Nat : <<t, i>> \in Refs' <=> (<<t, i>> \in Refs /\ <<t, i>> # x) \/ <<t, i>> = y
  <2> TAKE t \in Thread, i \in Nat
  <2>1. <<t, i>> \in Refs' <=> i \in 1 .. handles'[t] \/ (i = 0 /\ Dropping(t)')
    BY DEF Refs
  <2>2. <<t, i>> \in Refs <=> i \in 1 .. handles[t] \/ (i = 0 /\ Dropping(t))
    BY DEF Refs
  <2>3. <<t, i>> = y <=> (t = u /\ i = 0)
    OBVIOUS
  <2>4. <<t, i>> = x <=> (t = u /\ i = handles[u])
    OBVIOUS
  <2>5. CASE t = u
    <3>1. i \in 1 .. handles'[t] <=> i \in 1 .. handles[t] /\ i # handles[u]
      BY <1>1, <1>2, <2>5
    <3>2. handles[u] # 0
      BY <1>1
    <3> QED BY <2>1, <2>2, <2>3, <2>4, <2>5, <3>1, <3>2, Zenon
  <2>6. CASE t # u
    <3>1. handles'[t] = handles[t] /\ (Dropping(t)' <=> Dropping(t))
      BY <1>2, <2>6
    <3> QED BY <2>1, <2>2, <2>3, <2>4, <2>6, <3>1, Zenon
  <2> QED BY <2>5, <2>6
<1>4. Refs' \subseteq Thread \X Nat /\ Refs \subseteq Thread \X Nat /\ y \in Thread \X Nat
  BY DEF Refs
<1>5. x \in Refs /\ y \notin Refs \ {x}
  <2>1. handles[u] \in 1 .. handles[u] /\ ~(0 \in 1 .. handles[u])
    BY <1>1
  <2> QED BY <1>1, <2>1, RefIn, Zenon
<1> HIDE DEF x, y
<1>6. Refs' = (Refs \ {x}) \cup {y}
  BY <1>3, <1>4
<1>7. /\ IsFiniteSet(Refs \ {x}) /\ Cardinality(Refs \ {x}) = Cardinality(Refs) - 1
  BY <1>5, FS_RemoveElement, Zenon DEF Counted
<1>8. /\ IsFiniteSet((Refs \ {x}) \cup {y})
      /\ Cardinality((Refs \ {x}) \cup {y}) = Cardinality(Refs \ {x}) + 1
  BY <1>5, <1>7, FS_AddElement, Zenon
<1>9. Cardinality(Refs) \in Nat
  BY FS_CardinalityType DEF Counted
<1>10. Cardinality(Refs') = Cardinality(Refs)
  BY <1>6, <1>7, <1>8, <1>9
<1> QED BY <1>6, <1>8, <1>10, Zenon DEF Counted

-----------------------------------------------------------------------------
(* The body lives as long as it is used.                                    *)

\* A thread goes on in its code, or is where it was, and neither the count nor the
\* listeners change.
LEMMA MoveStep ==
  ASSUME BodyInv, NEW t \in Thread, NEW l \in Labels,
         pc' = [pc EXCEPT ![t] = l],
         fd_' = fd_, ref_' = ref_, drivers_' = drivers_, freed' = freed, handles' = handles,
         fdrec' = fdrec, deletable' = deletable,
         base_fd_' \in BOOLEAN, osOpen' \in BOOLEAN, closable' \in Flags, registered' \in Flags,
         because_deref' \in Flags,
         \A s \in Thread \ {t} : because_deref'[s] <=> because_deref[s],
         \A s \in Thread : registered'[s] => fdrec[s],
         pc[t] \notin {"sub", "close", "remove_listener"},
         l \notin {"sub", "remove_listener"},
         l = "close" => ~because_deref'[t] /\ handles[t] > 0 /\ t \in Closers,
         l = "watch" => handles[t] > 0 /\ t \in Watchers,
         deletable[t] => l = "unlocked"
  PROVE  BodyInv'
<1>1. BodyType /\ Counted /\ Held /\ Listening /\ DeletedLast
  BY DEF BodyInv
<1>2. pc \in [Thread -> Labels]
  BY <1>1 DEF BodyType
<1>3. pc' \in [Thread -> Labels] /\ pc'[t] = l /\ \A s \in Thread \ {t} : pc'[s] = pc[s]
  BY <1>2
<1>4. BodyType'
  BY <1>1, <1>3, Zenon DEF BodyType
<1>5. \A s \in Thread : Dropping(s)' <=> Dropping(s)
  <2> TAKE s \in Thread
  <2>1. CASE s = t
    BY <1>3, <2>1, Zenon DEF Dropping
  <2>2. CASE s # t
    BY <1>3, <2>2, Zenon DEF Dropping
  <2> QED BY <2>1, <2>2
<1>6. Counted'
  BY <1>1, <1>5, CountKept, Zenon
<1>7. Held'
  <2> SUFFICES ASSUME NEW s \in Thread
               PROVE  /\ pc'[s] = "close" /\ because_deref'[s] => ref_' = 1
                      /\ pc'[s] = "close" /\ ~because_deref'[s] => handles'[s] > 0 /\ s \in Closers
                      /\ pc'[s] = "watch" => handles'[s] > 0 /\ s \in Watchers
    BY Zenon DEF Held
  <2>1. CASE s = t
    BY <1>3, <2>1, Zenon
  <2>2. CASE s # t
    BY <1>1, <1>3, <2>2, Zenon DEF Held
  <2> QED BY <2>1, <2>2
<1>8. Listening'
  <2> SUFFICES ASSUME NEW s \in Thread
               PROVE  /\ s \in drivers_' <=> fdrec'[s] \/ pc'[s] = "remove_listener"
                      /\ pc'[s] = "remove_listener" => ~fdrec'[s] /\ ~fd_'
                      /\ registered'[s] => fdrec'[s]
    BY Zenon DEF Listening
  <2>1. CASE s = t
    BY <1>1, <1>3, <2>1, Zenon DEF Listening
  <2>2. CASE s # t
    BY <1>1, <1>3, <2>2, Zenon DEF Listening
  <2> QED BY <2>1, <2>2
<1>9. DeletedLast'
  <2>1. \A s \in Thread : deletable'[s] => pc'[s] = "unlocked"
    BY <1>1, <1>3, Zenon DEF DeletedLast
  <2> QED BY <1>1, <2>1, Zenon DEF DeletedLast
<1> QED BY <1>4, <1>6, <1>7, <1>8, <1>9 DEF BodyInv

LEMMA NoDeletion ==
  ASSUME BodyInv, ref_ # 0 \/ drivers_ # {} \/ fd_
  PROVE  ~freed /\ \A t \in Thread : ~deletable[t]
  BY Zenon DEF BodyInv, DeletedLast

LEMMA CopyKeeps ==
  ASSUME BodyInv, NEW t \in Thread, NEW u \in Thread, ref(t, u)
  PROVE  BodyInv'
<1>1. BodyType /\ Counted /\ Held /\ Listening /\ DeletedLast
  BY DEF BodyInv
<1>2. /\ pc[t] = "idle" /\ handles[t] > 0 /\ ref_' = ref_ + 1 /\ handles' = [handles EXCEPT ![u] = @ + 1]
      /\ fd_' = fd_ /\ base_fd_' = base_fd_ /\ drivers_' = drivers_ /\ freed' = freed
      /\ osOpen' = osOpen /\ fdrec' = fdrec /\ registered' = registered /\ pc' = pc
      /\ because_deref' = because_deref /\ closable' = closable /\ deletable' = deletable
  BY Zenon DEF ref, driver, local
<1>3. handles \in [Thread -> Nat] /\ ref_ \in Nat
  BY <1>1 DEF BodyType
<1>4. /\ handles' \in [Thread -> Nat] /\ ref_' \in Nat
      /\ \A s \in Thread : handles[s] > 0 => handles'[s] > 0
  BY <1>2, <1>3
<1>5. BodyType'
  BY <1>1, <1>2, <1>4, Zenon DEF BodyType
<1>6. \A s \in Thread : Dropping(s)' <=> Dropping(s)
  BY <1>2, Zenon DEF Dropping
<1>7. Counted'
  BY <1>1, <1>2, <1>6, CountCopy, Zenon
<1>8. \A s \in Thread : ~(pc[s] = "close" /\ because_deref[s])
  <2> SUFFICES ASSUME NEW s \in Thread, pc[s] = "close", because_deref[s]
               PROVE  FALSE
    BY Zenon
  <2>1. ref_ = 1
    BY <1>1, Zenon DEF Held
  <2>2. Dropping(s) /\ s # t
    BY <1>2 DEF Dropping
  <2> QED BY <1>1, <1>2, <2>1, <2>2, TwoRefs, Zenon
<1>9. Held'
  BY <1>1, <1>2, <1>4, <1>8, Zenon DEF Held
<1>10. Listening'
  BY <1>1, <1>2, Zenon DEF Listening
<1>11. ref_ # 0
  BY <1>1, <1>2, SomeRef
<1>12. DeletedLast'
  BY <1>1, <1>2, <1>11, NoDeletion, Zenon DEF DeletedLast
<1> QED BY <1>5, <1>7, <1>9, <1>10, <1>12 DEF BodyInv

LEMMA ListenKeeps ==
  ASSUME BodyInv, NEW t \in Thread, add_listener(t)
  PROVE  BodyInv'
<1>1. BodyType /\ Counted /\ Held /\ Listening /\ DeletedLast
  BY DEF BodyInv
<1>2. /\ pc[t] = "watch" /\ fdrec' = [fdrec EXCEPT ![t] = TRUE] /\ drivers_' = drivers_ \union {t}
      /\ pc' = [pc EXCEPT ![t] = "idle"]
      /\ fd_' = fd_ /\ base_fd_' = base_fd_ /\ ref_' = ref_ /\ freed' = freed /\ osOpen' = osOpen
      /\ handles' = handles /\ registered' = registered
      /\ because_deref' = because_deref /\ closable' = closable /\ deletable' = deletable
  BY Zenon DEF add_listener, local, Goto
<1>3. fdrec \in Flags /\ pc \in [Thread -> Labels] /\ drivers_ \in SUBSET Thread
  BY <1>1 DEF BodyType
<1>4. /\ pc' \in [Thread -> Labels] /\ pc'[t] = "idle" /\ \A s \in Thread \ {t} : pc'[s] = pc[s]
      /\ drivers_' \in SUBSET Thread
  BY <1>2, <1>3 DEF Labels
<1>5. fdrec' \in Flags /\ fdrec'[t] /\ \A s \in Thread \ {t} : fdrec'[s] = fdrec[s]
  BY <1>2, <1>3 DEF Flags
<1>6. BodyType'
  BY <1>1, <1>2, <1>4, <1>5, Zenon DEF BodyType
<1>7. \A s \in Thread : Dropping(s)' <=> Dropping(s)
  <2> TAKE s \in Thread
  <2>1. CASE s = t
    BY <1>2, <1>4, <2>1, Zenon DEF Dropping
  <2>2. CASE s # t
    BY <1>2, <1>4, <2>2, Zenon DEF Dropping
  <2> QED BY <2>1, <2>2
<1>8. Counted'
  BY <1>1, <1>2, <1>7, CountKept, Zenon
<1>9. Held'
  <2> SUFFICES ASSUME NEW s \in Thread
               PROVE  /\ pc'[s] = "close" /\ because_deref'[s] => ref_' = 1
                      /\ pc'[s] = "close" /\ ~because_deref'[s] => handles'[s] > 0 /\ s \in Closers
                      /\ pc'[s] = "watch" => handles'[s] > 0 /\ s \in Watchers
    BY Zenon DEF Held
  <2>1. CASE s = t
    BY <1>4, <2>1, Zenon
  <2>2. CASE s # t
    BY <1>1, <1>2, <1>4, <2>2, Zenon DEF Held
  <2> QED BY <2>1, <2>2
<1>10. Listening'
  <2> SUFFICES ASSUME NEW s \in Thread
               PROVE  /\ s \in drivers_' <=> fdrec'[s] \/ pc'[s] = "remove_listener"
                      /\ pc'[s] = "remove_listener" => ~fdrec'[s] /\ ~fd_'
                      /\ registered'[s] => fdrec'[s]
    BY Zenon DEF Listening
  <2>1. CASE s = t
    BY <1>2, <1>4, <1>5, <2>1, Zenon
  <2>2. CASE s # t
    BY <1>1, <1>2, <1>4, <1>5, <2>2, Zenon DEF Listening
  <2> QED BY <2>1, <2>2
<1>11. ref_ # 0
  BY <1>1, <1>2, SomeRef DEF Held
<1>12. DeletedLast'
  BY <1>1, <1>2, <1>11, NoDeletion, Zenon DEF DeletedLast
<1> QED BY <1>6, <1>8, <1>9, <1>10, <1>12 DEF BodyInv

LEMMA DerefKeeps ==
  ASSUME BodyInv, NEW t \in Thread, Deref(t)
  PROVE  BodyInv'
<1>1. BodyType /\ Counted /\ Held /\ Listening /\ DeletedLast
  BY DEF BodyInv
<1>2. PICK l : l = IF ref_ = 1 THEN "close" ELSE "sub"
  OBVIOUS
<1>3. l \in {"close", "sub"} /\ (l = "close" => ref_ = 1)
  BY <1>2
<1>4. /\ pc[t] = "idle" /\ handles[t] > 0 /\ handles' = [handles EXCEPT ![t] = @ - 1]
      /\ because_deref' = [because_deref EXCEPT ![t] = TRUE] /\ pc' = [pc EXCEPT ![t] = l]
      /\ fd_' = fd_ /\ base_fd_' = base_fd_ /\ ref_' = ref_ /\ drivers_' = drivers_ /\ freed' = freed
      /\ osOpen' = osOpen /\ fdrec' = fdrec /\ registered' = registered
      /\ closable' = closable /\ deletable' = deletable
  BY <1>2, Zenon DEF Deref, shared, driver, Goto
<1>5. handles \in [Thread -> Nat] /\ pc \in [Thread -> Labels] /\ because_deref \in Flags
  BY <1>1 DEF BodyType
<1>6. /\ pc' \in [Thread -> Labels] /\ pc'[t] = l /\ \A s \in Thread \ {t} : pc'[s] = pc[s]
  BY <1>3, <1>4, <1>5 DEF Labels
<1>7. because_deref' \in Flags /\ because_deref'[t] /\ \A s \in Thread \ {t} : because_deref'[s] = because_deref[s]
  BY <1>4, <1>5 DEF Flags
<1>8. handles' \in [Thread -> Nat] /\ \A s \in Thread \ {t} : handles'[s] = handles[s]
  BY <1>4, <1>5
<1>9. BodyType'
  BY <1>1, <1>4, <1>6, <1>7, <1>8, Zenon DEF BodyType
<1>10. ~Dropping(t) /\ Dropping(t)' /\ \A s \in Thread \ {t} : Dropping(s)' <=> Dropping(s)
  <2>1. ~Dropping(t)
    BY <1>4 DEF Dropping
  <2>2. Dropping(t)'
    BY <1>3, <1>6, <1>7, Zenon DEF Dropping
  <2>3. \A s \in Thread \ {t} : Dropping(s)' <=> Dropping(s)
    BY <1>6, <1>7, Zenon DEF Dropping
  <2> QED BY <2>1, <2>2, <2>3
<1>11. Counted'
  BY <1>1, <1>4, <1>10, CountMove, Zenon
<1>12. Held'
  <2> SUFFICES ASSUME NEW s \in Thread
               PROVE  /\ pc'[s] = "close" /\ because_deref'[s] => ref_' = 1
                      /\ pc'[s] = "close" /\ ~because_deref'[s] => handles'[s] > 0 /\ s \in Closers
                      /\ pc'[s] = "watch" => handles'[s] > 0 /\ s \in Watchers
    BY Zenon DEF Held
  <2>1. CASE s = t
    <3>1. l # "watch"
      BY <1>3
    <3> QED BY <1>3, <1>4, <1>6, <1>7, <2>1, <3>1, Zenon
  <2>2. CASE s # t
    BY <1>1, <1>4, <1>6, <1>7, <1>8, <2>2, Zenon DEF Held
  <2> QED BY <2>1, <2>2
<1>13. Listening'
  <2>1. l # "remove_listener" /\ pc[t] # "remove_listener"
    BY <1>3, <1>4
  <2>2. \A s \in Thread : pc'[s] = "remove_listener" <=> pc[s] = "remove_listener"
    BY <1>6, <2>1, Zenon
  <2> QED BY <1>1, <1>4, <2>2, Zenon DEF Listening
<1>14. ref_ # 0
  BY <1>1, <1>4, SomeRef
<1>15. DeletedLast'
  BY <1>1, <1>4, <1>14, NoDeletion, Zenon DEF DeletedLast
<1> QED BY <1>9, <1>11, <1>12, <1>13, <1>15 DEF BodyInv

LEMMA SubKeeps ==
  ASSUME BodyInv, NEW t \in Thread, DerefSub(t)
  PROVE  BodyInv'
<1>1. BodyType /\ Counted /\ Held /\ Listening /\ DeletedLast
  BY DEF BodyInv
<1>2. /\ pc[t] = "sub" /\ ref_' = ref_ - 1 /\ pc' = [pc EXCEPT ![t] = "idle"]
      /\ fd_' = fd_ /\ base_fd_' = base_fd_ /\ drivers_' = drivers_ /\ freed' = freed
      /\ osOpen' = osOpen /\ handles' = handles /\ fdrec' = fdrec /\ registered' = registered
      /\ because_deref' = because_deref /\ closable' = closable /\ deletable' = deletable
  BY Zenon DEF DerefSub, driver, local, Goto
<1>3. pc \in [Thread -> Labels]
  BY <1>1 DEF BodyType
<1>4. Dropping(t)
  BY <1>2 DEF Dropping
<1>5. ref_ \in Nat /\ ref_ >= 1
  BY <1>1, <1>4, SomeRef
<1>6. /\ pc' \in [Thread -> Labels] /\ pc'[t] = "idle" /\ \A s \in Thread \ {t} : pc'[s] = pc[s]
      /\ ref_' \in Nat
  BY <1>2, <1>3, <1>5 DEF Labels
<1>7. BodyType'
  BY <1>1, <1>2, <1>6, Zenon DEF BodyType
<1>8. ~Dropping(t)' /\ \A s \in Thread \ {t} : Dropping(s)' <=> Dropping(s)
  BY <1>2, <1>6, Zenon DEF Dropping
<1>9. Counted'
  BY <1>1, <1>2, <1>4, <1>8, CountDrop, Zenon
<1>10. \A s \in Thread : ~(pc[s] = "close" /\ because_deref[s])
  <2> SUFFICES ASSUME NEW s \in Thread, pc[s] = "close", because_deref[s]
               PROVE  FALSE
    BY Zenon
  <2>1. ref_ = 1
    BY <1>1, Zenon DEF Held
  <2>2. Dropping(s) /\ s # t
    BY <1>2 DEF Dropping
  <2> QED BY <1>1, <1>4, <2>1, <2>2, TwoRefs, Zenon
<1>11. Held'
  <2> SUFFICES ASSUME NEW s \in Thread
               PROVE  /\ pc'[s] = "close" /\ because_deref'[s] => ref_' = 1
                      /\ pc'[s] = "close" /\ ~because_deref'[s] => handles'[s] > 0 /\ s \in Closers
                      /\ pc'[s] = "watch" => handles'[s] > 0 /\ s \in Watchers
    BY Zenon DEF Held
  <2>1. CASE s = t
    BY <1>6, <2>1, Zenon
  <2>2. CASE s # t
    BY <1>1, <1>2, <1>6, <1>10, <2>2, Zenon DEF Held
  <2> QED BY <2>1, <2>2
<1>12. Listening'
  <2>1. \A s \in Thread : pc'[s] = "remove_listener" <=> pc[s] = "remove_listener"
    BY <1>2, <1>6, Zenon
  <2> QED BY <1>1, <1>2, <2>1, Zenon DEF Listening
<1>13. DeletedLast'
  <2>1. ref_ # 0
    BY <1>5
  <2> QED BY <1>1, <1>2, <2>1, NoDeletion, Zenon DEF DeletedLast
<1> QED BY <1>7, <1>9, <1>11, <1>12, <1>13 DEF BodyInv

\* A flag that is set to the value of a condition.
LEMMA FlagSet ==
  ASSUME NEW f \in Flags, NEW t \in Thread, NEW b \in BOOLEAN, NEW g, g = [f EXCEPT ![t] = b]
  PROVE  g \in Flags /\ (g[t] <=> b) /\ \A s \in Thread \ {t} : g[s] <=> f[s]
<1>1. g \in Flags /\ g[t] = b /\ \A s \in Thread \ {t} : g[s] = f[s]
  BY DEF Flags
<1> QED BY <1>1, Zenon

LEMMA CloseFacts ==
  ASSUME BodyInv, NEW t \in Thread, close(t)
  PROVE  /\ pc[t] = "close" /\ fd_' = FALSE /\ pc' = [pc EXCEPT ![t] = "unlocked"]
         /\ base_fd_' \in BOOLEAN /\ (base_fd_' <=> base_fd_ /\ ~CloseNow)
         /\ deletable' \in Flags /\ (deletable'[t] <=> CloseDeletes(t))
         /\ \A s \in Thread \ {t} : deletable'[s] <=> deletable[s]
         /\ closable' \in Flags /\ (closable'[t] <=> CloseNow)
         /\ \A s \in Thread \ {t} : closable'[s] <=> closable[s]
         /\ because_deref[t] => ref_' = ref_ - 1
         /\ ~because_deref[t] => ref_' = ref_
         /\ drivers_' = drivers_ /\ freed' = freed /\ osOpen' = osOpen /\ handles' = handles
         /\ fdrec' = fdrec /\ registered' = registered /\ because_deref' = because_deref
<1>1. BodyType
  BY DEF BodyInv
<1>2. /\ pc[t] = "close" /\ fd_' = FALSE /\ pc' = [pc EXCEPT ![t] = "unlocked"]
      /\ drivers_' = drivers_ /\ freed' = freed /\ osOpen' = osOpen /\ handles' = handles
      /\ fdrec' = fdrec /\ registered' = registered /\ because_deref' = because_deref
  BY Zenon DEF close, driver, Goto
<1>3. closable' = [closable EXCEPT ![t] = CloseNow] /\ deletable' = [deletable EXCEPT ![t] = CloseDeletes(t)]
  BY Zenon DEF close
<1>4. CloseNow \in BOOLEAN /\ CloseDeletes(t) \in BOOLEAN
  BY DEF CloseNow, CloseDeletes
<1>5. closable \in Flags /\ deletable \in Flags
  BY <1>1 DEF BodyType
<1>6. closable' \in Flags /\ (closable'[t] <=> CloseNow) /\ \A s \in Thread \ {t} : closable'[s] <=> closable[s]
  BY <1>3, <1>4, <1>5, FlagSet, Zenon
<1>7. /\ deletable' \in Flags /\ (deletable'[t] <=> CloseDeletes(t))
      /\ \A s \in Thread \ {t} : deletable'[s] <=> deletable[s]
  BY <1>3, <1>4, <1>5, FlagSet, Zenon
<1>8. base_fd_' = (base_fd_ /\ ~CloseNow)
  BY Zenon DEF close
<1>9. (base_fd_ /\ ~CloseNow) \in BOOLEAN
  OBVIOUS
<1>10. base_fd_' \in BOOLEAN /\ (base_fd_' <=> base_fd_ /\ ~CloseNow)
  BY <1>8, <1>9, Zenon
<1>11. (because_deref[t] => ref_' = ref_ - 1) /\ (~because_deref[t] => ref_' = ref_)
  BY Zenon DEF close
<1> QED BY <1>2, <1>6, <1>7, <1>10, <1>11, Zenon

LEMMA CloseKeeps ==
  ASSUME BodyInv, NEW t \in Thread, close(t)
  PROVE  BodyInv'
<1>1. BodyType /\ Counted /\ Held /\ Listening /\ DeletedLast
  BY DEF BodyInv
<1>2. /\ pc[t] = "close" /\ fd_' = FALSE /\ pc' = [pc EXCEPT ![t] = "unlocked"]
      /\ base_fd_' \in BOOLEAN
      /\ deletable' \in Flags /\ (deletable'[t] <=> CloseDeletes(t))
      /\ \A s \in Thread \ {t} : deletable'[s] <=> deletable[s]
      /\ closable' \in Flags
      /\ because_deref[t] => ref_' = ref_ - 1
      /\ ~because_deref[t] => ref_' = ref_
      /\ drivers_' = drivers_ /\ freed' = freed /\ osOpen' = osOpen /\ handles' = handles
      /\ fdrec' = fdrec /\ registered' = registered /\ because_deref' = because_deref
  BY CloseFacts, Zenon
<1>3. pc \in [Thread -> Labels] /\ ref_ \in Nat /\ because_deref \in Flags
  BY <1>1 DEF BodyType
<1>4. pc' \in [Thread -> Labels] /\ pc'[t] = "unlocked" /\ \A s \in Thread \ {t} : pc'[s] = pc[s]
  BY <1>2, <1>3 DEF Labels
<1>5. because_deref[t] => Dropping(t) /\ ref_ = 1
  BY <1>1, <1>2, Zenon DEF Dropping, Held
<1>6. ~because_deref[t] => handles[t] > 0 /\ ~Dropping(t)
  BY <1>1, <1>2 DEF Dropping, Held
<1>7. because_deref[t] => ref_' = 0
  BY <1>2, <1>5
<1>8. ref_' \in Nat
  <2>1. CASE because_deref[t]
    BY <1>7, <2>1
  <2>2. CASE ~because_deref[t]
    BY <1>2, <1>3, <2>2, Zenon
  <2> QED BY <2>1, <2>2
<1>9. fd_' \in BOOLEAN
  BY <1>2
<1>10. BodyType'
  BY <1>1, <1>2, <1>4, <1>8, <1>9, Zenon DEF BodyType
<1>11. ~Dropping(t)' /\ \A s \in Thread \ {t} : Dropping(s)' <=> Dropping(s)
  BY <1>2, <1>4, Zenon DEF Dropping
<1>12. Counted'
  <2>1. CASE because_deref[t]
    BY <1>1, <1>2, <1>5, <1>11, <2>1, CountDrop, Zenon
  <2>2. CASE ~because_deref[t]
    <3>1. \A s \in Thread : Dropping(s)' <=> Dropping(s)
      BY <1>6, <1>11, <2>2, Zenon
    <3> QED BY <1>1, <1>2, <2>2, <3>1, CountKept, Zenon
  <2> QED BY <2>1, <2>2
<1>13. ASSUME because_deref[t], NEW s \in Thread, s # t
       PROVE  ~(handles[s] > 0) /\ ~Dropping(s)
  <2>1. Dropping(t) /\ ref_ = 1 /\ t # s
    BY <1>5, <1>13
  <2>2. (handles[s] > 0 \/ Dropping(s)) => ref_ # 1
    BY <1>1, <2>1, TwoRefs, Zenon
  <2> QED BY <2>1, <2>2, Zenon
<1>14. Held'
  <2> SUFFICES ASSUME NEW s \in Thread
               PROVE  /\ pc'[s] = "close" /\ because_deref'[s] => ref_' = 1
                      /\ pc'[s] = "close" /\ ~because_deref'[s] => handles'[s] > 0 /\ s \in Closers
                      /\ pc'[s] = "watch" => handles'[s] > 0 /\ s \in Watchers
    BY Zenon DEF Held
  <2>1. CASE s = t
    BY <1>4, <2>1, Zenon
  <2>2. CASE s # t /\ because_deref[t]
    BY <1>1, <1>2, <1>4, <1>13, <2>2, Zenon DEF Held, Dropping
  <2>3. CASE s # t /\ ~because_deref[t]
    BY <1>1, <1>2, <1>4, <2>3, Zenon DEF Held
  <2> QED BY <2>1, <2>2, <2>3
<1>15. Listening'
  <2>1. \A s \in Thread : pc'[s] = "remove_listener" <=> pc[s] = "remove_listener"
    BY <1>2, <1>4, Zenon
  <2> QED BY <1>1, <1>2, <2>1, Zenon DEF Listening
<1>16. ref_ # 0
  BY <1>1, <1>5, <1>6, SomeRef
<1>17. ~freed /\ \A s \in Thread : ~deletable[s]
  BY <1>16, NoDeletion, Zenon
<1>18. deletable'[t] => ref_' = 0 /\ drivers_' = {}
  BY <1>2, <1>7, Zenon DEF CloseDeletes
<1>19. \A s \in Thread : deletable'[s] => s = t
  BY <1>2, <1>17, Zenon
<1>20. DeletedLast'
  <2>1. \A s \in Thread : deletable'[s] => pc'[s] = "unlocked"
    BY <1>4, <1>19, Zenon
  <2>2. freed' \/ (\E s \in Thread : deletable'[s]) => ref_' = 0 /\ drivers_' = {} /\ ~fd_'
    BY <1>2, <1>17, <1>18, <1>19, Zenon
  <2>3. \A s, u \in Thread : deletable'[s] /\ deletable'[u] => s = u
    BY <1>19, Zenon
  <2>4. ~freed'
    BY <1>2, <1>17, Zenon
  <2> QED BY <2>1, <2>2, <2>3, <2>4, Zenon DEF DeletedLast
<1> QED BY <1>10, <1>12, <1>14, <1>15, <1>20 DEF BodyInv

LEMMA DeleteFacts ==
  ASSUME BodyInv, NEW t \in Thread, Delete(t)
  PROVE  /\ pc[t] = "unlocked" /\ deletable[t] /\ ~closable[t]
         /\ freed' = TRUE /\ base_fd_' = FALSE
         /\ osOpen' \in BOOLEAN /\ (osOpen' <=> osOpen /\ ~base_fd_)
         /\ deletable' \in Flags /\ ~deletable'[t] /\ \A s \in Thread \ {t} : deletable'[s] <=> deletable[s]
         /\ fd_' = fd_ /\ ref_' = ref_ /\ drivers_' = drivers_ /\ handles' = handles
         /\ fdrec' = fdrec /\ registered' = registered /\ pc' = pc
         /\ because_deref' = because_deref /\ closable' = closable
<1>1. /\ pc[t] = "unlocked" /\ deletable[t] /\ ~closable[t] /\ freed' = TRUE /\ base_fd_' = FALSE
      /\ fd_' = fd_ /\ ref_' = ref_ /\ drivers_' = drivers_ /\ handles' = handles
      /\ fdrec' = fdrec /\ registered' = registered /\ pc' = pc
      /\ because_deref' = because_deref /\ closable' = closable
      /\ osOpen' = (osOpen /\ ~base_fd_) /\ deletable' = [deletable EXCEPT ![t] = FALSE]
  BY Zenon DEF Delete, driver
<1>2. (osOpen /\ ~base_fd_) \in BOOLEAN /\ FALSE \in BOOLEAN
  OBVIOUS
<1>3. osOpen' \in BOOLEAN /\ (osOpen' <=> osOpen /\ ~base_fd_)
  BY <1>1, <1>2, Zenon
<1>4. deletable \in Flags
  BY DEF BodyInv, BodyType
<1>5. deletable' \in Flags /\ ~deletable'[t] /\ \A s \in Thread \ {t} : deletable'[s] <=> deletable[s]
  BY <1>1, <1>2, <1>4, FlagSet, Zenon
<1> QED BY <1>1, <1>3, <1>5, Zenon

LEMMA DeleteKeeps ==
  ASSUME BodyInv, NEW t \in Thread, Delete(t)
  PROVE  BodyInv'
<1>1. BodyType /\ Counted /\ Held /\ Listening /\ DeletedLast
  BY DEF BodyInv
<1>2. /\ deletable[t] /\ freed' = TRUE /\ base_fd_' = FALSE /\ osOpen' \in BOOLEAN
      /\ deletable' \in Flags /\ ~deletable'[t] /\ \A s \in Thread \ {t} : deletable'[s] <=> deletable[s]
      /\ fd_' = fd_ /\ ref_' = ref_ /\ drivers_' = drivers_ /\ handles' = handles
      /\ fdrec' = fdrec /\ registered' = registered /\ pc' = pc
      /\ because_deref' = because_deref /\ closable' = closable
  BY DeleteFacts, Zenon
<1>3. freed' \in BOOLEAN /\ base_fd_' \in BOOLEAN
  BY <1>2
<1>4. BodyType'
  BY <1>1, <1>2, <1>3, Zenon DEF BodyType
<1>5. \A s \in Thread : Dropping(s)' <=> Dropping(s)
  BY <1>2, Zenon DEF Dropping
<1>6. Counted'
  BY <1>1, <1>2, <1>5, CountKept, Zenon
<1>7. Held' /\ Listening'
  BY <1>1, <1>2, Zenon DEF Held, Listening
<1>8. \A s \in Thread : ~deletable'[s]
  BY <1>1, <1>2, Zenon DEF DeletedLast
<1>9. ref_' = 0 /\ drivers_' = {} /\ ~fd_'
  BY <1>1, <1>2, Zenon DEF DeletedLast
<1>10. DeletedLast'
  BY <1>8, <1>9, Zenon DEF DeletedLast
<1> QED BY <1>4, <1>6, <1>7, <1>10 DEF BodyInv

\* notify_close finds the driver's record of the closed descriptor.
LEMMA NotifyKeeps ==
  ASSUME BodyInv, NEW t \in Thread, notify_close(t), fdrec[t], ~fd_
  PROVE  BodyInv'
<1>1. BodyType /\ Counted /\ Held /\ Listening /\ DeletedLast
  BY DEF BodyInv
<1>2. /\ pc[t] = "notify_close" /\ fdrec' = [fdrec EXCEPT ![t] = FALSE]
      /\ registered' = [registered EXCEPT ![t] = FALSE] /\ pc' = [pc EXCEPT ![t] = "remove_listener"]
      /\ fd_' = fd_ /\ base_fd_' = base_fd_ /\ ref_' = ref_ /\ drivers_' = drivers_ /\ freed' = freed
      /\ osOpen' = osOpen /\ handles' = handles
      /\ because_deref' = because_deref /\ closable' = closable /\ deletable' = deletable
  BY Zenon DEF notify_close, shared, local, Goto
<1>3. pc \in [Thread -> Labels] /\ fdrec \in Flags /\ registered \in Flags /\ FALSE \in BOOLEAN
  BY <1>1 DEF BodyType
<1>4. pc' \in [Thread -> Labels] /\ pc'[t] = "remove_listener" /\ \A s \in Thread \ {t} : pc'[s] = pc[s]
  BY <1>2, <1>3 DEF Labels
<1>5. fdrec' \in Flags /\ ~fdrec'[t] /\ \A s \in Thread \ {t} : fdrec'[s] <=> fdrec[s]
  BY <1>2, <1>3, FlagSet, Zenon
<1>6. registered' \in Flags /\ ~registered'[t] /\ \A s \in Thread \ {t} : registered'[s] <=> registered[s]
  BY <1>2, <1>3, FlagSet, Zenon
<1>7. BodyType'
  BY <1>1, <1>2, <1>4, <1>5, <1>6, Zenon DEF BodyType
<1>8. \A s \in Thread : Dropping(s)' <=> Dropping(s)
  <2> TAKE s \in Thread
  <2>1. CASE s = t
    BY <1>2, <1>4, <2>1, Zenon DEF Dropping
  <2>2. CASE s # t
    BY <1>2, <1>4, <2>2, Zenon DEF Dropping
  <2> QED BY <2>1, <2>2
<1>9. Counted'
  BY <1>1, <1>2, <1>8, CountKept, Zenon
<1>10. Held'
  <2> SUFFICES ASSUME NEW s \in Thread
               PROVE  /\ pc'[s] = "close" /\ because_deref'[s] => ref_' = 1
                      /\ pc'[s] = "close" /\ ~because_deref'[s] => handles'[s] > 0 /\ s \in Closers
                      /\ pc'[s] = "watch" => handles'[s] > 0 /\ s \in Watchers
    BY Zenon DEF Held
  <2>1. CASE s = t
    BY <1>4, <2>1, Zenon
  <2>2. CASE s # t
    BY <1>1, <1>2, <1>4, <2>2, Zenon DEF Held
  <2> QED BY <2>1, <2>2
<1>11. Listening'
  <2> SUFFICES ASSUME NEW s \in Thread
               PROVE  /\ s \in drivers_' <=> fdrec'[s] \/ pc'[s] = "remove_listener"
                      /\ pc'[s] = "remove_listener" => ~fdrec'[s] /\ ~fd_'
                      /\ registered'[s] => fdrec'[s]
    BY Zenon DEF Listening
  <2>1. CASE s = t
    BY <1>1, <1>2, <1>4, <1>5, <1>6, <2>1, Zenon DEF Listening
  <2>2. CASE s # t
    BY <1>1, <1>2, <1>4, <1>5, <1>6, <2>2, Zenon DEF Listening
  <2> QED BY <2>1, <2>2
<1>12. drivers_ # {}
  BY <1>1, Zenon DEF Listening
<1>13. DeletedLast'
  BY <1>1, <1>2, <1>12, NoDeletion, Zenon DEF DeletedLast
<1> QED BY <1>7, <1>9, <1>10, <1>11, <1>13 DEF BodyInv

LEMMA RemoveFacts ==
  ASSUME BodyInv, NEW t \in Thread, remove_listener(t)
  PROVE  LET last == drivers_' = {}
         IN  /\ pc[t] = "remove_listener" /\ pc' = [pc EXCEPT ![t] = "unlocked"]
             /\ drivers_' = drivers_ \ {t}
             /\ deletable' \in Flags /\ (deletable'[t] <=> last /\ ref_ = 0)
             /\ \A s \in Thread \ {t} : deletable'[s] <=> deletable[s]
             /\ closable' \in Flags /\ (closable'[t] <=> last /\ ~fd_ /\ base_fd_)
             /\ \A s \in Thread \ {t} : closable'[s] <=> closable[s]
             /\ base_fd_' \in BOOLEAN /\ (base_fd_' <=> base_fd_ /\ ~(last /\ ~fd_))
             /\ fd_' = fd_ /\ ref_' = ref_ /\ freed' = freed /\ osOpen' = osOpen /\ handles' = handles
             /\ fdrec' = fdrec /\ registered' = registered /\ because_deref' = because_deref
<1> DEFINE last == drivers_' = {}
<1>1. /\ pc[t] = "remove_listener" /\ pc' = [pc EXCEPT ![t] = "unlocked"]
      /\ drivers_' = drivers_ \ {t}
      /\ fd_' = fd_ /\ ref_' = ref_ /\ freed' = freed /\ osOpen' = osOpen /\ handles' = handles
      /\ fdrec' = fdrec /\ registered' = registered /\ because_deref' = because_deref
  BY Zenon DEF remove_listener, driver, Goto
<1>2. /\ deletable' = [deletable EXCEPT ![t] = last /\ Unreferenced]
      /\ closable' = [closable EXCEPT ![t] = last /\ ~fd_ /\ base_fd_]
      /\ base_fd_' = (base_fd_ /\ ~(last /\ ~fd_))
  BY Zenon DEF remove_listener
<1>3. /\ (last /\ Unreferenced) \in BOOLEAN /\ (last /\ ~fd_ /\ base_fd_) \in BOOLEAN
      /\ (base_fd_ /\ ~(last /\ ~fd_)) \in BOOLEAN
  OBVIOUS
<1>4. deletable \in Flags /\ closable \in Flags
  BY DEF BodyInv, BodyType
<1> HIDE DEF last
<1>5. /\ deletable' \in Flags /\ (deletable'[t] <=> last /\ Unreferenced)
      /\ \A s \in Thread \ {t} : deletable'[s] <=> deletable[s]
  BY <1>2, <1>3, <1>4, FlagSet, Zenon
<1>6. /\ closable' \in Flags /\ (closable'[t] <=> last /\ ~fd_ /\ base_fd_)
      /\ \A s \in Thread \ {t} : closable'[s] <=> closable[s]
  BY <1>2, <1>3, <1>4, FlagSet, Zenon
<1>7. base_fd_' \in BOOLEAN /\ (base_fd_' <=> base_fd_ /\ ~(last /\ ~fd_))
  BY <1>2, <1>3, Zenon
<1> QED BY <1>1, <1>5, <1>6, <1>7, Zenon DEF last, Unreferenced

LEMMA RemoveKeeps ==
  ASSUME BodyInv, NEW t \in Thread, remove_listener(t)
  PROVE  BodyInv'
<1>1. BodyType /\ Counted /\ Held /\ Listening /\ DeletedLast
  BY DEF BodyInv
<1>2. /\ pc[t] = "remove_listener" /\ pc' = [pc EXCEPT ![t] = "unlocked"]
      /\ drivers_' = drivers_ \ {t}
      /\ deletable' \in Flags /\ (deletable'[t] <=> drivers_' = {} /\ ref_ = 0)
      /\ \A s \in Thread \ {t} : deletable'[s] <=> deletable[s]
      /\ closable' \in Flags /\ base_fd_' \in BOOLEAN
      /\ fd_' = fd_ /\ ref_' = ref_ /\ freed' = freed /\ osOpen' = osOpen /\ handles' = handles
      /\ fdrec' = fdrec /\ registered' = registered /\ because_deref' = because_deref
  BY RemoveFacts, Zenon
<1>3. pc \in [Thread -> Labels] /\ drivers_ \in SUBSET Thread
  BY <1>1 DEF BodyType
<1>4. /\ pc' \in [Thread -> Labels] /\ pc'[t] = "unlocked" /\ \A s \in Thread \ {t} : pc'[s] = pc[s]
      /\ drivers_' \in SUBSET Thread
  BY <1>2, <1>3 DEF Labels
<1>5. BodyType'
  BY <1>1, <1>2, <1>4, Zenon DEF BodyType
<1>6. \A s \in Thread : Dropping(s)' <=> Dropping(s)
  <2> TAKE s \in Thread
  <2>1. CASE s = t
    BY <1>2, <1>4, <2>1, Zenon DEF Dropping
  <2>2. CASE s # t
    BY <1>2, <1>4, <2>2, Zenon DEF Dropping
  <2> QED BY <2>1, <2>2
<1>7. Counted'
  BY <1>1, <1>2, <1>6, CountKept, Zenon
<1>8. Held'
  <2> SUFFICES ASSUME NEW s \in Thread
               PROVE  /\ pc'[s] = "close" /\ because_deref'[s] => ref_' = 1
                      /\ pc'[s] = "close" /\ ~because_deref'[s] => handles'[s] > 0 /\ s \in Closers
                      /\ pc'[s] = "watch" => handles'[s] > 0 /\ s \in Watchers
    BY Zenon DEF Held
  <2>1. CASE s = t
    BY <1>4, <2>1, Zenon
  <2>2. CASE s # t
    BY <1>1, <1>2, <1>4, <2>2, Zenon DEF Held
  <2> QED BY <2>1, <2>2
<1>9. t \in drivers_ /\ ~fdrec[t] /\ ~fd_
  BY <1>1, <1>2, Zenon DEF Listening
<1>10. Listening'
  <2> SUFFICES ASSUME NEW s \in Thread
               PROVE  /\ s \in drivers_' <=> fdrec'[s] \/ pc'[s] = "remove_listener"
                      /\ pc'[s] = "remove_listener" => ~fdrec'[s] /\ ~fd_'
                      /\ registered'[s] => fdrec'[s]
    BY Zenon DEF Listening
  <2>1. CASE s = t
    BY <1>1, <1>2, <1>4, <1>9, <2>1, Zenon DEF Listening
  <2>2. CASE s # t
    <3>1. s \in drivers_' <=> s \in drivers_
      BY <1>2, <2>2
    <3> QED BY <1>1, <1>2, <1>4, <2>2, <3>1, Zenon DEF Listening
  <2> QED BY <2>1, <2>2
<1>11. ~freed /\ \A s \in Thread : ~deletable[s]
  BY <1>9, NoDeletion, Zenon
<1>12. \A s \in Thread : deletable'[s] => s = t /\ drivers_' = {} /\ ref_' = 0
  BY <1>2, <1>11, Zenon
<1>13. DeletedLast'
  <2>1. \A s \in Thread : deletable'[s] => pc'[s] = "unlocked"
    BY <1>4, <1>12, Zenon
  <2>2. ~freed' /\ ~fd_'
    BY <1>2, <1>9, <1>11, Zenon
  <2>3. \A s, u \in Thread : deletable'[s] /\ deletable'[u] => s = u
    BY <1>12, Zenon
  <2>4. (\E s \in Thread : deletable'[s]) => ref_' = 0 /\ drivers_' = {} /\ ~fd_'
    BY <1>12, <2>2, Zenon
  <2> QED BY <2>1, <2>2, <2>3, <2>4, Zenon DEF DeletedLast
<1> QED BY <1>5, <1>7, <1>8, <1>10, <1>13 DEF BodyInv

\* What the steps that only move a thread leave as it is.
LEMMA Stays ==
  ASSUME BodyInv, NEW t \in Thread
  PROVE  /\ base_fd_ \in BOOLEAN /\ osOpen \in BOOLEAN /\ closable \in Flags /\ registered \in Flags
         /\ because_deref \in Flags /\ pc \in [Thread -> Labels] /\ pc[t] \in Labels
         /\ pc = [pc EXCEPT ![t] = pc[t]]
         /\ \A s \in Thread : registered[s] => fdrec[s]
         /\ \A s \in Thread : deletable[s] => pc[s] = "unlocked"
<1>1. BodyType /\ Listening /\ DeletedLast
  BY DEF BodyInv
<1>2. pc \in [Thread -> Labels]
  BY <1>1 DEF BodyType
<1>3. pc[t] \in Labels /\ pc = [pc EXCEPT ![t] = pc[t]]
  BY <1>2
<1>4. /\ base_fd_ \in BOOLEAN /\ osOpen \in BOOLEAN /\ closable \in Flags /\ registered \in Flags
      /\ because_deref \in Flags
  BY <1>1, Zenon DEF BodyType
<1>5. \A s \in Thread : (registered[s] => fdrec[s]) /\ (deletable[s] => pc[s] = "unlocked")
  BY <1>1, Zenon DEF Listening, DeletedLast
<1> QED BY <1>2, <1>3, <1>4, <1>5, Zenon

LEMMA FilenoKeeps ==
  ASSUME BodyInv, NEW t \in Thread, Fileno(t)
  PROVE  BodyInv'
<1>1. /\ pc[t] = "idle" /\ handles[t] > 0 /\ t \in Watchers /\ pc' = [pc EXCEPT ![t] = "watch"]
      /\ fd_' = fd_ /\ ref_' = ref_ /\ drivers_' = drivers_ /\ freed' = freed /\ handles' = handles
      /\ fdrec' = fdrec /\ deletable' = deletable /\ base_fd_' = base_fd_ /\ osOpen' = osOpen
      /\ closable' = closable /\ registered' = registered /\ because_deref' = because_deref
  BY Zenon DEF Fileno, Goto, shared, driver, local
<1>2. pc[t] \notin {"sub", "close", "remove_listener"} /\ pc[t] # "unlocked" /\ "watch" \in Labels
  BY <1>1 DEF Labels
<1>3. ~deletable[t]
  BY <1>2, Stays, Zenon
<1>4. "watch" \notin {"sub", "remove_listener"} /\ "watch" # "close"
  OBVIOUS
<1> QED BY <1>1, <1>2, <1>3, <1>4, Stays, MoveStep, Zenon

LEMMA BeginCloseKeeps ==
  ASSUME BodyInv, NEW t \in Thread, Close(t)
  PROVE  BodyInv'
<1>1. /\ pc[t] = "idle" /\ handles[t] > 0 /\ t \in Closers /\ pc' = [pc EXCEPT ![t] = "close"]
      /\ because_deref' = [because_deref EXCEPT ![t] = FALSE]
      /\ fd_' = fd_ /\ ref_' = ref_ /\ drivers_' = drivers_ /\ freed' = freed /\ handles' = handles
      /\ fdrec' = fdrec /\ deletable' = deletable /\ base_fd_' = base_fd_ /\ osOpen' = osOpen
      /\ closable' = closable /\ registered' = registered
  BY Zenon DEF Close, Goto, shared, driver
<1>2. pc[t] \notin {"sub", "close", "remove_listener"} /\ pc[t] # "unlocked" /\ "close" \in Labels
  BY <1>1 DEF Labels
<1>3. ~deletable[t]
  BY <1>2, Stays, Zenon
<1>4. "close" \notin {"sub", "remove_listener"} /\ "close" # "watch" /\ FALSE \in BOOLEAN
  OBVIOUS
<1>5. /\ because_deref' \in Flags /\ ~because_deref'[t]
      /\ \A s \in Thread \ {t} : because_deref'[s] <=> because_deref[s]
  <2>1. because_deref \in Flags
    BY Stays, Zenon
  <2> QED BY <1>1, <1>4, <2>1, FlagSet, Zenon
<1> QED BY <1>1, <1>2, <1>3, <1>4, <1>5, Stays, MoveStep, Zenon

LEMMA RegisterKeeps ==
  ASSUME BodyInv, NEW t \in Thread, Register(t)
  PROVE  BodyInv'
<1>1. /\ pc[t] = "idle" /\ fdrec[t] /\ registered' = [registered EXCEPT ![t] = ~@] /\ pc' = pc
      /\ fd_' = fd_ /\ ref_' = ref_ /\ drivers_' = drivers_ /\ freed' = freed /\ handles' = handles
      /\ fdrec' = fdrec /\ deletable' = deletable /\ base_fd_' = base_fd_ /\ osOpen' = osOpen
      /\ closable' = closable /\ because_deref' = because_deref
  BY Zenon DEF Register, shared, local
<1>2. pc[t] \notin {"sub", "close", "remove_listener", "watch", "unlocked"}
  BY <1>1
<1>3. registered' = [registered EXCEPT ![t] = ~registered[t]] /\ (~registered[t]) \in BOOLEAN
  BY <1>1
<1>4. registered' \in Flags /\ \A s \in Thread \ {t} : registered'[s] <=> registered[s]
  BY <1>3, Stays, FlagSet, Zenon
<1>5. \A s \in Thread : registered'[s] => fdrec[s]
  BY <1>1, <1>4, Stays, Zenon
<1>6. ~deletable[t]
  BY <1>2, Stays, Zenon
<1>7. PICK l \in Labels : l = pc[t]
  BY Stays, Zenon
<1>8. pc' = [pc EXCEPT ![t] = l]
  BY <1>1, <1>7, Stays, Zenon
<1>9. /\ pc[t] \notin {"sub", "close", "remove_listener"} /\ l \notin {"sub", "remove_listener"}
      /\ l # "close" /\ l # "watch"
  BY <1>2, <1>7
<1> QED BY <1>1, <1>4, <1>5, <1>6, <1>8, <1>9, Stays, MoveStep, Zenon

LEMMA CloseOsKeeps ==
  ASSUME BodyInv, NEW t \in Thread, CloseOs(t)
  PROVE  BodyInv'
<1>1. /\ pc[t] = "unlocked" /\ osOpen' = FALSE /\ closable' = [closable EXCEPT ![t] = FALSE] /\ pc' = pc
      /\ fd_' = fd_ /\ ref_' = ref_ /\ drivers_' = drivers_ /\ freed' = freed /\ handles' = handles
      /\ fdrec' = fdrec /\ deletable' = deletable /\ base_fd_' = base_fd_
      /\ registered' = registered /\ because_deref' = because_deref
  BY Zenon DEF CloseOs, driver
<1>2. osOpen' \in BOOLEAN /\ FALSE \in BOOLEAN /\ "unlocked" \in Labels
  BY <1>1 DEF Labels
<1>3. closable' \in Flags
  BY <1>1, <1>2, Stays, FlagSet, Zenon
<1>4. pc' = [pc EXCEPT ![t] = "unlocked"]
  BY <1>1, Stays, Zenon
<1>5. /\ pc[t] \notin {"sub", "close", "remove_listener"} /\ "unlocked" \notin {"sub", "remove_listener"}
      /\ "unlocked" # "close" /\ "unlocked" # "watch"
  BY <1>1
<1> QED BY <1>1, <1>2, <1>3, <1>4, <1>5, Stays, MoveStep, Zenon

\* The steps that do nothing but move a thread.
LEMMA PlainMove ==
  ASSUME BodyInv, NEW t \in Thread, NEW l \in {"idle", "unlocked", "notify_close"},
         pc[t] \in {"idle", "unlocked", "notify_close"}, ~deletable[t] \/ l = "unlocked",
         pc' = [pc EXCEPT ![t] = l],
         fd_' = fd_, ref_' = ref_, drivers_' = drivers_, freed' = freed, handles' = handles,
         fdrec' = fdrec, deletable' = deletable, base_fd_' = base_fd_, osOpen' = osOpen,
         closable' = closable, registered' = registered, because_deref' = because_deref
  PROVE  BodyInv'
<1>1. /\ pc[t] \notin {"sub", "close", "remove_listener"} /\ l \notin {"sub", "remove_listener"}
      /\ l # "close" /\ l # "watch" /\ l \in Labels
  BY DEF Labels
<1> QED BY <1>1, Stays, MoveStep, Zenon

LEMMA NotifyListenerKeeps ==
  ASSUME BodyInv, NEW t \in Thread, NEW d \in Thread, Notify(t, d)
  PROVE  BodyInv'
<1>1. /\ pc[t] = "unlocked" /\ ~deletable[t]
      /\ fd_' = fd_ /\ ref_' = ref_ /\ drivers_' = drivers_ /\ freed' = freed /\ handles' = handles
      /\ fdrec' = fdrec /\ deletable' = deletable /\ base_fd_' = base_fd_ /\ osOpen' = osOpen
      /\ closable' = closable /\ registered' = registered /\ because_deref' = because_deref
  BY Zenon DEF Notify, shared
<1>2. PICK l : l = IF d = t THEN "notify_close" ELSE "unlocked"
  OBVIOUS
<1>3. l \in {"idle", "unlocked", "notify_close"} /\ pc[t] \in {"idle", "unlocked", "notify_close"}
  BY <1>1, <1>2
<1>4. pc' = [pc EXCEPT ![t] = l]
  <2>1. CASE d = t
    BY <1>2, <2>1, Zenon DEF Notify, Goto
  <2>2. CASE d # t
    <3>1. pc' = pc /\ l = pc[t]
      BY <1>1, <1>2, <2>2, Zenon DEF Notify
    <3> QED BY <3>1, Stays, Zenon
  <2> QED BY <2>1, <2>2
<1> QED BY <1>1, <1>3, <1>4, PlainMove, Zenon

LEMMA ReturnKeeps ==
  ASSUME BodyInv, NEW t \in Thread, CloseReturns(t)
  PROVE  BodyInv'
<1>1. /\ pc[t] = "unlocked" /\ ~deletable[t] /\ pc' = [pc EXCEPT ![t] = "idle"]
      /\ fd_' = fd_ /\ ref_' = ref_ /\ drivers_' = drivers_ /\ freed' = freed /\ handles' = handles
      /\ fdrec' = fdrec /\ deletable' = deletable /\ base_fd_' = base_fd_ /\ osOpen' = osOpen
      /\ closable' = closable /\ registered' = registered /\ because_deref' = because_deref
  BY Zenon DEF CloseReturns, Goto, shared, driver, local
<1>2. "idle" \in {"idle", "unlocked", "notify_close"} /\ pc[t] \in {"idle", "unlocked", "notify_close"}
  BY <1>1
<1> QED BY <1>1, <1>2, PlainMove, Zenon

LEMMA MigrateKeeps ==
  ASSUME BodyInv, NEW t \in Thread, migrate_fd_close(t)
  PROVE  BodyInv'
<1>1. /\ pc[t] = "idle" /\ pc' = [pc EXCEPT ![t] = "notify_close"]
      /\ fd_' = fd_ /\ ref_' = ref_ /\ drivers_' = drivers_ /\ freed' = freed /\ handles' = handles
      /\ fdrec' = fdrec /\ deletable' = deletable /\ base_fd_' = base_fd_ /\ osOpen' = osOpen
      /\ closable' = closable /\ registered' = registered /\ because_deref' = because_deref
  BY Zenon DEF migrate_fd_close, Goto, shared, local
<1>2. /\ "notify_close" \in {"idle", "unlocked", "notify_close"}
      /\ pc[t] \in {"idle", "unlocked", "notify_close"} /\ pc[t] # "unlocked"
  BY <1>1
<1>3. ~deletable[t]
  BY <1>2, Stays, Zenon
<1> QED BY <1>1, <1>2, <1>3, PlainMove, Zenon

LEMMA NotifyNothingKeeps ==
  ASSUME BodyInv, NEW t \in Thread, notify_close(t), ~(fdrec[t] /\ ~fd_)
  PROVE  BodyInv'
<1>1. /\ pc[t] = "notify_close" /\ pc' = [pc EXCEPT ![t] = "unlocked"]
      /\ fd_' = fd_ /\ ref_' = ref_ /\ drivers_' = drivers_ /\ freed' = freed /\ handles' = handles
      /\ fdrec' = fdrec /\ deletable' = deletable /\ base_fd_' = base_fd_ /\ osOpen' = osOpen
      /\ closable' = closable /\ registered' = registered /\ because_deref' = because_deref
  BY Zenon DEF notify_close, Goto, shared, local
<1>2. "unlocked" \in {"idle", "unlocked", "notify_close"} /\ pc[t] \in {"idle", "unlocked", "notify_close"}
  BY <1>1
<1> QED BY <1>1, <1>2, PlainMove, Zenon

LEMMA BodyStart ==
  ASSUME Init
  PROVE  BodyInv
<1>1. PICK t \in Thread : handles = [u \in Thread |-> IF u = t THEN 1 ELSE 0]
  BY Zenon DEF Init
<1>2. /\ fd_ = TRUE /\ base_fd_ = TRUE /\ ref_ = 1 /\ drivers_ = {} /\ freed = FALSE /\ osOpen = TRUE
      /\ fdrec = [u \in Thread |-> FALSE] /\ registered = [u \in Thread |-> FALSE]
      /\ pc = [u \in Thread |-> "idle"] /\ because_deref = [u \in Thread |-> FALSE]
      /\ closable = [u \in Thread |-> FALSE] /\ deletable = [u \in Thread |-> FALSE]
  BY Zenon DEF Init
<1>3. BodyType
  BY <1>1, <1>2 DEF BodyType, Flags, Labels
<1>4. \A u \in Thread : pc[u] = "idle" /\ ~fdrec[u] /\ ~registered[u] /\ ~deletable[u]
  BY <1>2, Zenon
<1>5. \A u \in Thread : ~Dropping(u)
  BY <1>4 DEF Dropping
<1>6. \A u \in Thread, i \in Nat : <<u, i>> \in Refs <=> <<u, i>> = <<t, 1>>
  <2> TAKE u \in Thread, i \in Nat
  <2>1. <<u, i>> \in Refs <=> i \in 1 .. handles[u]
    BY <1>3, <1>5, RefIn
  <2>2. i \in 1 .. handles[u] <=> u = t /\ i = 1
    BY <1>1
  <2>3. <<u, i>> = <<t, 1>> <=> u = t /\ i = 1
    OBVIOUS
  <2> QED BY <2>1, <2>2, <2>3, Zenon
<1>7. Refs \subseteq Thread \X Nat /\ <<t, 1>> \in Thread \X Nat
  BY DEF Refs
<1>8. Refs = {<<t, 1>>}
  BY <1>6, <1>7
<1>9. Counted
  BY <1>2, <1>8, FS_Singleton, Zenon DEF Counted
<1>10. Held
  BY <1>4 DEF Held
<1>11. Listening
  BY <1>2, <1>4 DEF Listening
<1>12. DeletedLast
  BY <1>2, <1>4, Zenon DEF DeletedLast
<1> QED BY <1>3, <1>9, <1>10, <1>11, <1>12 DEF BodyInv

LEMMA BodyKeeps ==
  ASSUME BodyInv, [Next]_vars
  PROVE  BodyInv'
<1>1. ASSUME NEW t \in Thread, Step(t)
      PROVE  BodyInv'
  <2>1. CASE \E u \in Thread : ref(t, u) \/ Notify(t, u)
    BY <2>1, CopyKeeps, NotifyListenerKeeps, Zenon
  <2>2. CASE Fileno(t) \/ add_listener(t) \/ Register(t)
    BY <2>2, FilenoKeeps, ListenKeeps, RegisterKeeps, Zenon
  <2>3. CASE Deref(t) \/ DerefSub(t) \/ Close(t) \/ close(t)
    BY <2>3, DerefKeeps, SubKeeps, BeginCloseKeeps, CloseKeeps, Zenon
  <2>4. CASE CloseOs(t) \/ Delete(t) \/ CloseReturns(t)
    BY <2>4, CloseOsKeeps, DeleteKeeps, ReturnKeeps, Zenon
  <2>5. CASE migrate_fd_close(t) \/ notify_close(t) \/ remove_listener(t)
    BY <2>5, MigrateKeeps, NotifyKeeps, NotifyNothingKeeps, RemoveKeeps, Zenon
  <2> QED BY <1>1, <2>1, <2>2, <2>3, <2>4, <2>5, Zenon DEF Step
<1>2. CASE UNCHANGED vars
  <2>1. /\ fd_' = fd_ /\ ref_' = ref_ /\ drivers_' = drivers_ /\ freed' = freed /\ handles' = handles
        /\ fdrec' = fdrec /\ deletable' = deletable /\ base_fd_' = base_fd_ /\ osOpen' = osOpen
        /\ closable' = closable /\ registered' = registered /\ because_deref' = because_deref /\ pc' = pc
    BY <1>2, Zenon DEF vars, shared, driver, local
  <2>2. BodyType /\ Counted /\ Held /\ Listening /\ DeletedLast
    BY DEF BodyInv
  <2>3. BodyType' /\ Held' /\ Listening' /\ DeletedLast'
    BY <2>1, <2>2, Zenon DEF BodyType, Held, Listening, DeletedLast
  <2>4. Counted'
    BY <2>1, <2>2, Zenon DEF Counted, Refs, Dropping
  <2> QED BY <2>3, <2>4 DEF BodyInv
<1> QED BY <1>1, <1>2, Zenon DEF Next

\* Who uses the body has a reference or is a listener.
LEMMA AliveByCount ==
  ASSUME BodyInv
  PROVE  BodyAlive
<1>1. BodyType /\ Counted /\ Held /\ Listening /\ DeletedLast
  BY DEF BodyInv
<1>2. ASSUME freed, NEW t \in Thread
      PROVE  ~Using(t) /\ ~Deleting(t)
  <2>1. ref_ = 0 /\ drivers_ = {} /\ ~deletable[t]
    BY <1>1, <1>2, Zenon DEF DeletedLast
  <2>2. ~(handles[t] > 0) /\ ~Dropping(t)
    BY <1>1, <2>1, SomeRef
  <2>3. ~fdrec[t] /\ pc[t] # "remove_listener"
    BY <1>1, <2>1, Zenon DEF Listening
  <2>4. pc[t] # "watch" /\ pc[t] # "sub" /\ pc[t] # "close"
    BY <1>1, <2>2, Zenon DEF Held, Dropping
  <2> QED BY <2>1, <2>2, <2>3, <2>4 DEF Using, Deleting
<1>3. \A t, u \in Thread : Deleting(t) /\ Deleting(u) => t = u
  BY <1>1, Zenon DEF Deleting, DeletedLast
<1> QED BY <1>2, <1>3, Zenon DEF BodyAlive

LEMMA BodyAlways == Spec => []BodyInv
<1>1. Init => BodyInv
  BY BodyStart
<1>2. BodyInv /\ [Next]_vars => BodyInv'
  BY BodyKeeps
<1> QED BY <1>1, <1>2, PTL DEF Spec

(***************************************************************************)
(* The body of a descriptor is deleted at most once, and never while an fd *)
(* object, a driver's record or a call in progress on any thread will      *)
(* still use it, for any threads, watchers and closers and any number of   *)
(* copies.  A deref whose subtraction is a second access after the read of *)
(* the count is harmless to this.                                          *)
(***************************************************************************)
THEOREM BodyOutlivesUse == Spec => []BodyAlive
<1>1. BodyInv => BodyAlive
  BY AliveByCount
<1> QED BY <1>1, BodyAlways, PTL

-----------------------------------------------------------------------------
(* The watches of a driver: the inductive invariant.                        *)

Bits == {"read", "write", "close"}
Registration == [mask : SUBSET Bits, epoch : Nat, gen : Nat]

FdsType ==
  /\ gen \in Nat /\ body \in Nat /\ epoch \in Nat
  /\ open \in BOOLEAN /\ update \in BOOLEAN
  /\ wlist \subseteq Watch /\ chain \subseteq Watch
  /\ kernel \in Registration /\ batch \in Registration
  /\ watch \in [Watch -> [mask : SUBSET Bits, gen : Nat]]
  /\ ev \in [Watch -> {"none", "live", "empty", "triggered"}]

\* The watches are handed out in the order of their numbers, and no list holds one
\* that is still to come.
Installed ==
  /\ \E k \in 0 .. MaxWatch : \A w \in Watch : ev[w] # "none" <=> w <= k
  /\ \A w \in wlist : ev[w] # "none"
  /\ \A w \in chain : ev[w] # "none"

\* A watch somebody waits for, while it is on the list of the fdrec, is one on the
\* present opening of the number, and the driver listens to its body.
WatchesCurrent ==
  \A w \in wlist :
    Live(w) => open /\ body = gen /\ watch[w].gen = gen /\ watch[w].mask # {}

\* A registration is of the present epoch, and that is not the one of a new fdrec.
EpochCurrent == kernel.mask # {} => kernel.epoch = epoch /\ epoch >= user_epoch

\* An fdrec that is not on the update list needs no update.
Updated ==
  /\ phase = "wait" => update = FALSE
  /\ update = FALSE => \A w \in wlist : Live(w) => watch[w].mask \subseteq kernel.mask

\* An unprocessed event has an epoch of its own, and while it is the fdrec's the
\* number is still open as it was when epoll_wait returned.
BatchCurrent ==
  /\ phase \in {"user", "update", "wait"} => batch = NoEvent
  /\ phase = "batch" =>
       /\ batch.epoch >= user_epoch /\ batch.epoch <= epoch
       /\ batch.epoch = epoch => open /\ body = gen /\ batch.gen = gen

FdsInv ==
  /\ FdsType /\ Installed /\ WatchesCurrent /\ KernelExact /\ EpochCurrent
  /\ Updated /\ BatchCurrent /\ NoStaleWake

LEMMA FdsInitInv == FdsInit => FdsInv
<1> SUFFICES ASSUME FdsInit PROVE FdsInv
  OBVIOUS
<1>0. MaxWatch \in Nat
  BY WatchAssumption
<1>1. FdsType
  BY DEF FdsInit, FdsType, Registration, NoEvent
<1>2. Installed
  <2>1. 0 \in 0 .. MaxWatch /\ \A w \in Watch : ev[w] # "none" <=> w <= 0
    BY <1>0 DEF FdsInit, Watch
  <2> QED BY <2>1 DEF FdsInit, Installed
<1>3. WatchesCurrent /\ Updated /\ NoStaleWake
  BY DEF FdsInit, WatchesCurrent, Updated, NoStaleWake
<1>4. KernelExact /\ EpochCurrent
  BY DEF FdsInit, KernelExact, EpochCurrent, NoEvent
<1>5. BatchCurrent
  BY DEF FdsInit, BatchCurrent
<1> QED BY <1>1, <1>2, <1>3, <1>4, <1>5 DEF FdsInv

\* The number of the next watch is that of none before.
LEMMA NextUnused ==
  ASSUME FdsType, Installed, NextWatch \in Watch
  PROVE  \A w \in Watch : ev[w] # "none" <=> w < NextWatch
<1>0. MaxWatch \in Nat
  BY WatchAssumption
<1>1. PICK k \in 0 .. MaxWatch : \A w \in Watch : ev[w] # "none" <=> w <= k
  BY DEF Installed
<1>2. {w \in Watch : ev[w] # "none"} = 1 .. k
  BY <1>0, <1>1 DEF Watch
<1>3. Cardinality(1 .. k) = k
  <2>1. Cardinality(1 .. k) = IF 1 > k THEN 0 ELSE k - 1 + 1
    BY <1>0, <1>1, FS_Interval
  <2> QED BY <2>1, <1>0, <1>1
<1>4. NextWatch = k + 1
  BY <1>2, <1>3 DEF NextWatch
<1> QED BY <1>0, <1>1, <1>4 DEF Watch

\* Lists stay lists of installed watches when no event goes back to "none".
LEMMA InstalledKept ==
  ASSUME FdsType, Installed,
         \A w \in Watch : ev'[w] # "none" <=> ev[w] # "none",
         wlist' \subseteq wlist \cup chain, chain' \subseteq wlist \cup chain
  PROVE  Installed'
<1>1. PICK k \in 0 .. MaxWatch : \A w \in Watch : ev[w] # "none" <=> w <= k
  BY Zenon DEF Installed
<1>2. \A w \in Watch : ev'[w] # "none" <=> w <= k
  BY <1>1, Zenon
<1>3. \A w \in wlist' \cup chain' : w \in Watch /\ ev[w] # "none"
  BY Zenon DEF FdsType, Installed
<1>4. \A w \in wlist' \cup chain' : ev'[w] # "none"
  BY <1>3, Zenon
<1> QED BY <1>1, <1>2, <1>4, Zenon DEF Installed, Watch

\* A new watch on an open or a closed descriptor.
LEMMA InstalledNext ==
  ASSUME FdsType, Installed, NextWatch \in Watch,
         ev' = [ev EXCEPT ![NextWatch] = "live"],
         wlist' = wlist \/ wlist' = wlist \cup {NextWatch}, chain' = chain
  PROVE  Installed'
<1>0. MaxWatch \in Nat /\ NextWatch \in 1 .. MaxWatch
  BY WatchAssumption DEF Watch
<1>1. \A w \in Watch : ev[w] # "none" <=> w < NextWatch
  BY NextUnused
<1>2. DOMAIN ev = Watch
  BY DEF FdsType
<1> DEFINE n == NextWatch
<1>3. ev' = [ev EXCEPT ![n] = "live"] /\ n \in Watch /\ n \in 1 .. MaxWatch
  BY <1>0
<1>4. \A w \in Watch : ev[w] # "none" <=> w < n
  BY <1>1
<1>5. wlist' \subseteq wlist \cup {n}
  OBVIOUS
<1> HIDE DEF n
<1>6. n \in 0 .. MaxWatch /\ \A w \in Watch : ev'[w] # "none" <=> w <= n
  BY <1>0, <1>2, <1>3, <1>4 DEF Watch
<1>7. \A w \in wlist' : ev'[w] # "none"
  BY <1>2, <1>3, <1>5 DEF Installed, FdsType
<1>8. \A w \in chain' : ev'[w] # "none"
  BY <1>2, <1>3 DEF Installed, FdsType
<1> QED BY <1>6, <1>7, <1>8, Zenon DEF Installed, Watch

-----------------------------------------------------------------------------
(* Coroutines: watches, closes, openings.                                   *)

\* What a new watch leaves alone.
LEMMA NewWatch ==
  ASSUME FdsInv, NEW m \in Mask, NextWatch \in Watch,
         watch' = [watch EXCEPT ![NextWatch] = [mask |-> m, gen |-> gen]],
         ev' = [ev EXCEPT ![NextWatch] = "live"]
  PROVE  /\ watch' \in [Watch -> [mask : SUBSET Bits, gen : Nat]]
         /\ ev' \in [Watch -> {"none", "live", "empty", "triggered"}]
         /\ \A w \in wlist \cup chain : w # NextWatch /\ watch'[w] = watch[w] /\ ev'[w] = ev[w]
         /\ watch'[NextWatch] = [mask |-> m, gen |-> gen] /\ m # {}
<1>0. FdsType /\ Installed
  BY DEF FdsInv
<1>1. m \subseteq Bits /\ m # {}
  BY WatchAssumption DEF Bits
<1>2. \A w \in Watch : ev[w] # "none" <=> w < NextWatch
  BY <1>0, NextUnused
<1> DEFINE n == NextWatch
<1>3. /\ watch' = [watch EXCEPT ![n] = [mask |-> m, gen |-> gen]]
      /\ ev' = [ev EXCEPT ![n] = "live"] /\ n \in Watch
      /\ \A w \in Watch : ev[w] # "none" <=> w < n
  BY <1>2
<1> HIDE DEF n
<1>4. n \in Nat
  BY <1>3 DEF Watch
<1>5. ~(n < n)
  BY <1>4
<1>6. \A w \in wlist \cup chain : w # n
  BY <1>0, <1>3, <1>5, Zenon DEF Installed
<1>7. [mask |-> m, gen |-> gen] \in [mask : SUBSET Bits, gen : Nat]
  BY <1>0, <1>1 DEF FdsType
<1>8. watch' \in [Watch -> [mask : SUBSET Bits, gen : Nat]]
  BY <1>0, <1>3, <1>7, Zenon DEF FdsType
<1>9. ev' \in [Watch -> {"none", "live", "empty", "triggered"}]
  BY <1>0, <1>3, Zenon DEF FdsType
<1>10. \A w \in wlist \cup chain : watch'[w] = watch[w] /\ ev'[w] = ev[w]
  <2>1. wlist \cup chain \subseteq Watch /\ DOMAIN watch = Watch /\ DOMAIN ev = Watch
    BY <1>0 DEF FdsType
  <2> QED BY <2>1, <1>3, <1>6
<1>11. watch'[n] = [mask |-> m, gen |-> gen]
  BY <1>0, <1>3, Zenon DEF FdsType
<1> QED BY <1>1, <1>6, <1>8, <1>9, <1>10, <1>11 DEF n

LEMMA FileEventInv ==
  ASSUME FdsInv, NEW m \in Mask, file_event(m)
  PROVE  FdsInv'
<1>0. /\ FdsType /\ Installed /\ WatchesCurrent /\ KernelExact /\ EpochCurrent
      /\ Updated /\ BatchCurrent /\ NoStaleWake
  BY DEF FdsInv
<1>1. /\ phase \in {"user", "batch", "chain"} /\ open /\ NextWatch \in Watch
      /\ watch' = [watch EXCEPT ![NextWatch] = [mask |-> m, gen |-> gen]]
      /\ ev' = [ev EXCEPT ![NextWatch] = "live"]
      /\ wlist' = wlist \cup {NextWatch} /\ body' = gen /\ update' = TRUE
      /\ phase' = phase /\ gen' = gen /\ open' = open /\ epoch' = epoch
      /\ fdctl' = fdctl /\ kernel' = kernel /\ batch' = batch /\ chain' = chain
  BY DEF file_event, UserTurn, osvars, kvars
<1> DEFINE n == NextWatch
<1>2. /\ watch' \in [Watch -> [mask : SUBSET Bits, gen : Nat]]
      /\ ev' \in [Watch -> {"none", "live", "empty", "triggered"}]
      /\ \A w \in wlist \cup chain : w # n /\ watch'[w] = watch[w] /\ ev'[w] = ev[w]
      /\ watch'[n] = [mask |-> m, gen |-> gen] /\ m # {}
  BY <1>1, NewWatch
<1>3. wlist' = wlist \cup {n} /\ n \in Watch
  BY <1>1
<1>4. Installed'
  BY <1>0, <1>1, InstalledNext
<1> HIDE DEF n
<1>5. FdsType'
  BY <1>0, <1>1, <1>2, <1>3 DEF FdsType
<1>6. WatchesCurrent'
  <2> SUFFICES ASSUME NEW w \in wlist', Live(w)'
               PROVE  open' /\ body' = gen' /\ watch'[w].gen = gen' /\ watch'[w].mask # {}
    BY DEF WatchesCurrent
  <2>1. CASE w = n
    BY <2>1, <1>1, <1>2
  <2>2. CASE w \in wlist
    BY <2>2, <1>0, <1>1, <1>2 DEF WatchesCurrent, Live
  <2> QED BY <2>1, <2>2, <1>3
<1>7. KernelExact' /\ EpochCurrent'
  BY <1>0, <1>1 DEF KernelExact, EpochCurrent
<1>8. Updated'
  BY <1>1 DEF Updated
<1>9. BatchCurrent'
  BY <1>0, <1>1 DEF BatchCurrent, NoEvent
<1>10. NoStaleWake'
  BY <1>0, <1>1, <1>2 DEF NoStaleWake, Live, NoEvent
<1> QED BY <1>4, <1>5, <1>6, <1>7, <1>8, <1>9, <1>10, Zenon DEF FdsInv

LEMMA FileEventClosedInv ==
  ASSUME FdsInv, NEW m \in Mask, FileEventClosed(m)
  PROVE  FdsInv'
<1>0. /\ FdsType /\ Installed /\ WatchesCurrent /\ KernelExact /\ EpochCurrent
      /\ Updated /\ BatchCurrent /\ NoStaleWake
  BY DEF FdsInv
<1>1. /\ phase \in {"user", "batch", "chain"} /\ NextWatch \in Watch
      /\ watch' = [watch EXCEPT ![NextWatch] = [mask |-> m, gen |-> gen]]
      /\ ev' = [ev EXCEPT ![NextWatch] = "live"]
      /\ wlist' = wlist /\ body' = body /\ update' = update
      /\ phase' = phase /\ gen' = gen /\ open' = open /\ epoch' = epoch
      /\ fdctl' = fdctl /\ kernel' = kernel /\ batch' = batch /\ chain' = chain
  BY DEF FileEventClosed, UserTurn, osvars, kvars, recvars
<1>2. /\ watch' \in [Watch -> [mask : SUBSET Bits, gen : Nat]]
      /\ ev' \in [Watch -> {"none", "live", "empty", "triggered"}]
      /\ \A w \in wlist \cup chain : watch'[w] = watch[w] /\ ev'[w] = ev[w]
  BY <1>1, NewWatch
<1>4. Installed'
  BY <1>0, <1>1, InstalledNext
<1>5. FdsType'
  BY <1>0, <1>1, <1>2 DEF FdsType
<1>6. WatchesCurrent'
  BY <1>0, <1>1, <1>2 DEF WatchesCurrent, Live
<1>7. KernelExact' /\ EpochCurrent'
  BY <1>0, <1>1 DEF KernelExact, EpochCurrent
<1>8. Updated'
  BY <1>0, <1>1, <1>2 DEF Updated, Live
<1>9. BatchCurrent'
  BY <1>0, <1>1 DEF BatchCurrent, NoEvent
<1>10. NoStaleWake'
  BY <1>0, <1>1, <1>2 DEF NoStaleWake, Live, NoEvent
<1> QED BY <1>4, <1>5, <1>6, <1>7, <1>8, <1>9, <1>10, Zenon DEF FdsInv

LEMMA AbandonInv ==
  ASSUME FdsInv, NEW w \in Watch, Abandon(w)
  PROVE  FdsInv'
<1>0. /\ FdsType /\ Installed /\ WatchesCurrent /\ KernelExact /\ EpochCurrent
      /\ Updated /\ BatchCurrent /\ NoStaleWake
  BY DEF FdsInv
<1>1. /\ ev[w] = "live" /\ ev' = [ev EXCEPT ![w] = "empty"] /\ watch' = watch
      /\ wlist' = wlist /\ body' = body /\ update' = update
      /\ phase' = phase /\ gen' = gen /\ open' = open /\ epoch' = epoch
      /\ fdctl' = fdctl /\ kernel' = kernel /\ batch' = batch /\ chain' = chain
  BY DEF Abandon, Live, osvars, kvars, recvars
<1>2. \A u \in Watch : (ev'[u] # "none" <=> ev[u] # "none") /\ (Live(u)' => Live(u))
  BY <1>0, <1>1 DEF FdsType, Live
<1>3. wlist \subseteq Watch /\ chain \subseteq Watch
  BY <1>0 DEF FdsType
<1>4. Installed'
  BY <1>0, <1>1, <1>2, InstalledKept
<1>5. FdsType'
  BY <1>0, <1>1 DEF FdsType
<1>6. WatchesCurrent'
  BY <1>0, <1>1, <1>2, <1>3, Zenon DEF WatchesCurrent
<1>7. KernelExact' /\ EpochCurrent'
  BY <1>0, <1>1 DEF KernelExact, EpochCurrent
<1>8. Updated'
  BY <1>0, <1>1, <1>2, <1>3, Zenon DEF Updated
<1>9. BatchCurrent'
  BY <1>0, <1>1 DEF BatchCurrent, NoEvent
<1>10. NoStaleWake'
  BY <1>0, <1>1, <1>2, <1>3, Zenon DEF NoStaleWake, NoEvent
<1> QED BY <1>4, <1>5, <1>6, <1>7, <1>8, <1>9, <1>10, Zenon DEF FdsInv

\* Triggering takes no event back and makes none live.
LEMMA TriggeredFact ==
  ASSUME FdsType, NEW ws, ev' = Triggered(ws)
  PROVE  /\ ev' \in [Watch -> {"none", "live", "empty", "triggered"}]
         /\ \A u \in Watch : (ev'[u] # "none" <=> ev[u] # "none") /\ (Live(u)' => Live(u))
<1>1. ev' = [w \in Watch |-> IF w \in ws /\ ev[w] = "live" THEN "triggered" ELSE ev[w]]
  BY Zenon DEF Triggered, Live
<1> QED BY <1>1 DEF FdsType, Live

LEMMA CloseWatchedInv ==
  ASSUME FdsInv, CloseWatched
  PROVE  FdsInv'
<1>0. /\ FdsType /\ Installed /\ WatchesCurrent /\ KernelExact /\ EpochCurrent
      /\ Updated /\ BatchCurrent /\ NoStaleWake
  BY DEF FdsInv
<1>1. /\ phase \in {"user", "batch", "chain"} /\ open' = FALSE
      /\ ev' = Triggered(wlist) /\ wlist' = {}
      /\ epoch' = epoch + 1 /\ update' = TRUE /\ body' = 0
      /\ phase' = phase /\ gen' = gen /\ batch' = batch /\ chain' = chain /\ watch' = watch
      /\ apply_fd_update({}, epoch)
  BY DEF CloseWatched, UserTurn, ClosedEpoch
<1>2. /\ ev' \in [Watch -> {"none", "live", "empty", "triggered"}]
      /\ \A u \in Watch : (ev'[u] # "none" <=> ev[u] # "none") /\ (Live(u)' => Live(u))
  BY <1>0, <1>1, TriggeredFact, Zenon
<1>3. kernel'.mask = {} /\ fdctl' = {} /\ kernel' \in Registration
  BY <1>0, <1>1 DEF apply_fd_update, kvars, NoEvent, KernelExact, FdsType, Registration
<1>4. Installed'
  BY <1>0, <1>1, <1>2, InstalledKept
<1>5. FdsType'
  <2>1. epoch' \in Nat /\ body' \in Nat /\ gen' \in Nat
    BY <1>0, <1>1 DEF FdsType
  <2>2. open' \in BOOLEAN /\ update' \in BOOLEAN /\ wlist' \subseteq Watch /\ chain' \subseteq Watch
    BY <1>0, <1>1, Zenon DEF FdsType
  <2> QED BY <1>0, <1>1, <1>2, <1>3, <2>1, <2>2, Zenon DEF FdsType
<1>6. WatchesCurrent' /\ Updated'
  BY <1>1 DEF WatchesCurrent, Updated
<1>7. KernelExact' /\ EpochCurrent'
  BY <1>3 DEF KernelExact, EpochCurrent
<1>9. BatchCurrent'
  <2>1. epoch \in Nat /\ batch.epoch \in Nat
    BY <1>0 DEF FdsType, Registration
  <2> QED BY <1>0, <1>1, <2>1 DEF BatchCurrent, NoEvent
<1>10. NoStaleWake'
  <2>1. chain \subseteq Watch
    BY <1>0 DEF FdsType
  <2> QED BY <1>0, <1>1, <1>2, <2>1, Zenon DEF NoStaleWake, NoEvent
<1> QED BY <1>4, <1>5, <1>6, <1>7, <1>9, <1>10, Zenon DEF FdsInv

LEMMA CloseUnwatchedInv ==
  ASSUME FdsInv, CloseUnwatched
  PROVE  FdsInv'
<1>0. /\ FdsType /\ Installed /\ WatchesCurrent /\ KernelExact /\ EpochCurrent
      /\ Updated /\ BatchCurrent /\ NoStaleWake
  BY DEF FdsInv
<1>1. /\ body # gen /\ open' = FALSE /\ ev' = ev /\ watch' = watch
      /\ wlist' = wlist /\ body' = body /\ update' = update
      /\ phase' = phase /\ gen' = gen /\ epoch' = epoch
      /\ fdctl' = fdctl /\ kernel' = kernel /\ batch' = batch /\ chain' = chain
  BY DEF CloseUnwatched, kvars, recvars
<1>4. Installed'
  BY <1>0, <1>1, InstalledKept
<1>5. FdsType'
  BY <1>0, <1>1 DEF FdsType
<1>6. WatchesCurrent' /\ Updated'
  BY <1>0, <1>1, Zenon DEF WatchesCurrent, Updated, Live
<1>7. KernelExact' /\ EpochCurrent'
  BY <1>0, <1>1, Zenon DEF KernelExact, EpochCurrent
<1>9. BatchCurrent'
  BY <1>0, <1>1, Zenon DEF BatchCurrent, NoEvent
<1>10. NoStaleWake'
  BY <1>0, <1>1, Zenon DEF NoStaleWake, NoEvent, Live
<1> QED BY <1>4, <1>5, <1>6, <1>7, <1>9, <1>10, Zenon DEF FdsInv

LEMMA OpenInv ==
  ASSUME FdsInv, Open
  PROVE  FdsInv'
<1>0. /\ FdsType /\ Installed /\ WatchesCurrent /\ KernelExact /\ EpochCurrent
      /\ Updated /\ BatchCurrent /\ NoStaleWake
  BY DEF FdsInv
<1>1. /\ ~open /\ open' = TRUE /\ gen' = gen + 1 /\ ev' = ev /\ watch' = watch
      /\ wlist' = wlist /\ body' = body /\ update' = update
      /\ phase' = phase /\ epoch' = epoch
      /\ fdctl' = fdctl /\ kernel' = kernel /\ batch' = batch /\ chain' = chain
  BY DEF Open, kvars, recvars
<1>4. Installed'
  BY <1>0, <1>1, InstalledKept
<1>5. FdsType'
  BY <1>0, <1>1 DEF FdsType
<1>6. WatchesCurrent' /\ Updated'
  BY <1>0, <1>1, Zenon DEF WatchesCurrent, Updated, Live
<1>7. KernelExact' /\ EpochCurrent'
  BY <1>0, <1>1, Zenon DEF KernelExact, EpochCurrent
<1>9. BatchCurrent'
  BY <1>0, <1>1, Zenon DEF BatchCurrent, NoEvent
<1>10. NoStaleWake'
  BY <1>0, <1>1, Zenon DEF NoStaleWake, NoEvent, Live
<1> QED BY <1>4, <1>5, <1>6, <1>7, <1>9, <1>10, Zenon DEF FdsInv

-----------------------------------------------------------------------------
(* The loop.                                                                *)

LEMMA TakeAllInv ==
  ASSUME FdsInv, TakeAllWatches
  PROVE  FdsInv'
<1>0. /\ FdsType /\ Installed /\ WatchesCurrent /\ KernelExact /\ EpochCurrent
      /\ Updated /\ BatchCurrent /\ NoStaleWake
  BY DEF FdsInv
<1>1. /\ phase = "user" /\ phase' = "chain" /\ chain' = wlist /\ wlist' = {}
      /\ update' = (update \/ wlist # {})
      /\ gen' = gen /\ open' = open /\ body' = body /\ epoch' = epoch
      /\ fdctl' = fdctl /\ kernel' = kernel /\ batch' = batch /\ watch' = watch /\ ev' = ev
  BY DEF TakeAllWatches, kvars, osvars
<1>4. Installed'
  BY <1>0, <1>1, InstalledKept
<1>5. FdsType'
  BY <1>0, <1>1 DEF FdsType
<1>6. WatchesCurrent' /\ Updated'
  BY <1>1 DEF WatchesCurrent, Updated
<1>7. KernelExact' /\ EpochCurrent'
  BY <1>0, <1>1, Zenon DEF KernelExact, EpochCurrent
<1>9. BatchCurrent'
  BY <1>1 DEF BatchCurrent
<1>10. NoStaleWake'
  <2>1. batch' = NoEvent
    BY <1>0, <1>1 DEF BatchCurrent
  <2> QED BY <2>1 DEF NoStaleWake, NoEvent
<1> QED BY <1>4, <1>5, <1>6, <1>7, <1>9, <1>10, Zenon DEF FdsInv

\* A step that only moves the loop on to another part, with no event at hand.
LEMMA MoveOn ==
  ASSUME FdsInv, batch = NoEvent, batch' = NoEvent, phase' \in {"user", "update", "wait"},
         phase' = "wait" => ~update,
         UNCHANGED <<gen, open, body, epoch, wlist, update, fdctl, kernel, chain, watch, ev>>
  PROVE  FdsInv'
<1>0. /\ FdsType /\ Installed /\ WatchesCurrent /\ KernelExact /\ EpochCurrent
      /\ Updated /\ BatchCurrent /\ NoStaleWake
  BY DEF FdsInv
<1>1. /\ gen' = gen /\ open' = open /\ body' = body /\ epoch' = epoch /\ wlist' = wlist
      /\ update' = update /\ fdctl' = fdctl /\ kernel' = kernel /\ chain' = chain
      /\ watch' = watch /\ ev' = ev /\ batch' = batch
  OBVIOUS
<1>4. Installed'
  BY <1>0, <1>1, InstalledKept
<1>5. FdsType'
  BY <1>0, <1>1 DEF FdsType
<1>6. WatchesCurrent' /\ Updated'
  BY <1>0, <1>1 DEF WatchesCurrent, Updated, Live, FdsType
<1>7. KernelExact' /\ EpochCurrent'
  BY <1>0, <1>1 DEF KernelExact, EpochCurrent
<1>9. BatchCurrent'
  BY DEF BatchCurrent, NoEvent
<1>10. NoStaleWake'
  BY DEF NoStaleWake
<1> QED BY <1>4, <1>5, <1>6, <1>7, <1>9, <1>10, Zenon DEF FdsInv

LEMMA EndUserInv ==
  ASSUME FdsInv, EndUser PROVE FdsInv'
<1>1. batch = NoEvent /\ batch' = NoEvent
  BY DEF FdsInv, BatchCurrent, EndUser, NoEvent
<1>2. UNCHANGED <<gen, open, body, epoch, wlist, update, fdctl, kernel, chain, watch, ev>>
  BY DEF EndUser, osvars, recvars, kvars
<1> QED BY <1>1, <1>2, MoveOn DEF EndUser

LEMMA UpdatesDoneInv ==
  ASSUME FdsInv, UpdatesDone PROVE FdsInv'
<1>1. batch = NoEvent /\ batch' = NoEvent
  BY DEF FdsInv, BatchCurrent, UpdatesDone, NoEvent
<1>2. UNCHANGED <<gen, open, body, epoch, wlist, update, fdctl, kernel, chain, watch, ev>>
  BY DEF UpdatesDone, osvars, recvars, kvars
<1> QED BY <1>1, <1>2, MoveOn DEF UpdatesDone

LEMMA WaitEmptyInv ==
  ASSUME FdsInv, WaitEmpty PROVE FdsInv'
<1>1. batch = NoEvent /\ batch' = NoEvent
  BY DEF FdsInv, BatchCurrent, WaitEmpty, NoEvent
<1>2. UNCHANGED <<gen, open, body, epoch, wlist, update, fdctl, kernel, chain, watch, ev>>
  BY DEF WaitEmpty, osvars, recvars, kvars
<1> QED BY <1>1, <1>2, MoveOn DEF WaitEmpty

\* pop_update registers the union of the masks of the watches somebody waits for,
\* so that afterwards no update is needed.
LEMMA PopUpdateInv ==
  ASSUME FdsInv, pop_update
  PROVE  FdsInv'
<1>0. /\ FdsType /\ Installed /\ WatchesCurrent /\ KernelExact /\ EpochCurrent
      /\ Updated /\ BatchCurrent /\ NoStaleWake
  BY DEF FdsInv
<1> DEFINE mask == watch_list_mask(wlist)
           e == IF mask # {} /\ epoch < user_epoch THEN user_epoch ELSE epoch
<1>1. /\ phase = "update" /\ phase' = phase /\ update' = FALSE
      /\ gen' = gen /\ open' = open /\ body' = body /\ wlist' = wlist
      /\ batch' = batch /\ chain' = chain /\ watch' = watch /\ ev' = ev
  BY DEF pop_update, osvars
<1>2. epoch' = (IF mask = {} THEN epoch + 1 ELSE e) /\ apply_fd_update(mask, e)
  BY DEF pop_update
<1>3. \A w \in wlist : Live(w) => watch[w].mask \subseteq mask
  BY Zenon DEF watch_list_mask
<1>4. mask # {} => open /\ body = gen
  <2>1. mask # {} => \E w \in wlist : Live(w)
    BY Zenon DEF watch_list_mask
  <2> QED BY <1>0, <2>1, Zenon DEF WatchesCurrent
<1>5. mask \subseteq Bits
  <2>1. \A w \in wlist : watch[w].mask \subseteq Bits
    BY <1>0 DEF FdsType
  <2> QED BY <2>1, Zenon DEF watch_list_mask
<1> HIDE DEF mask
<1>6. epoch \in Nat /\ e \in Nat /\ (mask # {} => e >= user_epoch) /\ e >= epoch
  BY <1>0 DEF FdsType, user_epoch
<1>7. epoch >= user_epoch => e = epoch
  BY <1>6 DEF user_epoch
<1> HIDE DEF e
<1>8. kernel \in Registration /\ gen \in Nat
  BY <1>0 DEF FdsType
<1>9. KernelExact' /\ EpochCurrent' /\ kernel'.mask = mask /\ kernel' \in Registration
  <2>1. CASE fdctl = mask
    <3>1. kernel' = kernel /\ fdctl' = fdctl
      BY <1>2, <2>1 DEF apply_fd_update, kvars
    <3>2. kernel.mask = mask
      BY <1>0, <2>1 DEF KernelExact
    <3>3. mask # {} => kernel.epoch = e /\ e = epoch
      BY <1>0, <1>7, <3>2 DEF EpochCurrent
    <3>4. KernelExact'
      BY <1>0, <1>1, <3>1 DEF KernelExact
    <3>5. EpochCurrent'
      BY <1>2, <1>6, <3>1, <3>2, <3>3 DEF EpochCurrent, user_epoch
    <3> QED BY <1>8, <3>1, <3>2, <3>4, <3>5
  <2>2. CASE fdctl # mask
    <3>1. fdctl' = mask /\ kernel' = IF mask = {} THEN NoEvent ELSE [mask |-> mask, epoch |-> e, gen |-> gen]
      BY <1>2, <2>2 DEF apply_fd_update
    <3>2. CASE mask = {}
      <4>1. kernel' = NoEvent /\ kernel'.mask = {} /\ NoEvent \in Registration
        BY <3>1, <3>2 DEF NoEvent, Registration
      <4> QED BY <3>1, <3>2, <4>1 DEF KernelExact, EpochCurrent
    <3>3. CASE mask # {}
      <4>1. /\ kernel' = [mask |-> mask, epoch |-> e, gen |-> gen]
            /\ kernel'.mask = mask /\ kernel'.epoch = e /\ kernel'.gen = gen
        BY <3>1, <3>3
      <4>2. kernel' \in Registration
        BY <1>5, <1>6, <1>8, <4>1 DEF Registration
      <4>3. KernelExact'
        BY <1>1, <1>4, <3>1, <3>3, <4>1 DEF KernelExact
      <4>4. epoch' = e
        BY <1>2, <3>3
      <4>5. EpochCurrent'
        BY <1>6, <3>3, <4>1, <4>4 DEF EpochCurrent, user_epoch
      <4> QED BY <4>1, <4>2, <4>3, <4>5
    <3> QED BY <3>2, <3>3
  <2> QED BY <2>1, <2>2
<1>10. Installed'
  BY <1>0, <1>1, InstalledKept
<1>11. FdsType'
  <2>1. epoch' \in Nat
    BY <1>2, <1>6
  <2> QED BY <1>0, <1>1, <1>9, <2>1, Zenon DEF FdsType
<1>12. WatchesCurrent'
  BY <1>0, <1>1, Zenon DEF WatchesCurrent, Live
<1>13. Updated'
  <2>1. \A w \in wlist : Live(w)' => watch'[w].mask \subseteq kernel'.mask
    BY <1>1, <1>3, <1>9, Zenon DEF Live
  <2> QED BY <1>1, <2>1, Zenon DEF Updated
<1>14. BatchCurrent' /\ NoStaleWake'
  BY <1>0, <1>1 DEF BatchCurrent, NoStaleWake, NoEvent
<1> QED BY <1>9, <1>10, <1>11, <1>12, <1>13, <1>14, Zenon DEF FdsInv

\* The event epoll_wait returns is of the present registration.
LEMMA WaitInv ==
  ASSUME FdsInv, NEW events \in SUBSET EpollEvent, Wait(events)
  PROVE  FdsInv'
<1>0. /\ FdsType /\ Installed /\ WatchesCurrent /\ KernelExact /\ EpochCurrent
      /\ Updated /\ BatchCurrent /\ NoStaleWake
  BY DEF FdsInv
<1>1. /\ phase' = "batch" /\ kernel.mask # {}
      /\ batch' = [kernel EXCEPT !.mask = mask_in(events)]
      /\ wlist' = wlist /\ body' = body /\ update' = update
      /\ gen' = gen /\ open' = open /\ epoch' = epoch
      /\ fdctl' = fdctl /\ kernel' = kernel /\ chain' = chain /\ watch' = watch /\ ev' = ev
  BY DEF Wait, osvars, kvars, recvars
<1>2. mask_in(events) \subseteq Bits
  BY DEF mask_in, Bits
<1> DEFINE m == mask_in(events)
<1>3. batch' = [kernel EXCEPT !.mask = m] /\ m \subseteq Bits
  BY <1>1, <1>2
<1> HIDE DEF m
<1>4. batch' \in Registration /\ batch'.epoch = kernel.epoch /\ batch'.gen = kernel.gen
  BY <1>0, <1>3 DEF FdsType, Registration
<1>5. Installed'
  BY <1>0, <1>1, InstalledKept
<1>6. FdsType'
  BY <1>0, <1>1, <1>4, Zenon DEF FdsType
<1>7. WatchesCurrent' /\ Updated'
  BY <1>0, <1>1 DEF WatchesCurrent, Updated, Live
<1>8. KernelExact' /\ EpochCurrent'
  BY <1>0, <1>1 DEF KernelExact, EpochCurrent
<1>9. BatchCurrent'
  <2>1. epoch \in Nat
    BY <1>0 DEF FdsType
  <2> QED BY <1>0, <1>1, <1>4, <2>1 DEF BatchCurrent, KernelExact, EpochCurrent, user_epoch
<1>10. NoStaleWake'
  BY <1>1 DEF NoStaleWake
<1> QED BY <1>5, <1>6, <1>7, <1>8, <1>9, <1>10, Zenon DEF FdsInv

\* An event that take_watch_list accepts is of the opening that the watches on the
\* list are for.
LEMMA TakeWatchListInv ==
  ASSUME FdsInv, take_watch_list
  PROVE  FdsInv'
<1>0. /\ FdsType /\ Installed /\ WatchesCurrent /\ KernelExact /\ EpochCurrent
      /\ Updated /\ BatchCurrent /\ NoStaleWake
  BY DEF FdsInv
<1>1. /\ phase = "batch"
      /\ gen' = gen /\ open' = open /\ body' = body /\ epoch' = epoch
      /\ fdctl' = fdctl /\ kernel' = kernel /\ watch' = watch /\ ev' = ev
  BY DEF take_watch_list, osvars, kvars
<1>2. KernelExact' /\ EpochCurrent'
  BY <1>0, <1>1 DEF KernelExact, EpochCurrent
<1>3. CASE StaleEvent(batch)
  <2>1. phase' = "user" /\ batch' = NoEvent /\ chain' = chain /\ wlist' = wlist /\ update' = update
    BY <1>3, Zenon DEF take_watch_list
  <2>2. NoEvent \in Registration
    BY DEF NoEvent, Registration
  <2>3. Installed'
    BY <1>0, <1>1, <2>1, InstalledKept
  <2>4. FdsType'
    BY <1>0, <1>1, <2>1, <2>2, Zenon DEF FdsType
  <2>5. WatchesCurrent' /\ Updated'
    BY <1>0, <1>1, <2>1 DEF WatchesCurrent, Updated, Live
  <2>6. BatchCurrent' /\ NoStaleWake'
    BY <2>1 DEF BatchCurrent, NoStaleWake, NoEvent
  <2> QED BY <1>2, <2>3, <2>4, <2>5, <2>6, Zenon DEF FdsInv
<1>4. CASE ~StaleEvent(batch)
  <2>1. /\ phase' = "chain" /\ batch' = batch /\ update' = (update \/ chain' # {})
        /\ chain' = Taken(batch.mask, wlist) /\ wlist' = NotTaken(batch.mask, wlist)
    BY <1>4, Zenon DEF take_watch_list
  <2>2. /\ chain' \subseteq wlist /\ wlist' \subseteq wlist
        /\ chain' = {} => wlist' = wlist
    BY <2>1, Zenon DEF Taken, NotTaken
  <2>3. batch.gen = gen
    <3>1. batch.epoch # 0
      BY <1>0, <1>1 DEF BatchCurrent, user_epoch
    <3>2. batch.epoch = epoch
      BY <1>4, <3>1, Zenon DEF StaleEvent
    <3> QED BY <1>0, <1>1, <3>2 DEF BatchCurrent
  <2>4. Installed'
    BY <1>0, <1>1, <2>2, InstalledKept
  <2>5. FdsType'
    <3>1. update' \in BOOLEAN /\ chain' \subseteq Watch /\ wlist' \subseteq Watch
      BY <1>0, <2>1, <2>2, Zenon DEF FdsType
    <3> QED BY <1>0, <1>1, <2>1, <3>1, Zenon DEF FdsType
  <2>6. WatchesCurrent'
    BY <1>0, <1>1, <2>2, Zenon DEF WatchesCurrent, Live
  <2>7. Updated'
    <3>1. update' = FALSE => update = FALSE /\ wlist' = wlist
      BY <1>0, <2>1, <2>2, Zenon DEF FdsType
    <3>2. phase' # "wait"
      BY <2>1
    <3> QED BY <1>0, <1>1, <3>1, <3>2, Zenon DEF Updated, Live
  <2>8. BatchCurrent'
    BY <2>1 DEF BatchCurrent
  <2>9. NoStaleWake'
    <3>1. \A w \in chain' : Live(w)' => watch'[w].gen = batch'.gen
      BY <1>0, <1>1, <2>1, <2>2, <2>3, Zenon DEF WatchesCurrent, Live
    <3> QED BY <3>1, Zenon DEF NoStaleWake
  <2> QED BY <1>2, <2>4, <2>5, <2>6, <2>7, <2>8, <2>9, Zenon DEF FdsInv
<1> QED BY <1>3, <1>4

LEMMA PopWatchInv ==
  ASSUME FdsInv, pop_watch_list_event
  PROVE  FdsInv'
<1>0. /\ FdsType /\ Installed /\ WatchesCurrent /\ KernelExact /\ EpochCurrent
      /\ Updated /\ BatchCurrent /\ NoStaleWake
  BY DEF FdsInv
<1>1. /\ phase = "chain" /\ phase' = phase /\ chain' \subseteq chain
      /\ wlist' = wlist /\ body' = body /\ update' = update
      /\ gen' = gen /\ open' = open /\ epoch' = epoch /\ batch' = batch
      /\ fdctl' = fdctl /\ kernel' = kernel /\ watch' = watch
  BY DEF pop_watch_list_event, osvars, kvars, recvars
<1>2. /\ ev' \in [Watch -> {"none", "live", "empty", "triggered"}]
      /\ \A u \in Watch : (ev'[u] # "none" <=> ev[u] # "none") /\ (Live(u)' => Live(u))
  BY <1>0, TriggeredFact, Zenon DEF pop_watch_list_event
<1>3. wlist \subseteq Watch /\ chain \subseteq Watch
  BY <1>0 DEF FdsType
<1>4. Installed'
  BY <1>0, <1>1, <1>2, InstalledKept
<1>5. FdsType'
  <2>1. chain' \subseteq Watch
    BY <1>1, <1>3, Zenon
  <2> QED BY <1>0, <1>1, <1>2, <2>1, Zenon DEF FdsType
<1>6. WatchesCurrent'
  BY <1>0, <1>1, <1>2, <1>3, Zenon DEF WatchesCurrent
<1>7. KernelExact' /\ EpochCurrent'
  BY <1>0, <1>1 DEF KernelExact, EpochCurrent
<1>8. Updated'
  BY <1>0, <1>1, <1>2, <1>3, Zenon DEF Updated
<1>9. BatchCurrent'
  BY <1>1 DEF BatchCurrent
<1>10. NoStaleWake'
  BY <1>0, <1>1, <1>2, <1>3, Zenon DEF NoStaleWake, NoEvent
<1> QED BY <1>4, <1>5, <1>6, <1>7, <1>8, <1>9, <1>10, Zenon DEF FdsInv

LEMMA ChainDoneInv ==
  ASSUME FdsInv, ChainDone
  PROVE  FdsInv'
<1>0. /\ FdsType /\ Installed /\ WatchesCurrent /\ KernelExact /\ EpochCurrent
      /\ Updated /\ BatchCurrent /\ NoStaleWake
  BY DEF FdsInv
<1>1. /\ phase' \in {"user", "update"} /\ batch' = NoEvent
      /\ wlist' = wlist /\ body' = body /\ update' = update
      /\ gen' = gen /\ open' = open /\ epoch' = epoch
      /\ fdctl' = fdctl /\ kernel' = kernel /\ chain' = chain /\ watch' = watch /\ ev' = ev
  BY DEF ChainDone, osvars, kvars, recvars
<1>2. NoEvent \in Registration
  BY DEF NoEvent, Registration
<1>4. Installed'
  BY <1>0, <1>1, InstalledKept
<1>5. FdsType'
  BY <1>0, <1>1, <1>2, Zenon DEF FdsType
<1>6. WatchesCurrent' /\ Updated'
  BY <1>0, <1>1 DEF WatchesCurrent, Updated, Live
<1>7. KernelExact' /\ EpochCurrent'
  BY <1>0, <1>1 DEF KernelExact, EpochCurrent
<1>8. BatchCurrent' /\ NoStaleWake'
  BY <1>1 DEF BatchCurrent, NoStaleWake, NoEvent
<1> QED BY <1>4, <1>5, <1>6, <1>7, <1>8, Zenon DEF FdsInv

LEMMA FdsStepInv == FdsInv /\ [FdsNext]_fdsVars => FdsInv'
<1> SUFFICES ASSUME FdsInv, [FdsNext]_fdsVars PROVE FdsInv'
  OBVIOUS
<1>1. CASE UNCHANGED fdsVars
  BY <1>1 DEF fdsVars, FdsInv, FdsType, Installed, WatchesCurrent, KernelExact, EpochCurrent,
              Updated, BatchCurrent, NoStaleWake, Live, NoEvent
<1>2. CASE \E m \in Mask : file_event(m) \/ FileEventClosed(m)
  BY <1>2, FileEventInv, FileEventClosedInv
<1>3. CASE \E w \in Watch : Abandon(w)
  BY <1>3, AbandonInv
<1>4. CASE CloseWatched \/ CloseUnwatched \/ Open
  BY <1>4, CloseWatchedInv, CloseUnwatchedInv, OpenInv
<1>5. CASE TakeAllWatches \/ WaitEmpty
  BY <1>5, TakeAllInv, WaitEmptyInv
<1>6. CASE LoopStep
  BY <1>6, EndUserInv, PopUpdateInv, UpdatesDoneInv, TakeWatchListInv, PopWatchInv, ChainDoneInv
     DEF LoopStep
<1>7. CASE \E events \in SUBSET EpollEvent : Wait(events)
  BY <1>7, WaitInv
<1> QED BY <1>1, <1>2, <1>3, <1>4, <1>5, <1>6, <1>7 DEF FdsNext

\* However watches, closes, reopenings and the events of a batch follow one another,
\* an event wakes only watches of its own opening of the number, the driver blocks
\* only when the kernel watches for all that is waited for under an epoch that
\* take_watch_list accepts, and fdctl_ is what the kernel has.
THEOREM WatchesRightTheorem == FdsSpec => []WatchesRight
<1>1. FdsInv => WatchesRight
  <2> SUFFICES ASSUME FdsInv PROVE WatchesRight
    OBVIOUS
  <2>0. WatchesCurrent /\ KernelExact /\ EpochCurrent /\ Updated /\ NoStaleWake
    BY DEF FdsInv
  <2>1. WatchedByKernel
    <3> SUFFICES ASSUME phase = "wait", NEW w \in wlist, Live(w)
                 PROVE  watch[w].mask \subseteq kernel.mask /\ kernel.epoch = epoch
      BY DEF WatchedByKernel
    <3>1. watch[w].mask \subseteq kernel.mask /\ watch[w].mask # {}
      BY <2>0 DEF Updated, WatchesCurrent
    <3> QED BY <2>0, <3>1 DEF EpochCurrent
  <2> QED BY <2>0, <2>1 DEF WatchesRight
<1> QED BY <1>1, FdsInitInv, FdsStepInv, PTL DEF FdsSpec

-----------------------------------------------------------------------------
(* The loop of a driver that nobody clears: the inductive invariant.        *)

Job == Local \cup Remote
Timer == [when : Nat, job : Local]
Guarded == Remote \ Range(Kept)

DriverType ==
  /\ asap_ \in Seq(Job) /\ migrate_ \in Seq(Remote) /\ timed_ \in Seq(Timer)
  /\ keepalives_ \in Seq(Job) /\ ran \subseteq Job
  /\ snow_ \in Nat /\ clock \in Nat /\ rpc \in [Remote -> {"idle", "triggered", "locked", "wake", "write", "done"}]

\* The guards left are those of the jobs that have not run.
GuardsCounted == guard_count_ = Cardinality(Guarded \ ran)

\* An event keepalive() was called with stays on the list until it is triggered.
KeptAlive == \A j \in Range(Kept) : triggered(j) \/ j \in Range(keepalives_)

\* A job of another thread is handed over once: it is in one place of one list, or
\* has run.
Distinct(s) == \A i, j \in DOMAIN s : s[i] = s[j] /\ s[i] \in Remote => i = j
HandedOnce ==
  /\ Distinct(asap_) /\ Distinct(migrate_)
  /\ \A r \in Remote :
       /\ r \in Range(asap_) => r \notin ran /\ r \notin Range(migrate_)
       /\ r \in Range(migrate_) => r \notin ran
       /\ rpc[r] \in {"idle", "triggered", "locked"} => r \notin Range(asap_) /\ r \notin Range(migrate_) /\ r \notin ran

GuardInv ==
  /\ clearing_ = FALSE /\ loopPc # "clear" /\ DriverType /\ GuardsCounted /\ KeptAlive
  /\ HandedOnce /\ GuardHolds

LEMMA LocalOrRemote == \A j \in Local : j \notin Remote
  BY JobsAssumption

LEMMA GuardedFinite ==
  ASSUME NEW S
  PROVE  IsFiniteSet(Guarded \ S) /\ Cardinality(Guarded \ S) \in Nat
<1>1. Guarded \ S \subseteq Remote
  BY Zenon DEF Guarded
<1>2. IsFiniteSet(Guarded \ S)
  BY <1>1, JobsAssumption, FS_Subset, Zenon
<1> QED BY <1>2, FS_CardinalityType, Zenon

LEMMA GuardInitInv == DriverInit => GuardInv
<1> SUFFICES ASSUME DriverInit PROVE GuardInv
  OBVIOUS
<1>1. /\ clearing_ = FALSE /\ loopPc = "import" /\ asap_ = <<First>> /\ timed_ = <<>> /\ migrate_ = <<>>
      /\ guard_count_ = Cardinality(Guarded) /\ keepalives_ = Kept
      /\ snow_ = 0 /\ clock = 0 /\ ran = {} /\ rpc = [r \in Remote |-> "idle"]
  BY DEF DriverInit, Guarded
<1>2. DriverType
  BY <1>1, JobsAssumption DEF DriverType, Job
<1>3. GuardsCounted
  <2>1. Guarded \ ran = Guarded
    BY <1>1
  <2> QED BY <1>1, <2>1 DEF GuardsCounted
<1>4. KeptAlive
  BY <1>1, Zenon DEF KeptAlive
<1>5. HandedOnce
  <2>1. Distinct(asap_) /\ Distinct(migrate_)
    BY <1>1 DEF Distinct
  <2>2. \A r \in Remote : r \notin Range(asap_) /\ r \notin Range(migrate_) /\ r \notin ran
    BY <1>1, LocalOrRemote, JobsAssumption DEF Range
  <2> QED BY <2>1, <2>2, Zenon DEF HandedOnce
<1>6. GuardHolds
  BY <1>1 DEF GuardHolds
<1> QED BY <1>1, <1>2, <1>3, <1>4, <1>5, <1>6 DEF GuardInv

\* A job that runs for the first time takes its guard with it.
LEMMA GuardGone ==
  ASSUME GuardsCounted, NEW j, j \notin Remote \/ j \notin ran,
         ran' = ran \cup {j}, clearing_ = FALSE,
         guard_count_' = guard_count_ - driver_guard(j)
  PROVE  GuardsCounted'
<1>1. CASE j \in Guarded
  <2>1. j \in Guarded \ ran /\ driver_guard(j) = 1
    BY <1>1, Zenon DEF Guarded, driver_guard
  <2>2. Guarded \ ran' = (Guarded \ ran) \ {j}
    BY Zenon
  <2>3. IsFiniteSet(Guarded \ ran)
    BY GuardedFinite
  <2> DEFINE G == Guarded \ ran
  <2>4. Cardinality(G \ {j}) = Cardinality(G) - 1
    <3>1. IsFiniteSet(G) /\ j \in G
      BY <2>1, <2>3
    <3> HIDE DEF G
    <3> QED BY <3>1, FS_RemoveElement, Zenon
  <2> QED BY <2>1, <2>2, <2>4 DEF GuardsCounted
<1>2. CASE j \notin Guarded
  <2>1. driver_guard(j) = 0
    BY <1>2 DEF driver_guard, Guarded
  <2>2. Guarded \ ran' = Guarded \ ran
    BY <1>2, Zenon
  <2>3. guard_count_ \in Nat
    BY GuardedFinite DEF GuardsCounted
  <2>4. guard_count_' = guard_count_
    BY <2>1, <2>3
  <2> QED BY <2>2, <2>4, Zenon DEF GuardsCounted
<1> QED BY <1>1, <1>2

\* A local job added to a list changes nothing for the jobs of other threads.
LEMMA LocalAppended ==
  ASSUME NEW s \in Seq(Job), Distinct(s), NEW k \in Local
  PROVE  /\ Append(s, k) \in Seq(Job) /\ Distinct(Append(s, k))
         /\ \A r \in Remote : r \in Range(Append(s, k)) => r \in Range(s)
<1>1. k \notin Remote /\ k \in Job
  BY LocalOrRemote DEF Job
<1> DEFINE t == Append(s, k)
<1>2. /\ t \in Seq(Job) /\ Len(t) = Len(s) + 1 /\ Len(s) \in Nat
      /\ \A i \in 1 .. Len(s) : t[i] = s[i]
      /\ t[Len(s) + 1] = k
      /\ DOMAIN t = 1 .. Len(t) /\ DOMAIN s = 1 .. Len(s)
  BY <1>1
<1> HIDE DEF t
<1>3. \A i \in DOMAIN t : t[i] \in Remote => i \in DOMAIN s /\ t[i] = s[i]
  <2> SUFFICES ASSUME NEW i \in DOMAIN t, t[i] \in Remote
               PROVE  i \in DOMAIN s /\ t[i] = s[i]
    OBVIOUS
  <2>1. i \in 1 .. Len(s) \/ i = Len(s) + 1
    BY <1>2
  <2> QED BY <1>1, <1>2, <2>1
<1>4. Distinct(t)
  BY <1>3, Zenon DEF Distinct
<1>5. \A r \in Remote : r \in Range(t) => r \in Range(s)
  BY <1>3, Zenon DEF Range
<1> QED BY <1>2, <1>4, <1>5 DEF t

\* A job is resumed: rest and timers are what is left of the lists.
LEMMA RunInv ==
  ASSUME Clears = FALSE, GuardInv,
         NEW j \in Job, NEW rest \in Seq(Job), NEW timers \in Seq(Timer), Run(j, rest, timers),
         Distinct(rest), \A r \in Remote : r \in Range(rest) => r \in Range(asap_) /\ r # j,
         j \in Remote => j \in Range(asap_),
         loopPc # "exited", UNCHANGED <<loopPc, migrate_, rpc, clock>>
  PROVE  GuardInv'
<1>0. clearing_ = FALSE /\ loopPc # "clear" /\ DriverType /\ GuardsCounted /\ KeptAlive /\ HandedOnce
  BY DEF GuardInv
<1>1. /\ ran' = ran \cup {j} /\ guard_count_' = guard_count_ - driver_guard(j)
      /\ keepalives_' = keepalives_ /\ loopPc' = loopPc
      /\ snow_' = IF RealTime THEN snow_ ELSE snow_ + 1
      /\ migrate_' = migrate_ /\ rpc' = rpc /\ clock' = clock
  BY Zenon DEF Run
<1>2. \/ asap_' = rest /\ timed_' = timers /\ clearing_' = clearing_
      \/ \E k \in Local : asap_' = Append(rest, k) /\ timed_' = timers /\ clearing_' = clearing_
      \/ \E k \in Local, d \in Delays :
            /\ timed_' = Append(timers, [when |-> steady_now + d, job |-> k])
            /\ asap_' = rest /\ clearing_' = clearing_
  BY Zenon DEF Run
<1>3. clearing_' = FALSE
  BY <1>0, <1>2, Zenon
<1>4. steady_now \in Nat /\ snow_' \in Nat
  BY <1>0, <1>1 DEF steady_now, DriverType
<1>5. timed_' \in Seq(Timer)
  <2>1. ASSUME NEW k \in Local, NEW d \in Delays
        PROVE  Append(timers, [when |-> steady_now + d, job |-> k]) \in Seq(Timer)
    <3>1. steady_now + d \in Nat
      BY <1>4, JobsAssumption
    <3>2. [when |-> steady_now + d, job |-> k] \in Timer
      BY <3>1 DEF Timer
    <3> QED BY <3>2
  <2> QED BY <1>2, <2>1, Zenon
<1>6. /\ asap_' \in Seq(Job) /\ Distinct(asap_')
      /\ \A r \in Remote : r \in Range(asap_') => r \in Range(rest)
  BY <1>2, LocalAppended, Zenon
<1>7. DriverType'
  <2>1. ran' \subseteq Job
    BY <1>0, <1>1, Zenon DEF DriverType
  <2> QED BY <1>0, <1>1, <1>4, <1>5, <1>6, <2>1, Zenon DEF DriverType
<1>8. GuardsCounted'
  <2>1. j \in Remote => j \notin ran
    BY <1>0, Zenon DEF HandedOnce
  <2> QED BY <1>0, <1>1, <2>1, GuardGone
<1>9. KeptAlive'
  <2>1. \A k : triggered(k) => triggered(k)'
    BY <1>1, Zenon DEF triggered
  <2> QED BY <1>0, <1>1, <2>1, Zenon DEF KeptAlive
<1>10. HandedOnce'
  <2>1. Distinct(asap_)' /\ Distinct(migrate_)'
    BY <1>0, <1>1, <1>6, Zenon DEF HandedOnce, Distinct
  <2> SUFFICES ASSUME NEW r \in Remote
               PROVE  /\ r \in Range(asap_') => r \notin ran' /\ r \notin Range(migrate_')
                      /\ r \in Range(migrate_') => r \notin ran'
                      /\ rpc'[r] \in {"idle", "triggered", "locked"} =>
                            r \notin Range(asap_') /\ r \notin Range(migrate_') /\ r \notin ran'
    BY <2>1, Zenon DEF HandedOnce
  <2>2. /\ r \in Range(asap_) => r \notin ran /\ r \notin Range(migrate_)
        /\ r \in Range(migrate_) => r \notin ran
        /\ rpc[r] \in {"idle", "triggered", "locked"} => r \notin Range(asap_) /\ r \notin Range(migrate_) /\ r \notin ran
    BY <1>0, Zenon DEF HandedOnce
  <2>3. r \in Range(asap_') => r \in Range(asap_) /\ r # j
    BY <1>6, Zenon
  <2>4. r = j => r \in Range(asap_)
    BY Zenon
  <2> QED BY <1>1, <2>2, <2>3, <2>4, Zenon
<1>11. GuardHolds'
  BY <1>1, Zenon DEF GuardHolds
<1> QED BY <1>0, <1>1, <1>3, <1>7, <1>8, <1>9, <1>10, <1>11, Zenon DEF GuardInv

\* The least and the greatest of a set of naturals.
LEMMA LeastOf ==
  ASSUME NEW S \in SUBSET Nat, S # {}
  PROVE  Min(S) \in S /\ \A y \in S : Min(S) <= y
<1>1. PICK x \in S : \A y \in S : ~(<<y, x>> \in OpToRel(<, Nat))
  BY NatLessThanWellFounded, WFMin
<1>2. \A y \in S : x <= y
  <2> SUFFICES ASSUME NEW y \in S, y < x PROVE FALSE
    OBVIOUS
  <2>1. <<y, x>> \in OpToRel(<, Nat)
    BY Zenon DEF OpToRel
  <2> QED BY <1>1, <2>1, Zenon
<1> QED BY <1>2 DEF Min

LEMMA GreatestOf ==
  ASSUME NEW n \in Nat, NEW S \in SUBSET (0 .. n), S # {}
  PROVE  Max(S) \in S /\ \A y \in S : Max(S) >= y
<1> DEFINE T == {n - x : x \in S}
<1>1. T \in SUBSET Nat /\ T # {}
  <2>1. \A x \in S : n - x \in Nat
    OBVIOUS
  <2> QED BY <2>1, Zenon
<1>2. PICK x \in S : Min(T) = n - x
  BY <1>1, LeastOf
<1>3. \A u \in T : n - x <= u
  BY <1>1, <1>2, LeastOf
<1>4. \A y \in S : x >= y
  <2> TAKE y \in S
  <2>1. n - x <= n - y
    BY <1>3
  <2> QED BY <2>1
<1> QED BY <1>4 DEF Max

\* The timer on top of the heap is one of the timers.
LEMMA TopTimer ==
  ASSUME timed_ \in Seq(Timer), ~NoTimer
  PROVE  TopTime \in Nat /\ TopIndex \in DOMAIN timed_
<1>1. Len(timed_) \in Nat /\ DOMAIN timed_ = 1 .. Len(timed_) /\ 1 \in DOMAIN timed_
  BY DEF NoTimer
<1>2. \A i \in DOMAIN timed_ : timed_[i].when \in Nat
  <2>1. \A i \in DOMAIN timed_ : timed_[i] \in Timer
    OBVIOUS
  <2>2. \A x \in Timer : x.when \in Nat
    BY DEF Timer
  <2> QED BY <2>1, <2>2, Zenon
<1> DEFINE S == {timed_[i].when : i \in DOMAIN timed_}
<1>3. S \in SUBSET Nat /\ S # {}
  BY <1>1, <1>2, Zenon
<1>4. TopTime = Min(S)
  BY DEF TopTime
<1> HIDE DEF S
<1>5. TopTime \in S /\ TopTime \in Nat
  BY <1>3, <1>4, LeastOf
<1> DEFINE I == {i \in DOMAIN timed_ : timed_[i].when = TopTime}
<1>6. I # {}
  BY <1>5 DEF S
<1>7. I \in SUBSET Nat
  BY <1>1
<1>8. TopIndex = Min(I)
  BY DEF TopIndex
<1>9. I \subseteq DOMAIN timed_
  OBVIOUS
<1> HIDE DEF I
<1>10. TopIndex \in I
  BY <1>6, <1>7, <1>8, LeastOf
<1> QED BY <1>5, <1>9, <1>10, Zenon

\* A step that moves no job.
LEMMA NoJobMoves ==
  ASSUME GuardInv, UNCHANGED <<asap_, migrate_, timed_, keepalives_, guard_count_, clearing_, ran>>,
         snow_' \in Nat, clock' \in Nat, loopPc' # "clear",
         loopPc' = "exited" => loopPc = "exited",
         rpc' \in [Remote -> {"idle", "triggered", "locked", "wake", "write", "done"}],
         \A r \in Remote :
            /\ rpc'[r] \in {"idle", "triggered", "locked"} => rpc[r] \in {"idle", "triggered", "locked"}
            /\ rpc[r] # "idle" => rpc'[r] # "idle"
  PROVE  GuardInv'
<1>0. clearing_ = FALSE /\ loopPc # "clear" /\ DriverType /\ GuardsCounted /\ KeptAlive /\ HandedOnce /\ GuardHolds
  BY DEF GuardInv
<1>1. /\ asap_' = asap_ /\ migrate_' = migrate_ /\ timed_' = timed_ /\ keepalives_' = keepalives_
      /\ guard_count_' = guard_count_ /\ clearing_' = clearing_ /\ ran' = ran
  OBVIOUS
<1>2. DriverType'
  BY <1>0, <1>1, Zenon DEF DriverType
<1>3. GuardsCounted' /\ KeptAlive' /\ GuardHolds'
  <2>1. \A k : triggered(k) => triggered(k)'
    BY <1>1, Zenon DEF triggered
  <2> QED BY <1>0, <1>1, <2>1, Zenon DEF GuardsCounted, KeptAlive, GuardHolds
<1>4. HandedOnce'
  BY <1>0, <1>1, Zenon DEF HandedOnce, Distinct
<1> QED BY <1>0, <1>1, <1>2, <1>3, <1>4, Zenon DEF GuardInv

LEMMA QuietLoopInv ==
  ASSUME GuardInv,
         Import \/ FinishLock \/ Timeout \/ Arm \/ Look \/ watch_fds \/ UpdateTime \/ TimersDone
  PROVE  GuardInv'
<1>0. DriverType
  BY DEF GuardInv
<1>1. UNCHANGED <<asap_, migrate_, timed_, keepalives_, guard_count_, clearing_, ran, rpc, clock>>
  BY DEF Import, FinishLock, Timeout, Arm, Look, watch_fds, UpdateTime, TimersDone, driving, handover
<1>2. loopPc' # "clear" /\ loopPc' # "exited"
  BY DEF Import, FinishLock, Timeout, Arm, Look, watch_fds, UpdateTime, TimersDone, Go
<1>3. snow_' = snow_ \/ snow_' = UpdatedTime
  BY DEF Import, FinishLock, Timeout, Arm, Look, watch_fds, UpdateTime, TimersDone, driving
<1>4. UpdatedTime \in Nat
  <2>1. ~NoTimer => TopTime \in Nat
    BY <1>0, TopTimer DEF DriverType
  <2> QED BY <1>0, <2>1 DEF UpdatedTime, DriverType
<1>5. snow_' \in Nat /\ clock' \in Nat
  BY <1>0, <1>1, <1>3, <1>4 DEF DriverType
<1>6. rpc' = rpc /\ rpc' \in [Remote -> {"idle", "triggered", "locked", "wake", "write", "done"}]
  BY <1>0, <1>1 DEF DriverType
<1> QED BY <1>1, <1>2, <1>5, <1>6, NoJobMoves

LEMMA TickInv ==
  ASSUME GuardInv, Tick
  PROVE  GuardInv'
<1>1. UNCHANGED <<asap_, migrate_, timed_, keepalives_, guard_count_, clearing_, ran, rpc, snow_, loopPc>>
  BY DEF Tick, driving, handover
<1>2. snow_' \in Nat /\ clock' \in Nat /\ rpc' \in [Remote -> {"idle", "triggered", "locked", "wake", "write", "done"}]
  BY <1>1 DEF Tick, GuardInv, DriverType
<1>3. loopPc' # "clear"
  BY <1>1 DEF GuardInv
<1> QED BY <1>1, <1>2, <1>3, NoJobMoves

LEMMA RemoteQuietInv ==
  ASSUME GuardInv, NEW r \in Remote, trigger_unlock(r) \/ RemoteLock(r) \/ ReadWakefd(r) \/ migrate_wake(r)
  PROVE  GuardInv'
<1>0. DriverType /\ loopPc # "clear"
  BY DEF GuardInv
<1>1. UNCHANGED <<asap_, migrate_, timed_, keepalives_, guard_count_, clearing_, ran, clock, snow_, loopPc>>
  BY DEF trigger_unlock, RemoteLock, ReadWakefd, migrate_wake, driving, handover
<1>2. PICK to \in {"triggered", "locked", "write", "done"} :
        /\ rpc' = [rpc EXCEPT ![r] = to]
        /\ to = "triggered" => rpc[r] = "idle"
        /\ to = "locked" => rpc[r] = "triggered"
  BY DEF trigger_unlock, RemoteLock, ReadWakefd, migrate_wake, RStep
<1>3. rpc' \in [Remote -> {"idle", "triggered", "locked", "wake", "write", "done"}]
  BY <1>0, <1>2 DEF DriverType
<1>4. \A s \in Remote :
        /\ rpc'[s] \in {"idle", "triggered", "locked"} => rpc[s] \in {"idle", "triggered", "locked"}
        /\ rpc[s] # "idle" => rpc'[s] # "idle"
  BY <1>0, <1>2 DEF DriverType
<1>5. snow_' \in Nat /\ clock' \in Nat
  BY <1>0, <1>1 DEF DriverType
<1>6. loopPc' # "clear" /\ (loopPc' = "exited" => loopPc = "exited")
  BY <1>0, <1>1
<1>7. UNCHANGED <<asap_, migrate_, timed_, keepalives_, guard_count_, clearing_, ran>>
  BY <1>1
<1> QED BY <1>3, <1>4, <1>5, <1>6, <1>7, NoJobMoves

\* What the other threads handed over goes to the end of asap_.
LEMMA FinishMigrateInv ==
  ASSUME GuardInv, finish_migrate
  PROVE  GuardInv'
<1>0. clearing_ = FALSE /\ loopPc # "clear" /\ DriverType /\ GuardsCounted /\ KeptAlive /\ HandedOnce /\ GuardHolds
  BY DEF GuardInv
<1>1. /\ asap_' = asap_ \o migrate_ /\ migrate_' = <<>> /\ timed_' = timed_ /\ keepalives_' = keepalives_
      /\ guard_count_' = guard_count_ /\ clearing_' = clearing_ /\ ran' = ran
      /\ snow_' = snow_ /\ clock' = clock /\ rpc' = rpc /\ loopPc' = "asap"
  BY DEF finish_migrate, Go
<1> DEFINE q == asap_ \o migrate_
<1>2. asap_ \in Seq(Job) /\ migrate_ \in Seq(Job)
  <2>1. Remote \subseteq Job
    BY DEF Job
  <2> QED BY <1>0, <2>1 DEF DriverType
<1>3. /\ q \in Seq(Job) /\ Len(asap_) \in Nat /\ Len(migrate_) \in Nat
      /\ DOMAIN asap_ = 1 .. Len(asap_) /\ DOMAIN migrate_ = 1 .. Len(migrate_)
      /\ DOMAIN q = 1 .. Len(asap_) + Len(migrate_)
      /\ \A i \in 1 .. Len(asap_) : q[i] = asap_[i]
      /\ \A i \in Len(asap_) + 1 .. Len(asap_) + Len(migrate_) : q[i] = migrate_[i - Len(asap_)]
  BY <1>2
<1> HIDE DEF q
<1>4. \A i \in DOMAIN q :
        \/ i \in DOMAIN asap_ /\ q[i] = asap_[i]
        \/ i - Len(asap_) \in DOMAIN migrate_ /\ q[i] = migrate_[i - Len(asap_)]
  BY <1>3
<1>5. \A x : x \in Range(q) => x \in Range(asap_) \/ x \in Range(migrate_)
  BY <1>4, Zenon DEF Range
<1>6. Distinct(q)
  <2> SUFFICES ASSUME NEW i \in DOMAIN q, NEW j \in DOMAIN q, q[i] = q[j], q[i] \in Remote
               PROVE  i = j
    BY DEF Distinct
  <2>1. ~(q[i] \in Range(asap_) /\ q[i] \in Range(migrate_))
    BY <1>0, Zenon DEF HandedOnce
  <2>2. Distinct(asap_) /\ Distinct(migrate_)
    BY <1>0 DEF HandedOnce
  <2>3. CASE i \in DOMAIN asap_ /\ q[i] = asap_[i] /\ j \in DOMAIN asap_ /\ q[j] = asap_[j]
    BY <2>2, <2>3 DEF Distinct
  <2>4. CASE /\ i - Len(asap_) \in DOMAIN migrate_ /\ q[i] = migrate_[i - Len(asap_)]
             /\ j - Len(asap_) \in DOMAIN migrate_ /\ q[j] = migrate_[j - Len(asap_)]
    <3>1. i - Len(asap_) = j - Len(asap_)
      BY <2>2, <2>4, Zenon DEF Distinct
    <3> QED BY <1>3, <3>1
  <2>5. CASE i \in DOMAIN asap_ /\ q[i] = asap_[i] /\ j - Len(asap_) \in DOMAIN migrate_ /\ q[j] = migrate_[j - Len(asap_)]
    BY <2>1, <2>5, Zenon DEF Range
  <2>6. CASE j \in DOMAIN asap_ /\ q[j] = asap_[j] /\ i - Len(asap_) \in DOMAIN migrate_ /\ q[i] = migrate_[i - Len(asap_)]
    BY <2>1, <2>6, Zenon DEF Range
  <2> QED BY <1>4, <2>3, <2>4, <2>5, <2>6, Zenon
<1>7. asap_' = q
  BY <1>1 DEF q
<1>8. DriverType'
  BY <1>0, <1>1, <1>3, <1>7 DEF DriverType
<1>9. GuardsCounted' /\ KeptAlive' /\ GuardHolds'
  <2>1. \A k : triggered(k) => triggered(k)'
    BY <1>1, Zenon DEF triggered
  <2> QED BY <1>0, <1>1, <2>1 DEF GuardsCounted, KeptAlive, GuardHolds
<1>10. HandedOnce'
  <2>1. Distinct(asap_)' /\ Distinct(migrate_)'
    BY <1>1, <1>6, <1>7 DEF Distinct
  <2>2. \A r : r \notin Range(migrate_')
    BY <1>1 DEF Range
  <2> QED BY <1>0, <1>1, <1>5, <1>7, <2>1, <2>2, Zenon DEF HandedOnce
<1> QED BY <1>0, <1>1, <1>8, <1>9, <1>10 DEF GuardInv

LEMMA MigrateAsapInv ==
  ASSUME GuardInv, NEW r \in Remote, migrate_asap(r)
  PROVE  GuardInv'
<1>0. clearing_ = FALSE /\ loopPc # "clear" /\ DriverType /\ GuardsCounted /\ KeptAlive /\ HandedOnce /\ GuardHolds
  BY DEF GuardInv
<1>1. /\ asap_' = asap_ /\ migrate_' = Append(migrate_, r) /\ timed_' = timed_ /\ keepalives_' = keepalives_
      /\ guard_count_' = guard_count_ /\ clearing_' = clearing_ /\ ran' = ran
      /\ snow_' = snow_ /\ clock' = clock /\ loopPc' = loopPc
      /\ rpc[r] = "locked" /\ rpc' = [rpc EXCEPT ![r] = "wake"]
  BY DEF migrate_asap, RStep, driving
<1> DEFINE q == Append(migrate_, r)
<1>2. migrate_ \in Seq(Remote)
  BY <1>0 DEF DriverType
<1>3. /\ q \in Seq(Remote) /\ Len(migrate_) \in Nat
      /\ DOMAIN migrate_ = 1 .. Len(migrate_) /\ DOMAIN q = 1 .. Len(migrate_) + 1
      /\ \A i \in 1 .. Len(migrate_) : q[i] = migrate_[i]
      /\ q[Len(migrate_) + 1] = r
  BY <1>2
<1> HIDE DEF q
<1>4. \A i \in DOMAIN q : (i \in DOMAIN migrate_ /\ q[i] = migrate_[i]) \/ (i = Len(migrate_) + 1 /\ q[i] = r)
  BY <1>3
<1>5. \A x : x \in Range(q) => x \in Range(migrate_) \/ x = r
  BY <1>4, Zenon DEF Range
<1>6. r \notin Range(asap_) /\ r \notin Range(migrate_) /\ r \notin ran
  BY <1>0, <1>1 DEF HandedOnce
<1>7. Distinct(q)
  <2>1. \A i \in DOMAIN migrate_ : migrate_[i] # r
    BY <1>6, Zenon DEF Range
  <2>2. Distinct(migrate_)
    BY <1>0 DEF HandedOnce
  <2> QED BY <1>4, <2>1, <2>2, Zenon DEF Distinct
<1>8. migrate_' = q
  BY <1>1 DEF q
<1>9. DriverType'
  <2>1. rpc' \in [Remote -> {"idle", "triggered", "locked", "wake", "write", "done"}]
    BY <1>0, <1>1 DEF DriverType
  <2> QED BY <1>0, <1>1, <1>3, <1>8, <2>1, Zenon DEF DriverType
<1>10. GuardsCounted' /\ KeptAlive' /\ GuardHolds'
  <2>1. \A s \in Remote : rpc[s] # "idle" => rpc'[s] # "idle"
    BY <1>0, <1>1 DEF DriverType
  <2>2. \A k : triggered(k) => triggered(k)'
    BY <1>1, <2>1, Zenon DEF triggered
  <2> QED BY <1>0, <1>1, <2>2, Zenon DEF GuardsCounted, KeptAlive, GuardHolds
<1>11. HandedOnce'
  <2>1. Distinct(asap_)' /\ Distinct(migrate_)'
    BY <1>0, <1>1, <1>7, <1>8, Zenon DEF Distinct, HandedOnce
  <2>2. \A s \in Remote : rpc'[s] \in {"idle", "triggered", "locked"} => s # r /\ rpc[s] \in {"idle", "triggered", "locked"}
    BY <1>0, <1>1 DEF DriverType
  <2> QED BY <1>0, <1>1, <1>5, <1>6, <1>8, <2>1, <2>2, Zenon DEF HandedOnce
<1> QED BY <1>0, <1>1, <1>9, <1>10, <1>11, Zenon DEF GuardInv

LEMMA RunAsapInv ==
  ASSUME Clears = FALSE, GuardInv, RunAsap
  PROVE  GuardInv'
<1>0. DriverType /\ HandedOnce
  BY DEF GuardInv
<1>1. /\ loopPc = "asap" /\ asap_ # <<>> /\ Run(Head(asap_), Tail(asap_), timed_)
      /\ UNCHANGED <<loopPc, migrate_, rpc, clock>>
  BY DEF RunAsap, handover
<1> DEFINE j == Head(asap_)
           rest == Tail(asap_)
<1>2. asap_ \in Seq(Job) /\ timed_ \in Seq(Timer) /\ Distinct(asap_)
  BY <1>0 DEF DriverType, HandedOnce
<1>3. /\ j \in Job /\ rest \in Seq(Job) /\ Len(asap_) \in Nat /\ Len(asap_) >= 1 /\ j = asap_[1]
      /\ DOMAIN asap_ = 1 .. Len(asap_) /\ DOMAIN rest = 1 .. Len(asap_) - 1
      /\ \A i \in 1 .. Len(asap_) - 1 : rest[i] = asap_[i + 1]
  BY <1>1, <1>2
<1>4. Run(j, rest, timed_)
  BY <1>1
<1> HIDE DEF j, rest
<1>5. 1 \in DOMAIN asap_ /\ \A i \in DOMAIN rest : i + 1 \in DOMAIN asap_ /\ i + 1 # 1 /\ rest[i] = asap_[i + 1]
  BY <1>3
<1>6. j \in Range(asap_)
  BY <1>3, <1>5, Zenon DEF Range
<1>7. \A r \in Remote : r \in Range(rest) => r \in Range(asap_) /\ r # j
  <2> SUFFICES ASSUME NEW i \in DOMAIN rest, rest[i] \in Remote
               PROVE  rest[i] \in Range(asap_) /\ rest[i] # j
    BY Zenon DEF Range
  <2>1. rest[i] \in Range(asap_)
    BY <1>5, Zenon DEF Range
  <2>2. rest[i] # j
    BY <1>2, <1>3, <1>5, Zenon DEF Distinct
  <2> QED BY <2>1, <2>2
<1>8. Distinct(rest)
  <2> SUFFICES ASSUME NEW i \in DOMAIN rest, NEW k \in DOMAIN rest, rest[i] = rest[k], rest[i] \in Remote
               PROVE  i = k
    BY DEF Distinct
  <2>1. i + 1 = k + 1
    BY <1>2, <1>5, Zenon DEF Distinct
  <2> QED BY <1>3, <2>1
<1>9. loopPc # "exited"
  BY <1>1
<1> QED BY <1>1, <1>2, <1>3, <1>4, <1>6, <1>7, <1>8, <1>9, RunInv

LEMMA RunTimerInv ==
  ASSUME Clears = FALSE, GuardInv, RunTimer
  PROVE  GuardInv'
<1>0. DriverType /\ HandedOnce
  BY DEF GuardInv
<1>1. /\ loopPc = "timers" /\ ~NoTimer
      /\ Run(timed_[TopIndex].job, asap_, RemoveAt(timed_, TopIndex))
      /\ UNCHANGED <<loopPc, migrate_, rpc, clock>>
  BY DEF RunTimer, handover
<1>2. asap_ \in Seq(Job) /\ timed_ \in Seq(Timer) /\ Distinct(asap_)
  BY <1>0 DEF DriverType, HandedOnce
<1>3. TopIndex \in DOMAIN timed_
  BY <1>1, <1>2, TopTimer
<1> DEFINE i == TopIndex
           j == timed_[i].job
           timers == RemoveAt(timed_, i)
<1>4. i \in DOMAIN timed_ /\ Run(j, asap_, timers)
  BY <1>1, <1>3
<1> HIDE DEF i
<1>5. j \in Local
  <2>1. timed_[i] \in Timer
    BY <1>2, <1>4
  <2> QED BY <2>1 DEF Timer
<1>6. timers \in Seq(Timer)
  <2>1. i \in Nat /\ i >= 1 /\ i <= Len(timed_) /\ Len(timed_) \in Nat
    BY <1>2, <1>4
  <2>2. SubSeq(timed_, 1, i - 1) \in Seq(Timer) /\ SubSeq(timed_, i + 1, Len(timed_)) \in Seq(Timer)
    BY <1>2, <2>1
  <2> QED BY <2>2 DEF RemoveAt
<1> HIDE DEF j, timers
<1>7. j \in Job /\ j \notin Remote
  BY <1>5, LocalOrRemote DEF Job
<1>8. \A r \in Remote : r \in Range(asap_) => r \in Range(asap_) /\ r # j
  BY <1>7, Zenon
<1>9. loopPc # "exited"
  BY <1>1
<1> QED BY <1>1, <1>2, <1>4, <1>6, <1>7, <1>8, <1>9, RunInv

\* Triggered events are taken off the end of keepalives_ only.
LEMMA AliveKeeps ==
  ASSUME NEW s \in Seq(Job)
  PROVE  Alive(s) \in Seq(Job) /\ \A x \in Range(s) : triggered(x) \/ x \in Range(Alive(s))
<1> DEFINE I == {i \in DOMAIN s : ~triggered(s[i])}
           m == Max({0} \cup I)
<1>1. Len(s) \in Nat /\ DOMAIN s = 1 .. Len(s)
  OBVIOUS
<1>2. {0} \cup I \in SUBSET (0 .. Len(s)) /\ {0} \cup I # {}
  BY <1>1
<1>3. m \in {0} \cup I /\ \A i \in {0} \cup I : m >= i
  <2> DEFINE S == {0} \cup I
  <2>1. S \in SUBSET (0 .. Len(s)) /\ S # {}
    BY <1>2
  <2> HIDE DEF S
  <2>2. Max(S) \in S /\ \A i \in S : Max(S) >= i
    BY <1>1, <2>1, GreatestOf
  <2> QED BY <2>2 DEF S
<1>4. Alive(s) = SubSeq(s, 1, m)
  BY DEF Alive
<1>5. m \in 0 .. Len(s)
  BY <1>2, <1>3, Zenon
<1>6. \A i \in DOMAIN s : ~triggered(s[i]) => m >= i
  BY <1>3
<1> HIDE DEF m
<1>7. /\ SubSeq(s, 1, m) \in Seq(Job) /\ DOMAIN SubSeq(s, 1, m) = 1 .. m
      /\ \A i \in 1 .. m : SubSeq(s, 1, m)[i] = s[i]
  BY <1>1, <1>5
<1>8. \A i \in DOMAIN s : ~triggered(s[i]) => i \in DOMAIN Alive(s) /\ Alive(s)[i] = s[i]
  BY <1>1, <1>4, <1>5, <1>6, <1>7
<1>9. \A x \in Range(s) : triggered(x) \/ x \in Range(Alive(s))
  BY <1>8, Zenon DEF Range
<1> QED BY <1>4, <1>7, <1>9, Zenon

LEMMA AsapDoneInv ==
  ASSUME GuardInv, AsapDone
  PROVE  GuardInv'
<1>0. clearing_ = FALSE /\ loopPc # "clear" /\ DriverType /\ GuardsCounted /\ KeptAlive /\ HandedOnce /\ GuardHolds
  BY DEF GuardInv
<1>1. /\ asap_' = asap_ /\ migrate_' = migrate_ /\ timed_' = timed_ /\ keepalives_' = Alive(keepalives_)
      /\ guard_count_' = guard_count_ /\ clearing_' = clearing_ /\ ran' = ran
      /\ snow_' = snow_ /\ clock' = clock /\ rpc' = rpc
      /\ loopPc' = IF clearing_ THEN "clear" ELSE "exit"
  BY DEF AsapDone, handover
<1>2. loopPc' = "exit"
  BY <1>0, <1>1, Zenon
<1>3. /\ keepalives_' \in Seq(Job)
      /\ \A x \in Range(keepalives_) : triggered(x) \/ x \in Range(keepalives_')
  <2>1. keepalives_ \in Seq(Job)
    BY <1>0 DEF DriverType
  <2> QED BY <1>1, <2>1, AliveKeeps
<1>4. DriverType'
  BY <1>0, <1>1, <1>3, Zenon DEF DriverType
<1>5. GuardsCounted' /\ HandedOnce'
  BY <1>0, <1>1, Zenon DEF GuardsCounted, HandedOnce, Distinct
<1>6. KeptAlive'
  <2>1. \A k : triggered(k) => triggered(k)'
    BY <1>1, Zenon DEF triggered
  <2> QED BY <1>0, <1>1, <1>3, <2>1, Zenon DEF KeptAlive
<1>7. GuardHolds'
  BY <1>2 DEF GuardHolds
<1> QED BY <1>0, <1>1, <1>2, <1>4, <1>5, <1>6, <1>7 DEF GuardInv

LEMMA ExitInv ==
  ASSUME GuardInv, Exit
  PROVE  GuardInv'
<1>0. clearing_ = FALSE /\ loopPc # "clear" /\ DriverType /\ GuardsCounted /\ KeptAlive /\ HandedOnce
  BY DEF GuardInv
<1>1. /\ asap_' = asap_ /\ migrate_' = migrate_ /\ timed_' = timed_ /\ keepalives_' = keepalives_
      /\ guard_count_' = guard_count_ /\ clearing_' = FALSE /\ ran' = ran
      /\ snow_' = snow_ /\ clock' = clock /\ rpc' = rpc /\ loopPc' = "exited"
      /\ guard_count_ = 0 /\ keepalives_ = <<>>
  BY DEF Exit, NothingToDo, Go, handover
<1>2. Guarded \subseteq ran
  <2>1. IsFiniteSet(Guarded \ ran) /\ Cardinality(Guarded \ ran) = 0
    BY <1>0, <1>1, GuardedFinite DEF GuardsCounted
  <2>2. Guarded \ ran = {}
    BY <2>1, FS_EmptySet, Zenon
  <2> QED BY <2>2, Zenon
<1>3. \A k : triggered(k) => triggered(k)'
  BY <1>1, Zenon DEF triggered
<1>4. \A k \in Range(Kept) : triggered(k)
  <2>1. \A x : x \notin Range(keepalives_)
    BY <1>1 DEF Range
  <2> QED BY <1>0, <2>1, Zenon DEF KeptAlive
<1>5. DriverType' /\ GuardsCounted' /\ KeptAlive' /\ HandedOnce'
  BY <1>0, <1>1, <1>3, Zenon DEF DriverType, GuardsCounted, KeptAlive, HandedOnce, Distinct
<1>6. GuardHolds'
  BY <1>1, <1>2, <1>3, <1>4, Zenon DEF GuardHolds, Guarded
<1> QED BY <1>1, <1>5, <1>6 DEF GuardInv

LEMMA GuardStepInv ==
  ASSUME Clears = FALSE, GuardInv, [DriverNext]_driverVars
  PROVE  GuardInv'
<1>1. CASE UNCHANGED driverVars
  <2>1. UNCHANGED <<asap_, migrate_, timed_, keepalives_, guard_count_, clearing_, ran, snow_, clock, loopPc, rpc>>
    BY <1>1 DEF driverVars
  <2>2. /\ snow_' \in Nat /\ clock' \in Nat /\ loopPc' # "clear"
        /\ rpc' \in [Remote -> {"idle", "triggered", "locked", "wake", "write", "done"}]
    BY <2>1 DEF GuardInv, DriverType
  <2> QED BY <2>1, <2>2, NoJobMoves
<1>2. CASE Import \/ FinishLock \/ Timeout \/ Arm \/ Look \/ watch_fds \/ UpdateTime \/ TimersDone
  BY <1>2, QuietLoopInv
<1>3. CASE finish_migrate \/ RunAsap \/ AsapDone \/ Exit \/ RunTimer
  BY <1>3, FinishMigrateInv, RunAsapInv, AsapDoneInv, ExitInv, RunTimerInv
<1>4. CASE process_clearing
  BY <1>4 DEF process_clearing, GuardInv
<1>5. CASE \E r \in Remote : remote(r)
  <2>1. PICK r \in Remote : remote(r)
    BY <1>5
  <2>2. trigger_unlock(r) \/ RemoteLock(r) \/ migrate_asap(r) \/ ReadWakefd(r) \/ migrate_wake(r)
    BY <2>1 DEF remote
  <2> QED BY <2>2, RemoteQuietInv, MigrateAsapInv
<1>6. CASE Tick
  BY <1>6, TickInv
<1> QED BY <1>1, <1>2, <1>3, <1>4, <1>5, <1>6 DEF DriverNext, loop

\* Whatever the threads and the loop do in which order, a driver that nobody clears
\* returns from its loop only when every job that another thread posts under a guard
\* has run and every event that keepalive() was called with is triggered.
THEOREM GuardHoldsTheorem ==
  ASSUME Clears = FALSE
  PROVE  DriverSpec => []GuardHolds
<1>1. GuardInv => GuardHolds
  BY DEF GuardInv
<1>2. GuardInv /\ [DriverNext]_driverVars => GuardInv'
  BY GuardStepInv
<1> QED BY <1>1, <1>2, GuardInitInv, PTL DEF DriverSpec

-----------------------------------------------------------------------------
(* The heap of timers: loops, arrays and the tree.                          *)

\* What holds at first and is kept by every turn of a loop holds at each.
LEMMA TurnsIn ==
  ASSUME NEW n \in Nat, NEW W, NEW g, g[0] \in W[0],
         \A k \in 1 .. n : g[k - 1] \in W[k - 1] => g[k] \in W[k]
  PROVE  \A k \in 0 .. n : g[k] \in W[k]
<1> DEFINE T == {k \in 0 .. n : g[k] \notin W[k]}
<1> SUFFICES ASSUME T # {} PROVE FALSE
  OBVIOUS
<1>1. T \in SUBSET Nat
  OBVIOUS
<1>2. Min(T) \in T /\ \A y \in T : Min(T) <= y
  BY <1>1, LeastOf
<1> DEFINE m == Min(T)
<1>3. m \in 0 .. n /\ g[m] \notin W[m] /\ m # 0
  BY <1>2
<1> HIDE DEF m
<1>4. m \in 1 .. n /\ m - 1 \in 0 .. n /\ ~(m <= m - 1)
  BY <1>3
<1>5. m - 1 \notin T
  BY <1>2, <1>4 DEF m
<1>6. g[m - 1] \in W[m - 1]
  BY <1>4, <1>5
<1> QED BY <1>3, <1>4, <1>6

\* The states of n turns of f, from x.
Turns(g, f, x, n) == g = [k \in 0 .. n |-> IF k = 0 THEN x ELSE f[g[k - 1]]]

StepByStep(g, f, x, n) ==
  /\ g = [k \in 0 .. n |-> g[k]]
  /\ g[0] = x
  /\ \A k \in 1 .. n : k - 1 \in 0 .. n /\ k \in 0 .. n /\ g[k] = f[g[k - 1]]

LEMMA TurnsAre ==
  ASSUME NEW f, NEW x, NEW n \in Nat, NEW g, Turns(g, f, x, n)
  PROVE  StepByStep(g, f, x, n)
<1>1. \A k \in 0 .. n : g[k] = IF k = 0 THEN x ELSE f[g[k - 1]]
  BY Zenon DEF Turns
<1>2. DOMAIN g = 0 .. n /\ g = [k \in DOMAIN g |-> g[k]]
  BY Zenon DEF Turns
<1>3. 0 \in 0 .. n /\ \A k \in 1 .. n : k # 0 /\ k - 1 \in 0 .. n /\ k \in 0 .. n
  OBVIOUS
<1> QED BY <1>1, <1>2, <1>3, Zenon DEF StepByStep

LEMMA TurnsExist ==
  ASSUME NEW f, NEW x, NEW n \in Nat
  PROVE  \E g : Turns(g, f, x, n)
<1> DEFINE T == {k \in Nat : ~\E g : Turns(g, f, x, k)}
<1>1. \E g : Turns(g, f, x, 0)
  <2> DEFINE h == [k \in 0 .. 0 |-> x]
  <2>1. h = [k \in 0 .. 0 |-> IF k = 0 THEN x ELSE f[h[k - 1]]]
    OBVIOUS
  <2> QED BY <2>1 DEF Turns
<1>2. ASSUME NEW m \in Nat, \E g : Turns(g, f, x, m) PROVE \E g : Turns(g, f, x, m + 1)
  <2>1. PICK g : Turns(g, f, x, m)
    BY <1>2
  <2> DEFINE h == [k \in 0 .. m + 1 |-> IF k = m + 1 THEN f[g[m]] ELSE g[k]]
  <2>2. DOMAIN h = 0 .. m + 1 /\ h = [k \in DOMAIN h |-> h[k]] /\ h[m + 1] = f[g[m]] /\ \A k \in 0 .. m : h[k] = g[k]
    OBVIOUS
  <2>3. g[0] = x /\ \A k \in 1 .. m : g[k] = f[g[k - 1]]
    BY <2>1 DEF Turns
  <2> HIDE DEF h
  <2>4. ASSUME NEW k \in 0 .. m + 1 PROVE h[k] = IF k = 0 THEN x ELSE f[h[k - 1]]
    <3>1. CASE k = 0
      BY <2>2, <2>3, <3>1
    <3>2. CASE k = m + 1
      <4>1. k # 0 /\ k - 1 = m /\ m \in 0 .. m
        BY <3>2
      <4> QED BY <2>2, <3>2, <4>1
    <3>3. CASE k \in 1 .. m
      <4>1. k # 0 /\ k - 1 \in 0 .. m /\ k \in 0 .. m
        BY <3>3
      <4> QED BY <2>2, <2>3, <3>3, <4>1
    <3> QED BY <3>1, <3>2, <3>3
  <2>5. h = [k \in 0 .. m + 1 |-> IF k = 0 THEN x ELSE f[h[k - 1]]]
    BY <2>2, <2>4
  <2> QED BY <2>5 DEF Turns
<1>3. T = {}
  <2> SUFFICES ASSUME T # {} PROVE FALSE
    OBVIOUS
  <2>1. T \in SUBSET Nat
    OBVIOUS
  <2>2. Min(T) \in T /\ \A y \in T : Min(T) <= y
    BY <2>1, LeastOf
  <2> DEFINE m == Min(T)
  <2>3. m \in Nat /\ m # 0 /\ ~\E g : Turns(g, f, x, m)
    BY <1>1, <2>2
  <2> HIDE DEF m
  <2>4. m - 1 \in Nat /\ ~(m <= m - 1) /\ (m - 1) + 1 = m
    BY <2>3
  <2>5. m - 1 \notin T
    BY <2>2, <2>4 DEF m
  <2>6. \E g : Turns(g, f, x, m - 1)
    BY <2>4, <2>5
  <2> QED BY <1>2, <2>3, <2>4, <2>6
<1> QED BY <1>3

\* An array of n positions with the elements of E, each once.
Arr(E, n) ==
  {s \in Seq(E) : /\ Len(s) = n
                  /\ \A i, j \in 0 .. n - 1 : At(s, i) = At(s, j) => i = j
                  /\ \A e \in E : \E i \in 0 .. n - 1 : At(s, i) = e}

LEMMA ArrAt ==
  ASSUME NEW E, NEW n \in Nat, NEW s \in Arr(E, n)
  PROVE  /\ s \in Seq(E) /\ Len(s) = n /\ DOMAIN s = 1 .. n
         /\ \A i \in 0 .. n - 1 : i + 1 \in 1 .. n /\ At(s, i) = s[i + 1] /\ At(s, i) \in E
<1>1. s \in Seq(E) /\ Len(s) = n
  BY DEF Arr
<1>2. \A i \in 0 .. n - 1 : i + 1 \in 1 .. n
  OBVIOUS
<1> QED BY <1>1, <1>2 DEF At

LEMMA SwapArr ==
  ASSUME NEW E, NEW n \in Nat, NEW s \in Arr(E, n), NEW i \in 0 .. n - 1, NEW j \in 0 .. n - 1, i # j
  PROVE  /\ Swap(s, i, j) \in Arr(E, n)
         /\ At(Swap(s, i, j), i) = At(s, j)
         /\ At(Swap(s, i, j), j) = At(s, i)
         /\ \A k \in 0 .. n - 1 : k # i /\ k # j => At(Swap(s, i, j), k) = At(s, k)
<1>0. /\ s \in Seq(E) /\ Len(s) = n /\ DOMAIN s = 1 .. n
      /\ \A k \in 0 .. n - 1 : k + 1 \in 1 .. n /\ At(s, k) = s[k + 1] /\ At(s, k) \in E
  BY ArrAt
<1> DEFINE t == Swap(s, i, j)
<1>1. /\ DOMAIN t = 1 .. n /\ i + 1 \in 1 .. n /\ j + 1 \in 1 .. n /\ i + 1 # j + 1
      /\ t[i + 1] = s[j + 1] /\ t[j + 1] = s[i + 1]
      /\ \A m \in 1 .. n : m # i + 1 /\ m # j + 1 => t[m] = s[m]
  BY <1>0 DEF Swap
<1>2. t \in [1 .. n -> E]
  <2>1. \A m \in 1 .. n : s[m] \in E
    BY <1>0
  <2>2. \A m \in 1 .. n : t[m] \in E
    BY <1>1, <2>1
  <2>3. t = [m \in 1 .. n |-> t[m]]
    BY <1>0 DEF Swap
  <2> QED BY <2>2, <2>3
<1> HIDE DEF t
<1>3. t \in Seq(E) /\ Len(t) = n
  BY <1>2
<1>4. At(t, i) = At(s, j) /\ At(t, j) = At(s, i)
  BY <1>0, <1>1 DEF At
<1>5. \A k \in 0 .. n - 1 : k # i /\ k # j => At(t, k) = At(s, k)
  <2> TAKE k \in 0 .. n - 1
  <2>1. k # i /\ k # j => k + 1 # i + 1 /\ k + 1 # j + 1
    OBVIOUS
  <2> QED BY <1>0, <1>1, <2>1 DEF At
<1>6. \A k, m \in 0 .. n - 1 : At(s, k) = At(s, m) => k = m
  BY DEF Arr
<1>7. \A k, m \in 0 .. n - 1 : At(t, k) = At(t, m) => k = m
  <2> SUFFICES ASSUME NEW k \in 0 .. n - 1, NEW m \in 0 .. n - 1, At(t, k) = At(t, m) PROVE k = m
    OBVIOUS
  <2>1. CASE k = i
    BY <1>4, <1>5, <1>6, <2>1, Zenon
  <2>2. CASE k = j
    BY <1>4, <1>5, <1>6, <2>2, Zenon
  <2>3. CASE k # i /\ k # j
    BY <1>4, <1>5, <1>6, <2>3, Zenon
  <2> QED BY <2>1, <2>2, <2>3
<1>8. \A e \in E : \E k \in 0 .. n - 1 : At(t, k) = e
  <2> TAKE e \in E
  <2>1. PICK k \in 0 .. n - 1 : At(s, k) = e
    BY DEF Arr
  <2> QED BY <1>4, <1>5, <2>1, Zenon
<1>9. t \in Arr(E, n)
  BY <1>3, <1>7, <1>8 DEF Arr
<1> QED BY <1>4, <1>5, <1>9 DEF t

\* The tree: the parent of a position is above it, and Smallest looks at its children.
LEMMA Tree ==
  /\ \A i \in Nat \ {0} : heap_parent(i) \in 0 .. i - 1
  /\ \A s, p : Len(s) \in Nat /\ p \in Nat =>
       \A t \in Nat : t \in heap_first_child(p) .. heap_last_child(p, s) - 1
                        <=> t \in 1 .. Len(s) - 1 /\ heap_parent(t) = p
<1>0. arity \in Nat /\ arity >= 2
  BY HeapAssumption
<1> DEFINE c == IF arity = 2 THEN 1 ELSE 0
<1>1. \A x \in Nat : /\ x \div arity \in Nat /\ arity * (x \div arity) <= x
                     /\ x < arity * (x \div arity) + arity
  BY <1>0
<1>2. \A x, q \in Nat : arity * q <= x /\ x < arity * q + arity => x \div arity = q
  BY <1>0, <1>1
<1>3. ASSUME NEW i \in Nat \ {0} PROVE heap_parent(i) \in 0 .. i - 1
  <2>1. i - c \in Nat /\ i - c <= i
    OBVIOUS
  <2> DEFINE q == (i - c) \div arity
  <2>2. q \in Nat /\ arity * q <= i - c
    BY <1>1, <2>1
  <2> HIDE DEF q
  <2>3. 2 * q <= arity * q /\ arity * q \in Nat
    BY <1>0, <2>2
  <2>4. q + q <= i
    <3>1. ASSUME NEW x \in Nat, 2 * q <= x, x <= i - c PROVE q + q <= i
      BY <2>1, <2>2, <3>1
    <3> QED BY <2>2, <2>3, <3>1
  <2>5. q <= i - 1
    BY <2>2, <2>4
  <2> QED BY <2>2, <2>5 DEF heap_parent, q
<1>4. ASSUME NEW s, NEW p \in Nat, NEW t \in Nat, Len(s) \in Nat
      PROVE  t \in heap_first_child(p) .. heap_last_child(p, s) - 1
               <=> t \in 1 .. Len(s) - 1 /\ heap_parent(t) = p
  <2> DEFINE a == arity * p
             first == a + (IF arity = 2 \/ p = 0 THEN 1 ELSE 0)
             last == a + arity + c
  <2>1. /\ heap_first_child(p) = first
        /\ heap_last_child(p, s) = IF last < Len(s) THEN last ELSE Len(s)
        /\ heap_parent(t) = (t - c) \div arity
    <3>1. p * arity = a
      BY <1>0
    <3> QED BY <3>1 DEF heap_first_child, heap_last_child, heap_parent
  <2>2. a \in Nat /\ (p = 0 => a = 0) /\ (p # 0 => a >= arity)
    BY <1>0
  <2>3. ASSUME t \in 1 .. Len(s) - 1 PROVE (t - c) \div arity = p <=> (a <= t - c /\ t - c < a + arity)
    <3>1. t - c \in Nat
      BY <2>3
    <3> QED BY <1>1, <1>2, <3>1
  <2> HIDE DEF a
  <2>4. ASSUME t \in first .. (IF last < Len(s) THEN last ELSE Len(s)) - 1
        PROVE  t \in 1 .. Len(s) - 1 /\ (t - c) \div arity = p
    <3>1. t \in 1 .. Len(s) - 1 /\ a <= t - c /\ t - c < a + arity
      BY <1>0, <1>4, <2>2, <2>4
    <3> QED BY <2>3, <3>1
  <2>5. ASSUME t \in 1 .. Len(s) - 1, (t - c) \div arity = p
        PROVE  t \in first .. (IF last < Len(s) THEN last ELSE Len(s)) - 1
    <3>1. a <= t - c /\ t - c < a + arity
      BY <2>3, <2>5
    <3> QED BY <1>0, <1>4, <2>2, <2>5, <3>1
  <2> HIDE DEF first, last, c
  <2> QED BY <2>1, <2>4, <2>5
<1> QED BY <1>3, <1>4

LEMMA ParentIn ==
  ASSUME NEW n \in Nat, NEW i \in 1 .. n - 1
  PROVE  heap_parent(i) \in 0 .. n - 1 /\ heap_parent(i) < i /\ heap_parent(i) # i
<1>1. i \in Nat \ {0}
  OBVIOUS
<1>2. heap_parent(i) \in 0 .. i - 1
  BY <1>1, Tree
<1> QED BY <1>2

\* Less is a linear order of the elements.
Linear(E) ==
  /\ \A a \in E : ~Less(a, a)
  /\ \A a, b, c \in E : Less(a, b) /\ Less(b, c) => Less(a, c)
  /\ \A a, b \in E : a = b \/ Less(a, b) \/ Less(b, a)

LEMMA LinearPart ==
  ASSUME NEW E, Linear(E), NEW F \in SUBSET E
  PROVE  Linear(F)
BY DEF Linear

LEMMA NotLess ==
  ASSUME NEW E, Linear(E)
  PROVE  /\ \A a, b, c \in E : ~Less(b, a) /\ ~Less(c, b) => ~Less(c, a)
         /\ \A a, b, c \in E : Less(a, b) /\ ~Less(c, b) => ~Less(c, a) /\ Less(a, c)
         /\ \A a, b \in E : Less(a, b) => ~Less(b, a)
BY DEF Linear

\* The element at i is no less than its parent.
HeapAt(s, i) == ~Less(At(s, i), At(s, heap_parent(i)))
Heaped(s) == \A i \in 1 .. Len(s) - 1 : HeapAt(s, i)

\* The children of p are no less than the parent of p.
Spans(s, p) ==
  p # 0 => \A i \in 1 .. Len(s) - 1 : heap_parent(i) = p => ~Less(At(s, i), At(s, heap_parent(p)))

\* A heap but for the element at p, which may have to rise, or to sink.
UpOk(s, p) == (\A i \in 1 .. Len(s) - 1 : i # p => HeapAt(s, i)) /\ Spans(s, p)
DownOk(s, p) == (\A i \in 1 .. Len(s) - 1 : heap_parent(i) # p => HeapAt(s, i)) /\ Spans(s, p)

LEMMA MoveUp ==
  ASSUME NEW E, Linear(E), NEW n \in Nat, NEW s \in Arr(E, n), NEW p \in 1 .. n - 1, UpOk(s, p),
         Less(At(s, p), At(s, heap_parent(p)))
  PROVE  UpOk(Swap(s, p, heap_parent(p)), heap_parent(p))
<1> DEFINE q == heap_parent(p)
           t == Swap(s, p, q)
<1>1. q \in 0 .. n - 1 /\ q < p /\ q # p /\ p \in 0 .. n - 1
  BY ParentIn
<1>2. /\ t \in Arr(E, n) /\ At(t, p) = At(s, q) /\ At(t, q) = At(s, p)
      /\ \A k \in 0 .. n - 1 : k # p /\ k # q => At(t, k) = At(s, k)
  <2> HIDE DEF q
  <2> QED BY <1>1, SwapArr DEF t
<1>3. Len(s) = n /\ Len(t) = n /\ \A i \in 0 .. n - 1 : At(s, i) \in E
  BY <1>2, ArrAt
<1>4. Less(At(s, p), At(s, q))
  OBVIOUS
<1> HIDE DEF t
<1>5. ASSUME NEW i \in 1 .. n - 1, i # q PROVE HeapAt(t, i)
  <2> DEFINE r == heap_parent(i)
  <2>1. i \in 0 .. n - 1 /\ r \in 0 .. n - 1 /\ r # i /\ r < i
    BY ParentIn
  <2>2. i # p => ~Less(At(s, i), At(s, r))
    BY <1>3 DEF UpOk, HeapAt
  <2>3. CASE i = p
    <3>1. ~Less(At(s, q), At(s, p))
      BY <1>1, <1>3, <1>4, NotLess
    <3> QED BY <1>2, <2>3, <3>1 DEF HeapAt, q
  <2>4. CASE i # p /\ r = p
    <3>1. ~Less(At(s, i), At(s, q))
      BY <1>3, <2>4 DEF UpOk, Spans, q
    <3> QED BY <1>2, <1>5, <2>1, <2>4, <3>1 DEF HeapAt
  <2>5. CASE i # p /\ r = q
    <3>1. ~Less(At(s, i), At(s, q))
      BY <2>2, <2>5
    <3>2. ~Less(At(s, i), At(s, p))
      BY <1>1, <1>3, <1>4, <2>1, <3>1, NotLess
    <3> QED BY <1>2, <1>5, <2>1, <2>5, <3>2 DEF HeapAt
  <2>6. CASE i # p /\ r # p /\ r # q
    BY <1>2, <1>5, <2>1, <2>2, <2>6 DEF HeapAt
  <2> QED BY <2>3, <2>4, <2>5, <2>6
<1>6. ASSUME q # 0, NEW i \in 1 .. n - 1, heap_parent(i) = q
      PROVE  ~Less(At(t, i), At(t, heap_parent(q)))
  <2> DEFINE r == heap_parent(q)
  <2>0. q \in 1 .. n - 1
    BY <1>1, <1>6
  <2>1. r \in 0 .. n - 1 /\ r < q /\ r # q /\ r # p
    <3> HIDE DEF q
    <3> QED BY <1>1, <2>0, ParentIn DEF r
  <2>2. i \in 0 .. n - 1 /\ i # q
    BY <1>6, ParentIn
  <2>3. At(t, r) = At(s, r)
    BY <1>2, <2>1
  <2>4. ~Less(At(s, q), At(s, r))
    BY <1>1, <1>3, <2>0 DEF UpOk, HeapAt
  <2>5. CASE i = p
    BY <1>2, <2>3, <2>4, <2>5
  <2>6. CASE i # p
    <3>1. ~Less(At(s, i), At(s, q))
      BY <1>3, <1>6, <2>6 DEF UpOk, HeapAt
    <3>2. ~Less(At(s, i), At(s, r))
      BY <1>1, <1>3, <2>1, <2>2, <2>4, <3>1, NotLess
    <3> QED BY <1>2, <2>2, <2>3, <2>6, <3>2
  <2> QED BY <2>5, <2>6
<1> HIDE DEF q
<1>7. UpOk(t, q)
  BY <1>3, <1>5, <1>6 DEF UpOk, Spans
<1> QED BY <1>7 DEF t, q

\* Smallest finds the least of an element and its children.
LEMMA SmallestIs ==
  ASSUME NEW E, Linear(E), NEW n \in Nat, NEW s \in Arr(E, n), NEW p \in 0 .. n - 1
  PROVE  LET m == Smallest(s, p)
         IN  /\ m = p \/ (m \in 1 .. n - 1 /\ heap_parent(m) = p)
             /\ ~Less(At(s, p), At(s, m))
             /\ \A i \in 1 .. n - 1 : heap_parent(i) = p => ~Less(At(s, i), At(s, m))
<1> DEFINE Children == {i \in 1 .. n - 1 : heap_parent(i) = p}
           Fam == {p} \union Children
           Best(m) == m \in Fam /\ \A t \in Fam : ~Less(At(s, t), At(s, m))
<1>0. Len(s) = n /\ p \in Nat /\ \A i \in 0 .. n - 1 : At(s, i) \in E
  BY ArrAt
<1>1. heap_first_child(p) .. heap_last_child(p, s) - 1 = Children
  <2>1. heap_first_child(p) \in Nat
    <3>1. arity \in Nat
      BY HeapAssumption
    <3>2. p * arity \in Nat
      BY <1>0, <3>1
    <3> QED BY <3>2 DEF heap_first_child
  <2>2. \A t \in heap_first_child(p) .. heap_last_child(p, s) - 1 : t \in Nat
    BY <2>1
  <2>3. \A t \in Nat : t \in heap_first_child(p) .. heap_last_child(p, s) - 1 <=> t \in Children
    BY <1>0, Tree
  <2> QED BY <2>2, <2>3
<1>2. Fam \subseteq 0 .. n - 1
  OBVIOUS
<1>3. \E m : Best(m)
  \* The first of the best so far, going through the positions.
  <2> DEFINE Low(k) == {i \in Fam : i <= k}
             Ok(k) == Low(k) = {} \/ \E m \in Low(k) : \A t \in Low(k) : ~Less(At(s, t), At(s, m))
             W == [k \in 0 .. n |-> IF Ok(k) THEN {k} ELSE {}]
             g == [k \in 0 .. n |-> k]
  <2>1. Ok(0)
    <3>1. \A i \in Low(0) : i = 0 /\ 0 \in 0 .. n - 1
      BY <1>2
    <3>2. \A i \in Low(0) : ~Less(At(s, i), At(s, i))
      BY <1>0, <3>1 DEF Linear
    <3> QED BY <3>1, <3>2
  <2>2. ASSUME NEW k \in 1 .. n, Ok(k - 1) PROVE Ok(k)
    <3>1. k - 1 \in Nat /\ \A i \in Fam : i <= k <=> i <= k - 1 \/ i = k
      BY <1>2
    <3>2. CASE k \notin Fam
      <4>1. Low(k) = Low(k - 1)
        BY <3>1, <3>2
      <4> QED BY <2>2, <4>1
    <3>3. CASE k \in Fam
      <4>1. Low(k) = Low(k - 1) \union {k} /\ Low(k - 1) \subseteq 0 .. n - 1 /\ k \in 0 .. n - 1
        BY <1>2, <3>1, <3>3
      <4> HIDE DEF Low
      <4>2. ~Less(At(s, k), At(s, k))
        BY <1>0, <4>1 DEF Linear
      <4>3. CASE Low(k - 1) = {}
        BY <4>1, <4>2, <4>3
      <4>4. CASE Low(k - 1) # {}
        <5>1. PICK m \in Low(k - 1) : \A t \in Low(k - 1) : ~Less(At(s, t), At(s, m))
          BY <2>2, <4>4
        <5>2. CASE Less(At(s, k), At(s, m))
          <6>1. ASSUME NEW t \in Low(k - 1) PROVE ~Less(At(s, t), At(s, k))
            <7>1. ~Less(At(s, t), At(s, m)) /\ t \in 0 .. n - 1 /\ m \in 0 .. n - 1
              BY <4>1, <5>1
            <7> QED BY <1>0, <4>1, <5>2, <7>1, NotLess
          <6> QED BY <4>1, <4>2, <6>1
        <5>3. CASE ~Less(At(s, k), At(s, m))
          BY <4>1, <5>1, <5>3
        <5> QED BY <5>2, <5>3
      <4> QED BY <4>3, <4>4
    <3> QED BY <3>2, <3>3
  <2> HIDE DEF Ok
  <2>3. \A k \in 0 .. n : g[k] = k /\ (W[k] = {k} <=> Ok(k)) /\ (W[k] = {} <=> ~Ok(k))
    OBVIOUS
  <2> HIDE DEF g, W
  <2>4. \A k \in 0 .. n : g[k] \in W[k] <=> Ok(k)
    BY <2>3
  <2>5. \A k \in 1 .. n : g[k - 1] \in W[k - 1] => g[k] \in W[k]
    <3> TAKE k \in 1 .. n
    <3>1. k - 1 \in 0 .. n /\ k \in 0 .. n
      OBVIOUS
    <3> QED BY <2>2, <2>4, <3>1
  <2>6. \A k \in 0 .. n : g[k] \in W[k]
    <3>1. g[0] \in W[0]
      BY <2>1, <2>4
    <3> QED BY <2>5, <3>1, TurnsIn
  <2>7. Ok(n) /\ Low(n) = Fam
    BY <1>2, <2>4, <2>6
  <2> QED BY <2>7 DEF Ok
<1>4. Smallest(s, p) = CHOOSE m \in Fam : \A t \in Fam : ~Less(At(s, t), At(s, m))
  BY <1>1, Zenon DEF Smallest
<1> HIDE DEF Fam
<1>5. Best(Smallest(s, p))
  BY <1>3, <1>4, Zenon
<1> QED BY <1>5 DEF Fam

LEMMA MoveDown ==
  ASSUME NEW E, Linear(E), NEW n \in Nat, NEW s \in Arr(E, n), NEW p \in 0 .. n - 1, DownOk(s, p),
         NEW m \in 1 .. n - 1, heap_parent(m) = p, ~Less(At(s, p), At(s, m)),
         \A i \in 1 .. n - 1 : heap_parent(i) = p => ~Less(At(s, i), At(s, m))
  PROVE  DownOk(Swap(s, p, m), m)
<1> DEFINE t == Swap(s, p, m)
<1>1. p < m /\ p # m /\ m \in 0 .. n - 1
  BY ParentIn
<1>2. /\ t \in Arr(E, n) /\ At(t, p) = At(s, m) /\ At(t, m) = At(s, p)
      /\ \A k \in 0 .. n - 1 : k # p /\ k # m => At(t, k) = At(s, k)
  BY <1>1, SwapArr
<1>3. Len(s) = n /\ Len(t) = n /\ \A i \in 0 .. n - 1 : At(s, i) \in E
  BY <1>2, ArrAt
<1> HIDE DEF t
<1>5. ASSUME NEW i \in 1 .. n - 1, heap_parent(i) # m PROVE HeapAt(t, i)
  <2> DEFINE r == heap_parent(i)
  <2>1. i \in 0 .. n - 1 /\ r \in 0 .. n - 1 /\ r # i /\ r < i
    BY ParentIn
  <2>2. r # p => ~Less(At(s, i), At(s, r))
    BY <1>3 DEF DownOk, HeapAt
  <2>3. CASE i = p
    <3>1. p # 0 /\ r # p /\ r # m
      BY <1>1, <2>1, <2>3
    <3>2. ~Less(At(s, m), At(s, r))
      BY <1>3, <2>3, <3>1 DEF DownOk, Spans
    <3> QED BY <1>2, <2>1, <2>3, <3>1, <3>2 DEF HeapAt
  <2>4. CASE i = m
    BY <1>2, <2>4 DEF HeapAt
  <2>5. CASE i # p /\ i # m /\ r = p
    BY <1>2, <2>1, <2>5 DEF HeapAt
  <2>6. CASE i # p /\ i # m /\ r # p
    BY <1>2, <1>5, <2>1, <2>2, <2>6 DEF HeapAt
  <2> QED BY <2>3, <2>4, <2>5, <2>6
<1>6. ASSUME NEW i \in 1 .. n - 1, heap_parent(i) = m
      PROVE  ~Less(At(t, i), At(t, heap_parent(m)))
  <2>1. i \in 0 .. n - 1 /\ m < i /\ i # m /\ i # p
    BY <1>1, <1>6, ParentIn
  <2>2. ~Less(At(s, i), At(s, m))
    BY <1>1, <1>3, <1>6 DEF DownOk, HeapAt
  <2> QED BY <1>2, <2>1, <2>2
<1>7. DownOk(t, m)
  BY <1>3, <1>5, <1>6 DEF DownOk, Spans
<1> QED BY <1>7 DEF t

\* The array and the position of the element that moves.
Moving(E, n) == [es : Arr(E, n), pos : 0 .. n - 1]

\* After k turns: the loop has come to an end, or to the k-th position above the last.
RisenBy(E, n, k) ==
  {h \in Moving(E, n) : UpOk(h.es, h.pos) /\ (Heaped(h.es) \/ h.pos + k <= n - 1)}

\* After k turns: the loop has come to an end, or at least to position k.
SunkBy(E, n, k) ==
  {h \in Moving(E, n) : DownOk(h.es, h.pos) /\ (Heaped(h.es) \/ h.pos >= k)}

LEMMA MovedTo ==
  ASSUME NEW E, NEW n \in Nat, NEW h \in Moving(E, n), NEW p \in 0 .. n - 1, p # h.pos
  PROVE  MoveTo(h, p) \in Moving(E, n) /\ MoveTo(h, p).es = Swap(h.es, h.pos, p) /\ MoveTo(h, p).pos = p
<1>1. h.es \in Arr(E, n) /\ h.pos \in 0 .. n - 1
  BY DEF Moving
<1>2. Swap(h.es, h.pos, p) \in Arr(E, n)
  BY <1>1, SwapArr
<1> QED BY <1>2 DEF MoveTo, Moving

LEMMA TurnUpRises ==
  ASSUME NEW E, Linear(E), NEW n \in Nat, NEW k \in Nat, NEW h \in RisenBy(E, n, k)
  PROVE  TurnUp(h) \in RisenBy(E, n, k + 1)
<1>1. /\ h \in Moving(E, n) /\ UpOk(h.es, h.pos) /\ (Heaped(h.es) \/ h.pos + k <= n - 1)
      /\ h.es \in Arr(E, n) /\ h.pos \in 0 .. n - 1
  BY DEF RisenBy, Moving
<1>2. Len(h.es) = n
  BY <1>1, ArrAt
<1>3. CASE h.pos = 0 \/ ~Less(At(h.es, h.pos), At(h.es, heap_parent(h.pos)))
  <2>1. TurnUp(h) = h
    BY <1>3 DEF TurnUp
  <2>2. Heaped(h.es)
    BY <1>1, <1>3 DEF Heaped, UpOk, HeapAt
  <2> QED BY <1>1, <2>1, <2>2 DEF RisenBy
<1>4. CASE ~(h.pos = 0 \/ ~Less(At(h.es, h.pos), At(h.es, heap_parent(h.pos))))
  <2> DEFINE p == heap_parent(h.pos)
  <2>1. h.pos \in 1 .. n - 1 /\ p \in 0 .. n - 1 /\ p < h.pos /\ p # h.pos
    BY <1>1, <1>4, ParentIn
  <2>2. TurnUp(h) = MoveTo(h, p)
    BY <1>4 DEF TurnUp
  <2>3. UpOk(Swap(h.es, h.pos, p), p)
    BY <1>1, <1>4, <2>1, MoveUp
  <2>4. ~Heaped(h.es)
    BY <1>2, <1>4, <2>1 DEF Heaped, HeapAt
  <2> HIDE DEF p
  <2>5. p + (k + 1) <= n - 1
    BY <1>1, <2>1, <2>4
  <2> QED BY <1>1, <2>1, <2>2, <2>3, <2>5, MovedTo DEF RisenBy
<1> QED BY <1>3, <1>4

LEMMA TurnDownSinks ==
  ASSUME NEW E, Linear(E), NEW n \in Nat, NEW k \in Nat, NEW h \in SunkBy(E, n, k)
  PROVE  TurnDown(h) \in SunkBy(E, n, k + 1)
<1>1. /\ h \in Moving(E, n) /\ DownOk(h.es, h.pos) /\ (Heaped(h.es) \/ h.pos >= k)
      /\ h.es \in Arr(E, n) /\ h.pos \in 0 .. n - 1
  BY DEF SunkBy, Moving
<1>2. Len(h.es) = n
  BY <1>1, ArrAt
<1> DEFINE m == Smallest(h.es, h.pos)
<1>3. /\ m = h.pos \/ (m \in 1 .. n - 1 /\ heap_parent(m) = h.pos)
      /\ ~Less(At(h.es, h.pos), At(h.es, m))
      /\ \A i \in 1 .. n - 1 : heap_parent(i) = h.pos => ~Less(At(h.es, i), At(h.es, m))
  BY <1>1, SmallestIs
<1> HIDE DEF m
<1>4. CASE m = h.pos
  <2>1. TurnDown(h) = h
    BY <1>4 DEF TurnDown, m
  <2>2. Heaped(h.es)
    BY <1>1, <1>2, <1>3, <1>4 DEF Heaped, DownOk, HeapAt
  <2> QED BY <1>1, <2>1, <2>2 DEF SunkBy
<1>5. CASE m # h.pos
  <2>1. m \in 1 .. n - 1 /\ m \in 0 .. n - 1 /\ heap_parent(m) = h.pos /\ h.pos < m
    BY <1>3, <1>5, ParentIn
  <2>2. TurnDown(h) = MoveTo(h, m)
    BY <1>5 DEF TurnDown, m
  <2>3. DownOk(Swap(h.es, h.pos, m), m)
    BY <1>1, <1>3, <2>1, MoveDown
  <2>4. CASE h.pos >= k
    <3>1. m >= k + 1
      BY <1>1, <2>1, <2>4
    <3> QED BY <1>1, <1>5, <2>1, <2>2, <2>3, <3>1, MovedTo DEF SunkBy
  <2>5. CASE Heaped(h.es)
    \* The least is the element itself.
    <3>1. ~Less(At(h.es, m), At(h.es, h.pos))
      BY <1>2, <2>1, <2>5 DEF Heaped, HeapAt
    <3>2. At(h.es, m) \in E /\ At(h.es, h.pos) \in E
      BY <1>1, <2>1, ArrAt
    <3>3. At(h.es, m) = At(h.es, h.pos)
      BY <1>3, <3>1, <3>2 DEF Linear
    <3> QED BY <1>1, <1>5, <2>1, <3>3 DEF Arr
  <2> QED BY <1>1, <2>4, <2>5
<1> QED BY <1>4, <1>5

\* The states of n turns are in W if each turn leads from W[k - 1] to W[k]; the loops
\* below are the CHOOSE that their recursive function stands for.
LEMMA SiftUpHeaps ==
  ASSUME NEW E, Linear(E), NEW n \in Nat, NEW s \in Arr(E, n), NEW p \in 0 .. n - 1, UpOk(s, p)
  PROVE  SiftUp(s, p) \in Arr(E, n) /\ Heaped(SiftUp(s, p))
<1> DEFINE x == [es |-> s, pos |-> p]
           W == [k \in 0 .. n |-> RisenBy(E, n, k)]
           f == [h \in Moving(E, n) |-> TurnUp(h)]
           Runs(g) == g = [k \in 0 .. n |-> IF k = 0 THEN x ELSE TurnUp(g[k - 1])]
<1>0. Len(s) = n
  BY ArrAt
<1>1. x \in W[0]
  BY DEF RisenBy, Moving
<1>2. \A k \in 0 .. n : W[k] = RisenBy(E, n, k) /\ RisenBy(E, n, k) \subseteq Moving(E, n)
  BY DEF RisenBy
<1>3. \A h \in Moving(E, n) : f[h] = TurnUp(h)
  OBVIOUS
<1>4. ASSUME NEW k \in 1 .. n, NEW h \in W[k - 1] PROVE TurnUp(h) \in W[k] /\ f[h] = TurnUp(h)
  <2>1. k - 1 \in 0 .. n /\ k - 1 \in Nat /\ k \in 0 .. n /\ (k - 1) + 1 = k
    OBVIOUS
  <2>2. h \in RisenBy(E, n, k - 1)
    BY <1>2, <1>4, <2>1
  <2>3. TurnUp(h) \in RisenBy(E, n, (k - 1) + 1)
    BY <2>1, <2>2, TurnUpRises
  <2> QED BY <1>2, <1>3, <2>1, <2>2, <2>3
<1> HIDE DEF W, f, x
<1>5. \E g : Runs(g)
  <2>1. PICK g : Turns(g, f, x, n)
    BY TurnsExist
  <2>2. /\ g = [k \in 0 .. n |-> g[k]] /\ g[0] = x
        /\ \A k \in 1 .. n : k - 1 \in 0 .. n /\ k \in 0 .. n /\ g[k] = f[g[k - 1]]
    <3>1. StepByStep(g, f, x, n)
      BY <2>1, TurnsAre
    <3> QED BY <3>1, Zenon DEF StepByStep
  <2>3. \A k \in 1 .. n : g[k - 1] \in W[k - 1] => g[k] \in W[k] /\ g[k] = TurnUp(g[k - 1])
    <3> TAKE k \in 1 .. n
    <3> HAVE g[k - 1] \in W[k - 1]
    <3>1. TurnUp(g[k - 1]) \in W[k] /\ f[g[k - 1]] = TurnUp(g[k - 1])
      BY <1>4
    <3> QED BY <2>2, <3>1, Zenon
  <2>4. \A k \in 0 .. n : g[k] \in W[k]
    BY <1>1, <2>2, <2>3, TurnsIn
  <2>5. \A k \in 0 .. n : g[k] = IF k = 0 THEN x ELSE TurnUp(g[k - 1])
    <3>1. \A k \in 0 .. n : k # 0 => k \in 1 .. n
      OBVIOUS
    <3> QED BY <2>2, <2>3, <2>4, <3>1, Zenon
  <2> QED BY <2>2, <2>5
<1> DEFINE h == CHOOSE g : Runs(g)
<1>6. Runs(h)
  BY <1>5, Zenon
<1>7. SiftUp(s, p) = h[n].es
  BY <1>0, Zenon DEF SiftUp, x
<1> HIDE DEF h
<1>8. \A k \in 0 .. n : h[k] = IF k = 0 THEN x ELSE TurnUp(h[k - 1])
  BY <1>6, Zenon
<1>9. h[n] \in W[n]
  <2>1. 0 \in 0 .. n /\ \A k \in 1 .. n : k \in 0 .. n /\ k # 0
    OBVIOUS
  <2>2. h[0] \in W[0] /\ \A k \in 1 .. n : h[k] = TurnUp(h[k - 1])
    BY <1>1, <1>8, <2>1, Zenon
  <2>3. \A k \in 1 .. n : h[k - 1] \in W[k - 1] => h[k] \in W[k]
    BY <1>4, <2>2, Zenon
  <2>4. \A k \in 0 .. n : h[k] \in W[k]
    BY <2>2, <2>3, TurnsIn
  <2> QED BY <2>4
<1>10. h[n] \in Moving(E, n) /\ (Heaped(h[n].es) \/ h[n].pos + n <= n - 1)
  BY <1>2, <1>9 DEF RisenBy
<1>11. h[n].es \in Arr(E, n) /\ h[n].pos \in 0 .. n - 1
  BY <1>10 DEF Moving
<1> QED BY <1>7, <1>10, <1>11

LEMMA SiftDownHeaps ==
  ASSUME NEW E, Linear(E), NEW n \in Nat, NEW s \in Arr(E, n), NEW p \in 0 .. n - 1, DownOk(s, p)
  PROVE  SiftDown(s, p) \in Arr(E, n) /\ Heaped(SiftDown(s, p))
<1> DEFINE x == [es |-> s, pos |-> p]
           W == [k \in 0 .. n |-> SunkBy(E, n, k)]
           f == [h \in Moving(E, n) |-> TurnDown(h)]
           Runs(g) == g = [k \in 0 .. n |-> IF k = 0 THEN x ELSE TurnDown(g[k - 1])]
<1>0. Len(s) = n
  BY ArrAt
<1>1. x \in W[0]
  BY DEF SunkBy, Moving
<1>2. \A k \in 0 .. n : W[k] = SunkBy(E, n, k) /\ SunkBy(E, n, k) \subseteq Moving(E, n)
  BY DEF SunkBy
<1>3. \A h \in Moving(E, n) : f[h] = TurnDown(h)
  OBVIOUS
<1>4. ASSUME NEW k \in 1 .. n, NEW h \in W[k - 1] PROVE TurnDown(h) \in W[k] /\ f[h] = TurnDown(h)
  <2>1. k - 1 \in 0 .. n /\ k - 1 \in Nat /\ k \in 0 .. n /\ (k - 1) + 1 = k
    OBVIOUS
  <2>2. h \in SunkBy(E, n, k - 1)
    BY <1>2, <1>4, <2>1
  <2>3. TurnDown(h) \in SunkBy(E, n, (k - 1) + 1)
    BY <2>1, <2>2, TurnDownSinks
  <2> QED BY <1>2, <1>3, <2>1, <2>2, <2>3
<1> HIDE DEF W, f, x
<1>5. \E g : Runs(g)
  <2>1. PICK g : Turns(g, f, x, n)
    BY TurnsExist
  <2>2. /\ g = [k \in 0 .. n |-> g[k]] /\ g[0] = x
        /\ \A k \in 1 .. n : k - 1 \in 0 .. n /\ k \in 0 .. n /\ g[k] = f[g[k - 1]]
    <3>1. StepByStep(g, f, x, n)
      BY <2>1, TurnsAre
    <3> QED BY <3>1, Zenon DEF StepByStep
  <2>3. \A k \in 1 .. n : g[k - 1] \in W[k - 1] => g[k] \in W[k] /\ g[k] = TurnDown(g[k - 1])
    <3> TAKE k \in 1 .. n
    <3> HAVE g[k - 1] \in W[k - 1]
    <3>1. TurnDown(g[k - 1]) \in W[k] /\ f[g[k - 1]] = TurnDown(g[k - 1])
      BY <1>4
    <3> QED BY <2>2, <3>1, Zenon
  <2>4. \A k \in 0 .. n : g[k] \in W[k]
    BY <1>1, <2>2, <2>3, TurnsIn
  <2>5. \A k \in 0 .. n : g[k] = IF k = 0 THEN x ELSE TurnDown(g[k - 1])
    <3>1. \A k \in 0 .. n : k # 0 => k \in 1 .. n
      OBVIOUS
    <3> QED BY <2>2, <2>3, <2>4, <3>1, Zenon
  <2> QED BY <2>2, <2>5
<1> DEFINE h == CHOOSE g : Runs(g)
<1>6. Runs(h)
  BY <1>5, Zenon
<1>7. SiftDown(s, p) = h[n].es
  BY <1>0, Zenon DEF SiftDown, x
<1> HIDE DEF h
<1>8. \A k \in 0 .. n : h[k] = IF k = 0 THEN x ELSE TurnDown(h[k - 1])
  BY <1>6, Zenon
<1>9. h[n] \in W[n]
  <2>1. 0 \in 0 .. n /\ \A k \in 1 .. n : k \in 0 .. n /\ k # 0
    OBVIOUS
  <2>2. h[0] \in W[0] /\ \A k \in 1 .. n : h[k] = TurnDown(h[k - 1])
    BY <1>1, <1>8, <2>1, Zenon
  <2>3. \A k \in 1 .. n : h[k - 1] \in W[k - 1] => h[k] \in W[k]
    BY <1>4, <2>2, Zenon
  <2>4. \A k \in 0 .. n : h[k] \in W[k]
    BY <2>2, <2>3, TurnsIn
  <2> QED BY <2>4
<1>10. h[n] \in Moving(E, n) /\ (Heaped(h[n].es) \/ h[n].pos >= n)
  BY <1>2, <1>9 DEF SunkBy
<1>11. h[n].es \in Arr(E, n) /\ h[n].pos \in 0 .. n - 1
  BY <1>10 DEF Moving
<1> QED BY <1>7, <1>10, <1>11

\* The last element takes the place of the one at p, and the array loses a position.
LEMMA CutArr ==
  ASSUME NEW E, NEW n \in Nat, NEW s \in Arr(E, n), NEW p \in 0 .. n - 1
  PROVE  LET t == SubSeq(Swap(s, n - 1, p), 1, n - 1)
         IN  /\ t \in Arr(E \ {At(s, p)}, n - 1)
             /\ p # n - 1 => At(t, p) = At(s, n - 1)
             /\ \A k \in 0 .. n - 2 : k # p => At(t, k) = At(s, k)
<1> DEFINE u == Swap(s, n - 1, p)
           t == SubSeq(u, 1, n - 1)
           F == E \ {At(s, p)}
<1>0. n - 1 \in Nat /\ n - 1 \in 0 .. n - 1 /\ \A k \in 0 .. n - 2 : k \in 0 .. n - 1 /\ k # n - 1
  OBVIOUS
<1>1. /\ u \in Arr(E, n) /\ At(u, n - 1) = At(s, p) /\ (p # n - 1 => At(u, p) = At(s, n - 1))
      /\ \A k \in 0 .. n - 1 : k # n - 1 /\ k # p => At(u, k) = At(s, k)
  <2>1. CASE p # n - 1
    BY <1>0, <2>1, SwapArr
  <2>2. CASE p = n - 1
    <3>1. s \in [1 .. n -> E] /\ n \in 1 .. n
      BY ArrAt
    <3>2. u = s
      BY <2>2, <3>1 DEF Swap
    <3> QED BY <2>2, <3>2
  <2> QED BY <2>1, <2>2
<1> HIDE DEF u
<1>2. /\ u \in Seq(E) /\ Len(u) = n /\ DOMAIN u = 1 .. n
      /\ \A k \in 0 .. n - 1 : k + 1 \in 1 .. n /\ At(u, k) = u[k + 1] /\ At(u, k) \in E
      /\ \A i, j \in 0 .. n - 1 : At(u, i) = At(u, j) => i = j
      /\ \A e \in E : \E i \in 0 .. n - 1 : At(u, i) = e
  <2>1. /\ u \in Seq(E) /\ Len(u) = n /\ DOMAIN u = 1 .. n
        /\ \A k \in 0 .. n - 1 : k + 1 \in 1 .. n /\ At(u, k) = u[k + 1] /\ At(u, k) \in E
    BY <1>1, ArrAt
  <2>2. /\ \A i, j \in 0 .. n - 1 : At(u, i) = At(u, j) => i = j
        /\ \A e \in E : \E i \in 0 .. n - 1 : At(u, i) = e
    BY <1>1 DEF Arr
  <2> QED BY <2>1, <2>2
<1>3. t = [k \in 1 .. n - 1 |-> u[k]]
  BY <1>0, <1>2
<1>4. \A k \in 0 .. n - 2 : At(t, k) = At(u, k)
  <2> TAKE k \in 0 .. n - 2
  <2>1. k + 1 \in 1 .. n - 1
    OBVIOUS
  <2> QED BY <1>3, <2>1 DEF At
<1>5. t \in Seq(F) /\ Len(t) = n - 1
  <2>1. ASSUME NEW k \in 1 .. n - 1 PROVE u[k] \in F
    <3>1. k - 1 \in 0 .. n - 1 /\ k - 1 # n - 1 /\ (k - 1) + 1 = k
      OBVIOUS
    <3>2. At(u, k - 1) = u[k] /\ u[k] \in E
      BY <1>2, <3>1
    <3>3. At(u, k - 1) # At(u, n - 1)
      BY <1>0, <1>2, <3>1
    <3> QED BY <1>1, <3>2, <3>3
  <2>2. t \in [1 .. n - 1 -> F]
    BY <1>3, <2>1
  <2> HIDE DEF t, F
  <2> QED BY <1>0, <2>2
<1> HIDE DEF t
<1>6. \A i, j \in 0 .. (n - 1) - 1 : At(t, i) = At(t, j) => i = j
  BY <1>0, <1>2, <1>4
<1>7. \A e \in F : \E i \in 0 .. (n - 1) - 1 : At(t, i) = e
  <2> TAKE e \in F
  <2>1. PICK i \in 0 .. n - 1 : At(u, i) = e
    BY <1>2
  <2>2. i # n - 1
    BY <1>1, <2>1
  <2>3. i \in 0 .. n - 2 /\ n - 2 = (n - 1) - 1
    BY <2>2
  <2> QED BY <1>4, <2>1, <2>3
<1>8. t \in Arr(F, n - 1)
  BY <1>5, <1>6, <1>7 DEF Arr
<1>9. p # n - 1 => At(t, p) = At(s, n - 1)
  <2>1. p # n - 1 => p \in 0 .. n - 2
    OBVIOUS
  <2> QED BY <1>1, <1>4, <2>1
<1>10. \A k \in 0 .. n - 2 : k # p => At(t, k) = At(s, k)
  BY <1>0, <1>1, <1>4
<1> QED BY <1>8, <1>9, <1>10 DEF t, u

LEMMA HardCullHeaps ==
  ASSUME NEW E, Linear(E), NEW n \in Nat, NEW s \in Arr(E, n), Heaped(s), NEW p \in 0 .. n - 1
  PROVE  hard_cull(s, p) \in Arr(E \ {At(s, p)}, n - 1) /\ Heaped(hard_cull(s, p))
<1> DEFINE F == E \ {At(s, p)}
           t == SubSeq(Swap(s, n - 1, p), 1, n - 1)
<1>0. n - 1 \in Nat /\ Len(s) = n /\ Linear(F) /\ \A i \in 0 .. n - 1 : At(s, i) \in E
  BY ArrAt, LinearPart
<1>1. /\ t \in Arr(F, n - 1)
      /\ p # n - 1 => At(t, p) = At(s, n - 1)
      /\ \A k \in 0 .. n - 2 : k # p => At(t, k) = At(s, k)
  BY CutArr
<1>2. hard_cull(s, p) = CASE p = n - 1 -> t
         [] p # n - 1 /\ (p = 0 \/ ~Less(At(t, p), At(t, heap_parent(p)))) -> SiftDown(t, p)
         [] OTHER -> SiftUp(t, p)
  BY <1>0, Zenon DEF hard_cull
<1> HIDE DEF t, F
<1>3. Len(t) = n - 1
  BY <1>0, <1>1, ArrAt
<1>4. ASSUME NEW i \in 1 .. (n - 1) - 1
      PROVE  /\ i \in 1 .. n - 1 /\ i \in 0 .. n - 2 /\ i \in 0 .. n - 1 /\ i # n - 1
             /\ heap_parent(i) \in 0 .. n - 2 /\ heap_parent(i) \in 0 .. n - 1 /\ heap_parent(i) < i /\ heap_parent(i) # i
             /\ ~Less(At(s, i), At(s, heap_parent(i)))
  <2>1. i \in 1 .. n - 1 /\ i \in 0 .. n - 2 /\ i # n - 1 /\ i \in 0 .. n - 1
    OBVIOUS
  <2>2. heap_parent(i) \in 0 .. n - 1 /\ heap_parent(i) < i /\ heap_parent(i) # i
    BY <2>1, ParentIn
  <2>3. heap_parent(i) \in 0 .. n - 2
    BY <2>1, <2>2
  <2> QED BY <1>0, <2>1, <2>2, <2>3 DEF Heaped, HeapAt
<1>5. ASSUME NEW i \in 1 .. (n - 1) - 1, i # p, heap_parent(i) # p PROVE HeapAt(t, i)
  <2>1. At(t, i) = At(s, i) /\ At(t, heap_parent(i)) = At(s, heap_parent(i))
    BY <1>1, <1>4, <1>5
  <2> QED BY <1>4, <2>1 DEF HeapAt
<1>6. CASE p = n - 1
  <2>1. hard_cull(s, p) = t
    BY <1>2, <1>6
  <2>2. \A i \in 1 .. (n - 1) - 1 : i # p /\ heap_parent(i) # p
    BY <1>4, <1>6
  <2>3. Heaped(t)
    BY <1>3, <1>5, <2>2 DEF Heaped
  <2> QED BY <1>1, <2>1, <2>3 DEF F
<1>7. ASSUME p # n - 1 PROVE Spans(t, p) /\ p \in 0 .. (n - 1) - 1
  <2>0. p \in 0 .. (n - 1) - 1
    BY <1>7
  <2> SUFFICES ASSUME p # 0, NEW i \in 1 .. (n - 1) - 1, heap_parent(i) = p
               PROVE  ~Less(At(t, i), At(t, heap_parent(p)))
    BY <1>3, <2>0 DEF Spans
  <2>1. p \in 1 .. (n - 1) - 1 /\ i # p
    BY <1>4, <2>0
  <2>2. ~Less(At(s, i), At(s, p)) /\ ~Less(At(s, p), At(s, heap_parent(p)))
    BY <1>4, <2>1
  <2>3. At(s, i) \in E /\ At(s, p) \in E /\ At(s, heap_parent(p)) \in E
    BY <1>0, <1>4, <2>1
  <2>4. ~Less(At(s, i), At(s, heap_parent(p)))
    BY <2>2, <2>3, NotLess
  <2>5. At(t, i) = At(s, i) /\ At(t, heap_parent(p)) = At(s, heap_parent(p))
    BY <1>1, <1>4, <2>1
  <2> QED BY <2>4, <2>5
<1>8. CASE p # n - 1 /\ (p = 0 \/ ~Less(At(t, p), At(t, heap_parent(p))))
  <2>1. hard_cull(s, p) = SiftDown(t, p)
    BY <1>2, <1>8
  <2>2. \A i \in 1 .. (n - 1) - 1 : heap_parent(i) # p => HeapAt(t, i)
    <3> SUFFICES ASSUME NEW i \in 1 .. (n - 1) - 1, heap_parent(i) # p PROVE HeapAt(t, i)
      OBVIOUS
    <3>1. CASE i = p
      BY <1>8, <3>1 DEF HeapAt
    <3> QED BY <1>5, <3>1
  <2>3. DownOk(t, p)
    BY <1>3, <1>7, <1>8, <2>2 DEF DownOk
  <2> QED BY <1>0, <1>1, <1>7, <1>8, <2>1, <2>3, SiftDownHeaps DEF F
<1>9. CASE p # n - 1 /\ ~(p = 0 \/ ~Less(At(t, p), At(t, heap_parent(p))))
  <2>1. hard_cull(s, p) = SiftUp(t, p)
    BY <1>2, <1>9
  <2>2. p \in 1 .. (n - 1) - 1
    BY <1>7, <1>9
  <2> DEFINE q == heap_parent(p)
  <2>3. At(t, q) = At(s, q) /\ At(t, p) = At(s, n - 1) /\ Less(At(s, n - 1), At(s, q))
    BY <1>1, <1>4, <1>9, <2>2
  <2>4. ASSUME NEW i \in 1 .. (n - 1) - 1, i # p PROVE HeapAt(t, i)
    <3>1. CASE heap_parent(i) = p
      <4>1. ~Less(At(t, i), At(t, q))
        BY <1>3, <1>7, <1>9, <3>1 DEF Spans
      <4>2. At(t, i) = At(s, i)
        BY <1>1, <1>4, <2>4
      <4>3. At(s, i) \in E /\ At(s, q) \in E /\ At(s, n - 1) \in E
        BY <1>0, <1>4, <2>2
      <4>4. ~Less(At(s, i), At(s, n - 1))
        BY <2>3, <4>1, <4>2, <4>3, NotLess
      <4> QED BY <2>3, <3>1, <4>2, <4>4 DEF HeapAt
    <3> QED BY <1>5, <2>4, <3>1
  <2>5. UpOk(t, p)
    BY <1>3, <1>7, <1>9, <2>4 DEF UpOk
  <2> QED BY <1>0, <1>1, <1>7, <1>9, <2>1, <2>5, SiftUpHeaps DEF F
<1> QED BY <1>6, <1>8, <1>9

\* The element at the top is the least.
LEMMA TopLeast ==
  ASSUME NEW E, Linear(E), NEW n \in Nat, NEW s \in Arr(E, n), Heaped(s), n # 0
  PROVE  At(s, 0) \in E /\ \A e \in E : e = At(s, 0) \/ Less(At(s, 0), e)
<1>0. Len(s) = n /\ 0 \in 0 .. n - 1 /\ \A i \in 0 .. n - 1 : At(s, i) \in E
  BY ArrAt
<1>1. \A i \in 0 .. n - 1 : ~Less(At(s, i), At(s, 0))
  <2> DEFINE T == {i \in 0 .. n - 1 : Less(At(s, i), At(s, 0))}
  <2> SUFFICES ASSUME T # {} PROVE FALSE
    OBVIOUS
  <2>1. T \in SUBSET Nat
    OBVIOUS
  <2>2. Min(T) \in T /\ \A y \in T : Min(T) <= y
    BY <2>1, LeastOf
  <2> DEFINE m == Min(T)
  <2>3. m \in 0 .. n - 1 /\ Less(At(s, m), At(s, 0))
    BY <2>2
  <2>4. m # 0
    BY <1>0, <2>3 DEF Linear
  <2> HIDE DEF m
  <2>5. m \in 1 .. n - 1
    BY <2>3, <2>4
  <2>6. heap_parent(m) \in 0 .. n - 1 /\ ~(m <= heap_parent(m))
    BY <2>5, ParentIn
  <2>7. ~Less(At(s, heap_parent(m)), At(s, 0))
    BY <2>2, <2>6 DEF m
  <2>8. ~Less(At(s, m), At(s, heap_parent(m)))
    BY <1>0, <2>5 DEF Heaped, HeapAt
  <2> QED BY <1>0, <2>3, <2>6, <2>7, <2>8, NotLess
<1>2. ASSUME NEW e \in E PROVE e = At(s, 0) \/ Less(At(s, 0), e)
  <2>1. PICK i \in 0 .. n - 1 : At(s, i) = e
    BY DEF Arr
  <2> QED BY <1>0, <1>1, <2>1 DEF Linear
<1> QED BY <1>0, <1>2

-----------------------------------------------------------------------------
(* The heap of timers: what emplace and cull may drop.                      *)

\* A heap with elements of E from which only some that nobody waits for are missing.
KeptHeap(E, u) ==
  \E F \in SUBSET E : u \in Arr(F, Len(u)) /\ Heaped(u) /\ \A e \in E \ F : IsEmpty(e)
KeptHeaps(E) == {u \in Seq(E) : KeptHeap(E, u)}

LEMMA TurnCullKeeps ==
  ASSUME NEW E, Linear(E), NEW H \in SUBSET KeptHeaps(E)
  PROVE  TurnCull(H) \in SUBSET KeptHeaps(E)
<1> SUFFICES ASSUME NEW u \in H, NEW p \in Dead(u) PROVE hard_cull(u, p) \in KeptHeaps(E)
  BY DEF TurnCull
<1>1. u \in Seq(E) /\ Len(u) \in Nat
  BY DEF KeptHeaps
<1>2. PICK F \in SUBSET E : u \in Arr(F, Len(u)) /\ Heaped(u) /\ \A e \in E \ F : IsEmpty(e)
  BY DEF KeptHeaps, KeptHeap
<1>3. p \in 0 .. Len(u) - 1 /\ IsEmpty(At(u, p))
  BY DEF Dead
<1> DEFINE G == F \ {At(u, p)}
           v == hard_cull(u, p)
<1>4. v \in Arr(G, Len(u) - 1) /\ Heaped(v)
  BY <1>1, <1>2, <1>3, HardCullHeaps, LinearPart
<1> HIDE DEF v
<1>5. Len(u) - 1 \in Nat /\ G \in SUBSET E
  BY <1>1, <1>3
<1>6. v \in Seq(E) /\ Len(v) = Len(u) - 1
  <2> HIDE DEF G
  <2>1. v \in Seq(G) /\ Len(v) = Len(u) - 1
    BY <1>4, Zenon DEF Arr
  <2> QED BY <1>5, <2>1
<1>7. \A e \in E \ G : IsEmpty(e)
  BY <1>2, <1>3
<1>8. v \in Arr(G, Len(v))
  BY <1>4, <1>6
<1> HIDE DEF G
<1>9. KeptHeap(E, v)
  BY <1>4, <1>5, <1>7, <1>8 DEF KeptHeap
<1> QED BY <1>6, <1>9 DEF KeptHeaps, v

LEMMA CulledKeeps ==
  ASSUME NEW E, Linear(E), NEW n \in Nat, NEW s \in Arr(E, n), Heaped(s)
  PROVE  Culled(s) \subseteq KeptHeaps(E)
<1> DEFINE x == {s}
           D == SUBSET KeptHeaps(E)
           W == [k \in 0 .. n |-> D]
           f == [h \in D |-> TurnCull(h)]
           Runs(g) == g = [k \in 0 .. n |-> IF k = 0 THEN x ELSE TurnCull(g[k - 1])]
<1>0. Len(s) = n /\ s \in Seq(E)
  BY ArrAt
<1>1. x \in W[0]
  <2>1. KeptHeap(E, s)
    BY <1>0 DEF KeptHeap
  <2>2. x \in D
    BY <1>0, <2>1 DEF KeptHeaps
  <2> QED BY <2>2
<1>2. \A k \in 0 .. n : W[k] = D
  OBVIOUS
<1>3. \A h \in D : f[h] = TurnCull(h)
  OBVIOUS
<1>4. ASSUME NEW k \in 1 .. n, NEW h \in W[k - 1] PROVE TurnCull(h) \in W[k] /\ f[h] = TurnCull(h)
  <2>1. k - 1 \in 0 .. n /\ k \in 0 .. n
    OBVIOUS
  <2>2. h \in D
    BY <1>2, <1>4, <2>1
  <2>3. TurnCull(h) \in D
    BY <2>2, TurnCullKeeps
  <2> QED BY <1>2, <1>3, <2>1, <2>2, <2>3
<1> HIDE DEF W, f, x, D
<1>5. \E g : Runs(g)
  <2>1. PICK g : Turns(g, f, x, n)
    BY TurnsExist
  <2>2. /\ g = [k \in 0 .. n |-> g[k]] /\ g[0] = x
        /\ \A k \in 1 .. n : k - 1 \in 0 .. n /\ k \in 0 .. n /\ g[k] = f[g[k - 1]]
    <3>1. StepByStep(g, f, x, n)
      BY <2>1, TurnsAre
    <3> QED BY <3>1, Zenon DEF StepByStep
  <2>3. \A k \in 1 .. n : g[k - 1] \in W[k - 1] => g[k] \in W[k] /\ g[k] = TurnCull(g[k - 1])
    <3> TAKE k \in 1 .. n
    <3> HAVE g[k - 1] \in W[k - 1]
    <3>1. TurnCull(g[k - 1]) \in W[k] /\ f[g[k - 1]] = TurnCull(g[k - 1])
      BY <1>4
    <3> QED BY <2>2, <3>1, Zenon
  <2>4. \A k \in 0 .. n : g[k] \in W[k]
    BY <1>1, <2>2, <2>3, TurnsIn
  <2>5. \A k \in 0 .. n : g[k] = IF k = 0 THEN x ELSE TurnCull(g[k - 1])
    <3>1. \A k \in 0 .. n : k # 0 => k \in 1 .. n
      OBVIOUS
    <3> QED BY <2>2, <2>3, <2>4, <3>1, Zenon
  <2> QED BY <2>2, <2>5
<1> DEFINE h == CHOOSE g : Runs(g)
<1>6. Runs(h)
  BY <1>5, Zenon
<1>7. Culled(s) = {u \in UNION {h[k] : k \in 0 .. n} : LooksOver(u)}
  <2> DEFINE After(m) == LET heaps[k \in 0 .. m] == IF k = 0 THEN {s} ELSE TurnCull(heaps[k - 1])
                         IN  {u \in UNION {heaps[k] : k \in 0 .. m} : LooksOver(u)}
  <2>1. Culled(s) = After(Len(s))
    BY Zenon DEF Culled
  <2>2. After(n) = {u \in UNION {h[k] : k \in 0 .. n} : LooksOver(u)}
    BY Zenon DEF x
  <2> HIDE DEF After, h
  <2> QED BY <1>0, <2>1, <2>2, Zenon
<1> HIDE DEF h
<1>8. \A k \in 0 .. n : h[k] = IF k = 0 THEN x ELSE TurnCull(h[k - 1])
  BY <1>6, Zenon
<1>9. \A k \in 0 .. n : h[k] \in W[k]
  <2>1. 0 \in 0 .. n /\ \A k \in 1 .. n : k \in 0 .. n /\ k # 0
    OBVIOUS
  <2>2. h[0] \in W[0] /\ \A k \in 1 .. n : h[k] = TurnCull(h[k - 1])
    BY <1>1, <1>8, <2>1, Zenon
  <2>3. \A k \in 1 .. n : h[k - 1] \in W[k - 1] => h[k] \in W[k]
    BY <1>4, <2>2, Zenon
  <2>4. \A k \in 0 .. n : h[k] \in W[k]
    BY <2>2, <2>3, TurnsIn
  <2> QED BY <2>4
<1>10. \A k \in 0 .. n : h[k] \in D
  BY <1>2, <1>9
<1>11. ASSUME NEW u \in Culled(s) PROVE u \in KeptHeaps(E)
  <2>1. PICK k \in 0 .. n : u \in h[k]
    BY <1>7
  <2> QED BY <1>10, <2>1 DEF D
<1> QED BY <1>11

\* A heap of the elements of E that are left after those less than all of them, which
\* nobody waits for.
ToppedHeap(E, u) ==
  \E F \in SUBSET E :
    /\ u \in Arr(F, Len(u)) /\ Heaped(u)
    /\ \A e \in E \ F : IsEmpty(e) /\ \A l \in F : Less(e, l)
TopWanted(u) == u = <<>> \/ ~IsEmpty(At(u, 0))
ToppedBy(E, n, k) == {u \in Seq(E) : ToppedHeap(E, u) /\ (TopWanted(u) \/ Len(u) + k <= n)}

LEMMA TurnTopDrops ==
  ASSUME NEW E, Linear(E), NEW n \in Nat, NEW k \in Nat, NEW u \in ToppedBy(E, n, k)
  PROVE  TurnTop(u) \in ToppedBy(E, n, k + 1)
<1>1. u \in Seq(E) /\ Len(u) \in Nat /\ ToppedHeap(E, u) /\ (TopWanted(u) \/ Len(u) + k <= n)
  BY DEF ToppedBy
<1>2. CASE TopWanted(u)
  <2>1. TurnTop(u) = u
    BY <1>2 DEF TurnTop, TopWanted
  <2> QED BY <1>1, <1>2, <2>1 DEF ToppedBy
<1>3. CASE ~TopWanted(u)
  <2> DEFINE v == hard_cull(u, 0)
  <2>1. TurnTop(u) = v /\ u # <<>> /\ IsEmpty(At(u, 0))
    BY <1>3 DEF TurnTop, TopWanted
  <2>2. Len(u) # 0 /\ Len(u) - 1 \in Nat /\ 0 \in 0 .. Len(u) - 1
    BY <1>1, <2>1
  <2>3. PICK F \in SUBSET E : /\ u \in Arr(F, Len(u)) /\ Heaped(u)
                              /\ \A e \in E \ F : IsEmpty(e) /\ \A l \in F : Less(e, l)
    BY <1>1 DEF ToppedHeap
  <2> DEFINE top == At(u, 0)
             G == F \ {top}
  <2>4. v \in Arr(G, Len(u) - 1) /\ Heaped(v)
    BY <1>1, <2>2, <2>3, HardCullHeaps, LinearPart
  <2>5. top \in F /\ \A e \in F : e = top \/ Less(top, e)
    BY <1>1, <2>2, <2>3, TopLeast, LinearPart
  <2> HIDE DEF v, top
  <2>6. v \in Seq(E) /\ Len(v) = Len(u) - 1
    <3>1. G \in SUBSET E
      OBVIOUS
    <3> HIDE DEF G
    <3>2. v \in Seq(G) /\ Len(v) = Len(u) - 1
      BY <2>4, Zenon DEF Arr
    <3> QED BY <3>1, <3>2
  <2>7. ASSUME NEW e \in E \ G PROVE IsEmpty(e) /\ \A l \in G : Less(e, l)
    <3>1. CASE e \in F
      <4>1. e = top
        BY <3>1
      <4> QED BY <2>1, <2>5, <4>1 DEF top
    <3>2. CASE e \notin F
      BY <2>3, <3>2
    <3> QED BY <3>1, <3>2
  <2>8. ToppedHeap(E, v)
    <3>1. v \in Arr(G, Len(v)) /\ G \in SUBSET E
      BY <2>4, <2>6
    <3> HIDE DEF G
    <3> QED BY <2>4, <2>7, <3>1 DEF ToppedHeap
  <2>9. Len(v) + (k + 1) <= n
    BY <1>1, <1>3, <2>6
  <2> QED BY <2>1, <2>6, <2>8, <2>9 DEF ToppedBy
<1> QED BY <1>2, <1>3

LEMMA CullTopDrops ==
  ASSUME NEW E, Linear(E), NEW n \in Nat, NEW s \in Arr(E, n), Heaped(s)
  PROVE  CullTop(s) \in Seq(E) /\ ToppedHeap(E, CullTop(s)) /\ TopWanted(CullTop(s))
<1> DEFINE x == s
           W == [k \in 0 .. n |-> ToppedBy(E, n, k)]
           f == [h \in Seq(E) |-> TurnTop(h)]
           Runs(g) == g = [k \in 0 .. n |-> IF k = 0 THEN x ELSE TurnTop(g[k - 1])]
<1>0. Len(s) = n /\ s \in Seq(E)
  BY ArrAt
<1>1. x \in W[0]
  <2>1. ToppedHeap(E, s)
    BY <1>0 DEF ToppedHeap
  <2> QED BY <1>0, <2>1 DEF ToppedBy
<1>2. \A k \in 0 .. n : W[k] = ToppedBy(E, n, k) /\ ToppedBy(E, n, k) \subseteq Seq(E)
  BY DEF ToppedBy
<1>3. \A h \in Seq(E) : f[h] = TurnTop(h)
  OBVIOUS
<1>4. ASSUME NEW k \in 1 .. n, NEW h \in W[k - 1] PROVE TurnTop(h) \in W[k] /\ f[h] = TurnTop(h)
  <2>1. k - 1 \in 0 .. n /\ k - 1 \in Nat /\ k \in 0 .. n /\ (k - 1) + 1 = k
    OBVIOUS
  <2>2. h \in ToppedBy(E, n, k - 1)
    BY <1>2, <1>4, <2>1
  <2>3. TurnTop(h) \in ToppedBy(E, n, (k - 1) + 1)
    BY <2>1, <2>2, TurnTopDrops
  <2> QED BY <1>2, <1>3, <2>1, <2>2, <2>3
<1> HIDE DEF W, f, x
<1>5. \E g : Runs(g)
  <2>1. PICK g : Turns(g, f, x, n)
    BY TurnsExist
  <2>2. /\ g = [k \in 0 .. n |-> g[k]] /\ g[0] = x
        /\ \A k \in 1 .. n : k - 1 \in 0 .. n /\ k \in 0 .. n /\ g[k] = f[g[k - 1]]
    <3>1. StepByStep(g, f, x, n)
      BY <2>1, TurnsAre
    <3> QED BY <3>1, Zenon DEF StepByStep
  <2>3. \A k \in 1 .. n : g[k - 1] \in W[k - 1] => g[k] \in W[k] /\ g[k] = TurnTop(g[k - 1])
    <3> TAKE k \in 1 .. n
    <3> HAVE g[k - 1] \in W[k - 1]
    <3>1. TurnTop(g[k - 1]) \in W[k] /\ f[g[k - 1]] = TurnTop(g[k - 1])
      BY <1>4
    <3> QED BY <2>2, <3>1, Zenon
  <2>4. \A k \in 0 .. n : g[k] \in W[k]
    BY <1>1, <2>2, <2>3, TurnsIn
  <2>5. \A k \in 0 .. n : g[k] = IF k = 0 THEN x ELSE TurnTop(g[k - 1])
    <3>1. \A k \in 0 .. n : k # 0 => k \in 1 .. n
      OBVIOUS
    <3> QED BY <2>2, <2>3, <2>4, <3>1, Zenon
  <2> QED BY <2>2, <2>5
<1> DEFINE h == CHOOSE g : Runs(g)
<1>6. Runs(h)
  BY <1>5, Zenon
<1>7. CullTop(s) = h[n]
  BY <1>0, Zenon DEF CullTop, x
<1> HIDE DEF h
<1>8. \A k \in 0 .. n : h[k] = IF k = 0 THEN x ELSE TurnTop(h[k - 1])
  BY <1>6, Zenon
<1>9. \A k \in 0 .. n : h[k] \in W[k]
  <2>1. 0 \in 0 .. n /\ \A k \in 1 .. n : k \in 0 .. n /\ k # 0
    OBVIOUS
  <2>2. h[0] \in W[0] /\ \A k \in 1 .. n : h[k] = TurnTop(h[k - 1])
    BY <1>1, <1>8, <2>1, Zenon
  <2>3. \A k \in 1 .. n : h[k - 1] \in W[k - 1] => h[k] \in W[k]
    BY <1>4, <2>2, Zenon
  <2>4. \A k \in 0 .. n : h[k] \in W[k]
    BY <2>2, <2>3, TurnsIn
  <2> QED BY <2>4
<1>10. h[n] \in ToppedBy(E, n, n)
  BY <1>2, <1>9
<1>11. h[n] \in Seq(E) /\ ToppedHeap(E, h[n]) /\ (TopWanted(h[n]) \/ Len(h[n]) + n <= n)
  BY <1>10 DEF ToppedBy
<1>12. Len(h[n]) + n <= n => h[n] = <<>>
  BY <1>11
<1> QED BY <1>7, <1>11, <1>12 DEF TopWanted

-----------------------------------------------------------------------------
(* The heap of timers: the circular insertion numbers.                      *)

LEMMA Wraps ==
  ASSUME NEW M \in Nat \ {0}, NEW v \in Int
  PROVE  /\ v \in 0 .. M - 1 => v % M = v
         /\ v + M \in 0 .. M - 1 => v % M = v + M
         /\ v = M => v % M = 0
OBVIOUS

\* The elements of E were set with the insertion numbers up to o, the last of which call
\* c took, and fewer than half the numbers were given since.
Stamped(E, c, o) ==
  /\ E \subseteq [when : Int, order : 0 .. Modulus - 1, n : Nat \ {0}]
  /\ \A e \in E : /\ e.n <= c /\ c - e.n < Modulus \div 2
                  /\ o - e.order = c - e.n \/ o - e.order = c - e.n - Modulus
  /\ \A e, f \in E : e.n = f.n => e = f

LEMMA StampedPart ==
  ASSUME NEW E, NEW c, NEW o, Stamped(E, c, o), NEW F \in SUBSET E
  PROVE  Stamped(F, c, o)
BY DEF Stamped

LEMMA Half ==
  /\ Modulus \in Nat \ {0} /\ Modulus \div 2 \in Nat /\ 0 < Modulus \div 2
  /\ 2 * (Modulus \div 2) <= Modulus
BY HeapAssumption

\* A circular comparison of two numbers given not long ago is that of the calls.
LEMMA OrderIsAge ==
  ASSUME NEW c \in Nat, NEW o \in 0 .. Modulus - 1, NEW E, Stamped(E, c, o), NEW e \in E, NEW f \in E
  PROVE  OrderLess(e.order, f.order) <=> e.n < f.n
<1> DEFINE H == Modulus \div 2
           a == e.order
           b == f.order
           p == c - e.n
           q == c - f.n
<1>1. Modulus \in Nat \ {0} /\ H \in Nat /\ 0 < H /\ 2 * H <= Modulus
  BY Half
<1>2. /\ a \in 0 .. Modulus - 1 /\ b \in 0 .. Modulus - 1 /\ e.n \in Nat /\ f.n \in Nat
      /\ p \in Int /\ q \in Int /\ 0 <= p /\ 0 <= q /\ p < H /\ q < H
      /\ (o - a = p \/ o - a = p - Modulus) /\ (o - b = q \/ o - b = q - Modulus)
  BY DEF Stamped
<1>3. e.n < f.n <=> q < p
  BY <1>2
<1>4. OrderLess(a, b) <=> a # b /\ (a - b) % Modulus >= H
  BY DEF OrderLess
<1> HIDE DEF H, p, q, a, b
<1>5. a - b \in Int
  BY <1>2
<1>6. CASE q < p
  <2>1. a - b = q - p \/ a - b = q - p + Modulus
    BY <1>1, <1>2, <1>6
  <2>2. q - p + Modulus \in 0 .. Modulus - 1 /\ q - p + Modulus >= H
    BY <1>1, <1>2, <1>6
  <2>3. (a - b) % Modulus = q - p + Modulus
    BY <1>1, <1>5, <2>1, <2>2, Wraps
  <2>4. a # b
    BY <1>1, <1>2, <1>6, <2>1
  <2> QED BY <1>3, <1>4, <1>6, <2>2, <2>3, <2>4 DEF a, b
<1>7. CASE ~(q < p)
  <2>1. a - b = q - p \/ a - b + Modulus = q - p
    BY <1>1, <1>2, <1>7
  <2>2. q - p \in 0 .. Modulus - 1 /\ ~(q - p >= H)
    BY <1>1, <1>2, <1>7
  <2>3. (a - b) % Modulus = q - p
    BY <1>1, <1>5, <2>1, <2>2, Wraps
  <2> QED BY <1>3, <1>4, <1>7, <2>2, <2>3 DEF a, b
<1> QED BY <1>6, <1>7

LEMMA LessIs ==
  ASSUME NEW c \in Nat, NEW o \in 0 .. Modulus - 1, NEW E, Stamped(E, c, o)
  PROVE  /\ \A e, f \in E : Less(e, f) <=> e.when < f.when \/ (e.when = f.when /\ e.n < f.n)
         /\ Linear(E)
<1>1. \A e, f \in E : OrderLess(e.order, f.order) <=> e.n < f.n
  BY OrderIsAge
<1>2. \A e, f \in E : Less(e, f) <=> e.when < f.when \/ (e.when = f.when /\ e.n < f.n)
  BY <1>1 DEF Less
<1>3. \A e \in E : e.when \in Int /\ e.n \in Nat
  BY DEF Stamped
<1>4. \A e, f \in E : e.n = f.n => e = f
  BY DEF Stamped
<1>5. \A e \in E : ~Less(e, e)
  BY <1>2, <1>3
<1>6. \A a, b, d \in E : Less(a, b) /\ Less(b, d) => Less(a, d)
  <2> TAKE a, b, d \in E
  <2>1. /\ a.when \in Int /\ b.when \in Int /\ d.when \in Int
        /\ a.n \in Nat /\ b.n \in Nat /\ d.n \in Nat
    BY <1>3
  <2> QED BY <1>2, <2>1
<1>7. \A a, b \in E : a = b \/ Less(a, b) \/ Less(b, a)
  <2> TAKE a, b \in E
  <2>1. a.when \in Int /\ b.when \in Int /\ a.n \in Nat /\ b.n \in Nat
    BY <1>3
  <2> QED BY <1>2, <1>4, <2>1
<1> QED BY <1>2, <1>5, <1>6, <1>7 DEF Linear

\* The next call takes the next number.
LEMMA StampedNext ==
  ASSUME NEW c \in Nat, NEW o \in 0 .. Modulus - 1, NEW E, Stamped(E, c, o),
         \A e \in E : c - e.n + 1 < Modulus \div 2, NEW when \in Int
  PROVE  LET new == [when |-> when, order |-> (o + 1) % Modulus, n |-> c + 1]
         IN  /\ (o + 1) % Modulus \in 0 .. Modulus - 1 /\ new \notin E
             /\ Stamped(E \union {new}, c + 1, (o + 1) % Modulus)
<1> DEFINE r == (o + 1) % Modulus
           new == [when |-> when, order |-> r, n |-> c + 1]
<1>1. Modulus \in Nat \ {0} /\ Modulus \div 2 \in Nat /\ 0 < Modulus \div 2 /\ 2 * (Modulus \div 2) <= Modulus
  BY Half
<1>2. r \in 0 .. Modulus - 1 /\ (r = o + 1 \/ r = o + 1 - Modulus)
  <2>1. CASE o + 1 \in 0 .. Modulus - 1
    BY <1>1, <2>1, Wraps
  <2>2. CASE o + 1 = Modulus
    <3>1. r = 0
      BY <1>1, <2>2, Wraps
    <3> HIDE DEF r
    <3> QED BY <1>1, <2>2, <3>1
  <2> QED BY <1>1, <2>1, <2>2
<1> HIDE DEF r
<1>3. \A e \in E : /\ e \in [when : Int, order : 0 .. Modulus - 1, n : Nat \ {0}] /\ e.n <= c /\ c - e.n < Modulus \div 2
                   /\ (o - e.order = c - e.n \/ o - e.order = c - e.n - Modulus)
  BY DEF Stamped
<1>4. new \in [when : Int, order : 0 .. Modulus - 1, n : Nat \ {0}] /\ new.n = c + 1 /\ new.order = r
  BY <1>2
<1> HIDE DEF new
<1>5. \A e \in E : e.n # new.n
  BY <1>3, <1>4
<1>6. ASSUME NEW e \in E
      PROVE  /\ e.n <= c + 1 /\ (c + 1) - e.n < Modulus \div 2
             /\ r - e.order = (c + 1) - e.n \/ r - e.order = (c + 1) - e.n - Modulus
  <2> DEFINE b == e.order
             m == e.n
             H == Modulus \div 2
  <2>1. /\ b \in 0 .. Modulus - 1 /\ m \in Nat /\ m <= c /\ c - m + 1 < H
        /\ (o - b = c - m \/ o - b = c - m - Modulus)
    BY <1>3
  <2>2. H \in Nat /\ 2 * H <= Modulus
    BY <1>1
  <2> HIDE DEF b, m, H
  <2>3. m <= c + 1 /\ (c + 1) - m < H /\ (r - b = (c + 1) - m \/ r - b = (c + 1) - m - Modulus)
    BY <1>1, <1>2, <2>1, <2>2
  <2> QED BY <2>3 DEF b, m, H
<1>7. /\ new.n <= c + 1 /\ (c + 1) - new.n < Modulus \div 2
      /\ r - new.order = (c + 1) - new.n
  BY <1>1, <1>2, <1>4
<1>8. Stamped(E \union {new}, c + 1, r)
  <2>1. PICK U, d : U = E \union {new} /\ d = c + 1
    OBVIOUS
  <2>2. U \subseteq [when : Int, order : 0 .. Modulus - 1, n : Nat \ {0}]
    BY <1>3, <1>4, <2>1
  <2>3. \A e, f \in U : e.n = f.n => e = f
    <3>1. \A e, f \in E : e.n = f.n => e = f
      BY DEF Stamped
    <3> QED BY <1>5, <2>1, <3>1
  <2>4. \A e \in U : /\ e.n <= d /\ d - e.n < Modulus \div 2
                     /\ r - e.order = d - e.n \/ r - e.order = d - e.n - Modulus
    BY <1>6, <1>7, <2>1
  <2>5. Stamped(U, d, r)
    BY ONLY <2>2, <2>3, <2>4, Zenon DEF Stamped
  <2> QED BY <2>1, <2>5, Zenon
<1>9. new \notin E
  BY <1>5
<1> QED BY <1>2, <1>8, <1>9 DEF new, r

-----------------------------------------------------------------------------
(* The heap of timers implements the queue.                                 *)

Elements(s) == {s[i] : i \in DOMAIN s}

\* The timers of the queue that the elements of E stand for.
Images(E) == {[n |-> e.n, when |-> e.when] : e \in E}

LEMMA ArrElements ==
  ASSUME NEW E, NEW n \in Nat, NEW s \in Arr(E, n)
  PROVE  /\ Elements(s) = E /\ Len(s) = n /\ s \in Arr(Elements(s), Len(s))
         /\ {[n |-> s[i].n, when |-> s[i].when] : i \in DOMAIN s} = Images(E)
<1>1. /\ s \in Seq(E) /\ Len(s) = n /\ DOMAIN s = 1 .. n
      /\ \A i \in 0 .. n - 1 : i + 1 \in 1 .. n /\ At(s, i) = s[i + 1] /\ At(s, i) \in E
  BY ArrAt
<1>2. \A i \in DOMAIN s : s[i] \in E
  BY <1>1
<1>3. \A e \in E : \E i \in DOMAIN s : s[i] = e
  <2> TAKE e \in E
  <2>1. PICK i \in 0 .. n - 1 : At(s, i) = e
    BY DEF Arr
  <2> QED BY <1>1, <2>1
<1>4. Elements(s) = E
  BY <1>2, <1>3 DEF Elements
<1>5. {[n |-> s[i].n, when |-> s[i].when] : i \in DOMAIN s} = Images(E)
  BY <1>2, <1>3 DEF Images
<1> QED BY <1>1, <1>4, <1>5

LEMMA AppendArr ==
  ASSUME NEW F, NEW n \in Nat, NEW s \in Arr(F, n), Heaped(s), NEW new, new \notin F
  PROVE  /\ Append(s, new) \in Arr(F \union {new}, n + 1)
         /\ UpOk(Append(s, new), n) /\ n \in 0 .. (n + 1) - 1
<1> DEFINE t == Append(s, new)
           U == F \union {new}
<1>1. /\ s \in Seq(F) /\ Len(s) = n /\ DOMAIN s = 1 .. n
      /\ \A i \in 0 .. n - 1 : i + 1 \in 1 .. n /\ At(s, i) = s[i + 1] /\ At(s, i) \in F
  BY ArrAt
<1>2. /\ \A i, j \in 0 .. n - 1 : At(s, i) = At(s, j) => i = j
      /\ \A e \in F : \E i \in 0 .. n - 1 : At(s, i) = e
  BY DEF Arr
<1>3. s \in Seq(U)
  BY <1>1
<1>4. /\ t \in Seq(U) /\ Len(t) = n + 1 /\ t[n + 1] = new
      /\ \A i \in 1 .. n : t[i] = s[i]
  <2> HIDE DEF U
  <2>1. new \in U
    BY DEF U
  <2> QED BY <1>1, <1>3, <2>1
<1> HIDE DEF t
<1>5. At(t, n) = new /\ \A i \in 0 .. n - 1 : At(t, i) = At(s, i)
  BY <1>1, <1>4 DEF At
<1>6. \A i \in 0 .. n : i = n \/ i \in 0 .. n - 1
  OBVIOUS
<1>7. \A i, j \in 0 .. n : At(t, i) = At(t, j) => i = j
  BY <1>1, <1>2, <1>5, <1>6
<1>8. \A e \in U : \E i \in 0 .. n : At(t, i) = e
  <2>1. n \in 0 .. n /\ \A i \in 0 .. n - 1 : i \in 0 .. n
    OBVIOUS
  <2> QED BY <1>2, <1>5, <2>1
<1>9. (n + 1) - 1 = n /\ n + 1 \in Nat
  OBVIOUS
<1>10. t \in Arr(U, n + 1)
  <2> HIDE DEF U
  <2> QED BY <1>4, <1>7, <1>8, <1>9 DEF Arr
<1>11. ASSUME NEW i \in 1 .. n PROVE heap_parent(i) \in 0 .. n - 1 /\ heap_parent(i) # n
  <2>1. i \in Nat \ {0}
    OBVIOUS
  <2>2. heap_parent(i) \in 0 .. i - 1
    BY <2>1, Tree
  <2> QED BY <2>2
<1>12. ASSUME NEW i \in 1 .. n, i # n PROVE HeapAt(t, i)
  <2>1. i \in 1 .. n - 1 /\ i \in 0 .. n - 1
    BY <1>12
  <2>2. ~Less(At(s, i), At(s, heap_parent(i)))
    BY <1>1, <2>1 DEF Heaped, HeapAt
  <2> QED BY <1>5, <1>11, <2>1, <2>2 DEF HeapAt
<1>13. UpOk(t, n)
  BY <1>4, <1>9, <1>11, <1>12 DEF UpOk, Spans
<1> QED BY <1>9, <1>10, <1>13 DEF t

\* A heap in the order of the queue, its insertion numbers the last ones given.
HeapInv ==
  /\ calls \in 0 .. MaxSet /\ order_ \in 0 .. Modulus - 1
  /\ es_ \in Arr(Elements(es_), Len(es_)) /\ Heaped(es_)
  /\ Stamped(Elements(es_), calls, order_)

\* No timer of the heap has seen half of the insertion numbers go by.
Recent == \A i \in DOMAIN es_ : calls - es_[i].n + 1 < Modulus \div 2

LEMMA HeapNow ==
  ASSUME HeapInv
  PROVE  LET E == Elements(es_)
         IN  /\ calls \in Nat /\ order_ \in 0 .. Modulus - 1 /\ Len(es_) \in Nat
             /\ es_ \in Arr(E, Len(es_)) /\ Heaped(es_)
             /\ Stamped(E, calls, order_) /\ Linear(E)
             /\ \A e, f \in E : Less(e, f) <=> e.when < f.when \/ (e.when = f.when /\ e.n < f.n)
             /\ {[n |-> es_[i].n, when |-> es_[i].when] : i \in DOMAIN es_} = Images(E)
<1> DEFINE E == Elements(es_)
<1>1. calls \in Nat /\ order_ \in 0 .. Modulus - 1
  BY HeapAssumption DEF HeapInv
<1>2. es_ \in Arr(E, Len(es_)) /\ Heaped(es_) /\ Stamped(E, calls, order_)
  BY DEF HeapInv
<1> HIDE DEF E
<1>3. es_ \in Seq(E)
  BY <1>2, Zenon DEF Arr
<1>4. Len(es_) \in Nat
  BY <1>3
<1>5. Linear(E) /\ \A e, f \in E : Less(e, f) <=> e.when < f.when \/ (e.when = f.when /\ e.n < f.n)
  BY <1>1, <1>2, LessIs
<1>6. {[n |-> es_[i].n, when |-> es_[i].when] : i \in DOMAIN es_} = Images(E)
  BY <1>2, <1>4, ArrElements
<1> QED BY <1>1, <1>2, <1>4, <1>5, <1>6 DEF E

LEMMA ImagesMinus ==
  ASSUME NEW E, \A e, f \in E : e.n = f.n => e = f, NEW D \in SUBSET E
  PROVE  Images(E \ D) = Images(E) \ Images(D)
<1>1. \A e, f \in E : [n |-> e.n, when |-> e.when] = [n |-> f.n, when |-> f.when] => e = f
  <2> TAKE e, f \in E
  <2> HAVE [n |-> e.n, when |-> e.when] = [n |-> f.n, when |-> f.when]
  <2>1. e.n = f.n
    OBVIOUS
  <2> QED BY <2>1
<1> DEFINE Q(e) == [n |-> e.n, when |-> e.when]
<1>2. \A e, f \in E : Q(e) = Q(f) => e = f
  BY <1>1
<1>3. /\ \A t : t \in Images(E \ D) <=> \E e \in E \ D : t = Q(e)
      /\ \A t : t \in Images(E) <=> \E e \in E : t = Q(e)
      /\ \A t : t \in Images(D) <=> \E e \in D : t = Q(e)
  BY DEF Images
<1> HIDE DEF Q
<1>4. ASSUME NEW t \in Images(E \ D) PROVE t \in Images(E) \ Images(D)
  <2>1. PICK e \in E \ D : t = Q(e)
    BY <1>3
  <2>2. \A f \in D : t # Q(f)
    BY <1>2, <2>1
  <2> QED BY <1>3, <2>1, <2>2
<1>5. ASSUME NEW t \in Images(E) \ Images(D) PROVE t \in Images(E \ D)
  BY <1>3, <1>5
<1> QED BY <1>4, <1>5

LEMMA EmplaceStep ==
  ASSUME HeapInv, Recent, NEW when \in Time, emplace(when)
  PROVE  HeapInv' /\ Queue!Set(when)
<1> DEFINE E == Elements(es_)
           Q(e) == [n |-> e.n, when |-> e.when]
<1>1. /\ calls \in Nat /\ order_ \in 0 .. Modulus - 1 /\ Len(es_) \in Nat
      /\ es_ \in Arr(E, Len(es_)) /\ Heaped(es_) /\ Stamped(E, calls, order_) /\ Linear(E)
      /\ {[n |-> es_[i].n, when |-> es_[i].when] : i \in DOMAIN es_} = Images(E)
  BY HeapNow
<1>2. /\ calls < MaxSet /\ calls' = calls + 1 /\ order_' = (order_ + 1) % Modulus /\ empty' = empty
  BY DEF emplace
<1>3. PICK s \in Culled(es_) :
        es_' = SiftUp(Append(s, [when |-> when, order |-> order_', n |-> calls']), Len(s))
  BY DEF emplace
<1>4. when \in Int
  BY HeapAssumption
<1>5. \A e \in E : calls - e.n + 1 < Modulus \div 2
  BY DEF Recent, Elements
<1> HIDE DEF E
<1>6. s \in KeptHeaps(E)
  BY <1>1, <1>3, CulledKeeps
<1>7. PICK F \in SUBSET E : s \in Arr(F, Len(s)) /\ Heaped(s) /\ \A e \in E \ F : IsEmpty(e)
  BY <1>6 DEF KeptHeaps, KeptHeap
<1>8. Len(s) \in Nat
  <2>1. s \in Seq(E)
    BY <1>6 DEF KeptHeaps
  <2> QED BY <2>1
<1>9. PICK new, c, o : /\ c = calls + 1 /\ o = (order_ + 1) % Modulus
                       /\ new = [when |-> when, order |-> o, n |-> c]
  OBVIOUS
<1>10. o \in 0 .. Modulus - 1 /\ new \notin F /\ Stamped(F \union {new}, c, o)
  <2>1. Stamped(F, calls, order_) /\ \A e \in F : calls - e.n + 1 < Modulus \div 2
    BY <1>1, <1>5, StampedPart
  <2> QED BY <1>1, <1>4, <1>9, <2>1, StampedNext
<1>11. c \in 0 .. MaxSet /\ c \in Nat
  BY <1>1, <1>2, <1>9, HeapAssumption
<1>12. PICK U, m : U = F \union {new} /\ m = Len(s) + 1
  OBVIOUS
<1>13. Linear(U) /\ Stamped(U, c, o)
  BY <1>10, <1>11, <1>12, LessIs
<1>14. es_' = SiftUp(Append(s, new), Len(s))
  BY <1>2, <1>3, <1>9, Zenon
<1>15. Append(s, new) \in Arr(U, m) /\ UpOk(Append(s, new), Len(s)) /\ Len(s) \in 0 .. m - 1 /\ m \in Nat
  BY <1>7, <1>8, <1>10, <1>12, AppendArr
<1>16. es_' \in Arr(U, m) /\ Heaped(es_')
  BY <1>13, <1>14, <1>15, SiftUpHeaps
<1>17. /\ Elements(es_') = U /\ es_' \in Arr(Elements(es_'), Len(es_'))
       /\ {[n |-> es_'[i].n, when |-> es_'[i].when] : i \in DOMAIN es_'} = Images(U)
  BY <1>15, <1>16, ArrElements
<1>18. HeapInv'
  BY <1>2, <1>9, <1>10, <1>11, <1>13, <1>16, <1>17, Zenon DEF HeapInv
<1>19. \A e, f \in E : e.n = f.n => e = f
  BY <1>1 DEF Stamped
<1>20. PICK D : D = E \ F
  OBVIOUS
<1>21. F = E \ D /\ D \in SUBSET E /\ \A e \in D : e.n \in empty
  BY <1>7, <1>20 DEF IsEmpty
<1>22. Images(F) = Images(E) \ Images(D)
  BY <1>19, <1>21, ImagesMinus
<1>23. Images(U) = Images(F) \union {[n |-> calls + 1, when |-> when]}
  BY <1>9, <1>12 DEF Images
<1>24. Images(D) \in SUBSET {t \in Images(E) : t.n \in empty}
  BY <1>21 DEF Images
<1>25. Queue!Set(when)
  BY <1>1, <1>2, <1>17, <1>22, <1>23, <1>24 DEF Queue!Set
<1> QED BY <1>18, <1>25

\* What is left of the heap keeps the invariant.
LEMMA PartStep ==
  ASSUME HeapInv, NEW F \in SUBSET Elements(es_), NEW m \in Nat, es_' \in Arr(F, m), Heaped(es_'),
         UNCHANGED <<order_, empty, calls>>
  PROVE  /\ HeapInv'
         /\ {[n |-> es_'[i].n, when |-> es_'[i].when] : i \in DOMAIN es_'} = Images(F)
<1>1. /\ Elements(es_') = F /\ es_' \in Arr(Elements(es_'), Len(es_'))
      /\ {[n |-> es_'[i].n, when |-> es_'[i].when] : i \in DOMAIN es_'} = Images(F)
  BY ArrElements
<1>2. Stamped(F, calls, order_)
  BY HeapNow, StampedPart
<1>3. HeapInv'
  BY <1>1, <1>2, Zenon DEF HeapInv
<1> QED BY <1>1, <1>3

LEMMA PopStep ==
  ASSUME HeapInv, pop
  PROVE  HeapInv' /\ Queue!TakeTop
<1> DEFINE E == Elements(es_)
           top == At(es_, 0)
           t == [n |-> top.n, when |-> top.when]
<1>1. /\ Len(es_) \in Nat /\ es_ \in Arr(E, Len(es_)) /\ Heaped(es_) /\ Linear(E)
      /\ Stamped(E, calls, order_)
      /\ \A e, f \in E : Less(e, f) <=> e.when < f.when \/ (e.when = f.when /\ e.n < f.n)
      /\ {[n |-> es_[i].n, when |-> es_[i].when] : i \in DOMAIN es_} = Images(E)
  BY HeapNow
<1>2. es_ # <<>> /\ es_' = hard_cull(es_, 0) /\ UNCHANGED <<order_, empty, calls>>
  BY DEF pop
<1>3. Len(es_) # 0 /\ Len(es_) - 1 \in Nat /\ 0 \in 0 .. Len(es_) - 1
  <2>1. es_ \in Seq(E)
    BY <1>1, ArrAt
  <2>2. Len(es_) # 0
    BY <1>2, <2>1
  <2> QED BY <1>1, <2>2
<1>4. es_' \in Arr(E \ {top}, Len(es_) - 1) /\ Heaped(es_')
  BY <1>1, <1>2, <1>3, HardCullHeaps
<1>5. top \in E /\ \A e \in E : e = top \/ Less(top, e)
  BY <1>1, <1>3, TopLeast
<1>6. PICK F : F = E \ {top}
  OBVIOUS
<1>7. F \in SUBSET E /\ es_' \in Arr(F, Len(es_) - 1)
  BY <1>4, <1>6
<1> HIDE DEF top
<1>8. HeapInv' /\ {[n |-> es_'[i].n, when |-> es_'[i].when] : i \in DOMAIN es_'} = Images(F)
  BY <1>2, <1>3, <1>4, <1>7, PartStep
<1> HIDE DEF E
<1>9. \A e, f \in E : e.n = f.n => e = f
  BY <1>1 DEF Stamped
<1>10. Images({top}) = {t}
  BY DEF Images
<1>11. Images(F) = Images(E) \ {t}
  <2>1. {top} \in SUBSET E
    BY <1>5
  <2> HIDE DEF t
  <2> QED BY <1>6, <1>9, <1>10, <2>1, ImagesMinus
<1>12. t \in Images(E)
  BY <1>5 DEF Images
<1>13. ASSUME NEW u \in Images(E) \ {t} PROVE t.when < u.when \/ (t.when = u.when /\ t.n < u.n)
  <2>1. PICK e \in E : u = [n |-> e.n, when |-> e.when]
    BY DEF Images
  <2>2. e # top
    BY <1>13, <2>1
  <2> QED BY <1>1, <1>5, <2>1, <2>2
<1> HIDE DEF t
<1>14. Queue!IsTop(t)
  BY <1>1, <1>12, <1>13 DEF Queue!IsTop, Queue!Before
<1>15. Queue!TakeTop
  BY <1>1, <1>2, <1>8, <1>11, <1>12, <1>14 DEF Queue!TakeTop
<1> QED BY <1>8, <1>15

LEMMA CullStep ==
  ASSUME HeapInv, cull
  PROVE  HeapInv' /\ Queue!DropLeading
<1> DEFINE E == Elements(es_)
<1>1. /\ Len(es_) \in Nat /\ es_ \in Arr(E, Len(es_)) /\ Heaped(es_) /\ Linear(E)
      /\ calls \in Nat /\ order_ \in 0 .. Modulus - 1
      /\ Stamped(E, calls, order_)
      /\ \A e, f \in E : Less(e, f) <=> e.when < f.when \/ (e.when = f.when /\ e.n < f.n)
      /\ {[n |-> es_[i].n, when |-> es_[i].when] : i \in DOMAIN es_} = Images(E)
  BY HeapNow
<1>2. es_' = CullTop(es_) /\ UNCHANGED <<order_, empty, calls>>
  BY DEF cull
<1>3. es_' \in Seq(E) /\ ToppedHeap(E, es_') /\ TopWanted(es_')
  BY <1>1, <1>2, CullTopDrops
<1>4. PICK F \in SUBSET E :
        /\ es_' \in Arr(F, Len(es_')) /\ Heaped(es_')
        /\ \A e \in E \ F : IsEmpty(e) /\ \A l \in F : Less(e, l)
  BY <1>3 DEF ToppedHeap
<1>5. Len(es_') \in Nat
  BY <1>3
<1>6. HeapInv' /\ {[n |-> es_'[i].n, when |-> es_'[i].when] : i \in DOMAIN es_'} = Images(F)
  BY <1>2, <1>4, <1>5, PartStep
<1> HIDE DEF E
<1>7. F # {} => At(es_', 0) \in F /\ ~IsEmpty(At(es_', 0)) /\ \A e \in F : e = At(es_', 0) \/ Less(At(es_', 0), e)
  <2> SUFFICES ASSUME F # {} PROVE At(es_', 0) \in F /\ ~IsEmpty(At(es_', 0))
                                   /\ \A e \in F : e = At(es_', 0) \/ Less(At(es_', 0), e)
    OBVIOUS
  <2>1. Len(es_') # 0
    BY <1>4, <1>5 DEF Arr
  <2>2. es_' # <<>>
    BY <2>1
  <2>3. Linear(F)
    BY <1>1, LinearPart
  <2> QED BY <1>3, <1>4, <1>5, <2>1, <2>2, <2>3, TopLeast DEF TopWanted
<1>8. \A e \in E : e.when \in Int /\ e.n \in Nat
  BY <1>1 DEF Stamped
<1> DEFINE Q(e) == [n |-> e.n, when |-> e.when]
           Later(e) == \E g \in E : g.n \notin empty /\ ~(e.when < g.when \/ (e.when = g.when /\ e.n < g.n))
<1>9. ASSUME NEW e \in E PROVE e \in F <=> Later(e)
  <2>1. ASSUME e \in F PROVE Later(e)
    <3> DEFINE g == At(es_', 0)
    <3>1. g \in F /\ ~IsEmpty(g) /\ (e = g \/ Less(g, e))
      BY <1>7, <2>1
    <3> HIDE DEF g
    <3>2. g \in E /\ g.n \notin empty
      BY <3>1 DEF IsEmpty
    <3>3. ~Less(e, g)
      BY <1>1, <1>9, <3>1, <3>2 DEF Linear
    <3> QED BY <1>1, <3>2, <3>3
  <2>2. ASSUME e \notin F, Later(e) PROVE FALSE
    <3>1. PICK g \in E : g.n \notin empty /\ ~Less(e, g)
      BY <1>1, <2>2
    <3>2. g \in F
      BY <1>4, <3>1 DEF IsEmpty
    <3> QED BY <1>4, <2>2, <3>1, <3>2
  <2> QED BY <2>1, <2>2
<1>10. Images(F) = {t \in Images(E) : \E u \in Images(E) :
                      u.n \notin empty /\ ~(t.when < u.when \/ (t.when = u.when /\ t.n < u.n))}
  <2> DEFINE After(t) == \E u \in Images(E) :
                      u.n \notin empty /\ ~(t.when < u.when \/ (t.when = u.when /\ t.n < u.n))
  <2>1. \A e \in E : Q(e) \in Images(E)
    BY DEF Images
  <2>2. \A t : t \in Images(E) <=> \E e \in E : t = Q(e)
    BY DEF Images
  <2>3. ASSUME NEW e \in E PROVE After(Q(e)) <=> Later(e)
    <3>1. \A g \in E : /\ Q(g).n = g.n /\ Q(g).when = g.when
                       /\ Q(g) \in Images(E)
      BY <2>1
    <3>2. ASSUME After(Q(e)) PROVE Later(e)
      <4>1. PICK u \in Images(E) : u.n \notin empty /\ ~(Q(e).when < u.when \/ (Q(e).when = u.when /\ Q(e).n < u.n))
        BY <3>2
      <4>2. PICK g \in E : u = Q(g)
        BY <2>2
      <4> HIDE DEF Q
      <4>3. g.n \notin empty /\ ~(e.when < g.when \/ (e.when = g.when /\ e.n < g.n))
        BY <3>1, <4>1, <4>2
      <4> QED BY <4>3
    <3>3. ASSUME Later(e) PROVE After(Q(e))
      <4>1. PICK g \in E : g.n \notin empty /\ ~(e.when < g.when \/ (e.when = g.when /\ e.n < g.n))
        BY <3>3
      <4> HIDE DEF Q
      <4> QED BY <3>1, <4>1
    <3> QED BY <3>2, <3>3
  <2>4. \A t : t \in Images(F) <=> \E e \in F : t = Q(e)
    BY DEF Images
  <2> HIDE DEF Q, Later, After
  <2>5. ASSUME NEW t \in Images(F) PROVE t \in Images(E) /\ After(t)
    BY <1>9, <2>1, <2>3, <2>4
  <2>6. ASSUME NEW t \in Images(E), After(t) PROVE t \in Images(F)
    BY <1>9, <2>2, <2>3, <2>4, <2>6
  <2> QED BY <2>5, <2>6 DEF After
<1>11. Queue!DropLeading
  BY <1>1, <1>2, <1>6, <1>10 DEF Queue!DropLeading, Queue!Before
<1> QED BY <1>6, <1>11

LEMMA ClearStep ==
  ASSUME HeapInv, clear
  PROVE  HeapInv' /\ Queue!Clear
<1>1. es_' = <<>> /\ UNCHANGED <<order_, empty, calls>>
  BY DEF clear
<1>2. <<>> \in Arr({}, 0) /\ Heaped(<<>>)
  BY DEF Arr, Heaped
<1>3. HeapInv' /\ {[n |-> es_'[i].n, when |-> es_'[i].when] : i \in DOMAIN es_'} = Images({})
  BY <1>1, <1>2, PartStep
<1>4. Images({}) = {}
  BY DEF Images
<1>5. Queue!Clear
  BY <1>1, <1>3, <1>4 DEF Queue!Clear
<1> QED BY <1>3, <1>5

LEMMA GoneStep ==
  ASSUME HeapInv, NEW i \in DOMAIN es_, LastWaiterGone(i)
  PROVE  /\ HeapInv'
         /\ \E t \in {[n |-> es_[j].n, when |-> es_[j].when] : j \in DOMAIN es_} : Queue!Abandon(t)
<1>1. es_[i].n \notin empty /\ empty' = empty \union {es_[i].n} /\ UNCHANGED <<es_, order_, calls>>
  BY DEF LastWaiterGone, IsEmpty
<1>2. HeapInv'
  BY <1>1, Zenon DEF HeapInv
<1> DEFINE t == [n |-> es_[i].n, when |-> es_[i].when]
<1>3. t \in {[n |-> es_[j].n, when |-> es_[j].when] : j \in DOMAIN es_} /\ t.n = es_[i].n
  OBVIOUS
<1> HIDE DEF t
<1>4. Queue!Abandon(t)
  BY <1>1, <1>3 DEF Queue!Abandon
<1> QED BY <1>2, <1>3, <1>4

LEMMA HeapStep ==
  ASSUME HeapInv, Recent, [HeapNext]_heapVars
  PROVE  HeapInv' /\ [Queue!QNext]_(Queue!qvars)
<1>1. ASSUME NEW when \in Time, emplace(when) PROVE HeapInv' /\ Queue!QNext
  BY <1>1, EmplaceStep DEF Queue!QNext
<1>2. CASE pop
  BY <1>2, PopStep DEF Queue!QNext
<1>3. CASE cull
  BY <1>3, CullStep DEF Queue!QNext
<1>4. CASE clear
  BY <1>4, ClearStep DEF Queue!QNext
<1>5. ASSUME NEW i \in DOMAIN es_, LastWaiterGone(i) PROVE HeapInv' /\ Queue!QNext
  BY <1>5, GoneStep DEF Queue!QNext
<1>6. CASE UNCHANGED heapVars
  <2>1. UNCHANGED <<es_, order_, empty, calls>>
    BY <1>6 DEF heapVars
  <2>2. HeapInv'
    BY <2>1, Zenon DEF HeapInv
  <2>3. UNCHANGED Queue!qvars
    BY <2>1 DEF Queue!qvars
  <2> QED BY <2>2, <2>3
<1> QED BY <1>1, <1>2, <1>3, <1>4, <1>5, <1>6 DEF HeapNext

LEMMA HeapStart ==
  ASSUME HeapInit
  PROVE  HeapInv /\ Queue!QInit
<1>1. es_ = <<>> /\ order_ = FirstOrder /\ empty = {} /\ calls = 0
  BY DEF HeapInit
<1>2. Elements(<<>>) = {} /\ <<>> \in Arr({}, 0) /\ Heaped(<<>>) /\ Len(<<>>) = 0
  BY DEF Arr, Heaped, Elements
<1>3. Stamped({}, 0, FirstOrder)
  BY DEF Stamped
<1>4. 0 \in 0 .. MaxSet /\ FirstOrder \in 0 .. Modulus - 1
  BY HeapAssumption
<1>5. HeapInv
  BY <1>1, <1>2, <1>3, <1>4 DEF HeapInv
<1>6. Queue!QInit
  BY <1>1 DEF Queue!QInit
<1> QED BY <1>5, <1>6

\* timer_heap implements the queue of timers of driver::loop for every arity, cull size
\* and start of the insertion numbers, as long as no timer of the heap sees half of the
\* insertion numbers go by while it waits: each emplace, pop, cull and clear is the
\* corresponding step of the queue.
THEOREM HeapImplementsQueue == HeapSpec /\ []Recent => ImplementsQueue
<1>1. HeapInit => HeapInv /\ Queue!QInit
  BY HeapStart
<1>2. HeapInv /\ Recent /\ [HeapNext]_heapVars => HeapInv' /\ [Queue!QNext]_(Queue!qvars)
  BY HeapStep
<1> QED BY <1>1, <1>2, PTL DEF HeapSpec, ImplementsQueue, Queue!QSpec

\* Without a condition on the behaviour, for a driver that sets fewer timers than half
\* of the insertion numbers, wherever order_ starts and wraps.
THEOREM HeapImplements ==
  ASSUME MaxSet < Modulus \div 2
  PROVE  HeapSpec => ImplementsQueue
<1>1. HeapInit => HeapInv /\ Queue!QInit
  BY HeapStart
<1>2. ASSUME HeapInv PROVE Recent
  <2>1. calls \in 0 .. MaxSet /\ Stamped(Elements(es_), calls, order_) /\ MaxSet \in Nat
    BY <1>2, HeapAssumption DEF HeapInv
  <2> SUFFICES ASSUME NEW i \in DOMAIN es_ PROVE calls - es_[i].n + 1 < Modulus \div 2
    BY DEF Recent
  <2>2. es_[i].n \in Nat \ {0}
    BY <2>1 DEF Stamped, Elements
  <2>3. Modulus \div 2 \in Nat
    BY Half
  <2> QED BY <2>1, <2>2, <2>3
<1>3. HeapInv /\ [HeapNext]_heapVars => HeapInv' /\ [Queue!QNext]_(Queue!qvars)
  BY <1>2, HeapStep
<1> QED BY <1>1, <1>3, PTL DEF HeapSpec, ImplementsQueue, Queue!QSpec
=============================================================================
