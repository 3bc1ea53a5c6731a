--------------------------- MODULE DocServerProofs ---------------------------
(***************************************************************************)
(* Theorems about one document of the server, for every set of requests,   *)
(* replicas and browsers: the cache is always a possible state of the      *)
(* document, and a stream ascends; and about a connection, for every set   *)
(* of requests and every way the network splits them.                      *)
(***************************************************************************)
EXTENDS DocServer, HttpConn, FiniteSetTheorems, TLAPS

-----------------------------------------------------------------------------
(* The numbers of a finite set have an ascending order: the rank of a      *)
(* number, how many are not greater, is a bijection onto 1..Cardinality.   *)

Below(S, v) == {w \in S : w <= v}

LEMMA RankMonotone ==
  ASSUME NEW S \in SUBSET Nat, IsFiniteSet(S), NEW v \in S, NEW w \in S
  PROVE  /\ Cardinality(Below(S, v)) \in 1 .. Cardinality(S)
         /\ v < w => Cardinality(Below(S, v)) < Cardinality(Below(S, w))
<1>1. /\ Below(S, v) \subseteq S /\ v \in Below(S, v) /\ IsFiniteSet(Below(S, v))
      /\ Below(S, w) \subseteq S /\ IsFiniteSet(Below(S, w))
  BY FS_Subset DEF Below
<1>2. /\ Cardinality(Below(S, v)) \in Nat /\ Cardinality(Below(S, w)) \in Nat
      /\ Cardinality(S) \in Nat /\ Cardinality(Below(S, v)) <= Cardinality(S)
  BY <1>1, FS_Subset, FS_CardinalityType
<1>3. Cardinality(Below(S, v)) # 0
  BY <1>1, FS_EmptySet
<1>4. ASSUME v < w
      PROVE  Cardinality(Below(S, v)) < Cardinality(Below(S, w))
  <2>1. Below(S, v) \subseteq Below(S, w)
    <3>1. v \in Nat /\ w \in Nat /\ \A u \in S : u \in Nat
      OBVIOUS
    <3>2. \A u \in S : u <= v => u <= w
      BY <1>4, <3>1
    <3> QED BY <3>2 DEF Below
  <2>2. Below(S, v) # Below(S, w)
    <3>1. v \in Nat /\ w \in Nat
      OBVIOUS
    <3>2. w \in Below(S, w) /\ w \notin Below(S, v)
      BY <1>4, <3>1 DEF Below
    <3> QED BY <3>2
  <2>3. /\ Cardinality(Below(S, v)) <= Cardinality(Below(S, w))
        /\ Cardinality(Below(S, v)) # Cardinality(Below(S, w))
    BY <1>1, <2>1, <2>2, FS_Subset
  <2> QED BY <1>2, <2>3
<1> QED BY <1>2, <1>3, <1>4

LEMMA AscendingOrder ==
  ASSUME NEW S \in SUBSET Nat, IsFiniteSet(S)
  PROVE  /\ Ascending(S) \in [1 .. Cardinality(S) -> S]
         /\ \A i, j \in 1 .. Cardinality(S) : i < j => Ascending(S)[i] < Ascending(S)[j]
<1> DEFINE n == Cardinality(S)
           rank == [v \in S |-> Cardinality(Below(S, v))]
           s == [i \in 1 .. n |-> CHOOSE v \in S : rank[v] = i]
<1>1. n \in Nat
  BY FS_CardinalityType
<1>2. rank \in [S -> 1 .. n]
  BY RankMonotone
<1>3. \A v, w \in S : v < w => rank[v] < rank[w]
  BY RankMonotone
<1>4. \A v, w \in S : rank[v] = rank[w] => v = w
  <2> SUFFICES ASSUME NEW v \in S, NEW w \in S, v # w
               PROVE  rank[v] # rank[w]
    OBVIOUS
  <2>1. v \in Nat /\ w \in Nat
    OBVIOUS
  <2>2. v < w \/ w < v
    BY <2>1
  <2>3. rank[v] \in Int /\ rank[w] \in Int
    BY <1>1, <1>2
  <2> HIDE DEF rank
  <2> QED BY <1>3, <2>2, <2>3
<1> HIDE DEF rank
<1>5. rank \in Injection(S, 1 .. n)
  BY <1>2, <1>4 DEF Injection, IsInjective
<1>6. IsFiniteSet(1 .. n) /\ Cardinality(1 .. n) = n
  BY <1>1, FS_Interval
<1>7. rank \in Surjection(S, 1 .. n)
  BY <1>5, <1>6, FS_Injection
<1>8. \A i \in 1 .. n : \E v \in S : rank[v] = i
  BY <1>7 DEF Surjection
<1>9. \A i \in 1 .. n : s[i] \in S /\ rank[s[i]] = i
  BY <1>8
<1>10. s \in [1 .. n -> S]
  BY <1>9
<1> HIDE DEF s
<1>11. \A i, j \in 1 .. n : i < j => s[i] < s[j]
  <2> SUFFICES ASSUME NEW i \in 1 .. n, NEW j \in 1 .. n, i < j
               PROVE  s[i] < s[j]
    OBVIOUS
  <2>1. s[i] \in S /\ s[j] \in S /\ rank[s[i]] = i /\ rank[s[j]] = j
    BY <1>9
  <2>2. s[i] \in Nat /\ s[j] \in Nat
    BY <2>1
  <2>3. s[j] < s[i] => j < i
    BY <1>3, <2>1
  <2>4. s[i] # s[j]
    BY <2>1, <1>1
  <2> QED BY <1>1, <2>2, <2>3, <2>4
<1>12. \E f \in [1 .. n -> S] : \A i, j \in DOMAIN f : i < j => f[i] < f[j]
  BY <1>10, <1>11
<1>13. /\ Ascending(S) \in [1 .. n -> S]
       /\ \A i, j \in DOMAIN Ascending(S) : i < j => Ascending(S)[i] < Ascending(S)[j]
  BY <1>12 DEF Ascending
<1> QED BY <1>13

-----------------------------------------------------------------------------
(* The inductive invariant *)

Id == {p.id : p \in Post}
Entry == [version : Nat, key : {Key(p) : p \in Post}, id : Id, label : BOOLEAN]
CursorAt == [version : Nat, id : Id \cup {0}]
CacheState == [ops : Seq(Entry), text : Seq(Id), version : Nat,
               cursors : [Client -> CursorAt], cursor_epoch : Nat]
StreamState == [pc : {"closed", "scan", "send"}, drops : Nat, last_seen : Nat,
                last_cursor_epoch : Nat, ops_snap : Seq(Entry)]
BrowserState == [ops : Seq(Entry), cursors : [Client -> CursorAt]]

ServerType ==
  /\ order \in Seq(Post)
  /\ last_applied \in [Replica -> Nat]
  /\ leader \in Replica
  /\ cache \in CacheState
  /\ stream \in [Browser -> StreamState]
  /\ received \in [Browser -> BrowserState]

\* The operations are puts that were executed, each under the version it has, in the
\* order of the versions, and no key twice.
Listed(ops, ord) ==
  \A i \in 1 .. Len(ops) :
    /\ ops[i].version \in 1 .. Len(ord)
    /\ Key(ord[ops[i].version]) = ops[i].key /\ ord[ops[i].version].id = ops[i].id
    /\ \A j \in 1 .. Len(ops) : j < i => ops[j].version < ops[i].version /\ ops[j].key # ops[i].key

Sound(d, ord) ==
  /\ Listed(d.ops, ord)
  /\ d.text = reconstruct(d.ops)
  /\ d.version = LastVersion(d.ops)

\* A stream goes on from the last frame that its browser has.
Resumes ==
  \A b \in Browser : stream[b].pc # "closed" => stream[b].last_seen = LastVersion(received[b].ops)

ServerInv ==
  /\ ServerType
  /\ \A r \in Replica : last_applied[r] <= Len(order)
  /\ Sound(cache, order)
  /\ Resumes
  /\ StreamAscending

LEMMA SoundCache ==
  ASSUME ServerInv
  PROVE  CacheSound
<1>1. cache.ops \in Seq(Entry)
  BY DEF ServerInv, ServerType, CacheState
<1>2. \A i \in DOMAIN cache.ops : i \in 1 .. Len(cache.ops)
  BY <1>1
<1>3. \A i \in 1 .. Len(cache.ops) : \A j \in 1 .. (i - 1) : j \in 1 .. Len(cache.ops) /\ j < i
  BY <1>1
<1> QED BY <1>2, <1>3, Zenon DEF CacheSound, ServerInv, Sound, Listed

LEMMA EntryFields ==
  ASSUME NEW ops \in Seq(Entry), NEW i \in 1 .. Len(ops)
  PROVE  /\ ops[i] \in Entry /\ ops[i].version \in Nat /\ ops[i].id \in Id
         /\ ops[i].label \in BOOLEAN
<1>1. ops[i] \in Entry
  OBVIOUS
<1> QED BY <1>1 DEF Entry

LEMMA SeqSame ==
  ASSUME NEW S, NEW s \in Seq(S), NEW t \in Seq(S), Len(s) = Len(t),
         \A i \in 1 .. Len(s) : s[i] = t[i]
  PROVE  s = t
<1>1. s = [i \in 1 .. Len(s) |-> s[i]] /\ t = [i \in 1 .. Len(s) |-> t[i]]
  OBVIOUS
<1> QED BY <1>1, Zenon

LEMMA Reconstructed ==
  ASSUME NEW ops \in Seq(Entry)
  PROVE  /\ reconstruct(ops) \in Seq(Id) /\ Len(reconstruct(ops)) = Len(ops)
         /\ \A i \in 1 .. Len(ops) : reconstruct(ops)[i] = ops[i].id
<1>1. DOMAIN ops = 1 .. Len(ops) /\ Len(ops) \in Nat
  OBVIOUS
<1>2. reconstruct(ops) = [i \in 1 .. Len(ops) |-> ops[i].id]
  BY <1>1 DEF reconstruct
<1>3. \A i \in 1 .. Len(ops) : ops[i].id \in Id
  BY EntryFields
<1> QED BY <1>1, <1>2, <1>3

LEMMA LastVersionIs ==
  ASSUME NEW ops \in Seq(Entry)
  PROVE  /\ LastVersion(ops) \in Nat
         /\ Len(ops) = 0 => LastVersion(ops) = 0
         /\ Len(ops) # 0 => LastVersion(ops) = ops[Len(ops)].version
<1>1. Len(ops) = 0 <=> ops = <<>>
  OBVIOUS
<1>2. Len(ops) # 0 => Len(ops) \in 1 .. Len(ops)
  OBVIOUS
<1> QED BY <1>1, <1>2, EntryFields DEF LastVersion, Last

\* Two lists with the same versions and keys, one of which is right.
LEMMA ListedSame ==
  ASSUME NEW ord, NEW ops \in Seq(Entry), NEW new \in Seq(Entry), Listed(ops, ord),
         Len(new) = Len(ops),
         \A i \in 1 .. Len(ops) : /\ new[i].version = ops[i].version /\ new[i].key = ops[i].key
                                  /\ new[i].id = ops[i].id
  PROVE  Listed(new, ord)
  BY DEF Listed

\* All versions of a list are at most the last.
LEMMA ListedLast ==
  ASSUME NEW ord, NEW ops \in Seq(Entry), Listed(ops, ord), NEW i \in 1 .. Len(ops)
  PROVE  ops[i].version <= LastVersion(ops)
<1>1. Len(ops) \in 1 .. Len(ops) /\ Len(ops) # 0
  OBVIOUS
<1>2. LastVersion(ops) = ops[Len(ops)].version
  BY <1>1, LastVersionIs
<1>3. ops[i].version \in Nat /\ ops[Len(ops)].version \in Nat
  BY <1>1, EntryFields
<1>4. i < Len(ops) => ops[i].version < ops[Len(ops)].version
  BY <1>1 DEF Listed
<1>5. i = Len(ops) \/ i < Len(ops)
  OBVIOUS
<1> QED BY <1>2, <1>3, <1>4, <1>5

-----------------------------------------------------------------------------
(* What a refresh reads.                                                    *)

LEMMA FreshCells ==
  ASSUME ServerType, NEW n \in Nat, n <= Len(order)
  PROVE  /\ Cells(n, "op") \in SUBSET (1 .. Len(order)) /\ Cells(n, "op") \in SUBSET Nat
         /\ IsFiniteSet(Cells(n, "op"))
         /\ \A v, w \in Cells(n, "op") : v < w => Key(order[v]) # Key(order[w])
<1>1. Len(order) \in Nat
  BY DEF ServerType
<1>2. Cells(n, "op") \subseteq 1 .. n
  BY DEF Cells
<1>3. IsFiniteSet(1 .. n)
  BY FS_Interval
<1>4. \A v, w \in 1 .. n : v < w => w \in (v + 1) .. n
  OBVIOUS
<1>5. \A v, w \in Cells(n, "op") : v < w => Key(order[v]) # Key(order[w])
  BY <1>2, <1>4, Zenon DEF Cells
<1>6. 1 .. n \subseteq 1 .. Len(order) /\ 1 .. n \subseteq Nat
  BY <1>1
<1> QED BY <1>2, <1>3, <1>5, <1>6, FS_Subset

\* The operations that a refresh reads are executed puts in the order of the versions.
LEMMA FreshListed ==
  ASSUME ServerType, NEW n \in Nat, n <= Len(order)
  PROVE  read_ops(n) \in Seq(Entry) /\ Listed(read_ops(n), order)
<1> DEFINE S == Cells(n, "op")
           m == Cardinality(S)
           vs == Ascending(S)
           fresh == read_ops(n)
<1>1. /\ vs \in [1 .. m -> S]
      /\ \A i, j \in 1 .. m : i < j => vs[i] < vs[j]
  BY FreshCells, AscendingOrder
<1>2. m \in Nat
  BY FreshCells, FS_CardinalityType
<1>3. fresh = [i \in 1 .. m |-> [version |-> vs[i], key |-> Key(order[vs[i]]),
                                 id |-> order[vs[i]].id, label |-> FALSE]]
  BY <1>1, Zenon DEF read_ops
<1>4. /\ \A i \in 1 .. m : vs[i] \in S /\ vs[i] \in 1 .. Len(order) /\ vs[i] \in Nat
      /\ \A v, w \in S : v < w => Key(order[v]) # Key(order[w])
  BY <1>1, FreshCells
<1> HIDE DEF S, m, vs, fresh
<1>5. \A i \in 1 .. m : order[vs[i]] \in Post
  BY <1>4 DEF ServerType
<1>6. \A i \in 1 .. m : /\ fresh[i].version = vs[i] /\ fresh[i].key = Key(order[vs[i]])
                        /\ fresh[i].id = order[vs[i]].id
  BY <1>3, Zenon
<1>7. \A i \in 1 .. m : [version |-> vs[i], key |-> Key(order[vs[i]]),
                         id |-> order[vs[i]].id, label |-> FALSE] \in Entry
  BY <1>4, <1>5 DEF Entry, Id
<1>8. fresh \in [1 .. m -> Entry]
  BY <1>3, <1>7
<1>9. fresh \in Seq(Entry) /\ Len(fresh) = m
  BY <1>2, <1>8
<1>10. \A i, j \in 1 .. m : j < i => fresh[j].version < fresh[i].version /\ fresh[j].key # fresh[i].key
  <2> SUFFICES ASSUME NEW i \in 1 .. m, NEW j \in 1 .. m, j < i
               PROVE  fresh[j].version < fresh[i].version /\ fresh[j].key # fresh[i].key
    OBVIOUS
  <2>1. vs[j] < vs[i] /\ vs[j] \in S /\ vs[i] \in S
    BY <1>1, <1>4
  <2>2. Key(order[vs[j]]) # Key(order[vs[i]])
    BY <1>4, <2>1
  <2> QED BY <1>6, <2>1, <2>2, Zenon
<1>11. Listed(fresh, order)
  <2>1. \A i \in 1 .. m : /\ fresh[i].version \in 1 .. Len(order)
                          /\ Key(order[fresh[i].version]) = fresh[i].key
                          /\ order[fresh[i].version].id = fresh[i].id
    BY <1>4, <1>6, Zenon
  <2> QED BY <1>9, <1>10, <2>1, Zenon DEF Listed
<1> QED BY <1>9, <1>11 DEF fresh

-----------------------------------------------------------------------------
(* What the operations of the cache keep.                                   *)

\* Only labels are changed.
LEMMA Relabelled ==
  ASSUME NEW ord, NEW d \in CacheState, Sound(d, ord), NEW ops,
         ops \in Seq(Entry), Len(ops) = Len(d.ops),
         \A i \in 1 .. Len(d.ops) : /\ ops[i].version = d.ops[i].version /\ ops[i].key = d.ops[i].key
                                    /\ ops[i].id = d.ops[i].id
  PROVE  [d EXCEPT !.ops = ops] \in CacheState /\ Sound([d EXCEPT !.ops = ops], ord)
<1> DEFINE e == [d EXCEPT !.ops = ops]
<1>1. d.ops \in Seq(Entry)
  BY DEF CacheState
<1>2. e.ops = ops /\ e.text = d.text /\ e.version = d.version
  BY Zenon DEF CacheState
<1>3. e \in CacheState
  BY DEF CacheState
<1> HIDE DEF e
<1>4. Listed(ops, ord)
  BY <1>1, ListedSame, Zenon DEF Sound
<1>5. reconstruct(ops) = reconstruct(d.ops)
  <2>1. DOMAIN ops = 1 .. Len(d.ops) /\ DOMAIN d.ops = 1 .. Len(d.ops)
    BY <1>1
  <2> QED BY <2>1, Zenon DEF reconstruct
<1>6. LastVersion(ops) = LastVersion(d.ops)
  <2>1. Len(ops) # 0 => Len(ops) \in 1 .. Len(d.ops)
    BY <1>1
  <2> QED BY <1>1, <2>1, LastVersionIs, Zenon
<1>7. Sound(e, ord)
  BY <1>2, <1>4, <1>5, <1>6, Zenon DEF Sound
<1> QED BY <1>3, <1>7 DEF e

LEMMA LabelKeepsEntry ==
  ASSUME NEW o \in Entry, NEW l \in BOOLEAN
  PROVE  LET x == [o EXCEPT !.label = l]
         IN  x \in Entry /\ x.version = o.version /\ x.key = o.key /\ x.id = o.id
<1>1. [o EXCEPT !.label = l] \in Entry
  BY DEF Entry
<1> QED BY <1>1, Zenon DEF Entry

LEMMA NoteLabel ==
  ASSUME NEW ord, NEW d \in CacheState, Sound(d, ord), NEW c
  PROVE  note_client_label(d, c) \in CacheState /\ Sound(note_client_label(d, c), ord)
<1> DEFINE ops == [i \in DOMAIN d.ops |-> IF d.ops[i].key[2] = c
                                          THEN [d.ops[i] EXCEPT !.label = TRUE] ELSE d.ops[i]]
<1>1. d.ops \in Seq(Entry) /\ DOMAIN d.ops = 1 .. Len(d.ops) /\ Len(d.ops) \in Nat
  BY DEF CacheState
<1>2. \A i \in 1 .. Len(d.ops) : d.ops[i] \in Entry
  BY <1>1
<1>3. \A i \in 1 .. Len(d.ops) :
        /\ ops[i] \in Entry /\ ops[i].version = d.ops[i].version /\ ops[i].key = d.ops[i].key
        /\ ops[i].id = d.ops[i].id
  <2> TAKE i \in 1 .. Len(d.ops)
  <2>1. d.ops[i] \in Entry /\ i \in DOMAIN d.ops
    BY <1>1, <1>2
  <2>2. ops[i] = [d.ops[i] EXCEPT !.label = TRUE] \/ ops[i] = d.ops[i]
    BY <2>1
  <2> QED BY <2>1, <2>2, LabelKeepsEntry, Zenon
<1>4. ops \in [1 .. Len(d.ops) -> Entry]
  <2>1. DOMAIN ops = 1 .. Len(d.ops) /\ ops = [i \in DOMAIN ops |-> ops[i]]
    BY <1>1
  <2> HIDE DEF ops
  <2> QED BY <1>3, <2>1
<1>5. note_client_label(d, c) = [d EXCEPT !.ops = ops]
  BY Zenon DEF note_client_label
<1> HIDE DEF ops
<1>6. ops \in Seq(Entry) /\ Len(ops) = Len(d.ops)
  BY <1>1, <1>4
<1>7. [d EXCEPT !.ops = ops] \in CacheState /\ Sound([d EXCEPT !.ops = ops], ord)
  BY <1>3, <1>6, Relabelled, ZenonT(30)
<1> QED BY <1>5, <1>7, Zenon

\* A newer executed put of a key that is not there is appended.
LEMMA AppendSound ==
  ASSUME NEW ord, ord \in Seq(Post), NEW d \in CacheState, Sound(d, ord), NEW c \in Entry,
         c.version \in 1 .. Len(ord), Key(ord[c.version]) = c.key, ord[c.version].id = c.id,
         c.version > d.version, \A i \in 1 .. Len(d.ops) : d.ops[i].key # c.key,
         NEW e, e = [d EXCEPT !.ops = Append(@, c), !.text = Append(@, c.id), !.version = c.version]
  PROVE  e \in CacheState /\ Sound(e, ord)
<1> DEFINE k == Len(d.ops)
           ops == Append(d.ops, c)
<1>1. d.ops \in Seq(Entry) /\ k \in Nat /\ d.text \in Seq(Id) /\ d.version \in Nat
  BY DEF CacheState
<1>2. c.version \in Nat /\ c.id \in Id
  BY DEF Entry
<1>3. e.ops = ops /\ e.text = Append(d.text, c.id) /\ e.version = c.version
  BY Zenon DEF CacheState
<1>4. ops \in Seq(Entry) /\ Append(d.text, c.id) \in Seq(Id)
  BY <1>1, <1>2
<1>5. e \in CacheState
  BY <1>2, <1>4 DEF CacheState
<1>6. /\ Len(ops) = k + 1 /\ ops[k + 1] = c
      /\ \A i \in 1 .. k : ops[i] = d.ops[i]
  BY <1>1
<1> HIDE DEF ops
<1>7. \A i \in 1 .. k : d.ops[i].version < c.version /\ d.ops[i].version \in Nat
  BY <1>1, <1>2, ListedLast, EntryFields DEF Sound
<1>8. Listed(ops, ord)
  <2> SUFFICES ASSUME NEW i \in 1 .. k + 1
               PROVE  /\ ops[i].version \in 1 .. Len(ord)
                      /\ Key(ord[ops[i].version]) = ops[i].key /\ ord[ops[i].version].id = ops[i].id
                      /\ \A j \in 1 .. k + 1 : j < i => ops[j].version < ops[i].version /\ ops[j].key # ops[i].key
    BY <1>6 DEF Listed
  <2>1. CASE i = k + 1
    <3>1. \A j \in 1 .. k + 1 : j < i => j \in 1 .. k
      BY <1>1, <2>1
    <3> QED BY <1>6, <1>7, <2>1, <3>1, Zenon
  <2>2. CASE i \in 1 .. k
    <3>1. \A j \in 1 .. k + 1 : j < i => j \in 1 .. k
      BY <1>1, <2>2
    <3>2. Listed(d.ops, ord)
      BY DEF Sound
    <3>3. /\ d.ops[i].version \in 1 .. Len(ord)
          /\ Key(ord[d.ops[i].version]) = d.ops[i].key /\ ord[d.ops[i].version].id = d.ops[i].id
          /\ \A j \in 1 .. k : j < i => d.ops[j].version < d.ops[i].version /\ d.ops[j].key # d.ops[i].key
      BY <2>2, <3>2, Zenon DEF Listed
    <3> QED BY <1>6, <2>2, <3>1, <3>3, Zenon
  <2> QED BY <1>1, <2>1, <2>2
<1>9. reconstruct(ops) = Append(d.text, c.id)
  <2>1. d.text = reconstruct(d.ops)
    BY DEF Sound
  <2>2. /\ reconstruct(ops) \in Seq(Id) /\ Len(reconstruct(ops)) = k + 1
        /\ \A i \in 1 .. k + 1 : reconstruct(ops)[i] = ops[i].id
    BY <1>4, <1>6, Reconstructed
  <2>3. /\ Len(d.text) = k
        /\ \A i \in 1 .. k : d.text[i] = d.ops[i].id
    BY <1>1, <2>1, Reconstructed
  <2>4. \A i \in 1 .. k + 1 : reconstruct(ops)[i] = Append(d.text, c.id)[i]
    <3> TAKE i \in 1 .. k + 1
    <3>1. i = k + 1 \/ i \in 1 .. k
      BY <1>1
    <3>2. Append(d.text, c.id)[k + 1] = c.id /\ \A h \in 1 .. k : Append(d.text, c.id)[h] = d.text[h]
      BY <1>1, <2>3
    <3> QED BY <1>6, <2>2, <2>3, <3>1, <3>2, Zenon
  <2>5. Len(Append(d.text, c.id)) = k + 1
    BY <1>1, <2>3
  <2> QED BY <1>4, <2>2, <2>4, <2>5, SeqSame, Zenon
<1>10. LastVersion(ops) = c.version
  <2>1. k + 1 # 0
    BY <1>1
  <2> QED BY <1>4, <1>6, <2>1, LastVersionIs, Zenon
<1> QED BY <1>3, <1>5, <1>8, <1>9, <1>10, Zenon DEF Sound

LEMMA NoteCommitted ==
  ASSUME NEW ord, ord \in Seq(Post), NEW d \in CacheState, Sound(d, ord), NEW c \in Entry,
         c.version \in 1 .. Len(ord), Key(ord[c.version]) = c.key, ord[c.version].id = c.id
  PROVE  note_committed(d, c) \in CacheState /\ Sound(note_committed(d, c), ord)
<1> DEFINE at == {i \in DOMAIN d.ops : d.ops[i].key = c.key}
           ops == [i \in DOMAIN d.ops |-> IF i \in at THEN [d.ops[i] EXCEPT !.label = TRUE] ELSE d.ops[i]]
<1>1. d.ops \in Seq(Entry) /\ DOMAIN d.ops = 1 .. Len(d.ops) /\ Len(d.ops) \in Nat
  BY DEF CacheState
<1>2. CASE at # {}
  <2>1. \A i \in 1 .. Len(d.ops) :
          /\ ops[i] \in Entry /\ ops[i].version = d.ops[i].version /\ ops[i].key = d.ops[i].key
          /\ ops[i].id = d.ops[i].id
    <3> HIDE DEF at
    <3> TAKE i \in 1 .. Len(d.ops)
    <3>1. d.ops[i] \in Entry /\ i \in DOMAIN d.ops
      BY <1>1
    <3>2. ops[i] = [d.ops[i] EXCEPT !.label = TRUE] \/ ops[i] = d.ops[i]
      BY <3>1
    <3> QED BY <3>1, <3>2, LabelKeepsEntry, Zenon
  <2>2. ops \in [1 .. Len(d.ops) -> Entry]
    <3>1. DOMAIN ops = 1 .. Len(d.ops) /\ ops = [i \in DOMAIN ops |-> ops[i]]
      BY <1>1
    <3> HIDE DEF ops
    <3> QED BY <2>1, <3>1
  <2>3. note_committed(d, c) = [d EXCEPT !.ops = ops]
    BY <1>2, Zenon DEF note_committed
  <2> HIDE DEF ops
  <2>4. ops \in Seq(Entry) /\ Len(ops) = Len(d.ops)
    BY <1>1, <2>2
  <2>5. [d EXCEPT !.ops = ops] \in CacheState /\ Sound([d EXCEPT !.ops = ops], ord)
    <3> HIDE DEF at
    <3> QED BY <2>1, <2>4, Relabelled, Zenon
  <2> QED BY <2>3, <2>5, Zenon
<1>3. CASE at = {} /\ c.version > d.version
  <2>1. note_committed(d, c) =
          [d EXCEPT !.ops = Append(@, c), !.text = Append(@, c.id), !.version = c.version]
    BY <1>3, Zenon DEF note_committed
  <2>2. \A i \in 1 .. Len(d.ops) : d.ops[i].key # c.key
    BY <1>1, <1>3, Zenon
  <2> QED BY <1>3, <2>1, <2>2, AppendSound, Zenon
<1>4. CASE at = {} /\ ~(c.version > d.version)
  <2>1. note_committed(d, c) = d
    BY <1>4, Zenon DEF note_committed
  <2> QED BY <2>1
<1> QED BY <1>2, <1>3, <1>4, Zenon

-----------------------------------------------------------------------------
(* A refresh.                                                               *)

\* A list with the versions, keys and ids of the fresh one, its text and its last version.
LEMMA Rebuilt ==
  ASSUME NEW ord, NEW d \in CacheState, NEW fresh \in Seq(Entry), Listed(fresh, ord), Len(fresh) # 0,
         NEW ops, ops \in Seq(Entry), Len(ops) = Len(fresh),
         \A i \in 1 .. Len(fresh) : /\ ops[i].version = fresh[i].version /\ ops[i].key = fresh[i].key
                                    /\ ops[i].id = fresh[i].id,
         NEW text, text = reconstruct(ops),
         NEW e, e = [d EXCEPT !.ops = ops, !.text = text, !.version = Last(fresh).version]
  PROVE  e \in CacheState /\ Sound(e, ord)
<1>1. e.ops = ops /\ e.text = text /\ e.version = Last(fresh).version
  BY Zenon DEF CacheState
<1>2. Len(fresh) \in 1 .. Len(fresh)
  OBVIOUS
<1>3. Last(fresh).version = ops[Len(fresh)].version /\ Last(fresh).version \in Nat
  BY <1>2, EntryFields DEF Last
<1>4. text \in Seq(Id)
  BY Reconstructed
<1>5. e \in CacheState
  BY <1>3, <1>4 DEF CacheState
<1>6. Listed(ops, ord)
  BY ListedSame, Zenon
<1>7. LastVersion(ops) = ops[Len(fresh)].version
  BY LastVersionIs, Zenon
<1> QED BY <1>1, <1>3, <1>5, <1>6, <1>7, Zenon DEF Sound

\* The fast path: the cache is a prefix of what is in the database.
LEMMA AppendFresh ==
  ASSUME NEW ord, NEW d \in CacheState, Sound(d, ord), NEW fresh \in Seq(Entry), Listed(fresh, ord),
         Len(fresh) # 0, append_only(d.ops, fresh)
  PROVE  refresh_ops_from_db(d, fresh) \in CacheState /\ Sound(refresh_ops_from_db(d, fresh), ord)
<1> DEFINE k == Len(d.ops)
           n == Len(fresh)
           new == [i \in 1 .. (Len(fresh) - Len(d.ops)) |->
                     [fresh[Len(d.ops) + i] EXCEPT !.label = fresh[Len(d.ops) + i].key[2] \in client_labels]]
           ops == d.ops \o new
           text == d.text \o reconstruct(new)
<1>1. /\ d.ops \in Seq(Entry) /\ k \in Nat /\ n \in Nat /\ d.text \in Seq(Id)
      /\ DOMAIN d.ops = 1 .. k
  BY DEF CacheState
<1>2. /\ k <= n
      /\ \A i \in 1 .. k : fresh[i].version = d.ops[i].version /\ fresh[i].key = d.ops[i].key
  BY <1>1 DEF append_only
<1>3. fresh # <<>>
  OBVIOUS
<1>4. refresh_ops_from_db(d, fresh) =
        [d EXCEPT !.ops = @ \o new, !.text = @ \o reconstruct(new), !.version = Last(fresh).version]
  BY <1>3, Zenon DEF refresh_ops_from_db
<1>5. [d EXCEPT !.ops = @ \o new, !.text = @ \o reconstruct(new), !.version = Last(fresh).version]
      = [d EXCEPT !.ops = ops, !.text = text, !.version = Last(fresh).version]
  OBVIOUS
<1>6. \A i \in 1 .. n - k : k + i \in 1 .. n
  BY <1>1, <1>2
<1>7. \A i \in 1 .. n - k : /\ new[i] \in Entry /\ new[i].version = fresh[k + i].version
                            /\ new[i].key = fresh[k + i].key /\ new[i].id = fresh[k + i].id
  <2> TAKE i \in 1 .. n - k
  <2>1. fresh[k + i] \in Entry
    BY <1>6
  <2>2. new[i] = [fresh[k + i] EXCEPT !.label = fresh[k + i].key[2] \in client_labels]
    BY Zenon
  <2> HIDE DEF new, k
  <2>3. (fresh[k + i].key[2] \in client_labels) \in BOOLEAN
    OBVIOUS
  <2>4. \A l \in BOOLEAN : [fresh[k + i] EXCEPT !.label = l] \in Entry
    BY <2>1 DEF Entry
  <2>5. new[i] \in Entry
    BY <2>2, <2>3, <2>4, Zenon
  <2> QED BY <2>1, <2>2, <2>5, Zenon DEF Entry
<1>8. new \in [1 .. n - k -> Entry]
  <2>1. new = [i \in 1 .. n - k |-> new[i]]
    OBVIOUS
  <2> HIDE DEF new
  <2> QED BY <1>7, <2>1
<1> HIDE DEF new
<1>9. n - k \in Nat
  BY <1>1, <1>2
<1>10. new \in Seq(Entry) /\ Len(new) = n - k
  BY <1>8, <1>9
<1>11. /\ ops \in Seq(Entry) /\ Len(ops) = n
       /\ \A i \in 1 .. n : ops[i] = IF i <= k THEN d.ops[i] ELSE new[i - k]
  BY <1>1, <1>2, <1>10
<1>12. /\ Len(d.text) = k /\ \A i \in 1 .. k : d.text[i] = d.ops[i].id
       /\ reconstruct(new) \in Seq(Id) /\ Len(reconstruct(new)) = n - k
       /\ \A i \in 1 .. n - k : reconstruct(new)[i] = new[i].id
  BY <1>1, <1>10, Reconstructed DEF Sound
<1>13. /\ text \in Seq(Id) /\ Len(text) = n
       /\ \A i \in 1 .. n : text[i] = IF i <= k THEN d.text[i] ELSE reconstruct(new)[i - k]
  BY <1>1, <1>2, <1>12, SMTT(30)
<1> HIDE DEF ops, text
<1>14. \A i \in 1 .. n : i <= k \/ (i - k \in 1 .. n - k /\ k + (i - k) = i /\ ~(i <= k))
  BY <1>1
<1>15. \A i \in 1 .. n : i <= k => i \in 1 .. k
  BY <1>1
<1>16. text = reconstruct(ops)
  <2>1. /\ reconstruct(ops) \in Seq(Id) /\ Len(reconstruct(ops)) = n
        /\ \A i \in 1 .. n : reconstruct(ops)[i] = ops[i].id
    BY <1>11, Reconstructed
  <2>2. \A i \in 1 .. n : text[i] = ops[i].id
    <3> TAKE i \in 1 .. n
    <3>1. CASE i <= k
      <4>1. text[i] = d.text[i] /\ ops[i] = d.ops[i]
        BY <1>11, <1>13, <3>1
      <4> QED BY <1>12, <1>15, <3>1, <4>1, Zenon
    <3>2. CASE ~(i <= k)
      <4>1. text[i] = reconstruct(new)[i - k] /\ ops[i] = new[i - k]
        BY <1>11, <1>13, <3>2
      <4> QED BY <1>12, <1>14, <3>2, <4>1, Zenon
    <3> QED BY <3>1, <3>2
  <2>3. Len(text) = Len(reconstruct(ops)) /\ \A i \in 1 .. Len(text) : text[i] = reconstruct(ops)[i]
    BY <1>13, <2>1, <2>2
  <2> QED BY <1>13, <2>1, <2>3, SeqSame, Zenon
<1>17. \A i \in 1 .. n : /\ ops[i].version = fresh[i].version /\ ops[i].key = fresh[i].key
                         /\ ops[i].id = fresh[i].id
  <2> TAKE i \in 1 .. n
  <2>1. CASE i <= k
    <3>1. ops[i] = d.ops[i] /\ i \in 1 .. k
      BY <1>11, <1>15, <2>1
    <3>2. fresh[i].id = ord[fresh[i].version].id /\ d.ops[i].id = ord[d.ops[i].version].id
      BY <3>1, Zenon DEF Sound, Listed
    <3> QED BY <1>2, <3>1, <3>2, Zenon
  <2>2. CASE ~(i <= k)
    <3>1. ops[i] = new[i - k]
      BY <1>11, <2>2
    <3> QED BY <1>7, <1>14, <2>2, <3>1, Zenon
  <2> QED BY <2>1, <2>2
<1>18. PICK e : e = [d EXCEPT !.ops = ops, !.text = text, !.version = Last(fresh).version]
  OBVIOUS
<1>19. e \in CacheState /\ Sound(e, ord)
  <2>1. Len(ops) = Len(fresh) /\ ops \in Seq(Entry)
    BY <1>11
  <2> QED BY <1>16, <1>17, <1>18, <2>1, Rebuilt, Zenon
<1> QED BY <1>4, <1>5, <1>18, <1>19, Zenon

LEMMA RefreshOps ==
  ASSUME NEW ord, NEW d \in CacheState, Sound(d, ord), NEW fresh \in Seq(Entry), Listed(fresh, ord)
  PROVE  refresh_ops_from_db(d, fresh) \in CacheState /\ Sound(refresh_ops_from_db(d, fresh), ord)
<1>1. CASE Len(fresh) = 0
  <2>1. fresh = <<>>
    BY <1>1
  <2>2. PICK e : e = [d EXCEPT !.ops = <<>>, !.text = <<>>, !.version = 0]
    OBVIOUS
  <2>3. refresh_ops_from_db(d, fresh) = e
    BY <2>1, <2>2, Zenon DEF refresh_ops_from_db
  <2>4. e.ops = <<>> /\ e.text = <<>> /\ e.version = 0
    BY <2>2, Zenon DEF CacheState
  <2>5. e \in CacheState
    <3>1. <<>> \in Seq(Entry) /\ <<>> \in Seq(Id) /\ 0 \in Nat
      OBVIOUS
    <3> QED BY <2>2, <3>1 DEF CacheState
  <2>6. reconstruct(<<>>) = <<>> /\ LastVersion(<<>>) = 0
    BY DEF reconstruct, LastVersion
  <2>7. Listed(<<>>, ord)
    BY DEF Listed
  <2> QED BY <2>3, <2>4, <2>5, <2>6, <2>7, Zenon DEF Sound
<1>2. CASE Len(fresh) # 0 /\ append_only(d.ops, fresh)
  BY <1>2, AppendFresh
<1>3. CASE Len(fresh) # 0 /\ ~append_only(d.ops, fresh)
  <2>1. fresh # <<>> /\ DOMAIN fresh = 1 .. Len(fresh)
    BY <1>3
  <2>2. PICK saved : saved = {o.key : o \in {p \in Range(d.ops) : p.label}}
    OBVIOUS
  <2> DEFINE ops == [i \in DOMAIN fresh |-> [fresh[i] EXCEPT !.label = fresh[i].key \in saved]]
  <2>3. refresh_ops_from_db(d, fresh) =
          [d EXCEPT !.ops = ops, !.text = reconstruct(ops), !.version = Last(fresh).version]
    BY <1>3, <2>1, <2>2, Zenon DEF refresh_ops_from_db
  <2>4. \A i \in 1 .. Len(fresh) :
          /\ ops[i] \in Entry /\ ops[i].version = fresh[i].version
          /\ ops[i].key = fresh[i].key /\ ops[i].id = fresh[i].id
    <3> TAKE i \in 1 .. Len(fresh)
    <3>1. fresh[i] \in Entry
      OBVIOUS
    <3>2. ops[i] = [fresh[i] EXCEPT !.label = fresh[i].key \in saved]
      BY <2>1, Zenon
    <3> HIDE DEF ops
    <3>3. (fresh[i].key \in saved) \in BOOLEAN
      OBVIOUS
    <3>4. \A l \in BOOLEAN : [fresh[i] EXCEPT !.label = l] \in Entry
      BY <3>1 DEF Entry
    <3>5. ops[i] \in Entry
      BY <3>2, <3>3, <3>4, Zenon
    <3> QED BY <3>1, <3>2, <3>5, Zenon DEF Entry
  <2>5. ops = [i \in 1 .. Len(fresh) |-> ops[i]]
    BY <2>1
  <2> HIDE DEF ops
  <2>6. ops \in Seq(Entry) /\ Len(ops) = Len(fresh)
    BY <2>4, <2>5
  <2>7. PICK e : e = [d EXCEPT !.ops = ops, !.text = reconstruct(ops), !.version = Last(fresh).version]
    OBVIOUS
  <2>8. e \in CacheState /\ Sound(e, ord)
    BY <1>3, <2>4, <2>6, <2>7, Rebuilt, Zenon
  <2> QED BY <2>3, <2>7, <2>8, Zenon
<1> QED BY <1>1, <1>2, <1>3

LEMMA RefreshCursors ==
  ASSUME NEW ord, NEW d \in CacheState, Sound(d, ord), NEW fresh \in [Client -> CursorAt]
  PROVE  refresh_cursors_from_db(d, fresh) \in CacheState /\ Sound(refresh_cursors_from_db(d, fresh), ord)
<1>1. PICK e : e = [d EXCEPT !.cursors = fresh, !.cursor_epoch = @ + 1]
  OBVIOUS
<1>2. refresh_cursors_from_db(d, fresh) = e \/ refresh_cursors_from_db(d, fresh) = d
  BY <1>1, Zenon DEF refresh_cursors_from_db
<1>3. e.ops = d.ops /\ e.text = d.text /\ e.version = d.version
  BY <1>1, Zenon DEF CacheState
<1>4. e \in CacheState
  <2>1. d.cursor_epoch + 1 \in Nat
    BY DEF CacheState
  <2> QED BY <1>1, <2>1 DEF CacheState
<1> QED BY <1>2, <1>3, <1>4, Zenon DEF Sound

LEMMA FreshCursors ==
  ASSUME ServerType, NEW n \in Nat, n <= Len(order)
  PROVE  read_cursors(n) \in [Client -> CursorAt]
<1> DEFINE mine(c) == {v \in Cells(n, "cursor") : order[v].client = c}
           cell(c) == CHOOSE w \in mine(c) : TRUE
           cursor(c) == IF mine(c) = {} THEN NoCursor ELSE [version |-> cell(c), id |-> order[cell(c)].id]
<1>1. read_cursors(n) = [c \in Client |-> cursor(c)]
  BY Zenon DEF read_cursors
<1>2. ASSUME NEW c \in Client, mine(c) # {}
      PROVE  [version |-> cell(c), id |-> order[cell(c)].id] \in CursorAt
  <2>1. cell(c) \in mine(c)
    BY <1>2, Zenon
  <2>2. cell(c) \in 1 .. n
    BY <2>1, Zenon DEF Cells
  <2> HIDE DEF cell
  <2>3. cell(c) \in Nat /\ order[cell(c)] \in Post
    BY <2>2 DEF ServerType
  <2> QED BY <2>3 DEF CursorAt, Id
<1>3. NoCursor \in CursorAt
  BY DEF NoCursor, CursorAt
<1>4. \A c \in Client : cursor(c) \in CursorAt
  BY <1>2, <1>3, Zenon
<1> HIDE DEF cursor
<1> QED BY <1>1, <1>4

-----------------------------------------------------------------------------
(* The steps.                                                               *)

\* A step that changes the cache only keeps it right.
LEMMA CacheStep ==
  ASSUME ServerInv, UNCHANGED <<store, stream, received>>, leader' \in Replica,
         cache' \in CacheState, Sound(cache', order)
  PROVE  ServerInv'
<1>1. /\ order' = order /\ last_applied' = last_applied /\ stream' = stream /\ received' = received
  BY Zenon DEF store
<1>2. ServerType'
  BY <1>1, Zenon DEF ServerInv, ServerType
<1>3. Sound(cache, order)'
  BY <1>1, Zenon DEF Sound, Listed, reconstruct, LastVersion
<1>4. Resumes' /\ StreamAscending'
  BY <1>1, Zenon DEF ServerInv, Resumes, StreamAscending
<1>5. \A r \in Replica : last_applied'[r] <= Len(order')
  BY <1>1, Zenon DEF ServerInv
<1> QED BY <1>2, <1>3, <1>4, <1>5, Zenon DEF ServerInv

LEMMA BeginStep ==
  ASSUME ServerInv, NEW p \in Post, PostBegin(p)
  PROVE  ServerInv'
<1>1. cache \in CacheState /\ Sound(cache, order) /\ leader \in Replica
  BY DEF ServerInv, ServerType
<1>2. cache' = note_client_label(cache, p.client)
  BY DEF PostBegin
<1>3. cache' \in CacheState /\ Sound(cache', order)
  BY <1>1, <1>2, NoteLabel, Zenon
<1>4. UNCHANGED <<store, stream, received>> /\ leader' \in Replica
  BY <1>1, Zenon DEF PostBegin
<1> QED BY <1>3, <1>4, CacheStep, Zenon

LEMMA AnsweredVersion ==
  ASSUME ServerInv, NEW p \in Post, Answered(p)
  PROVE  /\ PutVersion(p) \in 1 .. Len(order) /\ order[PutVersion(p)] = p
         /\ UNCHANGED <<store, stream, received>> /\ leader' \in Replica
<1>1. /\ order \in Seq(Post) /\ last_applied \in [Replica -> Nat]
      /\ \A r \in Replica : last_applied[r] <= Len(order)
  BY DEF ServerInv, ServerType
<1>2. PICK r \in Replica : p \in {order[v] : v \in 1 .. last_applied[r]}
  BY Zenon DEF Answered
<1>3. PICK v \in 1 .. last_applied[r] : order[v] = p
  BY <1>2, Zenon
<1>4. v \in DOMAIN order /\ DOMAIN order = 1 .. Len(order)
  BY <1>1
<1>5. PutVersion(p) \in DOMAIN order /\ order[PutVersion(p)] = p
  BY <1>3, <1>4, Zenon DEF PutVersion
<1> QED BY <1>4, <1>5, Zenon DEF Answered

LEMMA OpStep ==
  ASSUME ServerInv, NEW p \in Post, handle_post_op_doc(p)
  PROVE  ServerInv'
<1> DEFINE c == [version |-> PutVersion(p), key |-> Key(p), id |-> p.id, label |-> TRUE]
<1>1. cache \in CacheState /\ Sound(cache, order) /\ order \in Seq(Post)
  BY DEF ServerInv, ServerType
<1>2. Answered(p) /\ cache' = note_committed(cache, c)
  BY DEF handle_post_op_doc
<1>3. PICK v : v = PutVersion(p)
  OBVIOUS
<1>4. v \in 1 .. Len(order) /\ order[v] = p /\ UNCHANGED <<store, stream, received>> /\ leader' \in Replica
  BY <1>2, <1>3, AnsweredVersion, Zenon
<1>5. c = [version |-> v, key |-> Key(p), id |-> p.id, label |-> TRUE]
  BY <1>3
<1>6. c \in Entry
  BY <1>1, <1>4, <1>5 DEF Entry, Id
<1>7. c.version = v /\ c.key = Key(p) /\ c.id = p.id
  BY <1>5, Zenon
<1> HIDE DEF c
<1>8. note_committed(cache, c) \in CacheState /\ Sound(note_committed(cache, c), order)
  BY <1>1, <1>4, <1>6, <1>7, NoteCommitted, Zenon
<1> QED BY <1>2, <1>4, <1>8, CacheStep, Zenon

LEMMA CursorStep ==
  ASSUME ServerInv, NEW p \in Post, handle_post_cursor_doc(p)
  PROVE  ServerInv'
<1>1. cache \in CacheState /\ Sound(cache, order) /\ order \in Seq(Post)
  BY DEF ServerInv, ServerType
<1>2. Answered(p)
  BY DEF handle_post_cursor_doc
<1>3. PICK v : v = PutVersion(p)
  OBVIOUS
<1>4. v \in 1 .. Len(order) /\ UNCHANGED <<store, stream, received>> /\ leader' \in Replica
  BY <1>2, <1>3, AnsweredVersion, Zenon
<1>5. cache' = [cache EXCEPT !.cursors[p.client] = [version |-> v, id |-> p.id],
                             !.cursor_epoch = @ + 1]
  BY <1>3 DEF handle_post_cursor_doc
<1>6. cache'.ops = cache.ops /\ cache'.text = cache.text /\ cache'.version = cache.version
  BY <1>1, <1>5, Zenon DEF CacheState
<1>7. [version |-> v, id |-> p.id] \in CursorAt /\ p.client \in Client /\ cache.cursor_epoch + 1 \in Nat
  BY <1>1, <1>4 DEF CursorAt, Id, Client, CacheState
<1>8. PICK new : new = [cache.cursors EXCEPT ![p.client] = [version |-> v, id |-> p.id]]
  OBVIOUS
<1>9. new \in [Client -> CursorAt]
  BY <1>1, <1>7, <1>8 DEF CacheState
<1>10. cache' = [cache EXCEPT !.cursors = new, !.cursor_epoch = @ + 1]
  BY <1>5, <1>8
<1>11. cache' \in CacheState
  BY <1>1, <1>7, <1>9, <1>10 DEF CacheState
<1>12. Sound(cache', order)
  BY <1>1, <1>6, Zenon DEF Sound
<1> QED BY <1>4, <1>11, <1>12, CacheStep, Zenon

LEMMA PollStep ==
  ASSUME ServerInv, poll_doc_cache
  PROVE  ServerInv'
<1>1. /\ ServerType /\ cache \in CacheState /\ Sound(cache, order) /\ leader \in Replica
      /\ last_applied \in [Replica -> Nat]
  BY DEF ServerInv, ServerType
<1>2. PICK n : n = last_applied[leader]
  OBVIOUS
<1>3. n \in Nat /\ n <= Len(order)
  BY <1>1, <1>2 DEF ServerInv
<1>4. read_ops(n) \in Seq(Entry) /\ Listed(read_ops(n), order)
  BY <1>1, <1>3, FreshListed
<1>5. PICK d : d = refresh_ops_from_db(cache, read_ops(n))
  OBVIOUS
<1>6. d \in CacheState /\ Sound(d, order)
  BY <1>1, <1>4, <1>5, RefreshOps, Zenon
<1>7. cache' = refresh_cursors_from_db(d, read_cursors(n))
  BY <1>2, <1>5 DEF poll_doc_cache
<1>8. read_cursors(n) \in [Client -> CursorAt]
  BY <1>1, <1>3, FreshCursors
<1>9. cache' \in CacheState /\ Sound(cache', order)
  BY <1>6, <1>7, <1>8, RefreshCursors, Zenon
<1>10. UNCHANGED <<store, stream, received>> /\ leader' \in Replica
  BY <1>1, Zenon DEF poll_doc_cache
<1> QED BY <1>9, <1>10, CacheStep, Zenon

\* A longer order keeps what was executed.
LEMMA ListedGrows ==
  ASSUME NEW ord \in Seq(Post), NEW p \in Post, NEW ops \in Seq(Entry), Listed(ops, ord)
  PROVE  Listed(ops, Append(ord, p))
<1>1. Len(Append(ord, p)) = Len(ord) + 1 /\ Len(ord) \in Nat
  OBVIOUS
<1>2. \A v \in 1 .. Len(ord) : Append(ord, p)[v] = ord[v] /\ v \in 1 .. Len(Append(ord, p))
  BY <1>1
<1> QED BY <1>2, Zenon DEF Listed

LEMMA ExecuteStep ==
  ASSUME ServerInv, NEW p \in Post, Execute(p)
  PROVE  ServerInv'
<1>1. /\ order \in Seq(Post) /\ cache \in CacheState /\ last_applied \in [Replica -> Nat]
      /\ Sound(cache, order) /\ \A r \in Replica : last_applied[r] <= Len(order)
  BY DEF ServerInv, ServerType
<1>2. /\ order' = Append(order, p) /\ last_applied' = last_applied /\ leader' = leader
      /\ cache' = cache /\ stream' = stream /\ received' = received
  BY Zenon DEF Execute
<1>3. order' \in Seq(Post) /\ Len(order') = Len(order) + 1 /\ Len(order) \in Nat
  BY <1>1, <1>2
<1>4. ServerType'
  BY <1>2, <1>3, Zenon DEF ServerInv, ServerType
<1>5. \A r \in Replica : last_applied'[r] <= Len(order')
  BY <1>1, <1>2, <1>3
<1>6. cache.ops \in Seq(Entry)
  BY <1>1 DEF CacheState
<1>7. Listed(cache.ops, order')
  BY <1>1, <1>2, <1>6, ListedGrows, Zenon DEF Sound
<1>8. Sound(cache, order)'
  <2>1. Listed(cache.ops, order)'
    BY <1>2, <1>7, ZenonT(30) DEF Listed
  <2> QED BY <1>1, <1>2, <2>1, ZenonT(30) DEF Sound, reconstruct, LastVersion
<1>9. Resumes' /\ StreamAscending'
  BY <1>2, Zenon DEF ServerInv, Resumes, StreamAscending
<1> QED BY <1>4, <1>5, <1>8, <1>9, Zenon DEF ServerInv

LEMMA SoundSame ==
  ASSUME cache' = cache, order' = order, Sound(cache, order)
  PROVE  Sound(cache, order)'
<1>1. Listed(cache.ops, order)'
  BY ZenonT(30) DEF Sound, Listed
<1> QED BY <1>1, ZenonT(30) DEF Sound, reconstruct, LastVersion

LEMMA ApplyStep ==
  ASSUME ServerInv, NEW r \in Replica, Apply(r)
  PROVE  ServerInv'
<1>1. /\ last_applied \in [Replica -> Nat] /\ order \in Seq(Post)
      /\ \A s \in Replica : last_applied[s] <= Len(order)
  BY DEF ServerInv, ServerType
<1>2. /\ order' = order /\ leader' = leader /\ cache' = cache /\ stream' = stream /\ received' = received
  BY Zenon DEF Apply
<1>3. last_applied[r] < Len(order) /\ last_applied' = [last_applied EXCEPT ![r] = @ + 1]
  BY DEF Apply
<1>4. last_applied' \in [Replica -> Nat]
  BY <1>1, <1>3
<1>5. \A s \in Replica : last_applied'[s] <= Len(order')
  BY <1>1, <1>2, <1>3
<1>6. ServerType'
  BY <1>2, <1>4, Zenon DEF ServerInv, ServerType
<1>7. Sound(cache, order)'
  <2>1. Sound(cache, order)
    BY DEF ServerInv
  <2> QED BY <1>2, <2>1, SoundSame, Zenon
<1>8. Resumes' /\ StreamAscending'
  BY <1>2, Zenon DEF ServerInv, Resumes, StreamAscending
<1> QED BY <1>5, <1>6, <1>7, <1>8, Zenon DEF ServerInv

\* A step of a stream changes nothing but the stream and what its browser has.
LEMMA StreamStep ==
  ASSUME ServerInv, UNCHANGED <<store, leader, cache>>,
         stream' \in [Browser -> StreamState], received' \in [Browser -> BrowserState],
         Resumes', StreamAscending'
  PROVE  ServerInv'
<1>1. /\ order' = order /\ last_applied' = last_applied /\ leader' = leader /\ cache' = cache
  BY Zenon DEF store
<1>2. ServerType'
  BY <1>1, Zenon DEF ServerInv, ServerType
<1>3. Sound(cache, order)'
  <2>1. Sound(cache, order)
    BY DEF ServerInv
  <2> QED BY <1>1, <2>1, SoundSame, Zenon
<1>4. \A r \in Replica : last_applied'[r] <= Len(order')
  BY <1>1, Zenon DEF ServerInv
<1> QED BY <1>2, <1>3, <1>4, Zenon DEF ServerInv

\* A stream moves on, and its browser gets no operation.
LEMMA QuietStep ==
  ASSUME ServerInv, UNCHANGED <<store, leader, cache>>, NEW b \in Browser,
         NEW st \in StreamState, stream' = [stream EXCEPT ![b] = st],
         received' \in [Browser -> BrowserState],
         \A a \in Browser : received'[a].ops = received[a].ops,
         st.pc # "closed" => st.last_seen = LastVersion(received[b].ops)
  PROVE  ServerInv'
<1>1. stream \in [Browser -> StreamState]
  BY DEF ServerInv, ServerType
<1>2. stream' \in [Browser -> StreamState]
  BY <1>1
<1>3. \A a \in Browser : stream'[a] = IF a = b THEN st ELSE stream[a]
  BY <1>1
<1>4. Resumes'
  <2> SUFFICES ASSUME NEW a \in Browser, stream'[a].pc # "closed"
               PROVE  stream'[a].last_seen = LastVersion(received'[a].ops)
    BY Zenon DEF Resumes, LastVersion
  <2>1. received'[a].ops = received[a].ops
    OBVIOUS
  <2>2. CASE a = b
    BY <1>3, <2>1, <2>2, Zenon
  <2>3. CASE a # b
    BY <1>3, <2>1, <2>3, Zenon DEF ServerInv, Resumes
  <2> QED BY <2>2, <2>3
<1>5. StreamAscending'
  <2> SUFFICES ASSUME NEW a \in Browser
               PROVE  \A i \in DOMAIN received'[a].ops : \A j \in 1 .. (i - 1) :
                        received'[a].ops[j].version < received'[a].ops[i].version
    <3>1. DOMAIN received' = Browser
      OBVIOUS
    <3> QED BY <3>1, Zenon DEF StreamAscending
  <2>1. received'[a].ops = received[a].ops
    OBVIOUS
  <2>2. \A i \in DOMAIN received[a].ops : \A j \in 1 .. (i - 1) :
          received[a].ops[j].version < received[a].ops[i].version
    <3>1. DOMAIN received = Browser
      BY DEF ServerInv, ServerType
    <3> QED BY <3>1, Zenon DEF ServerInv, StreamAscending
  <2> QED BY <2>1, <2>2, Zenon
<1> QED BY <1>2, <1>4, <1>5, StreamStep, Zenon

LEMMA OpenStep ==
  ASSUME ServerInv, NEW b \in Browser, OpenStream(b)
  PROVE  ServerInv'
<1>1. stream[b] \in StreamState /\ received \in [Browser -> BrowserState] /\ received[b] \in BrowserState
  BY DEF ServerInv, ServerType
<1>2. PICK seen : seen = LastVersion(received[b].ops)
  OBVIOUS
<1>3. seen \in Nat
  BY <1>1, <1>2, LastVersionIs DEF BrowserState
<1>4. PICK st : st = [stream[b] EXCEPT !.pc = "scan", !.last_seen = seen,
                                       !.last_cursor_epoch = 0, !.ops_snap = <<>>]
  OBVIOUS
<1>5. st.last_seen = seen
  BY <1>1, <1>4, Zenon DEF StreamState
<1>6. st \in StreamState
  <2>1. <<>> \in Seq(Entry) /\ 0 \in Nat
    OBVIOUS
  <2> QED BY <1>1, <1>3, <1>4, <2>1 DEF StreamState
<1>7. /\ stream' = [stream EXCEPT ![b] = st] /\ received' = received
      /\ UNCHANGED <<store, leader, cache>>
  BY <1>2, <1>4, Zenon DEF OpenStream, ResumeFrom
<1>8. \A a \in Browser : received'[a].ops = received[a].ops
  BY <1>7, Zenon
<1>9. received' \in [Browser -> BrowserState]
  BY <1>1, <1>7, Zenon
<1> QED BY <1>2, <1>5, <1>6, <1>7, <1>8, <1>9, QuietStep, Zenon

LEMMA ScanStep ==
  ASSUME ServerInv, NEW b \in Browser, StreamScan(b)
  PROVE  ServerInv'
<1>1. /\ stream[b] \in StreamState /\ received \in [Browser -> BrowserState] /\ cache.ops \in Seq(Entry)
  BY DEF ServerInv, ServerType, CacheState
<1>2. PICK st : st = [stream[b] EXCEPT !.pc = "send", !.ops_snap = cache.ops]
  OBVIOUS
<1>3. st.last_seen = stream[b].last_seen
  BY <1>1, <1>2, Zenon DEF StreamState
<1>4. st \in StreamState
  BY <1>1, <1>2 DEF StreamState
<1>5. /\ stream' = [stream EXCEPT ![b] = st] /\ received' = received
      /\ UNCHANGED <<store, leader, cache>>
  BY <1>2, Zenon DEF StreamScan
<1>6. stream[b].pc # "closed"
  BY DEF StreamScan
<1>7. st.last_seen = LastVersion(received[b].ops)
  BY <1>3, <1>6, Zenon DEF ServerInv, Resumes
<1>8. \A a \in Browser : received'[a].ops = received[a].ops
  BY <1>5, Zenon
<1>9. received' \in [Browser -> BrowserState]
  BY <1>1, <1>5, Zenon
<1> QED BY <1>4, <1>5, <1>7, <1>8, <1>9, QuietStep, Zenon

LEMMA CursorsStep ==
  ASSUME ServerInv, NEW b \in Browser, StreamCursors(b)
  PROVE  ServerInv'
<1>1. /\ stream \in [Browser -> StreamState] /\ stream[b] \in StreamState
      /\ received \in [Browser -> BrowserState] /\ cache \in CacheState
  BY DEF ServerInv, ServerType
<1>2. PICK st : st = [stream[b] EXCEPT !.pc = "scan", !.last_cursor_epoch = cache.cursor_epoch]
  OBVIOUS
<1>3. st.last_seen = stream[b].last_seen
  BY <1>1, <1>2, Zenon DEF StreamState
<1>4. st \in StreamState
  BY <1>1, <1>2 DEF StreamState, CacheState
<1>5. stream' = [stream EXCEPT ![b] = st]
  BY <1>1, <1>2 DEF StreamCursors
<1>6. stream[b].pc # "closed" /\ UNCHANGED <<store, leader, cache>>
  BY DEF StreamCursors
<1>7. st.last_seen = LastVersion(received[b].ops)
  BY <1>3, <1>6, Zenon DEF ServerInv, Resumes
<1> DEFINE new == [c \in Client |-> IF cache.cursors[c] = NoCursor THEN received[b].cursors[c]
                                    ELSE cache.cursors[c]]
<1>8. received' = received \/ received' = [received EXCEPT ![b].cursors = new]
  BY Zenon DEF StreamCursors
<1>9. new \in [Client -> CursorAt]
  BY <1>1 DEF BrowserState, CacheState
<1> HIDE DEF new
<1>10. PICK got : got = [received[b] EXCEPT !.cursors = new]
  OBVIOUS
<1>11. received[b] \in BrowserState
  BY <1>1
<1>12. got \in BrowserState
  BY <1>9, <1>10, <1>11 DEF BrowserState
<1>13. got.ops = received[b].ops
  BY <1>10, <1>11, Zenon DEF BrowserState
<1>14. received' = received \/ received' = [received EXCEPT ![b] = got]
  BY <1>1, <1>8, <1>10
<1>15. /\ received' \in [Browser -> BrowserState]
       /\ \A a \in Browser : received'[a].ops = received[a].ops
  BY <1>1, <1>12, <1>13, <1>14
<1> QED BY <1>4, <1>5, <1>6, <1>7, <1>15, QuietStep, Zenon

LEMMA BreakStep ==
  ASSUME ServerInv, NEW b \in Browser, StreamBreak(b)
  PROVE  ServerInv'
<1>1. /\ stream \in [Browser -> StreamState] /\ stream[b] \in StreamState
      /\ received \in [Browser -> BrowserState]
  BY DEF ServerInv, ServerType
<1>2. PICK st : st = [stream[b] EXCEPT !.pc = "closed", !.drops = stream[b].drops + 1]
  OBVIOUS
<1>3. st.pc = "closed"
  BY <1>1, <1>2, Zenon DEF StreamState
<1>4. st \in StreamState
  <2>1. stream[b].drops + 1 \in Nat
    BY <1>1 DEF StreamState
  <2> QED BY <1>1, <1>2, <2>1 DEF StreamState
<1>5. /\ stream' = [stream EXCEPT ![b] = st] /\ received' = received
      /\ UNCHANGED <<store, leader, cache>>
  <2>1. stream' = [stream EXCEPT ![b].pc = "closed", ![b].drops = stream[b].drops + 1]
    BY DEF StreamBreak
  <2>2. received' = received /\ UNCHANGED <<store, leader, cache>>
    BY DEF StreamBreak
  <2> QED BY <1>1, <1>2, <2>1, <2>2
<1>6. \A a \in Browser : received'[a].ops = received[a].ops
  BY <1>5, Zenon
<1>7. received' \in [Browser -> BrowserState]
  BY <1>1, <1>5, Zenon
<1> QED BY <1>3, <1>4, <1>5, <1>6, <1>7, QuietStep, Zenon

\* A frame that is sent is newer than all that the browser has.
LEMMA AscendingAppend ==
  ASSUME NEW ops \in Seq(Entry), NEW c \in Entry, c.version > LastVersion(ops),
         \A i \in DOMAIN ops : \A j \in 1 .. (i - 1) : ops[j].version < ops[i].version
  PROVE  /\ Append(ops, c) \in Seq(Entry) /\ LastVersion(Append(ops, c)) = c.version
         /\ \A i \in DOMAIN Append(ops, c) : \A j \in 1 .. (i - 1) :
              Append(ops, c)[j].version < Append(ops, c)[i].version
<1> DEFINE k == Len(ops)
           new == Append(ops, c)
<1>1. k \in Nat /\ DOMAIN ops = 1 .. k
  OBVIOUS
<1>2. /\ new \in Seq(Entry) /\ Len(new) = k + 1 /\ DOMAIN new = 1 .. k + 1
      /\ new[k + 1] = c /\ \A i \in 1 .. k : new[i] = ops[i]
  OBVIOUS
<1> HIDE DEF new
<1>3. LastVersion(new) = c.version
  <2>1. k + 1 # 0
    BY <1>1
  <2> QED BY <1>2, <2>1, LastVersionIs, Zenon
<1>4. \A i \in 1 .. k : ops[i].version \in Nat
  BY EntryFields
<1>5. c.version \in Nat
  BY DEF Entry
<1>6. \A i \in 1 .. k : ops[i].version < c.version
  <2> TAKE i \in 1 .. k
  <2>1. k \in 1 .. k /\ k # 0 /\ k \in DOMAIN ops
    BY <1>1
  <2>2. LastVersion(ops) = ops[k].version
    BY <2>1, LastVersionIs
  <2>3. i = k \/ i \in 1 .. (k - 1)
    <3> HIDE DEF k
    <3> QED BY <1>1
  <2>4. ops[i].version = ops[k].version \/ ops[i].version < ops[k].version
    <3>1. CASE i = k
      BY <3>1, Zenon
    <3>2. CASE i \in 1 .. (k - 1)
      BY <2>1, <3>2, Zenon
    <3> QED BY <2>3, <3>1, <3>2
  <2>5. ops[i].version \in Nat /\ ops[k].version \in Nat
    BY <1>4, <2>1
  <2> QED BY <1>5, <2>2, <2>4, <2>5
<1>7. \A i \in 1 .. k + 1 : \A j \in 1 .. (i - 1) : new[j].version < new[i].version
  <2> TAKE i \in 1 .. k + 1
  <2> TAKE j \in 1 .. (i - 1)
  <2>1. j \in 1 .. k /\ new[j] = ops[j]
    BY <1>1, <1>2
  <2>2. CASE i = k + 1
    BY <1>2, <1>6, <2>1, <2>2, Zenon
  <2>3. CASE i \in 1 .. k
    <3>1. i \in DOMAIN ops /\ new[i] = ops[i]
      BY <1>1, <1>2, <2>3, Zenon
    <3>2. ops[j].version < ops[i].version
      BY <3>1
    <3> QED BY <2>1, <3>1, <3>2, Zenon
  <2>4. i = k + 1 \/ i \in 1 .. k
    <3> HIDE DEF k
    <3> QED BY <1>1
  <2> QED BY <2>2, <2>3, <2>4, Zenon
<1> QED BY <1>2, <1>3, <1>7, Zenon DEF new

LEMMA FrameStep ==
  ASSUME ServerInv, NEW b \in Browser, StreamOp(b)
  PROVE  ServerInv'
<1>1. /\ stream \in [Browser -> StreamState] /\ stream[b] \in StreamState
      /\ received \in [Browser -> BrowserState] /\ received[b] \in BrowserState
  BY DEF ServerInv, ServerType
<1>2. stream[b].ops_snap \in Seq(Entry) /\ received[b].ops \in Seq(Entry) /\ stream[b].last_seen \in Nat
  BY <1>1 DEF StreamState, BrowserState
<1>3. /\ stream[b].pc # "closed" /\ stream[b].ops_snap # <<>> /\ UNCHANGED <<store, leader, cache>>
  BY DEF StreamOp
<1>4. stream[b].last_seen = LastVersion(received[b].ops)
  BY <1>3, Zenon DEF ServerInv, Resumes
<1>5. PICK c : c = Head(stream[b].ops_snap)
  OBVIOUS
<1>6. c \in Entry /\ Tail(stream[b].ops_snap) \in Seq(Entry)
  BY <1>2, <1>3, <1>5
<1>7. c.version \in Nat
  BY <1>6 DEF Entry
<1>8. CASE c.version <= stream[b].last_seen
  <2>1. PICK st : st = [stream[b] EXCEPT !.ops_snap = Tail(@)]
    OBVIOUS
  <2>2. stream' = [stream EXCEPT ![b] = st] /\ received' = received
    BY <1>1, <1>5, <1>8, <2>1 DEF StreamOp
  <2>3. st.last_seen = stream[b].last_seen
    BY <1>1, <2>1, Zenon DEF StreamState
  <2>4. st \in StreamState
    BY <1>1, <1>6, <2>1 DEF StreamState
  <2>5. received' \in [Browser -> BrowserState] /\ \A a \in Browser : received'[a].ops = received[a].ops
    BY <1>1, <2>2, Zenon
  <2> QED BY <1>3, <1>4, <2>2, <2>3, <2>4, <2>5, QuietStep, Zenon
<1>9. CASE ~(c.version <= stream[b].last_seen)
  <2>1. PICK st : st = [stream[b] EXCEPT !.ops_snap = Tail(@), !.last_seen = c.version]
    OBVIOUS
  <2>2. PICK got : got = [received[b] EXCEPT !.ops = Append(@, c)]
    OBVIOUS
  <2>3. stream' = [stream EXCEPT ![b] = st] /\ received' = [received EXCEPT ![b] = got]
    BY <1>1, <1>5, <1>9, <2>1, <2>2 DEF StreamOp
  <2>4. st.last_seen = c.version
    BY <1>1, <2>1, Zenon DEF StreamState
  <2>5. st \in StreamState
    BY <1>1, <1>6, <1>7, <2>1 DEF StreamState
  <2>6. got.ops = Append(received[b].ops, c)
    BY <1>1, <2>2, Zenon DEF BrowserState
  <2>7. c.version > LastVersion(received[b].ops)
    BY <1>2, <1>4, <1>7, <1>9
  <2>8. \A a \in Browser : \A i \in DOMAIN received[a].ops : \A j \in 1 .. (i - 1) :
          received[a].ops[j].version < received[a].ops[i].version
    <3>1. DOMAIN received = Browser
      BY <1>1
    <3> QED BY <3>1, Zenon DEF ServerInv, StreamAscending
  <2>9. /\ got.ops \in Seq(Entry) /\ LastVersion(got.ops) = c.version
        /\ \A i \in DOMAIN got.ops : \A j \in 1 .. (i - 1) : got.ops[j].version < got.ops[i].version
    <3>1. \A i \in DOMAIN received[b].ops : \A j \in 1 .. (i - 1) :
            received[b].ops[j].version < received[b].ops[i].version
      BY <2>8
    <3>2. PICK ops : ops = received[b].ops
      OBVIOUS
    <3>3. /\ Append(ops, c) \in Seq(Entry) /\ LastVersion(Append(ops, c)) = c.version
          /\ \A i \in DOMAIN Append(ops, c) : \A j \in 1 .. (i - 1) :
               Append(ops, c)[j].version < Append(ops, c)[i].version
      BY <1>2, <1>6, <2>7, <3>1, <3>2, AscendingAppend, Zenon
    <3> QED BY <2>6, <3>2, <3>3, Zenon
  <2>10. got \in BrowserState
    <3>1. Append(received[b].ops, c) \in Seq(Entry)
      BY <2>6, <2>9, Zenon
    <3> QED BY <1>1, <2>2, <3>1 DEF BrowserState
  <2>11. /\ stream' \in [Browser -> StreamState] /\ received' \in [Browser -> BrowserState]
         /\ stream'[b] = st /\ received'[b] = got
         /\ \A a \in Browser \ {b} : stream'[a] = stream[a] /\ received'[a] = received[a]
    BY <1>1, <2>3, <2>5, <2>10
  <2>12. Resumes'
    <3> SUFFICES ASSUME NEW a \in Browser, stream'[a].pc # "closed"
                 PROVE  stream'[a].last_seen = LastVersion(received'[a].ops)
      BY Zenon DEF Resumes, LastVersion
    <3>1. CASE a = b
      BY <2>4, <2>9, <2>11, <3>1, Zenon
    <3>2. CASE a # b
      BY <2>11, <3>2, Zenon DEF ServerInv, Resumes
    <3> QED BY <3>1, <3>2
  <2>13. StreamAscending'
    <3> SUFFICES ASSUME NEW a \in Browser
                 PROVE  \A i \in DOMAIN received'[a].ops : \A j \in 1 .. (i - 1) :
                          received'[a].ops[j].version < received'[a].ops[i].version
      <4>1. DOMAIN received' = Browser
        BY <1>1, <2>3
      <4> QED BY <4>1, Zenon DEF StreamAscending
    <3>1. CASE a = b
      BY <2>9, <2>11, <3>1, Zenon
    <3>2. CASE a # b
      <4>1. received'[a] = received[a]
        BY <2>11, <3>2, Zenon
      <4> QED BY <2>8, <4>1, Zenon
    <3> QED BY <3>1, <3>2
  <2> QED BY <1>3, <2>11, <2>12, <2>13, StreamStep, Zenon
<1> QED BY <1>8, <1>9

-----------------------------------------------------------------------------
(* The theorems.                                                            *)

LEMMA ServerStart ==
  ASSUME Init
  PROVE  ServerInv
<1>1. <<>> \in Seq(Entry) /\ <<>> \in Seq(Id) /\ <<>> \in Seq(Post) /\ 0 \in Nat /\ Len(<<>>) = 0
  OBVIOUS
<1>2. NoCursor \in CursorAt
  BY DEF NoCursor, CursorAt
<1>3. PICK start : start = [c \in Client |-> NoCursor]
  OBVIOUS
<1>4. start \in [Client -> CursorAt]
  BY <1>2, <1>3
<1>5. /\ cache = [ops |-> <<>>, text |-> <<>>, version |-> 0, cursors |-> start, cursor_epoch |-> 0]
      /\ stream = [b \in Browser |-> [pc |-> "closed", drops |-> 0, last_seen |-> 0,
                                      last_cursor_epoch |-> 0, ops_snap |-> <<>>]]
      /\ received = [b \in Browser |-> [ops |-> <<>>, cursors |-> start]]
      /\ order = <<>> /\ last_applied = [r \in Replica |-> 0] /\ leader \in Replica
  BY <1>3, Zenon DEF Init
<1>6. cache \in CacheState
  BY <1>1, <1>4, <1>5 DEF CacheState
<1>7. stream \in [Browser -> StreamState]
  BY <1>1, <1>5 DEF StreamState
<1>8. received \in [Browser -> BrowserState]
  BY <1>1, <1>4, <1>5 DEF BrowserState
<1>9. ServerType
  BY <1>1, <1>5, <1>6, <1>7, <1>8 DEF ServerType
<1>10. \A r \in Replica : last_applied[r] <= Len(order)
  BY <1>1, <1>5
<1>11. Sound(cache, order)
  <2>1. reconstruct(<<>>) = <<>> /\ LastVersion(<<>>) = 0
    BY DEF reconstruct, LastVersion
  <2>2. Listed(<<>>, <<>>)
    BY DEF Listed
  <2>3. cache.ops = <<>> /\ cache.text = <<>> /\ cache.version = 0
    BY <1>5, Zenon
  <2> QED BY <1>5, <2>1, <2>2, <2>3, Zenon DEF Sound
<1>12. Resumes
  BY <1>5 DEF Resumes
<1>13. StreamAscending
  <2>1. \A b \in DOMAIN received : received[b].ops = <<>>
    BY <1>5
  <2>2. DOMAIN <<>> = {}
    OBVIOUS
  <2> QED BY <2>1, <2>2, Zenon DEF StreamAscending
<1> QED BY <1>9, <1>10, <1>11, <1>12, <1>13, Zenon DEF ServerInv

\* Every step keeps the invariant.
LEMMA ServerKeeps ==
  ASSUME ServerInv, [Next]_vars
  PROVE  ServerInv'
<1>1. ASSUME NEW p \in Post, GatewayTimeout(p)
      PROVE  ServerInv'
  <2>1. /\ cache' = cache /\ leader' \in Replica /\ UNCHANGED <<store, stream, received>>
        /\ cache \in CacheState /\ Sound(cache, order)
    BY <1>1, Zenon DEF GatewayTimeout, ServerInv, ServerType
  <2>2. cache' \in CacheState /\ Sound(cache', order)
    BY <2>1, Zenon
  <2> QED BY <2>1, <2>2, CacheStep, Zenon
<1>2. CASE \E p \in Post : PostBegin(p) \/ handle_post_op_doc(p) \/ handle_post_cursor_doc(p)
                           \/ GatewayTimeout(p) \/ Execute(p)
  BY <1>1, <1>2, BeginStep, OpStep, CursorStep, ExecuteStep, Zenon
<1>3. CASE \E r \in Replica : Apply(r)
  BY <1>3, ApplyStep, Zenon
<1>4. CASE poll_doc_cache
  BY <1>4, PollStep, Zenon
<1>5. CASE \E b \in Browser : handle_stream_doc(b) \/ StreamBreak(b)
  BY <1>5, OpenStep, ScanStep, FrameStep, CursorsStep, BreakStep, Zenon DEF handle_stream_doc
<1>6. CASE UNCHANGED vars
  <2>1. /\ cache' = cache /\ leader' \in Replica /\ UNCHANGED <<store, stream, received>>
        /\ cache \in CacheState /\ Sound(cache, order)
    BY <1>6, Zenon DEF vars, store, ServerInv, ServerType
  <2>2. cache' \in CacheState /\ Sound(cache', order)
    BY <2>1, Zenon
  <2> QED BY <2>1, <2>2, CacheStep, Zenon
<1> QED BY <1>2, <1>3, <1>4, <1>5, <1>6, Zenon DEF Next

LEMMA ServerAlways == Spec => []ServerInv
<1>1. Init => ServerInv
  BY ServerStart
<1>2. ServerInv /\ [Next]_vars => ServerInv'
  BY ServerKeeps
<1> QED BY <1>1, <1>2, PTL DEF Spec

(***************************************************************************)
(* However answers, polls of replicas that lag, puts that were given up    *)
(* and executed later, and resets come in, the cache of a document holds   *)
(* executed puts only, each once and under its own version, in the order   *)
(* of the versions, with the text that they make and the version of the    *)
(* last.                                                                   *)
(***************************************************************************)
THEOREM CacheIsSound == Spec => []CacheSound
<1>1. ServerInv => CacheSound
  BY SoundCache
<1> QED BY <1>1, ServerAlways, PTL

(***************************************************************************)
(* A browser gets operations in ascending versions only, over as many      *)
(* broken streams as there may be and while the cache is rebuilt beneath   *)
(* the copy that a stream sends from.                                      *)
(***************************************************************************)
THEOREM StreamsAscend == Spec => []StreamAscending
<1>1. ServerInv => StreamAscending
  BY DEF ServerInv
<1> QED BY <1>1, ServerAlways, PTL

-----------------------------------------------------------------------------
(* A connection: the bytes of a request.                                    *)

Item == Byte \cup {"line", "CR", "LF", "length"}

LEMMA Joined ==
  ASSUME NEW S, NEW s \in Seq(S), NEW t \in Seq(S)
  PROVE  /\ s \o t \in Seq(S) /\ Len(s \o t) = Len(s) + Len(t)
         /\ \A i \in 1 .. Len(s) : (s \o t)[i] = s[i]
         /\ \A i \in 1 .. Len(t) : (s \o t)[Len(s) + i] = t[i]
  OBVIOUS

\* The bytes of a request, and of its head.
LEMMA HeadShape ==
  ASSUME NEW r \in Request
  PROVE  /\ HeadBytes(r) \in Seq(Item) /\ Bytes(r) \in Seq(Item)
         /\ r.body \in Seq(Item) /\ Len(r.body) \in Nat /\ r.length = Len(r.body)
         /\ Len(Bytes(r)) = Len(HeadBytes(r)) + Len(r.body)
         /\ Len(HeadBytes(r)) = IF r.length = 0 THEN 5 ELSE 8
         /\ \A i \in 1 .. Len(HeadBytes(r)) : Bytes(r)[i] = HeadBytes(r)[i]
         /\ \A i \in 1 .. Len(r.body) : Bytes(r)[Len(HeadBytes(r)) + i] = r.body[i]
<1>1. r.body \in Seq(Item) /\ r.length = Len(r.body) /\ Len(r.body) \in Nat
  <2>1. r.body \in Seq(Byte) /\ r.length = Len(r.body)
    BY RequestAssumption
  <2>2. Byte \subseteq Item
    BY DEF Item
  <2> QED BY <2>1, <2>2
<1>2. HeadBytes(r) \in Seq(Item) /\ Len(HeadBytes(r)) = IF r.length = 0 THEN 5 ELSE 8
  <2>1. CASE r.length = 0
    <3>1. HeadBytes(r) = <<"line", "CR", "LF", "CR", "LF">>
      BY <2>1 DEF HeadBytes, NoLength
    <3>2. <<"line", "CR", "LF", "CR", "LF">> \in Seq(Item)
      BY DEF Item
    <3> QED BY <2>1, <3>1, <3>2
  <2>2. CASE r.length # 0
    <3>1. HeadBytes(r) = <<"line", "CR", "LF", "length", "CR", "LF", "CR", "LF">>
      BY <2>2 DEF HeadBytes, NoLength
    <3>2. <<"line", "CR", "LF", "length", "CR", "LF", "CR", "LF">> \in Seq(Item)
      BY DEF Item
    <3> QED BY <2>2, <3>1, <3>2
  <2> QED BY <2>1, <2>2
<1>3. /\ Bytes(r) \in Seq(Item) /\ Len(Bytes(r)) = Len(HeadBytes(r)) + Len(r.body)
      /\ \A i \in 1 .. Len(HeadBytes(r)) : Bytes(r)[i] = HeadBytes(r)[i]
      /\ \A i \in 1 .. Len(r.body) : Bytes(r)[Len(HeadBytes(r)) + i] = r.body[i]
  <2> DEFINE h == HeadBytes(r)
             b == r.body
  <2>1. h \in Seq(Item) /\ b \in Seq(Item) /\ Bytes(r) = h \o b
    BY <1>1, <1>2 DEF Bytes
  <2> HIDE DEF h, b
  <2>2. /\ Bytes(r) \in Seq(Item) /\ Len(Bytes(r)) = Len(h) + Len(b)
        /\ \A i \in 1 .. Len(h) : Bytes(r)[i] = h[i]
        /\ \A i \in 1 .. Len(b) : Bytes(r)[Len(h) + i] = b[i]
    BY <2>1, Joined
  <2> QED BY <2>2 DEF h, b
<1> QED BY <1>1, <1>2, <1>3

\* The first blank line of what was read, if there is one, is the end of the head.
LEMMA HeadEndsOnce ==
  ASSUME NEW r \in Request, NEW n \in Nat, NEW s \in Seq(Item), Len(s) = n, n <= Len(Bytes(r)),
         \A i \in 1 .. n : s[i] = Bytes(r)[i]
  PROVE  /\ \A i \in HeadEnds(s) : Len(HeadBytes(r)) <= i
         /\ HeadEnds(s) # {} => n >= Len(HeadBytes(r)) /\ Len(HeadBytes(r)) \in HeadEnds(s)
<1> DEFINE B == Bytes(r)
           h == Len(HeadBytes(r))
<1>1. \A i \in HeadEnds(s) :
        /\ i \in 4 .. n /\ B[i] = "LF" /\ B[i - 1] = "CR" /\ B[i - 2] = "LF" /\ B[i - 3] = "CR"
  <2> SUFFICES ASSUME NEW i \in 4 .. n, s[i] = "LF", s[i - 1] = "CR", s[i - 2] = "LF", s[i - 3] = "CR"
               PROVE  B[i] = "LF" /\ B[i - 1] = "CR" /\ B[i - 2] = "LF" /\ B[i - 3] = "CR"
    BY DEF HeadEnds
  <2>1. i \in 1 .. n /\ i - 1 \in 1 .. n /\ i - 2 \in 1 .. n /\ i - 3 \in 1 .. n
    OBVIOUS
  <2> QED BY <2>1
<1>2. CASE r.length = 0
  <2>1. h = 5 /\ B[1] = "line" /\ B[2] = "CR" /\ B[3] = "LF" /\ B[4] = "CR" /\ B[5] = "LF"
    <3>1. h = 5 /\ HeadBytes(r) = <<"line", "CR", "LF", "CR", "LF">> /\ \A i \in 1 .. 5 : B[i] = HeadBytes(r)[i]
      BY <1>2, HeadShape DEF HeadBytes, NoLength
    <3> QED BY <3>1
  <2> HIDE DEF B, h
  <2>2. \A i \in HeadEnds(s) : i \in 5 .. n
    <3> SUFFICES ASSUME NEW i \in HeadEnds(s), i = 4 PROVE FALSE
      BY <1>1
    <3>1. B[4 - 3] = "CR"
      BY <1>1
    <3> QED BY <2>1, <3>1
  <2>3. n >= 5 => 5 \in HeadEnds(s)
    <3> HAVE n >= 5
    <3>1. \A i \in {2, 3, 4, 5} : s[i] = B[i]
      BY DEF B
    <3> QED BY <2>1, <3>1 DEF HeadEnds
  <2>4. HeadEnds(s) # {} => n >= 5
    BY <2>2
  <2> QED BY <2>1, <2>2, <2>3, <2>4 DEF h
<1>3. CASE r.length # 0
  <2>1. /\ h = 8 /\ B[1] = "line" /\ B[2] = "CR" /\ B[3] = "LF" /\ B[4] = "length"
        /\ B[5] = "CR" /\ B[6] = "LF" /\ B[7] = "CR" /\ B[8] = "LF"
    <3>1. /\ h = 8 /\ HeadBytes(r) = <<"line", "CR", "LF", "length", "CR", "LF", "CR", "LF">>
          /\ \A i \in 1 .. 8 : B[i] = HeadBytes(r)[i]
      BY <1>3, HeadShape DEF HeadBytes, NoLength
    <3> QED BY <3>1
  <2> HIDE DEF B, h
  <2>2. \A i \in HeadEnds(s) : i \in 8 .. n
    <3> SUFFICES ASSUME NEW i \in HeadEnds(s), i \in {4, 5, 6, 7} PROVE FALSE
      BY <1>1
    <3>1. B[i - 1] = "CR" /\ B[i - 2] = "LF" /\ B[i - 3] = "CR"
      BY <1>1
    <3>2. CASE i = 4
      BY <2>1, <3>1, <3>2
    <3>3. CASE i = 5
      BY <2>1, <3>1, <3>3
    <3>4. CASE i = 6
      BY <2>1, <3>1, <3>4
    <3>5. CASE i = 7
      BY <2>1, <3>1, <3>5
    <3> QED BY <3>2, <3>3, <3>4, <3>5
  <2>3. n >= 8 => 8 \in HeadEnds(s)
    <3> HAVE n >= 8
    <3>1. \A i \in {5, 6, 7, 8} : s[i] = B[i]
      BY DEF B
    <3> QED BY <2>1, <3>1 DEF HeadEnds
  <2>4. HeadEnds(s) # {} => n >= 8
    BY <2>2
  <2> QED BY <2>1, <2>2, <2>3, <2>4 DEF h
<1> QED BY <1>2, <1>3

\* So BodyOffset finds that, and Want the length of the body.
LEMMA HeadParsed ==
  ASSUME req \in Request, NEW n \in Nat, NEW s \in Seq(Item), Len(s) = n, n <= Len(Bytes(req)),
         \A i \in 1 .. n : s[i] = Bytes(req)[i], HeadEnds(s) # {}
  PROVE  BodyOffset(s) = Len(HeadBytes(req)) /\ n >= Len(HeadBytes(req)) /\ Want(s) = Len(req.body)
<1> DEFINE h == Len(HeadBytes(req))
<1>0. h \in Nat
  BY HeadShape
<1>1. /\ \A i \in HeadEnds(s) : h <= i
      /\ n >= h /\ h \in HeadEnds(s)
  BY HeadEndsOnce
<1>2. \A i \in HeadEnds(s) : i \in Nat
  BY DEF HeadEnds
<1> HIDE DEF h
<1>3. \A i \in HeadEnds(s) : (\A j \in HeadEnds(s) : i <= j) => i = h
  BY <1>0, <1>1, <1>2
<1>4. BodyOffset(s) = h
  BY <1>1, <1>3, Zenon DEF BodyOffset
<1>5. ASSUME req.length = 0 PROVE Want(s) = req.length
  BY <1>5 DEF Want
<1>6. ASSUME req.length # 0 PROVE Want(s) = req.length
  <2>1. h = 8 /\ HeadBytes(req) = <<"line", "CR", "LF", "length", "CR", "LF", "CR", "LF">>
    BY <1>6, HeadShape DEF h, HeadBytes, NoLength
  <2>2. Bytes(req)[4] = "length"
    <3>1. 4 \in 1 .. Len(HeadBytes(req))
      BY <2>1
    <3>2. Bytes(req)[4] = HeadBytes(req)[4]
      BY <3>1, HeadShape
    <3> QED BY <2>1, <3>2
  <2>3. 4 \in 1 .. h /\ s[4] = "length"
    BY <1>1, <2>1, <2>2
  <2> QED BY <1>4, <2>3, Zenon DEF Want
<1>7. Want(s) = Len(req.body)
  BY <1>5, <1>6, HeadShape
<1> QED BY <1>1, <1>4, <1>7 DEF h

-----------------------------------------------------------------------------
(* The inductive invariant of a connection.                                 *)

\* The bytes of the request from its a-th to its b-th.
Part(a, b) == SubSeq(Bytes(req), a, b)

ConnType ==
  /\ req \in Request /\ limit \in Nat /\ limit <= Len(Bytes(req))
  /\ taken \in Nat /\ taken <= limit

\* What was read is the beginning of the request, and after the head the body has
\* all of it that follows the head.
ReadSoFar ==
  /\ pc = "head" => handler = "none" /\ buf = Part(1, taken)
  /\ pc = "body" =>
       /\ handler = "none"
       /\ \E n \in Nat : n <= taken /\ buf = Part(1, n) /\ HeadEnds(buf) # {}
       /\ Len(HeadBytes(req)) <= taken
       /\ body = Part(Len(HeadBytes(req)) + 1, taken)

ConnInv == ConnType /\ ReadSoFar /\ DispatchExact

\* Parts of a sequence.
LEMMA PartShape ==
  ASSUME NEW S, NEW s \in Seq(S), NEW a \in Nat, NEW b \in Nat, a <= b, b <= Len(s)
  PROVE  /\ SubSeq(s, a + 1, b) \in Seq(S) /\ Len(SubSeq(s, a + 1, b)) = b - a
         /\ \A i \in 1 .. b - a : SubSeq(s, a + 1, b)[i] = s[a + i]
  OBVIOUS

LEMMA PartsJoin ==
  ASSUME NEW S, NEW s \in Seq(S), NEW a \in Nat, NEW b \in Nat, NEW c \in Nat, a <= b, b <= c, c <= Len(s)
  PROVE  SubSeq(s, a + 1, b) \o SubSeq(s, b + 1, c) = SubSeq(s, a + 1, c)
<1> DEFINE x == SubSeq(s, a + 1, b)
           y == SubSeq(s, b + 1, c)
           z == SubSeq(s, a + 1, c)
<1>1. x \in Seq(S) /\ Len(x) = b - a /\ \A i \in 1 .. b - a : x[i] = s[a + i]
  BY PartShape
<1>2. y \in Seq(S) /\ Len(y) = c - b /\ \A i \in 1 .. c - b : y[i] = s[b + i]
  BY PartShape
<1>3. z \in Seq(S) /\ Len(z) = c - a /\ \A i \in 1 .. c - a : z[i] = s[a + i]
  BY PartShape
<1> HIDE DEF x, y, z
<1> DEFINE t == x \o y
<1>4. /\ t \in Seq(S) /\ Len(t) = Len(x) + Len(y)
      /\ \A i \in 1 .. Len(x) : t[i] = x[i]
      /\ \A i \in 1 .. Len(y) : t[Len(x) + i] = y[i]
  <2>1. x \in Seq(S) /\ y \in Seq(S)
    BY <1>1, <1>2
  <2> QED BY <2>1, Joined
<1> HIDE DEF t
<1>5. Len(t) = Len(z)
  BY <1>1, <1>2, <1>3, <1>4
<1>6. \A i \in 1 .. Len(z) : t[i] = z[i]
  <2> TAKE i \in 1 .. Len(z)
  <2>1. CASE i <= b - a
    <3>1. i \in 1 .. Len(x) /\ i \in 1 .. b - a /\ i \in 1 .. c - a
      BY <1>1, <1>3, <2>1
    <3>2. t[i] = x[i] /\ x[i] = s[a + i] /\ z[i] = s[a + i]
      BY <1>1, <1>3, <1>4, <3>1
    <3> QED BY <3>2
  <2>2. CASE i > b - a
    <3> DEFINE j == i - (b - a)
    <3>1. j \in 1 .. Len(y) /\ j \in 1 .. c - b /\ i \in 1 .. c - a /\ i = Len(x) + j /\ b + j = a + i
      BY <1>1, <1>2, <1>3, <2>2
    <3> HIDE DEF j
    <3>2. t[Len(x) + j] = y[j] /\ y[j] = s[b + j] /\ z[i] = s[a + i]
      BY <1>2, <1>3, <1>4, <3>1
    <3> QED BY <3>1, <3>2
  <2> QED BY <1>1, <1>3, <2>1, <2>2
<1>7. t = z
  BY <1>3, <1>4, <1>5, <1>6
<1> QED BY <1>7 DEF t, x, y, z

\* What was read up to n, as a sequence.
LEMMA Prefix ==
  ASSUME req \in Request, NEW n \in Nat, n <= Len(Bytes(req))
  PROVE  /\ Part(1, n) \in Seq(Item) /\ Len(Part(1, n)) = n
         /\ \A i \in 1 .. n : Part(1, n)[i] = Bytes(req)[i]
<1> DEFINE B == Bytes(req)
<1>1. B \in Seq(Item) /\ n <= Len(B)
  BY HeadShape
<1> HIDE DEF B
<1>2. /\ SubSeq(B, 0 + 1, n) \in Seq(Item) /\ Len(SubSeq(B, 0 + 1, n)) = n - 0
      /\ \A i \in 1 .. n - 0 : SubSeq(B, 0 + 1, n)[i] = B[0 + i]
  BY <1>1, PartShape
<1>3. /\ SubSeq(B, 1, n) \in Seq(Item) /\ Len(SubSeq(B, 1, n)) = n
      /\ \A i \in 1 .. n : SubSeq(B, 1, n)[i] = B[i]
  BY <1>1, <1>2
<1> QED BY <1>3 DEF B, Part

\* A head that is complete has its end where the body begins.
LEMMA HeadRead ==
  ASSUME req \in Request, NEW n \in Nat, n <= Len(Bytes(req)), buf = Part(1, n), HeadEnds(buf) # {}
  PROVE  /\ BodyOffset(buf) = Len(HeadBytes(req)) /\ n >= Len(HeadBytes(req))
         /\ Want(buf) = Len(req.body)
         /\ SubSeq(buf, BodyOffset(buf) + 1, Len(buf)) = Part(Len(HeadBytes(req)) + 1, n)
<1> DEFINE h == Len(HeadBytes(req))
           B == Bytes(req)
<1>1. /\ buf \in Seq(Item) /\ Len(buf) = n /\ \A i \in 1 .. n : buf[i] = B[i]
  BY Prefix
<1>2. BodyOffset(buf) = h /\ n >= h /\ Want(buf) = Len(req.body)
  BY <1>1, HeadParsed
<1>3. h \in Nat /\ B \in Seq(Item) /\ n <= Len(B)
  BY HeadShape
<1>4. SubSeq(buf, h + 1, n) = SubSeq(B, h + 1, n)
  <2> HIDE DEF h, B
  <2> DEFINE x == SubSeq(buf, h + 1, n)
             y == SubSeq(B, h + 1, n)
  <2>1. x \in Seq(Item) /\ Len(x) = n - h /\ \A i \in 1 .. n - h : x[i] = buf[h + i]
    BY <1>1, <1>2, <1>3, PartShape
  <2>2. y \in Seq(Item) /\ Len(y) = n - h /\ \A i \in 1 .. n - h : y[i] = B[h + i]
    BY <1>2, <1>3, PartShape
  <2> HIDE DEF x, y
  <2>3. \A i \in 1 .. n - h : x[i] = y[i]
    <3> TAKE i \in 1 .. n - h
    <3>1. h + i \in 1 .. n
      BY <1>3
    <3> QED BY <1>1, <2>1, <2>2, <3>1
  <2>4. x = y
    BY <2>1, <2>2, <2>3
  <2> QED BY <2>4 DEF x, y
<1> QED BY <1>1, <1>2, <1>4 DEF Part

LEMMA ConnInitInv == ConnInit => ConnInv
<1> SUFFICES ASSUME ConnInit PROVE ConnInv
  OBVIOUS
<1>1. /\ req \in Request /\ limit \in 0 .. Len(Bytes(req)) /\ pc = "head" /\ taken = 0 /\ buf = <<>>
      /\ handler = "none"
  BY DEF ConnInit
<1>2. Bytes(req) \in Seq(Item)
  BY <1>1, HeadShape
<1>3. ConnType
  BY <1>1, <1>2 DEF ConnType
<1>4. Part(1, 0) = <<>>
  BY <1>2 DEF Part
<1> QED BY <1>1, <1>3, <1>4 DEF ConnInv, ReadSoFar, DispatchExact

\* A read adds the next bytes.
LEMMA NextBytes ==
  ASSUME ConnType, NEW n \in Nat, CanRead(n), NEW a \in Nat, a <= taken
  PROVE  /\ Part(a + 1, taken) \o Chunk(n) = Part(a + 1, taken + n)
         /\ taken + n \in Nat /\ taken + n <= limit
<1> DEFINE B == Bytes(req)
<1>1. /\ B \in Seq(Item) /\ taken \in Nat /\ limit \in Nat /\ limit <= Len(B) /\ Len(B) \in Nat
      /\ taken + n <= limit
  BY HeadShape DEF ConnType, CanRead
<1> HIDE DEF B
<1>2. taken <= taken + n /\ taken + n \in Nat /\ taken + n <= Len(B)
  BY <1>1
<1> DEFINE b == taken
           c == taken + n
<1>3. b \in Nat /\ c \in Nat /\ a <= b /\ b <= c /\ c <= Len(B)
  BY <1>1, <1>2
<1>4. SubSeq(B, a + 1, b) \o SubSeq(B, b + 1, c) = SubSeq(B, a + 1, c)
  <2> HIDE DEF b, c
  <2> QED BY <1>1, <1>3, PartsJoin
<1> QED BY <1>1, <1>2, <1>4 DEF B, Part, Chunk

LEMMA ReadHeadInv ==
  ASSUME ConnInv, NEW n \in 1 .. BufSize, read_request_head(n)
  PROVE  ConnInv'
<1>0. ConnType /\ ReadSoFar
  BY DEF ConnInv
<1>1. /\ pc = "head" /\ CanRead(n) /\ buf' = buf \o Chunk(n) /\ taken' = taken + n
      /\ req' = req /\ limit' = limit /\ pc' = pc /\ handler' = handler
  BY DEF read_request_head, peer
<1>2. n \in Nat
  BY RequestAssumption
<1>3. buf = Part(1, taken) /\ handler = "none"
  BY <1>0, <1>1 DEF ReadSoFar
<1>4. Part(1, taken) \o Chunk(n) = Part(1, taken + n) /\ taken + n \in Nat /\ taken + n <= limit
  <2>1. 0 \in Nat /\ 0 <= taken
    BY <1>0 DEF ConnType
  <2>2. /\ Part(0 + 1, taken) \o Chunk(n) = Part(0 + 1, taken + n)
        /\ taken + n \in Nat /\ taken + n <= limit
    BY <1>0, <1>1, <1>2, <2>1, NextBytes
  <2>3. 0 + 1 = 1
    OBVIOUS
  <2> QED BY <2>2, <2>3, Zenon
<1>5. ConnType'
  <2>1. Bytes(req)' = Bytes(req)
    BY <1>1 DEF Bytes, HeadBytes
  <2> QED BY <1>0, <1>1, <1>4, <2>1, Zenon DEF ConnType
<1>6. buf' = Part(1, taken)'
  <2>1. Bytes(req)' = Bytes(req)
    BY <1>1 DEF Bytes, HeadBytes
  <2> QED BY <1>1, <1>3, <1>4, <2>1, Zenon DEF Part
<1>7. ReadSoFar' /\ DispatchExact'
  BY <1>1, <1>3, <1>6 DEF ReadSoFar, DispatchExact
<1> QED BY <1>5, <1>7 DEF ConnInv

LEMMA ParseInv ==
  ASSUME ConnInv, parse_request_line
  PROVE  ConnInv'
<1>0. ConnType /\ ReadSoFar
  BY DEF ConnInv
<1>1. /\ pc = "head" /\ taken' = taken /\ buf' = buf /\ handler' = handler
      /\ req' = req /\ limit' = limit
  BY DEF parse_request_line, peer
<1>2. buf = Part(1, taken) /\ handler = "none"
  BY <1>0, <1>1 DEF ReadSoFar
<1>3. Bytes(req)' = Bytes(req) /\ HeadBytes(req)' = HeadBytes(req)
  BY <1>1 DEF Bytes, HeadBytes
<1>4. ConnType'
  BY <1>0, <1>1, <1>3, Zenon DEF ConnType
<1>5. DispatchExact'
  BY <1>1, <1>2 DEF DispatchExact
<1>6. ReadSoFar'
  <2>1. CASE HeadEnds(buf) = {}
    <3>1. pc' = "closed"
      BY <2>1 DEF parse_request_line
    <3> QED BY <3>1 DEF ReadSoFar
  <2>2. CASE HeadEnds(buf) # {}
    <3>1. pc' = "body" /\ body' = SubSeq(buf, BodyOffset(buf) + 1, Len(buf))
      BY <2>2, Zenon DEF parse_request_line
    <3>2. req \in Request /\ taken \in Nat /\ taken <= Len(Bytes(req))
      <4>1. Len(Bytes(req)) \in Nat
        BY <1>0, HeadShape DEF ConnType
      <4> QED BY <1>0, <4>1 DEF ConnType
    <3>3. /\ Len(HeadBytes(req)) <= taken
          /\ body' = Part(Len(HeadBytes(req)) + 1, taken)
      <4>1. Len(HeadBytes(req)) \in Nat
        BY <3>2, HeadShape
      <4>2. /\ taken >= Len(HeadBytes(req))
            /\ SubSeq(buf, BodyOffset(buf) + 1, Len(buf)) = Part(Len(HeadBytes(req)) + 1, taken)
        BY <1>2, <2>2, <3>2, HeadRead
      <4> QED BY <3>1, <3>2, <4>1, <4>2
    <3>4. HeadEnds(buf)' = HeadEnds(buf)
      BY <1>1 DEF HeadEnds
    <3>5. taken \in Nat /\ taken <= taken' /\ buf' = Part(1, taken)' /\ HeadEnds(buf)' # {}
      BY <1>1, <1>2, <1>3, <2>2, <3>2, <3>4 DEF Part
    <3>6. taken' = taken /\ pc' # "head" /\ handler' = "none"
      BY <1>1, <1>2, <3>1
    <3>7. \E n \in Nat : n <= taken' /\ buf' = Part(1, n)' /\ HeadEnds(buf)' # {}
      <4>1. taken <= taken' /\ buf' = SubSeq(Bytes(req)', 1, taken) /\ HeadEnds(buf)' # {}
        BY <3>5, <3>6, Zenon DEF Part
      <4> QED BY <3>2, <4>1, Zenon DEF Part
    <3>8. /\ Len(HeadBytes(req)') <= taken'
          /\ body' = SubSeq(Bytes(req)', Len(HeadBytes(req)') + 1, taken')
      BY <1>1, <1>3, <3>3, Zenon DEF Part
    <3> QED BY <3>6, <3>7, <3>8, Zenon DEF ReadSoFar, Part
  <2> QED BY <2>1, <2>2
<1> QED BY <1>4, <1>5, <1>6 DEF ConnInv

LEMMA ReadBodyInv ==
  ASSUME ConnInv, NEW n \in 1 .. BufSize, read_body(n)
  PROVE  ConnInv'
<1>0. ConnType /\ ReadSoFar
  BY DEF ConnInv
<1>1. /\ pc = "body" /\ CanRead(n) /\ body' = body \o Chunk(n) /\ taken' = taken + n
      /\ req' = req /\ limit' = limit /\ pc' = pc /\ handler' = handler /\ buf' = buf
  BY DEF read_body, peer
<1> DEFINE h == Len(HeadBytes(req))
<1>2. n \in Nat /\ req \in Request /\ taken \in Nat
  BY <1>0, RequestAssumption DEF ConnType
<1>3. h \in Nat
  BY <1>2, HeadShape
<1>4. body = Part(h + 1, taken) /\ h <= taken /\ handler = "none"
  BY <1>0, <1>1 DEF ReadSoFar
<1>5. PICK m \in Nat : m <= taken /\ buf = Part(1, m) /\ HeadEnds(buf) # {}
  BY <1>0, <1>1 DEF ReadSoFar
<1>6. Bytes(req)' = Bytes(req) /\ HeadBytes(req)' = HeadBytes(req) /\ h' = h
  BY <1>1 DEF Bytes, HeadBytes
<1> HIDE DEF h
<1>7. Part(h + 1, taken) \o Chunk(n) = Part(h + 1, taken + n) /\ taken + n \in Nat /\ taken + n <= limit
  BY <1>0, <1>1, <1>2, <1>3, <1>4, NextBytes
<1>8. ConnType'
  BY <1>0, <1>1, <1>6, <1>7, Zenon DEF ConnType
<1>9. DispatchExact'
  BY <1>1, <1>4 DEF DispatchExact
<1>10. HeadEnds(buf)' = HeadEnds(buf)
  BY <1>1 DEF HeadEnds
<1>11. m <= taken' /\ buf' = SubSeq(Bytes(req)', 1, m) /\ HeadEnds(buf)' # {}
  <2>1. m <= taken'
    BY <1>1, <1>2, <1>5
  <2> QED BY <2>1, <1>1, <1>5, <1>6, <1>10, Zenon DEF Part
<1>12. h <= taken' /\ body' = SubSeq(Bytes(req)', h + 1, taken')
  <2>1. h <= taken'
    BY <1>1, <1>2, <1>3, <1>4
  <2> QED BY <2>1, <1>1, <1>4, <1>6, <1>7, Zenon DEF Part
<1>13. ReadSoFar'
  <2>1. pc' # "head" /\ handler' = "none"
    BY <1>1, <1>4
  <2>2. \E k \in Nat : k <= taken' /\ buf' = SubSeq(Bytes(req)', 1, k) /\ HeadEnds(buf)' # {}
    BY <1>11
  <2>3. h = Len(HeadBytes(req)')
    BY <1>6 DEF h
  <2> QED BY <1>12, <2>1, <2>2, <2>3, Zenon DEF ReadSoFar, Part
<1> QED BY <1>8, <1>9, <1>13 DEF ConnInv

\* When no byte of the body is missing it is the body.
LEMMA HandleInv ==
  ASSUME ConnInv, handle_connection
  PROVE  ConnInv'
<1>0. ConnType /\ ReadSoFar
  BY DEF ConnInv
<1>1. /\ pc = "body" /\ ~BodyMissing /\ pc' \notin {"head", "body"}
      /\ req' = req /\ limit' = limit /\ taken' = taken /\ body' = body
  BY DEF handle_connection, peer
<1> DEFINE h == Len(HeadBytes(req))
           B == Bytes(req)
<1>2. /\ req \in Request /\ taken \in Nat /\ limit \in Nat /\ taken <= limit /\ limit <= Len(B)
  BY <1>0 DEF ConnType
<1>3. /\ h \in Nat /\ B \in Seq(Item) /\ Len(B) \in Nat /\ Len(B) = h + Len(req.body)
      /\ req.body \in Seq(Item) /\ Len(req.body) \in Nat
      /\ \A i \in 1 .. Len(req.body) : B[h + i] = req.body[i]
  BY <1>2, HeadShape
<1>4. body = SubSeq(B, h + 1, taken) /\ h <= taken
  BY <1>0, <1>1 DEF ReadSoFar, Part
<1>5. PICK m \in Nat : m <= taken /\ buf = Part(1, m) /\ HeadEnds(buf) # {}
  BY <1>0, <1>1 DEF ReadSoFar
<1>6. Want(buf) = Len(req.body)
  <2>1. m <= Len(Bytes(req))
    BY <1>2, <1>3, <1>5
  <2> QED BY <1>2, <1>5, <2>1, HeadRead
<1> HIDE DEF h, B
<1>7. /\ body \in Seq(Item) /\ Len(body) = taken - h
      /\ \A i \in 1 .. taken - h : body[i] = B[h + i]
  <2>1. B \in Seq(Item) /\ h \in Nat /\ taken \in Nat /\ h <= taken /\ taken <= Len(B)
    BY <1>2, <1>3, <1>4
  <2>2. /\ SubSeq(B, h + 1, taken) \in Seq(Item) /\ Len(SubSeq(B, h + 1, taken)) = taken - h
        /\ \A i \in 1 .. taken - h : SubSeq(B, h + 1, taken)[i] = B[h + i]
    BY <2>1, PartShape
  <2> QED BY <1>4, <2>2, Zenon
<1>8. Len(body) >= Len(req.body)
  <2>1. ~(Len(body) < Len(req.body))
    BY <1>1, <1>6, Zenon DEF BodyMissing
  <2> QED BY <2>1, <1>2, <1>3, <1>7
<1>9. taken = Len(B) /\ limit = Len(B) /\ Len(body) = Len(req.body)
  <2> DEFINE k == Len(req.body)
             l == Len(B)
             d == Len(body)
  <2>1. /\ taken \in Nat /\ limit \in Nat /\ h \in Nat /\ k \in Nat /\ l \in Nat
        /\ taken <= limit /\ limit <= l /\ l = h + k /\ d = taken - h /\ d >= k
    BY <1>2, <1>3, <1>7, <1>8
  <2> HIDE DEF k, l, d
  <2>2. taken = l /\ limit = l /\ d = k
    BY <2>1
  <2> QED BY <2>2 DEF k, l, d
<1>10. body = req.body
  <2> DEFINE x == req.body
  <2>1. x \in Seq(Item) /\ Len(body) = Len(x) /\ Len(x) \in Nat /\ Len(x) = taken - h
    BY <1>3, <1>7, <1>9
  <2>2. \A i \in 1 .. Len(x) : body[i] = x[i]
    BY <1>3, <1>7, <2>1
  <2> HIDE DEF x
  <2>3. body = x
    BY <1>7, <2>1, <2>2
  <2> QED BY <2>3 DEF x
<1>11. DispatchExact
  BY <1>9, <1>10 DEF DispatchExact, B
<1>12. DispatchExact'
  <2>1. Bytes(req)' = Bytes(req)
    BY <1>1 DEF Bytes, HeadBytes
  <2> QED BY <1>1, <1>9, <1>10, <2>1 DEF DispatchExact, B
<1>13. ConnType'
  <2>1. Bytes(req)' = Bytes(req)
    BY <1>1 DEF Bytes, HeadBytes
  <2> QED BY <1>0, <1>1, <2>1, Zenon DEF ConnType
<1> QED BY <1>1, <1>12, <1>13 DEF ConnInv, ReadSoFar

LEMMA ConnStepInv == ConnInv /\ [ConnNext]_connVars => ConnInv'
<1> SUFFICES ASSUME ConnInv, [ConnNext]_connVars PROVE ConnInv'
  OBVIOUS
<1>1. CASE \E n \in 1 .. BufSize : read_request_head(n) \/ read_body(n)
  BY <1>1, ReadHeadInv, ReadBodyInv
<1>2. CASE parse_request_line
  BY <1>2, ParseInv
<1>3. CASE handle_connection
  BY <1>3, HandleInv
<1>4. CASE ReadBodyFails \/ WriteFails \/ \E n \in 1 .. Response : write_all(n)
  <2>1. /\ req' = req /\ limit' = limit /\ taken' = taken /\ body' = body /\ handler' = handler
        /\ pc' \notin {"head", "body"}
    BY <1>4 DEF ReadBodyFails, WriteFails, write_all, peer
  <2>2. Bytes(req)' = Bytes(req)
    BY <2>1 DEF Bytes, HeadBytes
  <2>3. ConnType' /\ DispatchExact'
    BY <2>1, <2>2, Zenon DEF ConnInv, ConnType, DispatchExact
  <2> QED BY <2>1, <2>3 DEF ConnInv, ReadSoFar
<1>5. CASE UNCHANGED connVars
  <2>1. /\ req' = req /\ limit' = limit /\ taken' = taken /\ body' = body /\ handler' = handler
        /\ pc' = pc /\ buf' = buf
    BY <1>5 DEF connVars
  <2>2. Bytes(req)' = Bytes(req) /\ HeadBytes(req)' = HeadBytes(req) /\ HeadEnds(buf)' = HeadEnds(buf)
    BY <2>1 DEF Bytes, HeadBytes, HeadEnds
  <2> QED BY <2>1, <2>2, Zenon DEF ConnInv, ConnType, DispatchExact, ReadSoFar, Part
<1> QED BY <1>1, <1>2, <1>3, <1>4, <1>5 DEF ConnNext

-----------------------------------------------------------------------------
(* The branches of handle_connection.                                       *)

\* No method and path satisfy the tests of two branches.
LEMMA OneBranch ==
  ASSUME NEW m, NEW p, NEW i \in DOMAIN Branches, NEW j \in DOMAIN Branches,
         Matches(Branches[i], m, p), Matches(Branches[j], m, p)
  PROVE  i = j
<1>1. DOMAIN Branches = 1 .. 10
  BY DEF Branches
<1>2. /\ Branches[1] = "get_doc" /\ Branches[2] = "debug_log" /\ Branches[3] = "post_op"
      /\ Branches[4] = "post_cursor" /\ Branches[5] = "stream" /\ Branches[6] = "get_docs"
      /\ Branches[7] = "post_docs" /\ Branches[8] = "static" /\ Branches[9] = "preflight"
      /\ Branches[10] = "admin_fail"
  BY DEF Branches
<1> DEFINE doc == p.kind = "doc"
           fixed == p.kind = "fixed"
<1>3. Matches("get_doc", m, p) => doc /\ m = "GET" /\ p.sub = ""
  BY DEF Matches, DocPage, parse_doc_route
<1>4. Matches("debug_log", m, p) => fixed /\ m = "POST" /\ p.name = "/debug/log"
  BY DEF Matches
<1>5. Matches("post_op", m, p) => doc /\ m = "POST" /\ p.sub = "op"
  BY DEF Matches, parse_doc_route
<1>6. Matches("post_cursor", m, p) => doc /\ m = "POST" /\ p.sub = "cursor"
  BY DEF Matches, parse_doc_route
<1>7. Matches("stream", m, p) => doc /\ m = "GET" /\ p.sub = "stream"
  BY DEF Matches, parse_doc_route
<1>8. Matches("get_docs", m, p) => fixed /\ m = "GET" /\ p.name = "/docs"
  BY DEF Matches
<1>9. Matches("post_docs", m, p) => fixed /\ m = "POST" /\ p.name = "/docs"
  BY DEF Matches
<1>10. Matches("static", m, p) => fixed /\ m = "GET" /\ p.name \in {"/", "/editor.html", "/editor.js"}
  BY DEF Matches
<1>11. Matches("preflight", m, p) => m = "OPTIONS"
  BY DEF Matches
<1>12. Matches("admin_fail", m, p) => fixed /\ m = "POST" /\ p.name = "/admin/fail/0"
  BY DEF Matches
<1> DEFINE M(k) == Matches(Branches[k], m, p)
<1>13. /\ M(1) => doc /\ m = "GET" /\ p.sub = ""
       /\ M(2) => fixed /\ m = "POST" /\ p.name = "/debug/log"
       /\ M(3) => doc /\ m = "POST" /\ p.sub = "op"
       /\ M(4) => doc /\ m = "POST" /\ p.sub = "cursor"
       /\ M(5) => doc /\ m = "GET" /\ p.sub = "stream"
  BY <1>2, <1>3, <1>4, <1>5, <1>6, <1>7, Zenon
<1>14. /\ M(6) => fixed /\ m = "GET" /\ p.name = "/docs"
       /\ M(7) => fixed /\ m = "POST" /\ p.name = "/docs"
       /\ M(8) => fixed /\ m = "GET" /\ p.name \in {"/", "/editor.html", "/editor.js"}
       /\ M(9) => m = "OPTIONS"
       /\ M(10) => fixed /\ m = "POST" /\ p.name = "/admin/fail/0"
  BY <1>2, <1>8, <1>9, <1>10, <1>11, <1>12, Zenon
<1> HIDE DEF M
<1>15. ASSUME NEW k \in 1 .. 10, M(k)
       PROVE  \/ doc /\ m = "GET" /\ k \in {1, 5} /\ (k = 1 <=> p.sub = "")
              \/ doc /\ m = "POST" /\ k \in {3, 4} /\ (k = 3 <=> p.sub = "op")
              \/ fixed /\ m = "GET" /\ k \in {6, 8} /\ (k = 6 <=> p.name = "/docs")
              \/ fixed /\ m = "POST" /\ k = 2 /\ p.name = "/debug/log"
              \/ fixed /\ m = "POST" /\ k = 7 /\ p.name = "/docs"
              \/ fixed /\ m = "POST" /\ k = 10 /\ p.name = "/admin/fail/0"
              \/ m = "OPTIONS" /\ k = 9
  <2>1. k \in {1, 2, 3, 4, 5} \/ k \in {6, 7, 8, 9, 10}
    OBVIOUS
  <2>2. CASE k \in {1, 2, 3, 4, 5}
    BY <1>13, <1>15, <2>2
  <2>3. CASE k \in {6, 7, 8, 9, 10}
    BY <1>14, <1>15, <2>3
  <2> QED BY <2>1, <2>2, <2>3
<1>16. M(i) /\ M(j) /\ i \in 1 .. 10 /\ j \in 1 .. 10
  BY <1>1 DEF M
<1> QED BY <1>15, <1>16

LEMMA RoutesAreDisjoint == RoutesDisjoint
<1> DEFINE hits == {i \in DOMAIN Branches : Matches(Branches[i], req.method, req.path)}
<1>1. \A i, j \in hits : i = j
  BY OneBranch
<1>2. CASE hits = {}
  <2>1. Cardinality(hits) = 0
    BY <1>2, FS_EmptySet
  <2> QED BY <2>1 DEF RoutesDisjoint
<1>3. CASE hits # {}
  <2>1. PICK x : hits = {x}
    BY <1>1, <1>3, Zenon
  <2>2. Cardinality(hits) = 1
    BY <2>1, FS_Singleton, Zenon
  <2> QED BY <2>2 DEF RoutesDisjoint
<1> QED BY <1>2, <1>3

\* For all requests whose peers announce the body they have, however the network
\* cuts the bytes into reads and wherever the peer stops: a handler gets exactly the
\* body, of a request that came whole, and it is the only one for the request.
THEOREM RequestsHandledTheorem == ConnSpec => []RequestsHandled
<1>1. ConnInv => RequestsHandled
  BY RoutesAreDisjoint DEF ConnInv, RequestsHandled
<1> QED BY <1>1, ConnInitInv, ConnStepInv, PTL DEF ConnSpec

=============================================================================
