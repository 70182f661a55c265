--------------------------- MODULE KeyMonitorProofs ---------------------------
(***************************************************************************)
(* The key monitor, proved for any number of nodes and slots, any capacity *)
(* and any memory: the list of a node is well formed and holds the slots   *)
(* used last as long as the node stays in its hash map, no slot is evicted *)
(* from it, and no received list kills a server.                           *)
(***************************************************************************)
EXTENDS KeyMonitor, TLAPS, FiniteSetTheorems, SequenceTheorems,
        WellFoundedInduction

-----------------------------------------------------------------------------
(* The pointers of the list.                                               *)

Pointer == Entry \cup {NULL}

Cache ==
  [head : Pointer, tail : Pointer, size : Nat, map : [Bucket -> Pointer],
   live : SUBSET Entry, key : [Entry -> Bucket], data : [Entry -> Nat],
   prev : [Entry -> Pointer], next : [Entry -> Pointer]]

\* The entries s[1], ..., s[m] are the list, forwards and backwards.
Chain(c, s, m) ==
  /\ \A i, j \in 1..m : s[i] = s[j] => i = j
  /\ c.head = IF m = 0 THEN NULL ELSE s[1]
  /\ c.tail = IF m = 0 THEN NULL ELSE s[m]
  /\ \A i \in 1..m :
       /\ c.prev[s[i]] = IF i = 1 THEN NULL ELSE s[i - 1]
       /\ c.next[s[i]] = IF i = m THEN NULL ELSE s[i + 1]

\* The two caches differ in their pointers at most.
SameContent(c, b) ==
  /\ c.map = b.map
  /\ c.live = b.live
  /\ c.key = b.key
  /\ c.data = b.data

\* The list without its element at p, and with e before its first element.
Cut(s, m, p) == [i \in 1..(m - 1) |-> IF i < p THEN s[i] ELSE s[i + 1]]
Onto(e, s, m) == [i \in 1..(m + 1) |-> IF i = 1 THEN e ELSE s[i - 1]]

\* The neighbours of the entry at p are linked to each other in u.
Bridged(u, c, s, m, p) ==
  \A x \in Entry :
    /\ u.next[x] = IF p > 1 /\ x = s[p - 1] THEN c.next[s[p]] ELSE c.next[x]
    /\ u.prev[x] = IF p < m /\ x = s[p + 1] THEN c.prev[s[p]] ELSE c.prev[x]

\* Whichever of its four branches removeFromList takes, the neighbours of the
\* entry are linked to each other.
LEMMA UnlinkedPointers ==
  ASSUME NEW c \in Cache, NEW m \in Nat, NEW s \in [1..m -> Entry],
         Chain(c, s, m), NEW p \in 1..m
  PROVE  LET u == Unlinked(c, s[p])
         IN /\ u \in Cache /\ SameContent(u, c) /\ u.size = c.size
            /\ u.head = IF p = 1 THEN c.next[s[p]] ELSE c.head
            /\ u.tail = IF p = m THEN c.prev[s[p]] ELSE c.tail
            /\ Bridged(u, c, s, m, p)
<1> DEFINE e == s[p]
           u == Unlinked(c, e)
<1>1. /\ e \in Entry /\ e # NULL
      /\ p > 1 => s[p - 1] \in Entry /\ c.prev[e] = s[p - 1]
      /\ p < m => s[p + 1] \in Entry /\ c.next[e] = s[p + 1]
      /\ p = 1 => c.prev[e] = NULL
      /\ p = m => c.next[e] = NULL
  BY LruAssumption DEF Chain
<1>2. /\ e = c.head <=> p = 1
      /\ e = c.tail <=> p = m
  BY DEF Chain
<1>3. /\ c.head \in Pointer /\ c.tail \in Pointer
      /\ c.prev \in [Entry -> Pointer] /\ c.next \in [Entry -> Pointer]
  BY DEF Cache
<1> HIDE DEF e
<1>4. /\ u.head = IF p = 1 THEN c.next[e] ELSE c.head
      /\ u.tail = IF p = m THEN c.prev[e] ELSE c.tail
      /\ u.next = IF p = 1 THEN c.next ELSE [c.next EXCEPT ![c.prev[e]] = c.next[e]]
      /\ u.prev = IF p = m THEN c.prev ELSE [c.prev EXCEPT ![c.next[e]] = c.prev[e]]
      /\ SameContent(u, c) /\ u.size = c.size
      /\ u = [c EXCEPT !.head = u.head, !.tail = u.tail, !.next = u.next,
                       !.prev = u.prev]
  <2>1. CASE p = 1 /\ p = m
    BY <1>1, <1>2, <2>1 DEF Unlinked, Cache, SameContent
  <2>2. CASE p = 1 /\ p # m
    BY <1>1, <1>2, <2>2 DEF Unlinked, Cache, SameContent
  <2>3. CASE p # 1 /\ p = m
    BY <1>1, <1>2, <2>3 DEF Unlinked, Cache, SameContent
  <2>4. CASE p # 1 /\ p # m
    BY <1>1, <1>2, <2>4 DEF Unlinked, Cache, SameContent
  <2> QED BY <2>1, <2>2, <2>3, <2>4
<1> HIDE DEF u
<1>5. /\ u.head \in Pointer /\ u.tail \in Pointer
      /\ u.next \in [Entry -> Pointer] /\ u.prev \in [Entry -> Pointer]
  BY <1>1, <1>3, <1>4 DEF Pointer
<1>6. u \in Cache
  BY <1>4, <1>5 DEF Cache
<1>7. ASSUME NEW x \in Entry
      PROVE  /\ u.next[x] = IF p > 1 /\ x = s[p - 1] THEN c.next[e] ELSE c.next[x]
             /\ u.prev[x] = IF p < m /\ x = s[p + 1] THEN c.prev[e] ELSE c.prev[x]
  BY <1>1, <1>3, <1>4
<1> QED BY <1>4, <1>6, <1>7 DEF e, u, Bridged

\* An entry that is taken out leaves a list.
LEMMA UnlinkedChain ==
  ASSUME NEW c \in Cache, NEW m \in Nat, NEW s \in [1..m -> Entry],
         Chain(c, s, m), NEW p \in 1..m
  PROVE  /\ Cut(s, m, p) \in [1..(m - 1) -> Entry]
         /\ \A i \in 1..(m - 1) : Cut(s, m, p)[i] # s[p]
         /\ Chain(Unlinked(c, s[p]), Cut(s, m, p), m - 1)
<1> DEFINE u == Unlinked(c, s[p])
           w == Cut(s, m, p)
<1>1. /\ u.head = IF p = 1 THEN c.next[s[p]] ELSE c.head
      /\ u.tail = IF p = m THEN c.prev[s[p]] ELSE c.tail
      /\ \A x \in Entry :
           /\ u.next[x] = IF p > 1 /\ x = s[p - 1] THEN c.next[s[p]] ELSE c.next[x]
           /\ u.prev[x] = IF p < m /\ x = s[p + 1] THEN c.prev[s[p]] ELSE c.prev[x]
  <2>1. u.head = IF p = 1 THEN c.next[s[p]] ELSE c.head
    BY UnlinkedPointers
  <2>2. u.tail = IF p = m THEN c.prev[s[p]] ELSE c.tail
    BY UnlinkedPointers
  <2>3. Bridged(u, c, s, m, p)
    BY UnlinkedPointers
  <2> QED BY <2>1, <2>2, <2>3 DEF Bridged
<1>2. /\ w \in [1..(m - 1) -> Entry]
      /\ \A i \in 1..(m - 1) : w[i] = IF i < p THEN s[i] ELSE s[i + 1]
  BY DEF Cut
<1> HIDE DEF u, w
<1>3. \A i \in 1..(m - 1) : w[i] # s[p]
  BY <1>2 DEF Chain
<1>4. \A i, j \in 1..(m - 1) : w[i] = w[j] => i = j
  BY <1>2 DEF Chain
<1>5. u.head = IF m - 1 = 0 THEN NULL ELSE w[1]
  BY <1>1, <1>2 DEF Chain
<1>6. u.tail = IF m - 1 = 0 THEN NULL ELSE w[m - 1]
  BY <1>1, <1>2 DEF Chain
<1>7. ASSUME NEW i \in 1..(m - 1)
      PROVE  /\ u.prev[w[i]] = IF i = 1 THEN NULL ELSE w[i - 1]
             /\ u.next[w[i]] = IF i = m - 1 THEN NULL ELSE w[i + 1]
  <2>1. CASE i < p
    <3>1. w[i] = s[i] /\ s[i] \in Entry /\ i \in 1..m
      BY <1>2, <2>1
    <3>2. u.prev[w[i]] = c.prev[s[i]]
      BY <1>1, <2>1, <3>1 DEF Chain
    <3>3. u.next[w[i]] = IF i = p - 1 THEN c.next[s[p]] ELSE c.next[s[i]]
      BY <1>1, <2>1, <3>1 DEF Chain
    <3> QED BY <1>2, <2>1, <3>1, <3>2, <3>3 DEF Chain
  <2>2. CASE ~(i < p)
    <3>1. w[i] = s[i + 1] /\ s[i + 1] \in Entry /\ i + 1 \in 1..m
      BY <1>2, <2>2
    <3>2. u.prev[w[i]] = IF i = p THEN c.prev[s[p]] ELSE c.prev[s[i + 1]]
      BY <1>1, <2>2, <3>1 DEF Chain
    <3>3. u.next[w[i]] = c.next[s[i + 1]]
      BY <1>1, <2>2, <3>1 DEF Chain
    <3> QED BY <1>2, <2>2, <3>1, <3>2, <3>3 DEF Chain
  <2> QED BY <2>1, <2>2
<1>8. Chain(u, w, m - 1)
  BY <1>4, <1>5, <1>6, <1>7 DEF Chain
<1> QED BY <1>2, <1>3, <1>8 DEF u, w

\* An entry that is not in the list becomes its first one.
LEMMA LinkedChain ==
  ASSUME NEW c \in Cache, NEW m \in Nat, NEW s \in [1..m -> Entry],
         Chain(c, s, m), NEW e \in Entry, \A i \in 1..m : s[i] # e,
         m = 0 => c.prev[e] = NULL /\ c.next[e] = NULL
  PROVE  LET l == Linked(c, e)
         IN /\ l \in Cache /\ SameContent(l, c) /\ l.size = c.size
            /\ Onto(e, s, m) \in [1..(m + 1) -> Entry]
            /\ Chain(l, Onto(e, s, m), m + 1)
<1> DEFINE l == Linked(c, e)
           o == Onto(e, s, m)
<1>1. /\ m # 0 => c.head = s[1] /\ s[1] \in Entry /\ c.tail = s[m] /\ s[m] \in Entry
      /\ m = 0 => c.head = NULL /\ c.tail = NULL
      /\ e # NULL /\ \A x \in Entry : x # NULL
  BY LruAssumption DEF Chain
<1>2. /\ c.head \in Pointer /\ c.tail \in Pointer
      /\ c.prev \in [Entry -> Pointer] /\ c.next \in [Entry -> Pointer]
  BY DEF Cache
<1>3. /\ l \in Cache /\ SameContent(l, c) /\ l.size = c.size
      /\ l.head = e
      /\ l.tail = IF m = 0 THEN e ELSE c.tail
      /\ \A x \in Entry :
           /\ l.next[x] = IF x = e THEN c.head ELSE c.next[x]
           /\ l.prev[x] = IF x = e THEN NULL
                          ELSE IF m # 0 /\ x = s[1] THEN e ELSE c.prev[x]
  <2>1. /\ l.head = e
        /\ l.tail = IF m = 0 THEN e ELSE c.tail
        /\ l.next = IF m = 0 THEN c.next ELSE [c.next EXCEPT ![e] = c.head]
        /\ l.prev = IF m = 0 THEN c.prev
                    ELSE [c.prev EXCEPT ![e] = NULL, ![c.head] = e]
        /\ SameContent(l, c) /\ l.size = c.size
        /\ l = [c EXCEPT !.head = l.head, !.tail = l.tail, !.next = l.next,
                         !.prev = l.prev]
    BY <1>1 DEF Linked, Cache, SameContent
  <2> HIDE DEF l
  <2>2. /\ l.head \in Pointer /\ l.tail \in Pointer
        /\ l.next \in [Entry -> Pointer] /\ l.prev \in [Entry -> Pointer]
    BY <1>1, <1>2, <2>1 DEF Pointer
  <2>3. l \in Cache
    BY <2>1, <2>2 DEF Cache
  <2>4. m # 0 => s[1] # e
    OBVIOUS
  <2>5. ASSUME NEW x \in Entry
        PROVE  /\ l.next[x] = IF x = e THEN c.head ELSE c.next[x]
               /\ l.prev[x] = IF x = e THEN NULL
                              ELSE IF m # 0 /\ x = s[1] THEN e ELSE c.prev[x]
    BY <1>1, <1>2, <2>1, <2>4
  <2> QED BY <2>1, <2>3, <2>5
<1>4. /\ o \in [1..(m + 1) -> Entry]
      /\ \A i \in 1..(m + 1) : o[i] = IF i = 1 THEN e ELSE s[i - 1]
  BY DEF Onto
<1> HIDE DEF l, o
<1>5. \A i, j \in 1..(m + 1) : o[i] = o[j] => i = j
  BY <1>4 DEF Chain
<1>6. l.head = o[1] /\ l.tail = o[m + 1]
  BY <1>1, <1>3, <1>4
<1>7. ASSUME NEW i \in 1..(m + 1)
      PROVE  /\ l.prev[o[i]] = IF i = 1 THEN NULL ELSE o[i - 1]
             /\ l.next[o[i]] = IF i = m + 1 THEN NULL ELSE o[i + 1]
  <2>1. CASE i = 1
    BY <1>1, <1>3, <1>4, <2>1
  <2>2. CASE i # 1
    <3>1. o[i] = s[i - 1] /\ s[i - 1] \in Entry /\ i - 1 \in 1..m /\ s[i - 1] # e
      BY <1>4, <2>2
    <3>2. l.next[o[i]] = c.next[s[i - 1]]
      BY <1>3, <3>1
    <3>3. l.prev[o[i]] = IF i = 2 THEN e ELSE c.prev[s[i - 1]]
      BY <1>3, <3>1 DEF Chain
    <3> QED BY <1>4, <2>2, <3>1, <3>2, <3>3 DEF Chain
  <2> QED BY <2>1, <2>2
<1>8. Chain(l, o, m + 1)
  BY <1>5, <1>6, <1>7 DEF Chain
<1> QED BY <1>3, <1>4, <1>8 DEF l, o

-----------------------------------------------------------------------------
(* The list and its hash map.                                              *)

\* What Represents says, of entries that are given by a function.
Holds(c, s, m) ==
  /\ c.size = m
  /\ Chain(c, s, m)
  /\ \A i \in 1..m : c.map[c.key[s[i]]] = s[i]
  /\ c.live = {s[i] : i \in 1..m}
  /\ \A k \in Bucket : c.map[k] # NULL => c.map[k] \in c.live /\ c.key[c.map[k]] = k

LEMMA EntriesAreSequence ==
  ASSUME NEW m \in Nat, NEW s \in [1..m -> Entry]
  PROVE  s \in Seq(Entry) /\ Len(s) = m /\ (s = <<>> <=> m = 0)
<1>1. s \in Seq(Entry)
  BY SeqDef
<1>2. Len(s) \in Nat /\ DOMAIN s = 1..Len(s)
  BY <1>1, LenProperties
<1>3. Len(s) = m
  BY <1>2
<1> QED BY <1>1, <1>3

LEMMA HoldsIsRepresents ==
  ASSUME NEW c \in Cache, NEW m \in Nat, NEW s \in [1..m -> Entry]
  PROVE  Holds(c, s, m) <=> Represents(c, s)
<1>1. Len(s) = m /\ (s = <<>> <=> m = 0)
  BY EntriesAreSequence
<1>2. \A i \in 1..m : c.key[s[i]] \in Bucket
  BY DEF Cache
<1> QED BY <1>1, <1>2 DEF Holds, Represents, Chain

\* Only pointers count for a chain.
LEMMA ChainKept ==
  ASSUME NEW c, NEW b, NEW m, NEW s, Chain(c, s, m),
         b.head = c.head, b.tail = c.tail, b.prev = c.prev, b.next = c.next
  PROVE  Chain(b, s, m)
BY DEF Chain

LEMMA Resized ==
  ASSUME NEW c \in Cache, NEW n \in Nat
  PROVE  LET r == [c EXCEPT !.size = n]
         IN /\ r \in Cache /\ SameContent(r, c) /\ r.size = n
            /\ r.head = c.head /\ r.tail = c.tail
            /\ r.prev = c.prev /\ r.next = c.next
<1> DEFINE r == [c EXCEPT !.size = n]
<1>1. r \in Cache
  BY DEF Cache
<1>2. SameContent(r, c)
  BY DEF Cache, SameContent
<1> QED BY <1>1, <1>2 DEF Cache

\* removeFromList takes out an entry of the list and counts it down.
LEMMA RemovedList ==
  ASSUME NEW c \in Cache, NEW m \in Nat, NEW s \in [1..m -> Entry],
         Chain(c, s, m), NEW p \in 1..m, c.size \in Nat \ {0}
  PROVE  LET r == removeFromList(c, s[p])
         IN /\ r \in Cache /\ SameContent(r, c) /\ r.size = c.size - 1
            /\ Chain(r, Cut(s, m, p), m - 1)
            /\ \A x \in Entry :
                 m = 1 \/ (\A i \in 1..m : s[i] # x) =>
                   r.next[x] = c.next[x] /\ r.prev[x] = c.prev[x]
<1> DEFINE u == Unlinked(c, s[p])
           r == removeFromList(c, s[p])
<1>1. u \in Cache /\ SameContent(u, c) /\ u.size = c.size
  <2>1. u \in Cache
    BY UnlinkedPointers
  <2>2. SameContent(u, c)
    BY UnlinkedPointers
  <2>3. u.size = c.size
    BY UnlinkedPointers
  <2> QED BY <2>1, <2>2, <2>3
<1>2. Bridged(u, c, s, m, p)
  BY UnlinkedPointers
<1>3. Chain(u, Cut(s, m, p), m - 1)
  BY UnlinkedChain
<1>4. r = [u EXCEPT !.size = u.size - 1]
  BY DEF removeFromList
<1> HIDE DEF u, r
<1>5. /\ r \in Cache /\ SameContent(r, c) /\ r.size = c.size - 1
      /\ r.head = u.head /\ r.tail = u.tail /\ r.prev = u.prev /\ r.next = u.next
  BY <1>1, <1>4, Resized DEF SameContent
<1>6. Chain(r, Cut(s, m, p), m - 1)
  BY <1>3, <1>5, ChainKept
<1>7. ASSUME NEW x \in Entry, m = 1 \/ (\A i \in 1..m : s[i] # x)
      PROVE  r.next[x] = c.next[x] /\ r.prev[x] = c.prev[x]
  <2>1. ~(p > 1 /\ x = s[p - 1]) /\ ~(p < m /\ x = s[p + 1])
    BY <1>7
  <2> QED BY <1>2, <1>5, <2>1 DEF Bridged
<1> QED BY <1>5, <1>6, <1>7 DEF r

\* The entry of a slot that is in the list moves to its head.
LEMMA RenewedList ==
  ASSUME NEW c \in Cache, NEW m \in 0..Capacity, NEW s \in [1..m -> Entry],
         Holds(c, s, m), NEW k \in Bucket, NEW d \in Nat,
         NEW p \in 1..m, c.map[k] = s[p]
  PROVE  LET r == LRUCacheSet(c, k, d)
             t == Onto(s[p], Cut(s, m, p), m - 1)
         IN /\ r \in Cache /\ t \in [1..m -> Entry] /\ Holds(r, t, m)
            /\ r.key = c.key
<1> DEFINE e == s[p]
           w == Cut(s, m, p)
           t == Onto(e, w, m - 1)
           b == [c EXCEPT !.data[e] = d]
           v == removeFromList(b, e)
           more == [v EXCEPT !.size = v.size + 1]
           r == LRUCacheSet(c, k, d)
<1>0. e \in Entry /\ e # NULL /\ m \in Nat /\ m # 0 /\ Capacity \in Nat /\ m <= Capacity
  BY LruAssumption
<1>1. r = updateLRUList(b, e)
  BY <1>0 DEF LRUCacheSet, Renewed
<1> HIDE DEF e
<1>2. /\ b \in Cache /\ b.size = m /\ b.head = c.head /\ b.tail = c.tail
      /\ b.prev = c.prev /\ b.next = c.next /\ b.map = c.map /\ b.live = c.live
      /\ b.key = c.key /\ b.data = [c.data EXCEPT ![e] = d]
  BY <1>0 DEF Cache, Holds
<1> HIDE DEF b
<1>3. Chain(b, s, m)
  BY <1>2, ChainKept DEF Holds
<1>4. /\ v \in Cache /\ SameContent(v, b) /\ v.size = m - 1
      /\ Chain(v, w, m - 1)
      /\ m = 1 => v.next[e] = c.next[e] /\ v.prev[e] = c.prev[e]
  BY <1>0, <1>2, <1>3, RemovedList DEF e
<1>5. r = insertToListHead(v, e)
  BY <1>1 DEF updateLRUList
<1> HIDE DEF v
<1>6. r = Linked(more, e)
  BY <1>0, <1>4, <1>5 DEF insertToListHead, Overflows
<1>7. /\ more \in Cache /\ SameContent(more, b) /\ more.size = m
      /\ more.head = v.head /\ more.tail = v.tail
      /\ more.prev = v.prev /\ more.next = v.next
  BY <1>0, <1>4, Resized DEF SameContent
<1> HIDE DEF more, r
<1>8. Chain(more, w, m - 1)
  BY <1>4, <1>7, ChainKept
<1>9. /\ w \in [1..(m - 1) -> Entry]
      /\ \A i \in 1..(m - 1) : w[i] # e
      /\ \A i \in 1..(m - 1) : w[i] = IF i < p THEN s[i] ELSE s[i + 1]
  <2>1. /\ w \in [1..(m - 1) -> Entry]
        /\ \A i \in 1..(m - 1) : w[i] # s[p]
    BY <1>0, <1>2, <1>3, UnlinkedChain
  <2>2. \A i \in 1..(m - 1) : w[i] = IF i < p THEN s[i] ELSE s[i + 1]
    BY DEF Cut
  <2> QED BY <2>1, <2>2 DEF e
<1> HIDE DEF w
<1>10. m = 1 => c.prev[e] = NULL /\ c.next[e] = NULL
  BY DEF Holds, Chain, e
<1>11. /\ r \in Cache /\ SameContent(r, b) /\ r.size = m
       /\ t \in [1..m -> Entry] /\ Chain(r, t, m)
  <2>1. m - 1 \in Nat /\ (m - 1) + 1 = m
    BY <1>0
  <2>2. m - 1 = 0 => more.prev[e] = NULL /\ more.next[e] = NULL
    BY <1>0, <1>4, <1>7, <1>10
  <2>3. /\ r \in Cache /\ SameContent(r, more) /\ r.size = more.size
        /\ t \in [1..((m - 1) + 1) -> Entry] /\ Chain(r, t, (m - 1) + 1)
    <3> HIDE DEF t
    <3>1. \A i \in 1..(m - 1) : w[i] # e
      BY <1>9
    <3>2. r \in Cache /\ SameContent(r, more) /\ r.size = more.size
      BY <1>0, <1>6, <1>7, <1>8, <1>9, <2>1, <2>2, <3>1, LinkedChain
    <3>3. t \in [1..((m - 1) + 1) -> Entry] /\ Chain(r, t, (m - 1) + 1)
      BY <1>0, <1>6, <1>7, <1>8, <1>9, <2>1, <2>2, <3>1, LinkedChain DEF t
    <3> QED BY <3>2, <3>3
  <2> QED BY <1>7, <2>1, <2>3 DEF SameContent
<1>12. \A i \in 1..m : t[i] = IF i = 1 THEN s[p] ELSE IF i <= p THEN s[i - 1] ELSE s[i]
  BY <1>0, <1>9 DEF Onto, e
<1> HIDE DEF t
<1>13. {t[i] : i \in 1..m} = {s[i] : i \in 1..m}
  <2>1. ASSUME NEW i \in 1..m
        PROVE  t[i] \in {s[j] : j \in 1..m}
    BY <1>0, <1>12
  <2>2. ASSUME NEW i \in 1..m
        PROVE  s[i] \in {t[j] : j \in 1..m}
    <3>1. CASE i = p
      BY <1>0, <1>12, <3>1
    <3>2. CASE i < p
      <4>1. i + 1 \in 1..m /\ t[i + 1] = s[i]
        BY <1>0, <1>12, <3>2
      <4> QED BY <4>1
    <3>3. CASE i > p
      BY <1>0, <1>12, <3>3
    <3> QED BY <3>1, <3>2, <3>3
  <2> QED BY <2>1, <2>2
<1>14. r.map = c.map /\ r.key = c.key /\ r.live = c.live
  BY <1>2, <1>11 DEF SameContent
<1>15. \A i \in 1..m : r.map[r.key[t[i]]] = t[i]
  BY <1>0, <1>12, <1>14 DEF Holds
<1>16. Holds(r, t, m)
  BY <1>11, <1>13, <1>14, <1>15 DEF Holds
<1> QED
  BY <1>2, <1>11, <1>14, <1>16 DEF SameContent, r, t, w, e

\* The memory is not used up by a list.
LEMMA FreeEntry ==
  ASSUME NEW c \in Cache, NEW m \in 0..Capacity, NEW s \in [1..m -> Entry],
         Holds(c, s, m)
  PROVE  malloc(c) \in Entry /\ malloc(c) \notin c.live
<1>1. \E e \in Entry : e \notin c.live
  <2> SUFFICES ASSUME Entry \subseteq c.live
               PROVE  FALSE
    OBVIOUS
  <2>1. c.live = Entry /\ c.live = {s[i] : i \in 1..m}
    BY DEF Cache, Holds
  <2>2. s \in Surjection(1..m, Entry)
    BY <2>1 DEF Surjection
  <2>3. IsFiniteSet(1..m) /\ Cardinality(1..m) = m /\ m \in Nat /\ Capacity \in Nat
    <3>1. m \in Nat /\ Capacity \in Nat
      BY LruAssumption
    <3> QED BY <3>1, FS_Interval
  <2>4. IsFiniteSet(Entry) /\ Cardinality(Entry) <= m
    BY <2>2, <2>3, FS_Surjection
  <2>5. Cardinality(Entry) \in Nat
    BY <2>4, FS_CardinalityType
  <2> QED BY <2>3, <2>4, <2>5, LruAssumption
<1> QED BY <1>1 DEF malloc

\* The entries of c, with the new entry e of slot k before them, are what r has.
Inserted(r, c, s, m, e, k) ==
  /\ Chain(r, Onto(e, s, m), m + 1)
  /\ r.size = m + 1
  /\ r.live = {e} \cup {s[i] : i \in 1..m}
  /\ r.key[e] = k
  /\ \A i \in 1..m : r.key[s[i]] = c.key[s[i]]
  /\ \A j \in Bucket : r.map[j] = IF j = k THEN e ELSE c.map[j]

LEMMA HoldsAdded ==
  ASSUME NEW c \in Cache, NEW m \in Nat, NEW s \in [1..m -> Entry], Holds(c, s, m),
         NEW e \in Entry, e \notin c.live, NEW k \in Bucket,
         c.map[k] = NULL, NEW r \in Cache, Inserted(r, c, s, m, e, k)
  PROVE  Holds(r, Onto(e, s, m), m + 1)
<1> DEFINE t == Onto(e, s, m)
<1>0. /\ Chain(r, t, m + 1) /\ r.size = m + 1
      /\ r.live = {e} \cup {s[i] : i \in 1..m}
      /\ r.key[e] = k /\ \A i \in 1..m : r.key[s[i]] = c.key[s[i]]
      /\ \A j \in Bucket : r.map[j] = IF j = k THEN e ELSE c.map[j]
  BY DEF Inserted
<1>1. \A i \in 1..(m + 1) : t[i] = IF i = 1 THEN e ELSE s[i - 1]
  BY DEF Onto
<1>2. /\ \A i \in 1..m : s[i] \in c.live /\ c.key[s[i]] \in Bucket /\ s[i] \in Entry
      /\ \A i \in 1..m : c.map[c.key[s[i]]] = s[i]
  BY DEF Holds, Cache
<1>3. \A x \in Entry : x # NULL
  BY LruAssumption
<1> HIDE DEF t
<1>4. ASSUME NEW i \in 1..m
      PROVE  c.key[s[i]] # k /\ r.map[c.key[s[i]]] = s[i]
  <2>1. c.key[s[i]] # k
    BY <1>2, <1>3
  <2> QED BY <1>0, <1>2, <2>1
<1>5. \A i \in 1..(m + 1) : r.map[r.key[t[i]]] = t[i]
  <2> SUFFICES ASSUME NEW i \in 1..(m + 1)
               PROVE  r.map[r.key[t[i]]] = t[i]
    OBVIOUS
  <2>1. CASE i = 1
    BY <1>0, <1>1, <2>1
  <2>2. CASE i # 1
    <3>1. i - 1 \in 1..m /\ t[i] = s[i - 1]
      BY <1>1, <2>2
    <3> QED BY <1>0, <1>4, <3>1
  <2> QED BY <2>1, <2>2
<1>6. r.live = {t[i] : i \in 1..(m + 1)}
  <2>1. ASSUME NEW i \in 1..(m + 1)
        PROVE  t[i] \in r.live
    <3>1. i = 1 \/ (i - 1 \in 1..m /\ t[i] = s[i - 1])
      BY <1>1
    <3>2. \A j \in 1..m : s[j] \in r.live
      BY <1>0
    <3>3. e \in r.live
      BY <1>0
    <3> QED BY <1>1, <3>1, <3>2, <3>3
  <2>2. e \in {t[i] : i \in 1..(m + 1)}
    <3>1. 1 \in 1..(m + 1) /\ t[1] = e
      BY <1>1
    <3> QED BY <3>1
  <2>3. ASSUME NEW i \in 1..m
        PROVE  s[i] \in {t[j] : j \in 1..(m + 1)}
    <3>1. i + 1 \in 1..(m + 1) /\ t[i + 1] = s[i]
      BY <1>1
    <3> QED BY <3>1
  <2> QED BY <1>0, <2>1, <2>2, <2>3
<1>7. ASSUME NEW j \in Bucket, r.map[j] # NULL
      PROVE  r.map[j] \in r.live /\ r.key[r.map[j]] = j
  <2>1. CASE j = k
    BY <1>0, <2>1
  <2>2. CASE j # k
    <3>1. r.map[j] = c.map[j] /\ c.map[j] \in c.live /\ c.key[c.map[j]] = j
      BY <1>0, <1>7, <2>2 DEF Holds
    <3>2. PICK i \in 1..m : c.map[j] = s[i]
      BY <3>1 DEF Holds
    <3> QED BY <1>0, <3>1, <3>2
  <2> QED BY <2>1, <2>2
<1> QED BY <1>0, <1>5, <1>6, <1>7 DEF Holds, t

\* A new entry for slot k.
LEMMA NewEntry ==
  ASSUME NEW c \in Cache, NEW m \in Nat, NEW s \in [1..m -> Entry],
         Holds(c, s, m), NEW e \in Entry, e \notin c.live, NEW k \in Bucket,
         NEW d \in Nat
  PROVE  LET b == newCacheEntry(c, e, k, d)
         IN /\ b \in Cache /\ b.size = m /\ Chain(b, s, m)
            /\ b.prev[e] = NULL /\ b.next[e] = NULL
            /\ b.map = c.map /\ b.live = c.live \cup {e}
            /\ b.key = [c.key EXCEPT ![e] = k]
            /\ b.data = [c.data EXCEPT ![e] = d]
<1> DEFINE b == newCacheEntry(c, e, k, d)
<1>1. /\ b.head = c.head /\ b.tail = c.tail /\ b.size = m /\ b.map = c.map
      /\ b.live = c.live \cup {e} /\ b.key = [c.key EXCEPT ![e] = k]
      /\ b.data = [c.data EXCEPT ![e] = d]
      /\ b.prev = [c.prev EXCEPT ![e] = NULL]
      /\ b.next = [c.next EXCEPT ![e] = NULL]
  BY DEF newCacheEntry, Cache, Holds
<1>2. b \in Cache
  BY DEF newCacheEntry, Cache, Pointer
<1> HIDE DEF b
<1>3. c.prev \in [Entry -> Pointer] /\ c.next \in [Entry -> Pointer]
  BY DEF Cache
<1>4. \A i \in 1..m : s[i] # e /\ s[i] \in Entry
  BY DEF Holds
<1>5. Chain(c, s, m)
  BY DEF Holds
<1>6. Chain(b, s, m)
  <2>1. \A i \in 1..m : b.prev[s[i]] = c.prev[s[i]] /\ b.next[s[i]] = c.next[s[i]]
    BY <1>1, <1>3, <1>4
  <2> QED BY <1>1, <1>5, <2>1 DEF Chain
<1> QED BY <1>1, <1>2, <1>3, <1>6 DEF b

\* The entry is put into the hash map.
LEMMA MappedCache ==
  ASSUME NEW c \in Cache, NEW e \in Entry, NEW k \in Bucket
  PROVE  LET r == [c EXCEPT !.map[k] = e]
         IN /\ r \in Cache /\ r.size = c.size /\ r.head = c.head /\ r.tail = c.tail
            /\ r.map = [c.map EXCEPT ![k] = e] /\ r.live = c.live
            /\ r.key = c.key /\ r.data = c.data
            /\ r.prev = c.prev /\ r.next = c.next
<1> DEFINE r == [c EXCEPT !.map[k] = e]
<1>1. /\ r.size = c.size /\ r.head = c.head /\ r.tail = c.tail
      /\ r.map = [c.map EXCEPT ![k] = e] /\ r.live = c.live
      /\ r.key = c.key /\ r.data = c.data
      /\ r.prev = c.prev /\ r.next = c.next
  BY DEF Cache
<1>2. r \in Cache
  BY DEF Cache, Pointer
<1> QED BY <1>1, <1>2

\* A list that lacks the slot of a bucket is not full: its entries have
\* buckets of their own.  No entry is ever evicted.
LEMMA NotFull ==
  ASSUME NEW c \in Cache, NEW m \in 0..Capacity, NEW s \in [1..m -> Entry],
         Holds(c, s, m), NEW k \in Bucket, c.map[k] = NULL
  PROVE  m < Capacity
<1> DEFINE B == Bucket \ {k}
           f == [i \in 1..m |-> c.key[s[i]]]
<1>1. m \in Nat /\ Capacity \in Nat
  BY LruAssumption
<1>2. IsFiniteSet(Bucket) /\ Cardinality(Bucket) = Capacity
  BY <1>1, LruAssumption, FS_Interval DEF Bucket
<1>3. IsFiniteSet(B) /\ Cardinality(B) = Capacity - 1
  BY <1>2, FS_RemoveElement
<1>4. \A i \in 1..m : c.map[c.key[s[i]]] = s[i] /\ s[i] # NULL /\ c.key[s[i]] \in Bucket
  BY LruAssumption DEF Holds, Cache
<1>5. f \in [1..m -> B]
  BY <1>4
<1>6. \A i, j \in 1..m : f[i] = f[j] => i = j
  BY <1>4 DEF Holds, Chain
<1>7. f \in Injection(1..m, B)
  <2> HIDE DEF f, B
  <2> QED BY <1>5, <1>6 DEF Injection, IsInjective
<1>8. Cardinality(1..m) <= Cardinality(B)
  <2> HIDE DEF f, B
  <2> QED BY <1>3, <1>7, FS_Injection
<1>9. Cardinality(1..m) = m
  BY <1>1, FS_Interval
<1> QED BY <1>1, <1>3, <1>8, <1>9

\* A slot that is not in the list comes to its head.
LEMMA AddedList ==
  ASSUME NEW c \in Cache, NEW m \in 0..Capacity, NEW s \in [1..m -> Entry],
         Holds(c, s, m), NEW k \in Bucket, NEW d \in Nat, c.map[k] = NULL
  PROVE  LET r == LRUCacheSet(c, k, d)
             e == malloc(c)
         IN /\ m < Capacity
            /\ r \in Cache
            /\ Onto(e, s, m) \in [1..(m + 1) -> Entry]
            /\ Holds(r, Onto(e, s, m), m + 1)
            /\ r.key[e] = k /\ r.data[e] = d
            /\ \A i \in 1..m : r.key[s[i]] = c.key[s[i]]
<1> DEFINE r == LRUCacheSet(c, k, d)
           e == malloc(c)
           b == newCacheEntry(c, e, k, d)
           more == [b EXCEPT !.size = b.size + 1]
           in == Linked(more, e)
<1>0. m \in Nat /\ Capacity \in Nat /\ m < Capacity /\ c.size = m
  BY LruAssumption, NotFull DEF Holds
<1>1. e \in Entry /\ e \notin c.live
  BY FreeEntry
<1>2. /\ b \in Cache /\ b.size = m /\ Chain(b, s, m)
      /\ b.prev[e] = NULL /\ b.next[e] = NULL
      /\ b.map = c.map /\ b.live = c.live \cup {e}
      /\ b.key = [c.key EXCEPT ![e] = k]
      /\ b.data = [c.data EXCEPT ![e] = d]
  <2> HIDE DEF e
  <2> QED BY <1>0, <1>1, NewEntry
<1>3. r = [in EXCEPT !.map[k] = e]
  <2>1. ~Overflows(c) /\ ~Overflows(b)
    BY <1>0, <1>2 DEF Overflows
  <2>2. insertToListHead(b, e) = in
    BY <2>1 DEF insertToListHead
  <2>3. r = Added(c, k, d)
    BY DEF LRUCacheSet
  <2> QED BY <2>1, <2>2, <2>3 DEF Added
<1> HIDE DEF e, r, b
<1>4. \A i \in 1..m : s[i] # e /\ s[i] \in Entry /\ s[i] \in c.live
  BY <1>1 DEF Holds
<1>5. /\ more \in Cache /\ SameContent(more, b) /\ more.size = m + 1
      /\ more.head = b.head /\ more.tail = b.tail
      /\ more.prev = b.prev /\ more.next = b.next
  <2>1. b.size + 1 \in Nat /\ b.size + 1 = m + 1
    BY <1>0, <1>2
  <2> QED BY <1>2, <2>1, Resized
<1> HIDE DEF more
<1>6. Chain(more, s, m)
  BY <1>2, <1>5, ChainKept
<1>7. Onto(e, s, m) \in [1..(m + 1) -> Entry]
  BY <1>0, <1>1, <1>4 DEF Onto
<1>8. /\ in \in Cache /\ SameContent(in, more) /\ in.size = more.size
      /\ Chain(in, Onto(e, s, m), m + 1)
  <2>1. more.prev[e] = NULL /\ more.next[e] = NULL
    BY <1>2, <1>5
  <2> QED BY <1>0, <1>1, <1>4, <1>5, <1>6, <2>1, LinkedChain
<1> HIDE DEF in
<1>9. /\ r \in Cache /\ r.size = in.size /\ r.head = in.head /\ r.tail = in.tail
      /\ r.map = [in.map EXCEPT ![k] = e] /\ r.live = in.live
      /\ r.key = in.key /\ r.data = in.data
      /\ r.prev = in.prev /\ r.next = in.next
  BY <1>1, <1>3, <1>8, MappedCache
<1>10. Chain(r, Onto(e, s, m), m + 1)
  BY <1>8, <1>9, ChainKept
<1>11. /\ r.map = [c.map EXCEPT ![k] = e] /\ r.live = c.live \cup {e}
       /\ r.key = [c.key EXCEPT ![e] = k] /\ r.data = [c.data EXCEPT ![e] = d]
       /\ r.size = m + 1
  BY <1>2, <1>5, <1>8, <1>9 DEF SameContent
<1>12. /\ r.key[e] = k /\ r.data[e] = d
       /\ \A i \in 1..m : r.key[s[i]] = c.key[s[i]]
  BY <1>1, <1>4, <1>11 DEF Cache
<1>13. r.live = {e} \cup {s[i] : i \in 1..m}
  BY <1>11 DEF Holds
<1>14. \A j \in Bucket : r.map[j] = IF j = k THEN e ELSE c.map[j]
  BY <1>11 DEF Cache
<1>15. Holds(r, Onto(e, s, m), m + 1)
  <2>1. Inserted(r, c, s, m, e, k)
    BY <1>10, <1>11, <1>12, <1>13, <1>14 DEF Inserted
  <2> QED BY <1>0, <1>1, <1>9, <2>1, HoldsAdded
<1> QED BY <1>0, <1>7, <1>9, <1>12, <1>15 DEF r, e

-----------------------------------------------------------------------------
(* Going through a list.                                                   *)

\* Every set of numbers that is not empty has a least element.
LEMMA Least ==
  ASSUME NEW T \in SUBSET Nat, T # {}
  PROVE  \E x \in T : \A y \in T : x <= y
<1>1. \E R : /\ IsWellFoundedOn(R, Nat)
             /\ \A x, y \in Nat : <<x, y>> \in R <=> x < y
  <2> DEFINE R == OpToRel(<, Nat)
  <2>1. IsWellFoundedOn(R, Nat)
    BY NatLessThanWellFounded
  <2>2. \A x, y \in Nat : <<x, y>> \in R <=> x < y
    BY DEF OpToRel
  <2> HIDE DEF R
  <2> QED BY <2>1, <2>2
<1>2. PICK R : /\ IsWellFoundedOn(R, Nat)
               /\ \A x, y \in Nat : <<x, y>> \in R <=> x < y
  BY <1>1
<1>3. IsWellFoundedOn(R, Nat) /\ T \subseteq Nat
  BY <1>2
<1>4. PICK x \in T : \A y \in T : ~(<<y, x>> \in R)
  BY <1>3, WFMin, Zenon
<1>5. ASSUME NEW y \in T
      PROVE  x <= y
  <2>1. x \in Nat /\ y \in Nat /\ ~(<<y, x>> \in R)
    BY <1>3, <1>4
  <2>2. ~(y < x)
    BY <1>2, <2>1
  <2> QED BY <2>1, <2>2
<1> QED BY <1>5

\* Two functions that agree at the start, and after every place they agree at,
\* are equal: if they were not, there would be a first difference.
LEMMA NoFirstDifference ==
  ASSUME NEW m \in Nat, NEW f, NEW g,
         \A i \in 0..m : (i > 0 => f[i - 1] = g[i - 1]) => f[i] = g[i]
  PROVE  \A i \in 0..m : f[i] = g[i]
<1> DEFINE T == {i \in 0..m : f[i] # g[i]}
<1> SUFFICES ASSUME T # {}
             PROVE  FALSE
  OBVIOUS
<1>0. T \in SUBSET Nat
  OBVIOUS
<1>1. PICK i \in T : \A j \in T : i <= j
  <2> HIDE DEF T
  <2> QED BY <1>0, Least
<1>2. i \in 0..m /\ f[i] # g[i]
  OBVIOUS
<1>3. ASSUME i > 0
      PROVE  f[i - 1] = g[i - 1]
  <2>1. i - 1 \in 0..m /\ ~(i <= i - 1)
    BY <1>2, <1>3
  <2> QED BY <1>1, <2>1
<1> QED BY <1>2, <1>3

\* From the head along next one meets the entries of the list in their order.
LEMMA OrderOfList ==
  ASSUME NEW c \in Cache, NEW m \in Nat, NEW s \in [1..m -> Entry], Holds(c, s, m)
  PROVE  Order(c) = s
<1> DEFINE step(at) ==
             [i \in 1..c.size |-> IF i = 1 THEN c.head ELSE c.next[at[i - 1]]]
           at == CHOOSE at : at = step(at)
<1>0. c.size = m
  BY DEF Holds
<1>1. s = step(s)
  <2>1. \A i \in 1..m : s[i] = IF i = 1 THEN c.head ELSE c.next[s[i - 1]]
    BY DEF Holds, Chain
  <2> QED BY <1>0, <2>1
<1>2. at = step(at)
  <2> HIDE DEF step
  <2> QED BY <1>1, Zenon
<1>3. Order(c) = [i \in 1..c.size |-> at[i]]
  BY Zenon DEF Order
<1> HIDE DEF at
<1>4. \A i \in 1..m : at[i] = s[i]
  <2> DEFINE f == [i \in 0..m |-> IF i = 0 THEN NULL ELSE at[i]]
             g == [i \in 0..m |-> IF i = 0 THEN NULL ELSE s[i]]
  <2>1. ASSUME NEW i \in 0..m, i > 0 => f[i - 1] = g[i - 1]
        PROVE  f[i] = g[i]
    <3>1. CASE i = 0
      BY <3>1
    <3>2. CASE i = 1
      BY <1>0, <1>1, <1>2, <3>2
    <3>3. CASE i > 1
      <4>1. at[i - 1] = s[i - 1] /\ i \in 1..m
        BY <2>1, <3>3
      <4> QED BY <1>0, <1>1, <1>2, <3>3, <4>1
    <3> QED BY <3>1, <3>2, <3>3
  <2> HIDE DEF f, g
  <2>2. \A i \in 0..m : f[i] = g[i]
    BY <2>1, NoFirstDifference
  <2> QED BY <2>2 DEF f, g
<1> QED BY <1>0, <1>3, <1>4

-----------------------------------------------------------------------------
(* What a use of a slot makes of the list.                                 *)

\* The slots of the entries of a list.
SlotList(c, s, m) == [i \in 1..m |-> c.key[s[i]]]

LEMMA SlotsAreSequence ==
  ASSUME NEW m \in Nat, NEW x \in [1..m -> Bucket]
  PROVE  x \in Seq(Bucket) /\ Len(x) = m
<1>1. x \in Seq(Bucket)
  BY SeqDef
<1>2. Len(x) \in Nat /\ DOMAIN x = 1..Len(x)
  BY <1>1, LenProperties
<1>3. Len(x) = m
  BY <1>2
<1> QED BY <1>1, <1>3

\* A slot before a list.
LEMMA OneBefore ==
  ASSUME NEW m \in Nat, NEW x \in Seq(Bucket), Len(x) = m, NEW k \in Bucket
  PROVE  <<k>> \o x = [i \in 1..(m + 1) |-> IF i = 1 THEN k ELSE x[i - 1]]
<1>1. <<k>> \in Seq(Bucket) /\ Len(<<k>>) = 1 /\ <<k>>[1] = k
  OBVIOUS
<1>2. /\ <<k>> \o x \in Seq(Bucket)
      /\ Len(<<k>> \o x) = 1 + m
      /\ \A i \in 1..(1 + m) : (<<k>> \o x)[i] = IF i <= 1 THEN <<k>>[i] ELSE x[i - 1]
  BY <1>1, ConcatProperties
<1> DEFINE y == <<k>> \o x
<1>3. /\ y \in Seq(Bucket) /\ Len(y) = m + 1
      /\ \A i \in 1..(m + 1) : y[i] = IF i = 1 THEN k ELSE x[i - 1]
  BY <1>1, <1>2
<1> HIDE DEF y
<1>4. DOMAIN y = 1..(m + 1) /\ y = [i \in DOMAIN y |-> y[i]]
  BY <1>3, LenProperties
<1>5. y = [i \in 1..(m + 1) |-> IF i = 1 THEN k ELSE x[i - 1]]
  BY <1>3, <1>4
<1> QED BY <1>5 DEF y

\* A slot of the list that is used again comes to its head.
LEMMA TouchedAgain ==
  ASSUME NEW m \in Nat, NEW x \in [1..m -> Bucket], NEW p \in 1..m,
         \A i \in 1..m : x[i] = x[p] => i = p
  PROVE  Recent!Touched(x, x[p])
           = [i \in 1..m |-> IF i = 1 THEN x[p] ELSE IF i <= p THEN x[i - 1] ELSE x[i]]
<1>1. x \in Seq(Bucket) /\ Len(x) = m
  BY SlotsAreSequence
<1>2. (CHOOSE q \in 1..m : x[q] = x[p]) = p
  OBVIOUS
<1> DEFINE a == SubSeq(x, 1, p - 1)
           b == SubSeq(x, p + 1, m)
           w == a \o b
<1>3. Recent!Touched(x, x[p]) = <<x[p]>> \o w
  BY <1>1, <1>2 DEF Recent!Touched, Recent!Without
<1>4. /\ a \in Seq(Bucket) /\ Len(a) = p - 1
      /\ \A i \in 1..(p - 1) : a[i] = x[i]
  BY <1>1, SubSeqProperties
<1>5. /\ b \in Seq(Bucket) /\ Len(b) = m - p
      /\ \A i \in 1..(m - p) : b[i] = x[p + i]
  BY <1>1, SubSeqProperties
<1> HIDE DEF a, b
<1>6. /\ w \in Seq(Bucket) /\ Len(w) = m - 1
      /\ \A i \in 1..(m - 1) : w[i] = IF i < p THEN x[i] ELSE x[i + 1]
  <2>1. /\ w \in Seq(Bucket) /\ Len(w) = Len(a) + Len(b)
        /\ \A i \in 1..(Len(a) + Len(b)) : w[i] = IF i <= Len(a) THEN a[i] ELSE b[i - Len(a)]
    BY <1>4, <1>5, ConcatProperties
  <2> HIDE DEF w
  <2>2. ASSUME NEW i \in 1..(m - 1)
        PROVE  w[i] = IF i < p THEN x[i] ELSE x[i + 1]
    <3>1. w[i] = IF i <= p - 1 THEN a[i] ELSE b[i - (p - 1)]
      BY <1>4, <1>5, <2>1
    <3>2. CASE i < p
      BY <1>4, <3>1, <3>2
    <3>3. CASE ~(i < p)
      <4>1. i - (p - 1) \in 1..(m - p) /\ p + (i - (p - 1)) = i + 1
        BY <3>3
      <4> QED BY <1>5, <3>1, <3>3, <4>1
    <3> QED BY <3>2, <3>3
  <2> QED BY <1>4, <1>5, <2>1, <2>2
<1> HIDE DEF w
<1>7. <<x[p]>> \o w = [i \in 1..((m - 1) + 1) |-> IF i = 1 THEN x[p] ELSE w[i - 1]]
  BY <1>6, OneBefore
<1>8. \A i \in 1..m :
        i # 1 => w[i - 1] = IF i <= p THEN x[i - 1] ELSE x[i]
  BY <1>6
<1> QED BY <1>3, <1>7, <1>8

\* A new slot comes to the head of a list.
LEMMA TouchedFirst ==
  ASSUME NEW m \in Nat, NEW x \in [1..m -> Bucket], NEW k \in Bucket,
         \A i \in 1..m : x[i] # k
  PROVE  Recent!Touched(x, k) = [i \in 1..(m + 1) |-> IF i = 1 THEN k ELSE x[i - 1]]
<1>1. x \in Seq(Bucket) /\ Len(x) = m
  BY SlotsAreSequence
<1>2. Recent!Touched(x, k) = <<k>> \o x
  BY <1>1 DEF Recent!Touched
<1> QED BY <1>1, <1>2, OneBefore

\* LRUCacheSet leaves a list, and its slots are those used last.
LEMMA SetList ==
  ASSUME NEW c \in Cache, NEW m \in 0..Capacity, NEW s \in [1..m -> Entry],
         Holds(c, s, m), NEW k \in Bucket, NEW d \in Nat
  PROVE  LET r == LRUCacheSet(c, k, d)
         IN /\ r \in Cache
            /\ \E n \in 0..Capacity : \E t \in [1..n -> Entry] :
                 /\ Holds(r, t, n)
                 /\ SlotList(r, t, n) = Recent!Touched(SlotList(c, s, m), k)
<1> DEFINE r == LRUCacheSet(c, k, d)
           x == SlotList(c, s, m)
<1>0. m \in Nat /\ Capacity \in Nat /\ m <= Capacity /\ c.key \in [Entry -> Bucket]
  BY LruAssumption DEF Cache
<1>1. x \in [1..m -> Bucket] /\ \A i \in 1..m : x[i] = c.key[s[i]]
  BY <1>0 DEF SlotList
<1> HIDE DEF x
<1>2. CASE c.map[k] # NULL
  <2>1. PICK p \in 1..m : c.map[k] = s[p] /\ x[p] = k
    BY <1>1, <1>2 DEF Holds
  <2> DEFINE t == Onto(s[p], Cut(s, m, p), m - 1)
  <2>2. r \in Cache /\ t \in [1..m -> Entry] /\ Holds(r, t, m) /\ r.key = c.key
    <3>1. r \in Cache
      BY <2>1, RenewedList
    <3>2. t \in [1..m -> Entry]
      BY <2>1, RenewedList
    <3>3. Holds(r, t, m)
      BY <2>1, RenewedList
    <3>4. r.key = c.key
      BY <2>1, RenewedList
    <3> QED BY <3>1, <3>2, <3>3, <3>4
  <2>3. \A i \in 1..m : t[i] = IF i = 1 THEN s[p] ELSE IF i <= p THEN s[i - 1] ELSE s[i]
    BY <1>0 DEF Onto, Cut
  <2> HIDE DEF t, r
  <2>4. \A i \in 1..m : x[i] = x[p] => i = p
    <3>1. \A i \in 1..m : c.map[x[i]] = s[i]
      BY <1>1 DEF Holds
    <3> QED BY <3>1 DEF Holds, Chain
  <2>5. SlotList(r, t, m)
          = [i \in 1..m |-> IF i = 1 THEN x[p] ELSE IF i <= p THEN x[i - 1] ELSE x[i]]
    BY <1>0, <1>1, <2>2, <2>3 DEF SlotList
  <2>6. SlotList(r, t, m) = Recent!Touched(x, k)
    BY <1>0, <1>1, <2>1, <2>4, <2>5, TouchedAgain
  <2> QED BY <2>2, <2>6 DEF r, x
<1>3. CASE c.map[k] = NULL
  <2> DEFINE e == malloc(c)
             t == Onto(e, s, m)
  <2>1. m + 1 \in 0..Capacity
    BY <1>0, <1>3, NotFull
  <2>2. r \in Cache
    BY <1>3, AddedList
  <2>3. t \in [1..(m + 1) -> Entry] /\ Holds(r, t, m + 1)
    BY <1>3, AddedList
  <2>4. r.key[e] = k
    BY <1>3, AddedList
  <2>5. \A i \in 1..m : r.key[s[i]] = c.key[s[i]]
    BY <1>3, AddedList
  <2>6. \A i \in 1..(m + 1) : t[i] = IF i = 1 THEN e ELSE s[i - 1]
    BY DEF Onto
  <2>7. \A i \in 1..m : x[i] # k
    <3>1. \A i \in 1..m : c.map[x[i]] # NULL
      BY <1>1, LruAssumption DEF Holds
    <3> QED BY <1>3, <3>1
  <2> HIDE DEF t, r, e
  <2>8. Recent!Touched(x, k) = [i \in 1..(m + 1) |-> IF i = 1 THEN k ELSE x[i - 1]]
    BY <1>0, <1>1, <2>7, TouchedFirst
  <2>9. \A i \in 1..(m + 1) : r.key[t[i]] = IF i = 1 THEN k ELSE x[i - 1]
    BY <1>0, <1>1, <2>4, <2>5, <2>6
  <2>10. SlotList(r, t, m + 1) = Recent!Touched(x, k)
    BY <2>8, <2>9 DEF SlotList
  <2> QED BY <2>1, <2>2, <2>3, <2>10 DEF r, x
<1> QED BY <1>2, <1>3

-----------------------------------------------------------------------------
(* What is received.                                                       *)

\* A new cache has an empty list.
LEMMA CreatedList ==
  \E s \in [1..0 -> Entry] : /\ LRUCacheCreate \in Cache
                             /\ Holds(LRUCacheCreate, s, 0)
                             /\ SlotList(LRUCacheCreate, s, 0) = <<>>
<1> DEFINE s == [i \in 1..0 |-> NULL]
           c == LRUCacheCreate
<1>1. c \in Cache
  BY LruAssumption DEF LRUCacheCreate, Cache, Pointer, Bucket
<1>2. /\ c.size = 0 /\ c.head = NULL /\ c.tail = NULL /\ c.live = {}
      /\ \A k \in Bucket : c.map[k] = NULL
  BY DEF LRUCacheCreate
<1> HIDE DEF c
<1>3. s \in [1..0 -> Entry] /\ 1..0 = {}
  OBVIOUS
<1>4. Holds(c, s, 0)
  BY <1>2, <1>3 DEF Holds, Chain
<1>5. SlotList(c, s, 0) = <<>>
  BY <1>3 DEF SlotList
<1> QED BY <1>1, <1>3, <1>4, <1>5 DEF c

\* To set the only entry of a list to what it is changes nothing.
LEMMA SetAgain ==
  ASSUME NEW c \in Cache, NEW s \in [1..1 -> Entry], Holds(c, s, 1),
         NEW k \in Bucket, c.key[s[1]] = k
  PROVE  LRUCacheSet(c, k, c.data[s[1]]) = c
<1> DEFINE e == s[1]
           d == c.data[e]
           b == [c EXCEPT !.data[c.map[k]] = d]
           u == [c EXCEPT !.head = NULL, !.tail = NULL]
           v == [u EXCEPT !.size = u.size - 1]
           more == [v EXCEPT !.size = v.size + 1]
           l == [more EXCEPT !.head = e, !.tail = e]
<1>1. /\ e \in Entry /\ e # NULL /\ c.size = 1 /\ c.head = e /\ c.tail = e
      /\ c.map[k] = e
  BY LruAssumption DEF Holds, Chain
<1> HIDE DEF e
<1>2. b = c
  <2>1. [c.data EXCEPT ![e] = c.data[e]] = c.data
    BY <1>1 DEF Cache
  <2> QED BY <1>1, <2>1 DEF Cache
<1>3. LRUCacheSet(c, k, d) = updateLRUList(c, e)
  <2>1. LRUCacheSet(c, k, d) = updateLRUList(b, c.map[k])
    BY <1>1 DEF LRUCacheSet, Renewed
  <2> QED BY <1>1, <1>2, <2>1
<1> HIDE DEF b
<1>4. removeFromList(c, e) = v
  <2>1. Unlinked(c, e) = u
    BY <1>1 DEF Unlinked
  <2>2. removeFromList(c, e) = [Unlinked(c, e) EXCEPT !.size = Unlinked(c, e).size - 1]
    BY <1>1 DEF removeFromList
  <2> QED BY <2>1, <2>2
<1>5. v.size = 0 /\ v.head = NULL /\ v.tail = NULL
  BY <1>1 DEF Cache
<1>6. insertToListHead(v, e) = Linked(more, e)
  <2>1. ~Overflows(v)
    BY <1>5, LruAssumption DEF Overflows
  <2> HIDE DEF v
  <2> QED BY <2>1 DEF insertToListHead
<1>7. more.head = NULL /\ more.tail = NULL
  BY <1>5 DEF Cache
<1>8. Linked(more, e) = l
  <2> HIDE DEF more
  <2> QED BY <1>7 DEF Linked
<1>9. l = c
  <2>1. v.size + 1 = 1
    BY <1>5
  <2>2. more = [c EXCEPT !.head = NULL, !.tail = NULL]
    BY <1>1, <2>1 DEF Cache
  <2> HIDE DEF more
  <2> QED BY <1>1, <2>2 DEF Cache
<1> QED BY <1>3, <1>4, <1>6, <1>8, <1>9 DEF updateLRUList, e

\* A slot that is not in the list becomes its first.
LEMMA AddedFirst ==
  ASSUME NEW c \in Cache, NEW m \in 0..Capacity, NEW s \in [1..m -> Entry],
         Holds(c, s, m), NEW k \in Bucket, NEW d \in Nat, c.map[k] = NULL
  PROVE  LET r == LRUCacheSet(c, k, d)
         IN r \in Cache /\ \E t \in [1..(m + 1) -> Entry] : /\ Holds(r, t, m + 1)
                                                            /\ r.key[t[1]] = k
                                                            /\ r.data[t[1]] = d
<1> DEFINE r == LRUCacheSet(c, k, d)
           e == malloc(c)
           t == Onto(e, s, m)
<1>1. r \in Cache
  BY AddedList
<1>2. t \in [1..(m + 1) -> Entry] /\ Holds(r, t, m + 1)
  BY AddedList
<1>3. r.key[e] = k
  BY AddedList
<1>4. r.data[e] = d
  BY AddedList
<1>5. t[1] = e
  BY LruAssumption DEF Onto
<1> HIDE DEF r, e, t
<1>6. \E x \in [1..(m + 1) -> Entry] :
        Holds(r, x, m + 1) /\ r.key[x[1]] = k /\ r.data[x[1]] = d
  BY <1>2, <1>3, <1>4, <1>5
<1> QED BY <1>1, <1>6 DEF r

\* What every message holds.
Blank == [i \in 1..Capacity |-> [slot |-> 0, opnum |-> 0]]

\* The list such a message stands for has slot 0 alone, with no operation.
LEMMA ReceivedBlank ==
  LET new == Received(Blank)
  IN /\ new \in Cache
     /\ \E s \in [1..1 -> Entry] : Holds(new, s, 1) /\ new.data[s[1]] = 0
<1> DEFINE c0 == LRUCacheCreate
           c1 == LRUCacheSet(c0, 0, 0)
           step(list) == [i \in 0..Len(Blank) |->
                            IF i = 0 THEN c0
                            ELSE LRUCacheSet(list[i - 1], Blank[i].slot, Blank[i].opnum)]
           list == CHOOSE list : list = step(list)
           f == [i \in 0..Capacity |-> IF i = 0 THEN c0 ELSE c1]
<1>0. Capacity \in Nat /\ Capacity >= 1 /\ 0 \in Bucket
  BY LruAssumption DEF Bucket
<1>1. c1 \in Cache /\ \E s \in [1..1 -> Entry] : /\ Holds(c1, s, 1)
                                                /\ c1.key[s[1]] = 0
                                                /\ c1.data[s[1]] = 0
  <2>1. c0 \in Cache /\ \E s \in [1..0 -> Entry] : Holds(c0, s, 0)
    BY CreatedList
  <2>2. c0.map[0] = NULL
    BY <1>0 DEF LRUCacheCreate
  <2>3. 0 \in 0..Capacity
    BY <1>0
  <2> HIDE DEF c0
  <2>4. PICK zero \in Nat : zero = 0
    OBVIOUS
  <2> HIDE <2>4
  <2>5. zero \in Bucket /\ zero \in 0..Capacity /\ c0.map[zero] = NULL
    BY <1>0, <2>2, <2>3, <2>4
  <2>6. PICK s \in [1..zero -> Entry] : Holds(c0, s, zero)
    BY <2>1, <2>4
  <2>7. LRUCacheSet(c0, zero, zero) \in Cache
    BY <2>1, <2>5, <2>6, AddedFirst
  <2>8. \E t \in [1..(zero + 1) -> Entry] :
          /\ Holds(LRUCacheSet(c0, zero, zero), t, zero + 1)
          /\ LRUCacheSet(c0, zero, zero).key[t[1]] = zero
          /\ LRUCacheSet(c0, zero, zero).data[t[1]] = zero
    BY <2>1, <2>5, <2>6, AddedFirst
  <2> QED BY <2>3, <2>4, <2>7, <2>8
<1>2. LRUCacheSet(c1, 0, 0) = c1
  <2>1. PICK s \in [1..1 -> Entry] : Holds(c1, s, 1) /\ c1.key[s[1]] = 0 /\ c1.data[s[1]] = 0
    BY <1>1
  <2> HIDE DEF c1
  <2>2. LRUCacheSet(c1, 0, c1.data[s[1]]) = c1
    BY <1>0, <1>1, <2>1, SetAgain
  <2> QED BY <2>1, <2>2
<1>3. /\ Len(Blank) = Capacity
      /\ \A i \in 1..Capacity : Blank[i].slot = 0 /\ Blank[i].opnum = 0
  BY <1>0 DEF Blank
<1> HIDE DEF c0
<1>4. f = step(f)
  <2>1. ASSUME NEW i \in 0..Capacity
        PROVE  f[i] = IF i = 0 THEN c0
                      ELSE LRUCacheSet(f[i - 1], Blank[i].slot, Blank[i].opnum)
    <3>1. CASE i = 0
      BY <3>1
    <3>2. CASE i = 1
      BY <1>0, <1>3, <3>2
    <3>3. CASE i > 1
      <4>1. i \in 1..Capacity /\ f[i] = c1 /\ f[i - 1] = c1
        BY <1>0, <3>3
      <4> HIDE DEF f, c1
      <4> QED BY <1>2, <1>3, <3>3, <4>1
    <3> QED BY <3>1, <3>2, <3>3
  <2>2. f = [i \in 0..Capacity |-> f[i]]
    OBVIOUS
  <2> HIDE DEF f
  <2> QED BY <1>3, <2>1, <2>2
<1>5. list = step(list)
  <2> HIDE DEF step, f
  <2> QED BY <1>4, Zenon
<1>6. Received(Blank) = list[Len(Blank)]
  BY Zenon DEF Received, c0
<1> HIDE DEF list, f, c1
<1>7. ASSUME NEW i \in 0..Capacity, i > 0 => list[i - 1] = f[i - 1]
      PROVE  list[i] = f[i]
  <2>1. list[i] = IF i = 0 THEN c0
                  ELSE LRUCacheSet(list[i - 1], Blank[i].slot, Blank[i].opnum)
    BY <1>3, <1>5
  <2>2. f[i] = IF i = 0 THEN c0
               ELSE LRUCacheSet(f[i - 1], Blank[i].slot, Blank[i].opnum)
    BY <1>3, <1>4
  <2> QED BY <1>7, <2>1, <2>2
<1>8. \A i \in 0..Capacity : list[i] = f[i]
  <2>1. Capacity \in Nat
    BY <1>0
  <2>2. \A i \in 0..Capacity : (i > 0 => list[i - 1] = f[i - 1]) => list[i] = f[i]
    BY <1>7
  <2> HIDE DEF step
  <2> HIDE <1>0, <1>7
  <2> QED BY <2>1, <2>2, NoFirstDifference
<1>9. f[Capacity] = c1
  BY <1>0 DEF f
<1> QED BY <1>0, <1>1, <1>3, <1>6, <1>8, <1>9

\* The one round of the merge finds the head of the local list, and its data
\* is not below what was received.
LEMMA MergedBlank ==
  ASSUME NEW c \in Cache, NEW m \in Nat, NEW s \in [1..m -> Entry],
         Holds(c, s, m), m # 0,
         NEW new \in Cache, NEW t \in [1..1 -> Entry], Holds(new, t, 1),
         new.data[t[1]] = 0
  PROVE  Merged(c, new).cache = c /\ Merged(c, new).dead = FALSE
<1> DEFINE entries == Order(new)
           first == [cache |-> c, local |-> c.head, dead |-> FALSE]
           step(round) == [i \in 0..Len(entries) |->
                             IF i = 0 THEN first
                                      ELSE Merge(round[i - 1], new, entries[i])]
           round == CHOOSE round : round = step(round)
           f == [i \in 0..1 |-> IF i = 0 THEN first ELSE Merge(first, new, entries[1])]
<1>1. entries = t /\ Len(entries) = 1
  <2>1. entries = t
    BY OrderOfList
  <2> QED BY <2>1, EntriesAreSequence
<1>2. Merged(c, new) = round[Len(entries)]
  BY Zenon DEF Merged
<1>3. f = step(f)
  <2> HIDE DEF first, entries
  <2> QED BY <1>1
<1>4. round = step(round)
  <2> HIDE DEF step, f
  <2> QED BY <1>3, Zenon
<1> HIDE DEF round, f, entries
<1>5. round[1] = Merge(first, new, t[1])
  <2> HIDE DEF first
  <2>1. round[0] = first
    BY <1>1, <1>4
  <2> QED BY <1>1, <1>4, <2>1
<1>6. c.head # NULL /\ c.head \in c.live /\ c.head \in Entry
  BY LruAssumption DEF Holds, Chain
<1>7. ~(0 > c.data[c.head])
  BY <1>6 DEF Cache
<1>8. Merge(first, new, t[1]).cache = c /\ Merge(first, new, t[1]).dead = FALSE
  BY <1>6, <1>7 DEF Merge
<1> QED BY <1>1, <1>2, <1>5, <1>8

-----------------------------------------------------------------------------
(* The lists of all nodes.                                                 *)

\* The pointers, the counter and the hash map of a cache are one list.
IsList(c) ==
  /\ c \in Cache
  /\ \E m \in 0..Capacity : \E s \in [1..m -> Entry] : Holds(c, s, m)

\* The slots of a cache, most recent first.
SlotsOf(c) ==
  LET s == Order(c)
  IN [i \in 1..Len(s) |-> c.key[s[i]]]

Lists == lru_hot \in [Node -> Cache] /\ \A n \in Node : IsList(lru_hot[n])

\* All messages under way are blank.
Traffic == bus \in [Node -> [Node -> Seq({Blank})]]

Deaths ==
  /\ down \in [Node -> BOOLEAN]
  /\ beyond \in [Node -> BOOLEAN]
  /\ \A n \in Node : down[n] => beyond[n]

LEMMA SlotsOfList ==
  ASSUME NEW c \in Cache, NEW m \in Nat, NEW s \in [1..m -> Entry], Holds(c, s, m)
  PROVE  SlotsOf(c) = SlotList(c, s, m)
<1>1. Order(c) = s /\ Len(s) = m
  BY OrderOfList, EntriesAreSequence
<1> QED BY <1>1 DEF SlotsOf, SlotList

\* LRUCacheSet makes a list of a list, and what it does to its slots is what
\* the abstract list does.
LEMMA SetIsTouch ==
  ASSUME NEW c, IsList(c), NEW k \in Bucket, NEW d \in Nat
  PROVE  /\ IsList(LRUCacheSet(c, k, d))
         /\ SlotsOf(LRUCacheSet(c, k, d)) = Recent!Touched(SlotsOf(c), k)
<1> DEFINE r == LRUCacheSet(c, k, d)
<1>1. c \in Cache
  BY DEF IsList
<1> PICK m \in 0..Capacity : \E s \in [1..m -> Entry] : Holds(c, s, m)
  BY DEF IsList
<1>2. PICK s \in [1..m -> Entry] : Holds(c, s, m)
  OBVIOUS
<1>3. r \in Cache
  BY <1>1, <1>2, SetList
<1>4. \E n \in 0..Capacity : \E t \in [1..n -> Entry] :
        /\ Holds(r, t, n)
        /\ SlotList(r, t, n) = Recent!Touched(SlotList(c, s, m), k)
  BY <1>1, <1>2, SetList
<1> HIDE DEF r
<1> PICK n \in 0..Capacity : \E t \in [1..n -> Entry] :
           /\ Holds(r, t, n)
           /\ SlotList(r, t, n) = Recent!Touched(SlotList(c, s, m), k)
  BY <1>4
<1>5. PICK t \in [1..n -> Entry] :
        /\ Holds(r, t, n)
        /\ SlotList(r, t, n) = Recent!Touched(SlotList(c, s, m), k)
  OBVIOUS
<1>6. m \in Nat /\ n \in Nat
  BY LruAssumption
<1>7. SlotsOf(c) = SlotList(c, s, m) /\ SlotsOf(r) = SlotList(r, t, n)
  BY <1>1, <1>2, <1>3, <1>5, <1>6, SlotsOfList
<1>8. IsList(r)
  BY <1>3, <1>5 DEF IsList
<1> QED BY <1>5, <1>7, <1>8 DEF r

\* A blank message changes neither the list of who receives it nor who is up.
LEMMA ReceivedInVain ==
  ASSUME Lists, Traffic, Deaths, NEW x \in Node, NEW y \in Node, ReceiveLru(x, y)
  PROVE  UNCHANGED <<lru_hot, down, beyond>> \/ Undefined(y)
<1> DEFINE mine == lru_hot[y]
           new == Received(Head(bus[x][y]))
           result == Merged(mine, new)
<1>1. Head(bus[x][y]) = Blank
  BY DEF Traffic, ReceiveLru
<1>2. new \in Cache /\ \E t \in [1..1 -> Entry] : Holds(new, t, 1) /\ new.data[t[1]] = 0
  BY <1>1, ReceivedBlank
<1>3. ~down[y] /\ (\/ UNCHANGED <<lru_hot, down, beyond>>
                   \/ /\ mine.size # 0
                      /\ lru_hot' = [lru_hot EXCEPT ![y] = result.cache]
                      /\ down' = [down EXCEPT ![y] = result.dead]
                      /\ UNCHANGED beyond
                   \/ Undefined(y))
  BY DEF ReceiveLru
<1> PICK m \in 0..Capacity : \E s \in [1..m -> Entry] : mine \in Cache /\ Holds(mine, s, m)
  BY DEF Lists, IsList
<1>4. PICK s \in [1..m -> Entry] : mine \in Cache /\ Holds(mine, s, m)
  OBVIOUS
<1> HIDE DEF new, mine, result
<1>5. CASE /\ mine.size # 0
           /\ lru_hot' = [lru_hot EXCEPT ![y] = result.cache]
           /\ down' = [down EXCEPT ![y] = result.dead]
           /\ UNCHANGED beyond
  <2>1. m \in Nat /\ m # 0
    BY <1>4, <1>5, LruAssumption DEF Holds
  <2>2. PICK t \in [1..1 -> Entry] : Holds(new, t, 1) /\ new.data[t[1]] = 0
    BY <1>2
  <2>3. result.cache = mine /\ result.dead = FALSE
    BY <1>2, <1>4, <2>1, <2>2, MergedBlank DEF result
  <2>4. result.cache = lru_hot[y] /\ result.dead = down[y]
    BY <1>3, <2>3 DEF mine, Deaths
  <2> QED BY <1>5, <2>4 DEF Lists, Deaths
<1> QED BY <1>3, <1>5

LEMMA NewList == IsList(LRUCacheCreate) /\ SlotsOf(LRUCacheCreate) = <<>>
<1>1. PICK s \in [1..0 -> Entry] : /\ LRUCacheCreate \in Cache
                                   /\ Holds(LRUCacheCreate, s, 0)
                                   /\ SlotList(LRUCacheCreate, s, 0) = <<>>
  BY CreatedList
<1>2. 0 \in 0..Capacity
  BY LruAssumption
<1>3. IsList(LRUCacheCreate)
  BY <1>1, <1>2 DEF IsList
<1>4. SlotsOf(LRUCacheCreate) = <<>>
  BY <1>1, SlotsOfList
<1> QED BY <1>3, <1>4

LEMMA ListsInit == Init => Lists /\ Traffic /\ Deaths
<1> SUFFICES ASSUME Init
             PROVE  Lists /\ Traffic /\ Deaths
  OBVIOUS
<1>1. IsList(LRUCacheCreate)
  BY NewList
<1>2. Lists
  BY <1>1 DEF Init, Lists, IsList
<1>3. Traffic
  BY DEF Init, Traffic
<1>4. Deaths
  BY DEF Init, Deaths
<1> QED BY <1>2, <1>3, <1>4

\* What each operation does to the lists: one slot is used, nothing is known of
\* one list any more, or none changes.
Used(n, k) ==
  /\ ~beyond[n] /\ UNCHANGED beyond
  /\ lru_hot' = [lru_hot EXCEPT ![n] = LRUCacheSet(@, k, 1)]

Effect ==
  \/ UNCHANGED <<lru_hot, beyond>>
  \/ \E n \in Node : Undefined(n) \/ \E k \in Bucket : Used(n, k)

LEMMA UndefinedKept ==
  ASSUME Lists, Deaths, NEW n \in Node, Undefined(n)
  PROVE  Lists' /\ Deaths'
<1>1. LRUCacheCreate \in Cache /\ IsList(LRUCacheCreate)
  BY NewList DEF IsList
<1>2. Lists'
  <2>1. lru_hot' = [lru_hot EXCEPT ![n] = LRUCacheCreate]
    BY DEF Undefined
  <2> QED BY <1>1, <2>1 DEF Lists
<1>3. Deaths'
  BY DEF Undefined, Deaths
<1> QED BY <1>2, <1>3

LEMMA ListsStep ==
  ASSUME Lists, Traffic, Deaths, [Next]_vars
  PROVE  /\ Lists' /\ Traffic' /\ Deaths'
         /\ Effect
<1>1. ASSUME NEW n \in Node, NEW k \in Slot, processCommand(n, k)
      PROVE  Lists' /\ Traffic' /\ Deaths' /\ Effect
  <2>1. Traffic'
    BY <1>1 DEF processCommand, Traffic
  <2>2. \/ UNCHANGED <<lru_hot, down, beyond>>
        \/ k \in Bucket /\ Used(n, k) /\ UNCHANGED down
        \/ Undefined(n)
    BY <1>1 DEF processCommand, Used, Defined
  <2>3. CASE UNCHANGED <<lru_hot, down, beyond>>
    BY <2>1, <2>3 DEF Lists, Deaths, Effect
  <2>4. CASE k \in Bucket /\ Used(n, k) /\ UNCHANGED down
    <3>1. IsList(LRUCacheSet(lru_hot[n], k, 1))
      BY <2>4, SetIsTouch DEF Lists
    <3>2. LRUCacheSet(lru_hot[n], k, 1) \in Cache
      BY <3>1 DEF IsList
    <3>3. Lists'
      BY <2>4, <3>1, <3>2 DEF Lists, Used
    <3>4. Deaths'
      BY <2>4 DEF Deaths, Used
    <3> QED BY <2>1, <2>4, <3>3, <3>4 DEF Effect
  <2>5. CASE Undefined(n)
    BY <2>1, <2>5, UndefinedKept DEF Effect
  <2> QED BY <2>2, <2>3, <2>4, <2>5
<1>2. ASSUME NEW n \in Node, synclrulistincluster(n)
      PROVE  Lists' /\ Traffic' /\ Deaths' /\ Effect
  <2>1. UNCHANGED <<lru_hot, down, beyond>>
    BY <1>2 DEF synclrulistincluster
  <2>2. Message(lru_hot[n]) = Blank
    BY DEF Message, Blank
  <2>3. Traffic'
    <3>1. bus' = [bus EXCEPT ![n] = [d \in Node |->
                    IF d = n THEN @[d] ELSE Append(@[d], Blank)]]
      BY <1>2, <2>2 DEF synclrulistincluster
    <3> HIDE DEF Blank
    <3>2. \A q \in Seq({Blank}) : Append(q, Blank) \in Seq({Blank})
      OBVIOUS
    <3>3. [d \in Node |-> IF d = n THEN bus[n][d] ELSE Append(bus[n][d], Blank)]
            \in [Node -> Seq({Blank})]
      BY <3>2 DEF Traffic
    <3> QED BY <3>1, <3>3 DEF Traffic
  <2> QED BY <2>1, <2>3 DEF Lists, Deaths, Effect
<1>3. ASSUME NEW x \in Node, NEW y \in Node, ReceiveLru(x, y)
      PROVE  Lists' /\ Traffic' /\ Deaths' /\ Effect
  <2>1. UNCHANGED <<lru_hot, down, beyond>> \/ Undefined(y)
    BY <1>3, ReceivedInVain
  <2>2. Lists' /\ Deaths' /\ Effect
    <3>1. CASE UNCHANGED <<lru_hot, down, beyond>>
      BY <3>1 DEF Lists, Deaths, Effect
    <3>2. CASE Undefined(y)
      BY <3>2, UndefinedKept DEF Effect
    <3> QED BY <2>1, <3>1, <3>2
  <2>3. Traffic'
    <3>1. bus' = [bus EXCEPT ![x][y] = Tail(@)] /\ bus[x][y] # <<>>
      BY <1>3 DEF ReceiveLru
    <3> QED BY <3>1 DEF Traffic
  <2> QED BY <2>2, <2>3
<1>4. ASSUME NEW x \in Node, NEW y \in Node, LoseLru(x, y)
      PROVE  Lists' /\ Traffic' /\ Deaths' /\ Effect
  <2>1. bus' = [bus EXCEPT ![x][y] = Tail(@)] /\ bus[x][y] # <<>>
    BY <1>4 DEF LoseLru
  <2>2. UNCHANGED <<lru_hot, down, beyond>>
    BY <1>4 DEF LoseLru
  <2>3. Traffic'
    BY <2>1 DEF Traffic
  <2> QED BY <2>2, <2>3 DEF Lists, Deaths, Effect
<1>5. ASSUME UNCHANGED vars
      PROVE  Lists' /\ Traffic' /\ Deaths' /\ Effect
  BY <1>5 DEF vars, Lists, Traffic, Deaths, Effect
<1> QED BY <1>1, <1>2, <1>3, <1>4, <1>5 DEF Next

LEMMA ListsAlways == Spec => [](Lists /\ Traffic /\ Deaths)
<1>1. Lists /\ Traffic /\ Deaths /\ [Next]_vars => (Lists /\ Traffic /\ Deaths)'
  BY ListsStep
<1> QED BY <1>1, ListsInit, PTL DEF Spec

\* Through insertions and moves to the head, the list of a node that stays in
\* its hash map and the map are one data structure (removeFromList,
\* insertToListHead).
THEOREM OneDataStructure == Spec => []WellFormed
<1>1. Lists => WellFormed
  <2> SUFFICES ASSUME Lists, NEW n \in Node
               PROVE  \E s \in Orders : Represents(lru_hot[n], s)
    BY DEF WellFormed
  <2> PICK m \in 0..Capacity : \E s \in [1..m -> Entry] :
             lru_hot[n] \in Cache /\ Holds(lru_hot[n], s, m)
    BY DEF Lists, IsList
  <2>1. PICK s \in [1..m -> Entry] : lru_hot[n] \in Cache /\ Holds(lru_hot[n], s, m)
    OBVIOUS
  <2>2. Represents(lru_hot[n], s)
    BY <2>1, HoldsIsRepresents, LruAssumption
  <2>3. s \in Orders
    BY DEF Orders
  <2> QED BY <2>2, <2>3
<1> QED BY <1>1, ListsAlways, PTL

\* A server dies only of a slot beyond its hash map, never of a list it
\* receives (clusterProcessPacket, CLUSTERMSG_TYPE_LRU).
THEOREM NoListKills == Spec => []DiesOnlyBeyondMap
<1>1. Deaths => DiesOnlyBeyondMap
  BY DEF Deaths, DiesOnlyBeyondMap
<1> QED BY <1>1, ListsAlways, PTL

\* Pointers, hash map and counter implement a list of the slots used last that
\* forgets none, until the node uses a slot beyond the map (LRUCacheSet).
THEOREM RecencyImplemented == Spec => ImplementsRecency
<1> DEFINE list == [n \in Node |-> IF beyond[n] THEN <<>> ELSE Slots(n)]
<1>1. \A n \in Node : /\ Slots(n) = SlotsOf(lru_hot[n])
                      /\ Slots(n)' = SlotsOf(lru_hot'[n])
  BY DEF Slots, SlotsOf
<1>2. ASSUME Init
      PROVE  list = [n \in Node |-> <<>>] /\ beyond = [n \in Node |-> FALSE]
  <2>1. ASSUME NEW n \in Node
        PROVE  Slots(n) = <<>>
    <3>1. lru_hot[n] = LRUCacheCreate
      BY <1>2 DEF Init
    <3> QED BY <1>1, <3>1, NewList
  <2> QED BY <1>2, <2>1 DEF Init
<1>3. ASSUME Lists, Traffic, Deaths, [Next]_vars
      PROVE  [Recent!Next]_<<list, beyond>>
  <2>1. Effect
    BY <1>3, ListsStep
  <2>2. CASE UNCHANGED <<lru_hot, beyond>>
    <3>1. \A n \in Node : Slots(n)' = Slots(n)
      BY <1>1, <2>2
    <3> QED BY <2>2, <3>1
  <2>3. ASSUME NEW n \in Node, NEW k \in Bucket, Used(n, k)
        PROVE  Recent!Next
    <3>1. /\ lru_hot \in [Node -> Cache] /\ IsList(lru_hot[n])
          /\ lru_hot' = [lru_hot EXCEPT ![n] = LRUCacheSet(lru_hot[n], k, 1)]
          /\ ~beyond[n] /\ beyond' = beyond
      BY <1>3, <2>3 DEF Lists, Used
    <3>2. SlotsOf(LRUCacheSet(lru_hot[n], k, 1)) = Recent!Touched(SlotsOf(lru_hot[n]), k)
      BY <3>1, SetIsTouch
    <3>3. \A x \in Node : Slots(x)' = IF x = n THEN Recent!Touched(Slots(n), k)
                                      ELSE Slots(x)
      BY <1>1, <3>1, <3>2
    <3>4. list' = [list EXCEPT ![n] = Recent!Touched(list[n], k)]
      BY <3>1, <3>3
    <3>5. Recent!Touch(n, k)
      BY <3>1, <3>4 DEF Recent!Touch
    <3> QED BY <3>5 DEF Recent!Next
  <2>4. ASSUME NEW n \in Node, Undefined(n)
        PROVE  Recent!Next
    <3>1. /\ beyond \in [Node -> BOOLEAN] /\ beyond' = [beyond EXCEPT ![n] = TRUE]
          /\ lru_hot' = [lru_hot EXCEPT ![n] = LRUCacheCreate]
          /\ lru_hot \in [Node -> Cache]
      BY <1>3, <2>4 DEF Undefined, Deaths, Lists
    <3>2. \A x \in Node : x # n => Slots(x)' = Slots(x) /\ beyond'[x] = beyond[x]
      BY <1>1, <3>1
    <3>3. list' = [list EXCEPT ![n] = <<>>]
      BY <3>1, <3>2
    <3>4. Recent!Lose(n)
      BY <3>1, <3>3 DEF Recent!Lose
    <3> QED BY <3>4 DEF Recent!Next
  <2> QED BY <2>1, <2>2, <2>3, <2>4 DEF Effect
<1> QED BY <1>2, <1>3, ListsAlways, PTL DEF Spec, ImplementsRecency, Recent!Spec
=============================================================================
