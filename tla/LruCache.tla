------------------------------ MODULE LruCache ------------------------------
(***************************************************************************)
(* The list of recently used slots: a doubly linked list of entries, most  *)
(* recent first, and a hash map to find them.  A cache is a record; the    *)
(* members of its entries are functions of the entry's address.  The       *)
(* locks are left out: one thread uses the cache.                          *)
(*                                                                         *)
(* The hash map is an array of Capacity buckets, indexed with the key      *)
(* itself: the operators are those of the code for keys that are buckets,  *)
(* and what the code does with another key is undefined.  All entries of a *)
(* bucket have its key, and an entry is added only when the key was not    *)
(* found: a bucket holds one entry or none.                                *)
(***************************************************************************)
EXTENDS Integers, Sequences, FiniteSets

CONSTANTS Capacity,  \* MAX_LRU_TRACK_NUM
          Entry,     \* addresses malloc may return
          NULL

\* malloc finds memory whenever the list is not beyond its capacity.
ASSUME LruAssumption ==
  /\ Capacity \in Nat \ {0}
  /\ NULL \notin Entry
  /\ IsFiniteSet(Entry) => Cardinality(Entry) > Capacity

\* The keys the hash map has a place for.
Bucket == 0..(Capacity - 1)

LRUCacheCreate ==
  [head |-> NULL, tail |-> NULL, size |-> 0,
   map |-> [k \in Bucket |-> NULL],
   live |-> {},                        \* the entries not freed
   key |-> [e \in Entry |-> 0], data |-> [e \in Entry |-> 0],
   prev |-> [e \in Entry |-> NULL], next |-> [e \in Entry |-> NULL]]

\* Mutant: an entry in the middle is unlinked in one direction only.
Unlinked_OneWay(c, e) ==
  IF e = c.head /\ e = c.tail THEN [c EXCEPT !.head = NULL, !.tail = NULL]
  ELSE IF e = c.head
       THEN [c EXCEPT !.head = c.next[e], !.prev[c.next[e]] = NULL]
  ELSE IF e = c.tail
       THEN [c EXCEPT !.tail = c.prev[e], !.next[c.prev[e]] = NULL]
  ELSE [c EXCEPT !.next[c.prev[e]] = c.next[e]]

\* The pointers of removeFromList: the only entry, the first, the last, or
\* one in between.
Unlinked(c, e) ==
  IF e = c.head /\ e = c.tail THEN [c EXCEPT !.head = NULL, !.tail = NULL]
  ELSE IF e = c.head
       THEN [c EXCEPT !.head = c.next[e], !.prev[c.next[e]] = NULL]
  ELSE IF e = c.tail
       THEN [c EXCEPT !.tail = c.prev[e], !.next[c.prev[e]] = NULL]
  ELSE [c EXCEPT !.next[c.prev[e]] = c.next[e], !.prev[c.next[e]] = c.prev[e]]

removeFromList(c, e) ==
  IF c.size = 0 THEN c ELSE [Unlinked(c, e) EXCEPT !.size = @ - 1]

\* The pointers of insertToListHead.
Linked(c, e) ==
  IF c.head = NULL /\ c.tail = NULL
  THEN [c EXCEPT !.head = e, !.tail = e]
  ELSE [c EXCEPT !.next[e] = c.head,
                 !.prev = [@ EXCEPT ![e] = NULL, ![c.head] = e],
                 !.head = e]

\* Mutant: the entry is evicted when the list is full already.
Overflows_Early(c) == c.size + 1 >= Capacity

Overflows(c) == c.size + 1 > Capacity

\* The size is counted up first; a list that is full loses its tail.
insertToListHead(c, e) ==
  LET more == [c EXCEPT !.size = @ + 1]
  IN Linked(IF Overflows(c) THEN removeFromList(more, c.tail) ELSE more, e)

updateLRUList(c, e) == insertToListHead(removeFromList(c, e), e)

malloc(c) == CHOOSE e \in Entry : e \notin c.live

newCacheEntry(c, e, k, d) ==
  [c EXCEPT !.live = @ \cup {e}, !.key[e] = k, !.data[e] = d,
            !.prev[e] = NULL, !.next[e] = NULL]

\* removeEntryFromHashMap and freeCacheEntry; what was in the entry is gone.
evicted(c, e) ==
  [c EXCEPT !.map[c.key[e]] = NULL, !.live = @ \ {e},
            !.key[e] = 0, !.data[e] = 0, !.prev[e] = NULL, !.next[e] = NULL]

\* The key is new: its entry goes to the head of the list, and the one that
\* had to make room is forgotten before the new one is put into the hash map.
Added(c, k, d) ==
  LET e == malloc(c)
      in == insertToListHead(newCacheEntry(c, e, k, d), e)
      rest == IF Overflows(c) THEN evicted(in, c.tail) ELSE in
  IN [rest EXCEPT !.map[k] = e]

\* The key is there: its data is replaced (=+ is not +=), and it moves to the
\* head of the list.
Renewed(c, k, d) ==
  updateLRUList([c EXCEPT !.data[c.map[k]] = d], c.map[k])

LRUCacheSet(c, k, d) ==
  IF c.map[k] # NULL THEN Renewed(c, k, d) ELSE Added(c, k, d)

-----------------------------------------------------------------------------

\* The sequences the list can represent.
Orders == UNION {[1..m -> Entry] : m \in 0..Capacity}

\* The entries of s, in this order, are the list, forwards and backwards; they
\* are all there are, and the hash map finds each of them and nothing else.
Represents(c, s) ==
  /\ c.size = Len(s)
  /\ \A i, j \in 1..Len(s) : s[i] = s[j] => i = j
  /\ c.head = (IF s = <<>> THEN NULL ELSE s[1])
  /\ c.tail = (IF s = <<>> THEN NULL ELSE s[Len(s)])
  /\ \A i \in 1..Len(s) :
       /\ c.prev[s[i]] = (IF i = 1 THEN NULL ELSE s[i - 1])
       /\ c.next[s[i]] = (IF i = Len(s) THEN NULL ELSE s[i + 1])
       /\ c.key[s[i]] \in Bucket
       /\ c.map[c.key[s[i]]] = s[i]
  /\ c.live = {s[i] : i \in 1..Len(s)}
  /\ \A k \in Bucket : c.map[k] # NULL => c.map[k] \in c.live /\ c.key[c.map[k]] = k

\* The entries of the list, most recent first: head, and on along next.
Order(c) ==
  LET at[i \in 1..c.size] == IF i = 1 THEN c.head ELSE c.next[at[i - 1]]
  IN [i \in 1..c.size |-> at[i]]
=============================================================================
