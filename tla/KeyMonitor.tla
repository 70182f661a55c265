----------------------------- MODULE KeyMonitor -----------------------------
(***************************************************************************)
(* The monitor of hot slots: every node keeps a list of the slots it used  *)
(* last, and tells the other nodes about it every ten seconds.             *)
(***************************************************************************)
EXTENDS LruCache

CONSTANTS Node,
          Slot,       \* the slots clients ask for
          MaxSent,    \* bound on the messages under way between two nodes
          MaxOps      \* bound on the requests of all clients

ASSUME MonitorAssumption ==
  /\ Slot \subseteq Nat
  /\ MaxSent \in Nat
  /\ MaxOps \in Nat

VARIABLES lru_hot,    \* the list of each node
          bus,        \* messages under way from one node to another
          down,       \* the server has died
          beyond,     \* the node used memory beyond its hash map: its own is unknown
          ops         \* requests so far

vars == <<lru_hot, bus, down, beyond, ops>>

Init ==
  /\ lru_hot = [n \in Node |-> LRUCacheCreate]
  /\ bus = [s \in Node |-> [d \in Node |-> <<>>]]
  /\ down = [n \in Node |-> FALSE]
  /\ beyond = [n \in Node |-> FALSE]
  /\ ops = 0

\* The node's memory is known, and the slot has a place in its hash map.
Defined(n, k) == ~beyond[n] /\ k \in Bucket

\* The node reads or writes memory it does not own, or memory that such a
\* write may have changed: it may find anything for an entry, overwrite
\* anything, or die of it.  Nothing is known of its list from now on: the
\* list of a node beyond stands for every list.
Undefined(n) ==
  /\ beyond' = [beyond EXCEPT ![n] = TRUE]
  /\ lru_hot' = [lru_hot EXCEPT ![n] = LRUCacheCreate]
  /\ \/ UNCHANGED down
     \/ down' = [down EXCEPT ![n] = TRUE]

\* The end of processCommand for a request of slot k: one time in two the slot
\* is noted.
processCommand(n, k) ==
  /\ ~down[n]
  /\ ops < MaxOps
  /\ ops' = ops + 1
  /\ \/ UNCHANGED <<lru_hot, down, beyond>>
     \/ /\ Defined(n, k)
        /\ lru_hot' = [lru_hot EXCEPT ![n] = LRUCacheSet(@, k, 1)]
        /\ UNCHANGED <<down, beyond>>
     \/ ~Defined(n, k) /\ Undefined(n)
  /\ UNCHANGED bus

\* Mutant: the loop that fills the message goes through the list.
Message_Filled(c) ==
  LET s == Order(c)
  IN [i \in 1..Capacity |->
        IF i <= Len(s) THEN [slot |-> c.key[s[i]], opnum |-> 256 * c.data[s[i]]]
                       ELSE [slot |-> 0, opnum |-> 0]]

\* The header is cleared, and the loop that fills it ends at once (i=10): the
\* message has Capacity times slot 0 with no operation, whatever the list.
Message(c) == [i \in 1..Capacity |-> [slot |-> 0, opnum |-> 0]]

synclrulistincluster(n) ==
  /\ ~down[n]
  /\ beyond[n] \/ lru_hot[n].size # 0
  /\ \A d \in Node : Len(bus[n][d]) < MaxSent
  /\ bus' = [bus EXCEPT ![n] = [d \in Node |->
               IF d = n THEN @[d] ELSE Append(@[d], Message(lru_hot[n]))]]
  /\ UNCHANGED <<lru_hot, down, beyond, ops>>

\* The list a message stands for.
Received(msg) ==
  LET list[i \in 0..Len(msg)] ==
        IF i = 0 THEN LRUCacheCreate
                 ELSE LRUCacheSet(list[i - 1], msg[i].slot, msg[i].opnum)
  IN list[Len(msg)]

\* One round of the loop that goes through the received and the local list in
\* step.  A local entry that does not exist, or no longer does, is fatal.
Merge(c, new, e) ==
  IF c.dead \/ c.local = NULL \/ c.local \notin c.cache.live
  THEN [c EXCEPT !.dead = TRUE]
  ELSE LET cache == IF new.data[e] > c.cache.data[c.local]
                    THEN LRUCacheSet(c.cache, new.key[e], new.data[e])
                    ELSE c.cache
       IN [cache |-> cache, local |-> cache.next[c.local], dead |-> FALSE]

\* The local list after the rounds for all entries of the received one.
Merged(mine, new) ==
  LET entries == Order(new)
      round[i \in 0..Len(entries)] ==
        IF i = 0 THEN [cache |-> mine, local |-> mine.head, dead |-> FALSE]
                 ELSE Merge(round[i - 1], new, entries[i])
  IN round[Len(entries)]

\* clusterProcessPacket, CLUSTERMSG_TYPE_LRU.
ReceiveLru(s, d) ==
  /\ ~down[d]
  /\ bus[s][d] # <<>>
  /\ bus' = [bus EXCEPT ![s][d] = Tail(@)]
  /\ LET mine == lru_hot[d]
         result == Merged(mine, Received(Head(bus[s][d])))
     IN \/ ~beyond[d] /\ mine.size = 0 /\ UNCHANGED <<lru_hot, down, beyond>>
        \/ /\ ~beyond[d] /\ mine.size # 0
           /\ lru_hot' = [lru_hot EXCEPT ![d] = result.cache]
           /\ down' = [down EXCEPT ![d] = result.dead]
           /\ UNCHANGED beyond
        \/ beyond[d] /\ Undefined(d)
  /\ UNCHANGED ops

\* A message is not sent to a node whose bus link is down.
LoseLru(s, d) ==
  /\ bus[s][d] # <<>>
  /\ bus' = [bus EXCEPT ![s][d] = Tail(@)]
  /\ UNCHANGED <<lru_hot, down, beyond, ops>>

Next ==
  \/ \E n \in Node, k \in Slot : processCommand(n, k)
  \/ \E n \in Node : synclrulistincluster(n)
  \/ \E s, d \in Node : ReceiveLru(s, d) \/ LoseLru(s, d)

Spec == Init /\ [][Next]_vars

-----------------------------------------------------------------------------
(* Properties.                                                             *)

\* Through insertions and moves to the head, the list of a node and its hash
\* map stay one data structure as long as the node uses no slot beyond the
\* map: linked both ways, with as many entries as it counts, each found by the
\* map, no freed entry in it and none forgotten.
WellFormed ==
  \A n \in Node : ~beyond[n] => \E s \in Orders : Represents(lru_hot[n], s)

\* The slots in the list of a node, most recent first.
Slots(n) ==
  LET c == lru_hot[n]
      s == Order(c)
  IN [i \in 1..Len(s) |-> c.key[s[i]]]

Recent == INSTANCE RecencyList WITH
  Slot <- Bucket,
  list <- [n \in Node |-> IF beyond[n] THEN <<>> ELSE Slots(n)],
  lost <- beyond

\* Pointers, hash map and counter together implement a list of the slots used
\* last until the node uses a slot beyond the map.  No slot of it is evicted:
\* a list of Capacity entries is full only when every bucket has its entry.
ImplementsRecency == Recent!Spec

\* A server dies only of a slot beyond its hash map: the loop that merges a
\* received list into the local one never runs off the local list and never
\* meets an entry that was freed meanwhile.
DiesOnlyBeyondMap == \A n \in Node : down[n] => beyond[n]
=============================================================================
