---------------------------- MODULE HotSlotProofs ----------------------------
(***************************************************************************)
(* Theorems about HotSlot, for every set of nodes, clients, keys and       *)
(* fields and every value of the bounds.                                   *)
(***************************************************************************)
EXTENDS HotSlot, TLAPS, FiniteSetTheorems

CacheType == [ops : [Key -> Op], size : Nat]
LinkType == [Node -> [Node -> [Key -> Seq(Op)]]]
ConnType == [Node -> [Node -> {"none", "up", "broken"}]]

-----------------------------------------------------------------------------
(* The cache and the broadcast loop.                                       *)

\* The set of cached keys is finite, because the set of keys is.
LEMMA CachedKeysFinite ==
  ASSUME NEW ops
  PROVE  /\ CachedKeys(ops) \subseteq Key
         /\ IsFiniteSet(CachedKeys(ops))
         /\ Cardinality(CachedKeys(ops)) \in Nat
<1>1. CachedKeys(ops) \subseteq Key
  BY DEF CachedKeys
<1>2. IsFiniteSet(CachedKeys(ops))
  BY <1>1, FS_Subset, ConstantsAssumption
<1> QED
  BY <1>1, <1>2, FS_CardinalityType

\* The loop of broadcastCommandInHotGroup sends cached keys only, and not more
\* of them than the counter says.
LEMMA FlushableBounded ==
  ASSUME NEW cache \in CacheType, NEW S \in Flushable(cache)
  PROVE  /\ S \subseteq CachedKeys(cache.ops)
         /\ IsFiniteSet(S)
         /\ Cardinality(S) \in Nat
         /\ Cardinality(S) <= cache.size
<1> DEFINE all == CachedKeys(cache.ops)
<1>1. all \subseteq Key /\ IsFiniteSet(all) /\ Cardinality(all) \in Nat
  BY CachedKeysFinite
<1>2. cache.size \in Nat
  BY DEF CacheType
<1>3. S \subseteq all /\ Cardinality(S) <= cache.size
  <2>1. CASE cache.size >= Cardinality(all)
    BY <2>1, <1>1, <1>2 DEF Flushable
  <2>2. CASE ~(cache.size >= Cardinality(all))
    BY <2>2, <1>1, <1>2 DEF Flushable
  <2> QED BY <2>1, <2>2
<1>4. IsFiniteSet(S)
  BY <1>1, <1>3, FS_Subset
<1> QED
  BY <1>3, <1>4, FS_CardinalityType

\* The loop leaves a cache behind: the counter does not become negative.
LEMMA FlushedType ==
  ASSUME NEW cache \in CacheType, NEW S \in Flushable(cache)
  PROVE  Flushed(cache, S) \in CacheType
<1>1. Cardinality(S) \in Nat /\ Cardinality(S) <= cache.size
  BY FlushableBounded
<1>2. NoOp \in Op
  BY DEF NoOp, Op
<1> QED
  BY <1>1, <1>2 DEF Flushed, CacheType

\* Sending nothing leaves the cache as it is.
LEMMA FlushedNothing ==
  ASSUME NEW cache \in CacheType
  PROVE  Flushed(cache, {}) = cache
<1>1. Cardinality({}) = 0
  BY FS_EmptySet
<1> QED
  BY <1>1 DEF Flushed, CacheType

\* Adding a command to a cache gives a cache.
LEMMA AddType ==
  ASSUME NEW cache \in CacheType, NEW k \in Key, NEW op \in Op
  PROVE  addCmdToCache(cache, k, op) \in CacheType
BY DEF addCmdToCache, CacheType

\* Sending keeps the queues queues of commands.
LEMMA SentType ==
  ASSUME NEW lnk \in LinkType, NEW n \in Node, NEW ops \in [Key -> Op], NEW S
  PROVE  Sent(lnk, n, ops, S) \in LinkType
BY DEF Sent, LinkType

\* Connecting keeps the states of the connections.
LEMMA ConnectedType ==
  ASSUME conn \in ConnType, NEW n \in Node, NEW S
  PROVE  Connected(n, S) \in ConnType
BY DEF Connected, ConnType

\* The cache of a node is one.
LEMMA CacheHasType ==
  ASSUME TypeOK, NEW n \in Node
  PROVE  Cache(n) \in CacheType
BY DEF TypeOK, Cache, CacheType

-----------------------------------------------------------------------------
(* Type correctness.                                                       *)

\* One run of the broadcast loop keeps the types of what it changes.
LEMMA BroadcastType ==
  ASSUME TypeOK, NEW n \in Node, NEW cache \in CacheType,
         NEW S \in Flushable(cache) \cup {{}}, Broadcast(n, cache, S)
  PROVE  /\ cached_op' \in [Node -> [Key -> Op]]
         /\ cache_op_size' \in [Node -> Nat]
         /\ link' \in [Node -> [Node -> [Key -> Seq(Op)]]]
         /\ conn' \in [Node -> [Node -> {"none", "up", "broken"}]]
<1>1. Flushed(cache, S) \in CacheType
  BY FlushedType, FlushedNothing
<1>2. cache.ops \in [Key -> Op]
  BY DEF CacheType
<1>3. link \in LinkType /\ conn \in ConnType
  BY DEF TypeOK, LinkType, ConnType
<1>4. link' \in LinkType /\ conn' \in ConnType
  BY <1>2, <1>3, SentType, ConnectedType DEF Broadcast
<1>5. /\ cached_op' = [cached_op EXCEPT ![n] = Flushed(cache, S).ops]
      /\ cache_op_size' = [cache_op_size EXCEPT ![n] = Flushed(cache, S).size]
  BY DEF Broadcast, SetCache
<1>6. /\ cached_op' \in [Node -> [Key -> Op]]
      /\ cache_op_size' \in [Node -> Nat]
  BY <1>1, <1>5 DEF CacheType, TypeOK
<1> QED
  BY <1>4, <1>6 DEF LinkType, ConnType

\* The command made of a request is a command.
LEMMA NewOpType ==
  ASSUME TypeOK, NEW n \in Node, NEW F \in WriteSets \cup {{}}
  PROVE  NewOp(n, F) \in Op
BY ConstantsAssumption DEF TypeOK, NewOp, Op

\* The cache after the test for a write during a copy is a cache.
LEMMA CopyingCacheType ==
  ASSUME TypeOK, NEW n \in Node, NEW k \in Key, NEW F \in WriteSets \cup {{}}
  PROVE  CopyingCache(n, k, F) \in CacheType
BY NewOpType, AddType, CacheHasType DEF CopyingCache

\* The sync of the first request sends what the loop can send, or nothing.
LEMMA FirstSyncFlushes ==
  ASSUME NEW n, NEW cache, NEW S \in FirstSync(n, cache)
  PROVE  S \in Flushable(cache) \cup {{}}
BY DEF FirstSync

\* The part every request goes through keeps the types of what it changes.
LEMMA PreludeType ==
  ASSUME TypeOK, NEW n \in Node, NEW k \in Key, NEW F \in WriteSets \cup {{}},
         Prelude(n, k, F)
  PROVE  /\ cached_op' \in [Node -> [Key -> Op]]
         /\ cache_op_size' \in [Node -> Nat]
         /\ link' \in [Node -> [Node -> [Key -> Seq(Op)]]]
         /\ conn' \in [Node -> [Node -> {"none", "up", "broken"}]]
         /\ is_synced' \in [Node -> BOOLEAN]
<1> DEFINE cache == CopyingCache(n, k, F)
<1>1. cache \in CacheType
  BY CopyingCacheType
<1>2. PICK S \in FirstSync(n, cache) : Broadcast(n, cache, S)
  BY DEF Prelude
<1>3. S \in Flushable(cache) \cup {{}}
  BY <1>2, FirstSyncFlushes
<1>4. SyncsNow(n) \in BOOLEAN
  BY DEF SyncsNow, TypeOK
<1>5. is_synced' \in [Node -> BOOLEAN]
  BY <1>4 DEF Prelude, TypeOK
<1> QED
  BY <1>1, <1>2, <1>3, <1>5, BroadcastType

\* HMSET leaves a hash.
LEMMA ApplyType ==
  ASSUME NEW hash \in [Field -> Nat], NEW op \in Op
  PROVE  Apply(hash, op) \in [Field -> Nat]
BY DEF Apply, Op

\* Replacing the hash of one key leaves the store a store.
LEMMA StoreType ==
  ASSUME NEW st \in [Node -> [Key -> [Field -> Nat]]],
         NEW n \in Node, NEW k \in Key, NEW hash \in [Field -> Nat]
  PROVE  [st EXCEPT ![n][k] = hash] \in [Node -> [Key -> [Field -> Nat]]]
<1> DEFINE H == [Field -> Nat]
<1>1. hash \in H /\ st \in [Node -> [Key -> H]]
  OBVIOUS
<1> HIDE DEF H
<1>2. [st EXCEPT ![n][k] = hash] \in [Node -> [Key -> H]]
  BY <1>1
<1> QED BY <1>2 DEF H

\* Replacing one queue leaves the sync connections what they are.
LEMMA QueueReplaced ==
  ASSUME NEW lnk \in [Node -> [Node -> [Key -> Seq(Op)]]],
         NEW a \in Node, NEW b \in Node, NEW j \in Key, NEW q \in Seq(Op)
  PROVE  [lnk EXCEPT ![a][b][j] = q] \in [Node -> [Node -> [Key -> Seq(Op)]]]
<1> DEFINE Q == Seq(Op)
           R == [lnk EXCEPT ![a][b][j] = q]
<1>1. q \in Q /\ lnk \in [Node -> [Node -> [Key -> Q]]]
  OBVIOUS
<1> HIDE DEF Q
<1>2. R \in [Node -> [Node -> [Key -> Q]]]
  BY <1>1
<1> QED BY <1>2 DEF Q

\* Executing a request keeps the types of the store and the history.
LEMMA ExecuteType ==
  ASSUME TypeOK, NEW n \in Node, NEW k \in Key, NEW F \in WriteSets \cup {{}},
         Execute(n, k, F)
  PROVE  /\ store' \in [Node -> [Key -> [Field -> Nat]]]
         /\ writes' \in 1..(MaxWrite + 1)
         /\ stamp' \in [0..(MaxWrite + 1) -> Nat]
         /\ writers' \in [Key -> SUBSET Node]
         /\ faults' \in Nat
<1>1. CASE UNCHANGED <<store, histVars, faults>>
  BY <1>1 DEF TypeOK, histVars
<1>2. CASE IsWrite(F) /\ writes <= MaxWrite
  <2>1. MaxWrite \in Nat
    BY ConstantsAssumption
  <2>2. Apply(store[n][k], NewOp(n, F)) \in [Field -> Nat]
    <3>1. NewOp(n, F) \in Op
      BY NewOpType
    <3>2. store[n][k] \in [Field -> Nat]
      BY DEF TypeOK
    <3> QED BY <3>1, <3>2, ApplyType
  <2>3. store' \in [Node -> [Key -> [Field -> Nat]]]
    <3> DEFINE hash == Apply(store[n][k], NewOp(n, F))
    <3>1. store' = store \/ store' = [store EXCEPT ![n][k] = hash]
      BY <1>2 DEF Execute
    <3>2. hash \in [Field -> Nat]
      BY <2>2
    <3>3. store \in [Node -> [Key -> [Field -> Nat]]]
      BY DEF TypeOK
    <3> HIDE DEF hash
    <3>4. [store EXCEPT ![n][k] = hash] \in [Node -> [Key -> [Field -> Nat]]]
      BY <3>2, <3>3, StoreType
    <3> QED BY <3>1, <3>3, <3>4
  <2>4. writes' \in 1..(MaxWrite + 1) /\ faults' \in Nat
    BY <1>2, <2>1 DEF Execute, TypeOK
  <2>5. stamp' \in [0..(MaxWrite + 1) -> Nat]
    <3>1. stamp' = [stamp EXCEPT ![writes + 1] = ustime[n]]
      BY <1>2 DEF Execute
    <3> QED BY <3>1 DEF TypeOK
  <2>6. writers' \in [Key -> SUBSET Node]
    <3>1. writers' = [writers EXCEPT ![k] = @ \cup {n}]
      BY <1>2 DEF Execute
    <3> QED BY <3>1 DEF TypeOK
  <2> QED BY <2>3, <2>4, <2>5, <2>6
<1> QED
  BY <1>1, <1>2 DEF Execute

\* Serving a request caches, broadcasts and executes in one step.
LEMMA ServeType ==
  ASSUME TypeOK, NEW c \in Client, NEW k \in Key,
         NEW F \in WriteSets \cup {{}}, ServeRequest(c, k, F)
  PROVE  TypeOK'
<1> DEFINE n == route[c]
           op == NewOp(n, F)
           cache == CopyingCache(n, k, F)
           caches == InGroup(n, c) /\ IsWrite(F) /\ is_sync[n]
           Rest(S1) == Flushed(cache, S1)
           Full(S1) == IF caches THEN addCmdToCache(Rest(S1), k, op)
                                 ELSE Rest(S1)
<1>0. n \in Node
  BY DEF TypeOK
<1>1. op \in Op /\ cache \in CacheType
  BY <1>0, NewOpType, CopyingCacheType
<1>2. PICK S1 \in FirstSync(n, cache) :
        \E S2 \in IF caches /\ ~sync_time[n] THEN Flushable(Full(S1)) ELSE {{}} :
          /\ SetCache(n, Flushed(Full(S1), S2))
          /\ link' = Sent(Sent(link, n, cache.ops, S1), n, Full(S1).ops, S2)
          /\ conn' = Connected(n, S1 \cup S2)
  BY DEF ServeRequest
<1>3. PICK S2 \in IF caches /\ ~sync_time[n] THEN Flushable(Full(S1)) ELSE {{}} :
        /\ SetCache(n, Flushed(Full(S1), S2))
        /\ link' = Sent(Sent(link, n, cache.ops, S1), n, Full(S1).ops, S2)
        /\ conn' = Connected(n, S1 \cup S2)
  BY <1>2
<1>4. S1 \in Flushable(cache) \cup {{}}
  BY <1>2, FirstSyncFlushes
<1>5. Rest(S1) \in CacheType
  BY <1>1, <1>4, FlushedType, FlushedNothing
<1>6. Full(S1) \in CacheType
  BY <1>1, <1>5, AddType
<1>7. S2 \in Flushable(Full(S1)) \cup {{}}
  BY <1>3
<1>8. Flushed(Full(S1), S2) \in CacheType
  BY <1>6, <1>7, FlushedType, FlushedNothing
<1>9. SyncsNow(n) \in BOOLEAN /\ Stays(n, c) \in BOOLEAN
  BY <1>0 DEF SyncsNow, Stays, Forwards, TypeOK
<1> HIDE DEF Full, Rest, caches, cache, op
<1>10. cached_op' \in [Node -> [Key -> Op]] /\ cache_op_size' \in [Node -> Nat]
  BY <1>0, <1>3, <1>8 DEF SetCache, CacheType, TypeOK
<1>11. link' \in [Node -> [Node -> [Key -> Seq(Op)]]]
  <2>1. link \in LinkType
    BY DEF TypeOK, LinkType
  <2>2. cache.ops \in [Key -> Op] /\ Full(S1).ops \in [Key -> Op]
    BY <1>1, <1>6 DEF CacheType
  <2>3. Sent(link, n, cache.ops, S1) \in LinkType
    BY <1>0, <2>1, <2>2, SentType
  <2>4. Sent(Sent(link, n, cache.ops, S1), n, Full(S1).ops, S2) \in LinkType
    BY <1>0, <2>2, <2>3, SentType
  <2> QED BY <1>3, <2>4 DEF LinkType
<1>12. conn' \in [Node -> [Node -> {"none", "up", "broken"}]]
  <2>1. conn \in ConnType
    BY DEF TypeOK, ConnType
  <2> QED BY <1>0, <1>3, <2>1, ConnectedType DEF ConnType
<1>13. is_synced' \in [Node -> BOOLEAN]
  BY <1>9 DEF ServeRequest, TypeOK
<1>14. no_forward' \in [Client -> [Node -> BOOLEAN]]
  <2>1. no_forward' = [no_forward EXCEPT ![c][n] = Stays(n, c)]
    BY DEF ServeRequest
  <2> QED BY <1>9, <2>1 DEF TypeOK
<1>15. /\ store' \in [Node -> [Key -> [Field -> Nat]]]
       /\ writes' \in 1..(MaxWrite + 1)
       /\ stamp' \in [0..(MaxWrite + 1) -> Nat]
       /\ writers' \in [Key -> SUBSET Node]
       /\ faults' \in Nat
  <2>1. Execute(n, k, F)
    BY DEF ServeRequest
  <2> QED BY <1>0, <2>1, ExecuteType
<1>16. UNCHANGED <<have_copy, is_copying, is_copied, related_ins, modeVars,
                   ustime, spinning, bus, route, admins>>
  BY DEF ServeRequest
<1> QED
  BY <1>10, <1>11, <1>12, <1>13, <1>14, <1>15, <1>16 DEF TypeOK, modeVars

\* A request that is not served changes the cache, the flag and the route.
LEMMA TurnedAwayType ==
  ASSUME TypeOK, NEW c \in Client, NEW k \in Key,
         NEW F \in WriteSets \cup {{}},
         \/ ForwardRequest(c, k, F)
         \/ SpinOnRequest(c, k, F)
         \/ RedirectRequest(c, k, F)
  PROVE  TypeOK'
<1> DEFINE n == route[c]
<1>0. n \in Node
  BY DEF TypeOK
<1>1. Prelude(n, k, F)
  BY DEF ForwardRequest, SpinOnRequest, RedirectRequest
<1>2. /\ cached_op' \in [Node -> [Key -> Op]]
      /\ cache_op_size' \in [Node -> Nat]
      /\ link' \in [Node -> [Node -> [Key -> Seq(Op)]]]
      /\ conn' \in [Node -> [Node -> {"none", "up", "broken"}]]
      /\ is_synced' \in [Node -> BOOLEAN]
  BY <1>0, <1>1, PreludeType
<1>3. route' \in [Client -> Node]
  <2>1. getForwardAim(n) \subseteq Node
    BY <1>0 DEF getForwardAim, Peers, TypeOK
  <2>2. Owner \in Node
    BY ConstantsAssumption
  <2>3. route \in [Client -> Node]
    BY DEF TypeOK
  <2>4. CASE ForwardRequest(c, k, F)
    <3>1. PICK m \in getForwardAim(n) : route' = [route EXCEPT ![c] = m]
      BY <2>4 DEF ForwardRequest
    <3> QED BY <3>1, <2>1, <2>3
  <2>5. CASE SpinOnRequest(c, k, F)
    BY <2>5, <2>3 DEF SpinOnRequest, clientVars
  <2>6. CASE RedirectRequest(c, k, F)
    <3>1. route' = [route EXCEPT ![c] = Owner]
      BY <2>6 DEF RedirectRequest
    <3> QED BY <3>1, <2>2, <2>3
  <2> QED BY <2>4, <2>5, <2>6
<1>4. spinning' \in [Node -> BOOLEAN]
  <2>1. spinning \in [Node -> BOOLEAN]
    BY DEF TypeOK
  <2>2. CASE SpinOnRequest(c, k, F)
    <3>1. spinning' = [spinning EXCEPT ![n] = TRUE]
      BY <2>2 DEF SpinOnRequest
    <3> QED BY <3>1, <2>1, <1>0
  <2>3. CASE ForwardRequest(c, k, F) \/ RedirectRequest(c, k, F)
    BY <2>1, <2>3 DEF ForwardRequest, RedirectRequest
  <2> QED BY <2>2, <2>3
<1>5. UNCHANGED <<have_copy, is_copying, is_copied, related_ins, modeVars,
                  ustime, store, bus, no_forward, histVars, admins, faults>>
  <2>1. CASE ForwardRequest(c, k, F)
    BY <2>1 DEF ForwardRequest
  <2>2. CASE SpinOnRequest(c, k, F)
    BY <2>2 DEF SpinOnRequest, clientVars
  <2>3. CASE RedirectRequest(c, k, F)
    BY <2>3 DEF RedirectRequest
  <2> QED BY <2>1, <2>2, <2>3
<1> QED
  BY <1>2, <1>3, <1>4, <1>5 DEF TypeOK, modeVars, histVars

\* Broadcasting the cache of a node as it is.
LEMMA BroadcastOwnType ==
  ASSUME TypeOK, NEW n \in Node, broadcastCommandInHotGroup(n)
  PROVE  /\ cached_op' \in [Node -> [Key -> Op]]
         /\ cache_op_size' \in [Node -> Nat]
         /\ link' \in [Node -> [Node -> [Key -> Seq(Op)]]]
         /\ conn' \in [Node -> [Node -> {"none", "up", "broken"}]]
<1>1. PICK S \in Flushable(Cache(n)) : Broadcast(n, Cache(n), S)
  BY DEF broadcastCommandInHotGroup
<1>2. Cache(n) \in CacheType
  BY CacheHasType
<1> QED
  BY <1>1, <1>2, BroadcastType

\* A hot group message keeps the queues of the bus queues of messages.
LEMMA AnnouncedType ==
  ASSUME TypeOK, NEW n \in Node, NEW status \in {1, 2}
  PROVE  Announced(n, status) \in [Node -> [Node -> Seq({1, 2})]]
BY DEF TypeOK, Announced

\* Administrative commands keep the types.
LEMMA CommandType ==
  ASSUME TypeOK, Command
  PROVE  TypeOK'
<1>1. PICK n \in Node :
        \/ \E mode \in Mode, way \in Way : RunMode(n, mode, way)
        \/ HotGroupAdd(n)
        \/ HotGroupDel(n)
        \/ SetSlotCopying(n)
        \/ SetSlotFincopy(n)
  BY DEF Command
<1>2. admins' \in Nat
  <2>1. Admin
    BY <1>1 DEF RunMode, HotGroupAdd, HotGroupDel, SetSlotCopying, SetSlotFincopy
  <2> QED BY <2>1 DEF Admin, TypeOK
<1>3. ASSUME NEW mode \in Mode, NEW way \in Way, RunMode(n, mode, way)
      PROVE  TypeOK'
  <2>1. /\ is_sync' \in [Node -> BOOLEAN]
        /\ sync_time' \in [Node -> BOOLEAN]
    BY <1>3 DEF RunMode, SyncOf, SyncTimeOf, TypeOK
  <2>2. sync_0X' \in [Node -> SUBSET SubSecond]
    BY <1>3 DEF RunMode, TagsOf, TypeOK
  <2>3. forward_time' \in [Node -> BOOLEAN]
    BY <1>3 DEF RunMode, ForwardTimeOf, TypeOK
  <2> QED
    BY <1>2, <1>3, <2>1, <2>2, <2>3
    DEF RunMode, TypeOK, flagVars, cacheVars, netVars, clientVars, histVars
<1>4. CASE HotGroupAdd(n)
  <2>1. bus' \in [Node -> [Node -> Seq({1, 2})]]
    BY <1>4, AnnouncedType DEF HotGroupAdd
  <2>2. related_ins' \in [Node -> SUBSET Node]
    BY <1>4 DEF HotGroupAdd, TypeOK
  <2> QED
    BY <1>2, <1>4, <2>1, <2>2
    DEF HotGroupAdd, TypeOK, flagVars, cacheVars, modeVars, netVars,
        clientVars, histVars
<1>5. CASE HotGroupDel(n)
  <2>1. bus' \in [Node -> [Node -> Seq({1, 2})]]
    BY <1>5, AnnouncedType DEF HotGroupDel
  <2>2. related_ins' \in [Node -> SUBSET Node]
    BY <1>5 DEF HotGroupDel, TypeOK
  <2>3. /\ is_copied' \in [Node -> BOOLEAN]
        /\ is_copying' \in [Node -> BOOLEAN]
        /\ is_synced' \in [Node -> BOOLEAN]
    BY <1>5 DEF HotGroupDel, TypeOK
  <2>4. broadcastCommandInHotGroup(n)
    BY <1>5 DEF HotGroupDel
  <2>5. /\ cached_op' \in [Node -> [Key -> Op]]
        /\ cache_op_size' \in [Node -> Nat]
        /\ link' \in [Node -> [Node -> [Key -> Seq(Op)]]]
        /\ conn' \in [Node -> [Node -> {"none", "up", "broken"}]]
    BY <2>4, BroadcastOwnType
  <2>6. UNCHANGED <<have_copy, modeVars, ustime, store, spinning, clientVars,
                    histVars, faults>>
    BY <1>5 DEF HotGroupDel
  <2> QED
    BY <1>2, <2>1, <2>2, <2>3, <2>5, <2>6
    DEF TypeOK, modeVars, clientVars, histVars
<1>6. CASE SetSlotCopying(n)
  BY <1>2, <1>6
  DEF SetSlotCopying, TypeOK, cacheVars, modeVars, netVars, clientVars, histVars
<1>7. CASE SetSlotFincopy(n)
  BY <1>2, <1>7
  DEF SetSlotFincopy, TypeOK, cacheVars, modeVars, netVars, clientVars, histVars
<1> QED
  BY <1>1, <1>3, <1>4, <1>5, <1>6, <1>7

\* The clock and clusterCron keep the types.
LEMMA TimerType ==
  ASSUME TypeOK, Timer
  PROVE  TypeOK'
<1>1. PICK n \in Node : updateCachedTime(n) \/ clusterCron(n)
  BY DEF Timer
<1>2. CASE updateCachedTime(n)
  BY <1>2
  DEF updateCachedTime, TypeOK, flagVars, cacheVars, modeVars, netVars,
      clientVars, histVars
<1>3. CASE clusterCron(n)
  <2>1. broadcastCommandInHotGroup(n)
    BY <1>3 DEF clusterCron
  <2>2. /\ cached_op' \in [Node -> [Key -> Op]]
        /\ cache_op_size' \in [Node -> Nat]
        /\ link' \in [Node -> [Node -> [Key -> Seq(Op)]]]
        /\ conn' \in [Node -> [Node -> {"none", "up", "broken"}]]
    BY <2>1, BroadcastOwnType
  <2> QED
    BY <1>3, <2>2
    DEF clusterCron, TypeOK, flagVars, modeVars, clientVars, histVars
<1> QED
  BY <1>1, <1>2, <1>3

\* Received commands and hot group messages keep the types.
LEMMA DeliverType ==
  ASSUME TypeOK, Deliver
  PROVE  TypeOK'
<1>1. PICK s \in Node, d \in Node :
        \/ \E k \in Key : ReceiveSync(s, d, k)
        \/ ReceiveHotGroup(s, d)
  BY DEF Deliver
<1>2. ASSUME NEW k \in Key, ReceiveSync(s, d, k)
      PROVE  TypeOK'
  <2> DEFINE op == Head(link[s][d][k])
             hash == Apply(store[d][k], op)
  <2>1. link[s][d][k] \in Seq(Op) /\ link[s][d][k] # <<>>
    BY <1>2 DEF ReceiveSync, TypeOK
  <2>2. op \in Op /\ Tail(link[s][d][k]) \in Seq(Op)
    BY <2>1
  <2>3. store[d][k] \in [Field -> Nat]
    BY DEF TypeOK
  <2>4. hash \in [Field -> Nat]
    BY <2>2, <2>3, ApplyType
  <2>5. store' = store \/ store' = [store EXCEPT ![d][k] = hash]
    BY <1>2 DEF ReceiveSync
  <2>6. store \in [Node -> [Key -> [Field -> Nat]]]
    BY DEF TypeOK
  <2> HIDE DEF hash
  <2>7. [store EXCEPT ![d][k] = hash] \in [Node -> [Key -> [Field -> Nat]]]
    BY <2>4, <2>6, StoreType
  <2>8. store' \in [Node -> [Key -> [Field -> Nat]]]
    BY <2>5, <2>6, <2>7
  <2>9. link' \in [Node -> [Node -> [Key -> Seq(Op)]]]
    <3> DEFINE rest == Tail(link[s][d][k])
    <3>1. link' = [link EXCEPT ![s][d][k] = rest]
      BY <1>2 DEF ReceiveSync
    <3>2. link \in [Node -> [Node -> [Key -> Seq(Op)]]]
      BY DEF TypeOK
    <3>3. rest \in Seq(Op)
      BY <2>2
    <3> HIDE DEF rest
    <3>4. [link EXCEPT ![s][d][k] = rest] \in [Node -> [Node -> [Key -> Seq(Op)]]]
      BY <3>2, <3>3, QueueReplaced
    <3> QED BY <3>1, <3>4
  <2>10. faults' \in Nat
    <3>1. faults' = faults \/ faults' = faults + 1
      BY <1>2 DEF ReceiveSync
    <3> QED BY <3>1 DEF TypeOK
  <2>11. UNCHANGED <<flagVars, related_ins, cacheVars, modeVars, ustime,
                     spinning, conn, bus, clientVars, histVars, admins>>
    BY <1>2 DEF ReceiveSync
  <2> QED
    BY <2>8, <2>9, <2>10, <2>11
    DEF TypeOK, flagVars, cacheVars, modeVars, clientVars, histVars
<1>3. CASE ReceiveHotGroup(s, d)
  <2>1. bus[s][d] \in Seq({1, 2}) /\ bus[s][d] # <<>>
    BY <1>3 DEF ReceiveHotGroup, TypeOK
  <2>2. bus' \in [Node -> [Node -> Seq({1, 2})]]
    <3>1. Tail(bus[s][d]) \in Seq({1, 2})
      BY <2>1
    <3>2. bus' = [bus EXCEPT ![s][d] = Tail(bus[s][d])]
      BY <1>3 DEF ReceiveHotGroup
    <3> QED BY <3>1, <3>2 DEF TypeOK
  <2>3. is_copied' \in [Node -> BOOLEAN] /\ related_ins' \in [Node -> SUBSET Node]
    <3>1. /\ is_copied' = is_copied \/ is_copied' = [is_copied EXCEPT ![d] = TRUE]
          /\ \/ related_ins' = [related_ins EXCEPT ![d] = @ \cup {s}]
             \/ related_ins' = [related_ins EXCEPT ![d] = @ \ {s}]
      BY <1>3 DEF ReceiveHotGroup
    <3>2. is_copied' \in [Node -> BOOLEAN]
      BY <3>1 DEF TypeOK
    <3>3. related_ins \in [Node -> SUBSET Node]
      BY DEF TypeOK
    <3>4. related_ins' \in [Node -> SUBSET Node]
      BY <3>1, <3>3
    <3> QED BY <3>2, <3>4
  <2> QED
    BY <1>3, <2>2, <2>3
    DEF ReceiveHotGroup, TypeOK, cacheVars, modeVars, netVars, clientVars,
        histVars
<1> QED
  BY <1>1, <1>2, <1>3

\* Lost messages, broken connections and restarts keep the types.
LEMMA FailureType ==
  ASSUME TypeOK, Failure
  PROVE  TypeOK'
<1>1. faults' \in Nat
  <2>1. Fault
    BY DEF Failure, LoseHotGroup, BreakConn, Restart
  <2> QED BY <2>1 DEF Fault, TypeOK
<1>2. ASSUME NEW s \in Node, NEW d \in Node, LoseHotGroup(s, d)
      PROVE  TypeOK'
  <2>1. bus[s][d] \in Seq({1, 2}) /\ bus[s][d] # <<>>
    BY <1>2 DEF LoseHotGroup, TypeOK
  <2>2. Tail(bus[s][d]) \in Seq({1, 2})
    BY <2>1
  <2>3. bus' = [bus EXCEPT ![s][d] = Tail(bus[s][d])]
    BY <1>2 DEF LoseHotGroup
  <2>4. bus' \in [Node -> [Node -> Seq({1, 2})]]
    BY <2>2, <2>3 DEF TypeOK
  <2> QED
    BY <1>1, <1>2, <2>4
    DEF LoseHotGroup, TypeOK, flagVars, cacheVars, modeVars, netVars,
        clientVars, histVars
<1>3. ASSUME NEW s \in Node, NEW d \in Node, BreakConn(s, d)
      PROVE  TypeOK'
  <2>1. link' \in [Node -> [Node -> [Key -> Seq(Op)]]]
    <3>1. [k \in Key |-> <<>>] \in [Key -> Seq(Op)]
      OBVIOUS
    <3> QED BY <1>3, <3>1 DEF BreakConn, TypeOK
  <2>2. conn' \in [Node -> [Node -> {"none", "up", "broken"}]]
    BY <1>3 DEF BreakConn, TypeOK
  <2> QED
    BY <1>1, <1>3, <2>1, <2>2
    DEF BreakConn, TypeOK, flagVars, cacheVars, modeVars, clientVars, histVars
<1>4. ASSUME NEW n \in Node, Restart(n)
      PROVE  TypeOK'
  <2>1. /\ have_copy' \in [Node -> BOOLEAN]
        /\ is_copying' \in [Node -> BOOLEAN]
        /\ is_copied' \in [Node -> BOOLEAN]
        /\ is_synced' \in [Node -> BOOLEAN]
        /\ related_ins' \in [Node -> SUBSET Node]
        /\ is_sync' \in [Node -> BOOLEAN]
        /\ sync_time' \in [Node -> BOOLEAN]
        /\ forward_time' \in [Node -> BOOLEAN]
        /\ sync_0X' \in [Node -> SUBSET SubSecond]
        /\ spinning' \in [Node -> BOOLEAN]
    BY <1>4 DEF Restart, TypeOK
  <2>2. /\ cached_op' \in [Node -> [Key -> Op]]
        /\ cache_op_size' \in [Node -> Nat]
    <3>1. [k \in Key |-> NoOp] \in [Key -> Op]
      BY DEF NoOp, Op
    <3> QED BY <1>4, <3>1 DEF Restart, SetCache, TypeOK
  <2>3. store' \in [Node -> [Key -> [Field -> Nat]]]
    <3>1. Empty \in [Key -> [Field -> Nat]]
      BY DEF Empty, NoHash
    <3>2. store' = [store EXCEPT ![n] = Empty]
      BY <1>4 DEF Restart
    <3> QED BY <3>1, <3>2 DEF TypeOK
  <2>4. conn' \in [Node -> [Node -> {"none", "up", "broken"}]]
    BY <1>4 DEF Restart, TypeOK
  <2>5. link' \in [Node -> [Node -> [Key -> Seq(Op)]]]
    BY <1>4 DEF Restart, TypeOK
  <2>6. bus' \in [Node -> [Node -> Seq({1, 2})]]
    BY <1>4 DEF Restart, TypeOK
  <2>7. no_forward' \in [Client -> [Node -> BOOLEAN]]
    BY <1>4 DEF Restart, TypeOK
  <2>8. UNCHANGED <<ustime, route, histVars, admins>>
    BY <1>4 DEF Restart
  <2> QED
    BY <1>1, <2>1, <2>2, <2>3, <2>4, <2>5, <2>6, <2>7, <2>8
    DEF TypeOK, histVars
<1> QED
  BY <1>2, <1>3, <1>4 DEF Failure

\* MIGRATE COPY keeps the types.
LEMMA CopyType ==
  ASSUME TypeOK, Copy
  PROVE  TypeOK'
<1>1. PICK s \in Node, d \in Node, k \in Key : MigrateCopy(s, d, k)
  BY DEF Copy
<1>2. store \in [Node -> [Key -> [Field -> Nat]]] /\ store[s][k] \in [Field -> Nat]
  BY DEF TypeOK
<1>3. [store EXCEPT ![d][k] = store[s][k]] \in [Node -> [Key -> [Field -> Nat]]]
  BY <1>2, StoreType
<1>4. store' \in [Node -> [Key -> [Field -> Nat]]]
  BY <1>1, <1>3 DEF MigrateCopy
<1> QED
  BY <1>1, <1>4
  DEF MigrateCopy, TypeOK, flagVars, cacheVars, modeVars, netVars, clientVars,
      histVars

\* The types hold at the start of the servers and in an established group.
LEMMA TypeInit ==
  ASSUME Init \/ InitEstablished
  PROVE  TypeOK
<1> USE ConstantsAssumption
<1>1. ServerInit
  BY DEF Init, InitEstablished
<1>2. NoOp \in Op
  BY DEF NoOp, Op
<1>3. Loaded \in [Key -> [Field -> Nat]] /\ Empty \in [Key -> [Field -> Nat]]
  BY DEF Loaded, Empty, NoHash
<1>4. store \in [Node -> [Key -> [Field -> Nat]]]
  <2>1. CASE Init
    <3>1. \A n \in Node : (IF n = Owner THEN Loaded ELSE Empty)
                            \in [Key -> [Field -> Nat]]
      BY <1>3
    <3> QED BY <2>1, <3>1 DEF Init
  <2>2. CASE InitEstablished
    BY <2>2, <1>3 DEF InitEstablished
  <2> QED BY <2>1, <2>2
<1>5. /\ have_copy \in [Node -> BOOLEAN]
      /\ is_copied \in [Node -> BOOLEAN]
      /\ related_ins \in [Node -> SUBSET Node]
  <2>1. CASE Init
    BY <2>1 DEF Init
  <2>2. CASE InitEstablished
    BY <2>2 DEF InitEstablished
  <2> QED BY <2>1, <2>2
<1>6. /\ is_sync \in [Node -> BOOLEAN]
      /\ sync_time \in [Node -> BOOLEAN]
      /\ forward_time \in [Node -> BOOLEAN]
      /\ sync_0X \in [Node -> SUBSET SubSecond]
  <2>1. CASE Init
    BY <2>1 DEF Init
  <2>2. CASE InitEstablished
    <3>1. PICK mode \in Mode, way \in Way :
            /\ is_sync = [n \in Node |-> SyncOf(mode)]
            /\ sync_time = [n \in Node |-> SyncTimeOf(mode)]
            /\ forward_time = [n \in Node |-> ForwardTimeOf(way, FALSE)]
            /\ sync_0X = [n \in Node |-> TagsOf(mode, {})]
      BY <2>2 DEF InitEstablished
    <3>2. /\ SyncOf(mode) \in BOOLEAN /\ SyncTimeOf(mode) \in BOOLEAN
          /\ ForwardTimeOf(way, FALSE) \in BOOLEAN
          /\ TagsOf(mode, {}) \subseteq SubSecond
      BY DEF SyncOf, SyncTimeOf, ForwardTimeOf, TagsOf
    <3> QED BY <3>1, <3>2
  <2> QED BY <2>1, <2>2
<1>7. /\ cached_op \in [Node -> [Key -> Op]]
      /\ cache_op_size \in [Node -> Nat]
      /\ link \in [Node -> [Node -> [Key -> Seq(Op)]]]
      /\ conn \in [Node -> [Node -> {"none", "up", "broken"}]]
      /\ bus \in [Node -> [Node -> Seq({1, 2})]]
  BY <1>1, <1>2 DEF ServerInit
<1>8. /\ writes \in 1..(MaxWrite + 1)
      /\ stamp \in [0..(MaxWrite + 1) -> Nat]
      /\ writers \in [Key -> SUBSET Node]
      /\ admins \in Nat
      /\ faults \in Nat
  BY <1>1 DEF ServerInit
<1>9. /\ is_copying \in [Node -> BOOLEAN]
      /\ is_synced \in [Node -> BOOLEAN]
      /\ ustime \in [Node -> Nat]
      /\ spinning \in [Node -> BOOLEAN]
      /\ route \in [Client -> Node]
      /\ no_forward \in [Client -> [Node -> BOOLEAN]]
  BY <1>1 DEF ServerInit
<1> QED
  BY <1>4, <1>5, <1>6, <1>7, <1>8, <1>9 DEF TypeOK

\* Every step keeps the types.
LEMMA TypeStep ==
  ASSUME TypeOK, [Next]_vars
  PROVE  TypeOK'
<1>1. CASE Request
  <2>1. PICK c \in Client, k \in Key, F \in WriteSets \cup {{}} :
          \/ ForwardRequest(c, k, F)
          \/ SpinOnRequest(c, k, F)
          \/ RedirectRequest(c, k, F)
          \/ ServeRequest(c, k, F)
    BY <1>1 DEF Request
  <2> QED BY <2>1, TurnedAwayType, ServeType
<1>2. CASE UNCHANGED vars
  BY <1>2
  DEF vars, TypeOK, flagVars, cacheVars, modeVars, netVars, clientVars, histVars
<1> QED
  BY <1>1, <1>2, CommandType, TimerType, DeliverType, FailureType, CopyType
  DEF Next

\* Every variable has its type in every reachable state, from a fresh cluster
\* and from an established hot group; in particular cache_op_size, which every
\* broadcast decrements, never becomes negative.
THEOREM TypeCorrect ==
  Spec \/ EstablishedSpec => []TypeOK
<1>1. Init \/ InitEstablished => TypeOK
  BY TypeInit
<1>2. TypeOK /\ [Next]_vars => TypeOK'
  BY TypeStep
<1> QED
  BY <1>1, <1>2, PTL DEF Spec, EstablishedSpec

-----------------------------------------------------------------------------
(* The flags of a copy.                                                    *)

\* No step sets have_copy and is_copying of a node together.
LEMMA CopyingStep ==
  ASSUME TypeOK, NeverCopyingWithCopy, [Next]_vars
  PROVE  NeverCopyingWithCopy'
<1>1. CASE UNCHANGED <<have_copy, is_copying>>
  BY <1>1 DEF NeverCopyingWithCopy
<1>2. CASE Request
  BY <1>1, <1>2
  DEF Request, ForwardRequest, SpinOnRequest, RedirectRequest, ServeRequest
<1>3. CASE Command
  <2>1. PICK n \in Node :
          \/ \E mode \in Mode, way \in Way : RunMode(n, mode, way)
          \/ HotGroupAdd(n)
          \/ HotGroupDel(n)
          \/ SetSlotCopying(n)
          \/ SetSlotFincopy(n)
    BY <1>3 DEF Command
  <2>2. CASE \E mode \in Mode, way \in Way : RunMode(n, mode, way)
    BY <1>1, <2>2 DEF RunMode, flagVars
  <2>3. CASE HotGroupAdd(n)
    BY <1>1, <2>3 DEF HotGroupAdd, flagVars
  <2>4. CASE HotGroupDel(n)
    BY <2>4 DEF HotGroupDel, NeverCopyingWithCopy, TypeOK
  <2>5. CASE SetSlotCopying(n)
    BY <2>5 DEF SetSlotCopying, NeverCopyingWithCopy, TypeOK
  <2>6. CASE SetSlotFincopy(n)
    BY <2>6 DEF SetSlotFincopy, NeverCopyingWithCopy, TypeOK
  <2> QED BY <2>1, <2>2, <2>3, <2>4, <2>5, <2>6
<1>4. CASE Timer \/ Deliver \/ Copy
  BY <1>1, <1>4
  DEF Timer, updateCachedTime, clusterCron, Deliver, ReceiveSync,
      ReceiveHotGroup, Copy, MigrateCopy, flagVars
<1>5. CASE Failure
  <2>1. CASE \E s, d \in Node : LoseHotGroup(s, d) \/ BreakConn(s, d)
    BY <1>1, <2>1 DEF LoseHotGroup, BreakConn, flagVars
  <2>2. ASSUME NEW n \in Node, Restart(n)
        PROVE  NeverCopyingWithCopy'
    BY <2>2 DEF Restart, NeverCopyingWithCopy, TypeOK
  <2> QED BY <1>5, <2>1, <2>2 DEF Failure
<1>6. CASE UNCHANGED vars
  BY <1>1, <1>6 DEF vars, flagVars
<1> QED
  BY <1>2, <1>3, <1>4, <1>5, <1>6 DEF Next

\* SETSLOT COPYING, FINCOPY and HOTGROUP DEL never leave have_copy and
\* is_copying set together: the branch of processCommand that caches writes
\* during a copy is dead code, for every size of the cluster.
THEOREM CopyBranchIsDead ==
  Spec \/ EstablishedSpec => []NeverCopyingWithCopy
<1>1. Init \/ InitEstablished => NeverCopyingWithCopy
  BY DEF Init, InitEstablished, ServerInit, NeverCopyingWithCopy
<1>2. NeverCopyingWithCopy /\ TypeOK /\ [Next]_vars => NeverCopyingWithCopy'
  BY CopyingStep
<1> QED
  BY <1>1, <1>2, TypeCorrect, PTL DEF Spec, EstablishedSpec

-----------------------------------------------------------------------------
(* The endless loop of getForwardAim.                                      *)

\* A server that hangs owns the slot and knows of no other member of its group.
SpinsOnlyAlone ==
  \A n \in Node :
    spinning[n] => n = Owner /\ forward_time[n] /\ related_ins[n] = {n}

\* What a spinning server knows does not change: it executes nothing.
LEMMA SpinStep ==
  ASSUME TypeOK, SpinsOnlyAlone, [Next]_vars
  PROVE  SpinsOnlyAlone'
<1>1. CASE UNCHANGED <<spinning, forward_time, related_ins>>
  BY <1>1 DEF SpinsOnlyAlone
<1>2. CASE Request
  <2>1. PICK c \in Client, k \in Key, F \in WriteSets \cup {{}} :
          \/ ForwardRequest(c, k, F)
          \/ SpinOnRequest(c, k, F)
          \/ RedirectRequest(c, k, F)
          \/ ServeRequest(c, k, F)
    BY <1>2 DEF Request
  <2>2. CASE SpinOnRequest(c, k, F)
    <3>1. route[c] \in Node
      BY DEF TypeOK
    <3>2. /\ route[c] = Owner
          /\ forward_time[route[c]]
          /\ related_ins[route[c]] = {route[c]}
      BY <2>2, <3>1 DEF SpinOnRequest, Forwards, DrawsForever, Peers
    <3> QED
      BY <2>2, <3>1, <3>2 DEF SpinOnRequest, SpinsOnlyAlone, TypeOK, modeVars
  <2>3. CASE ~SpinOnRequest(c, k, F)
    BY <1>1, <2>1, <2>3
    DEF ForwardRequest, RedirectRequest, ServeRequest, modeVars
  <2> QED BY <2>2, <2>3
<1>3. CASE Command
  <2>1. PICK n \in Node :
          \/ \E mode \in Mode, way \in Way : RunMode(n, mode, way)
          \/ HotGroupAdd(n)
          \/ HotGroupDel(n)
          \/ SetSlotCopying(n)
          \/ SetSlotFincopy(n)
    BY <1>3 DEF Command
  <2>2. ASSUME NEW mode \in Mode, NEW way \in Way, RunMode(n, mode, way)
        PROVE  SpinsOnlyAlone'
    BY <2>2 DEF RunMode, SpinsOnlyAlone, TypeOK
  <2>3. CASE HotGroupAdd(n)
    BY <2>3 DEF HotGroupAdd, SpinsOnlyAlone, TypeOK, modeVars
  <2>4. CASE HotGroupDel(n)
    BY <2>4 DEF HotGroupDel, SpinsOnlyAlone, TypeOK, modeVars
  <2>5. CASE SetSlotCopying(n) \/ SetSlotFincopy(n)
    BY <1>1, <2>5 DEF SetSlotCopying, SetSlotFincopy, modeVars
  <2> QED BY <2>1, <2>2, <2>3, <2>4, <2>5
<1>4. CASE Deliver
  <2>1. CASE \E s, d \in Node, k \in Key : ReceiveSync(s, d, k)
    BY <1>1, <2>1 DEF ReceiveSync, modeVars
  <2>2. ASSUME NEW s \in Node, NEW d \in Node, ReceiveHotGroup(s, d)
        PROVE  SpinsOnlyAlone'
    <3>1. ~spinning[d] /\ UNCHANGED <<spinning, forward_time>>
      BY <2>2 DEF ReceiveHotGroup, modeVars
    <3>2. \A n \in Node \ {d} : related_ins'[n] = related_ins[n]
      BY <2>2 DEF ReceiveHotGroup, TypeOK
    <3> QED BY <3>1, <3>2 DEF SpinsOnlyAlone
  <2> QED BY <1>4, <2>1, <2>2 DEF Deliver
<1>5. CASE Timer \/ Copy
  BY <1>1, <1>5
  DEF Timer, updateCachedTime, clusterCron, Copy, MigrateCopy, modeVars
<1>6. CASE Failure
  <2>1. CASE \E s, d \in Node : LoseHotGroup(s, d) \/ BreakConn(s, d)
    BY <1>1, <2>1 DEF LoseHotGroup, BreakConn, modeVars
  <2>2. ASSUME NEW n \in Node, Restart(n)
        PROVE  SpinsOnlyAlone'
    BY <2>2 DEF Restart, SpinsOnlyAlone, TypeOK
  <2> QED BY <1>6, <2>1, <2>2 DEF Failure
<1>7. CASE UNCHANGED vars
  BY <1>1, <1>7 DEF vars, modeVars
<1> QED
  BY <1>2, <1>3, <1>4, <1>5, <1>6, <1>7 DEF Next

LEMMA SpinsAlone ==
  Spec \/ EstablishedSpec => []SpinsOnlyAlone
<1>1. Init \/ InitEstablished => SpinsOnlyAlone
  BY DEF Init, InitEstablished, ServerInit, SpinsOnlyAlone
<1>2. SpinsOnlyAlone /\ TypeOK /\ [Next]_vars => SpinsOnlyAlone'
  BY SpinStep
<1> QED
  BY <1>1, <1>2, TypeCorrect, PTL DEF Spec, EstablishedSpec
-----------------------------------------------------------------------------
(* The counter of the cache.                                               *)

\* A cache whose counter is not below the number of its commands.
Counted(cache) == Cardinality(CachedKeys(cache.ops)) <= cache.size

\* The broadcast loop deletes as many commands as it subtracts.
LEMMA FlushCounted ==
  ASSUME NEW cache \in CacheType, Counted(cache),
         NEW S \in Flushable(cache) \cup {{}}
  PROVE  Counted(Flushed(cache, S))
<1>1. CASE S = {}
  BY <1>1, FlushedNothing
<1>2. CASE S \in Flushable(cache)
  <2> DEFINE all == CachedKeys(cache.ops)
             left == CachedKeys(Flushed(cache, S).ops)
  <2>1. S \subseteq all /\ IsFiniteSet(S) /\ Cardinality(S) \in Nat
    BY <1>2, FlushableBounded
  <2>2. IsFiniteSet(all) /\ Cardinality(all) \in Nat
    BY CachedKeysFinite
  <2>3. left = all \ S
    BY <2>1 DEF CachedKeys, Flushed
  <2>4. Cardinality(all \ S) = Cardinality(all) - Cardinality(all \cap S)
    BY <2>2, FS_Difference
  <2>5. all \cap S = S
    BY <2>1
  <2>6. Flushed(cache, S).size = cache.size - Cardinality(S)
    BY DEF Flushed
  <2>7. cache.size \in Nat
    BY DEF CacheType
  <2>8. Cardinality(left) = Cardinality(all) - Cardinality(S)
    BY <2>3, <2>4, <2>5
  <2>9. Cardinality(all) <= cache.size
    BY DEF Counted
  <2> HIDE DEF all, left
  <2>10. Cardinality(left) <= Flushed(cache, S).size
    BY <2>1, <2>2, <2>6, <2>7, <2>8, <2>9
  <2> QED BY <2>10 DEF Counted, left
<1> QED BY <1>1, <1>2

\* addCmdToCache adds one to the counter and at most one command.
LEMMA AddCounted ==
  ASSUME NEW cache \in CacheType, Counted(cache), NEW k \in Key, NEW op \in Op
  PROVE  Counted(addCmdToCache(cache, k, op))
<1> DEFINE old == CachedKeys(cache.ops)
           new == CachedKeys(addCmdToCache(cache, k, op).ops)
<1>1. IsFiniteSet(old) /\ Cardinality(old) \in Nat /\ cache.size \in Nat
  BY CachedKeysFinite DEF CacheType
<1>2. new \subseteq old \cup {k}
  BY DEF CachedKeys, addCmdToCache, CacheType
<1>3. /\ IsFiniteSet(old \cup {k})
      /\ \/ Cardinality(old \cup {k}) = Cardinality(old)
         \/ Cardinality(old \cup {k}) = Cardinality(old) + 1
  BY <1>1, FS_AddElement
<1>4. Cardinality(new) <= Cardinality(old \cup {k}) /\ Cardinality(new) \in Nat
  BY <1>2, <1>3, FS_Subset, FS_CardinalityType
<1>5. Cardinality(old) <= cache.size
  BY DEF Counted
<1>6. addCmdToCache(cache, k, op).size = cache.size + 1
  BY DEF addCmdToCache
<1> HIDE DEF old, new
<1>7. Cardinality(new) <= addCmdToCache(cache, k, op).size
  BY <1>1, <1>3, <1>4, <1>5, <1>6
<1> QED BY <1>7 DEF Counted, new

\* What CacheCounted says of the cache of one node.
LEMMA CountedCache ==
  ASSUME CacheCounted, NEW n \in Node
  PROVE  Counted(Cache(n))
BY DEF CacheCounted, Counted, Cache, Cached

\* The test for a write during a copy keeps the cache counted.
LEMMA CountedCopying ==
  ASSUME TypeOK, CacheCounted, NEW n \in Node, NEW k \in Key,
         NEW F \in WriteSets \cup {{}}
  PROVE  Counted(CopyingCache(n, k, F))
BY CountedCache, AddCounted, CacheHasType, NewOpType DEF CopyingCache

\* A node that stores a counted cache leaves every cache counted.
LEMMA SetCacheCounted ==
  ASSUME TypeOK, CacheCounted, NEW n \in Node, NEW cache \in CacheType,
         Counted(cache), SetCache(n, cache)
  PROVE  CacheCounted'
<1> SUFFICES ASSUME NEW m \in Node
             PROVE  Cardinality(CachedKeys(cached_op'[m])) <= cache_op_size'[m]
  BY DEF CacheCounted, Cached, CachedKeys
<1>1. CASE m = n
  <2>1. cached_op'[m] = cache.ops /\ cache_op_size'[m] = cache.size
    BY <1>1 DEF SetCache, TypeOK
  <2> QED BY <2>1 DEF Counted
<1>2. CASE m # n
  <2>1. cached_op'[m] = cached_op[m] /\ cache_op_size'[m] = cache_op_size[m]
    BY <1>2 DEF SetCache, TypeOK
  <2> QED BY <2>1 DEF CacheCounted, Cached
<1> QED BY <1>1, <1>2

\* A broadcast of a counted cache keeps every cache counted.
LEMMA BroadcastCounted ==
  ASSUME TypeOK, CacheCounted, NEW n \in Node, NEW cache \in CacheType,
         Counted(cache), NEW S \in Flushable(cache) \cup {{}},
         Broadcast(n, cache, S)
  PROVE  CacheCounted'
<1>1. Flushed(cache, S) \in CacheType
  BY FlushedType, FlushedNothing
<1>2. Counted(Flushed(cache, S))
  BY FlushCounted
<1>3. SetCache(n, Flushed(cache, S))
  BY DEF Broadcast
<1> QED BY <1>1, <1>2, <1>3, SetCacheCounted

\* So does a broadcast of the cache as it is.
LEMMA BroadcastOwnCounted ==
  ASSUME TypeOK, CacheCounted, NEW n \in Node, broadcastCommandInHotGroup(n)
  PROVE  CacheCounted'
<1>1. PICK S \in Flushable(Cache(n)) : Broadcast(n, Cache(n), S)
  BY DEF broadcastCommandInHotGroup
<1> QED
  BY <1>1, CacheHasType, CountedCache, BroadcastCounted

\* A request that is not served keeps every cache counted.
LEMMA TurnedAwayCounted ==
  ASSUME TypeOK, CacheCounted, NEW n \in Node, NEW k \in Key,
         NEW F \in WriteSets \cup {{}}, Prelude(n, k, F)
  PROVE  CacheCounted'
<1> DEFINE cache == CopyingCache(n, k, F)
<1>1. cache \in CacheType /\ Counted(cache)
  BY CopyingCacheType, CountedCopying
<1>2. PICK S \in FirstSync(n, cache) : Broadcast(n, cache, S)
  BY DEF Prelude
<1>3. S \in Flushable(cache) \cup {{}}
  BY <1>2, FirstSyncFlushes
<1> HIDE DEF cache
<1> QED
  BY <1>1, <1>2, <1>3, BroadcastCounted

\* Serving a request flushes, adds and flushes again, all counted.
LEMMA ServeCounted ==
  ASSUME TypeOK, CacheCounted, NEW c \in Client, NEW k \in Key,
         NEW F \in WriteSets \cup {{}}, ServeRequest(c, k, F)
  PROVE  CacheCounted'
<1> DEFINE n == route[c]
           op == NewOp(n, F)
           cache == CopyingCache(n, k, F)
           caches == InGroup(n, c) /\ IsWrite(F) /\ is_sync[n]
           Rest(S1) == Flushed(cache, S1)
           Full(S1) == IF caches THEN addCmdToCache(Rest(S1), k, op)
                                 ELSE Rest(S1)
<1>0. n \in Node
  BY DEF TypeOK
<1>1. op \in Op /\ cache \in CacheType /\ Counted(cache)
  BY <1>0, NewOpType, CopyingCacheType, CountedCopying
<1>2. PICK S1 \in FirstSync(n, cache) :
        \E S2 \in IF caches /\ ~sync_time[n] THEN Flushable(Full(S1)) ELSE {{}} :
          SetCache(n, Flushed(Full(S1), S2))
  BY DEF ServeRequest
<1>3. PICK S2 \in IF caches /\ ~sync_time[n] THEN Flushable(Full(S1)) ELSE {{}} :
        SetCache(n, Flushed(Full(S1), S2))
  BY <1>2
<1>4. S1 \in Flushable(cache) \cup {{}}
  BY <1>2, FirstSyncFlushes
<1>5. S2 \in Flushable(Full(S1)) \cup {{}}
  BY <1>3
<1> HIDE DEF cache, op, caches
<1>6. Rest(S1) \in CacheType /\ Counted(Rest(S1))
  BY <1>1, <1>4, FlushedType, FlushedNothing, FlushCounted
<1>7. Full(S1) \in CacheType /\ Counted(Full(S1))
  BY <1>1, <1>6, AddType, AddCounted
<1> HIDE DEF Full, Rest
<1>8. Flushed(Full(S1), S2) \in CacheType /\ Counted(Flushed(Full(S1), S2))
  BY <1>5, <1>7, FlushedType, FlushedNothing, FlushCounted
<1> QED
  BY <1>0, <1>3, <1>8, SetCacheCounted

\* Every step keeps every cache counted.
LEMMA CountedStep ==
  ASSUME TypeOK, CacheCounted, [Next]_vars
  PROVE  CacheCounted'
<1>1. CASE UNCHANGED cacheVars
  BY <1>1 DEF cacheVars, CacheCounted, Cached, CachedKeys
<1>2. CASE Request
  <2>1. PICK c \in Client, k \in Key, F \in WriteSets \cup {{}} :
          \/ ForwardRequest(c, k, F)
          \/ SpinOnRequest(c, k, F)
          \/ RedirectRequest(c, k, F)
          \/ ServeRequest(c, k, F)
    BY <1>2 DEF Request
  <2>2. route[c] \in Node
    BY DEF TypeOK
  <2>3. ServeRequest(c, k, F) \/ Prelude(route[c], k, F)
    BY <2>1 DEF ForwardRequest, SpinOnRequest, RedirectRequest
  <2> QED BY <2>2, <2>3, ServeCounted, TurnedAwayCounted
<1>3. CASE Command
  BY <1>1, <1>3, BroadcastOwnCounted
  DEF Command, RunMode, HotGroupAdd, HotGroupDel, SetSlotCopying,
      SetSlotFincopy
<1>4. CASE Timer
  BY <1>1, <1>4, BroadcastOwnCounted DEF Timer, updateCachedTime, clusterCron
<1>5. CASE Deliver \/ Copy
  BY <1>1, <1>5
  DEF Deliver, ReceiveSync, ReceiveHotGroup, Copy, MigrateCopy
<1>6. CASE Failure
  <2>1. CASE \E s, d \in Node : LoseHotGroup(s, d) \/ BreakConn(s, d)
    BY <1>1, <2>1 DEF LoseHotGroup, BreakConn
  <2>2. ASSUME NEW n \in Node, Restart(n)
        PROVE  CacheCounted'
    <3> DEFINE none == [ops |-> [k \in Key |-> NoOp], size |-> 0]
    <3>1. none \in CacheType
      BY DEF CacheType, NoOp, Op
    <3>2. CachedKeys(none.ops) = {}
      BY DEF CachedKeys
    <3>3. Counted(none)
      BY <3>2, FS_EmptySet DEF Counted
    <3>4. SetCache(n, none)
      BY <2>2 DEF Restart
    <3> HIDE DEF none
    <3> QED BY <3>1, <3>3, <3>4, SetCacheCounted
  <2> QED BY <1>6, <2>1, <2>2 DEF Failure
<1>7. CASE UNCHANGED vars
  BY <1>1, <1>7 DEF vars
<1> QED
  BY <1>2, <1>3, <1>4, <1>5, <1>6, <1>7 DEF Next

\* The counter that ends the loop of broadcastCommandInHotGroup is never below
\* the number of cached commands, for every number of keys and nodes: a
\* broadcast always empties the cache.
THEOREM CounterCovers ==
  Spec \/ EstablishedSpec => []CacheCounted
<1>1. Init \/ InitEstablished => CacheCounted
  <2> SUFFICES ASSUME Init \/ InitEstablished, NEW n \in Node
               PROVE  Cardinality(Cached(n)) <= cache_op_size[n]
    BY DEF CacheCounted
  <2>1. ServerInit
    BY DEF Init, InitEstablished
  <2>2. Cached(n) = {} /\ cache_op_size[n] = 0
    BY <2>1 DEF ServerInit, Cached, CachedKeys
  <2> QED BY <2>2, FS_EmptySet
<1>2. CacheCounted /\ TypeOK /\ [Next]_vars => CacheCounted'
  BY CountedStep
<1> QED
  BY <1>1, <1>2, TypeCorrect, PTL DEF Spec, EstablishedSpec
-----------------------------------------------------------------------------
(* A broadcast takes all along.                                            *)

\* The loop sends all of a counted cache.
LEMMA FlushableAll ==
  ASSUME NEW cache \in CacheType, Counted(cache)
  PROVE  Flushable(cache) = {CachedKeys(cache.ops)}
BY CachedKeysFinite DEF Flushable, Counted, CacheType

\* The last command of a queue.
EndsWith(q, op) == q # <<>> /\ q[Len(q)] = op

\* What a command that is sent becomes of the queue it goes to.
LEMMA SentLast ==
  ASSUME NEW lnk \in LinkType, NEW n \in Node, NEW ops \in [Key -> Op], NEW S,
         NEW d \in Peers(n) \cap Node, conn[n][d] # "broken", NEW j \in Key
  PROVE  /\ Sent(lnk, n, ops, S) \in LinkType
         /\ j \in S => EndsWith(Sent(lnk, n, ops, S)[n][d][j], ops[j])
         /\ j \notin S => Sent(lnk, n, ops, S)[n][d][j] = lnk[n][d][j]
<1>1. Sent(lnk, n, ops, S) \in LinkType
  BY SentType
<1>2. ASSUME j \in S
      PROVE  Sent(lnk, n, ops, S)[n][d][j] = Append(lnk[n][d][j], ops[j])
  BY <1>2 DEF Sent, LinkType
<1>3. ASSUME j \notin S
      PROVE  Sent(lnk, n, ops, S)[n][d][j] = lnk[n][d][j]
  BY <1>3 DEF Sent, LinkType
<1>4. lnk[n][d][j] \in Seq(Op) /\ ops[j] \in Op
  BY DEF LinkType
<1>5. ASSUME NEW q \in Seq(Op), NEW op \in Op
      PROVE  EndsWith(Append(q, op), op)
  BY DEF EndsWith
<1> QED
  BY <1>1, <1>2, <1>3, <1>4, <1>5

\* A write that is broadcast at once empties the cache, in one or two sends.
LEMMA ServeTakesAll ==
  ASSUME TypeOK, CacheCounted, NEW c \in Client, NEW k \in Key,
         NEW F \in WriteSets
  PROVE  TakesAllAlong(c, k, F)
<1> DEFINE n == route[c]
           op == NewOp(n, F)
           cache == CopyingCache(n, k, F)
           caches == InGroup(n, c) /\ IsWrite(F) /\ is_sync[n]
           Rest(S1) == Flushed(cache, S1)
           Full(S1) == IF caches THEN addCmdToCache(Rest(S1), k, op)
                                 ELSE Rest(S1)
<1>0. SUFFICES ASSUME ServeRequest(c, k, F), InGroup(n, c), is_sync[n],
                      ~sync_time[n]
               PROVE  /\ CachedKeys(cached_op'[n]) = {}
                      /\ \A j \in Cached(n) \ {k}, d \in Peers(n) :
                           conn[n][d] # "broken" =>
                             LET q == link'[n][d][j]
                             IN q # <<>> /\ q[Len(q)] = cached_op[n][j]
  BY DEF TakesAllAlong
<1>1. n \in Node /\ caches
  BY <1>0, ConstantsAssumption DEF TypeOK, IsWrite
<1>2. op \in Op /\ cache \in CacheType /\ Counted(cache)
  BY <1>1, NewOpType, CopyingCacheType, CountedCopying
<1>3. PICK S1 \in FirstSync(n, cache) :
        \E S2 \in IF caches /\ ~sync_time[n] THEN Flushable(Full(S1)) ELSE {{}} :
          /\ SetCache(n, Flushed(Full(S1), S2))
          /\ link' = Sent(Sent(link, n, cache.ops, S1), n, Full(S1).ops, S2)
  BY <1>0 DEF ServeRequest
<1>4. PICK S2 \in Flushable(Full(S1)) :
        /\ SetCache(n, Flushed(Full(S1), S2))
        /\ link' = Sent(Sent(link, n, cache.ops, S1), n, Full(S1).ops, S2)
  BY <1>0, <1>1, <1>3
<1>5. S1 \in Flushable(cache) \cup {{}}
  BY <1>3, FirstSyncFlushes
<1>6. ASSUME NEW j \in Key \ {k}
      PROVE  cache.ops[j] = cached_op[n][j]
  BY <1>1 DEF CopyingCache, addCmdToCache, Cache, TypeOK
<1> HIDE DEF cache, op, caches
<1>7. Rest(S1) \in CacheType /\ Counted(Rest(S1))
  BY <1>2, <1>5, FlushedType, FlushedNothing, FlushCounted
<1>8. Full(S1) = addCmdToCache(Rest(S1), k, op)
  BY <1>1
<1>9. ASSUME NEW j \in Key \ {k}
      PROVE  Full(S1).ops[j] = IF j \in S1 THEN NoOp ELSE cache.ops[j]
  BY <1>7, <1>8 DEF addCmdToCache, CacheType, Flushed
<1>10. Full(S1) \in CacheType /\ Counted(Full(S1))
  BY <1>2, <1>7, <1>8, AddType, AddCounted
<1> HIDE DEF Full, Rest
<1>11. S2 = CachedKeys(Full(S1).ops)
  BY <1>4, <1>10, FlushableAll
<1>12. CachedKeys(cached_op'[n]) = {}
  <2>1. cached_op'[n] = Flushed(Full(S1), S2).ops
    BY <1>1, <1>4 DEF SetCache, TypeOK
  <2> QED
    BY <1>11, <2>1 DEF CachedKeys, Flushed
<1>13. ASSUME NEW j \in Cached(n) \ {k}, NEW d \in Peers(n), conn[n][d] # "broken"
       PROVE  LET q == link'[n][d][j]
              IN q # <<>> /\ q[Len(q)] = cached_op[n][j]
  <2> DEFINE first == Sent(link, n, cache.ops, S1)
             last == Sent(first, n, Full(S1).ops, S2)
  <2>1. j \in Key \ {k} /\ d \in Peers(n) \cap Node /\ link \in LinkType
    BY <1>1 DEF Cached, CachedKeys, Peers, TypeOK, LinkType
  <2>2. cached_op[n][j] # NoOp
    BY DEF Cached, CachedKeys
  <2>3. cache.ops \in [Key -> Op] /\ Full(S1).ops \in [Key -> Op]
    BY <1>2, <1>10 DEF CacheType
  <2>4. /\ first \in LinkType
        /\ j \in S1 => EndsWith(first[n][d][j], cache.ops[j])
    BY <1>1, <1>13, <2>1, <2>3, SentLast
  <2> HIDE DEF first
  <2>5. /\ j \in S2 => EndsWith(last[n][d][j], Full(S1).ops[j])
        /\ j \notin S2 => last[n][d][j] = first[n][d][j]
    BY <1>1, <1>13, <2>1, <2>3, <2>4, SentLast
  <2>6. link'[n][d][j] = last[n][d][j]
    BY <1>4 DEF first
  <2> HIDE DEF last
  <2>7. CASE j \in S1
    <3>1. j \notin S2
      BY <1>9, <1>11, <2>1, <2>7 DEF CachedKeys
    <3> QED
      BY <1>6, <2>1, <2>4, <2>5, <2>6, <2>7, <3>1 DEF EndsWith
  <2>8. CASE j \notin S1
    <3>1. Full(S1).ops[j] = cached_op[n][j]
      BY <1>6, <1>9, <2>1, <2>8
    <3>2. j \in S2
      BY <1>11, <2>1, <2>2, <3>1 DEF CachedKeys
    <3> QED
      BY <2>5, <2>6, <3>1, <3>2 DEF EndsWith
  <2> QED
    BY <2>7, <2>8
<1> QED
  BY <1>12, <1>13

\* Commands that were deferred under an earlier sync way never stay behind a
\* write that is broadcast at once, for any number of keys and nodes.
THEOREM BroadcastTakesAll ==
  Spec \/ EstablishedSpec => NothingStaysBehind
<1>1. TypeOK /\ CacheCounted =>
        \A c \in Client, k \in Key, F \in WriteSets : TakesAllAlong(c, k, F)
  BY ServeTakesAll
<1> QED
  BY <1>1, TypeCorrect, CounterCovers, PTL DEF NothingStaysBehind
-----------------------------------------------------------------------------
(* Who is in the hot group.                                                *)

\* A node sends itself no hot group message.
NoOwnMessage == \A n \in Node : bus[n][n] = <<>>

\* What d knows of s, and what is under way to it, end in what s is.
Tracks(s, d) ==
  IF bus[s][d] = <<>>
  THEN s \in related_ins[d] <=> s \in related_ins[s]
  ELSE bus[s][d][Len(bus[s][d])] = 1 <=> s \in related_ins[s]

\* Strengthening of MembershipTracks: a message a node sent to itself would
\* change its own membership.
MembershipInv == NoOwnMessage /\ MembershipTracks

\* An announcement reaches the end of every queue but the node's own.
LEMMA AnnounceTracks ==
  ASSUME TypeOK, MembershipInv, NEW n \in Node, NEW status \in {1, 2},
         bus' = Announced(n, status), faults' = faults,
         n \in related_ins'[n] <=> status = 1,
         \A d \in Node, m \in Node :
           ~(m = n /\ d = n) => (m \in related_ins'[d] <=> m \in related_ins[d])
  PROVE  MembershipInv'
<1>1. \A d \in Node : bus'[n][d] = IF d = n THEN bus[n][d]
                                            ELSE Append(bus[n][d], status)
  BY DEF Announced, TypeOK
<1>2. \A s \in Node \ {n}, d \in Node : bus'[s][d] = bus[s][d]
  BY DEF Announced, TypeOK
<1>3. NoOwnMessage'
  BY <1>1, <1>2 DEF NoOwnMessage, MembershipInv
<1>4. ASSUME faults' = 0, NEW s \in Node, NEW d \in Node, s # d
      PROVE  Tracks(s, d)'
  <2>1. Tracks(s, d)
    BY <1>4 DEF MembershipInv, MembershipTracks, Tracks
  <2>2. CASE s = n
    <3>1. bus[s][d] \in Seq({1, 2})
      BY DEF TypeOK
    <3>2. bus'[s][d] = Append(bus[s][d], status)
      BY <1>1, <1>4, <2>2
    <3>3. bus'[s][d] # <<>> /\ bus'[s][d][Len(bus'[s][d])] = status
      BY <3>1, <3>2
    <3>4. status = 1 <=> s \in related_ins'[s]
      BY <2>2
    <3> QED BY <3>3, <3>4 DEF Tracks
  <2>3. CASE s # n
    <3>1. bus'[s][d] = bus[s][d]
      BY <1>2, <2>3
    <3>2. /\ s \in related_ins'[d] <=> s \in related_ins[d]
          /\ s \in related_ins'[s] <=> s \in related_ins[s]
      BY <2>3
    <3> QED BY <2>1, <3>1, <3>2 DEF Tracks
  <2> QED BY <2>2, <2>3
<1>5. MembershipTracks'
  BY <1>4 DEF MembershipTracks, Tracks
<1> QED BY <1>3, <1>5 DEF MembershipInv

\* The last message of a queue is applied last.
LEMMA ReceiveTracks ==
  ASSUME TypeOK, MembershipInv, NEW s \in Node, NEW d \in Node,
         ReceiveHotGroup(s, d)
  PROVE  MembershipInv'
<1>1. bus[s][d] \in Seq({1, 2}) /\ bus[s][d] # <<>>
  BY DEF ReceiveHotGroup, TypeOK
<1>2. s # d
  BY <1>1 DEF MembershipInv, NoOwnMessage
<1>3. bus' = [bus EXCEPT ![s][d] = Tail(bus[s][d])] /\ faults' = faults
  BY DEF ReceiveHotGroup
<1>4. /\ bus'[s][d] = Tail(bus[s][d])
      /\ \A x \in Node, y \in Node :
           ~(x = s /\ y = d) => bus'[x][y] = bus[x][y]
  BY <1>3 DEF TypeOK
<1>5. NoOwnMessage'
  BY <1>2, <1>4 DEF MembershipInv, NoOwnMessage
<1>6. /\ s \in related_ins'[d] <=> Head(bus[s][d]) = 1
      /\ \A x \in Node, y \in Node :
           ~(x = s /\ y = d) => (x \in related_ins'[y] <=> x \in related_ins[y])
  <2>1. CASE Head(bus[s][d]) = 1
    <3>1. related_ins' = [related_ins EXCEPT ![d] = related_ins[d] \cup {s}]
      BY <2>1 DEF ReceiveHotGroup
    <3> QED BY <2>1, <3>1 DEF TypeOK
  <2>2. CASE Head(bus[s][d]) # 1
    <3>1. related_ins' = [related_ins EXCEPT ![d] = related_ins[d] \ {s}]
      BY <2>2 DEF ReceiveHotGroup
    <3> QED BY <2>2, <3>1 DEF TypeOK
  <2> QED BY <2>1, <2>2
<1>7. ASSUME faults' = 0, NEW x \in Node, NEW y \in Node, x # y
      PROVE  Tracks(x, y)'
  <2>1. Tracks(x, y)
    BY <1>3, <1>7 DEF MembershipInv, MembershipTracks, Tracks
  <2>2. CASE x = s /\ y = d
    <3>1. s \in related_ins'[s] <=> s \in related_ins[s]
      BY <1>2, <1>6
    <3>2. bus[s][d][Len(bus[s][d])] = 1 <=> s \in related_ins[s]
      BY <1>1, <2>1, <2>2 DEF Tracks
    <3>3. CASE Tail(bus[s][d]) = <<>>
      <4>1. Len(bus[s][d]) = 1
        <5>1. Len(Tail(bus[s][d])) = Len(bus[s][d]) - 1
          BY <1>1
        <5>2. Len(Tail(bus[s][d])) = 0
          <6>1. Len(<<>>) = 0
            OBVIOUS
          <6> QED BY <3>3, <6>1, Zenon
        <5>3. Len(bus[s][d]) \in Nat
          BY <1>1
        <5> QED BY <5>1, <5>2, <5>3
      <4>2. Head(bus[s][d]) = bus[s][d][Len(bus[s][d])]
        BY <1>1, <4>1
      <4>3. s \in related_ins'[d] <=> s \in related_ins'[s]
        BY <1>6, <3>1, <3>2, <4>2
      <4> QED BY <1>4, <2>2, <3>3, <4>3 DEF Tracks
    <3>4. CASE Tail(bus[s][d]) # <<>>
      <4>1. /\ Len(Tail(bus[s][d])) = Len(bus[s][d]) - 1
            /\ Tail(bus[s][d])[Len(bus[s][d]) - 1] = bus[s][d][Len(bus[s][d])]
        BY <1>1, <3>4
      <4>2. bus'[s][d][Len(bus'[s][d])] = bus[s][d][Len(bus[s][d])]
        BY <1>4, <4>1
      <4> QED BY <1>4, <2>2, <3>1, <3>2, <3>4, <4>2 DEF Tracks
    <3> QED BY <3>3, <3>4
  <2>3. CASE ~(x = s /\ y = d)
    <3>1. bus'[x][y] = bus[x][y]
      BY <1>4, <2>3
    <3>2. /\ x \in related_ins'[y] <=> x \in related_ins[y]
          /\ x \in related_ins'[x] <=> x \in related_ins[x]
      BY <1>2, <1>6, <2>3
    <3> QED BY <2>1, <3>1, <3>2 DEF Tracks
  <2> QED BY <2>2, <2>3
<1>8. MembershipTracks'
  BY <1>7 DEF MembershipTracks, Tracks
<1> QED BY <1>5, <1>8 DEF MembershipInv

\* A fault ends the promise, and leaves a node's own queue empty.
LEMMA FailureTracks ==
  ASSUME TypeOK, MembershipInv, Failure
  PROVE  MembershipInv'
<1>1. faults' # 0
  <2>1. Fault
    BY DEF Failure, LoseHotGroup, BreakConn, Restart
  <2> QED BY <2>1 DEF Fault, TypeOK
<1>2. NoOwnMessage'
  <2>1. ASSUME NEW s \in Node, NEW d \in Node, LoseHotGroup(s, d)
        PROVE  NoOwnMessage'
    <3>1. bus[s][d] # <<>> /\ bus' = [bus EXCEPT ![s][d] = Tail(bus[s][d])]
      BY <2>1 DEF LoseHotGroup
    <3>2. s # d
      BY <3>1 DEF MembershipInv, NoOwnMessage
    <3> QED BY <3>1, <3>2 DEF MembershipInv, NoOwnMessage, TypeOK
  <2>2. ASSUME NEW s \in Node, NEW d \in Node, BreakConn(s, d)
        PROVE  NoOwnMessage'
    BY <2>2 DEF BreakConn, MembershipInv, NoOwnMessage
  <2>3. ASSUME NEW n \in Node, Restart(n)
        PROVE  NoOwnMessage'
    BY <2>3 DEF Restart, MembershipInv, NoOwnMessage
  <2> QED BY <2>1, <2>2, <2>3 DEF Failure
<1> QED BY <1>1, <1>2 DEF MembershipInv, MembershipTracks

\* Every step keeps the views of the group right.
LEMMA MembershipStep ==
  ASSUME TypeOK, MembershipInv, [Next]_vars
  PROVE  MembershipInv'
<1>1. CASE UNCHANGED <<bus, related_ins>> /\ (faults' = 0 => faults = 0)
  BY <1>1 DEF MembershipInv, NoOwnMessage, MembershipTracks
<1>2. CASE Request
  <2>1. PICK c \in Client, k \in Key, F \in WriteSets \cup {{}} :
          \/ ForwardRequest(c, k, F)
          \/ SpinOnRequest(c, k, F)
          \/ RedirectRequest(c, k, F)
          \/ ServeRequest(c, k, F)
    BY <1>2 DEF Request
  <2>2. UNCHANGED <<bus, related_ins>>
    BY <2>1 DEF ForwardRequest, SpinOnRequest, RedirectRequest, ServeRequest
  <2>3. UNCHANGED faults \/ Execute(route[c], k, F)
    BY <2>1 DEF ForwardRequest, SpinOnRequest, RedirectRequest, ServeRequest
  <2>4. faults' = 0 => faults = 0
    BY <2>3 DEF Execute, TypeOK
  <2> QED BY <1>1, <2>2, <2>4
<1>3. CASE Command
  <2>1. PICK n \in Node :
          \/ \E mode \in Mode, way \in Way : RunMode(n, mode, way)
          \/ HotGroupAdd(n)
          \/ HotGroupDel(n)
          \/ SetSlotCopying(n)
          \/ SetSlotFincopy(n)
    BY <1>3 DEF Command
  <2>2. CASE HotGroupAdd(n)
    <3>1. /\ related_ins' = [related_ins EXCEPT ![n] = related_ins[n] \cup {n}]
          /\ bus' = Announced(n, 1)
          /\ faults' = faults
      BY <2>2 DEF HotGroupAdd
    <3>2. \A d \in Node, m \in Node :
            ~(m = n /\ d = n) => (m \in related_ins'[d] <=> m \in related_ins[d])
      BY <3>1 DEF TypeOK
    <3>3. n \in related_ins'[n] <=> 1 = 1
      BY <3>1 DEF TypeOK
    <3> QED BY <3>1, <3>2, <3>3, AnnounceTracks
  <2>3. CASE HotGroupDel(n)
    <3>1. /\ related_ins' = [related_ins EXCEPT ![n] = related_ins[n] \ {n}]
          /\ bus' = Announced(n, 2)
          /\ faults' = faults
      BY <2>3 DEF HotGroupDel
    <3>2. \A d \in Node, m \in Node :
            ~(m = n /\ d = n) => (m \in related_ins'[d] <=> m \in related_ins[d])
      BY <3>1 DEF TypeOK
    <3>3. n \in related_ins'[n] <=> 2 = 1
      BY <3>1 DEF TypeOK
    <3> QED BY <3>1, <3>2, <3>3, AnnounceTracks
  <2> QED
    BY <1>1, <2>1, <2>2, <2>3 DEF RunMode, SetSlotCopying, SetSlotFincopy
<1>4. CASE Deliver
  <2>1. ASSUME NEW s \in Node, NEW d \in Node, NEW k \in Key,
               ReceiveSync(s, d, k)
        PROVE  MembershipInv'
    <3>1. faults' = 0 => faults = 0
      BY <2>1 DEF ReceiveSync, TypeOK
    <3> QED BY <1>1, <2>1, <3>1 DEF ReceiveSync
  <2> QED BY <1>4, <2>1, ReceiveTracks DEF Deliver
<1>5. CASE Timer \/ Copy
  BY <1>1, <1>5 DEF Timer, updateCachedTime, clusterCron, Copy, MigrateCopy
<1>6. CASE UNCHANGED vars
  BY <1>1, <1>6 DEF vars
<1> QED
  BY <1>2, <1>3, <1>4, <1>5, <1>6, FailureTracks DEF Next

LEMMA MembershipAlways ==
  Spec \/ EstablishedSpec => []MembershipInv
<1>1. Init \/ InitEstablished => MembershipInv
  <2> SUFFICES ASSUME Init \/ InitEstablished
               PROVE  MembershipInv
    OBVIOUS
  <2>1. \A s, d \in Node : bus[s][d] = <<>>
    <3>1. ServerInit
      BY DEF Init, InitEstablished
    <3>2. bus = [s \in Node |-> [d \in Node |-> <<>>]]
      BY <3>1 DEF ServerInit
    <3> QED BY <3>2, Zenon
  <2>2. \A s, d \in Node : s \in related_ins[d] <=> s \in related_ins[s]
    BY DEF Init, InitEstablished
  <2>3. \A s, d \in Node : Tracks(s, d)
    BY <2>1, <2>2, Zenon DEF Tracks
  <2>4. NoOwnMessage
    BY <2>1 DEF NoOwnMessage
  <2> QED
    BY <2>3, <2>4, Zenon DEF MembershipInv, MembershipTracks, Tracks
<1>2. MembershipInv /\ TypeOK /\ [Next]_vars => MembershipInv'
  BY MembershipStep
<1> QED
  BY <1>1, <1>2, TypeCorrect, PTL DEF Spec, EstablishedSpec

\* Without faults on the bus every node's view of every other node's
\* membership is right once its messages have arrived, for any number of nodes
\* and any order of HOTGROUP ADD and DEL.
THEOREM ViewsAgree ==
  Spec \/ EstablishedSpec => []MembershipTracks
<1>1. MembershipInv => MembershipTracks
  BY DEF MembershipInv
<1> QED BY <1>1, MembershipAlways, PTL

\* The loop of getForwardAim hangs only a server that all others have left, as
\* far as it can read: the announcement of any node that is in the group is
\* still before it, for any number of nodes and any order of commands.
THEOREM DesertedHangs ==
  Spec \/ EstablishedSpec => []HangsOnlyDeserted
<1>1. ASSUME TypeOK, MembershipInv, SpinsOnlyAlone
      PROVE  HangsOnlyDeserted
  <2> SUFFICES ASSUME faults = 0, NEW n \in Node, NEW m \in Node,
                      spinning[n], m # n, m \in related_ins[m],
                      bus[m][n] = <<>>
               PROVE  FALSE
    BY DEF HangsOnlyDeserted
  <2>1. related_ins[n] = {n}
    BY <1>1 DEF SpinsOnlyAlone
  <2>2. m \in related_ins[n] <=> m \in related_ins[m]
    BY <1>1 DEF MembershipInv, MembershipTracks
  <2> QED BY <2>1, <2>2
<1> QED BY <1>1, TypeCorrect, MembershipAlways, SpinsAlone, PTL

\* A client that getForwardAim sends away is not sent back, but for a member
\* that left and was not heard of, or one whose copy is not declared.
THEOREM SentAreServed ==
  Spec \/ EstablishedSpec => SentIsServed
<1>1. ASSUME TypeOK, MembershipInv, [Next]_vars, NEW c \in Client, faults = 0,
             route[c] = Owner, route'[c] # Owner,
             bus[route'[c]][Owner] = <<>>, is_copied[route'[c]]
      PROVE  InGroup(route'[c], c)
  <2>1. PICK b \in Client, k \in Key, F \in WriteSets \cup {{}} :
          ForwardRequest(b, k, F)
    <3>1. ASSUME NEW b \in Client, NEW k \in Key, NEW F \in WriteSets \cup {{}},
                 RedirectRequest(b, k, F)
          PROVE  FALSE
      BY <1>1, <3>1 DEF RedirectRequest, TypeOK
    <3>2. Request
      <4>1. route' # route
        BY <1>1
      <4>2. CASE Command
        BY <4>1, <4>2 DEF Command, RunMode, HotGroupAdd, HotGroupDel,
                          SetSlotCopying, SetSlotFincopy, clientVars
      <4>3. CASE Timer
        BY <4>1, <4>3 DEF Timer, updateCachedTime, clusterCron, clientVars
      <4>4. CASE Deliver
        BY <4>1, <4>4 DEF Deliver, ReceiveSync, ReceiveHotGroup, clientVars
      <4>5. CASE Failure
        BY <4>1, <4>5 DEF Failure, LoseHotGroup, BreakConn, Restart, clientVars
      <4>6. CASE Copy
        BY <4>1, <4>6 DEF Copy, MigrateCopy, clientVars
      <4>7. CASE UNCHANGED vars
        BY <4>1, <4>7 DEF vars, clientVars
      <4> QED BY <1>1, <4>2, <4>3, <4>4, <4>5, <4>6, <4>7 DEF Next
    <3>3. PICK b \in Client, k \in Key, F \in WriteSets \cup {{}} :
            \/ ForwardRequest(b, k, F)
            \/ SpinOnRequest(b, k, F)
            \/ RedirectRequest(b, k, F)
            \/ ServeRequest(b, k, F)
      BY <3>2 DEF Request
    <3>4. CASE SpinOnRequest(b, k, F) \/ ServeRequest(b, k, F)
      BY <1>1, <3>4 DEF SpinOnRequest, ServeRequest, clientVars
    <3> QED BY <3>1, <3>3, <3>4
  <2>2. PICK m \in getForwardAim(route[b]) \ {route[b]} :
          route' = [route EXCEPT ![b] = m]
    BY <2>1 DEF ForwardRequest
  <2>3. b = c /\ route'[c] = m
    BY <1>1, <2>2 DEF TypeOK
  <2>4. m \in related_ins[Owner] /\ m \in Node /\ m # Owner /\ Owner \in Node
    BY <1>1, <2>2, <2>3, ConstantsAssumption DEF getForwardAim, Peers, TypeOK
  <2>5. m \in related_ins[Owner] <=> m \in related_ins[m]
    BY <1>1, <2>3, <2>4 DEF MembershipInv, MembershipTracks
  <2> QED BY <1>1, <2>3, <2>4, <2>5 DEF InGroup
<1>2. TypeOK /\ MembershipInv /\ [Next]_vars =>
        \A c \in Client :
          faults = 0 /\ route[c] = Owner /\ route'[c] # Owner =>
            LET m == route'[c]
            IN bus[m][Owner] = <<>> /\ is_copied[m] => InGroup(m, c)
  BY <1>1
<1> QED
  BY <1>2, TypeCorrect, MembershipAlways, PTL
  DEF Spec, EstablishedSpec, SentIsServed
=============================================================================
