------------------------- MODULE HotSlotOrderProofs --------------------------
(***************************************************************************)
(* The order of replicated writes in HotSlot, proved for every value of    *)
(* the constants.                                                          *)
(***************************************************************************)
EXTENDS HotSlotProofs

-----------------------------------------------------------------------------
(* The order of the writes of one node.                                    *)

\* The commands under way are in the order of their versions, none is newer
\* than version w, and the cached command op is newer than all of them.
QueueOrdered(q, op, w) ==
  /\ \A i, j \in 1..Len(q) : i < j => q[i].ver < q[j].ver
  /\ \A i \in 1..Len(q) : q[i].ver <= w
  /\ op.ver <= w
  /\ op # NoOp => \A i \in 1..Len(q) : q[i].ver < op.ver

\* The queues of node n in lnk are ordered with respect to its cache.
CacheOrdered(lnk, n, ops, w) ==
  \A d \in Node, k \in Key : QueueOrdered(lnk[n][d][k], ops[k], w)

\* Strengthening of OriginOrder: it says as well that no cached command is
\* newer than the last write.
OriginInv == \A n \in Node : CacheOrdered(link, n, cached_op[n], writes)

\* The version of a command under way is a number.
LEMMA VersionType ==
  ASSUME NEW q \in Seq(Op), NEW i \in 1..Len(q)
  PROVE  q[i].ver \in Nat
<1>1. q[i] \in Op
  OBVIOUS
<1> QED BY <1>1 DEF Op

\* The cached command may follow the others.
LEMMA QueueSend ==
  ASSUME NEW q \in Seq(Op), NEW op \in Op, NEW w \in Nat,
         QueueOrdered(q, op, w), op # NoOp
  PROVE  QueueOrdered(Append(q, op), NoOp, w)
<1> DEFINE r == Append(q, op)
<1>1. Len(q) \in Nat /\ Len(r) = Len(q) + 1
  OBVIOUS
<1>2. /\ \A i \in 1..Len(q) : r[i] = q[i]
      /\ r[Len(q) + 1] = op
  OBVIOUS
<1>3. \A i \in 1..Len(q) : q[i].ver \in Nat /\ q[i].ver < op.ver
  BY VersionType DEF QueueOrdered
<1> HIDE DEF r
<1>4. \A i, j \in 1..Len(r) : i < j => r[i].ver < r[j].ver
  <2> SUFFICES ASSUME NEW i \in 1..Len(r), NEW j \in 1..Len(r), i < j
               PROVE  r[i].ver < r[j].ver
    OBVIOUS
  <2>1. i \in 1..Len(q)
    BY <1>1
  <2>2. CASE j \in 1..Len(q)
    BY <1>2, <2>1, <2>2 DEF QueueOrdered
  <2>3. CASE j = Len(q) + 1
    BY <1>2, <1>3, <2>1, <2>3
  <2> QED BY <1>1, <2>2, <2>3
<1>5. \A i \in 1..Len(r) : r[i].ver <= w
  <2> SUFFICES ASSUME NEW i \in 1..Len(r)
               PROVE  r[i].ver <= w
    OBVIOUS
  <2>1. CASE i \in 1..Len(q)
    BY <1>2, <2>1 DEF QueueOrdered
  <2>2. CASE i = Len(q) + 1
    BY <1>2, <2>2 DEF QueueOrdered
  <2> QED BY <1>1, <2>1, <2>2
<1>6. NoOp.ver <= w
  BY DEF NoOp
<1> QED
  BY <1>4, <1>5, <1>6 DEF QueueOrdered, r

\* A cached command may be dropped.
LEMMA QueueDrop ==
  ASSUME NEW q \in Seq(Op), NEW op \in Op, NEW w \in Nat,
         QueueOrdered(q, op, w)
  PROVE  QueueOrdered(q, NoOp, w)
<1>1. NoOp.ver <= w
  BY DEF NoOp
<1> QED BY <1>1 DEF QueueOrdered

\* A new write is newer than all that is under way.
LEMMA QueueNew ==
  ASSUME NEW q \in Seq(Op), NEW op \in Op, NEW new \in Op, NEW w \in Nat,
         QueueOrdered(q, op, w), new.ver = w + 1
  PROVE  QueueOrdered(q, new, w + 1)
<1>1. \A i \in 1..Len(q) : q[i].ver \in Nat /\ q[i].ver <= w
  BY VersionType DEF QueueOrdered
<1> QED BY <1>1 DEF QueueOrdered

\* Time passes.
LEMMA QueueLater ==
  ASSUME NEW q \in Seq(Op), NEW op \in Op, NEW w \in Nat,
         QueueOrdered(q, op, w)
  PROVE  QueueOrdered(q, op, w + 1)
<1>1. op.ver \in Nat
  BY DEF Op
<1>2. \A i \in 1..Len(q) : q[i].ver \in Nat
  BY VersionType
<1> QED BY <1>1, <1>2 DEF QueueOrdered

\* The oldest command is taken.
LEMMA QueueTake ==
  ASSUME NEW q \in Seq(Op), NEW op \in Op, NEW w \in Nat,
         QueueOrdered(q, op, w), q # <<>>
  PROVE  QueueOrdered(Tail(q), op, w)
<1>1. Len(q) \in Nat /\ Len(q) > 0
  OBVIOUS
<1>2. /\ Len(Tail(q)) = Len(q) - 1
      /\ \A i \in 1..(Len(q) - 1) : Tail(q)[i] = q[i + 1]
  OBVIOUS
<1>3. \A i \in 1..(Len(q) - 1) : i + 1 \in 1..Len(q)
  BY <1>1
<1> DEFINE r == Tail(q)
<1> HIDE DEF r
<1>4. Len(r) = Len(q) - 1 /\ \A i \in 1..Len(r) : r[i] = q[i + 1]
  BY <1>2 DEF r
<1>5. \A i, j \in 1..Len(r) : i < j => r[i].ver < r[j].ver
  BY <1>1, <1>3, <1>4 DEF QueueOrdered
<1>6. \A i \in 1..Len(r) :
        r[i].ver <= w /\ (op # NoOp => r[i].ver < op.ver)
  BY <1>1, <1>3, <1>4 DEF QueueOrdered
<1> QED
  BY <1>5, <1>6 DEF QueueOrdered, r

\* Nothing is under way.
LEMMA QueueLost ==
  ASSUME NEW op, NEW w, op.ver <= w
  PROVE  QueueOrdered(<<>>, op, w)
<1>1. 1..Len(<<>>) = {}
  OBVIOUS
<1> QED BY <1>1 DEF QueueOrdered

\* The broadcast loop keeps the order.
LEMMA SendOrdered ==
  ASSUME NEW lnk \in LinkType, NEW n \in Node, NEW cache \in CacheType,
         NEW w \in Nat, NEW S \in Flushable(cache) \cup {{}},
         CacheOrdered(lnk, n, cache.ops, w)
  PROVE  CacheOrdered(Sent(lnk, n, cache.ops, S), n, Flushed(cache, S).ops, w)
<1> SUFFICES ASSUME NEW d \in Node, NEW k \in Key
             PROVE  QueueOrdered(Sent(lnk, n, cache.ops, S)[n][d][k],
                                 Flushed(cache, S).ops[k], w)
  BY DEF CacheOrdered
<1> DEFINE q == lnk[n][d][k]
           op == cache.ops[k]
<1>1. q \in Seq(Op) /\ op \in Op
  BY DEF LinkType, CacheType
<1>2. QueueOrdered(q, op, w)
  BY DEF CacheOrdered
<1>3. S \subseteq CachedKeys(cache.ops)
  BY FlushableBounded
<1>4. Flushed(cache, S).ops[k] = IF k \in S THEN NoOp ELSE op
  BY DEF Flushed
<1>5. \/ Sent(lnk, n, cache.ops, S)[n][d][k] = q
      \/ k \in S /\ Sent(lnk, n, cache.ops, S)[n][d][k] = Append(q, op)
  BY DEF Sent, LinkType
<1> HIDE DEF q, op
<1>6. CASE k \notin S
  BY <1>2, <1>4, <1>5, <1>6
<1>7. CASE k \in S
  <2>1. op # NoOp
    BY <1>3, <1>7 DEF CachedKeys, op
  <2>2. QueueOrdered(Append(q, op), NoOp, w) /\ QueueOrdered(q, NoOp, w)
    BY <1>1, <1>2, <2>1, QueueSend, QueueDrop
  <2> QED BY <1>4, <1>5, <1>7, <2>2
<1> QED BY <1>6, <1>7

\* Caching a new write keeps the order.
LEMMA AddOrdered ==
  ASSUME NEW lnk \in LinkType, NEW n \in Node, NEW cache \in CacheType,
         NEW w \in Nat, CacheOrdered(lnk, n, cache.ops, w),
         NEW k \in Key, NEW op \in Op, op.ver = w + 1
  PROVE  CacheOrdered(lnk, n, addCmdToCache(cache, k, op).ops, w + 1)
<1> SUFFICES ASSUME NEW d \in Node, NEW j \in Key
             PROVE  QueueOrdered(lnk[n][d][j],
                                 addCmdToCache(cache, k, op).ops[j], w + 1)
  BY DEF CacheOrdered
<1>1. lnk[n][d][j] \in Seq(Op) /\ cache.ops[j] \in Op
  BY DEF LinkType, CacheType
<1>2. QueueOrdered(lnk[n][d][j], cache.ops[j], w)
  BY DEF CacheOrdered
<1>3. addCmdToCache(cache, k, op).ops[j] = IF j = k THEN op ELSE cache.ops[j]
  BY DEF addCmdToCache, CacheType
<1>4. /\ QueueOrdered(lnk[n][d][j], op, w + 1)
      /\ QueueOrdered(lnk[n][d][j], cache.ops[j], w + 1)
  BY <1>1, <1>2, QueueNew, QueueLater
<1> QED BY <1>3, <1>4

\* The order of the queues of a node outlasts a write elsewhere.
LEMMA LaterOrdered ==
  ASSUME NEW lnk \in LinkType, NEW n \in Node, NEW ops \in [Key -> Op],
         NEW w \in Nat, CacheOrdered(lnk, n, ops, w)
  PROVE  CacheOrdered(lnk, n, ops, w + 1)
BY QueueLater DEF CacheOrdered, LinkType

\* A node changes its own queues only.
LEMMA SentElsewhere ==
  ASSUME NEW lnk \in LinkType, NEW n \in Node, NEW ops, NEW S,
         NEW m \in Node, m # n
  PROVE  Sent(lnk, n, ops, S)[m] = lnk[m]
BY DEF Sent, LinkType
\* With NeverCopyingWithCopy no command is cached before its write is counted.
LEMMA CopyingCacheIdle ==
  ASSUME NeverCopyingWithCopy, NEW n \in Node, NEW k, NEW F
  PROVE  CopyingCache(n, k, F) = Cache(n)
BY DEF NeverCopyingWithCopy, CopyingCache

\* One node stores its cache and its queues, and the others do nothing.
LEMMA RowOrdered ==
  ASSUME TypeOK, OriginInv, NEW n \in Node, NEW w \in Nat,
         writes' = w, w = writes \/ w = writes + 1,
         NEW cache \in CacheType, SetCache(n, cache),
         CacheOrdered(link', n, cache.ops, w),
         \A m \in Node : m # n => link'[m] = link[m]
  PROVE  OriginInv'
<1> SUFFICES ASSUME NEW m \in Node
             PROVE  CacheOrdered(link', m, cached_op'[m], writes')
  BY DEF OriginInv, CacheOrdered
<1>1. CASE m = n
  <2>1. cached_op'[m] = cache.ops
    BY <1>1 DEF SetCache, TypeOK
  <2> QED BY <1>1, <2>1
<1>2. CASE m # n
  <2>1. cached_op'[m] = cached_op[m] /\ link'[m] = link[m]
    BY <1>2 DEF SetCache, TypeOK
  <2>2. CacheOrdered(link, m, cached_op[m], writes)
    BY DEF OriginInv
  <2>3. link \in LinkType /\ cached_op[m] \in [Key -> Op] /\ writes \in Nat
    BY DEF TypeOK, LinkType
  <2>4. CacheOrdered(link, m, cached_op[m], w)
    BY <2>2, <2>3, LaterOrdered
  <2> QED BY <2>1, <2>4 DEF CacheOrdered
<1> QED BY <1>1, <1>2

\* What the invariant says of one node, in the form the lemmas above use.
LEMMA OriginFacts ==
  ASSUME TypeOK, OriginInv, NEW n \in Node
  PROVE  /\ link \in LinkType
         /\ writes \in Nat
         /\ Cache(n) \in CacheType
         /\ CacheOrdered(link, n, Cache(n).ops, writes)
<1>1. link \in LinkType /\ writes \in Nat
  BY DEF TypeOK, LinkType
<1>2. Cache(n) \in CacheType
  BY CacheHasType
<1>3. Cache(n).ops = cached_op[n]
  BY DEF Cache
<1> QED BY <1>1, <1>2, <1>3 DEF OriginInv

\* A broadcast keeps all queues ordered.
LEMMA BroadcastOrdered ==
  ASSUME TypeOK, OriginInv, NEW n \in Node,
         NEW S \in Flushable(Cache(n)) \cup {{}},
         Broadcast(n, Cache(n), S), writes' = writes
  PROVE  OriginInv'
<1> DEFINE cache == Cache(n)
<1>1. /\ link \in LinkType /\ writes \in Nat /\ cache \in CacheType
      /\ CacheOrdered(link, n, cache.ops, writes)
  BY OriginFacts
<1>2. /\ SetCache(n, Flushed(cache, S))
      /\ link' = Sent(link, n, cache.ops, S)
  BY DEF Broadcast
<1> HIDE DEF cache
<1>3. S \in Flushable(cache) \cup {{}}
  BY DEF cache
<1>4. CacheOrdered(link', n, Flushed(cache, S).ops, writes)
  BY <1>1, <1>2, <1>3, SendOrdered
<1>5. Flushed(cache, S) \in CacheType
  BY <1>1, <1>3, FlushedType, FlushedNothing
<1>6. \A m \in Node : m # n => link'[m] = link[m]
  BY <1>1, <1>2, SentElsewhere
<1> QED
  BY <1>1, <1>2, <1>4, <1>5, <1>6, RowOrdered
\* A write is numbered, cached and sent in one step.
LEMMA ServeOrdered ==
  ASSUME TypeOK, NeverCopyingWithCopy, OriginInv, NEW c \in Client,
         NEW k \in Key, NEW F \in WriteSets \cup {{}}, ServeRequest(c, k, F)
  PROVE  OriginInv'
<1> DEFINE n == route[c]
           op == NewOp(n, F)
           cache == Cache(n)
           caches == InGroup(n, c) /\ IsWrite(F) /\ is_sync[n]
           Rest(S1) == Flushed(cache, S1)
           Full(S1) == IF caches THEN addCmdToCache(Rest(S1), k, op)
                                 ELSE Rest(S1)
           First(S1) == Sent(link, n, cache.ops, S1)
<1>0. n \in Node
  BY DEF TypeOK
<1>1. /\ op \in Op /\ op.ver = writes + 1
      /\ link \in LinkType /\ writes \in Nat /\ cache \in CacheType
      /\ CacheOrdered(link, n, cache.ops, writes)
  <2>1. op.ver = writes + 1
    BY DEF NewOp
  <2> QED BY <1>0, <2>1, NewOpType, OriginFacts
<1>2. CopyingCache(n, k, F) = cache
  BY <1>0, CopyingCacheIdle
<1>3. PICK S1 \in FirstSync(n, cache) :
        \E S2 \in IF caches /\ ~sync_time[n] THEN Flushable(Full(S1)) ELSE {{}} :
          /\ SetCache(n, Flushed(Full(S1), S2))
          /\ link' = Sent(First(S1), n, Full(S1).ops, S2)
  BY <1>2 DEF ServeRequest
<1>4. PICK S2 \in IF caches /\ ~sync_time[n] THEN Flushable(Full(S1)) ELSE {{}} :
        /\ SetCache(n, Flushed(Full(S1), S2))
        /\ link' = Sent(First(S1), n, Full(S1).ops, S2)
  BY <1>3
<1>5. S1 \in Flushable(cache) \cup {{}}
  BY <1>3, FirstSyncFlushes
<1>6. S2 \in Flushable(Full(S1)) \cup {{}}
  BY <1>4
<1>7. /\ writes' = writes \/ writes' = writes + 1
      /\ caches => writes' = writes + 1
  <2>1. Execute(n, k, F)
    BY DEF ServeRequest
  <2> QED BY <2>1 DEF Execute, histVars
<1> HIDE DEF cache, op, caches
<1>8. Rest(S1) \in CacheType /\ CacheOrdered(First(S1), n, Rest(S1).ops, writes)
  BY <1>0, <1>1, <1>5, FlushedType, FlushedNothing, SendOrdered
<1>9. First(S1) \in LinkType
  <2>1. cache.ops \in [Key -> Op]
    BY <1>1 DEF CacheType
  <2> QED BY <1>0, <1>1, <2>1, SentType
<1>10. Full(S1) \in CacheType
  BY <1>1, <1>8, AddType
<1>11. CacheOrdered(First(S1), n, Full(S1).ops, writes')
  <2> HIDE DEF First
  <2>1. CASE caches
    <3> HIDE DEF Rest
    <3>1. CacheOrdered(First(S1), n, addCmdToCache(Rest(S1), k, op).ops, writes + 1)
      BY <1>0, <1>1, <1>8, <1>9, AddOrdered
    <3> QED BY <1>7, <2>1, <3>1
  <2>2. CASE ~caches
    <3> HIDE DEF Rest
    <3>1. Rest(S1).ops \in [Key -> Op]
      BY <1>8 DEF CacheType
    <3>2. CacheOrdered(First(S1), n, Rest(S1).ops, writes + 1)
      BY <1>0, <1>1, <1>8, <1>9, <3>1, LaterOrdered
    <3> QED BY <1>7, <1>8, <2>2, <3>2
  <2> QED BY <2>1, <2>2
<1>12. \A m \in Node : m # n => link'[m] = link[m]
  <2>1. \A m \in Node : m # n => First(S1)[m] = link[m]
    BY <1>0, <1>1, SentElsewhere
  <2> HIDE DEF First
  <2>2. \A m \in Node :
          m # n => Sent(First(S1), n, Full(S1).ops, S2)[m] = First(S1)[m]
    BY <1>0, <1>9, SentElsewhere
  <2> QED BY <1>4, <2>1, <2>2
<1> HIDE DEF Full, Rest, First
<1>13. writes' \in Nat
  BY <1>1, <1>7
<1>14. CacheOrdered(link', n, Flushed(Full(S1), S2).ops, writes')
  BY <1>0, <1>4, <1>6, <1>9, <1>10, <1>11, <1>13, SendOrdered
<1>15. Flushed(Full(S1), S2) \in CacheType
  BY <1>6, <1>10, FlushedType, FlushedNothing
<1> QED
  BY <1>0, <1>4, <1>7, <1>12, <1>13, <1>14, <1>15, RowOrdered

\* A request that is not served keeps all queues ordered.
LEMMA TurnedAwayOrdered ==
  ASSUME TypeOK, NeverCopyingWithCopy, OriginInv, NEW n \in Node,
         NEW k \in Key, NEW F \in WriteSets \cup {{}}, Prelude(n, k, F),
         writes' = writes
  PROVE  OriginInv'
<1>1. CopyingCache(n, k, F) = Cache(n)
  BY CopyingCacheIdle
<1>2. PICK S \in FirstSync(n, Cache(n)) : Broadcast(n, Cache(n), S)
  BY <1>1 DEF Prelude
<1>3. S \in Flushable(Cache(n)) \cup {{}}
  BY <1>2, FirstSyncFlushes
<1> QED
  BY <1>2, <1>3, BroadcastOrdered

\* Queues that lose commands at their head, or all of them, stay ordered.
LEMMA ShrinkOrdered ==
  ASSUME TypeOK, OriginInv, UNCHANGED <<cached_op, writes>>,
         \A s \in Node, d \in Node, k \in Key :
           \/ link'[s][d][k] = link[s][d][k]
           \/ link[s][d][k] # <<>> /\ link'[s][d][k] = Tail(link[s][d][k])
           \/ link'[s][d][k] = <<>>
  PROVE  OriginInv'
<1> SUFFICES ASSUME NEW s \in Node, NEW d \in Node, NEW k \in Key
             PROVE  QueueOrdered(link'[s][d][k], cached_op[s][k], writes)
  BY DEF OriginInv, CacheOrdered
<1>1. link[s][d][k] \in Seq(Op) /\ cached_op[s][k] \in Op /\ writes \in Nat
  BY DEF TypeOK
<1>2. QueueOrdered(link[s][d][k], cached_op[s][k], writes)
  BY DEF OriginInv, CacheOrdered
<1>3. cached_op[s][k].ver <= writes
  BY <1>2 DEF QueueOrdered
<1>4. CASE link'[s][d][k] = link[s][d][k]
  BY <1>2, <1>4
<1>5. CASE link[s][d][k] # <<>> /\ link'[s][d][k] = Tail(link[s][d][k])
  BY <1>1, <1>2, <1>5, QueueTake
<1>6. CASE link'[s][d][k] = <<>>
  BY <1>3, <1>6, QueueLost
<1> QED BY <1>4, <1>5, <1>6

\* A restart empties the queues and the cache of a node.
LEMMA RestartOrdered ==
  ASSUME TypeOK, OriginInv, NEW n \in Node, Restart(n)
  PROVE  OriginInv'
<1> SUFFICES ASSUME NEW s \in Node, NEW d \in Node, NEW k \in Key
             PROVE  QueueOrdered(link'[s][d][k], cached_op'[s][k], writes')
  BY DEF OriginInv, CacheOrdered
<1>1. writes' = writes /\ writes \in Nat
  BY DEF Restart, histVars, TypeOK
<1>2. QueueOrdered(link[s][d][k], cached_op[s][k], writes)
  BY DEF OriginInv, CacheOrdered
<1>3. cached_op'[s][k] = IF s = n THEN NoOp ELSE cached_op[s][k]
  BY DEF Restart, SetCache, TypeOK
<1>4. link'[s][d][k] = IF n \in {s, d} THEN <<>> ELSE link[s][d][k]
  BY DEF Restart
<1>5. NoOp.ver <= writes /\ cached_op[s][k].ver <= writes
  BY <1>1, <1>2 DEF NoOp, QueueOrdered
<1>6. CASE n \in {s, d}
  <2>1. cached_op'[s][k].ver <= writes
    BY <1>3, <1>5
  <2> QED BY <1>1, <1>4, <1>6, <2>1, QueueLost
<1>7. CASE n \notin {s, d}
  BY <1>1, <1>2, <1>3, <1>4, <1>7
<1> QED BY <1>6, <1>7

\* Every step keeps all queues ordered.
LEMMA OriginStep ==
  ASSUME TypeOK, NeverCopyingWithCopy, OriginInv, [Next]_vars
  PROVE  OriginInv'
<1>1. CASE UNCHANGED <<cached_op, link, writes>>
  BY <1>1 DEF OriginInv, CacheOrdered
<1>2. CASE Request
  <2>1. PICK c \in Client, k \in Key, F \in WriteSets \cup {{}} :
          \/ ForwardRequest(c, k, F)
          \/ SpinOnRequest(c, k, F)
          \/ RedirectRequest(c, k, F)
          \/ ServeRequest(c, k, F)
    BY <1>2 DEF Request
  <2>2. route[c] \in Node
    BY DEF TypeOK
  <2>3. ServeRequest(c, k, F) \/ (Prelude(route[c], k, F) /\ writes' = writes)
    BY <2>1 DEF ForwardRequest, SpinOnRequest, RedirectRequest, histVars
  <2> QED BY <2>2, <2>3, ServeOrdered, TurnedAwayOrdered
<1>3. ASSUME NEW n \in Node, broadcastCommandInHotGroup(n), writes' = writes
      PROVE  OriginInv'
  BY <1>3, BroadcastOrdered DEF broadcastCommandInHotGroup
<1>4. CASE Command
  BY <1>1, <1>3, <1>4
  DEF Command, RunMode, HotGroupAdd, HotGroupDel, SetSlotCopying,
      SetSlotFincopy, cacheVars, netVars, histVars
<1>5. CASE Timer
  BY <1>1, <1>3, <1>5
  DEF Timer, updateCachedTime, clusterCron, cacheVars, netVars, histVars
<1>6. CASE Deliver
  <2>1. ASSUME NEW s \in Node, NEW d \in Node, NEW k \in Key,
               ReceiveSync(s, d, k)
        PROVE  OriginInv'
    <3>1. /\ link[s][d][k] # <<>>
          /\ link' = [link EXCEPT ![s][d][k] = Tail(link[s][d][k])]
          /\ UNCHANGED <<cached_op, writes>>
      BY <2>1 DEF ReceiveSync, cacheVars, histVars
    <3>2. \A x \in Node, y \in Node, z \in Key :
            \/ link'[x][y][z] = link[x][y][z]
            \/ link[x][y][z] # <<>> /\ link'[x][y][z] = Tail(link[x][y][z])
      <4> DEFINE rest == Tail(link[s][d][k])
                 Queue == Seq(Op)
      <4>1. /\ link' = [link EXCEPT ![s][d][k] = rest]
            /\ link \in [Node -> [Node -> [Key -> Queue]]]
        BY <3>1 DEF TypeOK
      <4> HIDE DEF rest, Queue
      <4> SUFFICES ASSUME NEW x \in Node, NEW y \in Node, NEW z \in Key
                   PROVE  \/ link'[x][y][z] = link[x][y][z]
                          \/ /\ link[x][y][z] # <<>>
                             /\ link'[x][y][z] = Tail(link[x][y][z])
        OBVIOUS
      <4>2. CASE x = s /\ y = d /\ z = k
        <5>1. link'[s][d][k] = rest
          BY <4>1
        <5> QED BY <3>1, <4>2, <5>1 DEF rest
      <4>3. CASE ~(x = s /\ y = d /\ z = k)
        BY <4>1, <4>3
      <4> QED BY <4>2, <4>3
    <3> QED BY <3>1, <3>2, ShrinkOrdered
  <2>2. ASSUME NEW s \in Node, NEW d \in Node, ReceiveHotGroup(s, d)
        PROVE  OriginInv'
    BY <1>1, <2>2 DEF ReceiveHotGroup, cacheVars, netVars, histVars
  <2> QED BY <1>6, <2>1, <2>2 DEF Deliver
<1>7. CASE Copy
  BY <1>1, <1>7 DEF Copy, MigrateCopy, cacheVars, netVars, histVars
<1>8. CASE Failure
  <2>1. ASSUME NEW s \in Node, NEW d \in Node, LoseHotGroup(s, d)
        PROVE  OriginInv'
    BY <1>1, <2>1 DEF LoseHotGroup, cacheVars, netVars, histVars
  <2>2. ASSUME NEW s \in Node, NEW d \in Node, BreakConn(s, d)
        PROVE  OriginInv'
    <3>1. /\ link' = [link EXCEPT ![s][d] = [k \in Key |-> <<>>]]
          /\ UNCHANGED <<cached_op, writes>>
      BY <2>2 DEF BreakConn, cacheVars, histVars
    <3>2. \A x \in Node, y \in Node, z \in Key :
            link'[x][y][z] = link[x][y][z] \/ link'[x][y][z] = <<>>
      BY <3>1 DEF TypeOK
    <3> QED BY <3>1, <3>2, ShrinkOrdered
  <2> QED BY <1>8, <2>1, <2>2, RestartOrdered DEF Failure
<1>9. CASE UNCHANGED vars
  BY <1>1, <1>9 DEF vars, cacheVars, netVars, histVars
<1> QED
  BY <1>2, <1>4, <1>5, <1>6, <1>7, <1>8, <1>9 DEF Next

\* The writes of a key travel from a node to every other in the order in which
\* the node executed them, and a cached write is newer than the ones under
\* way, for any number of nodes and keys and through faults and restarts.
THEOREM WritesInOrder ==
  Spec \/ EstablishedSpec => []OriginOrder
<1>1. Init \/ InitEstablished => OriginInv
  <2> SUFFICES ASSUME Init \/ InitEstablished,
                      NEW s \in Node, NEW d \in Node, NEW k \in Key
               PROVE  QueueOrdered(link[s][d][k], cached_op[s][k], writes)
    BY DEF OriginInv, CacheOrdered
  <2>1. ServerInit
    BY DEF Init, InitEstablished
  <2>2. link[s][d][k] = <<>> /\ cached_op[s][k] = NoOp /\ writes = 1
    BY <2>1, Zenon DEF ServerInit
  <2>3. NoOp.ver <= 1
    BY DEF NoOp
  <2> QED BY <2>2, <2>3, QueueLost
<1>2. OriginInv /\ NeverCopyingWithCopy /\ TypeOK /\ [Next]_vars => OriginInv'
  BY OriginStep
<1>3. OriginInv => OriginOrder
  <2> SUFFICES ASSUME OriginInv, NEW s \in Node, NEW d \in Node, NEW k \in Key
               PROVE  LET q == link[s][d][k]
                      IN /\ \A i, j \in 1..Len(q) : i < j => q[i].ver < q[j].ver
                         /\ \A i \in 1..Len(q) :
                              /\ q[i].ver <= writes
                              /\ k \in Cached(s) => q[i].ver < cached_op[s][k].ver
    BY DEF OriginOrder
  <2>1. QueueOrdered(link[s][d][k], cached_op[s][k], writes)
    BY DEF OriginInv, CacheOrdered
  <2> QED BY <2>1 DEF QueueOrdered, Cached, CachedKeys
<1> QED
  BY <1>1, <1>2, <1>3, TypeCorrect, CopyBranchIsDead, PTL
  DEF Spec, EstablishedSpec
=============================================================================
