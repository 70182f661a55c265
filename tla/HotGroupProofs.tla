--------------------------- MODULE HotGroupProofs ---------------------------
(***************************************************************************)
(* An established hot group implements HotGroup, for every number of       *)
(* nodes, clients and keys and every way to sync and to forward.           *)
(*                                                                         *)
(* The inductive invariant says of a key whose promise is not over what    *)
(* makes a command of its one writer safe to take over: the writer has     *)
(* what the command writes, or newer values, and the node it goes to has   *)
(* nothing as new.                                                         *)
(***************************************************************************)
EXTENDS HotSlotOrderProofs, HotSlotRefinement

StoreSet == [Node -> [Key -> [Field -> Nat]]]

-----------------------------------------------------------------------------
(* The invariant.                                                          *)

\* Node d, whose hashes are in st as those of s, may take over op from s.
Pending(st, s, d, k, op) ==
  /\ \A f \in op.fields : op.ver <= st[s][k][f]
  /\ \A f \in Field : st[d][k][f] < op.ver

\* It may take over all the commands under way, and the cached one.
QueuePending(st, s, d, k, q, op) ==
  /\ \A i \in 1..Len(q) : Pending(st, s, d, k, q[i])
  /\ op # NoOp => Pending(st, s, d, k, op)

\* What node n has sent and cached for key k, when W are its writers.
RowPending(st, lnk, n, ops, W, k) ==
  /\ lnk[n][n][k] = <<>>
  /\ n \notin W => ops[k] = NoOp /\ \A d \in Node : lnk[n][d][k] = <<>>
  /\ \A d \in Node : d # n => QueuePending(st, n, d, k, lnk[n][d][k], ops[k])

KeyKept(k) ==
  /\ \A n \in Node, f \in Field :
       1 <= store[n][k][f] /\ store[n][k][f] <= writes
  /\ \A n \in Node : RowPending(store, link, n, cached_op[n], writers[k], k)

\* The inductive invariant, on top of TypeOK and OriginInv.
PromiseInv == \A k \in Key : ~Over(k) => KeyKept(k)

-----------------------------------------------------------------------------
(* Rows.                                                                   *)

\* A node that wrote nothing owes nothing.
LEMMA RowIdle ==
  ASSUME NEW st, NEW lnk, NEW n \in Node, NEW ops, NEW W, NEW k \in Key,
         ops[k] = NoOp, \A d \in Node : lnk[n][d][k] = <<>>
  PROVE  RowPending(st, lnk, n, ops, W, k)
<1>1. 1..Len(<<>>) = {}
  OBVIOUS
<1>2. ASSUME NEW d \in Node
      PROVE  QueuePending(st, n, d, k, lnk[n][d][k], ops[k])
  BY <1>1, Zenon DEF QueuePending
<1> QED BY <1>2 DEF RowPending

\* The broadcast loop moves a command from the cache to the connections.
LEMMA RowSend ==
  ASSUME NEW st, NEW lnk \in LinkType, NEW n \in Node, NEW cache \in CacheType,
         NEW S \in Flushable(cache) \cup {{}}, NEW W, NEW k \in Key,
         RowPending(st, lnk, n, cache.ops, W, k)
  PROVE  RowPending(st, Sent(lnk, n, cache.ops, S), n, Flushed(cache, S).ops, W, k)
<1> DEFINE sent == Sent(lnk, n, cache.ops, S)
           left == Flushed(cache, S).ops
           op == cache.ops[k]
<1>1. S \subseteq CachedKeys(cache.ops)
  BY FlushableBounded
<1>2. k \in S => op # NoOp
  BY <1>1 DEF CachedKeys
<1>3. left[k] = IF k \in S THEN NoOp ELSE op
  BY DEF Flushed
<1>4. ASSUME NEW d \in Node
      PROVE  \/ sent[n][d][k] = lnk[n][d][k]
             \/ k \in S /\ d # n /\ sent[n][d][k] = Append(lnk[n][d][k], op)
  BY DEF Sent, LinkType, Peers
<1> HIDE DEF sent, left
<1>5. sent[n][n][k] = <<>>
  BY <1>4 DEF RowPending
<1>6. ASSUME n \notin W
      PROVE  left[k] = NoOp /\ \A d \in Node : sent[n][d][k] = <<>>
  BY <1>2, <1>3, <1>4, <1>6 DEF RowPending
<1>7. ASSUME NEW d \in Node, d # n
      PROVE  QueuePending(st, n, d, k, sent[n][d][k], left[k])
  <2> DEFINE q == lnk[n][d][k]
  <2>1. QueuePending(st, n, d, k, q, op)
    BY <1>7 DEF RowPending
  <2>2. q \in Seq(Op) /\ op \in Op
    BY DEF LinkType, CacheType
  <2> HIDE DEF q, op
  <2>3. left[k] # NoOp => Pending(st, n, d, k, left[k])
    BY <1>3, <2>1 DEF QueuePending
  <2>4. CASE sent[n][d][k] = q
    BY <2>1, <2>3, <2>4 DEF QueuePending
  <2>5. CASE k \in S /\ sent[n][d][k] = Append(q, op)
    <3>1. /\ Len(Append(q, op)) = Len(q) + 1 /\ Len(q) \in Nat
          /\ \A i \in 1..Len(q) : Append(q, op)[i] = q[i]
          /\ Append(q, op)[Len(q) + 1] = op
      BY <2>2
    <3>2. Pending(st, n, d, k, op)
      BY <1>2, <2>1, <2>5 DEF QueuePending, op
    <3>3. ASSUME NEW i \in 1..(Len(q) + 1)
          PROVE  Pending(st, n, d, k, Append(q, op)[i])
      <4>1. CASE i \in 1..Len(q)
        BY <2>1, <3>1, <4>1 DEF QueuePending
      <4>2. CASE i = Len(q) + 1
        BY <3>1, <3>2, <4>2
      <4> QED BY <3>1, <4>1, <4>2
    <3> QED BY <2>3, <2>5, <3>1, <3>3 DEF QueuePending
  <2> QED BY <1>4, <2>4, <2>5 DEF q
<1> QED BY <1>5, <1>6, <1>7 DEF RowPending, sent, left

\* A row of one key depends on what concerns the key.
LEMMA RowSame ==
  ASSUME NEW st, NEW st2, NEW lnk, NEW n \in Node, NEW ops, NEW ops2, NEW W,
         NEW k \in Key, RowPending(st, lnk, n, ops, W, k), ops2[k] = ops[k],
         \A m \in Node : st2[m][k] = st[m][k]
  PROVE  RowPending(st2, lnk, n, ops2, W, k)
BY DEF RowPending, QueuePending, Pending

\* The node executes a write and caches it, or does not cache it.
LEMMA RowWrite ==
  ASSUME NEW st \in StoreSet, NEW lnk \in LinkType, NEW n \in Node,
         NEW ops \in [Key -> Op], NEW ops2, NEW W, NEW W2, NEW k \in Key,
         NEW op \in Op, NEW w \in Nat, op.ver = w + 1,
         \A m \in Node, f \in Field : st[m][k][f] <= w,
         RowPending(st, lnk, n, ops, W, k),
         ops2[k] = ops[k] \/ ops2[k] = op, n \in W2
  PROVE  RowPending([st EXCEPT ![n][k] = Apply(st[n][k], op)], lnk, n, ops2, W2, k)
<1> DEFINE st2 == [st EXCEPT ![n][k] = Apply(st[n][k], op)]
<1>1. ASSUME NEW f \in Field
      PROVE  st2[n][k][f] = IF f \in op.fields THEN op.ver ELSE st[n][k][f]
  BY DEF StoreSet, Apply
<1>2. ASSUME NEW d \in Node, d # n
      PROVE  st2[d][k] = st[d][k]
  BY <1>2 DEF StoreSet
<1>3. \A m \in Node, f \in Field : st[m][k][f] \in Nat
  BY DEF StoreSet
<1> HIDE DEF st2
<1>4. ASSUME NEW d \in Node, d # n, NEW old \in Op, Pending(st, n, d, k, old)
      PROVE  Pending(st2, n, d, k, old)
  <2>1. old.ver \in Nat /\ old.fields \subseteq Field
    BY DEF Op
  <2>2. ASSUME NEW f \in old.fields
        PROVE  old.ver <= st2[n][k][f]
    <3>1. f \in Field /\ old.ver <= st[n][k][f] /\ st[n][k][f] <= w
      BY <1>4, <2>1, <2>2 DEF Pending
    <3> QED BY <1>1, <1>3, <2>1, <3>1
  <2> QED BY <1>2, <1>4, <2>2 DEF Pending
<1>5. ASSUME NEW d \in Node, d # n
      PROVE  Pending(st2, n, d, k, op)
  <2>1. \A f \in op.fields : op.ver <= st2[n][k][f]
    BY <1>1 DEF Op
  <2>2. \A f \in Field : st2[d][k][f] < op.ver
    BY <1>2, <1>3, <1>5
  <2> QED BY <2>1, <2>2 DEF Pending
<1>6. ASSUME NEW d \in Node, d # n
      PROVE  QueuePending(st2, n, d, k, lnk[n][d][k], ops2[k])
  <2> DEFINE q == lnk[n][d][k]
  <2>1. QueuePending(st, n, d, k, q, ops[k]) /\ ops[k] \in Op /\ q \in Seq(Op)
    BY <1>6 DEF RowPending, LinkType
  <2> HIDE DEF q
  <2>2. \A i \in 1..Len(q) : q[i] \in Op
    BY <2>1
  <2>3. \A i \in 1..Len(q) : Pending(st2, n, d, k, q[i])
    BY <1>4, <1>6, <2>1, <2>2 DEF QueuePending
  <2>4. ops2[k] # NoOp => Pending(st2, n, d, k, ops2[k])
    BY <1>4, <1>5, <1>6, <2>1 DEF QueuePending
  <2> QED BY <2>3, <2>4 DEF QueuePending, q
<1> QED BY <1>6 DEF RowPending, st2

-----------------------------------------------------------------------------
(* What is over stays over.                                                *)

\* The counters of commands and faults never go down, and no node is taken
\* from the writers of a key.
LEMMA HistoryGrows ==
  ASSUME TypeOK, [Next]_vars
  PROVE  /\ admins' = admins \/ admins' = admins + 1
         /\ faults' = faults \/ faults' = faults + 1
         /\ \A k \in Key : writers[k] \subseteq writers'[k]
<1>1. CASE Request
  <2>1. PICK c \in Client, k \in Key, F \in WriteSets \cup {{}} :
          \/ ForwardRequest(c, k, F)
          \/ SpinOnRequest(c, k, F)
          \/ RedirectRequest(c, k, F)
          \/ ServeRequest(c, k, F)
    BY <1>1 DEF Request
  <2>2. CASE ForwardRequest(c, k, F)
    BY <2>2 DEF ForwardRequest, histVars
  <2>3. CASE SpinOnRequest(c, k, F)
    BY <2>3 DEF SpinOnRequest, histVars
  <2>4. CASE RedirectRequest(c, k, F)
    BY <2>4 DEF RedirectRequest, histVars
  <2>5. CASE ServeRequest(c, k, F)
    <3>1. admins' = admins /\ Execute(route[c], k, F)
      BY <2>5 DEF ServeRequest
    <3>2. faults' = faults \/ faults' = faults + 1
      BY <3>1 DEF Execute
    <3>3. writers' = writers \/ writers' = [writers EXCEPT ![k] = @ \cup {route[c]}]
      BY <3>1 DEF Execute, histVars
    <3>4. \A j \in Key :
            writers'[j] = writers[j] \/ writers'[j] = writers[j] \cup {route[c]}
      BY <3>3 DEF TypeOK
    <3>5. \A j \in Key : writers[j] \subseteq writers'[j]
      BY <3>4
    <3> QED BY <3>1, <3>2, <3>5
  <2> QED BY <2>1, <2>2, <2>3, <2>4, <2>5
<1>2. CASE Command
  BY <1>2
  DEF Command, RunMode, HotGroupAdd, HotGroupDel, SetSlotCopying,
      SetSlotFincopy, Admin, histVars
<1>3. CASE Timer
  BY <1>3 DEF Timer, updateCachedTime, clusterCron, histVars
<1>4. CASE Deliver
  <2>1. ASSUME NEW s \in Node, NEW d \in Node, NEW k \in Key,
               ReceiveSync(s, d, k)
        PROVE  /\ admins' = admins /\ writers' = writers
               /\ faults' = faults \/ faults' = faults + 1
    BY <2>1 DEF ReceiveSync, histVars
  <2>2. ASSUME NEW s \in Node, NEW d \in Node, ReceiveHotGroup(s, d)
        PROVE  admins' = admins /\ writers' = writers /\ faults' = faults
    BY <2>2 DEF ReceiveHotGroup, histVars
  <2> QED BY <1>4, <2>1, <2>2 DEF Deliver
<1>5. CASE Failure
  BY <1>5 DEF Failure, LoseHotGroup, BreakConn, Restart, Fault, histVars
<1>6. CASE Copy
  BY <1>6 DEF Copy, MigrateCopy, histVars
<1>7. CASE UNCHANGED vars
  BY <1>7 DEF vars, histVars
<1> QED
  BY <1>1, <1>2, <1>3, <1>4, <1>5, <1>6, <1>7 DEF Next

\* Over is a truth value in both states of a step.
LEMMA BooleanOver ==
  ASSUME NEW k \in Key
  PROVE  Over(k) \in BOOLEAN /\ Over(k)' \in BOOLEAN
BY DEF Over

LEMMA OverStays ==
  ASSUME TypeOK, [Next]_vars, NEW k \in Key
  PROVE  Over(k) => Over(k)'
<1>1. admins \in Nat /\ faults \in Nat
  BY DEF TypeOK
<1> QED
  BY <1>1, HistoryGrows DEF Over, Undisturbed

\* What it means that the promise for a key is not over after a step.
LEMMA NotOverNext ==
  ASSUME TypeOK, [Next]_vars, NEW k \in Key, ~Over(k)'
  PROVE  /\ ~Over(k)
         /\ admins' = admins /\ faults' = faults
         /\ \A n, m \in writers'[k] : n = m
         /\ writers[k] \subseteq writers'[k]
<1>1. admins \in Nat /\ faults \in Nat
  BY DEF TypeOK
<1>2. admins' = 0 /\ faults' = 0
  BY DEF Over, Undisturbed
<1>3. admins' = admins /\ faults' = faults
  BY <1>1, <1>2, HistoryGrows
<1> QED
  BY <1>3, OverStays, HistoryGrows DEF Over

-----------------------------------------------------------------------------
(* The steps of HotGroup.                                                  *)

\* A step that changes no value and no writer of the keys whose promise is not
\* over after it gives up the others, or stutters.
LEMMA GivesUp ==
  ASSUME TypeOK, [Next]_vars,
         \A k \in Key : ~Over(k)' => /\ writers'[k] = writers[k]
                                     /\ \A n \in Node : store'[n][k] = store[n][k]
  PROVE  Promise!Next
<1> DEFINE K == {k \in Key : Over(k)'}
<1>1. over' = [k \in Key |-> over[k] \/ k \in K]
  <2>1. over' = [k \in Key |-> Over(k)']
    BY DEF over
  <2>2. ASSUME NEW k \in Key
        PROVE  Over(k)' <=> (over[k] \/ k \in K)
    <3>1. over[k] = Over(k)
      BY DEF over
    <3>2. Over(k) => Over(k)'
      BY OverStays
    <3>3. k \in K <=> Over(k)'
      OBVIOUS
    <3> HIDE DEF K
    <3> QED BY <3>1, <3>2, <3>3
  <2> HIDE DEF K
  <2>3. \A k \in Key : Over(k)' = (over[k] \/ k \in K)
    BY <2>2, BooleanOver
  <2> QED BY <2>1, <2>3, Zenon
<1>2. writer' = [k \in Key |-> IF k \in K THEN {} ELSE writer[k]]
  <2>1. ASSUME NEW k \in Key
        PROVE  (IF Over(k)' THEN {} ELSE writers'[k]) =
                 IF k \in K THEN {} ELSE writer[k]
    <3>1. CASE Over(k)'
      BY <3>1
    <3>2. CASE ~Over(k)'
      <4>1. ~Over(k) /\ writers'[k] = writers[k]
        BY <3>2, NotOverNext
      <4> QED BY <3>2, <4>1 DEF writer
    <3> QED BY <3>1, <3>2
  <2> HIDE DEF K
  <2>2. writer' = [k \in Key |-> IF Over(k)' THEN {} ELSE writers'[k]]
    BY DEF writer
  <2> QED BY <2>1, <2>2, Zenon
<1>3. value' = [n \in Node |-> [k \in Key |->
                  IF k \in K THEN [f \in Field |-> 0] ELSE value[n][k]]]
  BY NotOverNext DEF value, NoHash
<1>4. Promise!GiveUp(K)
  BY <1>1, <1>2, <1>3 DEF Promise!GiveUp
<1> HIDE DEF K
<1>5. K \in SUBSET Key
  BY DEF K
<1> QED BY <1>4, <1>5 DEF Promise!Next

\* Nothing that concerns the promise changes but which keys have it.
LEMMA OverSame ==
  ASSUME NEW k \in Key, UNCHANGED <<admins, faults>>, writers'[k] = writers[k]
  PROVE  Over(k)' <=> Over(k)
BY DEF Over, Undisturbed

-----------------------------------------------------------------------------
(* Steps that keep the invariant of a key.                                 *)

\* A step that does not concern the key.
LEMMA KeptFrame ==
  ASSUME TypeOK, NEW k \in Key, KeyKept(k),
         \A n \in Node : /\ store'[n][k] = store[n][k]
                         /\ cached_op'[n][k] = cached_op[n][k]
                         /\ \A d \in Node : link'[n][d][k] = link[n][d][k],
         writers'[k] = writers[k], writes' \in {writes, writes + 1}
  PROVE  KeyKept(k)'
<1>1. writes \in Nat /\ \A n \in Node, f \in Field : store[n][k][f] \in Nat
  BY DEF TypeOK
<1>2. \A n \in Node, f \in Field :
        1 <= store'[n][k][f] /\ store'[n][k][f] <= writes'
  BY <1>1 DEF KeyKept
<1>3. ASSUME NEW n \in Node
      PROVE  RowPending(store', link', n, cached_op'[n], writers'[k], k)
  <2>1. RowPending(store, link, n, cached_op[n], writers[k], k)
    BY DEF KeyKept
  <2> QED BY <2>1 DEF RowPending, QueuePending, Pending
<1> QED BY <1>2, <1>3 DEF KeyKept

\* A broadcast of what is cached.
LEMMA KeptBroadcast ==
  ASSUME TypeOK, NEW k \in Key, KeyKept(k), NEW n \in Node,
         NEW S \in Flushable(Cache(n)) \cup {{}},
         Broadcast(n, Cache(n), S), UNCHANGED <<store, histVars>>
  PROVE  KeyKept(k)'
<1> DEFINE cache == Cache(n)
<1>1. link \in LinkType /\ cache \in CacheType /\ cache.ops = cached_op[n]
  BY CacheHasType DEF TypeOK, LinkType, Cache
<1>2. /\ SetCache(n, Flushed(cache, S))
      /\ link' = Sent(link, n, cache.ops, S)
      /\ store' = store /\ writers' = writers /\ writes' = writes
  BY DEF Broadcast, histVars
<1>3. cached_op' = [cached_op EXCEPT ![n] = Flushed(cache, S).ops]
  BY <1>2 DEF SetCache
<1>4. S \in Flushable(cache) \cup {{}}
  OBVIOUS
<1> HIDE DEF cache
<1>5. ASSUME NEW m \in Node
      PROVE  RowPending(store', link', m, cached_op'[m], writers'[k], k)
  <2>1. RowPending(store, link, m, cached_op[m], writers[k], k)
    BY DEF KeyKept
  <2>2. CASE m = n
    <3>1. RowPending(store, link, n, cache.ops, writers[k], k)
      BY <1>1, <2>1, <2>2
    <3>2. RowPending(store, Sent(link, n, cache.ops, S), n,
                     Flushed(cache, S).ops, writers[k], k)
      BY <1>1, <1>4, <3>1, RowSend
    <3>3. cached_op'[n] = Flushed(cache, S).ops
      BY <1>3 DEF TypeOK
    <3> QED BY <1>2, <2>2, <3>2, <3>3
  <2>3. CASE m # n
    <3>1. link'[m] = link[m]
      BY <1>1, <1>2, <2>3, SentElsewhere
    <3>2. cached_op'[m] = cached_op[m]
      BY <1>3, <2>3 DEF TypeOK
    <3> QED BY <1>2, <2>1, <3>1, <3>2 DEF RowPending
  <2> QED BY <2>2, <2>3
<1> QED BY <1>2, <1>5 DEF KeyKept

\* A request that is served.
LEMMA KeptServe ==
  ASSUME TypeOK, NeverCopyingWithCopy, NEW c \in Client, NEW k \in Key,
         NEW F \in WriteSets \cup {{}}, ServeRequest(c, k, F), faults' = faults,
         NEW j \in Key, KeyKept(j), \A x, y \in writers'[j] : x = y
  PROVE  KeyKept(j)'
<1> DEFINE n == route[c]
           op == NewOp(n, F)
           cache == Cache(n)
           caches == InGroup(n, c) /\ IsWrite(F) /\ is_sync[n]
           Rest(S1) == Flushed(cache, S1)
           Full(S1) == IF caches THEN addCmdToCache(Rest(S1), k, op)
                                 ELSE Rest(S1)
           First(S1) == Sent(link, n, cache.ops, S1)
<1>0. n \in Node
  BY DEF TypeOK
<1>1. /\ op \in Op /\ op.ver = writes + 1 /\ op.fields = F
      /\ link \in LinkType /\ writes \in Nat /\ writes >= 1
      /\ cache \in CacheType /\ cache.ops = cached_op[n]
  <2>1. op.ver = writes + 1 /\ op.fields = F
    BY DEF NewOp
  <2>2. op \in Op /\ cache \in CacheType
    BY <1>0, NewOpType, CacheHasType
  <2>3. cache.ops = cached_op[n]
    BY DEF Cache
  <2>4. link \in LinkType /\ writes \in Nat /\ writes >= 1
    BY DEF TypeOK, LinkType
  <2> QED BY <2>1, <2>2, <2>3, <2>4
<1>2. CopyingCache(n, k, F) = cache
  BY <1>0, CopyingCacheIdle
<1>3. PICK S1 \in FirstSync(n, cache) :
        \E S2 \in IF caches /\ ~sync_time[n] THEN Flushable(Full(S1)) ELSE {{}} :
          /\ SetCache(n, Flushed(Full(S1), S2))
          /\ link' = Sent(First(S1), n, Full(S1).ops, S2)
  BY <1>2 DEF ServeRequest
<1>4. PICK S2 \in IF caches /\ ~sync_time[n] THEN Flushable(Full(S1)) ELSE {{}} :
        /\ SetCache(n, Flushed(Full(S1), S2))
        /\ link' = Sent(First(S1), n, Full(S1).ops, S2)
  BY <1>3
<1>5. S1 \in Flushable(cache) \cup {{}}
  BY <1>3, FirstSyncFlushes
<1>6. S2 \in Flushable(Full(S1)) \cup {{}}
  BY <1>4
<1>7. \/ ~caches /\ store' = store /\ writers' = writers /\ writes' = writes
      \/ /\ store' = [store EXCEPT ![n][k] = Apply(store[n][k], op)]
         /\ writers' = [writers EXCEPT ![k] = @ \cup {n}]
         /\ writes' = writes + 1
  <2>1. Execute(n, k, F)
    BY DEF ServeRequest
  <2>2. faults' # faults + 1
    BY DEF TypeOK
  <2> QED BY <2>1, <2>2 DEF Execute, histVars
<1> HIDE DEF cache, op, caches
<1>8. Rest(S1) \in CacheType
  BY <1>1, <1>5, FlushedType, FlushedNothing
<1>9. First(S1) \in LinkType
  <2>1. cache.ops \in [Key -> Op]
    BY <1>1 DEF CacheType
  <2> QED BY <1>0, <1>1, <2>1, SentType
<1>10. Full(S1) \in CacheType
  BY <1>1, <1>8, AddType
<1>11. /\ Full(S1).ops[j] = Rest(S1).ops[j] \/ Full(S1).ops[j] = op
       /\ ~caches \/ j # k => Full(S1).ops[j] = Rest(S1).ops[j]
  <2> HIDE DEF Rest
  <2> QED BY <1>8 DEF addCmdToCache, CacheType
<1>12. RowPending(store, link, n, cache.ops, writers[j], j)
  BY <1>0, <1>1 DEF KeyKept
<1>13. RowPending(store, First(S1), n, Rest(S1).ops, writers[j], j)
  BY <1>0, <1>1, <1>5, <1>12, RowSend
<1>14. \A m \in Node : m # n => First(S1)[m] = link[m]
  BY <1>0, <1>1, SentElsewhere
<1> HIDE DEF Full, Rest, First
<1>15. /\ store \in StoreSet /\ Rest(S1).ops \in [Key -> Op]
       /\ \A m \in Node, f \in Field : 1 <= store[m][j][f] /\ store[m][j][f] <= writes
  BY <1>8 DEF TypeOK, StoreSet, CacheType, KeyKept
<1>16. CASE /\ j = k
            /\ store' = [store EXCEPT ![n][k] = Apply(store[n][k], op)]
            /\ writers' = [writers EXCEPT ![k] = @ \cup {n}]
            /\ writes' = writes + 1
  <2>1. n \in writers'[k] /\ writers[k] \subseteq writers'[k]
    BY <1>0, <1>16 DEF TypeOK
  <2>2. RowPending(store', First(S1), n, Full(S1).ops, writers'[k], k)
    BY <1>0, <1>1, <1>9, <1>11, <1>13, <1>15, <1>16, <2>1, RowWrite
  <2>3. RowPending(store', link', n, Flushed(Full(S1), S2).ops, writers'[k], k)
    BY <1>0, <1>4, <1>6, <1>9, <1>10, <2>2, RowSend
  <2>4. cached_op'[n] = Flushed(Full(S1), S2).ops
    BY <1>0, <1>4 DEF SetCache, TypeOK
  <2>5. ASSUME NEW m \in Node, m # n
        PROVE  RowPending(store', link', m, cached_op'[m], writers'[k], k)
    <3>1. m \notin writers[k]
      BY <1>16, <2>1, <2>5
    <3>2. cached_op[m][k] = NoOp /\ \A d \in Node : link[m][d][k] = <<>>
      BY <1>16, <3>1 DEF KeyKept, RowPending
    <3>3. cached_op'[m] = cached_op[m]
      BY <1>0, <1>4, <2>5 DEF SetCache, TypeOK
    <3>4. link'[m] = link[m]
      BY <1>0, <1>4, <1>9, <1>14, <2>5, SentElsewhere
    <3>5. cached_op'[m][k] = NoOp /\ \A d \in Node : link'[m][d][k] = <<>>
      BY <3>2, <3>3, <3>4
    <3> QED BY <3>5, RowIdle
  <2>6. \A m \in Node, f \in Field :
          1 <= store'[m][j][f] /\ store'[m][j][f] <= writes'
    <3>1. ASSUME NEW m \in Node, NEW f \in Field
          PROVE  store'[m][j][f] = op.ver \/ store'[m][j][f] = store[m][j][f]
      BY <1>0, <1>15, <1>16 DEF StoreSet, Apply
    <3>2. \A m \in Node, f \in Field : store[m][j][f] \in Nat
      BY <1>15 DEF StoreSet
    <3> QED BY <1>1, <1>15, <1>16, <3>1, <3>2
  <2> QED BY <1>16, <2>3, <2>4, <2>5, <2>6 DEF KeyKept
<1>17. ASSUME /\ \A m \in Node : store'[m][j] = store[m][j]
              /\ writers'[j] = writers[j]
              /\ writes' \in {writes, writes + 1}
              /\ ~caches \/ j # k
       PROVE  KeyKept(j)'
  <2>1. RowPending(store', First(S1), n, Full(S1).ops, writers[j], j)
    BY <1>0, <1>11, <1>13, <1>17, RowSame
  <2>2. RowPending(store', link', n, Flushed(Full(S1), S2).ops, writers[j], j)
    BY <1>0, <1>4, <1>6, <1>9, <1>10, <2>1, RowSend
  <2>3. cached_op'[n] = Flushed(Full(S1), S2).ops
    BY <1>0, <1>4 DEF SetCache, TypeOK
  <2>4. ASSUME NEW m \in Node, m # n
        PROVE  RowPending(store', link', m, cached_op'[m], writers[j], j)
    <3>1. RowPending(store, link, m, cached_op[m], writers[j], j)
      BY DEF KeyKept
    <3>2. cached_op'[m] = cached_op[m]
      BY <1>0, <1>4, <2>4 DEF SetCache, TypeOK
    <3>3. link'[m] = link[m]
      BY <1>0, <1>4, <1>9, <1>14, <2>4, SentElsewhere
    <3> QED BY <1>17, <3>1, <3>2, <3>3 DEF RowPending, QueuePending, Pending
  <2>5. \A m \in Node, f \in Field :
          1 <= store'[m][j][f] /\ store'[m][j][f] <= writes'
    <3>1. \A m \in Node, f \in Field : store[m][j][f] \in Nat
      BY <1>15 DEF StoreSet
    <3> QED BY <1>1, <1>15, <1>17, <3>1
  <2> QED BY <1>17, <2>2, <2>3, <2>4, <2>5 DEF KeyKept
<1>18. CASE /\ j # k
            /\ store' = [store EXCEPT ![n][k] = Apply(store[n][k], op)]
            /\ writers' = [writers EXCEPT ![k] = @ \cup {n}]
            /\ writes' = writes + 1
  <2>1. \A m \in Node : store'[m][j] = store[m][j]
    BY <1>0, <1>15, <1>18 DEF StoreSet
  <2>2. writers'[j] = writers[j]
    BY <1>18 DEF TypeOK
  <2> QED BY <1>17, <1>18, <2>1, <2>2
<1> QED BY <1>7, <1>16, <1>17, <1>18

\* A sync command that is applied.
LEMMA KeptReceive ==
  ASSUME TypeOK, OriginInv, NEW s \in Node, NEW d \in Node, NEW k \in Key,
         ReceiveSync(s, d, k), faults' = faults, KeyKept(k),
         \A x, y \in writers[k] : x = y
  PROVE  /\ KeyKept(k)'
         /\ s # d /\ s \in writers[k]
         /\ LET op == Head(link[s][d][k])
            IN /\ store' = [store EXCEPT ![d][k] = Apply(@, op)]
               /\ op \in Op /\ op.ver <= writes
               /\ Pending(store, s, d, k, op)
<1> DEFINE q == link[s][d][k]
           op == Head(q)
<1>1. /\ q \in Seq(Op) /\ q # <<>> /\ writes \in Nat
      /\ link' = [link EXCEPT ![s][d][k] = Tail(q)]
      /\ UNCHANGED <<cached_op, writes, writers>>
  BY DEF ReceiveSync, TypeOK, cacheVars, histVars
<1>2. RowPending(store, link, s, cached_op[s], writers[k], k)
  BY DEF KeyKept
<1>3. s # d /\ s \in writers[k]
  BY <1>1, <1>2 DEF RowPending
<1>4. QueuePending(store, s, d, k, q, cached_op[s][k])
  BY <1>2, <1>3 DEF RowPending
<1>5. QueueOrdered(q, cached_op[s][k], writes)
  BY DEF OriginInv, CacheOrdered
<1>6. d \notin writers[k]
  BY <1>3
<1>7. cached_op[d][k] = NoOp
  BY <1>6 DEF KeyKept, RowPending
<1> HIDE DEF q, op
<1>8. /\ Len(q) \in Nat /\ Len(q) > 0 /\ op = q[1] /\ op \in Op
      /\ Len(Tail(q)) = Len(q) - 1
      /\ \A i \in 1..(Len(q) - 1) : Tail(q)[i] = q[i + 1]
  BY <1>1 DEF op
<1>9. Pending(store, s, d, k, op) /\ op.ver <= writes /\ op.ver \in Nat
  BY <1>4, <1>5, <1>8 DEF QueuePending, QueueOrdered, Op
<1>10. store' = [store EXCEPT ![d][k] = Apply(store[d][k], op)]
  <2>1. ~Outdated(d, k, op)
    BY <1>7 DEF Outdated
  <2>2. faults' # faults + 1
    BY DEF TypeOK
  <2> QED BY <2>1, <2>2 DEF ReceiveSync, op, q
<1>11. /\ store \in StoreSet
       /\ \A m \in Node, f \in Field : 1 <= store[m][k][f] /\ store[m][k][f] <= writes
       /\ \A m \in Node, f \in Field : store[m][k][f] \in Nat
  <2>1. store \in StoreSet
    BY DEF TypeOK, StoreSet
  <2>2. \A m \in Node, f \in Field : store[m][k][f] \in Nat
    BY <2>1 DEF StoreSet
  <2> QED BY <2>1, <2>2 DEF KeyKept
<1>12. /\ \A m \in Node : m # d => store'[m][k] = store[m][k]
       /\ \A f \in Field : store'[d][k][f] = IF f \in op.fields THEN op.ver
                                                           ELSE store[d][k][f]
  BY <1>10, <1>11 DEF StoreSet, Apply
<1>13. \A f \in Field : store[d][k][f] < op.ver
  BY <1>9 DEF Pending
<1>14. \A m \in Node, f \in Field :
         1 <= store'[m][k][f] /\ store'[m][k][f] <= writes'
  BY <1>1, <1>9, <1>11, <1>12, <1>13
<1>15. ASSUME NEW e \in Node
       PROVE  link'[s][e][k] = IF e = d THEN Tail(q) ELSE link[s][e][k]
  <2> DEFINE rest == Tail(q)
             Queue == Seq(Op)
  <2>1. /\ link' = [link EXCEPT ![s][d][k] = rest]
        /\ link \in [Node -> [Node -> [Key -> Queue]]]
    BY <1>1 DEF TypeOK
  <2> HIDE DEF rest, Queue
  <2>2. link'[s][e][k] = IF e = d THEN rest ELSE link[s][e][k]
    BY <2>1
  <2> QED BY <2>2 DEF rest
<1>16. \A m \in Node, e \in Node : m # s => link'[m][e][k] = link[m][e][k]
  BY <1>1 DEF TypeOK
<1>17. ASSUME NEW new, new.ver \in Nat, op.ver < new.ver,
              Pending(store, s, d, k, new)
       PROVE  Pending(store', s, d, k, new)
  BY <1>3, <1>9, <1>11, <1>12, <1>17 DEF Pending
<1>18. QueuePending(store', s, d, k, Tail(q), cached_op[s][k])
  <2>1. ASSUME NEW i \in 1..(Len(q) - 1)
        PROVE  Pending(store', s, d, k, Tail(q)[i])
    <3>1. i + 1 \in 1..Len(q) /\ 1 \in 1..Len(q) /\ 1 < i + 1
      BY <1>8
    <3>2. op.ver < q[i + 1].ver /\ Pending(store, s, d, k, q[i + 1])
      BY <1>4, <1>5, <1>8, <3>1 DEF QueueOrdered, QueuePending
    <3>3. q[i + 1].ver \in Nat
      BY <1>1, <3>1, VersionType
    <3> QED BY <1>8, <1>17, <3>2, <3>3
  <2>2. ASSUME cached_op[s][k] # NoOp
        PROVE  Pending(store', s, d, k, cached_op[s][k])
    <3>1. 1 \in 1..Len(q)
      BY <1>8
    <3>2. op.ver < cached_op[s][k].ver /\ Pending(store, s, d, k, cached_op[s][k])
      BY <1>4, <1>5, <1>8, <2>2, <3>1 DEF QueueOrdered, QueuePending
    <3>3. cached_op[s][k].ver \in Nat
      BY DEF TypeOK, Op
    <3> QED BY <1>17, <3>2, <3>3
  <2> QED BY <1>8, <2>1, <2>2 DEF QueuePending
<1>19. RowPending(store', link', s, cached_op[s], writers[k], k)
  <2>1. ASSUME NEW e \in Node, e # s
        PROVE  QueuePending(store', s, e, k, link'[s][e][k], cached_op[s][k])
    <3>1. CASE e = d
      BY <1>15, <1>18, <3>1
    <3>2. CASE e # d
      <4>1. QueuePending(store, s, e, k, link[s][e][k], cached_op[s][k])
        BY <1>2, <2>1 DEF RowPending
      <4> QED
        BY <1>3, <1>12, <1>15, <3>2, <4>1 DEF QueuePending, Pending
    <3> QED BY <3>1, <3>2
  <2>2. link'[s][s][k] = <<>>
    BY <1>2, <1>3, <1>15 DEF RowPending
  <2> QED BY <1>3, <2>1, <2>2 DEF RowPending
<1>20. ASSUME NEW m \in Node, m # s
       PROVE  RowPending(store', link', m, cached_op[m], writers[k], k)
  <2>1. cached_op[m][k] = NoOp /\ \A e \in Node : link[m][e][k] = <<>>
    BY <1>3, <1>20 DEF KeyKept, RowPending
  <2>2. \A e \in Node : link'[m][e][k] = <<>>
    BY <1>16, <1>20, <2>1
  <2> QED BY <2>1, <2>2, RowIdle
<1>21. KeyKept(k)'
  BY <1>1, <1>14, <1>19, <1>20 DEF KeyKept
<1> QED
  BY <1>3, <1>8, <1>9, <1>10, <1>21 DEF op, q

-----------------------------------------------------------------------------
(* The steps that change a value.                                          *)

\* One value changes and no promise ends: the effect under the mapping.
LEMMA ValueChanges ==
  ASSUME NEW n \in Node, NEW k \in Key, NEW new, ~Over(k),
         \A m \in Node, j \in Key :
           store'[m][j] = IF m = n /\ j = k THEN new ELSE store[m][j],
         \A j \in Key : Over(j)' <=> Over(j)
  PROVE  value' = [value EXCEPT ![n][k] = new]
<1> DEFINE Bar(m, j) == IF Over(j) THEN NoHash ELSE store[m][j]
<1>1. value' = [m \in Node |-> [j \in Key |->
                  IF m = n /\ j = k THEN new ELSE value[m][j]]]
  BY DEF value
<1>2. value = [m \in Node |-> [j \in Key |-> Bar(m, j)]]
  BY DEF value
<1> HIDE DEF Bar
<1>3. [value EXCEPT ![n][k] = new] =
        [m \in Node |-> [j \in Key |->
           IF m = n /\ j = k THEN new ELSE value[m][j]]]
  BY <1>2
<1> QED BY <1>1, <1>3

\* The number of a write is bounded.
LEMMA WritesBound ==
  ASSUME TypeOK
  PROVE  MaxWrite \in Nat /\ writes \in Nat /\ writes <= MaxWrite + 1
<1>1. MaxWrite \in Nat
  BY ConstantsAssumption
<1>2. writes \in 1..(MaxWrite + 1)
  BY DEF TypeOK
<1> QED BY <1>1, <1>2

\* A write of the one node that writes the key.
LEMMA WriteAllowed ==
  ASSUME TypeOK, PromiseInv, NEW n \in Node, NEW k \in Key,
         NEW F \in SUBSET Field, writes <= MaxWrite, ~Over(k)',
         \A j \in Key : Over(j) => Over(j)',
         UNCHANGED <<admins, faults>>,
         store' = [store EXCEPT ![n][k] = Apply(@, NewOp(n, F))],
         writers' = [writers EXCEPT ![k] = @ \cup {n}]
  PROVE  Promise!Next
<1> DEFINE v == writes + 1
<1>1. /\ NewOp(n, F).fields = F /\ NewOp(n, F).ver = v
      /\ v \in 0..(MaxWrite + 1)
  BY WritesBound DEF NewOp
<1>2. n \in writers'[k] /\ \A m \in writers[k] : m \in writers'[k]
  <2>1. writers'[k] = writers[k] \cup {n}
    BY DEF TypeOK
  <2> QED BY <2>1
<1>3. \A m \in writers'[k] : m = n
  BY <1>2 DEF Over
<1>4. ~Over(k) /\ KeyKept(k)
  BY DEF PromiseInv
<1>5. \A j \in Key : Over(j)' <=> Over(j)
  <2>1. ASSUME NEW j \in Key, j # k
        PROVE  Over(j)' <=> Over(j)
    <3>1. writers'[j] = writers[j]
      BY <2>1 DEF TypeOK
    <3> QED BY <3>1, OverSame
  <2> QED BY <1>4, <2>1
<1>6. over' = over
  <2>1. over' = [j \in Key |-> Over(j)'] /\ over = [j \in Key |-> Over(j)]
    BY DEF over
  <2>2. \A j \in Key : Over(j)' = Over(j)
    BY <1>5, BooleanOver
  <2> QED BY <2>1, <2>2, Zenon
<1>7. writer' = [writer EXCEPT ![k] = {n}]
  <2>1. writers'[k] = {n}
    BY <1>2, <1>3
  <2>2. \A j \in Key : j # k => writers'[j] = writers[j]
    BY DEF TypeOK
  <2>3. \A j \in Key : (IF Over(j)' THEN {} ELSE writers'[j]) =
                         IF j = k THEN {n} ELSE writer[j]
    BY <1>5, <2>1, <2>2 DEF writer
  <2>4. writer' = [j \in Key |-> IF Over(j)' THEN {} ELSE writers'[j]]
    BY DEF writer
  <2>5. writer' = [j \in Key |-> IF j = k THEN {n} ELSE writer[j]]
    BY <2>3, <2>4, Zenon
  <2>6. [writer EXCEPT ![k] = {n}] = [j \in Key |-> IF j = k THEN {n} ELSE writer[j]]
    BY DEF writer
  <2> QED BY <2>5, <2>6
<1>8. value' = [value EXCEPT ![n][k] = Promise!Put(@, F, v)]
  <2> DEFINE new == Apply(store[n][k], NewOp(n, F))
  <2>1. new = Promise!Put(value[n][k], F, v)
    BY <1>1, <1>4 DEF value, Apply, Promise!Put
  <2>2. \A m \in Node, j \in Key :
          store'[m][j] = IF m = n /\ j = k THEN new ELSE store[m][j]
    BY DEF TypeOK
  <2> HIDE DEF new, v
  <2>3. ~Over(k)
    BY <1>4
  <2>4. value' = [value EXCEPT ![n][k] = new]
    BY <1>5, <2>2, <2>3, ValueChanges
  <2> QED BY <2>1, <2>4
<1>9. ~over[k] /\ writer[k] \subseteq {n}
  BY <1>2, <1>3, <1>4 DEF over, writer
<1>10. ASSUME NEW m \in Node, NEW f \in Field
       PROVE  value[m][k][f] < v
  <2>1. store[m][k][f] \in Nat /\ writes \in Nat /\ store[m][k][f] <= writes
    BY <1>4 DEF TypeOK, KeyKept
  <2> QED BY <1>4, <2>1 DEF value
<1> HIDE DEF v
<1>11. Promise!Write(n, k, F, v)
  BY <1>6, <1>7, <1>8, <1>9, <1>10 DEF Promise!Write
<1> QED BY <1>1, <1>11 DEF Promise!Next

\* A copy takes over a write.
LEMMA CatchUpAllowed ==
  ASSUME TypeOK, PromiseInv, NEW s \in Node, NEW d \in Node, NEW k \in Key,
         NEW op \in Op, op.ver <= writes, s # d, s \in writers[k], ~Over(k),
         Pending(store, s, d, k, op), UNCHANGED <<admins, faults, writers>>,
         store' = [store EXCEPT ![d][k] = Apply(store[d][k], op)]
  PROVE  Promise!Next
<1> DEFINE F == op.fields
           v == op.ver
<1>1. F \in SUBSET Field /\ v \in Nat
  BY DEF Op
<1>2. v \in 0..(MaxWrite + 1)
  BY <1>1, WritesBound
<1>3. \A j \in Key : Over(j)' <=> Over(j)
  BY OverSame
<1>4. \A j \in Key : Over(j)' = Over(j)
  BY <1>3, BooleanOver
<1>5. over' = over /\ writer' = writer
  <2>1. over' = [j \in Key |-> Over(j)'] /\ over = [j \in Key |-> Over(j)]
    BY DEF over
  <2>2. over' = over
    BY <1>4, <2>1, Zenon
  <2>3. writer' = [j \in Key |-> IF Over(j)' THEN {} ELSE writers[j]]
    BY DEF writer
  <2>4. writer = [j \in Key |-> IF Over(j) THEN {} ELSE writers[j]]
    BY DEF writer
  <2> QED BY <1>4, <2>2, <2>3, <2>4, Zenon
<1>6. value' = [value EXCEPT ![d][k] = Promise!Put(@, F, v)]
  <2> DEFINE new == Apply(store[d][k], op)
  <2>1. new = Promise!Put(value[d][k], F, v)
    BY DEF value, Apply, Promise!Put
  <2>2. \A m \in Node, j \in Key :
          store'[m][j] = IF m = d /\ j = k THEN new ELSE store[m][j]
    BY DEF TypeOK
  <2> HIDE DEF new, F, v
  <2>3. value' = [value EXCEPT ![d][k] = new]
    BY <1>3, <2>2, ValueChanges
  <2> QED BY <2>1, <2>3
<1>7. ~over[k] /\ s \in writer[k] \ {d}
  BY DEF over, writer
<1>8. \A f \in F : value[d][k][f] < v /\ v <= value[s][k][f]
  BY <1>1 DEF value, Pending
<1> HIDE DEF F, v
<1>9. Promise!CatchUp(d, k, F, v)
  BY <1>5, <1>6, <1>7, <1>8 DEF Promise!CatchUp
<1> QED BY <1>1, <1>2, <1>9 DEF Promise!Next

-----------------------------------------------------------------------------
(* Every step keeps the invariant and is allowed.                          *)

\* The promise holds, and the step is one of HotGroup.
Allowed == PromiseInv' /\ Promise!Next

\* A step that does not concern the keys whose promise is not over after it.
LEMMA AllowedFrame ==
  ASSUME TypeOK, PromiseInv, [Next]_vars,
         \A k \in Key : ~Over(k)' => KeyKept(k)',
         \A k \in Key : ~Over(k)' => /\ writers'[k] = writers[k]
                                     /\ \A n \in Node : store'[n][k] = store[n][k]
  PROVE  Allowed
<1>1. Promise!Next
  BY GivesUp
<1>2. PromiseInv'
  BY DEF PromiseInv
<1> QED BY <1>1, <1>2 DEF Allowed

\* Nothing the invariant speaks of changes.
LEMMA AllowedIdle ==
  ASSUME TypeOK, PromiseInv, [Next]_vars,
         UNCHANGED <<store, cached_op, link, histVars>>
  PROVE  Allowed
<1>1. writers' = writers /\ writes' = writes
  BY DEF histVars
<1>2. ASSUME NEW k \in Key, ~Over(k)'
      PROVE  KeyKept(k)'
  <2>1. KeyKept(k)
    BY <1>2, NotOverNext DEF PromiseInv
  <2> QED BY <1>1, <2>1, KeptFrame
<1> QED BY <1>1, <1>2, AllowedFrame

\* A broadcast of what is cached.
LEMMA AllowedBroadcast ==
  ASSUME TypeOK, PromiseInv, [Next]_vars, NEW n \in Node,
         NEW S \in Flushable(Cache(n)) \cup {{}},
         Broadcast(n, Cache(n), S), UNCHANGED <<store, histVars>>
  PROVE  Allowed
<1>1. ASSUME NEW k \in Key, ~Over(k)'
      PROVE  KeyKept(k)'
  <2>1. KeyKept(k)
    BY <1>1, NotOverNext DEF PromiseInv
  <2> QED BY <2>1, KeptBroadcast
<1> QED BY <1>1, AllowedFrame DEF histVars

\* A command or a fault ends the promise of all keys.
LEMMA AllowedEnd ==
  ASSUME TypeOK, PromiseInv, [Next]_vars,
         admins' = admins + 1 \/ faults' = faults + 1
  PROVE  Allowed
<1>1. admins \in Nat /\ faults \in Nat
  BY DEF TypeOK
<1>2. ~(admins' = 0 /\ faults' = 0)
  BY <1>1
<1>3. \A k \in Key : Over(k)'
  BY <1>2 DEF Over, Undisturbed
<1> QED BY <1>3, AllowedFrame

\* A request of a client.
LEMMA AllowedRequest ==
  ASSUME TypeOK, NeverCopyingWithCopy, PromiseInv, [Next]_vars,
         NEW c \in Client, NEW k \in Key, NEW F \in WriteSets \cup {{}},
         ServeRequest(c, k, F)
  PROVE  Allowed
<1> DEFINE n == route[c]
<1>1. n \in Node /\ F \in SUBSET Field
  BY ConstantsAssumption DEF TypeOK
<1>2. Execute(n, k, F)
  BY DEF ServeRequest
<1>3. CASE faults' = faults + 1
  BY <1>3, AllowedEnd
<1>4. ASSUME faults' = faults, NEW j \in Key, ~Over(j)'
      PROVE  KeyKept(j)'
  <2>1. KeyKept(j) /\ \A x, y \in writers'[j] : x = y
    BY <1>4, NotOverNext DEF PromiseInv
  <2> QED BY <1>4, <2>1, KeptServe
<1>5. CASE faults' = faults /\ store' = store /\ writers' = writers
  BY <1>4, <1>5, AllowedFrame
<1>6. CASE /\ faults' = faults
           /\ writes <= MaxWrite
           /\ store' = [store EXCEPT ![n][k] = Apply(@, NewOp(n, F))]
           /\ writers' = [writers EXCEPT ![k] = @ \cup {n}]
  <2>1. CASE Over(k)'
    <3>1. ASSUME NEW j \in Key, ~Over(j)'
          PROVE  /\ writers'[j] = writers[j]
                 /\ \A m \in Node : store'[m][j] = store[m][j]
      <4>1. j # k
        BY <2>1, <3>1
      <4>2. \A m \in Node : store'[m][j] = store[m][j]
        BY <1>1, <1>6, <4>1 DEF TypeOK
      <4>3. writers'[j] = writers[j]
        BY <1>6, <4>1 DEF TypeOK
      <4> QED BY <4>2, <4>3
    <3> QED BY <1>4, <1>6, <3>1, AllowedFrame
  <2>2. CASE ~Over(k)'
    <3>1. admins' = admins
      BY <2>2, NotOverNext
    <3>2. \A j \in Key : Over(j) => Over(j)'
      BY OverStays
    <3> HIDE DEF n
    <3>3. Promise!Next
      BY <1>1, <1>6, <2>2, <3>1, <3>2, WriteAllowed
    <3>4. PromiseInv'
      BY <1>4, <1>6 DEF PromiseInv
    <3> QED BY <3>3, <3>4 DEF Allowed
  <2> QED BY <2>1, <2>2
<1>7. faults' = faults + 1
        \/ /\ faults' = faults
           /\ \/ store' = store /\ writers' = writers
              \/ /\ writes <= MaxWrite
                 /\ store' = [store EXCEPT ![n][k] = Apply(@, NewOp(n, F))]
                 /\ writers' = [writers EXCEPT ![k] = @ \cup {n}]
  BY <1>2 DEF Execute, histVars
<1> HIDE DEF n
<1> QED BY <1>3, <1>5, <1>6, <1>7

\* A sync command is received.
LEMMA AllowedReceive ==
  ASSUME TypeOK, OriginInv, PromiseInv, [Next]_vars, NEW s \in Node,
         NEW d \in Node, NEW k \in Key, ReceiveSync(s, d, k)
  PROVE  Allowed
<1> DEFINE op == Head(link[s][d][k])
<1>1. /\ UNCHANGED <<cached_op, writes, writers, admins>>
      /\ link' = [link EXCEPT ![s][d][k] = Tail(@)]
      /\ faults' = faults \/ faults' = faults + 1
      /\ store' = store \/ store' = [store EXCEPT ![d][k] = Apply(@, op)]
  BY DEF ReceiveSync, cacheVars, histVars
<1> HIDE DEF op
<1>2. CASE faults' = faults + 1
  BY <1>2, AllowedEnd
<1>3. ASSUME NEW j \in Key, j # k
      PROVE  \A n \in Node : /\ store'[n][j] = store[n][j]
                             /\ \A e \in Node : link'[n][e][j] = link[n][e][j]
  <2> DEFINE rest == Tail(link[s][d][k])
             new == Apply(store[d][k], op)
             Queue == Seq(Op)
  <2>1. /\ link' = [link EXCEPT ![s][d][k] = rest]
        /\ link \in [Node -> [Node -> [Key -> Queue]]]
        /\ store' = store \/ store' = [store EXCEPT ![d][k] = new]
        /\ store \in StoreSet
    BY <1>1 DEF TypeOK, StoreSet
  <2> HIDE DEF rest, new, Queue
  <2>2. \A n \in Node : store'[n][j] = store[n][j]
    <3>1. CASE store' = [store EXCEPT ![d][k] = new]
      <4>1. store \in StoreSet /\ j # k
        BY <1>3, <2>1
      <4> QED BY <3>1, <4>1 DEF StoreSet
    <3>2. CASE store' = store
      BY <3>2
    <3> QED BY <2>1, <3>1, <3>2
  <2>3. \A n, e \in Node : link'[n][e][j] = link[n][e][j]
    BY <1>3, <2>1
  <2> QED BY <2>2, <2>3
<1>4. ASSUME faults' = faults, NEW j \in Key, ~Over(j)'
      PROVE  KeyKept(j)'
  <2>1. KeyKept(j) /\ ~Over(j)
    BY <1>4, NotOverNext DEF PromiseInv
  <2>2. CASE j = k
    BY <1>4, <2>1, <2>2, KeptReceive DEF Over
  <2>3. CASE j # k
    BY <1>1, <1>3, <2>1, <2>3, KeptFrame
  <2> QED BY <2>2, <2>3
<1>5. CASE faults' = faults /\ ~Over(k)
  <2>1. KeyKept(k) /\ \A x, y \in writers[k] : x = y
    BY <1>5 DEF PromiseInv, Over
  <2>2. /\ s # d /\ s \in writers[k]
        /\ store' = [store EXCEPT ![d][k] = Apply(@, op)]
        /\ op \in Op /\ op.ver <= writes
        /\ Pending(store, s, d, k, op)
    BY <1>5, <2>1, KeptReceive DEF op
  <2>3. Promise!Next
    BY <1>1, <1>5, <2>2, CatchUpAllowed
  <2>4. PromiseInv'
    BY <1>4, <1>5 DEF PromiseInv
  <2> QED BY <2>3, <2>4 DEF Allowed
<1>6. CASE faults' = faults /\ Over(k)
  <2>1. ASSUME NEW j \in Key, ~Over(j)'
        PROVE  \A n \in Node : store'[n][j] = store[n][j]
    <3>1. j # k
      BY <1>6, <2>1, NotOverNext
    <3> QED BY <1>3, <3>1
  <2> QED BY <1>1, <1>4, <1>6, <2>1, AllowedFrame
<1> QED BY <1>1, <1>2, <1>5, <1>6

\* A key with a promise exists everywhere: no copy of it is made.
LEMMA AllowedCopy ==
  ASSUME TypeOK, PromiseInv, [Next]_vars, NEW s \in Node, NEW d \in Node,
         NEW k \in Key, MigrateCopy(s, d, k)
  PROVE  Allowed
<1>1. /\ store[s][k] # NoHash /\ store[d][k] = NoHash
      /\ store' = [store EXCEPT ![d][k] = store[s][k]]
      /\ UNCHANGED <<cached_op, link, writes, writers, admins, faults>>
  BY DEF MigrateCopy, Exists, cacheVars, netVars, histVars
<1>2. PICK f \in Field : store[s][k][f] # 0
  <2>1. store[s][k] \in [Field -> Nat]
    BY DEF TypeOK
  <2> QED BY <1>1, <2>1 DEF NoHash
<1>3. store[d][k][f] = 0
  BY <1>1 DEF NoHash
<1>4. Over(k)
  BY <1>3 DEF PromiseInv, KeyKept
<1>5. ASSUME NEW j \in Key, ~Over(j)'
      PROVE  \A n \in Node : store'[n][j] = store[n][j]
  <2>1. j # k
    BY <1>4, <1>5, NotOverNext
  <2> QED BY <1>1, <2>1 DEF TypeOK
<1>6. ASSUME NEW j \in Key, ~Over(j)'
      PROVE  KeyKept(j)'
  <2>1. KeyKept(j)
    BY <1>6, NotOverNext DEF PromiseInv
  <2> QED BY <1>1, <1>5, <1>6, <2>1, KeptFrame
<1> QED BY <1>1, <1>5, <1>6, AllowedFrame

\* Every step is allowed.
LEMMA AllowedStep ==
  ASSUME TypeOK, NeverCopyingWithCopy, OriginInv, PromiseInv, [Next]_vars
  PROVE  Allowed
<1>1. CASE Request
  <2>1. PICK c \in Client, k \in Key, F \in WriteSets \cup {{}} :
          \/ ForwardRequest(c, k, F)
          \/ SpinOnRequest(c, k, F)
          \/ RedirectRequest(c, k, F)
          \/ ServeRequest(c, k, F)
    BY <1>1 DEF Request
  <2>2. CASE ServeRequest(c, k, F)
    BY <2>2, AllowedRequest
  <2>3. CASE /\ Prelude(route[c], k, F)
             /\ UNCHANGED <<store, histVars>>
    <3>1. route[c] \in Node
      BY DEF TypeOK
    <3>2. CopyingCache(route[c], k, F) = Cache(route[c])
      BY <3>1, CopyingCacheIdle
    <3>3. PICK S \in FirstSync(route[c], Cache(route[c])) :
            Broadcast(route[c], Cache(route[c]), S)
      BY <2>3, <3>2 DEF Prelude
    <3>4. S \in Flushable(Cache(route[c])) \cup {{}}
      BY <3>3, FirstSyncFlushes
    <3> QED BY <2>3, <3>1, <3>3, <3>4, AllowedBroadcast
  <2>4. CASE ForwardRequest(c, k, F)
    BY <2>3, <2>4 DEF ForwardRequest
  <2>5. CASE SpinOnRequest(c, k, F)
    BY <2>3, <2>5 DEF SpinOnRequest
  <2>6. CASE RedirectRequest(c, k, F)
    BY <2>3, <2>6 DEF RedirectRequest
  <2> QED BY <2>1, <2>2, <2>4, <2>5, <2>6
<1>2. CASE Command
  <2>1. admins' = admins + 1
    BY <1>2
    DEF Command, RunMode, HotGroupAdd, HotGroupDel, SetSlotCopying,
        SetSlotFincopy, Admin
  <2> QED BY <2>1, AllowedEnd
<1>3. CASE Timer
  <2>1. ASSUME NEW n \in Node, updateCachedTime(n)
        PROVE  Allowed
    BY <2>1, AllowedIdle DEF updateCachedTime, cacheVars, netVars
  <2>2. ASSUME NEW n \in Node, clusterCron(n)
        PROVE  Allowed
    <3>1. PICK S \in Flushable(Cache(n)) : Broadcast(n, Cache(n), S)
      BY <2>2 DEF clusterCron, broadcastCommandInHotGroup
    <3>2. UNCHANGED <<store, histVars>>
      BY <2>2 DEF clusterCron
    <3> QED BY <3>1, <3>2, AllowedBroadcast
  <2> QED BY <1>3, <2>1, <2>2 DEF Timer
<1>4. CASE Deliver
  <2>1. ASSUME NEW s \in Node, NEW d \in Node, ReceiveHotGroup(s, d)
        PROVE  Allowed
    BY <2>1, AllowedIdle DEF ReceiveHotGroup, cacheVars, netVars
  <2> QED BY <1>4, <2>1, AllowedReceive DEF Deliver
<1>5. CASE Failure
  <2>1. faults' = faults + 1
    BY <1>5 DEF Failure, LoseHotGroup, BreakConn, Restart, Fault
  <2> QED BY <2>1, AllowedEnd
<1>6. CASE Copy
  BY <1>6, AllowedCopy DEF Copy
<1>7. CASE UNCHANGED vars
  BY <1>7, AllowedIdle DEF vars, cacheVars, netVars
<1> QED
  BY <1>1, <1>2, <1>3, <1>4, <1>5, <1>6, <1>7 DEF Next

-----------------------------------------------------------------------------
(* The refinement.                                                         *)

\* In an established group all copies are equal.
LEMMA InitAllowed ==
  ASSUME InitEstablished
  PROVE  PromiseInv /\ OriginInv /\ Promise!Init
<1>1. ServerInit /\ store = [n \in Node |-> Loaded]
  BY DEF InitEstablished
<1>2. /\ cached_op = [n \in Node |-> [k \in Key |-> NoOp]]
      /\ link = [s \in Node |-> [d \in Node |-> [k \in Key |-> <<>>]]]
      /\ writes = 1 /\ writers = [k \in Key |-> {}]
  BY <1>1 DEF ServerInit
<1>3. \A s \in Node, k \in Key :
        cached_op[s][k] = NoOp /\ \A d \in Node : link[s][d][k] = <<>>
  BY <1>2, Zenon
<1>4. OriginInv
  <2>1. NoOp.ver <= writes
    BY <1>2 DEF NoOp
  <2> QED BY <1>3, <2>1, QueueLost DEF OriginInv, CacheOrdered
<1>5. PromiseInv
  <2>1. ASSUME NEW k \in Key, ~Over(k)
        PROVE  KeyKept(k)
    <3>1. k \in Stored
      BY <2>1 DEF Over
    <3>2. \A n \in Node, f \in Field : store[n][k][f] = 1
      BY <1>1, <3>1 DEF Loaded
    <3>3. \A n \in Node : RowPending(store, link, n, cached_op[n], writers[k], k)
      BY <1>3, RowIdle
    <3>4. writes = 1
      BY <1>2
    <3> QED BY <3>2, <3>3, <3>4 DEF KeyKept
  <2> QED BY <2>1 DEF PromiseInv
<1>6. Promise!Init
  <2>1. ASSUME NEW n \in Node, NEW m \in Node
        PROVE  value[n] = value[m]
    BY <1>1 DEF value
  <2>2. writer = [k \in Key |-> {}]
    <3>1. \A k \in Key : (IF Over(k) THEN {} ELSE writers[k]) = {}
      BY <1>2
    <3> QED BY <3>1, Zenon DEF writer
  <2> QED BY <2>1, <2>2 DEF Promise!Init
<1> QED BY <1>4, <1>5, <1>6

\* An established hot group implements HotGroup: as long as one node writes a
\* key, every value another copy takes over is a whole write of that node, and
\* newer than what the copy has, whatever the number of nodes, clients and
\* keys, the way to sync and the interleaving.
THEOREM GroupKeepsPromise ==
  EstablishedSpec => KeepsPromise
<1>1. InitEstablished => PromiseInv /\ OriginInv /\ Promise!Init
  BY InitAllowed
<1>2. TypeOK /\ NeverCopyingWithCopy /\ OriginInv /\ PromiseInv /\ [Next]_vars
      => OriginInv' /\ PromiseInv' /\ [Promise!Next]_Promise!vars
  BY OriginStep, AllowedStep DEF Allowed
<1>3. Spec \/ EstablishedSpec => []TypeOK /\ []NeverCopyingWithCopy
  BY TypeCorrect, CopyBranchIsDead
<1> QED
  BY <1>1, <1>2, <1>3, PTL DEF EstablishedSpec, KeepsPromise, Promise!Spec
=============================================================================
