------------------------ MODULE HotSlotDeliveryProofs ------------------------
(***************************************************************************)
(* No update of a hot key is forgotten: for every number of nodes, clients *)
(* and keys, as long as the group is left as it was established, and a     *)
(* node that syncs every second writes whole records.  And no client is    *)
(* sent to and fro.                                                        *)
(*                                                                         *)
(* The inductive invariant says that the group stands, with nothing cached *)
(* where writes are broadcast at once, and of a key with one writer that   *)
(* each of its values is at every copy, under way to it, or cached.        *)
(***************************************************************************)
EXTENDS HotGroupProofs

\* Deferred sync keeps one command per key: it needs writes of all fields.
NothingReplaced == WriteSets \subseteq {Field} \/ "1s" \notin Mode

-----------------------------------------------------------------------------
(* The group stands.                                                       *)

\* Every node is a member and a copy, and no message will change that.
Grouped ==
  /\ have_copy[Owner]
  /\ \A n \in Node : is_copied[n] /\ related_ins[n] = Node
  /\ \A s, d \in Node : bus[s][d] = <<>>

\* Its connections work too, and no node defers what another may replace.
Stands ==
  /\ Grouped
  /\ \A s, d \in Node : conn[s][d] # "broken"
  /\ \A n \in Node : sync_time[n] => WriteSets \subseteq {Field}
  /\ \A n \in Node : ~sync_time[n] => Cached(n) = {}

LEMMA InitGrouped ==
  ASSUME InitEstablished
  PROVE  Grouped
<1>1. \A s, d \in Node : bus[s][d] = <<>>
  BY DEF InitEstablished, ServerInit
<1>2. \A n \in Node : is_copied[n] /\ related_ins[n] = Node
  BY DEF InitEstablished
<1>3. have_copy[Owner]
  BY ConstantsAssumption DEF InitEstablished
<1> QED
  BY <1>1, <1>2, <1>3 DEF Grouped

LEMMA InitStands ==
  ASSUME InitEstablished, NothingReplaced
  PROVE  Stands
<1>1. ServerInit
  BY DEF InitEstablished
<1>2. \A s, d \in Node : conn[s][d] = "none"
  BY <1>1 DEF ServerInit
<1>3. \A n \in Node : Cached(n) = {}
  BY <1>1 DEF ServerInit, Cached, CachedKeys
<1>4. \A n \in Node : sync_time[n] => "1s" \in Mode
  BY DEF InitEstablished, SyncTimeOf
<1> QED
  BY <1>2, <1>3, <1>4, InitGrouped DEF Stands, NothingReplaced

\* Commands and faults aside, all stay in the group.
LEMMA GroupedKept ==
  ASSUME TypeOK, Grouped, [Next]_vars, UNCHANGED <<admins, faults>>
  PROVE  Grouped'
<1>0. admins' # admins + 1 /\ faults' # faults + 1
  BY DEF TypeOK
<1>1. CASE Command \/ Failure
  BY <1>0, <1>1
  DEF Command, RunMode, HotGroupAdd, HotGroupDel, SetSlotCopying,
      SetSlotFincopy, Admin, Failure, LoseHotGroup, BreakConn, Restart, Fault
<1>2. CASE UNCHANGED <<have_copy, is_copied, related_ins, bus>>
  BY <1>2 DEF Grouped
<1>3. CASE Request
  <2>1. PICK c \in Client, k \in Key, F \in WriteSets \cup {{}} :
          \/ ForwardRequest(c, k, F)
          \/ SpinOnRequest(c, k, F)
          \/ RedirectRequest(c, k, F)
          \/ ServeRequest(c, k, F)
    BY <1>3 DEF Request
  <2>2. CASE ForwardRequest(c, k, F)
    BY <1>2, <2>2 DEF ForwardRequest
  <2>3. CASE SpinOnRequest(c, k, F)
    BY <1>2, <2>3 DEF SpinOnRequest
  <2>4. CASE RedirectRequest(c, k, F)
    BY <1>2, <2>4 DEF RedirectRequest
  <2>5. CASE ServeRequest(c, k, F)
    BY <1>2, <2>5 DEF ServeRequest
  <2> QED BY <2>1, <2>2, <2>3, <2>4, <2>5
<1>4. CASE Timer
  BY <1>2, <1>4 DEF Timer, updateCachedTime, clusterCron, flagVars
<1>5. CASE Deliver
  <2>1. \A s, d \in Node : ~ReceiveHotGroup(s, d)
    BY DEF ReceiveHotGroup, Grouped
  <2>2. PICK s \in Node, d \in Node, k \in Key : ReceiveSync(s, d, k)
    BY <1>5, <2>1 DEF Deliver
  <2> QED BY <1>2, <2>2 DEF ReceiveSync, flagVars
<1>6. CASE Copy
  BY <1>2, <1>6 DEF Copy, MigrateCopy, flagVars
<1>7. CASE UNCHANGED vars
  BY <1>2, <1>7 DEF vars, flagVars
<1> QED
  BY <1>1, <1>3, <1>4, <1>5, <1>6, <1>7 DEF Next

\* Every member of the group serves every client, and caches for the others.
LEMMA AllInGroup ==
  ASSUME TypeOK, Grouped, NEW c \in Client, NEW n \in Node
  PROVE  InGroup(n, c)
<1>1. is_copied[n] /\ n \in related_ins[n] /\ related_ins[n] # {}
  BY DEF Grouped
<1>2. n = Owner => have_copy[n]
  BY DEF Grouped
<1>3. n = Owner => Stays(n, c)
  BY <1>1, <1>2 DEF Stays, Forwards, SyncsNow
<1> QED BY <1>1, <1>3 DEF InGroup

\* A broadcast caches nothing new.
LEMMA FlushShrinks ==
  ASSUME TypeOK, NEW n \in Node, NEW ops, NEW S1, NEW size, NEW m \in Node,
         ops = cached_op[n],
         cached_op' = [cached_op EXCEPT
                         ![n] = Flushed([ops |-> ops, size |-> size], S1).ops]
  PROVE  Cached(m)' \subseteq Cached(m)
BY DEF Flushed, Cached, CachedKeys, TypeOK

\* Connections are made, and none is broken.
LEMMA ConnectsOnly ==
  ASSUME NEW n \in Node, NEW S, conn \in ConnType, conn' = Connected(n, S),
         \A s, d \in Node : conn[s][d] # "broken"
  PROVE  \A s, d \in Node : conn'[s][d] # "broken"
BY DEF Connected, ConnType

\* What a broadcast leaves of the group.
LEMMA StandsBroadcast ==
  ASSUME TypeOK, Stands, NEW n \in Node, NEW S, Broadcast(n, Cache(n), S),
         UNCHANGED <<have_copy, is_copied, related_ins, bus, sync_time>>
  PROVE  Stands'
<1>1. /\ cached_op' = [cached_op EXCEPT ![n] = Flushed(Cache(n), S).ops]
      /\ conn' = Connected(n, S)
  BY DEF Broadcast, SetCache
<1>2. \A m \in Node : Cached(m)' \subseteq Cached(m)
  BY <1>1, FlushShrinks DEF Cache
<1>3. conn \in ConnType
  BY DEF TypeOK, ConnType
<1>4. \A s, d \in Node : conn'[s][d] # "broken"
  BY <1>1, <1>3, ConnectsOnly DEF Stands
<1> QED BY <1>2, <1>4 DEF Stands, Grouped

\* The two sends of a request that is served: the commands of S1, then those
\* of S2 out of what is cached with the write.
Splits(c, k, F, S1, full, S2) ==
  LET n == route[c]
      rest == Flushed(Cache(n), S1)
      caches == InGroup(n, c) /\ IsWrite(F) /\ is_sync[n]
  IN /\ rest \in CacheType
     /\ Sent(link, n, cached_op[n], S1) \in LinkType
     /\ full \in CacheType
     /\ full = IF caches THEN addCmdToCache(rest, k, NewOp(n, F)) ELSE rest
     /\ ~caches => S2 = {}
     /\ cached_op' = [cached_op EXCEPT ![n] = Flushed(full, S2).ops]
     /\ link' = Sent(Sent(link, n, cached_op[n], S1), n, full.ops, S2)
     /\ conn' = Connected(n, S1 \cup S2)

LEMMA ServeSplits ==
  ASSUME TypeOK, NeverCopyingWithCopy, NEW c \in Client, NEW k \in Key,
         NEW F \in WriteSets \cup {{}}, ServeRequest(c, k, F)
  PROVE  \E S1, full, S2 : Splits(c, k, F, S1, full, S2)
<1> DEFINE n == route[c]
           op == NewOp(n, F)
           cache == Cache(n)
           caches == InGroup(n, c) /\ IsWrite(F) /\ is_sync[n]
           Rest(S1) == Flushed(cache, S1)
           Full(S1) == IF caches THEN addCmdToCache(Rest(S1), k, op)
                                 ELSE Rest(S1)
           First(S1) == Sent(link, n, cache.ops, S1)
<1>0. n \in Node
  BY DEF TypeOK
<1>1. /\ op \in Op /\ cache \in CacheType /\ cache.ops = cached_op[n]
      /\ link \in LinkType
  BY <1>0, NewOpType, CacheHasType DEF Cache, TypeOK, LinkType
<1>2. CopyingCache(n, k, F) = cache
  BY <1>0, CopyingCacheIdle
<1>3. PICK S1 \in FirstSync(n, cache) :
        \E S2 \in IF caches /\ ~sync_time[n] THEN Flushable(Full(S1)) ELSE {{}} :
          /\ SetCache(n, Flushed(Full(S1), S2))
          /\ link' = Sent(First(S1), n, Full(S1).ops, S2)
          /\ conn' = Connected(n, S1 \cup S2)
  BY <1>2 DEF ServeRequest
<1>4. PICK S2 \in IF caches /\ ~sync_time[n] THEN Flushable(Full(S1)) ELSE {{}} :
        /\ SetCache(n, Flushed(Full(S1), S2))
        /\ link' = Sent(First(S1), n, Full(S1).ops, S2)
        /\ conn' = Connected(n, S1 \cup S2)
  BY <1>3
<1>5. S1 \in Flushable(cache) \cup {{}}
  BY <1>3, FirstSyncFlushes
<1>6. S2 \in Flushable(Full(S1)) \cup {{}} /\ (~caches => S2 = {})
  BY <1>4
<1>7. cached_op' = [cached_op EXCEPT ![n] = Flushed(Full(S1), S2).ops]
  BY <1>4 DEF SetCache
<1> HIDE DEF cache, op, caches
<1>8. Rest(S1) \in CacheType
  BY <1>1, <1>5, FlushedType, FlushedNothing
<1>9. First(S1) \in LinkType
  <2>1. cache.ops \in [Key -> Op]
    BY <1>1 DEF CacheType
  <2> QED BY <1>0, <1>1, <2>1, SentType
<1>10. Full(S1) \in CacheType
  BY <1>1, <1>8, AddType
<1>11. /\ Flushed(Cache(n), S1) \in CacheType
       /\ Sent(link, n, cached_op[n], S1) \in LinkType
       /\ Full(S1) = IF caches
                     THEN addCmdToCache(Flushed(Cache(n), S1), k, NewOp(n, F))
                     ELSE Flushed(Cache(n), S1)
       /\ link' = Sent(Sent(link, n, cached_op[n], S1), n, Full(S1).ops, S2)
  BY <1>1, <1>4, <1>8, <1>9 DEF cache, op
<1> HIDE DEF Full, Rest, First
<1>12. Splits(c, k, F, S1, Full(S1), S2)
  BY <1>4, <1>6, <1>7, <1>10, <1>11 DEF caches, Splits
<1> QED BY <1>12

\* A request that is served.
LEMMA StandsServe ==
  ASSUME TypeOK, NeverCopyingWithCopy, CacheCounted, Stands, NEW c \in Client,
         NEW k \in Key, NEW F \in WriteSets \cup {{}}, ServeRequest(c, k, F)
  PROVE  Stands'
<1> DEFINE n == route[c]
           caches == InGroup(n, c) /\ IsWrite(F) /\ is_sync[n]
<1>0. n \in Node
  BY DEF TypeOK
<1>1. PICK S1, full, S2 : Splits(c, k, F, S1, full, S2)
  BY ServeSplits
<1>2. /\ ~caches => full = Flushed(Cache(n), S1) /\ S2 = {}
      /\ cached_op' = [cached_op EXCEPT ![n] = Flushed(full, S2).ops]
      /\ conn' = Connected(n, S1 \cup S2)
  BY <1>1 DEF Splits
<1>3. /\ UNCHANGED <<have_copy, is_copied, related_ins, bus, sync_time>>
      /\ conn \in ConnType
  BY DEF ServeRequest, modeVars, TypeOK, ConnType
<1>4. \A s, d \in Node : conn'[s][d] # "broken"
  BY <1>0, <1>2, <1>3, ConnectsOnly DEF Stands
<1>5. ASSUME NEW m \in Node, ~sync_time[m]
      PROVE  Cached(m)' = {}
  <2>1. Cached(m) = {}
    BY <1>5 DEF Stands
  <2>2. CASE m # n
    <3>1. cached_op'[m] = cached_op[m]
      BY <1>2, <2>2 DEF TypeOK
    <3> QED BY <2>1, <3>1 DEF Cached, CachedKeys
  <2>3. CASE m = n /\ caches
    <3>1. F \in WriteSets
      BY <2>3 DEF IsWrite
    <3>2. TakesAllAlong(c, k, F)
      BY <3>1, ServeTakesAll
    <3>3. CachedKeys(cached_op'[n]) = {}
      BY <1>5, <2>3, <3>2 DEF TakesAllAlong
    <3> QED BY <2>3, <3>3 DEF Cached, CachedKeys
  <2>4. CASE m = n /\ ~caches
    <3> HIDE DEF caches, n
    <3>1. full = Flushed(Cache(n), S1)
      BY <1>2, <2>4
    <3>2. /\ \A j \in Key : full.ops[j] = NoOp
          /\ \A j \in Key : Flushed(full, S2).ops[j] = NoOp
      BY <2>1, <2>4, <3>1 DEF Flushed, Cache, Cached, CachedKeys
    <3>3. cached_op'[n] = Flushed(full, S2).ops
      BY <1>0, <1>2 DEF TypeOK
    <3> QED BY <2>4, <3>2, <3>3 DEF Cached, CachedKeys
  <2> QED BY <2>2, <2>3, <2>4
<1> QED BY <1>3, <1>4, <1>5 DEF Stands, Grouped

\* Commands and faults aside, the group stands as it is.
LEMMA StandsKept ==
  ASSUME TypeOK, NeverCopyingWithCopy, CacheCounted, Stands, [Next]_vars,
         UNCHANGED <<admins, faults>>
  PROVE  Stands'
<1>0. admins' # admins + 1 /\ faults' # faults + 1
  BY DEF TypeOK
<1>1. CASE Request
  <2>1. PICK c \in Client, k \in Key, F \in WriteSets \cup {{}} :
          \/ ForwardRequest(c, k, F)
          \/ SpinOnRequest(c, k, F)
          \/ RedirectRequest(c, k, F)
          \/ ServeRequest(c, k, F)
    BY <1>1 DEF Request
  <2>2. CASE ServeRequest(c, k, F)
    BY <2>2, StandsServe
  <2>3. CASE \/ ForwardRequest(c, k, F)
             \/ SpinOnRequest(c, k, F)
             \/ RedirectRequest(c, k, F)
    <3>1. /\ Prelude(route[c], k, F)
          /\ UNCHANGED <<have_copy, is_copied, related_ins, bus, sync_time>>
      BY <2>3 DEF ForwardRequest, SpinOnRequest, RedirectRequest, modeVars
    <3>2. route[c] \in Node
      BY DEF TypeOK
    <3>3. CopyingCache(route[c], k, F) = Cache(route[c])
      BY <3>2, CopyingCacheIdle
    <3>4. PICK S \in FirstSync(route[c], Cache(route[c])) :
            Broadcast(route[c], Cache(route[c]), S)
      BY <3>1, <3>3 DEF Prelude
    <3> QED BY <3>1, <3>2, <3>4, StandsBroadcast
  <2> QED BY <2>1, <2>2, <2>3
<1>2. CASE Command
  BY <1>0, <1>2
  DEF Command, RunMode, HotGroupAdd, HotGroupDel, SetSlotCopying,
      SetSlotFincopy, Admin
<1>3. CASE Timer
  <2>1. ASSUME NEW n \in Node, updateCachedTime(n)
        PROVE  Stands'
    BY <2>1 DEF updateCachedTime, Stands, Grouped, Cached, flagVars, cacheVars, modeVars,
                netVars
  <2>2. ASSUME NEW n \in Node, clusterCron(n)
        PROVE  Stands'
    <3>1. PICK S \in Flushable(Cache(n)) : Broadcast(n, Cache(n), S)
      BY <2>2 DEF clusterCron, broadcastCommandInHotGroup
    <3>2. UNCHANGED <<have_copy, is_copied, related_ins, bus, sync_time>>
      BY <2>2 DEF clusterCron, flagVars, modeVars
    <3> QED BY <3>1, <3>2, StandsBroadcast
  <2> QED BY <1>3, <2>1, <2>2 DEF Timer
<1>4. CASE Deliver
  <2>1. ASSUME NEW s \in Node, NEW d \in Node, NEW k \in Key,
               ReceiveSync(s, d, k)
        PROVE  Stands'
    BY <2>1 DEF ReceiveSync, Stands, Grouped, Cached, flagVars, cacheVars, modeVars
  <2>2. ASSUME NEW s \in Node, NEW d \in Node, ReceiveHotGroup(s, d)
        PROVE  FALSE
    BY <2>2 DEF ReceiveHotGroup, Stands, Grouped
  <2> QED BY <1>4, <2>1, <2>2 DEF Deliver
<1>5. CASE Failure
  BY <1>0, <1>5 DEF Failure, LoseHotGroup, BreakConn, Restart, Fault
<1>6. CASE Copy
  BY <1>6 DEF Copy, MigrateCopy, Stands, Grouped, Cached, flagVars, cacheVars, modeVars,
              netVars
<1>7. CASE UNCHANGED vars
  BY <1>7 DEF vars, Stands, Grouped, Cached, flagVars, cacheVars, modeVars, netVars
<1> QED
  BY <1>1, <1>2, <1>3, <1>4, <1>5, <1>6, <1>7 DEF Next

-----------------------------------------------------------------------------
(* Values on their way.                                                    *)

Carries(op, v, f) == op.ver = v /\ f \in op.fields

\* The value of field f at s is at d, cached for it in op, or in queue q.
Reaches(st, s, d, k, f, q, op) ==
  LET v == st[s][k][f]
  IN \/ st[d][k][f] = v
     \/ Carries(op, v, f)
     \/ \E i \in 1..Len(q) : Carries(q[i], v, f)

Delivered(st, lnk, ops, s, k) ==
  \A d \in Node, f \in Field : Reaches(st, s, d, k, f, lnk[s][d][k], ops[k])

KeyDelivered(k) ==
  /\ writers[k] = {} => \A n, m \in Node : store[n][k] = store[m][k]
  /\ \A s \in Node : writers[k] = {s} /\ is_sync[s] =>
       Delivered(store, link, cached_op[s], s, k)

\* The inductive invariant.
DeliveryInv ==
  /\ Undisturbed => Stands
  /\ \A k \in Key : ~Over(k) => KeyDelivered(k)

\* The broadcast loop takes a command from the cache to all other nodes.
LEMMA DeliveredSend ==
  ASSUME NEW st, NEW lnk \in LinkType, NEW n \in Node, NEW cache \in CacheType,
         NEW S, NEW k \in Key, related_ins[n] = Node,
         \A d \in Node : conn[n][d] # "broken",
         Delivered(st, lnk, cache.ops, n, k)
  PROVE  Delivered(st, Sent(lnk, n, cache.ops, S), Flushed(cache, S).ops, n, k)
<1> DEFINE sent == Sent(lnk, n, cache.ops, S)
           left == Flushed(cache, S).ops
           op == cache.ops[k]
<1>1. SUFFICES ASSUME NEW d \in Node, NEW f \in Field
               PROVE  Reaches(st, n, d, k, f, sent[n][d][k], left[k])
  BY DEF Delivered
<1>2. CASE d = n
  BY <1>2 DEF Reaches
<1>3. CASE d # n
  <2> DEFINE q == lnk[n][d][k]
             v == st[n][k][f]
  <2>1. Reaches(st, n, d, k, f, q, op)
    BY DEF Delivered
  <2>2. q \in Seq(Op) /\ op \in Op
    BY DEF LinkType, CacheType
  <2>3. /\ left[k] = IF k \in S THEN NoOp ELSE op
        /\ sent[n][d][k] = IF k \in S THEN Append(q, op) ELSE q
    BY <1>3 DEF Flushed, Sent, Peers, LinkType
  <2> HIDE DEF q, op, sent, left, v
  <2>4. CASE k \notin S
    BY <2>1, <2>3, <2>4
  <2>5. CASE k \in S
    <3>1. /\ Len(Append(q, op)) = Len(q) + 1 /\ Len(q) \in Nat
          /\ \A i \in 1..Len(q) : Append(q, op)[i] = q[i]
          /\ Append(q, op)[Len(q) + 1] = op
      BY <2>2
    <3>2. 1..Len(q) \subseteq 1..(Len(q) + 1) /\ Len(q) + 1 \in 1..(Len(q) + 1)
      BY <3>1
    <3>3. \/ st[d][k][f] = v
          \/ \E i \in 1..Len(Append(q, op)) : Carries(Append(q, op)[i], v, f)
      BY <2>1, <3>1, <3>2 DEF Reaches, v
    <3> QED BY <2>3, <2>5, <3>3 DEF Reaches, v
  <2> QED BY <2>4, <2>5
<1> QED BY <1>2, <1>3

\* A write that is cached, and replaces none of other fields.
LEMMA DeliveredWrite ==
  ASSUME NEW st \in StoreSet, NEW lnk, NEW n \in Node, NEW ops, NEW ops2,
         NEW k \in Key, NEW op \in Op, op.fields = Field \/ ops[k] = NoOp,
         ops2[k] = op, Delivered(st, lnk, ops, n, k)
  PROVE  Delivered([st EXCEPT ![n][k] = Apply(st[n][k], op)], lnk, ops2, n, k)
<1> DEFINE st2 == [st EXCEPT ![n][k] = Apply(st[n][k], op)]
<1>1. SUFFICES ASSUME NEW d \in Node, NEW f \in Field
               PROVE  Reaches(st2, n, d, k, f, lnk[n][d][k], ops2[k])
  BY DEF Delivered
<1>2. st2[n][k][f] = IF f \in op.fields THEN op.ver ELSE st[n][k][f]
  BY DEF StoreSet, Apply
<1>3. d # n => st2[d][k] = st[d][k]
  BY DEF StoreSet
<1> HIDE DEF st2
<1>4. CASE d = n
  BY <1>4 DEF Reaches
<1>5. CASE f \in op.fields
  BY <1>2, <1>5 DEF Reaches, Carries
<1>6. CASE d # n /\ f \notin op.fields
  <2>1. ops[k] = NoOp /\ Reaches(st, n, d, k, f, lnk[n][d][k], ops[k])
    BY <1>6 DEF Delivered
  <2>2. ~Carries(NoOp, st[n][k][f], f)
    BY DEF Carries, NoOp
  <2> QED BY <1>2, <1>3, <1>6, <2>1, <2>2 DEF Reaches
<1> QED BY <1>4, <1>5, <1>6

-----------------------------------------------------------------------------
(* Steps that keep the invariant of a key.                                 *)

\* A row of one key depends on what concerns the key.
LEMMA DeliveredSame ==
  ASSUME NEW st, NEW st2, NEW lnk, NEW lnk2, NEW ops, NEW ops2,
         NEW n \in Node, NEW k \in Key, Delivered(st, lnk, ops, n, k),
         ops2[k] = ops[k], \A d \in Node : lnk2[n][d][k] = lnk[n][d][k],
         \A m \in Node : st2[m][k] = st[m][k]
  PROVE  Delivered(st2, lnk2, ops2, n, k)
BY DEF Delivered, Reaches

\* A step that does not concern the key.
LEMMA DeliveredFrame ==
  ASSUME NEW k \in Key, KeyDelivered(k), UNCHANGED is_sync,
         writers'[k] = writers[k],
         \A n \in Node : /\ store'[n][k] = store[n][k]
                         /\ cached_op'[n][k] = cached_op[n][k]
                         /\ \A d \in Node : link'[n][d][k] = link[n][d][k]
  PROVE  KeyDelivered(k)'
<1>1. ASSUME NEW s \in Node, writers'[k] = {s}, is_sync'[s]
      PROVE  Delivered(store', link', cached_op'[s], s, k)
  <2>1. Delivered(store, link, cached_op[s], s, k)
    BY <1>1 DEF KeyDelivered
  <2>2. /\ cached_op'[s][k] = cached_op[s][k]
        /\ \A d \in Node : link'[s][d][k] = link[s][d][k]
        /\ \A m \in Node : store'[m][k] = store[m][k]
    OBVIOUS
  <2> QED BY <2>1, <2>2 DEF Delivered, Reaches
<1> QED BY <1>1 DEF KeyDelivered

\* A broadcast of what is cached.
LEMMA DeliveredBroadcast ==
  ASSUME TypeOK, Stands, NEW k \in Key, KeyDelivered(k), NEW n \in Node, NEW S,
         Broadcast(n, Cache(n), S), UNCHANGED <<store, writers, is_sync>>
  PROVE  KeyDelivered(k)'
<1>1. /\ link \in LinkType /\ Cache(n) \in CacheType
      /\ Cache(n).ops = cached_op[n]
  BY CacheHasType DEF TypeOK, LinkType, Cache
<1>2. /\ cached_op' = [cached_op EXCEPT ![n] = Flushed(Cache(n), S).ops]
      /\ link' = Sent(link, n, Cache(n).ops, S)
  BY DEF Broadcast, SetCache
<1>3. ASSUME NEW s \in Node, writers'[k] = {s}, is_sync'[s]
      PROVE  Delivered(store', link', cached_op'[s], s, k)
  <2>1. Delivered(store, link, cached_op[s], s, k)
    BY <1>3 DEF KeyDelivered
  <2>2. CASE s = n
    <3>1. related_ins[n] = Node /\ \A d \in Node : conn[n][d] # "broken"
      BY DEF Stands, Grouped
    <3>2. Delivered(store, link, Cache(n).ops, n, k)
      BY <1>1, <2>1, <2>2
    <3>3. Delivered(store, Sent(link, n, Cache(n).ops, S),
                    Flushed(Cache(n), S).ops, n, k)
      BY <1>1, <3>1, <3>2, DeliveredSend
    <3>4. cached_op'[n] = Flushed(Cache(n), S).ops
      BY <1>2 DEF TypeOK
    <3> QED BY <1>2, <2>2, <3>3, <3>4
  <2>3. CASE s # n
    <3>1. link'[s] = link[s]
      BY <1>1, <1>2, <2>3, SentElsewhere
    <3>2. cached_op'[s] = cached_op[s]
      BY <1>2, <2>3 DEF TypeOK
    <3> QED BY <2>1, <3>1, <3>2, DeliveredSame
  <2> QED BY <2>2, <2>3
<1> QED BY <1>3 DEF KeyDelivered

\* A request that is served.
LEMMA DeliveredServe ==
  ASSUME TypeOK, NeverCopyingWithCopy, Stands, NEW c \in Client, NEW k \in Key,
         NEW F \in WriteSets \cup {{}}, ServeRequest(c, k, F), faults' = faults,
         NEW j \in Key, KeyDelivered(j), \A x, y \in writers'[j] : x = y
  PROVE  KeyDelivered(j)'
<1> DEFINE n == route[c]
           op == NewOp(n, F)
           caches == InGroup(n, c) /\ IsWrite(F) /\ is_sync[n]
           cache == Cache(n)
<1>0. n \in Node
  BY DEF TypeOK
<1>1. PICK S1, full, S2 : Splits(c, k, F, S1, full, S2)
  BY ServeSplits
<1> DEFINE rest == Flushed(cache, S1)
           first == Sent(link, n, cached_op[n], S1)
<1>2. /\ rest \in CacheType /\ first \in LinkType /\ full \in CacheType
      /\ full = IF caches THEN addCmdToCache(rest, k, op) ELSE rest
      /\ cached_op' = [cached_op EXCEPT ![n] = Flushed(full, S2).ops]
      /\ link' = Sent(first, n, full.ops, S2)
  BY <1>1 DEF Splits
<1>3. /\ link \in LinkType /\ cache \in CacheType /\ cache.ops = cached_op[n]
      /\ store \in StoreSet /\ op \in Op /\ op.fields = F
  <2>1. cache \in CacheType /\ op \in Op
    BY <1>0, CacheHasType, NewOpType
  <2>2. link \in LinkType /\ store \in StoreSet
    BY DEF TypeOK, LinkType, StoreSet
  <2> QED BY <2>1, <2>2 DEF Cache, NewOp
<1>4. related_ins[n] = Node /\ \A d \in Node : conn[n][d] # "broken"
  BY <1>0 DEF Stands, Grouped
<1>5. caches <=> IsWrite(F) /\ is_sync[n]
  BY <1>0, AllInGroup DEF Stands
<1>6. is_sync' = is_sync
  BY DEF ServeRequest, modeVars
<1>7. \/ ~IsWrite(F) /\ store' = store /\ writers' = writers
      \/ /\ IsWrite(F)
         /\ store' = [store EXCEPT ![n][k] = Apply(store[n][k], op)]
         /\ writers' = [writers EXCEPT ![k] = @ \cup {n}]
  <2>1. Execute(n, k, F)
    BY DEF ServeRequest
  <2>2. faults' # faults + 1
    BY DEF TypeOK
  <2> QED BY <2>1, <2>2 DEF Execute, histVars
<1>8. sync_time[n] /\ IsWrite(F) => F = Field
  <2>1. F \in WriteSets \/ ~IsWrite(F)
    BY DEF IsWrite
  <2> QED BY <1>0, <2>1 DEF Stands
<1>9. ~sync_time[n] => rest.ops[k] = NoOp
  BY <1>0, <1>3 DEF Stands, Cached, CachedKeys, Flushed
<1> HIDE DEF op, caches, cache, rest, n
<1>10. \A m \in Node : m # n => link'[m] = link[m] /\ cached_op'[m] = cached_op[m]
  <2>1. \A m \in Node : m # n => first[m] = link[m]
    BY <1>0, <1>3, SentElsewhere
  <2>2. \A m \in Node : m # n => cached_op'[m] = cached_op[m]
    BY <1>2 DEF TypeOK
  <2> HIDE DEF first
  <2>3. \A m \in Node : m # n => link'[m] = first[m]
    BY <1>0, <1>2, SentElsewhere
  <2> QED BY <2>1, <2>2, <2>3
<1>11. cached_op'[n] = Flushed(full, S2).ops
  BY <1>0, <1>2 DEF TypeOK
<1>12. ASSUME Delivered(store, link, cached_op[n], n, j)
       PROVE  Delivered(store, first, rest.ops, n, j)
  BY <1>0, <1>3, <1>4, <1>12, DeliveredSend DEF rest
<1> HIDE DEF first
<1>13. ASSUME NEW st, Delivered(st, first, full.ops, n, j)
       PROVE  Delivered(st, link', cached_op'[n], n, j)
  BY <1>0, <1>2, <1>4, <1>11, <1>13, DeliveredSend
<1>14. j # k \/ ~caches => full.ops[j] = rest.ops[j]
  BY <1>2 DEF addCmdToCache, CacheType
<1>15. ASSUME /\ \A m \in Node : store'[m][j] = store[m][j]
              /\ writers'[j] = writers[j]
              /\ j # k \/ ~caches
       PROVE  KeyDelivered(j)'
  <2>1. ASSUME NEW s \in Node, writers'[j] = {s}, is_sync'[s]
        PROVE  Delivered(store', link', cached_op'[s], s, j)
    <3>1. Delivered(store, link, cached_op[s], s, j)
      BY <1>6, <1>15, <2>1 DEF KeyDelivered
    <3>2. CASE s = n
      <4>1. Delivered(store, first, rest.ops, n, j)
        BY <1>12, <3>1, <3>2
      <4>2. Delivered(store', first, full.ops, n, j)
        BY <1>0, <1>14, <1>15, <4>1, DeliveredSame
      <4> QED BY <1>13, <3>2, <4>2
    <3>3. CASE s # n
      BY <1>10, <1>15, <3>1, <3>3, DeliveredSame
    <3> QED BY <3>2, <3>3
  <2>2. writers'[j] = {} => \A x, y \in Node : store'[x][j] = store'[y][j]
    BY <1>15 DEF KeyDelivered
  <2> QED BY <2>1, <2>2 DEF KeyDelivered
<1>16. CASE ~IsWrite(F)
  BY <1>5, <1>7, <1>15, <1>16
<1>17. CASE IsWrite(F) /\ j # k
  <2> DEFINE new == Apply(store[n][k], op)
  <2>1. /\ store' = [store EXCEPT ![n][k] = new]
        /\ writers' = [writers EXCEPT ![k] = @ \cup {n}]
    BY <1>7, <1>17
  <2> HIDE DEF new
  <2>2. \A m \in Node : store'[m][j] = store[m][j]
    BY <1>0, <1>3, <1>17, <2>1 DEF StoreSet
  <2>3. writers'[j] = writers[j]
    BY <1>17, <2>1 DEF TypeOK
  <2> QED BY <1>15, <1>17, <2>2, <2>3
<1>18. CASE IsWrite(F) /\ j = k
  <2>1. n \in writers'[k] /\ writers[k] \subseteq {n} /\ writers'[k] # {}
    <3>1. writers'[k] = writers[k] \cup {n}
      BY <1>7, <1>18 DEF TypeOK
    <3>2. \A x \in writers[k] : x = n
      BY <1>18, <3>1
    <3> QED BY <3>1, <3>2
  <2>2. ASSUME NEW s \in Node, writers'[k] = {s}, is_sync'[s]
        PROVE  Delivered(store', link', cached_op'[s], s, k)
    <3>1. s = n /\ is_sync[n] /\ caches
      BY <1>5, <1>6, <1>18, <2>1, <2>2
    <3>2. Delivered(store, link, cached_op[n], n, k)
      <4>1. CASE writers[k] = {}
        BY <1>0, <1>18, <4>1 DEF KeyDelivered, Delivered, Reaches
      <4>2. CASE writers[k] = {n}
        BY <1>0, <1>18, <3>1, <4>2 DEF KeyDelivered
      <4> QED BY <2>1, <4>1, <4>2
    <3>3. Delivered(store, first, rest.ops, n, k)
      BY <1>12, <1>18, <3>2
    <3>4. full.ops[k] = op
      BY <1>2, <3>1 DEF addCmdToCache, CacheType
    <3>5. op.fields = Field \/ rest.ops[k] = NoOp
      BY <1>3, <1>8, <1>9, <1>18
    <3>6. Delivered([store EXCEPT ![n][k] = Apply(store[n][k], op)],
                    first, full.ops, n, k)
      BY <1>0, <1>3, <3>3, <3>4, <3>5, DeliveredWrite
    <3>7. Delivered(store', first, full.ops, n, k)
      BY <1>7, <1>18, <3>6
    <3> QED BY <1>13, <1>18, <3>1, <3>7
  <2> QED BY <1>18, <2>1, <2>2 DEF KeyDelivered
<1> QED BY <1>16, <1>17, <1>18

\* A sync command that is applied: it carries the value of a field, or the
\* value is neither there yet nor lost with it.
LEMMA DeliveredReceive ==
  ASSUME TypeOK, OriginInv, NEW s \in Node, NEW d \in Node, NEW k \in Key,
         ReceiveSync(s, d, k), faults' = faults, KeyKept(k), KeyDelivered(k),
         \A x, y \in writers[k] : x = y
  PROVE  KeyDelivered(k)'
<1> DEFINE q == link[s][d][k]
           op == Head(q)
<1>1. /\ s # d /\ s \in writers[k]
      /\ store' = [store EXCEPT ![d][k] = Apply(store[d][k], op)]
      /\ op \in Op /\ Pending(store, s, d, k, op)
  BY KeptReceive
<1>2. /\ q \in Seq(Op) /\ q # <<>>
      /\ link' = [link EXCEPT ![s][d][k] = Tail(q)]
      /\ UNCHANGED <<cached_op, writers, is_sync>>
  BY DEF ReceiveSync, TypeOK, cacheVars, histVars, modeVars
<1> HIDE DEF q, op
<1>3. /\ Len(q) \in Nat /\ Len(q) > 0 /\ op = q[1]
      /\ Len(Tail(q)) = Len(q) - 1
      /\ \A i \in 1..(Len(q) - 1) : Tail(q)[i] = q[i + 1]
  BY <1>2 DEF op
<1>4. /\ \A m \in Node : m # d => store'[m][k] = store[m][k]
      /\ \A f \in Field : store'[d][k][f] = IF f \in op.fields THEN op.ver
                                                          ELSE store[d][k][f]
  BY <1>1 DEF TypeOK, Apply
<1>5. ASSUME NEW e \in Node
      PROVE  link'[s][e][k] = IF e = d THEN Tail(q) ELSE link[s][e][k]
  <2> DEFINE rest == Tail(q)
             Queue == Seq(Op)
  <2>1. /\ link' = [link EXCEPT ![s][d][k] = rest]
        /\ link \in [Node -> [Node -> [Key -> Queue]]]
    BY <1>2 DEF TypeOK
  <2> HIDE DEF rest, Queue
  <2>2. link'[s][e][k] = IF e = d THEN rest ELSE link[s][e][k]
    BY <2>1
  <2> QED BY <2>2 DEF rest
<1>6. ASSUME is_sync[s], NEW e \in Node, NEW f \in Field
      PROVE  Reaches(store', s, e, k, f, link'[s][e][k], cached_op'[s][k])
  <2> DEFINE v == store[s][k][f]
             cached == cached_op[s][k]
  <2>1. writers[k] = {s}
    BY <1>1
  <2>2. Reaches(store, s, e, k, f, link[s][e][k], cached)
    BY <1>6, <2>1 DEF KeyDelivered, Delivered
  <2>3. store'[s][k][f] = v
    BY <1>1, <1>4
  <2>4. cached_op'[s][k] = cached
    BY <1>2
  <2> HIDE DEF v, cached
  <2>5. CASE e # d
    <3>1. store'[e][k][f] = store[e][k][f] /\ link'[s][e][k] = link[s][e][k]
      BY <1>4, <1>5, <2>5
    <3> QED BY <2>2, <2>3, <2>4, <3>1 DEF Reaches, v
  <2>6. CASE e = d
    <3>1. SUFFICES \/ store'[d][k][f] = v
                   \/ Carries(cached, v, f)
                   \/ \E i \in 1..Len(Tail(q)) : Carries(Tail(q)[i], v, f)
      BY <1>5, <2>3, <2>4, <2>6 DEF Reaches
    <3>2. \/ store[d][k][f] = v
          \/ Carries(cached, v, f)
          \/ \E i \in 1..Len(q) : Carries(q[i], v, f)
      BY <2>2, <2>6 DEF Reaches, v, q
    <3>3. CASE store[d][k][f] = v
      <4>1. v \in Nat /\ op.ver \in Nat
        BY <1>1 DEF TypeOK, Op, v
      <4>2. f \notin op.fields
        BY <1>1, <3>3, <4>1 DEF Pending, v
      <4> QED BY <1>4, <3>3, <4>2
    <3>4. ASSUME NEW i \in 1..Len(q), Carries(q[i], v, f)
          PROVE  \/ store'[d][k][f] = v
                 \/ \E x \in 1..Len(Tail(q)) : Carries(Tail(q)[x], v, f)
      <4>1. CASE i = 1
        BY <1>3, <1>4, <3>4, <4>1 DEF Carries
      <4>2. CASE i # 1
        <5>1. i - 1 \in 1..(Len(q) - 1) /\ (i - 1) + 1 = i
          BY <1>3, <4>2
        <5>2. Tail(q)[i - 1] = q[i]
          BY <1>3, <5>1
        <5> QED BY <1>3, <3>4, <5>1, <5>2
      <4> QED BY <4>1, <4>2
    <3> QED BY <3>2, <3>3, <3>4
  <2> QED BY <2>5, <2>6
<1>7. writers'[k] = writers[k] /\ is_sync' = is_sync
  BY <1>2
<1>8. writers'[k] # {}
  BY <1>1, <1>7
<1>9. ASSUME NEW n \in Node, writers'[k] = {n}, is_sync'[n]
      PROVE  Delivered(store', link', cached_op'[n], n, k)
  <2>1. n = s /\ is_sync[s]
    BY <1>1, <1>7, <1>9
  <2> QED BY <1>6, <2>1 DEF Delivered
<1> QED BY <1>8, <1>9 DEF KeyDelivered

-----------------------------------------------------------------------------
(* Every step keeps the invariant.                                         *)

\* The invariant is kept by a step that keeps it of the keys whose promise is
\* not over after the step.
LEMMA DeliveryKept ==
  ASSUME TypeOK, NeverCopyingWithCopy, CacheCounted, DeliveryInv, [Next]_vars,
         \A k \in Key : ~Over(k)' => KeyDelivered(k)'
  PROVE  DeliveryInv'
<1>1. ASSUME Undisturbed'
      PROVE  Stands'
  <2>1. /\ admins' = admins \/ admins' = admins + 1
        /\ faults' = faults \/ faults' = faults + 1
        /\ admins \in Nat /\ faults \in Nat
    BY HistoryGrows DEF TypeOK
  <2>2. UNCHANGED <<admins, faults>> /\ Undisturbed
    BY <1>1, <2>1 DEF Undisturbed
  <2>3. Stands
    BY <2>2 DEF DeliveryInv
  <2> QED BY <2>2, <2>3, StandsKept
<1> QED BY <1>1 DEF DeliveryInv

\* What is known before a step of a key whose promise is not over after it.
LEMMA BeforeStep ==
  ASSUME TypeOK, PromiseInv, DeliveryInv, [Next]_vars, NEW k \in Key, ~Over(k)'
  PROVE  /\ Stands /\ KeyDelivered(k) /\ KeyKept(k) /\ ~Over(k)
         /\ UNCHANGED <<admins, faults>>
         /\ \A x, y \in writers'[k] : x = y
<1>1. ~Over(k)
  BY NotOverNext
<1>2. Undisturbed
  BY <1>1 DEF Over
<1> QED BY <1>1, <1>2, NotOverNext DEF DeliveryInv, PromiseInv

\* A broadcast of what is cached.
LEMMA DeliveryBroadcast ==
  ASSUME TypeOK, NeverCopyingWithCopy, CacheCounted, PromiseInv, DeliveryInv,
         [Next]_vars, NEW n \in Node, NEW S, Broadcast(n, Cache(n), S),
         UNCHANGED <<store, writers, is_sync>>
  PROVE  DeliveryInv'
<1>1. ASSUME NEW k \in Key, ~Over(k)'
      PROVE  KeyDelivered(k)'
  <2>1. Stands /\ KeyDelivered(k)
    BY <1>1, BeforeStep
  <2> QED BY <2>1, DeliveredBroadcast
<1> QED BY <1>1, DeliveryKept

\* Nothing the invariant speaks of changes.
LEMMA DeliveryIdle ==
  ASSUME TypeOK, NeverCopyingWithCopy, CacheCounted, PromiseInv, DeliveryInv,
         [Next]_vars, UNCHANGED <<store, cached_op, link, writers, is_sync>>
  PROVE  DeliveryInv'
<1>1. ASSUME NEW k \in Key, ~Over(k)'
      PROVE  KeyDelivered(k)'
  <2>1. KeyDelivered(k)
    BY <1>1, BeforeStep
  <2> QED BY <2>1, DeliveredFrame
<1> QED BY <1>1, DeliveryKept

\* A sync command is received.
LEMMA DeliveryReceive ==
  ASSUME TypeOK, NeverCopyingWithCopy, CacheCounted, OriginInv, PromiseInv,
         DeliveryInv, [Next]_vars, NEW s \in Node, NEW d \in Node, NEW k \in Key,
         ReceiveSync(s, d, k)
  PROVE  DeliveryInv'
<1>1. ASSUME NEW j \in Key, ~Over(j)'
      PROVE  KeyDelivered(j)'
  <2>1. /\ KeyDelivered(j) /\ KeyKept(j) /\ faults' = faults
        /\ \A x, y \in writers'[j] : x = y
    BY <1>1, BeforeStep
  <2>2. writers' = writers /\ is_sync' = is_sync /\ cached_op' = cached_op
    BY DEF ReceiveSync, histVars, modeVars, cacheVars
  <2>3. CASE j = k
    <3>1. \A x, y \in writers[k] : x = y
      BY <2>1, <2>2, <2>3
    <3> QED BY <2>1, <2>3, <3>1, DeliveredReceive
  <2>4. CASE j # k
    <3> DEFINE op == Head(link[s][d][k])
               rest == Tail(link[s][d][k])
               new == Apply(store[d][k], op)
               Queue == Seq(Op)
    <3>1. /\ link' = [link EXCEPT ![s][d][k] = rest]
          /\ link \in [Node -> [Node -> [Key -> Queue]]]
          /\ store' = store \/ store' = [store EXCEPT ![d][k] = new]
          /\ store \in StoreSet
      BY DEF ReceiveSync, TypeOK, StoreSet
    <3> HIDE DEF rest, new, Queue
    <3>2. \A n \in Node : store'[n][j] = store[n][j]
      <4>1. CASE store' = store
        BY <4>1
      <4>2. CASE store' = [store EXCEPT ![d][k] = new]
        BY <2>4, <3>1, <4>2 DEF StoreSet
      <4> QED BY <3>1, <4>1, <4>2
    <3>3. \A n, e \in Node : link'[n][e][j] = link[n][e][j]
      BY <2>4, <3>1
    <3> QED BY <2>1, <2>2, <3>2, <3>3, DeliveredFrame
  <2> QED BY <2>3, <2>4
<1> QED BY <1>1, DeliveryKept

\* No copy is made of a key that exists everywhere.
LEMMA DeliveryCopy ==
  ASSUME TypeOK, NeverCopyingWithCopy, CacheCounted, PromiseInv, DeliveryInv,
         [Next]_vars, NEW s \in Node, NEW d \in Node, NEW k \in Key,
         MigrateCopy(s, d, k)
  PROVE  DeliveryInv'
<1>1. /\ store[s][k] # NoHash /\ store[d][k] = NoHash
      /\ store' = [store EXCEPT ![d][k] = store[s][k]]
      /\ UNCHANGED <<cached_op, link, writers, is_sync>>
  BY DEF MigrateCopy, Exists, cacheVars, netVars, histVars, modeVars
<1>2. PICK f \in Field : store[s][k][f] # 0
  <2>1. store[s][k] \in [Field -> Nat]
    BY DEF TypeOK
  <2> QED BY <1>1, <2>1 DEF NoHash
<1>3. store[d][k][f] = 0
  BY <1>1 DEF NoHash
<1>4. Over(k)
  BY <1>3 DEF PromiseInv, KeyKept
<1>5. ASSUME NEW j \in Key, ~Over(j)'
      PROVE  KeyDelivered(j)'
  <2>1. KeyDelivered(j) /\ j # k
    BY <1>4, <1>5, BeforeStep
  <2>2. \A n \in Node : store'[n][j] = store[n][j]
    BY <1>1, <2>1 DEF TypeOK
  <2> QED BY <1>1, <2>1, <2>2, DeliveredFrame
<1> QED BY <1>5, DeliveryKept

LEMMA DeliveryStep ==
  ASSUME TypeOK, NeverCopyingWithCopy, CacheCounted, OriginInv, PromiseInv,
         DeliveryInv, [Next]_vars
  PROVE  DeliveryInv'
<1>1. CASE Request
  <2>1. PICK c \in Client, k \in Key, F \in WriteSets \cup {{}} :
          \/ ForwardRequest(c, k, F)
          \/ SpinOnRequest(c, k, F)
          \/ RedirectRequest(c, k, F)
          \/ ServeRequest(c, k, F)
    BY <1>1 DEF Request
  <2>2. CASE ServeRequest(c, k, F)
    <3>1. ASSUME NEW j \in Key, ~Over(j)'
          PROVE  KeyDelivered(j)'
      <4>1. /\ Stands /\ KeyDelivered(j) /\ faults' = faults
            /\ \A x, y \in writers'[j] : x = y
        BY <3>1, BeforeStep
      <4> QED BY <2>2, <4>1, DeliveredServe
    <3> QED BY <3>1, DeliveryKept
  <2>3. CASE /\ Prelude(route[c], k, F)
             /\ UNCHANGED <<store, writers, is_sync>>
    <3>1. route[c] \in Node
      BY DEF TypeOK
    <3>2. CopyingCache(route[c], k, F) = Cache(route[c])
      BY <3>1, CopyingCacheIdle
    <3>3. PICK S \in FirstSync(route[c], Cache(route[c])) :
            Broadcast(route[c], Cache(route[c]), S)
      BY <2>3, <3>2 DEF Prelude
    <3> QED BY <2>3, <3>1, <3>3, DeliveryBroadcast
  <2>4. CASE ForwardRequest(c, k, F)
    BY <2>3, <2>4 DEF ForwardRequest, histVars, modeVars
  <2>5. CASE SpinOnRequest(c, k, F)
    BY <2>3, <2>5 DEF SpinOnRequest, histVars, modeVars
  <2>6. CASE RedirectRequest(c, k, F)
    BY <2>3, <2>6 DEF RedirectRequest, histVars, modeVars
  <2> QED BY <2>1, <2>2, <2>4, <2>5, <2>6
<1>2. CASE Command \/ Failure
  <2>1. admins' = admins + 1 \/ faults' = faults + 1
    BY <1>2
    DEF Command, RunMode, HotGroupAdd, HotGroupDel, SetSlotCopying,
        SetSlotFincopy, Admin, Failure, LoseHotGroup, BreakConn, Restart, Fault
  <2>2. ~Undisturbed'
    <3>1. admins \in Nat /\ faults \in Nat
      BY DEF TypeOK
    <3> QED BY <2>1, <3>1 DEF Undisturbed
  <2>3. \A k \in Key : Over(k)'
    BY <2>2 DEF Over
  <2> QED BY <2>3, DeliveryKept
<1>3. CASE Timer
  <2>1. ASSUME NEW n \in Node, updateCachedTime(n)
        PROVE  DeliveryInv'
    BY <2>1, DeliveryIdle
    DEF updateCachedTime, cacheVars, netVars, histVars, modeVars
  <2>2. ASSUME NEW n \in Node, clusterCron(n)
        PROVE  DeliveryInv'
    <3>1. PICK S \in Flushable(Cache(n)) : Broadcast(n, Cache(n), S)
      BY <2>2 DEF clusterCron, broadcastCommandInHotGroup
    <3>2. UNCHANGED <<store, writers, is_sync>>
      BY <2>2 DEF clusterCron, histVars, modeVars
    <3> QED BY <3>1, <3>2, DeliveryBroadcast
  <2> QED BY <1>3, <2>1, <2>2 DEF Timer
<1>4. CASE Deliver
  <2>1. ASSUME NEW s \in Node, NEW d \in Node, ReceiveHotGroup(s, d)
        PROVE  DeliveryInv'
    BY <2>1, DeliveryIdle
    DEF ReceiveHotGroup, cacheVars, netVars, histVars, modeVars
  <2> QED BY <1>4, <2>1, DeliveryReceive DEF Deliver
<1>5. CASE Copy
  BY <1>5, DeliveryCopy DEF Copy
<1>6. CASE UNCHANGED vars
  BY <1>6, DeliveryIdle DEF vars, cacheVars, netVars, histVars, modeVars
<1> QED
  BY <1>1, <1>2, <1>3, <1>4, <1>5, <1>6 DEF Next

\* In an established group all copies are equal.
LEMMA InitDelivery ==
  ASSUME InitEstablished, NothingReplaced
  PROVE  DeliveryInv
<1>1. \A n, m \in Node, k \in Key : store[n][k] = store[m][k]
  BY DEF InitEstablished
<1>2. \A k \in Key : writers[k] = {}
  BY DEF InitEstablished, ServerInit
<1>3. \A k \in Key, s \in Node : writers[k] # {s}
  BY <1>2
<1>4. \A k \in Key : KeyDelivered(k)
  BY <1>1, <1>3 DEF KeyDelivered
<1> QED BY <1>4, InitStands DEF DeliveryInv

\* No value of a key that existed from the start is forgotten.
LEMMA DeliveryForgetsNothing ==
  ASSUME Stored = Key, DeliveryInv
  PROVE  NoLostUpdate
<1> SUFFICES ASSUME Undisturbed, NEW s \in Node, NEW d \in Node, NEW k \in Key,
                    NEW f \in Field, writers[k] = {s}, is_sync[s]
             PROVE  Reaches(store, s, d, k, f, link[s][d][k], cached_op[s][k])
  BY DEF NoLostUpdate, Arrives, Reaches, Carries
<1>1. ~Over(k)
  BY DEF Over
<1> QED BY <1>1 DEF DeliveryInv, KeyDelivered, Delivered

\* If nothing is under way either, all copies are equal.
LEMMA DeliveryConverges ==
  ASSUME Stored = Key, TypeOK, DeliveryInv
  PROVE  SingleWriterConverges
<1> SUFFICES ASSUME Undisturbed, NEW k \in Key, NEW s \in Node,
                    writers[k] = {s}, is_sync[s], Quiet(k), NEW d \in Node
             PROVE  store[d][k] = store[s][k]
  BY DEF SingleWriterConverges, Agree
<1>1. ~Over(k)
  BY DEF Over
<1>2. Delivered(store, link, cached_op[s], s, k)
  BY <1>1 DEF DeliveryInv, KeyDelivered
<1>3. ASSUME NEW f \in Field
      PROVE  store[d][k][f] = store[s][k][f]
  <2>1. Reaches(store, s, d, k, f, <<>>, NoOp)
    BY <1>2 DEF Delivered, Quiet
  <2>2. 1..Len(<<>>) = {}
    OBVIOUS
  <2>3. ~Carries(NoOp, store[s][k][f], f)
    BY DEF Carries, NoOp
  <2> QED BY <2>1, <2>2, <2>3 DEF Reaches
<1>4. /\ store[d][k] \in [Field -> Nat]
      /\ store[s][k] \in [Field -> Nat]
  BY DEF TypeOK
<1> QED BY <1>3, <1>4

LEMMA DeliveryHolds ==
  ASSUME NothingReplaced
  PROVE  EstablishedSpec => []DeliveryInv /\ []TypeOK
<1>1. InitEstablished => OriginInv /\ PromiseInv /\ DeliveryInv
  BY InitAllowed, InitDelivery
<1>2. /\ TypeOK /\ NeverCopyingWithCopy /\ CacheCounted
      /\ OriginInv /\ PromiseInv /\ DeliveryInv /\ [Next]_vars
      => OriginInv' /\ PromiseInv' /\ DeliveryInv'
  BY OriginStep, AllowedStep, DeliveryStep DEF Allowed
<1>3. EstablishedSpec => []TypeOK /\ []NeverCopyingWithCopy /\ []CacheCounted
  BY TypeCorrect, CopyBranchIsDead, CounterCovers
<1> QED
  BY <1>1, <1>2, <1>3, PTL DEF EstablishedSpec

\* An undisturbed group forgets no update of a key with one writer, whatever
\* the number of nodes, clients and keys and the interleaving, if the keys
\* existed when the group was made and a node that defers its broadcasts writes
\* whole records: without the latter the run lost_field finds a field lost.
THEOREM NothingIsForgotten ==
  ASSUME Stored = Key, NothingReplaced
  PROVE  EstablishedSpec => []NoLostUpdate
<1>1. DeliveryInv => NoLostUpdate
  BY DeliveryForgetsNothing
<1> QED BY <1>1, DeliveryHolds, PTL

\* Under the same assumptions the copies of a key with one writer are equal
\* whenever nothing of the key is cached or under way.
THEOREM SingleWritersConverge ==
  ASSUME Stored = Key, NothingReplaced
  PROVE  EstablishedSpec => []SingleWriterConverges
<1>1. TypeOK /\ DeliveryInv => SingleWriterConverges
  BY DeliveryConverges
<1> QED BY <1>1, DeliveryHolds, PTL

-----------------------------------------------------------------------------
(* Forwarding.                                                             *)

\* In a group nobody left, a copy sends no client back.
LEMMA OnlyOwnerForwards ==
  ASSUME TypeOK, Grouped, [Next]_vars, NEW c \in Client,
         route'[c] # route[c]
  PROVE  route[c] = Owner /\ ~no_forward[c][Owner]
<1>1. CASE Request
  <2>1. PICK b \in Client, k \in Key, F \in WriteSets \cup {{}} :
          \/ ForwardRequest(b, k, F)
          \/ SpinOnRequest(b, k, F)
          \/ RedirectRequest(b, k, F)
          \/ ServeRequest(b, k, F)
    BY <1>1 DEF Request
  <2>2. ~SpinOnRequest(b, k, F) /\ ~ServeRequest(b, k, F)
    BY DEF SpinOnRequest, ServeRequest, clientVars
  <2>3. ~RedirectRequest(b, k, F)
    <3>1. route[b] \in Node
      BY DEF TypeOK
    <3> QED BY <3>1, AllInGroup DEF RedirectRequest
  <2>4. ForwardRequest(b, k, F)
    BY <2>1, <2>2, <2>3
  <2>5. PICK m \in Node : route' = [route EXCEPT ![b] = m]
    <3>1. route[b] \in Node
      BY DEF TypeOK
    <3>2. getForwardAim(route[b]) \subseteq Node
      BY <3>1 DEF getForwardAim, Peers, TypeOK
    <3>3. PICK m \in getForwardAim(route[b]) \ {route[b]} :
            route' = [route EXCEPT ![b] = m]
      BY <2>4 DEF ForwardRequest
    <3> QED BY <3>2, <3>3
  <2>6. b = c
    BY <2>5 DEF TypeOK
  <2> QED BY <2>4, <2>6 DEF ForwardRequest, Forwards
<1>2. CASE Command \/ Timer
  <2>1. route' = route
    BY <1>2
    DEF Command, RunMode, HotGroupAdd, HotGroupDel, SetSlotCopying,
        SetSlotFincopy, Timer, updateCachedTime, clusterCron, clientVars
  <2> QED BY <2>1
<1>3. CASE Deliver \/ Failure \/ Copy
  <2>1. route' = route
    BY <1>3
    DEF Deliver, ReceiveSync, ReceiveHotGroup, Failure, LoseHotGroup, BreakConn,
        Restart, Copy, MigrateCopy, clientVars
  <2> QED BY <2>1
<1>4. CASE UNCHANGED vars
  BY <1>4 DEF vars, clientVars
<1> QED BY <1>1, <1>2, <1>3, <1>4 DEF Next

\* In an undisturbed group a client is sent away by the owner only, and not
\* once the owner kept it, for any number of members and clients, with both
\* ways to draw the aim, and whatever the nodes sync with.
THEOREM ForwardsOnce == EstablishedSpec => ForwardedOnce
<1> DEFINE Inv == Undisturbed => Grouped
<1>1. InitEstablished => Inv
  BY InitGrouped
<1>2. TypeOK /\ Inv /\ [Next]_vars => Inv'
  <2> SUFFICES ASSUME TypeOK, Inv, [Next]_vars, Undisturbed'
               PROVE  Grouped'
    OBVIOUS
  <2>1. /\ admins' = admins \/ admins' = admins + 1
        /\ faults' = faults \/ faults' = faults + 1
        /\ admins \in Nat /\ faults \in Nat
    BY HistoryGrows DEF TypeOK
  <2>2. UNCHANGED <<admins, faults>> /\ Undisturbed
    BY <2>1 DEF Undisturbed
  <2> QED BY <2>2, GroupedKept
<1>3. TypeOK /\ Inv /\ [Next]_vars =>
        [\A c \in Client :
           Undisturbed /\ route'[c] # route[c] =>
             route[c] = Owner /\ ~no_forward[c][Owner]]_vars
  <2> SUFFICES ASSUME TypeOK, Inv, [Next]_vars, Undisturbed,
                      NEW c \in Client, route'[c] # route[c]
               PROVE  route[c] = Owner /\ ~no_forward[c][Owner]
    OBVIOUS
  <2> QED BY OnlyOwnerForwards
<1> QED
  BY <1>1, <1>2, <1>3, TypeCorrect, PTL DEF EstablishedSpec, ForwardedOnce
=============================================================================
