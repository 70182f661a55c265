-------------------------- MODULE CopyOneSlotProofs --------------------------
(***************************************************************************)
(* The safety invariants of CopyOneSlot, proved for any number of nodes,   *)
(* targets, keys, clients and pages.                                       *)
(***************************************************************************)
EXTENDS CopyOneSlot, HotSlotProofs, WellFoundedInduction

-----------------------------------------------------------------------------
(* The inductive invariant.                                                *)

Receivers == {Targets[i] : i \in 1..Len(Targets)}
Members == {Owner} \cup Receivers
Queued == {queue[i] : i \in 1..Len(queue)}
AtPage == cli \in {"migrate", "digest", "compare", "replace"}
Working == cli = "list" \/ AtPage

\* Where the script is, and what it holds there.
ManagerOK ==
  /\ cli \in {"group", "list", "migrate", "digest", "compare", "replace", "done"}
  /\ queue \in Seq(Members)
  /\ cli # "group" => queue \in Seq(Receivers)
  /\ AtPage => queue # <<>>
  /\ offset \in Nat
  /\ cli = "group" => offset = 0
  /\ dirty \subseteq Key

\* The servers run in the modes they start with, and only FINCOPY, the last
\* command of the script, gives the owner a copy.
Flags ==
  /\ \A n \in Node :
       /\ is_sync[n] /\ ~sync_time[n] /\ sync_0X[n] = {} /\ ~forward_time[n]
       /\ have_copy[n] => n = Owner /\ cli = "done"
       /\ n # Owner => ~is_copying[n]
  /\ cli = "done" => have_copy[Owner] /\ is_copied[Owner] /\ ~is_copying[Owner]
  /\ cli # "done" =>
       \A c \in Client : route[c] = Owner /\ \A n \in Node : ~no_forward[c][n]

\* Only the instances of the copy are announced, all of them before COPYING.
Grouping ==
  /\ \A n \in Node : related_ins[n] \subseteq Members
  /\ \A s, d \in Node :
       /\ bus[s][d] \in Seq({1})
       /\ bus[s][d] # <<>> => s \in Members
  /\ \A m \in Members : m \in related_ins[m] \/ (cli = "group" /\ m \in Queued)
  /\ Owner \in related_ins[Owner] =>
       \A d \in Node \ {Owner} : is_copied[d] \/ bus[Owner][d] # <<>>

NothingCached == \A n \in Node, k \in Key : cached_op[n][k] = NoOp
Unbroken == \A s, d \in Node : conn[s][d] # "broken"

\* A write is sent at once, by the node that executed it, and none before the
\* copy is done.
Traffic ==
  /\ NothingCached
  /\ Unbroken
  /\ \A s, d \in Node, k \in Key :
       /\ link[s][d][k] # <<>> =>
            s # d /\ s \in writers[k] /\ d \in Members /\ cli = "done"
       /\ \A i \in 1..Len(link[s][d][k]) : link[s][d][k][i].ver \in 1..writes
  /\ \A k \in Key :
       /\ IsFiniteSet(writers[k])
       /\ cli # "done" => writers[k] \subseteq {Owner}

\* Who may have keys, and how new they are.
Values ==
  /\ \A n \in Node, k \in Key, f \in Field : store[n][k][f] <= writes
  /\ \A n \in Node, k \in Key :
       n \notin Members \/ (cli = "group" /\ n # Owner) => ~Exists(n, k)
  /\ \A k \in Stored : Exists(Owner, k)

\* The state of the cluster as far as the script determines it.
Setup == ManagerOK /\ Flags /\ Grouping /\ Traffic /\ Values

-----------------------------------------------------------------------------
(* What a request does while nothing is cached.                            *)

\* Nothing was cached, so there is nothing to broadcast.
LEMMA IdleFlush ==
  ASSUME TypeOK, NothingCached, NEW n \in Node
  PROVE  /\ Flushable(Cache(n)) = {{}}
         /\ Flushed(Cache(n), {}) = Cache(n)
<1>1. CachedKeys(Cache(n).ops) = {}
  BY DEF NothingCached, CachedKeys, Cache
<1>2. Cache(n) \in CacheType
  BY CacheHasType
<1>3. Cache(n).size \in Nat
  BY <1>2 DEF CacheType
<1>4. Flushable(Cache(n)) = {{}}
  BY <1>1, <1>3, FS_EmptySet DEF Flushable
<1> QED
  BY <1>2, <1>4, FlushedNothing

\* A broadcast of no key sends nothing and opens no connection.
LEMMA SentNothing ==
  ASSUME NEW lnk \in LinkType, NEW n \in Node, NEW ops, TypeOK
  PROVE  /\ Sent(lnk, n, ops, {}) = lnk
         /\ Connected(n, {}) = conn
<1>1. Sent(lnk, n, ops, {}) = lnk
  <2>1. lnk[n] = [d \in Node |-> [k \in Key |-> lnk[n][d][k]]]
    BY DEF LinkType
  <2>2. Sent(lnk, n, ops, {}) = [lnk EXCEPT ![n] = lnk[n]]
    BY <2>1 DEF Sent
  <2> QED BY <2>2 DEF LinkType
<1>2. Connected(n, {}) = conn
  BY DEF Connected, TypeOK
<1> QED BY <1>1, <1>2

\* No node is copying and has a copy at once, so a request finds the cache as
\* it is.
LEMMA IdleCopying ==
  ASSUME Flags, NEW n \in Node, NEW k \in Key, NEW F
  PROVE  CopyingCache(n, k, F) = Cache(n)
BY DEF Flags, CopyingCache

\* The part every request goes through changes no cache and no connection.
LEMMA IdlePrelude ==
  ASSUME TypeOK, Flags, NothingCached, NEW n \in Node, NEW k \in Key,
         NEW F, Prelude(n, k, F)
  PROVE  UNCHANGED <<cached_op, link, conn>>
<1>1. CopyingCache(n, k, F) = Cache(n)
  BY IdleCopying
<1>2. PICK S \in FirstSync(n, Cache(n)) : Broadcast(n, Cache(n), S)
  BY <1>1 DEF Prelude
<1>3. S = {} /\ Flushed(Cache(n), S) = Cache(n)
  BY <1>2, IdleFlush DEF FirstSync
<1>4. link \in LinkType
  BY DEF TypeOK, LinkType
<1>5. /\ SetCache(n, Cache(n))
      /\ link' = Sent(link, n, Cache(n).ops, {})
      /\ conn' = Connected(n, {})
  BY <1>2, <1>3 DEF Broadcast
<1>6. cached_op' = cached_op
  BY <1>5 DEF SetCache, Cache, TypeOK
<1> QED
  BY <1>4, <1>5, <1>6, SentNothing

\* One command for key k is appended to the links from n to the nodes of D.
SentTo(n, D, k, op) ==
  \A s, d \in Node, j \in Key :
    link'[s][d][j] = IF s = n /\ d \in D /\ j = k THEN Append(link[s][d][j], op)
                                                 ELSE link[s][d][j]

\* A request that is served in the group is sent to the rest of the group if
\* it is a write, and leaves the cache as empty as it was.
LEMMA IdleServe ==
  ASSUME TypeOK, Flags, NothingCached, Unbroken, NEW c \in Client,
         NEW k \in Key, NEW F \in WriteSets \cup {{}}, ServeRequest(c, k, F)
  PROVE  /\ NothingCached' /\ Unbroken'
         /\ LET n == route[c]
            IN IF InGroup(n, c) /\ IsWrite(F)
               THEN SentTo(n, Peers(n), k, NewOp(n, F))
               ELSE link' = link
<1> DEFINE n == route[c]
           op == NewOp(n, F)
           caches == InGroup(n, c) /\ IsWrite(F)
           full == IF caches THEN addCmdToCache(Cache(n), k, op) ELSE Cache(n)
<1>0. n \in Node
  BY DEF TypeOK
<1>1. CopyingCache(n, k, F) = Cache(n) /\ is_sync[n] /\ ~sync_time[n]
  BY <1>0, IdleCopying DEF Flags
<1>2. FirstSync(n, Cache(n)) = {{}} /\ Flushed(Cache(n), {}) = Cache(n)
  BY <1>0, IdleFlush DEF FirstSync
<1>3. PICK S2 \in IF caches THEN Flushable(full) ELSE {{}} :
        /\ SetCache(n, Flushed(full, S2))
        /\ link' = Sent(Sent(link, n, Cache(n).ops, {}), n, full.ops, S2)
        /\ conn' = Connected(n, {} \cup S2)
  BY <1>1, <1>2 DEF ServeRequest
<1>4. link \in LinkType /\ conn \in ConnType /\ Cache(n) \in CacheType
      /\ op \in Op
  BY <1>0, CacheHasType, NewOpType DEF TypeOK, LinkType, ConnType
<1>5. link' = Sent(link, n, full.ops, S2)
  BY <1>0, <1>3, <1>4, SentNothing
<1>6. Unbroken'
  BY <1>3, <1>4, <1>0 DEF Unbroken, Connected, ConnType
<1>7. CASE ~caches
  <2>1. S2 = {} /\ full = Cache(n)
    BY <1>3, <1>7
  <2>2. cached_op' = cached_op
    BY <1>0, <1>2, <1>3, <2>1 DEF SetCache, Cache, TypeOK
  <2>3. link' = link
    BY <1>0, <1>4, <1>5, <2>1, SentNothing
  <2> QED BY <1>6, <1>7, <2>2, <2>3 DEF NothingCached
<1>8. CASE caches
  <2>1. full.ops = [cached_op[n] EXCEPT ![k] = op] /\ full.size = cache_op_size[n] + 1
    BY <1>8 DEF addCmdToCache, Cache
  <2>2. op # NoOp
    BY <1>4 DEF NewOp, NoOp, TypeOK
  <2>3. CachedKeys(full.ops) = {k}
    BY <1>0, <2>1, <2>2 DEF CachedKeys, NothingCached, TypeOK
  <2>4. cache_op_size[n] \in Nat /\ Cardinality({k}) = 1
    BY <1>0, FS_Singleton DEF TypeOK
  <2>5. Flushable(full) = {{k}}
    BY <2>1, <2>3, <2>4 DEF Flushable
  <2>6. S2 = {k}
    BY <1>3, <1>8, <2>5
  <2>7. cached_op'[n] = [j \in Key |-> IF j \in {k} THEN NoOp ELSE full.ops[j]]
    BY <1>0, <1>3, <2>6 DEF SetCache, Flushed, TypeOK
  <2>8. \A m \in Node \ {n} : cached_op'[m] = cached_op[m]
    BY <1>0, <1>3 DEF SetCache, TypeOK
  <2>9. NothingCached'
    <3> SUFFICES ASSUME NEW m \in Node, NEW j \in Key
                 PROVE  cached_op'[m][j] = NoOp
      BY DEF NothingCached
    <3>1. CASE m = n
      BY <3>1, <2>7, <2>1, <1>0 DEF NothingCached, TypeOK
    <3>2. CASE m # n
      BY <3>2, <2>8 DEF NothingCached
    <3> QED BY <3>1, <3>2
  <2>10. SentTo(n, Peers(n), k, op)
    <3>1. full.ops[k] = op
      BY <1>0, <2>1 DEF TypeOK
    <3>2. \A d \in Node : conn[n][d] # "broken"
      BY <1>0 DEF Unbroken
    <3> HIDE DEF full, op
    <3> QED
      BY <1>0, <1>4, <1>5, <2>6, <3>1, <3>2 DEF SentTo, Sent, LinkType
  <2> QED BY <1>6, <1>8, <2>9, <2>10
<1> QED BY <1>7, <1>8

\* What every request leaves alone while no server spins.
SetupKept ==
  UNCHANGED <<have_copy, is_copying, is_copied, related_ins, modeVars, bus,
              admins>>

\* The nodes a write of n is sent to.
Audience(n) == IF cli = "done" THEN Peers(n) ELSE {}

\* A write of the fields F of key k was executed at n, or refused there.
Wrote(n, k, F) ==
  /\ writes' = writes + 1
  /\ writers' = [writers EXCEPT ![k] = @ \cup {n}]
  /\ SentTo(n, Audience(n), k, NewOp(n, F))
  /\ \/ /\ store' = [store EXCEPT ![n][k] = Apply(@, NewOp(n, F))]
        /\ faults' = faults
     \/ /\ store' = store
        /\ faults' = faults + 1

\* Nothing was executed but a read.
NothingWritten == UNCHANGED <<store, link, writes, writers, faults>>

\* When the copy is done, a request the owner or a copy serves is served in the
\* group; before that only the owner serves, and for itself.
LEMMA ServedInGroup ==
  ASSUME TypeOK, Setup, NEW c \in Client, NEW k \in Key,
         NEW F \in WriteSets \cup {{}}, ServeRequest(c, k, F)
  PROVE  /\ route[c] \in Members
         /\ InGroup(route[c], c) <=> cli = "done"
         /\ cli # "done" => route[c] = Owner
<1> DEFINE n == route[c]
<1>1. n \in Node /\ (n = Owner \/ InGroup(n, c))
  BY DEF TypeOK, ServeRequest
<1>2. n \in Members
  BY <1>1 DEF InGroup, Setup, Grouping, Members
<1>3. CASE cli # "done"
  <2>1. n = Owner /\ ~no_forward[c][n] /\ ~have_copy[n]
    BY <1>1, <1>3 DEF Setup, Flags
  <2>2. ~InGroup(n, c)
    BY <2>1 DEF InGroup, Stays, Forwards
  <2> QED BY <1>2, <1>3, <2>1, <2>2
<1>4. CASE cli = "done"
  <2>1. CASE n # Owner
    BY <1>1, <1>2, <1>4, <2>1
  <2>2. CASE n = Owner
    <3>1. have_copy[n] /\ is_copied[n]
      BY <1>4, <2>2 DEF Setup, Flags
    <3>2. related_ins[n] # {}
      BY <1>4, <2>2 DEF Setup, Grouping, Members
    <3>3. Stays(n, c)
      BY <2>2, <3>1, <3>2 DEF Stays, Forwards, SyncsNow
    <3> QED BY <1>2, <1>4, <2>2, <3>1, <3>3 DEF InGroup
  <2> QED BY <2>1, <2>2
<1> QED BY <1>3, <1>4

\* A served request is a read or a write that goes to its audience.
LEMMA ServeEffect ==
  ASSUME TypeOK, Setup, NEW c \in Client, NEW k \in Key,
         NEW F \in WriteSets \cup {{}}, ServeRequest(c, k, F)
  PROVE  /\ SetupKept /\ NothingCached' /\ Unbroken'
         /\ cli # "done" =>
              /\ route' = route
              /\ \A b \in Client, n \in Node : ~no_forward'[b][n]
         /\ \/ NothingWritten
            \/ /\ F \in WriteSets /\ route[c] \in Members
               /\ cli # "done" => route[c] = Owner
               /\ Wrote(route[c], k, F)
<1> DEFINE n == route[c]
<1>1. SetupKept /\ route' = route
  BY DEF ServeRequest, SetupKept, modeVars
<1>2. /\ n \in Members
      /\ InGroup(n, c) <=> cli = "done"
      /\ cli # "done" => n = Owner
  BY ServedInGroup
<1>3. /\ NothingCached' /\ Unbroken'
      /\ IF InGroup(n, c) /\ IsWrite(F)
         THEN SentTo(n, Peers(n), k, NewOp(n, F))
         ELSE link' = link
  BY IdleServe DEF Setup, Traffic
<1>4. ASSUME cli # "done", NEW b \in Client, NEW m \in Node
      PROVE  ~no_forward'[b][m]
  <2>1. ~no_forward[b][m] /\ ~no_forward[c][n] /\ ~have_copy[n]
    BY <1>4, <1>2 DEF Setup, Flags, TypeOK
  <2>2. ~Stays(n, c)
    BY <2>1 DEF Stays, Forwards
  <2>3. no_forward' = [no_forward EXCEPT ![c][n] = Stays(n, c)]
    BY DEF ServeRequest
  <2> QED BY <2>1, <2>2, <2>3 DEF TypeOK
<1>5. Execute(n, k, F)
  BY DEF ServeRequest
<1>6. CASE ~IsWrite(F)
  <2>1. UNCHANGED <<store, histVars, faults>> /\ link' = link
    BY <1>3, <1>5, <1>6 DEF Execute
  <2> QED BY <1>1, <1>3, <1>4, <2>1 DEF NothingWritten, histVars
<1>7. CASE IsWrite(F)
  <2>1. F \in WriteSets
    BY <1>7 DEF IsWrite
  <2>2. SentTo(n, Audience(n), k, NewOp(n, F))
    <3>1. CASE cli = "done"
      BY <1>2, <1>3, <1>7, <3>1 DEF Audience
    <3>2. CASE cli # "done"
      BY <1>2, <1>3, <3>2 DEF Audience, SentTo
    <3> QED BY <3>1, <3>2
  <2>3. Wrote(n, k, F)
    BY <1>5, <1>7, <2>2 DEF Execute, Wrote
  <2> QED BY <1>1, <1>2, <1>3, <1>4, <2>1, <2>3
<1> QED BY <1>6, <1>7

\* A request that is not served changes the routes at most, and those only
\* when the copy is done: before that no node forwards, and the clients are at
\* the owner already.
LEMMA TurnedAwayEffect ==
  ASSUME TypeOK, Setup, NEW c \in Client, NEW k \in Key,
         NEW F \in WriteSets \cup {{}},
         \/ ForwardRequest(c, k, F)
         \/ SpinOnRequest(c, k, F)
         \/ RedirectRequest(c, k, F)
  PROVE  /\ SetupKept /\ NothingCached' /\ Unbroken'
         /\ cli # "done" =>
              /\ route' = route
              /\ \A b \in Client, n \in Node : ~no_forward'[b][n]
         /\ NothingWritten
<1> DEFINE n == route[c]
<1>0. n \in Node
  BY DEF TypeOK
<1>1. Prelude(n, k, F)
  BY DEF ForwardRequest, SpinOnRequest, RedirectRequest
<1>2. UNCHANGED <<cached_op, link, conn>>
  BY <1>0, <1>1, IdlePrelude DEF Setup, Traffic
<1>3. ~SpinOnRequest(c, k, F)
  BY <1>0 DEF SpinOnRequest, DrawsForever, Setup, Flags
<1>4. /\ UNCHANGED <<have_copy, is_copying, is_copied, related_ins, modeVars,
                     bus, admins, store, histVars, faults, no_forward>>
  BY <1>3 DEF ForwardRequest, RedirectRequest
<1>5. SetupKept /\ NothingWritten
  BY <1>2, <1>4 DEF SetupKept, NothingWritten, histVars
<1>6. NothingCached' /\ Unbroken'
  BY <1>2 DEF Setup, Traffic, NothingCached, Unbroken
<1>7. ASSUME cli # "done"
      PROVE  route' = route /\ \A b \in Client, m \in Node : ~no_forward'[b][m]
  <2>1. ~have_copy[n] /\ n = Owner
    BY <1>0, <1>7 DEF Setup, Flags
  <2>2. ~ForwardRequest(c, k, F)
    BY <2>1 DEF ForwardRequest, Forwards
  <2>3. ~RedirectRequest(c, k, F)
    BY <2>1 DEF RedirectRequest
  <2> QED BY <1>3, <2>2, <2>3
<1> QED BY <1>5, <1>6, <1>7

\* Any request.
LEMMA RequestEffect ==
  ASSUME TypeOK, Setup, Request
  PROVE  /\ SetupKept /\ NothingCached' /\ Unbroken'
         /\ cli # "done" =>
              /\ route' = route
              /\ \A b \in Client, n \in Node : ~no_forward'[b][n]
         /\ \/ NothingWritten
            \/ \E n \in Members, k \in Key, F \in WriteSets :
                 (cli # "done" => n = Owner) /\ Wrote(n, k, F)
<1>1. PICK c \in Client, k \in Key, F \in WriteSets \cup {{}} :
        \/ ForwardRequest(c, k, F)
        \/ SpinOnRequest(c, k, F)
        \/ RedirectRequest(c, k, F)
        \/ ServeRequest(c, k, F)
  BY DEF Request
<1>2. CASE ServeRequest(c, k, F)
  BY <1>2, ServeEffect
<1>3. CASE ~ServeRequest(c, k, F)
  BY <1>1, <1>3, TurnedAwayEffect
<1> QED BY <1>2, <1>3

-----------------------------------------------------------------------------
(* The steps of the script.                                                *)

\* The instances of the copy are nodes, and the owner is not copied to.
LEMMA MembersAreNodes ==
  /\ Members \subseteq Node
  /\ Receivers \subseteq Node \ {Owner}
  /\ Targets \in Seq(Receivers)
  /\ <<Owner>> \o Targets \in Seq(Members)
<1>1. Targets \in Seq(Node \ {Owner}) /\ Owner \in Node
  BY CopyAssumption, ConstantsAssumption
<1>2. Receivers \subseteq Node \ {Owner}
  BY <1>1 DEF Receivers
<1>3. Targets \in Seq(Receivers)
  BY <1>1 DEF Receivers
<1>4. <<Owner>> \o Targets \in Seq(Members)
  <2>1. Targets \in Seq(Members) /\ <<Owner>> \in Seq(Members)
    BY <1>3 DEF Members
  <2> QED BY <2>1
<1> QED
  BY <1>1, <1>2, <1>3, <1>4 DEF Members

\* The elements of a sequence are its first one and those of the rest.
LEMMA TailRange ==
  ASSUME NEW S, NEW q \in Seq(S), q # <<>>
  PROVE  /\ Head(q) \in S /\ Tail(q) \in Seq(S)
         /\ \A i \in 1..Len(q) :
              q[i] = Head(q) \/ \E j \in 1..Len(Tail(q)) : Tail(q)[j] = q[i]
         /\ \A j \in 1..Len(Tail(q)) : \E i \in 1..Len(q) : q[i] = Tail(q)[j]
<1>1. Len(q) \in Nat /\ Len(q) > 0 /\ Len(Tail(q)) = Len(q) - 1
  OBVIOUS
<1>2. \A j \in 1..Len(Tail(q)) : Tail(q)[j] = q[j + 1]
  BY <1>1
<1>3. ASSUME NEW i \in 1..Len(q), i # 1
      PROVE  \E j \in 1..Len(Tail(q)) : Tail(q)[j] = q[i]
  <2>1. i - 1 \in 1..Len(Tail(q)) /\ (i - 1) + 1 = i
    BY <1>1, <1>3
  <2> QED BY <1>2, <2>1
<1>4. Head(q) = q[1] /\ Head(q) \in S /\ Tail(q) \in Seq(S)
  OBVIOUS
<1>5. ASSUME NEW j \in 1..Len(Tail(q))
      PROVE  \E i \in 1..Len(q) : q[i] = Tail(q)[j]
  <2>1. j + 1 \in 1..Len(q)
    BY <1>1
  <2> QED BY <1>2, <2>1
<1> QED BY <1>3, <1>4, <1>5

\* What is still to be dealt with when the first instance is done.
LEMMA TailQueued ==
  ASSUME ManagerOK, queue # <<>>, queue' = Tail(queue)
  PROVE  /\ Head(queue) \in Members
         /\ cli # "group" => Head(queue) \in Receivers
         /\ queue' \in Seq(Members)
         /\ cli # "group" => queue' \in Seq(Receivers)
         /\ Queued \ {Head(queue)} \subseteq Queued'
         /\ Queued' \subseteq Queued
<1>1. queue \in Seq(Members) /\ (cli # "group" => queue \in Seq(Receivers))
  BY DEF ManagerOK
<1> QED
  BY <1>1, TailRange DEF Queued

\* Restoring keys at the target changes these keys only.
LEMMA RestoreEffect ==
  ASSUME TypeOK, NEW d \in Node, NEW S, Restore(d, S)
  PROVE  /\ \A n \in Node, k \in Key :
              store'[n][k] = IF n = d /\ k \in S THEN store[Owner][k]
                                                 ELSE store[n][k]
         /\ store' \in [Node -> [Key -> [Field -> Nat]]]
<1>1. store \in [Node -> [Key -> [Field -> Nat]]] /\ Owner \in Node
  BY ConstantsAssumption DEF TypeOK
<1>2. store' = [store EXCEPT ![d] = [k \in Key |->
                  IF k \in S THEN store[Owner][k] ELSE store[d][k]]]
  BY DEF Restore
<1> QED BY <1>1, <1>2

\* A step that restores keys of the page at the target.
RestoreStep ==
  /\ AtPage
  /\ \E S \in SUBSET Present : Restore(Head(queue), S)
  /\ \/ /\ faults' = faults
        /\ \/ cli = "migrate" /\ MigratePage
           \/ cli = "replace" /\ ReplacePage
     \/ (PageFails \/ PageBusy) /\ faults' = faults + 1
  /\ cli' \in {"list", "digest"}
  /\ dirty' = dirty

\* A step of redis-cli that asks and decides, and changes no server.
AskStep ==
  /\ ListPage \/ ReadDigest \/ ComparePage
  /\ UNCHANGED <<vars, dirty>>

\* A step of the servers and clients alone, or of the script alone.
LEMMA StepKinds ==
  ASSUME TypeOK, Setup, [CopyNext]_allVars
  PROVE  \/ SetHotSlot \/ StartCopy \/ EndCopy \/ AskStep \/ RestoreStep
         \/ ClientStep
         \/ \E n \in Node : updateCachedTime(n) /\ UNCHANGED cliVars
         \/ \E s, d \in Node, k \in Key : ReceiveSync(s, d, k) /\ UNCHANGED cliVars
         \/ \E s, d \in Node : ReceiveHotGroup(s, d) /\ UNCHANGED cliVars
         \/ UNCHANGED <<vars, cliVars>>
<1>1. CASE Manager
  <2>1. CASE ListPage \/ ReadDigest \/ ComparePage
    BY <2>1 DEF ListPage, ReadDigest, ComparePage, AskStep
  <2>2. CASE MigratePage
    <3>1. Restore(Head(queue), Present \ {k \in Present : Exists(Head(queue), k)})
      BY <2>2 DEF MigratePage
    <3>2. /\ cli = "migrate" /\ faults' = faults /\ dirty' = dirty
          /\ cli' \in {"list", "digest"}
      BY <2>2 DEF MigratePage, NextPage
    <3> QED BY <2>2, <3>1, <3>2 DEF RestoreStep, AtPage
  <2>3. CASE ReplacePage
    BY <2>3 DEF ReplacePage, NextPage, RestoreStep, AtPage
  <2>4. CASE PageFails
    <3>1. PICK S \in SUBSET Restorable(Head(queue)) : Restore(Head(queue), S)
      BY <2>4 DEF PageFails
    <3>2. S \in SUBSET Present
      BY <3>1 DEF Restorable
    <3> QED
      BY <2>4, <3>1, <3>2
      DEF PageFails, Fault, NextTarget, RestoreStep, AtPage
  <2>5. CASE PageBusy
    <3>1. PICK S \in SUBSET Restorable(Head(queue)) : Restore(Head(queue), S)
      BY <2>5 DEF PageBusy
    <3>2. S \in SUBSET Present
      BY <3>1 DEF Restorable
    <3> QED
      BY <2>5, <3>1, <3>2
      DEF PageBusy, Fault, RestoreStep, AtPage
  <2> QED BY <1>1, <2>1, <2>2, <2>3, <2>4, <2>5 DEF Manager
<1>2. CASE ServerStep
  <2>1. ASSUME NEW n \in Node
        PROVE  ~clusterCron(n)
    BY DEF clusterCron, Setup, Flags
  <2> QED BY <1>2, <2>1 DEF ServerStep, Timer, Deliver
<1>3. CASE UNCHANGED allVars
  BY <1>3 DEF allVars
<1> QED
  BY <1>1, <1>2, <1>3 DEF CopyNext

\* The steps of HotSlot among them.
LEMMA StepInHotSlot ==
  ASSUME TypeOK, Setup, [CopyNext]_allVars
  PROVE  [Next]_vars \/ RestoreStep
<1>1. CASE SetHotSlot
  <2>1. Head(queue) \in Node
    <3>1. queue # <<>> /\ queue' = Tail(queue)
      BY <1>1 DEF SetHotSlot
    <3> QED BY <3>1, TailQueued, MembersAreNodes DEF Setup
  <2> QED BY <1>1, <2>1 DEF SetHotSlot, Next, Command
<1>2. CASE StartCopy \/ EndCopy
  BY <1>2, ConstantsAssumption DEF StartCopy, EndCopy, Next, Command
<1>3. CASE ClientStep
  BY <1>3 DEF ClientStep, Next
<1>4. CASE AskStep \/ UNCHANGED <<vars, cliVars>>
  BY <1>4 DEF AskStep
<1> QED
  BY <1>1, <1>2, <1>3, <1>4, StepKinds DEF Next, Timer, Deliver

\* Types and the views of the group are kept, by the restored keys as well.
LEMMA BaseStep ==
  ASSUME TypeOK, MembershipInv, Setup, [CopyNext]_allVars
  PROVE  TypeOK' /\ MembershipInv'
<1>1. CASE [Next]_vars
  BY <1>1, TypeStep, MembershipStep
<1>2. CASE RestoreStep
  <2>1. queue # <<>> /\ queue \in Seq(Receivers)
    BY <1>2 DEF RestoreStep, Setup, ManagerOK, AtPage
  <2>2. Head(queue) \in Node
    BY <2>1, MembersAreNodes
  <2>3. PICK S : Restore(Head(queue), S)
    BY <1>2 DEF RestoreStep
  <2>4. store' \in [Node -> [Key -> [Field -> Nat]]]
    BY <2>2, <2>3, RestoreEffect
  <2>5. faults' \in Nat /\ (faults' = 0 => faults = 0)
    BY <1>2 DEF RestoreStep, TypeOK
  <2>6. UNCHANGED <<flagVars, related_ins, cacheVars, modeVars, ustime, spinning,
                    netVars, bus, clientVars, histVars, admins>>
    BY <2>3 DEF Restore
  <2>7. TypeOK'
    BY <2>4, <2>5, <2>6
    DEF TypeOK, flagVars, cacheVars, modeVars, netVars, clientVars, histVars
  <2>8. MembershipInv'
    BY <2>5, <2>6 DEF MembershipInv, NoOwnMessage, MembershipTracks
  <2> QED BY <2>7, <2>8
<1> QED BY <1>1, <1>2, StepInHotSlot

\* The script keeps to its order.
LEMMA ManagerStep ==
  ASSUME TypeOK, Setup, [CopyNext]_allVars
  PROVE  ManagerOK'
<1>0. ManagerOK
  BY DEF Setup
<1>1. CASE SetHotSlot
  <2>1. queue' \in Seq(Members)
    BY <1>0, <1>1, TailQueued DEF SetHotSlot
  <2> QED BY <1>0, <1>1, <2>1 DEF SetHotSlot, ManagerOK, AtPage
<1>2. CASE StartCopy
  <2>1. queue' \in Seq(Members) /\ queue' \in Seq(Receivers)
    BY <1>2, MembersAreNodes DEF StartCopy, Members
  <2> QED BY <1>0, <1>2, <2>1 DEF StartCopy, ManagerOK, AtPage
<1>3. CASE EndCopy
  BY <1>0, <1>3 DEF EndCopy, ManagerOK, AtPage
<1>4. ASSUME NextTarget, queue # <<>>, cli # "group", dirty' = dirty
      PROVE  ManagerOK'
  <2>1. queue' \in Seq(Members) /\ queue' \in Seq(Receivers)
    BY <1>0, <1>4, TailQueued DEF NextTarget
  <2> QED BY <1>0, <1>4, <2>1 DEF NextTarget, ManagerOK, AtPage
<1>5. CASE AskStep
  <2>1. CASE ListPage
    <3>1. CASE NextTarget
      BY <1>4, <1>5, <2>1, <3>1 DEF ListPage, AskStep
    <3>2. CASE ~NextTarget
      BY <1>0, <1>5, <2>1, <3>2, CopyAssumption
      DEF ListPage, AskStep, ManagerOK, AtPage
    <3> QED BY <3>1, <3>2
  <2>2. CASE ReadDigest
    BY <1>0, <2>2 DEF ReadDigest, ManagerOK, AtPage
  <2>3. CASE ComparePage
    <3>1. queue # <<>>
      BY <1>0, <2>3 DEF ComparePage, ManagerOK, AtPage
    <3>2. CASE NextTarget
      BY <1>4, <1>5, <2>3, <3>1, <3>2 DEF ComparePage, AskStep
    <3>3. CASE ~NextTarget
      BY <1>0, <2>3, <3>3 DEF ComparePage, ManagerOK, AtPage
    <3> QED BY <3>2, <3>3
  <2> QED BY <1>5, <2>1, <2>2, <2>3 DEF AskStep
<1>6. CASE RestoreStep
  <2>1. queue # <<>> /\ cli # "group" /\ dirty' = dirty
    BY <1>0, <1>6 DEF RestoreStep, AtPage, ManagerOK
  <2>2. CASE NextTarget
    BY <1>4, <2>1, <2>2
  <2>3. CASE ~NextTarget
    BY <1>0, <1>6, <2>1, <2>3
    DEF RestoreStep, MigratePage, ReplacePage, PageFails, PageBusy, NextPage,
        ManagerOK, AtPage
  <2> QED BY <2>2, <2>3
<1>7. CASE ClientStep
  BY <1>0, <1>7 DEF ClientStep, ManagerOK, AtPage
<1>8. CASE UNCHANGED cliVars
  BY <1>0, <1>8 DEF cliVars, ManagerOK, AtPage
<1> QED
  BY <1>1, <1>2, <1>3, <1>5, <1>6, <1>7, <1>8, StepKinds

-----------------------------------------------------------------------------
(* The setup of the cluster is kept.                                       *)

\* No step but FINCOPY gives a node a copy, and none changes the modes.
LEMMA FlagsStep ==
  ASSUME TypeOK, Setup, [CopyNext]_allVars
  PROVE  Flags'
<1>0. Flags
  BY DEF Setup
<1>1. CASE SetHotSlot
  BY <1>0, <1>1 DEF SetHotSlot, HotGroupAdd, Flags, flagVars, modeVars, clientVars
<1>2. CASE StartCopy
  BY <1>0, <1>2, ConstantsAssumption
  DEF StartCopy, SetSlotCopying, Flags, TypeOK, modeVars, clientVars
<1>3. CASE EndCopy
  BY <1>0, <1>3, ConstantsAssumption
  DEF EndCopy, SetSlotFincopy, Flags, TypeOK, modeVars, clientVars
<1>4. CASE AskStep
  <2>1. cli' # "done" /\ cli # "done"
    BY <1>4 DEF AskStep, ListPage, ReadDigest, ComparePage, NextTarget
  <2> QED
    BY <1>0, <1>4, <2>1 DEF AskStep, vars, Flags, flagVars, modeVars, clientVars
<1>5. CASE RestoreStep
  <2>1. cli' # "done" /\ cli # "done"
    BY <1>5 DEF RestoreStep, AtPage
  <2> QED
    BY <1>0, <1>5, <2>1
    DEF RestoreStep, Restore, Flags, flagVars, modeVars, clientVars
<1>6. CASE ClientStep
  <2>1. cli' = cli /\ Request
    BY <1>6 DEF ClientStep
  <2>2. /\ SetupKept
        /\ cli # "done" => /\ route' = route
                           /\ \A b \in Client, n \in Node : ~no_forward'[b][n]
    BY <2>1, RequestEffect
  <2> QED BY <1>0, <2>1, <2>2 DEF SetupKept, Flags, modeVars
<1>7. ASSUME NEW n \in Node, updateCachedTime(n), UNCHANGED cliVars
      PROVE  Flags'
  BY <1>0, <1>7
  DEF updateCachedTime, cliVars, Flags, flagVars, modeVars, clientVars
<1>8. ASSUME NEW s \in Node, NEW d \in Node, NEW k \in Key, ReceiveSync(s, d, k),
             UNCHANGED cliVars
      PROVE  Flags'
  BY <1>0, <1>8 DEF ReceiveSync, cliVars, Flags, flagVars, modeVars, clientVars
<1>9. ASSUME NEW s \in Node, NEW d \in Node, ReceiveHotGroup(s, d),
             UNCHANGED cliVars
      PROVE  Flags'
  <2>1. is_copied[Owner] => is_copied'[Owner]
    BY <1>9, ConstantsAssumption DEF ReceiveHotGroup, TypeOK
  <2> QED
    BY <1>0, <1>9, <2>1 DEF ReceiveHotGroup, cliVars, Flags, modeVars, clientVars
<1>10. CASE UNCHANGED <<vars, cliVars>>
  BY <1>0, <1>10 DEF vars, cliVars, Flags, flagVars, modeVars, clientVars
<1> QED
  BY <1>1, <1>2, <1>3, <1>4, <1>5, <1>6, <1>7, <1>8, <1>9, <1>10, StepKinds

\* HOTGROUP ADD is announced by an instance of the copy, to all the others.
LEMMA GroupingAdd ==
  ASSUME TypeOK, Setup, SetHotSlot
  PROVE  Grouping'
<1> DEFINE n == Head(queue)
<1>0. Grouping /\ ManagerOK
  BY DEF Setup
<1>1. /\ cli = "group" /\ cli' = cli /\ n \in Members /\ n \in Node
      /\ Queued \ {n} \subseteq Queued'
  BY <1>0, TailQueued, MembersAreNodes DEF SetHotSlot
<1>2. /\ related_ins' = [related_ins EXCEPT ![n] = related_ins[n] \cup {n}]
      /\ bus' = Announced(n, 1) /\ is_copied' = is_copied
  BY DEF SetHotSlot, HotGroupAdd, flagVars
<1>3. \A s, d \in Node :
        bus'[s][d] = IF s = n /\ d # n THEN Append(bus[s][d], 1) ELSE bus[s][d]
  BY <1>1, <1>2 DEF Announced, TypeOK
<1>4. \A m \in Node :
        related_ins'[m] = related_ins[m] \cup (IF m = n THEN {n} ELSE {})
  BY <1>1, <1>2 DEF TypeOK
<1> HIDE DEF n
<1>5. \A s, d \in Node : /\ bus'[s][d] \in Seq({1})
                         /\ bus'[s][d] # <<>> => s \in Members
  <2> SUFFICES ASSUME NEW s \in Node, NEW d \in Node
               PROVE  /\ bus'[s][d] \in Seq({1})
                      /\ bus'[s][d] # <<>> => s \in Members
    OBVIOUS
  <2>1. bus[s][d] \in Seq({1}) /\ (bus[s][d] # <<>> => s \in Members)
    BY <1>0 DEF Grouping
  <2>2. Append(bus[s][d], 1) \in Seq({1})
    BY <2>1
  <2> QED BY <1>1, <1>3, <2>1, <2>2, Zenon
<1>6. ASSUME Owner \in related_ins'[Owner], NEW d \in Node \ {Owner}
      PROVE  is_copied'[d] \/ bus'[Owner][d] # <<>>
  <2>1. bus[Owner][d] \in Seq({1}) /\ Owner \in Node
    BY <1>0, ConstantsAssumption DEF Grouping
  <2>2. CASE n = Owner
    <3>1. bus'[Owner][d] = Append(bus[Owner][d], 1)
      BY <1>3, <2>1, <2>2
    <3> QED BY <2>1, <3>1
  <2>3. CASE n # Owner
    BY <1>0, <1>2, <1>3, <1>4, <1>6, <2>1, <2>3 DEF Grouping
  <2> QED BY <2>2, <2>3
<1>7. \A m \in Node : related_ins'[m] \subseteq Members
  BY <1>0, <1>1, <1>4 DEF Grouping
<1>8. \A m \in Members : m \in related_ins'[m] \/ (cli' = "group" /\ m \in Queued')
  BY <1>0, <1>1, <1>4, MembersAreNodes DEF Grouping
<1> QED BY <1>5, <1>6, <1>7, <1>8 DEF Grouping

\* A node that hears of another one is a copy from then on.
LEMMA GroupingReceive ==
  ASSUME TypeOK, MembershipInv, Setup, NEW s \in Node, NEW d \in Node,
         ReceiveHotGroup(s, d), UNCHANGED cliVars
  PROVE  Grouping'
<1>0. Grouping
  BY DEF Setup
<1>1. /\ bus[s][d] \in Seq({1}) /\ bus[s][d] # <<>> /\ s \in Members
  BY <1>0 DEF ReceiveHotGroup, Grouping
<1>2. Head(bus[s][d]) = 1 /\ Tail(bus[s][d]) \in Seq({1})
  BY <1>1
<1>3. s # d
  BY <1>1 DEF MembershipInv, NoOwnMessage
<1>4. /\ bus' = [bus EXCEPT ![s][d] = Tail(bus[s][d])]
      /\ is_copied' = [is_copied EXCEPT ![d] = TRUE]
      /\ related_ins' = [related_ins EXCEPT ![d] = related_ins[d] \cup {s}]
  BY <1>2 DEF ReceiveHotGroup
<1>5. \A x, y \in Node :
        bus'[x][y] = IF x = s /\ y = d THEN Tail(bus[s][d]) ELSE bus[x][y]
  BY <1>4 DEF TypeOK
<1>6. \A m \in Node :
        /\ related_ins'[m] = related_ins[m] \cup (IF m = d THEN {s} ELSE {})
        /\ is_copied'[m] = (is_copied[m] \/ m = d)
  BY <1>4 DEF TypeOK
<1>7. cli' = cli /\ Queued' = Queued
  BY DEF cliVars, Queued
<1>8. \A x, y \in Node : /\ bus'[x][y] \in Seq({1})
                         /\ bus'[x][y] # <<>> => x \in Members
  BY <1>0, <1>1, <1>2, <1>5 DEF Grouping
<1>9. ASSUME Owner \in related_ins'[Owner], NEW y \in Node \ {Owner}
      PROVE  is_copied'[y] \/ bus'[Owner][y] # <<>>
  <2>1. Owner \in related_ins[Owner] /\ Owner \in Node
    BY <1>3, <1>6, <1>9, ConstantsAssumption
  <2>2. is_copied[y] \/ bus[Owner][y] # <<>>
    BY <1>0, <2>1 DEF Grouping
  <2> QED BY <1>5, <1>6, <2>1, <2>2
<1>10. \A m \in Node : related_ins'[m] \subseteq Members
  BY <1>0, <1>1, <1>6 DEF Grouping
<1>11. \A m \in Members : m \in related_ins'[m] \/ (cli' = "group" /\ m \in Queued')
  BY <1>0, <1>6, <1>7, MembersAreNodes DEF Grouping
<1> QED BY <1>8, <1>9, <1>10, <1>11 DEF Grouping

\* Every step keeps the announcements what they are.
LEMMA GroupingStep ==
  ASSUME TypeOK, MembershipInv, Setup, [CopyNext]_allVars
  PROVE  Grouping'
<1>0. Grouping
  BY DEF Setup
<1>1. ASSUME UNCHANGED <<related_ins, bus, queue, cli>>,
             \A d \in Node \ {Owner} : is_copied'[d] = is_copied[d]
      PROVE  Grouping'
  BY <1>0, <1>1 DEF Grouping, Queued
<1>2. ASSUME UNCHANGED <<related_ins, bus>>, cli # "group" \/ queue = <<>>,
             \A d \in Node \ {Owner} : is_copied'[d] = is_copied[d]
      PROVE  Grouping'
  <2>1. ASSUME NEW m \in Members
        PROVE  m \in related_ins[m]
    BY <1>0, <1>2 DEF Grouping, Queued
  <2> QED BY <1>0, <1>2, <2>1 DEF Grouping
<1>3. CASE StartCopy \/ EndCopy
  <2>1. UNCHANGED <<related_ins, bus>> /\ (cli # "group" \/ queue = <<>>)
    BY <1>3 DEF StartCopy, EndCopy, SetSlotCopying, SetSlotFincopy
  <2>2. \A d \in Node \ {Owner} : is_copied'[d] = is_copied[d]
    BY <1>3 DEF StartCopy, EndCopy, SetSlotCopying, SetSlotFincopy, TypeOK
  <2> QED BY <1>2, <2>1, <2>2
<1>4. CASE AskStep
  <2>1. cli # "group"
    BY <1>4 DEF AskStep, ListPage, ReadDigest, ComparePage
  <2> QED BY <1>2, <1>4, <2>1 DEF AskStep, vars, flagVars
<1>5. CASE RestoreStep
  <2>1. cli # "group"
    BY <1>5 DEF RestoreStep, AtPage
  <2> QED BY <1>2, <1>5, <2>1 DEF RestoreStep, Restore, flagVars
<1>6. CASE ClientStep
  BY <1>1, <1>6, RequestEffect DEF ClientStep, SetupKept
<1>7. ASSUME NEW n \in Node, updateCachedTime(n), UNCHANGED cliVars
      PROVE  Grouping'
  BY <1>1, <1>7 DEF updateCachedTime, cliVars, flagVars
<1>8. ASSUME NEW s \in Node, NEW d \in Node, NEW k \in Key, ReceiveSync(s, d, k),
             UNCHANGED cliVars
      PROVE  Grouping'
  BY <1>1, <1>8 DEF ReceiveSync, cliVars, flagVars
<1>9. CASE UNCHANGED <<vars, cliVars>>
  BY <1>1, <1>9 DEF vars, cliVars, flagVars
<1> QED
  BY <1>3, <1>4, <1>5, <1>6, <1>7, <1>8, <1>9, GroupingAdd, GroupingReceive,
     StepKinds

-----------------------------------------------------------------------------
(* The writes under way, and the values they leave.                        *)

\* A command for key k was taken off the link from s to d, and applied there
\* or refused.
Received(s, d, k) ==
  LET op == Head(link[s][d][k])
  IN /\ op \in Op /\ op.ver \in 1..writes
     /\ s # d /\ s \in writers[k] /\ d \in Members /\ cli = "done"
     /\ link[s][d][k] # <<>>
     /\ \A x, y \in Node, j \in Key :
          link'[x][y][j] = IF x = s /\ y = d /\ j = k THEN Tail(link[s][d][k])
                                                     ELSE link[x][y][j]
     /\ \/ /\ store' = [store EXCEPT ![d][k] = Apply(@, op)]
           /\ faults' = faults
        \/ /\ store' = store
           /\ faults' = faults + 1

\* Nothing is cached, so no received command is dropped as outdated.
LEMMA ReceiveEffect ==
  ASSUME TypeOK, Setup, NEW s \in Node, NEW d \in Node, NEW k \in Key,
         ReceiveSync(s, d, k)
  PROVE  Received(s, d, k)
<1> DEFINE q == link[s][d][k]
           op == Head(q)
<1>1. q \in Seq(Op) /\ q # <<>>
  BY DEF ReceiveSync, TypeOK
<1>2. op \in Op /\ op = q[1] /\ 1 \in 1..Len(q)
  BY <1>1
<1>3. /\ s # d /\ s \in writers[k] /\ d \in Members /\ cli = "done"
      /\ op.ver \in 1..writes
  BY <1>1, <1>2 DEF Setup, Traffic
<1>4. ~Outdated(d, k, op)
  BY DEF Outdated, Setup, Traffic, NothingCached
<1>5. link' = [link EXCEPT ![s][d][k] = Tail(q)]
  BY DEF ReceiveSync
<1>6. \A x, y \in Node, j \in Key :
        link'[x][y][j] = IF x = s /\ y = d /\ j = k THEN Tail(q)
                                                   ELSE link[x][y][j]
  <2> DEFINE rest == Tail(q)
  <2>1. link \in LinkType /\ link' = [link EXCEPT ![s][d][k] = rest]
    BY <1>5 DEF TypeOK, LinkType
  <2> HIDE DEF rest
  <2>2. \A x, y \in Node, j \in Key :
          link'[x][y][j] = IF x = s /\ y = d /\ j = k THEN rest
                                                     ELSE link[x][y][j]
    BY <2>1 DEF LinkType
  <2> QED BY <2>2 DEF rest
<1>7. \/ store' = [store EXCEPT ![d][k] = Apply(@, op)] /\ faults' = faults
      \/ store' = store /\ faults' = faults + 1
  BY <1>4 DEF ReceiveSync
<1> QED
  BY <1>1, <1>2, <1>3, <1>6, <1>7 DEF Received

\* The commands of a queue after one more was sent.
LEMMA AppendRange ==
  ASSUME NEW q \in Seq(Op), NEW op \in Op
  PROVE  /\ Append(q, op) # <<>>
         /\ Append(q, op)[Len(Append(q, op))] = op
         /\ \A i \in 1..Len(Append(q, op)) :
              Append(q, op)[i] = op \/ \E j \in 1..Len(q) : Append(q, op)[i] = q[j]
OBVIOUS

\* Once FINCOPY was sent the script does nothing more.
LEMMA DoneStays ==
  ASSUME [CopyNext]_allVars, cli = "done"
  PROVE  /\ cli' = "done" /\ ~Manager
         /\ UNCHANGED <<queue, offset, page, digest>>
<1>1. ~Manager
  BY DEF Manager, SetHotSlot, StartCopy, ListPage, MigratePage, PageFails,
         PageBusy, ReadDigest, ComparePage, ReplacePage, EndCopy
<1> QED
  BY <1>1 DEF CopyNext, ClientStep, ServerStep, allVars, cliVars

\* Every step keeps the writes under way what they are.
LEMMA TrafficStep ==
  ASSUME TypeOK, Setup, [CopyNext]_allVars
  PROVE  Traffic'
<1>0. Traffic /\ (cli = "done" => cli' = "done")
  BY DoneStays DEF Setup
<1>1. ASSUME UNCHANGED <<cached_op, conn, link, writes, writers>>
      PROVE  Traffic'
  BY <1>0, <1>1 DEF Traffic, NothingCached, Unbroken
<1>2. CASE SetHotSlot
  BY <1>1, <1>2 DEF SetHotSlot, HotGroupAdd, cacheVars, netVars, histVars
<1>3. CASE StartCopy \/ EndCopy
  BY <1>1, <1>3
  DEF StartCopy, EndCopy, SetSlotCopying, SetSlotFincopy, cacheVars, netVars,
      histVars
<1>4. CASE AskStep
  BY <1>1, <1>4 DEF AskStep, vars, cacheVars, netVars, histVars
<1>5. CASE RestoreStep
  BY <1>1, <1>5 DEF RestoreStep, Restore, cacheVars, netVars, histVars
<1>6. CASE ClientStep
  <2>1. NothingCached' /\ Unbroken' /\ cli' = cli
    BY <1>6, RequestEffect DEF ClientStep
  <2>2. CASE NothingWritten
    BY <1>0, <2>1, <2>2 DEF Traffic, NothingWritten
  <2>3. ASSUME NEW n \in Members, NEW k \in Key, NEW F \in WriteSets,
               cli # "done" => n = Owner, Wrote(n, k, F)
        PROVE  Traffic'
    <3> DEFINE op == NewOp(n, F)
    <3>1. n \in Node /\ writes \in Nat
      BY MembersAreNodes DEF TypeOK
    <3>2. op \in Op /\ op.ver = writes + 1 /\ writes' = writes + 1
      BY <2>3, <3>1, NewOpType DEF NewOp, Wrote
    <3>3. /\ writers'[k] = writers[k] \cup {n}
          /\ \A j \in Key \ {k} : writers'[j] = writers[j]
      BY <2>3 DEF Wrote, TypeOK
    <3>4. Audience(n) \subseteq Members \ {n} /\ (Audience(n) # {} => cli = "done")
      BY <1>0, <3>1 DEF Audience, Peers, Setup, Grouping
    <3>5. SentTo(n, Audience(n), k, op)
      BY <2>3 DEF Wrote
    <3> HIDE DEF op
    <3>6. ASSUME NEW s \in Node, NEW d \in Node, NEW j \in Key
          PROVE  /\ link'[s][d][j] # <<>> =>
                      /\ s # d /\ s \in writers'[j] /\ d \in Members
                      /\ cli' = "done"
                 /\ \A i \in 1..Len(link'[s][d][j]) :
                      link'[s][d][j][i].ver \in 1..writes'
      <4>1. /\ link[s][d][j] # <<>> =>
                 s # d /\ s \in writers[j] /\ d \in Members /\ cli = "done"
            /\ \A i \in 1..Len(link[s][d][j]) : link[s][d][j][i].ver \in 1..writes
        BY <1>0 DEF Traffic
      <4>2. link[s][d][j] \in Seq(Op)
        BY DEF TypeOK
      <4>3. CASE s = n /\ d \in Audience(n) /\ j = k
        <5>1. link'[s][d][j] = Append(link[s][d][j], op)
          BY <3>5, <4>3 DEF SentTo
        <5>2. \A i \in 1..Len(link'[s][d][j]) :
                \/ link'[s][d][j][i] = op
                \/ \E l \in 1..Len(link[s][d][j]) :
                     link'[s][d][j][i] = link[s][d][j][l]
          BY <3>2, <4>2, <5>1, AppendRange
        <5>3. \A i \in 1..Len(link'[s][d][j]) :
                link'[s][d][j][i].ver \in 1..writes'
          <6>1. /\ op.ver \in 1..writes'
                /\ \A l \in 1..Len(link[s][d][j]) :
                     link[s][d][j][l].ver \in 1..writes'
            BY <3>1, <3>2, <4>1
          <6> QED BY <5>2, <6>1, Zenon
        <5>4. s # d /\ d \in Members /\ cli' = "done"
          BY <2>1, <3>4, <4>3
        <5>5. s \in writers'[j]
          BY <3>3, <4>3
        <5> QED BY <5>3, <5>4, <5>5, Zenon
      <4>4. CASE ~(s = n /\ d \in Audience(n) /\ j = k)
        <5>1. link'[s][d][j] = link[s][d][j]
          BY <3>5, <4>4 DEF SentTo
        <5> QED BY <2>1, <3>1, <3>2, <3>3, <4>1, <5>1
      <4> QED BY <4>3, <4>4
    <3>7. ASSUME NEW j \in Key
          PROVE  /\ IsFiniteSet(writers'[j])
                 /\ cli' # "done" => writers'[j] \subseteq {Owner}
      <4>1. /\ IsFiniteSet(writers[j])
            /\ cli # "done" => writers[j] \subseteq {Owner}
        BY <1>0 DEF Traffic
      <4>2. writers'[j] = writers[j] \/ writers'[j] = writers[j] \cup {n}
        BY <3>3
      <4>3. IsFiniteSet(writers[j] \cup {n})
        BY <4>1, FS_AddElement
      <4> QED BY <2>1, <2>3, <4>1, <4>2, <4>3
    <3> QED BY <2>1, <3>6, <3>7 DEF Traffic
  <2> QED BY <1>6, <2>2, <2>3, RequestEffect DEF ClientStep
<1>7. ASSUME NEW n \in Node, updateCachedTime(n)
      PROVE  Traffic'
  BY <1>1, <1>7 DEF updateCachedTime, cacheVars, netVars, histVars
<1>8. ASSUME NEW s \in Node, NEW d \in Node, NEW k \in Key, ReceiveSync(s, d, k)
      PROVE  Traffic'
  <2> DEFINE q == link[s][d][k]
  <2>1. /\ q # <<>> /\ q \in Seq(Op)
        /\ \A x, y \in Node, j \in Key :
             link'[x][y][j] = IF x = s /\ y = d /\ j = k THEN Tail(q)
                                                        ELSE link[x][y][j]
    <3>1. Received(s, d, k)
      BY <1>8, ReceiveEffect
    <3>2. q \in Seq(Op)
      BY DEF TypeOK
    <3> QED BY <3>1, <3>2 DEF Received
  <2>2. UNCHANGED <<cached_op, conn, writes, writers>>
    BY <1>8 DEF ReceiveSync, cacheVars, histVars
  <2>3. \A j \in 1..Len(Tail(q)) : \E i \in 1..Len(q) : q[i] = Tail(q)[j]
    BY <2>1, TailRange
  <2> HIDE DEF q
  <2>4. ASSUME NEW x \in Node, NEW y \in Node, NEW j \in Key
        PROVE  /\ link'[x][y][j] # <<>> => link[x][y][j] # <<>>
               /\ \A i \in 1..Len(link'[x][y][j]) :
                    link'[x][y][j][i].ver \in 1..writes
    <3>1. \A i \in 1..Len(link[x][y][j]) : link[x][y][j][i].ver \in 1..writes
      BY <1>0 DEF Traffic
    <3>2. CASE x = s /\ y = d /\ j = k
      <4>1. link'[x][y][j] = Tail(q) /\ link[x][y][j] = q /\ q # <<>>
        BY <2>1, <3>2 DEF q
      <4>2. ASSUME NEW i \in 1..Len(Tail(q))
            PROVE  Tail(q)[i].ver \in 1..writes
        <5>1. PICK l \in 1..Len(q) : q[l] = Tail(q)[i]
          BY <2>3
        <5> QED BY <3>1, <4>1, <5>1
      <4> QED BY <4>1, <4>2
    <3>3. CASE ~(x = s /\ y = d /\ j = k)
      BY <2>1, <3>1, <3>3
    <3> QED BY <3>2, <3>3
  <2> QED BY <1>0, <2>2, <2>4 DEF Traffic, NothingCached, Unbroken
<1>9. ASSUME NEW s \in Node, NEW d \in Node, ReceiveHotGroup(s, d)
      PROVE  Traffic'
  BY <1>1, <1>9 DEF ReceiveHotGroup, cacheVars, netVars, histVars
<1>10. CASE UNCHANGED vars
  BY <1>1, <1>10 DEF vars, cacheVars, netVars, histVars
<1> QED
  BY <1>2, <1>3, <1>4, <1>5, <1>6, <1>7, <1>8, <1>9, <1>10, StepKinds

\* HMSET with a version leaves a hash a hash.
LEMMA ApplyExists ==
  ASSUME NEW hash \in [Field -> Nat], NEW op \in Op, op.ver >= 1,
         hash # NoHash \/ (op.fields # {} /\ op.fields \subseteq Field)
  PROVE  Apply(hash, op) # NoHash
<1>1. PICK f \in Field : hash[f] # 0 \/ f \in op.fields
  BY DEF NoHash
<1>2. Apply(hash, op)[f] # 0
  BY <1>1 DEF Apply, Op
<1> QED BY <1>2 DEF NoHash

\* A key of the page was restored at the target d.
Restored(d, S) ==
  /\ cli # "done" /\ cli # "group"
  /\ d \in Receivers
  /\ S \subseteq Present
  /\ \A n \in Node, k \in Key :
       store'[n][k] = IF n = d /\ k \in S THEN store[Owner][k] ELSE store[n][k]

\* A write of key k was executed at n, by a client's request or as it was
\* received there.
Executed(n, k, op) ==
  /\ op.ver \in 1..writes'
  /\ cli # "done" => n = Owner
  /\ \A m \in Node, j \in Key :
       store'[m][j] = IF m = n /\ j = k THEN Apply(store[n][k], op)
                                        ELSE store[m][j]

\* The ways a step changes the keys of the nodes.
LEMMA StoreKinds ==
  ASSUME TypeOK, Setup, [CopyNext]_allVars
  PROVE  /\ writes' \in Nat /\ writes' >= writes
         /\ \/ store' = store
            \/ \E d \in Receivers, S \in SUBSET Present : Restored(d, S)
            \/ \E n \in Members, k \in Key, op \in Op : Executed(n, k, op)
<1>0. writes \in Nat
  BY DEF TypeOK
<1>1. CASE RestoreStep
  <2>1. PICK S \in SUBSET Present : Restore(Head(queue), S)
    BY <1>1 DEF RestoreStep
  <2>2. queue # <<>> /\ queue \in Seq(Receivers)
    BY <1>1 DEF RestoreStep, Setup, ManagerOK, AtPage
  <2>3. Head(queue) \in Receivers /\ Head(queue) \in Node
    BY <2>2, MembersAreNodes
  <2>4. Restored(Head(queue), S)
    BY <1>1, <2>1, <2>3, RestoreEffect DEF Restored, RestoreStep, AtPage
  <2>5. writes' = writes
    BY <2>1 DEF Restore, histVars
  <2> QED BY <1>0, <2>3, <2>4, <2>5
<1>2. CASE ClientStep
  <2>1. CASE NothingWritten
    BY <1>0, <2>1 DEF NothingWritten
  <2>2. ASSUME NEW n \in Members, NEW k \in Key, NEW F \in WriteSets,
               cli # "done" => n = Owner, Wrote(n, k, F)
        PROVE  /\ writes' \in Nat /\ writes' >= writes
               /\ store' = store \/ \E op \in Op : Executed(n, k, op)
    <3> DEFINE op == NewOp(n, F)
    <3>1. n \in Node
      BY MembersAreNodes
    <3>2. op \in Op /\ op.ver = writes + 1 /\ writes' = writes + 1
      BY <2>2, <3>1, NewOpType DEF NewOp, Wrote
    <3>3. store' = store \/ store' = [store EXCEPT ![n][k] = Apply(store[n][k], op)]
      BY <2>2 DEF Wrote
    <3> HIDE DEF op
    <3>4. CASE store' = [store EXCEPT ![n][k] = Apply(store[n][k], op)]
      <4>1. \A m \in Node, j \in Key :
              store'[m][j] = IF m = n /\ j = k THEN Apply(store[n][k], op)
                                               ELSE store[m][j]
        BY <3>1, <3>4 DEF TypeOK
      <4> QED BY <1>0, <2>2, <3>2, <4>1 DEF Executed
    <3> QED BY <1>0, <3>2, <3>3, <3>4
  <2> QED BY <1>2, <2>1, <2>2, RequestEffect DEF ClientStep
<1>3. ASSUME NEW s \in Node, NEW d \in Node, NEW k \in Key, ReceiveSync(s, d, k)
      PROVE  /\ writes' = writes
             /\ store' = store \/ \E n \in Members, op \in Op : Executed(n, k, op)
  <2> DEFINE op == Head(link[s][d][k])
  <2>1. Received(s, d, k)
    BY <1>3, ReceiveEffect
  <2>2. writes' = writes
    BY <1>3 DEF ReceiveSync, histVars
  <2>3. /\ op \in Op /\ op.ver \in 1..writes /\ cli = "done" /\ d \in Members
        /\ \/ store' = store
           \/ store' = [store EXCEPT ![d][k] = Apply(store[d][k], op)]
    BY <2>1 DEF Received
  <2> HIDE DEF op
  <2>4. CASE store' = [store EXCEPT ![d][k] = Apply(store[d][k], op)]
    <3>1. \A m \in Node, j \in Key :
            store'[m][j] = IF m = d /\ j = k THEN Apply(store[d][k], op)
                                             ELSE store[m][j]
      BY <2>4 DEF TypeOK
    <3> QED BY <2>2, <2>3, <3>1 DEF Executed
  <2> QED BY <2>2, <2>3, <2>4
<1>4. CASE SetHotSlot \/ StartCopy \/ EndCopy
  BY <1>0, <1>4
  DEF SetHotSlot, HotGroupAdd, StartCopy, EndCopy, SetSlotCopying,
      SetSlotFincopy, histVars
<1>5. CASE AskStep \/ UNCHANGED vars
  BY <1>0, <1>5 DEF AskStep, vars, histVars
<1>6. ASSUME NEW s \in Node, NEW d \in Node,
             updateCachedTime(s) \/ ReceiveHotGroup(s, d)
      PROVE  UNCHANGED <<store, writes>>
  BY <1>6 DEF updateCachedTime, ReceiveHotGroup, histVars
<1> QED
  BY <1>0, <1>1, <1>2, <1>3, <1>4, <1>5, <1>6, StepKinds

\* No step deletes a key.
LEMMA ExistsStays ==
  ASSUME TypeOK, Setup, [CopyNext]_allVars, NEW n \in Node, NEW k \in Key,
         Exists(n, k)
  PROVE  Exists(n, k)'
<1>1. ASSUME NEW d \in Receivers, NEW S \in SUBSET Present, Restored(d, S)
      PROVE  Exists(n, k)'
  BY <1>1 DEF Restored, Present, Exists
<1>2. ASSUME NEW m \in Members, NEW j \in Key, NEW op \in Op, Executed(m, j, op)
      PROVE  Exists(n, k)'
  <2>1. store'[n][k] = store[n][k] \/ store'[n][k] = Apply(store[n][k], op)
    BY <1>2 DEF Executed
  <2>2. op.ver >= 1 /\ store[n][k] \in [Field -> Nat] /\ store[n][k] # NoHash
    BY <1>2 DEF Executed, TypeOK, Exists
  <2> QED BY <2>1, <2>2, ApplyExists DEF Exists
<1>3. CASE store' = store
  BY <1>3 DEF Exists
<1> QED BY <1>1, <1>2, <1>3, StoreKinds

\* Every step leaves values that were written, and only where they belong.
LEMMA ValuesStep ==
  ASSUME TypeOK, Setup, [CopyNext]_allVars
  PROVE  Values'
<1>0. /\ Values /\ writes \in Nat /\ writes' \in Nat /\ writes' >= writes
      /\ Owner \in Node /\ store \in [Node -> [Key -> [Field -> Nat]]]
  <2>1. Values
    BY DEF Setup
  <2>2. writes' \in Nat /\ writes' >= writes
    BY StoreKinds
  <2>3. Owner \in Node
    BY ConstantsAssumption
  <2>4. writes \in Nat /\ store \in [Node -> [Key -> [Field -> Nat]]]
    BY DEF TypeOK
  <2> QED BY <2>1, <2>2, <2>3, <2>4
<1>1. \A k \in Stored : Exists(Owner, k)'
  BY <1>0, ExistsStays, ConstantsAssumption DEF Values
<1>2. cli # "group" => cli' # "group"
  BY DEF CopyNext, Manager, SetHotSlot, StartCopy, ListPage, MigratePage,
         PageFails, PageBusy, ReadDigest, ComparePage, ReplacePage, EndCopy,
         ClientStep, ServerStep, NextTarget, NextPage, cliVars, allVars
<1>3. ASSUME NEW n \in Node, NEW k \in Key, store'[n][k] = store[n][k]
      PROVE  /\ \A f \in Field : store'[n][k][f] <= writes'
             /\ n \notin Members \/ (cli' = "group" /\ n # Owner) => ~Exists(n, k)'
  <2>1. \A f \in Field : store[n][k][f] \in Nat /\ store[n][k][f] <= writes
    BY <1>0 DEF Values
  <2>2. n \notin Members \/ (cli' = "group" /\ n # Owner) => ~Exists(n, k)
    BY <1>0, <1>2 DEF Values
  <2> QED BY <1>0, <1>3, <2>1, <2>2 DEF Exists
<1>4. ASSUME NEW d \in Receivers, NEW S \in SUBSET Present, Restored(d, S),
             NEW n \in Node, NEW k \in Key, store'[n][k] # store[n][k]
      PROVE  /\ \A f \in Field : store'[n][k][f] <= writes'
             /\ n \in Members /\ cli' # "group"
  <2>1. n = d /\ store'[n][k] = store[Owner][k] /\ cli # "group"
    BY <1>4 DEF Restored
  <2>2. \A f \in Field : store[Owner][k][f] \in Nat /\ store[Owner][k][f] <= writes
    BY <1>0 DEF Values
  <2> QED BY <1>0, <1>2, <2>1, <2>2 DEF Members
<1>5. ASSUME NEW m \in Members, NEW j \in Key, NEW op \in Op, Executed(m, j, op),
             NEW n \in Node, NEW k \in Key, store'[n][k] # store[n][k]
      PROVE  /\ \A f \in Field : store'[n][k][f] <= writes'
             /\ n \in Members /\ (cli' = "group" => n = Owner)
  <2>1. /\ n = m /\ store'[n][k] = Apply(store[n][k], op)
        /\ op.ver \in 1..writes' /\ (cli # "done" => n = Owner)
    BY <1>5 DEF Executed
  <2>2. \A f \in Field : store[n][k][f] \in Nat /\ store[n][k][f] <= writes
    BY <1>0 DEF Values
  <2>3. cli' = "group" => cli # "done"
    BY DoneStays
  <2> QED BY <1>0, <2>1, <2>2, <2>3 DEF Apply
<1>6. ASSUME NEW n \in Node, NEW k \in Key
      PROVE  /\ \A f \in Field : store'[n][k][f] <= writes'
             /\ n \notin Members \/ (cli' = "group" /\ n # Owner) => ~Exists(n, k)'
  BY <1>3, <1>4, <1>5, StoreKinds
<1> QED BY <1>1, <1>6 DEF Values, Exists

\* The setup holds from the start.
LEMMA SetupInit ==
  ASSUME CopyInit
  PROVE  TypeOK /\ MembershipInv /\ Setup
<1>0. /\ Init /\ ServerInit /\ cli = "group" /\ queue = <<Owner>> \o Targets
      /\ offset = 0 /\ dirty = {} /\ Owner \in Node
  BY ConstantsAssumption DEF CopyInit, Init
<1>1. TypeOK
  BY <1>0, TypeInit
<1>2. \A s, d \in Node : bus[s][d] = <<>>
  BY <1>0 DEF ServerInit
<1>3. \A n \in Node : related_ins[n] = {}
  BY <1>0 DEF Init
<1>4. MembershipInv
  BY <1>2, <1>3, Zenon DEF MembershipInv, NoOwnMessage, MembershipTracks
<1>5. ManagerOK
  BY <1>0, MembersAreNodes DEF ManagerOK, AtPage
<1>6. Flags
  BY <1>0 DEF Flags, Init, ServerInit
<1>7. Grouping
  <2>1. ASSUME NEW m \in Members
        PROVE  m \in Queued
    <3>1. Targets \in Seq(Receivers)
      BY MembersAreNodes
    <3>2. CASE m = Owner
      <4>1. 1 \in 1..Len(queue) /\ queue[1] = Owner
        BY <1>0, <3>1
      <4> QED BY <3>2, <4>1 DEF Queued
    <3>3. ASSUME NEW i \in 1..Len(Targets), m = Targets[i]
          PROVE  m \in Queued
      <4>1. i + 1 \in 1..Len(queue) /\ queue[i + 1] = Targets[i]
        BY <1>0, <3>1
      <4> QED BY <3>3, <4>1 DEF Queued
    <3> QED BY <3>2, <3>3 DEF Members, Receivers
  <2>2. \A s, d \in Node : bus[s][d] \in Seq({1})
    <3>1. <<>> \in Seq({1})
      OBVIOUS
    <3> QED BY <1>2, <3>1, Zenon
  <2> QED BY <1>0, <1>2, <1>3, <2>1, <2>2 DEF Grouping
<1>8. Traffic
  <2>1. \A s, d \in Node, k \in Key : link[s][d][k] = <<>>
    BY <1>0 DEF ServerInit
  <2>2. NothingCached /\ Unbroken
    BY <1>0 DEF ServerInit, NothingCached, Unbroken
  <2>3. \A k \in Key : writers[k] = {} /\ IsFiniteSet(writers[k])
    BY <1>0, FS_EmptySet DEF ServerInit
  <2> QED BY <2>1, <2>2, <2>3 DEF Traffic
<1>9. Values
  BY <1>0, ConstantsAssumption, CopyAssumption
  DEF Values, Init, ServerInit, Loaded, Empty, NoHash, Exists, Members
<1> QED BY <1>1, <1>4, <1>5, <1>6, <1>7, <1>8, <1>9 DEF Setup

\* The setup holds in every reachable state.
LEMMA SetupStep ==
  ASSUME TypeOK, MembershipInv, Setup, [CopyNext]_allVars
  PROVE  TypeOK' /\ MembershipInv' /\ Setup'
BY BaseStep, ManagerStep, FlagsStep, GroupingStep, TrafficStep, ValuesStep
DEF Setup

-----------------------------------------------------------------------------
(* The copies of a key that one node writes.                               *)

\* The node whose value of k the others are to get: the only one that wrote
\* it, or the owner when nobody did.
Sole(k, W) == writers[k] = {W} \/ (writers[k] = {} /\ W = Owner)

\* The command sets all fields to the values they have in the hash.
Newest(op, hash) == \A f \in Field : f \in op.fields /\ hash[f] = op.ver

\* What d has of k is what W has, or the last command on its way says so.
Follows(W, d, k) ==
  LET q == link[W][d][k]
  IN IF q = <<>> THEN Exists(d, k) => store[d][k] = store[W][k]
                 ELSE Newest(q[Len(q)], store[W][k])

\* Strengthening of CopyAgrees, which only speaks of keys that rest: what the
\* links carry is part of it.
SoleLeads ==
  faults = 0 =>
    \A k \in Key \ dirty, W \in Node :
      Sole(k, W) => \A d \in Node : Follows(W, d, k)

\* The last command of a queue stays the last one.
LEMMA TailLast ==
  ASSUME NEW q \in Seq(Op), q # <<>>
  PROVE  /\ Tail(q) = <<>> => Head(q) = q[Len(q)]
         /\ Tail(q) # <<>> => Tail(q)[Len(Tail(q))] = q[Len(q)]
<1>1. Len(q) \in Nat /\ Len(q) > 0 /\ Tail(q) \in Seq(Op)
  OBVIOUS
<1>2. Len(Tail(q)) = Len(q) - 1
  BY <1>1
<1>3. \A j \in 1..Len(Tail(q)) : Tail(q)[j] = q[j + 1]
  BY <1>1, <1>2
<1>4. CASE Tail(q) = <<>>
  <2>1. Len(Tail(q)) = 0
    <3>1. Len(<<>>) = 0
      OBVIOUS
    <3> QED BY <1>4, <3>1, Zenon
  <2>2. Len(q) = 1
    <3>1. Len(q) \in Nat
      OBVIOUS
    <3>2. ASSUME NEW a \in Nat, a - 1 = 0
          PROVE  a = 1
      BY <3>2
    <3>3. Len(q) - 1 = 0
      BY <1>2, <2>1, Zenon
    <3> QED BY <3>1, <3>2, <3>3, Zenon
  <2>3. Head(q) = q[1]
    OBVIOUS
  <2> QED BY <1>4, <2>2, <2>3
<1>5. CASE Tail(q) # <<>>
  <2>1. Len(Tail(q)) \in 1..Len(Tail(q))
    BY <1>1, <1>2, <1>5
  <2>2. Tail(q)[Len(Tail(q))] = q[Len(Tail(q)) + 1] /\ Len(Tail(q)) + 1 = Len(q)
    BY <1>1, <1>2, <1>3, <2>1
  <2> QED BY <1>5, <2>2
<1> QED BY <1>4, <1>5

\* Once every node heard of every other, each knows all of the group.
LEMMA GroupKnown ==
  ASSUME TypeOK, MembershipInv, Setup, cli = "done", BusEmpty, faults = 0,
         NEW n \in Node
  PROVE  Members \subseteq related_ins[n] \cup {n}
         /\ (n \in Members => related_ins[n] = Members)
<1>1. \A m \in Members : m \in related_ins[m]
  BY DEF Setup, Grouping
<1>2. ASSUME NEW m \in Members, m # n
      PROVE  m \in related_ins[n]
  <2>1. m \in Node /\ bus[m][n] = <<>>
    BY MembersAreNodes DEF BusEmpty
  <2> QED
    BY <1>1, <1>2, <2>1 DEF MembershipInv, MembershipTracks
<1>3. related_ins[n] \subseteq Members
  BY DEF Setup, Grouping
<1> QED BY <1>1, <1>2, <1>3

\* A key that a client changes while the copy is made, or the group is not
\* known everywhere, is dirty from then on.
LEMMA DirtyGrows ==
  ASSUME [CopyNext]_allVars
  PROVE  dirty \subseteq dirty'
BY DEF CopyNext, Manager, SetHotSlot, StartCopy, ListPage, MigratePage,
       PageFails, PageBusy, ReadDigest, ComparePage, ReplacePage, EndCopy,
       ClientStep, ServerStep, cliVars, allVars

\* A write changes the value of its key: its version is new.
LEMMA WriteChanges ==
  ASSUME TypeOK, Setup, NEW n \in Node, NEW k \in Key, NEW F \in WriteSets,
         store' = [store EXCEPT ![n][k] = Apply(@, NewOp(n, F))]
  PROVE  /\ \A m \in Node, j \in Key :
              store'[m][j] = IF m = n /\ j = k
                             THEN Apply(store[n][k], NewOp(n, F))
                             ELSE store[m][j]
         /\ store'[n][k] # store[n][k]
<1> DEFINE hash == Apply(store[n][k], NewOp(n, F))
<1>1. F \subseteq Field /\ F # {}
  BY ConstantsAssumption
<1>2. PICK f \in Field : f \in F
  BY <1>1
<1>3. hash[f] = writes + 1
  BY <1>2 DEF Apply, NewOp
<1>4. store[n][k][f] <= writes /\ writes \in Nat /\ store[n][k][f] \in Nat
  BY DEF Setup, Values, TypeOK
<1>5. hash # store[n][k]
  BY <1>3, <1>4
<1> HIDE DEF hash
<1>6. \A m \in Node, j \in Key :
        store'[m][j] = IF m = n /\ j = k THEN hash ELSE store[m][j]
  BY DEF hash, TypeOK
<1> QED BY <1>5, <1>6 DEF hash

\* A write of a key that stays clean is sent to all who may have the key.
LEMMA WriteLeads ==
  ASSUME WriteSets \subseteq {Field}, TypeOK, MembershipInv, Setup, ClientStep,
         faults = 0, NEW n \in Members, NEW k \in Key, NEW F \in WriteSets,
         cli # "done" => n = Owner, Wrote(n, k, F),
         store' = [store EXCEPT ![n][k] = Apply(@, NewOp(n, F))],
         k \notin dirty', NEW d \in Node
  PROVE  Follows(n, d, k)'
<1> DEFINE op == NewOp(n, F)
<1>0. n \in Node
  BY MembersAreNodes
<1>1. n \in Node /\ F = Field /\ op \in Op /\ op.ver = writes + 1 /\ op.fields = F
  BY <1>0, NewOpType DEF NewOp
<1>2. /\ \A m \in Node, j \in Key :
           store'[m][j] = IF m = n /\ j = k THEN Apply(store[n][k], op)
                                            ELSE store[m][j]
      /\ store'[n][k] # store[n][k]
  BY <1>0, WriteChanges
<1>3. ~Forming
  BY <1>1, <1>2 DEF ClientStep
<1>4. SentTo(n, Audience(n), k, op)
  BY DEF Wrote
<1>5. link[n][d][k] \in Seq(Op)
  BY <1>1 DEF TypeOK
<1> HIDE DEF op
<1>6. CASE d \in Audience(n)
  <2>1. link'[n][d][k] = Append(link[n][d][k], op)
    BY <1>1, <1>4, <1>6 DEF SentTo
  <2>2. link'[n][d][k] # <<>> /\ link'[n][d][k][Len(link'[n][d][k])] = op
    <3>1. /\ Append(link[n][d][k], op) # <<>>
          /\ Append(link[n][d][k], op)[Len(Append(link[n][d][k], op))] = op
      BY <1>1, <1>5, AppendRange
    <3> QED BY <2>1, <3>1
  <2>3. Newest(op, store'[n][k])
    <3>1. store'[n][k] = Apply(store[n][k], op)
      BY <1>1, <1>2
    <3>2. \A f \in Field : f \in op.fields /\ Apply(store[n][k], op)[f] = op.ver
      BY <1>1 DEF Apply
    <3> QED BY <3>1, <3>2 DEF Newest
  <2> QED BY <2>2, <2>3 DEF Follows, Newest
<1>7. CASE d \notin Audience(n)
  <2>1. link'[n][d][k] = link[n][d][k]
    BY <1>1, <1>4, <1>7 DEF SentTo
  <2>2. CASE d = n
    <3>1. link[n][d][k] = <<>>
      BY <2>2 DEF Setup, Traffic
    <3> QED BY <2>1, <2>2, <3>1 DEF Follows
  <2>3. CASE d # n
    <3>1. ~Exists(d, k) /\ link[n][d][k] = <<>>
      <4>1. CASE cli = "done"
        <5>1. BusEmpty
          BY <1>3, <4>1 DEF Forming
        <5>2. d \notin Members
          BY <1>1, <1>7, <2>3, <4>1, <5>1, GroupKnown DEF Audience, Peers
        <5> QED BY <1>1, <5>2 DEF Setup, Values, Traffic
      <4>2. CASE cli # "done"
        <5>1. cli = "group" /\ n = Owner
          BY <1>3, <4>2 DEF Forming
        <5> QED BY <1>1, <2>3, <5>1 DEF Setup, Values, Traffic
      <4> QED BY <4>1, <4>2
    <3>2. store'[d][k] = store[d][k]
      BY <1>2, <2>3
    <3> QED BY <2>1, <3>1, <3>2 DEF Follows, Exists
  <2> QED BY <2>2, <2>3
<1> QED BY <1>6, <1>7

\* A command that arrives is the last one, and brings the sole writer's value,
\* or the last one is still under way.
LEMMA ReceiveLeads ==
  ASSUME TypeOK, Setup, NEW s \in Node, NEW b \in Node, NEW k \in Key,
         Received(s, b, k), faults' = faults, UNCHANGED writers,
         NEW W \in Node, NEW d \in Node, Sole(k, W), Follows(W, d, k)
  PROVE  Follows(W, d, k)'
<1> DEFINE q == link[s][b][k]
           op == Head(q)
<1>1. s = W /\ b # W
  BY DEF Sole, Received
<1>2. q \in Seq(Op) /\ q # <<>> /\ op \in Op
  BY DEF Received, TypeOK
<1>3. /\ \A y \in Node : link'[W][y][k] = IF y = b THEN Tail(q) ELSE link[W][y][k]
      /\ store' = [store EXCEPT ![b][k] = Apply(store[b][k], op)]
  <2>1. \A y \in Node : link'[W][y][k] = IF y = b THEN Tail(q) ELSE link[W][y][k]
    BY <1>1 DEF Received
  <2>2. faults \in Nat /\ faults' # faults + 1
    BY DEF TypeOK
  <2>3. store' = [store EXCEPT ![b][k] = Apply(store[b][k], op)]
    BY <2>2 DEF Received
  <2> QED BY <2>1, <2>3
<1>4. \A y \in Node : store'[y][k] = IF y = b THEN Apply(store[b][k], op)
                                              ELSE store[y][k]
  <2> DEFINE hash == Apply(store[b][k], op)
  <2>1. store' = [store EXCEPT ![b][k] = hash]
    BY <1>3
  <2> HIDE DEF hash
  <2>2. \A y \in Node : store'[y][k] = IF y = b THEN hash ELSE store[y][k]
    BY <2>1 DEF TypeOK
  <2> QED BY <2>2 DEF hash
<1> HIDE DEF op
<1>5. CASE d # b
  <2>1. link'[W][d][k] = link[W][d][k] /\ store'[d][k] = store[d][k]
        /\ store'[W][k] = store[W][k]
    BY <1>1, <1>3, <1>4, <1>5
  <2> QED BY <2>1 DEF Follows, Exists, Newest
<1>6. CASE d = b
  <2>1. Newest(q[Len(q)], store[W][k]) /\ store'[W][k] = store[W][k]
    BY <1>1, <1>2, <1>4, <1>6 DEF Follows
  <2>2. link'[W][d][k] = Tail(q)
    BY <1>3, <1>6
  <2>3. CASE Tail(q) = <<>>
    <3>1. op = q[Len(q)]
      BY <1>2, <2>3, TailLast DEF op
    <3>2. store[W][k] \in [Field -> Nat]
      BY DEF TypeOK
    <3>3. Apply(store[b][k], op) = store[W][k]
      BY <2>1, <3>1, <3>2 DEF Newest, Apply
    <3> QED BY <1>4, <1>6, <2>1, <2>2, <2>3, <3>3 DEF Follows
  <2>4. CASE Tail(q) # <<>>
    <3>1. Tail(q)[Len(Tail(q))] = q[Len(q)]
      BY <1>2, <2>4, TailLast
    <3> QED BY <2>1, <2>2, <2>4, <3>1 DEF Follows, Newest
  <2> QED BY <2>3, <2>4
<1> QED BY <1>5, <1>6

\* MIGRATE brings the owner's value, which is the sole writer's.
LEMMA RestoreLeads ==
  ASSUME TypeOK, Setup, NEW b \in Receivers, NEW S \in SUBSET Present,
         Restored(b, S), UNCHANGED <<writers, link>>, NEW k \in Key,
         NEW W \in Node, NEW d \in Node, Sole(k, W), Follows(W, d, k)
  PROVE  Follows(W, d, k)'
<1>1. W = Owner /\ link[W][d][k] = <<>>
  BY DEF Setup, Traffic, Sole, Restored
<1>2. b # Owner
  BY MembersAreNodes
<1>3. /\ store'[W][k] = store[W][k]
      /\ store'[d][k] = store[d][k] \/ store'[d][k] = store[W][k]
  BY <1>1, <1>2, ConstantsAssumption DEF Restored
<1> QED BY <1>1, <1>3 DEF Follows, Exists

\* Every step keeps the copies behind the sole writer of a clean key.
LEMMA LeadStep ==
  ASSUME WriteSets \subseteq {Field}, TypeOK, MembershipInv, Setup, SoleLeads,
         [CopyNext]_allVars
  PROVE  SoleLeads'
<1>0. ASSUME faults' = faults, NEW k \in Key \ dirty', NEW W \in Node, Sole(k, W),
             NEW d \in Node, faults = 0
      PROVE  Follows(W, d, k)
  BY <1>0, DirtyGrows DEF SoleLeads
<1>1. ASSUME UNCHANGED <<store, link, writers>>, faults' = 0 => faults = 0
      PROVE  SoleLeads'
  BY <1>1, DirtyGrows DEF SoleLeads, Sole, Follows, Newest, Exists
<1>2. CASE SetHotSlot
  BY <1>1, <1>2 DEF SetHotSlot, HotGroupAdd, netVars, histVars
<1>3. CASE StartCopy \/ EndCopy
  BY <1>1, <1>3
  DEF StartCopy, EndCopy, SetSlotCopying, SetSlotFincopy, netVars, histVars
<1>4. CASE AskStep \/ UNCHANGED vars
  BY <1>1, <1>4 DEF AskStep, vars, netVars, histVars
<1>5. CASE RestoreStep
  <2>1. CASE faults' = faults
    <3>1. PICK S \in SUBSET Present : Restore(Head(queue), S)
      BY <1>5 DEF RestoreStep
    <3>2. queue # <<>> /\ queue \in Seq(Receivers)
      BY <1>5 DEF RestoreStep, Setup, ManagerOK, AtPage
    <3>3. Head(queue) \in Receivers /\ Head(queue) \in Node
      BY <3>2, MembersAreNodes
    <3>4. Restored(Head(queue), S)
      BY <1>5, <3>1, <3>3, RestoreEffect DEF Restored, RestoreStep, AtPage
    <3>5. UNCHANGED <<writers, link>>
      BY <3>1 DEF Restore, netVars, histVars
    <3>6. ASSUME faults' = 0, NEW k \in Key \ dirty', NEW W \in Node,
                 Sole(k, W)', NEW d \in Node
          PROVE  Follows(W, d, k)'
      <4>1. Sole(k, W)
        BY <3>5, <3>6 DEF Sole
      <4>2. Follows(W, d, k)
        BY <1>0, <2>1, <3>6, <4>1
      <4> QED BY <3>3, <3>4, <3>5, <4>1, <4>2, RestoreLeads
    <3> QED BY <3>6 DEF SoleLeads
  <2>2. CASE faults' # faults
    <3>1. faults' = faults + 1 /\ faults \in Nat
      BY <1>5, <2>2 DEF RestoreStep, TypeOK
    <3> QED BY <3>1 DEF SoleLeads
  <2> QED BY <2>1, <2>2
<1>6. CASE ClientStep
  <2>1. CASE NothingWritten
    BY <1>1, <2>1 DEF NothingWritten
  <2>2. ASSUME NEW n \in Members, NEW j \in Key, NEW F \in WriteSets,
               cli # "done" => n = Owner, Wrote(n, j, F)
        PROVE  SoleLeads'
    <3>0. n \in Node
      BY MembersAreNodes
    <3>1. CASE faults' = faults + 1
      BY <3>1 DEF SoleLeads, TypeOK
    <3>2. CASE faults' # faults + 1
      <4>1. /\ store' = [store EXCEPT ![n][j] = Apply(@, NewOp(n, F))]
            /\ faults' = faults
        BY <2>2, <3>2 DEF Wrote
      <4>2. ASSUME faults' = 0, NEW k \in Key \ dirty', NEW W \in Node,
                   Sole(k, W)', NEW d \in Node
            PROVE  Follows(W, d, k)'
        <5>1. CASE k = j
          <6>1. writers'[k] = writers[k] \cup {n}
            BY <2>2, <5>1 DEF Wrote, TypeOK
          <6>2. W = n
            BY <4>2, <6>1 DEF Sole
          <6>3. k \in Key /\ k \notin dirty' /\ faults = 0 /\ Wrote(n, k, F)
            BY <2>2, <4>1, <4>2, <5>1
          <6>4. store' = [store EXCEPT ![n][k] = Apply(@, NewOp(n, F))]
            BY <4>1, <5>1
          <6> QED BY <1>6, <2>2, <6>2, <6>3, <6>4, WriteLeads
        <5>2. CASE k # j
          <6>1. /\ \A m \in Node : store'[m][k] = store[m][k]
                /\ \A m \in Node : link'[W][m][k] = link[W][m][k]
                /\ writers'[k] = writers[k]
            <7>1. \A m \in Node : store'[m][k] = store[m][k]
              BY <3>0, <4>1, <5>2, WriteChanges
            <7>2. \A m \in Node : link'[W][m][k] = link[W][m][k]
              BY <2>2, <5>2 DEF Wrote, SentTo
            <7> QED BY <2>2, <5>2, <7>1, <7>2 DEF Wrote, TypeOK
          <6>2. Sole(k, W)
            BY <4>2, <6>1 DEF Sole
          <6>3. Follows(W, d, k)
            BY <1>0, <4>1, <4>2, <6>2
          <6> QED BY <6>1, <6>3 DEF Follows, Newest, Exists
        <5> QED BY <5>1, <5>2
      <4> QED BY <4>2 DEF SoleLeads
    <3> QED BY <3>1, <3>2
  <2> QED BY <1>6, <2>1, <2>2, RequestEffect DEF ClientStep
<1>7. ASSUME NEW n \in Node, updateCachedTime(n)
      PROVE  SoleLeads'
  BY <1>1, <1>7 DEF updateCachedTime, netVars, histVars
<1>8. ASSUME NEW s \in Node, NEW b \in Node, NEW j \in Key, ReceiveSync(s, b, j)
      PROVE  SoleLeads'
  <2>1. Received(s, b, j) /\ UNCHANGED writers
    BY <1>8, ReceiveEffect DEF ReceiveSync, histVars
  <2>2. CASE faults' = faults + 1
    BY <2>2 DEF SoleLeads, TypeOK
  <2>3. CASE faults' # faults + 1
    <3>1. /\ store' = [store EXCEPT ![b][j] = Apply(@, Head(link[s][b][j]))]
          /\ faults' = faults
      BY <2>1, <2>3 DEF Received
    <3>2. ASSUME faults' = 0, NEW k \in Key \ dirty', NEW W \in Node,
                 Sole(k, W)', NEW d \in Node
          PROVE  Follows(W, d, k)'
      <4>1. Sole(k, W)
        BY <2>1, <3>2 DEF Sole
      <4>2. Follows(W, d, k)
        BY <1>0, <3>1, <3>2, <4>1
      <4>3. CASE k = j
        BY <2>1, <3>1, <4>1, <4>2, <4>3, ReceiveLeads
      <4>4. CASE k # j
        <5>1. \A m \in Node : link'[W][m][k] = link[W][m][k]
          BY <2>1, <4>4 DEF Received
        <5>2. \A m \in Node : store'[m][k] = store[m][k]
          <6> DEFINE hash == Apply(store[b][j], Head(link[s][b][j]))
          <6>1. store' = [store EXCEPT ![b][j] = hash]
            BY <3>1
          <6> HIDE DEF hash
          <6> QED BY <4>4, <6>1 DEF TypeOK
        <5> QED BY <4>2, <5>1, <5>2 DEF Follows, Newest, Exists
      <4> QED BY <4>3, <4>4
    <3> QED BY <3>2 DEF SoleLeads
  <2> QED BY <2>2, <2>3
<1>9. ASSUME NEW s \in Node, NEW d \in Node, ReceiveHotGroup(s, d)
      PROVE  SoleLeads'
  BY <1>1, <1>9 DEF ReceiveHotGroup, netVars, histVars
<1> QED
  BY <1>2, <1>3, <1>4, <1>5, <1>6, <1>7, <1>8, <1>9, StepKinds

\* Nothing is under way at the start, and only the owner has keys.
LEMMA LeadInit ==
  ASSUME CopyInit
  PROVE  SoleLeads
<1>1. \A s, d \in Node, k \in Key : link[s][d][k] = <<>>
  BY DEF CopyInit, Init, ServerInit
<1>2. \A d \in Node \ {Owner}, k \in Key : ~Exists(d, k)
  BY DEF CopyInit, Init, Empty, NoHash, Exists
<1>3. \A k \in Key : writers[k] = {}
  BY DEF CopyInit, Init, ServerInit
<1> QED
  BY <1>1, <1>2, <1>3 DEF SoleLeads, Sole, Follows

\* When the updates of a clean key have arrived, its copies are equal.
LEMMA LeadsAgree ==
  ASSUME TypeOK, Setup, SoleLeads
  PROVE  CopyAgrees
<1> SUFFICES ASSUME faults = 0, NEW k \in Key \ dirty,
                    Cardinality(writers[k]) <= 1, Quiet(k)
             PROVE  CopiesAgree(k)
  BY DEF CopyAgrees, Established
<1>1. IsFiniteSet(writers[k]) /\ writers[k] \subseteq Node
  BY DEF Setup, Traffic, TypeOK
<1>2. PICK W \in Node : Sole(k, W)
  <2>1. CASE writers[k] = {}
    BY <2>1, ConstantsAssumption DEF Sole
  <2>2. CASE writers[k] # {}
    <3>1. PICK n : n \in writers[k]
      BY <2>2
    <3>2. \A m \in writers[k] : m = n
      <4> SUFFICES ASSUME NEW m \in writers[k], m # n
                   PROVE  FALSE
        OBVIOUS
      <4>1. {n, m} \subseteq writers[k] /\ IsFiniteSet({n, m})
        BY <1>1, <3>1, FS_Subset
      <4>2. Cardinality({n, m}) <= Cardinality(writers[k])
        BY <1>1, <4>1, FS_Subset
      <4>3. Cardinality({n, m}) = 2
        <5>1. IsFiniteSet({n}) /\ Cardinality({n}) = 1
          BY FS_Singleton
        <5>2. Cardinality({n} \cup {m}) = Cardinality({n}) + 1
          BY <5>1, FS_AddElement
        <5>3. {n} \cup {m} = {n, m}
          OBVIOUS
        <5> QED BY <5>1, <5>2, <5>3
      <4>4. Cardinality(writers[k]) \in Nat
        BY <1>1, FS_CardinalityType
      <4> QED BY <4>2, <4>3, <4>4
    <3>3. writers[k] = {n} /\ n \in Node
      BY <1>1, <3>1, <3>2
    <3> QED BY <3>3 DEF Sole
  <2> QED BY <2>1, <2>2
<1>3. ASSUME NEW d \in Node, Exists(d, k)
      PROVE  store[d][k] = store[W][k]
  <2>1. Follows(W, d, k) /\ link[W][d][k] = <<>>
    BY <1>2 DEF SoleLeads, Quiet
  <2> QED BY <1>3, <2>1 DEF Follows
<1> QED BY <1>3 DEF CopiesAgree

\* After the copy, for any number of keys, targets, clients and pages and any
\* interleaving of the script, the clients and the bus, the copies of a key
\* that no client changed while the copy was made, and that one node at most
\* ever writes, are equal once its updates have arrived.  The writes set whole
\* hashes: without that a copy that is given up because the values of a page
\* differ leaves a target without some keys, and a later update of single fields
\* creates them there with these fields alone.
THEOREM CopiesEndEqual ==
  ASSUME WriteSets \subseteq {Field}
  PROVE  CopySpec => []CopyAgrees
<1> DEFINE Inv == TypeOK /\ MembershipInv /\ Setup /\ SoleLeads
<1>1. CopyInit => Inv
  BY SetupInit, LeadInit
<1>2. Inv /\ [CopyNext]_allVars => Inv'
  BY SetupStep, LeadStep
<1>3. Inv => CopyAgrees
  BY LeadsAgree
<1> QED
  BY <1>1, <1>2, <1>3, PTL DEF CopySpec

-----------------------------------------------------------------------------
(* Pages.                                                                  *)

\* Every set of numbers that is not empty has a least element.
LEMMA Least ==
  ASSUME NEW T \in SUBSET Nat, T # {}
  PROVE  \E x \in T : \A y \in T : x <= y
<1>1. \E R : /\ IsWellFoundedOn(R, Nat)
             /\ \A x, y \in Nat : <<x, y>> \in R <=> x < y
  <2> DEFINE R == OpToRel(<, Nat)
  <2>1. IsWellFoundedOn(R, Nat)
    BY NatLessThanWellFounded
  <2>2. \A x, y \in Nat : <<x, y>> \in R <=> x < y
    BY DEF OpToRel
  <2> HIDE DEF R
  <2> QED BY <2>1, <2>2
<1>2. PICK R : /\ IsWellFoundedOn(R, Nat)
               /\ \A x, y \in Nat : <<x, y>> \in R <=> x < y
  BY <1>1
<1>3. IsWellFoundedOn(R, Nat) /\ T \subseteq Nat
  BY <1>2
<1>4. \E x \in T : \A y \in T : ~(<<y, x>> \in R)
  BY <1>3, WFMin, Zenon
<1>5. PICK x \in T : \A y \in T : ~(<<y, x>> \in R)
  BY <1>4
<1>6. ASSUME NEW y \in T
      PROVE  x <= y
  <2>1. x \in Nat /\ y \in Nat /\ ~(<<y, x>> \in R)
    BY <1>3, <1>5
  <2>2. ~(y < x)
    BY <1>2, <2>1
  <2> QED BY <2>1, <2>2
<1> QED BY <1>6

\* A key of the index has a place in it.
LEMMA RankType ==
  ASSUME NEW S \in SUBSET Key, NEW k \in S
  PROVE  Rank(S, k) \in Nat /\ Rank(S, k) >= 1
<1> DEFINE L == {j \in S : j <= k}
<1>1. L \subseteq Key /\ IsFiniteSet(L)
  BY FS_Subset, ConstantsAssumption
<1>2. k \in L
  BY CopyAssumption
<1>3. Cardinality(L) \in Nat /\ Cardinality(L) # 0
  BY <1>1, <1>2, FS_CardinalityType, FS_EmptySet
<1> QED BY <1>3 DEF Rank

\* The key before k in the index has the place before that of k.
LEMMA RankBefore ==
  ASSUME NEW S \in SUBSET Key, NEW k \in S, Rank(S, k) > 1
  PROVE  \E j \in S : j < k /\ Rank(S, j) = Rank(S, k) - 1
<1> DEFINE L == {i \in S : i <= k}
           P == {i \in S : i < k}
<1>1. \A i \in S : i \in Nat
  BY CopyAssumption
<1>2. L \in SUBSET Key /\ P \in SUBSET Key
  OBVIOUS
<1>3. IsFiniteSet(P) /\ Cardinality(P) \in Nat
  BY <1>2, FS_Subset, FS_CardinalityType, ConstantsAssumption
<1>4. k \notin P /\ L = P \cup {k}
  <2>1. \A i \in S : i <= k <=> i < k \/ i = k
    BY <1>1
  <2>2. ~(k < k)
    BY <1>1
  <2> QED BY <2>1, <2>2, Zenon
<1>5. Rank(S, k) = Cardinality(L)
  BY Zenon DEF Rank
<1> HIDE DEF L
<1>6. Cardinality(L) = Cardinality(P) + 1
  BY <1>3, <1>4, FS_AddElement
<1>7. Cardinality(P) = Rank(S, k) - 1 /\ P # {}
  BY <1>3, <1>5, <1>6, FS_EmptySet
<1> DEFINE T == {k - i : i \in P}
<1>8. T \in SUBSET Nat /\ T # {}
  <2>1. \A i \in P : k - i \in Nat
    BY <1>1
  <2> QED BY <1>7, <2>1
<1>9. PICK x \in T : \A y \in T : x <= y
  BY <1>8, Least
<1>10. PICK m \in P : x = k - m
  OBVIOUS
<1>11. m \in S /\ m < k /\ m \in Nat /\ k \in Nat
  BY <1>1
<1>12. \A i \in S : i <= m <=> i < k
  <2> SUFFICES ASSUME NEW i \in S
               PROVE  i <= m <=> i < k
    OBVIOUS
  <2>1. i \in Nat
    BY <1>1
  <2>2. ASSUME i < k
        PROVE  i <= m
    <3>1. k - i \in T
      BY <2>2
    <3>2. k - m <= k - i
      BY <1>9, <1>10, <3>1
    <3> QED BY <1>11, <2>1, <3>2
  <2> QED BY <1>11, <2>1, <2>2
<1>13. Rank(S, m) = Cardinality(P)
  <2>1. {i \in S : i <= m} = P
    BY <1>12, Zenon
  <2> QED BY <2>1, Zenon DEF Rank
<1> QED BY <1>7, <1>11, <1>13

\* No place of the index is empty: if a key comes after the first o keys, the
\* place after these is taken.
LEMMA RankGap ==
  ASSUME NEW S \in SUBSET Key, NEW o \in Nat, NEW k \in S, Rank(S, k) > o
  PROVE  \E j \in S : Rank(S, j) = o + 1
<1> DEFINE T == {j \in S : Rank(S, j) > o}
<1>1. T \in SUBSET Nat /\ T # {}
  BY CopyAssumption
<1>2. PICK x \in T : \A y \in T : x <= y
  BY <1>1, Least
<1>3. Rank(S, x) \in Nat /\ Rank(S, x) >= 1 /\ x \in Nat
  BY <1>1, RankType
<1>4. CASE Rank(S, x) = o + 1
  BY <1>4
<1>5. CASE Rank(S, x) # o + 1
  <2>1. Rank(S, x) > o + 1
    BY <1>3, <1>5
  <2>2. PICK j \in S : j < x /\ Rank(S, j) = Rank(S, x) - 1
    BY <1>3, <2>1, RankBefore
  <2>3. j \in T /\ j \in Nat
    BY <1>1, <1>3, <2>1, <2>2
  <2> QED BY <1>2, <1>3, <2>2, <2>3
<1> QED BY <1>4, <1>5

\* A page is empty only when all keys were listed.
LEMMA LastPage ==
  ASSUME NEW S \in SUBSET Key, NEW o \in Nat, NEW k \in S,
         getKeysInSlot(S, Pipeline, o) = {}
  PROVE  Rank(S, k) <= o
<1>1. Pipeline \in Nat /\ Pipeline >= 1 /\ Rank(S, k) \in Nat
  BY CopyAssumption, RankType
<1>2. ASSUME Rank(S, k) > o
      PROVE  FALSE
  <2>1. PICK j \in S : Rank(S, j) = o + 1
    BY <1>2, RankGap
  <2>2. o + 1 \in (o + 1)..(o + Pipeline)
    BY <1>1
  <2> QED BY <2>1, <2>2 DEF getKeysInSlot
<1> QED BY <1>1, <1>2

-----------------------------------------------------------------------------
(* The keys the copy of a slot brings to its targets.                      *)

Keys == {k \in Key : Exists(Owner, k)}
Complete(d) == \A k \in Keys : Exists(d, k)
Untried(d) == \A k \in Key : ~Exists(d, k)

\* How many keys of the index were listed and sent.
Listed == IF cli = "list" THEN offset ELSE offset - Pipeline

\* The target has what was sent so far and nothing else.
Partial(d) ==
  /\ cli \in {"list", "migrate"}
  /\ \A k \in Key : Exists(d, k) <=> k \in Keys /\ Rank(Keys, k) <= Listed

Due(d) == d \in Queued /\ IF d = Head(queue) THEN Partial(d) ELSE Untried(d)

\* Strengthening of CopyComplete, which only speaks of the end: what each
\* target has at every point of the script.  A page whose comparison finds a
\* difference ends the copy to its target, but a page is only compared when the
\* target is one that was named before, and is complete.
Pages ==
  faults = 0 /\ dirty \subseteq Stored =>
    /\ Working => \A d \in Receivers : Complete(d) \/ Due(d)
    /\ cli = "migrate" => page = getKeysInSlot(Keys, Pipeline, offset - Pipeline)
    /\ cli = "done" => \A d \in Receivers, k \in Stored : Exists(d, k)

\* The state changed, but not in what keys exist.
SameKeys == \A n \in Node, k \in Key : Exists(n, k)' <=> Exists(n, k)

LEMMA SameKeysKeep ==
  ASSUME SameKeys, NEW d \in Node
  PROVE  /\ Keys' = Keys
         /\ Complete(d)' <=> Complete(d)
         /\ Untried(d)' <=> Untried(d)
<1>1. Keys' = Keys
  BY ConstantsAssumption DEF SameKeys, Keys
<1>2. Keys \subseteq Key
  BY DEF Keys
<1> QED BY <1>1, <1>2 DEF SameKeys, Complete, Untried

\* As long as the script rests and no key is created, the pages stay as they
\* are.
LEMMA PagesRest ==
  ASSUME Pages, SameKeys, UNCHANGED <<cli, queue, offset, page>>,
         faults' = 0 => faults = 0, dirty \subseteq dirty'
  PROVE  Pages'
<1>1. Keys' = Keys /\ Listed' = Listed /\ Queued' = Queued /\ Working' = Working
  BY SameKeysKeep, ConstantsAssumption DEF Listed, Queued, Working, AtPage
<1>2. ASSUME NEW d \in Receivers
      PROVE  /\ Complete(d)' <=> Complete(d)
             /\ Due(d)' <=> Due(d)
  <2>1. d \in Node
    BY MembersAreNodes
  <2>2. Partial(d)' <=> Partial(d)
    BY <1>1, <2>1 DEF Partial, SameKeys
  <2> QED BY <1>1, <2>1, <2>2, SameKeysKeep DEF Due
<1>3. \A d \in Receivers, k \in Stored : Exists(d, k)' <=> Exists(d, k)
  BY MembersAreNodes, ConstantsAssumption DEF SameKeys
<1> QED BY <1>1, <1>2, <1>3 DEF Pages

\* The next target of the list has nothing yet, or all there is.
LEMMA TargetDone ==
  ASSUME Setup, Working, queue # <<>>, UNCHANGED store, NextTarget,
         Complete(Head(queue)), \A d \in Receivers : Complete(d) \/ Due(d)
  PROVE  \A d \in Receivers : Complete(d)' \/ Due(d)'
<1>1. SameKeys
  BY DEF SameKeys, Exists
<1>2. Queued \ {Head(queue)} \subseteq Queued'
  BY TailQueued DEF Setup, NextTarget
<1>3. ASSUME NEW d \in Receivers, ~Complete(d)
      PROVE  Due(d)'
  <2>1. d \in Node
    BY MembersAreNodes
  <2>2. d # Head(queue) /\ d \in Queued' /\ Untried(d)
    BY <1>2, <1>3 DEF Due
  <2>3. Keys' = Keys /\ Keys \in SUBSET Key /\ Untried(d)'
    BY <1>1, <2>1, <2>2, SameKeysKeep DEF Keys
  <2>4. Partial(d)'
    <3>1. cli' = "list" /\ Listed' = 0
      BY DEF NextTarget, Listed
    <3>2. \A k \in Keys : ~(Rank(Keys, k) <= 0)
      BY <2>3, RankType
    <3> QED BY <2>3, <3>1, <3>2 DEF Partial, Untried
  <2> QED BY <2>2, <2>3, <2>4 DEF Due
<1> QED
  BY <1>1, <1>3, SameKeysKeep, MembersAreNodes

\* The copy begins with targets that have no key.
LEMMA PagesStart ==
  ASSUME TypeOK, Setup, StartCopy
  PROVE  Pages'
<1>1. /\ cli = "group" /\ offset' = 0 /\ cli' = "list" /\ queue' = Targets
      /\ store' = store
  BY DEF StartCopy, SetSlotCopying, Setup, ManagerOK
<1>2. SameKeys
  BY <1>1 DEF SameKeys, Exists
<1>3. ASSUME NEW d \in Receivers
      PROVE  Due(d)'
  <2>1. d \in Node /\ d # Owner
    BY MembersAreNodes
  <2>2. d \in Queued'
    BY <1>1 DEF Queued, Receivers
  <2>3. Untried(d)
    BY <1>1, <2>1 DEF Setup, Values, Untried
  <2>4. Keys' = Keys /\ Keys \in SUBSET Key /\ Untried(d)'
    BY <1>2, <2>1, <2>3, SameKeysKeep DEF Keys
  <2>5. Partial(d)'
    <3>1. Listed' = 0
      BY <1>1 DEF Listed
    <3>2. \A k \in Keys : ~(Rank(Keys, k) <= 0)
      BY <2>4, RankType
    <3> QED BY <1>1, <2>4, <3>1, <3>2 DEF Partial, Untried
  <2> QED BY <2>2, <2>4, <2>5 DEF Due
<1> QED BY <1>1, <1>3 DEF Pages

\* Listing a page, or comparing one, leaves the targets as they are; the target
\* is given up only when it is complete.
LEMMA PagesAsk ==
  ASSUME TypeOK, Setup, Pages, AskStep
  PROVE  Pages'
<1> SUFFICES ASSUME faults' = 0, dirty' \subseteq Stored
             PROVE  Pages'
  BY DEF Pages
<1>1. /\ faults = 0 /\ dirty \subseteq Stored /\ Working /\ queue # <<>>
      /\ queue \in Seq(Receivers) /\ offset \in Nat
  BY DEF AskStep, vars, ListPage, ReadDigest, ComparePage, Working, AtPage,
         Setup, ManagerOK
<1>2. \A d \in Receivers : Complete(d) \/ Due(d)
  BY <1>1 DEF Pages
<1>3. SameKeys /\ UNCHANGED store
  BY DEF AskStep, vars, SameKeys, Exists
<1>4. /\ Head(queue) \in Receivers /\ Head(queue) \in Node
      /\ \A d \in Receivers : d \in Node
  BY <1>1, MembersAreNodes
<1>5. Keys' = Keys /\ Keys \in SUBSET Key
  BY <1>3, <1>4, SameKeysKeep DEF Keys
<1>6. ASSUME NextTarget, Complete(Head(queue))
      PROVE  Pages'
  <2>1. \A d \in Receivers : Complete(d)' \/ Due(d)'
    BY <1>1, <1>2, <1>3, <1>6, TargetDone
  <2> QED BY <1>6, <2>1 DEF Pages, NextTarget
<1>7. CASE ListPage
  <2> DEFINE keys == getKeysInSlot(Keys, Pipeline, offset)
  <2>1. CASE keys = {}
    <3>1. NextTarget
      BY <1>7, <2>1 DEF ListPage, Keys
    <3>2. \A k \in Keys : Rank(Keys, k) <= offset
      BY <1>1, <1>5, <2>1, LastPage
    <3>3. cli = "list" /\ Listed = offset
      BY <1>7 DEF ListPage, Listed
    <3>4. Complete(Head(queue))
      BY <1>2, <1>4, <1>5, <3>2, <3>3 DEF Due, Partial, Complete
    <3> QED BY <1>6, <3>1, <3>4
  <2>2. CASE keys # {}
    <3>1. /\ cli = "list" /\ cli' = "migrate" /\ queue' = queue
          /\ page' = keys /\ offset' = offset + Pipeline
      BY <1>7, <2>2 DEF ListPage, Keys
    <3>2. offset' - Pipeline = offset /\ Listed = offset /\ Listed' = offset
      BY <1>1, <3>1, CopyAssumption DEF Listed
    <3>3. page' = getKeysInSlot(Keys', Pipeline, offset' - Pipeline)
      BY <1>5, <3>1, <3>2
    <3>4. ASSUME NEW d \in Receivers
          PROVE  Complete(d)' \/ Due(d)'
      <4>1. Partial(d) => Partial(d)'
        BY <1>3, <1>4, <1>5, <3>1, <3>2 DEF Partial, SameKeys
      <4>2. Queued' = Queued
        BY <3>1 DEF Queued
      <4> QED BY <1>2, <1>3, <1>4, <3>1, <4>1, <4>2, SameKeysKeep DEF Due
    <3> QED BY <3>1, <3>3, <3>4 DEF Pages
  <2> QED BY <2>1, <2>2
<1>8. CASE ReadDigest \/ ComparePage
  <2>1. cli \in {"digest", "compare"}
    BY <1>8 DEF ReadDigest, ComparePage
  <2>2. Complete(Head(queue))
    BY <1>2, <1>4, <2>1 DEF Due, Partial
  <2>3. CASE NextTarget
    BY <1>6, <2>2, <2>3
  <2>4. CASE UNCHANGED queue /\ cli' \in {"compare", "replace"}
    <3>1. ASSUME NEW d \in Receivers
          PROVE  Complete(d)' \/ Due(d)'
      <4>1. Complete(d) \/ (d # Head(queue) /\ d \in Queued /\ Untried(d))
        BY <1>2, <2>2 DEF Due
      <4>2. Queued' = Queued /\ Head(queue)' = Head(queue)
        BY <2>4 DEF Queued
      <4> QED BY <1>3, <1>4, <4>1, <4>2, SameKeysKeep DEF Due
    <3> QED BY <2>4, <3>1 DEF Pages
  <2> QED BY <1>8, <2>3, <2>4 DEF ReadDigest, ComparePage
<1> QED BY <1>7, <1>8 DEF AskStep

\* A page that is sent adds its keys to those the target has: to a target that
\* has what was sent before, they are all new.
LEMMA PagesRestore ==
  ASSUME TypeOK, Setup, Pages, RestoreStep, faults' = faults
  PROVE  Pages'
<1> SUFFICES ASSUME faults = 0, dirty \subseteq Stored
             PROVE  Pages'
  BY DEF Pages, RestoreStep
<1>1. /\ Working /\ queue # <<>> /\ queue \in Seq(Receivers) /\ offset \in Nat
      /\ cli' \in {"list", "digest"} /\ cli # "list" /\ Listed = offset - Pipeline
  BY DEF RestoreStep, Working, AtPage, Setup, ManagerOK, Listed
<1>2. \A e \in Receivers : Complete(e) \/ Due(e)
  BY <1>1 DEF Pages
<1>3. PICK d \in Receivers : d = Head(queue)
  BY <1>1
<1>4. d \in Node /\ d # Owner /\ \A e \in Receivers : e \in Node
  BY MembersAreNodes
<1>5. /\ MigratePage \/ ReplacePage
      /\ queue' = queue /\ Queued' = Queued
  <2>1. ~PageFails /\ ~PageBusy
    BY DEF PageFails, PageBusy, Fault, TypeOK
  <2>2. queue' = queue
    BY <2>1 DEF RestoreStep, MigratePage, ReplacePage, NextPage
  <2> QED BY <2>1, <2>2 DEF RestoreStep, Queued
<1>6. PICK S \in SUBSET Present : Restore(d, S)
  BY <1>3 DEF RestoreStep
<1>7. \A n \in Node, k \in Key : Exists(n, k)' <=> Exists(n, k) \/ (n = d /\ k \in S)
  <2>1. \A k \in S : Exists(Owner, k)
    BY <1>6 DEF Present
  <2>2. \A n \in Node, k \in Key :
          store'[n][k] = IF n = d /\ k \in S THEN store[Owner][k] ELSE store[n][k]
    BY <1>4, <1>6, RestoreEffect
  <2> QED BY <2>1, <2>2 DEF Exists
<1>8. Keys' = Keys /\ Keys \in SUBSET Key
  BY <1>4, <1>7, ConstantsAssumption DEF Keys
<1>9. ASSUME NEW e \in Receivers, e # d
      PROVE  Complete(e)' \/ Due(e)'
  <2>1. \A k \in Key : Exists(e, k)' <=> Exists(e, k)
    BY <1>4, <1>7, <1>9
  <2>2. Complete(e) \/ (e \in Queued /\ Untried(e))
    BY <1>2, <1>3, <1>9 DEF Due
  <2>3. e # Head(queue')
    BY <1>3, <1>5, <1>9
  <2> QED BY <1>5, <1>8, <2>1, <2>2, <2>3 DEF Due, Complete, Untried
<1>10. CASE Complete(d)
  <2>1. Complete(d)'
    BY <1>4, <1>7, <1>8, <1>10 DEF Complete
  <2> QED BY <1>1, <1>9, <2>1 DEF Pages
<1>11. CASE ~Complete(d)
  <2>1. Due(d) /\ Partial(d)
    BY <1>2, <1>3, <1>11 DEF Due
  <2>2. cli = "migrate" /\ MigratePage
    BY <1>1, <1>5, <2>1 DEF Partial, ReplacePage
  <2>3. page = getKeysInSlot(Keys, Pipeline, offset - Pipeline)
    BY <2>2 DEF Pages
  <2>4. \A k \in Key :
          k \in page <=> /\ k \in Keys
                         /\ Rank(Keys, k) <= offset
                         /\ ~(Rank(Keys, k) <= offset - Pipeline)
    <3>1. \A k \in Keys : Rank(Keys, k) \in Nat
      BY <1>8, RankType
    <3> QED
      BY <1>1, <1>8, <2>3, <3>1, CopyAssumption DEF getKeysInSlot
  <2>5. Present = page /\ page \subseteq Keys
    BY <2>3 DEF Present, Keys, getKeysInSlot
  <2>6. \A k \in Key : Exists(d, k) <=> k \in Keys /\ Rank(Keys, k) <= offset - Pipeline
    BY <1>1, <2>1 DEF Partial
  <2>7. {k \in Present : Exists(d, k)} = {}
    BY <1>8, <2>4, <2>5, <2>6
  <2>8. Restore(d, page) /\ NextPage
    BY <1>3, <2>2, <2>5, <2>7 DEF MigratePage
  <2>9. \A k \in Key : Exists(d, k)' <=> Exists(d, k) \/ k \in page
    <3>1. \A k \in Key : store'[d][k] = IF k \in page THEN store[Owner][k]
                                                     ELSE store[d][k]
      BY <1>4, <2>8, RestoreEffect
    <3>2. \A k \in page : Exists(Owner, k)
      BY <2>5 DEF Present
    <3> QED BY <3>1, <3>2 DEF Exists
  <2>10. cli' = "list" /\ Listed' = offset
    BY <2>8 DEF NextPage, Listed
  <2>11. \A k \in Keys : Rank(Keys, k) <= offset - Pipeline => Rank(Keys, k) <= offset
    <3>1. \A k \in Keys : Rank(Keys, k) \in Nat
      BY <1>8, RankType
    <3> QED BY <1>1, <3>1, CopyAssumption
  <2>12. Partial(d)'
    BY <1>8, <2>4, <2>6, <2>9, <2>10, <2>11 DEF Partial
  <2>13. Due(d)'
    BY <1>3, <1>5, <2>1, <2>12 DEF Due
  <2> QED BY <1>9, <2>10, <2>13 DEF Pages
<1> QED BY <1>10, <1>11

\* A client that creates no key while the copy is made leaves the index as it
\* is: only the owner serves, and what it is asked to write exists.
LEMMA ClientKeepsKeys ==
  ASSUME TypeOK, Setup, ClientStep, Working, dirty' \subseteq Stored
  PROVE  SameKeys
<1>0. /\ Owner \in Node /\ cli # "done" /\ Forming
      /\ \A k \in Stored : Exists(Owner, k)
  BY ConstantsAssumption DEF Working, AtPage, Forming, Setup, Values
<1>1. CASE NothingWritten
  BY <1>1 DEF NothingWritten, SameKeys, Exists
<1>2. ASSUME NEW n \in Members, NEW j \in Key, NEW F \in WriteSets,
             cli # "done" => n = Owner, Wrote(n, j, F)
      PROVE  SameKeys
  <2>1. CASE store' = store
    BY <2>1 DEF SameKeys, Exists
  <2>2. CASE store' = [store EXCEPT ![n][j] = Apply(@, NewOp(n, F))]
    <3>1. n = Owner
      BY <1>0, <1>2
    <3>2. /\ \A m \in Node, k \in Key :
               store'[m][k] = IF m = n /\ k = j
                              THEN Apply(store[n][j], NewOp(n, F))
                              ELSE store[m][k]
          /\ store'[n][j] # store[n][j]
      <4>1. n \in Node
        BY <1>0, <3>1
      <4> QED BY <2>2, <4>1, WriteChanges
    <3>3. j \in dirty'
      BY <1>0, <3>1, <3>2 DEF ClientStep
    <3>4. Exists(n, j)
      BY <1>0, <3>1, <3>3
    <3>5. Exists(n, j)'
      <4>1. [CopyNext]_allVars
        BY DEF CopyNext
      <4> QED BY <1>0, <3>1, <3>4, <4>1, ExistsStays
    <3> QED BY <3>2, <3>4, <3>5 DEF SameKeys, Exists
  <2> QED BY <1>2, <2>1, <2>2 DEF Wrote
<1> QED BY <1>1, <1>2, RequestEffect DEF ClientStep

\* Faults only add up.
LEMMA FaultsGrow ==
  ASSUME TypeOK, Setup, [CopyNext]_allVars, faults' = 0
  PROVE  faults = 0
<1>1. CASE SetHotSlot \/ StartCopy \/ EndCopy
  BY <1>1 DEF SetHotSlot, HotGroupAdd, StartCopy, EndCopy, SetSlotCopying,
              SetSlotFincopy
<1>2. CASE AskStep \/ UNCHANGED vars
  BY <1>2 DEF AskStep, vars
<1>3. CASE RestoreStep
  BY <1>3 DEF RestoreStep, TypeOK
<1>4. CASE ClientStep
  BY <1>4, RequestEffect DEF ClientStep, NothingWritten, Wrote, TypeOK
<1>5. ASSUME NEW n \in Node, updateCachedTime(n)
      PROVE  faults = 0
  BY <1>5 DEF updateCachedTime
<1>6. ASSUME NEW s \in Node, NEW d \in Node, NEW k \in Key, ReceiveSync(s, d, k)
      PROVE  faults = 0
  <2>1. Received(s, d, k)
    BY <1>6, ReceiveEffect
  <2> QED BY <2>1 DEF Received, TypeOK
<1>7. ASSUME NEW s \in Node, NEW d \in Node, ReceiveHotGroup(s, d)
      PROVE  faults = 0
  BY <1>7 DEF ReceiveHotGroup
<1> QED
  BY <1>1, <1>2, <1>3, <1>4, <1>5, <1>6, <1>7, StepKinds

\* Every step brings the targets on, or leaves them as they are.
LEMMA PagesStep ==
  ASSUME TypeOK, Setup, Pages, [CopyNext]_allVars
  PROVE  Pages'
<1> SUFFICES ASSUME faults' = 0, dirty' \subseteq Stored
             PROVE  Pages'
  BY DEF Pages
<1>0. faults = 0 /\ dirty \subseteq dirty' /\ dirty \subseteq Stored
  BY FaultsGrow, DirtyGrows
<1>1. CASE cli = "done"
  <2>1. cli' = "done"
    BY <1>1, DoneStays
  <2>2. ASSUME NEW d \in Receivers, NEW k \in Stored
        PROVE  Exists(d, k)'
    <3>1. Exists(d, k) /\ d \in Node /\ k \in Key
      BY <1>0, <1>1, MembersAreNodes, ConstantsAssumption DEF Pages
    <3> QED BY <3>1, ExistsStays
  <2> QED BY <2>1, <2>2 DEF Pages, Working, AtPage
<1>2. ASSUME cli # "done", UNCHANGED cliVars, UNCHANGED store
      PROVE  Pages'
  <2>1. SameKeys
    BY <1>2 DEF SameKeys, Exists
  <2> QED BY <1>0, <1>2, <2>1, PagesRest DEF cliVars
<1>3. CASE SetHotSlot
  BY <1>3 DEF SetHotSlot, Pages, Working, AtPage
<1>4. CASE StartCopy
  BY <1>4, PagesStart
<1>5. CASE EndCopy
  <2>1. /\ cli = "list" /\ queue = <<>> /\ cli' = "done" /\ store' = store
    BY <1>5 DEF EndCopy, SetSlotFincopy
  <2>2. \A d \in Receivers : Complete(d)
    BY <1>0, <2>1 DEF Pages, Working, Due, Queued
  <2>3. \A k \in Stored : k \in Keys
    BY ConstantsAssumption DEF Setup, Values, Keys
  <2>4. \A d \in Receivers, k \in Stored : Exists(d, k)'
    BY <2>1, <2>2, <2>3 DEF Complete, Exists
  <2> QED BY <2>1, <2>4 DEF Pages, Working, AtPage
<1>6. CASE AskStep
  BY <1>6, PagesAsk
<1>7. CASE RestoreStep
  BY <1>0, <1>7, PagesRestore
<1>8. CASE ClientStep /\ cli # "done"
  <2>1. cli \in {"group", "list", "migrate", "digest", "compare", "replace", "done"}
    BY DEF Setup, ManagerOK
  <2>2. UNCHANGED <<cli, queue, offset, page>>
    BY <1>8 DEF ClientStep
  <2>3. CASE Working
    BY <1>0, <1>8, <2>2, <2>3, ClientKeepsKeys, PagesRest
  <2>4. CASE ~Working
    BY <1>8, <2>1, <2>2, <2>4 DEF Pages, Working, AtPage
  <2> QED BY <2>3, <2>4
<1>9. ASSUME cli # "done", NEW n \in Node, updateCachedTime(n), UNCHANGED cliVars
      PROVE  Pages'
  BY <1>2, <1>9 DEF updateCachedTime
<1>10. ASSUME cli # "done", NEW s \in Node, NEW d \in Node, NEW k \in Key,
              ReceiveSync(s, d, k)
       PROVE  FALSE
  BY <1>10, ReceiveEffect DEF Received
<1>11. ASSUME cli # "done", NEW s \in Node, NEW d \in Node,
              ReceiveHotGroup(s, d), UNCHANGED cliVars
       PROVE  Pages'
  BY <1>2, <1>11 DEF ReceiveHotGroup
<1>12. CASE cli # "done" /\ UNCHANGED <<vars, cliVars>>
  BY <1>2, <1>12 DEF vars
<1> QED
  BY <1>1, <1>3, <1>4, <1>5, <1>6, <1>7, <1>8, <1>9, <1>10, <1>11, <1>12, StepKinds

\* For any number of keys, pages and targets, a key the owner had when the copy
\* began is on every target in the end, if every command was answered in time
\* and clients created no key meanwhile.  They may write the keys there are, on
\* a page that is being sent too, and read and write elsewhere.
THEOREM CopyReachesAll ==
  CopySpec => []CopyComplete
<1> DEFINE Inv == TypeOK /\ MembershipInv /\ Setup /\ Pages
<1>1. CopyInit => Inv
  BY SetupInit DEF CopyInit, Pages, Working, AtPage
<1>2. Inv /\ [CopyNext]_allVars => Inv'
  BY SetupStep, PagesStep
<1>3. Inv => CopyComplete
  <2>1. \A i \in 1..Len(Targets) : Targets[i] \in Receivers
    BY DEF Receivers
  <2> QED BY <2>1 DEF CopyComplete, Pages
<1> QED
  BY <1>1, <1>2, <1>3, PTL DEF CopySpec

-----------------------------------------------------------------------------
(* The state the copy leaves behind.                                       *)

\* Strengthening of ReachesEstablished: while no client has written, a key that
\* exists has the value it was loaded with.
Untouched ==
  /\ writes >= 1
  /\ writes = 1 =>
       /\ dirty = {}
       /\ \A k \in Key : writers[k] = {}
       /\ \A n \in Node, k \in Key : Exists(n, k) => store[n][k] = Loaded[k]

\* Without a write the copy moves only what was loaded.
LEMMA UntouchedStep ==
  ASSUME TypeOK, Setup, Untouched, [CopyNext]_allVars
  PROVE  Untouched'
<1>0. /\ writes \in Nat /\ writes' \in Nat /\ writes' >= writes /\ writes >= 1
      /\ Owner \in Node
  BY StoreKinds, ConstantsAssumption DEF TypeOK, Untouched
<1> SUFFICES ASSUME writes' = 1
             PROVE  Untouched'
  BY <1>0 DEF Untouched
<1>1. /\ writes = 1 /\ dirty = {} /\ \A k \in Key : writers[k] = {}
      /\ \A n \in Node, k \in Key : Exists(n, k) => store[n][k] = Loaded[k]
  BY <1>0 DEF Untouched
<1>2. ASSUME UNCHANGED <<store, writers, dirty>>
      PROVE  Untouched'
  BY <1>0, <1>1, <1>2 DEF Untouched, Exists
<1>3. CASE SetHotSlot \/ StartCopy \/ EndCopy
  BY <1>2, <1>3
  DEF SetHotSlot, HotGroupAdd, StartCopy, EndCopy, SetSlotCopying,
      SetSlotFincopy, histVars
<1>4. CASE AskStep \/ UNCHANGED <<vars, cliVars>>
  BY <1>2, <1>4 DEF AskStep, vars, cliVars, histVars
<1>5. CASE RestoreStep
  <2>1. PICK S \in SUBSET Present : Restore(Head(queue), S)
    BY <1>5 DEF RestoreStep
  <2>2. queue # <<>> /\ queue \in Seq(Receivers)
    BY <1>5 DEF RestoreStep, Setup, ManagerOK, AtPage
  <2>3. PICK d \in Node : d = Head(queue)
    BY <2>2, MembersAreNodes
  <2>4. \A n \in Node, k \in Key :
          store'[n][k] = IF n = d /\ k \in S THEN store[Owner][k] ELSE store[n][k]
    BY <2>1, <2>3, RestoreEffect
  <2>5. \A n \in Node, k \in Key : Exists(n, k)' => store'[n][k] = Loaded[k]
    BY <1>0, <1>1, <2>4 DEF Exists, Present
  <2>6. writers' = writers /\ dirty' = dirty
    BY <1>5, <2>1 DEF Restore, histVars, RestoreStep
  <2> QED BY <1>0, <1>1, <2>5, <2>6 DEF Untouched
<1>6. CASE ClientStep
  <2>1. NothingWritten
    BY <1>0, <1>1, <1>6, RequestEffect DEF ClientStep, Wrote
  <2>2. dirty' = dirty
    BY <1>6, <2>1 DEF ClientStep, NothingWritten
  <2> QED BY <1>2, <2>1, <2>2 DEF NothingWritten
<1>7. ASSUME NEW n \in Node, updateCachedTime(n), UNCHANGED cliVars
      PROVE  Untouched'
  BY <1>2, <1>7 DEF updateCachedTime, cliVars, histVars
<1>8. ASSUME NEW s \in Node, NEW d \in Node, NEW k \in Key, ReceiveSync(s, d, k)
      PROVE  FALSE
  <2>1. Received(s, d, k)
    BY <1>8, ReceiveEffect
  <2> QED BY <1>1, <2>1 DEF Received
<1>9. ASSUME NEW s \in Node, NEW d \in Node, ReceiveHotGroup(s, d),
             UNCHANGED cliVars
      PROVE  Untouched'
  BY <1>2, <1>9 DEF ReceiveHotGroup, cliVars, histVars
<1> QED
  BY <1>3, <1>4, <1>5, <1>6, <1>7, <1>8, <1>9, StepKinds

LEMMA UntouchedInit ==
  ASSUME CopyInit
  PROVE  Untouched
BY DEF CopyInit, Init, ServerInit, Untouched, Exists, Loaded, Empty, NoHash

\* A finished copy without faults and writes to a group of all nodes has left
\* flags, group and data as InitEstablished has them.
LEMMA SetupReached ==
  ASSUME Node = Members, TypeOK, MembershipInv, Setup, Pages, Untouched
  PROVE  ReachesEstablished
<1> SUFFICES ASSUME Established, writes = 1
             PROVE  /\ have_copy = [n \in Node |-> n = Owner]
                    /\ is_copied = [n \in Node |-> TRUE]
                    /\ is_copying = [n \in Node |-> FALSE]
                    /\ related_ins = [n \in Node |-> Node]
                    /\ store = [n \in Node |-> Loaded]
  BY DEF ReachesEstablished
<1>1. /\ cli = "done" /\ BusEmpty /\ faults = 0 /\ Owner \in Node /\ Owner \in Members
      /\ Flags /\ Grouping
  BY ConstantsAssumption DEF Established, Setup, Members
<1>2. \A n \in Node : related_ins[n] = Members
  BY <1>1, GroupKnown
<1>3. \A n \in Node : have_copy[n] <=> n = Owner
  BY <1>1 DEF Flags
<1>4. \A n \in Node : is_copying[n] = FALSE
  BY <1>1 DEF Flags, TypeOK
<1>5. \A n \in Node : is_copied[n] = TRUE
  <2>1. Owner \in related_ins[Owner]
    BY <1>1, <1>2
  <2> QED BY <1>1, <2>1 DEF Flags, Grouping, BusEmpty, TypeOK
<1>6. ASSUME NEW n \in Node, NEW k \in Key
      PROVE  store[n][k] = Loaded[k]
  <2>1. dirty = {}
    BY DEF Untouched
  <2>2. CASE k \in Stored
    <3>1. Exists(n, k)
      BY <1>1, <2>1, <2>2 DEF Pages, Members, Setup, Values
    <3> QED BY <3>1 DEF Untouched
  <2>3. CASE k \notin Stored
    <3>1. Loaded[k] = NoHash
      BY <2>3 DEF Loaded, NoHash
    <3> QED BY <3>1 DEF Untouched, Exists
  <2> QED BY <2>2, <2>3
<1>7. store = [n \in Node |-> Loaded]
  <2>1. Loaded = [k \in Key |-> Loaded[k]]
    BY DEF Loaded
  <2>2. \A n \in Node : store[n] = Loaded
    BY <1>6, <2>1 DEF TypeOK
  <2> QED BY <2>2 DEF TypeOK
<1>8. have_copy = [n \in Node |-> n = Owner]
  BY <1>3 DEF TypeOK
<1> QED BY <1>2, <1>4, <1>5, <1>7, <1>8 DEF TypeOK

\* For any number of nodes and in whatever order the bus delivers the messages
\* of the hot group, the script leaves the flags, the group and the data the
\* theorems on an established copy start from, if no client wrote and no fault
\* happened.  The copy is made to all other masters, as is InitEstablished.
THEOREM CopyEstablishes ==
  ASSUME Node = Members
  PROVE  CopySpec => []ReachesEstablished
<1> DEFINE Inv == TypeOK /\ MembershipInv /\ Setup /\ Pages /\ Untouched
<1>1. CopyInit => Inv
  BY SetupInit, UntouchedInit DEF CopyInit, Pages, Working, AtPage
<1>2. Inv /\ [CopyNext]_allVars => Inv'
  BY SetupStep, PagesStep, UntouchedStep
<1>3. Inv => ReachesEstablished
  BY SetupReached
<1> QED
  BY <1>1, <1>2, <1>3, PTL DEF CopySpec
=============================================================================
