------------------------------- MODULE HotSlot -------------------------------
(***************************************************************************)
(* One hot slot of the cluster: the slot_status every server keeps for it, *)
(* the write commands a server caches for the other instances of the hot   *)
(* group, the connections the cached commands travel on, and the cluster   *)
(* bus messages that tell the servers who is in the group.                 *)
(*                                                                         *)
(* A server is single threaded: one command, one bus message or one run of *)
(* clusterCron is one step.  The slot has one owner (copying a slot does   *)
(* not change slots[]) and is neither migrating nor importing.             *)
(*                                                                         *)
(* A key holds a hash.  HMSET writes some of its fields, and the value it  *)
(* writes is the number of the write, its version; version 0 is a field    *)
(* that does not exist.                                                    *)
(***************************************************************************)
EXTENDS Integers, Sequences, FiniteSets

CONSTANTS Node,      \* the masters of the cluster
          Owner,     \* slots[slot] at every node
          Client,    \* client connections, one per client and node
          Key,       \* keys that hash to the slot
          Stored,    \* the keys that exist from the start
          Field,     \* hash fields
          WriteSets, \* the sets of fields one HMSET may write
          Mode,      \* the sync ways CLUSTER RUNMODE is called with
          Way,       \* the forward ways it is called with
          MaxWrite,  \* bound on client writes
          MaxTime,   \* bound on every clock
          MaxAdmin,  \* bound on administrative commands
          MaxFault   \* bound on faults

SubSecond == {"09", "08", "07", "06", "05", "04", "03", "02", "01"}
SyncWays == {"no", "1s", "immd"} \cup SubSecond
ForwardWays == {"avg", "skew", "other"}

ASSUME ConstantsAssumption ==
  /\ Owner \in Node
  /\ IsFiniteSet(Key)
  /\ Stored \subseteq Key
  /\ WriteSets \subseteq (SUBSET Field) \ {{}}
  /\ Mode \subseteq SyncWays
  /\ Way \subseteq ForwardWays
  /\ {MaxWrite, MaxTime, MaxAdmin, MaxFault} \subseteq Nat

VARIABLES
  have_copy, is_copying, is_copied, is_synced, \* flags of slot_status[slot]
  related_ins,     \* the nodes a node believes to be in the hot group
  cached_op,       \* the write cached for each key, NoOp if there is none
  cache_op_size,   \* the counter that goes with it
  is_sync, sync_time, forward_time, sync_0X,   \* RUNMODE of each node
  ustime,          \* the clock each server stamps its writes with
  store,           \* the hashes of the slot on each node
  spinning,        \* the server is in an endless loop
  conn,            \* state of the sync connection of one node to another
  link,            \* per key, the sync commands under way on it, in order
  bus,             \* hot group messages under way from one node to another
  route,           \* where a client's slot table sends its requests
  no_forward,      \* the slot is in the connection's no_forward_hot_slot
  writes,          \* client writes so far: the newest version
  stamp,           \* history: the timestamp each version was given
  writers,         \* history: the nodes that executed writes of a key
  admins, faults   \* administrative commands and faults so far

flagVars   == <<have_copy, is_copying, is_copied, is_synced>>
cacheVars  == <<cached_op, cache_op_size>>
modeVars   == <<is_sync, sync_time, forward_time, sync_0X>>
netVars    == <<conn, link>>
clientVars == <<route, no_forward>>
histVars   == <<writes, stamp, writers>>
vars == <<flagVars, related_ins, cacheVars, modeVars, ustime, store, spinning,
          netVars, bus, clientVars, histVars, admins, faults>>

-----------------------------------------------------------------------------
(* Cached commands.                                                        *)

NoOp == [ts |-> 0, ver |-> 0, fields |-> {}]
Op == [ts : Nat, ver : Nat, fields : SUBSET Field]
NoHash == [f \in Field |-> 0]

\* HMSET: the fields of the command get its value, the others keep theirs.
Apply(hash, op) ==
  [f \in Field |-> IF f \in op.fields THEN op.ver ELSE hash[f]]

CachedKeys(ops) == {k \in Key : ops[k] # NoOp}
Cached(n) == CachedKeys(cached_op[n])

\* Mutant: the command is stored and the counter forgotten.
addCmdToCache_Uncounted(cache, k, op) ==
  [ops |-> [cache.ops EXCEPT ![k] = op], size |-> cache.size]

\* dictReplace keeps one command per key, but the counter counts every call.
addCmdToCache(cache, k, op) ==
  [ops |-> [cache.ops EXCEPT ![k] = op], size |-> cache.size + 1]

\* Mutant: the loop breaks at cache_op_size <= 1.
Flushable_OffByOne(cache) ==
  LET all == CachedKeys(cache.ops)
  IN IF cache.size > Cardinality(all) \/ all = {}
     THEN {all}
     ELSE {S \in SUBSET all : Cardinality(S) = cache.size - 1}

\* The keys one run of the loop of broadcastCommandInHotGroup can send: all
\* of them, or as many as the counter allows, whichever the iterator met.
Flushable(cache) ==
  LET all == CachedKeys(cache.ops)
  IN IF cache.size >= Cardinality(all)
     THEN {all}
     ELSE {S \in SUBSET all : Cardinality(S) = cache.size}

\* Mutant: the counter goes down at the send and at the deletion.
Flushed_CountedTwice(cache, S) ==
  [ops |-> [k \in Key |-> IF k \in S THEN NoOp ELSE cache.ops[k]],
   size |-> cache.size - 2 * Cardinality(S)]

\* Mutant: the commands that were sent are not deleted.
Flushed_Kept(cache, S) ==
  [ops |-> cache.ops, size |-> cache.size - Cardinality(S)]

\* What the loop leaves in the cache when it sends the commands of S.
Flushed(cache, S) ==
  [ops |-> [k \in Key |-> IF k \in S THEN NoOp ELSE cache.ops[k]],
   size |-> cache.size - Cardinality(S)]

\* Mutant: the owner is taken for the sender.
Peers_NotOwner(n) == related_ins[n] \ {n, Owner}

\* The other nodes of the hot group.
Peers(n) == related_ins[n] \ {n}

\* Mutant: a command that finds no connection is lost while it is made.
Sent_Unconnected(lnk, n, ops, S) ==
  [lnk EXCEPT ![n] = [d \in Node |-> [k \in Key |->
     IF d \in Peers(n) /\ k \in S /\ conn[n][d] = "up"
     THEN Append(lnk[n][d][k], ops[k])
     ELSE lnk[n][d][k]]]]

\* Mutant: a command overtakes the ones under way.
Sent_Overtaking(lnk, n, ops, S) ==
  [lnk EXCEPT ![n] = [d \in Node |-> [k \in Key |->
     IF d \in Peers(n) /\ k \in S /\ conn[n][d] # "broken"
     THEN <<ops[k]>> \o lnk[n][d][k]
     ELSE lnk[n][d][k]]]]

\* Mutant: the loop over the group ends at a broken connection.
Sent_StopsAtBroken(lnk, n, ops, S) ==
  [lnk EXCEPT ![n] = [d \in Node |-> [k \in Key |->
     IF d \in Peers(n) /\ k \in S /\ \A m \in Peers(n) : conn[n][m] # "broken"
     THEN Append(lnk[n][d][k], ops[k])
     ELSE lnk[n][d][k]]]]

\* The commands of S go to every other node of the group n knows of.  A send
\* on a broken connection fails, is logged, and the command is gone.
Sent(lnk, n, ops, S) ==
  [lnk EXCEPT ![n] = [d \in Node |-> [k \in Key |->
     IF d \in Peers(n) /\ k \in S /\ conn[n][d] # "broken"
     THEN Append(lnk[n][d][k], ops[k])
     ELSE lnk[n][d][k]]]]

\* node->conn is created by the first command sent to the node, and never
\* again after that.
Connected(n, S) ==
  [conn EXCEPT ![n] = [d \in Node |->
     IF d \in Peers(n) /\ S # {} /\ conn[n][d] = "none"
     THEN "up" ELSE conn[n][d]]]

Cache(n) == [ops |-> cached_op[n], size |-> cache_op_size[n]]

SetCache(n, cache) ==
  /\ cached_op' = [cached_op EXCEPT ![n] = cache.ops]
  /\ cache_op_size' = [cache_op_size EXCEPT ![n] = cache.size]

\* The loop of broadcastCommandInHotGroup with a given cache and set of keys.
Broadcast(n, cache, S) ==
  /\ SetCache(n, Flushed(cache, S))
  /\ link' = Sent(link, n, cache.ops, S)
  /\ conn' = Connected(n, S)

broadcastCommandInHotGroup(n) ==
  \E S \in Flushable(Cache(n)) : Broadcast(n, Cache(n), S)

-----------------------------------------------------------------------------
(* CLUSTER RUNMODE <sync way> <forward way>.                               *)

\* A sub-second way sets its own flag and leaves sync_time false; no way ever
\* clears the flag of an earlier one.
SyncOf(mode) == mode # "no"
SyncTimeOf(mode) == mode = "1s"
TagsOf(mode, tags) == tags \cup ({mode} \cap SubSecond)

\* An unknown forward way is answered with an error, but the sync way it came
\* with is already set.
ForwardTimeOf(way, forward) ==
  CASE way = "avg" -> FALSE
    [] way = "skew" -> TRUE
    [] OTHER -> forward

-----------------------------------------------------------------------------
(* Initial states.                                                         *)

\* clusterInit, with the keys of the slot loaded into the owner.
ServerInit ==
  /\ cached_op = [n \in Node |-> [k \in Key |-> NoOp]]
  /\ cache_op_size = [n \in Node |-> 0]
  /\ is_copying = [n \in Node |-> FALSE]
  /\ is_synced = [n \in Node |-> FALSE]
  /\ ustime = [n \in Node |-> 1]
  /\ spinning = [n \in Node |-> FALSE]
  /\ conn = [s \in Node |-> [d \in Node |-> "none"]]
  /\ link = [s \in Node |-> [d \in Node |-> [k \in Key |-> <<>>]]]
  /\ bus = [s \in Node |-> [d \in Node |-> <<>>]]
  /\ no_forward = [c \in Client |-> [n \in Node |-> FALSE]]
  /\ route = [c \in Client |-> Owner]
  /\ writes = 1
  /\ stamp = [v \in 0..(MaxWrite + 1) |-> 0]
  /\ writers = [k \in Key |-> {}]
  /\ admins = 0
  /\ faults = 0

\* Version 1 is the value the keys were loaded with.
Loaded == [k \in Key |-> [f \in Field |-> IF k \in Stored THEN 1 ELSE 0]]
Empty == [k \in Key |-> NoHash]

Init ==
  /\ ServerInit
  /\ is_sync = [n \in Node |-> TRUE]
  /\ sync_time = [n \in Node |-> FALSE]
  /\ forward_time = [n \in Node |-> FALSE]
  /\ sync_0X = [n \in Node |-> {}]
  /\ have_copy = [n \in Node |-> FALSE]
  /\ is_copied = [n \in Node |-> FALSE]
  /\ related_ins = [n \in Node |-> {}]
  /\ store = [n \in Node |-> IF n = Owner THEN Loaded ELSE Empty]

\* The state after the hot group of all the nodes was set up and the slot
\* copied with no client at work: RUNMODE and HOTGROUP ADD on every node, all
\* bus messages received, then COPYING, every key copied, and FINCOPY.
InitEstablished ==
  /\ ServerInit
  /\ \E mode \in Mode, way \in Way :
       /\ is_sync = [n \in Node |-> SyncOf(mode)]
       /\ sync_time = [n \in Node |-> SyncTimeOf(mode)]
       /\ forward_time = [n \in Node |-> ForwardTimeOf(way, FALSE)]
       /\ sync_0X = [n \in Node |-> TagsOf(mode, {})]
  /\ have_copy = [n \in Node |-> n = Owner]
  /\ is_copied = [n \in Node |-> TRUE]
  /\ related_ins = [n \in Node |-> Node]
  /\ store = [n \in Node |-> Loaded]

-----------------------------------------------------------------------------
(* processCommand for the requests of clients.                             *)

\* Mutant: the draw is among all nodes of the cluster.
getForwardAim_AnyNode(n) == Node

\* What getForwardAim can return.  With skew it draws until the node is not
\* itself, and then may still answer itself.
getForwardAim(n) ==
  IF forward_time[n] THEN Peers(n) \cup {n} ELSE related_ins[n]

\* Mutant: the loop gives up its last draw when one other node is left.
DrawsForever_OneLeft(n) == forward_time[n] /\ Cardinality(Peers(n)) <= 1

\* The draw never ends when no other node is in the group.
DrawsForever(n) == forward_time[n] /\ Peers(n) = {}

\* The first request after a copy finished sends what is cached, once.
SyncsNow(n) == ~is_synced[n] /\ is_copied[n] /\ have_copy[n]

\* Mutant: a client that was kept once is drawn again.
Forwards_Again(n, c) ==
  /\ n = Owner
  /\ is_copied[n]
  /\ is_synced[n] \/ SyncsNow(n)
  /\ related_ins[n] # {}
  /\ have_copy[n]

\* The owner spreads the clients that visit the slot for the first time.
Forwards(n, c) ==
  /\ n = Owner
  /\ is_copied[n]
  /\ ~no_forward[c][n]
  /\ is_synced[n] \/ SyncsNow(n)
  /\ related_ins[n] # {}
  /\ have_copy[n]

\* A request names a key and the fields it writes; a read writes none.
IsWrite(F) == F # {}

\* The command a write becomes in the cache.
NewOp(n, F) == [ts |-> ustime[n], ver |-> writes + 1, fields |-> F]

\* The cache after the test for a write that arrives during a copy.
CopyingCache(n, k, F) ==
  IF have_copy[n] /\ is_copying[n] /\ IsWrite(F)
  THEN addCmdToCache(Cache(n), k, NewOp(n, F))
  ELSE Cache(n)

\* The keys the sync of the first request sends.
FirstSync(n, cache) == IF SyncsNow(n) THEN Flushable(cache) ELSE {{}}

\* The part of processCommand every request of a client goes through.
Prelude(n, k, F) ==
  LET cache == CopyingCache(n, k, F)
  IN /\ ~spinning[n]
     /\ \E S \in FirstSync(n, cache) : Broadcast(n, cache, S)
     /\ is_synced' = [is_synced EXCEPT ![n] = @ \/ SyncsNow(n)]

\* The request is answered with MOVED to another node of the hot group.
ForwardRequest(c, k, F) ==
  LET n == route[c]
  IN /\ Forwards(n, c)
     /\ ~DrawsForever(n)
     /\ Prelude(n, k, F)
     /\ \E m \in getForwardAim(n) \ {n} : route' = [route EXCEPT ![c] = m]
     /\ UNCHANGED <<have_copy, is_copying, is_copied, related_ins, modeVars,
                    ustime, store, spinning, bus, no_forward, histVars,
                    admins, faults>>

\* getForwardAim does not return, and the server answers nobody any more.
SpinOnRequest(c, k, F) ==
  LET n == route[c]
  IN /\ Forwards(n, c)
     /\ DrawsForever(n)
     /\ Prelude(n, k, F)
     /\ spinning' = [spinning EXCEPT ![n] = TRUE]
     /\ UNCHANGED <<have_copy, is_copying, is_copied, related_ins, modeVars,
                    ustime, store, bus, clientVars, histVars, admins, faults>>

\* The client keeps to this node: it did already, or the draw says so.
Stays(n, c) == no_forward[c][n] \/ Forwards(n, c)

\* The node is a copy of the slot, or its owner with a client that stays.
InGroup(n, c) ==
  /\ is_copied[n]
  /\ (n # Owner /\ n \in related_ins[n]) \/ (n = Owner /\ Stays(n, c))

\* The node is not the owner and has no copy: the client is sent to the owner.
RedirectRequest(c, k, F) ==
  LET n == route[c]
  IN /\ n # Owner
     /\ ~InGroup(n, c)
     /\ Prelude(n, k, F)
     /\ route' = [route EXCEPT ![c] = Owner]
     /\ UNCHANGED <<have_copy, is_copying, is_copied, related_ins, modeVars,
                    ustime, store, spinning, bus, no_forward, histVars,
                    admins, faults>>

\* The command runs.  A write may be denied for want of memory, which is
\* tested after the command was cached and broadcast.
Execute(n, k, F) ==
  \/ /\ ~IsWrite(F)
     /\ UNCHANGED <<store, histVars, faults>>
  \/ /\ IsWrite(F)
     /\ writes <= MaxWrite
     /\ writes' = writes + 1
     /\ stamp' = [stamp EXCEPT ![writes + 1] = ustime[n]]
     /\ writers' = [writers EXCEPT ![k] = @ \cup {n}]
     /\ \/ /\ store' = [store EXCEPT ![n][k] = Apply(@, NewOp(n, F))]
           /\ UNCHANGED faults
        \/ /\ faults < MaxFault
           /\ faults' = faults + 1
           /\ UNCHANGED store

\* The request is served here.  In the hot group a write is cached for the
\* other copies, and broadcast at once unless the node syncs every second.
ServeRequest(c, k, F) ==
  LET n == route[c]
      op == NewOp(n, F)
      cache == CopyingCache(n, k, F)
      caches == InGroup(n, c) /\ IsWrite(F) /\ is_sync[n]
  IN /\ ~spinning[n]
     /\ n = Owner \/ InGroup(n, c)
     /\ Forwards(n, c) => ~DrawsForever(n) /\ n \in getForwardAim(n)
     /\ \E S1 \in FirstSync(n, cache) :
          LET rest == Flushed(cache, S1)
              full == IF caches THEN addCmdToCache(rest, k, op) ELSE rest
          IN \E S2 \in IF caches /\ ~sync_time[n] THEN Flushable(full)
                                                  ELSE {{}} :
               /\ SetCache(n, Flushed(full, S2))
               /\ link' = Sent(Sent(link, n, cache.ops, S1), n, full.ops, S2)
               /\ conn' = Connected(n, S1 \cup S2)
     /\ is_synced' = [is_synced EXCEPT ![n] = @ \/ SyncsNow(n)]
     /\ no_forward' = [no_forward EXCEPT ![c][n] = Stays(n, c)]
     /\ Execute(n, k, F)
     /\ UNCHANGED <<have_copy, is_copying, is_copied, related_ins, modeVars,
                    ustime, spinning, bus, route, admins>>

-----------------------------------------------------------------------------
(* processCommand for a command another node of the hot group sent.        *)

\* A write of the same key with a later timestamp is still cached here.
Outdated(d, k, op) == cached_op[d][k] # NoOp /\ cached_op[d][k].ts > op.ts

ReceiveSync(s, d, k) ==
  /\ ~spinning[d]
  /\ link[s][d][k] # <<>>
  /\ LET op == Head(link[s][d][k])
     IN \/ /\ Outdated(d, k, op)
           /\ UNCHANGED <<store, faults>>
        \/ /\ ~Outdated(d, k, op)
           /\ store' = [store EXCEPT ![d][k] = Apply(@, op)]
           /\ UNCHANGED faults
        \/ /\ ~Outdated(d, k, op)
           /\ faults < MaxFault
           /\ faults' = faults + 1
           /\ UNCHANGED store
  /\ link' = [link EXCEPT ![s][d][k] = Tail(@)]
  /\ UNCHANGED <<flagVars, related_ins, cacheVars, modeVars, ustime, spinning,
                 conn, bus, clientVars, histVars, admins>>

-----------------------------------------------------------------------------
(* Timers.                                                                 *)

\* serverCron reads the clock of the machine.
updateCachedTime(n) ==
  /\ ~spinning[n]
  /\ ustime[n] < MaxTime
  /\ ustime' = [ustime EXCEPT ![n] = @ + 1]
  /\ UNCHANGED <<flagVars, related_ins, cacheVars, modeVars, store, spinning,
                 netVars, bus, clientVars, histVars, admins, faults>>

\* An iteration of clusterCron at which a sync flag of the node is due.
clusterCron(n) ==
  /\ ~spinning[n]
  /\ sync_time[n] \/ sync_0X[n] # {}
  /\ is_copied[n]
  /\ cache_op_size[n] > 0
  /\ related_ins[n] # {}
  /\ broadcastCommandInHotGroup(n)
  /\ UNCHANGED <<flagVars, related_ins, modeVars, ustime, store, spinning, bus,
                 clientVars, histVars, admins, faults>>

-----------------------------------------------------------------------------
(* Administrative commands, sent to one node.                              *)

Admin == admins < MaxAdmin /\ admins' = admins + 1

\* Mutant: the message goes to the members of the group only.
Announced_ToGroup(n, status) ==
  [bus EXCEPT ![n] = [d \in Node |->
     IF d \in Peers(n) THEN Append(bus[n][d], status) ELSE bus[n][d]]]

\* clusterBroadcastOwnAsHotInstance: status 1 adds the node, 2 deletes it.
Announced(n, status) ==
  [bus EXCEPT ![n] = [d \in Node |->
     IF d = n THEN bus[n][d] ELSE Append(bus[n][d], status)]]

RunMode(n, mode, way) ==
  /\ Admin
  /\ ~spinning[n]
  /\ is_sync' = [is_sync EXCEPT ![n] = SyncOf(mode)]
  /\ sync_time' = [sync_time EXCEPT ![n] = SyncTimeOf(mode)]
  /\ sync_0X' = [sync_0X EXCEPT ![n] = TagsOf(mode, @)]
  /\ forward_time' = [forward_time EXCEPT ![n] = ForwardTimeOf(way, @)]
  /\ UNCHANGED <<flagVars, related_ins, cacheVars, ustime, store, spinning,
                 netVars, bus, clientVars, histVars, faults>>

HotGroupAdd(n) ==
  /\ Admin
  /\ ~spinning[n]
  /\ related_ins' = [related_ins EXCEPT ![n] = @ \cup {n}]
  /\ bus' = Announced(n, 1)
  /\ UNCHANGED <<flagVars, cacheVars, modeVars, ustime, store, spinning,
                 netVars, clientVars, histVars, faults>>

HotGroupDel(n) ==
  /\ Admin
  /\ ~spinning[n]
  /\ is_copied' = [is_copied EXCEPT ![n] = FALSE]
  /\ is_copying' = [is_copying EXCEPT ![n] = FALSE]
  /\ is_synced' = [is_synced EXCEPT ![n] = FALSE]
  /\ broadcastCommandInHotGroup(n)
  /\ related_ins' = [related_ins EXCEPT ![n] = @ \ {n}]
  /\ bus' = Announced(n, 2)
  /\ UNCHANGED <<have_copy, modeVars, ustime, store, spinning, clientVars,
                 histVars, faults>>

\* CLUSTER SETSLOT <slot> COPYING: is_synced stays as it is.
SetSlotCopying(n) ==
  /\ Admin
  /\ ~spinning[n]
  /\ have_copy' = [have_copy EXCEPT ![n] = FALSE]
  /\ is_copying' = [is_copying EXCEPT ![n] = TRUE]
  /\ is_copied' = [is_copied EXCEPT ![n] = FALSE]
  /\ UNCHANGED <<is_synced, related_ins, cacheVars, modeVars, ustime, store,
                 spinning, netVars, bus, clientVars, histVars, faults>>

\* Mutant: is_copying is not reset.
SetSlotFincopy_StillCopying(n) ==
  /\ Admin
  /\ ~spinning[n]
  /\ is_copied' = [is_copied EXCEPT ![n] = TRUE]
  /\ have_copy' = [have_copy EXCEPT ![n] = TRUE]
  /\ UNCHANGED <<is_copying, is_synced, related_ins, cacheVars, modeVars,
                 ustime, store, spinning, netVars, bus, clientVars, histVars,
                 faults>>

\* CLUSTER SETSLOT <slot> FINCOPY.
SetSlotFincopy(n) ==
  /\ Admin
  /\ ~spinning[n]
  /\ is_copying' = [is_copying EXCEPT ![n] = FALSE]
  /\ is_copied' = [is_copied EXCEPT ![n] = TRUE]
  /\ have_copy' = [have_copy EXCEPT ![n] = TRUE]
  /\ UNCHANGED <<is_synced, related_ins, cacheVars, modeVars, ustime, store,
                 spinning, netVars, bus, clientVars, histVars, faults>>

Exists(n, k) == store[n][k] # NoHash

\* MIGRATE COPY of one key: s waits for the answer of d to its RESTORE, and d
\* refuses a key it already has.
MigrateCopy(s, d, k) ==
  /\ s # d
  /\ ~spinning[s] /\ ~spinning[d]
  /\ Exists(s, k) /\ ~Exists(d, k)
  /\ store' = [store EXCEPT ![d][k] = store[s][k]]
  /\ UNCHANGED <<flagVars, related_ins, cacheVars, modeVars, ustime, spinning,
                 netVars, bus, clientVars, histVars, admins, faults>>

-----------------------------------------------------------------------------
(* The cluster bus.                                                        *)

\* clusterProcessPacket, CLUSTERMSG_TYPE_HG: d learns about s.
ReceiveHotGroup(s, d) ==
  /\ ~spinning[d]
  /\ bus[s][d] # <<>>
  /\ bus' = [bus EXCEPT ![s][d] = Tail(@)]
  /\ \/ /\ Head(bus[s][d]) = 1
        /\ is_copied' = [is_copied EXCEPT ![d] = TRUE]
        /\ related_ins' = [related_ins EXCEPT ![d] = @ \cup {s}]
     \/ /\ Head(bus[s][d]) = 2
        /\ related_ins' = [related_ins EXCEPT ![d] = @ \ {s}]
        /\ UNCHANGED is_copied
  /\ UNCHANGED <<have_copy, is_copying, is_synced, cacheVars, modeVars, ustime,
                 store, spinning, netVars, clientVars, histVars, admins,
                 faults>>

-----------------------------------------------------------------------------
(* Faults.                                                                 *)

Fault == faults < MaxFault /\ faults' = faults + 1

\* clusterBroadcastMessage skips a node whose bus link is down.
LoseHotGroup(s, d) ==
  /\ Fault
  /\ bus[s][d] # <<>>
  /\ bus' = [bus EXCEPT ![s][d] = Tail(@)]
  /\ UNCHANGED <<flagVars, related_ins, cacheVars, modeVars, ustime, store,
                 spinning, netVars, clientVars, histVars, admins>>

\* A sync connection is reset: what was under way on it is lost.
BreakConn(s, d) ==
  /\ Fault
  /\ conn[s][d] = "up"
  /\ conn' = [conn EXCEPT ![s][d] = "broken"]
  /\ link' = [link EXCEPT ![s][d] = [k \in Key |-> <<>>]]
  /\ UNCHANGED <<flagVars, related_ins, cacheVars, modeVars, ustime, store,
                 spinning, bus, clientVars, histVars, admins>>

\* The server of n is restarted.  It keeps neither keys nor slot_status, its
\* connections are gone, and the ones to it are broken for good.
Restart(n) ==
  /\ Fault
  /\ have_copy' = [have_copy EXCEPT ![n] = FALSE]
  /\ is_copying' = [is_copying EXCEPT ![n] = FALSE]
  /\ is_copied' = [is_copied EXCEPT ![n] = FALSE]
  /\ is_synced' = [is_synced EXCEPT ![n] = FALSE]
  /\ related_ins' = [related_ins EXCEPT ![n] = {}]
  /\ SetCache(n, [ops |-> [k \in Key |-> NoOp], size |-> 0])
  /\ is_sync' = [is_sync EXCEPT ![n] = TRUE]
  /\ sync_time' = [sync_time EXCEPT ![n] = FALSE]
  /\ forward_time' = [forward_time EXCEPT ![n] = FALSE]
  /\ sync_0X' = [sync_0X EXCEPT ![n] = {}]
  /\ store' = [store EXCEPT ![n] = Empty]
  /\ spinning' = [spinning EXCEPT ![n] = FALSE]
  /\ conn' = [s \in Node |-> [d \in Node |->
                CASE s = n -> "none"
                  [] s # n /\ d = n /\ conn[s][d] = "up" -> "broken"
                  [] OTHER -> conn[s][d]]]
  /\ link' = [s \in Node |-> [d \in Node |->
                IF n \in {s, d} THEN [k \in Key |-> <<>>] ELSE link[s][d]]]
  /\ bus' = [s \in Node |-> [d \in Node |->
               IF n \in {s, d} THEN <<>> ELSE bus[s][d]]]
  /\ no_forward' = [c \in Client |-> [no_forward[c] EXCEPT ![n] = FALSE]]
  /\ UNCHANGED <<ustime, route, histVars, admins>>

-----------------------------------------------------------------------------
(* The specification.                                                      *)

Request ==
  \E c \in Client, k \in Key, F \in WriteSets \cup {{}} :
    \/ ForwardRequest(c, k, F)
    \/ SpinOnRequest(c, k, F)
    \/ RedirectRequest(c, k, F)
    \/ ServeRequest(c, k, F)

Command ==
  \E n \in Node :
    \/ \E mode \in Mode, way \in Way : RunMode(n, mode, way)
    \/ HotGroupAdd(n)
    \/ HotGroupDel(n)
    \/ SetSlotCopying(n)
    \/ SetSlotFincopy(n)

Timer == \E n \in Node : updateCachedTime(n) \/ clusterCron(n)

Deliver ==
  \E s, d \in Node :
    \/ \E k \in Key : ReceiveSync(s, d, k)
    \/ ReceiveHotGroup(s, d)

Failure ==
  \/ \E s, d \in Node : LoseHotGroup(s, d) \/ BreakConn(s, d)
  \/ \E n \in Node : Restart(n)

Copy == \E s, d \in Node, k \in Key : MigrateCopy(s, d, k)

Next == Request \/ Command \/ Timer \/ Deliver \/ Failure \/ Copy

Spec == Init /\ [][Next]_vars

\* The hot group is set up, and its servers run.
EstablishedSpec == InitEstablished /\ [][Next]_vars

\* The event loop of a server runs clusterCron ten times a second and serves
\* every connection that has input.
Fairness ==
  /\ \A n \in Node : WF_vars(clusterCron(n))
  /\ \A s, d \in Node :
       /\ \A k \in Key : WF_vars(ReceiveSync(s, d, k))
       /\ WF_vars(ReceiveHotGroup(s, d))

LiveSpec == EstablishedSpec /\ Fairness

-----------------------------------------------------------------------------
(* Properties.                                                             *)

\* Every variable has its type: a cached or sent command is a command, the
\* counter of slot_status never goes below zero, a client is routed to a node.
TypeOK ==
  /\ have_copy \in [Node -> BOOLEAN]
  /\ is_copying \in [Node -> BOOLEAN]
  /\ is_copied \in [Node -> BOOLEAN]
  /\ is_synced \in [Node -> BOOLEAN]
  /\ related_ins \in [Node -> SUBSET Node]
  /\ cached_op \in [Node -> [Key -> Op]]
  /\ cache_op_size \in [Node -> Nat]
  /\ is_sync \in [Node -> BOOLEAN]
  /\ sync_time \in [Node -> BOOLEAN]
  /\ forward_time \in [Node -> BOOLEAN]
  /\ sync_0X \in [Node -> SUBSET SubSecond]
  /\ ustime \in [Node -> Nat]
  /\ store \in [Node -> [Key -> [Field -> Nat]]]
  /\ spinning \in [Node -> BOOLEAN]
  /\ conn \in [Node -> [Node -> {"none", "up", "broken"}]]
  /\ link \in [Node -> [Node -> [Key -> Seq(Op)]]]
  /\ bus \in [Node -> [Node -> Seq({1, 2})]]
  /\ route \in [Client -> Node]
  /\ no_forward \in [Client -> [Node -> BOOLEAN]]
  /\ writes \in 1..(MaxWrite + 1)
  /\ stamp \in [0..(MaxWrite + 1) -> Nat]
  /\ writers \in [Key -> SUBSET Node]
  /\ admins \in Nat
  /\ faults \in Nat

\* The counter that ends the loop of broadcastCommandInHotGroup is never below
\* the number of cached commands, whatever sequence of writes, replacements,
\* syncs, mode changes and group changes the node went through: a broadcast
\* never stops with a command still in the cache.
CacheCounted == \A n \in Node : Cardinality(Cached(n)) <= cache_op_size[n]

\* SETSLOT COPYING and FINCOPY keep have_copy and is_copying apart, with
\* HOTGROUP DEL in between as well: the branch of processCommand that caches
\* the writes that arrive during a copy is never taken.
NeverCopyingWithCopy == \A n \in Node : ~(have_copy[n] /\ is_copying[n])

\* A server hangs in getForwardAim only when the other nodes left it: whoever
\* else is in the group then has announced itself too late, and the server will
\* not read the announcement any more.
HangsOnlyDeserted ==
  faults = 0 =>
    \A n, m \in Node :
      spinning[n] /\ m # n /\ m \in related_ins[m] => bus[m][n] # <<>>

\* Without faults on the bus, what a node knows of another's membership is
\* what the other announced last, or an announcement is still under way: the
\* related_ins of all nodes agree once the bus is empty.
MembershipTracks ==
  faults = 0 =>
    \A s, d \in Node : s # d =>
      IF bus[s][d] = <<>>
      THEN s \in related_ins[d] <=> s \in related_ins[s]
      ELSE bus[s][d][Len(bus[s][d])] = 1 <=> s \in related_ins[s]

\* The writes of a key that one node sends to another travel in the order in
\* which the node executed them, and the cached one is newer than all of them,
\* through replacements in the cache, deferred and immediate broadcasts.
OriginOrder ==
  \A s, d \in Node, k \in Key :
    LET q == link[s][d][k]
    IN /\ \A i, j \in 1..Len(q) : i < j => q[i].ver < q[j].ver
       /\ \A i \in 1..Len(q) :
            /\ q[i].ver <= writes
            /\ k \in Cached(s) => q[i].ver < cached_op[s][k].ver

\* No administrative command and no fault since the group was established.
Undisturbed == admins = 0 /\ faults = 0

\* What s holds in field f of key k is at d already, or on its way there, or
\* cached for it.
Arrives(s, d, k, f) ==
  LET new == store[s][k][f]
      Carries(op) == op.ver = new /\ f \in op.fields
  IN \/ store[d][k][f] = new
     \/ Carries(cached_op[s][k])
     \/ \E i \in 1..Len(link[s][d][k]) : Carries(link[s][d][k][i])

\* In an undisturbed group that syncs, what the one node that executes the
\* writes of a key holds arrives at every other copy: no update of a hot key is
\* ever forgotten.
NoLostUpdate ==
  Undisturbed =>
    \A s, d \in Node, k \in Key, f \in Field :
      writers[k] = {s} /\ is_sync[s] => Arrives(s, d, k, f)

\* A node of an established group that was restarted knows no group any more.
Restarted(n) == related_ins[n] = {}

\* The one fault so far was a restart, or it broke a sync connection.
OneBreak ==
  /\ admins = 0 /\ faults = 1
  /\ (\E n \in Node : Restarted(n)) \/ (\E s, d \in Node : conn[s][d] = "broken")

\* A broken connection, or a node that was restarted and has forgotten the
\* group, harms nobody else: between two other nodes, or over another
\* connection, updates arrive as before, deferred ones too.
FaultStaysLocal ==
  OneBreak =>
    \A s, d \in Node, k \in Key, f \in Field :
      /\ writers[k] = {s} /\ is_sync[s]
      /\ ~Restarted(s) /\ ~Restarted(d)
      /\ conn[s][d] # "broken"
      => Arrives(s, d, k, f)

\* Nothing of key k is cached or under way.
Quiet(k) ==
  /\ \A n \in Node : cached_op[n][k] = NoOp
  /\ \A s, d \in Node : link[s][d][k] = <<>>

Agree(k) == \A n, m \in Node : store[n][k] = store[m][k]

\* In an undisturbed group that syncs, once nothing is under way all copies of
\* a key that only one node wrote are equal.
SingleWriterConverges ==
  Undisturbed =>
    \A k \in Key, s \in Node :
      writers[k] = {s} /\ is_sync[s] /\ Quiet(k) => Agree(k)

\* In an undisturbed group the owner sends a client away at most once, and no
\* copy sends it back: a client moves only from the owner, and not once the
\* owner kept it.
ForwardedOnce ==
  [][\A c \in Client :
       Undisturbed /\ route'[c] # route[c] =>
         route[c] = Owner /\ ~no_forward[c][Owner]]_vars

\* Whatever commands changed the group and the copies, a client the owner sends
\* away is served by the node it comes to, unless that node has left the group
\* and its announcement is still under way, or is not copied at the time: only
\* then may the client be sent back.
SentIsServed ==
  [][\A c \in Client :
       faults = 0 /\ route[c] = Owner /\ route'[c] # Owner =>
         LET m == route'[c]
         IN bus[m][Owner] = <<>> /\ is_copied[m] => InGroup(m, c)]_vars

\* A cached write is sent, sooner or later, also when the node keeps writing,
\* syncs only once a second or drops synced commands in the meantime.
DeferredIsSent ==
  \A n \in Node, k \in Key : k \in Cached(n) ~> k \notin Cached(n)

\* If the step serves a write that is broadcast at once: all that was cached is
\* the last command on the connections it goes to, and the cache is empty.
TakesAllAlong(c, k, F) ==
  LET n == route[c]
  IN ServeRequest(c, k, F) /\ InGroup(n, c) /\ is_sync[n] /\ ~sync_time[n] =>
       /\ CachedKeys(cached_op'[n]) = {}
       /\ \A j \in Cached(n) \ {k}, d \in Peers(n) :
            conn[n][d] # "broken" =>
              LET q == link'[n][d][j]
              IN q # <<>> /\ q[Len(q)] = cached_op[n][j]

\* A write that is broadcast at once takes along all the node had cached, also
\* what an earlier sync way or an earlier group left in the cache.
NothingStaysBehind ==
  [][\A c \in Client, k \in Key, F \in WriteSets : TakesAllAlong(c, k, F)]_vars

-----------------------------------------------------------------------------
(* What comments of the code say and the code does not do.                 *)

\* A synced command never replaces a value that was written later, by the
\* timestamps of the writes.
NoOlderOverwrites ==
  [][\A s, d \in Node, k \in Key, f \in Field :
       Undisturbed' /\ Len(link'[s][d][k]) < Len(link[s][d][k]) =>
         stamp[store'[d][k][f]] >= stamp[store[d][k][f]]]_vars

\* A write that is refused is neither cached for the copies nor sent to them.
RefusedIsNotSent ==
  [][writes' > writes /\ store' = store =>
       \A n \in Node, k \in Key :
         /\ cached_op'[n][k].ver # writes'
         /\ \A d \in Node : \A i \in 1..Len(link'[n][d][k]) :
              link'[n][d][k][i].ver # writes']_vars
=============================================================================
