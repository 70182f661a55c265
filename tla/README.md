# Verification of the hot slots of HPUCache

HPUCache is a fork of Redis 6.2 Cluster in which a *hot* slot can be served by
several masters. The owner of the slot and the masters that hold a copy of it
form the slot's *hot group*; each member serves reads and writes and sends its
writes to the others. This directory holds TLA+ models of that part of the
program and of what surrounds it (how hot slots are found, copied and moved),
TLC configurations for small instances, and TLAPS proofs for all instances.

The code modelled is `src/consistcode/server`, the newest of the three server
variants in the repository; `src/server` is an earlier state of it, and
`src/monitorcode/server`, from which the key monitor is taken, adds a list of
recently used slots. Paths without a directory below are in
`src/consistcode/server/src`.

## 1. Inventory

### Components, their state and operations

| component | state | operations | modelled in |
|---|---|---|---|
| hot slot replication (`cluster.c`, `server.c`, `cluster.h`) | `slot_status[slot]` of each server: `have_copy`, `is_copying`, `is_copied`, `is_synced`, `related_ins`, `cached_op`, `cache_op_size`; RUNMODE flags `is_sync`, `sync_time`, `sync_09`.. `sync_01`, `forward_time`; `no_forward_hot_slot` of each client connection; `node->conn` to each peer | `processCommand` for client requests and for `WANGEP` sync commands, `addCmdToCache`, `broadcastCommandInHotGroup`, `getForwardAim`, `clusterCron`, `CLUSTER RUNMODE / HOTGROUP / SETSLOT COPYING / SETSLOT FINCOPY`, the bus message `CLUSTERMSG_TYPE_HG` | `HotSlot`; what it promises: `HotGroup`, `HotSlotRefinement` |
| copy of a hot slot (`redis-cli --cluster copyone`, scripts) | target list, offset, page, digests | `setHotSlot`, `COPYING`, page by page `GETKEYSINSLOT` + `MIGRATE COPY`, comparison of values, `MIGRATE COPY REPLACE`, `FINCOPY` | `CopyOneSlot`, `SlotKeys` |
| move of slots (`redis-cli --cluster moveone / moveall`) | `slots`, `migrating_slots_to`, `importing_slots_from` of the servers, offset and page of redis-cli | `SETSLOT IMPORTING / MIGRATING / NODE / STABLE`, `MIGRATE`, `getNodeByQuery`, `clusterUpdateSlotsConfigWith` | `MoveSlot`, `SlotKeys` |
| cluster client (`hircluster.c`) | slot table, connections and their errors, `retry_count` | the retry loop: MOVED, ASK, nodes that cannot be reached, a connection that breaks under a request | `MoveSlot` (the loop), `HotSlot` (MOVED) |
| hotness of slots and servers | `dealed_ops`, `slot_hot`, averages of the node, of the others and of the cluster, `cpu_hot_state` | the windows of one, ten and sixty seconds in `serverCron` and `clusterCron`, `changeSlotStatus`, the fields of the bus header | `Hotness` |
| key monitor (`src/monitorcode/server`) | `lru_hot`: list, hash map of as many buckets, counter | `LRUCacheSet` with eviction, `synclrulistincluster`, merge of a received list | `LruCache`, `KeyMonitor`, `RecencyList` |
| controller | none | polls servers and prints | not modelled |
| failure detection, elections, replicas, data types, persistence, networking, Lua | stock Redis | | not modelled |
| workload generator, experiment scripts | | | the order of commands of `copyOneAndSet` only |

### How they interact

A client sends a request to the node its slot table names. The owner of a hot
slot answers the first request of a connection with MOVED to a random member of
the group, or keeps the connection. A member executes a write, puts the command
with its timestamp into `cached_op` (one command per key), and broadcasts the
cache to the other members, at once or from `clusterCron`. The receivers drop a
command that is older than what they have cached for the key, and execute the
others. `HOTGROUP ADD` and `DEL` change the membership of one node and announce
it on the cluster bus. `redis-cli` makes copies and moves slots from outside,
by administrative commands and MIGRATE, while clients go on. The servers count
requests and processor time meanwhile, and put their averages into the header
of every bus message; the verdicts are read by people and scripts, not by the
replication, so `Hotness` and `KeyMonitor` share no variable with `HotSlot`.

### What is hard

* Membership, copy flags and sync modes are set by independent commands on
  independent nodes; the branches of `processCommand` depend on all of them.
* The cache keeps one command per key and a counter of calls.
* A write is under way on several connections while newer ones are executed.
* The copy is not atomic: clients write during it, create keys that shift its
  pages, and its result is ignored.
* Two masters disagree about the owner of a slot while it moves, and a client
  may have given up a request that a server still executes.
* Connections break and are never made again; a restarted server remembers
  nothing, the others still count it in.
* Windows of different lengths share one counter, and compare with averages
  of different age that other nodes send.
* A list, a hash map and a counter of the key monitor are updated in different
  functions, and two lists are merged by a loop that changes one of them. The
  hash map is indexed with slots that it has no place for.

The hazards, each with its line and the properties that watch it, are listed
in `PROJECT.json`.

### What makes the parts correct

Replication: cached commands are sent, in order, and reach all copies; the
copies of a key that one node writes become equal; a client is not sent back
and forth between members; a server that hangs does so only because the others
left it. Copy: afterwards each target has every key with the
owner's value, and the copy ends. Move: a key is in one place, or its page is being
sent again, a request always sees the latest value and is answered. Hotness: a request is counted
once per window, and what is reported ends when the load ends. Monitor: the
data structure is a list of the slots used last, for slots with a place in it.

## 2. Modules

```
HotGroup   HotSlot   SlotKeys           Hotness    LruCache  RecencyList
      \    /    \    /    \                |            \     /
  HotSlotRefinement  CopyOneSlot  MoveSlot  |           KeyMonitor
```

### HotSlot

One hot slot and all masters. A server is single threaded, so one command, one
bus message or one run of `clusterCron` is one step. Data is abstracted to what
the properties tell apart: a key holds a hash, a write sets some fields to its
own number (its *version*), version 0 is a missing field. The clock of each
server, `ustime`, is a small number that each server advances by itself, so the
clocks may differ.

| action | code |
|---|---|
| `ForwardRequest`, `RedirectRequest`, `ServeRequest`, `SpinOnRequest` | the cluster part of `processCommand`, server.c 4229-4362, one action per way out of it; `Prelude` is what all ways share |
| `Execute` | the rest of `processCommand`: the command runs, or is refused (memory, disk) after it was cached and sent |
| `ReceiveSync` | `processCommand` for a `WANGEP` command, server.c 4108-4155 |
| `clusterCron`, `updateCachedTime` | the sync part of `clusterCron`, cluster.c 3825-4045; the clock |
| `RunMode`, `HotGroupAdd`, `HotGroupDel`, `SetSlotCopying`, `SetSlotFincopy` | `clusterCommand` |
| `ReceiveHotGroup` | `clusterProcessPacket`, type HG |
| `MigrateCopy` | `MIGRATE ... COPY` of one key |
| `LoseHotGroup`, `BreakConn`, `Restart` | faults, as the code reacts to them |

`Flushable`, `Flushed` and `Sent` are the loop of
`broadcastCommandInHotGroup`: it stops when the counter reaches zero, so which
keys it sends depends on the counter and on the order of the iterator.

Two initial states: `Init` is a cluster whose servers just started, with the
keys loaded into the owner; `InitEstablished` is the state after the hot group
was made. That the second is what the scripts lead to is checked by
`ReachesEstablished` of `CopyOneSlot`.

Abstractions: one slot, which is neither migrating nor importing, with one
owner; the sync connection is a FIFO queue *per key* (the order between keys of
one connection is not kept, which only adds behaviours); client connections
survive a redirection; `IS_LAT` (latency printing, off in the code) is left
out, so the cached clock changes only in `updateCachedTime`. A restarted
server has no keys, as in the experiments, which run without persistence.

### HotGroup and HotSlotRefinement

`HotGroup` says what a group promises for the keys of its slot, without queues,
caches and modes: `Write`, by the one node that writes the key; `CatchUp`,
another copy takes over a write of that node, whole and never an older one
after a newer one; `GiveUp`, the promise for some keys is over. `Propagates`
adds that every other copy will have each value or a newer one.
`HotSlotRefinement` gives the mapping: `Over(k)` holds of a key once a second
node wrote it, or after the first administrative command or fault
(`Undisturbed` is false), or if the key did not exist when the group was made;
the mapping hides the values of these keys. `KeepsPromise` and
`WritesPropagate` are the abstract specification and its liveness under it.

### CopyOneSlot (extends HotSlot, SlotKeys)

The script `copyOneAndSet` and `redis-cli --cluster copyone` as one more
process beside the servers of `HotSlot`: `SetHotSlot`, `StartCopy`, then for
each target `ListPage`, `MigratePage` and, when the target has a key already
(BUSYKEY), `ReadDigest`, `ComparePage`, `ReplacePage`, finally `EndCopy`. The
administrative commands are the actions of `HotSlot`. `PageFails` is a target
that stops answering within a page: any subset of the keys has arrived.
`PageBusy` is a connection to the target that breaks in the middle of a page and
is made again by MIGRATE itself (label `try_again`, cluster.c 6605-6682): what
had arrived is busy at the second try. The connection of redis-cli to the owner
does not break in the model.

### MoveSlot (extends SlotKeys)

A slot that is not hot moves between two masters. `Manager` is
`clusterManagerMoveSlot` step by step, `SourceLearns` is the rebinding of the
slot by a bus packet of the new owner. A MIGRATE of a page is one step, as the
source is blocked during it. `MigrateFails` leaves any subset of keys at the
target and any subset of those deleted at the source, and redis-cli gives up.
`MigrateBusy` leaves the same, but MIGRATE connects again and sends what it still
has; the keys that had arrived without being acknowledged are busy, and
redis-cli goes through `ReadDigest`, `ComparePage` and `ReplacePage`, in any of
which the target may fail as well. `KeyInOnePlace` shows that this is the only
way into BUSYKEY: clients alone never create a key on both sides.

The clients are the loop of `redis_cluster_command_execute` (hircluster.c):

| action | code |
|---|---|
| `Issue` | a request goes to the node of the client's slot table |
| `Retry` | the label `retry`: `SendTo` the node, reconnecting first; `Detour` to another node when it cannot be reached, counted by `retry_count`; `GiveUp` with an error |
| `Serve` | the node that `getNodeByQuery` chooses executes the request |
| `FollowAsk`, `FollowMoved` | the answers ASK (this request only, with ASKING) and MOVED (the slot table changes) |
| `LoseAnswer`, `ServeStray` | the connection breaks while the client waits: it returns with an error, and the server may execute the request at any later time |

### Hotness

`serverCron` is one second of a node: `InstanceMetric` (processor time) and
`SlotMetric` (windows, averages, hot or cold slots), in the order the code
computes them, which matters because later lines read what earlier ones have
just written. `Update` is one tag of a `hotState`. `SendHeader` and
`ReceiveHeader` are the hotness fields of a bus header, with the 16 bits of
`is_hot_instance`. A window is kept as what was counted in it, and averages are
multiples of `1 / Scale`: the code divides doubles by the length of the window,
and all windows of a tag have the same. `MoveSlotTo` is SETSLOT NODE, which
leaves the counters of both nodes as they are.

### LruCache, KeyMonitor, RecencyList

`LruCache` is the data structure of `lru_cache_impl.c` as operators on a
record: pointers are entries or NULL, and each operator is a function of the
code. `KeyMonitor` has one list per node, the notes `processCommand` takes, the
messages of `synclrulistincluster` and their merge in `clusterProcessPacket`.
The hash map has `Capacity` buckets and is indexed with the slot itself. What an
index beyond it reads or writes is memory the list does not own: `Undefined`
makes the node die, or go on with a list of which nothing is known (`beyond`),
and the properties speak of the time before that. Slots below the capacity are
at most as many as the list has room for, so a list that is full has them all
and the eviction of `insertToListHead` is never taken on defined memory; the
operators have it as the code does, and that it is not taken is part of what
`ImplementsRecency` says. malloc returns any entry that is not live.
`Received` and `Merged` are the two loops of the handler, as recursive functions
of the round. `RecencyList` is what the list is to implement; it forgets no slot.

### SlotKeys

The index of the keys of a slot, and how `GETKEYSINSLOT` pages through it.

### MC modules

`MCHotSlot`, `MCCopyOneSlot`, `MCMoveSlot`, `MCHotness` and `MCKeyMonitor` give
names to the constants the configurations need: workloads (`WriteAllFields`:
each HMSET writes the whole record, as YCSB inserts do; `WriteOneField`),
target lists, owners, and symmetry. Nodes other than the owner, clients, keys
and fields are interchangeable in HotSlot, and symmetry is used for safety
only.


## 3. Runs

Bounds, all of them guards of the models: `MaxWrite` client writes, `MaxTime`
the last time a server's clock shows (it starts at 1), `MaxAdmin` administrative commands, `MaxFault` faults,
`MaxRedirect` detours of a request (`retry_count` of the client's settings),
`MaxLost` connections that break under a request, `MaxEvent` requests and
loads, `MaxSent` monitor messages under way between two nodes, `MaxOps` requests
the monitors see.

Two nodes are an owner and a copy; three are needed where two receivers may be
at different points. Two writes are enough for one to replace, overtake or
overwrite another, three for one in the middle that disappears. Clocks may
differ where two nodes write the same key. One key
suffices for what is per key; two make a page of one key differ from all keys,
and a third one, created later, shifts the pages. Deadlock is not checked where
a bound stops the system; `Hotness` has no such bound on its crons and headers,
and its run checks deadlock.

| run | instance | shows | states |
|---|---|---|---|
| `promise` | established group of 3 nodes, 2 clients, 1s and immediate sync, 2 whole-record writes, clocks that differ, with fairness | `KeepsPromise` and `WritesPropagate` (the group implements `HotGroup`), `NoLostUpdate`, `DeferredIsSent`, `ForwardedOnce` | 26 956 |
| `fresh` | 2 nodes from `Init`, both modes, the skew way, 2 keys, 4 administrative commands in any order on any node | `TypeOK`, `NeverCopyingWithCopy`, `HangsOnlyDeserted`, `MembershipTracks`, `CacheCounted`, `NothingStaysBehind`, `SentIsServed` | 131 649 |
| `faults` | established group of 3 nodes, a client, 1s and immediate sync, 3 writes, 1 command (a change of the sync way while writes are cached, or of the group), 2 faults of any kind | `OriginOrder`, `FaultStaysLocal`, `SingleWriterConverges` | 1 153 323 |
| `copy` | owner and target, pages of 1 key, 2 keys and one that clients create in front of them, 2 writes, 1 page that fails or is sent again | `CopyComplete`, `ReachesEstablished`, `CopyAgrees`, `CopyEnds` | 14 990 |
| `move` | 2 clients, 2 keys in one page, moveone and moveall, 1 broken connection of MIGRATE (redis-cli gives up, or the page is sent again), 1 of a client, 1 detour | `TypeOK`, `KeyInOnePlace`, `MoveIsTransparent`, `RequestAnswered` | 691 727 |
| `hotness` | 2 nodes with a slot each, one of them copied, 2 events, windows of 1, 1 and 2 seconds, the slots may move | `WindowExact`, `CoolsDown` | 185 490 |
| `lru` | 2 monitors with 3 buckets, requests of 4 slots, 8 requests | `WellFormed`, `DiesOnlyBeyondMap`, `ImplementsRecency` | 24 434 |

`SingleWriterConverges`, `NoLostUpdate` and `ForwardedOnce` speak of groups
since whose establishment no administrative command and no fault happened
(`Undisturbed`), the first two of keys that one node writes: for two writers of
a key the code does not converge, see below. `FaultStaysLocal` goes one fault
further: after one broken connection or one restart, and no command, everybody
else still gets every update. The connections of a restarted node, and the
broken one itself, are excluded: what was under way over them is lost, and
nothing sends it again.

Five runs are counterexamples to what comments of the code say; each is a
finding in `PROJECT.json`:

* `lost_field` (`SingleWriterConverges`): with 1s sync, two HMSETs of different
  fields of a key within a second; the second replaces the first in the cache,
  and the first is never sent.
* `older_overwrite` (`NoOlderOverwrites`): the timestamp of a synced command is
  compared with the cached command only. Once that was broadcast, an older
  write from another node overwrites the newer one.
* `refused` (`RefusedIsNotSent`): a write is cached and broadcast at server.c
  4327, before the tests that refuse writes for want of memory and, at 4405,
  for disk errors; the client gets an error and the copies execute the write.
* `copy_write` (`CopyCatchesUp`): writes that arrive during the copy are not
  cached, since `COPYING` clears `have_copy`, and never reach the copies.
* `move_pages` (`ServedLatest`): the offset of `GETKEYSINSLOT` grows although
  moved keys leave the index. With more keys than one page, keys stay behind
  and are lost with the hand-over.

Further behaviours of the code seen while modelling it, for which no run is
kept:

* an owner that a `HOTGROUP DEL` of the other members leaves alone in its group,
  and that draws with the skew way, never leaves the loop of `getForwardAim`
  (the run `fresh` gets there); `HangsOnlyDeserted` says that this is the only
  case;
* the sub-second ways broadcast at once, since `processCommand` tests only
  `sync_time` (server.c 4336), although cluster.h 243 speaks of sync intervals;
* writes cached under 1s stay in the cache after `RUNMODE immd` until the next
  write of the node; `NothingStaysBehind` says that this one takes them along;
* keys created during a copy shift its pages into BUSYKEY errors; if a value
  changed too, the copy to that target is given up and the result ignored, so
  `CopyComplete` speaks only of copies during which no key is created. A later
  write of some fields of a key that is missing there creates it with these
  fields alone, so `CopyAgrees` holds for writes of whole records only;
* a moveall whose page fails closes the slot at the source, which then answers
  for keys it no longer has. This is why `MoveIsTransparent` excludes a moveall
  that was broken off (`ClosedEarly`);
* the middle window of a hot slot is compared with the cluster's average of an
  earlier second; a slot that moves leaves its hot flag behind at the old owner
  until the next update there; a cold instance writes a negative number, which
  the others read as 65535;
* in the key monitor, a repeated insertion assigns `=+data` where `+=` would
  add (lru_cache_impl.c 303); `if (i=10)` ends the loop that fills a message
  before its first round (cluster.c 4910), so messages carry no entry; the hash
  function the comments of `lru_cache_impl.c` speak of is commented out, and an
  array of ten buckets is indexed with the slot; each received list is
  leaked.

## 4. Fairness

Nothing is assumed of clients, administrators, clocks and faults.

| specification | weak fairness of | because |
|---|---|---|
| `HotSlot!LiveSpec` | `clusterCron(n)`, `ReceiveSync(s, d, k)`, `ReceiveHotGroup(s, d)` | the event loop calls `clusterCron` ten times a second and serves every readable connection. `clusterCron(n)` is the iteration at which a sync flag is due, which comes again and again. A spinning server has none of these actions enabled |
| `CopyOneSlot!CopySpec` | `Manager`, `ReceiveHotGroup` | redis-cli is a loop with no other wait than for the answers to its commands; servers read the bus |
| `MoveSlot!Spec` | `Manager`, `Serve(c)`, `Redirect(c)` | redis-cli as above; a server answers a request that reached it, and a client is in a loop until it has an answer or gives up. That the source learns of the new owner by itself is not assumed, nor that requests whose connection broke are ever executed |
| `Hotness!Spec` | `serverCron(n)`, `SendHeader(s, d)`, `ReceiveHeader(s, d)` | the cron of every second; `clusterCron` pings each node in turn, and what is sent on a working link arrives |

## 5. Proofs

The theorems hold for every set of nodes, clients, keys, fields and slots and
for all bounds. Of the constants they assume what the modules state:
`ConstantsAssumption` of `HotSlot` (the owner is a node, the keys are finitely
many, stored keys are keys, a write writes at least one field, modes and ways
are the ones RUNMODE knows, bounds are naturals), `HotnessAssumption` of
`Hotness` (the windows last at least a second and the long one is a multiple of
the middle one, the factors of hot and cold are positive, averages are
multiples of `1 / Scale`, each slot has a first owner), `MoveAssumption` of
`MoveSlot` (two different nodes, finitely many keys, pages of at least one
key), `CopyAssumption` of `CopyOneSlot` (the targets are nodes other than the
owner, keys are numbers, pages hold at least one key, a record has a field), and
`LruAssumption` and `MonitorAssumption` (room for at least one entry, malloc
finds memory for one entry more than a list may have, slots are numbers). The theorems of `HotSlot` up to `WritesInOrder` are
about `Spec \/ EstablishedSpec`, that is from both initial states; what is said
of a standing group is about `EstablishedSpec`.

| theorem | module | property | argument |
|---|---|---|---|
| `TypeCorrect` | `HotSlotProofs` | `TypeOK` | inductive. The step that is not routine is the counter: `FlushableBounded` shows that the loop never sends more commands than `cache_op_size`, so it stays a natural number |
| `CopyBranchIsDead` | `HotSlotProofs` | `NeverCopyingWithCopy` | inductive with `TypeOK`; one step per command |
| `CounterCovers` | `HotSlotProofs` | `CacheCounted` | inductive with `TypeOK`, from `FlushCounted` (a flush deletes as many commands as it subtracts) and `AddCounted` (an addition adds one to the counter and at most one command), which rest on the cardinality theorems of the library |
| `BroadcastTakesAll` | `HotSlotProofs` | `NothingStaysBehind` | from `CounterCovers`: the loop can only end with an empty cache, also in the second flush of a request |
| `ViewsAgree` | `HotSlotProofs` | `MembershipTracks` | needs `MembershipInv`, which adds that a node sends itself no message: such a message would change the node's own membership when it arrives |
| `DesertedHangs` | `HotSlotProofs` | `HangsOnlyDeserted` | from `MembershipInv` and `SpinsAlone`, that a spinning node sees nobody but itself: a member it does not see has its announcement still under way to it |
| `SentAreServed` | `HotSlotProofs` | `SentIsServed` | an action property, from `MembershipInv`: the node the owner draws is in the owner's view, hence in its own once no announcement is under way, and its `InGroup` holds if it is copied |
| `WritesInOrder` | `HotSlotOrderProofs` | `OriginOrder` | needs `OriginInv`, which adds that no cached command is newer than the last write, and `NeverCopyingWithCopy`: a request that was cached during a copy and then redirected would be cached without having been executed. Lemmas about one queue are lifted to the broadcast loop and to `ServeRequest`, which flushes, adds and flushes again |
| `GroupKeepsPromise` | `HotGroupProofs` | `KeepsPromise` | the refinement: each initial state maps to one of `HotGroup`, each step to a step or a stutter. `PromiseInv` says that what a copy lacks of the writer's value is pending for it (`RowPending`): under way, or cached, and in the order of the writes, which `OriginInv` provides |
| `NothingIsForgotten`, `SingleWritersConverge` | `HotSlotDeliveryProofs` | `NoLostUpdate`, `SingleWriterConverges` | `Stands`: an undisturbed group keeps all members, no connection is broken, and a node that does not defer has nothing cached. On it `DeliveryInv`: of a key with one writer, each value of a field is at every copy, or a command that carries it is under way or cached |
| `ForwardsOnce` | `HotSlotDeliveryProofs` | `ForwardedOnce` | `Grouped` is inductive while nothing is commanded; only the owner of such a group changes a client's route |
| `WindowsAreExact` | `HotnessProofs` | `WindowExact` | `WindowInv` relates each window to the counts at its last two updates (`Tracks`), through the order in which one `serverCron` updates windows, averages and the short window |
| `MoveTypeCorrect` | `MoveSlotProofs` | `TypeOK` | inductive; a node that answers ASK has a target to name |
| `NoKeyTwice` | `MoveSlotProofs` | `KeyInOnePlace` | needs `PhaseInv`: what the flags of both servers are in each phase of redis-cli (`Phases`), and that a request with ASKING, one whose connection broke included, was asked when the slot was open (`Asked`). A client creates a key at the target only after the source did not have it (`OnePlace`, `PagePlace`), so a key on both sides is one a broken MIGRATE left there, which is in the page |
| `MovesAreTransparent` | `MoveSlotProofs` | `MoveIsTransparent` | `MoveInv` adds to `PhaseInv` that nothing is left at the source when the slot is handed over (`Pages`, from `OnePage`) and that the node a request would be executed at has the newest value (`Newest`) |
| `CopyReachesAll` | `CopyOneSlotProofs` | `CopyComplete` | needs `Setup`, the state of script, flags, group and queues at each stage of the script, and `Pages`: a target is complete, or its turn is still to come, or it has what the pages before the offset list. That the offset of a page is where the last one ended, although keys are numbered by their rank, is `RankGap` and `LastPage` |
| `CopiesEndEqual` | `CopyOneSlotProofs` | `CopyAgrees` | needs `Setup` and `SoleLeads`: of a key that nobody changed during the copy and that one node at most writes, each node has what the writer has or does not have the key, or the last command under way to it carries the writer's value (`Follows`) |
| `CopyEstablishes` | `CopyOneSlotProofs` | `ReachesEstablished` | needs `Setup`, `Pages` and `Untouched`: while no client wrote, every copy of a key is what the owner was loaded with |
| `OneDataStructure` | `KeyMonitorProofs` | `WellFormed` | `Holds` says that a sequence of entries is the list. `UnlinkedChain` and `LinkedChain` follow the four and two branches of `removeFromList` and `insertToListHead`; on them rest `RenewedList`, a slot that is found, and `AddedList`, a new one. `NotFull` is the pigeonhole argument: the entries of the list have different buckets, one of which is free if the slot is new, so the list is not full and nothing is evicted. `Lists` is then inductive until the node is `beyond` |
| `RecencyImplemented` | `KeyMonitorProofs` | `ImplementsRecency` | the refinement, from `SetIsTouch`: what `LRUCacheSet` does to the slots of the entries is `Touched`. `OrderOfList` shows that following `next` from the head meets the entries in their order. A slot beyond the map is `Lose` |
| `NoListKills` | `KeyMonitorProofs` | `DiesOnlyBeyondMap` | every message under way is blank (`Traffic`); `ReceivedBlank` and `MergedBlank` show that its list has one entry, slot 0 with no operation, so the one round of the merge finds the head of the local list and changes nothing. Only `Undefined` is left to kill a server (`Deaths`) |

Some theorems have assumptions beyond the modules'.

* `MovesAreTransparent` assumes `OnePage`, the keys fit in a page: `move_pages`
  shows that it is needed.
* `NothingIsForgotten` and `SingleWritersConverge` assume `NothingReplaced`, a
  node that defers its broadcasts writes whole records, which `lost_field`
  shows to be needed; and `Stored = Key`, the keys existed when the group was
  made, which the proof uses, as the promise does not cover keys created later.
* `CopiesEndEqual` assumes that writes set whole records, and needs it: TLC
  finds `CopyAgrees` violated with two fields and writes of one (three writes,
  no fault). A copy that is given up because values of a page differ leaves a
  target without a key; a later write of one field creates the key there with
  this field alone, and the copies stay different.
* `CopyEstablishes` assumes that the targets are all other masters, as
  `InitEstablished` has it.

What follows a chain of pointers or the ranks of keys is an induction over
numbers. The provers cannot instantiate the induction theorems of the library,
but they can use the theorem that a well-founded relation has minimal elements:
`Least` derives from it that a set of numbers has a least one, and the proofs
look at the first place where two functions differ (`NoFirstDifference`), or at
the least key between two ranks. For this the loops of the models are written
as recursive functions.

So both refinements and every safety property the runs check are proved, but for
`FaultStaysLocal`, which is model-checked: its proof needs `DeliveryInv` for
groups of which one node or one connection is missing. Only model-checked are
also the liveness properties `DeferredIsSent`, `WritesPropagate`,
`CopyEnds`, `RequestAnswered` and `CoolsDown`: reasoning about fairness is out
of the prover's reach.

## 6. Not modelled, and why

The repository holds three whole copies of Redis, a client library, a workload
generator and the scripts and results of experiments. A few thousand lines
are its own logic; the models cover these, which is a small share of all lines.
Left out are

* stock Redis: elections, failure detection, replicas (the clusters of the
  experiments have none), data types, persistence, networking, Lua, modules.
  HMSET, RESTORE and MIGRATE appear as what they do to a key;
* the first variant of the server (`src/server`): an earlier state of the
  modelled functions without the sub-second ways;
* MULTI/EXEC, Lua, pub/sub, multi-key commands: the replication of hot slots
  looks at one key of one command;
* expiry and eviction of keys during a copy or a move;
* more than two masters in `MoveSlot`: the others only redirect;
* the client's loops for TRYAGAIN, CROSSSLOT and CLUSTERDOWN, commands split
  over slots, pipelines and the asynchronous API. The loop that is modelled
  follows MOVED and ASK without counting them (`retry_count` counts detours
  only), so nothing but the servers' agreement ends it: this is what
  `RequestAnswered` checks. Under fairness a client that detours without a
  bound would pass it too;
* the controller, which polls and prints, and the workload generator: a client
  of the models issues any request at any time;
* `hashslot` of `processCommand`, which is uninitialised when `getNodeByQuery`
  returns early (server.c 4249): when the cluster is down and for EXEC outside
  MULTI, neither of which the models have;
* equal timestamps of two servers: both writes pass the test and the copies
  stay different. This is one more case of two writers of a key, for which
  nothing is promised.

## 7. Plan

Done, in this order: `HotSlot` and its safety theorems, `CopyOneSlot`,
`MoveSlot`, `HotGroup` with the refinement and its proof, `Hotness`, the client
loop in `MoveSlot`, `KeyMonitor`, the proofs about moves, windows and delivery,
about the copy of a slot and about the key monitor.

Left, the most useful first:

1. a proof of `FaultStaysLocal`;
2. the move of a slot that is hot, `HotSlot` composed with `MoveSlot`: the
   scripts never do it, the code does not forbid it;
3. `NothingIsForgotten` without `Stored = Key`;
4. the early returns of `getNodeByQuery` (cluster down, EXEC) and with them
   `hashslot`;
5. the client's TRYAGAIN and CLUSTERDOWN loops.
