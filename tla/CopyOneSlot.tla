----------------------------- MODULE CopyOneSlot -----------------------------
(***************************************************************************)
(* The copy of a hot slot while clients are at work: the script that makes *)
(* the hot group and then runs redis-cli --cluster copyone, which sends    *)
(* COPYING to the owner, copies the keys page by page to one target after  *)
(* the other, and sends FINCOPY.                                           *)
(***************************************************************************)
EXTENDS HotSlot, SlotKeys

CONSTANTS Targets,  \* the instances to copy to, in the order of --cluster-to
          Pipeline  \* keys per page

\* A hash that exists has a field.
ASSUME CopyAssumption ==
  /\ Key \subseteq Nat
  /\ Field # {}
  /\ Targets \in Seq(Node \ {Owner})
  /\ Pipeline \in Nat \ {0}

VARIABLES cli,    \* where the script and redis-cli are
          queue,  \* the instances still to be dealt with
          offset, \* keys of the slot already listed
          page,   \* the keys listed last
          digest, \* the values of the page read from the owner
          dirty   \* history: keys written while the copy was being made

cliVars == <<cli, queue, offset, page, digest, dirty>>
allVars == <<vars, cliVars>>

CopyInit ==
  /\ Init
  /\ cli = "group"
  /\ queue = <<Owner>> \o Targets
  /\ offset = 0
  /\ page = {}
  /\ digest = <<>>
  /\ dirty = {}

\* setHotSlot: HOTGROUP ADD on the owner, then on each target.
SetHotSlot ==
  /\ cli = "group"
  /\ queue # <<>>
  /\ HotGroupAdd(Head(queue))
  /\ queue' = Tail(queue)
  /\ UNCHANGED <<cli, offset, page, digest, dirty>>

StartCopy ==
  /\ cli = "group"
  /\ queue = <<>>
  /\ SetSlotCopying(Owner)
  /\ cli' = "list"
  /\ queue' = Targets
  /\ UNCHANGED <<offset, page, digest, dirty>>

\* The copy to one target ended, well or not: copyone ignores the result.
NextTarget ==
  /\ queue' = Tail(queue)
  /\ offset' = 0
  /\ page' = {}
  /\ digest' = <<>>
  /\ cli' = "list"

\* Mutant: the offset starts again with every page.
NextPage_FromStart ==
  /\ page' = {}
  /\ digest' = <<>>
  /\ offset' = 0
  /\ cli' = "list"
  /\ UNCHANGED queue

\* One page is done, the next one is listed.
NextPage ==
  /\ page' = {}
  /\ digest' = <<>>
  /\ cli' = "list"
  /\ UNCHANGED <<queue, offset>>

ListPage ==
  LET keys == getKeysInSlot({k \in Key : Exists(Owner, k)}, Pipeline, offset)
  IN /\ cli = "list"
     /\ queue # <<>>
     /\ ~spinning[Owner]
     /\ \/ keys = {} /\ NextTarget
        \/ /\ keys # {}
           /\ page' = keys
           /\ offset' = offset + Pipeline
           /\ cli' = "migrate"
           /\ UNCHANGED <<queue, digest>>
     /\ UNCHANGED <<vars, dirty>>

\* The owner's values of the keys in S are restored at the target.
Restore(d, S) ==
  /\ store' = [store EXCEPT ![d] = [k \in Key |->
                 IF k \in S THEN store[Owner][k] ELSE @[k]]]
  /\ UNCHANGED <<flagVars, related_ins, cacheVars, modeVars, ustime, spinning,
                 netVars, bus, clientVars, histVars, admins>>

\* The keys of the page the owner still has.
Present == {k \in page : Exists(Owner, k)}

\* MIGRATE COPY of the page: a key the target has already is refused, the
\* others are restored all the same.
MigratePage ==
  LET d == Head(queue)
      keys == Present
      busy == {k \in keys : Exists(d, k)}
  IN /\ cli = "migrate"
     /\ ~spinning[Owner] /\ ~spinning[d]
     /\ Restore(d, keys \ busy)
     /\ \/ busy = {} /\ NextPage
        \/ /\ busy # {}
           /\ cli' = "digest"
           /\ UNCHANGED <<queue, offset, page, digest>>
     /\ UNCHANGED <<faults, dirty>>

\* What a MIGRATE of redis-cli may restore at d: with REPLACE anything.
Restorable(d) ==
  {k \in Present : cli = "replace" \/ (cli = "migrate" /\ ~Exists(d, k))}

\* The target does not answer in time: some keys may have arrived, the page
\* failed, and so did the copy to this target.
PageFails ==
  LET d == Head(queue)
  IN /\ cli \in {"migrate", "digest", "compare", "replace"}
     /\ Fault
     /\ \E S \in SUBSET Restorable(d) : Restore(d, S)
     /\ NextTarget
     /\ UNCHANGED dirty

\* The connection to the target breaks and the owner connects once more, with
\* all keys again: one that had arrived already is busy now.
PageBusy ==
  LET d == Head(queue)
  IN /\ cli = "migrate"
     /\ Fault
     /\ \E S \in SUBSET Restorable(d) :
          /\ \E k \in Present : k \in S \/ Exists(d, k)
          /\ Restore(d, S)
     /\ cli' = "digest"
     /\ UNCHANGED <<queue, offset, page, digest, dirty>>

\* clusterManagerCompareKeysValues asks the owner, then the target.
ReadDigest ==
  /\ cli = "digest"
  /\ digest' = [k \in page |-> store[Owner][k]]
  /\ cli' = "compare"
  /\ UNCHANGED <<vars, queue, offset, page, dirty>>

\* A key that one of the two does not have counts as equal.
Differs(d, k) ==
  /\ digest[k] # NoHash
  /\ Exists(d, k)
  /\ digest[k] # store[d][k]

ComparePage ==
  LET d == Head(queue)
  IN /\ cli = "compare"
     /\ \/ /\ \A k \in page : ~Differs(d, k)
           /\ cli' = "replace"
           /\ UNCHANGED <<queue, offset, page, digest>>
        \/ /\ \E k \in page : Differs(d, k)
           /\ NextTarget
     /\ UNCHANGED <<vars, dirty>>

\* The values were equal: the page is sent again with REPLACE.
ReplacePage ==
  /\ cli = "replace"
  /\ ~spinning[Owner] /\ ~spinning[Head(queue)]
  /\ Restore(Head(queue), Present)
  /\ NextPage
  /\ UNCHANGED <<faults, dirty>>

EndCopy ==
  /\ cli = "list"
  /\ queue = <<>>
  /\ SetSlotFincopy(Owner)
  /\ cli' = "done"
  /\ UNCHANGED <<queue, offset, page, digest, dirty>>

BusEmpty == \A s, d \in Node : bus[s][d] = <<>>

\* The copy is being made, or a node does not know the whole group yet.
Forming == cli \notin {"group", "done"} \/ (cli = "done" /\ ~BusEmpty)

ClientStep ==
  /\ Request
  /\ dirty' = IF Forming
              THEN dirty \cup {k \in Key : \E n \in Node : store'[n][k] # store[n][k]}
              ELSE dirty
  /\ UNCHANGED <<cli, queue, offset, page, digest>>

ServerStep == (Timer \/ Deliver) /\ UNCHANGED cliVars

Manager ==
  \/ SetHotSlot \/ StartCopy \/ ListPage \/ MigratePage \/ PageFails \/ PageBusy
  \/ ReadDigest \/ ComparePage \/ ReplacePage \/ EndCopy

CopyNext == Manager \/ ClientStep \/ ServerStep

\* redis-cli goes on as long as its commands are answered, and a server reads
\* its cluster bus.
CopySpec ==
  /\ CopyInit
  /\ [][CopyNext]_allVars
  /\ WF_allVars(Manager)
  /\ \A s, d \in Node : WF_allVars(ReceiveHotGroup(s, d) /\ UNCHANGED cliVars)

-----------------------------------------------------------------------------
(* Properties.                                                             *)

\* The copy of the slot was made, every node heard of every other, and no
\* fault happened.
Established == cli = "done" /\ BusEmpty /\ faults = 0

\* redis-cli --cluster copyone ends with a key of the slot on every target if
\* the owner had it when the copy began, whatever clients write meanwhile as
\* long as they create no key, which would shift the pages, and no connection
\* breaks: of a page that fails copyone takes no notice.
CopyComplete ==
  cli = "done" /\ faults = 0 /\ dirty \subseteq Stored =>
    \A i \in 1..Len(Targets), k \in Stored : Exists(Targets[i], k)

\* The flags, the hot group and the data that setHotSlot and copyone leave
\* behind when no client writes are the ones InitEstablished starts from, in
\* whatever order the bus delivered the hot group messages.
ReachesEstablished ==
  Established /\ writes = 1 =>
    /\ have_copy = [n \in Node |-> n = Owner]
    /\ is_copied = [n \in Node |-> TRUE]
    /\ is_copying = [n \in Node |-> FALSE]
    /\ related_ins = [n \in Node |-> Node]
    /\ store = [n \in Node |-> Loaded]

\* Every node that has key k has the same value.
CopiesAgree(k) ==
  \A n, m \in Node : Exists(n, k) /\ Exists(m, k) => store[n][k] = store[m][k]

\* After the copy, the copies of a key that no client changed while it was
\* being made, and that one node at most ever writes, are equal once its
\* updates have arrived: MIGRATE, the comparison of values and the second
\* MIGRATE with REPLACE leave no other value behind.
CopyAgrees ==
  Established =>
    \A k \in Key \ dirty :
      Cardinality(writers[k]) <= 1 /\ Quiet(k) => CopiesAgree(k)

\* The same of all keys: a write that arrives during the copy reaches the
\* copies as well.
CopyCatchesUp ==
  Established =>
    \A k \in Key : Cardinality(writers[k]) <= 1 /\ Quiet(k) => CopiesAgree(k)

\* The copy comes to an end, also when its pages meet keys the target has
\* already, and then the owner is told so.
CopyEnds == <>(cli = "done" /\ have_copy[Owner])
=============================================================================
