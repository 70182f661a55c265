------------------------------ MODULE MoveSlot ------------------------------
(***************************************************************************)
(* A slot that is not hot moves from one master to another: redis-cli      *)
(* --cluster moveone or moveall opens the slot on both sides, moves its    *)
(* keys page by page, and makes the target the owner, while clients follow *)
(* the MOVED and ASK answers of the two servers.                           *)
(*                                                                         *)
(* A value is the number of the write that set it, 0 if there is no key.   *)
(* The other masters only redirect, and are left out.                      *)
(***************************************************************************)
EXTENDS SlotKeys

CONSTANTS Source, Target, \* the two masters
          NoNode,         \* a null pointer to a node
          Client,         \* clients with a slot table each
          Key,            \* keys that hash to the slot
          Pipeline,       \* keys per page
          Moves,          \* the commands of redis-cli: "moveone", "moveall"
          SlotsLeft,      \* the source keeps other slots
          MaxRedirect,    \* max_redirect_count of the clients
          MaxWrite,       \* bound on client writes
          MaxFault,       \* bound on commands of redis-cli whose connection breaks
          MaxLost         \* bound on requests whose connection breaks

Node == {Source, Target}

ASSUME MoveAssumption ==
  /\ Source # Target
  /\ NoNode \notin Node
  /\ Key \subseteq Nat /\ IsFiniteSet(Key)
  /\ Pipeline \in Nat \ {0}
  /\ Moves \subseteq {"moveone", "moveall"}
  /\ SlotsLeft \in BOOLEAN
  /\ {MaxRedirect, MaxWrite, MaxFault, MaxLost} \subseteq Nat

VARIABLES
  slots,                \* the owner of the slot, as each node knows it
  migrating_slots_to,   \* per node
  importing_slots_from, \* per node
  store,                \* the value of each key on each node
  move,                 \* the command that is run
  cli,                  \* where redis-cli is
  offset, page,         \* keys already listed, keys listed last
  digest,               \* the values of the page read from the source
  told,                 \* the nodes that were sent SETSLOT NODE
  table,                \* where a client's slot table sends its requests
  req,                  \* the request of a client, None if it has none
  err,                  \* the nodes a client's connection to is broken
  retry_count,          \* detours of a client's request so far
  stray,                \* requests under way whose client has given up
  latest,               \* history: the value last written to each key
  writes, faults, lost  \* client writes and faults so far

slotVars == <<slots, migrating_slots_to, importing_slots_from>>
cliVars  == <<move, cli, offset, page, digest, told>>
ctxVars  == <<table, req, err, retry_count>>
reqVars  == <<ctxVars, stray, latest, writes, lost>>
vars == <<slotVars, store, cliVars, reqVars, faults>>

NoDigest == [k \in Key |-> 0]

None == [at |-> NoNode, key |-> 0, asking |-> FALSE, ver |-> 0]

\* The source owns the slot and has its keys, each with value 1.
Init ==
  /\ slots = [n \in Node |-> Source]
  /\ migrating_slots_to = [n \in Node |-> NoNode]
  /\ importing_slots_from = [n \in Node |-> NoNode]
  /\ \E S \in SUBSET Key :
       /\ store = [n \in Node |-> [k \in Key |->
                     IF n = Source /\ k \in S THEN 1 ELSE 0]]
       /\ latest = [k \in Key |-> IF k \in S THEN 1 ELSE 0]
  /\ move \in Moves
  /\ cli = "importing"
  /\ offset = 0
  /\ page = {}
  /\ digest = NoDigest
  /\ told = {}
  /\ table = [c \in Client |-> Source]
  /\ req = [c \in Client |-> None]
  /\ err = [c \in Client |-> {}]
  /\ retry_count = [c \in Client |-> 0]
  /\ stray = {}
  /\ writes = 1
  /\ faults = 0
  /\ lost = 0

KeysOf(n) == {k \in Key : store[n][k] # 0}

-----------------------------------------------------------------------------
(* CLUSTER SETSLOT.                                                        *)

SetSlotImporting(n, from) ==
  /\ slots[n] # n
  /\ importing_slots_from' = [importing_slots_from EXCEPT ![n] = from]
  /\ UNCHANGED <<slots, migrating_slots_to>>

SetSlotMigrating(n, to) ==
  /\ slots[n] = n
  /\ migrating_slots_to' = [migrating_slots_to EXCEPT ![n] = to]
  /\ UNCHANGED <<slots, importing_slots_from>>

SetSlotStable(n) ==
  /\ importing_slots_from' = [importing_slots_from EXCEPT ![n] = NoNode]
  /\ migrating_slots_to' = [migrating_slots_to EXCEPT ![n] = NoNode]
  /\ UNCHANGED slots

\* Mutant: a node that imports the slot does not change its owner.
SetSlotNode_WhileImporting(n, owner) ==
  /\ slots' = [slots EXCEPT ![n] =
       IF importing_slots_from[n] = NoNode THEN owner ELSE @]
  /\ UNCHANGED <<migrating_slots_to, importing_slots_from>>

\* The node does not mind if it still has keys of the slot; it only forgets
\* that it is migrating it when it has none.
SetSlotNode(n, owner) ==
  /\ slots' = [slots EXCEPT ![n] = owner]
  /\ migrating_slots_to' = [migrating_slots_to EXCEPT ![n] =
       IF KeysOf(n) = {} THEN NoNode ELSE @]
  /\ importing_slots_from' = [importing_slots_from EXCEPT ![n] =
       IF n = owner THEN NoNode ELSE @]

\* clusterUpdateSlotsConfigWith: the source hears that the target claims the
\* slot, with a configEpoch that is greater once it imported the slot.  Keys
\* that are still here are deleted, unless this was the last slot.
SourceLearns ==
  /\ slots[Target] = Target
  /\ slots[Source] # Target
  /\ slots' = [slots EXCEPT ![Source] = Target]
  /\ store' = [store EXCEPT ![Source] =
       IF SlotsLeft THEN [k \in Key |-> 0] ELSE @]
  /\ UNCHANGED <<migrating_slots_to, importing_slots_from, cliVars, reqVars,
                 faults>>

-----------------------------------------------------------------------------
(* redis-cli: clusterManagerMoveSlot.                                      *)

OpenTarget ==
  /\ cli = "importing"
  /\ SetSlotImporting(Target, Source)
  /\ cli' = "migrating"
  /\ UNCHANGED <<store, move, offset, page, digest, told, reqVars, faults>>

OpenSource ==
  /\ cli = "migrating"
  /\ SetSlotMigrating(Source, Target)
  /\ cli' = "list"
  /\ UNCHANGED <<store, move, offset, page, digest, told, reqVars, faults>>

\* The offset grows by a page every time, although the keys that were moved
\* are no longer in the index of the source.
ListPage ==
  LET keys == getKeysInSlot(KeysOf(Source), Pipeline, offset)
  IN /\ cli = "list"
     /\ page' = keys
     /\ offset' = offset + Pipeline
     /\ cli' = IF keys = {} THEN "node" ELSE "migrate"
     /\ UNCHANGED <<slotVars, store, move, digest, told, reqVars, faults>>

\* Mutant: the source deletes the page without waiting for the answers.
Transfer_DeletesPage(S, acked) ==
  store' = [n \in Node |-> [k \in Key |->
    CASE n = Target /\ k \in S -> store[Source][k]
      [] n = Source /\ k \in page -> 0
      [] OTHER -> store[n][k]]]

\* Mutant: the keys are copied.
Transfer_Copies(S, acked) ==
  store' = [store EXCEPT ![Target] = [k \in Key |->
    IF k \in S THEN store[Source][k] ELSE @[k]]]

\* MIGRATE: the keys of S arrive at the target, and the source deletes the
\* ones whose arrival it was told of.
Transfer(S, acked) ==
  store' = [n \in Node |-> [k \in Key |->
    CASE n = Target /\ k \in S -> store[Source][k]
      [] n = Source /\ k \in acked -> 0
      [] OTHER -> store[n][k]]]

\* The keys of the page the source still has.
Present == page \cap KeysOf(Source)

\* MIGRATE of the page: a key the target has already is refused and stays, the
\* others move all the same.
MigratePage ==
  LET keys == Present \ KeysOf(Target)
  IN /\ cli = "migrate"
     /\ Transfer(keys, keys)
     /\ cli' = IF keys = Present THEN "list" ELSE "digest"
     /\ UNCHANGED <<slotVars, move, offset, page, digest, told, reqVars, faults>>

\* What a MIGRATE of redis-cli may restore at the target: with REPLACE anything.
Restorable ==
  CASE cli = "replace" -> Present
    [] cli = "migrate" -> Present \ KeysOf(Target)
    [] OTHER -> {}

\* A connection breaks while a command of redis-cli is under way: the keys of S
\* were restored, the source knows it of those in acked.
Breaks(S, acked) ==
  /\ faults < MaxFault
  /\ faults' = faults + 1
  /\ Transfer(S, acked)

\* The move of the slot ends with an error.
BreakOff ==
  /\ cli' = IF move = "moveall" THEN "stable" ELSE "failed"
  /\ digest' = NoDigest
  /\ UNCHANGED <<slotVars, move, offset, page, told, reqVars>>

\* The target stops answering in the middle of a page, and redis-cli gives up.
MigrateFails ==
  /\ cli \in {"migrate", "digest", "compare", "replace"}
  /\ \E S \in SUBSET Restorable :
       \E acked \in SUBSET S : Breaks(S, acked)
  /\ BreakOff

\* The source connects once more and sends all keys again: a key that had
\* arrived already is busy now, by which redis-cli learns that the target has it.
MigrateBusy ==
  /\ cli = "migrate"
  /\ \E S \in SUBSET Restorable :
       \E acked \in SUBSET S :
         /\ (S \ acked) \cup (Present \cap KeysOf(Target)) # {}
         /\ Breaks(S, acked)
  /\ cli' = "digest"
  /\ UNCHANGED <<slotVars, move, offset, page, digest, told, reqVars>>

\* clusterManagerCompareKeysValues asks the source, then the target.
ReadDigest ==
  /\ cli = "digest"
  /\ digest' = [k \in Key |-> IF k \in page THEN store[Source][k] ELSE 0]
  /\ cli' = "compare"
  /\ UNCHANGED <<slotVars, store, move, offset, page, told, reqVars, faults>>

\* A key that one of the two does not have counts as equal.
Differs(k) ==
  /\ digest[k] # 0
  /\ store[Target][k] # 0
  /\ digest[k] # store[Target][k]

ComparePage ==
  /\ cli = "compare"
  /\ \/ /\ \A k \in page : ~Differs(k)
        /\ cli' = "replace"
        /\ digest' = NoDigest
        /\ UNCHANGED <<slotVars, move, offset, page, told, reqVars>>
     \/ /\ \E k \in page : Differs(k)
        /\ BreakOff
  /\ UNCHANGED <<store, faults>>

\* The values were equal: the page is sent again with REPLACE.
ReplacePage ==
  /\ cli = "replace"
  /\ Transfer(Present, Present)
  /\ cli' = "list"
  /\ UNCHANGED <<slotVars, move, offset, page, digest, told, reqVars, faults>>

\* SETSLOT NODE goes to the masters in the order of the node list, which is
\* any.
TellNode(n) ==
  /\ cli = "node"
  /\ n \notin told
  /\ SetSlotNode(n, Target)
  /\ told' = told \cup {n}
  /\ cli' = CASE told' # Node -> "node"
              [] told' = Node /\ move = "moveall" -> "stable"
              [] OTHER -> "done"
  /\ UNCHANGED <<store, move, offset, page, digest, reqVars, faults>>

\* moveall closes the slot at the source, whether the move went well or not.
CloseSource ==
  /\ cli = "stable"
  /\ SetSlotStable(Source)
  /\ cli' = IF told = Node THEN "done" ELSE "failed"
  /\ UNCHANGED <<store, move, offset, page, digest, told, reqVars, faults>>

Manager ==
  \/ OpenTarget \/ OpenSource \/ ListPage
  \/ MigratePage \/ MigrateFails \/ MigrateBusy
  \/ ReadDigest \/ ComparePage \/ ReplacePage
  \/ CloseSource
  \/ \E n \in Node : TellNode(n)

-----------------------------------------------------------------------------
(* Clients.                                                                *)

Migrating(n) == slots[n] = n /\ migrating_slots_to[n] # NoNode
Importing(n) == ~Migrating(n) /\ importing_slots_from[n] # NoNode

\* Mutant: a missing key is asked for also when the slot is not migrating.
Asks_Always(n, k) == store[n][k] = 0

\* The answer is an ASK.
Asks(n, k) == Migrating(n) /\ store[n][k] = 0

\* The node that is to serve a request for one key.
getNodeByQuery(n, k, asking) ==
  CASE Asks(n, k) -> migrating_slots_to[n]
    [] Importing(n) /\ asking -> n
    [] OTHER -> slots[n]

\* The request has an answer, or the client an error.
Return(c) ==
  /\ req' = [req EXCEPT ![c] = None]
  /\ retry_count' = [retry_count EXCEPT ![c] = 0]

\* The request goes to node n: a broken connection is made again first.
SendTo(c, n, r) ==
  /\ req' = [req EXCEPT ![c] = [r EXCEPT !.at = n]]
  /\ err' = [err EXCEPT ![c] = @ \ {n}]

\* The node cannot be reached: the request goes to any node that can, which
\* will send it back here, or serve it.
Detour(c, n, r) ==
  /\ n \in err[c]
  /\ retry_count[c] < MaxRedirect
  /\ \E m \in Node : SendTo(c, m, r)
  /\ retry_count' = [retry_count EXCEPT ![c] = @ + 1]

\* There is no node to be reached, or there were too many detours.
GiveUp(c, n) ==
  /\ n \in err[c]
  /\ Return(c)
  /\ UNCHANGED err

\* The label retry: the request goes to the node of the slot table.
Retry(c, n, r) ==
  \/ SendTo(c, n, r) /\ UNCHANGED retry_count
  \/ Detour(c, n, r)
  \/ GiveUp(c, n)

\* A write is numbered when the client issues it; a read is request 0.
Issue(c, k, ver) ==
  /\ req[c] = None
  /\ ver <= MaxWrite + 1
  /\ Retry(c, table[c], [at |-> table[c], key |-> k, asking |-> FALSE, ver |-> ver])
  /\ writes' = IF ver = 0 THEN writes ELSE ver
  /\ UNCHANGED <<slotVars, store, cliVars, table, stray, latest, faults, lost>>

Serves(r) == getNodeByQuery(r.at, r.key, r.asking) = r.at

\* The node executes a request it serves.
Executed(r) ==
  \/ r.ver = 0 /\ UNCHANGED <<store, latest>>
  \/ /\ r.ver # 0
     /\ store' = [store EXCEPT ![r.at][r.key] = r.ver]
     /\ latest' = [latest EXCEPT ![r.key] = r.ver]

Serve(c) ==
  /\ req[c] # None
  /\ Serves(req[c])
  /\ Executed(req[c])
  /\ Return(c)
  /\ UNCHANGED <<slotVars, cliVars, table, err, stray, writes, faults, lost>>

\* The client follows an ASK for this request only, with ASKING before it, or
\* gives up when the node cannot be reached.
FollowAsk(c) ==
  LET r == req[c]
      n == getNodeByQuery(r.at, r.key, r.asking)
  IN /\ r # None
     /\ Asks(r.at, r.key)
     /\ \/ SendTo(c, n, [r EXCEPT !.asking = TRUE]) /\ UNCHANGED retry_count
        \/ GiveUp(c, n)
     /\ UNCHANGED <<slotVars, store, cliVars, table, stray, latest, writes,
                    faults, lost>>

\* The client follows a MOVED for good.
FollowMoved(c) ==
  LET r == req[c]
      n == getNodeByQuery(r.at, r.key, r.asking)
  IN /\ r # None
     /\ ~Serves(r)
     /\ ~Asks(r.at, r.key)
     /\ table' = [table EXCEPT ![c] = n]
     /\ Retry(c, n, [r EXCEPT !.asking = FALSE])
     /\ UNCHANGED <<slotVars, store, cliVars, stray, latest, writes, faults,
                    lost>>

Redirect(c) == FollowAsk(c) \/ FollowMoved(c)

\* The connection breaks while the client waits for the answer: the client
\* returns with an error.  The request is lost, or will still be executed.
LoseAnswer(c) ==
  /\ req[c] # None
  /\ lost < MaxLost
  /\ lost' = lost + 1
  /\ Return(c)
  /\ err' = [err EXCEPT ![c] = @ \cup {req[c].at}]
  /\ stray' \in {stray, stray \cup {req[c]}}
  /\ UNCHANGED <<slotVars, store, cliVars, table, latest, writes, faults>>

\* A request nobody waits for is executed after all, or its redirection goes
\* nowhere.
ServeStray(r) ==
  /\ stray' = stray \ {r}
  /\ IF Serves(r) THEN Executed(r) ELSE UNCHANGED <<store, latest>>
  /\ UNCHANGED <<slotVars, cliVars, ctxVars, writes, faults, lost>>

Next ==
  \/ Manager
  \/ SourceLearns
  \/ \E c \in Client :
       \/ \E k \in Key, ver \in {0, writes + 1} : Issue(c, k, ver)
       \/ Serve(c)
       \/ FollowAsk(c)
       \/ FollowMoved(c)
       \/ LoseAnswer(c)
  \/ \E r \in stray : ServeStray(r)

\* redis-cli goes on, and servers answer the requests they are sent.
Spec ==
  /\ Init
  /\ [][Next]_vars
  /\ WF_vars(Manager)
  /\ \A c \in Client : WF_vars(Serve(c)) /\ WF_vars(Redirect(c))

-----------------------------------------------------------------------------
(* Properties.                                                             *)

\* Every variable has its type.
TypeOK ==
  /\ slots \in [Node -> Node]
  /\ migrating_slots_to \in [Node -> Node \cup {NoNode}]
  /\ importing_slots_from \in [Node -> Node \cup {NoNode}]
  /\ store \in [Node -> [Key -> Nat]]
  /\ move \in Moves
  /\ cli \in {"importing", "migrating", "list", "migrate", "digest", "compare",
              "replace", "node", "stable", "done", "failed"}
  /\ offset \in Nat
  /\ page \subseteq Key
  /\ digest \in [Key -> Nat]
  /\ told \subseteq Node
  /\ table \in [Client -> Node]
  /\ req \in [Client -> [at : Node, key : Key, asking : BOOLEAN, ver : Nat]
                          \cup {None}]
  /\ err \in [Client -> SUBSET Node]
  /\ retry_count \in [Client -> 0..MaxRedirect]
  /\ stray \subseteq [at : Node, key : Key, asking : BOOLEAN, ver : Nat]
  /\ latest \in [Key -> Nat]
  /\ writes \in Nat
  /\ faults \in Nat
  /\ lost \in Nat

\* The page of a MIGRATE that met a key the target has already.
Retried == IF cli \in {"digest", "compare", "replace"} THEN page ELSE {}

\* Until the slot is handed over, or the move was broken off, a key is on one
\* side only, though clients create keys on both sides while pages are moved:
\* MIGRATE never meets a key the target has already, unless a connection of its
\* own broke.  Then only keys of this page are on both sides, and none is when
\* the page was sent again with REPLACE.
KeyInOnePlace ==
  told = {} /\ cli \notin {"stable", "failed"} =>
    KeysOf(Source) \cap KeysOf(Target) \subseteq Retried

\* A request that is served sees the value last written to its key.
ServedLatest ==
  \A c \in Client :
    req[c] # None /\ Serves(req[c]) =>
      store[req[c].at][req[c].key] = latest[req[c].key]

\* A moveall was broken off, which closes the slot at the source although keys
\* of it are at the target.
ClosedEarly ==
  move = "moveall" /\ cli \in {"stable", "failed"} /\ told # Node

\* While a slot is moved, and after a moveone that failed half way as well, a
\* request is only ever served by a node with the latest value of its key,
\* whatever MOVED and ASK answers it followed and however old they are, and
\* although a page may be sent again with REPLACE.
MoveIsTransparent == ~ClosedEarly => ServedLatest

\* Every request is answered: a client sent back and forth between two nodes
\* that disagree about the owner gets out of it.
RequestAnswered == \A c \in Client : req[c] # None ~> req[c] = None
=============================================================================
