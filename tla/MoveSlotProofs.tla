--------------------------- MODULE MoveSlotProofs ---------------------------
(***************************************************************************)
(* While a slot moves, a key is in one place, and requests see the latest  *)
(* value: for any number of clients, keys and writes.                      *)
(***************************************************************************)
EXTENDS MoveSlot, TLAPS, FiniteSetTheorems

-----------------------------------------------------------------------------
(* Types.                                                                  *)

Request == [at : Node, key : Key, asking : BOOLEAN, ver : Nat]

\* An outstanding request differs from None, as it is at a node.
LEMMA RequestIsNotNone ==
  ASSUME TypeOK, NEW c \in Client
  PROVE  /\ req[c] # None <=> req[c] \in Request
         /\ req[c] # None <=> req[c].at # NoNode
         /\ None.asking = FALSE
  BY MoveAssumption DEF TypeOK, None, Request, Node

LEMMA PageIsOfKeys ==
  ASSUME NEW S, NEW count, NEW based
  PROVE  getKeysInSlot(S, count, based) \subseteq S
  BY DEF getKeysInSlot

\* Where a request is sent on to is a node.
LEMMA AnswerNamesNode ==
  ASSUME TypeOK, NEW n \in Node, NEW k, NEW asking
  PROVE  getNodeByQuery(n, k, asking) \in Node
  BY DEF TypeOK, getNodeByQuery, Asks, Migrating, Importing

\* An ASK names the node the slot is migrating to.
LEMMA AskNamesOther ==
  ASSUME NEW n, NEW k, NEW asking, Asks(n, k)
  PROVE  getNodeByQuery(n, k, asking) = migrating_slots_to[n]
  BY DEF getNodeByQuery, Asks, Migrating, Importing

LEMMA InitTyped == Init => TypeOK
  BY MoveAssumption DEF Init, TypeOK, None, NoDigest, Node

LEMMA SetSlotTyped ==
  ASSUME TypeOK,
         \/ SetSlotImporting(Target, Source)
         \/ SetSlotMigrating(Source, Target)
         \/ SetSlotStable(Source)
         \/ \E n \in Node : SetSlotNode(n, Target)
  PROVE  /\ slots' \in [Node -> Node]
         /\ migrating_slots_to' \in [Node -> Node \cup {NoNode}]
         /\ importing_slots_from' \in [Node -> Node \cup {NoNode}]
  BY DEF TypeOK, SetSlotImporting, SetSlotMigrating, SetSlotStable, SetSlotNode,
         Node

LEMMA TransferTyped ==
  ASSUME TypeOK, NEW S, NEW acked, Transfer(S, acked)
  PROVE  store' \in [Node -> [Key -> Nat]]
  <1>1. Source \in Node /\ store[Source] \in [Key -> Nat]
    BY DEF TypeOK, Node
  <1>2. \A n \in Node, k \in Key : store'[n][k] \in Nat
    BY <1>1 DEF TypeOK, Transfer
  <1> QED BY <1>2 DEF Transfer

AtPage == cli \in {"migrate", "digest", "compare", "replace"}

\* The commands for a page: some of its keys arrive and some are deleted, all of
\* them when redis-cli goes on with the next page.
PageStep ==
  /\ AtPage
  /\ \E S \in SUBSET Present : \E acked \in SUBSET S :
       /\ Transfer(S, acked)
       /\ cli' = "list" => acked = Present
  /\ \/ cli' \in {"list", "digest", "compare", "replace"}
     \/ cli' = IF move = "moveall" THEN "stable" ELSE "failed"
  /\ digest' \in [Key -> Nat]
  /\ faults' \in Nat
  /\ UNCHANGED <<slotVars, move, offset, page, told, reqVars>>

\* A command that only reads transfers nothing.
LEMMA NothingTransferred ==
  ASSUME TypeOK, store' = store
  PROVE  Transfer({}, {})
  BY DEF TypeOK, Transfer

\* Every command of redis-cli is about the flags, the index or a page.
LEMMA ManagerKinds ==
  ASSUME TypeOK, Manager
  PROVE  \/ OpenTarget \/ OpenSource \/ ListPage \/ CloseSource \/ PageStep
         \/ \E n \in Node : TellNode(n)
  <1> DEFINE Ends == cli' = IF move = "moveall" THEN "stable" ELSE "failed"
  <1>1. CASE MigratePage
    <2> DEFINE keys == Present \ KeysOf(Target)
    <2>1. keys \in SUBSET Present /\ keys \in SUBSET keys
      OBVIOUS
    <2>2. /\ Transfer(keys, keys)
          /\ cli' = IF keys = Present THEN "list" ELSE "digest"
      BY <1>1 DEF MigratePage
    <2> HIDE DEF keys
    <2>3. QED BY <1>1, <2>1, <2>2 DEF MigratePage, PageStep, AtPage, TypeOK
  <1>2. Restorable \subseteq Present
    BY DEF Restorable
  <1>3. CASE MigrateFails
    <2>1. PICK S \in SUBSET Restorable : \E acked \in SUBSET S : Breaks(S, acked)
      BY <1>3 DEF MigrateFails
    <2>2. PICK acked \in SUBSET S : Breaks(S, acked) BY <2>1
    <2>3. Transfer(S, acked) /\ faults' \in Nat BY <2>2 DEF Breaks, TypeOK
    <2>4. AtPage /\ Ends BY <1>3 DEF MigrateFails, BreakOff, AtPage
    <2>5. digest' \in [Key -> Nat] BY <1>3 DEF MigrateFails, BreakOff, NoDigest
    <2>6. UNCHANGED <<slotVars, move, offset, page, told, reqVars>>
      BY <1>3 DEF MigrateFails, BreakOff
    <2>7. S \in SUBSET Present BY <1>2, <2>1
    <2>8. cli' # "list" BY <2>4
    <2>9. QED BY <2>2, <2>3, <2>4, <2>5, <2>6, <2>7, <2>8 DEF PageStep
  <1>4. CASE MigrateBusy
    <2>1. PICK S \in SUBSET Restorable : \E acked \in SUBSET S : Breaks(S, acked)
      BY <1>4 DEF MigrateBusy
    <2>2. PICK acked \in SUBSET S : Breaks(S, acked) BY <2>1
    <2>3. Transfer(S, acked) /\ faults' \in Nat BY <2>2 DEF Breaks, TypeOK
    <2>4. AtPage /\ cli' = "digest" BY <1>4 DEF MigrateBusy, AtPage
    <2>5. digest' \in [Key -> Nat] BY <1>4 DEF MigrateBusy, TypeOK
    <2>6. UNCHANGED <<slotVars, move, offset, page, told, reqVars>>
      BY <1>4 DEF MigrateBusy
    <2>7. S \in SUBSET Present BY <1>2, <2>1
    <2>8. QED BY <2>2, <2>3, <2>4, <2>5, <2>6, <2>7 DEF PageStep
  <1>5. CASE ReadDigest
    <2>1. Transfer({}, {}) BY <1>5, NothingTransferred DEF ReadDigest
    <2>2. \A k \in Key : store[Source][k] \in Nat BY DEF TypeOK, Node
    <2>3. digest' \in [Key -> Nat] BY <1>5, <2>2 DEF ReadDigest
    <2>4. AtPage /\ cli' = "compare" BY <1>5 DEF ReadDigest, AtPage
    <2>5. QED BY <1>5, <2>1, <2>3, <2>4 DEF ReadDigest, PageStep, TypeOK
  <1>6. CASE ComparePage
    <2>1. Transfer({}, {}) BY <1>6, NothingTransferred DEF ComparePage
    <2>2. digest' \in [Key -> Nat] BY <1>6 DEF ComparePage, BreakOff, NoDigest
    <2>3. AtPage /\ (cli' = "replace" \/ Ends)
      BY <1>6 DEF ComparePage, BreakOff, AtPage
    <2>4. cli' # "list" BY <2>3
    <2>5. faults' \in Nat /\ UNCHANGED <<slotVars, move, offset, page, told, reqVars>>
      BY <1>6 DEF ComparePage, BreakOff, TypeOK
    <2>6. QED BY <2>1, <2>2, <2>3, <2>4, <2>5 DEF PageStep
  <1>7. CASE ReplacePage
    BY <1>7 DEF ReplacePage, PageStep, AtPage, TypeOK
  <1> QED BY <1>1, <1>3, <1>4, <1>5, <1>6, <1>7 DEF Manager

LEMMA ManagerTyped ==
  ASSUME TypeOK, Manager
  PROVE  TypeOK'
  <1> SUFFICES ASSUME Manager PROVE TypeOK'
    OBVIOUS
  <1>1. CASE OpenTarget
    <2>1. SetSlotImporting(Target, Source) BY <1>1 DEF OpenTarget
    <2>2. QED BY <1>1, <2>1, SetSlotTyped DEF OpenTarget, TypeOK, reqVars, ctxVars
  <1>2. CASE OpenSource
    <2>1. SetSlotMigrating(Source, Target) BY <1>2 DEF OpenSource
    <2>2. QED BY <1>2, <2>1, SetSlotTyped DEF OpenSource, TypeOK, reqVars, ctxVars
  <1>3. CASE ListPage
    <2>1. KeysOf(Source) \subseteq Key BY DEF KeysOf
    <2>2. page' \subseteq Key BY <1>3, <2>1, PageIsOfKeys DEF ListPage
    <2>3. cli' \in {"node", "migrate"} BY <1>3 DEF ListPage
    <2>4. offset' \in Nat BY <1>3, MoveAssumption DEF ListPage, TypeOK
    <2>5. QED BY <1>3, <2>2, <2>3, <2>4 DEF ListPage, TypeOK, slotVars, reqVars, ctxVars
  <1>4. CASE PageStep
    <2>1. store' \in [Node -> [Key -> Nat]]
      BY <1>4, TransferTyped DEF PageStep
    <2>2. cli' \in {"list", "digest", "compare", "replace", "stable", "failed"}
      BY <1>4 DEF PageStep
    <2>3. QED BY <1>4, <2>1, <2>2 DEF PageStep, TypeOK, slotVars, reqVars, ctxVars
  <1>6. CASE CloseSource
    <2>1. SetSlotStable(Source) BY <1>6 DEF CloseSource
    <2>2. cli' \in {"done", "failed"} BY <1>6 DEF CloseSource
    <2>3. QED BY <1>6, <2>1, <2>2, SetSlotTyped DEF CloseSource, TypeOK, reqVars, ctxVars
  <1>7. ASSUME NEW n \in Node, TellNode(n) PROVE TypeOK'
    <2>1. SetSlotNode(n, Target) BY <1>7 DEF TellNode
    <2>2. told' \subseteq Node BY <1>7 DEF TellNode, TypeOK
    <2>3. cli' \in {"node", "stable", "done"} BY <1>7, <2>2 DEF TellNode
    <2>4. QED BY <1>7, <2>1, <2>2, <2>3, SetSlotTyped DEF TellNode, TypeOK, reqVars, ctxVars
  <1> QED BY <1>1, <1>2, <1>3, <1>4, <1>6, <1>7, ManagerKinds

LEMMA SourceLearnsTyped ==
  ASSUME TypeOK, SourceLearns
  PROVE  TypeOK'
  <1>1. slots' \in [Node -> Node] BY DEF SourceLearns, TypeOK, Node
  <1>2. store' \in [Node -> [Key -> Nat]] BY DEF SourceLearns, TypeOK
  <1> QED BY <1>1, <1>2 DEF SourceLearns, TypeOK, cliVars, reqVars, ctxVars

LEMMA ExecutedTyped ==
  ASSUME TypeOK, NEW r \in Request, Executed(r)
  PROVE  store' \in [Node -> [Key -> Nat]] /\ latest' \in [Key -> Nat]
  <1>1. r.at \in Node /\ r.key \in Key /\ r.ver \in Nat
    BY DEF Request
  <1>2. [store[r.at] EXCEPT ![r.key] = r.ver] \in [Key -> Nat]
    BY <1>1 DEF TypeOK
  <1>3. \/ store' = store /\ latest' = latest
        \/ /\ store' = [store EXCEPT ![r.at][r.key] = r.ver]
           /\ latest' = [latest EXCEPT ![r.key] = r.ver]
    BY DEF Executed
  <1>4. store' \in [Node -> [Key -> Nat]]
    BY <1>1, <1>2, <1>3 DEF TypeOK
  <1>5. latest' \in [Key -> Nat]
    BY <1>1, <1>3 DEF TypeOK
  <1> QED BY <1>4, <1>5

\* What Issue and the two ways to follow an answer share.
ClientTypes ==
  /\ req \in [Client -> Request \cup {None}]
  /\ err \in [Client -> SUBSET Node]
  /\ retry_count \in [Client -> 0..MaxRedirect]

LEMMA ReturnTyped ==
  ASSUME ClientTypes, NEW c \in Client, Return(c)
  PROVE  /\ req' \in [Client -> Request \cup {None}]
         /\ retry_count' \in [Client -> 0..MaxRedirect]
  BY MoveAssumption DEF ClientTypes, Return

LEMMA SendTyped ==
  ASSUME ClientTypes, NEW c \in Client, NEW n \in Node, NEW r \in Request,
         SendTo(c, n, r)
  PROVE  /\ req' \in [Client -> Request \cup {None}]
         /\ err' \in [Client -> SUBSET Node]
  <1>1. [r EXCEPT !.at = n] \in Request BY DEF Request
  <1> QED BY <1>1 DEF ClientTypes, SendTo

LEMMA RetryTyped ==
  ASSUME ClientTypes, NEW c \in Client, NEW n \in Node, NEW r \in Request,
         Retry(c, n, r)
  PROVE  ClientTypes'
  <1>1. CASE SendTo(c, n, r) /\ UNCHANGED retry_count
    BY <1>1, SendTyped DEF ClientTypes
  <1>2. CASE Detour(c, n, r)
    <2>1. PICK m \in Node : SendTo(c, m, r) BY <1>2 DEF Detour
    <2>2. retry_count[c] + 1 \in 0..MaxRedirect
      BY <1>2, MoveAssumption DEF Detour, ClientTypes
    <2>3. retry_count' \in [Client -> 0..MaxRedirect]
      BY <1>2, <2>2 DEF Detour, ClientTypes
    <2>4. QED BY <2>1, <2>3, SendTyped DEF ClientTypes
  <1>3. CASE GiveUp(c, n)
    BY <1>3, ReturnTyped DEF GiveUp, ClientTypes
  <1> QED BY <1>1, <1>2, <1>3 DEF Retry

LEMMA ClientTyped ==
  ASSUME TypeOK, NEW c \in Client,
         \/ \E k \in Key, ver \in {0, writes + 1} : Issue(c, k, ver)
         \/ Serve(c)
         \/ FollowAsk(c)
         \/ FollowMoved(c)
         \/ LoseAnswer(c)
  PROVE  TypeOK'
  <1>0. ClientTypes BY DEF TypeOK, ClientTypes, Request
  <1>1. CASE \E k \in Key, ver \in {0, writes + 1} : Issue(c, k, ver)
    <2>1. PICK k \in Key, ver \in {0, writes + 1} : Issue(c, k, ver) BY <1>1
    <2>2. ver \in Nat BY DEF TypeOK
    <2>3. [at |-> table[c], key |-> k, asking |-> FALSE, ver |-> ver] \in Request
      BY <2>2 DEF TypeOK, Request
    <2>4. table[c] \in Node BY DEF TypeOK
    <2>5. ClientTypes' BY <1>0, <2>1, <2>3, <2>4, RetryTyped DEF Issue
    <2>6. writes' \in Nat BY <2>1, <2>2 DEF Issue, TypeOK
    <2>7. QED
      BY <2>1, <2>5, <2>6 DEF Issue, TypeOK, ClientTypes, Request, slotVars, cliVars
  <1>2. CASE Serve(c)
    <2>1. req[c] \in Request BY <1>2, RequestIsNotNone DEF Serve
    <2>2. store' \in [Node -> [Key -> Nat]] /\ latest' \in [Key -> Nat]
      BY <1>2, <2>1, ExecutedTyped DEF Serve
    <2>3. ClientTypes' BY <1>0, <1>2, ReturnTyped DEF Serve, ClientTypes
    <2>4. QED
      BY <1>2, <2>2, <2>3 DEF Serve, TypeOK, ClientTypes, Request, slotVars, cliVars
  <1>3. CASE FollowAsk(c)
    <2> DEFINE n == getNodeByQuery(req[c].at, req[c].key, req[c].asking)
    <2>1. req[c] \in Request BY <1>3, RequestIsNotNone DEF FollowAsk
    <2>2. n \in Node BY <2>1, AnswerNamesNode DEF Request
    <2>3. [req[c] EXCEPT !.asking = TRUE] \in Request BY <2>1 DEF Request
    <2>4. \/ /\ SendTo(c, n, [req[c] EXCEPT !.asking = TRUE])
             /\ UNCHANGED retry_count
          \/ GiveUp(c, n)
      BY <1>3 DEF FollowAsk
    <2> HIDE DEF n
    <2>5. ClientTypes'
      BY <1>0, <2>2, <2>3, <2>4, SendTyped, ReturnTyped DEF GiveUp, ClientTypes
    <2>6. QED
      BY <1>3, <2>5 DEF FollowAsk, TypeOK, ClientTypes, Request, slotVars, cliVars
  <1>4. CASE FollowMoved(c)
    <2> DEFINE n == getNodeByQuery(req[c].at, req[c].key, req[c].asking)
    <2>1. req[c] \in Request BY <1>4, RequestIsNotNone DEF FollowMoved
    <2>2. n \in Node BY <2>1, AnswerNamesNode DEF Request
    <2>3. [req[c] EXCEPT !.asking = FALSE] \in Request BY <2>1 DEF Request
    <2>4. Retry(c, n, [req[c] EXCEPT !.asking = FALSE])
      BY <1>4 DEF FollowMoved
    <2>5. table' = [table EXCEPT ![c] = n] BY <1>4 DEF FollowMoved
    <2> HIDE DEF n
    <2>6. ClientTypes' BY <1>0, <2>2, <2>3, <2>4, RetryTyped
    <2>7. table' \in [Client -> Node] BY <2>2, <2>5 DEF TypeOK
    <2>8. QED
      BY <1>4, <2>6, <2>7 DEF FollowMoved, TypeOK, ClientTypes, Request, slotVars,
                              cliVars
  <1>5. CASE LoseAnswer(c)
    <2>1. req[c] \in Request BY <1>5, RequestIsNotNone DEF LoseAnswer
    <2>2. stray' \subseteq Request BY <1>5, <2>1 DEF LoseAnswer, TypeOK, Request
    <2>3. err' \in [Client -> SUBSET Node]
      BY <1>5, <2>1 DEF LoseAnswer, TypeOK, Request
    <2>4. ClientTypes' BY <1>0, <1>5, <2>3, ReturnTyped DEF LoseAnswer, ClientTypes
    <2>5. lost' \in Nat BY <1>5 DEF LoseAnswer, TypeOK
    <2>6. QED
      BY <1>5, <2>2, <2>4, <2>5 DEF LoseAnswer, TypeOK, ClientTypes, Request,
                                    slotVars, cliVars
  <1> QED BY <1>1, <1>2, <1>3, <1>4, <1>5

LEMMA StrayTyped ==
  ASSUME TypeOK, NEW r \in stray, ServeStray(r)
  PROVE  TypeOK'
  <1>1. r \in Request BY DEF TypeOK, Request
  <1>2. store' \in [Node -> [Key -> Nat]] /\ latest' \in [Key -> Nat]
    <2>1. CASE Executed(r) BY <1>1, <2>1, ExecutedTyped
    <2>2. CASE UNCHANGED <<store, latest>> BY <2>2 DEF TypeOK
    <2>3. QED BY <2>1, <2>2 DEF ServeStray
  <1> QED BY <1>2 DEF ServeStray, TypeOK, slotVars, cliVars, ctxVars

\* Every step of redis-cli, the servers and the clients keeps the types.
THEOREM MoveTypeCorrect == Spec => []TypeOK
  <1>1. Init => TypeOK BY InitTyped
  <1>2. TypeOK /\ [Next]_vars => TypeOK'
    <2> SUFFICES ASSUME TypeOK, [Next]_vars PROVE TypeOK'
      OBVIOUS
    <2>1. CASE UNCHANGED vars
      BY <2>1 DEF TypeOK, vars, slotVars, cliVars, reqVars, ctxVars
    <2>2. CASE Next
      BY <2>2, ManagerTyped, SourceLearnsTyped, ClientTyped, StrayTyped DEF Next
    <2> QED BY <2>1, <2>2
  <1> QED BY <1>1, <1>2, PTL DEF Spec

-----------------------------------------------------------------------------
(* A key in one place.                                                     *)

Opened == cli \notin {"importing", "migrating"}

\* A moveall that was broken off closes the slot at the source, which then
\* answers for keys it no longer has: nothing is claimed after that.
Trusted == ~ClosedEarly

\* How the flags of the two servers follow the progress of redis-cli.  Once
\* the slot was opened the source never owns it without migrating it.
Phases ==
  /\ migrating_slots_to[Target] = NoNode
  /\ migrating_slots_to[Source] # Source
  /\ importing_slots_from[Source] = NoNode
  /\ ~Opened => /\ told = {}
                /\ offset = 0
                /\ migrating_slots_to[Source] = NoNode
                /\ KeysOf(Target) = {}
  /\ Opened /\ slots[Source] = Source => migrating_slots_to[Source] = Target
  /\ cli = "list" \/ AtPage \/ cli = "failed" => told = {}
  /\ cli \in {"stable", "done"} => told = Node
  /\ \A n \in told : slots[n] = Target
  /\ slots[Target] = Target => Target \in told
  /\ slots[Source] = Target => told # {}

\* A request is asked of the target only for a key the source does not have,
\* and never gets again.
AskedOf(r) ==
  r.asking => r.at = Target /\ Opened /\ store[Source][r.key] = 0

Asked ==
  /\ \A c \in Client : AskedOf(req[c])
  /\ \A r \in stray : AskedOf(r)

PhaseInv == TypeOK /\ (Trusted => Phases /\ Asked)

\* A moveall that was broken off is over but for the command that closes the
\* slot.
LEMMA TrustIsLost ==
  ASSUME TypeOK, [Next]_vars, Trusted'
  PROVE  Trusted
  <1> SUFFICES ASSUME ClosedEarly PROVE ClosedEarly'
    BY DEF Trusted
  <1>1. CASE Manager
    <2>1. CloseSource
      BY <1>1, ManagerKinds
      DEF ClosedEarly, OpenTarget, OpenSource, ListPage, PageStep, AtPage, TellNode
    <2>2. QED BY <2>1 DEF CloseSource, ClosedEarly
  <1>2. CASE UNCHANGED cliVars
    BY <1>2 DEF cliVars, ClosedEarly
  <1> QED BY <1>1, <1>2
    DEF Next, vars, SourceLearns, Issue, Serve, FollowAsk, FollowMoved,
        LoseAnswer, ServeStray

\* Which server serves a request, as long as redis-cli is where Phases says.
LEMMA WhoServes ==
  ASSUME TypeOK, Phases, NEW r \in Request, AskedOf(r), Serves(r)
  PROVE  \/ /\ r.at = Source
            /\ slots[Source] = Source
            /\ Opened => store[Source][r.key] # 0
         \/ /\ r.at = Target
            /\ Opened
            /\ \/ store[Source][r.key] = 0
               \/ Target \in told
  <1>2. r.at \in Node /\ r.key \in Key BY DEF Request
  <1>3. getNodeByQuery(r.at, r.key, r.asking) = r.at
    BY DEF Serves
  <1>4. CASE r.at = Source
    <2>1. ~Asks(Source, r.key)
      <3> SUFFICES ASSUME Asks(Source, r.key) PROVE FALSE
        OBVIOUS
      <3>1. r.at = migrating_slots_to[Source]
        BY <1>3, <1>4, AskNamesOther
      <3>2. QED BY <1>4, <3>1 DEF Phases
    <2>2. slots[Source] = Source
      BY <1>3, <1>4, <2>1, MoveAssumption DEF getNodeByQuery, Importing, Phases
    <2>3. Opened => migrating_slots_to[Source] # NoNode
      BY <2>2, MoveAssumption DEF Phases, Node
    <2>4. QED BY <1>4, <2>1, <2>2, <2>3 DEF Asks, Migrating
  <1>5. CASE r.at = Target
    <2>1. ~Asks(Target, r.key)
      BY DEF Asks, Migrating, Phases
    <2>2. CASE r.asking
      BY <1>5, <2>2 DEF AskedOf
    <2>3. CASE ~r.asking
      <3>1. slots[Target] = Target
        BY <1>3, <1>5, <2>1, <2>3 DEF getNodeByQuery
      <3>2. Target \in told BY <3>1 DEF Phases
      <3>3. Opened BY <3>2 DEF Phases
      <3>4. QED BY <1>5, <3>2, <3>3
    <2>4. QED BY <2>2, <2>3
  <1> QED BY <1>2, <1>4, <1>5 DEF Node

\* What is asked after a step.
StillAsked(r) ==
  r.asking => r.at = Target /\ Opened' /\ store'[Source][r.key] = 0

LEMMA AskedAfter ==
  ASSUME \A c \in Client : StillAsked(req'[c]), \A r \in stray' : StillAsked(r)
  PROVE  Asked'
  BY DEF Asked, AskedOf, StillAsked

\* A request stays asked for a missing key as long as the source gets no key.
LEMMA AskedOfStays ==
  ASSUME NEW r \in Request \cup {None}, AskedOf(r), Opened => Opened',
         Opened => \A k \in Key : store[Source][k] = 0 => store'[Source][k] = 0
  PROVE  StillAsked(r)
  <1>1. r.asking => r.key \in Key BY DEF Request, None
  <1> QED BY <1>1 DEF AskedOf, StillAsked

LEMMA AskedStays ==
  ASSUME TypeOK, Asked, Opened => Opened', req' = req, stray' = stray,
         \A k \in Key : store[Source][k] = 0 => store'[Source][k] = 0
  PROVE  Asked'
  <1>1. /\ \A c \in Client : req[c] \in Request \cup {None}
        /\ \A r \in stray : r \in Request
    BY DEF TypeOK, Request
  <1>2. ASSUME NEW c \in Client PROVE StillAsked(req'[c])
    BY <1>1, AskedOfStays DEF Asked
  <1>3. ASSUME NEW r \in stray' PROVE StillAsked(r)
    BY <1>1, AskedOfStays DEF Asked
  <1> QED BY <1>2, <1>3, AskedAfter

LEMMA InitPhases == Init => Phases /\ Asked
  <1> SUFFICES ASSUME Init PROVE Phases /\ Asked
    OBVIOUS
  <1>1. KeysOf(Target) = {}
    BY MoveAssumption DEF Init, KeysOf, Node
  <1>2. Phases BY <1>1, MoveAssumption DEF Init, Phases, Opened, Node
  <1>3. Asked BY DEF Init, Asked, AskedOf, None
  <1> QED BY <1>2, <1>3

\* The commands of redis-cli.
LEMMA ManagerPhases ==
  ASSUME TypeOK, Phases, Asked, Manager, Trusted'
  PROVE  Phases' /\ Asked'
  <1> USE MoveAssumption
  <1>0. Source \in Node /\ Target \in Node BY DEF Node
  <1>1. CASE OpenTarget
    <2>1. Phases'
      BY <1>0, <1>1 DEF OpenTarget, SetSlotImporting, Phases, Opened, KeysOf, TypeOK
    <2>2. Asked' BY <1>1 DEF OpenTarget, Asked, AskedOf, AskedOf, Opened, reqVars, ctxVars
    <2>3. QED BY <2>1, <2>2
  <1>2. CASE OpenSource
    <2>1. Phases'
      BY <1>0, <1>2 DEF OpenSource, SetSlotMigrating, Phases, Opened, TypeOK, Node
    <2>2. Asked' BY <1>2 DEF OpenSource, Asked, AskedOf, Opened, reqVars, ctxVars
    <2>3. QED BY <2>1, <2>2
  <1>3. CASE ListPage
    <2>1. cli' \in {"node", "migrate"} BY <1>3 DEF ListPage
    <2>2. Phases'
      BY <1>3, <2>1 DEF ListPage, Phases, Opened, slotVars
    <2>3. Asked' BY <1>3, <2>1 DEF ListPage, Asked, AskedOf, Opened, reqVars, ctxVars
    <2>4. QED BY <2>2, <2>3
  <1>4. CASE PageStep
    <2>1. /\ cli' \in {"list", "digest", "compare", "replace", "failed"}
          /\ told = {} /\ told' = told
      <3>1. told = {} /\ told' = told /\ move' = move
        BY <1>4 DEF PageStep, Phases
      <3>2. ~ClosedEarly' BY DEF Trusted
      <3>3. QED BY <1>0, <1>4, <3>1, <3>2 DEF PageStep, ClosedEarly, TypeOK
    <2>2. Opened /\ Opened' BY <1>4, <2>1 DEF PageStep, AtPage, Opened
    <2>3. Phases'
      BY <1>4, <2>1, <2>2 DEF PageStep, Phases, slotVars
    <2>4. PICK S \in SUBSET Present : \E acked \in SUBSET S : Transfer(S, acked)
      BY <1>4 DEF PageStep
    <2>5. \A k \in Key : store[Source][k] = 0 => store'[Source][k] = 0
      BY <1>0, <2>4 DEF Transfer, TypeOK
    <2>6. req' = req /\ stray' = stray
      BY <1>4 DEF PageStep, reqVars, ctxVars
    <2>7. Asked' BY <2>2, <2>5, <2>6, AskedStays
    <2>8. QED BY <2>3, <2>7
  <1>6. CASE CloseSource
    <2>1. told = Node /\ cli' = "done"
      <3>1. told' = told /\ cli = "stable" /\ move' = move
        BY <1>6 DEF CloseSource
      <3>2. told = Node
        <4>1. CASE move = "moveall"
          BY <1>6, <3>1, <4>1 DEF Trusted, ClosedEarly, CloseSource
        <4>2. CASE move # "moveall"
          BY <3>1, <4>2 DEF Phases
        <4>3. QED BY <4>1, <4>2
      <3>3. QED BY <1>6, <3>2 DEF CloseSource
    <2>2. Phases'
      BY <1>0, <1>6, <2>1 DEF CloseSource, SetSlotStable, Phases, AtPage, Opened, TypeOK
    <2>3. Asked' BY <1>6, <2>1 DEF CloseSource, Asked, AskedOf, Opened, reqVars, ctxVars
    <2>4. QED BY <2>2, <2>3
  <1>7. ASSUME NEW n \in Node, TellNode(n) PROVE Phases' /\ Asked'
    <2>1. /\ cli' \in {"node", "stable", "done"}
          /\ cli' \in {"stable", "done"} => told' = Node
          /\ told' = told \cup {n}
      BY <1>7 DEF TellNode, TypeOK
    <2>2. /\ slots'[n] = Target
          /\ \A m \in Node : m # n => slots'[m] = slots[m]
      BY <1>7 DEF TellNode, SetSlotNode, TypeOK
    <2>3. /\ migrating_slots_to'[Target] = NoNode
          /\ migrating_slots_to'[Source] # Source
          /\ importing_slots_from'[Source] = NoNode
          /\ slots'[Source] = Source =>
               migrating_slots_to'[Source] = migrating_slots_to[Source]
      BY <1>0, <1>7, <2>2 DEF TellNode, SetSlotNode, Phases, TypeOK, Node
    <2>4. Opened /\ Opened' BY <1>7, <2>1 DEF TellNode, Opened
    <2>5. Phases'
      BY <1>0, <2>1, <2>2, <2>3, <2>4 DEF Phases, AtPage, TypeOK, Opened
    <2>6. Asked' BY <1>7, <2>4 DEF TellNode, Asked, AskedOf, reqVars, ctxVars
    <2>7. QED BY <2>5, <2>6
  <1> QED BY <1>1, <1>2, <1>3, <1>4, <1>6, <1>7, ManagerKinds

LEMMA SourceLearnsPhases ==
  ASSUME TypeOK, Phases, Asked, SourceLearns
  PROVE  Phases' /\ Asked'
  <1>0. Source \in Node /\ Target \in Node /\ Source # Target
    BY MoveAssumption DEF Node
  <1>1. Target \in told /\ Opened
    BY DEF SourceLearns, Phases
  <1>2. slots'[Source] = Target /\ slots'[Target] = Target
    BY <1>0 DEF SourceLearns, TypeOK
  <1>3. \A n \in told : slots'[n] = Target
    BY <1>2 DEF TypeOK, Node
  <1>4. \A k \in Key : store[Source][k] = 0 => store'[Source][k] = 0
    BY <1>0 DEF SourceLearns, TypeOK
  <1>5. Phases'
    BY <1>0, <1>1, <1>2, <1>3 DEF SourceLearns, Phases, AtPage, Opened, cliVars
  <1>6. Opened' = Opened /\ req' = req /\ stray' = stray
    BY DEF SourceLearns, Opened, cliVars, reqVars, ctxVars
  <1>7. Asked' BY <1>4, <1>6, AskedStays
  <1> QED BY <1>5, <1>7

\* What executing a request does to a store: only its key changes, at its node,
\* and never to a missing one.
LEMMA ExecutedStores ==
  ASSUME TypeOK, NEW r \in Request, Executed(r)
  PROVE  /\ r.at \in Node /\ r.key \in Key
         /\ \A n \in Node, k \in Key :
              n # r.at \/ k # r.key => store'[n][k] = store[n][k]
         /\ \/ store' = store /\ latest' = latest
            \/ /\ store'[r.at][r.key] # 0
               /\ store'[r.at][r.key] = r.ver
               /\ latest' = [latest EXCEPT ![r.key] = r.ver]
  <1>1. r.at \in Node /\ r.key \in Key BY DEF Request
  <1>2. \/ store' = store /\ latest' = latest
        \/ /\ r.ver # 0
           /\ store' = [store EXCEPT ![r.at][r.key] = r.ver]
           /\ latest' = [latest EXCEPT ![r.key] = r.ver]
    BY DEF Executed
  <1>3. \A n \in Node, k \in Key :
          n # r.at \/ k # r.key => store'[n][k] = store[n][k]
    BY <1>1, <1>2 DEF TypeOK
  <1>4. \/ store' = store /\ latest' = latest
        \/ /\ store'[r.at][r.key] # 0
           /\ store'[r.at][r.key] = r.ver
           /\ latest' = [latest EXCEPT ![r.key] = r.ver]
    BY <1>1, <1>2 DEF TypeOK
  <1> QED BY <1>1, <1>3, <1>4

\* Requests create keys at the source before the slot is opened, and at the
\* target after that.
LEMMA WhereKeysAppear ==
  ASSUME TypeOK, Phases, NEW r \in Request, AskedOf(r), Serves(r), Executed(r)
  PROVE  /\ Opened => \A k \in Key : store[Source][k] = 0 <=> store'[Source][k] = 0
         /\ ~Opened => KeysOf(Target)' = KeysOf(Target)
  <1>0. Source \in Node /\ Target \in Node /\ Source # Target
    BY MoveAssumption DEF Node
  <1>1. \/ r.at = Source /\ (Opened => store[Source][r.key] # 0)
        \/ r.at = Target /\ Opened
    BY WhoServes
  <1>2. /\ \A n \in Node, k \in Key :
             n # r.at \/ k # r.key => store'[n][k] = store[n][k]
        /\ store' = store \/ store'[r.at][r.key] # 0
    BY ExecutedStores
  <1>3. ASSUME Opened, NEW k \in Key
        PROVE  store[Source][k] = 0 <=> store'[Source][k] = 0
    BY <1>0, <1>1, <1>2, <1>3
  <1>4. ~Opened => KeysOf(Target)' = KeysOf(Target)
    BY <1>0, <1>1, <1>2 DEF KeysOf
  <1> QED BY <1>3, <1>4

\* A request that is executed, by a client or a stray one.
LEMMA ExecutedPhases ==
  ASSUME TypeOK, Phases, NEW r \in Request, AskedOf(r), Serves(r), Executed(r),
         UNCHANGED <<slotVars, cliVars>>
  PROVE  /\ Phases'
         /\ Opened' = Opened
         /\ \A q \in Request \cup {None} : AskedOf(q) => StillAsked(q)
  <1>1. Opened' = Opened BY DEF Opened, cliVars
  <1>2. Phases'
    BY <1>1, WhereKeysAppear DEF Phases, AtPage, slotVars, cliVars
  <1>3. ASSUME NEW q \in Request \cup {None}, AskedOf(q) PROVE StillAsked(q)
    BY <1>1, <1>3, WhereKeysAppear, AskedOfStays
  <1> QED BY <1>1, <1>2, <1>3

\* Where a client's request can be after the client acted: nothing, or what it
\* sent.
LEMMA RetrySends ==
  ASSUME ClientTypes, NEW c \in Client, NEW n, NEW r \in Request, Retry(c, n, r)
  PROVE  /\ req'[c] = None \/ req'[c].asking = r.asking
         /\ \A d \in Client : d # c => req'[d] = req[d]
  <1>1. ASSUME NEW m, SendTo(c, m, r)
        PROVE  /\ req'[c].asking = r.asking
               /\ \A d \in Client : d # c => req'[d] = req[d]
    BY <1>1 DEF SendTo, ClientTypes, Request
  <1>2. CASE SendTo(c, n, r) BY <1>1, <1>2
  <1>3. CASE Detour(c, n, r) BY <1>1, <1>3 DEF Detour
  <1>4. CASE GiveUp(c, n) BY <1>4 DEF GiveUp, Return, ClientTypes
  <1> QED BY <1>2, <1>3, <1>4 DEF Retry

LEMMA ClientPhases ==
  ASSUME TypeOK, Phases, Asked, NEW c \in Client,
         \/ \E k \in Key, ver \in {0, writes + 1} : Issue(c, k, ver)
         \/ Serve(c)
         \/ FollowAsk(c)
         \/ FollowMoved(c)
         \/ LoseAnswer(c)
  PROVE  Phases' /\ Asked'
  <1>0. ClientTypes BY DEF TypeOK, ClientTypes, Request
  <1>a. /\ \A d \in Client : req[d] \in Request \cup {None}
        /\ \A r \in stray : r \in Request
    BY DEF TypeOK, Request
  <1>b. None.asking = FALSE BY DEF None
  <1>1. CASE \E k \in Key, ver \in {0, writes + 1} : Issue(c, k, ver)
    <2>1. PICK k \in Key, ver \in {0, writes + 1} : Issue(c, k, ver) BY <1>1
    <2> DEFINE r == [at |-> table[c], key |-> k, asking |-> FALSE, ver |-> ver]
    <2>2. Phases'
      BY <2>1 DEF Issue, Phases, AtPage, Opened, KeysOf, slotVars, cliVars
    <2>3. r \in Request /\ r.asking = FALSE BY DEF TypeOK, Request
    <2>4. Retry(c, table[c], r) BY <2>1 DEF Issue
    <2> HIDE DEF r
    <2>5. /\ req'[c].asking = FALSE
          /\ \A d \in Client : d # c => req'[d] = req[d]
      BY <1>0, <1>b, <2>3, <2>4, RetrySends
    <2>6. Asked' BY <2>1, <2>5 DEF Issue, Asked, AskedOf, Opened, cliVars
    <2>7. QED BY <2>2, <2>6
  <1>2. CASE Serve(c)
    <2>1. /\ req[c] \in Request /\ AskedOf(req[c]) /\ Serves(req[c])
          /\ Executed(req[c]) /\ UNCHANGED <<slotVars, cliVars>>
          /\ stray' = stray
      BY <1>2, RequestIsNotNone DEF Serve, Asked
    <2>2. /\ Phases'
          /\ \A q \in Request \cup {None} : AskedOf(q) => StillAsked(q)
      BY <2>1, ExecutedPhases
    <2>3. /\ req'[c] = None
          /\ \A d \in Client : d # c => req'[d] = req[d]
      BY <1>2 DEF Serve, Return, TypeOK
    <2>4. ASSUME NEW d \in Client PROVE StillAsked(req'[d])
      <3>1. CASE d = c BY <1>b, <2>3, <3>1 DEF StillAsked
      <3>2. CASE d # c BY <1>a, <2>2, <2>3, <3>2 DEF Asked
      <3>3. QED BY <3>1, <3>2
    <2>5. \A r \in stray' : StillAsked(r)
      BY <1>a, <2>1, <2>2 DEF Asked
    <2>6. Asked' BY <2>4, <2>5, AskedAfter
    <2>7. QED BY <2>2, <2>6
  <1>3. CASE FollowAsk(c)
    <2> DEFINE n == getNodeByQuery(req[c].at, req[c].key, req[c].asking)
    <2>1. Phases'
      BY <1>3 DEF FollowAsk, Phases, AtPage, Opened, KeysOf, slotVars, cliVars
    <2>2. /\ req[c] \in Request /\ req[c].at \in Node
          /\ Asks(req[c].at, req[c].key)
      BY <1>3, RequestIsNotNone DEF FollowAsk, Request
    <2>3. \/ SendTo(c, n, [req[c] EXCEPT !.asking = TRUE])
          \/ GiveUp(c, n)
      BY <1>3 DEF FollowAsk
    <2>4. n = Target /\ Opened /\ store[Source][req[c].key] = 0
      <3>1. n = migrating_slots_to[req[c].at] BY <2>2, AskNamesOther
      <3>2. req[c].at = Source
        BY <2>2 DEF Asks, Migrating, Phases, Node
      <3>3. Opened BY <2>2, <3>2 DEF Asks, Migrating, Phases
      <3>4. slots[Source] = Source BY <2>2, <3>2 DEF Asks, Migrating
      <3>5. n = Target BY <3>1, <3>2, <3>3, <3>4 DEF Phases
      <3>6. QED BY <2>2, <3>2, <3>3, <3>5 DEF Asks
    <2> HIDE DEF n
    <2>5. \/ req'[c] = None
          \/ req'[c].at = Target /\ req'[c].key = req[c].key
      <3>1. req \in [Client -> Request \cup {None}] BY <1>0 DEF ClientTypes
      <3>2. CASE SendTo(c, n, [req[c] EXCEPT !.asking = TRUE])
        <4>1. req'[c] = [[req[c] EXCEPT !.asking = TRUE] EXCEPT !.at = n]
          BY <3>1, <3>2 DEF SendTo
        <4>2. QED BY <2>2, <2>4, <4>1 DEF Request
      <3>3. CASE GiveUp(c, n) BY <3>1, <3>3 DEF GiveUp, Return
      <3>4. QED BY <2>3, <3>2, <3>3
    <2>6. \A d \in Client : d # c => req'[d] = req[d]
      BY <2>3 DEF SendTo, GiveUp, Return, TypeOK
    <2>7. /\ store' = store /\ stray' = stray /\ Opened' = Opened
      BY <1>3 DEF FollowAsk, Opened, cliVars
    <2>8. StillAsked(req'[c]) BY <1>b, <2>4, <2>5, <2>7 DEF StillAsked
    <2>9. Asked' BY <2>6, <2>7, <2>8 DEF Asked, AskedOf, StillAsked
    <2>10. QED BY <2>1, <2>9
  <1>4. CASE FollowMoved(c)
    <2> DEFINE n == getNodeByQuery(req[c].at, req[c].key, req[c].asking)
               r == [req[c] EXCEPT !.asking = FALSE]
    <2>1. Phases'
      BY <1>4 DEF FollowMoved, Phases, AtPage, Opened, KeysOf, slotVars, cliVars
    <2>2. req[c] \in Request BY <1>4, RequestIsNotNone DEF FollowMoved
    <2>3. r \in Request /\ r.asking = FALSE BY <2>2 DEF Request
    <2>4. Retry(c, n, r) BY <1>4 DEF FollowMoved
    <2> HIDE DEF n, r
    <2>5. /\ req'[c].asking = FALSE
          /\ \A d \in Client : d # c => req'[d] = req[d]
      BY <1>0, <1>b, <2>3, <2>4, RetrySends
    <2>6. Asked' BY <1>4, <2>5 DEF FollowMoved, Asked, AskedOf, Opened, cliVars
    <2>7. QED BY <2>1, <2>6
  <1>5. CASE LoseAnswer(c)
    <2>1. Phases'
      BY <1>5 DEF LoseAnswer, Phases, AtPage, Opened, KeysOf, slotVars, cliVars
    <2>2. /\ req'[c] = None
          /\ \A d \in Client : d # c => req'[d] = req[d]
          /\ \A r \in stray' : r \in stray \/ r = req[c]
          /\ store' = store /\ Opened' = Opened
      BY <1>5 DEF LoseAnswer, Return, TypeOK, Opened, cliVars
    <2>3. Asked' BY <1>b, <2>2 DEF Asked, AskedOf
    <2>4. QED BY <2>1, <2>3
  <1> QED BY <1>1, <1>2, <1>3, <1>4, <1>5

LEMMA StrayPhases ==
  ASSUME TypeOK, Phases, Asked, NEW r \in stray, ServeStray(r)
  PROVE  Phases' /\ Asked'
  <1>1. /\ r \in Request /\ AskedOf(r)
        /\ \A d \in Client : req[d] \in Request \cup {None}
        /\ \A q \in stray : q \in Request
    BY DEF TypeOK, Request, Asked
  <1>2. /\ req' = req /\ stray' \subseteq stray
        /\ UNCHANGED <<slotVars, cliVars>>
    BY DEF ServeStray, ctxVars
  <1>3. CASE Serves(r) /\ Executed(r)
    <2>1. /\ Phases'
          /\ \A q \in Request \cup {None} : AskedOf(q) => StillAsked(q)
      BY <1>1, <1>2, <1>3, ExecutedPhases
    <2>2. \A d \in Client : StillAsked(req'[d])
      BY <1>1, <1>2, <2>1 DEF Asked
    <2>3. \A q \in stray' : StillAsked(q)
      BY <1>1, <1>2, <2>1 DEF Asked
    <2>4. QED BY <2>1, <2>2, <2>3, AskedAfter
  <1>4. CASE UNCHANGED store
    <2>1. Phases'
      BY <1>2, <1>4 DEF Phases, AtPage, Opened, KeysOf, slotVars, cliVars
    <2>2. Asked' BY <1>2, <1>4 DEF Asked, AskedOf, Opened, cliVars
    <2>3. QED BY <2>1, <2>2
  <1> QED BY <1>3, <1>4 DEF ServeStray

LEMMA PhasesKept == PhaseInv /\ [Next]_vars => PhaseInv'
  <1> SUFFICES ASSUME PhaseInv, [Next]_vars PROVE PhaseInv'
    OBVIOUS
  <1>1. TypeOK BY DEF PhaseInv
  <1>2. CASE UNCHANGED vars
    <2>1. TypeOK' BY <1>1, <1>2 DEF TypeOK, vars, slotVars, cliVars, reqVars, ctxVars
    <2>2. Trusted' => Phases' /\ Asked'
      BY <1>2 DEF PhaseInv, Trusted, ClosedEarly, Phases, AtPage, Asked, AskedOf,
                  Opened, KeysOf, vars, slotVars, cliVars, reqVars, ctxVars
    <2>3. QED BY <2>1, <2>2 DEF PhaseInv
  <1>3. CASE Next
    <2>1. TypeOK'
      BY <1>1, <1>3, ManagerTyped, SourceLearnsTyped, ClientTyped, StrayTyped
      DEF Next
    <2>2. ASSUME Trusted' PROVE Phases' /\ Asked'
      <3>1. Phases /\ Asked BY <1>1, <2>2, TrustIsLost DEF PhaseInv
      <3>2. QED
        BY <1>1, <1>3, <2>2, <3>1, ManagerPhases, SourceLearnsPhases,
           ClientPhases, StrayPhases DEF Next
    <2>3. QED BY <2>1, <2>2 DEF PhaseInv
  <1> QED BY <1>2, <1>3

\* The claim of KeyInOnePlace for one key.
LEMMA OnePlace ==
  KeyInOnePlace <=> (told = {} /\ cli \notin {"stable", "failed"} =>
                       \A k \in Key \ Retried :
                         store[Source][k] = 0 \/ store[Target][k] = 0)
  BY DEF KeyInOnePlace, KeysOf

\* A page leaves keys on both sides only until it is sent again.
LEMMA PagePlace ==
  ASSUME TypeOK, PageStep, NEW k \in Key, cli' \notin {"stable", "failed"},
         k \notin Retried',
         k \notin Retried => store[Source][k] = 0 \/ store[Target][k] = 0
  PROVE  store'[Source][k] = 0 \/ store'[Target][k] = 0
  <1>0. Source \in Node /\ Target \in Node /\ Source # Target
    BY MoveAssumption DEF Node
  <1>1. PICK S \in SUBSET Present : \E acked \in SUBSET S :
                                     Transfer(S, acked) /\ (cli' = "list" => acked = Present)
    BY DEF PageStep
  <1>2. PICK acked \in SUBSET S : Transfer(S, acked) /\ (cli' = "list" => acked = Present)
    BY <1>1
  <1>3. /\ store'[Source][k] = IF k \in acked THEN 0 ELSE store[Source][k]
        /\ store'[Target][k] = IF k \in S THEN store[Source][k] ELSE store[Target][k]
    BY <1>0, <1>2 DEF Transfer
  <1>4. page' = page /\ cli' \in {"list", "digest", "compare", "replace"}
    BY DEF PageStep
  <1>5. Retried \subseteq page BY DEF Retried
  <1>6. CASE cli' = "list"
    <2>1. k \in Present => store'[Source][k] = 0 BY <1>2, <1>3, <1>6
    <2>2. k \notin Present => k \notin page \/ store[Source][k] = 0
      BY DEF Present, KeysOf
    <2>3. QED BY <1>1, <1>2, <1>3, <1>5, <2>1, <2>2
  <1>7. CASE cli' # "list"
    <2>1. k \notin page BY <1>4, <1>7 DEF Retried
    <2>2. k \notin Present /\ k \notin Retried BY <1>5, <2>1 DEF Present
    <2>3. QED BY <1>1, <1>2, <1>3, <2>2
  <1> QED BY <1>6, <1>7

LEMMA PlaceKept == PhaseInv /\ KeyInOnePlace /\ [Next]_vars => KeyInOnePlace'
  <1> SUFFICES ASSUME PhaseInv, KeyInOnePlace, [Next]_vars, told' = {},
                      cli' \notin {"stable", "failed"},
                      NEW k \in Key, k \notin Retried'
               PROVE  store'[Source][k] = 0 \/ store'[Target][k] = 0
    BY DEF KeyInOnePlace, KeysOf
  <1>0. Source \in Node /\ Target \in Node /\ Source # Target
    BY MoveAssumption DEF Node
  <1>1. TypeOK BY DEF PhaseInv
  <1>2. \/ OpenTarget \/ OpenSource \/ ListPage \/ CloseSource \/ PageStep
        \/ \E n \in Node : TellNode(n)
        \/ UNCHANGED cliVars
    BY <1>1, ManagerKinds
    DEF Next, vars, SourceLearns, Issue, Serve, FollowAsk, FollowMoved,
        LoseAnswer, ServeStray
  <1>3. told = {} /\ cli \notin {"stable", "failed"}
    BY <1>0, <1>2
    DEF OpenTarget, OpenSource, ListPage, CloseSource, PageStep, AtPage, TellNode,
        cliVars
  <1>4. Phases /\ Asked BY <1>3 DEF PhaseInv, Trusted, ClosedEarly
  <1>5. k \notin Retried => store[Source][k] = 0 \/ store[Target][k] = 0
    BY <1>3, OnePlace
  <1>6. CASE UNCHANGED <<store, cliVars>>
    BY <1>5, <1>6 DEF Retried, cliVars
  <1>7. CASE PageStep
    BY <1>1, <1>5, <1>7, PagePlace
  <1>8. CASE OpenTarget \/ OpenSource \/ ListPage
    BY <1>5, <1>8 DEF OpenTarget, OpenSource, ListPage, Retried
  <1>9. CASE SourceLearns
    BY <1>3, <1>4, <1>9 DEF SourceLearns, Phases
  <1>10. ASSUME NEW r \in Request, AskedOf(r), Serves(r), Executed(r),
                UNCHANGED cliVars
         PROVE  store'[Source][k] = 0 \/ store'[Target][k] = 0
    <2>1. /\ r.at \in Node /\ r.key \in Key
          /\ \A n \in Node, j \in Key :
               n # r.at \/ j # r.key => store'[n][j] = store[n][j]
      BY <1>1, <1>10, ExecutedStores
    <2>a. store[Source][k] = 0 \/ store[Target][k] = 0
      BY <1>5, <1>10 DEF Retried, cliVars
    <2>2. CASE k # r.key
      BY <1>0, <2>a, <2>1, <2>2
    <2>3. CASE k = r.key /\ r.at = Source
      <3>1. Opened => store[Source][k] # 0
        BY <1>0, <1>1, <1>4, <1>10, <2>3, WhoServes
      <3>2. store[Target][k] = 0
        <4>1. ~Opened => KeysOf(Target) = {} BY <1>4 DEF Phases
        <4>2. QED BY <2>a, <3>1, <4>1 DEF KeysOf
      <3>3. QED BY <1>0, <2>1, <2>3, <3>2
    <2>4. CASE k = r.key /\ r.at = Target
      <3>1. store[Source][k] = 0
        BY <1>0, <1>1, <1>3, <1>4, <1>10, <2>4, WhoServes
      <3>2. QED BY <1>0, <2>1, <2>4, <3>1
    <2>5. QED BY <2>1, <2>2, <2>3, <2>4 DEF Node
  <1>11. ASSUME NEW c \in Client, Serve(c)
         PROVE  store'[Source][k] = 0 \/ store'[Target][k] = 0
    <2>1. /\ req[c] \in Request /\ AskedOf(req[c]) /\ Serves(req[c])
          /\ Executed(req[c]) /\ UNCHANGED cliVars
      BY <1>1, <1>4, <1>11, RequestIsNotNone DEF Serve, Asked
    <2>2. QED BY <1>10, <2>1
  <1>12. ASSUME NEW r \in stray, ServeStray(r)
         PROVE  store'[Source][k] = 0 \/ store'[Target][k] = 0
    <2>1. r \in Request /\ AskedOf(r) /\ UNCHANGED cliVars
      BY <1>1, <1>4, <1>12 DEF TypeOK, Request, Asked, ServeStray
    <2>2. QED BY <1>6, <1>10, <1>12, <2>1 DEF ServeStray
  <1>13. ASSUME Manager PROVE store'[Source][k] = 0 \/ store'[Target][k] = 0
    <2>1. CASE CloseSource
      BY <1>3, <2>1 DEF CloseSource
    <2>2. ASSUME NEW n \in Node, TellNode(n) PROVE FALSE
      BY <2>2 DEF TellNode
    <2>3. QED BY <1>1, <1>7, <1>8, <1>13, <2>1, <2>2, ManagerKinds
  <1>14. \/ UNCHANGED <<store, cliVars>>
         \/ Manager \/ SourceLearns
         \/ \E c \in Client : Serve(c)
         \/ \E r \in stray : ServeStray(r)
    BY DEF Next, vars, Issue, FollowAsk, FollowMoved, LoseAnswer
  <1> QED BY <1>6, <1>9, <1>11, <1>12, <1>13, <1>14

\* Up to the hand-over no key is on both sides, whatever clients create while
\* the slot moves and however many pages it has, but for those of a page whose
\* connection broke, and those only until it was sent again.
THEOREM NoKeyTwice == Spec => []KeyInOnePlace
  <1>1. Init => PhaseInv /\ KeyInOnePlace
    <2>1. Init => PhaseInv BY InitTyped, InitPhases DEF PhaseInv
    <2>2. ASSUME Init PROVE KeyInOnePlace
      BY <2>2, MoveAssumption DEF Init, KeyInOnePlace, KeysOf, Node
    <2>3. QED BY <2>1, <2>2
  <1>2. PhaseInv /\ KeyInOnePlace /\ [Next]_vars => PhaseInv' /\ KeyInOnePlace'
    BY PhasesKept, PlaceKept
  <1> QED BY <1>1, <1>2, PTL DEF Spec

-----------------------------------------------------------------------------
(* What requests see.                                                      *)

\* All keys of the slot fit in one page.
OnePage == Cardinality(Key) <= Pipeline

LEMMA FirstPageIsAll ==
  ASSUME OnePage, NEW S \in SUBSET Key
  PROVE  getKeysInSlot(S, Pipeline, 0) = S
  <1> SUFFICES ASSUME NEW k \in S PROVE Rank(S, k) \in (0 + 1)..(0 + Pipeline)
    BY Zenon DEF getKeysInSlot
  <1> DEFINE before == {j \in S : j <= k}
  <1>1. /\ IsFiniteSet(before) /\ IsFiniteSet(Key)
        /\ Cardinality(before) <= Cardinality(Key)
    BY MoveAssumption, FS_Subset
  <1>2. k \in before BY MoveAssumption
  <1>3. Cardinality(before) # 0 BY <1>1, <1>2, FS_EmptySet
  <1>4. Cardinality(before) \in Nat /\ Cardinality(Key) \in Nat
    BY <1>1, FS_CardinalityType
  <1>5. Cardinality(before) \in (0 + 1)..(0 + Pipeline)
    BY <1>1, <1>3, <1>4, MoveAssumption DEF OnePage
  <1> QED BY <1>5 DEF Rank

\* The one page that is listed has all keys of the source, and with it moved
\* the source is empty, which it stays.
Pages ==
  /\ AtPage => KeysOf(Source) \subseteq page
  /\ cli = "list" /\ offset # 0 => KeysOf(Source) = {}
  /\ cli \in {"node", "stable", "done"} => KeysOf(Source) = {}

\* The latest value of a key is the source's, if it still has the key.
Newest ==
  \A k \in Key :
    latest[k] = IF store[Source][k] # 0 THEN store[Source][k] ELSE store[Target][k]

\* The inductive invariant.
MoveInv == PhaseInv /\ (Trusted => Pages /\ Newest)

\* What MIGRATE does to the source and to the latest values.
LEMMA TransferMoves ==
  ASSUME TypeOK, NEW S \in SUBSET KeysOf(Source), NEW acked \in SUBSET S,
         Transfer(S, acked)
  PROVE  /\ KeysOf(Source)' = KeysOf(Source) \ acked
         /\ Newest /\ latest' = latest => Newest'
  <1>0. Source \in Node /\ Target \in Node /\ Source # Target
    BY MoveAssumption DEF Node
  <1>1. \A k \in Key :
          /\ store'[Source][k] = IF k \in acked THEN 0 ELSE store[Source][k]
          /\ store'[Target][k] =
               IF k \in S THEN store[Source][k] ELSE store[Target][k]
    BY <1>0 DEF Transfer
  <1>2. \A k \in S : k \in Key /\ store[Source][k] # 0
    BY DEF KeysOf
  <1>3. KeysOf(Source)' = KeysOf(Source) \ acked
    BY <1>1 DEF KeysOf
  <1>4. ASSUME Newest, latest' = latest PROVE Newest'
    BY <1>1, <1>2, <1>4 DEF Newest
  <1> QED BY <1>3, <1>4

LEMMA ManagerMoves ==
  ASSUME OnePage, MoveInv, Manager, Trusted, Trusted'
  PROVE  Pages' /\ Newest'
  <1> USE DEF MoveInv, PhaseInv
  <1>1. CASE OpenTarget
    BY <1>1 DEF OpenTarget, Pages, AtPage, Newest, KeysOf, reqVars, ctxVars
  <1>2. CASE OpenSource
    BY <1>2 DEF OpenSource, Phases, AtPage, Opened, Pages, Newest, KeysOf, reqVars, ctxVars
  <1>3. CASE ListPage
    <2> DEFINE keys == getKeysInSlot(KeysOf(Source), Pipeline, offset)
    <2>1. KeysOf(Source) \subseteq Key BY DEF KeysOf
    <2>2. keys = KeysOf(Source)
      <3>1. CASE offset = 0 BY <2>1, <3>1, FirstPageIsAll
      <3>2. CASE offset # 0
        BY <1>3, <3>2, PageIsOfKeys DEF ListPage, Pages
      <3>3. QED BY <3>1, <3>2
    <2>3. /\ page' = keys
          /\ cli' = IF keys = {} THEN "node" ELSE "migrate"
          /\ store' = store /\ latest' = latest
      BY <1>3 DEF ListPage, reqVars, ctxVars
    <2> HIDE DEF keys
    <2>4. QED BY <2>2, <2>3 DEF Pages, Newest, KeysOf
  <1>4. CASE PageStep
    <2>1. PICK S \in SUBSET Present : \E acked \in SUBSET S :
                                       Transfer(S, acked) /\ (cli' = "list" => acked = Present)
      BY <1>4 DEF PageStep
    <2>2. PICK acked \in SUBSET S : Transfer(S, acked) /\ (cli' = "list" => acked = Present)
      BY <2>1
    <2>3. KeysOf(Source) \subseteq page /\ Present = KeysOf(Source)
      BY <1>4 DEF PageStep, Pages, Present
    <2>4. KeysOf(Source)' = KeysOf(Source) \ acked /\ Newest'
      <3>1. latest' = latest BY <1>4 DEF PageStep, reqVars
      <3>2. QED BY <2>1, <2>2, <2>3, <3>1, TransferMoves
    <2>5. cli' \in {"list", "digest", "compare", "replace", "failed"}
      <3>1. told' = told /\ move' = move /\ told = {} BY <1>4 DEF PageStep, Phases
      <3>2. ~ClosedEarly' BY DEF Trusted
      <3>3. Node # {} BY DEF Node
      <3>4. QED BY <1>4, <3>1, <3>2, <3>3 DEF PageStep, ClosedEarly, TypeOK
    <2>6. page' = page BY <1>4 DEF PageStep
    <2>7. AtPage' => KeysOf(Source)' \subseteq page' BY <2>3, <2>4, <2>6
    <2>8. cli' = "list" => KeysOf(Source)' = {} BY <2>2, <2>3, <2>4
    <2>9. QED BY <2>4, <2>5, <2>7, <2>8 DEF Pages
  <1>6. CASE CloseSource
    <2>1. cli' \in {"done", "failed"} /\ cli = "stable"
      BY <1>6 DEF CloseSource
    <2>2. QED BY <1>6, <2>1 DEF CloseSource, Pages, Newest, KeysOf, reqVars, ctxVars
  <1>7. ASSUME NEW n \in Node, TellNode(n) PROVE Pages' /\ Newest'
    <2>1. cli' \in {"node", "stable", "done"} /\ cli = "node"
      BY <1>7 DEF TellNode, TypeOK
    <2>2. QED BY <1>7, <2>1 DEF TellNode, Pages, Newest, KeysOf, reqVars, ctxVars
  <1> QED BY <1>1, <1>2, <1>3, <1>4, <1>6, <1>7, ManagerKinds

\* When a node was told of the new owner, no page is left.
LEMMA ToldIsEmpty ==
  ASSUME TypeOK, Phases, Pages, told # {}
  PROVE  KeysOf(Source) = {}
  BY DEF TypeOK, Phases, AtPage, Pages, Opened

\* A server that serves a request has the latest value.
LEMMA ServersAreNewest ==
  ASSUME TypeOK, Phases, Pages, Newest, NEW r \in Request, AskedOf(r), Serves(r)
  PROVE  /\ store[r.at][r.key] = latest[r.key]
         /\ r.at = Target => store[Source][r.key] = 0
  <1>1. r.key \in Key BY DEF Request
  <1>2. CASE r.at = Source
    <2>1. Opened \/ KeysOf(Target) = {} BY DEF Phases
    <2>2. store[Source][r.key] # 0 \/ store[Target][r.key] = 0
      BY <1>1, <1>2, <2>1, WhoServes, MoveAssumption DEF KeysOf
    <2>3. QED BY <1>1, <1>2, <2>2, MoveAssumption DEF Newest
  <1>3. CASE r.at = Target
    <2>1. store[Source][r.key] = 0
      BY <1>1, <1>3, WhoServes, ToldIsEmpty, MoveAssumption DEF KeysOf
    <2>2. QED BY <1>1, <1>3, <2>1 DEF Newest
  <1> QED BY <1>2, <1>3, WhoServes

LEMMA SourceLearnsMoves ==
  ASSUME MoveInv, Trusted, SourceLearns
  PROVE  Pages' /\ Newest'
  <1>0. Source \in Node /\ Target \in Node /\ Source # Target
    BY MoveAssumption DEF Node
  <1>1. TypeOK /\ Phases /\ Pages /\ Newest BY DEF MoveInv, PhaseInv
  <1>2. told # {} BY <1>1 DEF SourceLearns, Phases
  <1>3. \A k \in Key : store[Source][k] = 0
    BY <1>1, <1>2, ToldIsEmpty DEF KeysOf
  <1>4. \A k \in Key : store'[Source][k] = 0 /\ store'[Target][k] = store[Target][k]
    BY <1>0, <1>1, <1>3 DEF SourceLearns, TypeOK
  <1>5. KeysOf(Source)' = {} BY <1>4 DEF KeysOf
  <1>6. Pages' BY <1>5 DEF Pages
  <1>7. Newest' BY <1>1, <1>3, <1>4 DEF Newest, SourceLearns, reqVars, ctxVars
  <1> QED BY <1>6, <1>7

LEMMA ExecutedMoves ==
  ASSUME MoveInv, Trusted, NEW r \in Request, AskedOf(r), Serves(r), Executed(r),
         UNCHANGED cliVars
  PROVE  Pages' /\ Newest'
  <1>0. Source \in Node /\ Target \in Node /\ Source # Target
    BY MoveAssumption DEF Node
  <1>1. TypeOK /\ Phases /\ Asked /\ Pages /\ Newest BY DEF MoveInv, PhaseInv
  <1>2. /\ r.at \in {Source, Target} /\ r.key \in Key
        /\ \A n \in Node, k \in Key :
             n # r.at \/ k # r.key => store'[n][k] = store[n][k]
        /\ \/ store' = store /\ latest' = latest
           \/ /\ store'[r.at][r.key] # 0
              /\ store'[r.at][r.key] = r.ver
              /\ latest' = [latest EXCEPT ![r.key] = r.ver]
    BY <1>1, ExecutedStores DEF Node
  <1>3. r.at = Target => store[Source][r.key] = 0
    BY <1>1, <1>2, ServersAreNewest
  <1>4. ASSUME Opened PROVE KeysOf(Source)' = KeysOf(Source)
    <2>1. r.at = Source => store[Source][r.key] # 0
      BY <1>0, <1>1, <1>2, <1>4, WhoServes
    <2>2. \A k \in Key : store'[Source][k] # 0 <=> store[Source][k] # 0
      BY <1>0, <1>2, <2>1
    <2>3. QED BY <2>2 DEF KeysOf
  <1>5. cli' = cli /\ page' = page /\ offset' = offset BY DEF cliVars
  <1>6. Pages'
    <2>1. CASE Opened BY <1>1, <1>4, <1>5, <2>1 DEF Pages, AtPage
    <2>2. CASE ~Opened BY <1>5, <2>2 DEF Pages, AtPage, Opened
    <2>3. QED BY <2>1, <2>2
  <1>7. ASSUME NEW k \in Key
        PROVE  latest'[k] = IF store'[Source][k] # 0 THEN store'[Source][k]
                                                     ELSE store'[Target][k]
    <2>1. CASE store' = store /\ latest' = latest
      BY <1>1, <2>1 DEF Newest
    <2>2. CASE /\ store'[r.at][r.key] # 0
               /\ store'[r.at][r.key] = r.ver
               /\ latest' = [latest EXCEPT ![r.key] = r.ver]
      <3>1. CASE k # r.key
        BY <1>0, <1>1, <1>2, <2>2, <3>1 DEF Newest, TypeOK
      <3>2. CASE k = r.key
        <4>1. latest'[k] = r.ver BY <1>1, <2>2, <3>2 DEF TypeOK
        <4>2. CASE r.at = Source BY <2>2, <3>2, <4>1, <4>2
        <4>3. CASE r.at = Target
          <5>1. store'[Source][k] = 0 BY <1>0, <1>2, <1>3, <3>2, <4>3
          <5>2. QED BY <2>2, <3>2, <4>1, <4>3, <5>1
        <4>4. QED BY <1>2, <4>2, <4>3
      <3>3. QED BY <3>1, <3>2
    <2>3. QED BY <1>2, <2>1, <2>2
  <1>8. Newest' BY <1>7 DEF Newest
  <1> QED BY <1>6, <1>8

LEMMA MovesKept ==
  ASSUME OnePage, MoveInv, [Next]_vars
  PROVE  MoveInv'
  <1>1. PhaseInv' BY PhasesKept DEF MoveInv
  <1>2. ASSUME Trusted' PROVE Pages' /\ Newest'
    <2>1. Trusted BY <1>2, TrustIsLost DEF MoveInv, PhaseInv
    <2>2. Pages /\ Newest BY <2>1 DEF MoveInv
    <2>3. CASE UNCHANGED vars
      BY <2>2, <2>3 DEF Pages, AtPage, Newest, KeysOf, vars, cliVars, reqVars, ctxVars
    <2>4. CASE Manager BY <1>2, <2>1, <2>4, ManagerMoves
    <2>5. CASE SourceLearns BY <2>1, <2>5, SourceLearnsMoves
    <2>6. CASE UNCHANGED <<store, latest, cliVars>>
      BY <2>2, <2>6 DEF Pages, AtPage, Newest, KeysOf, cliVars
    <2>7. ASSUME NEW c \in Client, Serve(c) PROVE Pages' /\ Newest'
      <3>1. /\ req[c] \in Request /\ AskedOf(req[c]) /\ Serves(req[c])
            /\ Executed(req[c]) /\ UNCHANGED cliVars
        BY <2>1, <2>7, RequestIsNotNone DEF Serve, MoveInv, PhaseInv, Asked
      <3>2. QED BY <2>1, <3>1, ExecutedMoves
    <2>8. ASSUME NEW r \in stray, ServeStray(r) PROVE Pages' /\ Newest'
      <3>1. /\ r \in Request /\ AskedOf(r)
            /\ \/ Serves(r) /\ Executed(r)
               \/ UNCHANGED <<store, latest>>
            /\ UNCHANGED cliVars
        BY <2>1, <2>8 DEF ServeStray, MoveInv, PhaseInv, TypeOK, Request, Asked
      <3>2. CASE Serves(r) /\ Executed(r) BY <2>1, <3>1, <3>2, ExecutedMoves
      <3>3. CASE UNCHANGED <<store, latest>> BY <2>6, <3>1, <3>3
      <3>4. QED BY <3>1, <3>2, <3>3
    <2>9. \/ UNCHANGED vars \/ Manager \/ SourceLearns
          \/ UNCHANGED <<store, latest, cliVars>>
          \/ \E c \in Client : Serve(c)
          \/ \E r \in stray : ServeStray(r)
      BY DEF Next, Issue, FollowAsk, FollowMoved, LoseAnswer
    <2>10. QED BY <2>3, <2>4, <2>5, <2>6, <2>7, <2>8, <2>9
  <1> QED BY <1>1, <1>2 DEF MoveInv

LEMMA InvariantIsTransparent ==
  ASSUME MoveInv
  PROVE  MoveIsTransparent
  <1> SUFFICES ASSUME Trusted, NEW c \in Client, req[c] # None, Serves(req[c])
               PROVE  store[req[c].at][req[c].key] = latest[req[c].key]
    BY DEF MoveIsTransparent, ServedLatest, Trusted
  <1>1. req[c] \in Request /\ AskedOf(req[c])
    BY RequestIsNotNone DEF MoveInv, PhaseInv, Asked
  <1> QED BY <1>1, ServersAreNewest DEF MoveInv, PhaseInv

\* As long as the keys of the slot fit in one page, a request is only ever
\* served by a node with the latest value of its key, while the slot moves and
\* after it, whatever MOVED and ASK answers the client followed, and after a
\* moveone that failed half way as well.
THEOREM MovesAreTransparent ==
  ASSUME OnePage
  PROVE  Spec => []MoveIsTransparent
  <1>1. Init => MoveInv
    <2> SUFFICES ASSUME Init PROVE MoveInv
      OBVIOUS
    <2>1. PhaseInv BY InitTyped, InitPhases DEF PhaseInv
    <2>2. Pages BY DEF Init, Pages, AtPage
    <2>3. Newest BY MoveAssumption DEF Init, Newest, Node
    <2>4. QED BY <2>1, <2>2, <2>3 DEF MoveInv
  <1>2. MoveInv /\ [Next]_vars => MoveInv'
    BY MovesKept
  <1>3. MoveInv => MoveIsTransparent
    BY InvariantIsTransparent
  <1> QED BY <1>1, <1>2, <1>3, PTL DEF Spec
=============================================================================
