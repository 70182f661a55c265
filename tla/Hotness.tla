------------------------------- MODULE Hotness -------------------------------
(***************************************************************************)
(* How hot slots and busy servers are found: every server counts the       *)
(* requests of each slot and the processor time it used, looks at these    *)
(* counters once a second, every ten and every sixty seconds, tells the    *)
(* others its averages in the header of every bus message, and calls the   *)
(* slots that are far above the average of the cluster hot.                *)
(*                                                                         *)
(* A window is kept as what was counted in it; the code divides by its     *)
(* length, the same for all windows of a tag.  Averages are doubles in the *)
(* code and multiples of 1 / Scale here.                                   *)
(***************************************************************************)
EXTENDS Integers, FiniteSets, FiniteSetsExt

CONSTANTS Node,       \* the masters of the cluster
          Slot,
          Copy,       \* <<n, s>>: n has a copy of hot slot s
          FirstOwner, \* the slots' owners at the start
          MEvery, LEvery,        \* M_UPD_TIME and L_UPD_TIME in S_UPD_TIME
          HOT_SLOT, COLD_SLOT,   \* hot above HOT_SLOT times the average, cold
                                 \* below the COLD_SLOT-th part of it
          Scale,      \* averages are multiples of 1 / Scale
          Load,       \* processor time of one second, in percent
          MaxEvent    \* bound on requests, busy seconds and moves of slots

Tag == {"S", "M", "L"}

ASSUME HotnessAssumption ==
  /\ {MEvery, LEvery, HOT_SLOT, COLD_SLOT} \subseteq Nat \ {0}
  /\ MaxEvent \in Nat
  /\ Load \subseteq 1..100
  /\ LEvery % MEvery = 0
  /\ Copy \subseteq Node \X Slot
  /\ FirstOwner \in [Slot -> Node]
  /\ \A i \in 1..Cardinality(Slot), j \in 1..Cardinality(Node) :
       Scale % (i * j) = 0

VARIABLES
  owner,        \* the node each slot belongs to
  dealed_ops,   \* requests of a slot a node served
  slot_hot,     \* hotState of a slot at a node
  hotness,      \* 1 hot, 0 normal, -1 cold
  avg_slot_hot_for_node,      \* what a node knows of the averages of another
  avg_hot_point_for_cluster,  \* the averages of the cluster, as a node sees it
  seconds,      \* of serverCron and clusterCron, as far as they matter
  cpu,          \* processor time used
  cpu_hot_state, server_hotness,  \* the same for the processor
  is_hot_instance,            \* what a node knows of another
  bus,          \* the header under way from one node to another, if any
  seen,         \* history: the counter at the last three updates of a tag
  events        \* requests, busy seconds and moves so far

slotVars == <<dealed_ops, slot_hot, hotness, seconds, seen>>
cpuVars  == <<cpu, cpu_hot_state, server_hotness>>
viewVars == <<avg_slot_hot_for_node, avg_hot_point_for_cluster, is_hot_instance>>
vars == <<owner, slotVars, cpuVars, viewVars, bus, events>>

-----------------------------------------------------------------------------
(* hotState.                                                               *)

NoHot == [current |-> 0, hot |-> [t \in Tag |-> 0], hot_tag |-> [t \in Tag |-> 0]]

\* Mutant: the counter is read before the window is computed.
Update_ReadsFirst(h, tag, now) ==
  [current |-> now,
   hot |-> [h.hot EXCEPT ![tag] = now - h.hot_tag[tag]],
   hot_tag |-> [h.hot_tag EXCEPT ![tag] = now]]

\* updateOneSlot and instanceHotMetric: the window ends at the value the
\* counter had when some tag was updated before, and only then is the counter
\* read.
Update(h, tag, now) ==
  [current |-> now,
   hot |-> [h.hot EXCEPT ![tag] = h.current - h.hot_tag[tag]],
   hot_tag |-> [h.hot_tag EXCEPT ![tag] = h.current]]

\* All windows that end in the same iteration: m and l say whether the middle
\* and the long one do.
UpdateDue(h, m, l, now) ==
  LET h1 == Update(h, "S", now)
      h2 == IF m THEN Update(h1, "M", now) ELSE h1
  IN IF l THEN Update(h2, "L", now) ELSE h2

-----------------------------------------------------------------------------

Init ==
  /\ owner = FirstOwner
  /\ dealed_ops = [n \in Node |-> [s \in Slot |-> 0]]
  /\ slot_hot = [n \in Node |-> [s \in Slot |-> NoHot]]
  /\ hotness = [n \in Node |-> [s \in Slot |-> 0]]
  /\ avg_slot_hot_for_node = [n \in Node |-> [m \in Node |-> [t \in Tag |-> 0]]]
  /\ avg_hot_point_for_cluster = [n \in Node |-> [t \in Tag |-> 0]]
  /\ seconds = [n \in Node |-> 0]
  /\ cpu = [n \in Node |-> 0]
  /\ cpu_hot_state = [n \in Node |-> NoHot]
  /\ server_hotness = [n \in Node |-> 0]
  /\ is_hot_instance = [n \in Node |-> [m \in Node |-> 0]]
  /\ bus = [s \in Node |-> [d \in Node |-> {}]]
  /\ seen = [n \in Node |-> [s \in Slot |-> [t \in Tag |-> <<0, 0, 0>>]]]
  /\ events = 0

Event == events < MaxEvent /\ events' = events + 1

\* The end of processCommand for a request that is served here.
processCommand(n, s) ==
  /\ Event
  /\ n = owner[s] \/ <<n, s>> \in Copy
  /\ dealed_ops' = [dealed_ops EXCEPT ![n][s] = @ + 1]
  /\ UNCHANGED <<owner, slot_hot, hotness, seconds, seen, cpuVars, viewVars,
                 bus>>

\* SETSLOT NODE at both nodes: the slot belongs to n now.  Its counters stay
\* what they are at both.
MoveSlotTo(n, s) ==
  /\ Event
  /\ owner[s] # n
  /\ owner' = [owner EXCEPT ![s] = n]
  /\ UNCHANGED <<slotVars, cpuVars, viewVars, bus>>

Own(n) == {s \in Slot : owner[s] = n}

\* clusterUpdateState: the masters with a slot.
Size == Cardinality({n \in Node : Own(n) # {}})

\* slotHotMetric: the average of a tag over the slots of the node.
Average(n, hot, t) ==
  IF Own(n) = {} THEN 0
  ELSE (Scale * MapThenSumSet(LAMBDA s : hot[s].hot[t], Own(n)))
         \div Cardinality(Own(n))

\* slotHotMetricCluster: the average over all nodes, divided by the number of
\* masters with a slot; of the node's own, only the short window is new.
ClusterAverage(n, hot, t) ==
  LET others == IF t = "S" THEN Node \ {n} ELSE Node
      view == MapThenSumSet(LAMBDA m : avg_slot_hot_for_node[n][m][t], others)
  IN (IF t = "S" THEN view + Average(n, hot, t) ELSE view) \div Size

\* Mutant: a slot at the threshold is hot.
SlotStatus_AtThreshold(hot, baseline) ==
  IF Scale * hot >= HOT_SLOT * baseline THEN 1
  ELSE IF COLD_SLOT * Scale * hot < baseline THEN -1
  ELSE 0

\* changeSlotStatus.
SlotStatus(hot, baseline) ==
  IF Scale * hot > HOT_SLOT * baseline THEN 1
  ELSE IF COLD_SLOT * Scale * hot < baseline THEN -1
  ELSE 0

Due(i, every) == i % every = 0

\* History: the value now is the last one the tag was updated with.
SeenBy(s, due, now) ==
  [t \in Tag |-> IF t \in due THEN <<now, s[t][1], s[t][2]>> ELSE s[t]]

\* instanceHotnessMetric looks at the short window, of one second.
InstanceStatus(hot) == IF hot > 75 THEN 1 ELSE IF hot < 30 THEN -1 ELSE 0

\* The part of serverCron for the processor time, at the start of second i;
\* the first run looks already.
InstanceMetric(n, i) ==
  LET m == Due(i, MEvery)
      hot == UpdateDue(cpu_hot_state[n], m, Due(i, LEvery), cpu[n])
  IN /\ cpu_hot_state' = [cpu_hot_state EXCEPT ![n] = hot]
     /\ server_hotness' = [server_hotness EXCEPT ![n] =
          IF m THEN InstanceStatus(hot.hot["S"]) ELSE @]

\* The run of clusterCron that looks at the slots, at the end of a second, i
\* seconds after the start.  The average of the cluster is computed after the
\* short windows and before the others, so a middle window is compared with
\* the averages of the middle windows before.
SlotMetric(n, i) ==
  LET m == Due(i, MEvery)
      l == Due(i, LEvery)
      due == {"S"} \cup (IF m THEN {"M"} ELSE {}) \cup (IF l THEN {"L"} ELSE {})
      hot == slot_hot'[n]
  IN /\ slot_hot' = [slot_hot EXCEPT ![n] = [s \in Slot |->
          IF s \in Own(n) THEN UpdateDue(@[s], m, l, dealed_ops[n][s]) ELSE @[s]]]
     /\ avg_slot_hot_for_node' = [avg_slot_hot_for_node EXCEPT ![n][n] =
          [t \in Tag |-> IF t \in due THEN Average(n, hot, t) ELSE @[t]]]
     /\ avg_hot_point_for_cluster' = [avg_hot_point_for_cluster EXCEPT ![n] =
          [t \in Tag |-> ClusterAverage(n, hot, t)]]
     /\ hotness' = [hotness EXCEPT ![n] = [s \in Slot |->
          IF m /\ s \in Own(n)
          THEN SlotStatus(hot[s].hot["M"], avg_hot_point_for_cluster'[n]["M"])
          ELSE @[s]]]
     /\ seen' = [seen EXCEPT ![n] = [s \in Slot |->
          IF s \in Own(n) THEN SeenBy(@[s], due, dealed_ops[n][s]) ELSE @[s]]]

\* One second of serverCron, which calls clusterCron: instanceHotMetricUpdate
\* passes the verdict on the processor on in between.
serverCron(n) ==
  LET i == seconds[n]
  IN /\ InstanceMetric(n, i)
     /\ is_hot_instance' = [is_hot_instance EXCEPT ![n][n] = server_hotness'[n]]
     /\ SlotMetric(n, i + 1)
     /\ seconds' = [seconds EXCEPT ![n] = (i + 1) % LEvery]
     /\ UNCHANGED <<owner, dealed_ops, cpu, bus, events>>

\* The server works for some part of a second.
Work(n) ==
  /\ Event
  /\ \E p \in Load : cpu' = [cpu EXCEPT ![n] = @ + p]
  /\ UNCHANGED <<owner, slotVars, cpu_hot_state, server_hotness,
                 viewVars, bus>>

\* The header of every message; is_hot_instance has 16 bits without sign.
clusterBuildMessageHdr(n) ==
  [hotness |-> avg_slot_hot_for_node[n][n],
   is_hot_instance |-> is_hot_instance[n][n] % 2^16]

\* What node d knows of node s, as a header.
Known(s, d) ==
  [hotness |-> avg_slot_hot_for_node[d][s],
   is_hot_instance |-> is_hot_instance[d][s]]

\* One header is under way at a time; one that tells nothing new is left out.
SendHeader(s, d) ==
  /\ s # d
  /\ bus[s][d] = {}
  /\ clusterBuildMessageHdr(s) # Known(s, d)
  /\ bus' = [bus EXCEPT ![s][d] = {clusterBuildMessageHdr(s)}]
  /\ UNCHANGED <<owner, slotVars, cpuVars, viewVars, events>>

\* clusterProcessPacket.
ReceiveHeader(s, d) ==
  \E h \in bus[s][d] :
    /\ bus' = [bus EXCEPT ![s][d] = @ \ {h}]
    /\ avg_slot_hot_for_node' =
         [avg_slot_hot_for_node EXCEPT ![d][s] = h.hotness]
    /\ is_hot_instance' =
         [is_hot_instance EXCEPT ![d][s] = h.is_hot_instance]
    /\ UNCHANGED <<owner, slotVars, cpuVars, avg_hot_point_for_cluster, events>>

Next ==
  \/ \E n \in Node, s \in Slot : processCommand(n, s) \/ MoveSlotTo(n, s)
  \/ \E n \in Node : serverCron(n) \/ Work(n)
  \/ \E s, d \in Node : SendHeader(s, d) \/ ReceiveHeader(s, d)

\* The event loop runs the crons, clusterCron pings every node once a while,
\* and what is sent arrives.
Fairness ==
  /\ \A n \in Node : WF_vars(serverCron(n))
  /\ \A s, d \in Node : WF_vars(SendHeader(s, d)) /\ WF_vars(ReceiveHeader(s, d))

Spec == Init /\ [][Next]_vars /\ Fairness

-----------------------------------------------------------------------------
(* Properties.                                                             *)

\* Whatever the order in which the windows of different lengths end, and
\* through any change of the slot's owner: the middle and the long window hold
\* exactly the requests since the window before, each counted once, and the
\* short one those of the second before the last.
WindowExact ==
  \A n \in Node, s \in Slot :
    LET hot == slot_hot[n][s].hot
        at == seen[n][s]
    IN /\ \A t \in {"M", "L"} : hot[t] = at[t][1] - at[t][2]
       /\ hot["S"] = at["S"][2] - at["S"][3]

\* When the load is over, it is soon over for all the reports as well: no node
\* calls a slot of its own hot, takes another node for busy (CLUSTER INSHOT) or
\* sees an average above zero.
CoolsDown ==
  <>[]( \A n \in Node :
          /\ \A s \in Own(n) : hotness[n][s] # 1
          /\ \A m \in Node : is_hot_instance[n][m] # 1
          /\ \A t \in Tag : avg_hot_point_for_cluster[n][t] = 0 )
=============================================================================
