---------------------------- MODULE HotnessProofs ----------------------------
(***************************************************************************)
(* The windows of the hotness metrics hold what they should, for any       *)
(* cluster, any lengths of the windows and any number of requests.         *)
(***************************************************************************)
EXTENDS Hotness, TLAPS

HotState == [current : Int, hot : [Tag -> Int], hot_tag : [Tag -> Int]]

\* A hotState and the history of its counter: the window of a tag begins at
\* the value it was updated with last; for the short one, whose counter is
\* stale by one update, at the value before.
Tracks(h, at) ==
  /\ h.current = at["S"][1]
  /\ h.hot_tag["S"] = at["S"][2]
  /\ h.hot["S"] = at["S"][2] - at["S"][3]
  /\ \A t \in {"M", "L"} : /\ h.hot_tag[t] = at[t][1]
                           /\ h.hot[t] = at[t][1] - at[t][2]

CountersType ==
  /\ dealed_ops \in [Node -> [Slot -> Int]]
  /\ slot_hot \in [Node -> [Slot -> HotState]]
  /\ seen \in [Node -> [Slot -> [Tag -> Int \X Int \X Int]]]

\* The inductive invariant.
WindowInv ==
  /\ CountersType
  /\ \A n \in Node, s \in Slot : Tracks(slot_hot[n][s], seen[n][s])

\* The tags updated in an iteration.
DueTags(m, l) == {"S"} \cup (IF m THEN {"M"} ELSE {}) \cup (IF l THEN {"L"} ELSE {})

\* Updating one tag changes its window and the counter, and nothing else.
LEMMA UpdateFields ==
  ASSUME NEW h \in HotState, NEW tag \in Tag, NEW now \in Int
  PROVE  /\ Update(h, tag, now) \in HotState
         /\ Update(h, tag, now).current = now
         /\ Update(h, tag, now).hot[tag] = h.current - h.hot_tag[tag]
         /\ Update(h, tag, now).hot_tag[tag] = h.current
         /\ \A t \in Tag : t # tag =>
              /\ Update(h, tag, now).hot[t] = h.hot[t]
              /\ Update(h, tag, now).hot_tag[t] = h.hot_tag[t]
  BY DEF Update, HotState

\* The history takes the value for the tags that are due.
LEMMA SeenFields ==
  ASSUME NEW at \in [Tag -> Int \X Int \X Int], NEW due \in SUBSET Tag,
         NEW now \in Int
  PROVE  /\ SeenBy(at, due, now) \in [Tag -> Int \X Int \X Int]
         /\ \A t \in due : /\ SeenBy(at, due, now)[t][1] = now
                           /\ SeenBy(at, due, now)[t][2] = at[t][1]
                           /\ SeenBy(at, due, now)[t][3] = at[t][2]
         /\ \A t \in Tag : t \notin due => SeenBy(at, due, now)[t] = at[t]
  BY DEF SeenBy

\* An iteration that looks at the counter keeps a hotState and its history
\* together: the long windows find the counter the short one has just read.
LEMMA UpdateTracks ==
  ASSUME NEW h \in HotState, NEW at \in [Tag -> Int \X Int \X Int],
         NEW m \in BOOLEAN, NEW l \in BOOLEAN, NEW now \in Int,
         Tracks(h, at)
  PROVE  /\ UpdateDue(h, m, l, now) \in HotState
         /\ SeenBy(at, DueTags(m, l), now) \in [Tag -> Int \X Int \X Int]
         /\ Tracks(UpdateDue(h, m, l, now), SeenBy(at, DueTags(m, l), now))
<1> DEFINE h1 == Update(h, "S", now)
           h2 == IF m THEN Update(h1, "M", now) ELSE h1
           h3 == IF l THEN Update(h2, "L", now) ELSE h2
           new == SeenBy(at, DueTags(m, l), now)
<1>0. /\ "S" \in Tag /\ "M" \in Tag /\ "L" \in Tag
      /\ DueTags(m, l) \in SUBSET Tag
      /\ "S" \in DueTags(m, l)
      /\ "M" \in DueTags(m, l) <=> m
      /\ "L" \in DueTags(m, l) <=> l
      /\ \A t \in {"M", "L"} : t \in Tag /\ t # "S"
      /\ \A t \in {"S", "L"} : t \in Tag /\ t # "M"
      /\ \A t \in {"S", "M"} : t \in Tag /\ t # "L"
  BY DEF Tag, DueTags
<1>1. /\ h1 \in HotState
      /\ h1.current = now
      /\ h1.hot["S"] = h.current - h.hot_tag["S"]
      /\ h1.hot_tag["S"] = h.current
      /\ \A t \in {"M", "L"} : h1.hot[t] = h.hot[t] /\ h1.hot_tag[t] = h.hot_tag[t]
  <2>1. /\ Update(h, "S", now) \in HotState
        /\ Update(h, "S", now).current = now
        /\ Update(h, "S", now).hot["S"] = h.current - h.hot_tag["S"]
        /\ Update(h, "S", now).hot_tag["S"] = h.current
        /\ \A t \in Tag : t # "S" =>
             /\ Update(h, "S", now).hot[t] = h.hot[t]
             /\ Update(h, "S", now).hot_tag[t] = h.hot_tag[t]
    <3>1. "S" \in Tag
      BY <1>0
    <3> QED BY <3>1, UpdateFields, Zenon
  <2>2. /\ h1 \in HotState
        /\ h1.current = now
        /\ h1.hot["S"] = h.current - h.hot_tag["S"]
        /\ h1.hot_tag["S"] = h.current
    BY <2>1, Zenon DEF h1
  <2>3. \A t \in Tag : t # "S" =>
          h1.hot[t] = h.hot[t] /\ h1.hot_tag[t] = h.hot_tag[t]
    BY <2>1, Zenon DEF h1
  <2> HIDE DEF h1
  <2> QED
    BY <1>0, <2>2, <2>3
<1> HIDE DEF h1
<1>2. /\ h2 \in HotState
      /\ h2.current = now
      /\ \A t \in {"S", "L"} : h2.hot[t] = h1.hot[t] /\ h2.hot_tag[t] = h1.hot_tag[t]
      /\ m => h2.hot["M"] = now - h1.hot_tag["M"] /\ h2.hot_tag["M"] = now
      /\ ~m => h2.hot["M"] = h1.hot["M"] /\ h2.hot_tag["M"] = h1.hot_tag["M"]
  <2> DEFINE u == Update(h1, "M", now)
  <2>0. /\ Update(h1, "M", now) \in HotState
        /\ Update(h1, "M", now).current = now
        /\ Update(h1, "M", now).hot["M"] = h1.current - h1.hot_tag["M"]
        /\ Update(h1, "M", now).hot_tag["M"] = h1.current
        /\ \A t \in Tag : t # "M" =>
             /\ Update(h1, "M", now).hot[t] = h1.hot[t]
             /\ Update(h1, "M", now).hot_tag[t] = h1.hot_tag[t]
    <3>1. "M" \in Tag
      BY <1>0
    <3>2. h1 \in HotState
      BY <1>1
    <3> QED BY <3>1, <3>2, UpdateFields, Zenon
  <2> HIDE DEF u
  <2>1. /\ u \in HotState
        /\ u.current = now
        /\ u.hot["M"] = h1.current - h1.hot_tag["M"]
        /\ u.hot_tag["M"] = h1.current
    BY <2>0, Zenon DEF u
  <2>2. \A t \in Tag : t # "M" => /\ u.hot[t] = h1.hot[t]
                                  /\ u.hot_tag[t] = h1.hot_tag[t]
    BY <2>0 DEF u
  <2>3. \A t \in {"S", "L"} : u.hot[t] = h1.hot[t] /\ u.hot_tag[t] = h1.hot_tag[t]
    BY <1>0, <2>2
  <2>4. CASE m
    <3>1. h2 = u
      BY <2>4 DEF u
    <3> QED
      BY <1>1, <2>1, <2>3, <2>4, <3>1
  <2>5. CASE ~m
    <3>1. h2 = h1
      BY <2>5
    <3> QED
      BY <1>1, <2>5, <3>1
  <2> QED
    BY <2>4, <2>5
<1> HIDE DEF h2
<1>3. /\ h3 \in HotState
      /\ h3.current = now
      /\ \A t \in {"S", "M"} : h3.hot[t] = h2.hot[t] /\ h3.hot_tag[t] = h2.hot_tag[t]
      /\ l => h3.hot["L"] = now - h2.hot_tag["L"] /\ h3.hot_tag["L"] = now
      /\ ~l => h3.hot["L"] = h2.hot["L"] /\ h3.hot_tag["L"] = h2.hot_tag["L"]
  <2> DEFINE u == Update(h2, "L", now)
  <2>0. /\ Update(h2, "L", now) \in HotState
        /\ Update(h2, "L", now).current = now
        /\ Update(h2, "L", now).hot["L"] = h2.current - h2.hot_tag["L"]
        /\ Update(h2, "L", now).hot_tag["L"] = h2.current
        /\ \A t \in Tag : t # "L" =>
             /\ Update(h2, "L", now).hot[t] = h2.hot[t]
             /\ Update(h2, "L", now).hot_tag[t] = h2.hot_tag[t]
    <3>1. "L" \in Tag
      BY <1>0
    <3>2. h2 \in HotState
      BY <1>2
    <3> QED BY <3>1, <3>2, UpdateFields, Zenon
  <2> HIDE DEF u
  <2>1. /\ u \in HotState
        /\ u.current = now
        /\ u.hot["L"] = h2.current - h2.hot_tag["L"]
        /\ u.hot_tag["L"] = h2.current
    BY <2>0, Zenon DEF u
  <2>2. \A t \in Tag : t # "L" => /\ u.hot[t] = h2.hot[t]
                                  /\ u.hot_tag[t] = h2.hot_tag[t]
    BY <2>0 DEF u
  <2>3. \A t \in {"S", "M"} : u.hot[t] = h2.hot[t] /\ u.hot_tag[t] = h2.hot_tag[t]
    BY <1>0, <2>2
  <2>4. CASE l
    <3>1. h3 = u
      BY <2>4 DEF u
    <3> QED
      BY <1>2, <2>1, <2>3, <2>4, <3>1
  <2>5. CASE ~l
    <3>1. h3 = h2
      BY <2>5
    <3> QED
      BY <1>2, <2>5, <3>1
  <2> QED
    BY <2>4, <2>5
<1>4. h3 = UpdateDue(h, m, l, now)
  BY DEF UpdateDue, h2, h1
<1> HIDE DEF h3
<1>5. /\ new \in [Tag -> Int \X Int \X Int]
      /\ new["S"][1] = now /\ new["S"][2] = at["S"][1] /\ new["S"][3] = at["S"][2]
      /\ m => new["M"][1] = now /\ new["M"][2] = at["M"][1]
      /\ l => new["L"][1] = now /\ new["L"][2] = at["L"][1]
      /\ ~m => new["M"] = at["M"]
      /\ ~l => new["L"] = at["L"]
  <2>1. /\ new \in [Tag -> Int \X Int \X Int]
        /\ \A t \in DueTags(m, l) :
             new[t][1] = now /\ new[t][2] = at[t][1] /\ new[t][3] = at[t][2]
        /\ \A t \in Tag : t \notin DueTags(m, l) => new[t] = at[t]
    BY <1>0, SeenFields
  <2> HIDE DEF new
  <2> QED
    BY <1>0, <2>1
<1> HIDE DEF new
<1>6. Tracks(h3, new)
  <2>1. h3.current = new["S"][1]
    BY <1>3, <1>5
  <2>2. h3.hot_tag["S"] = new["S"][2]
    BY <1>1, <1>2, <1>3, <1>5 DEF Tracks
  <2>3. h3.hot["S"] = new["S"][2] - new["S"][3]
    BY <1>1, <1>2, <1>3, <1>5 DEF Tracks
  <2>4. h3.hot_tag["M"] = new["M"][1] /\ h3.hot["M"] = new["M"][1] - new["M"][2]
    BY <1>1, <1>2, <1>3, <1>5 DEF Tracks
  <2>5. h3.hot_tag["L"] = new["L"][1] /\ h3.hot["L"] = new["L"][1] - new["L"][2]
    BY <1>1, <1>2, <1>3, <1>5 DEF Tracks
  <2> QED
    BY <2>1, <2>2, <2>3, <2>4, <2>5 DEF Tracks
<1> QED
  BY <1>3, <1>4, <1>5, <1>6 DEF new

LEMMA WindowInit == Init => WindowInv
<1> SUFFICES ASSUME Init PROVE WindowInv
  OBVIOUS
<1>1. NoHot \in HotState /\ Tracks(NoHot, [t \in Tag |-> <<0, 0, 0>>])
  BY DEF NoHot, HotState, Tracks, Tag
<1>2. [t \in Tag |-> <<0, 0, 0>>] \in [Tag -> Int \X Int \X Int]
  OBVIOUS
<1> QED
  BY <1>1, <1>2 DEF Init, WindowInv, CountersType

\* One second of a node: the slots it owns are updated, the others stay.
LEMMA SecondKeepsWindows ==
  ASSUME WindowInv, NEW n \in Node, serverCron(n)
  PROVE  WindowInv'
<1> DEFINE i == seconds[n] + 1
           m == Due(i, MEvery)
           l == Due(i, LEvery)
           Hot(s) == IF s \in Own(n)
                     THEN UpdateDue(slot_hot[n][s], m, l, dealed_ops[n][s])
                     ELSE slot_hot[n][s]
           At(s) == IF s \in Own(n)
                    THEN SeenBy(seen[n][s], DueTags(m, l), dealed_ops[n][s])
                    ELSE seen[n][s]
<1>1. /\ slot_hot' = [slot_hot EXCEPT ![n] = [s \in Slot |-> Hot(s)]]
      /\ seen' = [seen EXCEPT ![n] = [s \in Slot |-> At(s)]]
      /\ dealed_ops' = dealed_ops
  BY DEF serverCron, SlotMetric, WindowInv, CountersType, DueTags
<1>2. m \in BOOLEAN /\ l \in BOOLEAN
  BY DEF Due
<1> HIDE DEF m, l
<1>3. ASSUME NEW s \in Slot
      PROVE  /\ Hot(s) \in HotState
             /\ At(s) \in [Tag -> Int \X Int \X Int]
             /\ Tracks(Hot(s), At(s))
  <2>1. /\ slot_hot[n][s] \in HotState
        /\ seen[n][s] \in [Tag -> Int \X Int \X Int]
        /\ dealed_ops[n][s] \in Int
        /\ Tracks(slot_hot[n][s], seen[n][s])
    BY DEF WindowInv, CountersType
  <2> QED
    BY <1>2, <2>1, UpdateTracks
<1> HIDE DEF Hot, At
<1>4. CountersType'
  BY <1>1, <1>3 DEF WindowInv, CountersType
<1>5. ASSUME NEW k \in Node, NEW s \in Slot
      PROVE  Tracks(slot_hot'[k][s], seen'[k][s])
  <2>1. CASE k = n
    <3>1. slot_hot'[k][s] = Hot(s) /\ seen'[k][s] = At(s)
      BY <1>1, <2>1 DEF WindowInv, CountersType
    <3> QED
      BY <1>3, <3>1
  <2>2. CASE k # n
    <3>1. slot_hot'[k][s] = slot_hot[k][s] /\ seen'[k][s] = seen[k][s]
      BY <1>1, <2>2 DEF WindowInv, CountersType
    <3> QED
      BY <3>1 DEF WindowInv
  <2> QED
    BY <2>1, <2>2
<1> QED
  BY <1>4, <1>5 DEF WindowInv

\* Steps that look at no counter.
LEMMA OthersKeepWindows ==
  ASSUME WindowInv, UNCHANGED <<slot_hot, seen>>,
         dealed_ops' \in [Node -> [Slot -> Int]]
  PROVE  WindowInv'
  BY DEF WindowInv, CountersType

LEMMA WindowNext == WindowInv /\ [Next]_vars => WindowInv'
<1> SUFFICES ASSUME WindowInv, [Next]_vars PROVE WindowInv'
  OBVIOUS
<1>0. dealed_ops \in [Node -> [Slot -> Int]]
  BY DEF WindowInv, CountersType
<1>1. ASSUME NEW n \in Node, NEW s \in Slot, processCommand(n, s)
      PROVE  WindowInv'
  <2>1. dealed_ops' \in [Node -> [Slot -> Int]]
    BY <1>0, <1>1 DEF processCommand
  <2> QED
    BY <1>1, <2>1, OthersKeepWindows DEF processCommand
<1>2. ASSUME NEW n \in Node, NEW s \in Slot, MoveSlotTo(n, s)
      PROVE  WindowInv'
  BY <1>0, <1>2, OthersKeepWindows DEF MoveSlotTo, slotVars
<1>3. ASSUME NEW n \in Node, serverCron(n)
      PROVE  WindowInv'
  BY <1>3, SecondKeepsWindows
<1>4. ASSUME NEW n \in Node, Work(n)
      PROVE  WindowInv'
  BY <1>0, <1>4, OthersKeepWindows DEF Work, slotVars
<1>5. ASSUME NEW s \in Node, NEW d \in Node, SendHeader(s, d)
      PROVE  WindowInv'
  BY <1>0, <1>5, OthersKeepWindows DEF SendHeader, slotVars
<1>6. ASSUME NEW s \in Node, NEW d \in Node, ReceiveHeader(s, d)
      PROVE  WindowInv'
  BY <1>0, <1>6, OthersKeepWindows DEF ReceiveHeader, slotVars
<1>7. CASE UNCHANGED vars
  BY <1>0, <1>7, OthersKeepWindows DEF vars, slotVars
<1> QED
  BY <1>1, <1>2, <1>3, <1>4, <1>5, <1>6, <1>7 DEF Next

LEMMA WindowInvExact == WindowInv => WindowExact
  BY DEF WindowInv, Tracks, WindowExact

\* Every window of a slot holds exactly the requests it should, whatever the
\* lengths of the windows and whoever owns the slot when.
THEOREM WindowsAreExact == Spec => []WindowExact
<1>1. Init => WindowInv
  BY WindowInit
<1>2. WindowInv /\ [Next]_vars => WindowInv'
  BY WindowNext
<1>3. WindowInv => WindowExact
  BY WindowInvExact
<1> QED
  BY <1>1, <1>2, <1>3, PTL DEF Spec
=============================================================================
