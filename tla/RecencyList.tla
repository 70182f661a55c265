----------------------------- MODULE RecencyList -----------------------------
(***************************************************************************)
(* What the monitor promises at every node: the slots used last, most      *)
(* recent first, each once, and none forgotten.  A node that used a slot   *)
(* it has no place for promises nothing any more.                          *)
(***************************************************************************)
EXTENDS Integers, Sequences

CONSTANTS Node, Slot

VARIABLES list, lost

\* The list without its element at p.
Without(s, p) == SubSeq(s, 1, p - 1) \o SubSeq(s, p + 1, Len(s))

\* The slot comes first, and is not at another place any more.
Touched(s, k) ==
  IF \E p \in 1..Len(s) : s[p] = k
  THEN <<k>> \o Without(s, CHOOSE p \in 1..Len(s) : s[p] = k)
  ELSE <<k>> \o s

Touch(n, k) ==
  /\ ~lost[n]
  /\ list' = [list EXCEPT ![n] = Touched(@, k)]
  /\ UNCHANGED lost

Lose(n) ==
  /\ lost' = [lost EXCEPT ![n] = TRUE]
  /\ list' = [list EXCEPT ![n] = <<>>]

Next == \E n \in Node : Lose(n) \/ \E k \in Slot : Touch(n, k)

Spec ==
  /\ list = [n \in Node |-> <<>>]
  /\ lost = [n \in Node |-> FALSE]
  /\ [][Next]_<<list, lost>>
=============================================================================
