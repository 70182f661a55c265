------------------------------ MODULE HotGroup ------------------------------
(***************************************************************************)
(* What a hot group promises for the keys of its slot, whatever the way    *)
(* and the interval its nodes sync with.  As long as one node executes the *)
(* writes of a key, every other copy takes over some of these writes, each *)
(* of them whole, never an older one after a newer one, and never one the  *)
(* writing node does not have.  The promise for a key is over when a       *)
(* second node writes it, and for all keys when the group is changed or a  *)
(* server or a connection fails.                                           *)
(***************************************************************************)
EXTENDS Integers

CONSTANTS Node, Key, Field,
          Version     \* the numbers of the writes

VARIABLES value,      \* the hash of each key at each node
          writers,    \* the node that writes a key, if any
          over        \* the promise for the key is over

vars == <<value, writers, over>>

Put(hash, F, v) == [f \in Field |-> IF f \in F THEN v ELSE hash[f]]

\* All copies are equal.  Nothing is said of a key with no promise.
Init ==
  /\ \A n, m \in Node : value[n] = value[m]
  /\ writers = [k \in Key |-> {}]

\* The client of node n writes some fields of a key.
Write(n, k, F, v) ==
  /\ ~over[k]
  /\ writers[k] \subseteq {n}
  /\ \A m \in Node, f \in Field : value[m][k][f] < v
  /\ value' = [value EXCEPT ![n][k] = Put(@, F, v)]
  /\ writers' = [writers EXCEPT ![k] = {n}]
  /\ UNCHANGED over

\* Node d takes over a write of the node that writes the key.
CatchUp(d, k, F, v) ==
  /\ ~over[k]
  /\ \E n \in writers[k] \ {d} :
       \A f \in F : value[d][k][f] < v /\ v <= value[n][k][f]
  /\ value' = [value EXCEPT ![d][k] = Put(@, F, v)]
  /\ UNCHANGED <<writers, over>>

\* The promise for the keys of K is over.
GiveUp(K) ==
  /\ over' = [k \in Key |-> over[k] \/ k \in K]
  /\ writers' = [k \in Key |-> IF k \in K THEN {} ELSE writers[k]]
  /\ value' = [n \in Node |-> [k \in Key |->
                 IF k \in K THEN [f \in Field |-> 0] ELSE value[n][k]]]

Next ==
  \/ \E n \in Node, k \in Key, F \in SUBSET Field, v \in Version :
       Write(n, k, F, v) \/ CatchUp(n, k, F, v)
  \/ \E K \in SUBSET Key : GiveUp(K)

Spec == Init /\ [][Next]_vars

\* What a group with a working sync promises on top: whatever the node that
\* writes a key has in a field, every other copy will have it or a newer value.
Propagates ==
  \A n, d \in Node, k \in Key, f \in Field, v \in Version :
    (~over[k] /\ writers[k] = {n} /\ value[n][k][f] = v)
      ~> (over[k] \/ value[d][k][f] >= v)
=============================================================================
