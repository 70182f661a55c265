------------------------------ MODULE SlotKeys ------------------------------
(***************************************************************************)
(* The index of the keys of a slot and how CLUSTER GETKEYSINSLOT pages     *)
(* through it.  Keys are numbers: their order is the order of the index.   *)
(***************************************************************************)
EXTENDS Integers, FiniteSets

\* The place of k in the index that holds the keys of S.
Rank(S, k) == Cardinality({j \in S : j <= k})

\* Mutant: one key too many is skipped.
getKeysInSlot_SkipsOne(S, count, based) ==
  {k \in S : Rank(S, k) \in (based + 2)..(based + count + 1)}

\* At most count keys, from the one after the first based keys.
getKeysInSlot(S, count, based) ==
  {k \in S : Rank(S, k) \in (based + 1)..(based + count)}
=============================================================================
