------------------------------ MODULE MCHotSlot ------------------------------
(***************************************************************************)
(* Small instances of HotSlot for TLC.                                     *)
(***************************************************************************)
EXTENDS HotSlotRefinement, TLC

\* The workloads write all fields of a record at once, or one field at a time.
WriteAllFields == {Field}
WriteOneField == {{f} : f \in Field}

Symmetry == Permutations(Node \ {Owner}) \cup Permutations(Client)
                \cup Permutations(Key) \cup Permutations(Field)
=============================================================================
