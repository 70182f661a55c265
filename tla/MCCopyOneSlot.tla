---------------------------- MODULE MCCopyOneSlot ----------------------------
(***************************************************************************)
(* Small instances of CopyOneSlot for TLC.                                 *)
(***************************************************************************)
EXTENDS CopyOneSlot

CONSTANTS n1, n2, n3

OneTarget == <<n2>>
TwoTargets == <<n2, n3>>

WriteAllFields == {Field}
=============================================================================
