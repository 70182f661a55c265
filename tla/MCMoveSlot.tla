----------------------------- MODULE MCMoveSlot -----------------------------
(***************************************************************************)
(* Small instances of MoveSlot for TLC.                                    *)
(***************************************************************************)
EXTENDS MoveSlot
=============================================================================
