------------------------------ MODULE MCHotness ------------------------------
(***************************************************************************)
(* A small instance of Hotness for TLC.                                    *)
(***************************************************************************)
EXTENDS Hotness, TLC

CONSTANTS n1, n2, s1, s2

OneEach == (s1 :> n1) @@ (s2 :> n2)
CopyOfFirst == {<<n2, s1>>}
=============================================================================
