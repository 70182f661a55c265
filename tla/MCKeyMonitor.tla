---------------------------- MODULE MCKeyMonitor ----------------------------
(***************************************************************************)
(* A small instance of KeyMonitor for TLC.                                 *)
(***************************************************************************)
EXTENDS KeyMonitor

SomeSlots == 0..3
Entries == 1..(Capacity + 1)
=============================================================================
