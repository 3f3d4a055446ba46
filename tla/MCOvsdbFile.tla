------------------------------ MODULE MCOvsdbFile ------------------------------
(******************************************************************************)
(* An instance of OvsdbFile for TLC.                                          *)
(******************************************************************************)
EXTENDS OvsdbFile

Two == {1, 2}
Bits == {0, 1}
================================================================================
