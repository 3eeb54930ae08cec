---------------------------- MODULE MCReassembly ----------------------------
(* Two bytes of parameters and three of data, announced as two or three.      *)
EXTENDS Reassembly

MCSize == [parameter |-> 2, data |-> 3]
=============================================================================
