------------------------------- MODULE MCCifs -------------------------------
(* Small instances of the connection for TLC.                                 *)
EXTENDS CifsProps
=============================================================================
