--------------------------- MODULE MCMediaSession ---------------------------
(* Two files, one of two chunks, in a folder.                                 *)
EXTENDS MediaSessionProps

MCSize == [path \in {"film", "song"} |-> IF path = "film" THEN 4 ELSE 1]
=============================================================================
