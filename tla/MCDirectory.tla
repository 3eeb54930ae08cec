---------------------------- MODULE MCDirectory ----------------------------
(* A directory whose order is not the one it is shown in, with an entry that  *)
(* is not shown.                                                              *)
EXTENDS DirectoryProps

MCDir == <<"readme", "b", "a">>
MCMedia == {"a", "b"}
MCSortKey == [name \in Range(MCDir) |->
                 IF name = "a" THEN 1 ELSE 2]
=============================================================================
