------------------------------- MODULE MCSetup -------------------------------
(* Texts of even and odd lengths; a challenge whose information makes the     *)
(* answer as long as a body can be, and longer; words of two bits.            *)
EXTENDS SetupProps

MCAuths == {[user |-> 1, domain |-> 2, workstation |-> 1],
            [user |-> 4, domain |-> 0, workstation |-> 3]}
MCReads == {<<0, 1>>, <<5, 4>>, <<18, 7>>, <<37, 11>>}
=============================================================================
