------------------------------- MODULE Listing -------------------------------
(* What listing a directory promises: its entries come in the order of the    *)
(* directory, each once, and the listing says that it is done only when the   *)
(* last one has been given.  A listing may be given up and begun again.       *)
EXTENDS Naturals, Sequences

CONSTANT Dir            \* the directory, a sequence of names

VARIABLES given,        \* the names given so far
          done

lvars == <<given, done>>

Init == given = <<>> /\ done = FALSE

\* Some more of the directory is given, perhaps all that is left.
Give == \E n \in 0..(Len(Dir) - Len(given)) :
            /\ given' = given \o SubSeq(Dir, Len(given) + 1, Len(given) + n)
            /\ done' \in BOOLEAN
            /\ done' => given' = Dir

\* A new listing takes the place of the old one.
Restart == given' = <<>> /\ done' = FALSE

Next == Give \/ Restart

Spec == Init /\ [][Next]_lvars
=============================================================================
