---------------------------- MODULE MessageChannel ----------------------------
(* What a framed connection promises of the messages that come in: they are   *)
(* delivered whole, each once and in the order they were sent, until the      *)
(* connection is broken; nothing is promised after that.                      *)
EXTENDS Sequences

CONSTANT Messages

VARIABLES queue,        \* messages on their way
          given,        \* messages delivered
          broken

cvars == <<queue, given, broken>>

Init == queue = <<>> /\ given = <<>> /\ broken = FALSE

Submit == /\ \E m \in Messages : queue' = Append(queue, m)
          /\ UNCHANGED <<given, broken>>

Deliver == /\ queue # <<>>
           /\ given' = Append(given, Head(queue))
           /\ queue' = Tail(queue)
           /\ UNCHANGED broken

Break == ~broken /\ broken' /\ UNCHANGED given

Next == \/ ~broken /\ (Submit \/ Deliver \/ Break)
        \/ broken /\ broken'

Spec == Init /\ [][Next]_cvars
=============================================================================
