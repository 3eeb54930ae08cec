------------------------------ MODULE ByteQueue ------------------------------
(* What StreamingBuffer is to its users: a queue of bytes.                    *)
EXTENDS Naturals, Sequences

CONSTANTS Chunks,  \* byte strings that are pushed
          PopLens  \* lengths that are popped

VARIABLES bytes,    \* the bytes queued, oldest first
          buffered, \* how many there are, as the watermarks are compared with it
          out       \* what the last pop took

qvars == <<bytes, buffered, out>>

Init == bytes = <<>> /\ buffered = 0 /\ out = <<>>

Push(chunk) == bytes' = bytes \o chunk /\ out' = <<>>

Take(n) == /\ out' = SubSeq(bytes, 1, n)
           /\ bytes' = SubSeq(bytes, n + 1, Len(bytes))

\* pop_block takes all that is asked for and there ...
PopBlock(max) == Take(IF max <= Len(bytes) THEN max ELSE Len(bytes))

\* ... pop_bytes some of it, and nothing only if nothing is asked for or there.
PopBytes(max) == \E n \in 0..max : /\ n <= Len(bytes)
                                   /\ n = 0 => max = 0 \/ bytes = <<>>
                                   /\ Take(n)

Clear == bytes' = <<>> /\ out' = <<>>

Next == /\ \/ \E chunk \in Chunks : Push(chunk)
           \/ \E max \in PopLens : PopBytes(max) \/ PopBlock(max)
           \/ Clear
        /\ buffered' = Len(bytes')

Spec == Init /\ [][Next]_qvars
=============================================================================
