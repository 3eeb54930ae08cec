--------------------------- MODULE StreamingBuffer ---------------------------
(* StreamingBuffer of src/lib.rs: the chunks the network delivered, queued    *)
(* uncopied, with a count of their bytes that every operation keeps up.       *)
EXTENDS Naturals, Sequences, SequencesExt

CONSTANTS Bytes,    \* values of a byte
          Chunks,   \* byte strings that are pushed
          PopLens,  \* lengths that are popped
          Capacity  \* bound on the bytes buffered (the worker's high watermark)

ASSUME StreamingBufferAssumption ==
    /\ Chunks \subseteq Seq(Bytes)
    /\ PopLens \subseteq Nat
    /\ Capacity \in Nat

VARIABLES chunks,   \* VecDeque<Bytes>
          buffered, \* the count of bytes in it
          out       \* what the last operation returned, <<>> for None

bvars == <<chunks, buffered, out>>

Least(a, b) == IF a <= b THEN a ELSE b

BufferInit == chunks = <<>> /\ buffered = 0 /\ out = <<>>

Push(chunk) == /\ buffered + Len(chunk) <= Capacity
               /\ chunks' = IF chunk = <<>> THEN chunks ELSE Append(chunks, chunk)
               /\ buffered' = buffered + Len(chunk)
               /\ out' = <<>>

\* Fault: what is left of a split chunk goes to the back.
FrontToBack(queue, max) ==
    IF max = 0 \/ queue = <<>> THEN [taken |-> <<>>, left |-> queue]
    ELSE LET chunk == Head(queue)
             n == Least(max, Len(chunk))
         IN [taken |-> SubSeq(chunk, 1, n),
             left |-> IF n < Len(chunk)
                      THEN Append(Tail(queue), SubSeq(chunk, n + 1, Len(chunk)))
                      ELSE Tail(queue)]

\* pop_bytes: the front chunk, or its first max bytes if it is longer.
FrontOf(queue, max) ==
    IF max = 0 \/ queue = <<>> THEN [taken |-> <<>>, left |-> queue]
    ELSE LET chunk == Head(queue)
             n == Least(max, Len(chunk))
         IN [taken |-> SubSeq(chunk, 1, n),
             left |-> IF n < Len(chunk)
                      THEN <<SubSeq(chunk, n + 1, Len(chunk))>> \o Tail(queue)
                      ELSE Tail(queue)]

\* A round of pop_block's loop: pop_bytes, unless max bytes are there or no
\* chunk is left.
Round(had, max) ==
    IF Len(had.taken) >= max \/ had.left = <<>> THEN had
    ELSE LET front == FrontOf(had.left, max - Len(had.taken))
         IN [taken |-> had.taken \o front.taken, left |-> front.left]

\* Every round but the last takes a whole chunk.
Rounds(queue, max) ==
    LET after[k \in 0..Len(queue)] ==
            IF k = 0 THEN [taken |-> <<>>, left |-> queue] ELSE Round(after[k - 1], max)
    IN after

Gather(queue, max) == Rounds(queue, max)[Len(queue)]

Pop(popped) == /\ chunks' = popped.left
               /\ buffered' = buffered - Len(popped.taken)
               /\ out' = popped.taken

PopBytes(max) == Pop(FrontOf(chunks, max))

PopBlock(max) == Pop(Gather(chunks, max))

Clear == chunks' = <<>> /\ buffered' = 0 /\ out' = <<>>

BufferNext == \/ \E chunk \in Chunks : Push(chunk)
              \/ \E max \in PopLens : PopBytes(max) \/ PopBlock(max)
              \/ Clear

BufferSpec == BufferInit /\ [][BufferNext]_bvars
-----------------------------------------------------------------------------
\* The chunks are a queue of bytes: split or gathered, none is lost, repeated
\* or out of order, a block is short only when the buffer runs empty, and the
\* counter that is kept by the side is their number.
Queue == INSTANCE ByteQueue WITH bytes <- FlattenSeq(chunks)
ImplementsByteQueue == Queue!Spec

(* Why it is one: no chunk is empty, so that pop_bytes finds something in the *)
(* first, and the counter is right before every operation.                    *)
BufferInv == /\ chunks \in Seq(Seq(Bytes) \ {<<>>})
             /\ buffered = Len(FlattenSeq(chunks))
=============================================================================
