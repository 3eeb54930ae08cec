----------------------------- MODULE MediaStream -----------------------------
(* What a caller of SmbMediaStream is promised, whatever the read-ahead does  *)
(* behind it: a read cursor over a file of FileSize bytes.  Byte i of the     *)
(* file is written i, so that a block names the bytes it holds.               *)
EXTENDS FileStream, Sequences

CONSTANTS FileSize,     \* bytes in the file, as reported when it was opened
          HighWatermark,\* the most a stream ever holds for its caller
          ReadLens,     \* the block lengths callers ask for
          Seeks,        \* the seeks callers ask for
          MaxPos,       \* the largest position, u64::MAX in the code
          NoCall, Fill  \* no call is under way; a fill is

VARIABLES pos,      \* playback position
          pending,  \* the call under way: NoCall, Fill, or a block length
          ret       \* what the last call returned

mvars == <<pos, pending, ret>>

Remaining == IF pos < FileSize THEN FileSize - pos ELSE 0

\* The block of the k bytes at the playback position.
Block(k) == [i \in 1..k |-> pos + i - 1]

Init == pos = 0 /\ pending = NoCall /\ ret = [status |-> "idle", bytes |-> <<>>]

Call == /\ pending = NoCall
        /\ pending' \in ReadLens \cup {Fill}
        /\ UNCHANGED <<pos, ret>>

\* A read of n bytes returns the next k bytes of the file.  It comes back short
\* only at the end of the file or when n is more than the stream may hold, and
\* empty only at the end of the file.
Read(n) == /\ pending \in {NoCall, n}
           /\ \E k \in 0..n :
                /\ k <= Remaining
                /\ k >= n \/ k >= Remaining \/ k >= HighWatermark
                /\ pos' = pos + k
                /\ ret' = [status |-> IF k = 0 THEN "none" ELSE "data", bytes |-> Block(k)]
           /\ pending' = NoCall

Filled == /\ pending \in {NoCall, Fill}
          /\ ret' = [status |-> "ok", bytes |-> <<>>]
          /\ pending' = NoCall
          /\ UNCHANGED pos

\* A call that fails, or is given up by its timeout, moves nothing: the next
\* read starts where the failed one would have.
Fails == /\ pending # NoCall
         /\ ret' = [status |-> "err", bytes |-> <<>>]
         /\ pending' = NoCall
         /\ UNCHANGED pos

Seek(s) == /\ pending = NoCall
           /\ LET next == SeekTarget(FileSize, pos, s)
              IN IF next \in 0..MaxPos
                 THEN /\ pos' = next
                      /\ ret' = [status |-> "ok", bytes |-> <<>>]
                 ELSE /\ ret' = [status |-> "err", bytes |-> <<>>]
                      /\ UNCHANGED pos
           /\ UNCHANGED pending

Next == \/ Call
        \/ \E n \in ReadLens : Read(n)
        \/ Filled
        \/ Fails
        \/ \E s \in Seeks : Seek(s)

Spec == Init /\ [][Next]_mvars
=============================================================================
