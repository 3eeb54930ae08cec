------------------------- MODULE MCStreamingBuffer -------------------------
(* A small instance of the chunk queue for TLC.                               *)
EXTENDS StreamingBuffer

\* An empty chunk, single bytes, and chunks that a pop may split.
MCChunks == {<<>>, <<"a">>, <<"b">>, <<"a", "b">>, <<"b", "a", "a">>}
=============================================================================
