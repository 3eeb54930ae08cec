------------------------ MODULE StreamingWorkerProps ------------------------
(* What makes the playback stream correct.                                    *)
EXTENDS StreamingWorker

Requests == [offset : Nat, len : Nat \ {0}]
Chunks == [at : Nat, len : Nat]
Results == [status : {"idle", "none", "data", "ok", "err"}, bytes : Seq(Nat)]

\* Types of the variables, and the values that go together in each phase of a
\* call: a batch exists only while a fill runs.
TypeOK ==
    /\ buffer \in Seq(Nat)
    /\ playback \in Nat
    /\ source \in Nat
    /\ eof \in BOOLEAN
    /\ position \in Nat
    /\ pc \in {"idle", "plan", "await", "push"}
    /\ call \in Nat \cup {NoCall, Fill}
    /\ goal \in Nat
    /\ requests \in Seq(Requests)
    /\ chunks \in Seq(Chunks)
    /\ pushed \in Nat
    /\ ret \in Results
    /\ pc = "idle" <=> call = NoCall
    /\ pc = "idle" => requests = <<>>
    /\ pc \in {"idle", "plan"} => chunks = <<>>
    /\ pc = "await" => Len(chunks) < Len(requests)
    /\ pc = "push" => pushed < Len(chunks) /\ Len(chunks) = Len(requests)
    /\ pc # "push" => pushed = 0

\* The three positions the code keeps apart stay in step through fills that
\* fail half way, timeouts and seeks: what is buffered is exactly what lies
\* between the playback and the source position, and the FileStream's own
\* position is the worker's source position.
PositionsAgree ==
    /\ source = playback + Len(buffer)
    /\ position = source

\* source_eof is set exactly when nothing of the file is left to fetch.
EofExact == eof <=> source >= FileSize

\* Memory is bounded whatever is in flight: bytes buffered plus bytes asked for
\* never exceed the high watermark (README, "Predictable memory usage"), as
\* long as the server answers with no more than it was asked for.
PrefetchBound ==
    Excess = 0 => Len(buffer) + (SimulatedSource - source) <= HighWatermark

\* A batch is a run of adjacent reads, no deeper than the pipeline, each no
\* longer than a chunk, none beyond the end of the file; planning starts it at
\* the source position.
BatchInFile ==
    /\ Len(requests) <= PipelineDepth
    /\ \A i \in DOMAIN requests :
         /\ requests[i].len <= ChunkSize
         /\ requests[i].offset + requests[i].len <= FileSize
         /\ i > 1 => requests[i].offset = requests[i-1].offset + requests[i-1].len
    /\ pc \in {"plan", "await"} /\ requests # <<>> => requests[1].offset = source

\* The buffer holds the file's bytes at the playback position, without a gap
\* or a repetition: a chunk is pushed where the bytes before it end.
BufferIsFile == \A i \in DOMAIN buffer : buffer[i] = playback + i - 1

\* Nothing is buffered from beyond the end of the file, even when the server
\* answers with more than it was asked for; only a seek leads past the end.
BufferInFile == buffer # <<>> => source <= FileSize

\* Either replies are never short or long, or reads go one at a time: the
\* condition under which a chunk always starts at the source position.
Exact == PipelineDepth = 1 \/ (Shortfall = 0 /\ Excess = 0)

\* A reply answers the request of its own index.
RepliesMatch ==
    \A i \in DOMAIN chunks : /\ chunks[i].at = requests[i].offset
                             /\ chunks[i].len \in ReplyLens(requests[i])

\* The next chunk is pushed before the end of the file, and not behind what the
\* chunks before it have filled.
PushPoint ==
    pc = "push" => /\ ~eof
                   /\ Excess = 0 => source <= requests[pushed + 1].offset
                   /\ Exact => source = requests[pushed + 1].offset

\* No read of a batch reaches past the last one.
BatchEnds == \A i \in DOMAIN requests :
                requests[i].offset + requests[i].len <= SimulatedSource

\* The fill that serves a read aims at the whole block.
ReadGoal == pc # "idle" /\ call # Fill =>
               call \in ReadLens /\ goal = Most(call, LowWatermark)

\* The inductive invariant: the invariants above and what they rest on.
IInv == /\ TypeOK
        /\ PositionsAgree
        /\ EofExact
        /\ BatchInFile
        /\ BatchEnds
        /\ RepliesMatch
        /\ PushPoint
        /\ PrefetchBound
        /\ BufferInFile
        /\ ReadGoal
        /\ Exact => BufferIsFile

\* A prefill that ends well has done its work: a player that asks at once
\* whether it should prefill is told no, whatever the watermarks are.
PrefillSettles ==
    [][FillDone /\ call = Fill /\ goal = HighWatermark => ~ShouldPrefill']_vars

\* The stream is a plain read cursor over the file.
Cursor == INSTANCE MediaStream WITH pos <- playback, pending <- call
ImplementsMediaStream == Cursor!Spec

\* A call that is under way returns.
CallsReturn == pc # "idle" ~> pc = "idle"

\* A player that, from some time on, only goes on reading blocks has the whole
\* file in the end, unless it is past the end or a reply is refused again and
\* again.
ReadOn == \E max \in ReadLens \ {0} : ReadBuffered(max) \/ ReadFilling(max)
PlayerKeepsOn == <>[][ReadOn \/ MaybePrefill \/ Progress]_vars /\ WF_vars(ReadOn)
PlaybackEnds ==
    PlayerKeepsOn => \/ <>(IsFinished /\ playback >= FileSize)
                     \/ []<><<RejectChunk>>_vars
=============================================================================
