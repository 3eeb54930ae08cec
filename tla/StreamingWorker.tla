--------------------------- MODULE StreamingWorker ---------------------------
(* The playback stream of src/lib.rs: SmbMediaStream over StreamingWorker,    *)
(* StreamingWorkerState and FileStream.  A call runs alone (it holds &mut     *)
(* self) and, once it has to fetch, goes round the loop of                    *)
(* fill_until_buffered: plan a batch of reads, await their replies, push the  *)
(* chunks.  It can fail or be given up by its timeout only at an await.       *)
(*                                                                            *)
(* Byte i of the file is written i.  The StreamingBuffer is the sequence of   *)
(* its bytes (module StreamingBuffer shows the chunk queue implements that).  *)
EXTENDS FileStream, Sequences

CONSTANTS FileSize,      \* handle.size, fixed when the file is opened
          ChunkSize,     \* StreamOptions::effective_chunk_size
          LowWatermark, HighWatermark, PipelineDepth,
          InitialBuffer, \* SmbMediaStreamOptions::initial_buffer_size
          MaxPos,        \* u64::MAX
          ReadLens,      \* block lengths the caller asks for
          Seeks,         \* seeks the caller asks for
          Shortfall,     \* a reply may hold this many bytes less than asked for
          Excess,        \* ... or this many more
          NoCall, Fill   \* values of "call" that are no block length

\* StreamOptions, StreamingWorkerOptions and SmbMediaStreamOptions::validate.
ASSUME OptionsAssumption ==
    /\ ChunkSize \in Nat \ {0}
    /\ LowWatermark \in Nat
    /\ HighWatermark \in Nat \ {0}
    /\ LowWatermark <= HighWatermark
    /\ PipelineDepth \in Nat \ {0}
    /\ InitialBuffer \in Nat
    /\ InitialBuffer <= HighWatermark

ASSUME EnvironmentAssumption ==
    /\ FileSize \in Nat
    /\ MaxPos \in Nat
    /\ FileSize <= MaxPos
    /\ ReadLens \subseteq Nat
    /\ Seeks \subseteq SeekFrom
    /\ Shortfall \in Nat
    /\ Excess \in Nat

ASSUME CallAssumption == NoCall \notin Nat /\ Fill \notin Nat /\ NoCall # Fill

VARIABLES
    buffer,    \* StreamingBuffer: the bytes buffered, oldest first
    playback,  \* playback_position
    source,    \* source_position
    eof,       \* source_eof
    position,  \* FileStream.position
    pc,        \* where the call under way stands
    call,      \* the call under way: NoCall, Fill, or read_block's max_len
    goal,      \* buffered_goal of the fill under way
    requests,  \* the batch: StreamingWorkerReadRequest records
    chunks,    \* the replies to the batch: the file from "at" on, "len" bytes
    pushed,    \* how many of them are pushed
    ret        \* what the last call returned

state == <<buffer, playback, source, eof, position>>
vars == <<buffer, playback, source, eof, position, pc, call, goal, requests, chunks, pushed, ret>>

Result(status, bytes) == [status |-> status, bytes |-> bytes]

\* The bytes of a chunk: the file's, from the offset it was requested at.
BytesOf(chunk) == [i \in 1..chunk.len |-> chunk.at + i - 1]

IsFinished == eof /\ buffer = <<>>

ShouldPrefill == /\ ~eof
                 /\ Len(buffer) <= LowWatermark
                 /\ Len(buffer) < HighWatermark

Init == /\ buffer = <<>>
        /\ playback = 0
        /\ source = 0
        /\ eof = (FileSize = 0)
        /\ position = 0
        /\ pc = "idle"
        /\ call = NoCall
        /\ goal = 0
        /\ requests = <<>>
        /\ chunks = <<>>
        /\ pushed = 0
        /\ ret = Result("idle", <<>>)
-----------------------------------------------------------------------------
(* Beginning and ending a call. *)

BeginFill(c, g) == /\ pc' = "plan"
                   /\ call' = c
                   /\ goal' = g
                   /\ UNCHANGED <<state, requests, chunks, pushed, ret>>

\* Fault: the batch outlives the call.
EndCallKeepingBatch(result) == /\ ret' = result
                               /\ pc' = "idle"
                               /\ call' = NoCall
                               /\ goal' = 0
                               /\ UNCHANGED <<requests, chunks, pushed>>

\* Everything a call keeps in its future is dropped when it ends.
EndCall(result) == /\ ret' = result
                   /\ pc' = "idle"
                   /\ call' = NoCall
                   /\ goal' = 0
                   /\ requests' = <<>>
                   /\ chunks' = <<>>
                   /\ pushed' = 0

\* pop_read: the oldest bytes, at most max of them.
PopRead(max) ==
    LET n == Least(max, Len(buffer))
    IN /\ buffer' = SubSeq(buffer, n + 1, Len(buffer))
       /\ playback' = playback + n
       /\ EndCall(Result(IF n = 0 THEN "none" ELSE "data", SubSeq(buffer, 1, n)))
       /\ UNCHANGED <<source, eof, position>>

\* Fault: whatever is buffered is returned, the block is not filled.
ReadBufferedEarly(max) == /\ pc = "idle"
                          /\ max = 0 \/ buffer # <<>> \/ IsFinished
                          /\ PopRead(max)

ReadBuffered(max) == /\ pc = "idle"
                     /\ max = 0 \/ Len(buffer) >= max \/ IsFinished
                     /\ PopRead(max)

ReadFilling(max) == /\ pc = "idle"
                    /\ max > 0
                    /\ Len(buffer) < max
                    /\ ~IsFinished
                    /\ BeginFill(max, Most(max, LowWatermark))

FillInitialBuffer == /\ pc = "idle"
                     /\ IF InitialBuffer = 0
                        THEN EndCall(Result("ok", <<>>)) /\ UNCHANGED state
                        ELSE BeginFill(Fill, InitialBuffer)

MaybePrefill == /\ pc = "idle"
                /\ IF ShouldPrefill
                   THEN BeginFill(Fill, HighWatermark)
                   ELSE EndCall(Result("ok", <<>>)) /\ UNCHANGED state

\* Faults: the buffer survives the seek; the end of the file is not recognised.
SeekToKeepingBuffer(next) == /\ playback' = next
                             /\ source' = next
                             /\ eof' = (next >= FileSize)
                             /\ position' = next
                             /\ UNCHANGED buffer
SeekToMissingEof(next) == /\ buffer' = <<>>
                          /\ playback' = next
                          /\ source' = next
                          /\ eof' = (next > FileSize)
                          /\ position' = next

\* StreamingWorkerState::seek, then FileStream::seek to the same position.
SeekTo(next) == /\ buffer' = <<>>
                /\ playback' = next
                /\ source' = next
                /\ eof' = (next >= FileSize)
                /\ position' = next

Seek(seek) == /\ pc = "idle"
              /\ LET next == SeekTarget(FileSize, playback, seek)
                 IN IF next \in 0..MaxPos
                    THEN SeekTo(next) /\ EndCall(Result("ok", <<>>))
                    ELSE EndCall(Result("err", <<>>)) /\ UNCHANGED state
-----------------------------------------------------------------------------
(* fill_until_buffered. *)

\* next_buffered_read_requests: what its loop simulates as it goes.
SimulatedSource ==
    IF requests = <<>> THEN source
    ELSE requests[Len(requests)].offset + requests[Len(requests)].len

SimulatedBuffered == Len(buffer) + (SimulatedSource - source)

\* Fault: a fill stops at the low watermark.
LowGoal == Least(goal, LowWatermark)

BufferedGoal == Least(goal, HighWatermark)

MoreToRequest == /\ ~eof
                 /\ Len(requests) < PipelineDepth
                 /\ SimulatedBuffered < BufferedGoal
                 /\ SimulatedSource < FileSize

\* Fault: the goal does not limit a request.
RequestLenBeyondGoal == Least(ChunkSize, FileSize - SimulatedSource)

RequestLen == Least(Least(BufferedGoal - SimulatedBuffered, ChunkSize),
                    FileSize - SimulatedSource)

PlanRequest == /\ pc = "plan"
               /\ MoreToRequest
               /\ requests' = Append(requests, [offset |-> SimulatedSource, len |-> RequestLen])
               /\ UNCHANGED <<state, pc, call, goal, chunks, pushed, ret>>

SendRequests == /\ pc = "plan"
                /\ ~MoreToRequest
                /\ requests # <<>>
                /\ pc' = "await"
                /\ UNCHANGED <<state, call, goal, requests, chunks, pushed, ret>>

\* The loop ends at the end of the file or when nothing is left to ask for.
FillDone == /\ pc = "plan"
            /\ ~MoreToRequest
            /\ requests = <<>>
            /\ IF call = Fill
               THEN EndCall(Result("ok", <<>>)) /\ UNCHANGED state
               ELSE PopRead(call)

\* How many bytes the server may answer a request with.
ReplyLens(request) == {n \in 0..(request.len + Excess) : n >= request.len - Shortfall}

\* read_at_pipelined takes the replies in the order of the requests.
ReceiveReply ==
    /\ pc = "await"
    /\ Len(chunks) < Len(requests)
    /\ LET request == requests[Len(chunks) + 1]
       IN \E n \in ReplyLens(request) :
            chunks' = Append(chunks, [at |-> request.offset, len |-> n])
    /\ pc' = IF Len(chunks) + 1 = Len(requests) THEN "push" ELSE "await"
    /\ UNCHANGED <<state, call, goal, requests, pushed, ret>>

\* An error reply, a lost connection, or with_timeout dropping the future.
Fail == /\ pc = "await"
        /\ EndCall(Result("err", <<>>))
        /\ UNCHANGED state

\* Faults: either check is missing.
AcceptableIfInFile(chunk) == chunk.len <= FileSize - source
AcceptableIfAny(chunk) == chunk.len > 0

\* push_source_chunk refuses an empty chunk and one that reaches past the end of
\* the file.  (Its other empty chunk, at the end of the file, is never pushed:
\* the loop over the chunks has stopped.)
Acceptable(chunk) == chunk.len > 0 /\ chunk.len <= FileSize - source

\* Faults: the source position moves by what was asked for; a short reply is
\* taken for the end of the file.
AdvanceByRequest(chunk) == LET next == source + requests[pushed + 1].len
                           IN /\ buffer' = buffer \o BytesOf(chunk)
                              /\ source' = next
                              /\ position' = next
                              /\ eof' = (next >= FileSize)
AdvanceShortIsEof(chunk) == /\ buffer' = buffer \o BytesOf(chunk)
                            /\ source' = source + chunk.len
                            /\ position' = source + chunk.len
                            /\ eof' = (chunk.len < requests[pushed + 1].len)

\* push_source_chunk, then FileStream::seek to the new source position.
Advance(chunk) == /\ buffer' = buffer \o BytesOf(chunk)
                  /\ source' = source + chunk.len
                  /\ position' = source + chunk.len
                  /\ eof' = (source + chunk.len >= FileSize)

PushChunk ==
    /\ pc = "push"
    /\ Acceptable(chunks[pushed + 1])
    /\ Advance(chunks[pushed + 1])
    /\ IF eof' \/ pushed + 1 = Len(chunks)
       THEN pc' = "plan" /\ requests' = <<>> /\ chunks' = <<>> /\ pushed' = 0
       ELSE pushed' = pushed + 1 /\ UNCHANGED <<pc, requests, chunks>>
    /\ UNCHANGED <<playback, call, goal, ret>>

\* The chunks already pushed stay.
RejectChunk == /\ pc = "push"
               /\ ~Acceptable(chunks[pushed + 1])
               /\ EndCall(Result("err", <<>>))
               /\ UNCHANGED state
-----------------------------------------------------------------------------
\* The steps of a call that is under way.
Progress == \/ PlanRequest
            \/ SendRequests
            \/ ReceiveReply
            \/ PushChunk
            \/ RejectChunk
            \/ FillDone

Next == \/ \E max \in ReadLens : ReadBuffered(max) \/ ReadFilling(max)
        \/ FillInitialBuffer
        \/ MaybePrefill
        \/ \E seek \in Seeks : Seek(seek)
        \/ Progress
        \/ Fail

Spec == Init /\ [][Next]_vars

\* The executor polls a call that is under way, and the server answers.
FairSpec == Spec /\ WF_vars(Progress)
=============================================================================
