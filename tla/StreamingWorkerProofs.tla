------------------------ MODULE StreamingWorkerProofs ------------------------
(* Proofs about the playback stream for every size of file, chunk, pipeline   *)
(* and buffer.                                                                *)
EXTENDS StreamingWorkerProps, SequenceTheorems, TLAPS

\* What the assumptions on the constants say of their types.
LEMMA ConstantTypes ==
    /\ ChunkSize \in Nat \ {0}
    /\ LowWatermark \in Nat
    /\ HighWatermark \in Nat \ {0}
    /\ PipelineDepth \in Nat \ {0}
    /\ InitialBuffer \in Nat
    /\ FileSize \in Nat
    /\ MaxPos \in Nat
    /\ ReadLens \subseteq Nat
    /\ Shortfall \in Nat
    /\ Excess \in Nat
BY OptionsAssumption, EnvironmentAssumption DEF OptionsAssumption, EnvironmentAssumption

-----------------------------------------------------------------------------
(* Lemmas about the operators. *)

\* A request is planned only for at least one byte, and asks for no more than a
\* chunk, the room up to the goal and the rest of the file allow.
LEMMA RequestLenBounds ==
    ASSUME TypeOK, MoreToRequest, SimulatedSource \in Nat
    PROVE  /\ RequestLen \in Nat \ {0}
           /\ RequestLen <= ChunkSize
           /\ SimulatedSource + RequestLen <= FileSize
           /\ SimulatedBuffered + RequestLen <= HighWatermark
<1>1. BufferedGoal \in Nat /\ BufferedGoal <= HighWatermark
  BY ConstantTypes DEF TypeOK, BufferedGoal, Least
<1>2. SimulatedBuffered \in Int
  BY DEF TypeOK, SimulatedBuffered
<1> QED BY ConstantTypes, <1>1, <1>2 DEF MoreToRequest, RequestLen, Least

\* The simulated source position is a position.
LEMMA SimulatedSourceType ==
    ASSUME TypeOK
    PROVE  SimulatedSource \in Nat
<1>1. CASE requests = <<>>
  BY <1>1 DEF TypeOK, SimulatedSource
<1>2. CASE requests # <<>>
  <2>1. Len(requests) \in 1..Len(requests)
    BY <1>2 DEF TypeOK
  <2>2. requests[Len(requests)] \in Requests
    BY <2>1 DEF TypeOK
  <2> QED BY <1>2, <2>2 DEF SimulatedSource, Requests
<1> QED BY <1>1, <1>2

\* ... and stays one.
LEMMA NextSimulatedSourceType ==
    ASSUME TypeOK'
    PROVE  SimulatedSource' \in Nat
<1>1. CASE requests' = <<>>
  BY <1>1 DEF TypeOK, SimulatedSource
<1>2. CASE requests' # <<>>
  <2>1. Len(requests') \in 1..Len(requests')
    BY <1>2 DEF TypeOK
  <2>2. requests'[Len(requests')] \in Requests
    BY <2>1 DEF TypeOK
  <2> QED BY <1>2, <2>2 DEF SimulatedSource, Requests
<1> QED BY <1>1, <1>2

\* The bytes of a chunk, as a sequence.
LEMMA BytesOfChunk ==
    ASSUME NEW chunk \in Chunks
    PROVE  /\ BytesOf(chunk) \in Seq(Nat)
           /\ Len(BytesOf(chunk)) = chunk.len
           /\ \A i \in 1..chunk.len : BytesOf(chunk)[i] = chunk.at + i - 1
<1>1. chunk.at \in Nat /\ chunk.len \in Nat
  BY DEF Chunks
<1>2. BytesOf(chunk) \in [1..chunk.len -> Nat]
  BY <1>1 DEF BytesOf
<1> QED BY <1>1, <1>2 DEF BytesOf

\* Taking n bytes from the front of a sequence and leaving the rest.
LEMMA SplitFront ==
    ASSUME NEW s \in Seq(Nat), NEW n \in 0..Len(s)
    PROVE  /\ SubSeq(s, 1, n) \in Seq(Nat)
           /\ SubSeq(s, n + 1, Len(s)) \in Seq(Nat)
           /\ Len(SubSeq(s, 1, n)) = n
           /\ Len(SubSeq(s, n + 1, Len(s))) = Len(s) - n
           /\ \A i \in 1..n : SubSeq(s, 1, n)[i] = s[i]
           /\ \A i \in 1..(Len(s) - n) : SubSeq(s, n + 1, Len(s))[i] = s[n + i]
<1>1. \A i \in 1..Len(s) : s[i] \in Nat
  OBVIOUS
<1>2. n \in Int /\ Len(s) \in Nat /\ n + 1 \in Int /\ 1 \in Int
  OBVIOUS
<1>3. \A i \in 1..n : s[i] \in Nat
  BY <1>1, <1>2
<1>4. \A i \in (n + 1)..Len(s) : s[i] \in Nat
  BY <1>1, <1>2
<1>5. /\ SubSeq(s, 1, n) \in Seq(Nat)
      /\ Len(SubSeq(s, 1, n)) = IF 1 <= n THEN n - 1 + 1 ELSE 0
      /\ \A i \in 1..(n - 1 + 1) : SubSeq(s, 1, n)[i] = s[1 + i - 1]
  BY <1>2, <1>3, SubSeqProperties
<1>6. /\ SubSeq(s, n + 1, Len(s)) \in Seq(Nat)
      /\ Len(SubSeq(s, n + 1, Len(s))) = IF n + 1 <= Len(s) THEN Len(s) - (n + 1) + 1 ELSE 0
      /\ \A i \in 1..(Len(s) - (n + 1) + 1) : SubSeq(s, n + 1, Len(s))[i] = s[n + 1 + i - 1]
  BY <1>2, <1>4, SubSeqProperties
<1>7. n \in 0..Len(s) /\ Len(s) \in Nat
  OBVIOUS
<1>8. Len(SubSeq(s, 1, n)) = n /\ Len(SubSeq(s, n + 1, Len(s))) = Len(s) - n
  BY ONLY <1>5, <1>6, <1>7
<1>9. \A i \in 1..n : SubSeq(s, 1, n)[i] = s[i]
  BY ONLY <1>5, <1>7
<1>10. \A i \in 1..(Len(s) - n) : SubSeq(s, n + 1, Len(s))[i] = s[n + i]
  <2>1. SUFFICES ASSUME NEW i \in 1..(Len(s) - n)
                 PROVE  SubSeq(s, n + 1, Len(s))[i] = s[n + i]
    OBVIOUS
  <2>2. i \in 1..(Len(s) - (n + 1) + 1) /\ n + 1 + i - 1 = n + i
    BY ONLY <1>7, i \in 1..(Len(s) - n)
  <2> QED BY ONLY <1>6, <2>2
<1> QED BY <1>5, <1>6, <1>8, <1>9, <1>10
-----------------------------------------------------------------------------
(* Type correctness. *)

\* Ending a call leaves the phase variables well typed.
LEMMA EndCallType ==
    ASSUME NEW result \in Results, EndCall(result)
    PROVE  /\ pc' = "idle" /\ call' = NoCall /\ goal' = 0 /\ pushed' = 0
           /\ requests' = <<>> /\ chunks' = <<>> /\ ret' \in Results
BY DEF EndCall

\* Popping keeps the stream well typed and moves playback by what it takes.
LEMMA PopReadType ==
    ASSUME TypeOK, NEW max \in Nat, PopRead(max)
    PROVE  TypeOK'
<1> DEFINE n == Least(max, Len(buffer))
<1>1. n \in 0..Len(buffer) /\ n \in Nat
  BY DEF TypeOK, Least
<1>2. /\ SubSeq(buffer, 1, n) \in Seq(Nat)
      /\ SubSeq(buffer, n + 1, Len(buffer)) \in Seq(Nat)
  BY <1>1, SplitFront DEF TypeOK
<1>3. buffer' \in Seq(Nat) /\ playback' \in Nat
  BY <1>1, <1>2 DEF PopRead, TypeOK
<1>4. Result(IF n = 0 THEN "none" ELSE "data", SubSeq(buffer, 1, n)) \in Results
  BY <1>2 DEF Result, Results
<1>5. /\ pc' = "idle" /\ call' = NoCall /\ goal' = 0 /\ pushed' = 0
      /\ requests' = <<>> /\ chunks' = <<>> /\ ret' \in Results
  BY <1>4, EndCallType DEF PopRead
<1>6. UNCHANGED <<source, eof, position>>
  BY DEF PopRead
<1> QED BY <1>3, <1>5, <1>6 DEF TypeOK

\* Ending a call without touching the stream keeps the types.
LEMMA EndOnlyType ==
    ASSUME TypeOK, NEW status \in {"ok", "err"}, EndCall(Result(status, <<>>)), UNCHANGED state
    PROVE  TypeOK'
<1>1. Result(status, <<>>) \in Results
  BY DEF Result, Results
<1>2. /\ pc' = "idle" /\ call' = NoCall /\ goal' = 0 /\ pushed' = 0
      /\ requests' = <<>> /\ chunks' = <<>> /\ ret' \in Results
  BY <1>1, EndCallType
<1> QED BY <1>2 DEF TypeOK, state

\* Beginning a fill keeps the types.
LEMMA BeginFillType ==
    ASSUME TypeOK, pc = "idle", NEW c \in Nat \cup {Fill}, NEW g \in Nat, BeginFill(c, g)
    PROVE  TypeOK'
BY CallAssumption DEF TypeOK, BeginFill, state, CallAssumption

\* TypeOK is inductive.
LEMMA TypeStep == TypeOK /\ [Next]_vars => TypeOK'
<1> SUFFICES ASSUME TypeOK, [Next]_vars PROVE TypeOK'
  OBVIOUS
<1>1. ASSUME NEW max \in ReadLens, ReadBuffered(max) PROVE TypeOK'
  BY <1>1, PopReadType, ConstantTypes DEF ReadBuffered
<1>2. ASSUME NEW max \in ReadLens, ReadFilling(max) PROVE TypeOK'
  <2>1. max \in Nat /\ Most(max, LowWatermark) \in Nat
    BY ConstantTypes DEF Most
  <2> QED BY <1>2, <2>1, BeginFillType DEF ReadFilling
<1>3. CASE FillInitialBuffer
  <2>1. CASE InitialBuffer = 0
    BY <1>3, <2>1, EndOnlyType DEF FillInitialBuffer
  <2>2. CASE InitialBuffer # 0
    BY <1>3, <2>2, BeginFillType, ConstantTypes DEF FillInitialBuffer
  <2> QED BY <2>1, <2>2
<1>4. CASE MaybePrefill
  <2>1. CASE ShouldPrefill
    BY <1>4, <2>1, BeginFillType, ConstantTypes DEF MaybePrefill
  <2>2. CASE ~ShouldPrefill
    BY <1>4, <2>2, EndOnlyType DEF MaybePrefill
  <2> QED BY <2>1, <2>2
<1>5. ASSUME NEW seek \in Seeks, Seek(seek) PROVE TypeOK'
  <2> DEFINE next == SeekTarget(FileSize, playback, seek)
  <2>1. CASE next \in 0..MaxPos
    <3>1. next \in Nat /\ SeekTo(next) /\ EndCall(Result("ok", <<>>))
      BY <1>5, <2>1 DEF Seek
    <3>2. Result("ok", <<>>) \in Results
      BY DEF Result, Results
    <3>3. /\ pc' = "idle" /\ call' = NoCall /\ goal' = 0 /\ pushed' = 0
          /\ requests' = <<>> /\ chunks' = <<>> /\ ret' \in Results
      BY <3>1, <3>2, EndCallType
    <3> QED BY <3>1, <3>3 DEF TypeOK, SeekTo
  <2>2. CASE next \notin 0..MaxPos
    BY <1>5, <2>2, EndOnlyType DEF Seek
  <2> QED BY <2>1, <2>2
<1>6. CASE PlanRequest
  <2>1. SimulatedSource \in Nat /\ RequestLen \in Nat \ {0}
    BY <1>6, SimulatedSourceType, RequestLenBounds DEF PlanRequest
  <2>2. [offset |-> SimulatedSource, len |-> RequestLen] \in Requests
    BY <2>1 DEF Requests
  <2>3. requests' \in Seq(Requests)
    BY <1>6, <2>2, AppendProperties DEF PlanRequest, TypeOK
  <2>4. pc = "plan" /\ UNCHANGED <<state, pc, call, goal, chunks, pushed, ret>>
    BY <1>6 DEF PlanRequest
  <2> QED BY <2>3, <2>4 DEF TypeOK, state
<1>7. CASE SendRequests
  BY <1>7 DEF SendRequests, TypeOK, state
<1>8. CASE FillDone
  <2>1. CASE call = Fill
    BY <1>8, <2>1, EndOnlyType DEF FillDone
  <2>2. CASE call # Fill
    <3>1. call \in Nat
      BY <1>8, <2>2 DEF FillDone, TypeOK
    <3> QED BY <1>8, <2>2, <3>1, PopReadType DEF FillDone
  <2> QED BY <2>1, <2>2
<1>9. CASE ReceiveReply
  <2> DEFINE request == requests[Len(chunks) + 1]
  <2>1. PICK n \in ReplyLens(request) :
               chunks' = Append(chunks, [at |-> request.offset, len |-> n])
    BY <1>9 DEF ReceiveReply
  <2>2. Len(chunks) + 1 \in 1..Len(requests) /\ request \in Requests
    BY <1>9 DEF ReceiveReply, TypeOK
  <2>3. [at |-> request.offset, len |-> n] \in Chunks
    BY <2>2, ConstantTypes DEF ReplyLens, Chunks, Requests
  <2>4. chunks' \in Seq(Chunks) /\ Len(chunks') = Len(chunks) + 1
    BY <2>1, <2>3, AppendProperties DEF TypeOK
  <2>5. /\ pc = "await"
        /\ pc' = IF Len(chunks) + 1 = Len(requests) THEN "push" ELSE "await"
        /\ UNCHANGED <<state, call, goal, requests, pushed, ret>>
    BY <1>9 DEF ReceiveReply
  <2> QED BY <2>2, <2>4, <2>5 DEF TypeOK, state
<1>10. CASE Fail
  BY <1>10, EndOnlyType DEF Fail
<1>11. CASE PushChunk
  <2> DEFINE chunk == chunks[pushed + 1]
  <2>0. /\ pc = "push" /\ chunks \in Seq(Chunks) /\ pushed \in Nat /\ Len(chunks) \in Nat
        /\ pushed + 1 \in 1..Len(chunks) /\ Len(chunks) = Len(requests)
    BY <1>11 DEF PushChunk, Acceptable, Advance, TypeOK
  <2>1. chunk \in Chunks /\ chunk.len \in Nat
    <3>1. chunks[pushed + 1] \in Chunks
      BY <2>0
    <3> QED BY <3>1 DEF Chunks
  <2>2. BytesOf(chunk) \in Seq(Nat)
    BY <2>1, BytesOfChunk
  <2>3. buffer' \in Seq(Nat)
    BY <1>11, <2>2, ConcatProperties DEF PushChunk, Acceptable, Advance, TypeOK
  <2>4. source' \in Nat /\ position' \in Nat /\ eof' \in BOOLEAN
    BY <1>11, <2>1 DEF PushChunk, Acceptable, Advance, TypeOK
  <2>5. CASE eof' \/ pushed + 1 = Len(chunks)
    <3>1. pc' = "plan" /\ requests' = <<>> /\ chunks' = <<>> /\ pushed' = 0
      BY <1>11, <2>5 DEF PushChunk, Acceptable, Advance
    <3>2. UNCHANGED <<playback, call, goal, ret>>
      BY <1>11 DEF PushChunk, Acceptable, Advance
    <3> QED BY <2>0, <2>3, <2>4, <3>1, <3>2 DEF TypeOK
  <2>6. CASE ~(eof' \/ pushed + 1 = Len(chunks))
    <3>1. pc' = pc /\ requests' = requests /\ chunks' = chunks /\ pushed' = pushed + 1
      BY <1>11, <2>6 DEF PushChunk, Acceptable, Advance
    <3>2. pushed' < Len(chunks')
      BY <2>0, <2>6, <3>1
    <3>3. UNCHANGED <<playback, call, goal, ret>>
      BY <1>11 DEF PushChunk, Acceptable, Advance
    <3> QED BY <2>0, <2>3, <2>4, <3>1, <3>2, <3>3 DEF TypeOK
  <2> QED BY <2>5, <2>6
<1>12. CASE RejectChunk
  BY <1>12, EndOnlyType DEF RejectChunk
<1>13. CASE UNCHANGED vars
  BY <1>13 DEF TypeOK, vars
<1> QED BY <1>1, <1>2, <1>3, <1>4, <1>5, <1>6, <1>7, <1>8, <1>9, <1>10, <1>11, <1>12, <1>13
        DEF Next, Progress
-----------------------------------------------------------------------------
(* What is buffered and where it lies in the file. *)

\* Every step moves the stream in one of four ways.
LEMMA StateSteps ==
    ASSUME TypeOK, [Next]_vars
    PROVE  \/ \E max \in Nat : PopRead(max) /\ requests = <<>>
           \/ \E next \in Nat : SeekTo(next) /\ requests' = <<>> /\ pc' = "idle"
           \/ PushChunk
           \/ UNCHANGED state
<1>1. ASSUME NEW max \in ReadLens, ReadBuffered(max)
      PROVE  max \in Nat /\ PopRead(max) /\ requests = <<>>
  BY <1>1, ConstantTypes DEF ReadBuffered, TypeOK
<1>2. ASSUME NEW max \in ReadLens, ReadFilling(max) PROVE UNCHANGED state
  BY <1>2 DEF ReadFilling, BeginFill
<1>3. CASE FillInitialBuffer
  BY <1>3 DEF FillInitialBuffer, BeginFill
<1>4. CASE MaybePrefill
  BY <1>4 DEF MaybePrefill, BeginFill
<1>5. ASSUME NEW seek \in Seeks, Seek(seek)
      PROVE  \/ \E next \in Nat : SeekTo(next) /\ requests' = <<>> /\ pc' = "idle"
             \/ UNCHANGED state
  BY <1>5, ConstantTypes DEF Seek, EndCall
<1>6. CASE PlanRequest
  BY <1>6 DEF PlanRequest
<1>7. CASE SendRequests
  BY <1>7 DEF SendRequests
<1>8. CASE FillDone
  <2>1. requests = <<>> /\ (call = Fill => UNCHANGED state) /\ (call # Fill => PopRead(call))
    BY <1>8 DEF FillDone
  <2>2. call # Fill => call \in Nat
    BY <1>8 DEF FillDone, TypeOK
  <2> QED BY <2>1, <2>2
<1>9. CASE ReceiveReply
  BY <1>9 DEF ReceiveReply
<1>10. CASE Fail
  BY <1>10 DEF Fail
<1>12. CASE RejectChunk
  BY <1>12 DEF RejectChunk
<1>13. CASE UNCHANGED vars
  BY <1>13 DEF vars, state
<1> QED BY <1>1, <1>2, <1>3, <1>4, <1>5, <1>6, <1>7, <1>8, <1>9, <1>10, <1>12, <1>13
        DEF Next, Progress

\* The chunk that is pushed, and what the invariant says of it.
LEMMA NextChunk ==
    ASSUME IInv, pc = "push", NEW chunk, chunk = chunks[pushed + 1]
    PROVE  /\ pushed + 1 \in DOMAIN chunks
           /\ pushed + 1 \in DOMAIN requests
           /\ chunk \in Chunks /\ chunk.len \in Nat /\ chunk.at \in Nat
           /\ requests[pushed + 1].offset \in Nat /\ requests[pushed + 1].len \in Nat
           /\ chunk.at = requests[pushed + 1].offset
           /\ chunk.len \in ReplyLens(requests[pushed + 1])
<1>1. /\ chunks \in Seq(Chunks) /\ requests \in Seq(Requests) /\ pushed \in Nat
      /\ pushed < Len(chunks) /\ Len(chunks) = Len(requests)
  BY DEF IInv, TypeOK
<1>2. pushed + 1 \in 1..Len(chunks) /\ pushed + 1 \in 1..Len(requests)
  BY <1>1
<1>3. pushed + 1 \in DOMAIN chunks /\ pushed + 1 \in DOMAIN requests
  BY <1>1, <1>2
<1>4. chunks[pushed + 1] \in Chunks /\ requests[pushed + 1] \in Requests
  BY <1>1, <1>2
<1>5. /\ chunk.at = requests[pushed + 1].offset
      /\ chunk.len \in ReplyLens(requests[pushed + 1])
  BY <1>3 DEF IInv, RepliesMatch
<1> QED BY <1>3, <1>4, <1>5 DEF Chunks, Requests

\* Popping takes the oldest bytes and moves the playback position over them.
LEMMA PopReadEffect ==
    ASSUME TypeOK, NEW max \in Nat, PopRead(max)
    PROVE  \E n \in 0..Len(buffer) :
              /\ n = Least(max, Len(buffer))
              /\ Len(buffer') = Len(buffer) - n
              /\ \A i \in 1..(Len(buffer) - n) : buffer'[i] = buffer[n + i]
              /\ playback' = playback + n
              /\ ret' = Result(IF n = 0 THEN "none" ELSE "data", SubSeq(buffer, 1, n))
              /\ \A i \in 1..n : SubSeq(buffer, 1, n)[i] = buffer[i]
              /\ UNCHANGED <<source, eof, position>>
<1> DEFINE n == Least(max, Len(buffer))
<1>1. n \in 0..Len(buffer)
  BY DEF TypeOK, Least
<1>2. /\ Len(SubSeq(buffer, n + 1, Len(buffer))) = Len(buffer) - n
      /\ \A i \in 1..n : SubSeq(buffer, 1, n)[i] = buffer[i]
      /\ \A i \in 1..(Len(buffer) - n) : SubSeq(buffer, n + 1, Len(buffer))[i] = buffer[n + i]
  BY <1>1, SplitFront DEF TypeOK
<1>3. /\ buffer' = SubSeq(buffer, n + 1, Len(buffer))
      /\ playback' = playback + n
      /\ ret' = Result(IF n = 0 THEN "none" ELSE "data", SubSeq(buffer, 1, n))
      /\ UNCHANGED <<source, eof, position>>
  BY DEF PopRead, EndCall
<1> HIDE DEF n
<1> QED BY <1>1, <1>2, <1>3 DEF n

\* The positions, the end-of-file flag and the contents of the buffer stay in
\* step with one another.
LEMMA StreamStep ==
    ASSUME IInv, [Next]_vars
    PROVE  /\ PositionsAgree'
           /\ EofExact'
           /\ BufferInFile'
           /\ Exact => BufferIsFile'
<1>0. /\ TypeOK /\ PositionsAgree /\ EofExact /\ BufferInFile
      /\ (Exact => BufferIsFile)
      /\ buffer \in Seq(Nat) /\ Len(buffer) \in Nat /\ DOMAIN buffer = 1..Len(buffer)
      /\ playback \in Nat /\ source \in Nat
      /\ source = playback + Len(buffer) /\ position = source
  BY DEF IInv, TypeOK, PositionsAgree
<1>t. TypeOK' /\ buffer' \in Seq(Nat) /\ DOMAIN buffer' = 1..Len(buffer')
  BY <1>0, TypeStep DEF TypeOK
<1>1. ASSUME NEW max \in Nat, PopRead(max)
      PROVE  /\ PositionsAgree' /\ EofExact' /\ BufferInFile'
             /\ Exact => BufferIsFile'
  <2>1. PICK n \in 0..Len(buffer) :
              /\ Len(buffer') = Len(buffer) - n
              /\ \A i \in 1..(Len(buffer) - n) : buffer'[i] = buffer[n + i]
              /\ playback' = playback + n
              /\ UNCHANGED <<source, eof, position>>
    BY <1>0, <1>1, PopReadEffect
  <2>2. PositionsAgree'
    BY <1>0, <2>1 DEF PositionsAgree
  <2>3. EofExact'
    BY <1>0, <2>1 DEF EofExact
  <2>4. BufferInFile'
    <3>1. buffer' # <<>> => buffer # <<>>
      BY <1>0, <1>t, <2>1
    <3> QED BY <1>0, <2>1, <3>1 DEF BufferInFile
  <2>5. ASSUME Exact, NEW i \in DOMAIN buffer'
        PROVE  buffer'[i] = playback' + i - 1
    <3>0. n \in Nat /\ n <= Len(buffer) /\ Len(buffer) \in Nat
      BY <1>0
    <3>a. i \in 1..Len(buffer')
      BY <1>t, <2>5
    <3>b. i \in 1..(Len(buffer) - n)
      BY <2>1, <3>a
    <3>1. i \in 1..(Len(buffer) - n) /\ n + i \in 1..Len(buffer)
      BY <3>0, <3>b
    <3>2. buffer'[i] = buffer[n + i] /\ buffer[n + i] = playback + (n + i) - 1
      BY <1>0, <2>1, <2>5, <3>1 DEF BufferIsFile
    <3> QED BY <1>0, <2>1, <3>1, <3>2
  <2> QED BY <2>2, <2>3, <2>4, <2>5 DEF BufferIsFile
<1>2. ASSUME NEW next \in Nat, SeekTo(next)
      PROVE  /\ PositionsAgree' /\ EofExact' /\ BufferInFile'
             /\ Exact => BufferIsFile'
  <2>1. /\ buffer' = <<>> /\ playback' = next /\ source' = next
        /\ eof' = (next >= FileSize) /\ position' = next
    BY <1>2 DEF SeekTo
  <2>2. Len(buffer') = 0 /\ DOMAIN buffer' = {}
    BY <2>1
  <2>3. PositionsAgree'
    BY <2>1, <2>2 DEF PositionsAgree
  <2>4. EofExact'
    BY <2>1 DEF EofExact
  <2>5. BufferInFile'
    BY <2>1 DEF BufferInFile
  <2>6. BufferIsFile'
    BY <2>2 DEF BufferIsFile
  <2> QED BY <2>3, <2>4, <2>5, <2>6
<1>3. CASE PushChunk
  <2> DEFINE chunk == chunks[pushed + 1]
  <2>1. /\ pc = "push" /\ chunk.len > 0 /\ chunk.len <= FileSize - source
        /\ buffer' = buffer \o BytesOf(chunk)
        /\ source' = source + chunk.len /\ position' = source + chunk.len
        /\ eof' = (source + chunk.len >= FileSize)
        /\ playback' = playback
    BY <1>3 DEF PushChunk, Acceptable, Advance
  <2>2. chunk \in Chunks /\ chunk.len \in Nat /\ chunk.at \in Nat
    BY <2>1, NextChunk
  <2>3. /\ BytesOf(chunk) \in Seq(Nat)
        /\ Len(BytesOf(chunk)) = chunk.len
        /\ \A i \in 1..chunk.len : BytesOf(chunk)[i] = chunk.at + i - 1
    BY <2>2, BytesOfChunk
  <2> HIDE DEF chunk
  <2>4. /\ Len(buffer') = Len(buffer) + chunk.len
        /\ \A i \in 1..(Len(buffer) + chunk.len) :
              buffer'[i] = IF i <= Len(buffer) THEN buffer[i] ELSE BytesOf(chunk)[i - Len(buffer)]
    <3> DEFINE added == BytesOf(chunk)
    <3>1. buffer \in Seq(Nat) /\ added \in Seq(Nat) /\ Len(added) = chunk.len
      BY <1>0, <2>3
    <3> HIDE DEF added
    <3>2. /\ Len(buffer \o added) = Len(buffer) + Len(added)
          /\ \A i \in 1..(Len(buffer) + Len(added)) : (buffer \o added)[i] =
                IF i <= Len(buffer) THEN buffer[i] ELSE added[i - Len(buffer)]
      BY <3>1, ConcatProperties
    <3>3. buffer' = buffer \o added
      BY <2>1 DEF added
    <3> QED BY <3>1, <3>2, <3>3 DEF added
  <2>5. PositionsAgree'
    BY <1>0, <2>1, <2>2, <2>4 DEF PositionsAgree
  <2>6. EofExact'
    BY <2>1 DEF EofExact
  <2>7. BufferInFile'
    BY <1>0, <2>1, <2>2, ConstantTypes DEF BufferInFile
  <2>8. ASSUME Exact, NEW i \in DOMAIN buffer'
        PROVE  buffer'[i] = playback' + i - 1
    <3>1. chunk.at = source
      BY <2>1, <2>8, NextChunk DEF IInv, PushPoint, chunk
    <3>2. i \in 1..(Len(buffer) + chunk.len)
      BY <1>t, <2>4
    <3>3. CASE i <= Len(buffer)
      <4>1. i \in DOMAIN buffer
        BY <1>0, <3>2, <3>3
      <4>2. buffer[i] = playback + i - 1
        BY <1>0, <2>8, <4>1 DEF BufferIsFile
      <4> QED BY <2>1, <2>4, <3>2, <3>3, <4>2
    <3>4. CASE i > Len(buffer)
      <4>1. i - Len(buffer) \in 1..chunk.len
        BY <1>0, <2>2, <3>2, <3>4
      <4>2. BytesOf(chunk)[i - Len(buffer)] = chunk.at + (i - Len(buffer)) - 1
        BY <2>3, <4>1
      <4>3. buffer'[i] = BytesOf(chunk)[i - Len(buffer)]
        BY <1>0, <2>4, <3>2, <3>4
      <4> QED BY <1>0, <2>1, <2>2, <3>1, <3>2, <4>2, <4>3
    <3> QED BY <1>0, <3>2, <3>3, <3>4
  <2> QED BY <2>5, <2>6, <2>7, <2>8 DEF BufferIsFile
<1>4. CASE UNCHANGED state
  BY <1>0, <1>4 DEF PositionsAgree, EofExact, BufferInFile, BufferIsFile, state
<1> QED BY <1>0, <1>1, <1>2, <1>3, <1>4, StateSteps
-----------------------------------------------------------------------------
(* The batch of reads in flight. *)

\* The batch invariants hold when there is no batch.
LEMMA NoBatch ==
    ASSUME requests' = <<>>, chunks' = <<>>, pc' # "push"
    PROVE  BatchInFile' /\ BatchEnds' /\ RepliesMatch' /\ PushPoint'
<1>1. Len(requests') = 0 /\ DOMAIN requests' = {} /\ DOMAIN chunks' = {}
  OBVIOUS
<1>2. BatchInFile'
  BY <1>1, ConstantTypes DEF BatchInFile
<1>3. BatchEnds'
  BY <1>1 DEF BatchEnds
<1>4. RepliesMatch'
  BY <1>1 DEF RepliesMatch
<1>5. PushPoint'
  BY DEF PushPoint
<1> QED BY <1>2, <1>3, <1>4, <1>5

\* Every step of the batch: it is empty afterwards, or one of four actions.
LEMMA BatchSteps ==
    ASSUME TypeOK, [Next]_vars
    PROVE  \/ requests' = <<>> /\ chunks' = <<>> /\ pc' # "push"
           \/ PlanRequest
           \/ SendRequests
           \/ ReceiveReply
           \/ PushChunk /\ UNCHANGED <<pc, requests, chunks>> /\ pushed' = pushed + 1 /\ ~eof'
           \/ UNCHANGED vars
<1>1. ASSUME NEW max \in ReadLens, ReadBuffered(max)
      PROVE  requests' = <<>> /\ chunks' = <<>> /\ pc' # "push"
  BY <1>1 DEF ReadBuffered, PopRead, EndCall
<1>2. ASSUME NEW max \in ReadLens, ReadFilling(max)
      PROVE  requests' = <<>> /\ chunks' = <<>> /\ pc' # "push"
  BY <1>2 DEF ReadFilling, BeginFill, TypeOK
<1>3. FillInitialBuffer => requests' = <<>> /\ chunks' = <<>> /\ pc' # "push"
  BY DEF FillInitialBuffer, BeginFill, EndCall, TypeOK
<1>4. MaybePrefill => requests' = <<>> /\ chunks' = <<>> /\ pc' # "push"
  BY DEF MaybePrefill, BeginFill, EndCall, TypeOK
<1>5. ASSUME NEW seek \in Seeks, Seek(seek)
      PROVE  requests' = <<>> /\ chunks' = <<>> /\ pc' # "push"
  BY <1>5 DEF Seek, EndCall
<1>6. FillDone => requests' = <<>> /\ chunks' = <<>> /\ pc' # "push"
  BY DEF FillDone, EndCall, PopRead
<1>7. Fail \/ RejectChunk => requests' = <<>> /\ chunks' = <<>> /\ pc' # "push"
  BY DEF Fail, RejectChunk, EndCall
<1>8. PushChunk => \/ requests' = <<>> /\ chunks' = <<>> /\ pc' # "push"
                   \/ UNCHANGED <<pc, requests, chunks>> /\ pushed' = pushed + 1 /\ ~eof'
  BY DEF PushChunk, Acceptable, Advance
<1> QED BY <1>1, <1>2, <1>3, <1>4, <1>5, <1>6, <1>7, <1>8 DEF Next, Progress

\* Types of the requests, by index.
LEMMA RequestTypes ==
    ASSUME TypeOK
    PROVE  /\ requests \in Seq(Requests) /\ Len(requests) \in Nat
           /\ DOMAIN requests = 1..Len(requests)
           /\ \A i \in 1..Len(requests) :
                 requests[i].offset \in Nat /\ requests[i].len \in Nat \ {0}
<1>1. requests \in Seq(Requests)
  BY DEF TypeOK
<1>2. \A i \in 1..Len(requests) : requests[i] \in Requests
  BY <1>1
<1> QED BY <1>1, <1>2 DEF Requests

\* A chunk that is pushed ends within the batch, when replies are never long.
LEMMA ChunkInBatch ==
    ASSUME IInv, pc = "push", Excess = 0
    PROVE  source + chunks[pushed + 1].len <= SimulatedSource
<1> DEFINE chunk == chunks[pushed + 1]
           request == requests[pushed + 1]
<1>1. /\ pushed + 1 \in DOMAIN requests
      /\ chunk.len \in Nat /\ request.offset \in Nat /\ request.len \in Nat
      /\ chunk.len \in ReplyLens(request)
  BY NextChunk
<1>2. chunk.len <= request.len
  BY <1>1, ConstantTypes DEF ReplyLens
<1>3. source <= request.offset
  BY DEF IInv, PushPoint
<1>4. request.offset + request.len <= SimulatedSource
  BY <1>1 DEF IInv, BatchEnds
<1>5. source \in Nat /\ SimulatedSource \in Nat
  BY SimulatedSourceType DEF IInv, TypeOK
<1> QED BY <1>1, <1>2, <1>3, <1>4, <1>5

\* What is in flight lies at or after the source position.
LEMMA SourceInBatch ==
    ASSUME IInv, Excess = 0
    PROVE  source <= SimulatedSource
<1>0. source \in Nat /\ SimulatedSource \in Nat
  BY SimulatedSourceType DEF IInv, TypeOK
<1>1. CASE requests = <<>>
  BY <1>0, <1>1 DEF SimulatedSource
<1>2. CASE requests # <<>> /\ pc = "push"
  <2>1. chunks[pushed + 1].len \in Nat
    BY <1>2, NextChunk
  <2> QED BY <1>0, <1>2, <2>1, ChunkInBatch
<1>3. CASE requests # <<>> /\ pc # "push"
  <2>1. pc \in {"plan", "await"}
    BY <1>3 DEF IInv, TypeOK
  <2>2. requests[1].offset = source
    BY <1>3, <2>1 DEF IInv, BatchInFile
  <2>3. 1 \in DOMAIN requests /\ requests[1].len \in Nat
    BY <1>3, RequestTypes DEF IInv
  <2>4. requests[1].offset + requests[1].len <= SimulatedSource
    BY <2>3 DEF IInv, BatchEnds
  <2> QED BY <1>0, <2>2, <2>3, <2>4
<1> QED BY <1>1, <1>2, <1>3

\* Planning a request lengthens the batch by it and leaves the others alone.
LEMMA PlanEffect ==
    ASSUME TypeOK, PlanRequest
    PROVE  /\ Len(requests') = Len(requests) + 1
           /\ \A i \in 1..Len(requests) : requests'[i] = requests[i]
           /\ requests'[Len(requests) + 1].offset = SimulatedSource
           /\ requests'[Len(requests) + 1].len = RequestLen
           /\ SimulatedSource' = SimulatedSource + RequestLen
           /\ SimulatedSource \in Nat /\ RequestLen \in Nat \ {0}
           /\ DOMAIN requests' = 1..(Len(requests) + 1)
<1>1. SimulatedSource \in Nat /\ RequestLen \in Nat \ {0}
  BY SimulatedSourceType, RequestLenBounds DEF PlanRequest
<1> DEFINE request == [offset |-> SimulatedSource, len |-> RequestLen]
<1>2. request \in Requests /\ request.offset = SimulatedSource /\ request.len = RequestLen
  BY <1>1 DEF Requests
<1>3. requests' = Append(requests, request) /\ requests \in Seq(Requests)
  BY DEF PlanRequest, TypeOK
<1> HIDE DEF request
<1>4. /\ requests' \in Seq(Requests) /\ requests' # <<>>
      /\ Len(requests') = Len(requests) + 1
      /\ \A i \in 1..Len(requests) : requests'[i] = requests[i]
      /\ requests'[Len(requests) + 1] = request
  BY <1>2, <1>3, AppendProperties
<1>5. SimulatedSource' = SimulatedSource + RequestLen
  BY <1>2, <1>4 DEF SimulatedSource
<1> QED BY <1>1, <1>2, <1>4, <1>5

\* Measured from the playback position instead of the source position.
LEMMA FromPlayback ==
    ASSUME NEW planned \in Int, NEW src \in Int, NEW play \in Int, NEW len \in Int,
           NEW high \in Int,
           src = play + len
    PROVE  len + (planned - src) <= high <=> planned - play <= high
OBVIOUS

\* What is buffered and asked for stays below the high watermark.
LEMMA PrefetchStep ==
    ASSUME IInv, [Next]_vars
    PROVE  PrefetchBound'
<1> SUFFICES ASSUME Excess = 0
             PROVE  Len(buffer') + (SimulatedSource' - source') <= HighWatermark
  BY DEF PrefetchBound
<1>1. /\ PositionsAgree /\ PositionsAgree' /\ TypeOK /\ TypeOK' /\ PrefetchBound
  BY StreamStep, TypeStep DEF IInv
<1>2. /\ SimulatedSource \in Int /\ playback \in Int /\ source \in Int
      /\ Len(buffer) \in Int /\ HighWatermark \in Int
  BY <1>1, SimulatedSourceType, ConstantTypes DEF TypeOK
<1>3. /\ SimulatedSource' \in Int /\ playback' \in Int /\ source' \in Int
      /\ Len(buffer') \in Int
  BY <1>1, NextSimulatedSourceType DEF TypeOK
<1>4. source = playback + Len(buffer) /\ source' = playback' + Len(buffer')
  BY <1>1 DEF PositionsAgree
<1>5. SimulatedSource - playback <= HighWatermark
  BY <1>1, <1>2, <1>4, FromPlayback DEF PrefetchBound
<1>6. SUFFICES SimulatedSource' - playback' <= HighWatermark
  BY <1>2, <1>3, <1>4, FromPlayback
<1>7. source <= SimulatedSource
  BY SourceInBatch
<1>8. CASE requests' = <<>>
  <2>0. SimulatedSource' = source'
    BY <1>8 DEF SimulatedSource
  <2>1. ASSUME NEW max \in Nat, PopRead(max)
        PROVE  source' - playback' <= HighWatermark
    <3>1. PICK n \in 0..Len(buffer) : playback' = playback + n /\ source' = source
      BY <1>1, <2>1, PopReadEffect
    <3>2. source - (playback + n) <= HighWatermark
      BY <1>2, <1>5, <1>7, <3>1
    <3> QED BY <3>1, <3>2
  <2>2. ASSUME NEW next \in Nat, SeekTo(next)
        PROVE  source' - playback' <= HighWatermark
    <3>1. source' = next /\ playback' = next /\ next - next <= HighWatermark
      BY <2>2, ConstantTypes DEF SeekTo
    <3> QED BY <3>1
  <2>3. ASSUME PushChunk PROVE source' - playback' <= HighWatermark
    <3>1. source + chunks[pushed + 1].len <= SimulatedSource
      BY <2>3, ChunkInBatch DEF PushChunk, Acceptable, Advance
    <3>2. chunks[pushed + 1].len \in Nat
      BY <2>3, NextChunk DEF PushChunk, Acceptable, Advance
    <3>3. (source + chunks[pushed + 1].len) - playback <= HighWatermark
      BY <1>2, <1>5, <3>1, <3>2
    <3>4. source' = source + chunks[pushed + 1].len /\ playback' = playback
      BY <2>3 DEF PushChunk, Acceptable, Advance
    <3> QED BY <3>3, <3>4
  <2>4. ASSUME UNCHANGED state PROVE source' - playback' <= HighWatermark
    <3>1. source - playback <= HighWatermark
      BY <1>2, <1>5, <1>7
    <3> QED BY <2>4, <3>1 DEF state
  <2>5. source' - playback' <= HighWatermark
    BY <1>1, <2>1, <2>2, <2>3, <2>4, StateSteps
  <2> QED BY <2>0, <2>5
<1>9. CASE PlanRequest
  <2>1. /\ SimulatedSource' = SimulatedSource + RequestLen /\ RequestLen \in Int
        /\ SimulatedBuffered + RequestLen <= HighWatermark
    BY <1>1, <1>9, PlanEffect, RequestLenBounds DEF PlanRequest
  <2>2. SimulatedBuffered = Len(buffer) + (SimulatedSource - source) /\ playback' = playback
    BY <1>9 DEF SimulatedBuffered, PlanRequest, state
  <2>3. (SimulatedSource + RequestLen) - playback <= HighWatermark
    BY <1>2, <1>4, <2>1, <2>2
  <2> QED BY <2>1, <2>2, <2>3
<1>10. CASE SendRequests \/ ReceiveReply \/ UNCHANGED vars
  <2>1. UNCHANGED <<source, playback, requests>>
    BY <1>10 DEF SendRequests, ReceiveReply, vars, state
  <2> QED BY <1>5, <2>1 DEF SimulatedSource
<1>11. CASE PushChunk /\ UNCHANGED requests /\ requests # <<>>
  BY <1>5, <1>11 DEF PushChunk, Acceptable, Advance, SimulatedSource
<1> QED BY <1>1, <1>8, <1>9, <1>10, <1>11, BatchSteps

\* Planning keeps the batch a run of adjacent reads within the file.
LEMMA PlanStep ==
    ASSUME IInv, PlanRequest
    PROVE  BatchInFile' /\ BatchEnds' /\ RepliesMatch' /\ PushPoint'
<1>0. /\ TypeOK /\ BatchInFile /\ BatchEnds /\ MoreToRequest
      /\ pc = "plan" /\ pc' = "plan" /\ source' = source /\ chunks' = chunks /\ chunks = <<>>
  BY DEF IInv, PlanRequest, TypeOK, state
<1>1. /\ Len(requests') = Len(requests) + 1
      /\ \A i \in 1..Len(requests) : requests'[i] = requests[i]
      /\ requests'[Len(requests) + 1].offset = SimulatedSource
      /\ requests'[Len(requests) + 1].len = RequestLen
      /\ SimulatedSource' = SimulatedSource + RequestLen
      /\ SimulatedSource \in Nat /\ RequestLen \in Nat \ {0}
      /\ DOMAIN requests' = 1..(Len(requests) + 1)
  BY <1>0, PlanEffect
<1>2. RequestLen <= ChunkSize /\ SimulatedSource + RequestLen <= FileSize
  BY <1>0, <1>1, RequestLenBounds
<1>3. /\ Len(requests) \in Nat /\ DOMAIN requests = 1..Len(requests)
      /\ \A i \in 1..Len(requests) :
                 requests[i].offset \in Nat /\ requests[i].len \in Nat \ {0}
  BY <1>0, RequestTypes
<1>4. BatchInFile'
  <2>1. Len(requests) + 1 <= PipelineDepth
    BY <1>0, <1>3, ConstantTypes DEF MoreToRequest
  <2>2. ASSUME NEW i \in DOMAIN requests'
        PROVE  /\ requests'[i].len <= ChunkSize
               /\ requests'[i].offset + requests'[i].len <= FileSize
               /\ i > 1 => requests'[i].offset = requests'[i-1].offset + requests'[i-1].len
    <3>1. CASE i \in 1..Len(requests)
      <4>1. i > 1 => i - 1 \in 1..Len(requests)
        BY <1>3, <3>1
      <4>2. requests'[i] = requests[i] /\ (i > 1 => requests'[i-1] = requests[i-1])
        BY <1>1, <3>1, <4>1
      <4> QED BY <1>0, <1>3, <3>1, <4>2 DEF BatchInFile
    <3>2. CASE i = Len(requests) + 1
      <4>1. requests'[i].offset = SimulatedSource /\ requests'[i].len = RequestLen
        BY <1>1, <3>2
      <4>2. ASSUME i > 1
            PROVE  SimulatedSource = requests'[i-1].offset + requests'[i-1].len
        <5>1. i - 1 = Len(requests) /\ Len(requests) \in 1..Len(requests) /\ requests # <<>>
          BY <1>3, <3>2, <4>2
        <5> QED BY <1>1, <5>1 DEF SimulatedSource
      <4> QED BY <1>2, <4>1, <4>2
    <3> QED BY <1>1, <1>3, <3>1, <3>2
  <2>3. requests'[1].offset = source'
    <3>1. CASE requests = <<>>
      BY <1>0, <1>1, <3>1 DEF SimulatedSource
    <3>2. CASE requests # <<>>
      <4>1. 1 \in 1..Len(requests)
        BY <1>0, <1>3, <3>2 DEF TypeOK
      <4> QED BY <1>0, <1>1, <3>2, <4>1 DEF BatchInFile
    <3> QED BY <3>1, <3>2
  <2> QED BY <1>1, <2>1, <2>2, <2>3 DEF BatchInFile
<1>5. BatchEnds'
  <2>1. ASSUME NEW i \in DOMAIN requests'
        PROVE  requests'[i].offset + requests'[i].len <= SimulatedSource + RequestLen
    <3>1. CASE i \in 1..Len(requests)
      <4>1. requests[i].offset + requests[i].len <= SimulatedSource
        BY <1>0, <1>3, <3>1 DEF BatchEnds
      <4>2. requests[i].offset + requests[i].len <= SimulatedSource + RequestLen
        BY <1>1, <1>3, <3>1, <4>1
      <4> QED BY <1>1, <3>1, <4>2
    <3>2. CASE i = Len(requests) + 1
      <4>1. SimulatedSource + RequestLen <= SimulatedSource + RequestLen
        BY <1>1
      <4> QED BY <1>1, <3>2, <4>1
    <3> QED BY <1>1, <1>3, <3>1, <3>2
  <2> QED BY <1>1, <2>1 DEF BatchEnds
<1>6. RepliesMatch'
  BY <1>0 DEF RepliesMatch
<1>7. PushPoint'
  BY <1>0 DEF PushPoint
<1> QED BY <1>4, <1>5, <1>6, <1>7

\* A reply is paired with the request of its index, and the last one hands a
\* batch that starts at the source position to the push loop.
LEMMA ReceiveStep ==
    ASSUME IInv, ReceiveReply
    PROVE  BatchInFile' /\ BatchEnds' /\ RepliesMatch' /\ PushPoint'
<1>0. /\ TypeOK /\ BatchInFile /\ BatchEnds /\ RepliesMatch /\ EofExact
      /\ pc = "await" /\ pc' \in {"await", "push"} /\ pushed = 0 /\ pushed' = 0
      /\ source' = source /\ eof' = eof /\ requests' = requests
      /\ Len(chunks) < Len(requests) /\ chunks \in Seq(Chunks) /\ Len(chunks) \in Nat
  BY DEF IInv, ReceiveReply, TypeOK, state
<1> DEFINE request == requests[Len(chunks) + 1]
<1>1. PICK n \in ReplyLens(request) :
             chunks' = Append(chunks, [at |-> request.offset, len |-> n])
  BY DEF ReceiveReply
<1>2. /\ requests \in Seq(Requests) /\ Len(requests) \in Nat /\ DOMAIN requests = 1..Len(requests)
      /\ \A i \in 1..Len(requests) :
                 requests[i].offset \in Nat /\ requests[i].len \in Nat \ {0}
  BY <1>0, RequestTypes
<1>3. 1 \in 1..Len(requests) /\ requests[1].offset = source /\ requests # <<>>
  <2>1. 1 \in 1..Len(requests) /\ requests # <<>>
    BY <1>0, <1>2
  <2> QED BY <1>0, <2>1 DEF BatchInFile
<1>4. ~eof
  <2>1. requests[1].offset + requests[1].len <= FileSize
    BY <1>0, <1>2, <1>3 DEF BatchInFile
  <2>2. ~(source >= FileSize)
    BY <1>2, <1>3, <2>1, ConstantTypes
  <2> QED BY <1>0, <2>2 DEF EofExact
<1>5. BatchInFile'
  BY <1>0, <1>3 DEF BatchInFile
<1>6. BatchEnds'
  BY <1>0 DEF BatchEnds, SimulatedSource
<1>7. RepliesMatch'
  <2>1. Len(chunks) + 1 \in 1..Len(requests)
    BY <1>0, <1>2
  <2>2. request.offset \in Nat /\ request.len \in Nat
    BY <1>2, <2>1
  <2> DEFINE chunk == [at |-> request.offset, len |-> n]
  <2>3. chunk \in Chunks /\ chunk.at = request.offset /\ chunk.len = n
    BY <2>2, ConstantTypes DEF ReplyLens, Chunks
  <2> HIDE DEF chunk
  <2>4. chunks' = Append(chunks, chunk)
    BY <1>1 DEF chunk
  <2>5. /\ chunks' \in Seq(Chunks) /\ Len(chunks') = Len(chunks) + 1
        /\ \A i \in 1..Len(chunks) : chunks'[i] = chunks[i]
        /\ chunks'[Len(chunks) + 1] = chunk
    BY <1>0, <2>3, <2>4, AppendProperties
  <2>6. ASSUME NEW i \in DOMAIN chunks'
        PROVE  /\ chunks'[i].at = requests'[i].offset
               /\ chunks'[i].len \in ReplyLens(requests'[i])
    <3>1. CASE i \in 1..Len(chunks)
      BY <1>0, <2>5, <3>1 DEF RepliesMatch
    <3>2. CASE i = Len(chunks) + 1
      BY <1>0, <1>1, <2>3, <2>5, <3>2
    <3>3. i \in 1..(Len(chunks) + 1)
      BY <2>5
    <3> QED BY <1>0, <3>1, <3>2, <3>3
  <2> QED BY <2>6 DEF RepliesMatch, ReplyLens
<1>8. PushPoint'
  <2>1. source <= requests[1].offset /\ source = requests[1].offset
    BY <1>2, <1>3
  <2> QED BY <1>0, <1>4, <2>1 DEF PushPoint, Exact
<1> QED BY <1>5, <1>6, <1>7, <1>8

\* After a chunk is pushed, the next one still does not start behind it.
LEMMA PushStep ==
    ASSUME IInv, PushChunk, TypeOK', UNCHANGED <<pc, requests, chunks>>, pushed' = pushed + 1, ~eof'
    PROVE  BatchInFile' /\ BatchEnds' /\ RepliesMatch' /\ PushPoint'
<1>0. /\ TypeOK /\ BatchInFile /\ BatchEnds /\ RepliesMatch /\ PushPoint /\ pc = "push"
      /\ source' = source + chunks[pushed + 1].len /\ source \in Nat
  BY DEF IInv, PushChunk, Acceptable, Advance, TypeOK
<1>1. BatchInFile'
  BY <1>0 DEF BatchInFile
<1>2. BatchEnds'
  BY <1>0, requests' = requests DEF BatchEnds, SimulatedSource, TypeOK
<1>3. RepliesMatch'
  BY <1>0 DEF RepliesMatch
<1>4. PushPoint'
  <2> DEFINE chunk == chunks[pushed + 1]
             request == requests[pushed + 1]
             next == requests[pushed + 2]
  <2>1. /\ pushed \in Nat /\ Len(requests) \in Nat /\ pushed + 1 < Len(requests)
        /\ requests \in Seq(Requests)
    BY <1>0 DEF TypeOK
  <2>2. pushed + 2 \in DOMAIN requests /\ pushed + 2 > 1 /\ (pushed + 2) - 1 = pushed + 1
    BY <2>1
  <2>3. next.offset = request.offset + request.len
    BY <1>0, <2>2 DEF BatchInFile
  <2>4. /\ chunk.len \in Nat /\ request.offset \in Nat /\ request.len \in Nat
        /\ chunk.len \in ReplyLens(request)
    BY <1>0, NextChunk
  <2>5. ASSUME Excess = 0
        PROVE  source + chunk.len <= next.offset
    <3>1. source <= request.offset /\ chunk.len <= request.len
      BY <1>0, <2>4, <2>5, ConstantTypes DEF PushPoint, ReplyLens
    <3> QED BY <1>0, <2>3, <2>4, <3>1
  <2>6. ASSUME Exact
        PROVE  source + chunk.len = next.offset
    <3>1. PipelineDepth # 1
      BY <1>0, <2>1 DEF BatchInFile
    <3>2. chunk.len = request.len
      BY <2>4, <2>6, <3>1, ConstantTypes DEF Exact, ReplyLens
    <3>3. source = request.offset
      BY <1>0, <2>6 DEF PushPoint
    <3> QED BY <2>3, <3>2, <3>3
  <2>7. requests'[pushed' + 1] = next
    <3>1. pushed' + 1 = pushed + 2
      BY <2>1
    <3> QED BY <3>1
  <2> QED BY <1>0, <2>5, <2>6, <2>7 DEF PushPoint, Exact
<1> QED BY <1>1, <1>2, <1>3, <1>4
\* A step that touches neither the batch nor the stream keeps what is said of
\* the batch.
LEMMA SameBatch ==
    ASSUME IInv, SendRequests \/ UNCHANGED vars
    PROVE  BatchInFile' /\ BatchEnds' /\ RepliesMatch' /\ PushPoint'
<1>0. /\ TypeOK /\ BatchInFile /\ BatchEnds /\ RepliesMatch /\ PushPoint
      /\ UNCHANGED <<source, eof, requests, chunks, pushed>>
      /\ pc' = pc \/ (pc = "plan" /\ pc' = "await")
  BY DEF IInv, SendRequests, vars, state
<1>1. BatchInFile'
  BY <1>0 DEF BatchInFile
<1>2. BatchEnds'
  BY <1>0 DEF BatchEnds, SimulatedSource
<1>3. RepliesMatch'
  BY <1>0 DEF RepliesMatch
<1>4. PushPoint'
  BY <1>0 DEF PushPoint
<1> QED BY <1>1, <1>2, <1>3, <1>4

\* A fill keeps the goal it began with.
LEMMA GoalStep ==
    ASSUME IInv, [Next]_vars
    PROVE  ReadGoal'
<1>0. TypeOK /\ ReadGoal
  BY DEF IInv
<1>1. ASSUME NEW max \in ReadLens, ReadBuffered(max) PROVE ReadGoal'
  BY <1>1 DEF ReadBuffered, PopRead, EndCall, ReadGoal
<1>2. ASSUME NEW max \in ReadLens, ReadFilling(max) PROVE ReadGoal'
  BY <1>2 DEF ReadFilling, BeginFill, ReadGoal
<1>3. CASE FillInitialBuffer
  BY <1>3 DEF FillInitialBuffer, BeginFill, EndCall, ReadGoal
<1>4. CASE MaybePrefill
  BY <1>4 DEF MaybePrefill, BeginFill, EndCall, ReadGoal
<1>5. ASSUME NEW seek \in Seeks, Seek(seek) PROVE ReadGoal'
  BY <1>5 DEF Seek, EndCall, ReadGoal
<1>6. CASE FillDone \/ Fail \/ RejectChunk
  BY <1>6 DEF FillDone, Fail, RejectChunk, PopRead, EndCall, ReadGoal
<1>7. CASE PlanRequest \/ SendRequests \/ ReceiveReply
  <2>1. pc # "idle" /\ UNCHANGED <<call, goal>>
    BY <1>7 DEF PlanRequest, SendRequests, ReceiveReply
  <2> QED BY <1>0, <2>1 DEF ReadGoal
<1>8. CASE PushChunk
  <2>1. pc # "idle" /\ UNCHANGED <<call, goal>>
    BY <1>8 DEF PushChunk, Acceptable, Advance
  <2> QED BY <1>0, <2>1 DEF ReadGoal
<1>9. CASE UNCHANGED vars
  BY <1>0, <1>9 DEF vars, ReadGoal
<1> QED BY <1>1, <1>2, <1>3, <1>4, <1>5, <1>6, <1>7, <1>8, <1>9 DEF Next, Progress
-----------------------------------------------------------------------------
(* The inductive invariant. *)

\* An opened stream satisfies the inductive invariant.
LEMMA InitInvariant == Init => IInv
<1> SUFFICES ASSUME Init PROVE IInv
  OBVIOUS
<1>1. TypeOK
  BY CallAssumption DEF Init, TypeOK, Result, Results
<1>2. PositionsAgree
  BY DEF Init, PositionsAgree
<1>6. EofExact
  <2>1. FileSize = 0 <=> 0 >= FileSize
    BY ConstantTypes
  <2>2. source = 0 /\ eof = (FileSize = 0)
    BY DEF Init
  <2> QED BY <2>1, <2>2, Zenon DEF EofExact
<1>5. BufferInFile /\ BufferIsFile /\ ReadGoal
  BY DEF Init, BufferInFile, BufferIsFile, ReadGoal
<1>3. BatchInFile /\ BatchEnds /\ RepliesMatch /\ PushPoint
  BY ConstantTypes DEF Init, BatchInFile, BatchEnds, RepliesMatch, PushPoint
<1>4. PrefetchBound
  BY ConstantTypes DEF Init, PrefetchBound, SimulatedSource
<1> QED BY <1>1, <1>2, <1>3, <1>4, <1>5, <1>6 DEF IInv

\* Every step keeps it.
LEMMA InvariantStep == IInv /\ [Next]_vars => IInv'
<1> SUFFICES ASSUME IInv, [Next]_vars PROVE IInv'
  OBVIOUS
<1>1. TypeOK /\ TypeOK'
  BY TypeStep DEF IInv
<1>2. PositionsAgree' /\ EofExact' /\ BufferInFile' /\ (Exact => BufferIsFile')
  BY StreamStep
<1>3. PrefetchBound'
  BY PrefetchStep
<1>4. BatchInFile' /\ BatchEnds' /\ RepliesMatch' /\ PushPoint'
  <2>1. CASE requests' = <<>> /\ chunks' = <<>> /\ pc' # "push"
    BY <2>1, NoBatch
  <2>2. CASE PlanRequest
    BY <2>2, PlanStep
  <2>3. CASE SendRequests \/ UNCHANGED vars
    BY <2>3, SameBatch
  <2>4. CASE ReceiveReply
    BY <2>4, ReceiveStep
  <2>5. CASE PushChunk /\ UNCHANGED <<pc, requests, chunks>> /\ pushed' = pushed + 1 /\ ~eof'
    BY <1>1, <2>5, PushStep
  <2> QED BY <1>1, <2>1, <2>2, <2>3, <2>4, <2>5, BatchSteps
<1>5. ReadGoal'
  BY GoalStep
<1>6. Exact' <=> Exact
  BY DEF Exact
<1> QED BY <1>1, <1>2, <1>3, <1>4, <1>5, <1>6 DEF IInv

\* The inductive invariant holds throughout.
THEOREM Invariant == Spec => []IInv
<1> QED BY InitInvariant, InvariantStep, PTL DEF Spec

\* The variables keep their types, and a batch exists only while a fill runs.
THEOREM TypeCorrect == Spec => []TypeOK
<1>1. IInv => TypeOK
  BY DEF IInv
<1> QED BY <1>1, Invariant, PTL

\* The playback, source and FileStream positions never drift apart.
THEOREM PositionsCorrect == Spec => []PositionsAgree
<1>1. IInv => PositionsAgree
  BY DEF IInv
<1> QED BY <1>1, Invariant, PTL

\* The end-of-file flag is exact, whatever a reply held and wherever a seek led.
THEOREM EofCorrect == Spec => []EofExact
<1>1. IInv => EofExact
  BY DEF IInv
<1> QED BY <1>1, Invariant, PTL

\* Bytes buffered and bytes in flight never exceed the high watermark, for
\* servers that answer with no more than they are asked for.
THEOREM PrefetchBounded == Spec => []PrefetchBound
<1>1. IInv => PrefetchBound
  BY DEF IInv
<1> QED BY <1>1, Invariant, PTL

\* No read is ever asked for beyond the end of the file, a chunk or the pipeline.
THEOREM BatchCorrect == Spec => []BatchInFile
<1>1. IInv => BatchInFile
  BY DEF IInv
<1> QED BY <1>1, Invariant, PTL

\* Nothing beyond the end of the file is buffered.
THEOREM BufferEndsInFile == Spec => []BufferInFile
<1>1. IInv => BufferInFile
  BY DEF IInv
<1> QED BY <1>1, Invariant, PTL

\* With one read in flight at a time, or a server that answers in full, the
\* buffer is a piece of the file without a gap.
THEOREM BufferCorrect == ASSUME Exact PROVE Spec => []BufferIsFile
<1>1. IInv => BufferIsFile
  BY DEF IInv
<1> QED BY <1>1, Invariant, PTL

\* A prefill that has ended well leaves nothing to prefill.
THEOREM PrefillComplete == Spec => PrefillSettles
<1>1. IInv /\ [Next]_vars =>
         [FillDone /\ call = Fill /\ goal = HighWatermark => ~ShouldPrefill']_vars
  <2> SUFFICES ASSUME IInv, FillDone, call = Fill, goal = HighWatermark PROVE ~ShouldPrefill'
    OBVIOUS
  <2>0. /\ source \in Nat /\ Len(buffer) \in Nat /\ EofExact
        /\ requests = <<>> /\ ~MoreToRequest /\ UNCHANGED state
    BY DEF IInv, TypeOK, FillDone
  <2>1. SimulatedSource = source /\ SimulatedBuffered = Len(buffer) /\ BufferedGoal = HighWatermark
    BY <2>0, ConstantTypes DEF SimulatedSource, SimulatedBuffered, BufferedGoal, Least
  <2>2. eof \/ Len(buffer) >= HighWatermark
    BY <2>0, <2>1, ConstantTypes DEF MoreToRequest, EofExact
  <2>3. ~ShouldPrefill
    BY <2>0, <2>2, ConstantTypes DEF ShouldPrefill
  <2>4. eof' = eof /\ buffer' = buffer
    BY <2>0 DEF state
  <2> QED BY <2>3, <2>4 DEF ShouldPrefill
<1> QED BY <1>1, Invariant, PTL DEF Spec, PrefillSettles
-----------------------------------------------------------------------------
(* The stream implements the read cursor. *)

\* A pop for a block of max bytes, when nothing more can be had, is a read.
LEMMA PopIsRead ==
    ASSUME IInv, Exact, NEW max \in ReadLens, PopRead(max), call \in {NoCall, max},
           \/ max = 0
           \/ Len(buffer) >= max
           \/ eof
           \/ Len(buffer) >= HighWatermark
    PROVE  Cursor!Read(max)
<1>0. /\ TypeOK /\ PositionsAgree /\ EofExact /\ BufferInFile /\ BufferIsFile
      /\ max \in Nat /\ playback \in Nat /\ Len(buffer) \in Nat /\ source \in Nat
      /\ buffer \in Seq(Nat)
  BY ConstantTypes DEF IInv, TypeOK
<1>1. PICK n \in 0..Len(buffer) :
         /\ n = Least(max, Len(buffer))
         /\ playback' = playback + n
         /\ ret' = Result(IF n = 0 THEN "none" ELSE "data", SubSeq(buffer, 1, n))
         /\ \A i \in 1..n : SubSeq(buffer, 1, n)[i] = buffer[i]
  BY <1>0, PopReadEffect
<1>2. n \in 0..max /\ n \in Nat
  BY <1>0, <1>1 DEF Least
<1>3. n <= Cursor!Remaining
  <2>1. CASE buffer = <<>>
    <3>1. n = 0 /\ Cursor!Remaining >= 0
      BY <1>0, <1>1, <2>1, ConstantTypes DEF Cursor!Remaining
    <3> QED BY <3>1
  <2>2. CASE buffer # <<>>
    <3>1. playback + Len(buffer) <= FileSize
      BY <1>0, <2>2 DEF BufferInFile, PositionsAgree
    <3> QED BY <1>0, <1>2, <3>1, ConstantTypes DEF Cursor!Remaining
  <2> QED BY <2>1, <2>2
<1>4. n >= max \/ n >= Cursor!Remaining \/ n >= HighWatermark
  <2>1. CASE max = 0 \/ Len(buffer) >= max
    BY <1>0, <1>1, <2>1 DEF Least
  <2>2. CASE Len(buffer) < max
    <3>1. n = Len(buffer)
      BY <1>0, <1>1, <2>2 DEF Least
    <3>2. ASSUME eof PROVE n >= Cursor!Remaining
      <4>1. playback + Len(buffer) >= FileSize
        BY <1>0, <3>2 DEF EofExact, PositionsAgree
      <4> QED BY <1>0, <3>1, <4>1, ConstantTypes DEF Cursor!Remaining
    <3> QED BY <1>0, <2>2, <3>1, <3>2
  <2> QED BY <1>0, <2>1, <2>2
<1>5. SubSeq(buffer, 1, n) = Cursor!Block(n)
  <2>1. SubSeq(buffer, 1, n) \in Seq(Nat) /\ Len(SubSeq(buffer, 1, n)) = n
    BY <1>0, <1>1, SplitFront
  <2> DEFINE taken == SubSeq(buffer, 1, n)
  <2>2. \A i \in 1..n : taken[i] = playback + i - 1
    <3>1. \A i \in 1..n : i \in DOMAIN buffer
      BY <1>0, <1>1
    <3> QED BY <1>0, <1>1, <3>1 DEF BufferIsFile
  <2>3. taken = [i \in 1..n |-> taken[i]]
    <3> HIDE DEF taken
    <3>1. taken \in [1..n -> Nat]
      BY <2>1, LenProperties DEF taken
    <3> QED BY <3>1
  <2> HIDE DEF taken
  <2>4. taken = [i \in 1..n |-> playback + i - 1]
    BY <2>2, <2>3
  <2> QED BY <2>4 DEF taken, Cursor!Block
<1>6. call' = NoCall
  BY DEF PopRead, EndCall
<1> QED BY <1>1, <1>2, <1>3, <1>4, <1>5, <1>6 DEF Cursor!Read, Result

\* Every step of the stream is a step of the cursor or leaves it alone.
LEMMA CursorStep ==
    ASSUME IInv, Exact, [Next]_vars
    PROVE  [Cursor!Next]_(Cursor!mvars)
<1>0. TypeOK
  BY DEF IInv
<1>1. ASSUME NEW max \in ReadLens, ReadBuffered(max) PROVE Cursor!Next
  <2>1. /\ PopRead(max) /\ call \in {NoCall, max}
        /\ max = 0 \/ Len(buffer) >= max \/ eof
    BY <1>0, <1>1 DEF ReadBuffered, IsFinished, TypeOK
  <2> QED BY <2>1, PopIsRead DEF Cursor!Next
<1>2. ASSUME NEW max \in ReadLens, ReadFilling(max) PROVE Cursor!Next
  <2>1. call = NoCall /\ call' = max /\ UNCHANGED <<playback, ret>>
    BY <1>0, <1>2 DEF ReadFilling, BeginFill, TypeOK, state
  <2> QED BY <2>1 DEF Cursor!Next, Cursor!Call
<1>3. ASSUME FillInitialBuffer \/ MaybePrefill PROVE Cursor!Next
  <2>1. /\ call = NoCall
        /\ \/ EndCall(Result("ok", <<>>)) /\ UNCHANGED state
           \/ call' = Fill /\ UNCHANGED <<playback, ret>>
    BY <1>0, <1>3 DEF FillInitialBuffer, MaybePrefill, BeginFill, TypeOK, state
  <2>2. CASE EndCall(Result("ok", <<>>)) /\ UNCHANGED state
    BY <2>1, <2>2 DEF EndCall, Result, state, Cursor!Next, Cursor!Filled
  <2>3. CASE call' = Fill /\ UNCHANGED <<playback, ret>>
    BY <2>1, <2>3 DEF Cursor!Next, Cursor!Call
  <2> QED BY <2>1, <2>2, <2>3
<1>5. ASSUME NEW seek \in Seeks, Seek(seek) PROVE Cursor!Next
  <2>1. call = NoCall /\ call' = NoCall
    BY <1>0, <1>5 DEF Seek, EndCall, TypeOK
  <2>2. Cursor!SeekTarget(FileSize, playback, seek) = SeekTarget(FileSize, playback, seek)
    BY DEF Cursor!SeekTarget, SeekTarget
  <2>3. CASE SeekTarget(FileSize, playback, seek) \in 0..MaxPos
    BY <1>5, <2>1, <2>2, <2>3 DEF Seek, SeekTo, EndCall, Result, Cursor!Next, Cursor!Seek
  <2>4. CASE SeekTarget(FileSize, playback, seek) \notin 0..MaxPos
    BY <1>5, <2>1, <2>2, <2>4 DEF Seek, EndCall, state, Result, Cursor!Next, Cursor!Seek
  <2> QED BY <2>3, <2>4
<1>6. ASSUME FillDone PROVE Cursor!Next
  <2>0. /\ pc = "plan" /\ requests = <<>> /\ ~MoreToRequest
        /\ source \in Nat /\ Len(buffer) \in Nat /\ EofExact /\ ReadGoal
    BY <1>6 DEF FillDone, IInv, TypeOK
  <2>1. CASE call = Fill
    BY <1>6, <2>1 DEF FillDone, EndCall, Result, state, Cursor!Next, Cursor!Filled
  <2>2. CASE call # Fill
    <3>1. call \in ReadLens /\ call \in Nat /\ goal = Most(call, LowWatermark) /\ PopRead(call)
      BY <1>6, <2>0, <2>2, ConstantTypes DEF ReadGoal, FillDone
    <3>2. SimulatedSource = source /\ SimulatedBuffered = Len(buffer)
      BY <2>0 DEF SimulatedSource, SimulatedBuffered
    <3>3. eof \/ Len(buffer) >= BufferedGoal
      BY <2>0, <3>1, <3>2, ConstantTypes DEF MoreToRequest, EofExact, BufferedGoal, Least, Most
    <3>4. Len(buffer) >= call \/ eof \/ Len(buffer) >= HighWatermark
      BY <2>0, <3>1, <3>3, ConstantTypes DEF BufferedGoal, Least, Most
    <3> QED BY <3>1, <3>4, PopIsRead DEF Cursor!Next
  <2> QED BY <2>1, <2>2
<1>7. ASSUME Fail \/ RejectChunk PROVE Cursor!Next
  <2>1. call # NoCall /\ EndCall(Result("err", <<>>)) /\ UNCHANGED state
    BY <1>0, <1>7 DEF Fail, RejectChunk, TypeOK
  <2> QED BY <2>1 DEF EndCall, Result, state, Cursor!Next, Cursor!Fails
<1>8. ASSUME PlanRequest \/ SendRequests \/ ReceiveReply \/ PushChunk \/ UNCHANGED vars
      PROVE  UNCHANGED <<playback, call, ret>>
  BY <1>8 DEF PlanRequest, SendRequests, ReceiveReply, PushChunk, Acceptable, Advance, vars, state
<1> QED BY <1>1, <1>2, <1>3, <1>5, <1>6, <1>7, <1>8 DEF Next, Progress, Cursor!mvars

\* With one read in flight, or a server that answers in full, the stream is a
\* read cursor over the file: every block it returns holds the file's bytes at
\* the playback position, and a call that fails moves nothing.
THEOREM StreamIsCursor == ASSUME Exact PROVE Spec => ImplementsMediaStream
<1>1. Init => Cursor!Init
  BY DEF Init, Result, Cursor!Init
<1>2. IInv /\ [Next]_vars => [Cursor!Next]_(Cursor!mvars)
  BY CursorStep
<1> QED BY <1>1, <1>2, Invariant, PTL DEF Spec, ImplementsMediaStream, Cursor!Spec
=============================================================================
