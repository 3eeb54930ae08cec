----------------------------- MODULE NetBiosProps -----------------------------
(* What makes the framing correct.                                            *)
EXTENDS NetBios

\* Types; nothing of a frame is left over between calls.
TypeOK ==
    /\ pc \in {"closed", "idle", "request", "session", "send", "recv"}
    /\ got \in Seq(Bytes) /\ Len(got) <= 4 + MaxFrame
    /\ out \in Seq(Bytes)
    /\ given \in Seq(Seq(Bytes))
    /\ ret \in {"none", "ok", "invalid", "timeout", "error", "toobig", "eof",
                "refused", "unexpected"}
    /\ down \in Seq(Bytes) /\ up \in Seq(Bytes)
    /\ open \in BOOLEAN
    /\ sent \in Seq(Frames) /\ asked \in Seq(Frames)
    /\ taken \in 0..Len(sent)
    /\ drops \in 0..MaxDrops
    /\ readCut \in BOOLEAN /\ writeCut \in BOOLEAN
    /\ ~Reading => got = <<>>
    /\ Writing <=> out # <<>>

\* The messages among some frames, and the frames that are not taken yet.
MessagesIn(frames) ==
    FlattenSeq([i \in DOMAIN frames |->
                  IF FrameType[frames[i].type] = "Message" THEN <<frames[i].data>> ELSE <<>>])

Unread == SubSeq(sent, taken + 1, Len(sent))

Broken == readCut \/ (pc = "closed" /\ ret # "none")

Channel == INSTANCE MessageChannel
    WITH queue <- MessagesIn(Unread),
         broken <- Broken,
         Messages <- {f.data : f \in ServerFrames}

(* As long as the connection is open, no call was dropped within a frame and  *)
(* no frame refused for its length, recv_message returns the server's messages *)
(* whole, each once and in order, whatever other frames lie between them and  *)
(* however the bytes arrive.                                                  *)
ImplementsChannel == Channel!Spec

\* What a server that reads as recv does makes of the bytes after each place.
EndAt(bytes, n) == n + 4 + ((bytes[n + 2] * Base + bytes[n + 3]) * Base + bytes[n + 4])

CutOffAt(bytes, n) == Len(bytes) < n + 4 \/ Len(bytes) < EndAt(bytes, n)

FrameAt(bytes, n) == [type |-> bytes[n + 1], data |-> SubSeq(bytes, n + 5, EndAt(bytes, n))]

FramesAfter(bytes) ==
    LET F[n \in 0..Len(bytes)] ==
            IF CutOffAt(bytes, n) THEN <<>>
            ELSE <<FrameAt(bytes, n)>> \o F[EndAt(bytes, n)]
    IN F

SplitFrames == FramesAfter(up)[0]

\* The server reads exactly the frames that the client has written, as long as
\* no call was dropped within one.
RequestsWhole ==
    ~writeCut => SplitFrames = IF Writing THEN Front(asked) ELSE asked

-----------------------------------------------------------------------------
(* Why they hold.  The frames of a direction are one stream of bytes, and     *)
(* each side stands at a place in it.                                         *)

Stream(frames) == FlattenSeq([i \in DOMAIN frames |-> Encode(frames[i])])

\* What has been read of a frame is the head of what was sent and not taken, ...
InStep == ~readCut => got \o down = Stream(Unread)

\* ... it goes no further than the frame does, ...
WithinFrame == Len(got) > 4 => FrameLength <= MaxFrame /\ Len(got) <= 4 + FrameLength

\* ... and what is written goes on from what has been written.
OutInStep == ~writeCut => up \o out = Stream(asked)

LastFrame == Writing => asked # <<>> /\ Len(out) <= Len(Encode(asked[Len(asked)]))

IInv == TypeOK /\ InStep /\ WithinFrame /\ OutInStep /\ LastFrame

-----------------------------------------------------------------------------
\* Every call ends when the server has closed the connection, even one that is
\* out of step and waits for a frame that no one has sent.
CallsEnd == Writing \/ Reading ~> ~(Writing \/ Reading)
=============================================================================
