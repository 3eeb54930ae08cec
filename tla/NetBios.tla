------------------------------- MODULE NetBios -------------------------------
(* The framing of src/netbios.rs: a message travels as a type byte, a length  *)
(* of three bytes and the payload.  One call runs at a time and can be        *)
(* dropped by its timeout whenever it waits for the socket; what it has read  *)
(* or written of a frame by then is gone.                                     *)
(*                                                                            *)
(* Both directions are sequences of bytes, so that a reader that is out of    *)
(* step reads payload for headers as the code does.                           *)
EXTENDS Naturals, Sequences, SequencesExt

CONSTANTS Base,         \* number of values of a byte
          MaxFrame,     \* MAX_FRAME_LENGTH
          FrameType,    \* FrameType::try_from: the type a byte stands for
          SessionData,  \* the 68 bytes of a session request
          ServerFrames, \* external: frames the server may send
          Messages,     \* messages the client may send
          MaxSent,      \* bound: frames sent, in each direction
          MaxDrops      \* bound: calls dropped

Bytes == 0..(Base - 1)
FrameTypes == {"Message", "SessionRequest", "PositiveResponse",
               "NegativeResponse", "Retarget", "Keepalive"}

\* As long as the three bytes of a length can say.
Frames == [type : Bytes, data : {d \in Seq(Bytes) : Len(d) < Base * Base * Base}]

ASSUME NetBiosAssumption ==
    /\ Base \in Nat \ {0, 1}
    /\ MaxFrame \in Nat /\ MaxFrame < Base * Base * Base
    /\ FrameType \in [Bytes -> FrameTypes \cup {"invalid"}]
    /\ \A t \in FrameTypes : \E b \in Bytes : FrameType[b] = t
    /\ SessionData \in Seq(Bytes) /\ Len(SessionData) < Base * Base * Base
    /\ ServerFrames \subseteq Frames
    /\ Messages \subseteq Seq(Bytes)
    /\ MaxSent \in Nat /\ MaxDrops \in Nat

VARIABLES
    pc,       \* "closed", "idle", or the call under way
    got,      \* the bytes that recv has read of a frame
    out,      \* the bytes that write_exactly has still to write
    given,    \* messages that recv_message has returned
    ret,      \* how the last call ended
    down,     \* bytes from the server that are not read yet
    up,       \* bytes that the server has been sent
    open,     \* external: whether the server keeps the connection open
    sent,     \* frames that the server has sent, ...
    taken,    \* ... and how many of them the client has read, while in step
    asked,    \* frames that the client has sent, or is writing
    drops,    \* calls dropped
    readCut,  \* whether a call ended within a frame it was reading, ...
    writeCut  \* ... or writing

client == <<pc, got, out, given, ret>>
ghosts == <<sent, taken, asked, drops, readCut, writeCut>>
vars == <<client, down, up, open, ghosts>>

TypeByte(t) == CHOOSE b \in Bytes : FrameType[b] = t

\* The three bytes of a length, the highest first.
LengthBytes(n) == <<((n \div Base) \div Base) % Base, (n \div Base) % Base, n % Base>>

Writing == pc \in {"request", "send"}
Reading == pc \in {"session", "recv"}
Opening == pc \in {"request", "session"}

\* Fault: the highest three of its four bytes.
EncodeHigh(frame) ==
    <<frame.type>> \o LengthBytes(Len(frame.data) \div Base) \o frame.data

Encode(frame) == <<frame.type>> \o LengthBytes(Len(frame.data)) \o frame.data

Init == /\ pc = "closed" /\ got = <<>> /\ out = <<>> /\ given = <<>> /\ ret = "none"
        /\ down = <<>> /\ up = <<>> /\ open = TRUE
        /\ sent = <<>> /\ taken = 0 /\ asked = <<>> /\ drops = 0
        /\ readCut = FALSE /\ writeCut = FALSE

-----------------------------------------------------------------------------
(* Calls *)

\* A call that opens a connection leaves none when it fails.
End(how) == /\ pc' = IF Opening /\ how # "ok" THEN "closed" ELSE "idle"
            /\ got' = <<>> /\ out' = <<>> /\ ret' = how
            /\ UNCHANGED given

BeginWrite(call, frame) ==
    /\ pc' = call /\ out' = Encode(frame) /\ ret' = "none"
    /\ asked' = Append(asked, frame)
    /\ UNCHANGED <<got, given, down, up, open, sent, taken, drops, readCut, writeCut>>

\* open: a connection to port 445, ...
OpenRaw == /\ pc = "closed" /\ ret = "none"
           /\ End("ok")
           /\ UNCHANGED <<down, up, open, ghosts>>

\* ... or to port 139, where a session is asked for: create_session.
OpenSession ==
    /\ pc = "closed" /\ ret = "none"
    /\ BeginWrite("request", [type |-> TypeByte("SessionRequest"), data |-> SessionData])

\* Frame::encode refuses a message that is too long before anything is written.
SendMessage(msg) ==
    /\ pc = "idle" /\ Len(asked) < MaxSent
    /\ \/ /\ Len(msg) <= MaxFrame
          /\ BeginWrite("send", [type |-> TypeByte("Message"), data |-> msg])
       \/ /\ Len(msg) > MaxFrame
          /\ End("invalid")
          /\ UNCHANGED <<down, up, open, ghosts>>

RecvMessage == /\ pc = "idle"
               /\ pc' = "recv" /\ ret' = "none"
               /\ UNCHANGED <<got, out, given, down, up, open, ghosts>>

\* The frame being written, if it is cut off where it stands.
CutWrite == LET frame == Encode(asked[Len(asked)])
            IN IF ~Writing THEN UNCHANGED <<asked, writeCut>>
               ELSE IF out = frame THEN asked' = Front(asked) /\ UNCHANGED writeCut
               ELSE writeCut' = TRUE /\ UNCHANGED asked

\* A call is dropped while it waits for the socket.
Drop == /\ Writing \/ Reading
        /\ drops < MaxDrops /\ drops' = drops + 1
        /\ End("timeout")
        /\ CutWrite
        /\ readCut' = (readCut \/ got # <<>>)
        /\ UNCHANGED <<down, up, open, sent, taken>>

-----------------------------------------------------------------------------
(* send: write_exactly *)

\* The socket takes some of the bytes, perhaps all.
Write == /\ Writing /\ open
         /\ \E n \in 1..Len(out) :
              /\ up' = up \o SubSeq(out, 1, n)
              /\ \/ /\ n < Len(out)
                    /\ out' = SubSeq(out, n + 1, Len(out))
                    /\ UNCHANGED <<pc, got, given, ret>>
                 \/ /\ n = Len(out) /\ pc = "send"
                    /\ End("ok")
                 \/ /\ n = Len(out) /\ pc = "request"
                    /\ pc' = "session" /\ out' = <<>>
                    /\ UNCHANGED <<got, given, ret>>
         /\ UNCHANGED <<down, open, ghosts>>

WriteFails == /\ Writing /\ ~open
              /\ End("error")
              /\ CutWrite
              /\ UNCHANGED <<down, up, open, sent, taken, drops, readCut>>

-----------------------------------------------------------------------------
(* recv *)

\* The length as the header gives it.
FrameLength == (got[2] * Base + got[3]) * Base + got[4]

\* Fault: a frame may have any length.
TooBigNever == FALSE

TooBig == Len(got) = 4 /\ FrameLength > MaxFrame

\* Fault: the payload ends a byte early.
CompleteEarly == Len(got) >= 4 /\ FrameLength <= MaxFrame /\ Len(got) + 1 >= 4 + FrameLength

Complete == Len(got) >= 4 /\ FrameLength <= MaxFrame /\ Len(got) = 4 + FrameLength

Read == /\ Reading /\ ~TooBig /\ ~Complete /\ down # <<>>
        /\ got' = Append(got, Head(down))
        /\ down' = Tail(down)
        /\ UNCHANGED <<pc, out, given, ret, up, open, ghosts>>

\* The payload is left where it is.
RefuseLength == /\ Reading /\ TooBig
                /\ End("toobig")
                /\ readCut' = TRUE
                /\ UNCHANGED <<down, up, open, sent, taken, asked, drops, writeCut>>

\* Fault: the end of the stream within a payload goes unnoticed.
ReadFailsInHeader == /\ Reading /\ ~TooBig /\ ~Complete /\ down = <<>> /\ ~open
                     /\ Len(got) < 4
                     /\ End("eof")
                     /\ readCut' = (readCut \/ got # <<>>)
                     /\ UNCHANGED <<down, up, open, sent, taken, asked, drops, writeCut>>

ReadFails == /\ Reading /\ ~TooBig /\ ~Complete /\ down = <<>> /\ ~open
             /\ End("eof")
             /\ readCut' = (readCut \/ got # <<>>)
             /\ UNCHANGED <<down, up, open, sent, taken, asked, drops, writeCut>>

\* Frame::new on the bytes read.
Payload == SubSeq(got, 5, Len(got))
Kind == LET t == FrameType[got[1]]
        IN IF \/ t \in {"PositiveResponse", "Keepalive"} /\ Payload # <<>>
              \/ t = "NegativeResponse" /\ Len(Payload) # 1
              \/ t = "Retarget" /\ Len(Payload) # 6
           THEN "invalid" ELSE t

\* create_session takes one frame, and only that.
SessionFrame == End(IF Kind = "PositiveResponse" THEN "ok" ELSE "refused")

\* recv_message: keepalives are passed over.
MessageFrame ==
    \/ /\ Kind = "Message"
       /\ given' = Append(given, Payload)
       /\ pc' = "idle" /\ got' = <<>> /\ ret' = "ok" /\ UNCHANGED out
    \/ /\ Kind = "Keepalive"
       /\ got' = <<>> /\ UNCHANGED <<pc, out, given, ret>>
    \/ /\ Kind \notin {"Message", "Keepalive"}
       /\ End("unexpected")

\* A frame is there; while in step, it is the next one that the server sent.
TakeFrame == /\ Reading /\ Complete
             /\ IF pc = "session" THEN SessionFrame ELSE MessageFrame
             /\ taken' = IF readCut THEN taken ELSE taken + 1
             /\ UNCHANGED <<down, up, open, sent, asked, drops, readCut, writeCut>>

-----------------------------------------------------------------------------
(* The server *)

ServerSends == /\ open /\ pc # "closed" /\ Len(sent) < MaxSent
               /\ \E frame \in ServerFrames :
                    /\ down' = down \o Encode(frame)
                    /\ sent' = Append(sent, frame)
               /\ UNCHANGED <<client, up, open, taken, asked, drops, readCut, writeCut>>

ServerCloses == /\ open /\ open' = FALSE
                /\ UNCHANGED <<client, down, up, ghosts>>

-----------------------------------------------------------------------------
Progress == Write \/ WriteFails \/ Read \/ RefuseLength \/ ReadFails \/ TakeFrame

Next == \/ OpenRaw \/ OpenSession
        \/ \E msg \in Messages : SendMessage(msg)
        \/ RecvMessage
        \/ Drop
        \/ Progress
        \/ ServerSends \/ ServerCloses

Spec == Init /\ [][Next]_vars

\* The executor polls the call under way, and a server does not stay for ever.
FairSpec == Spec /\ WF_vars(Progress) /\ WF_vars(ServerCloses)
=============================================================================
