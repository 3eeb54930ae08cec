-------------------------------- MODULE Setup --------------------------------
(* Setting up a connection (Cifs::open, src/lib.rs): Negotiate, then one or   *)
(* two session set-ups, as the server announced; then the requests of a       *)
(* client that is logged on.  The headers of what is sent are here, the       *)
(* bodies in module Messages, the errors in module Errors.                    *)
(*                                                                            *)
(* From module Cifs: a reply that is taken is one to the request waited for.  *)
(* What a reply says of its own form (a header that is none, a body that ends *)
(* too early) is kept as far as the code looks at it.                         *)
EXTENDS Messages, Errors

CONSTANTS
    Auths,          \* external: credentials (lengths of the texts), or None
    HostLen,        \* external: length of the host name
    Uids,           \* external: the user ids of the server, none of them 0
    Challenges,     \* external: what the server asks the client to encrypt
    Infos,          \* external: lengths of the information in a challenge
    Paths,          \* external: lengths of paths and passwords
    Reads,          \* external: offsets and counts of reads
    Half,           \* half a word of 32 bits: 2^16
    MaxRequests,    \* bound: requests of a connection
    None

ASSUME SetupAssumption ==
    /\ 0 \notin Uids
    /\ HostLen \in Nat /\ Infos \subseteq Nat /\ Paths \subseteq Nat
    /\ Auths \subseteq [user : Nat, domain : Nat, workstation : Nat]
    /\ Reads \subseteq Nat \X (0 .. Half * Half - 1)
    /\ Half \in Nat \ {0} /\ MaxRequests \in Nat
    /\ None \notin Challenges /\ Challenges # {} /\ Infos # {}

VARIABLES
    pc,             \* where the set-up stands
    auth,           \* the credentials
    timed,          \* whether the caller set a timeout
    uid, unicode,   \* Cifs::uid and use_unicode
    mid,            \* Cifs::mid
    request,        \* the request waited for, or None
    reply,          \* the reply on its way, or None
    ret,            \* how Cifs::open ended: the error and its cause
    server          \* external: what the server has announced and granted

client == <<pc, auth, timed, uid, unicode, mid, ret>>
vars == <<client, request, reply, server>>

NoServer == [extended |-> FALSE, unicode |-> FALSE, challenge |-> None, uid |-> 0]

Returned(error, cause) == [error |-> error, cause |-> cause]
Done == Returned(None, "none")

\* The credentials when the caller gives none: an empty name, "ANONYMOUS".
Anonymous == [user |-> 0, domain |-> HostLen, workstation |-> 9]

Init == /\ pc = "closed"
        /\ auth = Anonymous
        /\ timed = FALSE
        /\ uid = 0 /\ unicode = TRUE /\ mid = 0
        /\ request = None /\ reply = None
        /\ ret = Done
        /\ server = NoServer

\* A set-up that fails drops the connection and all that was known of it.
Forget == /\ auth' = Anonymous
          /\ timed' = FALSE
          /\ uid' = 0 /\ unicode' = TRUE /\ mid' = 0
          /\ request' = None /\ reply' = None
          /\ server' = NoServer

Ends(error, cause) == /\ pc' = IF error.layer = "panic" THEN "panicked" ELSE "failed"
                      /\ ret' = Returned(error, cause)
                      /\ Forget
-----------------------------------------------------------------------------
(* Sending.  A request is its header, its body, the NTLM packet in it, the    *)
(* challenge it answers and with what, and what its receiver is to find in    *)
(* it.  mid goes up whether or not the body can be written.                   *)

Request(body, u, uni) == [mid |-> mid, uid |-> u, unicode |-> uni, body |-> Written(body),
                          packet |-> None, secret |-> None, meant |-> {}]

Sends(r, then) == \/ /\ Fits(r.body)
                     /\ pc' = then
                     /\ request' = r /\ reply' = None
                     /\ mid' = mid + 1 /\ uid' = r.uid /\ unicode' = r.unicode
                     /\ UNCHANGED <<auth, timed, ret, server>>
                  \/ /\ ~Fits(r.body)
                     /\ Ends(Error("smb", "CreatePacket"), "size")

Connect(a, t) == /\ pc = "closed"
                 /\ pc' = "connecting"
                 /\ auth' = IF a = None THEN Anonymous ELSE a
                 /\ timed' = t
                 /\ UNCHANGED <<uid, unicode, mid, request, reply, ret, server>>

\* NetBios::open has returned: the first message of a connection.
SendNegotiate == /\ pc = "connecting"
                 /\ Sends(Request(Negotiate, uid, unicode), "negotiating")
-----------------------------------------------------------------------------
(* What a reply is checked for, in the order of the code; the first check it  *)
(* fails is the error.  A read beyond the end of a buffer is a panic.         *)

Panic(where) == Error("panic", where)

\* A check is the set of its error, or of none; of some the first to fail counts.
If(failing, error) == IF failing THEN {error} ELSE {}
Failing(checks) == {i \in DOMAIN checks : checks[i] # {}}
FirstOf(checks) ==
    IF Failing(checks) = {} THEN {}
    ELSE checks[CHOOSE i \in Failing(checks) : \A j \in Failing(checks) : i <= j]

\* Info::parse.
InfoChecks(f) == << If(f.header \in {"short", "magic"}, Error("smb", "InvalidHeader")),
                    If(f.header = "command", Error("smb", "InvalidCommand")),
                    If(f.header = "request", Error("smb", "ReplyExpected")) >>

\* Cifs::parse_reply and Reply::parse.
ReplyChecks(cmd, f) ==
    << If(f.cmd # cmd, Error("own", "UnexpectedReply")),
       If(/\ f.status # "SUCCESS"
          /\ ~(f.status = "MORE_PROCESSING" /\ cmd = "SessionSetup"),
          Error("own", "ServerError")),
       If(~f.whole, Panic("body")),
       If(cmd = "SessionSetup" /\ f.chained, Error("smb", "Unsupported")) >>

\* ServerSetup::create: seventeen words are 34 bytes.
ServerSetupChecks(b) ==
    << If(b.words < 17, Error("smb", "Unsupported")),
       If(b.dialect = "none", Error("smb", "NoDialect")),
       If(b.dialect = "other", Error("smb", "InvalidHeader")),
       If(b.words < 34, Panic("words")),
       If(b.data < b.challengeLen, Error("smb", "InvalidData")) >>

\* What log-on makes of a sound server set-up: des_oneshot takes 8 bytes only.
LogOnChecks(b) == << If(~b.extended /\ b.challengeLen # 8, Panic("challenge")),
                     If(b.extended /\ ~PacketFits(InitPacket(auth)),
                        Error("ntlm", "InputParameter")) >>

\* SessionSetup::create: four bytes of AndX, the action and the blob's length.
BlobLen(b) == IF b.words >= 8 THEN b.blob.len ELSE 0
SessionSetupChecks(b) == << If(b.words < 6, Panic("words")),
                            If(b.cut /\ BlobLen(b) > 0, Panic("blob")) >>

\* ChallengeMsg::parse: the fixed part of a challenge has 48 bytes.
ChallengeChecks(len, blob) ==
    << If(len < 8, Panic("magic")),
       If(blob.form = "magic", Error("ntlm", "InvalidPacket")),
       If(len < 12, Panic("type")),
       If(blob.form = "type", Error("ntlm", "InvalidPacket")),
       If(len < 48 \/ blob.form = "outside", Panic("buffer")),
       If(blob.form = "undecodable", Error("ntlm", "InvalidPacket")) >>

ResponseChecks(blob) == << If(~PacketFits(ResponsePacket(auth, blob)),
                              Error("ntlm", "InputParameter")) >>

Command == [p \in {"negotiating", "logging on", "challenged", "responding"} |->
              IF p = "negotiating" THEN "Negotiate" ELSE "SessionSetup"]

FormFaults(cmd, f) == FirstOf(<<FirstOf(InfoChecks(f)), FirstOf(ReplyChecks(cmd, f))>>)

BodyFaults(b) ==
    CASE pc = "negotiating" -> FirstOf(ServerSetupChecks(b) \o LogOnChecks(b))
      [] pc = "challenged" -> FirstOf(SessionSetupChecks(b)
                                  \o ChallengeChecks(BlobLen(b), b.blob) \o ResponseChecks(b.blob))
      [] OTHER -> FirstOf(SessionSetupChecks(b))

Answered == pc \in DOMAIN Command /\ reply # None

\* The error of a reply, or none; the body is read if the form is right.
Faults == IF FormFaults(Command[pc], reply) # {} THEN FormFaults(Command[pc], reply)
          ELSE BodyFaults(reply.body)
-----------------------------------------------------------------------------
(* Taking a reply.                                                            *)

\* Fault: a reply that cannot be taken is skipped.
Skip(fault) == /\ reply' = None
               /\ UNCHANGED <<client, request, server>>

Refuse(fault) == Ends(fault, "answer")

\* authenticate_ntlm: what the caller knows, encrypted with the challenge.
LogOnRequest(b) == [Request(SetupWithAuth(auth, b.unicode), uid, b.unicode) EXCEPT
                       !.secret = [form |-> "v1", of |-> b.challenge],
                       !.meant = {<<"secret", Secret>>, <<"user", Utf16Nul(auth.user)>>,
                                  <<"domain", Utf16Nul(auth.domain)>>}]
\* Fault: the old way to log on, whatever the server announced.
LogOnAnyhow == /\ pc = "negotiating"
               /\ \E r \in {LogOnRequest(reply.body)} : Sends(r, "logging on")

LogOn == /\ pc = "negotiating" /\ ~reply.body.extended
         /\ \E r \in {LogOnRequest(reply.body)} : Sends(r, "logging on")

BlobRequest(packet, u, uni) ==
    [Request(SetupWithBlob(packet, uni), u, uni) EXCEPT
        !.packet = packet, !.meant = {<<"blob", Size(packet.bytes)>>}]

\* authenticate_ntlmv2, its first message.
AskChallenge == /\ pc = "negotiating" /\ reply.body.extended
                /\ \E packet \in {InitPacket(auth)} :
                   \E r \in {BlobRequest(packet, uid, reply.body.unicode)} :
                      Sends(r, "challenged")

\* Fault: the uid is taken from the last reply only.
RespondAsNobody == /\ pc = "challenged"
                   /\ LET blob == reply.body.blob IN
                      \E packet \in {ResponsePacket(auth, blob)} :
                      \E r \in {BlobRequest(packet, uid, unicode)} :
                         Sends([r EXCEPT !.secret = [form |-> "v2", of |-> blob.challenge]],
                               "responding")

\* Its second message, for the uid that came with the challenge.
Respond == /\ pc = "challenged"
           /\ LET blob == reply.body.blob IN
              \E packet \in {ResponsePacket(auth, blob)} :
              \E r \in {BlobRequest(packet, reply.uid, unicode)} :
                 Sends([r EXCEPT !.secret = [form |-> "v2", of |-> blob.challenge]],
                       "responding")

\* The reply to the last message.  Only authenticate_ntlm takes its uid.
Opened == /\ pc \in {"logging on", "responding"}
          /\ uid' = IF pc = "logging on" THEN reply.uid ELSE uid
          /\ pc' = "open"
          /\ request' = None /\ reply' = None
          /\ UNCHANGED <<auth, timed, unicode, mid, ret, server>>

Take == /\ Answered
        /\ \E faults \in {Faults} :
              \/ \E fault \in faults : Refuse(fault)
              \/ faults = {} /\ (LogOn \/ AskChallenge \/ Respond \/ Opened)
-----------------------------------------------------------------------------
(* Ways to end without a reply: the socket fails, what comes is no frame, the *)
(* caller's timeout fires.  The socket may fail in every way the system knows *)
(* of, at every point: the connection is over (closed by the peer between two *)
(* frames, or within one, reset, or gone), the system has given up waiting,   *)
(* or anything else is the matter.                                            *)

Opening == pc = "connecting" \/ pc \in DOMAIN Command

Ended == {"UnexpectedEof", "ConnectionReset", "ConnectionAborted", "BrokenPipe",
          "NotConnected"}
Stalled == {"TimedOut", "WouldBlock"}

\* How the socket may fail, by what has happened to the connection.
SocketErrors == [over |-> {Error("io", k) : k \in Ended} \cup {Error("netbios", "UnexpectedEOF")},
                 stalled |-> {Error("io", k) : k \in Stalled},
                 socket |-> {Error("io", k) : k \in IoKinds \ (Ended \cup Stalled)}]

\* What Frame::new and NetBios::recv refuse of what has come.
FrameErrors == {Error("netbios", w) : w \in {"InvalidFrame", "InvalidFrameType", "FrameTooBig"}}

Breaks(errors, cause) == \E e \in errors : Ends(e, cause)

SocketFails == \E cause \in DOMAIN SocketErrors : Breaks(SocketErrors[cause], cause)

\* NetBios::open, with the session exchange of port 139.
Unreachable == /\ pc = "connecting"
               /\ \/ SocketFails
                  \/ Breaks(FrameErrors \cup {Error("netbios", "CreateSession")}, "frame")

\* A request cannot be sent, or its reply not received.
Lost == /\ pc \in DOMAIN Command
        /\ \/ SocketFails
           \/ Breaks(FrameErrors \cup {Error("netbios", "UnexpectedFrame")}, "frame")

TimesOut == /\ Opening /\ timed
            /\ Breaks({Error("own", "Timeout")}, "late")
-----------------------------------------------------------------------------
(* A client that is logged on.  The reply to a request matters only in that   *)
(* the next one waits for it.                                                 *)

Bodies(uni) ==
    {[body |-> TreeConnect(p, w, uni),
      meant |-> {<<"path", IF uni THEN Utf16Nul(p) ELSE p + 1>>,
                 <<"password", IF w = 0 THEN 1 ELSE w>>}] : p \in Paths, w \in Paths}
    \cup {[body |-> Open(p), meant |-> {<<"name", Utf16Nul(p)>>}] : p \in Paths}
    \cup {[body |-> Read(r[1], r[2], Half), meant |-> {<<"offset", r[1]>>, <<"count", r[2]>>}]
              : r \in Reads}
    \cup {[body |-> FindRequest(p), meant |-> {<<"parameter", 12 + Utf16Nul(p)>>}]
              : p \in Paths}
    \cup {[body |-> b, meant |-> {}] : b \in {Close, TreeDisconnect}}

Ask == /\ pc = "open" /\ request = None /\ mid < MaxRequests
       /\ mid' = mid + 1
       /\ \E b \in Bodies(unicode) :
             request' = IF Fits(b.body)
                        THEN [Request(b.body, uid, unicode) EXCEPT !.meant = b.meant] ELSE None
       /\ UNCHANGED <<pc, auth, timed, uid, unicode, reply, ret, server>>

Served == /\ pc = "open" /\ request # None
          /\ request' = None
          /\ UNCHANGED <<client, reply, server>>
-----------------------------------------------------------------------------
(* External: the server.                                                      *)

Sound(cmd, status, u, body) == [header |-> "sound", cmd |-> cmd, status |-> status, uid |-> u,
                                whole |-> TRUE, chained |-> FALSE, body |-> body]

\* Of every kind of answer the sound ones, and one with each fault.
But(answers, field, values) ==
    LET one == CHOOSE a \in answers : TRUE IN {[one EXCEPT ![field] = v] : v \in values}

SoundSetups ==
    [words : {34}, dialect : {"NT LM 0.12"}, extended : BOOLEAN, unicode : BOOLEAN,
     challengeLen : {0, 8}, data : {8}, challenge : Challenges]
ServerSetups == SoundSetups \cup But(SoundSetups, "words", {2, 20})
                    \cup But(SoundSetups, "dialect", {"none", "other"})
                    \cup But({b \in SoundSetups : b.challengeLen = 8}, "data", {0})

SoundBlobs == [len : {48}, form : {"challenge"}, info : Infos, unicode : BOOLEAN,
               challenge : Challenges]
Blobs == SoundBlobs \cup But(SoundBlobs, "len", {0, 8, 12})
             \cup But(SoundBlobs, "form", {"magic", "type", "outside", "undecodable"})

\* Answers that carry a challenge, or should, and those that end a log-on.
ChallengeReplies == [words : {8}, cut : {FALSE}, blob : Blobs]
                    \cup [words : {4, 6, 8}, cut : BOOLEAN,
                          blob : But(SoundBlobs, "info", {0})]
FinalReplies == [words : {4, 6, 8}, cut : BOOLEAN, blob : {[len |-> 48]}]

Replies == {Sound("Negotiate", "SUCCESS", 0, b) : b \in ServerSetups}
           \cup {Sound("SessionSetup", s, u, b) : s \in {"SUCCESS", "MORE_PROCESSING"},
                    u \in Uids, b \in ChallengeReplies \cup FinalReplies}

ASSUME NoneIsNoReply == None \notin Replies

Owes(cmd) == Opening /\ request # None /\ reply = None /\ request.body.cmd = cmd

AnswerNegotiate ==
    /\ Owes("Negotiate")
    /\ \E b \in ServerSetups :
         /\ reply' = Sound("Negotiate", "SUCCESS", 0, b)
         /\ server' = [server EXCEPT !.extended = b.extended, !.unicode = b.unicode,
                                     !.challenge = IF b.extended THEN None ELSE b.challenge]
    /\ UNCHANGED <<client, request>>

\* The uid is granted with the first answer and stays.
AnswerSession ==
    /\ Owes("SessionSetup")
    /\ \E status \in {"SUCCESS", "MORE_PROCESSING"}, u \in Uids,
          b \in IF server.challenge = None THEN ChallengeReplies ELSE FinalReplies :
         /\ server.uid \in {0, u}
         /\ reply' = Sound("SessionSetup", status, u, b)
         /\ server' = [server EXCEPT !.uid = u,
                                     !.challenge = IF @ = None THEN b.blob.challenge ELSE @]
    /\ UNCHANGED <<client, request>>

\* Refusals, replies that are none, and a reply to something else.
AnswerBadly ==
    /\ Opening /\ request # None /\ reply = None
    /\ LET f == Sound(request.body.cmd, "SUCCESS", server.uid, None)
       IN  reply' \in {[f EXCEPT !.header = h] : h \in {"short", "magic", "command", "request"}}
                      \cup {[f EXCEPT !.status = s] : s \in {"LOGIN_FAILURE", "unknown"}}
                      \cup {[f EXCEPT !.cmd = "Read"], [f EXCEPT !.whole = FALSE],
                            [f EXCEPT !.chained = TRUE, !.cmd = "SessionSetup"]}
    /\ UNCHANGED <<client, request, server>>
-----------------------------------------------------------------------------
Progress == SendNegotiate \/ Take
Server == AnswerNegotiate \/ AnswerSession \/ AnswerBadly
Caller == Ask \/ \E a \in Auths \cup {None}, t \in BOOLEAN : Connect(a, t)

Next == Progress \/ Server \/ Caller \/ Served \/ Unreachable \/ Lost \/ TimesOut

Spec == Init /\ [][Next]_vars

\* The executor polls the call; a server that is reached answers.
FairSpec == Spec /\ WF_vars(Progress) /\ WF_vars(Server)
=============================================================================
