----------------------------- MODULE SetupProps -----------------------------
(* What the set-up of a connection and its messages promise.                  *)
EXTENDS Setup
-----------------------------------------------------------------------------
(* How a receiver reads a body: lengths and positions are taken from the      *)
(* words, positions count from the header, and text begins at an even one.    *)

Val(body, name) ==
    body.words[CHOOSE i \in DOMAIN body.words : body.words[i].is = name].val
Has(body, name) == \E i \in DOMAIN body.words : body.words[i].is = name

Start(body) == HeaderLen + 1 + 2 * body.wordCount + 2
NextEven(body, pos) == pos + ((Start(body) + pos) % 2)

\* What is found at a position: of a given length, or as far as its end.
FoundOf(fields, pos, len) ==
    <<IF \E i \in DOMAIN fields : Begins(fields, i) = pos /\ fields[i].len = len
      THEN fields[CHOOSE i \in DOMAIN fields : Begins(fields, i) = pos /\ fields[i].len = len].is
      ELSE "garbage", len>>
FoundAt(fields, pos) ==
    IF \E i \in DOMAIN fields : Begins(fields, i) = pos
    THEN LET i == CHOOSE i \in DOMAIN fields : Begins(fields, i) = pos
         IN  <<fields[i].is, fields[i].len>>
    ELSE <<"garbage", 0>>

SeenSetup(body) ==
    IF Has(body, "blob") THEN {FoundOf(body.data, 0, Val(body, "blob"))}
    ELSE LET oem == Val(body, "oem_secret")
             uni == Val(body, "unicode_secret")
             user == FoundAt(body.data, NextEven(body, oem + uni))
         IN  {FoundOf(body.data, 0, oem), FoundOf(body.data, oem, uni), user,
              FoundAt(body.data, NextEven(body, oem + uni) + user[2])}

SeenTree(body, uni) ==
    LET len == Val(body, "password") IN
    {FoundOf(body.data, 0, len), FoundAt(body.data, IF uni THEN NextEven(body, len) ELSE len)}

SeenTransact2(body) ==
    {FoundOf(body.data, Val(body, name[2]) - Start(body), Val(body, name[1]))
        : name \in {<<"parameter_count", "parameter_offset">>} \cup
                   {n \in {<<"data_count", "data_offset">>} : Val(body, n[1]) > 0}}

SeenRead(body) ==
    {<<"offset", Val(body, "offset_low") + Half * Half * Val(body, "offset_high")>>,
     <<"count", Val(body, "count_low") + Half * Val(body, "count_high")>>}

Seen(body, uni) == CASE body.cmd = "SessionSetup" -> SeenSetup(body)
                     [] body.cmd = "TreeConnect" -> SeenTree(body, uni)
                     [] body.cmd = "Create" -> {FoundOf(body.data, NextEven(body, 0),
                                                        Val(body, "name"))}
                     [] body.cmd = "Transact2" -> SeenTransact2(body)
                     [] body.cmd = "Read" -> SeenRead(body)
                     [] OTHER -> {}

\* The words of each request in the protocol.
Words == [Negotiate |-> {0}, SessionSetup |-> {12, 13}, TreeConnect |-> {4},
          TreeDisconnect |-> {0}, Create |-> {24}, Close |-> {3}, Read |-> {12},
          Transact2 |-> {15}]

PacketReadable(packet) ==
    \A b \in packet.buffers : b.len > 0 => FoundOf(packet.bytes, b.pos, b.len) = <<b.is, b.len>>
-----------------------------------------------------------------------------
(* Every request has the number of words its command has, which is also what  *)
(* its count of words says; and a receiver that follows its lengths and       *)
(* positions finds each name, secret, packet, offset and count that was put   *)
(* in, whatever the lengths.  Text of a session set-up is for servers that    *)
(* announced Unicode.                                                         *)
RequestsReadable ==
    request # None =>
        LET body == request.body IN
        /\ body.wordCount \in Words[body.cmd]
        /\ 2 * body.wordCount = Size(body.words)
        /\ Seen(body, request.unicode) = request.meant
        /\ request.packet # None => PacketReadable(request.packet)

(* A request that is out carries the uid the server has granted on this       *)
(* connection, and none before that; one that is waited for while an answer   *)
(* is on its way was sent before.                                             *)
UidGranted ==
    request # None => request.uid \in {0, server.uid}
                      /\ (reply = None => request.uid = server.uid)

(* A secret answers the challenge that the server gave out on this            *)
(* connection, in the form it announced; and the connection is open only for  *)
(* a uid.                                                                     *)
AnswersChallenge ==
    /\ request # None /\ request.secret # None =>
          request.secret = [form |-> IF server.extended THEN "v2" ELSE "v1",
                            of |-> server.challenge]
    /\ pc = "open" => uid = server.uid /\ uid # 0 /\ server.challenge # None

(* What an error says of itself agrees with what has happened, at whatever    *)
(* point and in whatever layer: a connection that is over is lost, whether    *)
(* it ended between two frames, within one or in the session exchange; a      *)
(* timeout is no loss, be it the caller's or the system's; a socket that      *)
(* failed, like the two, is worth another try; and what the server or the     *)
(* client refused is none of it.                                              *)
ErrorsClassified ==
    pc = "failed" =>
        LET e == ret.error IN
        /\ e \in Errors
        /\ IsRetryable(e) <=> ret.cause \in {"over", "stalled", "socket", "late"}
        /\ IsTimeout(e) <=> ret.cause \in {"stalled", "late"}
        /\ IsConnectionLost(e) <=> ret.cause = "over"

(* A set-up ends, however the server answers: it is two messages or three.    *)
OpenEnds == Opening ~> ~Opening
-----------------------------------------------------------------------------
(* The inductive invariant: for every stage of the set-up, what is known of   *)
(* the connection on either side.                                             *)

\* A reply that is taken for one to a request of this command.
Taken(cmd) == reply # None /\ FormFaults(cmd, reply) = {}

Waits(cmd) == request.body.cmd = cmd /\ request.uid = uid

Stages == {"closed", "connecting", "negotiating", "logging on", "challenged", "responding",
           "open", "failed", "panicked"}

ServerType == server \in [extended : BOOLEAN, unicode : BOOLEAN,
                          challenge : Challenges \cup {None}, uid : Uids \cup {0}]

Apart == pc \in {"closed", "connecting", "failed", "panicked"} =>
            request = None /\ reply = None /\ uid = 0 /\ server = NoServer

Negotiating == pc = "negotiating" =>
    /\ Waits("Negotiate") /\ uid = 0 /\ request.secret = None
    /\ server.uid = 0
    /\ reply = None => server = NoServer
    /\ Taken("Negotiate") => /\ reply.body.challenge \in Challenges
                             /\ server.extended = reply.body.extended
                             /\ server.challenge = IF server.extended THEN None
                                                   ELSE reply.body.challenge

\* The server has granted the uid of the reply, and not another before.
Granting == /\ Waits("SessionSetup") /\ uid = 0
            /\ reply = None => server.uid = 0
            /\ Taken("SessionSetup") => reply.uid = server.uid /\ server.uid # 0

LoggingOn == pc = "logging on" =>
    /\ Granting
    /\ ~server.extended /\ server.challenge \in Challenges
    /\ request.secret = [form |-> "v1", of |-> server.challenge]

Challenged == pc = "challenged" =>
    /\ Granting
    /\ server.extended /\ request.secret = None
    /\ reply = None => server.challenge = None
    /\ Taken("SessionSetup") => /\ server.challenge \in Challenges
                                /\ server.challenge = reply.body.blob.challenge

Responding == pc = "responding" =>
    /\ Waits("SessionSetup") /\ uid = server.uid /\ uid # 0
    /\ server.extended /\ server.challenge \in Challenges
    /\ request.secret = [form |-> "v2", of |-> server.challenge]

LoggedOn == pc = "open" =>
    /\ uid = server.uid /\ uid # 0 /\ server.challenge \in Challenges
    /\ reply = None
    /\ request # None => request.uid = uid /\ request.secret = None

\* Lengths are numbers, those that the caller gives and those that come with a
\* challenge; whoever writes text knows in which form.
Credentials == [user : Nat, domain : Nat, workstation : Nat]

Lengths == /\ auth \in Credentials /\ unicode \in BOOLEAN
           /\ pc = "negotiating" /\ Taken("Negotiate") => reply.body.unicode \in BOOLEAN
           /\ pc = "challenged" /\ Taken("SessionSetup") =>
                 reply.body.blob.info \in Nat /\ reply.body.blob.unicode \in BOOLEAN

IInv == /\ pc \in Stages /\ ServerType
        /\ Apart /\ Negotiating /\ LoggingOn /\ Challenged /\ Responding /\ LoggedOn
=============================================================================
