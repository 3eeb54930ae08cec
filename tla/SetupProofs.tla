---------------------------- MODULE SetupProofs ----------------------------
(* Proofs about the set-up of a connection for all credentials, all lengths,  *)
(* all uids and challenges of the server, and whatever it answers.            *)
EXTENDS SetupProps, SequenceTheorems, WellFoundedInduction, TLAPS

-----------------------------------------------------------------------------
(* Checks. *)

\* A set of numbers that is not empty has a least one.
LEMMA LeastNat ==
    ASSUME NEW T \in SUBSET Nat, T # {}
    PROVE  \E n \in T : \A m \in T : n <= m
<1>1. IsWellFoundedOn(OpToRel(<, Nat), Nat)
  BY NatLessThanWellFounded
<1>2. PICK n \in T : \A m \in T : ~(<<m, n>> \in OpToRel(<, Nat))
  BY <1>1, WFMin, Zenon
<1>3. \A m \in T : ~(m < n)
  BY <1>2, Zenon DEF OpToRel
<1> QED BY <1>3

\* The first check that fails is one of the checks.
LEMMA FirstIsOne ==
    ASSUME NEW R, NEW checks \in Seq(SUBSET R)
    PROVE  FirstOf(checks) \in SUBSET R
<1>1. Failing(checks) \in SUBSET Nat /\ \A i \in Failing(checks) : checks[i] \in SUBSET R
  BY DEF Failing
<1>2. CASE Failing(checks) = {}
  BY <1>2 DEF FirstOf
<1>3. CASE Failing(checks) # {}
  <2> DEFINE first == CHOOSE i \in Failing(checks) : \A j \in Failing(checks) : i <= j
  <2>1. first \in Failing(checks)
    BY <1>1, <1>3, LeastNat
  <2>2. FirstOf(checks) = checks[first]
    BY <1>3 DEF FirstOf
  <2> QED BY <1>1, <2>1, <2>2
<1> QED BY <1>2, <1>3

\* A set of positions in a sequence of at most four has a least element.
LEMMA LeastOfFour ==
    ASSUME NEW n \in 1 .. 4, NEW S \in SUBSET (1 .. n), S # {}
    PROVE  \E i \in S : \A j \in S : i <= j
<1>1. CASE 1 \in S
  BY <1>1
<1>2. CASE 1 \notin S /\ 2 \in S
  BY <1>2
<1>3. CASE 1 \notin S /\ 2 \notin S /\ 3 \in S
  BY <1>3
<1>4. CASE 1 \notin S /\ 2 \notin S /\ 3 \notin S
  <2>1. \A i \in S : i = 4
    BY <1>4
  <2>2. PICK i \in S : TRUE
    OBVIOUS
  <2>3. \A j \in S : i <= j
    BY <2>1
  <2> QED BY <2>3
<1> QED BY <1>1, <1>2, <1>3, <1>4

\* None of a few checks fails if the first that fails is none.
LEMMA NoneFails ==
    ASSUME NEW n \in 1 .. 4, NEW checks, DOMAIN checks = 1 .. n, FirstOf(checks) = {}
    PROVE  \A i \in 1 .. n : checks[i] = {}
<1>1. Failing(checks) \in SUBSET (1 .. n) /\ \A i \in Failing(checks) : checks[i] # {}
  BY DEF Failing
<1>2. ASSUME Failing(checks) # {} PROVE FALSE
  <2> DEFINE first == CHOOSE i \in Failing(checks) : \A j \in Failing(checks) : i <= j
  <2>1. first \in Failing(checks)
    BY <1>1, <1>2, LeastOfFour
  <2>2. FirstOf(checks) = checks[first]
    BY <1>2 DEF FirstOf
  <2> QED BY <1>1, <2>1, <2>2
<1> QED BY <1>2 DEF Failing

\* A reply that is taken has the form of one.
LEMMA TakenForm ==
    ASSUME NEW cmd, NEW f, FormFaults(cmd, f) = {}
    PROVE  /\ f.header \notin {"short", "magic", "command", "request"}
           /\ f.cmd = cmd
           /\ f.status \in {"SUCCESS", "MORE_PROCESSING"}
           /\ f.whole
           /\ cmd = "SessionSetup" => ~f.chained
<1>1. FirstOf(InfoChecks(f)) = {} /\ FirstOf(ReplyChecks(cmd, f)) = {}
  <2> DEFINE both == <<FirstOf(InfoChecks(f)), FirstOf(ReplyChecks(cmd, f))>>
  <2>1. DOMAIN both = 1 .. 2 /\ FirstOf(both) = {}
    BY DEF FormFaults
  <2>2. \A i \in 1 .. 2 : both[i] = {}
    BY <2>1, NoneFails, 2 \in 1 .. 4
  <2> QED BY <2>2
<1>2. \A i \in 1 .. 3 : InfoChecks(f)[i] = {}
  <2>1. DOMAIN InfoChecks(f) = 1 .. 3
    BY DEF InfoChecks
  <2> QED BY <1>1, <2>1, NoneFails, 3 \in 1 .. 4
<1>3. \A i \in 1 .. 4 : ReplyChecks(cmd, f)[i] = {}
  <2>1. DOMAIN ReplyChecks(cmd, f) = 1 .. 4
    BY DEF ReplyChecks
  <2> QED BY <1>1, <2>1, NoneFails, 4 \in 1 .. 4
<1>4. f.header \notin {"short", "magic", "command", "request"}
  <2>1. /\ If(f.header \in {"short", "magic"}, Error("smb", "InvalidHeader")) = {}
        /\ If(f.header = "command", Error("smb", "InvalidCommand")) = {}
        /\ If(f.header = "request", Error("smb", "ReplyExpected")) = {}
    BY <1>2 DEF InfoChecks
  <2> QED BY <2>1 DEF If
<1>5. /\ If(f.cmd # cmd, Error("own", "UnexpectedReply")) = {}
      /\ If(/\ f.status # "SUCCESS"
            /\ ~(f.status = "MORE_PROCESSING" /\ cmd = "SessionSetup"),
            Error("own", "ServerError")) = {}
      /\ If(~f.whole, Panic("body")) = {}
      /\ If(cmd = "SessionSetup" /\ f.chained, Error("smb", "Unsupported")) = {}
  <2>1. /\ ReplyChecks(cmd, f)[1] = {} /\ ReplyChecks(cmd, f)[2] = {}
        /\ ReplyChecks(cmd, f)[3] = {} /\ ReplyChecks(cmd, f)[4] = {}
    BY <1>3
  <2> QED BY <2>1, Zenon DEF ReplyChecks
<1> QED BY <1>4, <1>5 DEF If
-----------------------------------------------------------------------------
(* What the server sends. *)

\* Every announcement of a server has a challenge, and so has every answer to
\* the first message of the new way to log on.
LEMMA ChallengesGiven ==
    /\ \A b \in ServerSetups :
          b.challenge \in Challenges /\ b.extended \in BOOLEAN /\ b.unicode \in BOOLEAN
    /\ \A b \in ChallengeReplies :
          b.blob.challenge \in Challenges /\ b.blob.info \in Nat /\ b.blob.unicode \in BOOLEAN
<1>1. PICK c \in Challenges, info \in Infos : TRUE
  BY SetupAssumption
<1>2. ASSUME NEW b \in ServerSetups
      PROVE  b.challenge \in Challenges /\ b.extended \in BOOLEAN /\ b.unicode \in BOOLEAN
  <2> DEFINE Right(s) == /\ s.challenge \in Challenges
                         /\ s.extended \in BOOLEAN /\ s.unicode \in BOOLEAN
             long == {s \in SoundSetups : s.challengeLen = 8}
             one == CHOOSE a \in SoundSetups : TRUE
             two == CHOOSE a \in long : TRUE
  <2>1. [words |-> 34, dialect |-> "NT LM 0.12", extended |-> TRUE, unicode |-> TRUE,
         challengeLen |-> 8, data |-> 8, challenge |-> c] \in long
    BY DEF SoundSetups
  <2>2. one \in SoundSetups /\ two \in SoundSetups
    BY <2>1
  <2>3. \A a \in SoundSetups : \A v :
          /\ Right(a)
          /\ Right([a EXCEPT !["words"] = v])
          /\ Right([a EXCEPT !["dialect"] = v])
          /\ Right([a EXCEPT !["data"] = v])
    BY DEF SoundSetups
  <2>4. \/ b \in SoundSetups
        \/ \E v : b = [one EXCEPT !["words"] = v] \/ b = [one EXCEPT !["dialect"] = v]
                  \/ b = [two EXCEPT !["data"] = v]
    BY DEF ServerSetups, But
  <2>5. Right(b)
    BY <2>2, <2>3, <2>4
  <2> QED BY <2>5
<1>3. ASSUME NEW b \in ChallengeReplies
      PROVE  b.blob.challenge \in Challenges /\ b.blob.info \in Nat /\ b.blob.unicode \in BOOLEAN
  <2> DEFINE Right(s) == /\ s.challenge \in Challenges
                         /\ s.info \in Nat /\ s.unicode \in BOOLEAN
             one == CHOOSE a \in SoundBlobs : TRUE
  <2>1. [len |-> 48, form |-> "challenge", info |-> info, unicode |-> TRUE,
         challenge |-> c] \in SoundBlobs
    BY DEF SoundBlobs
  <2>2. one \in SoundBlobs
    BY <2>1
  <2>3. \A a \in SoundBlobs : \A v :
          /\ Right(a)
          /\ Right([a EXCEPT !["len"] = v])
          /\ Right([a EXCEPT !["form"] = v])
    BY SetupAssumption DEF SoundBlobs
  <2>4. \A a \in SoundBlobs : Right([a EXCEPT !["info"] = 0])
    BY DEF SoundBlobs
  <2>5. \/ b.blob \in SoundBlobs
        \/ \E v : b.blob = [one EXCEPT !["len"] = v] \/ b.blob = [one EXCEPT !["form"] = v]
        \/ b.blob = [one EXCEPT !["info"] = 0]
    BY DEF ChallengeReplies, Blobs, But
  <2>6. Right(b.blob)
    BY <2>2, <2>3, <2>4, <2>5
  <2> QED BY <2>6
<1> QED BY <1>2, <1>3
-----------------------------------------------------------------------------
(* Steps.  One lemma for each way to end, to send and to take an answer.      *)

\* Whatever ends the set-up leaves nothing of the connection.
LEMMA EndsInv ==
    ASSUME NEW error, NEW cause, Ends(error, cause)
    PROVE  IInv'
BY DEF Ends, Forget, NoServer, IInv, Stages, ServerType, Apart, Negotiating, LoggingOn,
       Challenged, Responding, LoggedOn

\* What is sent is as it was to be sent.
LEMMA RequestFields ==
    ASSUME NEW body, NEW u, NEW uni
    PROVE  /\ Request(body, u, uni).body.cmd = body.cmd
           /\ Request(body, u, uni).uid = u
           /\ Request(body, u, uni).secret = None
BY DEF Request, Written

\* The first message.
LEMMA SendNegotiateInv == ASSUME IInv, SendNegotiate PROVE IInv'
<1> DEFINE r == Request(Negotiate, uid, unicode)
<1>1. uid = 0 /\ server = NoServer /\ pc = "connecting"
  BY DEF IInv, Apart, SendNegotiate
<1>2. CASE Ends(Error("smb", "CreatePacket"), "size")
  BY <1>2, EndsInv
<1>3. CASE /\ pc' = "negotiating" /\ request' = r /\ reply' = None
           /\ uid' = r.uid /\ UNCHANGED server
  <2>1. r.body.cmd = "Negotiate" /\ r.uid = uid /\ r.secret = None
    BY RequestFields DEF Negotiate, Body
  <2> QED BY <1>1, <1>3, <2>1
          DEF IInv, Stages, ServerType, Apart, Negotiating, LoggingOn, Challenged,
              Responding, LoggedOn, Waits, Taken, NoServer
<1> QED BY <1>2, <1>3 DEF SendNegotiate, Sends

\* The only message of the old way to log on.
LEMMA LogOnInv == ASSUME IInv, Taken("Negotiate"), LogOn PROVE IInv'
<1> DEFINE r == LogOnRequest(reply.body)
<1>1. /\ pc = "negotiating" /\ uid = 0 /\ server.uid = 0
      /\ ~server.extended /\ server.challenge \in Challenges
      /\ server.challenge = reply.body.challenge
  BY DEF IInv, Negotiating, LogOn
<1>2. CASE Ends(Error("smb", "CreatePacket"), "size")
  BY <1>2, EndsInv
<1>3. CASE /\ pc' = "logging on" /\ request' = r /\ reply' = None
           /\ uid' = r.uid /\ UNCHANGED server
  <2>1. /\ r.body.cmd = "SessionSetup" /\ r.uid = uid
        /\ r.secret = [form |-> "v1", of |-> reply.body.challenge]
    BY DEF LogOnRequest, Request, Written, SetupWithAuth, Body
  <2> QED BY <1>1, <1>3, <2>1
          DEF IInv, Stages, ServerType, Apart, Negotiating, LoggingOn, Challenged,
              Responding, LoggedOn, Granting, Waits, Taken
<1> QED BY <1>2, <1>3 DEF LogOn, Sends

\* The first message of the new way.
LEMMA AskChallengeInv == ASSUME IInv, Taken("Negotiate"), AskChallenge PROVE IInv'
<1>1. /\ pc = "negotiating" /\ uid = 0 /\ server.uid = 0
      /\ server.extended /\ server.challenge = None
  BY DEF IInv, Negotiating, AskChallenge
<1>2. PICK r : /\ Sends(r, "challenged")
               /\ r = BlobRequest(InitPacket(auth), uid, reply.body.unicode)
  BY DEF AskChallenge
<1>3. CASE Ends(Error("smb", "CreatePacket"), "size")
  BY <1>3, EndsInv
<1>4. CASE /\ pc' = "challenged" /\ request' = r /\ reply' = None
           /\ uid' = r.uid /\ UNCHANGED server
  <2>1. r.body.cmd = "SessionSetup" /\ r.uid = uid /\ r.secret = None
    BY <1>2 DEF BlobRequest, Request, Written, SetupWithBlob, Body
  <2> QED BY <1>1, <1>4, <2>1
          DEF IInv, Stages, ServerType, Apart, Negotiating, LoggingOn, Challenged,
              Responding, LoggedOn, Granting, Waits, Taken
<1> QED BY <1>2, <1>3, <1>4 DEF Sends

\* The second message of the new way.
LEMMA RespondInv == ASSUME IInv, Taken("SessionSetup"), Respond PROVE IInv'
<1>1. /\ pc = "challenged" /\ server.uid # 0 /\ reply.uid = server.uid
      /\ server.extended /\ server.challenge \in Challenges
      /\ server.challenge = reply.body.blob.challenge
  BY DEF IInv, Challenged, Granting, Respond
<1>2. PICK packet, q, r :
         /\ q = BlobRequest(packet, reply.uid, unicode)
         /\ r = [q EXCEPT !.secret = [form |-> "v2", of |-> reply.body.blob.challenge]]
         /\ Sends(r, "responding")
  BY DEF Respond
<1>3. CASE Ends(Error("smb", "CreatePacket"), "size")
  BY <1>3, EndsInv
<1>4. CASE /\ pc' = "responding" /\ request' = r /\ reply' = None
           /\ uid' = r.uid /\ UNCHANGED server
  <2>1. /\ r.body.cmd = "SessionSetup" /\ r.uid = reply.uid
        /\ r.secret = [form |-> "v2", of |-> server.challenge]
    BY <1>1, <1>2 DEF BlobRequest, Request, Written, SetupWithBlob, Body
  <2> QED BY <1>1, <1>4, <2>1
          DEF IInv, Stages, ServerType, Apart, Negotiating, LoggingOn, Challenged,
              Responding, LoggedOn, Waits
<1> QED BY <1>2, <1>3, <1>4 DEF Sends

\* The reply that ends the set-up.
LEMMA OpenedInv == ASSUME IInv, Taken("SessionSetup"), Opened PROVE IInv'
<1>1. CASE pc = "logging on"
  BY <1>1 DEF IInv, Stages, ServerType, Apart, Negotiating, LoggingOn, Challenged,
              Responding, LoggedOn, Granting, Opened
<1>2. CASE pc = "responding"
  BY <1>2 DEF IInv, Stages, ServerType, Apart, Negotiating, LoggingOn, Challenged,
              Responding, LoggedOn, Opened
<1> QED BY <1>1, <1>2 DEF Opened

\* A reply is refused, or has the form of one.
LEMMA TakeInv == ASSUME IInv, Take PROVE IInv'
<1>1. CASE \E fault \in Faults : Refuse(fault)
  BY <1>1, EndsInv DEF Refuse
<1>2. CASE Faults = {} /\ (LogOn \/ AskChallenge \/ Respond \/ Opened)
  <2>1. Taken(Command[pc])
    BY <1>2 DEF Take, Answered, Faults, Taken
  <2>2. CASE LogOn \/ AskChallenge
    <3>1. Taken("Negotiate")
      BY <2>1, <2>2 DEF LogOn, AskChallenge, Command
    <3> QED BY <2>2, <3>1, LogOnInv, AskChallengeInv
  <2>3. CASE Respond \/ Opened
    <3>1. Taken("SessionSetup")
      BY <2>1, <2>3 DEF Respond, Opened, Command
    <3> QED BY <2>3, <3>1, RespondInv, OpenedInv
  <2> QED BY <1>2, <2>2, <2>3
<1> QED BY <1>1, <1>2 DEF Take

\* The server announces itself and, for the old way, gives its challenge.
LEMMA AnswerNegotiateInv == ASSUME IInv, AnswerNegotiate PROVE IInv'
<1>1. PICK b \in ServerSetups :
         /\ reply' = Sound("Negotiate", "SUCCESS", 0, b)
         /\ server' = [server EXCEPT !.extended = b.extended, !.unicode = b.unicode,
                                     !.challenge = IF b.extended THEN None ELSE b.challenge]
  BY DEF AnswerNegotiate
<1>2. reply' # None /\ reply'.body = b
  BY <1>1, NoneIsNoReply DEF Replies, Sound
<1>3. pc = "negotiating" /\ server = NoServer
  BY DEF AnswerNegotiate, Owes, Opening, Command, IInv, Apart, Negotiating, LoggingOn,
         Challenged, Responding, Granting, Waits
<1>4. /\ server'.uid = 0 /\ server'.extended = b.extended
      /\ server'.challenge = IF b.extended THEN None ELSE b.challenge
  BY <1>1, <1>3 DEF NoServer
<1>5. b.challenge \in Challenges /\ b.extended \in BOOLEAN /\ b.unicode \in BOOLEAN
  BY ChallengesGiven
<1>6. ServerType'
  BY <1>1, <1>5 DEF IInv, ServerType
<1> QED BY <1>2, <1>3, <1>4, <1>5, <1>6
        DEF AnswerNegotiate, client, IInv, Stages, ServerType, Apart, Negotiating,
                             LoggingOn, Challenged, Responding, LoggedOn, Waits

\* The server grants a uid with its first answer; with the new way to log on its
\* first answer has the challenge as well.
LEMMA AnswerSessionInv == ASSUME IInv, AnswerSession PROVE IInv'
<1>1. PICK status \in {"SUCCESS", "MORE_PROCESSING"}, u \in Uids,
           b \in IF server.challenge = None THEN ChallengeReplies ELSE FinalReplies :
         /\ server.uid \in {0, u}
         /\ reply' = Sound("SessionSetup", status, u, b)
         /\ server' = [server EXCEPT !.uid = u,
                                     !.challenge = IF @ = None THEN b.blob.challenge ELSE @]
  BY DEF AnswerSession
<1>2. /\ reply' # None /\ reply'.uid = u /\ reply'.body = b
      /\ u # 0
  BY <1>1, NoneIsNoReply, SetupAssumption DEF Replies, Sound
<1>3. pc \in {"logging on", "challenged", "responding"} /\ reply = None
  BY DEF AnswerSession, Owes, Opening, Command, IInv, Apart, Negotiating, Waits
<1>4. /\ server'.extended = server.extended /\ server'.uid = u
      /\ server'.challenge = IF server.challenge = None THEN b.blob.challenge
                             ELSE server.challenge
  BY <1>1 DEF IInv, ServerType
<1>5. server.challenge = None => b.blob.challenge \in Challenges
  BY <1>1, ChallengesGiven
<1>6. server' \in [extended : BOOLEAN, unicode : BOOLEAN,
                   challenge : Challenges \cup {None}, uid : Uids \cup {0}]
  BY <1>1, <1>5 DEF IInv, ServerType
<1>7. UNCHANGED <<pc, uid, request>>
  BY DEF AnswerSession, client
<1>8. ServerType'
  BY <1>6 DEF ServerType
<1>9. CASE pc = "logging on"
  BY <1>1, <1>2, <1>4, <1>7, <1>8, <1>9, SetupAssumption
     DEF IInv, Stages, Apart, Negotiating, LoggingOn, Challenged, Responding, LoggedOn,
         Granting, Waits, Taken
<1>10. CASE pc = "challenged"
  BY <1>1, <1>2, <1>3, <1>4, <1>5, <1>7, <1>8, <1>10, SetupAssumption
     DEF IInv, Stages, Apart, Negotiating, LoggingOn, Challenged, Responding, LoggedOn,
         Granting, Waits, Taken
<1>11. CASE pc = "responding"
  BY <1>1, <1>2, <1>4, <1>7, <1>8, <1>11, SetupAssumption
     DEF IInv, Stages, Apart, Negotiating, LoggingOn, Challenged, Responding, LoggedOn, Waits
<1> QED BY <1>3, <1>9, <1>10, <1>11

\* An answer of any other kind is not taken.
LEMMA AnswerBadlyForm == ASSUME IInv, AnswerBadly PROVE ~Taken(request.body.cmd)'
<1>1. UNCHANGED request
  BY DEF AnswerBadly
<1>2. pc \in {"negotiating", "logging on", "challenged", "responding"}
  BY DEF AnswerBadly, Opening, Command, IInv, Apart
<1>3. ASSUME FormFaults(request.body.cmd, reply') = {} PROVE FALSE
  <2>1. /\ reply'.header \notin {"short", "magic", "command", "request"}
        /\ reply'.cmd = request.body.cmd
        /\ reply'.status \in {"SUCCESS", "MORE_PROCESSING"}
        /\ reply'.whole
        /\ request.body.cmd = "SessionSetup" => ~reply'.chained
    BY <1>3, TakenForm
  <2>2. request.body.cmd \in {"Negotiate", "SessionSetup"}
    BY <1>2 DEF IInv, Negotiating, LoggingOn, Challenged, Responding, Granting, Waits
  <2> QED BY <2>1, <2>2 DEF AnswerBadly, Sound
<1> QED BY <1>1, <1>3 DEF Taken

\* So nothing comes of it.
LEMMA AnswerBadlyInv == ASSUME IInv, AnswerBadly PROVE IInv'
<1>1. UNCHANGED <<pc, uid, request, server>> /\ reply = None
  BY DEF AnswerBadly, client
<1>2. pc \in {"negotiating", "logging on", "challenged", "responding"}
  BY DEF AnswerBadly, Opening, Command, IInv, Apart
<1>3. ~Taken(request.body.cmd)'
  BY AnswerBadlyForm
<1> QED BY <1>1, <1>2, <1>3
        DEF IInv, Stages, ServerType, Apart, Negotiating, LoggingOn, Challenged, Responding,
            LoggedOn, Granting, Waits

\* The requests of a client that is logged on.
LEMMA AskInv == ASSUME IInv, Ask PROVE IInv'
<1>1. request' # None => request'.uid = uid /\ request'.secret = None
  BY DEF Ask, Request
<1> QED BY <1>1 DEF Ask, IInv, Stages, ServerType, Apart, Negotiating, LoggingOn, Challenged,
                    Responding, LoggedOn
-----------------------------------------------------------------------------
(* Errors. *)

\* What a failed set-up says of its error.
Classified(error, cause) ==
    error.layer # "panic" =>
        /\ error \in Errors
        /\ IsRetryable(error) <=> cause \in {"over", "stalled", "socket", "late"}
        /\ IsTimeout(error) <=> cause \in {"stalled", "late"}
        /\ IsConnectionLost(error) <=> cause = "over"

\* The panics, and the errors that neither pass nor break the connection.
Refusals == {error \in Errors \cup {Panic(w) : w \in {"body", "words", "challenge", "blob",
                                                      "magic", "type", "buffer"}} :
                error.layer # "panic" =>
                    ~IsRetryable(error) /\ ~IsTimeout(error) /\ ~IsConnectionLost(error)}

\* What the client finds wrong with a reply, or cannot write, is a refusal.
LEMMA RefusalErrors ==
    /\ \A w \in SmbErrors : Error("smb", w) \in Refusals
    /\ \A w \in {"InputParameter", "InvalidPacket"} : Error("ntlm", w) \in Refusals
    /\ \A w \in {"UnexpectedReply", "ServerError"} : Error("own", w) \in Refusals
    /\ \A w \in {"body", "words", "challenge", "blob", "magic", "type", "buffer"} :
          Panic(w) \in Refusals
<1>1. ASSUME NEW w \in SmbErrors PROVE Error("smb", w) \in Refusals
  <2>1. Kind(Error("smb", w)) \in {"Unsupported", "Protocol"}
    BY DEF Kind, Error, SmbKind
  <2> QED BY <2>1 DEF Refusals, Errors, IsRetryable, IsTimeout, IsConnectionLost, Error
<1>2. ASSUME NEW w \in {"InputParameter", "InvalidPacket"} PROVE Error("ntlm", w) \in Refusals
  <2>1. Kind(Error("ntlm", w)) \in {"InvalidInput", "Protocol"}
    BY DEF Kind, Error, NtlmKind
  <2> QED BY <2>1 DEF Refusals, Errors, NtlmErrors, IsRetryable, IsTimeout, IsConnectionLost,
                      Error
<1>3. ASSUME NEW w \in {"UnexpectedReply", "ServerError"} PROVE Error("own", w) \in Refusals
  <2>1. Kind(Error("own", w)) \in {"Protocol", "Server"}
    BY DEF Kind, Error, OwnKind
  <2> QED BY <2>1 DEF Refusals, Errors, OwnErrors, IsRetryable, IsTimeout, IsConnectionLost,
                      Error
<1>4. ASSUME NEW w \in {"body", "words", "challenge", "blob", "magic", "type", "buffer"}
      PROVE  Panic(w) \in Refusals
  BY DEF Refusals, Panic, Error
<1> QED BY <1>1, <1>2, <1>3, <1>4

\* Everything a reply is checked for is a refusal.
LEMMA FaultsAreRefusals == Answered => Faults \subseteq Refusals
<1> SUFFICES ASSUME Answered PROVE Faults \in SUBSET Refusals
  OBVIOUS
<1>0. \A failing : \A error \in Refusals : If(failing, error) \in SUBSET Refusals
  BY DEF If
<1>1. ASSUME NEW cmd, NEW f PROVE FormFaults(cmd, f) \in SUBSET Refusals
  <2>1. InfoChecks(f) \in Seq(SUBSET Refusals)
    BY <1>0, RefusalErrors DEF InfoChecks, SmbErrors
  <2>2. ReplyChecks(cmd, f) \in Seq(SUBSET Refusals)
    <3>1. /\ Error("own", "UnexpectedReply") \in Refusals
          /\ Error("own", "ServerError") \in Refusals
          /\ Panic("body") \in Refusals /\ Error("smb", "Unsupported") \in Refusals
      BY RefusalErrors DEF SmbErrors
    <3> DEFINE one == If(f.cmd # cmd, Error("own", "UnexpectedReply"))
               two == If(/\ f.status # "SUCCESS"
                         /\ ~(f.status = "MORE_PROCESSING" /\ cmd = "SessionSetup"),
                         Error("own", "ServerError"))
               three == If(~f.whole, Panic("body"))
               four == If(cmd = "SessionSetup" /\ f.chained, Error("smb", "Unsupported"))
    <3>2. one \in SUBSET Refusals /\ two \in SUBSET Refusals
      BY <1>0, <3>1, Zenon
    <3>3. three \in SUBSET Refusals /\ four \in SUBSET Refusals
      BY <1>0, <3>1, Zenon
    <3>4. ReplyChecks(cmd, f) = <<one, two, three, four>>
      BY Zenon DEF ReplyChecks
    <3> HIDE DEF one, two, three, four
    <3> QED BY <3>2, <3>3, <3>4
  <2>3. <<FirstOf(InfoChecks(f)), FirstOf(ReplyChecks(cmd, f))>> \in Seq(SUBSET Refusals)
    BY <2>1, <2>2, FirstIsOne
  <2> QED BY <2>3, FirstIsOne DEF FormFaults
<1>2. ASSUME NEW b PROVE BodyFaults(b) \in SUBSET Refusals
  <2>1. ServerSetupChecks(b) \in Seq(SUBSET Refusals) /\ LogOnChecks(b) \in Seq(SUBSET Refusals)
    BY <1>0, RefusalErrors DEF ServerSetupChecks, LogOnChecks, SmbErrors
  <2>2. SessionSetupChecks(b) \in Seq(SUBSET Refusals)
    BY <1>0, RefusalErrors DEF SessionSetupChecks
  <2>3. \A len : ChallengeChecks(len, b.blob) \in Seq(SUBSET Refusals)
    BY <1>0, RefusalErrors DEF ChallengeChecks
  <2>4. ResponseChecks(b.blob) \in Seq(SUBSET Refusals)
    BY <1>0, RefusalErrors DEF ResponseChecks
  <2>5. /\ ServerSetupChecks(b) \o LogOnChecks(b) \in Seq(SUBSET Refusals)
        /\ SessionSetupChecks(b) \o ChallengeChecks(BlobLen(b), b.blob)
              \o ResponseChecks(b.blob) \in Seq(SUBSET Refusals)
    BY <2>1, <2>2, <2>3, <2>4, ConcatProperties
  <2> QED BY <2>2, <2>5, FirstIsOne DEF BodyFaults
<1> QED BY <1>1, <1>2 DEF Faults

\* The set-up ends only with an error that is classified.
LEMMA EndsClassified ==
    ASSUME NEW error, NEW cause, Classified(error, cause), Ends(error, cause)
    PROVE  ErrorsClassified'
<1>1. ret'.error = error /\ ret'.cause = cause /\ (pc' = "failed" => error.layer # "panic")
  BY DEF Ends, Returned
<1> QED BY <1>1 DEF ErrorsClassified, Classified

\* A refusal is classified as what it is.
LEMMA RefusalClassified ==
    ASSUME NEW error \in Refusals, NEW cause, cause \in {"answer", "size"}
    PROVE  Classified(error, cause)
BY DEF Refusals, Classified, Panic, Error

\* A request that does not fit ends the set-up, one that does keeps it going.
LEMMA SendsClassified ==
    ASSUME NEW r, NEW then, then # "failed", Sends(r, then)
    PROVE  ErrorsClassified'
<1>1. CASE Ends(Error("smb", "CreatePacket"), "size")
  <2>1. Error("smb", "CreatePacket") \in Refusals
    BY RefusalErrors DEF SmbErrors
  <2> QED BY <1>1, <2>1, EndsClassified, RefusalClassified
<1>2. CASE pc' = then
  BY <1>2 DEF ErrorsClassified
<1> QED BY <1>1, <1>2 DEF Sends

\* What a connection that cannot be had, or breaks, or takes too long ends with.
LEMMA BreaksClassified ==
    ASSUME NEW errors, NEW cause, Breaks(errors, cause),
           \A error \in errors : Classified(error, cause)
    PROVE  ErrorsClassified'
BY EndsClassified DEF Breaks

\* So is every way the socket can fail,
LEMMA SocketClassified == ASSUME SocketFails PROVE ErrorsClassified'
<1>1. ASSUME NEW k \in IoKinds
      PROVE  /\ k \in Ended => Classified(Error("io", k), "over")
             /\ k \in Stalled => Classified(Error("io", k), "stalled")
             /\ k \notin Ended \cup Stalled => Classified(Error("io", k), "socket")
  <2>1. Error("io", k) \in Errors /\ Kind(Error("io", k)) = IoKind(k)
    BY DEF Errors, Error, Kind
  <2>2. IsConnectionLost(Error("io", k)) <=> k \in Ended
    BY DEF IsConnectionLost, Error, Ended
  <2>3. /\ IsTimeout(Error("io", k)) <=> k \in Stalled
        /\ IsRetryable(Error("io", k))
    BY <2>1 DEF IsTimeout, IsRetryable, IoKind, Stalled
  <2>4. k \notin Ended \/ k \notin Stalled
    BY DEF Ended, Stalled
  <2> QED BY <2>1, <2>2, <2>3, <2>4 DEF Classified
<1>2. Classified(Error("netbios", "UnexpectedEOF"), "over")
  BY DEF Classified, Error, Errors, NetBiosErrors, IsRetryable, IsTimeout, IsConnectionLost,
         Kind, NetBiosKind
<1>3. Ended \subseteq IoKinds /\ Stalled \subseteq IoKinds
  BY DEF Ended, Stalled, IoKinds
<1>4. \A error \in SocketErrors.over : Classified(error, "over")
  BY <1>1, <1>2, <1>3 DEF SocketErrors
<1>5. \A error \in SocketErrors.stalled : Classified(error, "stalled")
  BY <1>1, <1>3 DEF SocketErrors
<1>6. \A error \in SocketErrors.socket : Classified(error, "socket")
  BY <1>1 DEF SocketErrors
<1>7. DOMAIN SocketErrors = {"over", "stalled", "socket"}
  BY DEF SocketErrors
<1>8. PICK cause \in DOMAIN SocketErrors : Breaks(SocketErrors[cause], cause)
  BY DEF SocketFails
<1> QED BY <1>4, <1>5, <1>6, <1>7, <1>8, BreaksClassified

\* and everything that can be wrong with a frame.
LEMMA FramesClassified ==
    ASSUME NEW w \in NetBiosErrors, w # "UnexpectedEOF"
    PROVE  Classified(Error("netbios", w), "frame")
<1>1. Error("netbios", w) \in Errors /\ Kind(Error("netbios", w)) = "Protocol"
  BY DEF Errors, Error, Kind, NetBiosKind
<1>2. ~IsConnectionLost(Error("netbios", w))
  BY DEF IsConnectionLost, Error
<1> QED BY <1>1, <1>2 DEF Classified, IsRetryable, IsTimeout

\* Every step keeps the errors classified.
LEMMA ClassifiedStep == ASSUME ErrorsClassified, [Next]_vars PROVE ErrorsClassified'
<1>1. CASE UNCHANGED <<pc, ret>>
  BY <1>1 DEF ErrorsClassified
<1>2. CASE SendNegotiate
  BY <1>2, SendsClassified DEF SendNegotiate
<1>3. CASE Take
  <2>1. ASSUME NEW fault \in Faults, Refuse(fault) PROVE ErrorsClassified'
    <3>1. fault \in Refusals
      BY <1>3, FaultsAreRefusals DEF Take
    <3> QED BY <2>1, <3>1, EndsClassified, RefusalClassified DEF Refuse
  <2>2. CASE LogOn \/ AskChallenge \/ Respond
    BY <2>2, SendsClassified DEF LogOn, AskChallenge, Respond
  <2>3. CASE Opened
    BY <2>3 DEF Opened, ErrorsClassified
  <2> QED BY <1>3, <2>1, <2>2, <2>3 DEF Take
<1>4. CASE Server \/ Served \/ Ask
  BY <1>1, <1>4 DEF Server, AnswerNegotiate, AnswerSession, AnswerBadly, Served, Ask, client
<1>5. ASSUME NEW a, NEW t, Connect(a, t) PROVE ErrorsClassified'
  BY <1>5 DEF Connect, ErrorsClassified
<1>6. CASE Unreachable
  <2>1. \A e \in FrameErrors \cup {Error("netbios", "CreateSession")} : Classified(e, "frame")
    BY FramesClassified DEF FrameErrors, NetBiosErrors
  <2> QED BY <1>6, <2>1, SocketClassified, BreaksClassified DEF Unreachable
<1>7. CASE Lost
  <2>1. \A e \in FrameErrors \cup {Error("netbios", "UnexpectedFrame")} : Classified(e, "frame")
    BY FramesClassified DEF FrameErrors, NetBiosErrors
  <2> QED BY <1>7, <2>1, SocketClassified, BreaksClassified DEF Lost
<1>8. CASE TimesOut
  <2>1. Classified(Error("own", "Timeout"), "late")
    BY DEF Classified, Error, Errors, OwnErrors, IsRetryable, IsTimeout, IsConnectionLost,
           Kind, OwnKind
  <2> QED BY <1>8, <2>1, BreaksClassified DEF TimesOut
<1>9. CASE UNCHANGED vars
  BY <1>1, <1>9 DEF vars, client
<1> QED BY <1>2, <1>3, <1>4, <1>5, <1>6, <1>7, <1>8, <1>9 DEF Next, Progress, Caller
-----------------------------------------------------------------------------
(* Sums of lengths.                                                           *)

\* A set with 0, and with each number after one of its own, has them all.
LEMMA NatSetInduction ==
    ASSUME NEW S, 0 \in S, \A n \in Nat \ {0} : n - 1 \in S => n \in S
    PROVE  Nat \subseteq S
<1> SUFFICES ASSUME Nat \ S # {} PROVE FALSE
  OBVIOUS
<1>1. PICK n \in Nat \ S : \A m \in Nat \ S : n <= m
  BY LeastNat
<1>2. n # 0 /\ n - 1 \in Nat /\ n - 1 \in S
  BY <1>1
<1> QED BY <1>1, <1>2

\* The sums of the first n fields.
AreSums(sum, fields, n) ==
    sum = [i \in 0 .. n |-> IF i = 0 THEN 0 ELSE sum[i - 1] + fields[i].len]

\* There are such sums, ...
LEMMA SumsExist ==
    ASSUME NEW fields, NEW n \in Nat
    PROVE  \E sum : AreSums(sum, fields, n)
<1> DEFINE Is(f, m) == f = [i \in 0 .. m |-> IF i = 0 THEN 0 ELSE f[i - 1] + fields[i].len]
           S == {m \in Nat : \E f : Is(f, m)}
<1>1. 0 \in S
  <2> DEFINE f == [i \in 0 .. 0 |-> 0]
  <2>1. \A i \in 0 .. 0 : i = 0
    OBVIOUS
  <2>2. Is(f, 0)
    BY <2>1
  <2> QED BY <2>2
<1>2. ASSUME NEW m \in Nat \ {0}, m - 1 \in S
      PROVE  m \in S
  <2>1. PICK f : Is(f, m - 1)
    BY <1>2
  <2> DEFINE g == [i \in 0 .. m |-> IF i = 0 THEN 0 ELSE f[i - 1] + fields[i].len]
             h == [i \in 0 .. m |-> IF i = 0 THEN 0 ELSE g[i - 1] + fields[i].len]
  <2>2. \A i \in 0 .. m - 1 : g[i] = f[i]
    <3> SUFFICES ASSUME NEW i \in 0 .. m - 1 PROVE g[i] = f[i]
      OBVIOUS
    <3>1. f[i] = IF i = 0 THEN 0 ELSE f[i - 1] + fields[i].len
      BY <2>1, Zenon
    <3>2. i \in 0 .. m
      OBVIOUS
    <3> QED BY <3>1, <3>2, Zenon
  <2>3. \A i \in 0 .. m : i # 0 => g[i - 1] = f[i - 1]
    <3> SUFFICES ASSUME NEW i \in 0 .. m, i # 0 PROVE g[i - 1] = f[i - 1]
      OBVIOUS
    <3>1. i - 1 \in 0 .. m - 1
      OBVIOUS
    <3> QED BY <2>2, <3>1, Zenon
  <2>4. g = h
    <3>1. \A i \in 0 .. m : (IF i = 0 THEN 0 ELSE f[i - 1] + fields[i].len)
                          = (IF i = 0 THEN 0 ELSE g[i - 1] + fields[i].len)
      <4> HIDE DEF g
      <4> QED BY <2>3, Zenon
    <3> QED BY <3>1, Zenon
  <2>5. Is(g, m)
    BY <2>4, Zenon
  <2> QED BY <2>5
<1> HIDE DEF S
<1>3. n \in S
  BY <1>1, <1>2, NatSetInduction
<1> QED BY <1>3 DEF S, AreSums

\* ... and as far as two of them go they agree.
LEMMA SumsAgree ==
    ASSUME NEW fields, NEW n \in Nat, NEW m \in Nat, m <= n,
           NEW s, AreSums(s, fields, n), NEW t, AreSums(t, fields, m)
    PROVE  s[m] = t[m]
<1> DEFINE S == {i \in Nat : i <= m => s[i] = t[i]}
<1>1. /\ \A i \in 0 .. n : s[i] = IF i = 0 THEN 0 ELSE s[i - 1] + fields[i].len
      /\ \A i \in 0 .. m : t[i] = IF i = 0 THEN 0 ELSE t[i - 1] + fields[i].len
  BY Zenon DEF AreSums
<1>2. 0 \in S
  BY <1>1
<1>3. ASSUME NEW i \in Nat \ {0}, i - 1 \in S
      PROVE  i \in S
  <2> SUFFICES ASSUME i <= m PROVE s[i] = t[i]
    OBVIOUS
  <2>1. i \in 0 .. n /\ i \in 0 .. m /\ i # 0
    OBVIOUS
  <2>2. s[i - 1] = t[i - 1]
    BY <1>3
  <2> QED BY <1>1, <2>1, <2>2, Zenon
<1> HIDE DEF S
<1>4. m \in S
  BY <1>2, <1>3, NatSetInduction
<1> QED BY <1>4 DEF S

\* One field more adds its length.
LEMMA UptoStep ==
    ASSUME NEW fields
    PROVE  /\ Upto(fields, 0) = 0
           /\ \A n \in Nat \ {0} : Upto(fields, n) = Upto(fields, n - 1) + fields[n].len
<1> DEFINE Sum(n) == CHOOSE sum : AreSums(sum, fields, n)
<1>1. \A n \in Nat : AreSums(Sum(n), fields, n)
  BY SumsExist
<1>2. \A n \in Nat : Upto(fields, n) = Sum(n)[n]
  BY DEF Upto, AreSums
<1> HIDE DEF Sum
<1>3. \A n \in Nat : \A i \in 0 .. n : Sum(n)[i] = IF i = 0 THEN 0
                                                   ELSE Sum(n)[i - 1] + fields[i].len
  BY <1>1, Zenon DEF AreSums
<1>4. Upto(fields, 0) = 0
  BY <1>2, <1>3
<1>5. ASSUME NEW n \in Nat \ {0}
      PROVE  Upto(fields, n) = Upto(fields, n - 1) + fields[n].len
  <2>1. n \in 0 .. n /\ n - 1 \in Nat /\ n - 1 <= n /\ n # 0
    OBVIOUS
  <2>2. Sum(n)[n] = Sum(n)[n - 1] + fields[n].len
    BY <1>3, <2>1, Zenon
  <2>3. AreSums(Sum(n), fields, n) /\ AreSums(Sum(n - 1), fields, n - 1)
    BY <1>1, <2>1
  <2>4. Sum(n)[n - 1] = Sum(n - 1)[n - 1]
    BY <2>1, <2>3, SumsAgree
  <2> QED BY <1>2, <2>1, <2>2, <2>4
<1> QED BY <1>4, <1>5

-----------------------------------------------------------------------------
(* Reading fields at their places.                                            *)

\* Fields with lengths.
Measured(fields) == /\ Len(fields) \in Nat /\ DOMAIN fields = 1 .. Len(fields)
                    /\ \A i \in 1 .. Len(fields) : fields[i].len \in Nat

\* The places where fields end are numbers, and go up.
LEMMA UptoGrows ==
    ASSUME NEW fields, Measured(fields)
    PROVE  /\ \A n \in 0 .. Len(fields) : Upto(fields, n) \in Nat
           /\ \A n, m \in 0 .. Len(fields) : n <= m => Upto(fields, n) <= Upto(fields, m)
<1> DEFINE k == Len(fields)
           u(n) == Upto(fields, n)
<1>1. u(0) = 0 /\ \A n \in Nat \ {0} : u(n) = u(n - 1) + fields[n].len
  BY UptoStep
<1>2. k \in Nat /\ \A i \in 1 .. k : fields[i].len \in Nat
  BY DEF Measured
<1> HIDE DEF k, u
<1>3. \A n \in 0 .. k : u(n) \in Nat
  <2> DEFINE S == {n \in Nat : n <= k => u(n) \in Nat}
  <2>1. 0 \in S
    BY <1>1
  <2>2. ASSUME NEW n \in Nat \ {0}, n - 1 \in S
        PROVE  n \in S
    <3> SUFFICES ASSUME n <= k PROVE u(n) \in Nat
      OBVIOUS
    <3>1. u(n - 1) \in Nat /\ fields[n].len \in Nat /\ u(n) = u(n - 1) + fields[n].len
      BY <1>1, <1>2, <2>2
    <3> QED BY <3>1
  <2> HIDE DEF S
  <2>3. Nat \subseteq S
    BY <2>1, <2>2, NatSetInduction
  <2> QED BY <1>2, <2>3 DEF S
<1>4. \A n, m \in 0 .. k : n <= m => u(n) <= u(m)
  <2> SUFFICES ASSUME NEW n \in 0 .. k
               PROVE  \A m \in 0 .. k : n <= m => u(n) <= u(m)
    OBVIOUS
  <2> DEFINE S == {m \in Nat : n <= m /\ m <= k => u(n) <= u(m)}
  <2>1. 0 \in S
    BY <1>1, <1>3
  <2>2. ASSUME NEW m \in Nat \ {0}, m - 1 \in S
        PROVE  m \in S
    <3> SUFFICES ASSUME n <= m, m <= k PROVE u(n) <= u(m)
      OBVIOUS
    <3>1. u(m - 1) \in Nat /\ fields[m].len \in Nat /\ u(m) = u(m - 1) + fields[m].len
          /\ u(n) \in Nat
      BY <1>1, <1>2, <1>3
    <3>2. CASE n = m
      BY <3>1, <3>2
    <3>3. CASE n # m
      <4>1. n <= m - 1 /\ m - 1 <= k
        BY <1>2, <3>3
      <4>2. u(n) <= u(m - 1)
        BY <2>2, <4>1
      <4> QED BY <3>1, <4>2
    <3> QED BY <3>2, <3>3
  <2> HIDE DEF S
  <2>3. Nat \subseteq S
    BY <2>1, <2>2, NatSetInduction
  <2> QED BY <1>2, <2>3 DEF S
<1> QED BY <1>3, <1>4 DEF k, u

\* Fields that begin at the same place are the same, unless one is empty.
LEMMA BeginsApart ==
    ASSUME NEW fields, Measured(fields), NEW i \in DOMAIN fields, NEW j \in DOMAIN fields,
           fields[i].len # 0, fields[j].len # 0, Begins(fields, i) = Begins(fields, j)
    PROVE  i = j
<1> DEFINE k == Len(fields)
           u(n) == Upto(fields, n)
<1>1. \A n \in Nat \ {0} : u(n) = u(n - 1) + fields[n].len
  BY UptoStep
<1>2. k \in Nat /\ i \in 1 .. k /\ j \in 1 .. k /\ \A n \in 1 .. k : fields[n].len \in Nat
  BY DEF Measured
<1>3. /\ \A n \in 0 .. k : u(n) \in Nat
      /\ \A n, m \in 0 .. k : n <= m => u(n) <= u(m)
  BY UptoGrows
<1>4. u(i - 1) = u(j - 1)
  BY DEF Begins
<1> HIDE DEF k, u
<1>5. ASSUME NEW n \in 1 .. k, NEW m \in 1 .. k, n < m, fields[n].len # 0
      PROVE  u(n - 1) # u(m - 1)
  <2>1. u(n) = u(n - 1) + fields[n].len /\ u(n - 1) \in Nat /\ fields[n].len \in Nat
        /\ u(n) \in Nat /\ u(m - 1) \in Nat
    BY <1>1, <1>2, <1>3
  <2>2. u(n) <= u(m - 1)
    <3>1. n \in 0 .. k /\ m - 1 \in 0 .. k /\ n <= m - 1
      BY <1>2, <1>5
    <3> QED BY <1>3, <3>1, Zenon
  <2> QED BY <1>5, <2>1, <2>2
<1>6. ~(i < j)
  BY <1>2, <1>4, <1>5
<1>7. ~(j < i)
  BY <1>2, <1>4, <1>5
<1> QED BY <1>2, <1>6, <1>7

\* A field that is not empty is found where it begins.
LEMMA FindsOf ==
    ASSUME NEW fields, Measured(fields), NEW i \in DOMAIN fields, fields[i].len # 0,
           NEW pos, pos = Begins(fields, i)
    PROVE  FoundOf(fields, pos, fields[i].len) = <<fields[i].is, fields[i].len>>
<1> DEFINE Here(n) == Begins(fields, n) = pos /\ fields[n].len = fields[i].len
           c == CHOOSE n \in DOMAIN fields : Here(n)
<1>1. c \in DOMAIN fields /\ Here(c)
  OBVIOUS
<1>2. c = i
  BY <1>1, BeginsApart
<1> QED BY <1>2 DEF FoundOf

\* So it is without its length, if no field is empty.
LEMMA FindsAt ==
    ASSUME NEW fields, Measured(fields), NEW i \in DOMAIN fields,
           \A n \in DOMAIN fields : fields[n].len # 0, NEW pos, pos = Begins(fields, i)
    PROVE  FoundAt(fields, pos) = <<fields[i].is, fields[i].len>>
<1> DEFINE Here(n) == Begins(fields, n) = pos
           c == CHOOSE n \in DOMAIN fields : Here(n)
<1>1. c \in DOMAIN fields /\ Here(c)
  OBVIOUS
<1>2. c = i
  BY <1>1, BeginsApart
<1> QED BY <1>2 DEF FoundAt

\* Of words with one of a name, its value is the value of that name.
LEMMA ValOf ==
    ASSUME NEW body, NEW i \in DOMAIN body.words, NEW name, body.words[i].is = name,
           \A n \in DOMAIN body.words : body.words[n].is = name => n = i
    PROVE  Val(body, name) = body.words[i].val
<1> DEFINE c == CHOOSE n \in DOMAIN body.words : body.words[n].is = name
<1>1. c \in DOMAIN body.words /\ body.words[c].is = name
  OBVIOUS
<1>2. c = i
  BY <1>1
<1> QED BY <1>2 DEF Val
-----------------------------------------------------------------------------
(* The bodies, each as it is read.                                            *)

\* The places of the first fields.
LEMMA UptoSixteen ==
    ASSUME NEW fields
    PROVE  /\ Upto(fields, 0) = 0
           /\ Upto(fields, 1) = Upto(fields, 0) + fields[1].len
           /\ Upto(fields, 2) = Upto(fields, 1) + fields[2].len
           /\ Upto(fields, 3) = Upto(fields, 2) + fields[3].len
           /\ Upto(fields, 4) = Upto(fields, 3) + fields[4].len
           /\ Upto(fields, 5) = Upto(fields, 4) + fields[5].len
           /\ Upto(fields, 6) = Upto(fields, 5) + fields[6].len
           /\ Upto(fields, 7) = Upto(fields, 6) + fields[7].len
           /\ Upto(fields, 8) = Upto(fields, 7) + fields[8].len
           /\ Upto(fields, 9) = Upto(fields, 8) + fields[9].len
           /\ Upto(fields, 10) = Upto(fields, 9) + fields[10].len
           /\ Upto(fields, 11) = Upto(fields, 10) + fields[11].len
           /\ Upto(fields, 12) = Upto(fields, 11) + fields[12].len
           /\ Upto(fields, 13) = Upto(fields, 12) + fields[13].len
           /\ Upto(fields, 14) = Upto(fields, 13) + fields[14].len
           /\ Upto(fields, 15) = Upto(fields, 14) + fields[15].len
           /\ Upto(fields, 16) = Upto(fields, 15) + fields[16].len
<1> DEFINE u(n) == Upto(fields, n)
<1>1. u(0) = 0 /\ \A n \in Nat \ {0} : u(n) = u(n - 1) + fields[n].len
  BY UptoStep
<1> HIDE DEF u
<1>2. \A n \in Nat : u(n + 1) = u(n) + fields[n + 1].len
  BY <1>1
<1>3. \A n \in 0 .. 15 : u(n + 1) = u(n) + fields[n + 1].len
  BY <1>2
<1>4. /\ u(1) = u(0) + fields[1].len /\ u(2) = u(1) + fields[2].len
      /\ u(3) = u(2) + fields[3].len /\ u(4) = u(3) + fields[4].len
      /\ u(5) = u(4) + fields[5].len /\ u(6) = u(5) + fields[6].len
      /\ u(7) = u(6) + fields[7].len /\ u(8) = u(7) + fields[8].len
  BY <1>1
<1>5. /\ u(9) = u(8) + fields[9].len /\ u(10) = u(9) + fields[10].len
      /\ u(11) = u(10) + fields[11].len /\ u(12) = u(11) + fields[12].len
      /\ u(13) = u(12) + fields[13].len /\ u(14) = u(13) + fields[14].len
      /\ u(15) = u(14) + fields[15].len /\ u(16) = u(15) + fields[16].len
  BY <1>1
<1> QED BY <1>1, <1>4, <1>5, Zenon DEF u

\* A written body that says what it has and is read as it was meant.
Readable(body, uni, meant) ==
    /\ body.wordCount \in Words[body.cmd]
    /\ 2 * body.wordCount = Size(body.words)
    /\ Seen(body, uni) = meant

\* A tree connect: the path is aligned in Unicode and not otherwise.
LEMMA TreeConnectReadable ==
    ASSUME NEW p \in Nat, NEW pw \in Nat, NEW uni \in BOOLEAN
    PROVE  Readable(Written(TreeConnect(p, pw, uni)), uni,
                    {<<"path", IF uni THEN Utf16Nul(p) ELSE p + 1>>,
                     <<"password", IF pw = 0 THEN 1 ELSE pw>>})
<1> DEFINE len == IF pw = 0 THEN 1 ELSE pw
           path == IF uni THEN Utf16Nul(p) ELSE p + 1
           b == TreeConnect(p, pw, uni)
           w == b.words
           d == b.data
           at == IF uni /\ Even(len) THEN 3 ELSE 2
<1>1. len \in Nat /\ len > 0 /\ path \in Nat /\ path > 0
  BY DEF Utf16Nul
<1>2. /\ Len(w) = 3 /\ DOMAIN w = 1 .. 3
      /\ w[1] = F("andx", 4) /\ w[2] = F("flags", 2) /\ w[3] = V("password", 2, len)
  BY DEF TreeConnect, Body, AndX
<1>3. /\ at \in {2, 3} /\ (at = 3 <=> uni /\ Even(len)) /\ (at = 2 <=> ~(uni /\ Even(len)))
      /\ Len(d) = at + 2 /\ DOMAIN d = 1 .. at + 2
      /\ d[1] = F("password", len) /\ (at = 3 => d[2] = F("pad", 1))
      /\ d[at] = F("path", path) /\ d[at + 1] = F("service", 5) /\ d[at + 2] = F("nul", 1)
  <2>1. CASE uni /\ Even(len)
    BY <1>1, <2>1 DEF TreeConnect, Body, Pad
  <2>2. CASE uni /\ ~Even(len)
    BY <1>1, <2>2 DEF TreeConnect, Body, Pad
  <2>3. CASE ~uni
    BY <1>1, <2>3 DEF TreeConnect, Body
  <2> QED BY <2>1, <2>2, <2>3
<1>4. b.cmd = "TreeConnect"
  BY DEF TreeConnect, Body
<1> DEFINE v == Written(b)
<1>5. v.words = w /\ v.data = d /\ v.cmd = "TreeConnect" /\ v.wordCount = Size(w) \div 2
  BY <1>4 DEF Written
<1> HIDE DEF len, path, b, w, d, v, at
<1>6. Size(w) = 8
  BY <1>2, UptoSixteen DEF Size, F, V
<1>7. Measured(d) /\ \A i \in DOMAIN d : d[i].len # 0
  <2>1. \A i \in DOMAIN d : i \in {1, 2, at, at + 1, at + 2}
    BY <1>3
  <2>2. d[1].len = len /\ d[2].len \in {1, path} /\ d[at].len = path
        /\ d[at + 1].len = 5 /\ d[at + 2].len = 1
    BY <1>3 DEF F
  <2>3. \A i \in DOMAIN d : d[i].len \in Nat /\ d[i].len # 0
    BY <1>1, <2>1, <2>2
  <2> QED BY <1>3, <2>3 DEF Measured
<1>8. /\ Begins(d, 1) = 0
      /\ Begins(d, at) = IF at = 3 THEN len + 1 ELSE len
  <2>1. /\ Upto(d, 0) = 0 /\ Upto(d, 1) = Upto(d, 0) + d[1].len
        /\ Upto(d, 2) = Upto(d, 1) + d[2].len
    BY UptoSixteen
  <2>2. d[1].len = len /\ (at = 3 => d[2].len = 1)
    BY <1>3 DEF F
  <2> QED BY <1>1, <1>3, <2>1, <2>2 DEF Begins
<1>9. Val(v, "password") = len
  BY <1>2, <1>5, ValOf DEF F, V
<1>10. FoundOf(d, 0, len) = <<"password", len>>
  BY <1>1, <1>3, <1>7, <1>8, FindsOf DEF F
<1>11. FoundAt(d, Begins(d, at)) = <<"path", path>>
  <2>1. at \in DOMAIN d /\ d[at].is = "path" /\ d[at].len = path
    BY <1>3 DEF F
  <2> QED BY <1>7, <2>1, FindsAt
<1>12. (IF uni THEN NextEven(v, len) ELSE len) = Begins(d, at)
  <2>1. Start(v) = 43
    BY <1>5, <1>6 DEF Start, HeaderLen
  <2>2. NextEven(v, len) = IF Even(len) THEN len + 1 ELSE len
    BY <1>1, <2>1 DEF NextEven, Even
  <2> QED BY <1>3, <1>8, <2>2
<1>13. Seen(v, uni) = {<<"password", len>>, <<"path", path>>}
  BY <1>5, <1>9, <1>10, <1>11, <1>12 DEF Seen, SeenTree
<1>14. Readable(v, uni, {<<"path", path>>, <<"password", len>>})
  BY <1>5, <1>6, <1>13 DEF Readable, Words
<1> QED BY <1>14 DEF v, b, len, path

\* A field before others pushes them back by its length.
LEMMA UptoPushed ==
    ASSUME NEW field, NEW S, NEW fields \in Seq(S), Measured(fields), field.len \in Nat
    PROVE  LET all == <<field>> \o fields IN
           \A n \in 0 .. Len(fields) : Upto(all, n + 1) = field.len + Upto(fields, n)
<1> DEFINE all == <<field>> \o fields
           k == Len(fields)
           u(n) == Upto(fields, n)
           v(n) == Upto(all, n)
           S0 == {n \in Nat : n <= k => v(n + 1) = field.len + u(n)}
<1>1. k \in Nat /\ all[1] = field /\ \A n \in 1 .. k : all[n + 1] = fields[n]
  OBVIOUS
<1>2. u(0) = 0 /\ \A n \in Nat \ {0} : u(n) = u(n - 1) + fields[n].len
  BY UptoStep
<1>3. v(0) = 0 /\ \A n \in Nat \ {0} : v(n) = v(n - 1) + all[n].len
  BY UptoStep
<1>4. /\ \A n \in 0 .. k : u(n) \in Nat
      /\ \A n \in 1 .. k : fields[n].len \in Nat
  BY UptoGrows DEF Measured
<1> HIDE DEF all, k, u, v
<1>5. v(1) = field.len
  BY <1>1, <1>3
<1>6. 0 \in S0
  BY <1>2, <1>5
<1>7. ASSUME NEW n \in Nat \ {0}, n - 1 \in S0
      PROVE  n \in S0
  <2> SUFFICES ASSUME n <= k PROVE v(n + 1) = field.len + u(n)
    OBVIOUS
  <2>1. v(n) = field.len + u(n - 1)
    <3>1. n - 1 <= k /\ (n - 1) + 1 = n
      BY <1>1
    <3> QED BY <1>7, <3>1
  <2>2. u(n) = u(n - 1) + fields[n].len /\ u(n - 1) \in Nat /\ fields[n].len \in Nat
    BY <1>1, <1>2, <1>4
  <2>3. v(n + 1) = v(n) + fields[n].len
    <3>1. n + 1 \in Nat \ {0} /\ (n + 1) - 1 = n /\ n \in 1 .. k
      BY <1>1
    <3>2. v(n + 1) = v((n + 1) - 1) + all[n + 1].len
      BY <1>3, <3>1, Zenon
    <3>3. all[n + 1] = fields[n]
      BY <1>1, <3>1, Zenon
    <3> QED BY <3>1, <3>2, <3>3, Zenon
  <2> QED BY <2>1, <2>2, <2>3
<1> HIDE DEF S0
<1>8. Nat \subseteq S0
  BY <1>6, <1>7, NatSetInduction
<1> QED BY <1>1, <1>8 DEF S0, all, k, u, v

\* The buffers of a packet are found at the places its descriptors give.
LEMMA PacketRead ==
    ASSUME NEW fixed \in Nat \ {0}, NEW S, NEW buffers \in Seq(S), Measured(buffers)
    PROVE  LET packet == Packet(fixed, buffers) IN
           /\ PacketReadable(packet)
           /\ Size(packet.bytes) \in Nat \ {0}
<1> DEFINE base == fixed + Descriptor * Len(buffers)
           bytes == <<F("base", base)>> \o buffers
           packet == Packet(fixed, buffers)
           k == Len(buffers)
<1>1. base \in Nat \ {0} /\ k \in Nat /\ DOMAIN buffers = 1 .. k
  BY DEF Descriptor
<1>2. Measured(buffers)
  OBVIOUS
<1>3. /\ Len(bytes) = k + 1 /\ DOMAIN bytes = 1 .. k + 1
      /\ bytes[1] = F("base", base) /\ \A i \in 1 .. k : bytes[i + 1] = buffers[i]
  OBVIOUS
<1>4. /\ packet.bytes = bytes
      /\ packet.buffers = {[is |-> buffers[i].is, len |-> buffers[i].len,
                            pos |-> base + Begins(buffers, i)] : i \in DOMAIN buffers}
  BY DEF Packet
<1>5. F("base", base).len = base
  BY DEF F
<1>6. \A n \in 0 .. k : Upto(bytes, n + 1) = base + Upto(buffers, n)
  BY <1>1, <1>2, <1>5, UptoPushed
<1> HIDE DEF base, bytes, packet
<1>7. Measured(bytes)
  <2>1. ASSUME NEW i \in 1 .. k + 1 PROVE bytes[i].len \in Nat
    <3>1. CASE i = 1
      BY <1>1, <1>3, <1>5, <3>1
    <3>2. CASE i # 1
      <4>1. i - 1 \in 1 .. k /\ bytes[i] = buffers[i - 1]
        BY <1>1, <1>3, <3>2
      <4> QED BY <1>1, <1>2, <4>1 DEF Measured
    <3> QED BY <3>1, <3>2
  <2> QED BY <1>1, <1>3, <2>1 DEF Measured
<1>8. PacketReadable(packet)
  <2> SUFFICES ASSUME NEW b \in packet.buffers, b.len > 0
               PROVE  FoundOf(bytes, b.pos, b.len) = <<b.is, b.len>>
    BY <1>4, Zenon DEF PacketReadable
  <2>1. PICK i \in DOMAIN buffers :
           b = [is |-> buffers[i].is, len |-> buffers[i].len,
                pos |-> base + Begins(buffers, i)]
    BY <1>4
  <2>2. b.is = buffers[i].is /\ b.len = buffers[i].len /\ b.pos = base + Begins(buffers, i)
    BY <2>1
  <2>3. i + 1 \in DOMAIN bytes /\ bytes[i + 1] = buffers[i]
    BY <1>1, <1>3
  <2>4. b.pos = Begins(bytes, i + 1)
    <3>1. i - 1 \in 0 .. k /\ (i - 1) + 1 = i /\ (i + 1) - 1 = i
      BY <1>1
    <3>2. Upto(bytes, i) = base + Upto(buffers, i - 1)
      BY <1>6, <3>1
    <3> QED BY <2>2, <3>1, <3>2 DEF Begins
  <2>5. b.len # 0
    BY <1>1, <1>2, <2>2 DEF Measured
  <2>6. bytes[i + 1].len # 0 /\ bytes[i + 1].len = b.len /\ bytes[i + 1].is = b.is
    BY <2>2, <2>3, <2>5
  <2>7. FoundOf(bytes, b.pos, bytes[i + 1].len) = <<bytes[i + 1].is, bytes[i + 1].len>>
    BY <1>7, <2>3, <2>4, <2>6, FindsOf
  <2> QED BY <2>6, <2>7, Zenon
<1>9. Size(packet.bytes) \in Nat \ {0}
  <2>1. Size(packet.bytes) = base + Upto(buffers, k)
    <3>1. Size(packet.bytes) = Upto(bytes, k + 1)
      BY <1>3, <1>4 DEF Size
    <3> QED BY <1>1, <1>6, <3>1
  <2>2. Upto(buffers, k) \in Nat
    BY <1>1, <1>2, UptoGrows
  <2> QED BY <1>1, <2>1, <2>2
<1> QED BY <1>8, <1>9 DEF packet

\* A set-up with two secrets: the texts behind them are aligned.
LEMMA SetupWithAuthReadable ==
    ASSUME NEW a \in [user : Nat, domain : Nat, workstation : Nat],
           NEW uni \in BOOLEAN, NEW u \in BOOLEAN
    PROVE  Readable(Written(SetupWithAuth(a, uni)), u,
                    {<<"secret", Secret>>, <<"user", Utf16Nul(a.user)>>,
                     <<"domain", Utf16Nul(a.domain)>>})
<1> DEFINE b == SetupWithAuth(a, uni)
           w == b.words
           d == b.data
           user == Utf16Nul(a.user)
           domain == Utf16Nul(a.domain)
           char == IF uni THEN 2 ELSE 1
<1>1. user \in Nat \ {0} /\ domain \in Nat \ {0} /\ user % 2 = 0 /\ char \in {1, 2}
  BY DEF Utf16Nul
<1>2. /\ Len(w) = 9 /\ DOMAIN w = 1 .. 9
      /\ w[1] = F("andx", 4) /\ w[2] = F("max_buffer", 2) /\ w[3] = F("max_mpx", 2)
      /\ w[4] = F("vc", 2) /\ w[5] = F("session_key", 4) /\ w[6] = V("oem_secret", 2, Secret)
      /\ w[7] = V("unicode_secret", 2, Secret) /\ w[8] = F("reserved", 4)
      /\ w[9] = F("capabilities", 4)
  BY DEF SetupWithAuth, Body, AndX, Limits
<1>3. /\ Len(d) = 7 /\ DOMAIN d = 1 .. 7
      /\ d[1] = F("secret", 24) /\ d[2] = F("secret", 24) /\ d[3] = F("pad", 1)
      /\ d[4] = F("user", user) /\ d[5] = F("domain", domain) /\ d[6] = F("os", char)
      /\ d[7] = F("lanman", char)
  <2>1. Pad(Even(2 * Secret)) = <<F("pad", 1)>>
    BY DEF Pad, Even, Secret
  <2>2. d = <<F("secret", 24), F("secret", 24)>> \o <<F("pad", 1)>>
              \o <<F("user", user), F("domain", domain)>> \o Names(uni)
    BY <2>1, Zenon DEF SetupWithAuth, Body, Secret
  <2>3. CASE uni
    BY <2>2, <2>3 DEF Names
  <2>4. CASE ~uni
    BY <2>2, <2>4 DEF Names
  <2> QED BY <2>3, <2>4
<1>4. b.cmd = "SessionSetup"
  BY DEF SetupWithAuth, Body
<1> DEFINE v == Written(b)
<1>5. v.words = w /\ v.data = d /\ v.cmd = "SessionSetup" /\ v.wordCount = Size(w) \div 2
  BY <1>4 DEF Written
<1> HIDE DEF b, w, d, v, user, domain, char
<1>6. Size(w) = 26
  BY <1>2, UptoSixteen DEF Size, F, V
<1>7. Measured(d) /\ \A i \in DOMAIN d : d[i].len # 0
  <2>1. \A i \in DOMAIN d : i \in {1, 2, 3, 4, 5, 6, 7}
    BY <1>3
  <2>2. /\ d[1].len = 24 /\ d[2].len = 24 /\ d[3].len = 1 /\ d[4].len = user
        /\ d[5].len = domain /\ d[6].len = char /\ d[7].len = char
    BY <1>3 DEF F
  <2>3. \A i \in DOMAIN d : d[i].len \in Nat /\ d[i].len # 0
    BY <1>1, <2>1, <2>2
  <2> QED BY <1>3, <2>3 DEF Measured
<1>8. Begins(d, 1) = 0 /\ Begins(d, 2) = 24 /\ Begins(d, 4) = 49 /\ Begins(d, 5) = 49 + user
  <2>1. /\ Upto(d, 0) = 0 /\ Upto(d, 1) = Upto(d, 0) + d[1].len
        /\ Upto(d, 2) = Upto(d, 1) + d[2].len /\ Upto(d, 3) = Upto(d, 2) + d[3].len
        /\ Upto(d, 4) = Upto(d, 3) + d[4].len
    BY UptoSixteen
  <2>2. d[1].len = 24 /\ d[2].len = 24 /\ d[3].len = 1 /\ d[4].len = user
    BY <1>3 DEF F
  <2> QED BY <1>1, <2>1, <2>2 DEF Begins
<1>9. Val(v, "oem_secret") = 24
  BY <1>2, <1>5, ValOf DEF F, V, Secret
<1>10. Val(v, "unicode_secret") = 24
  BY <1>2, <1>5, ValOf DEF F, V, Secret
<1>11. ~Has(v, "blob")
  <2>1. \A i \in DOMAIN w : i \in {1, 2, 3, 4, 5, 6, 7, 8, 9}
    BY <1>2
  <2> QED BY <1>2, <1>5, <2>1 DEF Has, F, V
<1>12. FoundOf(d, 0, 24) = <<"secret", 24>> /\ FoundOf(d, 24, 24) = <<"secret", 24>>
  <2>1. /\ 1 \in DOMAIN d /\ d[1].len = 24 /\ d[1].is = "secret"
        /\ 2 \in DOMAIN d /\ d[2].len = 24 /\ d[2].is = "secret"
    BY <1>3 DEF F
  <2>2. FoundOf(d, 0, d[1].len) = <<d[1].is, d[1].len>>
    BY <1>7, <1>8, <2>1, FindsOf
  <2>3. FoundOf(d, 24, d[2].len) = <<d[2].is, d[2].len>>
    BY <1>7, <1>8, <2>1, FindsOf
  <2> QED BY <2>1, <2>2, <2>3
<1>13. FoundAt(d, 49) = <<"user", user>> /\ FoundAt(d, 49 + user) = <<"domain", domain>>
  <2>1. /\ 4 \in DOMAIN d /\ d[4].len = user /\ d[4].is = "user"
        /\ 5 \in DOMAIN d /\ d[5].len = domain /\ d[5].is = "domain"
    BY <1>3 DEF F
  <2>2. FoundAt(d, 49) = <<d[4].is, d[4].len>>
    BY <1>7, <1>8, <2>1, FindsAt
  <2>3. FoundAt(d, 49 + user) = <<d[5].is, d[5].len>>
    BY <1>7, <1>8, <2>1, FindsAt
  <2> QED BY <2>1, <2>2, <2>3
<1>14. NextEven(v, 24 + 24) = 49 /\ NextEven(v, 24 + 24) + user = 49 + user
  <2>1. Start(v) = 61
    BY <1>5, <1>6 DEF Start, HeaderLen
  <2> QED BY <1>1, <2>1 DEF NextEven
<1>15. Seen(v, u) = {<<"secret", 24>>, <<"user", user>>, <<"domain", domain>>}
  <2>1. <<"user", user>>[2] = user
    OBVIOUS
  <2>2. Seen(v, u) = SeenSetup(v)
    BY <1>5 DEF Seen
  <2>3. SeenSetup(v) = {<<"secret", 24>>, <<"secret", 24>>, <<"user", user>>,
                        <<"domain", domain>>}
    BY <1>5, <1>9, <1>10, <1>11, <1>12, <1>13, <1>14, <2>1 DEF SeenSetup
  <2> QED BY <2>2, <2>3
<1>16. Readable(v, u, {<<"secret", 24>>, <<"user", user>>, <<"domain", domain>>})
  BY <1>5, <1>6, <1>15 DEF Readable, Words
<1> QED BY <1>16 DEF v, b, user, domain, Secret

\* A set-up with a packet.
LEMMA SetupWithBlobReadable ==
    ASSUME NEW blob, Size(blob.bytes) \in Nat \ {0}, NEW uni \in BOOLEAN, NEW u \in BOOLEAN
    PROVE  Readable(Written(SetupWithBlob(blob, uni)), u, {<<"blob", Size(blob.bytes)>>})
<1> DEFINE len == Size(blob.bytes)
           b == SetupWithBlob(blob, uni)
           w == b.words
           d == b.data
           char == IF uni THEN 2 ELSE 1
           after == IF Even(len) THEN 3 ELSE 2
<1>1. len \in Nat \ {0} /\ char \in {1, 2} /\ after \in {2, 3}
  OBVIOUS
<1> HIDE DEF len
<1>2. /\ Len(w) = 8 /\ DOMAIN w = 1 .. 8
      /\ w[1] = F("andx", 4) /\ w[2] = F("max_buffer", 2) /\ w[3] = F("max_mpx", 2)
      /\ w[4] = F("vc", 2) /\ w[5] = F("session_key", 4) /\ w[6] = V("blob", 2, len)
      /\ w[7] = F("reserved", 4) /\ w[8] = F("capabilities", 4)
  BY DEF SetupWithBlob, Body, AndX, Limits, len
<1>3. /\ Len(d) = after + 1 /\ DOMAIN d = 1 .. after + 1
      /\ d[1] = F("blob", len) /\ (after = 3 => d[2] = F("pad", 1))
      /\ d[after] = F("os", char) /\ d[after + 1] = F("lanman", char)
  <2>1. d = <<F("blob", len)>> \o Pad(Even(len)) \o Names(uni)
    BY DEF SetupWithBlob, Body, len
  <2>2. CASE uni /\ Even(len)
    BY <2>1, <2>2 DEF Names, Pad
  <2>3. CASE uni /\ ~Even(len)
    BY <2>1, <2>3 DEF Names, Pad
  <2>4. CASE ~uni /\ Even(len)
    BY <2>1, <2>4 DEF Names, Pad
  <2>5. CASE ~uni /\ ~Even(len)
    BY <2>1, <2>5 DEF Names, Pad
  <2> QED BY <2>2, <2>3, <2>4, <2>5
<1>4. b.cmd = "SessionSetup"
  BY DEF SetupWithBlob, Body
<1> DEFINE v == Written(b)
<1>5. v.words = w /\ v.data = d /\ v.cmd = "SessionSetup" /\ v.wordCount = Size(w) \div 2
  BY <1>4 DEF Written
<1> HIDE DEF b, w, d, v, char, after
<1>6. Size(w) = 24
  BY <1>2, UptoSixteen DEF Size, F, V
<1>7. Measured(d)
  <2>1. \A i \in DOMAIN d : i \in {1, 2, after, after + 1}
    BY <1>1, <1>3
  <2>2. d[1].len = len /\ d[2].len \in {1, char} /\ d[after].len = char
        /\ d[after + 1].len = char
    BY <1>1, <1>3 DEF F
  <2>3. \A i \in DOMAIN d : d[i].len \in Nat
    BY <1>1, <2>1, <2>2
  <2> QED BY <1>1, <1>3, <2>3 DEF Measured
<1>8. Begins(d, 1) = 0
  BY UptoSixteen DEF Begins
<1>9. Val(v, "blob") = len
  BY <1>2, <1>5, ValOf DEF F, V
<1>10. Has(v, "blob")
  BY <1>2, <1>5 DEF Has, V
<1>11. FoundOf(d, 0, len) = <<"blob", len>>
  <2>1. 1 \in DOMAIN d /\ d[1].len = len /\ d[1].is = "blob"
    BY <1>1, <1>3 DEF F
  <2>2. FoundOf(d, 0, d[1].len) = <<d[1].is, d[1].len>>
    BY <1>1, <1>7, <1>8, <2>1, FindsOf
  <2> QED BY <2>1, <2>2
<1>12. Seen(v, u) = {<<"blob", len>>}
  <2>1. Seen(v, u) = SeenSetup(v)
    BY <1>5 DEF Seen
  <2> QED BY <1>5, <1>9, <1>10, <1>11, <2>1 DEF SeenSetup
<1>13. Readable(v, u, {<<"blob", len>>})
  BY <1>5, <1>6, <1>12 DEF Readable, Words
<1> QED BY <1>13 DEF v, b, len

\* An open: one byte aligns the name.
LEMMA OpenReadable ==
    ASSUME NEW p \in Nat, NEW u \in BOOLEAN
    PROVE  Readable(Written(Open(p)), u, {<<"name", Utf16Nul(p)>>})
<1> DEFINE b == Open(p)
           w == b.words
           d == b.data
           name == Utf16Nul(p)
<1>1. name \in Nat \ {0}
  BY DEF Utf16Nul
<1>2. /\ Len(w) = 13 /\ DOMAIN w = 1 .. 13
      /\ w[1] = F("andx", 4) /\ w[2] = F("reserved", 1) /\ w[3] = V("name", 2, name)
      /\ w[4] = F("flags", 4) /\ w[5] = F("directory", 4) /\ w[6] = F("access", 4)
      /\ w[7] = F("allocation", 8) /\ w[8] = F("attributes", 4) /\ w[9] = F("share", 4)
      /\ w[10] = F("disposition", 4) /\ w[11] = F("options", 4)
      /\ w[12] = F("impersonation", 4) /\ w[13] = F("security", 1)
  BY DEF Open, Body, AndX
<1>3. /\ Len(d) = 2 /\ DOMAIN d = 1 .. 2
      /\ d[1] = F("pad", 1) /\ d[2] = F("name", name)
  BY DEF Open, Body
<1>4. b.cmd = "Create"
  BY DEF Open, Body
<1> DEFINE v == Written(b)
<1>5. v.words = w /\ v.data = d /\ v.cmd = "Create" /\ v.wordCount = Size(w) \div 2
  BY <1>4 DEF Written
<1> HIDE DEF b, w, d, v, name
<1>6. Size(w) = 48
  BY <1>2, UptoSixteen DEF Size, F, V
<1>7. d[1].len = 1 /\ d[2].len = name /\ d[2].is = "name"
  BY <1>3 DEF F
<1>8. Measured(d)
  <2>1. \A i \in 1 .. 2 : i \in {1, 2}
    OBVIOUS
  <2> QED BY <1>1, <1>3, <1>7, <2>1 DEF Measured
<1>9. Begins(d, 2) = 1
  BY <1>7, UptoSixteen DEF Begins
<1>10. Val(v, "name") = name
  BY <1>2, <1>5, ValOf DEF F, V
<1>11. NextEven(v, 0) = 1
  <2>1. Start(v) = 83
    BY <1>5, <1>6 DEF Start, HeaderLen
  <2> QED BY <2>1 DEF NextEven
<1>12. FoundOf(d, 1, d[2].len) = <<d[2].is, d[2].len>>
  BY <1>1, <1>3, <1>7, <1>8, <1>9, FindsOf
<1>13. Seen(v, u) = {<<"name", name>>}
  BY <1>5, <1>7, <1>10, <1>11, <1>12 DEF Seen
<1>14. Readable(v, u, {<<"name", name>>})
  BY <1>5, <1>6, <1>13 DEF Readable, Words
<1> QED BY <1>14 DEF v, b, name

\* What a factor and a remainder are put together to.
LEMMA Halves ==
    ASSUME NEW x \in Nat, NEW q \in Nat \ {0}
    PROVE  x \div q \in Nat /\ x % q \in 0 .. q - 1 /\ (x % q) + q * (x \div q) = x
OBVIOUS

\* A factor can be taken out of a bound.
LEMMA Quotient ==
    ASSUME NEW b \in Nat \ {0}, NEW q \in Nat, NEW r \in Nat, r + b * q < b * b
    PROVE  q < b
<1> SUFFICES ASSUME q >= b PROVE FALSE
  OBVIOUS
<1>1. PICK k \in Nat : q = b + k
  <2>1. q - b \in Nat /\ q = b + (q - b)
    OBVIOUS
  <2> QED BY <2>1
<1>2. b * q = b * b + b * k
  BY <1>1
<1>3. b * k \in Nat /\ b * b \in Nat
  OBVIOUS
<1> QED BY <1>2, <1>3

\* A read: offset and count have a field for either half.
LEMMA ReadReadable ==
    ASSUME NEW offset \in Nat, NEW count \in 0 .. Half * Half - 1, NEW u \in BOOLEAN
    PROVE  Readable(Written(Read(offset, count, Half)), u,
                    {<<"offset", offset>>, <<"count", count>>})
<1> USE SetupAssumption
<1> DEFINE b == Read(offset, count, Half)
           w == b.words
           q == Half * Half
           ol == offset % q
           oh == offset \div q
           cl == count % Half
           ch == (count \div Half) % Half
<1>1. q \in Nat \ {0}
  OBVIOUS
<1>2. ol + q * oh = offset
  <2> HIDE DEF q
  <2> QED BY <1>1, Halves
<1>3. cl + Half * ch = count
  <2> DEFINE c == count \div Half
  <2>1. Half \in Nat \ {0} /\ count \in Nat /\ count < Half * Half
    BY <1>1
  <2>2. c \in Nat /\ cl \in Nat /\ cl + Half * c = count
    BY <2>1, Halves
  <2> HIDE DEF c
  <2>3. c < Half
    <3> HIDE DEF cl
    <3> QED BY <2>1, <2>2, Quotient
  <2>4. c % Half = c
    BY <2>1, <2>2, <2>3
  <2> QED BY <2>2, <2>4 DEF c
<1> HIDE DEF ol, oh, cl, ch
<1>4. /\ Len(w) = 9 /\ DOMAIN w = 1 .. 9
      /\ w[1] = F("andx", 4) /\ w[2] = F("fid", 2) /\ w[3] = V("offset_low", 4, ol)
      /\ w[4] = V("count_low", 2, cl) /\ w[5] = F("min", 2) /\ w[6] = V("count_high", 2, ch)
      /\ w[7] = F("reserved", 2) /\ w[8] = F("remaining", 2) /\ w[9] = V("offset_high", 4, oh)
  BY DEF Read, Body, AndX, ol, oh, cl, ch
<1>5. b.cmd = "Read"
  BY DEF Read, Body
<1> DEFINE v == Written(b)
<1>6. v.words = w /\ v.cmd = "Read" /\ v.wordCount = Size(w) \div 2
  BY <1>5 DEF Written
<1> HIDE DEF b, w, v
<1>7. Size(w) = 24
  BY <1>4, UptoSixteen DEF Size, F, V
<1>8. Val(v, "offset_low") = ol
  BY <1>4, <1>6, ValOf DEF F, V
<1>9. Val(v, "offset_high") = oh
  BY <1>4, <1>6, ValOf DEF F, V
<1>10. Val(v, "count_low") = cl
  BY <1>4, <1>6, ValOf DEF F, V
<1>11. Val(v, "count_high") = ch
  BY <1>4, <1>6, ValOf DEF F, V
<1>12. Seen(v, u) = {<<"offset", offset>>, <<"count", count>>}
  <2>1. Seen(v, u) = SeenRead(v)
    BY <1>6 DEF Seen
  <2>2. SeenRead(v) = {<<"offset", ol + q * oh>>, <<"count", cl + Half * ch>>}
    BY <1>8, <1>9, <1>10, <1>11, Zenon DEF SeenRead
  <2> QED BY <1>2, <1>3, <2>1, <2>2
<1>13. Readable(v, u, {<<"offset", offset>>, <<"count", count>>})
  BY <1>6, <1>7, <1>12 DEF Readable, Words
<1> QED BY <1>13 DEF v, b

\* A search: the parameters are where their position says, behind the filling.
LEMMA FindReadable ==
    ASSUME NEW p \in Nat, NEW u \in BOOLEAN
    PROVE  Readable(Written(FindRequest(p)), u, {<<"parameter", 12 + Utf16Nul(p)>>})
<1> DEFINE b == FindRequest(p)
           w == b.words
           d == b.data
           len == 12 + Utf16Nul(p)
           last == FillUp4(68 + len)
<1>1. len \in Nat \ {0} /\ last \in 0 .. 3
  BY DEF Utf16Nul, FillUp4
<1>2. b = Transact2(len, 0)
  BY DEF FindRequest, Find, F
<1> HIDE DEF b, len, last
<1>3. ParameterOffset = 68
  BY DEF ParameterOffset, DataStart, RoundUp4, HeaderLen
<1>4. /\ Len(w) = 16 /\ DOMAIN w = 1 .. 16
      /\ w[1] = F("total_parameter", 2) /\ w[2] = F("total_data", 2)
      /\ w[3] = F("max_parameter", 2) /\ w[4] = F("max_data", 2) /\ w[5] = F("max_setup", 1)
      /\ w[6] = F("reserved", 1) /\ w[7] = F("flags", 2) /\ w[8] = F("timeout", 4)
      /\ w[9] = F("reserved", 2) /\ w[10] = V("parameter_count", 2, len)
      /\ w[11] = V("parameter_offset", 2, 68) /\ w[12] = V("data_count", 2, 0)
      /\ w[13] = V("data_offset", 2, DataOffset(len)) /\ w[14] = F("setup_count", 1)
      /\ w[15] = F("reserved", 1) /\ w[16] = F("setup", 2)
  BY <1>2, <1>3 DEF Transact2, Body
<1>5. d = Transact2Data(len, 0) /\ b.cmd = "Transact2"
  BY <1>2 DEF Transact2, Body
<1>6. /\ Len(d) = 5 /\ DOMAIN d = 1 .. 5
      /\ d[1] = F("name", 1) /\ d[2] = F("fill", 2) /\ d[3] = F("parameter", len)
      /\ d[4] = F("fill", last) /\ d[5] = F("data", 0)
  <2> DEFINE name == <<F("name", 1)>>
             first == Fill(Size(name))
             filled == name \o <<first>> \o <<F("parameter", len)>>
             second == Fill(Size(filled))
  <2>1. Size(name) = 1
    <3>1. Len(name) = 1 /\ name[1].len = 1
      BY DEF F
    <3> QED BY <3>1, UptoSixteen DEF Size
  <2>2. first = F("fill", 2)
    BY <2>1 DEF Fill, FillUp4, DataStart, HeaderLen
  <2> HIDE DEF first
  <2>3. /\ Len(filled) = 3
        /\ filled[1] = F("name", 1) /\ filled[2] = first /\ filled[3] = F("parameter", len)
    OBVIOUS
  <2>4. Size(filled) = 3 + len
    <3>1. filled[1].len = 1 /\ filled[2].len = 2 /\ filled[3].len = len
      BY <2>2, <2>3 DEF F
    <3> HIDE DEF filled
    <3> QED BY <1>1, <2>3, <3>1, UptoSixteen DEF Size
  <2>5. second = F("fill", last)
    <3> HIDE DEF filled
    <3> QED BY <1>1, <2>4 DEF Fill, last, DataStart, HeaderLen
  <2>6. d = filled \o <<second>> \o <<F("data", 0)>>
    BY <1>5, Zenon DEF Transact2Data, first
  <2> HIDE DEF second
  <2>7. /\ Len(d) = 5 /\ DOMAIN d = 1 .. 5
        /\ d[1] = F("name", 1) /\ d[2] = first /\ d[3] = F("parameter", len)
        /\ d[4] = second /\ d[5] = F("data", 0)
    <3>1. d = <<F("name", 1)>> \o <<first>> \o <<F("parameter", len)>> \o <<second>>
                \o <<F("data", 0)>>
      BY <2>6, Zenon
    <3> HIDE DEF d, filled
    <3> QED BY <3>1
  <2> QED BY <2>2, <2>5, <2>7
<1> DEFINE v == Written(b)
<1>7. v.words = w /\ v.data = d /\ v.cmd = "Transact2" /\ v.wordCount = Size(w) \div 2
  BY <1>5 DEF Written
<1> HIDE DEF w, d, v
<1>8. Size(w) = 30
  BY <1>4, UptoSixteen DEF Size, F, V
<1>9. /\ d[1].len = 1 /\ d[2].len = 2 /\ d[3].len = len /\ d[3].is = "parameter"
      /\ d[4].len = last /\ d[5].len = 0
  BY <1>6 DEF F
<1>10. Measured(d)
  <2>1. \A i \in 1 .. 5 : i \in {1, 2, 3, 4, 5}
    OBVIOUS
  <2> QED BY <1>1, <1>6, <1>9, <2>1 DEF Measured
<1>11. Begins(d, 3) = 3
  BY <1>9, UptoSixteen DEF Begins
<1>12. Val(v, "parameter_count") = len
  BY <1>4, <1>7, ValOf DEF F, V
<1>13. Val(v, "parameter_offset") = 68
  BY <1>4, <1>7, ValOf DEF F, V
<1>14. Val(v, "data_count") = 0
  BY <1>4, <1>7, ValOf DEF F, V
<1>15. 68 - Start(v) = 3
  BY <1>7, <1>8 DEF Start, HeaderLen
<1>16. FoundOf(d, 3, d[3].len) = <<d[3].is, d[3].len>>
  BY <1>1, <1>6, <1>9, <1>10, <1>11, FindsOf
<1>17. Seen(v, u) = {<<"parameter", len>>}
  <2>1. Seen(v, u) = SeenTransact2(v)
    BY <1>7 DEF Seen
  <2>2. {n \in {<<"data_count", "data_offset">>} : Val(v, n[1]) > 0} = {}
    BY <1>14
  <2>3. SeenTransact2(v) =
          {FoundOf(v.data, Val(v, "parameter_offset") - Start(v), Val(v, "parameter_count"))}
    <3> DEFINE Found(n) == FoundOf(v.data, Val(v, n[2]) - Start(v), Val(v, n[1]))
               one == <<"parameter_count", "parameter_offset">>
               none == {n \in {<<"data_count", "data_offset">>} : Val(v, n[1]) > 0}
    <3>1. SeenTransact2(v) = {Found(n) : n \in {one} \cup none}
      BY Zenon DEF SeenTransact2
    <3>2. {one} \cup none = {one}
      BY <2>2
    <3>3. {Found(n) : n \in {one}} = {Found(one)}
      <4> HIDE DEF one, Found
      <4> QED OBVIOUS
    <3>4. one[1] = "parameter_count" /\ one[2] = "parameter_offset"
      OBVIOUS
    <3> QED BY <3>1, <3>2, <3>3, <3>4, Zenon
  <2> QED BY <1>7, <1>9, <1>12, <1>13, <1>15, <1>16, <2>1, <2>3
<1>18. Readable(v, u, {<<"parameter", len>>})
  BY <1>7, <1>8, <1>17 DEF Readable, Words
<1> QED BY <1>18 DEF v, b, len

\* The requests that carry nothing to be found.
LEMMA PlainReadable ==
    ASSUME NEW b \in {Negotiate, Close, TreeDisconnect}, NEW u \in BOOLEAN
    PROVE  Readable(Written(b), u, {})
<1>1. Len(Negotiate.words) = 0 /\ Negotiate.cmd = "Negotiate"
  BY DEF Negotiate, Body
<1>2. Len(TreeDisconnect.words) = 0 /\ TreeDisconnect.cmd = "TreeDisconnect"
  BY DEF TreeDisconnect, Body
<1>3. /\ Len(Close.words) = 2 /\ Close.cmd = "Close"
      /\ Close.words[1].len = 2 /\ Close.words[2].len = 4
  BY DEF Close, Body, F
<1>4. Size(Negotiate.words) = 0 /\ Size(TreeDisconnect.words) = 0
  BY <1>1, <1>2, UptoSixteen DEF Size
<1>5. Size(Close.words) = 6
  BY <1>3, UptoSixteen DEF Size
<1> DEFINE v == Written(b)
<1>6. v.words = b.words /\ v.cmd = b.cmd /\ v.wordCount = Size(b.words) \div 2
  BY DEF Written
<1> HIDE DEF v
<1>7. v.cmd \in {"Negotiate", "Close", "TreeDisconnect"}
  BY <1>1, <1>2, <1>3, <1>6
<1>8. Seen(v, u) = {}
  BY <1>7 DEF Seen
<1>9. 2 * v.wordCount = Size(v.words) /\ v.wordCount \in Words[v.cmd]
  BY <1>1, <1>2, <1>3, <1>4, <1>5, <1>6 DEF Words
<1>10. Readable(v, u, {})
  BY <1>8, <1>9 DEF Readable
<1> QED BY <1>10 DEF v
-----------------------------------------------------------------------------
(* Requests as they are read. *)

ReadableRequest(r) == /\ Readable(r.body, r.unicode, r.meant)
                      /\ r.packet # None => PacketReadable(r.packet)

\* What is put into a request.
LEMMA RequestParts ==
    ASSUME NEW body, NEW u, NEW uni
    PROVE  /\ Request(body, u, uni).body = Written(body)
           /\ Request(body, u, uni).unicode = uni
           /\ Request(body, u, uni).packet = None
           /\ Request(body, u, uni).meant = {}
BY DEF Request

\* A request that is sent is the one that is out.
LEMMA SendsReadable ==
    ASSUME NEW r, NEW then, Sends(r, then), ReadableRequest(r)
    PROVE  RequestsReadable'
BY DEF Sends, Ends, Forget, RequestsReadable, ReadableRequest, Readable

\* A set-up that ends has no request out.
LEMMA EndsReadable ==
    ASSUME NEW error, NEW cause, Ends(error, cause)
    PROVE  RequestsReadable'
BY DEF Ends, Forget, RequestsReadable

\* A message of the new way carries a packet.
LEMMA BlobReadable ==
    ASSUME NEW packet, PacketReadable(packet), Size(packet.bytes) \in Nat \ {0},
           NEW u, NEW uni \in BOOLEAN
    PROVE  ReadableRequest(BlobRequest(packet, u, uni))
<1> DEFINE r == BlobRequest(packet, u, uni)
<1>1. /\ r.body = Written(SetupWithBlob(packet, uni)) /\ r.unicode = uni
      /\ r.packet = packet /\ r.meant = {<<"blob", Size(packet.bytes)>>}
  BY DEF BlobRequest, Request
<1>2. Readable(Written(SetupWithBlob(packet, uni)), uni, {<<"blob", Size(packet.bytes)>>})
  BY SetupWithBlobReadable
<1> QED BY <1>1, <1>2, Zenon DEF ReadableRequest

\* The two packets can be read, whatever is in them.
LEMMA InitPacketRead ==
    ASSUME NEW a \in Credentials
    PROVE  /\ PacketReadable(InitPacket(a))
           /\ Size(InitPacket(a).bytes) \in Nat \ {0}
<1> DEFINE buffers == <<F("domain", a.domain), F("workstation", a.workstation)>>
<1>1. a.domain \in Nat /\ a.workstation \in Nat
  BY DEF Credentials
<1>2. buffers \in Seq({F("domain", a.domain), F("workstation", a.workstation)})
  OBVIOUS
<1>3. Measured(buffers)
  BY <1>1 DEF Measured, F
<1>4. InitPacket(a) = Packet(24, buffers)
  BY DEF InitPacket
<1> HIDE DEF buffers
<1> QED BY <1>2, <1>3, <1>4, PacketRead

LEMMA ResponsePacketRead ==
    ASSUME NEW a \in Credentials, NEW challenge, challenge.info \in Nat,
           challenge.unicode \in BOOLEAN
    PROVE  /\ PacketReadable(ResponsePacket(a, challenge))
           /\ Size(ResponsePacket(a, challenge).bytes) \in Nat \ {0}
<1> DEFINE T(n) == Text(n, challenge.unicode)
           buffers == <<F("lm", 24), F("proof", Proof(challenge.info)),
                        F("domain", T(a.domain)), F("user", T(a.user)),
                        F("workstation", T(a.workstation))>>
<1>1. /\ Proof(challenge.info) \in Nat
      /\ T(a.domain) \in Nat /\ T(a.user) \in Nat /\ T(a.workstation) \in Nat
  BY DEF Credentials, Proof, Text, Utf16
<1> HIDE DEF T
<1>2. buffers \in Seq({F("lm", 24), F("proof", Proof(challenge.info)), F("domain", T(a.domain)),
                         F("user", T(a.user)), F("workstation", T(a.workstation))})
  OBVIOUS
<1>3. Measured(buffers)
  <2>1. Len(buffers) = 5 /\ DOMAIN buffers = 1 .. 5 /\ \A i \in 1 .. 5 : i \in {1, 2, 3, 4, 5}
    OBVIOUS
  <2>2. /\ buffers[1].len \in Nat /\ buffers[2].len \in Nat /\ buffers[3].len \in Nat
        /\ buffers[4].len \in Nat /\ buffers[5].len \in Nat
    BY <1>1 DEF F
  <2> HIDE DEF buffers
  <2> QED BY <2>1, <2>2 DEF Measured
<1>4. ResponsePacket(a, challenge) = Packet(12, buffers)
  BY DEF ResponsePacket, T
<1> HIDE DEF buffers
<1> QED BY <1>2, <1>3, <1>4, PacketRead

\* The first message.
LEMMA SendNegotiateReadable ==
    ASSUME Lengths, SendNegotiate PROVE RequestsReadable'
<1> DEFINE r == Request(Negotiate, uid, unicode)
<1>1. Sends(r, "negotiating")
  BY DEF SendNegotiate
<1>2. /\ r.body = Written(Negotiate) /\ r.unicode = unicode /\ r.packet = None /\ r.meant = {}
  BY RequestParts
<1>3. Readable(Written(Negotiate), unicode, {})
  BY PlainReadable DEF Lengths
<1> HIDE DEF r
<1>4. ReadableRequest(r)
  BY <1>2, <1>3, Zenon DEF ReadableRequest
<1> QED BY <1>1, <1>4, SendsReadable

\* The messages that log on.
LEMMA LogOnReadable ==
    ASSUME Lengths, Taken("Negotiate"), LogOn PROVE RequestsReadable'
<1> DEFINE uni == reply.body.unicode
           r == LogOnRequest(reply.body)
           meant == {<<"secret", Secret>>, <<"user", Utf16Nul(auth.user)>>,
                     <<"domain", Utf16Nul(auth.domain)>>}
<1>1. Sends(r, "logging on") /\ pc = "negotiating"
  BY DEF LogOn
<1>2. uni \in BOOLEAN /\ auth \in Credentials
  BY <1>1 DEF Lengths
<1>3. /\ r.body = Written(SetupWithAuth(auth, uni)) /\ r.unicode = uni
      /\ r.packet = None /\ r.meant = meant
  BY DEF LogOnRequest, Request
<1>4. Readable(Written(SetupWithAuth(auth, uni)), uni, meant)
  BY <1>2, SetupWithAuthReadable DEF Credentials
<1> HIDE DEF r, uni, meant
<1>5. ReadableRequest(r)
  BY <1>3, <1>4, Zenon DEF ReadableRequest
<1> QED BY <1>1, <1>5, SendsReadable

LEMMA AskChallengeReadable ==
    ASSUME Lengths, Taken("Negotiate"), AskChallenge PROVE RequestsReadable'
<1>1. pc = "negotiating" /\ Sends(BlobRequest(InitPacket(auth), uid, reply.body.unicode),
                                  "challenged")
  BY Zenon DEF AskChallenge
<1>2. reply.body.unicode \in BOOLEAN /\ auth \in Credentials
  BY <1>1 DEF Lengths
<1>3. ReadableRequest(BlobRequest(InitPacket(auth), uid, reply.body.unicode))
  BY <1>2, InitPacketRead, BlobReadable
<1> QED BY <1>1, <1>3, SendsReadable

LEMMA RespondReadable ==
    ASSUME Lengths, Taken("SessionSetup"), Respond PROVE RequestsReadable'
<1> DEFINE blob == reply.body.blob
           q == BlobRequest(ResponsePacket(auth, blob), reply.uid, unicode)
           r == [q EXCEPT !.secret = [form |-> "v2", of |-> blob.challenge]]
<1>1. pc = "challenged" /\ Sends(r, "responding")
  BY Zenon DEF Respond
<1>2. auth \in Credentials /\ blob.info \in Nat /\ blob.unicode \in BOOLEAN
      /\ unicode \in BOOLEAN
  BY <1>1 DEF Lengths
<1>3. ReadableRequest(q)
  BY <1>2, ResponsePacketRead, BlobReadable
<1>4. r.body = q.body /\ r.unicode = q.unicode /\ r.packet = q.packet /\ r.meant = q.meant
  BY DEF BlobRequest, Request
<1> HIDE DEF q, r
<1>5. ReadableRequest(r)
  BY <1>3, <1>4, Zenon DEF ReadableRequest
<1> QED BY <1>1, <1>5, SendsReadable

\* The requests of a client that is logged on.
LEMMA BodiesReadable ==
    ASSUME NEW uni \in BOOLEAN, NEW b \in Bodies(uni)
    PROVE  Readable(Written(b.body), uni, b.meant)
<1> USE SetupAssumption
<1>1. ASSUME NEW p \in Paths, NEW w \in Paths,
             b = [body |-> TreeConnect(p, w, uni),
                  meant |-> {<<"path", IF uni THEN Utf16Nul(p) ELSE p + 1>>,
                             <<"password", IF w = 0 THEN 1 ELSE w>>}]
      PROVE  Readable(Written(b.body), uni, b.meant)
  <2>1. /\ b.body = TreeConnect(p, w, uni)
        /\ b.meant = {<<"path", IF uni THEN Utf16Nul(p) ELSE p + 1>>,
                      <<"password", IF w = 0 THEN 1 ELSE w>>}
    BY <1>1
  <2>2. p \in Nat /\ w \in Nat
    OBVIOUS
  <2> QED BY <2>1, <2>2, TreeConnectReadable
<1>2. ASSUME NEW p \in Paths, b = [body |-> Open(p), meant |-> {<<"name", Utf16Nul(p)>>}]
      PROVE  Readable(Written(b.body), uni, b.meant)
  <2>1. b.body = Open(p) /\ b.meant = {<<"name", Utf16Nul(p)>>} /\ p \in Nat
    BY <1>2
  <2> QED BY <2>1, OpenReadable
<1>3. ASSUME NEW r \in Reads,
             b = [body |-> Read(r[1], r[2], Half),
                  meant |-> {<<"offset", r[1]>>, <<"count", r[2]>>}]
      PROVE  Readable(Written(b.body), uni, b.meant)
  <2>1. b.body = Read(r[1], r[2], Half) /\ b.meant = {<<"offset", r[1]>>, <<"count", r[2]>>}
    BY <1>3
  <2>2. r[1] \in Nat /\ r[2] \in 0 .. Half * Half - 1
    OBVIOUS
  <2> QED BY <2>1, <2>2, ReadReadable
<1>4. ASSUME NEW p \in Paths,
             b = [body |-> FindRequest(p), meant |-> {<<"parameter", 12 + Utf16Nul(p)>>}]
      PROVE  Readable(Written(b.body), uni, b.meant)
  <2>1. b.body = FindRequest(p) /\ b.meant = {<<"parameter", 12 + Utf16Nul(p)>>} /\ p \in Nat
    BY <1>4
  <2> QED BY <2>1, FindReadable
<1>5. ASSUME NEW c \in {Close, TreeDisconnect}, b = [body |-> c, meant |-> {}]
      PROVE  Readable(Written(b.body), uni, b.meant)
  <2>1. b.body = c /\ b.meant = {}
    BY <1>5
  <2> QED BY <2>1, PlainReadable
<1>6. \/ \E p \in Paths, w \in Paths :
            b = [body |-> TreeConnect(p, w, uni),
                 meant |-> {<<"path", IF uni THEN Utf16Nul(p) ELSE p + 1>>,
                            <<"password", IF w = 0 THEN 1 ELSE w>>}]
      \/ \E p \in Paths : b = [body |-> Open(p), meant |-> {<<"name", Utf16Nul(p)>>}]
      \/ \E r \in Reads : b = [body |-> Read(r[1], r[2], Half),
                               meant |-> {<<"offset", r[1]>>, <<"count", r[2]>>}]
      \/ \E p \in Paths : b = [body |-> FindRequest(p),
                               meant |-> {<<"parameter", 12 + Utf16Nul(p)>>}]
      \/ \E c \in {Close, TreeDisconnect} : b = [body |-> c, meant |-> {}]
  BY DEF Bodies
<1> QED BY <1>1, <1>2, <1>3, <1>4, <1>5, <1>6, Zenon

\* One of these is sent, or none.
LEMMA AskReadable ==
    ASSUME Lengths, Ask PROVE RequestsReadable'
<1>1. PICK b \in Bodies(unicode) :
         request' = IF Fits(b.body) THEN [Request(b.body, uid, unicode) EXCEPT !.meant = b.meant]
                    ELSE None
  BY DEF Ask
<1> DEFINE r == [Request(b.body, uid, unicode) EXCEPT !.meant = b.meant]
<1>2. Readable(Written(b.body), unicode, b.meant)
  BY BodiesReadable DEF Lengths
<1>3. /\ r.body = Written(b.body) /\ r.unicode = unicode /\ r.packet = None
      /\ r.meant = b.meant
  BY DEF Request
<1> HIDE DEF r
<1>4. ReadableRequest(r)
  BY <1>2, <1>3, Zenon DEF ReadableRequest
<1>5. request' = r \/ request' = None
  BY <1>1 DEF r
<1> QED BY <1>4, <1>5 DEF ReadableRequest, Readable, RequestsReadable

\* What is known of lengths stays so.
LEMMA LengthsStep == ASSUME IInv, Lengths, [Next]_vars PROVE Lengths'
<1>1. ASSUME NEW error, NEW cause, Ends(error, cause) PROVE Lengths'
  BY <1>1, SetupAssumption DEF Ends, Forget, Lengths, Credentials, Anonymous
<1>2. ASSUME NEW r, NEW then, Sends(r, then), r.unicode \in BOOLEAN PROVE Lengths'
  BY <1>1, <1>2 DEF Sends, Lengths, Taken
<1>3. CASE SendNegotiate
  <2>1. Request(Negotiate, uid, unicode).unicode \in BOOLEAN
    BY RequestParts DEF Lengths
  <2> QED BY <1>2, <1>3, <2>1 DEF SendNegotiate
<1>4. CASE Take
  <2>1. CASE \E fault \in Faults : Refuse(fault)
    BY <1>1, <2>1 DEF Refuse
  <2>2. ASSUME Faults = {}, LogOn \/ AskChallenge \/ Respond \/ Opened PROVE Lengths'
    <3>1. Taken(Command[pc])
      BY <1>4, <2>2 DEF Take, Answered, Faults, Taken
    <3>2. CASE LogOn
      <4>1. Taken("Negotiate")
        BY <3>1, <3>2 DEF LogOn, Command
      <4>2. LogOnRequest(reply.body).unicode \in BOOLEAN
        BY <3>2, <4>1 DEF LogOn, LogOnRequest, Request, Lengths
      <4> QED BY <1>2, <3>2, <4>2 DEF LogOn
    <3>3. CASE AskChallenge
      <4>1. Taken("Negotiate")
        BY <3>1, <3>3 DEF AskChallenge, Command
      <4>2. BlobRequest(InitPacket(auth), uid, reply.body.unicode).unicode \in BOOLEAN
        BY <3>3, <4>1 DEF AskChallenge, BlobRequest, Request, Lengths
      <4> QED BY <1>2, <3>3, <4>2 DEF AskChallenge
    <3>4. CASE Respond
      <4>1. PICK q, r : /\ q = BlobRequest(ResponsePacket(auth, reply.body.blob), reply.uid,
                                           unicode)
                        /\ r = [q EXCEPT !.secret = [form |-> "v2",
                                                     of |-> reply.body.blob.challenge]]
                        /\ Sends(r, "responding")
        BY <3>4 DEF Respond
      <4>2. r.unicode \in BOOLEAN
        BY <4>1 DEF BlobRequest, Request, Lengths
      <4> QED BY <1>2, <4>1, <4>2
    <3>5. CASE Opened
      BY <3>5 DEF Opened, Lengths, Taken
    <3> QED BY <2>2, <3>2, <3>3, <3>4, <3>5
  <2> QED BY <1>4, <2>1, <2>2 DEF Take
<1>5. CASE AnswerNegotiate
  <2>1. PICK b \in ServerSetups : reply' = Sound("Negotiate", "SUCCESS", 0, b)
    BY <1>5 DEF AnswerNegotiate
  <2>2. reply'.body.unicode \in BOOLEAN
    BY <2>1, ChallengesGiven DEF Sound
  <2>3. pc = "negotiating"
    BY <1>5 DEF AnswerNegotiate, Owes, Opening, Command, IInv, Apart, Negotiating, LoggingOn,
                Challenged, Responding, Granting, Waits
  <2> QED BY <1>5, <2>2, <2>3 DEF AnswerNegotiate, client, Lengths
<1>6. CASE AnswerSession
  <2>1. PICK status \in {"SUCCESS", "MORE_PROCESSING"}, u \in Uids,
             b \in IF server.challenge = None THEN ChallengeReplies ELSE FinalReplies :
           reply' = Sound("SessionSetup", status, u, b)
    BY <1>6 DEF AnswerSession
  <2>2. pc \in {"logging on", "challenged", "responding"} /\ reply = None
    BY <1>6 DEF AnswerSession, Owes, Opening, Command, IInv, Apart, Negotiating, Waits
  <2>3. pc = "challenged" => server.challenge = None
    BY <2>2 DEF IInv, Challenged
  <2>4. pc = "challenged" => /\ reply'.body.blob.info \in Nat
                             /\ reply'.body.blob.unicode \in BOOLEAN
    BY <2>1, <2>3, ChallengesGiven DEF Sound
  <2> QED BY <1>6, <2>2, <2>4 DEF AnswerSession, client, Lengths
<1>7. CASE AnswerBadly
  <2>1. ~Taken(request.body.cmd)' /\ UNCHANGED <<pc, auth, unicode, request>>
    BY <1>7, AnswerBadlyForm DEF AnswerBadly, client
  <2>2. /\ pc = "negotiating" => request.body.cmd = "Negotiate"
        /\ pc = "challenged" => request.body.cmd = "SessionSetup"
    BY DEF IInv, Negotiating, Challenged, Granting, Waits
  <2> QED BY <2>1, <2>2 DEF Lengths
<1>8. ASSUME NEW a \in Auths \cup {None}, NEW t, Connect(a, t) PROVE Lengths'
  <2>1. auth' \in Credentials
    BY <1>8, SetupAssumption DEF Connect, Credentials, Anonymous
  <2> QED BY <1>8, <2>1 DEF Connect, Lengths
<1>9. CASE Ask \/ Served
  BY <1>9 DEF Ask, Served, client, Lengths
<1>10. CASE Unreachable \/ Lost \/ TimesOut
  BY <1>1, <1>10 DEF Unreachable, Lost, TimesOut, SocketFails, Breaks
<1>11. CASE UNCHANGED vars
  BY <1>11 DEF vars, client, Lengths, Taken
<1> QED BY <1>3, <1>4, <1>5, <1>6, <1>7, <1>8, <1>9, <1>10, <1>11
        DEF Next, Progress, Server, Caller

\* A request that is out has been sent as it can be read.
LEMMA ReadableStep ==
    ASSUME Lengths, RequestsReadable, [Next]_vars PROVE RequestsReadable'
<1>1. CASE SendNegotiate
  BY <1>1, SendNegotiateReadable
<1>2. CASE Take
  <2>1. CASE \E fault \in Faults : Refuse(fault)
    BY <2>1, EndsReadable DEF Refuse
  <2>2. ASSUME Faults = {}, LogOn \/ AskChallenge \/ Respond \/ Opened PROVE RequestsReadable'
    <3>1. Taken(Command[pc])
      BY <1>2, <2>2 DEF Take, Answered, Faults, Taken
    <3>2. CASE LogOn \/ AskChallenge
      <4>1. Taken("Negotiate")
        BY <3>1, <3>2 DEF LogOn, AskChallenge, Command
      <4> QED BY <3>2, <4>1, LogOnReadable, AskChallengeReadable
    <3>3. CASE Respond
      <4>1. Taken("SessionSetup")
        BY <3>1, <3>3 DEF Respond, Command
      <4> QED BY <3>3, <4>1, RespondReadable
    <3>4. CASE Opened
      BY <3>4 DEF Opened, RequestsReadable
    <3> QED BY <2>2, <3>2, <3>3, <3>4
  <2> QED BY <1>2, <2>1, <2>2 DEF Take
<1>3. CASE Ask
  BY <1>3, AskReadable
<1>4. CASE Unreachable \/ Lost \/ TimesOut
  BY <1>4, EndsReadable DEF Unreachable, Lost, TimesOut, SocketFails, Breaks
<1>5. CASE Server \/ Served \/ UNCHANGED vars \/ \E a, t : Connect(a, t)
  <2>1. request' = request \/ request' = None
    BY <1>5 DEF Server, AnswerNegotiate, AnswerSession, AnswerBadly, Served, Connect, vars
  <2> QED BY <2>1 DEF RequestsReadable
<1> QED BY <1>1, <1>2, <1>3, <1>4, <1>5 DEF Next, Progress, Caller
-----------------------------------------------------------------------------
(* The invariant. *)

\* It holds at first and every step keeps it.
LEMMA InitInv == Init => IInv
BY DEF Init, NoServer, IInv, Stages, ServerType, Apart, Negotiating, LoggingOn, Challenged,
       Responding, LoggedOn

LEMMA NextInv == IInv /\ [Next]_vars => IInv'
<1> SUFFICES ASSUME IInv, [Next]_vars PROVE IInv'
  OBVIOUS
<1>1. CASE UNCHANGED vars
  BY <1>1 DEF vars, client, IInv, Stages, ServerType, Apart, Negotiating, LoggingOn,
              Challenged, Responding, LoggedOn, Granting, Waits, Taken
<1>2. CASE Progress
  BY <1>2, SendNegotiateInv, TakeInv DEF Progress
<1>3. CASE Server
  BY <1>3, AnswerNegotiateInv, AnswerSessionInv, AnswerBadlyInv DEF Server
<1>4. ASSUME NEW a, NEW t, Connect(a, t) PROVE IInv'
  BY <1>4 DEF Connect, IInv, Stages, ServerType, Apart, Negotiating, LoggingOn, Challenged,
              Responding, LoggedOn
<1>5. CASE Ask
  BY <1>5, AskInv
<1>6. CASE Served
  BY <1>6 DEF Served, client, IInv, Stages, ServerType, Apart, Negotiating, LoggingOn,
              Challenged, Responding, LoggedOn
<1>7. CASE Unreachable \/ Lost \/ TimesOut
  BY <1>7, EndsInv DEF Unreachable, Lost, TimesOut, SocketFails, Breaks
<1> QED BY <1>1, <1>2, <1>3, <1>4, <1>5, <1>6, <1>7 DEF Next, Caller

\* What is known of either side in every stage (Cifs::setup_connection) holds.
THEOREM StagesHold == Spec => []IInv
BY InitInv, NextInv, PTL DEF Spec

\* Every request carries the uid the server has granted on this connection, and
\* none before that: the one field that authenticate_ntlmv2 puts into the header
\* by hand, and the two places that store it, agree.
THEOREM UidsGranted == Spec => []UidGranted
<1>1. IInv => UidGranted
  BY DEF IInv, Stages, Apart, Negotiating, LoggingOn, Challenged, Responding, LoggedOn,
         Granting, Waits, UidGranted
<1> QED BY <1>1, StagesHold, PTL

\* A secret answers the challenge of this connection's server, in the form it
\* announced, and only a connection with a challenge and a uid is opened.
THEOREM ChallengeAnswered == Spec => []AnswersChallenge
<1>1. IInv => AnswersChallenge
  BY SetupAssumption
     DEF IInv, Stages, Apart, Negotiating, LoggingOn, Challenged, Responding, LoggedOn,
         AnswersChallenge
<1> QED BY <1>1, StagesHold, PTL

\* Whatever ends the set-up, its error says truly whether the connection is lost,
\* whether the caller's time was up, and whether another try is worth while.
THEOREM ErrorsAreClassified == Spec => []ErrorsClassified
<1>1. Init => ErrorsClassified
  BY DEF Init, ErrorsClassified
<1>2. ErrorsClassified /\ [Next]_vars => ErrorsClassified'
  BY ClassifiedStep
<1> QED BY <1>1, <1>2, PTL DEF Spec

\* Whatever their lengths, a receiver that follows the counts, lengths and
\* positions in a request (Msg::write, smb/msg.rs, smb/trans2, ntlm/packet.rs)
\* finds each name, secret, packet, offset and count that was put in.
THEOREM RequestsAreReadable == Spec => []RequestsReadable
<1> DEFINE Inv == IInv /\ Lengths /\ RequestsReadable
<1>1. Init => Inv
  BY InitInv, SetupAssumption DEF Init, Lengths, Credentials, Anonymous, RequestsReadable
<1>2. Inv /\ [Next]_vars => Inv'
  BY NextInv, LengthsStep, ReadableStep
<1> QED BY <1>1, <1>2, PTL DEF Spec
=============================================================================
