----------------------------- MODULE CifsProofs -----------------------------
(* Proofs about the connection for every number of multiplex ids, every       *)
(* pipeline depth and every size of answer.                                   *)
EXTENDS CifsProps, SequenceTheorems, FunctionTheorems, FiniteSetTheorems,
        TLAPS

\* What the assumption on the constants says of their types.
LEMMA ConstantTypes == /\ {"Read", "Transact2"} \subseteq Commands
                       /\ Mids \in Nat \ {0}
                       /\ Depth \in Nat \ {0} /\ Depth <= Mids
                       /\ MaxParts \in Nat \ {0}
                       /\ MaxSent \in Nat
BY CifsAssumption DEF CifsAssumption

-----------------------------------------------------------------------------
(* Type correctness. *)

\* Replies are well typed, and so is what is left owed.
LEMMA ReplyTypes ==
    ASSUME NEW o \in OwedType
    PROVE  /\ Reply(o) \in ReplyType
           /\ Reply(o).mid = o.request.mid
           /\ Reply(o).serial = o.request.serial
           /\ [o EXCEPT !.part = @ + 1] \in OwedType
           /\ [o EXCEPT !.part = @ + 1].request = o.request
BY DEF Reply, ReplyType, OwedType, RequestType

\* The requests of a call that have no reply are requests.
LEMMA UnansweredTypes == ASSUME TypeOK PROVE Unanswered \subseteq RequestType
<1>1. /\ inFlight \in Seq(RequestType) /\ Len(results) \in Nat /\ Len(inFlight) \in Nat
  BY DEF TypeOK
<1>2. \A i \in (Len(results) + 1)..Len(inFlight) : i \in 1..Len(inFlight)
  BY <1>1
<1>3. \A i \in 1..Len(inFlight) : inFlight[i] \in RequestType
  BY <1>1
<1> QED BY <1>2, <1>3 DEF Unanswered

\* What accepting a reply, or failing, may leave of the call.
CallTyped == /\ pc' \in {"idle", "recv"}
             /\ call' = call
             /\ inFlight' \in Seq(RequestType)
             /\ results' \in Seq(ReplyType)
             /\ Len(results') <= Len(inFlight')
             /\ pc' = "recv" => Len(results') < Len(inFlight')
             /\ parts' \subseteq ReplyType
             /\ ret' \in {"none", "ok", "failed", "duplicate"}
             /\ dropped' \subseteq RequestType

\* A call that fails leaves the client well typed.
LEMMA FailType ==
    ASSUME TypeOK, NEW why \in {"failed", "duplicate"}, Fail(why)
    PROVE  CallTyped
<1>1. inFlight' = <<>> /\ results' = <<>> /\ parts' = {} /\ pc' = "idle" /\ call' = call
  BY DEF Fail
<1>2. /\ inFlight' \in Seq(RequestType) /\ results' \in Seq(ReplyType)
      /\ Len(results') <= Len(inFlight')
  BY <1>1
<1>3. ret' \in {"none", "ok", "failed", "duplicate"} /\ dropped' \subseteq RequestType
  BY UnansweredTypes DEF Fail, TypeOK
<1> QED BY <1>1, <1>2, <1>3 DEF CallTyped

\* Accepting a reply leaves the client well typed.
LEMMA AcceptType ==
    ASSUME TypeOK, pc = "recv", NEW reply \in ReplyType, Accept(reply)
    PROVE  CallTyped
<1>0. /\ results \in Seq(ReplyType) /\ Len(results) \in Nat /\ Len(inFlight) \in Nat
      /\ Len(results) < Len(inFlight)
  BY DEF TypeOK
<1>1. CASE Fail("failed")
  BY <1>1, FailType
<1>2. CASE Collect(reply)
  BY <1>0, <1>2 DEF Collect, TypeOK, CallTyped
<1>3. CASE TakeResult(reply)
  <2>1. results' \in Seq(ReplyType) /\ Len(results') = Len(results) + 1
    BY <1>0, <1>3, AppendProperties DEF TakeResult
  <2> QED BY <1>0, <1>3, <2>1 DEF TakeResult, TypeOK, CallTyped
<1> QED BY <1>1, <1>2, <1>3 DEF Accept

\* Every step keeps the types.
LEMMA TypeStep == TypeOK /\ [Next]_vars => TypeOK'
<1> SUFFICES ASSUME TypeOK, [Next]_vars PROVE TypeOK'
  OBVIOUS
<1>0. Mids \in Nat \ {0}
  BY ConstantTypes
<1>1. ASSUME NEW cmd \in Commands, NEW size \in 1..Depth, Begin(cmd, size) PROVE TypeOK'
  <2>1. call' \in [cmd : Commands, size : Nat]
    BY <1>1, ConstantTypes DEF Begin
  <2> QED BY <1>1, <2>1 DEF Begin, TypeOK, network
<1>2. CASE Send
  <2>1. mid' \in 0..(Mids - 1) /\ sent' \in Nat
    BY <1>0, <1>2 DEF Send, TakeMid, TypeOK
  <2> DEFINE request == Request(mid, sent, call.cmd)
  <2>2. request \in RequestType
    BY DEF TypeOK, Request, RequestType
  <2>3. inFlight' \in Seq(RequestType) /\ Len(inFlight') = Len(inFlight) + 1
    <3> HIDE DEF request
    <3>1. inFlight' = Append(inFlight, request)
      BY <1>2 DEF Send, request
    <3> QED BY <2>2, <3>1, AppendProperties DEF TypeOK
  <2>4. owed' \subseteq OwedType
    <3>1. PICK n \in 1..MaxParts :
             owed' = IF link = "up" THEN owed \cup {[request |-> request, part |-> 1, of |-> n]}
                     ELSE owed
      BY <1>2 DEF Send
    <3>2. [request |-> request, part |-> 1, of |-> n] \in OwedType
      BY <2>2, ConstantTypes DEF OwedType
    <3> QED BY <3>1, <3>2 DEF TypeOK
  <2>5. /\ pc' \in {"recv", "send"}
        /\ UNCHANGED <<pending, call, results, parts, ret, dropped, wire, link>>
    BY <1>2 DEF Send
  <2>6. Len(results') <= Len(inFlight') /\ Len(results') < Len(inFlight')
    BY <2>3, <2>5 DEF TypeOK
  <2> QED BY <2>1, <2>3, <2>4, <2>5, <2>6 DEF TypeOK
<1>3. CASE SendFails
  <2>1. mid' \in 0..(Mids - 1) /\ sent' \in Nat
    BY <1>0, <1>3 DEF SendFails, TakeMid, TypeOK
  <2>2. CallTyped /\ link' \in {link, "garbled"} /\ UNCHANGED <<pending, owed, wire>>
    BY <1>3, FailType DEF SendFails
  <2> QED BY <2>1, <2>2 DEF TypeOK, CallTyped
<1>4. CASE SendPanics
  <2>1. CallTyped
    BY <1>4, FailType DEF SendPanics
  <2> QED BY <1>4, <2>1 DEF SendPanics, TypeOK, CallTyped, network
<1>5. CASE TakeKept
  <2>1. PICK reply \in Kept : pending' = pending \ {reply} /\ Accept(reply)
    BY <1>5 DEF TakeKept
  <2>2. reply \in ReplyType /\ pc = "recv" /\ UNCHANGED <<mid, sent, network>>
    BY <1>5, <2>1 DEF TakeKept, Kept, TypeOK
  <2>3. CallTyped
    BY <2>1, <2>2, AcceptType
  <2> QED BY <2>1, <2>2, <2>3 DEF TypeOK, CallTyped, network
<1>6. CASE ReceiveFrame
  <2> DEFINE reply == Head(wire)
             same == {p \in pending : p.mid = reply.mid}
  <2>1. reply \in ReplyType /\ Tail(wire) \in Seq(ReplyType)
    BY <1>6, HeadTailProperties DEF ReceiveFrame, TypeOK
  <2>2. pc = "recv" /\ wire' = Tail(wire) /\ UNCHANGED <<mid, sent, owed, link>>
    BY <1>6 DEF ReceiveFrame
  <2>3. CASE reply.mid = Awaited.mid /\ Accept(reply) /\ UNCHANGED pending
    <3>1. CallTyped
      BY <2>1, <2>2, <2>3, AcceptType
    <3> QED BY <2>1, <2>2, <2>3, <3>1 DEF TypeOK, CallTyped
  <2>4. CASE /\ pending' = (pending \ same) \cup {reply}
             /\ IF same = {}
                THEN UNCHANGED <<pc, call, inFlight, results, parts, ret, dropped>>
                ELSE Fail("duplicate")
    <3>1. pending' \subseteq ReplyType /\ \A r1, r2 \in pending' : r1.mid = r2.mid => r1 = r2
      BY <2>1, <2>4 DEF TypeOK
    <3>2. CASE same = {}
      BY <2>1, <2>2, <2>4, <3>1, <3>2 DEF TypeOK
    <3>3. CASE same # {}
      <4>1. CallTyped
        BY <2>4, <3>3, FailType
      <4> QED BY <2>1, <2>2, <3>1, <4>1 DEF TypeOK, CallTyped
    <3> QED BY <3>2, <3>3
  <2> QED BY <1>6, <2>3, <2>4 DEF ReceiveFrame
<1>7. CASE ReceiveFails
  <2>1. CallTyped /\ UNCHANGED <<mid, sent, pending, owed, link>>
    BY <1>7, FailType DEF ReceiveFails
  <2>2. wire' \in Seq(ReplyType)
    <3>1. wire \in Seq(ReplyType) /\ (wire' = wire \/ (wire # <<>> /\ wire' = Tail(wire)))
      BY <1>7 DEF ReceiveFails, TypeOK
    <3> QED BY <3>1, HeadTailProperties
  <2> QED BY <2>1, <2>2 DEF TypeOK, CallTyped
<1>8. CASE ReceiveTimeout
  <2>1. CallTyped /\ UNCHANGED <<mid, sent, pending>>
    BY <1>8, FailType DEF ReceiveTimeout
  <2>2. UNCHANGED network \/ (owed' = {} /\ wire' = <<>> /\ link' = "garbled")
    BY <1>8 DEF ReceiveTimeout
  <2>3. owed' \subseteq OwedType /\ wire' \in Seq(ReplyType) /\ link' \in {link, "garbled"}
    <3>1. owed \subseteq OwedType /\ wire \in Seq(ReplyType)
      BY DEF TypeOK
    <3>2. CASE UNCHANGED network
      BY <3>1, <3>2 DEF network
    <3>3. CASE owed' = {} /\ wire' = <<>> /\ link' = "garbled"
      BY <3>3
    <3> QED BY <2>2, <3>2, <3>3
  <2> QED BY <2>1, <2>3 DEF TypeOK, CallTyped
<1>9. CASE Answer
  <2>1. PICK o \in owed :
          /\ wire' = Append(wire, Reply(o))
          /\ owed' \subseteq owed \cup {[o EXCEPT !.part = @ + 1]}
          /\ UNCHANGED <<client, link>>
    BY <1>9 DEF Answer
  <2>2. o \in OwedType
    BY <2>1 DEF TypeOK
  <2>3. wire' \in Seq(ReplyType)
    <3>1. Reply(o) \in ReplyType
      BY <2>2, ReplyTypes
    <3> QED BY <2>1, <3>1, AppendProperties DEF TypeOK
  <2>4. owed' \subseteq OwedType
    BY <2>1, <2>2, ReplyTypes DEF TypeOK
  <2> QED BY <2>1, <2>3, <2>4 DEF TypeOK, client
<1>10. CASE Lose
  BY <1>10 DEF Lose, TypeOK, client
<1>11. CASE UNCHANGED vars
  BY <1>11 DEF vars, client, network, TypeOK
<1> QED BY <1>1, <1>2, <1>3, <1>4, <1>5, <1>6, <1>7, <1>8, <1>9, <1>10, <1>11 DEF Next
-----------------------------------------------------------------------------
(* What a step does to the requests and replies there are. *)

\* What accepting a reply changes.
LEMMA AcceptEffect ==
    ASSUME TypeOK, pc = "recv", NEW reply \in ReplyType, Accept(reply)
    PROVE  \/ Fail("failed")
           \/ /\ UNCHANGED <<call, inFlight, dropped>>
              /\ pc' \in {"idle", "recv"}
              /\ \/ UNCHANGED results
                 \/ results' = Append(results, reply)
              /\ \/ UNCHANGED parts
                 \/ call.cmd = "Transact2" /\ parts' = parts \cup {reply}
BY DEF Accept, Collect, TakeResult

\* Failing leaves the shape of a call.
LEMMA FailShape ==
    ASSUME TypeOK, CallShape, NEW why, Fail(why)
    PROVE  CallShape'
<1>1. /\ call' = call /\ inFlight' = <<>> /\ results' = <<>> /\ parts' = {} /\ pc' = "idle"
      /\ Len(inFlight') = 0 /\ call.size \in Nat
  BY DEF Fail, TypeOK
<1> QED BY <1>1 DEF CallShape

\* Every step keeps the shape of a call.
LEMMA ShapeStep == ASSUME TypeOK, CallShape, [Next]_vars PROVE CallShape'
<1>1. ASSUME NEW cmd \in Commands, NEW size \in 1..Depth, Begin(cmd, size) PROVE CallShape'
  <2>1. size \in Nat \ {0} /\ size <= Depth
    BY ConstantTypes
  <2>2. /\ call' = [cmd |-> cmd, size |-> size] /\ (cmd # "Read" => size = 1)
        /\ inFlight' = <<>> /\ results' = <<>> /\ parts' = {}
    BY <1>1 DEF Begin
  <2>3. Len(inFlight') = 0
    BY <2>2
  <2> QED BY <2>1, <2>2, <2>3 DEF CallShape
<1>2. CASE Send
  <2> DEFINE request == Request(mid, sent, call.cmd)
  <2>1. request \in RequestType
    BY DEF TypeOK, Request, RequestType
  <2> HIDE DEF request
  <2>2. Len(inFlight') = Len(inFlight) + 1
    <3>1. inFlight' = Append(inFlight, request)
      BY <1>2 DEF Send, request
    <3> QED BY <2>1, <3>1, AppendProperties DEF TypeOK
  <2>3. /\ pc = "send" /\ UNCHANGED <<call, results, parts>>
        /\ pc' = IF Len(inFlight) + 1 = call.size THEN "recv" ELSE "send"
    BY <1>2 DEF Send
  <2>4. Len(inFlight) \in Nat /\ call.size \in Nat
    BY DEF TypeOK
  <2> QED BY <2>2, <2>3, <2>4 DEF CallShape
<1>3. CASE SendFails \/ SendPanics \/ ReceiveFails \/ ReceiveTimeout
  BY <1>3, FailShape DEF SendFails, SendPanics, ReceiveFails, ReceiveTimeout
<1>4. ASSUME NEW reply \in ReplyType, pc = "recv", Accept(reply) PROVE CallShape'
  <2>1. CASE Fail("failed")
    BY <2>1, FailShape
  <2>2. CASE ~Fail("failed")
    <3>1. UNCHANGED <<call, inFlight>> /\ pc' \in {"idle", "recv"}
          /\ (parts' # {} => parts # {} \/ call.cmd = "Transact2")
      BY <1>4, <2>2, AcceptEffect
    <3> QED BY <3>1 DEF CallShape
  <2> QED BY <2>1, <2>2
<1>5. CASE TakeKept
  BY <1>4, <1>5 DEF TakeKept, Kept, TypeOK
<1>6. CASE ReceiveFrame
  <2>1. Head(wire) \in ReplyType
    BY <1>6, HeadTailProperties DEF ReceiveFrame, TypeOK
  <2>2. \/ Accept(Head(wire))
        \/ UNCHANGED <<pc, call, inFlight, results, parts, ret, dropped>>
        \/ Fail("duplicate")
    BY <1>6 DEF ReceiveFrame
  <2>3. CASE UNCHANGED <<pc, call, inFlight, results, parts, ret, dropped>>
    BY <2>3 DEF CallShape
  <2> QED BY <1>4, <1>6, <2>1, <2>2, <2>3, FailShape DEF ReceiveFrame
<1>7. CASE Answer \/ Lose \/ UNCHANGED vars
  BY <1>7 DEF Answer, Lose, vars, client, CallShape
<1> QED BY <1>1, <1>2, <1>3, <1>5, <1>6, <1>7 DEF Next

\* A step that gives out no id moves requests and replies about, or forgets
\* them.
LEMMA Moves ==
    ASSUME TypeOK, [Next]_vars, ~Send, ~SendFails
    PROVE  /\ UNCHANGED <<mid, sent>>
           /\ dropped' = dropped \/ dropped' = dropped \cup Unanswered
           /\ inFlight' = <<>> \/ (inFlight' = inFlight /\ (pc' # "idle" => pc # "idle"))
           /\ \A o \in owed' : \E q \in owed : o.request = q.request
           /\ \A r \in pending' : r \in pending \/ (wire # <<>> /\ r = Head(wire))
           /\ \/ wire' = wire \/ wire' = <<>>
              \/ wire # <<>> /\ wire' = Tail(wire)
              \/ \E o \in owed : wire' = Append(wire, Reply(o))
<1>1. ASSUME NEW cmd \in Commands, NEW size \in 1..Depth, Begin(cmd, size)
      PROVE  UNCHANGED <<mid, sent, owed, pending, wire, dropped>> /\ inFlight' = <<>>
  BY <1>1 DEF Begin, network
<1>2. CASE SendPanics
  BY <1>2 DEF SendPanics, Fail, network
<1>3. CASE ReceiveFails
  BY <1>3 DEF ReceiveFails, Fail
<1>4. CASE ReceiveTimeout
  BY <1>4 DEF ReceiveTimeout, Fail, network
<1>5. CASE Lose \/ UNCHANGED vars
  BY <1>5 DEF Lose, vars, client, network
<1>6. ASSUME NEW reply \in ReplyType, pc = "recv", Accept(reply)
      PROVE  /\ inFlight' = <<>> \/ inFlight' = inFlight
             /\ dropped' = dropped \/ dropped' = dropped \cup Unanswered
  BY <1>6, AcceptEffect DEF Fail
<1>7. CASE TakeKept
  <2>1. PICK reply \in pending : pending' = pending \ {reply} /\ Accept(reply)
    BY <1>7 DEF TakeKept, Kept
  <2>2. reply \in ReplyType /\ pc = "recv" /\ UNCHANGED <<mid, sent, owed, wire>>
    BY <1>7, <2>1 DEF TakeKept, TypeOK, network
  <2> QED BY <1>6, <2>1, <2>2
<1>8. CASE ReceiveFrame
  <2>1. Head(wire) \in ReplyType /\ pc = "recv"
    BY <1>8, HeadTailProperties DEF ReceiveFrame, TypeOK
  <2>2. /\ inFlight' = <<>> \/ inFlight' = inFlight
        /\ dropped' = dropped \/ dropped' = dropped \cup Unanswered
    BY <1>6, <1>8, <2>1 DEF ReceiveFrame, Fail
  <2>3. /\ UNCHANGED <<mid, sent, owed>> /\ wire # <<>> /\ wire' = Tail(wire)
        /\ \A r \in pending' : r \in pending \/ r = Head(wire)
    BY <1>8 DEF ReceiveFrame
  <2> QED BY <2>1, <2>2, <2>3
<1>9. CASE Answer
  <2>1. PICK o \in owed :
          /\ wire' = Append(wire, Reply(o))
          /\ owed' \subseteq owed \cup {[o EXCEPT !.part = @ + 1]}
          /\ UNCHANGED client
    BY <1>9 DEF Answer
  <2>2. [o EXCEPT !.part = @ + 1].request = o.request
    BY <2>1, ReplyTypes DEF TypeOK
  <2> QED BY <2>1, <2>2 DEF client
<1> QED BY <1>1, <1>2, <1>3, <1>4, <1>5, <1>7, <1>8, <1>9 DEF Next

\* Serial numbers only grow, and a request that was given up stays so.
LEMMA Monotone ==
    ASSUME TypeOK, [Next]_vars
    PROVE  /\ sent \in Nat /\ sent' \in Nat /\ sent <= sent'
           /\ dropped \subseteq dropped'
           /\ NoneStale' => NoneStale
<1>1. sent \in Nat /\ Mids \in Nat /\ \A r \in dropped : r.serial \in Nat
  BY ConstantTypes DEF TypeOK, RequestType
<1>2. sent' = sent \/ sent' = sent + 1
  BY Moves DEF Send, SendFails, TakeMid
<1>3. dropped \subseteq dropped'
  BY Moves DEF Send, SendFails, Fail
<1>4. ASSUME NoneStale', NEW r \in dropped PROVE sent <= r.serial + Mids
  BY <1>1, <1>2, <1>3, <1>4 DEF NoneStale
<1> QED BY <1>1, <1>2, <1>3, <1>4 DEF NoneStale
-----------------------------------------------------------------------------
(* Which id stands for which request. *)

\* Requests and replies have an id and a serial number.
LEMMA KnownTypes ==
    ASSUME TypeOK
    PROVE  \A r \in Known : r.mid \in 0..(Mids - 1) /\ r.serial \in Nat
<1>1. \A i \in DOMAIN inFlight : inFlight[i] \in RequestType
  BY DEF TypeOK
<1>2. \A i \in DOMAIN wire : wire[i] \in ReplyType
  BY DEF TypeOK
<1>3. \A o \in owed : o.request \in RequestType
  BY DEF TypeOK, OwedType
<1>4. \A r \in Known : r \in RequestType \/ r \in ReplyType
  BY <1>1, <1>2, <1>3 DEF Known, TypeOK
<1> QED BY <1>4 DEF RequestType, ReplyType

\* Giving out an id makes every other one older by one.
LEMMA RecentStep ==
    ASSUME TypeOK, TakeMid \/ UNCHANGED <<mid, sent>>, NEW q, Recent(q), q.serial \in Nat,
           NEW r, r.mid = q.mid, r.serial = q.serial
    PROVE  Recent(r)'
<1>0. /\ mid \in Nat /\ mid < Mids /\ sent \in Nat /\ Mids \in Nat \ {0}
  BY ConstantTypes DEF TypeOK
<1>1. CASE TakeMid
  <2>1. sent' = sent + 1 /\ mid' = IF mid + 1 = Mids THEN 0 ELSE mid + 1
    BY <1>1 DEF TakeMid
  <2>2. CASE mid + 1 = Mids
    BY <1>0, <2>1, <2>2 DEF Recent, MidOf
  <2>3. CASE mid + 1 # Mids
    BY <1>0, <2>1, <2>3 DEF Recent, MidOf
  <2> QED BY <2>2, <2>3
<1>2. CASE UNCHANGED <<mid, sent>>
  BY <1>2 DEF Recent, MidOf
<1> QED BY <1>1, <1>2

\* The request that is made has the id given out last.
LEMMA RecentNew ==
    ASSUME TypeOK, TakeMid, NEW r, r.mid = mid, r.serial = sent
    PROVE  Recent(r)'
<1>1. /\ mid \in Nat /\ mid < Mids /\ sent \in Nat /\ Mids \in Nat \ {0}
      /\ sent' = sent + 1 /\ mid' = IF mid + 1 = Mids THEN 0 ELSE mid + 1
  BY ConstantTypes DEF TypeOK, TakeMid
<1> QED BY <1>1 DEF Recent, MidOf

\* What a call has yet to hear of is in flight.
LEMMA UnansweredKnown == ASSUME TypeOK PROVE Unanswered \subseteq Known
<1>1. \A i \in (Len(results) + 1)..Len(inFlight) : i \in DOMAIN inFlight
  BY DEF TypeOK
<1> QED BY <1>1 DEF Unanswered, Known

\* What is there after a step that gives out no id was there before, or answers
\* what was.
LEMMA KnownMoves ==
    ASSUME TypeOK, [Next]_vars, ~Send, ~SendFails
    PROVE  /\ UNCHANGED <<mid, sent>>
           /\ \A r \in Known' : \E q \in Known : r.mid = q.mid /\ r.serial = q.serial
<1>1. /\ UNCHANGED <<mid, sent>>
      /\ dropped' = dropped \/ dropped' = dropped \cup Unanswered
      /\ inFlight' = <<>> \/ inFlight' = inFlight
      /\ \A o \in owed' : \E q \in owed : o.request = q.request
      /\ \A r \in pending' : r \in pending \/ (wire # <<>> /\ r = Head(wire))
      /\ \/ wire' = wire \/ wire' = <<>>
         \/ wire # <<>> /\ wire' = Tail(wire)
         \/ \E o \in owed : wire' = Append(wire, Reply(o))
  BY Moves
<1>2. /\ wire \in Seq(ReplyType) /\ DOMAIN wire = 1..Len(wire) /\ Len(wire) \in Nat
  BY DEF TypeOK
<1>3. wire # <<>> => Head(wire) = wire[1] /\ 1 \in DOMAIN wire
  BY <1>2
<1>4. \A i \in DOMAIN wire' : \E q \in Known : wire'[i].mid = q.mid /\ wire'[i].serial = q.serial
  <2>1. CASE wire' = wire \/ wire' = <<>>
    BY <2>1 DEF Known
  <2>2. CASE wire # <<>> /\ wire' = Tail(wire)
    <3>1. \A i \in DOMAIN wire' : i + 1 \in DOMAIN wire /\ wire'[i] = wire[i + 1]
      BY <1>2, <2>2, HeadTailProperties
    <3> QED BY <3>1 DEF Known
  <2>3. ASSUME NEW o \in owed, wire' = Append(wire, Reply(o))
        PROVE  \A i \in DOMAIN wire' :
                  \E q \in Known : wire'[i].mid = q.mid /\ wire'[i].serial = q.serial
    <3> DEFINE reply == Reply(o)
    <3>1. reply \in ReplyType /\ reply.mid = o.request.mid /\ reply.serial = o.request.serial
      BY ReplyTypes DEF TypeOK
    <3> HIDE DEF reply
    <3>2. wire' = Append(wire, reply)
      BY <2>3 DEF reply
    <3>3. \A i \in DOMAIN wire' : (i \in DOMAIN wire /\ wire'[i] = wire[i]) \/ wire'[i] = reply
      BY <1>2, <3>1, <3>2, AppendProperties
    <3>4. o.request \in Known
      BY DEF Known
    <3> QED BY <3>1, <3>3, <3>4 DEF Known
  <2> QED BY <1>1, <2>1, <2>2, <2>3
<1>5. \A r \in pending' \cup dropped' : r \in Known
  BY <1>1, <1>3, UnansweredKnown DEF Known
<1>6. \A i \in DOMAIN inFlight' : inFlight'[i] \in Known
  BY <1>1 DEF Known
<1>7. \A o \in owed' : o.request \in Known
  BY <1>1 DEF Known
<1>8. \A r \in Known' : \/ r \in pending' \cup dropped'
                        \/ \E i \in DOMAIN inFlight' : r = inFlight'[i]
                        \/ \E o \in owed' : r = o.request
                        \/ \E i \in DOMAIN wire' : r = wire'[i]
  BY DEF Known
<1> QED BY <1>1, <1>4, <1>5, <1>6, <1>7, <1>8

\* Every step keeps ids and serial numbers together.
LEMMA MidsStep == ASSUME TypeOK, MidsRecent, [Next]_vars PROVE MidsRecent'
<1>0. \A r \in Known : Recent(r) /\ r.serial \in Nat
  BY KnownTypes DEF MidsRecent
<1>1. CASE Send
  <2> DEFINE request == Request(mid, sent, call.cmd)
  <2>1. request \in RequestType /\ request.mid = mid /\ request.serial = sent
    BY DEF TypeOK, Request, RequestType
  <2>2. inFlight \in Seq(RequestType) /\ inFlight' = Append(inFlight, request)
        /\ UNCHANGED <<pending, wire, dropped>> /\ TakeMid
        /\ \A o \in owed' : o \in owed \/ o.request = request
    BY <1>1 DEF Send, TypeOK
  <2> HIDE DEF request
  <2>3. \A i \in DOMAIN inFlight' :
          (i \in DOMAIN inFlight /\ inFlight'[i] = inFlight[i]) \/ inFlight'[i] = request
    BY <2>1, <2>2, AppendProperties
  <2>4. \A r \in Known' : r \in Known \/ (r.mid = mid /\ r.serial = sent)
    BY <2>1, <2>2, <2>3 DEF Known
  <2>5. \A r \in Known : Recent(r)'
    BY <1>0, <2>2, RecentStep
  <2>6. \A r : r.mid = mid /\ r.serial = sent => Recent(r)'
    BY <2>2, RecentNew
  <2> QED BY <2>4, <2>5, <2>6 DEF MidsRecent
<1>2. CASE SendFails
  <2>1. inFlight' = <<>> /\ UNCHANGED <<pending, wire, owed>> /\ TakeMid
        /\ dropped' = dropped \cup Unanswered
    BY <1>2 DEF SendFails, Fail
  <2>2. \A r \in Known' : r \in Known
    BY <2>1, UnansweredKnown DEF Known
  <2>3. \A r \in Known : Recent(r)'
    BY <1>0, <2>1, RecentStep
  <2> QED BY <2>2, <2>3 DEF MidsRecent
<1>3. CASE ~Send /\ ~SendFails
  <2>1. UNCHANGED <<mid, sent>> /\ \A r \in Known' :
          \E q \in Known : r.mid = q.mid /\ r.serial = q.serial
    BY <1>3, KnownMoves
  <2>2. \A r \in Known' : Recent(r)'
    BY <1>0, <2>1, RecentStep
  <2> QED BY <2>2 DEF MidsRecent
<1> QED BY <1>1, <1>2, <1>3

\* The requests of a call are the last ones made.
LEMMA LastStep == ASSUME TypeOK, CallShape, LastSent, [Next]_vars PROVE LastSent'
<1>1. CASE Send
  <2> DEFINE request == Request(mid, sent, call.cmd)
  <2>1. request \in RequestType /\ request.serial = sent
    BY DEF TypeOK, Request, RequestType
  <2>2. /\ inFlight \in Seq(RequestType) /\ Len(inFlight) \in Nat
        /\ DOMAIN inFlight = 1..Len(inFlight)
        /\ inFlight' = Append(inFlight, request) /\ sent \in Nat /\ sent' = sent + 1 /\ pc = "send"
    BY <1>1 DEF Send, TakeMid, TypeOK
  <2> HIDE DEF request
  <2>3. /\ Len(inFlight') = Len(inFlight) + 1 /\ DOMAIN inFlight' = 1..(Len(inFlight) + 1)
        /\ \A i \in 1..Len(inFlight) : inFlight'[i] = inFlight[i]
        /\ inFlight'[Len(inFlight) + 1] = request
    BY <2>1, <2>2, AppendProperties
  <2>4. ASSUME NEW i \in 1..Len(inFlight)
        PROVE  inFlight'[i].serial + Len(inFlight') + 1 = sent' + i
    <3>1. inFlight[i].serial \in Nat
      <4>1. inFlight[i] \in RequestType
        BY <2>2
      <4> QED BY <4>1 DEF RequestType
    <3>2. inFlight[i].serial + Len(inFlight) + 1 = sent + i
      BY <2>2 DEF LastSent
    <3> QED BY <2>2, <2>3, <3>1, <3>2
  <2>5. inFlight'[Len(inFlight) + 1].serial + Len(inFlight') + 1 = sent' + (Len(inFlight) + 1)
    BY <2>1, <2>2, <2>3
  <2> QED BY <2>2, <2>3, <2>4, <2>5 DEF LastSent
<1>2. CASE SendFails
  BY <1>2 DEF SendFails, Fail, LastSent
<1>3. CASE ~Send /\ ~SendFails
  <2>1. UNCHANGED sent
        /\ (inFlight' = <<>> \/ (inFlight' = inFlight /\ (pc' # "idle" => pc # "idle")))
    BY <1>3, Moves
  <2> QED BY <2>1 DEF LastSent
<1> QED BY <1>1, <1>2, <1>3
-----------------------------------------------------------------------------
(* Replies are matched to the requests they answer. *)

\* Of the last Mids requests no two have the same id.
LEMMA SameMid ==
    ASSUME TypeOK, NEW r1 \in Known, NEW r2 \in Known, Recent(r1), Recent(r2),
           sent <= r1.serial + Mids, sent <= r2.serial + Mids, r1.mid = r2.mid
    PROVE  r1.serial = r2.serial
<1>1. /\ r1.serial \in Nat /\ r2.serial \in Nat /\ sent \in Nat
      /\ mid \in Nat /\ mid < Mids /\ Mids \in Nat
  BY KnownTypes, ConstantTypes DEF TypeOK
<1> QED BY <1>1 DEF Recent, MidOf

\* What somebody expects is among the last Mids requests, if none that was given
\* up has become older.
LEMMA InWindow ==
    ASSUME TypeOK, CallShape, LastSent, NoneStale, NEW q \in Expected
    PROVE  q \in Known /\ sent <= q.serial + Mids
<1>1. CASE q \in dropped
  BY <1>1 DEF NoneStale, Known
<1>2. CASE q \notin dropped
  <2>1. q \in Unanswered /\ pc # "idle"
    BY <1>2 DEF Expected
  <2>2. PICK i \in (Len(results) + 1)..Len(inFlight) : q = inFlight[i]
    BY <2>1 DEF Unanswered
  <2>3. /\ i \in DOMAIN inFlight /\ i \in Nat \ {0}
        /\ Len(inFlight) \in Nat /\ inFlight[i] \in RequestType
    BY <2>2 DEF TypeOK
  <2>4. /\ inFlight[i].serial + Len(inFlight) + 1 = sent + i
        /\ inFlight[i].serial \in Nat /\ sent \in Nat
    BY <2>1, <2>3 DEF LastSent, RequestType, TypeOK
  <2>5. Len(inFlight) <= Mids
    <3>1. call.size \in Nat /\ Len(inFlight) <= call.size /\ call.size <= Depth
      BY DEF CallShape, TypeOK
    <3> QED BY <2>3, <3>1, ConstantTypes
  <2> QED BY <2>1, <2>2, <2>3, <2>4, <2>5, UnansweredKnown, ConstantTypes
<1> QED BY <1>1, <1>2

\* Two replies, or a reply and a request, that somebody expects and that have one
\* id have one serial number.
LEMMA ExpectedMid ==
    ASSUME TypeOK, CallShape, LastSent, MidsRecent, NoneStale,
           NEW q1 \in Expected, NEW q2 \in Expected, q1.mid = q2.mid
    PROVE  q1.serial = q2.serial
BY InWindow, SameMid DEF MidsRecent

\* The reply with the id awaited answers the request awaited.
LEMMA AwaitedReply ==
    ASSUME IInv, NoneStale, pc = "recv",
           NEW reply \in pending \cup {wire[i] : i \in DOMAIN wire}, reply.mid = Awaited.mid
    PROVE  reply.serial = Awaited.serial
<1>1. RequestOf(reply) \in Expected
  BY DEF IInv, Accounted
<1>2. RequestOf(reply).mid = reply.mid /\ RequestOf(reply).serial = reply.serial
  BY DEF RequestOf, Request
<1>3. Awaited \in Expected
  <2>1. Len(results) + 1 \in (Len(results) + 1)..Len(inFlight)
    BY DEF IInv, TypeOK
  <2> QED BY <2>1 DEF Expected, Unanswered, Awaited
<1> QED BY <1>1, <1>2, <1>3, ExpectedMid DEF IInv

\* The replies of a call stay its own when it takes the one awaited.
LEMMA AcceptOwn ==
    ASSUME IInv, pc = "recv", NoneStale, NEW reply \in ReplyType, Accept(reply),
           reply.serial = Awaited.serial
    PROVE  /\ \A i \in DOMAIN results' : results'[i].serial = inFlight'[i].serial
           /\ \A p \in parts' : p.serial = inFlight'[1].serial
<1>0. /\ TypeOK /\ CallShape
      /\ \A i \in DOMAIN results : results[i].serial = inFlight[i].serial
      /\ \A p \in parts : p.serial = inFlight[1].serial
  BY DEF IInv, OwnReplies
<1>1. /\ results \in Seq(ReplyType) /\ inFlight \in Seq(RequestType)
      /\ Len(results) \in Nat /\ Len(inFlight) \in Nat /\ Len(results) < Len(inFlight)
      /\ DOMAIN results = 1..Len(results)
  BY <1>0 DEF TypeOK
<1>2. reply.serial = inFlight[Len(results) + 1].serial
  BY DEF Awaited
<1>3. CASE Fail("failed")
  BY <1>3 DEF Fail
<1>4. ASSUME results' = Append(results, reply), NEW i \in DOMAIN results'
      PROVE  results'[i].serial = inFlight[i].serial
  <2>1. /\ Len(results') = Len(results) + 1 /\ results' \in Seq(ReplyType)
        /\ \A j \in 1..Len(results) : results'[j] = results[j]
        /\ results'[Len(results) + 1] = reply
    BY <1>1, <1>4, AppendProperties
  <2>2. i \in 1..Len(results) \/ i = Len(results) + 1
    BY <1>1, <2>1
  <2> QED BY <1>0, <1>1, <1>2, <2>1, <2>2
<1>5. ASSUME call.cmd = "Transact2" PROVE reply.serial = inFlight[1].serial
  <2>1. Len(inFlight) <= 1
    BY <1>0, <1>5 DEF CallShape
  <2>2. Len(results) + 1 = 1
    BY <1>1, <2>1
  <2> QED BY <1>2, <2>2
<1>6. CASE ~Fail("failed")
  <2>1. /\ UNCHANGED inFlight
        /\ UNCHANGED results \/ results' = Append(results, reply)
        /\ UNCHANGED parts \/ (call.cmd = "Transact2" /\ parts' = parts \cup {reply})
    BY <1>0, <1>6, AcceptEffect
  <2> QED BY <1>0, <1>4, <1>5, <2>1
<1> QED BY <1>3, <1>6

\* Every step keeps replies with the requests they answer.
LEMMA OwnStep == ASSUME IInv, [Next]_vars PROVE OwnReplies'
<1> DEFINE Own == /\ \A i \in DOMAIN results' : results'[i].serial = inFlight'[i].serial
                  /\ \A p \in parts' : p.serial = inFlight'[1].serial
<1> SUFFICES ASSUME NoneStale' PROVE Own
  BY DEF OwnReplies
<1>0. TypeOK /\ CallShape /\ OwnReplies /\ NoneStale
  BY Monotone DEF IInv
<1>1. ASSUME results' = <<>>, parts' = {} PROVE Own
  BY <1>1
<1>2. ASSUME UNCHANGED <<inFlight, results, parts>> PROVE Own
  BY <1>0, <1>2 DEF OwnReplies
<1>3. ASSUME NEW cmd \in Commands, NEW size \in 1..Depth, Begin(cmd, size) PROVE Own
  BY <1>1, <1>3 DEF Begin
<1>4. CASE Send
  BY <1>0, <1>1, <1>4 DEF Send, CallShape
<1>5. CASE SendFails \/ SendPanics \/ ReceiveFails \/ ReceiveTimeout
  BY <1>1, <1>5 DEF SendFails, SendPanics, ReceiveFails, ReceiveTimeout, Fail
<1>6. CASE Answer \/ Lose \/ UNCHANGED vars
  BY <1>2, <1>6 DEF Answer, Lose, vars, client
<1>7. CASE TakeKept
  <2>1. PICK reply \in pending : Accept(reply) /\ reply.mid = Awaited.mid
    BY <1>7 DEF TakeKept, Kept
  <2>2. pc = "recv" /\ reply \in ReplyType
    BY <1>0, <1>7, <2>1 DEF TakeKept, TypeOK
  <2> QED BY <1>0, <2>1, <2>2, AwaitedReply, AcceptOwn
<1>8. CASE ReceiveFrame
  <2> DEFINE reply == Head(wire)
  <2>1. pc = "recv" /\ wire # <<>> /\ wire \in Seq(ReplyType)
    BY <1>0, <1>8 DEF ReceiveFrame, TypeOK
  <2>2. reply \in ReplyType /\ reply \in pending \cup {wire[i] : i \in DOMAIN wire}
    <3>1. reply = wire[1] /\ 1 \in DOMAIN wire
      BY <2>1, HeadTailProperties
    <3> QED BY <2>1, <3>1
  <2>3. \/ reply.mid = Awaited.mid /\ Accept(reply)
        \/ UNCHANGED <<inFlight, results, parts>>
        \/ results' = <<>> /\ parts' = {}
    BY <1>8 DEF ReceiveFrame, Fail
  <2> HIDE DEF reply, Own
  <2>4. CASE reply.mid = Awaited.mid /\ Accept(reply)
    BY <1>0, <2>1, <2>2, <2>4, AwaitedReply, AcceptOwn DEF Own
  <2> QED BY <1>1, <1>2, <2>3, <2>4
<1> QED BY <1>3, <1>4, <1>5, <1>6, <1>7, <1>8 DEF Next
-----------------------------------------------------------------------------
(* Every part of an answer is in one place. *)

\* What is on its way is left, or its first reply is gone, or all of it.
Shortened == wire' = wire \/ wire' = <<>> \/ (wire # <<>> /\ wire' = Tail(wire))

\* A shortened wire is a part of it, further on.
LEMMA Shifted ==
    ASSUME TypeOK, Shortened
    PROVE  \E k \in Nat : \A i \in DOMAIN wire' :
             i \in Nat /\ i + k \in DOMAIN wire /\ wire'[i] = wire[i + k]
<1>1. wire \in Seq(ReplyType) /\ DOMAIN wire = 1..Len(wire) /\ Len(wire) \in Nat
  BY DEF TypeOK
<1>2. CASE wire' = wire
  <2>1. \A i \in DOMAIN wire' : i \in Nat /\ i + 0 \in DOMAIN wire /\ wire'[i] = wire[i + 0]
    BY <1>1, <1>2
  <2> QED BY <2>1
<1>3. CASE wire' = <<>>
  BY <1>3
<1>4. CASE wire # <<>> /\ wire' = Tail(wire)
  <2>1. \A i \in DOMAIN wire' : i \in Nat /\ i + 1 \in DOMAIN wire /\ wire'[i] = wire[i + 1]
    BY <1>1, <1>4, HeadTailProperties
  <2> QED BY <2>1
<1> QED BY <1>2, <1>3, <1>4 DEF Shortened

\* Every reply the connection holds is one.
LEMMA RepliesTyped ==
    ASSUME TypeOK
    PROVE  \A r \in pending \cup parts \cup {wire[i] : i \in DOMAIN wire} : r \in ReplyType
<1>1. \A i \in DOMAIN wire : wire[i] \in ReplyType
  BY DEF TypeOK
<1> QED BY <1>1 DEF TypeOK

\* A step that makes no reply and takes none only forgets some.
LEMMA PartsKept ==
    ASSUME TypeOK, PartsOnce, sent' \in Nat, sent <= sent', parts' = parts \/ parts' = {},
           pending' = pending, owed' \subseteq owed, Shortened
    PROVE  PartsOnce'
<1>1. sent \in Nat
  BY DEF TypeOK
<1>2. IsFiniteSet(parts') /\ parts' \subseteq parts
  BY FS_EmptySet DEF PartsOnce
<1>3. \A r \in ReplyType : r.serial < sent => r.serial < sent'
  BY <1>1 DEF ReplyType
<1>4. \A o \in OwedType : o.request.serial < sent => o.request.serial < sent'
  BY <1>1 DEF OwedType, RequestType
<1>5. PICK k \in Nat : \A i \in DOMAIN wire' :
        i \in Nat /\ i + k \in DOMAIN wire /\ wire'[i] = wire[i + k]
  BY Shifted
<1>6. \A i, j \in DOMAIN wire' : i # j => i + k # j + k
  BY <1>5
<1>7. \A i, j \in DOMAIN wire' : i # j => Apart(wire'[i], wire'[j])
  BY <1>5, <1>6 DEF PartsOnce
<1>8. \A i \in DOMAIN wire' : \A r \in pending' \cup parts' : Apart(wire'[i], r)
  BY <1>2, <1>5 DEF PartsOnce
<1>9. \A r \in pending' \cup parts' \cup {wire'[i] : i \in DOMAIN wire'} :
        r \in pending \cup parts \cup {wire[i] : i \in DOMAIN wire}
  BY <1>2, <1>5
<1>10. \A r \in pending' \cup parts' \cup {wire'[i] : i \in DOMAIN wire'} :
         /\ r.serial < sent' /\ r.part <= r.of /\ (r.cmd # "Transact2" => r.of = 1)
         /\ \A o \in owed' : r.serial = o.request.serial => r.of = o.of /\ r.part < o.part
  BY <1>3, <1>9, RepliesTyped DEF PartsOnce
<1>11. \A o \in owed' : o.request.serial < sent'
  BY <1>4 DEF PartsOnce, TypeOK
<1> QED BY <1>2, <1>7, <1>8, <1>10, <1>11 DEF PartsOnce, Apart

\* A request that is sent is new, and so is what is owed for it.
LEMMA PartsSend == ASSUME TypeOK, CallShape, PartsOnce, Send PROVE PartsOnce'
<1> DEFINE request == Request(mid, sent, call.cmd)
<1>1. PICK n \in 1..MaxParts :
         /\ call.cmd # "Transact2" => n = 1
         /\ owed' = IF link = "up" THEN owed \cup {[request |-> request, part |-> 1, of |-> n]}
                    ELSE owed
  BY DEF Send
<1>2. UNCHANGED <<pending, wire, parts>> /\ parts = {} /\ sent' = sent + 1 /\ sent \in Nat
  BY DEF Send, TakeMid, CallShape, TypeOK
<1> DEFINE o == [request |-> request, part |-> 1, of |-> n]
<1>3. /\ o.request.serial = sent /\ o.part <= o.of /\ o.request.cmd = call.cmd
      /\ o.request.cmd # "Transact2" => o.of = 1
  BY <1>1, ConstantTypes DEF Request
<1>4. \A q \in owed : q.request.serial # sent
  BY <1>2 DEF PartsOnce, TypeOK, OwedType, RequestType
<1>5. \A r \in pending \cup {wire[i] : i \in DOMAIN wire} : r.serial # sent /\ r.serial < sent + 1
  <2>1. \A r \in pending \cup {wire[i] : i \in DOMAIN wire} : r \in ReplyType
    BY RepliesTyped
  <2>2. \A r \in pending \cup {wire[i] : i \in DOMAIN wire} : r.serial < sent
    BY DEF PartsOnce
  <2> QED BY <1>2, <2>1, <2>2 DEF ReplyType
<1>6. \A q \in owed : q.request.serial < sent + 1
  BY <1>2 DEF PartsOnce, TypeOK, OwedType, RequestType
<1> HIDE DEF o
<1>7. owed' = owed \/ owed' = owed \cup {o}
  BY <1>1 DEF o
<1> QED BY <1>2, <1>3, <1>4, <1>5, <1>6, <1>7 DEF PartsOnce, Apart

\* What accepting a reply does to the parts that are collected.
LEMMA PartsAccept ==
    ASSUME TypeOK, pc = "recv", NEW reply \in ReplyType, Accept(reply), IsFiniteSet(parts)
    PROVE  /\ parts' \subseteq parts \cup {reply}
           /\ IsFiniteSet(parts')
<1>1. CASE Fail("failed")
  BY <1>1, FS_EmptySet DEF Fail
<1>2. CASE Collect(reply)
  BY <1>2, FS_AddElement DEF Collect
<1>3. CASE TakeResult(reply)
  BY <1>3 DEF TakeResult
<1> QED BY <1>1, <1>2, <1>3 DEF Accept

\* A kept reply is taken.
LEMMA PartsTakeKept == ASSUME TypeOK, PartsOnce, TakeKept PROVE PartsOnce'
<1>1. PICK reply \in pending : pending' = pending \ {reply} /\ Accept(reply)
  BY DEF TakeKept, Kept
<1>2. UNCHANGED <<sent, owed, wire>> /\ pc = "recv" /\ reply \in ReplyType
  BY <1>1 DEF TakeKept, network, TypeOK
<1>3. parts' \subseteq parts \cup {reply} /\ IsFiniteSet(parts')
  BY <1>1, <1>2, PartsAccept DEF PartsOnce
<1> QED BY <1>1, <1>2, <1>3 DEF PartsOnce, Apart

\* A frame is read: its reply is taken, or kept in the place of another.
LEMMA PartsReceive == ASSUME TypeOK, PartsOnce, ReceiveFrame PROVE PartsOnce'
<1> DEFINE reply == Head(wire)
<1>1. /\ wire \in Seq(ReplyType) /\ Len(wire) \in Nat /\ DOMAIN wire = 1..Len(wire) /\ wire # <<>>
      /\ UNCHANGED <<sent, owed>> /\ wire' = Tail(wire) /\ pc = "recv"
  BY DEF TypeOK, ReceiveFrame
<1>2. /\ reply \in ReplyType /\ reply = wire[1] /\ 1 \in DOMAIN wire
      /\ \A i \in DOMAIN wire' : i + 1 \in DOMAIN wire /\ i + 1 # 1 /\ wire'[i] = wire[i + 1]
  BY <1>1, HeadTailProperties
<1>3. \A i, j \in DOMAIN wire' : i # j => i + 1 # j + 1
  BY <1>1, <1>2
<1>4. /\ IsFiniteSet(parts')
      /\ \/ parts' \subseteq parts \cup {reply} /\ pending' = pending
         \/ parts' \subseteq parts /\ pending' \subseteq pending \cup {reply}
  BY <1>1, <1>2, PartsAccept, FS_EmptySet DEF ReceiveFrame, Fail, PartsOnce
<1> HIDE DEF reply
<1>5. /\ \A i \in DOMAIN wire' : /\ wire'[i] \in {wire[k] : k \in DOMAIN wire}
                                 /\ Apart(wire'[i], reply)
                                 /\ \A r \in pending \cup parts : Apart(wire'[i], r)
      /\ \A i, j \in DOMAIN wire' : i # j => Apart(wire'[i], wire'[j])
  BY <1>2, <1>3 DEF PartsOnce
<1>6. \A r \in pending \cup parts : Apart(r, reply) /\ Apart(reply, r)
  BY <1>2 DEF PartsOnce, Apart
<1>7. reply \in {wire[k] : k \in DOMAIN wire}
  BY <1>2
<1> QED BY <1>1, <1>4, <1>5, <1>6, <1>7 DEF PartsOnce

\* The server answers: the part it sends is no longer owed.
LEMMA PartsAnswer == ASSUME TypeOK, PartsOnce, Answer PROVE PartsOnce'
<1>1. PICK o \in owed :
        /\ wire' = Append(wire, Reply(o))
        /\ owed' \subseteq (owed \ {o}) \cup
                      (IF o.part < o.of THEN {[o EXCEPT !.part = @ + 1]} ELSE {})
        /\ UNCHANGED client
  BY DEF Answer
<1>2. o \in OwedType /\ UNCHANGED <<sent, pending, parts>>
  BY <1>1 DEF TypeOK, client
<1> DEFINE reply == Reply(o)
           rest == [o EXCEPT !.part = @ + 1]
<1>3. /\ reply \in ReplyType /\ reply.serial = o.request.serial /\ reply.part = o.part
      /\ reply.of = o.of /\ reply.cmd = o.request.cmd
      /\ rest \in OwedType /\ rest.request = o.request /\ rest.of = o.of /\ rest.part = o.part + 1
  BY <1>2, ReplyTypes DEF Reply, OwedType
<1>4. owed' \subseteq (owed \ {o}) \cup (IF o.part < o.of THEN {rest} ELSE {})
  BY <1>1
<1>5. o.part \in Nat /\ o.of \in Nat
  BY <1>2 DEF OwedType
<1> HIDE DEF reply, rest
<1>6. wire' = Append(wire, reply) /\ wire \in Seq(ReplyType)
  BY <1>1 DEF reply, TypeOK
<1>7. /\ DOMAIN wire' = 1..(Len(wire) + 1) /\ DOMAIN wire = 1..Len(wire) /\ Len(wire) \in Nat
      /\ \A i \in DOMAIN wire : wire'[i] = wire[i]
      /\ wire'[Len(wire) + 1] = reply
  BY <1>3, <1>6, AppendProperties
<1>8. \A i \in DOMAIN wire' : \/ i \in DOMAIN wire /\ wire'[i] = wire[i]
                              \/ i = Len(wire) + 1 /\ wire'[i] = reply
  BY <1>7
<1> DEFINE onWire == {wire[i] : i \in DOMAIN wire}
<1>9. \A r \in pending \cup parts \cup onWire : Apart(r, reply) /\ Apart(reply, r)
  <2>1. \A r \in pending \cup parts \cup onWire :
          r \in ReplyType /\ (r.serial = o.request.serial => r.of = o.of /\ r.part < o.part)
    BY RepliesTyped DEF PartsOnce
  <2> QED BY <1>3, <1>5, <2>1 DEF Apart, ReplyType
<1>10. \A q \in owed' : q \in OwedType /\ ((q \in owed /\ q # o) \/ (q = rest /\ o.part < o.of))
  BY <1>3, <1>4 DEF TypeOK
<1>11. \A r \in pending \cup parts \cup onWire \cup {reply} :
         \A q \in owed' : r.serial = q.request.serial => r.of = q.of /\ r.part < q.part
  <2>1. \A r \in pending \cup parts \cup onWire :
          r \in ReplyType /\ (r.serial = o.request.serial => r.of = o.of /\ r.part < o.part)
    BY RepliesTyped DEF PartsOnce
  <2>2. \A r \in pending \cup parts \cup onWire : \A q \in owed :
          r.serial = q.request.serial => r.of = q.of /\ r.part < q.part
    BY DEF PartsOnce
  <2>3. \A r \in pending \cup parts \cup onWire :
          r.serial = rest.request.serial => r.of = rest.of /\ r.part < rest.part
    BY <1>3, <1>5, <2>1 DEF ReplyType
  <2>4. \A q \in owed : q # o => reply.serial # q.request.serial
    BY <1>3 DEF PartsOnce
  <2>5. reply.of = rest.of /\ reply.part < rest.part
    BY <1>3, <1>5
  <2> QED BY <1>10, <2>2, <2>3, <2>4, <2>5
<1>12. \A q \in owed' : /\ q.request.serial < sent /\ q.part <= q.of
                        /\ q.request.cmd # "Transact2" => q.of = 1
  BY <1>3, <1>5, <1>10 DEF PartsOnce
<1>13. \A q1, q2 \in owed' : q1.request.serial = q2.request.serial => q1 = q2
  BY <1>3, <1>10 DEF PartsOnce
<1>14. reply.serial < sent /\ reply.part <= reply.of /\ (reply.cmd # "Transact2" => reply.of = 1)
  BY <1>3 DEF PartsOnce
<1>15. \A i, j \in DOMAIN wire' : i # j => Apart(wire'[i], wire'[j])
  BY <1>8, <1>9 DEF PartsOnce
<1>16. {wire'[i] : i \in DOMAIN wire'} \subseteq onWire \cup {reply}
  BY <1>8
<1>17. \A r \in pending' \cup parts' \cup {wire'[i] : i \in DOMAIN wire'} :
         /\ r.serial < sent' /\ r.part <= r.of /\ (r.cmd # "Transact2" => r.of = 1)
         /\ \A q \in owed' : r.serial = q.request.serial => r.of = q.of /\ r.part < q.part
  BY <1>2, <1>11, <1>14, <1>16 DEF PartsOnce
<1>18. \A i \in DOMAIN wire' : \A r \in pending' \cup parts' : Apart(wire'[i], r)
  BY <1>2, <1>8, <1>9 DEF PartsOnce
<1> HIDE DEF onWire
<1> QED BY <1>2, <1>12, <1>13, <1>15, <1>17, <1>18 DEF PartsOnce, Apart

\* Every step keeps every part in one place.
LEMMA PartsStep == ASSUME TypeOK, CallShape, PartsOnce, [Next]_vars PROVE PartsOnce'
<1>0. sent \in Nat
  BY DEF TypeOK
<1>1. ASSUME NEW cmd \in Commands, NEW size \in 1..Depth, Begin(cmd, size) PROVE PartsOnce'
  BY <1>0, <1>1, PartsKept DEF Begin, network, Shortened
<1>2. CASE SendFails
  BY <1>0, <1>2, PartsKept DEF SendFails, TakeMid, Fail, Shortened
<1>3. CASE SendPanics \/ ReceiveFails \/ ReceiveTimeout \/ Lose \/ UNCHANGED vars
  <2>1. /\ UNCHANGED <<sent, pending>> /\ (parts' = parts \/ parts' = {})
        /\ owed' \subseteq owed /\ Shortened
    BY <1>3
       DEF SendPanics, ReceiveFails, ReceiveTimeout, Lose, Fail, vars, client, network, Shortened
  <2> QED BY <1>0, <2>1, PartsKept
<1> QED BY <1>0, <1>1, <1>2, <1>3, PartsSend, PartsTakeKept, PartsReceive, PartsAnswer DEF Next
-----------------------------------------------------------------------------
(* What is left anywhere is expected. *)

\* Collected parts and one more, all different, are a whole answer when there
\* are enough of them.
LEMMA AllParts ==
    ASSUME IsFiniteSet(parts), NEW n \in Nat, NEW k \in 1..n, Cardinality(parts) + 1 >= n,
           \A p \in parts : p.part \in 1..n /\ p.part # k,
           \A p1, p2 \in parts : p1 # p2 => p1.part # p2.part
    PROVE  \A j \in 1..n : j = k \/ \E p \in parts : p.part = j
<1> DEFINE number == [p \in parts |-> p.part]
           numbers == {p.part : p \in parts}
           others == (1..n) \ {k}
<1>1. ExistsBijection(parts, numbers)
  <2>1. number \in [parts -> numbers]
    OBVIOUS
  <2>2. \A p1, p2 \in parts : number[p1] = number[p2] => p1 = p2
    OBVIOUS
  <2>3. \A t \in numbers : \E p \in parts : number[p] = t
    OBVIOUS
  <2> HIDE DEF number, numbers
  <2> QED BY <2>1, <2>2, <2>3, Fun_IsBij, Zenon DEF ExistsBijection
<1>2. IsFiniteSet(numbers) /\ Cardinality(numbers) = Cardinality(parts)
  BY <1>1, FS_Bijection
<1>3. IsFiniteSet(others) /\ Cardinality(others) = n - 1
  <2>1. IsFiniteSet(1..n) /\ Cardinality(1..n) = n
    BY FS_Interval
  <2> HIDE DEF others
  <2>2. IsFiniteSet((1..n) \ {k}) /\ Cardinality((1..n) \ {k}) = n - 1
    BY <2>1, FS_RemoveElement
  <2> QED BY <2>2 DEF others
<1>4. numbers \subseteq others
  OBVIOUS
<1>5. Cardinality(parts) \in Nat
  BY FS_CardinalityType
<1>6. numbers = others
  <2> HIDE DEF numbers, others
  <2>1. /\ Cardinality(numbers) <= n - 1
        /\ Cardinality(others) = Cardinality(numbers) => others = numbers
    BY <1>3, <1>4, FS_Subset
  <2> QED BY <1>2, <1>3, <1>5, <2>1
<1> QED BY <1>6

\* When the last reply to a request is taken, nothing more of it is left.
LEMMA NothingLeft ==
    ASSUME IInv, NoneStale, pc = "recv",
           NEW reply \in pending \cup {wire[i] : i \in DOMAIN wire},
           reply.mid = Awaited.mid, reply.cmd = call.cmd,
           ~(call.cmd = "Transact2" /\ Cardinality(parts) + 1 < reply.of)
    PROVE  /\ reply.serial = Awaited.serial
           /\ \A o \in owed : o.request.serial # reply.serial
           /\ \A r \in pending \cup {wire[i] : i \in DOMAIN wire} :
                Apart(r, reply) => r.serial # reply.serial
<1> DEFINE held == pending \cup {wire[i] : i \in DOMAIN wire}
<1>0. TypeOK /\ CallShape /\ PartsOnce /\ IsFiniteSet(parts)
  BY DEF IInv, PartsOnce
<1>2. /\ Len(results) \in Nat /\ Len(inFlight) \in Nat /\ Len(results) < Len(inFlight)
      /\ DOMAIN inFlight = 1..Len(inFlight)
  BY <1>0 DEF TypeOK
<1>3. reply.serial = Awaited.serial
  BY AwaitedReply
<1>4. \A p \in parts : p.serial = reply.serial
  <2>1. CASE parts = {}
    BY <2>1
  <2>2. CASE parts # {}
    <3>1. Len(results) + 1 = 1
      BY <1>0, <1>2, <2>2 DEF CallShape
    <3> QED BY <1>3, <3>1 DEF IInv, OwnReplies, Awaited
  <2> QED BY <2>1, <2>2
<1>5. \A r \in held \cup parts : r \in ReplyType
  BY <1>0, RepliesTyped
<1>6. \A r \in held \cup parts :
        /\ r.part \in Nat \ {0} /\ r.of \in Nat \ {0} /\ r.part <= r.of
        /\ r.cmd # "Transact2" => r.of = 1
  BY <1>0, <1>5 DEF PartsOnce, ReplyType
<1>7. \A r \in held, p \in parts : Apart(r, p)
  BY <1>0 DEF PartsOnce
<1>8. Cardinality(parts) \in Nat
  BY <1>0, FS_CardinalityType
<1>9. Cardinality(parts) + 1 >= reply.of
  <2>1. CASE call.cmd = "Transact2"
    BY <1>6, <1>8, <2>1
  <2>2. CASE call.cmd # "Transact2"
    BY <1>6, <1>8, <2>2
  <2> QED BY <2>1, <2>2
<1>10. \A p \in parts : p.of = reply.of /\ p.part # reply.part
  BY <1>4, <1>7 DEF Apart
<1>11. \A p1, p2 \in parts : p1 # p2 => p1.part # p2.part
  BY <1>0, <1>4 DEF PartsOnce, Apart
<1>12. \A j \in 1..reply.of : j = reply.part \/ \E p \in parts : p.part = j
  <2> DEFINE n == reply.of
             k == reply.part
  <2>1. n \in Nat /\ k \in 1..n
    BY <1>6
  <2>2. \A p \in parts : p.part \in 1..n /\ p.part # k
    BY <1>6, <1>10
  <2>3. Cardinality(parts) + 1 >= n
    BY <1>9
  <2> HIDE DEF n, k
  <2>4. \A j \in 1..n : j = k \/ \E p \in parts : p.part = j
    BY <1>0, <1>11, <2>1, <2>2, <2>3, AllParts
  <2> QED BY <2>4 DEF n, k
<1>13. ASSUME NEW r \in held, Apart(r, reply), r.serial = reply.serial PROVE FALSE
  <2>1. r.of = reply.of /\ r.part # reply.part /\ r.part \in 1..reply.of
    BY <1>6, <1>13 DEF Apart
  <2>2. PICK p \in parts : p.part = r.part
    BY <1>12, <2>1
  <2> QED BY <1>4, <1>7, <1>13, <2>2 DEF Apart
<1>14. ASSUME NEW o \in owed, o.request.serial = reply.serial PROVE FALSE
  <2>1. o.part \in Nat \ {0} /\ o.part <= o.of
    BY <1>0 DEF PartsOnce, TypeOK, OwedType
  <2>2. reply.of = o.of /\ reply.part < o.part
    BY <1>0, <1>14 DEF PartsOnce
  <2>3. o.part \in 1..reply.of /\ o.part # reply.part
    BY <1>6, <2>1, <2>2
  <2>4. PICK p \in parts : p.part = o.part
    BY <1>12, <2>3
  <2>5. p.part < o.part
    BY <1>0, <1>4, <1>14 DEF PartsOnce
  <2> QED BY <2>1, <2>4, <2>5
<1> QED BY <1>3, <1>13, <1>14

\* A call that fails is still expecting what it was expecting.
LEMMA FailExpected ==
    ASSUME pc # "idle", NEW why, Fail(why)
    PROVE  Expected' = Expected
BY DEF Expected, Fail, Unanswered

\* A call that takes a result expects the rest.
LEMMA TakeExpected ==
    ASSUME TypeOK, pc = "recv", NEW reply \in ReplyType, TakeResult(reply)
    PROVE  Expected \ {Awaited} \subseteq Expected'
<1>1. /\ results \in Seq(ReplyType) /\ Len(results) \in Nat /\ Len(inFlight) \in Nat
      /\ Len(results) < Len(inFlight)
  BY DEF TypeOK
<1>2. /\ Len(results') = Len(results) + 1 /\ inFlight' = inFlight /\ dropped' = dropped
      /\ pc' = IF Len(results) + 1 = Len(inFlight) THEN "idle" ELSE "recv"
  BY <1>1, AppendProperties DEF TakeResult
<1>3. ASSUME NEW i \in (Len(results) + 1)..Len(inFlight), inFlight[i] # Awaited
      PROVE  inFlight[i] \in Expected'
  <2>1. i # Len(results) + 1
    BY <1>3 DEF Awaited
  <2>2. i \in (Len(results') + 1)..Len(inFlight') /\ pc' = "recv"
    BY <1>1, <1>2, <2>1
  <2> QED BY <1>2, <2>2 DEF Expected, Unanswered
<1> QED BY <1>2, <1>3 DEF Expected, Unanswered

\* What is left when a reply was accepted is expected.
LEMMA AcceptExpected ==
    ASSUME IInv, NoneStale, pc = "recv",
           NEW reply \in pending \cup {wire[i] : i \in DOMAIN wire},
           reply.mid = Awaited.mid, Accept(reply)
    PROVE  /\ \A o \in owed : o.request \in Expected'
           /\ \A r \in pending \cup {wire[i] : i \in DOMAIN wire} :
                Apart(r, reply) => RequestOf(r) \in Expected'
<1> DEFINE held == pending \cup {wire[i] : i \in DOMAIN wire}
<1>0. TypeOK /\ reply \in ReplyType
  BY RepliesTyped DEF IInv
<1>1. /\ \A o \in owed : o.request \in Expected
      /\ \A r \in held : RequestOf(r) \in Expected
  BY DEF IInv, Accounted
<1>2. CASE Fail("failed")
  BY <1>1, <1>2, FailExpected
<1>3. CASE Collect(reply)
  <2>1. Expected' = Expected
    BY <1>3 DEF Collect, Expected, Unanswered
  <2> QED BY <1>1, <2>1
<1>4. CASE TakeResult(reply) /\ reply.cmd = call.cmd
           /\ ~(call.cmd = "Transact2" /\ Cardinality(parts) + 1 < reply.of)
  <2>1. /\ reply.serial = Awaited.serial
        /\ \A o \in owed : o.request.serial # reply.serial
        /\ \A r \in held : Apart(r, reply) => r.serial # reply.serial
    BY <1>4, NothingLeft
  <2>2. \A r \in held : RequestOf(r).serial = r.serial
    BY DEF RequestOf, Request
  <2> QED BY <1>0, <1>1, <1>4, <2>1, <2>2, TakeExpected
<1> QED BY <1>2, <1>3, <1>4 DEF Accept

\* Every step keeps what is left expected.
LEMMA AccountedStep == ASSUME IInv, [Next]_vars PROVE Accounted'
<1>0. /\ TypeOK /\ CallShape /\ PartsOnce /\ (NoneStale' => NoneStale)
      /\ \A i \in DOMAIN inFlight : inFlight[i].cmd = call.cmd
  BY Monotone DEF IInv, Accounted
<1>1. ASSUME NoneStale
      PROVE  /\ \A r \in pending : RequestOf(r) \in Expected
             /\ \A i \in DOMAIN wire : RequestOf(wire[i]) \in Expected
             /\ \A o \in owed : o.request \in Expected
  BY <1>1 DEF IInv, Accounted
<1>2. ASSUME pending' = pending, owed' \subseteq owed, Shortened,
             Expected \subseteq Expected',
             UNCHANGED <<inFlight, call>> \/ inFlight' = <<>>
      PROVE  Accounted'
  <2>1. PICK k \in Nat : \A i \in DOMAIN wire' : i + k \in DOMAIN wire /\ wire'[i] = wire[i + k]
    BY <1>0, <1>2, Shifted
  <2> QED BY <1>0, <1>1, <1>2, <2>1 DEF Accounted
<1>4. ASSUME NEW cmd \in Commands, NEW size \in 1..Depth, Begin(cmd, size) PROVE Accounted'
  <2>1. Expected \subseteq Expected'
    BY <1>4 DEF Begin, Expected
  <2> QED BY <1>2, <1>4, <2>1 DEF Begin, network, Shortened
<1>5. CASE Send
  <2> DEFINE request == Request(mid, sent, call.cmd)
  <2>1. /\ request \in RequestType /\ request.cmd = call.cmd
        /\ inFlight \in Seq(RequestType) /\ Len(inFlight) \in Nat /\ results = <<>>
    BY <1>0, <1>5 DEF TypeOK, Request, RequestType, Send, CallShape
  <2>2. \A o \in owed' : o \in owed \/ o.request = request
    BY <1>5 DEF Send
  <2>4. /\ UNCHANGED <<pending, wire, call, dropped, results>>
        /\ pc = "send" /\ pc' \in {"send", "recv"}
    BY <1>5 DEF Send
  <2> HIDE DEF request
  <2>5. inFlight' = Append(inFlight, request)
    BY <1>5 DEF Send, request
  <2>6. /\ DOMAIN inFlight' = 1..(Len(inFlight) + 1) /\ DOMAIN inFlight = 1..Len(inFlight)
        /\ Len(inFlight') = Len(inFlight) + 1
        /\ \A i \in 1..Len(inFlight) : inFlight'[i] = inFlight[i]
        /\ inFlight'[Len(inFlight) + 1] = request
    BY <2>1, <2>5, AppendProperties
  <2>7. Unanswered \subseteq Unanswered' /\ request \in Unanswered'
    <3>1. Len(results) = 0
      BY <2>1
    <3>2. \A i \in 1..Len(inFlight) : i \in 1..Len(inFlight') /\ inFlight[i] = inFlight'[i]
      BY <2>1, <2>6
    <3>3. Len(inFlight) + 1 \in 1..Len(inFlight')
      BY <2>1, <2>6
    <3> QED BY <2>4, <2>6, <3>1, <3>2, <3>3 DEF Unanswered
  <2>8. Expected \subseteq Expected' /\ request \in Expected'
    BY <2>4, <2>7 DEF Expected
  <2>9. \A i \in DOMAIN inFlight' : inFlight'[i].cmd = call'.cmd
    <3>1. \A i \in DOMAIN inFlight' : i \in DOMAIN inFlight \/ i = Len(inFlight) + 1
      BY <2>1, <2>6
    <3> QED BY <1>0, <2>1, <2>4, <2>6, <3>1 DEF request
  <2> QED BY <1>0, <1>1, <2>2, <2>4, <2>8, <2>9 DEF Accounted
<1>6. CASE SendFails \/ SendPanics \/ ReceiveFails \/ ReceiveTimeout
  <2>1. Expected' = Expected
    BY <1>6, FailExpected DEF SendFails, SendPanics, ReceiveFails, ReceiveTimeout
  <2>2. inFlight' = <<>> /\ pending' = pending /\ owed' \subseteq owed /\ Shortened
    BY <1>6 DEF SendFails, SendPanics, ReceiveFails, ReceiveTimeout, Fail, network, Shortened
  <2> QED BY <1>2, <2>1, <2>2
<1>8. CASE TakeKept
  <2>1. PICK reply \in pending :
          reply.mid = Awaited.mid /\ pending' = pending \ {reply} /\ Accept(reply)
    BY <1>8 DEF TakeKept, Kept
  <2>2. UNCHANGED <<sent, owed, wire>> /\ pc = "recv" /\ reply \in ReplyType
    BY <1>0, <1>8 DEF TakeKept, network, TypeOK
  <2>3. call' = call /\ (inFlight' = inFlight \/ inFlight' = <<>>)
    BY <1>0, <2>1, <2>2, AcceptEffect DEF Fail
  <2>4. /\ \A r \in pending' : Apart(r, reply)
        /\ \A i \in DOMAIN wire : Apart(wire[i], reply)
    BY <1>0, <2>1 DEF PartsOnce
  <2>5. ASSUME NoneStale
        PROVE  /\ \A o \in owed : o.request \in Expected'
               /\ \A r \in pending \cup {wire[i] : i \in DOMAIN wire} :
                    Apart(r, reply) => RequestOf(r) \in Expected'
    BY <2>1, <2>2, <2>5, AcceptExpected
  <2> QED BY <1>0, <2>1, <2>2, <2>3, <2>4, <2>5 DEF Accounted
<1>9. CASE ReceiveFrame
  <2> DEFINE reply == Head(wire)
  <2>1. /\ wire \in Seq(ReplyType) /\ Len(wire) \in Nat /\ DOMAIN wire = 1..Len(wire) /\ wire # <<>>
        /\ UNCHANGED <<sent, owed>> /\ wire' = Tail(wire) /\ pc = "recv"
    BY <1>0, <1>9 DEF TypeOK, ReceiveFrame
  <2>2. /\ reply \in ReplyType /\ reply = wire[1] /\ 1 \in DOMAIN wire
        /\ \A i \in DOMAIN wire' : i + 1 \in DOMAIN wire /\ i + 1 # 1 /\ wire'[i] = wire[i + 1]
    BY <2>1, HeadTailProperties
  <2>3. \/ reply.mid = Awaited.mid /\ Accept(reply) /\ UNCHANGED pending
        \/ /\ pending' \subseteq pending \cup {reply}
           /\ UNCHANGED <<pc, call, inFlight, results, dropped>> \/ Fail("duplicate")
    BY <1>9 DEF ReceiveFrame
  <2> HIDE DEF reply
  <2>4. /\ \A r \in pending : Apart(r, reply)
        /\ \A i \in DOMAIN wire' : Apart(wire'[i], reply)
    BY <1>0, <2>2 DEF PartsOnce, Apart
  <2>5. CASE reply.mid = Awaited.mid /\ Accept(reply) /\ UNCHANGED pending
    <3>1. call' = call /\ (inFlight' = inFlight \/ inFlight' = <<>>)
      BY <1>0, <2>1, <2>2, <2>5, AcceptEffect DEF Fail
    <3>2. reply \in pending \cup {wire[i] : i \in DOMAIN wire}
      BY <2>2
    <3>3. ASSUME NoneStale
          PROVE  /\ \A o \in owed : o.request \in Expected'
                 /\ \A r \in pending \cup {wire[i] : i \in DOMAIN wire} :
                      Apart(r, reply) => RequestOf(r) \in Expected'
      BY <2>1, <2>5, <3>2, <3>3, AcceptExpected
    <3> QED BY <1>0, <2>1, <2>2, <2>4, <2>5, <3>1, <3>3 DEF Accounted
  <2>6. CASE /\ pending' \subseteq pending \cup {reply}
             /\ UNCHANGED <<pc, call, inFlight, results, dropped>> \/ Fail("duplicate")
    <3>1. Expected' = Expected /\ call' = call /\ (inFlight' = inFlight \/ inFlight' = <<>>)
      BY <2>1, <2>6, FailExpected DEF Expected, Unanswered, Fail
    <3> QED BY <1>0, <1>1, <2>1, <2>2, <2>6, <3>1 DEF Accounted
  <2> QED BY <2>3, <2>5, <2>6
<1>10. CASE Answer
  <2>1. PICK o \in owed :
          /\ wire' = Append(wire, Reply(o))
          /\ owed' \subseteq owed \cup {[o EXCEPT !.part = @ + 1]}
          /\ UNCHANGED client
    BY <1>10 DEF Answer
  <2>2. /\ Reply(o) \in ReplyType /\ [o EXCEPT !.part = @ + 1].request = o.request
        /\ RequestOf(Reply(o)) = o.request
    <3>1. o \in OwedType /\ o.request \in RequestType
      BY <1>0 DEF TypeOK, OwedType
    <3> QED BY <3>1, ReplyTypes DEF RequestOf, Request, Reply, RequestType
  <2>3. Expected' = Expected /\ UNCHANGED <<sent, inFlight, call, pending>>
    BY <2>1 DEF client, Expected, Unanswered
  <2> DEFINE reply == Reply(o)
  <2> HIDE DEF reply
  <2>4. wire' = Append(wire, reply) /\ reply \in ReplyType /\ RequestOf(reply) = o.request
    BY <2>1, <2>2 DEF reply
  <2>5. \A i \in DOMAIN wire' : (i \in DOMAIN wire /\ wire'[i] = wire[i]) \/ wire'[i] = reply
    BY <1>0, <2>4, AppendProperties DEF TypeOK
  <2>6. \A q \in owed' : \E q0 \in owed : q.request = q0.request
    BY <2>1, <2>2
  <2>7. ASSUME NoneStale
        PROVE  /\ \A i \in DOMAIN wire' : RequestOf(wire'[i]) \in Expected'
               /\ \A q \in owed' : q.request \in Expected'
    BY <1>1, <2>3, <2>4, <2>5, <2>6, <2>7
  <2> QED BY <1>0, <1>1, <2>3, <2>7 DEF Accounted
<1>11. CASE Lose \/ UNCHANGED vars
  <2>1. /\ Expected' = Expected /\ UNCHANGED <<inFlight, call, pending>>
        /\ owed' \subseteq owed /\ Shortened
    BY <1>11 DEF Lose, vars, client, network, Expected, Unanswered, Shortened
  <2> QED BY <1>2, <2>1
<1> QED BY <1>4, <1>5, <1>6, <1>8, <1>9, <1>10, <1>11 DEF Next
-----------------------------------------------------------------------------
(* The theorems. *)

\* The inductive invariant holds throughout: every part of an answer is in one
\* place, what is owed, on its way or kept is expected by somebody, and an id
\* stands for the last request that it was given to.
THEOREM Invariant == Spec => []IInv
<1>1. Init => IInv
  <2> SUFFICES ASSUME Init PROVE IInv
    OBVIOUS
  <2>1. TypeOK
    BY ConstantTypes DEF Init, TypeOK
  <2>2. DOMAIN wire = {} /\ DOMAIN inFlight = {} /\ Len(inFlight) = 0 /\ IsFiniteSet(parts)
    BY FS_EmptySet DEF Init
  <2>3. Known = {}
    BY <2>2 DEF Init, Known
  <2>4. CallShape /\ LastSent /\ MidsRecent
    BY <2>2, <2>3, ConstantTypes DEF Init, CallShape, LastSent, MidsRecent
  <2>5. PartsOnce /\ Accounted /\ OwnReplies
    BY <2>2 DEF Init, PartsOnce, Accounted, OwnReplies
  <2> QED BY <2>1, <2>4, <2>5 DEF IInv
<1>2. IInv /\ [Next]_vars => IInv'
  <2> SUFFICES ASSUME IInv, [Next]_vars PROVE IInv'
    OBVIOUS
  <2>1. TypeOK' /\ CallShape' /\ LastSent'
    BY TypeStep, ShapeStep, LastStep DEF IInv
  <2>2. MidsRecent' /\ PartsOnce'
    BY MidsStep, PartsStep DEF IInv
  <2>3. Accounted' /\ OwnReplies'
    BY AccountedStep, OwnStep
  <2> QED BY <2>1, <2>2, <2>3 DEF IInv
<1> QED BY <1>1, <1>2, PTL DEF Spec

\* The connection's variables keep their types, and no id has two replies kept.
THEOREM TypeCorrect == Spec => []TypeOK
<1>1. IInv => TypeOK
  BY DEF IInv
<1> QED BY <1>1, Invariant, PTL

\* Every call gets the replies to its own requests, however often the multiplex
\* ids come round and in whatever order the server answers, as long as no id of
\* a request that was given up is given out again.
THEOREM RepliesAreOwn == Spec => []OwnReplies
<1>1. IInv => OwnReplies
  BY DEF IInv
<1> QED BY <1>1, Invariant, PTL

\* A call that ends well leaves nothing behind: with the same proviso, what is
\* kept, on its way or owed belongs to the call under way or to one that failed.
THEOREM NothingUnaccounted == Spec => []AllAccountedFor
<1>1. IInv => AllAccountedFor
  <2> SUFFICES ASSUME IInv, NoneStale
               PROVE  LET expected == {r.serial : r \in dropped} \cup
                            (IF pc = "idle" THEN {} ELSE {r.serial : r \in Unanswered})
                      IN  /\ \A r \in pending : r.serial \in expected
                          /\ \A i \in DOMAIN wire : wire[i].serial \in expected
                          /\ \A o \in owed : o.request.serial \in expected
    BY DEF AllAccountedFor
  <2>1. \A r : RequestOf(r).serial = r.serial
    BY DEF RequestOf, Request
  <2> QED BY <2>1 DEF IInv, Accounted, Expected
<1> QED BY <1>1, Invariant, PTL

\* With the same proviso, the only way to "duplicate pending SMB reply" is a
\* Transact2 that was given up before its whole answer had come.
THEOREM DuplicatesExplained == Spec => DuplicateExplained
<1> DEFINE Explained == ret # "duplicate" /\ ret' = "duplicate" /\ NoneStale
                          => \E r \in dropped : r.cmd = "Transact2"
<1>1. IInv /\ [Next]_vars => [Explained]_vars
  <2> SUFFICES ASSUME IInv, [Next]_vars, ret # "duplicate", ret' = "duplicate", NoneStale
               PROVE  \E r \in dropped : r.cmd = "Transact2"
    OBVIOUS
  <2>0. /\ TypeOK /\ CallShape /\ PartsOnce
        /\ \A i \in DOMAIN inFlight : inFlight[i].cmd = call.cmd
        /\ \A r \in pending : RequestOf(r) \in Expected
        /\ \A i \in DOMAIN wire : RequestOf(wire[i]) \in Expected
    BY DEF IInv, Accounted
  <2>1. ReceiveFrame
    <3>1. ~TakeKept
      BY DEF TakeKept, Accept, Fail, Collect, TakeResult
    <3> QED BY <3>1 DEF Next, Begin, Send, SendFails, SendPanics, ReceiveFails, ReceiveTimeout,
                        Answer, Lose, Fail, vars, client
  <2> DEFINE reply == Head(wire)
  <2>2. PICK p \in pending : p.mid = reply.mid /\ reply.mid # Awaited.mid /\ pc = "recv"
    BY <2>1 DEF ReceiveFrame, Accept, Fail, Collect, TakeResult
  <2>3. /\ reply = wire[1] /\ 1 \in DOMAIN wire /\ wire[1] \in ReplyType /\ p \in ReplyType
    BY <2>0, <2>1, HeadTailProperties DEF ReceiveFrame, TypeOK
  <2> HIDE DEF reply
  <2>4. p.serial = reply.serial
    <3>1. \A r : RequestOf(r).mid = r.mid /\ RequestOf(r).serial = r.serial
      BY DEF RequestOf, Request
    <3> QED BY <2>0, <2>2, <2>3, <3>1, ExpectedMid DEF IInv
  <2>5. reply.of = p.of /\ reply.part # p.part /\ reply.part <= reply.of /\ p.part <= p.of
    BY <2>0, <2>3, <2>4 DEF PartsOnce, Apart
  <2>6. p.cmd = "Transact2"
    <3>1. /\ reply.part \in Nat \ {0} /\ p.part \in Nat \ {0} /\ p.of \in Nat
      BY <2>3 DEF ReplyType
    <3>2. p.of # 1
      BY <2>5, <3>1
    <3> QED BY <2>0, <3>2 DEF PartsOnce
  <2>7. RequestOf(p).cmd = "Transact2" /\ RequestOf(p).mid = p.mid
    BY <2>6 DEF RequestOf, Request
  <2>8. RequestOf(p) \notin Unanswered
    <3> SUFFICES ASSUME RequestOf(p) \in Unanswered PROVE FALSE
      OBVIOUS
    <3>1. PICK i \in (Len(results) + 1)..Len(inFlight) : RequestOf(p) = inFlight[i]
      BY DEF Unanswered
    <3>2. Len(results) \in Nat /\ Len(inFlight) \in Nat /\ i \in DOMAIN inFlight
      BY <2>0, <3>1 DEF TypeOK
    <3>3. call.cmd = "Transact2"
      BY <2>0, <2>7, <3>1, <3>2
    <3>4. i = Len(results) + 1
      BY <2>0, <3>2, <3>3 DEF CallShape
    <3> QED BY <2>2, <2>7, <3>1, <3>4 DEF Awaited
  <2> QED BY <2>0, <2>7, <2>8 DEF Expected
<1> QED BY <1>1, Invariant, PTL DEF Spec, DuplicateExplained
=============================================================================
