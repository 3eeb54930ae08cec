-------------------------------- MODULE Cifs --------------------------------
(* The connection of src/lib.rs: requests carry a multiplex id, replies are   *)
(* matched to them by it, and a reply that comes while another is awaited is  *)
(* kept in pending_replies.  One call runs at a time (&mut self): a single    *)
(* command, a Transact2 (answered in parts) or a batch of pipelined reads.    *)
(* It can be dropped by its timeout at each of its awaits.                    *)
(*                                                                            *)
(* Every request has a serial number, which the code does not have: it is the *)
(* identity that a multiplex id stands for.  The server and the network are   *)
(* modelled from how the code uses them.                                      *)
EXTENDS Integers, Sequences, FiniteSets

CONSTANTS Commands, \* "Read", "Transact2" and others, which are alike
          Mids,     \* number of multiplex ids: 2^16, mid being a u16
          Depth,    \* the largest batch of reads: the pipeline depth, at most 16
          MaxParts, \* the most parts a Transact2 is answered in
          MaxSent   \* bound on the requests of a behaviour

ASSUME CifsAssumption ==
    /\ {"Read", "Transact2"} \subseteq Commands
    /\ Mids \in Nat \ {0}
    /\ Depth \in 1..Mids
    /\ MaxParts \in Nat \ {0}
    /\ MaxSent \in Nat

VARIABLES
    mid,      \* the next multiplex id
    sent,     \* how many were given out: the next serial number
    pending,  \* pending_replies, at most one reply for each mid
    pc,       \* where the call under way stands
    call,     \* the call under way, or the last one: its command and size
    inFlight, \* its requests so far
    results,  \* the replies it has taken, in the order of its requests
    parts,    \* the parts of a Transact2 reply it has collected
    ret,      \* how the last call ended: "ok", "failed" or "duplicate"
    dropped,  \* requests whose call ended before their reply was taken
    owed,     \* server: requests it has still to answer, with the next part
    wire,     \* replies on their way to the client, in order
    link      \* "up", "garbled" (one side reads out of step) or "lost"

client == <<mid, sent, pending, pc, call, inFlight, results, parts, ret, dropped>>
network == <<owed, wire, link>>
vars == <<client, network>>

Request(m, s, c) == [mid |-> m, serial |-> s, cmd |-> c]

Init == /\ mid = 0
        /\ sent = 0
        /\ pending = {}
        /\ pc = "idle"
        /\ call = [cmd |-> "Read", size |-> 1]
        /\ inFlight = <<>>
        /\ results = <<>>
        /\ parts = {}
        /\ ret = "none"
        /\ dropped = {}
        /\ owed = {}
        /\ wire = <<>>
        /\ link = "up"
-----------------------------------------------------------------------------
(* Beginning and ending a call. *)

Begin(cmd, size) == /\ pc = "idle"
                    /\ sent + size <= MaxSent
                    /\ cmd # "Read" => size = 1
                    /\ pc' = "send"
                    /\ call' = [cmd |-> cmd, size |-> size]
                    /\ inFlight' = <<>>
                    /\ results' = <<>>
                    /\ parts' = {}
                    /\ ret' = "none"
                    /\ UNCHANGED <<mid, sent, pending, dropped, network>>

\* The requests of the call under way whose reply it has not taken.
Unanswered == {inFlight[i] : i \in Len(results) + 1 .. Len(inFlight)}

\* A call that fails or is dropped forgets what it has and what it waits for.
Fail(why) == /\ pc' = "idle"
             /\ ret' = why
             /\ dropped' = dropped \cup Unanswered
             /\ inFlight' = <<>>
             /\ results' = <<>>
             /\ parts' = {}
             /\ UNCHANGED call
-----------------------------------------------------------------------------
(* send: give out a multiplex id and write the message. *)

\* Fault: an id is given out for each call, not for each message.
TakeMidForCall == /\ mid' = IF Len(inFlight) + 1 < call.size THEN mid
                            ELSE IF mid + 1 = Mids THEN 0 ELSE mid + 1
                  /\ sent' = sent + 1

TakeMid == /\ mid' = IF mid + 1 = Mids THEN 0 ELSE mid + 1
           /\ sent' = sent + 1

Send == /\ pc = "send"
        /\ TakeMid
        /\ inFlight' = Append(inFlight, Request(mid, sent, call.cmd))
        /\ pc' = IF Len(inFlight) + 1 = call.size THEN "recv" ELSE "send"
        /\ \E n \in 1..MaxParts :
             /\ call.cmd # "Transact2" => n = 1
             /\ owed' = IF link = "up"
                        THEN owed \cup {[request |-> Request(mid, sent, call.cmd),
                                         part |-> 1, of |-> n]}
                        ELSE owed
        /\ UNCHANGED <<pending, call, results, parts, ret, dropped, wire, link>>

\* The id is taken before the message is built and written: it is spent when
\* either fails, or when the timeout drops the call at the write, with nothing
\* or a piece of the message written.
SendFails == /\ pc = "send"
             /\ TakeMid
             /\ Fail("failed")
             /\ link' \in {link, IF link = "up" THEN "garbled" ELSE link}
             /\ UNCHANGED <<pending, owed, wire>>

\* self.mid += 1 overflows before anything is written: a build with overflow
\* checks (debug) panics there, one without (release) wraps, which is Send.
SendPanics == /\ pc = "send"
              /\ mid = Mids - 1
              /\ Fail("failed")
              /\ UNCHANGED <<mid, sent, pending, network>>
-----------------------------------------------------------------------------
(* recv: find the reply to the next request in flight. *)

Awaited == inFlight[Len(results) + 1]

\* Faults: a kept reply is taken without a look at its id, or never looked for.
KeptWhatever == pending
KeptNever == {}

Kept == {reply \in pending : reply.mid = Awaited.mid}

\* The collector refuses a part it has, or one of an answer of another size.
Clashes(reply) == \E p \in parts : p.of # reply.of \/ p.part = reply.part

Collect(reply) == /\ parts' = parts \cup {reply}
                  /\ UNCHANGED <<pc, call, inFlight, results, ret, dropped>>

TakeResult(reply) == /\ results' = Append(results, reply)
                     /\ IF Len(results) + 1 = Len(inFlight)
                        THEN pc' = "idle" /\ ret' = "ok"
                        ELSE UNCHANGED <<pc, ret>>
                     /\ UNCHANGED <<call, inFlight, parts, dropped>>

\* Fault: the first part of a Transact2 reply is taken for all of it.
AcceptFirstPart(reply) == \/ Fail("failed")
                          \/ reply.cmd = call.cmd /\ TakeResult(reply)

\* parse_reply, and for a Transact2 the collector.  Any reply may be an error
\* or have a body that does not parse.
Accept(reply) ==
    \/ Fail("failed")
    \/ /\ reply.cmd = call.cmd
       /\ ~Clashes(reply)
       /\ IF call.cmd = "Transact2" /\ Cardinality(parts) + 1 < reply.of
          THEN Collect(reply)
          ELSE TakeResult(reply)

TakeKept == /\ pc = "recv"
            /\ \E reply \in Kept : /\ pending' = pending \ {reply}
                                   /\ Accept(reply)
            /\ UNCHANGED <<mid, sent, network>>

\* recv's loop: the reply awaited is taken, another is kept for later.  The
\* entry it overwrites, if there is one, is gone when that is reported.
ReceiveFrame ==
    /\ pc = "recv"
    /\ Kept = {}
    /\ wire # <<>>
    /\ LET reply == Head(wire)
           same == {p \in pending : p.mid = reply.mid}
       IN \/ /\ reply.mid = Awaited.mid
             /\ Accept(reply)
             /\ UNCHANGED pending
          \/ /\ reply.mid # Awaited.mid
             /\ pending' = (pending \ same) \cup {reply}
             /\ IF same = {}
                THEN UNCHANGED <<pc, call, inFlight, results, parts, ret, dropped>>
                ELSE Fail("duplicate")
    /\ wire' = Tail(wire)
    /\ UNCHANGED <<mid, sent, owed, link>>

\* The connection is gone or out of step, or Info::parse takes the message read
\* for no reply: one the server sent unasked, or in the place of a reply.
ReceiveFails == /\ pc = "recv"
                /\ Kept = {}
                /\ Fail("failed")
                /\ \/ UNCHANGED wire
                   \/ wire # <<>> /\ wire' = Tail(wire)
                /\ UNCHANGED <<mid, sent, pending, owed, link>>

\* The timeout drops recv at an await: between two frames, or within one, the
\* bytes of which that were read are lost, and nothing is read in step again.
ReceiveTimeout == /\ pc = "recv"
                  /\ Kept = {}
                  /\ Fail("failed")
                  /\ \/ UNCHANGED network
                     \/ wire # <<>> /\ link' = "garbled" /\ wire' = <<>> /\ owed' = {}
                  /\ UNCHANGED <<mid, sent, pending>>
-----------------------------------------------------------------------------
(* The server and the network. *)

\* The server answers what it owes in any order, the parts of one answer in
\* turn.
Reply(o) == [mid |-> o.request.mid, serial |-> o.request.serial, cmd |-> o.request.cmd,
             part |-> o.part, of |-> o.of]

Answer == \E o \in owed :
            /\ wire' = Append(wire, Reply(o))
            /\ owed' = (owed \ {o}) \cup
                       (IF o.part < o.of THEN {[o EXCEPT !.part = @ + 1]} ELSE {})
            /\ UNCHANGED <<client, link>>

\* Nothing more gets to the server or is sent by it.
Lose == /\ link = "up"
        /\ link' = "lost"
        /\ owed' = {}
        /\ UNCHANGED <<client, wire>>
-----------------------------------------------------------------------------
\* What goes on by itself once a call is under way.
Progress == \/ Send
            \/ SendPanics
            \/ TakeKept
            \/ ReceiveFrame
            \/ link = "lost" /\ ReceiveFails

Next == \/ \E cmd \in Commands, size \in 1..Depth : Begin(cmd, size)
        \/ Send
        \/ SendFails
        \/ SendPanics
        \/ TakeKept
        \/ ReceiveFrame
        \/ ReceiveFails
        \/ ReceiveTimeout
        \/ Answer
        \/ Lose

Spec == Init /\ [][Next]_vars

\* The executor polls a call, a server that is reached answers.
FairSpec == Spec /\ WF_vars(Progress) /\ WF_vars(Answer)
=============================================================================
