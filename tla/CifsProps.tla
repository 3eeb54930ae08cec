------------------------------ MODULE CifsProps ------------------------------
(* What makes the matching of replies to requests correct.                    *)
EXTENDS Cifs

RequestType == [mid : 0..(Mids - 1), serial : Nat, cmd : Commands]
ReplyType == [mid : 0..(Mids - 1), serial : Nat, cmd : Commands,
              part : Nat \ {0}, of : Nat \ {0}]
OwedType == [request : RequestType, part : Nat \ {0}, of : Nat \ {0}]

\* Types, and pending_replies is a map: it has one entry for an id.
TypeOK ==
    /\ mid \in 0..(Mids - 1)
    /\ sent \in Nat
    /\ pending \subseteq ReplyType
    /\ \A r1, r2 \in pending : r1.mid = r2.mid => r1 = r2
    /\ pc \in {"idle", "send", "recv"}
    /\ call \in [cmd : Commands, size : Nat]
    /\ inFlight \in Seq(RequestType)
    /\ results \in Seq(ReplyType)
    /\ parts \subseteq ReplyType
    /\ ret \in {"none", "ok", "failed", "duplicate"}
    /\ dropped \subseteq RequestType
    /\ owed \subseteq OwedType
    /\ wire \in Seq(ReplyType)
    /\ link \in {"up", "garbled", "lost"}
    /\ Len(results) <= Len(inFlight)
    /\ pc = "recv" => Len(results) < Len(inFlight)

\* No request that was given up has had its multiplex id given out again.
NoneStale == \A r \in dropped : sent <= r.serial + Mids

\* The replies that a call returns answer its own requests, in their order, and
\* a Transact2 reply is put together from parts of one answer: whatever order
\* the server answers in, and whatever earlier calls left behind when they
\* failed or timed out.  The ids may come round any number of times, in a build
\* that wraps, as long as none of a request that was given up comes round.
OwnReplies ==
    NoneStale => /\ \A i \in DOMAIN results : results[i].serial = inFlight[i].serial
                 /\ \A p \in parts : p.serial = inFlight[1].serial

\* What is kept, on its way or still to come answers a request of the call
\* under way or of a call that failed: one that ends well leaves nothing
\* behind for the next to trip over.
AllAccountedFor ==
    NoneStale =>
        LET expected == {r.serial : r \in dropped} \cup
                        (IF pc = "idle" THEN {} ELSE {r.serial : r \in Unanswered})
        IN /\ \A r \in pending : r.serial \in expected
           /\ \A i \in DOMAIN wire : wire[i].serial \in expected
           /\ \A o \in owed : o.request.serial \in expected

\* A reply is lost to "duplicate pending SMB reply" only after a Transact2 was
\* given up before all the parts of its reply had come.
DuplicateExplained ==
    [][ret # "duplicate" /\ ret' = "duplicate" /\ NoneStale
         => \E r \in dropped : r.cmd = "Transact2"]_vars

\* Every call returns, in whatever order the server answers, if no timeout cut
\* a frame in two.
CallsReturn == [](link # "garbled") => (pc # "idle" ~> pc = "idle")

\* The shape of the call under way: only pipelined reads are several requests,
\* and only a Transact2 collects parts.
CallShape == /\ call.cmd # "Read" => call.size = 1
             /\ call.size <= Depth
             /\ Len(inFlight) <= call.size
             /\ pc = "send" => Len(inFlight) < call.size /\ results = <<>> /\ parts = {}
             /\ parts # {} => call.cmd = "Transact2"

\* The requests of the call under way are the last ones, in order.
LastSent == pc # "idle" => \A i \in DOMAIN inFlight :
                              inFlight[i].serial + Len(inFlight) + 1 = sent + i

\* The id given out "age" requests ago, if they have not come round since.
MidOf(age) == IF age <= mid THEN mid - age ELSE mid - age + Mids

Recent(r) == /\ r.serial < sent
             /\ sent <= r.serial + Mids => r.mid = MidOf(sent - r.serial)

\* Every request and reply that is kept anywhere.
Known == {inFlight[i] : i \in DOMAIN inFlight} \cup {o.request : o \in owed} \cup dropped
         \cup pending \cup {wire[i] : i \in DOMAIN wire}

MidsRecent == \A r \in Known : Recent(r)

\* Two replies to one request are different parts of one answer.
Apart(r1, r2) == r1.serial = r2.serial => r1.of = r2.of /\ r1.part # r2.part

\* Every part of an answer is in one place: still owed, on its way, kept or
\* collected; and only a Transact2 is answered in more than one.
PartsOnce ==
    /\ IsFiniteSet(parts)
    /\ \A r \in pending \cup parts \cup {wire[i] : i \in DOMAIN wire} :
          /\ r.serial < sent /\ r.part <= r.of /\ (r.cmd # "Transact2" => r.of = 1)
          /\ \A o \in owed : r.serial = o.request.serial => r.of = o.of /\ r.part < o.part
    /\ \A o \in owed : /\ o.request.serial < sent /\ o.part <= o.of
                       /\ o.request.cmd # "Transact2" => o.of = 1
    /\ \A o1, o2 \in owed : o1.request.serial = o2.request.serial => o1 = o2
    /\ \A i, j \in DOMAIN wire : i # j => Apart(wire[i], wire[j])
    /\ \A i \in DOMAIN wire : \A r \in pending \cup parts : Apart(wire[i], r)
    /\ \A r \in pending, p \in parts : Apart(r, p)
    /\ \A r1, r2 \in pending : r1 # r2 => Apart(r1, r2)
    /\ \A p1, p2 \in parts : p1 # p2 => Apart(p1, p2)

\* AllAccountedFor for whole requests, and what the call under way asked for.
RequestOf(r) == Request(r.mid, r.serial, r.cmd)

Expected == dropped \cup (IF pc = "idle" THEN {} ELSE Unanswered)

Accounted ==
    /\ \A i \in DOMAIN inFlight : inFlight[i].cmd = call.cmd
    /\ NoneStale => /\ \A r \in pending : RequestOf(r) \in Expected
                    /\ \A i \in DOMAIN wire : RequestOf(wire[i]) \in Expected
                    /\ \A o \in owed : o.request \in Expected

\* The inductive invariant behind OwnReplies, AllAccountedFor and
\* DuplicateExplained.
IInv == /\ TypeOK
        /\ CallShape
        /\ LastSent
        /\ MidsRecent
        /\ PartsOnce
        /\ Accounted
        /\ OwnReplies
=============================================================================
