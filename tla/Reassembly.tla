----------------------------- MODULE Reassembly -----------------------------
(* The reply to a Transact2 comes in one part or several, each with a run of  *)
(* two buffers, the parameters and the data of the subcommand.  The client    *)
(* reads the parts (trans2/reply.rs) and collects the runs by their place in  *)
(* the buffers (trans2/collector.rs) until both are complete; Cifs::transact2 *)
(* receives one part after the other.  Byte i of a buffer is written i, so    *)
(* that a byte out of place shows.                                            *)
(*                                                                            *)
(* From module Cifs: each part that is received belongs to this request.      *)
EXTENDS Integers, Sequences, FiniteSetsExt

CONSTANTS
    Size,           \* external: the lengths of the two buffers
    Totals,         \* external: the lengths a server may announce of the data
    BareEmpties,    \* external: whether an empty run has no place in its frame
    None

Sides == {"parameter", "data"}

ASSUME ReassemblyAssumption ==
    /\ Size \in [Sides -> Nat]
    /\ Totals \subseteq Nat
    /\ BareEmpties \in BOOLEAN
    /\ None \notin Nat

VARIABLES
    pc,             \* "collecting", or how the call ended
    collector,      \* CollectTrans2: of each side its total and its fragments
    result,         \* the two buffers handed to SubReply::parse
    part,           \* the part on its way, or None
    exact,          \* external: whether the server sends each byte just once
    left            \* external: the bytes an exact server has still to send

client == <<pc, collector, result>>
vars == <<client, part, exact, left>>

Empty == [total |-> None, fragments |-> <<>>]

Init == /\ pc = "collecting"
        /\ collector = [s \in Sides |-> Empty]
        /\ result = None
        /\ part = None
        /\ exact \in BOOLEAN
        /\ left = [s \in Sides |-> IF exact THEN 1 .. Size[s] ELSE {}]
-----------------------------------------------------------------------------
(* A part as it is sent: its words, and the bytes behind them.  Positions     *)
(* count from the header, and the bytes begin after 32 bytes of header, the   *)
(* words and the two counts.                                                  *)

Start(p) == 32 + 1 + 2 * p.words + 2

InFrame(p) == \A s \in Sides : p.offset[s] >= Start(p)

\* A slice beyond the end of the bytes is a panic; so is a word that is missing.
Sliced(p, s) == SubSeq(p.bytes, p.offset[s] - Start(p) + 1,
                       p.offset[s] - Start(p) + p.count[s])
Panics(p) ==
    /\ InFrame(p)
    /\ \/ p.words < 9
       \/ \E s \in Sides : p.offset[s] - Start(p) + p.count[s] > Len(p.bytes)

\* Transact2::create.
Run(p, s) == [bytes |-> Sliced(p, s), at |-> p.at[s], total |-> p.total[s]]
-----------------------------------------------------------------------------
(* Collector: fragments is a map from places to bytes.                        *)

Changed(c, run) == c.total # None /\ c.total # run.total
Twice(c, run) == run.bytes # <<>> /\ run.at \in DOMAIN c.fragments

Refused(c, run) == Changed(c, run) \/ Twice(c, run)

With(c, run) == [total |-> run.total,
                 fragments |-> IF run.bytes = <<>> THEN c.fragments
                               ELSE [o \in DOMAIN c.fragments \cup {run.at} |->
                                       IF o = run.at THEN run.bytes ELSE c.fragments[o]]]

\* The fragments put one behind the other, by their places: all below the p-th.
Fragment(c, o) == IF o \in DOMAIN c.fragments THEN c.fragments[o] ELSE <<>>

End(c) == IF DOMAIN c.fragments = {} THEN 0 ELSE 1 + Max(DOMAIN c.fragments)

Buffers(c) == LET buffer[p \in 0 .. End(c)] ==
                     IF p = 0 THEN <<>> ELSE buffer[p - 1] \o Fragment(c, p - 1)
              IN  buffer

\* The bytes held at places below o, and at any place.
HeldBelow(c, o) == Len(Buffers(c)[o])
Held(c) == HeldBelow(c, End(c))

Ready(c) == c.total # None /\ Held(c) >= c.total

\* Collector::get: as many bytes as announced, and every fragment in its place.
InPlace(c) == \A o \in DOMAIN c.fragments : HeldBelow(c, o) = o

\* Fault: only the number of bytes counts.
Counted(c) == Held(c) = c.total

Whole(c) == Held(c) = c.total /\ InPlace(c)

Joined(c) == Buffers(c)[End(c)]
-----------------------------------------------------------------------------
(* transact2, one part after the other.                                       *)

Ends(how) == pc' = how /\ UNCHANGED <<collector, result>>

Misread(p) == \/ ~InFrame(p) /\ Ends("InvalidData")
              \/ Panics(p) /\ Ends("panicked")

\* The collector as it is after a part that both sides take.
After(p) == [s \in Sides |-> With(collector[s], Run(p, s))]

Refuse(p) == (\E s \in Sides : Refused(collector[s], Run(p, s))) /\ Ends("Reassemble")

\* Fault: the call is done with the first side that is complete.
AnyReady(c) == \E s \in Sides : Ready(c[s])

AllReady(c) == \A s \in Sides : Ready(c[s])

Collect(p) == /\ ~AllReady(After(p))
              /\ collector' = After(p)
              /\ UNCHANGED <<pc, result>>

Finish(p) == /\ AllReady(After(p))
             /\ collector' = After(p)
             /\ IF \A s \in Sides : Whole(collector'[s])
                THEN pc' = "done" /\ result' = [s \in Sides |-> Joined(collector'[s])]
                ELSE pc' = "Reassemble" /\ UNCHANGED result

Take == /\ pc = "collecting" /\ part # None
        /\ part' = None
        /\ \/ Misread(part)
           \/ /\ ~Panics(part) /\ InFrame(part)
              /\ \/ Refuse(part)
                 \/ /\ \A s \in Sides : ~Refused(collector[s], Run(part, s))
                    /\ Collect(part) \/ Finish(part)
        /\ UNCHANGED <<exact, left>>
-----------------------------------------------------------------------------
(* External: the server.  A run is a piece of a buffer; a part has the two    *)
(* runs one behind the other, after a byte to align them.                     *)

Pieces(n) == {piece \in (1 .. n) \X (1 .. n) : piece[1] <= piece[2]} \cup {<<1, 0>>}
BytesOf(piece) == [i \in 1 .. (piece[2] - piece[1] + 1) |-> piece[1] + i - 1]

PartOf(piece, total) ==
    LET bytes == <<0>> \o BytesOf(piece["parameter"]) \o BytesOf(piece["data"])
        count == [s \in Sides |-> Len(BytesOf(piece[s]))]
        begin == [parameter |-> 1, data |-> 1 + count["parameter"]]
    IN  [words |-> 10, total |-> total, count |-> count, bytes |-> bytes,
         at |-> [s \in Sides |-> piece[s][1] - 1],
         offset |-> [s \in Sides |-> IF BareEmpties /\ count[s] = 0 THEN 0
                                     ELSE 32 + 1 + 2 * 10 + 2 + begin[s]]]

Piecewise == {f \in [Sides -> UNION {Pieces(Size[s]) : s \in Sides}] :
                \A s \in Sides : f[s] \in Pieces(Size[s])}

\* An exact server sends nothing twice, and no empty part but as the only one.
SendExact == /\ exact
             /\ \E f \in Piecewise :
                   /\ \A s \in Sides : f[s][1] .. f[s][2] \subseteq left[s]
                   /\ (\A s \in Sides : f[s] = <<1, 0>>) => \A s \in Sides : Size[s] = 0
                   /\ part' = PartOf(f, Size)
                   /\ left' = [s \in Sides |-> left[s] \ (f[s][1] .. f[s][2])]
             /\ UNCHANGED exact

\* Any other may repeat itself, change its mind or garble a part.
SendAny == /\ ~exact
           /\ \E f \in Piecewise, t \in Totals :
                 LET p == PartOf(f, [Size EXCEPT !["data"] = t]) IN
                 part' \in {p, [p EXCEPT !.words = 8], [p EXCEPT !.bytes = Tail(@)],
                            [p EXCEPT !.offset["data"] = 0]}
           /\ UNCHANGED <<exact, left>>

Server == pc = "collecting" /\ part = None /\ (SendExact \/ SendAny) /\ UNCHANGED client
-----------------------------------------------------------------------------
Next == Take \/ Server

Spec == Init /\ [][Next]_vars

\* The executor polls the call; an exact server sends what it has.
FairSpec == Spec /\ WF_vars(Take) /\ WF_vars(Server)
-----------------------------------------------------------------------------
(* A call that ends well has both buffers as the server has them, as long as  *)
(* the total that came with the first part: nothing is left out, doubled or   *)
(* out of place, whatever comes in whatever order.                            *)
RightOrError ==
    pc = "done" => \A s \in Sides :
        result[s] = [i \in 1 .. (IF s = "data" THEN collector[s].total ELSE Size[s]) |-> i]

(* Why it holds.  A run that gets past the checks has the bytes that belong   *)
(* at its place, and so has every fragment that is kept.                      *)
TrueBytes(bytes, at) == /\ bytes \in Seq(Nat)
                        /\ \A i \in 1 .. Len(bytes) : bytes[i] = at + i

TrueRun(run, s) == /\ run.total \in Nat
                   /\ s = "parameter" => run.total = Size[s]
                   /\ TrueBytes(run.bytes, run.at)
                   /\ run.bytes # <<>> => run.at \in 0 .. Size[s] - 1

TruePart == part # None /\ InFrame(part) /\ ~Panics(part) =>
                \A s \in Sides : TrueRun(Run(part, s), s)

TrueCollector(c, s) ==
    /\ c.total \in Nat \cup {None}
    /\ s = "parameter" => c.total \in {Size[s], None}
    /\ \A o \in DOMAIN c.fragments : /\ o \in 0 .. Size[s] - 1
                                     /\ TrueBytes(c.fragments[o], o)

IInv == TruePart /\ (\A s \in Sides : TrueCollector(collector[s], s)) /\ RightOrError

(* Of a server that sends every byte once, in any pieces and any order, every *)
(* part is taken, and the call ends well with the last of them.               *)
ExactCompletes == exact ~> pc = "done" /\ \A s \in Sides : left[s] = {}
=============================================================================
