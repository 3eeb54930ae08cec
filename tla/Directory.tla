------------------------------ MODULE Directory ------------------------------
(* Listing a directory in batches: DirectoryReader and Cifs::list over        *)
(* find_first and find_next.  A batch is asked for by the name of the last    *)
(* entry of the batch before; a call may be dropped by its timeout or fail,   *)
(* and be made again, while the server still carries out the first one.       *)
(*                                                                            *)
(* What the exchange of messages guarantees (module Cifs) is taken from       *)
(* there: a call gets the reply to its own request or fails.  Of an entry     *)
(* only its name is kept.                                                     *)
EXTENDS Naturals, Sequences, FiniteSets, Functions

CONSTANTS
    Dir,            \* external: the directory, in the order the server has
    Media,          \* the names that is_media_entry retains
    SortKey,        \* directory_sort_key of a name, as a number
    Sids,           \* external: the search ids of the server
    MaxBatch,       \* bound: entries of a batch (the code asks for 1024)
    LastOffsets,    \* external: what NextEntryOffset of a batch's last entry
                    \* may be, its "size" or "zero"
    EmptyBatches,   \* external: whether it may answer with no entry before
                    \* the end
    MaxDropped,     \* bound: calls given up in a behaviour
    None

Names == Range(Dir)
Requests == [op : {"open", "next", "list"}, sid : Sids \cup {None},
             after : Names \cup {None}, tag : Nat, again : BOOLEAN]

ASSUME DirAssumption ==
    /\ Dir \in Seq(Names)
    /\ \A i, j \in DOMAIN Dir : Dir[i] = Dir[j] => i = j
    /\ None \notin Names \cup Sids \cup Requests
    /\ None \notin Seq(Names)
    /\ MaxBatch \in Nat \ {0}
    /\ MaxDropped \in Nat
    /\ LastOffsets \subseteq {"size", "zero"}
    /\ EmptyBatches \in BOOLEAN
    /\ Media \subseteq Names
    /\ SortKey \in [Names -> Nat]

VARIABLES
    opened,         \* whether there is a DirectoryReader; its fields:
    pending,        \*   the batch it was opened with, or None
    lastFile,       \*   the name to resume from, or None
    sid,            \*   the search it belongs to
    end,            \*   whether the search has come to its end
    call,           \* the request under way, or None
    listed,         \* the entries that list has so far
    ret,            \* what the last call returned
    seen,           \* the entries the reader has had from the server and
                    \* given out
    asked,          \* external: requests the server has yet to carry out
    searches,       \* external: searches open at the server
    dropped,        \* requests of calls that were given up
    left            \* searches nobody will ask about any more

reader == <<opened, pending, lastFile, sid, end, seen>>
vars == <<reader, call, listed, ret, asked, searches, dropped, left>>

Init == /\ opened = FALSE /\ pending = None /\ lastFile = None
        /\ sid = None /\ end = FALSE /\ seen = <<>>
        /\ call = None /\ listed = <<>>
        /\ ret = [status |-> "none", entries |-> <<>>]
        /\ asked = {} /\ searches = {} /\ dropped = {} /\ left = {}

Returns(status, entries) == ret' = [status |-> status, entries |-> entries]

\* Fault: the first name of the batch.
FirstName(info) == IF info = <<>> THEN None ELSE info[1]

\* last_filename
LastName(info) == IF info = <<>> THEN None ELSE info[Len(info)]

\* FindFirst2 (without an sid) and FindNext2; the tag tells a request from
\* those of calls given up before, again one of list from its last.
Request(op, s, after) ==
    [op |-> op, sid |-> s, after |-> after, tag |-> Cardinality(dropped),
     again |-> call # None /\ ~call.again]

Ask(q) == call' = q /\ asked' = asked \cup {q}

-----------------------------------------------------------------------------
(* The caller *)

\* open_dir_reader: find_first; the reader comes with the reply.
OpenReader == /\ call = None /\ ~opened
              /\ Ask(Request("open", None, None))
              /\ UNCHANGED <<reader, listed, ret, searches, dropped, left>>

\* The reader is dropped: nothing is said to the server.
DropReader == /\ call = None /\ opened
              /\ opened' = FALSE /\ pending' = None /\ lastFile' = None
              /\ sid' = None /\ end' = FALSE /\ seen' = <<>>
              /\ left' = left \cup ({sid} \cap searches)
              /\ UNCHANGED <<call, listed, ret, asked, searches, dropped>>

\* retain_media_entries
RetainMedia(info) == SelectSeq(info, LAMBDA name : name \in Media)

\* sort_dir_entries, a stable sort
SortEntries(info) ==
    LET Before(i, j) == \/ SortKey[info[i]] < SortKey[info[j]]
                        \/ SortKey[info[i]] = SortKey[info[j]] /\ i < j
        Rank(i) == Cardinality({j \in DOMAIN info : Before(j, i)}) + 1
    IN [k \in DOMAIN info |-> info[CHOOSE i \in DOMAIN info : Rank(i) = k]]

\* What next and next_media make of a batch.
HandOut(info) ==
    /\ seen' = seen \o info
    /\ \/ Returns("some", info)
       \/ Returns("some", SortEntries(RetainMedia(info)))

\* DirectoryReader::next, the batch of find_first.
NextPending ==
    /\ call = None /\ opened /\ pending # None
    /\ pending' = None
    /\ HandOut(pending)
    /\ UNCHANGED <<opened, lastFile, sid, end, call, listed, asked, searches, dropped, left>>

\* DirectoryReader::next at the end of the search, or without a name to resume
\* from ("directory reader lost resume point")
NextNone == /\ call = None /\ opened /\ pending = None
            /\ end \/ lastFile = None
            /\ Returns(IF end THEN "end" ELSE "lost", <<>>)
            /\ UNCHANGED <<reader, call, listed, asked, searches, dropped, left>>

\* DirectoryReader::next, another batch
NextBatch ==
    /\ call = None /\ opened /\ pending = None /\ ~end /\ lastFile # None
    /\ Ask(Request("next", sid, lastFile))
    /\ UNCHANGED <<reader, listed, ret, searches, dropped, left>>

\* Cifs::list
List == /\ call = None
        /\ Ask(Request("list", None, None))
        /\ UNCHANGED <<reader, listed, ret, searches, dropped, left>>

\* A call ends with an error, its timeout's or another; the reader keeps its
\* fields, which next assigns only after the reply, and the server may still
\* carry out the request.
GiveUp == /\ call # None /\ Cardinality(dropped) < MaxDropped
          /\ dropped' = dropped \cup {call}
          /\ call' = None
          /\ left' = IF call.op = "list" THEN left \cup ({call.sid} \cap searches) ELSE left
          /\ listed' = <<>>
          /\ Returns("error", <<>>)
          /\ UNCHANGED <<reader, asked, searches>>

-----------------------------------------------------------------------------
(* Replies *)

\* Faults: the parsers take an empty batch before the end; find_next's does.
AcceptedEmpty(q, reply) == q.sid # None /\ reply.info # <<>> => reply.last # "zero"
AcceptedEmptyNext(q, reply) ==
    /\ q.sid = None /\ ~reply.end => reply.info # <<>>
    /\ q.sid # None /\ reply.info # <<>> => reply.last # "zero"

\* The parsers of a batch: only find_first's takes a last entry whose
\* NextEntryOffset is zero, and neither takes an empty batch before the end.
Accepted(q, reply) ==
    /\ ~reply.end => reply.info # <<>>
    /\ q.sid # None /\ reply.info # <<>> => reply.last # "zero"

TakeOpened(reply) ==
    /\ opened' = TRUE /\ pending' = reply.info
    /\ lastFile' = LastName(reply.info)
    /\ sid' = reply.sid /\ end' = reply.end
    /\ seen' = <<>>
    /\ Returns("some", <<>>)
    /\ call' = None
    /\ UNCHANGED listed

\* Fault: the end of the search goes unnoticed.
TakeBatchNotEnding(reply) ==
    /\ lastFile' = LastName(reply.info)
    /\ HandOut(reply.info)
    /\ call' = None
    /\ UNCHANGED <<opened, pending, sid, end, listed>>

TakeBatch(reply) ==
    /\ end' = reply.end
    /\ lastFile' = LastName(reply.info)
    /\ HandOut(reply.info)
    /\ call' = None
    /\ UNCHANGED <<opened, pending, sid, listed>>

\* Fault: list forgets the batches before the last.
TakeListedLast(reply) ==
    /\ IF reply.end
       THEN Returns("list", reply.info) /\ call' = None /\ listed' = <<>>
       ELSE /\ call' = Request("list", reply.sid, LastName(reply.info))
            /\ listed' = reply.info
            /\ UNCHANGED ret
    /\ UNCHANGED reader

\* list goes on from the last name of all it has, or returns.
TakeListed(reply) ==
    LET result == listed \o reply.info
    IN /\ IF reply.end
          THEN Returns("list", result) /\ call' = None /\ listed' = <<>>
          ELSE /\ call' = Request("list", reply.sid, LastName(result))
               /\ listed' = result
               /\ UNCHANGED ret
       /\ UNCHANGED reader

Refuse(status) == /\ Returns(status, <<>>)
                  /\ call' = None /\ listed' = <<>>
                  /\ UNCHANGED reader

Take(q, reply) ==
    \/ ~Accepted(q, reply) /\ Refuse("invalid")
    \/ /\ Accepted(q, reply)
       /\ \/ q.op = "open" /\ TakeOpened(reply)
          \/ q.op = "next" /\ TakeBatch(reply)
          \/ q.op = "list" /\ TakeListed(reply)

\* A reply to a call that was given up goes nowhere.
Missed == UNCHANGED <<reader, call, listed, ret>>

-----------------------------------------------------------------------------
(* The server.  It carries out requests in any order, those of calls given up *)
(* included; a search ends with the batch that says so (CLOSE_ON_EOS).        *)

From(q) == IF q.sid = None THEN 0 ELSE CHOOSE i \in DOMAIN Dir : Dir[i] = q.after

\* The batches that may answer q.
Batches(q) ==
    {[info |-> SubSeq(Dir, From(q) + 1, From(q) + n), end |-> e, last |-> last, sid |-> s] :
        n \in {k \in 0..MaxBatch : From(q) + k <= Len(Dir)},
        e \in BOOLEAN, last \in LastOffsets,
        s \in IF q.sid = None THEN Sids \ searches ELSE {q.sid} \cap searches}

Honest(q, reply) ==
    /\ reply.end => From(q) + Len(reply.info) = Len(Dir)
    /\ reply.info = <<>> => reply.end \/ EmptyBatches

\* The next request of list, if it makes one.
Renewed(q) == IF call = q THEN {call'} \ {None} ELSE {}

\* A search is left open when the call that began it, or the list that goes
\* through it, does not take the reply.
Abandoned(q, reply) ==
    IF /\ q.sid = None \/ (q.op = "list" /\ call = q)
       /\ ~(call = q /\ Accepted(q, reply))
    THEN {reply.sid} ELSE {}

\* Fault: the requests do not ask for CLOSE_ON_EOS.
SearchesKept(reply) == searches \cup {reply.sid}

\* Both requests ask for the search to be closed at its end.
SearchesAfter(reply) ==
    IF reply.end THEN searches \ {reply.sid} ELSE searches \cup {reply.sid}

Answer(q) ==
    \E reply \in Batches(q) :
        /\ Honest(q, reply)
        /\ IF call = q THEN Take(q, reply) ELSE Missed
        /\ searches' = SearchesAfter(reply)
        /\ asked' = (asked \ {q}) \cup Renewed(q)
        /\ left' = (left \cup Abandoned(q, reply)) \cap searches'
        /\ UNCHANGED dropped

\* The search is not open (any more), or no other can be opened.
Reject(q) ==
    /\ IF q.sid = None THEN searches = Sids ELSE q.sid \notin searches
    /\ IF call = q THEN Refuse("closed") ELSE Missed
    /\ asked' = asked \ {q}
    /\ UNCHANGED <<searches, dropped, left>>

Server == \E q \in asked : Answer(q) \/ Reject(q)

-----------------------------------------------------------------------------
ReadOn == NextPending \/ NextBatch \/ NextNone

Next == \/ OpenReader \/ DropReader \/ ReadOn \/ List
        \/ GiveUp
        \/ Server

Spec == Init /\ [][Next]_vars

\* The server carries out what it is asked.
FairSpec == Spec /\ WF_vars(Server)
=============================================================================
