---------------------------- MODULE MediaSession ----------------------------
(* The C interface: a session owns a connection with a mounted share, lists   *)
(* folders and opens media, which are read at any offset; a listing can also  *)
(* be had of a connection of its own.  Every call blocks its caller, and its  *)
(* requests have timeouts, but for those that close a file or the session.    *)
(*                                                                            *)
(* From module Cifs: a call gets the reply to its own request, told by its    *)
(* mid, or fails.  Of the caller it is assumed that it makes one call at a    *)
(* time, and closes its media before their session: a media points to its     *)
(* session, which does not know of it.  One connection is there at a time;    *)
(* two have nothing in common.                                                *)
EXTENDS Naturals, Sequences, Functions

CONSTANTS
    Slots,          \* bound: media that the caller may hold at a time
    Paths,          \* external: the files of the share
    Size,           \* external: their sizes
    Folders,        \* external: the folders of the share
    Fids,           \* external: the file ids of the server
    Mids,           \* bound: requests the server may have yet to answer
    ReadMax,        \* SMB_LEGACY_READ_MAX
    MaxRequested,   \* bound: bytes that the caller asks for
    MaxExtra,       \* external: bytes by which a reply may be too long
    None

Handles == [fid : Fids, path : Paths]
Requests == [mid : Mids, fid : Fids \cup {None}, path : Paths \cup Folders \cup {None},
             op : {"connect", "mount", "find", "open", "read", "close", "umount"},
             at : Nat, count : Nat]
Calls == [job : {"session", "once", "list", "open", "read", "close", "end"},
          q : Requests, slot : Slots \cup {None}, from : Nat, want : Nat, rest : Nat,
          out : Seq(Paths \X Nat), turn : BOOLEAN]

ASSUME SessionAssumption ==
    /\ Size \in [Paths -> Nat]
    /\ ReadMax \in Nat \ {0}
    /\ MaxRequested \in Nat /\ MaxExtra \in Nat
    /\ None \notin Handles \cup Calls

VARIABLES
    session,        \* whether there is a session
    media,          \* the media of the caller: handle, or None
    call,           \* the call under way, or None
    ret,            \* what the last call returned
    files,          \* external: the files open at the server, by fid
    asked,          \* external: requests the server has yet to carry out
    strays          \* files open at the server that the client has lost

vars == <<session, media, call, ret, files, asked, strays>>

NoFiles == [f \in {} |-> None]

Returned(status) == [status |-> status, path |-> None, from |-> 0, want |-> 0,
                     bytes |-> <<>>, cut |-> FALSE]

Init == /\ session = FALSE
        /\ media = [s \in Slots |-> None]
        /\ call = None
        /\ ret = Returned("none")
        /\ files = NoFiles /\ asked = {} /\ strays = {}

Least(m, n) == IF m < n THEN m ELSE n

\* The connection is there as long as somebody holds its Cifs; with it go the
\* files and the requests of its server.
Server(f, a, lost) ==
    IF session' \/ call' # None
    THEN files' = f /\ asked' = a /\ strays' = (strays \cup lost) \cap DOMAIN f
    ELSE files' = NoFiles /\ asked' = {} /\ strays' = {}

-----------------------------------------------------------------------------
(* Requests *)

Request(mid, op, fid, path, at, count) ==
    [mid |-> mid, op |-> op, fid |-> fid, path |-> path, at |-> at, count |-> count]

FreeMids == {mid \in Mids : \A q \in asked : q.mid # mid}

\* A call begins with its first request; turn tells the requests of a call
\* from their neighbours, whose timeouts are others.
Begin(job, q, slot, from, want, rest) ==
    /\ call' = [job |-> job, q |-> q, slot |-> slot, from |-> from, want |-> want,
                rest |-> rest, out |-> <<>>, turn |-> FALSE]
    /\ asked' = asked \cup {q}
    /\ ret' = Returned("none")

\* The call under way makes its next request.
Continue(q) == call' = [call EXCEPT !.q = q, !.turn = ~call.turn]

ReadRequest(mid, fid, path, at, rest) ==
    Request(mid, "read", fid, path, at, Least(rest, ReadMax))

-----------------------------------------------------------------------------
(* The caller *)

\* session_open, and the calls that list with a connection of their own:
\* smb_probe, smb_list, smb_list_json.
Connect == \E mid \in FreeMids, job \in {"session", "once"} :
    /\ call = None /\ ~session
    /\ Begin(job, Request(mid, "connect", None, None, 0, 0), None, 0, 0, 0)
    /\ UNCHANGED <<session, media, files, strays>>

\* session_list_json
ListFolder(folder) == \E mid \in FreeMids :
    /\ call = None /\ session
    /\ Begin("list", Request(mid, "find", None, folder, 0, 0), None, 0, 0, 0)
    /\ UNCHANGED <<session, media, files, strays>>

\* session_open_media
OpenMedia(s, path) == \E mid \in FreeMids :
    /\ call = None /\ session /\ media[s] = None
    /\ Begin("open", Request(mid, "open", None, path, 0, 0), s, 0, 0, 0)
    /\ UNCHANGED <<session, media, files, strays>>

\* media_read_at: nothing to read
ReadNothing(s, from, want) ==
    /\ call = None /\ media[s] # None
    /\ want = 0 \/ from >= Size[media[s].path]
    /\ ret' = [Returned("bytes") EXCEPT !.path = media[s].path, !.from = from, !.want = want]
    /\ UNCHANGED <<session, media, call, files, asked, strays>>

\* media_read_at: the first chunk
Read(s, from, want) == \E mid \in FreeMids :
    /\ call = None /\ media[s] # None
    /\ want > 0 /\ from < Size[media[s].path]
    /\ LET h == media[s]
           rest == Least(want, Size[h.path] - from)
       IN Begin("read", ReadRequest(mid, h.fid, h.path, from, rest), s, from, want, rest)
    /\ UNCHANGED <<session, media, files, strays>>

\* Fault: the handle is not taken from the media.
CloseMediaKeeping(s) == \E mid \in FreeMids :
    /\ call = None /\ media[s] # None
    /\ Begin("close", Request(mid, "close", media[s].fid, media[s].path, 0, 0), s, 0, 0, 0)
    /\ UNCHANGED <<session, media, files, strays>>

\* Fault: the media is dropped, and its handle with it.
CloseMediaQuietly(s) ==
    /\ call = None /\ media[s] # None
    /\ media' = [media EXCEPT ![s] = None]
    /\ UNCHANGED <<session, call, ret, files, asked, strays>>

\* media_close takes the handle first, and waits for the reply.
CloseMedia(s) == \E mid \in FreeMids :
    /\ call = None /\ media[s] # None
    /\ Begin("close", Request(mid, "close", media[s].fid, media[s].path, 0, 0), s, 0, 0, 0)
    /\ media' = [media EXCEPT ![s] = None]
    /\ UNCHANGED <<session, files, strays>>

\* session_close, which no media may outlive
CloseSession == \E mid \in FreeMids :
    /\ call = None /\ session
    /\ \A s \in Slots : media[s] = None
    /\ session' = FALSE
    /\ Begin("end", Request(mid, "umount", None, None, 0, 0), None, 0, 0, 0)
    /\ UNCHANGED <<media, files, strays>>

-----------------------------------------------------------------------------
(* The end of a call *)

\* What a call returns when a request of it fails: a connection of its own is
\* unmounted if it can be.
Failed == IF call.job = "once" /\ call.q.op = "umount" THEN Returned("entries")
          ELSE Returned("error")

\* A call fails: bytes that a read has gathered are lost, a handle that was to
\* be closed is gone.
Fail == /\ call' = None /\ ret' = Failed
        /\ UNCHANGED <<session, media>>

\* The client no longer has the file whose closing fails.
Unclosed == IF call.q.op = "close" THEN {call.q.fid} ELSE {}

\* A call is given up while the server may still carry out its request: an
\* error of the connection, or a timeout.
GiveUp == /\ call # None
          /\ Fail
          /\ Server(files, asked, Unclosed)

\* The timeout of a request; media_close and session_close have none.
TimesOut(turn) == /\ call # None /\ call.turn = turn
                  /\ call.job \notin {"close", "end"}
                  /\ GiveUp

-----------------------------------------------------------------------------
(* Replies.  They give the call its next request, or end it. *)

Ends(status) == call' = None /\ ret' = Returned(status) /\ UNCHANGED <<session, media>>

TakeConnected(q) == /\ Continue([q EXCEPT !.op = "mount"])
                    /\ UNCHANGED <<session, media, ret>>

\* open_session returns, the others go on to list.
TakeMounted(q) ==
    \/ /\ call.job = "session"
       /\ call' = None /\ ret' = Returned("opened") /\ session' = TRUE
       /\ UNCHANGED media
    \/ /\ call.job = "once"
       /\ \E folder \in Folders :
            Continue([q EXCEPT !.op = "find", !.path = folder])
       /\ UNCHANGED <<session, media, ret>>

\* list_media_entries: the first batch is the whole result, whatever
\* is_media_entry leaves of it.
TakeListed(q) ==
    \/ /\ call.job = "list"
       /\ Ends("entries")
    \/ /\ call.job = "once"
       /\ Continue([q EXCEPT !.op = "umount", !.path = None])
       /\ UNCHANGED <<session, media, ret>>

TakeOpened(q, fid) ==
    /\ media' = [media EXCEPT ![call.slot] = [fid |-> fid, path |-> q.path]]
    /\ call' = None /\ ret' = Returned("opened")
    /\ UNCHANGED session

\* media_read_at copies no more than fits the buffer.
ReturnBytes(out, cut) ==
    /\ ret' = [status |-> "bytes", path |-> call.q.path, from |-> call.from,
               want |-> call.want, bytes |-> SubSeq(out, 1, Least(Len(out), call.want)),
               cut |-> cut]
    /\ call' = None
    /\ UNCHANGED <<session, media>>

\* Fault: the cursor goes on by what was asked for.
TakeReadAsAsked(q, chunk) ==
    LET out == call.out \o chunk
        rest == IF call.rest > q.count THEN call.rest - q.count ELSE 0
    IN IF chunk = <<>> \/ rest = 0
       THEN ReturnBytes(out, chunk = <<>>)
       ELSE /\ call' = [call EXCEPT !.q = ReadRequest(q.mid, q.fid, q.path, q.at + q.count, rest),
                                    !.rest = rest, !.out = out, !.turn = ~call.turn]
            /\ UNCHANGED <<session, media, ret>>

\* Fault: an empty chunk is a chunk like others.
TakeReadOn(q, chunk) ==
    LET out == call.out \o chunk
        rest == IF call.rest > Len(chunk) THEN call.rest - Len(chunk) ELSE 0
    IN IF rest = 0
       THEN ReturnBytes(out, FALSE)
       ELSE /\ call' = [call EXCEPT
                           !.q = ReadRequest(q.mid, q.fid, q.path, q.at + Len(chunk), rest),
                           !.rest = rest, !.out = out, !.turn = ~call.turn]
            /\ UNCHANGED <<session, media, ret>>

\* read_media_handle_at_for_session goes on where the chunk ended, until it has
\* enough or a chunk is empty.
TakeRead(q, chunk) ==
    LET out == call.out \o chunk
        rest == IF call.rest > Len(chunk) THEN call.rest - Len(chunk) ELSE 0
    IN IF chunk = <<>> \/ rest = 0
       THEN ReturnBytes(out, chunk = <<>>)
       ELSE /\ call' = [call EXCEPT
                           !.q = ReadRequest(q.mid, q.fid, q.path, q.at + Len(chunk), rest),
                           !.rest = rest, !.out = out, !.turn = ~call.turn]
            /\ UNCHANGED <<session, media, ret>>

\* media_close and session_close have no result, nor has the unmounting of a
\* connection of its own.
TakeClosed == Ends(IF call.job = "once" THEN "entries" ELSE "closed")

-----------------------------------------------------------------------------
(* The server.  It carries out requests in any order, those of calls given up *)
(* included, and may refuse any of them.                                      *)

\* Requests that are waited for go on or end their call; the reply to any other
\* goes nowhere, and no more does one that the client fails to understand.
Waited(q) == call # None /\ call.q = q
Missed(q) == IF Waited(q) THEN Fail ELSE UNCHANGED <<session, media, call, ret>>

\* The request, if any, that the step leaves to be carried out in place of q.
Without(q) == (asked \ {q}) \cup (IF Waited(q) /\ call' # None THEN {call'.q} ELSE {})

AnswerPlain(q) ==
    /\ q.op \in {"connect", "mount", "find"}
    /\ \/ Waited(q) /\ q.op = "connect" /\ TakeConnected(q)
       \/ Waited(q) /\ q.op = "mount" /\ TakeMounted(q)
       \/ Waited(q) /\ q.op = "find" /\ TakeListed(q)
       \/ Missed(q)
    /\ Server(files, Without(q), {})

Opened(fid, path) ==
    [f \in DOMAIN files \cup {fid} |-> IF f = fid THEN path ELSE files[f]]

AnswerOpen(q) == \E fid \in Fids \ DOMAIN files :
    /\ q.op = "open"
    /\ \/ Waited(q) /\ TakeOpened(q, fid) /\ Server(Opened(fid, q.path), Without(q), {})
       \/ Missed(q) /\ Server(Opened(fid, q.path), Without(q), {fid})

\* What the server may send of the file that fid stands for: at least a byte of
\* those it has, unless the file has become shorter; not always what was asked
\* for.
Chunks(q) ==
    LET path == files[q.fid]
        available == IF q.at < Size[path] THEN Size[path] - q.at ELSE 0
    IN {[i \in 1..n |-> <<path, q.at + i - 1>>] : n \in 0..Least(q.count + MaxExtra, available)}

AnswerRead(q) ==
    /\ q.op = "read" /\ q.fid \in DOMAIN files
    /\ \/ Waited(q) /\ \E chunk \in Chunks(q) : TakeRead(q, chunk)
       \/ Missed(q)
    /\ Server(files, Without(q), {})

AnswerClose(q) ==
    /\ q.op = "close" /\ q.fid \in DOMAIN files
    /\ (Waited(q) /\ TakeClosed) \/ Missed(q)
    /\ Server(Restrict(files, DOMAIN files \ {q.fid}), Without(q), {})

AnswerUmount(q) ==
    /\ q.op = "umount"
    /\ (Waited(q) /\ TakeClosed) \/ Missed(q)
    /\ Server(NoFiles, Without(q), {})

Answer == \E q \in asked : \/ AnswerPlain(q) \/ AnswerOpen(q) \/ AnswerRead(q)
                           \/ AnswerClose(q) \/ AnswerUmount(q)

\* An error of the server, which carries nothing out.
Refuse == \E q \in asked :
    /\ Missed(q)
    /\ Server(files, Without(q), IF Waited(q) THEN Unclosed ELSE {})

-----------------------------------------------------------------------------
Caller ==
    \/ Connect \/ CloseSession
    \/ \E folder \in Folders : ListFolder(folder)
    \/ \E s \in Slots :
         \/ \E path \in Paths : OpenMedia(s, path)
         \/ \E from, want \in 0..MaxRequested : ReadNothing(s, from, want) \/ Read(s, from, want)
         \/ CloseMedia(s)

Next == Caller \/ GiveUp \/ Answer \/ Refuse

Spec == Init /\ [][Next]_vars

\* The runtime fires a timer when its time has come.
FairSpec == Spec /\ \A turn \in BOOLEAN : WF_vars(TimesOut(turn))
=============================================================================
