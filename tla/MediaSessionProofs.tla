-------------------------- MODULE MediaSessionProofs --------------------------
(* Proofs about the C interface, for any number of media, files, file ids and *)
(* requests, any sizes, and whatever the server answers.                      *)
EXTENDS MediaSessionProps, SequenceTheorems, TLAPS

USE DEF Held, Waited

\* The smaller of two numbers.
LEMMA LeastType ==
    ASSUME NEW m \in Nat, NEW n \in Nat
    PROVE  /\ Least(m, n) \in Nat
           /\ Least(m, n) <= m /\ Least(m, n) <= n
           /\ Least(m, n) = m \/ Least(m, n) = n
BY DEF Least

\* What is returned is well formed.
LEMMA ReturnedType ==
    ASSUME NEW status \in Statuses
    PROVE  Returned(status) \in Results /\ Returned(status).status = status
BY EmptySeq DEF Returned, Results

\* Nothing that is returned without bytes says anything of the file.
LEMMA ReturnedExact ==
    ASSUME NEW status \in Statuses \ {"bytes"}, ret' = Returned(status)
    PROVE  ret' \in Results /\ ReadExact'
BY ReturnedType DEF ReadExact, Statuses

-----------------------------------------------------------------------------
(* A call begins *)

\* The invariant goes on to hold when a call begins whose request fits it: the
\* media stay as they are, but for one whose file is to be closed.
LEMMA BeginInv ==
    ASSUME IInv, call = None,
           NEW c \in Calls, call' = c, c.q.mid \in FreeMids,
           asked' = asked \cup {c.q}, ret' = Returned("none"),
           files' = files, strays' = strays, session' \in BOOLEAN,
           media' \in [Slots -> Handles \cup {None}],
           \A s \in Slots : media'[s] # None => session' /\ media'[s] = media[s],
           \A s \in Slots : media[s] # None /\ media'[s] = None =>
               c.q.op = "close" /\ c.q.fid = media[s].fid,
           c.q.op = "open" => c.q.path \in Paths,
           c.q.op = "close" => /\ c.q.fid \in DOMAIN files \ strays
                               /\ \A s \in Slots : media'[s] # None => media'[s].fid # c.q.fid,
           CallShape', ReadPoint'
    PROVE  IInv'
<1> USE DEF IInv
<1>1. c # None /\ c.q \in Requests /\ c.q \notin asked
  <2>1. c # None
    BY SessionAssumption
  <2> QED BY <2>1 DEF Calls, FreeMids
<1>2. TypeOK'
  BY <1>1, ReturnedExact DEF TypeOK, Statuses
<1>3. HandlesLive'
  BY DEF TypeOK, HandlesLive
<1>4. ReadExact'
  BY ReturnedExact DEF Statuses
<1>5. FilesExplained'
  BY <1>1 DEF TypeOK, FilesExplained
<1>6. MidsDistinct'
  BY DEF MidsDistinct, FreeMids
<1>7. AskedShape'
  BY <1>1 DEF AskedShape
<1>8. ClosesOnce'
  BY <1>1 DEF ClosesOnce, AskedShape, TypeOK
<1> QED BY <1>2, <1>3, <1>4, <1>5, <1>6, <1>7, <1>8

\* Begin gives a call its first request.
LEMMA BeginCall ==
    ASSUME NEW job \in {"session", "once", "list", "open", "read", "close", "end"},
           NEW q \in Requests, NEW slot \in Slots \cup {None},
           NEW from \in Nat, NEW want \in Nat, NEW rest \in Nat,
           Begin(job, q, slot, from, want, rest)
    PROVE  /\ call' \in Calls /\ call' # None
           /\ call'.job = job /\ call'.q = q /\ call'.slot = slot
           /\ call'.from = from /\ call'.want = want /\ call'.rest = rest
           /\ call'.out = <<>>
           /\ asked' = asked \cup {q} /\ ret' = Returned("none")
<1>1. call' \in Calls
  BY EmptySeq DEF Begin, Calls
<1> QED BY <1>1, SessionAssumption DEF Begin

LEMMA ConnectInv == ASSUME IInv, Connect PROVE IInv'
<1>1. PICK mid \in FreeMids, job \in {"session", "once"} :
        /\ call = None /\ ~session
        /\ Begin(job, Request(mid, "connect", None, None, 0, 0), None, 0, 0, 0)
        /\ UNCHANGED <<session, media, files, strays>>
  BY DEF Connect
<1> DEFINE q == Request(mid, "connect", None, None, 0, 0)
<1>2. q \in Requests /\ q.mid = mid /\ q.op = "connect"
  BY DEF Request, Requests, FreeMids
<1> HIDE DEF q
<1>3. /\ call' \in Calls /\ call' # None /\ call'.job = job /\ call'.q = q
      /\ asked' = asked \cup {q} /\ ret' = Returned("none")
  <2>1. job \in {"session", "once", "list", "open", "read", "close", "end"}
    OBVIOUS
  <2>2. None \in Slots \cup {None} /\ 0 \in Nat
    OBVIOUS
  <2>3. Begin(job, q, None, 0, 0, 0)
    BY <1>1 DEF q
  <2> QED BY <1>2, <2>1, <2>2, <2>3, BeginCall
<1>4. CallShape' /\ ReadPoint'
  BY <1>1, <1>2, <1>3 DEF CallShape, OpsOf, ReadPoint
<1> QED BY <1>1, <1>2, <1>3, <1>4, BeginInv DEF IInv, TypeOK

LEMMA ListFolderInv ==
    ASSUME IInv, NEW folder \in Folders, ListFolder(folder) PROVE IInv'
<1>1. PICK mid \in FreeMids :
        /\ call = None /\ session
        /\ Begin("list", Request(mid, "find", None, folder, 0, 0), None, 0, 0, 0)
        /\ UNCHANGED <<session, media, files, strays>>
  BY DEF ListFolder
<1> DEFINE q == Request(mid, "find", None, folder, 0, 0)
<1>2. q \in Requests /\ q.mid = mid /\ q.op = "find"
  BY DEF Request, Requests, FreeMids
<1> HIDE DEF q
<1>3. /\ call' \in Calls /\ call' # None /\ call'.job = "list" /\ call'.q = q
      /\ asked' = asked \cup {q} /\ ret' = Returned("none")
  BY <1>1, <1>2, BeginCall DEF q
<1>4. CallShape' /\ ReadPoint'
  BY <1>1, <1>2, <1>3 DEF CallShape, OpsOf, ReadPoint
<1> QED BY <1>1, <1>2, <1>3, <1>4, BeginInv DEF IInv, TypeOK

LEMMA OpenMediaInv ==
    ASSUME IInv, NEW s \in Slots, NEW path \in Paths, OpenMedia(s, path) PROVE IInv'
<1>1. PICK mid \in FreeMids :
        /\ call = None /\ session /\ media[s] = None
        /\ Begin("open", Request(mid, "open", None, path, 0, 0), s, 0, 0, 0)
        /\ UNCHANGED <<session, media, files, strays>>
  BY DEF OpenMedia
<1> DEFINE q == Request(mid, "open", None, path, 0, 0)
<1>2. q \in Requests /\ q.mid = mid /\ q.op = "open" /\ q.path = path
  BY DEF Request, Requests, FreeMids
<1> HIDE DEF q
<1>3. /\ call' \in Calls /\ call' # None /\ call'.job = "open" /\ call'.q = q
      /\ call'.slot = s
      /\ asked' = asked \cup {q} /\ ret' = Returned("none")
  BY <1>1, <1>2, BeginCall DEF q
<1>4. CallShape' /\ ReadPoint'
  BY <1>1, <1>2, <1>3 DEF CallShape, OpsOf, ReadPoint
<1> QED BY <1>1, <1>2, <1>3, <1>4, BeginInv DEF IInv, TypeOK

LEMMA ReadNothingInv ==
    ASSUME IInv, NEW s \in Slots, NEW from \in Nat, NEW want \in Nat,
           ReadNothing(s, from, want)
    PROVE  IInv'
<1> USE DEF IInv
<1>1. /\ call = None /\ media[s] # None
      /\ want = 0 \/ from >= Size[media[s].path]
      /\ UNCHANGED <<session, media, call, files, asked, strays>>
      /\ ret' = [Returned("bytes") EXCEPT !.path = media[s].path, !.from = from, !.want = want]
  BY DEF ReadNothing
<1>2. media[s].path \in Paths /\ Size[media[s].path] \in Nat
  BY <1>1, SessionAssumption DEF TypeOK, Handles
<1>3. ret' = [status |-> "bytes", path |-> media[s].path, from |-> from, want |-> want,
              bytes |-> <<>>, cut |-> FALSE]
  BY <1>1 DEF Returned
<1>4. TypeOK'
  <2>1. ret' \in Results
    BY <1>2, <1>3, EmptySeq DEF Results, Statuses
  <2> QED BY <1>1, <2>1 DEF TypeOK
<1>5. ReadExact'
  <2>1. /\ ret'.path = media[s].path /\ ret'.from = from /\ ret'.want = want
        /\ Len(ret'.bytes) = 0
    BY <1>3, EmptySeq
  <2>2. from < Size[media[s].path] => want = 0
    BY <1>1, <1>2
  <2>3. Least(want, IF from < Size[media[s].path] THEN Size[media[s].path] - from ELSE 0) = 0
    BY <1>2, <2>2 DEF Least
  <2>4. Size' = Size
    OBVIOUS
  <2> QED BY <2>1, <2>3 DEF ReadExact
<1> QED BY <1>1, <1>4, <1>5 DEF HandlesLive, FilesExplained, MidsDistinct, AskedShape,
          ClosesOnce, CallShape, ReadPoint

LEMMA ReadInv ==
    ASSUME IInv, NEW s \in Slots, NEW from \in Nat, NEW want \in Nat, Read(s, from, want)
    PROVE  IInv'
<1> DEFINE h == media[s]
           rest == Least(want, Size[h.path] - from)
<1>1. PICK mid \in FreeMids :
        /\ call = None /\ h # None /\ want > 0 /\ from < Size[h.path]
        /\ Begin("read", ReadRequest(mid, h.fid, h.path, from, rest), s, from, want, rest)
        /\ UNCHANGED <<session, media, files, strays>>
  BY DEF Read
<1> DEFINE q == ReadRequest(mid, h.fid, h.path, from, rest)
<1>2. h \in Handles /\ h.path \in Paths /\ h.fid \in Fids /\ Size[h.path] \in Nat /\ session
  BY <1>1, SessionAssumption DEF IInv, TypeOK, Handles
<1>3. rest \in Nat /\ rest > 0
  BY <1>1, <1>2 DEF Least
<1>4. Least(rest, ReadMax) \in Nat
  BY <1>3, LeastType, SessionAssumption
<1> HIDE DEF rest
<1>5. /\ q \in Requests /\ q.mid = mid /\ q.op = "read"
      /\ q.fid = h.fid /\ q.path = h.path /\ q.at = from
  BY <1>2, <1>3, <1>4 DEF ReadRequest, Request, Requests, FreeMids
<1> HIDE DEF q
<1>6. /\ call' \in Calls /\ call' # None /\ call'.job = "read" /\ call'.q = q
      /\ call'.slot = s /\ call'.from = from /\ call'.want = want /\ call'.rest = rest
      /\ call'.out = <<>>
      /\ asked' = asked \cup {q} /\ ret' = Returned("none")
  BY <1>1, <1>3, <1>5, BeginCall DEF q
<1>7. CallShape'
  BY <1>1, <1>2, <1>5, <1>6 DEF CallShape, OpsOf
<1>8. ReadPoint'
  BY <1>1, <1>3, <1>5, <1>6, EmptySeq DEF ReadPoint, rest
<1> QED BY <1>1, <1>2, <1>5, <1>6, <1>7, <1>8, BeginInv DEF IInv, TypeOK

LEMMA CloseMediaInv ==
    ASSUME IInv, NEW s \in Slots, CloseMedia(s) PROVE IInv'
<1>1. PICK mid \in FreeMids :
        /\ call = None /\ media[s] # None
        /\ Begin("close", Request(mid, "close", media[s].fid, media[s].path, 0, 0), s, 0, 0, 0)
        /\ media' = [media EXCEPT ![s] = None]
        /\ UNCHANGED <<session, files, strays>>
  BY DEF CloseMedia
<1> DEFINE q == Request(mid, "close", media[s].fid, media[s].path, 0, 0)
<1>2. media[s] \in Handles /\ media[s].path \in Paths /\ media[s].fid \in Fids /\ session
  BY <1>1 DEF IInv, TypeOK, Handles
<1>3. q \in Requests /\ q.mid = mid /\ q.op = "close" /\ q.fid = media[s].fid
  BY <1>2 DEF Request, Requests, FreeMids
<1> HIDE DEF q
<1>4. /\ call' \in Calls /\ call' # None /\ call'.job = "close" /\ call'.q = q
      /\ asked' = asked \cup {q} /\ ret' = Returned("none")
  BY <1>1, <1>3, BeginCall DEF q
<1>5. CallShape' /\ ReadPoint'
  BY <1>1, <1>2, <1>3, <1>4 DEF CallShape, OpsOf, ReadPoint
<1>6. /\ media' \in [Slots -> Handles \cup {None}]
      /\ \A t \in Slots : media'[t] # None => t # s /\ media'[t] = media[t]
      /\ \A t \in Slots : media[t] # None /\ media'[t] = None => t = s
  BY <1>1 DEF IInv, TypeOK
<1>7. /\ q.fid \in DOMAIN files \ strays
      /\ \A t \in Slots : media'[t] # None => media'[t].fid # q.fid
  BY <1>1, <1>3, <1>6 DEF IInv, HandlesLive
<1> QED BY <1>1, <1>2, <1>3, <1>4, <1>5, <1>6, <1>7, BeginInv

LEMMA CloseSessionInv == ASSUME IInv, CloseSession PROVE IInv'
<1>1. PICK mid \in FreeMids :
        /\ call = None /\ session
        /\ \A s \in Slots : media[s] = None
        /\ session' = FALSE
        /\ Begin("end", Request(mid, "umount", None, None, 0, 0), None, 0, 0, 0)
        /\ UNCHANGED <<media, files, strays>>
  BY DEF CloseSession
<1> DEFINE q == Request(mid, "umount", None, None, 0, 0)
<1>2. q \in Requests /\ q.mid = mid /\ q.op = "umount"
  BY DEF Request, Requests, FreeMids
<1> HIDE DEF q
<1>3. /\ call' \in Calls /\ call' # None /\ call'.job = "end" /\ call'.q = q
      /\ asked' = asked \cup {q} /\ ret' = Returned("none")
  BY <1>1, <1>2, BeginCall DEF q
<1>4. CallShape' /\ ReadPoint'
  BY <1>1, <1>2, <1>3 DEF CallShape, OpsOf, ReadPoint
<1> QED BY <1>1, <1>2, <1>3, <1>4, BeginInv DEF IInv, TypeOK

-----------------------------------------------------------------------------
(* A call ends *)

\* Without a session there is no media, and when the last call of its
\* connection ends there is nothing left at the server.
LEMMA DroppedInv ==
    ASSUME IInv, session' = FALSE, call' = None, media' = media,
           \A s \in Slots : media[s] = None,
           ret' \in Results, ReadExact',
           NEW f, NEW a, NEW lost, Server(f, a, lost)
    PROVE  IInv'
<1>1. files' = NoFiles /\ asked' = {} /\ strays' = {}
  BY DEF Server
<1>2. DOMAIN NoFiles = {}
  BY DEF NoFiles
<1>3. TypeOK'
  BY <1>1, <1>2 DEF IInv, TypeOK
<1>4. HandlesLive' /\ FilesExplained' /\ MidsDistinct' /\ AskedShape' /\ ClosesOnce'
  BY <1>1, <1>2 DEF HandlesLive, FilesExplained, MidsDistinct, AskedShape, ClosesOnce
<1> QED BY <1>3, <1>4 DEF IInv, CallShape, ReadPoint

\* The call under way ends, and the session stays.  What is open at the server
\* is what was, but for the file being closed, and what the end of the call
\* loses.
LEMMA EndKeptInv ==
    ASSUME IInv, call # None, session' = TRUE, call' = None, media' = media,
           ret' \in Results, ReadExact',
           call.q.op # "umount",
           NEW f, NEW a \in SUBSET asked, NEW lost, Server(f, a, lost),
           DOMAIN f \subseteq Fids, \A x \in DOMAIN f : f[x] \in Paths,
           \A s \in Slots : Held(s) => /\ media[s].fid \in DOMAIN f \ lost
                                       /\ f[media[s].fid] = files[media[s].fid],
           \A x \in DOMAIN f : x \notin lost => /\ x \in DOMAIN files
                                                /\ call.q.op = "close" => x # call.q.fid,
           \A p \in a : p.op = "close" => /\ p.fid \in DOMAIN f
                                          /\ p = call.q => p.fid \in lost
    PROVE  IInv'
<1> USE DEF IInv
<1>1. files' = f /\ asked' = a /\ strays' = (strays \cup lost) \cap DOMAIN f
  BY DEF Server
<1>2. TypeOK'
  BY <1>1 DEF TypeOK
<1>3. HandlesLive'
  BY <1>1 DEF TypeOK, HandlesLive
<1>4. FilesExplained'
  BY <1>1 DEF FilesExplained
<1>5. MidsDistinct'
  BY <1>1 DEF MidsDistinct
<1>6. AskedShape'
  BY <1>1 DEF AskedShape, TypeOK
<1>7. ClosesOnce'
  BY <1>1 DEF ClosesOnce, AskedShape
<1> QED BY <1>2, <1>3, <1>4, <1>5, <1>6, <1>7 DEF CallShape, ReadPoint

\* The call under way ends, whether or not the session stays.
LEMMA EndInv ==
    ASSUME IInv, call # None, call' = None, media' = media,
           session' \in BOOLEAN, session => session', session' => call.q.op # "umount",
           ret' \in Results, ReadExact',
           NEW f, NEW a \in SUBSET asked, NEW lost, Server(f, a, lost),
           DOMAIN f \subseteq Fids, \A x \in DOMAIN f : f[x] \in Paths,
           \A s \in Slots : Held(s) => /\ media[s].fid \in DOMAIN f \ lost
                                       /\ f[media[s].fid] = files[media[s].fid],
           \A x \in DOMAIN f : x \notin lost => /\ x \in DOMAIN files
                                                /\ call.q.op = "close" => x # call.q.fid,
           \A p \in a : p.op = "close" => /\ p.fid \in DOMAIN f
                                          /\ p = call.q => p.fid \in lost
    PROVE  IInv'
<1>1. CASE session' = TRUE
  BY <1>1, EndKeptInv
<1>2. CASE session' = FALSE
  <2>1. \A s \in Slots : media[s] = None
    BY <1>2 DEF IInv, TypeOK
  <2> QED BY <1>2, <2>1, DroppedInv
<1> QED BY <1>1, <1>2

\* What a failing request does to the call that waits for it; f and a are what
\* the server makes of it.
LEMMA FailInv ==
    ASSUME IInv, call # None, Fail,
           NEW f, NEW a \in SUBSET asked, NEW lost, Server(f, a, lost),
           DOMAIN f \subseteq Fids, \A x \in DOMAIN f : f[x] \in Paths,
           \A s \in Slots : Held(s) => /\ media[s].fid \in DOMAIN f \ lost
                                       /\ f[media[s].fid] = files[media[s].fid],
           \A x \in DOMAIN f : x \notin lost => /\ x \in DOMAIN files
                                                /\ call.q.op = "close" => x # call.q.fid,
           \A p \in a : p.op = "close" => /\ p.fid \in DOMAIN f
                                          /\ p = call.q => p.fid \in lost
    PROVE  IInv'
<1>1. call' = None /\ media' = media /\ session' = session /\ ret' = Failed
  BY DEF Fail
<1>2. ret' \in Results /\ ReadExact'
  BY <1>1, ReturnedExact DEF Failed, Statuses
<1>3. session \in BOOLEAN /\ (session => call.q.op # "umount")
  <2>1. session \in BOOLEAN /\ call.q.op \in OpsOf(call.job)
    BY DEF IInv, TypeOK, CallShape
  <2>2. session => call.job \in {"list", "open", "read", "close"}
    <3>1. call \in Calls /\ (session => call.job \notin {"session", "once", "end"})
      BY DEF IInv, TypeOK, CallShape
    <3> QED BY <3>1 DEF Calls
  <2> QED BY <2>1, <2>2 DEF OpsOf
<1> QED BY <1>1, <1>2, <1>3, EndInv

\* A file being closed belongs to no media.
LEMMA ClosingFacts ==
    ASSUME IInv, NEW q \in asked, q.op = "close"
    PROVE  q.fid \in DOMAIN files /\ \A s \in Slots : Held(s) => media[s].fid # q.fid
BY DEF IInv, AskedShape, ClosesOnce

LEMMA GiveUpInv == ASSUME IInv, GiveUp PROVE IInv'
<1>1. call # None /\ Fail /\ Server(files, asked, Unclosed)
  BY DEF GiveUp
<1>2. call.q \in asked
  BY <1>1 DEF IInv, CallShape
<1>3. \A s \in Slots : Held(s) => media[s].fid \in DOMAIN files \ Unclosed
  BY <1>2, ClosingFacts DEF IInv, HandlesLive, Unclosed
<1>4. \A p \in asked : p.op = "close" => /\ p.fid \in DOMAIN files
                                         /\ p = call.q => p.fid \in Unclosed
  BY ClosingFacts DEF Unclosed
<1>5. \A x \in DOMAIN files : x \notin Unclosed => (call.q.op = "close" => x # call.q.fid)
  BY DEF Unclosed
<1>6. DOMAIN files \subseteq Fids /\ \A x \in DOMAIN files : files[x] \in Paths
  BY DEF IInv, TypeOK
<1> HIDE DEF Waited, Held
<1> QED BY <1>1, <1>3, <1>4, <1>5, <1>6, FailInv DEF Held

-----------------------------------------------------------------------------
(* A reply goes nowhere *)

\* A request nobody waits for is carried out: what is open at the server is
\* what was, but for a file that was lost, and what is lost now.
LEMMA StaleInv ==
    ASSUME IInv, NEW q \in asked, ~Waited(q),
           UNCHANGED <<session, media, call, ret>>,
           NEW f, NEW lost, Server(f, asked \ {q}, lost),
           DOMAIN f \subseteq Fids, \A x \in DOMAIN f : f[x] \in Paths,
           \A s \in Slots : Held(s) => /\ media[s].fid \in DOMAIN f \ lost
                                       /\ f[media[s].fid] = files[media[s].fid],
           \A x \in DOMAIN f : x \notin lost => x \in DOMAIN files,
           \A p \in asked \ {q} : p.op = "close" => p.fid \in DOMAIN f \ lost
    PROVE  IInv'
<1> USE DEF IInv
<1>1. files' = f /\ asked' = asked \ {q} /\ strays' = (strays \cup lost) \cap DOMAIN f
  <2>1. session \/ call # None
    BY DEF TypeOK
  <2> QED BY <2>1 DEF Server
<1>2. TypeOK'
  BY <1>1 DEF TypeOK
<1>3. HandlesLive'
  BY <1>1 DEF TypeOK, HandlesLive
<1>4. ReadExact'
  BY DEF ReadExact
<1>5. FilesExplained'
  BY <1>1 DEF FilesExplained
<1>6. MidsDistinct'
  BY <1>1 DEF MidsDistinct
<1>7. AskedShape'
  BY <1>1 DEF AskedShape, TypeOK
<1>8. ClosesOnce'
  BY <1>1 DEF ClosesOnce, AskedShape
<1>9. CallShape'
  BY <1>1 DEF CallShape
<1>10. ReadPoint'
  BY DEF ReadPoint
<1> QED BY <1>2, <1>3, <1>4, <1>5, <1>6, <1>7, <1>8, <1>9, <1>10

\* The reply to a request goes nowhere, or ends its call with an error.
LEMMA MissedInv ==
    ASSUME IInv, NEW q \in asked, Missed(q),
           NEW f, NEW lost, Server(f, Without(q), lost),
           DOMAIN f \subseteq Fids, \A x \in DOMAIN f : f[x] \in Paths,
           \A s \in Slots : Held(s) => /\ media[s].fid \in DOMAIN f \ lost
                                       /\ f[media[s].fid] = files[media[s].fid],
           \A x \in DOMAIN f : x \notin lost => x \in DOMAIN files,
           Waited(q) /\ q.op = "close" => \A x \in DOMAIN f \ lost : x # q.fid,
           \A p \in asked \ {q} : p.op = "close" => p.fid \in DOMAIN f \ lost
    PROVE  IInv'
<1>1. CASE Waited(q)
  <2>1. Fail /\ call # None /\ call.q = q /\ Without(q) = asked \ {q}
    BY <1>1 DEF Missed, Fail, Without
  <2> QED BY <1>1, <2>1, FailInv
<1>2. CASE ~Waited(q)
  <2>1. UNCHANGED <<session, media, call, ret>> /\ Without(q) = asked \ {q}
    BY <1>2 DEF Missed, Without
  <2> QED BY <1>2, <2>1, StaleInv
<1> QED BY <1>1, <1>2

\* What is known of the server's files when a request leaves them alone.
LEMMA FilesFacts ==
    ASSUME IInv
    PROVE  /\ DOMAIN files \subseteq Fids /\ \A x \in DOMAIN files : files[x] \in Paths
           /\ \A s \in Slots : Held(s) => media[s].fid \in DOMAIN files
           /\ \A p \in asked : p.op = "close" => p.fid \in DOMAIN files
BY DEF IInv, TypeOK, HandlesLive, AskedShape

LEMMA MissedPlain ==
    ASSUME IInv, NEW q \in asked, q.op # "close", Missed(q), Server(files, Without(q), {})
    PROVE  IInv'
<1> HIDE DEF Waited, Held
<1> QED BY FilesFacts, MissedInv

LEMMA RefuseInv == ASSUME IInv, Refuse PROVE IInv'
<1>1. PICK q \in asked : Missed(q) /\ Server(files, Without(q), IF Waited(q) THEN Unclosed ELSE {})
  BY DEF Refuse
<1> DEFINE lost == IF Waited(q) THEN Unclosed ELSE {}
<1>2. \A x \in lost : Waited(q) /\ q.op = "close" /\ x = q.fid
  BY DEF Unclosed
<1>3. Waited(q) /\ q.op = "close" => q.fid \in lost
  BY DEF Unclosed
<1>4. \A s \in Slots : Held(s) => media[s].fid \in DOMAIN files \ lost
  BY <1>2, ClosingFacts, FilesFacts
<1>5. \A p \in asked \ {q} : p.op = "close" => p.fid \in DOMAIN files \ lost
  BY <1>2, FilesFacts DEF IInv, ClosesOnce
<1> HIDE DEF Waited, Held, lost
<1>6. Server(files, Without(q), lost)
  BY <1>1 DEF lost
<1> QED BY <1>1, <1>3, <1>4, <1>5, <1>6, FilesFacts, MissedInv

-----------------------------------------------------------------------------
(* A call takes its reply *)

\* A call goes on with another request in place of the one that is answered.
LEMMA ContinueInv ==
    ASSUME IInv, NEW q \in asked, Waited(q),
           NEW r \in Requests, r.mid = q.mid, r.op \notin {"open", "close"}, q.op # "close",
           call' \in Calls, call'.q = r,
           UNCHANGED <<session, media, ret>>,
           Server(files, Without(q), {}), CallShape', ReadPoint'
    PROVE  IInv'
<1> USE DEF IInv
<1>1. call' # None
  BY SessionAssumption
<1>2. files' = files /\ asked' = (asked \ {q}) \cup {r} /\ strays' = strays
  BY <1>1 DEF Server, Without, TypeOK
<1>3. TypeOK'
  BY <1>1, <1>2 DEF TypeOK
<1>4. HandlesLive'
  BY <1>2 DEF TypeOK, HandlesLive
<1>5. ReadExact'
  BY DEF ReadExact
<1>6. FilesExplained'
  BY <1>2 DEF FilesExplained
<1>7. MidsDistinct'
  BY <1>2 DEF MidsDistinct
<1>8. AskedShape'
  BY <1>1, <1>2 DEF AskedShape
<1>9. ClosesOnce'
  BY <1>1, <1>2 DEF ClosesOnce
<1> QED BY <1>3, <1>4, <1>5, <1>6, <1>7, <1>8, <1>9

\* Continue changes nothing of the call but its request.
LEMMA ContinueCall ==
    ASSUME call \in Calls, NEW r \in Requests, Continue(r)
    PROVE  /\ call' \in Calls /\ call' # None /\ call'.q = r
           /\ call'.job = call.job
<1>1. call' = [call EXCEPT !.q = r, !.turn = ~call.turn]
  BY DEF Continue
<1>2. call' \in Calls /\ call'.q = r /\ call'.job = call.job
  BY <1>1 DEF Calls
<1> QED BY <1>2, SessionAssumption

\* A call returns and leaves the server's files alone.
LEMMA EndsInv ==
    ASSUME IInv, NEW q \in asked, Waited(q), q.op \notin {"close", "umount"},
           call' = None, media' = media, session' \in BOOLEAN, session => session',
           ret' \in Results, ReadExact',
           Server(files, Without(q), {})
    PROVE  IInv'
<1>1. Without(q) = asked \ {q} /\ call # None /\ call.q = q
  BY DEF Without
<1> HIDE DEF Waited, Held
<1> QED BY <1>1, FilesFacts, EndInv

LEMMA AnswerPlainInv ==
    ASSUME IInv, NEW q \in asked, AnswerPlain(q) PROVE IInv'
<1>1. Server(files, Without(q), {}) /\ q.op \in {"connect", "mount", "find"}
  BY DEF AnswerPlain
<1>2. q \in Requests
  BY DEF IInv, TypeOK
<1>3. CASE Waited(q) /\ q.op = "connect" /\ TakeConnected(q)
  <2> DEFINE r == [q EXCEPT !.op = "mount"]
  <2>1. r \in Requests /\ r.mid = q.mid /\ r.op = "mount"
    BY <1>2 DEF Requests
  <2> HIDE DEF r
  <2>2. call \in Calls /\ call # None /\ call.q = q
    BY <1>3 DEF IInv, TypeOK
  <2>3. Continue(r) /\ UNCHANGED <<session, media, ret>>
    BY <1>3 DEF TakeConnected, r
  <2>4. call' \in Calls /\ call' # None /\ call'.q = r /\ call'.job = call.job
    BY <2>1, <2>2, <2>3, ContinueCall
  <2>5. call.job \in {"session", "once"} /\ ~session
    BY <1>3, <2>2 DEF IInv, CallShape, OpsOf, Calls
  <2>6. asked' = (asked \ {q}) \cup {r}
    BY <1>1, <1>3, <2>4 DEF Server, Without
  <2>7. CallShape' /\ ReadPoint'
    BY <2>1, <2>3, <2>4, <2>5, <2>6 DEF CallShape, OpsOf, ReadPoint
  <2> QED BY <1>1, <1>3, <2>1, <2>3, <2>4, <2>7, ContinueInv
<1>4. CASE Waited(q) /\ q.op = "mount" /\ TakeMounted(q)
  <2>1. call \in Calls /\ call # None /\ call.q = q
    BY <1>4 DEF IInv, TypeOK
  <2>2. CASE call.job = "session" /\ call' = None /\ ret' = Returned("opened") /\ session' = TRUE
             /\ UNCHANGED media
    <3>1. ret' \in Results /\ ReadExact'
      BY <2>2, ReturnedExact DEF Statuses
    <3> QED BY <1>1, <1>4, <2>2, <3>1, EndsInv
  <2>3. CASE /\ call.job = "once"
             /\ \E folder \in Folders :
                   Continue([q EXCEPT !.op = "find", !.path = folder])
             /\ UNCHANGED <<session, media, ret>>
    <3>1. PICK folder \in Folders : Continue([q EXCEPT !.op = "find", !.path = folder])
      BY <2>3
    <3> DEFINE r == [q EXCEPT !.op = "find", !.path = folder]
    <3>2. r \in Requests /\ r.mid = q.mid /\ r.op = "find"
      BY <1>2 DEF Requests
    <3> HIDE DEF r
    <3>3. call' \in Calls /\ call' # None /\ call'.q = r /\ call'.job = "once"
      BY <2>1, <2>3, <3>1, <3>2, ContinueCall DEF r
    <3>4. ~session'
      BY <2>1, <2>3 DEF IInv, CallShape
    <3>5. asked' = (asked \ {q}) \cup {r}
      BY <1>1, <1>4, <3>3 DEF Server, Without
    <3>6. CallShape' /\ ReadPoint'
      BY <3>2, <3>3, <3>4, <3>5 DEF CallShape, OpsOf, ReadPoint
    <3> QED BY <1>1, <1>4, <2>3, <3>2, <3>3, <3>6, ContinueInv
  <2> QED BY <1>4, <2>2, <2>3 DEF TakeMounted
<1>5. CASE Waited(q) /\ q.op = "find" /\ TakeListed(q)
  <2>1. call \in Calls /\ call # None /\ call.q = q
    BY <1>5 DEF IInv, TypeOK
  <2>2. CASE Ends("entries")
    <3>1. ret' \in Results /\ ReadExact'
      BY <2>2, ReturnedExact DEF Ends, Statuses
    <3>2. call' = None /\ media' = media /\ session' \in BOOLEAN /\ (session => session')
      BY <2>2 DEF Ends, IInv, TypeOK
    <3> QED BY <1>1, <1>5, <3>1, <3>2, EndsInv
  <2>3. CASE call.job = "once" /\ Continue([q EXCEPT !.op = "umount", !.path = None])
             /\ UNCHANGED <<session, media, ret>>
    <3> DEFINE r == [q EXCEPT !.op = "umount", !.path = None]
    <3>1. r \in Requests /\ r.mid = q.mid /\ r.op = "umount"
      BY <1>2 DEF Requests
    <3> HIDE DEF r
    <3>2. call' \in Calls /\ call' # None /\ call'.q = r /\ call'.job = "once"
      BY <2>1, <2>3, <3>1, ContinueCall DEF r
    <3>3. ~session'
      BY <2>1, <2>3 DEF IInv, CallShape
    <3>4. asked' = (asked \ {q}) \cup {r}
      BY <1>1, <1>5, <3>2 DEF Server, Without
    <3>5. CallShape' /\ ReadPoint'
      BY <3>1, <3>2, <3>3, <3>4 DEF CallShape, OpsOf, ReadPoint
    <3> QED BY <1>1, <1>5, <2>3, <3>1, <3>2, <3>5, ContinueInv
  <2> QED BY <1>5, <2>2, <2>3 DEF TakeListed
<1>6. CASE Missed(q)
  BY <1>1, <1>6, MissedPlain
<1> QED BY <1>3, <1>4, <1>5, <1>6 DEF AnswerPlain

\* A file is opened under an id that no open file has.
LEMMA OpenedFacts ==
    ASSUME IInv, NEW fid \in Fids \ DOMAIN files, NEW path \in Paths,
           NEW f, f = Opened(fid, path)
    PROVE  /\ DOMAIN f = DOMAIN files \cup {fid} /\ DOMAIN f \subseteq Fids
           /\ f[fid] = path
           /\ \A x \in DOMAIN f : f[x] \in Paths
           /\ \A x \in DOMAIN files : f[x] = files[x] /\ x # fid
BY DEF Opened, IInv, TypeOK

LEMMA AnswerOpenInv ==
    ASSUME IInv, NEW q \in asked, AnswerOpen(q) PROVE IInv'
<1> USE DEF IInv
<1>1. PICK fid \in Fids \ DOMAIN files :
        /\ q.op = "open"
        /\ \/ Waited(q) /\ TakeOpened(q, fid) /\ Server(Opened(fid, q.path), Without(q), {})
           \/ Missed(q) /\ Server(Opened(fid, q.path), Without(q), {fid})
  BY DEF AnswerOpen
<1>2. q.path \in Paths
  BY <1>1 DEF AskedShape
<1> DEFINE f == Opened(fid, q.path)
<1>3. /\ DOMAIN f = DOMAIN files \cup {fid} /\ DOMAIN f \subseteq Fids
      /\ f[fid] = q.path
      /\ \A x \in DOMAIN f : f[x] \in Paths
      /\ \A x \in DOMAIN files : f[x] = files[x] /\ x # fid
  BY <1>2, OpenedFacts
<1> HIDE DEF f
<1>4. CASE Waited(q) /\ TakeOpened(q, fid) /\ Server(f, Without(q), {})
  <2> DEFINE s == call.slot
             h == [fid |-> fid, path |-> q.path]
  <2>1. call # None /\ call.q = q /\ call.job = "open" /\ call \in Calls
    <3>1. call # None /\ call.q = q /\ call \in Calls /\ call.q.op \in OpsOf(call.job)
      BY <1>4 DEF TypeOK, CallShape
    <3> QED BY <1>1, <3>1 DEF OpsOf, Calls
  <2>2. s \in Slots /\ media[s] = None /\ session
    BY <2>1 DEF CallShape
  <2>3. /\ media' = [media EXCEPT ![s] = h] /\ h \in Handles
        /\ call' = None /\ session' = session /\ ret' = Returned("opened")
    BY <1>2, <1>4 DEF TakeOpened, Handles
  <2>4. files' = f /\ asked' = asked \ {q} /\ strays' = strays
    <3>1. Without(q) = asked \ {q}
      BY <2>3 DEF Without
    <3> QED BY <1>3, <1>4, <2>2, <2>3, <3>1 DEF Server, TypeOK
  <2>5. \A t \in Slots : media'[t] = IF t = s THEN h ELSE media[t]
    BY <2>2, <2>3 DEF TypeOK
  <2>6. ret' \in Results /\ ReadExact'
    BY <2>3, ReturnedExact DEF Statuses
  <2>7. TypeOK'
    BY <1>3, <2>2, <2>3, <2>4, <2>6 DEF TypeOK
  <2>8. HandlesLive'
    BY <1>3, <2>3, <2>4, <2>5 DEF HandlesLive, TypeOK
  <2>9. FilesExplained'
    <3>1. ASSUME NEW x \in DOMAIN f
          PROVE  (\E t \in Slots : media'[t] # None /\ media'[t].fid = x) \/ x \in strays
      <4>1. CASE x = fid
        <5>1. media'[s] = h /\ h # None /\ h.fid = fid
          BY <2>2, <2>3, <2>5, SessionAssumption
        <5> QED BY <2>2, <4>1, <5>1
      <4>2. CASE x # fid
        BY <1>1, <1>3, <2>1, <2>2, <2>5, <4>2 DEF FilesExplained
      <4> QED BY <4>1, <4>2
    <3> QED BY <2>3, <2>4, <3>1 DEF FilesExplained
  <2>10. MidsDistinct'
    BY <2>4 DEF MidsDistinct
  <2>11. AskedShape'
    BY <1>1, <1>3, <2>1, <2>2, <2>4 DEF AskedShape, TypeOK
  <2>12. ClosesOnce'
    <3>1. \A p \in asked : p.op = "close" => p.fid # fid /\ p # q
      BY <1>1 DEF AskedShape
    <3>2. \A p \in asked : p.op = "close" => p.fid \in strays
      BY <1>1, <2>1 DEF ClosesOnce
    <3> QED BY <2>3, <2>4, <2>5, <3>1, <3>2 DEF ClosesOnce
  <2> QED BY <2>3, <2>6, <2>7, <2>8, <2>9, <2>10, <2>11, <2>12 DEF CallShape, ReadPoint
<1>5. CASE Missed(q) /\ Server(f, Without(q), {fid})
  <2>1. \A s \in Slots : Held(s) => /\ media[s].fid \in DOMAIN f \ {fid}
                                    /\ f[media[s].fid] = files[media[s].fid]
    BY <1>3, FilesFacts
  <2>2. \A p \in asked \ {q} : p.op = "close" => p.fid \in DOMAIN f \ {fid}
    BY <1>3, FilesFacts
  <2>3. \A x \in DOMAIN f : x \notin {fid} => x \in DOMAIN files
    BY <1>3
  <2> HIDE DEF Waited, Held, IInv
  <2> QED BY <1>1, <1>3, <1>5, <2>1, <2>2, <2>3, MissedInv
<1> QED BY <1>1, <1>4, <1>5 DEF f

LEMMA AnswerCloseInv ==
    ASSUME IInv, NEW q \in asked, AnswerClose(q) PROVE IInv'
<1> DEFINE f == Restrict(files, DOMAIN files \ {q.fid})
<1>1. /\ (Waited(q) /\ TakeClosed) \/ Missed(q)
      /\ Server(f, Without(q), {})
  BY DEF AnswerClose
<1>2. q.op = "close"
  BY DEF AnswerClose
<1>3. DOMAIN f = DOMAIN files \ {q.fid} /\ \A x \in DOMAIN f : f[x] = files[x]
  BY DEF Restrict
<1> HIDE DEF f
<1>4. DOMAIN f \subseteq Fids /\ \A x \in DOMAIN f : f[x] \in Paths
  BY <1>3, FilesFacts
<1>5. \A s \in Slots : Held(s) => media[s].fid \in DOMAIN f /\ f[media[s].fid] = files[media[s].fid]
  BY <1>2, <1>3, FilesFacts, ClosingFacts
<1>6. \A p \in asked \ {q} : p.op = "close" => p.fid \in DOMAIN f
  BY <1>2, <1>3, FilesFacts DEF IInv, ClosesOnce
<1>7. CASE Missed(q)
  <2> HIDE DEF Waited, Held
  <2> QED BY <1>1, <1>3, <1>4, <1>5, <1>6, <1>7, MissedInv
<1>8. CASE Waited(q) /\ TakeClosed
  <2>1. /\ call # None /\ call.q = q /\ call' = None /\ media' = media /\ session' = session
        /\ ret' = Returned(IF call.job = "once" THEN "entries" ELSE "closed")
    BY <1>8 DEF TakeClosed, Ends
  <2>2. (IF call.job = "once" THEN "entries" ELSE "closed") \in Statuses \ {"bytes"}
    BY DEF Statuses
  <2>3. ret' \in Results /\ ReadExact'
    BY <2>1, <2>2, ReturnedExact
  <2>4. Without(q) = asked \ {q} /\ session \in BOOLEAN
    BY <2>1 DEF Without, IInv, TypeOK
  <2> HIDE DEF Waited, Held
  <2> QED BY <1>1, <1>2, <1>3, <1>4, <1>5, <1>6, <2>1, <2>3, <2>4, EndInv
<1> QED BY <1>1, <1>7, <1>8

LEMMA AnswerUmountInv ==
    ASSUME IInv, NEW q \in asked, AnswerUmount(q) PROVE IInv'
<1>1. /\ q.op = "umount" /\ Waited(q)
      /\ TakeClosed \/ Fail
      /\ Server(NoFiles, Without(q), {})
  BY DEF AnswerUmount, IInv, AskedShape, Missed
<1>2. call # None /\ call.q = q /\ call' = None /\ media' = media /\ session' = session
  BY <1>1 DEF TakeClosed, Ends, Fail
<1>3. session' = FALSE /\ \A s \in Slots : media[s] = None
  <2>1. call \in Calls /\ call.job \in {"once", "end"}
    BY <1>1, <1>2 DEF IInv, TypeOK, CallShape, OpsOf, Calls
  <2> QED BY <1>2, <2>1 DEF IInv, TypeOK, CallShape
<1>4. ret' \in Results /\ ReadExact'
  <2>1. \E status \in {"entries", "closed", "error"} : ret' = Returned(status)
    BY <1>1 DEF TakeClosed, Ends, Fail, Failed
  <2> QED BY <2>1, ReturnedExact DEF Statuses
<1> QED BY <1>1, <1>2, <1>3, <1>4, DroppedInv

\* A chunk holds the file's bytes from the offset it was asked for, and none
\* that the file does not have.
LEMMA ChunkFacts ==
    ASSUME NEW q, q.fid \in DOMAIN files, NEW path \in Paths, files[q.fid] = path,
           q.at \in Nat, q.at < Size[path], q.count \in Nat,
           NEW chunk \in Chunks(q)
    PROVE  /\ chunk \in Seq(Paths \X Nat)
           /\ Len(chunk) \in Nat /\ q.at + Len(chunk) <= Size[path]
           /\ \A i \in 1..Len(chunk) : chunk[i] = <<path, q.at + i - 1>>
<1>1. Size[path] \in Nat /\ MaxExtra \in Nat
  BY SessionAssumption
<1>2. PICK n \in 0..Least(q.count + MaxExtra, Size[path] - q.at) :
        chunk = [i \in 1..n |-> <<path, q.at + i - 1>>]
  BY DEF Chunks
<1>3. n \in Nat /\ q.at + n <= Size[path]
  <2>1. q.count + MaxExtra \in Nat /\ Size[path] - q.at \in Nat
    BY <1>1
  <2>2. Least(q.count + MaxExtra, Size[path] - q.at) <= Size[path] - q.at
    BY <2>1, LeastType
  <2>3. Least(q.count + MaxExtra, Size[path] - q.at) \in Nat
    BY <2>1, LeastType
  <2> QED BY <1>1, <2>1, <2>2, <2>3
<1>4. \A i \in 1..n : <<path, q.at + i - 1>> \in Paths \X Nat
  BY <1>3
<1>5. chunk \in Seq(Paths \X Nat) /\ Len(chunk) = n
  BY <1>2, <1>3, <1>4
<1> QED BY <1>2, <1>3, <1>5

LEMMA TakeReadInv ==
    ASSUME IInv, NEW q \in asked, q.op = "read", Waited(q),
           NEW chunk \in Chunks(q), TakeRead(q, chunk),
           Server(files, Without(q), {})
    PROVE  IInv'
<1> DEFINE path == q.path
           want == Least(call.want, Size[path] - call.from)
           out == call.out \o chunk
           rest == IF call.rest > Len(chunk) THEN call.rest - Len(chunk) ELSE 0
<1>1. call # None /\ call.q = q /\ call \in Calls /\ call.job = "read" /\ q \in Requests
  <2>1. /\ call # None /\ call.q = q /\ call \in Calls
        /\ call.q.op \in OpsOf(call.job) /\ q \in Requests
    BY DEF IInv, TypeOK, CallShape
  <2> QED BY <2>1 DEF OpsOf, Calls
<1>2. /\ call.slot \in Slots /\ Held(call.slot)
      /\ q.fid = media[call.slot].fid /\ path = media[call.slot].path
      /\ call.from < Size[path] /\ call.rest > 0
      /\ Len(call.out) + call.rest = want
      /\ q.at = call.from + Len(call.out)
      /\ \A i \in 1..Len(call.out) : call.out[i] = <<path, call.from + i - 1>>
  BY <1>1 DEF IInv, ReadPoint
<1>3. /\ path \in Paths /\ q.fid \in Fids /\ Size[path] \in Nat
      /\ q.fid \in DOMAIN files /\ files[q.fid] = path
  BY <1>2, SessionAssumption DEF IInv, TypeOK, HandlesLive, Handles
<1>4. /\ call.from \in Nat /\ call.want \in Nat /\ call.rest \in Nat
      /\ call.out \in Seq(Paths \X Nat) /\ Len(call.out) \in Nat
      /\ q.at \in Nat /\ q.count \in Nat
  BY <1>1 DEF Calls, Requests
<1>5. want \in Nat /\ want <= call.want /\ want <= Size[path] - call.from
  <2>1. Size[path] - call.from \in Nat
    BY <1>2, <1>3, <1>4
  <2> QED BY <1>4, <2>1, LeastType
<1>6. q.at < Size[path]
  BY <1>2, <1>3, <1>4, <1>5
<1>7. /\ chunk \in Seq(Paths \X Nat)
      /\ Len(chunk) \in Nat /\ q.at + Len(chunk) <= Size[path]
      /\ \A i \in 1..Len(chunk) : chunk[i] = <<path, q.at + i - 1>>
  BY <1>3, <1>4, <1>6, ChunkFacts
<1>8. /\ out \in Seq(Paths \X Nat) /\ Len(out) = Len(call.out) + Len(chunk)
      /\ \A i \in 1..Len(out) : out[i] = <<path, call.from + i - 1>>
  <2>1. out \in Seq(Paths \X Nat) /\ Len(out) = Len(call.out) + Len(chunk)
    BY <1>4, <1>7
  <2>2. \A i \in 1..Len(out) : out[i] = IF i <= Len(call.out) THEN call.out[i]
                                         ELSE chunk[i - Len(call.out)]
    BY <1>4, <1>7
  <2>3. ASSUME NEW i \in 1..Len(out) PROVE out[i] = <<path, call.from + i - 1>>
    <3>1. CASE i <= Len(call.out)
      BY <1>2, <1>4, <2>1, <2>2, <3>1
    <3>2. CASE i > Len(call.out)
      <4>1. i - Len(call.out) \in 1..Len(chunk)
        BY <1>4, <1>7, <2>1, <3>2
      <4>2. out[i] = <<path, q.at + (i - Len(call.out)) - 1>>
        <5>1. out[i] = chunk[i - Len(call.out)]
          BY <1>4, <2>2, <3>2
        <5>2. chunk[i - Len(call.out)] = <<path, q.at + (i - Len(call.out)) - 1>>
          BY <1>7, <4>1
        <5> QED BY <5>1, <5>2
      <4>3. q.at + (i - Len(call.out)) - 1 = call.from + i - 1
        BY <1>2, <1>4, <2>1
      <4> QED BY <4>2, <4>3
    <3>3. i <= Len(call.out) \/ i > Len(call.out)
      <4>1. i \in Nat /\ Len(call.out) \in Nat
        BY <1>4
      <4> QED BY <4>1
    <3> QED BY <3>1, <3>2, <3>3
  <2> QED BY <2>1, <2>3
<1>9. rest \in Nat
  BY <1>4, <1>7
<1>10. CASE chunk = <<>> \/ rest = 0
  <2> DEFINE n == Least(Len(out), call.want)
  <2>1. /\ ret' = [status |-> "bytes", path |-> path, from |-> call.from, want |-> call.want,
                   bytes |-> SubSeq(out, 1, n), cut |-> (chunk = <<>>)]
        /\ call' = None /\ session' = session /\ media' = media
    BY <1>1, <1>10 DEF TakeRead, ReturnBytes
  <2>2. n \in Nat /\ n <= Len(out) /\ n <= call.want /\ (n = Len(out) \/ n = call.want)
    <3>1. Len(out) \in Nat /\ call.want \in Nat
      BY <1>4, <1>7, <1>8
    <3> HIDE DEF out
    <3> QED BY <3>1, LeastType DEF Least
  <2> HIDE DEF n, want, out, rest
  <2>3. /\ SubSeq(out, 1, n) \in Seq(Paths \X Nat) /\ Len(SubSeq(out, 1, n)) = n
        /\ \A i \in 1..n : SubSeq(out, 1, n)[i] = out[i]
    <3>1. \A i \in 1..n : out[i] \in Paths \X Nat
      BY <1>8, <2>2
    <3> QED BY <1>8, <2>2, <3>1, SubSeqProperties
  <2>4. n <= want
    <3>1. Size[path] - call.from \in Nat /\ Size[path] \in Nat
      BY <1>2, <1>3, <1>4
    <3>2. Len(out) <= Size[path] - call.from
      <4>1. Len(out) = Len(call.out) + Len(chunk) /\ q.at = call.from + Len(call.out)
        BY <1>2, <1>8
      <4>2. Len(chunk) \in Nat /\ q.at + Len(chunk) <= Size[path]
        BY <1>7
      <4> QED BY <1>4, <3>1, <4>1, <4>2
    <3>3. want = call.want \/ want = Size[path] - call.from
      BY DEF want, Least
    <3> QED BY <1>4, <1>5, <1>8, <2>2, <3>1, <3>2, <3>3
  <2>5. chunk # <<>> => n = want
    <3>1. chunk # <<>> => call.rest <= Len(chunk)
      BY <1>4, <1>7, <1>10 DEF rest
    <3>2. chunk # <<>> => want <= Len(out)
      BY <1>2, <1>4, <1>7, <1>8, <3>1
    <3> QED BY <1>4, <1>5, <1>7, <1>8, <2>2, <2>4, <3>2
  <2>6. ret' \in Results
    BY <1>3, <1>4, <2>1, <2>3 DEF Results, Statuses
  <2>7. ReadExact'
    <3>1. /\ ret'.status = "bytes" /\ ret'.path = path /\ ret'.from = call.from
          /\ ret'.want = call.want /\ ret'.bytes = SubSeq(out, 1, n)
          /\ ret'.cut <=> chunk = <<>>
      BY <2>1
    <3>2. want = Least(ret'.want, IF ret'.from < Size[ret'.path] THEN Size[ret'.path] - ret'.from
                                  ELSE 0)
      BY <1>2, <3>1 DEF want
    <3>3. ASSUME NEW i \in 1..n
          PROVE  SubSeq(out, 1, n)[i] = <<path, call.from + i - 1>>
      <4>1. i \in 1..Len(out)
        BY <1>4, <1>7, <1>8, <2>2
      <4>2. out[i] = <<path, call.from + i - 1>>
        BY <1>8, <4>1
      <4> QED BY <2>3, <4>2
    <3> QED BY <2>3, <2>4, <2>5, <3>1, <3>2, <3>3 DEF ReadExact
  <2>8. session' \in BOOLEAN /\ (session => session')
    BY <2>1 DEF IInv, TypeOK
  <2> QED BY <2>1, <2>6, <2>7, <2>8, EndsInv
<1>11. CASE ~(chunk = <<>> \/ rest = 0)
  <2> DEFINE r == ReadRequest(q.mid, q.fid, q.path, q.at + Len(chunk), rest)
  <2>1. /\ call' = [call EXCEPT !.q = r, !.rest = rest, !.out = out, !.turn = ~call.turn]
        /\ UNCHANGED <<session, media, ret>>
    BY <1>11 DEF TakeRead
  <2>2. /\ r \in Requests /\ r.mid = q.mid /\ r.op = "read" /\ r.fid = q.fid /\ r.path = q.path
        /\ r.at = q.at + Len(chunk)
    <3>1. Least(rest, ReadMax) \in Nat
      BY <1>9, LeastType, SessionAssumption
    <3>2. q.at + Len(chunk) \in Nat /\ q.mid \in Mids
      BY <1>1, <1>4, <1>7 DEF Requests
    <3> HIDE DEF rest
    <3> QED BY <1>3, <3>1, <3>2 DEF ReadRequest, Request, Requests
  <2>3. rest > 0 /\ rest = call.rest - Len(chunk)
    BY <1>4, <1>7, <1>9, <1>11
  <2> HIDE DEF r, rest, out
  <2>4. /\ call' \in Calls /\ call'.q = r /\ call'.job = "read" /\ call'.slot = call.slot
        /\ call'.from = call.from /\ call'.want = call.want /\ call'.rest = rest
        /\ call'.out = out
    BY <1>1, <1>8, <1>9, <2>1, <2>2 DEF Calls
  <2>5. call' # None
    BY <2>4, SessionAssumption
  <2>6. asked' = (asked \ {q}) \cup {r}
    BY <2>4, <2>5 DEF Server, Without
  <2>7. CallShape'
    <3>1. session' <=> call'.job \notin {"session", "once", "end"}
      BY <1>1, <2>1, <2>4 DEF IInv, CallShape
    <3> QED BY <2>2, <2>4, <2>6, <3>1 DEF CallShape, OpsOf
  <2>8. ReadPoint'
    <3>1. Len(out) + rest = want /\ r.at = call.from + Len(out)
      BY <1>2, <1>4, <1>7, <1>8, <2>2, <2>3
    <3>2. call'.slot \in Slots /\ Held(call.slot)'
          /\ r.fid = media'[call.slot].fid /\ r.path = media'[call.slot].path
      BY <1>2, <2>1, <2>2, <2>4 DEF Held
    <3>3. Len(call'.out) + call'.rest = Least(call'.want, Size[r.path] - call'.from)
      BY <2>2, <2>4, <3>1 DEF want
    <3>4. \A i \in 1..Len(call'.out) : call'.out[i] = <<r.path, call'.from + i - 1>>
      BY <1>8, <2>2, <2>4
    <3>5. call'.from < Size[r.path] /\ call'.rest > 0 /\ r.at = call'.from + Len(call'.out)
      BY <1>2, <2>2, <2>3, <2>4, <3>1
    <3> QED BY <2>4, <3>2, <3>3, <3>4, <3>5 DEF ReadPoint, Held
  <2> QED BY <2>1, <2>2, <2>4, <2>7, <2>8, ContinueInv
<1> QED BY <1>10, <1>11

LEMMA AnswerReadInv ==
    ASSUME IInv, NEW q \in asked, AnswerRead(q) PROVE IInv'
<1>1. q.op = "read" /\ Server(files, Without(q), {})
  BY DEF AnswerRead
<1>2. CASE Missed(q)
  BY <1>1, <1>2, MissedPlain
<1>3. CASE Waited(q) /\ \E chunk \in Chunks(q) : TakeRead(q, chunk)
  <2>1. PICK chunk \in Chunks(q) : TakeRead(q, chunk)
    BY <1>3
  <2> QED BY <1>1, <1>3, <2>1, TakeReadInv
<1> QED BY <1>2, <1>3 DEF AnswerRead

-----------------------------------------------------------------------------
(* The invariant *)

LEMMA InitInv == Init => IInv
<1> SUFFICES ASSUME Init PROVE IInv
  OBVIOUS
<1>1. DOMAIN NoFiles = {}
  BY DEF NoFiles
<1>2. Returned("none") \in Results /\ Returned("none").status = "none"
  BY ReturnedType DEF Statuses
<1>3. TypeOK
  BY <1>1, <1>2 DEF Init, TypeOK
<1>4. ReadExact
  BY <1>2 DEF Init, ReadExact
<1> QED BY <1>1, <1>3, <1>4 DEF Init, IInv, HandlesLive, FilesExplained, MidsDistinct,
          AskedShape, ClosesOnce, CallShape, ReadPoint

LEMMA StepInv == IInv /\ [Next]_vars => IInv'
<1> SUFFICES ASSUME IInv, [Next]_vars PROVE IInv'
  OBVIOUS
<1>1. CASE Connect
  BY <1>1, ConnectInv
<1>2. CASE CloseSession
  BY <1>2, CloseSessionInv
<1>3. CASE \E folder \in Folders : ListFolder(folder)
  BY <1>3, ListFolderInv
<1>4. CASE \E s \in Slots, path \in Paths : OpenMedia(s, path)
  BY <1>4, OpenMediaInv
<1>5. ASSUME NEW s \in Slots, NEW from \in 0..MaxRequested, NEW want \in 0..MaxRequested,
             ReadNothing(s, from, want) \/ Read(s, from, want)
      PROVE  IInv'
  <2>1. from \in Nat /\ want \in Nat
    BY SessionAssumption
  <2> QED BY <1>5, <2>1, ReadNothingInv, ReadInv
<1>6. CASE \E s \in Slots : CloseMedia(s)
  BY <1>6, CloseMediaInv
<1>7. CASE GiveUp
  BY <1>7, GiveUpInv
<1>8. CASE Answer
  BY <1>8, AnswerPlainInv, AnswerOpenInv, AnswerReadInv, AnswerCloseInv, AnswerUmountInv
     DEF Answer
<1>9. CASE Refuse
  BY <1>9, RefuseInv
<1>10. CASE UNCHANGED vars
  BY <1>10 DEF vars, IInv, TypeOK, HandlesLive, ReadExact, FilesExplained, MidsDistinct,
     AskedShape, ClosesOnce, CallShape, ReadPoint
<1> QED BY <1>1, <1>2, <1>3, <1>4, <1>5, <1>6, <1>7, <1>8, <1>9, <1>10 DEF Next, Caller

\* The inductive invariant holds of every state.
THEOREM Invariance == Spec => []IInv
BY InitInv, StepInv, PTL DEF Spec

\* Types; media and what is open at the server belong to a connection.
THEOREM TypeCorrect == Spec => []TypeOK
<1>1. IInv => TypeOK
  BY DEF IInv
<1> QED BY <1>1, Invariance, PTL

\* The file of a media that the caller holds stays open, the right one, and its
\* own, whatever opens and closes come late (media_close, session_open_media).
THEOREM MediaKeepTheirFiles == Spec => []HandlesLive
<1>1. IInv => HandlesLive
  BY DEF IInv
<1> QED BY <1>1, Invariance, PTL

\* media_read_at returns the bytes it was asked for, whatever the lengths of
\* the replies.
THEOREM ReadsAreExact == Spec => []ReadExact
<1>1. IInv => ReadExact
  BY DEF IInv
<1> QED BY <1>1, Invariance, PTL

\* Only calls that fail leave files open at the server.
THEOREM NoFileIsForgotten == Spec => []FilesExplained
<1>1. IInv => FilesExplained
  BY DEF IInv
<1> QED BY <1>1, Invariance, PTL
=============================================================================
