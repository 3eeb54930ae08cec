-------------------------- MODULE MediaSessionProps --------------------------
(* What makes the C interface correct.                                        *)
EXTENDS MediaSession

Statuses == {"none", "opened", "entries", "bytes", "closed", "error"}

Results == [status : Statuses, path : Paths \cup {None}, from : Nat, want : Nat,
            bytes : Seq(Paths \X Nat), cut : BOOLEAN]

\* Types of the variables; media and server state belong to a connection.
TypeOK ==
    /\ session \in BOOLEAN
    /\ media \in [Slots -> Handles \cup {None}]
    /\ call \in Calls \cup {None}
    /\ ret \in Results
    /\ DOMAIN files \subseteq Fids /\ \A f \in DOMAIN files : files[f] \in Paths
    /\ asked \subseteq Requests
    /\ strays \subseteq DOMAIN files
    /\ \A s \in Slots : media[s] # None => session
    /\ ~session /\ call = None => files = NoFiles /\ asked = {}

Held(s) == media[s] # None

\* A media's file is open at the server for as long as the caller holds the
\* media, it is the file that was asked for, and no other media has it, even if
\* the server reuses the ids of files whose open or close came late.
HandlesLive ==
    \A s \in Slots : Held(s) =>
        /\ media[s].fid \in DOMAIN files
        /\ files[media[s].fid] = media[s].path
        /\ media[s].fid \notin strays
        /\ \A t \in Slots : Held(t) /\ media[t].fid = media[s].fid => t = s

\* media_read_at returns the file's bytes from the offset it was given, at most
\* as many as fit the buffer; all that there are unless an empty reply cut it
\* short.
ReadExact ==
    ret.status = "bytes" =>
        LET there == IF ret.from < Size[ret.path] THEN Size[ret.path] - ret.from ELSE 0
            all == Least(ret.want, there)
        IN /\ Len(ret.bytes) <= all
           /\ ~ret.cut => Len(ret.bytes) = all
           /\ \A i \in 1..Len(ret.bytes) : ret.bytes[i] = <<ret.path, ret.from + i - 1>>

\* A file that is open at the server belongs to a media, is being closed, or is
\* lost to a call that failed: nothing else leaves a file open.
FilesExplained ==
    \A f \in DOMAIN files : \/ \E s \in Slots : Held(s) /\ media[s].fid = f
                            \/ call # None /\ call.q.op = "close" /\ call.q.fid = f
                            \/ f \in strays

\* A request is told by its mid.
MidsDistinct == \A p, q \in asked : p.mid = q.mid => p = q

\* What a request names; a share is unmounted while somebody waits for it.
AskedShape ==
    \A q \in asked : /\ q.op = "open" => q.path \in Paths
                     /\ q.op = "close" => q.fid \in DOMAIN files
                     /\ q.op = "umount" => Waited(q)

\* A file that is to be closed is nobody's, and is to be closed once.
ClosesOnce ==
    \A q \in asked : q.op = "close" =>
        /\ \A s \in Slots : Held(s) => media[s].fid # q.fid
        /\ q.fid \in strays <=> ~Waited(q)
        /\ \A p \in asked : p.op = "close" /\ p.fid = q.fid => p = q

OpsOf(job) == CASE job = "session" -> {"connect", "mount"}
                [] job = "once" -> {"connect", "mount", "find", "umount"}
                [] job = "list" -> {"find"}
                [] job = "end" -> {"umount"}
                [] job \in {"open", "read", "close"} -> {job}

\* The request of a call fits its job.
CallShape ==
    call # None =>
        /\ call.q \in asked /\ call.q.op \in OpsOf(call.job)
        /\ session <=> call.job \notin {"session", "once", "end"}
        /\ call.job = "open" => call.slot \in Slots /\ ~Held(call.slot)

\* A read has gathered the bytes up to where it goes on, and what it still
\* wants is the rest of what it is to return.
ReadPoint ==
    call # None /\ call.job = "read" =>
        /\ call.slot \in Slots /\ Held(call.slot)
        /\ call.q.fid = media[call.slot].fid /\ call.q.path = media[call.slot].path
        /\ call.from < Size[call.q.path]
        /\ call.rest > 0
        /\ Len(call.out) + call.rest = Least(call.want, Size[call.q.path] - call.from)
        /\ call.q.at = call.from + Len(call.out)
        /\ \A i \in 1..Len(call.out) : call.out[i] = <<call.q.path, call.from + i - 1>>

\* The inductive invariant.
IInv == /\ TypeOK /\ HandlesLive /\ ReadExact /\ FilesExplained
        /\ MidsDistinct /\ AskedShape /\ ClosesOnce /\ CallShape /\ ReadPoint

\* Every call but the two that close returns, whether or not the server ever
\* answers and however it cuts its answers.
TimedCallsReturn ==
    call # None /\ call.job \notin {"close", "end"} ~> call = None
=============================================================================
