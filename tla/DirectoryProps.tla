---------------------------- MODULE DirectoryProps ----------------------------
(* What makes the listing of a directory correct.                             *)
EXTENDS Directory

Statuses == {"none", "some", "end", "lost", "list", "error", "invalid", "closed"}

\* Types of the variables; without a reader its fields are those of none.
TypeOK ==
    /\ opened \in BOOLEAN /\ end \in BOOLEAN
    /\ pending \in Seq(Names) \cup {None}
    /\ lastFile \in Names \cup {None}
    /\ sid \in Sids \cup {None}
    /\ call \in Requests \cup {None}
    /\ listed \in Seq(Names) /\ seen \in Seq(Names)
    /\ ret.status \in Statuses
    /\ asked \subseteq Requests
    /\ dropped \subseteq Requests /\ IsFiniteSet(dropped)
    /\ searches \subseteq Sids /\ left \subseteq searches
    /\ opened <=> sid # None
    /\ ~opened => pending = None /\ seen = <<>>

\* The reader gives out the directory's entries in the server's order, each
\* once, and is_done only when it has given out all, whatever calls time out
\* and are made again while the server still carries out the first ones.
Listings == INSTANCE Listing
    WITH given <- seen, done <- opened /\ end /\ pending = None
ImplementsListing == Listings!Spec

\* list returns the whole directory or an error: a batch that comes after a
\* failure elsewhere is never taken for the next one.
ListComplete == ret.status = "list" => ret.entries = Dir

\* There is a name to resume from whenever one is needed: next never reports
\* "directory reader lost resume point", and list does not panic on the last
\* of no entries, even if the server answers with an empty batch.
ResumeKnown == /\ opened /\ ~end => lastFile # None
               /\ call # None /\ call.sid # None => call.after # None

\* The searches that stay open at the server are those in use, and those given
\* up with a reader, a list or a reply before their end: one that was followed
\* to its end costs the server nothing more.
SearchesExplained ==
    \A s \in searches \ left : \/ opened /\ ~end /\ s = sid
                               \/ call # None /\ call.op = "list" /\ s = call.sid

\* The names so far are the first ones of the directory.
Begins(names) == /\ Len(names) <= Len(Dir)
                 /\ \A i \in 1..Len(names) : names[i] = Dir[i]

\* What the reader has had from the server.
Had == IF pending = None THEN seen ELSE pending

\* A reader that is not done resumes at the last name of what it has had.
ReaderPoint ==
    opened => /\ pending # None => seen = <<>>
              /\ Begins(Had)
              /\ end => Len(Had) = Len(Dir)
              /\ ~end => Had # <<>> /\ lastFile = Had[Len(Had)]

\* The request under way begins a search or leads on from what there is.
CallPoint ==
    /\ call = None => listed = <<>>
    /\ call # None =>
         /\ call.op # "list" => listed = <<>>
         /\ call.op = "open" => ~opened /\ call.sid = None
         /\ call.op = "next" => /\ opened /\ pending = None /\ ~end
                                /\ call.sid = sid /\ call.after = lastFile
         /\ call.op = "list" =>
              /\ Begins(listed)
              /\ call.sid = None => listed = <<>>
              /\ call.sid # None => listed # <<>> /\ call.after = listed[Len(listed)]

\* The inductive invariant.
IInv == TypeOK /\ ReaderPoint /\ CallPoint /\ ListComplete

\* Every call returns, list's loop included, if the server answers; it cannot
\* be kept going by empty batches.
CallsReturn == call # None ~> call = None

\* A player that, from some time on, only goes on calling next comes to the end
\* of the directory, unless the server refuses or closes the search.
PlayerKeepsOn == <>[][ReadOn \/ Server]_vars /\ WF_vars(ReadOn)
ListingEnds ==
    PlayerKeepsOn =>
        \/ <>[]~opened
        \/ <>(opened /\ end /\ pending = None)
        \/ []<>(ret.status \in {"invalid", "closed"})
=============================================================================
