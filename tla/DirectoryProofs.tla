--------------------------- MODULE DirectoryProofs ---------------------------
(* Proofs about the listing of a directory, for every directory, batch size   *)
(* and number of calls given up.                                              *)
EXTENDS DirectoryProps, SequenceTheorems, FiniteSetTheorems, TLAPS

\* What the assumption on the constants says, and that the names of a
\* directory are its elements.
LEMMA ConstantTypes ==
    /\ Dir \in Seq(Names) /\ Len(Dir) \in Nat /\ DOMAIN Dir = 1..Len(Dir)
    /\ \A i, j \in 1..Len(Dir) : Dir[i] = Dir[j] => i = j
    /\ None \notin Names /\ None \notin Sids /\ None \notin Seq(Names)
    /\ None \notin Requests
    /\ MaxBatch \in Nat
<1>1. Dir \in Seq(Names)
  BY DirAssumption
<1>2. Len(Dir) \in Nat /\ DOMAIN Dir = 1..Len(Dir)
  BY <1>1
<1> QED BY <1>1, <1>2, DirAssumption

\* The last name of a batch.
LEMMA LastNameType ==
    ASSUME NEW info \in Seq(Names)
    PROVE  /\ LastName(info) \in Names \cup {None}
           /\ info # <<>> => LastName(info) = info[Len(info)] /\ LastName(info) \in Names
<1>1. info # <<>> => Len(info) \in 1..Len(info)
  BY EmptySeq
<1> QED BY <1>1 DEF LastName

\* The server goes on where the name it is asked to resume from stands.
LEMMA FromResumes ==
    ASSUME NEW q, q.sid # None,
           NEW k \in 1..Len(Dir), q.after = Dir[k]
    PROVE  From(q) = k
<1>1. \A i \in DOMAIN Dir : Dir[i] = q.after <=> i = k
  BY ConstantTypes
<1> QED BY <1>1, ConstantTypes DEF From

\* A batch is a run of the directory's names that begins where the search is.
LEMMA BatchIsRun ==
    ASSUME NEW q, From(q) \in 0..Len(Dir),
           NEW reply \in Batches(q)
    PROVE  /\ reply.info \in Seq(Names)
           /\ reply.end \in BOOLEAN
           /\ From(q) + Len(reply.info) <= Len(Dir)
           /\ \A i \in 1..Len(reply.info) : reply.info[i] = Dir[From(q) + i]
           /\ reply.info = SubSeq(Dir, From(q) + 1, From(q) + Len(reply.info))
<1>1. PICK n \in {k \in 0..MaxBatch : From(q) + k <= Len(Dir)}, e \in BOOLEAN,
           last \in LastOffsets,
           s \in IF q.sid = None THEN Sids \ searches ELSE {q.sid} \cap searches :
        reply = [info |-> SubSeq(Dir, From(q) + 1, From(q) + n), end |-> e,
                 last |-> last, sid |-> s]
  BY DEF Batches
<1>2. n \in Nat /\ From(q) \in Nat /\ From(q) + n <= Len(Dir) /\ Len(Dir) \in Nat
  BY <1>1, ConstantTypes
<1>3. /\ SubSeq(Dir, From(q) + 1, From(q) + n) \in Seq(Names)
      /\ Len(SubSeq(Dir, From(q) + 1, From(q) + n)) = n
      /\ \A i \in 1..n : SubSeq(Dir, From(q) + 1, From(q) + n)[i] = Dir[From(q) + i]
  <2>1. \A i \in (From(q) + 1)..(From(q) + n) : Dir[i] \in Names
    BY <1>2, ConstantTypes
  <2>2. /\ SubSeq(Dir, From(q) + 1, From(q) + n) \in Seq(Names)
        /\ Len(SubSeq(Dir, From(q) + 1, From(q) + n)) =
             IF From(q) + 1 <= From(q) + n THEN (From(q) + n) - (From(q) + 1) + 1 ELSE 0
        /\ \A i \in 1..((From(q) + n) - (From(q) + 1) + 1) :
             SubSeq(Dir, From(q) + 1, From(q) + n)[i] = Dir[(From(q) + 1) + i - 1]
    <3>1. From(q) + 1 \in Int /\ From(q) + n \in Int
      BY <1>2
    <3> QED BY <2>1, <3>1, SubSeqProperties
  <2> QED BY <1>2, <2>2
<1> QED BY <1>1, <1>2, <1>3

\* The search a batch belongs to, whatever request it answers.
LEMMA BatchSearch ==
    ASSUME NEW q, NEW reply \in Batches(q)
    PROVE  /\ reply.end \in BOOLEAN
           /\ reply.sid \in Sids \cup searches
<1>1. \E n \in {k \in 0..MaxBatch : From(q) + k <= Len(Dir)}, e \in BOOLEAN,
         last \in LastOffsets,
         s \in IF q.sid = None THEN Sids \ searches ELSE {q.sid} \cap searches :
        reply = [info |-> SubSeq(Dir, From(q) + 1, From(q) + n), end |-> e,
                 last |-> last, sid |-> s]
  BY DEF Batches
<1> QED BY <1>1

\* What is gathered from the beginning goes on being the beginning.
LEMMA BeginsOn ==
    ASSUME NEW s \in Seq(Names), Begins(s),
           NEW info \in Seq(Names), Len(s) + Len(info) <= Len(Dir),
           \A i \in 1..Len(info) : info[i] = Dir[Len(s) + i]
    PROVE  /\ s \o info \in Seq(Names)
           /\ Len(s \o info) = Len(s) + Len(info)
           /\ Begins(s \o info)
<1>1. /\ s \o info \in Seq(Names)
      /\ Len(s \o info) = Len(s) + Len(info)
      /\ \A i \in 1..(Len(s) + Len(info)) :
            (s \o info)[i] = IF i <= Len(s) THEN s[i] ELSE info[i - Len(s)]
  BY ConcatProperties
<1>2. \A i \in 1..(Len(s) + Len(info)) : (s \o info)[i] = Dir[i]
  <2> TAKE i \in 1..(Len(s) + Len(info))
  <2>1. CASE i <= Len(s)
    BY <1>1, <2>1 DEF Begins
  <2>2. CASE ~(i <= Len(s))
    <3>1. i - Len(s) \in 1..Len(info) /\ Len(s) + (i - Len(s)) = i
      BY <2>2
    <3> QED BY <1>1, <2>2, <3>1
  <2> QED BY <2>1, <2>2
<1> QED BY <1>1, <1>2 DEF Begins

\* All of the directory is the directory.
LEMMA AllOfIt ==
    ASSUME NEW s \in Seq(Names), Begins(s), Len(s) = Len(Dir)
    PROVE  s = Dir
BY ConstantTypes, SeqEqual DEF Begins

\* A request is one, and not None.
LEMMA RequestType ==
    ASSUME TypeOK, NEW op \in {"open", "next", "list"},
           NEW s \in Sids \cup {None}, NEW after \in Names \cup {None}
    PROVE  /\ Request(op, s, after) \in Requests
           /\ Request(op, s, after) # None
           /\ Request(op, s, after).op = op
           /\ Request(op, s, after).sid = s
           /\ Request(op, s, after).after = after
<1>1. Cardinality(dropped) \in Nat
  BY FS_CardinalityType DEF TypeOK
<1> DEFINE again == call # None /\ ~call.again
<1>2. again \in BOOLEAN
  OBVIOUS
<1>3. Request(op, s, after) = [op |-> op, sid |-> s, after |-> after,
                               tag |-> Cardinality(dropped), again |-> again]
  BY DEF Request
<1> HIDE DEF again
<1> QED BY <1>1, <1>2, <1>3, ConstantTypes DEF Requests

\* The invariant holds at the start.
LEMMA InitInvariant == Init => IInv
<1> SUFFICES ASSUME Init PROVE IInv
  OBVIOUS
<1>0. IsFiniteSet(dropped) /\ ret.status = "none"
  BY FS_EmptySet DEF Init
<1>1. TypeOK
  <2>1. listed \in Seq(Names) /\ seen \in Seq(Names)
    BY EmptySeq DEF Init
  <2>2. /\ asked \subseteq Requests /\ dropped \subseteq Requests
        /\ searches \subseteq Sids /\ left \subseteq searches
    BY DEF Init
  <2>3. opened \in BOOLEAN /\ end \in BOOLEAN /\ (opened <=> sid # None)
    BY Zenon DEF Init
  <2> QED BY <1>0, <2>1, <2>2, <2>3 DEF Init, TypeOK, Statuses
<1>2. ReaderPoint /\ CallPoint /\ ListComplete
  BY DEF Init, ReaderPoint, CallPoint, ListComplete
<1> QED BY <1>1, <1>2 DEF IInv

\* The batch of find_first is the beginning of the directory.
LEMMA PendingBegins ==
    ASSUME IInv, opened, pending # None
    PROVE  /\ pending \in Seq(Names) /\ seen = <<>>
           /\ seen \o pending = pending
BY ConcatEmptySeq DEF IInv, TypeOK, ReaderPoint

\* The caller's own steps.
LEMMA CallerStep ==
    ASSUME IInv, OpenReader \/ DropReader \/ ReadOn \/ List \/ GiveUp
    PROVE  IInv'
<1> USE DEF Names
<1>0. TypeOK /\ ReaderPoint /\ CallPoint /\ ListComplete
  BY DEF IInv
<1>1. CASE OpenReader
  <2>1. call' = Request("open", None, None) /\ asked' = asked \cup {call'}
    BY <1>1 DEF OpenReader, Ask
  <2>2. call' \in Requests /\ call' # None /\ call'.op = "open" /\ call'.sid = None
    BY <1>0, <2>1, RequestType
  <2> QED BY <1>0, <1>1, <2>1, <2>2
       DEF OpenReader, reader, IInv, TypeOK, ReaderPoint, CallPoint, ListComplete, Had, Begins
<1>2. CASE DropReader
  <2> QED BY <1>0, <1>2, EmptySeq, ConstantTypes
       DEF DropReader, IInv, TypeOK, ReaderPoint, CallPoint, ListComplete, Had, Begins
<1>3. CASE NextPending
  <2>1. pending \in Seq(Names) /\ seen' = pending /\ pending' = None
    BY <1>3, PendingBegins DEF NextPending, HandOut
  <2>2. ret'.status = "some"
    BY <1>3 DEF NextPending, HandOut, Returns
  <2> QED BY <1>0, <1>3, <2>1, <2>2, ConstantTypes
       DEF NextPending, IInv, TypeOK, ReaderPoint, CallPoint, ListComplete, Had, Begins, Statuses
<1>4. CASE NextNone
  <2>1. ret'.status \in {"end", "lost"}
    BY <1>4 DEF NextNone, Returns
  <2> QED BY <1>0, <1>4, <2>1
       DEF NextNone, reader, IInv, TypeOK, ReaderPoint, CallPoint, ListComplete, Had, Begins,
           Statuses
<1>5. CASE NextBatch
  <2>1. call' = Request("next", sid, lastFile) /\ asked' = asked \cup {call'}
    BY <1>5 DEF NextBatch, Ask
  <2>2. /\ call' \in Requests /\ call' # None /\ call'.op = "next"
        /\ call'.sid = sid /\ call'.after = lastFile
    BY <1>0, <2>1, RequestType DEF TypeOK
  <2> QED BY <1>0, <1>5, <2>1, <2>2
       DEF NextBatch, reader, IInv, TypeOK, ReaderPoint, CallPoint, ListComplete, Had, Begins
<1>6. CASE List
  <2>1. call' = Request("list", None, None) /\ asked' = asked \cup {call'}
    BY <1>6 DEF List, Ask
  <2>2. call' \in Requests /\ call' # None /\ call'.op = "list" /\ call'.sid = None
    BY <1>0, <2>1, RequestType
  <2>3. listed = <<>> /\ listed' = <<>>
    BY <1>0, <1>6 DEF List, CallPoint
  <2>4. Begins(<<>>)
    BY ConstantTypes DEF Begins
  <2> QED BY <1>0, <1>6, <2>1, <2>2, <2>3, <2>4
       DEF List, reader, IInv, TypeOK, ReaderPoint, CallPoint, ListComplete, Had, Begins
<1>7. CASE GiveUp
  <2>1. IsFiniteSet(dropped') /\ dropped' \subseteq Requests
    BY <1>0, <1>7, FS_AddElement DEF GiveUp, TypeOK
  <2>2. ret'.status = "error"
    BY <1>7 DEF GiveUp, Returns
  <2>3. left' \subseteq searches' /\ searches' \subseteq Sids
    BY <1>0, <1>7 DEF GiveUp, TypeOK
  <2> QED BY <1>0, <1>7, <2>1, <2>2, <2>3, EmptySeq
       DEF GiveUp, reader, IInv, TypeOK, ReaderPoint, CallPoint, ListComplete, Had, Begins, Statuses
<1> QED BY <1>1, <1>2, <1>3, <1>4, <1>5, <1>6, <1>7 DEF ReadOn

\* The batch that DirectoryReader::next waits for goes on where the reader is.
LEMMA NextFollows ==
    ASSUME IInv, call # None, call.op = "next",
           NEW reply \in Batches(call)
    PROVE  /\ opened /\ pending = None /\ ~end /\ listed = <<>>
           /\ seen \in Seq(Names) /\ From(call) = Len(seen)
           /\ reply.info \in Seq(Names) /\ reply.end \in BOOLEAN
           /\ Len(seen) + Len(reply.info) <= Len(Dir)
           /\ reply.info = SubSeq(Dir, Len(seen) + 1, Len(seen) + Len(reply.info))
           /\ seen \o reply.info \in Seq(Names)
           /\ Len(seen \o reply.info) = Len(seen) + Len(reply.info)
           /\ Begins(seen \o reply.info)
<1>0. TypeOK /\ ReaderPoint /\ CallPoint
  BY DEF IInv
<1>1. /\ opened /\ pending = None /\ ~end /\ call.sid = sid /\ call.after = lastFile
      /\ Begins(seen) /\ seen # <<>> /\ lastFile = seen[Len(seen)] /\ seen \in Seq(Names)
      /\ sid # None /\ listed = <<>>
  BY <1>0 DEF CallPoint, ReaderPoint, Had, TypeOK
<1>2. Len(seen) \in 1..Len(Dir) /\ lastFile = Dir[Len(seen)]
  BY <1>1, EmptySeq, ConstantTypes DEF Begins
<1>3. From(call) = Len(seen)
  BY <1>1, <1>2, FromResumes
<1>4. /\ reply.info \in Seq(Names) /\ reply.end \in BOOLEAN
      /\ Len(seen) + Len(reply.info) <= Len(Dir)
      /\ \A i \in 1..Len(reply.info) : reply.info[i] = Dir[Len(seen) + i]
      /\ reply.info = SubSeq(Dir, Len(seen) + 1, Len(seen) + Len(reply.info))
  <2>1. From(call) \in 0..Len(Dir)
    BY <1>2, <1>3, ConstantTypes
  <2>2. /\ reply.info \in Seq(Names) /\ reply.end \in BOOLEAN
        /\ From(call) + Len(reply.info) <= Len(Dir)
        /\ \A i \in 1..Len(reply.info) : reply.info[i] = Dir[From(call) + i]
        /\ reply.info = SubSeq(Dir, From(call) + 1, From(call) + Len(reply.info))
    BY <2>1, BatchIsRun
  <2> QED BY <1>3, <2>2
<1>5. /\ seen \o reply.info \in Seq(Names)
      /\ Len(seen \o reply.info) = Len(seen) + Len(reply.info)
      /\ Begins(seen \o reply.info)
  BY <1>1, <1>4, BeginsOn
<1> QED BY <1>1, <1>3, <1>4, <1>5

\* A reply that the call takes, or refuses.
LEMMA TakeStep ==
    ASSUME IInv, NEW reply \in Batches(call), call # None,
           Honest(call, reply), Take(call, reply),
           searches' = SearchesAfter(reply),
           asked' = (asked \ {call}) \cup Renewed(call),
           left' \subseteq searches', UNCHANGED dropped
    PROVE  IInv'
<1>0. TypeOK /\ ReaderPoint /\ CallPoint /\ ListComplete
  BY DEF IInv
<1>s. searches' \subseteq Sids /\ reply.sid \in Sids
  <2>1. reply.sid \in Sids
    BY <1>0, BatchSearch DEF TypeOK
  <2> QED BY <1>0, <2>1 DEF SearchesAfter, TypeOK
<1>d. dropped' = dropped
  OBVIOUS
<1>1. CASE Refuse("invalid")
  <2>1. asked' \subseteq Requests
    BY <1>0, <1>1 DEF Refuse, Renewed, TypeOK
  <2>2. ret'.status = "invalid" /\ call' = None /\ listed' = <<>>
    BY <1>1 DEF Refuse, Returns
  <2> QED BY <1>0, <1>s, <1>d, <1>1, <2>1, <2>2, EmptySeq
       DEF Refuse, reader, IInv, TypeOK, ReaderPoint, CallPoint, ListComplete, Had, Begins, Statuses
<1>2. CASE call.op = "open" /\ Accepted(call, reply) /\ TakeOpened(reply)
  <2>1. call.sid = None /\ From(call) = 0
    BY <1>0, <1>2 DEF CallPoint, From
  <2>2. /\ reply.info \in Seq(Names) /\ reply.end \in BOOLEAN
        /\ Len(reply.info) <= Len(Dir)
        /\ \A i \in 1..Len(reply.info) : reply.info[i] = Dir[i]
    <3>1. From(call) \in 0..Len(Dir)
      BY <2>1, ConstantTypes
    <3>2. /\ reply.info \in Seq(Names) /\ reply.end \in BOOLEAN
          /\ From(call) + Len(reply.info) <= Len(Dir)
          /\ \A i \in 1..Len(reply.info) : reply.info[i] = Dir[From(call) + i]
      BY <3>1, BatchIsRun
    <3>3. Len(reply.info) \in Nat
      BY <3>2
    <3> QED BY <2>1, <3>2, <3>3
  <2>3. reply.info # None /\ reply.sid # None
    BY <2>2, <1>s, ConstantTypes
  <2>4. asked' \subseteq Requests
    BY <1>0, <1>2 DEF TakeOpened, Renewed, TypeOK
  <2>5. ret'.status = "some" /\ call' = None /\ listed' = <<>>
    BY <1>0, <1>2 DEF TakeOpened, Returns, CallPoint
  <2>6. TypeOK'
    BY <1>0, <1>s, <1>d, <1>2, <2>2, <2>3, <2>4, <2>5, LastNameType, EmptySeq
       DEF TakeOpened, TypeOK, Statuses
  <2>7. ReaderPoint'
    <3>1. reply.end => Len(reply.info) = Len(Dir)
      BY <2>1, <2>2 DEF Honest
    <3>2. ~reply.end => reply.info # <<>> /\ lastFile' = reply.info[Len(reply.info)]
      BY <1>2, <2>2, LastNameType DEF Accepted, TakeOpened
    <3> QED BY <1>2, <2>2, <2>3, <3>1, <3>2 DEF TakeOpened, ReaderPoint, Had, Begins
  <2>8. CallPoint' /\ ListComplete'
    BY <2>5 DEF CallPoint, ListComplete
  <2> QED BY <2>6, <2>7, <2>8 DEF IInv
<1>3. CASE call.op = "next" /\ Accepted(call, reply) /\ TakeBatch(reply)
  <2>1. /\ opened /\ pending = None /\ listed = <<>>
        /\ seen \in Seq(Names) /\ From(call) = Len(seen)
        /\ reply.info \in Seq(Names) /\ reply.end \in BOOLEAN
        /\ seen \o reply.info \in Seq(Names)
        /\ Len(seen \o reply.info) = Len(seen) + Len(reply.info)
        /\ Begins(seen \o reply.info)
    BY <1>3, NextFollows
  <2>6. asked' \subseteq Requests
    BY <1>0, <1>3 DEF TakeBatch, Renewed, TypeOK
  <2>7. /\ ret'.status = "some" /\ call' = None /\ listed' = <<>>
        /\ seen' = seen \o reply.info
        /\ end' = reply.end /\ lastFile' = LastName(reply.info)
        /\ UNCHANGED <<opened, pending, sid>>
    BY <1>3, <2>1 DEF TakeBatch, HandOut, Returns
  <2>8. TypeOK'
    BY <1>0, <1>s, <1>d, <2>1, <2>6, <2>7, LastNameType, EmptySeq
       DEF TypeOK, Statuses
  <2>9. ReaderPoint'
    <3>1. reply.end => Len(seen') = Len(Dir)
      BY <2>1, <2>7 DEF Honest
    <3>2. ~reply.end => seen' # <<>> /\ lastFile' = seen'[Len(seen')]
      <4> SUFFICES ASSUME ~reply.end PROVE seen' # <<>> /\ lastFile' = seen'[Len(seen')]
        OBVIOUS
      <4>1. reply.info # <<>> /\ lastFile' = reply.info[Len(reply.info)]
        BY <1>3, <2>1, <2>7, LastNameType DEF Accepted
      <4>2. Len(reply.info) \in Nat \ {0} /\ Len(seen) \in Nat
        BY <4>1, <2>1, EmptySeq, LenProperties
      <4>3. seen'[Len(seen')] = reply.info[Len(reply.info)]
        BY <2>1, <2>7, <4>2, ConcatProperties
      <4>4. Len(seen') # 0
        BY <2>1, <2>7, <4>2
      <4> QED BY <4>1, <4>3, <4>4
    <3> QED BY <2>1, <2>7, <3>1, <3>2 DEF ReaderPoint, Had, Begins
  <2>10. CallPoint' /\ ListComplete'
    BY <2>7 DEF CallPoint, ListComplete
  <2> QED BY <2>8, <2>9, <2>10 DEF IInv
<1>4. CASE call.op = "list" /\ Accepted(call, reply) /\ TakeListed(reply)
  <2> DEFINE result == listed \o reply.info
  <2>1. /\ Begins(listed) /\ listed \in Seq(Names)
        /\ call.sid = None => listed = <<>>
        /\ call.sid # None => listed # <<>> /\ call.after = listed[Len(listed)]
    BY <1>0, <1>4 DEF CallPoint, TypeOK
  <2>2. From(call) = Len(listed) /\ Len(listed) \in 0..Len(Dir)
    <3>1. CASE call.sid = None
      BY <2>1, <3>1, EmptySeq, ConstantTypes DEF From
    <3>2. CASE call.sid # None
      <4>1. Len(listed) \in 1..Len(Dir) /\ call.after = Dir[Len(listed)]
        BY <2>1, <3>2, EmptySeq, ConstantTypes DEF Begins
      <4> QED BY <3>2, <4>1, FromResumes
    <3> QED BY <3>1, <3>2
  <2>3. /\ reply.info \in Seq(Names) /\ reply.end \in BOOLEAN
        /\ Len(listed) + Len(reply.info) <= Len(Dir)
        /\ \A i \in 1..Len(reply.info) : reply.info[i] = Dir[Len(listed) + i]
    <3>1. /\ reply.info \in Seq(Names) /\ reply.end \in BOOLEAN
          /\ From(call) + Len(reply.info) <= Len(Dir)
          /\ \A i \in 1..Len(reply.info) : reply.info[i] = Dir[From(call) + i]
      BY <2>2, BatchIsRun
    <3> QED BY <2>2, <3>1
  <2>4. /\ result \in Seq(Names)
        /\ Len(result) = Len(listed) + Len(reply.info)
        /\ Begins(result)
    BY <2>1, <2>3, BeginsOn
  <2>5. CASE reply.end
    <3>1. /\ ret' = [status |-> "list", entries |-> result]
          /\ call' = None /\ listed' = <<>> /\ UNCHANGED reader
      BY <1>4, <2>5 DEF TakeListed, Returns
    <3>2. result = Dir
      BY <2>2, <2>4, <2>5, AllOfIt DEF Honest
    <3>3. asked' \subseteq Requests
      BY <1>0, <3>1 DEF Renewed, TypeOK
    <3>4. ret'.status = "list" /\ ret'.entries = Dir
      BY <3>1, <3>2
    <3> QED BY <1>0, <1>s, <1>d, <3>1, <3>3, <3>4, EmptySeq
         DEF reader, IInv, TypeOK, ReaderPoint, CallPoint, ListComplete, Had, Begins, Statuses
  <2>6. CASE ~reply.end
    <3>1. /\ call' = Request("list", reply.sid, LastName(result))
          /\ listed' = result /\ UNCHANGED <<reader, ret>>
      BY <1>4, <2>6 DEF TakeListed
    <3>2. result # <<>>
      <4>1. Len(reply.info) \in Nat \ {0} /\ Len(listed) \in Nat
        BY <1>4, <2>1, <2>3, <2>6, EmptySeq, LenProperties DEF Accepted
      <4>2. Len(result) # 0
        BY <2>4, <4>1
      <4> QED BY <4>2
    <3>3. LastName(result) = result[Len(result)] /\ LastName(result) \in Names
      BY <2>4, <3>2, LastNameType
    <3>4. /\ call' \in Requests /\ call' # None /\ call'.op = "list"
          /\ call'.sid = reply.sid /\ call'.after = LastName(result)
      <4> HIDE DEF result
      <4>1. reply.sid \in Sids \cup {None} /\ LastName(result) \in Names \cup {None}
        BY <1>s, <3>3
      <4> QED BY <1>0, <3>1, <4>1, RequestType
    <3>5. asked' \subseteq Requests
      BY <1>0, <3>4 DEF Renewed, TypeOK
    <3>6. reply.sid # None
      BY <1>s, ConstantTypes
    <3> HIDE DEF result
    <3> QED BY <1>0, <1>s, <1>d, <2>4, <3>1, <3>2, <3>3, <3>4, <3>5, <3>6
         DEF reader, IInv, TypeOK, ReaderPoint, CallPoint, ListComplete, Had, Begins
  <2> QED BY <2>3, <2>5, <2>6
<1> QED BY <1>1, <1>2, <1>3, <1>4 DEF Take

\* A reply that nobody waits for.
LEMMA MissedStep ==
    ASSUME IInv, NEW q, NEW reply \in Batches(q), Missed,
           searches' = SearchesAfter(reply),
           asked' \subseteq asked,
           left' \subseteq searches', UNCHANGED dropped
    PROVE  IInv'
<1>1. searches' \subseteq Sids
  <2>1. searches \subseteq Sids
    BY DEF IInv, TypeOK
  <2>2. reply.sid \in Sids
    BY <2>1, BatchSearch
  <2> QED BY <2>1, <2>2 DEF SearchesAfter
<1> QED BY <1>1
    DEF Missed, reader, IInv, TypeOK, ReaderPoint, CallPoint, ListComplete, Had, Begins

\* A request that the server cannot carry out.
LEMMA RejectStep ==
    ASSUME IInv, NEW q \in asked, Reject(q)
    PROVE  IInv'
<1>0. TypeOK /\ ReaderPoint /\ CallPoint /\ ListComplete
  BY DEF IInv
<1>1. asked' \subseteq Requests /\ UNCHANGED <<searches, dropped, left>>
  BY <1>0 DEF Reject, TypeOK
<1>2. CASE Refuse("closed")
  <2>1. ret'.status = "closed" /\ call' = None /\ listed' = <<>>
    BY <1>2 DEF Refuse, Returns
  <2> QED BY <1>0, <1>1, <1>2, <2>1, EmptySeq
       DEF Refuse, reader, IInv, TypeOK, ReaderPoint, CallPoint, ListComplete, Had, Begins, Statuses
<1>3. CASE Missed
  BY <1>0, <1>1, <1>3
     DEF Missed, reader, IInv, TypeOK, ReaderPoint, CallPoint, ListComplete, Had, Begins
<1> QED BY <1>2, <1>3 DEF Reject

\* A request that it carries out.
LEMMA AnswerStep ==
    ASSUME IInv, NEW q \in asked, Answer(q)
    PROVE  IInv'
<1>1. PICK reply \in Batches(q) :
        /\ Honest(q, reply)
        /\ IF call = q THEN Take(q, reply) ELSE Missed
        /\ searches' = SearchesAfter(reply)
        /\ asked' = (asked \ {q}) \cup Renewed(q)
        /\ left' = (left \cup Abandoned(q, reply)) \cap searches'
        /\ UNCHANGED dropped
  BY Zenon DEF Answer
<1>2. left' \subseteq searches'
  BY <1>1
<1>3. CASE call = q
  <2>1. call # None
    BY <1>3, ConstantTypes DEF IInv, TypeOK
  <2> QED BY <1>1, <1>2, <1>3, <2>1, TakeStep
<1>4. CASE call # q
  <2>1. asked' \subseteq asked /\ Missed
    BY <1>1, <1>4 DEF Renewed
  <2> QED BY <1>1, <1>2, <2>1, MissedStep
<1> QED BY <1>3, <1>4

\* Every step keeps the invariant.
LEMMA InvariantStep == IInv /\ [Next]_vars => IInv'
<1> SUFFICES ASSUME IInv, [Next]_vars PROVE IInv'
  OBVIOUS
<1>1. CASE OpenReader \/ DropReader \/ ReadOn \/ List \/ GiveUp
  BY <1>1, CallerStep
<1>2. CASE Server
  BY <1>2, AnswerStep, RejectStep DEF Server
<1>3. CASE UNCHANGED vars
  BY <1>3 DEF vars, reader, IInv, TypeOK, ReaderPoint, CallPoint, ListComplete, Had, Begins
<1> QED BY <1>1, <1>2, <1>3 DEF Next

\* The inductive invariant holds throughout.
THEOREM Invariant == Spec => []IInv
<1> QED BY InitInvariant, InvariantStep, PTL DEF Spec

\* The variables keep their types, and searches nobody follows are open ones.
THEOREM TypeCorrect == Spec => []TypeOK
<1>1. IInv => TypeOK
  BY DEF IInv
<1> QED BY <1>1, Invariant, PTL

\* list returns the whole directory or an error.
THEOREM ListIsComplete == Spec => []ListComplete
<1>1. IInv => ListComplete
  BY DEF IInv
<1> QED BY <1>1, Invariant, PTL

\* There is always a name to resume from.
THEOREM ResumeIsKnown == Spec => []ResumeKnown
<1>1. IInv => ResumeKnown
  <2> SUFFICES ASSUME IInv PROVE ResumeKnown
    OBVIOUS
  <2>0. TypeOK /\ ReaderPoint /\ CallPoint
    BY DEF IInv
  <2>1. ASSUME NEW s \in Seq(Names), s # <<>> PROVE s[Len(s)] # None
    <3>1. Len(s) \in 1..Len(s)
      BY <2>1, EmptySeq
    <3> QED BY <3>1, ConstantTypes
  <2>2. opened /\ ~end => lastFile # None
    BY <2>0, <2>1 DEF TypeOK, ReaderPoint, Had
  <2>3. ASSUME call # None, call.sid # None PROVE call.after # None
    <3>1. call.op \in {"open", "next", "list"}
      BY <2>0, <2>3 DEF TypeOK, Requests
    <3> QED BY <2>0, <2>1, <2>2, <2>3, <3>1 DEF TypeOK, CallPoint
  <2> QED BY <2>2, <2>3 DEF ResumeKnown
<1> QED BY <1>1, Invariant, PTL

\* The search of a batch: a new one, or the one that the request goes on with.
LEMMA BatchOfSearch ==
    ASSUME NEW q, NEW reply \in Batches(q)
    PROVE  /\ q.sid = None => reply.sid \in Sids \ searches
           /\ q.sid # None => reply.sid = q.sid /\ q.sid \in searches
<1>1. \E n \in {k \in 0..MaxBatch : From(q) + k <= Len(Dir)}, e \in BOOLEAN,
         last \in LastOffsets,
         s \in IF q.sid = None THEN Sids \ searches ELSE {q.sid} \cap searches :
        reply = [info |-> SubSeq(Dir, From(q) + 1, From(q) + n), end |-> e,
                 last |-> last, sid |-> s]
  BY DEF Batches
<1> QED BY <1>1

\* A batch that its call takes: the reader or the list goes on with its search,
\* or the search is over.
LEMMA TakenExplained ==
    ASSUME IInv, IInv', SearchesExplained, call # None, NEW reply \in Batches(call),
           Take(call, reply),
           searches' = SearchesAfter(reply),
           left' = (left \cup Abandoned(call, reply)) \cap searches'
    PROVE  SearchesExplained'
<1>0. TypeOK /\ CallPoint
  BY DEF IInv
<1>1. /\ searches \subseteq Sids /\ left \subseteq searches /\ None \notin Sids
      /\ call.sid = None => reply.sid \in Sids \ searches
      /\ call.sid # None => reply.sid = call.sid /\ call.sid \in searches
  BY <1>0, BatchOfSearch, ConstantTypes DEF TypeOK
<1>2. CASE Refuse("invalid") /\ ~Accepted(call, reply)
  <2>1. UNCHANGED <<opened, sid, end>> /\ call' = None
    BY <1>2 DEF Refuse, reader
  <2>2. CASE call.sid = None \/ call.op = "list"
    <3>1. Abandoned(call, reply) = {reply.sid}
      BY <1>2, <2>2 DEF Abandoned
    <3>2. ASSUME NEW s \in searches' \ left' PROVE s \in searches \ left /\ s # reply.sid
      BY <1>1, <3>1, <3>2 DEF SearchesAfter
    <3>3. call # None /\ call.op = "list" => call.sid = None \/ call.sid = reply.sid
      BY <1>1
    <3> QED BY <1>1, <2>1, <3>2, <3>3 DEF SearchesExplained
  <2>3. CASE call.sid # None /\ call.op # "list"
    <3>1. searches' \ left' \subseteq searches \ left
      BY <1>1, <2>3 DEF SearchesAfter
    <3> QED BY <2>1, <2>3, <3>1 DEF SearchesExplained
  <2> QED BY <2>2, <2>3
<1>3. ASSUME Accepted(call, reply)
      PROVE  searches' \ left' \subseteq (searches \ left) \cup {reply.sid}
  <2>1. Abandoned(call, reply) = {}
    BY <1>3 DEF Abandoned
  <2> QED BY <1>1, <2>1 DEF SearchesAfter
<1>4. reply.end => reply.sid \notin searches'
  BY DEF SearchesAfter
<1>5. CASE call.op = "open" /\ Accepted(call, reply) /\ TakeOpened(reply)
  <2>1. ~opened /\ opened' = TRUE /\ sid' = reply.sid /\ end' = reply.end
    BY <1>0, <1>5 DEF TakeOpened, CallPoint
  <2> QED BY <1>3, <1>4, <1>5, <2>1 DEF SearchesExplained
<1>6. CASE call.op = "next" /\ Accepted(call, reply) /\ TakeBatch(reply)
  <2>1. /\ opened /\ ~end /\ call.sid = sid /\ sid # None
        /\ UNCHANGED <<opened, sid>> /\ end' = reply.end
    BY <1>0, <1>6 DEF TakeBatch, CallPoint, TypeOK
  <2> QED BY <1>1, <1>3, <1>4, <1>6, <2>1 DEF SearchesExplained
<1>7. CASE call.op = "list" /\ Accepted(call, reply) /\ TakeListed(reply)
  <2>1. UNCHANGED <<opened, sid, end>>
    BY <1>7 DEF TakeListed, reader
  <2>2. \A s \in searches \ left : s # reply.sid => opened /\ ~end /\ s = sid
    BY <1>1 DEF SearchesExplained
  <2>3. CASE reply.end
    BY <1>3, <1>4, <1>7, <2>1, <2>2, <2>3 DEF SearchesExplained
  <2>4. CASE ~reply.end
    <3>1. call' = Request("list", reply.sid, LastName(listed'))
      BY <1>7, <2>4 DEF TakeListed
    <3>2. call'.op = "list" /\ call'.sid = reply.sid /\ call' # None
      <4>1. reply.sid \in Sids /\ listed' \in Seq(Names)
        BY <1>1 DEF IInv, TypeOK
      <4> QED BY <1>0, <3>1, <4>1, RequestType, LastNameType
    <3> QED BY <1>3, <1>7, <2>1, <2>2, <3>2 DEF SearchesExplained
  <2>5. reply.end \in BOOLEAN
    BY BatchSearch
  <2> QED BY <2>3, <2>4, <2>5
<1> QED BY <1>2, <1>5, <1>6, <1>7 DEF Take

\* Every step leaves the open searches explained.
LEMMA ExplainedStep == ASSUME IInv, IInv', SearchesExplained, [Next]_vars PROVE SearchesExplained'
<1>0. /\ TypeOK /\ CallPoint
      /\ searches \subseteq Sids /\ left \subseteq searches /\ None \notin Sids
  BY ConstantTypes DEF IInv, TypeOK
<1>1. CASE OpenReader \/ NextBatch \/ List \/ NextPending \/ NextNone \/ UNCHANGED vars
  <2>1. UNCHANGED <<opened, sid, end, searches, left>> /\ (call = None \/ call' = call)
    BY <1>1 DEF OpenReader, NextBatch, List, NextPending, NextNone, vars, reader
  <2> QED BY <2>1 DEF SearchesExplained
<1>2. CASE DropReader
  BY <1>0, <1>2 DEF DropReader, SearchesExplained
<1>3. CASE GiveUp
  BY <1>0, <1>3 DEF GiveUp, reader, SearchesExplained
<1>4. ASSUME NEW q \in asked, Answer(q) PROVE SearchesExplained'
  <2>1. PICK reply \in Batches(q) :
          /\ IF call = q THEN Take(q, reply) ELSE Missed
          /\ searches' = SearchesAfter(reply)
          /\ left' = (left \cup Abandoned(q, reply)) \cap searches'
    BY <1>4, Zenon DEF Answer
  <2>2. CASE call = q
    <3>1. call # None
      BY <1>0, <2>2, ConstantTypes DEF TypeOK
    <3> QED BY <2>1, <2>2, <3>1, TakenExplained
  <2>3. CASE call # q
    <3>1. UNCHANGED <<opened, sid, end, call>>
      BY <2>1, <2>3 DEF Missed, reader
    <3>2. q.sid = None => Abandoned(q, reply) = {reply.sid}
      BY <2>3 DEF Abandoned
    <3>3. q.sid # None => reply.sid \in searches
      BY BatchOfSearch
    <3>4. searches' \ left' \subseteq searches \ left
      BY <1>0, <2>1, <3>2, <3>3 DEF SearchesAfter
    <3> QED BY <3>1, <3>4 DEF SearchesExplained
  <2> QED BY <2>2, <2>3
<1>5. ASSUME NEW q \in asked, Reject(q) PROVE SearchesExplained'
  <2>1. UNCHANGED <<opened, sid, end, searches, left>>
    BY <1>5 DEF Reject, Refuse, Missed, reader
  <2>2. call = q \/ call' = call
    BY <1>5 DEF Reject, Missed
  <2>3. call = q => q.sid \notin searches
    BY <1>0, <1>5 DEF Reject
  <2> QED BY <2>1, <2>2, <2>3 DEF SearchesExplained
<1> QED BY <1>1, <1>2, <1>3, <1>4, <1>5 DEF Next, ReadOn, Server

\* A search stays open at the server only if it is in use, or was given up
\* before its end.
THEOREM OpenSearchesExplained == Spec => []SearchesExplained
<1> DEFINE Inv == IInv /\ SearchesExplained
<1>1. Init => Inv
  BY InitInvariant DEF Init, SearchesExplained
<1>2. Inv /\ [Next]_vars => Inv'
  BY InvariantStep, ExplainedStep
<1> QED BY <1>1, <1>2, PTL DEF Spec

\* More of the directory is given.
LEMMA GivesMore ==
    ASSUME seen \in Seq(Names), NEW info \in Seq(Names),
           seen' = seen \o info, Begins(seen \o info),
           info = SubSeq(Dir, Len(seen) + 1, Len(seen) + Len(info)),
           opened' /\ end' /\ pending' = None => Len(seen \o info) = Len(Dir)
    PROVE  Listings!Give
<1>1. Len(seen) \in Nat /\ Len(info) \in Nat /\ Len(Dir) \in Nat
  BY ConstantTypes, LenProperties
<1>2. seen \o info \in Seq(Names) /\ Len(seen \o info) = Len(seen) + Len(info)
  BY ConcatProperties
<1>3. Len(info) \in 0..(Len(Dir) - Len(seen))
  BY <1>1, <1>2 DEF Begins
<1>4. seen' = seen \o SubSeq(Dir, Len(seen) + 1, Len(seen) + Len(info))
  BY Zenon
<1>5. opened' /\ end' /\ pending' = None => seen' = Dir
  BY <1>2, AllOfIt
<1>6. (opened' /\ end' /\ pending' = None) \in BOOLEAN
  OBVIOUS
<1> QED BY <1>3, <1>4, <1>5, <1>6, Zenon DEF Listings!Give

\* Every step gives more of the listing, begins another, or leaves it as it is.
LEMMA ListingStep ==
    ASSUME IInv, [Next]_vars
    PROVE  [Listings!Next]_<<seen, opened /\ end /\ pending = None>>
<1> DEFINE Same == UNCHANGED <<seen, opened, end, pending>>
           Idle == UNCHANGED <<seen, opened /\ end /\ pending = None>>
<1>0. TypeOK /\ ReaderPoint
  BY DEF IInv
<1>1. Same => Idle
  OBVIOUS
<1>2. CASE OpenReader \/ NextNone \/ NextBatch \/ List \/ GiveUp \/ UNCHANGED vars
  <2>1. Same
    BY <1>2 DEF OpenReader, NextNone, NextBatch, List, GiveUp, vars, reader
  <2> QED BY <1>1, <2>1
<1>3. CASE DropReader
  BY <1>3 DEF DropReader, Listings!Next, Listings!Restart
<1>4. CASE NextPending
  <2>1. /\ pending \in Seq(Names) /\ seen = <<>> /\ seen \o pending = pending
        /\ Begins(pending) /\ (end => Len(pending) = Len(Dir))
    BY <1>0, <1>4, PendingBegins DEF NextPending, ReaderPoint, Had
  <2>2. seen' = seen \o pending /\ opened' = opened /\ end' = end /\ pending' = None
    BY <1>4 DEF NextPending, HandOut
  <2>3. pending = SubSeq(Dir, Len(seen) + 1, Len(seen) + Len(pending))
    <3>1. Len(seen) = 0 /\ Len(pending) \in Nat /\ Len(pending) <= Len(Dir) /\ Len(Dir) \in Nat
      BY <2>1, ConstantTypes DEF Begins
    <3>2. \A i \in 1..Len(pending) : Dir[i] \in Names
      BY <3>1, ConstantTypes
    <3>3. /\ SubSeq(Dir, 1, Len(pending)) \in Seq(Names)
          /\ Len(SubSeq(Dir, 1, Len(pending))) =
               IF 1 <= Len(pending) THEN Len(pending) - 1 + 1 ELSE 0
          /\ \A i \in 1..(Len(pending) - 1 + 1) :
               SubSeq(Dir, 1, Len(pending))[i] = Dir[1 + i - 1]
      <4>1. 1 \in Int /\ Len(pending) \in Int
        BY <3>1
      <4> QED BY <3>2, <4>1, SubSeqProperties
    <3>4. Len(SubSeq(Dir, 1, Len(pending))) = Len(pending)
      BY <3>1, <3>3
    <3>5. \A i \in 1..Len(pending) : SubSeq(Dir, 1, Len(pending))[i] = pending[i]
      BY <2>1, <3>1, <3>3 DEF Begins
    <3>6. pending = SubSeq(Dir, 1, Len(pending))
      BY <2>1, <3>3, <3>4, <3>5, SeqEqual
    <3>7. Len(seen) + 1 = 1 /\ Len(seen) + Len(pending) = Len(pending)
      BY <3>1
    <3> QED BY <3>6, <3>7
  <2>4. /\ seen \in Seq(Names) /\ Begins(seen \o pending)
        /\ opened' /\ end' /\ pending' = None => Len(seen \o pending) = Len(Dir)
    BY <1>0, <2>1, <2>2 DEF TypeOK
  <2>5. Listings!Give
    BY <2>1, <2>2, <2>3, <2>4, GivesMore
  <2> QED BY <2>5 DEF Listings!Next
<1>5. ASSUME NEW q \in asked, Answer(q)
      PROVE  Listings!Next \/ Idle
  <2>1. PICK reply \in Batches(q) :
          Honest(q, reply) /\ (IF call = q THEN Take(q, reply) ELSE Missed)
    BY <1>5, Zenon DEF Answer
  <2>2. CASE call # q \/ Refuse("invalid") \/ TakeListed(reply)
    <3>1. UNCHANGED reader
      BY <2>1, <2>2 DEF Missed, Refuse, TakeListed
    <3> QED BY <3>1 DEF reader
  <2>3. CASE call = q /\ q.op = "open" /\ TakeOpened(reply)
    <3>1. pending' = reply.info /\ seen' = <<>>
      BY <2>3 DEF TakeOpened
    <3>2. From(q) = 0 /\ From(q) \in 0..Len(Dir)
      BY <2>3, ConstantTypes DEF IInv, TypeOK, CallPoint, From
    <3>3. pending' # None
      BY <2>1, <3>1, <3>2, BatchIsRun, ConstantTypes
    <3> QED BY <3>1, <3>3 DEF Listings!Next, Listings!Restart
  <2>4. CASE call = q /\ q.op = "next" /\ TakeBatch(reply)
    <3>1. call # None
      BY <2>4, ConstantTypes DEF IInv, TypeOK
    <3>2. /\ seen \in Seq(Names) /\ From(call) = Len(seen)
          /\ reply.info \in Seq(Names)
          /\ reply.info = SubSeq(Dir, Len(seen) + 1, Len(seen) + Len(reply.info))
          /\ Len(seen \o reply.info) = Len(seen) + Len(reply.info)
          /\ Begins(seen \o reply.info)
      BY <2>1, <2>4, <3>1, NextFollows
    <3>3. seen' = seen \o reply.info /\ end' = reply.end
      BY <2>4 DEF TakeBatch, HandOut
    <3>4. end' => Len(seen \o reply.info) = Len(Dir)
      BY <2>1, <2>4, <3>2, <3>3 DEF Honest
    <3>5. Listings!Give
      BY <3>2, <3>3, <3>4, GivesMore
    <3> QED BY <3>5 DEF Listings!Next
  <2> QED BY <2>1, <2>2, <2>3, <2>4 DEF Take
<1>6. ASSUME NEW q \in asked, Reject(q)
      PROVE  Idle
  <2>1. UNCHANGED reader
    BY <1>6 DEF Reject, Refuse, Missed
  <2> QED BY <2>1 DEF reader
<1> QED BY <1>2, <1>3, <1>4, <1>5, <1>6 DEF Next, ReadOn, Server

\* The reader gives out the directory in its order, each entry once, and says
\* that it is done only when it has given out all of it.
THEOREM ListingIsOnce == Spec => ImplementsListing
<1>1. Init => Listings!Init
  BY DEF Init, Listings!Init
<1>2. IInv /\ [Next]_vars => [Listings!Next]_(Listings!lvars)
  BY ListingStep DEF Listings!lvars
<1> QED BY <1>1, <1>2, Invariant, PTL DEF Spec, ImplementsListing, Listings!Spec
=============================================================================
