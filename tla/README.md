# Verification of cifs-client-stream

TLA+ models of the SMB1 media client in `src/`, the TLC runs that check them on
small instances, and theorems about them that TLAPS checks for every value of
the constants. `PROJECT.json` lists the runs, the source lines behind every
definition, the hazards the properties are aimed at, and the theorems.

    tlc -workers 2 -config dir_listing.cfg MCDirectory    # one of the runs
    tlapm DirectoryProofs.tla                             # one of the proofs

## 1. The system

A player opens a connection to a server (`Cifs`), mounts a share, lists
directories (`DirectoryReader`) and plays files (`SmbMediaStream`). Everything
is asynchronous and single-owner: an operation takes `&mut Cifs`, so at most one
runs at a time, but any of them can be dropped at any `await` by its
`_timeout` form (`with_timeout`), and what it was waiting for still arrives.
That is where the difficulty of this code lies: not in parallelism but in what a
dropped or failed call leaves behind in four places (the stream's positions and
buffer, the table of pending replies, the search open at the server, the bytes
on the socket).

| Component | State | Operations | What is hard | What makes it correct |
|---|---|---|---|---|
| Playback stream (`SmbMediaStream`, `StreamingWorker`, `StreamingWorkerState`, `FileStream`; lib.rs 108-820) | buffer, playback position, source position, source_eof, the file stream's own position | `read_block`, `seek`, `fill_initial_buffer`, `maybe_prefill`, each also with a timeout | pipelined reads planned ahead; short, empty and long replies; errors and timeouts between two chunks; seeks past the end; watermarks | it is a read cursor over the file; the positions agree; memory is bounded; playback ends |
| Byte queue (`StreamingBuffer`) | queue of chunks, count of bytes | `push`, `pop_bytes`, `pop_block`, `clear` | blocks cut across chunks | it is a queue of bytes |
| Message exchange (`Cifs::send`, `recv`, `command`, `read_at_pipelined`, `transact2`) | next multiplex id, pending replies | one call at a time, of one or several requests | replies out of order, late, in several parts; ids that wrap | every reply goes to the request it answers; what is kept is accounted for; calls return |
| Framing (`NetBios`) | the TCP stream | `open` (port 445, then 139 with a session), `send_message`, `recv_message` | a timeout in the middle of a frame; keepalives; frames too big; the end of the stream | messages come out as the server framed them; calls end |
| Directory listing (`DirectoryReader`, `list`, `find_first`, `find_next`) | pending batch, resume name, search id, end flag | `open_dir_reader`, `next`, `next_media`, `list` | batches, resuming by name, retry after a timeout, searches left open | every entry once, in order, and an end |
| Transact2 reassembly (`CollectTrans2`, `Collector`) | fragments by offset, announced total, one pair for parameters and one for data | `add`, `get_subreply` | parts in any order, gaps, overlaps, repeats; totals that change | the buffers the server has, or an error; an exact server is never refused |
| Set-up (`Cifs::open`, NTLM) | uid, unicode flag, multiplex id | negotiate, then one session set-up with a secret or two with NTLM packets; each also with a timeout | which reply belongs to which step; the uid comes with the first of two set-ups; replies that are cut or none | requests carry what the server granted; a secret answers this connection's challenge; it ends |
| Media entries (lib.rs 1590-1735 and the types before) | none | filters, natural order, extras, folder summaries, presentations | order of mixed names; indices into filtered and sorted lists | the order a reader expects; nothing missing, nothing hidden; summaries agree with their folders |
| C interface (`ffi.rs`) | session (runtime, connection, share), media handles | open, list, positional read, close; probe and list over a connection of their own | opens and closes that time out; a loop of reads with a timeout each | a media keeps its file; a read is a prefix of the bytes asked for; only failed calls leave files open |
| Message layout (`smb/msg.rs`, `smb/trans2/msg.rs`, `ntlm/packet.rs`) | none | one body per request, NTLM packets | padding that depends on lengths, offsets counted from the header, counts of 8 and 16 bits | a receiver that follows the lengths and offsets finds what was put in |
| Errors (`error.rs`) | none | `kind`, `is_retryable`, `is_timeout`, `is_connection_lost` | errors wrapped by several layers | what an error says of itself is what happened |
| Smoke program (`bin/smb_smoke.rs`) | the entries listed, the summaries found | list, scan folders, present; play, seek, report | one batch taken for a folder | folders with one film, and only those, shown as films |

Interactions: the stream calls `Cifs::read_at_pipelined` for a batch of reads
and pushes the replies one by one; the reader and `list` call `transact2`; both
use `send`/`recv`, which use the framing; the C interface holds one `Cifs` for a
session and reads at explicit offsets without the playback stream.

The models are layered in the same way. Each takes from the layer below what
that layer's model shows of it, and names the rest:

- `StreamingWorker` takes from `Cifs` that the replies of a batch are returned
  in the order of the requests (`OwnReplies`), or the call fails;
- `Directory` takes from `Cifs` that a call gets the reply to its own request or
  fails, while the server may still carry out the request of a failed call;
- `Cifs` takes from `NetBios` that frames arrive whole and in order
  (`ImplementsChannel`) until a call is cut within a frame; after that its `link`
  is `"garbled"`, and it is told no more than that receiving fails;
- `MediaSession` takes from `Cifs` the same as `Directory`;
- `Setup` and `Reassembly` take from `Cifs` that a reply that is taken is one to the
  request waited for; what the reply then says of itself is theirs to check;
- `Browser` takes from `Directory` that a batch is a run of the directory, and its
  entries, order and summaries from `MediaEntries`;
- `StreamingWorker` takes from `StreamingBuffer` that it is a byte queue
  (`ImplementsByteQueue`).

## 2. Modules

| Module | Role |
|---|---|
| `FileStream` | `seek_position`: the arithmetic of the three origins |
| `MediaStream` | abstract specification: a read cursor over a file |
| `StreamingWorker` | the playback stream, one action per operation and per step of a fill |
| `StreamingWorkerProps`, `StreamingWorkerProofs` | its properties, inductive invariant and mapping to `MediaStream`; theorems |
| `ByteQueue`, `StreamingBuffer` | abstract queue of bytes; the queue of chunks that implements it, with its inductive invariant |
| `Cifs`, `CifsProps`, `CifsProofs` | the message exchange; properties; theorems |
| `Listing` | abstract specification: a directory given out once, in order |
| `Directory`, `DirectoryProps`, `DirectoryProofs` | listing in batches; properties and mapping to `Listing`; theorems |
| `MessageChannel` | abstract specification: messages delivered in order until the connection is broken |
| `NetBios`, `NetBiosProps`, `NetBiosProofs` | the framing, both directions, byte by byte; properties, inductive invariant and mapping to `MessageChannel`; theorems |
| `MediaSession`, `MediaSessionProps`, `MediaSessionProofs` | the C interface; properties and inductive invariant; theorems |
| `Messages` | what the client writes: bodies of requests and NTLM packets as runs of fields with their lengths |
| `Errors` | the errors of all layers, their kinds, what they tell a caller |
| `Setup`, `SetupProps`, `SetupProofs` | negotiation, logging on, and the requests after it; properties, how a receiver reads a body, inductive invariant; theorems |
| `Reassembly` | the parts of a Transact2 reply and the two buffers made of them, with its properties and inductive invariant |
| `BufferProofs` | theorems of `StreamingBuffer` and `Reassembly`, which both make one buffer of pieces |
| `MediaEntries` | filters, order, summaries and presentations, as operators; what is assumed of the word lists |
| `Browser`, `BrowserProps`, `BrowserProofs` | listing, scanning and presenting a folder; properties with their reference definitions, inductive invariant; theorems |
| `MC*` | values of the constants for TLC |

Definitions whose comment begins with "Fault:" are no part of a specification:
they are what a plausible mistake would make of the definition that follows them,
and show, put in its place, that a property can fail.

### The playback stream

`buffer`, `playback`, `source`, `eof` and `position` are `StreamingBuffer`,
`playback_position`, `source_position`, `source_eof` and `FileStream::position`.
Byte *i* of the file is written *i*, so that a byte out of place shows. A call
is an action of its own when it can be answered from the buffer (`ReadBuffered`,
`Seek`, `FillInitialBuffer` and `MaybePrefill` when there is nothing to do), and
otherwise the loop of `fill_until_buffered`: `PlanRequest` (one round of the
planning loop), `SendRequests`, `ReceiveReply`, `PushChunk` or `RejectChunk`, and
`FillDone`, which for a read also pops the block. `Fail` is an error or a timeout
at an await. Local variables of the future (`requests`, `chunks`, `pushed`,
`goal`) are variables that `EndCall` empties.

### The message exchange

A request carries a serial number the code does not have: what a multiplex id
stands for. `pending` is `pending_replies`; `Send`, `TakeKept` and `ReceiveFrame`
are the steps of `send` and `recv`; `SendFails`, `ReceiveFails` and
`ReceiveTimeout` are the ways a call ends early. Where `self.mid += 1` overflows, a build
with overflow checks (debug) panics (`SendPanics`) and one without (release) goes on with id 0
(`Send`); nothing in the repository settles which it is, so both steps are possible. The server (`owed`, `wire`)
answers in any order, a Transact2 in several parts, with an error status or a body
that does not parse if it likes (`Accept`), and may send what is no reply at all
(`ReceiveFails`). `dropped` records what failed calls were still waiting for.

### The framing

`down` and `up` are the two directions as bytes. `got` is what the `recv` under
way has read of a frame, one byte at a time, which covers every way the bytes can
arrive; `out` is what `write_exactly` has still to write. `FrameLength`, `TooBig`
and `Complete` are the tests of `recv` and `read_exactly`; `Kind` is `Frame::new`.
`sent`, `taken`, `asked`, `readCut` and `writeCut` record history. What the server reads of
`up` is `FramesAfter`, a recursive function from places in the bytes to the frames that
begin there: `CutOffAt` is where no whole frame follows, `FrameAt` and `EndAt` are the frame and
the place behind it.

### The directory listing

`pending`, `lastFile`, `sid`, `end` are the reader's fields. A batch is a run of
the directory after the name it is asked to resume from; `asked` are the requests
the server has yet to carry out, those of calls given up included; `searches` are
the searches it has open. `Accepted` is what the two parsers of a batch accept.
The caller's operations are `OpenReader`, `DropReader`, `NextPending`,
`NextBatch`, `NextNone` (together `next` and `next_media`) and `List`; `GiveUp` is a timeout
or an error; `Take` is what a call makes of its reply.

### The C interface

`session` says whether there is one, `media` are the handles the caller holds, and
`call` is the call under way with the request it waits for. The functions of
`ffi.rs` block, so a call is begun by the caller (`Connect`, `ListFolder`, `OpenMedia`,
`Read`, `CloseMedia`, `CloseSession`; a read that needs no request is all in
`ReadNothing`) and goes on with each reply (`TakeConnected`, `TakeMounted`,
`TakeListed`, `TakeOpened`, `TakeRead`, `TakeClosed`) until it returns. A listing is one
request: `list_media_entries` returns the first batch, though nothing of it may be media. `read_at`'s
loop is `TakeRead`: `cursor`, `remaining` and `output` are the request's `at`, and
`rest` and `out` of the call. `files` are the files the server has open, `asked` what
it has yet to carry out, for calls that were given up too; `strays` are the files
whose handle no call of the client has any more. A connection that nobody holds is
closed, and takes its server's state with it.

Two things are asked of the caller, because the code leaves them to it: calls of a
session are not made at the same time (they hold `&mut`), and media are closed
before their session, to which they point.

### The set-up

`pc` is where `setup_connection` stands: `"negotiating"`, then `"logging on"` for a
server without extended security (`authenticate_ntlm`), or `"challenged"` and
`"responding"` for one with it (`authenticate_ntlmv2`); `uid`, `unicode` and `mid` are
the fields of `Cifs`. `Take` is a reply received: `Faults` goes through the checks
of `Info::parse`, `parse_reply`, the body's parser and what log-on makes of it, in
the code's order, and the first that fails ends the set-up, with its error or, where
the code reads beyond a buffer, with a panic. Otherwise one of `LogOn`, `AskChallenge`,
`Respond` and `Opened` follows. `Unreachable`, `Lost` and `TimesOut` are the ends without
a reply. The socket may fail with every kind of I/O error at every point (`SocketFails`), the
session exchange of port 139 included: `"over"` if the connection has ended (at the first byte
of a frame, within a frame, reset, aborted, gone), `"stalled"` if the system gave up waiting,
`"socket"` for all other kinds; and what comes may be refused by `Frame::new` or its readers
(`"frame"`). The server grants one uid a connection and gives out one challenge; its
replies are sound ones of every kind and one with each fault. `request` keeps,
beside the body, what its receiver is to find in it (`meant`), which
`RequestsReadable` compares with what a receiver does find (`Seen`) by following the
lengths and positions written in the words. After the set-up `Ask` sends the requests of
a client that is logged on: tree connect, open, read, close and both kinds of find.

### The reassembly

`collector` is `CollectTrans2`, of each side its total and the map from offsets to
fragments; byte *i* of a buffer is written *i*. `Take` is one turn of the loop of
`transact2`: `Misread` is what `Transact2::create` refuses or panics at, `Refuse` what
`Collector::add` refuses, `Collect` and `Finish` go on or call `get_subreply`. An exact
server (`SendExact`) sends every byte once, cut in any way and in any order; the
other (`SendAny`) repeats, overlaps, changes its mind and garbles.

### Browsing

`Browser` is `run` of the smoke program as far as it looks at folders: `ListFolder`,
`SkipFile` and `ScanFolder` (the loop of `scan_media_folder_summaries`), `Show`
(`media_presentations_with_summaries`), `Fail`. A name is a sequence of numbers that stand
for digits and letters, enough for the natural order; what the code searches a name for
otherwise (extension, hidden names, marker words) is told beside it.

## 3. Runs

| Run | Constants | What it shows |
|---|---|---|
| `worker_pipelined` | file of 7 bytes, chunks of 2, watermarks 1 and 5, three reads in flight, exact replies, seeks in all directions | with failures and timeouts at every await, the stream is a read cursor over the file (`ImplementsMediaStream`), its three positions agree (`PositionsAgree`, `EofExact`), the memory stays within bounds (`PrefetchBound`), and a prefill that ends well leaves nothing to prefill (`PrefillSettles`) |
| `worker_short` | file of 9, one read at a time, replies up to 2 bytes short or 2 long | the buffer is the file's bytes (`BufferIsFile`); long replies cannot lead past the end (`BufferInFile`); every call returns (`CallsReturn`); a player that keeps reading comes to the end (`PlaybackEnds`) |
| `worker_short_pipelined` (violation) | two reads in flight, replies one byte short | `BufferIsFile` fails: see section 6 |
| `buffer` | chunks of up to 3 bytes, blocks of up to 4, 5 bytes in all | the chunks and their counter implement a byte queue that knows its length (`ImplementsByteQueue`) |
| `cifs_replies` | 3 ids, four requests, so that the ids come round, batches of 2, Transact2 replies of 2 parts | replies go to their own requests until the id of one that was given up comes round (`OwnReplies`); what is kept belongs to calls that failed (`AllAccountedFor`); a duplicate needs a dropped Transact2 (`DuplicateExplained`); calls return |
| `netbios_frames` | bytes of 8 values, frames of at most 6 bytes, two frames each way, one drop | the stream of messages is a channel until it is cut (`ImplementsChannel`); the server reads exactly what was written (`RequestsWhole`); calls end when the connection does (`CallsEnd`); no frame takes more memory than the limit (`TypeOK`) |
| `dir_listing` | 3 entries, batches of up to 2 (also empty, also ended by a zero offset), two searches, one call given up | the reader implements `Listing`; `list` is complete or an error; a name to resume from is always there; only listings given up leave searches open; calls and listings end |
| `media_session` | two media, files of 4 and 1 bytes, reads of up to 4 bytes in chunks of 2 (replies up to one byte long), two file ids, two requests at the server | a media has its file for as long as it is held, whatever ids the server reuses (`HandlesLive`); a read returns the file's bytes, all of them unless an empty reply cut it short (`ReadExact`); only failed calls leave files open (`FilesExplained`); calls with a timeout return though the server never answers (`TimedCallsReturn`) |
| `setup` | credentials of even and odd lengths and none, two uids, two challenges, information blocks that make the last packet fit and not fit, paths and passwords of 0 to 3 characters, offsets and counts that need both halves of a word of 4 bits, four requests in all | whatever the server replies, requests carry the uid granted (`UidGranted`), secrets answer its challenge (`AnswersChallenge`), every body can be read by its own lengths and positions (`RequestsReadable`), errors say what happened (`ErrorsClassified`), and the set-up ends (`OpenEnds`) |
| `reassembly` | 2 bytes of parameters, 3 of data, announced as 2 or 3 | the buffers are right or the call fails (`RightOrError`), for both servers; of the exact one every part is taken and the call ends well (`ExactCompletes`) |
| `browser` | names of two letters and three digits in all orders of up to three; folders of up to two entries of every kind, hidden ones among them; whole folders in one batch | the order is a reader's (`ListedInOrder`), the listing and its summary are true to the folder (`EntriesTrue`), and just the folders with one film are shown as films (`MoviesExact`) |
| `browser_batch` (violation) | the same with one entry in a batch | `RemainsFolder` fails: see section 6 |

**Why the bounds are enough.** In the stream, what matters is where a chunk, a
goal, a watermark and the end of the file fall with respect to one another: a
file of several chunks, watermarks that are no multiple of the chunk, a pipeline
deeper than what fits under the high watermark and blocks longer and shorter than
it give every order of these. In the exchange, two outstanding reads, a Transact2
in two parts and leftovers of one or two earlier calls meet in every order, and
three ids run out while four requests are made; commands other than reads and Transact2 are
left out of the run, since the code treats them as a read of one request. In the framing, every position of a
frame is a place to be cut, two frames are enough for one to be read with bytes
of the other, and payloads contain bytes that read as headers. In the listing,
three entries come in one, two or three batches or with empty ones among them;
with one call given up there are two requests at the server at a time. In the C
interface, two ids and two requests let a close or an open that was given up meet the
next open of the same id, and a read of four bytes takes one chunk, two, or three
with short ones. In the set-up, a body's layout depends on the parity of a length, or on its
remainder by four, which lengths from 0 to 3 exhaust, and on whether it fits sixteen bits, which
the two long information blocks decide both ways; two uids and two challenges are enough to
mistake one for another. In the reassembly, two and three bytes come in every cut and order, with
every overlap of two runs. In the browser, three names are in every order, which is what a
total order needs, and two entries of a folder are enough for film and extra, film and
track, two films of different and of equal size. The
theorems of section 5 do not depend on any of these bounds.

The capacities are scaled (16-bit ids to 3, bytes to 8 values): the code treats
them as parameters, `Mids`, `Base` and `MaxFrame` here, and nothing in it depends on
their size. 65536 messages are about 4 GB of playback in chunks of just under 64 KiB, so the
wrap of the ids is within reach of one film.

**Deadlock** is checked in the runs of the stream, the buffer, the listing and the
C interface. It
is not in those of the exchange, the framing, the set-up, the reassembly and the browser: with
every request spent, the connection closed, the call ended or the entries shown these systems do stop.

## 4. Fairness

- `WF(Progress)` (stream, exchange, framing, set-up), `WF(Take)` (reassembly): the executor polls the call that is
  under way; the code never waits for anything but the socket.
- `WF(Answer)`, `WF(Server)`: a server that is reached answers the requests it
  has, in the set-up in any way it likes, in the reassembly with the next part. Without it nothing in the code ends a call but its timeout, which is
  optional, so no timeout is assumed to fire.
- `WF(ServerCloses)` (framing): the connection does not stay open for ever; this
  is the weakest condition under which a reader that is out of step stops.
- `WF(TimesOut)` (C interface): the runtime fires the timer of a request that is
  waited for. Here every request but those of `media_close` and `session_close` has
  one, and of the server no fairness is assumed.
- `PlaybackEnds` and `ListingEnds` assume in the formula itself that from some time on the
  player only reads on, and that it does.
- The browser has no liveness property and no fairness: it is a loop over a list, and what
  could keep it waiting is the listing's business.

`CallsReturn` of the exchange is stated for behaviours in which no frame was cut,
since the exchange is not told what a garbled connection delivers; the framing's
`CallsEnd` covers the rest.

## 5. Theorems

All are proved for every value of the constants that satisfies the `ASSUME`s of
the modules: the validated options of a stream (`OptionsAssumption`), sizes that
are natural numbers, a directory without two entries of one name, a server that has
some challenge to give out and uids that are not 0, reads whose count has two halves
(it is a `u32`: `Reads` in `SetupAssumption`), and frames whose length three bytes can hold
(`MaxFrame < Base^3` in `NetBiosAssumption`: the code's limit is 0x1ffff). Of the media
entries it is assumed that no extension is in two of the lists and letters come behind the digits
(`MediaAssumption`), that the word lists pair words with kinds (`KindsAssumption`), that `None`
is not also a value (`NoneAssumption`), and that a directory that is not empty has at least one entry in its
first batch (`BrowserAssumption`). There is no assumption about how often calls fail or when,
and none about what the server sends but those of the browser.

Every safety property of the passing runs is a theorem, and so is every refinement.

**Stream** (`StreamingWorkerProofs`). `IInv` adds to the properties what they rest
on: the batch is a run of adjacent reads (`BatchInFile`, `BatchEnds`), replies are
those of the requests with the same index (`RepliesMatch`), and the next chunk is
pushed neither behind what is filled nor, when replies are exact, anywhere but at
the source position (`PushPoint`). `BufferIsFile` alone is not inductive: nothing in
it says where the chunks that are still to be pushed come from. Theorems: `TypeOK`,
`PositionsAgree`, `EofExact`, `PrefetchBound`, `BatchInFile`, `BufferInFile`,
`PrefillSettles` without condition; `BufferIsFile` and the refinement
`ImplementsMediaStream` if replies are exact or reads go one at a time (`Exact`). Section 6
shows that they fail otherwise.

**Byte queue** (`BufferProofs`). `BufferInv`: the counter is the number of bytes in the
chunks, and no chunk is empty. `ImplementsByteQueue` maps the chunks to their bytes in a row. The
work is in `pop_block`: its loop is `Rounds`, a recursive function of the number of rounds, and
after any number of them what is gathered and what is left make up the bytes there were
(`Parts`, `GatherParts`).

**Exchange** (`CifsProofs`). The properties have one proviso, `NoneStale`: no id of a request
that was given up has been given out again. Ids may come round any number of times without
that, in a build that wraps, since a call that ends well has had all its replies. An id says how long ago
it was given out, up to a round (`MidsRecent`), and the requests of the call under way are the last ones
(`LastSent`), at most `Depth` of them, which is no more than there are ids. What is kept, on the
wire or owed is of the call under way or of one that gave up (`Accounted`), hence with the
proviso no more than a round old, and two such requests of one id are the same: `OwnReplies`.
For `AllAccountedFor` and `DuplicateExplained` the invariant also counts: every part of
every reply is in one place at a time (`PartsOnce`). A duplicate is then a part of a Transact2
that a call dropped when another part of it
was already kept.

**Framing** (`NetBiosProofs`). `InStep`: as long as no read was cut, what has been read of a
frame and what is still to come are the frames the server sent and the client has not taken, byte by
byte; `OutInStep` is the same of the other direction, and `LastFrame` says that what is being
written belongs to the frame asked for last. With `WithinFrame`, that nothing is read behind
the frame under way, this gives the refinement `ImplementsChannel`: a message comes out just when its
last byte has come in, and it is the one the server framed. `RequestsWhole` needs that a row of encoded frames
is read back as those frames (`FramesOfStream`), and the last, cut one as none.

**Listing** (`DirectoryProofs`). `ReaderPoint`: what a reader has had is the
beginning of the directory, all of it at the end, and otherwise the name to resume
from is the last of it. `CallPoint` says the same of the request under way and of what `list` has
gathered. Since names are unique, the server resumes where the client is
(`FromResumes`), and a batch is the next run of the directory (`BatchIsRun`).
Theorems: `TypeOK`, `ListComplete`, `ResumeKnown` and the refinement
`ImplementsListing`, which holds of retries for the same reason: nothing of the
reader changes before its reply is there. `SearchesExplained` is inductive together with
`IInv`: the search of a request under way is the one in use, so whatever replaces it was
given up before.

**Reassembly** (`BufferProofs`). `TruePart`: a part that gets past the checks has, at
the offset it names, the bytes that belong there (`TrueRun`), whichever server sent it.
`TrueCollector`: so has every fragment that is kept. Fragments of as many bytes as announced, each
where the one before it ends (`Whole`), are then the buffer itself, which is `RightOrError`; the proof
follows `Collector::get` from fragment to fragment.

**C interface** (`MediaSessionProofs`). `HandlesLive` is not inductive: a close that
was given up may yet be carried out, and must not reach the file that has its id now.
`ClosesOnce` says that an id that is to be closed is nobody's and is to be closed
once, so it stays open, and cannot be given out again, until it is. With `CallShape` (the
request of a call fits its job) this gives `HandlesLive` and `FilesExplained`. `ReadPoint`
says where a read stands: what it has gathered and what it still wants make up
what it is to return. Theorems: `TypeOK`, `HandlesLive`, `ReadExact`, `FilesExplained`, for any
files, ids, sizes of chunks and replies.

**Set-up** (`SetupProofs`). `IInv` says for every stage what either side knows of the
connection: until a reply is there, the server has granted nothing that the request
does not carry; a reply that passes the checks (`TakenForm`: the first failing check is
the error, so without an error none fails) carries the challenge and the uid the server
keeps. `UidGranted` and `AnswersChallenge` follow; neither is inductive, since neither speaks of
the reply on its way. That a faulty reply is not taken is where `NoneIsNoReply` is needed:
replies are not confused with the absence of one. The theorems hold for any credentials and
lengths, whether or not the packets fit.

`ErrorsClassified`: what a reply can be refused for is one of a set of errors of which none
is worth another try (`Refusals`), whichever check fails first; what a socket can fail with is
lost, late or merely worth another try by its kind, for all kinds there are
(`SocketClassified`), and what is wrong with a frame is none of these (`FramesClassified`).

`RequestsReadable` is proved of each body in turn. The places of fields are sums of the
lengths before them (`UptoStep`), which go up (`UptoGrows`), so that two fields that are not empty do
not begin at one place (`BeginsApart`) and a reader that looks where a field begins finds it
and no other (`FindsOf`, `FindsAt`). What is left is arithmetic on lengths that are unknown:
the parity of a text, the filling up to four, the halves of a word (`Halves`, `Quotient`). The
invariant is `Lengths`: what the caller gave and what came with a challenge are numbers by
the time they are written.

**Browser** (`BrowserProofs`). The order comes first. `NaturalOrder` is about the
comparison itself, for any names: `NameBefore`, what a reader expects, is irreflexive,
transitive, and leaves undecided only names that are the same run for run (`SameRun`). The code
compares tokens, that property values. For numbers the two agree (`NumbersByValue`): without
its leading zeros the longer number is the greater (`LongerIsMore`), and of two as long the first
digit that differs decides (`FirstDigitDecides`); for words since the letters of a word are
compared one by one (`TextsByLetters`). Lists of tokens are compared
as the elements of a total order are, lexicographically (`LexOrdered`), and a name is its runs in
a row (`RunsOfName`), so that the two orders of names are one (`NameBeforeIs`).

A finite set with a strict total order can be put in that order, in one way
(`LastElement`, `CanBeOrdered`): filtered lists and sorted ones are both chosen by such an
order (`InOrder`), so a listing is an arrangement of the media entries of the batch, each once
(`Sorted`, `ListingArranged`). `ListedInOrder` then holds without condition. Since a summary's
lists are the indices of what they select (`SummaryIs`, `LargestIs`), `EntriesTrue` and what a folder
collapses by (`CollapsesIs`) follow for any batch; for a whole folder they need `WholeBatches`: the
server sends every folder in one batch. `browser_batch` shows that they fail otherwise;
`MoviesOfBatch` is what can be said then, and is proved without condition: a folder is shown
as a film just when its *first batch* holds one film.

`IInv` is what the scan keeps (`ScanPoint`): behind it are just the summaries of the folders
that collapse, each with its own index. `MoviesExact`
is not inductive, since it says nothing until everything is shown.

**Induction over data.** The library's induction theorems cannot be used (they take an
operator), but two facts stand in for them: a set of natural numbers that is not empty has a least one
(`LeastNat`, from the well-foundedness of `<`), and so a set with 0 and with the successors of
its elements is all of them (`NatSetInduction`). Recursive functions are shown to exist in this way
before anything is said of their values (`SumsExist`, `FlattenSeq` of frames and of chunks,
`Rounds`, `FramesAfter`, `ValuesExist`).

`BatchInFile`, the `TypeOK`s of exchange, listing and C interface, `MoviesOfBatch`, and the
`IInv` of the browser are proved but listed by no run: the invariants that are listed rest on them or,
for `MoviesOfBatch`, say less where a folder comes in one batch.

Only model-checked: liveness (`PlaybackEnds`, `ListingEnds`, `CallsReturn`, `CallsEnd` and so on),
since TLAPS reasons neither about fairness nor about ENABLED, and the two counterexamples of section 6.

## 6. Where the code departs from what is said of it

Two of these are runs that end in a counterexample, and `PROJECT.json` quotes the
lines they contradict.

- `worker_short_pipelined`: the offsets of a batch are fixed before its replies
  are known. After a reply that is short but not empty, the next chunk is pushed
  where the short one ended, and the stream returns bytes from the wrong place.
- `browser_batch`: the scan decides by the first batch of a folder's listing. A
  folder of several unmarked videos becomes a film when the first batch has just one of them,
  though `docs/SMOKE_TESTING.md` says that it remains a folder.

The others are part of the models and can be seen by changing a constant or following an
action.

- Replies nobody asks for any more stay in `pending_replies`; when the 16-bit ids come
  round in a release build, such a reply, or one that is still on its way, answers the wrong
  request. `docs/ARCHITECTURE.md:74` claims without condition that replies are matched
  safely; a checked build panics instead. (`OwnReplies` without its proviso `NoneStale =>`
  fails in `cifs_replies`: a read of id 0 is given up, the ids come round, and the late reply
  is taken by the next read of id 0.)
- A `recv` dropped within a frame loses what it has read, and the next one reads
  payload for a header. A frame refused by `FrameTooBig` leaves its payload in the stream
  with the same effect. (`readCut` in `NetBios`; `ImplementsChannel` breaks the channel there.)
- With CLOSE_ON_EOS the search is gone once the server has carried out the request for
  its last batch; if that reply came too late, the reader, which is not at its end, is
  refused for ever.
- `FindNext2::parse` refuses a last entry whose NextEntryOffset is 0, which
  `FindFirst2::parse` takes for the end of the batch (`Accepted` in `Directory`).
- `Transact2::create` refuses a part with an empty run whose offset is 0, since it takes
  the offset for a position behind the words before it looks at the count. (`reassembly`
  with `BareEmpties = TRUE`: `ExactCompletes` fails.)
- `ServerSetup::create` asks for 17 bytes of words where its comment speaks of 17 words and
  the parser reads 34 bytes: from 9 to 16 words the client panics. It also panics at a
  challenge of another length than eight bytes (`des_oneshot`), a session set-up of fewer
  than three words, a challenge message of fewer than 48 bytes and a body cut short; these are the
  steps to `"panicked"` in `Setup`.
- A log-on that the server ends with MORE_PROCESSING counts as done (`Opened`): the status is
  accepted for every session set-up.

What `cifs_replies` allows belongs here too: what is still to come of a Transact2
that timed out can make a later, unrelated call fail with "duplicate pending SMB
reply", since `pending_replies` has room for one reply of an id. `DuplicateExplained`
shows that nothing else does, until the id of a request that was given up comes round.

## 7. Not modelled, and the plan

Not modelled:

- digests and ciphers of NTLM, the conversion of texts and times: pure computation, for which
  the models take what their results are made of;
- fields that nothing is decided by, `win.rs` and the tables of `smb/common.rs`, and the parsing of
  the entries of a directory beyond their order, number and last offset;
- the playback, seek test and report of the smoke program: they call the stream's operations
  one after the other, which `StreamingWorker` has in every order, and print counters;
- strings, JSON, null pointers and caught panics of the C interface; logging and statistics.

Taken to be so: a directory does not change while it is listed, nor a file its size while it
is played; the entry count of a batch is right (a wrong one makes the call fail, as `GiveUp`
does); texts are ASCII where a length in UTF-16 and one in bytes meet.

What could follow is a composition of `Cifs` with `StreamingWorker`, to show that the exchange
provides what the stream's `ReceiveReply` takes for granted, and of `Directory` with
`Browser`, to scan folders while calls are given up.
