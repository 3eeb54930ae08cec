----------------------------- MODULE BrowserProps -----------------------------
(* What a player may expect of the entries it is shown.                       *)
EXTENDS Browser

\* The value of some digits, and what comes first of two names for a reader:
\* numbers by their value, of equal ones the shorter; numbers before words;
\* words by their letters; a name before its continuations.
Values(digits) == LET upto[n \in 0 .. Len(digits)] ==
                          IF n = 0 THEN 0 ELSE 10 * upto[n - 1] + digits[n]
                  IN  upto
Value(digits) == Values(digits)[Len(digits)]

WordBefore(v, w) == Lexicographic([i \in DOMAIN v |-> Lowercase(v[i])],
                                  [i \in DOMAIN w |-> Lowercase(w[i])], <)
SameRun(v, w) == IF IsDigit(v[1]) THEN v = w
                 ELSE [i \in DOMAIN v |-> Lowercase(v[i])] = [i \in DOMAIN w |-> Lowercase(w[i])]
RunBefore(v, w) ==
    CASE IsDigit(v[1]) /\ IsDigit(w[1]) ->
             Value(v) < Value(w) \/ (Value(v) = Value(w) /\ Len(v) < Len(w))
      [] ~IsDigit(v[1]) /\ ~IsDigit(w[1]) -> WordBefore(v, w)
      [] OTHER -> IsDigit(v[1])

NameBefore(a, b) ==
    LET v == Runs(a) w == Runs(b) IN
    \E n \in 0 .. Len(v) :
        /\ n <= Len(w) /\ \A i \in 1 .. n : SameRun(v[i], w[i])
        /\ \/ n = Len(v) /\ n < Len(w)
           \/ n < Len(v) /\ n < Len(w) /\ RunBefore(v[n + 1], w[n + 1])

IsFolder(entry) == entry.kind = "Folder"
Place(name) == CHOOSE i \in DOMAIN folder : folder[i].name = name

(* A listing has the folders first, and within folders and files every name   *)
(* where a reader looks for it: episode 2 before episode 10, and capitals do  *)
(* not matter.  Names that differ in nothing else stay as the server sent     *)
(* them.                                                                      *)
ListedInOrder ==
    \A i, j \in DOMAIN entries :
        LET e == entries[i] f == entries[j] IN
        i < j => /\ IsFolder(f) => IsFolder(e)
                 /\ IsFolder(e) = IsFolder(f) =>
                       \/ NameBefore(e.name, f.name)
                       \/ ~NameBefore(f.name, e.name) /\ Place(e.name) < Place(f.name)

\* The entries of a directory that are videos for a reader of it.
Videos(dir) == {i \in DOMAIN dir :
                  /\ ~dir[i].hides /\ dir[i].attributes = {} /\ dir[i].ext \in VideoExtensions}
Words == {pair[1] : pair \in ToSet(FlagKinds) \cup ToSet(MarkerKinds)}
Films(dir) == {i \in Videos(dir) : dir[i].marks \cap Words = {}}

(* A listing has every entry that is a folder, an audio track or a video, and *)
(* nothing hidden or else, each once and with its kind; the summary of a      *)
(* folder splits its videos into films and extras, names a largest of the     *)
(* films, and counts no track among the extras.                               *)
EntriesTrue ==
    pc \notin {"start", "failed"} =>
        LET summary == FolderSummary(entries)
            Named(indices) == {Place(entries[i].name) : i \in ToSet(indices)}
        IN  /\ Named(summary.primary) = Films(folder)
            /\ Named(summary.primary \o summary.extras) = Videos(folder)
            /\ Len(summary.primary) + Len(summary.extras) = Cardinality(Videos(folder))
            /\ \A i \in DOMAIN entries : i \in ToSet(summary.audio) <=>
                    folder[Place(entries[i].name)].ext \in AudioExtensions
                    /\ ~IsFolder(entries[i])
            /\ summary.main = None <=> Films(folder) = {}
            /\ summary.main # None =>
                  /\ Place(entries[summary.main].name) \in Films(folder)
                  /\ \A i \in Films(folder) : folder[i].size <= entries[summary.main].size

(* When folders are looked into, those and only those that hold one film are  *)
(* presented as films, whatever extras and tracks are with it, and what such  *)
(* an entry says is its main video is that film in the listing of the folder. *)
MoviesExact ==
    pc = "shown" => \A i \in DOMAIN entries :
        /\ shown[i].index = i
        /\ shown[i].as = "MovieFolder" <=>
              scan /\ IsFolder(entries[i]) /\ Cardinality(Films(Inside(entries[i]))) = 1
        /\ shown[i].as = "MovieFolder" =>
              \E film \in Films(Inside(entries[i])) :
                  MediaEntriesOf(Inside(entries[i]))[shown[i].summary.main].name
                      = Inside(entries[i])[film].name

(* Whatever the batches, a folder is presented as a film by the films in its  *)
(* first batch; with several batches that is less than the folder.            *)
MoviesOfBatch ==
    pc = "shown" => \A i \in DOMAIN entries :
        LET batch == FirstBatch(Inside(entries[i])) IN
        /\ shown[i].index = i
        /\ shown[i].as = "MovieFolder" <=>
              scan /\ IsFolder(entries[i]) /\ Cardinality(Films(batch)) = 1
        /\ shown[i].as = "MovieFolder" =>
              \E film \in Films(batch) :
                  MediaEntriesOf(batch)[shown[i].summary.main].name = batch[film].name

(* docs/SMOKE_TESTING.md:66: detection is conservative, and a folder with     *)
(* several unmarked videos remains a folder.                                  *)
RemainsFolder ==
    pc = "shown" => \A i \in DOMAIN entries :
        IsFolder(entries[i]) /\ Cardinality(Films(Inside(entries[i]))) > 1 =>
            shown[i].as = "Folder"
-----------------------------------------------------------------------------
(* Why they hold: what is kept is the summaries of the folders looked into so *)
(* far that can be collapsed, each with its own index.                        *)
Summed(i) == FolderSummary(Listed(Inside(entries[i])))
Collapses(i) == scan /\ IsFolder(entries[i]) /\ CanCollapse(Summed(i))

ScanPoint ==
    /\ entries = Listed(folder)
    /\ at \in 1 .. Len(entries) + 1
    /\ ~scan => at = Len(entries) + 1
    /\ \A i \in 1 .. at - 1 :
          Collapses(i) => \E k \in DOMAIN summaries : summaries[k] = <<i, Summed(i)>>
    /\ \A k \in DOMAIN summaries :
          \E i \in 1 .. at - 1 : Collapses(i) /\ summaries[k] = <<i, Summed(i)>>

IInv == /\ folder \in Folders /\ inside \in [Subfolders -> Children] /\ scan \in BOOLEAN
        /\ pc \in {"start", "scan", "shown", "failed"}
        /\ summaries \in Seq(Nat \X Summaries)
        /\ pc = "start" => entries = <<>> /\ summaries = <<>>
        /\ pc \in {"scan", "shown"} => ScanPoint
        /\ pc = "failed" => entries \in {<<>>, Listed(folder)}
        /\ pc = "shown" => at > Len(entries) /\ shown = Presentations(entries, summaries)

\* The server sends every folder in one batch.
WholeBatches == \A dir \in Folders \cup Children : Len(dir) <= FirstBatchLen
=============================================================================
