---------------------------- MODULE MediaEntries ----------------------------
(* What the library makes of the entries of a directory (src/lib.rs): which   *)
(* are media and of which kind, in which order they are listed, which videos  *)
(* of a folder are its film and which are extras, and how a player is to      *)
(* present an entry.                                                          *)
(*                                                                            *)
(* A name is a sequence of characters, and a character is a number: 0 to 9    *)
(* are the digits, a letter is Case more in capitals.  What the code finds in *)
(* a name otherwise is told beside it: ext is what follows its last dot,      *)
(* hides whether it is one of a system's names or begins with a dot, and      *)
(* marks are those of the words below that it contains.                       *)
EXTENDS Integers, Sequences, FiniteSets, SequencesExt

CONSTANTS
    AudioExtensions, VideoExtensions, SubtitleExtensions,
    FlagKinds, MarkerKinds, \* the two lists of words: pairs of a word and a kind
    Case, None

\* No extension is in two of the lists, and letters come behind the digits.
ASSUME MediaAssumption ==
    /\ Case \in Nat /\ Case >= 10
    /\ AudioExtensions \cap VideoExtensions = {}
    /\ SubtitleExtensions \cap (AudioExtensions \cup VideoExtensions) = {}
    /\ None \notin AudioExtensions \cup VideoExtensions

ASSUME KindsAssumption ==
    FlagKinds \in Seq(STRING \X STRING) /\ MarkerKinds \in Seq(STRING \X STRING)

\* What the entries of a directory are told by, and what the code makes of a folder.
DirEntries == [name : Seq(Nat), ext : STRING \cup {None}, size : Nat, marks : SUBSET STRING,
               hides : BOOLEAN, attributes : SUBSET {"directory", "hidden", "system"}]
Summaries == [main : Nat \cup {None}, primary : Seq(Nat), extras : Seq(Nat), audio : Seq(Nat)]

ASSUME NoneAssumption == None \notin STRING \cup Nat \cup Summaries

\* What the first pair of a list that has this key is paired with.
FirstOf(pairs, IsKey(_)) ==
    LET found == {i \in DOMAIN pairs : IsKey(pairs[i][1])}
    IN  IF found = {} THEN None ELSE pairs[Min(found)][2]

FirstKind(pairs, words) == LET IsContained(word) == word \in words
                           IN  FirstOf(pairs, IsContained)

\* The elements of a set as Before orders them.
InOrder(S, Before(_, _)) ==
    CHOOSE s \in [1 .. Cardinality(S) -> S] :
        \A i, j \in DOMAIN s : i < j => Before(s[i], s[j])

\* Indices of the elements for which a test holds, in order.
IndicesWhere(s, Test(_)) == InOrder({i \in DOMAIN s : Test(s[i])}, <)
-----------------------------------------------------------------------------
(* Filters and kinds.                                                         *)

IsMediaExtension(ext) == ext \in AudioExtensions \cup VideoExtensions

IsHiddenEntry(e) == e.hides \/ e.attributes \cap {"hidden", "system"} # {}

IsMediaEntry(e) ==
    /\ ~IsHiddenEntry(e)
    /\ \/ "directory" \in e.attributes
       \/ e.ext # None /\ IsMediaExtension(e.ext) /\ e.ext \notin SubtitleExtensions

RetainMedia(entries) == LET kept == IndicesWhere(entries, IsMediaEntry)
                        IN  [i \in DOMAIN kept |-> entries[kept[i]]]

KindOf(e) == IF "directory" \in e.attributes THEN "Folder"
             ELSE IF e.ext \in AudioExtensions THEN "Audio" ELSE "Video"

\* MediaEntry::from; of the name only its words are looked at again.
MediaEntry(e) == [name |-> e.name, marks |-> e.marks, size |-> e.size, kind |-> KindOf(e)]
-----------------------------------------------------------------------------
(* The order.  A key is a sequence of tokens, numbers and texts by turns; the *)
(* derived order of a token is that of a sequence of numbers: its variant     *)
(* first, then its fields.                                                    *)

IsDigit(c) == c < 10
Lowercase(c) == IF c >= 2 * Case THEN c - Case ELSE c

RunEnds(name) == {j \in DOMAIN name : j = Len(name) \/ IsDigit(name[j]) # IsDigit(name[j + 1])}
Runs(name) == LET ends == InOrder(RunEnds(name), <)
              IN  [i \in DOMAIN ends |->
                     SubSeq(name, IF i = 1 THEN 1 ELSE ends[i - 1] + 1, ends[i])]

\* trim_start_matches('0'): nothing is left of zeros alone, and then "0" is taken.
Significant(raw) == LET first == {i \in DOMAIN raw : raw[i] # 0}
                    IN  IF first = {} THEN <<0>>
                        ELSE SubSeq(raw, Min(first), Len(raw))

\* Fault: the digits are compared without their number.
NumberByDigits(raw) == <<0>> \o Significant(raw) \o <<Len(raw)>>

Number(raw) == <<0, Len(Significant(raw))>> \o Significant(raw) \o <<Len(raw)>>
Text(raw) == <<1>> \o [i \in DOMAIN raw |-> Lowercase(raw[i])]

NaturalNameKey(name) ==
    LET runs == Runs(name)
    IN  [i \in DOMAIN runs |-> IF IsDigit(runs[i][1]) THEN Number(runs[i]) ELSE Text(runs[i])]

\* The lexicographic order that Less makes of sequences.
Lexicographic(a, b, Less(_, _)) ==
    \E n \in 0 .. Len(a) :
        /\ n <= Len(b) /\ \A i \in 1 .. n : a[i] = b[i]
        /\ \/ n = Len(a) /\ n < Len(b)
           \/ n < Len(a) /\ n < Len(b) /\ Less(a[n + 1], b[n + 1])

TokenBefore(a, b) == Lexicographic(a, b, <)

DirectorySortKey(e) == [file |-> "directory" \notin e.attributes,
                        name |-> NaturalNameKey(e.name)]
KeyBefore(k, l) == \/ ~k.file /\ l.file
                   \/ k.file = l.file /\ Lexicographic(k.name, l.name, TokenBefore)

\* sort_by_cached_key is stable: entries of one key keep their order.
SortEntries(entries) ==
    LET key == [i \in DOMAIN entries |-> DirectorySortKey(entries[i])]
        Precedes(i, j) == KeyBefore(key[i], key[j]) \/ (~KeyBefore(key[j], key[i]) /\ i < j)
        order == InOrder(DOMAIN entries, Precedes)
    IN  [i \in DOMAIN entries |-> entries[order[i]]]

\* next_media_entries, of a batch.
NextMedia(batch) == SortEntries(RetainMedia(batch))
MediaEntriesOf(batch) == LET media == NextMedia(batch)
                         IN  [i \in DOMAIN media |-> MediaEntry(media[i])]
-----------------------------------------------------------------------------
(* Folders and their films.                                                   *)

\* media_extra_kind: flags first, then words.
ExtraKind(marks) == LET flagged == FirstKind(FlagKinds, marks)
                    IN  IF flagged # None THEN flagged ELSE FirstKind(MarkerKinds, marks)

IsVideo(entry) == entry.kind = "Video"
IsAudio(entry) == entry.kind = "Audio"

\* Fault: an audio track with such a word in its name is an extra as well.
HasExtraName(entry) == ExtraKind(entry.marks) # None

IsLikelyExtra(entry) == IsVideo(entry) /\ ExtraKind(entry.marks) # None

IsPrimary(entry) == IsVideo(entry) /\ ~IsLikelyExtra(entry)

PrimaryVideos(entries) == IndicesWhere(entries, IsPrimary)

\* max_by_key: of the largest, the last.
LargestVideo(entries, indices) ==
    IF indices = <<>> THEN None
    ELSE CHOOSE i \in ToSet(indices) :
            \A j \in ToSet(indices) : entries[j].size < entries[i].size
                                      \/ (entries[j].size = entries[i].size /\ j <= i)

FolderSummary(entries) ==
    [main |-> LargestVideo(entries, PrimaryVideos(entries)), primary |-> PrimaryVideos(entries),
     extras |-> IndicesWhere(entries, IsLikelyExtra),
     audio |-> IndicesWhere(entries, IsAudio)]

CanCollapse(summary) == Len(summary.primary) = 1
-----------------------------------------------------------------------------
(* Presentations, with the summaries of some of the folders by index.         *)

SummaryOf(summaries, index) ==
    LET IsIndex(i) == i = index IN FirstOf(summaries, IsIndex)

Presentation(index, entry, summary) ==
    [index |-> index,
     as |-> IF entry.kind # "Folder" THEN "PlayableFile"
            ELSE IF summary # None /\ CanCollapse(summary) THEN "MovieFolder" ELSE "Folder",
     summary |-> IF entry.kind = "Folder" /\ summary # None /\ CanCollapse(summary)
                 THEN summary ELSE None]

Presentations(entries, summaries) ==
    [i \in DOMAIN entries |-> Presentation(i, entries[i], SummaryOf(summaries, i))]
=============================================================================
