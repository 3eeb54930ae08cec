------------------------------ MODULE MCBrowser ------------------------------
(* Names of two letters and three digits, in all orders; entries of every     *)
(* kind, hidden ones among them; folders of up to three entries.              *)
EXTENDS BrowserProps

MCFlagKinds == << <<"--deleted", "DeletedScene">>, <<"--trailer", "Trailer">> >>
MCMarkerKinds == << <<"deleted", "DeletedScene">>, <<"sample", "Sample">> >>

Entry(name, ext, size) == [name |-> name, ext |-> ext, size |-> size, marks |-> {},
                           hides |-> FALSE, attributes |-> {}]
Marked(e, words) == [e EXCEPT !.marks = words]
Directory(name) == [Entry(name, None, 0) EXCEPT !.attributes = {"directory"}]

\* Some of the sequences of different elements of a set, of at most n.
Distinct(S, n) == {s \in UNION {[1 .. k -> S] : k \in 0 .. n} :
                     \A i, j \in DOMAIN s : i # j => s[i].name # s[j].name}

Episodes == {Entry(n, "mkv", 1) : n \in {<<10, 2>>, <<10, 1, 0>>, <<20, 0, 2>>, <<20, 2>>,
                                         <<10>>, <<2>>, <<0, 0>>, <<0>>, <<11, 1>>}}

Files == {Entry(<<10>>, "mkv", 2), Entry(<<11>>, "mkv", 2), Entry(<<12>>, "mp4", 1),
          Marked(Entry(<<13>>, "mkv", 3), {"--trailer", "deleted"}),
          Marked(Entry(<<14>>, "mp3", 3), {"sample"}), Entry(<<15>>, "srt", 1)}
Odd == {Entry(<<16>>, None, 1), [Entry(<<17>>, "mkv", 3) EXCEPT !.hides = TRUE],
        [Entry(<<18>>, "mkv", 3) EXCEPT !.attributes = {"system"}],
        [Directory(<<19>>) EXCEPT !.hides = TRUE], [Directory(<<10, 1>>) EXCEPT !.ext = "mkv"]}

MCChildren == Distinct(Files, 2)
MCFolders == Distinct(Episodes, 3) \cup Distinct(Files \cup Odd, 2)
             \cup {<<Entry(<<10>>, "mkv", 1), Directory(<<11>>), Directory(<<10, 2>>)>>}
=============================================================================
