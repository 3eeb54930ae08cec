------------------------------- MODULE Browser -------------------------------
(* Browsing, as the smoke-test program does it (src/bin/smb_smoke.rs): list a *)
(* folder, look into the folders in it for those that hold one film, present  *)
(* what was found.  Of every folder the first batch of its listing is taken.  *)
(* Directories are those of module Directory; entries, their order and their  *)
(* summaries are those of module MediaEntries.                                *)
EXTENDS MediaEntries

CONSTANTS
    Folders,        \* external: what the folder to list may hold
    Children,       \* external: what a folder in it may hold
    FirstBatchLen   \* external: how many entries a server sends in one batch

\* No two entries of a directory have one name.
Directories == {dir \in Seq(DirEntries) :
                  \A i, j \in DOMAIN dir : i # j => dir[i].name # dir[j].name}

ASSUME BrowserAssumption ==
    FirstBatchLen \in Nat \ {0} /\ Folders \cup Children \subseteq Directories

VARIABLES
    pc,             \* "start", "scan", "shown" or "failed"
    folder,         \* external: the entries of the folder, in the server's order
    inside,         \* external: what is in each folder of it
    scan,           \* SMB_SCAN_FOLDER_SUMMARIES
    entries,        \* the media entries listed
    at,             \* the next of them to look into
    summaries,      \* the summaries of those that hold one film, with their indices
    shown           \* the presentations

disk == <<folder, inside, scan>>
vars == <<pc, disk, entries, at, summaries, shown>>

\* A search finds nothing in an empty folder, or all up to the end of the batch.
FirstBatch(dir) == SubSeq(dir, 1, IF Len(dir) < FirstBatchLen THEN Len(dir) ELSE FirstBatchLen)
Listed(dir) == MediaEntriesOf(FirstBatch(dir))

Subfolders == {i \in DOMAIN folder : "directory" \in folder[i].attributes}

Init == /\ pc = "start"
        /\ folder \in Folders
        /\ inside \in [Subfolders -> Children]
        /\ scan \in BOOLEAN
        /\ entries = <<>> /\ summaries = <<>> /\ shown = <<>>
        /\ at = 1

ListFolder == /\ pc = "start"
              /\ pc' = "scan"
              /\ entries' = Listed(folder)
              /\ at' = IF scan THEN 1 ELSE Len(entries') + 1
              /\ UNCHANGED <<disk, summaries, shown>>

\* The folder that an entry stands for; names are unique.
Inside(entry) == inside[CHOOSE i \in DOMAIN folder : folder[i].name = entry.name]

SkipFile == /\ pc = "scan" /\ at <= Len(entries)
            /\ entries[at].kind # "Folder"
            /\ at' = at + 1
            /\ UNCHANGED <<pc, disk, entries, summaries, shown>>

\* Fault: the summaries are kept by their own number.
ScanCounting == /\ pc = "scan" /\ at <= Len(entries)
                /\ entries[at].kind = "Folder"
                /\ LET summary == FolderSummary(Listed(Inside(entries[at])))
                   IN  summaries' = IF CanCollapse(summary)
                                    THEN Append(summaries, <<Len(summaries) + 1, summary>>)
                                    ELSE summaries
                /\ at' = at + 1
                /\ UNCHANGED <<pc, disk, entries, shown>>

ScanFolder == /\ pc = "scan" /\ at <= Len(entries)
              /\ entries[at].kind = "Folder"
              /\ LET summary == FolderSummary(Listed(Inside(entries[at]))) IN
                 summaries' = IF CanCollapse(summary) THEN Append(summaries, <<at, summary>>)
                              ELSE summaries
              /\ at' = at + 1
              /\ UNCHANGED <<pc, disk, entries, shown>>

Show == /\ pc = "scan" /\ at > Len(entries)
        /\ pc' = "shown"
        /\ shown' = Presentations(entries, summaries)
        /\ UNCHANGED <<disk, entries, at, summaries>>

\* A listing that fails or times out ends the program.
Fail == /\ \/ pc = "start"
           \/ pc = "scan" /\ at <= Len(entries) /\ entries[at].kind = "Folder"
        /\ pc' = "failed"
        /\ UNCHANGED <<disk, entries, at, summaries, shown>>

Next == ListFolder \/ SkipFile \/ ScanFolder \/ Show \/ Fail

Spec == Init /\ [][Next]_vars
=============================================================================
