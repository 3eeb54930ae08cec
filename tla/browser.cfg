\* Whole folders in one batch.
SPECIFICATION Spec
CONSTANTS
    AudioExtensions = {"mp3"}
    VideoExtensions = {"mkv", "mp4"}
    SubtitleExtensions = {"srt"}
    FlagKinds <- MCFlagKinds
    MarkerKinds <- MCMarkerKinds
    Case = 10
    None = None
    Folders <- MCFolders
    Children <- MCChildren
    FirstBatchLen = 3
INVARIANTS
    ListedInOrder
    EntriesTrue
    MoviesExact
CHECK_DEADLOCK FALSE
