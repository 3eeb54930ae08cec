\* One entry in a batch, of folders that hold up to two.
SPECIFICATION Spec
CONSTANTS
    AudioExtensions = {"mp3"}
    VideoExtensions = {"mkv", "mp4"}
    SubtitleExtensions = {"srt"}
    FlagKinds <- MCFlagKinds
    MarkerKinds <- MCMarkerKinds
    Case = 10
    None = None
    Folders <- MCFolders
    Children <- MCChildren
    FirstBatchLen = 1
INVARIANTS
    RemainsFolder
CHECK_DEADLOCK FALSE
