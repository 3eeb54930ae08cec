\* Every call can be given up once, with two searches at most at a time.
SPECIFICATION FairSpec
CONSTANTS
    Dir <- MCDir
    Media <- MCMedia
    SortKey <- MCSortKey
    Sids = {s1, s2}
    s1 = s1
    s2 = s2
    MaxBatch = 2
    LastOffsets = {"size", "zero"}
    EmptyBatches = TRUE
    MaxDropped = 1
    None = None
INVARIANTS
    ListComplete
    ResumeKnown
    SearchesExplained
PROPERTIES
    ImplementsListing
    CallsReturn
    ListingEnds
