\* Multiplex ids that come round, in a build that wraps or one that panics.
SPECIFICATION FairSpec
CONSTANTS
    Commands = {"Read", "Transact2"}
    Mids = 3
    Depth = 2
    MaxParts = 2
    MaxSent = 4
INVARIANTS
    OwnReplies
    AllAccountedFor
PROPERTIES
    DuplicateExplained
    CallsReturn
CHECK_DEADLOCK FALSE
