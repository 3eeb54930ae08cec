\* Two media, reads of up to four bytes in chunks of two, two late requests.
SPECIFICATION FairSpec
CONSTANTS
    Slots = {m1, m2}
    m1 = m1
    m2 = m2
    Paths = {"film", "song"}
    Size <- MCSize
    Folders = {"films"}
    Fids = {1, 2}
    Mids = {1, 2}
    ReadMax = 2
    MaxRequested = 4
    MaxExtra = 1
    None = None
INVARIANTS
    HandlesLive
    ReadExact
    FilesExplained
PROPERTIES
    TimedCallsReturn
