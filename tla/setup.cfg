\* Both ways to log on, every reply of the server, and four requests after it.
SPECIFICATION FairSpec
CONSTANTS
    Auths <- MCAuths
    HostLen = 3
    Uids = {1, 2}
    Challenges = {c1, c2}
    c1 = c1
    c2 = c2
    Infos = {0, 3, 65400, 65500}
    Paths = {0, 1, 2, 3}
    Reads <- MCReads
    Half = 4
    MaxRequests = 4
    None = None
INVARIANTS
    RequestsReadable
    UidGranted
    AnswersChallenge
    ErrorsClassified
PROPERTIES
    OpenEnds
CHECK_DEADLOCK FALSE
