\* Bytes that come one by one, calls dropped within frames, any kind of frame.
SPECIFICATION FairSpec
CONSTANTS
    Base = 8
    MaxFrame = 6
    FrameType <- MCFrameType
    SessionData <- MCSessionData
    ServerFrames <- MCServerFrames
    Messages <- MCMessages
    MaxSent = 2
    MaxDrops = 1
INVARIANTS
    TypeOK
    RequestsWhole
PROPERTIES
    ImplementsChannel
    CallsEnd
CHECK_DEADLOCK FALSE
