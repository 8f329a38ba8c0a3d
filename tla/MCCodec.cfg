SPECIFICATION Spec
CONSTANTS
    small = small
    empty = empty
    unknown = unknown
    long = long
    negative = negative
    short = short
    misnamed = misnamed
    broken = broken
    Messages <- MCMessages
    NameLen <- MCNameLen
    BodyLen <- MCBodyLen
    Registered = {small, empty, long}
    Strays <- MCStrays
    StrayLen <- MCStrayLen
    Looks <- MCLooks
    Bytes <- MCBytes
    Junk <- MCJunk
    H = 2
    MaxLen = 6
    MaxFrames = 3
    Cheap = 2
    Initial = 5
    ExtraSize = 7
INVARIANTS
    InputExact
    FramesExact
    AbortsOnMisfit
    LeftBehind
    RoomToRead
CHECK_DEADLOCK FALSE
