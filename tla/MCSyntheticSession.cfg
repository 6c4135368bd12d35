\* A bid and an ask that lock each other; three changes; each buffer limit reachable on its own.
SPECIFICATION Spec
CONSTANTS
    Price = {2}
    Quantity = {1}
    Depth <- MCNone
    MaxBufferedMessages = 2
    MaxBufferedBytes = 3
    MaxBufferedSpan = 0
    MaxSeq = 3
    MaxMono = 1
    VenueChange <- FewChanges
    FrameBytes = {1, 2}
INVARIANTS
    TypeOK
    QueryableIsConsistent
    LiveIsExact
    ValidIsUncrossed
    LiveFlagAgrees
    BufferAccounting
PROPERTY
    LiveSequenceStep
