\* What docs/ops/ui.md:216 promises of the view plane's book.
SPECIFICATION Spec
CONSTANTS
    Price = {2}
    Quantity = {1}
    Depth <- MCNone
    MaxBufferedMessages = 1
    MaxBufferedBytes = 1
    MaxBufferedSpan = 0
    MaxSeq = 2
    MaxMono = 0
    VenueChange <- LockingChanges
    FrameBytes = {1}
INVARIANTS
    ViewMirrorsBook
