\* One step of a venue, one event, one request at a time.
SPECIFICATION Spec
CONSTANTS
    Price = {1}
    Quantity = {1}
    Depth <- MCNone
    MaxBufferedMessages = 1
    MaxBufferedBytes = 1
    MaxBufferedSpan = 0
    MaxSeq = 1
    VenuePatch <- MCPatch
    MaxDepthEvents = 1
    MaxDepthBytes = 180
    MaxDepthSpan = 0
    MaxRequests = 1
    MaxMono = 0
ACTION_CONSTRAINT
    LiveLoopStep
INVARIANT
    ViewMirrorsBook
