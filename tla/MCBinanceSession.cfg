\* Three steps of a venue, ranges of every length, two requests, room for two events;
\* each limit is reachable; snapshots are refused, undecodable, late, missing or sent as frames.
SPECIFICATION FairSpec
CONSTANTS
    Price = {1}
    Quantity = {1}
    Depth <- MCNone
    MaxBufferedMessages = 1
    MaxBufferedBytes = 1
    MaxBufferedSpan = 0
    MaxSeq = 3
    VenuePatch <- MCPatch
    MaxDepthEvents = 2
    MaxDepthBytes = 180
    MaxDepthSpan = 0
    MaxRequests = 2
    MaxMono = 1
INVARIANTS
    TypeOK
    LiveIsExact
    LiveIsSettled
    SilenceIsNoticed
    DepthAccounting
    ViewNeverDiffers
PROPERTIES
    RegressesOnlyByFrame
    NeverStuck
