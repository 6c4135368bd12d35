\* Three steps of a venue, every range and pu, two snapshot requests at once,
\* which are refused, undecodable, late or missing; snapshots as frames.
SPECIFICATION FairSpec
CONSTANTS
    Price = {1}
    Quantity = {1}
    Depth <- MCNone
    MaxBufferedMessages = 1
    MaxBufferedBytes = 1
    MaxBufferedSpan = 0
    MaxSeq = 3
    VenuePatch <- MCPatch
    MaxDepthEvents = 2
    MaxRequests = 2
    Malformed = {FALSE}
INVARIANTS
    TypeOK
    LiveIsExact
    ViewNeverDiffers
PROPERTIES
    RegressesOnlyBySnapshot
    NeverStuck
