SPECIFICATION Spec
CONSTANTS
    Capacity = 4
    MaxPendingHttp = 1
    MaxPendingWrites = 1
    MaxTimerFires = 1
    MaxReconnects = 8
    ResetAfterLive = 1
    OnConnectedActs <- QuietConnected
    OnFrameActs <- Silent
    OnTimerActs <- Silent
    OnResponseActs <- QuietResponse
    OnDisconnectedActs <- Silent
    ClockJumps <- Steady
INVARIANT FailEngineSafe
