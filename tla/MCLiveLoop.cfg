SPECIFICATION FairSpec
CONSTANTS
    Capacity = 4
    MaxPendingHttp = 2
    MaxPendingWrites = 1
    MaxTimerFires = 2
    MaxReconnects = 1
    ResetAfterLive = 2
    OnConnectedActs <- FullConnected
    OnFrameActs <- FullFrame
    OnTimerActs <- FullTimer
    OnResponseActs <- FullResponse
    OnDisconnectedActs <- FullDisconnected
    ClockJumps <- Jumpy
INVARIANTS TypeOK ReadyMeansConnected OkMeansDrained
PROPERTIES InputsInOrder BudgetIsEarned StopEnds
