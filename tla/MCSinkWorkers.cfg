SPECIFICATION FairSpec
CONSTANTS
    Sinks <- TwoSinks
    Policies <- TwoPolicies
    Required <- OneRequired
    Capacity = 2
    MaxEvents = 3
INVARIANTS TypeOK InOrder EveryEventAccounted RequiredDrainIsHonest NoLostWakeup
PROPERTY ShutdownReturns
