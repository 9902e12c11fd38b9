CONSTANTS
    Event = {e1}
    Relay = {r1, r2}
    MaxAttempts = 2
    MinAge = 1
    Retention = 1
    Delay = {1}
    NoEvent = NoEvent
SPECIFICATION FairSpec
INVARIANTS
    TypeOK
    KeptUntilRecorded
    OnlyCommitted
    FlagMeansRan
    GivenUpAfterAllTries
PROPERTIES
    Relayed
