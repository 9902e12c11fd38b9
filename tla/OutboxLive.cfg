CONSTANTS
    j1 = j1
    j2 = j2
    r1 = r1
    r2 = r2
    w1 = w1
    w2 = w2
    Job = {j1}
    Replica = {r1}
    Slot = {w1, w2}
    Token = {t1, t2, t3}
    NoToken = NoToken
    NoJob = NoJob
    NoKey = NoKey
    Kind <- SameKind
    DedupeKey <- NoKeys
    MaxAttempts <- TwoThenOne
    ReplicaOf <- BothSlots
    Registered <- AllKinds
    Skew <- NoSkew
    BatchSize = 1
    Lease = 1
    RetainDone = 0
    RetainDead = 1
    Delay = {1}
SPECIFICATION FairSpec
PROPERTIES
    Settles
    ImplementsQueue
    ShutdownEnds
