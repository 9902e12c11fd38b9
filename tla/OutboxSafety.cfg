CONSTANTS
    j1 = j1
    j2 = j2
    r1 = r1
    r2 = r2
    w1 = w1
    w2 = w2
    Job = {j1, j2}
    Replica = {r1, r2}
    Slot = {w1, w2}
    Token = {t1, t2, t3}
    NoToken = NoToken
    NoJob = NoJob
    NoKey = NoKey
    Kind <- SameKind
    DedupeKey <- SameKey
    MaxAttempts <- TwoThenOne
    ReplicaOf <- TwoSlots
    Registered <- AllKinds
    Skew <- AheadSkew
    BatchSize = 1
    Lease = 1
    RetainDone = 1
    RetainDead = 0
    Delay = {0, 1}
SPECIFICATION Spec
SYMMETRY TokenSymmetry
INVARIANTS
    TypeOK
    AttemptBudget
    OneOwner
    SnapshotCurrent
    OneLivePerKey
PROPERTIES
    LeaseRespected
    NoEarlyDeath
