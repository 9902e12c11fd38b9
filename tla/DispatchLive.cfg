CONSTANTS
    c1 = c1
    r1 = r1
    r2 = r2
    w1 = w1
    w2 = w2
    Chain = {c1}
    MaxGeneration = 0
    Replica = {r1}
    Slot = {w1, w2}
    ReplicaOf <- AllOne
    MaxAttempts = {2}
    ClaimBatch = 1
    Lease = 1
    NotReadyWait = 1
    Delay = {1}
    Outcome = {"ok", "fail", "notReady"}
    Forgettable = {c1}
    Replayable = {"delivered", "dead", "cancelled"}
    Token = {t1, t2}
    NoToken = NoToken
    NoDelivery = NoDelivery
SPECIFICATION FairSpec
PROPERTIES
    Settles
    ImplementsQueue
