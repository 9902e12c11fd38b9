CONSTANTS
    c1 = c1
    r1 = r1
    r2 = r2
    w1 = w1
    w2 = w2
    Chain = {c1}
    MaxGeneration = 0
    Replica = {r1, r2}
    Slot = {w1, w2}
    ReplicaOf <- OneEach
    MaxAttempts = {1, 2}
    ClaimBatch = 1
    Lease = 1
    NotReadyWait = 1
    Delay = {0}
    Outcome = {"ok", "fail", "notReady"}
    Forgettable = {}
    Replayable = {"delivered", "dead", "cancelled"}
    Token = {t1, t2, t3}
    NoToken = NoToken
    NoDelivery = NoDelivery
SPECIFICATION Spec
SYMMETRY TokenSymmetry
INVARIANTS
    AnyProcessCanResume
