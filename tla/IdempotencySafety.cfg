CONSTANTS
    k1 = k1
    Key = {k1}
    Request = {q1, q2, q3, q4}
    KeyOf <- SameKey
    Lease = 1
    TTL = 2
    MaxTries = 3
    InFlightWait = TRUE
    NoRequest = NoRequest
SPECIFICATION Spec
SYMMETRY RequestSymmetry
INVARIANTS
    TypeOK
    OneInLease
    OnceIfTimely
PROPERTIES
    StoredKept
CHECK_DEADLOCK FALSE
