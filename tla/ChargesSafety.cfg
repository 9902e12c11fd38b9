CONSTANTS
    c1 = c1
    c2 = c2
    Attempt = {c1, c2}
    Channel = {w1}
    Reconciler = {w2}
    Till = {t1}
    Total = 2
    AmountOf <- HalfThenHalfOrAll
    ProviderStatus <- OneAuthorizedOneGivenUp
    Numbered = FALSE
    MaxCancels = 1
    MaxLate = 1
    MaxMisjudged = 0
    NoAttempt = NoAttempt
    NoTill = NoTill
SPECIFICATION Spec
INVARIANTS
    TypeOK
    ChargedOnce
    OneOpen
    TwoReadingsSuffice
PROPERTIES
    NoLostAuthorization
    PaidEndsHold
