CONSTANTS
    c1 = c1
    c2 = c2
    Attempt = {c1, c2}
    Channel = {w1}
    Reconciler = {w2}
    Till = {t1}
    Total = 1
    AmountOf <- OneUnit
    ProviderStatus <- BothPaid
    Numbered = FALSE
    MaxCancels = 0
    MaxLate = 0
    MaxMisjudged = 1
    NoAttempt = NoAttempt
    NoTill = NoTill
SPECIFICATION Spec
INVARIANT
    NothingCreated
