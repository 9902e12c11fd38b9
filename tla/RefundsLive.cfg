CONSTANTS
    k1 = k1
    k2 = k2
    Key = {k1, k2}
    Size <- PartAndAll
    Dest <- OnlyTheSecondInCash
    Amount = 2
    Proc = {w1, w2}
    Reconciler = {w2}
    InFlight = 0
    Window = 1
    KeyLife = 1
    AskTime = 0
    Busy = TRUE
    Unnumbered = FALSE
    MaxPanel = 1
    NoKey = NoKey
SPECIFICATION FairSpec
INVARIANTS
    TypeOK
    NoDoubleRefund
    FinalIsTrue
    ReturnedWithinCapture
PROPERTIES
    NumberedIsNotReviewed
    RefundsResolve
