CONSTANTS
    MaxRows = 2
    Proc = {w1}
    Sweeper = {w2}
    Backoff <- OneWait
    StaleAfter = 0
    DedupeWindow = 0
    Retain = 0
    Response <- Responses
    MaxManual = 1
SPECIFICATION FairSpec
INVARIANTS
    ReviewHasIncident
PROPERTIES
    Attended
