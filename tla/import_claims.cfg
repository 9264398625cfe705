SPECIFICATION Spec
CONSTANTS
    Workers = {w1, w2}
    Requests = {r1, r2}
    Items = {1, 2}
    Media <- MCMedia
    Values = {v1, v2}
    NoWorker = NoWorker
    NoEntry = NoEntry
    RowValue <- MCRowValue
    Matches <- MCMatches
    MaxCrashes = 1
    LeaseOutlastsItem = TRUE
    m1 = m1
    v1 = v1
    v2 = v2
SYMMETRY Symmetry
INVARIANTS
    TypeOK
    OneWorker
    Recoverable
    OutcomeMatchesItems
PROPERTIES
    WorkersKeepEntries
    RowsProcessedOnce
    NoRestart
    ImplementsClaimQueue
