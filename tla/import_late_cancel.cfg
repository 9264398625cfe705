SPECIFICATION Spec
CONSTANTS
    Workers = {w1}
    Requests = {r1}
    Items = {1, 2}
    Media <- MCMedia
    Values = {v1, v2}
    NoWorker = NoWorker
    NoEntry = NoEntry
    RowValue <- MCRowValue
    Matches <- MCMatches
    MaxCrashes = 0
    LeaseOutlastsItem = TRUE
    m1 = m1
    v1 = v1
    v2 = v2
PROPERTIES
    OnlyActiveJobsAreCancelled
