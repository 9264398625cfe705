SPECIFICATION Spec
CONSTANTS
    Workers = {w1}
    MaxTriggers = 2
    NoWorker = NoWorker
    MaxCrashes = 0
    LeaseOutlastsBackup = TRUE
INVARIANTS
    OneActiveBackup
CHECK_DEADLOCK FALSE
