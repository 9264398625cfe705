SPECIFICATION FairSpec
CONSTANTS
    Workers = {w1, w2}
    MaxTriggers = 3
    NoWorker = NoWorker
    MaxCrashes = 1
    LeaseOutlastsBackup = TRUE
INVARIANTS
    TypeOK
    SecondBackupRaces
    SuccessIsStored
PROPERTIES
    ImplementsClaimQueue
    BackupsSettle
CHECK_DEADLOCK FALSE
