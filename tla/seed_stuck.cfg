\* A worker that dies leaves its run RUNNING, and no later call takes it up.
SPECIFICATION FairSeedingSpec
CONSTANTS
    Seeders = {w1, w2}
    Results = {g1}
    MaxSeedCalls = 3
    MaxSeedFaults = 2
    MaxMergedIds = 1
PROPERTY RunsEnd
CHECK_DEADLOCK FALSE
