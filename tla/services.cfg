\* The requests, uploads, lists, administrators and throttles of the API, each
\* with two requests or threads at once, which are interchangeable and bear
\* the same names everywhere.
SPECIFICATION ServicesSpec
CONSTANTS
    Users = {u1}
    Devices = {d1}
    NoDevice = none
    Calls = {c1, c2}
    MaxTokens = 3
    MaxLetters = 2
    MaxRequests = 4
    LockAfter = 1
    Seeders = {c1, c2}
    Results = {g1, g2}
    MaxSeedCalls = 3
    MaxSeedFaults = 2
    MaxMergedIds = 1
    ImageCalls = {c1, c2}
    MaxImages = 3
    ListMedia = {"a", "b", "c"}
    ListCalls = {c1, c2}
    Orders <- MCOrders
    MaxListRows = 3
    Author = author
    Readers = {reader}
    Moderators = {moderator}
    TalkCalls = {c1, c2}
    MaxComments = 2
    AdminUsers = {a1, a2, a3}
    FirstAdmin = a1
    AdminCalls = {c1, c2}
    LimitedCalls = {c1, c2}
    Limit = 2
    MaxHits = 4
    Threads = {c1, c2}
    Interval = 2
    MaxRetries = 1
    Pauses = {1, 3}
    MaxTime = 6
    Files <- MCFiles
    UploadCalls = {c1, c2}
    MaxRows = 2
    JobLimit = 1
    LibraryCalls = {c1, c2}
    Statuses = {"IN_PROGRESS", "COMPLETED"}
    MaxEntries = 2
INVARIANTS
    ServicesTypeOK
    RevocationReachesAll
    SpentTogether
    StaysSignedIn
    OneLiveTokenPerBranch
    SeedTotalsMatch
    CompletedPageIsDone
    ProfileIsKept
    NothingLeaks
    CountFollowsComments
    ViewsAgree
    RootRemains
    WindowEnds
    RateIsKept
    OneJobPerFile
    LimitIsNearlyKept
    RowsWithinLimit
    DatesFollowStatus
PROPERTIES
    OrderIsKept
    ReorderIsObeyed
CHECK_DEADLOCK FALSE
SYMMETRY Symmetry
