\* A merge into a record the user once removed from the library.
CONSTANTS
    MaxRecords = 3
    MaxRows = 2
    ExternalIds = {"tmdb1", "tmdb2", "imdb1"}
    Provider <- TheProvider
    Strong <- TheStrong
    Work <- TheWork
    NoWork = "no year"
    NoRecord = 0
    Users = {u}
    Lists = {l1}
    Requests = {q1}
SPECIFICATION Spec
PROPERTIES MergesKeepEntries
CHECK_DEADLOCK FALSE
