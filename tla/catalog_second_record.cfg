\* An id whose link a merge deleted is looked up again.
CONSTANTS
    MaxRecords = 3
    MaxRows = 2
    ExternalIds = {"tmdb1", "tmdb2", "imdb1"}
    Provider <- TheProvider
    Strong <- TheStrong
    Work <- TheWork
    NoWork = "no year"
    NoRecord = 0
    Users = {u}
    Lists = {l1}
    Requests = {q1}
SPECIFICATION Spec
PROPERTIES OneRecordPerId
CHECK_DEADLOCK FALSE
