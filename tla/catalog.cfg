\* Two requests, merges beside other requests and merges.
CONSTANTS
    MaxRecords = 3
    MaxRows = 2
    ExternalIds = {"tmdb1", "tmdb2", "imdb1"}
    Provider <- TheProvider
    Strong <- TheStrong
    Work <- TheWork
    NoWork = "no year"
    NoRecord = 0
    Users = {u}
    Lists = {l}
    Requests = {q1, q2}
SPECIFICATION Spec
INVARIANTS TypeOK LinksResolve NothingLeftBehind MergesFit
PROPERTIES MergesKeepRows
CHECK_DEADLOCK FALSE
SYMMETRY Symmetry
