------------------------------- MODULE Catalog -------------------------------
(***************************************************************************)
(* The media catalog: records, the providers' ids that lead to them, the   *)
(* requests that look an id up and create or link a record, the users'     *)
(* library entries, reviews and list items that refer to records, and the  *)
(* administrators' merges of duplicates.                                   *)
(*                                                                         *)
(* A request that reads and then writes is two actions, merges included:    *)
(* others may commit in between, and the unique indexes have the last word. *)
(* The session does not flush before its commit (database.py:12), so that  *)
(* a merge decides on what it read.  Titles, images, genres, comments and  *)
(* tracking data follow their record or row and are left out.              *)
(***************************************************************************)
EXTENDS Naturals, FiniteSets

CONSTANTS
    MaxRecords,   \* bound on media records
    MaxRows,      \* bound on library entries, reviews and list items
    ExternalIds,  \* ids under which providers know works
    Provider,     \* Provider[x]: the provider of id x
    Strong,       \* Strong[x]: the cross-provider ids in the details of x,
                  \* for the ids whose provider this API asks
    Work,         \* Work[x]: title, type and year in the details of x
    NoWork,       \* the year is not known: matches no other record
    NoRecord,     \* an id that is not linked
    Users,
    Lists,
    Requests      \* concurrent API requests

Records == 1 .. MaxRecords
RowIds == 1 .. MaxRows
Fetched == DOMAIN Strong

ASSUME CatalogAssumption ==
    /\ MaxRecords \in Nat
    /\ MaxRows \in Nat
    /\ NoRecord \notin Records
    /\ Fetched \subseteq ExternalIds
    /\ Strong \in [Fetched -> SUBSET ExternalIds]
    /\ DOMAIN Work = Fetched

VARIABLES
    media,   \* state of each media record
    work,    \* title, type and year of each record
    link,    \* the record each external id is linked to
    rows,    \* library entries, reviews and list items; inactive: soft-deleted
    req,     \* what each request has read
    known,   \* history: the external ids that have been linked
    lateIds, \* history: the ids whose link a merge of the record overtook
    lateRows \* history: the rows whose last write a merge overtook

vars == <<media, work, link, rows, req, known, lateIds, lateRows>>
-----------------------------------------------------------------------------
Kinds == {"entry", "review", "item"}
Row == {row \in [kind : Kinds, owner : Users \cup Lists, media : Records,
                 active : BOOLEAN] : row.kind = "item" => row.active}
NoRow == [kind |-> "none"]
DeletedRow == [kind |-> "deleted"]      \* the id is not used again

Plans(ids) == UNION {[read -> {"move", "drop"}] : read \in SUBSET ids}
Idle == [pc |-> "idle"]
RequestStates ==
    {Idle} \cup [pc : {"fetch", "create"}, id : Fetched]
           \cup [pc : {"link", "refresh"}, id : Fetched, to : Records]
           \cup [pc : {"insert"}, row : Row]
           \cup [pc : {"restore"}, id : RowIds]
           \cup [pc : {"merge"}, source : Records, target : Records,
                 rows : Plans(RowIds), ids : Plans(ExternalIds)]

Active == {r \in Records : media[r] = "active"}
Resolves(x) == link[x] \in Active

Exists(i) == rows[i] \notin {NoRow, DeletedRow}

(* The rows of one user or list for one record, and the active ones.       *)
RowsOf(kind, o, r) ==
    {i \in RowIds : Exists(i) /\ rows[i].kind = kind
                    /\ rows[i].owner = o /\ rows[i].media = r}
ActiveRows(kind, o, r) == {i \in RowsOf(kind, o, r) : rows[i].active}

(* The unique indexes: one active row of a kind of an owner for a record.  *)
Unique(table) ==
    \A i, j \in RowIds :
        /\ table[i] \in Row /\ table[i].active
        /\ table[j] = table[i]
        => i = j

Init ==
    /\ media = [r \in Records |-> "absent"]
    /\ work = [r \in Records |-> NoWork]
    /\ link = [x \in ExternalIds |-> NoRecord]
    /\ rows = [i \in RowIds |-> NoRow]
    /\ req = [q \in Requests |-> Idle]
    /\ known = {}
    /\ lateIds = {}
    /\ lateRows = {}

Begin(q) == req[q] = Idle
Stage(q, state) ==
    /\ req' = [req EXCEPT ![q] = state]
    /\ UNCHANGED <<media, work, link, rows, known, lateIds, lateRows>>
Done(q) == req' = [req EXCEPT ![q] = Idle]

(* An error anywhere in a request - the provider's, a unique index's, a    *)
(* lost connection - rolls its transaction back.                           *)
Fail(q) == req[q] # Idle /\ Stage(q, Idle)
-----------------------------------------------------------------------------
(* upsert_by_external_id and refresh_media. *)

(* An id that is linked is answered at once, with its record or "Media is  *)
(* unavailable"; for any other the provider is asked.                      *)
LookUp(q, x) ==
    /\ Begin(q)
    /\ link[x] = NoRecord
    /\ Stage(q, [pc |-> "fetch", id |-> x])

(* With the provider's details: a record with one of the strong ids, else  *)
(* one with the same title and year, else a new one.                       *)
Decide(q) ==
    LET x == req[q].id
        strong == {link[y] : y \in {z \in Strong[x] : Resolves(z)}}
        same == {r \in Active : work[r] = Work[x] /\ Work[x] # NoWork}
        found == IF strong # {} THEN strong ELSE same
    IN /\ req[q].pc = "fetch"
       /\ \/ \E r \in found : Stage(q, [pc |-> "link", id |-> x, to |-> r])
          \/ found = {} /\ Stage(q, [pc |-> "create", id |-> x])

(* Linking ids to a record, which the unique index on ids may refuse. *)
LinkAll(ids, r) ==
    /\ \A y \in ids : link[y] = NoRecord
    /\ link' = [y \in ExternalIds |-> IF y \in ids THEN r ELSE link[y]]
    /\ known' = known \cup ids
    /\ lateIds' = IF media'[r] = "active" THEN lateIds \ ids ELSE lateIds \cup ids
    /\ UNCHANGED <<rows, lateRows>>

CommitLink(q) ==
    /\ req[q].pc = "link"
    /\ UNCHANGED <<media, work>>
    /\ LinkAll({req[q].id}, req[q].to)
    /\ Done(q)

CommitCreate(q) ==
    LET x == req[q].id
    IN /\ req[q].pc = "create"
       /\ \E r \in Records :
            /\ media[r] = "absent"
            /\ \A s \in Records : s < r => media[s] # "absent"
            /\ media' = [media EXCEPT ![r] = "active"]
            /\ work' = [work EXCEPT ![r] = Work[x]]
            /\ LinkAll({x} \cup {y \in Strong[x] : ~Resolves(y)}, r)
       /\ Done(q)

Refresh(q, x) ==
    /\ Begin(q)
    /\ Resolves(x)
    /\ Stage(q, [pc |-> "refresh", id |-> x, to |-> link[x]])

CommitRefresh(q) ==
    /\ req[q].pc = "refresh"
    /\ work' = [work EXCEPT ![req[q].to] = Work[req[q].id]]
    /\ Done(q)
    /\ UNCHANGED <<media, link, rows, known, lateIds, lateRows>>
-----------------------------------------------------------------------------
(* Library entries, reviews and list items. *)

(* A user's removed entry or review is restored; import workers insert a   *)
(* new entry.                                                              *)
AddRow(q, kind, o, r) ==
    LET new == [kind |-> kind, owner |-> o, media |-> r, active |-> TRUE]
        removed == RowsOf(kind, o, r)
    IN /\ Begin(q)
       /\ kind = "item" <=> o \in Lists
       /\ r \in Active
       /\ ActiveRows(kind, o, r) = {}
       /\ \/ \E i \in removed : Stage(q, [pc |-> "restore", id |-> i])
          \/ /\ removed = {} \/ kind = "entry"
             /\ Stage(q, [pc |-> "insert", row |-> new])

(* Writing a row, which the unique indexes may refuse. *)
Write(i, row) ==
    /\ rows' = [rows EXCEPT ![i] = row]
    /\ Unique(rows')
    /\ lateRows' = IF row.media \in Active THEN lateRows \ {i} ELSE lateRows \cup {i}
    /\ UNCHANGED <<media, work, link, known, lateIds>>

InsertRow(q) ==
    /\ req[q].pc = "insert"
    /\ \E i \in RowIds : /\ rows[i] = NoRow
                         /\ \A j \in RowIds : j < i => rows[j] # NoRow
                         /\ Write(i, req[q].row)
    /\ Done(q)

RestoreRow(q) ==
    LET i == req[q].id
    IN /\ req[q].pc = "restore"
       /\ Exists(i)
       /\ Write(i, [rows[i] EXCEPT !.active = TRUE])
       /\ Done(q)

(* Entries and reviews are kept and marked, list items deleted. *)
RemoveRow(i) ==
    /\ Exists(i)
    /\ rows[i].active
    /\ rows[i].kind = "item" \/ rows[i].media \in Active
    /\ rows' = [rows EXCEPT ![i] = IF rows[i].kind = "item" THEN DeletedRow
                                   ELSE [rows[i] EXCEPT !.active = FALSE]]
    /\ UNCHANGED <<media, work, link, req, known, lateIds, lateRows>>
-----------------------------------------------------------------------------
(* merge_media. *)

(* The rows of the source that the merge reads: entries and list items, and *)
(* the reviews that are not removed.                                       *)
ReadByMerge(s) ==
    {i \in RowIds : Exists(i) /\ rows[i].media = s
                    /\ (rows[i].kind = "review" => rows[i].active)}
LinkedTo(s) == {x \in ExternalIds : link[x] = s}

(* Mutants: a removed review of the target counts too; the target is not   *)
(* looked at.                                                              *)
RemovedReviewCounts(i, t) ==
    IF RowsOf(rows[i].kind, rows[i].owner, t) # {} THEN "drop" ELSE "move"
MovesAnyRow(i, t) == "move"

(* A row is dropped when its owner has a row of the target - for entries    *)
(* also a removed one -, else it moves there.                              *)
RowDecision(i, t) ==
    IF \E j \in RowsOf(rows[i].kind, rows[i].owner, t) :
           rows[j].kind = "review" => rows[j].active
    THEN "drop" ELSE "move"

(* An id is dropped when the target has one of the same provider. *)
IdDecision(x, t) ==
    IF \E y \in LinkedTo(t) : Provider[y] = Provider[x] THEN "drop" ELSE "move"

StartMerge(q, s, t) ==
    /\ Begin(q)
    /\ s # t
    /\ {s, t} \subseteq Active
    /\ Stage(q, [pc |-> "merge", source |-> s, target |-> t,
                 rows |-> [i \in ReadByMerge(s) |-> RowDecision(i, t)],
                 ids |-> [x \in LinkedTo(s) |-> IdDecision(x, t)]])

(* Mutants: what is to be dropped is left where it is. *)
LeavesDuplicates(row, decision, t) ==
    IF decision = "move" THEN [row EXCEPT !.media = t] ELSE row
LeavesDuplicateIds(x, decision, t) == IF decision = "move" THEN t ELSE link[x]

(* The UPDATE or DELETE of a row or a link, by its id. *)
MergedRow(row, decision, t) ==
    IF decision = "move" THEN [row EXCEPT !.media = t]
    ELSE IF row.kind = "review" THEN [row EXCEPT !.active = FALSE]
    ELSE DeletedRow
MergedLink(x, decision, t) == IF decision = "move" THEN t ELSE NoRecord

MergedRows(q) ==
    LET plan == req[q].rows
    IN [i \in RowIds |-> IF i \in DOMAIN plan
                         THEN MergedRow(rows[i], plan[i], req[q].target)
                         ELSE rows[i]]

(* What is to be moved is still there, and the unique indexes allow it;     *)
(* else the transaction is rolled back.                                    *)
Fits(q) ==
    /\ \A i \in DOMAIN req[q].rows : req[q].rows[i] = "move" => Exists(i)
    /\ \A x \in DOMAIN req[q].ids : req[q].ids[x] = "move" => link[x] # NoRecord
    /\ Unique(MergedRows(q))

(* History: what is late after a merge into t.  That is what it leaves      *)
(* there, unless it has read it, and what it moves to a target that has     *)
(* been merged itself.                                                     *)
Overtaken(late, left, plan, t) ==
    ((late \cup left) \ DOMAIN plan)
    \cup {z \in DOMAIN plan : plan[z] = "move" /\ t \notin Active}

(* Mutant: the source's row is deleted, not marked. *)
MergeDeletes(q) ==
    /\ req[q].pc = "merge"
    /\ media' = [media EXCEPT ![req[q].source] = "deleted"]
    /\ Done(q)
    /\ UNCHANGED <<work, link, rows, known, lateIds, lateRows>>

CommitMerge(q) ==
    LET s == req[q].source
        t == req[q].target
        ids == req[q].ids
    IN /\ req[q].pc = "merge"
       /\ Fits(q)
       /\ rows' = MergedRows(q)
       /\ link' = [x \in ExternalIds |-> IF x \in DOMAIN ids
                                         THEN MergedLink(x, ids[x], t) ELSE link[x]]
       /\ media' = [media EXCEPT ![s] = "merged"]
       /\ lateIds' = Overtaken(lateIds, LinkedTo(s), ids, t)
       /\ lateRows' = Overtaken(lateRows,
                                {i \in ReadByMerge(s) : rows[i].active}, req[q].rows, t)
       /\ Done(q)
       /\ UNCHANGED <<work, known>>
-----------------------------------------------------------------------------
RequestStep(q) ==
    \/ Fail(q)
    \/ \E x \in Fetched : LookUp(q, x) \/ Refresh(q, x)
    \/ Decide(q) \/ CommitLink(q) \/ CommitCreate(q) \/ CommitRefresh(q)
    \/ \E kind \in Kinds, o \in Users \cup Lists, r \in Records : AddRow(q, kind, o, r)
    \/ InsertRow(q) \/ RestoreRow(q)
    \/ \E s, t \in Records : StartMerge(q, s, t)
    \/ CommitMerge(q)

Next ==
    \/ \E q \in Requests : RequestStep(q)
    \/ \E i \in RowIds : RemoveRow(i)

Spec == Init /\ [][Next]_vars
-----------------------------------------------------------------------------
(* Every record, row and request has its shape. *)
TypeOK ==
    /\ media \in [Records -> {"absent", "active", "merged"}]
    /\ work \in [Records -> {Work[x] : x \in Fetched} \cup {NoWork}]
    /\ link \in [ExternalIds -> Records \cup {NoRecord}]
    /\ rows \in [RowIds -> Row \cup {NoRow, DeletedRow}]
    /\ req \in [Requests -> RequestStates]
    /\ known \subseteq ExternalIds
    /\ lateIds \subseteq ExternalIds
    /\ lateRows \subseteq RowIds

(* An id that is linked leads to a record users can open: else every later *)
(* lookup answers "Media is unavailable" (media_service.py:222), for good. *)
(* Excepted is an id linked to a record after a merge had read the ids of   *)
(* that record, or moved to a record that was merged itself meanwhile      *)
(* (media_service.py:236, admin_service.py:45).                            *)
LinksResolve ==
    \A x \in ExternalIds : link[x] # NoRecord => Resolves(x) \/ x \in lateIds

(* A merge leaves no active row on the record it removes                   *)
(* (admin_service.py:53-132): no query would find it again.  Excepted are   *)
(* rows that a request or another merge has put there after the merge had   *)
(* read the record's rows (library_service.py:58).                         *)
NothingLeftBehind ==
    \A i \in RowIds :
        Exists(i) /\ rows[i].active => rows[i].media \in Active \/ i \in lateRows

(* Whether the merge would decide the same on row i now. *)
Stands(q, i) ==
    IF i \in DOMAIN req[q].rows
    THEN i \in ReadByMerge(req[q].source) /\ req[q].rows[i] = RowDecision(i, req[q].target)
    ELSE i \notin ReadByMerge(req[q].source)

(* A merge is not refused by a unique index unless rows have changed under   *)
(* it (admin_service.py:57-76, 84-106): users' rows never meet on the       *)
(* target, removed and restored ones included.                             *)
MergesFit ==
    \A q \in Requests :
        req[q].pc = "merge" /\ (\A i \in RowIds : Stands(q, i)) => Unique(MergedRows(q))

(* The step merges s away, and it is request q that merges it into t. *)
MergedAway == {s \in Records : media[s] = "active" /\ media'[s] = "merged"}
Merges(q, s, t) ==
    /\ req[q].pc = "merge" /\ req[q].source = s /\ req[q].target = t
    /\ req'[q] = Idle

(* An owner with an active row of a kind for either record has one for the *)
(* target after the merge, unless the owner's rows have changed under it.  *)
MergeKeeps(kind) ==
    \A s \in MergedAway, t \in Records, q \in Requests : Merges(q, s, t) =>
        \A o \in Users \cup Lists :
            /\ \A i \in RowIds : Exists(i) /\ rows[i].owner = o /\ rows[i].kind = kind
                                  => Stands(q, i)
            /\ ActiveRows(kind, o, s) \cup ActiveRows(kind, o, t) # {}
            => ActiveRows(kind, o, t)' # {}

(* No user loses a review in a merge (admin_service.py:80-106), and no list *)
(* a record (admin_service.py:118-132).                                    *)
MergesKeepRows == [][MergeKeeps("review") /\ MergeKeeps("item")]_vars

(* No user loses a library entry in a merge: the target's is preserved,    *)
(* with what is higher in the source's (admin_service.py:65).              *)
MergesKeepEntries == [][MergeKeeps("entry")]_vars

(* A provider's id makes one record: once known, it never makes another    *)
(* ("Same TMDB ID cannot create duplicate media", plan line 1474).         *)
OneRecordPerId ==
    [][\A q \in Requests :
         req[q].pc = "create" /\ req'[q] # req[q] /\ media' # media
         => req[q].id \notin known]_vars
=============================================================================
