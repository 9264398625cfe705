# A verification project for multimedia-library-api

TLA+ models of the parts of the API whose state several processes share, TLC
runs on small instances, and TLAPS proofs for every value of the constants.

## 1. The system

A FastAPI service over PostgreSQL (SQLAlchemy sessions, READ COMMITTED,
`autoflush=False`, no version columns), three worker processes that poll the
same database (imports, backups, seeding), Redis for rate limits, an object
store for images and encrypted dumps, and external metadata providers.
Components interact through database rows only: there are no callbacks or
messages, so what makes the system hard is one pattern: *a session reads rows,
awaits or computes, and commits UPDATEs of the columns it changed, whatever the
rows have become meanwhile*. Row locks (`FOR UPDATE SKIP LOCKED`) are taken only
by the claims; unique indexes are the only other arbiter.

| component | state | operations | what is hard | what makes it correct |
|---|---|---|---|---|
| import jobs (`import_service`, `import_repository`, `import_worker`) | `import_jobs` (status, worker, lease), `import_items`, the user's library | claim, process row by row, resolve, cancel, retry after a crash | leases and takeover, two sessions on one job, crash between two commits, finalising from a stale view, cancel racing a worker | one worker at a time; a row is processed once; a settled job stays settled; outcome agrees with rows; library entries that exist are kept; the job leaves the queue |
| import admission (`create_csv_job`, `import_parser`) | `import_jobs` | upload | look-up, count and insert are three statements | one job per file; the limits hold, nearly |
| backups (`backup_service`, `backup_repository`, `backup_worker`, `admin.trigger_backup`) | `backup_metadata`, the bucket | trigger, claim, dump, upload, record, mail, fail | trigger racing a claim, success committed before the mail that may fail it, lease shorter than a dump | a second active backup only from an outdated look, never a third; a success is in the bucket; each backup gets an outcome unless two active ones get stuck |
| catalog (`media_service`, `media_repository`) | `media`, `media_external_ids` | add by external id, refresh, search | the provider is asked between the look-up and the insert | an id leads to one record that is there |
| merges (`admin_service`) | the above, and every row that refers to a record | merge | rows added while it runs, two merges, what it does with rows of both records | nothing is lost or left behind |
| library (`library_service`) | `user_media_entries` | add, restore, update, remove | soft-deleted rows that come back, check-then-insert | one active row per user and record; dates follow the status |
| lists (`list_service`, `list_repository`) | `lists`, `list_items` | create, add, remove, reorder | positions computed from what was read | the order the user made |
| reviews, comments, follows | `reviews`, `comments`, `user_follows`, `reviews.comment_count` | create, restore, delete, comment, reply, follow | counter read and written back, also over deletion and restoration; visibility decided twice, in SQL and in Python | the count is off by no more than what it missed; both views agree |
| sessions (`auth_service`, `routers/auth`) | users, credentials, `refresh_tokens`, letters | register, login, refresh, logout, verify, reset, change password, ban | concurrent refresh of one token, revocation racing rotation, lost answers | one live token per line of successors; a revocation reaches all; letters are spent together; rotation signs nobody out |
| roles (`routers/admin`) | `admin_level`, `is_banned` | ban, change role | two administrators acting on each other | someone of level 0 remains, unless an overtaken request unseats the last |
| seeding (`seed_service`, `seed_worker`) | `seed_runs`, `seed_items` | process a page | the upsert commits what the session holds; rollback; crash | totals agree with items; a completed page is done |
| profile images (`upload_service`, `upload_repository`) | `uploads`, objects | upload, replace, delete | two stores, no transaction over both | the profile shows an image that is there; nothing leaks |
| rate limits (`core/rate_limit`), provider pacing (`providers/http`) | Redis counters; process-wide clock | check; wait, ask, retry | expiry set in a second call; threads racing for a slot | a window ends and lets through what its limit and failures allow; the rate is kept |
| e-mail, audit, configuration, middleware, schemas, search, presentation | none that others read back | | | |

`PROJECT.json` lists all of these under `components`, with the reason where one
is not modelled, and the places where each is exposed under `hazards`.

## 2. The modules

| module | models | extends / instantiates |
|---|---|---|
| `ClaimQueue` | abstract: what a queue of durable jobs promises | |
| `ImportJobs` | one CSV import job, its workers, API requests and library | refines `ClaimQueue` |
| `BackupJobs` | backup requests and workers | refines `ClaimQueue` |
| `Catalog` | records, external ids, referring rows, merges | |
| `Sessions` | accounts, refresh tokens, letters, cookies | |
| `Roles` | administrators | |
| `Admission` | CSV uploads becoming jobs | |
| `Tracking` | one library entry: status and dates | |
| `MediaLists` | one list and its order | |
| `Discussion` | one review, its comments and readers | |
| `Seeding` | one seed run and its workers | |
| `ProfileImages` | one user's images in two stores | |
| `RateLimiter`, `ProviderPacing` | one key; one provider | |
| `MCImportJobs`, `MCCatalog` | the instances TLC checks | `ImportJobs`, `Catalog` |
| `MCServices` | ten components side by side | the ten from `Sessions` to `ProviderPacing` |
| `ImportJobsProofs`, `BackupJobsProofs`, `CatalogProofs` | theorems | the module they are about, `TLAPS` |
| `AccountsProofs` | theorems | `Sessions`, `Roles` |
| `RequestProofs` | theorems | `RateLimiter`, `Admission`, `ProfileImages` |
| `ProviderProofs` | theorems | `ProviderPacing`, `Seeding` |
| `LibraryProofs` | theorems | `Tracking`, `MediaLists`, `Discussion` |
| `ServicesProofs` | theorems of the composition | `MCServices` and the four above |

Operators that begin with "Mutant:" in their comment are plausible bugs. They
are not part of any specification; substituting one for the definition that
follows it makes the property it is paired with in `PROJECT.json` fail.

### 2.1 ClaimQueue

Jobs are absent, queued, taken or out; a worker takes a queued or abandoned job
nobody runs, stops (leaving it, or taking it out), and anyone may take a job
out. A job that is out never returns. Both worker systems are shown to implement
it with the mapping `phases` / `running(s)`: PENDING is queued, PROCESSING is
taken, all else is out; a worker runs a job from its claim to the commit that
ends its work on it (or its crash).

### 2.2 ImportJobs

The job row is `job`, the rows of the file `item`, the user's active entries
`entry`. A session's pending UPDATE is a record with a value or `Keep` per
column: the operator `Column` computes what SQLAlchemy would write from the
loaded and assigned value, `Updated` applies it at the commit. Claim is the
`SKIP LOCKED` query and its commit; `LoadPending`, `NextItem`, `MatchItem`,
`CommitItem`, `LastPass`, `CommitLast` are the stages of
`process_claimed_job` between two commits; `Raise` and `HandleError` its
exception path; `Resolve`/`CommitResolve` and `Cancel`/`CommitCancel` the two
API requests; `Crash`, `LeaseExpires` and `EditLibrary` the environment.
`RowValue` and `Matches` give what a row says and what matching may yield.

Two over-approximations: a worker that takes a job over from a live one may
count an assignment of the loaded value as a write, and a re-added library
entry is the same row again.

### 2.3 BackupJobs

A backup is named by the request that creates it. `TriggerBackup` looks,
`FailStale` fails a stale backup, `CreateBackup` inserts against the partial
unique index, which compares rows of one status (`With`). Workers run
`ClaimNextBackup`, `StartBackup`, `Upload`, `BackupSuccess`, `Notify`, and on an
exception `Raise`, `BackupFailed`. `stored` is the bucket. `MayStart` starts
requests in the order of their numbers, which stand for `started_at`. Requests
overlap freely; `missed` is history: another request inserted a row after this
one had looked.

### 2.4 Catalog

`media` and `link` are the records and the external ids; `rows` are library
entries, reviews and list items, with an identity of their own, so that an
update by id follows a row that another request has moved; entries and reviews
are soft-deleted, list items removed. A request reads (`LookUp`, `Decide`,
`Refresh`, `AddRow`, `StartMerge`) and later commits what it decided
(`CommitLink`, `CommitCreate`, `CommitRefresh`, `InsertRow`, `RestoreRow`,
`CommitMerge`), or fails and rolls back. The unique indexes are guards of the
commits (`Unique`). A merge is such a request too: autoflush is off, so it
decides on what it read (`RowDecision`, `IdDecision`) and writes by id at its
commit (`MergedRow`, `MergedLink`), whatever came to the source or the target
meanwhile. `known`, `lateIds` and `lateRows` are history: the last two are the
ids and rows whose last write and a merge of their record crossed, until they
are written again to a record that is there.

### 2.5 Sessions, Roles

A request of `Sessions` reads and decides (`Login`, `Refresh`, `VerifyEmail`,
...) and commits later (`CommitLogin`, `CommitRotate`, ...) with the account as
it was loaded. `DecideLogin` and `DecideRefresh` are the code's early returns in
their order; `Revoke` and `Consume` its bulk UPDATEs by condition. A cookie is
what the browser of a device holds: an answer may be lost (`lost`), which leaves
the old token in it. Tokens, letters and locks run out at any time. `condemned`
and `spent` are history: the tokens and letters that existed when a revocation
or a use reached them; so is a token's `branch`: successors follow each other on
one, and a refresh that commits after its token was revoked opens another. `Roles` has the two handlers that change other accounts,
each split into its checks and its commit, starting from what
`scripts/create_admin.py` leaves. `unseated` is history: a request that was
lawful when it was checked has unseated a root after its own actor was unseated.

### 2.6 Admission, Tracking, MediaLists, Discussion

`Admission` keeps the three statements of `create_csv_job` apart
(`CreateCsvJob`, `CountActiveJobs`, `InsertJob`, and `AnswerExistingJob` after
the unique index refused); `ParseCsv` says which files are refused and how many
rows the others have. What becomes of a job is `ImportJobs`'; here it only
moves on. `Tracking` writes the columns a request changed (`Changes`), over
whatever the row has become; `lacking` is history: the dates a client emptied or an import did
not find, until they are set. `MediaLists` computes positions from the rows read
(`NextPosition`, `Normalized`, `Reordered`) and commits them against both unique
indexes (`Accepted`, `Rewritten`); rows under removal are locked, and a removal
and a reorder may deadlock (`Deadlocked`); `overtaken` is history: a reorder was
committed since the request read. `Discussion` has the review, its comments and
the count that a comment request loads, checks and writes back, and both
definitions of who may read (`CanView` in Python, `ReadableBy` in SQL); `missed`
and `unseen` are history: additions and deletions the count may not show.

### 2.7 Seeding, ProfileImages, RateLimiter, ProviderPacing

A worker of `Seeding` reads the run anew in each transaction (`LoadTotals`),
stages totals on what it read, and the upsert of a new record commits them with
the record (`Upsert`); a rollback drops them (`ItemFails`). The flush of a
snapshot locks the run's row (`LocksRun`). Nothing keeps two workers from
retrying one failed run at once; `overtaken` is history: one wrote over what the
other had counted. Records are added by others (`AddedElsewhere`), and ids
deleted by merges (`MergedAway`). A request of `ProfileImages` is the chain put,
stage, commit, check, erase, mark (or unlink, erase, mark), each of which may
fail or be the last before the process dies; `trouble` records that something
went wrong, and lets it happen once. `RateLimiter` separates INCR, EXPIRE and the
decision, each of which may fail: a failure is answered with 503 in production
and staging (`failClosed`) and lets the request pass elsewhere, whatever the
counter says (`AnswersFailure`). `ProviderPacing` hands out slots under its lock
and retries after pauses.

## 3. The runs

| run | instance | checks | result |
|---|---|---|---|
| `import_claims` | 2 workers, 2 requests, 2 rows, 1 title, 1 crash | types, `OneWorker`, `Recoverable`, `OutcomeMatchesItems`, `WorkersKeepEntries`, `RowsProcessedOnce`, `NoRestart`, refinement of `ClaimQueue` | holds |
| `import_progress` | 2 workers, 2 crashes, fair | `JobSettles` | holds |
| `import_late_cancel` | 1 worker, 1 request | `OnlyActiveJobsAreCancelled` | violated: finding |
| `import_lost_cancel` | 1 worker, 1 request | `CancelIsFinal` | violated: finding |
| `import_stuck_conflict` | 1 worker, 2 requests | `AwaitingHasConflict` | violated: finding |
| `backup_jobs` | 2 workers, 3 requests, 1 crash, fair | types, `SecondBackupRaces`, `SuccessIsStored`, refinement of `ClaimQueue`, `BackupsSettle` | holds (292,652 states) |
| `backup_two_active` | 1 worker, 2 overlapping requests | `OneActiveBackup` | violated: finding |
| `catalog` | 2 requests, 3 records, 3 ids of 2 providers, 2 rows, 1 user, 1 list | types, `LinksResolve`, `NothingLeftBehind`, `MergesFit`, `MergesKeepRows` | holds (1,543,449 states) |
| `catalog_second_record` | 1 request | `OneRecordPerId` | violated: finding |
| `catalog_merge_entries` | 1 request | `MergesKeepEntries` | violated: finding |
| `services` | ten components, two overlapping requests, threads or workers each | types, and the 19 properties of section 3.1 | holds |
| `seed_stuck` | 2 workers, 1 result, fair | `RunsEnd` | violated: finding |

The findings, each with the line of a document, comment or message it disagrees
with, are in `PROJECT.json`.

That a lease may run out under a live worker has no run of its own: what holds
then (`Recoverable`, `WorkersKeepEntries`, `NoRestart`) is checked in
`import_claims` and proved without any assumption on leases.

### 3.1 The run `services`

The ten components it checks share no table, so one run chooses one of them for
a whole behaviour (`part` in `MCServices`): its states are the sum of theirs,
not the product, 1,355,108 (the two requests of each part are interchangeable and
bear the same names, so one symmetry serves all). No overlap is left out of it. Where overlaps lose
something, the property says exactly what, by a history variable that records
the stale commit and nothing else:

- `RevocationReachesAll`, `SpentTogether`, `StaysSignedIn` (`Sessions`): a ban, a
  logout from everywhere, a new password or a detected reuse between the read
  and the commit of a refresh; several letters in use at once; answers that never
  arrive. `OneLiveTokenPerBranch`: two refreshes of one token both create a
  successor, and nothing detects it; no other order of requests gives a second
  live token, and each of the two lines has one again.
- `RootRemains` (`Roles`): chains and overlaps of appointments, demotions and
  bans. Two roots that demote each other at once both succeed; only a request
  that overtakes its own actor's or target's change can unseat the last root.
- `OneJobPerFile`, `LimitIsNearlyKept`, `RowsWithinLimit` (`Admission`): the
  limit can be passed by overlapping uploads, and the property says by how much.
- `DatesFollowStatus` (`Tracking`): stale requests, removal and restoration. A
  date is missing only because a client emptied it or an import gave the status
  without it, until somebody sets it.
- `OrderIsKept`, `ReorderIsObeyed` (`MediaLists`): action properties of a commit
  and the rows its request had found. A reorder that succeeds is obeyed beside
  any other request. An addition or a removal keeps the order of what it read,
  except after a reorder: positions worked out before it undo it (for a removal,
  when the row it removes was put on the list after the reorder had read it;
  otherwise one of the two fails).
- `CountFollowsComments`, `ViewsAgree` (`Discussion`): the count is bounded from
  both sides by the additions and deletions it missed - while the review was
  gone, written over by a request that had read it before, or two deletions of
  one comment.
- `SeedTotalsMatch`, `CompletedPageIsDone` (`Seeding`): failed items, rollbacks,
  deaths, three calls that may overlap, records that others add and merges take
  away. The totals are wrong only after a worker wrote over what another had
  counted; a finished page stays done in any case.
- `ProfileIsKept`, `NothingLeaks` (`ProfileImages`).
- `WindowEnds` (`RateLimiter`): in production and staging a window lets through
  at most the limit; elsewhere Redis failures let through one more each.
- `RateIsKept` (`ProviderPacing`).

### 3.2 The run `catalog`

Merges overlap the requests that add ids and rows, and each other. A link or a
row that reaches its record after a merge has read it stays behind on the merged
record; so does what a second merge moves there. `LinksResolve` and
`NothingLeftBehind` say that nothing else does. `MergesFit` and `MergesKeepRows`
are about the rows a merge finds as it read them: it is never refused for them,
and no owner of an active review or list item of either record is left without.
For library entries that is not so (`catalog_merge_entries`).

**Bounds.** `MaxCrashes`, `MaxTriggers`, `MaxRecords` and `MaxRows` bound
counters and tables. Two workers show every race of a claim, a lease and a
commit, for a third can only do what the second does to the first. Two rows that
match one title and disagree give imported, skipped, conflict and failed rows,
and a row left over when another is finished. Three backup requests give a stale one
beside a new one and one more after it. Three records let a merged duplicate be
created a second time and merged again; two ids of one provider and one of
another give both outcomes of a merge for an id; two rows are one on each side
of a merge, of one owner and kind, or one there and one on its way; two requests
are a merge beside an addition or beside another merge.

In `services`, two requests at once show each pair of a read and another's
commit. Three tokens are a session, its successor and another session; two
letters, one used beside the other; four requests reach a reuse after a
rotation. Three images are one replaced by each of two overlapping uploads. Three
list rows give a gap and a row after it, and the orders sent name a medium
twice, one that is not there, and not all. Two comments are one and its reply.
Three accounts give an administrator, one appointed and one appointed by that
one. Files have up to three rows with a limit of two. Three calls and two faults
(`MaxSeedFaults`: failed items, failed pages, deaths) give a seed run that fails
and is retried by two workers at once; one id that a merge deletes
(`MaxMergedIds`) lets a completed record be added again. The clock runs long enough for
retries of both threads. `MaxHits` passes the limit by two.

**Named assumptions.** Two constants restrict the runs, and the theorems that say
so:

- `LeaseOutlastsItem`, `LeaseOutlastsBackup`: a lease only runs out under a dead
  worker. The import lease is renewed at each row and a row is a few provider
  calls with timeouts; the settings validator wants the backup lease longer than
  the maximal runtime (`app/core/config.py`). Nothing enforces either at run time.

No other property or theorem assumes anything on how requests overlap.

**Fairness.** Worker steps are weakly fair: a worker process that is up runs and
polls in a loop (`run_import_worker`, `run_backup_worker`), and time passes, so
leases run out and waiting requests grow old. Crashes are bounded and a crashed
worker is restarted by its supervisor. Errors, user requests and merges are never
obliged to happen. Of the backup workers' claims only that of the oldest
claimable row is fair (`ClaimOldest`): that one worker skips a row because another
is just holding its lock is possible but never promised. Therefore
`BackupsSettle` has an exception (`Stuck`): with two active backups, an older
pending one is refused by the unique index each time it is tried, and the
expired one behind it is never reached. In `seed_stuck` workers go on while they live and keep being
called (`SeedingFairness`), and the run is stuck all the same.

**Deadlock** is checked for imports. It is not for the others: once the bounded
requests are used up, or every id, row and record is taken, nothing more need
happen.

## 4. The proofs

All hold for every value of the constants: any number of workers, requests,
rows, records, ids, users, tokens, images and files, any limits.

| theorem | under | says |
|---|---|---|
| `ImportJobsProofs!TypeCorrect` | | `[]TypeOK` |
| `AlwaysRecoverable` | | `[]Recoverable` |
| `NeverRestarts` | | `NoRestart` |
| `EntriesAreKept` | | `WorkersKeepEntries` |
| `ExclusiveClaims` | `LeaseOutlastsItem` | `[]OneWorker` |
| `RowsAreProcessedOnce` | `LeaseOutlastsItem` | `RowsProcessedOnce` |
| `OutcomesMatchItems` | `LeaseOutlastsItem` | `[]OutcomeMatchesItems` |
| `ImportsAreClaimed` | `LeaseOutlastsItem` | `ImplementsClaimQueue` |
| `BackupJobsProofs!TypeCorrect` | | `[]TypeOK` |
| `SuccessesAreStored` | | `[]SuccessIsStored` |
| `SecondBackupsRace` | | `[]SecondBackupRaces` |
| `BackupsAreClaimed` | `LeaseOutlastsBackup` | `ImplementsClaimQueue` |
| `CatalogProofs!TypeCorrect` | | `[]TypeOK` |
| `IdsResolve` | | `[]LinksResolve` |
| `NothingIsLeftBehind` | | `[]NothingLeftBehind` |
| `MergesAlwaysFit` | | `[]MergesFit` |
| `RowsAreKept` | | `MergesKeepRows` |
| `AccountsProofs!SessionsTypeCorrect` | | `[]SessionsTypeOK` |
| `RevocationsReachAll` | | `[]RevocationReachesAll` |
| `LettersAreSpentTogether` | | `[]SpentTogether` |
| `DevicesStaySignedIn` | | `[]StaysSignedIn` |
| `BranchesHaveOneLiveToken` | | `[]OneLiveTokenPerBranch` |
| `RolesTypeCorrect` | | `[]RolesTypeOK` |
| `RootsRemain` | | `[]RootRemains` |
| `RequestProofs!LimiterTypeCorrect` | | `[]RateLimiterTypeOK` |
| `WindowsEnd` | | `[]WindowEnds` |
| `AdmissionTypeCorrect` | | `[]AdmissionTypeOK` |
| `FilesHaveOneAnswer` | | `[]OneJobPerFile` |
| `RowsAreLimited` | | `[]RowsWithinLimit` |
| `LimitsAreNearlyKept` | | `[]LimitIsNearlyKept` |
| `ProfileImagesTypeCorrect` | | `[]ProfileImagesTypeOK` |
| `ProfilesAreKept` | | `[]ProfileIsKept` |
| `NothingIsLeaked` | | `[]NothingLeaks` |
| `ProviderProofs!PacingTypeCorrect` | | `[]ProviderPacingTypeOK` |
| `RateIsAlwaysKept` | | `[]RateIsKept` |
| `SeedingTypeCorrect` | | `[]SeedingTypeOK` |
| `TotalsMatch` | | `[]SeedTotalsMatch` |
| `CompletedPagesAreDone` | | `[]CompletedPageIsDone` |
| `LibraryProofs!TrackingTypeCorrect` | | `[]TrackingTypeOK` |
| `DatesAlwaysFollow` | | `[]DatesFollowStatus` |
| `MediaListsTypeCorrect` | | `[]MediaListsTypeOK` |
| `OrderIsAlwaysKept` | | `OrderIsKept` |
| `ReordersAreObeyed` | | `ReorderIsObeyed` |
| `DiscussionTypeCorrect` | | `[]DiscussionTypeOK` |
| `CountFollows` | | `[]CountFollowsComments` |
| `ViewsAlwaysAgree` | | `[]ViewsAgree` |
| `ServicesProofs!ServicesAreComponents` | | the composition implements each component |
| `ServicesTypeCorrect` | | `[]ServicesTypeOK` |
| `ServicesKeepTheirPromises` | | the 19 other properties of `services` |

The only other assumptions are the named ones on the constants
(`ConstantsAssumption`, `BackupAssumption`, `CatalogAssumption`,
`SessionsAssumption`, ...), which TLC evaluates on each run.

**Imports.** Invariants build on each other. Types; then *RecoverInv*: a staged
UPDATE that leaves a job PROCESSING leaves its worker and lease too, which is
what a stale commit could break; then, when a lease outlasts a row,
*ExclusiveInv*: whoever is engaged is the worker the row names and its lease is
live, so that no claim is enabled; then *OnceInv*: what a worker believes to be
PENDING is PENDING or was taken by a resolution; then *OutcomeInv*: the status a
session has staged fits the rows as its own commit will leave them, because from
then on rows only become SKIPPED or IMPORTED. The refinement maps every action
to a step of `ClaimQueue` or a stutter.

**Backups.** *StoredInv*: a worker that is past its upload, and a row that is a
success, have their dump in the bucket. *ClaimInv*: a worker that runs a backup
holds its live lease; and a request only creates its own row. *ActiveInv*: a
request that has missed no insert since it looked has seen no active backup, or
fails the only one, and nothing but an insert makes a backup active; and the
index leaves each of the two active statuses one row (*PerStatus*), so that there
is never a third.

**Catalog.** *ResolveInv*: every write decides anew whether its id or row is
late, and a merge takes from its record all that it has read, so both properties
are inductive once merges are known to be of two different records (*TwoRecords*).
A merge whose decision on a row still stands moves it to a target where its owner
has none, or drops it for one that is there; so it keeps reviews and list items.
`MergesFit` needs the unique indexes as an invariant as well (*UniqueInv*): rows
that would be alike on the target are then one row.

**Sessions.** *SessionInv* has two sides that no operation couples. On the
tokens' side, a token is held by one device at most, a request that rotates a
token answers the device that holds it, and had read it as not revoked. Its
successor goes on the token's branch if that is still so, in place of the token,
and opens a branch otherwise. The letters' side needs no strengthening but types.
The operations are reduced to the few effects they have on either side, each
shown to keep it.

**Roles.** *RolesInv*: requests are about somebody else than who asked and were
lawful when they were checked (*AskedLawfully*); one that unseats a root while
its actor is a root leaves that actor, and any other is recorded.

**RateLimiter.** *CountsAreShared*: the requests allowed by their count and those
that still will be have different counts of the window, at most `Limit` of them;
the other requests it let through are its failures outside production and
staging, and no request is counted twice.

**Admission.** *LimitInv* counts the active jobs together with the uploads that
have passed the limit and are yet to insert; a file has one job, and an answer
names the job of its file.

**ProfileImages.** *ImagesInv*: no two uploads have the same key and no row has it
before its commit; an image about to be erased, or whose row is about to be
marked, is not active and never will be again (*CallInv*); and an object in the
store without an active row has a request in charge of it, until something goes
wrong (*Charged*).

**ProviderPacing.** *PacingInv*: the slots held are an interval apart and at
least an interval before the next (*SlotsApart*, *SlotsBefore*), and the future
has no gaps: each slot that lies between the clock and the next one to be handed
out is held by a waiting thread (*NoSlotEmpty*). A slot k intervals ahead of the
clock therefore needs k different threads, which bounds the backlog by the number
of threads (*NoBacklog*); this is why the set of threads has to be finite, as
the pool of a process is.

**Seeding.** Each step is first reduced to what it does to the worker that takes
it. *SeedCounts* relates the totals of the run to its items and to those whose
upsert has committed the count of an item that is not yet marked (*InHand*), and
is inductive as long as no worker writes on totals another has changed since:
the step that does sets `overtaken`. *PageKept* needs no such exception: what a
worker has worked through of its page is completed or failed, whoever does what
to the run, for an item never goes back to pending.

**Tracking.** *DatesInv* says, of a request under way, that a status it will
write comes with a date that it will write, that the row already has, or that is
accounted for in `lacking` (*WritesDates*); no step of another request takes a
date away unaccounted (*DatesGrow*), so this survives what others write first.

**MediaLists.** The types need nothing on overlaps. The order needs *ListInv*: a
row that is being removed is locked, so no two requests remove it
(*RowsLocked*); of two removals under way, one read the row of the other
(*OneSawOther*), so whichever commits second either fails, for it would renumber
a row that is gone, or read no more than what the first kept in order; rows that
were read by a request no reorder has overtaken are still in the order they were
read in (*ReadsAgree*); but for reorders positions only shrink, so the one an
addition chose stays behind all it read (*PlacesAhead*). A reorder needs none of
this: it writes every row it read, and fails if one is gone. That a renumbering
moves rows only towards the front is a fact about ranks in a finite set
(*RanksAreBehind*), and that `MAX` and the last mention of a medium exist comes
from the well-founded order of finite sets (*FiniteHasGreatest*).

**Discussion.** *ReadsAreBehind*: the count a request has read differs from the
row's by no more than the additions and deletions committed since, which it
carries along; so what it writes back misses at most those. `ViewsAgree` follows
from the two definitions, whatever the state.

**The composition.** Each step of `MCServices` is a step of one component that
leaves the variables of the others (*StepsProject*), so the composition
implements each component's specification, and the theorems about the components
hold of it: the type invariant and the 19 other properties of the run.

All the safety properties that the passing runs check are stated by theorems.
The longest inductive invariant, *ListInv*, was also checked with TLC, with two
overlapping requests and four rows.

**Only model-checked.** The liveness properties `JobSettles` and `BackupsSettle`,
which are out of the prover's reach, as is everything under fairness; and the
violations, which are counterexamples on an instance.

## 5. Not modelled

- Provider field mapping (`providers/tmdb.py` and its siblings), search,
  presentation and schemas: functions of their input that keep no state.
- `restore_backup` and `run_restore`, an operator's script on a stopped system,
  and the nightly schedule, which is one more requester of backups.
- E-mail (sending succeeds or fails), profile texts and listings of accounts,
  audit records, request context, middleware, logging and settings.
- Text handling: CSV cells, title normalisation, image decoding, encryption,
  password hashing and JWTs.
- In what is modelled: progress counters and match payloads of imports; rating,
  progress, notes and the favourite flag of entries; texts of reviews, comments
  and lists; comments on lists and media, which keep no count; images, genres,
  titles and `duplicate_candidates` of records.

The behaviour of Redis, the object store, the mail service and the providers is
taken from how the code uses them: a call succeeds, fails, or its process dies.

## 6. Plan

1. Composition: `Admission` with `ImportJobs` through the created job, and
   `Seeding` with `Catalog` through the upsert, in place of the views each has
   of the other now.
2. What a merge does to the values of the entries it unites, and to list
   positions (`MediaLists` over `Catalog`'s items).
3. Proofs of what remains true of imports and backups when a lease ends under a
   live worker, beyond the theorems that need no assumption on leases.
