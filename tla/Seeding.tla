------------------------------ MODULE Seeding ------------------------------
(***************************************************************************)
(* One seed run (a provider, a media type, a kind and a cursor) and the      *)
(* workers that process its page: SeedService.process_page and               *)
(* SeedRepository.                                                           *)
(*                                                                           *)
(* A worker's session commits several times on the way, and the upsert of a  *)
(* record commits what the session holds for the run and the item as well.   *)
(* What is not committed yet is kept in the worker and is lost when it rolls *)
(* back or dies.  A worker adds to the totals as its session read them.      *)
(***************************************************************************)
EXTENDS Naturals, FiniteSets

CONSTANTS
    Seeders,         \* worker processes
    Results,         \* the external ids a page may hold
    MaxSeedCalls,    \* calls of process_page (bound)
    MaxSeedFaults,   \* failed items, failed pages and workers that die (bound)
    MaxMergedIds     \* external ids that merges delete (bound)

ASSUME SeedingAssumption ==
    /\ MaxSeedCalls \in Nat
    /\ MaxSeedFaults \in Nat
    /\ MaxMergedIds \in Nat

VARIABLES
    seedRun,      \* the row of seed_runs
    seedItems,    \* the rows of seed_items by external id
    inCatalog,    \* the external ids that have a record in the catalog
    seeders,      \* where each worker is, and what its session holds
    seedCalls,    \* how often process_page was called
    seedFaults,   \* how many items and pages failed and workers died
    mergedIds,    \* how many external ids merges have deleted
    finished,     \* history: the results of the pages that were worked through
    overtaken     \* history: a worker wrote over what another one had counted

seedVars == <<seedRun, seedItems, inCatalog, seeders, seedCalls, seedFaults,
              mergedIds, finished, overtaken>>

Totals == [seen: Nat, inserted: Nat, updated: Nat, failed: Nat]

\* A run that was created but not yet started is never committed.
SeedRunStatuses == {"absent", "RUNNING", "COMPLETED", "FAILED"}
SeedItemStatuses == {"absent", "PENDING", "COMPLETED", "FAILED"}

NoTotals == [seen |-> 0, inserted |-> 0, updated |-> 0, failed |-> 0]

Stages == {"idle", "start", "fetch", "next", "upsert", "mark", "failed", "abort"}

\* page: its results; todo: those not yet looked at, the current one included;
\* created: the run was not there; existed: the record was in the catalog
\* before; stored: the upsert committed; read: the session holds the run as it
\* read it, with the totals in copy, and the status of a failed item in was.
Seeder == [at: Stages, page: SUBSET Results, todo: SUBSET Results, item: SUBSET Results,
           created: BOOLEAN, existed: BOOLEAN, stored: BOOLEAN, read: BOOLEAN,
           copy: Totals, was: SeedItemStatuses]

Idle == [at |-> "idle", page |-> {}, todo |-> {}, item |-> {},
         created |-> FALSE, existed |-> FALSE, stored |-> FALSE, read |-> FALSE,
         copy |-> NoTotals, was |-> "absent"]

SeedingTypeOK ==
    /\ seedRun \in [status: SeedRunStatuses, totals: Totals]
    /\ seedItems \in [Results -> SeedItemStatuses]
    /\ inCatalog \subseteq Results
    /\ seeders \in [Seeders -> Seeder]
    /\ seedCalls \in 0 .. MaxSeedCalls
    /\ seedFaults \in 0 .. MaxSeedFaults
    /\ mergedIds \in 0 .. MaxMergedIds
    /\ finished \subseteq Results
    /\ overtaken \in BOOLEAN

-----------------------------------------------------------------------------

\* The snapshot of a result flushes its count: the row of the run is locked
\* until the transaction ends, and others that write to it wait.
LocksRun(w) == \/ seeders[w].at = "upsert"
               \/ seeders[w].at = "mark" /\ ~seeders[w].stored

Unlocked(w) == \A v \in Seeders \ {w} : ~LocksRun(v)

Becomes(w, seeder) == seeders' = [seeders EXCEPT ![w] = seeder]

Fault == seedFaults < MaxSeedFaults /\ seedFaults' = seedFaults + 1

\* After a commit or a rollback the session reads the run anew.
Anew(w, stage) == [seeders[w] EXCEPT !.at = stage, !.read = FALSE, !.stored = FALSE,
                                     !.copy = NoTotals, !.was = "absent"]

\* The run is looked up; one that is running or done is returned as it is.
LookUpRun(w) ==
    /\ seeders[w].at = "idle"
    /\ seedCalls < MaxSeedCalls
    /\ seedRun.status \in {"absent", "FAILED"}
    /\ seedCalls' = seedCalls + 1
    /\ Becomes(w, [Idle EXCEPT !.at = "start", !.created = seedRun.status = "absent"])
    /\ UNCHANGED <<seedRun, seedItems, inCatalog, seedFaults, mergedIds,
                   finished, overtaken>>

\* The unique key lets one worker create the run: another one finds what the
\* first made of it.  A failed run has no such guard, and RUNNING is written
\* over what another worker made of it meanwhile.
StartRun(w) ==
    /\ seeders[w].at = "start"
    /\ \/ /\ seeders[w].created => seedRun.status = "absent"
          /\ Unlocked(w)
          /\ seedRun' = [seedRun EXCEPT !.status = "RUNNING"]
          /\ Becomes(w, [Idle EXCEPT !.at = "fetch"])
       \/ /\ seeders[w].created /\ seedRun.status = "FAILED"
          /\ Becomes(w, [seeders[w] EXCEPT !.created = FALSE])
          /\ UNCHANGED seedRun
       \/ /\ seeders[w].created /\ seedRun.status \in {"RUNNING", "COMPLETED"}
          /\ Becomes(w, Idle)
          /\ UNCHANGED seedRun
    /\ UNCHANGED <<seedItems, inCatalog, seedCalls, seedFaults, mergedIds,
                   finished, overtaken>>

\* The provider answers with a page.
FetchPage(w) ==
    /\ seeders[w].at = "fetch"
    /\ \E page \in SUBSET Results :
           Becomes(w, [seeders[w] EXCEPT !.at = "next", !.page = page, !.todo = page])
    /\ UNCHANGED <<seedRun, seedItems, inCatalog, seedCalls, seedFaults,
                   mergedIds, finished, overtaken>>

\* The provider or a statement outside of an item's own try fails.
Breaks(w) ==
    /\ seeders[w].at \in {"fetch", "next", "failed"}
    /\ Fault
    /\ Becomes(w, [Idle EXCEPT !.at = "abort"])
    /\ UNCHANGED <<seedRun, seedItems, inCatalog, seedCalls, mergedIds,
                   finished, overtaken>>

\* The first use of the run in a transaction reads it: the id of the run for the
\* next item, or the totals once more after the upsert has committed.  After a
\* rollback the failed item is read as well.
LoadTotals(w) ==
    /\ ~seeders[w].read
    /\ \/ seeders[w].at = "next" /\ seeders[w].todo # {}
       \/ seeders[w].at \in {"mark", "failed"}
    /\ \E status \in SeedItemStatuses :
         /\ IF seeders[w].at = "failed" THEN \E i \in seeders[w].item : status = seedItems[i]
                                        ELSE status = "absent"
         /\ Becomes(w, [seeders[w] EXCEPT !.read = TRUE, !.copy = seedRun.totals,
                                          !.was = status])
    /\ UNCHANGED <<seedRun, seedItems, inCatalog, seedCalls, seedFaults,
                   mergedIds, finished, overtaken>>

\* Completed items are passed over.
PassOver(w) ==
    \E i \in seeders[w].todo :
        /\ seeders[w].at = "next" /\ seeders[w].read
        /\ seedItems[i] = "COMPLETED"
        /\ Becomes(w, [seeders[w] EXCEPT !.todo = @ \ {i}])
        /\ UNCHANGED <<seedRun, seedItems, inCatalog, seedCalls, seedFaults,
                       mergedIds, finished, overtaken>>

\* Another one is counted as seen, one more than was read, in a transaction still
\* open, and the worker notes whether its record is there.
NextResult(w) ==
    \E i \in seeders[w].todo :
        /\ seeders[w].at = "next" /\ seeders[w].read
        /\ seedItems[i] # "COMPLETED"
        /\ Unlocked(w)
        /\ Becomes(w, [seeders[w] EXCEPT !.at = "upsert", !.item = {i},
                                         !.existed = i \in inCatalog])
        /\ UNCHANGED <<seedRun, seedItems, inCatalog, seedCalls, seedFaults,
                       mergedIds, finished, overtaken>>

\* Another worker has counted something since this one read the totals, or has
\* completed the item since this one looked at it.
Overtaken(w) ==
    \/ seeders[w].copy # seedRun.totals
    \/ \E i \in seeders[w].item : seedItems[i] = "COMPLETED"

\* A record that is there is returned without a commit.  A new one is committed
\* and with it the item and what was counted.  Or the upsert fails.
Upsert(w) ==
    /\ seeders[w].at = "upsert"
    /\ \E i \in seeders[w].item :
         \/ /\ i \in inCatalog
            /\ Becomes(w, [seeders[w] EXCEPT !.at = "mark"])
            /\ UNCHANGED <<seedRun, seedItems, inCatalog, overtaken>>
         \/ /\ i \notin inCatalog
            /\ inCatalog' = inCatalog \cup {i}
            /\ seedItems' = [seedItems EXCEPT ![i] = IF @ = "absent" THEN "PENDING" ELSE @]
            /\ seedRun' = [seedRun EXCEPT !.totals.seen = seeders[w].copy.seen + 1]
            /\ overtaken' = (overtaken \/ Overtaken(w))
            /\ Becomes(w, [Anew(w, "mark") EXCEPT !.stored = TRUE])
    /\ UNCHANGED <<seedCalls, seedFaults, mergedIds, finished>>

\* The upsert or the commit of an item fails, and its transaction is rolled back.
ItemFails(w) ==
    /\ seeders[w].at \in {"upsert", "mark"}
    /\ Fault
    /\ Becomes(w, [Anew(w, "failed") EXCEPT !.existed = FALSE])
    /\ UNCHANGED <<seedRun, seedItems, inCatalog, seedCalls, mergedIds,
                   finished, overtaken>>

\* Mutant: what was counted as seen is forgotten.
CountedUnseen(w) ==
    IF seeders[w].existed
    THEN [seedRun.totals EXCEPT !.updated = seeders[w].copy.updated + 1]
    ELSE [seedRun.totals EXCEPT !.inserted = seeders[w].copy.inserted + 1]

\* What the mark writes: the columns that the session has counted up.
Counted(w) ==
    LET c == seeders[w].copy
        seen == IF seeders[w].stored THEN seedRun.totals.seen ELSE c.seen + 1 IN
    IF seeders[w].existed
    THEN [seedRun.totals EXCEPT !.seen = seen, !.updated = c.updated + 1]
    ELSE [seedRun.totals EXCEPT !.seen = seen, !.inserted = c.inserted + 1]

NextItem(w) == [Anew(w, "next") EXCEPT !.todo = @ \ seeders[w].item,
                                       !.item = {}, !.existed = FALSE]

MarkCompleted(w) ==
    /\ seeders[w].at = "mark" /\ seeders[w].read
    /\ Unlocked(w)
    /\ \E i \in seeders[w].item : seedItems' = [seedItems EXCEPT ![i] = "COMPLETED"]
    /\ seedRun' = [seedRun EXCEPT !.totals = Counted(w)]
    /\ overtaken' = (overtaken \/ Overtaken(w))
    /\ Becomes(w, NextItem(w))
    /\ UNCHANGED <<inCatalog, seedCalls, seedFaults, mergedIds, finished>>

\* After the rollback the item is marked as failed, unless it was before, and
\* the worker goes on.
RecordFailure(w) ==
    /\ seeders[w].at = "failed" /\ seeders[w].read
    /\ Unlocked(w)
    /\ \E i \in seeders[w].item :
           seedItems' = [seedItems EXCEPT
                            ![i] = IF seeders[w].was = "FAILED" THEN @ ELSE "FAILED"]
    /\ seedRun' = [seedRun EXCEPT !.totals.failed = seeders[w].copy.failed + 1]
    /\ overtaken' = (overtaken \/ Overtaken(w))
    /\ Becomes(w, NextItem(w))
    /\ UNCHANGED <<inCatalog, seedCalls, seedFaults, mergedIds, finished>>

\* Mutant: the run is completed before the rest of the page.
FinishRunEarly(w) ==
    /\ seeders[w].at = "next"
    /\ Unlocked(w)
    /\ seedRun' = [seedRun EXCEPT !.status = "COMPLETED"]
    /\ finished' = finished \cup seeders[w].page
    /\ Becomes(w, Idle)
    /\ UNCHANGED <<seedItems, inCatalog, seedCalls, seedFaults, mergedIds, overtaken>>

FinishRun(w) ==
    /\ seeders[w].at = "next"
    /\ seeders[w].todo = {}
    /\ Unlocked(w)
    /\ seedRun' = [seedRun EXCEPT !.status = "COMPLETED"]
    /\ finished' = finished \cup seeders[w].page
    /\ Becomes(w, Idle)
    /\ UNCHANGED <<seedItems, inCatalog, seedCalls, seedFaults, mergedIds, overtaken>>

FailRun(w) ==
    /\ seeders[w].at = "abort"
    /\ Unlocked(w)
    /\ seedRun' = [seedRun EXCEPT !.status = "FAILED"]
    /\ Becomes(w, Idle)
    /\ UNCHANGED <<seedItems, inCatalog, seedCalls, seedFaults, mergedIds,
                   finished, overtaken>>

\* The process dies: what it had not committed is gone.
SeederDies(w) ==
    /\ seeders[w].at # "idle"
    /\ Fault
    /\ Becomes(w, Idle)
    /\ UNCHANGED <<seedRun, seedItems, inCatalog, seedCalls, mergedIds,
                   finished, overtaken>>

\* A user's request adds the record meanwhile.
AddedElsewhere(i) ==
    /\ i \notin inCatalog
    /\ inCatalog' = inCatalog \cup {i}
    /\ UNCHANGED <<seedRun, seedItems, seeders, seedCalls, seedFaults,
                   mergedIds, finished, overtaken>>

\* A merge of two records deletes the external id of one.
MergedAway(i) ==
    /\ i \in inCatalog
    /\ mergedIds < MaxMergedIds
    /\ mergedIds' = mergedIds + 1
    /\ inCatalog' = inCatalog \ {i}
    /\ UNCHANGED <<seedRun, seedItems, seeders, seedCalls, seedFaults,
                   finished, overtaken>>

SeedingInit ==
    /\ seedRun = [status |-> "absent", totals |-> NoTotals]
    /\ seedItems = [i \in Results |-> "absent"]
    /\ inCatalog = {}
    /\ seeders = [w \in Seeders |-> Idle]
    /\ seedCalls = 0
    /\ seedFaults = 0
    /\ mergedIds = 0
    /\ finished = {}
    /\ overtaken = FALSE

SeederStep(w) ==
    \/ StartRun(w) \/ FetchPage(w) \/ Breaks(w) \/ LoadTotals(w) \/ PassOver(w)
    \/ NextResult(w) \/ Upsert(w) \/ ItemFails(w) \/ MarkCompleted(w)
    \/ RecordFailure(w) \/ FinishRun(w) \/ FailRun(w)

SeedingNext ==
    \/ \E w \in Seeders : LookUpRun(w) \/ SeederStep(w) \/ SeederDies(w)
    \/ \E i \in Results : AddedElsewhere(i) \/ MergedAway(i)

SeedingSpec == SeedingInit /\ [][SeedingNext]_seedVars

\* A living worker goes on, and a run that may be taken is called for again.
SeedingFairness == \A w \in Seeders : /\ WF_seedVars(SeederStep(w))
                                      /\ WF_seedVars(LookUpRun(w))

FairSeedingSpec == SeedingSpec /\ SeedingFairness

-----------------------------------------------------------------------------

WithStatus(s) == {i \in Results : seedItems[i] = s}

\* Failed items, rolled back transactions, deaths, repeated and overlapping calls
\* leave the totals of the run in agreement with its items: each completed item
\* was counted once, as inserted or as updated, and was counted as seen.  The one
\* thing that breaks it is a worker that writes over what another one counted
\* since it read the run, as two retries of a failed run may.
SeedTotalsMatch ==
    LET n == Cardinality(WithStatus("COMPLETED")) IN
    \/ overtaken
    \/ /\ seedRun.totals.inserted + seedRun.totals.updated = n
       /\ seedRun.totals.seen >= n
       /\ seedRun.totals.failed >= Cardinality(WithStatus("FAILED"))

\* A page that was worked through to its end has each of its results completed or
\* recorded as failed, and no later retry, failure, death or other worker undoes it.
CompletedPageIsDone == finished \subseteq WithStatus("COMPLETED") \cup WithStatus("FAILED")

\* A run that was started comes to an end, as the plan's rules for seed jobs
\* (retryable, interruptible, safe to resume) want it.
RunsEnd == seedRun.status = "RUNNING" ~> seedRun.status \in {"COMPLETED", "FAILED"}

=============================================================================
