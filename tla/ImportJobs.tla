----------------------------- MODULE ImportJobs -----------------------------
(***************************************************************************)
(* One durable CSV import job: the import workers that claim and process   *)
(* it, the API requests that resolve its conflicts or cancel it, and the   *)
(* importing user's library.                                               *)
(*                                                                         *)
(* Every actor works in a database session of its own (READ COMMITTED,     *)
(* autoflush off, no version column).  A session reads rows, computes in   *)
(* memory, and its commit UPDATEs only the columns it changed, whatever    *)
(* the rows have become meanwhile.  So an operation is split where another *)
(* session's commit can fall between its read and its own commit: one      *)
(* action reads and stages, the next one commits what was staged.          *)
(***************************************************************************)
EXTENDS Naturals

CONSTANTS
    Workers,          \* import worker processes
    Requests,         \* concurrent API requests of the job's owner
    Items,            \* row numbers of the parsed file
    Media,            \* media records a row can be matched with
    Values,           \* tracking data (status and rating) of a library entry
    NoWorker,         \* worker_id IS NULL
    NoEntry,          \* no active library entry of the user for a media
    RowValue,         \* RowValue[i]: the tracking data in row i
    Matches,          \* Matches[i]: what matching row i can yield
    MaxCrashes,       \* bound on worker crashes
    LeaseOutlastsItem \* TRUE: no item takes longer than the worker lease

JobStatuses == {"PENDING", "PROCESSING", "AWAITING_RESOLUTION",
                "COMPLETED", "FAILED", "CANCELLED"}
ItemStatuses == {"PENDING", "MATCHED", "CONFLICT",
                 "IMPORTED", "SKIPPED", "FAILED"}
Active == {"PENDING", "PROCESSING", "AWAITING_RESOLUTION"}
Leases == {"none", "live", "expired"}   \* lease_expires_at: NULL, future, past
Keep == "keep"                          \* a column an UPDATE leaves alone
NoMatch == "no match"
Ambiguous == "ambiguous"

ASSUME ConstantsAssumption ==
    /\ Items \subseteq Nat
    /\ NoWorker \notin Workers
    /\ Keep \notin Workers \cup {NoWorker}
    /\ NoEntry \notin Values
    /\ RowValue \in [Items -> Values]
    /\ Matches \in [Items -> SUBSET (Media \cup {NoMatch, Ambiguous})]
    /\ MaxCrashes \in Nat
    /\ LeaseOutlastsItem \in BOOLEAN

VARIABLES
    job,      \* the import_jobs row: status, worker_id, lease_expires_at
    item,     \* status of each import_items row
    entry,    \* the user's active library entry for each media
    wk,       \* each worker's progress and session
    rq,       \* each API request's progress and session
    crashes   \* worker crashes so far

vars == <<job, item, entry, wk, rq, crashes>>
-----------------------------------------------------------------------------
(* A pending UPDATE of the job row: a value per column, Keep for a column  *)
(* the session did not change.                                             *)
JobUpdates == [status : JobStatuses \cup {Keep},
               worker : Workers \cup {NoWorker, Keep},
               lease : Leases \cup {Keep}]
NoChange == [status |-> Keep, worker |-> Keep, lease |-> Keep]

Column(old, new) == IF new = old THEN Keep ELSE new
Written(old, upd) == IF upd = Keep THEN old ELSE upd
Updated(row, upd) == [status |-> Written(row.status, upd.status),
                      worker |-> Written(row.worker, upd.worker),
                      lease |-> Written(row.lease, upd.lease)]

(* The job's columns are expired (not loaded) in the session: whatever is  *)
(* assigned to them is written.                                            *)
Expired == [status |-> "expired", worker |-> "expired", lease |-> "expired"]

(* set_job_status with a terminal status: the claim is cleared too. *)
Terminal(loaded, status) == [status |-> Column(loaded.status, status),
                             worker |-> Column(loaded.worker, NoWorker),
                             lease |-> Column(loaded.lease, "none")]

Unresolved(view) == \E i \in Items : view[i] = "CONFLICT"
Remaining(view) == \E i \in Items : view[i] \in {"PENDING", "MATCHED"}

(* Mutant: conflicts are reported while rows are still waiting. *)
FinalizeEarly(view, loaded) ==
    IF Unresolved(view)
    THEN [NoChange EXCEPT
            !.status = Column(loaded.status, "AWAITING_RESOLUTION")]
    ELSE IF Remaining(view) THEN NoChange
    ELSE Terminal(loaded, "COMPLETED")

(* What _refresh_progress_and_finalize stages, given the items as the      *)
(* session sees them and the job's columns as the session loaded them.     *)
Finalize(view, loaded) ==
    IF Remaining(view) THEN NoChange
    ELSE IF Unresolved(view)
         THEN [NoChange EXCEPT
                 !.status = Column(loaded.status, "AWAITING_RESOLUTION")]
         ELSE Terminal(loaded, "COMPLETED")

(* Mutant: the renewal writes the status it has tested, too. *)
RenewWholeRow(upd, loaded, w) ==
    IF /\ Written(loaded.status, upd.status) = "PROCESSING"
       /\ Written(loaded.worker, upd.worker) = w
    THEN [upd EXCEPT !.status = "PROCESSING", !.lease = "live"]
    ELSE upd

(* renew_lease tests the job in memory, staged assignments included. *)
Renew(upd, loaded, w) ==
    IF /\ Written(loaded.status, upd.status) = "PROCESSING"
       /\ Written(loaded.worker, upd.worker) = w
    THEN [upd EXCEPT !.lease = "live"]
    ELSE upd

(* release_claim after Finalize on an expired job: worker_id is read from  *)
(* the row unless Finalize has just assigned it.                           *)
Release(upd, row, w) ==
    IF upd.worker = Keep /\ row.worker = w
    THEN [upd EXCEPT !.worker = NoWorker, !.lease = "none"]
    ELSE upd

(* Mutant: a row with the data the library has already is left as it is. *)
AppliedWithoutSkip(m, value, overwrite) ==
    IF entry[m] = value THEN Keep
    ELSE IF entry[m] # NoEntry /\ ~overwrite THEN "CONFLICT"
    ELSE "IMPORTED"

(* The status _apply_item gives an item matched with media m: same data is *)
(* skipped, other data is a conflict unless the user chose to overwrite.   *)
Applied(m, value, overwrite) ==
    IF entry[m] = value THEN "SKIPPED"
    ELSE IF entry[m] # NoEntry /\ ~overwrite THEN "CONFLICT"
    ELSE "IMPORTED"
-----------------------------------------------------------------------------
NoMedia == "no media"
Idle == [pc |-> "idle", todo |-> {}, row |-> 0, cached |-> {},
         put |-> Keep, media |-> NoMedia, upd |-> NoChange]
WorkerPcs == {"idle", "claimed", "loop", "match", "item",
              "release", "error", "failed"}
NoRequest == [pc |-> "idle", item |-> 0, put |-> Keep, media |-> NoMedia,
              value |-> NoEntry, insert |-> FALSE, upd |-> NoChange]

Init ==
    /\ job = [status |-> "PENDING", worker |-> NoWorker, lease |-> "none"]
    /\ item = [i \in Items |-> "PENDING"]
    /\ entry \in [Media -> Values \cup {NoEntry}]
    /\ wk = [w \in Workers |-> Idle]
    /\ rq = [r \in Requests |-> NoRequest]
    /\ crashes = 0
-----------------------------------------------------------------------------
(* The worker process. *)

(* Mutant: a job is claimable while another worker's lease is running. *)
ClaimableAnyLease == job.status \in {"PENDING", "PROCESSING"}

(* Mutant: the jobs of crashed workers are not claimed again. *)
ClaimableOnce == job.status = "PENDING"

Claimable == \/ job.status = "PENDING"
             \/ job.status = "PROCESSING" /\ job.lease = "expired"

(* SELECT ... FOR UPDATE SKIP LOCKED, then the claim, in one transaction:  *)
(* the row lock makes it atomic.                                           *)
Claim(w) ==
    /\ wk[w].pc = "idle"
    /\ Claimable
    /\ job' = [status |-> "PROCESSING", worker |-> w, lease |-> "live"]
    /\ wk' = [wk EXCEPT ![w].pc = "claimed"]
    /\ UNCHANGED <<item, entry, rq, crashes>>

Owns(w) == job.status = "PROCESSING" /\ job.worker = w

(* Mutant: every row without a final outcome is taken up again. *)
LoadUnfinished(w) ==
    /\ wk[w].pc = "claimed"
    /\ wk' = [wk EXCEPT ![w] =
                 IF Owns(w)
                 THEN LET rows == {i \in Items :
                                     item[i] \in {"PENDING", "CONFLICT"}}
                      IN [Idle EXCEPT !.pc = "loop", !.todo = rows,
                                      !.cached = rows]
                 ELSE Idle]
    /\ UNCHANGED <<job, item, entry, rq, crashes>>

(* process_claimed_job up to the loop: check the claim, read the PENDING   *)
(* items.  Until the first commit they stay loaded in the session (cached) *)
(* and a later SELECT does not refresh them.                               *)
LoadPending(w) ==
    /\ wk[w].pc = "claimed"
    /\ wk' = [wk EXCEPT ![w] =
                 IF Owns(w)
                 THEN LET pending == {i \in Items : item[i] = "PENDING"}
                      IN [Idle EXCEPT !.pc = "loop", !.todo = pending,
                                      !.cached = pending]
                 ELSE Idle]
    /\ UNCHANGED <<job, item, entry, rq, crashes>>

(* The head of the loop: refresh the job and give up if it was cancelled,  *)
(* settled or taken over.                                                  *)
NextItem(w) ==
    /\ wk[w].pc = "loop"
    /\ \E i \in wk[w].todo :
         /\ \A j \in wk[w].todo : i <= j
         /\ wk' = [wk EXCEPT ![w] =
                      IF Owns(w) THEN [@ EXCEPT !.pc = "match", !.row = i]
                                 ELSE Idle]
    /\ UNCHANGED <<job, item, entry, rq, crashes>>

(* _match_item, which awaits the providers, then _apply_item, _refresh_    *)
(* progress_and_finalize and renew_lease, all staged.  Saving a provider's *)
(* record commits inside, so everything is read again; otherwise the job   *)
(* is as NextItem refreshed it.                                            *)
MatchItem(w) ==
    /\ wk[w].pc = "match"
    /\ \E saved \in BOOLEAN, m \in Matches[wk[w].row] :
         LET i == wk[w].row
             put == CASE m = NoMatch -> "FAILED"
                      [] m = Ambiguous -> "CONFLICT"
                      [] OTHER -> Applied(m, RowValue[i], FALSE)
             loaded == IF saved THEN job
                       ELSE [status |-> "PROCESSING", worker |-> w,
                             lease |-> "live"]
             view == [j \in Items |->
                        IF j = i THEN put
                        ELSE IF ~saved /\ j \in wk[w].cached THEN "PENDING"
                        ELSE item[j]]
         IN /\ saved => m \in Media
            /\ wk' = [wk EXCEPT ![w] =
                         [@ EXCEPT !.pc = "item", !.put = put, !.media = m,
                            !.upd = Renew(Finalize(view, loaded), loaded, w)]]
    /\ UNCHANGED <<job, item, entry, rq, crashes>>

(* Mutant: without the unique index the import's data wins. *)
CommitItemAnyway(w) ==
    LET s == wk[w]
        i == s.row
    IN /\ s.pc = "item"
       /\ item' = [item EXCEPT ![i] = s.put]
       /\ entry' = IF s.put = "IMPORTED"
                   THEN [entry EXCEPT ![s.media] = RowValue[i]]
                   ELSE entry
       /\ job' = Updated(job, s.upd)
       /\ wk' = [wk EXCEPT ![w] = [Idle EXCEPT !.pc = "loop",
                                      !.todo = s.todo \ {i}]]
       /\ UNCHANGED <<rq, crashes>>

(* The commit of one item.  The unique index on active library entries     *)
(* refuses an insert for a media the user has got in the meantime.         *)
CommitItem(w) ==
    LET s == wk[w]
        i == s.row
        inserts == s.put = "IMPORTED"
        refused == inserts /\ entry[s.media] # NoEntry
    IN /\ s.pc = "item"
       /\ IF refused
          THEN /\ wk' = [wk EXCEPT ![w] = [Idle EXCEPT !.pc = "error"]]
               /\ UNCHANGED <<job, item, entry>>
          ELSE /\ item' = [item EXCEPT ![i] = s.put]
               /\ entry' = IF inserts
                           THEN [entry EXCEPT ![s.media] = RowValue[i]]
                           ELSE entry
               /\ job' = Updated(job, s.upd)
               /\ wk' = [wk EXCEPT ![w] = [Idle EXCEPT !.pc = "loop",
                                              !.todo = s.todo \ {i}]]
       /\ UNCHANGED <<rq, crashes>>

(* After the last pending item: finalize again on expired objects, release *)
(* the claim.                                                              *)
LastPass(w) ==
    /\ wk[w].pc = "loop"
    /\ wk[w].todo = {}
    /\ wk' = [wk EXCEPT ![w] =
                 [Idle EXCEPT !.pc = "release",
                              !.upd = Release(Finalize(item, Expired), job, w)]]
    /\ UNCHANGED <<job, item, entry, rq, crashes>>

(* Anything raised inside the try block: the session rolls back. *)
Raise(w) ==
    /\ wk[w].pc \in {"loop", "match", "item", "release"}
    /\ wk' = [wk EXCEPT ![w] = [Idle EXCEPT !.pc = "error"]]
    /\ UNCHANGED <<job, item, entry, rq, crashes>>

(* Mutant: the except block releases the claim and fails nothing. *)
HandleErrorReleasing(w) ==
    /\ wk[w].pc = "error"
    /\ wk' = [wk EXCEPT ![w] =
                 IF job.worker = w
                 THEN [Idle EXCEPT !.pc = "failed",
                                   !.upd = Release(NoChange, job, w)]
                 ELSE Idle]
    /\ UNCHANGED <<job, item, entry, rq, crashes>>

(* The except block reads the job again and fails it if still its own. *)
HandleError(w) ==
    /\ wk[w].pc = "error"
    /\ wk' = [wk EXCEPT ![w] =
                 IF job.worker = w
                 THEN [Idle EXCEPT !.pc = "failed",
                                   !.upd = Terminal(job, "FAILED")]
                 ELSE Idle]
    /\ UNCHANGED <<job, item, entry, rq, crashes>>

(* The commit that ends the worker's pass over the job. *)
CommitLast(w) ==
    /\ wk[w].pc \in {"release", "failed"}
    /\ job' = Updated(job, wk[w].upd)
    /\ wk' = [wk EXCEPT ![w] = Idle]
    /\ UNCHANGED <<item, entry, rq, crashes>>

(* The process dies, or leaves the job to run_import_worker's handler; the *)
(* claim stays in the database.  A restarted process begins idle.          *)
Crash(w) ==
    /\ wk[w].pc # "idle"
    /\ crashes < MaxCrashes
    /\ crashes' = crashes + 1
    /\ wk' = [wk EXCEPT ![w] = Idle]
    /\ UNCHANGED <<job, item, entry, rq>>

(* Time passes beyond lease_expires_at. *)
LeaseExpires ==
    /\ job.status = "PROCESSING"
    /\ job.lease = "live"
    /\ LeaseOutlastsItem => \A w \in Workers : job.worker = w => wk[w].pc = "idle"
    /\ job' = [job EXCEPT !.lease = "expired"]
    /\ UNCHANGED <<item, entry, wk, rq, crashes>>
-----------------------------------------------------------------------------
(* The API. *)

(* resolve_item up to its commit.  Job and items are loaded once and not   *)
(* read again before the commit.                                           *)
Resolve(r, i) ==
    /\ rq[r].pc = "idle"
    /\ job.status \in {"AWAITING_RESOLUTION", "PROCESSING"}
    /\ item[i] = "CONFLICT"
    /\ \/ LET view == [item EXCEPT ![i] = "SKIPPED"]
          IN rq' = [rq EXCEPT ![r] =
                      [NoRequest EXCEPT !.pc = "resolve", !.item = i,
                         !.put = "SKIPPED", !.upd = Finalize(view, job)]]
       \/ \E m \in Media, v \in Values :
            LET put == Applied(m, v, TRUE)
                view == [item EXCEPT ![i] = put]
            IN rq' = [rq EXCEPT ![r] =
                        [pc |-> "resolve", item |-> i, put |-> put,
                         media |-> m, value |-> v,
                         insert |-> entry[m] = NoEntry,
                         upd |-> Finalize(view, job)]]
    /\ UNCHANGED <<job, item, entry, wk, crashes>>

(* The commit of resolve_item: an IMPORTED row inserts the library entry   *)
(* or updates the one that was found; the unique index can refuse the      *)
(* insert, and an entry removed meanwhile stays removed.                   *)
CommitResolve(r) ==
    LET s == rq[r]
        writes == s.put = "IMPORTED"
        found == writes /\ entry[s.media] # NoEntry
        refused == found /\ s.insert
    IN /\ s.pc = "resolve"
       /\ rq' = [rq EXCEPT ![r] = NoRequest]
       /\ IF refused
          THEN UNCHANGED <<job, item, entry>>
          ELSE /\ item' = [item EXCEPT ![s.item] = s.put]
               /\ entry' = IF writes /\ (found \/ s.insert)
                           THEN [entry EXCEPT ![s.media] = s.value]
                           ELSE entry
               /\ job' = Updated(job, s.upd)
       /\ UNCHANGED <<wk, crashes>>

(* cancel_job up to its commit, and its commit. *)
Cancel(r) ==
    /\ rq[r].pc = "idle"
    /\ job.status \in Active
    /\ rq' = [rq EXCEPT ![r] = [NoRequest EXCEPT !.pc = "cancel",
                                   !.upd = Terminal(job, "CANCELLED")]]
    /\ UNCHANGED <<job, item, entry, wk, crashes>>

CommitCancel(r) ==
    /\ rq[r].pc = "cancel"
    /\ job' = Updated(job, rq[r].upd)
    /\ rq' = [rq EXCEPT ![r] = NoRequest]
    /\ UNCHANGED <<item, entry, wk, crashes>>

(* The user adds, edits or removes a library entry outside the import. *)
EditLibrary(m) ==
    /\ \E v \in Values \cup {NoEntry} : entry' = [entry EXCEPT ![m] = v]
    /\ UNCHANGED <<job, item, wk, rq, crashes>>
-----------------------------------------------------------------------------
WorkerStep(w) == \/ LoadPending(w) \/ NextItem(w) \/ MatchItem(w)
                 \/ CommitItem(w) \/ LastPass(w)
                 \/ HandleError(w) \/ CommitLast(w)
RequestStep(r) == \/ \E i \in Items : Resolve(r, i)
                  \/ CommitResolve(r) \/ Cancel(r) \/ CommitCancel(r)

Next == \/ \E w \in Workers : Claim(w) \/ WorkerStep(w) \/ Raise(w) \/ Crash(w)
        \/ LeaseExpires
        \/ \E r \in Requests : RequestStep(r)
        \/ \E m \in Media : EditLibrary(m)

Spec == Init /\ [][Next]_vars

(* A worker process that is up keeps running and polling, and time passes. *)
(* The user's requests, errors and crashes are under no obligation.        *)
Fairness == /\ \A w \in Workers : WF_vars(WorkerStep(w))
            /\ WF_vars(\E w \in Workers : Claim(w))
            /\ WF_vars(LeaseExpires)

FairSpec == Spec /\ Fairness
-----------------------------------------------------------------------------
WorkerRecords ==
    [pc : WorkerPcs, todo : SUBSET Items, row : Items \cup {0},
     cached : SUBSET Items, put : ItemStatuses \cup {Keep},
     media : Media \cup {NoMatch, Ambiguous, NoMedia}, upd : JobUpdates]
RequestRecords ==
    [pc : {"idle", "resolve", "cancel"}, item : Items \cup {0},
     put : ItemStatuses \cup {Keep}, media : Media \cup {NoMedia},
     value : Values \cup {NoEntry}, insert : BOOLEAN, upd : JobUpdates]

(* Types of the variables. *)
TypeOK ==
    /\ job \in [status : JobStatuses, worker : Workers \cup {NoWorker},
                lease : Leases]
    /\ item \in [Items -> ItemStatuses]
    /\ entry \in [Media -> Values \cup {NoEntry}]
    /\ wk \in [Workers -> WorkerRecords]
    /\ rq \in [Requests -> RequestRecords]
    /\ crashes \in Nat

Engaged(w) == wk[w].pc # "idle"

(* Claims exclude each other: while one worker is anywhere between its     *)
(* claim and its last commit, no other worker has claimed the job, however *)
(* the user cancels and resolves meanwhile.  Holds when a lease only runs  *)
(* out under a dead worker.                                                *)
OneWorker == \A v, w \in Workers : Engaged(v) /\ Engaged(w) => v = w

(* A PROCESSING job always names a worker and carries a lease, so that a   *)
(* later claim can find it: a job left PROCESSING without a lease is never *)
(* claimed again (claim_next_job wants lease_expires_at not NULL).         *)
Recoverable == job.status = "PROCESSING" =>
                   job.worker # NoWorker /\ job.lease # "none"

(* The job's outcome agrees with its rows: no row is still waiting once    *)
(* the job left PROCESSING on its own, and a COMPLETED job has no conflict *)
(* left, whatever stale views the outcome was computed from.               *)
OutcomeMatchesItems ==
    /\ job.status \in {"AWAITING_RESOLUTION", "COMPLETED"} => ~Remaining(item)
    /\ job.status = "COMPLETED" => ~Unresolved(item)

(* An import worker never changes a library entry that exists: not the     *)
(* user's own data, not what another worker or a resolution has written    *)
(* (overwrite=False, and the unique index for entries it did not see).     *)
WorkersKeepEntries ==
    [][\A m \in Media : entry[m] # NoEntry /\ entry'[m] # entry[m]
                           => wk' = wk]_vars

(* A row is processed once: workers only ever change rows that are still   *)
(* PENDING, across crashes and new claims, and so never undo a resolution. *)
RowsProcessedOnce ==
    [][\A i \in Items : item'[i] # item[i] /\ wk' # wk
                           => item[i] = "PENDING"]_vars

(* A job that has left the queue never returns to it: no stale commit      *)
(* (a lease renewal, a late cancel, a lost worker) makes a settled job     *)
(* claimable again.                                                        *)
NoRestart ==
    [][job.status \notin {"PENDING", "PROCESSING"}
         => job'.status \notin {"PENDING", "PROCESSING"}]_vars

(* A queued import is worked off although workers crash and fail.          *)
JobSettles == <>[](job.status \notin {"PENDING", "PROCESSING"})

(* The import job is a job of the abstract claim queue: run by one worker  *)
(* at a time, taken again after a crash, out for good once it has left.    *)
Row == {"job"}
phases == [j \in Row |->
             CASE job.status = "PENDING" -> "queued"
               [] job.status = "PROCESSING" -> "taken"
               [] OTHER -> "out"]
runners == [j \in Row |-> {w \in Workers : Engaged(w)}]
Queue == INSTANCE ClaimQueue WITH Jobs <- Row, phase <- phases
ImplementsClaimQueue == Queue!Spec

(* "Only active imports can be cancelled" (import_service.py:274): a job   *)
(* that becomes CANCELLED was active until then.                           *)
OnlyActiveJobsAreCancelled ==
    [][job'.status = "CANCELLED" /\ job.status # "CANCELLED"
         => job.status \in Active]_vars

(* "User can cancel pending imports" (docs/0APPLICATION_PLAN.md:1287): a   *)
(* cancelled import stays cancelled.                                       *)
CancelIsFinal ==
    [][job.status = "CANCELLED" => job'.status = "CANCELLED"]_vars

(* A job is AWAITING_RESOLUTION because of a conflict the user can resolve *)
(* (import_service.py:282-285); otherwise resolve_item answers "Import     *)
(* conflict not found" (line 244) and nothing completes the job any more.  *)
(* Stated for the moments when no operation on the job is in progress.     *)
Quiet == /\ \A w \in Workers : ~Engaged(w)
         /\ \A r \in Requests : rq[r].pc = "idle"
AwaitingHasConflict ==
    Quiet /\ job.status = "AWAITING_RESOLUTION" => Unresolved(item)
=============================================================================
