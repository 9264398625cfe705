----------------------------- MODULE BackupJobs -----------------------------
(***************************************************************************)
(* Database backups: administrators request them through the API, backup   *)
(* workers claim a request, dump, upload and record the outcome.           *)
(*                                                                         *)
(* A backup is identified by the request that creates it; requests are     *)
(* numbered in the order of their started_at.  Each request and each       *)
(* worker has its own session: what it has read may be stale when it       *)
(* writes, and its UPDATEs carry no condition but the row's id.            *)
(***************************************************************************)
EXTENDS Naturals, FiniteSets

CONSTANTS
    Workers,             \* backup worker processes
    MaxTriggers,         \* bound on backup requests
    NoWorker,            \* worker_id IS NULL
    MaxCrashes,          \* bound on worker crashes
    LeaseOutlastsBackup  \* TRUE: no backup takes longer than the lease

Backups == 1 .. MaxTriggers
Statuses == {"absent", "pending", "processing", "success", "failed"}
Leases == {"none", "live", "expired"}

ASSUME BackupAssumption ==
    /\ MaxTriggers \in Nat
    /\ MaxCrashes \in Nat
    /\ NoWorker \notin Workers
    /\ LeaseOutlastsBackup \in BOOLEAN

VARIABLES
    backup,   \* backup_metadata: a row per request, "absent" if not created
    stored,   \* backups whose encrypted dump is in the bucket
    wk,       \* each worker's progress
    tr,       \* each request's progress; .missed is a history: another request
              \* inserted a row after this one had looked
    crashes   \* worker crashes so far

vars == <<backup, stored, wk, tr, crashes>>
-----------------------------------------------------------------------------
Unclaimed(status) == [status |-> status, worker |-> NoWorker,
                      lease |-> "none", old |-> FALSE]
Absent == Unclaimed("absent")

Active == {b \in Backups : backup[b].status \in {"pending", "processing"}}
With(status) == {b \in Backups : backup[b].status = status}
Oldest(b, set) == \A c \in set : b <= c      \* ORDER BY started_at

Init ==
    /\ backup = [b \in Backups |-> Absent]
    /\ stored = {}
    /\ wk = [w \in Workers |-> [pc |-> "idle", backup |-> 0]]
    /\ tr = [r \in Backups |-> [pc |-> "new", stale |-> 0, loaded |-> Absent,
                           missed |-> FALSE]]
    /\ crashes = 0
-----------------------------------------------------------------------------
(* The API: trigger_backup. *)

(* A backup is under way if a worker's lease on it runs, or if it has been *)
(* waiting for less than backup_max_runtime_minutes.                       *)
UnderWay(row) == \/ row.status = "processing" /\ row.lease = "live"
                 \/ row.status = "pending" /\ ~row.old

InProgress(r) == tr[r].pc \in {"fail", "create"}
MayStart(r) == /\ tr[r].pc = "new"
               /\ \A q \in Backups : q < r => tr[q].pc # "new"

(* Mutant: only a worker's live lease counts, not the waiting requests. *)
TriggerWhileWaiting(r) ==
    /\ MayStart(r)
    /\ tr' = [tr EXCEPT ![r].pc =
                 IF \E b \in Active : backup[b].lease = "live"
                 THEN "done" ELSE "create"]
    /\ UNCHANGED <<backup, stored, wk, crashes>>

(* Look at the oldest active backup: answer 409 while it is under way,     *)
(* else decide to fail it.                                                 *)
TriggerBackup(r) ==
    /\ MayStart(r)
    /\ \/ /\ Active = {}
          /\ tr' = [tr EXCEPT ![r].pc = "create"]
       \/ \E b \in Active :
            /\ Oldest(b, Active)
            /\ UnderWay(backup[b])
            /\ tr' = [tr EXCEPT ![r].pc = "done"]
       \/ \E b \in Active :
            /\ Oldest(b, Active)
            /\ ~UnderWay(backup[b])
            /\ tr' = [tr EXCEPT ![r] = [@ EXCEPT !.pc = "fail", !.stale = b,
                                                 !.loaded = backup[b]]]
    /\ UNCHANGED <<backup, stored, wk, crashes>>

(* Only changed columns are written: a row that had no worker when it was  *)
(* read keeps the worker that has claimed it since.                        *)
FailStale(r) ==
    LET b == tr[r].stale
        held == tr[r].loaded.worker # NoWorker
    IN /\ tr[r].pc = "fail"
       /\ backup' = [backup EXCEPT ![b] =
                        IF held THEN Unclaimed("failed")
                        ELSE [@ EXCEPT !.status = "failed"]]
       /\ tr' = [tr EXCEPT ![r].pc = "create"]
       /\ UNCHANGED <<stored, wk, crashes>>

(* The partial unique index on status allows one "pending" row. *)
CreateBackup(r) ==
    /\ tr[r].pc = "create"
    /\ backup' = IF With("pending") = {}
                 THEN [backup EXCEPT ![r] = Unclaimed("pending")]
                 ELSE backup
    /\ tr' = [q \in Backups |->
                  IF q = r THEN [tr[q] EXCEPT !.pc = "done"]
                  ELSE IF With("pending") = {} /\ InProgress(q)
                       THEN [tr[q] EXCEPT !.missed = TRUE]
                       ELSE tr[q]]
    /\ UNCHANGED <<stored, wk, crashes>>
-----------------------------------------------------------------------------
(* The worker process. *)

(* Mutants: a running lease does not protect a backup; a crashed worker's  *)
(* backup is not found again.                                              *)
ClaimableAnyLease == Active
ClaimableOnce == With("pending")

Claimable == With("pending") \cup
             {b \in With("processing") : backup[b].lease = "expired"}

(* Mutant: the columns are assigned in the wrong order. *)
ClaimSwapped(w) ==
    /\ wk[w].pc = "idle"
    /\ \E b \in Claimable :
         /\ With("processing") \subseteq {b}
         /\ backup' = [backup EXCEPT ![b] =
                          [status |-> "processing", worker |-> "live",
                           lease |-> w, old |-> FALSE]]
         /\ wk' = [wk EXCEPT ![w] = [pc |-> "claimed", backup |-> b]]
    /\ UNCHANGED <<stored, tr, crashes>>

(* The oldest claimable row, SKIP LOCKED: unless another polling worker    *)
(* has just locked it.  The unique index allows one "processing" row:      *)
(* claiming a pending backup beside it fails and changes nothing.          *)
ClaimNextBackup(w) ==
    /\ wk[w].pc = "idle"
    /\ \E b \in Claimable :
         /\ Oldest(b, Claimable) \/ \E v \in Workers \ {w} : wk[v].pc = "idle"
         /\ With("processing") \subseteq {b}
         /\ backup' = [backup EXCEPT ![b] =
                          [status |-> "processing", worker |-> w,
                           lease |-> "live", old |-> FALSE]]
         /\ wk' = [wk EXCEPT ![w] = [pc |-> "claimed", backup |-> b]]
    /\ UNCHANGED <<stored, tr, crashes>>

(* Mutant: the record is updated without waiting for the upload. *)
StartAtRecord(w) ==
    /\ wk[w].pc = "claimed"
    /\ wk' = [wk EXCEPT ![w].pc = "uploaded"]
    /\ UNCHANGED <<backup, stored, tr, crashes>>

(* run_backup checks that the claim still stands. *)
StartBackup(w) ==
    LET row == backup[wk[w].backup]
    IN /\ wk[w].pc = "claimed"
       /\ wk' = [wk EXCEPT ![w].pc =
                    IF row.status = "processing" /\ row.worker = w
                    THEN "running" ELSE "idle"]
       /\ UNCHANGED <<backup, stored, tr, crashes>>

(* Dump, compress, encrypt, upload. *)
Upload(w) ==
    /\ wk[w].pc = "running"
    /\ stored' = stored \cup {wk[w].backup}
    /\ wk' = [wk EXCEPT ![w].pc = "uploaded"]
    /\ UNCHANGED <<backup, tr, crashes>>

(* update_backup_success: no look at what the row has become. *)
BackupSuccess(w) ==
    /\ wk[w].pc = "uploaded"
    /\ backup' = [backup EXCEPT ![wk[w].backup] = Unclaimed("success")]
    /\ wk' = [wk EXCEPT ![w].pc = "notify"]
    /\ UNCHANGED <<stored, tr, crashes>>

Notify(w) ==
    /\ wk[w].pc = "notify"
    /\ wk' = [wk EXCEPT ![w].pc = "idle"]
    /\ UNCHANGED <<backup, stored, tr, crashes>>

(* The dump, the upload, the update or the success mail raises. *)
Raise(w) ==
    /\ wk[w].pc \in {"running", "uploaded", "notify"}
    /\ wk' = [wk EXCEPT ![w].pc = "error"]
    /\ UNCHANGED <<backup, stored, tr, crashes>>

(* update_backup_failed in the except block, again unconditional. *)
BackupFailed(w) ==
    /\ wk[w].pc = "error"
    /\ backup' = [backup EXCEPT ![wk[w].backup] = Unclaimed("failed")]
    /\ wk' = [wk EXCEPT ![w].pc = "idle"]
    /\ UNCHANGED <<stored, tr, crashes>>

Crash(w) ==
    /\ wk[w].pc # "idle"
    /\ crashes < MaxCrashes
    /\ crashes' = crashes + 1
    /\ wk' = [wk EXCEPT ![w].pc = "idle"]
    /\ UNCHANGED <<backup, stored, tr>>
-----------------------------------------------------------------------------
(* Time passes. *)

Runs(w, b) == wk[w].pc # "idle" /\ wk[w].backup = b

LeaseExpires(b) ==
    /\ backup[b].status = "processing"
    /\ backup[b].lease = "live"
    /\ LeaseOutlastsBackup => \A w \in Workers : ~Runs(w, b)
    /\ backup' = [backup EXCEPT ![b].lease = "expired"]
    /\ UNCHANGED <<stored, wk, tr, crashes>>

WaitsTooLong(b) ==
    /\ backup[b].status = "pending"
    /\ ~backup[b].old
    /\ backup' = [backup EXCEPT ![b].old = TRUE]
    /\ UNCHANGED <<stored, wk, tr, crashes>>
-----------------------------------------------------------------------------
WorkerStep(w) == \/ StartBackup(w) \/ Upload(w) \/ BackupSuccess(w)
                 \/ Notify(w) \/ BackupFailed(w)

Next == \/ \E r \in Backups : TriggerBackup(r) \/ FailStale(r) \/ CreateBackup(r)
        \/ \E w \in Workers : \/ ClaimNextBackup(w) \/ WorkerStep(w)
                              \/ Raise(w) \/ Crash(w)
        \/ \E b \in Backups : LeaseExpires(b) \/ WaitsTooLong(b)

Spec == Init /\ [][Next]_vars

ClaimOldest(w) == ClaimNextBackup(w) /\ Oldest(wk'[w].backup, Claimable)

(* Workers that are up keep polling and a dump ends; leases run out.  That *)
(* two workers poll at one moment, so that one skips a row that the other  *)
(* has locked, is not certain.  Nothing is asked of the API.               *)
Fairness == /\ \A w \in Workers : WF_vars(WorkerStep(w))
            /\ WF_vars(\E w \in Workers : ClaimOldest(w))
            /\ \A b \in Backups : WF_vars(LeaseExpires(b))

FairSpec == Spec /\ Fairness
-----------------------------------------------------------------------------
Rows == [status : Statuses, worker : Workers \cup {NoWorker},
         lease : Leases, old : BOOLEAN]

(* Types of the variables. *)
TypeOK ==
    /\ backup \in [Backups -> Rows]
    /\ stored \subseteq Backups
    /\ wk \in [Workers ->
                 [pc : {"idle", "claimed", "running", "uploaded", "notify",
                        "error"},
                  backup : Backups \cup {0}]]
    /\ tr \in [Backups ->
                 [pc : {"new", "fail", "create", "done"},
                  stale : Backups \cup {0}, loaded : Rows, missed : BOOLEAN]]
    /\ crashes \in Nat

(* "enforce one active backup" (alembic/versions/202607190002_backup_      *)
(* pending_uniqueness.py:1): at most one backup is pending or processing.  *)
OneActiveBackup == Cardinality(Active) <= 1

(* Backups whose request inserted them on a look that had missed another's. *)
Raced == {r \in Backups : tr[r].missed /\ backup[r].status # "absent"}

(* What does hold of it: two backups are active only if some request has   *)
(* inserted its row on an outdated look, and there are never three of them *)
(* - through overlapping requests, stale failures, claims and crashes.     *)
SecondBackupRaces == Cardinality(Active) <= IF Raced = {} THEN 1 ELSE 2

(* A backup that is recorded as a success can be restored: its object is   *)
(* in the bucket, whoever took the backup over, failed or crashed on it.   *)
SuccessIsStored == \A b \in With("success") : b \in stored

(* The one state the workers alone do not leave: a pending backup that is   *)
(* older than one whose worker died is tried first and refused each time.  *)
Stuck == \E p \in With("pending"), q \in With("processing") :
             p < q /\ backup[q].lease = "expired"

(* A backup that has been accepted gets an outcome although workers crash, *)
(* dumps fail, requests overlap and administrators give up waiting for it; *)
(* only two active backups may get stuck as above (backup_repository.py:81) *)
(* until a trigger fails one of them.                                      *)
BackupsSettle ==
    \A b \in Backups :
        backup[b].status = "pending" ~>
            backup[b].status \in {"success", "failed"} \/ Stuck

(* Backups are jobs of the abstract claim queue: each is run by one worker *)
(* at a time, taken again after a crash, never back once it has an outcome *)
(* - whatever the triggers decide on a stale look.                         *)
phases == [b \in Backups |->
             CASE backup[b].status = "absent" -> "absent"
               [] backup[b].status = "pending" -> "queued"
               [] backup[b].status = "processing" -> "taken"
               [] OTHER -> "out"]
running == [b \in Backups |-> {w \in Workers : Runs(w, b)}]
Queue == INSTANCE ClaimQueue
           WITH Jobs <- Backups, phase <- phases, runners <- running
ImplementsClaimQueue == Queue!Spec
=============================================================================
