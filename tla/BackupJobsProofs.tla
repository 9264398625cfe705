--------------------------- MODULE BackupJobsProofs ---------------------------
(***************************************************************************)
(* Proofs about BackupJobs for any number of workers, requests and         *)
(* crashes: types, SuccessIsStored, when two backups are active at once,   *)
(* and that backups implement the abstract claim queue when no backup      *)
(* outlasts its lease.  Requests overlap freely in all of them.            *)
(***************************************************************************)
EXTENDS BackupJobs, TLAPS, FiniteSetTheorems

(* Every worker that is not idle has a backup; every request that has      *)
(* decided to fail a backup has one.                                       *)
Types == /\ TypeOK
         /\ \A w \in Workers : wk[w].pc # "idle" => wk[w].backup \in Backups
         /\ \A r \in Backups : tr[r].pc = "fail" => tr[r].stale \in Backups

(* A request. *)
Requests == [pc : {"new", "fail", "create", "done"},
             stale : Backups \cup {0}, loaded : Rows, missed : BOOLEAN]

(* A recorded row has its type whatever has been written to it. *)
LEMMA RowTypes ==
    ASSUME NEW status \in Statuses
    PROVE  /\ Unclaimed(status) \in Rows
           /\ Unclaimed(status).status = status
  BY DEF Unclaimed, Rows, Leases

(* What a look at the active backups makes of the request. *)
LEMMA LookEffect ==
    ASSUME TypeOK, NEW r \in Backups, TriggerBackup(r)
    PROVE  /\ tr' \in [Backups -> Requests]
           /\ tr'[r].missed = tr[r].missed
           /\ \A q \in Backups \ {r} : tr'[q] = tr[q]
           /\ \/ tr'[r].pc = "create" /\ Active = {}
              \/ tr'[r].pc = "done"
              \/ tr'[r].pc = "fail" /\ tr'[r].stale \in Active
           /\ UNCHANGED <<backup, stored, wk, crashes>>
  <1>1. UNCHANGED <<backup, stored, wk, crashes>>
    BY DEF TriggerBackup
  <1>2. tr \in [Backups -> Requests]
    BY DEF TypeOK, Requests
  <1>3. \/ tr' = [tr EXCEPT ![r].pc = "create"] /\ Active = {}
        \/ tr' = [tr EXCEPT ![r].pc = "done"]
        \/ \E b \in Active :
              tr' = [tr EXCEPT ![r] = [@ EXCEPT !.pc = "fail", !.stale = b,
                                                !.loaded = backup[b]]]
    BY DEF TriggerBackup
  <1>4. ASSUME NEW row \in Requests, tr' = [tr EXCEPT ![r] = row], row.missed = tr[r].missed
        PROVE  /\ tr' \in [Backups -> Requests]
               /\ tr'[r] = row
               /\ \A q \in Backups \ {r} : tr'[q] = tr[q]
    BY <1>2, <1>4
  <1>5. ASSUME NEW pc \in {"create", "done"}
        PROVE  /\ [tr[r] EXCEPT !.pc = pc] \in Requests
               /\ [tr[r] EXCEPT !.pc = pc].pc = pc
               /\ [tr[r] EXCEPT !.pc = pc].missed = tr[r].missed
    BY <1>2 DEF Requests
  <1>6. CASE tr' = [tr EXCEPT ![r].pc = "create"] /\ Active = {}
    BY <1>1, <1>4, <1>5, <1>6
  <1>7. CASE tr' = [tr EXCEPT ![r].pc = "done"]
    BY <1>1, <1>4, <1>5, <1>7
  <1>8. ASSUME NEW b \in Active,
               tr' = [tr EXCEPT ![r] = [@ EXCEPT !.pc = "fail", !.stale = b,
                                                 !.loaded = backup[b]]]
        PROVE  /\ tr' \in [Backups -> Requests]
               /\ tr'[r].missed = tr[r].missed
               /\ \A q \in Backups \ {r} : tr'[q] = tr[q]
               /\ tr'[r].pc = "fail" /\ tr'[r].stale \in Active
    <2> DEFINE row == [tr[r] EXCEPT !.pc = "fail", !.stale = b, !.loaded = backup[b]]
    <2>1. b \in Backups /\ backup[b] \in Rows
      BY DEF Active, TypeOK
    <2>2. row \in Requests /\ row.missed = tr[r].missed /\ row.pc = "fail" /\ row.stale = b
      BY <1>2, <2>1 DEF Requests
    <2>3. tr' = [tr EXCEPT ![r] = row]
      BY <1>8
    <2> QED
      BY <1>4, <2>2, <2>3
  <1> QED
    BY <1>1, <1>3, <1>6, <1>7, <1>8

(* What an insert makes of the requests. *)
LEMMA InsertEffect ==
    ASSUME TypeOK, NEW r \in Backups, CreateBackup(r)
    PROVE  /\ tr' \in [Backups -> Requests]
           /\ tr[r].pc = "create" /\ tr'[r].pc = "done"
           /\ tr'[r].missed = tr[r].missed
           /\ \A q \in Backups \ {r} :
                 /\ tr'[q].pc = tr[q].pc
                 /\ tr'[q].stale = tr[q].stale
                 /\ tr[q].missed => tr'[q].missed
                 /\ With("pending") = {} /\ InProgress(q) => tr'[q].missed
                 /\ With("pending") # {} => tr'[q] = tr[q]
  BY DEF CreateBackup, TypeOK, Requests

(* Every step keeps the types. *)
LEMMA NextTypes ==
    ASSUME Types, [Next]_vars
    PROVE  Types'
  <1> USE DEF Types, TypeOK
  <1>1. ASSUME NEW r \in Backups, TriggerBackup(r)
        PROVE  Types'
    BY <1>1, LookEffect DEF Requests, Active
  <1>2. ASSUME NEW r \in Backups, FailStale(r)
        PROVE  Types'
    <2>1. backup' \in [Backups -> Rows]
      <3>1. Unclaimed("failed") \in Rows
        BY RowTypes DEF Statuses
      <3>2. \A row \in Rows : [row EXCEPT !.status = "failed"] \in Rows
        BY DEF Rows, Statuses
      <3> QED
        BY <1>2, <3>1, <3>2 DEF FailStale
    <2> QED
      BY <1>2, <2>1 DEF FailStale
  <1>3. ASSUME NEW r \in Backups, CreateBackup(r)
        PROVE  Types'
    <2>1. Unclaimed("pending") \in Rows
      BY RowTypes DEF Statuses
    <2>2. backup' \in [Backups -> Rows]
      BY <1>3, <2>1 DEF CreateBackup
    <2>3. tr' \in [Backups -> Requests]
      BY <1>3, InsertEffect
    <2>4. \A q \in Backups : tr'[q].pc = "fail" => tr'[q].stale \in Backups
      BY <1>3, InsertEffect
    <2> QED
      BY <1>3, <2>2, <2>3, <2>4 DEF CreateBackup, Requests
  <1>4. ASSUME NEW w \in Workers, ClaimNextBackup(w)
        PROVE  Types'
    <2>1. PICK b \in Claimable :
             /\ backup' = [backup EXCEPT ![b] =
                             [status |-> "processing", worker |-> w,
                              lease |-> "live", old |-> FALSE]]
             /\ wk' = [wk EXCEPT ![w] = [pc |-> "claimed", backup |-> b]]
      BY <1>4 DEF ClaimNextBackup
    <2>2. b \in Backups
      BY DEF Claimable, With
    <2>3. [status |-> "processing", worker |-> w, lease |-> "live",
           old |-> FALSE] \in Rows
      BY DEF Rows, Statuses, Leases
    <2> QED
      BY <1>4, <2>1, <2>2, <2>3 DEF ClaimNextBackup
  <1>5. ASSUME NEW w \in Workers, WorkerStep(w) \/ Raise(w) \/ Crash(w)
        PROVE  Types'
    <2>1. Unclaimed("success") \in Rows /\ Unclaimed("failed") \in Rows
      BY RowTypes DEF Statuses
    <2>2. CASE StartBackup(w)
      BY <2>2 DEF StartBackup
    <2>3. CASE Upload(w)
      BY <2>3 DEF Upload
    <2>4. CASE BackupSuccess(w)
      BY <2>1, <2>4 DEF BackupSuccess
    <2>5. CASE Notify(w)
      BY <2>5 DEF Notify
    <2>6. CASE BackupFailed(w)
      BY <2>1, <2>6 DEF BackupFailed
    <2>7. CASE Raise(w)
      BY <2>7 DEF Raise
    <2>8. CASE Crash(w)
      BY <2>8 DEF Crash
    <2> QED
      BY <1>5, <2>2, <2>3, <2>4, <2>5, <2>6, <2>7, <2>8 DEF WorkerStep
  <1>6. ASSUME NEW b \in Backups, LeaseExpires(b) \/ WaitsTooLong(b)
        PROVE  Types'
    <2>1. \A row \in Rows : /\ [row EXCEPT !.lease = "expired"] \in Rows
                            /\ [row EXCEPT !.old = TRUE] \in Rows
      BY DEF Rows, Leases
    <2>2. CASE LeaseExpires(b)
      <3>1. backup' = [backup EXCEPT ![b] = [@ EXCEPT !.lease = "expired"]]
        BY <2>2 DEF LeaseExpires
      <3>2. [backup[b] EXCEPT !.lease = "expired"] \in Rows
        BY <2>1
      <3>3. backup' \in [Backups -> Rows]
        BY <3>1, <3>2
      <3> QED
        BY <2>2, <3>3 DEF LeaseExpires
    <2>3. CASE WaitsTooLong(b)
      <3>1. backup' = [backup EXCEPT ![b] = [@ EXCEPT !.old = TRUE]]
        BY <2>3 DEF WaitsTooLong
      <3>2. [backup[b] EXCEPT !.old = TRUE] \in Rows
        BY <2>1
      <3>3. backup' \in [Backups -> Rows]
        BY <3>1, <3>2
      <3> QED
        BY <2>3, <3>3 DEF WaitsTooLong
    <2> QED
      BY <1>6, <2>2, <2>3
  <1>7. CASE UNCHANGED vars
    BY <1>7 DEF vars
  <1> QED
    BY <1>1, <1>2, <1>3, <1>4, <1>5, <1>6, <1>7 DEF Next

(* Initially no row exists and nobody is at work. *)
LEMMA InitTypes ==
    ASSUME Init
    PROVE  Types
  <1>1. Absent \in Rows
    BY RowTypes DEF Statuses, Absent
  <1> QED
    BY <1>1 DEF Init, Types, TypeOK

(* The variables keep their types, for any workers and requests. *)
THEOREM TypeCorrect == Spec => []TypeOK
  <1>1. Types => TypeOK
    BY DEF Types
  <1> QED
    BY <1>1, InitTypes, NextTypes, PTL DEF Spec
-----------------------------------------------------------------------------
(* Why a recorded success can be restored: a worker only gets to record it *)
(* with the dump of its own backup in the bucket, and nothing leaves it.   *)
StoredInv == /\ Types
             /\ SuccessIsStored
             /\ \A w \in Workers : wk[w].pc = "uploaded"
                                      => wk[w].backup \in stored

(* Every step keeps StoredInv. *)
LEMMA NextStored ==
    ASSUME StoredInv, [Next]_vars
    PROVE  StoredInv'
  <1> DEFINE Dumped == \A w \in Workers : wk[w].pc = "uploaded"
                                             => wk[w].backup \in stored
  <1>1. Types'
    BY NextTypes DEF StoredInv
  <1> SUFFICES SuccessIsStored' /\ Dumped'
    BY <1>1 DEF StoredInv
  <1> USE DEF StoredInv, Types, TypeOK, SuccessIsStored, With
  <1>2. ASSUME NEW r \in Backups, TriggerBackup(r)
        PROVE  SuccessIsStored' /\ Dumped'
    BY <1>2 DEF TriggerBackup
  <1>3. ASSUME NEW r \in Backups, FailStale(r)
        PROVE  SuccessIsStored' /\ Dumped'
    <2>1. Unclaimed("failed").status # "success"
      BY DEF Unclaimed
    <2>2. \A row \in Rows : [row EXCEPT !.status = "failed"].status # "success"
      BY DEF Rows
    <2> QED
      BY <1>3, <2>1, <2>2 DEF FailStale
  <1>4. ASSUME NEW r \in Backups, CreateBackup(r)
        PROVE  SuccessIsStored' /\ Dumped'
    <2>1. Unclaimed("pending").status # "success"
      BY DEF Unclaimed
    <2> QED
      BY <1>4, <2>1 DEF CreateBackup
  <1>5. ASSUME NEW w \in Workers, ClaimNextBackup(w)
        PROVE  SuccessIsStored' /\ Dumped'
    BY <1>5 DEF ClaimNextBackup
  <1>6. ASSUME NEW w \in Workers, WorkerStep(w) \/ Raise(w) \/ Crash(w)
        PROVE  SuccessIsStored' /\ Dumped'
    <2>1. Unclaimed("failed").status # "success"
      BY DEF Unclaimed
    <2>2. CASE StartBackup(w)
      BY <2>2 DEF StartBackup
    <2>3. CASE Upload(w)
      BY <2>3 DEF Upload
    <2>4. CASE BackupSuccess(w)
      BY <2>4 DEF BackupSuccess
    <2>5. CASE Notify(w)
      BY <2>5 DEF Notify
    <2>6. CASE BackupFailed(w)
      BY <2>1, <2>6 DEF BackupFailed
    <2>7. CASE Raise(w)
      BY <2>7 DEF Raise
    <2>8. CASE Crash(w)
      BY <2>8 DEF Crash
    <2> QED
      BY <1>6, <2>2, <2>3, <2>4, <2>5, <2>6, <2>7, <2>8 DEF WorkerStep
  <1>7. ASSUME NEW b \in Backups, LeaseExpires(b) \/ WaitsTooLong(b)
        PROVE  SuccessIsStored' /\ Dumped'
    <2>1. \A row \in Rows :
             /\ [row EXCEPT !.lease = "expired"].status = row.status
             /\ [row EXCEPT !.old = TRUE].status = row.status
      BY DEF Rows
    <2>2. \A c \in Backups : backup'[c].status = backup[c].status
      BY <1>7, <2>1 DEF LeaseExpires, WaitsTooLong
    <2> QED
      BY <1>7, <2>2 DEF LeaseExpires, WaitsTooLong
  <1>8. CASE UNCHANGED vars
    BY <1>8 DEF vars
  <1> QED
    BY <1>2, <1>3, <1>4, <1>5, <1>6, <1>7, <1>8 DEF Next

(* A backup that is recorded as a success is in the bucket, however leases *)
(* run out and requests fail running backups.                              *)
THEOREM SuccessesAreStored == Spec => []SuccessIsStored
  <1>1. Init => StoredInv
    <2>1. Unclaimed("absent").status = "absent"
      BY DEF Unclaimed
    <2> QED
      BY <2>1, InitTypes DEF Init, StoredInv, SuccessIsStored, With, Absent
  <1>2. StoredInv => SuccessIsStored
    BY DEF StoredInv
  <1> QED
    BY <1>1, <1>2, NextStored, PTL DEF Spec
-----------------------------------------------------------------------------
(* Why backups implement the claim queue when none outlasts its lease: the *)
(* backup a worker is on is out of the queue or held by a live lease, so   *)
(* that no other worker can claim it; a request that has not inserted its  *)
(* row finds it absent, and only fails rows that exist.                    *)
Held == \A w \in Workers :
           wk[w].pc # "idle"
             => LET row == backup[wk[w].backup]
                IN \/ row.status \in {"success", "failed"}
                   \/ row.status = "processing" /\ row.lease = "live"
Requested == \A r \in Backups :
                /\ tr[r].pc # "done" => backup[r].status = "absent"
                /\ tr[r].pc = "fail" => backup[tr[r].stale].status # "absent"
ClaimInv == Types /\ Held /\ Requested

(* What the writers make of a row. *)
LEMMA RowWrites ==
    /\ \A status \in Statuses : Unclaimed(status).status = status
    /\ \A row \in Rows :
         /\ [row EXCEPT !.status = "failed"].status = "failed"
         /\ [row EXCEPT !.lease = "expired"].status = row.status
         /\ [row EXCEPT !.old = TRUE].status = row.status
         /\ [row EXCEPT !.old = TRUE].lease = row.lease
  BY DEF Unclaimed, Rows

(* A backup nobody's lease protects is run by nobody. *)
LEMMA ClaimableIsFree ==
    ASSUME ClaimInv, NEW b \in Claimable, NEW w \in Workers
    PROVE  ~Runs(w, b)
  BY DEF ClaimInv, Held, Claimable, With, Runs

(* Every step keeps ClaimInv. *)
LEMMA NextClaim ==
    ASSUME LeaseOutlastsBackup, ClaimInv, [Next]_vars
    PROVE  ClaimInv'
  <1>1. Types'
    BY NextTypes DEF ClaimInv
  <1> SUFFICES Held' /\ Requested'
    BY <1>1 DEF ClaimInv
  <1> USE RowWrites DEF ClaimInv, Types, TypeOK, Held, Requested
  <1>2. ASSUME NEW r \in Backups, TriggerBackup(r)
        PROVE  Held' /\ Requested'
    <2>1. \A b \in Active : b \in Backups /\ backup[b].status # "absent"
      BY DEF Active
    <2>2. /\ UNCHANGED <<backup, wk>>
          /\ tr[r].pc = "new"
          /\ \A q \in Backups \ {r} : tr'[q] = tr[q]
      BY <1>2, LookEffect DEF TriggerBackup, MayStart
    <2>3. \/ tr'[r].pc \in {"create", "done"}
          \/ tr'[r].pc = "fail" /\ tr'[r].stale \in Active
      BY <1>2, LookEffect
    <2> QED
      BY <2>1, <2>2, <2>3
  <1>3. ASSUME NEW r \in Backups, FailStale(r)
        PROVE  Held' /\ Requested'
    <2> DEFINE b == tr[r].stale
    <2>1. /\ b \in Backups
          /\ backup[b].status # "absent"
          /\ tr[r].pc = "fail"
      BY <1>3 DEF FailStale
    <2>2. /\ backup'[b].status = "failed"
          /\ \A c \in Backups \ {b} : backup'[c] = backup[c]
      <3>1. CASE tr[r].loaded.worker # NoWorker
        <4>1. backup' = [backup EXCEPT ![b] = Unclaimed("failed")]
          BY <1>3, <3>1 DEF FailStale
        <4> QED
          BY <2>1, <4>1 DEF Statuses
      <3>2. CASE tr[r].loaded.worker = NoWorker
        <4>1. backup' = [backup EXCEPT ![b] =
                            [backup[b] EXCEPT !.status = "failed"]]
          BY <1>3, <3>2 DEF FailStale
        <4> QED
          BY <2>1, <4>1
      <3> QED
        BY <3>1, <3>2
    <2>3. wk' = wk /\ tr' = [tr EXCEPT ![r].pc = "create"]
      BY <1>3 DEF FailStale
    <2>4. Held'
      BY <2>1, <2>2, <2>3
    <2>5. Requested'
      BY <2>1, <2>2, <2>3
    <2> QED
      BY <2>4, <2>5
  <1>4. ASSUME NEW r \in Backups, CreateBackup(r)
        PROVE  Held' /\ Requested'
    <2>1. backup' = backup \/ backup' = [backup EXCEPT ![r] = Unclaimed("pending")]
      BY <1>4 DEF CreateBackup
    <2>2. wk' = wk
      BY <1>4 DEF CreateBackup
    <2> QED
      BY <1>4, <2>1, <2>2, InsertEffect DEF Statuses
  <1>5. ASSUME NEW w \in Workers, ClaimNextBackup(w)
        PROVE  Held' /\ Requested'
    <2>1. PICK b \in Claimable :
             /\ backup' = [backup EXCEPT ![b] =
                             [status |-> "processing", worker |-> w,
                              lease |-> "live", old |-> FALSE]]
             /\ wk' = [wk EXCEPT ![w] = [pc |-> "claimed", backup |-> b]]
             /\ tr' = tr
      BY <1>5 DEF ClaimNextBackup
    <2>2. b \in Backups /\ backup[b].status # "absent"
      BY DEF Claimable, With
    <2>3. \A v \in Workers : ~Runs(v, b)
      BY ClaimableIsFree
    <2> QED
      BY <2>1, <2>2, <2>3 DEF Runs
  <1>6. ASSUME NEW w \in Workers, WorkerStep(w) \/ Raise(w) \/ Crash(w)
        PROVE  Held' /\ Requested'
    <2>1. CASE StartBackup(w)
      BY <2>1 DEF StartBackup
    <2>2. CASE Upload(w)
      BY <2>2 DEF Upload
    <2>3. CASE BackupSuccess(w)
      BY <2>3 DEF BackupSuccess, Statuses
    <2>4. CASE Notify(w)
      BY <2>4 DEF Notify
    <2>5. CASE BackupFailed(w)
      BY <2>5 DEF BackupFailed, Statuses
    <2>6. CASE Raise(w)
      BY <2>6 DEF Raise
    <2>7. CASE Crash(w)
      BY <2>7 DEF Crash
    <2> QED
      BY <1>6, <2>1, <2>2, <2>3, <2>4, <2>5, <2>6, <2>7 DEF WorkerStep
  <1>7. ASSUME NEW b \in Backups, LeaseExpires(b)
        PROVE  Held' /\ Requested'
    <2>1. \A w \in Workers : ~Runs(w, b)
      BY <1>7 DEF LeaseExpires
    <2>2. /\ wk' = wk /\ tr' = tr
          /\ \A c \in Backups : backup'[c].status = backup[c].status
          /\ \A c \in Backups \ {b} : backup'[c] = backup[c]
      BY <1>7 DEF LeaseExpires
    <2> QED
      BY <2>1, <2>2 DEF Runs
  <1>8. ASSUME NEW b \in Backups, WaitsTooLong(b)
        PROVE  Held' /\ Requested'
    BY <1>8 DEF WaitsTooLong
  <1>9. CASE UNCHANGED vars
    BY <1>9 DEF vars
  <1> QED
    BY <1>2, <1>3, <1>4, <1>5, <1>6, <1>7, <1>8, <1>9 DEF Next
-----------------------------------------------------------------------------
(* The refinement: every step of the backups is a step of the claim queue  *)
(* or leaves it as it is.                                                  *)

(* The queue's view of a backup, by the status of its row. *)
LEMMA PhaseOf ==
    ASSUME Types, NEW b \in Backups
    PROVE  /\ backup[b].status = "absent" <=> phases[b] = "absent"
           /\ backup[b].status = "pending" <=> phases[b] = "queued"
           /\ backup[b].status = "processing" <=> phases[b] = "taken"
           /\ backup[b].status \in {"success", "failed"} <=> phases[b] = "out"
  BY DEF phases, Types, TypeOK, Rows, Statuses

(* Rows that keep their status keep their phase. *)
LEMMA SamePhases ==
    ASSUME \A b \in Backups : backup'[b].status = backup[b].status
    PROVE  phases' = phases
  BY DEF phases

(* A row that changes its status alone changes its phase alone. *)
LEMMA OnePhase ==
    ASSUME Types, Types', NEW b \in Backups, NEW phase,
           \A c \in Backups \ {b} : backup'[c].status = backup[c].status,
           phases'[b] = phase
    PROVE  phases' = [phases EXCEPT ![b] = phase]
  BY DEF phases

(* A worker that goes on with its backup changes no set of runners. *)
LEMMA SameRunners ==
    ASSUME \A v \in Workers : /\ wk'[v].pc # "idle" <=> wk[v].pc # "idle"
                              /\ wk'[v].backup = wk[v].backup
    PROVE  running' = running
  <1>1. \A v \in Workers, b \in Backups : Runs(v, b)' <=> Runs(v, b)
    BY DEF Runs
  <1>2. \A b \in Backups : {v \in Workers : Runs(v, b)'}
                              = {v \in Workers : Runs(v, b)}
    BY <1>1
  <1>3. running' = [b \in Backups |-> {v \in Workers : Runs(v, b)'}]
    BY DEF running
  <1> QED
    BY <1>2, <1>3, Zenon DEF running

(* A worker that becomes idle leaves the runners of its backup. *)
LEMMA RunnerLeaves ==
    ASSUME NEW w \in Workers, NEW b \in Backups,
           wk[w].pc # "idle", wk[w].backup = b, wk'[w].pc = "idle",
           \A v \in Workers \ {w} : wk'[v] = wk[v]
    PROVE  running' = [running EXCEPT ![b] = @ \ {w}]
  <1>1. \A v \in Workers : Runs(v, b)' <=> Runs(v, b) /\ v # w
    BY DEF Runs
  <1>2. \A c \in Backups \ {b} : \A v \in Workers : Runs(v, c)' <=> Runs(v, c)
    BY DEF Runs
  <1>3. {v \in Workers : Runs(v, b)'} = {v \in Workers : Runs(v, b)} \ {w}
    BY <1>1
  <1>4. \A c \in Backups \ {b} : {v \in Workers : Runs(v, c)'}
                                    = {v \in Workers : Runs(v, c)}
    BY <1>2
  <1>5. running' = [c \in Backups |-> {v \in Workers : Runs(v, c)'}]
    BY DEF running
  <1>6. \A c \in Backups :
           running'[c] = IF c = b THEN running[c] \ {w} ELSE running[c]
    BY <1>3, <1>4, <1>5 DEF running
  <1> QED
    BY <1>5, <1>6 DEF running

QueueStep == [Queue!Next]_<<phases, running>>

(* A worker that stops, with its row's phase kept or out, is a Stop. *)
LEMMA StopRefines ==
    ASSUME Types, NEW w \in Workers, NEW b \in Backups,
           wk[w].pc # "idle", wk[w].backup = b,
           running' = [running EXCEPT ![b] = @ \ {w}],
           \/ phases' = phases
           \/ phases' = [phases EXCEPT ![b] = "out"]
    PROVE  QueueStep
  <1>1. w \in running[b]
    BY DEF running, Runs
  <1>2. phases = [phases EXCEPT ![b] = phases[b]]
    BY DEF phases
  <1>3. \E q \in {phases[b], "out"} : phases' = [phases EXCEPT ![b] = q]
    BY <1>2
  <1>4. Queue!Stop(w, b)
    BY <1>1, <1>3 DEF Queue!Stop
  <1> QED
    BY <1>4 DEF QueueStep, Queue!Next

(* A row that gets an outcome while the runners stay is a Leave, unless it *)
(* had one already.                                                        *)
LEMMA LeaveRefines ==
    ASSUME Types, Types', NEW b \in Backups,
           backup[b].status # "absent",
           backup'[b].status \in {"success", "failed"},
           \A c \in Backups \ {b} : backup'[c].status = backup[c].status,
           running' = running
    PROVE  QueueStep
  <1>1. phases' = [phases EXCEPT ![b] = "out"]
    <2>1. phases'[b] = "out"
      BY DEF phases
    <2> QED
      BY <2>1, OnePhase
  <1>2. CASE backup[b].status \in {"success", "failed"}
    <2>1. phases[b] = "out"
      BY <1>2, PhaseOf
    <2>2. phases' = phases
      BY <1>1, <2>1 DEF phases
    <2> QED
      BY <2>2 DEF QueueStep
  <1>3. CASE backup[b].status \in {"pending", "processing"}
    <2>1. phases[b] \in {"queued", "taken"}
      BY <1>3, PhaseOf
    <2>2. Queue!Leave(b)
      BY <1>1, <2>1 DEF Queue!Leave
    <2> QED
      BY <2>2 DEF QueueStep, Queue!Next
  <1>4. backup[b].status \in Statuses \ {"absent"}
    BY DEF Types, TypeOK, Rows
  <1> QED
    BY <1>2, <1>3, <1>4 DEF Statuses

(* Every step of the backups, seen from the queue. *)
LEMMA NextRefines ==
    ASSUME LeaseOutlastsBackup, ClaimInv, [Next]_vars
    PROVE  QueueStep
  <1>1. Types /\ Types' /\ ClaimInv'
    BY NextClaim, NextTypes DEF ClaimInv
  <1>2. ASSUME phases' = phases, running' = running
        PROVE  QueueStep
    BY <1>2 DEF QueueStep
  <1> USE <1>1, RowWrites DEF Types, TypeOK
  <1>3. ASSUME NEW r \in Backups, TriggerBackup(r)
        PROVE  QueueStep
    <2>1. phases' = phases /\ running' = running
      BY <1>3, LookEffect DEF phases, running, Runs
    <2> QED
      BY <2>1, <1>2
  <1>4. ASSUME NEW r \in Backups, FailStale(r)
        PROVE  QueueStep
    <2> DEFINE b == tr[r].stale
    <2>1. b \in Backups /\ backup[b].status # "absent"
      BY <1>4 DEF FailStale, ClaimInv, Requested
    <2>2. /\ backup'[b].status = "failed"
          /\ \A c \in Backups \ {b} : backup'[c].status = backup[c].status
      <3>1. CASE tr[r].loaded.worker # NoWorker
        <4>1. backup' = [backup EXCEPT ![b] = Unclaimed("failed")]
          BY <1>4, <3>1 DEF FailStale
        <4> QED
          BY <2>1, <4>1 DEF Statuses
      <3>2. CASE tr[r].loaded.worker = NoWorker
        <4>1. backup' = [backup EXCEPT ![b] =
                            [backup[b] EXCEPT !.status = "failed"]]
          BY <1>4, <3>2 DEF FailStale
        <4> QED
          BY <2>1, <4>1
      <3> QED
        BY <3>1, <3>2
    <2>3. running' = running
      BY <1>4, SameRunners DEF FailStale
    <2> QED
      BY <2>1, <2>2, <2>3, LeaveRefines
  <1>5. ASSUME NEW r \in Backups, CreateBackup(r)
        PROVE  QueueStep
    <2>1. running' = running
      BY <1>5, SameRunners DEF CreateBackup
    <2>2. CASE backup' = backup
      BY <1>2, <2>1, <2>2 DEF phases
    <2>3. CASE backup' = [backup EXCEPT ![r] = Unclaimed("pending")]
      <3>1. phases[r] = "absent"
        BY <1>5, PhaseOf DEF CreateBackup, ClaimInv, Requested
      <3>2. phases' = [phases EXCEPT ![r] = "queued"]
        BY <2>3, OnePhase DEF phases, Statuses
      <3>3. Queue!Enqueue(r)
        BY <2>1, <3>1, <3>2 DEF Queue!Enqueue
      <3> QED
        BY <3>3 DEF QueueStep, Queue!Next
    <2> QED
      BY <1>5, <2>2, <2>3 DEF CreateBackup
  <1>6. ASSUME NEW w \in Workers, ClaimNextBackup(w)
        PROVE  QueueStep
    <2>1. PICK b \in Claimable :
             /\ wk[w].pc = "idle"
             /\ backup' = [backup EXCEPT ![b] =
                             [status |-> "processing", worker |-> w,
                              lease |-> "live", old |-> FALSE]]
             /\ wk' = [wk EXCEPT ![w] = [pc |-> "claimed", backup |-> b]]
      BY <1>6 DEF ClaimNextBackup
    <2>2. b \in Backups /\ backup[b].status \in {"pending", "processing"}
      BY DEF Claimable, With
    <2>3. phases[b] \in {"queued", "taken"}
      BY <2>2, PhaseOf
    <2>4. running[b] = {} /\ \A c \in Backups : w \notin running[c]
      BY <2>1, <2>2, ClaimableIsFree DEF running, Runs
    <2>5. phases' = [phases EXCEPT ![b] = "taken"]
      BY <2>1, <2>2, OnePhase DEF phases
    <2>6. running' = [running EXCEPT ![b] = {w}]
      <3>1. \A v \in Workers : Runs(v, b)' <=> v = w
        BY <2>1, <2>2, ClaimableIsFree DEF Runs
      <3>2. \A c \in Backups \ {b}, v \in Workers : Runs(v, c)' <=> Runs(v, c)
        BY <2>1, <2>2 DEF Runs
      <3>3. {v \in Workers : Runs(v, b)'} = {w}
        BY <3>1
      <3>4. \A c \in Backups \ {b} : {v \in Workers : Runs(v, c)'}
                                        = {v \in Workers : Runs(v, c)}
        BY <3>2
      <3>5. running' = [c \in Backups |-> {v \in Workers : Runs(v, c)'}]
        BY DEF running
      <3>6. \A c \in Backups :
               running'[c] = IF c = b THEN {w} ELSE running[c]
        BY <3>3, <3>4, <3>5 DEF running
      <3> QED
        BY <3>5, <3>6 DEF running
    <2>7. Queue!Take(w, b)
      BY <2>3, <2>4, <2>5, <2>6 DEF Queue!Take
    <2> QED
      BY <2>2, <2>7 DEF QueueStep, Queue!Next
  <1>7. ASSUME NEW w \in Workers, WorkerStep(w) \/ Raise(w) \/ Crash(w)
        PROVE  QueueStep
    <2> DEFINE b == wk[w].backup
    <2>1. wk[w].pc # "idle" /\ b \in Backups
      BY <1>7 DEF WorkerStep, StartBackup, Upload, BackupSuccess, Notify,
                  BackupFailed, Raise, Crash
    <2>2. \A v \in Workers \ {w} : wk'[v] = wk[v]
      BY <1>7 DEF WorkerStep, StartBackup, Upload, BackupSuccess, Notify,
                  BackupFailed, Raise, Crash
    <2>3. ASSUME backup' = backup, wk'[w].backup = b
          PROVE  QueueStep
      <3>1. phases' = phases
        BY <2>3 DEF phases
      <3>2. CASE wk'[w].pc = "idle"
        BY <2>1, <2>2, <3>1, <3>2, RunnerLeaves, StopRefines
      <3>3. CASE wk'[w].pc # "idle"
        <4>1. running' = running
          BY <2>1, <2>2, <2>3, <3>3, SameRunners
        <4> QED
          BY <1>2, <3>1, <4>1
      <3> QED
        BY <3>2, <3>3
    <2>4. CASE BackupSuccess(w)
      <3>1. /\ backup'[b].status = "success"
            /\ \A c \in Backups \ {b} : backup'[c].status = backup[c].status
        BY <2>1, <2>4 DEF BackupSuccess, Statuses
      <3>2. backup[b].status # "absent"
        BY <2>1 DEF ClaimInv, Held
      <3>3. running' = running
        BY <2>1, <2>4, SameRunners DEF BackupSuccess
      <3> QED
        BY <2>1, <3>1, <3>2, <3>3, LeaveRefines
    <2>5. CASE BackupFailed(w)
      <3>1. phases'[b] = "out"
        BY <2>1, <2>5 DEF BackupFailed, Statuses, phases
      <3>2. phases' = [phases EXCEPT ![b] = "out"]
        BY <2>1, <2>5, <3>1, OnePhase DEF BackupFailed
      <3>3. wk'[w].pc = "idle"
        BY <2>5 DEF BackupFailed
      <3> QED
        BY <2>1, <2>2, <3>2, <3>3, RunnerLeaves, StopRefines
    <2>6. CASE StartBackup(w)
      BY <2>3, <2>6 DEF StartBackup
    <2>7. CASE Upload(w)
      BY <2>3, <2>7 DEF Upload
    <2>8. CASE Notify(w)
      BY <2>3, <2>8 DEF Notify
    <2>9. CASE Raise(w)
      BY <2>3, <2>9 DEF Raise
    <2>10. CASE Crash(w)
      BY <2>3, <2>10 DEF Crash
    <2> QED
      BY <1>7, <2>4, <2>5, <2>6, <2>7, <2>8, <2>9, <2>10 DEF WorkerStep
  <1>8. ASSUME NEW b \in Backups, LeaseExpires(b) \/ WaitsTooLong(b)
        PROVE  QueueStep
    <2>1. \A c \in Backups : backup'[c].status = backup[c].status
      <3>1. CASE LeaseExpires(b)
        BY <3>1 DEF LeaseExpires
      <3>2. CASE WaitsTooLong(b)
        BY <3>2 DEF WaitsTooLong
      <3> QED
        BY <1>8, <3>1, <3>2
    <2>2. running' = running
      BY <1>8, SameRunners DEF LeaseExpires, WaitsTooLong
    <2> QED
      BY <1>2, <2>1, <2>2, SamePhases
  <1>9. CASE UNCHANGED vars
    <2>1. phases' = phases /\ running' = running
      BY <1>9 DEF vars, phases, running, Runs
    <2> QED
      BY <1>2, <2>1
  <1> QED
    BY <1>3, <1>4, <1>5, <1>6, <1>7, <1>8, <1>9 DEF Next

(* As long as no backup outlasts its lease, backups are jobs of the        *)
(* abstract claim queue: one worker at a time, and out for good - with any *)
(* overlap of requests, which fail backups on a stale look.                *)
THEOREM BackupsAreClaimed == LeaseOutlastsBackup => (Spec => ImplementsClaimQueue)
  <1> SUFFICES ASSUME LeaseOutlastsBackup
               PROVE  Spec => ImplementsClaimQueue
    OBVIOUS
  <1>1. Init => ClaimInv
    <2>1. Unclaimed("absent").status = "absent"
      BY RowWrites DEF Statuses
    <2> QED
      BY <2>1, InitTypes DEF Init, ClaimInv, Held, Requested, Absent
  <1>2. Init => Queue!Init
    <2>1. Init => phases = [b \in Backups |-> "absent"]
      BY RowWrites DEF Init, phases, Absent, Statuses
    <2>2. Init => running = [b \in Backups |-> {}]
      BY DEF Init, running, Runs
    <2> QED
      BY <2>1, <2>2 DEF Queue!Init
  <1>3. ClaimInv /\ [Next]_vars => ClaimInv'
    BY NextClaim
  <1>4. ClaimInv /\ [Next]_vars => [Queue!Next]_<<phases, running>>
    BY NextRefines DEF QueueStep
  <1> QED
    BY <1>1, <1>2, <1>3, <1>4, PTL DEF Spec, ImplementsClaimQueue, Queue!Spec
-----------------------------------------------------------------------------
(* Why a second active backup needs an outdated look: a request that has   *)
(* missed no insert since it looked saw no active backup, or fails the     *)
(* only one, and nothing but an insert makes a backup active.  Never three *)
(* of them: at most one backup has either of the two active states.        *)
PerStatus == \A b, c \in Active : backup[b].status = backup[c].status => b = c
OnlyOne == \A b, c \in Active : b = c
Expected(r) == ~tr[r].missed =>
                  /\ tr[r].pc = "fail" => Active \subseteq {tr[r].stale}
                  /\ tr[r].pc = "create" => Active = {}
ActiveInv == /\ Types
             /\ PerStatus
             /\ Raced = {} => OnlyOne /\ \A r \in Backups : Expected(r)

(* A row that exists goes on to exist. *)
RowsRemain == \A b \in Backups : backup[b].status # "absent"
                                   => backup'[b].status # "absent"

(* A step of a worker, or of time, makes no backup active.                 *)
LEMMA WorkersActivateNone ==
    ASSUME Types, PerStatus,
           \/ \E w \in Workers : ClaimNextBackup(w) \/ WorkerStep(w) \/ Raise(w) \/ Crash(w)
           \/ \E b \in Backups : LeaseExpires(b) \/ WaitsTooLong(b)
    PROVE  Active' \subseteq Active /\ tr' = tr /\ RowsRemain /\ PerStatus'
  <1> DEFINE Goal == Active' \subseteq Active /\ tr' = tr /\ RowsRemain /\ PerStatus'
  <1> USE RowWrites DEF Types, TypeOK, Active
  <1>1. ASSUME NEW w \in Workers, ClaimNextBackup(w)
        PROVE  Goal
    <2>1. PICK b \in Claimable :
             /\ With("processing") \subseteq {b}
             /\ backup' = [backup EXCEPT ![b] = [status |-> "processing", worker |-> w,
                                                 lease |-> "live", old |-> FALSE]]
      BY <1>1 DEF ClaimNextBackup
    <2>2. b \in Active
      BY DEF Claimable, With
    <2>3. /\ backup'[b].status = "processing"
          /\ \A c \in Backups \ {b} : backup'[c] = backup[c]
      BY <2>1, <2>2
    <2>4. Active' \subseteq Active /\ tr' = tr /\ RowsRemain
      BY <1>1, <2>2, <2>3 DEF ClaimNextBackup, RowsRemain
    <2>5. \A c \in Active' : backup'[c].status = "processing" => c = b
      BY <2>1, <2>3 DEF With
    <2>6. PerStatus'
      BY <2>3, <2>4, <2>5 DEF PerStatus
    <2> QED
      BY <2>4, <2>6
  <1>2. ASSUME \A b \in Backups : \/ backup'[b].status = backup[b].status
                                  \/ backup'[b].status \in {"success", "failed"},
               tr' = tr
        PROVE  Goal
    BY <1>2 DEF PerStatus, RowsRemain
  <1>3. ASSUME NEW w \in Workers, WorkerStep(w) \/ Raise(w) \/ Crash(w)
        PROVE  Goal
    <2>1. CASE BackupSuccess(w)
      <3>1. backup' = [backup EXCEPT ![wk[w].backup] = Unclaimed("success")]
        BY <2>1 DEF BackupSuccess
      <3>2. \A b \in Backups : backup'[b] = backup[b] \/ backup'[b].status = "success"
        BY <3>1 DEF Statuses
      <3> QED
        BY <1>2, <2>1, <3>2 DEF BackupSuccess
    <2>2. CASE BackupFailed(w)
      <3>1. backup' = [backup EXCEPT ![wk[w].backup] = Unclaimed("failed")]
        BY <2>2 DEF BackupFailed
      <3>2. \A b \in Backups : backup'[b] = backup[b] \/ backup'[b].status = "failed"
        BY <3>1 DEF Statuses
      <3> QED
        BY <1>2, <2>2, <3>2 DEF BackupFailed
    <2> QED
      BY <1>2, <1>3, <2>1, <2>2
         DEF WorkerStep, StartBackup, Upload, Notify, Raise, Crash
  <1>4. ASSUME NEW b \in Backups, LeaseExpires(b) \/ WaitsTooLong(b)
        PROVE  Goal
    <2>1. \A c \in Backups : backup'[c].status = backup[c].status
      <3>1. CASE LeaseExpires(b)
        BY <3>1 DEF LeaseExpires
      <3>2. CASE WaitsTooLong(b)
        BY <3>2 DEF WaitsTooLong
      <3> QED
        BY <1>4, <3>1, <3>2
    <2> QED
      BY <1>2, <1>4, <2>1 DEF LeaseExpires, WaitsTooLong
  <1> QED
    BY <1>1, <1>3, <1>4

(* Every step keeps ActiveInv.                                             *)
LEMMA NextActive ==
    ASSUME ActiveInv, [Next]_vars
    PROVE  ActiveInv'
  <1> DEFINE Goal == /\ PerStatus'
                     /\ Raced' = {} => OnlyOne' /\ \A r \in Backups : Expected(r)'
  <1>1. Types'
    BY NextTypes DEF ActiveInv
  <1> SUFFICES Goal
    BY <1>1 DEF ActiveInv
  <1> USE RowWrites DEF ActiveInv, Types, TypeOK
  <1>2. ASSUME Active' \subseteq Active, tr' = tr, RowsRemain, PerStatus'
        PROVE  Goal
    <2>1. Raced' = {} => Raced = {}
      BY <1>2 DEF Raced, RowsRemain
    <2> QED
      BY <1>2, <2>1 DEF OnlyOne, Expected
  <1>3. ASSUME NEW r \in Backups, TriggerBackup(r)
        PROVE  Goal
    <2>1. /\ Active' = Active
          /\ \A q \in Backups : backup'[q] = backup[q]
      BY <1>3, LookEffect DEF Active
    <2>2. /\ \A q \in Backups : q # r => tr'[q] = tr[q]
          /\ tr'[r].missed = tr[r].missed
          /\ \/ tr'[r].pc = "create" /\ Active = {}
             \/ tr'[r].pc = "done"
             \/ tr'[r].pc = "fail" /\ tr'[r].stale \in Active
      BY <1>3, LookEffect
    <2>3. Raced' = Raced
      BY <2>1, <2>2 DEF Raced
    <2>4. PerStatus' /\ (OnlyOne => OnlyOne')
      BY <2>1 DEF PerStatus, OnlyOne, Active
    <2>5. OnlyOne /\ (\A q \in Backups : Expected(q)) => \A q \in Backups : Expected(q)'
      BY <2>1, <2>2 DEF Expected, OnlyOne
    <2> QED
      BY <2>3, <2>4, <2>5
  <1>4. ASSUME NEW r \in Backups, FailStale(r)
        PROVE  Goal
    <2> DEFINE b == tr[r].stale
    <2>1. b \in Backups
      BY <1>4 DEF FailStale
    <2>2. /\ backup'[b].status = "failed"
          /\ \A c \in Backups \ {b} : backup'[c].status = backup[c].status
      <3>1. CASE tr[r].loaded.worker # NoWorker
        <4>1. backup' = [backup EXCEPT ![b] = Unclaimed("failed")]
          BY <1>4, <3>1 DEF FailStale
        <4> QED
          BY <2>1, <4>1 DEF Statuses
      <3>2. CASE tr[r].loaded.worker = NoWorker
        <4>1. backup' = [backup EXCEPT ![b] =
                            [backup[b] EXCEPT !.status = "failed"]]
          BY <1>4, <3>2 DEF FailStale
        <4> QED
          BY <2>1, <4>1
      <3> QED
        BY <3>1, <3>2
    <2>3. Active' = Active \ {b}
      BY <2>1, <2>2 DEF Active
    <2>4. /\ tr[r].pc = "fail" /\ tr'[r].pc = "create"
          /\ \A q \in Backups : tr'[q].missed = tr[q].missed
          /\ \A q \in Backups \ {r} : tr'[q] = tr[q]
      BY <1>4 DEF FailStale
    <2>5. Raced' = {} => Raced = {}
      BY <2>2, <2>4 DEF Raced
    <2>6. PerStatus' /\ (OnlyOne => OnlyOne')
      BY <2>2, <2>3 DEF PerStatus, OnlyOne, Active
    <2>7. (\A q \in Backups : Expected(q)) => \A q \in Backups : Expected(q)'
      BY <2>3, <2>4 DEF Expected
    <2> QED
      BY <2>5, <2>6, <2>7
  <1>5. ASSUME NEW r \in Backups, CreateBackup(r)
        PROVE  Goal
    <2>1. CASE With("pending") # {}
      <3>1. backup' = backup
        BY <1>5, <2>1 DEF CreateBackup
      <3>2. /\ \A q \in Backups \ {r} : tr'[q] = tr[q]
            /\ tr'[r].pc = "done" /\ tr'[r].missed = tr[r].missed
        BY <1>5, <2>1, InsertEffect
      <3>3. Raced' = Raced /\ Active' = Active
        BY <3>1, <3>2 DEF Raced, Active
      <3> QED
        BY <3>1, <3>2, <3>3 DEF PerStatus, OnlyOne, Expected
    <2>2. CASE With("pending") = {}
      <3>1. /\ backup'[r].status = "pending"
            /\ \A q \in Backups \ {r} : backup'[q] = backup[q]
        BY <1>5, <2>2 DEF CreateBackup, Statuses
      <3>2. /\ tr[r].pc = "create" /\ tr'[r].pc = "done" /\ tr'[r].missed = tr[r].missed
            /\ \A q \in Backups \ {r} : /\ tr'[q].pc = tr[q].pc
                                        /\ tr[q].missed => tr'[q].missed
                                        /\ InProgress(q) => tr'[q].missed
        BY <1>5, <2>2, InsertEffect
      <3>3. Active' \subseteq Active \cup {r}
        BY <3>1 DEF Active
      <3>4. Raced' = {} => Raced = {} /\ ~tr[r].missed
        BY <3>1, <3>2 DEF Raced
      <3>5. PerStatus'
        BY <2>2, <3>1, <3>3 DEF PerStatus, Active, With
      <3>6. Raced' = {} => Active = {}
        BY <3>2, <3>4 DEF Expected
      <3>7. Raced' = {} => OnlyOne'
        BY <3>3, <3>6 DEF OnlyOne
      <3>8. \A q \in Backups : Expected(q)'
        BY <3>2 DEF Expected, InProgress
      <3> QED
        BY <3>5, <3>7, <3>8
    <2> QED
      BY <2>1, <2>2
  <1>6. CASE UNCHANGED vars
    <2>1. Active' \subseteq Active /\ tr' = tr /\ RowsRemain /\ PerStatus'
      BY <1>6 DEF vars, Active, RowsRemain, PerStatus
    <2> QED
      BY <1>2, <2>1
  <1> QED
    BY <1>2, <1>3, <1>4, <1>5, <1>6, WorkersActivateNone DEF Next

(* A set that has at most one element of each of two kinds is small.       *)
LEMMA AtMostOne ==
    ASSUME NEW S, \A x, y \in S : x = y
    PROVE  IsFiniteSet(S) /\ Cardinality(S) \in {0, 1}
  <1>1. CASE S = {}
    BY <1>1, FS_EmptySet
  <1>2. CASE \E x : x \in S
    <2>1. PICK x : S = {x}
      BY <1>2
    <2>2. IsFiniteSet({x}) /\ Cardinality({x}) = 1
      BY FS_Singleton, Zenon
    <2> QED
      BY <2>1, <2>2
  <1> QED
    BY <1>1, <1>2

(* Two backups are active only after a request has inserted its row on a   *)
(* look that missed another's insert (trigger_backup looks and inserts in  *)
(* two transactions), and never three, however requests, claims, crashes   *)
(* and leases interleave.                                                  *)
THEOREM SecondBackupsRace == Spec => []SecondBackupRaces
  <1>1. Init => ActiveInv
    <2>1. Init => /\ \A b \in Backups : backup[b].status = "absent"
                  /\ \A r \in Backups : tr[r].pc = "new"
      BY RowWrites DEF Init, Absent, Statuses
    <2> QED
      BY <2>1, InitTypes DEF ActiveInv, PerStatus, OnlyOne, Expected, Active
  <1>2. ActiveInv => SecondBackupRaces
    <2> SUFFICES ASSUME ActiveInv
                 PROVE  Cardinality(Active) <= IF Raced = {} THEN 1 ELSE 2
      BY DEF SecondBackupRaces
    <2>1. ASSUME Raced = {}
          PROVE  Cardinality(Active) <= 1
      BY <2>1, AtMostOne DEF ActiveInv, OnlyOne
    <2>2. Cardinality(Active) <= 2
      <3>1. Active = With("pending") \cup With("processing")
        BY DEF Active, With
      <3>2. /\ \A b, c \in With("pending") : b = c
            /\ \A b, c \in With("processing") : b = c
        BY DEF ActiveInv, PerStatus, Active, With
      <3>3. /\ IsFiniteSet(With("pending")) /\ Cardinality(With("pending")) \in {0, 1}
            /\ IsFiniteSet(With("processing")) /\ Cardinality(With("processing")) \in {0, 1}
        BY <3>2, AtMostOne
      <3>4. With("pending") \cap With("processing") = {}
        BY DEF With
      <3>5. Cardinality(Active) = Cardinality(With("pending")) + Cardinality(With("processing"))
        BY <3>1, <3>3, <3>4, FS_Union, FS_EmptySet
      <3> QED
        BY <3>3, <3>5
    <2> QED
      BY <2>1, <2>2
  <1> QED
    BY <1>1, <1>2, NextActive, PTL DEF Spec
=============================================================================
