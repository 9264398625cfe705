-------------------------- MODULE ImportJobsProofs --------------------------
(* Proofs about ImportJobs, for every set of workers, requests, rows and    *)
(* media.                                                                   *)
EXTENDS ImportJobs, TLAPS

(* A session's record fits its program counter: what a later commit uses    *)
(* has been staged.                                                         *)
WorkerRecordOK(s) ==
    /\ s \in WorkerRecords
    /\ s.pc \in {"match", "item"} => s.row \in s.todo
    /\ s.pc = "item" => /\ s.put \in ItemStatuses \ {"PENDING", "MATCHED"}
                        /\ s.put = "IMPORTED" => s.media \in Media
RequestRecordOK(s) ==
    /\ s \in RequestRecords
    /\ s.pc = "resolve" =>
         /\ s.item \in Items
         /\ s.put \in {"SKIPPED", "IMPORTED"}
         /\ s.put = "IMPORTED" => s.media \in Media /\ s.value \in Values

TypeInv == /\ TypeOK
           /\ \A w \in Workers : WorkerRecordOK(wk[w])
           /\ \A r \in Requests : RequestRecordOK(rq[r])
-----------------------------------------------------------------------------
(* Every UPDATE the module stages is well typed. *)
LEMMA UpdateTypes ==
    /\ NoChange \in JobUpdates
    /\ \A loaded, s : s \in JobStatuses => Terminal(loaded, s) \in JobUpdates
    /\ \A view, loaded : Finalize(view, loaded) \in JobUpdates
    /\ \A upd, loaded, w : upd \in JobUpdates => Renew(upd, loaded, w) \in JobUpdates
    /\ \A upd, row, w : upd \in JobUpdates => Release(upd, row, w) \in JobUpdates
<1>1. NoChange \in JobUpdates
  BY DEF NoChange, JobUpdates
<1>2. ASSUME NEW loaded, NEW s \in JobStatuses
      PROVE  Terminal(loaded, s) \in JobUpdates
  BY DEF Terminal, JobUpdates, Column, Leases
<1>3. ASSUME NEW view, NEW loaded
      PROVE  Finalize(view, loaded) \in JobUpdates
  BY <1>1, <1>2 DEF Finalize, JobUpdates, NoChange, Column, JobStatuses
<1>4. ASSUME NEW upd \in JobUpdates, NEW loaded, NEW w
      PROVE  Renew(upd, loaded, w) \in JobUpdates
  BY DEF Renew, JobUpdates, Leases
<1>5. ASSUME NEW upd \in JobUpdates, NEW row, NEW w
      PROVE  Release(upd, row, w) \in JobUpdates
  BY DEF Release, JobUpdates, Leases
<1>6. QED
  BY <1>1, <1>2, <1>3, <1>4, <1>5

(* Committing a well-typed UPDATE leaves a well-typed row. *)
LEMMA UpdatedType ==
    ASSUME TypeOK, NEW upd \in JobUpdates
    PROVE  Updated(job, upd) \in [status : JobStatuses,
                                  worker : Workers \cup {NoWorker},
                                  lease : Leases]
BY DEF TypeOK, Updated, Written, JobUpdates
-----------------------------------------------------------------------------
LEMMA EmptyRecords ==
    /\ WorkerRecordOK(Idle)
    /\ RequestRecordOK(NoRequest)
BY UpdateTypes DEF WorkerRecordOK, WorkerRecords, WorkerPcs, Idle,
                   RequestRecordOK, RequestRecords, NoRequest

LEMMA InitTypeInv == Init => TypeInv
BY EmptyRecords DEF Init, TypeInv, TypeOK, WorkerRecordOK, RequestRecordOK,
                    JobStatuses, Leases, ItemStatuses

(* Replacing one record by a good one keeps all of them good. *)
LEMMA WorkerSetOK ==
    ASSUME TypeInv, NEW w \in Workers, NEW s, WorkerRecordOK(s),
           wk' = [wk EXCEPT ![w] = s]
    PROVE  /\ wk' \in [Workers -> WorkerRecords]
           /\ \A v \in Workers : WorkerRecordOK(wk'[v])
BY DEF TypeInv, TypeOK, WorkerRecordOK

LEMMA RequestSetOK ==
    ASSUME TypeInv, NEW r \in Requests, NEW s, RequestRecordOK(s),
           rq' = [rq EXCEPT ![r] = s]
    PROVE  /\ rq' \in [Requests -> RequestRecords]
           /\ \A v \in Requests : RequestRecordOK(rq'[v])
BY DEF TypeInv, TypeOK, RequestRecordOK

(* Steps of one worker that leave the database alone. *)
LEMMA WorkerOnlyStep ==
    ASSUME TypeInv, NEW w \in Workers, NEW s, WorkerRecordOK(s),
           wk' = [wk EXCEPT ![w] = s],
           UNCHANGED <<job, item, entry, rq>>, crashes' \in Nat
    PROVE  TypeInv'
<1>1. /\ wk' \in [Workers -> WorkerRecords]
      /\ \A v \in Workers : WorkerRecordOK(wk'[v])
  BY WorkerSetOK
<1>2. QED
  BY <1>1 DEF TypeInv, TypeOK

LEMMA NextTypeInv == TypeInv /\ [Next]_vars => TypeInv'
<1> SUFFICES ASSUME TypeInv, [Next]_vars PROVE TypeInv'
  OBVIOUS
<1> USE ConstantsAssumption
<1>1. ASSUME NEW w \in Workers, Claim(w) PROVE TypeInv'
  <2>1. WorkerRecordOK([wk[w] EXCEPT !.pc = "claimed"])
    BY <1>1 DEF Claim, TypeInv, WorkerRecordOK, WorkerRecords, WorkerPcs
  <2>2. /\ wk' \in [Workers -> WorkerRecords]
        /\ \A v \in Workers : WorkerRecordOK(wk'[v])
    BY <1>1, <2>1, WorkerSetOK DEF Claim, TypeInv, TypeOK
  <2>3. QED
    BY <1>1, <2>2 DEF Claim, TypeInv, TypeOK, JobStatuses, Leases
<1>2. ASSUME NEW w \in Workers, LoadPending(w) PROVE TypeInv'
  <2> DEFINE pending == {i \in Items : item[i] = "PENDING"}
             s == [Idle EXCEPT !.pc = "loop", !.todo = pending, !.cached = pending]
  <2>1. WorkerRecordOK(s)
    BY EmptyRecords DEF Idle, WorkerRecordOK, WorkerRecords, WorkerPcs
  <2>2. WorkerRecordOK(IF Owns(w) THEN s ELSE Idle)
    BY <2>1, EmptyRecords
  <2>3. QED
    BY <1>2, <2>2, WorkerOnlyStep DEF LoadPending, TypeInv, TypeOK
<1>3. ASSUME NEW w \in Workers, NextItem(w) PROVE TypeInv'
  <2>1. PICK i \in wk[w].todo :
          wk' = [wk EXCEPT ![w] =
                   IF Owns(w) THEN [wk[w] EXCEPT !.pc = "match", !.row = i]
                              ELSE Idle]
    BY <1>3 DEF NextItem
  <2>2. WorkerRecordOK([wk[w] EXCEPT !.pc = "match", !.row = i])
    BY <1>3 DEF TypeInv, WorkerRecordOK, WorkerRecords, WorkerPcs
  <2>3. WorkerRecordOK(IF Owns(w) THEN [wk[w] EXCEPT !.pc = "match", !.row = i]
                                  ELSE Idle)
    BY <2>2, EmptyRecords
  <2>4. QED
    BY <1>3, <2>1, <2>3, WorkerOnlyStep DEF NextItem, TypeInv, TypeOK
<1>4. ASSUME NEW w \in Workers, MatchItem(w) PROVE TypeInv'
  <2>1. /\ wk[w].pc = "match"
        /\ wk[w].row \in Items
        /\ WorkerRecordOK(wk[w])
    BY <1>4 DEF MatchItem, TypeInv, TypeOK, WorkerRecordOK, WorkerRecords
  <2>2. PICK saved \in BOOLEAN, m \in Matches[wk[w].row] :
          MatchItem(w)!2!(saved, m)
    BY <1>4 DEF MatchItem
  <2> DEFINE put == CASE m = NoMatch -> "FAILED"
                      [] m = Ambiguous -> "CONFLICT"
                      [] OTHER -> Applied(m, RowValue[wk[w].row], FALSE)
             loaded == IF saved THEN job
                       ELSE [status |-> "PROCESSING", worker |-> w,
                             lease |-> "live"]
             view == [j \in Items |->
                        IF j = wk[w].row THEN put
                        ELSE IF ~saved /\ j \in wk[w].cached THEN "PENDING"
                        ELSE item[j]]
             upd == Renew(Finalize(view, loaded), loaded, w)
             s == [wk[w] EXCEPT !.pc = "item", !.put = put, !.media = m,
                                !.upd = upd]
  <2>3. wk' = [wk EXCEPT ![w] = s]
    BY <2>2
  <2>4. m \in Media \cup {NoMatch, Ambiguous}
    BY <2>1 DEF ConstantsAssumption
  <2>5. /\ put \in ItemStatuses \ {"PENDING", "MATCHED"}
        /\ put = "IMPORTED" => m \in Media
    BY <2>4 DEF Applied, ItemStatuses, NoMatch, Ambiguous
  <2>6. upd \in JobUpdates
    BY UpdateTypes
  <2> HIDE DEF put, upd
  <2>7. WorkerRecordOK(s)
    BY <2>1, <2>4, <2>5, <2>6 DEF WorkerRecordOK, WorkerRecords, WorkerPcs
  <2>8. QED
    BY <1>4, <2>3, <2>7, WorkerOnlyStep DEF MatchItem, TypeInv, TypeOK
<1>5. ASSUME NEW w \in Workers, CommitItem(w) PROVE TypeInv'
  <2>1. WorkerRecordOK([Idle EXCEPT !.pc = "error"])
    BY EmptyRecords DEF Idle, WorkerRecordOK, WorkerRecords, WorkerPcs
  <2>2. CASE wk' = [wk EXCEPT ![w] = [Idle EXCEPT !.pc = "error"]]
             /\ UNCHANGED <<job, item, entry>>
    BY <1>5, <2>1, <2>2, WorkerOnlyStep DEF CommitItem, TypeInv, TypeOK
  <2>3. CASE /\ item' = [item EXCEPT ![wk[w].row] = wk[w].put]
             /\ entry' = IF wk[w].put = "IMPORTED"
                         THEN [entry EXCEPT ![wk[w].media] = RowValue[wk[w].row]]
                         ELSE entry
             /\ job' = Updated(job, wk[w].upd)
             /\ wk' = [wk EXCEPT ![w] =
                         [Idle EXCEPT !.pc = "loop",
                                      !.todo = wk[w].todo \ {wk[w].row}]]
    <3>1. /\ wk[w] \in WorkerRecords
          /\ wk[w].row \in Items
          /\ wk[w].put \in ItemStatuses
          /\ wk[w].put = "IMPORTED" => wk[w].media \in Media
          /\ wk[w].upd \in JobUpdates
      BY <1>5 DEF CommitItem, TypeInv, TypeOK, WorkerRecordOK, WorkerRecords
    <3>2. WorkerRecordOK([Idle EXCEPT !.pc = "loop",
                                      !.todo = wk[w].todo \ {wk[w].row}])
      BY <3>1, EmptyRecords DEF Idle, WorkerRecordOK, WorkerRecords, WorkerPcs
    <3>3. /\ wk' \in [Workers -> WorkerRecords]
          /\ \A v \in Workers : WorkerRecordOK(wk'[v])
      BY <2>3, <3>2, WorkerSetOK
    <3>4. job' \in [status : JobStatuses, worker : Workers \cup {NoWorker},
                    lease : Leases]
      BY <2>3, <3>1, UpdatedType DEF TypeInv
    <3>5. item' \in [Items -> ItemStatuses]
      BY <2>3, <3>1 DEF TypeInv, TypeOK
    <3>6. entry' \in [Media -> Values \cup {NoEntry}]
      BY <2>3, <3>1 DEF TypeInv, TypeOK, ConstantsAssumption
    <3>7. QED
      BY <1>5, <3>3, <3>4, <3>5, <3>6 DEF CommitItem, TypeInv, TypeOK
  <2>4. QED
    BY <1>5, <2>2, <2>3 DEF CommitItem
<1>6. ASSUME NEW w \in Workers, LastPass(w) PROVE TypeInv'
  <2> DEFINE upd == Release(Finalize(item, Expired), job, w)
  <2>1. upd \in JobUpdates
    BY UpdateTypes
  <2> HIDE DEF upd
  <2>2. WorkerRecordOK([Idle EXCEPT !.pc = "release", !.upd = upd])
    BY <2>1, EmptyRecords DEF Idle, WorkerRecordOK, WorkerRecords, WorkerPcs
  <2>3. QED
    BY <1>6, <2>2, WorkerOnlyStep DEF LastPass, TypeInv, TypeOK, upd
<1>7. ASSUME NEW w \in Workers, Raise(w) PROVE TypeInv'
  <2>1. WorkerRecordOK([Idle EXCEPT !.pc = "error"])
    BY EmptyRecords DEF Idle, WorkerRecordOK, WorkerRecords, WorkerPcs
  <2>2. QED
    BY <1>7, <2>1, WorkerOnlyStep DEF Raise, TypeInv, TypeOK
<1>8. ASSUME NEW w \in Workers, HandleError(w) PROVE TypeInv'
  <2> DEFINE upd == Terminal(job, "FAILED")
  <2>1. upd \in JobUpdates
    BY UpdateTypes DEF JobStatuses
  <2> HIDE DEF upd
  <2>2. WorkerRecordOK([Idle EXCEPT !.pc = "failed", !.upd = upd])
    BY <2>1, EmptyRecords DEF Idle, WorkerRecordOK, WorkerRecords, WorkerPcs
  <2>3. WorkerRecordOK(IF job.worker = w
                       THEN [Idle EXCEPT !.pc = "failed", !.upd = upd]
                       ELSE Idle)
    BY <2>2, EmptyRecords
  <2>4. QED
    BY <1>8, <2>3, WorkerOnlyStep DEF HandleError, TypeInv, TypeOK, upd
<1>9. ASSUME NEW w \in Workers, CommitLast(w) PROVE TypeInv'
  <2>1. /\ wk' \in [Workers -> WorkerRecords]
        /\ \A v \in Workers : WorkerRecordOK(wk'[v])
    BY <1>9, EmptyRecords, WorkerSetOK DEF CommitLast
  <2>2. job' \in [status : JobStatuses, worker : Workers \cup {NoWorker},
                  lease : Leases]
    BY <1>9, UpdatedType DEF CommitLast, TypeInv, TypeOK, WorkerRecords
  <2>3. QED
    BY <1>9, <2>1, <2>2 DEF CommitLast, TypeInv, TypeOK
<1>10. ASSUME NEW w \in Workers, Crash(w) PROVE TypeInv'
  <2>1. crashes' \in Nat
    BY <1>10 DEF Crash, TypeInv, TypeOK
  <2>2. QED
    BY <1>10, <2>1, EmptyRecords, WorkerOnlyStep DEF Crash
<1>11. ASSUME LeaseExpires PROVE TypeInv'
  BY <1>11 DEF LeaseExpires, TypeInv, TypeOK, Leases
<1>12. ASSUME NEW r \in Requests, NEW i \in Items, Resolve(r, i) PROVE TypeInv'
  <2>1. CASE rq' = [rq EXCEPT ![r] =
                      [NoRequest EXCEPT !.pc = "resolve", !.item = i,
                         !.put = "SKIPPED",
                         !.upd = Finalize([item EXCEPT ![i] = "SKIPPED"], job)]]
    <3> DEFINE upd == Finalize([item EXCEPT ![i] = "SKIPPED"], job)
    <3>1. upd \in JobUpdates
      BY UpdateTypes
    <3> HIDE DEF upd
    <3>2. RequestRecordOK([NoRequest EXCEPT !.pc = "resolve", !.item = i,
                             !.put = "SKIPPED", !.upd = upd])
      BY <3>1, EmptyRecords
         DEF NoRequest, RequestRecordOK, RequestRecords, ItemStatuses
    <3>3. QED
      BY <1>12, <2>1, <3>2, RequestSetOK DEF Resolve, TypeInv, TypeOK, upd
  <2>2. ASSUME NEW m \in Media, NEW v \in Values,
               rq' = [rq EXCEPT ![r] =
                  [pc |-> "resolve", item |-> i, put |-> Applied(m, v, TRUE),
                   media |-> m, value |-> v, insert |-> entry[m] = NoEntry,
                   upd |-> Finalize([item EXCEPT ![i] = Applied(m, v, TRUE)], job)]]
        PROVE TypeInv'
    <3> DEFINE put == Applied(m, v, TRUE)
               upd == Finalize([item EXCEPT ![i] = put], job)
    <3>1. upd \in JobUpdates
      BY UpdateTypes
    <3>2. put \in {"SKIPPED", "IMPORTED"}
      BY DEF Applied
    <3> HIDE DEF upd, put
    <3>3. RequestRecordOK([pc |-> "resolve", item |-> i, put |-> put,
                           media |-> m, value |-> v,
                           insert |-> entry[m] = NoEntry, upd |-> upd])
      BY <3>1, <3>2 DEF RequestRecordOK, RequestRecords, ItemStatuses
    <3>4. QED
      BY <1>12, <2>2, <3>3, RequestSetOK DEF Resolve, TypeInv, TypeOK, upd, put
  <2>3. QED
    BY <1>12, <2>1, <2>2 DEF Resolve
<1>13. ASSUME NEW r \in Requests, CommitResolve(r) PROVE TypeInv'
  <2>1. /\ rq' \in [Requests -> RequestRecords]
        /\ \A v \in Requests : RequestRecordOK(rq'[v])
    BY <1>13, EmptyRecords, RequestSetOK DEF CommitResolve
  <2>2. /\ rq[r].item \in Items
        /\ rq[r].put \in ItemStatuses
        /\ rq[r].put = "IMPORTED" => rq[r].media \in Media /\ rq[r].value \in Values
        /\ rq[r].upd \in JobUpdates
    BY <1>13 DEF CommitResolve, TypeInv, TypeOK, RequestRecordOK, RequestRecords,
                 ItemStatuses
  <2>3. Updated(job, rq[r].upd) \in [status : JobStatuses,
                                     worker : Workers \cup {NoWorker},
                                     lease : Leases]
    BY <2>2, UpdatedType DEF TypeInv
  <2>4. job' \in [status : JobStatuses, worker : Workers \cup {NoWorker},
                  lease : Leases]
    BY <1>13, <2>3 DEF CommitResolve, TypeInv, TypeOK
  <2>5. item' \in [Items -> ItemStatuses]
    BY <1>13, <2>2 DEF CommitResolve, TypeInv, TypeOK
  <2>6. entry' \in [Media -> Values \cup {NoEntry}]
    BY <1>13, <2>2 DEF CommitResolve, TypeInv, TypeOK
  <2>7. QED
    BY <1>13, <2>1, <2>4, <2>5, <2>6 DEF CommitResolve, TypeInv, TypeOK
<1>14. ASSUME NEW r \in Requests, Cancel(r) PROVE TypeInv'
  <2> DEFINE upd == Terminal(job, "CANCELLED")
  <2>1. upd \in JobUpdates
    BY UpdateTypes DEF JobStatuses
  <2> HIDE DEF upd
  <2>2. RequestRecordOK([NoRequest EXCEPT !.pc = "cancel", !.upd = upd])
    BY <2>1, EmptyRecords DEF NoRequest, RequestRecordOK, RequestRecords
  <2>3. QED
    BY <1>14, <2>2, RequestSetOK DEF Cancel, TypeInv, TypeOK, upd
<1>15. ASSUME NEW r \in Requests, CommitCancel(r) PROVE TypeInv'
  <2>1. /\ rq' \in [Requests -> RequestRecords]
        /\ \A v \in Requests : RequestRecordOK(rq'[v])
    BY <1>15, EmptyRecords, RequestSetOK DEF CommitCancel
  <2>2. job' \in [status : JobStatuses, worker : Workers \cup {NoWorker},
                  lease : Leases]
    BY <1>15, UpdatedType DEF CommitCancel, TypeInv, TypeOK, RequestRecords
  <2>3. QED
    BY <1>15, <2>1, <2>2 DEF CommitCancel, TypeInv, TypeOK
<1>16. ASSUME NEW m \in Media, EditLibrary(m) PROVE TypeInv'
  BY <1>16 DEF EditLibrary, TypeInv, TypeOK
<1>17. CASE UNCHANGED vars
  BY <1>17 DEF vars, TypeInv, TypeOK
<1>18. QED
  BY <1>1, <1>2, <1>3, <1>4, <1>5, <1>6, <1>7, <1>8, <1>9, <1>10, <1>11,
     <1>12, <1>13, <1>14, <1>15, <1>16, <1>17
     DEF Next, WorkerStep, RequestStep

LEMMA AlwaysTypeInv == Spec => []TypeInv
BY InitTypeInv, NextTypeInv, PTL DEF Spec

(* Every reachable state is well typed. *)
THEOREM TypeCorrect == Spec => []TypeOK
BY AlwaysTypeInv, PTL DEF TypeInv

-----------------------------------------------------------------------------
(* Why a job is always recoverable: the strengthening of Recoverable.       *)
Settled == job.status \notin {"PENDING", "PROCESSING"}

(* A worker in its loop still has every undecided row ahead of it, so the   *)
(* last pass never finds a row remaining.                                   *)
LoopCovers(s, rows) ==
    s.pc \in {"loop", "match", "item"} =>
        \A i \in Items : rows[i] = "PENDING" => i \in s.todo
RowsDecided ==
    /\ \A i \in Items : item[i] # "MATCHED"
    /\ \A w \in Workers : LoopCovers(wk[w], item)

(* No staged UPDATE puts the job back in the queue, and one that clears     *)
(* the claim also settles the job, unless the job is settled already.       *)
SafeUpdate(upd, settled) ==
    /\ upd.status \notin {"PENDING", "PROCESSING"}
    /\ upd.worker \in {NoWorker, Keep} /\ upd.lease # "expired"
    /\ upd.status = Keep /\ (upd.worker # Keep \/ upd.lease = "none") => settled
StagedUpdates ==
    /\ \A w \in Workers : SafeUpdate(wk[w].upd, Settled)
    /\ \A r \in Requests : SafeUpdate(rq[r].upd, Settled)

RecoverInv == TypeInv /\ RowsDecided /\ StagedUpdates /\ Recoverable

LEMMA NoChangeSafe == \A settled : SafeUpdate(NoChange, settled)
BY DEF SafeUpdate, NoChange, Keep

LEMMA TerminalSafe ==
    ASSUME NEW loaded, NEW s \in {"COMPLETED", "FAILED", "CANCELLED"},
           loaded.status = s => Settled
    PROVE  SafeUpdate(Terminal(loaded, s), Settled)
BY DEF SafeUpdate, Terminal, Column, Keep

LEMMA FinalizeSafe ==
    ASSUME NEW view, NEW loaded,
           loaded.status \in {"AWAITING_RESOLUTION", "COMPLETED"} => Settled
    PROVE  SafeUpdate(Finalize(view, loaded), Settled)
<1>1. CASE Remaining(view)
  BY <1>1, NoChangeSafe DEF Finalize
<1>2. CASE ~Remaining(view) /\ Unresolved(view)
  BY <1>2 DEF Finalize, SafeUpdate, NoChange, Column, Keep
<1>3. CASE ~Remaining(view) /\ ~Unresolved(view)
  BY <1>3, TerminalSafe DEF Finalize
<1>4. QED
  BY <1>1, <1>2, <1>3

LEMMA RenewSafe ==
    ASSUME NEW upd \in JobUpdates, NEW loaded, NEW w, SafeUpdate(upd, Settled)
    PROVE  SafeUpdate(Renew(upd, loaded, w), Settled)
BY DEF SafeUpdate, Renew, JobUpdates

(* Releasing the claim is safe because the last pass has set a status. *)
LEMMA ReleaseSafe ==
    ASSUME NEW view, ~Remaining(view), NEW w
    PROVE  SafeUpdate(Release(Finalize(view, Expired), job, w), Settled)
<1> DEFINE upd == Finalize(view, Expired)
<1>1. upd \in JobUpdates
  BY UpdateTypes
<1>2. /\ upd.status \in {"AWAITING_RESOLUTION", "COMPLETED"}
      /\ SafeUpdate(upd, Settled)
  BY FinalizeSafe DEF Finalize, Terminal, NoChange, Column, Expired
<1> HIDE DEF upd
<1>3. SafeUpdate(Release(upd, job, w), Settled)
  BY <1>1, <1>2 DEF SafeUpdate, Release, JobUpdates, Keep
<1>4. QED
  BY <1>3 DEF upd

(* Committing a safe UPDATE. *)
LEMMA CommitSafe ==
    ASSUME TypeInv, Recoverable, NEW upd \in JobUpdates,
           SafeUpdate(upd, Settled), job' = Updated(job, upd)
    PROVE  /\ Recoverable'
           /\ Settled => Settled'
<1>1. Settled => Settled'
  BY DEF Settled, SafeUpdate, Updated, Written
<1>2. ASSUME job'.status = "PROCESSING"
      PROVE  job'.worker # NoWorker /\ job'.lease # "none"
  <2>1. job.status = "PROCESSING" /\ upd.status = Keep
    BY <1>2 DEF SafeUpdate, Updated, Written, TypeInv, TypeOK
  <2>2. upd.worker = Keep /\ upd.lease # "none"
    BY <2>1 DEF SafeUpdate, Settled
  <2>3. QED
    BY <2>1, <2>2 DEF Updated, Written, Recoverable
<1>3. QED
  BY <1>1, <1>2 DEF Recoverable

(* Staged updates stay safe when the job only moves towards settled and     *)
(* one session's record is replaced.                                        *)
LEMMA StagedByWorker ==
    ASSUME TypeInv, StagedUpdates, Settled => Settled', rq' = rq,
           NEW w \in Workers, NEW s, wk' = [wk EXCEPT ![w] = s],
           SafeUpdate(s.upd, Settled')
    PROVE  StagedUpdates'
BY DEF StagedUpdates, SafeUpdate, TypeInv, TypeOK

LEMMA StagedByRequest ==
    ASSUME TypeInv, StagedUpdates, Settled => Settled', wk' = wk,
           NEW r \in Requests, NEW s, rq' = [rq EXCEPT ![r] = s],
           SafeUpdate(s.upd, Settled')
    PROVE  StagedUpdates'
BY DEF StagedUpdates, SafeUpdate, TypeInv, TypeOK

LEMMA RowsByWorker ==
    ASSUME TypeInv, RowsDecided, item' = item,
           NEW w \in Workers, NEW s, wk' = [wk EXCEPT ![w] = s],
           LoopCovers(s, item)
    PROVE  RowsDecided'
BY DEF RowsDecided, TypeInv, TypeOK, LoopCovers

LEMMA InitRecoverInv == Init => RecoverInv
<1> SUFFICES ASSUME Init PROVE RecoverInv
  OBVIOUS
<1>1. RowsDecided
  BY DEF Init, RowsDecided, LoopCovers, Idle
<1>2. StagedUpdates
  BY NoChangeSafe DEF Init, StagedUpdates, Idle, NoRequest
<1>3. Recoverable
  BY DEF Init, Recoverable
<1>4. QED
  BY <1>1, <1>2, <1>3, InitTypeInv DEF RecoverInv

LEMMA NextRecoverInv ==
    RecoverInv /\ [Next]_vars => RecoverInv' /\ (Settled => Settled')
<1> SUFFICES ASSUME RecoverInv, [Next]_vars
             PROVE  RecoverInv' /\ (Settled => Settled')
  OBVIOUS
<1> USE DEF RecoverInv
<1>t. TypeInv'
  BY NextTypeInv
<1>0. SafeUpdate(Idle.upd, Settled') /\ SafeUpdate(NoRequest.upd, Settled')
  BY NoChangeSafe DEF Idle, NoRequest
<1>1. ASSUME NEW w \in Workers, Claim(w)
      PROVE  RecoverInv' /\ (Settled => Settled')
  <2>1. Settled => Settled'
    BY <1>1 DEF Claim, Claimable, Settled
  <2>2. Recoverable'
    BY <1>1, ConstantsAssumption DEF Claim, Recoverable
  <2>3. StagedUpdates'
    BY <1>1, <2>1 DEF Claim, StagedUpdates, SafeUpdate, TypeInv, TypeOK, WorkerRecords
  <2>4. RowsDecided'
    BY <1>1 DEF Claim, RowsDecided, LoopCovers, TypeInv, TypeOK, WorkerRecords
  <2>5. QED
    BY <1>t, <2>1, <2>2, <2>3, <2>4
<1>2. ASSUME NEW w \in Workers, LoadPending(w)
      PROVE  RecoverInv' /\ (Settled => Settled')
  <2> DEFINE pending == {i \in Items : item[i] = "PENDING"}
             s == IF Owns(w)
                  THEN [Idle EXCEPT !.pc = "loop", !.todo = pending,
                                    !.cached = pending]
                  ELSE Idle
  <2>1. wk' = [wk EXCEPT ![w] = s]
    BY <1>2 DEF LoadPending
  <2>2. SafeUpdate(s.upd, Settled') /\ LoopCovers(s, item)
    BY <1>0 DEF LoopCovers, Idle
  <2> HIDE DEF s
  <2>3. UNCHANGED <<job, item, rq>>
    BY <1>2 DEF LoadPending
  <2>4. StagedUpdates' /\ RowsDecided'
    BY <2>1, <2>2, <2>3, StagedByWorker, RowsByWorker DEF Settled
  <2>5. QED
    BY <1>t, <2>3, <2>4 DEF Settled, Recoverable
<1>3. ASSUME NEW w \in Workers, NextItem(w)
      PROVE  RecoverInv' /\ (Settled => Settled')
  <2>1. PICK i \in wk[w].todo :
          wk' = [wk EXCEPT ![w] =
                   IF Owns(w) THEN [wk[w] EXCEPT !.pc = "match", !.row = i]
                              ELSE Idle]
    BY <1>3 DEF NextItem
  <2> DEFINE s == IF Owns(w) THEN [wk[w] EXCEPT !.pc = "match", !.row = i]
                             ELSE Idle
  <2>2. UNCHANGED <<job, item, rq>>
    BY <1>3 DEF NextItem
  <2>3. wk[w] \in WorkerRecords /\ wk[w].pc = "loop"
    BY <1>3 DEF NextItem, TypeInv, TypeOK
  <2>4. SafeUpdate(s.upd, Settled')
    BY <1>0, <2>2, <2>3 DEF WorkerRecords, StagedUpdates, Settled
  <2>5. LoopCovers(s, item)
    BY <2>3 DEF WorkerRecords, LoopCovers, RowsDecided, Idle
  <2> HIDE DEF s
  <2>6. StagedUpdates' /\ RowsDecided'
    BY <2>1, <2>2, <2>4, <2>5, StagedByWorker, RowsByWorker DEF Settled, s
  <2>7. QED
    BY <1>t, <2>2, <2>6 DEF Settled, Recoverable
<1>4. ASSUME NEW w \in Workers, MatchItem(w)
      PROVE  RecoverInv' /\ (Settled => Settled')
  <2>1. PICK saved \in BOOLEAN, m \in Matches[wk[w].row] :
          MatchItem(w)!2!(saved, m)
    BY <1>4 DEF MatchItem
  <2> DEFINE put == CASE m = NoMatch -> "FAILED"
                      [] m = Ambiguous -> "CONFLICT"
                      [] OTHER -> Applied(m, RowValue[wk[w].row], FALSE)
             loaded == IF saved THEN job
                       ELSE [status |-> "PROCESSING", worker |-> w,
                             lease |-> "live"]
             view == [j \in Items |->
                        IF j = wk[w].row THEN put
                        ELSE IF ~saved /\ j \in wk[w].cached THEN "PENDING"
                        ELSE item[j]]
             upd == Renew(Finalize(view, loaded), loaded, w)
             s == [wk[w] EXCEPT !.pc = "item", !.put = put, !.media = m,
                                !.upd = upd]
  <2>2. wk' = [wk EXCEPT ![w] = s]
    BY <2>1
  <2>3. UNCHANGED <<job, item, rq>> /\ wk[w].pc = "match"
    BY <1>4 DEF MatchItem
  <2>4. loaded.status \in {"AWAITING_RESOLUTION", "COMPLETED"} => Settled
    BY DEF Settled
  <2> HIDE DEF loaded, view, put
  <2>5. SafeUpdate(upd, Settled)
    BY <2>4, FinalizeSafe, RenewSafe, UpdateTypes
  <2> HIDE DEF upd
  <2>6. wk[w] \in WorkerRecords
    BY DEF TypeInv, TypeOK
  <2>7. SafeUpdate(s.upd, Settled') /\ LoopCovers(s, item)
    BY <2>3, <2>5, <2>6 DEF Settled, WorkerRecords, LoopCovers, RowsDecided
  <2> HIDE DEF s
  <2>8. StagedUpdates' /\ RowsDecided'
    BY <2>2, <2>3, <2>7, StagedByWorker, RowsByWorker DEF Settled
  <2>9. QED
    BY <1>t, <2>3, <2>8 DEF Settled, Recoverable
<1>5. ASSUME NEW w \in Workers, CommitItem(w)
      PROVE  RecoverInv' /\ (Settled => Settled')
  <2>1. CASE wk' = [wk EXCEPT ![w] = [Idle EXCEPT !.pc = "error"]]
             /\ UNCHANGED <<job, item, entry>>
    <3>1. LET s == [Idle EXCEPT !.pc = "error"]
          IN  SafeUpdate(s.upd, Settled') /\ LoopCovers(s, item)
      BY <1>0 DEF LoopCovers, Idle
    <3>2. StagedUpdates' /\ RowsDecided'
      BY <1>5, <2>1, <3>1, StagedByWorker, RowsByWorker DEF Settled, CommitItem
    <3>3. QED
      BY <1>t, <2>1, <3>2 DEF Settled, Recoverable
  <2>2. CASE /\ item' = [item EXCEPT ![wk[w].row] = wk[w].put]
             /\ job' = Updated(job, wk[w].upd)
             /\ wk' = [wk EXCEPT ![w] =
                         [Idle EXCEPT !.pc = "loop",
                                      !.todo = wk[w].todo \ {wk[w].row}]]
    <3> DEFINE s == [Idle EXCEPT !.pc = "loop",
                                 !.todo = wk[w].todo \ {wk[w].row}]
    <3>1. wk[w].upd \in JobUpdates /\ SafeUpdate(wk[w].upd, Settled)
      BY DEF TypeInv, TypeOK, WorkerRecords, StagedUpdates
    <3>2. Recoverable' /\ (Settled => Settled')
      BY <2>2, <3>1, CommitSafe
    <3>3. SafeUpdate(s.upd, Settled')
      BY <1>0 DEF Idle
    <3>4. wk[w].put \notin {"PENDING", "MATCHED"} /\ wk[w].pc = "item"
      BY <1>5 DEF CommitItem, TypeInv, WorkerRecordOK
    <3>5. \A i \in Items : item'[i] = item[i] \/ item'[i] \notin {"PENDING", "MATCHED"}
      BY <2>2, <3>4 DEF TypeInv, TypeOK
    <3>6. \A v \in Workers : LoopCovers(wk[v], item')
      BY <3>5 DEF LoopCovers, RowsDecided
    <3>7. LoopCovers(s, item')
      BY <2>2, <3>4, <3>6 DEF LoopCovers, TypeInv, TypeOK, Idle
    <3>8. RowsDecided'
      BY <2>2, <3>5, <3>6, <3>7 DEF RowsDecided, TypeInv, TypeOK
    <3>9. StagedUpdates'
      BY <1>5, <2>2, <3>2, <3>3, StagedByWorker DEF CommitItem
    <3>10. QED
      BY <1>t, <3>2, <3>8, <3>9
  <2>3. QED
    BY <1>5, <2>1, <2>2 DEF CommitItem
<1>6. ASSUME NEW w \in Workers, LastPass(w)
      PROVE  RecoverInv' /\ (Settled => Settled')
  <2> DEFINE upd == Release(Finalize(item, Expired), job, w)
             s == [Idle EXCEPT !.pc = "release", !.upd = upd]
  <2>1. wk[w].pc = "loop" /\ wk[w].todo = {}
    BY <1>6 DEF LastPass
  <2>2. ~Remaining(item)
    BY <2>1 DEF Remaining, RowsDecided, LoopCovers, TypeInv, TypeOK
  <2>3. SafeUpdate(upd, Settled)
    BY <2>2, ReleaseSafe
  <2>4. wk' = [wk EXCEPT ![w] = s] /\ UNCHANGED <<job, item, rq>>
    BY <1>6 DEF LastPass
  <2> HIDE DEF upd
  <2>5. SafeUpdate(s.upd, Settled') /\ LoopCovers(s, item)
    BY <2>3, <2>4 DEF Idle, LoopCovers, Settled
  <2> HIDE DEF s
  <2>6. StagedUpdates' /\ RowsDecided'
    BY <2>4, <2>5, StagedByWorker, RowsByWorker DEF Settled
  <2>7. QED
    BY <1>t, <2>4, <2>6 DEF Settled, Recoverable
<1>7. ASSUME NEW w \in Workers,
             \/ Raise(w) /\ wk' = [wk EXCEPT ![w] = [Idle EXCEPT !.pc = "error"]]
             \/ Crash(w)
      PROVE  RecoverInv' /\ (Settled => Settled')
  <2>1. PICK s \in {Idle, [Idle EXCEPT !.pc = "error"]} :
             wk' = [wk EXCEPT ![w] = s]
    BY <1>7 DEF Raise, Crash
  <2>2. UNCHANGED <<job, item, rq>>
    BY <1>7 DEF Raise, Crash
  <2>3. SafeUpdate(s.upd, Settled') /\ LoopCovers(s, item)
    BY <1>0 DEF LoopCovers, Idle
  <2>4. StagedUpdates' /\ RowsDecided'
    BY <2>1, <2>2, <2>3, StagedByWorker, RowsByWorker DEF Settled
  <2>5. QED
    BY <1>t, <2>2, <2>4 DEF Settled, Recoverable
<1>8. ASSUME NEW w \in Workers, HandleError(w)
      PROVE  RecoverInv' /\ (Settled => Settled')
  <2> DEFINE s == IF job.worker = w
                  THEN [Idle EXCEPT !.pc = "failed",
                                    !.upd = Terminal(job, "FAILED")]
                  ELSE Idle
  <2>1. wk' = [wk EXCEPT ![w] = s] /\ UNCHANGED <<job, item, rq>>
    BY <1>8 DEF HandleError
  <2>2. SafeUpdate(Terminal(job, "FAILED"), Settled')
    BY <2>1, TerminalSafe DEF Settled
  <2>3. SafeUpdate(s.upd, Settled') /\ LoopCovers(s, item)
    BY <1>0, <2>2 DEF LoopCovers, Idle
  <2> HIDE DEF s
  <2>4. StagedUpdates' /\ RowsDecided'
    BY <2>1, <2>3, StagedByWorker, RowsByWorker DEF Settled
  <2>5. QED
    BY <1>t, <2>1, <2>4 DEF Settled, Recoverable
<1>9. ASSUME NEW w \in Workers, CommitLast(w)
      PROVE  RecoverInv' /\ (Settled => Settled')
  <2>1. wk[w].upd \in JobUpdates /\ SafeUpdate(wk[w].upd, Settled)
    BY DEF TypeInv, TypeOK, WorkerRecords, StagedUpdates
  <2>2. Recoverable' /\ (Settled => Settled')
    BY <1>9, <2>1, CommitSafe DEF CommitLast
  <2>3. LoopCovers(Idle, item)
    BY DEF LoopCovers, Idle
  <2>4. StagedUpdates' /\ RowsDecided'
    BY <1>0, <1>9, <2>2, <2>3, StagedByWorker, RowsByWorker DEF CommitLast
  <2>5. QED
    BY <1>t, <2>2, <2>4
<1>10. ASSUME LeaseExpires
       PROVE  RecoverInv' /\ (Settled => Settled')
  <2>1. Settled <=> Settled'
    BY <1>10 DEF LeaseExpires, Settled, TypeInv, TypeOK
  <2>2. Recoverable'
    BY <1>10 DEF LeaseExpires, Recoverable, TypeInv, TypeOK
  <2>3. StagedUpdates' /\ RowsDecided'
    BY <1>10, <2>1 DEF LeaseExpires, StagedUpdates, RowsDecided
  <2>4. QED
    BY <1>t, <2>1, <2>2, <2>3
<1>11. ASSUME NEW r \in Requests, NEW i \in Items, Resolve(r, i)
       PROVE  RecoverInv' /\ (Settled => Settled')
  <2>1. UNCHANGED <<job, item, wk>>
        /\ job.status \in {"AWAITING_RESOLUTION", "PROCESSING"}
    BY <1>11 DEF Resolve
  <2>2. \A view : SafeUpdate(Finalize(view, job), Settled')
    BY <2>1, FinalizeSafe DEF Settled
  <2>3. ASSUME rq' = [rq EXCEPT ![r] =
                 [NoRequest EXCEPT !.pc = "resolve", !.item = i,
                    !.put = "SKIPPED",
                    !.upd = Finalize([item EXCEPT ![i] = "SKIPPED"], job)]]
        PROVE StagedUpdates'
    <3> DEFINE s == [NoRequest EXCEPT !.pc = "resolve", !.item = i,
                         !.put = "SKIPPED",
                         !.upd = Finalize([item EXCEPT ![i] = "SKIPPED"], job)]
    <3>1. SafeUpdate(s.upd, Settled')
      BY <2>2 DEF NoRequest
    <3>2. rq' = [rq EXCEPT ![r] = s]
      BY <2>3
    <3> HIDE DEF s
    <3>3. QED
      BY <2>1, <3>1, <3>2, StagedByRequest DEF Settled
  <2>4. ASSUME NEW m \in Media, NEW v \in Values,
               rq' = [rq EXCEPT ![r] =
                 [pc |-> "resolve", item |-> i, put |-> Applied(m, v, TRUE),
                  media |-> m, value |-> v, insert |-> entry[m] = NoEntry,
                  upd |-> Finalize([item EXCEPT ![i] = Applied(m, v, TRUE)], job)]]
        PROVE StagedUpdates'
    <3> DEFINE s == [pc |-> "resolve", item |-> i, put |-> Applied(m, v, TRUE),
                  media |-> m, value |-> v, insert |-> entry[m] = NoEntry,
                  upd |-> Finalize([item EXCEPT ![i] = Applied(m, v, TRUE)], job)]
    <3>1. SafeUpdate(s.upd, Settled')
      BY <2>2
    <3>2. rq' = [rq EXCEPT ![r] = s]
      BY <2>4
    <3> HIDE DEF s
    <3>3. QED
      BY <2>1, <3>1, <3>2, StagedByRequest DEF Settled
  <2>5. StagedUpdates'
    BY <1>11, <2>3, <2>4 DEF Resolve
  <2>6. QED
    BY <1>t, <2>1, <2>5 DEF Settled, Recoverable, RowsDecided
<1>12. ASSUME NEW r \in Requests, CommitResolve(r)
       PROVE  RecoverInv' /\ (Settled => Settled')
  <2>1. rq[r].upd \in JobUpdates /\ SafeUpdate(rq[r].upd, Settled)
    BY DEF TypeInv, TypeOK, RequestRecords, StagedUpdates
  <2>2. Recoverable' /\ (Settled => Settled')
    <3>1. CASE job' = job
      BY <3>1 DEF Recoverable, Settled
    <3>2. CASE job' = Updated(job, rq[r].upd)
      BY <2>1, <3>2, CommitSafe
    <3>3. QED
      BY <1>12, <3>1, <3>2 DEF CommitResolve
  <2>3. \A i \in Items : item'[i] = item[i] \/ item'[i] \notin {"PENDING", "MATCHED"}
    BY <1>12 DEF CommitResolve, TypeInv, TypeOK, RequestRecordOK
  <2>4. RowsDecided' /\ wk' = wk
    BY <1>12, <2>3 DEF CommitResolve, RowsDecided, LoopCovers
  <2>5. StagedUpdates'
    BY <1>0, <1>12, <2>2, <2>4, StagedByRequest DEF CommitResolve
  <2>6. QED
    BY <1>t, <2>2, <2>4, <2>5
<1>13. ASSUME NEW r \in Requests, Cancel(r)
       PROVE  RecoverInv' /\ (Settled => Settled')
  <2> DEFINE s == [NoRequest EXCEPT !.pc = "cancel",
                                    !.upd = Terminal(job, "CANCELLED")]
  <2>1. rq' = [rq EXCEPT ![r] = s] /\ UNCHANGED <<job, item, wk>>
    BY <1>13 DEF Cancel
  <2>2. SafeUpdate(Terminal(job, "CANCELLED"), Settled')
    BY <2>1, TerminalSafe DEF Settled
  <2>3. SafeUpdate(s.upd, Settled')
    BY <2>2 DEF NoRequest
  <2> HIDE DEF s
  <2>4. StagedUpdates'
    BY <2>1, <2>3, StagedByRequest DEF Settled
  <2>5. QED
    BY <1>t, <2>1, <2>4 DEF Settled, Recoverable, RowsDecided
<1>14. ASSUME NEW r \in Requests, CommitCancel(r)
       PROVE  RecoverInv' /\ (Settled => Settled')
  <2>1. rq[r].upd \in JobUpdates /\ SafeUpdate(rq[r].upd, Settled)
    BY DEF TypeInv, TypeOK, RequestRecords, StagedUpdates
  <2>2. Recoverable' /\ (Settled => Settled')
    BY <1>14, <2>1, CommitSafe DEF CommitCancel
  <2>3. StagedUpdates'
    BY <1>0, <1>14, <2>2, StagedByRequest DEF CommitCancel
  <2>4. QED
    BY <1>t, <1>14, <2>2, <2>3 DEF CommitCancel, RowsDecided
<1>15. ASSUME NEW m \in Media, EditLibrary(m)
       PROVE  RecoverInv' /\ (Settled => Settled')
  BY <1>t, <1>15 DEF EditLibrary, RowsDecided, StagedUpdates, Recoverable, Settled
<1>16. CASE UNCHANGED vars
  BY <1>t, <1>16 DEF vars, RowsDecided, StagedUpdates, Recoverable, Settled
<1>17. \A w \in Workers :
         Raise(w) => wk' = [wk EXCEPT ![w] = [Idle EXCEPT !.pc = "error"]]
  BY DEF Raise
<1>18. QED
  BY <1>1, <1>2, <1>3, <1>4, <1>5, <1>6, <1>7, <1>8, <1>9, <1>10, <1>11,
     <1>12, <1>13, <1>14, <1>15, <1>16, <1>17
     DEF Next, WorkerStep, RequestStep

(* A PROCESSING job can always be found by a later claim. *)
THEOREM AlwaysRecoverable == Spec => []Recoverable
BY InitRecoverInv, NextRecoverInv, PTL DEF Spec, RecoverInv

(* A job that has left the queue never returns to it. *)
THEOREM NeverRestarts == Spec => NoRestart
<1>1. RecoverInv /\ [Next]_vars =>
        [job.status \notin {"PENDING", "PROCESSING"}
           => job'.status \notin {"PENDING", "PROCESSING"}]_vars
  BY NextRecoverInv DEF Settled
<1>2. QED
  BY <1>1, InitRecoverInv, NextRecoverInv, PTL DEF Spec, NoRestart
-----------------------------------------------------------------------------
(* Why claims exclude each other, when a lease runs out only under a worker *)
(* that is gone: an engaged worker's job cannot be claimed.                 *)
HeldByEngaged ==
    \A w \in Workers : Engaged(w) =>
        /\ job.status # "PENDING"
        /\ job.status = "PROCESSING" => job.worker = w /\ job.lease # "expired"
ExclusiveInv == RecoverInv /\ OneWorker /\ HeldByEngaged

LEMMA InitExclusiveInv == Init => ExclusiveInv
<1> SUFFICES ASSUME Init PROVE ExclusiveInv
  OBVIOUS
<1>1. \A w \in Workers : ~Engaged(w)
  BY DEF Init, Engaged, Idle
<1>2. QED
  BY <1>1, InitRecoverInv DEF ExclusiveInv, OneWorker, HeldByEngaged

(* A step that engages no further worker and leaves the job's claim alone,  *)
(* or settles the job.                                                      *)
LEMMA KeepsExclusive ==
    ASSUME OneWorker, HeldByEngaged,
           \A w \in Workers : Engaged(w)' => Engaged(w),
           job'.status = "PENDING" => job.status = "PENDING",
           job'.status = "PROCESSING" =>
               /\ job.status = "PROCESSING" /\ job'.worker = job.worker
               /\ job'.lease # "expired" \/ job'.lease = job.lease
    PROVE  OneWorker' /\ HeldByEngaged'
BY DEF OneWorker, HeldByEngaged

LEMMA CommitKeepsClaim ==
    ASSUME TypeInv, NEW upd \in JobUpdates, SafeUpdate(upd, Settled),
           job' = Updated(job, upd)
    PROVE  /\ job'.status = "PENDING" => job.status = "PENDING"
           /\ job'.status = "PROCESSING" =>
               /\ job.status = "PROCESSING" /\ job'.worker = job.worker
               /\ job'.lease # "expired" \/ job'.lease = job.lease
<1>1. job'.status = upd.status \/ (job'.status = job.status /\ upd.status = Keep)
  BY DEF Updated, Written
<1>2. CASE job'.status \in {"PENDING", "PROCESSING"}
  <2>1. job.status = job'.status /\ upd.status = Keep
    BY <1>1, <1>2 DEF SafeUpdate
  <2>2. upd.worker = Keep
    BY <1>2, <2>1 DEF SafeUpdate, Settled
  <2>3. QED
    BY <2>1, <2>2 DEF Updated, Written, SafeUpdate
<1>3. QED
  BY <1>2

LEMMA NextExclusiveInv ==
    LeaseOutlastsItem /\ ExclusiveInv /\ [Next]_vars => ExclusiveInv'
<1> SUFFICES ASSUME LeaseOutlastsItem, ExclusiveInv, [Next]_vars
             PROVE  OneWorker' /\ HeldByEngaged'
  BY NextRecoverInv DEF ExclusiveInv
<1> USE DEF ExclusiveInv
<1>t. /\ wk \in [Workers -> WorkerRecords]
      /\ \A w \in Workers : wk[w].upd \in JobUpdates /\ SafeUpdate(wk[w].upd, Settled)
      /\ \A r \in Requests : rq[r].upd \in JobUpdates /\ SafeUpdate(rq[r].upd, Settled)
  BY DEF RecoverInv, TypeInv, TypeOK, WorkerRecords, RequestRecords, StagedUpdates
<1>1. ASSUME NEW w \in Workers, Claim(w)
      PROVE  OneWorker' /\ HeldByEngaged'
  <2>1. \A v \in Workers : ~Engaged(v)
    BY <1>1 DEF Claim, Claimable, HeldByEngaged
  <2>2. \A v \in Workers : Engaged(v)' => v = w
    BY <1>1, <1>t, <2>1 DEF Claim, Engaged
  <2>3. QED
    BY <1>1, <2>2 DEF Claim, OneWorker, HeldByEngaged
<1>2. ASSUME NEW w \in Workers, job' = job,
             \/ LoadPending(w) \/ NextItem(w) \/ MatchItem(w) \/ LastPass(w)
             \/ Raise(w) \/ HandleError(w) \/ Crash(w)
      PROVE  OneWorker' /\ HeldByEngaged'
  <2>1. \A v \in Workers : Engaged(v)' => Engaged(v)
    BY <1>2, <1>t DEF LoadPending, NextItem, MatchItem, LastPass, Raise,
                      HandleError, Crash, Engaged
  <2>2. QED
    BY <1>2, <2>1, KeepsExclusive
<1>3. ASSUME NEW w \in Workers, CommitItem(w) \/ CommitLast(w)
      PROVE  OneWorker' /\ HeldByEngaged'
  <2>1. \A v \in Workers : Engaged(v)' => Engaged(v)
    BY <1>3, <1>t DEF CommitItem, CommitLast, Engaged
  <2>2. CASE job' = job
    BY <2>1, <2>2, KeepsExclusive
  <2>3. CASE job' = Updated(job, wk[w].upd)
    BY <1>t, <2>1, <2>3, CommitKeepsClaim, KeepsExclusive DEF RecoverInv
  <2>4. QED
    BY <1>3, <2>2, <2>3 DEF CommitItem, CommitLast
<1>4. ASSUME LeaseExpires
      PROVE  OneWorker' /\ HeldByEngaged'
  <2>1. \A w \in Workers : ~Engaged(w)
    BY <1>4 DEF LeaseExpires, HeldByEngaged, Engaged
  <2>2. QED
    BY <1>4, <2>1 DEF LeaseExpires, OneWorker, HeldByEngaged, Engaged
<1>5. ASSUME NEW r \in Requests, CommitResolve(r) \/ CommitCancel(r)
      PROVE  OneWorker' /\ HeldByEngaged'
  <2>1. \A v \in Workers : Engaged(v)' => Engaged(v)
    BY <1>5 DEF CommitResolve, CommitCancel, Engaged
  <2>2. CASE job' = job
    BY <2>1, <2>2, KeepsExclusive
  <2>3. CASE job' = Updated(job, rq[r].upd)
    BY <1>t, <2>1, <2>3, CommitKeepsClaim, KeepsExclusive DEF RecoverInv
  <2>4. QED
    BY <1>5, <2>2, <2>3 DEF CommitResolve, CommitCancel
<1>6. ASSUME UNCHANGED <<job, wk>>
      PROVE  OneWorker' /\ HeldByEngaged'
  BY <1>6 DEF OneWorker, HeldByEngaged, Engaged
<1>7. \A w \in Workers :
        LoadPending(w) \/ NextItem(w) \/ MatchItem(w) \/ LastPass(w)
        \/ Raise(w) \/ HandleError(w) \/ Crash(w) => job' = job
  BY DEF LoadPending, NextItem, MatchItem, LastPass, Raise, HandleError, Crash
<1>8. /\ \A r \in Requests, i \in Items : Resolve(r, i) => UNCHANGED <<job, wk>>
      /\ \A r \in Requests : Cancel(r) => UNCHANGED <<job, wk>>
      /\ \A m \in Media : EditLibrary(m) => UNCHANGED <<job, wk>>
      /\ UNCHANGED vars => UNCHANGED <<job, wk>>
  BY DEF Resolve, Cancel, EditLibrary, vars
<1>9. QED
  BY <1>1, <1>2, <1>3, <1>4, <1>5, <1>6, <1>7, <1>8
     DEF Next, WorkerStep, RequestStep

(* Claims are exclusive as long as no item outlasts the lease. *)
THEOREM ExclusiveClaims == LeaseOutlastsItem => (Spec => []OneWorker)
<1> SUFFICES ASSUME LeaseOutlastsItem PROVE Spec => []OneWorker
  OBVIOUS
<1>1. ExclusiveInv /\ [Next]_vars => ExclusiveInv'
  BY NextExclusiveInv
<1>2. ExclusiveInv => OneWorker
  BY DEF ExclusiveInv
<1>3. QED
  BY <1>1, <1>2, InitExclusiveInv, PTL DEF Spec
-----------------------------------------------------------------------------
(* The refinement: under the same condition, every step of the import is a  *)
(* step of the claim queue or leaves it as it is.                           *)
QueueStep == [Queue!Next]_<<phases, runners>>

(* Apart from a claim, a step keeps the job where it is or takes it out.    *)
StaysOrLeaves == /\ job'.status = "PENDING" => job.status = "PENDING"
                 /\ job'.status = "PROCESSING" => job.status = "PROCESSING"

LEMMA PhaseStaysOrLeaves ==
    ASSUME StaysOrLeaves
    PROVE  \/ phases' = phases
           \/ /\ phases["job"] \in {"queued", "taken"}
              /\ phases' = [phases EXCEPT !["job"] = "out"]
<1>1. CASE job'.status \in {"PENDING", "PROCESSING"}
  BY <1>1 DEF StaysOrLeaves, phases
<1>2. CASE job'.status \notin {"PENDING", "PROCESSING"} /\ Settled
  BY <1>2 DEF Settled, phases
<1>3. CASE job'.status \notin {"PENDING", "PROCESSING"} /\ ~Settled
  BY <1>3 DEF Settled, phases, Row
<1>4. QED
  BY <1>1, <1>2, <1>3

(* The job may leave while its workers go on. *)
LEMMA SameRunners ==
    ASSUME StaysOrLeaves, \A w \in Workers : Engaged(w)' <=> Engaged(w)
    PROVE  QueueStep
<1>1. {w \in Workers : Engaged(w)'} = {w \in Workers : Engaged(w)}
  OBVIOUS
<1>2. runners' = runners
  BY <1>1, Zenon DEF runners
<1>3. CASE phases' = phases
  BY <1>2, <1>3 DEF QueueStep
<1>4. CASE /\ phases["job"] \in {"queued", "taken"}
           /\ phases' = [phases EXCEPT !["job"] = "out"]
  <2>1. Queue!Leave("job")
    BY <1>2, <1>4 DEF Queue!Leave
  <2>2. QED
    BY <2>1 DEF QueueStep, Queue!Next, Row
<1>5. QED
  BY <1>3, <1>4, PhaseStaysOrLeaves

(* A worker that becomes idle stops, whether the job is out or not.         *)
LEMMA RunnerStops ==
    ASSUME StaysOrLeaves, NEW w \in Workers, Engaged(w), ~Engaged(w)',
           \A v \in Workers \ {w} : Engaged(v)' <=> Engaged(v)
    PROVE  QueueStep
<1>1. {v \in Workers : Engaged(v)'} = {v \in Workers : Engaged(v)} \ {w}
  OBVIOUS
<1>2. /\ runners["job"] = {v \in Workers : Engaged(v)}
      /\ runners' = [j \in Row |-> {v \in Workers : Engaged(v)'}]
      /\ runners = [j \in Row |-> {v \in Workers : Engaged(v)}]
  BY DEF runners, Row
<1>3. runners' = [runners EXCEPT !["job"] = @ \ {w}]
  BY <1>1, <1>2 DEF Row
<1>4. w \in runners["job"]
  BY <1>2
<1>5. phases = [phases EXCEPT !["job"] = phases["job"]]
  BY DEF phases
<1>6. \E q \in {phases["job"], "out"} : phases' = [phases EXCEPT !["job"] = q]
  BY <1>5, PhaseStaysOrLeaves
<1>7. Queue!Stop(w, "job")
  BY <1>3, <1>4, <1>6 DEF Queue!Stop
<1>8. QED
  BY <1>7 DEF QueueStep, Queue!Next, Row

(* A step of one worker, engaged before it, that keeps the job where it is  *)
(* or takes it out.                                                         *)
LEMMA WorkerRefines ==
    ASSUME StaysOrLeaves, NEW w \in Workers, Engaged(w),
           \A v \in Workers \ {w} : wk'[v] = wk[v]
    PROVE  QueueStep
<1>1. \A v \in Workers \ {w} : Engaged(v)' <=> Engaged(v)
  BY DEF Engaged
<1>2. QED
  BY <1>1, SameRunners, RunnerStops

LEMMA NextRefines ==
    ASSUME ExclusiveInv, [Next]_vars
    PROVE  QueueStep
<1> USE DEF ExclusiveInv
<1>t. /\ wk \in [Workers -> WorkerRecords]
      /\ \A w \in Workers : wk[w].upd \in JobUpdates /\ SafeUpdate(wk[w].upd, Settled)
      /\ \A r \in Requests : rq[r].upd \in JobUpdates /\ SafeUpdate(rq[r].upd, Settled)
  BY DEF RecoverInv, TypeInv, TypeOK, WorkerRecords, RequestRecords, StagedUpdates
<1>1. ASSUME NEW w \in Workers, Claim(w)
      PROVE  QueueStep
  <2>1. \A v \in Workers : ~Engaged(v)
    BY <1>1 DEF Claim, Claimable, HeldByEngaged
  <2>2. \A v \in Workers : Engaged(v)' <=> v = w
    BY <1>1, <1>t, <2>1 DEF Claim, Engaged
  <2>3. runners["job"] = {} /\ \A j \in Row : w \notin runners[j]
    BY <2>1 DEF runners, Row
  <2>4. {v \in Workers : Engaged(v)'} = {w}
    BY <2>2
  <2>5. runners' = [runners EXCEPT !["job"] = {w}]
    BY <2>4 DEF runners, Row
  <2>6. phases["job"] \in {"queued", "taken"}
    BY <1>1 DEF Claim, Claimable, phases, Row
  <2>7. phases' = [phases EXCEPT !["job"] = "taken"]
    BY <1>1 DEF Claim, phases, Row
  <2>8. Queue!Take(w, "job")
    BY <2>3, <2>5, <2>6, <2>7 DEF Queue!Take
  <2>9. QED
    BY <2>8 DEF QueueStep, Queue!Next, Row
<1>2. ASSUME NEW w \in Workers,
             \/ LoadPending(w) \/ NextItem(w) \/ MatchItem(w) \/ LastPass(w)
             \/ Raise(w) \/ HandleError(w) \/ Crash(w)
      PROVE  QueueStep
  <2>1. /\ job' = job
        /\ Engaged(w)
        /\ \A v \in Workers \ {w} : wk'[v] = wk[v]
    BY <1>2, <1>t DEF LoadPending, NextItem, MatchItem, LastPass, Raise,
                      HandleError, Crash, Engaged
  <2>2. QED
    BY <2>1, WorkerRefines DEF StaysOrLeaves
<1>3. ASSUME NEW w \in Workers, CommitItem(w) \/ CommitLast(w)
      PROVE  QueueStep
  <2>1. Engaged(w) /\ \A v \in Workers \ {w} : wk'[v] = wk[v]
    BY <1>3, <1>t DEF CommitItem, CommitLast, Engaged
  <2>2. job' = job \/ job' = Updated(job, wk[w].upd)
    BY <1>3 DEF CommitItem, CommitLast
  <2>3. StaysOrLeaves
    BY <1>t, <2>2, CommitKeepsClaim DEF StaysOrLeaves, RecoverInv
  <2>4. QED
    BY <2>1, <2>3, WorkerRefines
<1>4. ASSUME NEW r \in Requests, CommitResolve(r) \/ CommitCancel(r)
      PROVE  QueueStep
  <2>1. job' = job \/ job' = Updated(job, rq[r].upd)
    BY <1>4 DEF CommitResolve, CommitCancel
  <2>2. StaysOrLeaves
    BY <1>t, <2>1, CommitKeepsClaim DEF StaysOrLeaves, RecoverInv
  <2>3. wk' = wk
    BY <1>4 DEF CommitResolve, CommitCancel
  <2>4. QED
    BY <2>2, <2>3, SameRunners DEF Engaged
<1>5. ASSUME job'.status = job.status, wk' = wk
      PROVE  QueueStep
  BY <1>5, SameRunners DEF Engaged, StaysOrLeaves
<1>6. LeaseExpires => job'.status = job.status /\ wk' = wk
  BY DEF LeaseExpires, RecoverInv, TypeInv, TypeOK
<1>7. /\ \A r \in Requests, i \in Items : Resolve(r, i) => UNCHANGED <<job, wk>>
      /\ \A r \in Requests : Cancel(r) => UNCHANGED <<job, wk>>
      /\ \A m \in Media : EditLibrary(m) => UNCHANGED <<job, wk>>
      /\ UNCHANGED vars => UNCHANGED <<job, wk>>
  BY DEF Resolve, Cancel, EditLibrary, vars
<1>8. QED
  BY <1>1, <1>2, <1>3, <1>4, <1>5, <1>6, <1>7
     DEF Next, WorkerStep, RequestStep

(* The import job implements the abstract claim queue as long as no item    *)
(* outlasts the lease.                                                      *)
THEOREM ImportsAreClaimed == LeaseOutlastsItem => (Spec => ImplementsClaimQueue)
<1> SUFFICES ASSUME LeaseOutlastsItem
             PROVE  Spec => ImplementsClaimQueue
  OBVIOUS
<1>1. Init => Queue!Init
  <2>1. Init => phases = [j \in Row |-> "queued"]
    BY DEF Init, phases
  <2>2. Init => runners = [j \in Row |-> {}]
    BY DEF Init, runners, Engaged, Idle
  <2>3. QED
    BY <2>1, <2>2 DEF Queue!Init
<1>2. ExclusiveInv /\ [Next]_vars => ExclusiveInv'
  BY NextExclusiveInv
<1>3. ExclusiveInv /\ [Next]_vars => [Queue!Next]_<<phases, runners>>
  BY NextRefines DEF QueueStep
<1>4. QED
  BY <1>1, <1>2, <1>3, InitExclusiveInv, PTL
     DEF Spec, ImplementsClaimQueue, Queue!Spec
-----------------------------------------------------------------------------
(* What workers do to the library: only the commit of an item writes an     *)
(* entry, and the unique index lets it write where there is none.           *)
LEMMA EntriesKept ==
    TypeInv /\ [Next]_vars =>
        [\A m \in Media : entry[m] # NoEntry /\ entry'[m] # entry[m]
                             => wk' = wk]_vars
<1> SUFFICES ASSUME TypeInv, Next, NEW m \in Media,
                    entry[m] # NoEntry, entry'[m] # entry[m], wk' # wk
             PROVE  FALSE
  OBVIOUS
<1>1. ASSUME NEW w \in Workers, CommitItem(w)
      PROVE  FALSE
  <2>1. \/ entry' = entry
        \/ /\ entry' = [entry EXCEPT ![wk[w].media] = RowValue[wk[w].row]]
           /\ entry[wk[w].media] = NoEntry
    BY <1>1 DEF CommitItem
  <2>2. QED
    BY <2>1 DEF TypeInv, TypeOK
<1>2. \A w \in Workers :
        \/ Claim(w) \/ LoadPending(w) \/ NextItem(w) \/ MatchItem(w)
        \/ LastPass(w) \/ HandleError(w) \/ CommitLast(w) \/ Raise(w) \/ Crash(w)
        => entry' = entry
  BY DEF Claim, LoadPending, NextItem, MatchItem, LastPass, HandleError,
         CommitLast, Raise, Crash
<1>3. /\ \A r \in Requests, i \in Items : Resolve(r, i) => wk' = wk
      /\ \A r \in Requests :
           CommitResolve(r) \/ Cancel(r) \/ CommitCancel(r) => wk' = wk
      /\ LeaseExpires => wk' = wk
      /\ \A n \in Media : EditLibrary(n) => wk' = wk
  BY DEF Resolve, CommitResolve, Cancel, CommitCancel, LeaseExpires, EditLibrary
<1>4. QED
  BY <1>1, <1>2, <1>3 DEF Next, WorkerStep, RequestStep

(* No import worker changes a library entry that exists, also when leases   *)
(* run out under live workers and two of them process the same rows.        *)
THEOREM EntriesAreKept == Spec => WorkersKeepEntries
BY AlwaysTypeInv, EntriesKept, PTL DEF Spec, WorkersKeepEntries
-----------------------------------------------------------------------------
(* Why a row is processed once, when no item outlasts the lease: the rows   *)
(* ahead of a worker are PENDING, and only the one worker there is changes  *)
(* them - a resolution is staged for a row that was a conflict, and no row  *)
(* becomes PENDING again.                                                   *)
RowsAhead ==
    /\ \A w \in Workers : wk[w].pc \in {"loop", "match", "item"} =>
           \A i \in wk[w].todo : item[i] = "PENDING"
    /\ \A r \in Requests : rq[r].pc = "resolve" => item[rq[r].item] # "PENDING"
OnceInv == ExclusiveInv /\ RowsAhead

LEMMA NextRowsAhead ==
    ASSUME OnceInv, [Next]_vars
    PROVE  /\ RowsAhead'
           /\ \A i \in Items : item'[i] # item[i] /\ wk' # wk
                                  => item[i] = "PENDING"
<1> DEFINE Once == \A i \in Items : item'[i] # item[i] /\ wk' # wk
                                       => item[i] = "PENDING"
<1>t. /\ wk \in [Workers -> WorkerRecords]
      /\ rq \in [Requests -> RequestRecords]
      /\ item \in [Items -> ItemStatuses]
      /\ \A w \in Workers : WorkerRecordOK(wk[w])
      /\ \A r \in Requests : RequestRecordOK(rq[r])
  BY DEF OnceInv, ExclusiveInv, RecoverInv, TypeInv, TypeOK
<1> USE DEF OnceInv, RowsAhead
<1>1. ASSUME NEW w \in Workers, CommitItem(w)
      PROVE  RowsAhead' /\ Once
  <2> DEFINE i == wk[w].row
  <2>1. /\ wk[w].pc = "item" /\ i \in wk[w].todo /\ i \in Items
        /\ wk[w].put \in ItemStatuses \ {"PENDING", "MATCHED"}
    BY <1>1, <1>t DEF CommitItem, WorkerRecordOK, WorkerRecords
  <2>2. item[i] = "PENDING"
    BY <2>1
  <2>3. \A v \in Workers \ {w} : ~Engaged(v)
    BY <2>1 DEF ExclusiveInv, OneWorker, Engaged
  <2>4. rq' = rq
    BY <1>1 DEF CommitItem
  <2>5. CASE item' = item /\ wk' = [wk EXCEPT ![w] = [Idle EXCEPT !.pc = "error"]]
    BY <1>t, <2>4, <2>5 DEF Idle
  <2>6. CASE /\ item' = [item EXCEPT ![i] = wk[w].put]
             /\ wk' = [wk EXCEPT ![w] = [Idle EXCEPT !.pc = "loop",
                                            !.todo = wk[w].todo \ {i}]]
    <3>1. /\ wk'[w].pc = "loop" /\ wk'[w].todo = wk[w].todo \ {i}
          /\ \A v \in Workers \ {w} : wk'[v].pc = "idle"
      BY <1>t, <2>3, <2>6 DEF Idle, Engaged
    <3>2. \A j \in Items \ {i} : item'[j] = item[j]
      BY <1>t, <2>6
    <3>3. wk[w].todo \subseteq Items
      BY <1>t DEF WorkerRecords
    <3>4. \A r \in Requests : rq'[r].pc = "resolve"
                                 => item'[rq'[r].item] # "PENDING"
      BY <1>t, <2>1, <2>4, <2>6 DEF RequestRecordOK
    <3>5. \A v \in Workers : wk'[v].pc \in {"loop", "match", "item"} =>
             \A j \in wk'[v].todo : item'[j] = "PENDING"
      BY <2>1, <3>1, <3>2, <3>3
    <3>6. QED
      BY <2>2, <3>2, <3>4, <3>5
  <2>7. QED
    BY <1>1, <2>5, <2>6 DEF CommitItem
<1>2. ASSUME NEW w \in Workers, LoadPending(w)
      PROVE  RowsAhead' /\ Once
  <2>1. wk' = [wk EXCEPT ![w] = wk'[w]] /\ UNCHANGED <<item, rq>>
    BY <1>2, <1>t DEF LoadPending
  <2>2. wk'[w].pc = "loop" => \A i \in wk'[w].todo : item[i] = "PENDING"
    BY <1>2, <1>t DEF LoadPending, Idle
  <2>3. wk'[w].pc \in {"loop", "idle"}
    BY <1>2, <1>t DEF LoadPending, Idle
  <2>4. QED
    BY <1>t, <2>1, <2>2, <2>3
<1>3. ASSUME NEW w \in Workers, UNCHANGED <<item, rq>>,
             \A v \in Workers \ {w} : wk'[v] = wk[v],
             wk'[w].pc \in {"loop", "match", "item"} =>
                 /\ wk[w].pc \in {"loop", "match", "item"}
                 /\ wk'[w].todo = wk[w].todo
      PROVE  RowsAhead' /\ Once
  BY <1>3
<1>4. ASSUME NEW w \in Workers,
             \/ Claim(w) \/ NextItem(w) \/ MatchItem(w) \/ LastPass(w)
             \/ HandleError(w) \/ CommitLast(w) \/ Raise(w) \/ Crash(w)
      PROVE  RowsAhead' /\ Once
  <2>1. /\ UNCHANGED <<item, rq>>
        /\ \A v \in Workers \ {w} : wk'[v] = wk[v]
    BY <1>4, <1>t DEF Claim, NextItem, MatchItem, LastPass, HandleError,
                      CommitLast, Raise, Crash
  <2>2. ASSUME Claim(w) \/ LastPass(w) \/ HandleError(w) \/ CommitLast(w)
               \/ Raise(w) \/ Crash(w)
        PROVE  wk'[w].pc \notin {"loop", "match", "item"}
    <3>1. CASE Claim(w)
      BY <3>1, <1>t DEF Claim, WorkerRecords
    <3>2. CASE LastPass(w)
      BY <3>2, <1>t DEF LastPass, Idle
    <3>3. CASE HandleError(w)
      BY <3>3, <1>t DEF HandleError, Idle
    <3>4. CASE CommitLast(w) \/ Crash(w)
      BY <3>4, <1>t DEF CommitLast, Crash, Idle
    <3>5. CASE Raise(w)
      BY <3>5, <1>t DEF Raise, Idle
    <3>6. QED
      BY <2>2, <3>1, <3>2, <3>3, <3>4, <3>5
  <2>3. ASSUME NextItem(w) \/ MatchItem(w)
        PROVE  wk'[w].pc \in {"loop", "match", "item"} =>
                  /\ wk[w].pc \in {"loop", "match", "item"}
                  /\ wk'[w].todo = wk[w].todo
    <3>1. CASE NextItem(w)
      BY <3>1, <1>t DEF NextItem, Idle, WorkerRecords
    <3>2. CASE MatchItem(w)
      BY <3>2, <1>t DEF MatchItem, WorkerRecords
    <3>3. QED
      BY <2>3, <3>1, <3>2
  <2>4. QED
    BY <1>3, <1>4, <2>1, <2>2, <2>3
<1>5. ASSUME NEW r \in Requests, NEW i \in Items, Resolve(r, i)
      PROVE  RowsAhead' /\ Once
  <2>1. /\ item[i] = "CONFLICT" /\ UNCHANGED <<item, wk>>
        /\ \A q \in Requests \ {r} : rq'[q] = rq[q]
    BY <1>5, <1>t DEF Resolve
  <2>2. CASE rq' = [rq EXCEPT ![r] =
                      [NoRequest EXCEPT !.pc = "resolve", !.item = i,
                         !.put = "SKIPPED",
                         !.upd = Finalize([item EXCEPT ![i] = "SKIPPED"], job)]]
    <3>1. rq'[r] = [NoRequest EXCEPT !.pc = "resolve", !.item = i,
                      !.put = "SKIPPED",
                      !.upd = Finalize([item EXCEPT ![i] = "SKIPPED"], job)]
      BY <1>t, <2>2
    <3>2. rq'[r].item = i
      BY <3>1 DEF NoRequest
    <3>3. QED
      BY <2>1, <3>2
  <2>3. ASSUME NEW m \in Media, NEW v \in Values,
               rq' = [rq EXCEPT ![r] =
                        [pc |-> "resolve", item |-> i,
                         put |-> Applied(m, v, TRUE), media |-> m, value |-> v,
                         insert |-> entry[m] = NoEntry,
                         upd |-> Finalize([item EXCEPT
                                             ![i] = Applied(m, v, TRUE)], job)]]
        PROVE  RowsAhead' /\ Once
    <3>1. rq'[r].item = i
      BY <1>t, <2>3
    <3>2. QED
      BY <2>1, <3>1
  <2> HIDE DEF OnceInv, RowsAhead, Once
  <2>4. QED
    BY <1>5, <2>2, <2>3, Zenon DEF Resolve
<1>6. ASSUME NEW r \in Requests, CommitResolve(r)
      PROVE  RowsAhead' /\ Once
  <2>1. /\ wk' = wk
        /\ rq' = [rq EXCEPT ![r] = NoRequest]
        /\ item' = item \/ item' = [item EXCEPT ![rq[r].item] = rq[r].put]
        /\ rq[r].pc = "resolve"
    BY <1>6 DEF CommitResolve
  <2>2. /\ rq[r].item \in Items /\ item[rq[r].item] # "PENDING"
        /\ rq[r].put # "PENDING"
    BY <1>t, <2>1 DEF RequestRecordOK
  <2>3. \A j \in Items : item[j] = "PENDING" <=> item'[j] = "PENDING"
    BY <1>t, <2>1, <2>2
  <2>4. \A v \in Workers : wk[v].todo \subseteq Items
    BY <1>t DEF WorkerRecords
  <2>5. \A q \in Requests : rq'[q].pc = "resolve" =>
           q # r /\ rq'[q] = rq[q] /\ rq[q].item \in Items
    BY <1>t, <2>1 DEF NoRequest, RequestRecordOK
  <2>6. QED
    BY <2>1, <2>3, <2>4, <2>5
<1>7. ASSUME NEW r \in Requests, Cancel(r) \/ CommitCancel(r)
      PROVE  RowsAhead' /\ Once
  <2>1. /\ UNCHANGED <<item, wk>>
        /\ \A q \in Requests \ {r} : rq'[q] = rq[q]
        /\ rq'[r].pc # "resolve"
    <3>1. CASE Cancel(r)
      BY <3>1, <1>t DEF Cancel, NoRequest
    <3>2. CASE CommitCancel(r)
      BY <3>2, <1>t DEF CommitCancel, NoRequest
    <3>3. QED
      BY <1>7, <3>1, <3>2
  <2>2. QED
    BY <2>1
<1>8. ASSUME UNCHANGED <<item, wk, rq>>
      PROVE  RowsAhead' /\ Once
  BY <1>8
<1>9. /\ LeaseExpires => UNCHANGED <<item, wk, rq>>
      /\ \A m \in Media : EditLibrary(m) => UNCHANGED <<item, wk, rq>>
      /\ UNCHANGED vars => UNCHANGED <<item, wk, rq>>
  BY DEF LeaseExpires, EditLibrary, vars
<1>10. QED
  BY <1>1, <1>2, <1>4, <1>5, <1>6, <1>7, <1>8, <1>9
     DEF Next, WorkerStep, RequestStep

(* A row is processed once, as long as no item outlasts the lease.          *)
THEOREM RowsAreProcessedOnce == LeaseOutlastsItem => (Spec => RowsProcessedOnce)
<1> SUFFICES ASSUME LeaseOutlastsItem
             PROVE  Spec => RowsProcessedOnce
  OBVIOUS
<1>1. Init => OnceInv
  BY InitExclusiveInv DEF Init, OnceInv, RowsAhead, Idle, NoRequest
<1>2. OnceInv /\ [Next]_vars => OnceInv'
  BY NextExclusiveInv, NextRowsAhead DEF OnceInv
<1>3. OnceInv /\ [Next]_vars =>
        [\A i \in Items : item'[i] # item[i] /\ wk' # wk
                             => item[i] = "PENDING"]_vars
  BY NextRowsAhead
<1>4. QED
  BY <1>1, <1>2, <1>3, PTL DEF Spec, RowsProcessedOnce
-----------------------------------------------------------------------------
(* Why the outcome agrees with the rows although it is computed from what   *)
(* a session saw: an outcome is only staged when no row is PENDING but the  *)
(* session's own, from then on rows only become SKIPPED or IMPORTED, and no *)
(* other session has a row to commit.                                       *)
Outcomes == {"AWAITING_RESOLUTION", "COMPLETED"}
Fits(status, rows) ==
    /\ status \in Outcomes => ~Remaining(rows)
    /\ status = "COMPLETED" => ~Unresolved(rows)

(* The rows as a session's commit will leave them. *)
AfterWorker(s, rows) ==
    IF s.pc = "item" THEN [rows EXCEPT ![s.row] = s.put] ELSE rows
AfterRequest(s, rows) ==
    IF s.pc = "resolve" THEN [rows EXCEPT ![s.item] = s.put] ELSE rows

WorkersFit == \A w \in Workers : Fits(wk[w].upd.status, AfterWorker(wk[w], item))
RequestsFit == \A r \in Requests : Fits(rq[r].upd.status, AfterRequest(rq[r], item))
OutcomeInv == OnceInv /\ OutcomeMatchesItems /\ WorkersFit /\ RequestsFit

(* What _refresh_progress_and_finalize stages fits the rows it looked at,   *)
(* and neither a renewal nor a release changes it.                          *)
LEMMA FinalizeFits ==
    ASSUME NEW view, NEW loaded
    PROVE  Fits(Finalize(view, loaded).status, view)
BY DEF Finalize, Fits, Outcomes, NoChange, Terminal, Column, Keep

LEMMA StatusIsKept ==
    ASSUME NEW upd \in JobUpdates, NEW loaded, NEW w
    PROVE  /\ Renew(upd, loaded, w).status = upd.status
           /\ Release(upd, loaded, w).status = upd.status
BY DEF Renew, Release, JobUpdates

(* Rows that are finished meanwhile do not contradict an outcome. *)
LEMMA LaterRowsFit ==
    ASSUME NEW old \in [Items -> ItemStatuses], NEW new \in [Items -> ItemStatuses],
           \A i \in Items : new[i] = old[i] \/ new[i] \in {"SKIPPED", "IMPORTED"},
           NEW status, Fits(status, old)
    PROVE  Fits(status, new)
BY DEF Fits, Remaining, Unresolved

(* While a row is PENDING, no session has an outcome staged, other than the *)
(* worker whose row it is.                                                  *)
LEMMA PendingRow ==
    ASSUME NEW rows, NEW i \in Items, rows[i] = "PENDING", NEW status, Fits(status, rows)
    PROVE  status \notin Outcomes
BY DEF Fits, Remaining

(* A status that is no outcome fits any rows. *)
LEMMA OthersFit ==
    ASSUME NEW status, status \notin Outcomes, NEW rows
    PROVE  Fits(status, rows)
BY DEF Fits, Outcomes
(* A session stages something and no row changes. *)
LEMMA WorkerStages ==
    ASSUME WorkersFit, RequestsFit, UNCHANGED <<item, rq>>, NEW w \in Workers,
           \A v \in Workers \ {w} : wk'[v] = wk[v],
           Fits(wk'[w].upd.status, AfterWorker(wk'[w], item))
    PROVE  WorkersFit' /\ RequestsFit'
<1>1. ASSUME NEW v \in Workers
      PROVE  Fits(wk'[v].upd.status, AfterWorker(wk'[v], item'))
  BY DEF WorkersFit
<1>2. ASSUME NEW r \in Requests
      PROVE  Fits(rq'[r].upd.status, AfterRequest(rq'[r], item'))
  BY DEF RequestsFit
<1>3. QED
  BY <1>1, <1>2 DEF WorkersFit, RequestsFit, Fits, AfterWorker, AfterRequest

LEMMA RequestStages ==
    ASSUME WorkersFit, RequestsFit, UNCHANGED <<item, wk>>, NEW r \in Requests,
           \A q \in Requests \ {r} : rq'[q] = rq[q],
           Fits(rq'[r].upd.status, AfterRequest(rq'[r], item))
    PROVE  WorkersFit' /\ RequestsFit'
<1>1. ASSUME NEW q \in Requests
      PROVE  Fits(rq'[q].upd.status, AfterRequest(rq'[q], item'))
  BY DEF RequestsFit
<1>2. ASSUME NEW w \in Workers
      PROVE  Fits(wk'[w].upd.status, AfterWorker(wk'[w], item'))
  BY DEF WorkersFit
<1>3. QED
  BY <1>1, <1>2 DEF WorkersFit, RequestsFit, Fits, AfterWorker, AfterRequest

(* A commit leaves the old status or the staged one. *)
LEMMA CommitFits ==
    ASSUME NEW upd, NEW rows, job' = Updated(job, upd),
           Fits(job.status, rows), Fits(upd.status, rows)
    PROVE  Fits(job'.status, rows)
<1>1. job'.status = job.status \/ job'.status = upd.status
  BY DEF Updated, Written
<1>2. QED
  BY <1>1

(* The commit of one row by the worker it belongs to. *)
LEMMA CommitItemFits ==
    ASSUME OutcomeInv, OnceInv', NEW w \in Workers, CommitItem(w)
    PROVE  Fits(job'.status, item') /\ WorkersFit' /\ RequestsFit'
<1> DEFINE i == wk[w].row
<1>t. /\ wk \in [Workers -> WorkerRecords]
      /\ item \in [Items -> ItemStatuses]
      /\ \A v \in Workers : WorkerRecordOK(wk[v])
      /\ \A r \in Requests : RequestRecordOK(rq[r])
  BY DEF OutcomeInv, OnceInv, ExclusiveInv, RecoverInv, TypeInv, TypeOK
<1>1. /\ wk[w].pc = "item" /\ i \in wk[w].todo /\ i \in Items
      /\ item[i] = "PENDING" /\ rq' = rq
  BY <1>t DEF CommitItem, WorkerRecordOK, WorkerRecords, OutcomeInv, OnceInv, RowsAhead
<1>2. Fits(job.status, item)
  BY DEF OutcomeInv, OutcomeMatchesItems, Fits, Outcomes
<1>3. Idle.upd.status \notin Outcomes
  BY DEF Idle, NoChange, Keep, Outcomes
<1>4. CASE job' = job /\ item' = item /\ wk' = [wk EXCEPT ![w] = [Idle EXCEPT !.pc = "error"]]
  <2>1. [Idle EXCEPT !.pc = "error"].upd.status \notin Outcomes
    BY DEF Idle, NoChange, Keep, Outcomes
  <2>2. /\ wk'[w].upd.status \notin Outcomes
        /\ \A v \in Workers \ {w} : wk'[v] = wk[v]
    BY <1>t, <1>4, <2>1
  <2>3. WorkersFit' /\ RequestsFit'
    BY <1>1, <1>4, <2>2, OthersFit, WorkerStages DEF OutcomeInv
  <2>4. QED
    BY <1>2, <1>4, <2>3
<1>5. CASE /\ item' = [item EXCEPT ![i] = wk[w].put]
           /\ job' = Updated(job, wk[w].upd)
           /\ wk' = [wk EXCEPT ![w] = [Idle EXCEPT !.pc = "loop",
                                          !.todo = wk[w].todo \ {i}]]
  <2>1. Fits(wk[w].upd.status, item')
    BY <1>1, <1>5 DEF OutcomeInv, WorkersFit, AfterWorker
  <2>2. job.status \notin Outcomes
    BY <1>1, <1>2, PendingRow
  <2>3. Fits(job'.status, item')
    BY <1>5, <2>1, <2>2, OthersFit, CommitFits
  <2>4. ASSUME NEW v \in Workers
        PROVE  wk'[v].upd.status \notin Outcomes
    <3>1. CASE v = w
      BY <1>t, <1>5, <3>1 DEF Idle, NoChange, Keep, Outcomes
    <3>2. CASE v # w
      <4>1. wk[v].pc = "idle" /\ wk'[v] = wk[v]
        BY <1>t, <1>1, <1>5, <3>2
           DEF OutcomeInv, OnceInv, ExclusiveInv, OneWorker, Engaged
      <4>2. Fits(wk[v].upd.status, item)
        BY <4>1 DEF OutcomeInv, WorkersFit, AfterWorker
      <4>3. QED
        BY <1>1, <4>1, <4>2, PendingRow
    <3>3. QED
      BY <3>1, <3>2
  <2>5. ASSUME NEW r \in Requests
        PROVE  rq'[r].upd.status \notin Outcomes
    <3>1. AfterRequest(rq[r], item)[i] = "PENDING"
      <4>1. CASE rq[r].pc = "resolve"
        <5>1. rq[r].item \in Items /\ item[rq[r].item] # "PENDING"
          BY <1>t, <4>1 DEF RequestRecordOK, OutcomeInv, OnceInv, RowsAhead
        <5>2. QED
          BY <1>t, <1>1, <4>1, <5>1 DEF AfterRequest
      <4>2. CASE rq[r].pc # "resolve"
        BY <1>1, <4>2 DEF AfterRequest
      <4>3. QED
        BY <4>1, <4>2
    <3>2. Fits(rq[r].upd.status, AfterRequest(rq[r], item))
      BY DEF OutcomeInv, RequestsFit
    <3>3. QED
      BY <1>1, <3>1, <3>2, PendingRow
  <2>6. QED
    BY <2>3, <2>4, <2>5 DEF WorkersFit, RequestsFit, Fits, Outcomes
<1>6. QED
  BY <1>4, <1>5 DEF CommitItem

(* What a worker that matches its row stages. *)
LEMMA MatchFits ==
    ASSUME OutcomeInv, NEW w \in Workers, MatchItem(w)
    PROVE  Fits(wk'[w].upd.status, AfterWorker(wk'[w], item))
<1> DEFINE i == wk[w].row
<1>t. /\ wk[w] \in WorkerRecords /\ wk \in [Workers -> WorkerRecords]
      /\ item \in [Items -> ItemStatuses]
  BY DEF OutcomeInv, OnceInv, ExclusiveInv, RecoverInv, TypeInv, TypeOK
<1>1. PICK saved \in BOOLEAN, m \in Matches[wk[w].row] :
        MatchItem(w)!2!(saved, m)
  BY DEF MatchItem
<1> DEFINE put == CASE m = NoMatch -> "FAILED"
                    [] m = Ambiguous -> "CONFLICT"
                    [] OTHER -> Applied(m, RowValue[wk[w].row], FALSE)
           loaded == IF saved THEN job
                     ELSE [status |-> "PROCESSING", worker |-> w,
                           lease |-> "live"]
           view == [j \in Items |->
                      IF j = wk[w].row THEN put
                      ELSE IF ~saved /\ j \in wk[w].cached THEN "PENDING"
                      ELSE item[j]]
           upd == Renew(Finalize(view, loaded), loaded, w)
<1>s. wk' = [wk EXCEPT ![w] = [wk[w] EXCEPT !.pc = "item", !.put = put,
                                            !.media = m, !.upd = upd]]
  BY <1>1
<1>v. /\ view \in [Items -> {put, "PENDING"} \cup ItemStatuses]
      /\ \A j \in Items : \/ j = i /\ view[j] = put
                          \/ view[j] = "PENDING"
                          \/ j # i /\ view[j] = item[j]
  BY <1>t
<1> HIDE DEF put, loaded, view
<1>2. upd.status = Finalize(view, loaded).status
  BY UpdateTypes, StatusIsKept
<1>3. Fits(upd.status, view)
  BY <1>2, FinalizeFits
<1> HIDE DEF upd
<1>4. /\ wk'[w].upd = upd /\ wk'[w].pc = "item"
      /\ wk'[w].row = i /\ wk'[w].put = put
  BY <1>t, <1>s DEF WorkerRecords
<1>5. AfterWorker(wk'[w], item) = [item EXCEPT ![i] = put]
  BY <1>4 DEF AfterWorker
<1>6. ~Remaining(view) => \A j \in Items : [item EXCEPT ![i] = put][j] = view[j]
  BY <1>t, <1>v DEF Remaining
<1>7. Fits(upd.status, [item EXCEPT ![i] = put])
  BY <1>3, <1>6 DEF Fits, Remaining, Unresolved, Outcomes
<1>8. QED
  BY <1>4, <1>5, <1>7
(* What a request to resolve a conflict stages. *)
LEMMA ResolveFits ==
    ASSUME OutcomeInv, NEW r \in Requests, NEW i \in Items, Resolve(r, i)
    PROVE  Fits(rq'[r].upd.status, AfterRequest(rq'[r], item))
<1>t. rq \in [Requests -> RequestRecords]
  BY DEF OutcomeInv, OnceInv, ExclusiveInv, RecoverInv, TypeInv, TypeOK
<1>1. CASE rq' = [rq EXCEPT ![r] =
                    [NoRequest EXCEPT !.pc = "resolve", !.item = i,
                       !.put = "SKIPPED",
                       !.upd = Finalize([item EXCEPT ![i] = "SKIPPED"], job)]]
  <2> DEFINE view == [item EXCEPT ![i] = "SKIPPED"]
             upd == Finalize(view, job)
  <2>1. Fits(upd.status, view)
    BY FinalizeFits
  <2> HIDE DEF upd
  <2>2. rq'[r] = [NoRequest EXCEPT !.pc = "resolve", !.item = i,
                                   !.put = "SKIPPED", !.upd = upd]
    BY <1>t, <1>1 DEF upd
  <2>3. /\ rq'[r].pc = "resolve" /\ rq'[r].item = i
        /\ rq'[r].put = "SKIPPED" /\ rq'[r].upd = upd
    BY <2>2 DEF NoRequest
  <2>4. AfterRequest(rq'[r], item) = view
    BY <2>3 DEF AfterRequest
  <2>5. QED
    BY <2>1, <2>3, <2>4
<1>2. ASSUME NEW m \in Media, NEW v \in Values,
             rq' = [rq EXCEPT ![r] =
                      [pc |-> "resolve", item |-> i,
                       put |-> Applied(m, v, TRUE), media |-> m, value |-> v,
                       insert |-> entry[m] = NoEntry,
                       upd |-> Finalize([item EXCEPT
                                           ![i] = Applied(m, v, TRUE)], job)]]
      PROVE  Fits(rq'[r].upd.status, AfterRequest(rq'[r], item))
  <2> DEFINE put == Applied(m, v, TRUE)
             view == [item EXCEPT ![i] = put]
             upd == Finalize(view, job)
  <2>1. Fits(upd.status, view)
    BY FinalizeFits
  <2>2. /\ rq'[r].pc = "resolve" /\ rq'[r].item = i
        /\ rq'[r].put = put /\ rq'[r].upd = upd
    BY <1>t, <1>2
  <2> HIDE DEF upd, put
  <2>3. AfterRequest(rq'[r], item) = view
    BY <2>2 DEF AfterRequest
  <2>4. QED
    BY <2>1, <2>2, <2>3
<1>3. QED
  BY <1>1, <1>2, Zenon DEF Resolve

(* The commit of a resolution: the row it finishes is nobody else's. *)
LEMMA CommitResolveFits ==
    ASSUME OutcomeInv, OnceInv', NEW r \in Requests, CommitResolve(r)
    PROVE  Fits(job'.status, item') /\ WorkersFit' /\ RequestsFit'
<1> DEFINE i == rq[r].item
<1>t. /\ rq \in [Requests -> RequestRecords]
      /\ item \in [Items -> ItemStatuses] /\ item' \in [Items -> ItemStatuses]
      /\ \A w \in Workers : WorkerRecordOK(wk[w])
      /\ \A q \in Requests : RequestRecordOK(rq[q])
  BY DEF OutcomeInv, OnceInv, ExclusiveInv, RecoverInv, TypeInv, TypeOK
<1>1. /\ rq[r].pc = "resolve" /\ i \in Items /\ item[i] # "PENDING"
      /\ rq[r].put \in {"SKIPPED", "IMPORTED"}
      /\ wk' = wk /\ rq' = [rq EXCEPT ![r] = NoRequest]
  BY <1>t DEF CommitResolve, RequestRecordOK, OutcomeInv, OnceInv, RowsAhead
<1>2. Fits(job.status, item)
  BY DEF OutcomeInv, OutcomeMatchesItems, Fits, Outcomes
<1>3. \/ job' = job /\ item' = item
      \/ job' = Updated(job, rq[r].upd) /\ item' = [item EXCEPT ![i] = rq[r].put]
  BY DEF CommitResolve
<1>4. \A j \in Items : item'[j] = item[j] \/ item'[j] \in {"SKIPPED", "IMPORTED"}
  BY <1>t, <1>1, <1>3
<1>5. Fits(job'.status, item')
  <2>1. CASE job' = job
    BY <1>t, <1>2, <1>4, <2>1, LaterRowsFit
  <2>2. CASE job' = Updated(job, rq[r].upd) /\ item' = [item EXCEPT ![i] = rq[r].put]
    <3>1. Fits(rq[r].upd.status, item')
      BY <1>1, <2>2 DEF OutcomeInv, RequestsFit, AfterRequest
    <3>2. Fits(job.status, item')
      BY <1>t, <1>2, <1>4, LaterRowsFit
    <3>3. QED
      BY <2>2, <3>1, <3>2, CommitFits
  <2>3. QED
    BY <1>3, <2>1, <2>2
<1>6. ASSUME NEW w \in Workers
      PROVE  Fits(wk[w].upd.status, AfterWorker(wk[w], item'))
  <2> DEFINE old == AfterWorker(wk[w], item)
             new == AfterWorker(wk[w], item')
  <2>1. /\ old \in [Items -> ItemStatuses] /\ new \in [Items -> ItemStatuses]
        /\ \A j \in Items : new[j] = old[j] \/ new[j] \in {"SKIPPED", "IMPORTED"}
    <3>1. CASE wk[w].pc = "item"
      <4>1. wk[w].put \in ItemStatuses
        BY <1>t, <3>1 DEF WorkerRecordOK
      <4>2. QED
        BY <1>t, <1>4, <3>1, <4>1 DEF AfterWorker
    <3>2. CASE wk[w].pc # "item"
      BY <1>t, <1>4, <3>2 DEF AfterWorker
    <3>3. QED
      BY <3>1, <3>2
  <2>2. Fits(wk[w].upd.status, old)
    BY DEF OutcomeInv, WorkersFit
  <2> HIDE DEF old, new
  <2>3. Fits(wk[w].upd.status, new)
    BY <2>1, <2>2, LaterRowsFit
  <2>4. QED
    BY <2>3 DEF new
<1>7. ASSUME NEW q \in Requests, q # r
      PROVE  Fits(rq[q].upd.status, AfterRequest(rq[q], item'))
  <2> DEFINE old == AfterRequest(rq[q], item)
             new == AfterRequest(rq[q], item')
  <2>1. /\ old \in [Items -> ItemStatuses] /\ new \in [Items -> ItemStatuses]
        /\ \A j \in Items : new[j] = old[j] \/ new[j] \in {"SKIPPED", "IMPORTED"}
    <3>1. CASE rq[q].pc = "resolve"
      <4>1. rq[q].put \in ItemStatuses
        BY <1>t, <3>1 DEF RequestRecordOK, ItemStatuses
      <4>2. QED
        BY <1>t, <1>4, <3>1, <4>1 DEF AfterRequest
    <3>2. CASE rq[q].pc # "resolve"
      BY <1>t, <1>4, <3>2 DEF AfterRequest
    <3>3. QED
      BY <3>1, <3>2
  <2>2. Fits(rq[q].upd.status, old)
    BY DEF OutcomeInv, RequestsFit
  <2> HIDE DEF old, new
  <2>3. Fits(rq[q].upd.status, new)
    BY <2>1, <2>2, LaterRowsFit
  <2>4. QED
    BY <2>3 DEF new
<1>8. WorkersFit'
  BY <1>1, <1>6 DEF WorkersFit, Fits, AfterWorker
<1>9. RequestsFit'
  <2>1. ASSUME NEW q \in Requests
        PROVE  Fits(rq'[q].upd.status, AfterRequest(rq'[q], item'))
    <3>1. CASE q = r
      <4>1. rq'[q].upd.status \notin Outcomes
        BY <1>t, <1>1, <3>1 DEF NoRequest, NoChange, Keep, Outcomes
      <4>2. QED
        BY <4>1, OthersFit
    <3>2. CASE q # r
      BY <1>t, <1>1, <1>7, <3>2
    <3>3. QED
      BY <3>1, <3>2
  <2>2. QED
    BY <2>1 DEF RequestsFit, Fits, AfterRequest
<1>10. QED
  BY <1>5, <1>8, <1>9
LEMMA NextOutcome ==
    ASSUME OutcomeInv, OnceInv', [Next]_vars
    PROVE  Fits(job'.status, item') /\ WorkersFit' /\ RequestsFit'
<1> DEFINE Goal == Fits(job'.status, item') /\ WorkersFit' /\ RequestsFit'
<1>t. /\ wk \in [Workers -> WorkerRecords]
      /\ rq \in [Requests -> RequestRecords]
  BY DEF OutcomeInv, OnceInv, ExclusiveInv, RecoverInv, TypeInv, TypeOK
<1>0. Fits(job.status, item)
  BY DEF OutcomeInv, OutcomeMatchesItems, Fits, Outcomes
<1>i. /\ Idle.pc = "idle" /\ Idle.upd.status \notin Outcomes
      /\ NoRequest.pc = "idle" /\ NoRequest.upd.status \notin Outcomes
  BY DEF Idle, NoRequest, NoChange, Keep, Outcomes
<1>1. ASSUME NEW w \in Workers, Claim(w) PROVE Goal
  <2>1. /\ UNCHANGED <<item, rq>> /\ wk[w].pc = "idle"
        /\ wk' = [wk EXCEPT ![w].pc = "claimed"]
        /\ job'.status = "PROCESSING"
    BY <1>1 DEF Claim
  <2>2. /\ wk'[w].pc = "claimed" /\ wk'[w].upd = wk[w].upd
        /\ \A v \in Workers \ {w} : wk'[v] = wk[v]
    BY <1>t, <2>1 DEF WorkerRecords
  <2>3. Fits(wk'[w].upd.status, AfterWorker(wk'[w], item))
    BY <2>1, <2>2 DEF OutcomeInv, WorkersFit, AfterWorker
  <2>4. WorkersFit' /\ RequestsFit'
    BY <2>1, <2>2, <2>3, WorkerStages DEF OutcomeInv
  <2>5. QED
    BY <2>1, <2>4 DEF Fits, Outcomes
<1>2. ASSUME NEW w \in Workers, UNCHANGED <<item, rq>>,
             \A v \in Workers \ {w} : wk'[v] = wk[v],
             wk'[w].upd.status \notin Outcomes,
             job' = job \/ (wk[w].pc # "item" /\ job' = Updated(job, wk[w].upd))
      PROVE  Goal
  <2>1. WorkersFit' /\ RequestsFit'
    BY <1>2, OthersFit, WorkerStages DEF OutcomeInv
  <2>2. CASE job' = job
    BY <1>0, <1>2, <2>1, <2>2
  <2>3. CASE wk[w].pc # "item" /\ job' = Updated(job, wk[w].upd)
    <3>1. Fits(wk[w].upd.status, item)
      BY <2>3 DEF OutcomeInv, WorkersFit, AfterWorker
    <3>2. Fits(job'.status, item)
      BY <1>0, <2>3, <3>1, CommitFits
    <3>3. QED
      BY <1>2, <2>1, <3>2
  <2>4. QED
    BY <1>2, <2>2, <2>3
<1>3. ASSUME NEW w \in Workers,
             LoadPending(w) \/ Raise(w) \/ HandleError(w) \/ CommitLast(w) \/ Crash(w)
      PROVE  Goal
  <2>1. /\ UNCHANGED <<item, rq>>
        /\ \A v \in Workers \ {w} : wk'[v] = wk[v]
        /\ job' = job \/ (wk[w].pc # "item" /\ job' = Updated(job, wk[w].upd))
    <3>1. CASE LoadPending(w) \/ HandleError(w)
      BY <3>1, <1>t DEF LoadPending, HandleError
    <3>2. CASE Raise(w) \/ Crash(w)
      BY <3>2, <1>t DEF Raise, Crash
    <3>3. CASE CommitLast(w)
      BY <3>3, <1>t DEF CommitLast
    <3>4. QED
      BY <1>3, <3>1, <3>2, <3>3
  <2>2. wk'[w].upd.status \notin Outcomes
    <3>1. CASE LoadPending(w)
      BY <3>1, <1>t, <1>i DEF LoadPending, Idle
    <3>2. CASE Raise(w) \/ CommitLast(w) \/ Crash(w)
      BY <3>2, <1>t, <1>i DEF Raise, CommitLast, Crash, Idle
    <3>3. CASE HandleError(w)
      <4>1. Terminal(job, "FAILED").status \notin Outcomes
        BY DEF Terminal, Column, Keep, Outcomes
      <4>2. QED
        BY <3>3, <4>1, <1>t, <1>i DEF HandleError, Idle
    <3>4. QED
      BY <1>3, <3>1, <3>2, <3>3
  <2>3. QED
    BY <1>2, <2>1, <2>2
<1>4. ASSUME NEW w \in Workers, job' = job, UNCHANGED <<item, rq>>,
             \A v \in Workers \ {w} : wk'[v] = wk[v],
             Fits(wk'[w].upd.status, AfterWorker(wk'[w], item))
      PROVE  Goal
  <2>1. WorkersFit' /\ RequestsFit'
    BY <1>4, WorkerStages DEF OutcomeInv
  <2>2. QED
    BY <1>0, <1>4, <2>1
<1>5. ASSUME NEW w \in Workers, NextItem(w) PROVE Goal
  <2>1. /\ UNCHANGED <<job, item, rq>> /\ wk[w].pc = "loop"
        /\ \A v \in Workers \ {w} : wk'[v] = wk[v]
        /\ \/ wk'[w] = Idle
           \/ \E i \in wk[w].todo :
                 wk'[w] = [wk[w] EXCEPT !.pc = "match", !.row = i]
    BY <1>5, <1>t DEF NextItem
  <2>2. CASE wk'[w] = Idle
    BY <1>4, <1>i, <2>1, <2>2, OthersFit
  <2>3. CASE wk'[w] # Idle
    <3>1. wk'[w].pc = "match" /\ wk'[w].upd = wk[w].upd
      BY <1>t, <2>1, <2>3 DEF WorkerRecords
    <3>2. Fits(wk'[w].upd.status, AfterWorker(wk'[w], item))
      BY <2>1, <3>1 DEF OutcomeInv, WorkersFit, AfterWorker
    <3>3. QED
      BY <1>4, <2>1, <3>2
  <2>4. QED
    BY <2>2, <2>3
<1>6. ASSUME NEW w \in Workers, MatchItem(w) PROVE Goal
  <2>1. UNCHANGED <<job, item, rq>> /\ \A v \in Workers \ {w} : wk'[v] = wk[v]
    BY <1>6, <1>t DEF MatchItem
  <2>2. QED
    BY <1>4, <1>6, <2>1, MatchFits
<1>7. ASSUME NEW w \in Workers, LastPass(w) PROVE Goal
  <2> DEFINE upd == Release(Finalize(item, Expired), job, w)
  <2>1. Fits(upd.status, item)
    BY UpdateTypes, StatusIsKept, FinalizeFits
  <2> HIDE DEF upd
  <2>2. /\ UNCHANGED <<job, item, rq>>
        /\ \A v \in Workers \ {w} : wk'[v] = wk[v]
        /\ wk'[w] = [Idle EXCEPT !.pc = "release", !.upd = upd]
    BY <1>7, <1>t DEF LastPass, upd
  <2>3. wk'[w].pc = "release" /\ wk'[w].upd = upd
    BY <2>2 DEF Idle
  <2>4. Fits(wk'[w].upd.status, AfterWorker(wk'[w], item))
    BY <2>1, <2>3 DEF AfterWorker
  <2>5. QED
    BY <1>4, <2>2, <2>4
<1>8. ASSUME NEW r \in Requests, NEW i \in Items, Resolve(r, i) PROVE Goal
  <2>1. /\ UNCHANGED <<job, item, wk>>
        /\ \A q \in Requests \ {r} : rq'[q] = rq[q]
    BY <1>8, <1>t DEF Resolve
  <2>2. WorkersFit' /\ RequestsFit'
    BY <1>8, <2>1, ResolveFits, RequestStages DEF OutcomeInv
  <2>3. QED
    BY <1>0, <2>1, <2>2
<1>9. ASSUME NEW r \in Requests, Cancel(r) \/ CommitCancel(r) PROVE Goal
  <2>1. /\ UNCHANGED <<item, wk>>
        /\ \A q \in Requests \ {r} : rq'[q] = rq[q]
        /\ rq'[r].upd.status \notin Outcomes
    <3>1. CASE Cancel(r)
      <4>1. Terminal(job, "CANCELLED").status \notin Outcomes
        BY DEF Terminal, Column, Keep, Outcomes
      <4>2. QED
        BY <1>t, <3>1, <4>1 DEF Cancel, NoRequest
    <3>2. CASE CommitCancel(r)
      BY <1>t, <1>i, <3>2 DEF CommitCancel
    <3>3. QED
      BY <1>9, <3>1, <3>2
  <2>2. WorkersFit' /\ RequestsFit'
    BY <2>1, OthersFit, RequestStages DEF OutcomeInv
  <2>3. Fits(job'.status, item')
    <3>1. CASE Cancel(r)
      BY <1>0, <2>1, <3>1 DEF Cancel
    <3>2. CASE CommitCancel(r)
      <4>1. Fits(rq[r].upd.status, item)
        BY <3>2 DEF CommitCancel, OutcomeInv, RequestsFit, AfterRequest
      <4>2. QED
        BY <1>0, <2>1, <3>2, <4>1, CommitFits DEF CommitCancel
    <3>3. QED
      BY <1>9, <3>1, <3>2
  <2>4. QED
    BY <2>2, <2>3
<1>10. ASSUME UNCHANGED <<item, wk, rq>>, job'.status = job.status PROVE Goal
  BY <1>0, <1>10
     DEF OutcomeInv, WorkersFit, RequestsFit, Fits, AfterWorker, AfterRequest
<1>11. /\ LeaseExpires => UNCHANGED <<item, wk, rq>> /\ job'.status = job.status
       /\ \A m \in Media : EditLibrary(m) => UNCHANGED <<job, item, wk, rq>>
       /\ UNCHANGED vars => UNCHANGED <<job, item, wk, rq>>
  BY DEF LeaseExpires, EditLibrary, vars, OutcomeInv, OnceInv, ExclusiveInv,
         RecoverInv, TypeInv, TypeOK
<1>12. QED
  BY <1>1, <1>3, <1>5, <1>6, <1>7, <1>8, <1>9, <1>10, <1>11, CommitItemFits,
     CommitResolveFits DEF Next, WorkerStep, RequestStep

(* The job's outcome agrees with its rows, as long as no item outlasts the  *)
(* lease: whatever stale views it was computed from.                        *)
THEOREM OutcomesMatchItems ==
    LeaseOutlastsItem => (Spec => []OutcomeMatchesItems)
<1> SUFFICES ASSUME LeaseOutlastsItem
             PROVE  Spec => []OutcomeMatchesItems
  OBVIOUS
<1>1. Init => OutcomeInv
  <2> SUFFICES ASSUME Init PROVE OutcomeInv
    OBVIOUS
  <2>1. OnceInv
    BY InitExclusiveInv DEF Init, OnceInv, RowsAhead, Idle, NoRequest
  <2>2. OutcomeMatchesItems
    BY DEF Init, OutcomeMatchesItems
  <2>3. /\ \A w \in Workers : wk[w].upd.status \notin Outcomes
        /\ \A r \in Requests : rq[r].upd.status \notin Outcomes
    BY DEF Init, Idle, NoRequest, NoChange, Keep, Outcomes
  <2>4. QED
    BY <2>1, <2>2, <2>3, OthersFit DEF OutcomeInv, WorkersFit, RequestsFit
<1>2. OutcomeInv /\ [Next]_vars => OutcomeInv'
  <2> SUFFICES ASSUME OutcomeInv, [Next]_vars PROVE OutcomeInv'
    OBVIOUS
  <2>1. OnceInv'
    BY NextExclusiveInv, NextRowsAhead DEF OutcomeInv, OnceInv
  <2>2. Fits(job'.status, item') /\ WorkersFit' /\ RequestsFit'
    BY <2>1, NextOutcome
  <2>3. OutcomeMatchesItems'
    BY <2>2 DEF Fits, Outcomes, OutcomeMatchesItems, Remaining, Unresolved
  <2>4. QED
    BY <2>1, <2>2, <2>3 DEF OutcomeInv
<1>3. OutcomeInv => OutcomeMatchesItems
  BY DEF OutcomeInv
<1>4. QED
  BY <1>1, <1>2, <1>3, PTL DEF Spec
=============================================================================
