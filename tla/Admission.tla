----------------------------- MODULE Admission -----------------------------
(***************************************************************************)
(* How a CSV upload of one user becomes an import job: routers/imports.py,    *)
(* ImportService.create_csv_job, the parser and the repository.  The look-up  *)
(* of an earlier job, the count of active ones and the insert are separate    *)
(* statements; a unique index on (user, source, hash) is the only guard       *)
(* between them.  What becomes of an admitted job is module ImportJobs'.      *)
(***************************************************************************)
EXTENDS Naturals, FiniteSets, Sequences

CONSTANTS
    Files,             \* a source and contents: sequences of rows "titled", "blank" or "bad"
    UploadCalls,       \* uploads in progress
    MaxRows,           \* import_max_rows
    JobLimit           \* import_max_concurrent_jobs_per_user

ASSUME AdmissionAssumption ==
    /\ Files \subseteq Seq({"titled", "blank", "bad"})
    /\ MaxRows \in Nat
    /\ JobLimit \in Nat \ {0}
    /\ IsFiniteSet(UploadCalls)

VARIABLES
    jobs,          \* the user's jobs in the order they were made
    uploads,       \* the uploads in progress
    answers        \* history: the answers given, a file and a job each

admissionVars == <<jobs, uploads, answers>>

NoUpload == [at |-> "idle", file |-> <<>>]
JobStatuses == {"PENDING", "PROCESSING", "ended"}

AdmissionTypeOK ==
    /\ \A k \in DOMAIN jobs : /\ jobs[k].file \in Files
                              /\ jobs[k].status \in JobStatuses
                              /\ jobs[k].rows \in Nat
    /\ \A c \in UploadCalls :
          /\ uploads[c].at \in {"idle", "count", "insert", "again"}
          /\ uploads[c].file \in Files \cup {<<>>}
    /\ \A a \in answers : a.file \in Files /\ a.job \in DOMAIN jobs

-----------------------------------------------------------------------------
(* import_parser.py: rows without a title are passed over; a row after the    *)
(* MaxRows-th titled one, whatever it holds, and a bad row refuse the file.   *)

Refused == 0

Titled(file, k) == Cardinality({j \in 1 .. k : file[j] = "titled"})

\* Mutant: one row too many is accepted.
ParseCsvOneMore(file) ==
    IF \E k \in DOMAIN file : file[k] = "bad" \/ Titled(file, k - 1) > MaxRows
    THEN Refused ELSE Titled(file, Len(file))

ParseCsv(file) ==
    IF \E k \in DOMAIN file : file[k] = "bad" \/ Titled(file, k - 1) >= MaxRows
    THEN Refused ELSE Titled(file, Len(file))

-----------------------------------------------------------------------------
(* ImportRepository.                                                        *)

\* Mutant: a job that has ended is not found.
UnendedJobsFor(file) ==
    {k \in DOMAIN jobs : jobs[k].file = file /\ jobs[k].status # "ended"}

JobsFor(file) == {k \in DOMAIN jobs : jobs[k].file = file}

ActiveJobs == {k \in DOMAIN jobs : jobs[k].status \in {"PENDING", "PROCESSING"}}

-----------------------------------------------------------------------------
(* ImportService.create_csv_job.                                            *)

Uploads(c, at, file) == uploads' = [uploads EXCEPT ![c] = [at |-> at, file |-> file]]

Answers(c, file, job) ==
    /\ answers' = answers \cup {[file |-> file, job |-> job]}
    /\ uploads' = [uploads EXCEPT ![c] = NoUpload]

\* The file was read and is not too large: it was admitted before, or not.
CreateCsvJob(c, file) ==
    /\ uploads[c] = NoUpload
    /\ file # <<>>
    /\ \/ \E k \in JobsFor(file) : Answers(c, file, k)
       \/ JobsFor(file) = {} /\ Uploads(c, "count", file) /\ UNCHANGED answers
    /\ UNCHANGED jobs

\* Mutant: the limit itself passes.
CountActiveJobsTo(c) ==
    /\ uploads[c].at = "count"
    /\ IF Cardinality(ActiveJobs) <= JobLimit /\ ParseCsv(uploads[c].file) # Refused
       THEN Uploads(c, "insert", uploads[c].file)
       ELSE uploads' = [uploads EXCEPT ![c] = NoUpload]
    /\ UNCHANGED <<jobs, answers>>

\* 429 when too many are active, 422 when the parser refuses the file.
CountActiveJobs(c) ==
    /\ uploads[c].at = "count"
    /\ IF Cardinality(ActiveJobs) < JobLimit /\ ParseCsv(uploads[c].file) # Refused
       THEN Uploads(c, "insert", uploads[c].file)
       ELSE uploads' = [uploads EXCEPT ![c] = NoUpload]
    /\ UNCHANGED <<jobs, answers>>

\* The unique index refuses a second job; the upload then looks again.
InsertJob(c) ==
    LET file == uploads[c].file IN
    /\ uploads[c].at = "insert"
    /\ IF JobsFor(file) = {}
       THEN /\ jobs' = Append(jobs, [file |-> file, status |-> "PENDING",
                                     rows |-> ParseCsv(file)])
            /\ Answers(c, file, Len(jobs) + 1)
       ELSE Uploads(c, "again", file) /\ UNCHANGED <<jobs, answers>>

AnswerExistingJob(c) ==
    /\ uploads[c].at = "again"
    /\ \E k \in JobsFor(uploads[c].file) : Answers(c, uploads[c].file, k)
    /\ UNCHANGED jobs

\* Workers and the user move a job on; one that has left the two active states
\* does not come back to them.
JobMoves(k) ==
    /\ jobs[k].status # "ended"
    /\ \E s \in {"PROCESSING", "ended"} :
          jobs[k].status # s /\ jobs' = [jobs EXCEPT ![k].status = s]
    /\ UNCHANGED <<uploads, answers>>

AdmissionInit ==
    /\ jobs = <<>>
    /\ uploads = [c \in UploadCalls |-> NoUpload]
    /\ answers = {}

AdmissionNext ==
    \/ \E c \in UploadCalls :
          \/ \E file \in Files : CreateCsvJob(c, file)
          \/ CountActiveJobs(c) \/ InsertJob(c) \/ AnswerExistingJob(c)
    \/ \E k \in DOMAIN jobs : JobMoves(k)

AdmissionSpec == AdmissionInit /\ [][AdmissionNext]_admissionVars

-----------------------------------------------------------------------------

\* However often and however concurrently one file is uploaded, every answer
\* names the same job.
OneJobPerFile == \A a, b \in answers : a.file = b.file => a.job = b.job

\* Uploads that overlap can exceed the limit of active jobs, but by no more than
\* one job for every further upload in progress; alone, an upload never does.
LimitIsNearlyKept ==
    Cardinality(ActiveJobs) + 1 <= JobLimit + Cardinality(UploadCalls)

\* A job that was admitted has between one and MaxRows rows.
RowsWithinLimit == \A k \in DOMAIN jobs : jobs[k].rows \in 1 .. MaxRows

=============================================================================
