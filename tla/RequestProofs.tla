--------------------------- MODULE RequestProofs ----------------------------
(***************************************************************************)
(* What requests may use: the rate limiter, the admission of import files and *)
(* the two stores of profile images.                                          *)
(***************************************************************************)
EXTENDS RateLimiter, Admission, ProfileImages, FiniteSetTheorems, SequenceTheorems, TLAPS

-----------------------------------------------------------------------------
(***************************************************************************)
(* Proofs about RateLimiter for any limit and any number of requests at once. *)
(***************************************************************************)

Hits == [at: {"idle", "expire", "decide"}, current: 0 .. MaxHits, life: BOOLEAN]

\* Requests that are yet to be allowed in the window that counted them.
Pending == {c \in LimitedCalls : limited[c].life /\ limited[c].current <= Limit}

\* Requests of the window that are still in progress.
Counting == {c \in LimitedCalls : limited[c].life}

\* Passes that the window's failures account for.
Bypassed == IF failClosed THEN 0 ELSE failures

\* Every request allowed by its count has one of the first Limit counts of the
\* window; the others allowed are accounted for by failures.
CountsAreShared == /\ granted + Cardinality(Counting) <= hits
                   /\ failures + Cardinality(Counting) <= hits
                   /\ granted + Cardinality(Pending) <= Limit + Bypassed

ExpiryComes == hits > 0 /\ ~timed =>
                  orphaned \/ \E c \in LimitedCalls : limited[c].at = "expire"

LimiterTypes == /\ hits \in 0 .. MaxHits
         /\ timed \in BOOLEAN
         /\ limited \in [LimitedCalls -> Hits]
         /\ granted \in Nat
         /\ failures \in Nat
         /\ failClosed \in BOOLEAN
         /\ orphaned \in BOOLEAN

LimiterInv == LimiterTypes /\ CountsAreShared /\ ExpiryComes

(* The requests in progress are finitely many.                              *)
LEMMA PendingIsFinite == /\ IsFiniteSet(Pending) /\ Cardinality(Pending) \in Nat
                         /\ IsFiniteSet(Counting) /\ Cardinality(Counting) \in Nat
  <1>1. Pending \subseteq LimitedCalls /\ Counting \subseteq LimitedCalls
    BY DEF Pending, Counting
  <1> QED
    BY <1>1, RateLimiterAssumption, FS_Subset, FS_CardinalityType

(* A request that ends was one of the pending ones or was not.               *)
LEMMA EndedRequest ==
    ASSUME LimiterTypes, NEW c \in LimitedCalls, limited' = [limited EXCEPT ![c] = NoHit]
    PROVE  /\ Pending' = Pending \ {c}
           /\ Cardinality(Pending') =
                 IF c \in Pending THEN Cardinality(Pending) - 1 ELSE Cardinality(Pending)
           /\ Cardinality(Counting') =
                 IF c \in Counting THEN Cardinality(Counting) - 1 ELSE Cardinality(Counting)
           /\ \A d \in LimitedCalls : d # c => limited'[d] = limited[d]
  <1>1. /\ limited'[c] = NoHit
        /\ \A d \in LimitedCalls : d # c => limited'[d] = limited[d]
    BY DEF LimiterTypes
  <1>2. Pending' = Pending \ {c}
    BY <1>1 DEF Pending, NoHit
  <1>3. Counting' = Counting \ {c}
    BY <1>1 DEF Counting, NoHit
  <1> QED
    BY <1>1, <1>2, <1>3, PendingIsFinite, FS_RemoveElement

(* INCR takes the next count; only the first Limit of them are pending.      *)
LEMMA IncrKeeps ==
    ASSUME LimiterInv, NEW c \in LimitedCalls, Incr(c)
    PROVE  LimiterInv'
  <1> DEFINE hit == [at |-> IF hits = 0 THEN "expire" ELSE "decide",
                     current |-> hits + 1, life |-> TRUE]
  <1>1. /\ limited[c] = NoHit
        /\ hits' = hits + 1 /\ hits < MaxHits
        /\ limited' = [limited EXCEPT ![c] = hit]
        /\ timed' = timed /\ granted' = granted /\ orphaned' = orphaned
        /\ failures' = failures /\ failClosed' = failClosed
    BY DEF Incr
  <1>2. /\ hit.current = hits + 1 /\ hit.life
        /\ hits = 0 => hit.at = "expire"
    OBVIOUS
  <1>3. hit \in Hits
    BY <1>1, RateLimiterAssumption DEF Hits, LimiterInv, LimiterTypes
  <1> HIDE DEF hit
  <1>4. \A d \in LimitedCalls : limited'[d] = IF d = c THEN hit ELSE limited[d]
    BY <1>1 DEF LimiterInv, LimiterTypes
  <1>5. LimiterTypes'
    BY <1>1, <1>3, RateLimiterAssumption DEF LimiterInv, LimiterTypes
  <1>6. c \notin Pending /\ c \notin Counting
    BY <1>1 DEF Pending, Counting, NoHit
  <1>7. Pending' = IF hits + 1 <= Limit THEN Pending \cup {c} ELSE Pending
    BY <1>2, <1>4, <1>6 DEF Pending
  <1>8. Cardinality(Pending') =
           IF hits + 1 <= Limit THEN Cardinality(Pending) + 1 ELSE Cardinality(Pending)
    BY <1>6, <1>7, PendingIsFinite, FS_AddElement
  <1>9. CountsAreShared'
    <2>1. Counting' = Counting \cup {c}
      BY <1>2, <1>4 DEF Counting
    <2>2. Cardinality(Counting') = Cardinality(Counting) + 1
      BY <1>6, <2>1, PendingIsFinite, FS_AddElement
    <2>3. /\ granted' + Cardinality(Counting') <= hits'
          /\ failures' + Cardinality(Counting') <= hits'
      BY <1>1, <2>2, PendingIsFinite DEF LimiterInv, LimiterTypes, CountsAreShared
    <2>4. Bypassed' = Bypassed /\ Bypassed \in Nat
      BY <1>1 DEF Bypassed, LimiterInv, LimiterTypes
    <2>5. Pending \subseteq Counting
      BY DEF Pending, Counting
    <2>6. Cardinality(Pending) <= Cardinality(Counting)
      BY <2>5, PendingIsFinite, FS_Subset
    <2>7. granted' + Cardinality(Pending') <= Limit + Bypassed'
      BY <1>1, <1>8, <2>4, <2>6, PendingIsFinite, RateLimiterAssumption
         DEF LimiterInv, LimiterTypes, CountsAreShared
    <2> QED
      BY <2>3, <2>7 DEF CountsAreShared
  <1>10. ExpiryComes'
    <2>1. CASE hits = 0
      BY <1>2, <1>4, <2>1 DEF ExpiryComes
    <2>2. CASE hits # 0
      <3>1. \A d \in LimitedCalls : limited[d].at = "expire" => d # c
        BY <1>1 DEF NoHit
      <3>2. hits > 0
        BY <2>2 DEF LimiterInv, LimiterTypes
      <3> QED
        BY <1>1, <1>4, <3>1, <3>2 DEF LimiterInv, ExpiryComes
    <2> QED
      BY <2>1, <2>2
  <1> QED
    BY <1>5, <1>9, <1>10 DEF LimiterInv

(* EXPIRE gives the counter, if it is still there, its time to live.         *)
LEMMA ExpireKeeps ==
    ASSUME LimiterInv, NEW c \in LimitedCalls, Expire(c)
    PROVE  LimiterInv'
  <1>1. /\ timed' = (hits > 0) /\ hits' = hits
        /\ granted' = granted /\ orphaned' = orphaned
        /\ failures' = failures /\ failClosed' = failClosed
        /\ limited' = [limited EXCEPT ![c].at = "decide"]
    BY DEF Expire
  <1>2. \A d \in LimitedCalls : /\ limited'[d].life = limited[d].life
                                /\ limited'[d].current = limited[d].current
    BY <1>1 DEF LimiterInv, LimiterTypes, Hits
  <1>3. Pending' = Pending /\ Counting' = Counting /\ Bypassed' = Bypassed
    BY <1>1, <1>2 DEF Pending, Counting, Bypassed
  <1>4. LimiterTypes'
    BY <1>1 DEF LimiterInv, LimiterTypes, Hits
  <1>5. CountsAreShared'
    BY <1>1, <1>3 DEF LimiterInv, CountsAreShared
  <1> QED
    BY <1>1, <1>4, <1>5 DEF LimiterInv, ExpiryComes

(* A decision allows a request only if it was pending.                       *)
LEMMA DecideKeeps ==
    ASSUME LimiterInv, NEW c \in LimitedCalls, Decide(c)
    PROVE  LimiterInv'
  <1>1. /\ limited' = [limited EXCEPT ![c] = NoHit]
        /\ granted' = IF c \in Pending THEN granted + 1 ELSE granted
        /\ limited[c].at = "decide"
        /\ hits' = hits /\ timed' = timed /\ orphaned' = orphaned
        /\ failures' = failures /\ failClosed' = failClosed
    BY DEF Decide, WithinLimit, Pending
  <1>2. /\ Cardinality(Pending') =
              IF c \in Pending THEN Cardinality(Pending) - 1 ELSE Cardinality(Pending)
        /\ Cardinality(Counting') =
              IF c \in Counting THEN Cardinality(Counting) - 1 ELSE Cardinality(Counting)
        /\ \A d \in LimitedCalls : d # c => limited'[d] = limited[d]
    BY <1>1, EndedRequest DEF LimiterInv
  <1>3. LimiterTypes'
    BY <1>1, RateLimiterAssumption DEF LimiterInv, LimiterTypes, Hits, NoHit
  <1>4. granted' + Cardinality(Pending') = granted + Cardinality(Pending)
    BY <1>1, <1>2, PendingIsFinite DEF LimiterInv, LimiterTypes
  <1>5. CountsAreShared'
    <2>1. c \in Pending => c \in Counting
      BY DEF Pending, Counting
    <2>2. /\ granted' + Cardinality(Counting') <= granted + Cardinality(Counting)
          /\ failures' + Cardinality(Counting') <= failures + Cardinality(Counting)
      BY <1>1, <1>2, <2>1, PendingIsFinite DEF LimiterInv, LimiterTypes
    <2>3. /\ granted' + Cardinality(Counting') <= hits'
          /\ failures' + Cardinality(Counting') <= hits'
      BY <1>1, <1>2, <2>2, PendingIsFinite DEF LimiterInv, LimiterTypes, CountsAreShared
    <2>4. Bypassed' = Bypassed
      BY <1>1 DEF Bypassed
    <2> QED
      BY <1>4, <2>3, <2>4 DEF LimiterInv, CountsAreShared
  <1>6. \A d \in LimitedCalls : limited[d].at = "expire" => limited'[d].at = "expire"
    BY <1>1, <1>2
  <1>7. ExpiryComes'
    BY <1>1, <1>6 DEF LimiterInv, ExpiryComes
  <1> QED
    BY <1>3, <1>5, <1>7 DEF LimiterInv

(* A request that ends by a failure passes in place of its own count.         *)
LEMMA RedisFailsKeeps ==
    ASSUME LimiterInv, NEW c \in LimitedCalls, RedisFails(c)
    PROVE  LimiterInv'
  <1>1. /\ limited' = [limited EXCEPT ![c] = NoHit]
        /\ orphaned' = (orphaned \/ limited[c].at = "expire")
        /\ hits' = hits /\ timed' = timed /\ failClosed' = failClosed
        /\ failures' = IF c \in Counting THEN failures + 1 ELSE failures
        /\ granted' = IF c \in Counting /\ ~failClosed THEN granted + 1 ELSE granted
    BY DEF RedisFails, AnswersFailure, Counting
  <1>2. /\ Cardinality(Pending') =
              IF c \in Pending THEN Cardinality(Pending) - 1 ELSE Cardinality(Pending)
        /\ Cardinality(Counting') =
              IF c \in Counting THEN Cardinality(Counting) - 1 ELSE Cardinality(Counting)
        /\ \A d \in LimitedCalls : d # c => limited'[d] = limited[d]
    BY <1>1, EndedRequest DEF LimiterInv
  <1>3. LimiterTypes'
    BY <1>1, RateLimiterAssumption DEF LimiterInv, LimiterTypes, Hits, NoHit
  <1>4. CountsAreShared'
    <2>1. /\ granted' + Cardinality(Counting') <= hits'
          /\ failures' + Cardinality(Counting') <= hits'
      BY <1>1, <1>2, PendingIsFinite DEF LimiterInv, LimiterTypes, CountsAreShared
    <2>2. Cardinality(Pending') <= Cardinality(Pending)
      BY <1>2, PendingIsFinite
    <2>3. \/ Bypassed' - Bypassed = granted' - granted
          \/ granted' = granted /\ Bypassed' >= Bypassed
      BY <1>1 DEF LimiterInv, LimiterTypes, Bypassed
    <2>4. Bypassed \in Nat /\ Bypassed' \in Nat /\ granted \in Nat /\ granted' \in Nat
      BY <1>1, <1>3 DEF LimiterInv, LimiterTypes, Bypassed
    <2>5. Cardinality(Pending') \in Nat
      <3>1. Pending' \subseteq LimitedCalls
        BY DEF Pending
      <3> QED
        BY <3>1, RateLimiterAssumption, FS_Subset, FS_CardinalityType
    <2>6. granted' + Cardinality(Pending') <= Limit + Bypassed'
      BY <2>2, <2>3, <2>4, <2>5, PendingIsFinite, RateLimiterAssumption
         DEF LimiterInv, CountsAreShared
    <2> QED
      BY <2>1, <2>6 DEF CountsAreShared
  <1>5. ExpiryComes'
    BY <1>1, <1>2 DEF LimiterInv, ExpiryComes
  <1> QED
    BY <1>3, <1>4, <1>5 DEF LimiterInv

(* A process that dies gives its count up.                                   *)
LEMMA ProcessDiesKeeps ==
    ASSUME LimiterInv, NEW c \in LimitedCalls, ProcessDies(c)
    PROVE  LimiterInv'
  <1>1. /\ limited' = [limited EXCEPT ![c] = NoHit]
        /\ orphaned' = (orphaned \/ limited[c].at = "expire")
        /\ hits' = hits /\ timed' = timed /\ granted' = granted
        /\ failures' = failures /\ failClosed' = failClosed
    BY DEF ProcessDies
  <1>2. /\ Cardinality(Pending') =
              IF c \in Pending THEN Cardinality(Pending) - 1 ELSE Cardinality(Pending)
        /\ Cardinality(Counting') =
              IF c \in Counting THEN Cardinality(Counting) - 1 ELSE Cardinality(Counting)
        /\ \A d \in LimitedCalls : d # c => limited'[d] = limited[d]
    BY <1>1, EndedRequest DEF LimiterInv
  <1>3. LimiterTypes'
    BY <1>1, RateLimiterAssumption DEF LimiterInv, LimiterTypes, Hits, NoHit
  <1>4. Bypassed' = Bypassed /\ Bypassed \in Nat
    BY <1>1 DEF LimiterInv, LimiterTypes, Bypassed
  <1>5. CountsAreShared'
    BY <1>1, <1>2, <1>4, PendingIsFinite, RateLimiterAssumption
       DEF LimiterInv, LimiterTypes, CountsAreShared
  <1>6. ExpiryComes'
    BY <1>1, <1>2 DEF LimiterInv, ExpiryComes
  <1> QED
    BY <1>3, <1>5, <1>6 DEF LimiterInv

(* A count whose answer was lost is a failure of its own.                     *)
LEMMA IncrUnansweredKeeps ==
    ASSUME LimiterInv, NEW c \in LimitedCalls, IncrUnanswered(c)
    PROVE  LimiterInv'
  <1>1. /\ hits < MaxHits /\ hits' = hits + 1 /\ limited' = limited
        /\ orphaned' = (orphaned \/ hits = 0)
        /\ timed' = timed /\ failClosed' = failClosed
        /\ failures' = failures + 1
        /\ granted' = IF failClosed THEN granted ELSE granted + 1
    BY DEF IncrUnanswered, AnswersFailure
  <1>2. Pending' = Pending /\ Counting' = Counting
    BY <1>1 DEF Pending, Counting
  <1>3. LimiterTypes'
    BY <1>1, RateLimiterAssumption DEF LimiterInv, LimiterTypes
  <1>4. /\ granted' + Cardinality(Counting') <= hits'
        /\ failures' + Cardinality(Counting') <= hits'
    BY <1>1, <1>2, PendingIsFinite DEF LimiterInv, LimiterTypes, CountsAreShared
  <1>5. granted' + Cardinality(Pending') <= Limit + Bypassed'
    BY <1>1, <1>2, PendingIsFinite, RateLimiterAssumption
       DEF LimiterInv, LimiterTypes, CountsAreShared, Bypassed
  <1>6. ExpiryComes'
    <2>1. CASE hits = 0
      BY <1>1, <2>1 DEF ExpiryComes
    <2>2. CASE hits # 0
      <3>1. hits > 0
        BY <2>2 DEF LimiterInv, LimiterTypes
      <3> QED
        BY <1>1, <3>1 DEF LimiterInv, ExpiryComes
    <2> QED
      BY <2>1, <2>2
  <1> QED
    BY <1>3, <1>4, <1>5, <1>6 DEF LimiterInv, CountsAreShared

(* The window ends: nobody who was counted in it is pending any more.        *)
LEMMA KeyExpiresKeeps ==
    ASSUME LimiterInv, KeyExpires
    PROVE  LimiterInv'
  <1>1. /\ hits' = 0 /\ timed' = FALSE /\ granted' = 0 /\ failures' = 0
        /\ orphaned' = orphaned /\ failClosed' = failClosed
        /\ limited' = [c \in LimitedCalls |-> [limited[c] EXCEPT !.life = FALSE]]
    BY DEF KeyExpires
  <1>2. limited' \in [LimitedCalls -> Hits]
    BY <1>1 DEF LimiterInv, LimiterTypes, Hits
  <1>3. \A c \in LimitedCalls : ~limited'[c].life
    BY <1>1 DEF LimiterInv, LimiterTypes, Hits
  <1>4. Pending' = {} /\ Counting' = {}
    BY <1>3 DEF Pending, Counting
  <1>5. Cardinality(Pending') = 0 /\ Cardinality(Counting') = 0
    BY <1>4, FS_EmptySet
  <1>6. LimiterTypes'
    <2>1. hits' \in 0 .. MaxHits /\ granted' \in Nat /\ failures' \in Nat
      BY <1>1, RateLimiterAssumption
    <2>2. timed' \in BOOLEAN /\ orphaned' \in BOOLEAN /\ failClosed' \in BOOLEAN
      BY <1>1 DEF LimiterInv, LimiterTypes
    <2> QED
      BY <1>2, <2>1, <2>2 DEF LimiterTypes
  <1>7. CountsAreShared'
    <2>1. /\ granted' + Cardinality(Pending') = 0 /\ hits' = 0 /\ Bypassed' = 0
          /\ granted' + Cardinality(Counting') = 0 /\ failures' + Cardinality(Counting') = 0
      BY <1>1, <1>5 DEF Bypassed
    <2> QED
      BY <2>1, RateLimiterAssumption DEF CountsAreShared
  <1>8. ExpiryComes'
    BY <1>1 DEF ExpiryComes
  <1> QED
    BY <1>6, <1>7, <1>8 DEF LimiterInv

(* Before the first request nothing was counted.                             *)
LEMMA InitLimiter == RateLimiterInit => LimiterInv
  <1> SUFFICES ASSUME RateLimiterInit PROVE LimiterInv
    OBVIOUS
  <1>1. LimiterTypes
    <2>1. hits \in 0 .. MaxHits /\ granted \in Nat /\ failures \in Nat
      BY RateLimiterAssumption DEF RateLimiterInit
    <2>2. timed \in BOOLEAN /\ orphaned \in BOOLEAN /\ failClosed \in BOOLEAN
      BY DEF RateLimiterInit
    <2>3. limited \in [LimitedCalls -> Hits]
      BY RateLimiterAssumption DEF RateLimiterInit, Hits, NoHit
    <2> QED
      BY <2>1, <2>2, <2>3 DEF LimiterTypes
  <1>2. Pending = {} /\ Counting = {}
    BY DEF RateLimiterInit, Pending, Counting, NoHit
  <1>3. Cardinality(Pending) = 0 /\ Cardinality(Counting) = 0
    BY <1>2, FS_EmptySet
  <1>4. CountsAreShared
    BY <1>3, RateLimiterAssumption DEF RateLimiterInit, CountsAreShared, Bypassed
  <1> QED
    BY <1>1, <1>4 DEF RateLimiterInit, LimiterInv, ExpiryComes

(* Every step keeps the invariant.                                           *)
LEMMA NextLimiter ==
    ASSUME LimiterInv, [RateLimiterNext]_limiterVars
    PROVE  LimiterInv'
  <1>1. ASSUME UNCHANGED limiterVars
        PROVE  LimiterInv'
    BY <1>1 DEF limiterVars, LimiterInv, LimiterTypes, CountsAreShared, Pending, Counting,
                Bypassed, ExpiryComes
  <1> QED
    BY <1>1, IncrKeeps, ExpireKeeps, DecideKeeps, RedisFailsKeeps, IncrUnansweredKeeps,
       ProcessDiesKeeps, KeyExpiresKeeps
       DEF RateLimiterNext

(* The invariant bounds what was allowed.                                    *)
LEMMA AllowedAtMost ==
    LimiterInv => granted <= Limit + Bypassed /\ granted <= hits /\ failures <= hits
  <1>1. Bypassed \in Nat \/ ~LimiterInv
    BY DEF LimiterInv, LimiterTypes, Bypassed
  <1> QED
    BY <1>1, PendingIsFinite, RateLimiterAssumption DEF LimiterInv, LimiterTypes, CountsAreShared

(* The counter, the window and the requests keep their types.                *)
THEOREM LimiterTypeCorrect == RateLimiterSpec => []RateLimiterTypeOK
  <1>1. LimiterInv => RateLimiterTypeOK
    BY AllowedAtMost, RateLimiterAssumption DEF LimiterInv, LimiterTypes, RateLimiterTypeOK, Hits
  <1> QED
    BY <1>1, InitLimiter, NextLimiter, PTL DEF RateLimiterSpec

(* No window allows more than Limit requests in production and staging, and   *)
(* elsewhere one more for each of its requests that Redis failed, however they *)
(* overlap; and only a failure before EXPIRE leaves a counter without an end. *)
THEOREM WindowsEnd == RateLimiterSpec => []WindowEnds
  <1>1. LimiterInv => WindowEnds
    BY AllowedAtMost DEF LimiterInv, ExpiryComes, Bypassed, WindowEnds
  <1> QED
    BY <1>1, InitLimiter, NextLimiter, PTL DEF RateLimiterSpec

-----------------------------------------------------------------------------
(***************************************************************************)
(* Proofs about Admission for any files, any limits and any number of uploads *)
(* at once.                                                                   *)
(***************************************************************************)

Jobs == [file: Files, status: JobStatuses, rows: Nat]

\* An upload in progress has a file; one that is about to insert has parsed it.
UploadsHaveFiles == \A c \in UploadCalls : /\ uploads[c].at # "idle" => uploads[c].file \in Files
                                           /\ uploads[c].at = "insert" =>
                                                 ParseCsv(uploads[c].file) # Refused

AdmissionTypes == /\ jobs \in Seq(Jobs)
         /\ uploads \in [UploadCalls -> [at: {"idle", "count", "insert", "again"},
                                         file: Files \cup {<<>>}]]
         /\ UploadsHaveFiles

\* A file has one job, and an answer names the job of its file.
FilesHaveOneJob == \A j, k \in DOMAIN jobs : jobs[j].file = jobs[k].file => j = k
AnswersAreRight == \A a \in answers : /\ a.job \in DOMAIN jobs
                                      /\ a.file = jobs[a.job].file

\* Uploads that have passed the limit and are yet to insert their job.
Inserting == {c \in UploadCalls : uploads[c].at = "insert"}

\* An upload passes when less than JobLimit jobs are active, and then it is one
\* of those that have.
LimitInv == Cardinality(ActiveJobs) + Cardinality(Inserting)
               < JobLimit + Cardinality(UploadCalls)

AdmissionInv == /\ AdmissionTypes /\ FilesHaveOneJob /\ AnswersAreRight
                /\ RowsWithinLimit /\ LimitInv

-----------------------------------------------------------------------------

(* The rows of a file are counted in a natural number, one at a time.        *)
LEMMA TitledGrows ==
    ASSUME NEW file, NEW k \in Nat
    PROVE  /\ Titled(file, 0) = 0
           /\ Titled(file, k) \in Nat
           /\ Titled(file, k + 1) <= Titled(file, k) + 1
  <1> DEFINE S(n) == {j \in 1 .. n : file[j] = "titled"}
  <1>1. S(0) = {}
    OBVIOUS
  <1>2. IsFiniteSet(S(k))
    <2>1. IsFiniteSet(1 .. k)
      BY FS_Interval
    <2>2. S(k) \in SUBSET (1 .. k)
      OBVIOUS
    <2> QED
      BY <2>1, <2>2, FS_Subset
  <1>3. S(k + 1) = IF file[k + 1] = "titled" THEN S(k) \cup {k + 1} ELSE S(k)
    OBVIOUS
  <1>4. /\ IsFiniteSet(S(k) \cup {k + 1})
        /\ Cardinality(S(k) \cup {k + 1}) =
              IF k + 1 \in S(k) THEN Cardinality(S(k)) ELSE Cardinality(S(k)) + 1
    BY <1>2, FS_AddElement
  <1>5. k + 1 \notin S(k)
    OBVIOUS
  <1>6. Cardinality(S(k)) \in Nat /\ Cardinality({}) = 0
    BY <1>2, FS_CardinalityType, FS_EmptySet
  <1>7. Cardinality(S(k + 1)) <= Cardinality(S(k)) + 1
    <2>1. CASE file[k + 1] = "titled"
      <3>1. S(k + 1) = S(k) \cup {k + 1}
        BY <1>3, <2>1
      <3>2. Cardinality(S(k + 1)) = Cardinality(S(k)) + 1
        BY <1>4, <1>5, <3>1
      <3> HIDE DEF S
      <3> QED
        BY <1>6, <3>2
    <2>2. CASE file[k + 1] # "titled"
      <3>1. S(k + 1) = S(k)
        BY <1>3, <2>2
      <3> HIDE DEF S
      <3> QED
        BY <1>6, <3>1
    <2> QED
      BY <2>1, <2>2
  <1> QED
    BY <1>1, <1>6, <1>7 DEF Titled

(* A file the parser accepts has at least one row and at most MaxRows.       *)
LEMMA ParsedWithinLimit ==
    ASSUME NEW file \in Files, ParseCsv(file) # Refused
    PROVE  ParseCsv(file) \in 1 .. MaxRows
  <1>1. file \in Seq({"titled", "blank", "bad"}) /\ MaxRows \in Nat
    BY AdmissionAssumption
  <1>2. Len(file) \in Nat /\ DOMAIN file = 1 .. Len(file)
    BY <1>1
  <1>3. /\ ParseCsv(file) = Titled(file, Len(file))
        /\ \A k \in DOMAIN file : ~(Titled(file, k - 1) >= MaxRows)
    BY DEF ParseCsv
  <1>4. ParseCsv(file) \in Nat /\ ParseCsv(file) # 0
    BY <1>2, <1>3, TitledGrows DEF Refused
  <1>5. Len(file) # 0
    BY <1>3, <1>4, TitledGrows
  <1>6. Len(file) - 1 \in Nat /\ Len(file) \in DOMAIN file /\ Len(file) - 1 + 1 = Len(file)
    BY <1>2, <1>5
  <1>7. /\ Titled(file, Len(file) - 1) \in Nat
        /\ Titled(file, Len(file)) <= Titled(file, Len(file) - 1) + 1
    BY <1>6, TitledGrows
  <1>8. Titled(file, Len(file) - 1) < MaxRows
    BY <1>1, <1>3, <1>6, <1>7
  <1> QED
    BY <1>1, <1>3, <1>4, <1>7, <1>8

(* The sets that are counted are finite.                                     *)
LEMMA CountedSets ==
    ASSUME AdmissionTypes
    PROVE  /\ IsFiniteSet(ActiveJobs) /\ Cardinality(ActiveJobs) \in Nat
           /\ IsFiniteSet(Inserting) /\ Cardinality(Inserting) \in Nat
           /\ Cardinality(Inserting) <= Cardinality(UploadCalls)
           /\ Cardinality(UploadCalls) \in Nat
  <1>1. DOMAIN jobs = 1 .. Len(jobs) /\ Len(jobs) \in Nat
    BY DEF AdmissionTypes
  <1>2. IsFiniteSet(1 .. Len(jobs)) /\ ActiveJobs \in SUBSET (1 .. Len(jobs))
    <2>1. IsFiniteSet(1 .. Len(jobs))
      BY <1>1, FS_Interval
    <2>2. ActiveJobs \in SUBSET (1 .. Len(jobs))
      BY <1>1 DEF ActiveJobs
    <2> QED
      BY <2>1, <2>2
  <1>3. IsFiniteSet(ActiveJobs)
    BY <1>2, FS_Subset
  <1>4. Inserting \in SUBSET UploadCalls /\ IsFiniteSet(UploadCalls)
    BY AdmissionAssumption DEF Inserting
  <1>5. IsFiniteSet(Inserting) /\ Cardinality(Inserting) <= Cardinality(UploadCalls)
    BY <1>4, FS_Subset
  <1> QED
    BY <1>3, <1>4, <1>5, FS_CardinalityType

(* An upload's step changes its own record, and its place among those that   *)
(* are about to insert.                                                      *)
LEMMA UploadMoves ==
    ASSUME AdmissionTypes, NEW c \in UploadCalls, NEW at \in {"idle", "count", "insert", "again"},
           NEW file \in Files \cup {<<>>}, at # "idle" => file \in Files,
           at = "insert" => ParseCsv(file) # Refused,
           uploads' = [uploads EXCEPT ![c] = [at |-> at, file |-> file]],
           jobs' \in Seq(Jobs)
    PROVE  /\ AdmissionTypes'
           /\ Inserting' = IF at = "insert" THEN Inserting \cup {c} ELSE Inserting \ {c}
  <1> DEFINE new == [at |-> at, file |-> file]
  <1>1. new.at = at /\ new.file = file
    OBVIOUS
  <1>2. new \in [at: {"idle", "count", "insert", "again"}, file: Files \cup {<<>>}]
    OBVIOUS
  <1>3. uploads' = [uploads EXCEPT ![c] = new]
    OBVIOUS
  <1> HIDE DEF new
  <1>4. \A d \in UploadCalls : uploads'[d] = IF d = c THEN new ELSE uploads[d]
    BY <1>3 DEF AdmissionTypes
  <1>5. uploads' \in [UploadCalls -> [at: {"idle", "count", "insert", "again"},
                                      file: Files \cup {<<>>}]]
    BY <1>2, <1>3 DEF AdmissionTypes
  <1>6. UploadsHaveFiles'
    <2>1. \A d \in UploadCalls :
             /\ uploads'[d].at # "idle" => uploads'[d].file \in Files
             /\ uploads'[d].at = "insert" => ParseCsv(uploads'[d].file) # Refused
      BY <1>1, <1>4 DEF AdmissionTypes, UploadsHaveFiles
    <2> QED
      BY <2>1 DEF UploadsHaveFiles, ParseCsv, Titled
  <1>7. Inserting' = IF at = "insert" THEN Inserting \cup {c} ELSE Inserting \ {c}
    BY <1>1, <1>4 DEF Inserting
  <1> QED
    BY <1>5, <1>6, <1>7 DEF AdmissionTypes

(* An upload that leaves the jobs alone: it may pass the limit, answer with   *)
(* the job of its file, or be refused.                                       *)
LEMMA UploadKeeps ==
    ASSUME AdmissionInv, NEW c \in UploadCalls, NEW at \in {"idle", "count", "insert", "again"},
           NEW file \in Files \cup {<<>>}, at # "idle" => file \in Files,
           at = "insert" => ParseCsv(file) # Refused /\ Cardinality(ActiveJobs) < JobLimit,
           uploads' = [uploads EXCEPT ![c] = [at |-> at, file |-> file]],
           jobs' = jobs,
           \/ answers' = answers
           \/ \E f \in Files : \E k \in JobsFor(f) :
                 answers' = answers \cup {[file |-> f, job |-> k]}
    PROVE  AdmissionInv'
  <1>1. AdmissionTypes
    BY DEF AdmissionInv
  <1>2. /\ AdmissionTypes'
        /\ Inserting' = IF at = "insert" THEN Inserting \cup {c} ELSE Inserting \ {c}
    BY <1>1, UploadMoves DEF AdmissionTypes
  <1>3. FilesHaveOneJob' /\ RowsWithinLimit' /\ ActiveJobs' = ActiveJobs
    BY DEF AdmissionInv, FilesHaveOneJob, RowsWithinLimit, ActiveJobs
  <1>4. AnswersAreRight'
    <2>1. CASE answers' = answers
      BY <2>1 DEF AdmissionInv, AnswersAreRight
    <2>2. ASSUME NEW f \in Files, NEW k \in JobsFor(f),
                 answers' = answers \cup {[file |-> f, job |-> k]}
          PROVE  AnswersAreRight'
      BY <2>2 DEF AdmissionInv, AnswersAreRight, JobsFor
    <2> QED
      BY <2>1, <2>2
  <1>5. LimitInv'
    <2>1. /\ Cardinality(ActiveJobs) \in Nat /\ IsFiniteSet(Inserting)
          /\ Cardinality(Inserting) \in Nat /\ Cardinality(UploadCalls) \in Nat
          /\ Cardinality(Inserting') \in Nat
          /\ Cardinality(Inserting') <= Cardinality(UploadCalls)
      <3>1. Inserting' \in SUBSET UploadCalls
        BY DEF Inserting
      <3>2. IsFiniteSet(Inserting') /\ Cardinality(Inserting') <= Cardinality(UploadCalls)
        BY <3>1, FS_Subset, AdmissionAssumption
      <3>3. Cardinality(Inserting') \in Nat
        BY <3>2, FS_CardinalityType
      <3> QED
        BY <1>1, <3>2, <3>3, CountedSets
    <2>2. CASE at = "insert"
      <3>1. Cardinality(ActiveJobs) < JobLimit
        BY <2>2
      <3> QED
        BY <1>3, <2>1, <3>1, AdmissionAssumption DEF LimitInv
    <2>3. CASE at # "insert"
      <3>1. Cardinality(Inserting') <= Cardinality(Inserting)
        <4>1. Inserting' = Inserting \ {c}
          BY <1>2, <2>3
        <4>2. Inserting' \in SUBSET Inserting
          BY <4>1
        <4> QED
          BY <2>1, <4>2, FS_Subset
      <3>2. Cardinality(ActiveJobs) + Cardinality(Inserting) < JobLimit + Cardinality(UploadCalls)
        BY DEF AdmissionInv, LimitInv
      <3> QED
        BY <1>3, <2>1, <3>1, <3>2, AdmissionAssumption DEF LimitInv
    <2> QED
      BY <2>2, <2>3
  <1> QED
    BY <1>2, <1>3, <1>4, <1>5 DEF AdmissionInv

(* The job of a file that has none is inserted: one upload less is about to. *)
LEMMA InsertKeeps ==
    ASSUME AdmissionInv, NEW c \in UploadCalls, InsertJob(c), JobsFor(uploads[c].file) = {}
    PROVE  AdmissionInv'
  <1> DEFINE file == uploads[c].file
             job == [file |-> file, status |-> "PENDING", rows |-> ParseCsv(file)]
  <1>1. /\ uploads[c].at = "insert"
        /\ jobs' = Append(jobs, job)
        /\ answers' = answers \cup {[file |-> file, job |-> Len(jobs) + 1]}
        /\ uploads' = [uploads EXCEPT ![c] = NoUpload]
    BY DEF InsertJob, Answers
  <1>2. AdmissionTypes
    BY DEF AdmissionInv
  <1>3. file \in Files /\ ParseCsv(file) # Refused
    BY <1>1, <1>2 DEF AdmissionTypes, UploadsHaveFiles
  <1>4. ParseCsv(file) \in 1 .. MaxRows /\ ParseCsv(file) \in Nat
    BY <1>3, ParsedWithinLimit
  <1>5. /\ job \in Jobs /\ job.file = file /\ job.rows = ParseCsv(file)
        /\ job.status = "PENDING"
    BY <1>3, <1>4 DEF Jobs, JobStatuses
  <1>6. JobsFor(file) = {}
    OBVIOUS
  <1> HIDE DEF job, file
  <1>7. /\ jobs' \in Seq(Jobs) /\ Len(jobs') = Len(jobs) + 1 /\ Len(jobs) \in Nat
        /\ \A k \in 1 .. Len(jobs) : jobs'[k] = jobs[k]
        /\ jobs'[Len(jobs) + 1] = job
    BY <1>1, <1>2, <1>5, AppendProperties DEF AdmissionTypes
  <1>8. DOMAIN jobs = 1 .. Len(jobs) /\ DOMAIN jobs' = 1 .. Len(jobs) + 1
    BY <1>2, <1>7 DEF AdmissionTypes
  <1>9. \A k \in DOMAIN jobs' : \/ k \in DOMAIN jobs /\ jobs'[k] = jobs[k]
                                \/ k = Len(jobs) + 1 /\ jobs'[k] = job
    BY <1>7, <1>8
  <1>10. \A k \in DOMAIN jobs : k \in DOMAIN jobs' /\ k # Len(jobs) + 1 /\ jobs'[k] = jobs[k]
    BY <1>7, <1>8
  <1>11. Len(jobs) + 1 \in DOMAIN jobs'
    BY <1>7, <1>8
  <1>12. AdmissionTypes' /\ Inserting' = Inserting \ {c} /\ c \in Inserting
    <2>1. uploads' = [uploads EXCEPT ![c] = [at |-> "idle", file |-> <<>>]]
      BY <1>1 DEF NoUpload
    <2>2. AdmissionTypes' /\ Inserting' = Inserting \ {c}
      BY <1>2, <1>7, <2>1, UploadMoves
    <2> QED
      BY <1>1, <2>2 DEF Inserting
  <1>13. FilesHaveOneJob'
    <2>1. \A k \in DOMAIN jobs : jobs[k].file # file
      BY <1>6 DEF JobsFor
    <2> QED
      BY <1>5, <1>9, <2>1 DEF AdmissionInv, FilesHaveOneJob
  <1>14. AnswersAreRight'
    BY <1>1, <1>5, <1>7, <1>10, <1>11 DEF AdmissionInv, AnswersAreRight
  <1>15. RowsWithinLimit'
    BY <1>4, <1>5, <1>9 DEF AdmissionInv, RowsWithinLimit
  <1>16. LimitInv'
    <2>1. ActiveJobs' = ActiveJobs \cup {Len(jobs) + 1}
      BY <1>5, <1>9, <1>10, <1>11, <1>7 DEF ActiveJobs
    <2>2. Len(jobs) + 1 \notin ActiveJobs
      BY <1>10 DEF ActiveJobs
    <2>3. /\ Cardinality(ActiveJobs') = Cardinality(ActiveJobs) + 1
          /\ Cardinality(Inserting') = Cardinality(Inserting) - 1
      BY <1>2, <1>12, <2>1, <2>2, CountedSets, FS_AddElement, FS_RemoveElement
    <2>4. /\ Cardinality(ActiveJobs) \in Nat /\ Cardinality(Inserting) \in Nat
          /\ Cardinality(ActiveJobs) + Cardinality(Inserting) < JobLimit + Cardinality(UploadCalls)
      BY <1>2, CountedSets DEF AdmissionInv, LimitInv
    <2> QED
      BY <2>3, <2>4 DEF LimitInv
  <1> QED
    BY <1>12, <1>13, <1>14, <1>15, <1>16 DEF AdmissionInv

(* A job moves on: only its status changes, and only out of the active ones. *)
LEMMA JobMovesKeeps ==
    ASSUME AdmissionInv, NEW k \in DOMAIN jobs, JobMoves(k)
    PROVE  AdmissionInv'
  <1>1. PICK s \in {"PROCESSING", "ended"} : jobs' = [jobs EXCEPT ![k].status = s]
    BY DEF JobMoves
  <1>2. jobs \in Seq(Jobs) /\ jobs[k] \in Jobs
    BY DEF AdmissionInv, AdmissionTypes
  <1>3. [jobs[k] EXCEPT !.status = s] \in Jobs
    BY <1>2 DEF Jobs, JobStatuses
  <1>4. jobs' = [jobs EXCEPT ![k] = [jobs[k] EXCEPT !.status = s]]
    BY <1>1
  <1>5. jobs' \in Seq(Jobs) /\ DOMAIN jobs' = DOMAIN jobs
    BY <1>2, <1>3, <1>4, ExceptSeq
  <1>6. \A j \in DOMAIN jobs : /\ jobs'[j].file = jobs[j].file
                               /\ jobs'[j].rows = jobs[j].rows
                               /\ j # k => jobs'[j] = jobs[j]
    BY <1>2, <1>4 DEF Jobs
  <1>7. /\ jobs[k].status # "ended" /\ uploads' = uploads /\ answers' = answers
    BY DEF JobMoves
  <1>8. AdmissionTypes' /\ Inserting' = Inserting
    BY <1>5, <1>7 DEF AdmissionInv, AdmissionTypes, UploadsHaveFiles, ParseCsv, Titled, Inserting
  <1>9. FilesHaveOneJob' /\ AnswersAreRight' /\ RowsWithinLimit'
    BY <1>5, <1>6, <1>7 DEF AdmissionInv, FilesHaveOneJob, AnswersAreRight, RowsWithinLimit
  <1>10. LimitInv'
    <2>1. jobs[k].status \in {"PENDING", "PROCESSING"}
      BY <1>2, <1>7 DEF Jobs, JobStatuses
    <2>2. ActiveJobs' \in SUBSET ActiveJobs
      BY <1>5, <1>6, <2>1 DEF ActiveJobs
    <2>3. /\ IsFiniteSet(ActiveJobs) /\ Cardinality(ActiveJobs) \in Nat
          /\ Cardinality(Inserting) \in Nat /\ Cardinality(UploadCalls) \in Nat
      BY CountedSets DEF AdmissionInv
    <2>4. Cardinality(ActiveJobs') <= Cardinality(ActiveJobs) /\ IsFiniteSet(ActiveJobs')
      BY <2>2, <2>3, FS_Subset
    <2>5. Cardinality(ActiveJobs') \in Nat
      BY <2>4, FS_CardinalityType
    <2>6. Cardinality(ActiveJobs) + Cardinality(Inserting) < JobLimit + Cardinality(UploadCalls)
      BY DEF AdmissionInv, LimitInv
    <2> QED
      BY <1>8, <2>3, <2>4, <2>5, <2>6, AdmissionAssumption DEF LimitInv
  <1> QED
    BY <1>8, <1>9, <1>10 DEF AdmissionInv

(* Before the first upload there is no job.                                  *)
LEMMA InitAdmission == AdmissionInit => AdmissionInv
  <1> SUFFICES ASSUME AdmissionInit PROVE AdmissionInv
    OBVIOUS
  <1>1. jobs = <<>> /\ jobs \in Seq(Jobs) /\ DOMAIN jobs = {}
    BY DEF AdmissionInit
  <1>2. AdmissionTypes
    BY <1>1 DEF AdmissionInit, AdmissionTypes, UploadsHaveFiles, NoUpload
  <1>3. FilesHaveOneJob /\ AnswersAreRight /\ RowsWithinLimit
    BY <1>1 DEF AdmissionInit, FilesHaveOneJob, AnswersAreRight, RowsWithinLimit
  <1>4. ActiveJobs = {} /\ Inserting = {}
    BY <1>1 DEF AdmissionInit, ActiveJobs, Inserting, NoUpload
  <1>5. Cardinality(ActiveJobs) = 0 /\ Cardinality(Inserting) = 0
    BY <1>4, FS_EmptySet
  <1>6. LimitInv
    BY <1>2, <1>5, CountedSets, AdmissionAssumption DEF LimitInv
  <1> QED
    BY <1>2, <1>3, <1>6 DEF AdmissionInv

(* Every step keeps the invariant.                                           *)
LEMMA NextAdmission ==
    ASSUME AdmissionInv, [AdmissionNext]_admissionVars
    PROVE  AdmissionInv'
  <1> USE DEF Uploads, Answers, NoUpload
  <1>1. ASSUME NEW c \in UploadCalls, NEW file \in Files, CreateCsvJob(c, file)
        PROVE  AdmissionInv'
    <2>1. CASE \E k \in JobsFor(file) : Answers(c, file, k)
      BY <1>1, <2>1, UploadKeeps DEF CreateCsvJob
    <2>2. CASE Uploads(c, "count", file) /\ answers' = answers
      BY <1>1, <2>2, UploadKeeps DEF CreateCsvJob
    <2> QED
      BY <1>1, <2>1, <2>2 DEF CreateCsvJob
  <1>2. ASSUME NEW c \in UploadCalls, uploads[c].at # "idle"
        PROVE  uploads[c].file \in Files
    BY <1>2 DEF AdmissionInv, AdmissionTypes, UploadsHaveFiles
  <1>3. ASSUME NEW c \in UploadCalls, CountActiveJobs(c)
        PROVE  AdmissionInv'
    <2>1. uploads[c].file \in Files
      BY <1>2, <1>3 DEF CountActiveJobs
    <2> QED
      BY <1>3, <2>1, UploadKeeps DEF CountActiveJobs
  <1>4. ASSUME NEW c \in UploadCalls, InsertJob(c)
        PROVE  AdmissionInv'
    <2>1. uploads[c].file \in Files
      BY <1>2, <1>4 DEF InsertJob
    <2>2. CASE JobsFor(uploads[c].file) # {}
      BY <1>4, <2>1, <2>2, UploadKeeps DEF InsertJob
    <2> QED
      BY <1>4, <2>2, InsertKeeps
  <1>5. ASSUME NEW c \in UploadCalls, AnswerExistingJob(c)
        PROVE  AdmissionInv'
    <2>1. uploads[c].file \in Files
      BY <1>2, <1>5 DEF AnswerExistingJob
    <2> QED
      BY <1>5, <2>1, UploadKeeps DEF AnswerExistingJob
  <1>6. CASE UNCHANGED admissionVars
    <2>1. jobs' = jobs /\ uploads' = uploads /\ answers' = answers
      BY <1>6 DEF admissionVars
    <2>2. AdmissionTypes' /\ Inserting' = Inserting /\ ActiveJobs' = ActiveJobs
      BY <2>1 DEF AdmissionInv, AdmissionTypes, UploadsHaveFiles, ParseCsv, Titled, Inserting, ActiveJobs
    <2>3. LimitInv'
      BY <2>2 DEF AdmissionInv, LimitInv
    <2> QED
      BY <2>1, <2>2, <2>3
         DEF AdmissionInv, FilesHaveOneJob, AnswersAreRight, RowsWithinLimit
  <1> QED
    BY <1>1, <1>3, <1>4, <1>5, <1>6, JobMovesKeeps DEF AdmissionNext

-----------------------------------------------------------------------------

(* Jobs, uploads and answers keep their types.                               *)
THEOREM AdmissionTypeCorrect == AdmissionSpec => []AdmissionTypeOK
  <1>1. AdmissionInv => AdmissionTypeOK
    <2> SUFFICES ASSUME AdmissionInv PROVE AdmissionTypeOK
      OBVIOUS
    <2>1. \A k \in DOMAIN jobs : jobs[k] \in Jobs
      BY DEF AdmissionInv, AdmissionTypes
    <2> QED
      BY <2>1 DEF AdmissionInv, AdmissionTypes, AnswersAreRight, AdmissionTypeOK, Jobs
  <1> QED
    BY <1>1, InitAdmission, NextAdmission, PTL DEF AdmissionSpec

(* Every answer about one file names the same job.                           *)
THEOREM FilesHaveOneAnswer == AdmissionSpec => []OneJobPerFile
  <1>1. AdmissionInv => OneJobPerFile
    BY DEF AdmissionInv, FilesHaveOneJob, AnswersAreRight, OneJobPerFile
  <1> QED
    BY <1>1, InitAdmission, NextAdmission, PTL DEF AdmissionSpec

(* A job has at least one row and at most MaxRows.                           *)
THEOREM RowsAreLimited == AdmissionSpec => []RowsWithinLimit
  <1>1. AdmissionInv => RowsWithinLimit
    BY DEF AdmissionInv
  <1> QED
    BY <1>1, InitAdmission, NextAdmission, PTL DEF AdmissionSpec

(* The limit of active jobs is passed by at most the uploads that overlap.    *)
THEOREM LimitsAreNearlyKept == AdmissionSpec => []LimitIsNearlyKept
  <1>1. AdmissionInv => LimitIsNearlyKept
    BY CountedSets, AdmissionAssumption DEF AdmissionInv, LimitInv, LimitIsNearlyKept
  <1> QED
    BY <1>1, InitAdmission, NextAdmission, PTL DEF AdmissionSpec

-----------------------------------------------------------------------------
(***************************************************************************)
(* Proofs about ProfileImages for any number of requests and images: what    *)
(* overlapping requests, failures and deaths leave of two stores that have    *)
(* no common transaction.                                                    *)
(***************************************************************************)

\* The request has a key of its own, for which there is no row yet.
Owns(c) == imageCalls[c].at \in {"put", "stage", "commit", "drop"}

Sent == 1 .. imagesSent

\* What a request that is under way knows of the row and the object it works on.
Uploading(c) == LET me == imageCalls[c] IN
    /\ Owns(c) => uploadRows[me.image] = "none"
    /\ me.at = "put" => me.image \notin objects
    /\ me.at \in {"stage", "commit"} => me.image \in objects
    /\ me.at = "commit" /\ me.linked # 0 /\ me.was # "ACTIVE"
         => uploadRows[me.linked] # "ACTIVE"
    /\ me.at = "check" /\ me.linked # 0 => uploadRows[me.linked] # "ACTIVE"

Deleting(c) == LET me == imageCalls[c] IN
    /\ me.at = "unlink" => /\ uploadRows[me.image] # "none"
                           /\ me.image = profileImage => me.linked = me.image
                           /\ me.was # "ACTIVE" => uploadRows[me.image] # "ACTIVE"
                           /\ me.was # "REPLACED" => me.was = "ACTIVE"
    /\ me.at \in {"erase", "mark"} => uploadRows[me.image] \notin {"none", "ACTIVE"}
    /\ me.at = "mark" => me.image \notin objects

ImageCallInv(c) == LET me == imageCalls[c] IN
    /\ me.at # "idle" => me.image \in Sent
    /\ me.linked # 0 => uploadRows[me.linked] # "none"
    /\ Uploading(c)
    /\ Deleting(c)

\* Two uploads never have the same key.
ImagesApart == \A c, d \in ImageCalls :
            c # d /\ Owns(c) /\ Owns(d) => imageCalls[c].image # imageCalls[d].image

Unsent == \A i \in Images : i > imagesSent => uploadRows[i] = "none" /\ i \notin objects
Linked == profileImage # 0 => uploadRows[profileImage] = "ACTIVE"
Stored == \A i \in Images : uploadRows[i] = "ACTIVE" => i \in objects
Erased == \A i \in objects : uploadRows[i] # "DELETED"

Kept == /\ \A c \in ImageCalls : ImageCallInv(c)
        /\ ImagesApart /\ Unsent /\ Linked /\ Stored /\ Erased

\* The request will erase the object, or make its row active.
InCharge(c, i) == LET me == imageCalls[c] IN
    \/ me.at \in {"stage", "commit", "drop", "erase"} /\ me.image = i
    \/ me.at = "check" /\ me.linked = i

Charged == \A i \in objects :
              uploadRows[i] # "ACTIVE" => \E c \in ImageCalls : InCharge(c, i)

-----------------------------------------------------------------------------

(* A step of one request leaves the others as they are.                      *)
OnlyMoves(c) == /\ imageCalls' = [imageCalls EXCEPT ![c] = imageCalls'[c]]
                /\ \A d \in ImageCalls : d # c => imageCalls'[d] = imageCalls[d]

(* What a step of c may do to the tables: a row appears only for a key of c,  *)
(* rows that are there only lose ACTIVE, objects come and go that no other    *)
(* upload owns, and a new profile image is one that had no row.              *)
Forward(c) ==
    /\ imagesSent <= imagesSent'
    /\ \A i \in Images :
          \/ uploadRows'[i] = uploadRows[i]
          \/ /\ uploadRows[i] = "none"
             /\ \A d \in ImageCalls : d # c /\ Owns(d) => imageCalls[d].image # i
          \/ uploadRows[i] # "none" /\ uploadRows'[i] \in {"REPLACED", "DELETED"}
    /\ \A i \in objects \ objects' :
          \A d \in ImageCalls : d # c /\ Owns(d) => imageCalls[d].image # i
    /\ \A i \in objects' \ objects :
          /\ uploadRows[i] = "none"
          /\ \A d \in ImageCalls : d # c /\ Owns(d) => imageCalls[d].image # i
    /\ \/ profileImage' \in {profileImage, 0}
       \/ uploadRows[profileImage'] = "none"

(* What the other requests know stays true.                                  *)
LEMMA OthersKeep ==
    ASSUME ProfileImagesTypeOK, ProfileImagesTypeOK', Kept,
           NEW c \in ImageCalls, OnlyMoves(c), Forward(c)
    PROVE  \A d \in ImageCalls : d # c => ImageCallInv(d)'
  <1> SUFFICES ASSUME NEW d \in ImageCalls, d # c
               PROVE  ImageCallInv(d)'
    OBVIOUS
  <1>1. imageCalls'[d] = imageCalls[d] /\ ImageCallInv(d) /\ imageCalls[d] \in ImageCall
    BY DEF OnlyMoves, Kept, ProfileImagesTypeOK
  <1>2. imagesSent \in Nat /\ imagesSent' \in Nat /\ imagesSent <= imagesSent'
        /\ imagesSent <= MaxImages
    BY ProfileImagesAssumption DEF ProfileImagesTypeOK, Forward
  <1>3. imageCalls[d].at # "idle" =>
            imageCalls[d].image \in Images /\ imageCalls[d].image # 0
    BY <1>1, <1>2, ProfileImagesAssumption DEF ImageCallInv, Sent, Images
  <1>4. imageCalls[d].linked # 0 => imageCalls[d].linked \in Images
    BY <1>1, ProfileImagesAssumption DEF ImageCall, Images
  <1>5. imageCalls[d].at # "idle" => imageCalls[d].image \in Sent'
    BY <1>1, <1>2 DEF ImageCallInv, Sent
  <1>6. imageCalls[d].linked # 0 => uploadRows'[imageCalls[d].linked] # "none"
    BY <1>1, <1>4 DEF ImageCallInv, Forward
  <1>7. Uploading(d)'
    BY <1>1, <1>3, <1>4 DEF ImageCallInv, Uploading, Owns, Forward
  <1>8. Deleting(d)'
    BY <1>1, <1>3, <1>4 DEF ImageCallInv, Deleting, Forward, ImageCall
  <1> QED
    BY <1>1, <1>5, <1>6, <1>7, <1>8 DEF ImageCallInv

(* A step that changes no table is a step forward.                           *)
LEMMA StillIsForward ==
    ASSUME ProfileImagesTypeOK, NEW c \in ImageCalls,
           UNCHANGED <<uploadRows, objects, profileImage>>, imagesSent <= imagesSent'
    PROVE  Forward(c)
  BY DEF Forward

(* Keys stay apart unless a step takes a key that an upload has.             *)
LEMMA ApartKept ==
    ASSUME ImagesApart, NEW c \in ImageCalls, OnlyMoves(c),
           Owns(c)' => \A d \in ImageCalls : d # c /\ Owns(d) =>
                          imageCalls[d].image # imageCalls'[c].image
    PROVE  ImagesApart'
  BY DEF ImagesApart, OnlyMoves, Owns

(* Objects stay in charge of somebody unless the step drops its charge.      *)
LEMMA ChargedKept ==
    ASSUME Charged, NEW c \in ImageCalls, OnlyMoves(c),
           \A i \in objects' : uploadRows'[i] # "ACTIVE" =>
              \/ InCharge(c, i)'
              \/ i \in objects /\ uploadRows[i] # "ACTIVE" /\ ~InCharge(c, i)
    PROVE  Charged'
  <1> SUFFICES ASSUME NEW i \in objects', uploadRows'[i] # "ACTIVE"
               PROVE  \E d \in ImageCalls : InCharge(d, i)'
    BY DEF Charged
  <1>1. CASE InCharge(c, i)'
    BY <1>1
  <1>2. CASE i \in objects /\ uploadRows[i] # "ACTIVE" /\ ~InCharge(c, i)
    <2>1. PICK d \in ImageCalls : InCharge(d, i)
      BY <1>2 DEF Charged
    <2>2. imageCalls'[d] = imageCalls[d]
      BY <1>2, <2>1 DEF OnlyMoves
    <2> QED
      BY <2>1, <2>2 DEF InCharge
  <1> QED
    BY <1>1, <1>2

(* The request that a step leaves idle knows nothing more.                   *)
LEMMA IdleKnows ==
    ASSUME NEW c \in ImageCalls, imageCalls'[c] = NoCall
    PROVE  ImageCallInv(c)' /\ ~Owns(c)'
  BY DEF NoCall, ImageCallInv, Uploading, Deleting, Owns

(* A step forward of c keeps what it leaves true of c and of the tables.      *)
LEMMA StepKeeps ==
    ASSUME ProfileImagesTypeOK, ProfileImagesTypeOK', Kept,
           NEW c \in ImageCalls, OnlyMoves(c), Forward(c), ImageCallInv(c)',
           Owns(c)' => \A d \in ImageCalls : d # c /\ Owns(d) =>
                          imageCalls[d].image # imageCalls'[c].image,
           Unsent', Linked', Stored', Erased'
    PROVE  Kept'
  <1>1. ImagesApart'
    BY ApartKept DEF Kept
  <1>2. \A d \in ImageCalls : ImageCallInv(d)'
    BY OthersKeep
  <1> QED
    BY <1>1, <1>2 DEF Kept

(* So does one that changes no table and takes no key.                       *)
LEMMA QuietKeeps ==
    ASSUME ProfileImagesTypeOK, ProfileImagesTypeOK', Kept,
           NEW c \in ImageCalls, OnlyMoves(c), ImageCallInv(c)',
           UNCHANGED <<uploadRows, objects, profileImage, imagesSent>>,
           Owns(c)' => Owns(c) /\ imageCalls'[c].image = imageCalls[c].image
    PROVE  Kept'
  <1>1. Forward(c)
    BY StillIsForward DEF ProfileImagesTypeOK
  <1>2. Unsent' /\ Linked' /\ Stored' /\ Erased'
    BY DEF Kept, Unsent, Linked, Stored, Erased
  <1>3. Owns(c)' => \A d \in ImageCalls : d # c /\ Owns(d) =>
                       imageCalls[d].image # imageCalls'[c].image
    BY DEF Kept, ImagesApart
  <1> QED
    BY <1>1, <1>2, <1>3, StepKeeps

-----------------------------------------------------------------------------
(* Types.                                                                   *)

\* A request under way works on an image.
Keyed == \A c \in ImageCalls : imageCalls[c].at # "idle" => imageCalls[c].image \in Images

ImageTypes == ProfileImagesTypeOK /\ Keyed

LEMMA TypeInit == ProfileImagesInit => ImageTypes
  BY ProfileImagesAssumption
     DEF ProfileImagesInit, ImageTypes, Keyed, ProfileImagesTypeOK, ImageCall, NoCall, Steps,
         RowStatuses

(* The requests keep their type when one of them takes a legal record.       *)
LEMMA CallTypeKept ==
    ASSUME ImageTypes, NEW c \in ImageCalls, NEW me \in ImageCall,
           me.at # "idle" => me.image \in Images,
           imageCalls' = [imageCalls EXCEPT ![c] = me]
    PROVE  /\ imageCalls' \in [ImageCalls -> ImageCall]
           /\ Keyed'
           /\ imageCalls'[c] = me
           /\ OnlyMoves(c)
  BY DEF ImageTypes, Keyed, ProfileImagesTypeOK, OnlyMoves, Images

LEMMA MoveTypeKept ==
    ASSUME ImageTypes, NEW c \in ImageCalls, NEW step \in Steps, imageCalls[c].at # "idle",
           Moves(c, step)
    PROVE  /\ imageCalls' \in [ImageCalls -> ImageCall]
           /\ Keyed'
           /\ imageCalls'[c].at = step
           /\ imageCalls'[c].image = imageCalls[c].image
           /\ imageCalls'[c].linked = imageCalls[c].linked
           /\ imageCalls'[c].was = imageCalls[c].was
           /\ OnlyMoves(c)
  BY DEF ImageTypes, Keyed, ProfileImagesTypeOK, Moves, ImageCall, OnlyMoves, Images

LEMMA EndTypeKept ==
    ASSUME ImageTypes, NEW c \in ImageCalls, Ends(c)
    PROVE  /\ imageCalls' \in [ImageCalls -> ImageCall]
           /\ Keyed'
           /\ imageCalls'[c] = NoCall
           /\ OnlyMoves(c)
  <1>1. NoCall \in ImageCall /\ NoCall.at = "idle"
    BY ProfileImagesAssumption DEF NoCall, ImageCall, Steps, RowStatuses
  <1> QED
    BY <1>1, CallTypeKept DEF Ends

-----------------------------------------------------------------------------
(* The steps.  Nothing is claimed of images once a committed one was dropped. *)

ImagesInv == /\ ImageTypes
             /\ trouble # "refresh" => Kept
             /\ trouble = "none" => Charged

LEMMA UploadProfileImageKeeps ==
    ASSUME ImagesInv, NEW c \in ImageCalls, UploadProfileImage(c)
    PROVE  ImagesInv'
  <1> DEFINE me == [NoCall EXCEPT !.at = "put", !.image = imagesSent + 1,
                                  !.linked = profileImage]
  <1>1. /\ imageCalls[c].at = "idle" /\ imagesSent < MaxImages /\ imagesSent' = imagesSent + 1
        /\ imageCalls' = [imageCalls EXCEPT ![c] = me]
        /\ UNCHANGED <<uploadRows, objects, profileImage, trouble>>
    BY DEF UploadProfileImage
  <1>2. imagesSent \in Nat /\ imagesSent + 1 \in Images /\ profileImage \in 0 .. MaxImages
    BY <1>1, ProfileImagesAssumption DEF ImagesInv, ImageTypes, ProfileImagesTypeOK, Images
  <1>3. /\ me \in ImageCall
        /\ me.at = "put" /\ me.image = imagesSent + 1 /\ me.linked = profileImage
    <2>1. NoCall \in ImageCall
      BY ProfileImagesAssumption DEF NoCall, ImageCall, Steps, RowStatuses
    <2>2. imagesSent + 1 \in 0 .. MaxImages /\ "put" \in Steps
      BY <1>1, <1>2, ProfileImagesAssumption DEF Steps
    <2> QED
      BY <1>2, <2>1, <2>2 DEF ImageCall
  <1> HIDE DEF me
  <1>4. imageCalls'[c] = me /\ OnlyMoves(c) /\ ImageTypes'
    <2>1. /\ imageCalls'[c] = me /\ OnlyMoves(c) /\ Keyed'
          /\ imageCalls' \in [ImageCalls -> ImageCall]
      BY <1>1, <1>2, <1>3, CallTypeKept DEF ImagesInv
    <2>2. imagesSent' \in 0 .. MaxImages
      BY <1>1, <1>2, ProfileImagesAssumption
    <2> QED
      BY <1>1, <2>1, <2>2 DEF ImagesInv, ImageTypes, ProfileImagesTypeOK
  <1>5. ASSUME trouble' # "refresh" PROVE Kept'
    <2>1. Kept
      BY <1>1, <1>5 DEF ImagesInv
    <2>2. Forward(c)
      BY <1>1, <1>2, StillIsForward DEF ImagesInv, ImageTypes
    <2>3. \A d \in ImageCalls : d # c /\ Owns(d) => imageCalls[d].image # imageCalls'[c].image
      <3>1. \A d \in ImageCalls : Owns(d) => imageCalls[d].image \in Sent
        BY <2>1 DEF Kept, ImageCallInv, Owns
      <3> QED
        BY <1>2, <1>3, <1>4, <3>1 DEF Sent
    <2>4. ImageCallInv(c)'
      <3>1. uploadRows[imagesSent + 1] = "none" /\ imagesSent + 1 \notin objects
        BY <1>2, <2>1 DEF Kept, Unsent
      <3>2. profileImage # 0 => uploadRows[profileImage] # "none"
        BY <2>1 DEF Kept, Linked
      <3> QED
        BY <1>1, <1>2, <1>3, <1>4, <3>1, <3>2
           DEF ImageCallInv, Sent, Uploading, Deleting, Owns
    <2>5. Unsent' /\ Linked' /\ Stored' /\ Erased'
      BY <1>1, <1>2, <2>1 DEF Kept, Unsent, Linked, Stored, Erased, Images
    <2> QED
      BY <1>4, <2>1, <2>2, <2>3, <2>4, <2>5, StepKeeps DEF ImagesInv, ImageTypes
  <1>6. trouble' = "none" => Charged'
    BY <1>1, <1>4, ChargedKept DEF ImagesInv, InCharge
  <1> QED
    BY <1>4, <1>5, <1>6 DEF ImagesInv

LEMMA PutImageKeeps ==
    ASSUME ImagesInv, NEW c \in ImageCalls, PutImage(c)
    PROVE  ImagesInv'
  <1>1. /\ imageCalls[c].at = "put" /\ imageCalls[c].image \in Images
        /\ UNCHANGED <<uploadRows, profileImage, imagesSent, trouble>>
    BY DEF PutImage, ImagesInv, ImageTypes, Keyed
  <1>2. CASE Ends(c) /\ UNCHANGED objects
    <2>1. imageCalls'[c] = NoCall /\ OnlyMoves(c) /\ ImageTypes'
      BY <1>1, <1>2, EndTypeKept DEF ImagesInv, ImageTypes, ProfileImagesTypeOK
    <2>2. trouble' # "refresh" => Kept'
      BY <1>1, <1>2, <2>1, IdleKnows, QuietKeeps DEF ImagesInv, ImageTypes
    <2>3. trouble' = "none" => Charged'
      BY <1>1, <1>2, <2>1, ChargedKept DEF ImagesInv, InCharge
    <2> QED
      BY <2>1, <2>2, <2>3 DEF ImagesInv
  <1>3. CASE objects' = objects \cup {imageCalls[c].image} /\ Moves(c, "stage")
    <2>1. /\ imageCalls'[c].at = "stage"
          /\ imageCalls'[c].image = imageCalls[c].image
          /\ imageCalls'[c].linked = imageCalls[c].linked
          /\ OnlyMoves(c) /\ ImageTypes'
      BY <1>1, <1>3, MoveTypeKept DEF ImagesInv, ImageTypes, ProfileImagesTypeOK, Steps
    <2>2. ASSUME trouble' # "refresh" PROVE Kept'
      <3>1. Kept /\ ImageCallInv(c)
        BY <1>1, <2>2 DEF ImagesInv, Kept
      <3>2. uploadRows[imageCalls[c].image] = "none" /\ imageCalls[c].image \in Sent
        BY <1>1, <3>1 DEF ImageCallInv, Uploading, Owns
      <3>3. \A d \in ImageCalls : d # c /\ Owns(d) => imageCalls[d].image # imageCalls[c].image
        BY <1>1, <3>1 DEF Kept, ImagesApart, Owns
      <3>4. Forward(c)
        BY <1>1, <1>3, <3>2, <3>3 DEF Forward, ImagesInv, ImageTypes, ProfileImagesTypeOK
      <3>5. ImageCallInv(c)'
        BY <1>1, <1>3, <2>1, <3>1, <3>2 DEF ImageCallInv, Sent, Uploading, Deleting, Owns
      <3>6. Unsent' /\ Linked' /\ Stored' /\ Erased'
        BY <1>1, <1>3, <3>1, <3>2 DEF Kept, Unsent, Linked, Stored, Erased, Sent, ImagesInv,
             ImageTypes, ProfileImagesTypeOK
      <3> QED
        BY <2>1, <3>1, <3>3, <3>4, <3>5, <3>6, StepKeeps DEF ImagesInv, ImageTypes
    <2>3. trouble' = "none" => Charged'
      BY <1>1, <1>3, <2>1, ChargedKept DEF ImagesInv, InCharge
    <2> QED
      BY <2>1, <2>2, <2>3 DEF ImagesInv
  <1> QED
    BY <1>2, <1>3 DEF PutImage

LEMMA StageUploadKeeps ==
    ASSUME ImagesInv, NEW c \in ImageCalls, StageUpload(c)
    PROVE  ImagesInv'
  <1> DEFINE was == IF imageCalls[c].linked = 0 THEN "none"
                    ELSE uploadRows[imageCalls[c].linked]
             me == [imageCalls[c] EXCEPT !.at = "commit", !.was = was]
  <1>1. /\ imageCalls[c].at = "stage" /\ imageCalls[c].image \in Images
        /\ imageCalls[c] \in ImageCall
        /\ imageCalls' = [imageCalls EXCEPT ![c] = me]
        /\ UNCHANGED <<uploadRows, objects, profileImage, imagesSent, trouble>>
    BY DEF StageUpload, ImagesInv, ImageTypes, Keyed, ProfileImagesTypeOK
  <1>2. was \in RowStatuses
    BY <1>1, ProfileImagesAssumption
       DEF ImagesInv, ImageTypes, ProfileImagesTypeOK, ImageCall, Images, RowStatuses
  <1>3. /\ me \in ImageCall
        /\ me.at = "commit" /\ me.image = imageCalls[c].image
        /\ me.linked = imageCalls[c].linked
        /\ me.was = IF me.linked = 0 THEN "none" ELSE uploadRows[me.linked]
    BY <1>1, <1>2 DEF ImageCall, Steps
  <1> HIDE DEF me, was
  <1>4. imageCalls'[c] = me /\ OnlyMoves(c) /\ ImageTypes'
    BY <1>1, <1>3, CallTypeKept DEF ImagesInv, ImageTypes, ProfileImagesTypeOK
  <1>5. ASSUME trouble' # "refresh" PROVE Kept'
    <2>1. Kept /\ ImageCallInv(c)
      BY <1>1, <1>5 DEF ImagesInv, Kept
    <2>2. ImageCallInv(c)'
      BY <1>1, <1>3, <1>4, <2>1 DEF ImageCallInv, Sent, Uploading, Deleting, Owns
    <2> QED
      BY <1>1, <1>3, <1>4, <2>1, <2>2, QuietKeeps DEF ImagesInv, ImageTypes, Owns
  <1>6. trouble' = "none" => Charged'
    BY <1>1, <1>3, <1>4, ChargedKept DEF ImagesInv, InCharge
  <1> QED
    BY <1>4, <1>5, <1>6 DEF ImagesInv

(* A request that ends and changes no table.                                 *)
LEMMA EndKeeps ==
    ASSUME ImagesInv, NEW c \in ImageCalls, Ends(c),
           UNCHANGED <<uploadRows, objects, profileImage, imagesSent>>,
           trouble' \in {"none", "refresh", "other"},
           trouble = "refresh" => trouble' = "refresh",
           trouble' = "none" => /\ trouble = "none"
                                /\ \A i \in objects : uploadRows[i] # "ACTIVE" => ~InCharge(c, i)
    PROVE  ImagesInv'
  <1>1. imageCalls'[c] = NoCall /\ OnlyMoves(c) /\ ImageTypes'
    BY EndTypeKept DEF ImagesInv, ImageTypes, ProfileImagesTypeOK
  <1>2. trouble' # "refresh" => Kept'
    BY <1>1, IdleKnows, QuietKeeps DEF ImagesInv, ImageTypes
  <1>3. trouble' = "none" => Charged'
    BY <1>1, ChargedKept DEF ImagesInv
  <1> QED
    BY <1>1, <1>2, <1>3 DEF ImagesInv

LEMMA CommitUploadKeeps ==
    ASSUME ImagesInv, NEW c \in ImageCalls, CommitUpload(c)
    PROVE  ImagesInv'
  <1> DEFINE me == imageCalls[c]
             rows == [i \in Images |->
                         IF i = me.image THEN "ACTIVE"
                         ELSE IF i = me.linked /\ me.was = "ACTIVE" THEN "REPLACED"
                         ELSE uploadRows[i]]
  <1>1. /\ me.at = "commit" /\ me.image \in Images /\ me.linked \in 0 .. MaxImages
        /\ objects' = objects /\ imagesSent' = imagesSent
    BY DEF CommitUpload, ImagesInv, ImageTypes, Keyed, ProfileImagesTypeOK, ImageCall
  <1>2. CASE Moves(c, "drop") /\ UNCHANGED <<uploadRows, profileImage, trouble>>
    <2>1. /\ imageCalls'[c].at = "drop"
          /\ imageCalls'[c].image = me.image
          /\ imageCalls'[c].linked = me.linked
          /\ OnlyMoves(c) /\ ImageTypes'
      BY <1>1, <1>2, MoveTypeKept DEF ImagesInv, ImageTypes, ProfileImagesTypeOK, Steps
    <2>2. ASSUME trouble' # "refresh" PROVE Kept'
      <3>1. Kept /\ ImageCallInv(c)
        BY <1>2, <2>2 DEF ImagesInv, Kept
      <3>2. ImageCallInv(c)'
        BY <1>1, <1>2, <2>1, <3>1 DEF ImageCallInv, Sent, Uploading, Deleting, Owns
      <3> QED
        BY <1>1, <1>2, <2>1, <3>1, <3>2, QuietKeeps DEF ImagesInv, ImageTypes, Owns
    <2>3. trouble' = "none" => Charged'
      BY <1>1, <1>2, <2>1, ChargedKept DEF ImagesInv, InCharge
    <2> QED
      BY <2>1, <2>2, <2>3 DEF ImagesInv
  <1>3. CASE uploadRows' = rows /\ profileImage' = me.image
    <2>1. \A i \in Images :
             uploadRows'[i] = IF i = me.image THEN "ACTIVE"
                              ELSE IF i = me.linked /\ me.was = "ACTIVE" THEN "REPLACED"
                              ELSE uploadRows[i]
      BY <1>3
    <2>2. uploadRows' \in [Images -> RowStatuses] /\ profileImage' \in 0 .. MaxImages
      <3>1. \A i \in Images : rows[i] \in RowStatuses
        BY DEF RowStatuses, ImagesInv, ImageTypes, ProfileImagesTypeOK
      <3>2. uploadRows' \in [Images -> RowStatuses]
        BY <1>3, <3>1
      <3> QED
        BY <1>1, <1>3, <3>2, ProfileImagesAssumption DEF Images
    <2>3. CASE Moves(c, "drop") /\ Fails("refresh")
      BY <1>1, <2>2, <2>3, MoveTypeKept
         DEF ImagesInv, ImageTypes, ProfileImagesTypeOK, Steps, Fails
    <2>4. CASE Moves(c, "check") /\ UNCHANGED trouble
      <3>1. /\ imageCalls'[c].at = "check"
            /\ imageCalls'[c].image = me.image
            /\ imageCalls'[c].linked = me.linked
            /\ OnlyMoves(c) /\ ImageTypes'
        BY <1>1, <2>2, <2>4, MoveTypeKept DEF ImagesInv, ImageTypes, ProfileImagesTypeOK, Steps
      <3>2. ASSUME trouble' # "refresh" PROVE Kept'
        <4>1. Kept /\ ImageCallInv(c)
          BY <2>4, <3>2 DEF ImagesInv, Kept
        <4>2. /\ uploadRows[me.image] = "none" /\ me.image \in Sent /\ me.image \in objects
              /\ me.linked # 0 => uploadRows[me.linked] # "none" /\ me.linked \in Images
          BY <1>1, <4>1, ProfileImagesAssumption DEF ImageCallInv, Uploading, Owns, Images
        <4>3. \A d \in ImageCalls : d # c /\ Owns(d) => imageCalls[d].image # me.image
          BY <1>1, <4>1 DEF Kept, ImagesApart, Owns
        <4>4. Forward(c)
          <5>1. imagesSent <= imagesSent'
            BY <1>1 DEF ImagesInv, ImageTypes, ProfileImagesTypeOK
          <5>2. \A i \in Images :
                   i = me.linked => uploadRows[i] # "none"
            BY <4>2, ProfileImagesAssumption DEF Images
          <5> QED
            BY <1>1, <1>3, <2>1, <4>2, <4>3, <5>1, <5>2 DEF Forward
        <4>5. ImageCallInv(c)'
          <5>1. me.linked # 0 => uploadRows'[me.linked] \notin {"none", "ACTIVE"}
            BY <1>1, <2>1, <4>1, <4>2 DEF ImageCallInv, Uploading
          <5> QED
            BY <1>1, <3>1, <4>2, <5>1 DEF ImageCallInv, Sent, Uploading, Deleting, Owns
        <4>6. Unsent'
          BY <1>1, <2>1, <4>1, <4>2, ProfileImagesAssumption
             DEF Kept, Unsent, Sent, Images, ImagesInv, ImageTypes, ProfileImagesTypeOK
        <4>7. Linked' /\ Stored' /\ Erased'
          BY <1>1, <1>3, <2>1, <4>1, <4>2
             DEF Kept, Linked, Stored, Erased, ImagesInv, ImageTypes, ProfileImagesTypeOK
        <4>8. ~Owns(c)'
          BY <3>1 DEF Owns
        <4> QED
          BY <3>1, <4>1, <4>4, <4>5, <4>6, <4>7, <4>8, StepKeeps DEF ImagesInv, ImageTypes
      <3>3. ASSUME trouble' = "none" PROVE Charged'
        <4>1. objects \subseteq Images
          BY DEF ImagesInv, ImageTypes, ProfileImagesTypeOK
        <4> QED
          BY <1>1, <2>1, <2>4, <3>1, <3>3, <4>1, ChargedKept DEF ImagesInv, InCharge
      <3> QED
        BY <3>1, <3>2, <3>3 DEF ImagesInv
    <2> QED
      BY <1>2, <1>3, <2>3, <2>4 DEF CommitUpload
  <1> QED
    BY <1>2, <1>3 DEF CommitUpload

LEMMA DropImageKeeps ==
    ASSUME ImagesInv, NEW c \in ImageCalls, DropImage(c)
    PROVE  ImagesInv'
  <1>1. /\ imageCalls[c].at = "drop" /\ imageCalls[c].image \in Images /\ Ends(c)
        /\ UNCHANGED <<uploadRows, profileImage, imagesSent>>
    BY DEF DropImage, ImagesInv, ImageTypes, Keyed
  <1>2. CASE Fails("other") /\ UNCHANGED objects
    BY <1>1, <1>2, EndKeeps DEF Fails
  <1>3. CASE objects' = objects \ {imageCalls[c].image} /\ UNCHANGED trouble
    <2>1. imageCalls'[c] = NoCall /\ OnlyMoves(c) /\ ImageTypes'
      BY <1>1, <1>3, EndTypeKept DEF ImagesInv, ImageTypes, ProfileImagesTypeOK
    <2>2. ASSUME trouble' # "refresh" PROVE Kept'
      <3>1. Kept /\ ImageCallInv(c)
        BY <1>3, <2>2 DEF ImagesInv, Kept
      <3>2. uploadRows[imageCalls[c].image] = "none"
        BY <1>1, <3>1 DEF ImageCallInv, Uploading, Owns
      <3>3. \A d \in ImageCalls : d # c /\ Owns(d) => imageCalls[d].image # imageCalls[c].image
        BY <1>1, <3>1 DEF Kept, ImagesApart, Owns
      <3>4. Forward(c)
        BY <1>1, <1>3, <3>3 DEF Forward, ImagesInv, ImageTypes, ProfileImagesTypeOK
      <3>5. Unsent' /\ Linked' /\ Stored' /\ Erased'
        BY <1>1, <1>3, <3>1, <3>2 DEF Kept, Unsent, Linked, Stored, Erased
      <3> QED
        BY <2>1, <3>1, <3>4, <3>5, IdleKnows, StepKeeps DEF ImagesInv, ImageTypes
    <2>3. trouble' = "none" => Charged'
      BY <1>1, <1>3, <2>1, ChargedKept DEF ImagesInv, InCharge
    <2> QED
      BY <2>1, <2>2, <2>3 DEF ImagesInv
  <1> QED
    BY <1>2, <1>3 DEF DropImage

LEMMA CheckPreviousKeeps ==
    ASSUME ImagesInv, NEW c \in ImageCalls, CheckPrevious(c)
    PROVE  ImagesInv'
  <1> DEFINE old == imageCalls[c].linked
             me == [NoCall EXCEPT !.at = "erase", !.image = old]
  <1>1. /\ imageCalls[c].at = "check" /\ old \in 0 .. MaxImages
        /\ UNCHANGED <<uploadRows, objects, profileImage, imagesSent, trouble>>
    BY DEF CheckPrevious, ImagesInv, ImageTypes, ProfileImagesTypeOK, ImageCall
  <1>2. CASE ~(old # 0 /\ uploadRows[old] = "REPLACED") /\ Ends(c)
    <2>1. ASSUME trouble = "none", NEW i \in objects, uploadRows[i] # "ACTIVE",
                 InCharge(c, i)
          PROVE  FALSE
      <3>1. Kept /\ ImageCallInv(c)
        BY <2>1 DEF ImagesInv, Kept
      <3>2. i = old /\ i \in Images
        BY <1>1, <2>1 DEF InCharge, ImagesInv, ImageTypes, ProfileImagesTypeOK
      <3>3. old # 0 /\ uploadRows[old] \notin {"none", "DELETED"}
        BY <2>1, <3>1, <3>2, ProfileImagesAssumption DEF ImageCallInv, Kept, Erased, Images
      <3> QED
        BY <1>2, <2>1, <3>2, <3>3
           DEF ImagesInv, ImageTypes, ProfileImagesTypeOK, RowStatuses
    <2> QED
      BY <1>1, <1>2, <2>1, EndKeeps DEF ImagesInv, ImageTypes, ProfileImagesTypeOK
  <1>3. CASE old # 0 /\ uploadRows[old] = "REPLACED" /\ imageCalls' = [imageCalls EXCEPT ![c] = me]
    <2>1. old \in Images
      BY <1>1, <1>3, ProfileImagesAssumption DEF Images
    <2>2. /\ me \in ImageCall
          /\ me.at = "erase" /\ me.image = old /\ me.linked = 0
      <3>1. NoCall \in ImageCall /\ NoCall.linked = 0 /\ "erase" \in Steps
        BY ProfileImagesAssumption DEF NoCall, ImageCall, Steps, RowStatuses
      <3> QED
        BY <1>1, <3>1 DEF ImageCall
    <2> HIDE DEF me
    <2>3. imageCalls'[c] = me /\ OnlyMoves(c) /\ ImageTypes'
      BY <1>1, <1>3, <2>1, <2>2, CallTypeKept DEF ImagesInv, ImageTypes, ProfileImagesTypeOK
    <2>4. ASSUME trouble' # "refresh" PROVE Kept'
      <3>1. Kept
        BY <1>1, <2>4 DEF ImagesInv
      <3>2. old \in Sent
        BY <1>3, <2>1, <3>1, ProfileImagesAssumption
           DEF Kept, Unsent, Sent, Images, ImagesInv, ImageTypes, ProfileImagesTypeOK
      <3>3. ImageCallInv(c)' /\ ~Owns(c)'
        BY <1>1, <1>3, <2>2, <2>3, <3>2 DEF ImageCallInv, Sent, Uploading, Deleting, Owns
      <3> QED
        BY <1>1, <2>3, <3>1, <3>3, QuietKeeps DEF ImagesInv, ImageTypes
    <2>5. trouble' = "none" => Charged'
      BY <1>1, <2>2, <2>3, ChargedKept DEF ImagesInv, InCharge
    <2> QED
      BY <2>3, <2>4, <2>5 DEF ImagesInv
  <1> QED
    BY <1>2, <1>3 DEF CheckPrevious

LEMMA DeleteUploadKeeps ==
    ASSUME ImagesInv, NEW c \in ImageCalls, NEW i \in Images, DeleteUpload(c, i)
    PROVE  ImagesInv'
  <1> DEFINE me == [NoCall EXCEPT !.at = "unlink", !.image = i, !.linked = profileImage,
                                  !.was = uploadRows[i]]
  <1>1. /\ imageCalls[c].at = "idle" /\ uploadRows[i] \in {"ACTIVE", "REPLACED"}
        /\ imageCalls' = [imageCalls EXCEPT ![c] = me]
        /\ UNCHANGED <<uploadRows, objects, profileImage, imagesSent, trouble>>
    BY DEF DeleteUpload
  <1>2. /\ me \in ImageCall
        /\ me.at = "unlink" /\ me.image = i /\ me.linked = profileImage
        /\ me.was = uploadRows[i]
    <2>1. NoCall \in ImageCall /\ "unlink" \in Steps
      BY ProfileImagesAssumption DEF NoCall, ImageCall, Steps, RowStatuses
    <2>2. i \in 0 .. MaxImages /\ profileImage \in 0 .. MaxImages /\ uploadRows[i] \in RowStatuses
      BY ProfileImagesAssumption DEF Images, ImagesInv, ImageTypes, ProfileImagesTypeOK
    <2> QED
      BY <2>1, <2>2 DEF ImageCall
  <1> HIDE DEF me
  <1>3. imageCalls'[c] = me /\ OnlyMoves(c) /\ ImageTypes'
    BY <1>1, <1>2, CallTypeKept DEF ImagesInv, ImageTypes, ProfileImagesTypeOK
  <1>4. ASSUME trouble' # "refresh" PROVE Kept'
    <2>1. Kept
      BY <1>1, <1>4 DEF ImagesInv
    <2>2. i \in Sent
      BY <1>1, <2>1, ProfileImagesAssumption
         DEF Kept, Unsent, Sent, Images, ImagesInv, ImageTypes, ProfileImagesTypeOK
    <2>3. profileImage # 0 => uploadRows[profileImage] # "none"
      BY <2>1 DEF Kept, Linked
    <2>4. ImageCallInv(c)' /\ ~Owns(c)'
      BY <1>1, <1>2, <1>3, <2>2, <2>3 DEF ImageCallInv, Sent, Uploading, Deleting, Owns
    <2> QED
      BY <1>1, <1>3, <2>1, <2>4, QuietKeeps DEF ImagesInv, ImageTypes
  <1>5. trouble' = "none" => Charged'
    BY <1>1, <1>2, <1>3, ChargedKept DEF ImagesInv, InCharge
  <1> QED
    BY <1>3, <1>4, <1>5 DEF ImagesInv

LEMMA CommitDeleteKeeps ==
    ASSUME ImagesInv, NEW c \in ImageCalls, CommitDelete(c)
    PROVE  ImagesInv'
  <1> DEFINE me == imageCalls[c]
  <1>1. /\ me.at = "unlink" /\ me.image \in Images /\ me.image \in Nat \ {0}
        /\ profileImage' = IF me.linked = me.image THEN 0 ELSE profileImage
        /\ \A i \in Images : uploadRows'[i] =
              IF i = me.image /\ me.was # "REPLACED" THEN "REPLACED" ELSE uploadRows[i]
        /\ UNCHANGED <<objects, imagesSent, trouble>>
    BY ProfileImagesAssumption
       DEF CommitDelete, ImagesInv, ImageTypes, Keyed, ProfileImagesTypeOK, Images
  <1>2. /\ imageCalls'[c].at = "erase"
        /\ imageCalls'[c].image = me.image
        /\ imageCalls'[c].linked = me.linked
        /\ OnlyMoves(c) /\ ImageTypes'
    <2>1. "erase" \in Steps /\ me.at # "idle" /\ Moves(c, "erase")
      BY <1>1 DEF Steps, CommitDelete
    <2>2. profileImage' \in 0 .. MaxImages
      BY <1>1, ProfileImagesAssumption DEF ImagesInv, ImageTypes, ProfileImagesTypeOK
    <2>3. uploadRows' \in [Images -> RowStatuses]
      BY <1>1 DEF CommitDelete, ImagesInv, ImageTypes, ProfileImagesTypeOK, RowStatuses
    <2> QED
      BY <1>1, <2>1, <2>2, <2>3, MoveTypeKept DEF ImagesInv, ImageTypes, ProfileImagesTypeOK
  <1>3. ASSUME trouble' # "refresh" PROVE Kept'
    <2>1. Kept /\ ImageCallInv(c)
      BY <1>1, <1>3 DEF ImagesInv, Kept
    <2>2. /\ uploadRows[me.image] # "none" /\ me.image \in Sent
          /\ me.image = profileImage => me.linked = me.image
          /\ me.was = "REPLACED" => uploadRows[me.image] # "ACTIVE"
      BY <1>1, <2>1 DEF ImageCallInv, Deleting
    <2>3. Forward(c)
      BY <1>1, <2>2 DEF Forward, ImagesInv, ImageTypes, ProfileImagesTypeOK
    <2>4. ImageCallInv(c)' /\ ~Owns(c)'
      <3>1. me.linked # 0 => uploadRows'[me.linked] # "none"
        <4>1. me.linked # 0 => me.linked \in Images
          BY ProfileImagesAssumption
             DEF ImagesInv, ImageTypes, ProfileImagesTypeOK, ImageCall, Images
        <4> QED
          BY <1>1, <2>1, <4>1 DEF ImageCallInv
      <3>2. uploadRows'[me.image] \notin {"none", "ACTIVE"}
        BY <1>1, <2>2
      <3> QED
        BY <1>1, <1>2, <2>2, <3>1, <3>2 DEF ImageCallInv, Sent, Uploading, Deleting, Owns
    <2>5. Unsent'
      BY <1>1, <2>1, <2>2 DEF Kept, Unsent, Sent, Images, ImagesInv, ImageTypes, ProfileImagesTypeOK
    <2>6. Linked' /\ Stored' /\ Erased'
      <3>1. Linked'
        <4>1. profileImage # 0 => profileImage \in Images
          BY ProfileImagesAssumption DEF ImagesInv, ImageTypes, ProfileImagesTypeOK, Images
        <4> QED
          BY <1>1, <2>1, <2>2, <4>1 DEF Kept, Linked
      <3>2. Stored' /\ Erased'
        BY <1>1, <2>1 DEF Kept, Stored, Erased, ImagesInv, ImageTypes, ProfileImagesTypeOK
      <3> QED
        BY <3>1, <3>2
    <2> QED
      BY <1>2, <2>1, <2>3, <2>4, <2>5, <2>6, StepKeeps DEF ImagesInv, ImageTypes
  <1>4. ASSUME trouble' = "none" PROVE Charged'
    <2>1. objects \subseteq Images
      BY DEF ImagesInv, ImageTypes, ProfileImagesTypeOK
    <2> QED
      BY <1>1, <1>2, <1>4, <2>1, ChargedKept DEF ImagesInv, InCharge
  <1> QED
    BY <1>2, <1>3, <1>4 DEF ImagesInv

LEMMA EraseImageKeeps ==
    ASSUME ImagesInv, NEW c \in ImageCalls, EraseImage(c)
    PROVE  ImagesInv'
  <1>1. /\ imageCalls[c].at = "erase" /\ imageCalls[c].image \in Images
        /\ UNCHANGED <<uploadRows, profileImage, imagesSent>>
    BY DEF EraseImage, ImagesInv, ImageTypes, Keyed
  <1>2. CASE Ends(c) /\ Fails("other") /\ UNCHANGED objects
    BY <1>1, <1>2, EndKeeps DEF Fails
  <1>3. CASE /\ objects' = objects \ {imageCalls[c].image}
             /\ Moves(c, "mark") /\ UNCHANGED trouble
    <2>1. /\ imageCalls'[c].at = "mark"
          /\ imageCalls'[c].image = imageCalls[c].image
          /\ imageCalls'[c].linked = imageCalls[c].linked
          /\ OnlyMoves(c) /\ ImageTypes'
      BY <1>1, <1>3, MoveTypeKept DEF ImagesInv, ImageTypes, ProfileImagesTypeOK, Steps
    <2>2. ASSUME trouble' # "refresh" PROVE Kept'
      <3>1. Kept /\ ImageCallInv(c)
        BY <1>3, <2>2 DEF ImagesInv, Kept
      <3>2. uploadRows[imageCalls[c].image] \notin {"none", "ACTIVE"}
        BY <1>1, <3>1 DEF ImageCallInv, Deleting
      <3>3. \A d \in ImageCalls : Owns(d) => imageCalls[d].image # imageCalls[c].image
        BY <3>1, <3>2 DEF Kept, ImageCallInv, Uploading
      <3>4. Forward(c)
        BY <1>1, <1>3, <3>3 DEF Forward, ImagesInv, ImageTypes, ProfileImagesTypeOK
      <3>5. ImageCallInv(c)' /\ ~Owns(c)'
        BY <1>1, <1>3, <2>1, <3>1, <3>2 DEF ImageCallInv, Sent, Uploading, Deleting, Owns
      <3>6. Unsent' /\ Linked' /\ Stored' /\ Erased'
        BY <1>1, <1>3, <3>1, <3>2 DEF Kept, Unsent, Linked, Stored, Erased
      <3> QED
        BY <2>1, <3>1, <3>4, <3>5, <3>6, StepKeeps DEF ImagesInv, ImageTypes
    <2>3. trouble' = "none" => Charged'
      BY <1>1, <1>3, <2>1, ChargedKept DEF ImagesInv, InCharge
    <2> QED
      BY <2>1, <2>2, <2>3 DEF ImagesInv
  <1> QED
    BY <1>2, <1>3 DEF EraseImage

LEMMA MarkDeletedKeeps ==
    ASSUME ImagesInv, NEW c \in ImageCalls, MarkDeleted(c)
    PROVE  ImagesInv'
  <1>1. /\ imageCalls[c].at = "mark" /\ imageCalls[c].image \in Images /\ Ends(c)
        /\ UNCHANGED <<objects, profileImage, imagesSent>>
    BY DEF MarkDeleted, ImagesInv, ImageTypes, Keyed
  <1>2. CASE Fails("other") /\ UNCHANGED uploadRows
    BY <1>1, <1>2, EndKeeps DEF Fails
  <1>3. CASE /\ uploadRows' = [uploadRows EXCEPT ![imageCalls[c].image] = "DELETED"]
             /\ UNCHANGED trouble
    <2>1. imageCalls'[c] = NoCall /\ OnlyMoves(c) /\ ImageTypes'
      BY <1>1, <1>3, EndTypeKept DEF ImagesInv, ImageTypes, ProfileImagesTypeOK, RowStatuses
    <2>2. \A i \in Images : uploadRows'[i] =
             IF i = imageCalls[c].image THEN "DELETED" ELSE uploadRows[i]
      BY <1>3 DEF ImagesInv, ImageTypes, ProfileImagesTypeOK
    <2>3. ASSUME trouble' # "refresh" PROVE Kept'
      <3>1. Kept /\ ImageCallInv(c)
        BY <1>3, <2>3 DEF ImagesInv, Kept
      <3>2. /\ uploadRows[imageCalls[c].image] \notin {"none", "ACTIVE"}
            /\ imageCalls[c].image \notin objects /\ imageCalls[c].image \in Sent
        BY <1>1, <3>1 DEF ImageCallInv, Deleting
      <3>3. Forward(c)
        BY <1>1, <2>2, <3>2 DEF Forward, ImagesInv, ImageTypes, ProfileImagesTypeOK
      <3>4. Linked'
        <4>1. profileImage # 0 => profileImage \in Images
          BY ProfileImagesAssumption DEF ImagesInv, ImageTypes, ProfileImagesTypeOK, Images
        <4> QED
          BY <1>1, <2>2, <3>1, <3>2, <4>1 DEF Kept, Linked
      <3>5. Unsent' /\ Stored' /\ Erased'
        BY <1>1, <2>2, <3>1, <3>2
           DEF Kept, Unsent, Stored, Erased, Sent, Images, ImagesInv, ImageTypes, ProfileImagesTypeOK
      <3> QED
        BY <2>1, <3>1, <3>3, <3>4, <3>5, IdleKnows, StepKeeps DEF ImagesInv, ImageTypes
    <2>4. ASSUME trouble' = "none" PROVE Charged'
      <3>1. Kept /\ ImageCallInv(c)
        BY <1>3, <2>4 DEF ImagesInv, Kept
      <3>2. imageCalls[c].image \notin objects /\ objects \subseteq Images
        BY <1>1, <3>1 DEF ImageCallInv, Deleting, ImagesInv, ImageTypes, ProfileImagesTypeOK
      <3> QED
        BY <1>1, <1>3, <2>1, <2>2, <2>4, <3>2, ChargedKept DEF ImagesInv, InCharge
    <2> QED
      BY <2>1, <2>3, <2>4 DEF ImagesInv
  <1> QED
    BY <1>2, <1>3 DEF MarkDeleted

-----------------------------------------------------------------------------

LEMMA ImagesInvStarts == ProfileImagesInit => ImagesInv
  <1>1. ASSUME ProfileImagesInit PROVE Kept /\ Charged
    BY <1>1, ProfileImagesAssumption
       DEF ProfileImagesInit, NoCall, Kept, Charged, ImageCallInv, Uploading, Deleting, Owns, ImagesApart,
           Unsent, Linked, Stored, Erased, Images
  <1> QED
    BY <1>1, TypeInit DEF ImagesInv

LEMMA ImagesInvStays == ImagesInv /\ [ProfileImagesNext]_imageVars => ImagesInv'
  <1> SUFFICES ASSUME ImagesInv, [ProfileImagesNext]_imageVars
               PROVE  ImagesInv'
    OBVIOUS
  <1>1. CASE UNCHANGED imageVars
    BY <1>1 DEF imageVars, ImagesInv, ImageTypes, Keyed, ProfileImagesTypeOK, Kept, Charged, InCharge,
         ImageCallInv, Uploading, Deleting, Owns, ImagesApart, Unsent, Linked, Stored, Erased, Sent
  <1>2. ASSUME NEW c \in ImageCalls, ImageCallDies(c) PROVE ImagesInv'
    BY <1>2, EndKeeps DEF ImageCallDies, Fails
  <1>3. CASE ProfileImagesNext
    BY <1>2, <1>3, UploadProfileImageKeeps, PutImageKeeps, StageUploadKeeps, CommitUploadKeeps,
       DropImageKeeps, CheckPreviousKeeps, DeleteUploadKeeps, CommitDeleteKeeps,
       EraseImageKeeps, MarkDeletedKeeps
       DEF ProfileImagesNext
  <1> QED
    BY <1>1, <1>3

LEMMA ImagesInvHolds == ProfileImagesSpec => []ImagesInv
  BY ImagesInvStarts, ImagesInvStays, PTL DEF ProfileImagesSpec

(* The rows, objects, links and requests of ProfileImages keep their types,   *)
(* for any number of requests and images.                                    *)
THEOREM ProfileImagesTypeCorrect == ProfileImagesSpec => []ProfileImagesTypeOK
  <1>1. ImagesInv => ProfileImagesTypeOK
    BY DEF ImagesInv, ImageTypes
  <1> QED
    BY <1>1, ImagesInvHolds, PTL

(* However many uploads and deletions overlap, fail or die, the profile shows *)
(* an active image, and the object of each active row is in the store, unless *)
(* a committed upload could not be read again.                               *)
THEOREM ProfilesAreKept == ProfileImagesSpec => []ProfileIsKept
  <1>1. ImagesInv => ProfileIsKept
    <2> SUFFICES ASSUME ImagesInv, trouble # "refresh"
                 PROVE  /\ profileImage # 0 => profileImage \in ActiveImages
                        /\ ActiveImages \subseteq objects
      BY DEF ProfileIsKept
    <2>1. profileImage # 0 => profileImage \in Images
      BY ProfileImagesAssumption DEF ImagesInv, ImageTypes, ProfileImagesTypeOK, Images
    <2> QED
      BY <2>1 DEF ImagesInv, Kept, Linked, Stored, ActiveImages
  <1> QED
    BY <1>1, ImagesInvHolds, PTL

(* When nothing failed or died and no request is under way, the store holds   *)
(* the objects of the active rows and no other (upload_service.py's clean-ups *)
(* reach every replaced image, however the requests overlapped).             *)
THEOREM NothingIsLeaked == ProfileImagesSpec => []NothingLeaks
  <1>1. ImagesInv => NothingLeaks
    BY DEF ImagesInv, ImageTypes, ProfileImagesTypeOK, Kept, Stored, Charged, InCharge,
         NothingLeaks, ActiveImages
  <1> QED
    BY <1>1, ImagesInvHolds, PTL

=============================================================================
