--------------------------- MODULE ProviderProofs ---------------------------
(***************************************************************************)
(* The providers of metadata: the pace of calls to them, and the pages that   *)
(* workers seed the catalog from.                                             *)
(***************************************************************************)
EXTENDS ProviderPacing, Seeding, FiniteSetTheorems, TLAPS

-----------------------------------------------------------------------------
(***************************************************************************)
(* ProviderPacing, for any finite set of threads, any interval and pauses:    *)
(* the slots that wait_for_turn gives out are an interval apart, and the      *)
(* last one given out is never further ahead than there are threads.          *)
(***************************************************************************)

(***************************************************************************)
(* Types.                                                                   *)
(***************************************************************************)

LEMMA PacingTypeStep ==
  ASSUME ProviderPacingTypeOK, [ProviderPacingNext]_pacingVars
  PROVE  ProviderPacingTypeOK'
  <1>. USE ProviderPacingAssumption DEF ProviderPacingTypeOK
  <1>1. ASSUME NEW t \in Threads, StartRequest(t) \/ Ask(t) \/ WakeUp(t)
        PROVE  ProviderPacingTypeOK'
    <2>1. \/ threads' = [threads EXCEPT ![t].at = "turn"]
          \/ threads' = [threads EXCEPT ![t].at = "asking"]
      BY <1>1 DEF StartRequest, Ask, WakeUp, Thread
    <2>. QED
      BY <1>1, <2>1 DEF StartRequest, Ask, WakeUp
  <1>2. ASSUME NEW t \in Threads, WaitForTurn(t) PROVE ProviderPacingTypeOK'
    <2>1. Slot \in Nat
      BY DEF Slot, LaterOf
    <2>2. [threads[t] EXCEPT !.at = "wait", !.until = Slot] \in
             [at: {"idle", "turn", "wait", "asking", "pause"},
              attempt: 0 .. MaxRetries, until: Nat]
      BY <2>1
    <2>3. threads' = [threads EXCEPT ![t] = [threads[t] EXCEPT !.at = "wait", !.until = Slot]]
      BY <1>2 DEF WaitForTurn
    <2>4. clock' = clock /\ nextAt' \in Nat
      BY <1>2, <2>1 DEF WaitForTurn
    <2>. QED
      BY <2>2, <2>3, <2>4
  <1>3. ASSUME NEW t \in Threads, Answered(t) PROVE ProviderPacingTypeOK'
    BY <1>3 DEF Answered, NoAttempt
  <1>4. ASSUME NEW t \in Threads, NEW pause \in Pauses, TryAgain(t, pause)
        PROVE  ProviderPacingTypeOK'
    <2>1. threads[t].attempt + 1 \in 0 .. MaxRetries /\ clock + pause \in Nat
      BY <1>4 DEF TryAgain
    <2>. QED
      BY <1>4, <2>1 DEF TryAgain
  <1>5. CASE Tick
    BY <1>5 DEF Tick
  <1>6. CASE UNCHANGED pacingVars
    BY <1>6 DEF pacingVars
  <1>. QED
    BY <1>1, <1>2, <1>3, <1>4, <1>5, <1>6 DEF ProviderPacingNext

\* No thread makes more attempts than provider_max_retries allows beyond the
\* first, and the clock and the slots are numbers.
THEOREM PacingTypeCorrect == ProviderPacingSpec => []ProviderPacingTypeOK
  <1>1. ProviderPacingInit => ProviderPacingTypeOK
    BY ProviderPacingAssumption DEF ProviderPacingInit, ProviderPacingTypeOK, NoAttempt
  <1>. QED
    BY <1>1, PacingTypeStep, PTL DEF ProviderPacingSpec

(***************************************************************************)
(* The slots handed out are an interval apart and lie before the next one,  *)
(* and each slot still to come is held by a thread that waits for it: no    *)
(* slot ahead of the clock is left empty, so there are no more of them than *)
(* threads.                                                                 *)
(***************************************************************************)

Apart(a, b) == a >= b + Interval \/ b >= a + Interval

SlotsApart ==
    \A t, u \in Threads : HasSlot(t) /\ HasSlot(u) /\ t # u
        => Apart(threads[t].until, threads[u].until)

SlotsBefore == \A t \in Threads : HasSlot(t) => threads[t].until + Interval <= nextAt

\* The slot k intervals before the next one to be handed out.
Taken(k) == \E u \in Threads : threads[u].at = "wait" /\ threads[u].until + k * Interval = nextAt

NoSlotEmpty == \A k \in Nat \ {0} : nextAt > clock + k * Interval => Taken(k)

PacingInv == SlotsApart /\ SlotsBefore /\ NoSlotEmpty

LEMMA OneMore ==
  ASSUME NEW k \in Nat
  PROVE  /\ k * Interval \in Nat
         /\ (k + 1) * Interval = k * Interval + Interval
  BY ProviderPacingAssumption

\* A thread that is not waiting for a slot to come moves, and holds none, or the
\* one it held.
LEMMA SlotsKept ==
  ASSUME ProviderPacingTypeOK, PacingInv, NEW t \in Threads,
         UNCHANGED <<clock, nextAt>>,
         \A u \in Threads \ {t} : threads'[u] = threads[u],
         threads[t].at = "wait" => threads[t].until <= clock,
         HasSlot(t)' => HasSlot(t) /\ threads'[t].until = threads[t].until
  PROVE  PacingInv'
  <1>. USE ProviderPacingAssumption DEF ProviderPacingTypeOK
  <1>1. SlotsApart'
    BY DEF PacingInv, SlotsApart, HasSlot
  <1>2. SlotsBefore'
    BY DEF PacingInv, SlotsBefore, HasSlot
  <1>3. ASSUME NEW k \in Nat \ {0}, nextAt > clock + k * Interval PROVE Taken(k)'
    <2>1. PICK u \in Threads : threads[u].at = "wait" /\ threads[u].until + k * Interval = nextAt
      BY <1>3 DEF PacingInv, NoSlotEmpty, Taken
    <2>2. k * Interval \in Nat
      BY OneMore
    <2>3. u # t
      BY <1>3, <2>1, <2>2
    <2>. QED
      BY <2>1, <2>3 DEF Taken
  <1>. QED
    BY <1>1, <1>2, <1>3 DEF PacingInv, NoSlotEmpty

LEMMA PacingStep ==
  ASSUME ProviderPacingTypeOK, PacingInv, [ProviderPacingNext]_pacingVars
  PROVE  PacingInv'
  <1>. USE ProviderPacingAssumption
  <1>1. ASSUME NEW t \in Threads, StartRequest(t) \/ Ask(t) \/ WakeUp(t)
        PROVE  PacingInv'
    <2>1. /\ \A u \in Threads \ {t} : threads'[u] = threads[u]
          /\ threads'[t].until = threads[t].until
          /\ UNCHANGED <<clock, nextAt>>
          /\ threads[t].at = "wait" => threads[t].until <= clock
          /\ HasSlot(t)' => HasSlot(t)
      BY <1>1 DEF StartRequest, Ask, WakeUp, Thread, HasSlot, ProviderPacingTypeOK
    <2>. QED
      BY <2>1, SlotsKept
  <1>2. ASSUME NEW t \in Threads, WaitForTurn(t) PROVE PacingInv'
    <2>1. /\ \A u \in Threads \ {t} : threads'[u] = threads[u]
          /\ threads'[t].until = Slot /\ threads'[t].at = "wait"
          /\ nextAt' = Slot + Interval /\ clock' = clock
          /\ threads[t].at = "turn"
      BY <1>2 DEF WaitForTurn, ProviderPacingTypeOK
    <2>2. Slot \in Nat /\ Slot >= nextAt /\ nextAt \in Nat /\ clock \in Nat /\ Slot >= clock
      BY DEF Slot, LaterOf, ProviderPacingTypeOK
    <2>3. \A u \in Threads : threads[u].until \in Nat
      BY DEF ProviderPacingTypeOK
    <2>4. SlotsBefore'
      BY <2>1, <2>2, <2>3 DEF PacingInv, SlotsBefore, HasSlot
    <2>5. SlotsApart'
      <3>1. \A u \in Threads \ {t} : HasSlot(u)' =>
               threads'[u].until \in Nat /\ Slot >= threads'[u].until + Interval
        BY <2>1, <2>2, <2>3 DEF PacingInv, SlotsBefore, HasSlot
      <3>. QED
        BY <2>1, <2>2, <3>1 DEF PacingInv, SlotsApart, HasSlot, Apart
    <2>6. ASSUME NEW k \in Nat \ {0}, nextAt' > clock' + k * Interval PROVE Taken(k)'
      <3>0. /\ k * Interval \in Nat /\ k - 1 \in Nat
            /\ (k - 1) * Interval \in Nat /\ k * Interval = (k - 1) * Interval + Interval
        BY OneMore
      <3>1. CASE k = 1
        <4>1. k * Interval = Interval
          BY <3>1
        <4>. QED
          BY <2>1, <2>2, <4>1 DEF Taken
      <3>2. CASE k # 1
        <4>1. k - 1 \in Nat \ {0}
          BY <3>2
        <4>2. Slot > clock + (k - 1) * Interval
          BY <2>1, <2>2, <2>6, <3>0
        <4>3. Slot = nextAt
          BY <2>2, <3>0, <4>2 DEF Slot, LaterOf
        <4>4. PICK u \in Threads :
                 threads[u].at = "wait" /\ threads[u].until + (k - 1) * Interval = nextAt
          BY <4>1, <4>2, <4>3 DEF PacingInv, NoSlotEmpty, Taken
        <4>5. u # t
          BY <2>1, <4>4
        <4>6. threads'[u].at = "wait" /\ threads'[u].until + k * Interval = nextAt'
          BY <2>1, <2>2, <2>3, <3>0, <4>3, <4>4, <4>5
        <4>. QED
          BY <4>6 DEF Taken
      <3>. QED
        BY <3>1, <3>2
    <2>. QED
      BY <2>4, <2>5, <2>6 DEF PacingInv, NoSlotEmpty
  <1>3. ASSUME NEW t \in Threads, Answered(t) PROVE PacingInv'
    <2>1. /\ \A u \in Threads \ {t} : threads'[u] = threads[u]
          /\ UNCHANGED <<clock, nextAt>> /\ threads[t].at = "asking"
          /\ ~HasSlot(t)'
      BY <1>3 DEF Answered, HasSlot, NoAttempt, ProviderPacingTypeOK
    <2>. QED
      BY <2>1, SlotsKept
  <1>4. ASSUME NEW t \in Threads, NEW pause \in Pauses, TryAgain(t, pause)
        PROVE  PacingInv'
    <2>1. /\ \A u \in Threads \ {t} : threads'[u] = threads[u]
          /\ UNCHANGED <<clock, nextAt>> /\ threads[t].at = "asking"
          /\ ~HasSlot(t)'
      BY <1>4 DEF TryAgain, HasSlot, ProviderPacingTypeOK
    <2>. QED
      BY <2>1, SlotsKept
  <1>5. CASE Tick
    <2>1. UNCHANGED <<nextAt, threads>> /\ clock' = clock + 1 /\ clock \in Nat /\ nextAt \in Nat
      BY <1>5 DEF Tick, ProviderPacingTypeOK
    <2>2. ASSUME NEW k \in Nat \ {0}, nextAt' > clock' + k * Interval PROVE Taken(k)'
      <3>1. k * Interval \in Nat
        BY OneMore
      <3>2. nextAt > clock + k * Interval
        BY <2>1, <2>2, <3>1
      <3>. QED
        BY <2>1, <3>2 DEF PacingInv, NoSlotEmpty, Taken
    <2>. QED
      BY <2>1, <2>2 DEF PacingInv, SlotsApart, SlotsBefore, NoSlotEmpty, HasSlot
  <1>6. CASE UNCHANGED pacingVars
    BY <1>6 DEF pacingVars, PacingInv, SlotsApart, SlotsBefore, NoSlotEmpty, Taken, HasSlot
  <1>. QED
    BY <1>1, <1>2, <1>3, <1>4, <1>5, <1>6 DEF ProviderPacingNext

\* Different numbers of intervals are different times.
LEMMA IntervalsDiffer ==
  ASSUME NEW j \in Nat, NEW k \in Nat, j < k
  PROVE  j * Interval < k * Interval
  <1>1. /\ k - j - 1 \in Nat
        /\ k * Interval = j * Interval + (k - j) * Interval
        /\ (k - j) * Interval = (k - j - 1) * Interval + Interval
        /\ (k - j - 1) * Interval \in Nat
        /\ j * Interval \in Nat
    BY ProviderPacingAssumption
  <1>. QED
    BY <1>1, ProviderPacingAssumption

\* There cannot be a waiting thread for each of more slots than threads.
LEMMA NoBacklog ==
  ASSUME ProviderPacingTypeOK, PacingInv, NEW t \in Threads, threads[t].at = "wait"
  PROVE  threads[t].until <= clock + Interval * Cardinality(Threads)
  <1>. DEFINE N == Cardinality(Threads)
  <1>0. N \in Nat /\ clock \in Nat /\ nextAt \in Nat /\ Interval \in Nat \ {0}
        /\ \A u \in Threads : threads[u].until \in Nat
    BY ProviderPacingAssumption, FS_CardinalityType DEF ProviderPacingTypeOK
  <1>1. SUFFICES ASSUME threads[t].until > clock + N * Interval
                 PROVE  FALSE
    <2>1. N * Interval = Interval * N /\ N * Interval \in Nat
      BY <1>0
    <2>. QED
      BY <1>0, <2>1
  <1>. HIDE DEF N
  <1>2. ASSUME NEW k \in 1 .. N + 1 PROVE Taken(k)
    <2>1. k \in Nat \ {0} /\ (k = N + 1 \/ k < N + 1)
      BY <1>0
    <2>2. /\ (N + 1) * Interval = N * Interval + Interval
          /\ k * Interval <= (N + 1) * Interval /\ k * Interval \in Nat /\ N * Interval \in Nat
      BY <1>0, <2>1, OneMore, IntervalsDiffer
    <2>3. threads[t].until + Interval <= nextAt
      BY DEF PacingInv, SlotsBefore, HasSlot
    <2>4. nextAt > clock + k * Interval
      BY <1>0, <1>1, <2>2, <2>3
    <2>. QED
      BY <2>1, <2>4 DEF PacingInv, NoSlotEmpty
  <1>. DEFINE holder == [k \in 1 .. N + 1 |->
                 CHOOSE u \in Threads :
                    threads[u].at = "wait" /\ threads[u].until + k * Interval = nextAt]
  <1>3. \A k \in 1 .. N + 1 : /\ holder[k] \in Threads
                              /\ threads[holder[k]].until + k * Interval = nextAt
    BY <1>2 DEF Taken
  <1>4. IsFiniteSet(1 .. N + 1) /\ Cardinality(1 .. N + 1) = N + 1
    BY <1>0, FS_Interval
  <1>5. holder \in [1 .. N + 1 -> Threads]
    BY <1>3
  <1>. HIDE DEF holder
  <1>6. \E j, k \in 1 .. N + 1 : j # k /\ holder[j] = holder[k]
    <2>1. Cardinality(Threads) < Cardinality(1 .. N + 1)
      BY <1>0, <1>4 DEF N
    <2>2. IsFiniteSet(Threads)
      BY ProviderPacingAssumption
    <2>. DEFINE S == 1 .. N + 1
    <2>3. IsFiniteSet(S) /\ Cardinality(Threads) < Cardinality(S) /\ holder \in [S -> Threads]
      BY <1>4, <1>5, <2>1
    <2>. HIDE DEF S
    <2>4. \E j, k \in S : j # k /\ holder[j] = holder[k]
      BY <2>2, <2>3, FS_PigeonHole
    <2>. QED
      BY <2>4 DEF S
  <1>7. PICK j, k \in 1 .. N + 1 : j # k /\ holder[j] = holder[k]
    BY <1>6
  <1>8. j \in Nat /\ k \in Nat /\ (j < k \/ k < j)
    BY <1>0, <1>7
  <1>9. j * Interval # k * Interval /\ j * Interval \in Nat /\ k * Interval \in Nat
    BY <1>8, IntervalsDiffer, OneMore
  <1>10. threads[holder[j]].until \in Nat
    BY <1>0, <1>3
  <1>. QED
    BY <1>0, <1>3, <1>7, <1>9, <1>10

\* ProviderRateController.wait: threads that race for a provider keep its rate
\* without a backlog, for any number of threads, any rate and any pauses.
THEOREM RateIsAlwaysKept == ProviderPacingSpec => []RateIsKept
  <1>1. ProviderPacingInit => PacingInv
    <2>1. ASSUME NEW k \in Nat \ {0}, ProviderPacingInit
          PROVE  ~(nextAt > clock + k * Interval)
      BY <2>1, OneMore DEF ProviderPacingInit
    <2>. QED
      BY <2>1 DEF ProviderPacingInit, PacingInv, SlotsApart, SlotsBefore, NoSlotEmpty,
                  HasSlot, NoAttempt
  <1>2. ProviderPacingTypeOK /\ PacingInv => RateIsKept
    BY NoBacklog DEF PacingInv, SlotsApart, RateIsKept, Apart
  <1>. QED
    BY <1>1, <1>2, PacingTypeCorrect, PacingStep, PTL DEF ProviderPacingSpec

-----------------------------------------------------------------------------
(***************************************************************************)
(* Seeding, for any number of workers, results, calls and faults: what the    *)
(* totals and the statuses of a page say although a worker may die between   *)
(* any two of its commits and several may retry a failed run together.       *)
(***************************************************************************)

(***************************************************************************)
(* Types, and what each step makes of the worker that takes it.             *)
(***************************************************************************)

LEMMA NoTotalsType == NoTotals \in Totals
  BY DEF NoTotals, Totals

LEMMA IdleType ==
  /\ Idle \in Seeder
  /\ [Idle EXCEPT !.at = "fetch"] \in Seeder
  /\ [Idle EXCEPT !.at = "abort"] \in Seeder
  /\ \A b \in BOOLEAN : [Idle EXCEPT !.at = "start", !.created = b] \in Seeder
  BY NoTotalsType DEF Idle, Seeder, Stages, SeedItemStatuses

\* A counter of the totals that is set to a number leaves totals.
LEMMA TotalsSet ==
  ASSUME NEW t \in Totals, NEW n \in Nat, NEW m \in Nat
  PROVE  /\ [t EXCEPT !.seen = n] \in Totals
         /\ [t EXCEPT !.failed = n] \in Totals
         /\ [t EXCEPT !.seen = n, !.updated = m] \in Totals
         /\ [t EXCEPT !.seen = n, !.inserted = m] \in Totals
  BY DEF Totals

LEMMA SeederFields ==
  ASSUME SeedingTypeOK, NEW w \in Seeders
  PROVE  /\ seeders[w] \in Seeder
         /\ seeders[w].item \subseteq Results /\ seeders[w].todo \subseteq Results
         /\ seeders[w].page \subseteq Results
         /\ seeders[w].stored \in BOOLEAN /\ seeders[w].copy \in Totals
         /\ seeders[w].copy.seen + 1 \in Nat /\ seeders[w].copy.failed + 1 \in Nat
         /\ seeders[w].copy.inserted + 1 \in Nat /\ seeders[w].copy.updated + 1 \in Nat
         /\ seedRun.totals \in Totals /\ seedRun.totals.seen \in Nat
  <1>1. seeders[w] \in Seeder /\ seedRun.totals \in Totals
    BY DEF SeedingTypeOK
  <1>2. seeders[w].copy \in Totals
    BY <1>1 DEF Seeder
  <1>3. \A t \in Totals : /\ t.seen \in Nat /\ t.seen + 1 \in Nat /\ t.failed + 1 \in Nat
                          /\ t.inserted + 1 \in Nat /\ t.updated + 1 \in Nat
    BY DEF Totals
  <1>. QED
    BY <1>1, <1>2, <1>3 DEF Seeder

LEMMA CountedType ==
  ASSUME SeedingTypeOK, NEW w \in Seeders
  PROVE  Counted(w) \in Totals
  <1>1. (IF seeders[w].stored THEN seedRun.totals.seen ELSE seeders[w].copy.seen + 1) \in Nat
    BY SeederFields
  <1>. QED
    BY <1>1, SeederFields, TotalsSet DEF Counted

LEMMA AnewFields ==
  ASSUME SeedingTypeOK, NEW w \in Seeders, NEW stage \in Stages
  PROVE  /\ Anew(w, stage) \in Seeder
         /\ Anew(w, stage).at = stage /\ ~Anew(w, stage).read /\ ~Anew(w, stage).stored
         /\ Anew(w, stage).page = seeders[w].page /\ Anew(w, stage).todo = seeders[w].todo
         /\ Anew(w, stage).item = seeders[w].item
  BY SeederFields, NoTotalsType DEF Anew, Seeder, SeedItemStatuses

LEMMA NextItemFields ==
  ASSUME SeedingTypeOK, NEW w \in Seeders
  PROVE  /\ NextItem(w) \in Seeder
         /\ NextItem(w).at = "next" /\ ~NextItem(w).read /\ ~NextItem(w).stored
         /\ NextItem(w).page = seeders[w].page /\ NextItem(w).item = {}
         /\ NextItem(w).todo = seeders[w].todo \ seeders[w].item
  <1>1. "next" \in Stages
    BY DEF Stages
  <1>2. /\ Anew(w, "next") \in Seeder
        /\ Anew(w, "next").at = "next"
        /\ ~Anew(w, "next").read /\ ~Anew(w, "next").stored
        /\ Anew(w, "next").page = seeders[w].page /\ Anew(w, "next").todo = seeders[w].todo
    BY <1>1, AnewFields
  <1>. HIDE DEF Anew
  <1>. QED
    BY <1>2 DEF NextItem, Seeder

OnlySeederMoves(w) == \A v \in Seeders \ {w} : seeders'[v] = seeders[v]

\* A step that replaces what a worker is at does nothing to the other workers.
LEMMA OneMoves ==
  ASSUME SeedingTypeOK, NEW w \in Seeders, NEW s \in Seeder, Becomes(w, s)
  PROVE  /\ seeders' \in [Seeders -> Seeder]
         /\ seeders'[w] = s
         /\ OnlySeederMoves(w)
  BY DEF SeedingTypeOK, Becomes, OnlySeederMoves

\* A worker that leaves the page, or has not got one yet.
OffPage == {"idle", "start", "fetch", "abort"}

\* What a step does to the worker that takes it: it is on no page, or goes to a
\* stage with the page and the item it has.
LeavesPage(w) ==
    /\ seeders'[w].at \in OffPage /\ ~seeders'[w].stored

GoesWith(w, stage) ==
    /\ seeders'[w].at = stage
    /\ seeders'[w].page = seeders[w].page /\ seeders'[w].todo = seeders[w].todo
    /\ seeders'[w].item = seeders[w].item

GoesOn(w) ==
    /\ seeders'[w].at = "next" /\ ~seeders'[w].stored
    /\ seeders'[w].page = seeders[w].page
    /\ seeders'[w].todo = seeders[w].todo \ seeders[w].item
    /\ seeders'[w].item = {}

MovesSeeder(w) == seeders' \in [Seeders -> Seeder] /\ OnlySeederMoves(w)

RowsKept == UNCHANGED <<seedRun, seedItems, overtaken>>

LEMMA IdleMoves ==
  ASSUME SeedingTypeOK, NEW w \in Seeders,
         \/ Becomes(w, Idle)
         \/ Becomes(w, [Idle EXCEPT !.at = "fetch"])
         \/ Becomes(w, [Idle EXCEPT !.at = "abort"])
         \/ \E b \in BOOLEAN : Becomes(w, [Idle EXCEPT !.at = "start", !.created = b])
  PROVE  MovesSeeder(w) /\ LeavesPage(w)
  <1>1. ASSUME NEW s \in Seeder, s.at \in OffPage, ~s.stored, Becomes(w, s)
        PROVE  MovesSeeder(w) /\ LeavesPage(w)
    BY <1>1, OneMoves DEF MovesSeeder, LeavesPage
  <1>2. Idle.at = "idle" /\ ~Idle.stored
    BY DEF Idle
  <1>3. /\ [Idle EXCEPT !.at = "fetch"].at = "fetch" /\ ~[Idle EXCEPT !.at = "fetch"].stored
        /\ [Idle EXCEPT !.at = "abort"].at = "abort" /\ ~[Idle EXCEPT !.at = "abort"].stored
    BY DEF Idle
  <1>4. ASSUME NEW b \in BOOLEAN
        PROVE  /\ [Idle EXCEPT !.at = "start", !.created = b].at = "start"
               /\ ~[Idle EXCEPT !.at = "start", !.created = b].stored
    BY DEF Idle
  <1>5. {"idle", "fetch", "abort", "start"} \subseteq OffPage
    BY DEF OffPage
  <1>6. CASE Becomes(w, Idle)
    BY <1>1, <1>2, <1>5, <1>6, IdleType
  <1>7. CASE Becomes(w, [Idle EXCEPT !.at = "fetch"])
    BY <1>1, <1>3, <1>5, <1>7, IdleType
  <1>8. CASE Becomes(w, [Idle EXCEPT !.at = "abort"])
    BY <1>1, <1>3, <1>5, <1>8, IdleType
  <1>9. ASSUME NEW b \in BOOLEAN, Becomes(w, [Idle EXCEPT !.at = "start", !.created = b])
        PROVE  MovesSeeder(w) /\ LeavesPage(w)
    BY <1>1, <1>4, <1>5, <1>9, IdleType
  <1>. QED
    BY <1>6, <1>7, <1>8, <1>9

LEMMA LookUpEffect ==
  ASSUME SeedingTypeOK, NEW w \in Seeders, LookUpRun(w)
  PROVE  MovesSeeder(w) /\ LeavesPage(w) /\ RowsKept /\ UNCHANGED <<inCatalog, finished>>
  <1>1. (seedRun.status = "absent") \in BOOLEAN
    OBVIOUS
  <1>. QED
    BY <1>1, IdleMoves DEF LookUpRun, RowsKept

LEMMA StartEffect ==
  ASSUME SeedingTypeOK, NEW w \in Seeders, StartRun(w), ~seeders[w].stored
  PROVE  /\ MovesSeeder(w) /\ LeavesPage(w)
         /\ UNCHANGED <<seedItems, inCatalog, finished, overtaken>>
         /\ seedRun' \in [status: SeedRunStatuses, totals: Totals]
         /\ seedRun'.totals = seedRun.totals
  <1>1. CASE seedRun' = [seedRun EXCEPT !.status = "RUNNING"]
             /\ Becomes(w, [Idle EXCEPT !.at = "fetch"])
    BY <1>1, IdleMoves DEF StartRun, SeedingTypeOK, SeedRunStatuses
  <1>2. CASE Becomes(w, [seeders[w] EXCEPT !.created = FALSE]) /\ UNCHANGED seedRun
    <2>1. [seeders[w] EXCEPT !.created = FALSE] \in Seeder
      BY SeederFields DEF Seeder
    <2>2. seeders[w].at = "start"
      BY DEF StartRun
    <2>3. /\ [seeders[w] EXCEPT !.created = FALSE].at = "start"
          /\ ~[seeders[w] EXCEPT !.created = FALSE].stored
      BY <2>2, SeederFields DEF Seeder
    <2>. QED
      BY <1>2, <2>1, <2>3, OneMoves DEF StartRun, SeedingTypeOK, MovesSeeder, LeavesPage, OffPage
  <1>3. CASE Becomes(w, Idle) /\ UNCHANGED seedRun
    BY <1>3, IdleMoves DEF StartRun, SeedingTypeOK
  <1>. QED
    BY <1>1, <1>2, <1>3 DEF StartRun

LEMMA FetchEffect ==
  ASSUME SeedingTypeOK, NEW w \in Seeders, FetchPage(w), ~seeders[w].stored
  PROVE  /\ MovesSeeder(w) /\ RowsKept /\ UNCHANGED <<inCatalog, finished>>
         /\ seeders'[w].at = "next" /\ ~seeders'[w].stored
         /\ seeders'[w].page = seeders'[w].todo
  <1>1. PICK page \in SUBSET Results :
           Becomes(w, [seeders[w] EXCEPT !.at = "next", !.page = page, !.todo = page])
    BY DEF FetchPage
  <1>2. [seeders[w] EXCEPT !.at = "next", !.page = page, !.todo = page] \in Seeder
    BY SeederFields DEF Seeder, Stages
  <1>3. seeders'[w] = [seeders[w] EXCEPT !.at = "next", !.page = page, !.todo = page]
        /\ MovesSeeder(w)
    BY <1>1, <1>2, OneMoves DEF MovesSeeder
  <1>4. /\ seeders'[w].at = "next" /\ seeders'[w].page = page /\ seeders'[w].todo = page
        /\ ~seeders'[w].stored
    BY <1>3, SeederFields DEF Seeder
  <1>. QED
    BY <1>3, <1>4 DEF FetchPage, RowsKept

LEMMA BreakEffect ==
  ASSUME SeedingTypeOK, NEW w \in Seeders, Breaks(w)
  PROVE  MovesSeeder(w) /\ LeavesPage(w) /\ RowsKept /\ UNCHANGED <<inCatalog, finished>>
  BY IdleMoves DEF Breaks, RowsKept

LEMMA LoadEffect ==
  ASSUME SeedingTypeOK, NEW w \in Seeders, LoadTotals(w)
  PROVE  /\ MovesSeeder(w) /\ RowsKept /\ UNCHANGED <<inCatalog, finished>>
         /\ GoesWith(w, seeders[w].at) /\ seeders'[w].stored = seeders[w].stored
         /\ seeders[w].at \in {"next", "mark", "failed"}
         /\ seeders[w].at = "failed" => \E i \in seeders[w].item : seeders'[w].was = seedItems[i]
  <1>1. PICK status \in SeedItemStatuses :
           /\ IF seeders[w].at = "failed" THEN \E i \in seeders[w].item : status = seedItems[i]
                                          ELSE status = "absent"
           /\ Becomes(w, [seeders[w] EXCEPT !.read = TRUE, !.copy = seedRun.totals,
                                            !.was = status])
    BY DEF LoadTotals
  <1>2. [seeders[w] EXCEPT !.read = TRUE, !.copy = seedRun.totals, !.was = status] \in Seeder
    BY SeederFields DEF Seeder
  <1>3. /\ MovesSeeder(w)
        /\ seeders'[w] = [seeders[w] EXCEPT !.read = TRUE, !.copy = seedRun.totals,
                                            !.was = status]
    BY <1>1, <1>2, OneMoves DEF MovesSeeder
  <1>4. /\ seeders'[w].was = status /\ seeders'[w].stored = seeders[w].stored
        /\ GoesWith(w, seeders[w].at)
    BY <1>3, SeederFields DEF Seeder, GoesWith
  <1>. QED
    BY <1>1, <1>3, <1>4 DEF LoadTotals, RowsKept

LEMMA PassOverEffect ==
  ASSUME SeedingTypeOK, NEW w \in Seeders, PassOver(w)
  PROVE  /\ MovesSeeder(w) /\ RowsKept /\ UNCHANGED <<inCatalog, finished>>
         /\ seeders[w].at = "next" /\ seeders'[w].at = "next"
         /\ seeders'[w].stored = seeders[w].stored
         /\ seeders'[w].item = seeders[w].item
         /\ seeders'[w].page = seeders[w].page
         /\ \E i \in Results : seedItems[i] = "COMPLETED"
                               /\ seeders'[w].todo = seeders[w].todo \ {i}
  <1>1. PICK i \in seeders[w].todo :
           /\ seeders[w].at = "next" /\ seedItems[i] = "COMPLETED"
           /\ Becomes(w, [seeders[w] EXCEPT !.todo = @ \ {i}])
    BY DEF PassOver
  <1>2. [seeders[w] EXCEPT !.todo = @ \ {i}] \in Seeder
    BY SeederFields DEF Seeder
  <1>3. MovesSeeder(w) /\ seeders'[w] = [seeders[w] EXCEPT !.todo = @ \ {i}]
    BY <1>1, <1>2, OneMoves DEF MovesSeeder
  <1>4. /\ seeders'[w].at = "next" /\ seeders'[w].todo = seeders[w].todo \ {i}
        /\ seeders'[w].stored = seeders[w].stored /\ seeders'[w].item = seeders[w].item
        /\ seeders'[w].page = seeders[w].page
    BY <1>1, <1>3, SeederFields DEF Seeder
  <1>5. i \in Results
    BY <1>1, SeederFields
  <1>. QED
    BY <1>1, <1>3, <1>4, <1>5 DEF PassOver, RowsKept

LEMMA NextResultEffect ==
  ASSUME SeedingTypeOK, NEW w \in Seeders, NextResult(w)
  PROVE  /\ MovesSeeder(w) /\ RowsKept /\ UNCHANGED <<inCatalog, finished>>
         /\ seeders[w].at = "next" /\ seeders'[w].at = "upsert"
         /\ seeders'[w].stored = seeders[w].stored
         /\ seeders'[w].page = seeders[w].page /\ seeders'[w].todo = seeders[w].todo
         /\ \E i \in Results : seeders'[w].item = {i}
  <1>1. PICK i \in seeders[w].todo :
           /\ seeders[w].at = "next"
           /\ Becomes(w, [seeders[w] EXCEPT !.at = "upsert", !.item = {i},
                                            !.existed = i \in inCatalog])
    BY DEF NextResult
  <1>2. i \in Results
    BY <1>1, SeederFields
  <1>3. [seeders[w] EXCEPT !.at = "upsert", !.item = {i}, !.existed = i \in inCatalog]
          \in Seeder
    <2>1. \A b \in BOOLEAN :
             [seeders[w] EXCEPT !.at = "upsert", !.item = {i}, !.existed = b] \in Seeder
      BY <1>2, SeederFields DEF Seeder, Stages
    <2>2. (i \in inCatalog) \in BOOLEAN
      OBVIOUS
    <2>. QED
      BY <2>1, <2>2, Zenon
  <1>4. MovesSeeder(w) /\ seeders'[w] = [seeders[w] EXCEPT !.at = "upsert", !.item = {i},
                                                     !.existed = i \in inCatalog]
    BY <1>1, <1>3, OneMoves DEF MovesSeeder
  <1>5. /\ seeders'[w].at = "upsert" /\ seeders'[w].todo = seeders[w].todo
        /\ seeders'[w].stored = seeders[w].stored /\ seeders'[w].item = {i}
        /\ seeders'[w].page = seeders[w].page
    BY <1>4, SeederFields DEF Seeder
  <1>. QED
    BY <1>1, <1>2, <1>4, <1>5 DEF NextResult, RowsKept

LEMMA UpsertEffect ==
  ASSUME SeedingTypeOK, NEW w \in Seeders, Upsert(w)
  PROVE  /\ MovesSeeder(w) /\ UNCHANGED finished /\ GoesWith(w, "mark")
         /\ seeders[w].at = "upsert"
         /\ \/ /\ UNCHANGED <<seedRun, seedItems, inCatalog, overtaken>>
               /\ seeders'[w].stored = seeders[w].stored
            \/ \E i \in seeders[w].item \cap Results :
                  /\ inCatalog' = inCatalog \cup {i}
                  /\ seedItems' = [seedItems EXCEPT ![i] = IF @ = "absent" THEN "PENDING" ELSE @]
                  /\ seedRun' = [seedRun EXCEPT !.totals.seen = seeders[w].copy.seen + 1]
                  /\ overtaken' = (overtaken \/ Overtaken(w))
                  /\ seeders'[w].stored
  <1>0. seeders[w].at = "upsert" /\ UNCHANGED finished
    BY DEF Upsert
  <1>1. CASE Becomes(w, [seeders[w] EXCEPT !.at = "mark"])
             /\ UNCHANGED <<seedRun, seedItems, inCatalog, overtaken>>
    <2>1. [seeders[w] EXCEPT !.at = "mark"] \in Seeder
      BY SeederFields DEF Seeder, Stages
    <2>2. MovesSeeder(w) /\ seeders'[w] = [seeders[w] EXCEPT !.at = "mark"]
      BY <1>1, <2>1, OneMoves DEF MovesSeeder
    <2>3. GoesWith(w, "mark") /\ seeders'[w].stored = seeders[w].stored
      BY <2>2, SeederFields DEF GoesWith, Seeder
    <2>. QED
      BY <1>0, <1>1, <2>2, <2>3
  <1>2. CASE \E i \in seeders[w].item :
               /\ inCatalog' = inCatalog \cup {i}
               /\ seedItems' = [seedItems EXCEPT ![i] = IF @ = "absent" THEN "PENDING" ELSE @]
               /\ seedRun' = [seedRun EXCEPT !.totals.seen = seeders[w].copy.seen + 1]
               /\ overtaken' = (overtaken \/ Overtaken(w))
               /\ Becomes(w, [Anew(w, "mark") EXCEPT !.stored = TRUE])
    <2>1. "mark" \in Stages
      BY DEF Stages
    <2>2. /\ Anew(w, "mark") \in Seeder /\ Anew(w, "mark").at = "mark"
          /\ Anew(w, "mark").page = seeders[w].page /\ Anew(w, "mark").todo = seeders[w].todo
          /\ Anew(w, "mark").item = seeders[w].item
      BY <2>1, AnewFields
    <2>. HIDE DEF Anew
    <2>3. [Anew(w, "mark") EXCEPT !.stored = TRUE] \in Seeder
      BY <2>2 DEF Seeder
    <2>4. MovesSeeder(w) /\ seeders'[w] = [Anew(w, "mark") EXCEPT !.stored = TRUE]
      BY <1>2, <2>3, OneMoves DEF MovesSeeder
    <2>5. GoesWith(w, "mark") /\ seeders'[w].stored
      BY <2>2, <2>4 DEF GoesWith, Seeder
    <2>. QED
      BY <1>0, <1>2, <2>4, <2>5, SeederFields
  <1>. QED
    BY <1>1, <1>2 DEF Upsert

LEMMA ItemFailsEffect ==
  ASSUME SeedingTypeOK, NEW w \in Seeders, ItemFails(w)
  PROVE  /\ MovesSeeder(w) /\ RowsKept /\ UNCHANGED <<inCatalog, finished>>
         /\ GoesWith(w, "failed") /\ ~seeders'[w].stored /\ ~seeders'[w].read
         /\ seeders[w].at \in {"upsert", "mark"}
  <1>1. "failed" \in Stages
    BY DEF Stages
  <1>2. /\ Anew(w, "failed") \in Seeder /\ Anew(w, "failed").at = "failed"
        /\ Anew(w, "failed").page = seeders[w].page /\ Anew(w, "failed").todo = seeders[w].todo
        /\ Anew(w, "failed").item = seeders[w].item
        /\ ~Anew(w, "failed").stored /\ ~Anew(w, "failed").read
    BY <1>1, AnewFields
  <1>. HIDE DEF Anew
  <1>3. [Anew(w, "failed") EXCEPT !.existed = FALSE] \in Seeder
    BY <1>2 DEF Seeder
  <1>4. MovesSeeder(w) /\ seeders'[w] = [Anew(w, "failed") EXCEPT !.existed = FALSE]
    BY <1>3, OneMoves DEF ItemFails, MovesSeeder
  <1>5. GoesWith(w, "failed") /\ ~seeders'[w].stored /\ ~seeders'[w].read
    BY <1>2, <1>4 DEF GoesWith, Seeder
  <1>. QED
    BY <1>4, <1>5 DEF ItemFails, RowsKept

LEMMA NextItemGoesOn ==
  ASSUME SeedingTypeOK, NEW w \in Seeders, Becomes(w, NextItem(w))
  PROVE  MovesSeeder(w) /\ GoesOn(w)
  BY NextItemFields, OneMoves DEF MovesSeeder, GoesOn

LEMMA MarkEffect ==
  ASSUME SeedingTypeOK, NEW w \in Seeders, MarkCompleted(w)
  PROVE  /\ MovesSeeder(w) /\ GoesOn(w) /\ UNCHANGED <<inCatalog, finished>>
         /\ seeders[w].at = "mark"
         /\ \E i \in seeders[w].item \cap Results :
               seedItems' = [seedItems EXCEPT ![i] = "COMPLETED"]
         /\ seedRun' = [seedRun EXCEPT !.totals = Counted(w)]
         /\ overtaken' = (overtaken \/ Overtaken(w))
  BY NextItemGoesOn, SeederFields DEF MarkCompleted

LEMMA FailureEffect ==
  ASSUME SeedingTypeOK, NEW w \in Seeders, RecordFailure(w)
  PROVE  /\ MovesSeeder(w) /\ GoesOn(w) /\ UNCHANGED <<inCatalog, finished>>
         /\ seeders[w].at = "failed" /\ seeders[w].read
         /\ \E i \in seeders[w].item \cap Results :
               seedItems' = [seedItems EXCEPT
                                ![i] = IF seeders[w].was = "FAILED" THEN @ ELSE "FAILED"]
         /\ seedRun' = [seedRun EXCEPT !.totals.failed = seeders[w].copy.failed + 1]
         /\ overtaken' = (overtaken \/ Overtaken(w))
  BY NextItemGoesOn, SeederFields DEF RecordFailure

LEMMA FinishEffect ==
  ASSUME SeedingTypeOK, NEW w \in Seeders, FinishRun(w)
  PROVE  /\ MovesSeeder(w) /\ LeavesPage(w) /\ UNCHANGED <<seedItems, inCatalog, overtaken>>
         /\ seeders[w].at = "next" /\ seeders[w].todo = {}
         /\ finished' = finished \cup seeders[w].page
         /\ seedRun' \in [status: SeedRunStatuses, totals: Totals]
         /\ seedRun'.totals = seedRun.totals
  BY IdleMoves DEF SeedingTypeOK, FinishRun, SeedRunStatuses

LEMMA FailRunEffect ==
  ASSUME SeedingTypeOK, NEW w \in Seeders, FailRun(w)
  PROVE  /\ MovesSeeder(w) /\ LeavesPage(w)
         /\ UNCHANGED <<seedItems, inCatalog, overtaken, finished>>
         /\ seedRun' \in [status: SeedRunStatuses, totals: Totals]
         /\ seedRun'.totals = seedRun.totals
  BY IdleMoves DEF SeedingTypeOK, FailRun, SeedRunStatuses

LEMMA DeathEffect ==
  ASSUME SeedingTypeOK, NEW w \in Seeders, SeederDies(w)
  PROVE  MovesSeeder(w) /\ LeavesPage(w) /\ RowsKept /\ UNCHANGED <<inCatalog, finished>>
  BY IdleMoves DEF SeederDies, RowsKept

\* The steps of a worker, by name.
LEMMA SeedingSteps ==
  ASSUME [SeedingNext]_seedVars
  PROVE  \/ \E w \in Seeders :
              \/ LookUpRun(w) \/ StartRun(w) \/ FetchPage(w) \/ Breaks(w) \/ LoadTotals(w)
              \/ PassOver(w) \/ NextResult(w) \/ Upsert(w) \/ ItemFails(w)
              \/ MarkCompleted(w) \/ RecordFailure(w) \/ FinishRun(w) \/ FailRun(w)
              \/ SeederDies(w)
         \/ \E i \in Results : AddedElsewhere(i) \/ MergedAway(i)
         \/ UNCHANGED seedVars
  BY DEF SeedingNext, SeederStep

LEMMA SeedingTypeStep ==
  ASSUME SeedingTypeOK, [SeedingNext]_seedVars
  PROVE  SeedingTypeOK'
  <1>. USE SeedingAssumption
  <1>k. ASSUME NEW w \in Seeders, MovesSeeder(w), UNCHANGED <<seedRun, seedItems, inCatalog, finished>>,
               seedCalls' \in 0 .. MaxSeedCalls, seedFaults' \in 0 .. MaxSeedFaults,
               UNCHANGED mergedIds, overtaken' \in BOOLEAN
        PROVE  SeedingTypeOK'
    BY <1>k DEF SeedingTypeOK, MovesSeeder
  <1>1. ASSUME NEW w \in Seeders, LookUpRun(w) PROVE SeedingTypeOK'
    BY <1>1, <1>k, LookUpEffect DEF LookUpRun, SeedingTypeOK
  <1>2. ASSUME NEW w \in Seeders, StartRun(w) PROVE SeedingTypeOK'
    <2>1. seeders' \in [Seeders -> Seeder]
      <3>1. CASE Becomes(w, [seeders[w] EXCEPT !.created = FALSE])
        BY <3>1, SeederFields, OneMoves DEF Seeder
      <3>2. CASE Becomes(w, [Idle EXCEPT !.at = "fetch"])
        BY <3>2, IdleType, OneMoves
      <3>3. CASE Becomes(w, Idle)
        BY <3>3, IdleType, OneMoves
      <3>. QED
        BY <1>2, <3>1, <3>2, <3>3 DEF StartRun
    <2>2. seedRun' \in [status: SeedRunStatuses, totals: Totals]
      BY <1>2 DEF StartRun, SeedingTypeOK, SeedRunStatuses
    <2>. QED
      BY <1>2, <2>1, <2>2 DEF SeedingTypeOK, StartRun
  <1>3. ASSUME NEW w \in Seeders, FetchPage(w) PROVE SeedingTypeOK'
    <2>1. PICK page \in SUBSET Results :
             Becomes(w, [seeders[w] EXCEPT !.at = "next", !.page = page, !.todo = page])
      BY <1>3 DEF FetchPage
    <2>2. [seeders[w] EXCEPT !.at = "next", !.page = page, !.todo = page] \in Seeder
      BY SeederFields DEF Seeder, Stages
    <2>. QED
      BY <1>3, <1>k, <2>1, <2>2, OneMoves DEF FetchPage, SeedingTypeOK, MovesSeeder
  <1>4. ASSUME NEW w \in Seeders, Breaks(w) PROVE SeedingTypeOK'
    BY <1>4, <1>k, BreakEffect DEF Breaks, Fault, SeedingTypeOK
  <1>5. ASSUME NEW w \in Seeders, LoadTotals(w) PROVE SeedingTypeOK'
    BY <1>5, <1>k, LoadEffect DEF LoadTotals, SeedingTypeOK
  <1>6. ASSUME NEW w \in Seeders, PassOver(w) PROVE SeedingTypeOK'
    <2>1. UNCHANGED <<seedRun, seedItems, inCatalog, seedCalls, seedFaults, mergedIds,
                      finished, overtaken>>
      BY <1>6 DEF PassOver
    <2>. QED
      BY <1>6, <1>k, <2>1, PassOverEffect DEF SeedingTypeOK
  <1>7. ASSUME NEW w \in Seeders, NextResult(w) PROVE SeedingTypeOK'
    <2>1. UNCHANGED <<seedRun, seedItems, inCatalog, seedCalls, seedFaults, mergedIds,
                      finished, overtaken>>
      BY <1>7 DEF NextResult
    <2>. QED
      BY <1>7, <1>k, <2>1, NextResultEffect DEF SeedingTypeOK
  <1>8. ASSUME NEW w \in Seeders, Upsert(w) PROVE SeedingTypeOK'
    <2>0. UNCHANGED <<seedCalls, seedFaults, mergedIds, finished>> /\ MovesSeeder(w)
      BY <1>8, UpsertEffect DEF Upsert
    <2>1. CASE UNCHANGED <<seedRun, seedItems, inCatalog, overtaken>>
      BY <1>k, <2>0, <2>1 DEF SeedingTypeOK
    <2>2. ASSUME NEW i \in Results,
                 inCatalog' = inCatalog \cup {i},
                 seedItems' = [seedItems EXCEPT ![i] = IF @ = "absent" THEN "PENDING" ELSE @],
                 seedRun' = [seedRun EXCEPT !.totals.seen = seeders[w].copy.seen + 1],
                 overtaken' = (overtaken \/ Overtaken(w))
          PROVE  SeedingTypeOK'
      <3>1. [seedRun.totals EXCEPT !.seen = seeders[w].copy.seen + 1] \in Totals
        BY SeederFields, TotalsSet
      <3>2. seedRun' \in [status: SeedRunStatuses, totals: Totals]
        BY <2>2, <3>1 DEF SeedingTypeOK
      <3>3. seedItems' \in [Results -> SeedItemStatuses]
        BY <2>2 DEF SeedingTypeOK, SeedItemStatuses
      <3>4. overtaken' \in BOOLEAN
        BY <2>2
      <3>. QED
        BY <2>0, <2>2, <3>2, <3>3, <3>4 DEF SeedingTypeOK, MovesSeeder
    <2>. QED
      BY <1>8, <2>1, <2>2, UpsertEffect
  <1>9. ASSUME NEW w \in Seeders, ItemFails(w) PROVE SeedingTypeOK'
    BY <1>9, <1>k, ItemFailsEffect DEF ItemFails, Fault, SeedingTypeOK
  <1>10. ASSUME NEW w \in Seeders, MarkCompleted(w) PROVE SeedingTypeOK'
    <2>1. seedRun' \in [status: SeedRunStatuses, totals: Totals]
      BY <1>10, MarkEffect, CountedType DEF SeedingTypeOK
    <2>2. seedItems' \in [Results -> SeedItemStatuses]
      BY <1>10, MarkEffect DEF SeedingTypeOK, SeedItemStatuses
    <2>3. overtaken' \in BOOLEAN
      BY <1>10, MarkEffect
    <2>4. MovesSeeder(w) /\ UNCHANGED <<inCatalog, seedCalls, seedFaults, mergedIds, finished>>
      BY <1>10, MarkEffect DEF MarkCompleted
    <2>. QED
      BY <2>1, <2>2, <2>3, <2>4 DEF SeedingTypeOK, MovesSeeder
  <1>11. ASSUME NEW w \in Seeders, RecordFailure(w) PROVE SeedingTypeOK'
    <2>0. [seedRun.totals EXCEPT !.failed = seeders[w].copy.failed + 1] \in Totals
      BY SeederFields, TotalsSet
    <2>1. seedRun' \in [status: SeedRunStatuses, totals: Totals]
      BY <1>11, <2>0, FailureEffect DEF SeedingTypeOK
    <2>2. seedItems' \in [Results -> SeedItemStatuses]
      BY <1>11, FailureEffect DEF SeedingTypeOK, SeedItemStatuses
    <2>3. overtaken' \in BOOLEAN
      BY <1>11, FailureEffect
    <2>4. MovesSeeder(w) /\ UNCHANGED <<inCatalog, seedCalls, seedFaults, mergedIds, finished>>
      BY <1>11, FailureEffect DEF RecordFailure
    <2>. QED
      BY <2>1, <2>2, <2>3, <2>4 DEF SeedingTypeOK, MovesSeeder
  <1>12. ASSUME NEW w \in Seeders, FinishRun(w) PROVE SeedingTypeOK'
    <2>1. finished' \subseteq Results
      BY <1>12, FinishEffect, SeederFields DEF SeedingTypeOK
    <2>. QED
      BY <1>12, <2>1, FinishEffect DEF SeedingTypeOK, FinishRun, MovesSeeder
  <1>13. ASSUME NEW w \in Seeders, FailRun(w) PROVE SeedingTypeOK'
    BY <1>13, FailRunEffect DEF SeedingTypeOK, FailRun, MovesSeeder
  <1>14. ASSUME NEW w \in Seeders, SeederDies(w) PROVE SeedingTypeOK'
    BY <1>14, <1>k, DeathEffect DEF SeederDies, Fault, SeedingTypeOK
  <1>15. ASSUME NEW i \in Results, AddedElsewhere(i) \/ MergedAway(i) PROVE SeedingTypeOK'
    BY <1>15 DEF SeedingTypeOK, AddedElsewhere, MergedAway
  <1>16. CASE UNCHANGED seedVars
    BY <1>16 DEF SeedingTypeOK, seedVars
  <1>. QED
    BY SeedingSteps, <1>1, <1>2, <1>3, <1>4, <1>5, <1>6, <1>7, <1>8, <1>9, <1>10, <1>11,
       <1>12, <1>13, <1>14, <1>15, <1>16

\* The rows, the catalog and the workers of a seed run hold what their columns
\* may hold, whatever the workers do and whenever they die.
THEOREM SeedingTypeCorrect == SeedingSpec => []SeedingTypeOK
  <1>1. ASSUME SeedingInit PROVE SeedingTypeOK
    <2>1. seeders \in [Seeders -> Seeder]
      BY <1>1, IdleType DEF SeedingInit
    <2>2. /\ seedRun \in [status: SeedRunStatuses, totals: Totals]
          /\ seedItems \in [Results -> SeedItemStatuses]
      BY <1>1, NoTotalsType DEF SeedingInit, SeedRunStatuses, SeedItemStatuses
    <2>3. /\ seedCalls \in 0 .. MaxSeedCalls /\ seedFaults \in 0 .. MaxSeedFaults
          /\ mergedIds \in 0 .. MaxMergedIds
      BY <1>1, SeedingAssumption DEF SeedingInit
    <2>4. inCatalog \subseteq Results /\ finished \subseteq Results /\ overtaken \in BOOLEAN
      BY <1>1 DEF SeedingInit
    <2>. QED
      BY <2>1, <2>2, <2>3, <2>4 DEF SeedingTypeOK
  <1>. QED
    BY <1>1, SeedingTypeStep, PTL DEF SeedingSpec

(***************************************************************************)
(* Where a worker is: it has one item while it is on one, and the upsert has  *)
(* committed only while it marks the item.                                   *)
(***************************************************************************)

OnItem(w) == seeders[w].at \in {"upsert", "mark", "failed"}
OnPage(w) == seeders[w].at \in {"next", "upsert", "mark", "failed"}

AtItem(w) ==
    /\ OnItem(w) => \E i \in Results : seeders[w].item = {i}
    /\ seeders[w].stored => seeders[w].at = "mark"

OneItem == \A w \in Seeders : AtItem(w)

LEMMA AtItemMoves ==
  ASSUME OneItem, NEW w \in Seeders, OnlySeederMoves(w), AtItem(w)'
  PROVE  OneItem'
  BY DEF OneItem, AtItem, OnItem, OnlySeederMoves

LEMMA OneItemStep ==
  ASSUME SeedingTypeOK, OneItem, [SeedingNext]_seedVars
  PROVE  OneItem'
  <1>0. ASSUME NEW w \in Seeders PROVE AtItem(w)
    BY DEF OneItem
  <1>l. ASSUME NEW w \in Seeders, MovesSeeder(w), LeavesPage(w) PROVE OneItem'
    <2>1. AtItem(w)'
      BY <1>l DEF LeavesPage, OffPage, AtItem, OnItem
    <2>. QED
      BY <1>l, <2>1, AtItemMoves DEF MovesSeeder
  <1>n. ASSUME NEW w \in Seeders, MovesSeeder(w), seeders'[w].at = "next", ~seeders'[w].stored
        PROVE  OneItem'
    <2>1. AtItem(w)'
      BY <1>n DEF AtItem, OnItem
    <2>. QED
      BY <1>n, <2>1, AtItemMoves DEF MovesSeeder
  <1>u. ASSUME NEW w \in Seeders, seeders[w].at # "mark" PROVE ~seeders[w].stored
    BY <1>0, <1>u DEF AtItem
  <1>1. ASSUME NEW w \in Seeders, LookUpRun(w) PROVE OneItem'
    BY <1>1, <1>l, LookUpEffect
  <1>2. ASSUME NEW w \in Seeders, StartRun(w) PROVE OneItem'
    <2>1. ~seeders[w].stored
      BY <1>2, <1>u DEF StartRun
    <2>. QED
      BY <1>2, <1>l, <2>1, StartEffect
  <1>3. ASSUME NEW w \in Seeders, FetchPage(w) PROVE OneItem'
    <2>1. ~seeders[w].stored
      BY <1>3, <1>u DEF FetchPage
    <2>. QED
      BY <1>3, <1>n, <2>1, FetchEffect
  <1>4. ASSUME NEW w \in Seeders, Breaks(w) PROVE OneItem'
    BY <1>4, <1>l, BreakEffect
  <1>5. ASSUME NEW w \in Seeders, LoadTotals(w) PROVE OneItem'
    <2>1. AtItem(w)'
      BY <1>0, <1>5, LoadEffect DEF GoesWith, AtItem, OnItem
    <2>. QED
      BY <1>5, <2>1, LoadEffect, AtItemMoves DEF MovesSeeder
  <1>6. ASSUME NEW w \in Seeders, PassOver(w) PROVE OneItem'
    BY <1>6, <1>n, <1>u, PassOverEffect
  <1>7. ASSUME NEW w \in Seeders, NextResult(w) PROVE OneItem'
    <2>1. AtItem(w)'
      BY <1>7, <1>u, NextResultEffect DEF AtItem, OnItem
    <2>. QED
      BY <1>7, <2>1, NextResultEffect, AtItemMoves DEF MovesSeeder
  <1>8. ASSUME NEW w \in Seeders, Upsert(w) PROVE OneItem'
    <2>1. GoesWith(w, "mark") /\ seeders[w].at = "upsert" /\ MovesSeeder(w)
      BY <1>8, UpsertEffect
    <2>2. AtItem(w)'
      BY <1>0, <2>1 DEF GoesWith, AtItem, OnItem
    <2>. QED
      BY <2>1, <2>2, AtItemMoves DEF MovesSeeder
  <1>9. ASSUME NEW w \in Seeders, ItemFails(w) PROVE OneItem'
    <2>1. AtItem(w)'
      BY <1>0, <1>9, ItemFailsEffect DEF GoesWith, AtItem, OnItem
    <2>. QED
      BY <1>9, <2>1, ItemFailsEffect, AtItemMoves DEF MovesSeeder
  <1>10. ASSUME NEW w \in Seeders, MarkCompleted(w) PROVE OneItem'
    BY <1>10, <1>n, MarkEffect DEF GoesOn
  <1>11. ASSUME NEW w \in Seeders, RecordFailure(w) PROVE OneItem'
    BY <1>11, <1>n, FailureEffect DEF GoesOn
  <1>12. ASSUME NEW w \in Seeders, FinishRun(w) PROVE OneItem'
    BY <1>12, <1>l, FinishEffect
  <1>13. ASSUME NEW w \in Seeders, FailRun(w) PROVE OneItem'
    BY <1>13, <1>l, FailRunEffect
  <1>14. ASSUME NEW w \in Seeders, SeederDies(w) PROVE OneItem'
    BY <1>14, <1>l, DeathEffect
  <1>15. ASSUME UNCHANGED seeders PROVE OneItem'
    BY <1>15 DEF OneItem, AtItem, OnItem
  <1>. QED
    BY SeedingSteps, <1>1, <1>2, <1>3, <1>4, <1>5, <1>6, <1>7, <1>8, <1>9, <1>10, <1>11,
       <1>12, <1>13, <1>14, <1>15 DEF AddedElsewhere, MergedAway, seedVars

LEMMA OneItemHolds == SeedingSpec => []OneItem
  <1>1. SeedingInit => OneItem
    BY DEF SeedingInit, OneItem, AtItem, OnItem, Idle
  <1>. QED
    BY <1>1, SeedingTypeCorrect, OneItemStep, PTL DEF SeedingSpec

(***************************************************************************)
(* The totals.  What was counted as seen covers the completed items and      *)
(* those whose upsert has committed and that are not marked yet.             *)
(***************************************************************************)

Done == WithStatus("COMPLETED")
Spoilt == WithStatus("FAILED")
InHand == {i \in Results : \E w \in Seeders : seeders[w].stored /\ i \in seeders[w].item}
Counts == Done \cup InHand

FiniteItems == IsFiniteSet(Counts) /\ IsFiniteSet(Done) /\ IsFiniteSet(Spoilt)

SeedCounts ==
    /\ FiniteItems
    /\ \/ overtaken
       \/ /\ seedRun.totals.inserted + seedRun.totals.updated = Cardinality(Done)
          /\ seedRun.totals.seen >= Cardinality(Counts)
          /\ seedRun.totals.failed >= Cardinality(Spoilt)

\* A set that gains an element at most gains one at most.
LEMMA OneAdded ==
  ASSUME NEW S, NEW T, NEW i, IsFiniteSet(S), T \subseteq S \cup {i}
  PROVE  /\ IsFiniteSet(T) /\ Cardinality(T) \in Nat /\ Cardinality(S) \in Nat
         /\ Cardinality(T) <= Cardinality(S) + 1
         /\ T \subseteq S => Cardinality(T) <= Cardinality(S)
  <1>1. /\ IsFiniteSet(S \cup {i})
        /\ \/ Cardinality(S \cup {i}) = Cardinality(S)
           \/ Cardinality(S \cup {i}) = Cardinality(S) + 1
    BY FS_AddElement
  <1>2. IsFiniteSet(T) /\ Cardinality(T) <= Cardinality(S \cup {i})
    BY <1>1, FS_Subset
  <1>3. T \subseteq S => Cardinality(T) <= Cardinality(S)
    BY FS_Subset
  <1>4. Cardinality(T) \in Nat /\ Cardinality(S) \in Nat /\ Cardinality(S \cup {i}) \in Nat
    BY <1>1, <1>2, FS_CardinalityType
  <1>. QED
    BY <1>1, <1>2, <1>3, <1>4

\* What the workers have stored shrinks unless the one that moves stores.
LEMMA StoredShrinks ==
  ASSUME NEW w \in Seeders, OnlySeederMoves(w),
         ~seeders'[w].stored \/ (seeders'[w].stored = seeders[w].stored
                                 /\ seeders'[w].item = seeders[w].item)
  PROVE  InHand' \subseteq InHand
  BY DEF InHand, OnlySeederMoves

\* A step that changes no item and no total, and stores nothing.
LEMMA CountsKept ==
  ASSUME SeedCounts, UNCHANGED <<seedItems, overtaken>>,
         seedRun'.totals = seedRun.totals, InHand' \subseteq InHand,
         seedRun.totals \in Totals
  PROVE  SeedCounts'
  <1>1. Done' = Done /\ Spoilt' = Spoilt
    BY DEF Done, Spoilt, WithStatus
  <1>2. Counts' \subseteq Counts
    BY <1>1 DEF Counts
  <1>3. /\ IsFiniteSet(Counts') /\ Cardinality(Counts') <= Cardinality(Counts)
        /\ Cardinality(Counts') \in Nat /\ Cardinality(Counts) \in Nat
    BY <1>2, OneAdded DEF SeedCounts, FiniteItems
  <1>. QED
    BY <1>1, <1>3 DEF SeedCounts, FiniteItems, Totals

LEMMA SeedCountsStep ==
  ASSUME SeedingTypeOK, OneItem, SeedCounts, [SeedingNext]_seedVars
  PROVE  SeedCounts'
  <1>0. /\ seedRun.totals.seen \in Nat /\ seedRun.totals.failed \in Nat
        /\ seedRun.totals.inserted \in Nat /\ seedRun.totals.updated \in Nat
        /\ seedRun.totals \in Totals
        /\ Cardinality(Done) \in Nat /\ Cardinality(Spoilt) \in Nat
        /\ Cardinality(Counts) \in Nat
        /\ IsFiniteSet(Done) /\ IsFiniteSet(Spoilt) /\ IsFiniteSet(Counts)
    BY FS_CardinalityType DEF SeedingTypeOK, Totals, SeedCounts, FiniteItems
  <1>m. ~overtaken => /\ seedRun.totals.inserted + seedRun.totals.updated = Cardinality(Done)
                      /\ seedRun.totals.seen >= Cardinality(Counts)
                      /\ seedRun.totals.failed >= Cardinality(Spoilt)
    BY DEF SeedCounts
  <1>k. ASSUME NEW w \in Seeders, MovesSeeder(w), UNCHANGED <<seedItems, overtaken>>,
               seedRun'.totals = seedRun.totals,
               \/ ~seeders'[w].stored
               \/ seeders'[w].stored = seeders[w].stored /\ seeders'[w].item = seeders[w].item
        PROVE  SeedCounts'
    BY <1>0, <1>k, StoredShrinks, CountsKept DEF MovesSeeder
  <1>u. ASSUME NEW w \in Seeders, seeders[w].at # "mark" PROVE ~seeders[w].stored
    BY <1>u DEF OneItem, AtItem
  <1>1. ASSUME NEW w \in Seeders, LookUpRun(w) PROVE SeedCounts'
    BY <1>1, <1>k, LookUpEffect DEF RowsKept, LeavesPage
  <1>2. ASSUME NEW w \in Seeders, StartRun(w) PROVE SeedCounts'
    <2>1. ~seeders[w].stored
      BY <1>2, <1>u DEF StartRun
    <2>. QED
      BY <1>2, <1>k, <2>1, StartEffect DEF LeavesPage
  <1>3. ASSUME NEW w \in Seeders, FetchPage(w) PROVE SeedCounts'
    <2>1. ~seeders[w].stored
      BY <1>3, <1>u DEF FetchPage
    <2>. QED
      BY <1>3, <1>k, <2>1, FetchEffect DEF RowsKept
  <1>4. ASSUME NEW w \in Seeders, Breaks(w) PROVE SeedCounts'
    BY <1>4, <1>k, BreakEffect DEF RowsKept, LeavesPage
  <1>5. ASSUME NEW w \in Seeders, LoadTotals(w) PROVE SeedCounts'
    BY <1>5, <1>k, LoadEffect DEF RowsKept, GoesWith
  <1>6. ASSUME NEW w \in Seeders, PassOver(w) PROVE SeedCounts'
    BY <1>6, <1>k, PassOverEffect DEF RowsKept
  <1>7. ASSUME NEW w \in Seeders, NextResult(w) PROVE SeedCounts'
    BY <1>7, <1>k, <1>u, NextResultEffect DEF RowsKept
  <1>8. ASSUME NEW w \in Seeders, Upsert(w) PROVE SeedCounts'
    <2>1. CASE UNCHANGED <<seedRun, seedItems, overtaken>>
               /\ seeders'[w].stored = seeders[w].stored
      BY <1>8, <1>k, <2>1, UpsertEffect DEF GoesWith
    <2>2. ASSUME NEW i \in seeders[w].item \cap Results,
                 seedItems' = [seedItems EXCEPT ![i] = IF @ = "absent" THEN "PENDING" ELSE @],
                 seedRun' = [seedRun EXCEPT !.totals.seen = seeders[w].copy.seen + 1],
                 overtaken' = (overtaken \/ Overtaken(w)), seeders'[w].stored
          PROVE  SeedCounts'
      <3>1. Done' = Done /\ Spoilt' = Spoilt
        BY <2>2 DEF SeedingTypeOK, Done, Spoilt, WithStatus
      <3>2. seeders[w].item = {i} /\ seeders'[w].item = {i} /\ OnlySeederMoves(w)
        BY <1>8, <2>2, UpsertEffect DEF OneItem, AtItem, OnItem, GoesWith, MovesSeeder
      <3>3. Counts' \subseteq Counts \cup {i}
        BY <3>1, <3>2 DEF Counts, InHand, OnlySeederMoves
      <3>4. /\ IsFiniteSet(Counts') /\ Cardinality(Counts') <= Cardinality(Counts) + 1
            /\ Cardinality(Counts') \in Nat
        BY <1>0, <3>3, OneAdded
      <3>5. ASSUME ~overtaken'
            PROVE  /\ seedRun'.totals.seen = seedRun.totals.seen + 1
                   /\ seedRun'.totals.failed = seedRun.totals.failed
                   /\ seedRun'.totals.inserted = seedRun.totals.inserted
                   /\ seedRun'.totals.updated = seedRun.totals.updated
                   /\ ~overtaken
        <4>1. seeders[w].copy = seedRun.totals /\ ~overtaken
          BY <2>2, <3>5 DEF Overtaken
        <4>2. seedRun'.totals = [seedRun.totals EXCEPT !.seen = seedRun.totals.seen + 1]
          BY <2>2, <4>1 DEF SeedingTypeOK
        <4>. QED
          BY <1>0, <4>1, <4>2 DEF Totals
      <3>. QED
        BY <1>0, <1>m, <3>1, <3>4, <3>5 DEF SeedCounts, FiniteItems
    <2>. QED
      BY <1>8, <2>1, <2>2, UpsertEffect
  <1>9. ASSUME NEW w \in Seeders, ItemFails(w) PROVE SeedCounts'
    BY <1>9, <1>k, ItemFailsEffect DEF RowsKept
  <1>10. ASSUME NEW w \in Seeders, MarkCompleted(w) PROVE SeedCounts'
    <2>0. /\ MovesSeeder(w) /\ GoesOn(w) /\ overtaken' = (overtaken \/ Overtaken(w))
          /\ seedRun' = [seedRun EXCEPT !.totals = Counted(w)]
      BY <1>10, MarkEffect
    <2>1. PICK i \in seeders[w].item \cap Results :
             seedItems' = [seedItems EXCEPT ![i] = "COMPLETED"]
      BY <1>10, MarkEffect
    <2>2. Done' = Done \cup {i} /\ Spoilt' = Spoilt \ {i}
      BY <2>1 DEF SeedingTypeOK, Done, Spoilt, WithStatus
    <2>3. InHand' \subseteq InHand
      BY <2>0, StoredShrinks DEF GoesOn, MovesSeeder
    <2>4. Counts' \subseteq Counts \cup {i} /\ (seeders[w].stored => Counts' \subseteq Counts)
      BY <2>1, <2>2, <2>3 DEF Counts, InHand
    <2>5. /\ IsFiniteSet(Counts') /\ Cardinality(Counts') <= Cardinality(Counts) + 1
          /\ Cardinality(Counts') \in Nat
          /\ seeders[w].stored => Cardinality(Counts') <= Cardinality(Counts)
      BY <1>0, <2>4, OneAdded
    <2>6. /\ IsFiniteSet(Spoilt') /\ Cardinality(Spoilt') <= Cardinality(Spoilt)
          /\ Cardinality(Spoilt') \in Nat /\ IsFiniteSet(Done')
      BY <1>0, <2>2, OneAdded
    <2>7. ASSUME ~overtaken'
          PROVE  /\ seedRun'.totals.inserted + seedRun'.totals.updated = Cardinality(Done')
                 /\ seedRun'.totals.seen >= Cardinality(Counts')
                 /\ seedRun'.totals.failed >= Cardinality(Spoilt')
      <3>1. /\ seeders[w].copy = seedRun.totals /\ ~overtaken
            /\ \A j \in seeders[w].item : seedItems[j] # "COMPLETED"
        BY <2>0, <2>7 DEF Overtaken
      <3>2. i \notin Done
        BY <2>1, <3>1 DEF Done, WithStatus
      <3>3. Cardinality(Done') = Cardinality(Done) + 1
        BY <1>0, <2>2, <3>2, FS_AddElement
      <3>4. seedRun'.totals = Counted(w)
        BY <2>0 DEF SeedingTypeOK
      <3>5. /\ Counted(w).inserted + Counted(w).updated
                 = seedRun.totals.inserted + seedRun.totals.updated + 1
            /\ Counted(w).failed = seedRun.totals.failed
            /\ IF seeders[w].stored THEN Counted(w).seen = seedRun.totals.seen
                                    ELSE Counted(w).seen = seedRun.totals.seen + 1
        <4>1. CASE seeders[w].existed /\ seeders[w].stored
          BY <1>0, <3>1, <4>1 DEF Counted, Totals
        <4>2. CASE seeders[w].existed /\ ~seeders[w].stored
          BY <1>0, <3>1, <4>2 DEF Counted, Totals
        <4>3. CASE ~seeders[w].existed /\ seeders[w].stored
          BY <1>0, <3>1, <4>3 DEF Counted, Totals
        <4>4. CASE ~seeders[w].existed /\ ~seeders[w].stored
          BY <1>0, <3>1, <4>4 DEF Counted, Totals
        <4>. QED
          BY <4>1, <4>2, <4>3, <4>4
      <3>. QED
        BY <1>0, <1>m, <2>5, <2>6, <3>1, <3>3, <3>4, <3>5
    <2>. QED
      BY <2>5, <2>6, <2>7 DEF SeedCounts, FiniteItems
  <1>11. ASSUME NEW w \in Seeders, RecordFailure(w) PROVE SeedCounts'
    <2>0. /\ MovesSeeder(w) /\ GoesOn(w) /\ overtaken' = (overtaken \/ Overtaken(w))
          /\ seedRun' = [seedRun EXCEPT !.totals.failed = seeders[w].copy.failed + 1]
      BY <1>11, FailureEffect
    <2>1. PICK i \in seeders[w].item \cap Results :
             seedItems' = [seedItems EXCEPT
                              ![i] = IF seeders[w].was = "FAILED" THEN @ ELSE "FAILED"]
      BY <1>11, FailureEffect
    <2>2. Done' \subseteq Done /\ Spoilt' \subseteq Spoilt \cup {i} /\ (i \notin Done => Done' = Done)
      BY <2>1 DEF SeedingTypeOK, Done, Spoilt, WithStatus
    <2>3. InHand' \subseteq InHand
      BY <2>0, StoredShrinks DEF GoesOn, MovesSeeder
    <2>4. Counts' \subseteq Counts
      BY <2>2, <2>3 DEF Counts
    <2>5. /\ IsFiniteSet(Counts') /\ Cardinality(Counts') <= Cardinality(Counts)
          /\ Cardinality(Counts') \in Nat
          /\ IsFiniteSet(Spoilt') /\ Cardinality(Spoilt') <= Cardinality(Spoilt) + 1
          /\ Cardinality(Spoilt') \in Nat /\ IsFiniteSet(Done')
      BY <1>0, <2>2, <2>4, OneAdded
    <2>6. ASSUME ~overtaken'
          PROVE  /\ ~overtaken /\ Done' = Done
                 /\ seedRun'.totals.failed = seedRun.totals.failed + 1
                 /\ seedRun'.totals.seen = seedRun.totals.seen
                 /\ seedRun'.totals.inserted = seedRun.totals.inserted
                 /\ seedRun'.totals.updated = seedRun.totals.updated
      <3>1. /\ seeders[w].copy = seedRun.totals /\ ~overtaken
            /\ \A j \in seeders[w].item : seedItems[j] # "COMPLETED"
        BY <2>0, <2>6 DEF Overtaken
      <3>2. Done' = Done
        BY <2>1, <2>2, <3>1 DEF Done, WithStatus
      <3>3. seedRun'.totals = [seedRun.totals EXCEPT !.failed = seedRun.totals.failed + 1]
        BY <2>0, <3>1 DEF SeedingTypeOK
      <3>. QED
        BY <1>0, <3>1, <3>2, <3>3 DEF Totals
    <2>. QED
      BY <1>0, <1>m, <2>5, <2>6 DEF SeedCounts, FiniteItems
  <1>12. ASSUME NEW w \in Seeders, FinishRun(w) PROVE SeedCounts'
    BY <1>12, <1>k, FinishEffect DEF LeavesPage
  <1>13. ASSUME NEW w \in Seeders, FailRun(w) PROVE SeedCounts'
    BY <1>13, <1>k, FailRunEffect DEF LeavesPage
  <1>14. ASSUME NEW w \in Seeders, SeederDies(w) PROVE SeedCounts'
    BY <1>14, <1>k, DeathEffect DEF RowsKept, LeavesPage
  <1>15. ASSUME UNCHANGED <<seedRun, seedItems, seeders, overtaken>> PROVE SeedCounts'
    <2>1. InHand' \subseteq InHand
      BY <1>15 DEF InHand
    <2>. QED
      BY <1>0, <1>15, <2>1, CountsKept
  <1>. QED
    BY SeedingSteps, <1>1, <1>2, <1>3, <1>4, <1>5, <1>6, <1>7, <1>8, <1>9, <1>10, <1>11,
       <1>12, <1>13, <1>14, <1>15 DEF AddedElsewhere, MergedAway, seedVars

\* Rollbacks, failed items, deaths, repeated and overlapping calls never make the
\* totals of a run disagree with its items (SeedService.process_page), as long as
\* no worker has written over what another one counted since it read the run: an
\* item is counted in the transaction that completes it, or as seen in the one
\* that stores its record before.
THEOREM TotalsMatch == SeedingSpec => []SeedTotalsMatch
  <1>1. ASSUME SeedingInit PROVE SeedCounts
    <2>1. Done = {} /\ Spoilt = {} /\ Counts = {}
      BY <1>1 DEF SeedingInit, Done, Spoilt, Counts, InHand, WithStatus, Idle
    <2>2. IsFiniteSet({}) /\ Cardinality({}) = 0
      BY FS_EmptySet
    <2>. QED
      BY <1>1, <2>1, <2>2 DEF SeedingInit, SeedCounts, FiniteItems, NoTotals
  <1>2. ASSUME SeedingTypeOK, SeedCounts PROVE SeedTotalsMatch
    <2>1. Cardinality(Done) <= Cardinality(Counts)
      BY <1>2, FS_Subset DEF SeedCounts, FiniteItems, Counts
    <2>2. /\ Cardinality(Done) \in Nat /\ Cardinality(Counts) \in Nat
          /\ seedRun.totals.seen \in Nat
      BY <1>2, FS_CardinalityType DEF SeedCounts, FiniteItems, SeedingTypeOK, Totals
    <2>. QED
      BY <1>2, <2>1, <2>2 DEF SeedCounts, SeedTotalsMatch, Done, Spoilt
  <1>. QED
    BY <1>1, <1>2, SeedingTypeCorrect, OneItemHolds, SeedCountsStep, PTL DEF SeedingSpec

(***************************************************************************)
(* The page.  An item that was completed or recorded as failed stays one or  *)
(* the other, whoever writes to it.                                          *)
(***************************************************************************)

Settled == Done \cup Spoilt

\* What a worker has worked through of its page, and a failure it need not write.
KeepsPage(w) ==
    /\ OnPage(w) => seeders[w].page \ seeders[w].todo \subseteq Settled
    /\ seeders[w].at = "failed" /\ seeders[w].read /\ seeders[w].was = "FAILED" =>
          seeders[w].item \subseteq Settled

PageKept == finished \subseteq Settled /\ \A w \in Seeders : KeepsPage(w)

LEMMA KeptMoves ==
  ASSUME PageKept, NEW w \in Seeders, MovesSeeder(w), Settled \subseteq Settled',
         finished' \subseteq Settled', KeepsPage(w)'
  PROVE  PageKept'
  BY DEF PageKept, KeepsPage, OnPage, MovesSeeder, OnlySeederMoves

LEMMA PageKeptStep ==
  ASSUME SeedingTypeOK, OneItem, PageKept, [SeedingNext]_seedVars
  PROVE  PageKept'
  <1>0. finished \subseteq Settled /\ \A w \in Seeders : KeepsPage(w)
    BY DEF PageKept
  <1>s. ASSUME UNCHANGED seedItems PROVE Settled' = Settled
    BY <1>s DEF Settled, Done, Spoilt, WithStatus
  <1>l. ASSUME NEW w \in Seeders, MovesSeeder(w), LeavesPage(w), UNCHANGED seedItems,
               finished' \subseteq Settled'
        PROVE  PageKept'
    <2>1. KeepsPage(w)'
      BY <1>l DEF LeavesPage, OffPage, KeepsPage, OnPage
    <2>. QED
      BY <1>l, <1>s, <2>1, KeptMoves
  <1>1. ASSUME NEW w \in Seeders, LookUpRun(w) PROVE PageKept'
    BY <1>0, <1>1, <1>l, <1>s, LookUpEffect DEF RowsKept
  <1>2. ASSUME NEW w \in Seeders, StartRun(w) PROVE PageKept'
    <2>1. ~seeders[w].stored
      BY <1>2 DEF StartRun, OneItem, AtItem
    <2>. QED
      BY <1>0, <1>2, <1>l, <1>s, <2>1, StartEffect
  <1>3. ASSUME NEW w \in Seeders, FetchPage(w) PROVE PageKept'
    <2>1. ~seeders[w].stored
      BY <1>3 DEF FetchPage, OneItem, AtItem
    <2>2. KeepsPage(w)'
      BY <1>3, <2>1, FetchEffect DEF KeepsPage
    <2>. QED
      BY <1>0, <1>3, <1>s, <2>1, <2>2, FetchEffect, KeptMoves DEF RowsKept
  <1>4. ASSUME NEW w \in Seeders, Breaks(w) PROVE PageKept'
    BY <1>0, <1>4, <1>l, <1>s, BreakEffect DEF RowsKept
  <1>5. ASSUME NEW w \in Seeders, LoadTotals(w) PROVE PageKept'
    <2>1. Settled' = Settled /\ MovesSeeder(w) /\ finished' = finished
      BY <1>5, <1>s, LoadEffect DEF RowsKept
    <2>2. GoesWith(w, seeders[w].at)
          /\ (seeders[w].at = "failed" => \E i \in seeders[w].item : seeders'[w].was = seedItems[i])
      BY <1>5, LoadEffect
    <2>3. seeders[w].at = "failed" => \E i \in Results : seeders[w].item = {i}
      BY DEF OneItem, AtItem, OnItem
    <2>4. ASSUME seeders[w].at = "failed", seeders'[w].was = "FAILED"
          PROVE  seeders[w].item \subseteq Settled
      <3>1. PICK i \in Results : seeders[w].item = {i}
        BY <2>3, <2>4
      <3>2. seedItems[i] = "FAILED"
        BY <2>2, <2>4, <3>1
      <3>. QED
        BY <3>1, <3>2 DEF Settled, Spoilt, WithStatus
    <2>5. KeepsPage(w)'
      BY <1>0, <2>1, <2>2, <2>4 DEF KeepsPage, OnPage, GoesWith
    <2>. QED
      BY <1>0, <2>1, <2>5, KeptMoves
  <1>6. ASSUME NEW w \in Seeders, PassOver(w) PROVE PageKept'
    <2>1. Settled' = Settled /\ MovesSeeder(w) /\ finished' = finished
      BY <1>6, <1>s, PassOverEffect DEF RowsKept
    <2>2. PICK i \in Results : /\ seedItems[i] = "COMPLETED"
                               /\ seeders'[w].todo = seeders[w].todo \ {i}
      BY <1>6, PassOverEffect
    <2>3. i \in Settled
      BY <2>2 DEF Settled, Done, WithStatus
    <2>4. /\ seeders[w].at = "next" /\ seeders'[w].at = "next"
          /\ seeders'[w].page = seeders[w].page
      BY <1>6, PassOverEffect
    <2>5. seeders[w].page \ seeders[w].todo \subseteq Settled
      BY <1>0, <2>4 DEF KeepsPage, OnPage
    <2>6. KeepsPage(w)'
      BY <2>1, <2>2, <2>3, <2>4, <2>5 DEF KeepsPage
    <2>. QED
      BY <1>0, <2>1, <2>6, KeptMoves
  <1>7. ASSUME NEW w \in Seeders, NextResult(w) PROVE PageKept'
    <2>1. Settled' = Settled /\ MovesSeeder(w) /\ finished' = finished
      BY <1>7, <1>s, NextResultEffect DEF RowsKept
    <2>2. KeepsPage(w)'
      BY <1>0, <1>7, <2>1, NextResultEffect DEF KeepsPage, OnPage
    <2>. QED
      BY <1>0, <2>1, <2>2, KeptMoves
  <1>8. ASSUME NEW w \in Seeders, Upsert(w) PROVE PageKept'
    <2>1. Settled' = Settled
      <3>1. CASE UNCHANGED seedItems
        BY <1>s, <3>1
      <3>2. ASSUME NEW i \in Results,
                   seedItems' = [seedItems EXCEPT ![i] = IF @ = "absent" THEN "PENDING" ELSE @]
            PROVE  Settled' = Settled
        BY <3>2 DEF SeedingTypeOK, Settled, Done, Spoilt, WithStatus
      <3>. QED
        BY <1>8, <3>1, <3>2, UpsertEffect
    <2>2. /\ MovesSeeder(w) /\ finished' = finished /\ GoesWith(w, "mark")
          /\ seeders[w].at = "upsert"
      BY <1>8, UpsertEffect
    <2>3. KeepsPage(w)'
      BY <1>0, <2>1, <2>2 DEF KeepsPage, OnPage, GoesWith
    <2>. QED
      BY <1>0, <2>1, <2>2, <2>3, KeptMoves
  <1>9. ASSUME NEW w \in Seeders, ItemFails(w) PROVE PageKept'
    <2>1. Settled' = Settled /\ MovesSeeder(w) /\ finished' = finished
      BY <1>9, <1>s, ItemFailsEffect DEF RowsKept
    <2>2. KeepsPage(w)'
      BY <1>0, <1>9, <2>1, ItemFailsEffect DEF KeepsPage, OnPage, GoesWith
    <2>. QED
      BY <1>0, <2>1, <2>2, KeptMoves
  <1>g. ASSUME NEW w \in Seeders, MovesSeeder(w), GoesOn(w), OnPage(w), UNCHANGED finished,
               Settled \subseteq Settled', seeders[w].item \subseteq Settled'
        PROVE  PageKept'
    <2>1. seeders[w].page \ seeders[w].todo \subseteq Settled
      BY <1>0, <1>g DEF KeepsPage
    <2>2. KeepsPage(w)'
      BY <1>g, <2>1 DEF KeepsPage, GoesOn
    <2>. QED
      BY <1>0, <1>g, <2>2, KeptMoves
  <1>10. ASSUME NEW w \in Seeders, MarkCompleted(w) PROVE PageKept'
    <2>1. PICK i \in seeders[w].item \cap Results :
             seedItems' = [seedItems EXCEPT ![i] = "COMPLETED"]
      BY <1>10, MarkEffect
    <2>2. seeders[w].item = {i}
      BY <1>10, <2>1, MarkEffect DEF OneItem, AtItem, OnItem
    <2>3. Settled \subseteq Settled' /\ i \in Settled'
      BY <2>1 DEF SeedingTypeOK, Settled, Done, Spoilt, WithStatus
    <2>. QED
      BY <1>10, <1>g, <2>2, <2>3, MarkEffect DEF OnPage
  <1>11. ASSUME NEW w \in Seeders, RecordFailure(w) PROVE PageKept'
    <2>1. PICK i \in seeders[w].item \cap Results :
             seedItems' = [seedItems EXCEPT
                              ![i] = IF seeders[w].was = "FAILED" THEN @ ELSE "FAILED"]
      BY <1>11, FailureEffect
    <2>2. seeders[w].item = {i} /\ seeders[w].at = "failed" /\ seeders[w].read
      BY <1>11, <2>1, FailureEffect DEF OneItem, AtItem, OnItem
    <2>3. seeders[w].was = "FAILED" => i \in Settled
      BY <1>0, <2>2 DEF KeepsPage
    <2>4. Settled \subseteq Settled' /\ i \in Settled'
      <3>1. CASE seeders[w].was = "FAILED"
        BY <2>1, <2>3, <3>1 DEF SeedingTypeOK, Settled, Done, Spoilt, WithStatus
      <3>2. CASE seeders[w].was # "FAILED"
        BY <2>1, <3>2 DEF SeedingTypeOK, Settled, Done, Spoilt, WithStatus
      <3>. QED
        BY <3>1, <3>2
    <2>. QED
      BY <1>11, <1>g, <2>2, <2>4, FailureEffect DEF OnPage
  <1>12. ASSUME NEW w \in Seeders, FinishRun(w) PROVE PageKept'
    <2>1. seeders[w].page \subseteq Settled
      BY <1>0, <1>12, FinishEffect DEF KeepsPage, OnPage
    <2>. QED
      BY <1>0, <1>12, <1>l, <1>s, <2>1, FinishEffect
  <1>13. ASSUME NEW w \in Seeders, FailRun(w) PROVE PageKept'
    BY <1>0, <1>13, <1>l, <1>s, FailRunEffect
  <1>14. ASSUME NEW w \in Seeders, SeederDies(w) PROVE PageKept'
    BY <1>0, <1>14, <1>l, <1>s, DeathEffect DEF RowsKept
  <1>15. ASSUME UNCHANGED <<seedItems, seeders, finished>> PROVE PageKept'
    BY <1>15, <1>s DEF PageKept, KeepsPage, OnPage
  <1>. QED
    BY SeedingSteps, <1>1, <1>2, <1>3, <1>4, <1>5, <1>6, <1>7, <1>8, <1>9, <1>10, <1>11,
       <1>12, <1>13, <1>14, <1>15 DEF AddedElsewhere, MergedAway, seedVars

\* A page that a worker worked through to its end has each of its results
\* completed or recorded as failed, and it stays so (SeedService.process_page),
\* whatever died, failed, or ran beside it and was retried later.
THEOREM CompletedPagesAreDone == SeedingSpec => []CompletedPageIsDone
  <1>1. SeedingInit => PageKept
    BY DEF SeedingInit, PageKept, KeepsPage, OnPage, Idle
  <1>2. PageKept => CompletedPageIsDone
    BY DEF PageKept, Settled, CompletedPageIsDone, Done, Spoilt
  <1>. QED
    BY <1>1, <1>2, SeedingTypeCorrect, OneItemHolds, PageKeptStep, PTL DEF SeedingSpec

=============================================================================
