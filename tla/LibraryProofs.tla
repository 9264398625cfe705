--------------------------- MODULE LibraryProofs ----------------------------
(***************************************************************************)
(* What users keep: library entries, lists, reviews and their comments.       *)
(***************************************************************************)
EXTENDS Tracking, MediaLists, Discussion, FiniteSetTheorems, SequenceTheorems,
        WellFoundedInduction, TLAPS

-----------------------------------------------------------------------------
(***************************************************************************)
(* Tracking, for any number of overlapping requests.                         *)
(***************************************************************************)

(***************************************************************************)
(* Columns.  What a request writes is a part of a row.                       *)
(***************************************************************************)

LEMMA ColumnsAre == /\ Columns = {"here", "status", "started", "completed"}
                    /\ Dates = {"started", "completed"}
  BY DEF Columns, Dates

LEMMA NoEntryType == NoEntry \in Entries
  BY DEF NoEntry, Entries

LEMMA EntryColumns ==
  ASSUME NEW e \in Entries
  PROVE  /\ e.here \in BOOLEAN /\ e.status \in Statuses \cup {"PLANNED"}
         /\ e.started \in BOOLEAN /\ e.completed \in BOOLEAN
         /\ e.lacking \in SUBSET Dates
  BY DEF Entries

LEMMA WrittenColumns ==
  ASSUME NEW write, NEW row
  PROVE  /\ Written(write, row).here = IF "here" \in DOMAIN write THEN write.here ELSE row.here
         /\ Written(write, row).status =
               IF "status" \in DOMAIN write THEN write.status ELSE row.status
         /\ Written(write, row).started =
               IF "started" \in DOMAIN write THEN write.started ELSE row.started
         /\ Written(write, row).completed =
               IF "completed" \in DOMAIN write THEN write.completed ELSE row.completed
         /\ Written(write, row).lacking \in SUBSET Dates
         /\ \A d \in Dates : d \in Written(write, row).lacking <=>
               IF d \in DOMAIN write THEN ~write[d] ELSE d \in row.lacking
  <1>1. Written(write, row).lacking =
           {d \in Dates : IF d \in DOMAIN write THEN ~write[d] ELSE d \in row.lacking}
    BY DEF Written
  <1>. QED
    BY <1>1 DEF Written

LEMMA RowOf ==
  ASSUME NEW write, NEW row,
         Written(write, row).here \in BOOLEAN,
         Written(write, row).status \in Statuses \cup {"PLANNED"},
         Written(write, row).started \in BOOLEAN, Written(write, row).completed \in BOOLEAN
  PROVE  Written(write, row) \in Entries
  <1>1. Written(write, row).lacking \in SUBSET Dates
    BY WrittenColumns
  <1>2. \E here, status, started, completed, lacking :
           Written(write, row) = [here |-> here, status |-> status, started |-> started,
                                  completed |-> completed, lacking |-> lacking]
    BY DEF Written
  <1>. QED
    BY <1>1, <1>2 DEF Entries

\* What can be written over the empty row can be written over any row.
LEMMA WrittenType ==
  ASSUME NEW write, Written(write, NoEntry) \in Entries, NEW row \in Entries
  PROVE  Written(write, row) \in Entries
  <1>1. /\ Written(write, row).here \in BOOLEAN
        /\ Written(write, row).status \in Statuses \cup {"PLANNED"}
        /\ Written(write, row).started \in BOOLEAN
        /\ Written(write, row).completed \in BOOLEAN
    BY WrittenColumns, EntryColumns
  <1>. QED
    BY <1>1, RowOf

LEMMA ChangesType ==
  ASSUME NEW old \in Entries, NEW new \in Entries
  PROVE  /\ DOMAIN Changes(old, new) \subseteq Columns
         /\ \A name \in DOMAIN Changes(old, new) : /\ old[name] # new[name]
                                                   /\ Changes(old, new)[name] = new[name]
         /\ \A name \in Columns \ DOMAIN Changes(old, new) : old[name] = new[name]
         /\ Written(Changes(old, new), NoEntry) \in Entries
  <1>1. /\ DOMAIN Changes(old, new) = {n \in Columns : old[n] # new[n]}
        /\ \A name \in DOMAIN Changes(old, new) : Changes(old, new)[name] = new[name]
    BY DEF Changes
  <1>2. /\ Written(Changes(old, new), NoEntry).here \in BOOLEAN
        /\ Written(Changes(old, new), NoEntry).status \in Statuses \cup {"PLANNED"}
        /\ Written(Changes(old, new), NoEntry).started \in BOOLEAN
        /\ Written(Changes(old, new), NoEntry).completed \in BOOLEAN
    BY <1>1, WrittenColumns, EntryColumns, NoEntryType
  <1>4. Written(Changes(old, new), NoEntry) \in Entries
    BY <1>2, RowOf
  <1>. QED
    BY <1>1, <1>4

(***************************************************************************)
(* Types.                                                                   *)
(***************************************************************************)

LEMMA EntriesAreRows ==
  ASSUME TrackingTypeOK
  PROVE  /\ Rows = 1 .. Len(entries) /\ Len(entries) \in Nat
         /\ \A row \in Rows : entries[row] \in Entries
  BY LenProperties DEF TrackingTypeOK, Rows

LEMMA AddedType ==
  ASSUME NEW old \in Entries, NEW new, NEW status \in Statuses
  PROVE  Added(old, new, status) \in Entries
  BY DEF Added, Entries

\* Each date that is sent is set or emptied; a date that is needed is put in.
LEMMA UpdatedColumns ==
  ASSUME NEW old \in Entries, NEW status \in Statuses, NEW dates
  PROVE  /\ Updated(old, status, dates) \in Entries
         /\ Updated(old, status, dates).here = old.here
         /\ Updated(old, status, dates).status = status
         /\ Updated(old, status, dates).started <=>
               \/ status # old.status /\ status \in {"IN_PROGRESS", "COMPLETED"} /\ ~old.started
               \/ dates["started"] = "set"
               \/ dates["started"] # "empty" /\ old.started
         /\ Updated(old, status, dates).completed <=>
               \/ status # old.status /\ status = "COMPLETED" /\ ~old.completed
               \/ dates["completed"] = "set"
               \/ dates["completed"] # "empty" /\ old.completed
  BY DEF Updated, Entries

\* A request that begins has a row of the table, or none, and a part of a row.
LEMMA BeginType ==
  ASSUME TrackingTypeOK, NEW c \in LibraryCalls, NEW row \in 0 .. Len(entries),
         NEW old \in Entries, NEW new \in Entries, BeginLibraryCall(c, row, old, new)
  PROVE  TrackingTypeOK'
  <1>1. /\ \A d \in LibraryCalls \ {c} : libraryCalls'[d] = libraryCalls[d]
        /\ libraryCalls'[c] = [busy |-> TRUE, row |-> row, write |-> Changes(old, new)]
        /\ DOMAIN libraryCalls' = LibraryCalls
        /\ entries' = entries
    BY DEF BeginLibraryCall, TrackingTypeOK
  <1>2. ASSUME NEW d \in LibraryCalls
        PROVE  /\ libraryCalls'[d].busy \in BOOLEAN
               /\ libraryCalls'[d].row \in 0 .. Len(entries)
               /\ DOMAIN libraryCalls'[d].write \subseteq Columns
               /\ Written(libraryCalls'[d].write, NoEntry) \in Entries
    <2>1. CASE d = c
      <3>1. /\ libraryCalls'[d].busy = TRUE /\ libraryCalls'[d].row = row
            /\ libraryCalls'[d].write = Changes(old, new)
        BY <1>1, <2>1
      <3>. QED
        BY <3>1, ChangesType
    <2>2. CASE d # c
      BY <1>1, <2>2 DEF TrackingTypeOK
    <2>. QED
      BY <2>1, <2>2
  <1>. QED
    BY <1>1, <1>2 DEF TrackingTypeOK

LEMMA NoLibraryCallType ==
  /\ NoLibraryCall.busy = FALSE /\ NoLibraryCall.row = 0
  /\ DOMAIN NoLibraryCall.write = {}
  /\ Written(NoLibraryCall.write, NoEntry) \in Entries
  <1>1. /\ NoLibraryCall.busy = FALSE /\ NoLibraryCall.row = 0
        /\ DOMAIN NoLibraryCall.write = {}
    BY DEF NoLibraryCall
  <1>. QED
    BY <1>1, WrittenColumns, RowOf, NoEntryType, EntryColumns

\* What a commit leaves in the table.
LEMMA CommitEffect ==
  ASSUME TrackingTypeOK, NEW c \in LibraryCalls, CommitLibraryCall(c)
  PROVE  LET me == libraryCalls[c] IN
         /\ \A d \in LibraryCalls \ {c} : libraryCalls'[d] = libraryCalls[d]
         /\ libraryCalls'[c] = NoLibraryCall /\ DOMAIN libraryCalls' = LibraryCalls
         /\ \/ entries' = entries
            \/ /\ me.row = 0 /\ Len(entries) < MaxEntries
               /\ entries' \in Seq(Entries) /\ Len(entries') = Len(entries) + 1
               /\ \A row \in Rows : entries'[row] = entries[row]
               /\ entries'[Len(entries) + 1] = Written(me.write, NoEntry)
            \/ /\ me.row \in Rows
               /\ entries' \in Seq(Entries) /\ Len(entries') = Len(entries)
               /\ \A row \in Rows \ {me.row} : entries'[row] = entries[row]
               /\ entries'[me.row] = Written(me.write, entries[me.row])
  <1>. DEFINE me == libraryCalls[c]
  <1>0. /\ Rows = 1 .. Len(entries) /\ Len(entries) \in Nat /\ me.row \in 0 .. Len(entries)
        /\ entries \in Seq(Entries)
        /\ \A row \in Rows : entries[row] \in Entries
        /\ Written(me.write, NoEntry) \in Entries
    BY EntriesAreRows DEF TrackingTypeOK
  <1>1. /\ \A d \in LibraryCalls \ {c} : libraryCalls'[d] = libraryCalls[d]
        /\ libraryCalls'[c] = NoLibraryCall /\ DOMAIN libraryCalls' = LibraryCalls
    BY DEF CommitLibraryCall, TrackingTypeOK
  <1>2. /\ me.row = 0 => Len(entries) < MaxEntries
        /\ \/ entries' = entries
           \/ me.row = 0 /\ entries' = Append(entries, Written(me.write, NoEntry))
           \/ /\ me.row # 0
              /\ entries' = [entries EXCEPT ![me.row] = Written(me.write, entries[me.row])]
    BY DEF CommitLibraryCall
  <1>. HIDE DEF me
  <1>3. CASE me.row = 0 /\ entries' = Append(entries, Written(me.write, NoEntry))
    <2>1. /\ entries' \in Seq(Entries) /\ Len(entries') = Len(entries) + 1
          /\ \A row \in 1 .. Len(entries) : entries'[row] = entries[row]
          /\ entries'[Len(entries) + 1] = Written(me.write, NoEntry)
      BY <1>0, <1>3, AppendProperties
    <2>. QED
      BY <1>0, <1>1, <1>2, <1>3, <2>1 DEF me
  <1>4. CASE /\ me.row # 0
             /\ entries' = [entries EXCEPT ![me.row] = Written(me.write, entries[me.row])]
    <2>1. me.row \in Rows
      BY <1>0, <1>4
    <2>2. Written(me.write, entries[me.row]) \in Entries
      BY <1>0, <2>1, WrittenType
    <2>3. entries' \in Seq(Entries) /\ Len(entries') = Len(entries)
      BY <1>0, <1>4, <2>1, <2>2, ExceptSeq
    <2>4. /\ \A row \in Rows \ {me.row} : entries'[row] = entries[row]
          /\ entries'[me.row] = Written(me.write, entries[me.row])
      BY <1>0, <1>4, <2>1 DEF Rows
    <2>. QED
      BY <1>1, <2>1, <2>3, <2>4 DEF me
  <1>. QED
    BY <1>1, <1>2, <1>3, <1>4 DEF me

LEMMA TrackingTypeStep ==
  ASSUME TrackingTypeOK, [TrackingNext]_trackingVars
  PROVE  TrackingTypeOK'
  <1>0. /\ Rows = 1 .. Len(entries) /\ Len(entries) \in Nat
        /\ \A row \in Rows : entries[row] \in Entries /\ row \in 0 .. Len(entries)
        /\ 0 \in 0 .. Len(entries)
        /\ MaxEntries \in Nat
    BY EntriesAreRows, TrackingAssumption
  <1>1. ASSUME NEW c \in LibraryCalls, NEW status \in Statuses, AddToLibrary(c, status)
        PROVE  TrackingTypeOK'
    <2>1. ASSUME NEW row \in Rows,
                 BeginLibraryCall(c, row, entries[row], Added(entries[row], FALSE, status))
          PROVE  TrackingTypeOK'
      BY <1>0, <2>1, AddedType, BeginType
    <2>2. CASE BeginLibraryCall(c, 0, NoEntry, Added(NoEntry, TRUE, status))
      BY <1>0, <2>2, AddedType, NoEntryType, BeginType
    <2>. QED
      BY <1>1, <2>1, <2>2 DEF AddToLibrary
  <1>2. ASSUME NEW c \in LibraryCalls, NEW row \in Rows, NEW status \in Statuses,
               NEW dates \in SendableDates, UpdateEntry(c, row, status, dates)
        PROVE  TrackingTypeOK'
    <2>1. Updated(entries[row], status, dates) \in Entries
      BY <1>0, UpdatedColumns
    <2>. QED
      BY <1>0, <1>2, <2>1, BeginType DEF UpdateEntry
  <1>3. ASSUME NEW c \in LibraryCalls, NEW row \in Rows, RemoveFromLibrary(c, row)
        PROVE  TrackingTypeOK'
    <2>1. [entries[row] EXCEPT !.here = FALSE] \in Entries
      BY <1>0 DEF Entries
    <2>. QED
      BY <1>0, <1>3, <2>1, BeginType DEF RemoveFromLibrary
  <1>4. ASSUME NEW c \in LibraryCalls, CommitLibraryCall(c) PROVE TrackingTypeOK'
    <2>1. /\ entries' \in Seq(Entries) /\ Len(entries') \in Nat
          /\ Len(entries') <= MaxEntries /\ Len(entries) <= Len(entries')
      BY <1>0, <1>4, CommitEffect DEF TrackingTypeOK
    <2>2. ASSUME NEW d \in LibraryCalls
          PROVE  /\ libraryCalls'[d].busy \in BOOLEAN
                 /\ libraryCalls'[d].row \in 0 .. Len(entries')
                 /\ DOMAIN libraryCalls'[d].write \subseteq Columns
                 /\ Written(libraryCalls'[d].write, NoEntry) \in Entries
      <3>1. libraryCalls'[d] = libraryCalls[d] \/ libraryCalls'[d] = NoLibraryCall
        BY <1>4, CommitEffect
      <3>2. libraryCalls[d].row \in 0 .. Len(entries') /\ 0 \in 0 .. Len(entries')
        BY <1>0, <2>1 DEF TrackingTypeOK
      <3>. QED
        BY <3>1, <3>2, NoLibraryCallType DEF TrackingTypeOK
    <2>3. DOMAIN libraryCalls' = LibraryCalls
      BY <1>4, CommitEffect
    <2>. QED
      BY <2>1, <2>2, <2>3 DEF TrackingTypeOK
  <1>5. ASSUME NEW row \in Rows, NEW status \in Statuses, OverwriteByImport(row, status)
        PROVE  TrackingTypeOK'
    <2>. DEFINE lacking == entries[row].lacking \cup {d \in Dates : ~entries[row][d]}
                new == [entries[row] EXCEPT !.status = status, !.lacking = lacking]
    <2>0. lacking \in SUBSET Dates
      BY <1>0, EntryColumns
    <2>2. entries' = [entries EXCEPT ![row] = new] /\ libraryCalls' = libraryCalls
      BY <1>5 DEF OverwriteByImport
    <2>. HIDE DEF lacking
    <2>1. new \in Entries
      BY <1>0, <2>0 DEF Entries
    <2>. HIDE DEF new
    <2>3. entries' \in Seq(Entries) /\ Len(entries') = Len(entries)
      BY <1>0, <2>1, <2>2, ExceptSeq DEF TrackingTypeOK
    <2>. QED
      BY <2>2, <2>3 DEF TrackingTypeOK
  <1>6. CASE UNCHANGED trackingVars
    BY <1>6 DEF trackingVars, TrackingTypeOK
  <1>. QED
    BY <1>1, <1>2, <1>3, <1>4, <1>5, <1>6 DEF TrackingNext

\* The rows and the requests of the library hold what they may hold, and a
\* request writes only columns of a row.
THEOREM TrackingTypeCorrect == TrackingSpec => []TrackingTypeOK
  <1>1. TrackingInit => TrackingTypeOK
    <2>1. ASSUME TrackingInit
          PROVE  /\ entries \in Seq(Entries) /\ Len(entries) = 0
                 /\ DOMAIN libraryCalls = LibraryCalls
                 /\ \A c \in LibraryCalls : libraryCalls[c] = NoLibraryCall
      BY <2>1 DEF TrackingInit
    <2>2. ASSUME TrackingInit, NEW c \in LibraryCalls
          PROVE  /\ libraryCalls[c].busy \in BOOLEAN
                 /\ libraryCalls[c].row \in 0 .. Len(entries)
                 /\ DOMAIN libraryCalls[c].write \subseteq Columns
                 /\ Written(libraryCalls[c].write, NoEntry) \in Entries
      <3>1. libraryCalls[c] = NoLibraryCall /\ Len(entries) = 0 /\ 0 \in 0 .. 0
        BY <2>1, <2>2
      <3>. QED
        BY <3>1, NoLibraryCallType
    <2>. QED
      BY <2>1, <2>2, TrackingAssumption DEF TrackingTypeOK
  <1>. QED
    BY <1>1, TrackingTypeStep, PTL DEF TrackingSpec

(***************************************************************************)
(* The dates.  A date that is accounted for, set or known to be lacking,     *)
(* stays so: what empties it accounts for it.  So a status that needs a date  *)
(* is written with the date, or over a row that has it or is known to lack it. *)
(***************************************************************************)

Accounted(entry, date) == entry[date] \/ date \in entry.lacking

Follows(entry) ==
    /\ entry.status = "IN_PROGRESS" => Accounted(entry, "started")
    /\ entry.status = "COMPLETED" => Accounted(entry, "completed")

DatesSet == \A row \in Rows : Follows(entries[row])

\* What a request is about to write gives a status only with the date it needs.
WritesDates(me) ==
    "status" \in DOMAIN me.write =>
        /\ me.write.status = "IN_PROGRESS" =>
              \/ "started" \in DOMAIN me.write
              \/ me.row # 0 /\ Accounted(entries[me.row], "started")
        /\ me.write.status = "COMPLETED" =>
              \/ "completed" \in DOMAIN me.write
              \/ me.row # 0 /\ Accounted(entries[me.row], "completed")

DatesInv == DatesSet /\ \A c \in LibraryCalls : WritesDates(libraryCalls[c])

\* No date of a row gets lost by the step.
DatesGrow == \A row \in Rows :
                /\ row \in Rows'
                /\ \A d \in Dates : Accounted(entries[row], d) => Accounted(entries'[row], d)

\* A column that is written is accounted for, and one that is not stays so.
LEMMA WrittenAccounts ==
  ASSUME NEW write, NEW row, NEW d \in Dates
  PROVE  /\ d \in DOMAIN write => Accounted(Written(write, row), d)
         /\ Accounted(row, d) => Accounted(Written(write, row), d)
  <1>1. Written(write, row)[d] = IF d \in DOMAIN write THEN write[d] ELSE row[d]
    BY WrittenColumns, ColumnsAre
  <1>2. d \in Written(write, row).lacking <=>
           IF d \in DOMAIN write THEN ~write[d] ELSE d \in row.lacking
    BY WrittenColumns
  <1>. QED
    BY <1>1, <1>2 DEF Accounted

LEMMA WritesDatesKept ==
  ASSUME TrackingTypeOK, DatesGrow, NEW c \in LibraryCalls, WritesDates(libraryCalls[c]),
         libraryCalls'[c] = libraryCalls[c]
  PROVE  WritesDates(libraryCalls[c])'
  <1>1. libraryCalls[c].row # 0 => libraryCalls[c].row \in Rows
    BY EntriesAreRows DEF TrackingTypeOK
  <1>. QED
    BY <1>1, ColumnsAre DEF WritesDates, DatesGrow

\* A request that gives a status only with the date it needs, in what it loaded
\* or in what it writes.
LEMMA DatesOfBegin ==
  ASSUME TrackingTypeOK, DatesInv, NEW c \in LibraryCalls, NEW row \in 0 .. Len(entries),
         NEW old \in Entries, NEW new \in Entries,
         IF row = 0 THEN old = NoEntry ELSE old = entries[row],
         new.status # old.status =>
            /\ new.status = "IN_PROGRESS" => old.started \/ new.started
            /\ new.status = "COMPLETED" => old.completed \/ new.completed,
         BeginLibraryCall(c, row, old, new)
  PROVE  DatesInv'
  <1>1. /\ \A d \in LibraryCalls \ {c} : libraryCalls'[d] = libraryCalls[d]
        /\ libraryCalls'[c] = [busy |-> TRUE, row |-> row, write |-> Changes(old, new)]
        /\ entries' = entries
    BY DEF BeginLibraryCall, TrackingTypeOK
  <1>2. libraryCalls'[c].row = row /\ libraryCalls'[c].write = Changes(old, new)
    BY <1>1
  <1>. DEFINE write == Changes(old, new)
  <1>3. /\ DOMAIN write \subseteq Columns
        /\ \A name \in DOMAIN write : old[name] # new[name] /\ write[name] = new[name]
        /\ \A name \in Columns \ DOMAIN write : old[name] = new[name]
    BY ChangesType
  <1>. HIDE DEF write
  <1>4. /\ "status" \in DOMAIN write => old.status # new.status /\ write.status = new.status
        /\ "started" \notin DOMAIN write => old.started = new.started
        /\ "completed" \notin DOMAIN write => old.completed = new.completed
    BY <1>3, ColumnsAre
  <1>5. /\ old.started \in BOOLEAN /\ new.started \in BOOLEAN
        /\ old.completed \in BOOLEAN /\ new.completed \in BOOLEAN
        /\ row = 0 => ~old.started /\ ~old.completed
        /\ row # 0 => old = entries[row]
    BY EntryColumns DEF NoEntry
  <1>6. WritesDates(libraryCalls[c])'
    <2>1. ASSUME "status" \in DOMAIN write, write.status = "IN_PROGRESS",
                 "started" \notin DOMAIN write
          PROVE  row # 0 /\ Accounted(entries[row], "started")
      BY <1>4, <1>5, <2>1 DEF Accounted
    <2>2. ASSUME "status" \in DOMAIN write, write.status = "COMPLETED",
                 "completed" \notin DOMAIN write
          PROVE  row # 0 /\ Accounted(entries[row], "completed")
      BY <1>4, <1>5, <2>2 DEF Accounted
    <2>3. libraryCalls'[c].row = row /\ libraryCalls'[c].write = write /\ entries' = entries
      BY <1>1, <1>2 DEF write
    <2>. QED
      BY <2>1, <2>2, <2>3 DEF WritesDates
  <1>7. \A d \in LibraryCalls \ {c} : WritesDates(libraryCalls[d])'
    BY <1>1 DEF DatesInv, WritesDates
  <1>8. DatesSet'
    BY <1>1 DEF DatesInv, DatesSet, Rows
  <1>. QED
    BY <1>6, <1>7, <1>8 DEF DatesInv

LEMMA DatesStep ==
  ASSUME TrackingTypeOK, DatesInv, [TrackingNext]_trackingVars
  PROVE  DatesInv'
  <1>0. /\ Rows = 1 .. Len(entries) /\ Len(entries) \in Nat
        /\ \A row \in Rows : entries[row] \in Entries /\ row \in 0 .. Len(entries) /\ row # 0
        /\ 0 \in 0 .. Len(entries)
    BY EntriesAreRows
  <1>1. ASSUME NEW c \in LibraryCalls, NEW status \in Statuses, AddToLibrary(c, status)
        PROVE  DatesInv'
    <2>0. ASSUME NEW old \in Entries, NEW new
          PROVE  /\ Added(old, new, status).status = status
                 /\ status = "IN_PROGRESS" => Added(old, new, status).started
                 /\ status = "COMPLETED" => Added(old, new, status).completed
      BY <2>0 DEF Added, Entries
    <2>1. ASSUME NEW row \in Rows,
                 BeginLibraryCall(c, row, entries[row], Added(entries[row], FALSE, status))
          PROVE  DatesInv'
      BY <1>0, <2>0, <2>1, AddedType, DatesOfBegin
    <2>2. CASE BeginLibraryCall(c, 0, NoEntry, Added(NoEntry, TRUE, status))
      BY <1>0, <2>0, <2>2, AddedType, NoEntryType, DatesOfBegin
    <2>. QED
      BY <1>1, <2>1, <2>2 DEF AddToLibrary
  <1>2. ASSUME NEW c \in LibraryCalls, NEW row \in Rows, NEW status \in Statuses,
               NEW dates \in SendableDates, UpdateEntry(c, row, status, dates)
        PROVE  DatesInv'
    <2>. DEFINE old == entries[row]
                new == Updated(old, status, dates)
    <2>2. old \in Entries /\ old.started \in BOOLEAN /\ old.completed \in BOOLEAN
      BY <1>0, EntryColumns
    <2>3. /\ new \in Entries /\ new.status = status
          /\ status # old.status =>
                /\ status = "IN_PROGRESS" => old.started \/ new.started
                /\ status = "COMPLETED" => old.completed \/ new.completed
      BY <2>2, UpdatedColumns
    <2>4. BeginLibraryCall(c, row, old, new)
      BY <1>2 DEF UpdateEntry
    <2>5. row \in 0 .. Len(entries) /\ row # 0 /\ old = entries[row]
      BY <1>0
    <2>. HIDE DEF old, new
    <2>. QED
      BY <2>2, <2>3, <2>4, <2>5, DatesOfBegin
  <1>3. ASSUME NEW c \in LibraryCalls, NEW row \in Rows, RemoveFromLibrary(c, row)
        PROVE  DatesInv'
    <2>. DEFINE new == [entries[row] EXCEPT !.here = FALSE]
    <2>1. /\ new \in Entries
          /\ new.status = entries[row].status
      BY <1>0 DEF Entries
    <2>2. BeginLibraryCall(c, row, entries[row], new)
      BY <1>3 DEF RemoveFromLibrary
    <2>. HIDE DEF new
    <2>. QED
      BY <1>0, <2>1, <2>2, DatesOfBegin
  <1>4. ASSUME NEW c \in LibraryCalls, CommitLibraryCall(c) PROVE DatesInv'
    <2>. DEFINE me == libraryCalls[c]
    <2>0. WritesDates(me) /\ DatesSet
      BY DEF DatesInv
    <2>1. /\ \A d \in LibraryCalls \ {c} : libraryCalls'[d] = libraryCalls[d]
          /\ libraryCalls'[c] = NoLibraryCall
      BY <1>4, CommitEffect
    <2>2. DatesGrow /\ DatesSet'
      <3>1. CASE entries' = entries
        BY <2>0, <3>1 DEF DatesGrow, DatesSet, Rows
      <3>2. CASE /\ me.row = 0
                 /\ entries' \in Seq(Entries) /\ Len(entries') = Len(entries) + 1
                 /\ \A row \in Rows : entries'[row] = entries[row]
                 /\ entries'[Len(entries) + 1] = Written(me.write, NoEntry)
        <4>1. Rows' = 1 .. Len(entries) + 1
          BY <3>2, LenProperties DEF Rows
        <4>2. Follows(Written(me.write, NoEntry))
          BY <2>0, <3>2, WrittenColumns, WrittenAccounts, ColumnsAre
             DEF WritesDates, Follows, NoEntry
        <4>3. \A row \in Rows' : row \in Rows \/ row = Len(entries) + 1
          BY <1>0, <4>1
        <4>. QED
          BY <1>0, <2>0, <3>2, <4>1, <4>2, <4>3 DEF DatesGrow, DatesSet
      <3>3. CASE /\ me.row \in Rows
                 /\ entries' \in Seq(Entries) /\ Len(entries') = Len(entries)
                 /\ \A row \in Rows \ {me.row} : entries'[row] = entries[row]
                 /\ entries'[me.row] = Written(me.write, entries[me.row])
        <4>1. Rows' = Rows
          BY <1>0, <3>3, LenProperties DEF Rows
        <4>2. \A d \in Dates : Accounted(entries[me.row], d) =>
                                 Accounted(Written(me.write, entries[me.row]), d)
          BY WrittenAccounts
        <4>3. Follows(Written(me.write, entries[me.row]))
          BY <2>0, <3>3, WrittenColumns, WrittenAccounts, ColumnsAre
             DEF WritesDates, Follows, DatesSet
        <4>. QED
          BY <2>0, <3>3, <4>1, <4>2, <4>3 DEF DatesGrow, DatesSet
      <3>. QED
        BY <1>4, <3>1, <3>2, <3>3, CommitEffect
    <2>3. WritesDates(libraryCalls[c])'
      BY <2>1, NoLibraryCallType DEF WritesDates
    <2>4. \A d \in LibraryCalls \ {c} : WritesDates(libraryCalls[d])'
      BY <2>1, <2>2, WritesDatesKept DEF DatesInv
    <2>. QED
      BY <2>2, <2>3, <2>4 DEF DatesInv
  <1>5. ASSUME NEW row \in Rows, NEW status \in Statuses, OverwriteByImport(row, status)
        PROVE  DatesInv'
    <2>1. /\ Rows' = Rows
          /\ \A r \in Rows \ {row} : entries'[r] = entries[r]
          /\ \A d \in Dates : Accounted(entries'[row], d)
      <3>. DEFINE lacking == entries[row].lacking \cup {d \in Dates : ~entries[row][d]}
                  new == [entries[row] EXCEPT !.status = status, !.lacking = lacking]
      <3>1. entries' = [entries EXCEPT ![row] = new]
        BY <1>5 DEF OverwriteByImport
      <3>2. \A d \in Dates : entries[row][d] \/ d \in lacking
        OBVIOUS
      <3>. HIDE DEF lacking
      <3>3. new.started = entries[row].started /\ new.completed = entries[row].completed
            /\ new.lacking = lacking
        BY <1>0 DEF Entries
      <3>. HIDE DEF new
      <3>4. /\ Rows' = Rows /\ entries'[row] = new
            /\ \A q \in Rows \ {row} : entries'[q] = entries[q]
        BY <3>1 DEF Rows
      <3>. QED
        BY <3>2, <3>3, <3>4, ColumnsAre DEF Accounted
    <2>2. DatesGrow /\ DatesSet'
      BY <2>1, ColumnsAre DEF DatesGrow, DatesInv, DatesSet, Follows
    <2>3. \A d \in LibraryCalls : WritesDates(libraryCalls[d])'
      BY <1>5, <2>2, WritesDatesKept DEF OverwriteByImport, DatesInv
    <2>. QED
      BY <2>2, <2>3 DEF DatesInv
  <1>6. CASE UNCHANGED trackingVars
    BY <1>6 DEF trackingVars, DatesInv, DatesSet, WritesDates, Rows
  <1>. QED
    BY <1>1, <1>2, <1>3, <1>4, <1>5, <1>6 DEF TrackingNext

\* LibraryService.add_to_library and update_entry: an entry in progress has a
\* start and a completed one an end, whatever requests changed the row side by
\* side, unless a client emptied the date or an import gave the status without it
\* and nobody has set it since.
THEOREM DatesAlwaysFollow == TrackingSpec => []DatesFollowStatus
  <1>1. TrackingInit => DatesInv
    <2>1. ASSUME TrackingInit
          PROVE  Rows = {} /\ \A c \in LibraryCalls : libraryCalls[c] = NoLibraryCall
      BY <2>1 DEF TrackingInit, Rows
    <2>. QED
      BY <2>1, NoLibraryCallType DEF DatesInv, DatesSet, WritesDates
  <1>2. DatesInv => DatesFollowStatus
    BY DEF DatesInv, DatesSet, Follows, Accounted, DatesFollowStatus
  <1>. QED
    BY <1>1, <1>2, TrackingTypeCorrect, DatesStep, PTL DEF TrackingSpec

-----------------------------------------------------------------------------
(***************************************************************************)
(* The lists of MediaLists keep the order their users gave them.             *)
(***************************************************************************)

-----------------------------------------------------------------------------
(* Greatest elements, ranks and unique indexes.                             *)

\* Of the sets of later elements one is minimal: the greatest has nothing after.
LEMMA FiniteHasGreatest ==
    ASSUME NEW T \in SUBSET Nat, IsFiniteSet(T), T # {}
    PROVE  \E k \in T : \A j \in T : j <= k
<1> DEFINE From(k) == {j \in T : k < j}
           Tails == {From(k) : k \in T}
<1>1. Tails \subseteq FiniteSubsetsOf(T)
  <2> SUFFICES ASSUME NEW k \in T PROVE From(k) \in FiniteSubsetsOf(T)
      OBVIOUS
  <2>1. From(k) \in SUBSET T
      OBVIOUS
  <2>2. IsFiniteSet(From(k))
      BY <2>1, FS_Subset
  <2> QED BY <2>1, <2>2 DEF FiniteSubsetsOf
<1>2. Tails # {}
    OBVIOUS
<1>3. IsWellFoundedOn(StrictSubsetOrdering(T), FiniteSubsetsOf(T))
    BY FS_StrictSubsetOrderingWellFounded
<1>4. \E x \in Tails : \A y \in Tails : ~ (<<y, x>> \in StrictSubsetOrdering(T))
  <2> HIDE DEF Tails
  <2> QED BY <1>1, <1>2, <1>3, WFMin
<1>5. PICK k \in T : \A j \in T : ~ (<<From(j), From(k)>> \in StrictSubsetOrdering(T))
    BY <1>4
<1>6. ASSUME NEW j \in T, k < j PROVE FALSE
  <2>1. From(j) \subseteq From(k)
    <3>1. \A i \in T : j < i => k < i
        BY <1>6
    <3> QED BY <3>1
  <2>2. From(j) # From(k)
      BY <1>6
  <2>3. From(j) \in SUBSET T /\ From(k) \in SUBSET T
      OBVIOUS
  <2>4. <<From(j), From(k)>> \in StrictSubsetOrdering(T)
    <3> HIDE DEF From
    <3> QED BY <2>1, <2>2, <2>3 DEF StrictSubsetOrdering
  <2> QED BY <1>5, <2>4
<1> QED BY <1>6

LEMMA LastIsLast ==
    ASSUME NEW S, NEW order \in Seq(S), NEW m, Occurs(m, order) # {}
    PROVE  /\ Last(m, order) \in Occurs(m, order)
           /\ Last(m, order) \in 1 .. Len(order)
           /\ order[Last(m, order)] = m
           /\ \A j \in Occurs(m, order) : j <= Last(m, order)
<1>1. Occurs(m, order) \in SUBSET (1 .. Len(order)) /\ Len(order) \in Nat
    BY DEF Occurs
<1>2. IsFiniteSet(Occurs(m, order))
  <2>1. IsFiniteSet(1 .. Len(order))
      BY <1>1, FS_Interval
  <2> QED BY <1>1, <2>1, FS_Subset
<1>3. \E k \in Occurs(m, order) : \A j \in Occurs(m, order) : j <= k
    BY <1>1, <1>2, FiniteHasGreatest
<1>4. /\ Last(m, order) \in Occurs(m, order)
      /\ \A j \in Occurs(m, order) : j <= Last(m, order)
    BY <1>3 DEF Last
<1> QED BY <1>1, <1>4 DEF Occurs

\* No two rows share an id, a position or a medium.
RowsApart(rows) ==
    \A r, s \in rows : r.id = s.id \/ r.position = s.position \/ r.media = s.media => r = s

LEMMA PositionsAreFinite ==
    ASSUME NEW rows \in SUBSET Item, IsFiniteSet(rows)
    PROVE  /\ IsFiniteSet(Positions(rows)) /\ IsFiniteSet(MediaOf(rows))
           /\ Cardinality(Positions(rows)) = Cardinality(rows)
                 <=> \A r, s \in rows : r.position = s.position => r = s
           /\ Cardinality(MediaOf(rows)) = Cardinality(rows)
                 <=> \A r, s \in rows : r.media = s.media => r = s
<1> DEFINE f == [r \in rows |-> r.position]
           g == [r \in rows |-> r.media]
<1>1. f \in Surjection(rows, Positions(rows)) /\ g \in Surjection(rows, MediaOf(rows))
    BY DEF Surjection, Positions, MediaOf
<1>2. /\ f \in Injection(rows, Positions(rows))
            <=> \A r, s \in rows : r.position = s.position => r = s
      /\ g \in Injection(rows, MediaOf(rows))
            <=> \A r, s \in rows : r.media = s.media => r = s
    BY <1>1 DEF Injection, Surjection, IsInjective
<1> HIDE DEF f, g
<1> QED BY <1>1, <1>2, FS_Surjection

LEMMA NextPositionIsFree ==
    ASSUME listItems \in SUBSET Item, IsFiniteSet(listItems)
    PROVE  /\ NextPosition \in Nat
           /\ \A r \in listItems : r.position < NextPosition
<1>1. CASE listItems = {}
    BY <1>1 DEF NextPosition
<1>2. CASE listItems # {}
  <2>1. Positions(listItems) \in SUBSET Nat /\ Positions(listItems) # {}
      BY <1>2 DEF Positions, Item
  <2>2. IsFiniteSet(Positions(listItems))
      BY PositionsAreFinite
  <2>3. \E p \in Positions(listItems) : \A q \in Positions(listItems) : q <= p
      BY <2>1, <2>2, FiniteHasGreatest
  <2> DEFINE p == CHOOSE p \in Positions(listItems) : \A q \in Positions(listItems) : q <= p
  <2>4. p \in Positions(listItems) /\ \A q \in Positions(listItems) : q <= p
      BY <2>3
  <2>5. NextPosition = 1 + p
      BY <1>2 DEF NextPosition
  <2>6. \A r \in listItems : r.position \in Positions(listItems)
      BY DEF Positions
  <2> HIDE DEF p
  <2>7. p \in Nat
      BY <2>1, <2>4
  <2>8. ASSUME NEW r \in listItems PROVE r.position < NextPosition
    <3>1. r.position <= p /\ r.position \in Nat
        BY <2>1, <2>4, <2>6
    <3> QED BY <2>5, <2>7, <3>1
  <2> QED BY <2>5, <2>7, <2>8
<1> QED BY <1>1, <1>2

LEMMA RanksFollowPositions ==
    ASSUME NEW rows \in SUBSET Item, IsFiniteSet(rows)
    PROVE  /\ \A r \in rows : Rank(r, rows) \in Nat
           /\ \A r, s \in rows : Before(r, s) => Rank(r, rows) < Rank(s, rows)
           /\ RowsApart(rows) =>
                 /\ \A r, s \in rows : Rank(r, rows) < Rank(s, rows) => Before(r, s)
                 /\ \A r, s \in rows : Rank(r, rows) = Rank(s, rows) => r = s
<1> DEFINE Sooner(r) == {s \in rows : Before(s, r)}
<1>1. \A r \in rows : IsFiniteSet(Sooner(r)) /\ Cardinality(Sooner(r)) \in Nat
                      /\ Rank(r, rows) = Cardinality(Sooner(r))
  <2> TAKE r \in rows
  <2>1. Sooner(r) \in SUBSET rows
      OBVIOUS
  <2>2. IsFiniteSet(Sooner(r))
      BY <2>1, FS_Subset
  <2>3. Rank(r, rows) = Cardinality(Sooner(r))
      BY DEF Rank
  <2> HIDE DEF Sooner
  <2> QED BY <2>2, <2>3, FS_CardinalityType
<1>2. ASSUME NEW r \in rows, NEW s \in rows, Before(r, s) PROVE Rank(r, rows) < Rank(s, rows)
  <2>1. r.position \in Nat /\ s.position \in Nat /\ r.position < s.position
      BY <1>2 DEF Item, Before
  <2>2. \A q \in rows : q.position \in Nat
      BY DEF Item
  <2>3. Sooner(r) \in SUBSET Sooner(s)
    <3>1. \A q \in rows : q.position < r.position => q.position < s.position
        BY <2>1, <2>2
    <3> QED BY <3>1 DEF Before
  <2>4. Sooner(r) # Sooner(s)
      BY <2>1 DEF Before
  <2> HIDE DEF Sooner
  <2>5. Cardinality(Sooner(r)) <= Cardinality(Sooner(s)) /\ Cardinality(Sooner(r)) # Cardinality(Sooner(s))
      BY <1>1, <2>3, <2>4, FS_Subset
  <2> QED BY <1>1, <2>5
<1>3. ASSUME RowsApart(rows), NEW r \in rows, NEW s \in rows
      PROVE  r = s \/ Before(r, s) \/ Before(s, r)
  <2>1. r.position \in Nat /\ s.position \in Nat
      BY DEF Item
  <2> QED BY <1>3, <2>1 DEF RowsApart, Before
<1>4. \A r \in rows : Rank(r, rows) \in Nat
    BY <1>1
<1> QED BY <1>2, <1>3, <1>4

-----------------------------------------------------------------------------
(* Rows that are written.                                                   *)

LEMMA AcceptedRows ==
    ASSUME NEW rows \in SUBSET Item, IsFiniteSet(rows),
           \A r, s \in rows : r.id = s.id => r = s
    PROVE  /\ Fits(rows) <=> RowsApart(rows)
           /\ Accepted(rows) = IF Fits(rows) THEN rows ELSE listItems
BY PositionsAreFinite DEF Accepted, Fits, RowsApart

\* A new list takes its items in the order of the positions sent, ties in the
\* order they were sent in.
LEMMA NewListRows ==
    ASSUME NEW sent \in Seq(Sendable), CreateList(sent)
    PROVE  /\ listItems' \in SUBSET Item /\ IsFiniteSet(listItems') /\ RowsApart(listItems')
           /\ RowIds(listItems') \subseteq 1 .. listRows'
           /\ listRows' \in Nat /\ listRows' <= MaxListRows
           /\ listState = "absent" /\ listState' = "here" /\ UNCHANGED listCalls
<1> DEFINE Sooner(j, k) == \/ sent[j].position < sent[k].position
                           \/ sent[j].position = sent[k].position /\ j < k
           Ahead(k) == {j \in DOMAIN sent : Sooner(j, k)}
           Row(k) == [id |-> k, media |-> sent[k].media, position |-> Cardinality(Ahead(k))]
           rows == {Row(k) : k \in DOMAIN sent}
<1>1. /\ listState = "absent" /\ listState' = "here" /\ UNCHANGED listCalls
      /\ listItems' = rows /\ listRows' = Len(sent) /\ Len(sent) <= MaxListRows
      /\ Cardinality(MediaOf(rows)) = Len(sent)
    BY DEF CreateList
<1>2. Len(sent) \in Nat /\ DOMAIN sent = 1 .. Len(sent)
    OBVIOUS
<1>3. IsFiniteSet(DOMAIN sent) /\ Cardinality(DOMAIN sent) = Len(sent)
    BY <1>2, FS_Interval
<1>4. \A k \in DOMAIN sent : k \in Nat /\ sent[k].media \in ListMedia /\ sent[k].position \in Nat
  <2> TAKE k \in DOMAIN sent
  <2>1. sent[k] \in Sendable
      OBVIOUS
  <2> QED BY <1>2, <2>1 DEF Sendable
<1>5. \A k \in DOMAIN sent : /\ IsFiniteSet(Ahead(k))
                             /\ Cardinality(Ahead(k)) \in Nat
                             /\ \A T \in SUBSET Ahead(k) : Cardinality(T) = Cardinality(Ahead(k)) => T = Ahead(k)
  <2> TAKE k \in DOMAIN sent
  <2>1. Ahead(k) \in SUBSET DOMAIN sent
      OBVIOUS
  <2> HIDE DEF Ahead
  <2>2. IsFiniteSet(Ahead(k))
      BY <1>3, <2>1, FS_Subset
  <2> QED BY <2>2, FS_CardinalityType, FS_Subset
<1>6. \A j, k \in DOMAIN sent : Sooner(j, k) => Cardinality(Ahead(j)) # Cardinality(Ahead(k))
  <2> TAKE j, k \in DOMAIN sent
  <2> HAVE Sooner(j, k)
  <2>1. \A i \in DOMAIN sent : Sooner(i, j) => Sooner(i, k)
      BY <1>4
  <2>2. Ahead(j) \in SUBSET Ahead(k)
      BY <2>1
  <2>3. j \in Ahead(k) /\ j \notin Ahead(j)
      BY <1>4
  <2> HIDE DEF Ahead
  <2> QED BY <1>5, <2>2, <2>3
<1>7. \A j, k \in DOMAIN sent : j = k \/ Sooner(j, k) \/ Sooner(k, j)
    BY <1>4
<1>8. rows \in SUBSET Item
  <2> SUFFICES ASSUME NEW k \in DOMAIN sent PROVE Row(k) \in Item
      OBVIOUS
  <2> HIDE DEF Ahead
  <2> QED BY <1>4, <1>5 DEF Item
<1>9. IsFiniteSet(rows) /\ IsFiniteSet(MediaOf(rows))
  <2> DEFINE f == [k \in DOMAIN sent |-> Row(k)]
  <2>1. f \in Surjection(DOMAIN sent, rows)
      BY DEF Surjection
  <2> HIDE DEF f, rows
  <2> QED BY <1>3, <1>8, <2>1, FS_Surjection, PositionsAreFinite
<1>10. \A j, k \in DOMAIN sent : sent[j].media = sent[k].media => j = k
  <2> DEFINE f == [k \in DOMAIN sent |-> sent[k].media]
  <2>1. f \in Surjection(DOMAIN sent, MediaOf(rows))
    <3>1. \A k \in DOMAIN sent : Row(k) \in rows /\ Row(k).media = sent[k].media
      <4> HIDE DEF Ahead
      <4> QED OBVIOUS
    <3>2. \A r \in rows : \E k \in DOMAIN sent : r = Row(k)
        OBVIOUS
    <3> HIDE DEF rows, Row
    <3>3. \A m \in MediaOf(rows) : \E k \in DOMAIN sent : f[k] = m
        BY <3>1, <3>2 DEF MediaOf
    <3>4. \A k \in DOMAIN sent : sent[k].media \in MediaOf(rows)
        BY <3>1 DEF MediaOf
    <3> QED BY <3>3, <3>4 DEF Surjection
  <2>2. f \in Injection(DOMAIN sent, MediaOf(rows))
    <3> HIDE DEF f, rows
    <3> QED BY <1>1, <1>3, <2>1, FS_Surjection
  <2>3. \A j, k \in DOMAIN sent : f[j] = f[k] => j = k
    <3> HIDE DEF rows
    <3> QED BY <2>2 DEF Injection, IsInjective
  <2> QED BY <2>3
<1>11. RowsApart(rows)
  <2> SUFFICES ASSUME NEW j \in DOMAIN sent, NEW k \in DOMAIN sent,
                      \/ Row(j).id = Row(k).id \/ Row(j).position = Row(k).position
                      \/ Row(j).media = Row(k).media
               PROVE  j = k
    <3>1. \A r \in rows : \E k \in DOMAIN sent : r = Row(k)
        OBVIOUS
    <3> HIDE DEF rows, Row
    <3> QED BY <3>1 DEF RowsApart
  <2> HIDE DEF Ahead, rows
  <2>1. CASE Row(j).id = Row(k).id
      BY <2>1
  <2>2. CASE Row(j).position = Row(k).position
      BY <1>6, <1>7, <2>2
  <2>3. CASE Row(j).media = Row(k).media
      BY <1>10, <2>3
  <2> QED BY <2>1, <2>2, <2>3
<1>12. RowIds(rows) \subseteq 1 .. Len(sent)
  <2>1. \A r \in rows : r.id \in DOMAIN sent
    <3> HIDE DEF Ahead
    <3> QED OBVIOUS
  <2> HIDE DEF rows
  <2> QED BY <1>2, <2>1 DEF RowIds
<1> HIDE DEF rows
<1> QED BY <1>1, <1>2, <1>8, <1>9, <1>11, <1>12

\* Rows that are given new positions keep their ids and media.
Placed(rows, at) == {[r EXCEPT !.position = at[r]] : r \in rows}

LEMMA PlacedRows ==
    ASSUME NEW rows \in SUBSET Item, IsFiniteSet(rows), RowsApart(rows), NEW at \in [rows -> Nat]
    PROVE  /\ Placed(rows, at) \in SUBSET Item /\ IsFiniteSet(Placed(rows, at))
           /\ \A w \in Placed(rows, at) : \E r \in rows :
                 w.id = r.id /\ w.media = r.media /\ w.position = at[r]
           /\ RowIds(Placed(rows, at)) = RowIds(rows)
           /\ \A v, w \in Placed(rows, at) : v.id = w.id \/ v.media = w.media => v = w
<1> DEFINE f == [r \in rows |-> [r EXCEPT !.position = at[r]]]
<1>1. \A r \in rows : /\ f[r] \in Item /\ f[r].id = r.id
                      /\ f[r].media = r.media /\ f[r].position = at[r]
    BY DEF Item
<1>2. /\ \A r \in rows : f[r] \in Placed(rows, at)
      /\ \A w \in Placed(rows, at) : \E r \in rows : w = f[r]
    BY DEF Placed
<1>3. f \in Surjection(rows, Placed(rows, at))
    BY <1>2 DEF Surjection
<1> HIDE DEF f
<1>4. IsFiniteSet(Placed(rows, at))
    BY <1>3, FS_Surjection
<1>5. RowIds(Placed(rows, at)) = RowIds(rows)
    BY <1>1, <1>2 DEF RowIds
<1> QED BY <1>1, <1>2, <1>4, <1>5 DEF RowsApart

\* A renumbering changes nothing at all, or it leaves the rows it read at their
\* new positions and the rows inserted since where they are.
LEMMA RewrittenRows ==
    ASSUME listItems \in SUBSET Item, IsFiniteSet(listItems), RowsApart(listItems),
           NEW read \in SUBSET Item, IsFiniteSet(read), RowsApart(read),
           NEW at \in [read -> Nat], NEW gone
    PROVE  LET written == Placed(read, at)
               rows == Left(read, written, gone)
               new == Rewritten(read, written, gone)
           IN  /\ ~ GoesThrough(read, written, gone) => new = listItems
               /\ GoesThrough(read, written, gone) =>
                  /\ RowIds(read) \subseteq RowIds(listItems)
                  /\ new = rows /\ new \in SUBSET Item /\ IsFiniteSet(new) /\ RowsApart(new)
                  /\ RowIds(new) = RowIds(read) \cup (RowIds(listItems) \ gone)
<1> DEFINE written == Placed(read, at)
           rest == {r \in listItems : r.id \notin RowIds(read) \cup gone}
           rows == written \cup rest
<1>1. /\ written \in SUBSET Item /\ IsFiniteSet(written) /\ RowIds(written) = RowIds(read)
      /\ \A v, w \in written : v.id = w.id => v = w
    BY PlacedRows
<1>2. rest \in SUBSET listItems
    OBVIOUS
<1>3. IsFiniteSet(rest)
    BY <1>2, FS_Subset
<1> HIDE DEF written
<1>4. rows \in SUBSET Item /\ IsFiniteSet(rows)
  <2> HIDE DEF rest
  <2> QED BY <1>1, <1>2, <1>3, FS_Union
<1>5. \A r, s \in rows : r.id = s.id => r = s
    BY <1>1 DEF RowsApart, RowIds
<1>6. ASSUME RowIds(read) \subseteq RowIds(listItems)
      PROVE  RowIds(rows) = RowIds(read) \cup (RowIds(listItems) \ gone)
  <2>1. RowIds(rows) = RowIds(written) \cup RowIds(rest)
      BY DEF RowIds
  <2>2. RowIds(rest) = RowIds(listItems) \ (RowIds(read) \cup gone)
      BY DEF RowIds
  <2> QED BY <1>1, <1>6, <2>1, <2>2
<1>0. rows = Left(read, written, gone)
    BY DEF Left
<1> HIDE DEF rows
<1>7. /\ Fits(rows) <=> RowsApart(rows)
      /\ Accepted(rows) = IF Fits(rows) THEN rows ELSE listItems
    BY <1>4, <1>5, AcceptedRows
<1>8. GoesThrough(read, written, gone) <=> RowIds(read) \subseteq RowIds(listItems) /\ Fits(rows)
    BY <1>0 DEF GoesThrough
<1>9. Rewritten(read, written, gone) =
         IF RowIds(read) \subseteq RowIds(listItems) THEN Accepted(rows) ELSE listItems
    BY <1>0 DEF Rewritten
<1>10. ASSUME GoesThrough(read, written, gone)
       PROVE  /\ RowIds(read) \subseteq RowIds(listItems)
              /\ Rewritten(read, written, gone) = rows /\ RowsApart(rows)
              /\ RowIds(rows) = RowIds(read) \cup (RowIds(listItems) \ gone)
    BY <1>6, <1>7, <1>8, <1>9, <1>10
<1>11. ASSUME ~ GoesThrough(read, written, gone)
       PROVE  Rewritten(read, written, gone) = listItems
    BY <1>7, <1>8, <1>9, <1>11
<1> QED BY <1>0, <1>4, <1>10, <1>11 DEF written

LEMMA NormalizedRows ==
    ASSUME NEW rows \in SUBSET Item, IsFiniteSet(rows)
    PROVE  \E at \in [rows -> Nat] :
              /\ Normalized(rows) = Placed(rows, at)
              /\ \A r \in rows : at[r] = Rank(r, rows)
<1> DEFINE at == [r \in rows |-> Rank(r, rows)]
<1>1. at \in [rows -> Nat]
    BY RanksFollowPositions
<1>2. Normalized(rows) = Placed(rows, at)
    BY DEF Normalized, Placed
<1>3. \A r \in rows : at[r] = Rank(r, rows)
    OBVIOUS
<1> QED BY <1>1, <1>2, <1>3

Named(r, order) == Occurs(r.media, order) # {}

LEMMA ReorderedRows ==
    ASSUME NEW rows \in SUBSET Item, IsFiniteSet(rows), RowsApart(rows),
           NEW order, order \in Seq(STRING \cup ListMedia), NEW new \in Reordered(rows, order)
    PROVE  \E at \in [rows -> Nat] :
              /\ new = Placed(rows, at)
              /\ \A r \in rows : Named(r, order) => at[r] = Last(r.media, order) - 1
              /\ \A r \in rows : ~ Named(r, order) => at[r] >= Len(order)
              /\ \A r, s \in rows : at[r] = at[s] => r = s
<1> DEFINE rest == {r \in rows : Occurs(r.media, order) = {}}
           Arrangements == {f \in [rest -> 0 .. Cardinality(rest)] :
                               /\ \A r, s \in rest : f[r] = f[s] => r = s
                               /\ \A r \in rest : f[r] < Cardinality(rest)}
<1>1. PICK f \in Arrangements :
            new = {[r EXCEPT !.position = IF r \in rest THEN Len(order) + f[r]
                                          ELSE Last(r.media, order) - 1] : r \in rows}
    BY DEF Reordered
<1> DEFINE at == [r \in rows |-> IF r \in rest THEN Len(order) + f[r]
                                 ELSE Last(r.media, order) - 1]
<1>2. new = Placed(rows, at)
    BY <1>1 DEF Placed
<1>3. \A r \in rest : f[r] \in Nat
  <2>1. f \in [rest -> 0 .. Cardinality(rest)]
      OBVIOUS
  <2>2. rest \in SUBSET rows
      OBVIOUS
  <2> HIDE DEF rest
  <2>3. Cardinality(rest) \in Nat
      BY <2>2, FS_Subset, FS_CardinalityType
  <2> QED BY <2>1, <2>3
<1>4. \A r, s \in rest : f[r] = f[s] => r = s
    OBVIOUS
<1>5. Len(order) \in Nat
    OBVIOUS
<1>6. \A r \in rows : r \notin rest => /\ Last(r.media, order) \in 1 .. Len(order)
                                       /\ order[Last(r.media, order)] = r.media
    BY LastIsLast
<1>7. \A r \in rows : r \in rest <=> ~ Named(r, order)
    BY DEF Named
<1> HIDE DEF rest, Arrangements
<1>8. \A r \in rows : /\ r \in rest => at[r] = Len(order) + f[r]
                      /\ r \notin rest => at[r] = Last(r.media, order) - 1
    OBVIOUS
<1>9. at \in [rows -> Nat]
    BY <1>3, <1>5, <1>6
<1> HIDE DEF at
<1>10. ASSUME NEW r \in rows, NEW s \in rows, at[r] = at[s] PROVE r = s
  <2>1. CASE r \in rest /\ s \in rest
      BY <1>3, <1>4, <1>5, <1>8, <1>10, <2>1
  <2>2. CASE r \notin rest /\ s \notin rest
    <3>1. Last(r.media, order) = Last(s.media, order)
        BY <1>6, <1>8, <1>10, <2>2
    <3>2. r.media = s.media
        BY <1>6, <2>2, <3>1
    <3> QED BY <3>2 DEF RowsApart
  <2>3. CASE r \in rest /\ s \notin rest
      BY <1>3, <1>5, <1>6, <1>8, <1>10, <2>3
  <2>4. CASE r \notin rest /\ s \in rest
      BY <1>3, <1>5, <1>6, <1>8, <1>10, <2>4
  <2> QED BY <2>1, <2>2, <2>3, <2>4
<1>11. \A r \in rows : ~ Named(r, order) => at[r] >= Len(order)
    BY <1>3, <1>5, <1>7, <1>8
<1>12. \A r \in rows : Named(r, order) => at[r] = Last(r.media, order) - 1
    BY <1>7, <1>8
<1> QED BY <1>2, <1>9, <1>10, <1>11, <1>12

-----------------------------------------------------------------------------
(* The inductive invariant.  What a removal read may be out of date when it   *)
(* commits, but not in its order: of two removals that overlap one saw the    *)
(* row of the other, so whichever commits second either has nothing to        *)
(* renumber that the first has not kept in order, or fails.                   *)

Removing(c) == listCalls[c].op = "remove"
ReadIds(c) == RowIds(listCalls[c].read)

Snapshots ==
    /\ IsFiniteSet(listItems) /\ RowsApart(listItems)
    /\ \A c \in ListCalls : /\ IsFiniteSet(listCalls[c].read)
                            /\ RowsApart(listCalls[c].read)
                            /\ ReadIds(c) \subseteq 1 .. listRows
    /\ listState = "absent" => \A c \in ListCalls : listCalls[c] = NoListCall

\* A row that is being removed is locked: nobody else removes it.
RowsLocked ==
    \A c \in ListCalls : Removing(c) =>
        /\ listCalls[c].row \in RowIds(listItems) \ ReadIds(c)
        /\ \A d \in ListCalls : Removing(d) /\ listCalls[d].row = listCalls[c].row => c = d

Saw(c, d) ==
    /\ listCalls[d].row \in ReadIds(c)
    /\ ReadIds(d) \cap RowIds(listItems) \subseteq ReadIds(c) \cup {listCalls[c].row}

OneSawOther ==
    \A c, d \in ListCalls : Removing(c) /\ Removing(d) /\ c # d => Saw(c, d) \/ Saw(d, c)

\* Rows that were read are still in the order they were read in.
Agrees(read) ==
    \A r, s \in listItems, p, q \in read :
        r.id = p.id /\ s.id = q.id /\ Before(r, s) => Before(p, q)

ReadsAgree ==
    \A c \in ListCalls :
        Removing(c) /\ ~ listCalls[c].overtaken /\ ReadIds(c) \subseteq RowIds(listItems)
            => Agrees(listCalls[c].read)

\* Positions only ever shrink, but for reorders: the one an addition chose stays
\* the last.
PlacesAhead ==
    \A c \in ListCalls : listCalls[c].op = "add" /\ ~ listCalls[c].overtaken =>
        \A r \in listItems : r.id \in ReadIds(c) => r.position < listCalls[c].place

ListTypes == MediaListsTypeOK /\ Snapshots
ListInv == ListTypes /\ RowsLocked /\ OneSawOther /\ ReadsAgree /\ PlacesAhead

LEMMA NoListCallType == /\ NoListCall \in ListCall /\ NoListCall.op = "idle"
                        /\ NoListCall.read = {} /\ ~ NoListCall.overtaken
BY DEF NoListCall, ListCall, Ended

\* What a commit does to the other requests.
OthersGo(c, goes, moves) ==
    \A d \in ListCalls \ {c} :
        /\ listCalls'[d].op = listCalls[d].op /\ listCalls'[d].row = listCalls[d].row
        /\ listCalls'[d].read = listCalls[d].read /\ listCalls'[d].place = listCalls[d].place
        /\ listCalls[d].overtaken => listCalls'[d].overtaken
        /\ goes /\ moves /\ listCalls[d].op \in {"add", "remove"} => listCalls'[d].overtaken

LEMMA CallEnded ==
    ASSUME ListTypes, NEW c \in ListCalls, NEW goes, NEW moves, EndListCall(c, goes, moves)
    PROVE  /\ listCalls' \in [ListCalls -> ListCall]
           /\ listCalls'[c].op = IF goes THEN "idle" ELSE "refused"
           /\ listCalls'[c].read = {}
           /\ OthersGo(c, goes, moves)
<1>1. listCalls \in [ListCalls -> ListCall]
    BY DEF ListTypes, MediaListsTypeOK
<1> DEFINE done == [NoListCall EXCEPT !.op = IF goes THEN "idle" ELSE "refused"]
           late(d) == [listCalls[d] EXCEPT !.overtaken = TRUE]
<1>2. /\ done \in ListCall /\ done.read = {}
      /\ done.op = IF goes THEN "idle" ELSE "refused"
    BY DEF NoListCall, ListCall, Ended
<1>3. \A d \in ListCalls : /\ late(d) \in ListCall /\ late(d).op = listCalls[d].op
                           /\ late(d).row = listCalls[d].row /\ late(d).read = listCalls[d].read
                           /\ late(d).place = listCalls[d].place /\ late(d).overtaken
    BY <1>1 DEF ListCall
<1>4. listCalls' = [d \in ListCalls |->
                      IF d = c THEN done
                      ELSE IF goes /\ moves /\ listCalls[d].op \in {"add", "remove"}
                           THEN late(d) ELSE listCalls[d]]
    BY DEF EndListCall
<1> HIDE DEF done, late
<1> QED BY <1>1, <1>2, <1>3, <1>4 DEF OthersGo

LEMMA CallBegun ==
    ASSUME ListTypes, NEW c \in ListCalls, NEW call \in ListCall, BeginListCall(c, call)
    PROVE  /\ listCalls' \in [ListCalls -> ListCall]
           /\ listCalls'[c] = call /\ listCalls[c].op \in Ended
           /\ \A d \in ListCalls \ {c} : listCalls'[d] = listCalls[d]
           /\ UNCHANGED <<listState, listItems, listRows>> /\ listState = "here"
BY DEF ListTypes, MediaListsTypeOK, BeginListCall

\* A renumbering only moves rows up, and keeps those it read in their order.
LEMMA RanksAreBehind ==
    ASSUME listItems \in SUBSET Item, IsFiniteSet(listItems), RowsApart(listItems),
           NEW read \in SUBSET Item, IsFiniteSet(read), RowsApart(read),
           RowIds(read) \subseteq RowIds(listItems), Agrees(read)
    PROVE  /\ \A r, s \in listItems, p, q \in read :
                 r.id = p.id /\ s.id = q.id => (Before(r, s) <=> Before(p, q))
           /\ \A r \in listItems, p \in read : r.id = p.id => Rank(p, read) <= r.position
<1>1. ASSUME NEW r \in listItems, NEW s \in listItems, NEW p \in read, NEW q \in read,
             r.id = p.id, s.id = q.id
      PROVE  Before(r, s) <=> Before(p, q)
  <2>1. /\ r.position \in Nat /\ s.position \in Nat
        /\ p.position \in Nat /\ q.position \in Nat
      BY DEF Item
  <2>2. Before(r, s) => Before(p, q)
      BY <1>1 DEF Agrees
  <2>3. Before(s, r) => Before(q, p)
      BY <1>1 DEF Agrees
  <2>4. r.position = s.position => p = q
      BY <1>1 DEF RowsApart
  <2> QED BY <2>1, <2>2, <2>3, <2>4 DEF Before
<1>2. ASSUME NEW r \in listItems, NEW p \in read, r.id = p.id
      PROVE  Rank(p, read) <= r.position
  <2> DEFINE sooner == {q \in read : Before(q, p)}
             Now(q) == CHOOSE s \in listItems : s.id = q.id
             f == [q \in sooner |-> Now(q).position]
             slots == 0 .. (r.position - 1)
  <2>1. r.position \in Nat
      BY DEF Item
  <2>2. \A q \in read : Now(q) \in listItems /\ Now(q).id = q.id
      BY DEF RowIds
  <2> HIDE DEF Now
  <2>3. \A q \in sooner : Now(q).position \in Nat /\ Now(q).position < r.position
    <3> TAKE q \in sooner
    <3>1. Before(Now(q), r)
        BY <1>1, <1>2, <2>2
    <3> QED BY <2>1, <2>2, <3>1 DEF Before, Item
  <2>4. f \in [sooner -> slots]
      BY <2>1, <2>3
  <2>5. \A q, s \in sooner : f[q] = f[s] => q = s
      BY <2>2 DEF RowsApart
  <2>6. f \in Injection(sooner, slots)
    <3> HIDE DEF f, sooner, slots
    <3> QED BY <2>4, <2>5 DEF Injection, IsInjective
  <2>7. IsFiniteSet(slots) /\ Cardinality(slots) = r.position
    <3>1. 0 \in Int /\ r.position - 1 \in Int
        BY <2>1
    <3>2. /\ IsFiniteSet(slots)
          /\ Cardinality(slots) = IF 0 > r.position - 1 THEN 0 ELSE r.position - 1 - 0 + 1
        BY <3>1, FS_Interval
    <3> HIDE DEF slots
    <3> QED BY <2>1, <3>2
  <2>8. Cardinality(sooner) <= Cardinality(slots)
    <3> HIDE DEF sooner, slots, f
    <3> QED BY <2>6, <2>7, FS_Injection
  <2>9. Rank(p, read) = Cardinality(sooner)
      BY DEF Rank
  <2> HIDE DEF sooner, slots
  <2> QED BY <2>7, <2>8, <2>9
<1> QED BY <1>1, <1>2

-----------------------------------------------------------------------------
(* Types and snapshots, whatever overlaps.                                  *)

LEMMA TypesParts ==
    ASSUME ListTypes
    PROVE  /\ listItems \in SUBSET Item /\ IsFiniteSet(listItems) /\ RowsApart(listItems)
           /\ RowIds(listItems) \subseteq 1 .. listRows /\ listRows \in Nat
           /\ \A c \in ListCalls :
                 /\ listCalls[c] \in ListCall /\ listCalls[c].read \in SUBSET Item
                 /\ IsFiniteSet(listCalls[c].read) /\ RowsApart(listCalls[c].read)
                 /\ ReadIds(c) \subseteq 1 .. listRows
<1>1. \A c \in ListCalls : listCalls[c] \in ListCall
    BY DEF ListTypes, MediaListsTypeOK
<1>2. \A c \in ListCalls : listCalls[c].read \in SUBSET Item
    BY <1>1 DEF ListCall
<1> QED BY <1>1, <1>2, MediaListsAssumption DEF ListTypes, MediaListsTypeOK, Snapshots

LEMMA ListInitTypes == MediaListsInit => ListTypes
<1> SUFFICES ASSUME MediaListsInit PROVE ListTypes
    OBVIOUS
<1>1. /\ listState = "absent" /\ listItems = {} /\ listRows = 0
      /\ \A c \in ListCalls : listCalls[c] = NoListCall
    BY DEF MediaListsInit
<1>2. /\ NoListCall.op = "idle" /\ NoListCall.read = {}
    BY DEF NoListCall
<1>3. RowsApart({}) /\ RowIds({}) = {} /\ IsFiniteSet({})
    BY FS_EmptySet DEF RowsApart, RowIds
<1>4. MediaListsTypeOK
  <2>1. listCalls \in [ListCalls -> ListCall]
      BY NoListCallType DEF MediaListsInit
  <2> QED BY <1>1, <1>3, <2>1, MediaListsAssumption DEF MediaListsTypeOK
<1>5. Snapshots
    BY <1>1, <1>2, <1>3 DEF Snapshots, ReadIds
<1> QED BY <1>4, <1>5 DEF ListTypes

LEMMA CreateTypes ==
    ASSUME ListTypes, NEW sent \in Seq(Sendable), CreateList(sent)
    PROVE  ListTypes' /\ \A c \in ListCalls : listCalls'[c].op \in Ended
<1>1. /\ listItems' \in SUBSET Item /\ IsFiniteSet(listItems') /\ RowsApart(listItems')
      /\ RowIds(listItems') \subseteq 1 .. listRows'
      /\ listRows' \in Nat /\ listRows' <= MaxListRows
      /\ listState = "absent" /\ listState' = "here" /\ UNCHANGED listCalls
    BY NewListRows
<1>2. \A c \in ListCalls : listCalls'[c] = NoListCall
    BY <1>1 DEF ListTypes, Snapshots
<1>3. MediaListsTypeOK'
    BY <1>1, MediaListsAssumption DEF ListTypes, MediaListsTypeOK
<1>4. /\ NoListCall.op = "idle" /\ NoListCall.read = {}
    BY DEF NoListCall
<1>5. RowsApart({}) /\ RowIds({}) = {} /\ IsFiniteSet({})
    BY FS_EmptySet DEF RowsApart, RowIds
<1>6. Snapshots'
    BY <1>1, <1>2, <1>4, <1>5 DEF Snapshots, ReadIds
<1> QED BY <1>2, <1>3, <1>4, <1>6 DEF ListTypes, Ended

LEMMA BegunTypes ==
    ASSUME ListTypes, NEW c \in ListCalls, NEW call \in ListCall,
           BeginListCall(c, call), call.read \subseteq listItems
    PROVE  ListTypes'
<1>1. /\ listCalls' \in [ListCalls -> ListCall]
      /\ listCalls'[c] = call
      /\ \A d \in ListCalls \ {c} : listCalls'[d] = listCalls[d]
      /\ listState' = listState /\ listItems' = listItems /\ listRows' = listRows
      /\ listState = "here"
    BY CallBegun
<1>2. /\ IsFiniteSet(listItems) /\ RowsApart(listItems)
      /\ RowIds(listItems) \subseteq 1 .. listRows
    BY TypesParts
<1>3. MediaListsTypeOK'
    BY <1>1 DEF ListTypes, MediaListsTypeOK
<1>4. /\ ReadIds(c)' = RowIds(call.read)
      /\ \A d \in ListCalls \ {c} : ReadIds(d)' = ReadIds(d)
    BY <1>1 DEF ReadIds
<1>5. /\ RowIds(call.read) \subseteq RowIds(listItems)
      /\ IsFiniteSet(call.read) /\ RowsApart(call.read)
  <2>1. IsFiniteSet(call.read)
      BY <1>2, FS_Subset
  <2> QED BY <1>2, <2>1 DEF RowIds, RowsApart
<1>6. Snapshots'
  <2>1. \A d \in ListCalls : /\ IsFiniteSet(listCalls'[d].read) /\ RowsApart(listCalls'[d].read)
                             /\ ReadIds(d)' \subseteq 1 .. listRows
      BY <1>1, <1>2, <1>4, <1>5 DEF ListTypes, Snapshots
  <2> QED BY <1>1, <1>2, <2>1 DEF Snapshots
<1> QED BY <1>3, <1>6 DEF ListTypes

LEMMA EndedTypes ==
    ASSUME ListTypes, NEW c \in ListCalls, NEW goes, NEW moves, EndListCall(c, goes, moves),
           listCalls[c].op \notin Ended, listState' = listState,
           listItems' \in SUBSET Item, IsFiniteSet(listItems'), RowsApart(listItems'),
           listRows' \in listRows .. MaxListRows, RowIds(listItems') \subseteq 1 .. listRows'
    PROVE  ListTypes'
<1>1. /\ listCalls' \in [ListCalls -> ListCall] /\ listCalls'[c].read = {}
      /\ \A d \in ListCalls \ {c} : listCalls'[d].read = listCalls[d].read
    BY CallEnded DEF OthersGo
<1>7. listState # "absent"
    BY NoListCallType DEF ListTypes, Snapshots, Ended
<1>2. listRows \in Nat
    BY TypesParts
<1>3. listRows' \in 0 .. MaxListRows /\ 1 .. listRows \subseteq 1 .. listRows'
    BY <1>2, MediaListsAssumption
<1>4. \A d \in ListCalls \ {c} : ReadIds(d)' = ReadIds(d)
    BY <1>1 DEF ReadIds
<1>5. MediaListsTypeOK'
    BY <1>1, <1>3 DEF ListTypes, MediaListsTypeOK
<1>6. Snapshots'
  <2>1. ReadIds(c)' = {} /\ IsFiniteSet({}) /\ RowsApart({})
      BY <1>1, FS_EmptySet DEF ReadIds, RowIds, RowsApart
  <2>2. \A d \in ListCalls : /\ IsFiniteSet(listCalls'[d].read) /\ RowsApart(listCalls'[d].read)
                             /\ ReadIds(d)' \subseteq 1 .. listRows'
      BY <1>1, <1>3, <1>4, <2>1 DEF ListTypes, Snapshots
  <2> QED BY <1>7, <2>2 DEF ListTypes, Snapshots
<1> QED BY <1>5, <1>6 DEF ListTypes

LEMMA AddCall ==
    ASSUME ListTypes, NEW c \in ListCalls, NEW m \in ListMedia, AddItem(c, m)
    PROVE  \E call \in ListCall :
              /\ BeginListCall(c, call) /\ call.op = "add" /\ call.read = listItems
              /\ \A r \in listItems : r.position < call.place
<1> USE DEF Ended
<1> DEFINE call == [NoListCall EXCEPT !.op = "add", !.media = {m},
                                      !.read = listItems, !.place = NextPosition]
<1>1. BeginListCall(c, call)
    BY DEF AddItem
<1>2. listItems \in SUBSET Item /\ IsFiniteSet(listItems)
    BY TypesParts
<1>3. NextPosition \in Nat /\ \A r \in listItems : r.position < NextPosition
    BY <1>2, NextPositionIsFree
<1>4. call \in ListCall /\ call.op = "add" /\ call.read = listItems /\ call.place = NextPosition
    BY <1>2, <1>3 DEF NoListCall, ListCall
<1> HIDE DEF call
<1> QED BY <1>1, <1>3, <1>4

LEMMA RemoveCall ==
    ASSUME ListTypes, NEW c \in ListCalls, NEW r \in listItems, RemoveItem(c, r)
    PROVE  \E call \in ListCall :
              /\ BeginListCall(c, call) /\ call.op = "remove"
              /\ call.row = r.id /\ call.read = listItems \ {r}
              /\ \A d \in ListCalls : Removing(d) => listCalls[d].row # call.row
<1> USE DEF Ended
<1> DEFINE call == [NoListCall EXCEPT !.op = "remove", !.row = r.id, !.read = listItems \ {r}]
<1>1. BeginListCall(c, call)
    BY DEF RemoveItem
<1>2. listItems \in SUBSET Item
    BY TypesParts
<1>3. /\ call \in ListCall /\ call.op = "remove"
      /\ call.read = listItems \ {r} /\ call.row = r.id
    BY <1>2 DEF NoListCall, ListCall, Item
<1>4. \A d \in ListCalls : Removing(d) => listCalls[d].row # r.id
    BY DEF RemoveItem, Removing
<1> HIDE DEF call
<1> QED BY <1>1, <1>3, <1>4

LEMMA ReorderCall ==
    ASSUME ListTypes, NEW c \in ListCalls, NEW order \in Orders, ReorderItems(c, order)
    PROVE  \E call \in ListCall :
              BeginListCall(c, call) /\ call.op = "reorder" /\ call.read = listItems
<1> USE DEF Ended
<1> DEFINE call == [NoListCall EXCEPT !.op = "reorder", !.wanted = order, !.read = listItems]
<1>1. BeginListCall(c, call)
    BY DEF ReorderItems
<1>2. listItems \in SUBSET Item
    BY TypesParts
<1>3. call \in ListCall /\ call.op = "reorder" /\ call.read = listItems
    BY <1>2 DEF NoListCall, ListCall
<1> HIDE DEF call
<1> QED BY <1>1, <1>3

\* What CommitAdd does: nothing to the rows, or one row more, with the next id.
LEMMA AddEffect ==
    ASSUME ListTypes, NEW c \in ListCalls, CommitAdd(c)
    PROVE  /\ listCalls[c].op = "add" /\ listState' = listState
           /\ \E goes : EndListCall(c, goes, FALSE)
           /\ listRows' = listRows + 1 /\ listRows' \in listRows .. MaxListRows
           /\ \/ listItems' = listItems
              \/ \E new \in Item : /\ new.id = listRows + 1 /\ new.position = listCalls[c].place
                                   /\ listItems' = listItems \cup {new} /\ RowsApart(listItems')
<1>1. /\ listItems \in SUBSET Item /\ IsFiniteSet(listItems) /\ RowsApart(listItems)
      /\ RowIds(listItems) \subseteq 1 .. listRows /\ listRows \in Nat
      /\ listCalls[c] \in ListCall
    BY TypesParts
<1>2. PICK m \in listCalls[c].media :
            LET rows == listItems \cup {[id |-> listRows + 1, media |-> m,
                                         position |-> listCalls[c].place]} IN
            listItems' = Accepted(rows) /\ EndListCall(c, Fits(rows), FALSE)
    BY DEF CommitAdd
<1> DEFINE new == [id |-> listRows + 1, media |-> m, position |-> listCalls[c].place]
<1>3. m \in ListMedia /\ listCalls[c].place \in Nat
    BY <1>1 DEF ListCall
<1>4. new \in Item /\ new.id = listRows + 1 /\ new.position = listCalls[c].place
    BY <1>1, <1>3 DEF Item
<1>5. listItems' = Accepted(listItems \cup {new}) /\ EndListCall(c, Fits(listItems \cup {new}), FALSE)
    BY <1>2
<1> HIDE DEF new
<1>6. listItems \cup {new} \in SUBSET Item /\ IsFiniteSet(listItems \cup {new})
    BY <1>1, <1>4, FS_AddElement
<1>7. \A r \in listItems : r.id # new.id
    BY <1>1, <1>4 DEF RowIds
<1>8. \A r, s \in listItems \cup {new} : r.id = s.id => r = s
    BY <1>1, <1>7 DEF RowsApart
<1>9. listItems' = listItems \/ (listItems' = listItems \cup {new} /\ RowsApart(listItems'))
    BY <1>5, <1>6, <1>8, AcceptedRows
<1>10. /\ listCalls[c].op = "add" /\ listState' = listState
       /\ listRows' = listRows + 1 /\ listRows < MaxListRows
    BY DEF CommitAdd
<1>11. \E goes : EndListCall(c, goes, FALSE)
    BY <1>5, Zenon
<1>12. listRows' \in listRows .. MaxListRows
    BY <1>1, <1>10, MediaListsAssumption
<1> QED BY <1>4, <1>9, <1>10, <1>11, <1>12

LEMMA CommitAddTypes == ASSUME ListTypes, NEW c \in ListCalls, CommitAdd(c) PROVE ListTypes'
<1>1. /\ listCalls[c].op = "add" /\ listState' = listState
      /\ \E goes : EndListCall(c, goes, FALSE)
      /\ listRows' = listRows + 1 /\ listRows' \in listRows .. MaxListRows
      /\ \/ listItems' = listItems
         \/ \E new \in Item : /\ new.id = listRows + 1
                              /\ listItems' = listItems \cup {new} /\ RowsApart(listItems')
    BY AddEffect
<1>2. /\ listItems \in SUBSET Item /\ IsFiniteSet(listItems) /\ RowsApart(listItems)
      /\ RowIds(listItems) \subseteq 1 .. listRows /\ listRows \in Nat
    BY TypesParts
<1>3. /\ listItems' \in SUBSET Item /\ IsFiniteSet(listItems') /\ RowsApart(listItems')
      /\ RowIds(listItems') \subseteq RowIds(listItems) \cup {listRows + 1}
    BY <1>1, <1>2, FS_AddElement DEF RowIds
<1>4. RowIds(listItems') \subseteq 1 .. listRows'
    BY <1>1, <1>2, <1>3
<1> QED BY <1>1, <1>3, <1>4, EndedTypes DEF Ended

\* A removal or a reorder that commits gives the rows it read new positions.
LEMMA RewriteTypes ==
    ASSUME ListTypes, NEW c \in ListCalls, listCalls[c].op \notin Ended,
           NEW at \in [listCalls[c].read -> Nat], NEW gone, NEW moves,
           Rewrites(c, Placed(listCalls[c].read, at), gone, moves)
    PROVE  ListTypes'
<1> DEFINE read == listCalls[c].read
<1>1. /\ listItems \in SUBSET Item /\ IsFiniteSet(listItems) /\ RowsApart(listItems)
      /\ RowIds(listItems) \subseteq 1 .. listRows /\ listRows \in Nat
      /\ read \in SUBSET Item /\ IsFiniteSet(read) /\ RowsApart(read)
    BY TypesParts
<1>2. at \in [read -> Nat] /\ listItems' = Rewritten(read, Placed(read, at), gone)
    BY DEF Rewrites
<1>5. /\ EndListCall(c, GoesThrough(read, Placed(read, at), gone), moves)
      /\ UNCHANGED <<listState, listRows>>
    BY DEF Rewrites
<1> HIDE DEF read
<1>3. /\ listItems' \in SUBSET Item /\ IsFiniteSet(listItems') /\ RowsApart(listItems')
      /\ RowIds(listItems') \subseteq RowIds(listItems)
  <2>1. \/ Rewritten(read, Placed(read, at), gone) = listItems
        \/ /\ RowIds(read) \subseteq RowIds(listItems)
           /\ Rewritten(read, Placed(read, at), gone) \in SUBSET Item
           /\ IsFiniteSet(Rewritten(read, Placed(read, at), gone))
           /\ RowsApart(Rewritten(read, Placed(read, at), gone))
           /\ RowIds(Rewritten(read, Placed(read, at), gone))
                 = RowIds(read) \cup (RowIds(listItems) \ gone)
      BY <1>1, <1>2, RewrittenRows
  <2> QED BY <1>1, <1>2, <2>1
<1>4. listRows' \in listRows .. MaxListRows
    BY <1>1, <1>5, MediaListsAssumption DEF ListTypes, MediaListsTypeOK
<1>6. RowIds(listItems') \subseteq 1 .. listRows'
    BY <1>1, <1>3, <1>5
<1> QED BY <1>3, <1>4, <1>5, <1>6, EndedTypes

LEMMA WantedIsOrder ==
    ASSUME ListTypes, NEW c \in ListCalls
    PROVE  listCalls[c].wanted \in Seq(STRING \cup ListMedia)
<1> DEFINE order == listCalls[c].wanted
<1>1. order \in Orders \cup {<<>>}
  <2>1. listCalls[c] \in ListCall
      BY TypesParts
  <2> QED BY <2>1 DEF ListCall
<1> HIDE DEF order
<1>2. order \in Seq(STRING \cup ListMedia)
    BY <1>1, MediaListsAssumption, EmptySeq
<1> QED BY <1>2 DEF order

LEMMA ListTypesStep == ASSUME ListTypes, [MediaListsNext]_listVars PROVE ListTypes'
<1>1. CASE UNCHANGED listVars
    BY <1>1 DEF listVars, ListTypes, MediaListsTypeOK, Snapshots, ReadIds
<1>2. ASSUME NEW first \in Sendable, NEW second \in Sendable,
             CreateList(<<>>) \/ CreateList(<<first>>) \/ CreateList(<<first, second>>)
      PROVE  ListTypes'
  <2>1. <<>> \in Seq(Sendable) /\ <<first>> \in Seq(Sendable) /\ <<first, second>> \in Seq(Sendable)
      BY EmptySeq
  <2> QED BY <1>2, <2>1, CreateTypes
<1>3. CASE DeleteList
    BY <1>3 DEF DeleteList, ListTypes, MediaListsTypeOK, Snapshots, ReadIds
<1>4. ASSUME NEW c \in ListCalls, NEW m \in ListMedia, AddItem(c, m) PROVE ListTypes'
  <2>1. PICK call \in ListCall : BeginListCall(c, call) /\ call.read = listItems
      BY <1>4, AddCall
  <2> QED BY <2>1, BegunTypes
<1>5. ASSUME NEW c \in ListCalls, NEW r \in listItems, RemoveItem(c, r) PROVE ListTypes'
  <2>1. PICK call \in ListCall : BeginListCall(c, call) /\ call.read = listItems \ {r}
      BY <1>5, RemoveCall
  <2>2. call.read \subseteq listItems
      BY <2>1
  <2> QED BY <2>1, <2>2, BegunTypes
<1>6. ASSUME NEW c \in ListCalls, NEW order \in Orders, ReorderItems(c, order) PROVE ListTypes'
  <2>1. PICK call \in ListCall : BeginListCall(c, call) /\ call.read = listItems
      BY <1>6, ReorderCall
  <2> QED BY <2>1, BegunTypes
<1>7. ASSUME NEW c \in ListCalls, CommitAdd(c) PROVE ListTypes'
    BY <1>7, CommitAddTypes
<1>8. ASSUME NEW c \in ListCalls, CommitRemove(c) PROVE ListTypes'
  <2>1. listCalls[c].read \in SUBSET Item /\ IsFiniteSet(listCalls[c].read)
      BY TypesParts
  <2>2. PICK at \in [listCalls[c].read -> Nat] :
                Normalized(listCalls[c].read) = Placed(listCalls[c].read, at)
      BY <2>1, NormalizedRows
  <2>3. /\ Rewrites(c, Placed(listCalls[c].read, at), {listCalls[c].row},
                    listCalls[c].overtaken)
        /\ listCalls[c].op \notin Ended
      BY <1>8, <2>2 DEF CommitRemove, Ended
  <2> QED BY <2>3, RewriteTypes
<1>9. ASSUME NEW c \in ListCalls, CommitReorder(c) PROVE ListTypes'
  <2>1. /\ listCalls[c].read \in SUBSET Item /\ IsFiniteSet(listCalls[c].read)
        /\ RowsApart(listCalls[c].read)
      BY TypesParts
  <2>2. PICK rows \in Reordered(listCalls[c].read, listCalls[c].wanted) :
                Rewrites(c, rows, {}, TRUE)
      BY <1>9 DEF CommitReorder
  <2>3. PICK at \in [listCalls[c].read -> Nat] : rows = Placed(listCalls[c].read, at)
      BY <2>1, WantedIsOrder, ReorderedRows
  <2>4. listCalls[c].op \notin Ended
      BY <1>9 DEF CommitReorder, Ended
  <2> QED BY <2>2, <2>3, <2>4, RewriteTypes
<1>10. ASSUME NEW c \in ListCalls, Deadlocked(c) PROVE ListTypes'
  <2>1. /\ listCalls[c].op \notin Ended /\ EndListCall(c, FALSE, FALSE)
        /\ UNCHANGED <<listState, listItems, listRows>>
      BY <1>10 DEF Deadlocked, Blocks, Ended
  <2>2. listRows' \in listRows .. MaxListRows
      BY <2>1, TypesParts, MediaListsAssumption DEF ListTypes, MediaListsTypeOK
  <2> QED BY <2>1, <2>2, TypesParts, EndedTypes
<1> QED BY <1>1, <1>2, <1>3, <1>4, <1>5, <1>6, <1>7, <1>8, <1>9, <1>10 DEF MediaListsNext

-----------------------------------------------------------------------------
(* Every action keeps the invariant.                                        *)

LEMMA ListInitInv == MediaListsInit => ListInv
<1> SUFFICES ASSUME MediaListsInit PROVE ListInv
    OBVIOUS
<1>1. \A c \in ListCalls : listCalls[c].op = "idle"
    BY DEF MediaListsInit, NoListCall
<1> QED BY <1>1, ListInitTypes DEF ListInv, RowsLocked, OneSawOther, ReadsAgree, PlacesAhead,
                                   Removing

LEMMA AllIdleInv ==
    ASSUME ListTypes', \A c \in ListCalls : listCalls'[c].op \in Ended PROVE ListInv'
BY DEF ListInv, RowsLocked, OneSawOther, ReadsAgree, PlacesAhead, Removing, Ended

LEMMA BegunKeepsInv ==
    ASSUME ListInv, NEW c \in ListCalls, NEW call \in ListCall,
           BeginListCall(c, call), call.read \subseteq listItems,
           call.op = "add" => \A r \in listItems : r.position < call.place,
           call.op = "remove" =>
               /\ \E r \in listItems : call.row = r.id /\ call.read = listItems \ {r}
               /\ \A d \in ListCalls : Removing(d) => listCalls[d].row # call.row
    PROVE  ListInv'
<1>1. /\ listCalls'[c] = call
      /\ \A d \in ListCalls \ {c} : listCalls'[d] = listCalls[d]
      /\ listState' = listState /\ listItems' = listItems /\ listRows' = listRows
    BY CallBegun DEF ListInv
<1>3. listItems \in SUBSET Item /\ RowsApart(listItems)
    BY TypesParts DEF ListInv
<1>4. /\ ReadIds(c)' = RowIds(call.read)
      /\ \A d \in ListCalls \ {c} : ReadIds(d)' = ReadIds(d)
    BY <1>1 DEF ReadIds
<1>5. ListTypes'
    BY BegunTypes DEF ListInv
<1>6. ASSUME call.op = "remove"
      PROVE  /\ call.row \in RowIds(listItems) \ RowIds(call.read)
             /\ RowIds(listItems) \subseteq RowIds(call.read) \cup {call.row}
    BY <1>3, <1>6 DEF RowIds, RowsApart
<1>7. RowsLocked'
    BY <1>1, <1>4, <1>6 DEF ListInv, RowsLocked, Removing
<1>8. OneSawOther'
  <2> SUFFICES ASSUME NEW d \in ListCalls, NEW e \in ListCalls, Removing(d)', Removing(e)', d # e
               PROVE  Saw(d, e)' \/ Saw(e, d)'
      BY DEF OneSawOther
  <2>1. ASSUME NEW x \in ListCalls \ {c}, Removing(c)', Removing(x)' PROVE Saw(c, x)'
    <3>1. listCalls[x].row \in RowIds(listItems) /\ listCalls[x].row # call.row
        BY <1>1, <2>1 DEF ListInv, RowsLocked, Removing
    <3> QED BY <1>1, <1>4, <1>6, <2>1, <3>1 DEF Saw, Removing
  <2>2. CASE d # c /\ e # c
      BY <1>1, <1>4, <2>2 DEF ListInv, OneSawOther, Saw, Removing
  <2> QED BY <2>1, <2>2
<1>9. ReadsAgree'
  <2>1. Agrees(call.read)
      BY <1>3 DEF Agrees, RowsApart
  <2>2. \A d \in ListCalls \ {c} : Agrees(listCalls[d].read)' <=> Agrees(listCalls[d].read)
      BY <1>1 DEF Agrees
  <2>3. Agrees(listCalls[c].read)' <=> Agrees(call.read)
      BY <1>1 DEF Agrees
  <2> QED BY <1>1, <1>4, <2>1, <2>2, <2>3 DEF ListInv, ReadsAgree, Removing
<1>10. PlacesAhead'
    BY <1>1, <1>4 DEF ListInv, PlacesAhead
<1> QED BY <1>5, <1>7, <1>8, <1>9, <1>10 DEF ListInv

\* What the other requests read and remove is what it was.
LEMMA OthersKept ==
    ASSUME NEW c \in ListCalls, NEW goes, NEW moves, OthersGo(c, goes, moves),
           listCalls'[c].op \in Ended
    PROVE  /\ ~ Removing(c)' /\ listCalls'[c].op # "add"
           /\ \A d \in ListCalls \ {c} : ReadIds(d)' = ReadIds(d) /\ (Removing(d)' <=> Removing(d))
BY DEF OthersGo, ReadIds, Removing, Ended

\* A commit that changes no row.
LEMMA RefusedKeepsInv ==
    ASSUME ListInv, ListTypes', NEW c \in ListCalls, NEW goes, NEW moves,
           EndListCall(c, goes, moves), listItems' = listItems
    PROVE  ListInv'
<1>1. listCalls'[c].op \in Ended /\ OthersGo(c, goes, moves)
    BY CallEnded DEF ListInv, Ended
<1>2. \A d \in ListCalls \ {c} : /\ ReadIds(d)' = ReadIds(d)
                                 /\ Removing(d)' <=> Removing(d)
    BY <1>1, OthersKept
<1>9. \A d \in ListCalls \ {c} : Agrees(listCalls[d].read)' <=> Agrees(listCalls[d].read)
    BY <1>1 DEF Agrees, OthersGo
<1>3. ~ Removing(c)' /\ listCalls'[c].op # "add"
    BY <1>1, OthersKept
<1>4. RowsLocked'
    BY <1>1, <1>2, <1>3 DEF ListInv, RowsLocked, OthersGo
<1>5. OneSawOther'
    BY <1>1, <1>2, <1>3 DEF ListInv, OneSawOther, Saw, OthersGo
<1>6. ReadsAgree'
    BY <1>1, <1>2, <1>3, <1>9 DEF ListInv, ReadsAgree, OthersGo
<1>7. PlacesAhead'
    BY <1>1, <1>2, <1>3 DEF ListInv, PlacesAhead, OthersGo
<1> QED BY <1>4, <1>5, <1>6, <1>7 DEF ListInv

LEMMA CommitAddKeepsInv ==
    ASSUME ListInv, NEW c \in ListCalls, CommitAdd(c)
    PROVE  ListInv'
<1>1. listCalls[c].op = "add" /\ \E goes : EndListCall(c, goes, FALSE)
    BY AddEffect DEF ListInv
<1>2. /\ listItems \in SUBSET Item /\ listRows \in Nat
      /\ \A d \in ListCalls : ReadIds(d) \subseteq 1 .. listRows
    BY TypesParts DEF ListInv
<1>3. ListTypes'
    BY CommitAddTypes DEF ListInv
<1>4. CASE listItems' = listItems
  <2>1. PICK goes : EndListCall(c, goes, FALSE)
      BY <1>1
  <2> QED BY <1>3, <1>4, <2>1, RefusedKeepsInv
<1>5. CASE listItems' # listItems
  <2>1. PICK new \in Item : new.id = listRows + 1 /\ listItems' = listItems \cup {new}
      BY <1>5, AddEffect DEF ListInv
  <2>0. PICK goes : EndListCall(c, goes, FALSE)
      BY <1>1
  <2>2. listCalls'[c].op \in Ended /\ OthersGo(c, goes, FALSE)
      BY <2>0, CallEnded DEF ListInv, Ended
  <2>3. RowIds(listItems') = RowIds(listItems) \cup {listRows + 1}
      BY <2>1 DEF RowIds
  <2>4. \A d \in ListCalls : listRows + 1 \notin ReadIds(d)
      BY <1>2
  <2>5. \A d \in ListCalls \ {c} : ReadIds(d)' = ReadIds(d) /\ (Removing(d)' <=> Removing(d))
      BY <2>2, OthersKept
  <2>6. ~ Removing(c)' /\ listCalls'[c].op # "add"
      BY <2>2, OthersKept
  <2>7. RowsLocked'
      BY <2>2, <2>3, <2>5, <2>6 DEF ListInv, RowsLocked, OthersGo
  <2>8. OneSawOther'
      BY <2>2, <2>3, <2>4, <2>5, <2>6 DEF ListInv, OneSawOther, Saw, OthersGo
  <2>9. ReadsAgree'
    <3> SUFFICES ASSUME NEW d \in ListCalls \ {c}, Removing(d), ~ listCalls[d].overtaken,
                        ReadIds(d) \subseteq RowIds(listItems')
                 PROVE  Agrees(listCalls[d].read)'
        BY <2>2, <2>5, <2>6 DEF ReadsAgree, OthersGo
    <3>1. Agrees(listCalls[d].read)
        BY <2>3, <2>4 DEF ListInv, ReadsAgree
    <3>2. \A p \in listCalls[d].read : p.id \in ReadIds(d)
        BY DEF ReadIds, RowIds
    <3> QED BY <2>1, <2>2, <2>4, <3>1, <3>2 DEF Agrees, OthersGo
  <2>10. PlacesAhead'
      BY <2>1, <2>2, <2>4, <2>5, <2>6 DEF ListInv, PlacesAhead, OthersGo
  <2> QED BY <1>3, <2>7, <2>8, <2>9, <2>10 DEF ListInv
<1> QED BY <1>4, <1>5

\* What CommitRemove does: nothing to the rows, or the rows it read are numbered
\* in the order they were read in, and only the removed row is gone.
LEMMA RemoveEffect ==
    ASSUME ListInv, NEW c \in ListCalls, CommitRemove(c)
    PROVE  LET read == listCalls[c].read IN
           /\ Removing(c) /\ UNCHANGED <<listState, listRows>>
           /\ \E goes : /\ EndListCall(c, goes, listCalls[c].overtaken)
                        /\ goes \/ listItems' = listItems
           /\ \/ listItems' = listItems
              \/ /\ ReadIds(c) \subseteq RowIds(listItems)
                 /\ listItems' \in SUBSET Item /\ IsFiniteSet(listItems') /\ RowsApart(listItems')
                 /\ RowIds(listItems') = RowIds(listItems) \ {listCalls[c].row}
                 /\ \A r \in listItems', s \in listItems : r.id = s.id =>
                       \/ r = s /\ r.id \notin ReadIds(c)
                       \/ \E p \in read : p.id = r.id /\ r.position = Rank(p, read)
<1> DEFINE me == listCalls[c]
           read == me.read
<1>1. /\ listItems \in SUBSET Item /\ IsFiniteSet(listItems) /\ RowsApart(listItems)
      /\ read \in SUBSET Item /\ IsFiniteSet(read) /\ RowsApart(read)
    BY TypesParts DEF ListInv
<1>2. /\ Removing(c) /\ UNCHANGED <<listState, listRows>>
      /\ EndListCall(c, GoesThrough(read, Normalized(read), {me.row}), me.overtaken)
      /\ listItems' = Rewritten(read, Normalized(read), {me.row})
    BY DEF CommitRemove, Rewrites, Removing
<1>3. me.row \in RowIds(listItems) \ ReadIds(c)
    BY <1>2 DEF ListInv, RowsLocked
<1>4. ReadIds(c) = RowIds(read)
    BY DEF ReadIds
<1> HIDE DEF read, me
<1>5. PICK at \in [read -> Nat] : /\ Normalized(read) = Placed(read, at)
                                  /\ \A r \in read : at[r] = Rank(r, read)
    BY <1>1, NormalizedRows
<1> DEFINE written == Placed(read, at)
           rows == Left(read, written, {me.row})
           goes == GoesThrough(read, written, {me.row})
<1>6. /\ goes \/ listItems' = listItems
      /\ goes =>
         /\ RowIds(read) \subseteq RowIds(listItems)
         /\ listItems' = rows /\ listItems' \in SUBSET Item /\ IsFiniteSet(listItems')
         /\ RowsApart(listItems')
         /\ RowIds(listItems') = RowIds(read) \cup (RowIds(listItems) \ {me.row})
  <2> DEFINE gone == {me.row}
  <2>1. listItems' = Rewritten(read, written, gone)
      BY <1>2, <1>5
  <2> HIDE DEF gone
  <2>2. LET left == Left(read, written, gone)
            new == Rewritten(read, written, gone)
        IN  /\ ~ GoesThrough(read, written, gone) => new = listItems
            /\ GoesThrough(read, written, gone) =>
               /\ RowIds(read) \subseteq RowIds(listItems)
               /\ new = left /\ new \in SUBSET Item /\ IsFiniteSet(new) /\ RowsApart(new)
               /\ RowIds(new) = RowIds(read) \cup (RowIds(listItems) \ gone)
      BY <1>1, <1>5, RewrittenRows
  <2> HIDE DEF written
  <2> QED BY <2>1, <2>2 DEF gone
<1>7. \A w \in written : \E r \in read : w.id = r.id /\ w.position = Rank(r, read)
    BY <1>1, <1>5, PlacedRows
<1>10. EndListCall(c, goes, me.overtaken)
    BY <1>2, <1>5
<1>11. rows = written \cup {r \in listItems : r.id \notin RowIds(read) \cup {me.row}}
    BY DEF Left
<1> HIDE DEF written, goes, rows
<1>8. ASSUME listItems' # listItems, NEW r \in listItems', NEW s \in listItems, r.id = s.id
      PROVE  \/ r = s /\ r.id \notin ReadIds(c)
             \/ \E p \in read : p.id = r.id /\ r.position = Rank(p, read)
    BY <1>1, <1>4, <1>6, <1>7, <1>8, <1>11 DEF RowsApart
<1>9. listItems' # listItems => RowIds(listItems') = RowIds(listItems) \ {me.row}
    BY <1>3, <1>4, <1>6
<1> QED BY <1>2, <1>4, <1>6, <1>8, <1>9, <1>10 DEF read, me

\* Of two removals that renumber, the second had read only rows the first did.
LEMMA SecondRemovalReadLess ==
    ASSUME ListInv, NEW c \in ListCalls, NEW d \in ListCalls \ {c}, Removing(c), Removing(d),
           ReadIds(d) \subseteq RowIds(listItems) \ {listCalls[c].row}
    PROVE  ReadIds(d) \subseteq ReadIds(c)
<1>1. Saw(c, d) \/ Saw(d, c)
    BY DEF ListInv, OneSawOther
<1> QED BY <1>1 DEF Saw

LEMMA CommitRemoveKeepsInv ==
    ASSUME ListInv, NEW c \in ListCalls, CommitRemove(c)
    PROVE  ListInv'
<1> DEFINE read == listCalls[c].read
           row == listCalls[c].row
<1>1. Removing(c) /\ listState' = listState /\ listRows' = listRows
    BY RemoveEffect
<1>5. PICK goes : EndListCall(c, goes, listCalls[c].overtaken) /\ (goes \/ listItems' = listItems)
    BY RemoveEffect
<1>2. /\ listItems \in SUBSET Item /\ IsFiniteSet(listItems) /\ RowsApart(listItems)
      /\ RowIds(listItems) \subseteq 1 .. listRows /\ listRows \in Nat
      /\ \A d \in ListCalls : ReadIds(d) \subseteq 1 .. listRows
      /\ read \in SUBSET Item /\ IsFiniteSet(read) /\ RowsApart(read)
    BY TypesParts DEF ListInv
<1>0. ListTypes'
  <2>1. [MediaListsNext]_listVars
      BY DEF MediaListsNext
  <2> QED BY <2>1, ListTypesStep DEF ListInv
<1>3. CASE listItems' = listItems
    BY <1>0, <1>5, <1>3, RefusedKeepsInv
<1>4. CASE listItems' # listItems
  <2>1. /\ ReadIds(c) \subseteq RowIds(listItems)
        /\ listItems' \in SUBSET Item /\ IsFiniteSet(listItems') /\ RowsApart(listItems')
        /\ RowIds(listItems') = RowIds(listItems) \ {row}
        /\ \A r \in listItems', s \in listItems : r.id = s.id =>
              \/ r = s /\ r.id \notin ReadIds(c)
              \/ \E p \in read : p.id = r.id /\ r.position = Rank(p, read)
      BY <1>4, RemoveEffect
  <2>2. listCalls'[c].op \in Ended /\ OthersGo(c, TRUE, listCalls[c].overtaken)
    <3>1. listCalls'[c].op \in Ended /\ OthersGo(c, goes, listCalls[c].overtaken)
        BY <1>5, CallEnded DEF ListInv, Ended
    <3> QED BY <1>4, <1>5, <3>1 DEF OthersGo
  <2>4. ~ listCalls[c].overtaken => Agrees(read) /\ RowIds(read) \subseteq RowIds(listItems)
      BY <1>1, <2>1 DEF ListInv, ReadsAgree, ReadIds
  <2>9. listCalls[c].overtaken => \A d \in ListCalls \ {c} :
           listCalls'[d].op \in {"add", "remove"} => listCalls'[d].overtaken
      BY <2>2 DEF OthersGo
  <2> HIDE DEF read
  <2>5. ~ listCalls[c].overtaken =>
        /\ \A r, s \in listItems, p, q \in read :
              r.id = p.id /\ s.id = q.id => (Before(r, s) <=> Before(p, q))
        /\ \A r \in listItems, p \in read : r.id = p.id => Rank(p, read) <= r.position
      BY <1>2, <2>4, RanksAreBehind
  <2>6. /\ \A p \in read : Rank(p, read) \in Nat
        /\ \A p, q \in read : Before(p, q) => Rank(p, read) < Rank(q, read)
        /\ \A p, q \in read : Rank(p, read) < Rank(q, read) => Before(p, q)
      BY <1>2, RanksFollowPositions
  <2>7. \A d \in ListCalls \ {c} : ReadIds(d)' = ReadIds(d) /\ (Removing(d)' <=> Removing(d))
      BY <2>2, OthersKept
  <2>8. ~ Removing(c)' /\ listCalls'[c].op # "add"
      BY <2>2, OthersKept
  <2>11. RowsLocked'
      BY <1>1, <2>1, <2>2, <2>7, <2>8 DEF ListInv, RowsLocked, OthersGo
  <2>12. OneSawOther'
      BY <2>1, <2>2, <2>7, <2>8 DEF ListInv, OneSawOther, Saw, OthersGo
  <2>13. \A r \in listItems' : \E s \in listItems : s.id = r.id
      BY <2>1 DEF RowIds
  <2>14. ReadsAgree'
    <3>0. CASE listCalls[c].overtaken
        BY <2>2, <2>7, <2>8, <2>9, <3>0 DEF ReadsAgree, Removing
    <3> SUFFICES ASSUME NEW d \in ListCalls \ {c}, Removing(d), ~ listCalls[d].overtaken,
                        ~ listCalls[c].overtaken,
                        ReadIds(d) \subseteq RowIds(listItems'),
                        NEW r \in listItems', NEW s \in listItems',
                        NEW p \in listCalls[d].read, NEW q \in listCalls[d].read,
                        r.id = p.id, s.id = q.id, Before(r, s)
                 PROVE  Before(p, q)
        BY <2>2, <2>7, <2>8, <3>0 DEF ReadsAgree, Agrees, OthersGo
    <3>1. ReadIds(d) \subseteq ReadIds(c)
        BY <1>1, <2>1, SecondRemovalReadLess
    <3>2. r.id \in ReadIds(c) /\ s.id \in ReadIds(c)
        BY <3>1 DEF ReadIds, RowIds
    <3>3. PICK r0 \in listItems, s0 \in listItems : r0.id = r.id /\ s0.id = s.id
        BY <2>13
    <3>4. PICK x \in read, y \in read : /\ x.id = r.id /\ r.position = Rank(x, read)
                                        /\ y.id = s.id /\ s.position = Rank(y, read)
        BY <2>1, <3>2, <3>3
    <3>5. Before(x, y)
        BY <2>6, <3>4 DEF Before
    <3>6. Before(r0, s0)
        BY <2>5, <3>3, <3>4, <3>5
    <3>7. Agrees(listCalls[d].read)
        BY <2>1 DEF ListInv, ReadsAgree
    <3> QED BY <3>3, <3>6, <3>7 DEF Agrees
  <2>15. PlacesAhead'
    <3>0. CASE listCalls[c].overtaken
        BY <2>2, <2>7, <2>8, <2>9, <3>0 DEF PlacesAhead
    <3> SUFFICES ASSUME NEW d \in ListCalls \ {c}, listCalls[d].op = "add",
                        ~ listCalls[d].overtaken, ~ listCalls[c].overtaken,
                        NEW r \in listItems', r.id \in ReadIds(d)
                 PROVE  r.position < listCalls[d].place
        BY <2>2, <2>7, <2>8, <3>0 DEF PlacesAhead, OthersGo
    <3>1. PICK s \in listItems : s.id = r.id
        BY <2>13
    <3>2. s.position < listCalls[d].place
        BY <3>1 DEF ListInv, PlacesAhead
    <3>3. r.position <= s.position
        BY <1>2, <2>1, <2>5, <3>1 DEF Item
    <3>4. r.position \in Nat /\ s.position \in Nat /\ listCalls[d].place \in Nat
      <4>1. listCalls[d] \in ListCall
          BY TypesParts DEF ListInv
      <4> QED BY <1>2, <2>1, <4>1 DEF Item, ListCall
    <3> QED BY <3>2, <3>3, <3>4
  <2> QED BY <1>0, <2>11, <2>12, <2>14, <2>15 DEF ListInv
<1> QED BY <1>3, <1>4

\* What CommitReorder does: it is refused, or the ids stay, the items it read
\* that are named take their places, and the others it read follow these.
LEMMA ReorderEffect ==
    ASSUME ListTypes, NEW c \in ListCalls, CommitReorder(c)
    PROVE  LET order == listCalls[c].wanted IN
           /\ listCalls[c].op = "reorder" /\ UNCHANGED <<listState, listRows>>
           /\ \E goes :
                 /\ EndListCall(c, goes, TRUE)
                 /\ ~ goes => listItems' = listItems
                 /\ goes =>
                    /\ listItems' \in SUBSET Item /\ RowIds(listItems') = RowIds(listItems)
                    /\ \A r \in listItems' : r.id \in ReadIds(c) =>
                          /\ Named(r, order) => r.position = Last(r.media, order) - 1
                          /\ ~ Named(r, order) => r.position >= Len(order)
<1> DEFINE order == listCalls[c].wanted
           read == listCalls[c].read
<1>1. /\ listItems \in SUBSET Item /\ IsFiniteSet(listItems) /\ RowsApart(listItems)
      /\ read \in SUBSET Item /\ IsFiniteSet(read) /\ RowsApart(read)
    BY TypesParts
<1>2. order \in Seq(STRING \cup ListMedia)
    BY WantedIsOrder
<1>3. PICK rows \in Reordered(read, order) : Rewrites(c, rows, {}, TRUE)
    BY DEF CommitReorder
<1> DEFINE goes == GoesThrough(read, rows, {})
<1>4. /\ listCalls[c].op = "reorder" /\ UNCHANGED <<listState, listRows>>
      /\ EndListCall(c, goes, TRUE) /\ listItems' = Rewritten(read, rows, {})
      /\ ReadIds(c) = RowIds(read)
    BY <1>3 DEF CommitReorder, Rewrites, ReadIds
<1> HIDE DEF order, read
<1>6. PICK at \in [read -> Nat] :
            /\ rows = Placed(read, at)
            /\ \A r \in read : Named(r, order) => at[r] = Last(r.media, order) - 1
            /\ \A r \in read : ~ Named(r, order) => at[r] >= Len(order)
    BY <1>1, <1>2, ReorderedRows
<1>7. \A w \in rows : \E r \in read : w.media = r.media /\ w.position = at[r]
    BY <1>1, <1>6, PlacedRows
<1>8. /\ ~ goes => listItems' = listItems
      /\ goes => /\ RowIds(read) \subseteq RowIds(listItems)
                 /\ listItems' = Left(read, rows, {}) /\ listItems' \in SUBSET Item
                 /\ RowIds(listItems') = RowIds(read) \cup (RowIds(listItems) \ {})
    BY <1>1, <1>4, <1>6, RewrittenRows
<1>9. ASSUME goes, NEW r \in listItems', r.id \in ReadIds(c)
      PROVE  /\ Named(r, order) => r.position = Last(r.media, order) - 1
             /\ ~ Named(r, order) => r.position >= Len(order)
  <2>1. r \in rows
      BY <1>4, <1>8, <1>9 DEF Left
  <2>2. PICK q \in read : r.media = q.media /\ r.position = at[q]
      BY <1>7, <2>1
  <2>3. Named(r, order) <=> Named(q, order)
      BY <2>2 DEF Named
  <2> QED BY <1>6, <2>2, <2>3
<1>10. goes => RowIds(listItems') = RowIds(listItems)
    BY <1>8
<1> HIDE DEF goes
<1> QED BY <1>4, <1>8, <1>9, <1>10 DEF order

LEMMA CommitReorderKeepsInv ==
    ASSUME ListInv, NEW c \in ListCalls, CommitReorder(c)
    PROVE  ListInv'
<1>1. PICK goes : /\ EndListCall(c, goes, TRUE)
                  /\ ~ goes => listItems' = listItems
                  /\ goes => RowIds(listItems') = RowIds(listItems)
    BY ReorderEffect DEF ListInv
<1>2. ListTypes'
  <2>1. [MediaListsNext]_listVars
      BY DEF MediaListsNext
  <2> QED BY <2>1, ListTypesStep DEF ListInv
<1>3. CASE ~ goes
    BY <1>1, <1>2, <1>3, RefusedKeepsInv
<1>4. CASE goes
  <2>1. listCalls'[c].op \in Ended /\ OthersGo(c, goes, TRUE)
      BY <1>1, CallEnded DEF ListInv, Ended
  <2>2. /\ ~ Removing(c)' /\ listCalls'[c].op # "add"
        /\ \A d \in ListCalls \ {c} : ReadIds(d)' = ReadIds(d) /\ (Removing(d)' <=> Removing(d))
      BY <2>1, OthersKept
  <2>3. RowsLocked'
      BY <1>1, <1>4, <2>1, <2>2 DEF ListInv, RowsLocked, OthersGo
  <2>4. OneSawOther'
      BY <1>1, <1>4, <2>1, <2>2 DEF ListInv, OneSawOther, Saw, OthersGo
  <2>5. \A d \in ListCalls : listCalls'[d].op \in {"add", "remove"} => listCalls'[d].overtaken
      BY <1>4, <2>1, <2>2 DEF OthersGo, Removing
  <2>6. ReadsAgree' /\ PlacesAhead'
      BY <2>5 DEF ReadsAgree, PlacesAhead, Removing
  <2> QED BY <1>2, <2>3, <2>4, <2>6 DEF ListInv
<1> QED BY <1>3, <1>4

LEMMA ListNextInv == ASSUME ListInv, [MediaListsNext]_listVars PROVE ListInv'
<1>0. ListTypes'
    BY ListTypesStep DEF ListInv
<1>1. CASE UNCHANGED <<listItems, listRows, listCalls>>
    BY <1>0, <1>1 DEF ListInv, RowsLocked, OneSawOther, Saw, ReadsAgree, Agrees, PlacesAhead,
                      Removing, ReadIds
<1>2. ASSUME NEW first \in Sendable, NEW second \in Sendable,
             CreateList(<<>>) \/ CreateList(<<first>>) \/ CreateList(<<first, second>>)
      PROVE  ListInv'
  <2>1. <<>> \in Seq(Sendable) /\ <<first>> \in Seq(Sendable) /\ <<first, second>> \in Seq(Sendable)
      BY EmptySeq
  <2>2. \A c \in ListCalls : listCalls'[c].op \in Ended
      BY <1>2, <2>1, CreateTypes DEF ListInv
  <2> QED BY <1>0, <2>2, AllIdleInv
<1>3. CASE UNCHANGED listVars \/ DeleteList
    BY <1>1, <1>3 DEF listVars, DeleteList
<1>4. ASSUME NEW c \in ListCalls, NEW m \in ListMedia, AddItem(c, m) PROVE ListInv'
  <2>1. PICK call \in ListCall :
              /\ BeginListCall(c, call) /\ call.op = "add" /\ call.read = listItems
              /\ \A r \in listItems : r.position < call.place
      BY <1>4, AddCall DEF ListInv
  <2> QED BY <2>1, BegunKeepsInv
<1>5. ASSUME NEW c \in ListCalls, NEW r \in listItems, RemoveItem(c, r) PROVE ListInv'
  <2>1. PICK call \in ListCall :
              /\ BeginListCall(c, call) /\ call.op = "remove"
              /\ call.row = r.id /\ call.read = listItems \ {r}
              /\ \A d \in ListCalls : Removing(d) => listCalls[d].row # call.row
      BY <1>5, RemoveCall DEF ListInv
  <2>2. call.read \subseteq listItems
      BY <2>1
  <2> QED BY <2>1, <2>2, BegunKeepsInv
<1>6. ASSUME NEW c \in ListCalls, NEW order \in Orders, ReorderItems(c, order) PROVE ListInv'
  <2>1. PICK call \in ListCall :
              BeginListCall(c, call) /\ call.op = "reorder" /\ call.read = listItems
      BY <1>6, ReorderCall DEF ListInv
  <2> QED BY <2>1, BegunKeepsInv
<1>7. ASSUME NEW c \in ListCalls, CommitAdd(c) \/ CommitRemove(c) \/ CommitReorder(c)
      PROVE  ListInv'
    BY <1>7, CommitAddKeepsInv, CommitRemoveKeepsInv, CommitReorderKeepsInv
<1>8. ASSUME NEW c \in ListCalls, Deadlocked(c) PROVE ListInv'
  <2>1. EndListCall(c, FALSE, FALSE) /\ listItems' = listItems
      BY <1>8 DEF Deadlocked
  <2> QED BY <1>0, <2>1, RefusedKeepsInv
<1> QED BY <1>2, <1>3, <1>4, <1>5, <1>6, <1>7, <1>8 DEF MediaListsNext

-----------------------------------------------------------------------------
(* The theorems.                                                            *)

LEMMA ListAlwaysInv == MediaListsSpec => []ListInv
<1>1. MediaListsInit => ListInv
    BY ListInitInv
<1>2. ListInv /\ [MediaListsNext]_listVars => ListInv'
    BY ListNextInv
<1> QED BY <1>1, <1>2, PTL DEF MediaListsSpec

\* Only a commit, or a deadlock, ends a request.
LEMMA WhoEnds ==
    ASSUME ListInv, [MediaListsNext]_listVars, NEW c \in ListCalls,
           listCalls[c].op \notin Ended, listCalls'[c].op \in Ended
    PROVE  CommitAdd(c) \/ CommitRemove(c) \/ CommitReorder(c) \/ Deadlocked(c)
<1>1. CASE UNCHANGED listVars
    BY <1>1 DEF listVars
<1>2. ASSUME NEW sent, CreateList(sent) \/ DeleteList PROVE FALSE
    BY <1>2 DEF CreateList, DeleteList
<1>3. ASSUME NEW d \in ListCalls, NEW call \in ListCall, BeginListCall(d, call) PROVE c = d
    BY <1>3, CallBegun DEF ListInv
<1>8. ASSUME NEW d \in ListCalls, NEW call \in ListCall, BeginListCall(d, call) PROVE FALSE
  <2>1. c = d
      BY <1>3, <1>8
  <2> QED BY <1>8, <2>1, CallBegun DEF ListInv
<1>4. ASSUME NEW d \in ListCalls, NEW m \in ListMedia, AddItem(d, m) PROVE FALSE
    BY <1>4, <1>8, AddCall DEF ListInv
<1>5. ASSUME NEW d \in ListCalls, NEW r \in listItems, RemoveItem(d, r) PROVE FALSE
    BY <1>5, <1>8, RemoveCall DEF ListInv
<1>6. ASSUME NEW d \in ListCalls, NEW order \in Orders, ReorderItems(d, order) PROVE FALSE
    BY <1>6, <1>8, ReorderCall DEF ListInv
<1>7. ASSUME NEW d \in ListCalls,
             CommitAdd(d) \/ CommitRemove(d) \/ CommitReorder(d) \/ Deadlocked(d)
      PROVE  d = c
  <2>1. \E goes, moves : EndListCall(d, goes, moves)
      BY <1>7 DEF CommitAdd, CommitRemove, CommitReorder, Rewrites, Deadlocked
  <2> QED BY <2>1, CallEnded DEF ListInv, OthersGo
<1> QED BY <1>1, <1>2, <1>4, <1>5, <1>6, <1>7 DEF MediaListsNext

\* Items that keep their ids are found again by Later.
LEMMA LaterIs ==
    ASSUME NEW r \in listItems, NEW s \in listItems', RowsApart(listItems'), s.id = r.id
    PROVE  Later(r) = s
BY DEF Later, RowsApart

LEMMA AddKeepsOrder ==
    ASSUME ListInv, NEW c \in ListCalls, CommitAdd(c), ~ listCalls[c].overtaken,
           NEW r \in listItems, r.id \in ReadIds(c)
    PROVE  /\ \A s \in listItems : Before(r, s) => Before(Later(r), Later(s))
           /\ \A s \in listItems' : s.id \notin RowIds(listItems) => Before(Later(r), s)
<1>1. /\ listItems \in SUBSET Item /\ RowsApart(listItems)
      /\ \A s \in listItems : s.id \in RowIds(listItems)
    BY TypesParts DEF ListInv, RowIds
<1>2. \/ listItems' = listItems
      \/ \E new \in Item : /\ new.position = listCalls[c].place
                           /\ listItems' = listItems \cup {new} /\ RowsApart(listItems')
    BY AddEffect DEF ListInv
<1>3. RowsApart(listItems') /\ listItems \subseteq listItems'
    BY <1>1, <1>2
<1>4. \A s \in listItems : Later(s) = s
    BY <1>3, LaterIs
<1>5. r.position < listCalls[c].place
  <2>1. listCalls[c].op = "add"
      BY DEF CommitAdd
  <2> QED BY <2>1 DEF ListInv, PlacesAhead
<1> QED BY <1>1, <1>2, <1>4, <1>5 DEF Before

LEMMA RemoveKeepsOrder ==
    ASSUME ListInv, NEW c \in ListCalls, CommitRemove(c), ~ listCalls[c].overtaken,
           NEW r \in listItems, r.id \in ReadIds(c), r.id \in RowIds(listItems'),
           NEW s \in listItems, s.id \in ReadIds(c), s.id \in RowIds(listItems'),
           Before(r, s)
    PROVE  Before(Later(r), Later(s))
<1> DEFINE read == listCalls[c].read
<1>1. /\ listItems \in SUBSET Item /\ IsFiniteSet(listItems) /\ RowsApart(listItems)
      /\ read \in SUBSET Item /\ IsFiniteSet(read) /\ RowsApart(read)
    BY TypesParts DEF ListInv
<1>2. Removing(c)
    BY RemoveEffect
<1>3. CASE listItems' = listItems
  <2>1. Later(r) = r /\ Later(s) = s
      BY <1>1, <1>3, LaterIs
  <2> QED BY <2>1
<1>4. CASE listItems' # listItems
  <2>1. /\ ReadIds(c) \subseteq RowIds(listItems) /\ RowsApart(listItems')
        /\ \A v \in listItems', w \in listItems : v.id = w.id =>
              \/ v = w /\ v.id \notin ReadIds(c)
              \/ \E p \in read : p.id = v.id /\ v.position = Rank(p, read)
      BY <1>4, RemoveEffect
  <2>2. Agrees(read)
      BY <1>2, <2>1 DEF ListInv, ReadsAgree
  <2> HIDE DEF read
  <2>3. PICK v \in listItems', w \in listItems' : v.id = r.id /\ w.id = s.id
      BY DEF RowIds
  <2>4. Later(r) = v /\ Later(s) = w
      BY <2>1, <2>3, LaterIs
  <2>5. PICK p \in read, q \in read : /\ p.id = r.id /\ v.position = Rank(p, read)
                                      /\ q.id = s.id /\ w.position = Rank(q, read)
      BY <2>1, <2>3
  <2>6. Before(p, q)
      BY <2>2, <2>5 DEF Agrees
  <2>7. Rank(p, read) < Rank(q, read)
      BY <1>1, <2>6, RanksFollowPositions
  <2> QED BY <2>4, <2>5, <2>7 DEF Before
<1> QED BY <1>3, <1>4

LEMMA RemoveAddsNothing ==
    ASSUME ListInv, NEW c \in ListCalls, CommitRemove(c), NEW s \in listItems'
    PROVE  s.id \in RowIds(listItems)
<1>1. RowIds(listItems') \subseteq RowIds(listItems)
    BY RemoveEffect
<1> QED BY <1>1 DEF RowIds

\* The rows of a list, its requests and what they read keep their types, for
\* any media, any number of requests and any bound on rows, whatever overlaps
\* (ListService and ListRepository).
THEOREM MediaListsTypeCorrect == MediaListsSpec => []MediaListsTypeOK
<1>1. ListTypes /\ [MediaListsNext]_listVars => ListTypes'
    BY ListTypesStep
<1>2. ListTypes => MediaListsTypeOK
    BY DEF ListTypes
<1> QED BY <1>1, <1>2, ListInitTypes, PTL DEF MediaListsSpec

\* Additions and removals never change the order of the items they found,
\* however many of them overlap, unless a reorder was committed since they read
\* the list (add_list_item and remove_list_item with normalize_positions).
THEOREM OrderIsAlwaysKept == MediaListsSpec => OrderIsKept
<1> DEFINE Kept(c) ==
        LET found == {r \in listItems : r.id \in RowIds(listCalls[c].read) \cap RowIds(listItems')}
            new == {r \in listItems' : r.id \notin RowIds(listItems)} IN
        /\ \A r, s \in found : Before(r, s) => Before(Later(r), Later(s))
        /\ \A r \in found, s \in new : Before(Later(r), s)
<1>1. ASSUME ListInv, [MediaListsNext]_listVars, NEW c \in ListCalls, Rewriting(c)
      PROVE  Kept(c)
  <2>0. /\ listCalls[c].op \in {"add", "remove"} /\ listCalls'[c].op \in Ended
        /\ ~ listCalls[c].overtaken
      BY <1>1 DEF Rewriting
  <2>1. CommitAdd(c) \/ CommitRemove(c) \/ Deadlocked(c)
    <3>1. listCalls[c].op \notin Ended
        BY <2>0 DEF Ended
    <3> QED BY <1>1, <2>0, <3>1, WhoEnds DEF CommitReorder
  <2>4. CASE Deadlocked(c)
    <3>1. listItems' = listItems /\ RowsApart(listItems)
        BY <1>1, <2>4, TypesParts DEF Deadlocked, ListInv
    <3>2. \A r \in listItems : Later(r) = r
        BY <3>1, LaterIs
    <3>3. \A r \in listItems' : r.id \in RowIds(listItems)
        BY <3>1 DEF RowIds
    <3> QED BY <3>2, <3>3
  <2>2. CASE CommitAdd(c)
      BY <1>1, <2>0, <2>2, AddKeepsOrder DEF ReadIds
  <2>3. CASE CommitRemove(c)
      BY <1>1, <2>0, <2>3, RemoveKeepsOrder, RemoveAddsNothing DEF ReadIds
  <2> QED BY <2>1, <2>2, <2>3, <2>4
<1>2. ListInv /\ [MediaListsNext]_listVars
         => [\A c \in ListCalls : Rewriting(c) => Kept(c)]_listVars
    BY <1>1
<1> QED BY <1>2, ListAlwaysInv, PTL DEF MediaListsSpec, OrderIsKept

\* A reorder that is answered with success leaves the items it found in the order
\* of their last mention and those it does not name after them, whatever it names
\* and whatever was committed beside it (reorder_list_items and
\* ListRepository.reorder_items).
THEOREM ReordersAreObeyed == MediaListsSpec => ReorderIsObeyed
<1> DEFINE Obeyed(c) ==
        LET order == listCalls[c].wanted
            IsNamed(r) == Occurs(r.media, order) # {}
            found == {r \in listItems' : r.id \in RowIds(listCalls[c].read)} IN
        \A r, s \in found :
            IsNamed(r) /\ (IsNamed(s) => Last(r.media, order) < Last(s.media, order))
            /\ r # s => Before(r, s)
<1>1. ASSUME ListInv, [MediaListsNext]_listVars, NEW c \in ListCalls, Reordering(c)
      PROVE  Obeyed(c)
  <2> DEFINE order == listCalls[c].wanted
             found == {r \in listItems' : r.id \in ReadIds(c)}
  <2>0. listCalls[c].op = "reorder" /\ listCalls'[c].op = "idle"
      BY <1>1 DEF Reordering
  <2>1. CommitReorder(c)
    <3>1. listCalls[c].op \notin Ended /\ listCalls'[c].op \in Ended
        BY <2>0 DEF Ended
    <3> QED BY <1>1, <2>0, <3>1, WhoEnds DEF CommitAdd, CommitRemove, Deadlocked, Blocks
  <2>2. order \in Seq(STRING \cup ListMedia) /\ ListTypes
      BY <1>1, WantedIsOrder DEF ListInv
  <2>3. /\ listItems' \in SUBSET Item
        /\ \A r \in found :
              /\ Named(r, order) => r.position = Last(r.media, order) - 1
              /\ ~ Named(r, order) => r.position >= Len(order)
    <3>1. PICK goes :
             /\ EndListCall(c, goes, TRUE)
             /\ ~ goes => listItems' = listItems
             /\ goes =>
                /\ listItems' \in SUBSET Item /\ RowIds(listItems') = RowIds(listItems)
                /\ \A r \in listItems' : r.id \in ReadIds(c) =>
                      /\ Named(r, order) => r.position = Last(r.media, order) - 1
                      /\ ~ Named(r, order) => r.position >= Len(order)
        BY <2>1, <2>2, ReorderEffect, Zenon
    <3>2. EndListCall(c, goes, TRUE)
        BY <3>1, Zenon
    <3>3. ListTypes
        BY <1>1 DEF ListInv
    <3>4. ASSUME ~ goes PROVE FALSE
      <4>2. listCalls'[c].op = "refused"
          BY <3>2, <3>4 DEF EndListCall, NoListCall
      <4> QED BY <2>0, <4>2
    <3> QED BY <3>1, <3>4
  <2> HIDE DEF order
  <2>4. \A r \in found : Named(r, order) => Last(r.media, order) \in 1 .. Len(order)
      BY <2>2, LastIsLast DEF Named
  <2>5. Len(order) \in Nat
      BY <2>2
  <2>6. ASSUME NEW r \in found, NEW s \in found, Named(r, order),
               Named(s, order) => Last(r.media, order) < Last(s.media, order)
        PROVE  Before(r, s)
    <3>1. r.position \in Nat /\ s.position \in Nat
        BY <2>3 DEF Item
    <3>2. CASE Named(s, order)
        BY <2>3, <2>4, <2>5, <2>6, <3>1, <3>2 DEF Before
    <3>3. CASE ~ Named(s, order)
        BY <2>3, <2>4, <2>5, <2>6, <3>1, <3>3 DEF Before
    <3> QED BY <3>2, <3>3
  <2> QED BY <2>6 DEF order, Named, ReadIds
<1>2. ListInv /\ [MediaListsNext]_listVars
         => [\A c \in ListCalls : Reordering(c) => Obeyed(c)]_listVars
    BY <1>1
<1> QED BY <1>2, ListAlwaysInv, PTL DEF MediaListsSpec, ReorderIsObeyed

-----------------------------------------------------------------------------
(***************************************************************************)
(* Discussion, for any readers, moderators and number of requests.           *)
(***************************************************************************)

(***************************************************************************)
(* Types.  No count, read or stored, is above the number of comments ever    *)
(* made, and every comment a request carries was made.                       *)
(***************************************************************************)

CountsBounded ==
    /\ review.count <= Len(comments)
    /\ \A c \in TalkCalls : /\ talks[c].count <= Len(comments)
                            /\ talks[c].comment \in 0 .. Len(comments)
                            /\ talks[c].what = "delete" => talks[c].comment # 0

DiscussionTypes == DiscussionTypeOK /\ CountsBounded

LEMMA NoTalkType == NoTalk \in Talk
  BY DiscussionAssumption DEF NoTalk, Talk

\* One request moves and none of the rows changes.
LEMMA TalkTypes ==
  ASSUME DiscussionTypes, NEW c \in TalkCalls, NEW talk \in Talk, Talks(c, talk),
         talk.count <= Len(comments), talk.comment \in 0 .. Len(comments),
         talk.what = "delete" => talk.comment # 0,
         UNCHANGED <<review, fans, comments, missed, unseen>>
  PROVE  DiscussionTypes'
  BY DEF DiscussionTypes, DiscussionTypeOK, CountsBounded, Talks

\* The requests once one of them has ended.
LEMMA TalkEnded ==
  ASSUME DiscussionTypes, NEW c \in TalkCalls, NEW add \in Nat, NEW del \in Nat,
         EndTalk(c, add, del)
  PROVE  /\ talks' \in [TalkCalls -> Talk]
         /\ talks'[c] = NoTalk
         /\ \A d \in TalkCalls \ {c} :
               /\ talks'[d].at = talks[d].at /\ talks'[d].what = talks[d].what
               /\ talks'[d].comment = talks[d].comment /\ talks'[d].found = talks[d].found
               /\ talks'[d].count = talks[d].count
               /\ talks[d].at = "commit" /\ talks[d].found =>
                     talks'[d].adds = talks[d].adds + add /\ talks'[d].dels = talks[d].dels + del
  <1>0. talks \in [TalkCalls -> Talk]
    BY DEF DiscussionTypes, DiscussionTypeOK
  <1>. DEFINE Recounted(d) == [talks[d] EXCEPT !.adds = @ + add, !.dels = @ + del]
  <1>1. ASSUME NEW d \in TalkCalls
        PROVE  /\ Recounted(d) \in Talk
               /\ Recounted(d).at = talks[d].at /\ Recounted(d).what = talks[d].what
               /\ Recounted(d).comment = talks[d].comment /\ Recounted(d).found = talks[d].found
               /\ Recounted(d).count = talks[d].count
               /\ Recounted(d).adds = talks[d].adds + add /\ Recounted(d).dels = talks[d].dels + del
    <2>. DEFINE t == talks[d]
                more == t.adds + add
                fewer == t.dels + del
    <2>1. t \in Talk
      BY <1>0
    <2>2. more \in Nat /\ fewer \in Nat
      BY <2>1 DEF Talk
    <2>3. Recounted(d) = [[t EXCEPT !.adds = more] EXCEPT !.dels = fewer]
      BY <2>1 DEF Talk
    <2>. HIDE DEF t, more, fewer
    <2>4. LET new == [[t EXCEPT !.adds = more] EXCEPT !.dels = fewer]
          IN  /\ new \in Talk
              /\ new.at = t.at /\ new.what = t.what /\ new.comment = t.comment
              /\ new.found = t.found /\ new.count = t.count
              /\ new.adds = more /\ new.dels = fewer
      BY <2>1, <2>2 DEF Talk
    <2>. HIDE DEF Recounted
    <2>. QED
      BY <2>3, <2>4 DEF t, more, fewer
  <1>2. talks' = [d \in TalkCalls |->
                    IF d = c THEN NoTalk
                    ELSE IF talks[d].at = "commit" /\ talks[d].found THEN Recounted(d)
                    ELSE talks[d]]
    BY Zenon DEF EndTalk
  <1>. HIDE DEF Recounted
  <1>. QED
    BY <1>0, <1>1, <1>2, NoTalkType

LEMMA CommentAdded ==
  ASSUME comments \in Seq(Comment), NEW new \in Comment, new.live,
         comments' = Append(comments, new)
  PROVE  /\ comments' \in Seq(Comment) /\ Len(comments') = Len(comments) + 1
         /\ LiveComments' = LiveComments \cup {Len(comments) + 1}
         /\ Len(comments) + 1 \notin LiveComments
  <1>1. /\ comments' \in Seq(Comment) /\ Len(comments') = Len(comments) + 1
        /\ \A k \in 1 .. Len(comments) : comments'[k] = comments[k]
        /\ comments'[Len(comments) + 1] = new
    BY AppendProperties
  <1>2. /\ DOMAIN comments = 1 .. Len(comments) /\ Len(comments) \in Nat
        /\ DOMAIN comments' = 1 .. Len(comments) + 1
    BY <1>1, LenProperties
  <1>3. Len(comments) + 1 \notin LiveComments
    BY <1>2 DEF LiveComments
  <1>4. ASSUME NEW k \in 1 .. Len(comments) + 1
        PROVE  k \in LiveComments' <=> k \in LiveComments \cup {Len(comments) + 1}
    <2>1. CASE k = Len(comments) + 1
      BY <1>1, <1>2, <2>1 DEF LiveComments
    <2>2. CASE k \in 1 .. Len(comments)
      BY <1>1, <1>2, <2>2 DEF LiveComments
    <2>. QED
      BY <1>2, <2>1, <2>2
  <1>5. /\ LiveComments' \subseteq 1 .. Len(comments) + 1
        /\ LiveComments \cup {Len(comments) + 1} \subseteq 1 .. Len(comments) + 1
    BY <1>2 DEF LiveComments
  <1>. QED
    BY <1>1, <1>3, <1>4, <1>5

LEMMA CommentErased ==
  ASSUME comments \in Seq(Comment), NEW k \in DOMAIN comments,
         comments' = [comments EXCEPT ![k].live = FALSE]
  PROVE  /\ comments' \in Seq(Comment) /\ Len(comments') = Len(comments)
         /\ LiveComments' = LiveComments \ {k}
  <1>1. DOMAIN comments = 1 .. Len(comments) /\ comments \in [1 .. Len(comments) -> Comment]
    BY LenProperties
  <1>2. [comments[k] EXCEPT !.live = FALSE] \in Comment
    BY <1>1 DEF Comment
  <1>3. comments' = [comments EXCEPT ![k] = [comments[k] EXCEPT !.live = FALSE]]
    OBVIOUS
  <1>4. comments' \in Seq(Comment) /\ Len(comments') = Len(comments)
    BY <1>2, <1>3, ExceptSeq
  <1>5. \A j \in DOMAIN comments :
           comments'[j].live <=> comments[j].live /\ j # k
    BY <1>1, <1>3 DEF Comment
  <1>. QED
    BY <1>1, <1>4, <1>5, LenProperties DEF LiveComments

LEMMA DiscussionTypeStep ==
  ASSUME DiscussionTypes, [DiscussionNext]_discussionVars
  PROVE  DiscussionTypes'
  <1>0. /\ \A c \in TalkCalls : talks[c] \in Talk
        /\ comments \in Seq(Comment) /\ Len(comments) \in Nat
        /\ review.count \in 0 .. Len(comments)
        /\ MaxComments \in Nat
        /\ DOMAIN comments = 1 .. Len(comments)
    BY LenProperties, DiscussionAssumption DEF DiscussionTypes, DiscussionTypeOK, CountsBounded
  <1>1. ASSUME NEW v \in Visibilities, CreateReview(v) \/ UpdateReview(v)
        PROVE  DiscussionTypes'
    BY <1>1 DEF CreateReview, UpdateReview, DiscussionTypes, DiscussionTypeOK, CountsBounded
  <1>2. CASE DeleteReview
    BY <1>2 DEF DeleteReview, DiscussionTypes, DiscussionTypeOK, CountsBounded
  <1>3. ASSUME NEW p \in Readers, Follow(p) \/ Unfollow(p) PROVE DiscussionTypes'
    BY <1>3 DEF Follow, Unfollow, DiscussionTypes, DiscussionTypeOK, CountsBounded
  <1>4. ASSUME NEW c \in TalkCalls, NEW p \in People, NEW parent \in {0} \cup LiveComments,
               AddComment(c, p, parent)
        PROVE  DiscussionTypes'
    <2>1. parent \in 0 .. Len(comments)
      BY <1>0 DEF LiveComments
    <2>. DEFINE talk == [NoTalk EXCEPT !.at = "count", !.what = "add", !.comment = parent]
    <2>2. parent \in 0 .. MaxComments /\ 0 <= Len(comments)
      BY <1>0, <2>1 DEF DiscussionTypes, DiscussionTypeOK
    <2>3. /\ talk \in Talk /\ talk.count = 0 /\ talk.comment = parent /\ talk.what = "add"
      BY <2>2, NoTalkType DEF NoTalk, Talk
    <2>4. Talks(c, talk) /\ UNCHANGED <<review, fans, comments, missed, unseen>>
      BY <1>4 DEF AddComment
    <2>. HIDE DEF talk
    <2>. QED
      BY <2>1, <2>2, <2>3, <2>4, TalkTypes
  <1>5. ASSUME NEW c \in TalkCalls, NEW k \in LiveComments, DeleteComment(c, k)
        PROVE  DiscussionTypes'
    <2>1. k \in 1 .. Len(comments)
      BY <1>0 DEF LiveComments
    <2>. DEFINE talk == [NoTalk EXCEPT !.at = "erase", !.what = "delete", !.comment = k]
    <2>2. k \in 0 .. MaxComments /\ k # 0 /\ k \in 0 .. Len(comments) /\ 0 <= Len(comments)
      BY <1>0, <2>1 DEF DiscussionTypes, DiscussionTypeOK
    <2>3. /\ talk \in Talk /\ talk.count = 0 /\ talk.comment = k
      BY <2>2, NoTalkType DEF NoTalk, Talk
    <2>4. Talks(c, talk) /\ UNCHANGED <<review, fans, comments, missed, unseen>>
      BY <1>5 DEF DeleteComment
    <2>. HIDE DEF talk
    <2>. QED
      BY <2>2, <2>3, <2>4, TalkTypes
  <1>6. ASSUME NEW c \in TalkCalls, SoftDelete(c) PROVE DiscussionTypes'
    <2>. DEFINE talk == [talks[c] EXCEPT !.at = "count"]
    <2>1. /\ talk \in Talk /\ talk.count = talks[c].count /\ talk.comment = talks[c].comment
          /\ talk.what = talks[c].what
      BY <1>0 DEF Talk
    <2>2. Talks(c, talk) /\ UNCHANGED <<review, fans, comments, missed, unseen>>
      BY <1>6 DEF SoftDelete
    <2>. HIDE DEF talk
    <2>. QED
      BY <2>1, <2>2, TalkTypes DEF DiscussionTypes, CountsBounded
  <1>7. ASSUME NEW c \in TalkCalls, ReadCount(c) PROVE DiscussionTypes'
    <2>. DEFINE n == IF ReviewIsLive THEN review.count ELSE 0
                talk == [talks[c] EXCEPT !.at = "commit", !.found = ReviewIsLive, !.count = n]
    <2>1. n \in 0 .. Len(comments) /\ n \in 0 .. MaxComments /\ ReviewIsLive \in BOOLEAN
      BY <1>0 DEF DiscussionTypes, DiscussionTypeOK, ReviewIsLive
    <2>2. Talks(c, talk) /\ UNCHANGED <<review, fans, comments, missed, unseen>>
      BY <1>7 DEF ReadCount
    <2>. HIDE DEF n
    <2>3. /\ talk \in Talk /\ talk.count = n /\ talk.comment = talks[c].comment
          /\ talk.what = talks[c].what
      BY <1>0, <2>1 DEF Talk
    <2>4. n <= Len(comments)
      BY <1>0, <2>1
    <2>. HIDE DEF talk
    <2>. QED
      BY <2>2, <2>3, <2>4, TalkTypes DEF DiscussionTypes, CountsBounded
  <1>8. ASSUME NEW c \in TalkCalls, CommitComment(c) PROVE DiscussionTypes'
    <2>. DEFINE new == [parent |-> talks[c].comment, live |-> TRUE]
    <2>1. new \in Comment /\ new.live /\ comments' = Append(comments, new)
      BY <1>0, <1>8 DEF CommitComment, Comment, Talk
    <2>2. /\ comments' \in Seq(Comment) /\ Len(comments') = Len(comments) + 1
          /\ Len(comments') <= MaxComments
      BY <1>0, <1>8, <2>1, CommentAdded DEF CommitComment
    <2>e. PICK add \in Nat : EndTalk(c, add, 0)
      BY <1>8 DEF CommitComment
    <2>3. talks' \in [TalkCalls -> Talk] /\ fans' = fans
      BY <1>8, <2>e, TalkEnded DEF CommitComment
    <2>4. /\ review' \in [state: {"absent", "here", "deleted"}, visibility: Visibilities,
                          count: 0 .. MaxComments]
          /\ review'.count <= Len(comments')
      <3>1. talks[c].count + 1 \in 0 .. MaxComments /\ talks[c].count + 1 <= Len(comments')
        BY <1>0, <2>2 DEF DiscussionTypes, CountsBounded, Talk
      <3>2. CASE talks[c].found
        <4>1. review' = [review EXCEPT !.count = talks[c].count + 1]
          BY <1>8, <3>2 DEF CommitComment
        <4>. QED
          BY <3>1, <4>1 DEF DiscussionTypes, DiscussionTypeOK
      <3>3. CASE ~talks[c].found
        <4>1. review' = review
          BY <1>8, <3>3 DEF CommitComment
        <4>. QED
          BY <1>0, <2>2, <4>1 DEF DiscussionTypes, DiscussionTypeOK
      <3>. QED
        BY <3>2, <3>3
    <2>5. missed' \in Nat /\ unseen' \in Nat
      BY <1>0, <1>8 DEF CommitComment, DiscussionTypes, DiscussionTypeOK, Talk
    <2>6. \A d \in TalkCalls : /\ talks'[d].count <= Len(comments')
                               /\ talks'[d].comment \in 0 .. Len(comments')
                               /\ talks'[d].what = "delete" => talks'[d].comment # 0
      <3>1. \A d \in TalkCalls : \/ talks'[d] = NoTalk
                                   \/ /\ talks'[d].count = talks[d].count
                                      /\ talks'[d].comment = talks[d].comment
                                      /\ talks'[d].what = talks[d].what
        BY <2>e, TalkEnded
      <3>2. NoTalk.count = 0 /\ NoTalk.comment = 0 /\ NoTalk.what = "none"
        BY DEF NoTalk
      <3>3. \A d \in TalkCalls : /\ talks[d].count <= Len(comments)
                                 /\ talks[d].comment \in 0 .. Len(comments)
                                 /\ talks[d].what = "delete" => talks[d].comment # 0
        BY <1>0 DEF DiscussionTypes, CountsBounded
      <3>4. Len(comments) \in Nat
        BY <1>0, LenProperties DEF DiscussionTypes, DiscussionTypeOK
      <3>5. \A d \in TalkCalls : talks[d].count \in Nat
        BY <1>0 DEF DiscussionTypes, DiscussionTypeOK, Talk
      <3>. QED
        BY <2>2, <3>1, <3>2, <3>3, <3>4, <3>5
    <2>. QED
      BY <2>2, <2>3, <2>4, <2>5, <2>6 DEF DiscussionTypes, DiscussionTypeOK, CountsBounded
  <1>9. ASSUME NEW c \in TalkCalls, CommitDeletion(c) PROVE DiscussionTypes'
    <2>1. talks[c].comment \in DOMAIN comments
      BY <1>0, <1>9 DEF CommitDeletion, DiscussionTypes, CountsBounded
    <2>2. comments' \in Seq(Comment) /\ Len(comments') = Len(comments)
      BY <1>0, <1>9, <2>1, CommentErased DEF CommitDeletion
    <2>e. PICK del \in Nat : EndTalk(c, 0, del)
      BY <1>9 DEF CommitDeletion
    <2>3. talks' \in [TalkCalls -> Talk] /\ fans' = fans
      BY <1>9, <2>e, TalkEnded DEF CommitDeletion
    <2>4. /\ review' \in [state: {"absent", "here", "deleted"}, visibility: Visibilities,
                          count: 0 .. MaxComments]
          /\ review'.count <= Len(comments)
      <3>1. /\ OneLess(talks[c].count) \in 0 .. MaxComments
            /\ OneLess(talks[c].count) <= Len(comments)
        BY <1>0 DEF OneLess, DiscussionTypes, DiscussionTypeOK, CountsBounded, Talk
      <3>. QED
        BY <1>0, <1>9, <3>1 DEF CommitDeletion, DiscussionTypes, DiscussionTypeOK
    <2>5. missed' \in Nat /\ unseen' \in Nat
      BY <1>0, <1>9 DEF CommitDeletion, DiscussionTypes, DiscussionTypeOK, Talk
    <2>6. \A d \in TalkCalls : /\ talks'[d].count <= Len(comments)
                               /\ talks'[d].comment \in 0 .. Len(comments)
                               /\ talks'[d].what = "delete" => talks'[d].comment # 0
      <3>1. \A d \in TalkCalls : \/ talks'[d] = NoTalk
                                   \/ /\ talks'[d].count = talks[d].count
                                      /\ talks'[d].comment = talks[d].comment
                                      /\ talks'[d].what = talks[d].what
        BY <2>e, TalkEnded
      <3>2. NoTalk.count = 0 /\ NoTalk.comment = 0 /\ NoTalk.what = "none"
        BY DEF NoTalk
      <3>3. \A d \in TalkCalls : /\ talks[d].count <= Len(comments)
                                 /\ talks[d].comment \in 0 .. Len(comments)
                                 /\ talks[d].what = "delete" => talks[d].comment # 0
        BY <1>0 DEF DiscussionTypes, CountsBounded
      <3>4. Len(comments) \in Nat
        BY <1>0, LenProperties DEF DiscussionTypes, DiscussionTypeOK
      <3>. QED
        BY <3>1, <3>2, <3>3, <3>4
    <2>. QED
      BY <2>2, <2>3, <2>4, <2>5, <2>6 DEF DiscussionTypes, DiscussionTypeOK, CountsBounded
  <1>10. CASE UNCHANGED discussionVars
    BY <1>10 DEF discussionVars, DiscussionTypes, DiscussionTypeOK, CountsBounded
  <1>. QED
    BY <1>1, <1>2, <1>3, <1>4, <1>5, <1>6, <1>7, <1>8, <1>9, <1>10 DEF DiscussionNext

\* The review, its comments and the requests hold what they may hold; a count
\* never exceeds the number of comments ever made.
THEOREM DiscussionTypeCorrect == DiscussionSpec => []DiscussionTypeOK
  <1>1. DiscussionInit => DiscussionTypes
    BY NoTalkType, DiscussionAssumption
    DEF DiscussionInit, DiscussionTypes, DiscussionTypeOK, CountsBounded, Visibilities, NoTalk
  <1>2. DiscussionTypes => DiscussionTypeOK
    BY DEF DiscussionTypes
  <1>. QED
    BY <1>1, <1>2, DiscussionTypeStep, PTL DEF DiscussionSpec

(***************************************************************************)
(* The count.  What a request has read and will write over the count is off  *)
(* by no more than what is missing already and what was committed since.     *)
(***************************************************************************)

ReadsAreBehind ==
    \A c \in TalkCalls : talks[c].at = "commit" /\ talks[c].found =>
        /\ Cardinality(LiveComments) <= talks[c].count + missed + talks[c].adds
        /\ talks[c].count <= Cardinality(LiveComments) + unseen + talks[c].dels

CountInv == ReadsAreBehind /\ CountFollowsComments

LEMMA LiveAreFinite ==
  ASSUME DiscussionTypes
  PROVE  IsFiniteSet(LiveComments) /\ Cardinality(LiveComments) \in Nat
  <1>1. Len(comments) \in Nat /\ LiveComments \subseteq 1 .. Len(comments)
    BY LenProperties DEF DiscussionTypes, DiscussionTypeOK, LiveComments
  <1>2. IsFiniteSet(1 .. Len(comments))
    BY <1>1, FS_Interval
  <1>. QED
    BY <1>1, <1>2, FS_Subset, FS_CardinalityType

\* Steps that touch neither the comments nor the count, nor a request that has
\* read the count.
LEMMA NothingCounted ==
  ASSUME CountInv, review'.count = review.count, UNCHANGED <<comments, missed, unseen>>,
         \A c \in TalkCalls : talks'[c].at = "commit" => talks'[c] = talks[c]
  PROVE  CountInv'
  <1>1. LiveComments' = LiveComments
    BY DEF LiveComments
  <1>2. ReadsAreBehind'
    BY <1>1 DEF CountInv, ReadsAreBehind
  <1>. QED
    BY <1>1, <1>2 DEF CountInv, CountFollowsComments

\* What a request has read is off by one change more, counted for it or missing.
LEMMA OneMoreBehind ==
  ASSUME NEW l \in Nat, NEW l2 \in Nat, NEW n \in Nat, NEW m \in Nat, NEW m2 \in Nat,
         NEW a \in Nat, NEW one \in Nat,
         l <= n + m + a, m2 >= m,
         l2 <= l \/ (l2 = l + 1 /\ m2 + one >= m + 1)
  PROVE  l2 <= n + m2 + (a + one)
  OBVIOUS

LEMMA OneLessBehind ==
  ASSUME NEW l \in Nat, NEW l2 \in Nat, NEW n \in Nat, NEW u \in Nat, NEW u2 \in Nat,
         NEW b \in Nat, NEW one \in Nat,
         n <= l + u + b, u2 >= u,
         l2 >= l \/ (l2 = l - 1 /\ u2 + one >= u + 1)
  PROVE  n <= l2 + u2 + (b + one)
  OBVIOUS

LEMMA CountStep ==
  ASSUME DiscussionTypes, CountInv, [DiscussionNext]_discussionVars
  PROVE  CountInv'
  <1>0. /\ \A c \in TalkCalls : talks[c] \in Talk
        /\ talks \in [TalkCalls -> Talk]
        /\ comments \in Seq(Comment) /\ Len(comments) \in Nat
        /\ review.count \in Nat /\ missed \in Nat /\ unseen \in Nat
        /\ IsFiniteSet(LiveComments) /\ Cardinality(LiveComments) \in Nat
    BY LiveAreFinite, LenProperties DEF DiscussionTypes, DiscussionTypeOK
  <1>n. /\ review.count \in Nat /\ missed \in Nat /\ unseen \in Nat
        /\ Cardinality(LiveComments) \in Nat
    BY <1>0
  <1>t. \A c \in TalkCalls : /\ talks[c].count \in Nat /\ talks[c].adds \in Nat
                             /\ talks[c].dels \in Nat
    BY <1>0 DEF Talk
  <1>f. /\ Cardinality(LiveComments) <= review.count + missed
        /\ review.count <= Cardinality(LiveComments) + unseen
    BY DEF CountInv, CountFollowsComments
  <1>1. ASSUME NEW v \in Visibilities, CreateReview(v) \/ UpdateReview(v) PROVE CountInv'
    BY <1>1, NothingCounted
    DEF CreateReview, UpdateReview, DiscussionTypes, DiscussionTypeOK
  <1>2. CASE DeleteReview
    BY <1>2, NothingCounted DEF DeleteReview, DiscussionTypes, DiscussionTypeOK
  <1>3. ASSUME NEW p \in Readers, Follow(p) \/ Unfollow(p) PROVE CountInv'
    BY <1>3, NothingCounted DEF Follow, Unfollow
  <1>4. ASSUME NEW c \in TalkCalls, NEW p \in People, NEW parent \in {0} \cup LiveComments,
               AddComment(c, p, parent)
        PROVE  CountInv'
    <2>1. /\ \A d \in TalkCalls \ {c} : talks'[d] = talks[d]
          /\ talks'[c].at = "count"
          /\ UNCHANGED <<review, comments, missed, unseen>>
      BY <1>0, <1>4 DEF AddComment, Talks, NoTalk
    <2>. QED
      BY <2>1, NothingCounted
  <1>5. ASSUME NEW c \in TalkCalls, NEW k \in LiveComments, DeleteComment(c, k)
        PROVE  CountInv'
    <2>1. /\ \A d \in TalkCalls \ {c} : talks'[d] = talks[d]
          /\ talks'[c].at = "erase"
          /\ UNCHANGED <<review, comments, missed, unseen>>
      BY <1>0, <1>5 DEF DeleteComment, Talks, NoTalk
    <2>. QED
      BY <2>1, NothingCounted
  <1>6. ASSUME NEW c \in TalkCalls, SoftDelete(c) PROVE CountInv'
    <2>1. /\ \A d \in TalkCalls \ {c} : talks'[d] = talks[d]
          /\ talks'[c].at = "count"
          /\ UNCHANGED <<review, comments, missed, unseen>>
      BY <1>0, <1>6 DEF SoftDelete, Talks, Talk
    <2>. QED
      BY <2>1, NothingCounted
  <1>7. ASSUME NEW c \in TalkCalls, ReadCount(c) PROVE CountInv'
    <2>1. /\ \A d \in TalkCalls \ {c} : talks'[d] = talks[d]
          /\ talks'[c].found => talks'[c].count = review.count
          /\ talks'[c].adds = talks[c].adds /\ talks'[c].dels = talks[c].dels
          /\ UNCHANGED <<review, comments, missed, unseen>>
      BY <1>0, <1>7 DEF ReadCount, Talks, Talk
    <2>2. LiveComments' = LiveComments
      BY <2>1 DEF LiveComments
    <2>3. ReadsAreBehind'
      <3>1. ASSUME NEW d \in TalkCalls, talks'[d].at = "commit", talks'[d].found
            PROVE  /\ Cardinality(LiveComments') <= talks'[d].count + missed' + talks'[d].adds
                   /\ talks'[d].count <= Cardinality(LiveComments') + unseen' + talks'[d].dels
        <4>1. CASE d = c
          <5>1. /\ talks'[d].count = review.count /\ talks'[d].adds \in Nat
                /\ talks'[d].dels \in Nat
            BY <1>t, <2>1, <3>1, <4>1
          <5>2. missed' = missed /\ unseen' = unseen
            BY <2>1
          <5>. QED
            BY <1>n, <1>f, <2>2, <5>1, <5>2
        <4>2. CASE d # c
          BY <2>1, <2>2, <3>1, <4>2 DEF CountInv, ReadsAreBehind
        <4>. QED
          BY <4>1, <4>2
      <3>. QED
        BY <3>1 DEF ReadsAreBehind
    <2>. QED
      BY <2>1, <2>2, <2>3 DEF CountInv, CountFollowsComments
  <1>8. ASSUME NEW c \in TalkCalls, CommitComment(c) PROVE CountInv'
    <2>. DEFINE new == [parent |-> talks[c].comment, live |-> TRUE]
                add == IF talks[c].found THEN 1 ELSE 0
    <2>1. new \in Comment /\ new.live /\ comments' = Append(comments, new)
      BY <1>0, <1>8 DEF CommitComment, Comment, Talk
    <2>2. /\ LiveComments' = LiveComments \cup {Len(comments) + 1}
          /\ Len(comments) + 1 \notin LiveComments
      BY <1>0, <2>1, CommentAdded
    <2>3. Cardinality(LiveComments') = Cardinality(LiveComments) + 1
      BY <1>0, <2>2, FS_AddElement
    <2>4. add \in Nat /\ EndTalk(c, add, 0)
      BY <1>8 DEF CommitComment
    <2>5. /\ talks'[c] = NoTalk
          /\ \A d \in TalkCalls \ {c} :
                /\ talks'[d].at = talks[d].at /\ talks'[d].found = talks[d].found
                /\ talks'[d].count = talks[d].count
                /\ talks[d].at = "commit" /\ talks[d].found =>
                      talks'[d].adds = talks[d].adds + add /\ talks'[d].dels = talks[d].dels + 0
      BY <2>4, TalkEnded
    <2>6. /\ unseen' = unseen + talks[c].dels
          /\ \/ /\ talks[c].found /\ review'.count = talks[c].count + 1
                /\ missed' = missed + talks[c].adds /\ add = 1
             \/ /\ ~talks[c].found /\ review'.count = review.count
                /\ missed' = missed + 1 /\ add = 0
      BY <1>8 DEF CommitComment, DiscussionTypes, DiscussionTypeOK
    <2>7. talks[c].at = "commit"
      BY <1>8 DEF CommitComment
    <2>t. /\ talks[c].count \in Nat /\ talks[c].adds \in Nat /\ talks[c].dels \in Nat
      BY <1>t
    <2>. HIDE DEF add
    <2>8. /\ missed' + add >= missed + 1 /\ missed' >= missed /\ missed' \in Nat
          /\ unseen' >= unseen /\ unseen' \in Nat
      BY <1>n, <2>t, <2>6
    <2>9. ReadsAreBehind'
      <3>1. ASSUME NEW d \in TalkCalls, talks'[d].at = "commit", talks'[d].found
            PROVE  /\ Cardinality(LiveComments') <= talks'[d].count + missed' + talks'[d].adds
                   /\ talks'[d].count <= Cardinality(LiveComments') + unseen' + talks'[d].dels
        <4>1. d # c
          BY <2>5, <3>1 DEF NoTalk
        <4>2. /\ Cardinality(LiveComments) <= talks[d].count + missed + talks[d].adds
              /\ talks[d].count <= Cardinality(LiveComments) + unseen + talks[d].dels
          BY <2>5, <3>1, <4>1 DEF CountInv, ReadsAreBehind
        <4>3. /\ talks'[d].count = talks[d].count /\ talks'[d].adds = talks[d].adds + add
              /\ talks'[d].dels = talks[d].dels
          BY <1>t, <2>5, <3>1, <4>1
        <4>4. /\ talks[d].count \in Nat /\ talks[d].adds \in Nat /\ talks[d].dels \in Nat
              /\ add \in Nat
          BY <1>t, <2>4
        <4>5. Cardinality(LiveComments') \in Nat /\ Cardinality(LiveComments') >= Cardinality(LiveComments)
          BY <1>n, <2>3
        <4>6. Cardinality(LiveComments') <= talks[d].count + missed' + (talks[d].adds + add)
          BY <1>n, <2>3, <2>8, <4>2, <4>4, <4>5, OneMoreBehind
        <4>7. talks[d].count <= Cardinality(LiveComments') + unseen' + (talks[d].dels + 0)
          BY <1>n, <2>8, <4>2, <4>4, <4>5, OneLessBehind
        <4>. QED
          BY <4>3, <4>4, <4>6, <4>7
      <3>. QED
        BY <3>1 DEF ReadsAreBehind
    <2>10. CountFollowsComments'
      <3>1. CASE talks[c].found
        <4>1. /\ Cardinality(LiveComments) <= talks[c].count + missed + talks[c].adds
              /\ talks[c].count <= Cardinality(LiveComments) + unseen + talks[c].dels
          BY <2>7, <3>1 DEF CountInv, ReadsAreBehind
        <4>2. /\ review'.count = talks[c].count + 1 /\ missed' = missed + talks[c].adds
              /\ unseen' = unseen + talks[c].dels
          BY <2>6, <3>1
        <4>. QED
          BY <1>n, <2>t, <2>3, <4>1, <4>2 DEF CountFollowsComments
      <3>2. CASE ~talks[c].found
        <4>1. /\ review'.count = review.count /\ missed' = missed + 1
              /\ unseen' = unseen + talks[c].dels
          BY <2>6, <3>2
        <4>. QED
          BY <1>n, <1>f, <2>t, <2>3, <4>1 DEF CountFollowsComments
      <3>. QED
        BY <3>1, <3>2
    <2>. QED
      BY <2>9, <2>10 DEF CountInv
  <1>9. ASSUME NEW c \in TalkCalls, CommitDeletion(c) PROVE CountInv'
    <2>. DEFINE k == talks[c].comment
                live == comments[k].live
                writes == talks[c].found /\ talks[c].count # 0
                del == IF writes /\ live THEN 1 ELSE 0
    <2>0. k \in DOMAIN comments /\ talks[c].at = "commit"
      BY <1>0, <1>9, LenProperties DEF CommitDeletion, DiscussionTypes, CountsBounded
    <2>1. LiveComments' = LiveComments \ {k}
      BY <1>0, <1>9, <2>0, CommentErased DEF CommitDeletion
    <2>2. /\ live => Cardinality(LiveComments') = Cardinality(LiveComments) - 1
          /\ ~live => Cardinality(LiveComments') = Cardinality(LiveComments)
          /\ Cardinality(LiveComments') \in Nat
      <3>1. CASE live
        <4>1. k \in LiveComments
          BY <2>0, <3>1 DEF LiveComments
        <4>. QED
          BY <1>0, <2>1, <3>1, <4>1, FS_RemoveElement, FS_CardinalityType
      <3>2. CASE ~live
        <4>1. k \notin LiveComments
          BY <3>2 DEF LiveComments
        <4>2. LiveComments' = LiveComments
          BY <2>1, <4>1
        <4>. QED
          BY <1>0, <3>2, <4>2
      <3>. QED
        BY <3>1, <3>2
    <2>4. del \in Nat /\ EndTalk(c, 0, del)
      BY <1>9 DEF CommitDeletion
    <2>5. /\ talks'[c] = NoTalk
          /\ \A d \in TalkCalls \ {c} :
                /\ talks'[d].at = talks[d].at /\ talks'[d].found = talks[d].found
                /\ talks'[d].count = talks[d].count
                /\ talks[d].at = "commit" /\ talks[d].found =>
                      talks'[d].adds = talks[d].adds + 0 /\ talks'[d].dels = talks[d].dels + del
      BY <2>4, TalkEnded
    <2>6. /\ missed' = missed + (IF writes THEN talks[c].adds + (IF live THEN 0 ELSE 1) ELSE 0)
          /\ unseen' = unseen + (IF writes THEN talks[c].dels ELSE IF live THEN 1 ELSE 0)
          /\ writes => review'.count = talks[c].count - 1
          /\ ~writes => review'.count = review.count
      BY <1>9 DEF CommitDeletion, OneLess, DiscussionTypes, DiscussionTypeOK
    <2>7. writes => talks[c].found /\ talks[c].count # 0
      OBVIOUS
    <2>8. (writes /\ live => del = 1) /\ (~(writes /\ live) => del = 0)
      OBVIOUS
    <2>t. /\ talks[c].count \in Nat /\ talks[c].adds \in Nat /\ talks[c].dels \in Nat
      BY <1>t
    <2>. HIDE DEF k, live, writes, del
    <2>9. /\ missed' >= missed /\ missed' \in Nat /\ unseen' >= unseen /\ unseen' \in Nat
          /\ live => unseen' + del >= unseen + 1
      BY <1>n, <2>t, <2>6, <2>8
    <2>10. ReadsAreBehind'
      <3>1. ASSUME NEW d \in TalkCalls, talks'[d].at = "commit", talks'[d].found
            PROVE  /\ Cardinality(LiveComments') <= talks'[d].count + missed' + talks'[d].adds
                   /\ talks'[d].count <= Cardinality(LiveComments') + unseen' + talks'[d].dels
        <4>1. d # c
          BY <2>5, <3>1 DEF NoTalk
        <4>2. /\ Cardinality(LiveComments) <= talks[d].count + missed + talks[d].adds
              /\ talks[d].count <= Cardinality(LiveComments) + unseen + talks[d].dels
          BY <2>5, <3>1, <4>1 DEF CountInv, ReadsAreBehind
        <4>3. /\ talks'[d].count = talks[d].count /\ talks'[d].adds = talks[d].adds
              /\ talks'[d].dels = talks[d].dels + del
          BY <1>t, <2>5, <3>1, <4>1
        <4>4. /\ talks[d].count \in Nat /\ talks[d].adds \in Nat /\ talks[d].dels \in Nat
              /\ del \in Nat
          BY <1>t, <2>4
        <4>5. \/ Cardinality(LiveComments') = Cardinality(LiveComments)
              \/ /\ Cardinality(LiveComments') = Cardinality(LiveComments) - 1
                 /\ unseen' + del >= unseen + 1
          BY <2>2, <2>9
        <4>6. Cardinality(LiveComments') <= Cardinality(LiveComments)
          BY <1>n, <4>5
        <4>7. Cardinality(LiveComments') <= talks[d].count + missed' + (talks[d].adds + 0)
          BY <1>n, <2>2, <2>9, <4>2, <4>4, <4>6, OneMoreBehind
        <4>8. \/ Cardinality(LiveComments') >= Cardinality(LiveComments)
              \/ /\ Cardinality(LiveComments') = Cardinality(LiveComments) - 1
                 /\ unseen' + del >= unseen + 1
          BY <1>n, <4>5
        <4>9. talks[d].count <= Cardinality(LiveComments') + unseen' + (talks[d].dels + del)
          <5>1. /\ Cardinality(LiveComments') \in Nat /\ unseen' \in Nat /\ unseen' >= unseen
            BY <2>2, <2>9
          <5>2. talks[d].count <= Cardinality(LiveComments) + unseen + talks[d].dels
            BY <4>2
          <5>3. /\ talks[d].count \in Nat /\ talks[d].dels \in Nat /\ del \in Nat
                /\ Cardinality(LiveComments) \in Nat /\ unseen \in Nat
            BY <1>n, <4>4
          <5>. QED
            BY <4>8, <5>1, <5>2, <5>3, OneLessBehind
        <4>. QED
          BY <4>3, <4>4, <4>7, <4>9
      <3>. QED
        BY <3>1 DEF ReadsAreBehind
    <2>11. CountFollowsComments'
      <3>1. CASE writes
        <4>1. /\ Cardinality(LiveComments) <= talks[c].count + missed + talks[c].adds
              /\ talks[c].count <= Cardinality(LiveComments) + unseen + talks[c].dels
          BY <2>0, <2>7, <3>1 DEF CountInv, ReadsAreBehind
        <4>2. /\ review'.count = talks[c].count - 1 /\ talks[c].count # 0
              /\ missed' = missed + talks[c].adds + (IF live THEN 0 ELSE 1)
              /\ unseen' = unseen + talks[c].dels
          BY <1>n, <2>t, <2>6, <2>7, <3>1
        <4>. QED
          BY <1>n, <2>t, <2>2, <4>1, <4>2 DEF CountFollowsComments
      <3>2. CASE ~writes
        <4>1. /\ review'.count = review.count /\ missed' = missed
              /\ unseen' = unseen + (IF live THEN 1 ELSE 0)
          BY <1>n, <2>6, <3>2
        <4>. QED
          BY <1>n, <1>f, <2>2, <4>1 DEF CountFollowsComments
      <3>. QED
        BY <3>1, <3>2
    <2>. QED
      BY <2>10, <2>11 DEF CountInv
  <1>10. CASE UNCHANGED discussionVars
    BY <1>10, NothingCounted DEF discussionVars
  <1>. QED
    BY <1>1, <1>2, <1>3, <1>4, <1>5, <1>6, <1>7, <1>8, <1>9, <1>10 DEF DiscussionNext

\* The number shown with a review follows its comments, through deletions and
\* restorations of the review and overlapping requests (CommentService.add_comment,
\* delete_comment): it is off by no more than the changes that were written over,
\* counted twice or made while there was no review to count them.
THEOREM CountFollows == DiscussionSpec => []CountFollowsComments
  <1>1. DiscussionInit => DiscussionTypes
    BY NoTalkType, DiscussionAssumption
    DEF DiscussionInit, DiscussionTypes, DiscussionTypeOK, CountsBounded, Visibilities, NoTalk
  <1>2. DiscussionInit => CountInv
    <2>1. ASSUME DiscussionInit PROVE LiveComments = {}
      BY <2>1 DEF DiscussionInit, LiveComments
    <2>2. Cardinality({}) = 0
      BY FS_EmptySet
    <2>3. ASSUME DiscussionInit PROVE ReadsAreBehind
      BY <2>3 DEF DiscussionInit, ReadsAreBehind, NoTalk
    <2>4. ASSUME DiscussionInit PROVE CountFollowsComments
      <3>1. Cardinality(LiveComments) = 0 /\ review.count = 0 /\ missed = 0 /\ unseen = 0
        BY <2>1, <2>2, <2>4 DEF DiscussionInit
      <3>. QED
        BY <3>1 DEF CountFollowsComments
    <2>. QED
      BY <2>3, <2>4 DEF CountInv
  <1>3. CountInv => CountFollowsComments
    BY DEF CountInv
  <1>. QED
    BY <1>1, <1>2, <1>3, DiscussionTypeStep, CountStep, PTL DEF DiscussionSpec

\* The SQL filter of the list of reviews and the Python check of one review
\* (VisibilityService) let the same people through.
THEOREM ViewsAlwaysAgree == DiscussionSpec => []ViewsAgree
  <1>1. ViewsAgree
    BY DEF ViewsAgree, ListReviews, GetReview, ReadableBy, CanView
  <1>. QED
    BY <1>1, PTL

=============================================================================
