------------------------------ MODULE Tracking ------------------------------
(***************************************************************************)
(* One user's library entry for one media record: its status and the dates    *)
(* that go with it, in LibraryService and in the import that overwrites an    *)
(* entry.  A request loads the entry, decides by what it loaded, and commits  *)
(* later the columns it changed.  Removed entries stay in the table as rows.  *)
(***************************************************************************)
EXTENDS Naturals, Sequences

CONSTANTS
    LibraryCalls,     \* requests in progress
    Statuses,         \* the statuses clients send
    MaxEntries        \* bound on the rows of the entry

ASSUME TrackingAssumption ==
    /\ Statuses \subseteq {"PLANNED", "IN_PROGRESS", "COMPLETED", "PAUSED", "DROPPED"}
    /\ MaxEntries \in Nat \ {0}

VARIABLES
    entries,          \* the rows of this user and record, in the order they were inserted
    libraryCalls      \* the requests in progress

trackingVars == <<entries, libraryCalls>>

Dates == {"started", "completed"}

\* A row: removed or not, its status, and whether started_at and completed_at are
\* set.  lacking is history: the dates that a client emptied, or that were not
\* there when an import gave the status, and that nobody has set since.
Entries == [here: BOOLEAN, status: Statuses \cup {"PLANNED"},
            started: BOOLEAN, completed: BOOLEAN, lacking: SUBSET Dates]

NoEntry == [here |-> FALSE, status |-> "PLANNED", started |-> FALSE, completed |-> FALSE,
            lacking |-> {}]

Columns == {"here", "status", "started", "completed"}

\* A row with some of its columns written.
Written(write, row) ==
    LET Value(name) == IF name \in DOMAIN write THEN write[name] ELSE row[name] IN
    [here |-> Value("here"), status |-> Value("status"),
     started |-> Value("started"), completed |-> Value("completed"),
     lacking |-> {d \in Dates : IF d \in DOMAIN write THEN ~write[d] ELSE d \in row.lacking}]

\* A request carries the row it loaded (0: it inserts one) and the columns whose
\* value it changed.
NoLibraryCall == [busy |-> FALSE, row |-> 0, write |-> <<>>]

TrackingTypeOK ==
    /\ entries \in Seq(Entries)
    /\ Len(entries) <= MaxEntries
    /\ DOMAIN libraryCalls = LibraryCalls
    /\ \A c \in LibraryCalls :
          /\ libraryCalls[c].busy \in BOOLEAN
          /\ libraryCalls[c].row \in 0 .. Len(entries)
          /\ DOMAIN libraryCalls[c].write \subseteq Columns
          /\ Written(libraryCalls[c].write, NoEntry) \in Entries

Rows == DOMAIN entries

-----------------------------------------------------------------------------

\* Of the columns of a row that was loaded, those that differ are written.
Changes(old, new) == [name \in {n \in Columns : old[n] # new[n]} |-> new[name]]

BeginLibraryCall(c, row, old, new) ==
    /\ ~libraryCalls[c].busy
    /\ libraryCalls' = [libraryCalls EXCEPT ![c] =
                           [busy |-> TRUE, row |-> row, write |-> Changes(old, new)]]
    /\ UNCHANGED entries

\* Mutant: an entry that is restored keeps its dates.
AddedWithOldDates(old, new, status) ==
    [old EXCEPT !.here = TRUE, !.status = status,
                !.started = @ \/ (new /\ status = "IN_PROGRESS"),
                !.completed = @ \/ (new /\ status = "COMPLETED")]

\* What becomes of a removed row that is restored, or of a new one.
Added(old, new, status) ==
    [old EXCEPT !.here = TRUE, !.status = status,
                !.started = @ \/ status = "IN_PROGRESS",
                !.completed = @ \/ status = "COMPLETED"]

\* Any of the removed rows is restored; without one a row is created.
AddToLibrary(c, status) ==
    /\ \A row \in Rows : ~entries[row].here
    /\ \/ \E row \in Rows :
            BeginLibraryCall(c, row, entries[row], Added(entries[row], FALSE, status))
       \/ /\ Rows = {}
          /\ BeginLibraryCall(c, 0, NoEntry, Added(NoEntry, TRUE, status))

\* dates: what the client sends for the two dates, "set", "empty" or nothing.
\* A date that a change of status needs is put in if the entry has none.
Updated(old, status, dates) ==
    LET changed == status # old.status
        Sent(name, now) == CASE dates[name] = "set" -> TRUE
                             [] dates[name] = "empty" -> FALSE
                             [] OTHER -> now
        starts == changed /\ status \in {"IN_PROGRESS", "COMPLETED"} /\ ~old.started
        ends == changed /\ status = "COMPLETED" /\ ~old.completed
    IN  [old EXCEPT !.status = status,
                    !.started = starts \/ Sent("started", old.started),
                    !.completed = ends \/ Sent("completed", old.completed)]

SendableDates == [Dates -> {"none", "set", "empty"}]

\* Without a status in the request it is the one the entry has.
UpdateEntry(c, row, status, dates) ==
    /\ entries[row].here
    /\ BeginLibraryCall(c, row, entries[row], Updated(entries[row], status, dates))

RemoveFromLibrary(c, row) ==
    /\ entries[row].here
    /\ BeginLibraryCall(c, row, entries[row], [entries[row] EXCEPT !.here = FALSE])

\* A second active row is refused by the index.
Conflicts(me) ==
    /\ "here" \in DOMAIN me.write /\ me.write.here
    /\ \E row \in Rows \ {me.row} : entries[row].here

CommitLibraryCall(c) ==
    LET me == libraryCalls[c] IN
    /\ me.busy
    /\ me.row = 0 => Len(entries) < MaxEntries
    /\ entries' = IF Conflicts(me) THEN entries
                  ELSE IF me.row = 0 THEN Append(entries, Written(me.write, NoEntry))
                  ELSE [entries EXCEPT ![me.row] = Written(me.write, @)]
    /\ libraryCalls' = [libraryCalls EXCEPT ![c] = NoLibraryCall]

\* A conflict resolved by importing the row: the status is replaced, the dates
\* stay as they are.
OverwriteByImport(row, status) ==
    /\ entries[row].here
    /\ status # entries[row].status
    /\ entries' = [entries EXCEPT ![row].status = status,
                                  ![row].lacking = @ \cup {d \in Dates : ~entries[row][d]}]
    /\ UNCHANGED libraryCalls

TrackingInit ==
    /\ entries = <<>>
    /\ libraryCalls = [c \in LibraryCalls |-> NoLibraryCall]

TrackingNext ==
    \/ \E c \in LibraryCalls :
          \/ \E status \in Statuses : AddToLibrary(c, status)
          \/ \E row \in Rows :
                \/ \E status \in Statuses, dates \in SendableDates :
                      UpdateEntry(c, row, status, dates)
                \/ RemoveFromLibrary(c, row)
          \/ CommitLibraryCall(c)
    \/ \E row \in Rows, status \in Statuses : OverwriteByImport(row, status)

TrackingSpec == TrackingInit /\ [][TrackingNext]_trackingVars

-----------------------------------------------------------------------------

\* An entry that is in progress has a start, one that is completed an end,
\* whatever requests changed it side by side and however often it was removed
\* and added again.  A date may be missing only because a client emptied it or an
\* import gave the status without it, and only until it is set again.
DatesFollowStatus ==
    \A row \in Rows : LET entry == entries[row] IN
        entry.here =>
            /\ entry.status = "IN_PROGRESS" => entry.started \/ "started" \in entry.lacking
            /\ entry.status = "COMPLETED" => entry.completed \/ "completed" \in entry.lacking

=============================================================================
