----------------------------- MODULE MediaLists -----------------------------
(***************************************************************************)
(* One user's list and the order of its items: ListService and               *)
(* ListRepository.  A write reads the items, works out positions and commits *)
(* later; the unique indexes on (list, media) and (list, position) and rows   *)
(* that are gone make a commit fail as a whole.  The negative positions that *)
(* remove and reorder pass through stay inside their transaction.            *)
(***************************************************************************)
EXTENDS Naturals, FiniteSets, Sequences

CONSTANTS
    ListMedia,       \* media that may be put on the list
    ListCalls,       \* requests in progress
    Orders,          \* the media_ids a reorder may send
    MaxListRows      \* rows ever inserted (bound)

ASSUME MediaListsAssumption ==
    /\ Orders \subseteq Seq(STRING \cup ListMedia)
    /\ MaxListRows \in Nat

VARIABLES
    listState,    \* "absent", "here" or "deleted"
    listItems,    \* the rows of list_items
    listRows,     \* how many rows were inserted: the ids of rows
    listCalls     \* the requests in progress

listVars == <<listState, listItems, listRows, listCalls>>

\* A request carries what it read and what it is to do.  A refused one stays to
\* show its answer until the next one.  overtaken is history: since the request
\* read the list a reorder was committed, or a removal that itself was overtaken.
NoListCall == [op |-> "idle", media |-> {}, row |-> 0, place |-> 0,
               read |-> {}, wanted |-> <<>>, overtaken |-> FALSE]

Ended == {"idle", "refused"}

Before(r, s) == r.position < s.position
Positions(rows) == {r.position : r \in rows}
RowIds(rows) == {r.id : r \in rows}
MediaOf(rows) == {r.media : r \in rows}

Item == [id: Nat, media: ListMedia, position: Nat]

ListCall == [op: Ended \cup {"add", "remove", "reorder"}, media: SUBSET ListMedia,
             row: Nat, place: Nat, read: SUBSET Item, wanted: Orders \cup {<<>>},
             overtaken: BOOLEAN]

MediaListsTypeOK ==
    /\ listState \in {"absent", "here", "deleted"}
    /\ listItems \in SUBSET Item
    /\ RowIds(listItems) \subseteq 1 .. listRows
    /\ listRows \in 0 .. MaxListRows
    /\ listCalls \in [ListCalls -> ListCall]

-----------------------------------------------------------------------------
(* ListRepository.                                                          *)

\* The two unique indexes: rows that break one leave everything as it was.
Fits(rows) ==
    /\ Cardinality(Positions(rows)) = Cardinality(rows)
    /\ Cardinality(MediaOf(rows)) = Cardinality(rows)

Accepted(rows) == IF Fits(rows) THEN rows ELSE listItems

\* Mutant: the number of items is taken for the next position.
CountPosition == Cardinality(listItems)

NextPosition ==
    IF listItems = {} THEN 0
    ELSE 1 + CHOOSE p \in Positions(listItems) : \A q \in Positions(listItems) : q <= p

Rank(r, rows) == Cardinality({s \in rows : Before(s, r)})

Normalized(rows) == {[r EXCEPT !.position = Rank(r, rows)] : r \in rows}

Occurs(m, order) == {k \in 1 .. Len(order) : order[k] = m}
Last(m, order) == CHOOSE k \in Occurs(m, order) : \A j \in Occurs(m, order) : j <= k

\* Mutant: the items that are not named are not moved.
ReorderedAlone(rows, order) ==
    {{[r EXCEPT !.position = IF Occurs(r.media, order) = {} THEN @
                             ELSE Last(r.media, order) - 1] : r \in rows}}

\* A named item takes the place of its last mention; the others follow in any
\* order (that of an unordered SELECT), from the length of the request on.
Reordered(rows, order) ==
    LET rest == {r \in rows : Occurs(r.media, order) = {}}
        Arrangements == {f \in [rest -> 0 .. Cardinality(rest)] :
                            /\ \A r, s \in rest : f[r] = f[s] => r = s
                            /\ \A r \in rest : f[r] < Cardinality(rest)}
    IN  {{[r EXCEPT !.position = IF r \in rest THEN Len(order) + f[r]
                                 ELSE Last(r.media, order) - 1] : r \in rows}
            : f \in Arrangements}

-----------------------------------------------------------------------------
(* ListService.                                                             *)

\* The items of a new list: sorted by the positions sent, numbered from 0.
\* Media sent twice is refused by the index, and with it the list.
CreateList(sent) ==
    LET Sooner(j, k) == \/ sent[j].position < sent[k].position
                        \/ sent[j].position = sent[k].position /\ j < k
        rows == {[id |-> k, media |-> sent[k].media,
                  position |-> Cardinality({j \in DOMAIN sent : Sooner(j, k)})]
                    : k \in DOMAIN sent}
    IN  /\ listState = "absent"
        /\ Len(sent) <= MaxListRows
        /\ Cardinality(MediaOf(rows)) = Len(sent)
        /\ listState' = "here"
        /\ listItems' = rows
        /\ listRows' = Len(sent)
        /\ UNCHANGED listCalls

DeleteList ==
    /\ listState = "here"
    /\ listState' = "deleted"
    /\ UNCHANGED <<listItems, listRows, listCalls>>

BeginListCall(c, call) ==
    /\ listState = "here"
    /\ listCalls[c].op \in Ended
    /\ listCalls' = [listCalls EXCEPT ![c] = call]
    /\ UNCHANGED <<listState, listItems, listRows>>

AddItem(c, m) ==
    /\ m \notin MediaOf(listItems)
    /\ BeginListCall(c, [NoListCall EXCEPT !.op = "add", !.media = {m},
                                           !.read = listItems, !.place = NextPosition])

\* The row is deleted, which locks it, and the remaining ones are read.
RemoveItem(c, r) ==
    /\ \A d \in ListCalls : listCalls[d].op = "remove" => listCalls[d].row # r.id
    /\ BeginListCall(c, [NoListCall EXCEPT !.op = "remove", !.row = r.id,
                                           !.read = listItems \ {r}])

ReorderItems(c, order) ==
    BeginListCall(c, [NoListCall EXCEPT !.op = "reorder", !.wanted = order,
                                        !.read = listItems])

\* A request ends: it went through or is refused.  One that moves the items the
\* others have read overtakes these.
EndListCall(c, goes, moves) ==
    listCalls' = [d \in ListCalls |->
        IF d = c THEN [NoListCall EXCEPT !.op = IF goes THEN "idle" ELSE "refused"]
        ELSE IF goes /\ moves /\ listCalls[d].op \in {"add", "remove"}
             THEN [listCalls[d] EXCEPT !.overtaken = TRUE]
             ELSE listCalls[d]]

CommitAdd(c) ==
    /\ listCalls[c].op = "add"
    /\ listRows < MaxListRows
    /\ listRows' = listRows + 1
    /\ \E m \in listCalls[c].media :
          LET rows == listItems \cup {[id |-> listRows + 1, media |-> m,
                                       position |-> listCalls[c].place]} IN
          /\ listItems' = Accepted(rows)
          /\ EndListCall(c, Fits(rows), FALSE)
    /\ UNCHANGED listState

\* An UPDATE of a row that is gone fails the transaction; rows inserted since
\* the items were read keep their positions.
Left(read, written, gone) ==
    written \cup {r \in listItems : r.id \notin RowIds(read) \cup gone}

GoesThrough(read, written, gone) ==
    RowIds(read) \subseteq RowIds(listItems) /\ Fits(Left(read, written, gone))

Rewritten(read, written, gone) ==
    IF RowIds(read) \subseteq RowIds(listItems)
    THEN Accepted(Left(read, written, gone))
    ELSE listItems

Rewrites(c, written, gone, moves) ==
    /\ listItems' = Rewritten(listCalls[c].read, written, gone)
    /\ EndListCall(c, GoesThrough(listCalls[c].read, written, gone), moves)
    /\ UNCHANGED <<listState, listRows>>

CommitRemove(c) ==
    LET me == listCalls[c] IN
    /\ me.op = "remove"
    /\ Rewrites(c, Normalized(me.read), {me.row}, me.overtaken)

\* The row that d deletes is locked, and c would update it.
Blocks(d, c) == /\ listCalls[d].op = "remove" /\ listCalls[c].op = "reorder"
                /\ listCalls[d].row \in RowIds(listCalls[c].read)

CommitReorder(c) ==
    LET me == listCalls[c] IN
    /\ me.op = "reorder"
    /\ \A d \in ListCalls : ~Blocks(d, c)
    /\ \E rows \in Reordered(me.read, me.wanted) : Rewrites(c, rows, {}, TRUE)

\* A removal and a reorder wait for each other's rows, and the database gives up
\* the removal.  (When it gives up the reorder, that is as if the removal had
\* committed first; so it is with two removals.)
Deadlocked(c) ==
    /\ \E d \in ListCalls : Blocks(c, d) /\ listCalls[c].read \cap listCalls[d].read # {}
    /\ EndListCall(c, FALSE, FALSE)
    /\ UNCHANGED <<listState, listItems, listRows>>

-----------------------------------------------------------------------------

Sendable == [media: ListMedia, position: {0, 1}]

MediaListsInit ==
    /\ listState = "absent"
    /\ listItems = {}
    /\ listRows = 0
    /\ listCalls = [c \in ListCalls |-> NoListCall]

MediaListsNext ==
    \/ \E first, second \in Sendable :
          CreateList(<<>>) \/ CreateList(<<first>>) \/ CreateList(<<first, second>>)
    \/ DeleteList
    \/ \E c \in ListCalls :
          \/ \E m \in ListMedia : AddItem(c, m)
          \/ \E r \in listItems : RemoveItem(c, r)
          \/ \E order \in Orders : ReorderItems(c, order)
          \/ CommitAdd(c) \/ CommitRemove(c) \/ CommitReorder(c)
          \/ Deadlocked(c)

MediaListsSpec == MediaListsInit /\ [][MediaListsNext]_listVars

-----------------------------------------------------------------------------

Rewriting(c) == /\ listCalls[c].op \in {"add", "remove"} /\ ~listCalls[c].overtaken
                /\ listCalls'[c].op \in Ended
Reordering(c) == listCalls[c].op = "reorder" /\ listCalls'[c].op = "idle"

\* The row with the same id after the step.
Later(r) == CHOOSE s \in listItems' : s.id = r.id

\* Adding or removing an item, also beside other requests, never changes the
\* order of the items the request found in the list, and a new item comes after
\* all of those, unless a reorder was committed since the request read the list:
\* the positions it worked out are then those of the old order.  (An item that
\* another request inserts into a gap since then may change its place.)
OrderIsKept ==
    [][\A c \in ListCalls : Rewriting(c) =>
          LET found == {r \in listItems : r.id \in RowIds(listCalls[c].read) \cap RowIds(listItems')}
              new == {r \in listItems' : r.id \notin RowIds(listItems)} IN
          /\ \A r, s \in found : Before(r, s) => Before(Later(r), Later(s))
          /\ \A r \in found, s \in new : Before(Later(r), s)]_listVars

\* A reorder that is answered with success stands as it was asked for, whatever
\* else was committed since it read the list: of two items it found there the one
\* named before (its last mention counts) comes before, and an item that was not
\* named comes after all that were.
ReorderIsObeyed ==
    [][\A c \in ListCalls : Reordering(c) =>
          LET order == listCalls[c].wanted
              Named(r) == Occurs(r.media, order) # {}
              found == {r \in listItems' : r.id \in RowIds(listCalls[c].read)} IN
          \A r, s \in found :
              Named(r) /\ (Named(s) => Last(r.media, order) < Last(s.media, order))
              /\ r # s => Before(r, s)]_listVars

=============================================================================
