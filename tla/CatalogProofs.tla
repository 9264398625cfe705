---------------------------- MODULE CatalogProofs ----------------------------
(***************************************************************************)
(* Proofs about the catalog, for any number of records, rows, ids, users,  *)
(* lists and requests.                                                     *)
(***************************************************************************)
EXTENDS Catalog, TLAPS, FiniteSetTheorems

(* What a request holds, by how far it is. *)
LEMMA RequestShape ==
    ASSUME NEW s \in RequestStates
    PROVE  /\ s.pc \in {"fetch", "create"} => s.id \in Fetched
           /\ s.pc \in {"link", "refresh"} => s.id \in Fetched /\ s.to \in Records
           /\ s.pc = "insert" => s.row \in Row
           /\ s.pc = "restore" => s.id \in RowIds
           /\ s.pc = "merge" => /\ s.source \in Records /\ s.target \in Records
                               /\ s.rows \in Plans(RowIds) /\ s.ids \in Plans(ExternalIds)
BY DEF RequestStates, Idle

(* What a request may come to hold. *)
LEMMA RequestForms ==
    /\ Idle \in RequestStates
    /\ \A x \in Fetched : /\ [pc |-> "fetch", id |-> x] \in RequestStates
                          /\ [pc |-> "create", id |-> x] \in RequestStates
    /\ \A x \in Fetched, r \in Records :
          /\ [pc |-> "link", id |-> x, to |-> r] \in RequestStates
          /\ [pc |-> "refresh", id |-> x, to |-> r] \in RequestStates
    /\ \A row \in Row : [pc |-> "insert", row |-> row] \in RequestStates
    /\ \A i \in RowIds : [pc |-> "restore", id |-> i] \in RequestStates
    /\ \A s, t \in Records, f \in Plans(RowIds), g \in Plans(ExternalIds) :
          [pc |-> "merge", source |-> s, target |-> t, rows |-> f, ids |-> g] \in RequestStates
BY DEF RequestStates, Idle
-----------------------------------------------------------------------------
LEMMA StageTypes ==
    ASSUME TypeOK, NEW q \in Requests, NEW s \in RequestStates, Stage(q, s)
    PROVE  TypeOK'
BY DEF TypeOK, Stage, ActiveRows, Active

LEMMA DoneTypes ==
    ASSUME TypeOK, NEW q \in Requests, Done(q)
    PROVE  req' \in [Requests -> RequestStates]
BY RequestForms DEF TypeOK, Done

(* A plan decides for the rows or ids it has read. *)
LEMMA PlanTypes ==
    ASSUME NEW ids, NEW plan \in Plans(ids)
    PROVE  /\ DOMAIN plan \subseteq ids
           /\ \A z \in DOMAIN plan : plan[z] \in {"move", "drop"}
BY DEF Plans

(* What the writers make of a row. *)
LEMMA RowForms ==
    /\ NoRow \notin Row /\ DeletedRow \notin Row
    /\ NoRow.kind # "review" /\ DeletedRow.kind # "review"
    /\ \A row \in Row :
          /\ \A t \in Records : /\ [row EXCEPT !.media = t] \in Row
                                /\ [row EXCEPT !.media = t].media = t
                                /\ [row EXCEPT !.media = t].kind = row.kind
                                /\ [row EXCEPT !.media = t].owner = row.owner
                                /\ [row EXCEPT !.media = t].active = row.active
          /\ row.kind # "item" => [row EXCEPT !.active = FALSE] \in Row
          /\ [row EXCEPT !.active = FALSE].active = FALSE
          /\ [row EXCEPT !.active = TRUE] \in Row
          /\ [row EXCEPT !.active = TRUE].media = row.media
BY DEF Row, NoRow, DeletedRow, Kinds

(* What a merge makes of a row that may have gone meanwhile. *)
LEMMA MergedRowTypes ==
    ASSUME NEW row \in Row \cup {NoRow, DeletedRow}, NEW t \in Records,
           NEW decision \in {"move", "drop"}, decision = "move" => row \in Row
    PROVE  MergedRow(row, decision, t) \in Row \cup {NoRow, DeletedRow}
<1>1. CASE decision = "move"
  BY <1>1, RowForms DEF MergedRow
<1>2. CASE decision = "drop" /\ row.kind = "review"
  <2>1. row \in Row
    BY <1>2, RowForms
  <2>2. QED BY <1>2, <2>1, RowForms DEF MergedRow
<1>3. CASE decision = "drop" /\ row.kind # "review"
  BY <1>3 DEF MergedRow
<1>4. QED BY <1>1, <1>2, <1>3

(* The rows after a merge, one by one. *)
LEMMA MergedRowsAre ==
    ASSUME TypeOK, NEW q \in Requests, req[q].pc = "merge",
           NEW i \in RowIds
    PROVE  MergedRows(q)[i] = IF i \in DOMAIN req[q].rows
                              THEN MergedRow(rows[i], req[q].rows[i], req[q].target)
                              ELSE rows[i]
BY DEF MergedRows

LEMMA LinkAllTypes ==
    ASSUME TypeOK, NEW ids \in SUBSET ExternalIds, NEW r \in Records,
           LinkAll(ids, r)
    PROVE  /\ link' \in [ExternalIds -> Records \cup {NoRecord}]
           /\ known' \subseteq ExternalIds /\ lateIds' \subseteq ExternalIds
BY DEF TypeOK, LinkAll

LEMMA TypeInit == Init => TypeOK
BY RequestForms DEF Init, TypeOK

LEMMA RequestTypes ==
    ASSUME TypeOK, NEW q \in Requests, RequestStep(q)
    PROVE  TypeOK'
<1> /\ req[q] \in RequestStates
    /\ req \in [Requests -> RequestStates]
  BY DEF TypeOK
<1>1. CASE Fail(q)
  BY <1>1, StageTypes, RequestForms DEF Fail
<1>2. ASSUME NEW x \in Fetched, LookUp(q, x) \/ Refresh(q, x)
      PROVE  TypeOK'
  <2>1. CASE LookUp(q, x)
    BY <2>1, StageTypes, RequestForms DEF LookUp
  <2>2. CASE Refresh(q, x)
    <3>1. link[x] \in Records
      BY <2>2 DEF Refresh, Resolves, Active
    <3>2. [pc |-> "refresh", id |-> x, to |-> link[x]] \in RequestStates
      BY <3>1, RequestForms
    <3>3. QED BY <2>2, <3>2, StageTypes DEF Refresh
  <2>3. QED BY <1>2, <2>1, <2>2
<1>3. CASE Decide(q)
  <2> DEFINE x == req[q].id
             strong == {link[y] : y \in {z \in Strong[x] : Resolves(z)}}
             same == {r \in Active : work[r] = Work[x] /\ Work[x] # NoWork}
             found == IF strong # {} THEN strong ELSE same
  <2>1. x \in Fetched
    BY <1>3, RequestShape DEF Decide
  <2>2. found \subseteq Records
    BY DEF Active, Resolves
  <2>3. \/ \E r \in found : Stage(q, [pc |-> "link", id |-> x, to |-> r])
        \/ Stage(q, [pc |-> "create", id |-> x])
    BY <1>3 DEF Decide
  <2>4. CASE \E r \in found : Stage(q, [pc |-> "link", id |-> x, to |-> r])
    <3> HIDE DEF found, x
    <3>1. PICK r \in found : Stage(q, [pc |-> "link", id |-> x, to |-> r])
      BY <2>4
    <3>2. [pc |-> "link", id |-> x, to |-> r] \in RequestStates
      BY <2>1, <2>2, RequestForms
    <3>3. QED BY <3>1, <3>2, StageTypes
  <2>5. CASE Stage(q, [pc |-> "create", id |-> x])
    <3> HIDE DEF x
    <3>1. [pc |-> "create", id |-> x] \in RequestStates
      BY <2>1, RequestForms
    <3>2. QED BY <2>5, <3>1, StageTypes
  <2>6. QED BY <2>3, <2>4, <2>5
<1>4. CASE CommitLink(q)
  <2>1. {req[q].id} \subseteq ExternalIds /\ req[q].to \in Records
    BY <1>4, RequestShape, CatalogAssumption DEF CommitLink
  <2>2. /\ link' \in [ExternalIds -> Records \cup {NoRecord}]
        /\ known' \subseteq ExternalIds /\ lateIds' \subseteq ExternalIds
        /\ UNCHANGED <<media, work, rows, lateRows>>
    <3>1. LinkAll({req[q].id}, req[q].to) /\ UNCHANGED <<media, work>>
      BY <1>4 DEF CommitLink
    <3>2. QED BY <2>1, <3>1, LinkAllTypes DEF LinkAll
  <2>3. QED BY <1>4, <2>2, DoneTypes DEF CommitLink, TypeOK
<1>5. CASE CommitCreate(q)
  <2> DEFINE x == req[q].id
             ids == {x} \cup {y \in Strong[x] : ~Resolves(y)}
  <2>1. x \in Fetched
    BY <1>5, RequestShape DEF CommitCreate
  <2>2. ids \in SUBSET ExternalIds
    BY <2>1, CatalogAssumption
  <2>3. PICK r \in Records : /\ media' = [media EXCEPT ![r] = "active"]
                             /\ work' = [work EXCEPT ![r] = Work[x]]
                             /\ LinkAll(ids, r)
    BY <1>5 DEF CommitCreate
  <2>4. /\ link' \in [ExternalIds -> Records \cup {NoRecord}]
        /\ known' \subseteq ExternalIds /\ lateIds' \subseteq ExternalIds
        /\ UNCHANGED <<rows, lateRows>>
    <3> HIDE DEF ids
    <3> QED BY <2>2, <2>3, LinkAllTypes DEF LinkAll
  <2>5. QED
    BY <1>5, <2>1, <2>3, <2>4, DoneTypes DEF CommitCreate, TypeOK
<1>6. CASE CommitRefresh(q)
  <2>1. req[q].id \in Fetched /\ req[q].to \in Records
    BY <1>6, RequestShape DEF CommitRefresh
  <2>2. QED BY <1>6, <2>1, DoneTypes DEF CommitRefresh, TypeOK
<1>7. ASSUME NEW kind \in Kinds, NEW o \in Users \cup Lists, NEW r \in Records,
             AddRow(q, kind, o, r)
      PROVE  TypeOK'
  <2> DEFINE new == [kind |-> kind, owner |-> o, media |-> r, active |-> TRUE]
  <2>1. new \in Row
    BY DEF Row
  <2>2. CASE Stage(q, [pc |-> "insert", row |-> new])
    <3> HIDE DEF new
    <3>1. [pc |-> "insert", row |-> new] \in RequestStates
      BY <2>1, RequestForms
    <3>2. QED BY <2>2, <3>1, StageTypes
  <2>3. ASSUME NEW i \in RowIds, Stage(q, [pc |-> "restore", id |-> i])
        PROVE  TypeOK'
    BY <2>3, StageTypes, RequestForms
  <2>4. QED BY <1>7, <2>2, <2>3 DEF AddRow, RowsOf
<1>8. CASE InsertRow(q)
  <2>1. req[q].row \in Row
    BY <1>8, RequestShape DEF InsertRow
  <2>2. PICK i \in RowIds : Write(i, req[q].row)
    BY <1>8 DEF InsertRow
  <2>3. QED BY <1>8, <2>1, <2>2, DoneTypes DEF InsertRow, Write, TypeOK
<1>9. CASE RestoreRow(q)
  <2>1. req[q].id \in RowIds /\ rows[req[q].id] \in Row
    BY <1>9, RequestShape DEF RestoreRow, TypeOK, Exists
  <2>2. [rows[req[q].id] EXCEPT !.active = TRUE] \in Row
    BY <2>1, RowForms
  <2>3. QED BY <1>9, <2>1, <2>2, DoneTypes DEF RestoreRow, Write, TypeOK
<1>10. ASSUME NEW s \in Records, NEW t \in Records, StartMerge(q, s, t)
       PROVE  TypeOK'
  <2> DEFINE f == [i \in ReadByMerge(s) |-> RowDecision(i, t)]
             g == [x \in LinkedTo(s) |-> IdDecision(x, t)]
  <2>1. f \in Plans(RowIds)
    <3>1. \A i \in ReadByMerge(s) : RowDecision(i, t) \in {"move", "drop"}
      BY DEF RowDecision
    <3>2. ReadByMerge(s) \in SUBSET RowIds
      BY DEF ReadByMerge
    <3>3. f \in [ReadByMerge(s) -> {"move", "drop"}]
      BY <3>1
    <3>4. QED BY <3>2, <3>3 DEF Plans
  <2>2. g \in Plans(ExternalIds)
    <3>1. \A x \in LinkedTo(s) : IdDecision(x, t) \in {"move", "drop"}
      BY DEF IdDecision
    <3>2. LinkedTo(s) \in SUBSET ExternalIds
      BY DEF LinkedTo
    <3>3. g \in [LinkedTo(s) -> {"move", "drop"}]
      BY <3>1
    <3>4. QED BY <3>2, <3>3 DEF Plans
  <2>3. Stage(q, [pc |-> "merge", source |-> s, target |-> t, rows |-> f, ids |-> g])
    BY <1>10 DEF StartMerge
  <2> HIDE DEF f, g
  <2>4. [pc |-> "merge", source |-> s, target |-> t, rows |-> f, ids |-> g] \in RequestStates
    BY <2>1, <2>2, RequestForms
  <2>5. QED BY <2>3, <2>4, StageTypes
<1>11. CASE CommitMerge(q)
  <2> DEFINE s == req[q].source
             t == req[q].target
             f == req[q].rows
             g == req[q].ids
  <2>1. /\ req[q].pc = "merge"
        /\ s \in Records /\ t \in Records
        /\ f \in Plans(RowIds) /\ g \in Plans(ExternalIds)
    BY <1>11, RequestShape DEF CommitMerge
  <2>2. ASSUME NEW i \in RowIds
        PROVE  MergedRows(q)[i] \in Row \cup {NoRow, DeletedRow}
    <3>1. rows[i] \in Row \cup {NoRow, DeletedRow}
      BY DEF TypeOK
    <3>2. CASE i \notin DOMAIN f
      BY <2>1, <3>1, <3>2, MergedRowsAre
    <3>3. CASE i \in DOMAIN f
      <4>1. f[i] \in {"move", "drop"}
        BY <2>1, <3>3, PlanTypes
      <4>2. f[i] = "move" => rows[i] \in Row
        BY <1>11, <3>1, <3>3 DEF CommitMerge, Fits, Exists
      <4>3. MergedRow(rows[i], f[i], t) \in Row \cup {NoRow, DeletedRow}
        BY <2>1, <3>1, <4>1, <4>2, MergedRowTypes
      <4>4. QED BY <2>1, <3>3, <4>3, MergedRowsAre
    <3>4. QED BY <3>2, <3>3
  <2>3. MergedRows(q) \in [RowIds -> Row \cup {NoRow, DeletedRow}]
    BY <2>2 DEF MergedRows
  <2>4. ASSUME NEW x \in ExternalIds
        PROVE  (IF x \in DOMAIN g THEN MergedLink(x, g[x], t) ELSE link[x])
                  \in Records \cup {NoRecord}
    BY <2>1 DEF MergedLink, TypeOK
  <2>5. /\ rows' = MergedRows(q)
        /\ link' = [x \in ExternalIds |-> IF x \in DOMAIN g
                                          THEN MergedLink(x, g[x], t) ELSE link[x]]
        /\ media' = [media EXCEPT ![s] = "merged"]
        /\ lateIds' = Overtaken(lateIds, LinkedTo(s), g, t)
        /\ lateRows' = Overtaken(lateRows, {i \in ReadByMerge(s) : rows[i].active}, f, t)
        /\ Done(q) /\ UNCHANGED <<work, known>>
    BY <1>11 DEF CommitMerge
  <2>6. lateIds' \subseteq ExternalIds
    <3>1. DOMAIN g \subseteq ExternalIds
      BY <2>1, PlanTypes
    <3>2. QED BY <2>5, <3>1 DEF Overtaken, LinkedTo, TypeOK
  <2>7. lateRows' \subseteq RowIds
    <3>1. DOMAIN f \subseteq RowIds
      BY <2>1, PlanTypes
    <3>2. QED BY <2>5, <3>1 DEF Overtaken, ReadByMerge, TypeOK
  <2>8. link' \in [ExternalIds -> Records \cup {NoRecord}]
    BY <2>4, <2>5
  <2>9. media' \in [Records -> {"absent", "active", "merged"}]
    BY <2>1, <2>5 DEF TypeOK
  <2>10. rows' \in [RowIds -> Row \cup {NoRow, DeletedRow}]
    BY <2>3, <2>5
  <2>11. req' \in [Requests -> RequestStates]
    BY <2>5, DoneTypes
  <2>12. work' = work /\ known' = known
    BY <2>5
  <2>13. QED BY <2>6, <2>7, <2>8, <2>9, <2>10, <2>11, <2>12 DEF TypeOK
<1>12. QED
  BY <1>1, <1>2, <1>3, <1>4, <1>5, <1>6, <1>7, <1>8, <1>9, <1>10, <1>11 DEF RequestStep

(* What the removal of a row makes of it. *)
LEMMA RemovedRow ==
    ASSUME TypeOK, NEW i \in RowIds, RemoveRow(i)
    PROVE  /\ rows' \in [RowIds -> Row \cup {NoRow, DeletedRow}]
           /\ rows'[i] = DeletedRow \/ ~rows'[i].active
           /\ \A j \in RowIds \ {i} : rows'[j] = rows[j]
<1>1. rows[i] \in Row
  BY DEF RemoveRow, TypeOK, Exists
<1> DEFINE new == IF rows[i].kind = "item" THEN DeletedRow
                  ELSE [rows[i] EXCEPT !.active = FALSE]
<1>2. new \in Row \cup {DeletedRow} /\ (new = DeletedRow \/ ~new.active)
  BY <1>1, RowForms
<1>3. rows' = [rows EXCEPT ![i] = new]
  BY DEF RemoveRow
<1> HIDE DEF new
<1>4. QED BY <1>2, <1>3 DEF TypeOK

LEMMA TypeStep == TypeOK /\ [Next]_vars => TypeOK'
<1> SUFFICES ASSUME TypeOK, [Next]_vars PROVE TypeOK' OBVIOUS
<1>1. CASE \E q \in Requests : RequestStep(q)
  BY <1>1, RequestTypes
<1>2. ASSUME NEW i \in RowIds, RemoveRow(i) PROVE TypeOK'
  BY <1>2, RemovedRow DEF RemoveRow, TypeOK
<1>3. CASE UNCHANGED vars
  BY <1>3 DEF vars, TypeOK
<1>4. QED BY <1>1, <1>2, <1>3 DEF Next

(* Records, ids, rows and requests keep their types. *)
THEOREM TypeCorrect == Spec => []TypeOK
BY TypeInit, TypeStep, PTL DEF Spec
-----------------------------------------------------------------------------
(***************************************************************************)
(* Where ids and rows lead.  Every write decides anew whether the id or the *)
(* row is late, and a merge takes from its record all that it has read; so  *)
(* the two properties are inductive with the types, for merges of two       *)
(* different records.                                                       *)
(***************************************************************************)
TwoRecords == \A q \in Requests : req[q].pc = "merge" => req[q].source # req[q].target
ResolveInv == TypeOK /\ TwoRecords /\ LinksResolve /\ NothingLeftBehind

LEMMA IdleShape == Idle.pc = "idle"
BY DEF Idle

(* A request that ends, or goes on with something else than a merge.       *)
LEMMA TwoRecordsStage ==
    ASSUME TypeOK, TwoRecords, NEW q \in Requests, NEW s,
           req' = [req EXCEPT ![q] = s], s.pc = "merge" => s.source # s.target
    PROVE  TwoRecords'
BY DEF TypeOK, TwoRecords

LEMMA TwoRecordsStep ==
    ASSUME TypeOK, TwoRecords, [Next]_vars
    PROVE  TwoRecords'
<1>1. ASSUME NEW q \in Requests, RequestStep(q)
      PROVE  TwoRecords'
  <2>1. ASSUME req' = [req EXCEPT ![q] = Idle] PROVE TwoRecords'
    BY <2>1, TwoRecordsStage, IdleShape
  <2>2. ASSUME NEW x \in Fetched, LookUp(q, x) PROVE TwoRecords'
    BY <2>2, TwoRecordsStage DEF LookUp, Stage
  <2>3. ASSUME NEW x \in Fetched, Refresh(q, x) PROVE TwoRecords'
    BY <2>3, TwoRecordsStage DEF Refresh, Stage
  <2>4. CASE Decide(q)
    <3>1. \/ \E r : Stage(q, [pc |-> "link", id |-> req[q].id, to |-> r])
          \/ Stage(q, [pc |-> "create", id |-> req[q].id])
      BY <2>4 DEF Decide
    <3>2. QED BY <3>1, TwoRecordsStage DEF Stage
  <2>5. ASSUME NEW kind \in Kinds, NEW o, NEW r \in Records, AddRow(q, kind, o, r)
        PROVE  TwoRecords'
    <3>1. \/ \E i : Stage(q, [pc |-> "restore", id |-> i])
          \/ \E row : Stage(q, [pc |-> "insert", row |-> row])
      BY <2>5 DEF AddRow
    <3>2. QED BY <3>1, TwoRecordsStage DEF Stage
  <2>6. ASSUME NEW s \in Records, NEW t \in Records, StartMerge(q, s, t)
        PROVE  TwoRecords'
    <3>1. s # t /\ \E f, g : Stage(q, [pc |-> "merge", source |-> s, target |-> t,
                                      rows |-> f, ids |-> g])
      BY <2>6 DEF StartMerge
    <3>2. QED BY <3>1, TwoRecordsStage DEF Stage
  <2>7. CASE \/ Fail(q) \/ CommitLink(q) \/ CommitCreate(q) \/ CommitRefresh(q)
             \/ InsertRow(q) \/ RestoreRow(q) \/ CommitMerge(q)
    BY <2>1, <2>7 DEF Fail, Stage, Done, CommitLink, CommitCreate, CommitRefresh,
                      InsertRow, RestoreRow, CommitMerge
  <2>8. QED
    BY <1>1, <2>2, <2>3, <2>4, <2>5, <2>6, <2>7 DEF RequestStep
<1>2. ASSUME req' = req PROVE TwoRecords'
  BY <1>2 DEF TwoRecords
<1>3. QED BY <1>1, <1>2 DEF Next, vars, RemoveRow

(* Linking ids leaves each of them on an active record, or late.           *)
LEMMA LinkAllResolves ==
    ASSUME ResolveInv, NEW ids, NEW r \in Records, LinkAll(ids, r), Active \subseteq Active'
    PROVE  LinksResolve'
<1>1. media'[r] = "active" => r \in Active'
  BY DEF Active
<1>2. QED BY <1>1 DEF ResolveInv, LinksResolve, LinkAll, Resolves

(* A row that is written is on an active record, or late.                  *)
LEMMA WriteLeavesNothing ==
    ASSUME ResolveInv, NEW i \in RowIds, NEW row, Write(i, row)
    PROVE  NothingLeftBehind'
<1>1. Active' = Active
  BY DEF Write, Active
<1>2. rows'[i] = row /\ \A j \in RowIds \ {i} : rows'[j] = rows[j]
  BY DEF Write, ResolveInv, TypeOK
<1>3. /\ row.media \in Active \/ i \in lateRows'
      /\ \A j \in RowIds \ {i} : j \in lateRows => j \in lateRows'
  BY DEF Write
<1>4. QED BY <1>1, <1>2, <1>3 DEF ResolveInv, NothingLeftBehind, Exists

LEMMA MergeResolves ==
    ASSUME ResolveInv, NEW q \in Requests, CommitMerge(q)
    PROVE  LinksResolve' /\ NothingLeftBehind'
<1> DEFINE s == req[q].source
           t == req[q].target
           f == req[q].rows
           g == req[q].ids
<1>1. /\ req[q].pc = "merge" /\ s # t
      /\ s \in Records /\ t \in Records
      /\ f \in Plans(RowIds) /\ g \in Plans(ExternalIds)
  BY RequestShape DEF CommitMerge, ResolveInv, TypeOK, TwoRecords
<1>2. /\ \A x \in ExternalIds : link'[x] = IF x \in DOMAIN g
                                          THEN MergedLink(x, g[x], t) ELSE link[x]
      /\ media' = [media EXCEPT ![s] = "merged"]
      /\ lateIds' = Overtaken(lateIds, LinkedTo(s), g, t)
      /\ lateRows' = Overtaken(lateRows, {i \in ReadByMerge(s) : rows[i].active}, f, t)
  BY DEF CommitMerge
<1>3. ASSUME NEW i \in RowIds
      PROVE  rows'[i] = IF i \in DOMAIN f THEN MergedRow(rows[i], f[i], t) ELSE rows[i]
  BY <1>1, MergedRowsAre DEF CommitMerge, ResolveInv
<1>4. \A i \in DOMAIN f : f[i] \in {"move", "drop"} /\ (f[i] = "move" => Exists(i))
  BY <1>1, PlanTypes DEF CommitMerge, Fits
<1> HIDE DEF s, t, f, g
<1>5. Active' = Active \ {s}
  BY <1>1, <1>2 DEF Active, ResolveInv, TypeOK
<1>6. LinksResolve'
  <2> SUFFICES ASSUME NEW x \in ExternalIds, link'[x] # NoRecord
               PROVE  link'[x] \in Active' \/ x \in lateIds'
    BY DEF LinksResolve, Resolves
  <2>1. CASE x \in DOMAIN g
    <3>1. g[x] = "move" /\ link'[x] = t
      BY <1>1, <1>2, <2>1, PlanTypes DEF MergedLink
    <3>2. QED BY <1>1, <1>2, <1>5, <2>1, <3>1 DEF Overtaken
  <2>2. CASE x \notin DOMAIN g
    <3>1. link'[x] = link[x] /\ (link[x] \in Active \/ x \in lateIds)
      BY <1>2, <2>2 DEF ResolveInv, LinksResolve, Resolves
    <3>2. link[x] = s => x \in LinkedTo(s)
      BY DEF LinkedTo
    <3>3. QED BY <1>2, <1>5, <2>2, <3>1, <3>2 DEF Overtaken
  <2>3. QED BY <2>1, <2>2
<1>7. NothingLeftBehind'
  <2> SUFFICES ASSUME NEW i \in RowIds, Exists(i)', rows'[i].active
               PROVE  rows'[i].media \in Active' \/ i \in lateRows'
    BY DEF NothingLeftBehind
  <2>1. rows[i] \in Row \cup {NoRow, DeletedRow}
    BY DEF ResolveInv, TypeOK
  <2>2. CASE i \in DOMAIN f
    <3>1. rows'[i] = MergedRow(rows[i], f[i], t)
      BY <1>3, <2>2
    <3>2. f[i] = "move"
      <4>1. CASE rows[i].kind = "review"
        <5>1. rows[i] \in Row
          BY <2>1, <4>1, RowForms
        <5>2. [rows[i] EXCEPT !.active = FALSE].active = FALSE
          BY <5>1, RowForms
        <5>3. QED BY <1>4, <2>2, <3>1, <4>1, <5>2 DEF MergedRow
      <4>2. CASE rows[i].kind # "review"
        BY <1>4, <2>2, <3>1, <4>2 DEF MergedRow, Exists
      <4>3. QED BY <4>1, <4>2
    <3>3. rows'[i].media = t
      <4>1. rows[i] \in Row
        BY <1>4, <2>1, <2>2, <3>2 DEF Exists
      <4>2. QED BY <1>1, <3>1, <3>2, <4>1, RowForms DEF MergedRow
    <3>4. QED BY <1>1, <1>2, <1>5, <2>2, <3>2, <3>3 DEF Overtaken
  <2>3. CASE i \notin DOMAIN f
    <3>1. rows'[i] = rows[i] /\ Exists(i) /\ rows[i].active
      BY <1>3, <2>3 DEF Exists
    <3>2. rows[i].media \in Active \/ i \in lateRows
      BY <3>1 DEF ResolveInv, NothingLeftBehind
    <3>3. rows[i].media = s => i \in ReadByMerge(s)
      BY <3>1 DEF ReadByMerge
    <3>4. QED BY <1>2, <1>5, <2>3, <3>1, <3>2, <3>3 DEF Overtaken
  <2>4. QED BY <2>2, <2>3
<1>8. QED BY <1>6, <1>7

LEMMA ResolveStep == ResolveInv /\ [Next]_vars => ResolveInv'
<1> SUFFICES ASSUME ResolveInv, [Next]_vars PROVE LinksResolve' /\ NothingLeftBehind'
  BY TypeStep, TwoRecordsStep DEF ResolveInv
<1>1. ASSUME UNCHANGED <<media, link, lateIds>> PROVE LinksResolve'
  BY <1>1 DEF ResolveInv, LinksResolve, Resolves, Active
<1>2. ASSUME Active \subseteq Active', UNCHANGED <<rows, lateRows>> PROVE NothingLeftBehind'
  BY <1>2 DEF ResolveInv, NothingLeftBehind, Exists
<1>3. media' = media => Active' = Active
  BY DEF Active
<1>4. ASSUME NEW q \in Requests, RequestStep(q)
      PROVE  LinksResolve' /\ NothingLeftBehind'
  <2>0. req[q] \in RequestStates
    BY DEF ResolveInv, TypeOK
  <2>1. CASE CommitLink(q)
    <3>1. /\ req[q].to \in Records
          /\ LinkAll({req[q].id}, req[q].to) /\ UNCHANGED <<media, rows, lateRows>>
      BY <2>0, <2>1, RequestShape DEF CommitLink, LinkAll
    <3>2. QED BY <1>2, <1>3, <3>1, LinkAllResolves
  <2>2. CASE CommitCreate(q)
    <3>1. PICK r \in Records :
             /\ media[r] = "absent" /\ media' = [media EXCEPT ![r] = "active"]
             /\ \E ids : LinkAll(ids, r)
      BY <2>2 DEF CommitCreate
    <3>2. Active \subseteq Active'
      BY <3>1 DEF Active, ResolveInv, TypeOK
    <3>3. UNCHANGED <<rows, lateRows>>
      BY <3>1 DEF LinkAll
    <3>4. QED BY <1>2, <3>1, <3>2, <3>3, LinkAllResolves
  <2>3. CASE InsertRow(q)
    <3>1. PICK i \in RowIds : Write(i, req[q].row)
      BY <2>3 DEF InsertRow
    <3>2. QED BY <1>1, <3>1, WriteLeavesNothing DEF Write
  <2>4. CASE RestoreRow(q)
    <3>1. /\ req[q].id \in RowIds
          /\ Write(req[q].id, [rows[req[q].id] EXCEPT !.active = TRUE])
      BY <2>0, <2>4, RequestShape DEF RestoreRow
    <3>2. QED BY <1>1, <3>1, WriteLeavesNothing DEF Write
  <2>5. CASE CommitMerge(q)
    BY <2>5, MergeResolves
  <2>6. CASE UNCHANGED <<media, link, rows, lateIds, lateRows>>
    BY <1>1, <1>2, <1>3, <2>6
  <2>7. QED
    BY <1>4, <2>1, <2>2, <2>3, <2>4, <2>5, <2>6
       DEF RequestStep, Fail, Stage, LookUp, Refresh, Decide, CommitRefresh, AddRow, StartMerge
<1>5. ASSUME NEW i \in RowIds, RemoveRow(i)
      PROVE  LinksResolve' /\ NothingLeftBehind'
  <2>1. UNCHANGED <<media, link, lateIds, lateRows>>
    BY <1>5 DEF RemoveRow
  <2>2. NothingLeftBehind'
    <3>1. ASSUME NEW j \in RowIds, Exists(j)', rows'[j].active
          PROVE  rows'[j] = rows[j]
      BY <1>5, <3>1, RemovedRow DEF ResolveInv, Exists
    <3>2. QED BY <1>3, <2>1, <3>1 DEF ResolveInv, NothingLeftBehind, Exists
  <2>3. QED BY <1>1, <2>1, <2>2
<1>6. CASE UNCHANGED vars
  BY <1>1, <1>2, <1>3, <1>6 DEF vars
<1>7. QED BY <1>4, <1>5, <1>6 DEF Next

LEMMA ResolveInit == Init => ResolveInv
<1> SUFFICES ASSUME Init PROVE ResolveInv OBVIOUS
<1>1. TwoRecords
  BY IdleShape DEF Init, TwoRecords
<1>2. LinksResolve /\ NothingLeftBehind
  BY DEF Init, LinksResolve, NothingLeftBehind, Exists
<1>3. QED BY <1>1, <1>2, TypeInit DEF ResolveInv

(* A linked id leads to an active record, unless the link was written to a *)
(* record that a merge had read, or moved to one merged meanwhile - for any *)
(* number of upserts and merges at once.                                   *)
THEOREM IdsResolve == Spec => []LinksResolve
<1>1. ResolveInv => LinksResolve
  BY DEF ResolveInv
<1>2. QED BY <1>1, ResolveInit, ResolveStep, PTL DEF Spec

(* No active row is left on a record that was merged away, unless it was    *)
(* written there after the merge had read the rows of the record.          *)
THEOREM NothingIsLeftBehind == Spec => []NothingLeftBehind
<1>1. ResolveInv => NothingLeftBehind
  BY DEF ResolveInv
<1>2. QED BY <1>1, ResolveInit, ResolveStep, PTL DEF Spec
-----------------------------------------------------------------------------
(***************************************************************************)
(* What a merge keeps.  A merge that still stands moves a row only to an    *)
(* owner who has none on the target, and drops one only when there is one.  *)
(***************************************************************************)
LEMMA OnlyMergesMerge ==
    ASSUME ResolveInv, [Next]_vars, NEW q \in Requests,
           NEW s \in MergedAway, NEW t \in Records, Merges(q, s, t)
    PROVE  CommitMerge(q) /\ s # t
<1>1. /\ req[q].pc = "merge" /\ req[q].source = s /\ req[q].target = t
      /\ req'[q] = Idle /\ media' # media
      /\ s \in Records /\ media[s] = "active" /\ media'[s] = "merged"
  BY DEF Merges, MergedAway
<1>2. PICK p \in Requests : CommitMerge(p) \/ CommitCreate(p)
  <2>1. PICK p \in Requests : RequestStep(p)
    BY <1>1 DEF Next, vars, RemoveRow
  <2>2. \A state : ~Stage(p, state)
    BY <1>1 DEF Stage
  <2>3. ~Fail(p) /\ ~Decide(p) /\ \A x \in Fetched : ~LookUp(p, x) /\ ~Refresh(p, x)
    BY <2>2 DEF Fail, Decide, LookUp, Refresh
  <2>4. /\ \A kind \in Kinds, o \in Users \cup Lists, r \in Records : ~AddRow(p, kind, o, r)
        /\ \A r, z \in Records : ~StartMerge(p, r, z)
    BY <2>2 DEF AddRow, StartMerge
  <2>5. ~CommitLink(p) /\ ~CommitRefresh(p) /\ ~InsertRow(p) /\ ~RestoreRow(p)
    BY <1>1 DEF CommitLink, CommitRefresh, InsertRow, RestoreRow, Write
  <2>6. QED BY <2>1, <2>3, <2>4, <2>5 DEF RequestStep
<1>3. \A z \in Requests \ {p} : req'[z] = req[z]
  BY <1>2 DEF CommitMerge, CommitCreate, Done, ResolveInv, TypeOK
<1>4. p = q
  BY <1>1, <1>3, IdleShape
<1>5. CommitMerge(q)
  BY <1>1, <1>2, <1>4 DEF CommitCreate
<1>6. s # t
  BY <1>1 DEF ResolveInv, TwoRecords
<1>7. QED BY <1>5, <1>6

(* A merge that stands keeps, for its owner, a row that is one or both of   *)
(* the records' active one.                                                *)
LEMMA MergeStepKeeps ==
    ASSUME ResolveInv, [Next]_vars, NEW kind \in {"review", "item"}
    PROVE  MergeKeeps(kind)
<1> SUFFICES ASSUME NEW q \in Requests, NEW s \in MergedAway, NEW t \in Records,
                    NEW o \in Users \cup Lists, Merges(q, s, t),
                    \A i \in RowIds : Exists(i) /\ rows[i].owner = o /\ rows[i].kind = kind
                                         => Stands(q, i),
                    NEW k \in ActiveRows(kind, o, s) \cup ActiveRows(kind, o, t)
             PROVE  \E j \in RowIds : /\ Exists(j)' /\ rows'[j].active
                                      /\ rows'[j].kind = kind /\ rows'[j].owner = o
                                      /\ rows'[j].media = t
  BY DEF MergeKeeps, ActiveRows, RowsOf
<1>1. s \in Records /\ CommitMerge(q) /\ s # t
  BY OnlyMergesMerge DEF MergedAway
<1>2. req[q].pc = "merge" /\ req[q].source = s /\ req[q].target = t
  BY DEF Merges
<1>3. ASSUME NEW i \in RowIds
      PROVE  rows'[i] = IF i \in DOMAIN req[q].rows
                        THEN MergedRow(rows[i], req[q].rows[i], t) ELSE rows[i]
  BY <1>1, <1>2, MergedRowsAre DEF CommitMerge, ResolveInv
<1>4. rows \in [RowIds -> Row \cup {NoRow, DeletedRow}]
  BY DEF ResolveInv, TypeOK
<1>5. CASE ActiveRows(kind, o, t) # {}
  <2>1. PICK j \in ActiveRows(kind, o, t) : TRUE
    BY <1>5
  <2>2. /\ j \in RowIds /\ Exists(j) /\ rows[j].active
        /\ rows[j].kind = kind /\ rows[j].owner = o /\ rows[j].media = t
    BY DEF ActiveRows, RowsOf
  <2>3. j \notin ReadByMerge(s)
    BY <1>1, <2>2 DEF ReadByMerge
  <2>4. j \notin DOMAIN req[q].rows
    BY <1>2, <2>2, <2>3 DEF Stands
  <2>5. rows'[j] = rows[j]
    BY <1>3, <2>2, <2>4
  <2>6. QED BY <2>2, <2>5 DEF Exists
<1>6. CASE ActiveRows(kind, o, t) = {}
  <2>1. /\ k \in RowIds /\ Exists(k) /\ rows[k].active
        /\ rows[k].kind = kind /\ rows[k].owner = o /\ rows[k].media = s
    BY <1>6 DEF ActiveRows, RowsOf
  <2>2. k \in ReadByMerge(s)
    BY <2>1 DEF ReadByMerge
  <2>3. k \in DOMAIN req[q].rows /\ req[q].rows[k] = RowDecision(k, t)
    BY <1>2, <2>1, <2>2 DEF Stands
  <2>4. \A j \in RowsOf(kind, o, t) : kind = "item" => rows[j].active
    BY <1>4 DEF RowsOf, Exists, Row
  <2>5. RowDecision(k, t) = "move"
    BY <1>6, <2>1, <2>4 DEF RowDecision, ActiveRows, RowsOf
  <2>6. rows[k] \in Row
    BY <1>4, <2>1 DEF Exists
  <2>7. rows'[k] = [rows[k] EXCEPT !.media = t]
    BY <1>3, <2>1, <2>3, <2>5 DEF MergedRow
  <2>8. /\ rows'[k] \in Row /\ rows'[k].media = t /\ rows'[k].kind = kind
        /\ rows'[k].owner = o /\ rows'[k].active
    <3>1. LET new == [rows[k] EXCEPT !.media = t]
          IN /\ new \in Row /\ new.media = t /\ new.kind = rows[k].kind
             /\ new.owner = rows[k].owner /\ new.active = rows[k].active
      BY <2>6, RowForms
    <3>2. QED BY <2>1, <2>7, <3>1
  <2>9. Exists(k)'
    BY <2>8, RowForms DEF Exists
  <2>10. QED BY <2>1, <2>8, <2>9
<1>7. QED BY <1>5, <1>6

(* Whoever has an active review of either record, and every list that holds *)
(* either, has the target after a merge under which that has not changed.  *)
THEOREM RowsAreKept == Spec => MergesKeepRows
<1>1. ASSUME ResolveInv, [Next]_vars
      PROVE  MergeKeeps("review") /\ MergeKeeps("item")
  BY <1>1, MergeStepKeeps
<1>2. ResolveInv /\ [Next]_vars => [MergeKeeps("review") /\ MergeKeeps("item")]_vars
  BY <1>1
<1>3. QED BY <1>2, ResolveInit, ResolveStep, PTL DEF Spec, MergesKeepRows
-----------------------------------------------------------------------------
(* The unique indexes hold of the rows that exist.                          *)
UniqueInv == ResolveInv /\ Unique(rows)

LEMMA UniqueStep == UniqueInv /\ [Next]_vars => UniqueInv'
<1> SUFFICES ASSUME UniqueInv, [Next]_vars PROVE Unique(rows')
  BY ResolveStep DEF UniqueInv, Unique
<1>1. ASSUME NEW q \in Requests, RequestStep(q) PROVE Unique(rows')
  <2>1. CASE InsertRow(q) \/ RestoreRow(q)
    BY <2>1 DEF InsertRow, RestoreRow, Write
  <2>2. CASE CommitMerge(q)
    BY <2>2 DEF CommitMerge, Fits
  <2>3. CASE rows' = rows
    BY <2>3 DEF UniqueInv
  <2>4. QED
    BY <1>1, <2>1, <2>2, <2>3
       DEF RequestStep, Fail, Stage, LookUp, Refresh, Decide, CommitLink, CommitCreate, LinkAll,
           CommitRefresh, AddRow, StartMerge
<1>2. ASSUME NEW i \in RowIds, RemoveRow(i) PROVE Unique(rows')
  BY <1>2, RemovedRow, RowForms DEF UniqueInv, ResolveInv, Unique
<1>3. CASE UNCHANGED vars
  BY <1>3 DEF vars, UniqueInv
<1>4. QED BY <1>1, <1>2, <1>3 DEF Next

(* Rows that a standing merge would make alike are one row.                 *)
LEMMA StandingMergeFits ==
    ASSUME UniqueInv, NEW q \in Requests, req[q].pc = "merge",
           \A i \in RowIds : Stands(q, i)
    PROVE  Unique(MergedRows(q))
<1> DEFINE s == req[q].source
           t == req[q].target
           f == req[q].rows
           new(i) == MergedRows(q)[i]
<1>1. s \in Records /\ t \in Records /\ f \in Plans(RowIds)
  BY RequestShape DEF UniqueInv, ResolveInv, TypeOK
<1>2. rows \in [RowIds -> Row \cup {NoRow, DeletedRow}]
  BY DEF UniqueInv, ResolveInv, TypeOK
<1>3. ASSUME NEW i \in RowIds, i \in DOMAIN f, new(i) \in Row, new(i).active
      PROVE  /\ rows[i] \in Row /\ rows[i].media = s /\ rows[i].active
             /\ new(i) = [rows[i] EXCEPT !.media = t]
             /\ \A j \in RowsOf(rows[i].kind, rows[i].owner, t) :
                   ~(rows[j].kind = "review" => rows[j].active)
  <2>1. i \in ReadByMerge(s) /\ f[i] = RowDecision(i, t)
    BY <1>3 DEF Stands
  <2>2. rows[i] \in Row /\ rows[i].media = s
    BY <1>2, <2>1 DEF ReadByMerge, Exists
  <2>3. new(i) = MergedRow(rows[i], f[i], t)
    BY <1>3, MergedRowsAre DEF UniqueInv, ResolveInv
  <2>4. f[i] = "move"
    <3>1. f[i] \in {"move", "drop"}
      BY <1>1, <1>3, PlanTypes
    <3>2. [rows[i] EXCEPT !.active = FALSE].active = FALSE /\ DeletedRow \notin Row
      BY <2>2, RowForms
    <3>3. QED BY <1>3, <2>3, <3>1, <3>2 DEF MergedRow
  <2>5. new(i) = [rows[i] EXCEPT !.media = t]
    BY <2>3, <2>4 DEF MergedRow
  <2>6. rows[i].active
    BY <1>1, <1>3, <2>2, <2>5, RowForms
  <2>7. QED BY <2>1, <2>2, <2>4, <2>5, <2>6 DEF RowDecision
<1>4. ASSUME NEW i \in RowIds, i \notin DOMAIN f
      PROVE  new(i) = rows[i]
  BY <1>4, MergedRowsAre DEF UniqueInv, ResolveInv
<1>5. SUFFICES ASSUME NEW i \in RowIds, NEW j \in RowIds,
                      new(i) \in Row, new(i).active, new(j) = new(i)
               PROVE  i = j
  BY DEF Unique
<1> HIDE DEF s, t, f, new
<1>6. CASE i \notin DOMAIN f /\ j \notin DOMAIN f
  BY <1>4, <1>5, <1>6 DEF UniqueInv, Unique
<1>7. ASSUME NEW m \in RowIds, NEW n \in RowIds, m \in DOMAIN f, n \notin DOMAIN f,
             new(m) \in Row, new(m).active, new(n) = new(m)
      PROVE  FALSE
  <2>1. /\ rows[m] \in Row /\ new(m) = [rows[m] EXCEPT !.media = t]
        /\ \A k \in RowsOf(rows[m].kind, rows[m].owner, t) :
              ~(rows[k].kind = "review" => rows[k].active)
    BY <1>3, <1>7
  <2>2. rows[n] = new(m)
    BY <1>4, <1>7
  <2>3. /\ rows[n].kind = rows[m].kind /\ rows[n].owner = rows[m].owner
        /\ rows[n].media = t /\ rows[n].active /\ rows[n] \in Row
    BY <1>1, <1>7, <2>1, <2>2, RowForms
  <2>4. n \in RowsOf(rows[m].kind, rows[m].owner, t)
    BY <2>3, RowForms DEF RowsOf, Exists
  <2>5. QED BY <2>1, <2>3, <2>4
<1>8. CASE i \in DOMAIN f /\ j \in DOMAIN f
  <2>1. /\ rows[i] \in Row /\ rows[i].media = s /\ rows[i].active
        /\ rows[j] \in Row /\ rows[j].media = s /\ rows[j].active
        /\ new(i) = [rows[i] EXCEPT !.media = t]
        /\ new(j) = [rows[j] EXCEPT !.media = t]
    BY <1>3, <1>5, <1>8
  <2>2. rows[i].kind = rows[j].kind /\ rows[i].owner = rows[j].owner
    <3>1. /\ new(i).kind = rows[i].kind /\ new(i).owner = rows[i].owner
          /\ new(j).kind = rows[j].kind /\ new(j).owner = rows[j].owner
      BY <1>1, <2>1, RowForms
    <3>2. QED BY <1>5, <3>1
  <2>3. rows[i] = rows[j]
    BY <2>1, <2>2 DEF Row
  <2>4. QED BY <2>1, <2>3 DEF UniqueInv, Unique
<1>9. QED BY <1>5, <1>6, <1>7, <1>8

(* A merge under which no row has changed is not refused by a unique index, *)
(* whatever was added, removed, restored and merged before.                *)
THEOREM MergesAlwaysFit == Spec => []MergesFit
<1>1. Init => UniqueInv
  <2>1. Init => Unique(rows)
    BY RowForms DEF Init, Unique
  <2>2. QED BY <2>1, ResolveInit DEF UniqueInv
<1>2. UniqueInv => MergesFit
  BY StandingMergeFits DEF MergesFit
<1>3. QED BY <1>1, <1>2, UniqueStep, PTL DEF Spec
=============================================================================
