------------------------------ MODULE UserData ------------------------------
(***************************************************************************)
(* What users add to a collection: groups, labels and exclusions. Models   *)
(* VMService, GroupService, EventService and their stores, the HTTP        *)
(* handlers of both API generations, the units of a v2 collection that     *)
(* carry the data over (sync.go, units 7 to 9 of collector_work.go), and   *)
(* the view the console has of the inventories.                            *)
(*                                                                         *)
(* A collection database is a record. Each transaction (WithTx) is one     *)
(* step: a DuckDB database has one connection, so transactions are serial. *)
(* What a handler reads before its transaction is a step of its own.       *)
(***************************************************************************)
EXTENDS Integers, Sequences, FiniteSets, SequencesExt

CONSTANTS
    Requests,        \* HTTP requests, each served once; a group's id is its creator's
    VMs,             \* VM ids
    VmSets,          \* sets of VMs a collection finds
    VmLists,         \* lists of VM ids a request carries, duplicates included
    Names,           \* group names
    UserLabel,       \* the label users work with
    MaxColls,        \* bound: collections promoted
    LatestRequests,  \* bound: requests that are made of the latest collection (v2)
    MaxWork          \* bound: requests begun and collections promoted together

ASSUME UserDataAssumption == /\ MaxColls \in Nat /\ MaxWork \in Nat
                             /\ IsFiniteSet(Requests) /\ LatestRequests \subseteq Requests
                             /\ VmLists \subseteq Seq(VMs) /\ VmSets \subseteq SUBSET VMs
                             /\ UserLabel # "New"

VARIABLES
    gen,             \* the API generation served
    dbs,             \* the collections of the pool, the latest last
    draft,           \* the collection being built
    closing,         \* promoted, the previous database not closed yet
    req,
    view             \* what the console holds

userVars == <<gen, dbs, draft, closing, req, view>>

LabelNew == "New"
systemLabels == {LabelNew}
Labels == {LabelNew, UserLabel}

\* Filter expressions: one every VM matches, one on the user's label, and one
\* that does not parse.
Filters == {"all", "labelled", "invalid"}
Absent == "absent"
NoGroup == [name |-> Absent]
Nil == [of |-> Absent]

NewDb(S) == [vms |-> S, labels |-> [v \in VMs |-> {}], excluded |-> {},
             groups |-> [g \in Requests |-> NoGroup], matches |-> [g \in Requests |-> {}],
             inventory |-> [g \in Requests |-> Nil], main |-> Nil, outbox |-> <<>>]

NoDraft == [stage |-> "none"]
Latest == Len(dbs)

-----------------------------------------------------------------------------
(* internal/store/vm.go *)

VMGet(d, v) == v \in d.vms
validateVMsExist(d, ids) == ToSet(ids) \ d.vms
deduplicateVMIDs(ids) == SetToSeq(ToSet(ids))

\* An UPDATE over a list of ids is accepted when it changed as many rows as the
\* list has entries; else the error is "not found" or a mismatch.
RowsChanged(d, ids) == Cardinality(ToSet(ids) \cap d.vms)
BatchStatus(d, ids) ==
    IF RowsChanged(d, ids) = Len(ids) THEN 200 ELSE IF validateVMsExist(d, ids) # {} THEN 404 ELSE 500

UpdateMigrationExcluded(d, v, b) ==
    [d EXCEPT !.excluded = IF b THEN @ \cup {v} ELSE @ \ {v}]

GetMigrationExcludedStates(d, ids) == validateVMsExist(d, ids) = {}

UpdateMigrationExcludedBatch(d, ids, b) ==
    [d EXCEPT !.excluded = IF b THEN @ \cup (ToSet(ids) \cap d.vms) ELSE @ \ ToSet(ids)]

UpdateLabels(d, v, ls) == [d EXCEPT !.labels[v] = ls]

AddLabelBatch(d, ids, l) ==
    [d EXCEPT !.labels = [v \in VMs |-> IF v \in ToSet(ids) \cap d.vms THEN @[v] \cup {l} ELSE @[v]]]

RemoveLabelBatch(d, ids, l) ==
    [d EXCEPT !.labels = [v \in VMs |-> IF v \in ToSet(ids) THEN @[v] \ {l} ELSE @[v]]]

RemoveLabelGlobally(d, l) == [d EXCEPT !.labels = [v \in VMs |-> @[v] \ {l}]]

CopyLabelsToAttached(s, d) ==
    [d EXCEPT !.labels = [v \in VMs |-> IF v \in s.vms \cap d.vms /\ s.labels[v] # {}
                                        THEN s.labels[v] \ systemLabels ELSE @[v]]]

CopyMigrationExclusionToAttached(s, d) ==
    [d EXCEPT !.excluded = @ \cup (s.excluded \cap d.vms)]

LabelNewVMsInAttached(s, d) ==
    [d EXCEPT !.labels = [v \in VMs |-> IF v \in d.vms \ s.vms THEN @[v] \cup {LabelNew} ELSE @[v]]]

\* List with WithVMIDs: rows of vinfo among the given ids.
ListVMs(d, ids) == d.vms \cap ids

-----------------------------------------------------------------------------
(* internal/store/group.go; BuildInventory is the parser's (external) *)

\* The labels of the VMs of S.
LabelsOf(d, S) == [v \in VMs |-> IF v \in S THEN d.labels[v] ELSE {}]

\* An inventory embeds the exclusion and the labels of each of its VMs; the
\* utilization of the clusters is not the parser's.
BuildInventory(d, S) ==
    [of |-> S, without |-> S \cap d.excluded, labels |-> LabelsOf(d, S), utilization |-> FALSE]

GroupGet(d, g) == d.groups[g] # NoGroup

\* The unique constraint on the name: Duplicate key.
isUniqueConstraintError(d, g, name) == \E h \in Requests \ {g} : d.groups[h].name = name

GroupCreate(d, g, group) == [d EXCEPT !.groups[g] = group]
GroupUpdate(d, g, group) == [d EXCEPT !.groups[g] = group]

ByFilter(d, f) ==
    IF f = "all" THEN d.vms ELSE {v \in d.vms : UserLabel \in d.labels[v]}

RefreshMatches(d, g) == [d EXCEPT !.matches[g] = ByFilter(d, d.groups[g].filter)]
DeleteMatches(d, g) == [d EXCEPT !.matches[g] = {}]
GetMatchedIDs(d, g) == d.matches[g]

\* Mutant: the filter is evaluated again instead of the stored match list.
GetGroupsContainingVMNow(d, v) ==
    {g \in Requests : GroupGet(d, g) /\ v \in ByFilter(d, d.groups[g].filter)}

GetGroupsContainingVM(d, v) == {g \in Requests : v \in GetMatchedIDs(d, g)}

UpdateInventory(d, g, inv) == [d EXCEPT !.inventory[g] = inv]

CopyToAttached(s, d) ==
    [d EXCEPT !.groups = [g \in Requests |-> IF GroupGet(s, g) THEN s.groups[g] ELSE @[g]]]

-----------------------------------------------------------------------------
(* The outbox (EventService) and the console's reading of it *)

\* AddGroupInventoryEvent and AddGroupInventoryDeleteEvent.
UpsertEvent(g, inv) == [kind |-> "upsert", group |-> g, inv |-> inv]
DeleteEvent(g) == [kind |-> "delete", group |-> g]

AddEvents(d, events) == [d EXCEPT !.outbox = @ \o events]
AddInventoryUpdateEvent(d) == AddEvents(d, <<[kind |-> "inventory", inv |-> d.main]>>)

\* The events of an outbox about the main inventory, and about a group.
MainEvents(events) == {i \in DOMAIN events : events[i].kind = "inventory"}
GroupEvents(events, g) == {i \in DOMAIN events : events[i].kind # "inventory" /\ events[i].group = g}

\* The console keeps what the last event about a subject says.
Apply(held, events, about) ==
    IF about = {} THEN held
    ELSE LET last == events[Max(about)] IN IF last.kind = "delete" THEN Nil ELSE last.inv

\* What the console holds once it has read all of an outbox.
Replay(held, events) ==
    [main |-> Apply(held.main, events, MainEvents(events)),
     groups |-> [g \in Requests |-> Apply(held.groups[g], events, GroupEvents(events, g))]]

-----------------------------------------------------------------------------
(* services/v2/vm.go and services/v2/group.go, inside their transactions *)

\* The inventory is built anew, without the utilization of unit 8.
buildAndSaveMainInventory(d) ==
    AddInventoryUpdateEvent([d EXCEPT !.main = BuildInventory(d, d.vms)])

\* Unit 8 of a collection embeds the utilization of the clusters, if it was collected
\* and can be read; an RVTools import has none.
SaveInventory(d, found) == [d EXCEPT !.main = [BuildInventory(d, d.vms) EXCEPT !.utilization = found]]

\* The inventory that is saved for a group and the event that goes with it.
GroupInventory(d, g) ==
    IF GetMatchedIDs(d, g) = {} THEN Nil ELSE BuildInventory(d, GetMatchedIDs(d, g))
GroupEvent(g, inv) == IF inv = Nil THEN DeleteEvent(g) ELSE UpsertEvent(g, inv)

buildAndSaveGroupInventory(d, g) ==
    [inv |-> GroupInventory(d, g), event |-> GroupEvent(g, GroupInventory(d, g))]

\* The services of v1 do the same, but for an empty group they store an upsert
\* event whose inventory is null.
buildAndSaveGroupInventoryV1(d, g) ==
    [inv |-> GroupInventory(d, g), event |-> UpsertEvent(g, GroupInventory(d, g))]

\* The loop over the groups: each of its steps reads and writes one group only.
RebuildGroups(d, gs) ==
    LET saved == [g \in Requests |-> IF gen = "v1" THEN buildAndSaveGroupInventoryV1(d, g)
                                     ELSE buildAndSaveGroupInventory(d, g)]
        list == SetToSeq(gs)
    IN  AddEvents([d EXCEPT !.inventory = [g \in Requests |-> IF g \in gs THEN saved[g].inv ELSE @[g]]],
                  [i \in DOMAIN list |-> saved[list[i]].event])

ExcludeTx(d, v, b) ==
    LET changed == buildAndSaveMainInventory(UpdateMigrationExcluded(d, v, b))
    IN  RebuildGroups(changed, GetGroupsContainingVM(changed, v))

ExcludeBatchTx(d, ids, b) ==
    LET changed == buildAndSaveMainInventory(UpdateMigrationExcludedBatch(d, ids, b))
    IN  RebuildGroups(changed, UNION {GetGroupsContainingVM(changed, v) : v \in ToSet(ids)})

\* The tail of GroupService.Update.
SaveGroup(d, g) ==
    AddEvents(UpdateInventory(d, g, GroupInventory(d, g)), <<GroupEvent(g, GroupInventory(d, g))>>)

\* A group without VMs is created without an inventory and without an event.
Create(d, g, group) ==
    LET created == RefreshMatches(GroupCreate(d, g, group), g)
    IN  IF GetMatchedIDs(created, g) = {} THEN created ELSE SaveGroup(created, g)
Update(d, g, group) == SaveGroup(RefreshMatches(GroupUpdate(d, g, group), g), g)

Delete(d, g) ==
    DeleteMatches([AddEvents(d, <<DeleteEvent(g)>>) EXCEPT !.groups[g] = NoGroup, !.inventory[g] = Nil], g)

\* The same transactions in services/v1.
CreateV1(d, g, group) == Create(d, g, group)
UpdateV1(d, g, group) == Update(d, g, group)
DeleteV1(d, g) == Delete(d, g)
ExcludeTxV1(d, v, b) == ExcludeTx(d, v, b)
ExcludeBatchTxV1(d, ids, b) == ExcludeBatchTx(d, ids, b)

\* UpdateLabelVMs: add, then remove; an error of either rolls both back.
LabelsStatus(d, add, remove) ==
    IF BatchStatus(d, add) # 200 THEN BatchStatus(d, add) ELSE BatchStatus(d, remove)
UpdateLabelVMs(d, add, remove, l) ==
    IF LabelsStatus(d, add, remove) = 200
    THEN RemoveLabelBatch(AddLabelBatch(d, add, l), remove, l) ELSE d

-----------------------------------------------------------------------------
(* The requests *)

Idle == [pc |-> "idle"]

\* The collection of v1, with labels of an earlier day.
LabelledDb(ls) == [NewDb(VMs) EXCEPT !.labels = [v \in VMs |-> ls]]

UserInit ==
    /\ gen \in {"v1", "v2"}
    /\ dbs \in IF gen = "v2" THEN {<<>>}
              ELSE {<<AddInventoryUpdateEvent(SaveInventory(LabelledDb(ls), TRUE))>> :
                        ls \in {{}, {UserLabel}}}
    /\ draft = NoDraft /\ closing = FALSE
    /\ req = [r \in Requests |-> Idle]
    /\ view = [main |-> Nil, groups |-> [g \in Requests |-> Nil]]

Answer(r, status, changed) ==
    req' = [req EXCEPT ![r] = [pc |-> "done", class |-> status \div 100, changed |-> changed]]

Begun == Cardinality({r \in Requests : req[r].pc # "idle"})
Work == Begun + Latest + (IF draft = NoDraft THEN 0 ELSE 1)

\* LatestVirtualMachineService, LatestGroupService: the request is bound to the
\* collection that is the latest now; 404 when there is none. Its body matters,
\* and is chosen, when the handler goes on.
LatestService(r) ==
    /\ gen = "v2" /\ r \in LatestRequests /\ req[r].pc = "idle" /\ Work < MaxWork
    /\ IF dbs = <<>> THEN Answer(r, 404, FALSE)
       ELSE req' = [req EXCEPT ![r] = [pc |-> "bound", db |-> Latest, changed |-> FALSE]]
    /\ UNCHANGED <<gen, dbs, draft, closing, view>>

\* v1 has one store.
NewHandler(r) ==
    /\ gen = "v1" /\ req[r].pc = "idle" /\ Work < MaxWork
    /\ req' = [req EXCEPT ![r] = [pc |-> "bound", db |-> 1, changed |-> FALSE]]
    /\ UNCHANGED <<gen, dbs, draft, closing, view>>

\* The handle a request took is closed under it once the next collection is
\* promoted: what it still has to do fails.
HandleOpen(r) == req[r].db = (IF closing THEN Latest - 1 ELSE Latest) \/ req[r].db = Latest
At(r, pc) == req[r].pc = pc /\ HandleOpen(r)
HandleClosed(r) ==
    /\ req[r].pc \notin {"idle", "done", "read"} /\ ~HandleOpen(r)
    /\ Answer(r, 500, req[r].changed)
    /\ UNCHANGED <<gen, dbs, draft, closing, view>>

Db(r) == dbs[req[r].db]
Commit(r, d) == dbs' = [dbs EXCEPT ![req[r].db] = d]
Untouched == UNCHANGED <<gen, draft, closing, view>>
Refuse(r, status) == Answer(r, status, FALSE) /\ UNCHANGED dbs /\ Untouched
Proceed(r, next) == req' = [req EXCEPT ![r] = next] /\ UNCHANGED dbs /\ Untouched

\* POST /groups. A blank name is refused like a filter that does not parse.
createGroup(r, name, filter) ==
    /\ At(r, "bound")
    /\ LET group == [name |-> name, filter |-> filter]
       IN  IF filter = "invalid" \/ isUniqueConstraintError(Db(r), r, name) THEN Refuse(r, 400)
           ELSE /\ Commit(r, IF gen = "v1" THEN CreateV1(Db(r), r, group) ELSE Create(Db(r), r, group))
                /\ Answer(r, 201, TRUE) /\ Untouched

\* PATCH /groups/{id}: what is there is read first, outside the transaction.
readGroup(r, g, name, filter) ==
    /\ At(r, "bound")
    /\ IF filter = "invalid" THEN Refuse(r, 400)
       ELSE IF ~GroupGet(Db(r), g) THEN Refuse(r, 404)
       ELSE LET existing == Db(r).groups[g]
            IN  Proceed(r, [pc |-> "merged", db |-> req[r].db, changed |-> FALSE, id |-> g,
                            group |-> [name |-> IF name = Absent THEN existing.name ELSE name,
                                       filter |-> IF filter = Absent THEN existing.filter ELSE filter]])
updateGroup(r) ==
    /\ At(r, "merged")
    /\ LET g == req[r].id
           group == req[r].group
       IN  IF ~GroupGet(Db(r), g) THEN Refuse(r, 500)
           ELSE IF isUniqueConstraintError(Db(r), g, group.name) THEN Refuse(r, 400)
           ELSE /\ Commit(r, IF gen = "v1" THEN UpdateV1(Db(r), g, group) ELSE Update(Db(r), g, group))
                /\ Answer(r, 200, TRUE) /\ Untouched

\* DELETE /groups/{id}: 204 also when there is no such group.
deleteGroup(r, g) ==
    /\ At(r, "bound")
    /\ IF ~GroupGet(Db(r), g) THEN Refuse(r, 204)
       ELSE /\ Commit(r, IF gen = "v1" THEN DeleteV1(Db(r), g) ELSE Delete(Db(r), g))
            /\ Answer(r, 204, TRUE) /\ Untouched

\* GET /groups/{id}: the group, then ListVirtualMachines, whose total is the
\* length of the match list and whose rows come from vinfo.
getGroup(r, g) ==
    /\ At(r, "bound")
    /\ IF ~GroupGet(Db(r), g) THEN Refuse(r, 404)
       ELSE Proceed(r, [pc |-> "got group", db |-> req[r].db, changed |-> FALSE, id |-> g])
ListVirtualMachines(r) ==
    /\ At(r, "got group")
    /\ LET ids == GetMatchedIDs(Db(r), req[r].id)
       IN  IF ~GroupGet(Db(r), req[r].id) THEN Refuse(r, 500)
           ELSE Proceed(r, [pc |-> "read", total |-> Cardinality(ids),
                            listed |-> Cardinality(ListVMs(Db(r), ids))])

\* PATCH /virtualmachines/{id}: the exclusion, then the labels, one transaction each.
updateVirtualMachine(r, v, b) ==
    /\ At(r, "bound")
    /\ IF ~VMGet(Db(r), v) THEN Refuse(r, 404)
       ELSE /\ Commit(r, IF gen = "v1" THEN ExcludeTxV1(Db(r), v, b) ELSE ExcludeTx(Db(r), v, b))
            /\ req' = [req EXCEPT ![r] = [pc |-> "excluded", db |-> @.db, changed |-> TRUE, id |-> v]]
            /\ Untouched
patchLabels(r, ls) ==
    /\ At(r, "excluded")
    /\ IF ls # Absent /\ ~VMGet(Db(r), req[r].id)
       THEN Answer(r, 404, TRUE) /\ UNCHANGED dbs
       ELSE /\ Commit(r, IF ls = Absent THEN Db(r) ELSE UpdateLabels(Db(r), req[r].id, {ls}))
            /\ Answer(r, 200, TRUE)
    /\ Untouched

\* POST /virtualmachines/batch-update-exclusion: the list is deduplicated and
\* checked before the transaction.
batchUpdateVMExclusion(r, list, b) ==
    /\ At(r, "bound")
    /\ LET ids == deduplicateVMIDs(list)
       IN  IF list = <<>> THEN Refuse(r, 400)
           ELSE IF ~GetMigrationExcludedStates(Db(r), ids) THEN Refuse(r, 404)
           ELSE /\ Commit(r, IF gen = "v1" THEN ExcludeBatchTxV1(Db(r), ids, b)
                             ELSE ExcludeBatchTx(Db(r), ids, b))
                /\ Answer(r, 200, TRUE) /\ Untouched

\* PATCH /virtualmachines/labels/{label}.
updateLabelVMs(r, add, remove) ==
    /\ At(r, "bound")
    /\ IF add = <<>> /\ remove = <<>> THEN Refuse(r, 400)
       ELSE LET d == UpdateLabelVMs(Db(r), add, remove, UserLabel)
            IN  /\ Commit(r, d)
                /\ Answer(r, LabelsStatus(Db(r), add, remove), d # Db(r))
                /\ Untouched

\* DELETE /virtualmachines/labels/{label}.
deleteLabelGlobally(r) ==
    /\ At(r, "bound")
    /\ Commit(r, RemoveLabelGlobally(Db(r), UserLabel))
    /\ Answer(r, 200, TRUE) /\ Untouched

Patches == {Absent, UserLabel}
\* The handlers of v2, over the service of the latest collection ...
CreateLatestGroup(r) == gen = "v2" /\ \E n \in Names, f \in Filters : createGroup(r, n, f)
GetLatestGroup(r) == gen = "v2" /\ (ListVirtualMachines(r) \/ \E g \in Requests : getGroup(r, g))
UpdateLatestGroup(r) ==
    /\ gen = "v2"
    /\ \/ \E g \in Requests, n \in Names \cup {Absent}, f \in Filters \cup {Absent} : readGroup(r, g, n, f)
       \/ updateGroup(r)
DeleteLatestGroup(r) == gen = "v2" /\ \E g \in Requests : deleteGroup(r, g)
UpdateLatestVirtualMachine(r) ==
    gen = "v2" /\ ((\E v \in VMs, b \in BOOLEAN : updateVirtualMachine(r, v, b))
                     \/ \E ls \in Patches : patchLabels(r, ls))
BatchUpdateLatestVMExclusion(r) ==
    gen = "v2" /\ \E list \in VmLists, b \in BOOLEAN : batchUpdateVMExclusion(r, list, b)
UpdateLatestLabelVMs(r) == gen = "v2" /\ \E add, remove \in VmLists : updateLabelVMs(r, add, remove)
DeleteLatestLabelGlobally(r) == gen = "v2" /\ deleteLabelGlobally(r)

\* ... and those of v1, which are code of their own.
CreateGroup(r) == gen = "v1" /\ \E n \in Names, f \in Filters : createGroup(r, n, f)
GetGroup(r) == gen = "v1" /\ (ListVirtualMachines(r) \/ \E g \in Requests : getGroup(r, g))
UpdateGroup(r) ==
    /\ gen = "v1"
    /\ \/ \E g \in Requests, n \in Names \cup {Absent}, f \in Filters \cup {Absent} : readGroup(r, g, n, f)
       \/ updateGroup(r)
DeleteGroup(r) == gen = "v1" /\ \E g \in Requests : deleteGroup(r, g)
UpdateVM(r) ==
    gen = "v1" /\ ((\E v \in VMs, b \in BOOLEAN : updateVirtualMachine(r, v, b))
                     \/ \E ls \in Patches : patchLabels(r, ls))
BatchUpdateVMExclusion(r) ==
    gen = "v1" /\ \E list \in VmLists, b \in BOOLEAN : batchUpdateVMExclusion(r, list, b)
UpdateLabelVMsV1(r) == gen = "v1" /\ \E add, remove \in VmLists : updateLabelVMs(r, add, remove)
DeleteLabelGlobally(r) == gen = "v1" /\ deleteLabelGlobally(r)

-----------------------------------------------------------------------------
(* A v2 collection, from the unit that parses to the promotion *)

ParseCollection ==
    /\ gen = "v2" /\ draft = NoDraft /\ ~closing /\ Latest < MaxColls /\ Work < MaxWork
    /\ \E S \in VmSets : draft' = [stage |-> "parsed", db |-> NewDb(S)]
    /\ UNCHANGED <<gen, dbs, closing, req, view>>

SyncAttached(s, d) ==
    LabelNewVMsInAttached(s, CopyMigrationExclusionToAttached(s,
                                CopyLabelsToAttached(s, CopyToAttached(s, d))))

\* Each group's matches and inventory against the VMs of the new collection.
RefreshGroupInventories(d) ==
    LET fresh == [d EXCEPT !.matches = [g \in Requests |-> IF GroupGet(d, g) THEN ByFilter(d, d.groups[g].filter)
                                                           ELSE @[g]]]
    IN  [fresh EXCEPT !.inventory = [g \in Requests |-> IF GroupGet(d, g) THEN GroupInventory(fresh, g) ELSE @[g]]]

\* reflect.DeepEqual(before, g.Inventory), where before was read from the copy.
ChangedGroups(before, d) == {g \in Requests : GroupGet(d, g) /\ before.inventory[g] # d.inventory[g]}

\* Mutant: only the main inventory is published.
PublishMain(d, changed) == AddInventoryUpdateEvent(d)

Publish(d, changed) ==
    LET list == SetToSeq(changed)
    IN  AddEvents(AddInventoryUpdateEvent(d), [i \in DOMAIN list |-> GroupEvent(list[i], d.inventory[list[i]])])

\* Units 7 to 9. The new database is nobody else's, so they are one step; what
\* they read of the latest collection is the clone taken at their beginning.
BuildCollection ==
    /\ draft.stage = "parsed"
    /\ LET synced == IF dbs = <<>> THEN draft.db ELSE SyncAttached(dbs[Latest], draft.db)
           fresh == RefreshGroupInventories(synced)
       IN  \E found \in BOOLEAN :
             draft' = [stage |-> "built",
                       db |-> Publish(SaveInventory(fresh, found), ChangedGroups(synced, fresh))]
    /\ UNCHANGED <<gen, dbs, closing, req, view>>

\* A unit failed or the collection was stopped: Finalize removes the database.
DiscardCollection ==
    /\ draft.stage = "parsed"
    /\ draft' = NoDraft
    /\ UNCHANGED <<gen, dbs, closing, req, view>>

\* Finalize: pool.Add, and only then prevDB.Close.
PromoteCollection ==
    /\ draft.stage = "built"
    /\ dbs' = Append(dbs, draft.db) /\ draft' = NoDraft /\ closing' = (dbs # <<>>)
    /\ UNCHANGED <<gen, req, view>>

ClosePrevDB ==
    /\ closing /\ closing' = FALSE
    /\ UNCHANGED <<gen, dbs, draft, req, view>>

\* The console sends all events of the latest collection's outbox and clears it.
Deliver ==
    /\ dbs # <<>> /\ dbs[Latest].outbox # <<>>
    /\ view' = Replay(view, dbs[Latest].outbox)
    /\ dbs' = [dbs EXCEPT ![Latest].outbox = <<>>]
    /\ UNCHANGED <<gen, draft, closing, req>>

UserNext ==
    \/ \E r \in Requests :
         \/ LatestService(r) \/ NewHandler(r) \/ HandleClosed(r)
         \/ CreateLatestGroup(r) \/ GetLatestGroup(r) \/ UpdateLatestGroup(r) \/ DeleteLatestGroup(r)
         \/ UpdateLatestVirtualMachine(r) \/ BatchUpdateLatestVMExclusion(r)
         \/ UpdateLatestLabelVMs(r) \/ DeleteLatestLabelGlobally(r)
         \/ CreateGroup(r) \/ GetGroup(r) \/ UpdateGroup(r) \/ DeleteGroup(r)
         \/ UpdateVM(r) \/ BatchUpdateVMExclusion(r) \/ UpdateLabelVMsV1(r) \/ DeleteLabelGlobally(r)
    \/ ParseCollection \/ BuildCollection \/ DiscardCollection \/ PromoteCollection
    \/ ClosePrevDB \/ Deliver

UserSpec == UserInit /\ [][UserNext]_userVars

-----------------------------------------------------------------------------
(* Properties *)

Inventories == {Nil} \cup [of : SUBSET VMs, without : SUBSET VMs,
                           labels : [VMs -> SUBSET Labels], utilization : BOOLEAN]

Groups == [name : Names, filter : {"all", "labelled"}]
Events == [kind : {"inventory"}, inv : Inventories] \cup [kind : {"delete"}, group : Requests]
              \cup [kind : {"upsert"}, group : Requests, inv : Inventories]
Dbs == [vms : SUBSET VMs, labels : [VMs -> SUBSET Labels], excluded : SUBSET VMs,
        groups : [Requests -> {NoGroup} \cup Groups], matches : [Requests -> SUBSET VMs],
        inventory : [Requests -> Inventories], main : Inventories, outbox : Seq(Events)]

\* What a request has at hand is of a collection of the pool.
RequestOK(r) ==
    /\ req[r].pc \in {"idle", "bound", "merged", "got group", "excluded", "read", "done"}
    /\ req[r].pc \in {"bound", "merged", "got group", "excluded"} => req[r].db \in 1..Latest
    /\ req[r].pc = "merged" => req[r].id \in Requests /\ req[r].group \in Groups
    /\ req[r].pc = "got group" => req[r].id \in Requests
    /\ req[r].pc = "excluded" => req[r].id \in VMs

\* Types of the variables.
UserTypeOK ==
    /\ gen \in {"v1", "v2"} /\ closing \in BOOLEAN
    /\ dbs \in Seq(Dbs)
    /\ \/ draft = NoDraft
       \/ \E S \in VmSets : draft = [stage |-> "parsed", db |-> NewDb(S)]
       \/ draft.stage = "built" /\ draft.db \in Dbs
    /\ view \in [main : Inventories, groups : [Requests -> Inventories]]
    /\ req = [r \in Requests |-> req[r]] /\ \A r \in Requests : RequestOK(r)

\* An inventory has the VMs S, and among them the excluded ones are excluded.
Reflects(d, inv, S) == inv.of = S /\ inv.without = S \cap d.excluded

\* Each stored inventory of a database is one of the VMs it is about.
Current(d) ==
    /\ Reflects(d, d.main, d.vms)
    /\ \A g \in Requests :
         IF ~GroupGet(d, g) \/ d.matches[g] = {} THEN d.inventory[g] = Nil
         ELSE Reflects(d, d.inventory[g], d.matches[g])

\* The inventories of a database have the labels of their VMs.
Embedded(d) ==
    /\ d.main.labels = LabelsOf(d, d.vms)
    /\ \A g \in Requests : d.inventory[g] # Nil => d.inventory[g].labels = LabelsOf(d, d.matches[g])

\* "All mutations (VM update, inventory rebuild, outbox events) happen in a single
\* transaction" (vm.go:104): in every committed state of every collection each stored
\* inventory has the VMs it is about and their exclusions, whatever order exclusions,
\* group changes and label changes came in. A collection about to be promoted has their
\* labels too ("reflects the synced data instead of the new collection's pre-sync
\* defaults", collector_work.go:363); LabelsCurrent below is about later.
InventoriesCurrent ==
    /\ \A i \in 1..Latest : Current(dbs[i])
    /\ draft.stage = "built" => Embedded(draft.db)

\* The console has the main inventory and the inventory of every group that has one.
CaughtUp(d, held) ==
    /\ held.main = d.main
    /\ \A g \in Requests : d.inventory[g] # Nil => held.groups[g] = d.inventory[g]

\* The outbox: once the console has read what is pending it holds the main
\* inventory and the inventory of every group of the latest collection that has one.
ConsoleCatchesUp ==
    dbs # <<>> => CaughtUp(dbs[Latest], Replay(view, dbs[Latest].outbox))

-----------------------------------------------------------------------------
(* What the repository says and the code does not do *)

\* "the persisted/published inventory (which embeds per-VM MigrationExcluded and Labels)"
\* (collector_work.go:362): the inventories of a collection embed the labels its VMs have.
\* UpdateLabels, UpdateLabelVMs and RemoveLabelFromAllVMs (vm.go:259-295) rebuild no inventory
\* and announce none, so that a promoted collection keeps the labels of its last rebuild.
LabelsCurrent == \A i \in 1..Latest : Embedded(dbs[i])

\* "build the inventory JSON with embedded cluster utilization and persist"
\* (collector_work.go:450): an inventory that has the utilization keeps it. The first change
\* of an exclusion replaces it by one built without (buildAndSaveMainInventory, vm.go:183).
UtilizationKept ==
    [][\A i \in 1..Latest : dbs[i].main.utilization => dbs'[i].main.utilization]_userVars

\* "an upsert/delete event for every group whose inventory changed during stage 8's
\* refresh" (collector_work.go unit 9): the copy has no inventory_data, so a group
\* that has lost its VMs does not count as changed and the console keeps it.
EmptiedGroupsLeaveConsole ==
    dbs # <<>> =>
      LET d == dbs[Latest]
      IN  \A g \in Requests :
            GroupGet(d, g) /\ d.inventory[g] = Nil => Replay(view, d.outbox).groups[g] = Nil

-----------------------------------------------------------------------------
(* The inductive invariant of the proofs *)

\* A group that is not there matches nothing, and a group that is there was created
\* by a request that has been answered, which creates no other.
GroupsOwned(d) ==
    \A g \in Requests : IF GroupGet(d, g) THEN req[g].pc = "done" ELSE d.matches[g] = {}

\* A new collection announces all its inventories, whatever the console holds.
Announced(d) ==
    /\ MainEvents(d.outbox) # {}
    /\ \A g \in Requests : d.inventory[g] # Nil => GroupEvents(d.outbox, g) # {}
    /\ CaughtUp(d, Replay(view, d.outbox))

UserInv ==
    /\ UserTypeOK /\ InventoriesCurrent /\ ConsoleCatchesUp
    /\ gen = "v1" => dbs # <<>>
    /\ \A i \in 1..Latest : GroupsOwned(dbs[i])
    /\ draft.stage = "built" => Current(draft.db) /\ GroupsOwned(draft.db) /\ Announced(draft.db)
=============================================================================
