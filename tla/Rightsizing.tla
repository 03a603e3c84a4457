----------------------------- MODULE Rightsizing -----------------------------
(***************************************************************************)
(* Utilization reports: RightSizingStore, pkg/rightsizing, the v1          *)
(* RightsizingService with the pipeline it runs (POST /rightsizing, and    *)
(* unit 6 of the v1 collection, which has a service of its own over the    *)
(* collection's store), units 6a to 6d of the v2 collection, and the       *)
(* handlers that serve what was stored.                                    *)
(*                                                                         *)
(* A run is its pipeline, the worker of a unit it gave up on, and the      *)
(* goroutine that logs out. Run n writes report n, so the number of a      *)
(* report is its place in the order of created_at.                         *)
(***************************************************************************)
EXTENDS Integers, Sequences, SequencesExt, FiniteSets, FiniteSetsExt

CONSTANTS
    VCenterVMs,       \* the VMs as vCenter lists them: [id, on, named]
    Inventory,        \* the ids in vinfo, ordered by name
    ClusterOf,        \* the cluster of a VM of vinfo
    MigrationExcluded,\* the VMs of vinfo with migration_excluded
    DesiredMetrics,   \* names of the counters
    BatchSizes,       \* batch sizes requests ask for
    DefaultBatchSize, \* rightsizingDefaultBatchSize
    MaxRuns,          \* bound: reports created
    MaxRunning,       \* bound: pipelines running at once
    MaxFaults         \* bound: calls to vCenter and to the store that fail

VMIds == {VCenterVMs[i].id : i \in DOMAIN VCenterVMs} \cup Range(Inventory)
Clusters == {ClusterOf[v] : v \in Range(Inventory)}

ASSUME RightsizingAssumption ==
    /\ IsFiniteSet(DesiredMetrics) /\ DefaultBatchSize \in Nat \ {0}
    /\ BatchSizes \subseteq Int /\ {MaxRuns, MaxRunning, MaxFaults} \subseteq Nat
    /\ VCenterVMs \in Seq(Range(VCenterVMs)) /\ Inventory \in Seq(Range(Inventory))
    /\ IsInjective(Inventory) /\ MigrationExcluded \subseteq Range(Inventory)
    /\ \A i \in DOMAIN VCenterVMs : VCenterVMs[i].on \in BOOLEAN /\ VCenterVMs[i].named \in BOOLEAN

VARIABLES
    served,           \* the generation served, cfg.Server.API
    agent,            \* the process: "up", "stopping" or "down"
    run,              \* the runs, in the order of their reports
    report,           \* their rows in rightsizing_*
    workSrv,          \* workSrv of the service behind POST /rightsizing, 0 for nil
    collector,        \* unit 6 of the v1 collection
    cancelled,        \* the context of that unit is cancelled
    storeOpen,        \* the store of the v1 collection is open
    rsFaults

rsVars == <<served, agent, run, report, workSrv, collector, cancelled, storeOpen, rsFaults>>

Stages == {"connect", "discover", "query", "batch", "warnings", "utilization", "ended"}
Ends == {"none", "completed", "failed", "stopped", "lost"}
NewReport == [expected |-> 0, written |-> 0, metrics |-> {}, warnings |-> {}, utilization |-> {}]

-----------------------------------------------------------------------------
(* pkg/rightsizing and the operators of the services that keep no state *)

CeilDiv(n, d) == (n + d - 1) \div d

\* applyCollectionDefaults: a value that is not positive is replaced.
applyCollectionDefaults(n) == IF n <= 0 THEN DefaultBatchSize ELSE n

\* vms[i:min(i+batchSize, len(vms))], the b-th batch.
Batch(vms, size, b) == SubSeq(vms, (b - 1) * size + 1, Min({b * size, Len(vms)}))
Batches(vms, size) == CeilDiv(Len(vms), size)

\* DiscoverVMs: powered-on VMs first, then the others, both as vCenter lists them;
\* the name filter last.
Precedes(i, j) ==
    IF VCenterVMs[i].on = VCenterVMs[j].on THEN i < j ELSE VCenterVMs[i].on
DiscoverVMs(filtered) ==
    LET kept == {i \in DOMAIN VCenterVMs : filtered => VCenterVMs[i].named}
        rank(i) == Cardinality({j \in kept : Precedes(j, i)}) + 1
    IN [k \in 1..Cardinality(kept) |-> VCenterVMs[CHOOSE i \in kept : rank(i) = k].id]

\* ListInventoryVMs: every row of vinfo, excluded or not.
ListInventoryVMs == Inventory

\* resolveCounters: the desired counters this vCenter knows.
resolveCounters(known) == DesiredMetrics \cap known

\* parseBatchResults: what the answer to one query says of each VM of the batch,
\* as the counters that have samples. A VM the answer leaves out, and one with
\* series without samples, has none and gets a warning.
parseBatchResults(raw, ids, batch) ==
    [v \in Range(batch) |-> IF v \in DOMAIN raw THEN raw[v] \cap ids ELSE {}]

parseBatchResultsV1(raw, ids, batch) == parseBatchResults(raw, ids, batch)

\* A query that fails answers for its batch only: each of its VMs is warned.
FailedBatch(batch) == [v \in Range(batch) |-> {}]

\* The answers vCenter can give about a list of VMs: the batches whose query
\* fails, and the counters with samples of the VMs it answers about.
Answers(vms, size) ==
    [failed : SUBSET (1..Batches(vms, size)),
     raw : UNION {[s -> SUBSET DesiredMetrics] : s \in SUBSET Range(vms)}]

\* The batch a VM of the list is asked about in.
BatchOf(vms, size, v) ==
    CHOOSE b \in 1..Batches(vms, size) : v \in Range(Batch(vms, size, b))

\* QueryMetrics: an entry for every VM asked about.
QueryMetrics(vms, size, ids, a) ==
    [v \in Range(vms) |->
        LET b == BatchOf(vms, size, v)
        IN IF b \in a.failed THEN FailedBatch(Batch(vms, size, b))[v]
           ELSE parseBatchResultsV1(a.raw, ids, Batch(vms, size, b))[v]]

QueryMetricsV2(vms, size, ids, a) ==
    [v \in Range(vms) |->
        LET b == BatchOf(vms, size, v)
        IN IF b \in a.failed THEN FailedBatch(Batch(vms, size, b))[v]
           ELSE parseBatchResults(a.raw, ids, Batch(vms, size, b))[v]]

\* resolveCounters found nothing: v1 goes on with a nil map, in which every VM
\* has the zero VMReport; v2 returns an error.
NoCounters(vms) == [v \in Range(vms) |-> {}]

\* The results a query can have, for the lists and the batch sizes there are.
Lists == {ListInventoryVMs, DiscoverVMs(TRUE), DiscoverVMs(FALSE)}
Sizes == {applyCollectionDefaults(n) : n \in BatchSizes \cup {0}}
Outcomes ==
    [l \in Lists, n \in Sizes |-> {QueryMetrics(l, n, resolveCounters(DesiredMetrics), a) : a \in Answers(l, n)}]
OutcomesV2 ==
    [l \in Lists, n \in Sizes |-> {QueryMetricsV2(l, n, resolveCounters(DesiredMetrics), a) : a \in Answers(l, n)}]

toStoreMetrics(batch, results) ==
    UNION {{<<v, c>> : c \in results[v]} : v \in Range(batch)}

toRightSizingStoreMetrics(batch, results) == toStoreMetrics(batch, results)

\* The VMs that get a warning row: the ones without a counter.
NoData(vms, results) == {v \in Range(vms) : results[v] = {}}

-----------------------------------------------------------------------------
(* RightSizingStore: the rows after each statement *)

CreateReport(vmCount, size) == [NewReport EXCEPT !.expected = CeilDiv(vmCount, size)]

UpdateExpectedBatchCount(p, vmCount, size) == [p EXCEPT !.expected = CeilDiv(vmCount, size)]

\* ON CONFLICT DO NOTHING; a batch without rows writes nothing and still counts.
WriteBatch(p, metrics) == [p EXCEPT !.metrics = @ \cup metrics]

IncrementWrittenBatchCount(p, metrics) == [p EXCEPT !.written = @ + 1]

WriteVMWarnings(p, vms) == [p EXCEPT !.warnings = @ \cup vms]

\* The VMs rows of metrics are about.
Measured(metrics) == {m[1] : m \in metrics}

\* One row for each VM with metrics; what a missing counter gives is NULL.
UtilizationRows(metrics) ==
    {[vm |-> v, counters |-> {m[2] : m \in {x \in metrics : x[1] = v}}] : v \in Measured(metrics)}

ComputeAndStoreUtilization(p) == [p EXCEPT !.utilization = UtilizationRows(p.metrics)]

\* appendMetrics and appendVMWarnings: the VMs of a report, from the metrics and
\* then from the warnings.
appendMetrics(p) == Measured(p.metrics)
appendVMWarnings(p) == p.warnings
GetReport(p) == [metrics |-> appendMetrics(p), warnings |-> appendVMWarnings(p)]

\* The database of a run: the agent's, or the one of its collection.
ReportDb(r) == IF run[r].kind = "http" THEN 0 ELSE r

ListReports(d) == {r \in DOMAIN run : ReportDb(r) = d}

\* WHERE written_batch_count > 0 ORDER BY created_at DESC LIMIT 1; 0 for no row.
LatestReport(d) == Max({r \in ListReports(d) : report[r].written > 0} \cup {0})

\* Rows of vinfo only: a VM the inventory lacks has no cluster.
clusterUtilizationRows(p, cluster) ==
    {u \in p.utilization : /\ u.vm \in Range(Inventory) \ MigrationExcluded
                           /\ ClusterOf[u.vm] = cluster}

ListLatestClusterUtilization(d, cluster) ==
    IF LatestReport(d) = 0 THEN {} ELSE clusterUtilizationRows(report[LatestReport(d)], cluster)

RowsOf(d, vm) ==
    IF LatestReport(d) = 0 THEN {} ELSE {u \in report[LatestReport(d)].utilization : u.vm = vm}

-----------------------------------------------------------------------------
(* The handlers, as the status of their answer *)

\* GET /vms/{id}/utilization
GetVMUtilization(d, vm) == IF RowsOf(d, vm) = {} THEN 404 ELSE 200

\* GET /collections/{id}/virtualmachines/{vmId}/utilization, and the latest one:
\* a collection still collected is not found.
GetVMUtilizationV2(d, vm) ==
    IF run[d].end # "completed" \/ RowsOf(d, vm) = {} THEN 404 ELSE 200

\* GET /clusters/{cluster_id}/utilization
GetClusterUtilization(d, cluster) ==
    IF LatestReport(d) = 0 \/ ListLatestClusterUtilization(d, cluster) = {} THEN 404 ELSE 200

GetClusterUtilizationV2(d, cluster) ==
    IF run[d].end # "completed" THEN 404 ELSE GetClusterUtilization(d, cluster)

\* GET /rightsizing/{report_id}, its clusters, and one of them
GetRightsizingReport(r) ==
    IF r \notin ListReports(0) THEN 404 ELSE 200

ListRightsizingReportClusters(r) ==
    IF GetRightsizingReport(r) = 404 THEN {}
    ELSE {c \in Clusters : clusterUtilizationRows(report[r], c) # {}}

GetRightsizingReportCluster(r, cluster) ==
    IF cluster \in ListRightsizingReportClusters(r) THEN 200 ELSE 404

-----------------------------------------------------------------------------
(* The units of a run *)

NewRun(kind, stage, size, discover, vms) ==
    [kind |-> kind, stage |-> stage, batch |-> 1, size |-> size, discover |-> discover,
     vms |-> vms, results |-> NoCounters(vms), stop |-> FALSE, end |-> "none",
     dropped |-> "none", client |-> FALSE, session |-> FALSE,
     monitor |-> IF kind = "v2" THEN "none" ELSE "watching"]

Running(r) == r # 0 /\ run[r].stage # "ended"

MayStart == Len(run) < MaxRuns /\ Cardinality({r \in DOMAIN run : Running(r)}) < MaxRunning

\* A collection's runs use its store; the agent's is open until the process ends.
DbOpen(r) == run[r].kind = "collector" => storeOpen

\* Mutant: the VMs without metrics are forgotten.
generateBatchesNoWarnings(x) ==
    IF x.batch <= Batches(x.vms, x.size) THEN "batch" ELSE "utilization"

\* What generateBatches puts first: the batches, the warnings when a VM has no
\* metrics, the utilization.
generateBatches(x) ==
    IF x.batch <= Batches(x.vms, x.size) THEN "batch"
    ELSE IF NoData(x.vms, x.results) # {} THEN "warnings" ELSE "utilization"

\* rightsizingWorkBuilder.Next: the unit after the one that has just ended.
Next1(x) ==
    CASE x.stage = "connect" -> "discover"
      [] x.stage = "discover" -> "query"
      [] x.stage = "query" -> generateBatches(x)
      [] x.stage = "batch" -> generateBatches([x EXCEPT !.batch = @ + 1])
      [] x.stage = "warnings" -> "utilization"
      [] x.stage = "utilization" -> "ended"

\* Units 6b to 6d of the v2 collection: PersistMetrics is the loop of unit 6b, and
\* there is always a unit for the warnings.
Next2(x) ==
    CASE x.stage \in {"query", "batch"} ->
             IF x.batch + (IF x.stage = "batch" THEN 1 ELSE 0) <= Batches(x.vms, x.size)
             THEN "batch" ELSE "warnings"
      [] x.stage = "warnings" -> "utilization"
      [] x.stage = "utilization" -> "ended"

NextStage(x) == IF x.kind = "v2" THEN Next2(x) ELSE Next1(x)

\* Connect: the client is a session.
Connect(x) == [x EXCEPT !.client = TRUE, !.session = TRUE]

\* The discover unit: VMs of vSphere or of the inventory.
Discovered(x) ==
    LET vms == IF x.discover = "inventory" THEN ListInventoryVMs
               ELSE DiscoverVMs(x.discover = "filtered")
    IN [x EXCEPT !.vms = vms, !.results = NoCounters(vms)]

\* WriteBatch and IncrementWrittenBatchCount in one transaction.
PersistBatch(x, p) ==
    LET metrics == toRightSizingStoreMetrics(Batch(x.vms, x.size, x.batch), x.results)
    IN IncrementWrittenBatchCount(WriteBatch(p, metrics), metrics)

PersistMetrics(x, p) ==
    LET metrics == toStoreMetrics(Batch(x.vms, x.size, x.batch), x.results)
    IN IncrementWrittenBatchCount(WriteBatch(p, metrics), metrics)

PersistVMWarnings(x, p) == WriteVMWarnings(p, NoData(x.vms, x.results))

ComputeUtilization(p) == ComputeAndStoreUtilization(p)

\* What a unit leaves in the variables its closures share.
Ended(x) ==
    CASE x.stage = "connect" -> Connect(x)
      [] x.stage = "discover" -> Discovered(x)
      [] OTHER -> x

\* The rows of the report after the unit the run is at.
Stored(x, p) ==
    CASE x.stage = "discover" -> UpdateExpectedBatchCount(p, Len(x.vms), x.size)
      [] x.stage = "batch" -> IF x.kind = "v2" THEN PersistMetrics(x, p) ELSE PersistBatch(x, p)
      [] x.stage = "warnings" -> PersistVMWarnings(x, p)
      [] x.stage = "utilization" -> ComputeUtilization(p)
      [] OTHER -> p

\* The pipeline takes the result of its unit: the next one, or the end. With the
\* stop channel closed it ends before the next unit is submitted.
Advance(x) ==
    LET next == NextStage(x)
        batch == IF x.stage = "batch" THEN x.batch + 1 ELSE x.batch
    IN IF next = "ended" THEN [x EXCEPT !.stage = "ended", !.end = "completed"]
       ELSE IF x.stop THEN [x EXCEPT !.stage = "ended", !.end = "stopped"]
       ELSE [x EXCEPT !.stage = next, !.batch = batch]

-----------------------------------------------------------------------------
RsInit ==
    /\ served \in {"v1", "v2"}
    /\ agent = "up" /\ run = <<>> /\ report = <<>> /\ workSrv = 0
    /\ collector = "idle" /\ cancelled = FALSE /\ storeOpen = TRUE
    /\ rsFaults = 0

Fault == rsFaults < MaxFaults /\ rsFaults' = rsFaults + 1

\* RightsizingService.TriggerCollection behind POST /rightsizing, under s.mu: the
\* shell of the report is stored with a count of 0 and the pipeline started.
TriggerCollection ==
    /\ served = "v1" /\ agent = "up" /\ MayStart
    /\ ~Running(workSrv)
    /\ \E n \in BatchSizes, discover \in {"inventory", "all", "filtered"} :
         /\ run' = Append(run, NewRun("http", "connect", applyCollectionDefaults(n), discover, <<>>))
         /\ report' = Append(report, CreateReport(0, applyCollectionDefaults(n)))
    /\ workSrv' = Len(run) + 1
    /\ UNCHANGED <<served, agent, collector, cancelled, storeOpen, rsFaults>>

\* Unit 6 of the v1 collection starts a run of a service of its own.
CollectorTriggers ==
    /\ served = "v1" /\ agent = "up" /\ collector = "idle" /\ MayStart
    /\ run' = Append(run, NewRun("collector", "connect", DefaultBatchSize, "inventory", <<>>))
    /\ report' = Append(report, CreateReport(0, DefaultBatchSize))
    /\ collector' = "polling"
    /\ UNCHANGED <<served, agent, workSrv, cancelled, storeOpen, rsFaults>>

\* Unit 6a of the v2 collection, one at a time: CreateReportFromInventory.
CreateReportFromInventory ==
    /\ served = "v2" /\ agent = "up" /\ MayStart
    /\ \A r \in DOMAIN run : ~Running(r)
    /\ run' = Append(run, NewRun("v2", "query", DefaultBatchSize, "inventory", ListInventoryVMs))
    /\ report' = Append(report, CreateReport(Len(ListInventoryVMs), DefaultBatchSize))
    /\ UNCHANGED <<served, agent, workSrv, collector, cancelled, storeOpen, rsFaults>>

\* A unit other than the query ends well.
UnitEnds(r) ==
    /\ agent # "down" /\ Running(r) /\ run[r].stage # "query"
    /\ run[r].stage # "connect" => DbOpen(r)
    /\ LET x == Ended(run[r])
       IN /\ run' = [run EXCEPT ![r] = Advance(x)]
          /\ report' = [report EXCEPT ![r] = Stored(x, @)]
    /\ UNCHANGED <<served, agent, workSrv, collector, cancelled, storeOpen, rsFaults>>

\* The query unit: v1 never fails here.
QueryEnds(r) ==
    /\ agent # "down" /\ Running(r) /\ run[r].stage = "query"
    /\ LET x == run[r]
       IN \E results \in IF x.kind = "v2" THEN OutcomesV2[x.vms, x.size] ELSE Outcomes[x.vms, x.size] :
             run' = [run EXCEPT ![r] = Advance([x EXCEPT !.results = results])]
    /\ UNCHANGED <<served, agent, report, workSrv, collector, cancelled, storeOpen, rsFaults>>

\* This vCenter knows none of the counters.
QueryFindsNoCounter(r) ==
    /\ agent # "down" /\ Running(r) /\ run[r].stage = "query"
    /\ Fault
    /\ LET x == run[r]
       IN run' = [run EXCEPT ![r] =
                    IF x.kind = "v2" THEN [x EXCEPT !.stage = "ended", !.end = "failed"]
                    ELSE Advance([x EXCEPT !.results = NoCounters(x.vms)])]
    /\ UNCHANGED <<served, agent, report, workSrv, collector, cancelled, storeOpen>>

\* Any other unit returns an error, and its transaction is rolled back. With the
\* collection's store closed every statement does.
UnitFails(r) ==
    /\ agent # "down" /\ Running(r) /\ run[r].stage # "query"
    /\ IF DbOpen(r) \/ run[r].stage = "connect" THEN Fault ELSE UNCHANGED rsFaults
    /\ run' = [run EXCEPT ![r] = [@ EXCEPT !.stage = "ended", !.end = "failed"]]
    /\ UNCHANGED <<served, agent, report, workSrv, collector, cancelled, storeOpen>>

\* Pipeline.Stop reached the pipeline while a unit ran: future.Stop cancels it and
\* nobody listens to it any more.
PipelineStops(r) ==
    /\ agent # "down" /\ Running(r) /\ run[r].stop
    /\ run' = [run EXCEPT ![r] = [@ EXCEPT !.stage = "ended", !.end = "stopped", !.dropped = run[r].stage]]
    /\ UNCHANGED <<served, agent, report, workSrv, collector, cancelled, storeOpen, rsFaults>>

\* The unit nobody listens to ends: well, its call having been answered before the
\* cancellation, or not.
DroppedEnds(r) ==
    /\ agent # "down" /\ run[r].dropped # "none"
    /\ LET x == Ended([run[r] EXCEPT !.stage = run[r].dropped])
       IN \/ /\ run' = [run EXCEPT ![r].dropped = "none"]
             /\ UNCHANGED report
          \/ /\ x.stage # "query"
             /\ run' = [run EXCEPT ![r] = [x EXCEPT !.stage = "ended", !.dropped = "none"]]
             /\ report' = [report EXCEPT ![r] = Stored(x, @)]
    /\ UNCHANGED <<served, agent, workSrv, collector, cancelled, storeOpen, rsFaults>>

\* LogoutFn: the session of the client the connect unit has stored, if it has.
LogoutFn(x) == [x EXCEPT !.monitor = "done", !.session = IF x.client THEN FALSE ELSE @]

\* The monitor goroutine polls IsRunning.
Monitor(r) ==
    /\ agent # "down" /\ run[r].monitor = "watching" /\ ~Running(r)
    /\ run' = [run EXCEPT ![r] = LogoutFn(@)]
    /\ UNCHANGED <<served, agent, report, workSrv, collector, cancelled, storeOpen, rsFaults>>

CollectorRun == CHOOSE r \in DOMAIN run : run[r].kind = "collector"

\* The loop of unit 6: ctx.Done, then GetStatus, whose first read is srv.State().
GetStatusState ==
    collector' = IF cancelled THEN "cancelled"
                 ELSE IF run[CollectorRun].end = "failed" THEN "failed" ELSE "checking"

CollectorPolls ==
    /\ agent # "down" /\ collector = "polling"
    /\ GetStatusState
    /\ UNCHANGED <<served, agent, run, report, workSrv, cancelled, storeOpen, rsFaults>>

\* Mutant: a run that has ended is polled again.
GetStatusIsRunningStuck == collector' = "polling"

\* Its second read, srv.IsRunning(): no longer running is completed.
GetStatusIsRunning == collector' = IF Running(CollectorRun) THEN "polling" ELSE "completed"

CollectorChecks ==
    /\ agent # "down" /\ collector = "checking"
    /\ GetStatusIsRunning
    /\ UNCHANGED <<served, agent, run, report, workSrv, cancelled, storeOpen, rsFaults>>

\* The v1 collection is stopped: the unit's context is cancelled, and nobody tells
\* the run it started.
StopCollection ==
    /\ agent # "down" /\ collector \in {"polling", "checking"} /\ ~cancelled
    /\ cancelled' = TRUE
    /\ UNCHANGED <<served, agent, run, report, workSrv, collector, storeOpen, rsFaults>>

\* collectorWorkBuilder.Finalize closes the store, whatever the result.
FinalizeCollection ==
    /\ agent # "down" /\ collector \in {"completed", "failed", "cancelled"} /\ storeOpen
    /\ storeOpen' = FALSE
    /\ UNCHANGED <<served, agent, run, report, workSrv, collector, cancelled, rsFaults>>

\* ServiceManager.Stop: the collection, then RightsizingService.Stop.
Stop ==
    /\ agent = "up" /\ agent' = "stopping"
    /\ cancelled' = (cancelled \/ collector \in {"polling", "checking"})
    /\ run' = IF Running(workSrv) THEN [run EXCEPT ![workSrv].stop = TRUE] ELSE run
    /\ UNCHANGED <<served, report, workSrv, collector, storeOpen, rsFaults>>

\* The process ends: both have returned, or it crashed. What ran is lost.
Exit ==
    /\ agent # "down" /\ agent' = "down"
    /\ run' = [r \in DOMAIN run |->
                 IF Running(r) THEN [run[r] EXCEPT !.stage = "ended", !.end = "lost"] ELSE run[r]]
    /\ UNCHANGED <<served, report, workSrv, collector, cancelled, storeOpen, rsFaults>>

RsNext ==
    \/ TriggerCollection \/ CollectorTriggers \/ CreateReportFromInventory
    \/ \E r \in DOMAIN run :
          \/ UnitEnds(r) \/ QueryEnds(r) \/ QueryFindsNoCounter(r) \/ UnitFails(r)
          \/ PipelineStops(r) \/ DroppedEnds(r) \/ Monitor(r)
    \/ CollectorPolls \/ CollectorChecks \/ StopCollection \/ FinalizeCollection
    \/ Stop \/ Exit

RsSpec == RsInit /\ [][RsNext]_rsVars

\* The scheduler runs every unit to its end, goroutines that poll go on polling;
\* nothing makes a user stop a collection or the process end.
RsFairSpec ==
    /\ RsSpec
    /\ \A r \in 1..MaxRuns :
         /\ WF_rsVars(r \in DOMAIN run /\ (UnitEnds(r) \/ QueryEnds(r) \/ UnitFails(r) \/ PipelineStops(r)))
         /\ WF_rsVars(r \in DOMAIN run /\ Monitor(r))
    /\ WF_rsVars(CollectorPolls) /\ WF_rsVars(CollectorChecks)

-----------------------------------------------------------------------------
(* Properties *)

\* Every run is at one of its units, and its report counts within what it expects:
\* a report never has more batches than ceil(vms / batchSize), which the store's
\* readers take for the end of it.
RsTypeOK ==
    /\ agent \in {"up", "stopping", "down"} /\ served \in {"v1", "v2"}
    /\ workSrv \in 0..Len(run) /\ Len(report) = Len(run) /\ rsFaults \in 0..MaxFaults
    /\ collector \in {"idle", "polling", "checking", "completed", "failed", "cancelled"}
    /\ \A r \in DOMAIN run :
         /\ run[r].stage \in Stages /\ run[r].end \in Ends
         /\ run[r].dropped \in Stages \cup {"none"} /\ run[r].size > 0
         /\ report[r].written \in 0..report[r].expected
         /\ report[r].expected \in {0, Batches(run[r].vms, run[r].size)}
         /\ report[r].warnings \subseteq Range(run[r].vms)

\* The reports some read answers utilization from: the latest one of a database, or,
\* by its id, one of the agent's.
Answering ==
    {LatestReport(d) : d \in {e \in {0} \cup DOMAIN run :
                                 \/ \E v \in VMIds : GetVMUtilization(e, v) = 200
                                 \/ \E c \in Clusters : GetClusterUtilization(e, c) = 200}}
    \cup {r \in DOMAIN run : \E c \in Clusters : GetRightsizingReportCluster(r, c) = 200}

\* Utilization is answered from whole reports only, although the latest report is
\* chosen by written_batch_count > 0: a report still being written, or left behind by
\* a failure, a stop or a crash, answers 404 for every VM and cluster. Such a report
\* lists every VM asked about, once: GetReport appends the VMs with warnings to those
\* with metrics without looking. A v2 collection that comes to be served answers for
\* exactly the VMs vCenter had data of and the clusters with one that is not excluded.
ServedFromWhole ==
    /\ \A r \in Answering :
         /\ r # 0 /\ report[r].written = report[r].expected
         /\ GetReport(report[r]).metrics \cup GetReport(report[r]).warnings = Range(run[r].vms)
         /\ GetReport(report[r]).metrics \cap GetReport(report[r]).warnings = {}
    /\ \A r \in DOMAIN run : run[r].kind = "v2" /\ run[r].end = "completed" =>
         /\ \A v \in Range(run[r].vms) : GetVMUtilizationV2(r, v) = 200 <=> run[r].results[v] # {}
         /\ \A c \in Clusters : GetClusterUtilizationV2(r, c) = 200 <=>
               \E v \in Range(run[r].vms) \ MigrationExcluded : ClusterOf[v] = c /\ run[r].results[v] # {}

\* Unit 6 of the v1 collection "blocks until it completes", and no longer.
CollectorReturns ==
    collector \in {"polling", "checking"} ~>
        (agent = "down" \/ collector \in {"completed", "failed", "cancelled"})

-----------------------------------------------------------------------------
(* What the repository says and the code does not do *)

\* services/v1/rightsizing.go:349 "Pipeline finished with no error [...] Check
\* IsRunning() to detect clean completion": a run GetStatus calls completed ended
\* without an error. GetStatus reads the error and IsRunning one after the other; a
\* run that fails in between is completed to the collection waiting for it.
CompletedIsClean ==
    collector = "completed" => run[CollectorRun].end = "completed"

\* store/rightsizing.go:358 "the latest completed report (written_batch_count > 0)":
\* the report utilization is read from is one whose run completed.
LatestIsCompleted ==
    \A d \in {0} \cup DOMAIN run :
        LatestReport(d) # 0 /\ (d = 0 \/ run[d].kind # "v2") => run[LatestReport(d)].end = "completed"

-----------------------------------------------------------------------------
(* The inductive invariant of the proofs *)

RunFields == {"kind", "stage", "batch", "size", "discover", "vms", "results", "stop", "end",
              "dropped", "client", "session", "monitor"}
ReportFields == {"expected", "written", "metrics", "warnings", "utilization"}

IsRun(x) == x = [f \in RunFields |-> x[f]]
IsReport(p) == p = [f \in ReportFields |-> p[f]]
IsList(s) == s \in Seq(Range(s))

\* Each run works on a list, in batches that are not empty; a v2 collection's is the
\* inventory. A pipeline that has dropped a unit has ended.
RunOK(x) ==
    /\ IsRun(x)
    /\ x.kind \in {"http", "collector", "v2"} /\ x.stage \in Stages /\ x.end \in Ends
    /\ x.dropped \in (Stages \ {"ended"}) \cup {"none"}
    /\ x.size \in Nat \ {0} /\ x.batch \in Nat \ {0} /\ IsList(x.vms)
    /\ x.kind = "v2" => x.vms = Inventory
    /\ x.stage # "ended" => x.end = "none"
    /\ x.dropped # "none" => x.stage = "ended" /\ x.end = "stopped"

\* The unit whose rows come next: the pipeline's, or the one it has dropped.
UnitOf(x) == IF x.dropped = "none" THEN x.stage ELSE x.dropped

\* The rows of the first k batches.
BatchRows(vms, size, results, k) ==
    UNION {toStoreMetrics(Batch(vms, size, b), results) : b \in 1..k}

\* k batches and the given warnings are in the report.
Has(x, p, k, warnings) ==
    /\ p.written = k /\ p.metrics = BatchRows(x.vms, x.size, x.results, k) /\ p.warnings = warnings

\* All rows but the utilization are there.
Whole(x, p) ==
    /\ p.expected = Batches(x.vms, x.size)
    /\ Has(x, p, Batches(x.vms, x.size), NoData(x.vms, x.results))

\* What is in the report before each unit.
BeforeUnit(x, p) ==
    LET n == Batches(x.vms, x.size)
        u == UnitOf(x)
    IN /\ u \in {"connect", "discover"} =>
             x.kind # "v2" /\ x.vms = <<>> /\ x.batch = 1 /\ p.expected = 0 /\ Has(x, p, 0, {})
       /\ u = "query" => p.expected = n /\ x.batch = 1 /\ Has(x, p, 0, {})
       /\ u = "batch" => p.expected = n /\ x.batch <= n /\ Has(x, p, x.batch - 1, {})
       /\ u = "warnings" => p.expected = n /\ Has(x, p, n, {})
       /\ u = "utilization" => Whole(x, p)
       /\ u # "ended" => p.utilization = {}

ReportOK(x, p) ==
    /\ IsReport(p)
    /\ p.expected \in {0, Batches(x.vms, x.size)} /\ p.written \in 0..p.expected
    /\ p.warnings \subseteq Range(x.vms)
    /\ BeforeUnit(x, p)
    /\ p.utilization # {} => Whole(x, p)
    /\ x.end = "completed" => Whole(x, p) /\ p.utilization = UtilizationRows(p.metrics)

RsInv ==
    /\ served \in {"v1", "v2"} /\ agent \in {"up", "stopping", "down"}
    /\ collector \in {"idle", "polling", "checking", "completed", "failed", "cancelled"}
    /\ rsFaults \in 0..MaxFaults /\ workSrv \in 0..Len(run)
    /\ run \in Seq(Range(run)) /\ report \in Seq(Range(report)) /\ Len(report) = Len(run)
    /\ \A r \in DOMAIN run : RunOK(run[r]) /\ ReportOK(run[r], report[r])
=============================================================================
