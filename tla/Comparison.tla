----------------------------- MODULE Comparison -----------------------------
(***************************************************************************)
(* The comparison of two collections: services/v2/comparison.go and its    *)
(* handlers. A request reads the VMs of one collection, then those of the  *)
(* other, and a user may exclude a VM from migration in between. A client  *)
(* asks for a summary, or walks the pages of one dimension.                *)
(***************************************************************************)
EXTENDS Integers, Sequences, Functions, FiniteSets

CONSTANTS
    CmpVms,           \* VM ids, numbers: ORDER BY "VM ID" is their order
    CmpCluster,       \* the cluster of each VM, "" when it has none
    CmpPairs,         \* the (aId, bId) of a request
    CmpPageSizes,     \* the pageSize of a request, 0 when it is absent
    DefaultPageSize,  \* comparisonDefaultPageSize
    MaxPageSize,      \* comparisonMaxPageSize
    MaxExclusions     \* changes of migration_excluded

ASSUME ComparisonAssumption ==
    /\ IsFiniteSet(CmpVms) /\ CmpVms \subseteq Nat /\ CmpPageSizes \subseteq Int
    /\ {DefaultPageSize, MaxPageSize} \subseteq Nat \ {0} /\ MaxExclusions \in Nat

VARIABLES
    vinfo,            \* per collection, the rows of the VMs it has
    exclusions,       \* changes of migration_excluded so far
    comparing,        \* the request being served
    walked            \* what the walk over the pages has read so far

cmpVars == <<vinfo, exclusions, comparing, walked>>

Dimensions == {"total", "migratable", "non-migratable"}
Sides == {"onlyInA", "onlyInB"}
NoRequest == [pc |-> "idle", op |-> "none", pair |-> <<>>, dimension |-> "total", page |-> 1,
              pageSize |-> 1, since |-> 0, aRows |-> <<>>, bRows |-> <<>>, answer |-> <<>>]
NotWalked == [s \in Sides |-> <<>>]

CmpInit ==
    /\ vinfo \in [{"A", "B"} -> UNION {[S -> [critical : BOOLEAN, excluded : {FALSE}]] : S \in SUBSET CmpVms}]
    /\ exclusions = 0
    /\ comparing = NoRequest
    /\ walked = NotWalked

-----------------------------------------------------------------------------
(* The reads of the store, and the pure part of the service. *)

\* The numbers of a finite set, in their order.
InOrder(S) ==
    CHOOSE f \in [1..Cardinality(S) -> S] : \A i, j \in DOMAIN f : i < j => f[i] < f[j]

\* listForComparisonQuery: the VMs that are not excluded, in the order of their ids.
ListForComparison(c) ==
    LET vms == InOrder({v \in DOMAIN vinfo[c] : ~vinfo[c][v].excluded})
    IN  [i \in DOMAIN vms |-> [vm |-> vms[i], migratable |-> ~vinfo[c][vms[i]].critical]]

\* Excluded VMs count here.
CountDistinctClusters(c) == Cardinality({CmpCluster[v] : v \in DOMAIN vinfo[c]} \ {""})

VmsOf(rows) == {rows[i].vm : i \in DOMAIN rows}
StatusOf(rows) == [v \in VmsOf(rows) |-> \E i \in DOMAIN rows : rows[i].vm = v /\ rows[i].migratable]

\* The ids a loop over the rows has appended when it did so at the given positions.
Picked(rows, at) == [k \in 1..Cardinality(at) |-> rows[InOrder(at)[k]].vm]

\* computeDiffSets: the loop over A also records, for B, the VMs whose status changed.
Absent(rows, other) == {i \in DOMAIN rows : rows[i].vm \notin DOMAIN other}
AbsentWith(rows, other, m) == {i \in Absent(rows, other) : rows[i].migratable = m}
Flipped(rows, other, m) == {i \in DOMAIN rows \ Absent(rows, other) : rows[i].migratable = m /\ other[rows[i].vm] # m}

computeDiffSets(aRows, bRows) ==
    LET aMap == StatusOf(aRows)
        bMap == StatusOf(bRows)
        onlyA(m) == Picked(aRows, AbsentWith(aRows, bMap, m) \cup Flipped(aRows, bMap, m))
        onlyB(m) == Picked(aRows, Flipped(aRows, bMap, ~m)) \o Picked(bRows, AbsentWith(bRows, aMap, m))
    IN  [onlyInA |-> [d \in Dimensions |-> IF d = "total" THEN Picked(aRows, Absent(aRows, bMap))
                                           ELSE onlyA(d = "migratable")],
         onlyInB |-> [d \in Dimensions |-> IF d = "total" THEN Picked(bRows, Absent(bRows, aMap))
                                           ELSE onlyB(d = "migratable")]]

countWhere(rows, migratable) == Cardinality({i \in DOMAIN rows : rows[i].migratable = migratable})

AtLeast(n, x) == IF x < n THEN n ELSE x
AtMost(n, x) == IF x > n THEN n ELSE x

\* Mutant: the last page is lost when it is not full.
paginateIDsFloor(ids, page, pageSize) ==
    LET p == AtLeast(1, page)
        size == AtLeast(1, pageSize)
        pageCount == Len(ids) \div size
        first == (p - 1) * size
    IN  [total |-> Len(ids), page |-> p, pageCount |-> pageCount,
         vmIds |-> IF p > pageCount THEN <<>> ELSE SubSeq(ids, first + 1, AtMost(Len(ids), first + size))]

\* paginateIDs.
paginateIDs(ids, page, pageSize) ==
    LET p == AtLeast(1, page)
        size == AtLeast(1, pageSize)
        pageCount == (Len(ids) + size - 1) \div size
        first == (p - 1) * size
    IN  [total |-> Len(ids), page |-> p, pageCount |-> pageCount,
         vmIds |-> IF p > pageCount THEN <<>> ELSE SubSeq(ids, first + 1, AtMost(Len(ids), first + size))]

-----------------------------------------------------------------------------
(* The requests. *)

\* UpdateMigrationExcluded, of a user of either collection.
ChangeExclusion(c, v) ==
    /\ exclusions < MaxExclusions
    /\ v \in DOMAIN vinfo[c]
    /\ vinfo' = [vinfo EXCEPT ![c][v].excluded = ~@]
    /\ exclusions' = exclusions + 1
    /\ UNCHANGED <<comparing, walked>>

\* ServiceManager.ComparisonService, behind the handlers' own checks.
Comparable(pair) == pair[1] # pair[2] /\ {pair[1], pair[2]} \subseteq DOMAIN vinfo
Asked(request, pair) ==
    IF Comparable(pair) THEN [request EXCEPT !.pc = "loadA", !.pair = pair, !.since = exclusions]
    ELSE [NoRequest EXCEPT !.pc = "refused"]

\* CompareCollections.
CompareCollections(pair) ==
    /\ comparing.pc = "idle"
    /\ comparing' = Asked([NoRequest EXCEPT !.op = "summary"], pair)
    /\ UNCHANGED <<vinfo, exclusions, walked>>

\* CompareCollectionsDiff: the first page of a walk.
CompareCollectionsDiff(pair, dimension, pageSize) ==
    /\ comparing.pc = "idle"
    /\ LET size == IF pageSize > 0 THEN AtMost(MaxPageSize, pageSize) ELSE DefaultPageSize
       IN  comparing' = Asked([NoRequest EXCEPT !.op = "diff", !.dimension = dimension, !.pageSize = size], pair)
    /\ UNCHANGED <<vinfo, exclusions, walked>>

\* loadBothCollections, its two queries.
LoadA ==
    /\ comparing.pc = "loadA"
    /\ comparing' = [comparing EXCEPT !.pc = "loadB", !.aRows = ListForComparison(comparing.pair[1])]
    /\ UNCHANGED <<vinfo, exclusions, walked>>
LoadB ==
    /\ comparing.pc = "loadB"
    /\ comparing' = [comparing EXCEPT !.pc = "compute", !.bRows = ListForComparison(comparing.pair[2])]
    /\ UNCHANGED <<vinfo, exclusions, walked>>

Aggregate(c, rows) ==
    [total |-> Len(rows), migratable |-> countWhere(rows, TRUE), nonMigratable |-> countWhere(rows, FALSE),
     clusters |-> CountDistinctClusters(c)]

\* One line of the summary.
Entry(a, b, onlyInA, onlyInB) == [delta |-> b - a, onlyInA |-> Len(onlyInA), onlyInB |-> Len(onlyInB)]

\* The entries of the dimensions.
DiffEntries(aRows, bRows) ==
    LET sets == computeDiffSets(aRows, bRows)
        entry(d, x, y) == Entry(x, y, sets.onlyInA[d], sets.onlyInB[d])
    IN  [d \in Dimensions |->
           CASE d = "total" -> entry(d, Len(aRows), Len(bRows))
             [] d = "migratable" -> entry(d, countWhere(aRows, TRUE), countWhere(bRows, TRUE))
             [] d = "non-migratable" -> entry(d, countWhere(aRows, FALSE), countWhere(bRows, FALSE))]

\* Summary. The cluster counts are two more queries, of what no user changes.
Summary ==
    /\ comparing.pc = "compute" /\ comparing.op = "summary"
    /\ LET a == Aggregate(comparing.pair[1], comparing.aRows)
           b == Aggregate(comparing.pair[2], comparing.bRows)
       IN  comparing' = [comparing EXCEPT !.pc = "answered",
                           !.answer = [a |-> a, b |-> b, diff |-> DiffEntries(comparing.aRows, comparing.bRows),
                                       clusters |-> b.clusters - a.clusters]]
    /\ UNCHANGED <<vinfo, exclusions, walked>>

\* Diff, one page of both sides.
DiffPage(aRows, bRows, dimension, page, pageSize) ==
    [s \in Sides |-> paginateIDs(computeDiffSets(aRows, bRows)[s][dimension], page, pageSize)]

Diff ==
    /\ comparing.pc = "compute" /\ comparing.op = "diff"
    /\ LET page == DiffPage(comparing.aRows, comparing.bRows, comparing.dimension, comparing.page, comparing.pageSize)
       IN  /\ comparing' = [comparing EXCEPT !.pc = "answered", !.answer = page]
           /\ walked' = [s \in Sides |-> walked[s] \o page[s].vmIds]
    /\ UNCHANGED <<vinfo, exclusions>>

LastPage == \A s \in Sides : comparing.page >= comparing.answer[s].pageCount

\* The client asks for the next page: a new request, with the same parameters.
NextPage ==
    /\ comparing.pc = "answered" /\ comparing.op = "diff" /\ ~LastPage
    /\ comparing' = [comparing EXCEPT !.pc = "loadA", !.page = @ + 1, !.aRows = <<>>, !.bRows = <<>>, !.answer = <<>>]
    /\ UNCHANGED <<vinfo, exclusions, walked>>

CmpNext ==
    \/ \E c \in DOMAIN vinfo, v \in CmpVms : ChangeExclusion(c, v)
    \/ \E pair \in CmpPairs : CompareCollections(pair)
    \/ \E pair \in CmpPairs, d \in Dimensions, n \in CmpPageSizes : CompareCollectionsDiff(pair, d, n)
    \/ LoadA \/ LoadB \/ Summary \/ Diff \/ NextPage

CmpSpec == CmpInit /\ [][CmpNext]_cmpVars

-----------------------------------------------------------------------------
(* Properties. *)

\* What a VM of a collection satisfies: no user has changed anything since the request began.
Satisfies(c, v, d) ==
    /\ v \in DOMAIN vinfo[c] /\ ~vinfo[c][v].excluded
    /\ d = "migratable" => ~vinfo[c][v].critical
    /\ d = "non-migratable" => vinfo[c][v].critical
Undisturbed == comparing.since = exclusions
OnlyIn(c, other, d) == {v \in CmpVms : Satisfies(c, v, d) /\ ~Satisfies(other, v, d)}

\* When no exclusion changed meanwhile, a walk over the pages of a dimension, whatever
\* the size of the pages, lists exactly the VMs that satisfy it in one collection and
\* not in the other, each once, and the summary counts the same VMs, with the change
\* of the aggregates they add up to (computeDiffSets, paginateIDs, Summary).
AnswersExact ==
    comparing.pc = "answered" /\ Undisturbed =>
        LET Only(s, d) == IF s = "onlyInA" THEN OnlyIn(comparing.pair[1], comparing.pair[2], d)
                          ELSE OnlyIn(comparing.pair[2], comparing.pair[1], d)
        IN /\ comparing.op = "diff" /\ LastPage =>
                  \A s \in Sides : /\ Range(walked[s]) = Only(s, comparing.dimension)
                                    /\ IsInjective(walked[s])
           /\ comparing.op = "summary" =>
                  \A d \in Dimensions :
                      /\ \A s \in Sides : comparing.answer.diff[d][s] = Cardinality(Only(s, d))
                      /\ comparing.answer.diff[d].delta = comparing.answer.diff[d].onlyInB - comparing.answer.diff[d].onlyInA

\* What a test says (comparison_test.go:140, "does not count excluded VMs in any
\* aggregate or diff") and the code does not do: clusters of excluded VMs are counted.
ExcludedNotCounted ==
    comparing.pc = "answered" /\ comparing.op = "summary" /\ Undisturbed =>
        comparing.answer.a.clusters =
            Cardinality({CmpCluster[v] : v \in {w \in DOMAIN vinfo[comparing.pair[1]] :
                                                    ~vinfo[comparing.pair[1]][w].excluded}} \ {""})

-----------------------------------------------------------------------------
(* The inductive invariant of the proofs *)

RequestFields == {"pc", "op", "pair", "dimension", "page", "pageSize", "since", "aRows", "bRows", "answer"}

\* The request has been accepted, and is not over before its last page.
BeingServed == comparing.pc \in {"loadA", "loadB", "compute", "answered"}

\* The types of the variables.
CmpTypeOK ==
    /\ vinfo \in [{"A", "B"} -> UNION {[S -> [critical : BOOLEAN, excluded : BOOLEAN]] : S \in SUBSET CmpVms}]
    /\ exclusions \in Nat
    /\ comparing = [f \in RequestFields |-> comparing[f]]
    /\ comparing.pc \in {"idle", "refused", "loadA", "loadB", "compute", "answered"}
    /\ comparing.since \in 0..exclusions
    /\ comparing.page \in Nat \ {0} /\ comparing.pageSize \in Nat \ {0}
    /\ comparing.dimension \in Dimensions

\* The rows of the two collections of the request, as they are now.
RowsA == ListForComparison(comparing.pair[1])
RowsB == ListForComparison(comparing.pair[2])

\* The first k pages of a list.
FirstPages(ids, size, k) == SubSeq(ids, 1, AtMost(Len(ids), k * size))

\* The pages the walk has read.
PagesRead == IF comparing.pc = "answered" THEN comparing.page ELSE comparing.page - 1

\* What the walk has read is the first pages of the lists as they are now.
WalkIsCurrent ==
    \A s \in Sides : walked[s] =
        FirstPages(computeDiffSets(RowsA, RowsB)[s][comparing.dimension], comparing.pageSize, PagesRead)

\* Nothing has changed since the request, or the walk it belongs to, began: what was
\* read is what there is.
ReadIsCurrent ==
    /\ comparing.pc \in {"loadB", "compute"} => comparing.aRows = RowsA
    /\ comparing.pc = "compute" => comparing.bRows = RowsB
    /\ comparing.op = "diff" => WalkIsCurrent
    /\ comparing.op = "diff" /\ comparing.pc = "answered" =>
          comparing.answer = DiffPage(RowsA, RowsB, comparing.dimension, comparing.page, comparing.pageSize)
    /\ comparing.op = "summary" /\ comparing.pc = "answered" =>
          comparing.answer.diff = DiffEntries(RowsA, RowsB)

\* The walk has not begun before the request, its collections exist, and it reads what there is.
CmpInv ==
    /\ CmpTypeOK
    /\ comparing.pc = "idle" => walked = NotWalked
    /\ BeingServed => {comparing.pair[1], comparing.pair[2]} \subseteq DOMAIN vinfo
    /\ BeingServed /\ Undisturbed => ReadIsCurrent
=============================================================================
