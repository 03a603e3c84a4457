---------------------------- MODULE Forecast_proofs ----------------------------
(***************************************************************************)
(* Proofs, for any number of requests, datastore pairs, iterations, pools  *)
(* and faults, of the safety properties of Forecast: a benchmark leaves    *)
(* nothing on the datastores but what nobody can know of, nothing of it    *)
(* happens after Stop, and there is one forecast at a time.                *)
(***************************************************************************)
EXTENDS Forecast, TLAPS

-----------------------------------------------------------------------------
(* The types of what a step of a pair changes. *)

LEMMA Constants ==
    /\ Iterations \in Nat /\ Iterations >= 1 /\ Last \in Nat /\ Last = 5 + Iterations
    /\ NoJob \in JobValues /\ NoPipe \in PipeValues /\ NoBuilder \in BuilderValues
    /\ NoJob.call = "none" /\ ~NoJob.dropped /\ ~NoJob.appended /\ NoJob.unit = 0
    /\ NoPipe.pc = "none" /\ NoPipe.unit = 0 /\ NoPipe.runs = 0
BY ForecastAssumption
   DEF Last, NoJob, NoPipe, NoBuilder, JobValues, PipeValues, BuilderValues, Calls, Kinds

\* A new value for one pair.
LEMMA PairUpdate ==
    ASSUME NEW S, NEW f \in [Pools -> [Pairs -> S]], NEW p \in Pools, NEW x \in Pairs, NEW v \in S,
           NEW g, g = [f EXCEPT ![p][x] = v]
    PROVE  /\ g \in [Pools -> [Pairs -> S]] /\ g[p][x] = v
           /\ \A q \in Pools, y \in Pairs : <<q, y>> # <<p, x>> => g[q][y] = f[q][y]
OBVIOUS

\* What follows a call in its unit.
LEMMA CallOrder ==
    ASSUME NEW x \in Pairs, NEW c \in Calls
    PROVE  /\ AfterCall(x, c) \in Calls
           /\ AfterCall(x, c) \notin {"none", "tempDir", "validate", "host", "disk", "clone"}
           /\ AfterCall(x, c) \in {"srcdir", "tgtdir"} => c \in {"tempDir", "srcdir"}
           /\ AfterCall(x, c) = "unclone" => c = "clone"
           /\ AfterCall(x, c) = "insert" => c = "unclone"
           /\ c = "vm" => AfterCall(x, c) = "destroy"
           /\ c = "clone" => AfterCall(x, c) = "unclone"
           /\ c = "image" => AfterCall(x, c) = "cleanup"
<1>1. CASE c = "srcdir" /\ x \notin SameDatastore
  BY <1>1 DEF AfterCall, Calls, Kinds
<1>2. CASE c = "srcdir" /\ x \in SameDatastore
  BY <1>2 DEF AfterCall, Calls, Kinds
<1>3. CASE c \in {"host", "image", "tempDir"}
  BY <1>3 DEF AfterCall, Calls, Kinds
<1>4. CASE c \in {"disk", "vm", "clone", "unclone"}
  BY <1>4 DEF AfterCall, Calls, Kinds
<1>5. CASE c \in {"tgtdir", "validate", "cleanup", "destroy", "insert", "return", "none"}
  BY <1>5 DEF AfterCall, Calls, Kinds
<1>6. QED
  BY <1>1, <1>2, <1>3, <1>4, <1>5 DEF Calls, Kinds

LEMMA FirstCalls ==
    ASSUME NEW u \in 1..Last
    PROVE  /\ FirstCall(u) \in Calls \ {"none", "unclone", "insert", "cleanup", "destroy"}
           /\ FirstCall(u) = "tempDir" <=> u = 3
           /\ FirstCall(u) \in {"srcdir", "tgtdir", "disk"} => u >= 3
           /\ FirstCall(u) = "clone" => u \in 5..(4 + Iterations)
BY Constants DEF FirstCall, Calls, Kinds

\* The rest of the state during a step of pair x of pool p.
PairFrame(p, x) ==
    /\ UNCHANGED <<serviceVars, poolVars, req, sessions>>
    /\ pipe' \in [Pools -> [Pairs -> PipeValues]]
    /\ job' \in [Pools -> [Pairs -> JobValues]]
    /\ builder' \in [Pools -> [Pairs -> BuilderValues]]
    /\ objects' \subseteq Pools \X Pairs \X Kinds /\ leaks' \subseteq Pools \X Pairs \X Kinds
    /\ rows' \subseteq Pools \X Pairs \X (1..Iterations)
    /\ faults' \in 0..MaxFaults
    /\ \A q \in Pools, y \in Pairs : <<q, y>> # <<p, x>> =>
          /\ pipe'[q][y] = pipe[q][y] /\ job'[q][y] = job[q][y] /\ builder'[q][y] = builder[q][y]
          /\ \A k \in Kinds : Owed(q, y, k)' => Owed(q, y, k)
    /\ pipe[p][x].pc # "none" /\ pipe'[p][x].pc # "none"
    /\ pipe[p][x].pc = "done" => pipe'[p][x].pc = "done" /\ job[p][x] # NoJob

\* Such a step keeps the invariant of the other pairs and of the pools.
LEMMA PairStepKeeps ==
    ASSUME IndInv, NEW p \in Pools, NEW x \in Pairs, PairFrame(p, x), PairInv(p, x)'
    PROVE  IndInv'
<1>1. TypeOK'
  BY DEF IndInv, TypeOK, PairFrame, serviceVars, poolVars
<1>2. RequestsBound'
  BY DEF IndInv, RequestsBound, PairFrame
<1>3. ASSUME NEW q \in Pools PROVE PoolEnds(q)'
  <2>0. run'[q] = run[q] /\ sched'[q] = sched[q]
    BY DEF PairFrame, poolVars
  <2>1. PoolEnds(q)
    BY DEF IndInv
  <2>2. CASE q # p
    <3>1. \A y \in Pairs : pipe'[q][y] = pipe[q][y] /\ job'[q][y] = job[q][y]
      BY <2>2 DEF PairFrame
    <3>2. QED
      BY <2>0, <2>1, <3>1 DEF PoolEnds
  <2>3. CASE q = p
    <3>1. run[p] # "none" /\ sched[p] # "closed"
      BY <2>1, <2>3 DEF PoolEnds, PairFrame
    <3>2. ASSUME run[p] = "closed", NEW y \in Pairs PROVE pipe'[p][y].pc \in {"none", "done"}
      <4>1. pipe[p][y].pc \in {"none", "done"}
        BY <2>1, <2>3, <3>2 DEF PoolEnds
      <4>2. QED
        BY <4>1 DEF PairFrame
    <3>3. QED
      BY <2>0, <2>3, <3>1, <3>2 DEF PoolEnds
  <2>4. QED
    BY <2>2, <2>3
<1>4. ASSUME NEW q \in Pools, NEW y \in Pairs PROVE PairInv(q, y)'
  <2>1. CASE q = p /\ y = x
    BY <2>1
  <2>2. CASE ~ (q = p /\ y = x)
    <3>1. /\ pipe'[q][y] = pipe[q][y] /\ job'[q][y] = job[q][y] /\ builder'[q][y] = builder[q][y]
          /\ \A k \in Kinds : Owed(q, y, k)' => Owed(q, y, k)
      BY <2>2 DEF PairFrame
    <3>2. PairInv(q, y)
      BY DEF IndInv
    <3>3. ObjectsOwed(q, y)'
      <4>1. ASSUME NEW k \in Kinds, Owed(q, y, k)'
            PROVE  DeletedLater(k, pipe'[q][y], job'[q][y], builder'[q][y])
        BY <3>1, <3>2, <4>1 DEF PairInv, ObjectsOwed
      <4>2. QED
        BY <4>1 DEF ObjectsOwed, DeletedLater
    <3>4. WorkerFollows(pipe[q][y], job[q][y])' /\ UnitsCounted(pipe[q][y], job[q][y])'
          /\ TempDirSet(pipe[q][y], job[q][y], builder[q][y])'
      BY <3>1, <3>2 DEF PairInv, WorkerFollows, UnitsCounted, TempDirSet
    <3>5. QED
      BY <3>3, <3>4 DEF PairInv
  <2>3. QED
    BY <2>1, <2>2
<1>5. QED
  BY <1>1, <1>2, <1>3, <1>4 DEF IndInv

\* The objects of pair x of pool p of the kinds K.
Own(p, x, K) == {<<p, x, k>> : k \in K}

\* Somebody deletes what is owed once S is made, D is deleted and L is given up.
Provided(p, x, S, D, L, P, j, b) ==
    \A k \in Kinds :
        (Owed(p, x, k) \/ (k \in S /\ <<p, x, k>> \notin leaks)) /\ k \notin D /\ k \notin L
            => DeletedLater(k, P, j, b)

\* A step that gives pair x of pool p new values, makes S, deletes D and gives up
\* on L.
LEMMA PairStep ==
    ASSUME IndInv, NEW p \in Pools, NEW x \in Pairs,
           NEW P2 \in PipeValues, NEW j2 \in JobValues, NEW b2 \in BuilderValues,
           NEW S \in SUBSET Kinds, NEW D \in SUBSET Kinds, NEW L \in SUBSET Kinds,
           pipe' = [pipe EXCEPT ![p][x] = P2], job' = [job EXCEPT ![p][x] = j2],
           builder' = [builder EXCEPT ![p][x] = b2],
           objects' = (objects \cup Own(p, x, S)) \ Own(p, x, D),
           leaks' = leaks \cup Own(p, x, L),
           rows' \subseteq Pools \X Pairs \X (1..Iterations), faults' \in 0..MaxFaults,
           UNCHANGED <<serviceVars, poolVars, req, sessions>>,
           pipe[p][x].pc # "none", P2.pc # "none",
           pipe[p][x].pc = "done" => P2.pc = "done" /\ job[p][x] # NoJob,
           WorkerFollows(P2, j2), UnitsCounted(P2, j2), TempDirSet(P2, j2, b2),
           Provided(p, x, S, D, L, P2, j2, b2)
    PROVE  IndInv'
<1>0. TypeOK
  BY DEF IndInv
<1>1. /\ pipe' \in [Pools -> [Pairs -> PipeValues]] /\ pipe'[p][x] = P2
      /\ \A q \in Pools, y \in Pairs : <<q, y>> # <<p, x>> => pipe'[q][y] = pipe[q][y]
  <2>1. pipe \in [Pools -> [Pairs -> PipeValues]]
    BY <1>0 DEF TypeOK
  <2>2. QED
    BY <2>1, PairUpdate
<1>2. /\ job' \in [Pools -> [Pairs -> JobValues]] /\ job'[p][x] = j2
      /\ \A q \in Pools, y \in Pairs : <<q, y>> # <<p, x>> => job'[q][y] = job[q][y]
  <2>1. job \in [Pools -> [Pairs -> JobValues]]
    BY <1>0 DEF TypeOK
  <2>2. QED
    BY <2>1, PairUpdate
<1>3. /\ builder' \in [Pools -> [Pairs -> BuilderValues]] /\ builder'[p][x] = b2
      /\ \A q \in Pools, y \in Pairs : <<q, y>> # <<p, x>> => builder'[q][y] = builder[q][y]
  <2>1. builder \in [Pools -> [Pairs -> BuilderValues]]
    BY <1>0 DEF TypeOK
  <2>2. QED
    BY <2>1, PairUpdate
<1>4. /\ objects' \subseteq Pools \X Pairs \X Kinds /\ leaks' \subseteq Pools \X Pairs \X Kinds
      /\ \A q \in Pools, y \in Pairs : <<q, y>> # <<p, x>> =>
            \A k \in Kinds : Owed(q, y, k)' => Owed(q, y, k)
      /\ \A k \in Kinds : Owed(p, x, k)' <=>
            /\ Owed(p, x, k) \/ (k \in S /\ <<p, x, k>> \notin leaks)
            /\ k \notin D /\ k \notin L
  <2>1. objects' \subseteq Pools \X Pairs \X Kinds /\ leaks' \subseteq Pools \X Pairs \X Kinds
    BY <1>0 DEF TypeOK, Own
  <2>2. ASSUME NEW q \in Pools, NEW y \in Pairs, NEW k \in Kinds, <<q, y>> # <<p, x>>,
               Owed(q, y, k)'
        PROVE  Owed(q, y, k)
    BY <2>2 DEF Owed, Own
  <2>3. ASSUME NEW k \in Kinds
        PROVE  Owed(p, x, k)' <=>
                   /\ Owed(p, x, k) \/ (k \in S /\ <<p, x, k>> \notin leaks)
                   /\ k \notin D /\ k \notin L
    <3>1. <<p, x, k>> \in objects' <=> (<<p, x, k>> \in objects \/ k \in S) /\ k \notin D
      BY DEF Own
    <3>2. <<p, x, k>> \in leaks' <=> <<p, x, k>> \in leaks \/ k \in L
      BY DEF Own
    <3>3. QED
      BY <3>1, <3>2 DEF Owed
  <2>4. QED
    BY <2>1, <2>2, <2>3
<1>5. PairFrame(p, x)
  BY <1>1, <1>2, <1>3, <1>4 DEF PairFrame
<1>6. PairInv(p, x)'
  <2>1. ObjectsOwed(p, x)'
    <3>1. \A k \in Kinds : Owed(p, x, k)' => DeletedLater(k, P2, j2, b2)
      BY <1>4 DEF Provided
    <3>2. QED
      BY <3>1, <1>1, <1>2, <1>3 DEF ObjectsOwed
  <2>2. QED
    BY <2>1, <1>1, <1>2, <1>3 DEF PairInv
<1>7. QED
  BY <1>5, <1>6, PairStepKeeps

\* No change, of a pair or of the objects, is one too.
LEMMA SamePair ==
    ASSUME NEW V, NEW f \in [Pools -> [Pairs -> V]], NEW p \in Pools, NEW x \in Pairs
    PROVE  f = [f EXCEPT ![p][x] = f[p][x]] /\ f[p][x] \in V
OBVIOUS

-----------------------------------------------------------------------------
(* The calls of a worker. *)

\* A worker of pair x changes its call, its error and whether it has appended a
\* run; it makes S, deletes D and gives up on L.
LEMMA WorkerStep ==
    ASSUME IndInv, NEW p \in Pools, NEW x \in Pairs, NEW j2 \in JobValues,
           NEW b2 \in BuilderValues,
           NEW S \in SUBSET Kinds, NEW D \in SUBSET Kinds, NEW L \in SUBSET Kinds,
           pipe' = pipe, job' = [job EXCEPT ![p][x] = j2],
           builder' = [builder EXCEPT ![p][x] = b2],
           objects' = (objects \cup Own(p, x, S)) \ Own(p, x, D),
           leaks' = leaks \cup Own(p, x, L),
           rows' \subseteq Pools \X Pairs \X (1..Iterations), faults' \in 0..MaxFaults,
           UNCHANGED <<serviceVars, poolVars, req, sessions>>,
           job[p][x].call # "none", j2.call # "none",
           j2.unit = job[p][x].unit, j2.dropped = job[p][x].dropped,
           j2.call \notin {"tempDir", "disk", "clone"},
           j2.call \in {"srcdir", "tgtdir"} => job[p][x].call \in {"tempDir", "srcdir"},
           j2.call \in {"unclone", "insert"} => job[p][x].call \in {"clone", "unclone"},
           j2.appended => job[p][x].appended \/ job[p][x].call = "unclone",
           job[p][x].call = "tempDir" \/ builder[p][x].tempDir => b2.tempDir,
           Provided(p, x, S, D, L, pipe[p][x], j2, b2)
    PROVE  IndInv'
<1>0. /\ TypeOK /\ WorkerFollows(pipe[p][x], job[p][x]) /\ UnitsCounted(pipe[p][x], job[p][x])
      /\ TempDirSet(pipe[p][x], job[p][x], builder[p][x])
  BY DEF IndInv, PairInv
<1>1. pipe[p][x] \in PipeValues /\ pipe' = [pipe EXCEPT ![p][x] = pipe[p][x]]
  BY <1>0, SamePair DEF TypeOK
<1>2. job[p][x] # NoJob
  BY Constants
<1>3. pipe[p][x].pc \in {"work", "teardown", "delete", "event", "done"}
  BY <1>0, <1>2 DEF WorkerFollows
<1>4. WorkerFollows(pipe[p][x], j2)
  BY <1>0, <1>2, <1>3 DEF WorkerFollows
<1>5. UnitsCounted(pipe[p][x], j2)
  BY <1>0 DEF UnitsCounted
<1>6. TempDirSet(pipe[p][x], j2, b2)
  BY <1>0, <1>3 DEF TempDirSet
<1>7. QED
  BY <1>1, <1>2, <1>3, <1>4, <1>5, <1>6, PairStep

LEMMA OwnSets ==
    ASSUME NEW p, NEW x, NEW k
    PROVE  Own(p, x, {}) = {} /\ Own(p, x, {k}) = {<<p, x, k>>}
BY DEF Own

\* What the invariant says of pair x.
LEMMA OfPair ==
    ASSUME IndInv, NEW p \in Pools, NEW x \in Pairs
    PROVE  /\ TypeOK
           /\ pipe[p][x] \in PipeValues /\ job[p][x] \in JobValues /\ builder[p][x] \in BuilderValues
           /\ WorkerFollows(pipe[p][x], job[p][x]) /\ UnitsCounted(pipe[p][x], job[p][x])
           /\ TempDirSet(pipe[p][x], job[p][x], builder[p][x])
           /\ \A k \in Kinds : Owed(p, x, k) =>
                 DeletedLater(k, pipe[p][x], job[p][x], builder[p][x])
<1>1. TypeOK /\ PairInv(p, x)
  BY DEF IndInv
<1>2. QED
  BY <1>1 DEF TypeOK, PairInv, ObjectsOwed

\* A unit goes on to its next call with the builder as it is.
LEMMA NextCall ==
    ASSUME IndInv, NEW p \in Pools, NEW x \in Pairs, NEW j2 \in JobValues,
           NEW S \in SUBSET Kinds, NEW D \in SUBSET Kinds, NEW L \in SUBSET Kinds,
           NEW c \in Calls, c = job[p][x].call, c \notin {"none", "tempDir"},
           j2.call \in {AfterCall(x, c), "return"} \/ (c = "destroy" /\ j2.call = c),
           j2.unit = job[p][x].unit, j2.dropped = job[p][x].dropped,
           j2.appended => job[p][x].appended \/ c = "unclone",
           job' = [job EXCEPT ![p][x] = j2], UNCHANGED <<pipe, builder>>,
           objects' = (objects \cup Own(p, x, S)) \ Own(p, x, D), leaks' = leaks \cup Own(p, x, L),
           rows' \subseteq Pools \X Pairs \X (1..Iterations), faults' \in 0..MaxFaults,
           UNCHANGED <<serviceVars, poolVars, req, sessions>>,
           Provided(p, x, S, D, L, pipe[p][x], j2, builder[p][x])
    PROVE  IndInv'
<1>1. /\ builder[p][x] \in BuilderValues /\ builder' = [builder EXCEPT ![p][x] = builder[p][x]]
  BY SamePair DEF IndInv, TypeOK
<1>2. /\ j2.call \notin {"none", "tempDir", "disk", "clone"}
      /\ j2.call \in {"srcdir", "tgtdir"} => c = "srcdir"
      /\ j2.call \in {"unclone", "insert"} => c \in {"clone", "unclone"}
  BY CallOrder
<1>3. QED
  BY <1>1, <1>2, WorkerStep

LEMMA MakesStep ==
    ASSUME IndInv, NEW p \in Pools, NEW x \in Pairs, NEW c \in Kinds, Makes(p, x, c)
    PROVE  IndInv'
<1> DEFINE j == job[p][x]
           j2 == [j EXCEPT !.call = AfterCall(x, c)]
           L == IF j.dropped THEN {c} ELSE {}
<1>0. /\ j \in JobValues /\ j.call = c /\ c \in Calls
      /\ WorkerFollows(pipe[p][x], j) /\ UnitsCounted(pipe[p][x], j)
      /\ TempDirSet(pipe[p][x], j, builder[p][x])
      /\ \A k \in Kinds : Owed(p, x, k) => DeletedLater(k, pipe[p][x], j, builder[p][x])
  BY OfPair DEF Makes, Calls
<1>1. /\ AfterCall(x, c) \in Calls /\ (c = "vm" => AfterCall(x, c) = "destroy")
      /\ (c = "clone" => AfterCall(x, c) = "unclone") /\ (c = "image" => AfterCall(x, c) = "cleanup")
  BY <1>0, CallOrder
<1>2. /\ j2 \in JobValues /\ j2.call = AfterCall(x, c) /\ j2.unit = j.unit
      /\ j2.dropped = j.dropped /\ j2.appended = j.appended
  BY <1>0, <1>1 DEF JobValues
<1>3. job' = [job EXCEPT ![p][x] = j2]
  BY DEF Makes
<1>4. objects' = (objects \cup Own(p, x, {c})) \ Own(p, x, {}) /\ leaks' = leaks \cup Own(p, x, L)
  BY OwnSets DEF Makes, Create, Unheard
<1>5. /\ rows' \subseteq Pools \X Pairs \X (1..Iterations) /\ faults' \in 0..MaxFaults
      /\ UNCHANGED <<pipe, builder, serviceVars, poolVars, req, sessions>>
  BY DEF Makes, IndInv, TypeOK
<1>6. ~j.dropped /\ c \in {"srcdir", "tgtdir", "disk"} => builder[p][x].tempDir
  <2>1. j # NoJob
    BY <1>0, Constants DEF Kinds
  <2>2. SUFFICES ASSUME ~j.dropped, c \in {"srcdir", "tgtdir", "disk"} PROVE builder[p][x].tempDir
    OBVIOUS
  <2>3. pipe[p][x].pc = "work" /\ pipe[p][x].unit = j.unit /\ j.unit >= 3
    BY <1>0, <2>1, <2>2 DEF WorkerFollows, UnitsCounted
  <2>4. j.unit \in Int
    BY <1>0, Constants DEF JobValues
  <2>5. QED
    BY <1>0, <2>2, <2>3, <2>4 DEF TempDirSet
<1>7. ~j.dropped => pipe[p][x].pc = "work"
  BY <1>0, Constants DEF WorkerFollows, Kinds
<1>8. Provided(p, x, {c}, {}, L, pipe[p][x], j2, builder[p][x])
  <2>1. ASSUME NEW k \in Kinds, k # c, Owed(p, x, k)
        PROVE  DeletedLater(k, pipe[p][x], j2, builder[p][x])
    <3>1. DeletedLater(k, pipe[p][x], j, builder[p][x])
      BY <1>0, <2>1
    <3>2. k \notin {"vm", "clone"} /\ j.call # "cleanup"
      BY <1>0, <3>1 DEF DeletedLater, Kinds
    <3>3. QED
      BY <3>1, <3>2 DEF DeletedLater
  <2>2. ASSUME ~j.dropped PROVE DeletedLater(c, pipe[p][x], j2, builder[p][x])
    BY <1>1, <1>2, <1>6, <1>7, <2>2 DEF DeletedLater
  <2>3. QED
    BY <2>1, <2>2 DEF Provided
<1>9. L \in SUBSET Kinds /\ {c} \in SUBSET Kinds /\ c \notin {"none", "tempDir"}
  BY DEF Kinds
<1> HIDE DEF j2, L
<1>10. QED
  BY <1>0, <1>2, <1>3, <1>4, <1>5, <1>8, <1>9, NextCall

LEMMA AssignsStep ==
    ASSUME IndInv, NEW p \in Pools, NEW x \in Pairs, CallAssigns(p, x)
    PROVE  IndInv'
<1> DEFINE j == job[p][x]
           c == j.call
           b == builder[p][x]
           j2 == [j EXCEPT !.call = AfterCall(x, c)]
           b2 == [[b EXCEPT !.tempDir = @ \/ c = "tempDir"] EXCEPT !.cleanup = @ \/ c = "cleanup"]
<1>0. /\ TypeOK /\ j \in JobValues /\ b \in BuilderValues
      /\ c \in {"tempDir", "cleanup"} /\ c \in Calls
      /\ WorkerFollows(pipe[p][x], j)
      /\ \A k \in Kinds : Owed(p, x, k) => DeletedLater(k, pipe[p][x], j, b)
  BY OfPair DEF CallAssigns, Calls
<1>1. /\ AfterCall(x, c) \in Calls
      /\ AfterCall(x, c) \notin {"none", "tempDir", "disk", "clone", "unclone", "insert"}
      /\ AfterCall(x, c) \in {"srcdir", "tgtdir"} => c \in {"tempDir", "srcdir"}
  BY <1>0, CallOrder
<1>2. /\ j2 \in JobValues /\ j2.call = AfterCall(x, c) /\ j2.unit = j.unit
      /\ j2.dropped = j.dropped /\ j2.appended = j.appended
  BY <1>0, <1>1 DEF JobValues
<1>3. /\ b2 \in BuilderValues /\ (b2.tempDir <=> b.tempDir \/ c = "tempDir")
      /\ (b2.cleanup <=> b.cleanup \/ c = "cleanup")
  BY <1>0 DEF BuilderValues
<1>4. job' = [job EXCEPT ![p][x] = j2] /\ pipe' = pipe
  BY DEF CallAssigns
<1>5. builder' = [builder EXCEPT ![p][x] = b2]
  BY <1>0 DEF CallAssigns, TypeOK, BuilderValues
<1>6. objects' = (objects \cup Own(p, x, {})) \ Own(p, x, {}) /\ leaks' = leaks \cup Own(p, x, {})
  BY OwnSets DEF CallAssigns
<1>7. /\ rows' \subseteq Pools \X Pairs \X (1..Iterations) /\ faults' \in 0..MaxFaults
      /\ UNCHANGED <<serviceVars, poolVars, req, sessions>>
  BY <1>0 DEF CallAssigns, TypeOK
<1>8. Provided(p, x, {}, {}, {}, pipe[p][x], j2, b2)
  <2>1. ASSUME NEW k \in Kinds, Owed(p, x, k) PROVE DeletedLater(k, pipe[p][x], j2, b2)
    <3>1. DeletedLater(k, pipe[p][x], j, b)
      BY <1>0, <2>1
    <3>2. k \notin {"vm", "clone"}
      BY <1>0, <3>1 DEF DeletedLater
    <3>3. c = "cleanup" /\ ~j.dropped => pipe[p][x].pc = "work"
      BY <1>0, Constants DEF WorkerFollows
    <3>4. QED
      BY <1>3, <3>1, <3>2, <3>3 DEF DeletedLater
  <2>2. QED
    BY <2>1 DEF Provided
<1>9. /\ j2 \in JobValues /\ b2 \in BuilderValues /\ {} \in SUBSET Kinds
      /\ j.call # "none" /\ j2.call # "none" /\ j2.call \notin {"tempDir", "disk", "clone"}
      /\ j2.unit = j.unit /\ j2.dropped = j.dropped
      /\ j2.call \in {"unclone", "insert"} => j.call \in {"clone", "unclone"}
      /\ j2.call \in {"srcdir", "tgtdir"} => j.call \in {"tempDir", "srcdir"}
      /\ j2.appended => j.appended \/ j.call = "unclone"
      /\ j.call = "tempDir" \/ builder[p][x].tempDir => b2.tempDir
  BY <1>0, <1>1, <1>2, <1>3
<1> HIDE DEF j2, b2
<1>10. QED
  BY <1>4, <1>5, <1>6, <1>7, <1>8, <1>9, WorkerStep

\* A unit whose call is neither of these keeps what is owed, if it owes neither a
\* VM nor a clone it does not settle now.
LEMMA KeepsOwed ==
    ASSUME IndInv, NEW p \in Pools, NEW x \in Pairs, NEW j2, NEW D, NEW L,
           job[p][x].call # "cleanup",
           job[p][x].call = "destroy" => j2.call = "destroy" \/ "vm" \in D \cup L,
           job[p][x].call = "unclone" => j2.call = "unclone" \/ "clone" \in D \cup L
    PROVE  Provided(p, x, {}, D, L, pipe[p][x], j2, builder[p][x])
<1>1. \A k \in Kinds : Owed(p, x, k) => DeletedLater(k, pipe[p][x], job[p][x], builder[p][x])
  BY OfPair
<1>2. QED
  BY <1>1 DEF Provided, DeletedLater

LEMMA LookupStep ==
    ASSUME IndInv, NEW p \in Pools, NEW x \in Pairs, Lookup(p, x)
    PROVE  IndInv'
<1> DEFINE j == job[p][x]
           j2 == [j EXCEPT !.call = AfterCall(x, j.call)]
<1>0. /\ TypeOK /\ j \in JobValues /\ j.call \in {"validate", "host"} /\ j.call \in Calls
  BY OfPair DEF Lookup, Calls
<1>1. AfterCall(x, j.call) \in Calls
  BY <1>0, CallOrder
<1>2. /\ j2 \in JobValues /\ j2.call = AfterCall(x, j.call) /\ j2.unit = j.unit
      /\ j2.dropped = j.dropped /\ j2.appended = j.appended
  BY <1>0, <1>1 DEF JobValues
<1>3. job' = [job EXCEPT ![p][x] = j2] /\ UNCHANGED <<pipe, builder>>
  BY DEF Lookup
<1>4. objects' = (objects \cup Own(p, x, {})) \ Own(p, x, {}) /\ leaks' = leaks \cup Own(p, x, {})
  BY OwnSets DEF Lookup
<1>5. /\ rows' \subseteq Pools \X Pairs \X (1..Iterations) /\ faults' \in 0..MaxFaults
      /\ UNCHANGED <<serviceVars, poolVars, req, sessions>>
  BY <1>0 DEF Lookup, TypeOK
<1>6. Provided(p, x, {}, {}, {}, pipe[p][x], j2, builder[p][x])
  BY <1>0, KeepsOwed
<1> HIDE DEF j2
<1>7. QED
  BY <1>0, <1>2, <1>3, <1>4, <1>5, <1>6, NextCall

\* A fault is counted within its bound.
LEMMA FaultType ==
    ASSUME TypeOK, Fault \/ UNCHANGED faults
    PROVE  faults' \in 0..MaxFaults
BY ForecastAssumption DEF TypeOK, Fault

LEMMA DeletesStep ==
    ASSUME IndInv, NEW p \in Pools, NEW x \in Pairs, NEW c, NEW kind,
           <<c, kind>> \in {<<"destroy", "vm">>, <<"unclone", "clone">>}, Deletes(p, x, c, kind)
    PROVE  IndInv'
<1> DEFINE j == job[p][x]
           j2 == [[j EXCEPT !.call = AfterCall(x, c)] EXCEPT !.appended = (c = "unclone")]
<1>0. /\ TypeOK /\ j \in JobValues /\ j.call = c /\ c \in Calls /\ c \in {"destroy", "unclone"}
      /\ kind \in Kinds
  BY OfPair DEF Deletes, Calls, Kinds
<1>1. AfterCall(x, c) \in Calls
  BY <1>0, CallOrder
<1>2. /\ j2 \in JobValues /\ j2.call = AfterCall(x, c) /\ j2.unit = j.unit
      /\ j2.dropped = j.dropped /\ (j2.appended <=> c = "unclone")
  BY <1>0, <1>1 DEF JobValues
<1>3. job' = [job EXCEPT ![p][x] = j2] /\ UNCHANGED <<pipe, builder>>
  BY <1>0 DEF Deletes, TypeOK, JobValues
<1>4. PICK D \in SUBSET {kind}, L \in SUBSET {kind} :
         /\ objects' = (objects \cup Own(p, x, {})) \ Own(p, x, D)
         /\ leaks' = leaks \cup Own(p, x, L)
         /\ kind \in D \cup L /\ (Fault \/ UNCHANGED faults)
  <2>1. CASE Delete(p, x, {kind}) /\ UNCHANGED <<leaks, faults>>
    <3>1. objects' = (objects \cup Own(p, x, {})) \ Own(p, x, {kind})
          /\ leaks' = leaks \cup Own(p, x, {})
      BY <2>1, OwnSets DEF Delete, Own
    <3>2. QED
      BY <2>1, <3>1
  <2>2. CASE Fault /\ leaks' = leaks \cup {<<p, x, kind>>} /\ UNCHANGED objects
    <3>1. objects' = (objects \cup Own(p, x, {})) \ Own(p, x, {})
          /\ leaks' = leaks \cup Own(p, x, {kind})
      BY <2>2, OwnSets
    <3>2. QED
      BY <2>2, <3>1
  <2>3. QED
    BY <2>1, <2>2 DEF Deletes
<1>5. /\ rows' \subseteq Pools \X Pairs \X (1..Iterations) /\ faults' \in 0..MaxFaults
      /\ UNCHANGED <<serviceVars, poolVars, req, sessions>>
  BY <1>0, <1>4, FaultType DEF Deletes, TypeOK
<1> HIDE DEF j2
<1>6. Provided(p, x, {}, D, L, pipe[p][x], j2, builder[p][x])
  BY <1>0, <1>4, KeepsOwed
<1>7. D \in SUBSET Kinds /\ L \in SUBSET Kinds
  BY <1>0, <1>4
<1>8. QED
  BY <1>0, <1>2, <1>3, <1>4, <1>5, <1>6, <1>7, NextCall

LEMMA FillFailsStep ==
    ASSUME IndInv, NEW p \in Pools, NEW x \in Pairs, FillFails(p, x)
    PROVE  IndInv'
<1> DEFINE j == job[p][x]
           j2 == [j EXCEPT !.err = TRUE]
<1>0. /\ TypeOK /\ j \in JobValues /\ j.call = "destroy" /\ j.call \in Calls
  BY OfPair DEF FillFails, Calls
<1>2. /\ j2 \in JobValues /\ j2.call = j.call /\ j2.unit = j.unit
      /\ j2.dropped = j.dropped /\ j2.appended = j.appended
  BY <1>0 DEF JobValues
<1>3. job' = [job EXCEPT ![p][x] = j2] /\ UNCHANGED <<pipe, builder>>
  BY DEF FillFails
<1>4. objects' = (objects \cup Own(p, x, {})) \ Own(p, x, {}) /\ leaks' = leaks \cup Own(p, x, {})
  BY OwnSets DEF FillFails
<1>5. /\ rows' \subseteq Pools \X Pairs \X (1..Iterations) /\ faults' \in 0..MaxFaults
      /\ UNCHANGED <<serviceVars, poolVars, req, sessions>>
  BY <1>0, FaultType DEF FillFails, TypeOK
<1> HIDE DEF j2
<1>6. Provided(p, x, {}, {}, {}, pipe[p][x], j2, builder[p][x])
  BY <1>0, <1>2, KeepsOwed
<1>7. QED
  BY <1>0, <1>2, <1>3, <1>4, <1>5, <1>6, NextCall

LEMMA InsertRunStep ==
    ASSUME IndInv, NEW p \in Pools, NEW x \in Pairs, InsertRun(p, x)
    PROVE  IndInv'
<1> DEFINE j == job[p][x]
           j2 == [j EXCEPT !.call = "return"]
<1>0. /\ TypeOK /\ j \in JobValues /\ j.call = "insert" /\ j.call \in Calls
      /\ UnitsCounted(pipe[p][x], j)
  BY OfPair DEF InsertRun, Calls
<1>2. /\ j2 \in JobValues /\ j2.call = "return" /\ j2.unit = j.unit
      /\ j2.dropped = j.dropped /\ j2.appended = j.appended
  BY <1>0 DEF JobValues, Calls
<1>3. job' = [job EXCEPT ![p][x] = j2] /\ UNCHANGED <<pipe, builder>>
  BY DEF InsertRun
<1>4. objects' = (objects \cup Own(p, x, {})) \ Own(p, x, {}) /\ leaks' = leaks \cup Own(p, x, {})
  BY OwnSets DEF InsertRun
<1>5. rows' \subseteq Pools \X Pairs \X (1..Iterations)
  <2>1. j.unit \in 5..(4 + Iterations)
    BY <1>0 DEF UnitsCounted
  <2>2. j.unit - 4 \in 1..Iterations
    BY <2>1, Constants
  <2>3. rows' \subseteq rows \cup {<<p, x, j.unit - 4>>}
    BY DEF InsertRun
  <2>4. QED
    BY <1>0, <2>2, <2>3 DEF TypeOK
<1>6. faults' \in 0..MaxFaults /\ UNCHANGED <<serviceVars, poolVars, req, sessions>>
  BY <1>0, FaultType DEF InsertRun
<1> HIDE DEF j2
<1>7. Provided(p, x, {}, {}, {}, pipe[p][x], j2, builder[p][x])
  BY <1>0, KeepsOwed
<1>8. QED
  BY <1>0, <1>2, <1>3, <1>4, <1>5, <1>6, <1>7, NextCall

LEMMA CallFailsStep ==
    ASSUME IndInv, NEW p \in Pools, NEW x \in Pairs, CallFails(p, x)
    PROVE  IndInv'
<1> DEFINE j == job[p][x]
           c == j.call
           next == IF c = "clone" THEN "unclone" ELSE "return"
           j2 == [[j EXCEPT !.call = next] EXCEPT !.err = (c # "clone")]
<1>0. /\ TypeOK /\ j \in JobValues /\ c \in Kinds \cup {"validate", "host"} /\ c \in Calls
      /\ WorkerFollows(pipe[p][x], j) /\ UnitsCounted(pipe[p][x], j)
      /\ TempDirSet(pipe[p][x], j, builder[p][x])
  BY OfPair DEF CallFails, Calls
<1>1. next \in Calls /\ next \in {AfterCall(x, c), "return"}
  BY <1>0, CallOrder DEF Calls
<1>2. /\ j2 \in JobValues /\ j2.call = next /\ j2.unit = j.unit
      /\ j2.dropped = j.dropped /\ j2.appended = j.appended
  BY <1>0, <1>1 DEF JobValues
<1>3. job' = [job EXCEPT ![p][x] = j2] /\ UNCHANGED <<pipe, builder>>
  BY <1>0 DEF CallFails, TypeOK, JobValues
<1>4. /\ rows' \subseteq Pools \X Pairs \X (1..Iterations) /\ faults' \in 0..MaxFaults
      /\ UNCHANGED <<serviceVars, poolVars, req, sessions>>
  BY <1>0, FaultType DEF CallFails, TypeOK
<1>5. Provided(p, x, {}, {}, {}, pipe[p][x], j2, builder[p][x])
  BY <1>0, KeepsOwed DEF Kinds
<1>6. CASE UNCHANGED <<objects, leaks>>
  <2>1. objects' = (objects \cup Own(p, x, {})) \ Own(p, x, {}) /\ leaks' = leaks \cup Own(p, x, {})
    BY <1>6, OwnSets
  <2> HIDE DEF j2
  <2>2. j2.call \in {AfterCall(x, c), "return"} /\ c \notin {"none", "tempDir"}
    BY <1>0, <1>1, <1>2 DEF Kinds
  <2>3. QED
    BY <1>0, <1>2, <1>3, <1>4, <1>5, <2>1, <2>2, NextCall
<1>7. CASE /\ c \in {"srcdir", "tgtdir", "disk", "vm", "clone"} /\ Create(p, x, c)
           /\ leaks' = IF c = "vm" THEN leaks \cup {<<p, x, c>>} ELSE Unheard(p, x, c)
  <2> DEFINE L == IF c = "vm" \/ j.dropped THEN {c} ELSE {}
  <2>1. /\ objects' = (objects \cup Own(p, x, {c})) \ Own(p, x, {})
        /\ leaks' = leaks \cup Own(p, x, L)
    BY <1>7, OwnSets DEF Create, Unheard
  <2>2. L \in SUBSET Kinds /\ {c} \in SUBSET Kinds /\ c \notin {"none", "tempDir"}
    BY <1>7 DEF Kinds
  <2>3. ~j.dropped /\ c \in {"srcdir", "tgtdir", "disk"} =>
           builder[p][x].tempDir /\ pipe[p][x].pc = "work"
    <3>1. SUFFICES ASSUME ~j.dropped, c \in {"srcdir", "tgtdir", "disk"}
                   PROVE builder[p][x].tempDir /\ pipe[p][x].pc = "work"
      OBVIOUS
    <3>2. pipe[p][x].pc = "work" /\ pipe[p][x].unit = j.unit /\ j.unit >= 3
      BY <1>0, <3>1, Constants DEF WorkerFollows, UnitsCounted
    <3>3. j.unit \in Int
      BY <1>0, Constants DEF JobValues
    <3>4. QED
      BY <1>0, <3>1, <3>2, <3>3 DEF TempDirSet
  <2>4. Provided(p, x, {c}, {}, L, pipe[p][x], j2, builder[p][x])
    <3>1. c \notin L => DeletedLater(c, pipe[p][x], j2, builder[p][x])
      BY <1>2, <1>7, <2>3 DEF DeletedLater
    <3>2. QED
      BY <1>5, <3>1 DEF Provided
  <2>5. j2.call \in {AfterCall(x, c), "return"}
    BY <1>1, <1>2
  <2> HIDE DEF j2, L
  <2>6. QED
    BY <1>0, <1>2, <1>3, <1>4, <2>1, <2>2, <2>4, <2>5, NextCall
<1>8. QED
  BY <1>6, <1>7 DEF CallFails

LEMMA WorkerKeeps ==
    ASSUME IndInv, NEW p \in Pools, NEW x \in Pairs, Worker(p, x)
    PROVE  IndInv'
<1>1. ASSUME NEW c \in Kinds, Makes(p, x, c) PROVE IndInv'
  BY <1>1, MakesStep
<1>2. CASE \/ DeployFillerImage(p, x) \/ CreateDirectory(p, x) \/ CreateDisk(p, x)
           \/ FillDisk(p, x) \/ CopyDisk(p, x)
  BY <1>1, <1>2 DEF DeployFillerImage, CreateDirectory, CreateDisk, FillDisk, CopyDisk, Kinds
<1>3. CASE DestroyVM(p, x) \/ DeleteDisk(p, x)
  BY <1>3, DeletesStep DEF DestroyVM, DeleteDisk
<1>4. CASE Lookup(p, x) \/ CallAssigns(p, x)
  BY <1>4, LookupStep, AssignsStep
<1>5. CASE FillFails(p, x) \/ InsertRun(p, x) \/ CallFails(p, x)
  BY <1>5, FillFailsStep, InsertRunStep, CallFailsStep
<1>6. QED
  BY <1>2, <1>3, <1>4, <1>5 DEF Worker

-----------------------------------------------------------------------------
(* The steps of a pipeline. *)

\* A step of the pipeline that leaves the builder, the objects and the rows.
LEMMA TurnStep ==
    ASSUME IndInv, NEW p \in Pools, NEW x \in Pairs, NEW P2 \in PipeValues, NEW j2 \in JobValues,
           NEW L \in SUBSET Kinds,
           pipe' = [pipe EXCEPT ![p][x] = P2], job' = [job EXCEPT ![p][x] = j2],
           leaks' = leaks \cup Own(p, x, L),
           UNCHANGED <<serviceVars, poolVars, builder, objects, rows, req, sessions, faults>>,
           pipe[p][x].pc # "none", P2.pc # "none",
           pipe[p][x].pc = "done" => P2.pc = "done" /\ job[p][x] # NoJob,
           WorkerFollows(P2, j2), UnitsCounted(P2, j2), TempDirSet(P2, j2, builder[p][x]),
           Provided(p, x, {}, {}, L, P2, j2, builder[p][x])
    PROVE  IndInv'
<1>1. /\ TypeOK /\ builder[p][x] \in BuilderValues
      /\ builder' = [builder EXCEPT ![p][x] = builder[p][x]]
  BY SamePair DEF IndInv, TypeOK
<1>2. objects' = (objects \cup Own(p, x, {})) \ Own(p, x, {})
  BY OwnSets
<1>3. /\ rows' \subseteq Pools \X Pairs \X (1..Iterations) /\ faults' \in 0..MaxFaults
      /\ UNCHANGED <<serviceVars, poolVars, req, sessions>>
  BY <1>1 DEF TypeOK
<1>4. {} \in SUBSET Kinds
  OBVIOUS
<1>5. QED
  BY <1>1, <1>2, <1>3, <1>4, PairStep

\* What is owed stays provided for when the pipeline ends its turn before teardown.
LEMMA TurnKeepsOwed ==
    ASSUME IndInv, NEW p \in Pools, NEW x \in Pairs, NEW P2, NEW j2, NEW L,
           pipe[p][x].pc \in {"next", "work", "teardown"} => P2.pc \in {"next", "work", "teardown"},
           pipe[p][x].pc = "delete" => P2.pc = "delete",
           job[p][x].call \in {"destroy", "unclone"} => j2.call = job[p][x].call,
           job[p][x].call = "cleanup" /\ ~job[p][x].dropped =>
               "image" \in L \/ (j2.call = "cleanup" /\ ~j2.dropped)
    PROVE  Provided(p, x, {}, {}, L, P2, j2, builder[p][x])
<1>1. \A k \in Kinds : Owed(p, x, k) => DeletedLater(k, pipe[p][x], job[p][x], builder[p][x])
  BY OfPair
<1>2. QED
  BY <1>1 DEF Provided, DeletedLater

LEMMA UnitStartStep ==
    ASSUME IndInv, NEW p \in Pools, NEW x \in Pairs, UnitStart(p, x)
    PROVE  IndInv'
<1> DEFINE P == pipe[p][x]
           j == job[p][x]
           u == P.unit + 1
<1>0. /\ TypeOK /\ P \in PipeValues /\ j \in JobValues /\ P.pc = "next"
      /\ WorkerFollows(P, j) /\ UnitsCounted(P, j) /\ TempDirSet(P, j, builder[p][x])
  BY OfPair DEF UnitStart
<1>1. j = NoJob
  BY <1>0 DEF WorkerFollows
<1>2. /\ P.unit \in 0..Last /\ P.runs \in Nat
  BY <1>0, Constants DEF PipeValues
<1>3. /\ leaks' = leaks \cup Own(p, x, {}) /\ {} \in SUBSET Kinds
      /\ UNCHANGED <<serviceVars, poolVars, builder, objects, rows, req, sessions, faults>>
  BY OwnSets DEF UnitStart
<1>4. CASE \/ P.unit = Last /\ pipe' = [pipe EXCEPT ![p][x].pc = "teardown"] /\ job' = job
           \/ /\ P.unit # Last /\ job' = job
              /\ pipe' = [pipe EXCEPT ![p][x].pc = "teardown", ![p][x].unit = u]
  <2>1. PICK v \in 0..Last : /\ v \in {P.unit, u}
                             /\ pipe' = [pipe EXCEPT ![p][x] = [[P EXCEPT !.pc = "teardown"]
                                                                  EXCEPT !.unit = v]]
    <3>1. CASE P.unit = Last /\ pipe' = [pipe EXCEPT ![p][x].pc = "teardown"] /\ job' = job
      <4>1. [P EXCEPT !.pc = "teardown"] = [[P EXCEPT !.pc = "teardown"] EXCEPT !.unit = P.unit]
        BY <1>0 DEF PipeValues
      <4>2. QED
        BY <1>2, <3>1, <4>1
    <3>2. CASE /\ P.unit # Last /\ job' = job
               /\ pipe' = [pipe EXCEPT ![p][x].pc = "teardown", ![p][x].unit = u]
      <4>1. u \in 0..Last
        BY <1>2, <3>2, Constants
      <4>2. pipe' = [pipe EXCEPT ![p][x] = [[P EXCEPT !.pc = "teardown"] EXCEPT !.unit = u]]
        BY <1>0, <3>2 DEF TypeOK, PipeValues
      <4>3. QED
        BY <4>1, <4>2
    <3>3. QED
      BY <1>4, <3>1, <3>2
  <2> DEFINE P2 == [[P EXCEPT !.pc = "teardown"] EXCEPT !.unit = v]
  <2>2. P2 \in PipeValues /\ P2.pc = "teardown" /\ P2.unit = v /\ P2.runs = P.runs
    BY <1>0, <2>1 DEF PipeValues
  <2>3. pipe' = [pipe EXCEPT ![p][x] = P2] /\ job' = [job EXCEPT ![p][x] = j]
    BY <1>0, <1>4, <2>1, SamePair DEF TypeOK
  <2> HIDE DEF P2
  <2>4. /\ WorkerFollows(P2, j) /\ UnitsCounted(P2, j) /\ TempDirSet(P2, j, builder[p][x])
    BY <1>0, <1>1, <1>2, <2>1, <2>2, Constants DEF WorkerFollows, UnitsCounted, TempDirSet
  <2>5. Provided(p, x, {}, {}, {}, P2, j, builder[p][x])
    BY <1>0, <2>2, TurnKeepsOwed
  <2>6. QED
    BY <1>0, <1>3, <2>2, <2>3, <2>4, <2>5, TurnStep
<1>5. CASE /\ P.unit # Last
           /\ pipe' = [pipe EXCEPT ![p][x].pc = "work", ![p][x].unit = u]
           /\ job' = [job EXCEPT ![p][x] = [NoJob EXCEPT !.unit = u, !.call = FirstCall(u)]]
  <2> DEFINE P2 == [[P EXCEPT !.pc = "work"] EXCEPT !.unit = u]
             j2 == [NoJob EXCEPT !.unit = u, !.call = FirstCall(u)]
  <2>1. u \in 1..Last /\ u = P.unit + 1 /\ u \in 0..Last
    BY <1>2, <1>5, Constants
  <2>2. pipe' = [pipe EXCEPT ![p][x] = P2] /\ job' = [job EXCEPT ![p][x] = j2]
    BY <1>0, <1>5 DEF TypeOK, PipeValues
  <2> HIDE DEF u
  <2>3. /\ FirstCall(u) \in Calls /\ FirstCall(u) \notin {"none", "unclone", "insert"}
        /\ FirstCall(u) = "tempDir" <=> u = 3
        /\ FirstCall(u) \in {"srcdir", "tgtdir", "disk"} => u >= 3
        /\ FirstCall(u) = "clone" => u \in 5..(4 + Iterations)
    BY <2>1, FirstCalls
  <2>4. /\ P2 \in PipeValues /\ P2.pc = "work" /\ P2.unit = u /\ P2.runs = P.runs
    BY <1>0, <2>1 DEF PipeValues
  <2>5. j2 \in JobValues /\ j2.call = FirstCall(u) /\ j2.unit = u /\ ~j2.dropped /\ ~j2.appended
    BY <2>1, <2>3, Constants DEF JobValues
  <2> HIDE DEF P2, j2
  <2>6. WorkerFollows(P2, j2)
    BY <2>3, <2>4, <2>5 DEF WorkerFollows
  <2>7. UnitsCounted(P2, j2)
    BY <1>0, <1>2, <2>1, <2>3, <2>4, <2>5 DEF UnitsCounted
  <2>8. TempDirSet(P2, j2, builder[p][x])
    BY <1>0, <1>2, <2>1, <2>3, <2>4, <2>5 DEF TempDirSet
  <2>9. Provided(p, x, {}, {}, {}, P2, j2, builder[p][x])
    BY <1>0, <1>1, <2>4, TurnKeepsOwed, Constants
  <2>10. QED
    BY <1>0, <1>3, <2>4, <2>5, <2>2, <2>6, <2>7, <2>8, <2>9, TurnStep
<1>6. QED
  BY <1>4, <1>5 DEF UnitStart

LEMMA UnitReturnStep ==
    ASSUME IndInv, NEW p \in Pools, NEW x \in Pairs, UnitReturn(p, x)
    PROVE  IndInv'
<1> DEFINE P == pipe[p][x]
           j == job[p][x]
           b == builder[p][x]
<1>0. /\ TypeOK /\ P \in PipeValues /\ j \in JobValues /\ j.call = "return"
      /\ WorkerFollows(P, j) /\ UnitsCounted(P, j) /\ TempDirSet(P, j, b)
  BY OfPair DEF UnitReturn
<1>1. j # NoJob
  BY <1>0, Constants
<1>2. /\ leaks' = leaks \cup Own(p, x, {}) /\ {} \in SUBSET Kinds /\ NoJob \in JobValues
      /\ job' = [job EXCEPT ![p][x] = NoJob]
      /\ UNCHANGED <<serviceVars, poolVars, builder, objects, rows, req, sessions, faults>>
  BY OwnSets, Constants DEF UnitReturn
<1>3. CASE j.dropped
  <2>1. P.pc \in {"teardown", "delete", "event", "done"}
    BY <1>0, <1>1, <1>3 DEF WorkerFollows
  <2>2. pipe' = [pipe EXCEPT ![p][x] = P]
    BY <1>0, <1>3, SamePair DEF UnitReturn, TypeOK
  <2>3. WorkerFollows(P, NoJob) /\ UnitsCounted(P, NoJob) /\ TempDirSet(P, NoJob, b)
    BY <1>0, <2>1, Constants DEF WorkerFollows, UnitsCounted, TempDirSet
  <2>4. Provided(p, x, {}, {}, {}, P, NoJob, b)
    BY <1>0, <1>3, TurnKeepsOwed
  <2>5. QED
    BY <1>0, <1>1, <1>2, <2>1, <2>2, <2>3, <2>4, TurnStep
<1>4. CASE ~j.dropped
  <2> DEFINE more == IF j.appended THEN 1 ELSE 0
             n == P.runs + more
             to == IF j.err THEN "teardown" ELSE "next"
             P2 == [[[P EXCEPT !.pc = to] EXCEPT !.err = j.err] EXCEPT !.runs = n]
  <2>1. P.pc = "work" /\ P.unit = j.unit
    BY <1>0, <1>1, <1>4 DEF WorkerFollows
  <2>2. P.unit \in Nat /\ P.runs \in Nat /\ P.runs \in 0..Iterations
    BY <1>0, Constants DEF PipeValues
  <2>3. /\ j.appended => P.unit \in 5..(4 + Iterations)
        /\ P.runs > 0 => P.runs + 5 <= P.unit
    BY <1>0, <2>1 DEF UnitsCounted
  <2>4. n \in 0..Iterations /\ (n > 0 => n + 4 <= P.unit)
    BY <2>2, <2>3, Constants
  <2>5. pipe' = [pipe EXCEPT ![p][x] = P2]
    BY <1>0, <1>4 DEF UnitReturn, TypeOK, PipeValues
  <2> HIDE DEF n
  <2>6. /\ P2 \in PipeValues /\ P2.pc = to /\ P2.unit = P.unit /\ P2.runs = n
    BY <1>0, <2>4 DEF PipeValues, JobValues
  <2> HIDE DEF P2
  <2>7. WorkerFollows(P2, NoJob) /\ UnitsCounted(P2, NoJob)
    BY <2>4, <2>6, Constants DEF WorkerFollows, UnitsCounted
  <2>8. TempDirSet(P2, NoJob, b)
    BY <1>0, <2>1, <2>2, <2>6 DEF TempDirSet
  <2>9. Provided(p, x, {}, {}, {}, P2, NoJob, b)
    BY <1>0, <2>1, <2>6, TurnKeepsOwed
  <2>10. QED
    BY <1>0, <1>1, <1>2, <2>1, <2>5, <2>6, <2>7, <2>8, <2>9, TurnStep
<1>5. QED
  BY <1>3, <1>4

LEMMA UnitDroppedStep ==
    ASSUME IndInv, NEW p \in Pools, NEW x \in Pairs, UnitDropped(p, x)
    PROVE  IndInv'
<1> DEFINE P == pipe[p][x]
           j == job[p][x]
           b == builder[p][x]
           P2 == [P EXCEPT !.pc = "teardown"]
           j2 == [j EXCEPT !.dropped = TRUE]
           L == IF j.call = "cleanup" THEN {"image"} ELSE {}
<1>0. /\ TypeOK /\ P \in PipeValues /\ j \in JobValues /\ P.pc = "work"
      /\ WorkerFollows(P, j) /\ UnitsCounted(P, j) /\ TempDirSet(P, j, b)
  BY OfPair DEF UnitDropped
<1>1. /\ P2 \in PipeValues /\ P2.pc = "teardown" /\ P2.unit = P.unit /\ P2.runs = P.runs
  BY <1>0 DEF PipeValues
<1>2. /\ j2 \in JobValues /\ j2.call = j.call /\ j2.unit = j.unit /\ j2.appended = j.appended
      /\ j2.dropped
  BY <1>0 DEF JobValues
<1>3. /\ pipe' = [pipe EXCEPT ![p][x] = P2] /\ job' = [job EXCEPT ![p][x] = j2]
      /\ leaks' = leaks \cup Own(p, x, L) /\ L \in SUBSET Kinds
      /\ UNCHANGED <<serviceVars, poolVars, builder, objects, rows, req, sessions, faults>>
  BY OwnSets DEF UnitDropped, Kinds
<1>4. P.unit \in Nat /\ P.runs \in Nat
  BY <1>0, Constants DEF PipeValues
<1> HIDE DEF P2, j2
<1>5. WorkerFollows(P2, j2) /\ UnitsCounted(P2, j2) /\ TempDirSet(P2, j2, b)
  BY <1>0, <1>1, <1>2, <1>4, Constants DEF WorkerFollows, UnitsCounted, TempDirSet
<1>6. Provided(p, x, {}, {}, L, P2, j2, b)
  BY <1>0, <1>1, <1>2, TurnKeepsOwed
<1> HIDE DEF L
<1>7. QED
  BY <1>0, <1>1, <1>2, <1>3, <1>5, <1>6, TurnStep

\* A step of Finalize: the next state of the pipeline, the unit left alone.
LEMMA FinalizeStep ==
    ASSUME IndInv, NEW p \in Pools, NEW x \in Pairs, NEW from, NEW to, NEW b2 \in BuilderValues,
           NEW D \in SUBSET Kinds, NEW L \in SUBSET Kinds,
           <<from, to>> \in {<<"teardown", "delete">>, <<"delete", "event">>, <<"event", "done">>},
           pipe[p][x].pc = from,
           pipe' = [pipe EXCEPT ![p][x].pc = to], builder' = [builder EXCEPT ![p][x] = b2],
           objects' = objects \ Own(p, x, D), leaks' = leaks \cup Own(p, x, L),
           faults' \in 0..MaxFaults,
           UNCHANGED <<serviceVars, poolVars, job, rows, req, sessions>>,
           b2.tempDir = builder[p][x].tempDir,
           from = "teardown" => ~builder[p][x].cleanup \/ "image" \in D \cup L,
           from = "delete" => ~builder[p][x].tempDir \/ {"srcdir", "tgtdir", "disk"} \subseteq D \cup L
    PROVE  IndInv'
<1> DEFINE P == pipe[p][x]
           j == job[p][x]
           P2 == [P EXCEPT !.pc = to]
<1>0. /\ TypeOK /\ P \in PipeValues /\ j \in JobValues
      /\ WorkerFollows(P, j) /\ UnitsCounted(P, j)
      /\ \A k \in Kinds : Owed(p, x, k) => DeletedLater(k, P, j, builder[p][x])
  BY OfPair
<1>1. P2 \in PipeValues /\ P2.pc = to /\ P2.unit = P.unit /\ P2.runs = P.runs
  BY <1>0 DEF PipeValues
<1>2. /\ pipe' = [pipe EXCEPT ![p][x] = P2] /\ job' = [job EXCEPT ![p][x] = j]
      /\ objects' = (objects \cup Own(p, x, {})) \ Own(p, x, D)
      /\ rows' \subseteq Pools \X Pairs \X (1..Iterations) /\ {} \in SUBSET Kinds
  <2>1. job' = [job EXCEPT ![p][x] = j]
    BY <1>0, SamePair DEF TypeOK
  <2>2. QED
    BY <1>0, <2>1, OwnSets DEF TypeOK
<1> HIDE DEF P2
<1>3. WorkerFollows(P2, j) /\ UnitsCounted(P2, j) /\ TempDirSet(P2, j, b2)
  BY <1>0, <1>1 DEF WorkerFollows, UnitsCounted, TempDirSet
<1>4. Provided(p, x, {}, D, L, P2, j, b2)
  <2>1. ASSUME NEW k \in Kinds, Owed(p, x, k), k \notin D, k \notin L
        PROVE  DeletedLater(k, P2, j, b2)
    <3>1. DeletedLater(k, P, j, builder[p][x])
      BY <1>0, <2>1
    <3>2. ~(j.call = "cleanup" /\ ~j.dropped)
      BY <1>0, Constants DEF WorkerFollows
    <3>3. k # "image"
      BY <2>1, <3>1, <3>2 DEF DeletedLater
    <3>4. k \in {"srcdir", "tgtdir", "disk"} => from = "teardown"
      BY <2>1, <3>1 DEF DeletedLater
    <3>5. QED
      BY <1>1, <3>1, <3>3, <3>4 DEF DeletedLater
  <2>2. QED
    BY <2>1 DEF Provided
<1>5. P.pc \notin {"none", "done"} /\ P2.pc # "none"
  BY <1>1
<1>6. QED
  BY <1>0, <1>1, <1>2, <1>3, <1>4, <1>5, PairStep

LEMMA TeardownStep ==
    ASSUME IndInv, NEW p \in Pools, NEW x \in Pairs, Teardown(p, x)
    PROVE  IndInv'
<1> DEFINE b == builder[p][x]
           b2 == [b EXCEPT !.cleanup = FALSE]
<1>0. TypeOK /\ b \in BuilderValues
  BY OfPair
<1>1. b2 \in BuilderValues /\ b2.tempDir = b.tempDir
  BY <1>0 DEF BuilderValues
<1>2. /\ pipe[p][x].pc = "teardown" /\ pipe' = [pipe EXCEPT ![p][x].pc = "delete"]
      /\ builder' = [builder EXCEPT ![p][x] = b2]
      /\ UNCHANGED <<serviceVars, poolVars, job, rows, req, sessions>>
  BY DEF Teardown
<1>3. PICK D \in SUBSET {"image"}, L \in SUBSET {"image"} :
         /\ objects' = objects \ Own(p, x, D) /\ leaks' = leaks \cup Own(p, x, L)
         /\ ~b.cleanup \/ "image" \in D \cup L
         /\ Fault \/ UNCHANGED faults
  <2>1. CASE ~b.cleanup /\ UNCHANGED <<objects, leaks, faults>>
    <3>1. objects' = objects \ Own(p, x, {}) /\ leaks' = leaks \cup Own(p, x, {})
      BY <2>1, OwnSets
    <3>2. QED
      BY <2>1, <3>1
  <2>2. CASE Delete(p, x, {"image"}) /\ UNCHANGED <<leaks, faults>>
    <3>1. objects' = objects \ Own(p, x, {"image"}) /\ leaks' = leaks \cup Own(p, x, {})
      BY <2>2, OwnSets DEF Delete, Own
    <3>2. QED
      BY <2>2, <3>1
  <2>3. CASE Fault /\ leaks' = leaks \cup {<<p, x, "image">>} /\ UNCHANGED objects
    <3>1. objects' = objects \ Own(p, x, {}) /\ leaks' = leaks \cup Own(p, x, {"image"})
      BY <2>3, OwnSets
    <3>2. QED
      BY <2>3, <3>1
  <2>4. QED
    BY <2>1, <2>2, <2>3 DEF Teardown
<1>4. faults' \in 0..MaxFaults /\ D \in SUBSET Kinds /\ L \in SUBSET Kinds
  BY <1>0, <1>3, FaultType DEF Kinds
<1> HIDE DEF b2
<1>5. QED
  BY <1>1, <1>2, <1>3, <1>4, FinalizeStep

LEMMA DeleteDirsStep ==
    ASSUME IndInv, NEW p \in Pools, NEW x \in Pairs, DeleteDirs(p, x)
    PROVE  IndInv'
<1> DEFINE b == builder[p][x]
           Held(dirs) == UNION {DeleteDirectory(x, d) : d \in dirs}
           both == {"srcdir", "tgtdir"}
<1>0. TypeOK /\ b \in BuilderValues /\ builder' = [builder EXCEPT ![p][x] = b]
  BY OfPair, SamePair DEF DeleteDirs, TypeOK
<1>1. /\ pipe[p][x].pc = "delete" /\ pipe' = [pipe EXCEPT ![p][x].pc = "event"]
      /\ UNCHANGED <<serviceVars, poolVars, job, rows, req, sessions>>
  BY DEF DeleteDirs
<1>2. \A dirs \in SUBSET both : Held(dirs) \in SUBSET Kinds
  BY DEF DeleteDirectory, Kinds
<1>3. PICK D \in SUBSET Kinds, L \in SUBSET Kinds :
         /\ objects' = objects \ Own(p, x, D) /\ leaks' = leaks \cup Own(p, x, L)
         /\ ~b.tempDir \/ {"srcdir", "tgtdir", "disk"} \subseteq D \cup L
         /\ Fault \/ UNCHANGED faults
  <2>1. CASE ~b.tempDir /\ UNCHANGED <<objects, leaks, faults>>
    <3>1. objects' = objects \ Own(p, x, {}) /\ leaks' = leaks \cup Own(p, x, {})
      BY <2>1, OwnSets
    <3>2. QED
      BY <2>1, <3>1
  <2>2. CASE Delete(p, x, Held(both)) /\ UNCHANGED <<leaks, faults>>
    <3>1. objects' = objects \ Own(p, x, Held(both)) /\ leaks' = leaks \cup Own(p, x, {})
      BY <2>2, OwnSets DEF Delete, Own
    <3>2. {"srcdir", "tgtdir", "disk"} \subseteq Held(both)
      BY DEF DeleteDirectory
    <3>3. Held(both) \in SUBSET Kinds /\ {} \in SUBSET Kinds
      BY <1>2
    <3> HIDE DEF Held, both
    <3>4. QED
      BY <2>2, <3>1, <3>2, <3>3
  <2>3. ASSUME NEW kept \in SUBSET both, Fault, Delete(p, x, Held(both \ kept)),
               leaks' = leaks \cup {<<p, x, k>> : k \in Held(kept)}
        PROVE  \E D, L \in SUBSET Kinds :
                 /\ objects' = objects \ Own(p, x, D) /\ leaks' = leaks \cup Own(p, x, L)
                 /\ ~b.tempDir \/ {"srcdir", "tgtdir", "disk"} \subseteq D \cup L
                 /\ Fault \/ UNCHANGED faults
    <3>1. /\ objects' = objects \ Own(p, x, Held(both \ kept))
          /\ leaks' = leaks \cup Own(p, x, Held(kept))
      BY <2>3 DEF Delete, Own
    <3>2. {"srcdir", "tgtdir", "disk"} \subseteq Held(both \ kept) \cup Held(kept)
      BY <2>3 DEF DeleteDirectory
    <3>3. Held(both \ kept) \in SUBSET Kinds /\ Held(kept) \in SUBSET Kinds
      BY <1>2
    <3> HIDE DEF Held, both
    <3>4. QED
      BY <2>3, <3>1, <3>2, <3>3
  <2>4. QED
    BY <2>1, <2>2, <2>3 DEF DeleteDirs
<1>4. faults' \in 0..MaxFaults
  BY <1>0, <1>3, FaultType
<1>5. QED
  BY <1>0, <1>1, <1>3, <1>4, FinalizeStep

LEMMA EntryDoneStep ==
    ASSUME IndInv, NEW p \in Pools, NEW x \in Pairs, EntryDone(p, x)
    PROVE  IndInv'
<1>1. /\ TypeOK /\ builder[p][x] \in BuilderValues
      /\ builder' = [builder EXCEPT ![p][x] = builder[p][x]]
  BY OfPair, SamePair DEF EntryDone, TypeOK
<1>2. /\ objects' = objects \ Own(p, x, {}) /\ leaks' = leaks \cup Own(p, x, {})
      /\ {} \in SUBSET Kinds /\ faults' \in 0..MaxFaults
  BY <1>1, OwnSets DEF EntryDone, TypeOK
<1>3. /\ pipe[p][x].pc = "event" /\ pipe' = [pipe EXCEPT ![p][x].pc = "done"]
      /\ UNCHANGED <<serviceVars, poolVars, job, rows, req, sessions>>
  BY DEF EntryDone
<1>4. QED
  BY <1>1, <1>2, <1>3, FinalizeStep

LEMMA PipelineKeeps ==
    ASSUME IndInv, NEW p \in Pools, NEW x \in Pairs, Pipeline(p, x)
    PROVE  IndInv'
BY UnitStartStep, UnitReturnStep, UnitDroppedStep, TeardownStep, DeleteDirsStep, EntryDoneStep
   DEF Pipeline

-----------------------------------------------------------------------------
(* The requests, the pools and the process. *)

\* Nothing of a pair moves when only its stop channel is closed.
LEMMA PairsStand ==
    ASSUME IndInv, UNCHANGED <<job, builder, objects, leaks>>,
           \A p \in Pools, x \in Pairs : /\ pipe'[p][x].pc = pipe[p][x].pc
                                         /\ pipe'[p][x].unit = pipe[p][x].unit
                                         /\ pipe'[p][x].runs = pipe[p][x].runs
    PROVE  \A p \in Pools, x \in Pairs : PairInv(p, x)'
<1>1. SUFFICES ASSUME NEW p \in Pools, NEW x \in Pairs PROVE PairInv(p, x)'
  OBVIOUS
<1>2. PairInv(p, x)
  BY DEF IndInv
<1>3. ObjectsOwed(p, x)'
  <2>1. ASSUME NEW k \in Kinds, Owed(p, x, k)'
        PROVE  DeletedLater(k, pipe'[p][x], job'[p][x], builder'[p][x])
    <3>1. DeletedLater(k, pipe[p][x], job[p][x], builder[p][x])
      BY <1>2, <2>1 DEF PairInv, ObjectsOwed, Owed
    <3>2. QED
      BY <3>1 DEF DeletedLater
  <2>2. QED
    BY <2>1 DEF ObjectsOwed
<1>4. /\ WorkerFollows(pipe'[p][x], job'[p][x]) /\ UnitsCounted(pipe'[p][x], job'[p][x])
      /\ TempDirSet(pipe'[p][x], job'[p][x], builder'[p][x])
  BY <1>2 DEF PairInv, WorkerFollows, UnitsCounted, TempDirSet
<1>5. QED
  BY <1>3, <1>4 DEF PairInv

\* A step of a request that moves no pair and no pool.
LEMMA RequestStep ==
    ASSUME IndInv, UNCHANGED <<poolVars, job, builder, objects, rows, leaks>>,
           mu' \in Requests \cup {Free}, workPool' \in {0} \cup Pools,
           pipe' \in [Pools -> [Pairs -> PipeValues]],
           \A p \in Pools, x \in Pairs : /\ pipe'[p][x].pc = pipe[p][x].pc
                                         /\ pipe'[p][x].unit = pipe[p][x].unit
                                         /\ pipe'[p][x].runs = pipe[p][x].runs,
           req' \in [Requests -> RequestValues], RequestsBound',
           sessions' \subseteq Requests \cup Pools, faults' \in 0..MaxFaults
    PROVE  IndInv'
<1>1. TypeOK'
  BY DEF IndInv, TypeOK, poolVars
<1>2. ASSUME NEW p \in Pools PROVE PoolEnds(p)'
  <2>1. PoolEnds(p)
    BY DEF IndInv
  <2>2. QED
    BY <2>1 DEF PoolEnds, poolVars
<1>3. QED
  BY <1>1, <1>2, PairsStand DEF IndInv

\* The new value of a request keeps what the invariant says of requests.
LEMMA RequestUpdate ==
    ASSUME IndInv, NEW r \in Requests, NEW q \in RequestValues,
           q.pc \in {"pipes", "cancel", "wait"} => q.pool \in Pools,
           req' = [req EXCEPT ![r] = q]
    PROVE  req' \in [Requests -> RequestValues] /\ RequestsBound'
BY DEF IndInv, TypeOK, RequestsBound

LEMMA RequestDone ==
    ASSUME IndInv, NEW r \in Requests, Done(r)
    PROVE  req' \in [Requests -> RequestValues] /\ RequestsBound'
<1> DEFINE q == [NewRequest EXCEPT !.pc = "done"]
<1>1. q \in RequestValues /\ q.pc = "done"
  BY DEF NewRequest, RequestValues, RequestStates
<1>2. req' = [req EXCEPT ![r] = q]
  BY DEF Done
<1> HIDE DEF q
<1>3. QED
  BY <1>1, <1>2, RequestUpdate

LEMMA RequestGoto ==
    ASSUME IndInv, NEW r \in Requests, NEW to \in RequestStates, Goto(r, to),
           to \in {"pipes", "cancel", "wait"} => req[r].pool \in Pools
    PROVE  req' \in [Requests -> RequestValues] /\ RequestsBound'
<1> DEFINE q == [req[r] EXCEPT !.pc = to]
<1>1. q \in RequestValues /\ q.pc = to /\ q.pool = req[r].pool
  BY DEF IndInv, TypeOK, RequestValues
<1>2. req' = [req EXCEPT ![r] = q]
  BY DEF Goto
<1> HIDE DEF q
<1>3. QED
  BY <1>1, <1>2, RequestUpdate

LEMMA ArriveStep ==
    ASSUME IndInv, NEW r \in Requests, Arrive(r)
    PROVE  IndInv'
<1>1. req[r] \in RequestValues /\ TypeOK
  BY DEF IndInv, TypeOK
<1>2. PICK op \in {"start", "stop", "stopPair"}, xs \in SUBSET Pairs :
         req' = [req EXCEPT ![r] = [[[req[r] EXCEPT !.pc = "lock"] EXCEPT !.op = op]
                                      EXCEPT !.pairs = xs]]
  <2>1. CASE StartForecaster(r)
    <3>1. PICK xs \in SUBSET Pairs :
             req' = [req EXCEPT ![r].pc = "lock", ![r].op = "start", ![r].pairs = xs]
      BY <2>1 DEF StartForecaster
    <3>2. req' = [req EXCEPT ![r] = [[[req[r] EXCEPT !.pc = "lock"] EXCEPT !.op = "start"]
                                       EXCEPT !.pairs = xs]]
      BY <1>1, <3>1 DEF TypeOK, RequestValues
    <3>3. QED
      BY <3>2
  <2>2. CASE StopForecaster(r)
    <3>1. req' = [req EXCEPT ![r] = [[[req[r] EXCEPT !.pc = "lock"] EXCEPT !.op = "stop"]
                                       EXCEPT !.pairs = req[r].pairs]]
      BY <1>1, <2>2 DEF StopForecaster, TypeOK, RequestValues
    <3>2. QED
      BY <1>1, <3>1 DEF RequestValues
  <2>3. CASE StopForecasterPair(r)
    <3>1. PICK x \in Pairs :
             req' = [req EXCEPT ![r].pc = "lock", ![r].op = "stopPair", ![r].pairs = {x}]
      BY <2>3 DEF StopForecasterPair
    <3>2. req' = [req EXCEPT ![r] = [[[req[r] EXCEPT !.pc = "lock"] EXCEPT !.op = "stopPair"]
                                       EXCEPT !.pairs = {x}]]
      BY <1>1, <3>1 DEF TypeOK, RequestValues
    <3>3. QED
      BY <3>2
  <2>4. QED
    BY <2>1, <2>2, <2>3 DEF Arrive
<1> DEFINE q == [[[req[r] EXCEPT !.pc = "lock"] EXCEPT !.op = op] EXCEPT !.pairs = xs]
<1>3. q \in RequestValues /\ q.pc = "lock"
  BY <1>1, <1>2 DEF RequestValues, RequestStates
<1>4. req' \in [Requests -> RequestValues] /\ RequestsBound'
  <2>1. req' = [req EXCEPT ![r] = q]
    BY <1>2
  <2> HIDE DEF q
  <2>2. QED
    BY <1>3, <2>1, RequestUpdate
<1>5. QED
  BY <1>1, <1>4, RequestStep DEF Arrive, serviceVars, TypeOK

LEMMA StartStep ==
    ASSUME IndInv, NEW r \in Requests, StartChecks(r) \/ StartLogin(r)
    PROVE  IndInv'
<1>0. TypeOK /\ req[r] \in RequestValues
  BY DEF IndInv, TypeOK
<1>1. CASE StartChecks(r)
  <2>1. req' \in [Requests -> RequestValues] /\ RequestsBound'
    <3>1. Done(r) \/ Goto(r, "login")
      BY <1>1 DEF StartChecks
    <3>2. QED
      BY <3>1, RequestDone, RequestGoto DEF RequestStates
  <2>2. mu' \in Requests \cup {Free} /\ workPool' \in {0} \cup Pools
    BY <1>0, <1>1 DEF StartChecks, serviceVars, TypeOK
  <2>3. UNCHANGED <<poolVars, pipe, job, builder, objects, rows, sessions, leaks, faults>>
    BY <1>1 DEF StartChecks
  <2>4. QED
    BY <1>0, <2>1, <2>2, <2>3, RequestStep DEF TypeOK
<1>2. CASE StartLogin(r)
  <2>1. req' \in [Requests -> RequestValues] /\ RequestsBound'
    <3>1. Done(r) \/ Goto(r, "pool")
      BY <1>2 DEF StartLogin
    <3>2. QED
      BY <3>1, RequestDone, RequestGoto DEF RequestStates
  <2>2. mu' \in Requests \cup {Free} /\ sessions' \subseteq Requests \cup Pools
    BY <1>0, <1>2 DEF StartLogin, TypeOK
  <2>3. faults' \in 0..MaxFaults
    BY <1>0, <1>2, FaultType DEF StartLogin
  <2>4. UNCHANGED <<workPool, poolVars, pipe, job, builder, objects, rows, leaks>>
    BY <1>2 DEF StartLogin
  <2>5. QED
    BY <1>0, <2>1, <2>2, <2>3, <2>4, RequestStep DEF TypeOK
<1>3. QED
  BY <1>1, <1>2

\* A new pool finds nothing that belongs to it.
LEMMA StartPoolStep ==
    ASSUME IndInv, NEW r \in Requests, StartPool(r)
    PROVE  IndInv'
<1>0. TypeOK /\ req[r] \in RequestValues
  BY DEF IndInv, TypeOK
<1>1. /\ req' \in [Requests -> RequestValues] /\ RequestsBound' /\ mu' \in Requests \cup {Free}
      /\ UNCHANGED <<job, builder, objects, rows, leaks>>
  BY RequestDone DEF StartPool
<1>2. CASE /\ Fault /\ sessions' \in {sessions, sessions \ {r}}
           /\ UNCHANGED <<workPool, poolVars, pipe>>
  <2>1. faults' \in 0..MaxFaults
    BY <1>0, <1>2, FaultType
  <2>2. sessions' \subseteq Requests \cup Pools
    BY <1>0, <1>2 DEF TypeOK
  <2>3. QED
    BY <1>0, <1>1, <1>2, <2>1, <2>2, RequestStep DEF TypeOK
<1>3. ASSUME NEW p \in Pools, run[p] = "none",
             run' = [run EXCEPT ![p] = "events"], sched' = [sched EXCEPT ![p] = "open"],
             pipe' = [pipe EXCEPT ![p] = [x \in Pairs |->
                 IF x \in req[r].pairs THEN [NoPipe EXCEPT !.pc = "next"] ELSE NoPipe]],
             workPool' = p, sessions' = (sessions \ {r}) \cup {p}, UNCHANGED faults
      PROVE  IndInv'
  <2> DEFINE new == [NoPipe EXCEPT !.pc = "next"]
  <2>1. new \in PipeValues /\ new.pc = "next" /\ new.unit = 0 /\ new.runs = 0
    BY Constants DEF PipeValues
  <2>2. /\ pipe' = [pipe EXCEPT ![p] = [x \in Pairs |-> IF x \in req[r].pairs THEN new ELSE NoPipe]]
        /\ NoPipe \in PipeValues /\ NoPipe.unit = 0 /\ NoPipe.runs = 0 /\ NoPipe.pc = "none"
    BY <1>3, Constants
  <2> HIDE DEF new
  <2>3. /\ pipe' \in [Pools -> [Pairs -> PipeValues]]
        /\ \A x \in Pairs : pipe'[p][x] \in {new, NoPipe}
        /\ \A q \in Pools : q # p => pipe'[q] = pipe[q]
    BY <1>0, <2>1, <2>2 DEF TypeOK
  <2>4. TypeOK'
    <3>1. /\ run' \in [Pools -> {"none", "events", "closed"}]
          /\ sched' \in [Pools -> {"none", "open", "closed"}]
          /\ sessions' \subseteq Requests \cup Pools /\ workPool' \in {0} \cup Pools
      BY <1>0, <1>3 DEF TypeOK
    <3>2. QED
      BY <1>0, <1>1, <1>3, <2>3, <3>1 DEF TypeOK
  <2>5. ASSUME NEW q \in Pools PROVE PoolEnds(q)'
    <3>1. PoolEnds(q)
      BY DEF IndInv
    <3>2. CASE q = p
      BY <1>0, <1>3, <3>2 DEF PoolEnds, TypeOK
    <3>3. CASE q # p
      <4>1. /\ run'[q] = run[q] /\ sched'[q] = sched[q] /\ pipe'[q] = pipe[q] /\ job' = job
        BY <1>0, <1>1, <1>3, <2>3, <3>3 DEF TypeOK
      <4>2. QED
        BY <3>1, <4>1 DEF PoolEnds
    <3>4. QED
      BY <3>2, <3>3
  <2>6. ASSUME NEW q \in Pools, NEW x \in Pairs PROVE PairInv(q, x)'
    <3>0. /\ WorkerFollows(pipe[q][x], job[q][x]) /\ UnitsCounted(pipe[q][x], job[q][x])
          /\ TempDirSet(pipe[q][x], job[q][x], builder[q][x])
          /\ \A k \in Kinds : Owed(q, x, k) => DeletedLater(k, pipe[q][x], job[q][x], builder[q][x])
      BY OfPair
    <3>1. /\ job'[q][x] = job[q][x] /\ builder'[q][x] = builder[q][x]
          /\ \A k \in Kinds : Owed(q, x, k)' <=> Owed(q, x, k)
      BY <1>1 DEF Owed
    <3>2. CASE q # p
      <4>1. pipe'[q][x] = pipe[q][x]
        BY <2>3, <3>2
      <4>2. QED
        BY <3>0, <3>1, <4>1 DEF PairInv, ObjectsOwed
    <3>3. CASE q = p
      <4>1. PoolEnds(p) /\ pipe[p][x].pc = "none"
        BY <1>3 DEF IndInv, PoolEnds
      <4>2. job[q][x] = NoJob
        BY <3>0, <3>3, <4>1 DEF WorkerFollows
      <4>3. \A k \in Kinds : ~ Owed(q, x, k)
        BY <3>0, <3>3, <4>1, <4>2, Constants DEF DeletedLater, Kinds
      <4>4. ObjectsOwed(q, x)'
        BY <3>1, <4>3 DEF ObjectsOwed
      <4>5. pipe'[q][x].pc \in {"next", "none"} /\ pipe'[q][x].unit = 0 /\ pipe'[q][x].runs = 0
        BY <2>1, <2>2, <2>3, <3>3
      <4>6. /\ WorkerFollows(pipe'[q][x], job'[q][x]) /\ UnitsCounted(pipe'[q][x], job'[q][x])
            /\ TempDirSet(pipe'[q][x], job'[q][x], builder'[q][x])
        BY <3>1, <4>2, <4>5, Constants DEF WorkerFollows, UnitsCounted, TempDirSet
      <4>7. QED
        BY <4>4, <4>6 DEF PairInv
    <3>4. QED
      BY <3>2, <3>3
  <2>7. QED
    BY <1>1, <2>4, <2>5, <2>6 DEF IndInv
<1>4. QED
  BY <1>2, <1>3 DEF StartPool

\* The requests that stop a pool or a pair, up to the close of the scheduler.
LEMMA StopStep ==
    ASSUME IndInv, NEW r \in Requests,
           StopLock(r) \/ PipeStopped(r) \/ StopPairRead(r) \/ StopPairReturn(r)
    PROVE  IndInv'
<1>0. TypeOK /\ RequestsBound /\ req[r] \in RequestValues
  BY DEF IndInv, TypeOK
<1>1. UNCHANGED <<poolVars, pipe, job, builder, objects, rows, sessions, leaks, faults>>
  BY DEF StopLock, PipeStopped, StopPairRead, StopPairReturn
<1>2. mu' \in Requests \cup {Free} /\ workPool' \in {0} \cup Pools
  BY <1>0 DEF StopLock, PipeStopped, StopPairRead, StopPairReturn, TypeOK, serviceVars
<1>3. req' \in [Requests -> RequestValues] /\ RequestsBound'
  <2>1. CASE Done(r)
    BY <2>1, RequestDone
  <2>2. CASE StopLock(r) /\ workPool # 0
    <3> DEFINE xs == {x \in Pairs : pipe[workPool][x].pc # "none"}
               q == [[[req[r] EXCEPT !.pc = "pipes"] EXCEPT !.pool = workPool] EXCEPT !.todo = xs]
    <3>1. workPool \in Pools /\ xs \in SUBSET Pairs
      BY <1>0, <2>2 DEF TypeOK
    <3>2. req' = [req EXCEPT ![r] = q]
      BY <1>0, <2>2 DEF StopLock, TypeOK, RequestValues
    <3> HIDE DEF xs
    <3>3. q \in RequestValues /\ q.pool = workPool
      BY <1>0, <3>1 DEF RequestValues, RequestStates
    <3> HIDE DEF q
    <3>4. QED
      BY <3>1, <3>2, <3>3, RequestUpdate
  <2>3. CASE PipeStopped(r)
    <3>1. PICK x \in req[r].todo : req' = [req EXCEPT ![r].todo = @ \ {x}]
      BY <2>3 DEF PipeStopped
    <3> DEFINE q == [req[r] EXCEPT !.todo = @ \ {x}]
    <3>2. q \in RequestValues /\ q.pc = req[r].pc /\ q.pool = req[r].pool
      BY <1>0 DEF RequestValues
    <3>3. req' = [req EXCEPT ![r] = q]
      BY <3>1
    <3> HIDE DEF q
    <3>4. QED
      BY <1>0, <3>2, <3>3, RequestUpdate DEF RequestsBound
  <2>4. CASE StopPairRead(r) /\ workPool # 0
    <3> DEFINE q == [[req[r] EXCEPT !.pc = "cancel"] EXCEPT !.pool = workPool]
    <3>1. workPool \in Pools
      BY <1>0, <2>4 DEF TypeOK
    <3>2. req' = [req EXCEPT ![r] = q]
      BY <1>0, <2>4 DEF StopPairRead, TypeOK, RequestValues
    <3>3. q \in RequestValues /\ q.pool = workPool
      BY <1>0, <3>1 DEF RequestValues, RequestStates
    <3> HIDE DEF q
    <3>4. QED
      BY <3>1, <3>2, <3>3, RequestUpdate
  <2>5. QED
    BY <2>1, <2>2, <2>3, <2>4 DEF StopLock, StopPairRead, StopPairReturn
<1>4. QED
  BY <1>0, <1>1, <1>2, <1>3, RequestStep DEF TypeOK

\* A new value for one pair that has not moved.
LEMMA ChannelClosed ==
    ASSUME TypeOK, NEW p \in Pools, NEW y \in Pairs, NEW P2 \in PipeValues,
           P2.pc = pipe[p][y].pc, P2.unit = pipe[p][y].unit, P2.runs = pipe[p][y].runs,
           pipe' = [pipe EXCEPT ![p][y] = P2]
    PROVE  /\ pipe' \in [Pools -> [Pairs -> PipeValues]]
           /\ \A q \in Pools, x \in Pairs : /\ pipe'[q][x].pc = pipe[q][x].pc
                                            /\ pipe'[q][x].unit = pipe[q][x].unit
                                            /\ pipe'[q][x].runs = pipe[q][x].runs
<1>1. pipe \in [Pools -> [Pairs -> PipeValues]]
  BY DEF TypeOK
<1>2. /\ pipe' \in [Pools -> [Pairs -> PipeValues]] /\ pipe'[p][y] = P2
      /\ \A q \in Pools, x \in Pairs : <<q, x>> # <<p, y>> => pipe'[q][x] = pipe[q][x]
  BY <1>1, PairUpdate
<1>3. QED
  BY <1>2

LEMMA CloseStep ==
    ASSUME IndInv, NEW r \in Requests, StopPipe(r) \/ StopPairCancel(r)
    PROVE  IndInv'
<1>0. TypeOK /\ RequestsBound /\ req[r] \in RequestValues
  BY DEF IndInv, TypeOK
<1>1. /\ UNCHANGED <<serviceVars, poolVars, job, builder, objects, rows, sessions, leaks, faults>>
      /\ req[r].pool \in Pools
  BY <1>0 DEF StopPipe, StopPairCancel, RequestsBound
<1>2. pipe' = pipe \/ \E y \in Pairs : pipe' = [pipe EXCEPT ![req[r].pool][y].stop = TRUE]
  BY <1>0 DEF StopPipe, StopPairCancel, RequestValues
<1>3. /\ pipe' \in [Pools -> [Pairs -> PipeValues]]
      /\ \A q \in Pools, x \in Pairs : /\ pipe'[q][x].pc = pipe[q][x].pc
                                       /\ pipe'[q][x].unit = pipe[q][x].unit
                                       /\ pipe'[q][x].runs = pipe[q][x].runs
  <2>1. CASE pipe' = pipe
    BY <1>0, <2>1 DEF TypeOK
  <2>2. ASSUME NEW y \in Pairs, pipe' = [pipe EXCEPT ![req[r].pool][y].stop = TRUE]
        PROVE  /\ pipe' \in [Pools -> [Pairs -> PipeValues]]
               /\ \A q \in Pools, x \in Pairs : /\ pipe'[q][x].pc = pipe[q][x].pc
                                                /\ pipe'[q][x].unit = pipe[q][x].unit
                                                /\ pipe'[q][x].runs = pipe[q][x].runs
    <3> DEFINE p == req[r].pool
               P2 == [pipe[p][y] EXCEPT !.stop = TRUE]
    <3>1. pipe[p][y] \in PipeValues
      BY <1>0, <1>1 DEF TypeOK
    <3>2. /\ P2 \in PipeValues /\ P2.pc = pipe[p][y].pc /\ P2.unit = pipe[p][y].unit
          /\ P2.runs = pipe[p][y].runs
      BY <3>1 DEF PipeValues
    <3>3. p \in Pools /\ pipe' = [pipe EXCEPT ![p][y] = P2]
      BY <1>1, <2>2
    <3> HIDE DEF p, P2
    <3>4. QED
      BY <1>0, <3>2, <3>3, ChannelClosed
  <2>3. QED
    BY <1>2, <2>1, <2>2
<1>4. req' \in [Requests -> RequestValues] /\ RequestsBound'
  <2>1. CASE req' = req
    BY <1>0, <2>1 DEF TypeOK, RequestsBound
  <2>2. CASE Done(r)
    BY <2>2, RequestDone
  <2>3. CASE Goto(r, "wait")
    BY <1>1, <2>3, RequestGoto DEF RequestStates
  <2>4. QED
    BY <2>1, <2>2, <2>3 DEF StopPipe, StopPairCancel
<1>5. QED
  BY <1>0, <1>1, <1>3, <1>4, RequestStep DEF TypeOK, serviceVars

\* The pool ends, or its scheduler is closed.
LEMMA PoolStep ==
    ASSUME IndInv, UNCHANGED <<pipe, job, builder, objects, rows, leaks>>,
           mu' \in Requests \cup {Free}, workPool' \in {0} \cup Pools,
           run' \in [Pools -> {"none", "events", "closed"}],
           sched' \in [Pools -> {"none", "open", "closed"}],
           req' \in [Requests -> RequestValues], RequestsBound',
           sessions' \subseteq Requests \cup Pools, faults' \in 0..MaxFaults,
           \A p \in Pools : PoolEnds(p)'
    PROVE  IndInv'
<1>1. TypeOK'
  BY DEF IndInv, TypeOK
<1>2. QED
  BY <1>1, PairsStand DEF IndInv

LEMMA StopReturnStep ==
    ASSUME IndInv, NEW r \in Requests, StopReturn(r)
    PROVE  IndInv'
<1> DEFINE p == req[r].pool
<1>0. TypeOK /\ RequestsBound
  BY DEF IndInv
<1>1. /\ p \in Pools /\ run[p] = "closed" /\ \A x \in Pairs : job[p][x] = NoJob
      /\ sched' = [sched EXCEPT ![p] = "closed"] /\ mu' = Free /\ Done(r)
      /\ UNCHANGED <<workPool, run, pipe, job, builder, objects, rows, sessions, leaks, faults>>
  BY <1>0 DEF StopReturn, RequestsBound
<1> HIDE DEF p
<1>2. ASSUME NEW q \in Pools PROVE PoolEnds(q)'
  <2>1. PoolEnds(q)
    BY DEF IndInv
  <2>2. sched'[q] = "closed" => sched[q] = "closed" \/ q = p
    BY <1>0, <1>1 DEF TypeOK
  <2>3. QED
    BY <1>1, <2>1, <2>2 DEF PoolEnds
<1>3. sched' \in [Pools -> {"none", "open", "closed"}]
  BY <1>0, <1>1 DEF TypeOK
<1>4. req' \in [Requests -> RequestValues] /\ RequestsBound'
  BY <1>1, RequestDone
<1>5. QED
  BY <1>0, <1>1, <1>2, <1>3, <1>4, PoolStep DEF TypeOK

LEMMA FinalizerStep ==
    ASSUME IndInv, NEW p \in Pools, PoolFinalizer(p)
    PROVE  IndInv'
<1>0. TypeOK /\ RequestsBound
  BY DEF IndInv
<1>1. /\ run' = [run EXCEPT ![p] = "closed"] /\ sessions' \subseteq sessions
      /\ \A x \in Pairs : pipe[p][x].pc \in {"none", "done"}
      /\ UNCHANGED <<serviceVars, sched, pipe, job, builder, objects, rows, req, leaks>>
  BY DEF PoolFinalizer, IsRunning, Logout
<1>1a. faults' \in 0..MaxFaults
  <2>1. Fault \/ UNCHANGED faults
    BY DEF PoolFinalizer, Logout
  <2>2. QED
    BY <1>0, <2>1, FaultType
<1>2. ASSUME NEW q \in Pools PROVE PoolEnds(q)'
  <2>1. PoolEnds(q)
    BY DEF IndInv
  <2>2. run'[q] = IF q = p THEN "closed" ELSE run[q]
    BY <1>0, <1>1 DEF TypeOK
  <2>3. QED
    BY <1>1, <2>1, <2>2 DEF PoolEnds
<1>3. run' \in [Pools -> {"none", "events", "closed"}] /\ sessions' \subseteq Requests \cup Pools
  BY <1>0, <1>1 DEF TypeOK
<1>4. req' \in [Requests -> RequestValues] /\ RequestsBound'
  BY <1>0, <1>1 DEF TypeOK, RequestsBound
<1>5. QED
  BY <1>0, <1>1, <1>1a, <1>2, <1>3, <1>4, PoolStep DEF TypeOK, serviceVars

LEMMA DeleteRunStep ==
    ASSUME IndInv, DeleteForecasterRun
    PROVE  IndInv'
<1>0. TypeOK /\ RequestsBound
  BY DEF IndInv
<1>1. /\ rows' \subseteq rows
      /\ UNCHANGED <<serviceVars, poolVars, pipe, job, builder, objects, req, sessions, leaks, faults>>
  BY DEF DeleteForecasterRun, DeleteRun
<1>2. TypeOK' /\ RequestsBound'
  BY <1>0, <1>1 DEF TypeOK, RequestsBound, serviceVars, poolVars
<1>3. ASSUME NEW q \in Pools PROVE PoolEnds(q)'
  <2>1. PoolEnds(q)
    BY DEF IndInv
  <2>2. QED
    BY <1>1, <2>1 DEF PoolEnds, poolVars
<1>4. QED
  BY <1>1, <1>2, <1>3, PairsStand DEF IndInv

\* After a crash nothing of the process is left, and what the datastores hold is
\* what it leaks.
LEMMA CrashStep ==
    ASSUME IndInv, Crash
    PROVE  IndInv'
<1>0. TypeOK
  BY DEF IndInv
<1> DEFINE ended == [NoPipe EXCEPT !.pc = "done"]
<1>1. ended \in PipeValues /\ ended.pc = "done" /\ ended.runs = 0
  BY Constants DEF PipeValues
<1>2. /\ pipe' = [p \in Pools |-> [x \in Pairs |->
                    IF pipe[p][x].pc = "none" THEN NoPipe ELSE ended]]
      /\ job' = [p \in Pools |-> [x \in Pairs |-> NoJob]]
      /\ run' = [p \in Pools |-> IF run[p] = "none" THEN "none" ELSE "closed"]
      /\ sched' = [p \in Pools |-> IF sched[p] = "none" THEN "none" ELSE "closed"]
      /\ leaks' = leaks \cup objects /\ objects' = objects /\ builder' = builder /\ rows' = rows
      /\ mu' = Free /\ workPool' = 0 /\ sessions' = sessions
  BY DEF Crash
<1>3. req' \in [Requests -> RequestValues] /\ RequestsBound'
  <2>1. ASSUME NEW to \in {"idle", "done"}
        PROVE  /\ [NewRequest EXCEPT !.pc = to] \in RequestValues
               /\ [NewRequest EXCEPT !.pc = to].pc = to
    BY DEF NewRequest, RequestValues, RequestStates
  <2>2. \A r \in Requests : req'[r] \in RequestValues /\ req'[r].pc \in {"idle", "done"}
    BY <2>1 DEF Crash
  <2>3. req' = [r \in Requests |-> req'[r]]
    BY DEF Crash
  <2>4. QED
    BY <2>2, <2>3 DEF RequestsBound
<1> HIDE DEF ended
<1>4. TypeOK'
  <2>1. /\ pipe' \in [Pools -> [Pairs -> PipeValues]] /\ job' \in [Pools -> [Pairs -> JobValues]]
    BY <1>1, <1>2, Constants
  <2>2. faults' \in 0..MaxFaults
    BY <1>0, FaultType DEF Crash
  <2>3. QED
    BY <1>0, <1>2, <1>3, <2>1, <2>2 DEF TypeOK
<1>5. ASSUME NEW p \in Pools PROVE PoolEnds(p)'
  <2>1. PoolEnds(p)
    BY DEF IndInv
  <2>2. \A x \in Pairs : /\ pipe'[p][x].pc \in {"none", "done"} /\ job'[p][x] = NoJob
                         /\ pipe[p][x].pc = "none" => pipe'[p][x].pc = "none"
    BY <1>1, <1>2, Constants
  <2>3. sched'[p] = "closed" => run'[p] = "closed"
    <3>1. sched[p] \in {"none", "open", "closed"} /\ run[p] \in {"none", "events", "closed"}
      BY <1>0 DEF TypeOK
    <3>2. sched[p] # "none" => run[p] # "none"
      BY <2>1 DEF PoolEnds
    <3>3. QED
      BY <1>2, <3>1, <3>2
  <2>4. QED
    BY <1>2, <2>1, <2>2, <2>3 DEF PoolEnds
<1>6. ASSUME NEW p \in Pools, NEW x \in Pairs PROVE PairInv(p, x)'
  <2>1. pipe'[p][x].pc \in {"none", "done"} /\ pipe'[p][x].runs = 0 /\ job'[p][x] = NoJob
    BY <1>1, <1>2, Constants
  <2>2. /\ WorkerFollows(pipe'[p][x], job'[p][x]) /\ UnitsCounted(pipe'[p][x], job'[p][x])
        /\ TempDirSet(pipe'[p][x], job'[p][x], builder'[p][x])
    BY <2>1, Constants DEF WorkerFollows, UnitsCounted, TempDirSet
  <2>3. \A k \in Kinds : ~ Owed(p, x, k)'
    BY <1>2 DEF Owed
  <2>4. QED
    BY <2>2, <2>3 DEF PairInv, ObjectsOwed
<1>7. QED
  BY <1>3, <1>4, <1>5, <1>6 DEF IndInv

-----------------------------------------------------------------------------
(* One forecast at a time. *)

Holding == {"login", "pool", "pipes"}

\* Without f.mu nobody is between its steps, and f.workPool is all there is.
LEMMA MutexFree ==
    ASSUME ServiceInv, mu = Free
    PROVE  /\ \A r \in Requests : req[r].pc \notin Holding
           /\ \A p \in Pools : IsRunning(p) => workPool = p
BY ForecastAssumption DEF ServiceInv, MutexKept, OneForecast, Holding, Free

\* A request in the critical section is alone there; what runs is what it stops.
LEMMA MutexTaken ==
    ASSUME ServiceInv, NEW r \in Requests, req[r].pc \in Holding
    PROVE  /\ mu = r /\ \A q \in Requests : q # r => req[q].pc \notin Holding
           /\ \A p \in Pools : IsRunning(p) => req[r].pc = "pipes" /\ req[r].pool = p
<1>1. mu = r /\ workPool = 0
  BY DEF ServiceInv, MutexKept, Holding
<1>2. \A p \in Pools : p # 0
  BY ForecastAssumption DEF Pools
<1>3. \A q \in Requests : req[q].pc \in Holding => mu = q
  BY DEF ServiceInv, MutexKept, Holding
<1>4. \A p \in Pools : IsRunning(p) =>
         workPool = p \/ \E q \in Requests : mu = q /\ req[q].pc = "pipes" /\ req[q].pool = p
  BY DEF ServiceInv, OneForecast
<1>5. QED
  BY <1>1, <1>2, <1>3, <1>4

\* A step that starts nothing and is not one of the critical section.
LEMMA ServiceStands ==
    ASSUME ServiceInv, UNCHANGED <<mu, workPool>>,
           \A p \in Pools : IsRunning(p)' => IsRunning(p),
           \A r \in Requests : req[r].pc \in Holding \/ req'[r].pc \in Holding =>
               req'[r].pc = req[r].pc /\ req'[r].pool = req[r].pool
    PROVE  ServiceInv'
<1>1. MutexKept'
  BY DEF ServiceInv, MutexKept, Holding
<1>2. \A p, q \in Pools : IsRunning(p)' /\ IsRunning(q)' => p = q
  BY DEF ServiceInv, OneForecast
<1>3. ASSUME NEW p \in Pools, IsRunning(p)'
      PROVE  \/ workPool' = p
             \/ \E r \in Requests : mu' = r /\ req'[r].pc = "pipes" /\ req'[r].pool = p
  <2>1. \/ workPool = p
        \/ \E r \in Requests : mu = r /\ req[r].pc = "pipes" /\ req[r].pool = p
    BY <1>3 DEF ServiceInv, OneForecast
  <2>2. QED
    BY <2>1 DEF Holding
<1>4. QED
  BY <1>1, <1>2, <1>3 DEF ServiceInv, OneForecast

\* Nothing runs.
LEMMA ServiceRests ==
    ASSUME \A p \in Pools : ~IsRunning(p)',
           \A r \in Requests : req'[r].pc \in Holding => mu' = r /\ workPool' = 0
    PROVE  ServiceInv'
BY DEF ServiceInv, MutexKept, OneForecast, Holding

\* Pipelines and workers end what runs, and start nothing.
LEMMA PairService ==
    ASSUME IndInv, ServiceInv, NEW p \in Pools, NEW x \in Pairs, Pipeline(p, x) \/ Worker(p, x)
    PROVE  ServiceInv'
<1>0. TypeOK /\ WorkerFollows(pipe[p][x], job[p][x])
  BY DEF IndInv, PairInv
<1>1. UNCHANGED <<mu, workPool, req>>
  BY DEF Pipeline, UnitStart, UnitReturn, UnitDropped, Teardown, DeleteDirs, EntryDone, Worker,
         Lookup, CallAssigns, DeployFillerImage, CreateDirectory, CreateDisk, FillDisk, CopyDisk,
         DestroyVM, DeleteDisk, FillFails, InsertRun, CallFails, Makes, Deletes, serviceVars
<1>2. \A q \in Pools, y \in Pairs :
         pipe'[q][y].pc \notin {"none", "done"} => pipe[q][y].pc \notin {"none", "done"}
  <2>1. CASE Worker(p, x)
    BY <2>1 DEF Worker, Lookup, CallAssigns, DeployFillerImage, CreateDirectory, CreateDisk,
                FillDisk, CopyDisk, DestroyVM, DeleteDisk, FillFails, InsertRun, CallFails,
                Makes, Deletes
  <2>2. CASE pipe' = pipe
    BY <2>2
  <2>3. CASE pipe[p][x].pc \notin {"none", "done"} /\ Pipeline(p, x)
    <3>1. pipe \in [Pools -> [Pairs -> PipeValues]]
      BY <1>0 DEF TypeOK
    <3>2. ASSUME NEW a, NEW b, NEW c, \/ pipe' = [pipe EXCEPT ![p][x].pc = a]
                                      \/ pipe' = [pipe EXCEPT ![p][x].pc = a, ![p][x].unit = b]
                                      \/ pipe' = [pipe EXCEPT ![p][x].pc = a, ![p][x].err = b,
                                                              ![p][x].runs = @ + c]
          PROVE  \A q \in Pools, y \in Pairs : <<q, y>> # <<p, x>> => pipe'[q][y] = pipe[q][y]
      BY <3>1, <3>2
    <3>3. \A q \in Pools, y \in Pairs : <<q, y>> # <<p, x>> => pipe'[q][y] = pipe[q][y]
      <4>1. CASE UnitStart(p, x)
        BY <3>2, <4>1, Zenon DEF UnitStart
      <4>2. CASE UnitReturn(p, x)
        BY <3>2, <4>2, Zenon DEF UnitReturn
      <4>3. CASE UnitDropped(p, x) \/ Teardown(p, x) \/ DeleteDirs(p, x) \/ EntryDone(p, x)
        BY <3>2, <4>3, Zenon DEF UnitDropped, Teardown, DeleteDirs, EntryDone
      <4>4. QED
        BY <2>3, <4>1, <4>2, <4>3 DEF Pipeline
    <3>4. QED
      BY <2>3, <3>3
  <2>4. Pipeline(p, x) => pipe' = pipe \/ pipe[p][x].pc \notin {"none", "done"}
    <3>1. CASE UnitReturn(p, x)
      BY <1>0, <3>1, Constants DEF UnitReturn, WorkerFollows
    <3>2. QED
      BY <3>1 DEF Pipeline, UnitStart, UnitDropped, Teardown, DeleteDirs, EntryDone
  <2>5. QED
    BY <2>1, <2>2, <2>3, <2>4
<1>3. \A q \in Pools : IsRunning(q)' => IsRunning(q)
  BY <1>2 DEF IsRunning
<1>4. QED
  BY <1>1, <1>3, ServiceStands

\* The requests that are not in the critical section before or after their step.
LEMMA BesidesService ==
    ASSUME IndInv, ServiceInv, NEW r \in Requests,
           \/ Arrive(r) \/ StopPairRead(r) \/ StopPairCancel(r) \/ StopPairReturn(r)
           \/ StopPipe(r) \/ PipeStopped(r)
    PROVE  ServiceInv'
<1>0. TypeOK /\ RequestsBound
  BY DEF IndInv
<1>1. UNCHANGED <<mu, workPool>>
  BY DEF Arrive, StopPairRead, StopPairCancel, StopPairReturn, StopPipe, PipeStopped, serviceVars
<1>2. \A q \in Pools, y \in Pairs : pipe'[q][y].pc = pipe[q][y].pc
  <2>1. CASE pipe' = pipe
    BY <2>1
  <2>2. CASE pipe' # pipe
    <3>1. PICK x \in Pairs : /\ pipe' = [pipe EXCEPT ![req[r].pool][x].stop = TRUE]
                             /\ req[r].pc \in {"pipes", "cancel"}
      BY <1>0, <2>2 DEF Arrive, StopPairRead, StopPairCancel, StopPairReturn, StopPipe,
                        PipeStopped, TypeOK, RequestValues
    <3>2. req[r].pool \in Pools
      BY <1>0, <3>1 DEF RequestsBound
    <3>3. QED
      BY <1>0, <3>1, <3>2, ChannelClosed
  <2>3. QED
    BY <2>1, <2>2
<1>3. \A q \in Pools : IsRunning(q)' => IsRunning(q)
  BY <1>2 DEF IsRunning
<1>4. \A q \in Requests : req[q].pc \in Holding \/ req'[q].pc \in Holding =>
         req'[q].pc = req[q].pc /\ req'[q].pool = req[q].pool
  <2>0. req \in [Requests -> RequestValues] /\ req[r] \in RequestValues
    BY <1>0 DEF TypeOK
  <2>1. \A q \in Requests : q # r => req'[q] = req[q]
    <3>1. CASE Arrive(r)
      BY <2>0, <3>1 DEF Arrive, StartForecaster, StopForecaster, StopForecasterPair
    <3>2. CASE StopPairRead(r) \/ StopPairCancel(r) \/ StopPairReturn(r)
      BY <2>0, <3>2 DEF StopPairRead, StopPairCancel, StopPairReturn, Done, Goto
    <3>3. CASE StopPipe(r) \/ PipeStopped(r)
      BY <2>0, <3>3 DEF StopPipe, PipeStopped
    <3>4. QED
      BY <3>1, <3>2, <3>3
  <2>2. CASE StopPipe(r) \/ PipeStopped(r)
    <3>1. req'[r].pc = req[r].pc /\ req'[r].pool = req[r].pool
      BY <2>0, <2>2 DEF StopPipe, PipeStopped, RequestValues
    <3>2. QED
      BY <2>1, <3>1
  <2>3. CASE Arrive(r) \/ StopPairRead(r) \/ StopPairCancel(r) \/ StopPairReturn(r)
    <3>1. req[r].pc \in {"idle", "lock", "cancel", "wait"}
      BY <2>3 DEF Arrive, StopPairRead, StopPairCancel, StopPairReturn
    <3>2. req'[r].pc \in {"lock", "cancel", "wait", "done"}
      <4>1. CASE Arrive(r)
        BY <2>0, <4>1 DEF Arrive, StartForecaster, StopForecaster, StopForecasterPair,
                          RequestValues
      <4>2. CASE Done(r)
        BY <2>0, <4>2 DEF Done, NewRequest
      <4>3. CASE Goto(r, "wait")
        BY <2>0, <4>3 DEF Goto, RequestValues
      <4>4. CASE req' = [req EXCEPT ![r].pc = "cancel", ![r].pool = workPool]
        BY <2>0, <4>4 DEF RequestValues
      <4>5. QED
        BY <2>3, <4>1, <4>2, <4>3, <4>4 DEF StopPairRead, StopPairCancel, StopPairReturn
    <3>3. QED
      BY <2>1, <3>1, <3>2 DEF Holding
  <2>4. QED
    BY <2>2, <2>3
<1>5. QED
  BY <1>1, <1>3, <1>4, ServiceStands

LEMMA StartService ==
    ASSUME IndInv, ServiceInv, NEW r \in Requests, StartChecks(r) \/ StartLogin(r)
    PROVE  ServiceInv'
<1>0. req \in [Requests -> RequestValues] /\ req[r] \in RequestValues
  BY DEF IndInv, TypeOK
<1>1. \A p \in Pools : IsRunning(p)' => IsRunning(p)
  BY DEF StartChecks, StartLogin, IsRunning
<1>2. /\ \A q \in Requests : q # r => req'[q] = req[q]
      /\ req'[r].pc \in {"login", "pool", "done"}
  BY <1>0 DEF StartChecks, StartLogin, Done, Goto, NewRequest, RequestValues
<1>3. CASE StartChecks(r)
  <2>1. /\ \A q \in Requests : req[q].pc \notin Holding
        /\ \A p \in Pools : IsRunning(p) => workPool = p
    BY <1>3, MutexFree DEF StartChecks
  <2>2. CASE workPool # 0 /\ IsRunning(workPool) /\ Done(r) /\ UNCHANGED serviceVars
    <3>1. req'[r].pc = "done"
      BY <1>0, <2>2 DEF Done, NewRequest
    <3>2. QED
      BY <1>1, <1>2, <2>1, <2>2, <3>1, ServiceStands DEF serviceVars, Holding
  <2>3. CASE ~(workPool # 0 /\ IsRunning(workPool)) /\ workPool' = 0
    <3>1. \A p \in Pools : p # 0
      BY ForecastAssumption DEF Pools
    <3>2. \A p \in Pools : ~IsRunning(p)'
      BY <1>1, <2>1, <2>3, <3>1
    <3>3. req'[r].pc \in Holding => mu' = r
      <4>1. CASE Done(r)
        BY <1>0, <4>1 DEF Done, NewRequest, Holding
      <4>2. QED
        BY <1>3, <2>3, <4>1 DEF StartChecks
    <3>4. QED
      BY <1>2, <2>1, <2>3, <3>2, <3>3, ServiceRests
  <2>4. QED
    BY <1>3, <2>2, <2>3 DEF StartChecks
<1>4. CASE StartLogin(r)
  <2>1. req[r].pc \in Holding /\ req[r].pc = "login" /\ workPool' = workPool
    BY <1>4 DEF StartLogin, Holding
  <2>2. /\ mu = r /\ workPool = 0 /\ \A q \in Requests : q # r => req[q].pc \notin Holding
        /\ \A p \in Pools : ~IsRunning(p)
    BY <2>1, MutexTaken DEF ServiceInv, MutexKept
  <2>3. req'[r].pc \in Holding => mu' = r
    <3>1. CASE Done(r)
      BY <1>0, <3>1 DEF Done, NewRequest, Holding
    <3>2. QED
      BY <1>4, <2>2, <3>1 DEF StartLogin
  <2>4. QED
    BY <1>1, <1>2, <2>1, <2>2, <2>3, ServiceRests
<1>5. QED
  BY <1>3, <1>4

\* The new pool is the only one that runs, and f.workPool.
LEMMA StartPoolService ==
    ASSUME IndInv, ServiceInv, NEW r \in Requests, StartPool(r)
    PROVE  ServiceInv'
<1>0. /\ req \in [Requests -> RequestValues] /\ pipe \in [Pools -> [Pairs -> PipeValues]]
  BY DEF IndInv, TypeOK
<1>1. req[r].pc \in Holding /\ req[r].pc = "pool"
  BY DEF StartPool, Holding
<1>2. /\ \A q \in Requests : q # r => req[q].pc \notin Holding
      /\ \A p \in Pools : ~IsRunning(p)
  BY <1>1, MutexTaken
<1>3. \A q \in Requests : req'[q].pc \notin Holding
  BY <1>0, <1>2 DEF StartPool, Done, NewRequest, Holding
<1>4. CASE UNCHANGED pipe
  <2>1. \A p \in Pools : ~IsRunning(p)'
    BY <1>2, <1>4 DEF IsRunning
  <2>2. QED
    BY <1>3, <2>1, ServiceRests
<1>5. ASSUME NEW p \in Pools, workPool' = p,
             pipe' = [pipe EXCEPT ![p] = [x \in Pairs |->
                 IF x \in req[r].pairs THEN [NoPipe EXCEPT !.pc = "next"] ELSE NoPipe]]
      PROVE  ServiceInv'
  <2>1. \A q \in Pools : q # p => pipe'[q] = pipe[q]
    BY <1>0, <1>5
  <2>2. \A q \in Pools : IsRunning(q)' => q = p
    BY <1>2, <2>1 DEF IsRunning
  <2>3. QED
    BY <1>3, <1>5, <2>2 DEF ServiceInv, MutexKept, OneForecast, Holding
<1>6. QED
  BY <1>4, <1>5 DEF StartPool

\* Stop takes the running pool with it into the critical section, and leaves it
\* when that pool has ended.
LEMMA StopService ==
    ASSUME IndInv, ServiceInv, NEW r \in Requests, StopLock(r) \/ StopReturn(r)
    PROVE  ServiceInv'
<1>0. /\ req \in [Requests -> RequestValues] /\ req[r] \in RequestValues
      /\ workPool \in {0} \cup Pools /\ RequestsBound
  BY DEF IndInv, TypeOK
<1>1. \A p \in Pools : IsRunning(p)' => IsRunning(p)
  BY DEF StopLock, StopReturn, IsRunning
<1>2. \A q \in Requests : q # r => req'[q] = req[q]
  BY <1>0 DEF StopLock, StopReturn, Done
<1>3. \A p \in Pools : p # 0
  BY ForecastAssumption DEF Pools
<1>4. CASE StopLock(r)
  <2>1. /\ \A q \in Requests : req[q].pc \notin Holding
        /\ \A p \in Pools : IsRunning(p) => workPool = p
    BY <1>4, MutexFree DEF StopLock
  <2>2. workPool' = 0
    BY <1>4 DEF StopLock
  <2>3. CASE workPool = 0
    <3>1. req'[r].pc = "done"
      BY <1>0, <1>4, <2>3 DEF StopLock, Done, NewRequest
    <3>2. QED
      BY <1>1, <1>2, <1>3, <2>1, <2>3, <3>1, ServiceRests DEF Holding
  <2>4. CASE workPool # 0
    <3>1. /\ mu' = r /\ req'[r].pc = "pipes" /\ req'[r].pool = workPool
      BY <1>0, <1>4, <2>4 DEF StopLock, RequestValues
    <3>2. MutexKept'
      BY <1>2, <2>1, <2>2, <3>1 DEF MutexKept, Holding
    <3>3. OneForecast'
      BY <1>1, <2>1, <3>1 DEF OneForecast
    <3>4. QED
      BY <3>2, <3>3 DEF ServiceInv
  <2>5. QED
    BY <2>3, <2>4
<1>5. CASE StopReturn(r)
  <2>1. req[r].pc = "pipes" /\ req[r].pc \in Holding /\ run[req[r].pool] = "closed" /\ Done(r)
    BY <1>5 DEF StopReturn, Holding
  <2>2. /\ \A q \in Requests : q # r => req[q].pc \notin Holding
        /\ \A p \in Pools : IsRunning(p) => req[r].pool = p
    BY <2>1, MutexTaken
  <2>3. req[r].pool \in Pools /\ ~IsRunning(req[r].pool)
    BY <1>0, <2>1 DEF RequestsBound, IndInv, PoolEnds, IsRunning
  <2>4. req'[r].pc = "done"
    BY <1>0, <2>1 DEF Done, NewRequest
  <2>5. QED
    BY <1>1, <1>2, <2>2, <2>3, <2>4, ServiceRests DEF Holding
<1>6. QED
  BY <1>4, <1>5

LEMMA ServiceKeeps ==
    ASSUME IndInv, ServiceInv, [Next]_vars
    PROVE  ServiceInv'
<1>1. ASSUME NEW r \in Requests, Arrive(r) \/ Handler(r) PROVE ServiceInv'
  BY <1>1, BesidesService, StartService, StartPoolService, StopService DEF Handler
<1>2. ASSUME NEW p \in Pools, NEW x \in Pairs, Pipeline(p, x) \/ Worker(p, x) PROVE ServiceInv'
  BY <1>2, PairService
<1>3. CASE UNCHANGED <<mu, workPool, pipe, req>>
  <2>1. \A p \in Pools : IsRunning(p)' => IsRunning(p)
    BY <1>3 DEF IsRunning
  <2>2. QED
    BY <1>3, <2>1, ServiceStands
<1>4. CASE Crash
  <2>1. \A p \in Pools, x \in Pairs : pipe'[p][x].pc \in {"none", "done"}
    BY <1>4 DEF Crash, NoPipe
  <2>2. \A p \in Pools : ~IsRunning(p)'
    BY <2>1 DEF IsRunning
  <2>3. \A r \in Requests : req'[r].pc \notin Holding
    BY <1>4 DEF Crash, NewRequest, Holding
  <2>4. QED
    BY <2>2, <2>3, ServiceRests
<1>5. CASE (\E p \in Pools : PoolFinalizer(p)) \/ DeleteForecasterRun \/ UNCHANGED vars
  BY <1>3, <1>5 DEF PoolFinalizer, DeleteForecasterRun, vars, serviceVars
<1>6. QED
  BY <1>1, <1>2, <1>4, <1>5 DEF Next

-----------------------------------------------------------------------------
(* The theorems. *)

LEMMA InitKeeps ==
    ASSUME Init
    PROVE  IndInv
<1>1. TypeOK
  <2>1. NewRequest \in RequestValues
    BY DEF NewRequest, RequestValues, RequestStates
  <2>2. QED
    BY <2>1, Constants, ForecastAssumption DEF Init, TypeOK
<1>2. RequestsBound
  BY DEF Init, RequestsBound, NewRequest
<1>3. ASSUME NEW p \in Pools PROVE PoolEnds(p)
  BY Constants DEF Init, PoolEnds
<1>4. ASSUME NEW p \in Pools, NEW x \in Pairs PROVE PairInv(p, x)
  <2>1. pipe[p][x] = NoPipe /\ job[p][x] = NoJob /\ objects = {}
    BY DEF Init
  <2>2. /\ WorkerFollows(NoPipe, NoJob) /\ UnitsCounted(NoPipe, NoJob)
        /\ TempDirSet(NoPipe, NoJob, builder[p][x])
    BY Constants DEF WorkerFollows, UnitsCounted, TempDirSet
  <2>3. ObjectsOwed(p, x)
    BY <2>1 DEF ObjectsOwed, Owed
  <2>4. QED
    BY <2>1, <2>2, <2>3 DEF PairInv
<1>5. QED
  BY <1>1, <1>2, <1>3, <1>4 DEF IndInv

LEMMA NextKeeps ==
    ASSUME IndInv, [Next]_vars
    PROVE  IndInv'
<1>1. ASSUME NEW r \in Requests, Arrive(r) PROVE IndInv'
  BY <1>1, ArriveStep
<1>2. ASSUME NEW r \in Requests, Handler(r) PROVE IndInv'
  BY <1>2, StartStep, StartPoolStep, StopStep, CloseStep, StopReturnStep DEF Handler
<1>3. ASSUME NEW p \in Pools, PoolFinalizer(p) PROVE IndInv'
  BY <1>3, FinalizerStep
<1>4. ASSUME NEW p \in Pools, NEW x \in Pairs, Pipeline(p, x) \/ Worker(p, x) PROVE IndInv'
  BY <1>4, PipelineKeeps, WorkerKeeps
<1>5. CASE DeleteForecasterRun
  BY <1>5, DeleteRunStep
<1>6. CASE Crash
  BY <1>6, CrashStep
<1>7. CASE UNCHANGED vars
  <2>1. UNCHANGED <<mu, workPool, run, sched, pipe, job, builder, objects, rows, req, sessions,
                    leaks, faults>>
    BY <1>7 DEF vars, serviceVars, poolVars
  <2>2. TypeOK' /\ RequestsBound'
    BY <2>1 DEF IndInv, TypeOK, RequestsBound
  <2>3. ASSUME NEW q \in Pools PROVE PoolEnds(q)'
    BY <2>1 DEF IndInv, PoolEnds
  <2>4. QED
    BY <2>1, <2>2, <2>3, PairsStand DEF IndInv
<1>8. QED
  BY <1>1, <1>2, <1>3, <1>4, <1>5, <1>6, <1>7 DEF Next

\* The inductive invariant of the benchmarks, over units, workers, pools and
\* crashes: every object on a datastore has somebody who will delete it, or is
\* one of the leaks (forecast_builder.go, forecaster.go).
THEOREM Invariance == Spec => []IndInv
<1>1. Init => IndInv
  BY InitKeeps
<1>2. IndInv /\ [Next]_vars => IndInv'
  BY NextKeeps
<1>3. QED
  BY <1>1, <1>2, PTL DEF Spec

\* When a pair has ended and no worker runs for it, nothing it made is left on
\* the datastores but what a dropped unit, a failed deletion, a creation that
\* could not be awaited or a crash left (finalize, vmStrategy.Teardown).
THEOREM DatastoresAreCleaned == Spec => []DatastoresClean
<1>1. IndInv => DatastoresClean
  <2>1. SUFFICES ASSUME IndInv, NEW p \in Pools, NEW x \in Pairs,
                        pipe[p][x].pc \in {"event", "done"}, job[p][x] = NoJob,
                        NEW o \in objects, o[1] = p, o[2] = x
                 PROVE  o \in leaks
    BY DEF DatastoresClean
  <2>2. PICK k \in Kinds : o = <<p, x, k>>
    <3>1. o \in Pools \X Pairs \X Kinds
      BY <2>1 DEF IndInv, TypeOK
    <3>2. QED
      BY <2>1, <3>1
  <2>3. ~ DeletedLater(k, pipe[p][x], job[p][x], builder[p][x])
    BY <2>1, Constants DEF DeletedLater, Kinds
  <2>4. ~ Owed(p, x, k)
    BY <2>1, <2>3, OfPair
  <2>5. QED
    BY <2>2, <2>4 DEF Owed
<1>2. QED
  BY <1>1, Invariance, PTL

\* After Stop has returned no unit of that forecast adds an object to a datastore
\* or a row to forecast_runs: Scheduler.Close waited for the dropped ones.
THEOREM NothingAfterStop == Spec => StopIsFinal
<1> DEFINE Quiet == \A p \in Pools : sched[p] = "closed" =>
                       /\ \A o \in objects' \ objects : o[1] # p
                       /\ \A row \in rows' \ rows : row[1] # p
<1>1. IndInv /\ [Next]_vars => [Quiet]_vars
  <2>1. SUFFICES ASSUME IndInv, Next, NEW p \in Pools, sched[p] = "closed"
                 PROVE  /\ \A o \in objects' \ objects : o[1] # p
                        /\ \A row \in rows' \ rows : row[1] # p
    OBVIOUS
  <2>2. \A x \in Pairs : job[p][x] = NoJob
    BY <2>1 DEF IndInv, PoolEnds
  <2>3. CASE \E q \in Pools, x \in Pairs : Worker(q, x)
    <3>1. PICK q \in Pools, x \in Pairs : Worker(q, x)
      BY <2>3
    <3>2. job[q][x].call # "none"
      BY <3>1 DEF Worker, Lookup, CallAssigns, DeployFillerImage, CreateDirectory, CreateDisk,
                  FillDisk, CopyDisk, DestroyVM, DeleteDisk, FillFails, InsertRun, CallFails,
                  Makes, Deletes, Kinds
    <3>3. q # p
      BY <2>2, <3>2, Constants
    <3>4. objects' \subseteq objects \cup {<<q, x, k>> : k \in Kinds}
      BY <3>1 DEF Worker, Lookup, CallAssigns, DeployFillerImage, CreateDirectory, CreateDisk,
                  FillDisk, CopyDisk, DestroyVM, DeleteDisk, FillFails, InsertRun, CallFails,
                  Makes, Deletes, Create, Delete, Kinds
    <3>5. rows' \subseteq rows \cup {<<q, x, job[q][x].unit - 4>>}
      BY <3>1 DEF Worker, Lookup, CallAssigns, DeployFillerImage, CreateDirectory, CreateDisk,
                  FillDisk, CopyDisk, DestroyVM, DeleteDisk, FillFails, InsertRun, CallFails,
                  Makes, Deletes
    <3>6. QED
      BY <3>3, <3>4, <3>5
  <2>4. CASE ~ \E q \in Pools, x \in Pairs : Worker(q, x)
    <3>1. objects' \subseteq objects /\ rows' \subseteq rows
      <4>1. ASSUME NEW r \in Requests, Arrive(r) \/ Handler(r) PROVE objects' = objects /\ rows' = rows
        BY <4>1 DEF Arrive, Handler, StartChecks, StartLogin, StartPool, StopLock, StopPipe,
                    PipeStopped, StopReturn, StopPairRead, StopPairCancel, StopPairReturn
      <4>2. ASSUME NEW q \in Pools, PoolFinalizer(q) PROVE objects' = objects /\ rows' = rows
        BY <4>2 DEF PoolFinalizer
      <4>3. ASSUME NEW q \in Pools, NEW x \in Pairs, Pipeline(q, x)
            PROVE  objects' \subseteq objects /\ rows' = rows
        BY <4>3 DEF Pipeline, UnitStart, UnitReturn, UnitDropped, Teardown, DeleteDirs, EntryDone,
                    Delete
      <4>4. CASE DeleteForecasterRun \/ Crash
        BY <4>4 DEF DeleteForecasterRun, DeleteRun, Crash
      <4>5. QED
        BY <2>1, <2>4, <4>1, <4>2, <4>3, <4>4 DEF Next
    <3>2. QED
      BY <3>1
  <2>5. QED
    BY <2>3, <2>4
<1>2. QED
  BY <1>1, Invariance, PTL DEF Spec, StopIsFinal

\* However Start, Stop and StopPair come together: a second forecast is refused
\* while one runs, also while Stop waits for one it has already taken out of
\* f.workPool, and there is none that Stop cannot reach.
THEOREM OneForecastRuns == Spec => []OneForecast
<1>1. Init => ServiceInv
  <2>1. SUFFICES ASSUME Init PROVE ServiceInv
    OBVIOUS
  <2>2. \A p \in Pools : ~IsRunning(p)
    BY <2>1 DEF Init, IsRunning, NoPipe
  <2>3. \A r \in Requests : req[r].pc \notin {"login", "pool", "pipes"}
    BY <2>1 DEF Init, NewRequest
  <2>4. QED
    BY <2>2, <2>3 DEF ServiceInv, MutexKept, OneForecast
<1>2. IndInv /\ ServiceInv /\ [Next]_vars => ServiceInv'
  BY ServiceKeeps
<1>3. ServiceInv => OneForecast
  BY DEF ServiceInv
<1>4. QED
  BY <1>1, <1>2, <1>3, Invariance, PTL DEF Spec
=============================================================================
