------------------------------ MODULE Databases ------------------------------
(***************************************************************************)
(* The DuckDB databases of the agent, v2: store.Pool and store.Database,   *)
(* newDatabase, the migrations, initPool at startup, the promotion of a    *)
(* new collection, and the shutdown sequence of cmd/run.go.                *)
(*                                                                         *)
(* Database 0 is the main one; collections are numbered in the order of    *)
(* the timestamps in their file names. A request obtains a Database, then  *)
(* a Store2 bound to its connection, then queries: cleanup, a promotion    *)
(* and the shutdown close connections in between.                          *)
(***************************************************************************)
EXTENDS Integers, FiniteSets

CONSTANTS
    Users,            \* HTTP requests that query a database
    MaxCollections,   \* bound: collections that ever exist
    Versions,         \* number of migrations
    MaxDbFaults       \* bound: crashes, failed migrations, exports and imports

ASSUME DatabasesAssumption ==
    /\ IsFiniteSet(Users)
    /\ {MaxCollections, Versions, MaxDbFaults} \subseteq Nat

Main == 0
Collections == 1..MaxCollections
Ids == 0..MaxCollections

VARIABLES
    phase,            \* where the process is
    files,            \* collection files that are complete
    pending,          \* startup: files not yet registered
    schema,           \* migrations whose changes are in the file
    recorded,         \* versions in its schema_migrations table
    registered,       \* Pool.databases
    latest,           \* Pool.latestCollectionDatabase, 0 for nil
    conn,             \* open connections of each Database
    store,            \* Database.store # nil
    access,           \* lastAccess of that store
    timer,            \* cleanupTimer has fired
    user,
    job,              \* the collection run and the database it builds
    clones,           \* clone files on disk, by the collection they copy
    dbFaults

fileVars == <<files, schema, recorded>>
poolVars == <<registered, latest, timer>>
connVars == <<conn, store, access>>
dbVars == <<phase, pending, fileVars, poolVars, connVars, user, job, clones, dbFaults>>

NoUser == [pc |-> "idle", db |-> 0, handle |-> "none"]
NoJob == [pc |-> "none", db |-> 0]
Closed == [d \in Ids |-> 0]

DbTypeOK ==
    /\ phase \in {"stopped", "main", "register", "serving", "draining", "closed"}
    /\ files \subseteq Collections /\ pending \subseteq Collections
    /\ schema \in [Ids -> SUBSET (1..Versions)] /\ recorded \in [Ids -> SUBSET (1..Versions)]
    /\ registered \subseteq Ids /\ latest \in Ids /\ timer \in BOOLEAN
    /\ conn \in [Ids -> 0..2] /\ store \in [Ids -> BOOLEAN]
    /\ access \in [Ids -> {"never", "recent", "idle"}]
    /\ user \in [Users -> [pc : {"idle", "got", "query"}, db : Ids,
                           handle : {"none", "live", "dead"}]]
    /\ job \in [pc : {"none", "collect", "cloned", "failed", "synced", "added", "listed"}, db : Ids]
    /\ clones \subseteq Collections
    /\ dbFaults \in 0..MaxDbFaults

\* The agent is not running; collections of earlier runs were written by this
\* version or by one with fewer migrations.
DbInit ==
    /\ phase = "stopped" /\ files \in SUBSET {d \in Collections : d < MaxCollections}
    /\ pending = {}
    /\ \E v \in 0..Versions :
          schema = [d \in Ids |-> IF d \in files \cup {Main} THEN 1..v ELSE {}]
    /\ recorded = schema
    /\ registered = {} /\ latest = 0 /\ timer = FALSE
    /\ conn = Closed /\ store = [d \in Ids |-> FALSE] /\ access = [d \in Ids |-> "never"]
    /\ user = [u \in Users |-> NoUser] /\ job = NoJob
    /\ clones = {} /\ dbFaults = 0

DbFault == dbFaults < MaxDbFaults /\ dbFaults' = dbFaults + 1

-----------------------------------------------------------------------------
(* Database *)

\* Database.Close on every database of S: d.store and d.connection become nil;
\* a Store2 obtained before fails from now on.
Close(S) ==
    /\ conn' = [d \in Ids |-> IF d \in S THEN 0 ELSE conn[d]]
    /\ store' = [d \in Ids |-> store[d] /\ d \notin S]
    /\ access' = [d \in Ids |-> IF d \in S THEN "never" ELSE access[d]]

LoseHandles(S) ==
    [u \in Users |-> IF user[u].db \in S /\ user[u].handle = "live"
                     THEN [user[u] EXCEPT !.handle = "dead"] ELSE user[u]]

\* newDatabase, called with d.mu held and only while d.connection is nil.
Open(d) == conn' = [conn EXCEPT ![d] = IF @ = 0 THEN 1 ELSE @]

\* Store of request u: the store of the open connection, or a new connection.
Store(u) ==
    LET d == user[u].db IN
    /\ user[u].pc = "got"
    /\ Open(d)
    /\ store' = [store EXCEPT ![d] = TRUE] /\ UNCHANGED access
    /\ user' = [user EXCEPT ![u].pc = "query", ![u].handle = "live"]
    /\ UNCHANGED <<phase, pending, fileVars, poolVars, job, clones, dbFaults>>

\* usageInterceptor: a query records the access; on a closed connection the
\* request ends with an error.
Query(u) ==
    LET d == user[u].db IN
    /\ user[u].pc = "query"
    /\ access' = IF user[u].handle = "live" THEN [access EXCEPT ![d] = "recent"] ELSE access
    /\ \/ user' = [user EXCEPT ![u] = NoUser]
       \/ user[u].handle = "live" /\ access[d] # "recent" /\ UNCHANGED user
    /\ UNCHANGED <<phase, pending, fileVars, poolVars, conn, store, job, clones, dbFaults>>

\* The connection of a database stays unused for cleanupInterval.
Idle(d) ==
    /\ access[d] = "recent"
    /\ access' = [access EXCEPT ![d] = "idle"]
    /\ UNCHANGED <<phase, pending, fileVars, poolVars, conn, store, user, job, clones,
                   dbFaults>>

\* cleanupTimer fires.
TimerFires ==
    /\ phase = "serving" /\ ~timer /\ timer' = TRUE
    /\ UNCHANGED <<phase, pending, fileVars, registered, latest, connVars, user, job,
                   clones, dbFaults>>

-----------------------------------------------------------------------------
(* Pool *)

\* cleanup: what is neither main nor latest, was used, and not lately.
cleanup == {d \in registered \ {Main, latest} : store[d] /\ access[d] = "idle"}

\* Get runs the cleanup when the timer has fired.
Get(u, d) ==
    LET stale == IF timer THEN cleanup ELSE {} IN
    /\ phase = "serving" /\ user[u].pc = "idle" /\ d \in registered
    /\ Close(stale) /\ timer' = FALSE
    /\ user' = [LoseHandles(stale) EXCEPT ![u].pc = "got", ![u].db = d]
    /\ UNCHANGED <<phase, pending, fileVars, registered, latest, job, clones, dbFaults>>

\* Latest is a single atomic load.
Latest(u) ==
    /\ phase = "serving" /\ user[u].pc = "idle" /\ latest # 0
    /\ user' = [user EXCEPT ![u].pc = "got", ![u].db = latest]
    /\ UNCHANGED <<phase, pending, fileVars, poolVars, connVars, job, clones, dbFaults>>

\* A collection run creates the database of a collection newer than all others:
\* opened and migrated, not registered (NewDatabase).
NewDatabase(d) ==
    /\ phase = "serving" /\ job.pc = "none"
    /\ d \notin files /\ \A e \in files : e < d
    /\ Open(d) /\ store' = [store EXCEPT ![d] = TRUE] /\ UNCHANGED access
    /\ schema' = [schema EXCEPT ![d] = 1..Versions]
    /\ recorded' = [recorded EXCEPT ![d] = 1..Versions]
    /\ job' = [pc |-> "collect", db |-> d]
    /\ UNCHANGED <<phase, pending, files, poolVars, user, clones, dbFaults>>

\* Mutant: Clone opens a connection of its own.
CloneOpens ==
    /\ job.pc = "collect" /\ latest # 0
    /\ conn' = [conn EXCEPT ![latest] = @ + 1] /\ UNCHANGED <<store, access>>
    /\ clones' = clones \cup {latest}
    /\ job' = [job EXCEPT !.pc = "cloned"]
    /\ UNCHANGED <<phase, pending, fileVars, poolVars, user, dbFaults>>

\* Clone of the latest collection for the synchronisation of user data: its
\* connection is opened if need be and stays open. Once the clone is there, the
\* connection of the new collection is closed, to attach its file to the clone.
Clone ==
    /\ job.pc = "collect" /\ latest # 0
    /\ conn' = [conn EXCEPT ![latest] = 1, ![job.db] = 0]
    /\ store' = [store EXCEPT ![job.db] = FALSE]
    /\ clones' = clones \cup {latest}
    /\ job' = [job EXCEPT !.pc = "cloned"]
    /\ UNCHANGED <<phase, pending, fileVars, poolVars, access, user, dbFaults>>

\* A Clone that fails, from opening the connection on, leaves the new collection
\* open; it removes what it exported, but a failed import leaves the file of the
\* clone behind.
CloneFails ==
    /\ job.pc = "collect" /\ latest # 0 /\ DbFault
    /\ conn' \in {conn, [conn EXCEPT ![latest] = 1]}
    /\ clones' \in {clones, clones \cup {latest}}
    /\ job' = [job EXCEPT !.pc = "failed"]
    /\ UNCHANGED <<phase, pending, fileVars, poolVars, store, access, user>>

\* The unit ends: the new collection is detached and opened again, the clone is
\* closed and its file removed. When attaching or synchronising failed, the
\* collection stays closed.
RemoveClone ==
    /\ job.pc = "cloned"
    /\ clones' = clones \ {latest}
    /\ \/ job' = [job EXCEPT !.pc = "synced"] /\ UNCHANGED dbFaults
          /\ Open(job.db) /\ store' = [store EXCEPT ![job.db] = TRUE]
       \/ job' = [job EXCEPT !.pc = "failed"] /\ DbFault /\ UNCHANGED <<conn, store>>
    /\ UNCHANGED <<phase, pending, fileVars, poolVars, access, user>>

\* Finalize of a completed run: Add publishes the database as the latest ...
AddLatest ==
    /\ phase = "serving"
    /\ job.pc = IF latest = 0 THEN "collect" ELSE "synced"
    /\ files' = files \cup {job.db}
    /\ latest' = job.db
    /\ job' = [pc |-> "added", db |-> latest]
    /\ UNCHANGED <<phase, pending, schema, recorded, registered, timer, connVars, user,
                   clones, dbFaults>>

\* ... and lists it under its id ...
AddListed ==
    /\ job.pc = "added"
    /\ registered' = registered \cup {latest}
    /\ job' = [job EXCEPT !.pc = "listed"]
    /\ UNCHANGED <<phase, pending, fileVars, latest, timer, connVars, user, clones,
                   dbFaults>>

\* Mutant: the database to close is read after the new one was added.
ClosePreviousLate ==
    /\ job.pc = "listed"
    /\ Close({latest}) /\ user' = LoseHandles({latest})
    /\ job' = NoJob
    /\ UNCHANGED <<phase, pending, fileVars, poolVars, clones, dbFaults>>

\* ... and a vCenter run (an RVTools run does not) closes the previous one.
ClosePrevious ==
    /\ job.pc = "listed"
    /\ \/ job.db # 0 /\ Close({job.db}) /\ user' = LoseHandles({job.db})
       \/ UNCHANGED <<connVars, user>>
    /\ job' = NoJob
    /\ UNCHANGED <<phase, pending, fileVars, poolVars, clones, dbFaults>>

\* Finalize of a failed or cancelled run: closed and removed.
Discard ==
    /\ job.pc \in {"collect", "synced", "failed"}
    /\ Close({job.db}) /\ UNCHANGED user
    /\ schema' = [schema EXCEPT ![job.db] = {}]
    /\ recorded' = [recorded EXCEPT ![job.db] = {}]
    /\ job' = NoJob
    /\ UNCHANGED <<phase, pending, files, poolVars, clones, dbFaults>>

-----------------------------------------------------------------------------
(* Startup and shutdown *)

\* getAppliedVersions and getMigrationFiles: the versions still to be applied,
\* in ascending order.
Unapplied(d) == {v \in 1..Versions : v \notin recorded[d]}

NextVersion(d) == CHOOSE v \in Unapplied(d) : \A w \in Unapplied(d) : v <= w

\* runMigration: the change and its version in one transaction.
runMigration(d) ==
    /\ schema' = [schema EXCEPT ![d] = @ \cup {NextVersion(d)}]
    /\ recorded' = [recorded EXCEPT ![d] = @ \cup {NextVersion(d)}]

\* The database that startup is at: main, then the files in the order of Glob.
Starting(d) == \/ phase = "main" /\ d = Main
               \/ phase = "register" /\ d \in pending /\ \A e \in pending : d <= e

\* initPool opens the main database.
OpenMain ==
    /\ phase = "stopped" /\ phase' = "main"
    /\ Open(Main) /\ store' = [store EXCEPT ![Main] = TRUE] /\ UNCHANGED access
    /\ UNCHANGED <<pending, fileVars, poolVars, user, job, clones, dbFaults>>

\* Migrate: one more migration of the database startup is at.
Migrate(d) ==
    /\ Starting(d) /\ Unapplied(d) # {}
    /\ runMigration(d) /\ Open(d)
    /\ UNCHANGED <<phase, pending, files, poolVars, store, access, user, job, clones,
                   dbFaults>>

\* A migration that fails: the transaction is rolled back; the agent does not
\* start without the main database and goes on without a collection.
MigrateFails(d) ==
    /\ Starting(d) /\ Unapplied(d) # {} /\ DbFault
    /\ IF d = Main
       THEN phase' = "stopped" /\ Close(Ids) /\ UNCHANGED pending
       ELSE pending' = pending \ {d} /\ Close({d}) /\ UNCHANGED phase
    /\ UNCHANGED <<fileVars, poolVars, user, job, clones>>

\* Mutant: a collection is registered whatever became of its migrations.
RegisterAny(d) ==
    /\ Starting(d)
    /\ registered' = registered \cup {d}
    /\ latest' = IF d = Main THEN latest ELSE d
    /\ pending' = IF d = Main THEN files ELSE pending \ {d}
    /\ phase' = "register"
    /\ UNCHANGED <<fileVars, timer, connVars, user, job, clones, dbFaults>>

\* Everything is applied: a collection's connection is closed again, Add.
Register(d) ==
    /\ Starting(d) /\ Unapplied(d) = {}
    /\ registered' = registered \cup {d}
    /\ IF d = Main THEN UNCHANGED <<latest, connVars>> ELSE latest' = d /\ Close({d})
    /\ pending' = IF d = Main THEN files ELSE pending \ {d}
    /\ phase' = "register"
    /\ UNCHANGED <<fileVars, timer, user, job, clones, dbFaults>>

Serve ==
    /\ phase = "register" /\ pending = {} /\ phase' = "serving"
    /\ UNCHANGED <<pending, fileVars, poolVars, connVars, user, job, clones, dbFaults>>

\* A signal: the listener closes and the deferred cleanup starts, while
\* Shutdown still waits for the requests under way.
Signal ==
    /\ phase = "serving" /\ phase' = "draining"
    /\ UNCHANGED <<pending, fileVars, poolVars, connVars, user, job, clones, dbFaults>>

\* ServiceManager.Stop has ended the run, then Pool.Close.
PoolClose ==
    /\ phase = "draining" /\ job.pc = "none" /\ phase' = "closed"
    /\ Close(registered) /\ user' = LoseHandles(registered)
    /\ UNCHANGED <<pending, fileVars, poolVars, job, clones, dbFaults>>

\* The process ends, at the end of the shutdown or anywhere; a run under way
\* leaves a file that startup removes, a clone that nothing removes.
Exit ==
    /\ phase # "stopped" /\ phase' = "stopped"
    /\ IF phase = "closed" THEN UNCHANGED dbFaults ELSE DbFault
    /\ pending' = {} /\ registered' = {} /\ latest' = 0 /\ timer' = FALSE
    /\ Close(Ids)
    /\ user' = [u \in Users |-> NoUser] /\ job' = NoJob
    /\ schema' = [d \in Ids |-> IF d \in files \cup {Main} THEN schema[d] ELSE {}]
    /\ recorded' = [d \in Ids |-> IF d \in files \cup {Main} THEN recorded[d] ELSE {}]
    /\ UNCHANGED <<files, clones>>

DbNext ==
    \/ \E u \in Users : \/ Store(u) \/ Query(u) \/ Latest(u)
                        \/ \E d \in Ids : Get(u, d)
    \/ \E d \in Collections : NewDatabase(d)
    \/ \E d \in Ids : Idle(d) \/ Migrate(d) \/ MigrateFails(d) \/ Register(d)
    \/ TimerFires \/ Clone \/ CloneFails \/ RemoveClone \/ AddLatest \/ AddListed
    \/ ClosePrevious \/ Discard \/ OpenMain \/ Serve \/ Signal \/ PoolClose \/ Exit

DbSpec == DbInit /\ [][DbNext]_dbVars

-----------------------------------------------------------------------------
(* Properties *)

\* DuckDB refuses a second connection to a file: whoever comes first (Store,
\* Clone, Migrate), a Database has at most one, and none while the
\* synchronisation has the file attached to the clone.
OneConnection == /\ \A d \in Ids : conn[d] <= 1
                 /\ job.pc = "cloned" => conn[job.db] = 0

\* Until the shutdown, requests on the main database and on the latest
\* collection never find their connection closed, whatever cleanup and
\* promotions do at the same time.
LatestUndisturbed ==
    \A u \in Users :
        user[u].handle = "dead" /\ phase = "serving" => user[u].db \notin {Main, latest}

\* A database that requests can reach has every migration, also when an earlier
\* start failed or died between two migrations.
ServedIsMigrated ==
    \A d \in registered \cup ({latest} \ {0}) : schema[d] = 1..Versions

-----------------------------------------------------------------------------
(* The inductive invariant behind these properties *)

\* The pool knows complete collections only; the database a run builds is none
\* of them until it is published, and is not the one the run closes after that.
JobIsApart ==
    /\ registered \subseteq files \cup {Main} /\ pending \subseteq files
    /\ latest \in files \cup {0}
    /\ phase \notin {"serving", "draining"} => job.pc = "none"
    /\ job.pc \in {"collect", "cloned", "failed", "synced"} =>
          job.db \in Collections \ files /\ schema[job.db] = 1..Versions
    /\ job.pc \in {"added", "listed"} =>
          latest # 0 /\ job.db # latest /\ job.db \in files \cup {0}

\* A request refers to a database of the pool, and has a connection that can be
\* lost only between Store and its last query.
RequestsApart ==
    \A u \in Users :
        /\ user[u].db \in files \cup {Main}
        /\ user[u].pc # "query" => user[u].handle = "none"
        /\ phase \in {"stopped", "main", "register"} => user[u].pc = "idle"

\* A migration and its version are committed together.
SchemaIsRecorded == schema = recorded

DbInv ==
    /\ DbTypeOK
    /\ OneConnection
    /\ JobIsApart
    /\ RequestsApart
    /\ SchemaIsRecorded
    /\ ServedIsMigrated
    /\ LatestUndisturbed

-----------------------------------------------------------------------------
(* What the repository says and the code does not do *)

\* cmd/run.go:265: "v2 services and pool closed". ListenAndServe returns as soon
\* as Shutdown is called: requests still under way reopen databases behind
\* Pool.Close.
ClosedStaysClosed == phase = "closed" => conn = Closed
=============================================================================
