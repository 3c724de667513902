-------------------------------- MODULE Store --------------------------------
(***************************************************************************)
(* The run database as its users share it.  Scheduled and manual `dvp run` *)
(* processes compare themselves with the previous run and store their      *)
(* result, `dvp db prune` drops old runs, `dvp db migrate` brings the      *)
(* schema up to date, and the dashboard and the reports load runs.  Each   *)
(* is a process (or a request thread) with a connection of its own.        *)
(*                                                                         *)
(* SQLite in WAL mode is modelled from how the code uses it: a statement   *)
(* outside a transaction is atomic and sees what is committed, one writer  *)
(* at a time holds the write lock, a writer that finds it taken waits or   *)
(* gives up, and a process that dies loses its open transaction.           *)
(*                                                                         *)
(* Runs are identified by the process that performs them.  cases stands    *)
(* for the child tables of 0001_initial that hang off a case as well.      *)
(***************************************************************************)
EXTENDS Naturals, Sequences, FiniteSets

CONSTANTS
    Procs,       \* processes, one run, migration, pruning or page each
    OldRuns,     \* runs that may be stored already
    OldStarted,  \* old run -> the day it started
    Workloads,   \* the assignments of jobs to processes considered
    Installed,   \* how many migrations may have been applied beforehand
    Checkouts,   \* the contents of storage/migrations considered, by checksum
    Today,       \* the day the model starts on
    LastDay,     \* bound: the clock stops here
    KeepDays,    \* storage.retention_days
    NoProc       \* nobody

Runs == Procs \cup OldRuns
Jobs == {"run", "migrate", "prune", "view", "nothing"}

ASSUME StoreAssumption ==
    /\ Procs \cap OldRuns = {}
    /\ NoProc \notin Runs
    /\ OldStarted \in [OldRuns -> Nat]
    /\ Workloads \subseteq [Procs -> Jobs]
    /\ Installed \subseteq 0..3
    /\ Checkouts \subseteq [1..3 -> {"original", "edited"}]
    /\ Today \in Nat /\ LastDay \in Nat /\ KeepDays \in Nat

VARIABLES
    objects,   \* tables and views that exist
    versions,  \* schema_migrations: migration -> recorded checksum or "none"
    files,     \* migration -> checksum of its file in the checkout
    rows,      \* committed rows: run -> the tables that hold rows of it
    lock,      \* the process that holds SQLite's write lock
    draft,     \* rows as the open write transaction leaves them
    today,
    started,   \* run -> the day it started
    job,       \* process -> what it does
    me         \* process -> its local state

storeVars == <<objects, versions, files, rows, lock, draft, today, started, job, me>>

---------------------------------------------------------------------------
(* The schema *)

Statement == [op: {"table", "drop", "view"}, name: STRING]
Table(name) == [op |-> "table", name |-> name]
DropView(name) == [op |-> "drop", name |-> name]
CreateView(name) == [op |-> "view", name |-> name]

\* storage/migrations/*.sql in filename order; executescript commits every
\* statement by itself.
Migrations ==
    << <<Table("runs"), Table("cases"), Table("emulations")>>,
       <<Table("rule_snapshots")>>,
       <<DropView("latest_case_outcomes"), CreateView("latest_case_outcomes")>> >>

Versions == 1..Len(Migrations)
ObjectsOf(m) == {Migrations[m][s].name : s \in 1..Len(Migrations[m])}
Objects == UNION {ObjectsOf(m) : m \in Versions}

\* The tables save_run fills and the ones load_run reads, in order.
SaveOrder == <<"runs", "cases", "emulations", "rule_snapshots">>

\* Mutant: load_run reads back whatever save_run wrote.
LoadOrderAll == <<"runs", "emulations", "cases", "rule_snapshots">>

LoadOrder == <<"runs", "emulations", "cases">>

Parts == {"runs", "cases", "emulations", "rule_snapshots"}
LoadedParts == {"runs", "emulations", "cases"}

is_initialised == "runs" \in objects

---------------------------------------------------------------------------
(* The processes *)

Ended == {"done", "refused", "raised", "crashed"}
Places == {"idle", "compare", "find", "load", "save", "migrate", "script",
           "begin", "insert", "prune", "delete", "purge", "vacuum"} \cup Ended

\* m, s: migration and statement of it last executed; k: next table of a save
\* or load; applied: the version rows read; target, seen: the run being loaded
\* and the tables that yielded rows; cutoff: the day pruning measures from.
Local ==
    [at: Places, m: Nat, s: Nat, k: Nat, target: Runs \cup {NoProc},
     seen: SUBSET LoadedParts, cutoff: Nat,
     applied: [Versions -> {"none", "original", "edited"}]]

Idle == [at |-> "idle", m |-> 1, s |-> 0, k |-> 1, target |-> NoProc,
         seen |-> {}, cutoff |-> 0, applied |-> [m \in Versions |-> "none"]]

Goto(p, place) == me' = [me EXCEPT ![p].at = place]

\* A process is over and all it knew is gone.
End(p, how) == me' = [me EXCEPT ![p] = [Idle EXCEPT !.at = how]]

\* StorageError: reported by its message, and a run merely goes unstored.
Refused(p) == End(p, "refused")

\* Any other exception: it ends the command.
Raised(p) == End(p, "raised")

schema == <<objects, versions, files>>
data == <<rows, lock, draft>>
world == <<today, started, job>>

StoreInit ==
    /\ \E n \in Installed :
        /\ objects = UNION {ObjectsOf(m) : m \in 1..n}
        /\ versions = [m \in Versions |-> IF m <= n THEN "original" ELSE "none"]
        /\ rows = [r \in Runs |-> IF r \in OldRuns THEN Parts \cap objects ELSE {}]
    /\ files \in Checkouts
    /\ lock = NoProc /\ draft = rows
    /\ today = Today
    /\ started = [r \in Runs |-> IF r \in OldRuns THEN OldStarted[r] ELSE Today]
    /\ job \in Workloads
    /\ me = [p \in Procs |-> Idle]

NextDay ==
    /\ today < LastDay /\ today' = today + 1
    /\ UNCHANGED <<schema, data, started, job, me>>

\* A command starts (or a page is requested).
Start(p) ==
    /\ me[p].at = "idle" /\ job[p] # "nothing"
    /\ Goto(p, CASE job[p] = "run" -> "compare" [] job[p] = "view" -> "compare"
                 [] OTHER -> job[p])
    /\ started' = IF job[p] = "run" THEN [started EXCEPT ![p] = today] ELSE started
    /\ UNCHANGED <<schema, data, today, job>>

---------------------------------------------------------------------------
(* Reading: _compare and the pages of the dashboard *)

AfterLoad(p) == IF job[p] = "run" THEN "save" ELSE "done"

Look(p) ==
    /\ me[p].at = "compare"
    /\ Goto(p, IF is_initialised THEN "find" ELSE AfterLoad(p))
    /\ UNCHANGED <<schema, data, world>>

\* previous_run wants an earlier run, latest_run_id just the newest.
Candidates(p) ==
    {r \in Runs : "runs" \in rows[r] /\ (job[p] = "run" => started[r] < started[p])}

Newest(S) == {r \in S : \A q \in S : started[q] <= started[r]}

Find(p) ==
    /\ me[p].at = "find"
    /\ IF Candidates(p) = {} THEN Goto(p, AfterLoad(p))
       ELSE \E r \in Newest(Candidates(p)) :
               me' = [me EXCEPT ![p].at = "load", ![p].target = r, ![p].k = 1]
    /\ UNCHANGED <<schema, data, world>>

\* One SELECT of load_run; there is no transaction around them.
Load(p) ==
    /\ me[p].at = "load"
    /\ LET table == LoadOrder[me[p].k]
           found == table \in rows[me[p].target]
           end == me[p].k = Len(LoadOrder) \/ (table = "runs" /\ ~found)
       IN  IF table \notin objects THEN Raised(p)
           ELSE me' = [me EXCEPT
                  ![p].seen = IF found THEN @ \cup {table} ELSE @,
                  ![p].target = IF table = "runs" /\ ~found THEN NoProc ELSE @,
                  ![p].k = IF end THEN 1 ELSE @ + 1,
                  ![p].at = IF end THEN AfterLoad(p) ELSE @]
    /\ UNCHANGED <<schema, data, world>>

---------------------------------------------------------------------------
(* Migrating *)

\* save_run migrates a database that has no runs table, and no other.
Save(p) ==
    /\ me[p].at = "save"
    /\ Goto(p, IF is_initialised THEN "begin" ELSE "migrate")
    /\ UNCHANGED <<schema, data, world>>

\* The version rows are read once, before anything is applied.
OpenMigrations(p) ==
    /\ me[p].at = "migrate"
    /\ me' = [me EXCEPT ![p].at = "script", ![p].m = 1, ![p].s = 0,
                        ![p].applied = versions]
    /\ UNCHANGED <<schema, data, world>>

InScript(p) == me[p].at = "script" /\ me[p].m \in Versions
Pending(p) == InScript(p) /\ me[p].applied[me[p].m] = "none"

NextMigration(p) == me' = [me EXCEPT ![p].m = @ + 1, ![p].s = 0]

\* Mutant: a changed checksum is a warning.
UnchangedAnyway(p) == me[p].applied[me[p].m] # "none"

\* The file of an applied migration is the one that was applied.
Unchanged(p) == me[p].applied[me[p].m] = files[me[p].m]

SkipMigration(p) ==
    /\ InScript(p) /\ Unchanged(p)
    /\ NextMigration(p)
    /\ UNCHANGED <<schema, data, world>>

RefuseEdited(p) ==
    /\ InScript(p) /\ ~Pending(p) /\ ~Unchanged(p)
    /\ Refused(p)
    /\ UNCHANGED <<schema, data, world>>

\* The next statement of the script.  Only CREATE VIEW minds that the object
\* is there already.
Execute(p) ==
    /\ Pending(p) /\ me[p].s < Len(Migrations[me[p].m])
    /\ lock = NoProc
    /\ LET statement == Migrations[me[p].m][me[p].s + 1]
       IN  IF statement.op = "view" /\ statement.name \in objects
           THEN Refused(p) /\ UNCHANGED objects
           ELSE /\ objects' = IF statement.op = "drop"
                              THEN objects \ {statement.name}
                              ELSE objects \cup {statement.name}
                /\ me' = [me EXCEPT ![p].s = @ + 1]
    /\ UNCHANGED <<versions, files, data, world>>

\* Mutant: the version row is written before the script is run.
ScriptDoneEarly(p) == me[p].s = 0

ScriptDone(p) == me[p].s = Len(Migrations[me[p].m])

\* The version row is a primary key: a second one is an IntegrityError.
RecordVersion(p) ==
    /\ Pending(p) /\ ScriptDone(p)
    /\ lock = NoProc
    /\ IF versions[me[p].m] # "none" THEN Raised(p) /\ UNCHANGED versions
       ELSE /\ versions' = [versions EXCEPT ![me[p].m] = files[me[p].m]]
            /\ NextMigration(p)
    /\ UNCHANGED <<objects, files, data, world>>

MigrationsDone(p) ==
    /\ me[p].at = "script" /\ me[p].m \notin Versions
    /\ IF job[p] = "run" THEN Goto(p, "begin") ELSE End(p, "done")
    /\ UNCHANGED <<schema, data, world>>

---------------------------------------------------------------------------
(* Writing *)

\* BEGIN and the DELETE that takes the write lock.
Begin(p) ==
    /\ me[p].at = "begin" /\ lock = NoProc
    /\ lock' = p
    /\ draft' = [rows EXCEPT ![p] = {}]
    /\ me' = [me EXCEPT ![p].at = "insert", ![p].k = 1]
    /\ UNCHANGED <<schema, rows, world>>

\* Mutant: the statements of save_run commit one by one.
WriteThrough(written) == draft' = written /\ rows' = written

\* What a statement inside the transaction does.
Write(written) == draft' = written /\ UNCHANGED rows

\* Mutant: an exception leaves the transaction open.
RollbackNot == UNCHANGED <<rows, lock, draft>>

Rollback == draft' = rows /\ lock' = NoProc /\ UNCHANGED rows

Commit == rows' = draft /\ lock' = NoProc /\ UNCHANGED draft

\* The next INSERT of save_run; a missing table rolls everything back.
Insert(p) ==
    /\ me[p].at = "insert" /\ me[p].k <= Len(SaveOrder)
    /\ LET table == SaveOrder[me[p].k]
       IN  IF table \notin objects THEN Raised(p) /\ Rollback
           ELSE /\ Write([draft EXCEPT ![p] = @ \cup {table}])
                /\ me' = [me EXCEPT ![p].k = @ + 1]
                /\ UNCHANGED lock
    /\ UNCHANGED <<schema, world>>

CommitSave(p) ==
    /\ me[p].at = "insert" /\ me[p].k > Len(SaveOrder)
    /\ Commit
    /\ End(p, "done")
    /\ UNCHANGED <<schema, world>>

\* prune fixes the cutoff before it opens its transaction.
Measure(p) ==
    /\ me[p].at = "prune"
    /\ me' = [me EXCEPT ![p].at = "delete", ![p].cutoff = today]
    /\ UNCHANGED <<schema, data, world>>

\* Mutant: the retention period includes the day it ends on the wrong side.
ExpiredEarly(r, cutoff) == started[r] + KeepDays <= cutoff

Expired(r, cutoff) == started[r] + KeepDays < cutoff

\* Mutant: foreign keys are not enforced, so nothing cascades.
RemainsOrphaned(r) == rows[r] \ {"runs"}

\* What ON DELETE CASCADE leaves of a deleted run.
Remains(r) == {}

\* Nobody has asked whether there is a runs table.
Delete(p) ==
    /\ me[p].at = "delete" /\ lock = NoProc
    /\ IF ~is_initialised THEN Raised(p) /\ UNCHANGED <<lock, draft>>
       ELSE /\ lock' = p
            /\ draft' = [r \in Runs |-> IF Expired(r, me[p].cutoff)
                                        THEN Remains(r) ELSE rows[r]]
            /\ Goto(p, "purge")
    /\ UNCHANGED <<schema, rows, world>>

CommitPurge(p) ==
    /\ me[p].at = "purge"
    /\ Commit
    /\ IF draft = rows THEN End(p, "done") ELSE Goto(p, "vacuum")
    /\ UNCHANGED <<schema, world>>

Vacuum(p) ==
    /\ me[p].at = "vacuum" /\ lock = NoProc
    /\ End(p, "done")
    /\ UNCHANGED <<schema, data, world>>

---------------------------------------------------------------------------
(* What goes wrong *)

\* The statements that need the write lock.
Executing(p) == Pending(p) /\ me[p].s < Len(Migrations[me[p].m])
Wanting(p) == me[p].at \in {"begin", "delete", "vacuum"} \/ Pending(p)

\* The busy timeout passes while somebody else is writing.  Only a script's
\* errors are turned into a StorageError.
GiveUp(p) ==
    /\ Wanting(p) /\ lock # NoProc
    /\ IF Executing(p) THEN Refused(p) ELSE Raised(p)
    /\ UNCHANGED <<schema, data, world>>

\* A kill, a reboot or a closed laptop; SQLite recovers what was committed.
Crash(p) ==
    /\ me[p].at \notin Ended \cup {"idle"}
    /\ End(p, "crashed")
    /\ IF lock = p THEN Rollback ELSE UNCHANGED data
    /\ UNCHANGED <<schema, world>>

Step(p) ==
    \/ Start(p) \/ Look(p) \/ Find(p) \/ Load(p)
    \/ Save(p) \/ OpenMigrations(p) \/ SkipMigration(p) \/ RefuseEdited(p)
    \/ Execute(p) \/ RecordVersion(p) \/ MigrationsDone(p)
    \/ Begin(p) \/ Insert(p) \/ CommitSave(p)
    \/ Measure(p) \/ Delete(p) \/ CommitPurge(p) \/ Vacuum(p)

StoreNext == NextDay \/ \E p \in Procs : Step(p) \/ GiveUp(p) \/ Crash(p)

StoreSpec == StoreInit /\ [][StoreNext]_storeVars

\* The operating system runs every process, and each statement ends.
StoreFairSpec == StoreSpec /\ \A p \in Procs : WF_storeVars(Step(p))

---------------------------------------------------------------------------
(* Correctness *)

\* Types of the database and of the processes.
StoreTypeOK ==
    /\ objects \subseteq Objects
    /\ versions \in [Versions -> {"none", "original", "edited"}]
    /\ files \in [Versions -> {"original", "edited"}]
    /\ rows \in [Runs -> SUBSET Parts] /\ draft \in [Runs -> SUBSET Parts]
    /\ lock \in Procs \cup {NoProc}
    /\ today \in Nat /\ started \in [Runs -> Nat]
    /\ job \in Workloads
    /\ me \in [Procs -> Local]

\* The database is the archive of whole runs the programme relies on.
Promise == INSTANCE Archive WITH contents <- rows, began <- started
RunsAreStoredWhole == Promise!Spec

\* Whoever loads a run gets all of it, unless it was pruned while he read.
LoadsAreWhole ==
    \A p \in Procs :
        me[p].target # NoProc /\ me[p].at \in {"save", "done"} =>
            me[p].seen = LoadedParts \/ rows[me[p].target] = {}

\* A run that ended well stays stored, all of it, for its retention period,
\* whatever other processes write, migrate, prune or leave half done.
StoredRunsStay ==
    \A p \in Procs :
        job[p] = "run" /\ me[p].at = "done" /\ today <= started[p] + KeepDays =>
            rows[p] = Parts

\* A version row is a promise that the script has run: its tables exist, even
\* if several processes migrate at once and some of them die.
RecordedTablesExist ==
    \A m \in Versions : versions[m] # "none" =>
        \A s \in DOMAIN Migrations[m] :
            Migrations[m][s].op = "table" => Migrations[m][s].name \in objects

\* Once the file of an applied migration differs from what was applied, no
\* migration changes the schema any further.
EditedStopsMigrating ==
    [][(\E m \in Versions : versions[m] \notin {"none", files[m]}) =>
           UNCHANGED <<objects, versions>>]_storeVars

\* No process waits for ever: each one that started comes to an end, whoever
\* fails or dies while holding the write lock.
EveryProcessEnds ==
    \A p \in Procs : me[p].at # "idle" ~> me[p].at \in Ended

---------------------------------------------------------------------------
(* Claims that the code does not keep *)

\* 0001_initial.sql says that each migration is applied in one transaction, so
\* a run that finds the database initialised finds the tables it writes.
SavesFindTheirTables ==
    \A p \in Procs :
        me[p].at = "insert" /\ me[p].k <= Len(SaveOrder)
            => SaveOrder[me[p].k] \in objects

=============================================================================
