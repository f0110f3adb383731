---------------------------- MODULE ServerStart ----------------------------
(***************************************************************************)
(* Processes that start on one database file: servers (boot in server.ts)  *)
(* and the migrate command.  Each may be killed between any two steps and  *)
(* is started again; SQLite lets one of them write at a time.  What boot   *)
(* does to unsubmitted jobs is in GenerationJobs.                          *)
(***************************************************************************)
EXTENDS Naturals, Sequences, FiniteSets

CONSTANTS
  Servers, Commands,   \* the processes: servers, and runs of the command
  Seeders,             \* servers whose configuration has seedSamples
  Rows,                \* generation jobs a database of the first build holds
  Samples,             \* how many sample prompts there are
  None,                \* no process
  MaxKills             \* bound: processes killed or stopped

Processes == Servers \cup Commands

ASSUME ProcessesAssumption ==
  None \notin Processes /\ Seeders \subseteq Servers
ASSUME BoundsAssumption == Samples \in Nat /\ MaxKills \in Nat

Migrations == {1, 2}

VARIABLES
  db,        \* what is committed
  work,      \* what the process inside a write transaction sees
  writer,    \* that process, or None
  pc,        \* where each process is
  todo,      \* the statements it has still to execute in its migration
  left,      \* sample prompts it has still to create
  port,      \* the server that listens, or None
  polling,   \* the processes whose poller runs
  kills

vars == <<db, work, writer, pc, todo, left, port, polling, kills>>

\* tables: which definition each table of jobs has; rows: the rows in it.
NoTable == [def |-> 0, rows |-> {}]
Tables == [def : 0..2, rows : SUBSET Rows]
Databases ==
  [applied : SUBSET Migrations, jobs : Tables, jobs__v2 : Tables, prompts : Nat]

TypeOK ==
  /\ db \in Databases /\ work \in Databases
  /\ writer \in Processes \cup {None} /\ port \in Servers \cup {None}
  /\ pc \in [Processes -> {"down", "opened", "migrating", "migrated",
                           "seeding", "binding", "up"}]
  /\ left \in [Processes -> 0..Samples]
  /\ polling \subseteq Servers /\ kills \in 0..MaxKills

\* A new file, or one the first build has left.
Init ==
  /\ db \in {[applied |-> {}, jobs |-> NoTable, jobs__v2 |-> NoTable, prompts |-> 0],
             [applied |-> {1}, jobs |-> [def |-> 1, rows |-> Rows],
              jobs__v2 |-> NoTable, prompts |-> 0]}
  /\ work = db /\ writer = None
  /\ pc = [p \in Processes |-> "down"]
  /\ todo = [p \in Processes |-> <<>>] /\ left = [p \in Processes |-> 0]
  /\ port = None /\ polling = {} /\ kills = 0

-----------------------------------------------------------------------------
(* The migrations, statement by statement.                                 *)

\* Mutant: the rows are not copied.
ScriptWithoutCopy(m) ==
  IF m = 1 THEN <<"create if not exists", "record 1">>
           ELSE <<"create v2", "drop", "rename", "record 2">>

Script(m) ==
  IF m = 1 THEN <<"create if not exists", "record 1">>
           ELSE <<"create v2", "copy", "drop", "rename", "record 2">>

\* Mutant: what was applied is not filtered out.
PendingAll(applied) == Script(1) \o Script(2)

\* The statements of all pending migrations, in the order of their versions.
Pending(applied) ==
  (IF 1 \in applied THEN <<>> ELSE Script(1))
    \o (IF 2 \in applied THEN <<>> ELSE Script(2))

\* A statement throws when a table is there, or is not, against its will, and
\* when a version is recorded a second time (its primary key).
Throws(s, d) ==
  CASE s = "create v2" -> d.jobs__v2 # NoTable
    [] s = "copy"      -> d.jobs = NoTable
    [] s = "drop"      -> d.jobs = NoTable
    [] s = "rename"    -> d.jobs # NoTable
    [] s = "record 1"  -> 1 \in d.applied
    [] s = "record 2"  -> 2 \in d.applied
    [] OTHER           -> FALSE

Effect(s, d) ==
  CASE s = "create if not exists" ->
         IF d.jobs = NoTable THEN [d EXCEPT !.jobs.def = 1] ELSE d
    [] s = "create v2" -> [d EXCEPT !.jobs__v2.def = 2]
    [] s = "copy"      -> [d EXCEPT !.jobs__v2.rows = d.jobs.rows]
    [] s = "drop"      -> [d EXCEPT !.jobs = NoTable]
    [] s = "rename"    -> [d EXCEPT !.jobs = d.jobs__v2, !.jobs__v2 = NoTable]
    [] s = "record 1"  -> [d EXCEPT !.applied = @ \cup {1}]
    [] s = "record 2"  -> [d EXCEPT !.applied = @ \cup {2}]

-----------------------------------------------------------------------------
(* The end of a process: what it had open is rolled back and closed.       *)

Exit(p) ==
  /\ pc' = [pc EXCEPT ![p] = "down"]
  /\ todo' = [todo EXCEPT ![p] = <<>>] /\ left' = [left EXCEPT ![p] = 0]
  /\ writer' = (IF writer = p THEN None ELSE writer)
  /\ port' = (IF port = p THEN None ELSE port)
  /\ polling' = polling \ {p}
  /\ UNCHANGED db

\* Killed, or stopped by a signal.
Kill(p) ==
  /\ pc[p] # "down" /\ kills < MaxKills /\ kills' = kills + 1
  /\ Exit(p) /\ UNCHANGED work

\* A write waits for the writer, and gives up after busy_timeout.  (Opening a
\* new file writes: the journal mode, the table of versions.)
Busy(p) ==
  /\ writer \notin {None, p}
  /\ \/ pc[p] \in {"opened", "seeding"}
     \/ pc[p] = "migrating" /\ todo[p] # <<>>
  /\ Exit(p) /\ UNCHANGED <<work, kills>>

-----------------------------------------------------------------------------
(* openDatabase and runMigrations.                                         *)

\* Up to the reading of the applied versions; the table of versions is there.
Start(p) ==
  /\ pc[p] = "down" /\ pc' = [pc EXCEPT ![p] = "opened"]
  /\ UNCHANGED <<db, work, writer, todo, left, port, polling, kills>>

ReadApplied(p) ==
  /\ pc[p] = "opened"
  /\ todo' = [todo EXCEPT ![p] = Pending(db.applied)]
  /\ pc' = [pc EXCEPT ![p] =
              IF Pending(db.applied) = <<>> THEN "migrated" ELSE "migrating"]
  /\ UNCHANGED <<db, work, writer, left, port, polling, kills>>

\* BEGIN is deferred: the first write makes the process the writer and shows
\* it what is committed by then, which may be more than it has read.  (Where
\* "create if not exists" finds the tables it writes nothing; the statement
\* after it throws all the same.)
Seen(p) == IF writer = p THEN work ELSE db

\* Mutant: no transaction, so each statement commits by itself.
StatementAlone(p) ==
  /\ pc[p] = "migrating" /\ todo[p] # <<>> /\ writer = None
  /\ ~Throws(Head(todo[p]), db)
  /\ db' = Effect(Head(todo[p]), db)
  /\ todo' = [todo EXCEPT ![p] = Tail(@)]
  /\ UNCHANGED <<work, writer, pc, left, port, polling, kills>>

Statement(p) ==
  /\ pc[p] = "migrating" /\ todo[p] # <<>> /\ writer \in {None, p}
  /\ ~Throws(Head(todo[p]), Seen(p))
  /\ writer' = p /\ work' = Effect(Head(todo[p]), Seen(p))
  /\ todo' = [todo EXCEPT ![p] = Tail(@)]
  /\ UNCHANGED <<db, pc, left, port, polling, kills>>

\* The error is re-thrown after the rollback, and ends the process.
StatementThrows(p) ==
  /\ pc[p] = "migrating" /\ todo[p] # <<>> /\ writer \in {None, p}
  /\ Throws(Head(todo[p]), Seen(p))
  /\ Exit(p) /\ UNCHANGED <<work, kills>>

Commit(p) ==
  /\ pc[p] = "migrating" /\ todo[p] = <<>>
  /\ db' = Seen(p) /\ writer' = None
  /\ pc' = [pc EXCEPT ![p] = "migrated"]
  /\ UNCHANGED <<work, todo, left, port, polling, kills>>

CommandDone(p) ==
  /\ p \in Commands /\ pc[p] = "migrated"
  /\ Exit(p) /\ UNCHANGED <<work, kills>>

-----------------------------------------------------------------------------
(* The rest of boot.                                                       *)

\* Mutant: samples are inserted at every start.
SeedsAlways(p) == p \in Seeders

Seeds(p) == p \in Seeders /\ db.prompts = 0

IsServer(p) == p \in Servers

CountPrompts(p) ==
  /\ IsServer(p) /\ pc[p] = "migrated"
  /\ left' = [left EXCEPT ![p] = IF Seeds(p) THEN Samples ELSE 0]
  /\ pc' = [pc EXCEPT ![p] = IF Seeds(p) THEN "seeding" ELSE "binding"]
  /\ UNCHANGED <<db, work, writer, todo, port, polling, kills>>

\* One sample, in a transaction of its own (PromptLibrary).
SeedOne(p) ==
  /\ pc[p] = "seeding" /\ left[p] > 0 /\ writer = None
  /\ db' = [db EXCEPT !.prompts = @ + 1]
  /\ left' = [left EXCEPT ![p] = @ - 1]
  /\ pc' = [pc EXCEPT ![p] = IF left[p] = 1 THEN "binding" ELSE "seeding"]
  /\ UNCHANGED <<work, writer, todo, port, polling, kills>>

\* Listening succeeded: now the poller starts.
Bind(p) ==
  /\ pc[p] = "binding" /\ port = None
  /\ port' = p /\ polling' = polling \cup {p}
  /\ pc' = [pc EXCEPT ![p] = "up"]
  /\ UNCHANGED <<db, work, writer, todo, left, kills>>

\* EADDRINUSE: the database is closed and boot rejects.
BindFails(p) ==
  /\ pc[p] = "binding" /\ port \notin {None, p}
  /\ Exit(p) /\ UNCHANGED <<work, kills>>

Migrates(p) == ReadApplied(p) \/ Statement(p) \/ StatementThrows(p) \/ Commit(p)
Boots(p) == CountPrompts(p) \/ SeedOne(p) \/ Bind(p) \/ BindFails(p)

Next ==
  \E p \in Processes :
    \/ Kill(p) \/ Busy(p) \/ Start(p)
    \/ Migrates(p) \/ CommandDone(p) \/ Boots(p)

Spec == Init /\ [][Next]_vars

\* A process that runs goes on; the supervisor starts a server that is down.
\* The command is run when somebody runs it.
Fairness ==
  /\ \A p \in Processes : WF_vars(Migrates(p) \/ CommandDone(p) \/ Boots(p))
  /\ \A p \in Servers : WF_vars(Start(p))

FairSpec == Spec /\ Fairness

-----------------------------------------------------------------------------
(* Whatever was killed and whoever raced, what is committed is the schema  *)
(* of the recorded versions: no table half rebuilt, none left behind       *)
(* (migrations.ts runMigrations).                                          *)
SchemaMatchesRecord ==
  /\ db.jobs__v2 = NoTable
  /\ db.jobs.def = Cardinality(db.applied)
  /\ 2 \in db.applied => 1 \in db.applied

(* No generation job of the first build is ever gone, though migration 2   *)
(* copies their table and drops it.                                        *)
RowsSurvive == [][db.jobs.rows \subseteq db'.jobs.rows]_vars

(* Starting again after any crash never inserts the samples a second time, *)
(* as long as one server is configured to (seed.ts; a crash between two    *)
(* samples leaves fewer for good).                                         *)
SeededAtMostOnce ==
  (\A s, t \in Seeders : s = t) => db.prompts <= Samples

(* Two servers started on one port: at most one of them ever polls, and it *)
(* is the one that listens (server.ts, the poller starts after the bind).  *)
OnePoller == polling \subseteq {port}

(* In the end a server is up for good: no crash, race or half-done start   *)
(* leaves a database no server can start on.                               *)
EventuallyServes == <>[](port # None /\ pc[port] = "up")
=============================================================================
