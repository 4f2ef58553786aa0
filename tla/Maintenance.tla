------------------------------ MODULE Maintenance ------------------------------
(***************************************************************************)
(* The files of an installation and the processes that work on them: the   *)
(* lock beside the database, the upgrade of its schema at start-up, normal *)
(* work through the write-ahead log, commands that read the database       *)
(* without the lock, and the offline restore of a backup.  A process may   *)
(* die between any two steps, and the power may go.                        *)
(*                                                                         *)
(* SQLite is external: a commit goes to the log, the log is folded into    *)
(* the database file by a checkpoint or by the last connection that        *)
(* closes, and opening a database replays whatever log lies beside it.     *)
(***************************************************************************)
EXTENDS Naturals, FiniteSets

CONSTANTS
  Apps,           \* server processes that may be started
  Latest,         \* max(MIGRATIONS)
  Size,           \* statements in one script
  BundleVersion,  \* schema version of the backup to restore
  None,
  MaxWrites,      \* bound: commits of jobs and saves of settings
  MaxReads,       \* bound: backup and doctor commands
  MaxRestores,    \* bound: restore commands
  MaxDeaths       \* bound: deaths of a process and losses of power

ASSUME SchemaAssumption ==
  /\ Latest \in Nat \ {0} /\ Size \in Nat \ {0}
  /\ BundleVersion \in 1..Latest
ASSUME ProcessAssumption == "restore" \notin Apps /\ None \notin Apps \cup {"restore"}
ASSUME BoundAssumption ==
  MaxWrites \in Nat /\ MaxReads \in Nat /\ MaxRestores \in Nat /\ MaxDeaths \in Nat

\* What a database holds: which restore put it there (0: none), whether its
\* bytes were lost ("torn") or the log of another database was replayed on it
\* ("mixed"), what was committed, how many statements of the scripts it has
\* seen and which version it records.
Content  == [gen : 0..MaxRestores, health : {"good", "torn", "mixed"},
             rev : 0..MaxWrites, done : 0..(Latest * Size), version : 0..Latest]
Document == [gen : 0..MaxRestores, rev : 0..MaxWrites]

ASSUME NoneAssumption == None \notin Content

Database(g, v) == [gen |-> g, health |-> "good", rev |-> 0, done |-> v * Size, version |-> v]
Settings(g)    == [gen |-> g, rev |-> 0]

VARIABLES
  lock,       \* the process that holds the lock file's flock, or None
  app,        \* per server: where it is
  at,         \* per server: statements of the current script it has executed
  txn,        \* what its open transaction would commit, or None
  file,       \* the database file
  wal,        \* what the log makes of it, or None
  durable,    \* the database file is on stable storage
  settings,   \* settings.json
  reader,     \* the database a command without the lock has open, or None
  restore,    \* where restore_backup is
  before,     \* what the installation held when it took the lock
  saved,      \* the pre-restore bundles
  replaced,   \* what was overwritten by restores (history variable)
  writes, reads, restores, deaths

appVars     == <<app, at, txn>>
dataVars    == <<file, wal, durable>>
restoreVars == <<restore, before, saved, replaced>>
bounds      == <<writes, reads, restores, deaths>>
vars == <<lock, app, at, txn, file, wal, durable, settings, reader, restore,
          before, saved, replaced, writes, reads, restores, deaths>>

Init ==
  /\ lock = None
  /\ app = [p \in Apps |-> "down"] /\ at = [p \in Apps |-> 0] /\ txn = None
  /\ file \in {Database(0, v) : v \in 0..Latest} /\ wal = None /\ durable = TRUE
  /\ settings = Settings(0)
  /\ reader = None
  /\ restore = "idle" /\ before = None /\ saved = {} /\ replaced = {}
  /\ writes = 0 /\ reads = 0 /\ restores = 0 /\ deaths = 0

-----------------------------------------------------------------------------
(***************************************************************************)
(* SQLite.                                                                 *)
(***************************************************************************)
Belongs == wal = None \/ wal.gen = file.gen

\* What a connection that opens the database sees.
Seen ==
  IF wal = None \/ file.health = "torn" THEN file
  ELSE IF Belongs THEN wal ELSE [file EXCEPT !.health = "mixed"]

\* The database is opened: a log of another database spoils it.
Opening == IF Belongs THEN UNCHANGED <<file, wal>> ELSE file' = Seen /\ wal' = None

\* A connection to the database at this path closes; others tells whether
\* one stays open.
Closing(others) ==
  IF others THEN UNCHANGED dataVars
            ELSE file' = Seen /\ wal' = None /\ durable' = (wal # None \/ durable)

-----------------------------------------------------------------------------
(***************************************************************************)
(* A server: lock, schema, work, stop.                                     *)
(***************************************************************************)
\* Mutant: the lock is taken whoever holds it.
AcquireShared(p) == lock' = p
Acquire(p) == lock = None /\ lock' = p

\* A server that does not get the lock exits.
StartApp(p) ==
  /\ app[p] = "down" /\ Acquire(p)
  /\ app' = [app EXCEPT ![p] = "locked"]
  /\ UNCHANGED <<at, txn, dataVars, settings, reader, restoreVars, bounds>>

OpenDatabase(p) ==
  /\ app[p] = "locked"
  /\ Opening
  /\ app' = [app EXCEPT ![p] = "migrating"] /\ at' = [at EXCEPT ![p] = 0] /\ txn' = None
  /\ UNCHANGED <<lock, durable, settings, reader, restoreVars, bounds>>

Current == IF txn # None THEN txn ELSE Seen

\* Outside a transaction every statement of a script commits by itself, but
\* for the INSERT that closes the last one, which opens the transaction.
Executed(new) ==
  IF txn # None \/ new.done = Latest * Size
    THEN txn' = new /\ UNCHANGED wal
    ELSE wal' = new /\ UNCHANGED txn

Migrates(p) == app[p] = "migrating" /\ file.health # "torn"

\* The next version to apply.  Mutant: one more is taken for applied.
NextVersionSkips == IF Current.version = 0 THEN 1 ELSE Current.version + 2
NextVersion == Current.version + 1

Statement(p) ==
  /\ Migrates(p) /\ NextVersion <= Latest /\ at[p] < Size
  /\ Current.done = (NextVersion - 1) * Size + at[p]
  /\ Executed([Current EXCEPT !.done = @ + 1])
  /\ at' = [at EXCEPT ![p] = @ + 1]
  /\ UNCHANGED <<lock, app, file, durable, settings, reader, restoreVars, bounds>>

\* The INSERT of a version opens the transaction, which lasts until the end.
Record(p) ==
  /\ Migrates(p) /\ NextVersion <= Latest /\ at[p] = Size
  /\ txn' = [Current EXCEPT !.version = NextVersion]
  /\ at' = [at EXCEPT ![p] = 0]
  /\ UNCHANGED <<lock, app, dataVars, settings, reader, restoreVars, bounds>>

\* quick_check, then the commit.
Migrated(p) ==
  /\ Migrates(p) /\ NextVersion > Latest
  /\ wal' = IF txn # None THEN txn ELSE wal
  /\ txn' = None
  /\ app' = [app EXCEPT ![p] = "up"]
  /\ UNCHANGED <<lock, at, file, durable, settings, reader, restoreVars, bounds>>

Leave(p) ==
  /\ app' = [app EXCEPT ![p] = "down"]
  /\ lock' = None
  /\ txn' = None
  /\ UNCHANGED <<at, settings, reader, restoreVars, bounds>>

\* The database cannot be read, or what a statement makes is there already.
Blocked(p) ==
  /\ app[p] = "migrating"
  /\ \/ file.health = "torn"
     \/ NextVersion <= Latest /\ at[p] < Size
        /\ Current.done # (NextVersion - 1) * Size + at[p]

MigrationFails(p) ==
  /\ Blocked(p)
  /\ Closing(reader = file.gen)
  /\ Leave(p)

CountWrite == writes < MaxWrites /\ writes' = writes + 1

Write(p) ==
  /\ app[p] = "up" /\ CountWrite
  /\ wal' = [Seen EXCEPT !.rev = writes + 1]
  /\ UNCHANGED <<lock, appVars, file, durable, settings, reader, restoreVars, reads,
                 restores, deaths>>

SaveSettings(p) ==
  /\ app[p] = "up" /\ CountWrite
  /\ settings' = [settings EXCEPT !.rev = writes + 1]
  /\ UNCHANGED <<lock, appVars, dataVars, reader, restoreVars, reads, restores, deaths>>

Checkpoint(p) ==
  /\ app[p] = "up" /\ wal # None
  /\ file' = Seen /\ wal' = None /\ durable' = TRUE
  /\ UNCHANGED <<lock, appVars, settings, reader, restoreVars, bounds>>

\* Everything is closed before the lock is released.
StopApp(p) ==
  /\ app[p] = "up"
  /\ Closing(reader = file.gen)
  /\ Leave(p)

-----------------------------------------------------------------------------
(***************************************************************************)
(* backup and doctor: a connection of their own and no lock.               *)
(***************************************************************************)
InUse == \E p \in Apps : app[p] \in {"migrating", "up"}

Attach ==
  /\ reader = None /\ reads < MaxReads /\ reads' = reads + 1
  /\ Opening
  /\ reader' = file'.gen
  /\ UNCHANGED <<lock, appVars, durable, settings, restoreVars, writes, restores, deaths>>

\* A connection to a file that was replaced touches neither the new one nor
\* its log.
Detach ==
  /\ reader # None
  /\ IF reader = file.gen THEN Closing(InUse) ELSE UNCHANGED dataVars
  /\ reader' = None
  /\ UNCHANGED <<lock, appVars, settings, restoreVars, bounds>>

-----------------------------------------------------------------------------
(***************************************************************************)
(* restore_backup.                                                         *)
(***************************************************************************)
RestoreStep(from, to) == restore = from /\ restore' = to

\* The bundle was verified before the lock is asked for.
BeginRestore ==
  /\ RestoreStep("idle", "locked")
  /\ restores < MaxRestores /\ restores' = restores + 1
  /\ Acquire("restore")
  /\ before' = [db |-> Seen, settings |-> settings]
  /\ UNCHANGED <<appVars, dataVars, settings, reader, saved, replaced, writes, reads, deaths>>

\* The copy must pass the integrity check and have a schema.
Readable == Seen.health # "torn" /\ Seen.done > 0

RefuseRestore ==
  /\ RestoreStep("locked", "idle") /\ ~Readable
  /\ lock' = None /\ before' = None
  /\ UNCHANGED <<appVars, dataVars, settings, reader, saved, replaced, bounds>>

\* Mutant: the database file is copied without its log.
SaveFileOnly ==
  /\ RestoreStep("locked", "saved") /\ Readable
  /\ saved' = saved \cup {[db |-> file, settings |-> settings]}
  /\ Closing(reader = file.gen)
  /\ UNCHANGED <<lock, appVars, settings, reader, before, replaced, bounds>>

\* The pre-restore bundle: SQLite's own copy, complete and synchronised
\* before it gets its name.
SaveCurrent ==
  /\ RestoreStep("locked", "saved") /\ Readable
  /\ saved' = saved \cup {[db |-> Seen, settings |-> settings]}
  /\ Closing(reader = file.gen)
  /\ UNCHANGED <<lock, appVars, settings, reader, before, replaced, bounds>>

\* The copy that replaces the database was not synchronised.
ReplaceDatabase ==
  /\ RestoreStep("saved", "database")
  /\ file' = Database(restores, BundleVersion) /\ durable' = FALSE
  /\ replaced' = replaced \cup {before}
  /\ UNCHANGED <<lock, appVars, wal, settings, reader, before, saved, bounds>>

ReplaceSettings ==
  /\ RestoreStep("database", "settings")
  /\ settings' = Settings(restores)
  /\ UNCHANGED <<lock, appVars, dataVars, reader, before, saved, replaced, bounds>>

\* Mutant: the old log is left beside the new database.
KeepLog ==
  /\ RestoreStep("settings", "clean")
  /\ UNCHANGED <<lock, appVars, dataVars, settings, reader, before, saved, replaced, bounds>>

UnlinkLog ==
  /\ RestoreStep("settings", "clean")
  /\ wal' = None
  /\ UNCHANGED <<lock, appVars, file, durable, settings, reader, before, saved, replaced,
                 bounds>>

EndRestore ==
  /\ RestoreStep("clean", "idle")
  /\ lock' = None
  /\ before' = None
  /\ UNCHANGED <<appVars, dataVars, settings, reader, saved, replaced, bounds>>

-----------------------------------------------------------------------------
(***************************************************************************)
(* Deaths.  The kernel releases the lock of a dead process; its log stays. *)
(***************************************************************************)
CountDeath == deaths < MaxDeaths /\ deaths' = deaths + 1

KillApp(p) ==
  /\ app[p] # "down" /\ CountDeath
  /\ app' = [app EXCEPT ![p] = "down"]
  /\ lock' = None /\ txn' = None
  /\ UNCHANGED <<at, dataVars, settings, reader, restoreVars, writes, reads, restores>>

\* An error of the file system ends a restore in the same way.
KillRestore ==
  /\ restore # "idle" /\ CountDeath
  /\ restore' = "idle" /\ lock' = None /\ before' = None
  /\ UNCHANGED <<appVars, dataVars, settings, reader, saved, replaced, writes, reads, restores>>

KillReader ==
  /\ reader # None /\ CountDeath
  /\ reader' = None
  /\ UNCHANGED <<lock, appVars, dataVars, settings, restoreVars, writes, reads, restores>>

PowerLoss ==
  /\ CountDeath
  /\ app' = [p \in Apps |-> "down"] /\ txn' = None /\ lock' = None /\ reader' = None
  /\ restore' = "idle" /\ before' = None
  /\ file' \in IF durable THEN {file} ELSE {file, [file EXCEPT !.health = "torn"]}
  /\ durable' = TRUE
  /\ UNCHANGED <<at, wal, settings, saved, replaced, writes, reads, restores>>

-----------------------------------------------------------------------------
Serve(p) ==
  \/ StartApp(p) \/ OpenDatabase(p) \/ Statement(p) \/ Record(p) \/ Migrated(p)
  \/ MigrationFails(p) \/ Write(p) \/ SaveSettings(p) \/ Checkpoint(p) \/ StopApp(p)

Restore ==
  \/ BeginRestore \/ RefuseRestore \/ SaveCurrent \/ ReplaceDatabase \/ ReplaceSettings \/ UnlinkLog
  \/ EndRestore

Next ==
  \/ \E p \in Apps : Serve(p) \/ KillApp(p)
  \/ Attach \/ Detach
  \/ Restore
  \/ KillRestore \/ KillReader \/ PowerLoss

Spec == Init /\ [][Next]_vars

-----------------------------------------------------------------------------
TypeOK ==
  /\ lock \in Apps \cup {"restore", None}
  /\ app \in [Apps -> {"down", "locked", "migrating", "up"}]
  /\ at \in [Apps -> 0..Size]
  /\ txn \in Content \cup {None}
  /\ file \in Content /\ wal \in Content \cup {None} /\ durable \in BOOLEAN
  /\ settings \in Document
  /\ reader \in 0..MaxRestores \cup {None}
  /\ restore \in {"idle", "locked", "saved", "database", "settings", "clean"}
  /\ before \in [db : Content, settings : Document] \cup {None}
  /\ saved \subseteq [db : Content, settings : Document]
  /\ replaced \subseteq [db : Content, settings : Document]
  /\ writes \in 0..MaxWrites /\ reads \in 0..MaxReads
  /\ restores \in 0..MaxRestores /\ deaths \in 0..MaxDeaths

\* One process works on the installation: a second server exits before it
\* touches the database, and a restore is offline (production-runbook.md:11-13).
SoleOwner ==
  /\ \A p, q \in Apps : app[p] # "down" /\ app[q] # "down" => p = q
  /\ restore # "idle" => \A p \in Apps : app[p] = "down"

\* Whatever a restore overwrote is in a pre-restore bundle, with all that had
\* been committed, wherever the restore died (production-runbook.md:55-61).
Recoverable == replaced \subseteq saved

\* A restore that reports success leaves the bundle's database and settings,
\* and no log of the old database, unless a command opened the new database
\* while the old log still lay beside it (NeverMixed).
RestoredWhole ==
  restore = "clean" =>
    /\ file.health # "mixed" => file = Database(restores, BundleVersion)
    /\ wal = None
    /\ settings = Settings(restores)

\* A server that serves has every statement of every script, once, unless
\* its database is spoilt.
UpExact ==
  \A p \in Apps : app[p] = "up" /\ file.health # "mixed" =>
    Seen.done = Latest * Size /\ Seen.version = Latest

\* No server or command replays the log of another database.
NeverMixed == file.health # "mixed"

\* What an earlier start left behind never keeps a server from starting.
Restartable == \A p \in Apps : ~Blocked(p)

\* A server that serves has the database and the settings of one
\* installation.
Paired == \A p \in Apps : app[p] = "up" => file.gen = settings.gen
=============================================================================
