-------------------------- MODULE Maintenance_proofs --------------------------
(***************************************************************************)
(* Proofs about Maintenance, for any number of servers, migrations,        *)
(* commands, restores and deaths.                                          *)
(***************************************************************************)
EXTENDS Maintenance, TLAPS

-----------------------------------------------------------------------------
(***************************************************************************)
(* What a database holds.                                                  *)
(***************************************************************************)
\* A script that has statements left does not run past the last one.
LEMMA ScriptFits ==
  ASSUME NEW v \in Nat, NEW a \in Nat, v + 1 <= Latest, a < Size
  PROVE  /\ v * Size + a \in Nat
         /\ v * Size + a + 1 \in 0..(Latest * Size)
<1>1. Latest \in Nat /\ Size \in Nat
  BY SchemaAssumption
<1>2. PICK k \in Nat : Latest = v + 1 + k
  <2>1. Latest - (v + 1) \in Nat /\ Latest = v + 1 + (Latest - (v + 1))
    BY <1>1
  <2> QED BY <2>1
<1>3. Latest * Size = v * Size + Size + k * Size
  BY <1>1, <1>2
<1>4. v * Size \in Nat /\ k * Size \in Nat
  BY <1>1
<1> QED BY <1>1, <1>3, <1>4

LEMMA SizesFit ==
  /\ Latest * Size \in Nat
  /\ \A v \in 0..Latest : v * Size \in 0..(Latest * Size)
<1>1. Latest \in Nat /\ Size \in Nat
  BY SchemaAssumption
<1>2. Latest * Size \in Nat
  BY <1>1
<1>3. ASSUME NEW v \in 0..Latest PROVE v * Size \in 0..(Latest * Size)
  <2>1. PICK k \in Nat : Latest = v + k
    <3>1. Latest - v \in Nat /\ Latest = v + (Latest - v)
      BY <1>1
    <3> QED BY <3>1
  <2>2. Latest * Size = v * Size + k * Size
    BY <1>1, <2>1
  <2>3. v * Size \in Nat /\ k * Size \in Nat
    BY <1>1
  <2> QED BY <2>2, <2>3
<1> QED BY <1>2, <1>3

LEMMA DatabaseTyped ==
  ASSUME NEW g \in 0..MaxRestores, NEW v \in 0..Latest
  PROVE  Database(g, v) \in Content
BY SizesFit, BoundAssumption DEF Database, Content

\* What a connection sees is of the database file's installation.
LEMMA SeenTyped ==
  ASSUME file \in Content, wal \in Content \cup {None}
  PROVE  Seen \in Content /\ Seen.gen = file.gen
<1>1. CASE wal = None \/ file.health = "torn"
  BY <1>1 DEF Seen
<1>2. CASE wal # None /\ file.health # "torn" /\ Belongs
  BY <1>2 DEF Seen, Belongs
<1>3. CASE wal # None /\ file.health # "torn" /\ ~Belongs
  BY <1>3 DEF Seen, Content
<1> QED BY <1>1, <1>2, <1>3

LEMMA CurrentTyped ==
  ASSUME file \in Content, wal \in Content \cup {None}, txn \in Content \cup {None}
  PROVE  Current \in Content
BY SeenTyped DEF Current

\* Opening and closing keep what there is to see, but for a foreign log.
LEMMA OpeningKeeps ==
  ASSUME file \in Content, wal \in Content \cup {None}, Opening
  PROVE  /\ file' \in Content /\ wal' \in Content \cup {None}
         /\ file'.gen = file.gen
         /\ Seen' = Seen
         /\ Belongs'
<1>1. CASE Belongs
  BY <1>1 DEF Opening, Belongs, Seen
<1>2. CASE ~Belongs
  <2>1. file' = Seen /\ wal' = None
    BY <1>2 DEF Opening
  <2>2. Seen' = file'
    BY <2>1 DEF Seen
  <2> QED BY <2>1, <2>2, SeenTyped DEF Belongs
<1> QED BY <1>1, <1>2

LEMMA ClosingKeeps ==
  ASSUME NEW others \in BOOLEAN,
         file \in Content, wal \in Content \cup {None}, durable \in BOOLEAN,
         Closing(others)
  PROVE  /\ file' \in Content /\ wal' \in Content \cup {None} /\ durable' \in BOOLEAN
         /\ file'.gen = file.gen
         /\ Seen' = Seen
         /\ others => UNCHANGED dataVars
         /\ ~others => file' = Seen /\ wal' = None
<1>1. CASE others
  BY <1>1 DEF Closing, dataVars, Seen, Belongs
<1>2. CASE ~others
  <2>1. file' = Seen /\ wal' = None /\ durable' = (wal # None \/ durable)
    BY <1>2 DEF Closing
  <2>2. Seen' = file'
    BY <2>1 DEF Seen
  <2> QED BY <1>2, <2>1, <2>2, SeenTyped
<1> QED BY <1>1, <1>2


-----------------------------------------------------------------------------
(***************************************************************************)
(* Types.                                                                  *)
(***************************************************************************)
\* A restore knows what it found.
Typed ==
  /\ TypeOK
  /\ restore # "idle" => before \in [db : Content, settings : Document]

LEMMA TypedInit == Init => TypeOK
<1> SUFFICES ASSUME Init PROVE TypeOK
  OBVIOUS
<1>1. file \in Content
  BY DatabaseTyped, BoundAssumption DEF Init
<1>2. settings \in Document
  BY BoundAssumption DEF Init, Settings, Document
<1>3. 0 \in 0..Size /\ 0 \in 0..MaxWrites /\ 0 \in 0..MaxReads /\ 0 \in 0..MaxRestores
      /\ 0 \in 0..MaxDeaths
  BY BoundAssumption, SchemaAssumption
<1> QED BY <1>1, <1>2, <1>3 DEF Init, TypeOK

LEMMA StartTyped ==
  ASSUME TypeOK, NEW p \in Apps, StartApp(p) \/ OpenDatabase(p) PROVE TypeOK'
<1>1. CASE StartApp(p)
  BY <1>1 DEF StartApp, Acquire, TypeOK, dataVars, restoreVars, bounds
<1>2. CASE OpenDatabase(p)
  <2>1. file' \in Content /\ wal' \in Content \cup {None}
    BY <1>2, OpeningKeeps DEF OpenDatabase, TypeOK
  <2>2. 0 \in 0..Size
    BY SchemaAssumption
  <2> QED BY <1>2, <2>1, <2>2 DEF OpenDatabase, TypeOK, restoreVars, bounds
<1> QED BY <1>1, <1>2

LEMMA StatementTyped ==
  ASSUME TypeOK, NEW p \in Apps, Statement(p) PROVE TypeOK'
<1> DEFINE new == [Current EXCEPT !.done = @ + 1]
<1>1. Current \in Content /\ at[p] \in 0..Size
  BY CurrentTyped DEF TypeOK
<1>2. Current.version \in Nat /\ at[p] \in Nat /\ at[p] < Size /\ Current.version + 1 <= Latest
      /\ Current.done = Current.version * Size + at[p]
  BY <1>1, SchemaAssumption DEF Statement, NextVersion, Content
<1>3. Current.done + 1 \in 0..(Latest * Size)
  BY <1>2, ScriptFits
<1>4. new \in Content
  BY <1>1, <1>3 DEF Content
<1>5. wal' \in {wal, new} /\ txn' \in {txn, new}
  BY DEF Statement, Executed
<1>6. at[p] + 1 \in 0..Size
  BY <1>2, SchemaAssumption
<1> HIDE DEF new
<1> QED BY <1>4, <1>5, <1>6 DEF Statement, TypeOK, restoreVars, bounds

LEMMA RecordTyped ==
  ASSUME TypeOK, NEW p \in Apps, Record(p) PROVE TypeOK'
<1>1. Current \in Content
  BY CurrentTyped DEF TypeOK
<1>2. NextVersion \in 0..Latest
  BY <1>1, SchemaAssumption DEF Record, NextVersion, Content
<1>3. [Current EXCEPT !.version = NextVersion] \in Content
  BY <1>1, <1>2 DEF Content
<1>4. 0 \in 0..Size
  BY SchemaAssumption
<1> QED BY <1>3, <1>4 DEF Record, TypeOK, dataVars, restoreVars, bounds

LEMMA LeaveTyped ==
  ASSUME TypeOK, NEW p \in Apps, Leave(p), NEW others \in BOOLEAN, Closing(others)
  PROVE  TypeOK'
<1>1. file' \in Content /\ wal' \in Content \cup {None} /\ durable' \in BOOLEAN
  BY ClosingKeeps DEF TypeOK
<1> QED BY <1>1 DEF Leave, TypeOK, restoreVars, bounds

LEMMA WorkTyped ==
  ASSUME TypeOK, NEW p \in Apps,
         Migrated(p) \/ Write(p) \/ SaveSettings(p) \/ Checkpoint(p)
  PROVE  TypeOK'
<1>1. Seen \in Content
  BY SeenTyped DEF TypeOK
<1>2. CASE Migrated(p)
  BY <1>2 DEF Migrated, TypeOK, restoreVars, bounds
<1>3. CountWrite => writes' \in 0..MaxWrites /\ writes + 1 \in 0..MaxWrites
  BY BoundAssumption DEF CountWrite, TypeOK
<1>4. CASE Write(p)
  <2>1. [Seen EXCEPT !.rev = writes + 1] \in Content
    BY <1>1, <1>3, <1>4 DEF Write, Content
  <2> QED BY <1>3, <1>4, <2>1 DEF Write, TypeOK, appVars, restoreVars
<1>5. CASE SaveSettings(p)
  <2>1. [settings EXCEPT !.rev = writes + 1] \in Document
    BY <1>3, <1>5 DEF SaveSettings, TypeOK, Document
  <2> QED BY <1>3, <1>5, <2>1 DEF SaveSettings, TypeOK, appVars, dataVars, restoreVars
<1>6. CASE Checkpoint(p)
  BY <1>1, <1>6 DEF Checkpoint, TypeOK, appVars, restoreVars, bounds
<1> QED BY <1>2, <1>4, <1>5, <1>6

LEMMA ServeTyped ==
  ASSUME TypeOK, NEW p \in Apps, Serve(p) PROVE TypeOK'
<1>1. CASE MigrationFails(p) \/ StopApp(p)
  <2>1. (reader = file.gen) \in BOOLEAN
    OBVIOUS
  <2> QED BY <1>1, <2>1, LeaveTyped DEF MigrationFails, StopApp
<1> QED
  BY <1>1, StartTyped, StatementTyped, RecordTyped, WorkTyped DEF Serve

LEMMA ReaderTyped ==
  ASSUME TypeOK, Attach \/ Detach PROVE TypeOK'
<1>1. CASE Attach
  <2>1. file' \in Content /\ wal' \in Content \cup {None}
    BY <1>1, OpeningKeeps DEF Attach, TypeOK
  <2>2. reads' \in 0..MaxReads /\ file'.gen \in 0..MaxRestores
    BY <1>1, <2>1, BoundAssumption DEF Attach, TypeOK, Content
  <2> QED BY <1>1, <2>1, <2>2 DEF Attach, TypeOK, appVars, restoreVars
<1>2. CASE Detach
  <2>1. InUse \in BOOLEAN
    BY DEF InUse
  <2>2. file' \in Content /\ wal' \in Content \cup {None} /\ durable' \in BOOLEAN
    <3>1. CASE reader = file.gen
      BY <1>2, <2>1, <3>1, ClosingKeeps DEF Detach, TypeOK
    <3>2. CASE reader # file.gen
      BY <1>2, <3>2 DEF Detach, TypeOK, dataVars
    <3> QED BY <3>1, <3>2
  <2> QED BY <1>2, <2>2 DEF Detach, TypeOK, appVars, restoreVars, bounds
<1> QED BY <1>1, <1>2

LEMMA RestoreTyped ==
  ASSUME Typed, Restore PROVE Typed'
<1> USE DEF Typed
<1>1. Seen \in Content
  BY SeenTyped DEF TypeOK
<1>2. [db |-> Seen, settings |-> settings] \in [db : Content, settings : Document]
  BY <1>1 DEF TypeOK
<1>3. CASE BeginRestore
  <2>1. restores' \in 0..MaxRestores
    BY <1>3, BoundAssumption DEF BeginRestore, TypeOK
  <2> QED BY <1>2, <1>3, <2>1 DEF BeginRestore, RestoreStep, Acquire, TypeOK, appVars, dataVars
<1>4. CASE RefuseRestore
  BY <1>4 DEF RefuseRestore, RestoreStep, TypeOK, appVars, dataVars, bounds
<1>5. CASE SaveCurrent
  <2>1. (reader = file.gen) \in BOOLEAN
    OBVIOUS
  <2>2. file' \in Content /\ wal' \in Content \cup {None} /\ durable' \in BOOLEAN
    BY <1>5, <2>1, ClosingKeeps DEF SaveCurrent, TypeOK
  <2> QED BY <1>2, <1>5, <2>2 DEF SaveCurrent, RestoreStep, TypeOK, appVars, bounds
<1>6. CASE ReplaceDatabase
  <2>1. Database(restores, BundleVersion) \in Content
    BY DatabaseTyped, SchemaAssumption DEF TypeOK
  <2> QED BY <1>6, <2>1 DEF ReplaceDatabase, RestoreStep, TypeOK, appVars, bounds
<1>7. CASE ReplaceSettings
  <2>1. Settings(restores) \in Document
    BY BoundAssumption DEF Settings, Document, TypeOK
  <2> QED BY <1>7, <2>1 DEF ReplaceSettings, RestoreStep, TypeOK, appVars, dataVars, bounds
<1>8. CASE UnlinkLog
  BY <1>8 DEF UnlinkLog, RestoreStep, TypeOK, appVars, bounds
<1>9. CASE EndRestore
  BY <1>9 DEF EndRestore, RestoreStep, TypeOK, appVars, dataVars, bounds
<1> QED BY <1>3, <1>4, <1>5, <1>6, <1>7, <1>8, <1>9 DEF Restore


LEMMA DeathTyped ==
  ASSUME Typed,
         KillRestore \/ KillReader \/ PowerLoss \/ (\E p \in Apps : KillApp(p))
  PROVE  Typed'
<1>1. CountDeath => deaths' \in 0..MaxDeaths
  BY BoundAssumption DEF CountDeath, Typed, TypeOK
<1>2. ASSUME NEW p \in Apps, KillApp(p) PROVE Typed'
  BY <1>1, <1>2 DEF KillApp, Typed, TypeOK, dataVars, restoreVars
<1>3. CASE KillRestore
  BY <1>1, <1>3 DEF KillRestore, Typed, TypeOK, appVars, dataVars
<1>4. CASE KillReader
  BY <1>1, <1>4 DEF KillReader, Typed, TypeOK, appVars, dataVars, restoreVars
<1>5. CASE PowerLoss
  <2>1. [file EXCEPT !.health = "torn"] \in Content
    BY DEF Typed, TypeOK, Content
  <2>2. file' \in Content
    BY <1>5, <2>1 DEF PowerLoss, Typed, TypeOK
  <2>3. app' \in [Apps -> {"down", "locked", "migrating", "up"}]
    BY <1>5 DEF PowerLoss
  <2> QED BY <1>1, <1>5, <2>2, <2>3 DEF PowerLoss, Typed, TypeOK
<1> QED BY <1>2, <1>3, <1>4, <1>5

\* Servers and commands leave the variables of a restore alone.
LEMMA OthersLeaveRestore ==
  ASSUME Attach \/ Detach \/ (\E p \in Apps : Serve(p) \/ KillApp(p)) \/ KillReader
  PROVE  UNCHANGED <<restore, before, saved, replaced, restores>>
BY DEF Attach, Detach, Serve, KillApp, KillReader, StartApp, OpenDatabase, Statement, Record,
   Migrated, MigrationFails, Leave, Write, SaveSettings, Checkpoint, StopApp, restoreVars, bounds

LEMMA TypedStep == Typed /\ [Next]_vars => Typed'
<1> SUFFICES ASSUME Typed, [Next]_vars PROVE Typed'
  OBVIOUS
<1>1. ASSUME NEW p \in Apps, Serve(p) PROVE Typed'
  BY <1>1, ServeTyped, OthersLeaveRestore DEF Typed
<1>2. CASE Attach \/ Detach
  BY <1>2, ReaderTyped, OthersLeaveRestore DEF Typed
<1>3. CASE UNCHANGED vars
  BY <1>3 DEF vars, Typed, TypeOK
<1> QED
  BY <1>1, <1>2, <1>3, RestoreTyped, DeathTyped DEF Next

\* Every variable keeps its type; no script runs past its last statement.
THEOREM TypeCorrect == Spec => []TypeOK
<1>1. Init => Typed
  BY TypedInit DEF Init, Typed
<1>2. Typed => TypeOK
  BY DEF Typed
<1> QED BY <1>1, <1>2, TypedStep, PTL DEF Spec

-----------------------------------------------------------------------------
(***************************************************************************)
(* The lock.                                                               *)
(***************************************************************************)
\* Who is at work holds the lock.
Locked ==
  /\ \A p \in Apps : app[p] # "down" => lock = p
  /\ restore # "idle" => lock = "restore"

LEMMA LockedStep == Typed /\ Locked /\ [Next]_vars => Locked'
<1> SUFFICES ASSUME Typed, Locked, [Next]_vars PROVE Locked'
  OBVIOUS
<1> USE ProcessAssumption
<1>t. app \in [Apps -> {"down", "locked", "migrating", "up"}]
  BY DEF Typed, TypeOK
<1>1. ASSUME NEW p \in Apps, StartApp(p) PROVE Locked'
  BY <1>1, <1>t DEF StartApp, Acquire, Locked, restoreVars
<1>2. ASSUME NEW p \in Apps,
             OpenDatabase(p) \/ Statement(p) \/ Record(p) \/ Migrated(p)
             \/ Write(p) \/ SaveSettings(p) \/ Checkpoint(p)
      PROVE  Locked'
  <2>1. lock' = lock /\ restore' = restore
    BY <1>2 DEF OpenDatabase, Statement, Record, Migrated, Write, SaveSettings, Checkpoint,
       restoreVars
  <2>2. app[p] # "down"
    BY <1>2 DEF OpenDatabase, Statement, Record, Migrated, Write, SaveSettings, Checkpoint,
       Migrates
  <2>3. \A q \in Apps : q # p => app'[q] = app[q]
    BY <1>2, <1>t DEF OpenDatabase, Statement, Record, Migrated, Write, SaveSettings, Checkpoint,
       appVars
  <2> QED BY <2>1, <2>2, <2>3 DEF Locked
<1>3. ASSUME NEW p \in Apps, app[p] # "down", app' = [app EXCEPT ![p] = "down"], lock' = None,
             restore' = restore
      PROVE  Locked'
  BY <1>3, <1>t DEF Locked
<1>4. ASSUME NEW p \in Apps, MigrationFails(p) \/ StopApp(p) \/ KillApp(p) PROVE Locked'
  BY <1>3, <1>4 DEF MigrationFails, StopApp, KillApp, Leave, Blocked, restoreVars
<1>5. CASE Attach \/ Detach \/ KillReader
  BY <1>5 DEF Attach, Detach, KillReader, Locked, appVars, restoreVars
<1>6. CASE Restore
  BY <1>6 DEF Restore, BeginRestore, RefuseRestore, SaveCurrent, ReplaceDatabase,
     ReplaceSettings, UnlinkLog, EndRestore, RestoreStep, Acquire, Locked, appVars
<1>7. CASE KillRestore
  BY <1>7 DEF KillRestore, Locked, appVars
<1>8. CASE PowerLoss
  BY <1>8 DEF PowerLoss, Locked
<1>9. CASE UNCHANGED vars
  BY <1>9 DEF vars, Locked
<1> QED
  BY <1>1, <1>2, <1>4, <1>5, <1>6, <1>7, <1>8, <1>9 DEF Next, Serve

LEMMA LockedOwns == Locked => SoleOwner
BY ProcessAssumption DEF Locked, SoleOwner

\* One process works on the installation: no two servers, and no server
\* beside a restore, whatever dies.
THEOREM OneOwner == Spec => []SoleOwner
<1>1. Init => Typed /\ Locked
  BY TypedInit DEF Init, Typed, Locked
<1>2. Typed /\ Locked /\ [Next]_vars => (Typed /\ Locked)'
  BY TypedStep, LockedStep
<1> QED BY <1>1, <1>2, LockedOwns, PTL DEF Spec

-----------------------------------------------------------------------------
(***************************************************************************)
(* A restore overwrites nothing it has not saved.                          *)
(***************************************************************************)
Bundle == [db |-> Seen, settings |-> settings]

\* Between taking the lock and the pre-restore bundle nothing changes what is
\* there to see, and the bundle holds it from then on.
Saving ==
  /\ restore = "locked" => before = Bundle
  /\ restore = "saved" => before \in saved
  /\ replaced \subseteq saved

\* While a restore runs no server changes anything.
LEMMA ServersDown ==
  ASSUME Locked, restore # "idle", NEW p \in Apps
  PROVE  app[p] = "down"
BY ProcessAssumption DEF Locked

LEMMA RestoringAlone ==
  ASSUME Typed, Locked, restore # "idle", NEW p \in Apps
  PROVE  ~Serve(p) /\ ~KillApp(p)
<1>1. app[p] = "down" /\ lock = "restore"
  BY ServersDown DEF Locked
<1> QED
  BY <1>1, ProcessAssumption DEF Serve, KillApp, StartApp, Acquire, OpenDatabase, Statement,
     Record, Migrated, Migrates, MigrationFails, Blocked, Write, SaveSettings, Checkpoint, StopApp

LEMMA ReadersKeep ==
  ASSUME Typed, Attach \/ Detach
  PROVE  /\ Seen' = Seen /\ file'.gen = file.gen /\ UNCHANGED settings
         /\ UNCHANGED <<app, at, txn, restore, before, saved, replaced, restores>>
<1>0. file \in Content /\ wal \in Content \cup {None} /\ durable \in BOOLEAN
  BY DEF Typed, TypeOK
<1>1. CASE Attach
  BY <1>0, <1>1, OpeningKeeps DEF Attach, restoreVars, appVars
<1>2. CASE Detach
  <2>1. InUse \in BOOLEAN
    BY DEF InUse
  <2>2. CASE reader = file.gen
    BY <1>0, <1>2, <2>1, <2>2, ClosingKeeps DEF Detach, restoreVars, appVars, bounds
  <2>3. CASE reader # file.gen
    BY <1>2, <2>3 DEF Detach, restoreVars, appVars, bounds, dataVars, Seen, Belongs
  <2> QED BY <2>2, <2>3
<1> QED BY <1>1, <1>2

LEMMA SavingStep == Typed /\ Locked /\ Saving /\ [Next]_vars => Saving'
<1> SUFFICES ASSUME Typed, Locked, Saving, [Next]_vars PROVE Saving'
  OBVIOUS
<1>1. ASSUME NEW p \in Apps, Serve(p) \/ KillApp(p) PROVE Saving'
  <2>1. restore = "idle"
    BY <1>1, RestoringAlone
  <2> QED BY <1>1, <2>1, OthersLeaveRestore DEF Saving
<1>2. CASE Attach \/ Detach
  BY <1>2, ReadersKeep DEF Saving, Bundle
<1>3. CASE BeginRestore
  BY <1>3 DEF BeginRestore, RestoreStep, Saving, Bundle, dataVars, Seen, Belongs
<1>4. CASE SaveCurrent
  BY <1>4 DEF SaveCurrent, RestoreStep, Saving, Bundle
<1>5. CASE RefuseRestore \/ ReplaceDatabase \/ ReplaceSettings \/ UnlinkLog \/ EndRestore
  BY <1>5 DEF RefuseRestore, ReplaceDatabase, ReplaceSettings, UnlinkLog, EndRestore,
     RestoreStep, Saving
<1>6. CASE KillRestore \/ PowerLoss
  BY <1>6 DEF KillRestore, PowerLoss, Saving
<1>7. CASE KillReader
  BY <1>7 DEF KillReader, Saving, Bundle, restoreVars, dataVars, Seen, Belongs
<1>8. CASE UNCHANGED vars
  BY <1>8 DEF vars, Saving, Bundle, Seen, Belongs
<1> QED
  BY <1>1, <1>2, <1>3, <1>4, <1>5, <1>6, <1>7, <1>8 DEF Next, Restore

\* Whatever a restore overwrote is in a pre-restore bundle, with every commit
\* that was still in the log.
THEOREM NothingLost == Spec => []Recoverable
<1>1. Init => Typed /\ Locked /\ Saving
  BY TypedInit DEF Init, Typed, Locked, Saving
<1>2. Typed /\ Locked /\ Saving /\ [Next]_vars => (Typed /\ Locked /\ Saving)'
  BY TypedStep, LockedStep, SavingStep
<1>3. Saving => Recoverable
  BY DEF Saving, Recoverable
<1> QED BY <1>1, <1>2, <1>3, PTL DEF Spec

-----------------------------------------------------------------------------
(***************************************************************************)
(* A restore that reports success is whole.                                *)
(***************************************************************************)
Replaced == {"database", "settings", "clean"}

\* Generations only grow, and the log beside a replaced database is older.
Restoring ==
  /\ file.gen <= restores
  /\ wal # None => wal.gen <= restores
  /\ txn # None => txn.gen <= restores
  /\ restore \in {"locked", "saved"} =>
       file.gen < restores /\ (wal # None => wal.gen < restores)
  /\ restore \in Replaced =>
       /\ file.gen = restores /\ file.health # "torn"
       /\ file.health # "mixed" => file = Database(restores, BundleVersion)
       /\ wal # None => wal.gen < restores
  /\ restore \in {"settings", "clean"} => settings = Settings(restores)
  /\ restore = "clean" => wal = None

LEMMA RestoringStep == Typed /\ Locked /\ Restoring /\ [Next]_vars => Restoring'
<1> SUFFICES ASSUME Typed, Locked, Restoring, [Next]_vars PROVE Restoring'
  OBVIOUS
<1> USE DEF Replaced
<1>t. /\ file \in Content /\ wal \in Content \cup {None} /\ txn \in Content \cup {None}
      /\ durable \in BOOLEAN /\ restores \in Nat
  BY BoundAssumption DEF Typed, TypeOK
<1>s. Seen \in Content /\ Seen.gen = file.gen
  BY <1>t, SeenTyped
<1>g. file.gen \in Nat /\ (wal # None => wal.gen \in Nat) /\ (txn # None => txn.gen \in Nat)
  BY <1>t, BoundAssumption DEF Content
<1>1. ASSUME NEW p \in Apps, Serve(p) PROVE Restoring'
  <2>1. restore = "idle" /\ restore' = "idle" /\ restores' = restores
    BY <1>1, RestoringAlone, OthersLeaveRestore
  <2>2. SUFFICES /\ file'.gen <= restores
                 /\ wal' # None => wal'.gen <= restores
                 /\ txn' # None => txn'.gen <= restores
    BY <2>1 DEF Restoring
  <2>c. Current \in Content /\ Current.gen <= restores
    BY <1>t, <1>s, CurrentTyped DEF Current, Restoring
  <2>3. CASE StartApp(p) \/ SaveSettings(p)
    BY <2>3 DEF StartApp, SaveSettings, Restoring, dataVars, appVars
  <2>4. CASE OpenDatabase(p)
    <3>1. file'.gen = file.gen /\ (wal' = wal \/ wal' = None)
      BY <2>4, <1>t, OpeningKeeps DEF OpenDatabase, Opening
    <3> QED BY <2>4, <3>1 DEF OpenDatabase, Restoring
  <2>5. CASE Statement(p)
    <3> DEFINE new == [Current EXCEPT !.done = @ + 1]
    <3>1. new.gen = Current.gen
      BY <2>c DEF Content
    <3>2. file' = file /\ wal' \in {wal, new} /\ txn' \in {txn, new}
      BY <2>5 DEF Statement, Executed
    <3> HIDE DEF new
    <3> QED BY <2>c, <3>1, <3>2 DEF Restoring
  <2>6. CASE Record(p)
    <3>1. [Current EXCEPT !.version = NextVersion].gen = Current.gen
      BY <2>c DEF Content
    <3> QED BY <2>6, <2>c, <3>1 DEF Record, Restoring, dataVars
  <2>7. CASE Migrated(p)
    BY <2>7 DEF Migrated, Restoring
  <2>8. CASE MigrationFails(p) \/ StopApp(p)
    <3>1. (reader = file.gen) \in BOOLEAN
      OBVIOUS
    <3>2. file'.gen = file.gen /\ (wal' = wal \/ wal' = None)
      BY <2>8, <1>t, <3>1, ClosingKeeps DEF MigrationFails, StopApp, dataVars
    <3> QED BY <2>8, <3>2 DEF MigrationFails, StopApp, Leave, Restoring
  <2>9. CASE Write(p)
    <3>1. [Seen EXCEPT !.rev = writes + 1].gen = Seen.gen
      BY <1>s DEF Content
    <3> QED BY <2>9, <1>s, <3>1 DEF Write, Restoring, appVars
  <2>10. CASE Checkpoint(p)
    BY <2>10, <1>s DEF Checkpoint, Restoring, appVars
  <2> QED
    BY <1>1, <2>3, <2>4, <2>5, <2>6, <2>7, <2>8, <2>9, <2>10 DEF Serve
<1>2. CASE Attach \/ Detach
  <2>1. UNCHANGED <<settings, txn, restore, restores>> /\ file'.gen = file.gen
    BY <1>2, ReadersKeep
  <2>2. \/ UNCHANGED <<file, wal>>
        \/ file' = Seen /\ wal' = None
    BY <1>2 DEF Attach, Detach, Opening, Closing, dataVars
  <2>3. restore \in Replaced => Seen = file \/ Seen = [file EXCEPT !.health = "mixed"]
    BY <1>t, <1>g DEF Restoring, Seen, Belongs
  <2>4. [file EXCEPT !.health = "mixed"].health = "mixed"
    BY <1>t DEF Content
  <2>5. restore \in Replaced => file'.health # "torn"
        /\ (file'.health # "mixed" => file' = file)
    BY <2>2, <2>3, <2>4 DEF Restoring
  <2> QED BY <2>1, <2>2, <2>5 DEF Restoring
<1>3. CASE BeginRestore
  <2>1. /\ restores' = restores + 1 /\ restore = "idle" /\ restore' = "locked"
        /\ UNCHANGED <<file, wal, txn>>
    BY <1>3 DEF BeginRestore, RestoreStep, dataVars, appVars
  <2>2. file.gen < restores' /\ (wal # None => wal.gen < restores')
        /\ (txn # None => txn.gen <= restores')
    BY <2>1, <1>t, <1>g DEF Restoring
  <2> QED BY <2>1, <2>2, <1>t, <1>g DEF Restoring
<1>4. CASE SaveCurrent
  <2>1. (reader = file.gen) \in BOOLEAN
    OBVIOUS
  <2>2. file'.gen = file.gen /\ (wal' = wal \/ wal' = None)
    BY <1>4, <1>t, <2>1, ClosingKeeps DEF SaveCurrent, dataVars
  <2> QED BY <1>4, <2>2 DEF SaveCurrent, RestoreStep, Restoring, appVars, bounds
<1>5. CASE ReplaceDatabase
  <2>1. Database(restores, BundleVersion).gen = restores
        /\ Database(restores, BundleVersion).health = "good"
    BY DEF Database
  <2> QED
    BY <1>5, <1>t, <2>1 DEF ReplaceDatabase, RestoreStep, Restoring, appVars, bounds
<1>6. CASE ReplaceSettings \/ UnlinkLog
  BY <1>6 DEF ReplaceSettings, UnlinkLog, RestoreStep, Restoring, dataVars, appVars, bounds
<1>7. CASE RefuseRestore \/ EndRestore
  BY <1>7 DEF RefuseRestore, EndRestore, RestoreStep, Restoring, dataVars, appVars, bounds
<1>8. ASSUME NEW p \in Apps, KillApp(p) PROVE Restoring'
  BY <1>8 DEF KillApp, Restoring, dataVars, restoreVars
<1>9. CASE KillReader \/ KillRestore
  BY <1>9 DEF KillReader, KillRestore, Restoring, appVars, dataVars, restoreVars
<1>10. CASE PowerLoss
  <2>1. [file EXCEPT !.health = "torn"].gen = file.gen
    BY <1>t DEF Content
  <2> QED BY <1>10, <2>1 DEF PowerLoss, Restoring
<1>11. CASE UNCHANGED vars
  BY <1>11 DEF vars, Restoring
<1> QED
  BY <1>1, <1>2, <1>3, <1>4, <1>5, <1>6, <1>7, <1>8, <1>9, <1>10, <1>11 DEF Next, Restore

\* A restore that reports success leaves the database and the settings of
\* the bundle and no log of the old database.
THEOREM RestoreIsWhole == Spec => []RestoredWhole
<1>1. Init => Typed /\ Locked /\ Restoring
  <2> SUFFICES ASSUME Init PROVE Typed /\ Locked /\ Restoring
    OBVIOUS
  <2>1. file.gen = 0
    BY DEF Init, Database
  <2> QED BY <2>1, TypedInit DEF Init, Typed, Locked, Restoring, Replaced
<1>2. Typed /\ Locked /\ Restoring /\ [Next]_vars => (Typed /\ Locked /\ Restoring)'
  BY TypedStep, LockedStep, RestoringStep
<1>3. Restoring => RestoredWhole
  BY DEF Restoring, RestoredWhole, Replaced
<1> QED BY <1>1, <1>2, <1>3, PTL DEF Spec

-----------------------------------------------------------------------------
(***************************************************************************)
(* A server that serves has every migration.                               *)
(***************************************************************************)
Exact(x) == x.version = Latest => x.done = Latest * Size

\* Nothing records the last version without the statements before it.
Recorded ==
  /\ Exact(file)
  /\ wal # None => Exact(wal) /\ wal.health # "torn"
  /\ txn # None => Exact(txn) /\ txn.health # "torn" /\ txn.gen = file.gen

\* What a server that upgrades or serves has in hand.
Upgrading ==
  /\ Recorded
  /\ (\A p \in Apps : app[p] # "migrating") => txn = None
  /\ InUse => Belongs
  /\ \A p \in Apps : app[p] = "migrating" /\ at[p] > 0 /\ file.health # "torn" =>
       Current.done = Current.version * Size + at[p]
  /\ \A p \in Apps : app[p] = "up" =>
       txn = None /\ file.health # "torn" /\ Seen.version = Latest

LEMMA SeenExact ==
  ASSUME file \in Content, wal \in Content \cup {None}, Recorded
  PROVE  Exact(Seen) /\ (file.health # "torn" => Seen.health # "torn")
<1>1. /\ Exact([file EXCEPT !.health = "mixed"])
      /\ [file EXCEPT !.health = "mixed"].health = "mixed"
  BY DEF Recorded, Exact, Content
<1> QED BY <1>1 DEF Recorded, Seen

\* While a server is at work, it is the only one.
LEMMA OnlyServer ==
  ASSUME Locked, NEW p \in Apps, app[p] # "down", NEW q \in Apps, q # p
  PROVE  app[q] = "down"
BY DEF Locked

LEMMA StatementUpgrades ==
  ASSUME Typed, Locked, Upgrading, NEW p \in Apps, Statement(p) PROVE Upgrading'
<1> DEFINE new == [Current EXCEPT !.done = @ + 1]
<1>t. /\ file \in Content /\ wal \in Content \cup {None} /\ txn \in Content \cup {None}
      /\ at \in [Apps -> 0..Size] /\ Size \in Nat /\ Latest \in Nat
  BY SchemaAssumption DEF Typed, TypeOK
<1>m. app[p] = "migrating" /\ file.health # "torn" /\ UNCHANGED <<app, file>>
      /\ at' = [at EXCEPT ![p] = @ + 1]
  BY DEF Statement, Migrates
<1>c. Current \in Content /\ Current.gen = file.gen /\ Current.health # "torn"
  BY <1>t, <1>m, CurrentTyped, SeenTyped, SeenExact DEF Current, Upgrading, Recorded
<1>1. Current.version \in Nat /\ at[p] \in Nat /\ Current.version # Latest
      /\ Current.done = Current.version * Size + at[p]
  BY <1>t, <1>c DEF Statement, NextVersion, Content
<1>2. /\ new.gen = file.gen /\ new.health # "torn" /\ new.version = Current.version
      /\ new.done = Current.version * Size + at[p] + 1
  BY <1>1, <1>c DEF Content
<1>3. Exact(new)
  BY <1>1, <1>2 DEF Exact
<1>4. \/ txn' = new /\ wal' = wal
      \/ txn = None /\ txn' = None /\ wal' = new
  BY DEF Statement, Executed
<1>5. new \in Content
  <2>1. new.done \in 0..(Latest * Size)
    BY <1>1, <1>2, <1>t, <1>c, ScriptFits DEF Statement, NextVersion, Content
  <2> QED BY <1>c, <2>1 DEF Content
<1> HIDE DEF new
<1>6. new # None
  BY <1>5, NoneAssumption
<1>7. Belongs /\ Belongs'
  BY <1>m, <1>2, <1>4 DEF Upgrading, InUse, Belongs
<1>8. Current' = new
  BY <1>m, <1>4, <1>6, <1>7 DEF Current, Seen
<1>9. Recorded'
  BY <1>m, <1>2, <1>3, <1>4 DEF Upgrading, Recorded, Exact
<1>10. Current'.done = Current'.version * Size + at'[p]
  <2>1. at'[p] = at[p] + 1 /\ Current.version * Size \in Nat
    BY <1>t, <1>m, <1>1
  <2> QED BY <1>1, <1>2, <1>8, <2>1
<1>11. \A q \in Apps : q # p => app'[q] = "down"
  BY <1>m, OnlyServer
<1> QED BY <1>m, <1>7, <1>9, <1>10, <1>11 DEF Upgrading

LEMMA RecordUpgrades ==
  ASSUME Typed, Locked, Upgrading, NEW p \in Apps, Record(p) PROVE Upgrading'
<1> DEFINE new == [Current EXCEPT !.version = NextVersion]
<1>t. /\ file \in Content /\ wal \in Content \cup {None} /\ txn \in Content \cup {None}
      /\ at \in [Apps -> 0..Size] /\ Size \in Nat \ {0} /\ Latest \in Nat
  BY SchemaAssumption DEF Typed, TypeOK
<1>m. /\ app[p] = "migrating" /\ file.health # "torn" /\ UNCHANGED <<app, file, wal>>
      /\ at' = [at EXCEPT ![p] = 0] /\ at[p] = Size /\ NextVersion <= Latest /\ txn' = new
  BY DEF Record, Migrates, dataVars
<1>c. Current \in Content /\ Current.gen = file.gen /\ Current.health # "torn"
  BY <1>t, <1>m, CurrentTyped, SeenTyped, SeenExact DEF Current, Upgrading, Recorded
<1>1. /\ Current.version \in Nat /\ NextVersion = Current.version + 1
      /\ Current.done = Current.version * Size + Size
  BY <1>t, <1>m, <1>c DEF Upgrading, NextVersion, Content
<1>2. /\ new.gen = file.gen /\ new.health # "torn" /\ new.version = NextVersion
      /\ new.done = Current.done
  BY <1>c DEF Content
<1>3. Exact(new)
  <2>1. Current.done = (Current.version + 1) * Size
    BY <1>1, <1>t
  <2> QED BY <1>1, <1>2, <2>1 DEF Exact
<1>4. Recorded'
  BY <1>m, <1>2, <1>3 DEF Upgrading, Recorded, Exact
<1> HIDE DEF new
<1>5. at'[p] = 0
  BY <1>t, <1>m
<1>6. \A q \in Apps : q # p => app'[q] = "down"
  BY <1>m, OnlyServer
<1>7. Belongs'
  BY <1>m DEF Upgrading, InUse, Belongs
<1> QED BY <1>m, <1>4, <1>5, <1>6, <1>7 DEF Upgrading

LEMMA MigratedUpgrades ==
  ASSUME Typed, Locked, Upgrading, NEW p \in Apps, Migrated(p) PROVE Upgrading'
<1>t. /\ file \in Content /\ wal \in Content \cup {None} /\ txn \in Content \cup {None}
      /\ app \in [Apps -> {"down", "locked", "migrating", "up"}] /\ Latest \in Nat
  BY SchemaAssumption DEF Typed, TypeOK
<1>m. /\ app[p] = "migrating" /\ file.health # "torn" /\ UNCHANGED <<at, file>>
      /\ app' = [app EXCEPT ![p] = "up"] /\ NextVersion > Latest
      /\ txn' = None /\ wal' = IF txn # None THEN txn ELSE wal
  BY DEF Migrated, Migrates
<1>c. Current \in Content
  BY <1>t, CurrentTyped
<1>1. Current.version = Latest
  BY <1>t, <1>m, <1>c DEF NextVersion, Content
<1>2. Belongs /\ Belongs'
  BY <1>m DEF Upgrading, Recorded, InUse, Belongs
<1>3. Seen' = Current
  BY <1>m, <1>2 DEF Seen, Current
<1>4. Recorded'
  BY <1>m DEF Upgrading, Recorded, Exact
<1>5. \A q \in Apps : q # p => app'[q] = "down"
  BY <1>m, <1>t, OnlyServer
<1>6. app'[p] = "up"
  BY <1>m, <1>t
<1> QED BY <1>m, <1>1, <1>2, <1>3, <1>4, <1>5, <1>6 DEF Upgrading

\* What changes no more than where to find what is there to see.
LEMMA SameImage ==
  ASSUME Typed, Upgrading, Recorded', Seen' = Seen, file'.gen = file.gen,
         file.health # "torn" => file'.health # "torn",
         file'.health # "torn" => file.health # "torn",
         UNCHANGED <<app, at, txn>>,
         InUse => Belongs'
  PROVE  Upgrading'
<1>1. Current' = Current /\ InUse' = InUse
  BY DEF Current, InUse
<1> QED BY <1>1 DEF Upgrading

LEMMA WorkUpgrades ==
  ASSUME Typed, Locked, Upgrading, NEW p \in Apps, Write(p) \/ SaveSettings(p) \/ Checkpoint(p)
  PROVE  Upgrading'
<1>t. /\ file \in Content /\ wal \in Content \cup {None} /\ txn \in Content \cup {None}
  BY DEF Typed, TypeOK
<1>m. /\ app[p] = "up" /\ UNCHANGED <<app, at, txn>> /\ Belongs /\ txn = None
      /\ file.health # "torn" /\ Seen.version = Latest
  BY DEF Write, SaveSettings, Checkpoint, appVars, Upgrading, InUse
<1>s. Seen \in Content /\ Seen.gen = file.gen /\ Exact(Seen) /\ Seen.health # "torn"
  BY <1>t, <1>m, SeenTyped, SeenExact DEF Upgrading
<1>o. \A q \in Apps : q # p => app'[q] = "down"
  BY <1>m, OnlyServer
<1>1. CASE Write(p)
  <2> DEFINE new == [Seen EXCEPT !.rev = writes + 1]
  <2>1. new.gen = file.gen /\ new.health # "torn" /\ new.version = Latest /\ Exact(new)
    BY <1>m, <1>s DEF Exact, Content
  <2>2. wal' = new /\ file' = file
    BY <1>1 DEF Write
  <2>c. new # None
    <3>1. writes + 1 \in 0..MaxWrites
      BY <1>1, BoundAssumption DEF Write, CountWrite, Typed, TypeOK
    <3>2. new \in Content
      BY <1>s, <3>1 DEF Content
    <3> QED BY <3>2, NoneAssumption
  <2> HIDE DEF new
  <2>3. Belongs'
    BY <2>1, <2>2 DEF Belongs
  <2>4. Seen'.version = Latest
    BY <1>m, <2>1, <2>2, <2>3, <2>c DEF Seen
  <2>5. Recorded'
    BY <1>m, <2>1, <2>2 DEF Upgrading, Recorded, Exact
  <2> QED BY <1>m, <1>o, <2>2, <2>3, <2>4, <2>5 DEF Upgrading
<1>2. CASE SaveSettings(p)
  <2>1. UNCHANGED <<file, wal>>
    BY <1>2 DEF SaveSettings, dataVars
  <2>2. Recorded' /\ Seen' = Seen /\ Belongs'
    BY <1>m, <2>1 DEF Upgrading, Recorded, Exact, Seen, Belongs
  <2> QED BY <1>m, <2>1, <2>2, SameImage
<1>3. CASE Checkpoint(p)
  <2>1. file' = Seen /\ wal' = None
    BY <1>3 DEF Checkpoint
  <2>2. Seen' = Seen /\ Belongs'
    BY <2>1 DEF Seen, Belongs
  <2>3. Recorded'
    BY <1>m, <1>s, <2>1 DEF Upgrading, Recorded, Exact
  <2> QED BY <1>m, <1>s, <2>1, <2>2, <2>3, SameImage
<1> QED BY <1>1, <1>2, <1>3

LEMMA LeavesUpgrades ==
  ASSUME Typed, Locked, Upgrading, NEW p \in Apps, app[p] # "down",
         app' = [app EXCEPT ![p] = "down"], txn' = None, Recorded'
  PROVE  Upgrading'
<1>1. \A q \in Apps : app'[q] = "down"
  BY OnlyServer DEF Typed, TypeOK
<1> QED BY <1>1 DEF Upgrading, InUse

LEMMA ServeUpgrades ==
  ASSUME Typed, Locked, Upgrading, NEW p \in Apps, Serve(p) \/ KillApp(p)
  PROVE  Upgrading'
<1>t. /\ file \in Content /\ wal \in Content \cup {None} /\ durable \in BOOLEAN
      /\ app \in [Apps -> {"down", "locked", "migrating", "up"}]
      /\ at \in [Apps -> 0..Size]
  BY DEF Typed, TypeOK
<1>s. Exact(Seen) /\ (file.health # "torn" => Seen.health # "torn")
  BY <1>t, SeenExact DEF Upgrading
<1>1. CASE StartApp(p)
  <2>1. /\ \A q \in Apps : app[q] = "down"
        /\ app' = [app EXCEPT ![p] = "locked"] /\ UNCHANGED <<at, txn, file, wal>>
    BY <1>1, ProcessAssumption DEF StartApp, Acquire, Locked, dataVars
  <2>2. /\ \A q \in Apps : app'[q] \in {"down", "locked"}
        /\ txn = None
    BY <1>t, <2>1 DEF Upgrading
  <2>3. Recorded'
    BY <2>1 DEF Upgrading, Recorded, Exact
  <2> QED BY <2>1, <2>2, <2>3 DEF Upgrading, InUse
<1>2. CASE OpenDatabase(p)
  <2>1. /\ app[p] = "locked" /\ app' = [app EXCEPT ![p] = "migrating"]
        /\ at' = [at EXCEPT ![p] = 0] /\ txn' = None
        /\ \/ UNCHANGED <<file, wal>>
           \/ file' = Seen /\ wal' = None
    BY <1>2 DEF OpenDatabase, Opening
  <2>2. Belongs'
    BY <1>2, <1>t, OpeningKeeps DEF OpenDatabase
  <2>3. Recorded'
    BY <1>s, <2>1 DEF Upgrading, Recorded, Exact
  <2>4. \A q \in Apps : q # p => app'[q] = "down"
    BY <2>1, <1>t, OnlyServer
  <2>5. app'[p] = "migrating" /\ at'[p] = 0
    BY <2>1, <1>t
  <2> QED BY <2>1, <2>2, <2>3, <2>4, <2>5 DEF Upgrading
<1>3. CASE MigrationFails(p) \/ StopApp(p)
  <2>1. (reader = file.gen) \in BOOLEAN
    OBVIOUS
  <2>2. /\ \/ UNCHANGED <<file, wal>>
           \/ file' = Seen /\ wal' = None
        /\ app[p] # "down" /\ app' = [app EXCEPT ![p] = "down"] /\ txn' = None
    BY <1>3 DEF MigrationFails, StopApp, Closing, Blocked, Leave, dataVars
  <2>3. Recorded'
    BY <1>s, <2>2 DEF Upgrading, Recorded, Exact
  <2> QED BY <2>2, <2>3, LeavesUpgrades
<1>4. CASE KillApp(p)
  <2>1. /\ UNCHANGED <<file, wal>>
        /\ app[p] # "down" /\ app' = [app EXCEPT ![p] = "down"] /\ txn' = None
    BY <1>4 DEF KillApp, dataVars
  <2>2. Recorded'
    BY <2>1 DEF Upgrading, Recorded, Exact
  <2> QED BY <2>1, <2>2, LeavesUpgrades
<1> QED
  BY <1>1, <1>2, <1>3, <1>4, StatementUpgrades, RecordUpgrades, MigratedUpgrades, WorkUpgrades
  DEF Serve

LEMMA ReadersUpgrade ==
  ASSUME Typed, Upgrading, Attach \/ Detach PROVE Upgrading'
<1>t. file \in Content /\ wal \in Content \cup {None} /\ durable \in BOOLEAN
  BY DEF Typed, TypeOK
<1>s. Exact(Seen) /\ (file.health # "torn" => Seen.health # "torn")
  BY <1>t, SeenExact DEF Upgrading
<1>1. /\ Seen' = Seen /\ file'.gen = file.gen /\ UNCHANGED <<app, at, txn>>
  BY ReadersKeep
<1>2. \/ UNCHANGED <<file, wal>>
      \/ file' = Seen /\ wal' = None /\ ~InUse
  BY DEF Attach, Detach, Opening, Closing, dataVars, Upgrading
<1>3. Recorded'
  BY <1>s, <1>1, <1>2 DEF Upgrading, Recorded, Exact
<1>4. file.health = "torn" => Seen = file
  BY DEF Seen
<1>5. InUse => Belongs'
  BY <1>2 DEF Upgrading, Belongs
<1> QED BY <1>s, <1>1, <1>2, <1>3, <1>4, <1>5, SameImage

LEMMA RestoreUpgrades ==
  ASSUME Typed, Locked, Upgrading, Restore PROVE Upgrading'
<1>t. file \in Content /\ wal \in Content \cup {None} /\ durable \in BOOLEAN
  BY DEF Typed, TypeOK
<1>s. Exact(Seen) /\ (file.health # "torn" => Seen.health # "torn")
  BY <1>t, SeenExact DEF Upgrading
<1>d. UNCHANGED <<app, at, txn>>
  BY DEF Restore, BeginRestore, RefuseRestore, SaveCurrent, ReplaceDatabase, ReplaceSettings,
     UnlinkLog, EndRestore, appVars
<1>1. \A p \in Apps : app[p] = "down"
  BY ServersDown, ProcessAssumption
  DEF Restore, BeginRestore, RefuseRestore, SaveCurrent, ReplaceDatabase, ReplaceSettings,
      UnlinkLog, EndRestore, RestoreStep, Acquire, Locked
<1>2. txn = None
  BY <1>1 DEF Upgrading
<1>3. Exact(Database(restores, BundleVersion))
  BY DEF Database, Exact
<1>4. \/ UNCHANGED <<file, wal>>
      \/ file' = Seen /\ wal' = None
      \/ file' = Database(restores, BundleVersion) /\ wal' = wal
      \/ file' = file /\ wal' = None
  BY DEF Restore, BeginRestore, RefuseRestore, SaveCurrent, ReplaceDatabase, ReplaceSettings,
     UnlinkLog, EndRestore, Closing, dataVars
<1>5. Recorded'
  BY <1>s, <1>d, <1>2, <1>3, <1>4 DEF Upgrading, Recorded, Exact
<1> QED BY <1>d, <1>1, <1>2, <1>5 DEF Upgrading, InUse

LEMMA UpgradingStep == Typed /\ Locked /\ Upgrading /\ [Next]_vars => Upgrading'
<1> SUFFICES ASSUME Typed, Locked, Upgrading, [Next]_vars PROVE Upgrading'
  OBVIOUS
<1>1. CASE KillRestore \/ KillReader \/ UNCHANGED vars
  <2>1. UNCHANGED <<app, at, txn, file, wal>>
    BY <1>1 DEF KillRestore, KillReader, appVars, dataVars, vars
  <2>2. Recorded' /\ Seen' = Seen /\ (InUse => Belongs')
    BY <2>1 DEF Upgrading, Recorded, Exact, Seen, Belongs
  <2> QED BY <2>1, <2>2, SameImage
<1>2. CASE PowerLoss
  <2>1. /\ \A p \in Apps : app'[p] = "down"
        /\ txn' = None /\ wal' = wal
        /\ file' \in {file, [file EXCEPT !.health = "torn"]}
    BY <1>2 DEF PowerLoss
  <2>2. Exact([file EXCEPT !.health = "torn"])
    BY DEF Typed, TypeOK, Content, Upgrading, Recorded, Exact
  <2>3. Recorded'
    BY <2>1, <2>2 DEF Upgrading, Recorded, Exact
  <2> QED BY <2>1, <2>3 DEF Upgrading, InUse
<1> QED
  BY <1>1, <1>2, ServeUpgrades, ReadersUpgrade, RestoreUpgrades DEF Next

LEMMA UpgradingInit == Init => Upgrading
<1> SUFFICES ASSUME Init PROVE Upgrading
  OBVIOUS
<1>1. Exact(file)
  BY DEF Init, Database, Exact
<1> QED BY <1>1 DEF Init, Upgrading, Recorded, InUse

\* A server that serves has every statement of every script and records the
\* last version, whatever died during earlier upgrades.
THEOREM ServesUpgraded == Spec => []UpExact
<1>1. Init => Typed /\ Locked /\ Upgrading
  BY TypedInit, UpgradingInit DEF Init, Typed, Locked
<1>2. Typed /\ Locked /\ Upgrading /\ [Next]_vars => (Typed /\ Locked /\ Upgrading)'
  BY TypedStep, LockedStep, UpgradingStep
<1>3. Typed /\ Upgrading => UpExact
  <2>1. Typed /\ Upgrading => Exact(Seen)
    BY SeenExact DEF Typed, TypeOK, Upgrading
  <2> QED BY <2>1 DEF Upgrading, UpExact, Exact
<1> QED BY <1>1, <1>2, <1>3, PTL DEF Spec

=============================================================================
