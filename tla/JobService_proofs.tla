--------------------------- MODULE JobService_proofs ---------------------------
(***************************************************************************)
(* What holds of a job for any number of requests in flight, any failure   *)
(* budget and any number of process deaths.                                *)
(***************************************************************************)
EXTENDS JobService, TLAPS

\* The registered task is the one inside _process.
Registered ==
  /\ pc \in [Tasks -> ProcessSteps]
  /\ active \in Tasks \cup {NoTask}
  /\ OneProcessor

-----------------------------------------------------------------------------
(***************************************************************************)
(* The shapes a step can have for the task slot.                           *)
(***************************************************************************)
\* A task is only let in while the slot is free.
LEMMA Entering ==
  ASSUME Registered, NEW t \in Tasks, NEW s \in ProcessSteps, Enter(t, s)
  PROVE  Registered'
<1>1. active = NoTask /\ active' = t /\ pc' = [pc EXCEPT ![t] = s]
  BY DEF Enter, Admitted
<1>2. \A u \in Tasks : pc[u] = "idle"
  BY <1>1, ProcessAssumption DEF Registered, OneProcessor
<1> QED
  BY <1>1, <1>2 DEF Registered, OneProcessor

\* A task that leaves frees the slot if it is its own.
LEMMA Leaving ==
  ASSUME Registered, NEW t \in Tasks, Exit(t)
  PROVE  Registered'
BY DEF Registered, OneProcessor, Exit, ProcessSteps

\* Only a task that is inside goes from step to step.
LEMMA Moving ==
  ASSUME Registered, NEW t \in Tasks, NEW p \in ProcessSteps,
         pc[t] # "idle", Goto(t, p), UNCHANGED active
  PROVE  Registered'
BY DEF Registered, OneProcessor, Goto

LEMMA Staying ==
  ASSUME Registered, UNCHANGED <<pc, active>>
  PROVE  Registered'
BY DEF Registered, OneProcessor

-----------------------------------------------------------------------------
\* The actions by which a task enters _process.
LEMMA StartsStep ==
  ASSUME Registered, NEW t \in Tasks, Starts(t)
  PROVE  Registered'
<1>1. PICK s \in ProcessSteps : Enter(t, s)
  BY Zenon DEF Starts, StartCreate, StartReconcile, StartPollQueued, StartPollRemote,
     StartPrepare, StartDeliver, StartCleanup, ProcessSteps, AfterRemote
<1> QED
  BY <1>1, Entering

\* The actions that end an attempt.
LEMMA EndsStep ==
  ASSUME Registered, NEW t \in Tasks,
         \/ FindTorrent(t) \/ FindQueued(t) \/ Created(t) \/ Enqueued(t)
         \/ PollQueuedBinds(t) \/ PollQueuedStarted(t) \/ PollQueuedWaits(t)
         \/ PollRemote(t) \/ PrepareDelivery(t) \/ Delivered(t) \/ Drop(t)
         \/ Errs(t) \/ Unwind(t) \/ CommitRefused(t)
  PROVE  Registered'
<1>1. Exit(t)
  BY DEF FindTorrent, FindQueued, Created, Enqueued, PollQueuedBinds,
     PollQueuedStarted, PollQueuedWaits, PollRemote, PrepareDelivery, Delivered, Drop,
     Errs, ReconcileFails, CreateFails, PollFails, DeliverFails, CleanupFails,
     FailFrom, FailSubmission, Fail, Succeed, BindTorrent, Unwind, CommitRefused, Leave
<1> QED
  BY <1>1, Leaving

\* The actions that go on inside an attempt.
LEMMA GoesOnStep ==
  ASSUME Registered, NEW t \in Tasks,
         \/ FindNothing(t) \/ FindQueuedNothing(t) \/ Serves(t)
         \/ RemoteDone(t) \/ Unlink(t) \/ LocalDone(t)
  PROVE  Registered'
<1>1. pc[t] # "idle" /\ UNCHANGED active
  BY DEF FindNothing, FindQueuedNothing, Serves, ServeCreate, ServeDelete, RemoteDone,
     Unlink, LocalDone, CleanupCommit, At
<1>2. \E p \in ProcessSteps : Goto(t, p)
  BY Zenon DEF FindNothing, FindQueuedNothing, Serves, ServeCreate, ServeDelete, RemoteDone,
     Unlink, LocalDone, CleanupCommit, AfterRemote, ProcessSteps
<1> QED
  BY <1>1, <1>2, Moving

\* The first progress callback either commits and goes on or ends the attempt.
LEMMA DeliveryStep ==
  ASSUME Registered, NEW t \in Tasks, DeliverProgress(t) \/ Publish(t)
  PROVE  Registered'
<1>1. CASE Exit(t)
  BY <1>1, Leaving
<1>2. CASE UNCHANGED <<pc, active>>
  BY <1>2, Staying
<1> QED
  BY <1>1, <1>2 DEF DeliverProgress, Publish, Leave, sessionVars

\* Requests never enter _process themselves: a removal calls process().
LEMMA ControlStep ==
  ASSUME Registered, NEW c \in Controllers, Request(c) \/ Control(c)
  PROVE  Registered'
<1>1. UNCHANGED <<pc, active>>
  BY DEF Request, Control, LoadForControl, Ignore, Pause, Resume, Retry, Remove,
     ControlCommit, ProcessRefused, ProcessReturns, ServeControl, ProviderAnswers,
     ProviderFails, ControlRefused, Ungate, gateVars, sessionVars
<1> QED
  BY <1>1, Staying

\* A process death empties the slot and every task.
LEMMA CrashStep ==
  ASSUME Registered, Crash
  PROVE  Registered'
BY DEF Registered, OneProcessor, Crash, ProcessSteps

LEMMA RegisteredStep == Registered /\ [Next]_vars => Registered'
<1> SUFFICES ASSUME Registered, [Next]_vars PROVE Registered'
  OBVIOUS
<1>1. CASE \E t \in Tasks : Process(t)
  <2>1. PICK t \in Tasks : Process(t)
    BY <1>1
  <2> QED
    BY <2>1, StartsStep, EndsStep, GoesOnStep, DeliveryStep DEF Process, Works
<1>2. CASE \E c \in Controllers : Request(c) \/ Control(c)
  BY <1>2, ControlStep
<1>3. CASE TorBoxStarts \/ TorBoxFinishes
  BY <1>3, Staying DEF TorBoxStarts, TorBoxFinishes, sessionVars
<1>4. CASE Crash
  BY <1>4, CrashStep
<1>5. CASE UNCHANGED vars
  BY <1>5, Staying DEF vars
<1> QED
  BY <1>1, <1>2, <1>3, <1>4, <1>5 DEF Next

\* At most one task is inside _process for a job, and it is the registered one
\* (service.py:346-355), whatever requests, cancellations and deaths intervene.
THEOREM SingleProcessor == Spec => []OneProcessor
<1>1. Init => Registered
  BY DEF Init, Registered, OneProcessor, ProcessSteps
<1>2. Registered => OneProcessor
  BY DEF Registered
<1> QED
  BY <1>1, <1>2, RegisteredStep, PTL DEF Spec

-----------------------------------------------------------------------------
(***************************************************************************)
(* Removal: a task of the cleanup knows no more than the row says, because *)
(* what a cleanup has done is never taken back by another session.         *)
(***************************************************************************)
\* A row whose counter of failures is not bounded.
AnyRow == [ctl : ControlStates, state : JobStates, submitting : BOOLEAN,
           remote : BOOLEAN, queued : BOOLEAN, files : BOOLEAN, failures : Nat,
           scope : Scopes, remoteDone : BOOLEAN, localDone : BOOLEAN,
           deleteFiles : BOOLEAN, requested : BOOLEAN]

Typed ==
  /\ row \in AnyRow
  /\ deleted \in BOOLEAN
  /\ view \in [Tasks -> AnyRow]
  /\ con \in [Controllers -> [step : ControlSteps, cmd : AllCommands \cup {"none"}]]

\* r grants what r0 does.
Grants(r0, r) ==
  /\ r0.remoteDone => r.remoteDone
  /\ r0.deleteFiles => r.deleteFiles

Inside ==
  /\ \A t \in Tasks : pc[t] # "idle" => ~deleted /\ Grants(view[t], row)
  /\ \A t \in Tasks : pc[t] = "unlink" => view[t].remoteDone /\ view[t].deleteFiles
  /\ \A c \in Controllers : pc[c] # "idle" => con[c].step = "inline"

Cleaning == Registered /\ Typed /\ Inside

RowGrows == row' \in AnyRow /\ Grants(row, row')

\* Only the columns that changed are written.
LEMMA MergedGrows ==
  ASSUME row \in AnyRow, NEW old \in AnyRow, NEW new \in AnyRow, Grants(old, new)
  PROVE  Merged(old, new) \in AnyRow /\ Grants(row, Merged(old, new))
BY DEF Merged, AnyRow, Column, Grants

LEMMA CommitGrows ==
  ASSUME Typed, NEW s \in Tasks, NEW new \in AnyRow, NEW moved,
         Grants(view[s], new), Commit(s, new, moved)
  PROVE  RowGrows
<1>1. view[s] \in AnyRow
  BY DEF Typed
<1>2. CASE CanCommit(s, moved)
  BY <1>1, <1>2, MergedGrows DEF Typed, Commit, RowGrows
<1>3. CASE ~CanCommit(s, moved)
  BY <1>3 DEF Typed, Commit, RowGrows, Grants
<1> QED
  BY <1>2, <1>3

LEMMA NewRowTyped == NewRow \in AnyRow
BY DEF NewRow, AnyRow, ControlStates, JobStates, Scopes

\* A task that leaves takes its session along.
LEMMA LeavingKeeps ==
  ASSUME Cleaning, NEW t \in Tasks, Exit(t), RowGrows, UNCHANGED deleted
  PROVE  Typed' /\ Inside'
<1>1. Typed'
  BY NewRowTyped DEF Cleaning, Typed, Exit, RowGrows
<1>2. \A u \in Tasks : pc'[u] # "idle" => u # t /\ pc[u] # "idle" /\ view'[u] = view[u] /\ pc'[u] = pc[u]
  BY DEF Cleaning, Registered, Typed, Exit
<1> QED
  BY <1>1, <1>2 DEF Cleaning, Inside, Exit, RowGrows, Grants, Tasks

\* A task that enters has just loaded the row.
LEMMA EnteringKeeps ==
  ASSUME Cleaning, NEW t \in Tasks, NEW s \in ProcessSteps, Enter(t, s), RowGrows,
         s = "unlink" => row'.remoteDone /\ row'.deleteFiles
  PROVE  Typed' /\ Inside'
<1>1. /\ pc' = [pc EXCEPT ![t] = s] /\ view' = [view EXCEPT ![t] = row']
      /\ ~deleted /\ UNCHANGED deleted
      /\ con' = IF t \in Controllers THEN [con EXCEPT ![t].step = "inline"] ELSE con
  BY DEF Enter
<1>2. Typed'
  BY <1>1 DEF Cleaning, Typed, RowGrows, ControlSteps
<1>3. \A u \in Tasks : u # t => pc'[u] = pc[u] /\ view'[u] = view[u]
  BY <1>1 DEF Cleaning, Registered, Typed
<1>4. pc'[t] = s /\ view'[t] = row'
  BY <1>1 DEF Cleaning, Registered, Typed
<1>5. \A c \in Controllers : con'[c].step = IF c = t THEN "inline" ELSE con[c].step
  BY <1>1 DEF Cleaning, Typed
<1>6. \A u \in Tasks : pc'[u] # "idle" => ~deleted' /\ Grants(view'[u], row')
  BY <1>1, <1>3, <1>4 DEF Cleaning, Inside, RowGrows, Grants
<1>7. \A u \in Tasks : pc'[u] = "unlink" => view'[u].remoteDone /\ view'[u].deleteFiles
  BY <1>3, <1>4 DEF Cleaning, Inside
<1>8. \A c \in Controllers : pc'[c] # "idle" => con'[c].step = "inline"
  BY <1>3, <1>5 DEF Cleaning, Inside, Tasks
<1> QED
  BY <1>2, <1>6, <1>7, <1>8 DEF Inside

\* A task that goes on with the session it has.
LEMMA MovingKeeps ==
  ASSUME Cleaning, NEW t \in Tasks, NEW p \in ProcessSteps, pc[t] # "idle", Goto(t, p),
         p # "unlink", UNCHANGED <<row, deleted, view, con>>
  PROVE  Typed' /\ Inside'
<1>1. Typed'
  BY DEF Cleaning, Typed
<1>2. \A u \in Tasks : pc'[u] = IF u = t THEN p ELSE pc[u]
  BY DEF Cleaning, Registered, Goto
<1> QED
  BY <1>1, <1>2 DEF Cleaning, Inside, Tasks

\* What a cleanup commits is in the row when it goes on.
LEMMA CleanupKeeps ==
  ASSUME Cleaning, NEW t \in Tasks, NEW new \in AnyRow, NEW p \in ProcessSteps,
         pc[t] # "idle", Grants(view[t], new), CleanupCommit(t, new, p),
         p = "unlink" => new.remoteDone /\ new.deleteFiles
  PROVE  RowGrows /\ Typed' /\ Inside'
<1>1. ~deleted /\ Grants(view[t], row) /\ view[t] \in AnyRow
  BY DEF Cleaning, Inside, Typed
<1>2. row' = Merged(view[t], new)
  BY <1>1 DEF CleanupCommit, Commit, CanCommit
<1>3. RowGrows
  BY <1>1, <1>2, MergedGrows DEF Cleaning, Typed, RowGrows
<1>4. Grants(new, row')
  BY <1>1, <1>2 DEF Merged, Column, Grants
<1>5. UNCHANGED <<deleted, con>> /\ view' = [view EXCEPT ![t] = new] /\ Goto(t, p)
  BY DEF CleanupCommit
<1>6. Typed'
  BY <1>3, <1>5 DEF Cleaning, Typed, RowGrows
<1>7. \A u \in Tasks : /\ pc'[u] = IF u = t THEN p ELSE pc[u]
                       /\ view'[u] = IF u = t THEN new ELSE view[u]
  BY <1>5 DEF Cleaning, Registered, Typed, Goto
<1>8. \A u \in Tasks : pc'[u] # "idle" => ~deleted' /\ Grants(view'[u], row')
  BY <1>1, <1>3, <1>4, <1>5, <1>7 DEF Cleaning, Inside, RowGrows, Grants
<1>9. \A u \in Tasks : pc'[u] = "unlink" => view'[u].remoteDone /\ view'[u].deleteFiles
  BY <1>7 DEF Cleaning, Inside
<1>10. \A c \in Controllers : pc'[c] # "idle" => con'[c].step = "inline"
  BY <1>5, <1>7 DEF Cleaning, Inside, Tasks
<1> QED
  BY <1>3, <1>6, <1>8, <1>9, <1>10 DEF Inside

\* A request that is not inside process() goes on to step n, with the session
\* v or with none.
LEMMA RequestKeeps ==
  ASSUME Cleaning, NEW c \in Controllers, NEW n \in ControlSteps,
         con[c].step # "inline" \/ pc[c] = "idle",
         Move(c, n), RowGrows, UNCHANGED <<pc, deleted>>,
         UNCHANGED view \/ (con[c].step # "inline" /\ \E v \in AnyRow : view' = [view EXCEPT ![c] = v])
  PROVE  Typed' /\ Inside'
<1>1. pc[c] = "idle"
  BY DEF Cleaning, Inside
<1>2. Typed'
  BY DEF Cleaning, Typed, RowGrows, Move, Tasks
<1>3. \A u \in Tasks : u # c => view'[u] = view[u]
  BY DEF Cleaning, Typed
<1>4. \A k \in Controllers : k # c => con'[k] = con[k]
  BY DEF Move, Cleaning, Typed
<1> QED
  BY <1>1, <1>2, <1>3, <1>4 DEF Cleaning, Inside, RowGrows, Grants, Tasks

-----------------------------------------------------------------------------
(***************************************************************************)
(* Every action has one of those shapes.                                   *)
(***************************************************************************)
LEMMA SameRow ==
  ASSUME Typed, UNCHANGED row
  PROVE  RowGrows
BY DEF Typed, RowGrows, Grants

LEMMA StartsClean ==
  ASSUME Cleaning, NEW t \in Tasks, Starts(t)
  PROVE  RowGrows /\ Typed' /\ Inside'
<1>1. CASE StartCreate(t)
  <2>1. RowGrows
    BY <1>1 DEF StartCreate, Cleaning, Typed, AnyRow, RowGrows, Grants
  <2>2. Enter(t, "create") /\ "create" \in ProcessSteps
    BY <1>1 DEF StartCreate, ProcessSteps
  <2> QED
    BY <2>1, <2>2, EnteringKeeps
<1>2. CASE ~StartCreate(t)
  <2>1. RowGrows
    BY <1>2, SameRow DEF Starts, StartReconcile, StartPollQueued, StartPollRemote,
       StartPrepare, StartDeliver, StartCleanup, Cleaning
  <2>2. CASE StartCleanup(t)
    <3> DEFINE s == IF row.remoteDone THEN AfterRemote(row)
                    ELSE IF HasIdentity(row) THEN "delete" ELSE "deleted"
    <3>1. Enter(t, s) /\ UNCHANGED row
      BY <2>2 DEF StartCleanup
    <3>2. s \in ProcessSteps
      BY DEF ProcessSteps, AfterRemote
    <3>3. s = "unlink" => row'.remoteDone /\ row'.deleteFiles
      BY <3>1 DEF AfterRemote
    <3> HIDE DEF s
    <3> QED
      BY <3>1, <3>2, <3>3, <2>1, EnteringKeeps
  <2>3. CASE ~StartCleanup(t)
    <3>1. PICK s \in ProcessSteps : Enter(t, s) /\ s # "unlink"
      BY <1>2, <2>3, Zenon DEF Starts, StartReconcile, StartPollQueued, StartPollRemote,
         StartPrepare, StartDeliver, ProcessSteps
    <3> QED
      BY <3>1, <2>1, EnteringKeeps
  <2> QED
    BY <2>2, <2>3
<1> QED
  BY <1>1, <1>2

\* An attempt ends with a commit of a row that grants what was loaded.
LEMMA SucceedClean ==
  ASSUME Cleaning, NEW t \in Tasks, NEW new \in AnyRow, NEW moved,
         Grants(view[t], new), Succeed(t, new, moved)
  PROVE  RowGrows /\ Typed' /\ Inside'
<1> DEFINE zero == [new EXCEPT !.failures = 0]
<1>1. zero \in AnyRow /\ Grants(view[t], zero)
  BY DEF AnyRow, Grants
<1>2. Commit(t, zero, moved) /\ Exit(t) /\ UNCHANGED deleted
  BY DEF Succeed, Leave
<1> HIDE DEF zero
<1>3. RowGrows
  BY <1>1, <1>2, CommitGrows DEF Cleaning
<1> QED
  BY <1>2, <1>3, LeavingKeeps

LEMMA FailClean ==
  ASSUME Cleaning, NEW t \in Tasks, NEW new \in AnyRow, NEW moved,
         Grants(view[t], new), Fail(t, new, moved)
  PROVE  RowGrows /\ Typed' /\ Inside'
<1>1. Commit(t, new, moved) /\ Exit(t) /\ UNCHANGED deleted
  BY DEF Fail, Leave
<1>2. RowGrows
  BY <1>1, CommitGrows DEF Cleaning
<1> QED
  BY <1>1, <1>2, LeavingKeeps

LEMMA AfterFailureGrants ==
  ASSUME NEW r \in AnyRow, NEW e
  PROVE  AfterFailure(r, e) \in AnyRow /\ Grants(r, AfterFailure(r, e))
<1>1. PICK s \in JobStates : AfterFailure(r, e) = [r EXCEPT !.failures = r.failures + 1, !.state = s]
  BY Zenon DEF AfterFailure, JobStates
<1>2. r.failures + 1 \in Nat
  BY DEF AnyRow
<1> DEFINE n == r.failures + 1
<1> HIDE DEF n
<1>3. [r EXCEPT !.failures = n, !.state = s] \in AnyRow
  BY <1>2, <1>1 DEF AnyRow, n
<1>4. Grants(r, [r EXCEPT !.failures = n, !.state = s])
  BY <1>2, <1>1 DEF AnyRow, Grants
<1> QED
  BY <1>1, <1>3, <1>4 DEF n

\* The rows a successful attempt writes.
LEMMA MovedGrants ==
  ASSUME NEW r \in AnyRow, NEW s \in JobStates, NEW b1 \in BOOLEAN, NEW b2 \in BOOLEAN
  PROVE  /\ MoveTo(r, s) \in AnyRow /\ Grants(r, MoveTo(r, s))
         /\ LET m == [MoveTo(r, s) EXCEPT !.remote = b1, !.submitting = b2]
            IN  m \in AnyRow /\ Grants(r, m)
         /\ LET m == [MoveTo(r, s) EXCEPT !.queued = b1, !.submitting = b2]
            IN  m \in AnyRow /\ Grants(r, m)
         /\ LET m == [MoveTo(r, s) EXCEPT !.queued = b1, !.remote = b2]
            IN  m \in AnyRow /\ Grants(r, m)
         /\ LET m == [MoveTo(r, s) EXCEPT !.remote = b1]
            IN  m \in AnyRow /\ Grants(r, m)
         /\ LET m == [MoveTo(r, s) EXCEPT !.files = b1]
            IN  m \in AnyRow /\ Grants(r, m)
BY DEF MoveTo, AnyRow, Grants

LEMMA AppliedGrants ==
  ASSUME NEW r \in AnyRow
  PROVE  Applied(r) \in AnyRow /\ Grants(r, Applied(r))
BY DEF Applied, AnyRow, Grants, JobStates

LEMMA BindClean ==
  ASSUME Cleaning, NEW t \in Tasks, BindTorrent(t)
  PROVE  RowGrows /\ Typed' /\ Inside'
<1> DEFINE new == Applied(view[t])
<1>1. new \in AnyRow /\ Grants(view[t], new)
  BY AppliedGrants DEF Cleaning, Typed
<1>2. Succeed(t, new, new.state # view[t].state)
  BY DEF BindTorrent
<1> HIDE DEF new
<1> QED
  BY <1>1, <1>2, SucceedClean

LEMMA FailsClean ==
  ASSUME Cleaning, NEW t \in Tasks, NEW p, NEW e,
         FailFrom(t, p, e) \/ FailSubmission(t, p, e)
  PROVE  RowGrows /\ Typed' /\ Inside'
<1> DEFINE failed == AfterFailure(view[t], e)
<1>1. failed \in AnyRow /\ Grants(view[t], failed)
  BY AfterFailureGrants DEF Cleaning, Typed
<1>2. CASE FailFrom(t, p, e)
  <2>1. Fail(t, failed, failed.state # view[t].state)
    BY <1>2 DEF FailFrom
  <2> HIDE DEF failed
  <2> QED
    BY <1>1, <2>1, FailClean
<1>3. CASE FailSubmission(t, p, e)
  <2> DEFINE b == IF e \in Rejections THEN FALSE ELSE failed.submitting
  <2>1. b \in BOOLEAN
    BY <1>1 DEF AnyRow
  <2> DEFINE new == [failed EXCEPT !.submitting = b]
  <2>2. Fail(t, new, new.state # view[t].state)
    BY <1>3 DEF FailSubmission
  <2> HIDE DEF failed, b
  <2>3. new \in AnyRow /\ Grants(view[t], new)
    BY <1>1, <2>1 DEF AnyRow, Grants
  <2> HIDE DEF new
  <2> QED
    BY <2>2, <2>3, FailClean
<1> QED
  BY <1>2, <1>3

LEMMA WorksClean ==
  ASSUME Cleaning, NEW t \in Tasks,
         \/ FindTorrent(t) \/ FindQueued(t) \/ Created(t) \/ Enqueued(t)
         \/ PollQueuedBinds(t) \/ PollQueuedStarted(t) \/ PollQueuedWaits(t)
         \/ PollRemote(t) \/ PrepareDelivery(t) \/ Delivered(t)
  PROVE  RowGrows /\ Typed' /\ Inside'
<1>0. view[t] \in AnyRow
  BY DEF Cleaning, Typed
<1>1. CASE FindTorrent(t) \/ PollQueuedBinds(t) \/ PollRemote(t)
  BY <1>1, BindClean DEF FindTorrent, PollQueuedBinds, PollRemote
<1>2. CASE FindQueued(t)
  <2> DEFINE s   == IF OnTorBox THEN "provider_downloading" ELSE "provider_queued"
             new == [MoveTo(view[t], s) EXCEPT !.queued = TRUE, !.remote = OnTorBox]
  <2>1. s \in JobStates /\ OnTorBox \in BOOLEAN
    BY DEF JobStates, OnTorBox
  <2>2. Succeed(t, new, new.state # view[t].state)
    BY <1>2 DEF FindQueued
  <2> HIDE DEF s
  <2>3. new \in AnyRow /\ Grants(view[t], new)
    BY <1>0, <2>1, MovedGrants
  <2> HIDE DEF new
  <2> QED
    BY <2>2, <2>3, SucceedClean
<1>3. CASE Created(t)
  <2> DEFINE new == [MoveTo(view[t], "provider_downloading") EXCEPT
                      !.remote = TRUE, !.submitting = FALSE]
  <2>1. new \in AnyRow /\ Grants(view[t], new)
    BY <1>0, MovedGrants DEF JobStates, OnTorBox
  <2>2. Succeed(t, new, new.state # view[t].state)
    BY <1>3 DEF Created
  <2> HIDE DEF new
  <2> QED
    BY <2>1, <2>2, SucceedClean
<1>4. CASE Enqueued(t)
  <2> DEFINE new == [MoveTo(view[t], "provider_queued") EXCEPT
                      !.queued = TRUE, !.submitting = FALSE]
  <2>1. new \in AnyRow /\ Grants(view[t], new)
    BY <1>0, MovedGrants DEF JobStates, OnTorBox
  <2>2. Succeed(t, new, new.state # view[t].state)
    BY <1>4 DEF Enqueued
  <2> HIDE DEF new
  <2> QED
    BY <2>1, <2>2, SucceedClean
<1>5. CASE PollQueuedStarted(t)
  <2> DEFINE new == [MoveTo(view[t], "provider_downloading") EXCEPT !.remote = TRUE]
  <2>1. new \in AnyRow /\ Grants(view[t], new)
    BY <1>0, MovedGrants DEF JobStates, OnTorBox
  <2>2. Succeed(t, new, new.state # view[t].state)
    BY <1>5 DEF PollQueuedStarted
  <2> HIDE DEF new
  <2> QED
    BY <2>1, <2>2, SucceedClean
<1>6. CASE PollQueuedWaits(t)
  <2> DEFINE new == MoveTo(view[t], "provider_queued")
  <2>1. new \in AnyRow /\ Grants(view[t], new)
    BY <1>0, MovedGrants DEF JobStates, OnTorBox
  <2>2. Succeed(t, new, new.state # view[t].state)
    BY <1>6 DEF PollQueuedWaits
  <2> HIDE DEF new
  <2> QED
    BY <2>1, <2>2, SucceedClean
<1>7. CASE PrepareDelivery(t)
  <2> DEFINE new == [MoveTo(view[t], "delivering") EXCEPT !.files = TRUE]
  <2>1. new \in AnyRow /\ Grants(view[t], new)
    BY <1>0, MovedGrants DEF JobStates, OnTorBox
  <2>2. Succeed(t, new, TRUE)
    BY <1>7 DEF PrepareDelivery
  <2> HIDE DEF new
  <2> QED
    BY <2>1, <2>2, SucceedClean
<1>8. CASE Delivered(t)
  <2> DEFINE new == MoveTo(view[t], "completed")
  <2>1. new \in AnyRow /\ Grants(view[t], new)
    BY <1>0, MovedGrants DEF JobStates, OnTorBox
  <2>2. Succeed(t, new, TRUE)
    BY <1>8 DEF Delivered
  <2> HIDE DEF new
  <2> QED
    BY <2>1, <2>2, SucceedClean
<1> QED
  BY <1>1, <1>2, <1>3, <1>4, <1>5, <1>6, <1>7, <1>8

LEMMA ErrsClean ==
  ASSUME Cleaning, NEW t \in Tasks, Errs(t) \/ Unwind(t) \/ CommitRefused(t)
  PROVE  RowGrows /\ Typed' /\ Inside'
<1>1. CASE ReconcileFails(t) \/ CreateFails(t) \/ PollFails(t)
  <2>1. \E p, e : FailFrom(t, p, e) \/ FailSubmission(t, p, e)
    BY <1>1, Zenon DEF ReconcileFails, CreateFails, PollFails
  <2> QED
    BY <2>1, FailsClean
<1>2. CASE DeliverFails(t)
  <2>1. PICK e : Fail(t, AfterFailure(view[t], e), TRUE)
    BY <1>2 DEF DeliverFails
  <2>2. AfterFailure(view[t], e) \in AnyRow /\ Grants(view[t], AfterFailure(view[t], e))
    BY AfterFailureGrants DEF Cleaning, Typed
  <2> QED
    BY <2>1, <2>2, FailClean
<1>3. CASE CleanupFails(t) \/ Unwind(t) \/ CommitRefused(t)
  <2>1. RowGrows
    BY <1>3, SameRow DEF CleanupFails, Unwind, CommitRefused, Cleaning
  <2>2. Exit(t) /\ UNCHANGED deleted
    BY <1>3 DEF CleanupFails, Unwind, CommitRefused, Leave
  <2> QED
    BY <2>1, <2>2, LeavingKeeps
<1> QED
  BY <1>1, <1>2, <1>3 DEF Errs

\* The row goes while no other task is inside.
LEMMA DropClean ==
  ASSUME Cleaning, NEW t \in Tasks, Drop(t)
  PROVE  RowGrows /\ Typed' /\ Inside'
<1>1. RowGrows
  BY SameRow DEF Drop, Cleaning
<1>2. Exit(t) /\ deleted' = TRUE
  BY DEF Drop, Leave
<1>3. Typed'
  BY <1>1, <1>2, NewRowTyped DEF Cleaning, Typed, Exit, RowGrows
<1>4. pc[t] # "idle"
  BY DEF Drop, At
<1>5. \A u \in Tasks : pc'[u] = "idle"
  BY <1>2, <1>4 DEF Cleaning, Registered, OneProcessor, Exit
<1> QED
  BY <1>1, <1>3, <1>5 DEF Inside, Tasks

LEMMA GoesOnClean ==
  ASSUME Cleaning, NEW t \in Tasks,
         FindNothing(t) \/ FindQueuedNothing(t) \/ Serves(t) \/ Unlink(t)
  PROVE  RowGrows /\ Typed' /\ Inside'
<1>1. pc[t] # "idle" /\ UNCHANGED <<row, deleted, view, con>>
  BY DEF FindNothing, FindQueuedNothing, Serves, ServeCreate, ServeDelete, Unlink, At
<1>2. \E p \in ProcessSteps : p # "unlink" /\ Goto(t, p)
  BY Zenon DEF FindNothing, FindQueuedNothing, Serves, ServeCreate, ServeDelete, Unlink,
     ProcessSteps
<1> QED
  BY <1>1, <1>2, MovingKeeps, SameRow DEF Cleaning

LEMMA CleanupClean ==
  ASSUME Cleaning, NEW t \in Tasks, RemoteDone(t) \/ LocalDone(t)
  PROVE  RowGrows /\ Typed' /\ Inside'
<1>0. view[t] \in AnyRow
  BY DEF Cleaning, Typed
<1>1. CASE RemoteDone(t)
  <2> DEFINE new == [view[t] EXCEPT !.remoteDone = TRUE]
  <2>1. new \in AnyRow /\ Grants(view[t], new) /\ new.remoteDone
    BY <1>0 DEF AnyRow, Grants
  <2>2. /\ AfterRemote(view[t]) \in ProcessSteps
        /\ AfterRemote(view[t]) = "unlink" => new.deleteFiles
    BY <1>0 DEF AfterRemote, ProcessSteps, AnyRow
  <2>3. CleanupCommit(t, new, AfterRemote(view[t])) /\ pc[t] # "idle"
    BY <1>1 DEF RemoteDone, At
  <2> HIDE DEF new
  <2> QED
    BY <2>1, <2>2, <2>3, CleanupKeeps
<1>2. CASE LocalDone(t)
  <2> DEFINE new == [view[t] EXCEPT !.localDone = TRUE]
  <2>1. new \in AnyRow /\ Grants(view[t], new) /\ "drop" \in ProcessSteps
    BY <1>0 DEF AnyRow, Grants, ProcessSteps
  <2>2. CleanupCommit(t, new, "drop") /\ pc[t] # "idle"
    BY <1>2 DEF LocalDone, At
  <2> HIDE DEF new
  <2> QED
    BY <2>1, <2>2, CleanupKeeps
<1> QED
  BY <1>1, <1>2

\* The first progress callback commits the phase and goes on, or ends the attempt.
LEMMA DeliverClean ==
  ASSUME Cleaning, NEW t \in Tasks, DeliverProgress(t) \/ Publish(t)
  PROVE  RowGrows /\ Typed' /\ Inside'
<1>1. CASE Publish(t)
  BY <1>1, SameRow DEF Publish, sessionVars, Cleaning, Typed, Inside, RowGrows, Grants
<1>2. CASE DeliverProgress(t)
  <2> DEFINE new   == MoveTo(view[t], "delivering")
             moved == view[t].state # "delivering"
  <2>1. new \in AnyRow /\ Grants(view[t], new)
    BY MovedGrants DEF Cleaning, Typed, JobStates
  <2>2. Commit(t, new, moved) /\ UNCHANGED deleted /\ At(t, "deliver")
    BY <1>2 DEF DeliverProgress, Leave
  <2>3. IF CanCommit(t, moved)
          THEN view' = [view EXCEPT ![t] = new] /\ UNCHANGED <<pc, active, con>>
          ELSE Exit(t)
    BY <1>2 DEF DeliverProgress, Leave
  <2>4. new.remoteDone = view[t].remoteDone /\ new.deleteFiles = view[t].deleteFiles
    BY DEF MoveTo, Cleaning, Typed, AnyRow
  <2> HIDE DEF new, moved
  <2>5. RowGrows
    BY <2>1, <2>2, CommitGrows DEF Cleaning
  <2>6. CASE CanCommit(t, moved)
    <3>1. Typed'
      BY <2>1, <2>2, <2>3, <2>5, <2>6 DEF Cleaning, Typed, RowGrows
    <3>2. \A u \in Tasks : view'[u] = IF u = t THEN new ELSE view[u]
      BY <2>3, <2>6 DEF Cleaning, Typed
    <3> QED
      BY <2>2, <2>3, <2>4, <2>5, <2>6, <3>1, <3>2 DEF Cleaning, Inside, RowGrows, Grants
  <2>7. CASE ~CanCommit(t, moved)
    BY <2>2, <2>3, <2>5, <2>7, LeavingKeeps
  <2> QED
    BY <2>5, <2>6, <2>7
<1> QED
  BY <1>1, <1>2

\* A request that commits what grants the row it loaded.
LEMMA CommandClean ==
  ASSUME Cleaning, NEW c \in Controllers, NEW new \in AnyRow, NEW moved \in BOOLEAN,
         NEW next \in ControlSteps, con[c].step = "loaded",
         Grants(view[c], new), ControlCommit(c, new, moved, next)
  PROVE  RowGrows /\ Typed' /\ Inside'
<1>1. Commit(c, new, moved) /\ UNCHANGED <<pc, deleted>> /\ view' = [view EXCEPT ![c] = NewRow]
  BY DEF ControlCommit
<1>2. PICK n \in ControlSteps : Move(c, n)
  BY Zenon DEF ControlCommit, ControlSteps
<1>3. RowGrows
  BY <1>1, CommitGrows DEF Cleaning, Tasks
<1> QED
  BY <1>1, <1>2, <1>3, NewRowTyped, RequestKeeps

LEMMA DecidesClean ==
  ASSUME Cleaning, NEW c \in Controllers, Ignore(c) \/ Pause(c) \/ Resume(c) \/ Retry(c)
  PROVE  RowGrows /\ Typed' /\ Inside'
<1> DEFINE r == view[c]
<1>0. r \in AnyRow /\ con[c].step = "loaded"
  BY DEF Cleaning, Typed, Tasks, Ignore, Pause, Resume, Retry, Decides
<1>1. CASE Ignore(c)
  <2>1. ControlCommit(c, r, FALSE, "ungate") /\ "ungate" \in ControlSteps /\ Grants(r, r)
    BY <1>1 DEF Ignore, ControlSteps, Grants
  <2> QED
    BY <1>0, <2>1, CommandClean
<1>2. CASE Pause(c)
  <2> DEFINE new  == [r EXCEPT !.ctl = "paused", !.scope = "local"]
             next == IF r.remote /\ r.state = "provider_downloading"
                       THEN "provider" ELSE "ungate"
  <2>1. new \in AnyRow /\ Grants(r, new)
    BY <1>0 DEF AnyRow, Grants, ControlStates, Scopes
  <2>2. next \in ControlSteps
    BY DEF ControlSteps
  <2>3. ControlCommit(c, new, FALSE, next)
    BY <1>2 DEF Pause
  <2> HIDE DEF new, next
  <2> QED
    BY <1>0, <2>1, <2>2, <2>3, CommandClean
<1>3. CASE Resume(c)
  <2> DEFINE new  == [r EXCEPT !.ctl = "running", !.scope = "none"]
             next == IF r.remote /\ r.scope = "local_and_provider"
                       THEN "provider" ELSE "ungate"
  <2>1. new \in AnyRow /\ Grants(r, new)
    BY <1>0 DEF AnyRow, Grants, ControlStates, Scopes
  <2>2. next \in ControlSteps
    BY DEF ControlSteps
  <2>3. ControlCommit(c, new, FALSE, next)
    BY <1>3 DEF Resume
  <2> HIDE DEF new, next
  <2> QED
    BY <1>0, <2>1, <2>2, <2>3, CommandClean
<1>4. CASE Retry(c)
  <2> DEFINE s   == RetryState(r)
             new == [r EXCEPT !.ctl = "running", !.failures = 0, !.state = s]
  <2>1. s \in JobStates /\ "ungate" \in ControlSteps
    BY DEF RetryState, JobStates, ControlSteps
  <2>2. ControlCommit(c, new, TRUE, "ungate")
    BY <1>4 DEF Retry
  <2> HIDE DEF s
  <2>3. new \in AnyRow /\ Grants(r, new)
    BY <1>0, <2>1 DEF AnyRow, Grants, ControlStates
  <2> HIDE DEF new
  <2> QED
    BY <1>0, <2>1, <2>2, <2>3, CommandClean
<1> QED
  BY <1>1, <1>2, <1>3, <1>4

\* A removal only ever adds the wish to delete the files.
LEMMA RemoveClean ==
  ASSUME Cleaning, NEW c \in Controllers, Remove(c)
  PROVE  RowGrows /\ Typed' /\ Inside'
<1> DEFINE r   == view[c]
           b   == r.deleteFiles \/ con[c].cmd = "remove_files"
           new == [r EXCEPT !.ctl = "removing", !.requested = TRUE, !.deleteFiles = b]
<1>1. r \in AnyRow /\ con[c].step = "loaded"
  BY DEF Cleaning, Typed, Tasks, Remove, Decides
<1>2. b \in BOOLEAN /\ (r.deleteFiles => b)
  OBVIOUS
<1>3. CASE ControlCommit(c, new, FALSE, "process")
  <2> HIDE DEF b
  <2>1. new \in AnyRow /\ Grants(r, new) /\ "process" \in ControlSteps
    BY <1>1, <1>2 DEF AnyRow, Grants, ControlStates, ControlSteps
  <2> HIDE DEF new
  <2> QED
    BY <1>1, <1>3, <2>1, CommandClean
<1>4. CASE Move(c, "ungate") /\ view' = [view EXCEPT ![c] = NewRow] /\ UNCHANGED <<row, deleted, pc>>
  <2>1. RowGrows /\ "ungate" \in ControlSteps
    BY <1>4, SameRow DEF Cleaning, ControlSteps
  <2> QED
    BY <1>1, <1>4, <2>1, NewRowTyped, RequestKeeps
<1> QED
  BY <1>3, <1>4 DEF Remove

LEMMA LoadsClean ==
  ASSUME Cleaning, NEW c \in Controllers, LoadForControl(c)
  PROVE  RowGrows /\ Typed' /\ Inside'
<1>1. RowGrows /\ row \in AnyRow
  BY SameRow DEF LoadForControl, Cleaning, Typed
<1>2. PICK n \in ControlSteps : Move(c, n)
  BY Zenon DEF LoadForControl, ControlSteps
<1>3. UNCHANGED view \/ view' = [view EXCEPT ![c] = row]
  BY DEF LoadForControl
<1>4. UNCHANGED <<pc, deleted>> /\ con[c].step # "inline"
  BY DEF LoadForControl
<1> QED
  BY <1>1, <1>2, <1>3, <1>4, RequestKeeps

\* The answer of TorBox to a pause or a resume changes two other columns.
LEMMA AnswersClean ==
  ASSUME Cleaning, NEW c \in Controllers,
         \/ ProcessRefused(c) \/ ProcessReturns(c) \/ ServeControl(c)
         \/ ProviderAnswers(c) \/ ProviderFails(c)
  PROVE  RowGrows /\ Typed' /\ Inside'
<1>0. row \in AnyRow
  BY DEF Cleaning, Typed
<1>1. RowGrows
  <2>1. CASE ProviderAnswers(c)
    <3> DEFINE s == IF con[c].cmd = "pause" THEN "local_and_provider" ELSE "none"
    <3>1. s \in Scopes
      BY DEF Scopes
    <3>2. row' = row \/ row' = [row EXCEPT !.scope = s]
      BY <2>1 DEF ProviderAnswers
    <3> HIDE DEF s
    <3> QED
      BY <1>0, <3>1, <3>2 DEF AnyRow, RowGrows, Grants
  <2>2. CASE ProviderFails(c)
    <3>1. row' = row \/ row' = [row EXCEPT !.ctl = "paused"]
      BY <2>2 DEF ProviderFails
    <3> QED
      BY <1>0, <3>1 DEF AnyRow, RowGrows, Grants, ControlStates
  <2>3. CASE ProcessRefused(c) \/ ProcessReturns(c) \/ ServeControl(c)
    BY <2>3, SameRow DEF ProcessRefused, ProcessReturns, ServeControl, Cleaning
  <2> QED
    BY <2>1, <2>2, <2>3
<1>2. \E n \in ControlSteps : Move(c, n)
  BY Zenon DEF ProcessRefused, ProcessReturns, ServeControl, ProviderAnswers, ProviderFails,
     ControlSteps
<1>3. UNCHANGED <<pc, deleted, view>> /\ (con[c].step # "inline" \/ pc[c] = "idle")
  BY DEF ProcessRefused, ProcessReturns, ServeControl, ProviderAnswers, ProviderFails,
     sessionVars
<1> QED
  BY <1>1, <1>2, <1>3, RequestKeeps

\* A refused commit closes the session of the request.
LEMMA RefusedClean ==
  ASSUME Cleaning, NEW c \in Controllers, ControlRefused(c)
  PROVE  RowGrows /\ Typed' /\ Inside'
<1>1. RowGrows /\ "ungate" \in ControlSteps
  BY SameRow DEF ControlRefused, Cleaning, ControlSteps
<1>2. /\ Move(c, "ungate") /\ view' = [view EXCEPT ![c] = NewRow]
      /\ UNCHANGED <<pc, deleted>> /\ con[c].step # "inline"
  BY DEF ControlRefused
<1> QED
  BY <1>1, <1>2, NewRowTyped, RequestKeeps

\* A request begins and ends outside process().
LEMMA BoundsClean ==
  ASSUME Cleaning, NEW c \in Controllers, Request(c) \/ Ungate(c)
  PROVE  RowGrows /\ Typed' /\ Inside'
<1>1. RowGrows /\ UNCHANGED <<row, pc, deleted, view>>
  BY SameRow DEF Request, Ungate, sessionVars, Cleaning
<1>2. PICK k \in [step : ControlSteps, cmd : AllCommands \cup {"none"}] :
        con' = [con EXCEPT ![c] = k]
  BY CommandAssumption DEF Request, Ungate, Idle, ControlSteps
<1>3. con[c].step # "inline"
  BY DEF Request, Ungate
<1>4. pc[c] = "idle"
  BY <1>3 DEF Cleaning, Inside
<1>5. Typed'
  BY <1>1, <1>2 DEF Cleaning, Typed, RowGrows
<1>6. \A d \in Controllers : d # c => con'[d] = con[d]
  BY <1>2 DEF Cleaning, Typed
<1> QED
  BY <1>1, <1>4, <1>5, <1>6 DEF Cleaning, Inside

LEMMA CrashClean ==
  ASSUME Cleaning, Crash
  PROVE  RowGrows /\ Typed' /\ Inside'
<1>1. RowGrows /\ UNCHANGED deleted
  BY SameRow DEF Crash, Cleaning
<1>2. Idle \in [step : ControlSteps, cmd : AllCommands \cup {"none"}]
  BY DEF Idle, ControlSteps
<1>3. Typed'
  BY <1>1, <1>2, NewRowTyped DEF Crash, Cleaning, Typed, RowGrows
<1> QED
  BY <1>1, <1>3 DEF Crash, Inside, Tasks

LEMMA CleaningStep ==
  ASSUME Cleaning, [Next]_vars
  PROVE  RowGrows /\ Cleaning'
<1>1. Registered'
  BY RegisteredStep DEF Cleaning
<1>2. RowGrows /\ Typed' /\ Inside'
  <2>1. CASE \E t \in Tasks : Process(t)
    <3>1. PICK t \in Tasks : Process(t)
      BY <2>1
    <3> QED
      BY <3>1, StartsClean, WorksClean, ErrsClean, DropClean, GoesOnClean, CleanupClean,
         DeliverClean DEF Process, Works
  <2>2. CASE \E c \in Controllers : Request(c) \/ Control(c)
    <3>1. PICK c \in Controllers : Request(c) \/ Control(c)
      BY <2>2
    <3> QED
      BY <3>1, LoadsClean, DecidesClean, RemoveClean, AnswersClean, RefusedClean, BoundsClean
        DEF Control
  <2>3. CASE TorBoxStarts \/ TorBoxFinishes \/ UNCHANGED vars
    <3>1. UNCHANGED <<row, deleted, pc, view, con>>
      BY <2>3 DEF TorBoxStarts, TorBoxFinishes, vars, sessionVars
    <3> QED
      BY <3>1, SameRow DEF Cleaning, Typed, Inside
  <2>4. CASE Crash
    BY <2>4, CrashClean
  <2> QED
    BY <2>1, <2>2, <2>3, <2>4 DEF Next
<1> QED
  BY <1>1, <1>2 DEF Cleaning

LEMMA CleaningInit == Init => Cleaning
<1> SUFFICES ASSUME Init PROVE Cleaning
  OBVIOUS
<1>1. Registered
  BY DEF Init, Registered, OneProcessor, ProcessSteps
<1>2. Typed
  BY NewRowTyped DEF Init, Typed, Idle, ControlSteps
<1>3. Inside
  BY DEF Init, Inside, Tasks
<1> QED
  BY <1>1, <1>2, <1>3 DEF Cleaning

\* Only the unlink of a cleanup empties the disk.
LEMMA OnlyUnlinkEmpties ==
  ASSUME Cleaning, [Next]_vars, disk' = "none", disk # "none"
  PROVE  \E t \in Tasks : pc[t] = "unlink"
<1>1. CASE \E t \in Tasks : Process(t)
  <2>1. PICK t \in Tasks : Process(t)
    BY <1>1
  <2>2. CASE Unlink(t)
    BY <2>2 DEF Unlink, At
  <2>3. CASE DeliverProgress(t) \/ Publish(t)
    BY <2>3 DEF DeliverProgress, Publish
  <2>4. CASE Starts(t)
    BY <2>4 DEF Starts, StartCreate, StartReconcile, StartPollQueued, StartPollRemote,
       StartPrepare, StartDeliver, StartCleanup, Enter
  <2>5. CASE Errs(t) \/ Serves(t) \/ Unwind(t) \/ CommitRefused(t)
    BY <2>5 DEF Errs, ReconcileFails, CreateFails, PollFails, DeliverFails, CleanupFails,
       FailFrom, FailSubmission, Fail, Serves, ServeCreate, ServeDelete, Unwind,
       CommitRefused
  <2>6. CASE Works(t) /\ ~Unlink(t) /\ ~Publish(t)
    BY <2>6 DEF Works, FindTorrent, FindNothing, FindQueued, FindQueuedNothing, Created,
       Enqueued, PollQueuedBinds, PollQueuedStarted, PollQueuedWaits, PollRemote,
       PrepareDelivery, Delivered, RemoteDone, LocalDone, Drop, CleanupCommit, Succeed,
       BindTorrent
  <2> QED
    BY <2>1, <2>2, <2>3, <2>4, <2>5, <2>6 DEF Process
<1>2. CASE \E c \in Controllers : Request(c) \/ Control(c)
  BY <1>2 DEF Request, Control, LoadForControl, Ignore, Pause, Resume, Retry, Remove,
     ControlCommit, ProcessRefused, ProcessReturns, ServeControl, ProviderAnswers,
     ProviderFails, ControlRefused, Ungate
<1>3. CASE TorBoxStarts \/ TorBoxFinishes \/ Crash \/ UNCHANGED vars
  BY <1>3 DEF TorBoxStarts, TorBoxFinishes, Crash, vars
<1> QED
  BY <1>1, <1>2, <1>3 DEF Next

\* Local artefacts of a delivery go only after TorBox has let go of the torrent
\* and only if a removal asked for it (service.py:938-975), with any number of
\* requests in flight, stale sessions and process deaths.
THEOREM LocalFilesLast == Spec => LocalAfterRemote
<1> DEFINE Last == disk' = "none" /\ disk # "none" => row.remoteDone /\ row.deleteFiles
<1>1. Cleaning /\ [Next]_vars => [Last]_vars
  <2> SUFFICES ASSUME Cleaning, [Next]_vars, disk' = "none", disk # "none"
               PROVE  row.remoteDone /\ row.deleteFiles
    OBVIOUS
  <2>1. PICK t \in Tasks : pc[t] = "unlink"
    BY OnlyUnlinkEmpties
  <2> QED
    BY <2>1 DEF Cleaning, Inside, Grants
<1>2. Cleaning /\ [Next]_vars => Cleaning'
  BY CleaningStep
<1> QED
  BY <1>1, <1>2, CleaningInit, PTL DEF Spec, LocalAfterRemote

-----------------------------------------------------------------------------
(***************************************************************************)
(* The budget of failures: a counter that is written over a row another    *)
(* session changed still fits the phase, because phases only move on fresh *)
(* sessions and only the task at work schedules a retry.                   *)
(***************************************************************************)
\* The counter fits the phase.
Counted(r) ==
  /\ r.failures <= MaxFailures
  /\ r.state \notin Terminal => r.failures < MaxFailures
  /\ r.state \in {"retry_wait", "failed"} => r.failures > 0

\* A session that is not stale knows the phase.
Fresh == \A s \in Readers : s \notin stale => view[s].state = row.state

Working == ProcessSteps \ {"idle", "delete", "deleted", "unlink", "unlinked", "drop"}

\* The phase of a job at work is open, and no retry is scheduled behind the
\* back of its task.
AtWork ==
  \A t \in Tasks : pc[t] \in Working =>
    /\ view[t].state \notin Terminal /\ row.state \notin Terminal
    /\ row.state = "retry_wait" => view[t].state = "retry_wait"

Counts == Counted(row) /\ \A t \in Tasks : Counted(view[t])

Budgeted == Cleaning /\ Counts /\ Fresh /\ AtWork

LEMMA NewRowCounted == Counted(NewRow)
BY BoundAssumption DEF Counted, NewRow

LEMMA OthersIdle ==
  ASSUME Registered, NEW t \in Tasks, pc[t] # "idle"
  PROVE  \A u \in Tasks : u # t => pc[u] = "idle"
BY DEF Registered, OneProcessor

\* What the commit of a task at work leaves in the row.
LEMMA CommitCounted ==
  ASSUME Budgeted, NEW t \in Tasks, pc[t] \in Working,
         NEW new \in AnyRow, NEW moved \in BOOLEAN, Counted(new),
         moved \/ new.state = view[t].state,
         new.failures = view[t].failures => new.state \notin {"retry_wait", "failed"},
         Commit(t, new, moved)
  PROVE  /\ Counted(row')
         /\ IF moved /\ CanCommit(t, moved) THEN row'.state = new.state
                                            ELSE row'.state = row.state
<1>1. /\ view[t] \in AnyRow /\ row \in AnyRow /\ Counted(row) /\ Counted(view[t])
      /\ view[t].state \notin Terminal /\ row.state \notin Terminal
      /\ row.state = "retry_wait" => view[t].state = "retry_wait"
  BY DEF Budgeted, Cleaning, Typed, Counts, AtWork
<1>2. t \notin stale => view[t].state = row.state
  BY DEF Budgeted, Fresh, Readers, Working
<1>3. CASE ~CanCommit(t, moved)
  BY <1>1, <1>3 DEF Commit
<1>4. CASE CanCommit(t, moved)
  <2>1. row' = Merged(view[t], new)
    BY <1>4 DEF Commit
  <2>2. /\ row'.state = Column(view[t].state, new.state, row.state)
        /\ row'.failures = Column(view[t].failures, new.failures, row.failures)
    BY <2>1 DEF Merged
  <2>3. row.failures \in Nat /\ new.failures \in Nat /\ view[t].failures \in Nat /\ MaxFailures \in Nat
    BY <1>1, BoundAssumption DEF AnyRow
  <2>4. CASE moved
    <3>1. view[t].state = row.state
      BY <1>2, <1>4, <2>4 DEF CanCommit
    <3>2. row'.state = new.state
      BY <2>2, <3>1 DEF Column
    <3>3. CASE new.failures # view[t].failures
      <4>1. row'.failures = new.failures
        BY <2>2, <3>3 DEF Column
      <4> QED
        BY <1>4, <2>4, <3>2, <4>1 DEF Counted
    <3>4. CASE new.failures = view[t].failures
      <4>1. row'.failures = row.failures
        BY <2>2, <3>4 DEF Column
      <4>2. Counted(row')
        BY <1>1, <2>3, <3>2, <3>4, <4>1 DEF Counted
      <4> QED
        BY <1>4, <2>4, <3>2, <4>2
    <3> QED
      BY <3>3, <3>4
  <2>5. CASE ~moved
    <3>1. row'.state = row.state /\ new.state = view[t].state
      BY <2>2, <2>5 DEF Column
    <3>2. CASE new.failures # view[t].failures
      <4>1. row'.failures = new.failures
        BY <2>2, <3>2 DEF Column
      <4>2. Counted(row')
        BY <1>1, <3>1, <4>1 DEF Counted, Terminal
      <4> QED
        BY <2>5, <3>1, <4>2
    <3>3. CASE new.failures = view[t].failures
      <4>1. row'.failures = row.failures
        BY <2>2, <3>3 DEF Column
      <4> QED
        BY <1>1, <2>5, <3>1, <4>1 DEF Counted
    <3> QED
      BY <3>2, <3>3
  <2> QED
    BY <2>4, <2>5
<1> QED
  BY <1>3, <1>4

\* A task that leaves.
LEMMA LeavingCounts ==
  ASSUME Budgeted, NEW t \in Tasks, pc[t] # "idle", NEW moved \in BOOLEAN,
         Exit(t), stale' = Overtaken(t, moved) \ {t}, Counted(row'),
         row'.state = row.state \/ (moved /\ CanCommit(t, moved))
  PROVE  Counts' /\ Fresh' /\ AtWork'
<1>1. /\ pc' = [pc EXCEPT ![t] = "idle"] /\ view' = [view EXCEPT ![t] = NewRow]
      /\ UNCHANGED con
  BY DEF Exit
<1>2. \A u \in Tasks : /\ pc'[u] = IF u = t THEN "idle" ELSE pc[u]
                       /\ view'[u] = IF u = t THEN NewRow ELSE view[u]
  BY <1>1 DEF Budgeted, Cleaning, Registered, Typed
<1>3. Counts'
  BY <1>2, NewRowCounted DEF Budgeted, Counts
<1>4. \A u \in Tasks : pc'[u] = "idle"
  BY <1>2, OthersIdle DEF Budgeted, Cleaning
<1>5. AtWork'
  BY <1>4 DEF AtWork, Working
<1>6. Fresh'
  <2> SUFFICES ASSUME NEW s \in Readers', s \notin stale' PROVE view'[s].state = row'.state
    BY DEF Fresh
  <2>1. s \in Controllers /\ con[s].step = "loaded" /\ s \in Tasks
    BY <1>1, <1>4 DEF Readers, Tasks
  <2>2. s # t
    BY <2>1 DEF Budgeted, Cleaning, Inside
  <2>3. s \in Readers /\ view'[s] = view[s]
    BY <1>2, <2>1, <2>2 DEF Readers
  <2>4. s \notin stale /\ ~(moved /\ CanCommit(t, moved))
    BY <2>2, <2>3 DEF Overtaken
  <2> QED
    BY <2>3, <2>4 DEF Budgeted, Fresh
<1> QED
  BY <1>3, <1>5, <1>6

LEMMA EndsCounts ==
  ASSUME Budgeted, NEW t \in Tasks, pc[t] \in Working,
         NEW new \in AnyRow, NEW moved \in BOOLEAN, Counted(new),
         moved \/ new.state = view[t].state,
         new.failures = view[t].failures => new.state \notin {"retry_wait", "failed"},
         Commit(t, new, moved), stale' = Overtaken(t, moved) \ {t}, Exit(t)
  PROVE  Counts' /\ Fresh' /\ AtWork'
<1>1. pc[t] # "idle"
  BY DEF Working
<1>2. Counted(row') /\ (row'.state = row.state \/ (moved /\ CanCommit(t, moved)))
  BY CommitCounted
<1> QED
  BY <1>1, <1>2, LeavingCounts

LEMMA QuitsCounts ==
  ASSUME Budgeted, NEW t \in Tasks, pc[t] # "idle",
         UNCHANGED row, stale' = stale \ {t}, Exit(t)
  PROVE  Counts' /\ Fresh' /\ AtWork'
<1>1. Counted(row') /\ stale' = Overtaken(t, FALSE) \ {t}
  BY DEF Budgeted, Counts, Overtaken
<1> QED
  BY <1>1, LeavingCounts

\* A task that enters has a session of its own on the row it works for.
LEMMA EnteringCounts ==
  ASSUME Budgeted, NEW t \in Tasks, NEW s \in ProcessSteps, Enter(t, s),
         row'.state = row.state, row'.failures = row.failures,
         s \in Working => row.state \notin Terminal
  PROVE  Counts' /\ Fresh' /\ AtWork'
<1>1. /\ pc' = [pc EXCEPT ![t] = s] /\ view' = [view EXCEPT ![t] = row']
      /\ stale' = stale \ {t}
      /\ con' = IF t \in Controllers THEN [con EXCEPT ![t].step = "inline"] ELSE con
      /\ active = NoTask
  BY DEF Enter, Admitted
<1>2. \A u \in Tasks : pc[u] = "idle"
  BY <1>1, ProcessAssumption DEF Budgeted, Cleaning, Registered, OneProcessor
<1>3. \A u \in Tasks : /\ pc'[u] = IF u = t THEN s ELSE "idle"
                       /\ view'[u] = IF u = t THEN row' ELSE view[u]
  BY <1>1, <1>2 DEF Budgeted, Cleaning, Registered, Typed
<1>4. Counted(row')
  BY DEF Budgeted, Counts, Counted
<1>5. Counts'
  BY <1>3, <1>4 DEF Budgeted, Counts
<1>6. AtWork'
  BY <1>3 DEF AtWork, Working
<1>7. Fresh'
  <2> SUFFICES ASSUME NEW u \in Readers', u \notin stale', u # t
               PROVE  view'[u].state = row'.state
    BY <1>3, Zenon DEF Fresh, Readers
  <2>1. u \in Controllers /\ con'[u].step = "loaded" /\ u \in Tasks
    BY <1>3 DEF Readers, Tasks
  <2>2. con[u].step = "loaded"
    BY <1>1, <2>1 DEF Budgeted, Cleaning, Typed
  <2>3. u \in Readers /\ u \notin stale /\ view'[u] = view[u]
    BY <1>1, <1>3, <2>1, <2>2 DEF Readers
  <2> QED
    BY <2>3 DEF Budgeted, Fresh
<1> QED
  BY <1>5, <1>6, <1>7

LEMMA StartsCounts ==
  ASSUME Budgeted, NEW t \in Tasks, Starts(t)
  PROVE  Counts' /\ Fresh' /\ AtWork'
<1>1. row'.state = row.state /\ row'.failures = row.failures
  BY DEF Starts, StartCreate, StartReconcile, StartPollQueued, StartPollRemote,
     StartPrepare, StartDeliver, StartCleanup, Budgeted, Cleaning, Typed, AnyRow
<1>2. CASE StartCleanup(t)
  <2> DEFINE s == IF row.remoteDone THEN AfterRemote(row)
                  ELSE IF HasIdentity(row) THEN "delete" ELSE "deleted"
  <2>1. Enter(t, s)
    BY <1>2 DEF StartCleanup
  <2>2. s \in ProcessSteps /\ s \notin Working
    BY DEF ProcessSteps, Working, AfterRemote
  <2> HIDE DEF s
  <2> QED
    BY <1>1, <2>1, <2>2, EnteringCounts
<1>3. CASE ~StartCleanup(t)
  <2>1. Runnable(row)
    BY <1>3 DEF Starts, StartCreate, StartReconcile, StartPollQueued, StartPollRemote,
       StartPrepare, StartDeliver, NextIsSubmit, NextIsPollQueued, NextIsPollRemote,
       NextIsPrepare, NextIsDeliver
  <2>2. PICK s \in ProcessSteps : Enter(t, s)
    BY <1>3, Zenon DEF Starts, StartCreate, StartReconcile, StartPollQueued,
       StartPollRemote, StartPrepare, StartDeliver, ProcessSteps
  <2> QED
    BY <1>1, <2>1, <2>2, EnteringCounts DEF Runnable
<1> QED
  BY <1>2, <1>3

\* Success resets the counter and never schedules a retry.
LEMMA SucceedCounts ==
  ASSUME Budgeted, NEW t \in Tasks, pc[t] \in Working,
         NEW new \in AnyRow, NEW moved \in BOOLEAN,
         new.state \notin {"retry_wait", "failed"},
         moved \/ new.state = view[t].state, Succeed(t, new, moved)
  PROVE  Counts' /\ Fresh' /\ AtWork'
<1> DEFINE zero == [new EXCEPT !.failures = 0]
<1>1. zero \in AnyRow /\ zero.state = new.state /\ zero.failures = 0
  BY DEF AnyRow
<1>2. Commit(t, zero, moved) /\ stale' = Overtaken(t, moved) \ {t} /\ Exit(t)
  BY DEF Succeed, Leave
<1> HIDE DEF zero
<1>3. Counted(zero)
  BY <1>1, BoundAssumption DEF Counted
<1> QED
  BY <1>1, <1>2, <1>3, EndsCounts

\* A failure is counted, and a retry is scheduled while the budget lasts.
LEMMA FailCounts ==
  ASSUME Budgeted, NEW t \in Tasks, pc[t] \in Working, NEW e,
         NEW new \in AnyRow, NEW moved \in BOOLEAN,
         new.failures = AfterFailure(view[t], e).failures,
         new.state = AfterFailure(view[t], e).state,
         moved \/ new.state = view[t].state, Fail(t, new, moved)
  PROVE  Counts' /\ Fresh' /\ AtWork'
<1>1. view[t] \in AnyRow /\ Counted(view[t]) /\ view[t].state \notin Terminal
  BY DEF Budgeted, Cleaning, Typed, Counts, AtWork
<1>2. PICK s : /\ AfterFailure(view[t], e) = [view[t] EXCEPT !.failures = view[t].failures + 1, !.state = s]
               /\ \/ s = "retry_wait" /\ view[t].failures + 1 < MaxFailures
                  \/ s = "failed"
  BY Zenon DEF AfterFailure
<1>3. new.failures = view[t].failures + 1 /\ new.state = s
  BY <1>1, <1>2 DEF AnyRow
<1>4. view[t].failures \in Nat /\ MaxFailures \in Nat /\ view[t].failures < MaxFailures
  BY <1>1, BoundAssumption DEF AnyRow, Counted
<1>5. Counted(new)
  BY <1>2, <1>3, <1>4 DEF Counted, Terminal
<1>6. new.failures # view[t].failures
  BY <1>3, <1>4
<1>7. Commit(t, new, moved) /\ stale' = Overtaken(t, moved) \ {t} /\ Exit(t)
  BY DEF Fail, Leave
<1> QED
  BY <1>5, <1>6, <1>7, EndsCounts

LEMMA BindCounts ==
  ASSUME Budgeted, NEW t \in Tasks, pc[t] \in Working, BindTorrent(t)
  PROVE  Counts' /\ Fresh' /\ AtWork'
<1> DEFINE new == Applied(view[t])
<1>1. new \in AnyRow
  BY AppliedGrants DEF Budgeted, Cleaning, Typed
<1>2. new.state \notin {"retry_wait", "failed"}
  BY DEF Applied, Budgeted, Cleaning, Typed, AnyRow
<1>3. Succeed(t, new, new.state # view[t].state)
  BY DEF BindTorrent
<1> HIDE DEF new
<1> QED
  BY <1>1, <1>2, <1>3, SucceedCounts

LEMMA WorksCounts ==
  ASSUME Budgeted, NEW t \in Tasks,
         \/ FindTorrent(t) \/ FindQueued(t) \/ Created(t) \/ Enqueued(t)
         \/ PollQueuedBinds(t) \/ PollQueuedStarted(t) \/ PollQueuedWaits(t)
         \/ PollRemote(t) \/ PrepareDelivery(t) \/ Delivered(t)
  PROVE  Counts' /\ Fresh' /\ AtWork'
<1>0. view[t] \in AnyRow
  BY DEF Budgeted, Cleaning, Typed
<1>1. CASE FindTorrent(t) \/ PollQueuedBinds(t) \/ PollRemote(t)
  <2>1. BindTorrent(t) /\ pc[t] \in Working
    BY <1>1 DEF FindTorrent, PollQueuedBinds, PollRemote, At, Working, ProcessSteps
  <2> QED
    BY <2>1, BindCounts
<1>2. CASE FindQueued(t)
  <2> DEFINE s   == IF OnTorBox THEN "provider_downloading" ELSE "provider_queued"
             new == [MoveTo(view[t], s) EXCEPT !.queued = TRUE, !.remote = OnTorBox]
  <2>1. s \in JobStates \ {"retry_wait", "failed"} /\ OnTorBox \in BOOLEAN
    BY DEF JobStates, OnTorBox
  <2>2. Succeed(t, new, new.state # view[t].state) /\ pc[t] \in Working
    BY <1>2 DEF FindQueued, At, Working, ProcessSteps
  <2> HIDE DEF s
  <2>3. new \in AnyRow /\ new.state \notin {"retry_wait", "failed"}
    BY <1>0, <2>1 DEF AnyRow, MoveTo
  <2> HIDE DEF new
  <2> QED
    BY <2>2, <2>3, SucceedCounts
<1>3. CASE Created(t)
  <2> DEFINE new == [MoveTo(view[t], "provider_downloading") EXCEPT
                      !.remote = TRUE, !.submitting = FALSE]
  <2>1. new \in AnyRow /\ new.state \notin {"retry_wait", "failed"}
    BY <1>0 DEF AnyRow, MoveTo, JobStates
  <2>2. Succeed(t, new, new.state # view[t].state) /\ pc[t] \in Working
    BY <1>3 DEF Created, At, Working, ProcessSteps
  <2> HIDE DEF new
  <2> QED
    BY <2>1, <2>2, SucceedCounts
<1>4. CASE Enqueued(t)
  <2> DEFINE new == [MoveTo(view[t], "provider_queued") EXCEPT
                      !.queued = TRUE, !.submitting = FALSE]
  <2>1. new \in AnyRow /\ new.state \notin {"retry_wait", "failed"}
    BY <1>0 DEF AnyRow, MoveTo, JobStates
  <2>2. Succeed(t, new, new.state # view[t].state) /\ pc[t] \in Working
    BY <1>4 DEF Enqueued, At, Working, ProcessSteps
  <2> HIDE DEF new
  <2> QED
    BY <2>1, <2>2, SucceedCounts
<1>5. CASE PollQueuedStarted(t)
  <2> DEFINE new == [MoveTo(view[t], "provider_downloading") EXCEPT !.remote = TRUE]
  <2>1. new \in AnyRow /\ new.state \notin {"retry_wait", "failed"}
    BY <1>0 DEF AnyRow, MoveTo, JobStates
  <2>2. Succeed(t, new, new.state # view[t].state) /\ pc[t] \in Working
    BY <1>5 DEF PollQueuedStarted, At, Working, ProcessSteps
  <2> HIDE DEF new
  <2> QED
    BY <2>1, <2>2, SucceedCounts
<1>6. CASE PollQueuedWaits(t)
  <2> DEFINE new == MoveTo(view[t], "provider_queued")
  <2>1. new \in AnyRow /\ new.state \notin {"retry_wait", "failed"}
    BY <1>0 DEF AnyRow, MoveTo, JobStates
  <2>2. Succeed(t, new, new.state # view[t].state) /\ pc[t] \in Working
    BY <1>6 DEF PollQueuedWaits, At, Working, ProcessSteps
  <2> HIDE DEF new
  <2> QED
    BY <2>1, <2>2, SucceedCounts
<1>7. CASE PrepareDelivery(t)
  <2> DEFINE new == [MoveTo(view[t], "delivering") EXCEPT !.files = TRUE]
  <2>1. new \in AnyRow /\ new.state \notin {"retry_wait", "failed"}
    BY <1>0 DEF AnyRow, MoveTo, JobStates
  <2>2. Succeed(t, new, TRUE) /\ pc[t] \in Working
    BY <1>7 DEF PrepareDelivery, At, Working, ProcessSteps
  <2> HIDE DEF new
  <2> QED
    BY <2>1, <2>2, SucceedCounts
<1>8. CASE Delivered(t)
  <2> DEFINE new == MoveTo(view[t], "completed")
  <2>1. new \in AnyRow /\ new.state \notin {"retry_wait", "failed"}
    BY <1>0 DEF AnyRow, MoveTo, JobStates
  <2>2. Succeed(t, new, TRUE) /\ pc[t] \in Working
    BY <1>8 DEF Delivered, At, Working, ProcessSteps
  <2> HIDE DEF new
  <2> QED
    BY <2>1, <2>2, SucceedCounts
<1> QED
  BY <1>1, <1>2, <1>3, <1>4, <1>5, <1>6, <1>7, <1>8

LEMMA FailsCounts ==
  ASSUME Budgeted, NEW t \in Tasks, NEW p \in Working, NEW e,
         FailFrom(t, p, e) \/ FailSubmission(t, p, e)
  PROVE  Counts' /\ Fresh' /\ AtWork'
<1> DEFINE failed == AfterFailure(view[t], e)
<1>1. failed \in AnyRow /\ pc[t] \in Working
  BY AfterFailureGrants DEF Budgeted, Cleaning, Typed, FailFrom, FailSubmission, At
<1>2. CASE FailFrom(t, p, e)
  <2>1. Fail(t, failed, failed.state # view[t].state)
    BY <1>2 DEF FailFrom
  <2> HIDE DEF failed
  <2> QED
    BY <1>1, <2>1, FailCounts DEF failed
<1>3. CASE FailSubmission(t, p, e)
  <2> DEFINE b   == IF e \in Rejections THEN FALSE ELSE failed.submitting
             new == [failed EXCEPT !.submitting = b]
  <2>1. b \in BOOLEAN
    BY <1>1 DEF AnyRow
  <2>2. Fail(t, new, new.state # view[t].state)
    BY <1>3 DEF FailSubmission
  <2> HIDE DEF failed, b
  <2>3. new \in AnyRow /\ new.state = failed.state /\ new.failures = failed.failures
    BY <1>1, <2>1 DEF AnyRow
  <2> HIDE DEF new
  <2> QED
    BY <1>1, <2>2, <2>3, FailCounts DEF failed
<1> QED
  BY <1>2, <1>3

LEMMA ErrsCounts ==
  ASSUME Budgeted, NEW t \in Tasks,
         Errs(t) \/ Unwind(t) \/ CommitRefused(t) \/ Drop(t)
  PROVE  Counts' /\ Fresh' /\ AtWork'
<1>1. CASE ReconcileFails(t) \/ CreateFails(t) \/ PollFails(t)
  <2>1. \E p \in Working : \E e : FailFrom(t, p, e) \/ FailSubmission(t, p, e)
    BY <1>1, Zenon DEF ReconcileFails, CreateFails, PollFails, Working, ProcessSteps
  <2> QED
    BY <2>1, FailsCounts
<1>2. CASE DeliverFails(t)
  <2>1. PICK e : Fail(t, AfterFailure(view[t], e), TRUE) /\ pc[t] \in Working
    BY <1>2 DEF DeliverFails, At, Working, ProcessSteps
  <2>2. AfterFailure(view[t], e) \in AnyRow
    BY AfterFailureGrants DEF Budgeted, Cleaning, Typed
  <2> QED
    BY <2>1, <2>2, FailCounts
<1>3. CASE CleanupFails(t) \/ Unwind(t) \/ CommitRefused(t) \/ Drop(t)
  <2>1. pc[t] # "idle" /\ UNCHANGED row /\ stale' = stale \ {t} /\ Exit(t)
    BY <1>3 DEF CleanupFails, Unwind, CommitRefused, CommitPoints, Drop, At, Leave
  <2> QED
    BY <2>1, QuitsCounts
<1> QED
  BY <1>1, <1>2, <1>3 DEF Errs

\* Steps that leave the phases and the counters alone.
LEMMA StillCounts ==
  ASSUME Budgeted, UNCHANGED <<stale, con>>,
         row'.state = row.state, row'.failures = row.failures,
         \A u \in Tasks : /\ view'[u].state = view[u].state
                          /\ view'[u].failures = view[u].failures
                          /\ pc'[u] = "idle" <=> pc[u] = "idle"
                          /\ pc'[u] \in Working => pc[u] \in Working
  PROVE  Counts' /\ Fresh' /\ AtWork'
<1>1. Counts' /\ AtWork'
  BY DEF Budgeted, Counts, Counted, AtWork
<1>2. Fresh'
  <2>1. Readers' = Readers /\ Readers \subseteq Tasks
    BY DEF Readers, Tasks
  <2> QED
    BY <2>1 DEF Budgeted, Fresh
<1> QED
  BY <1>1, <1>2

LEMMA GoesOnCounts ==
  ASSUME Budgeted, NEW t \in Tasks,
         FindNothing(t) \/ FindQueuedNothing(t) \/ Serves(t) \/ Unlink(t)
  PROVE  Counts' /\ Fresh' /\ AtWork'
<1>1. pc[t] # "idle" /\ UNCHANGED <<row, view, stale, con>>
  BY DEF FindNothing, FindQueuedNothing, Serves, ServeCreate, ServeDelete, Unlink, At
<1>2. PICK p : Goto(t, p) /\ p # "idle" /\ (p \in Working => pc[t] \in Working)
  BY Zenon DEF FindNothing, FindQueuedNothing, Serves, ServeCreate, ServeDelete, Unlink,
     At, Working, ProcessSteps
<1>3. \A u \in Tasks : pc'[u] = IF u = t THEN p ELSE pc[u]
  BY <1>2 DEF Goto, Budgeted, Cleaning, Registered
<1> QED
  BY <1>1, <1>2, <1>3, StillCounts

LEMMA CleanupCounts ==
  ASSUME Budgeted, NEW t \in Tasks, RemoteDone(t) \/ LocalDone(t)
  PROVE  Counts' /\ Fresh' /\ AtWork'
<1>0. view[t] \in AnyRow /\ row \in AnyRow
  BY DEF Budgeted, Cleaning, Typed
<1>1. PICK new, p : /\ CleanupCommit(t, new, p) /\ p \in {"unlink", "drop"}
                    /\ \/ new = [view[t] EXCEPT !.remoteDone = TRUE]
                       \/ new = [view[t] EXCEPT !.localDone = TRUE]
  BY Zenon DEF RemoteDone, LocalDone, AfterRemote
<1>2. new.state = view[t].state /\ new.failures = view[t].failures
  BY <1>0, <1>1 DEF AnyRow
<1>3. row'.state = row.state /\ row'.failures = row.failures
  BY <1>1, <1>2 DEF CleanupCommit, Commit, Merged, Column
<1>4. \A u \in Tasks : /\ pc'[u] = IF u = t THEN p ELSE pc[u]
                       /\ view'[u] = IF u = t THEN new ELSE view[u]
  BY <1>1 DEF CleanupCommit, Goto, Budgeted, Cleaning, Registered, Typed
<1>5. UNCHANGED <<stale, con>> /\ pc[t] # "idle"
  BY <1>1 DEF CleanupCommit, RemoteDone, LocalDone, At
<1>6. p # "idle" /\ p \notin Working
  BY <1>1 DEF Working
<1> QED
  BY <1>2, <1>3, <1>4, <1>5, <1>6, StillCounts

LEMMA DeliverCounts ==
  ASSUME Budgeted, NEW t \in Tasks, DeliverProgress(t) \/ Publish(t)
  PROVE  Counts' /\ Fresh' /\ AtWork'
<1>1. CASE Publish(t)
  BY <1>1, StillCounts DEF Publish, sessionVars
<1>2. CASE DeliverProgress(t)
  <2> DEFINE new   == MoveTo(view[t], "delivering")
             moved == view[t].state # "delivering"
  <2>1. /\ Commit(t, new, moved) /\ pc[t] \in Working
        /\ stale' = IF CanCommit(t, moved) THEN Overtaken(t, moved) ELSE stale \ {t}
        /\ IF CanCommit(t, moved)
             THEN view' = [view EXCEPT ![t] = new] /\ UNCHANGED <<pc, active, con>>
             ELSE Exit(t)
    BY <1>2 DEF DeliverProgress, Leave, At, Working, ProcessSteps
  <2>2. /\ new \in AnyRow /\ new.state = "delivering" /\ new.failures = view[t].failures
        /\ Counted(view[t]) /\ view[t].state \notin Terminal
    BY <2>1 DEF MoveTo, Budgeted, Cleaning, Typed, Counts, AtWork, AnyRow, JobStates
  <2>3. Counted(new) /\ moved \in BOOLEAN /\ (moved \/ new.state = view[t].state)
    BY <2>2 DEF Counted
  <2>4. pc[t] # "idle"
    BY <2>1 DEF Working
  <2> HIDE DEF new, moved
  <2>5. /\ Counted(row')
        /\ IF moved /\ CanCommit(t, moved) THEN row'.state = new.state
                                           ELSE row'.state = row.state
    BY <2>1, <2>2, <2>3, CommitCounted
  <2>6. CASE ~CanCommit(t, moved)
    <3>1. row' = row /\ stale' = stale \ {t} /\ Exit(t)
      BY <2>1, <2>6 DEF Commit
    <3> QED
      BY <2>4, <3>1, QuitsCounts
  <2>7. CASE CanCommit(t, moved)
    <3>1. view' = [view EXCEPT ![t] = new] /\ UNCHANGED <<pc, con>> /\ stale' = Overtaken(t, moved)
      BY <2>1, <2>7
    <3>2. \A u \in Tasks : view'[u] = IF u = t THEN new ELSE view[u]
      BY <3>1 DEF Budgeted, Cleaning, Typed
    <3>3. Counts'
      BY <2>3, <2>5, <3>2 DEF Budgeted, Counts
    <3>4. \A u \in Tasks : u # t => pc'[u] \notin Working
      BY <2>4, <3>1, OthersIdle DEF Budgeted, Cleaning, Working
    <3>5. AtWork'
      BY <2>1, <2>2, <2>3, <2>5, <2>7, <3>2, <3>4 DEF AtWork, Budgeted, Terminal
    <3>6. Readers' = Readers /\ Readers \subseteq Tasks
      BY <3>1 DEF Readers, Tasks
    <3>7. Fresh'
      BY <2>3, <2>5, <2>7, <3>1, <3>2, <3>6 DEF Budgeted, Fresh, Overtaken
    <3> QED
      BY <3>3, <3>5, <3>7
  <2> QED
    BY <2>6, <2>7
<1> QED
  BY <1>1, <1>2

\* A request: it loads the row, commits a phase, or leaves phases alone.
LEMMA RequestCounts ==
  ASSUME Budgeted, NEW c \in Controllers, UNCHANGED pc, pc[c] = "idle",
         \A u \in Tasks : u # c => view'[u] = view[u],
         Counted(view'[c]), Counted(row'),
         \A d \in Controllers : d # c => con'[d] = con[d],
         con'[c].step = "loaded" => view'[c] = row /\ row' = row,
         stale \ {c} \subseteq stale',
         \/ row'.state = row.state
         \/ Readers \ {c} \subseteq stale' /\ row'.state \notin Terminal \cup {"retry_wait"}
  PROVE  Counts' /\ Fresh' /\ AtWork'
<1>1. Counts'
  BY DEF Budgeted, Counts
<1>2. AtWork'
  BY DEF Budgeted, AtWork, Working
<1>3. Fresh'
  <2> SUFFICES ASSUME NEW s \in Readers', s \notin stale' PROVE view'[s].state = row'.state
    BY DEF Fresh
  <2>1. CASE s = c
    BY <2>1 DEF Readers
  <2>2. CASE s # c
    <3>1. s \in Readers /\ s \notin stale /\ s \in Tasks
      BY <2>2 DEF Readers, Tasks
    <3> QED
      BY <2>2, <3>1 DEF Budgeted, Fresh
  <2> QED
    BY <2>1, <2>2
<1> QED
  BY <1>1, <1>2, <1>3

\* A command that says nothing about the phase.
LEMMA CommandCounts ==
  ASSUME Budgeted, NEW c \in Controllers, con[c].step = "loaded",
         NEW new, new.state = view[c].state, new.failures = view[c].failures,
         NEW next \in ControlSteps \ {"loaded"}, ControlCommit(c, new, FALSE, next)
  PROVE  Counts' /\ Fresh' /\ AtWork'
<1>1. /\ Commit(c, new, FALSE) /\ stale' = stale \ {c} /\ UNCHANGED pc
      /\ view' = [view EXCEPT ![c] = NewRow]
  BY DEF ControlCommit, Overtaken
<1>2. row'.state = row.state /\ row'.failures = row.failures
  BY <1>1 DEF Commit, Merged, Column
<1> DEFINE n == IF CanCommit(c, FALSE) THEN next ELSE "ungate"
<1>3. Move(c, n) /\ n # "loaded"
  BY DEF ControlCommit
<1> HIDE DEF n
<1>4. c \in Tasks /\ pc[c] = "idle"
  BY DEF Tasks, Budgeted, Cleaning, Inside
<1>5. /\ \A u \in Tasks : view'[u] = IF u = c THEN NewRow ELSE view[u]
      /\ \A d \in Controllers : d # c => con'[d] = con[d]
      /\ con'[c].step = n
  BY <1>1, <1>3 DEF Move, Budgeted, Cleaning, Typed
<1>6. Counted(row') /\ Counted(view'[c])
  BY <1>2, <1>4, <1>5, NewRowCounted DEF Budgeted, Counts, Counted
<1> QED
  BY <1>1, <1>2, <1>3, <1>4, <1>5, <1>6, RequestCounts

LEMMA DecidesCounts ==
  ASSUME Budgeted, NEW c \in Controllers,
         Ignore(c) \/ Pause(c) \/ Resume(c) \/ Remove(c)
  PROVE  Counts' /\ Fresh' /\ AtWork'
<1> DEFINE r == view[c]
<1>0. r \in AnyRow /\ con[c].step = "loaded" /\ c \in Tasks
  BY DEF Budgeted, Cleaning, Typed, Tasks, Ignore, Pause, Resume, Remove, Decides
<1>1. CASE Ignore(c)
  <2>1. ControlCommit(c, r, FALSE, "ungate") /\ "ungate" \in ControlSteps \ {"loaded"}
    BY <1>1 DEF Ignore, ControlSteps
  <2> QED
    BY <1>0, <2>1, CommandCounts
<1>2. CASE Pause(c)
  <2> DEFINE new  == [r EXCEPT !.ctl = "paused", !.scope = "local"]
             next == IF r.remote /\ r.state = "provider_downloading"
                       THEN "provider" ELSE "ungate"
  <2>1. ControlCommit(c, new, FALSE, next)
    BY <1>2 DEF Pause
  <2>2. new.state = r.state /\ new.failures = r.failures /\ next \in ControlSteps \ {"loaded"}
    BY <1>0 DEF AnyRow, ControlSteps
  <2> HIDE DEF new, next
  <2> QED
    BY <1>0, <2>1, <2>2, CommandCounts
<1>3. CASE Resume(c)
  <2> DEFINE new  == [r EXCEPT !.ctl = "running", !.scope = "none"]
             next == IF r.remote /\ r.scope = "local_and_provider"
                       THEN "provider" ELSE "ungate"
  <2>1. ControlCommit(c, new, FALSE, next)
    BY <1>3 DEF Resume
  <2>2. new.state = r.state /\ new.failures = r.failures /\ next \in ControlSteps \ {"loaded"}
    BY <1>0 DEF AnyRow, ControlSteps
  <2> HIDE DEF new, next
  <2> QED
    BY <1>0, <2>1, <2>2, CommandCounts
<1>4. CASE Remove(c)
  <2> DEFINE b   == r.deleteFiles \/ con[c].cmd = "remove_files"
             new == [r EXCEPT !.ctl = "removing", !.requested = TRUE, !.deleteFiles = b]
  <2>1. CASE ControlCommit(c, new, FALSE, "process")
    <3> HIDE DEF b
    <3>1. new.state = r.state /\ new.failures = r.failures
      BY <1>0 DEF AnyRow
    <3>2. "process" \in ControlSteps \ {"loaded"}
      BY DEF ControlSteps
    <3> HIDE DEF new
    <3> QED
      BY <1>0, <2>1, <3>1, <3>2, CommandCounts
  <2>2. CASE /\ Move(c, "ungate") /\ view' = [view EXCEPT ![c] = NewRow]
             /\ stale' = stale \ {c} /\ UNCHANGED <<row, pc>>
    <3>1. /\ \A u \in Tasks : view'[u] = IF u = c THEN NewRow ELSE view[u]
          /\ \A d \in Controllers : d # c => con'[d] = con[d]
          /\ con'[c].step = "ungate"
      BY <2>2 DEF Move, Budgeted, Cleaning, Typed
    <3>2. pc[c] = "idle"
      BY <1>0 DEF Budgeted, Cleaning, Inside
    <3>3. Counted(row')
      BY <2>2 DEF Budgeted, Counts
    <3> QED
      BY <1>0, <2>2, <3>1, <3>2, <3>3, NewRowCounted, RequestCounts
  <2> QED
    BY <1>4, <2>1, <2>2 DEF Remove
<1> QED
  BY <1>1, <1>2, <1>3, <1>4

\* A retry starts a new budget; it commits only if no phase moved since it looked.
LEMMA RetryCounts ==
  ASSUME Budgeted, NEW c \in Controllers, Retry(c)
  PROVE  Counts' /\ Fresh' /\ AtWork'
<1> DEFINE r == view[c]
<1>0. /\ r \in AnyRow /\ row \in AnyRow /\ Counted(r) /\ Counted(row)
      /\ con[c].step = "loaded" /\ c \in Tasks /\ pc[c] = "idle"
  BY DEF Budgeted, Cleaning, Typed, Inside, Tasks, Counts, Retry, Decides
<1> DEFINE s   == RetryState(r)
           new == [r EXCEPT !.ctl = "running", !.failures = 0, !.state = s]
<1>1. s \notin Terminal \cup {"retry_wait"}
  BY DEF RetryState, Terminal
<1>2. r.state \in {"failed", "retry_wait"}
  BY DEF Retry, Accepts
<1>3. ControlCommit(c, new, TRUE, "ungate")
  BY DEF Retry
<1> HIDE DEF s
<1>4. new.state = s /\ new.failures = 0
  BY <1>0 DEF AnyRow
<1> HIDE DEF new
<1>5. /\ Commit(c, new, TRUE) /\ stale' = Overtaken(c, TRUE) \ {c} /\ UNCHANGED pc
      /\ view' = [view EXCEPT ![c] = NewRow] /\ Move(c, "ungate")
  BY <1>3 DEF ControlCommit
<1>6. /\ \A u \in Tasks : view'[u] = IF u = c THEN NewRow ELSE view[u]
      /\ \A d \in Controllers : d # c => con'[d] = con[d]
      /\ con'[c].step = "ungate"
  BY <1>5 DEF Move, Budgeted, Cleaning, Typed
<1>7. CASE CanCommit(c, TRUE)
  <2>1. row'.failures = 0 /\ row'.state \in {s, row.state}
    BY <1>0, <1>2, <1>4, <1>5, <1>7, BoundAssumption DEF Commit, Merged, Column, Counted, AnyRow
  <2>2. r.state = row.state
    BY <1>0, <1>7 DEF CanCommit, Budgeted, Fresh, Readers
  <2>3. row'.state = s
    BY <1>4, <1>5, <1>7, <2>2 DEF Commit, Merged, Column
  <2>4. Counted(row')
    BY <1>1, <2>1, <2>3, BoundAssumption DEF Counted, Terminal
  <2>5. stale \ {c} \subseteq stale' /\ Readers \ {c} \subseteq stale'
    BY <1>5, <1>7 DEF Overtaken
  <2> QED
    BY <1>0, <1>1, <1>5, <1>6, <2>3, <2>4, <2>5, NewRowCounted, RequestCounts
<1>8. CASE ~CanCommit(c, TRUE)
  <2>1. row' = row /\ stale' = stale \ {c}
    BY <1>5, <1>8 DEF Commit, Overtaken
  <2> QED
    BY <1>0, <1>5, <1>6, <2>1, NewRowCounted, RequestCounts
<1> QED
  BY <1>7, <1>8

LEMMA LoadsCounts ==
  ASSUME Budgeted, NEW c \in Controllers, LoadForControl(c)
  PROVE  Counts' /\ Fresh' /\ AtWork'
<1>0. c \in Tasks /\ pc[c] = "idle" /\ UNCHANGED <<row, pc>> /\ Counted(row) /\ Counted(view[c])
  BY DEF Tasks, LoadForControl, Budgeted, Cleaning, Inside, Counts
<1>1. CASE deleted
  <2>1. Move(c, "ungate") /\ UNCHANGED <<view, stale>>
    BY <1>1 DEF LoadForControl
  <2>2. con'[c].step = "ungate" /\ \A d \in Controllers : d # c => con'[d] = con[d]
    BY <2>1 DEF Move, Budgeted, Cleaning, Typed
  <2> QED
    BY <1>0, <2>1, <2>2, RequestCounts
<1>2. CASE ~deleted
  <2>1. Move(c, "loaded") /\ view' = [view EXCEPT ![c] = row] /\ stale' = stale \ {c}
    BY <1>2 DEF LoadForControl
  <2>2. /\ \A d \in Controllers : d # c => con'[d] = con[d]
        /\ \A u \in Tasks : view'[u] = IF u = c THEN row ELSE view[u]
    BY <2>1 DEF Move, Budgeted, Cleaning, Typed
  <2> QED
    BY <1>0, <2>1, <2>2, RequestCounts
<1> QED
  BY <1>1, <1>2

LEMMA AnswersCounts ==
  ASSUME Budgeted, NEW c \in Controllers,
         \/ ProcessRefused(c) \/ ProcessReturns(c) \/ ServeControl(c)
         \/ ProviderAnswers(c) \/ ProviderFails(c) \/ Request(c) \/ Ungate(c)
  PROVE  Counts' /\ Fresh' /\ AtWork'
<1>0. row \in AnyRow /\ Counted(row) /\ c \in Tasks /\ Counted(view[c])
  BY DEF Budgeted, Cleaning, Typed, Counts, Tasks
<1>1. row'.state = row.state /\ row'.failures = row.failures
  BY <1>0 DEF ProcessRefused, ProcessReturns, ServeControl, ProviderAnswers, ProviderFails,
     Request, Ungate, AnyRow
<1>2. /\ con'[c].step # "loaded"
      /\ \A d \in Controllers : d # c => con'[d] = con[d]
  BY DEF ProcessRefused, ProcessReturns, ServeControl, ProviderAnswers, ProviderFails,
     Request, Ungate, Move, Idle, Budgeted, Cleaning, Typed
<1>3. UNCHANGED <<pc, view, stale>> /\ (con[c].step # "inline" \/ pc[c] = "idle")
  BY DEF ProcessRefused, ProcessReturns, ServeControl, ProviderAnswers, ProviderFails,
     Request, Ungate, sessionVars
<1>4. pc[c] = "idle" /\ Counted(row')
  BY <1>0, <1>1, <1>3 DEF Budgeted, Cleaning, Inside, Counted
<1> QED
  BY <1>0, <1>1, <1>2, <1>3, <1>4, RequestCounts

LEMMA RefusedCounts ==
  ASSUME Budgeted, NEW c \in Controllers, ControlRefused(c)
  PROVE  Counts' /\ Fresh' /\ AtWork'
<1>1. /\ Move(c, "ungate") /\ view' = [view EXCEPT ![c] = NewRow]
      /\ stale' = stale \ {c} /\ UNCHANGED <<row, pc>> /\ con[c].step # "inline"
  BY DEF ControlRefused
<1>2. /\ \A u \in Tasks : view'[u] = IF u = c THEN NewRow ELSE view[u]
      /\ \A d \in Controllers : d # c => con'[d] = con[d]
      /\ con'[c].step = "ungate"
  BY <1>1 DEF Move, Budgeted, Cleaning, Typed
<1>3. c \in Tasks /\ pc[c] = "idle" /\ Counted(row')
  BY <1>1 DEF Tasks, Budgeted, Cleaning, Inside, Counts
<1> QED
  BY <1>1, <1>2, <1>3, NewRowCounted, RequestCounts

LEMMA BudgetedStep ==
  ASSUME Budgeted, [Next]_vars
  PROVE  Budgeted'
<1>1. Cleaning'
  BY CleaningStep DEF Budgeted
<1>2. Counts' /\ Fresh' /\ AtWork'
  <2>1. CASE \E t \in Tasks : Process(t)
    <3>1. PICK t \in Tasks : Process(t)
      BY <2>1
    <3> QED
      BY <3>1, StartsCounts, WorksCounts, ErrsCounts, GoesOnCounts, CleanupCounts,
         DeliverCounts DEF Process, Works
  <2>2. CASE \E c \in Controllers : Request(c) \/ Control(c)
    <3>1. PICK c \in Controllers : Request(c) \/ Control(c)
      BY <2>2
    <3> QED
      BY <3>1, LoadsCounts, DecidesCounts, RetryCounts, AnswersCounts, RefusedCounts
        DEF Control
  <2>3. CASE TorBoxStarts \/ TorBoxFinishes \/ UNCHANGED vars
    <3>1. UNCHANGED <<row, pc, view, con, stale>>
      BY <2>3 DEF TorBoxStarts, TorBoxFinishes, vars, sessionVars
    <3> QED
      BY <3>1, StillCounts
  <2>4. CASE Crash
    <3>1. Counts'
      BY <2>4, NewRowCounted DEF Crash, Budgeted, Counts
    <3>2. Readers' = {} /\ \A t \in Tasks : pc'[t] = "idle"
      BY <2>4 DEF Crash, Readers, Idle, Tasks
    <3> QED
      BY <3>1, <3>2 DEF Fresh, AtWork, Working
  <2> QED
    BY <2>1, <2>2, <2>3, <2>4 DEF Next
<1> QED
  BY <1>1, <1>2 DEF Budgeted

LEMMA BudgetedInit == Init => Budgeted
<1> SUFFICES ASSUME Init PROVE Budgeted
  OBVIOUS
<1>1. Counts
  BY NewRowCounted DEF Init, Counts
<1>2. Readers = {} /\ \A t \in Tasks : pc[t] = "idle"
  BY DEF Init, Readers, Idle, Tasks
<1> QED
  BY <1>1, <1>2, CleaningInit DEF Budgeted, Fresh, AtWork, Working

\* A scheduled retry is always within max_job_failures (service.py:406-450),
\* although failures, requests and process deaths interleave and the counter
\* is written by sessions that may have loaded an older row.
THEOREM RetriesBounded == Spec => []RetryBudget
<1>1. Budgeted => RetryBudget
  <2> SUFFICES ASSUME Budgeted PROVE RetryBudget
    OBVIOUS
  <2>1. row.failures \in Nat /\ MaxFailures \in Nat /\ Counted(row)
    BY BoundAssumption DEF Budgeted, Cleaning, Typed, AnyRow, Counts
  <2> QED
    BY <2>1 DEF RetryBudget, Counted, Terminal
<1>2. Budgeted /\ [Next]_vars => Budgeted'
  BY BudgetedStep
<1> QED
  BY <1>1, <1>2, BudgetedInit, PTL DEF Spec

-----------------------------------------------------------------------------
(***************************************************************************)
(* The type invariant.                                                     *)
(***************************************************************************)
Around ==
  /\ controlling \in BOOLEAN
  /\ cancelled \in SUBSET Tasks
  /\ stale \in SUBSET Tasks
  /\ torrent \in {"absent", "queued", "active", "ready"}
  /\ suspended \in BOOLEAN
  /\ disk \in {"none", "partial", "final"}
  /\ commands \in 0..MaxCommands
  /\ faults \in 0..MaxFaults

LEMMA RowTyped ==
  ASSUME NEW r \in AnyRow, Counted(r)
  PROVE  r \in Row
<1>1. r.failures \in 0..MaxFailures
  BY BoundAssumption DEF AnyRow, Counted
<1> QED
  BY <1>1 DEF AnyRow, Row

LEMMA ReadersAreTasks == Readers \subseteq Tasks
BY DEF Readers, Tasks

\* What a task changes around the row.
LEMMA ProcessAround ==
  ASSUME Around, NEW t \in Tasks, Process(t)
  PROVE  Around'
<1>1. CASE Starts(t)
  BY <1>1 DEF Starts, StartCreate, StartReconcile, StartPollQueued, StartPollRemote,
     StartPrepare, StartDeliver, StartCleanup, Enter, gateVars, providerVars, bounds, Around
<1>2. CASE \/ FindTorrent(t) \/ FindQueued(t) \/ Created(t) \/ Enqueued(t)
           \/ PollQueuedBinds(t) \/ PollQueuedStarted(t) \/ PollQueuedWaits(t)
           \/ PollRemote(t) \/ PrepareDelivery(t) \/ Delivered(t)
           \/ Drop(t) \/ Errs(t) \/ Unwind(t)
  <2>1. /\ UNCHANGED <<controlling, torrent, suspended, disk, commands, faults>>
        /\ cancelled' \subseteq cancelled
        /\ stale' \subseteq stale \cup Readers
    BY <1>2 DEF FindTorrent, FindQueued, Created, Enqueued, PollQueuedBinds,
       PollQueuedStarted, PollQueuedWaits, PollRemote, PrepareDelivery, Delivered, Drop,
       Errs, ReconcileFails, CreateFails, PollFails, DeliverFails, CleanupFails,
       FailFrom, FailSubmission, Fail, Succeed, BindTorrent, Unwind, Leave, Exit, Overtaken,
       providerVars, bounds
  <2> QED
    BY <2>1, ReadersAreTasks DEF Around
<1>3. CASE \/ FindNothing(t) \/ FindQueuedNothing(t) \/ Serves(t)
           \/ RemoteDone(t) \/ Unlink(t) \/ LocalDone(t) \/ Publish(t)
  BY <1>3 DEF FindNothing, FindQueuedNothing, Serves, ServeCreate, ServeDelete, RemoteDone,
     Unlink, LocalDone, Publish, CleanupCommit, gateVars, providerVars, sessionVars, bounds,
     Around
<1>4. CASE DeliverProgress(t)
  <2>1. /\ UNCHANGED <<controlling, cancelled, torrent, suspended, commands, faults>>
        /\ disk' \in {"partial", "final"} \/ disk' = disk
        /\ stale' \subseteq stale \cup Readers
    BY <1>4 DEF DeliverProgress, Overtaken, gateVars, providerVars, bounds
  <2> QED
    BY <2>1, ReadersAreTasks DEF Around
<1>5. CASE CommitRefused(t)
  <2>1. /\ UNCHANGED <<controlling, cancelled, torrent, suspended, disk, commands>>
        /\ stale' \subseteq stale
    BY <1>5 DEF CommitRefused, Exit, providerVars
  <2>2. faults' \in 0..MaxFaults
    BY <1>5, BoundAssumption DEF CommitRefused, Fault, Around
  <2> QED
    BY <2>1, <2>2 DEF Around
<1> QED
  BY <1>1, <1>2, <1>3, <1>4, <1>5 DEF Process, Works

LEMMA ControlAround ==
  ASSUME Around, active \in Tasks \cup {NoTask}, NEW c \in Controllers,
         Request(c) \/ Control(c)
  PROVE  Around'
<1>1. CASE Request(c)
  BY <1>1, BoundAssumption DEF Request, sessionVars, providerVars, Around
<1>2. CASE LoadForControl(c) \/ ProcessRefused(c) \/ ProcessReturns(c) \/ ServeControl(c)
           \/ ProviderAnswers(c) \/ ProviderFails(c) \/ Ungate(c)
  BY <1>2 DEF LoadForControl, ProcessRefused, ProcessReturns, ServeControl, ProviderAnswers,
     ProviderFails, Ungate, gateVars, sessionVars, providerVars, bounds, Around
<1>3. CASE Ignore(c) \/ Pause(c) \/ Resume(c) \/ Retry(c) \/ Remove(c)
  <2>1. /\ UNCHANGED <<cancelled, torrent, suspended, disk, commands, faults>>
        /\ stale' \subseteq stale \cup Readers
    BY <1>3 DEF Ignore, Pause, Resume, Retry, Remove, ControlCommit, Overtaken,
       providerVars, bounds
  <2>2. controlling' \in BOOLEAN
    BY <1>3 DEF Ignore, Pause, Resume, Retry, Remove, Around
  <2> QED
    BY <2>1, <2>2, ReadersAreTasks DEF Around
<1>4. CASE ControlRefused(c)
  <2>1. /\ UNCHANGED <<controlling, cancelled, torrent, suspended, disk, commands>>
        /\ stale' \subseteq stale
    BY <1>4 DEF ControlRefused, gateVars, providerVars
  <2>2. faults' \in 0..MaxFaults
    BY <1>4, BoundAssumption DEF ControlRefused, Fault, Around
  <2> QED
    BY <2>1, <2>2 DEF Around
<1> QED
  BY <1>1, <1>2, <1>3, <1>4 DEF Control

LEMMA AroundStep ==
  ASSUME Around, Registered, [Next]_vars
  PROVE  Around'
<1>1. CASE \E t \in Tasks : Process(t)
  BY <1>1, ProcessAround
<1>2. CASE \E c \in Controllers : Request(c) \/ Control(c)
  BY <1>2, ControlAround DEF Registered
<1>3. CASE TorBoxStarts \/ TorBoxFinishes
  BY <1>3 DEF TorBoxStarts, TorBoxFinishes, gateVars, sessionVars, bounds, Around
<1>4. CASE Crash
  <2>1. faults' \in 0..MaxFaults
    BY <1>4, BoundAssumption DEF Crash, Fault, Around
  <2>2. controlling' = FALSE /\ cancelled' = {} /\ stale' = {}
        /\ UNCHANGED <<torrent, suspended, disk, commands>>
    BY <1>4 DEF Crash, providerVars
  <2> QED
    BY <2>1, <2>2 DEF Around
<1>5. CASE UNCHANGED vars
  BY <1>5 DEF vars, Around
<1> QED
  BY <1>1, <1>2, <1>3, <1>4, <1>5 DEF Next

\* Every variable keeps its type; in particular no counter of failures ever
\* exceeds max_job_failures, in the row or in a session.
THEOREM TypeCorrect == Spec => []TypeOK
<1>1. Init => Around /\ Budgeted
  <2>1. ASSUME Init PROVE Around
    <3>1. 0 \in 0..MaxCommands /\ 0 \in 0..MaxFaults
      BY BoundAssumption
    <3>2. {} \in SUBSET Tasks
      OBVIOUS
    <3> QED
      BY <2>1, <3>1, <3>2 DEF Init, Around
  <2> QED
    BY <2>1, BudgetedInit
<1>2. Around /\ Budgeted /\ [Next]_vars => Around' /\ Budgeted'
  BY AroundStep, BudgetedStep DEF Budgeted, Cleaning
<1>3. Around /\ Budgeted => TypeOK
  <2> SUFFICES ASSUME Around, Budgeted PROVE TypeOK
    OBVIOUS
  <2>1. row \in Row
    BY RowTyped DEF Budgeted, Cleaning, Typed, Counts
  <2>2. view \in [Tasks -> Row]
    <3>1. view \in [Tasks -> AnyRow] /\ \A t \in Tasks : Counted(view[t])
      BY DEF Budgeted, Cleaning, Typed, Counts
    <3>2. \A t \in Tasks : view[t] \in Row
      BY <3>1, RowTyped
    <3> QED
      BY <3>1, <3>2
  <2> QED
    BY <2>1, <2>2 DEF Around, Budgeted, Cleaning, Registered, Typed, TypeOK
<1> QED
  BY <1>1, <1>2, <1>3, PTL DEF Spec

-----------------------------------------------------------------------------
(***************************************************************************)
(* JobService implements JobPromise, for any number of requests, any       *)
(* failure budget and any number of process deaths; and what it knows of   *)
(* the job at every step leaves nothing of a removed one at TorBox.        *)
(***************************************************************************)
\* What a row says holds together.
Sound(r) ==
  /\ r.state \in {"provider_downloading", "provider_ready"} => r.remote
  /\ r.state = "provider_queued" => r.queued
  /\ r.state \in {"delivering", "completed"} => r.remote /\ r.files
  /\ r.files => r.remote
  /\ r.ctl = "removing" => r.requested

\* r knows what r0 does.
Grown(r0, r) ==
  /\ r0.remote => r.remote
  /\ r0.queued => r.queued
  /\ r0.files => r.files
  /\ r0.requested => r.requested

CleanupSteps == {"delete", "deleted", "unlink", "unlinked", "drop"}

\* Where a task is rests on what its session or the row has.
Placed(t) ==
  /\ pc[t] = "deliver" => view[t].remote /\ view[t].files
  /\ pc[t] = "prepare" => view[t].remote
  /\ pc[t] = "poll_queued" => view[t].queued
  /\ pc[t] \in {"find", "find_queued"} => ~view[t].remote
  /\ pc[t] \in CleanupSteps => row.requested
  /\ pc[t] \in {"unlink", "unlinked", "drop"} => row.remoteDone

Learned ==
  /\ Sound(row)
  /\ \A t \in Tasks : Sound(view[t]) /\ Placed(t)
  /\ \A t \in Readers : Grown(view[t], row)

Faithful == Budgeted /\ Learned

RowLearns == Sound(row') /\ Grown(row, row')

-----------------------------------------------------------------------------
(***************************************************************************)
(* The abstract variables.                                                 *)
(***************************************************************************)
Learnt == {k \in {"queued", "remote", "files"} : row[k]}
Asked == {k \in {"job", "files"} : IF k = "job" THEN row.requested ELSE row.deleteFiles}

\* The names of the abstract sets.
LEMMA LearntIs ==
  /\ "queued" \in Learnt <=> row.queued
  /\ "remote" \in Learnt <=> row.remote
  /\ "files" \in Learnt <=> row.files
  /\ Learnt \subseteq {"queued", "remote", "files"}
BY DEF Learnt

\* What removals have asked for.
LEMMA AskedIs ==
  /\ "job" \in Asked <=> row.requested
  /\ "files" \in Asked <=> row.deleteFiles
  /\ Asked \subseteq {"job", "files"}
BY DEF Asked

\* The same of the state after the step: known,
LEMMA LearntIsNext ==
  /\ "queued" \in Learnt' <=> row'.queued
  /\ "remote" \in Learnt' <=> row'.remote
  /\ "files" \in Learnt' <=> row'.files
  /\ Learnt' \subseteq {"queued", "remote", "files"}
BY DEF Learnt

\* and asked for.
LEMMA AskedIsNext ==
  /\ "job" \in Asked' <=> row'.requested
  /\ "files" \in Asked' <=> row'.deleteFiles
  /\ Asked' \subseteq {"job", "files"}
BY DEF Asked

\* What each phase needs.
LEMMA NeedsAre ==
  /\ Promise!Phases = JobStates
  /\ Promise!Needs["submitted"] = {} /\ Promise!Needs["provider_queued"] = {"queued"}
  /\ Promise!Needs["provider_downloading"] = {"remote"}
  /\ Promise!Needs["provider_ready"] = {"remote"}
  /\ Promise!Needs["delivering"] = {"remote", "files"}
  /\ Promise!Needs["completed"] = {"remote", "files"}
  /\ Promise!Needs["retry_wait"] = {} /\ Promise!Needs["failed"] = {}
BY DEF Promise!Phases, Promise!Needs, JobStates

\* A step that leaves the columns of the promise alone leaves it alone.
LEMMA SameSeen ==
  ASSUME UNCHANGED <<row.state, row.failures, row.remoteDone, disk, deleted>>,
         UNCHANGED <<row.queued, row.remote, row.files, row.requested, row.deleteFiles>>
  PROVE  UNCHANGED Promise!vars
<1>1. Learnt' = Learnt
  <2>1. \A k : k \in Learnt' <=> k \in Learnt
    BY LearntIs, LearntIsNext
  <2> QED BY <2>1
<1>2. Asked' = Asked
  <2>1. \A k : k \in Asked' <=> k \in Asked
    BY AskedIs, AskedIsNext
  <2> QED BY <2>1
<1> QED BY <1>1, <1>2 DEF Promise!vars, Learnt, Asked

\* The step looks like one of the promise, or like none.
Allowed == Promise!Next \/ UNCHANGED Promise!vars

Stages == JobStates \ {"completed", "failed", "retry_wait"}

\* A sound row knows what its phase needs.
LEMMA NeedsMet ==
  ASSUME row' \in AnyRow, Sound(row')
  PROVE  Promise!Needs[row'.state] \subseteq Learnt'
<1>1. row'.state \in JobStates
  BY DEF AnyRow
<1> QED BY <1>1, LearntIsNext, NeedsAre DEF Sound, JobStates

\* A stage succeeded.
LEMMA Advances ==
  ASSUME row.state \in JobStates \ Terminal, ~deleted, NEW w,
         \/ w \in {{}, {"queued"}, {"remote"}, {"queued", "remote"}}
         \/ w = {"files"} /\ row.remote,
         Learnt' = Learnt \cup w,
         row' \in AnyRow, Sound(row'), row'.state \in Stages,
         row'.failures \in {0, row.failures},
         Asked' = Asked, row'.remoteDone = row.remoteDone, UNCHANGED <<disk, deleted>>
  PROVE  Promise!Next
<1>1. w \in Promise!Lessons
  BY LearntIs DEF Promise!Lessons, Learnt
<1>2. row'.state \in {s \in Promise!Stages : Promise!Needs[s] \subseteq Learnt'}
  BY NeedsMet, NeedsAre DEF Promise!Stages, Promise!Terminal, Stages
<1>3. row.state \notin Promise!Terminal
  BY DEF Terminal, Promise!Terminal
<1>4. Promise!Advance
  BY <1>1, <1>2, <1>3 DEF Promise!Advance, Learnt, Asked
<1> QED BY <1>4 DEF Promise!Next

\* A stage failed.
LEMMA Fails ==
  ASSUME row.state \in JobStates \ Terminal, ~deleted,
         \/ row'.state = "retry_wait" /\ row'.failures \in 1..(MaxFailures - 1)
         \/ row'.state = row.state /\ row.state \in Stages /\ row'.failures \in 1..(MaxFailures - 1)
         \/ row'.state = "failed" /\ row'.failures \in 1..MaxFailures,
         Learnt' = Learnt, Asked' = Asked, row'.remoteDone = row.remoteDone,
         UNCHANGED <<disk, deleted>>
  PROVE  Promise!Next
<1>1. row.state \notin Promise!Terminal
  BY DEF Terminal, Promise!Terminal
<1>2. row.state \in Stages => row.state \in Promise!Stages
  BY NeedsAre DEF Promise!Stages, Promise!Terminal, Stages
<1>3. Promise!Fail
  BY <1>1, <1>2 DEF Promise!Fail, Learnt, Asked
<1> QED BY <1>3 DEF Promise!Next

-----------------------------------------------------------------------------
(***************************************************************************)
(* Commits.                                                                *)
(***************************************************************************)
\* What sessions know and what a commit adds is known afterwards, and is
\* enough for the phase, whichever of the two the phase comes from.
LEMMA MergedLearns ==
  ASSUME row \in AnyRow, Sound(row), NEW old \in AnyRow, NEW new \in AnyRow,
         Grown(old, row), Grown(old, new), Sound(new)
  PROVE  /\ Sound(Merged(old, new))
         /\ Grown(row, Merged(old, new))
         /\ Grown(new, Merged(old, new))
<1> DEFINE m == Merged(old, new)
<1>1. /\ m.remote = Column(old.remote, new.remote, row.remote)
      /\ m.queued = Column(old.queued, new.queued, row.queued)
      /\ m.files = Column(old.files, new.files, row.files)
      /\ m.requested = Column(old.requested, new.requested, row.requested)
      /\ m.state = Column(old.state, new.state, row.state)
      /\ m.ctl = Column(old.ctl, new.ctl, row.ctl)
  BY DEF Merged
<1> HIDE DEF m
<1>2. /\ m.remote <=> row.remote \/ new.remote
      /\ m.queued <=> row.queued \/ new.queued
      /\ m.files <=> row.files \/ new.files
      /\ m.requested <=> row.requested \/ new.requested
  BY <1>1 DEF AnyRow, Column, Grown
<1>3. m.state \in {new.state, row.state} /\ m.ctl \in {new.ctl, row.ctl}
  BY <1>1 DEF Column
<1>4. Sound(m)
  BY <1>2, <1>3 DEF Sound
<1>5. Grown(row, m) /\ Grown(new, m)
  BY <1>2 DEF Grown
<1> QED BY <1>4, <1>5 DEF m

\* A row knows what it does itself.
LEMMA GrownSelf == ASSUME NEW r PROVE Grown(r, r)
BY DEF Grown

\* What is typed and learnt of the session of a reader.
LEMMA ReaderKnows ==
  ASSUME Faithful, NEW t \in Readers
  PROVE  /\ t \in Tasks /\ row \in AnyRow /\ view[t] \in AnyRow
         /\ Sound(row) /\ Sound(view[t]) /\ Grown(view[t], row) /\ Placed(t)
BY ReadersAreTasks DEF Faithful, Learned, Budgeted, Cleaning, Typed

\* A commit, turned down or not, leaves a row that is sound and knows no less.
LEMMA CommitLearns ==
  ASSUME Faithful, NEW t \in Readers, NEW new \in AnyRow, NEW moved,
         Sound(new), Grown(view[t], new), Commit(t, new, moved)
  PROVE  RowLearns
<1>1. CASE CanCommit(t, moved)
  BY <1>1, ReaderKnows, MergedLearns DEF Commit, RowLearns
<1>2. CASE ~CanCommit(t, moved)
  BY <1>2, ReaderKnows, GrownSelf DEF Commit, RowLearns
<1> QED BY <1>1, <1>2

\* A commit that succeeds writes the phase it moved to, because it is fresh.
LEMMA CommitMoves ==
  ASSUME Faithful, NEW t \in Readers, NEW new \in AnyRow, NEW moved \in BOOLEAN,
         moved \/ new.state = view[t].state, CanCommit(t, moved), Commit(t, new, moved)
  PROVE  /\ row'.state = IF moved THEN new.state ELSE row.state
         /\ row'.failures = Column(view[t].failures, new.failures, row.failures)
         /\ new.remoteDone = view[t].remoteDone => row'.remoteDone = row.remoteDone
         /\ new.deleteFiles = view[t].deleteFiles => row'.deleteFiles = row.deleteFiles
         /\ new.requested = view[t].requested => row'.requested = row.requested
         /\ new.remote = view[t].remote => row'.remote = row.remote
         /\ new.queued = view[t].queued => row'.queued = row.queued
         /\ new.files = view[t].files => row'.files = row.files
<1>1. row' = Merged(view[t], new)
  BY DEF Commit
<1>2. moved => view[t].state = row.state
  BY DEF CanCommit, Faithful, Budgeted, Fresh
<1>3. row'.state = Column(view[t].state, new.state, row.state)
  BY <1>1 DEF Merged
<1>4. row'.state = IF moved THEN new.state ELSE row.state
  BY <1>2, <1>3 DEF Column
<1> QED BY <1>1, <1>4 DEF Merged, Column

\* Who is inside has a session, and there is a row.
LEMMA WorkersRead ==
  ASSUME Faithful, NEW t \in Tasks, pc[t] # "idle"
  PROVE  t \in Readers /\ ~deleted
BY DEF Faithful, Budgeted, Cleaning, Inside, Readers

\* What a task at work knows of the phase.
LEMMA AtWorkOpen ==
  ASSUME Faithful, NEW t \in Tasks, pc[t] \in Working
  PROVE  /\ t \in Readers /\ ~deleted
         /\ view[t].state \in JobStates \ Terminal /\ row.state \in JobStates \ Terminal
         /\ row.state = "retry_wait" => view[t].state = "retry_wait"
         /\ Counted(view[t])
<1>1. pc[t] # "idle"
  BY DEF Working
<1>2. view[t] \in AnyRow /\ row \in AnyRow
  BY DEF Faithful, Budgeted, Cleaning, Typed
<1>3. view[t].state \in JobStates /\ row.state \in JobStates
  BY <1>2 DEF AnyRow
<1>4. /\ view[t].state \notin Terminal /\ row.state \notin Terminal
      /\ row.state = "retry_wait" => view[t].state = "retry_wait"
      /\ Counted(view[t])
  BY DEF Faithful, Budgeted, AtWork, Counts
<1> QED BY <1>1, <1>3, <1>4, WorkersRead

\* A stage that succeeds looks like Advance, or like nothing when its commit
\* is turned down.
LEMMA SucceedAllowed ==
  ASSUME Faithful, RowGrows, NEW t \in Tasks, pc[t] \in Working,
         NEW new \in AnyRow, NEW moved \in BOOLEAN,
         new.state \in Stages, Sound(new), Grown(view[t], new),
         new.requested = view[t].requested, new.deleteFiles = view[t].deleteFiles,
         new.remoteDone = view[t].remoteDone,
         \/ new.files = view[t].files
         \/ new.remote = view[t].remote /\ new.queued = view[t].queued /\ view[t].remote,
         moved \/ new.state = view[t].state, Succeed(t, new, moved)
  PROVE  RowLearns /\ Allowed
<1> DEFINE zero == [new EXCEPT !.failures = 0]
<1>1. /\ zero \in AnyRow /\ zero.failures = 0 /\ zero.state = new.state /\ zero.ctl = new.ctl
      /\ zero.remote = new.remote /\ zero.queued = new.queued /\ zero.files = new.files
      /\ zero.requested = new.requested /\ zero.deleteFiles = new.deleteFiles
      /\ zero.remoteDone = new.remoteDone
  BY DEF AnyRow
<1>2. Commit(t, zero, moved) /\ UNCHANGED <<deleted, disk>>
  BY DEF Succeed
<1> HIDE DEF zero
<1>3. Sound(zero) /\ Grown(view[t], zero)
  BY <1>1 DEF Sound, Grown
<1>4. t \in Readers /\ ~deleted
  BY AtWorkOpen
<1>5. RowLearns
  BY <1>1, <1>2, <1>3, <1>4, CommitLearns
<1>6. CASE ~CanCommit(t, moved)
  <2>1. row' = row BY <1>2, <1>6 DEF Commit
  <2> QED BY <1>2, <1>5, <2>1, SameSeen DEF Allowed
<1>7. CASE CanCommit(t, moved)
  <2>1. /\ row'.state = IF moved THEN new.state ELSE row.state
        /\ row'.failures = Column(view[t].failures, 0, row.failures)
        /\ row'.remoteDone = row.remoteDone /\ row'.deleteFiles = row.deleteFiles
        /\ row'.requested = row.requested
        /\ new.remote = view[t].remote => row'.remote = row.remote
        /\ new.queued = view[t].queued => row'.queued = row.queued
        /\ new.files = view[t].files => row'.files = row.files
    BY <1>1, <1>2, <1>4, <1>7, CommitMoves
  <2>2. row'.state \in Stages
    BY <2>1, AtWorkOpen DEF Stages, Terminal
  <2>3. row'.failures \in {0, row.failures}
    BY <2>1 DEF Column
  <2>4. Asked' = Asked
    <3>1. \A k : k \in Asked' <=> k \in Asked
      BY <2>1, AskedIs, AskedIsNext
    <3> QED BY <3>1
  <2> DEFINE w == Learnt' \ Learnt
  <2>5. Learnt' = Learnt \cup w
    <3>1. \A k : k \in Learnt => k \in Learnt'
      BY <1>5, LearntIs, LearntIsNext DEF RowLearns, Grown
    <3> QED BY <3>1
  <2>6. \/ w \in {{}, {"queued"}, {"remote"}, {"queued", "remote"}}
        \/ w = {"files"} /\ row.remote
    <3>1. CASE new.files = view[t].files
      <4>1. w \subseteq {"queued", "remote"}
        BY <2>1, <3>1, LearntIs, LearntIsNext
      <4> HIDE DEF w
      <4>2. w = {} \/ w = {"queued"} \/ w = {"remote"} \/ w = {"queued", "remote"}
        BY <4>1
      <4> QED BY <4>2
    <3>2. CASE new.files # view[t].files
      <4>1. w \subseteq {"files"} /\ row.remote
        BY <2>1, <3>2, <1>4, ReaderKnows, LearntIs, LearntIsNext DEF Grown
      <4> HIDE DEF w
      <4>2. w = {} \/ w = {"files"}
        BY <4>1
      <4> QED BY <4>1, <4>2
    <3> QED BY <3>1, <3>2
  <2> HIDE DEF w
  <2>7. Promise!Next
    BY <1>2, <1>4, <1>5, <2>1, <2>2, <2>3, <2>4, <2>5, <2>6, AtWorkOpen, Advances
       DEF RowGrows, RowLearns
  <2> QED BY <1>5, <2>7 DEF Allowed
<1> QED BY <1>5, <1>6, <1>7

\* A stage that fails looks like Fail, or like nothing when its commit is
\* turned down.
LEMMA FailAllowed ==
  ASSUME Faithful, NEW t \in Tasks, pc[t] \in Working, NEW e,
         NEW new \in AnyRow, NEW moved \in BOOLEAN,
         new.failures = AfterFailure(view[t], e).failures,
         new.state = AfterFailure(view[t], e).state, new.ctl = view[t].ctl,
         new.remote = view[t].remote, new.queued = view[t].queued,
         new.files = view[t].files, new.requested = view[t].requested,
         new.deleteFiles = view[t].deleteFiles, new.remoteDone = view[t].remoteDone,
         moved \/ new.state = view[t].state, Fail(t, new, moved)
  PROVE  RowLearns /\ Allowed
<1>1. Commit(t, new, moved) /\ UNCHANGED <<deleted, disk>>
  BY DEF Fail
<1>2. t \in Readers /\ ~deleted /\ view[t] \in AnyRow /\ Sound(view[t]) /\ Counted(view[t])
      /\ view[t].state \notin Terminal
  BY AtWorkOpen, ReaderKnows
<1>3. PICK s : /\ AfterFailure(view[t], e) = [view[t] EXCEPT !.failures = view[t].failures + 1, !.state = s]
               /\ \/ s = "retry_wait" /\ view[t].failures + 1 < MaxFailures
                  \/ s = "failed"
  BY Zenon DEF AfterFailure
<1>4. new.failures = view[t].failures + 1 /\ new.state = s
  BY <1>2, <1>3 DEF AnyRow
<1>5. Sound(new) /\ Grown(view[t], new)
  BY <1>2, <1>3, <1>4 DEF Sound, Grown
<1>6. RowLearns
  BY <1>1, <1>2, <1>5, CommitLearns
<1>7. CASE ~CanCommit(t, moved)
  <2>1. row' = row BY <1>1, <1>7 DEF Commit
  <2> QED BY <1>1, <1>6, <2>1, SameSeen DEF Allowed
<1>8. CASE CanCommit(t, moved)
  <2>1. /\ row'.state = IF moved THEN s ELSE row.state
        /\ row'.failures = Column(view[t].failures, new.failures, row.failures)
        /\ row'.remoteDone = row.remoteDone /\ row'.deleteFiles = row.deleteFiles
        /\ row'.requested = row.requested
        /\ row'.remote = row.remote /\ row'.queued = row.queued /\ row'.files = row.files
    BY <1>1, <1>2, <1>4, <1>8, CommitMoves
  <2>2. Learnt' = Learnt
    <3>1. \A k : k \in Learnt' <=> k \in Learnt
      BY <2>1, LearntIs, LearntIsNext
    <3> QED BY <3>1
  <2>3. Asked' = Asked
    <3>1. \A k : k \in Asked' <=> k \in Asked
      BY <2>1, AskedIs, AskedIsNext
    <3> QED BY <3>1
  <2>4. view[t].failures \in Nat /\ view[t].failures < MaxFailures /\ MaxFailures \in Nat
    BY <1>2, BoundAssumption DEF AnyRow, Counted
  <2>5. row'.failures = view[t].failures + 1
    BY <1>4, <2>1, <2>4 DEF Column
  <2>6. \/ row'.state = "retry_wait" /\ row'.failures \in 1..(MaxFailures - 1)
        \/ row'.state = row.state /\ row.state \in Stages /\ row'.failures \in 1..(MaxFailures - 1)
        \/ row'.state = "failed" /\ row'.failures \in 1..MaxFailures
    <3>1. s = "retry_wait" => row'.failures \in 1..(MaxFailures - 1)
      BY <1>3, <2>4, <2>5
    <3>2. row'.failures \in 1..MaxFailures
      BY <2>4, <2>5
    <3>3. CASE moved
      BY <1>3, <2>1, <3>1, <3>2, <3>3
    <3>4. CASE ~moved
      <4>1. s = "retry_wait"
        BY <1>2, <1>3, <1>4, <3>4 DEF Terminal
      <4>2. row'.state = row.state /\ row.state \in Stages \cup {"retry_wait"}
        BY <2>1, <3>4, AtWorkOpen DEF Stages, Terminal
      <4> QED BY <3>1, <4>1, <4>2
    <3> QED BY <3>3, <3>4
  <2>7. Promise!Next
    BY <1>1, <1>2, <2>1, <2>2, <2>3, <2>6, AtWorkOpen, Fails
  <2> QED BY <1>6, <2>7 DEF Allowed
<1> QED BY <1>7, <1>8

-----------------------------------------------------------------------------
(***************************************************************************)
(* The actions of a task.                                                  *)
(***************************************************************************)
\* What a bound torrent adds to a session.
LEMMA BindAllowed ==
  ASSUME Faithful, RowGrows, NEW t \in Tasks, pc[t] \in Working, BindTorrent(t)
  PROVE  RowLearns /\ Allowed
<1> DEFINE new == Applied(view[t])
<1>1. view[t] \in AnyRow /\ Sound(view[t])
  BY AtWorkOpen, ReaderKnows
<1>2. new \in AnyRow
  BY <1>1, AppliedGrants
<1>3. /\ new.state \in {"provider_ready", "provider_downloading"} /\ new.remote
      /\ new.queued = view[t].queued /\ new.files = view[t].files /\ new.ctl = view[t].ctl
      /\ new.requested = view[t].requested /\ new.deleteFiles = view[t].deleteFiles
      /\ new.remoteDone = view[t].remoteDone
  BY <1>1 DEF Applied, AnyRow
<1>4. Succeed(t, new, new.state # view[t].state)
  BY DEF BindTorrent
<1> HIDE DEF new
<1>5. Sound(new) /\ Grown(view[t], new) /\ new.state \in Stages
  BY <1>1, <1>3 DEF Sound, Grown, Stages, JobStates
<1> QED BY <1>2, <1>3, <1>4, <1>5, SucceedAllowed

\* The stages that succeed, up to the file list.
LEMMA WorksAllowed ==
  ASSUME Faithful, RowGrows, NEW t \in Tasks,
         \/ FindTorrent(t) \/ FindQueued(t) \/ Created(t) \/ Enqueued(t)
         \/ PollQueuedBinds(t) \/ PollQueuedStarted(t) \/ PollQueuedWaits(t)
         \/ PollRemote(t) \/ PrepareDelivery(t)
  PROVE  RowLearns /\ Allowed
<1>0. pc[t] \in Working
  BY DEF FindTorrent, FindQueued, Created, Enqueued, PollQueuedBinds, PollQueuedStarted,
         PollQueuedWaits, PollRemote, PrepareDelivery, At, Working, ProcessSteps
<1>1. view[t] \in AnyRow /\ Sound(view[t]) /\ Placed(t)
  BY <1>0, AtWorkOpen, ReaderKnows
<1>2. CASE FindTorrent(t) \/ PollQueuedBinds(t) \/ PollRemote(t)
  <2>1. BindTorrent(t)
    BY <1>2 DEF FindTorrent, PollQueuedBinds, PollRemote
  <2> QED BY <1>0, <2>1, BindAllowed
<1>3. CASE FindQueued(t)
  <2> DEFINE s   == IF OnTorBox THEN "provider_downloading" ELSE "provider_queued"
             new == [MoveTo(view[t], s) EXCEPT !.queued = TRUE, !.remote = OnTorBox]
  <2>1. OnTorBox \in BOOLEAN /\ s \in Stages
    BY DEF JobStates, OnTorBox, Stages
  <2>2. Succeed(t, new, new.state # view[t].state) /\ ~view[t].remote
    BY <1>1, <1>3 DEF FindQueued, At, Placed
  <2>3. s = "provider_downloading" => OnTorBox
    OBVIOUS
  <2>4. s \in {"provider_downloading", "provider_queued"}
    OBVIOUS
  <2> HIDE DEF s
  <2>5. /\ new \in AnyRow /\ new.state = s /\ new.queued /\ new.remote = OnTorBox
        /\ new.files = view[t].files /\ new.ctl = view[t].ctl
        /\ new.requested = view[t].requested /\ new.deleteFiles = view[t].deleteFiles
        /\ new.remoteDone = view[t].remoteDone
    BY <1>1, <2>1 DEF AnyRow, MoveTo, Stages
  <2> HIDE DEF new
  <2>6. Sound(new) /\ Grown(view[t], new)
    BY <1>1, <2>1, <2>2, <2>3, <2>4, <2>5 DEF Sound, Grown
  <2> QED BY <1>0, <2>1, <2>2, <2>5, <2>6, SucceedAllowed
<1>4. CASE Created(t)
  <2> DEFINE new == [MoveTo(view[t], "provider_downloading") EXCEPT
                      !.remote = TRUE, !.submitting = FALSE]
  <2>1. /\ new \in AnyRow /\ new.state = "provider_downloading" /\ new.remote
        /\ new.queued = view[t].queued /\ new.files = view[t].files /\ new.ctl = view[t].ctl
        /\ new.requested = view[t].requested /\ new.deleteFiles = view[t].deleteFiles
        /\ new.remoteDone = view[t].remoteDone
    BY <1>1 DEF AnyRow, MoveTo, JobStates
  <2>2. Succeed(t, new, new.state # view[t].state)
    BY <1>4 DEF Created
  <2> HIDE DEF new
  <2>3. Sound(new) /\ Grown(view[t], new) /\ new.state \in Stages
    BY <1>1, <2>1 DEF Sound, Grown, Stages, JobStates
  <2> QED BY <1>0, <2>1, <2>2, <2>3, SucceedAllowed
<1>5. CASE Enqueued(t)
  <2> DEFINE new == [MoveTo(view[t], "provider_queued") EXCEPT
                      !.queued = TRUE, !.submitting = FALSE]
  <2>1. /\ new \in AnyRow /\ new.state = "provider_queued" /\ new.queued
        /\ new.remote = view[t].remote /\ new.files = view[t].files /\ new.ctl = view[t].ctl
        /\ new.requested = view[t].requested /\ new.deleteFiles = view[t].deleteFiles
        /\ new.remoteDone = view[t].remoteDone
    BY <1>1 DEF AnyRow, MoveTo, JobStates
  <2>2. Succeed(t, new, new.state # view[t].state)
    BY <1>5 DEF Enqueued
  <2> HIDE DEF new
  <2>3. Sound(new) /\ Grown(view[t], new) /\ new.state \in Stages
    BY <1>1, <2>1 DEF Sound, Grown, Stages, JobStates
  <2> QED BY <1>0, <2>1, <2>2, <2>3, SucceedAllowed
<1>6. CASE PollQueuedStarted(t)
  <2> DEFINE new == [MoveTo(view[t], "provider_downloading") EXCEPT !.remote = TRUE]
  <2>1. /\ new \in AnyRow /\ new.state = "provider_downloading" /\ new.remote
        /\ new.queued = view[t].queued /\ new.files = view[t].files /\ new.ctl = view[t].ctl
        /\ new.requested = view[t].requested /\ new.deleteFiles = view[t].deleteFiles
        /\ new.remoteDone = view[t].remoteDone
    BY <1>1 DEF AnyRow, MoveTo, JobStates
  <2>2. Succeed(t, new, new.state # view[t].state)
    BY <1>6 DEF PollQueuedStarted
  <2> HIDE DEF new
  <2>3. Sound(new) /\ Grown(view[t], new) /\ new.state \in Stages
    BY <1>1, <2>1 DEF Sound, Grown, Stages, JobStates
  <2> QED BY <1>0, <2>1, <2>2, <2>3, SucceedAllowed
<1>7. CASE PollQueuedWaits(t)
  <2> DEFINE new == MoveTo(view[t], "provider_queued")
  <2>1. /\ new \in AnyRow /\ new.state = "provider_queued" /\ new.remote = view[t].remote
        /\ new.queued = view[t].queued /\ new.files = view[t].files /\ new.ctl = view[t].ctl
        /\ new.requested = view[t].requested /\ new.deleteFiles = view[t].deleteFiles
        /\ new.remoteDone = view[t].remoteDone
    BY <1>1 DEF AnyRow, MoveTo, JobStates
  <2>2. Succeed(t, new, new.state # view[t].state) /\ view[t].queued
    BY <1>1, <1>7 DEF PollQueuedWaits, At, Placed
  <2> HIDE DEF new
  <2>3. Sound(new) /\ Grown(view[t], new) /\ new.state \in Stages
    BY <1>1, <2>1, <2>2 DEF Sound, Grown, Stages, JobStates
  <2> QED BY <1>0, <2>1, <2>2, <2>3, SucceedAllowed
<1>8. CASE PrepareDelivery(t)
  <2> DEFINE new == [MoveTo(view[t], "delivering") EXCEPT !.files = TRUE]
  <2>1. /\ new \in AnyRow /\ new.state = "delivering" /\ new.remote = view[t].remote
        /\ new.queued = view[t].queued /\ new.files /\ new.ctl = view[t].ctl
        /\ new.requested = view[t].requested /\ new.deleteFiles = view[t].deleteFiles
        /\ new.remoteDone = view[t].remoteDone
    BY <1>1 DEF AnyRow, MoveTo, JobStates
  <2>2. Succeed(t, new, TRUE) /\ view[t].remote
    BY <1>1, <1>8 DEF PrepareDelivery, At, Placed
  <2> HIDE DEF new
  <2>3. Sound(new) /\ Grown(view[t], new) /\ new.state \in Stages
    BY <1>1, <2>1, <2>2 DEF Sound, Grown, Stages, JobStates
  <2> QED BY <1>0, <2>1, <2>2, <2>3, SucceedAllowed
<1> QED BY <1>2, <1>3, <1>4, <1>5, <1>6, <1>7, <1>8

\* A step that leaves the row alone.
LEMMA SameLearns ==
  ASSUME Faithful, UNCHANGED row
  PROVE  RowLearns
BY GrownSelf DEF Faithful, Learned, RowLearns

\* A delivery that ends well: its phase needs the files it has.
LEMMA DeliveredAllowed ==
  ASSUME Faithful, RowGrows, NEW t \in Tasks, Delivered(t)
  PROVE  RowLearns /\ Allowed
<1> DEFINE new  == MoveTo(view[t], "completed")
           zero == [new EXCEPT !.failures = 0]
<1>0. pc[t] = "deliver" /\ disk = "final" /\ pc[t] \in Working
  BY DEF Delivered, At, Working, ProcessSteps
<1>1. /\ t \in Readers /\ ~deleted /\ view[t] \in AnyRow /\ Sound(view[t])
      /\ view[t].remote /\ view[t].files /\ Grown(view[t], row)
      /\ row.state \in JobStates \ Terminal
  BY <1>0, AtWorkOpen, ReaderKnows DEF Placed
<1>2. Commit(t, zero, TRUE) /\ UNCHANGED <<deleted, disk>>
  BY DEF Delivered, Succeed
<1>3. /\ zero \in AnyRow /\ zero.failures = 0 /\ zero.state = "completed"
      /\ zero.ctl = view[t].ctl /\ zero.remote = view[t].remote
      /\ zero.queued = view[t].queued /\ zero.files = view[t].files
      /\ zero.requested = view[t].requested /\ zero.deleteFiles = view[t].deleteFiles
      /\ zero.remoteDone = view[t].remoteDone
  BY <1>1 DEF AnyRow, MoveTo, JobStates
<1> HIDE DEF zero, new
<1>4. Sound(zero) /\ Grown(view[t], zero)
  BY <1>1, <1>3 DEF Sound, Grown
<1>5. RowLearns
  BY <1>1, <1>2, <1>3, <1>4, CommitLearns
<1>6. CASE ~CanCommit(t, TRUE)
  <2>1. row' = row BY <1>2, <1>6 DEF Commit
  <2> QED BY <1>2, <1>5, <2>1, SameSeen DEF Allowed
<1>7. CASE CanCommit(t, TRUE)
  <2>1. /\ row'.state = "completed" /\ row'.failures \in {0, row.failures}
        /\ row'.remoteDone = row.remoteDone /\ row'.deleteFiles = row.deleteFiles
        /\ row'.requested = row.requested
        /\ row'.remote = row.remote /\ row'.queued = row.queued /\ row'.files = row.files
    BY <1>1, <1>2, <1>3, <1>7, CommitMoves DEF Column
  <2>2. Learnt' = Learnt
    <3>1. \A k : k \in Learnt' <=> k \in Learnt
      BY <2>1, LearntIs, LearntIsNext
    <3> QED BY <3>1
  <2>3. Asked' = Asked
    <3>1. \A k : k \in Asked' <=> k \in Asked
      BY <2>1, AskedIs, AskedIsNext
    <3> QED BY <3>1
  <2>4. Promise!Needs["completed"] \subseteq Learnt
    BY <1>1, LearntIs, NeedsAre DEF Grown
  <2>5. row.state \notin Promise!Terminal
    BY <1>1 DEF Terminal, Promise!Terminal
  <2>6. Promise!Complete
    BY <1>0, <1>2, <2>1, <2>2, <2>3, <2>4, <2>5 DEF Promise!Complete, Learnt, Asked
  <2> QED BY <1>1, <1>5, <2>6 DEF Allowed, Promise!Next
<1> QED BY <1>6, <1>7

\* What an error writes.
LEMMA FailsAllowed ==
  ASSUME Faithful, NEW t \in Tasks, NEW p \in Working, NEW e,
         FailFrom(t, p, e) \/ FailSubmission(t, p, e)
  PROVE  RowLearns /\ Allowed
<1> DEFINE failed == AfterFailure(view[t], e)
<1>1. pc[t] \in Working
  BY DEF FailFrom, FailSubmission, At
<1>2. view[t] \in AnyRow
  BY <1>1, AtWorkOpen, ReaderKnows
<1>3. failed \in AnyRow
  BY <1>2, AfterFailureGrants
<1>4. /\ failed.ctl = view[t].ctl /\ failed.remote = view[t].remote
      /\ failed.queued = view[t].queued /\ failed.files = view[t].files
      /\ failed.requested = view[t].requested /\ failed.deleteFiles = view[t].deleteFiles
      /\ failed.remoteDone = view[t].remoteDone
  BY <1>2 DEF AfterFailure, AnyRow
<1>5. CASE FailFrom(t, p, e)
  <2>1. Fail(t, failed, failed.state # view[t].state)
    BY <1>5 DEF FailFrom
  <2> HIDE DEF failed
  <2> QED BY <1>1, <1>3, <1>4, <2>1, FailAllowed DEF failed
<1>6. CASE FailSubmission(t, p, e)
  <2> DEFINE b   == IF e \in Rejections THEN FALSE ELSE failed.submitting
             new == [failed EXCEPT !.submitting = b]
  <2>1. b \in BOOLEAN
    BY <1>3 DEF AnyRow
  <2>2. Fail(t, new, new.state # view[t].state)
    BY <1>6 DEF FailSubmission
  <2> HIDE DEF failed, b
  <2>3. /\ new \in AnyRow /\ new.state = failed.state /\ new.failures = failed.failures
        /\ new.ctl = view[t].ctl /\ new.remote = view[t].remote
        /\ new.queued = view[t].queued /\ new.files = view[t].files
        /\ new.requested = view[t].requested /\ new.deleteFiles = view[t].deleteFiles
        /\ new.remoteDone = view[t].remoteDone
    BY <1>3, <1>4, <2>1 DEF AnyRow
  <2> HIDE DEF new
  <2> QED BY <1>1, <2>2, <2>3, FailAllowed DEF failed
<1> QED BY <1>5, <1>6

\* An attempt that fails or is given up.
LEMMA ErrsAllowed ==
  ASSUME Faithful, NEW t \in Tasks, Errs(t) \/ Unwind(t) \/ CommitRefused(t)
  PROVE  RowLearns /\ Allowed
<1>1. CASE ReconcileFails(t) \/ CreateFails(t) \/ PollFails(t)
  <2>1. \E p \in Working : \E e : FailFrom(t, p, e) \/ FailSubmission(t, p, e)
    BY <1>1, Zenon DEF ReconcileFails, CreateFails, PollFails, Working, ProcessSteps
  <2> QED BY <2>1, FailsAllowed
<1>2. CASE DeliverFails(t)
  <2>1. PICK e : Fail(t, AfterFailure(view[t], e), TRUE) /\ pc[t] \in Working
    BY <1>2 DEF DeliverFails, At, Working, ProcessSteps
  <2> DEFINE failed == AfterFailure(view[t], e)
  <2>2. view[t] \in AnyRow
    BY <2>1, AtWorkOpen, ReaderKnows
  <2>3. failed \in AnyRow
    BY <2>2, AfterFailureGrants
  <2>4. /\ failed.ctl = view[t].ctl /\ failed.remote = view[t].remote
        /\ failed.queued = view[t].queued /\ failed.files = view[t].files
        /\ failed.requested = view[t].requested /\ failed.deleteFiles = view[t].deleteFiles
        /\ failed.remoteDone = view[t].remoteDone
    BY <2>2 DEF AfterFailure, AnyRow
  <2>5. Fail(t, failed, TRUE)
    BY <2>1
  <2> HIDE DEF failed
  <2> QED BY <2>1, <2>3, <2>4, <2>5, FailAllowed DEF failed
<1>3. CASE CleanupFails(t) \/ Unwind(t) \/ CommitRefused(t)
  <2>1. UNCHANGED <<row, deleted, disk>>
    BY <1>3 DEF CleanupFails, Unwind, CommitRefused
  <2> QED BY <2>1, SameSeen, SameLearns DEF Allowed
<1> QED BY <1>1, <1>2, <1>3 DEF Errs

\* Steps that change nothing the promise speaks of.
LEMMA QuietAllowed ==
  ASSUME Faithful, NEW t \in Tasks,
         Starts(t) \/ FindNothing(t) \/ FindQueuedNothing(t) \/ Serves(t)
  PROVE  RowLearns /\ Allowed
<1>0. row \in AnyRow /\ Sound(row)
  BY DEF Faithful, Learned, Budgeted, Cleaning, Typed
<1>1. UNCHANGED <<deleted, disk>> /\ (UNCHANGED row \/ row' = [row EXCEPT !.submitting = TRUE])
  BY DEF Starts, StartCreate, StartReconcile, StartPollQueued, StartPollRemote, StartPrepare,
     StartDeliver, StartCleanup, Enter, FindNothing, FindQueuedNothing, Serves, ServeCreate,
     ServeDelete
<1>2. /\ UNCHANGED <<row.state, row.failures, row.remoteDone, row.queued, row.remote, row.files>>
      /\ UNCHANGED <<row.requested, row.deleteFiles, row.ctl>>
  BY <1>0, <1>1 DEF AnyRow
<1>3. RowLearns
  BY <1>0, <1>2 DEF RowLearns, Sound, Grown
<1> QED BY <1>1, <1>2, <1>3, SameSeen DEF Allowed

\* Bytes arrive for a job that knows its files.
LEMMA DeliverAllowed ==
  ASSUME Faithful, NEW t \in Tasks, DeliverProgress(t) \/ Publish(t)
  PROVE  RowLearns /\ Allowed
<1>0. pc[t] = "deliver" /\ pc[t] \in Working
  BY DEF DeliverProgress, Publish, At, Working, ProcessSteps
<1>1. /\ t \in Readers /\ ~deleted /\ view[t] \in AnyRow /\ Sound(view[t])
      /\ view[t].remote /\ view[t].files /\ Grown(view[t], row)
      /\ row.state \in JobStates \ Terminal
  BY <1>0, AtWorkOpen, ReaderKnows DEF Placed
<1>2. Promise!Needs["delivering"] \subseteq Learnt
  BY <1>1, LearntIs, NeedsAre DEF Grown
<1>3. row.state \notin Promise!Terminal
  BY <1>1 DEF Terminal, Promise!Terminal
<1>4. CASE Publish(t)
  <2>1. UNCHANGED <<row, deleted>> /\ disk' = "final"
    BY <1>4 DEF Publish
  <2>2. Promise!Receive
    BY <1>2, <2>1 DEF Promise!Receive, Learnt, Asked
  <2> QED BY <1>1, <2>1, <2>2, SameLearns DEF Allowed, Promise!Next
<1>5. CASE DeliverProgress(t)
  <2> DEFINE new   == MoveTo(view[t], "delivering")
             moved == view[t].state # "delivering"
  <2>1. /\ Commit(t, new, moved) /\ UNCHANGED deleted
        /\ disk' = IF disk = "final" THEN disk ELSE "partial"
    BY <1>5 DEF DeliverProgress
  <2>2. /\ new \in AnyRow /\ new.state = "delivering" /\ new.failures = view[t].failures
        /\ new.ctl = view[t].ctl /\ new.remote = view[t].remote
        /\ new.queued = view[t].queued /\ new.files = view[t].files
        /\ new.requested = view[t].requested /\ new.deleteFiles = view[t].deleteFiles
        /\ new.remoteDone = view[t].remoteDone
    BY <1>1 DEF AnyRow, MoveTo, JobStates
  <2>3. moved \in BOOLEAN /\ (moved \/ new.state = view[t].state)
    BY <2>2
  <2> HIDE DEF new, moved
  <2>4. Sound(new) /\ Grown(view[t], new)
    BY <1>1, <2>2 DEF Sound, Grown
  <2>5. RowLearns
    BY <1>1, <2>1, <2>2, <2>4, CommitLearns
  <2>6. /\ row'.state \in {row.state, "delivering"} /\ row'.failures = row.failures
        /\ row'.remoteDone = row.remoteDone /\ row'.deleteFiles = row.deleteFiles
        /\ row'.requested = row.requested
        /\ row'.remote = row.remote /\ row'.queued = row.queued /\ row'.files = row.files
    <3>1. CASE CanCommit(t, moved)
      BY <1>1, <2>1, <2>2, <2>3, <3>1, CommitMoves DEF Column
    <3>2. CASE ~CanCommit(t, moved)
      BY <2>1, <3>2 DEF Commit
    <3> QED BY <3>1, <3>2
  <2>7. Learnt' = Learnt
    <3>1. \A k : k \in Learnt' <=> k \in Learnt
      BY <2>6, LearntIs, LearntIsNext
    <3> QED BY <3>1
  <2>8. Asked' = Asked
    <3>1. \A k : k \in Asked' <=> k \in Asked
      BY <2>6, AskedIs, AskedIsNext
    <3> QED BY <3>1
  <2>9. Promise!Receive
    <3>1. row'.state \in {row.state} \cup {"delivering" : p \in {row.state} \ Promise!Terminal}
      BY <1>3, <2>6
    <3>2. disk' \in IF disk = "final" THEN {"final"} ELSE {"partial", "final"}
      BY <2>1
    <3> QED BY <1>2, <2>1, <2>6, <2>7, <2>8, <3>1, <3>2 DEF Promise!Receive, Learnt, Asked
  <2> QED BY <1>1, <2>5, <2>9 DEF Allowed, Promise!Next
<1> QED BY <1>4, <1>5

\* What a cleanup commits.
LEMMA CleanupLearns ==
  ASSUME Faithful, NEW t \in Readers, ~deleted, NEW new \in AnyRow, NEW p,
         new.ctl = view[t].ctl, new.state = view[t].state, new.failures = view[t].failures,
         new.remote = view[t].remote, new.queued = view[t].queued,
         new.files = view[t].files, new.requested = view[t].requested,
         new.deleteFiles = view[t].deleteFiles, CleanupCommit(t, new, p)
  PROVE  /\ RowLearns /\ Sound(new) /\ Grown(new, row')
         /\ row'.remoteDone = Column(view[t].remoteDone, new.remoteDone, row.remoteDone)
         /\ row'.state = row.state /\ row'.failures = row.failures
         /\ Learnt' = Learnt /\ Asked' = Asked /\ UNCHANGED <<deleted, disk>>
<1>1. Commit(t, new, FALSE) /\ UNCHANGED <<deleted, disk>> /\ CanCommit(t, FALSE)
  BY DEF CleanupCommit, CanCommit
<1>2. Sound(new) /\ Grown(view[t], new)
  BY ReaderKnows DEF Sound, Grown
<1>3. row' = Merged(view[t], new)
  BY <1>1 DEF Commit
<1>4. RowLearns /\ Grown(new, row')
  BY <1>2, <1>3, ReaderKnows, MergedLearns DEF RowLearns
<1>5. /\ row'.state = row.state /\ row'.failures = row.failures
      /\ row'.remote = row.remote /\ row'.queued = row.queued /\ row'.files = row.files
      /\ row'.requested = row.requested /\ row'.deleteFiles = row.deleteFiles
      /\ row'.remoteDone = Column(view[t].remoteDone, new.remoteDone, row.remoteDone)
  BY <1>3 DEF Merged, Column
<1>6. \A k : (k \in Learnt' <=> k \in Learnt) /\ (k \in Asked' <=> k \in Asked)
  BY <1>5, LearntIs, LearntIsNext, AskedIs, AskedIsNext
<1>7. Learnt' = Learnt
  BY <1>6
<1>8. Asked' = Asked
  BY <1>6
<1> QED BY <1>1, <1>2, <1>4, <1>5, <1>7, <1>8

\* What a task of the cleanup knows.
LEMMA AtCleanup ==
  ASSUME Faithful, NEW t \in Tasks, pc[t] \in CleanupSteps
  PROVE  /\ t \in Readers /\ ~deleted /\ view[t] \in AnyRow /\ row.requested
         /\ Grants(view[t], row)
         /\ pc[t] \in {"unlink", "unlinked", "drop"} => row.remoteDone
<1>1. pc[t] # "idle"
  BY DEF CleanupSteps
<1>2. t \in Readers /\ ~deleted
  BY <1>1, WorkersRead
<1>3. Grants(view[t], row)
  BY <1>1 DEF Faithful, Budgeted, Cleaning, Inside
<1> QED BY <1>2, <1>3, ReaderKnows DEF Placed

\* The cleanup: TorBox lets go first, and only what was asked for is deleted.
LEMMA CleanupAllowed ==
  ASSUME Faithful, NEW t \in Tasks, RemoteDone(t) \/ Unlink(t) \/ LocalDone(t) \/ Drop(t)
  PROVE  RowLearns /\ Allowed
<1>0. pc[t] \in CleanupSteps
  BY DEF RemoteDone, Unlink, LocalDone, Drop, At, CleanupSteps
<1>1. t \in Readers /\ ~deleted /\ view[t] \in AnyRow /\ row.requested /\ Grants(view[t], row)
  BY <1>0, AtCleanup
<1>2. CASE RemoteDone(t)
  <2> DEFINE new == [view[t] EXCEPT !.remoteDone = TRUE]
  <2>1. /\ new \in AnyRow /\ new.ctl = view[t].ctl /\ new.state = view[t].state
        /\ new.failures = view[t].failures
        /\ new.remote = view[t].remote /\ new.queued = view[t].queued
        /\ new.files = view[t].files /\ new.requested = view[t].requested
        /\ new.deleteFiles = view[t].deleteFiles /\ new.remoteDone
    BY <1>1 DEF AnyRow
  <2>2. CleanupCommit(t, new, AfterRemote(view[t]))
    BY <1>2 DEF RemoteDone
  <2> HIDE DEF new
  <2>3. /\ RowLearns /\ row'.state = row.state /\ row'.failures = row.failures
        /\ Learnt' = Learnt /\ Asked' = Asked /\ UNCHANGED <<deleted, disk>>
        /\ row'.remoteDone = Column(view[t].remoteDone, new.remoteDone, row.remoteDone)
    BY <1>1, <2>1, <2>2, CleanupLearns
  <2>4. row'.remoteDone = TRUE
    BY <1>1, <2>1, <2>3 DEF Column, Grants, AnyRow
  <2>5. Promise!Release
    BY <1>1, <2>3, <2>4, AskedIs DEF Promise!Release, Learnt, Asked
  <2> QED BY <1>1, <2>3, <2>5 DEF Allowed, Promise!Next
<1>3. CASE LocalDone(t)
  <2> DEFINE new == [view[t] EXCEPT !.localDone = TRUE]
  <2>1. /\ new \in AnyRow /\ new.ctl = view[t].ctl /\ new.state = view[t].state
        /\ new.failures = view[t].failures
        /\ new.remote = view[t].remote /\ new.queued = view[t].queued
        /\ new.files = view[t].files /\ new.requested = view[t].requested
        /\ new.deleteFiles = view[t].deleteFiles /\ new.remoteDone = view[t].remoteDone
    BY <1>1 DEF AnyRow
  <2>2. CleanupCommit(t, new, "drop")
    BY <1>3 DEF LocalDone
  <2> HIDE DEF new
  <2>3. /\ RowLearns /\ row'.state = row.state /\ row'.failures = row.failures
        /\ Learnt' = Learnt /\ Asked' = Asked /\ UNCHANGED <<deleted, disk>>
        /\ row'.remoteDone = row.remoteDone
    BY <1>1, <2>1, <2>2, CleanupLearns DEF Column
  <2> QED BY <2>3 DEF Allowed, Promise!vars, Learnt, Asked
<1>4. CASE Unlink(t)
  <2>1. UNCHANGED <<row, deleted>> /\ disk' \in {"none", disk} /\ pc[t] = "unlink"
    BY <1>4 DEF Unlink, At
  <2>2. row.remoteDone /\ row.deleteFiles
    BY <1>0, <1>1, <2>1, AtCleanup DEF Faithful, Budgeted, Cleaning, Inside, Grants
  <2>3. CASE disk' = disk
    BY <2>1, <2>3, SameSeen, SameLearns DEF Allowed
  <2>4. CASE disk' = "none"
    <3>1. Promise!Discard
      BY <2>1, <2>2, <2>4, AskedIs DEF Promise!Discard, Learnt, Asked
    <3> QED BY <1>1, <2>1, <3>1, SameLearns DEF Allowed, Promise!Next
  <2> QED BY <2>1, <2>3, <2>4
<1>5. CASE Drop(t)
  <2>1. UNCHANGED <<row, disk>> /\ deleted' = TRUE /\ pc[t] = "drop"
    BY <1>5 DEF Drop, At
  <2>2. row.remoteDone
    BY <1>0, <2>1, AtCleanup
  <2>3. Promise!Vanish
    BY <1>1, <2>1, <2>2, AskedIs DEF Promise!Vanish, Learnt, Asked
  <2> QED BY <1>1, <2>1, <2>3, SameLearns DEF Allowed, Promise!Next
<1> QED BY <1>2, <1>3, <1>4, <1>5

-----------------------------------------------------------------------------
(***************************************************************************)
(* The requests.                                                           *)
(***************************************************************************)
\* A command that says nothing of what the promise speaks of.
LEMMA CommandAllowed ==
  ASSUME Faithful, NEW c \in Readers, NEW new \in AnyRow, NEW next,
         new.ctl # "removing" \/ new.ctl = view[c].ctl,
         new.state = view[c].state, new.failures = view[c].failures,
         new.remote = view[c].remote, new.queued = view[c].queued,
         new.files = view[c].files, new.requested = view[c].requested,
         new.deleteFiles = view[c].deleteFiles, new.remoteDone = view[c].remoteDone,
         ControlCommit(c, new, FALSE, next)
  PROVE  RowLearns /\ Allowed
<1>1. Commit(c, new, FALSE) /\ UNCHANGED <<deleted, disk>>
  BY DEF ControlCommit
<1>2. Sound(new) /\ Grown(view[c], new)
  BY ReaderKnows DEF Sound, Grown
<1>3. RowLearns
  BY <1>1, <1>2, CommitLearns
<1>4. /\ UNCHANGED <<row.state, row.failures, row.remoteDone, row.queued, row.remote, row.files>>
      /\ UNCHANGED <<row.requested, row.deleteFiles>>
  BY <1>1 DEF Commit, Merged, Column
<1> QED BY <1>1, <1>3, <1>4, SameSeen DEF Allowed

\* Pause and resume, accepted or not.
LEMMA DecidesAllowed ==
  ASSUME Faithful, NEW c \in Controllers, Ignore(c) \/ Pause(c) \/ Resume(c)
  PROVE  RowLearns /\ Allowed
<1> DEFINE r == view[c]
<1>0. c \in Readers /\ r \in AnyRow
  BY ReaderKnows DEF Ignore, Pause, Resume, Decides, Readers
<1>1. CASE Ignore(c)
  <2>1. ControlCommit(c, r, FALSE, "ungate")
    BY <1>1 DEF Ignore
  <2> QED BY <1>0, <2>1, CommandAllowed
<1>2. CASE Pause(c)
  <2> DEFINE new  == [r EXCEPT !.ctl = "paused", !.scope = "local"]
             next == IF r.remote /\ r.state = "provider_downloading"
                       THEN "provider" ELSE "ungate"
  <2>1. ControlCommit(c, new, FALSE, next)
    BY <1>2 DEF Pause
  <2>2. /\ new \in AnyRow /\ new.ctl = "paused" /\ new.state = r.state
        /\ new.failures = r.failures /\ new.remote = r.remote /\ new.queued = r.queued
        /\ new.files = r.files /\ new.requested = r.requested
        /\ new.deleteFiles = r.deleteFiles /\ new.remoteDone = r.remoteDone
    BY <1>0 DEF AnyRow, ControlStates, Scopes
  <2> HIDE DEF new, next
  <2> QED BY <1>0, <2>1, <2>2, CommandAllowed
<1>3. CASE Resume(c)
  <2> DEFINE new  == [r EXCEPT !.ctl = "running", !.scope = "none"]
             next == IF r.remote /\ r.scope = "local_and_provider"
                       THEN "provider" ELSE "ungate"
  <2>1. ControlCommit(c, new, FALSE, next)
    BY <1>3 DEF Resume
  <2>2. /\ new \in AnyRow /\ new.ctl = "running" /\ new.state = r.state
        /\ new.failures = r.failures /\ new.remote = r.remote /\ new.queued = r.queued
        /\ new.files = r.files /\ new.requested = r.requested
        /\ new.deleteFiles = r.deleteFiles /\ new.remoteDone = r.remoteDone
    BY <1>0 DEF AnyRow, ControlStates, Scopes
  <2> HIDE DEF new, next
  <2> QED BY <1>0, <2>1, <2>2, CommandAllowed
<1> QED BY <1>1, <1>2, <1>3

\* A retry goes back to a phase the row can prove.
LEMMA RetryAllowed ==
  ASSUME Faithful, RowGrows, NEW c \in Controllers, Retry(c)
  PROVE  RowLearns /\ Allowed
<1> DEFINE r   == view[c]
           s   == RetryState(r)
           new == [r EXCEPT !.ctl = "running", !.failures = 0, !.state = s]
<1>0. c \in Readers /\ r \in AnyRow /\ Sound(r)
  BY ReaderKnows DEF Retry, Decides, Readers
<1>1. /\ s \in Stages
      /\ s = "delivering" => r.files
      /\ s = "provider_downloading" => r.remote
      /\ s = "provider_queued" => r.queued
      /\ s # "provider_ready" /\ s # "completed"
  BY DEF RetryState, Stages, JobStates
<1>2. ControlCommit(c, new, TRUE, "ungate") /\ r.state \in {"failed", "retry_wait"}
  BY DEF Retry, Accepts
<1> HIDE DEF s
<1>3. /\ new \in AnyRow /\ new.ctl = "running" /\ new.state = s
      /\ new.failures = 0 /\ new.remote = r.remote /\ new.queued = r.queued
      /\ new.files = r.files /\ new.requested = r.requested
      /\ new.deleteFiles = r.deleteFiles /\ new.remoteDone = r.remoteDone
  BY <1>0, <1>1 DEF AnyRow, ControlStates, Stages
<1> HIDE DEF new
<1>4. Commit(c, new, TRUE) /\ UNCHANGED <<deleted, disk>>
  BY <1>2 DEF ControlCommit
<1>5. Sound(new) /\ Grown(r, new)
  BY <1>0, <1>1, <1>3 DEF Sound, Grown
<1>6. RowLearns
  BY <1>0, <1>3, <1>4, <1>5, CommitLearns
<1>7. CASE ~CanCommit(c, TRUE)
  <2>1. row' = row BY <1>4, <1>7 DEF Commit
  <2> QED BY <1>4, <1>6, <2>1, SameSeen DEF Allowed
<1>8. CASE CanCommit(c, TRUE)
  <2>1. /\ row'.state = s /\ row'.failures \in {0, row.failures}
        /\ row'.remoteDone = row.remoteDone /\ row'.deleteFiles = row.deleteFiles
        /\ row'.requested = row.requested
        /\ row'.remote = row.remote /\ row'.queued = row.queued /\ row'.files = row.files
    BY <1>0, <1>3, <1>4, <1>8, CommitMoves DEF Column
  <2>2. row.state \in {"failed", "retry_wait"} /\ ~deleted
    BY <1>0, <1>2, <1>8 DEF CanCommit, Faithful, Budgeted, Fresh
  <2>3. Learnt' = Learnt
    <3>1. \A k : k \in Learnt' <=> k \in Learnt
      BY <2>1, LearntIs, LearntIsNext
    <3> QED BY <3>1
  <2>4. Asked' = Asked
    <3>1. \A k : k \in Asked' <=> k \in Asked
      BY <2>1, AskedIs, AskedIsNext
    <3> QED BY <3>1
  <2>5. Promise!Needs[row'.state] \subseteq Learnt
    BY <1>6, <2>3, NeedsMet DEF RowGrows, RowLearns
  <2>6. row'.state \in {p \in Promise!Stages : Promise!Needs[p] \subseteq Learnt}
    BY <1>1, <2>1, <2>5, NeedsAre DEF Promise!Stages, Promise!Terminal, Stages
  <2>7. Promise!Restart
    BY <1>4, <2>1, <2>2, <2>3, <2>4, <2>6 DEF Promise!Restart, Learnt, Asked
  <2> QED BY <1>6, <2>2, <2>7 DEF Allowed, Promise!Next
<1> QED BY <1>7, <1>8

\* A removal asks, and may ask for more than the ones before it.
LEMMA RemoveAllowed ==
  ASSUME Faithful, RowGrows, NEW c \in Controllers, Remove(c)
  PROVE  RowLearns /\ Allowed
<1> DEFINE r   == view[c]
           b   == r.deleteFiles \/ con[c].cmd = "remove_files"
           new == [r EXCEPT !.ctl = "removing", !.requested = TRUE, !.deleteFiles = b]
<1>0. c \in Readers /\ r \in AnyRow /\ Sound(r) /\ Grown(r, row) /\ b \in BOOLEAN
  BY ReaderKnows DEF Remove, Decides, Readers
<1>1. CASE UNCHANGED <<row, deleted, disk>>
  BY <1>1, SameSeen, SameLearns DEF Allowed
<1>2. CASE ControlCommit(c, new, FALSE, "process")
  <2> HIDE DEF b
  <2>1. /\ new \in AnyRow /\ new.ctl = "removing" /\ new.state = r.state
        /\ new.failures = r.failures /\ new.remote = r.remote /\ new.queued = r.queued
        /\ new.files = r.files /\ new.requested = TRUE /\ new.remoteDone = r.remoteDone
    BY <1>0 DEF AnyRow, ControlStates
  <2> HIDE DEF new
  <2>2. Commit(c, new, FALSE) /\ UNCHANGED <<deleted, disk>>
    BY <1>2 DEF ControlCommit
  <2>3. Sound(new) /\ Grown(r, new)
    BY <1>0, <2>1 DEF Sound, Grown
  <2>4. RowLearns
    BY <1>0, <2>1, <2>2, <2>3, CommitLearns
  <2>5. CASE ~CanCommit(c, FALSE)
    <3>1. row' = row BY <2>2, <2>5 DEF Commit
    <3> QED BY <2>2, <2>4, <3>1, SameSeen DEF Allowed
  <2>6. CASE CanCommit(c, FALSE)
    <3>1. row' = Merged(r, new)
      BY <2>2, <2>6 DEF Commit
    <3>2. /\ row'.state = row.state /\ row'.failures = row.failures
          /\ row'.remoteDone = row.remoteDone
          /\ row'.remote = row.remote /\ row'.queued = row.queued /\ row'.files = row.files
          /\ row'.requested = Column(r.requested, TRUE, row.requested)
      BY <2>1, <3>1 DEF Merged, Column
    <3>3. row'.requested
      BY <1>0, <3>2 DEF Column, Grown, AnyRow
    <3>4. row.deleteFiles => row'.deleteFiles
      BY DEF RowGrows, Grants
    <3>5. Learnt' = Learnt
      <4>1. \A k : k \in Learnt' <=> k \in Learnt
        BY <3>2, LearntIs, LearntIsNext
      <4> QED BY <4>1
    <3>6. Asked' \in {{"job"}, {"job", "files"}} /\ Asked \subseteq Asked'
      <4>1. \A k \in Asked : k \in Asked'
        BY <3>3, <3>4, AskedIs, AskedIsNext
      <4>2. CASE row'.deleteFiles
        <5>1. \A k : k \in Asked' <=> k \in {"job", "files"}
          BY <3>3, <4>2, AskedIsNext
        <5>2. Asked' = {"job", "files"}
          BY <5>1
        <5> QED BY <4>1, <5>2
      <4>3. CASE ~row'.deleteFiles
        <5>1. \A k : k \in Asked' <=> k \in {"job"}
          BY <3>3, <4>3, AskedIsNext
        <5>2. Asked' = {"job"}
          BY <5>1
        <5> QED BY <4>1, <5>2
      <4> QED BY <4>2, <4>3
    <3>7. Promise!Ask
      BY <2>2, <3>2, <3>5, <3>6 DEF Promise!Ask, Learnt, Asked
    <3> QED BY <2>4, <2>6, <3>7 DEF Allowed, Promise!Next, CanCommit
  <2> QED BY <2>5, <2>6
<1> QED BY <1>1, <1>2 DEF Remove, providerVars

\* The other steps of a request.
LEMMA AnswersAllowed ==
  ASSUME Faithful, NEW c \in Controllers,
         \/ Request(c) \/ LoadForControl(c) \/ ProcessRefused(c) \/ ProcessReturns(c)
         \/ ServeControl(c) \/ ProviderAnswers(c) \/ ProviderFails(c) \/ ControlRefused(c)
         \/ Ungate(c)
  PROVE  RowLearns /\ Allowed
<1>0. row \in AnyRow /\ Sound(row)
  BY DEF Faithful, Learned, Budgeted, Cleaning, Typed
<1>1. UNCHANGED <<deleted, disk>>
  BY DEF Request, LoadForControl, ProcessRefused, ProcessReturns, ServeControl,
     ProviderAnswers, ProviderFails, ControlRefused, Ungate
<1>2. \/ UNCHANGED row
      \/ row' = [row EXCEPT !.ctl = "paused"]
      \/ \E s \in Scopes : row' = [row EXCEPT !.scope = s]
  BY DEF Request, LoadForControl, ProcessRefused, ProcessReturns, ServeControl,
     ProviderAnswers, ProviderFails, ControlRefused, Ungate, Scopes
<1>3. /\ UNCHANGED <<row.state, row.failures, row.remoteDone, row.queued, row.remote, row.files>>
      /\ UNCHANGED <<row.requested, row.deleteFiles>>
      /\ row'.ctl \in {row.ctl, "paused"}
  BY <1>0, <1>2 DEF AnyRow
<1>4. RowLearns
  BY <1>0, <1>3 DEF RowLearns, Sound, Grown
<1> QED BY <1>1, <1>3, <1>4, SameSeen DEF Allowed

-----------------------------------------------------------------------------
(***************************************************************************)
(* What sessions know, after every shape a step can have.                  *)
(***************************************************************************)
\* Only the session and the place of t change.
LEMMA SessionsKeep ==
  ASSUME Faithful, RowLearns, RowGrows, NEW t \in Tasks,
         \A u \in Tasks : u # t => view'[u] = view[u] /\ pc'[u] = pc[u],
         \A d \in Controllers : d # t => con'[d] = con[d],
         Sound(view'[t]), t \in Readers' => Grown(view'[t], row'), Placed(t)'
  PROVE  Learned'
<1>1. ASSUME NEW u \in Tasks PROVE Sound(view'[u]) /\ Placed(u)'
  <2>1. CASE u = t
    BY <2>1
  <2>2. CASE u # t
    BY <2>2 DEF Faithful, Learned, Placed, RowLearns, RowGrows, Grown, Grants
  <2> QED BY <2>1, <2>2
<1>2. ASSUME NEW u \in Readers' PROVE Grown(view'[u], row')
  <2>1. CASE u = t
    BY <1>2, <2>1
  <2>2. CASE u # t
    <3>1. u \in Readers /\ u \in Tasks
      BY <2>2 DEF Readers, Tasks
    <3> QED BY <2>2, <3>1 DEF Faithful, Learned, RowLearns, Grown
  <2> QED BY <2>1, <2>2
<1> QED BY <1>1, <1>2 DEF Learned, RowLearns

\* A task that leaves takes its session along.
LEMMA LeavingLearns ==
  ASSUME Faithful, RowLearns, RowGrows, NEW t \in Tasks, pc[t] # "idle", Exit(t)
  PROVE  Learned'
<1>1. /\ \A u \in Tasks : u # t => view'[u] = view[u] /\ pc'[u] = pc[u]
      /\ view'[t] = NewRow /\ pc'[t] = "idle" /\ UNCHANGED con
  BY DEF Exit, Faithful, Budgeted, Cleaning, Registered, Typed
<1>2. Sound(view'[t])
  BY <1>1 DEF Sound, NewRow
<1>3. t \notin Readers'
  BY <1>1 DEF Readers, Faithful, Budgeted, Cleaning, Inside
<1>4. Placed(t)'
  BY <1>1 DEF Placed, CleanupSteps
<1> QED BY <1>1, <1>2, <1>3, <1>4, SessionsKeep

\* A task that enters has just loaded the row.
LEMMA EnteringLearns ==
  ASSUME Faithful, RowLearns, RowGrows, NEW t \in Tasks, NEW s \in ProcessSteps, Enter(t, s),
         s = "deliver" => row'.remote /\ row'.files,
         s = "prepare" => row'.remote,
         s = "poll_queued" => row'.queued,
         s \in {"find", "find_queued"} => ~row'.remote,
         s \in CleanupSteps => row'.requested,
         s \in {"unlink", "unlinked", "drop"} => row'.remoteDone
  PROVE  Learned'
<1>1. /\ pc' = [pc EXCEPT ![t] = s] /\ view' = [view EXCEPT ![t] = row']
      /\ con' = IF t \in Controllers THEN [con EXCEPT ![t].step = "inline"] ELSE con
  BY DEF Enter
<1>2. /\ \A u \in Tasks : u # t => view'[u] = view[u] /\ pc'[u] = pc[u]
      /\ view'[t] = row' /\ pc'[t] = s
  BY <1>1 DEF Faithful, Budgeted, Cleaning, Registered, Typed
<1>3. \A d \in Controllers : d # t => con'[d] = con[d]
  BY <1>1 DEF Faithful, Budgeted, Cleaning, Typed
<1>4. Sound(view'[t]) /\ Grown(view'[t], row')
  BY <1>2, GrownSelf DEF RowLearns
<1>5. Placed(t)'
  BY <1>2 DEF Placed
<1> QED BY <1>2, <1>3, <1>4, <1>5, SessionsKeep

\* A task that goes on with the session it has.
LEMMA MovingLearns ==
  ASSUME Faithful, RowLearns, RowGrows, NEW t \in Tasks, pc[t] # "idle", NEW p, Goto(t, p),
         UNCHANGED <<view, con>>,
         p \notin {"deliver", "prepare", "poll_queued"},
         p \in {"find", "find_queued"} => ~view[t].remote,
         p \in CleanupSteps => row'.requested,
         p \in {"unlink", "unlinked", "drop"} => row'.remoteDone
  PROVE  Learned'
<1>1. /\ \A u \in Tasks : u # t => view'[u] = view[u] /\ pc'[u] = pc[u]
      /\ view'[t] = view[t] /\ pc'[t] = p
  BY DEF Goto, Faithful, Budgeted, Cleaning, Registered
<1>2. t \in Readers /\ Sound(view[t])
  BY WorkersRead, ReaderKnows
<1>3. Grown(view'[t], row')
  BY <1>1, <1>2, ReaderKnows DEF RowLearns, Grown
<1>4. Placed(t)'
  BY <1>1 DEF Placed
<1> QED BY <1>1, <1>2, <1>3, <1>4, SessionsKeep

\* A request goes on with no session, with the one it has, or with the row.
LEMMA RequestLearns ==
  ASSUME Faithful, RowLearns, RowGrows, NEW c \in Controllers, pc[c] = "idle", UNCHANGED pc,
         \A u \in Tasks : u # c => view'[u] = view[u],
         \A d \in Controllers : d # c => con'[d] = con[d],
         view'[c] \in {view[c], NewRow, row},
         con'[c].step = "loaded" => view'[c] = row
  PROVE  Learned'
<1>0. c \in Tasks
  BY DEF Tasks
<1>1. Sound(view'[c])
  BY <1>0 DEF Faithful, Learned, Sound, NewRow
<1>2. c \in Readers' => Grown(view'[c], row')
  BY DEF Readers, RowLearns
<1>3. Placed(c)'
  BY DEF Placed, CleanupSteps
<1> QED BY <1>0, <1>1, <1>2, <1>3, SessionsKeep

\* The steps that end an attempt.
LEMMA EndsLearn ==
  ASSUME Faithful, RowLearns, RowGrows, NEW t \in Tasks,
         \/ FindTorrent(t) \/ FindQueued(t) \/ Created(t) \/ Enqueued(t)
         \/ PollQueuedBinds(t) \/ PollQueuedStarted(t) \/ PollQueuedWaits(t)
         \/ PollRemote(t) \/ PrepareDelivery(t) \/ Delivered(t) \/ Drop(t)
         \/ Errs(t) \/ Unwind(t) \/ CommitRefused(t)
  PROVE  Learned'
<1>1. Exit(t) /\ pc[t] # "idle"
  BY DEF FindTorrent, FindQueued, Created, Enqueued, PollQueuedBinds,
     PollQueuedStarted, PollQueuedWaits, PollRemote, PrepareDelivery, Delivered, Drop,
     Errs, ReconcileFails, CreateFails, PollFails, DeliverFails, CleanupFails,
     FailFrom, FailSubmission, Fail, Succeed, BindTorrent, Unwind, CommitRefused,
     CommitPoints, Leave, At
<1> QED BY <1>1, LeavingLearns

\* Which step a task enters at says what the row it loaded has.
LEMMA StartsLearn ==
  ASSUME Faithful, RowLearns, RowGrows, NEW t \in Tasks, Starts(t)
  PROVE  Learned'
<1>0. row \in AnyRow /\ Sound(row)
  BY DEF Faithful, Learned, Budgeted, Cleaning, Typed
<1>1. CASE StartCreate(t)
  <2>1. Enter(t, "create") /\ "create" \in ProcessSteps
    BY <1>1 DEF StartCreate, ProcessSteps
  <2> QED BY <2>1, EnteringLearns DEF CleanupSteps
<1>2. CASE StartReconcile(t)
  <2>1. Enter(t, "find") /\ "find" \in ProcessSteps /\ ~row'.remote
    BY <1>2 DEF StartReconcile, NextIsSubmit, ProcessSteps
  <2> QED BY <2>1, EnteringLearns DEF CleanupSteps
<1>3. CASE StartPollQueued(t)
  <2>1. Enter(t, "poll_queued") /\ "poll_queued" \in ProcessSteps /\ row'.queued
    BY <1>3 DEF StartPollQueued, NextIsPollQueued, ProcessSteps
  <2> QED BY <2>1, EnteringLearns DEF CleanupSteps
<1>4. CASE StartPollRemote(t)
  <2>1. Enter(t, "poll_remote") /\ "poll_remote" \in ProcessSteps
    BY <1>4 DEF StartPollRemote, ProcessSteps
  <2> QED BY <2>1, EnteringLearns DEF CleanupSteps
<1>5. CASE StartPrepare(t)
  <2>1. Enter(t, "prepare") /\ "prepare" \in ProcessSteps /\ row'.remote
    BY <1>5 DEF StartPrepare, NextIsPrepare, ProcessSteps
  <2> QED BY <2>1, EnteringLearns DEF CleanupSteps
<1>6. CASE StartDeliver(t)
  <2>1. Enter(t, "deliver") /\ "deliver" \in ProcessSteps /\ row'.remote /\ row'.files
    BY <1>6 DEF StartDeliver, NextIsDeliver, ProcessSteps
  <2> QED BY <2>1, EnteringLearns DEF CleanupSteps
<1>7. CASE StartCleanup(t)
  <2> DEFINE s == IF row.remoteDone THEN AfterRemote(row)
                  ELSE IF HasIdentity(row) THEN "delete" ELSE "deleted"
  <2>1. Enter(t, s) /\ row' = row /\ row.requested
    BY <1>0, <1>7 DEF StartCleanup, Sound
  <2>2. /\ s \in {"delete", "deleted", "unlink", "drop"}
        /\ s \in {"unlink", "unlinked", "drop"} => row.remoteDone
    BY DEF AfterRemote
  <2> HIDE DEF s
  <2>3. s \in ProcessSteps
    BY <2>2 DEF ProcessSteps
  <2> QED BY <2>1, <2>2, <2>3, EnteringLearns
<1> QED BY <1>1, <1>2, <1>3, <1>4, <1>5, <1>6, <1>7 DEF Starts

\* The steps that go on.
LEMMA GoesOnLearn ==
  ASSUME Faithful, RowLearns, RowGrows, NEW t \in Tasks,
         FindNothing(t) \/ FindQueuedNothing(t) \/ Serves(t) \/ Unlink(t)
  PROVE  Learned'
<1>1. pc[t] # "idle" /\ UNCHANGED <<row, view, con>> /\ t \in Tasks
  BY DEF FindNothing, FindQueuedNothing, Serves, ServeCreate, ServeDelete, Unlink, At
<1>2. Placed(t)
  BY DEF Faithful, Learned
<1>3. CASE FindNothing(t)
  <2>1. Goto(t, "find_queued") /\ ~view[t].remote
    BY <1>2, <1>3 DEF FindNothing, At, Placed
  <2> QED BY <1>1, <2>1, MovingLearns DEF CleanupSteps
<1>4. CASE FindQueuedNothing(t)
  <2>1. Goto(t, "recreate")
    BY <1>4 DEF FindQueuedNothing
  <2> QED BY <1>1, <2>1, MovingLearns DEF CleanupSteps
<1>5. CASE ServeCreate(t)
  <2>1. Goto(t, "enqueued") \/ Goto(t, "created")
    BY <1>5 DEF ServeCreate
  <2> QED BY <1>1, <2>1, MovingLearns DEF CleanupSteps
<1>6. CASE ServeDelete(t)
  <2>1. Goto(t, "deleted") /\ row'.requested
    BY <1>1, <1>2, <1>6 DEF ServeDelete, Placed, CleanupSteps
  <2> QED BY <1>1, <2>1, MovingLearns DEF CleanupSteps
<1>7. CASE Unlink(t)
  <2>1. Goto(t, "unlinked") /\ row'.requested /\ row'.remoteDone
    BY <1>1, <1>2, <1>7 DEF Unlink, At, Placed, CleanupSteps
  <2> QED BY <1>1, <2>1, MovingLearns DEF CleanupSteps
<1> QED BY <1>3, <1>4, <1>5, <1>6, <1>7 DEF Serves

\* What a cleanup has committed is in its session and in the row.
LEMMA CleanupLearn ==
  ASSUME Faithful, RowLearns, RowGrows, NEW t \in Tasks, RemoteDone(t) \/ LocalDone(t)
  PROVE  Learned'
<1> DEFINE new == IF RemoteDone(t) THEN [view[t] EXCEPT !.remoteDone = TRUE]
                                   ELSE [view[t] EXCEPT !.localDone = TRUE]
           p   == IF RemoteDone(t) THEN AfterRemote(view[t]) ELSE "drop"
<1>0. pc[t] \in CleanupSteps /\ pc[t] = IF RemoteDone(t) THEN "deleted" ELSE "unlinked"
  BY DEF RemoteDone, LocalDone, At, CleanupSteps
<1>1. /\ t \in Readers /\ ~deleted /\ view[t] \in AnyRow /\ row.requested
      /\ ~RemoteDone(t) => row.remoteDone
  BY <1>0, AtCleanup
<1>2. CleanupCommit(t, new, p)
  BY DEF RemoteDone, LocalDone
<1>3. /\ new \in AnyRow /\ new.ctl = view[t].ctl /\ new.state = view[t].state
      /\ new.failures = view[t].failures
      /\ new.remote = view[t].remote /\ new.queued = view[t].queued
      /\ new.files = view[t].files /\ new.requested = view[t].requested
      /\ new.deleteFiles = view[t].deleteFiles
      /\ RemoteDone(t) => new.remoteDone
  BY <1>1 DEF AnyRow
<1>4. p \in {"unlink", "drop"}
  BY DEF AfterRemote
<1> HIDE DEF new, p
<1>5. /\ Sound(new) /\ Grown(new, row')
      /\ row'.remoteDone = Column(view[t].remoteDone, new.remoteDone, row.remoteDone)
  BY <1>1, <1>2, <1>3, CleanupLearns
<1>6. row'.requested /\ row'.remoteDone
  <2>1. row'.requested
    BY <1>1 DEF RowLearns, Grown
  <2>2. Grants(view[t], row)
    BY <1>0, AtCleanup
  <2>3. CASE RemoteDone(t)
    BY <1>1, <1>3, <1>5, <2>1, <2>2, <2>3 DEF Column, Grants, AnyRow
  <2>4. CASE ~RemoteDone(t)
    BY <1>1, <2>1, <2>4 DEF RowGrows, Grants
  <2> QED BY <2>1, <2>3, <2>4
<1>7. view' = [view EXCEPT ![t] = new] /\ Goto(t, p) /\ UNCHANGED con
  BY <1>2 DEF CleanupCommit
<1>8. /\ \A u \in Tasks : u # t => view'[u] = view[u] /\ pc'[u] = pc[u]
      /\ view'[t] = new /\ pc'[t] = p
  BY <1>7 DEF Goto, Faithful, Budgeted, Cleaning, Registered, Typed
<1>9. Placed(t)'
  BY <1>4, <1>6, <1>8 DEF Placed
<1> QED BY <1>5, <1>7, <1>8, <1>9, SessionsKeep

\* The first progress commits the phase to the row and to the session.
LEMMA DeliverLearn ==
  ASSUME Faithful, RowLearns, RowGrows, NEW t \in Tasks, DeliverProgress(t) \/ Publish(t)
  PROVE  Learned'
<1>0. pc[t] = "deliver" /\ pc[t] # "idle"
  BY DEF DeliverProgress, Publish, At
<1>1. /\ t \in Readers /\ ~deleted /\ view[t] \in AnyRow /\ Sound(view[t])
      /\ view[t].remote /\ view[t].files /\ Grown(view[t], row)
  BY <1>0, WorkersRead, ReaderKnows DEF Placed
<1>2. CASE Publish(t)
  <2>1. UNCHANGED <<row, pc, view, con>>
    BY <1>2 DEF Publish, sessionVars
  <2> QED BY <2>1 DEF Faithful, Learned, Placed, Readers
<1>3. CASE DeliverProgress(t)
  <2> DEFINE new   == MoveTo(view[t], "delivering")
             moved == view[t].state # "delivering"
  <2>1. /\ Commit(t, new, moved)
        /\ IF CanCommit(t, moved)
             THEN view' = [view EXCEPT ![t] = new] /\ UNCHANGED <<pc, active, con>>
             ELSE Exit(t)
    BY <1>3 DEF DeliverProgress, Leave
  <2>2. /\ new \in AnyRow /\ new.state = "delivering" /\ new.ctl = view[t].ctl
        /\ new.remote = view[t].remote /\ new.queued = view[t].queued
        /\ new.files = view[t].files /\ new.requested = view[t].requested
    BY <1>1 DEF AnyRow, MoveTo, JobStates
  <2> HIDE DEF new, moved
  <2>3. CASE ~CanCommit(t, moved)
    BY <1>0, <2>1, <2>3, LeavingLearns
  <2>4. CASE CanCommit(t, moved)
    <3>1. /\ \A u \in Tasks : u # t => view'[u] = view[u] /\ pc'[u] = pc[u]
          /\ view'[t] = new /\ pc'[t] = "deliver" /\ UNCHANGED con
      BY <1>0, <2>1, <2>4 DEF Faithful, Budgeted, Cleaning, Typed
    <3>2. Sound(new)
      BY <1>1, <2>2 DEF Sound
    <3>3. Grown(new, row')
      BY <1>1, <2>2 DEF Grown, RowLearns
    <3>4. Placed(t)'
      BY <1>1, <2>2, <3>1 DEF Placed, CleanupSteps
    <3> QED BY <3>1, <3>2, <3>3, <3>4, SessionsKeep
  <2> QED BY <2>3, <2>4
<1> QED BY <1>2, <1>3

\* The steps of a request.
LEMMA ControlLearn ==
  ASSUME Faithful, RowLearns, RowGrows, NEW c \in Controllers, Request(c) \/ Control(c)
  PROVE  Learned'
<1>0. c \in Tasks
  BY DEF Tasks
<1>1. UNCHANGED pc /\ pc[c] = "idle"
  BY DEF Request, Control, LoadForControl, Ignore, Pause, Resume, Retry, Remove, Decides,
     ControlCommit, ProcessRefused, ProcessReturns, ServeControl, ProviderAnswers,
     ProviderFails, ControlRefused, Ungate, gateVars, sessionVars, Faithful, Budgeted,
     Cleaning, Inside
<1>2. view' \in {view, [view EXCEPT ![c] = NewRow], [view EXCEPT ![c] = row]}
  BY DEF Request, Control, LoadForControl, Ignore, Pause, Resume, Retry, Remove,
     ControlCommit, ProcessRefused, ProcessReturns, ServeControl, ProviderAnswers,
     ProviderFails, ControlRefused, Ungate, gateVars, sessionVars
<1>3. \E k : /\ con' = [con EXCEPT ![c] = k]
             /\ k.step = "loaded" => view' = [view EXCEPT ![c] = row]
  <2>1. CASE LoadForControl(c)
    <3>1. CASE deleted
      <4>1. con' = [con EXCEPT ![c] = [con[c] EXCEPT !.step = "ungate"]]
        BY <2>1, <3>1 DEF LoadForControl, Move
      <4>2. [con[c] EXCEPT !.step = "ungate"].step = "ungate"
        BY DEF Faithful, Budgeted, Cleaning, Typed
      <4> QED BY <4>1, <4>2
    <3>2. CASE ~deleted
      <4>1. /\ con' = [con EXCEPT ![c] = [con[c] EXCEPT !.step = "loaded"]]
            /\ view' = [view EXCEPT ![c] = row]
        BY <2>1, <3>2 DEF LoadForControl, Move
      <4> QED BY <4>1
    <3> QED BY <3>1, <3>2
  <2>2. CASE Request(c)
    <3>1. PICK cmd \in Commands : con' = [con EXCEPT ![c] = [step |-> "stopping", cmd |-> cmd]]
      BY <2>2 DEF Request
    <3> DEFINE k == [step |-> "stopping", cmd |-> cmd]
    <3>2. con' = [con EXCEPT ![c] = k] /\ k.step = "stopping"
      BY <3>1
    <3> HIDE DEF k
    <3> QED BY <3>2
  <2>3. CASE Ungate(c)
    <3>1. con' = [con EXCEPT ![c] = Idle] /\ Idle.step = "idle"
      BY <2>3 DEF Ungate, Idle
    <3> QED BY <3>1
  <2>4. CASE ~LoadForControl(c) /\ ~Request(c) /\ ~Ungate(c)
    <3>1. \E n \in {"ungate", "process", "provider", "served"} : Move(c, n)
      BY <2>4, Zenon DEF Control, Ignore, Pause, Resume, Retry, Remove, ControlCommit,
         ProcessRefused, ProcessReturns, ServeControl, ProviderAnswers, ProviderFails,
         ControlRefused
    <3>2. PICK n \in {"ungate", "process", "provider", "served"} : Move(c, n)
      BY <3>1
    <3>3. con' = [con EXCEPT ![c] = [con[c] EXCEPT !.step = n]]
      BY <3>2 DEF Move
    <3>4. [con[c] EXCEPT !.step = n].step # "loaded"
      BY DEF Faithful, Budgeted, Cleaning, Typed
    <3> QED BY <3>3, <3>4
  <2> QED BY <2>1, <2>2, <2>3, <2>4
<1>4. PICK k : /\ con' = [con EXCEPT ![c] = k]
               /\ k.step = "loaded" => view' = [view EXCEPT ![c] = row]
  BY <1>3
<1>5. /\ \A u \in Tasks : u # c => view'[u] = view[u]
      /\ view'[c] \in {view[c], NewRow, row}
      /\ view' = [view EXCEPT ![c] = row] => view'[c] = row
  BY <1>0, <1>2 DEF Faithful, Budgeted, Cleaning, Typed
<1>6. (\A d \in Controllers : d # c => con'[d] = con[d]) /\ con'[c] = k
  BY <1>4 DEF Faithful, Budgeted, Cleaning, Typed
<1> QED BY <1>1, <1>4, <1>5, <1>6, RequestLearns

-----------------------------------------------------------------------------
\* Every step of the job is one of the promise or none, and leaves what is
\* known of the job sound.
LEMMA FaithfulStep ==
  ASSUME Faithful, [Next]_vars
  PROVE  Faithful' /\ Allowed
<1>1. Budgeted'
  BY BudgetedStep DEF Faithful
<1>2. RowGrows
  BY CleaningStep DEF Faithful, Budgeted
<1>3. CASE \E t \in Tasks : Process(t)
  <2>1. PICK t \in Tasks : Process(t)
    BY <1>3
  <2>2. RowLearns /\ Allowed
    BY <1>2, <2>1, WorksAllowed, DeliveredAllowed, ErrsAllowed, QuietAllowed, DeliverAllowed,
       CleanupAllowed DEF Process, Works
  <2>3. Learned'
    BY <1>2, <2>1, <2>2, StartsLearn, EndsLearn, GoesOnLearn, CleanupLearn, DeliverLearn
       DEF Process, Works
  <2> QED BY <1>1, <2>2, <2>3 DEF Faithful
<1>4. CASE \E c \in Controllers : Request(c) \/ Control(c)
  <2>1. PICK c \in Controllers : Request(c) \/ Control(c)
    BY <1>4
  <2>2. RowLearns /\ Allowed
    BY <1>2, <2>1, DecidesAllowed, RetryAllowed, RemoveAllowed, AnswersAllowed DEF Control
  <2>3. Learned'
    BY <1>2, <2>1, <2>2, ControlLearn
  <2> QED BY <1>1, <2>2, <2>3 DEF Faithful
<1>5. CASE TorBoxStarts \/ TorBoxFinishes \/ UNCHANGED vars
  <2>1. UNCHANGED <<row, deleted, disk, pc, view, con>>
    BY <1>5 DEF TorBoxStarts, TorBoxFinishes, vars, sessionVars
  <2>2. Learned'
    BY <2>1 DEF Faithful, Learned, Placed, Readers
  <2> QED BY <1>1, <2>1, <2>2, SameSeen DEF Faithful, Allowed
<1>6. CASE Crash
  <2>1. /\ UNCHANGED <<row, deleted, disk>>
        /\ pc' = [t \in Tasks |-> "idle"] /\ view' = [t \in Tasks |-> NewRow]
        /\ con' = [c \in Controllers |-> Idle]
    BY <1>6 DEF Crash
  <2>2. Readers' = {}
    BY <2>1 DEF Readers, Idle
  <2>3. \A t \in Tasks : Sound(view'[t]) /\ Placed(t)'
    BY <2>1 DEF Sound, NewRow, Placed, CleanupSteps
  <2>4. Learned'
    BY <2>1, <2>2, <2>3 DEF Faithful, Learned
  <2> QED BY <1>1, <2>1, <2>4, SameSeen DEF Faithful, Allowed
<1> QED BY <1>3, <1>4, <1>5, <1>6 DEF Next

\* A new job is what the promise starts with.
LEMMA FaithfulInit == Init => Faithful /\ Promise!Init
<1> SUFFICES ASSUME Init PROVE Faithful /\ Promise!Init
  OBVIOUS
<1>1. row = NewRow /\ Sound(row)
  BY DEF Init, Sound, NewRow
<1>2. \A t \in Tasks : Sound(view[t]) /\ Placed(t)
  BY DEF Init, Sound, NewRow, Placed, CleanupSteps
<1>3. Readers = {}
  BY DEF Init, Readers, Idle, Tasks
<1>4. Faithful
  BY <1>1, <1>2, <1>3, BudgetedInit DEF Faithful, Learned
<1>5. Learnt = {} /\ Asked = {}
  BY <1>1 DEF Learnt, Asked, NewRow
<1>6. Promise!Init
  BY <1>1, <1>5 DEF Init, NewRow, Promise!Init, Learnt, Asked
<1> QED BY <1>4, <1>6

\* The job service keeps its promise to Sonarr and Radarr (JobPromise): for any
\* number of requests, stale sessions, refused commits and process deaths, the
\* job looks like one whose knowledge only grows, whose phase claims no more,
\* whose failures are counted, and that is deleted only as it was asked.
THEOREM Implements == Spec => Promised
<1>1. Init => Faithful /\ Promise!Init
  BY FaithfulInit
<1>2. Faithful /\ [Next]_vars => Faithful' /\ [Promise!Next]_(Promise!vars)
  BY FaithfulStep DEF Allowed
<1> QED
  BY <1>1, <1>2, PTL DEF Spec, Promised, Promise!Spec

\* The phase never claims more than the durable identities behind it
\* (_transition, service.py:536-553): whichever session writes the phase, and
\* however old the row was that it loaded.
THEOREM PhasesBacked == Spec => []PhaseBacked
<1>1. Init => Faithful
  BY FaithfulInit
<1>2. Faithful /\ [Next]_vars => Faithful'
  BY FaithfulStep
<1>3. Faithful => PhaseBacked
  BY DEF Faithful, Learned, Sound, PhaseBacked
<1> QED
  BY <1>1, <1>2, <1>3, PTL DEF Spec

\* A completed job stays completed: no retry, late progress, failure or stale
\* session moves its phase again.
THEOREM CompletedStays == Spec => CompletedStable
<1>1. Init => Faithful
  BY FaithfulInit
<1>2. Faithful /\ [Next]_vars => Faithful'
  BY FaithfulStep
<1>3. Faithful /\ [Next]_vars => [row.state = "completed" => row'.state = "completed"]_vars
  <2> SUFFICES ASSUME Faithful, [Next]_vars, row.state = "completed"
               PROVE  row'.state = "completed"
    OBVIOUS
  <2>1. Promise!Next \/ UNCHANGED Promise!vars
    BY FaithfulStep DEF Allowed
  <2>2. row.state \in Promise!Terminal
    BY DEF Promise!Terminal
  <2>3. CASE Promise!Next
    BY <2>2, <2>3 DEF Promise!Next, Promise!Advance, Promise!Fail, Promise!Receive,
       Promise!Complete, Promise!Restart, Promise!Ask, Promise!Release, Promise!Discard,
       Promise!Vanish
  <2>4. CASE UNCHANGED Promise!vars
    BY <2>4 DEF Promise!vars
  <2> QED BY <2>1, <2>3, <2>4
<1> QED
  BY <1>1, <1>2, <1>3, PTL DEF Spec, CompletedStable

-----------------------------------------------------------------------------
(***************************************************************************)
(* What TorBox holds of a removed job.                                     *)
(***************************************************************************)
Submitting == {"create", "recreate", "created", "enqueued", "find", "find_queued"}
Deleting == {"deleted", "unlink", "unlinked", "drop"}

\* What a task inside knows of the torrent: nobody else records it meanwhile,
\* and a task at work is not overtaken by a removal TorBox has carried out.
Settled(t) ==
  /\ pc[t] # "idle" => view[t].remote = row.remote
  /\ pc[t] \in Submitting => ~view[t].remote
  /\ pc[t] = "created" => torrent # "queued"
  /\ pc[t] \in Deleting /\ view[t].remote => torrent = "absent"
  /\ pc[t] \in Working /\ row.remoteDone => row.ctl # "removing"

\* A recorded torrent has left the queue, is not created again once TorBox let
\* go of it, and only the first removal is carried out.
LetGo ==
  /\ torrent \in {"absent", "queued", "active", "ready"}
  /\ row.remote => torrent # "queued"
  /\ row.remoteDone => row.requested
  /\ row.remoteDone /\ row.ctl = "removing" /\ row.remote => torrent = "absent"
  /\ deleted /\ row.remote => torrent = "absent"
  /\ \A t \in Tasks : Settled(t)

\* A commit leaves the columns alone that its session did not change.
LEMMA CommitKeeps ==
  ASSUME NEW s, NEW new, NEW moved, Commit(s, new, moved)
  PROVE  /\ new.remote = view[s].remote => row'.remote = row.remote
         /\ new.remoteDone = view[s].remoteDone => row'.remoteDone = row.remoteDone
         /\ new.requested = view[s].requested => row'.requested = row.requested
         /\ new.submitting = view[s].submitting => row'.submitting = row.submitting
         /\ new.files = view[s].files => row'.files = row.files
         /\ new.localDone = view[s].localDone => row'.localDone = row.localDone
         /\ new.deleteFiles = view[s].deleteFiles => row'.deleteFiles = row.deleteFiles
         /\ new.ctl = view[s].ctl => row'.ctl = row.ctl
         /\ row'.ctl = row.ctl \/ row'.ctl = new.ctl
<1>1. CASE CanCommit(s, moved)
  <2>1. row' = Merged(view[s], new)
    BY <1>1 DEF Commit
  <2> QED BY <2>1 DEF Merged, Column
<1>2. CASE ~CanCommit(s, moved)
  BY <1>2 DEF Commit
<1> QED BY <1>1, <1>2

\* A step after which tasks are where they were, or outside.
LEMMA QuietLetsGo ==
  ASSUME LetGo, UNCHANGED <<torrent, deleted>>,
         row'.remote = row.remote, row'.remoteDone = row.remoteDone,
         row.requested => row'.requested,
         row'.ctl = "removing" => row.ctl = "removing" \/ ~row.remoteDone,
         \A u \in Tasks : \/ pc'[u] = "idle"
                          \/ pc'[u] = pc[u] /\ view'[u].remote = view[u].remote
  PROVE  LetGo'
<1>1. ASSUME NEW u \in Tasks PROVE Settled(u)'
  <2>1. CASE pc'[u] = "idle"
    BY <2>1 DEF Settled, Submitting, Deleting, Working
  <2>2. CASE pc'[u] = pc[u] /\ view'[u].remote = view[u].remote
    BY <2>2 DEF LetGo, Settled
  <2> QED BY <2>1, <2>2
<1> QED BY <1>1 DEF LetGo

\* When everybody is outside only the row and TorBox matter.
LEMMA AloneLetsGo ==
  ASSUME Faithful, NEW t \in Tasks, pc[t] # "idle", Exit(t)
  PROVE  \A u \in Tasks : pc'[u] = "idle"
<1>1. \A u \in Tasks : u # t => pc[u] = "idle"
  BY OthersIdle DEF Faithful, Budgeted, Cleaning
<1>2. pc' = [pc EXCEPT ![t] = "idle"] /\ pc \in [Tasks -> ProcessSteps]
  BY DEF Exit, Faithful, Budgeted, Cleaning, Registered
<1> QED BY <1>1, <1>2

\* An attempt ends: with the torrent recorded, when TorBox has it.
LEMMA EndLetsGo ==
  ASSUME Faithful, LetGo, NEW t \in Tasks, pc[t] \in Working, NEW new, NEW moved,
         Commit(t, new, moved), Exit(t), UNCHANGED <<torrent, deleted>>,
         new.ctl = view[t].ctl, new.remoteDone = view[t].remoteDone,
         new.requested = view[t].requested,
         new.remote = view[t].remote \/ torrent # "queued"
  PROVE  LetGo'
<1>1. pc[t] # "idle" /\ ~deleted
  BY AtWorkOpen DEF Working
<1>2. \A u \in Tasks : pc'[u] = "idle"
  BY <1>1, AloneLetsGo
<1>3. /\ row'.ctl = row.ctl /\ row'.remoteDone = row.remoteDone /\ row'.requested = row.requested
      /\ row'.remote = row.remote \/ torrent # "queued"
  BY CommitKeeps
<1>4. row.remoteDone => row.ctl # "removing"
  BY DEF LetGo, Settled
<1>5. \A u \in Tasks : Settled(u)'
  BY <1>2 DEF Settled, Submitting, Deleting, Working
<1> QED BY <1>1, <1>3, <1>4, <1>5 DEF LetGo

\* The stages that succeed, and those that fail.
LEMMA SucceedLetsGo ==
  ASSUME Faithful, LetGo, NEW t \in Tasks, pc[t] \in Working, NEW new \in AnyRow, NEW moved,
         Succeed(t, new, moved),
         new.ctl = view[t].ctl, new.remoteDone = view[t].remoteDone,
         new.requested = view[t].requested,
         new.remote = view[t].remote \/ torrent # "queued"
  PROVE  LetGo'
<1> DEFINE zero == [new EXCEPT !.failures = 0]
<1>1. Commit(t, zero, moved) /\ Exit(t) /\ UNCHANGED <<torrent, deleted>>
  BY DEF Succeed, Leave
<1>2. /\ zero.ctl = new.ctl /\ zero.remoteDone = new.remoteDone
      /\ zero.requested = new.requested /\ zero.remote = new.remote
  BY DEF AnyRow
<1> HIDE DEF zero
<1> QED BY <1>1, <1>2, EndLetsGo

\* What a stage that succeeds writes: the torrent, when TorBox has started it,
\* and that no create is open, with the identity it led to.
LEMMA WorksShape ==
  ASSUME Faithful, LetGo, NEW t \in Tasks,
         \/ FindTorrent(t) \/ FindQueued(t) \/ Created(t) \/ Enqueued(t)
         \/ PollQueuedBinds(t) \/ PollQueuedStarted(t) \/ PollQueuedWaits(t)
         \/ PollRemote(t) \/ PrepareDelivery(t) \/ Delivered(t)
  PROVE  /\ pc[t] \in Working
         /\ \E new \in AnyRow : \E moved :
              /\ Succeed(t, new, moved)
              /\ new.ctl = view[t].ctl /\ new.remoteDone = view[t].remoteDone
              /\ new.requested = view[t].requested /\ new.localDone = view[t].localDone
              /\ new.remote = view[t].remote \/ torrent # "queued"
              /\ new.submitting = view[t].submitting \/ new.remote \/ new.queued
<1>0. pc[t] \in Working
  BY DEF FindTorrent, FindQueued, Created, Enqueued, PollQueuedBinds, PollQueuedStarted,
         PollQueuedWaits, PollRemote, PrepareDelivery, Delivered, At, Working, ProcessSteps
<1>1. view[t] \in AnyRow /\ Settled(t)
  BY <1>0, AtWorkOpen, ReaderKnows DEF LetGo
<1>2. OnTorBox => torrent # "queued"
  BY DEF OnTorBox
<1> SUFFICES \E new \in AnyRow : \E moved :
               /\ Succeed(t, new, moved)
               /\ new.ctl = view[t].ctl /\ new.remoteDone = view[t].remoteDone
               /\ new.requested = view[t].requested /\ new.localDone = view[t].localDone
               /\ new.remote = view[t].remote \/ torrent # "queued"
               /\ new.submitting = view[t].submitting \/ new.remote \/ new.queued
  BY <1>0
<1>3. CASE FindTorrent(t) \/ PollQueuedBinds(t) \/ PollRemote(t)
  <2> DEFINE new == Applied(view[t])
  <2>1. Succeed(t, new, new.state # view[t].state) /\ OnTorBox
    BY <1>3 DEF FindTorrent, PollQueuedBinds, PollRemote, BindTorrent
  <2>2. new \in AnyRow
    BY <1>1, AppliedGrants
  <2>3. /\ new.ctl = view[t].ctl /\ new.remoteDone = view[t].remoteDone
        /\ new.requested = view[t].requested /\ new.localDone = view[t].localDone
        /\ new.remote
    BY <1>1 DEF Applied, AnyRow
  <2> HIDE DEF new
  <2> QED BY <1>2, <2>1, <2>2, <2>3
<1>4. CASE FindQueued(t)
  <2> DEFINE s   == IF OnTorBox THEN "provider_downloading" ELSE "provider_queued"
             new == [MoveTo(view[t], s) EXCEPT !.queued = TRUE, !.remote = OnTorBox]
  <2>1. Succeed(t, new, new.state # view[t].state) /\ ~view[t].remote
    BY <1>1, <1>4 DEF FindQueued, At, Settled, Submitting
  <2>2. OnTorBox \in BOOLEAN /\ s \in JobStates
    BY DEF OnTorBox, JobStates
  <2> HIDE DEF s
  <2>3. /\ new \in AnyRow /\ new.ctl = view[t].ctl /\ new.remoteDone = view[t].remoteDone
        /\ new.requested = view[t].requested /\ new.localDone = view[t].localDone
        /\ new.remote = OnTorBox
        /\ new.queued
    BY <1>1, <2>2 DEF AnyRow, MoveTo
  <2> HIDE DEF new
  <2> QED BY <1>1, <1>2, <2>1, <2>2, <2>3 DEF AnyRow
<1>5. CASE Created(t)
  <2> DEFINE new == [MoveTo(view[t], "provider_downloading") EXCEPT
                      !.remote = TRUE, !.submitting = FALSE]
  <2>1. Succeed(t, new, new.state # view[t].state) /\ torrent # "queued"
    BY <1>1, <1>5 DEF Created, At, Settled
  <2>2. /\ new \in AnyRow /\ new.ctl = view[t].ctl /\ new.remoteDone = view[t].remoteDone
        /\ new.requested = view[t].requested /\ new.localDone = view[t].localDone
        /\ new.remote
    BY <1>1 DEF AnyRow, MoveTo, JobStates
  <2> HIDE DEF new
  <2> QED BY <2>1, <2>2
<1>6. CASE Enqueued(t)
  <2> DEFINE new == [MoveTo(view[t], "provider_queued") EXCEPT
                      !.queued = TRUE, !.submitting = FALSE]
  <2>1. Succeed(t, new, new.state # view[t].state)
    BY <1>6 DEF Enqueued
  <2>2. /\ new \in AnyRow /\ new.ctl = view[t].ctl /\ new.remoteDone = view[t].remoteDone
        /\ new.requested = view[t].requested /\ new.localDone = view[t].localDone
        /\ new.remote = view[t].remote /\ new.queued
    BY <1>1 DEF AnyRow, MoveTo, JobStates
  <2> HIDE DEF new
  <2> QED BY <2>1, <2>2
<1>7. CASE PollQueuedStarted(t)
  <2> DEFINE new == [MoveTo(view[t], "provider_downloading") EXCEPT !.remote = TRUE]
  <2>1. Succeed(t, new, new.state # view[t].state) /\ torrent # "queued"
    BY <1>2, <1>7 DEF PollQueuedStarted
  <2>2. /\ new \in AnyRow /\ new.ctl = view[t].ctl /\ new.remoteDone = view[t].remoteDone
        /\ new.requested = view[t].requested /\ new.localDone = view[t].localDone
        /\ new.submitting = view[t].submitting
    BY <1>1 DEF AnyRow, MoveTo, JobStates
  <2> HIDE DEF new
  <2> QED BY <2>1, <2>2
<1>8. CASE PollQueuedWaits(t)
  <2> DEFINE new == MoveTo(view[t], "provider_queued")
  <2>1. Succeed(t, new, new.state # view[t].state)
    BY <1>8 DEF PollQueuedWaits
  <2>2. /\ new \in AnyRow /\ new.ctl = view[t].ctl /\ new.remoteDone = view[t].remoteDone
        /\ new.requested = view[t].requested /\ new.localDone = view[t].localDone
        /\ new.remote = view[t].remote
        /\ new.submitting = view[t].submitting
    BY <1>1 DEF AnyRow, MoveTo, JobStates
  <2> HIDE DEF new
  <2> QED BY <2>1, <2>2
<1>9. CASE PrepareDelivery(t)
  <2> DEFINE new == [MoveTo(view[t], "delivering") EXCEPT !.files = TRUE]
  <2>1. Succeed(t, new, TRUE)
    BY <1>9 DEF PrepareDelivery
  <2>2. /\ new \in AnyRow /\ new.ctl = view[t].ctl /\ new.remoteDone = view[t].remoteDone
        /\ new.requested = view[t].requested /\ new.localDone = view[t].localDone
        /\ new.remote = view[t].remote
        /\ new.submitting = view[t].submitting
    BY <1>1 DEF AnyRow, MoveTo, JobStates
  <2> HIDE DEF new
  <2> QED BY <2>1, <2>2
<1>10. CASE Delivered(t)
  <2> DEFINE new == MoveTo(view[t], "completed")
  <2>1. Succeed(t, new, TRUE)
    BY <1>10 DEF Delivered
  <2>2. /\ new \in AnyRow /\ new.ctl = view[t].ctl /\ new.remoteDone = view[t].remoteDone
        /\ new.requested = view[t].requested /\ new.localDone = view[t].localDone
        /\ new.remote = view[t].remote
        /\ new.submitting = view[t].submitting
    BY <1>1 DEF AnyRow, MoveTo, JobStates
  <2> HIDE DEF new
  <2> QED BY <2>1, <2>2
<1> QED BY <1>3, <1>4, <1>5, <1>6, <1>7, <1>8, <1>9, <1>10

\* A torrent is recorded when TorBox has started it.
LEMMA WorksLetGo ==
  ASSUME Faithful, LetGo, NEW t \in Tasks,
         \/ FindTorrent(t) \/ FindQueued(t) \/ Created(t) \/ Enqueued(t)
         \/ PollQueuedBinds(t) \/ PollQueuedStarted(t) \/ PollQueuedWaits(t)
         \/ PollRemote(t) \/ PrepareDelivery(t) \/ Delivered(t)
  PROVE  LetGo'
<1>1. PICK new \in AnyRow : \E moved :
        /\ Succeed(t, new, moved)
        /\ new.ctl = view[t].ctl /\ new.remoteDone = view[t].remoteDone
        /\ new.requested = view[t].requested
        /\ new.remote = view[t].remote \/ torrent # "queued"
  BY WorksShape
<1> QED BY <1>1, WorksShape, SucceedLetsGo

\* What a stage that fails writes: its phase and the counter, and that no create
\* is open when the create itself is turned down.
LEMMA FailsShape ==
  ASSUME Faithful, NEW t \in Tasks,
         ReconcileFails(t) \/ CreateFails(t) \/ PollFails(t) \/ DeliverFails(t)
  PROVE  /\ pc[t] \in Working
         /\ \E new, moved :
              /\ Fail(t, new, moved)
              /\ new.ctl = view[t].ctl /\ new.remoteDone = view[t].remoteDone
              /\ new.requested = view[t].requested /\ new.localDone = view[t].localDone
              /\ new.remote = view[t].remote
              /\ ReconcileErrors \cap Rejections = {} =>
                   new.submitting = view[t].submitting \/ pc[t] \in {"create", "recreate"}
<1>0. pc[t] \in Working
  BY DEF ReconcileFails, CreateFails, PollFails, DeliverFails, FailFrom, FailSubmission, At,
     Working, ProcessSteps
<1>1. view[t] \in AnyRow
  BY <1>0, AtWorkOpen, ReaderKnows
<1>2. PICK e, new, moved :
        /\ Fail(t, new, moved)
        /\ \/ new = AfterFailure(view[t], e)
           \/ new = [AfterFailure(view[t], e) EXCEPT !.submitting = AfterFailure(view[t], e).submitting]
           \/ /\ new = [AfterFailure(view[t], e) EXCEPT !.submitting = FALSE]
              /\ ReconcileErrors \cap Rejections = {} => pc[t] \in {"create", "recreate"}
  <2>1. CASE PollFails(t) \/ DeliverFails(t)
    BY <2>1, Zenon DEF PollFails, DeliverFails, FailFrom
  <2>2. CASE ReconcileFails(t) \/ CreateFails(t)
    <3>1. PICK e, p : /\ FailSubmission(t, p, e)
                      /\ ReconcileErrors \cap Rejections = {} /\ e \in Rejections
                           => p \in {"create", "recreate"}
      <4>1. CASE ReconcileFails(t)
        BY <4>1 DEF ReconcileFails
      <4>2. CASE CreateFails(t)
        BY <4>2 DEF CreateFails, Rejections
      <4> QED BY <2>2, <4>1, <4>2
    <3>2. CASE e \in Rejections
      BY <3>1, <3>2, Zenon DEF FailSubmission, At
    <3>3. CASE e \notin Rejections
      BY <3>1, <3>3, Zenon DEF FailSubmission
    <3> QED BY <3>2, <3>3
  <2> QED BY <2>1, <2>2
<1>3. PICK s \in JobStates : AfterFailure(view[t], e) = [view[t] EXCEPT !.failures = view[t].failures + 1, !.state = s]
  BY Zenon DEF AfterFailure, JobStates
<1>4. /\ new.ctl = view[t].ctl /\ new.remoteDone = view[t].remoteDone
      /\ new.requested = view[t].requested /\ new.localDone = view[t].localDone
      /\ new.remote = view[t].remote
      /\ \/ new.submitting = view[t].submitting
         \/ new = [AfterFailure(view[t], e) EXCEPT !.submitting = FALSE]
  <2>1. \/ new = AfterFailure(view[t], e)
        \/ new = [AfterFailure(view[t], e) EXCEPT !.submitting = AfterFailure(view[t], e).submitting]
        \/ new = [AfterFailure(view[t], e) EXCEPT !.submitting = FALSE]
    BY <1>2
  <2> QED BY <1>1, <1>3, <2>1 DEF AnyRow
<1>5. ReconcileErrors \cap Rejections = {} =>
        new.submitting = view[t].submitting \/ pc[t] \in {"create", "recreate"}
  <2>1. CASE new = [AfterFailure(view[t], e) EXCEPT !.submitting = FALSE]
    <3>1. new # AfterFailure(view[t], e) \/ new.submitting = view[t].submitting
      BY <1>1, <1>3 DEF AnyRow
    <3>2. \/ new # [AfterFailure(view[t], e) EXCEPT !.submitting = AfterFailure(view[t], e).submitting]
          \/ new.submitting = view[t].submitting
      BY <1>1, <1>3 DEF AnyRow
    <3> QED BY <1>2, <3>1, <3>2, Zenon
  <2> QED BY <1>4, <2>1
<1> QED BY <1>0, <1>2, <1>4, <1>5

\* A failure leaves the torrent and the removal alone.
LEMMA FailsLetGo ==
  ASSUME Faithful, LetGo, NEW t \in Tasks, Errs(t) \/ Unwind(t) \/ CommitRefused(t)
  PROVE  LetGo'
<1>1. CASE ReconcileFails(t) \/ CreateFails(t) \/ PollFails(t) \/ DeliverFails(t)
  <2>1. PICK new, moved :
          /\ Fail(t, new, moved)
          /\ new.ctl = view[t].ctl /\ new.remoteDone = view[t].remoteDone
          /\ new.requested = view[t].requested /\ new.remote = view[t].remote
    BY <1>1, FailsShape
  <2>2. Commit(t, new, moved) /\ Exit(t) /\ UNCHANGED <<torrent, deleted>>
    BY <2>1 DEF Fail, Leave
  <2> QED BY <1>1, <2>1, <2>2, FailsShape, EndLetsGo
<1>2. CASE CleanupFails(t) \/ Unwind(t) \/ CommitRefused(t)
  <2>1. /\ Exit(t) /\ pc[t] # "idle" /\ UNCHANGED <<row, torrent, deleted>>
    BY <1>2 DEF CleanupFails, Unwind, CommitRefused, CommitPoints, Leave, At, providerVars
  <2>2. \A u \in Tasks : pc'[u] = "idle"
    BY <2>1, AloneLetsGo
  <2> QED BY <2>1, <2>2, QuietLetsGo
<1> QED BY <1>1, <1>2 DEF Errs

\* One task goes from step to step, the others are outside.
LEMMA MovingLetsGo ==
  ASSUME Faithful, NEW t \in Tasks, pc[t] # "idle", NEW p, Goto(t, p)
  PROVE  /\ pc'[t] = p
         /\ \A u \in Tasks : u # t => pc'[u] = "idle"
<1>1. \A u \in Tasks : u # t => pc[u] = "idle"
  BY OthersIdle DEF Faithful, Budgeted, Cleaning
<1>2. pc' = [pc EXCEPT ![t] = p] /\ pc \in [Tasks -> ProcessSteps]
  BY DEF Goto, Faithful, Budgeted, Cleaning, Registered
<1> QED BY <1>1, <1>2

\* When t is the only one inside, it is all there is to show.
LEMMA OneSettled ==
  ASSUME NEW t \in Tasks, Settled(t)', \A u \in Tasks : u # t => pc'[u] = "idle"
  PROVE  \A u \in Tasks : Settled(u)'
BY DEF Settled, Submitting, Deleting, Working

\* Where a task enters follows from the row, and it knows what the row does.
LEMMA StartsLetGo ==
  ASSUME Faithful, LetGo, NEW t \in Tasks, Starts(t)
  PROVE  LetGo'
<1>0. row \in AnyRow
  BY DEF Faithful, Budgeted, Cleaning, Typed
<1>1. /\ row'.remote = row.remote /\ row'.remoteDone = row.remoteDone
      /\ row'.requested = row.requested /\ row'.ctl = row.ctl
      /\ UNCHANGED <<torrent, deleted>>
  BY <1>0 DEF Starts, StartCreate, StartReconcile, StartPollQueued, StartPollRemote,
     StartPrepare, StartDeliver, StartCleanup, Enter, providerVars, AnyRow
<1>2. PICK p : /\ Enter(t, p)
               /\ \/ p \in {"create", "find"} /\ ~row.remote /\ row.ctl = "running"
                  \/ p \in {"poll_queued", "poll_remote", "prepare", "deliver"} /\ row.ctl = "running"
                  \/ p = "delete"
                  \/ p = "deleted" /\ ~row.remote
                  \/ p \in {"unlink", "drop"} /\ row.remoteDone /\ row.ctl = "removing"
  <2>1. CASE StartCreate(t) \/ StartReconcile(t)
    BY <2>1 DEF StartCreate, StartReconcile, NextIsSubmit, Runnable
  <2>2. CASE StartPollQueued(t) \/ StartPollRemote(t) \/ StartPrepare(t) \/ StartDeliver(t)
    BY <2>2 DEF StartPollQueued, StartPollRemote, StartPrepare, StartDeliver, Runnable,
       NextIsPollQueued, NextIsPollRemote, NextIsPrepare, NextIsDeliver
  <2>3. CASE StartCleanup(t)
    <3>1. CASE row.remoteDone
      BY <2>3, <3>1, Zenon DEF StartCleanup, AfterRemote
    <3>2. CASE ~row.remoteDone /\ HasIdentity(row)
      BY <2>3, <3>2 DEF StartCleanup
    <3>3. CASE ~row.remoteDone /\ ~HasIdentity(row)
      BY <2>3, <3>3 DEF StartCleanup, HasIdentity
    <3> QED BY <3>1, <3>2, <3>3
  <2> QED BY <2>1, <2>2, <2>3 DEF Starts
<1>3. active = NoTask /\ pc' = [pc EXCEPT ![t] = p] /\ view' = [view EXCEPT ![t] = row']
  BY <1>2 DEF Enter, Admitted
<1>4. \A u \in Tasks : pc[u] = "idle"
  BY <1>3, ProcessAssumption DEF Faithful, Budgeted, Cleaning, Registered, OneProcessor
<1>5. pc'[t] = p /\ view'[t] = row' /\ \A u \in Tasks : u # t => pc'[u] = "idle"
  BY <1>3, <1>4 DEF Faithful, Budgeted, Cleaning, Registered, Typed
<1>6. Settled(t)'
  BY <1>1, <1>2, <1>5 DEF LetGo, Settled, Submitting, Deleting, Working
<1>7. \A u \in Tasks : Settled(u)'
  BY <1>5, <1>6, OneSettled
<1> QED BY <1>1, <1>7 DEF LetGo

\* A create is served only while no torrent is recorded, and a deletion takes
\* the recorded torrent.
LEMMA GoesOnLetsGo ==
  ASSUME Faithful, LetGo, NEW t \in Tasks,
         FindNothing(t) \/ FindQueuedNothing(t) \/ Serves(t) \/ Unlink(t)
  PROVE  LetGo'
<1>1. UNCHANGED <<row, deleted, view>> /\ pc[t] # "idle"
  BY DEF FindNothing, FindQueuedNothing, Serves, ServeCreate, ServeDelete, Unlink, At
<1>2. ~deleted /\ Settled(t)
  BY <1>1, WorkersRead DEF LetGo
<1>3. CASE FindNothing(t) \/ FindQueuedNothing(t)
  <2>1. PICK p \in {"find_queued", "recreate"} : Goto(t, p) /\ UNCHANGED torrent
    BY <1>3 DEF FindNothing, FindQueuedNothing, providerVars
  <2>2. pc[t] \in Submitting /\ pc[t] \in Working
    BY <1>3 DEF FindNothing, FindQueuedNothing, At, Submitting, Working, ProcessSteps
  <2>3. pc'[t] = p /\ \A u \in Tasks : u # t => pc'[u] = "idle"
    BY <1>1, <2>1, MovingLetsGo
  <2>4. Settled(t)'
    BY <1>1, <1>2, <2>1, <2>2, <2>3 DEF Settled, Submitting, Deleting, Working
  <2>5. \A u \in Tasks : Settled(u)'
    BY <2>3, <2>4, OneSettled
  <2> QED BY <1>1, <2>1, <2>5 DEF LetGo
<1>4. CASE ServeCreate(t)
  <2>1. PICK p \in {"created", "enqueued"} : Goto(t, p) /\ (p = "created" => torrent' # "queued")
    BY <1>4 DEF ServeCreate
  <2>2. pc[t] \in Submitting /\ pc[t] \in Working
    BY <1>4 DEF ServeCreate, Submitting, Working, ProcessSteps
  <2>3. pc'[t] = p /\ \A u \in Tasks : u # t => pc'[u] = "idle"
    BY <1>1, <2>1, MovingLetsGo
  <2>4. ~row.remote
    BY <1>1, <1>2, <2>2 DEF Settled
  <2>5. Settled(t)'
    BY <1>1, <1>2, <2>1, <2>2, <2>3 DEF Settled, Submitting, Deleting, Working
  <2>6. \A u \in Tasks : Settled(u)'
    BY <2>3, <2>5, OneSettled
  <2>7. torrent' \in {"absent", "queued", "active", "ready"}
    BY <1>4 DEF ServeCreate, LetGo
  <2> QED BY <1>1, <1>2, <2>4, <2>6, <2>7 DEF LetGo
<1>5. CASE ServeDelete(t)
  <2>1. Goto(t, "deleted") /\ torrent' = IF Known(view[t]) THEN "absent" ELSE torrent
    BY <1>5 DEF ServeDelete
  <2>2. pc'[t] = "deleted" /\ \A u \in Tasks : u # t => pc'[u] = "idle"
    BY <1>1, <2>1, MovingLetsGo
  <2>3. row.remote => torrent' = "absent"
    <3>1. ASSUME row.remote PROVE torrent' = "absent"
      <4>1. view[t].remote /\ torrent # "queued"
        BY <1>1, <1>2, <3>1 DEF Settled, LetGo
      <4>2. torrent \in {"absent", "queued", "active", "ready"}
        BY DEF LetGo
      <4> QED BY <2>1, <4>1, <4>2 DEF Known, OnTorBox
    <3> QED BY <3>1
  <2>4. torrent' = torrent \/ torrent' = "absent"
    BY <2>1
  <2>5. Settled(t)'
    BY <1>1, <1>2, <2>2, <2>3 DEF Settled, Submitting, Deleting, Working
  <2>6. \A u \in Tasks : Settled(u)'
    BY <2>2, <2>5, OneSettled
  <2> QED BY <1>1, <1>2, <2>3, <2>4, <2>6 DEF LetGo
<1>6. CASE Unlink(t)
  <2>1. Goto(t, "unlinked") /\ UNCHANGED torrent /\ pc[t] = "unlink"
    BY <1>6 DEF Unlink, At, providerVars
  <2>2. pc'[t] = "unlinked" /\ \A u \in Tasks : u # t => pc'[u] = "idle"
    BY <1>1, <2>1, MovingLetsGo
  <2>3. Settled(t)'
    BY <1>1, <1>2, <2>1, <2>2 DEF Settled, Submitting, Deleting, Working
  <2>4. \A u \in Tasks : Settled(u)'
    BY <2>2, <2>3, OneSettled
  <2> QED BY <1>1, <2>1, <2>4 DEF LetGo
<1> QED BY <1>3, <1>4, <1>5, <1>6 DEF Serves

\* That TorBox let go is recorded after it did.
LEMMA CleanupLetsGo ==
  ASSUME Faithful, LetGo, NEW t \in Tasks, RemoteDone(t) \/ LocalDone(t) \/ Drop(t)
  PROVE  LetGo'
<1>0. pc[t] \in Deleting /\ pc[t] # "idle" /\ pc[t] \in CleanupSteps
  BY DEF RemoteDone, LocalDone, Drop, At, Deleting, CleanupSteps
<1>1. /\ view[t] \in AnyRow /\ ~deleted /\ Settled(t) /\ row.requested
  BY <1>0, WorkersRead, ReaderKnows DEF LetGo, Placed
<1>2. row.remote => torrent = "absent"
  BY <1>0, <1>1 DEF Settled
<1>3. CASE Drop(t)
  <2>1. /\ Exit(t) /\ UNCHANGED <<row, torrent>>
    BY <1>3 DEF Drop, Leave, providerVars
  <2>2. \A u \in Tasks : Settled(u)'
    BY <1>0, <2>1, AloneLetsGo DEF Settled, Submitting, Deleting, Working
  <2> QED BY <1>2, <2>1, <2>2 DEF LetGo
<1>4. CASE RemoteDone(t) \/ LocalDone(t)
  <2>1. PICK new, p :
          /\ CleanupCommit(t, new, p) /\ p \in {"unlink", "drop"}
          /\ new.remote = view[t].remote /\ new.requested = view[t].requested
          /\ new.ctl = view[t].ctl
    <3>1. CASE RemoteDone(t)
      <4> DEFINE new == [view[t] EXCEPT !.remoteDone = TRUE]
      <4>1. new.remote = view[t].remote /\ new.requested = view[t].requested /\ new.ctl = view[t].ctl
        BY <1>1 DEF AnyRow
      <4>2. CleanupCommit(t, new, AfterRemote(view[t])) /\ AfterRemote(view[t]) \in {"unlink", "drop"}
        BY <3>1, Zenon DEF RemoteDone, AfterRemote
      <4> HIDE DEF new
      <4> QED BY <4>1, <4>2
    <3>2. CASE LocalDone(t)
      <4> DEFINE new == [view[t] EXCEPT !.localDone = TRUE]
      <4>1. new.remote = view[t].remote /\ new.requested = view[t].requested /\ new.ctl = view[t].ctl
        BY <1>1 DEF AnyRow
      <4>2. CleanupCommit(t, new, "drop")
        BY <3>2 DEF LocalDone
      <4> HIDE DEF new
      <4> QED BY <4>1, <4>2
    <3> QED BY <1>4, <3>1, <3>2
  <2>2. /\ Commit(t, new, FALSE) /\ view' = [view EXCEPT ![t] = new] /\ Goto(t, p)
        /\ UNCHANGED <<torrent, deleted>>
    BY <2>1 DEF CleanupCommit, providerVars
  <2>3. row'.remote = row.remote /\ row'.requested = row.requested /\ row'.ctl = row.ctl
    BY <2>1, <2>2, CommitKeeps
  <2>4. /\ pc'[t] = p /\ \A u \in Tasks : u # t => pc'[u] = "idle"
    BY <1>0, <2>2, MovingLetsGo
  <2>5. view'[t] = new
    BY <2>2 DEF Faithful, Budgeted, Cleaning, Typed
  <2>6. Settled(t)'
    BY <1>0, <1>1, <1>2, <2>1, <2>2, <2>3, <2>4, <2>5
       DEF Settled, Submitting, Deleting, Working
  <2>7. \A u \in Tasks : Settled(u)'
    BY <2>4, <2>6, OneSettled
  <2> QED BY <1>1, <1>2, <2>2, <2>3, <2>7 DEF LetGo
<1> QED BY <1>3, <1>4

\* A delivery commits a phase.
LEMMA DeliverLetsGo ==
  ASSUME Faithful, LetGo, NEW t \in Tasks, DeliverProgress(t) \/ Publish(t)
  PROVE  LetGo'
<1>0. pc[t] = "deliver" /\ pc[t] # "idle"
  BY DEF DeliverProgress, Publish, At
<1>1. CASE Publish(t)
  BY <1>1, QuietLetsGo DEF Publish, sessionVars, providerVars
<1>2. CASE DeliverProgress(t)
  <2> DEFINE new   == MoveTo(view[t], "delivering")
             moved == view[t].state # "delivering"
  <2>1. view[t] \in AnyRow
    BY <1>0, WorkersRead, ReaderKnows
  <2>2. /\ Commit(t, new, moved) /\ UNCHANGED <<torrent, deleted>>
        /\ Exit(t) \/ (view' = [view EXCEPT ![t] = new] /\ UNCHANGED pc)
    BY <1>2 DEF DeliverProgress, Leave, providerVars
  <2>3. /\ new.ctl = view[t].ctl /\ new.remoteDone = view[t].remoteDone
        /\ new.requested = view[t].requested /\ new.remote = view[t].remote
    BY <2>1 DEF AnyRow, MoveTo
  <2> HIDE DEF new, moved
  <2>4. /\ row'.ctl = row.ctl /\ row'.remoteDone = row.remoteDone
        /\ row'.requested = row.requested /\ row'.remote = row.remote
    BY <2>2, <2>3, CommitKeeps
  <2>5. \A u \in Tasks : pc'[u] = "idle" \/ (pc'[u] = pc[u] /\ view'[u].remote = view[u].remote)
    <3>1. CASE Exit(t)
      BY <1>0, <3>1, AloneLetsGo
    <3>2. CASE view' = [view EXCEPT ![t] = new] /\ UNCHANGED pc
      BY <2>3, <3>2 DEF Faithful, Budgeted, Cleaning, Typed
    <3> QED BY <2>2, <3>1, <3>2
  <2> QED BY <2>2, <2>4, <2>5, QuietLetsGo
<1> QED BY <1>1, <1>2

\* A request records a removal once, and never a torrent or a create.
LEMMA ControlShape ==
  ASSUME Faithful, LetGo, NEW c \in Controllers, Request(c) \/ Control(c)
  PROVE  /\ UNCHANGED <<pc, torrent, deleted>>
         /\ \A u \in Tasks : pc'[u] = "idle" \/ view'[u] = view[u]
         /\ row'.remote = row.remote /\ row'.remoteDone = row.remoteDone
         /\ row'.submitting = row.submitting
         /\ row'.ctl = "removing" => row.ctl = "removing" \/ ~row.remoteDone
<1>0. c \in Tasks /\ view[c] \in AnyRow /\ row \in AnyRow
  BY DEF Tasks, Faithful, Budgeted, Cleaning, Typed
<1>1. UNCHANGED <<pc, torrent, deleted>> /\ pc[c] = "idle"
  BY DEF Request, Control, LoadForControl, Ignore, Pause, Resume, Retry, Remove, Decides,
     ControlCommit, ProcessRefused, ProcessReturns, ServeControl, ProviderAnswers,
     ProviderFails, ControlRefused, Ungate, gateVars, sessionVars, providerVars,
     Faithful, Budgeted, Cleaning, Inside
<1>2. view' \in {view, [view EXCEPT ![c] = NewRow], [view EXCEPT ![c] = row]}
  BY DEF Request, Control, LoadForControl, Ignore, Pause, Resume, Retry, Remove,
     ControlCommit, ProcessRefused, ProcessReturns, ServeControl, ProviderAnswers,
     ProviderFails, ControlRefused, Ungate, gateVars, sessionVars
<1>3. \A u \in Tasks : pc'[u] = "idle" \/ view'[u] = view[u]
  <2>1. \A u \in Tasks : u # c => view'[u] = view[u]
    BY <1>2 DEF Faithful, Budgeted, Cleaning, Typed
  <2> QED BY <1>1, <2>1
<1>4. /\ row'.remote = row.remote /\ row'.remoteDone = row.remoteDone
      /\ row'.submitting = row.submitting
      /\ row'.ctl = "removing" => row.ctl = "removing" \/ ~row.remoteDone
  <2>1. CASE UNCHANGED row
    BY <2>1
  <2>2. CASE Ignore(c) \/ Pause(c) \/ Resume(c) \/ Retry(c)
    <3>1. PICK new, moved, next :
            /\ ControlCommit(c, new, moved, next)
            /\ new.remote = view[c].remote /\ new.remoteDone = view[c].remoteDone
            /\ new.submitting = view[c].submitting
            /\ new.ctl = view[c].ctl \/ new.ctl # "removing"
      <4>1. CASE Ignore(c)
        BY <4>1 DEF Ignore
      <4>2. CASE Pause(c)
        <5> DEFINE new == [view[c] EXCEPT !.ctl = "paused", !.scope = "local"]
        <5>1. \E next : ControlCommit(c, new, FALSE, next)
          BY <4>2 DEF Pause
        <5>2. /\ new.remote = view[c].remote /\ new.remoteDone = view[c].remoteDone
              /\ new.submitting = view[c].submitting /\ new.ctl = "paused"
          BY <1>0 DEF AnyRow
        <5> HIDE DEF new
        <5> QED BY <5>1, <5>2
      <4>3. CASE Resume(c)
        <5> DEFINE new == [view[c] EXCEPT !.ctl = "running", !.scope = "none"]
        <5>1. \E next : ControlCommit(c, new, FALSE, next)
          BY <4>3 DEF Resume
        <5>2. /\ new.remote = view[c].remote /\ new.remoteDone = view[c].remoteDone
              /\ new.submitting = view[c].submitting /\ new.ctl = "running"
          BY <1>0 DEF AnyRow
        <5> HIDE DEF new
        <5> QED BY <5>1, <5>2
      <4>4. CASE Retry(c)
        <5> DEFINE new == [view[c] EXCEPT !.ctl = "running", !.failures = 0,
                                          !.state = RetryState(view[c])]
        <5>1. ControlCommit(c, new, TRUE, "ungate")
          BY <4>4 DEF Retry
        <5>2. /\ new.remote = view[c].remote /\ new.remoteDone = view[c].remoteDone
              /\ new.submitting = view[c].submitting /\ new.ctl = "running"
          BY <1>0 DEF AnyRow
        <5> HIDE DEF new
        <5> QED BY <5>1, <5>2
      <4> QED BY <2>2, <4>1, <4>2, <4>3, <4>4
    <3>2. Commit(c, new, moved)
      BY <3>1 DEF ControlCommit
    <3> QED BY <3>1, <3>2, CommitKeeps
  <2>3. CASE Remove(c)
    <3> DEFINE r   == view[c]
               b   == r.deleteFiles \/ con[c].cmd = "remove_files"
               new == [r EXCEPT !.ctl = "removing", !.requested = TRUE, !.deleteFiles = b]
    <3>1. UNCHANGED row \/ (ControlCommit(c, new, FALSE, "process") /\ (r.ctl # "removing" => ~row.requested))
      BY <2>3 DEF Remove
    <3>2. /\ new.remote = r.remote /\ new.remoteDone = r.remoteDone
          /\ new.submitting = r.submitting /\ new.ctl = "removing"
      BY <1>0 DEF AnyRow
    <3> HIDE DEF new
    <3>3. CASE ControlCommit(c, new, FALSE, "process") /\ (r.ctl # "removing" => ~row.requested)
      <4>1. Commit(c, new, FALSE)
        BY <3>3 DEF ControlCommit
      <4>2. /\ row'.remote = row.remote /\ row'.remoteDone = row.remoteDone
            /\ row'.submitting = row.submitting
            /\ r.ctl = "removing" => row'.ctl = row.ctl
        BY <3>2, <4>1, CommitKeeps
      <4>3. ~row.requested => ~row.remoteDone
        BY DEF LetGo
      <4> QED BY <3>3, <4>2, <4>3
    <3> QED BY <2>1, <3>1, <3>3
  <2>4. CASE ProviderAnswers(c) \/ ProviderFails(c)
    <3>1. CASE ProviderFails(c)
      <4>1. row' = row \/ row' = [row EXCEPT !.ctl = "paused"]
        BY <3>1 DEF ProviderFails
      <4> QED BY <1>0, <4>1 DEF AnyRow
    <3>2. CASE ProviderAnswers(c)
      <4>1. PICK s : row' = row \/ row' = [row EXCEPT !.scope = s]
        BY <3>2, Zenon DEF ProviderAnswers
      <4> QED BY <1>0, <4>1 DEF AnyRow
    <3> QED BY <2>4, <3>1, <3>2
  <2> QED BY <2>1, <2>2, <2>3, <2>4 DEF Request, Control, LoadForControl, ProcessRefused,
             ProcessReturns, ServeControl, ControlRefused, Ungate
<1> QED BY <1>1, <1>3, <1>4

LEMMA ControlLetsGo ==
  ASSUME Faithful, LetGo, RowLearns, NEW c \in Controllers, Request(c) \/ Control(c)
  PROVE  LetGo'
<1>1. \A u \in Tasks : pc'[u] = "idle" \/ (pc'[u] = pc[u] /\ view'[u].remote = view[u].remote)
  BY ControlShape
<1> QED BY <1>1, ControlShape, QuietLetsGo DEF RowLearns, Grown

\* Every action is one of those.
LEMMA LetGoStep ==
  ASSUME Faithful, LetGo, [Next]_vars
  PROVE  LetGo'
<1>1. CASE \E t \in Tasks : Process(t)
  <2>1. PICK t \in Tasks : Process(t)
    BY <1>1
  <2> QED BY <2>1, WorksLetGo, FailsLetGo, StartsLetGo, GoesOnLetsGo, CleanupLetsGo,
             DeliverLetsGo DEF Process, Works
<1>2. CASE \E c \in Controllers : Request(c) \/ Control(c)
  <2>1. PICK c \in Controllers : Request(c) \/ Control(c)
    BY <1>2
  <2>2. RowGrows
    BY CleaningStep DEF Faithful, Budgeted
  <2>3. RowLearns
    BY <2>1, <2>2, DecidesAllowed, RetryAllowed, RemoveAllowed, AnswersAllowed DEF Control
  <2> QED BY <2>1, <2>3, ControlLetsGo
<1>3. CASE TorBoxStarts \/ TorBoxFinishes
  <2>1. /\ UNCHANGED <<row, deleted, pc, view>>
        /\ torrent \in {"queued", "active"} /\ torrent' \in {"active", "ready"}
    BY <1>3 DEF TorBoxStarts, TorBoxFinishes, sessionVars
  <2>2. \A u \in Tasks : Settled(u)'
    BY <2>1 DEF LetGo, Settled
  <2> QED BY <2>1, <2>2 DEF LetGo
<1>4. CASE Crash \/ UNCHANGED vars
  <2>1. /\ UNCHANGED <<row, deleted, torrent>>
        /\ \A u \in Tasks : pc'[u] = "idle" \/ (pc'[u] = pc[u] /\ view'[u] = view[u])
    BY <1>4 DEF Crash, vars, providerVars
  <2> QED BY <2>1, QuietLetsGo
<1> QED BY <1>1, <1>2, <1>3, <1>4 DEF Next

\* A removed job whose torrent was recorded leaves none at TorBox
\* (_cleanup_removing, service.py:938-980; automatic-delivery.md:44): whoever
\* records the torrent while the removal is under way, and although a stale
\* session may take the removal back.
THEOREM RemovedLeavesNone == Spec => []RemovedRemote
<1>1. Init => Faithful /\ LetGo
  <2> SUFFICES ASSUME Init PROVE LetGo
    BY FaithfulInit
  <2>1. row = NewRow /\ torrent = "absent" /\ \A t \in Tasks : pc[t] = "idle"
    BY DEF Init
  <2> QED BY <2>1 DEF LetGo, Settled, Submitting, Deleting, Working, NewRow
<1>2. Faithful /\ LetGo /\ [Next]_vars => Faithful' /\ LetGo'
  BY FaithfulStep, LetGoStep
<1>3. LetGo => RemovedRemote
  BY DEF LetGo, RemovedRemote
<1> QED
  BY <1>1, <1>2, <1>3, PTL DEF Spec

-----------------------------------------------------------------------------
(***************************************************************************)
(* What a create may count on.                                             *)
(***************************************************************************)
\* What a task that submits knows: its intent is stored, and TorBox holds
\* nothing for the hash when the create goes out.
Unsent(t) ==
  /\ pc[t] \in Submitting => row.submitting /\ view[t].submitting
  /\ pc[t] \in {"create", "recreate"} => torrent = "absent"
  /\ pc[t] = "find_queued" => torrent \in {"absent", "queued"}

\* Whatever TorBox holds, the row has its identity or says that a create may
\* be open.
Reconciled ==
  /\ torrent # "absent" => row.submitting \/ row.remote \/ row.queued
  /\ \A t \in Tasks : Unsent(t)

\* Every step leaves the row sound and knowing at least what it did.
LEMMA LearnsStep ==
  ASSUME Faithful, [Next]_vars
  PROVE  RowLearns
<1>1. RowGrows
  BY CleaningStep DEF Faithful, Budgeted
<1>2. CASE \E t \in Tasks : Process(t)
  <2>1. PICK t \in Tasks : Process(t)
    BY <1>2
  <2> QED BY <1>1, <2>1, WorksAllowed, DeliveredAllowed, ErrsAllowed, QuietAllowed,
             DeliverAllowed, CleanupAllowed DEF Process, Works
<1>3. CASE \E c \in Controllers : Request(c) \/ Control(c)
  <2>1. PICK c \in Controllers : Request(c) \/ Control(c)
    BY <1>3
  <2> QED BY <1>1, <2>1, DecidesAllowed, RetryAllowed, RemoveAllowed, AnswersAllowed DEF Control
<1>4. CASE TorBoxStarts \/ TorBoxFinishes \/ Crash \/ UNCHANGED vars
  BY <1>4, SameLearns DEF TorBoxStarts, TorBoxFinishes, Crash, vars
<1> QED BY <1>2, <1>3, <1>4 DEF Next

\* An identity that a session writes is in the row once it is committed.
LEMMA CommitRecords ==
  ASSUME NEW s, NEW new, NEW moved, Commit(s, new, moved), Grown(view[s], row),
         row \in AnyRow, view[s] \in AnyRow, new \in AnyRow
  PROVE  \/ row' = row
         \/ (new.remote => row'.remote) /\ (new.queued => row'.queued)
<1>1. CASE CanCommit(s, moved)
  <2>1. row' = Merged(view[s], new)
    BY <1>1 DEF Commit
  <2> QED BY <2>1 DEF Merged, Column, Grown, AnyRow
<1>2. CASE ~CanCommit(s, moved)
  BY <1>2 DEF Commit
<1> QED BY <1>1, <1>2

\* A step after which tasks are where they were, or outside.
LEMMA QuietReconciles ==
  ASSUME Reconciled, RowLearns, UNCHANGED torrent, row'.submitting = row.submitting,
         \A u \in Tasks : \/ pc'[u] = "idle"
                          \/ pc'[u] = pc[u] /\ view'[u].submitting = view[u].submitting
                          \/ pc'[u] \notin Submitting
  PROVE  Reconciled'
<1>1. row.remote => row'.remote
  BY DEF RowLearns, Grown
<1>2. row.queued => row'.queued
  BY DEF RowLearns, Grown
<1>3. ASSUME NEW u \in Tasks PROVE Unsent(u)'
  BY DEF Reconciled, Unsent, Submitting
<1> QED BY <1>1, <1>2, <1>3 DEF Reconciled

\* An attempt ends with its intent still stored, or with the identity it led
\* to, or with TorBox holding nothing.
LEMMA EndReconciles ==
  ASSUME Faithful, Reconciled, RowLearns, NEW t \in Tasks, pc[t] # "idle", Exit(t),
         UNCHANGED torrent,
         \/ torrent = "absent" \/ row'.submitting = row.submitting
         \/ row'.remote \/ row'.queued
  PROVE  Reconciled'
<1>1. \A u \in Tasks : pc'[u] = "idle"
  BY AloneLetsGo
<1>2. \A u \in Tasks : Unsent(u)'
  BY <1>1 DEF Unsent, Submitting
<1>3. (row.remote => row'.remote) /\ (row.queued => row'.queued)
  BY DEF RowLearns, Grown
<1> QED BY <1>2, <1>3 DEF Reconciled

\* When t is the only one inside, it is all there is to show.
LEMMA OneUnsent ==
  ASSUME NEW t \in Tasks, Unsent(t)', \A u \in Tasks : u # t => pc'[u] = "idle"
  PROVE  \A u \in Tasks : Unsent(u)'
BY DEF Unsent, Submitting

\* Success ends the submission with the identity TorBox gave it.
LEMMA WorksReconciles ==
  ASSUME Faithful, LetGo, Reconciled, RowLearns, NEW t \in Tasks,
         \/ FindTorrent(t) \/ FindQueued(t) \/ Created(t) \/ Enqueued(t)
         \/ PollQueuedBinds(t) \/ PollQueuedStarted(t) \/ PollQueuedWaits(t)
         \/ PollRemote(t) \/ PrepareDelivery(t) \/ Delivered(t)
  PROVE  Reconciled'
<1>1. pc[t] \in Working
  BY WorksShape
<1>2. PICK new, moved :
        /\ new \in AnyRow /\ Succeed(t, new, moved)
        /\ new.submitting = view[t].submitting \/ new.remote \/ new.queued
  BY WorksShape
<1> DEFINE zero == [new EXCEPT !.failures = 0]
<1>3. /\ zero.submitting = new.submitting /\ zero.remote = new.remote
      /\ zero.queued = new.queued
  BY <1>2 DEF AnyRow
<1>4. Commit(t, zero, moved) /\ Exit(t) /\ UNCHANGED torrent
  BY <1>2 DEF Succeed, Leave
<1>5. zero \in AnyRow
  BY <1>2 DEF AnyRow
<1> HIDE DEF zero
<1>6. pc[t] # "idle" /\ view[t] \in AnyRow /\ row \in AnyRow /\ Grown(view[t], row)
  BY <1>1, AtWorkOpen, ReaderKnows DEF Working, Faithful, Budgeted, Cleaning, Typed
<1>7. \/ row'.submitting = row.submitting \/ row'.remote \/ row'.queued
  BY <1>2, <1>3, <1>4, <1>5, <1>6, CommitKeeps, CommitRecords
<1> QED BY <1>4, <1>6, <1>7, EndReconciles

\* A failure takes the intent back only where a rejection proves that TorBox
\* holds nothing: when the create itself is answered.
LEMMA FailsReconciles ==
  ASSUME ReconcileErrors \cap Rejections = {},
         Faithful, Reconciled, RowLearns, NEW t \in Tasks,
         Errs(t) \/ Unwind(t) \/ CommitRefused(t)
  PROVE  Reconciled'
<1>1. CASE ReconcileFails(t) \/ CreateFails(t) \/ PollFails(t) \/ DeliverFails(t)
  <2>1. PICK new, moved :
          /\ Fail(t, new, moved)
          /\ new.submitting = view[t].submitting \/ pc[t] \in {"create", "recreate"}
    BY <1>1, FailsShape
  <2>2. pc[t] # "idle"
    BY <1>1, FailsShape DEF Working
  <2>3. Commit(t, new, moved) /\ Exit(t) /\ UNCHANGED torrent
    BY <2>1 DEF Fail, Leave
  <2>4. torrent = "absent" \/ row'.submitting = row.submitting
    BY <2>1, <2>3, CommitKeeps DEF Reconciled, Unsent
  <2> QED BY <2>2, <2>3, <2>4, EndReconciles
<1>2. CASE CleanupFails(t) \/ Unwind(t) \/ CommitRefused(t)
  <2>1. /\ Exit(t) /\ pc[t] # "idle" /\ UNCHANGED <<row, torrent>>
    BY <1>2 DEF CleanupFails, Unwind, CommitRefused, CommitPoints, Leave, At, providerVars
  <2> QED BY <2>1, EndReconciles
<1> QED BY <1>1, <1>2 DEF Errs

\* The first create starts from a row that names nothing, which TorBox agrees
\* with; any other submission starts with a look at TorBox.
LEMMA StartsReconciles ==
  ASSUME Faithful, Reconciled, RowLearns, NEW t \in Tasks, Starts(t)
  PROVE  Reconciled'
<1>0. row \in AnyRow
  BY DEF Faithful, Budgeted, Cleaning, Typed
<1>1. PICK p : /\ Enter(t, p)
               /\ \/ p = "create" /\ row'.submitting /\ torrent = "absent"
                  \/ p = "find" /\ row.submitting /\ UNCHANGED row
                  \/ p \notin Submitting /\ UNCHANGED row
  <2>1. CASE StartCreate(t)
    BY <1>0, <2>1 DEF StartCreate, NextIsSubmit, Reconciled, AnyRow
  <2>2. CASE StartReconcile(t)
    BY <2>2 DEF StartReconcile
  <2>3. CASE StartPollQueued(t) \/ StartPollRemote(t) \/ StartPrepare(t) \/ StartDeliver(t)
    BY <2>3 DEF StartPollQueued, StartPollRemote, StartPrepare, StartDeliver, Submitting
  <2>4. CASE StartCleanup(t)
    <3>1. AfterRemote(row) \in {"unlink", "drop"}
      BY Zenon DEF AfterRemote
    <3> QED BY <2>4, <3>1 DEF StartCleanup, Submitting
  <2> QED BY <2>1, <2>2, <2>3, <2>4 DEF Starts
<1>2. /\ active = NoTask /\ pc' = [pc EXCEPT ![t] = p] /\ view' = [view EXCEPT ![t] = row']
      /\ UNCHANGED torrent
  BY <1>1 DEF Enter, Admitted, providerVars
<1>3. \A u \in Tasks : pc[u] = "idle"
  BY <1>2, ProcessAssumption DEF Faithful, Budgeted, Cleaning, Registered, OneProcessor
<1>4. pc'[t] = p /\ view'[t] = row' /\ \A u \in Tasks : u # t => pc'[u] = "idle"
  BY <1>2, <1>3 DEF Faithful, Budgeted, Cleaning, Registered, Typed
<1>5. Unsent(t)'
  BY <1>1, <1>2, <1>4 DEF Unsent, Submitting
<1>6. \A u \in Tasks : Unsent(u)'
  BY <1>4, <1>5, OneUnsent
<1> QED BY <1>1, <1>2, <1>6 DEF Reconciled

\* A look at TorBox that finds nothing leads to the create, and the create to
\* its answer.
LEMMA GoesOnReconciles ==
  ASSUME Faithful, LetGo, Reconciled, NEW t \in Tasks,
         FindNothing(t) \/ FindQueuedNothing(t) \/ Serves(t)
  PROVE  Reconciled'
<1>1. UNCHANGED <<row, view>> /\ pc[t] # "idle" /\ Unsent(t)
  BY DEF FindNothing, FindQueuedNothing, Serves, ServeCreate, ServeDelete, At, Reconciled
<1>2. torrent \in {"absent", "queued", "active", "ready"}
  BY DEF LetGo
<1>3. PICK p : /\ Goto(t, p)
               /\ p \in Submitting => pc[t] \in Submitting
               /\ p = "find_queued" => torrent' \in {"absent", "queued"}
               /\ p = "recreate" => torrent' = "absent"
               /\ p # "create"
               /\ torrent' # "absent" => torrent # "absent" \/ pc[t] \in Submitting
  <2>1. CASE FindNothing(t)
    BY <1>2, <2>1 DEF FindNothing, OnTorBox, At, Submitting, providerVars
  <2>2. CASE FindQueuedNothing(t)
    BY <1>1, <2>2 DEF FindQueuedNothing, At, Submitting, Unsent, providerVars
  <2>3. CASE ServeCreate(t)
    <3>1. \E p \in {"created", "enqueued"} : Goto(t, p)
      BY <2>3, Zenon DEF ServeCreate
    <3>2. pc[t] \in {"create", "recreate"}
      BY <2>3 DEF ServeCreate
    <3> QED BY <3>1, <3>2 DEF Submitting
  <2>4. CASE ServeDelete(t)
    <3>1. Goto(t, "deleted") /\ (torrent' = torrent \/ torrent' = "absent")
      BY <2>4, Zenon DEF ServeDelete
    <3> QED BY <3>1 DEF Submitting
  <2> QED BY <2>1, <2>2, <2>3, <2>4 DEF Serves
<1>4. pc'[t] = p /\ \A u \in Tasks : u # t => pc'[u] = "idle"
  BY <1>1, <1>3, MovingLetsGo
<1>5. Unsent(t)'
  BY <1>1, <1>3, <1>4 DEF Unsent
<1>6. \A u \in Tasks : Unsent(u)'
  BY <1>4, <1>5, OneUnsent
<1>7. torrent' # "absent" => row.submitting \/ row.remote \/ row.queued
  BY <1>1, <1>3 DEF Reconciled, Unsent
<1> QED BY <1>1, <1>6, <1>7 DEF Reconciled

\* Delivery and cleanup have no part in it.
LEMMA CleanupReconciles ==
  ASSUME Faithful, Reconciled, RowLearns, NEW t \in Tasks,
         \/ Publish(t) \/ DeliverProgress(t)
         \/ Unlink(t) \/ RemoteDone(t) \/ LocalDone(t) \/ Drop(t)
  PROVE  Reconciled'
<1>0. pc[t] # "idle" /\ pc[t] \notin Submitting
  BY DEF Publish, DeliverProgress, Unlink, RemoteDone, LocalDone, Drop, At, Submitting
<1>1. view[t] \in AnyRow
  BY <1>0, WorkersRead, ReaderKnows
<1>2. CASE Publish(t)
  BY <1>2, QuietReconciles DEF Publish, sessionVars, providerVars
<1>3. CASE Drop(t)
  BY <1>0, <1>3, EndReconciles DEF Drop, Leave, providerVars
<1>4. CASE Unlink(t)
  <2>1. Goto(t, "unlinked") /\ UNCHANGED <<row, torrent>>
    BY <1>4 DEF Unlink, providerVars
  <2>2. \A u \in Tasks : pc'[u] \in {"unlinked", "idle"}
    BY <1>0, <2>1, MovingLetsGo
  <2> QED BY <2>1, <2>2, QuietReconciles DEF Submitting
<1>5. CASE RemoteDone(t) \/ LocalDone(t)
  <2>1. PICK new, p : /\ CleanupCommit(t, new, p) /\ p \in {"unlink", "drop"}
                      /\ new.submitting = view[t].submitting
    <3>1. CASE RemoteDone(t)
      <4> DEFINE new == [view[t] EXCEPT !.remoteDone = TRUE]
      <4>1. new.submitting = view[t].submitting
        BY <1>1 DEF AnyRow
      <4>2. CleanupCommit(t, new, AfterRemote(view[t])) /\ AfterRemote(view[t]) \in {"unlink", "drop"}
        BY <3>1, Zenon DEF RemoteDone, AfterRemote
      <4> HIDE DEF new
      <4> QED BY <4>1, <4>2
    <3>2. CASE LocalDone(t)
      <4> DEFINE new == [view[t] EXCEPT !.localDone = TRUE]
      <4>1. new.submitting = view[t].submitting
        BY <1>1 DEF AnyRow
      <4>2. CleanupCommit(t, new, "drop")
        BY <3>2 DEF LocalDone
      <4> HIDE DEF new
      <4> QED BY <4>1, <4>2
    <3> QED BY <1>5, <3>1, <3>2
  <2>2. Commit(t, new, FALSE) /\ Goto(t, p) /\ UNCHANGED torrent
    BY <2>1 DEF CleanupCommit, providerVars
  <2>3. row'.submitting = row.submitting
    BY <2>1, <2>2, CommitKeeps
  <2>4. \A u \in Tasks : pc'[u] \in {p, "idle"}
    BY <1>0, <2>2, MovingLetsGo
  <2> QED BY <2>1, <2>2, <2>3, <2>4, QuietReconciles DEF Submitting
<1>6. CASE DeliverProgress(t)
  <2> DEFINE new   == MoveTo(view[t], "delivering")
             moved == view[t].state # "delivering"
  <2>1. /\ Commit(t, new, moved) /\ UNCHANGED torrent
        /\ Exit(t) \/ (view' = [view EXCEPT ![t] = new] /\ UNCHANGED pc)
    BY <1>6 DEF DeliverProgress, Leave, providerVars
  <2>2. new.submitting = view[t].submitting
    BY <1>1 DEF AnyRow, MoveTo
  <2> HIDE DEF new, moved
  <2>3. row'.submitting = row.submitting
    BY <2>1, <2>2, CommitKeeps
  <2>4. \A u \in Tasks : pc'[u] = "idle" \/ (pc'[u] = pc[u] /\ view'[u].submitting = view[u].submitting)
    <3>1. CASE Exit(t)
      BY <1>0, <3>1, AloneLetsGo
    <3>2. CASE view' = [view EXCEPT ![t] = new] /\ UNCHANGED pc
      BY <2>2, <3>2 DEF Faithful, Budgeted, Cleaning, Typed
    <3> QED BY <2>1, <3>1, <3>2
  <2> QED BY <2>1, <2>3, <2>4, QuietReconciles
<1> QED BY <1>2, <1>3, <1>4, <1>5, <1>6

\* Every action is one of those.
LEMMA ReconciledStep ==
  ASSUME StableLists, ReconcileErrors \cap Rejections = {},
         Faithful, LetGo, Reconciled, [Next]_vars
  PROVE  Reconciled'
<1>0. RowLearns
  BY LearnsStep
<1>1. CASE \E t \in Tasks : Process(t)
  <2>1. PICK t \in Tasks : Process(t)
    BY <1>1
  <2> QED BY <1>0, <2>1, WorksReconciles, FailsReconciles, StartsReconciles, GoesOnReconciles,
             CleanupReconciles DEF Process, Works
<1>2. CASE \E c \in Controllers : Request(c) \/ Control(c)
  <2>1. PICK c \in Controllers : Request(c) \/ Control(c)
    BY <1>2
  <2>2. /\ UNCHANGED <<pc, torrent>> /\ row'.submitting = row.submitting
        /\ \A u \in Tasks : pc'[u] = "idle" \/ view'[u] = view[u]
    BY <2>1, ControlShape
  <2> QED BY <1>0, <2>2, QuietReconciles
<1>3. CASE TorBoxStarts \/ TorBoxFinishes
  <2>1. /\ UNCHANGED <<row, pc, view>> /\ torrent # "absent"
        /\ torrent = "queued" => \A u \in Tasks : pc[u] # "find_queued"
    BY <1>3 DEF TorBoxStarts, TorBoxFinishes, sessionVars
  <2>2. \A u \in Tasks : pc[u] # "find_queued"
    BY <1>3, <2>1 DEF Reconciled, Unsent, TorBoxFinishes
  <2>3. \A u \in Tasks : Unsent(u)'
    BY <2>1, <2>2 DEF Reconciled, Unsent
  <2> QED BY <2>1, <2>3 DEF Reconciled
<1>4. CASE Crash \/ UNCHANGED vars
  <2>1. /\ UNCHANGED <<row, torrent>>
        /\ \A u \in Tasks : pc'[u] = "idle" \/ (pc'[u] = pc[u] /\ view'[u] = view[u])
    BY <1>4 DEF Crash, vars, providerVars
  <2> QED BY <1>0, <2>1, QuietReconciles
<1> QED BY <1>1, <1>2, <1>3, <1>4 DEF Next

\* A first create goes out only while TorBox holds nothing for the hash
\* (_submit, service.py:555-591; operational-controls.md:40), whatever create
\* died, was cancelled or lost its answer before: where no entry leaves the
\* queue between the two reads of a reconciliation, and no error of those reads
\* is taken for a rejection.
THEOREM CreatesReconciled ==
  ASSUME StableLists, ReconcileErrors \cap Rejections = {}
  PROVE  Spec => []CreateReconciled
<1>1. Init => Faithful /\ LetGo /\ Reconciled
  <2> SUFFICES ASSUME Init PROVE LetGo /\ Reconciled
    BY FaithfulInit
  <2>1. row = NewRow /\ torrent = "absent" /\ \A t \in Tasks : pc[t] = "idle"
    BY DEF Init
  <2>2. LetGo
    BY <2>1 DEF LetGo, Settled, Submitting, Deleting, Working, NewRow
  <2> QED BY <2>1, <2>2 DEF Reconciled, Unsent, Submitting
<1>2. Faithful /\ LetGo /\ Reconciled /\ [Next]_vars => Faithful' /\ LetGo' /\ Reconciled'
  BY FaithfulStep, LetGoStep, ReconciledStep
<1>3. Reconciled => CreateReconciled
  BY DEF Reconciled, Unsent, CreateReconciled
<1> QED
  BY <1>1, <1>2, <1>3, PTL DEF Spec

-----------------------------------------------------------------------------
(***************************************************************************)
(* What a request may count on while no other request is in flight: the    *)
(* gate keeps every task out from the moment the cancelled one has ended.  *)
(***************************************************************************)
OneAtATime == \A c, d \in Controllers : c = d

\* The gate is up while a request is at work, and the slot is free from the
\* moment the cancelled task has unwound.
Gated ==
  /\ active # NoTask => pc[active] # "idle"
  /\ \A c \in Controllers :
       /\ con[c].step \in {"stopping", "loaded", "provider", "served"} => controlling
       /\ con[c].step \in {"idle", "process", "inline"} => ~controlling
       /\ controlling /\ con[c].step # "stopping" => active = NoTask
       /\ con[c].step = "stopping" /\ active # NoTask => active \in cancelled

\* The request that loaded the row is the only one to write control_state.
Watched ==
  \A c \in Controllers :
    /\ con[c].step = "loaded" => view[c].ctl = row.ctl
    /\ con[c].step \in {"provider", "served"} => row.ctl # "removing"

\* Files on the disk are those of recorded deliveries; once they are recorded
\* as gone the removal is for good and none is left.
Stored ==
  /\ disk # "none" => row.files
  /\ row.localDone => disk = "none" /\ row.ctl = "removing"
  /\ deleted /\ row.deleteFiles => disk = "none"

\* The task inside works on the row as it is.
Held(t) ==
  /\ pc[t] # "idle" => /\ view[t].deleteFiles = row.deleteFiles
                       /\ view[t].localDone = row.localDone
                       /\ view[t].files = row.files
  /\ pc[t] \in Working => row.ctl = "running"
  /\ pc[t] \in CleanupSteps => row.ctl = "removing"
  /\ pc[t] = "deliver" => row.files
  /\ pc[t] = "unlinked" => disk = "none"
  /\ pc[t] = "drop" /\ row.deleteFiles => row.localDone

Overseen == Gated /\ Watched /\ Stored /\ \A t \in Tasks : Held(t)

-----------------------------------------------------------------------------
\* What a step of a task does to the slot: it enters, it leaves, or it goes on.
LEMMA WorkerShape ==
  ASSUME NEW t \in Tasks, Process(t)
  PROVE  \/ \E p \in ProcessSteps \ {"idle"} : Enter(t, p)
         \/ Exit(t) /\ pc[t] # "idle"
         \/ /\ UNCHANGED <<controlling, cancelled, active, con>> /\ pc[t] # "idle"
            /\ UNCHANGED pc \/ \E p \in ProcessSteps \ {"idle"} : Goto(t, p)
<1>1. CASE Starts(t)
  <2>1. PICK p \in ProcessSteps \ {"idle"} : Enter(t, p)
    BY <1>1, Zenon DEF Starts, StartCreate, StartReconcile, StartPollQueued, StartPollRemote,
       StartPrepare, StartDeliver, StartCleanup, ProcessSteps, AfterRemote
  <2> QED BY <2>1
<1>2. CASE \/ FindTorrent(t) \/ FindQueued(t) \/ Created(t) \/ Enqueued(t)
           \/ PollQueuedBinds(t) \/ PollQueuedStarted(t) \/ PollQueuedWaits(t)
           \/ PollRemote(t) \/ PrepareDelivery(t) \/ Delivered(t) \/ Drop(t)
  BY <1>2 DEF FindTorrent, FindQueued, Created, Enqueued, PollQueuedBinds, PollQueuedStarted,
     PollQueuedWaits, PollRemote, PrepareDelivery, Delivered, Drop, Succeed, BindTorrent,
     Leave, At
<1>3. CASE Errs(t) \/ Unwind(t) \/ CommitRefused(t)
  BY <1>3 DEF Errs, ReconcileFails, CreateFails, PollFails, DeliverFails, CleanupFails,
     FailFrom, FailSubmission, Fail, Unwind, CommitRefused, CommitPoints, Leave, At
<1>4. CASE \/ FindNothing(t) \/ FindQueuedNothing(t) \/ Serves(t)
           \/ RemoteDone(t) \/ Unlink(t) \/ LocalDone(t)
  <2>1. pc[t] # "idle" /\ UNCHANGED <<controlling, cancelled, active, con>>
    BY <1>4 DEF FindNothing, FindQueuedNothing, Serves, ServeCreate, ServeDelete, RemoteDone,
       Unlink, LocalDone, CleanupCommit, At, gateVars
  <2>2. \E p \in ProcessSteps \ {"idle"} : Goto(t, p)
    BY <1>4, Zenon DEF FindNothing, FindQueuedNothing, Serves, ServeCreate, ServeDelete,
       RemoteDone, Unlink, LocalDone, CleanupCommit, AfterRemote, ProcessSteps
  <2> QED BY <2>1, <2>2
<1>5. CASE Publish(t) \/ DeliverProgress(t)
  BY <1>5 DEF Publish, DeliverProgress, Leave, At, sessionVars, gateVars
<1> QED BY <1>1, <1>2, <1>3, <1>4, <1>5 DEF Process, Works

\* While a task is inside, the only request there can be waits for it to stop.
LEMMA WorkersAlone ==
  ASSUME Registered, Gated, NEW t \in Tasks, pc[t] # "idle"
  PROVE  /\ active = t /\ active # NoTask
         /\ \A c \in Controllers : con[c].step \notin {"loaded", "provider", "served"}
BY ProcessAssumption DEF Registered, OneProcessor, Gated

\* And while a request is past that, nobody is inside.
LEMMA RequestsAlone ==
  ASSUME Registered, Gated, NEW c \in Controllers,
         con[c].step \in {"loaded", "provider", "served"}
  PROVE  active = NoTask /\ controlling /\ \A t \in Tasks : pc[t] = "idle"
BY ProcessAssumption DEF Registered, OneProcessor, Gated

LEMMA WorkerGated ==
  ASSUME Faithful, Gated, NEW t \in Tasks, Process(t)
  PROVE  Gated'
<1>0. Registered /\ Typed
  BY DEF Faithful, Budgeted, Cleaning
<1>1. CASE \E p \in ProcessSteps \ {"idle"} : Enter(t, p)
  <2>1. PICK p \in ProcessSteps \ {"idle"} : Enter(t, p)
    BY <1>1
  <2>2. /\ ~controlling /\ UNCHANGED controlling /\ active' = t /\ pc' = [pc EXCEPT ![t] = p]
        /\ con' = IF t \in Controllers THEN [con EXCEPT ![t].step = "inline"] ELSE con
    BY <2>1 DEF Enter, Admitted, gateVars
  <2>3. pc'[t] # "idle"
    BY <1>0, <2>2 DEF Registered
  <2>4. \A c \in Controllers : con'[c].step = con[c].step \/ con'[c].step = "inline"
    BY <1>0, <2>2 DEF Typed
  <2> QED BY <2>2, <2>3, <2>4 DEF Gated
<1>2. CASE Exit(t) /\ pc[t] # "idle"
  <2>1. active' = NoTask /\ UNCHANGED <<controlling, con>>
    BY <1>0, <1>2, WorkersAlone DEF Exit
  <2> QED BY <2>1 DEF Gated
<1>3. CASE /\ UNCHANGED <<controlling, cancelled, active, con>> /\ pc[t] # "idle"
           /\ UNCHANGED pc \/ \E p \in ProcessSteps \ {"idle"} : Goto(t, p)
  <2>1. pc'[t] # "idle" /\ active = t
    BY <1>0, <1>3, WorkersAlone DEF Goto, Registered
  <2> QED BY <1>3, <2>1 DEF Gated
<1> QED BY <1>1, <1>2, <1>3, WorkerShape

\* A request raises the gate and cancels who is inside; it goes on when that
\* task has ended, and lowers the gate at its end or to call process().
LEMMA ControlGated ==
  ASSUME OneAtATime, Faithful, Gated, NEW c \in Controllers, Request(c) \/ Control(c)
  PROVE  Gated'
<1>0. Registered /\ Typed /\ \A d \in Controllers : d = c
  BY DEF OneAtATime, Faithful, Budgeted, Cleaning
<1>1. UNCHANGED <<pc, active>>
  BY DEF Request, Control, LoadForControl, Ignore, Pause, Resume, Retry, Remove,
     ControlCommit, ProcessRefused, ProcessReturns, ServeControl, ProviderAnswers,
     ProviderFails, ControlRefused, Ungate, gateVars, sessionVars
<1> SUFFICES /\ con'[c].step \in {"stopping", "loaded", "provider", "served"} => controlling'
             /\ con'[c].step \in {"idle", "process", "inline"} => ~controlling'
             /\ controlling' /\ con'[c].step # "stopping" => active = NoTask
             /\ con'[c].step = "stopping" /\ active # NoTask => active \in cancelled'
  BY <1>0, <1>1 DEF Gated
<1>2. CASE Request(c)
  <2>1. controlling' /\ cancelled' = cancelled \cup ({active} \ {NoTask})
    BY <1>2 DEF Request
  <2>2. con'[c].step = "stopping"
    BY <1>0, <1>2 DEF Request, Typed
  <2> QED BY <2>1, <2>2
<1>3. ASSUME NEW n, Move(c, n) PROVE con'[c].step = n
  BY <1>0, <1>3 DEF Move, Typed
<1>4. CASE LoadForControl(c)
  <2>1. /\ con[c].step = "stopping" /\ cancelled = {} /\ UNCHANGED controlling
        /\ Move(c, "ungate") \/ Move(c, "loaded")
    BY <1>4 DEF LoadForControl, gateVars
  <2>2. con'[c].step \in {"ungate", "loaded"}
    BY <1>3, <2>1
  <2> QED BY <2>1, <2>2 DEF Gated
<1>5. CASE Ignore(c) \/ Pause(c) \/ Resume(c) \/ Retry(c)
  <2>1. /\ con[c].step = "loaded" /\ UNCHANGED controlling
        /\ Move(c, "ungate") \/ Move(c, "provider")
    BY <1>5, Zenon DEF Ignore, Pause, Resume, Retry, Decides, ControlCommit
  <2>2. con'[c].step \in {"ungate", "provider"}
    BY <1>3, <2>1
  <2> QED BY <1>0, <2>1, <2>2, RequestsAlone
<1>6. CASE Remove(c)
  <2>1. /\ con[c].step = "loaded"
        /\ Move(c, "ungate") \/ Move(c, "process")
        /\ controlling' = IF con'[c].step = "process" THEN FALSE ELSE controlling
    BY <1>6, Zenon DEF Remove, Decides, ControlCommit
  <2>2. con'[c].step \in {"ungate", "process"}
    BY <1>3, <2>1
  <2>3. con[c].step = "loaded"
    BY <1>6 DEF Remove, Decides
  <2> QED BY <1>0, <2>1, <2>2, <2>3, RequestsAlone
<1>7. CASE ProcessRefused(c) \/ ProcessReturns(c)
  <2>1. con[c].step \in {"process", "inline"} /\ UNCHANGED controlling /\ Move(c, "ungate")
    BY <1>7 DEF ProcessRefused, ProcessReturns, gateVars
  <2> QED BY <1>3, <2>1 DEF Gated
<1>8. CASE ServeControl(c) \/ ProviderAnswers(c) \/ ProviderFails(c) \/ ControlRefused(c)
  <2>1. /\ con[c].step \in {"loaded", "provider", "served"} /\ UNCHANGED controlling
        /\ Move(c, "ungate") \/ Move(c, "served")
    BY <1>8 DEF ServeControl, ProviderAnswers, ProviderFails, ControlRefused, gateVars
  <2>2. con'[c].step \in {"ungate", "served"}
    BY <1>3, <2>1
  <2> QED BY <1>0, <2>1, <2>2, RequestsAlone
<1>9. CASE Ungate(c)
  <2>1. ~controlling' /\ con' = [con EXCEPT ![c] = Idle]
    BY <1>9 DEF Ungate
  <2> QED BY <1>0, <2>1 DEF Typed, Idle
<1> QED BY <1>2, <1>4, <1>5, <1>6, <1>7, <1>8, <1>9 DEF Control

LEMMA GatedStep ==
  ASSUME OneAtATime, Faithful, Gated, [Next]_vars
  PROVE  Gated'
<1>1. CASE \E t \in Tasks : Process(t)
  BY <1>1, WorkerGated
<1>2. CASE \E c \in Controllers : Request(c) \/ Control(c)
  BY <1>2, ControlGated
<1>3. CASE TorBoxStarts \/ TorBoxFinishes \/ UNCHANGED vars
  BY <1>3 DEF TorBoxStarts, TorBoxFinishes, vars, sessionVars, gateVars, Gated
<1>4. CASE Crash
  BY <1>4 DEF Crash, Gated, Idle
<1> QED BY <1>1, <1>2, <1>3, <1>4 DEF Next

-----------------------------------------------------------------------------
\* The session of a task that is alone inside is all there is to show.
LEMMA OneHeld ==
  ASSUME NEW t \in Tasks, Held(t)', \A u \in Tasks : u # t => pc'[u] = "idle"
  PROVE  \A u \in Tasks : Held(u)'
BY DEF Held, Working, CleanupSteps

LEMMA NoneHeld ==
  ASSUME \A u \in Tasks : pc'[u] = "idle"
  PROVE  \A u \in Tasks : Held(u)'
BY DEF Held, Working, CleanupSteps

\* The end of an attempt: what it writes is neither control_state nor what the
\* cleanup records, and what it leaves on the disk is recorded.
LEMMA EndOversees ==
  ASSUME Faithful, Overseen, RowLearns, NEW t \in Tasks, pc[t] # "idle", Exit(t),
         row'.ctl = row.ctl, row'.localDone = row.localDone, ~row.localDone \/ UNCHANGED disk,
         disk' # "none" => row.files,
         deleted' /\ row'.deleteFiles => disk' = "none"
  PROVE  Watched' /\ Stored' /\ (\A u \in Tasks : Held(u)')
         /\ (row.ctl = "removing" => row'.ctl = "removing")
<1>1. \A u \in Tasks : pc'[u] = "idle"
  BY AloneLetsGo
<1>2. \A c \in Controllers : con[c].step \notin {"loaded", "provider", "served"}
  BY WorkersAlone DEF Overseen, Faithful, Budgeted, Cleaning
<1>3. UNCHANGED con
  BY DEF Exit
<1>4. Watched'
  BY <1>2, <1>3 DEF Watched
<1>5. Stored'
  BY DEF Overseen, Stored, RowLearns, Grown
<1> QED BY <1>1, <1>4, <1>5, NoneHeld

\* A step of the task inside that stays inside, at p with session v.
LEMMA OnOversees ==
  ASSUME Faithful, Overseen, RowLearns, NEW t \in Tasks, pc[t] # "idle", NEW p,
         pc'[t] = p, \A u \in Tasks : u # t => pc'[u] = "idle",
         UNCHANGED <<con, deleted>>, row'.ctl = row.ctl,
         view'[t].deleteFiles = row'.deleteFiles, view'[t].localDone = row'.localDone,
         view'[t].files = row'.files,
         disk' # "none" => row.files,
         row'.localDone => disk' = "none" /\ row.ctl = "removing",
         p \in Working => row.ctl = "running",
         p \in CleanupSteps => row.ctl = "removing",
         p = "deliver" => row.files,
         p = "unlinked" => disk' = "none",
         p = "drop" /\ row'.deleteFiles => row'.localDone
  PROVE  Watched' /\ Stored' /\ (\A u \in Tasks : Held(u)')
         /\ (row.ctl = "removing" => row'.ctl = "removing")
<1>1. \A c \in Controllers : con[c].step \notin {"loaded", "provider", "served"}
  BY WorkersAlone DEF Overseen, Faithful, Budgeted, Cleaning
<1>2. Watched'
  BY <1>1 DEF Watched
<1>3. ~deleted
  BY WorkersRead
<1>4. Stored'
  BY <1>3 DEF Stored, RowLearns, Grown
<1>5. Held(t)'
  BY DEF Held, RowLearns, Grown
<1> QED BY <1>2, <1>4, <1>5, OneHeld

\* Where a task enters follows from the row it loads.
LEMMA StartsOversees ==
  ASSUME Faithful, Overseen, NEW t \in Tasks, Starts(t)
  PROVE  Watched' /\ Stored' /\ (\A u \in Tasks : Held(u)')
         /\ (row.ctl = "removing" => row'.ctl = "removing")
<1>0. row \in AnyRow /\ Registered /\ Typed
  BY DEF Faithful, Budgeted, Cleaning, Typed
<1>1. /\ row'.ctl = row.ctl /\ row'.files = row.files /\ row'.localDone = row.localDone
      /\ row'.deleteFiles = row.deleteFiles
  BY <1>0 DEF Starts, StartCreate, StartReconcile, StartPollQueued, StartPollRemote,
     StartPrepare, StartDeliver, StartCleanup, AnyRow
<1>2. PICK p : /\ Enter(t, p)
               /\ \/ p \in {"create", "find", "poll_queued", "poll_remote", "prepare"}
                     /\ row.ctl = "running"
                  \/ p = "deliver" /\ row.ctl = "running" /\ row.files
                  \/ p \in {"unlink", "delete", "deleted"} /\ row.ctl = "removing"
                  \/ /\ p = "drop" /\ row.ctl = "removing"
                     /\ row.deleteFiles => row.localDone
  <2>1. CASE StartCreate(t) \/ StartReconcile(t)
    BY <2>1 DEF StartCreate, StartReconcile, NextIsSubmit, Runnable
  <2>2. CASE StartPollQueued(t) \/ StartPollRemote(t) \/ StartPrepare(t) \/ StartDeliver(t)
    BY <2>2 DEF StartPollQueued, StartPollRemote, StartPrepare, StartDeliver, Runnable,
       NextIsPollQueued, NextIsPollRemote, NextIsPrepare, NextIsDeliver
  <2>3. CASE StartCleanup(t)
    <3>1. CASE row.remoteDone
      BY <2>3, <3>1, Zenon DEF StartCleanup, AfterRemote
    <3>2. CASE ~row.remoteDone
      BY <2>3, <3>2, Zenon DEF StartCleanup
    <3> QED BY <3>1, <3>2
  <2> QED BY <2>1, <2>2, <2>3 DEF Starts
<1>3. /\ active = NoTask /\ ~controlling /\ pc' = [pc EXCEPT ![t] = p]
      /\ view' = [view EXCEPT ![t] = row'] /\ UNCHANGED <<disk, deleted>>
      /\ con' = IF t \in Controllers THEN [con EXCEPT ![t].step = "inline"] ELSE con
  BY <1>2 DEF Enter, Admitted
<1>4. \A u \in Tasks : pc[u] = "idle"
  BY <1>0, <1>3, ProcessAssumption DEF Registered, OneProcessor
<1>5. pc'[t] = p /\ view'[t] = row' /\ \A u \in Tasks : u # t => pc'[u] = "idle"
  BY <1>0, <1>3, <1>4 DEF Registered, Typed
<1>6. Watched'
  <2>1. \A c \in Controllers : con'[c].step = con[c].step \/ con'[c].step = "inline"
    BY <1>0, <1>3 DEF Typed
  <2> QED BY <1>3, <2>1 DEF Overseen, Gated, Watched
<1>7. Stored'
  BY <1>1, <1>3 DEF Overseen, Stored
<1>8. Held(t)'
  BY <1>1, <1>2, <1>5 DEF Held, Working, CleanupSteps, ProcessSteps
<1> QED BY <1>1, <1>5, <1>6, <1>7, <1>8, OneHeld

\* The stages of a running job, which has nothing deleted.
LEMMA WorksOversees ==
  ASSUME Faithful, LetGo, Overseen, RowLearns, NEW t \in Tasks,
         \/ FindTorrent(t) \/ FindQueued(t) \/ Created(t) \/ Enqueued(t)
         \/ PollQueuedBinds(t) \/ PollQueuedStarted(t) \/ PollQueuedWaits(t)
         \/ PollRemote(t) \/ PrepareDelivery(t) \/ Delivered(t) \/ Errs(t)
         \/ Unwind(t) \/ CommitRefused(t)
  PROVE  Watched' /\ Stored' /\ (\A u \in Tasks : Held(u)')
         /\ (row.ctl = "removing" => row'.ctl = "removing")
<1>1. CASE \/ FindTorrent(t) \/ FindQueued(t) \/ Created(t) \/ Enqueued(t)
           \/ PollQueuedBinds(t) \/ PollQueuedStarted(t) \/ PollQueuedWaits(t)
           \/ PollRemote(t) \/ PrepareDelivery(t) \/ Delivered(t)
  <2>0. pc[t] \in Working
    BY <1>1, WorksShape
  <2>1. PICK new, moved :
          /\ new \in AnyRow /\ Succeed(t, new, moved)
          /\ new.ctl = view[t].ctl /\ new.localDone = view[t].localDone
    BY <1>1, WorksShape
  <2> DEFINE zero == [new EXCEPT !.failures = 0]
  <2>2. zero.ctl = view[t].ctl /\ zero.localDone = view[t].localDone
    BY <2>1 DEF AnyRow
  <2>3. Commit(t, zero, moved) /\ Exit(t) /\ UNCHANGED <<deleted, disk>>
    BY <2>1 DEF Succeed, Leave
  <2> HIDE DEF zero
  <2>4. row'.ctl = row.ctl /\ row'.localDone = row.localDone
    BY <2>2, <2>3, CommitKeeps
  <2>5. pc[t] # "idle" /\ ~deleted
    BY <2>0, AtWorkOpen DEF Working
  <2> QED BY <2>3, <2>4, <2>5, EndOversees DEF Overseen, Stored
<1>2. CASE ReconcileFails(t) \/ CreateFails(t) \/ PollFails(t) \/ DeliverFails(t)
  <2>0. pc[t] \in Working
    BY <1>2, FailsShape
  <2>1. PICK new, moved :
          /\ Fail(t, new, moved)
          /\ new.ctl = view[t].ctl /\ new.localDone = view[t].localDone
    BY <1>2, FailsShape
  <2>3. Commit(t, new, moved) /\ Exit(t) /\ UNCHANGED <<deleted, disk>>
    BY <2>1 DEF Fail, Leave
  <2>4. row'.ctl = row.ctl /\ row'.localDone = row.localDone
    BY <2>1, <2>3, CommitKeeps
  <2>5. pc[t] # "idle" /\ ~deleted
    BY <2>0, AtWorkOpen DEF Working
  <2> QED BY <2>3, <2>4, <2>5, EndOversees DEF Overseen, Stored
<1>3. CASE CleanupFails(t) \/ Unwind(t) \/ CommitRefused(t)
  <2>1. /\ Exit(t) /\ pc[t] # "idle" /\ UNCHANGED <<row, deleted, disk>>
    BY <1>3 DEF CleanupFails, Unwind, CommitRefused, CommitPoints, Leave, At
  <2> QED BY <2>1, EndOversees DEF Overseen, Stored
<1> QED BY <1>1, <1>2, <1>3 DEF Errs

\* From one step to the next inside.
LEMMA GoesOnOversees ==
  ASSUME Faithful, Overseen, RowLearns, NEW t \in Tasks,
         FindNothing(t) \/ FindQueuedNothing(t) \/ Serves(t) \/ Publish(t) \/ Unlink(t)
  PROVE  Watched' /\ Stored' /\ (\A u \in Tasks : Held(u)')
         /\ (row.ctl = "removing" => row'.ctl = "removing")
<1>0. /\ UNCHANGED <<row, deleted, view, con>> /\ pc[t] # "idle" /\ Held(t)
  BY DEF FindNothing, FindQueuedNothing, Serves, ServeCreate, ServeDelete, Publish, Unlink, At,
     sessionVars, Overseen
<1>1. view[t].files = row.files
  BY <1>0 DEF Held
<1>2. CASE FindNothing(t) \/ FindQueuedNothing(t) \/ Serves(t)
  <2>1. PICK p : /\ Goto(t, p)
                 /\ \/ /\ p \in {"find_queued", "recreate", "created", "enqueued"}
                       /\ pc[t] \in {"find", "find_queued", "create", "recreate"}
                    \/ p = "deleted" /\ pc[t] = "delete"
    <3>1. CASE FindNothing(t) \/ FindQueuedNothing(t)
      BY <3>1 DEF FindNothing, FindQueuedNothing, At
    <3>2. CASE ServeCreate(t)
      <4>1. \E p \in {"created", "enqueued"} : Goto(t, p)
        BY <3>2, Zenon DEF ServeCreate
      <4>2. pc[t] \in {"create", "recreate"}
        BY <3>2 DEF ServeCreate
      <4> QED BY <4>1, <4>2
    <3>3. CASE ServeDelete(t)
      BY <3>3 DEF ServeDelete
    <3> QED BY <1>2, <3>1, <3>2, <3>3 DEF Serves
  <2>2. pc'[t] = p /\ \A u \in Tasks : u # t => pc'[u] = "idle"
    BY <1>0, <2>1, MovingLetsGo
  <2>3. UNCHANGED disk
    BY <1>2 DEF FindNothing, FindQueuedNothing, Serves, ServeCreate, ServeDelete
  <2>4. (p \in Working => row.ctl = "running") /\ (p \in CleanupSteps => row.ctl = "removing")
    BY <1>0, <2>1 DEF Held, Working, CleanupSteps, ProcessSteps
  <2> QED BY <1>0, <2>1, <2>2, <2>3, <2>4, OnOversees DEF Overseen, Stored, Held
<1>3. CASE Publish(t)
  <2>1. pc[t] = "deliver" /\ UNCHANGED pc
    BY <1>3 DEF Publish, At, sessionVars
  <2>2. pc'[t] = "deliver" /\ \A u \in Tasks : u # t => pc'[u] = "idle"
    BY <2>1, OthersIdle DEF Faithful, Budgeted, Cleaning
  <2>3. row.ctl = "running" /\ row.files
    BY <1>0, <2>1 DEF Held, Working, ProcessSteps
  <2> QED BY <1>0, <2>2, <2>3, OnOversees DEF Overseen, Stored, Held, Working, CleanupSteps
<1>4. CASE Unlink(t)
  <2>1. /\ pc[t] = "unlink" /\ Goto(t, "unlinked")
        /\ disk' = IF view[t].files THEN "none" ELSE disk
    BY <1>4 DEF Unlink, At
  <2>2. pc'[t] = "unlinked" /\ \A u \in Tasks : u # t => pc'[u] = "idle"
    BY <1>0, <2>1, MovingLetsGo
  <2>3. disk' = "none"
    BY <1>1, <2>1 DEF Overseen, Stored
  <2>4. row.ctl = "removing"
    BY <1>0, <2>1 DEF Held, CleanupSteps
  <2> QED BY <1>0, <2>2, <2>3, <2>4, OnOversees DEF Held, Working, CleanupSteps
<1> QED BY <1>2, <1>3, <1>4

\* The cleanup records what it did; the row goes when the files are gone.
LEMMA CleanupOversees ==
  ASSUME Faithful, Overseen, RowLearns, RowGrows, NEW t \in Tasks,
         RemoteDone(t) \/ LocalDone(t) \/ Drop(t)
  PROVE  Watched' /\ Stored' /\ (\A u \in Tasks : Held(u)')
         /\ (row.ctl = "removing" => row'.ctl = "removing")
<1>0. /\ pc[t] # "idle" /\ pc[t] \in CleanupSteps /\ pc[t] \notin Working /\ Held(t)
      /\ row.ctl = "removing" /\ ~deleted
  BY WorkersRead DEF RemoteDone, LocalDone, Drop, At, CleanupSteps, Working, Overseen, Held
<1>1. view[t] \in AnyRow /\ row \in AnyRow
  BY <1>0, WorkersRead, ReaderKnows
<1>2. CASE Drop(t)
  <2>1. Exit(t) /\ UNCHANGED <<row, disk>> /\ pc[t] = "drop"
    BY <1>2 DEF Drop, Leave, At
  <2>2. row.deleteFiles => disk = "none"
    BY <1>0, <2>1 DEF Held, Overseen, Stored
  <2> QED BY <1>0, <2>1, <2>2, EndOversees DEF Overseen, Stored
<1>3. CASE RemoteDone(t)
  <2> DEFINE new == [view[t] EXCEPT !.remoteDone = TRUE]
             p   == AfterRemote(view[t])
  <2>1. /\ Commit(t, new, FALSE) /\ view' = [view EXCEPT ![t] = new] /\ Goto(t, p)
        /\ UNCHANGED <<con, deleted, disk>>
    BY <1>3 DEF RemoteDone, CleanupCommit
  <2>2. /\ new.ctl = view[t].ctl /\ new.files = view[t].files
        /\ new.localDone = view[t].localDone /\ new.deleteFiles = view[t].deleteFiles
    BY <1>1 DEF AnyRow
  <2>3. p = "unlink" \/ (p = "drop" /\ (view[t].deleteFiles => view[t].localDone))
    BY Zenon DEF AfterRemote
  <2> HIDE DEF new, p
  <2>4. /\ row'.ctl = row.ctl /\ row'.files = row.files
        /\ row'.localDone = row.localDone /\ row'.deleteFiles = row.deleteFiles
    BY <2>1, <2>2, CommitKeeps
  <2>5. pc'[t] = p /\ \A u \in Tasks : u # t => pc'[u] = "idle"
    BY <1>0, <2>1, MovingLetsGo
  <2>6. view'[t] = new
    BY <2>1 DEF Faithful, Budgeted, Cleaning, Typed
  <2>7. p \notin Working /\ p # "deliver" /\ p # "unlinked"
    BY <2>3 DEF Working
  <2> QED BY <1>0, <2>1, <2>2, <2>3, <2>4, <2>5, <2>6, <2>7, OnOversees DEF Overseen, Stored, Held
<1>4. CASE LocalDone(t)
  <2> DEFINE new == [view[t] EXCEPT !.localDone = TRUE]
  <2>1. /\ Commit(t, new, FALSE) /\ view' = [view EXCEPT ![t] = new] /\ Goto(t, "drop")
        /\ UNCHANGED <<con, deleted, disk>> /\ pc[t] = "unlinked"
    BY <1>4 DEF LocalDone, CleanupCommit, At
  <2>2. /\ new.ctl = view[t].ctl /\ new.files = view[t].files
        /\ new.localDone = TRUE /\ new.deleteFiles = view[t].deleteFiles
    BY <1>1 DEF AnyRow
  <2> HIDE DEF new
  <2>3. /\ row'.ctl = row.ctl /\ row'.files = row.files
        /\ row'.deleteFiles = row.deleteFiles
    BY <2>1, <2>2, CommitKeeps
  <2>4. row'.localDone
    <3>1. row' = Merged(view[t], new)
      BY <1>0, <2>1 DEF Commit, CanCommit
    <3>2. row'.localDone = Column(view[t].localDone, new.localDone, row.localDone)
      BY <3>1 DEF Merged
    <3>3. view[t].localDone = row.localDone
      BY <1>0 DEF Held
    <3> QED BY <1>1, <2>2, <3>2, <3>3 DEF Column, AnyRow
  <2>5. pc'[t] = "drop" /\ \A u \in Tasks : u # t => pc'[u] = "idle"
    BY <1>0, <2>1, MovingLetsGo
  <2>6. view'[t] = new
    BY <2>1 DEF Faithful, Budgeted, Cleaning, Typed
  <2>7. disk = "none"
    BY <1>0, <2>1 DEF Held
  <2>8. new.localDone = row'.localDone
    BY <1>1, <2>2, <2>4 DEF RowGrows, AnyRow
  <2> QED BY <1>0, <2>1, <2>2, <2>3, <2>4, <2>5, <2>6, <2>7, <2>8, OnOversees
          DEF Held, Working, CleanupSteps
<1> QED BY <1>2, <1>3, <1>4

\* A delivery writes to the disk what the row has recorded.
LEMMA DeliverOversees ==
  ASSUME Faithful, Overseen, RowLearns, NEW t \in Tasks, DeliverProgress(t)
  PROVE  Watched' /\ Stored' /\ (\A u \in Tasks : Held(u)')
         /\ (row.ctl = "removing" => row'.ctl = "removing")
<1>0. /\ pc[t] = "deliver" /\ pc[t] # "idle" /\ Held(t) /\ row.ctl = "running" /\ row.files
      /\ ~deleted
  BY WorkersRead DEF DeliverProgress, At, Overseen, Held, Working, ProcessSteps
<1>1. view[t] \in AnyRow
  BY <1>0, WorkersRead, ReaderKnows
<1> DEFINE new   == MoveTo(view[t], "delivering")
           moved == view[t].state # "delivering"
<1>2. /\ Commit(t, new, moved) /\ UNCHANGED deleted
      /\ Exit(t) \/ (view' = [view EXCEPT ![t] = new] /\ UNCHANGED <<pc, con>>)
  BY DEF DeliverProgress, Leave
<1>3. /\ new.ctl = view[t].ctl /\ new.files = view[t].files
      /\ new.localDone = view[t].localDone /\ new.deleteFiles = view[t].deleteFiles
  BY <1>1 DEF AnyRow, MoveTo
<1> HIDE DEF new, moved
<1>4. /\ row'.ctl = row.ctl /\ row'.files = row.files
      /\ row'.localDone = row.localDone /\ row'.deleteFiles = row.deleteFiles
  BY <1>2, <1>3, CommitKeeps
<1>5. ~row.localDone
  BY <1>0 DEF Overseen, Stored
<1>6. CASE Exit(t)
  BY <1>0, <1>2, <1>4, <1>5, <1>6, EndOversees
<1>7. CASE view' = [view EXCEPT ![t] = new] /\ UNCHANGED <<pc, con>>
  <2>1. pc'[t] = "deliver" /\ \A u \in Tasks : u # t => pc'[u] = "idle"
    BY <1>0, <1>7, OthersIdle DEF Faithful, Budgeted, Cleaning
  <2>2. view'[t] = new
    BY <1>7 DEF Faithful, Budgeted, Cleaning, Typed
  <2>3. /\ view'[t].deleteFiles = row'.deleteFiles /\ view'[t].files = row'.files
        /\ view'[t].localDone = row'.localDone
    BY <1>0, <1>3, <1>4, <2>2 DEF Held
  <2>4. "deliver" \notin CleanupSteps
    BY DEF CleanupSteps
  <2> QED BY <1>0, <1>2, <1>4, <1>5, <1>7, <2>1, <2>3, <2>4, OnOversees
<1> QED BY <1>2, <1>6, <1>7

\* What a request writes of control_state: a removal is never taken back.
LEMMA DecidesShape ==
  ASSUME Faithful, NEW c \in Controllers,
         Ignore(c) \/ Pause(c) \/ Resume(c) \/ Retry(c) \/ Remove(c)
  PROVE  /\ con[c].step = "loaded"
         /\ \/ UNCHANGED row /\ Move(c, "ungate")
            \/ \E new, moved, next :
                 /\ ControlCommit(c, new, moved, next)
                 /\ new.localDone = view[c].localDone
                 /\ \/ /\ view[c].ctl # "removing" /\ new.ctl \in {"paused", "running"}
                       /\ next \in {"provider", "ungate"}
                    \/ new.ctl = view[c].ctl /\ next = "ungate"
                    \/ new.ctl = "removing" /\ next = "process"
<1>0. c \in Tasks /\ view[c] \in AnyRow /\ con[c].step = "loaded"
  BY DEF Tasks, Faithful, Budgeted, Cleaning, Typed, Ignore, Pause, Resume, Retry, Remove, Decides
<1> SUFFICES \/ UNCHANGED row /\ Move(c, "ungate")
             \/ \E new, moved, next :
                  /\ ControlCommit(c, new, moved, next)
                  /\ new.localDone = view[c].localDone
                  /\ \/ /\ view[c].ctl # "removing" /\ new.ctl \in {"paused", "running"}
                        /\ next \in {"provider", "ungate"}
                     \/ new.ctl = view[c].ctl /\ next = "ungate"
                     \/ new.ctl = "removing" /\ next = "process"
  BY <1>0
<1>1. CASE Ignore(c)
  BY <1>1 DEF Ignore
<1>2. CASE Pause(c)
  <2> DEFINE new == [view[c] EXCEPT !.ctl = "paused", !.scope = "local"]
  <2>1. \E next \in {"provider", "ungate"} : ControlCommit(c, new, FALSE, next)
    BY <1>2, Zenon DEF Pause
  <2>2. new.localDone = view[c].localDone /\ new.ctl = "paused"
    BY <1>0 DEF AnyRow
  <2>3. view[c].ctl # "removing"
    BY <1>2 DEF Pause, Accepts, Protected
  <2> HIDE DEF new
  <2> QED BY <2>1, <2>2, <2>3
<1>3. CASE Resume(c)
  <2> DEFINE new == [view[c] EXCEPT !.ctl = "running", !.scope = "none"]
  <2>1. \E next \in {"provider", "ungate"} : ControlCommit(c, new, FALSE, next)
    BY <1>3, Zenon DEF Resume
  <2>2. new.localDone = view[c].localDone /\ new.ctl = "running"
    BY <1>0 DEF AnyRow
  <2>3. view[c].ctl # "removing"
    BY <1>3 DEF Resume, Accepts, Protected
  <2> HIDE DEF new
  <2> QED BY <2>1, <2>2, <2>3
<1>4. CASE Retry(c)
  <2> DEFINE new == [view[c] EXCEPT !.ctl = "running", !.failures = 0,
                                    !.state = RetryState(view[c])]
  <2>1. ControlCommit(c, new, TRUE, "ungate")
    BY <1>4 DEF Retry
  <2>2. new.localDone = view[c].localDone /\ new.ctl = "running"
    BY <1>0 DEF AnyRow
  <2>3. view[c].ctl # "removing"
    BY <1>4 DEF Retry, Accepts, Protected
  <2> HIDE DEF new
  <2> QED BY <2>1, <2>2, <2>3
<1>5. CASE Remove(c)
  <2> DEFINE b   == view[c].deleteFiles \/ con[c].cmd = "remove_files"
             new == [view[c] EXCEPT !.ctl = "removing", !.requested = TRUE, !.deleteFiles = b]
  <2>1. (UNCHANGED row /\ Move(c, "ungate")) \/ ControlCommit(c, new, FALSE, "process")
    BY <1>5 DEF Remove
  <2>2. new.localDone = view[c].localDone /\ new.ctl = "removing"
    BY <1>0 DEF AnyRow
  <2> HIDE DEF new
  <2> QED BY <2>1, <2>2
<1> QED BY <1>1, <1>2, <1>3, <1>4, <1>5

\* A request that writes does so with nobody inside.
LEMMA ControlOversees ==
  ASSUME OneAtATime, Faithful, LetGo, Overseen, RowLearns, NEW c \in Controllers,
         Request(c) \/ Control(c)
  PROVE  Watched' /\ Stored' /\ (\A u \in Tasks : Held(u)')
         /\ (row.ctl = "removing" => row'.ctl = "removing")
<1>0. /\ Registered /\ Typed /\ Gated /\ Watched /\ Stored /\ c \in Tasks
      /\ row \in AnyRow /\ view[c] \in AnyRow
  BY DEF Faithful, Budgeted, Cleaning, Typed, Overseen, Tasks
<1>1. UNCHANGED <<pc, deleted, disk>>
  BY DEF Request, Control, LoadForControl, Ignore, Pause, Resume, Retry, Remove,
     ControlCommit, ProcessRefused, ProcessReturns, ServeControl, ProviderAnswers,
     ProviderFails, ControlRefused, Ungate, gateVars, sessionVars
<1>2. ASSUME NEW n, Move(c, n) PROVE con'[c].step = n
  BY <1>0, <1>2 DEF Move, Typed
<1>3. ASSUME /\ con'[c].step = "loaded" => view'[c].ctl = row'.ctl
             /\ con'[c].step \in {"provider", "served"} => row'.ctl # "removing"
      PROVE  Watched'
  BY <1>3 DEF OneAtATime, Watched
<1>4. CASE UNCHANGED row
  <2>1. Stored'
    BY <1>0, <1>1, <1>4 DEF Stored
  <2>2. ASSUME NEW u \in Tasks PROVE Held(u)'
    <3>1. pc'[u] = "idle" \/ view'[u] = view[u]
      BY ControlShape
    <3> QED BY <1>1, <1>4, <3>1 DEF Overseen, Held, Working, CleanupSteps
  <2>3. \/ con'[c].step \in {"stopping", "idle", "ungate", "process"}
        \/ con'[c].step = "loaded" /\ view'[c] = row
        \/ con'[c].step \in {"provider", "served"} /\ row.ctl # "removing"
    <3>1. CASE Request(c)
      BY <1>0, <3>1 DEF Request, Typed
    <3>2. CASE LoadForControl(c)
      <4>1. Move(c, "ungate") \/ (Move(c, "loaded") /\ view' = [view EXCEPT ![c] = row])
        BY <3>2 DEF LoadForControl
      <4> QED BY <1>0, <1>2, <4>1 DEF Typed
    <3>3. CASE Ignore(c) \/ Pause(c) \/ Resume(c) \/ Retry(c) \/ Remove(c)
      <4>1. con[c].step = "loaded" /\ view[c].ctl = row.ctl
        BY <1>0, <3>3, DecidesShape DEF Watched
      <4>2. \/ Move(c, "ungate") \/ Move(c, "process")
            \/ Move(c, "provider") /\ view[c].ctl # "removing"
        <5>1. CASE Move(c, "ungate")
          BY <5>1
        <5>2. CASE \E new, moved, next :
                     /\ ControlCommit(c, new, moved, next)
                     /\ \/ /\ view[c].ctl # "removing" /\ next \in {"provider", "ungate"}
                        \/ next \in {"ungate", "process"}
          BY <5>2, Zenon DEF ControlCommit
        <5> QED BY <3>3, <5>1, <5>2, DecidesShape
      <4> QED BY <1>2, <4>1, <4>2
    <3>4. CASE ServeControl(c)
      BY <1>0, <1>2, <3>4 DEF ServeControl, Watched
    <3>5. CASE Ungate(c)
      BY <1>0, <3>5 DEF Ungate, Typed, Idle
    <3>6. CASE \/ ProcessRefused(c) \/ ProcessReturns(c) \/ ProviderAnswers(c)
               \/ ProviderFails(c) \/ ControlRefused(c)
      BY <1>2, <3>6 DEF ProcessRefused, ProcessReturns, ProviderAnswers, ProviderFails,
         ControlRefused
    <3> QED BY <3>1, <3>2, <3>3, <3>4, <3>5, <3>6 DEF Control
  <2> QED BY <1>3, <1>4, <2>1, <2>2, <2>3
<1>5. CASE row' # row /\ (Ignore(c) \/ Pause(c) \/ Resume(c) \/ Retry(c) \/ Remove(c))
  <2>1. con[c].step = "loaded" /\ view[c].ctl = row.ctl
    BY <1>0, <1>5, DecidesShape DEF Watched
  <2>2. PICK new, moved, next :
          /\ ControlCommit(c, new, moved, next)
          /\ new.localDone = view[c].localDone
          /\ \/ /\ view[c].ctl # "removing" /\ new.ctl \in {"paused", "running"}
                /\ next \in {"provider", "ungate"}
             \/ new.ctl = view[c].ctl /\ next = "ungate"
             \/ new.ctl = "removing" /\ next = "process"
    BY <1>5, DecidesShape
  <2>3. /\ CanCommit(c, moved) /\ row' = Merged(view[c], new) /\ Move(c, next)
    BY <1>5, <2>2 DEF ControlCommit, Commit
  <2>4. row'.ctl = new.ctl /\ ~deleted
    BY <2>1, <2>3 DEF Merged, Column, CanCommit
  <2>5. row'.localDone = row.localDone
    BY <2>2, CommitKeeps DEF ControlCommit
  <2>6. con'[c].step = next
    BY <1>2, <2>3
  <2>7. Watched'
    BY <1>3, <2>2, <2>4, <2>6
  <2>8. row.ctl = "removing" => row'.ctl = "removing"
    BY <2>1, <2>2, <2>4
  <2>9. Stored'
    BY <1>0, <1>1, <2>4, <2>5, <2>8 DEF Stored, RowLearns, Grown
  <2>10. \A u \in Tasks : Held(u)'
    BY <1>0, <1>1, <2>1, RequestsAlone, NoneHeld
  <2> QED BY <2>7, <2>8, <2>9, <2>10
<1>6. CASE row' # row /\ (ProviderAnswers(c) \/ ProviderFails(c))
  <2>1. /\ con[c].step \in {"provider", "served"} /\ Move(c, "ungate") /\ row.ctl # "removing"
        /\ ~deleted
    BY <1>0, <1>6 DEF ProviderAnswers, ProviderFails, Watched
  <2>2. row'.localDone = row.localDone
    <3>1. CASE ProviderFails(c)
      <4>1. row' = row \/ row' = [row EXCEPT !.ctl = "paused"]
        BY <3>1 DEF ProviderFails
      <4> QED BY <1>0, <4>1 DEF AnyRow
    <3>2. CASE ProviderAnswers(c)
      <4>1. PICK s : row' = row \/ row' = [row EXCEPT !.scope = s]
        BY <3>2, Zenon DEF ProviderAnswers
      <4> QED BY <1>0, <4>1 DEF AnyRow
    <3> QED BY <1>6, <3>1, <3>2
  <2>3. con'[c].step = "ungate"
    BY <1>2, <2>1
  <2>4. Stored'
    BY <1>0, <1>1, <2>1, <2>2 DEF Stored, RowLearns, Grown
  <2>5. \A u \in Tasks : Held(u)'
    BY <1>0, <1>1, <2>1, RequestsAlone, NoneHeld
  <2> QED BY <1>3, <2>1, <2>3, <2>4, <2>5
<1> QED BY <1>4, <1>5, <1>6 DEF Request, Control, LoadForControl, ProcessRefused,
        ProcessReturns, ServeControl, ControlRefused, Ungate

\* Every action is one of those.
LEMMA OverseenStep ==
  ASSUME OneAtATime, Faithful, LetGo, Overseen, [Next]_vars
  PROVE  Overseen' /\ (row.ctl = "removing" => row'.ctl = "removing")
<1>1. RowLearns /\ RowGrows /\ Gated'
  BY LearnsStep, CleaningStep, GatedStep DEF Faithful, Budgeted, Overseen
<1>2. CASE \E t \in Tasks : Process(t)
  <2>1. PICK t \in Tasks : Process(t)
    BY <1>2
  <2> QED BY <1>1, <2>1, StartsOversees, WorksOversees, GoesOnOversees, CleanupOversees,
             DeliverOversees DEF Process, Works, Overseen
<1>3. CASE \E c \in Controllers : Request(c) \/ Control(c)
  BY <1>1, <1>3, ControlOversees DEF Overseen
<1>4. CASE TorBoxStarts \/ TorBoxFinishes \/ UNCHANGED vars
  <2>1. UNCHANGED <<row, deleted, pc, view, con, disk>>
    BY <1>4 DEF TorBoxStarts, TorBoxFinishes, vars, sessionVars
  <2> QED BY <1>1, <2>1 DEF Overseen, Watched, Stored, Held
<1>5. CASE Crash
  <2>1. /\ UNCHANGED <<row, deleted, disk>> /\ con' = [c \in Controllers |-> Idle]
        /\ \A t \in Tasks : pc'[t] = "idle"
    BY <1>5 DEF Crash
  <2> QED BY <1>1, <2>1, NoneHeld DEF Overseen, Watched, Stored, Idle
<1> QED BY <1>2, <1>3, <1>4, <1>5 DEF Next

LEMMA OverseenInit == Init => Faithful /\ LetGo /\ Overseen
<1> SUFFICES ASSUME Init PROVE LetGo /\ Overseen
  BY FaithfulInit
<1>1. /\ row = NewRow /\ torrent = "absent" /\ disk = "none" /\ ~deleted /\ ~controlling
      /\ active = NoTask /\ con = [c \in Controllers |-> Idle]
      /\ \A t \in Tasks : pc[t] = "idle"
  BY DEF Init
<1>2. LetGo
  BY <1>1 DEF LetGo, Settled, Submitting, Deleting, Working, NewRow
<1>3. Gated /\ Watched /\ Stored
  BY <1>1 DEF Gated, Watched, Stored, Idle, NewRow
<1>4. \A t \in Tasks : Held(t)
  BY <1>1 DEF Held, Working, CleanupSteps
<1> QED BY <1>2, <1>3, <1>4 DEF Overseen

\* A paused job has no task at work (_control, service.py:790-857;
\* operational-controls.md:19), while requests come one at a time.
THEOREM PausedIsQuiet == ASSUME OneAtATime PROVE Spec => []PausedQuiesces
<1>1. Faithful /\ LetGo /\ Overseen /\ [Next]_vars => Faithful' /\ LetGo' /\ Overseen'
  BY FaithfulStep, LetGoStep, OverseenStep
<1>2. Faithful /\ Overseen => PausedQuiesces
  <2> SUFFICES ASSUME Faithful, Overseen, row.ctl = "paused", active # NoTask PROVE FALSE
    BY DEF PausedQuiesces
  <2>1. active \in Tasks /\ pc[active] # "idle" /\ pc[active] \in ProcessSteps
    BY DEF Faithful, Budgeted, Cleaning, Registered, Overseen, Gated
  <2>2. pc[active] \in Working \/ pc[active] \in CleanupSteps
    BY <2>1 DEF Working, CleanupSteps
  <2> QED BY <2>1, <2>2 DEF Overseen, Held
<1> QED
  BY <1>1, <1>2, OverseenInit, PTL DEF Spec

\* A removal that asked for the files leaves none (_cleanup_removing,
\* service.py:938-980), while requests come one at a time: wherever the cleanup
\* was interrupted, and whatever the delivery had written when it was stopped.
THEOREM RemovalTakesFiles == ASSUME OneAtATime PROVE Spec => []FilesDeleted
<1>1. Faithful /\ LetGo /\ Overseen /\ [Next]_vars => Faithful' /\ LetGo' /\ Overseen'
  BY FaithfulStep, LetGoStep, OverseenStep
<1>2. Overseen => FilesDeleted
  BY DEF Overseen, Stored, FilesDeleted
<1> QED
  BY <1>1, <1>2, OverseenInit, PTL DEF Spec

\* A removal, once stored, is only ended by deleting the row (remove,
\* service.py:892-925), while requests come one at a time.
THEOREM RemovalLasts == ASSUME OneAtATime PROVE Spec => RemovalDurable
<1>1. Faithful /\ LetGo /\ Overseen /\ [Next]_vars => Faithful' /\ LetGo' /\ Overseen'
  BY FaithfulStep, LetGoStep, OverseenStep
<1>2. Faithful /\ LetGo /\ Overseen /\ [Next]_vars
        => [row.ctl = "removing" => row'.ctl = "removing"]_vars
  BY OverseenStep
<1> QED
  BY <1>1, <1>2, OverseenInit, PTL DEF Spec, RemovalDurable

-----------------------------------------------------------------------------
\* The promise with what is proved of it.
Told == INSTANCE JobPromise_proofs WITH
  phase    <- row.state,
  known    <- {k \in {"queued", "remote", "files"} : row[k]},
  failures <- row.failures,
  asked    <- {k \in {"job", "files"} :
                 IF k = "job" THEN row.requested ELSE row.deleteFiles},
  released <- row.remoteDone,
  payload  <- disk,
  gone     <- deleted

\* What the promise implies holds of the service: a completed job has its
\* payload until a removal asks for the files (_deliver, service.py:653-771),
\* and what is deleted was asked to go, after TorBox let go of it
\* (_cleanup_removing, service.py:938-980).
THEOREM PromisesKept == Spec => [](Promise!Kept /\ Promise!AskedFor)
<1>1. Init => Faithful /\ Told!Init
  BY FaithfulInit DEF Promise!Init, Told!Init
<1>2. Promise!vars = Told!vars
  BY DEF Promise!vars, Told!vars
<1>3. Promise!Next => Told!Next
  BY DEF Promise!Next, Told!Next, Promise!Advance, Told!Advance, Promise!Fail, Told!Fail,
     Promise!Receive, Told!Receive, Promise!Complete, Told!Complete, Promise!Restart,
     Told!Restart, Promise!Ask, Told!Ask, Promise!Release, Told!Release, Promise!Discard,
     Told!Discard, Promise!Vanish, Told!Vanish, Promise!Lessons, Told!Lessons,
     Promise!Terminal, Told!Terminal, Promise!Stages, Told!Stages, Promise!Phases,
     Told!Phases, Promise!Needs, Told!Needs
<1>4. Faithful /\ [Next]_vars => Faithful' /\ [Told!Next]_(Told!vars)
  BY <1>2, <1>3, FaithfulStep DEF Allowed, Promise!vars, Told!vars
<1>5. Told!Kept /\ Told!AskedFor => Promise!Kept /\ Promise!AskedFor
  BY DEF Told!Kept, Told!AskedFor, Promise!Kept, Promise!AskedFor
<1>6. Spec => Told!Spec
  BY <1>1, <1>4, PTL DEF Spec, Told!Spec
<1>7. Told!Spec => [](Told!Backed /\ Told!Kept /\ Told!Budget /\ Told!AskedFor)
  BY Told!PromisesHold
<1> QED
  BY <1>5, <1>6, <1>7, PTL
=============================================================================
