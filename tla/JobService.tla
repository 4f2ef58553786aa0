------------------------------ MODULE JobService ------------------------------
(***************************************************************************)
(* The life of one job in downloadarr: the task that processes it, the     *)
(* control requests that stop, restart and remove it, the row they share,  *)
(* TorBox, and the process that may die at any point.                      *)
(*                                                                         *)
(* Jobs share nothing inside JobService (every gate, task slot and row is  *)
(* keyed by the job), so the module follows one job.  A step is the code   *)
(* between two awaits that another coroutine can observe.  Time is left    *)
(* out: next_poll_at only delays the poller, so a job that is due now or   *)
(* later is one the poller may pick now.                                   *)
(***************************************************************************)
EXTENDS Naturals

CONSTANTS
  Controllers,      \* API requests that can be in flight together
  Poller,           \* the poller's worker task for this job
  NoTask,           \* no task is registered in _active_tasks
  Commands,         \* the requests the API receives
  MaxFailures,      \* scheduler.max_job_failures
  MaxCommands,      \* bound: requests in a behaviour
  MaxFaults,        \* bound: process deaths and refused commits in a behaviour
  ReconcileErrors,  \* errors find_torrent and get_queued may raise
  MissingDelete,    \* TRUE: TorBox accepts the deletion of an unknown id
  StableLists,      \* TRUE: no entry leaves TorBox's queue between the two
                    \* reads of one reconciliation
  FilesListed       \* TRUE: TorBox lists the files of a finished torrent

Tasks == Controllers \cup {Poller}

AllCommands == {"pause", "resume", "retry", "remove", "remove_files"}
Removals    == {"remove", "remove_files"}

\* "network" stands for every ambiguous transient error (NETWORK_ERROR,
\* UPSTREAM_ERROR, INVALID_RESPONSE), "refused" for a permanent one that is
\* not in the set of service.py:411.
Errors     == {"network", "rate_limited", "rejected", "refused"}
Transient  == {"network", "rate_limited"}

\* Mutant: every failed create is taken for a rejection.
RejectionsAll == Errors
Rejections == {"rate_limited", "rejected"}

ASSUME ProcessAssumption ==
  /\ Poller \notin Controllers
  /\ NoTask \notin Tasks
ASSUME CommandAssumption == Commands \subseteq AllCommands
ASSUME BoundAssumption ==
  /\ MaxFailures \in Nat \ {0}
  /\ MaxCommands \in Nat
  /\ MaxFaults \in Nat
ASSUME ProviderAssumption ==
  /\ ReconcileErrors \subseteq Errors
  /\ MissingDelete \in BOOLEAN
  /\ StableLists \in BOOLEAN
  /\ FilesListed \in BOOLEAN

ControlStates == {"running", "paused", "removing"}
JobStates == {"submitted", "provider_queued", "provider_downloading",
              "provider_ready", "delivering", "retry_wait", "completed", "failed"}
Terminal  == {"completed", "failed"}
Scopes    == {"none", "local", "local_and_provider"}

\* The row of the job with its provider_job, and whether its delivery_files
\* and its unique cleanup_requested event are there.
Row == [ctl         : ControlStates,    \* control_state
        state       : JobStates,
        submitting  : BOOLEAN,          \* provider_state = "submitting"
        remote      : BOOLEAN,          \* remote_id is set
        queued      : BOOLEAN,          \* queued_id is set
        files       : BOOLEAN,          \* delivery_files exist
        failures    : 0..MaxFailures,   \* poll_failures
        scope       : Scopes,           \* control_scope
        remoteDone  : BOOLEAN,          \* remote_cleanup_done
        localDone   : BOOLEAN,          \* local_cleanup_done
        deleteFiles : BOOLEAN,          \* remove_delete_files
        requested   : BOOLEAN]          \* cleanup_requested was recorded

NewRow == [ctl |-> "running", state |-> "submitted", submitting |-> FALSE,
           remote |-> FALSE, queued |-> FALSE, files |-> FALSE,
           failures |-> 0, scope |-> "none", remoteDone |-> FALSE,
           localDone |-> FALSE, deleteFiles |-> FALSE, requested |-> FALSE]

VARIABLES
  row,          \* the committed row
  deleted,      \* the row is gone
  controlling,  \* the job is in _controlling
  active,       \* the task in _active_tasks, or NoTask
  cancelled,    \* tasks asked to stop that have not unwound yet
  pc,           \* per task: where it is in _process
  view,         \* per session: the row as its ORM session holds it
  stale,        \* sessions whose transition_generation is out of date
  con,          \* per controller: its request and its place in it
  torrent,      \* what TorBox holds for the info hash
  suspended,    \* TorBox was told to pause the torrent
  disk,         \* local artefacts of the delivery
  commands, faults

sessionVars  == <<pc, view, stale>>
gateVars     == <<controlling, cancelled>>
providerVars == <<torrent, suspended>>
bounds       == <<commands, faults>>
vars == <<row, deleted, controlling, active, cancelled, pc, view, stale, con,
          torrent, suspended, disk, commands, faults>>

ProcessSteps == {"idle", "create", "recreate", "created", "enqueued", "find",
                 "find_queued", "poll_queued", "poll_remote", "prepare",
                 "deliver", "delete", "deleted", "unlink", "unlinked", "drop"}
ControlSteps == {"idle", "stopping", "loaded", "provider", "served",
                 "process", "inline", "ungate"}

Idle == [step |-> "idle", cmd |-> "none"]

Init ==
  /\ row = NewRow
  /\ deleted = FALSE
  /\ controlling = FALSE
  /\ active = NoTask
  /\ cancelled = {}
  /\ pc = [t \in Tasks |-> "idle"]
  /\ view = [t \in Tasks |-> NewRow]
  /\ stale = {}
  /\ con = [c \in Controllers |-> Idle]
  /\ torrent = "absent"
  /\ suspended = FALSE
  /\ disk = "none"
  /\ commands = 0
  /\ faults = 0

-----------------------------------------------------------------------------
(***************************************************************************)
(* Commits.  A session writes the columns it changed and no other, so a    *)
(* stale session does not undo the columns it left alone.  A phase change  *)
(* also inserts the event transition:<id>:<generation>, which is unique: a *)
(* session that loaded an older generation than the row's cannot commit.   *)
(***************************************************************************)
Column(old, new, stored) == IF new # old THEN new ELSE stored

Merged(old, new) ==
  [ctl         |-> Column(old.ctl, new.ctl, row.ctl),
   state       |-> Column(old.state, new.state, row.state),
   submitting  |-> Column(old.submitting, new.submitting, row.submitting),
   remote      |-> Column(old.remote, new.remote, row.remote),
   queued      |-> Column(old.queued, new.queued, row.queued),
   files       |-> Column(old.files, new.files, row.files),
   failures    |-> Column(old.failures, new.failures, row.failures),
   scope       |-> Column(old.scope, new.scope, row.scope),
   remoteDone  |-> Column(old.remoteDone, new.remoteDone, row.remoteDone),
   localDone   |-> Column(old.localDone, new.localDone, row.localDone),
   deleteFiles |-> Column(old.deleteFiles, new.deleteFiles, row.deleteFiles),
   requested   |-> Column(old.requested, new.requested, row.requested)]

\* The sessions that hold a loaded row.
Readers == {t \in Tasks : pc[t] # "idle"} \cup
           {c \in Controllers : con[c].step = "loaded"}

CanCommit(s, moved) == ~deleted /\ (moved => s \notin stale)

\* Session s changed its row from view[s] to new; moved says that the phase
\* changed on the way.  The commit fails as a whole or not at all.
Commit(s, new, moved) ==
  row' = IF CanCommit(s, moved) THEN Merged(view[s], new) ELSE row

\* The sessions left behind by that commit.
Overtaken(s, moved) ==
  IF moved /\ CanCommit(s, moved) THEN stale \cup (Readers \ {s}) ELSE stale

-----------------------------------------------------------------------------
(***************************************************************************)
(* Entering and leaving process().                                         *)
(***************************************************************************)
Runnable(r) == r.ctl = "running" /\ r.state \notin Terminal

\* Mutants: removals, and scheduled retries, are not selected.
DueRunning == ~deleted /\ Runnable(row)
DueFresh   == /\ ~deleted
              /\ row.ctl = "removing" \/ (Runnable(row) /\ row.state # "retry_wait")
Due == ~deleted /\ (row.ctl = "removing" \/ Runnable(row))

\* process() lets a task in when no request holds the gate and no other task
\* is registered.  Mutant: only the gate is looked at.
AdmittedTwice == ~controlling
Admitted == ~controlling /\ active = NoTask

\* A worker of the poller starts for a due job; a removal calls process()
\* itself once its intent is committed.
CallsProcess(t) ==
  \/ t = Poller /\ pc[t] = "idle" /\ Due
  \/ t \in Controllers /\ con[t].step = "process"

Enter(t, step) ==
  /\ CallsProcess(t)
  /\ Admitted
  /\ ~deleted
  /\ active' = t
  /\ pc' = [pc EXCEPT ![t] = step]
  /\ view' = [view EXCEPT ![t] = row']
  /\ stale' = stale \ {t}
  /\ con' = IF t \in Controllers THEN [con EXCEPT ![t].step = "inline"] ELSE con
  /\ UNCHANGED <<deleted, gateVars, providerVars, disk, bounds>>

\* The task unregisters itself and its session is closed.
Exit(t) ==
  /\ active' = IF active = t THEN NoTask ELSE active
  /\ pc' = [pc EXCEPT ![t] = "idle"]
  /\ view' = [view EXCEPT ![t] = NewRow]
  /\ UNCHANGED <<controlling, con>>

Leave(t) == Exit(t) /\ UNCHANGED bounds

\* t is at step p and has not been cancelled.
At(t, p) == pc[t] = p /\ t \notin cancelled

Goto(t, p) == pc' = [pc EXCEPT ![t] = p]

-----------------------------------------------------------------------------
(***************************************************************************)
(* What process() does with a running job: which part of the work is next  *)
(* follows from the identities in the row.                                 *)
(***************************************************************************)
NextIsDeliver(r)     == Runnable(r) /\ r.remote /\ r.files
NextIsPrepare(r)     == /\ Runnable(r) /\ r.remote /\ ~r.files
                        /\ r.state = "provider_ready"
NextIsPollRemote(r)  == /\ Runnable(r) /\ r.remote /\ ~r.files
                        /\ r.state # "provider_ready"
NextIsPollQueued(r)  == Runnable(r) /\ ~r.remote /\ r.queued
NextIsSubmit(r)      == Runnable(r) /\ ~r.remote /\ ~r.queued

StartDeliver(t)    == NextIsDeliver(row) /\ UNCHANGED row /\ Enter(t, "deliver")
StartPrepare(t)    == NextIsPrepare(row) /\ UNCHANGED row /\ Enter(t, "prepare")
StartPollRemote(t) == NextIsPollRemote(row) /\ UNCHANGED row /\ Enter(t, "poll_remote")
StartPollQueued(t) == NextIsPollQueued(row) /\ UNCHANGED row /\ Enter(t, "poll_queued")

\* _submit commits its intent before the first create ...
StartCreate(t) ==
  /\ NextIsSubmit(row) /\ ~row.submitting
  /\ row' = [row EXCEPT !.submitting = TRUE]
  /\ Enter(t, "create")

\* ... and looks for what an earlier create left behind when it finds one.
StartReconcile(t) ==
  /\ NextIsSubmit(row) /\ row.submitting
  /\ UNCHANGED row
  /\ Enter(t, "find")

\* A poll that ends well: the counter of failures is reset, one commit.
Succeed(t, new, moved) ==
  /\ Commit(t, [new EXCEPT !.failures = 0], moved)
  /\ stale' = Overtaken(t, moved) \ {t}
  /\ Leave(t)
  /\ UNCHANGED <<deleted, cancelled, torrent, suspended, disk>>

\* A poll that raised: retry_wait while the error may pass and the budget
\* lasts, failed otherwise.
AfterFailure(r, e) ==
  [r EXCEPT !.failures = @ + 1,
            !.state = IF e \in Transient /\ r.failures + 1 < MaxFailures
                        THEN "retry_wait" ELSE "failed"]

Fail(t, new, moved) ==
  /\ Commit(t, new, moved)
  /\ stale' = Overtaken(t, moved) \ {t}
  /\ Leave(t)
  /\ UNCHANGED <<deleted, cancelled, torrent, suspended, disk>>

FailFrom(t, p, e) ==
  LET new == AfterFailure(view[t], e)
  IN  At(t, p) /\ Fail(t, new, new.state # view[t].state)

\* In the submission stage a rejection is taken as proof that TorBox holds
\* nothing: provider_state becomes submit_retry.
FailSubmission(t, p, e) ==
  LET new == [AfterFailure(view[t], e) EXCEPT
                !.submitting = IF e \in Rejections THEN FALSE ELSE @]
  IN  At(t, p) /\ Fail(t, new, new.state # view[t].state)

MoveTo(r, s) == [r EXCEPT !.state = s]

\* _apply_torrent: provider_state becomes what TorBox reports.
Applied(r) ==
  [r EXCEPT !.remote = TRUE, !.submitting = FALSE,
            !.state = IF torrent = "ready" THEN "provider_ready"
                                           ELSE "provider_downloading"]

BindTorrent(t) == LET new == Applied(view[t])
                  IN  Succeed(t, new, new.state # view[t].state)

OnTorBox == torrent \in {"active", "ready"}

-----------------------------------------------------------------------------
(***************************************************************************)
(* Submission.                                                             *)
(***************************************************************************)
FindTorrent(t) == At(t, "find") /\ OnTorBox /\ BindTorrent(t)

FindNothing(t) ==
  /\ At(t, "find") /\ ~OnTorBox
  /\ Goto(t, "find_queued")
  /\ UNCHANGED <<row, deleted, gateVars, active, view, stale, con, providerVars,
                 disk, bounds>>

\* An entry of the queue names its torrent once TorBox has started it, and
\* may be listed a little longer.
FindQueued(t) ==
  LET new == [MoveTo(view[t], IF OnTorBox THEN "provider_downloading"
                                          ELSE "provider_queued") EXCEPT
                !.queued = TRUE, !.remote = OnTorBox]
  IN  /\ At(t, "find_queued") /\ torrent # "absent"
      /\ Succeed(t, new, new.state # view[t].state)

FindQueuedNothing(t) ==
  /\ At(t, "find_queued") /\ torrent # "queued"
  /\ Goto(t, "recreate")
  /\ UNCHANGED <<row, deleted, gateVars, active, view, stale, con, providerVars,
                 disk, bounds>>

ReconcileFails(t) ==
  \E e \in ReconcileErrors, p \in {"find", "find_queued"} : FailSubmission(t, p, e)

\* TorBox receives the create, whether or not the caller is still there for
\* the answer.  It keeps one torrent per info hash; a second create is
\* rejected and the client answers with what it finds.
ServeCreate(t) ==
  /\ pc[t] \in {"create", "recreate"}
  /\ torrent' \in IF torrent = "absent" THEN {"queued", "active", "ready"}
                                        ELSE {torrent}
  /\ Goto(t, IF torrent' = "queued" THEN "enqueued" ELSE "created")
  /\ UNCHANGED <<row, deleted, gateVars, active, view, stale, con, suspended,
                 disk, bounds>>

Created(t) ==
  LET new == [MoveTo(view[t], "provider_downloading") EXCEPT
                !.remote = TRUE, !.submitting = FALSE]
  IN  At(t, "created") /\ Succeed(t, new, new.state # view[t].state)

Enqueued(t) ==
  LET new == [MoveTo(view[t], "provider_queued") EXCEPT
                !.queued = TRUE, !.submitting = FALSE]
  IN  At(t, "enqueued") /\ Succeed(t, new, new.state # view[t].state)

\* The create is turned down, lost on the way there, or its answer is lost.
CreateFails(t) ==
  \/ \E e \in Errors, p \in {"create", "recreate"} :
        FailSubmission(t, p, e)
  \/ \E p \in {"created", "enqueued"} : FailSubmission(t, p, "network")

-----------------------------------------------------------------------------
(***************************************************************************)
(* Polling, preparing and delivering.                                      *)
(***************************************************************************)
PollQueuedBinds(t) == At(t, "poll_queued") /\ OnTorBox /\ BindTorrent(t)

PollQueuedStarted(t) ==
  LET new == [MoveTo(view[t], "provider_downloading") EXCEPT !.remote = TRUE]
  IN  /\ At(t, "poll_queued") /\ OnTorBox
      /\ Succeed(t, new, new.state # view[t].state)

PollQueuedWaits(t) ==
  LET new == MoveTo(view[t], "provider_queued")
  IN  /\ At(t, "poll_queued") /\ ~OnTorBox
      /\ Succeed(t, new, new.state # view[t].state)

PollRemote(t) == At(t, "poll_remote") /\ OnTorBox /\ BindTorrent(t)

PrepareDelivery(t) ==
  /\ At(t, "prepare") /\ OnTorBox /\ FilesListed
  /\ Succeed(t, [MoveTo(view[t], "delivering") EXCEPT !.files = TRUE], TRUE)

PollFails(t) ==
  \E e \in Errors, p \in {"poll_queued", "poll_remote", "prepare"} : FailFrom(t, p, e)

\* _process moves the job to delivering in its session; the first progress
\* callback commits that while bytes are still arriving.
DeliverProgress(t) ==
  LET new   == MoveTo(view[t], "delivering")
      moved == view[t].state # "delivering"
  IN  /\ At(t, "deliver") /\ torrent = "ready"
      /\ disk' = IF disk = "final" THEN disk ELSE "partial"
      /\ Commit(t, new, moved)
      /\ stale' = IF CanCommit(t, moved) THEN Overtaken(t, moved) ELSE stale \ {t}
      /\ IF CanCommit(t, moved)
           THEN view' = [view EXCEPT ![t] = new] /\ UNCHANGED <<pc, active, con>>
           ELSE Leave(t)
      /\ UNCHANGED <<deleted, gateVars, providerVars, bounds>>

\* The downloader renames the finished part before anything is committed.
Publish(t) ==
  /\ At(t, "deliver") /\ torrent = "ready" /\ disk # "final"
  /\ disk' = "final"
  /\ UNCHANGED <<row, deleted, gateVars, active, sessionVars, con, providerVars, bounds>>

Delivered(t) ==
  /\ At(t, "deliver") /\ disk = "final"
  /\ Succeed(t, MoveTo(view[t], "completed"), TRUE)

DeliverFails(t) ==
  \E e \in Errors : At(t, "deliver") /\ Fail(t, AfterFailure(view[t], e), TRUE)

-----------------------------------------------------------------------------
(***************************************************************************)
(* Removal, resumable at every commit: the object at TorBox, then the      *)
(* local files if they were asked for, then the row.                       *)
(***************************************************************************)
HasIdentity(r) == r.remote \/ r.queued

AfterRemote(r) == IF r.deleteFiles /\ ~r.localDone THEN "unlink" ELSE "drop"

\* Mutant: local files first.
StartCleanupLocalFirst(t) ==
  /\ row.ctl = "removing"
  /\ UNCHANGED row
  /\ Enter(t, IF row.deleteFiles /\ ~row.localDone THEN "unlink"
              ELSE IF row.remoteDone THEN "drop"
              ELSE IF HasIdentity(row) THEN "delete" ELSE "deleted")

StartCleanup(t) ==
  /\ row.ctl = "removing"
  /\ UNCHANGED row
  /\ Enter(t, IF row.remoteDone THEN AfterRemote(row)
              ELSE IF HasIdentity(row) THEN "delete" ELSE "deleted")

\* What TorBox holds under the identity the session knows.  Mutant: the queue
\* id is used first.
KnownQueueFirst(r) == IF r.queued THEN torrent = "queued" ELSE OnTorBox
Known(r) == IF r.remote THEN OnTorBox ELSE torrent = "queued"

ServeDelete(t) ==
  /\ pc[t] = "delete"
  /\ Known(view[t]) \/ MissingDelete
  /\ torrent' = IF Known(view[t]) THEN "absent" ELSE torrent
  /\ Goto(t, "deleted")
  /\ UNCHANGED <<row, deleted, gateVars, active, view, stale, con, suspended,
                 disk, bounds>>

\* One step of the cleanup is committed and the task goes on to p.
CleanupCommit(t, new, p) ==
  /\ Commit(t, new, FALSE)
  /\ view' = [view EXCEPT ![t] = new]
  /\ Goto(t, p)
  /\ UNCHANGED <<deleted, gateVars, active, stale, con, providerVars, disk, bounds>>

RemoteDone(t) == At(t, "deleted") /\ CleanupCommit(t, [view[t] EXCEPT !.remoteDone = TRUE],
                                                   AfterRemote(view[t]))

\* Only the files of the job's own delivery rows are unlinked.
\* Mutant: the part file is forgotten.
UnlinkFinal(t) ==
  /\ At(t, "unlink")
  /\ disk' = IF view[t].files /\ disk = "final" THEN "none" ELSE disk
  /\ Goto(t, "unlinked")
  /\ UNCHANGED <<row, deleted, gateVars, active, view, stale, con, providerVars, bounds>>

Unlink(t) ==
  /\ At(t, "unlink")
  /\ disk' = IF view[t].files THEN "none" ELSE disk
  /\ Goto(t, "unlinked")
  /\ UNCHANGED <<row, deleted, gateVars, active, view, stale, con, providerVars, bounds>>

LocalDone(t) == At(t, "unlinked") /\ CleanupCommit(t, [view[t] EXCEPT !.localDone = TRUE], "drop")

\* A ProviderError or OSError only counts the failure and delays the retry.
CleanupFails(t) ==
  /\ \/ At(t, "delete")
     \/ At(t, "deleted") /\ HasIdentity(view[t])
     \/ At(t, "unlink")
  /\ stale' = stale \ {t}
  /\ Leave(t)
  /\ UNCHANGED <<row, deleted, cancelled, providerVars, disk>>

Drop(t) ==
  /\ At(t, "drop")
  /\ deleted' = TRUE
  /\ stale' = stale \ {t}
  /\ Leave(t)
  /\ UNCHANGED <<row, cancelled, providerVars, disk>>

-----------------------------------------------------------------------------
(***************************************************************************)
(* Control requests: raise the gate, cancel the registered task and wait   *)
(* for it, load the row, commit the command, call TorBox, lower the gate.  *)
(***************************************************************************)
Move(c, step) == con' = [con EXCEPT ![c].step = step]

Request(c) ==
  /\ con[c].step = "idle" /\ ~deleted
  /\ commands < MaxCommands
  /\ commands' = commands + 1
  /\ \E cmd \in Commands : con' = [con EXCEPT ![c] = [step |-> "stopping", cmd |-> cmd]]
  /\ controlling' = TRUE
  /\ cancelled' = cancelled \cup ({active} \ {NoTask})
  /\ UNCHANGED <<row, deleted, active, sessionVars, providerVars, disk, faults>>

\* Mutant: the cancelled task is not awaited.
LoadForControlEarly(c) ==
  /\ con[c].step = "stopping"
  /\ IF deleted THEN Move(c, "ungate") /\ UNCHANGED <<view, stale>>
                ELSE /\ Move(c, "loaded")
                     /\ view' = [view EXCEPT ![c] = row]
                     /\ stale' = stale \ {c}
  /\ UNCHANGED <<row, deleted, gateVars, active, pc, providerVars, disk, bounds>>

LoadForControl(c) ==
  /\ con[c].step = "stopping" /\ cancelled = {}
  /\ IF deleted THEN Move(c, "ungate") /\ UNCHANGED <<view, stale>>
                ELSE /\ Move(c, "loaded")
                     /\ view' = [view EXCEPT ![c] = row]
                     /\ stale' = stale \ {c}
  /\ UNCHANGED <<row, deleted, gateVars, active, pc, providerVars, disk, bounds>>

\* c has loaded the row and its command is one of cmds.
Decides(c, cmds) == con[c].step = "loaded" /\ con[c].cmd \in cmds

\* Commit the command and go on; a commit the database refuses ends the request.
ControlCommit(c, new, moved, next) ==
  /\ Commit(c, new, moved)
  /\ stale' = Overtaken(c, moved) \ {c}
  /\ Move(c, IF CanCommit(c, moved) THEN next ELSE "ungate")
  /\ view' = [view EXCEPT ![c] = NewRow]
  /\ UNCHANGED <<deleted, active, pc, cancelled, providerVars, disk, bounds>>

\* Mutant: only a completed job is left alone.
ProtectedCompleted(r) == r.state = "completed"
Protected(r) == r.ctl = "removing" \/ r.state = "completed"

\* The phase a retry goes back to, from the durable identities.  Mutant: a
\* torrent id is taken for a delivery.
RetryStateEager(r) ==
  IF r.remote THEN "delivering"
  ELSE IF r.queued THEN "provider_queued"
  ELSE "submitted"
RetryState(r) ==
  IF r.files THEN "delivering"
  ELSE IF r.remote THEN "provider_downloading"
  ELSE IF r.queued THEN "provider_queued"
  ELSE "submitted"

Accepts(r, cmd) ==
  /\ ~Protected(r)
  /\ cmd = "resume" => r.ctl = "paused"
  /\ cmd = "retry" => r.state \in {"failed", "retry_wait"}

Ignore(c) ==
  /\ Decides(c, {"pause", "resume", "retry"})
  /\ ~Accepts(view[c], con[c].cmd)
  /\ ControlCommit(c, view[c], FALSE, "ungate")
  /\ UNCHANGED controlling

Pause(c) ==
  LET r == view[c] IN
  /\ Decides(c, {"pause"}) /\ Accepts(r, "pause")
  /\ ControlCommit(c, [r EXCEPT !.ctl = "paused", !.scope = "local"], FALSE,
                   IF r.remote /\ r.state = "provider_downloading"
                     THEN "provider" ELSE "ungate")
  /\ UNCHANGED controlling

Resume(c) ==
  LET r == view[c] IN
  /\ Decides(c, {"resume"}) /\ Accepts(r, "resume")
  /\ ControlCommit(c, [r EXCEPT !.ctl = "running", !.scope = "none"], FALSE,
                   IF r.remote /\ r.scope = "local_and_provider"
                     THEN "provider" ELSE "ungate")
  /\ UNCHANGED controlling

Retry(c) ==
  LET r == view[c] IN
  /\ Decides(c, {"retry"}) /\ Accepts(r, "retry")
  /\ ControlCommit(c, [r EXCEPT !.ctl = "running", !.failures = 0,
                                !.state = RetryState(r)], TRUE, "ungate")
  /\ UNCHANGED controlling

\* cleanup_requested:<id> is unique, and only the first removal records it.
Remove(c) ==
  LET r    == view[c]
      new  == [r EXCEPT !.ctl = "removing", !.requested = TRUE,
                        !.deleteFiles = @ \/ con[c].cmd = "remove_files"]
      once == r.ctl # "removing" => ~row.requested
  IN
  /\ Decides(c, Removals)
  /\ IF once THEN ControlCommit(c, new, FALSE, "process")
             ELSE /\ Move(c, "ungate")
                  /\ view' = [view EXCEPT ![c] = NewRow]
                  /\ stale' = stale \ {c}
                  /\ UNCHANGED <<row, deleted, active, pc, cancelled, providerVars,
                                 disk, bounds>>
  /\ controlling' = IF con'[c].step = "process" THEN FALSE ELSE controlling

\* The removal's own call of process() returns at once.
ProcessRefused(c) ==
  /\ con[c].step = "process"
  /\ ~Admitted \/ deleted \/ ~(row.ctl = "removing" \/ Runnable(row))
  /\ Move(c, "ungate")
  /\ UNCHANGED <<row, deleted, gateVars, active, sessionVars, providerVars, disk, bounds>>

ProcessReturns(c) ==
  /\ con[c].step = "inline" /\ pc[c] = "idle"
  /\ Move(c, "ungate")
  /\ UNCHANGED <<row, deleted, gateVars, active, sessionVars, providerVars, disk, bounds>>

ServeControl(c) ==
  /\ con[c].step = "provider"
  /\ Move(c, "served")
  /\ suspended' = IF OnTorBox THEN con[c].cmd = "pause" ELSE suspended
  /\ UNCHANGED <<row, deleted, gateVars, active, sessionVars, torrent, disk, bounds>>

\* _provider_control writes the outcome through a session of its own.
ProviderAnswers(c) ==
  /\ con[c].step = "served"
  /\ row' = IF deleted THEN row
            ELSE [row EXCEPT !.scope = IF con[c].cmd = "pause"
                                         THEN "local_and_provider" ELSE "none"]
  /\ Move(c, "ungate")
  /\ UNCHANGED <<deleted, gateVars, active, sessionVars, providerVars, disk, bounds>>

ProviderFails(c) ==
  /\ con[c].step \in {"provider", "served"}
  /\ row' = IF deleted \/ con[c].cmd = "pause" THEN row
            ELSE [row EXCEPT !.ctl = "paused"]
  /\ Move(c, "ungate")
  /\ UNCHANGED <<deleted, gateVars, active, sessionVars, providerVars, disk, bounds>>

Ungate(c) ==
  /\ con[c].step = "ungate"
  /\ controlling' = FALSE
  /\ cancelled' = cancelled \ {c}
  /\ con' = [con EXCEPT ![c] = Idle]
  /\ UNCHANGED <<row, deleted, active, sessionVars, providerVars, disk, bounds>>

-----------------------------------------------------------------------------
(***************************************************************************)
(* Cancellation, TorBox's own progress, and the death of the process.      *)
(***************************************************************************)
\* CancelledError unwinds the task: nothing it held in memory is committed.
\* The task of a removal ends when the request does, after Ungate.
Unwind(t) ==
  /\ t \in cancelled /\ pc[t] # "idle"
  /\ cancelled' = cancelled \ ({t} \cap {Poller})
  /\ stale' = stale \ {t}
  /\ Leave(t)
  /\ UNCHANGED <<row, deleted, providerVars, disk>>

Fault == faults < MaxFaults /\ faults' = faults + 1

\* A session that has flushed an update, as _enrich_source does, keeps the
\* write lock of the whole database while it waits for the network.  A commit
\* that meets it is refused with an error that _process does not handle: the
\* worker logs it, and the attempt leaves no trace in the row.
CommitPoints == {"create", "recreate", "created", "enqueued", "find", "find_queued",
                 "poll_queued", "poll_remote", "prepare", "deliver", "deleted",
                 "unlinked", "drop"}

CommitRefused(t) ==
  /\ pc[t] \in CommitPoints /\ t \notin cancelled
  /\ Fault
  /\ stale' = stale \ {t}
  /\ Exit(t)
  /\ UNCHANGED <<row, deleted, cancelled, providerVars, disk, commands>>

\* A request answers with an error and lowers its gate.
ControlRefused(c) ==
  /\ con[c].step \in {"loaded", "provider", "served"}
  /\ Fault
  /\ Move(c, "ungate")
  /\ view' = [view EXCEPT ![c] = NewRow]
  /\ stale' = stale \ {c}
  /\ UNCHANGED <<row, deleted, gateVars, active, pc, providerVars, disk, commands>>

TorBoxStarts ==
  /\ torrent = "queued"
  /\ StableLists => \A t \in Tasks : pc[t] # "find_queued"
  /\ torrent' = "active"
  /\ UNCHANGED <<row, deleted, gateVars, active, sessionVars, con, suspended, disk, bounds>>

TorBoxFinishes ==
  /\ torrent = "active" /\ ~suspended
  /\ torrent' = "ready"
  /\ UNCHANGED <<row, deleted, gateVars, active, sessionVars, con, suspended, disk, bounds>>

Crash ==
  /\ Fault
  /\ controlling' = FALSE
  /\ active' = NoTask
  /\ cancelled' = {}
  /\ pc' = [t \in Tasks |-> "idle"]
  /\ view' = [t \in Tasks |-> NewRow]
  /\ stale' = {}
  /\ con' = [c \in Controllers |-> Idle]
  /\ UNCHANGED <<row, deleted, providerVars, disk, commands>>

-----------------------------------------------------------------------------
Starts(t) ==
  \/ StartCreate(t) \/ StartReconcile(t)
  \/ StartPollQueued(t) \/ StartPollRemote(t)
  \/ StartPrepare(t) \/ StartDeliver(t)
  \/ StartCleanup(t)

\* The steps of a task that has an answer to work with.
Works(t) ==
  \/ FindTorrent(t) \/ FindNothing(t) \/ FindQueued(t) \/ FindQueuedNothing(t)
  \/ Created(t) \/ Enqueued(t)
  \/ PollQueuedBinds(t) \/ PollQueuedStarted(t) \/ PollQueuedWaits(t) \/ PollRemote(t)
  \/ PrepareDelivery(t)
  \/ Publish(t) \/ Delivered(t)
  \/ RemoteDone(t) \/ Unlink(t) \/ LocalDone(t) \/ Drop(t)

Errs(t) ==
  ReconcileFails(t) \/ CreateFails(t) \/ PollFails(t) \/ DeliverFails(t) \/ CleanupFails(t)

Serves(t) == ServeCreate(t) \/ ServeDelete(t)

Process(t) ==
  \/ Starts(t) \/ Works(t) \/ Errs(t) \/ Serves(t) \/ DeliverProgress(t)
  \/ Unwind(t) \/ CommitRefused(t)

Control(c) ==
  \/ LoadForControl(c) \/ Ignore(c) \/ Pause(c) \/ Resume(c) \/ Retry(c) \/ Remove(c)
  \/ ProcessRefused(c) \/ ProcessReturns(c)
  \/ ServeControl(c) \/ ProviderAnswers(c) \/ ProviderFails(c) \/ ControlRefused(c)
  \/ Ungate(c)

Next ==
  \/ \E t \in Tasks : Process(t)
  \/ \E c \in Controllers : Request(c) \/ Control(c)
  \/ TorBoxStarts \/ TorBoxFinishes
  \/ Crash

Spec == Init /\ [][Next]_vars

\* The event loop runs every ready coroutine, the poller looks every half
\* second, TorBox works on what it accepted (weak fairness).  A call that is
\* repeated without limit is answered in the end (strong fairness): the calls
\* the failure budget does not bound are those of a cleanup, and the file list.
Fairness ==
  /\ WF_vars(\E t \in Tasks : Process(t))
  /\ SF_vars(\E t \in Tasks : PrepareDelivery(t))
  /\ SF_vars(\E t \in Tasks : ServeDelete(t))
  /\ SF_vars(\E t \in Tasks : RemoteDone(t))
  /\ SF_vars(\E t \in Tasks : Unlink(t))
  /\ \A c \in Controllers : WF_vars(Control(c))
  /\ WF_vars(TorBoxStarts) /\ WF_vars(TorBoxFinishes)

FairSpec == Spec /\ Fairness

-----------------------------------------------------------------------------
TypeOK ==
  /\ row \in Row
  /\ deleted \in BOOLEAN
  /\ controlling \in BOOLEAN
  /\ active \in Tasks \cup {NoTask}
  /\ cancelled \in SUBSET Tasks
  /\ pc \in [Tasks -> ProcessSteps]
  /\ view \in [Tasks -> Row]
  /\ stale \in SUBSET Tasks
  /\ con \in [Controllers -> [step : ControlSteps, cmd : AllCommands \cup {"none"}]]
  /\ torrent \in {"absent", "queued", "active", "ready"}
  /\ suspended \in BOOLEAN
  /\ disk \in {"none", "partial", "final"}
  /\ commands \in 0..MaxCommands
  /\ faults \in 0..MaxFaults

\* At most one task is inside _process for the job, and it is the registered
\* one: two of them would write one part file and one TorBox object at once.
OneProcessor == \A t \in Tasks : pc[t] # "idle" => active = t

\* A create that follows no look at TorBox is only sent while TorBox holds
\* nothing for the hash (operational-controls.md:40).
CreateReconciled == \A t \in Tasks : pc[t] = "create" => torrent = "absent"

\* The phase never claims more than the durable identities behind it.
PhaseBacked ==
  /\ row.state \in {"provider_downloading", "provider_ready"} => row.remote
  /\ row.state = "provider_queued" => row.queued
  /\ row.state \in {"delivering", "completed"} => row.remote /\ row.files

\* A scheduled retry still has budget; once max_job_failures attempts in a
\* row have failed nothing but a retry request starts another.
RetryBudget == row.state = "retry_wait" => row.failures \in 1..(MaxFailures - 1)

\* A paused job has no task at work (operational-controls.md:19).
PausedQuiesces == row.ctl = "paused" /\ ~deleted => active = NoTask

\* A removal, once stored, is only ended by deleting the row.
RemovalDurable == [][row.ctl = "removing" => row'.ctl = "removing"]_vars

\* A removed job leaves nothing at TorBox (automatic-delivery.md:44).
RemovedEverywhere == deleted => torrent = "absent"

\* A removed job whose torrent id was recorded leaves no torrent at TorBox.
RemovedRemote == deleted /\ row.remote => torrent = "absent"

\* Local files go only after TorBox let go and only if that was asked for.
LocalAfterRemote ==
  [][disk' = "none" /\ disk # "none" => row.remoteDone /\ row.deleteFiles]_vars

\* A removal that asked for the files leaves none.
FilesDeleted == deleted /\ row.deleteFiles => disk = "none"

\* Nothing but a removal touches a completed job.
CompletedStable == [][row.state = "completed" => row'.state = "completed"]_vars

\* A stored removal is carried out in the end.
RemovalEnds == row.ctl = "removing" ~> deleted

\* downloadarr told TorBox to pause a torrent it still has to fetch, and no
\* resume request will tell it otherwise.
Stranded == suspended /\ torrent = "active"

\* A running job does not stay unfinished for ever, unless its torrent is left
\* suspended at TorBox (ResumedEverywhere).
JobEnds == Runnable(row) ~> ~Runnable(row) \/ Stranded

\* Once nobody is at work on it, a running job that TorBox still has to
\* fetch is not suspended there by downloadarr.
ResumedEverywhere ==
  /\ row.ctl = "running" /\ row.state = "provider_downloading"
  /\ row.remote /\ ~controlling /\ torrent = "active"
  => ~suspended

-----------------------------------------------------------------------------
(***************************************************************************)
(* What the job looks like from outside, and what is promised of it.       *)
(***************************************************************************)
Promise == INSTANCE JobPromise WITH
  phase    <- row.state,
  known    <- {k \in {"queued", "remote", "files"} : row[k]},
  failures <- row.failures,
  asked    <- {k \in {"job", "files"} :
                 IF k = "job" THEN row.requested ELSE row.deleteFiles},
  released <- row.remoteDone,
  payload  <- disk,
  gone     <- deleted

\* Whatever requests, stale sessions, errors and deaths intervene, the job
\* behaves as promised.
Promised == Promise!Spec

=============================================================================
