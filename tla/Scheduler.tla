------------------------------- MODULE Scheduler -------------------------------
(***************************************************************************)
(* The poller and the jobs it serves: the loop that looks for due jobs,    *)
(* the workers it starts for them within the limit the user may change at  *)
(* any time, the requests that stop a worker or bring a job forward, and   *)
(* the end of the loop.                                                    *)
(*                                                                         *)
(* What a worker does with its job is JobService; here it only matters     *)
(* when the job is to be looked at again.  next_poll_at is an order: ripe  *)
(* holds the jobs whose time has come, oldest first, and queued those      *)
(* whose time will come, in the order in which it will.                    *)
(***************************************************************************)
EXTENDS Naturals, Sequences, FiniteSets, SequencesExt

CONSTANTS
  Jobs,         \* jobs that may be added
  Limits,       \* values the user may give provider_concurrency
  Poisoned,     \* jobs whose processing raises an error nobody handles
  MaxChanges,   \* bound: changes of the limit
  MaxRequests   \* bound: pause, resume, retry and remove requests

ASSUME LimitAssumption == Limits # {} /\ Limits \subseteq 1..64
ASSUME JobAssumption == IsFiniteSet(Jobs) /\ Poisoned \subseteq Jobs
ASSUME BoundAssumption == MaxChanges \in Nat /\ MaxRequests \in Nat

VARIABLES
  row,       \* per job: not added yet, due in its time, removing, at rest, deleted
  ripe, queued,
  gated,     \* _controlling
  worker,    \* per job: its entry in _workers and how far the task is
  inline,    \* jobs a removal request processes itself
  doomed,    \* jobs whose registered task was cancelled and has not ended
  loop,      \* where run() is
  room,      \* available
  asked,     \* _concurrency when room was computed
  ids,       \* the answer of due_job_ids
  limit,     \* _concurrency
  changes, requests

orderVars == <<ripe, queued>>
loopVars  == <<loop, room, asked, ids>>
bounds    == <<changes, requests>>
vars == <<row, ripe, queued, gated, worker, inline, doomed, loop, room, asked,
          ids, limit, changes, requests>>

Selectable == {"due", "removing"}

Init ==
  /\ row = [j \in Jobs |-> "new"]
  /\ ripe = <<>> /\ queued = <<>>
  /\ gated = {}
  /\ worker = [j \in Jobs |-> "none"]
  /\ inline = {}
  /\ doomed = {}
  /\ loop = "off"
  /\ room = 0 /\ asked = 0 /\ ids = <<>>
  /\ limit \in Limits
  /\ changes = 0 /\ requests = 0

-----------------------------------------------------------------------------
(***************************************************************************)
(* The order of the jobs.                                                  *)
(***************************************************************************)
\* next_poll_at becomes the current time, a later time, or does not matter.  A
\* job has one place at the most (TypeOK): the first is the only one.
\* Mutant: the job keeps its earlier place too.
SoonTwice(j) == ripe' = Append(ripe, j) /\ queued' = RemoveFirst(queued, j)
Soon(j) == ripe' = Append(RemoveFirst(ripe, j), j) /\ queued' = RemoveFirst(queued, j)
Later(j) ==
  LET rest == RemoveFirst(queued, j)
  IN  /\ ripe' = RemoveFirst(ripe, j)
      /\ \E i \in 1..(Len(rest) + 1) : queued' = InsertAt(rest, i, j)
Never(j) == ripe' = RemoveFirst(ripe, j) /\ queued' = RemoveFirst(queued, j)

\* Mutant: the last to be due comes first.
RipenFirst ==
  /\ queued # <<>>
  /\ ripe' = <<Head(queued)>> \o ripe
  /\ queued' = Tail(queued)
  /\ UNCHANGED <<row, gated, worker, inline, doomed, loopVars, limit, bounds>>

Ripen ==
  /\ queued # <<>>
  /\ ripe' = Append(ripe, Head(queued))
  /\ queued' = Tail(queued)
  /\ UNCHANGED <<row, gated, worker, inline, doomed, loopVars, limit, bounds>>

\* A new job is due at once.
Add(j) ==
  /\ row[j] = "new"
  /\ row' = [row EXCEPT ![j] = "due"]
  /\ Soon(j)
  /\ UNCHANGED <<gated, worker, inline, doomed, loopVars, limit, bounds>>

-----------------------------------------------------------------------------
(***************************************************************************)
(* The loop.                                                               *)
(***************************************************************************)
\* poller.start()
Start ==
  /\ loop = "off"
  /\ loop' = "idle"
  /\ UNCHANGED <<row, orderVars, gated, worker, inline, doomed, room, asked, ids, limit, bounds>>

Unfinished(w) == {j \in Jobs : w[j] \in {"created", "working"}}
Reaped == [j \in Jobs |-> IF worker[j] = "done" THEN "none" ELSE worker[j]]

\* Workers that ended are dropped; with a slot free the database is asked.
\* Mutant: the slots in use are not subtracted.
LookUncounted ==
  /\ loop = "idle"
  /\ worker' = Reaped
  /\ loop' = "asking" /\ room' = limit /\ asked' = limit
  /\ UNCHANGED <<row, orderVars, gated, inline, doomed, ids, limit, bounds>>

Look ==
  LET busy == Cardinality(Unfinished(worker)) IN
  /\ loop = "idle"
  /\ worker' = Reaped
  /\ IF busy < limit
       THEN loop' = "asking" /\ room' = limit - busy /\ asked' = limit
       ELSE UNCHANGED <<loop, room, asked>>
  /\ UNCHANGED <<row, orderVars, gated, inline, doomed, ids, limit, bounds>>

\* Jobs that have a worker may take a place in the answer, so more are asked
\* for than there is room.  Mutant: only as many as there is room.
CandidatesFew == room
Candidates == IF 2 * asked > room THEN 2 * asked ELSE room

Query ==
  /\ loop = "asking"
  /\ ids' = [i \in (1..Candidates) \cap DOMAIN ripe |-> ripe[i]]
  /\ loop' = "listed"
  /\ UNCHANGED <<row, orderVars, gated, worker, inline, doomed, room, asked, limit, bounds>>

\* The first jobs of the answer that have no worker get one.
Free == {i \in DOMAIN ids : worker[ids[i]] = "none"}
Before(i) == {k \in Free : k < i}
Chosen == {ids[i] : i \in {k \in Free : Cardinality(Before(k)) < room}}

Admit ==
  /\ loop = "listed"
  /\ worker' = [j \in Jobs |-> IF j \in Chosen THEN "created" ELSE worker[j]]
  /\ loop' = "idle" /\ room' = 0 /\ asked' = 0 /\ ids' = <<>>
  /\ UNCHANGED <<row, orderVars, gated, inline, doomed, limit, bounds>>

SetConcurrency(n) ==
  /\ changes < MaxChanges /\ changes' = changes + 1
  /\ limit' = n
  /\ UNCHANGED <<row, orderVars, gated, worker, inline, doomed, loopVars, requests>>

-----------------------------------------------------------------------------
(***************************************************************************)
(* Workers.                                                                *)
(***************************************************************************)
\* process() returns at once for a job that is gated, registered by a removal
\* request, or no longer to be processed.
Admitted(j) == j \notin gated /\ j \notin inline /\ row[j] \in Selectable

Begin(j) ==
  /\ worker[j] = "created"
  /\ worker' = [worker EXCEPT ![j] = IF Admitted(j) THEN "working" ELSE "done"]
  /\ UNCHANGED <<row, orderVars, gated, inline, doomed, loopVars, limit, bounds>>

\* What processing a job comes to: look again later or at once, nothing left
\* to do, row deleted.  An exception process() does not expect is logged,
\* nothing is committed, and the job keeps its place.
Outcome(j) ==
  \/ j \in Poisoned /\ UNCHANGED <<row, orderVars>>
  \/ /\ j \notin Poisoned
     /\ \/ row[j] = "due" /\ Soon(j) /\ UNCHANGED row
        \/ Later(j) /\ UNCHANGED row
        \/ Never(j) /\ row' = [row EXCEPT ![j] = IF @ = "due" THEN "resting" ELSE "gone"]

End(j) ==
  /\ worker[j] = "working" /\ j \notin doomed
  /\ Outcome(j)
  /\ worker' = [worker EXCEPT ![j] = "done"]
  /\ UNCHANGED <<gated, inline, doomed, loopVars, limit, bounds>>

\* A cancelled task ends without a commit.
Cancelled(j) ==
  /\ j \in doomed
  /\ doomed' = doomed \ {j}
  /\ inline' = inline \ {j}
  /\ worker' = [worker EXCEPT ![j] = IF @ = "working" THEN "done" ELSE @]
  /\ UNCHANGED <<row, orderVars, gated, loopVars, limit, bounds>>

-----------------------------------------------------------------------------
(***************************************************************************)
(* Requests.  How two of them for one job interfere is JobService.         *)
(***************************************************************************)
Registered(j) == worker[j] = "working" \/ j \in inline

Gate(j) ==
  /\ row[j] \notin {"new", "gone"} /\ j \notin gated
  /\ requests < MaxRequests /\ requests' = requests + 1
  /\ gated' = gated \cup {j}
  /\ doomed' = IF Registered(j) THEN doomed \cup {j} ELSE doomed
  /\ UNCHANGED <<row, orderVars, worker, inline, loopVars, limit, changes>>

\* The registered task has ended and the gate is lowered when the step is over.
Settles(j) ==
  /\ j \in gated /\ j \notin doomed
  /\ gated' = gated \ {j}
  /\ UNCHANGED <<worker, doomed, loopVars, limit, bounds>>

Pause(j) ==
  /\ Settles(j) /\ row[j] = "due"
  /\ row' = [row EXCEPT ![j] = "resting"] /\ Never(j)
  /\ UNCHANGED inline

\* resume, and retry of a failed or waiting job
Revive(j) ==
  /\ Settles(j) /\ row[j] \in {"due", "resting"}
  /\ row' = [row EXCEPT ![j] = "due"] /\ Soon(j)
  /\ UNCHANGED inline

\* The request is ignored: a removal is in progress, the job is completed,
\* or there is nothing to do.
Ignore(j) == Settles(j) /\ UNCHANGED <<row, orderVars, inline>>

\* The removal commits its intent and processes the job itself, unless a
\* worker is there first.
Discard(j) ==
  /\ Settles(j) /\ row[j] # "gone"
  /\ row' = [row EXCEPT ![j] = "removing"] /\ Soon(j)
  /\ inline' \in {inline, inline \cup {j}}

InlineEnd(j) ==
  /\ j \in inline \ doomed
  /\ Outcome(j)
  /\ inline' = inline \ {j}
  /\ UNCHANGED <<gated, worker, doomed, loopVars, limit, bounds>>

-----------------------------------------------------------------------------
(***************************************************************************)
(* The end of the loop: stop(), or an exception of due_job_ids.  Workers   *)
(* are cancelled and waited for.                                           *)
(***************************************************************************)
Wind ==
  /\ loop' = "ending" /\ room' = 0 /\ asked' = 0 /\ ids' = <<>>
  /\ doomed' = doomed \cup {j \in Jobs : worker[j] = "working"}
  /\ worker' = [j \in Jobs |-> IF worker[j] = "created" THEN "done" ELSE worker[j]]
  /\ UNCHANGED <<row, orderVars, gated, inline, limit, bounds>>

Stop == loop \in {"off", "idle", "asking", "listed"} /\ Wind
QueryFails == loop = "asking" /\ Wind

EndRun ==
  /\ loop = "ending" /\ Unfinished(worker) = {}
  /\ loop' = "ended"
  /\ worker' = [j \in Jobs |-> "none"]
  /\ UNCHANGED <<row, orderVars, gated, inline, doomed, room, asked, ids, limit, bounds>>

-----------------------------------------------------------------------------
Loop == Look \/ Query \/ Admit \/ EndRun
Work(j) == Begin(j) \/ End(j) \/ Cancelled(j) \/ InlineEnd(j)
Settle(j) == Pause(j) \/ Revive(j) \/ Ignore(j) \/ Discard(j)

\* What goes on by itself, and what clients and the operator ask for.
Background == Loop \/ QueryFails \/ Ripen \/ \E j \in Jobs : Work(j)
Requests ==
  \/ \E j \in Jobs : Add(j) \/ Gate(j) \/ Settle(j)
  \/ \E n \in Limits : SetConcurrency(n)

Next == Start \/ Background \/ Requests \/ Stop

Spec == Init /\ [][Next]_vars

\* The event loop runs every ready task, time passes, and no processing of a
\* job lasts for ever: calls and streams have time limits.
Fairness ==
  /\ WF_vars(Loop) /\ WF_vars(Ripen)
  /\ \A j \in Jobs :
       /\ WF_vars(Begin(j)) /\ WF_vars(End(j)) /\ WF_vars(InlineEnd(j))
       /\ WF_vars(Cancelled(j)) /\ WF_vars(Settle(j))

FairSpec == Spec /\ WF_vars(Start) /\ Fairness

-----------------------------------------------------------------------------
TypeOK ==
  /\ row \in [Jobs -> Selectable \cup {"new", "resting", "gone"}]
  /\ ripe \in Seq(Jobs) /\ queued \in Seq(Jobs)
  /\ IsInjective(ripe \o queued)
  /\ ToSet(ripe \o queued) = {j \in Jobs : row[j] \in Selectable}
  /\ gated \subseteq Jobs /\ inline \subseteq Jobs /\ doomed \subseteq Jobs
  /\ worker \in [Jobs -> {"none", "created", "working", "done"}]
  /\ loop \in {"off", "idle", "asking", "listed", "ending", "ended"}
  /\ room \in 0..64 /\ asked \in Limits \cup {0}
  /\ ids \in Seq(Jobs)
  /\ limit \in Limits
  /\ changes \in 0..MaxChanges /\ requests \in 0..MaxRequests

\* Workers never exceed the limit the loop worked with when it admitted them,
\* whatever ended or was changed while it waited for the database
\* (settings.md:163-169).
WithinLimit ==
  [][loop = "listed" /\ loop' = "idle" => Cardinality(Unfinished(worker')) <= asked]_vars

\* Jobs at work never hide a due job behind them: the answer holds as many
\* jobs without a worker as there are free slots, or every due job there is.
AnswerSuffices ==
  [][loop = "asking" /\ loop' = "listed" =>
       \/ Cardinality({j \in ToSet(ids') : worker[j] = "none"}) >= room
       \/ ToSet(ripe) \subseteq ToSet(ids')]_vars

\* While fewer jobs fail unexpectedly than there are slots, every other due
\* job is worked on in the end, unless the loop has ended.
Served ==
  \A j \in Jobs \ Poisoned :
    j \in ToSet(ripe) ~> Registered(j) \/ j \notin ToSet(ripe) \/ loop = "ended"
=============================================================================
