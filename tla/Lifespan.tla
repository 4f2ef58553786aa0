-------------------------------- MODULE Lifespan --------------------------------
(***************************************************************************)
(* The life of the server around the poller: the lock, the database and    *)
(* the provider are taken in turn, the poller and the monitor are started, *)
(* and at the end all of it is given back in the opposite order.  The      *)
(* poller, its workers and the requests are Scheduler.                     *)
(*                                                                         *)
(* The web server calls the end of the lifespan when no request is in      *)
(* flight.                                                                 *)
(***************************************************************************)
EXTENDS Scheduler

VARIABLES
  stage,    \* where lifespan() is
  lock,     \* the process lock is held
  open,     \* the database and the provider are open
  monitor   \* the task of monitor(), which may be using the database when it runs

lifeVars == <<stage, lock, open, monitor>>
allVars  == <<vars, lifeVars>>

LifeInit ==
  /\ Init
  /\ stage = "down" /\ lock = FALSE /\ open = FALSE
  /\ monitor = "none"

-----------------------------------------------------------------------------
Acquire ==
  /\ stage = "down"
  /\ stage' = "locked" /\ lock' = TRUE
  /\ UNCHANGED <<vars, open, monitor>>

\* The database is opened and migrated, the provider made.
Open ==
  /\ stage = "locked"
  /\ stage' = "preparing" /\ open' = TRUE
  /\ UNCHANGED <<vars, lock, monitor>>

\* Directories, categories, the events of old jobs, alerts and retention are
\* done with; the poller and the monitor are started.
Serve ==
  /\ stage = "preparing"
  /\ Start
  /\ stage' = "serving" /\ monitor' = "running"
  /\ UNCHANGED <<lock, open>>

\* A step of the start raises: there is no poller or monitor to stop.
StartFails ==
  /\ stage \in {"locked", "preparing"}
  /\ stage' = "closing"
  /\ UNCHANGED <<vars, lock, open, monitor>>

-----------------------------------------------------------------------------
Drain ==
  /\ stage = "serving" /\ gated = {} /\ inline = {}
  /\ stage' = "draining"
  /\ UNCHANGED <<vars, lock, open, monitor>>

\* When the cancelled monitor has ended, poller.stop() cancels a run() that is
\* at work.
StopPoller ==
  /\ stage = "draining"
  /\ \/ Stop
     \/ loop = "ending" /\ UNCHANGED vars
  /\ stage' = "awaiting" /\ monitor' = "ended"
  /\ UNCHANGED <<lock, open>>

\* run() had ended with an exception, which stop() raises again: nothing of
\* what follows is done.
StopRaises ==
  /\ stage = "draining" /\ loop = "ended"
  /\ stage' = "aborted" /\ monitor' = "ended"
  /\ UNCHANGED <<vars, lock, open>>

\* Mutants: stop() does not wait for the cancelled run(); or it waits until
\* no job is due.
PollerForgotten == stage = "awaiting"
PollerDrained == stage = "awaiting" /\ loop = "ended" /\ ripe = <<>>
PollerStopped == stage = "awaiting" /\ loop = "ended"

PollerEnds ==
  /\ PollerStopped
  /\ stage' = "closing"
  /\ UNCHANGED <<vars, lock, open, monitor>>

Close ==
  /\ stage = "closing" /\ open
  /\ open' = FALSE
  /\ UNCHANGED <<vars, stage, lock, monitor>>

Release ==
  /\ stage = "closing" /\ ~open
  /\ stage' = "down again" /\ lock' = FALSE
  /\ UNCHANGED <<vars, open, monitor>>

-----------------------------------------------------------------------------
Starting == Acquire \/ Open \/ Serve
Ending == StopPoller \/ StopRaises \/ PollerEnds \/ Close \/ Release

LifeNext ==
  \/ Background /\ UNCHANGED lifeVars
  \/ stage = "serving" /\ Requests /\ UNCHANGED lifeVars
  \/ Starting \/ StartFails \/ Drain \/ Ending

LifeFairness == WF_allVars(Starting) /\ WF_allVars(Ending) /\ Fairness
LifeSpec == LifeInit /\ [][LifeNext]_allVars /\ LifeFairness

-----------------------------------------------------------------------------
LifeTypeOK ==
  /\ TypeOK
  /\ stage \in {"down", "locked", "preparing", "serving", "draining", "awaiting",
                "closing", "aborted", "down again"}
  /\ lock \in BOOLEAN /\ open \in BOOLEAN
  /\ monitor \in {"none", "running", "ended"}

\* Whoever works with the database has it open, and nobody has it open without
\* the lock that keeps a second server and a restore away (app.py:98-117).
ClosedLast ==
  /\ Unfinished(worker) # {} \/ inline # {} \/ monitor = "running" => open
  /\ open => lock

\* A shutdown ends: with everything closed and the lock released, or with the
\* exception run() had ended with.
ShutdownEnds == stage = "draining" ~> stage \in {"down again", "aborted"}

\* SIGTERM "closes provider/database resources, then releases the lock"
\* (production-runbook.md:73-74).  It does not after run() failed.
ShutdownCloses == stage = "draining" ~> ~open /\ ~lock
=============================================================================
