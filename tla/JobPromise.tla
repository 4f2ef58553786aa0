------------------------------ MODULE JobPromise ------------------------------
(***************************************************************************)
(* What the job service promises of one job to Sonarr and Radarr, without  *)
(* sessions, tasks, requests or TorBox: what is known of the job only      *)
(* grows, its phase claims no more than that, a failure is counted, a      *)
(* completed job stays completed and keeps its payload, and what is        *)
(* deleted was asked for.  JobService implements this module.              *)
(***************************************************************************)
EXTENDS Naturals

CONSTANT MaxFailures    \* scheduler.max_job_failures, a positive number

VARIABLES
  phase,      \* the state of the job
  known,      \* the identities the row holds: queue id, torrent id, file list
  failures,   \* poll_failures
  asked,      \* what removals have asked for: the job, its files
  released,   \* TorBox has let go
  payload,    \* what lies on the local disk
  gone        \* the job is no more

vars == <<phase, known, failures, asked, released, payload, gone>>

\* What each phase claims to know.
Needs == [submitted            |-> {},
          provider_queued      |-> {"queued"},
          provider_downloading |-> {"remote"},
          provider_ready       |-> {"remote"},
          delivering           |-> {"remote", "files"},
          completed            |-> {"remote", "files"},
          retry_wait           |-> {},
          failed               |-> {}]

Phases   == DOMAIN Needs
Terminal == {"completed", "failed"}
Stages   == Phases \ (Terminal \cup {"retry_wait"})

Init ==
  /\ phase = "submitted"
  /\ known = {}
  /\ failures = 0
  /\ asked = {}
  /\ released = FALSE
  /\ payload = "none"
  /\ gone = FALSE

\* What one answer of TorBox can teach: the files only of a known torrent.
Lessons == {{}, {"queued"}, {"remote"}, {"queued", "remote"}} \cup
           {{"files"} : k \in known \cap {"remote"}}

\* A stage succeeds: something may be learnt, and the count starts anew.
Advance ==
  /\ phase \notin Terminal
  /\ \E new \in Lessons : known' = known \cup new
  /\ phase' \in {s \in Stages : Needs[s] \subseteq known'}
  /\ failures' \in {0, failures}
  /\ UNCHANGED <<asked, released, payload, gone>>

\* A stage fails: it is tried again while the budget lasts.  A failure that a
\* retry request has overtaken is still counted, but moves nothing.
Fail ==
  /\ phase \notin Terminal
  /\ \/ phase' = "retry_wait" /\ failures' \in 1..(MaxFailures - 1)
     \/ phase' = phase /\ phase \in Stages /\ failures' \in 1..(MaxFailures - 1)
     \/ phase' = "failed" /\ failures' \in 1..MaxFailures
  /\ UNCHANGED <<known, asked, released, payload, gone>>

\* Bytes arrive, or the finished part takes its place: only a job that knows
\* its files writes any, and a finished payload stays.
Receive ==
  /\ Needs["delivering"] \subseteq known
  /\ payload' \in IF payload = "final" THEN {"final"} ELSE {"partial", "final"}
  /\ phase' \in {phase} \cup {"delivering" : p \in {phase} \ Terminal}
  /\ UNCHANGED <<known, failures, asked, released, gone>>

Complete ==
  /\ phase \notin Terminal
  /\ Needs["completed"] \subseteq known
  /\ payload = "final"
  /\ phase' = "completed"
  /\ failures' \in {0, failures}
  /\ UNCHANGED <<known, asked, released, payload, gone>>

\* A retry request takes the job back to a phase it can prove.
Restart ==
  /\ phase \in {"failed", "retry_wait"}
  /\ phase' \in {s \in Stages : Needs[s] \subseteq known}
  /\ failures' \in {0, failures}
  /\ UNCHANGED <<known, asked, released, payload, gone>>

Ask ==
  /\ asked' \in {{"job"}, {"job", "files"}}
  /\ asked \subseteq asked'
  /\ UNCHANGED <<phase, known, failures, released, payload, gone>>

Release ==
  /\ "job" \in asked
  /\ released' = TRUE
  /\ UNCHANGED <<phase, known, failures, asked, payload, gone>>

\* Local files go only after TorBox let go, and only if that was asked for.
Discard ==
  /\ released /\ "files" \in asked
  /\ payload' = "none"
  /\ UNCHANGED <<phase, known, failures, asked, released, gone>>

Vanish ==
  /\ released /\ "job" \in asked
  /\ gone' = TRUE
  /\ UNCHANGED <<phase, known, failures, asked, released, payload>>

Next ==
  /\ ~gone
  /\ \/ Advance \/ Fail \/ Receive \/ Complete \/ Restart
     \/ Ask \/ Release \/ Discard \/ Vanish

Spec == Init /\ [][Next]_vars

-----------------------------------------------------------------------------
\* The phase claims no more than what is known of the job.
Backed == Needs[phase] \subseteq known

\* What was completed is on the disk until a removal asks for the files.
Kept == phase = "completed" /\ "files" \notin asked => payload = "final"

\* A scheduled retry still has budget.
Budget == phase = "retry_wait" => failures \in 1..(MaxFailures - 1)

\* What is gone was asked to go, after TorBox let go of it.
AskedFor == gone => released /\ "job" \in asked

=============================================================================
