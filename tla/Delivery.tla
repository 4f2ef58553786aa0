------------------------------- MODULE Delivery -------------------------------
(***************************************************************************)
(* Publication of the files of a job: _deliver goes through the delivery   *)
(* rows in order, takes over, verifies or downloads each file, records it  *)
(* and drops its receipt.  Beside a destination lie the part file, its     *)
(* manifest and the receipt that explains a finished download to the next  *)
(* attempt.  They outlive the task, the process and the job.               *)
(*                                                                         *)
(* How a part file gets its bytes is CheckpointWriter; which attempt runs  *)
(* when, and how many may fail, is JobService.  The code between two       *)
(* awaits is one step, except where a process death can tell its parts     *)
(* apart.  Files are told apart by size and content only.                  *)
(***************************************************************************)
EXTENDS Naturals, Sequences

CONSTANTS
  Jobs,
  Paths,        \* places under the download root
  Target,       \* Target[j][i]: where the i-th row of job j goes
  Ranged,       \* the servers of the provider's files answer ranges
  Strangers,    \* what may lie at a destination before anything is delivered
  None,         \* nothing
  Other,        \* a file of the expected size that is not the provider's
  Odd,          \* a file of another size
  Mixed,        \* a part file two transfers wrote to
  MaxFaults,    \* bound: errors, cancellations and process deaths
  MaxActs       \* bound: retries, jobs removed and added again, files taken away

\* A delivery that would have no rows is refused before it begins.
ASSUME TargetAssumption == Target \in [Jobs -> Seq(Paths) \ {<<>>}]
ASSUME RangedAssumption == Ranged \in BOOLEAN
ASSUME StrangersAssumption == Strangers \subseteq {Other, Odd}
ASSUME BoundAssumption == MaxFaults \in Nat /\ MaxActs \in Nat

Rows(j) == 1..Len(Target[j])

\* What the provider holds for row i of job j.
Own(j, i) == <<j, i>>
Owned == UNION {{Own(j, i) : i \in Rows(j)} : j \in Jobs}

\* Contents are told apart.
ASSUME ContentAssumption ==
  /\ None \notin {Other, Odd, Mixed} /\ Other \notin {Odd, Mixed} /\ Odd # Mixed
  /\ {None, Other, Odd, Mixed} \cap Owned = {}

VARIABLES
  state,      \* the committed state of a job: delivering (retry_wait included) ...
  done,       \* rows whose committed state is completed
  history,    \* rows with a transfer_history entry
  reused,     \* rows with an existing_file_reused event
  pc,         \* where the task of a job is
  at,         \* the row it works on
  origin,     \* how it came by the file it is about to record
  final, part, manifest, receipt,   \* per path: the destination and its companions
  published,  \* rows this job renamed into place itself (history variable)
  faults, acts

rowVars  == <<done, history, reused>>
diskVars == <<final, part, manifest, receipt>>
vars == <<state, done, history, reused, pc, at, origin, final, part, manifest,
          receipt, published, faults, acts>>

Places == {"idle", "check", "verify", "open", "transfer", "receipt", "rename",
           "unlink", "commit", "drop", "finish"}

\* No await separates these places from the step that follows them.
Synchronous == {"check", "receipt", "rename", "unlink"}

Init ==
  /\ state = [j \in Jobs |-> "delivering"]
  /\ done = [j \in Jobs |-> {}]
  /\ history = [j \in Jobs |-> {}]
  /\ reused = [j \in Jobs |-> {}]
  /\ pc = [j \in Jobs |-> "idle"]
  /\ at = [j \in Jobs |-> 1]
  /\ origin = [j \in Jobs |-> "none"]
  /\ final \in [Paths -> Strangers \cup {None}]
  /\ part = [p \in Paths |-> None]
  /\ manifest = [p \in Paths |-> None]
  /\ receipt = [p \in Paths |-> FALSE]
  /\ published = [j \in Jobs |-> {}]
  /\ faults = 0
  /\ acts = 0

-----------------------------------------------------------------------------
(***************************************************************************)
(* One pass over the rows.                                                 *)
(***************************************************************************)
\* The event loop runs one task at a time.
Runs(j, p) ==
  /\ pc[j] = p
  /\ \A k \in Jobs \ {j} : pc[k] \notin Synchronous

Goto(j, p) == pc' = [pc EXCEPT ![j] = p]

Path(j)     == Target[j][at[j]]
SameSize(p) == final[p] \notin {None, Odd}

Start(j) ==
  /\ Runs(j, "idle") /\ state[j] = "delivering"
  /\ Goto(j, "check")
  /\ at' = [at EXCEPT ![j] = 1]
  /\ UNCHANGED <<state, rowVars, origin, diskVars, published, faults, acts>>

\* Mutants: one row too many, one too few.
AdvancePast(j) ==
  IF at[j] <= Len(Target[j])
    THEN Goto(j, "check") /\ at' = [at EXCEPT ![j] = @ + 1]
    ELSE Goto(j, "finish") /\ UNCHANGED at
AdvanceEarly(j) ==
  IF at[j] + 1 < Len(Target[j])
    THEN Goto(j, "check") /\ at' = [at EXCEPT ![j] = @ + 1]
    ELSE Goto(j, "finish") /\ UNCHANGED at
Advance(j) ==
  IF at[j] < Len(Target[j])
    THEN Goto(j, "check") /\ at' = [at EXCEPT ![j] = @ + 1]
    ELSE Goto(j, "finish") /\ UNCHANGED at

\* The row is completed and its file is still there.
Skip(j) ==
  /\ Runs(j, "check")
  /\ SameSize(Path(j)) /\ at[j] \in done[j]
  /\ Advance(j)
  /\ UNCHANGED <<state, rowVars, origin, diskVars, published, faults, acts>>

\* A receipt says that an earlier attempt downloaded the file.
\* Mutant: the receipt is looked at before the row.
AdoptFirst(j) ==
  /\ Runs(j, "check")
  /\ SameSize(Path(j)) /\ receipt[Path(j)]
  /\ Goto(j, "commit")
  /\ origin' = [origin EXCEPT ![j] = "downloaded"]
  /\ UNCHANGED <<state, rowVars, at, diskVars, published, faults, acts>>

Adopt(j) ==
  /\ Runs(j, "check")
  /\ SameSize(Path(j)) /\ at[j] \notin done[j]
  /\ receipt[Path(j)]
  /\ Goto(j, "commit")
  /\ origin' = [origin EXCEPT ![j] = "downloaded"]
  /\ UNCHANGED <<state, rowVars, at, diskVars, published, faults, acts>>

\* Without one the file is compared with the provider's.
Compare(j) ==
  /\ Runs(j, "check")
  /\ SameSize(Path(j)) /\ at[j] \notin done[j]
  /\ ~receipt[Path(j)]
  /\ Goto(j, "verify")
  /\ UNCHANGED <<state, rowVars, at, origin, diskVars, published, faults, acts>>

\* A ValueError or OSError ends the delivery for good.
FailJob(j) ==
  /\ state' = [state EXCEPT ![j] = "failed"]
  /\ Goto(j, "idle")
  /\ UNCHANGED <<at, origin, diskVars, published, faults, acts>>

Blocked(j) == Runs(j, "check") /\ final[Path(j)] = Odd /\ FailJob(j) /\ UNCHANGED rowVars

\* What the samples show.  Mutant: equal sizes are enough.
MatchesBySize(j) == Ranged /\ SameSize(Path(j))
Matches(j) == Ranged /\ final[Path(j)] = Own(j, at[j])

Verified(j) ==
  /\ Runs(j, "verify") /\ Matches(j)
  /\ Goto(j, "commit")
  /\ origin' = [origin EXCEPT ![j] = "reused"]
  /\ UNCHANGED <<state, rowVars, at, diskVars, published, faults, acts>>

Refused(j) == Runs(j, "verify") /\ ~Matches(j) /\ FailJob(j) /\ UNCHANGED rowVars

\* Nothing is there: the file is downloaded.  Mutant: whatever is there is
\* downloaded again.
DownloadAlways(j) ==
  /\ Runs(j, "check") /\ (final[Path(j)] = None \/ at[j] \notin done[j])
  /\ Goto(j, "open")
  /\ UNCHANGED <<state, rowVars, at, origin, diskVars, published, faults, acts>>
Download(j) ==
  /\ Runs(j, "check") /\ final[Path(j)] = None
  /\ Goto(j, "open")
  /\ UNCHANGED <<state, rowVars, at, origin, diskVars, published, faults, acts>>

\* The part file goes on if its manifest is about the same object, and is
\* made anew otherwise.  The row is downloading from the first progress on.
Resumes(j) == part[Path(j)] # None /\ manifest[Path(j)] = Own(j, at[j])

OpenPart(j) ==
  LET p == Path(j) IN
  /\ Runs(j, "open")
  /\ part' = [part EXCEPT ![p] = IF Resumes(j) THEN @ ELSE Own(j, at[j])]
  /\ manifest' = [manifest EXCEPT ![p] = IF Resumes(j) THEN @ ELSE Own(j, at[j])]
  /\ done' = [done EXCEPT ![j] = @ \ {at[j]}]
  /\ Goto(j, "transfer")
  /\ UNCHANGED <<state, history, reused, at, origin, final, receipt, published,
                 faults, acts>>

\* All bytes are in the part file; it is gone if another job renamed it.
Transferred(j) ==
  LET p == Path(j) IN
  /\ Runs(j, "transfer")
  /\ IF part[p] = None
       THEN FailJob(j)
       ELSE /\ part' = [part EXCEPT ![p] = IF @ = Own(j, at[j]) THEN @ ELSE Mixed]
            /\ Goto(j, "receipt")
            /\ UNCHANGED <<state, at, origin, final, manifest, receipt, published,
                           faults, acts>>
  /\ UNCHANGED rowVars

\* Mutant: the receipt is forgotten.
WriteNoReceipt(j) ==
  /\ Runs(j, "receipt")
  /\ Goto(j, "rename")
  /\ UNCHANGED <<state, rowVars, at, origin, diskVars, published, faults, acts>>

WriteReceipt(j) ==
  /\ Runs(j, "receipt")
  /\ receipt' = [receipt EXCEPT ![Path(j)] = TRUE]
  /\ Goto(j, "rename")
  /\ UNCHANGED <<state, rowVars, at, origin, final, part, manifest, published,
                 faults, acts>>

Rename(j) ==
  LET p == Path(j) IN
  /\ Runs(j, "rename")
  /\ final' = [final EXCEPT ![p] = part[p]]
  /\ part' = [part EXCEPT ![p] = None]
  /\ published' = [published EXCEPT ![j] = @ \cup {at[j]}]
  /\ Goto(j, "unlink")
  /\ UNCHANGED <<state, rowVars, at, origin, manifest, receipt, faults, acts>>

UnlinkManifest(j) ==
  /\ Runs(j, "unlink")
  /\ manifest' = [manifest EXCEPT ![Path(j)] = None]
  /\ origin' = [origin EXCEPT ![j] = "downloaded"]
  /\ Goto(j, "commit")
  /\ UNCHANGED <<state, rowVars, at, final, part, receipt, published, faults, acts>>

\* The row and its history entry, or its reuse event, are one commit.  Both
\* are unique: recording a file twice is refused, and nothing is committed.
Commit(j) ==
  /\ Runs(j, "commit")
  /\ IF at[j] \in (IF origin[j] = "reused" THEN reused[j] ELSE history[j])
       THEN Goto(j, "idle") /\ UNCHANGED rowVars
       ELSE /\ done' = [done EXCEPT ![j] = @ \cup {at[j]}]
            /\ IF origin[j] = "reused"
                 THEN reused' = [reused EXCEPT ![j] = @ \cup {at[j]}] /\ UNCHANGED history
                 ELSE history' = [history EXCEPT ![j] = @ \cup {at[j]}] /\ UNCHANGED reused
            /\ Goto(j, "drop")
  /\ UNCHANGED <<state, at, origin, diskVars, published, faults, acts>>

DropReceipt(j) ==
  /\ Runs(j, "drop")
  /\ receipt' = [receipt EXCEPT ![Path(j)] = FALSE]
  /\ Advance(j)
  /\ UNCHANGED <<state, rowVars, origin, final, part, manifest, published, faults, acts>>

Finish(j) ==
  /\ Runs(j, "finish")
  /\ state' = [state EXCEPT ![j] = "completed"]
  /\ Goto(j, "idle")
  /\ UNCHANGED <<rowVars, at, origin, diskVars, published, faults, acts>>

-----------------------------------------------------------------------------
(***************************************************************************)
(* Errors, cancellation, death; what users and clients do with jobs.       *)
(***************************************************************************)
CountFault == faults < MaxFaults /\ faults' = faults + 1
CountAct == acts < MaxActs /\ acts' = acts + 1

\* A transient error of TorBox or of the file's server, or a cancelled task:
\* the next attempt starts from the first row.
Interrupt(j) ==
  /\ pc[j] \notin Synchronous \cup {"idle"}
  /\ \A k \in Jobs : pc[k] \notin Synchronous
  /\ CountFault
  /\ Goto(j, "idle")
  /\ UNCHANGED <<state, rowVars, at, origin, diskVars, published, acts>>

\* Everything that was not renamed, unlinked or committed is left behind.
Die ==
  /\ CountFault
  /\ pc' = [j \in Jobs |-> "idle"]
  /\ UNCHANGED <<state, rowVars, at, origin, diskVars, published, acts>>

Retry(j) ==
  /\ state[j] = "failed" /\ CountAct
  /\ state' = [state EXCEPT ![j] = "delivering"]
  /\ UNCHANGED <<rowVars, pc, at, origin, diskVars, published, faults>>

\* A client or a user takes a file away.
TakeAway(p) ==
  /\ final[p] # None /\ CountAct
  /\ final' = [final EXCEPT ![p] = None]
  /\ UNCHANGED <<state, rowVars, pc, at, origin, part, manifest, receipt, published,
                 faults>>

\* The job is removed, with its files or without, and added again: its rows
\* are new, and what the removal left on the disk is still there.
Artefact(j, p) == \E i \in Rows(j) : Target[j][i] = p

Regrab(j, files) ==
  /\ pc[j] = "idle" /\ CountAct
  /\ state' = [state EXCEPT ![j] = "delivering"]
  /\ done' = [done EXCEPT ![j] = {}]
  /\ history' = [history EXCEPT ![j] = {}]
  /\ reused' = [reused EXCEPT ![j] = {}]
  /\ published' = [published EXCEPT ![j] = {}]
  /\ IF files
       THEN /\ final'    = [p \in Paths |-> IF Artefact(j, p) THEN None ELSE final[p]]
            /\ part'     = [p \in Paths |-> IF Artefact(j, p) THEN None ELSE part[p]]
            /\ manifest' = [p \in Paths |-> IF Artefact(j, p) THEN None ELSE manifest[p]]
            /\ receipt'  = [p \in Paths |-> IF Artefact(j, p) THEN FALSE ELSE receipt[p]]
       ELSE UNCHANGED diskVars
  /\ UNCHANGED <<pc, at, origin, faults>>

-----------------------------------------------------------------------------
Works(j) ==
  \/ Start(j) \/ Skip(j) \/ Adopt(j) \/ Compare(j) \/ Blocked(j)
  \/ Verified(j) \/ Refused(j)
  \/ Download(j) \/ OpenPart(j) \/ Transferred(j)
  \/ WriteReceipt(j) \/ Rename(j) \/ UnlinkManifest(j)
  \/ Commit(j) \/ DropReceipt(j) \/ Finish(j)

Next ==
  \/ \E j \in Jobs : Works(j) \/ Interrupt(j) \/ Retry(j)
  \/ \E j \in Jobs, files \in BOOLEAN : Regrab(j, files)
  \/ \E p \in Paths : TakeAway(p)
  \/ Die

Spec == Init /\ [][Next]_vars

\* The poller starts a due job again and again, servers answer in the end, and
\* the event loop comes to every ready task between the steps of the others.
FairSpec == Spec /\ \A j \in Jobs : SF_vars(Works(j))

-----------------------------------------------------------------------------
RowSets == {f \in [Jobs -> SUBSET Nat] : \A j \in Jobs : f[j] \subseteq Rows(j)}

TypeOK ==
  /\ state \in [Jobs -> {"delivering", "completed", "failed"}]
  /\ done \in RowSets /\ history \in RowSets /\ reused \in RowSets
  /\ pc \in [Jobs -> Places]
  /\ at \in [Jobs -> Nat] /\ \A j \in Jobs : at[j] \in Rows(j)
  /\ origin \in [Jobs -> {"none", "downloaded", "reused"}]
  /\ final \in [Paths -> Owned \cup {None, Other, Odd, Mixed}]
  /\ part \in [Paths -> Owned \cup {None, Mixed}]
  /\ manifest \in [Paths -> Owned \cup {None}]
  /\ receipt \in [Paths -> BOOLEAN]
  /\ published \in RowSets
  /\ faults \in 0..MaxFaults
  /\ acts \in 0..MaxActs

\* A completed row stands for the provider's file, unless the client took it
\* (operational-controls.md:42-44, settings.md:18-20).
OwnContent ==
  \A j \in Jobs : \A i \in done[j] : final[Target[j][i]] \in {Own(j, i), None}

\* A job is completed only with all its rows, and leaves no part file
\* (automatic-delivery.md:14-16).
CompletedWhole ==
  \A j \in Jobs : state[j] = "completed" =>
    /\ done[j] = Rows(j)
    /\ \A i \in Rows(j) : part[Target[j][i]] = None

\* A completed file the job put in place itself is in the transfer history,
\* wherever the process died on the way.
PublishedRecorded ==
  \A j \in Jobs : \A i \in published[j] \cap done[j] : i \in history[j]

\* No delivery replaces a file (dashboard.md:46-48).
NeverOverwrites ==
  [][\A p \in Paths : final[p] # None => final'[p] \in {final[p], None}]_vars

\* A job is completed in the end, and not refused because of what its own
\* earlier attempts left behind, unless another file is in its way or a file
\* it has recorded was taken from it.
Unobstructed(j) ==
  /\ state[j] = "delivering"
  /\ \A i \in Rows(j) : final[Target[j][i]] \in {Own(j, i), None}
  /\ \A i \in history[j] \cup reused[j] : i \in done[j] /\ final[Target[j][i]] # None
Completes == \A j \in Jobs : Unobstructed(j) ~> state[j] = "completed" \/ ~Unobstructed(j)

=============================================================================
