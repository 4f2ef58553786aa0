--------------------------- MODULE CheckpointWriter ---------------------------
(***************************************************************************)
(* One file being downloaded: the part file the chunks are written into,   *)
(* the manifest that says how much of each chunk may be skipped next time, *)
(* and the checkpointer that keeps the second behind the first while the   *)
(* chunks go on writing.  A transfer may be cancelled, fail, be killed, or *)
(* lose what was not yet on stable storage, and is then started again.     *)
(*                                                                         *)
(* The unit is a block.  A step is what a task does between two awaits, or *)
(* one call made in a worker thread.                                       *)
(***************************************************************************)
EXTENDS Integers, FiniteSets

CONSTANTS
  Chunks,      \* the chunks of the file
  Length,      \* blocks in a chunk
  Ranged,      \* TRUE: the server honours byte ranges
  Identities,  \* what the probe may say the remote object is
  None,        \* no identity
  MaxFaults    \* bound: dropped streams, cancellations, deaths

ASSUME ChunkAssumption ==
  /\ IsFiniteSet(Chunks) /\ Chunks # {}
  /\ Length \in Nat \ {0}
  /\ Ranged \in BOOLEAN
  /\ ~Ranged => \A c, d \in Chunks : c = d
ASSUME IdentityAssumption == Identities # {} /\ None \notin Identities
ASSUME FaultAssumption == MaxFaults \in Nat

Counts == [Chunks -> 0..Length]
Zero   == [c \in Chunks |-> 0]

VARIABLES
  phase,          \* where download() is
  id,             \* the identity the probe returned
  part,           \* the part file as the kernel shows it
  disk,           \* the part file as it would survive a loss of power
  manifest,       \* the manifest (its replacement is atomic and durable)
  chunk,          \* ChunkState.downloaded, in memory
  task,           \* per chunk: where _download_chunk is
  cancelled,      \* the task group is being cancelled
  checkpointing,  \* _checkpointing
  active,         \* _active_writes
  pending,        \* _pending
  cp,             \* where _checkpoint_once is
  snap,           \* the snapshot it took
  error,          \* _error is set
  faults

fileVars   == <<part, disk, manifest>>
writerVars == <<checkpointing, active, pending>>
cpVars     == <<cp, snap, error>>
vars == <<phase, id, part, disk, manifest, chunk, task, cancelled,
          checkpointing, active, pending, cp, snap, error, faults>>

\* A part file: whose bytes it holds, whether it has its full size, and how
\* many leading blocks of each chunk have been written.
PartFile == [owner : Identities \cup {None}, whole : BOOLEAN, n : Counts]
ManifestFile == [owner : Identities \cup {None}, n : Counts]

Init ==
  /\ phase = "stopped"
  /\ id = None
  /\ part = [owner |-> None, whole |-> FALSE, n |-> Zero]
  /\ disk = part
  /\ manifest = [owner |-> None, n |-> Zero]
  /\ chunk = Zero
  /\ task = [c \in Chunks |-> "idle"]
  /\ cancelled = FALSE
  /\ checkpointing = FALSE
  /\ active = 0
  /\ pending = 0
  /\ cp = "idle"
  /\ snap = Zero
  /\ error = FALSE
  /\ faults = 0

-----------------------------------------------------------------------------
(***************************************************************************)
(* Opening the transfer.                                                   *)
(***************************************************************************)
\* A manifest is used when the part file has its size and the manifest is
\* about the object the probe found.
\* Mutant: nothing is ever restored.
RestoresNothing(i) == FALSE
Restores(i) == part.whole /\ manifest.owner = i

Open(i) ==
  /\ phase = "stopped"
  /\ id' = i
  /\ chunk' = IF Restores(i) THEN manifest.n ELSE Zero
  /\ phase' = IF Restores(i) THEN "running" ELSE "opening"
  /\ task' = [c \in Chunks |-> "idle"]
  /\ cancelled' = FALSE
  /\ checkpointing' = FALSE /\ active' = 0 /\ pending' = 0
  /\ cp' = "idle" /\ snap' = Zero /\ error' = FALSE
  /\ UNCHANGED <<fileVars, faults>>

\* The part file is opened for writing, which empties it ...
Empty ==
  /\ phase = "opening"
  /\ phase' = "emptied"
  /\ part' = [owner |-> id, whole |-> FALSE, n |-> Zero]
  /\ UNCHANGED <<id, disk, manifest, chunk, task, cancelled, writerVars, cpVars, faults>>

\* ... then stretched to its size ...
Stretch ==
  /\ phase = "emptied"
  /\ phase' = "stretched"
  /\ part' = [part EXCEPT !.whole = TRUE]
  /\ UNCHANGED <<id, disk, manifest, chunk, task, cancelled, writerVars, cpVars, faults>>

\* ... and the manifest that claims nothing replaces whatever was there.
SaveFresh ==
  /\ phase = "stretched"
  /\ phase' = "running"
  /\ manifest' = [owner |-> id, n |-> chunk]
  /\ UNCHANGED <<id, part, disk, chunk, task, cancelled, writerVars, cpVars, faults>>

-----------------------------------------------------------------------------
(***************************************************************************)
(* The task of a chunk.                                                    *)
(***************************************************************************)
Done(c) == chunk[c] = Length

Works(c, t) == phase = "running" /\ task[c] = t

\* A request for the rest of the chunk.  Without ranges the whole object
\* comes, whose length is not that of the rest: _validate_response refuses it,
\* and the error ends the transfer.
Connect(c) ==
  /\ Works(c, "idle") /\ ~Done(c) /\ ~cancelled
  /\ IF Ranged \/ chunk[c] = 0
       THEN task' = [task EXCEPT ![c] = "streaming"] /\ UNCHANGED cancelled
       ELSE cancelled' = TRUE /\ UNCHANGED task
  /\ UNCHANGED <<phase, id, fileVars, chunk, writerVars, cpVars, faults>>

\* Mutant: a block is claimed when it is handed to the writer.
StartWriteClaims(c) ==
  /\ Works(c, "streaming") /\ ~Done(c) /\ ~cancelled
  /\ ~checkpointing /\ ~error
  /\ active' = active + 1
  /\ chunk' = [chunk EXCEPT ![c] = @ + 1]
  /\ task' = [task EXCEPT ![c] = "writing"]
  /\ UNCHANGED <<phase, id, fileVars, cancelled, checkpointing, pending, cpVars, faults>>

\* A block arrives and is handed to the writer, which lets nothing in while
\* a checkpoint waits for the writes under way.
StartWrite(c) ==
  /\ Works(c, "streaming") /\ ~Done(c) /\ ~cancelled
  /\ ~checkpointing /\ ~error
  /\ active' = active + 1
  /\ task' = [task EXCEPT ![c] = "writing"]
  /\ UNCHANGED <<phase, id, fileVars, chunk, cancelled, checkpointing, pending, cpVars, faults>>

\* The worker thread has written the block, cancelled or not.
WriteLands(c) ==
  /\ Works(c, "writing")
  /\ part' = [part EXCEPT !.n[c] = IF @ > chunk[c] THEN @ ELSE chunk[c] + 1]
  /\ task' = [task EXCEPT ![c] = "written"]
  /\ UNCHANGED <<phase, id, disk, manifest, chunk, cancelled, writerVars, cpVars, faults>>

\* The write fails: nothing is claimed and the error ends the transfer.
WriteFails(c) ==
  /\ Works(c, "writing")
  /\ faults < MaxFaults /\ faults' = faults + 1
  /\ active' = active - 1
  /\ task' = [task EXCEPT ![c] = "streaming"]
  /\ cancelled' = TRUE
  /\ UNCHANGED <<phase, id, fileVars, chunk, checkpointing, pending, cpVars>>

\* Mutant: the writer forgets to count itself out when it was cancelled.
ClaimWriteLeaky(c) ==
  /\ Works(c, "written")
  /\ chunk' = IF cancelled THEN chunk ELSE [chunk EXCEPT ![c] = @ + 1]
  /\ pending' = IF cancelled THEN pending ELSE pending + 1
  /\ active' = IF cancelled THEN active ELSE active - 1
  /\ task' = [task EXCEPT ![c] = "streaming"]
  /\ UNCHANGED <<phase, id, fileVars, cancelled, checkpointing, cpVars, faults>>

\* The write is claimed, unless the task was cancelled meanwhile.
ClaimWrite(c) ==
  /\ Works(c, "written")
  /\ chunk' = IF cancelled THEN chunk ELSE [chunk EXCEPT ![c] = @ + 1]
  /\ pending' = IF cancelled THEN pending ELSE pending + 1
  /\ active' = active - 1
  /\ task' = [task EXCEPT ![c] = "streaming"]
  /\ UNCHANGED <<phase, id, fileVars, cancelled, checkpointing, cpVars, faults>>

\* The stream breaks or stalls.  With ranges the rest is asked for again;
\* without, the chunk starts over and the manifest is told at once.
Drop(c) ==
  /\ Works(c, "streaming") /\ ~Done(c) /\ ~cancelled
  /\ faults < MaxFaults /\ faults' = faults + 1
  /\ IF ~Ranged /\ chunk[c] # 0
       THEN /\ chunk' = [chunk EXCEPT ![c] = 0]
            /\ task' = [task EXCEPT ![c] = "resetting"]
       ELSE /\ task' = [task EXCEPT ![c] = "idle"]
            /\ UNCHANGED chunk
  /\ UNCHANGED <<phase, id, fileVars, cancelled, writerVars, cpVars>>

\* A cancelled task may not get as far as saving.
SaveReset(c) ==
  /\ Works(c, "resetting")
  /\ \/ manifest' = [owner |-> id, n |-> chunk]
     \/ cancelled /\ UNCHANGED manifest
  /\ task' = [task EXCEPT ![c] = "idle"]
  /\ UNCHANGED <<phase, id, part, disk, chunk, cancelled, writerVars, cpVars, faults>>

-----------------------------------------------------------------------------
(***************************************************************************)
(* The checkpointer.  It starts whenever there is something to save: after *)
(* enough bytes, after enough time, or because the transfer ends.          *)
(***************************************************************************)
StartCheckpoint ==
  /\ phase = "running" /\ cp = "idle" /\ pending > 0
  /\ checkpointing' = TRUE
  /\ cp' = "draining"
  /\ UNCHANGED <<phase, id, fileVars, chunk, task, cancelled, active, pending, snap, error, faults>>

\* Mutant: the writers are not let in again.
SnapshotStuck ==
  /\ phase = "running" /\ cp = "draining" /\ active = 0
  /\ snap' = chunk
  /\ pending' = 0
  /\ cp' = "syncing"
  /\ UNCHANGED <<phase, id, fileVars, chunk, task, cancelled, checkpointing, active, error, faults>>

\* With no write under way the progress is copied, and writing goes on.
Snapshot ==
  /\ phase = "running" /\ cp = "draining" /\ active = 0
  /\ snap' = chunk
  /\ pending' = 0
  /\ checkpointing' = FALSE
  /\ cp' = "syncing"
  /\ UNCHANGED <<phase, id, fileVars, chunk, task, cancelled, active, error, faults>>

Sync ==
  /\ phase = "running" /\ cp = "syncing"
  /\ disk' = part
  /\ cp' = "saving"
  /\ UNCHANGED <<phase, id, part, manifest, chunk, task, cancelled, writerVars, snap, error, faults>>

\* Mutant: the manifest takes the progress of now, not of the snapshot.
SaveLatest ==
  /\ phase = "running" /\ cp = "saving"
  /\ manifest' = [owner |-> id, n |-> chunk]
  /\ cp' = "idle"
  /\ UNCHANGED <<phase, id, part, disk, chunk, task, cancelled, writerVars, snap, error, faults>>

SaveSnapshot ==
  /\ phase = "running" /\ cp = "saving"
  /\ manifest' = [owner |-> id, n |-> snap]
  /\ cp' = "idle"
  /\ UNCHANGED <<phase, id, part, disk, chunk, task, cancelled, writerVars, snap, error, faults>>

\* The disk refuses: the checkpointer ends and every later write raises.
CheckpointFails ==
  /\ phase = "running" /\ cp \in {"syncing", "saving"}
  /\ faults < MaxFaults /\ faults' = faults + 1
  /\ error' = TRUE
  /\ cp' = "failed"
  /\ UNCHANGED <<phase, id, fileVars, chunk, task, cancelled, writerVars, snap>>

WriteRaises ==
  /\ phase = "running" /\ error /\ ~cancelled
  /\ \E c \in Chunks : task[c] = "streaming" /\ ~Done(c)
  /\ cancelled' = TRUE
  /\ UNCHANGED <<phase, id, fileVars, chunk, task, writerVars, cpVars, faults>>

-----------------------------------------------------------------------------
(***************************************************************************)
(* The end of the transfer.                                                *)
(***************************************************************************)
\* A pause, a removal, an exhausted chunk.
Cancel ==
  /\ phase = "running" /\ ~cancelled
  /\ faults < MaxFaults /\ faults' = faults + 1
  /\ cancelled' = TRUE
  /\ UNCHANGED <<phase, id, fileVars, chunk, task, writerVars, cpVars>>

CancelOpening ==
  /\ phase \in {"opening", "emptied", "stretched"}
  /\ faults < MaxFaults /\ faults' = faults + 1
  /\ phase' = "stopped"
  /\ UNCHANGED <<id, fileVars, chunk, task, cancelled, writerVars, cpVars>>

Quiet == \A c \in Chunks : task[c] \notin {"writing", "written", "resetting"}

\* Mutant: the last checkpoint is not waited for.
FlushedNever == TRUE
\* finish() returns when the checkpointer has nothing left to save, and
\* raises when it has failed.
Flushed == cp = "failed" \/ (cp = "idle" /\ pending = 0)

Finish ==
  /\ phase = "running" /\ Quiet /\ Flushed
  /\ cancelled \/ \A c \in Chunks : Done(c)
  /\ phase' = IF cancelled \/ error THEN "stopped" ELSE "complete"
  /\ UNCHANGED <<id, fileVars, chunk, task, cancelled, writerVars, cpVars, faults>>

\* What a part file may be after the power was lost.
Survivors ==
  IF disk.owner = part.owner /\ disk.whole = part.whole
    THEN {[part EXCEPT !.n = k] : k \in
            {k \in Counts : \A c \in Chunks : disk.n[c] <= k[c] /\ k[c] <= part.n[c]}}
    ELSE {disk, part}

\* The process dies; what the kernel holds survives, or the power goes too.
Die ==
  /\ phase \notin {"stopped", "complete"}
  /\ faults < MaxFaults /\ faults' = faults + 1
  /\ phase' = "stopped"
  /\ chunk' = Zero
  /\ \/ UNCHANGED <<part, disk>>
     \/ part' \in Survivors /\ disk' = part'
  /\ UNCHANGED <<id, manifest, task, cancelled, writerVars, cpVars>>

-----------------------------------------------------------------------------
Chunk(c) ==
  \/ Connect(c) \/ StartWrite(c) \/ WriteLands(c) \/ ClaimWrite(c) \/ SaveReset(c)

Checkpoint == StartCheckpoint \/ Snapshot \/ Sync \/ SaveSnapshot

Opening == (\E i \in Identities : Open(i)) \/ Empty \/ Stretch \/ SaveFresh

Fault == (\E c \in Chunks : Drop(c) \/ WriteFails(c)) \/ CheckpointFails \/ Cancel \/ CancelOpening \/ Die

Next ==
  \/ Opening
  \/ \E c \in Chunks : Chunk(c)
  \/ Checkpoint \/ WriteRaises \/ Finish
  \/ Fault

Spec == Init /\ [][Next]_vars

\* The event loop runs every ready task and every call in a thread returns; a
\* stopped transfer is started again by the poller.
Fairness ==
  /\ WF_vars(Opening) /\ WF_vars(Checkpoint) /\ WF_vars(WriteRaises) /\ WF_vars(Finish)
  /\ \A c \in Chunks : WF_vars(Chunk(c))

FairSpec == Spec /\ Fairness

-----------------------------------------------------------------------------
TypeOK ==
  /\ phase \in {"stopped", "opening", "emptied", "stretched", "running", "complete"}
  /\ id \in Identities \cup {None}
  /\ part \in PartFile /\ disk \in PartFile
  /\ manifest \in ManifestFile
  /\ chunk \in Counts
  /\ task \in [Chunks -> {"idle", "streaming", "writing", "written", "resetting"}]
  /\ cancelled \in BOOLEAN
  /\ checkpointing \in BOOLEAN
  /\ active \in Nat
  /\ pending \in Nat
  /\ cp \in {"idle", "draining", "syncing", "saving", "failed"}
  /\ snap \in Counts
  /\ error \in BOOLEAN
  /\ faults \in 0..MaxFaults

\* The manifest never claims a block that a loss of power could take back:
\* fsync comes before the manifest, and the snapshot before the fsync
\* (writer.py:188-193).
ManifestDurable ==
  \A c \in Chunks : manifest.n[c] > 0 =>
    /\ disk.owner = manifest.owner
    /\ manifest.n[c] <= disk.n[c]

\* What a running transfer counts as downloaded is in the part file, and is
\* of the object it is downloading.
ClaimsBacked ==
  phase = "running" => \A c \in Chunks : chunk[c] > 0 =>
    /\ part.owner = id
    /\ chunk[c] <= part.n[c]

\* A transfer that goes on to publish has every block on stable storage.
PublishedDurable ==
  phase = "complete" => disk.owner = id /\ \A c \in Chunks : disk.n[c] = Length

\* A transfer that was stopped, and not killed, has saved all it had claimed
\* (operational-controls.md:19-20).
StopSaves ==
  phase = "stopped" /\ ~error => \A c \in Chunks : chunk[c] <= manifest.n[c]

\* With ranges a manifest never gives back progress of the object it is about.
ProgressKept ==
  [][Ranged /\ manifest'.owner = manifest.owner =>
       \A c \in Chunks : manifest'.n[c] >= manifest.n[c]]_vars

\* A cancelled transfer ends: writers and checkpointer never wait for each
\* other for ever.
CancelEnds == phase = "running" /\ cancelled ~> phase # "running"

\* A transfer that is started again and again is completed in the end.
TransferEnds == <>(phase = "complete")

-----------------------------------------------------------------------------
(***************************************************************************)
(* What makes those invariants inductive.                                  *)
(***************************************************************************)
AtMost(f, g) == \A c \in Chunks : f[c] <= g[c]

Writing == {c \in Chunks : task[c] \in {"writing", "written"}}

\* The writes under way are the ones counted.
ActiveCounts == active = Cardinality(Writing)

\* What the place of a chunk's task says of its counts.
TasksPlaced ==
  phase = "running" => \A c \in Chunks :
    /\ task[c] = "writing" => chunk[c] < Length
    /\ task[c] = "written" => chunk[c] < part.n[c]
    /\ task[c] = "resetting" => ~Ranged /\ chunk[c] = 0

\* The manifest lags behind stable storage, and that behind the part file;
\* what a file holds is of the object the manifest is about.
FilesOrdered ==
  /\ AtMost(manifest.n, disk.n) /\ AtMost(disk.n, part.n)
  /\ \A c \in Chunks : disk.n[c] > 0 => disk.owner = manifest.owner /\ disk.whole
  /\ \A c \in Chunks : part.n[c] > 0 =>
       part.owner = manifest.owner /\ part.whole /\ manifest.owner # None
  /\ disk.whole => disk.owner # None
  /\ part.whole => part.owner # None

\* A part file is only made anew when nothing in it was worth keeping.
OpensEmpty ==
  phase \in {"opening", "emptied", "stretched"} =>
    /\ id \in Identities
    /\ chunk = Zero /\ part.n = Zero
    /\ task = [c \in Chunks |-> "idle"] /\ cp = "idle" /\ ~error
    /\ phase # "opening" => part.owner = id
    /\ phase = "stretched" => part.whole

\* A running transfer and its files are about the same object.
RunsBacked ==
  phase = "running" =>
    /\ id \in Identities /\ manifest.owner = id /\ part.owner = id /\ part.whole
    /\ AtMost(chunk, part.n)

\* Where the checkpointer is, relative to what it saves.
CheckpointPlaced ==
  phase = "running" =>
    /\ cp = "draining" => pending > 0
    /\ cp = "failed" <=> error
    /\ cp = "syncing" => AtMost(snap, part.n)
    /\ cp = "saving" => AtMost(snap, disk.n)
    /\ pending = 0 /\ cp = "idle" => AtMost(chunk, manifest.n)
    /\ pending = 0 /\ cp \in {"syncing", "saving"} => AtMost(chunk, snap)
    /\ Ranged => AtMost(manifest.n, chunk)
    /\ Ranged /\ cp \in {"syncing", "saving"} =>
         AtMost(manifest.n, snap) /\ AtMost(snap, chunk)

Inductive ==
  /\ TypeOK /\ ActiveCounts /\ TasksPlaced
  /\ FilesOrdered /\ OpensEmpty /\ RunsBacked /\ CheckpointPlaced
  /\ PublishedDurable /\ StopSaves

=============================================================================
