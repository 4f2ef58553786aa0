----------------------- MODULE CheckpointWriter_proofs -----------------------
(***************************************************************************)
(* The safety of one file's transfer, for any number of chunks of any      *)
(* length and any bound on the faults: proofs that Inductive is an         *)
(* inductive invariant while the remote object does not change, that       *)
(* Accounted is one whatever the probe finds, and the properties that      *)
(* follow from each.                                                       *)
(***************************************************************************)
EXTENDS CheckpointWriter, FiniteSetTheorems, TLAPS

\* The remote object stays what it is.  Without this ClaimsBacked is false:
\* CheckpointWriterZeroFilled.cfg.
OneIdentity == \A i, j \in Identities : i = j

-----------------------------------------------------------------------------
\* Nothing is on disk when the first transfer starts.
LEMMA Initial == Init => Inductive
<1> SUFFICES ASSUME Init PROVE Inductive
  OBVIOUS
<1>1. TypeOK
  <2>1. Zero \in Counts
    BY ChunkAssumption DEF Zero, Counts
  <2>2. part \in PartFile /\ disk \in PartFile /\ manifest \in ManifestFile
    BY <2>1 DEF Init, PartFile, ManifestFile
  <2>3. faults \in 0..MaxFaults
    BY FaultAssumption DEF Init
  <2> QED
    BY <2>1, <2>2, <2>3 DEF Init, TypeOK
<1>2. ActiveCounts
  <2>1. Writing = {}
    BY DEF Init, Writing
  <2> QED
    BY <2>1, FS_EmptySet DEF Init, ActiveCounts
<1>3. FilesOrdered
  BY ChunkAssumption DEF Init, FilesOrdered, AtMost, Zero
<1>4. StopSaves
  BY ChunkAssumption DEF Init, StopSaves, Zero
<1> QED
  BY <1>1, <1>2, <1>3, <1>4
     DEF Init, Inductive, TasksPlaced, OpensEmpty, RunsBacked, CheckpointPlaced, PublishedDurable

\* Opening: what is restored is of the object the probe found, and backed by
\* the files; what is not restored was worth nothing (downloader.py:139-147).
LEMMA OpenStep ==
  ASSUME NEW i \in Identities, OneIdentity, Inductive, Open(i)
  PROVE  Inductive'
<1>1. TypeOK'
  <2>1. Zero \in Counts
    BY ChunkAssumption DEF Zero, Counts
  <2>2. chunk' \in Counts
    BY <2>1 DEF Open, Inductive, TypeOK, ManifestFile
  <2> QED
    BY <2>1, <2>2 DEF Open, Inductive, TypeOK, fileVars
<1>2. ActiveCounts'
  <2>1. Writing' = {}
    BY DEF Open, Writing
  <2> QED
    BY <2>1, FS_EmptySet DEF Open, ActiveCounts
<1>3. TasksPlaced'
  BY DEF Open, Inductive, TasksPlaced
<1>4. OpensEmpty'
  BY DEF Open, Inductive, OpensEmpty, TypeOK, FilesOrdered, Zero, fileVars, Restores, Counts,
       PartFile, OneIdentity
<1>5. RunsBacked'
  BY DEF Open, Inductive, RunsBacked, TypeOK, FilesOrdered, fileVars, Restores, AtMost, Counts,
       PartFile, ManifestFile, OneIdentity
<1>6. CheckpointPlaced'
  BY DEF Open, Inductive, CheckpointPlaced, TypeOK, fileVars, AtMost, Counts, ManifestFile
<1>7. PublishedDurable'
  BY DEF Open, Inductive, PublishedDurable
<1>8. StopSaves'
  BY DEF Open, Inductive, StopSaves
<1>9. FilesOrdered'
  BY DEF Open, Inductive, FilesOrdered, fileVars
<1> QED
  BY <1>1, <1>2, <1>3, <1>4, <1>5, <1>6, <1>7, <1>8, <1>9 DEF Inductive

\* Emptying the part file takes away nothing the manifest claims.
LEMMA EmptyStep ==
  ASSUME Inductive, Empty
  PROVE  Inductive'
<1>1. TypeOK'
  BY ChunkAssumption DEF Empty, Inductive, TypeOK, Zero, writerVars, cpVars, Counts, PartFile
<1>2. TasksPlaced'
  BY DEF Empty, Inductive, TasksPlaced
<1>3. FilesOrdered'
  BY DEF Empty, Inductive, FilesOrdered, OpensEmpty, Zero
<1>4. OpensEmpty'
  BY DEF Empty, Inductive, OpensEmpty, cpVars
<1>5. RunsBacked'
  BY DEF Empty, Inductive, RunsBacked
<1>6. CheckpointPlaced'
  BY DEF Empty, Inductive, CheckpointPlaced
<1>7. PublishedDurable'
  BY DEF Empty, Inductive, PublishedDurable
<1>8. StopSaves'
  BY DEF Empty, Inductive, StopSaves
<1>9. ActiveCounts'
  BY DEF Empty, Inductive, ActiveCounts, writerVars, Writing
<1> QED
  BY <1>1, <1>2, <1>3, <1>4, <1>5, <1>6, <1>7, <1>8, <1>9 DEF Inductive

\* Stretching the part file changes no block.
LEMMA StretchStep ==
  ASSUME Inductive, Stretch
  PROVE  Inductive'
<1>1. TypeOK'
  BY ChunkAssumption, IdentityAssumption, FaultAssumption
     DEF Stretch, Inductive, TypeOK, writerVars, cpVars, Counts, PartFile, ManifestFile
<1>2. TasksPlaced'
  BY DEF Stretch, Inductive, TasksPlaced
<1>3. FilesOrdered'
  BY IdentityAssumption DEF Stretch, Inductive, FilesOrdered, OpensEmpty
<1>4. OpensEmpty'
  BY DEF Stretch, Inductive, OpensEmpty, cpVars
<1>5. RunsBacked'
  BY DEF Stretch, Inductive, RunsBacked, cpVars
<1>6. CheckpointPlaced'
  BY DEF Stretch, Inductive, CheckpointPlaced
<1>7. PublishedDurable'
  BY DEF Stretch, Inductive, PublishedDurable, cpVars
<1>8. StopSaves'
  BY DEF Stretch, Inductive, StopSaves
<1>9. ActiveCounts'
  BY DEF Stretch, Inductive, ActiveCounts, writerVars, Writing
<1> QED
  BY <1>1, <1>2, <1>3, <1>4, <1>5, <1>6, <1>7, <1>8, <1>9 DEF Inductive

\* The fresh manifest claims nothing.
LEMMA SaveFreshStep ==
  ASSUME Inductive, SaveFresh
  PROVE  Inductive'
<1>1. TypeOK'
  BY DEF SaveFresh, Inductive, TypeOK, writerVars, cpVars, ManifestFile
<1>2. TasksPlaced'
  BY DEF SaveFresh, Inductive, TasksPlaced, OpensEmpty
<1>3. FilesOrdered'
  BY DEF SaveFresh, Inductive, FilesOrdered, TypeOK, OpensEmpty, AtMost, Counts, PartFile, Zero
<1>4. OpensEmpty'
  BY DEF SaveFresh, Inductive, OpensEmpty
<1>5. RunsBacked'
  BY DEF SaveFresh, Inductive, RunsBacked, TypeOK, OpensEmpty, AtMost, Counts
<1>6. CheckpointPlaced'
  BY DEF SaveFresh, Inductive, CheckpointPlaced, OpensEmpty, cpVars, AtMost, Zero
<1>7. PublishedDurable'
  BY DEF SaveFresh, Inductive, PublishedDurable
<1>8. StopSaves'
  BY DEF SaveFresh, Inductive, StopSaves, cpVars
<1>9. ActiveCounts'
  BY DEF SaveFresh, Inductive, ActiveCounts, writerVars, Writing
<1> QED
  BY <1>1, <1>2, <1>3, <1>4, <1>5, <1>6, <1>7, <1>8, <1>9 DEF Inductive

\* A request changes no file; a refused one only cancels.
LEMMA ConnectStep ==
  ASSUME NEW c \in Chunks, Inductive, Connect(c)
  PROVE  Inductive'
<1>1. TypeOK'
  BY ChunkAssumption, IdentityAssumption, FaultAssumption
     DEF Connect, Inductive, TypeOK, fileVars, writerVars, cpVars, Works, Done, Counts, PartFile,
          ManifestFile
<1>2. ActiveCounts'
  <2>1. Writing' = Writing
    BY DEF Connect, Works, Inductive, TypeOK, Writing
  <2> QED
    BY <2>1 DEF Connect, Inductive, ActiveCounts, writerVars
<1>3. TasksPlaced'
  BY DEF Connect, Inductive, TasksPlaced, TypeOK, fileVars
<1>4. OpensEmpty'
  BY DEF Connect, Inductive, OpensEmpty, Works
<1>5. (FilesOrdered /\ RunsBacked
        /\ CheckpointPlaced /\ PublishedDurable /\ StopSaves)'
  BY DEF Connect, Inductive, FilesOrdered, RunsBacked, CheckpointPlaced, PublishedDurable,
       StopSaves, fileVars, writerVars, cpVars
<1> QED
  BY <1>1, <1>2, <1>3, <1>4, <1>5 DEF Inductive

\* A write begun is a write counted (writer.py:118-127).
LEMMA StartWriteStep ==
  ASSUME NEW c \in Chunks, Inductive, StartWrite(c)
  PROVE  Inductive'
<1>1. ActiveCounts'
  <2>1. IsFiniteSet(Writing)
    BY ChunkAssumption, FS_Subset, Writing \subseteq Chunks DEF Writing
  <2>2. c \notin Writing /\ Writing' = Writing \cup {c}
    BY DEF StartWrite, Works, Inductive, TypeOK, Writing
  <2>3. Cardinality(Writing') = Cardinality(Writing) + 1
    BY <2>1, <2>2, FS_AddElement
  <2> QED
    BY <2>3 DEF StartWrite, Inductive, ActiveCounts
<1>2. TypeOK'
  BY DEF StartWrite, Inductive, TypeOK, fileVars, cpVars
<1>3. TasksPlaced'
  BY ChunkAssumption DEF StartWrite, Inductive, TasksPlaced, TypeOK, fileVars, Done, Counts
<1>4. OpensEmpty'
  BY DEF StartWrite, Inductive, OpensEmpty, Works
<1>5. (FilesOrdered /\ RunsBacked
        /\ CheckpointPlaced /\ PublishedDurable /\ StopSaves)'
  BY DEF StartWrite, Inductive, FilesOrdered, RunsBacked, CheckpointPlaced, PublishedDurable,
       StopSaves, fileVars, cpVars
<1> QED
  BY <1>1, <1>2, <1>3, <1>4, <1>5 DEF Inductive

\* A block that lands is one more than the claimed ones.
LEMMA WriteLandsStep ==
  ASSUME NEW c \in Chunks, Inductive, WriteLands(c)
  PROVE  Inductive'
<1>1. TypeOK'
  BY ChunkAssumption
     DEF WriteLands, Inductive, TypeOK, TasksPlaced, writerVars, cpVars, Works, Counts, PartFile
<1>2. ActiveCounts'
  <2>1. Writing' = Writing
    BY DEF WriteLands, Works, Inductive, TypeOK, Writing
  <2> QED
    BY <2>1 DEF WriteLands, Inductive, ActiveCounts, writerVars
<1>3. TasksPlaced'
  BY DEF WriteLands, Inductive, TasksPlaced, TypeOK, Counts, PartFile
<1>4. FilesOrdered'
  BY DEF WriteLands, Inductive, FilesOrdered, TypeOK, RunsBacked, Works, AtMost, Counts, PartFile
<1>5. OpensEmpty'
  BY DEF WriteLands, Inductive, OpensEmpty, Works
<1>6. RunsBacked'
  BY DEF WriteLands, Inductive, RunsBacked, TypeOK, AtMost, Counts
<1>7. CheckpointPlaced'
  BY DEF WriteLands, Inductive, CheckpointPlaced, TypeOK, writerVars, cpVars, AtMost, Counts,
       PartFile
<1>8. (PublishedDurable /\ StopSaves)'
  BY DEF WriteLands, Inductive, PublishedDurable, StopSaves, cpVars
<1> QED
  BY <1>1, <1>2, <1>3, <1>4, <1>5, <1>6, <1>7, <1>8 DEF Inductive

\* A failed write is counted out and claims nothing.
LEMMA WriteFailsStep ==
  ASSUME NEW c \in Chunks, Inductive, WriteFails(c)
  PROVE  Inductive'
<1>1. ActiveCounts'
  <2>1. IsFiniteSet(Writing)
    BY ChunkAssumption, FS_Subset, Writing \subseteq Chunks DEF Writing
  <2>2. c \in Writing /\ Writing' = Writing \ {c}
    BY DEF WriteFails, Works, Inductive, TypeOK, Writing
  <2>3. Cardinality(Writing') = Cardinality(Writing) - 1
    BY <2>1, <2>2, FS_RemoveElement
  <2> QED
    BY <2>3 DEF WriteFails, Inductive, ActiveCounts
<1>2. TypeOK'
  <2>1. active' \in Nat
    <3>1. Writing' \subseteq Chunks
      BY DEF Writing
    <3> QED
      BY <1>1, <3>1, ChunkAssumption, FS_Subset, FS_CardinalityType DEF ActiveCounts
  <2>2. /\ chunk' \in Counts
       /\ task' \in [Chunks -> {"idle", "streaming", "writing", "written", "resetting"}]
    BY ChunkAssumption
       DEF WriteFails, Works, Inductive, TypeOK, TasksPlaced, RunsBacked, AtMost, PartFile, Counts
  <2> QED
    BY <2>1, <2>2, FaultAssumption DEF WriteFails, Inductive, TypeOK, Works, fileVars, cpVars
<1>3. TasksPlaced'
  BY DEF WriteFails, Inductive, TasksPlaced, fileVars
<1>4. OpensEmpty'
  BY DEF WriteFails, Inductive, OpensEmpty, Works
<1>5. (FilesOrdered /\ RunsBacked
        /\ CheckpointPlaced /\ PublishedDurable /\ StopSaves)'
  BY DEF WriteFails, Inductive, FilesOrdered, RunsBacked, CheckpointPlaced, PublishedDurable,
       StopSaves, fileVars, cpVars
<1> QED
  BY <1>1, <1>2, <1>3, <1>4, <1>5 DEF Inductive

\* A claimed write was in the part file; it is counted out (writer.py:128-140).
LEMMA ClaimWriteStep ==
  ASSUME NEW c \in Chunks, Inductive, ClaimWrite(c)
  PROVE  Inductive'
<1>1. ActiveCounts'
  <2>1. IsFiniteSet(Writing)
    BY ChunkAssumption, FS_Subset, Writing \subseteq Chunks DEF Writing
  <2>2. c \in Writing /\ Writing' = Writing \ {c}
    BY DEF ClaimWrite, Works, Inductive, TypeOK, Writing
  <2>3. Cardinality(Writing') = Cardinality(Writing) - 1
    BY <2>1, <2>2, FS_RemoveElement
  <2> QED
    BY <2>3 DEF ClaimWrite, Inductive, ActiveCounts
<1>2. TypeOK'
  <2>1. active' \in Nat
    <3>1. Writing' \subseteq Chunks
      BY DEF Writing
    <3> QED
      BY <1>1, <3>1, ChunkAssumption, FS_Subset, FS_CardinalityType DEF ActiveCounts
  <2>2. /\ chunk' \in Counts
       /\ task' \in [Chunks -> {"idle", "streaming", "writing", "written", "resetting"}]
    BY ChunkAssumption
       DEF ClaimWrite, Works, Inductive, TypeOK, TasksPlaced, RunsBacked, AtMost, PartFile, Counts
  <2> QED
    BY <2>1, <2>2, FaultAssumption DEF ClaimWrite, Inductive, TypeOK, Works, fileVars, cpVars
<1>3. TasksPlaced'
  BY DEF ClaimWrite, Inductive, TasksPlaced, TypeOK, fileVars
<1>4. OpensEmpty'
  BY DEF ClaimWrite, Inductive, OpensEmpty, Works
<1>5. RunsBacked'
  BY DEF ClaimWrite, Inductive, RunsBacked, TypeOK, TasksPlaced, fileVars, Works, AtMost, Counts,
       PartFile
<1>6. CheckpointPlaced'
  BY DEF ClaimWrite, Inductive, CheckpointPlaced, TypeOK, fileVars, cpVars, AtMost, Counts,
       ManifestFile
<1>7. StopSaves'
  BY DEF ClaimWrite, Inductive, StopSaves, Works
<1>8. (FilesOrdered /\ PublishedDurable)'
  BY DEF ClaimWrite, Inductive, FilesOrdered, PublishedDurable, fileVars
<1> QED
  BY <1>1, <1>2, <1>3, <1>4, <1>5, <1>6, <1>7, <1>8 DEF Inductive

\* A broken stream only ever lowers a count when ranges are not honoured.
LEMMA DropStep ==
  ASSUME NEW c \in Chunks, Inductive, Drop(c)
  PROVE  Inductive'
<1>1. TypeOK'
  BY ChunkAssumption, FaultAssumption
     DEF Drop, Inductive, TypeOK, fileVars, writerVars, cpVars, Counts
<1>2. ActiveCounts'
  <2>1. Writing' = Writing
    BY DEF Drop, Works, Inductive, TypeOK, Writing
  <2> QED
    BY <2>1 DEF Drop, Inductive, ActiveCounts, writerVars
<1>3. TasksPlaced'
  BY DEF Drop, Inductive, TasksPlaced, TypeOK, fileVars, Counts
<1>4. OpensEmpty'
  BY DEF Drop, Inductive, OpensEmpty, fileVars, cpVars, Zero
<1>5. RunsBacked'
  BY DEF Drop, Inductive, RunsBacked, TypeOK, fileVars, AtMost, Counts, PartFile
<1>6. CheckpointPlaced'
  BY DEF Drop, Inductive, CheckpointPlaced, TypeOK, fileVars, writerVars, cpVars, AtMost, Counts,
       ManifestFile
<1>7. StopSaves'
  BY DEF Drop, Inductive, StopSaves, Works
<1>8. (FilesOrdered /\ PublishedDurable)'
  BY DEF Drop, Inductive, FilesOrdered, PublishedDurable, fileVars
<1> QED
  BY <1>1, <1>2, <1>3, <1>4, <1>5, <1>6, <1>7, <1>8 DEF Inductive

\* The reset manifest claims less than stable storage holds.
LEMMA SaveResetStep ==
  ASSUME NEW c \in Chunks, Inductive, SaveReset(c)
  PROVE  Inductive'
<1>1. TypeOK'
  BY DEF SaveReset, Inductive, TypeOK, writerVars, cpVars, ManifestFile
<1>2. ActiveCounts'
  <2>1. Writing' = Writing
    BY DEF SaveReset, Works, Inductive, TypeOK, Writing
  <2> QED
    BY <2>1 DEF SaveReset, Inductive, ActiveCounts, writerVars
<1>3. TasksPlaced'
  BY DEF SaveReset, Inductive, TasksPlaced
<1>4. FilesOrdered'
  BY ChunkAssumption
     DEF SaveReset, Inductive, FilesOrdered, TypeOK, TasksPlaced, RunsBacked, cpVars, Works,
          AtMost, Counts, PartFile
<1>5. OpensEmpty'
  BY DEF SaveReset, Inductive, OpensEmpty, Works
<1>6. RunsBacked'
  BY DEF SaveReset, Inductive, RunsBacked
<1>7. CheckpointPlaced'
  BY DEF SaveReset, Inductive, CheckpointPlaced, TypeOK, TasksPlaced, writerVars, cpVars, Works,
       AtMost, Counts
<1>8. StopSaves'
  BY DEF SaveReset, Inductive, StopSaves, cpVars, Works
<1>9. PublishedDurable'
  BY DEF SaveReset, Inductive, PublishedDurable
<1> QED
  BY <1>1, <1>2, <1>3, <1>4, <1>5, <1>6, <1>7, <1>8, <1>9 DEF Inductive

\* A checkpoint starts with something to save.
LEMMA StartCheckpointStep ==
  ASSUME Inductive, StartCheckpoint
  PROVE  Inductive'
<1>1. TypeOK'
  BY DEF StartCheckpoint, Inductive, TypeOK, fileVars
<1>2. OpensEmpty'
  BY DEF StartCheckpoint, Inductive, OpensEmpty
<1>3. CheckpointPlaced'
  BY DEF StartCheckpoint, Inductive, CheckpointPlaced, fileVars
<1>4. (ActiveCounts /\ TasksPlaced /\ FilesOrdered /\ RunsBacked
        /\ PublishedDurable /\ StopSaves)'
  BY DEF StartCheckpoint, Inductive, ActiveCounts, TasksPlaced, FilesOrdered, RunsBacked,
       PublishedDurable, StopSaves, fileVars, Writing
<1> QED
  BY <1>1, <1>2, <1>3, <1>4 DEF Inductive

\* With no write under way the snapshot is what the part file holds.
LEMMA SnapshotStep ==
  ASSUME Inductive, Snapshot
  PROVE  Inductive'
<1>1. TypeOK'
  BY ChunkAssumption, IdentityAssumption, FaultAssumption
     DEF Snapshot, Inductive, TypeOK, fileVars, Counts, PartFile, ManifestFile
<1>2. OpensEmpty'
  BY DEF Snapshot, Inductive, OpensEmpty
<1>3. CheckpointPlaced'
  BY DEF Snapshot, Inductive, CheckpointPlaced, TypeOK, RunsBacked, fileVars, AtMost, Counts
<1>4. (ActiveCounts /\ TasksPlaced /\ FilesOrdered /\ RunsBacked
        /\ PublishedDurable /\ StopSaves)'
  BY DEF Snapshot, Inductive, ActiveCounts, TasksPlaced, FilesOrdered, RunsBacked,
       PublishedDurable, StopSaves, fileVars, Writing
<1> QED
  BY <1>1, <1>2, <1>3, <1>4 DEF Inductive

\* After the fsync the snapshot is on stable storage.
LEMMA SyncStep ==
  ASSUME Inductive, Sync
  PROVE  Inductive'
<1>1. TypeOK'
  BY DEF Sync, Inductive, TypeOK, writerVars
<1>2. FilesOrdered'
  BY DEF Sync, Inductive, FilesOrdered, TypeOK, AtMost, Counts, PartFile, ManifestFile
<1>3. OpensEmpty'
  BY DEF Sync, Inductive, OpensEmpty
<1>4. CheckpointPlaced'
  BY DEF Sync, Inductive, CheckpointPlaced, writerVars
<1>5. PublishedDurable'
  BY DEF Sync, Inductive, PublishedDurable
<1>6. (ActiveCounts /\ TasksPlaced /\ RunsBacked /\ StopSaves)'
  BY DEF Sync, Inductive, ActiveCounts, TasksPlaced, RunsBacked, StopSaves, writerVars, Writing
<1> QED
  BY <1>1, <1>2, <1>3, <1>4, <1>5, <1>6 DEF Inductive

\* The manifest follows stable storage.
LEMMA SaveSnapshotStep ==
  ASSUME Inductive, SaveSnapshot
  PROVE  Inductive'
<1>1. TypeOK'
  BY DEF SaveSnapshot, Inductive, TypeOK, writerVars, ManifestFile
<1>2. FilesOrdered'
  BY DEF SaveSnapshot, Inductive, FilesOrdered, RunsBacked, CheckpointPlaced
<1>3. OpensEmpty'
  BY DEF SaveSnapshot, Inductive, OpensEmpty
<1>4. RunsBacked'
  BY DEF SaveSnapshot, Inductive, RunsBacked
<1>5. CheckpointPlaced'
  BY DEF SaveSnapshot, Inductive, CheckpointPlaced, writerVars
<1>6. StopSaves'
  BY DEF SaveSnapshot, Inductive, StopSaves
<1>7. (ActiveCounts /\ TasksPlaced /\ PublishedDurable)'
  BY DEF SaveSnapshot, Inductive, ActiveCounts, TasksPlaced, PublishedDurable, writerVars, Writing
<1> QED
  BY <1>1, <1>2, <1>3, <1>4, <1>5, <1>6, <1>7 DEF Inductive

\* A failed checkpoint changes no file.
LEMMA CheckpointFailsStep ==
  ASSUME Inductive, CheckpointFails
  PROVE  Inductive'
<1>1. TypeOK'
  BY FaultAssumption DEF CheckpointFails, Inductive, TypeOK, fileVars, writerVars
<1>2. OpensEmpty'
  BY DEF CheckpointFails, Inductive, OpensEmpty
<1>3. CheckpointPlaced'
  BY DEF CheckpointFails, Inductive, CheckpointPlaced, fileVars
<1>4. StopSaves'
  BY DEF CheckpointFails, Inductive, StopSaves
<1>5. (ActiveCounts /\ TasksPlaced /\ FilesOrdered /\ RunsBacked /\ PublishedDurable)'
  BY DEF CheckpointFails, Inductive, ActiveCounts, TasksPlaced, FilesOrdered, RunsBacked,
       PublishedDurable, fileVars, writerVars, Writing
<1> QED
  BY <1>1, <1>2, <1>3, <1>4, <1>5 DEF Inductive

\* A write that raises ends the transfer and changes no file.
LEMMA WriteRaisesStep ==
  ASSUME Inductive, WriteRaises
  PROVE  Inductive'
<1>1. TypeOK'
  BY DEF WriteRaises, Inductive, TypeOK, fileVars, writerVars, cpVars
<1>2. (ActiveCounts /\ TasksPlaced /\ FilesOrdered /\ OpensEmpty /\ RunsBacked
        /\ CheckpointPlaced /\ PublishedDurable /\ StopSaves)'
  BY DEF WriteRaises, Inductive, ActiveCounts, TasksPlaced, FilesOrdered, OpensEmpty, RunsBacked,
       CheckpointPlaced, PublishedDurable, StopSaves, fileVars, writerVars, cpVars, Writing
<1> QED
  BY <1>1, <1>2 DEF Inductive

\* A cancellation changes no file.
LEMMA CancelStep ==
  ASSUME Inductive, Cancel
  PROVE  Inductive'
<1>1. TypeOK'
  BY FaultAssumption DEF Cancel, Inductive, TypeOK, fileVars, writerVars, cpVars
<1>2. (ActiveCounts /\ TasksPlaced /\ FilesOrdered /\ OpensEmpty /\ RunsBacked
        /\ CheckpointPlaced /\ PublishedDurable /\ StopSaves)'
  BY DEF Cancel, Inductive, ActiveCounts, TasksPlaced, FilesOrdered, OpensEmpty, RunsBacked,
       CheckpointPlaced, PublishedDurable, StopSaves, fileVars, writerVars, cpVars, Writing
<1> QED
  BY <1>1, <1>2 DEF Inductive

\* Nothing was claimed while the transfer was opening.
LEMMA CancelOpeningStep ==
  ASSUME Inductive, CancelOpening
  PROVE  Inductive'
<1>1. TypeOK'
  BY FaultAssumption DEF CancelOpening, Inductive, TypeOK, fileVars, writerVars, cpVars
<1>2. TasksPlaced'
  BY DEF CancelOpening, Inductive, TasksPlaced
<1>3. OpensEmpty'
  BY DEF CancelOpening, Inductive, OpensEmpty
<1>4. RunsBacked'
  BY DEF CancelOpening, Inductive, RunsBacked
<1>5. CheckpointPlaced'
  BY DEF CancelOpening, Inductive, CheckpointPlaced
<1>6. PublishedDurable'
  BY DEF CancelOpening, Inductive, PublishedDurable
<1>7. StopSaves'
  BY DEF CancelOpening, Inductive, StopSaves, TypeOK, OpensEmpty, fileVars, Counts, ManifestFile,
       Zero
<1>8. (ActiveCounts /\ FilesOrdered)'
  BY DEF CancelOpening, Inductive, ActiveCounts, FilesOrdered, fileVars, writerVars, Writing
<1> QED
  BY <1>1, <1>2, <1>3, <1>4, <1>5, <1>6, <1>7, <1>8 DEF Inductive

\* A transfer that ends has flushed everything it claimed (downloader.py:352-358).
LEMMA FinishStep ==
  ASSUME Inductive, Finish
  PROVE  Inductive'
<1>1. TypeOK'
  BY DEF Finish, Inductive, TypeOK, fileVars, writerVars, cpVars
<1>2. TasksPlaced'
  BY DEF Finish, Inductive, TasksPlaced
<1>3. OpensEmpty'
  BY DEF Finish, Inductive, OpensEmpty
<1>4. RunsBacked'
  BY DEF Finish, Inductive, RunsBacked
<1>5. CheckpointPlaced'
  BY DEF Finish, Inductive, CheckpointPlaced
<1>6. PublishedDurable'
  BY ChunkAssumption
     DEF Finish, Inductive, PublishedDurable, TypeOK, FilesOrdered, RunsBacked, CheckpointPlaced,
          fileVars, Done, Flushed, Counts, PartFile, ManifestFile, AtMost
<1>7. StopSaves'
  BY DEF Finish, Inductive, StopSaves, CheckpointPlaced, fileVars, cpVars, Flushed, AtMost
<1>8. (ActiveCounts /\ FilesOrdered)'
  BY DEF Finish, Inductive, ActiveCounts, FilesOrdered, fileVars, writerVars, Writing
<1> QED
  BY <1>1, <1>2, <1>3, <1>4, <1>5, <1>6, <1>7, <1>8 DEF Inductive

\* A death takes nothing from stable storage.
LEMMA DieStep ==
  ASSUME Inductive, Die
  PROVE  Inductive'
<1>1. TypeOK'
  BY ChunkAssumption, FaultAssumption
     DEF Die, Inductive, TypeOK, Zero, writerVars, cpVars, Survivors, Counts, PartFile
<1>2. TasksPlaced'
  BY DEF Die, Inductive, TasksPlaced
<1>3. FilesOrdered'
  BY DEF Die, Inductive, FilesOrdered, TypeOK, Survivors, AtMost, Counts, PartFile, ManifestFile
<1>4. OpensEmpty'
  BY DEF Die, Inductive, OpensEmpty
<1>5. RunsBacked'
  BY DEF Die, Inductive, RunsBacked
<1>6. CheckpointPlaced'
  BY DEF Die, Inductive, CheckpointPlaced
<1>7. PublishedDurable'
  BY DEF Die, Inductive, PublishedDurable
<1>8. StopSaves'
  BY DEF Die, Inductive, StopSaves, TypeOK, Zero, Counts, ManifestFile
<1>9. ActiveCounts'
  BY DEF Die, Inductive, ActiveCounts, writerVars, Writing
<1> QED
  BY <1>1, <1>2, <1>3, <1>4, <1>5, <1>6, <1>7, <1>8, <1>9 DEF Inductive

-----------------------------------------------------------------------------
\* No step of the system, and no stuttering, leaves the invariant.
LEMMA InductiveStep ==
  ASSUME OneIdentity, Inductive, [Next]_vars
  PROVE  Inductive'
<1>1. CASE Opening
  BY <1>1, OpenStep, EmptyStep, StretchStep, SaveFreshStep DEF Opening
<1>2. CASE \E c \in Chunks : Chunk(c)
  BY <1>2, ConnectStep, StartWriteStep, WriteLandsStep, ClaimWriteStep, SaveResetStep DEF Chunk
<1>3. CASE Checkpoint
  BY <1>3, StartCheckpointStep, SnapshotStep, SyncStep, SaveSnapshotStep DEF Checkpoint
<1>4. CASE WriteRaises \/ Finish
  BY <1>4, WriteRaisesStep, FinishStep
<1>5. CASE Fault
  BY <1>5, DropStep, WriteFailsStep, CheckpointFailsStep, CancelStep, CancelOpeningStep, DieStep
     DEF Fault
<1>6. CASE UNCHANGED vars
  BY <1>6 DEF vars, Inductive, TypeOK, ActiveCounts, Writing, TasksPlaced, FilesOrdered,
     OpensEmpty, RunsBacked, CheckpointPlaced, PublishedDurable, StopSaves
<1> QED
  BY <1>1, <1>2, <1>3, <1>4, <1>5, <1>6 DEF Next

\* Every reachable state satisfies the inductive invariant.
THEOREM Invariance == ASSUME OneIdentity PROVE Spec => []Inductive
<1>1. Inductive /\ [Next]_vars => Inductive'
  BY InductiveStep
<1> QED
  BY Initial, <1>1, PTL DEF Spec

\* The manifest never claims a block a loss of power could take back
\* (writer.py:177-194, downloader.py:145-157).
THEOREM ManifestIsDurable == ASSUME OneIdentity PROVE Spec => []ManifestDurable
<1>1. Inductive => ManifestDurable
  <2> SUFFICES ASSUME Inductive, NEW c \in Chunks, manifest.n[c] > 0
               PROVE  disk.owner = manifest.owner /\ manifest.n[c] <= disk.n[c]
    BY DEF ManifestDurable
  <2>1. manifest.n[c] \in Nat /\ disk.n[c] \in Nat
    BY ChunkAssumption DEF Inductive, TypeOK, ManifestFile, PartFile, Counts
  <2> QED
    BY <2>1 DEF Inductive, FilesOrdered, AtMost
<1> QED
  BY Invariance, <1>1, PTL

\* What a running transfer counts as downloaded is in the part file.
THEOREM ClaimsAreBacked == ASSUME OneIdentity PROVE Spec => []ClaimsBacked
<1>1. Inductive => ClaimsBacked
  BY DEF Inductive, RunsBacked, ClaimsBacked, AtMost
<1> QED
  BY Invariance, <1>1, PTL

\* A transfer that goes on to publish has every block on stable storage.
THEOREM PublishedIsDurable == ASSUME OneIdentity PROVE Spec => []PublishedDurable
<1>1. Inductive => PublishedDurable
  BY DEF Inductive
<1> QED
  BY Invariance, <1>1, PTL

\* With ranges, no step makes a manifest give back progress of the object it
\* is about: not a checkpoint, not a broken stream, not a new start.
THEOREM ProgressIsKept == ASSUME OneIdentity PROVE Spec => ProgressKept
<1>1. ASSUME Inductive, [Next]_vars, Ranged
      PROVE  \A c \in Chunks : manifest'.n[c] >= manifest.n[c]
  <2> SUFFICES ASSUME NEW c \in Chunks PROVE manifest'.n[c] >= manifest.n[c]
    OBVIOUS
  <2> USE <1>1
  <2>1. manifest.n[c] \in Nat /\ disk.n[c] \in Nat /\ part.n[c] \in Nat /\ snap[c] \in Nat
    BY ChunkAssumption DEF Inductive, TypeOK, ManifestFile, PartFile, Counts
  <2>2. CASE SaveFresh
    BY <2>1, <2>2 DEF SaveFresh, Inductive, OpensEmpty, FilesOrdered, AtMost, Zero
  <2>3. CASE \E d \in Chunks : SaveReset(d)
    BY <2>3 DEF SaveReset, Works, Inductive, TasksPlaced
  <2>4. CASE SaveSnapshot
    BY <2>1, <2>4 DEF SaveSnapshot, Inductive, CheckpointPlaced, AtMost
  <2>5. CASE UNCHANGED manifest
    BY <2>1, <2>5
  <2> QED
    BY <2>2, <2>3, <2>4, <2>5 DEF Next, Opening, Open, Empty, Stretch, Chunk, Connect, StartWrite,
       WriteLands, ClaimWrite, Checkpoint, StartCheckpoint, Snapshot, Sync, WriteRaises, Finish,
       Fault, Drop, WriteFails, CheckpointFails, Cancel, CancelOpening, Die, fileVars, vars
<1>2. Inductive /\ [Next]_vars =>
        [Ranged /\ manifest'.owner = manifest.owner =>
           \A c \in Chunks : manifest'.n[c] >= manifest.n[c]]_vars
  BY <1>1
<1> QED
  BY Invariance, <1>2, PTL DEF Spec, ProgressKept

-----------------------------------------------------------------------------
(***************************************************************************)
(* What holds whatever the probe finds from one attempt to the next.       *)
(***************************************************************************)
\* Nothing is counted before the transfer runs.
Blank ==
  phase \in {"opening", "emptied", "stretched"} =>
    chunk = Zero /\ task = [c \in Chunks |-> "idle"] /\ cp = "idle" /\ ~error

\* What is not saved yet is pending or in the snapshot.
Saved ==
  phase = "running" =>
    /\ cp = "failed" <=> error
    /\ pending = 0 /\ cp = "idle" => AtMost(chunk, manifest.n)
    /\ pending = 0 /\ cp \in {"syncing", "saving"} => AtMost(chunk, snap)

Accounted == TypeOK /\ ActiveCounts /\ TasksPlaced /\ Blank /\ Saved /\ StopSaves

\* The writes under way are finitely many.
LEMMA WritingFinite ==
  /\ IsFiniteSet(Writing) /\ Cardinality(Writing) \in Nat
  /\ IsFiniteSet(Writing') /\ Cardinality(Writing') \in Nat
<1>1. Writing \subseteq Chunks /\ Writing' \subseteq Chunks
  BY DEF Writing
<1> QED BY <1>1, ChunkAssumption, FS_Subset, FS_CardinalityType

\* Opening counts what the manifest has, or nothing (downloader.py:139-157).
LEMMA OpeningAccounts ==
  ASSUME Accounted, Opening
  PROVE  Accounted'
<1>0. /\ Zero \in Counts /\ Length \in Nat /\ TypeOK
      /\ \A c \in Chunks : Zero[c] = 0
  BY ChunkAssumption DEF Zero, Counts, Accounted
<1>1. CASE \E i \in Identities : Open(i)
  <2>1. PICK i \in Identities : Open(i)
    BY <1>1
  <2>2. chunk' \in Counts /\ (Restores(i) => chunk' = manifest.n) /\ manifest.n \in Counts
    BY <1>0, <2>1 DEF Open, TypeOK, ManifestFile
  <2>3. TypeOK'
    BY <1>0, <2>1, <2>2 DEF Open, TypeOK, fileVars
  <2>4. Writing' = {}
    BY <2>1 DEF Open, Writing
  <2>5. ActiveCounts' /\ TasksPlaced'
    BY <2>1, <2>4, FS_EmptySet DEF Open, ActiveCounts, TasksPlaced
  <2>6. Blank' /\ StopSaves'
    BY <2>1 DEF Open, Blank, StopSaves
  <2>7. Saved'
    BY <1>0, <2>1, <2>2 DEF Open, Saved, AtMost, Counts, fileVars
  <2> QED BY <2>3, <2>5, <2>6, <2>7 DEF Accounted
<1>2. CASE Empty \/ Stretch \/ SaveFresh
  <2>1. UNCHANGED <<id, disk, chunk, task, cancelled, writerVars, cpVars, faults>>
    BY <1>2 DEF Empty, Stretch, SaveFresh
  <2>2. chunk = Zero /\ task = [c \in Chunks |-> "idle"] /\ cp = "idle" /\ ~error
    BY <1>2 DEF Accounted, Blank, Empty, Stretch, SaveFresh
  <2>3. part' \in PartFile /\ manifest' \in ManifestFile
        /\ phase' \in {"emptied", "stretched", "running"}
    <3>1. CASE Empty
      BY <1>0, <3>1 DEF Empty, TypeOK, PartFile
    <3>2. CASE Stretch
      BY <1>0, <3>2 DEF Stretch, TypeOK, PartFile
    <3>3. CASE SaveFresh
      BY <1>0, <3>3 DEF SaveFresh, TypeOK, ManifestFile
    <3> QED BY <1>2, <3>1, <3>2, <3>3
  <2>4. TypeOK'
    BY <1>0, <2>1, <2>3 DEF TypeOK, writerVars, cpVars
  <2>5. ActiveCounts'
    BY <2>1 DEF Accounted, ActiveCounts, Writing, writerVars
  <2>6. TasksPlaced' /\ Blank' /\ StopSaves'
    BY <2>1, <2>2, <2>3 DEF TasksPlaced, Blank, StopSaves, cpVars
  <2>7. phase' = "running" => manifest'.n = Zero
    BY <1>2, <2>2 DEF Empty, Stretch, SaveFresh
  <2>8. Saved'
    BY <1>0, <2>1, <2>2, <2>7 DEF Saved, AtMost, cpVars
  <2> QED BY <2>4, <2>5, <2>6, <2>8 DEF Accounted
<1> QED BY <1>1, <1>2 DEF Opening

\* A task claims only blocks that landed, each of them pending from then on
\* (writer.py:114-140, downloader.py:254-302).
LEMMA ChunkAccounts ==
  ASSUME Accounted, NEW c \in Chunks, Chunk(c) \/ Drop(c) \/ WriteFails(c)
  PROVE  Accounted'
<1>0. /\ phase = "running" /\ UNCHANGED <<phase, id, disk, checkpointing, cpVars>>
      /\ TypeOK /\ ActiveCounts /\ TasksPlaced /\ Saved /\ Length \in Nat \ {0}
  BY ChunkAssumption
     DEF Accounted, Chunk, Connect, StartWrite, WriteLands, ClaimWrite, SaveReset, Drop, WriteFails,
         Works, fileVars, writerVars
<1>1. \A d \in Chunks : chunk[d] \in 0..Length /\ part.n[d] \in 0..Length
  BY <1>0 DEF TypeOK, PartFile, Counts
<1>2. faults' \in 0..MaxFaults /\ cancelled' \in BOOLEAN
  <2>1. \/ UNCHANGED faults
        \/ faults < MaxFaults /\ faults' = faults + 1
    BY DEF Chunk, Connect, StartWrite, WriteLands, ClaimWrite, SaveReset, Drop, WriteFails
  <2>2. cancelled' = cancelled \/ cancelled' = TRUE
    BY DEF Chunk, Connect, StartWrite, WriteLands, ClaimWrite, SaveReset, Drop, WriteFails
  <2>3. faults \in 0..MaxFaults /\ cancelled \in BOOLEAN
    BY <1>0 DEF TypeOK
  <2>4. faults' \in 0..MaxFaults
    BY <2>1, <2>3, FaultAssumption
  <2> QED BY <2>2, <2>3, <2>4
<1>3. task' \in [Chunks -> {"idle", "streaming", "writing", "written", "resetting"}]
      /\ \A d \in Chunks \ {c} : task'[d] = task[d]
  BY <1>0
     DEF Chunk, Connect, StartWrite, WriteLands, ClaimWrite, SaveReset, Drop, WriteFails, TypeOK
<1>4. \A d \in Chunks \ {c} : chunk'[d] = chunk[d] /\ part'.n[d] = part.n[d]
  BY <1>0
     DEF Chunk, Connect, StartWrite, WriteLands, ClaimWrite, SaveReset, Drop, WriteFails, TypeOK,
         fileVars, PartFile, Counts
<1>5. chunk' \in Counts /\ part' \in PartFile /\ manifest' \in ManifestFile
  <2>1. chunk' \in Counts
    BY <1>0, <1>1
       DEF Chunk, Connect, StartWrite, WriteLands, ClaimWrite, SaveReset, Drop, WriteFails, TypeOK,
           TasksPlaced, Works, Counts
  <2>2. part' \in PartFile
    <3>1. CASE WriteLands(c)
      <4>1. part.n[c] \in 0..Length /\ chunk[c] + 1 \in 0..Length
        BY <1>0, <1>1, <3>1 DEF WriteLands, Works, TasksPlaced
      <4> QED BY <1>0, <3>1, <4>1 DEF WriteLands, TypeOK, PartFile, Counts
    <3>2. CASE UNCHANGED part
      BY <1>0, <3>2 DEF TypeOK
    <3> QED BY <3>1, <3>2 DEF Chunk, Connect, StartWrite, ClaimWrite, SaveReset, Drop,
               WriteFails, fileVars
  <2>3. manifest' \in ManifestFile
    BY <1>0
       DEF Chunk, Connect, StartWrite, WriteLands, ClaimWrite, SaveReset, Drop, WriteFails, TypeOK,
           fileVars, ManifestFile
  <2> QED BY <2>1, <2>2, <2>3
<1>6. /\ task'[c] = "writing" => chunk'[c] < Length
      /\ task'[c] = "written" => chunk'[c] < part'.n[c]
      /\ task'[c] = "resetting" => ~Ranged /\ chunk'[c] = 0
  <2>1. CASE Connect(c)
    BY <1>0, <2>1 DEF Connect, TasksPlaced, TypeOK, Works
  <2>2. CASE StartWrite(c)
    BY <1>0, <1>1, <2>2 DEF StartWrite, TypeOK, Works, Done
  <2>3. CASE WriteLands(c)
    <3>1. chunk' = chunk /\ task'[c] = "written"
          /\ part'.n[c] = IF part.n[c] > chunk[c] THEN part.n[c] ELSE chunk[c] + 1
      BY <1>0, <2>3 DEF WriteLands, TypeOK, PartFile, Counts
    <3> QED BY <1>1, <3>1
  <2>4. CASE ClaimWrite(c) \/ SaveReset(c) \/ WriteFails(c)
    BY <1>0, <2>4 DEF ClaimWrite, SaveReset, WriteFails, TypeOK
  <2>5. CASE Drop(c)
    BY <1>0, <2>5 DEF Drop, TypeOK, Counts
  <2> QED BY <2>1, <2>2, <2>3, <2>4, <2>5 DEF Chunk
<1>7. TasksPlaced'
  BY <1>0, <1>3, <1>4, <1>6 DEF TasksPlaced
<1>8. ActiveCounts' /\ active' \in Nat
  <2>1. CASE StartWrite(c)
    <3>1. c \notin Writing /\ Writing' = Writing \cup {c} /\ active' = active + 1
      BY <1>0, <2>1 DEF StartWrite, Works, TypeOK, Writing
    <3> QED BY <1>0, <3>1, WritingFinite, FS_AddElement DEF ActiveCounts
  <2>2. CASE WriteFails(c) \/ ClaimWrite(c)
    <3>1. c \in Writing /\ Writing' = Writing \ {c} /\ active' = active - 1
      BY <1>0, <2>2 DEF WriteFails, ClaimWrite, Works, TypeOK, Writing
    <3>2. Cardinality(Writing') = active'
      BY <1>0, <3>1, WritingFinite, FS_RemoveElement DEF ActiveCounts
    <3> QED BY <3>2, WritingFinite DEF ActiveCounts
  <2>3. CASE Connect(c) \/ WriteLands(c) \/ SaveReset(c) \/ Drop(c)
    <3>1. Writing' = Writing /\ active' = active
      BY <1>0, <2>3 DEF Connect, WriteLands, SaveReset, Drop, Works, TypeOK, Writing, writerVars
    <3> QED BY <1>0, <3>1 DEF ActiveCounts, TypeOK
  <2> QED BY <2>1, <2>2, <2>3 DEF Chunk
<1>9. pending' \in Nat /\ (pending' = 0 => pending = 0 /\ \A d \in Chunks : chunk'[d] <= chunk[d])
  <2>1. CASE ClaimWrite(c)
    BY <1>0, <1>1, <2>1 DEF ClaimWrite, TypeOK
  <2>2. CASE Drop(c)
    BY <1>0, <1>1, <2>2 DEF Drop, TypeOK, Counts, writerVars
  <2>3. CASE Connect(c) \/ StartWrite(c) \/ WriteLands(c) \/ SaveReset(c) \/ WriteFails(c)
    BY <1>0, <1>1, <2>3
       DEF Connect, StartWrite, WriteLands, SaveReset, WriteFails, TypeOK, writerVars
  <2> QED BY <2>1, <2>2, <2>3 DEF Chunk
<1>10. \/ UNCHANGED manifest
       \/ \A d \in Chunks : chunk'[d] <= manifest'.n[d]
  <2>1. CASE SaveReset(c)
    <3>1. UNCHANGED chunk /\ (UNCHANGED manifest \/ manifest'.n = chunk)
      BY <2>1 DEF SaveReset
    <3> QED BY <1>1, <3>1
  <2>2. CASE ~SaveReset(c)
    BY <2>2 DEF Chunk, Connect, StartWrite, WriteLands, ClaimWrite, Drop, WriteFails, fileVars
  <2> QED BY <2>1, <2>2
<1>11. \A d \in Chunks : /\ chunk'[d] \in Nat /\ snap[d] \in Nat /\ manifest.n[d] \in Nat
                         /\ chunk[d] \in Nat
  BY <1>0, <1>5 DEF TypeOK, Counts, ManifestFile
<1>12. Saved'
  <2>1. pending' = 0 /\ cp = "idle" => AtMost(chunk', manifest'.n)
    BY <1>0, <1>9, <1>10, <1>11 DEF Saved, AtMost
  <2>2. pending' = 0 /\ cp \in {"syncing", "saving"} => AtMost(chunk', snap)
    BY <1>0, <1>9, <1>11 DEF Saved, AtMost
  <2> QED BY <1>0, <2>1, <2>2 DEF Saved, AtMost, cpVars
<1>13. TypeOK'
  BY <1>0, <1>2, <1>3, <1>5, <1>8, <1>9 DEF TypeOK, cpVars
<1>14. Blank' /\ StopSaves'
  BY <1>0 DEF Blank, StopSaves
<1> QED BY <1>7, <1>8, <1>12, <1>13, <1>14 DEF Accounted

\* A checkpoint takes everything that was pending into its snapshot, and saves
\* that (writer.py:177-194).
LEMMA CheckpointAccounts ==
  ASSUME Accounted, Checkpoint \/ CheckpointFails
  PROVE  Accounted'
<1>0. /\ phase = "running" /\ UNCHANGED <<phase, id, part, chunk, task, cancelled, active>>
      /\ TypeOK /\ ActiveCounts /\ TasksPlaced /\ Saved /\ StopSaves
  BY DEF Accounted, Checkpoint, StartCheckpoint, Snapshot, Sync, SaveSnapshot, CheckpointFails,
         fileVars, writerVars
<1>1. TypeOK'
  <2>1. CASE StartCheckpoint
    BY <1>0, <2>1 DEF StartCheckpoint, TypeOK, fileVars
  <2>2. CASE Snapshot
    BY <1>0, <2>2 DEF Snapshot, TypeOK, fileVars
  <2>3. CASE Sync
    BY <1>0, <2>3 DEF Sync, TypeOK, writerVars
  <2>4. CASE SaveSnapshot
    <3>1. manifest' \in ManifestFile
      BY <1>0, <2>4 DEF SaveSnapshot, TypeOK, ManifestFile
    <3> QED BY <1>0, <2>4, <3>1 DEF SaveSnapshot, TypeOK, writerVars
  <2>5. CASE CheckpointFails
    <3>1. faults' \in 0..MaxFaults
      BY <1>0, <2>5, FaultAssumption DEF CheckpointFails, TypeOK
    <3> QED BY <1>0, <2>5, <3>1 DEF CheckpointFails, TypeOK, fileVars, writerVars
  <2> QED BY <2>1, <2>2, <2>3, <2>4, <2>5 DEF Checkpoint
<1>2. ActiveCounts' /\ TasksPlaced'
  BY <1>0 DEF ActiveCounts, Writing, TasksPlaced
<1>3. Saved'
  <2>1. CASE StartCheckpoint
    BY <1>0, <2>1 DEF StartCheckpoint, Saved, fileVars
  <2>2. CASE Snapshot
    BY <1>0, <2>2 DEF Snapshot, Saved, TypeOK, AtMost, Counts, fileVars
  <2>3. CASE Sync
    BY <1>0, <2>3 DEF Sync, Saved, writerVars
  <2>4. CASE SaveSnapshot
    BY <1>0, <2>4 DEF SaveSnapshot, Saved, AtMost, writerVars
  <2>5. CASE CheckpointFails
    BY <1>0, <2>5 DEF CheckpointFails, Saved
  <2> QED BY <2>1, <2>2, <2>3, <2>4, <2>5 DEF Checkpoint
<1>4. Blank' /\ StopSaves'
  BY <1>0 DEF Blank, StopSaves
<1> QED BY <1>1, <1>2, <1>3, <1>4 DEF Accounted

\* A transfer stops when nothing is pending, before it counted, or dies
\* (downloader.py:190, 352-358).
LEMMA StopAccounts ==
  ASSUME Accounted, WriteRaises \/ Cancel \/ Finish \/ CancelOpening \/ Die
  PROVE  Accounted'
<1>0. TypeOK /\ ActiveCounts /\ TasksPlaced /\ Blank /\ Saved /\ StopSaves
  BY DEF Accounted
<1>z. Zero \in Counts /\ \A c \in Chunks : Zero[c] = 0 /\ manifest.n[c] \in Nat
  BY <1>0, ChunkAssumption DEF Zero, Counts, TypeOK, ManifestFile
<1>1. UNCHANGED <<id, manifest, task, writerVars, cpVars>>
  BY DEF WriteRaises, Cancel, Finish, CancelOpening, Die, fileVars
<1>2. ActiveCounts'
  BY <1>0, <1>1 DEF ActiveCounts, Writing, writerVars
<1>3. CASE WriteRaises \/ Cancel
  <2>1. UNCHANGED <<phase, part, disk, chunk>> /\ cancelled' \in BOOLEAN /\ faults' \in 0..MaxFaults
    <3>1. UNCHANGED <<phase, part, disk, chunk>> /\ cancelled' = TRUE
          /\ (UNCHANGED faults \/ (faults < MaxFaults /\ faults' = faults + 1))
      BY <1>3 DEF WriteRaises, Cancel, fileVars
    <3>2. faults' \in 0..MaxFaults
      BY <1>0, <3>1, FaultAssumption DEF TypeOK
    <3> QED BY <3>1, <3>2
  <2>2. TypeOK'
    BY <1>0, <1>1, <2>1 DEF TypeOK, writerVars, cpVars
  <2>3. TasksPlaced' /\ Blank' /\ Saved' /\ StopSaves'
    BY <1>0, <1>1, <2>1 DEF TasksPlaced, Blank, Saved, AtMost, StopSaves, writerVars, cpVars
  <2> QED BY <1>2, <2>2, <2>3 DEF Accounted
<1>4. CASE Finish
  <2>1. UNCHANGED <<part, disk, chunk, cancelled, faults>> /\ phase' \in {"stopped", "complete"}
        /\ phase = "running" /\ Flushed
    BY <1>4 DEF Finish, fileVars
  <2>2. TypeOK'
    BY <1>0, <1>1, <2>1 DEF TypeOK, writerVars, cpVars
  <2>3. TasksPlaced' /\ Blank' /\ Saved'
    BY <2>1 DEF TasksPlaced, Blank, Saved
  <2>4. StopSaves'
    BY <1>0, <1>1, <2>1 DEF StopSaves, Saved, Flushed, AtMost, cpVars
  <2> QED BY <1>2, <2>2, <2>3, <2>4 DEF Accounted
<1>5. CASE CancelOpening \/ Die
  <2>1. chunk' = Zero /\ phase' = "stopped" /\ faults' \in 0..MaxFaults /\ UNCHANGED cancelled
    BY <1>0, <1>5, FaultAssumption DEF CancelOpening, Die, Blank, TypeOK
  <2>2. part' \in PartFile /\ disk' \in PartFile
    BY <1>0, <1>5 DEF CancelOpening, Die, Survivors, TypeOK, PartFile, Counts, fileVars
  <2>3. TypeOK'
    BY <1>0, <1>z, <1>1, <2>1, <2>2 DEF TypeOK, writerVars, cpVars
  <2>4. TasksPlaced' /\ Blank' /\ Saved'
    BY <2>1 DEF TasksPlaced, Blank, Saved
  <2>5. StopSaves'
    BY <1>z, <1>1, <2>1 DEF StopSaves
  <2> QED BY <1>2, <2>3, <2>4, <2>5 DEF Accounted
<1> QED BY <1>3, <1>4, <1>5

\* The accounts hold at every step, of whatever object the attempts are.
LEMMA Accounts == Spec => []Accounted
<1>1. Init => Accounted
  <2> SUFFICES ASSUME Init PROVE Accounted
    OBVIOUS
  <2>1. Inductive
    BY Initial
  <2> QED BY <2>1 DEF Init, Inductive, Accounted, Blank, Saved
<1>2. Accounted /\ [Next]_vars => Accounted'
  <2> SUFFICES ASSUME Accounted, [Next]_vars PROVE Accounted'
    OBVIOUS
  <2>1. CASE UNCHANGED vars
    BY <2>1 DEF vars, Accounted, TypeOK, ActiveCounts, Writing, TasksPlaced, Blank, Saved, AtMost,
       StopSaves
  <2>2. CASE Next
    BY <2>2, OpeningAccounts, ChunkAccounts, CheckpointAccounts, StopAccounts DEF Next, Fault
  <2> QED BY <2>1, <2>2
<1> QED BY <1>1, <1>2, PTL DEF Spec

\* Every variable keeps its type, whatever object each attempt finds.
THEOREM TypeCorrect == Spec => []TypeOK
<1>1. Accounted => TypeOK
  BY DEF Accounted
<1> QED
  BY Accounts, <1>1, PTL

\* A transfer that was stopped without a storage error has saved all it
\* claimed, whatever object each attempt finds (writer.py:145-194).
THEOREM StopHasSaved == Spec => []StopSaves
<1>1. Accounted => StopSaves
  BY DEF Accounted
<1> QED
  BY Accounts, <1>1, PTL

=============================================================================
