--------------------------- MODULE MCCheckpointWriter ---------------------------
(* CheckpointWriter for TLC; the chunks and identities are model values. *)
EXTENDS CheckpointWriter
=============================================================================
