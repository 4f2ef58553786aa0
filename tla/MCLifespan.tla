------------------------------- MODULE MCLifespan -------------------------------
(* Lifespan, and the Scheduler in it, for TLC. *)
EXTENDS Lifespan
=============================================================================
