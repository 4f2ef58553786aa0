---- MODULE MCMaintenance ----
(* Maintenance for TLC: the servers are alike. *)
EXTENDS Maintenance, TLC

Alike == Permutations(Apps)
====
