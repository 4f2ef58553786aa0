-------------------------------- MODULE MCIntake --------------------------------
EXTENDS Intake, TLC

Symmetric == Permutations(Requests) \cup Permutations(Updates) \cup Permutations(Roots)
=============================================================================
