---------------------------- MODULE MCMaintenance ----------------------------
(* Instances of Maintenance: workers and logs are interchangeable.          *)
EXTENDS Maintenance, TLC

Symmetry == Permutations(Workers) \cup Permutations(Logs)
=============================================================================
