------------------------------- MODULE MCVisits -------------------------------
(* Instances of Visits.  Liveness is checked, so that no symmetry is used.  *)
EXTENDS Visits
=============================================================================
