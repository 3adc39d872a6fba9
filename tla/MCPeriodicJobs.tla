--------------------------- MODULE MCPeriodicJobs ---------------------------
(* Small instances of PeriodicJobs. *)
EXTENDS PeriodicJobs, TLC

Symmetry == Permutations(Jobs) \cup Permutations(Clients)
=============================================================================
