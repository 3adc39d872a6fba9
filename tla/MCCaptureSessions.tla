------------------------- MODULE MCCaptureSessions -------------------------
(* Small instances of CaptureSessions. *)
EXTENDS CaptureSessions, TLC

Symmetry == Permutations(Sessions) \cup Permutations(Interfaces)
                \cup Permutations(Writers)
=============================================================================
