----------------------------- MODULE MCProbePath ------------------------------
(* Small instances of ProbePath. *)
EXTENDS ProbePath, TLC

\* Interfaces are interchangeable
Symmetry == Permutations(Interfaces)
=============================================================================
