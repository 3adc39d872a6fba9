----------------------------- MODULE MCNodePresence -----------------------------
(* Small instances of NodePresence. *)
EXTENDS NodePresence, TLC

Symmetry == Permutations(Nodes)
=============================================================================
