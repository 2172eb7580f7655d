--------------------------- MODULE MCTaskAuthority ---------------------------
(* Small instances of TaskAuthority for TLC. *)
EXTENDS TaskAuthority, TLC

Symmetry == Permutations(Callers) \cup Permutations(TaskIds) \cup Permutations(Principals)

=============================================================================
