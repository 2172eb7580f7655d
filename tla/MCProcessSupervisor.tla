------------------------ MODULE MCProcessSupervisor ------------------------
(* Small instances of ProcessSupervisor for TLC. *)
EXTENDS ProcessSupervisor, TLC

Symmetry == Permutations(Children)

=============================================================================
