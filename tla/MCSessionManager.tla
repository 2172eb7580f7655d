-------------------------- MODULE MCSessionManager --------------------------
(* Small instances of SessionManager for TLC. *)
EXTENDS SessionManager

Symmetry == Permutations(Callers) \cup Permutations(Sessions)

=============================================================================
