-------------------------- MODULE MCTaskObservation --------------------------
(* Small instances of TaskObservation for TLC. *)
EXTENDS TaskObservation

=============================================================================
