-------------------------- MODULE MCObservationReader --------------------------
(***************************************************************************)
(* TaskObservation with a direct reader, for TLC.  With a waiter beside    *)
(* the reader the task stays at its first running state and its record     *)
(* does not expire; alone the reader meets updates and expiry as well.     *)
(* The steps left out are ones nothing obliges to happen.                  *)
(***************************************************************************)
EXTENDS TaskObservation

VARIABLE waiting  \* a wait may begin

ReaderInit == Init /\ waiting \in BOOLEAN

ReaderNext ==
  /\ UNCHANGED waiting
  /\ Next
  /\ IF waiting THEN rmcp' \in {1, Terminal} ELSE \A w \in Waiters : wpc'[w] = "idle"

ReaderSpec == ReaderInit /\ [][ReaderNext]_<<vars, waiting>> /\ Fairness

================================================================================
