---------------------------- MODULE TaskRegistry ----------------------------
(***************************************************************************)
(* What the task authority of mcp-toolkit-tasks promises its callers about *)
(* the task-to-principal map, with every operation atomic: an id is bound  *)
(* once, to one principal, only while the authority is open; closing is    *)
(* irreversible and takes every binding with it.  TaskAuthority, whose     *)
(* operations are sequences of separate critical sections, implements it.  *)
(***************************************************************************)
CONSTANTS TaskIds, Principals, NoPrincipal

VARIABLES open,    \* the authority accepts operations
          bound    \* the principal each task id is bound to, or NoPrincipal

vars == <<open, bound>>

Unbound == [t \in TaskIds |-> NoPrincipal]

Init == open = TRUE /\ bound = Unbound

(* A spawn publishes its task for the principal that asked for it. *)
Publish(t, p) ==
  /\ open
  /\ bound[t] = NoPrincipal
  /\ bound' = [bound EXCEPT ![t] = p]
  /\ UNCHANGED open

(* A binding whose RMCP record is gone is dropped. *)
Retire(t) ==
  /\ open
  /\ bound[t] # NoPrincipal
  /\ bound' = [bound EXCEPT ![t] = NoPrincipal]
  /\ UNCHANGED open

(* Shutdown closes the registry and empties it in one step. *)
Close ==
  /\ open
  /\ open' = FALSE
  /\ bound' = Unbound

Next ==
  \/ \E t \in TaskIds, p \in Principals : Publish(t, p)
  \/ \E t \in TaskIds : Retire(t)
  \/ Close

Spec == Init /\ [][Next]_vars
=============================================================================
