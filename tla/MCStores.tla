------------------------------- MODULE MCStores -------------------------------
(***************************************************************************)
(* The components that share no state with the task authority, the process *)
(* supervisor or the session manager, side by side: a behaviour is one of  *)
(* one of them, the others staying where they began.                       *)
(***************************************************************************)
EXTENDS Scratchpad, GuardedQuery, EventStores, OperationHistory, OpaqueTokens,
        ObserverQueue, JwksCache, UpstreamRefresh, TLC

VARIABLE part  \* the component whose behaviour this is

Parts == {"scratchpad", "query", "events", "history", "tokens", "observer", "jwks", "refresh"}

vars == <<part, padVars, qVars, evVars, histVars, otVars, obVars, jwVars, upVars>>

(* The cfg gives Pads and EvStreams the same model values: neither         *)
(* component tells its own apart, and they never run together.             *)
Symmetry == Permutations(PadCallers) \cup Permutations(Pads)

(* What a component may begin with, it begins with only where it runs. *)
FixedUnless(name, value, choices) == part = name \/ value = CHOOSE choice \in choices : TRUE

(* Up to renaming the only way three tasks have two owners. *)
HistOwners == [t \in HistTasks |-> histTasks[t].owner]

Init ==
  /\ part \in Parts
  /\ PadInit /\ QueryInit /\ EvInit /\ HistInit /\ OtInit /\ ObInit /\ JwInit /\ UpInit
  /\ FixedUnless("scratchpad", padLimit, [sessions : PadSessionLimits, tables : PadTableLimits])
  /\ FixedUnless("query", qHooks, [timeout : QueryTimeouts, token : BOOLEAN])
  /\ FixedUnless("events", <<evBackend, evTtl, evClock>>, {"memory", "sqlite"} \X EvTtls \X (0..EvMaxTime))
  /\ HistOwners = CHOOSE owners \in [HistTasks -> HistPrincipals] : Range(owners) = HistPrincipals
  /\ FixedUnless("observer", obOwner, [ObTasks -> ObPrincipals])

Next ==
  /\ UNCHANGED part
  /\ \/ /\ part = "scratchpad" /\ PadNext
        /\ UNCHANGED <<qVars, evVars, histVars, otVars, obVars, jwVars, upVars>>
     \/ /\ part = "query" /\ QueryNext
        /\ UNCHANGED <<padVars, evVars, histVars, otVars, obVars, jwVars, upVars>>
     \/ /\ part = "events" /\ EvNext
        /\ UNCHANGED <<padVars, qVars, histVars, otVars, obVars, jwVars, upVars>>
     \/ /\ part = "history" /\ HistNext
        /\ UNCHANGED <<padVars, qVars, evVars, otVars, obVars, jwVars, upVars>>
     \/ /\ part = "tokens" /\ OtNext
        /\ UNCHANGED <<padVars, qVars, evVars, histVars, obVars, jwVars, upVars>>
     \/ /\ part = "observer" /\ ObNext
        /\ UNCHANGED <<padVars, qVars, evVars, histVars, otVars, jwVars, upVars>>
     \/ /\ part = "jwks" /\ JwNext
        /\ UNCHANGED <<padVars, qVars, evVars, histVars, otVars, obVars, upVars>>
     \/ /\ part = "refresh" /\ UpNext
        /\ UNCHANGED <<padVars, qVars, evVars, histVars, otVars, obVars, jwVars>>

Spec == Init /\ [][Next]_vars

==============================================================================
