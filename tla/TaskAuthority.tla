---------------------------- MODULE TaskAuthority ----------------------------
(***************************************************************************)
(* TaskAuthority (crates/mcp-toolkit-tasks/src/authority.rs): binds RMCP   *)
(* tasks to the principal that spawned them, bounds the retained tasks and *)
(* the waiters, and closes irreversibly.                                   *)
(*                                                                         *)
(* Every caller is a thread.  A public method is a sequence of critical    *)
(* sections: the lifecycle mutex (closed), the state mutex (bindings,      *)
(* leases, reserved, waiters) and calls into RMCP's TaskManager (records)  *)
(* are separate steps that other callers interleave with.  The content of  *)
(* a task snapshot, its revision and the observer's schedule are the       *)
(* subject of TaskObservation and ObserverQueue; here an observation only  *)
(* tells whether RMCP still has the record.                                *)
(***************************************************************************)
EXTENDS Naturals, FiniteSets

CONSTANTS Callers,       \* threads that call the authority
          TaskIds,       \* task ids RMCP may hand out (bounds the spawns)
          Principals,    \* task principals
          NoPrincipal,   \* an id with no binding
          NoTask,        \* a caller that works on no task
          MaxRetained,   \* TaskAuthorityConfig::max_retained_tasks
          MaxWaiters     \* TaskAuthorityConfig::max_waiters

ASSUME ConstantsAssumption ==
  /\ IsFiniteSet(Callers)
  /\ NoPrincipal \notin Principals
  /\ NoTask \notin TaskIds
  /\ MaxRetained \in Nat \ {0}
  /\ MaxWaiters \in Nat \ {0}

VARIABLES
  closed,      \* AuthorityLifecycle::closed
  records,     \* task ids RMCP's TaskManager has a record of
  issued,      \* task ids RMCP has handed out; ids are never reused
  bindings,    \* AuthorityState::bindings: the principal bound to an id
  leases,      \* keys of AuthorityState::leases
  reserved,    \* AuthorityState::reserved_leases
  waiters,     \* AuthorityState::active_waiters
  observer,    \* where the observation loop stands: "off", "scan", "read", "evict", "stopped"
  probed,      \* the task the observation loop selected
  pc,          \* the next critical section of each caller
  op,          \* the public method each caller is in
  task,        \* the task id each caller works on
  prin,        \* the principal each caller acts for
  owner        \* history: the principal an id was spawned for

vars == <<closed, records, issued, bindings, leases, reserved, waiters,
          observer, probed, pc, op, task, prin, owner>>

local == <<pc, op, task, prin>>
state == <<bindings, leases, reserved, waiters>>
loop  == <<observer, probed>>

SpawnTail   == {"lease", "post_open", "initial_read", "initial_failed", "unlease", "publish"}
ClosePath   == {"close", "manager_shutdown", "drain"}
AccessPath  == {"mutate", "read", "register", "waiting", "unbind", "unbind_closed"}
Labels      == {"idle", "reserve", "spawn_open", "materialize", "lookup"}
                 \cup SpawnTail \cup ClosePath \cup AccessPath
Operations  == {"none", "spawn", "get", "update", "wait", "shutdown"}

Bound(t) == bindings[t] # NoPrincipal

Init ==
  /\ closed = FALSE
  /\ records = {} /\ issued = {}
  /\ bindings = [t \in TaskIds |-> NoPrincipal]
  /\ leases = {} /\ reserved = 0 /\ waiters = 0
  /\ observer = "off" /\ probed = NoTask
  /\ pc = [c \in Callers |-> "idle"]
  /\ op = [c \in Callers |-> "none"]
  /\ task = [c \in Callers |-> NoTask]
  /\ prin = [c \in Callers |-> NoPrincipal]
  /\ owner = [t \in TaskIds |-> NoPrincipal]

Goto(c, from, to) ==
  /\ pc[c] = from
  /\ pc' = [pc EXCEPT ![c] = to]

(* The call returns: its locals go out of scope. *)
Return(c) ==
  /\ pc' = [pc EXCEPT ![c] = "idle"]
  /\ op' = [op EXCEPT ![c] = "none"]
  /\ task' = [task EXCEPT ![c] = NoTask]
  /\ prin' = [prin EXCEPT ![c] = NoPrincipal]

(* Mutant: a plain subtraction. *)
PlainDec(n) == n - 1

SaturatingDec(n) == IF n = 0 THEN 0 ELSE n - 1

-----------------------------------------------------------------------------
(* spawn_for_principal *)

(* Bound of the model: a spawn starts only while an id is left for it. *)
IdsLeft ==
  Cardinality({c \in Callers : pc[c] \in {"reserve", "spawn_open", "materialize"}})
    < Cardinality(TaskIds \ issued)

(* The entry check and the one at the head of reserve_capacity: both only  *)
(* read the closed bit.                                                    *)
SpawnBegin(c, p) ==
  /\ pc[c] = "idle" /\ ~closed
  /\ IdsLeft
  /\ pc' = [pc EXCEPT ![c] = "reserve"]
  /\ op' = [op EXCEPT ![c] = "spawn"]
  /\ prin' = [prin EXCEPT ![c] = p]
  /\ UNCHANGED <<closed, records, issued, state, loop, task, owner>>

ReserveFull(c) ==
  /\ pc[c] = "reserve"
  /\ Cardinality(leases) + reserved >= MaxRetained
  /\ Return(c)
  /\ UNCHANGED <<closed, records, issued, state, loop, owner>>

(* Mutant: reservations of other spawns are not counted. *)
ReserveLeasesOnly(c) ==
  /\ Cardinality(leases) < MaxRetained
  /\ Goto(c, "reserve", "spawn_open")
  /\ reserved' = reserved + 1
  /\ UNCHANGED <<closed, records, issued, bindings, leases, waiters, loop,
                 op, task, prin, owner>>

Reserve(c) ==
  /\ Cardinality(leases) + reserved < MaxRetained
  /\ Goto(c, "reserve", "spawn_open")
  /\ reserved' = reserved + 1
  /\ UNCHANGED <<closed, records, issued, bindings, leases, waiters, loop,
                 op, task, prin, owner>>

(* The reservation is not given back when the authority closed meanwhile. *)
SpawnOpen(c) ==
  /\ \/ ~closed /\ Goto(c, "spawn_open", "materialize") /\ UNCHANGED <<op, task, prin>>
     \/ closed /\ pc[c] = "spawn_open" /\ Return(c)
  /\ UNCHANGED <<closed, records, issued, state, loop, owner>>

(* TaskManager::spawn hands out an id it never used and inserts a record. *)
Materialize(c, t) ==
  /\ t \notin issued
  /\ Goto(c, "materialize", "lease")
  /\ issued' = issued \cup {t}
  /\ records' = records \cup {t}
  /\ task' = [task EXCEPT ![c] = t]
  /\ owner' = [owner EXCEPT ![t] = prin[c]]
  /\ UNCHANGED <<closed, state, loop, op, prin>>

(* Mutant: the error is returned without force_close. *)
MaterializePanicIgnored(c, t) ==
  /\ t \notin issued /\ pc[c] = "materialize"
  /\ issued' = issued \cup {t}
  /\ records' \in {records, records \cup {t}}
  /\ Return(c)
  /\ UNCHANGED <<closed, state, loop, owner>>

(* TaskManager::spawn unwinds, before or after it inserted the record: the *)
(* authority closes.                                                       *)
MaterializePanics(c, t) ==
  /\ t \notin issued
  /\ Goto(c, "materialize", "close")
  /\ issued' = issued \cup {t}
  /\ records' \in {records, records \cup {t}}
  /\ UNCHANGED <<closed, state, loop, op, task, prin, owner>>

InsertLease(c) ==
  /\ Goto(c, "lease", "post_open")
  /\ reserved' = SaturatingDec(reserved)
  /\ leases' = leases \cup {task[c]}
  /\ UNCHANGED <<closed, records, issued, bindings, waiters, loop, op, task, prin, owner>>

(* Mutant: Closed is returned without draining RMCP again. *)
PostOpenReturns(c) ==
  /\ \/ closed /\ pc[c] = "post_open" /\ Return(c)
     \/ ~closed /\ Goto(c, "post_open", "initial_read") /\ UNCHANGED <<op, task, prin>>
  /\ UNCHANGED <<closed, records, issued, state, loop, owner>>

PostOpen(c) ==
  /\ Goto(c, "post_open", IF closed THEN "close" ELSE "initial_read")
  /\ UNCHANGED <<closed, records, issued, state, loop, op, task, prin, owner>>

InitialRead(c) ==
  /\ Goto(c, "initial_read", IF task[c] \in records THEN "publish" ELSE "initial_failed")
  /\ UNCHANGED <<closed, records, issued, state, loop, op, task, prin, owner>>

InitialFailed(c) ==
  /\ Goto(c, "initial_failed", IF closed THEN "close" ELSE "unlease")
  /\ UNCHANGED <<closed, records, issued, state, loop, op, task, prin, owner>>

Unlease(c) ==
  /\ pc[c] = "unlease"
  /\ leases' = leases \ {task[c]}
  /\ Return(c)
  /\ UNCHANGED <<closed, records, issued, bindings, reserved, waiters, loop, owner>>

(* Mutant: the lifecycle gate is not taken. *)
PublishUngated(c) ==
  /\ pc[c] = "publish"
  /\ bindings' = [bindings EXCEPT ![task[c]] = prin[c]]
  /\ observer' = IF observer = "off" THEN "scan" ELSE observer
  /\ Return(c)
  /\ UNCHANGED <<closed, records, issued, leases, reserved, waiters, probed, owner>>

(* Publication holds the lifecycle mutex over the state mutex, so no close *)
(* falls between the check and the insertion.                              *)
Publish(c) ==
  /\ pc[c] = "publish" /\ ~closed
  /\ ~Bound(task[c])
  /\ bindings' = [bindings EXCEPT ![task[c]] = prin[c]]
  /\ observer' = IF observer = "off" THEN "scan" ELSE observer
  /\ Return(c)
  /\ UNCHANGED <<closed, records, issued, leases, reserved, waiters, probed, owner>>

PublishRefused(c) ==
  /\ Goto(c, "publish", "close")
  /\ closed \/ Bound(task[c])
  /\ UNCHANGED <<closed, records, issued, state, loop, op, task, prin, owner>>

-----------------------------------------------------------------------------
(* close_and_drain: shutdown(), force_close() and the last handle's drop *)

ShutdownBegin(c) ==
  /\ pc[c] = "idle"
  /\ pc' = [pc EXCEPT ![c] = "close"]
  /\ op' = [op EXCEPT ![c] = "shutdown"]
  /\ UNCHANGED <<closed, records, issued, state, loop, task, prin, owner>>

(* Mutant: the state is drained without RMCP's shutdown. *)
SetClosedOnly(c) ==
  /\ Goto(c, "close", "drain")
  /\ closed' = TRUE
  /\ UNCHANGED <<records, issued, state, loop, op, task, prin, owner>>

SetClosed(c) ==
  /\ Goto(c, "close", "manager_shutdown")
  /\ closed' = TRUE
  /\ UNCHANGED <<records, issued, state, loop, op, task, prin, owner>>

(* RMCP's shutdown empties the manager, which stays usable afterwards. *)
ManagerShutdown(c) ==
  /\ Goto(c, "manager_shutdown", "drain")
  /\ records' = {}
  /\ UNCHANGED <<closed, issued, state, loop, op, task, prin, owner>>

(* Mutant: the drained authority is usable again, as RMCP's manager is. *)
DrainReopens(c) ==
  /\ pc[c] = "drain"
  /\ closed' = FALSE
  /\ bindings' = [t \in TaskIds |-> NoPrincipal]
  /\ leases' = {} /\ reserved' = 0 /\ waiters' = 0
  /\ Return(c)
  /\ UNCHANGED <<records, issued, loop, owner>>

Drain(c) ==
  /\ pc[c] = "drain"
  /\ bindings' = [t \in TaskIds |-> NoPrincipal]
  /\ leases' = {} /\ reserved' = 0 /\ waiters' = 0
  /\ Return(c)
  /\ UNCHANGED <<closed, records, issued, loop, owner>>

-----------------------------------------------------------------------------
(* get, update, cancel (an update here) and wait *)

AccessBegin(c, o, p, t) ==
  /\ pc[c] = "idle" /\ ~closed
  /\ pc' = [pc EXCEPT ![c] = "lookup"]
  /\ op' = [op EXCEPT ![c] = o]
  /\ prin' = [prin EXCEPT ![c] = p]
  /\ task' = [task EXCEPT ![c] = t]
  /\ UNCHANGED <<closed, records, issued, state, loop, owner>>

(* binding_for: absence and another principal's binding look the same. *)
LookupDenied(c) ==
  /\ pc[c] = "lookup"
  /\ bindings[task[c]] # prin[c]
  /\ Return(c)
  /\ UNCHANGED <<closed, records, issued, state, loop, owner>>

(* Mutant: any binding grants access. *)
LookupAnyPrincipal(c) ==
  /\ pc[c] = "lookup" /\ Bound(task[c])
  /\ Goto(c, "lookup", "read")
  /\ UNCHANGED <<closed, records, issued, state, loop, op, task, prin, owner>>

LookupGranted(c) ==
  /\ pc[c] = "lookup" /\ bindings[task[c]] = prin[c]
  /\ Goto(c, "lookup", CASE op[c] = "get" -> "read"
                         [] op[c] = "update" -> "mutate"
                         [] op[c] = "wait" -> "register")
  /\ UNCHANGED <<closed, records, issued, state, loop, op, task, prin, owner>>

(* TaskManager::update_task or cancel_task. *)
Mutate(c) ==
  /\ Goto(c, "mutate", IF task[c] \in records THEN "read" ELSE "unbind")
  /\ UNCHANGED <<closed, records, issued, state, loop, op, task, prin, owner>>

(* TaskManager::get_task; a record found is observed and the call returns. *)
Read(c) ==
  /\ \/ task[c] \in records /\ pc[c] = "read" /\ Return(c)
     \/ task[c] \notin records /\ Goto(c, "read", "unbind") /\ UNCHANGED <<op, task, prin>>
  /\ UNCHANGED <<closed, records, issued, state, loop, owner>>

(* Mutant: the lease goes, the binding stays. *)
RemoveLeaseOnly(c) ==
  /\ Goto(c, "unbind", "unbind_closed")
  /\ leases' = leases \ {task[c]}
  /\ UNCHANGED <<closed, records, issued, bindings, reserved, waiters, loop, op, task, prin, owner>>

RemoveBinding(c) ==
  /\ Goto(c, "unbind", "unbind_closed")
  /\ leases' = leases \ {task[c]}
  /\ bindings' = [bindings EXCEPT ![task[c]] = NoPrincipal]
  /\ UNCHANGED <<closed, records, issued, reserved, waiters, loop, op, task, prin, owner>>

(* The error returned is Closed or TaskNotFound. *)
UnbindReturns(c) ==
  /\ pc[c] = "unbind_closed"
  /\ Return(c)
  /\ UNCHANGED <<closed, records, issued, state, loop, owner>>

(* register_waiter does not look at the closed bit again. *)
RegisterRejected(c) ==
  /\ pc[c] = "register"
  /\ waiters >= MaxWaiters
  /\ Return(c)
  /\ UNCHANGED <<closed, records, issued, state, loop, owner>>

RegisterWaiter(c) ==
  /\ waiters < MaxWaiters
  /\ Goto(c, "register", "waiting")
  /\ waiters' = waiters + 1
  /\ UNCHANGED <<closed, records, issued, bindings, leases, reserved, loop,
                 op, task, prin, owner>>

(* Mutant: the WaiterLease is leaked. *)
WaitEndsLeaking(c) ==
  /\ pc[c] = "waiting"
  /\ Return(c)
  /\ UNCHANGED <<closed, records, issued, state, loop, owner>>

(* The wait is satisfied, fails or times out, and drops its WaiterLease. *)
WaitEnds(c) ==
  /\ pc[c] = "waiting"
  /\ waiters' = SaturatingDec(waiters)
  /\ Return(c)
  /\ UNCHANGED <<closed, records, issued, bindings, leases, reserved, loop, owner>>

-----------------------------------------------------------------------------
(* observation_loop, as far as it changes the registry *)

ObserverScan ==
  /\ observer = "scan"
  /\ \/ closed /\ observer' = "stopped" /\ UNCHANGED probed
     \/ ~closed /\ \E t \in TaskIds : Bound(t) /\ probed' = t /\ observer' = "read"
  /\ UNCHANGED <<closed, records, issued, state, local, owner>>

ObserverRead ==
  /\ observer = "read"
  /\ IF probed \in records
       THEN observer' = "scan" /\ probed' = NoTask
       ELSE observer' = "evict" /\ UNCHANGED probed
  /\ UNCHANGED <<closed, records, issued, state, local, owner>>

ObserverEvict ==
  /\ observer = "evict"
  /\ bindings' = [bindings EXCEPT ![probed] = NoPrincipal]
  /\ leases' = leases \ {probed}
  /\ observer' = "scan" /\ probed' = NoTask
  /\ UNCHANGED <<closed, records, issued, reserved, waiters, local, owner>>

(* RMCP drops a record whose TTL has passed. *)
RecordExpires(t) ==
  /\ t \in records
  /\ records' = records \ {t}
  /\ UNCHANGED <<closed, issued, state, loop, local, owner>>

-----------------------------------------------------------------------------
(* One step of a call that is under way. *)
CallStep(c) ==
  \/ ReserveFull(c) \/ Reserve(c) \/ SpawnOpen(c)
  \/ \E t \in TaskIds : Materialize(c, t) \/ MaterializePanics(c, t)
  \/ InsertLease(c) \/ PostOpen(c) \/ InitialRead(c) \/ InitialFailed(c)
  \/ Unlease(c) \/ Publish(c) \/ PublishRefused(c)
  \/ SetClosed(c) \/ ManagerShutdown(c) \/ Drain(c)
  \/ LookupDenied(c) \/ LookupGranted(c) \/ Mutate(c) \/ Read(c)
  \/ RemoveBinding(c) \/ UnbindReturns(c)
  \/ RegisterRejected(c) \/ RegisterWaiter(c) \/ WaitEnds(c)

CallBegin(c) ==
  \/ \E p \in Principals : SpawnBegin(c, p)
  \/ ShutdownBegin(c)
  \/ \E o \in {"get", "update", "wait"}, p \in Principals, t \in TaskIds :
        AccessBegin(c, o, p, t)

ObserverStep == ObserverScan \/ ObserverRead \/ ObserverEvict

Next ==
  \/ \E c \in Callers : CallBegin(c) \/ CallStep(c)
  \/ ObserverStep
  \/ \E t \in TaskIds : RecordExpires(t)

Spec == Init /\ [][Next]_vars

(* A call that has begun keeps running: no critical section blocks on      *)
(* another caller, and a wait ends at its timeout at the latest.           *)
FairSpec == Spec /\ \A c \in Callers : WF_vars(CallStep(c)) /\ WF_vars(ObserverStep)

-----------------------------------------------------------------------------
(* Properties *)

(* Every variable keeps its type. *)
TypeOK ==
  /\ closed \in BOOLEAN
  /\ records \subseteq issued /\ issued \subseteq TaskIds
  /\ bindings \in [TaskIds -> Principals \cup {NoPrincipal}]
  /\ leases \subseteq issued
  /\ reserved \in Nat /\ waiters \in Nat
  /\ observer \in {"off", "scan", "read", "evict", "stopped"}
  /\ probed \in TaskIds \cup {NoTask}
  /\ observer \in {"read", "evict"} => probed \in TaskIds
  /\ pc \in [Callers -> Labels]
  /\ op \in [Callers -> Operations]
  /\ task \in [Callers -> TaskIds \cup {NoTask}]
  /\ prin \in [Callers -> Principals \cup {NoPrincipal}]
  /\ owner \in [TaskIds -> Principals \cup {NoPrincipal}]

(* Cross-principal access fails closed: a caller past binding_for, which    *)
(* may read, mutate or wait on the task long after the lookup released the *)
(* state mutex, acts for the principal the task was spawned for.           *)
AccessByOwner ==
  \A c \in Callers : pc[c] \in AccessPath => owner[task[c]] = prin[c]

(* spawn_for_principal leaves no task running that nobody can reach: while *)
(* the authority is open, a record RMCP keeps is bound, or its spawn is    *)
(* still on the way to publication, or a caller is about to close.         *)
NoOrphanRecord ==
  ~closed => \A t \in records :
    \/ Bound(t)
    \/ \E c \in Callers : task[c] = t /\ pc[c] \in {"lease", "post_open", "initial_read", "publish"}
    \/ \E c \in Callers : pc[c] = "close"

(* max_retained_tasks bounds the records RMCP keeps, not only the leases:  *)
(* the reservation covers the interval between reserve_capacity and the    *)
(* lease, in every interleaving of concurrent spawns.                      *)
RecordsWithinCapacity ==
  ~closed => /\ Cardinality(records) <= MaxRetained
             /\ Cardinality(leases) + reserved <= MaxRetained

(* A bound task has its lease, so a waiter that finds no lease in          *)
(* wait_observation_snapshot may conclude that the binding is gone.        *)
BoundHasLease == \A t \in TaskIds : Bound(t) => t \in leases

(* The waiter counter is exact while the authority is open, so admission   *)
(* is refused exactly at max_waiters live waits.                           *)
WaitersCounted ==
  ~closed => /\ waiters = Cardinality({c \in Callers : pc[c] = "waiting"})
             /\ waiters <= MaxWaiters

(* Shutdown is complete although RMCP's manager accepts spawns after its   *)
(* own shutdown: once the authority is closed and every spawn and close    *)
(* that was under way has returned, no record, binding or lease is left.   *)
ShutdownDrains ==
  (closed /\ \A c \in Callers : pc[c] \notin SpawnTail \cup ClosePath) =>
    records = {} /\ leases = {} /\ \A t \in TaskIds : ~Bound(t)

(* remove_binding, the observer and the drain never take the binding of a  *)
(* task that RMCP still has: no live task loses its owner.                 *)
UnboundOnlyWithoutRecord ==
  [][\A t \in TaskIds : Bound(t) /\ ~Bound(t)' => t \notin records]_vars

(* The separate critical sections implement the atomic registry; the close *)
(* takes effect when the closed bit is set, before the drain.              *)
Registry == INSTANCE TaskRegistry
  WITH open <- ~closed,
       bound <- IF closed THEN [t \in TaskIds |-> NoPrincipal] ELSE bindings

(* Spawn, removal and shutdown are linearizable: see TaskRegistry. *)
ImplementsRegistry == Registry!Spec

(* A shutdown that has begun empties the manager and the registry for      *)
(* good, whatever spawns were in flight.                                   *)
ShutdownCompletes ==
  closed ~> [](records = {} /\ leases = {} /\ \A t \in TaskIds : ~Bound(t))

-----------------------------------------------------------------------------
(* The inductive invariant behind the theorems of TaskAuthorityProofs *)

SpawnHead == {"reserve", "spawn_open", "materialize"}

(* What a caller's locals are at each step of its call. *)
CallsWellFormed ==
  \A c \in Callers :
    /\ pc[c] \in SpawnHead => prin[c] \in Principals
    /\ pc[c] = "lookup" => /\ task[c] \in TaskIds /\ prin[c] \in Principals
                           /\ op[c] \in {"get", "update", "wait"}
    /\ pc[c] \in SpawnTail \cup AccessPath =>
         task[c] \in issued /\ prin[c] \in Principals /\ owner[task[c]] = prin[c]

(* An id is bound to the principal it was spawned for. *)
BoundByOwner == \A t \in TaskIds : Bound(t) => t \in issued /\ bindings[t] = owner[t]

(* Until it is published, a spawned id is known to its spawn alone. *)
SpawnPrivate ==
  \A c \in Callers : pc[c] \in SpawnTail =>
    /\ ~Bound(task[c])
    /\ \A d \in Callers \ {c} : pc[d] \in SpawnTail \cup AccessPath => task[d] # task[c]
    /\ probed # task[c]

(* A spawn past InsertLease holds its lease, until a drain takes it. *)
SpawnLeased ==
  ~closed => \A c \in Callers : pc[c] \in SpawnTail \ {"lease"} => task[c] \in leases

(* A probed id was handed out; a drain runs only in a closed authority. *)
LoopAndCloseOrder ==
  /\ probed # NoTask => probed \in issued
  /\ \A c \in Callers : pc[c] \in {"manager_shutdown", "drain"} => closed

(* Whoever is about to remove a binding or a lease has seen the record     *)
(* gone, and ids are not reused.                                           *)
RemovalJustified ==
  /\ \A c \in Callers :
       pc[c] \in {"unbind", "initial_failed", "unlease"} => task[c] \notin records
  /\ observer = "evict" => probed \notin records
  /\ (\E c \in Callers : pc[c] = "drain") => \A t \in records : ~Bound(t)

(* In a closed authority, whatever is left has a caller that will drain it. *)
DrainPending ==
  closed =>
    /\ \A t \in records :
         \/ \E c \in Callers : pc[c] \in {"close", "manager_shutdown"}
         \/ \E c \in Callers : task[c] = t /\ pc[c] \in {"lease", "post_open"}
    /\ (\E t \in TaskIds : Bound(t)) => \E c \in Callers : pc[c] \in ClosePath
    /\ leases # {} => \E c \in Callers : pc[c] \in ClosePath \cup {"post_open"}

=============================================================================
