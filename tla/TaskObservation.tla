--------------------------- MODULE TaskObservation ---------------------------
(***************************************************************************)
(* How TaskAuthority (crates/mcp-toolkit-tasks/src/authority.rs) turns the *)
(* snapshots RMCP returns for ONE bound task into local revisions, and how *)
(* wait() learns of them.                                                  *)
(*                                                                         *)
(* Four kinds of actors share the binding: the task's own operation, which *)
(* changes the RMCP record and hints; callers of get, update and cancel,   *)
(* which read RMCP directly (Readers); the observation loop; and callers   *)
(* of wait (Waiters).  A DetailedTask is abstracted to the position of the *)
(* RMCP state it shows: 1, 2, ... while the task runs, Terminal at the     *)
(* end, Gone once the record has expired.  Each mutex section and each     *)
(* call into RMCP is a step.  Closing is TaskAuthority's subject.          *)
(***************************************************************************)
EXTENDS Naturals

CONSTANTS Readers,      \* callers of get, update and cancel
          Waiters,      \* callers of wait, one wait each
          Conditions,   \* the TaskWaitConditions they wait for
          MaxVersion,   \* last non-terminal RMCP state (bounds the updates)
          HasTtl        \* TaskOptions::ttl_ms is set

ASSUME ConstantsAssumption ==
  /\ MaxVersion \in Nat \ {0}
  /\ HasTtl \in BOOLEAN
  /\ Conditions \subseteq {"terminal", "change"}

NoRevision == 0       \* after_revision is None
Gone     == 0
Terminal == MaxVersion + 1

VARIABLES
  rmcp,         \* the state of the RMCP record
  operation,    \* the task future: "running", "updated", "dropping", "dropped", "ended"
  observed,     \* ObservedTaskState::task
  revision,     \* ObservedTaskState::revision
  generation,   \* TaskSignal::generation
  settlement,   \* TaskSignal::settlement_pending
  leased,       \* the binding and its lease are in AuthorityState
  seen,         \* LeaseInfo::observed_signal_generation
  probe,        \* LeaseInfo::next_probe_at: "none", "armed" or already "due"
  permit,       \* the stored permit of observer_notify
  opc,          \* the observation loop's next step
  oloc,         \* its locals: selected generation, snapshot, reloaded generation, sleep deadline
  rpc, rloc,    \* next step of each reader; its signal_generation and snapshot
  wpc, wloc,    \* next step of each waiter; its condition, after_revision, target, baseline
  woken         \* the Notified future a waiter holds has been notified

vars == <<rmcp, operation, observed, revision, generation, settlement, leased,
          seen, probe, permit, opc, oloc, rpc, rloc, wpc, wloc, woken>>

binding == <<observed, revision>>
signal  == <<generation, settlement, permit>>
lease   == <<leased, seen, probe>>
obs     == <<opc, oloc>>
readers == <<rpc, rloc>>
waits   == <<wpc, wloc>>

OnSignal == {"loop_check", "loop_await"}    \* holds signal.waiters.notified()
Ended    == {"done", "failed", "timed_out"}
OnDone   == {"initial_check", "initial_await"}  \* holds observation_done.notified()

NoLocals == [sel |-> 0, snap |-> Gone, gen |-> 0, deadline |-> FALSE]
NoRead   == [gen |-> 0, snap |-> Gone]
NoWait   == [cond |-> "none", after |-> NoRevision, target |-> 0, baseline |-> 0]

Init ==
  /\ rmcp = 1 /\ operation = "running"
  /\ observed = 1 /\ revision = 1
  /\ generation = 0 /\ settlement = FALSE
  /\ leased = TRUE /\ seen = 0
  /\ probe = IF HasTtl THEN "armed" ELSE "none"
  /\ permit = TRUE
  /\ opc = "scan"
  /\ oloc = NoLocals
  /\ rpc = [r \in Readers |-> "idle"]
  /\ rloc = [r \in Readers |-> NoRead]
  /\ wpc = [w \in Waiters |-> "idle"]
  /\ wloc = [w \in Waiters |-> NoWait]
  /\ woken = [w \in Waiters |-> FALSE]

-----------------------------------------------------------------------------
(* Signals *)

(* Notify::notify_waiters reaches every Notified future that exists. *)
NotifyWaiters(places) ==
  woken' = [w \in Waiters |-> woken[w] \/ wpc[w] \in places]

(* TaskSignal::hint(false), and TaskBinding::hint when both are notified. *)
Hint(places) ==
  /\ generation' = generation + 1
  /\ permit' = TRUE
  /\ NotifyWaiters(places)

(* Mutant: a new revision wakes nobody. *)
ObserveSilently(snap) ==
  /\ observed' = snap
  /\ revision' = IF snap = observed THEN revision ELSE revision + 1
  /\ UNCHANGED woken

(* TaskBinding::observe: a different snapshot is a new revision. *)
Observe(snap) ==
  IF snap = observed
    THEN UNCHANGED <<observed, revision, woken>>
    ELSE /\ observed' = snap
         /\ revision' = revision + 1
         /\ NotifyWaiters(OnSignal)

(* What both coalescing checks ask beyond last_read_at being recent.       *)
(* Whether it is, is left open: a read may always be found too old.        *)
Clean == leased /\ seen = generation /\ ~settlement

ArmTtl == IF HasTtl THEN "armed" ELSE "none"

-----------------------------------------------------------------------------
(* The task's operation and RMCP *)

(* set_status_message, request_input: RMCP first, then the hint. *)
OperationUpdates ==
  /\ operation = "running" /\ rmcp \in 1..(MaxVersion - 1)
  /\ rmcp' = rmcp + 1
  /\ operation' = "updated"
  /\ UNCHANGED <<binding, signal, lease, obs, readers, waits, woken>>

OperationHints ==
  /\ operation = "updated"
  /\ operation' = "running"
  /\ Hint(OnSignal)
  /\ UNCHANGED <<rmcp, binding, settlement, lease, obs, readers, waits>>

(* NotifyOnDrop: the pending flag is stored before the generation moves. *)
OperationDrops ==
  /\ operation = "running"
  /\ operation' = "dropping"
  /\ settlement' = TRUE
  /\ UNCHANGED <<rmcp, binding, generation, permit, lease, obs, readers, waits, woken>>

OperationDropHints ==
  /\ operation = "dropping"
  /\ operation' = "dropped"
  /\ Hint(OnSignal)
  /\ UNCHANGED <<rmcp, binding, settlement, lease, obs, readers, waits>>

(* RMCP publishes the result after the future, and its hint, are gone. *)
RmcpSettles ==
  /\ operation = "dropped"
  /\ operation' = "ended"
  /\ rmcp' = IF rmcp = Gone THEN Gone ELSE Terminal
  /\ UNCHANGED <<binding, signal, lease, obs, readers, waits, woken>>

RmcpExpires ==
  /\ HasTtl /\ rmcp # Gone
  /\ rmcp' = Gone
  /\ UNCHANGED <<operation, binding, signal, lease, obs, readers, waits, woken>>

-----------------------------------------------------------------------------
(* Time *)

ProbeFallsDue ==
  /\ probe = "armed" /\ probe' = "due"
  /\ UNCHANGED <<rmcp, operation, binding, signal, leased, seen, obs, readers, waits, woken>>

-----------------------------------------------------------------------------
(* get_task_for_principal; update and cancel change the record first *)

RGoto(r, from, to) == rpc[r] = from /\ rpc' = [rpc EXCEPT ![r] = to]

(* update_task and cancel_task, then TaskBinding::hint. *)
ReaderUpdates(r) ==
  /\ leased /\ rmcp \in 1..(MaxVersion - 1)
  /\ RGoto(r, "idle", "hint")
  /\ rmcp' = rmcp + 1
  /\ UNCHANGED <<operation, binding, signal, lease, obs, rloc, waits, woken>>

ReaderHints(r) ==
  /\ RGoto(r, "hint", "generation")
  /\ Hint(OnSignal \cup OnDone)
  /\ UNCHANGED <<rmcp, operation, binding, settlement, lease, obs, rloc, waits>>

ReaderBegins(r) ==
  /\ leased
  /\ RGoto(r, "idle", "generation")
  /\ UNCHANGED <<rmcp, operation, binding, signal, lease, obs, rloc, waits, woken>>

ReaderLoadsGeneration(r) ==
  /\ RGoto(r, "generation", "read")
  /\ rloc' = [rloc EXCEPT ![r].gen = generation]
  /\ UNCHANGED <<rmcp, operation, binding, signal, lease, obs, waits, woken>>

ReaderReads(r) ==
  /\ RGoto(r, "read", IF rmcp = Gone THEN "remove" ELSE "observe")
  /\ rloc' = [rloc EXCEPT ![r].snap = rmcp]
  /\ UNCHANGED <<rmcp, operation, binding, signal, lease, obs, waits, woken>>

(* remove_binding hints only when the binding was still there. *)
ReaderRemoves(r) ==
  /\ RGoto(r, "remove", "idle")
  /\ leased' = FALSE
  /\ IF leased THEN Hint(OnSignal \cup OnDone) ELSE UNCHANGED <<generation, permit, woken>>
  /\ rloc' = [rloc EXCEPT ![r] = NoRead]
  /\ UNCHANGED <<rmcp, operation, binding, settlement, seen, probe, obs, waits>>

(* observe_or_close: TaskBinding::observe. *)
ReaderObserves(r) ==
  /\ RGoto(r, "observe", "lease")
  /\ Observe(rloc[r].snap)
  /\ UNCHANGED <<rmcp, operation, signal, lease, obs, rloc, waits>>

(* observe_or_close: the lease section and observation_done. *)
ReaderLeases(r) ==
  /\ RGoto(r, "lease", "idle")
  /\ NotifyWaiters(OnDone)
  /\ IF leased
       THEN /\ seen' = rloc[r].gen
            /\ settlement' = (settlement /\ rloc[r].snap # Terminal)
            /\ probe' = IF rloc[r].snap = Terminal THEN ArmTtl
                        ELSE IF settlement THEN "armed" ELSE probe
       ELSE UNCHANGED <<seen, settlement, probe>>
  /\ rloc' = [rloc EXCEPT ![r] = NoRead]
  /\ UNCHANGED <<rmcp, operation, binding, generation, permit, leased, obs, waits>>

-----------------------------------------------------------------------------
(* observation_loop *)

OGoto(from, to) == opc = from /\ opc' = to

Due ==
  /\ leased
  /\ \/ generation # seen
     \/ probe = "due"
     \/ settlement /\ probe \in {"none", "due"}

(* The Notified future is created before the scan, so a hint during the   *)
(* scan leaves a permit.                                                   *)
ObserverScans ==
  /\ OGoto("scan", IF Due THEN "slot" ELSE "sleep")
  /\ oloc' = IF Due THEN [oloc EXCEPT !.sel = generation]
                     ELSE [oloc EXCEPT !.deadline = leased /\ probe # "none"]
  /\ UNCHANGED <<rmcp, operation, binding, signal, lease, readers, waits, woken>>

(* A hint ends the sleep, or the deadline the scan computed. *)
ObserverWakes ==
  /\ OGoto("sleep", "scan")
  /\ \/ permit /\ permit' = FALSE
     \/ oloc.deadline /\ UNCHANGED permit
  /\ oloc' = NoLocals
  /\ UNCHANGED <<rmcp, operation, binding, generation, settlement, lease, readers, waits, woken>>

(* The aggregate read budget: with no free slot in the one-second window   *)
(* the loop sleeps until a slot is free and scans again.  The window holds *)
(* reads of other tasks too, so this task's loop may find it full.         *)
ObserverTakesSlot ==
  /\ OGoto("slot", "gate")
  /\ UNCHANGED <<rmcp, operation, binding, signal, lease, oloc, readers, waits, woken>>

ObserverDelays ==
  /\ OGoto("slot", "scan")
  /\ oloc' = NoLocals
  /\ UNCHANGED <<rmcp, operation, binding, signal, lease, readers, waits, woken>>

(* A recent read that nothing has invalidated stands for this one. *)
ObserverCoalesces ==
  /\ OGoto("gate", "scan")
  /\ Clean
  /\ probe' = ArmTtl
  /\ oloc' = NoLocals
  /\ UNCHANGED <<rmcp, operation, binding, signal, leased, seen, readers, waits, woken>>

ObserverReads ==
  /\ OGoto("gate", IF rmcp = Gone THEN "evict" ELSE "observe")
  /\ oloc' = [oloc EXCEPT !.snap = rmcp]
  /\ UNCHANGED <<rmcp, operation, binding, signal, lease, readers, waits, woken>>

ObserverEvicts ==
  /\ OGoto("evict", "scan")
  /\ leased' = FALSE
  /\ Hint(OnSignal \cup OnDone)
  /\ oloc' = NoLocals
  /\ UNCHANGED <<rmcp, operation, binding, settlement, seen, probe, readers, waits>>

ObserverObserves ==
  /\ OGoto("observe", "settle")
  /\ Observe(oloc.snap)
  /\ UNCHANGED <<rmcp, operation, signal, lease, oloc, readers, waits>>

(* Mutant: any observation discharges the settlement. *)
ObserverSettlesAlways ==
  /\ OGoto("settle", "lease")
  /\ oloc' = [oloc EXCEPT !.gen = generation]
  /\ settlement' = FALSE
  /\ UNCHANGED <<rmcp, operation, binding, generation, permit, lease, readers, waits, woken>>

ObserverSettles ==
  /\ OGoto("settle", "lease")
  /\ oloc' = [oloc EXCEPT !.gen = generation]
  /\ settlement' = (settlement /\ oloc.snap # Terminal)
  /\ UNCHANGED <<rmcp, operation, binding, generation, permit, lease, readers, waits, woken>>

(* Mutant: a hint that overtook the read counts as seen. *)
ObserverLeasesOvertaken ==
  /\ OGoto("lease", "scan")
  /\ NotifyWaiters(OnDone)
  /\ seen' = IF leased THEN oloc.gen ELSE seen
  /\ probe' = IF leased THEN ArmTtl ELSE probe
  /\ oloc' = NoLocals
  /\ UNCHANGED <<rmcp, operation, binding, signal, leased, readers, waits>>

(* Mutant: a clean observation leaves no TTL probe behind. *)
ObserverLeasesDisarming ==
  /\ OGoto("lease", "scan")
  /\ NotifyWaiters(OnDone)
  /\ seen' = IF leased /\ oloc.gen = oloc.sel THEN oloc.gen ELSE seen
  /\ probe' = IF ~leased THEN probe ELSE IF oloc.snap # Terminal /\ settlement THEN "armed" ELSE "none"
  /\ oloc' = NoLocals
  /\ UNCHANGED <<rmcp, operation, binding, signal, leased, readers, waits>>

(* Only a read no hint has overtaken counts as having seen the generation. *)
ObserverLeases ==
  /\ OGoto("lease", "scan")
  /\ NotifyWaiters(OnDone)
  /\ IF leased
       THEN /\ seen' = IF oloc.gen = oloc.sel THEN oloc.gen ELSE seen
            /\ probe' = IF oloc.snap # Terminal /\ settlement THEN "armed" ELSE ArmTtl
       ELSE UNCHANGED <<seen, probe>>
  /\ oloc' = NoLocals
  /\ UNCHANGED <<rmcp, operation, binding, signal, leased, readers, waits>>

-----------------------------------------------------------------------------
(* wait *)

WGoto(w, from, to) == wpc[w] = from /\ wpc' = [wpc EXCEPT ![w] = to]

(* The waiter's locals, which go out of scope when the wait ends. *)
WLocals(w, l) == wloc' = [wloc EXCEPT ![w] = IF wpc'[w] \in Ended THEN NoWait ELSE l]

(* wait_condition_ready on the current snapshot. *)
Ready(w, baseline) ==
  CASE wloc[w].cond = "terminal" -> observed = Terminal
    [] wloc[w].cond = "change"   -> revision > baseline

(* The Notified future a waiter creates before it looks at the state is    *)
(* woken[w]; it is dropped when the waiter stops awaiting it.              *)

(* binding_for and register_waiter have succeeded.  observe_wait_initial   *)
(* trusts a recent read that no hint has invalidated, or asks for one.     *)
WaitBegins(w, cond, after) ==
  /\ leased
  /\ \E place \in {"request"} \cup {p \in {"baseline"} : Clean} :
       WGoto(w, "idle", place)
  /\ wloc' = [wloc EXCEPT ![w].cond = cond, ![w].after = after]
  /\ UNCHANGED <<rmcp, operation, binding, signal, lease, obs, readers, woken>>

WaitRequests(w) ==
  /\ WGoto(w, "request", "initial_arm")
  /\ Hint(OnSignal)
  /\ wloc' = [wloc EXCEPT ![w].target = generation + 1]
  /\ UNCHANGED <<rmcp, operation, binding, settlement, lease, obs, readers>>

WaitArmsInitial(w) ==
  /\ WGoto(w, "initial_arm", "initial_check")
  /\ UNCHANGED <<rmcp, operation, binding, signal, lease, obs, readers, wloc, woken>>

(* wait_observation_snapshot; without a lease the wait fails. *)
WaitChecksInitial(w) ==
  /\ WGoto(w, "initial_check", IF ~leased THEN "failed"
                               ELSE IF seen >= wloc[w].target THEN "baseline"
                               ELSE "initial_await")
  /\ woken' = [woken EXCEPT ![w] = @ /\ wpc'[w] = "initial_await"]
  /\ WLocals(w, wloc[w])
  /\ UNCHANGED <<rmcp, operation, binding, signal, lease, obs, readers>>

WaitAwaitsInitial(w) ==
  /\ WGoto(w, "initial_await", "initial_arm")
  /\ woken[w]
  /\ woken' = [woken EXCEPT ![w] = FALSE]
  /\ UNCHANGED <<rmcp, operation, binding, signal, lease, obs, readers, wloc>>

(* The initial snapshot is the baseline when the caller named none, and    *)
(* may satisfy the wait at once.                                           *)
WaitSetsBaseline(w) ==
  LET base == IF wloc[w].after = NoRevision THEN revision ELSE wloc[w].after IN
  /\ WGoto(w, "baseline", IF Ready(w, base) THEN "done" ELSE "loop_arm")
  /\ WLocals(w, [wloc[w] EXCEPT !.baseline = base])
  /\ UNCHANGED <<rmcp, operation, binding, signal, lease, obs, readers, woken>>

WaitArms(w) ==
  /\ WGoto(w, "loop_arm", "loop_check")
  /\ UNCHANGED <<rmcp, operation, binding, signal, lease, obs, readers, wloc, woken>>

WaitChecks(w) ==
  /\ WGoto(w, "loop_check", IF Ready(w, wloc[w].baseline) THEN "done" ELSE "loop_await")
  /\ woken' = [woken EXCEPT ![w] = @ /\ wpc'[w] = "loop_await"]
  /\ WLocals(w, wloc[w])
  /\ UNCHANGED <<rmcp, operation, binding, signal, lease, obs, readers>>

WaitAwaits(w) ==
  /\ WGoto(w, "loop_await", "loop_arm")
  /\ woken[w]
  /\ woken' = [woken EXCEPT ![w] = FALSE]
  /\ UNCHANGED <<rmcp, operation, binding, signal, lease, obs, readers, wloc>>

(* tokio::time::timeout drops the wait wherever it is suspended. *)
WaitTimesOut(w) ==
  /\ wpc[w] \in {"initial_await", "loop_await"}
  /\ wpc' = [wpc EXCEPT ![w] = "timed_out"]
  /\ woken' = [woken EXCEPT ![w] = FALSE]
  /\ WLocals(w, wloc[w])
  /\ UNCHANGED <<rmcp, operation, binding, signal, lease, obs, readers>>

-----------------------------------------------------------------------------
OperationStep == OperationUpdates \/ OperationHints \/ OperationDrops \/ OperationDropHints
RmcpStep      == RmcpSettles \/ RmcpExpires
TimeStep      == ProbeFallsDue

ReaderStep(r) ==
  \/ ReaderHints(r) \/ ReaderLoadsGeneration(r) \/ ReaderReads(r)
  \/ ReaderRemoves(r) \/ ReaderObserves(r) \/ ReaderLeases(r)

ObserverStep ==
  \/ ObserverScans \/ ObserverWakes \/ ObserverTakesSlot \/ ObserverDelays
  \/ ObserverCoalesces \/ ObserverReads \/ ObserverEvicts
  \/ ObserverObserves \/ ObserverSettles \/ ObserverLeases

WaitStep(w) ==
  \/ WaitRequests(w) \/ WaitArmsInitial(w) \/ WaitChecksInitial(w) \/ WaitAwaitsInitial(w)
  \/ WaitSetsBaseline(w) \/ WaitArms(w) \/ WaitChecks(w) \/ WaitAwaits(w)

Next ==
  \/ OperationStep \/ RmcpStep \/ TimeStep \/ ObserverStep
  \/ \E r \in Readers : ReaderUpdates(r) \/ ReaderBegins(r) \/ ReaderStep(r)
  \/ \E w \in Waiters :
       \/ "terminal" \in Conditions /\ WaitBegins(w, "terminal", NoRevision)
       \/ "change" \in Conditions /\ \E after \in {NoRevision, 1} : WaitBegins(w, "change", after)
       \/ WaitStep(w) \/ WaitTimesOut(w)

Spec == Init /\ [][Next]_vars

(* Started calls and the spawned observation loop are polled by the Tokio *)
(* runtime until they finish, timers fire, and RMCP publishes the result  *)
(* of a future that has returned.  Nothing is assumed of the operation    *)
(* while it runs, of the expiry of records, of callers starting new calls *)
(* and of a wait's own timeout.                                            *)
Fairness ==
  /\ WF_vars(OperationHints) /\ WF_vars(OperationDropHints) /\ WF_vars(RmcpSettles)
  /\ WF_vars(ProbeFallsDue) /\ WF_vars(ObserverStep)
  /\ SF_vars(ObserverTakesSlot) /\ SF_vars(ObserverReads)
  /\ \A r \in Readers : WF_vars(ReaderStep(r))
  /\ \A w \in Waiters : WF_vars(WaitStep(w))

FairSpec == Spec /\ Fairness

-----------------------------------------------------------------------------
(* Properties *)

(* What the two coalescing checks rely on (observation_loop and            *)
(* observe_wait_initial skip the RMCP read): when no hint is newer than    *)
(* the lease's generation and no settlement is pending, the snapshot held  *)
(* is RMCP's, unless a change is between RMCP and its hint.                *)
CleanCacheIsCurrent ==
  (leased /\ rmcp # Gone /\ seen = generation /\ ~settlement /\ operation \in {"running", "ended"})
    => observed = rmcp

(* A settlement obligation is dropped only for a task RMCP has settled.    *)
SettlementDischargedByTerminal ==
  [][settlement /\ ~settlement' => rmcp \in {Terminal, Gone} /\ operation = "ended"]_vars

(* "race-safe wait-for-change": no revision made after the baseline is     *)
(* lost between the check of the snapshot and the await on the signal.     *)
ChangeWakesWaiter ==
  \A w \in Waiters :
    (wpc[w] \in {"loop_arm"} \cup OnSignal /\ wloc[w].cond = "change" /\ revision > wloc[w].baseline)
      ~> wpc[w] \in Ended

(* The settlement obligation of wait's contract: although the drop hint    *)
(* comes before RMCP publishes the result, a wait for the terminal state   *)
(* returns once it is published, unless the record expires first.          *)
TerminalWaitReturns ==
  \A w \in Waiters :
    (rmcp = Terminal /\ wloc[w].cond = "terminal") ~> (wpc[w] \in Ended \/ rmcp = Gone)

(* An expired record gives up its capacity lease although no caller asks   *)
(* for the task again: the TTL probe is never disarmed.                    *)
ExpiredIsForgotten == (rmcp = Gone) ~> ~leased

=============================================================================
