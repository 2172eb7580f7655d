-------------------------- MODULE ProcessSupervisor --------------------------
(***************************************************************************)
(* ProcessManager (crates/mcp-toolkit-process/src/supervisor.rs): spawns   *)
(* child processes, keeps each one registered until it is reaped, and has  *)
(* a detached supervisor task per child carry out cleanup: SIGTERM, a      *)
(* grace window, SIGKILL, and waiting until the child is reaped.           *)
(*                                                                         *)
(* The registry mutex, the watch channels (cancel, status), the calls into *)
(* the operating system and the awaits of the supervisors are separate     *)
(* steps.  How long a timer runs is left open.                             *)
(***************************************************************************)
EXTENDS Naturals, Sequences, FiniteSets

CONSTANTS Children,        \* manager-assigned process ids
          Unlocked,        \* nobody holds the registry mutex
          MaxWaitErrors    \* wait failures the OS produces per child (bound)

ASSUME ConstantsAssumption ==
  /\ Unlocked \notin Children
  /\ MaxWaitErrors \in Nat

VARIABLES
  manager,     \* a ProcessManager handle is alive
  lock,        \* holder of Inner::entries: the child being spawned, or Unlocked
  entries,     \* keys of Inner::entries
  handles,     \* children whose RunningProcess is held
  os,          \* the OS process: "none", "running", "zombie", "reaped"
  cancel,      \* the cancel channel holds a change the supervisor has not seen
  status,      \* the last ProcessStatus sent: "none", "Running", "PendingCleanup", "Exited"
  failures,    \* the supervisor's failures: a sequence of "term", "kill", "wait"
  pc,          \* the supervisor's next step
  errors,      \* wait failures so far
  signalled,   \* history: signals attempted, in order
  covered      \* history: children an earlier shutdown must have cancelled

vars == <<manager, lock, entries, handles, os, cancel, status, failures, pc,
          errors, signalled, covered>>

registry == <<manager, lock, entries, handles, covered>>

Places == {"none", "watch", "backoff", "term", "grace", "grace_backoff", "kill",
           "reap", "reap_backoff", "publish_exit", "retire", "done"}

Init ==
  /\ manager = TRUE /\ lock = Unlocked
  /\ entries = {} /\ handles = {} /\ covered = {}
  /\ os = [p \in Children |-> "none"]
  /\ cancel = [p \in Children |-> FALSE]
  /\ status = [p \in Children |-> "none"]
  /\ failures = [p \in Children |-> <<>>]
  /\ pc = [p \in Children |-> "none"]
  /\ errors = [p \in Children |-> 0]
  /\ signalled = [p \in Children |-> <<>>]

-----------------------------------------------------------------------------
(* spawn: the registry mutex is held from before the OS spawn until the    *)
(* entry is inserted                                                       *)

SpawnLocks(p) ==
  /\ manager /\ lock = Unlocked
  /\ os[p] = "none"
  /\ lock' = p
  /\ UNCHANGED <<manager, entries, handles, os, cancel, status, failures, pc, errors,
                 signalled, covered>>

(* resolve_scope or the OS refuses: nothing was created. *)
SpawnRefused(p) ==
  /\ lock = p /\ os[p] = "none"
  /\ lock' = Unlocked
  /\ UNCHANGED <<manager, entries, handles, os, cancel, status, failures, pc, errors,
                 signalled, covered>>

(* The child runs, its channels exist and its supervisor task is spawned. *)
SpawnStarts(p) ==
  /\ lock = p /\ os[p] = "none"
  /\ os' = [os EXCEPT ![p] = "running"]
  /\ status' = [status EXCEPT ![p] = "Running"]
  /\ pc' = [pc EXCEPT ![p] = "watch"]
  /\ UNCHANGED <<registry, cancel, failures, errors, signalled>>

(* A child whose terminal status has already arrived is not registered. *)
SpawnPublishes(p) ==
  /\ lock = p /\ os[p] # "none"
  /\ entries' = IF status[p] = "Exited" THEN entries ELSE entries \cup {p}
  /\ handles' = handles \cup {p}
  /\ lock' = Unlocked
  /\ UNCHANGED <<manager, os, cancel, status, failures, pc, errors, signalled, covered>>

-----------------------------------------------------------------------------
(* Requests for cleanup *)

(* Mutant: the snapshot does not wait for a spawn in progress. *)
ShutdownUnlocked ==
  /\ manager
  /\ cancel' = [p \in Children |-> cancel[p] \/ p \in entries]
  /\ covered' = covered \cup {p \in Children : os[p] \in {"running", "zombie"}}
  /\ UNCHANGED <<manager, lock, entries, handles, os, status, failures, pc, errors, signalled>>

(* Mutant: shutdown takes the entries with it. *)
ShutdownClears ==
  /\ manager /\ lock = Unlocked
  /\ cancel' = [p \in Children |-> cancel[p] \/ p \in entries]
  /\ covered' = covered \cup {p \in Children : os[p] \in {"running", "zombie"}}
  /\ entries' = {}
  /\ UNCHANGED <<manager, lock, handles, os, status, failures, pc, errors, signalled>>

(* shutdown: cancels every registered child under the mutex. *)
Shutdown ==
  /\ manager /\ lock = Unlocked
  /\ cancel' = [p \in Children |-> cancel[p] \/ p \in entries]
  /\ covered' = covered \cup {p \in Children : os[p] \in {"running", "zombie"}}
  /\ UNCHANGED <<manager, lock, entries, handles, os, status, failures, pc, errors, signalled>>

(* RunningProcess is dropped; RunningProcess::cancel does the same but for *)
(* keeping the handle.                                                     *)
HandleDrops(p) ==
  /\ p \in handles
  /\ handles' = handles \ {p}
  /\ cancel' = [cancel EXCEPT ![p] = TRUE]
  /\ UNCHANGED <<manager, lock, entries, os, status, failures, pc, errors, signalled, covered>>

HandleCancels(p) ==
  /\ p \in handles
  /\ cancel' = [cancel EXCEPT ![p] = TRUE]
  /\ UNCHANGED <<registry, os, status, failures, pc, errors, signalled>>

(* The last manager handle goes, and the registry with it; the supervisor  *)
(* tasks hold only a weak reference and run on.                            *)
ManagerDrops ==
  /\ manager /\ lock = Unlocked
  /\ manager' = FALSE
  /\ entries' = {}
  /\ UNCHANGED <<lock, handles, os, cancel, status, failures, pc, errors, signalled, covered>>

-----------------------------------------------------------------------------
(* The operating system *)

(* The child exits by itself, or because of the SIGTERM it received. *)
ProcessExits(p) ==
  /\ os[p] = "running"
  /\ os' = [os EXCEPT ![p] = "zombie"]
  /\ UNCHANGED <<registry, cancel, status, failures, pc, errors, signalled>>

-----------------------------------------------------------------------------
(* supervise *)

Goto(p, from, to) == pc[p] \in from /\ pc' = [pc EXCEPT ![p] = to]

(* Mutant: a child reaped within the grace window is killed all the same. *)
ReapThenKill(p) ==
  /\ \/ Goto(p, {"watch", "reap"}, "publish_exit")
     \/ Goto(p, {"grace"}, "kill")
  /\ os[p] = "zombie"
  /\ os' = [os EXCEPT ![p] = "reaped"]
  /\ UNCHANGED <<registry, cancel, status, failures, errors, signalled>>

(* Child::wait returns the exit status: the pid is free for reuse. *)
Reap(p) ==
  /\ Goto(p, {"watch", "grace", "reap"}, "publish_exit")
  /\ os[p] = "zombie"
  /\ os' = [os EXCEPT ![p] = "reaped"]
  /\ UNCHANGED <<registry, cancel, status, failures, errors, signalled>>

(* record_wait_failure keeps the last wait failure only. *)
RecordWait(fs) == Append(SelectSeq(fs, LAMBDA f : f # "wait"), "wait")

(* Child::wait fails; the child stays owned and is waited for again. *)
WaitFails(p) ==
  /\ errors[p] < MaxWaitErrors
  /\ \/ Goto(p, {"watch"}, "backoff")
     \/ Goto(p, {"grace"}, "grace_backoff")
     \/ Goto(p, {"reap"}, "reap_backoff")
  /\ errors' = [errors EXCEPT ![p] = @ + 1]
  /\ failures' = [failures EXCEPT ![p] = RecordWait(@)]
  /\ status' = [status EXCEPT ![p] = "PendingCleanup"]
  /\ UNCHANGED <<registry, os, cancel, signalled>>

BackoffEnds(p) ==
  /\ \/ Goto(p, {"backoff"}, "watch")
     \/ Goto(p, {"grace_backoff"}, "grace")
     \/ Goto(p, {"reap_backoff"}, "reap")
  /\ UNCHANGED <<registry, os, cancel, status, failures, errors, signalled>>

(* Mutant: a request that arrives during the backoff is taken for a retry. *)
SeesCancelAsRetry(p) ==
  /\ \/ Goto(p, {"watch"}, "term")
     \/ Goto(p, {"backoff"}, "watch")
  /\ cancel[p] \/ (p \notin entries \cup handles /\ lock # p)
  /\ cancel' = [cancel EXCEPT ![p] = FALSE]
  /\ UNCHANGED <<registry, os, status, failures, errors, signalled>>

(* cancel.changed() returns: a request, or no sender is left. *)
SeesCancel(p) ==
  /\ Goto(p, {"watch", "backoff"}, "term")
  /\ cancel[p] \/ (p \notin entries \cup handles /\ lock # p)
  /\ cancel' = [cancel EXCEPT ![p] = FALSE]
  /\ UNCHANGED <<registry, os, status, failures, errors, signalled>>

(* record_signal: a delivery that fails is recorded. *)
Signal(p, s, delivered) ==
  /\ signalled' = [signalled EXCEPT ![p] = Append(@, s)]
  /\ failures' = [failures EXCEPT ![p] = IF delivered THEN @ ELSE Append(@, s)]
  /\ status' = [status EXCEPT ![p] = "PendingCleanup"]

Terminate(p) ==
  /\ Goto(p, {"term"}, "grace")
  /\ \E delivered \in BOOLEAN : Signal(p, "term", delivered)
  /\ UNCHANGED <<registry, os, cancel, errors>>

(* The grace deadline passes: the biased select prefers it to the wait. *)
GraceEnds(p) ==
  /\ Goto(p, {"grace"}, "kill")
  /\ UNCHANGED <<registry, os, cancel, status, failures, errors, signalled>>

(* Mutant: a delivered SIGKILL counts as completion. *)
KillCompletes(p) ==
  /\ Goto(p, {"kill"}, "reap")
  /\ signalled' = [signalled EXCEPT ![p] = Append(@, "kill")]
  /\ status' = [status EXCEPT ![p] = "Exited"]
  /\ os' = [os EXCEPT ![p] = "zombie"]
  /\ UNCHANGED <<registry, cancel, failures, errors>>

(* SIGKILL to the group, or Child::start_kill for a direct child. *)
Kill(p) ==
  /\ Goto(p, {"kill"}, "reap")
  /\ \E delivered \in BOOLEAN :
       /\ Signal(p, "kill", delivered)
       /\ os' = [os EXCEPT ![p] = IF delivered THEN "zombie" ELSE @]
  /\ UNCHANGED <<registry, cancel, errors>>

(* Mutant: one exit path forgets retire_completed. *)
PublishExitOnly(p) ==
  /\ Goto(p, {"publish_exit"}, "done")
  /\ status' = [status EXCEPT ![p] = "Exited"]
  /\ UNCHANGED <<registry, os, cancel, failures, errors, signalled>>

PublishExit(p) ==
  /\ Goto(p, {"publish_exit"}, "retire")
  /\ status' = [status EXCEPT ![p] = "Exited"]
  /\ UNCHANGED <<registry, os, cancel, failures, errors, signalled>>

(* retire_completed takes the registry mutex. *)
Retire(p) ==
  /\ lock = Unlocked
  /\ Goto(p, {"retire"}, "done")
  /\ entries' = IF status[p] = "Exited" THEN entries \ {p} ELSE entries
  /\ UNCHANGED <<manager, lock, handles, os, cancel, status, failures, errors, signalled, covered>>

-----------------------------------------------------------------------------
SupervisorStep(p) ==
  \/ Reap(p) \/ WaitFails(p) \/ BackoffEnds(p) \/ SeesCancel(p) \/ Terminate(p)
  \/ GraceEnds(p) \/ Kill(p) \/ PublishExit(p) \/ Retire(p)

SpawnStep(p) == SpawnRefused(p) \/ SpawnStarts(p) \/ SpawnPublishes(p)

Next ==
  \/ \E p \in Children :
       \/ SpawnLocks(p) \/ SpawnStep(p)
       \/ HandleDrops(p) \/ HandleCancels(p)
       \/ ProcessExits(p) \/ SupervisorStep(p)
  \/ Shutdown \/ ManagerDrops

Spec == Init /\ [][Next]_vars

(* spawn is synchronous and finishes once it holds the mutex; the runtime  *)
(* polls every supervisor until it returns, and its timers fire.  Nothing  *)
(* is assumed of the child itself or of the callers.                       *)
FairSpec ==
  /\ Spec
  /\ \A p \in Children : WF_vars(SpawnStep(p)) /\ WF_vars(SupervisorStep(p)) /\ SF_vars(Retire(p))

-----------------------------------------------------------------------------
(* Properties *)

Live(p) == os[p] \in {"running", "zombie"}

(* How a child's phases go together: the supervisor's place says whether   *)
(* the child is reaped and whether Exited was published.                   *)
Phases ==
  /\ \A p \in Children :
       /\ pc[p] = "none" <=> os[p] = "none"
       /\ pc[p] \in {"publish_exit", "retire", "done"} <=> os[p] = "reaped"
       /\ pc[p] \in {"retire", "done"} <=> status[p] = "Exited"
  /\ \A p \in covered : os[p] # "none"

(* While a manager exists, every child that is not reaped is registered    *)
(* (or being registered under the mutex), so shutdown and status find it.  *)
UnreapedIsRegistered ==
  manager => \A p \in Children : Live(p) => p \in entries \/ lock = p

(* shutdown's snapshot cannot miss a child: whatever ran when it returned  *)
(* is reaped, in cleanup, or has the request waiting in its channel.       *)
ShutdownMissesNobody ==
  \A p \in covered : \/ cancel[p]
                     \/ pc[p] \notin {"watch", "backoff"}

(* The supervisor never signals a pid that wait has already given back to  *)
(* the operating system.                                                   *)
NoSignalAfterReap ==
  [][\A p \in Children : signalled'[p] # signalled[p] => Live(p)]_vars

(* Exited is completion: it is published for a reaped child only, and      *)
(* neither a late failure nor a late cancel overwrites it.                 *)
ExitedIsFinal ==
  [][\A p \in Children :
       /\ status'[p] = "Exited" => os[p] = "reaped"
       /\ status[p] = "Exited" => status'[p] = "Exited"]_vars

(* A completed child does not stay in the registry: the supervisor that    *)
(* finishes during its own spawn still retires the entry.                  *)
ExitedIsRetired ==
  \A p \in Children : (status[p] = "Exited" /\ p \in entries) ~> p \notin entries

(* A requested cleanup ends with the child reaped, even after the manager  *)
(* and the handle are gone, unless the OS refuses the SIGKILL.             *)
CleanupReaps ==
  \A p \in Children : cancel[p] ~> (os[p] = "reaped" \/ \E i \in DOMAIN failures[p] : failures[p][i] = "kill")

=============================================================================
