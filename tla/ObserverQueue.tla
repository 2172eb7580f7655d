---------------------------- MODULE ObserverQueue ----------------------------
(***************************************************************************)
(* The fair queues of TaskAuthority's observation loop                     *)
(* (crates/mcp-toolkit-tasks/src/authority.rs): observer_principals, and   *)
(* observer_tasks, a bucket of task ids for each principal.                *)
(*                                                                         *)
(* The loop scans under the state mutex, picks one due task, and reads it  *)
(* from RMCP after the unlock, when the shared read window lets it; only a *)
(* read moves the task and its principal to the back.  Clients bind tasks, *)
(* read them and evict them meanwhile.  An evicted id stays in its bucket  *)
(* until a scan meets it.  Whether a task is due is TaskObservation's      *)
(* subject; here tasks become due at any time.                             *)
(***************************************************************************)
EXTENDS Integers, Sequences, FiniteSets, SequencesExt, FiniteSetsExt, Functions, Retain

CONSTANTS ObPrincipals, ObTasks,
          NoTaskId

ASSUME ObAssumption == IsFiniteSet(ObPrincipals) /\ IsFiniteSet(ObTasks) /\ NoTaskId \notin ObTasks

VARIABLES
  obOwner,       \* a task's principal
  obFresh,       \* ids RMCP has not given out
  obBound,       \* keys of AuthorityState::bindings
  obPrincipals,  \* observer_principals
  obBuckets,     \* observer_tasks
  obDue,         \* bound tasks the next scan would pick
  obSelected,    \* the task the loop is about to read, or NoTaskId
  obPassedOver   \* history: reads of other tasks since a task fell due or was read

obVars == <<obOwner, obFresh, obBound, obPrincipals, obBuckets, obDue, obSelected, obPassedOver>>

ObInit ==
  /\ obOwner \in [ObTasks -> ObPrincipals]
  /\ obFresh = ObTasks /\ obBound = {} /\ obDue = {}
  /\ obPrincipals = <<>> /\ obBuckets = <<>>
  /\ obSelected = NoTaskId
  /\ obPassedOver = [t \in ObTasks |-> 0]

Bucket(p) == IF p \in DOMAIN obBuckets THEN obBuckets[p] ELSE <<>>
WithBucket(p, queue) == [q \in DOMAIN obBuckets \cup {p} |-> IF q = p THEN queue ELSE obBuckets[q]]

-----------------------------------------------------------------------------
(* Mutant: the bucket is looked at after the push. *)
BindChecksLate(t) ==
  /\ t \in obFresh
  /\ obFresh' = obFresh \ {t} /\ obBound' = obBound \cup {t}
  /\ obBuckets' = WithBucket(obOwner[t], Append(Bucket(obOwner[t]), t))
  /\ obPrincipals' = IF obBuckets'[obOwner[t]] = <<>> THEN Append(obPrincipals, obOwner[t]) ELSE obPrincipals
  /\ UNCHANGED <<obOwner, obDue, obSelected, obPassedOver>>

(* The end of a spawn: the task is queued and bound under one lock. *)
Bind(t) ==
  /\ t \in obFresh
  /\ obFresh' = obFresh \ {t} /\ obBound' = obBound \cup {t}
  /\ obBuckets' = WithBucket(obOwner[t], Append(Bucket(obOwner[t]), t))
  /\ obPrincipals' = IF Bucket(obOwner[t]) = <<>> THEN Append(obPrincipals, obOwner[t]) ELSE obPrincipals
  /\ UNCHANGED <<obOwner, obDue, obSelected, obPassedOver>>

(* A signal, or a deadline that passes. *)
FallsDue(t) ==
  /\ t \in obBound \ obDue
  /\ obDue' = obDue \cup {t}
  /\ obPassedOver' = [obPassedOver EXCEPT ![t] = 0]
  /\ UNCHANGED <<obOwner, obFresh, obBound, obPrincipals, obBuckets, obSelected>>

(* A client's own read observes the task. *)
ClientObserves(t) ==
  /\ t \in obDue
  /\ obDue' = obDue \ {t}
  /\ UNCHANGED <<obOwner, obFresh, obBound, obPrincipals, obBuckets, obSelected, obPassedOver>>

(* Or finds that RMCP has dropped it. *)
ClientEvicts(t) ==
  /\ t \in obBound
  /\ obBound' = obBound \ {t} /\ obDue' = obDue \ {t}
  /\ UNCHANGED <<obOwner, obFresh, obPrincipals, obBuckets, obSelected, obPassedOver>>

-----------------------------------------------------------------------------
(* Positions of the principals with a due task. *)
DueTurns == {i \in DOMAIN obPrincipals : ToSet(Bucket(obPrincipals[i])) \cap obDue # {}}

(* One pass over the queues, up to the first principal with a due task:    *)
(* evicted ids and the buckets they leave empty go, the principals that    *)
(* had nothing due go to the back, the one that had stays in front.        *)
Scan ==
  /\ obSelected = NoTaskId
  /\ LET turns   == IF DueTurns = {} THEN Len(obPrincipals) ELSE Min(DueTurns)
         visited == SubSeq(obPrincipals, 1, IF DueTurns = {} THEN turns ELSE turns - 1)
         inPass  == ToSet(SubSeq(obPrincipals, 1, turns))
         swept   == [p \in DOMAIN obBuckets |-> IF p \in inPass THEN Retain(obBuckets[p], obBound) ELSE obBuckets[p]]
         empty   == {p \in inPass \cap DOMAIN swept : swept[p] = <<>>}
         back    == Retain(visited, DOMAIN swept \ empty)
     IN  /\ obBuckets' = Restrict(swept, DOMAIN swept \ empty)
         /\ obPrincipals' = SubSeq(obPrincipals, Len(visited) + 1, Len(obPrincipals)) \o back
         /\ obSelected' = IF DueTurns = {} THEN NoTaskId
                          ELSE Retain(swept[obPrincipals[turns]], obDue)[1]
  /\ UNCHANGED <<obOwner, obFresh, obBound, obDue, obPassedOver>>

(* The read window is full: sleep, and scan again. *)
WindowFull ==
  /\ obSelected # NoTaskId
  /\ obSelected' = NoTaskId
  /\ UNCHANGED <<obOwner, obFresh, obBound, obPrincipals, obBuckets, obDue, obPassedOver>>

(* A client read the task a moment ago: its deadline moves, the queues do  *)
(* not.                                                                    *)
ReadCoalesced ==
  /\ obSelected # NoTaskId
  /\ obSelected' = NoTaskId
  /\ obDue' = obDue \ {obSelected}
  /\ UNCHANGED <<obOwner, obFresh, obBound, obPrincipals, obBuckets, obPassedOver>>

(* rotate_observer_task_to_back, rotate_observer_principal_to_back *)
ToBack(queue, x) == IF x \in ToSet(queue) THEN Append(Retain(queue, ToSet(queue) \ {x}), x) ELSE queue

(* Mutant: only the task is moved. *)
RotateTaskOnly(t) ==
  /\ obBuckets' = WithBucket(obOwner[t], ToBack(Bucket(obOwner[t]), t))
  /\ UNCHANGED obPrincipals

Rotate(t) ==
  /\ obBuckets' = WithBucket(obOwner[t], ToBack(Bucket(obOwner[t]), t))
  /\ obPrincipals' = ToBack(obPrincipals, obOwner[t])

(* The read: a signal that arrived meanwhile leaves the task due; a task   *)
(* RMCP no longer has is evicted.                                          *)
ReadSelected(found, signalled) ==
  /\ obSelected # NoTaskId
  /\ Rotate(obSelected)
  /\ obBound' = IF found THEN obBound ELSE obBound \ {obSelected}
  /\ obDue' = IF found /\ signalled THEN obDue ELSE obDue \ {obSelected}
  /\ obPassedOver' = [t \in ObTasks |-> IF t \in obDue' \ {obSelected} THEN obPassedOver[t] + 1 ELSE 0]
  /\ obSelected' = NoTaskId
  /\ UNCHANGED <<obOwner, obFresh>>

ObNext ==
  \/ \E t \in ObTasks : Bind(t) \/ FallsDue(t) \/ ClientObserves(t) \/ ClientEvicts(t)
  \/ Scan \/ WindowFull \/ ReadCoalesced
  \/ \E found, signalled \in BOOLEAN : ReadSelected(found, signalled)

ObSpec == ObInit /\ [][ObNext]_obVars

-----------------------------------------------------------------------------
(* Properties *)

(* The loop can lose no task: every bound task is in its owner's bucket,   *)
(* no id is in a bucket twice or in another's, and a principal is queued   *)
(* exactly once while its bucket has ids and not at all otherwise, however *)
(* scans, reads, bindings and evictions interleave.                        *)
ObserverSeesEveryTask ==
  /\ IsInjective(obPrincipals)
  /\ ToSet(obPrincipals) = {p \in DOMAIN obBuckets : obBuckets[p] # <<>>}
  /\ \A p \in DOMAIN obBuckets :
       IsInjective(obBuckets[p]) /\ \A t \in ToSet(obBuckets[p]) : obOwner[t] = p
  /\ \A t \in obBound : t \in ToSet(Bucket(obOwner[t]))

(* A due task is passed over a bounded number of times: by one task of     *)
(* each principal in turn for every place it has to advance in its own     *)
(* principal's bucket, and by no more, however busy other principals and   *)
(* their tasks are.                                                        *)
DueTaskIsNext ==
  \A t \in obDue :
    obPassedOver[t] < Cardinality({obOwner[u] : u \in ObTasks}) * Cardinality({u \in ObTasks : obOwner[u] = obOwner[t]})

==============================================================================
