----------------------- MODULE ProcessSupervisorProofs -----------------------
(***************************************************************************)
(* Theorems about ProcessSupervisor, for any number of children and of     *)
(* wait failures.                                                          *)
(***************************************************************************)
EXTENDS ProcessSupervisor, TLAPS

(* The types the proofs use: the failure records play no role. *)
Types ==
  /\ manager \in BOOLEAN /\ lock \in Children \cup {Unlocked}
  /\ os \in [Children -> {"none", "running", "zombie", "reaped"}]
  /\ cancel \in [Children -> BOOLEAN]
  /\ status \in [Children -> {"none", "Running", "PendingCleanup", "Exited"}]
  /\ pc \in [Children -> Places]
  /\ signalled \in [Children -> Seq({"term", "kill"})]
  /\ covered \subseteq Children

Registered == Types /\ Phases /\ UnreapedIsRegistered /\ ShutdownMissesNobody

USE DEF Places, Live, registry

(* Nothing is spawned in the initial state. *)
LEMMA RegisteredInit == Init => Registered
<1> SUFFICES ASSUME Init PROVE Registered
  OBVIOUS
<1>1. Types
  BY DEF Init, Types
<1>2. Phases /\ UnreapedIsRegistered /\ ShutdownMissesNobody
  BY DEF Init, Phases, UnreapedIsRegistered, ShutdownMissesNobody
<1> QED
  BY <1>1, <1>2 DEF Registered

(* Every step keeps the types. *)
LEMMA TypesStep == Types /\ [Next]_vars => Types'
<1> USE ConstantsAssumption
<1> SUFFICES ASSUME Types, [Next]_vars PROVE Types'
  OBVIOUS
<1> USE DEF Types, Goto
<1>1. ASSUME NEW p \in Children, SpawnLocks(p) PROVE Types'
  BY <1>1 DEF SpawnLocks
<1>2. ASSUME NEW p \in Children, SpawnRefused(p) PROVE Types'
  BY <1>2 DEF SpawnRefused
<1>3. ASSUME NEW p \in Children, SpawnStarts(p) PROVE Types'
  BY <1>3 DEF SpawnStarts
<1>4. ASSUME NEW p \in Children, SpawnPublishes(p) PROVE Types'
  BY <1>4 DEF SpawnPublishes
<1>5. ASSUME NEW p \in Children, HandleDrops(p) PROVE Types'
  BY <1>5 DEF HandleDrops
<1>6. ASSUME NEW p \in Children, HandleCancels(p) PROVE Types'
  BY <1>6 DEF HandleCancels
<1>7. ASSUME NEW p \in Children, ProcessExits(p) PROVE Types'
  BY <1>7 DEF ProcessExits
<1>8. ASSUME NEW p \in Children, Reap(p) PROVE Types'
  BY <1>8 DEF Reap
<1>9. ASSUME NEW p \in Children, WaitFails(p) PROVE Types'
  BY <1>9 DEF WaitFails
<1>10. ASSUME NEW p \in Children, BackoffEnds(p) PROVE Types'
  BY <1>10 DEF BackoffEnds
<1>11. ASSUME NEW p \in Children, SeesCancel(p) PROVE Types'
  BY <1>11 DEF SeesCancel
<1>12. ASSUME NEW p \in Children, Terminate(p) PROVE Types'
  BY <1>12 DEF Terminate, Signal
<1>13. ASSUME NEW p \in Children, GraceEnds(p) PROVE Types'
  BY <1>13 DEF GraceEnds
<1>14. ASSUME NEW p \in Children, Kill(p) PROVE Types'
  BY <1>14 DEF Kill, Signal
<1>15. ASSUME NEW p \in Children, PublishExit(p) PROVE Types'
  BY <1>15 DEF PublishExit
<1>16. ASSUME NEW p \in Children, Retire(p) PROVE Types'
  BY <1>16 DEF Retire
<1>17. CASE Shutdown
  BY <1>17 DEF Shutdown
<1>18. CASE ManagerDrops
  BY <1>18 DEF ManagerDrops
<1>19. CASE UNCHANGED vars
  BY <1>19 DEF vars
<1> QED
  BY <1>1, <1>2, <1>3, <1>4, <1>5, <1>6, <1>7, <1>8, <1>9,
     <1>10, <1>11, <1>12, <1>13, <1>14, <1>15, <1>16, <1>17, <1>18, <1>19
  DEF Next, SpawnStep, SupervisorStep

(* Every step keeps the supervisor's place in line with the child's state. *)
LEMMA PhasesStep == Types /\ Phases /\ [Next]_vars => Phases'
<1> USE ConstantsAssumption
<1> SUFFICES ASSUME Types, Phases, [Next]_vars PROVE Phases'
  OBVIOUS
<1> USE DEF Types, Phases, Goto
<1>1. ASSUME NEW p \in Children, SpawnLocks(p) PROVE Phases'
  BY <1>1 DEF SpawnLocks
<1>2. ASSUME NEW p \in Children, SpawnRefused(p) PROVE Phases'
  BY <1>2 DEF SpawnRefused
<1>3. ASSUME NEW p \in Children, SpawnStarts(p) PROVE Phases'
  BY <1>3 DEF SpawnStarts
<1>4. ASSUME NEW p \in Children, SpawnPublishes(p) PROVE Phases'
  BY <1>4 DEF SpawnPublishes
<1>5. ASSUME NEW p \in Children, HandleDrops(p) PROVE Phases'
  BY <1>5 DEF HandleDrops
<1>6. ASSUME NEW p \in Children, HandleCancels(p) PROVE Phases'
  BY <1>6 DEF HandleCancels
<1>7. ASSUME NEW p \in Children, ProcessExits(p) PROVE Phases'
  BY <1>7 DEF ProcessExits
<1>8. ASSUME NEW p \in Children, Reap(p) PROVE Phases'
  BY <1>8 DEF Reap
<1>9. ASSUME NEW p \in Children, WaitFails(p) PROVE Phases'
  BY <1>9 DEF WaitFails
<1>10. ASSUME NEW p \in Children, BackoffEnds(p) PROVE Phases'
  BY <1>10 DEF BackoffEnds
<1>11. ASSUME NEW p \in Children, SeesCancel(p) PROVE Phases'
  BY <1>11 DEF SeesCancel
<1>12. ASSUME NEW p \in Children, Terminate(p) PROVE Phases'
  BY <1>12 DEF Terminate, Signal
<1>13. ASSUME NEW p \in Children, GraceEnds(p) PROVE Phases'
  BY <1>13 DEF GraceEnds
<1>14. ASSUME NEW p \in Children, Kill(p) PROVE Phases'
  BY <1>14 DEF Kill, Signal
<1>15. ASSUME NEW p \in Children, PublishExit(p) PROVE Phases'
  BY <1>15 DEF PublishExit
<1>16. ASSUME NEW p \in Children, Retire(p) PROVE Phases'
  BY <1>16 DEF Retire
<1>17. CASE Shutdown
  BY <1>17 DEF Shutdown
<1>18. CASE ManagerDrops
  BY <1>18 DEF ManagerDrops
<1>19. CASE UNCHANGED vars
  BY <1>19 DEF vars
<1> QED
  BY <1>1, <1>2, <1>3, <1>4, <1>5, <1>6, <1>7, <1>8, <1>9,
     <1>10, <1>11, <1>12, <1>13, <1>14, <1>15, <1>16, <1>17, <1>18, <1>19
  DEF Next, SpawnStep, SupervisorStep

(* A live child leaves neither the registry nor the spawn that holds the   *)
(* mutex.                                                                  *)
LEMMA RegistryStep == Types /\ Phases /\ UnreapedIsRegistered /\ [Next]_vars => UnreapedIsRegistered'
<1> USE ConstantsAssumption
<1> SUFFICES ASSUME Types, Phases, UnreapedIsRegistered, [Next]_vars PROVE UnreapedIsRegistered'
  OBVIOUS
<1> USE DEF Types, Phases, UnreapedIsRegistered, Goto
<1>1. ASSUME NEW p \in Children, SpawnLocks(p) PROVE UnreapedIsRegistered'
  BY <1>1 DEF SpawnLocks
<1>2. ASSUME NEW p \in Children, SpawnRefused(p) PROVE UnreapedIsRegistered'
  BY <1>2 DEF SpawnRefused
<1>3. ASSUME NEW p \in Children, SpawnStarts(p) PROVE UnreapedIsRegistered'
  BY <1>3 DEF SpawnStarts
<1>4. ASSUME NEW p \in Children, SpawnPublishes(p) PROVE UnreapedIsRegistered'
  BY <1>4 DEF SpawnPublishes
<1>5. ASSUME NEW p \in Children, HandleDrops(p) PROVE UnreapedIsRegistered'
  BY <1>5 DEF HandleDrops
<1>6. ASSUME NEW p \in Children, HandleCancels(p) PROVE UnreapedIsRegistered'
  BY <1>6 DEF HandleCancels
<1>7. ASSUME NEW p \in Children, ProcessExits(p) PROVE UnreapedIsRegistered'
  BY <1>7 DEF ProcessExits
<1>8. ASSUME NEW p \in Children, Reap(p) PROVE UnreapedIsRegistered'
  BY <1>8 DEF Reap
<1>9. ASSUME NEW p \in Children, WaitFails(p) PROVE UnreapedIsRegistered'
  BY <1>9 DEF WaitFails
<1>10. ASSUME NEW p \in Children, BackoffEnds(p) PROVE UnreapedIsRegistered'
  BY <1>10 DEF BackoffEnds
<1>11. ASSUME NEW p \in Children, SeesCancel(p) PROVE UnreapedIsRegistered'
  BY <1>11 DEF SeesCancel
<1>12. ASSUME NEW p \in Children, Terminate(p) PROVE UnreapedIsRegistered'
  BY <1>12 DEF Terminate, Signal
<1>13. ASSUME NEW p \in Children, GraceEnds(p) PROVE UnreapedIsRegistered'
  BY <1>13 DEF GraceEnds
<1>14. ASSUME NEW p \in Children, Kill(p) PROVE UnreapedIsRegistered'
  BY <1>14 DEF Kill, Signal
<1>15. ASSUME NEW p \in Children, PublishExit(p) PROVE UnreapedIsRegistered'
  BY <1>15 DEF PublishExit
<1>16. ASSUME NEW p \in Children, Retire(p) PROVE UnreapedIsRegistered'
  BY <1>16 DEF Retire
<1>17. CASE Shutdown
  BY <1>17 DEF Shutdown
<1>18. CASE ManagerDrops
  BY <1>18 DEF ManagerDrops
<1>19. CASE UNCHANGED vars
  BY <1>19 DEF vars
<1> QED
  BY <1>1, <1>2, <1>3, <1>4, <1>5, <1>6, <1>7, <1>8, <1>9,
     <1>10, <1>11, <1>12, <1>13, <1>14, <1>15, <1>16, <1>17, <1>18, <1>19
  DEF Next, SpawnStep, SupervisorStep

(* Every request a shutdown made stays in the channel until the supervisor *)
(* acts on it.                                                             *)
LEMMA RequestStep == Registered /\ [Next]_vars => ShutdownMissesNobody'
<1> USE ConstantsAssumption
<1> SUFFICES ASSUME Registered, [Next]_vars PROVE ShutdownMissesNobody'
  OBVIOUS
<1> USE DEF Registered, Types, Phases, UnreapedIsRegistered, ShutdownMissesNobody, Goto
<1>1. ASSUME NEW p \in Children, SpawnLocks(p) PROVE ShutdownMissesNobody'
  BY <1>1 DEF SpawnLocks
<1>2. ASSUME NEW p \in Children, SpawnRefused(p) PROVE ShutdownMissesNobody'
  BY <1>2 DEF SpawnRefused
<1>3. ASSUME NEW p \in Children, SpawnStarts(p) PROVE ShutdownMissesNobody'
  BY <1>3 DEF SpawnStarts
<1>4. ASSUME NEW p \in Children, SpawnPublishes(p) PROVE ShutdownMissesNobody'
  BY <1>4 DEF SpawnPublishes
<1>5. ASSUME NEW p \in Children, HandleDrops(p) PROVE ShutdownMissesNobody'
  BY <1>5 DEF HandleDrops
<1>6. ASSUME NEW p \in Children, HandleCancels(p) PROVE ShutdownMissesNobody'
  BY <1>6 DEF HandleCancels
<1>7. ASSUME NEW p \in Children, ProcessExits(p) PROVE ShutdownMissesNobody'
  BY <1>7 DEF ProcessExits
<1>8. ASSUME NEW p \in Children, Reap(p) PROVE ShutdownMissesNobody'
  BY <1>8 DEF Reap
<1>9. ASSUME NEW p \in Children, WaitFails(p) PROVE ShutdownMissesNobody'
  BY <1>9 DEF WaitFails
<1>10. ASSUME NEW p \in Children, BackoffEnds(p) PROVE ShutdownMissesNobody'
  BY <1>10 DEF BackoffEnds
<1>11. ASSUME NEW p \in Children, SeesCancel(p) PROVE ShutdownMissesNobody'
  BY <1>11 DEF SeesCancel
<1>12. ASSUME NEW p \in Children, Terminate(p) PROVE ShutdownMissesNobody'
  BY <1>12 DEF Terminate, Signal
<1>13. ASSUME NEW p \in Children, GraceEnds(p) PROVE ShutdownMissesNobody'
  BY <1>13 DEF GraceEnds
<1>14. ASSUME NEW p \in Children, Kill(p) PROVE ShutdownMissesNobody'
  BY <1>14 DEF Kill, Signal
<1>15. ASSUME NEW p \in Children, PublishExit(p) PROVE ShutdownMissesNobody'
  BY <1>15 DEF PublishExit
<1>16. ASSUME NEW p \in Children, Retire(p) PROVE ShutdownMissesNobody'
  BY <1>16 DEF Retire
<1>17. CASE Shutdown
  BY <1>17 DEF Shutdown
<1>18. CASE ManagerDrops
  BY <1>18 DEF ManagerDrops
<1>19. CASE UNCHANGED vars
  BY <1>19 DEF vars
<1> QED
  BY <1>1, <1>2, <1>3, <1>4, <1>5, <1>6, <1>7, <1>8, <1>9,
     <1>10, <1>11, <1>12, <1>13, <1>14, <1>15, <1>16, <1>17, <1>18, <1>19
  DEF Next, SpawnStep, SupervisorStep

(* Types, phases, registration and requests hold together in every state. *)
THEOREM RegisteredInvariant == Spec => []Registered
<1>1. Registered /\ [Next]_vars => Registered'
  BY TypesStep, PhasesStep, RegistryStep, RequestStep DEF Registered
<1> QED
  BY RegisteredInit, <1>1, PTL DEF Spec

(* While a manager exists, every child that is not reaped is in its        *)
(* registry, or its spawn holds the registry mutex.                        *)
THEOREM Unreaped == Spec => []UnreapedIsRegistered
<1>1. Registered => UnreapedIsRegistered
  BY DEF Registered
<1> QED
  BY RegisteredInvariant, <1>1, PTL

(* shutdown's snapshot under the mutex misses no child that runs. *)
THEOREM ShutdownReachesAll == Spec => []ShutdownMissesNobody
<1>1. Registered => ShutdownMissesNobody
  BY DEF Registered
<1> QED
  BY RegisteredInvariant, <1>1, PTL

(* No step signals a child that wait has given back to the OS. *)
THEOREM SignalsReachOwnChild == Spec => NoSignalAfterReap
<1>1. Types /\ Phases /\ [Next]_vars
        => [\A p \in Children : signalled'[p] # signalled[p] => Live(p)]_vars
  <2> SUFFICES ASSUME Types, Phases, Next, NEW q \in Children, signalled'[q] # signalled[q]
               PROVE  Live(q)
    OBVIOUS
  <2>1. PICK p \in Children : Terminate(p) \/ Kill(p)
    BY DEF Next, SpawnStep, SupervisorStep, SpawnLocks, SpawnRefused, SpawnStarts, SpawnPublishes,
           HandleDrops, HandleCancels, ProcessExits, Reap, WaitFails, BackoffEnds, SeesCancel,
           GraceEnds, PublishExit, Retire, Shutdown, ManagerDrops
  <2>2. p = q
    BY <2>1 DEF Terminate, Kill, Signal, Types
  <2>3. pc[q] \in {"term", "kill"}
    BY <2>1, <2>2 DEF Terminate, Kill, Goto
  <2> QED
    BY <2>3 DEF Types, Phases
<1>2. Registered => Types /\ Phases
  BY DEF Registered
<1> QED
  BY RegisteredInvariant, <1>1, <1>2, PTL DEF Spec, NoSignalAfterReap

(* Exited is published for a reaped child only, and no later step of the   *)
(* supervisor takes it back.                                               *)
THEOREM ExitIsFinal == Spec => ExitedIsFinal
<1>1. Types /\ Phases /\ [Next]_vars
        => [\A p \in Children :
              /\ status'[p] = "Exited" => os[p] = "reaped"
              /\ status[p] = "Exited" => status'[p] = "Exited"]_vars
  <2> SUFFICES ASSUME Types, Phases, Next, NEW q \in Children
               PROVE  /\ status'[q] = "Exited" => os[q] = "reaped"
                      /\ status[q] = "Exited" => status'[q] = "Exited"
    OBVIOUS
  <2>1. CASE status'[q] = status[q]
    BY <2>1 DEF Types, Phases
  <2>2. CASE status'[q] # status[q]
    <3>1. PICK p \in Children : SpawnStarts(p) \/ WaitFails(p) \/ Terminate(p) \/ Kill(p) \/ PublishExit(p)
      BY <2>2 DEF Next, SpawnStep, SupervisorStep, SpawnLocks, SpawnRefused, SpawnPublishes,
           HandleDrops, HandleCancels, ProcessExits, Reap, BackoffEnds, SeesCancel,
           GraceEnds, Retire, Shutdown, ManagerDrops
    <3>2. p = q
      BY <2>2, <3>1 DEF SpawnStarts, WaitFails, Terminate, Kill, PublishExit, Signal, Types
    <3>3. CASE PublishExit(q)
      BY <3>3 DEF PublishExit, Goto, Types, Phases
    <3>4. CASE SpawnStarts(q) \/ WaitFails(q) \/ Terminate(q) \/ Kill(q)
      BY <3>4 DEF SpawnStarts, WaitFails, Terminate, Kill, Signal, Goto, Types, Phases
    <3> QED
      BY <3>1, <3>2, <3>3, <3>4
  <2> QED
    BY <2>1, <2>2
<1>2. Registered => Types /\ Phases
  BY DEF Registered
<1> QED
  BY RegisteredInvariant, <1>1, <1>2, PTL DEF Spec, ExitedIsFinal

=============================================================================
