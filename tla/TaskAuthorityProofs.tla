------------------------ MODULE TaskAuthorityProofs ------------------------
(***************************************************************************)
(* Theorems about TaskAuthority, for any number of callers, tasks and      *)
(* principals and any capacity.  The inductive invariant is proved in      *)
(* layers, each from the ones before it.                                   *)
(***************************************************************************)
EXTENDS TaskAuthority, FiniteSetTheorems, TLAPS

-----------------------------------------------------------------------------
(* Layer 1: types, locals and ownership *)

Ownership == TypeOK /\ CallsWellFormed /\ BoundByOwner

USE DEF SpawnHead, SpawnTail, AccessPath, ClosePath, Labels, Operations, Bound

(* The initial state has no call under way and nothing bound. *)
LEMMA OwnershipInit == Init => Ownership
<1> SUFFICES ASSUME Init PROVE Ownership
  OBVIOUS
<1>1. TypeOK
  BY DEF Init, TypeOK
<1>2. CallsWellFormed
  BY DEF Init, CallsWellFormed
<1>3. BoundByOwner
  BY DEF Init, BoundByOwner
<1> QED
  BY <1>1, <1>2, <1>3 DEF Ownership

(* Every step keeps the types, the locals and the ownership. *)
LEMMA OwnershipStep == Ownership /\ [Next]_vars => Ownership'
<1> USE ConstantsAssumption
<1> SUFFICES ASSUME Ownership, [Next]_vars PROVE Ownership'
  OBVIOUS
<1> USE DEF Ownership, TypeOK, CallsWellFormed, BoundByOwner, state, loop, local, Goto, Return, SaturatingDec
<1>1. ASSUME NEW c \in Callers, NEW p \in Principals, SpawnBegin(c, p) PROVE Ownership'
  BY <1>1 DEF SpawnBegin
<1>2. ASSUME NEW c \in Callers, ReserveFull(c) PROVE Ownership'
  BY <1>2 DEF ReserveFull
<1>3. ASSUME NEW c \in Callers, Reserve(c) PROVE Ownership'
  BY <1>3 DEF Reserve
<1>4. ASSUME NEW c \in Callers, SpawnOpen(c) PROVE Ownership'
  BY <1>4 DEF SpawnOpen
<1>5. ASSUME NEW c \in Callers, NEW t \in TaskIds, Materialize(c, t) PROVE Ownership'
  BY <1>5 DEF Materialize
<1>6. ASSUME NEW c \in Callers, NEW t \in TaskIds, MaterializePanics(c, t) PROVE Ownership'
  BY <1>6 DEF MaterializePanics
<1>7. ASSUME NEW c \in Callers, InsertLease(c) PROVE Ownership'
  BY <1>7 DEF InsertLease
<1>8. ASSUME NEW c \in Callers, PostOpen(c) PROVE Ownership'
  BY <1>8 DEF PostOpen
<1>9. ASSUME NEW c \in Callers, InitialRead(c) PROVE Ownership'
  BY <1>9 DEF InitialRead
<1>10. ASSUME NEW c \in Callers, InitialFailed(c) PROVE Ownership'
  BY <1>10 DEF InitialFailed
<1>11. ASSUME NEW c \in Callers, Unlease(c) PROVE Ownership'
  BY <1>11 DEF Unlease
<1>12. ASSUME NEW c \in Callers, Publish(c) PROVE Ownership'
  BY <1>12 DEF Publish
<1>13. ASSUME NEW c \in Callers, PublishRefused(c) PROVE Ownership'
  BY <1>13 DEF PublishRefused
<1>14. ASSUME NEW c \in Callers, ShutdownBegin(c) PROVE Ownership'
  BY <1>14 DEF ShutdownBegin
<1>15. ASSUME NEW c \in Callers, SetClosed(c) PROVE Ownership'
  BY <1>15 DEF SetClosed
<1>16. ASSUME NEW c \in Callers, ManagerShutdown(c) PROVE Ownership'
  BY <1>16 DEF ManagerShutdown
<1>17. ASSUME NEW c \in Callers, Drain(c) PROVE Ownership'
  BY <1>17 DEF Drain
<1>18. ASSUME NEW c \in Callers, NEW o \in {"get", "update", "wait"}, NEW p \in Principals,
              NEW t \in TaskIds, AccessBegin(c, o, p, t)
       PROVE Ownership'
  BY <1>18 DEF AccessBegin
<1>19. ASSUME NEW c \in Callers, LookupDenied(c) PROVE Ownership'
  BY <1>19 DEF LookupDenied
<1>20. ASSUME NEW c \in Callers, LookupGranted(c) PROVE Ownership'
  BY <1>20 DEF LookupGranted
<1>21. ASSUME NEW c \in Callers, Mutate(c) PROVE Ownership'
  BY <1>21 DEF Mutate
<1>22. ASSUME NEW c \in Callers, Read(c) PROVE Ownership'
  BY <1>22 DEF Read
<1>23. ASSUME NEW c \in Callers, RemoveBinding(c) PROVE Ownership'
  BY <1>23 DEF RemoveBinding
<1>24. ASSUME NEW c \in Callers, UnbindReturns(c) PROVE Ownership'
  BY <1>24 DEF UnbindReturns
<1>25. ASSUME NEW c \in Callers, RegisterRejected(c) PROVE Ownership'
  BY <1>25 DEF RegisterRejected
<1>26. ASSUME NEW c \in Callers, RegisterWaiter(c) PROVE Ownership'
  BY <1>26 DEF RegisterWaiter
<1>27. ASSUME NEW c \in Callers, WaitEnds(c) PROVE Ownership'
  BY <1>27 DEF WaitEnds
<1>28. CASE ObserverScan
  BY <1>28 DEF ObserverScan
<1>29. CASE ObserverRead
  BY <1>29 DEF ObserverRead
<1>30. CASE ObserverEvict
  BY <1>30 DEF ObserverEvict
<1>31. ASSUME NEW t \in TaskIds, RecordExpires(t) PROVE Ownership'
  BY <1>31 DEF RecordExpires
<1>32. CASE UNCHANGED vars
  BY <1>32 DEF vars
<1> QED
  BY <1>1, <1>2, <1>3, <1>4, <1>5, <1>6, <1>7, <1>8, <1>9, <1>10, <1>11, <1>12, <1>13,
     <1>14, <1>15, <1>16, <1>17, <1>18, <1>19, <1>20, <1>21, <1>22, <1>23, <1>24, <1>25,
     <1>26, <1>27, <1>28, <1>29, <1>30, <1>31, <1>32
  DEF Next, CallBegin, CallStep, ObserverStep

(* The variables of the authority keep their types. *)
THEOREM TypeCorrect == Spec => []TypeOK
<1>1. Spec => []Ownership
  BY OwnershipInit, OwnershipStep, PTL DEF Spec
<1>2. Ownership => TypeOK
  BY DEF Ownership
<1> QED
  BY <1>1, <1>2, PTL

(* Cross-principal access fails closed: whoever got past binding_for acts  *)
(* for the principal the task was spawned for, at every later step.        *)
THEOREM OwnerAccess == Spec => []AccessByOwner
<1>1. Spec => []Ownership
  BY OwnershipInit, OwnershipStep, PTL DEF Spec
<1>2. Ownership => AccessByOwner
  BY DEF Ownership, CallsWellFormed, AccessByOwner
<1> QED
  BY <1>1, <1>2, PTL

-----------------------------------------------------------------------------
(* Layer 2: who may touch a lease *)

Custody == SpawnPrivate /\ SpawnLeased /\ LoopAndCloseOrder /\ BoundHasLease

(* The initial state has no spawn, no binding and no probe. *)
LEMMA CustodyInit == Init => Custody
  BY DEF Init, Custody, SpawnPrivate, SpawnLeased, LoopAndCloseOrder, BoundHasLease

(* Every step keeps a spawn's id to itself and a bound id leased. *)
LEMMA CustodyStep == Ownership /\ Custody /\ [Next]_vars => Custody'
<1> USE ConstantsAssumption
<1> SUFFICES ASSUME Ownership, Custody, [Next]_vars PROVE Custody'
  OBVIOUS
<1> USE DEF Ownership, TypeOK, CallsWellFormed, BoundByOwner, state, loop, local, Goto, Return,
            Custody, SpawnPrivate, SpawnLeased, LoopAndCloseOrder, BoundHasLease
<1>1. ASSUME NEW c \in Callers, NEW p \in Principals, SpawnBegin(c, p) PROVE Custody'
  BY <1>1 DEF SpawnBegin
<1>2. ASSUME NEW c \in Callers, ReserveFull(c) PROVE Custody'
  BY <1>2 DEF ReserveFull
<1>3. ASSUME NEW c \in Callers, Reserve(c) PROVE Custody'
  BY <1>3 DEF Reserve
<1>4. ASSUME NEW c \in Callers, SpawnOpen(c) PROVE Custody'
  BY <1>4 DEF SpawnOpen
<1>5. ASSUME NEW c \in Callers, NEW t \in TaskIds, Materialize(c, t) PROVE Custody'
  BY <1>5 DEF Materialize
<1>6. ASSUME NEW c \in Callers, NEW t \in TaskIds, MaterializePanics(c, t) PROVE Custody'
  BY <1>6 DEF MaterializePanics
<1>7. ASSUME NEW c \in Callers, InsertLease(c) PROVE Custody'
  BY <1>7 DEF InsertLease
<1>8. ASSUME NEW c \in Callers, PostOpen(c) PROVE Custody'
  BY <1>8 DEF PostOpen
<1>9. ASSUME NEW c \in Callers, InitialRead(c) PROVE Custody'
  BY <1>9 DEF InitialRead
<1>10. ASSUME NEW c \in Callers, InitialFailed(c) PROVE Custody'
  BY <1>10 DEF InitialFailed
<1>11. ASSUME NEW c \in Callers, Unlease(c) PROVE Custody'
  BY <1>11 DEF Unlease
<1>12. ASSUME NEW c \in Callers, Publish(c) PROVE Custody'
  BY <1>12 DEF Publish
<1>13. ASSUME NEW c \in Callers, PublishRefused(c) PROVE Custody'
  BY <1>13 DEF PublishRefused
<1>14. ASSUME NEW c \in Callers, ShutdownBegin(c) PROVE Custody'
  BY <1>14 DEF ShutdownBegin
<1>15. ASSUME NEW c \in Callers, SetClosed(c) PROVE Custody'
  BY <1>15 DEF SetClosed
<1>16. ASSUME NEW c \in Callers, ManagerShutdown(c) PROVE Custody'
  BY <1>16 DEF ManagerShutdown
<1>17. ASSUME NEW c \in Callers, Drain(c) PROVE Custody'
  BY <1>17 DEF Drain
<1>18. ASSUME NEW c \in Callers, NEW o \in {"get", "update", "wait"}, NEW p \in Principals,
              NEW t \in TaskIds, AccessBegin(c, o, p, t)
       PROVE Custody'
  BY <1>18 DEF AccessBegin
<1>19. ASSUME NEW c \in Callers, LookupDenied(c) PROVE Custody'
  BY <1>19 DEF LookupDenied
<1>20. ASSUME NEW c \in Callers, LookupGranted(c) PROVE Custody'
  BY <1>20 DEF LookupGranted
<1>21. ASSUME NEW c \in Callers, Mutate(c) PROVE Custody'
  BY <1>21 DEF Mutate
<1>22. ASSUME NEW c \in Callers, Read(c) PROVE Custody'
  BY <1>22 DEF Read
<1>23. ASSUME NEW c \in Callers, RemoveBinding(c) PROVE Custody'
  BY <1>23 DEF RemoveBinding
<1>24. ASSUME NEW c \in Callers, UnbindReturns(c) PROVE Custody'
  BY <1>24 DEF UnbindReturns
<1>25. ASSUME NEW c \in Callers, RegisterRejected(c) PROVE Custody'
  BY <1>25 DEF RegisterRejected
<1>26. ASSUME NEW c \in Callers, RegisterWaiter(c) PROVE Custody'
  BY <1>26 DEF RegisterWaiter
<1>27. ASSUME NEW c \in Callers, WaitEnds(c) PROVE Custody'
  BY <1>27 DEF WaitEnds
<1>28. CASE ObserverScan
  BY <1>28 DEF ObserverScan
<1>29. CASE ObserverRead
  BY <1>29 DEF ObserverRead
<1>30. CASE ObserverEvict
  BY <1>30 DEF ObserverEvict
<1>31. ASSUME NEW t \in TaskIds, RecordExpires(t) PROVE Custody'
  BY <1>31 DEF RecordExpires
<1>32. CASE UNCHANGED vars
  BY <1>32 DEF vars
<1> QED
  BY <1>1, <1>2, <1>3, <1>4, <1>5, <1>6, <1>7, <1>8, <1>9, <1>10, <1>11, <1>12, <1>13,
     <1>14, <1>15, <1>16, <1>17, <1>18, <1>19, <1>20, <1>21, <1>22, <1>23, <1>24,
     <1>25, <1>26, <1>27, <1>28, <1>29, <1>30, <1>31, <1>32
  DEF Next, CallBegin, CallStep, ObserverStep

-----------------------------------------------------------------------------
(* Layer 3: removal and shutdown *)

Teardown == RemovalJustified /\ DrainPending

(* The initial state is open, and nobody removes anything. *)
LEMMA TeardownInit == Init => Teardown
  BY DEF Init, Teardown, RemovalJustified, DrainPending

(* No step removes a live binding or leaves a closed authority undrained.  *)
LEMMA TeardownStep == Ownership /\ Custody /\ Teardown /\ [Next]_vars => Teardown'
<1> USE ConstantsAssumption
<1> SUFFICES ASSUME Ownership, Custody, Teardown, [Next]_vars PROVE Teardown'
  OBVIOUS
<1> USE DEF Ownership, TypeOK, CallsWellFormed, BoundByOwner, state, loop, local, Goto, Return,
            Custody, SpawnPrivate, SpawnLeased, LoopAndCloseOrder, BoundHasLease,
            Teardown, RemovalJustified, DrainPending
<1>1. ASSUME NEW c \in Callers, NEW p \in Principals, SpawnBegin(c, p) PROVE Teardown'
  BY <1>1 DEF SpawnBegin
<1>2. ASSUME NEW c \in Callers, ReserveFull(c) PROVE Teardown'
  BY <1>2 DEF ReserveFull
<1>3. ASSUME NEW c \in Callers, Reserve(c) PROVE Teardown'
  BY <1>3 DEF Reserve
<1>4. ASSUME NEW c \in Callers, SpawnOpen(c) PROVE Teardown'
  BY <1>4 DEF SpawnOpen
<1>5. ASSUME NEW c \in Callers, NEW t \in TaskIds, Materialize(c, t) PROVE Teardown'
  BY <1>5 DEF Materialize
<1>6. ASSUME NEW c \in Callers, NEW t \in TaskIds, MaterializePanics(c, t) PROVE Teardown'
  BY <1>6 DEF MaterializePanics
<1>7. ASSUME NEW c \in Callers, InsertLease(c) PROVE Teardown'
  BY <1>7 DEF InsertLease
<1>8. ASSUME NEW c \in Callers, PostOpen(c) PROVE Teardown'
  BY <1>8 DEF PostOpen
<1>9. ASSUME NEW c \in Callers, InitialRead(c) PROVE Teardown'
  BY <1>9 DEF InitialRead
<1>10. ASSUME NEW c \in Callers, InitialFailed(c) PROVE Teardown'
  BY <1>10 DEF InitialFailed
<1>11. ASSUME NEW c \in Callers, Unlease(c) PROVE Teardown'
  BY <1>11 DEF Unlease
<1>12. ASSUME NEW c \in Callers, Publish(c) PROVE Teardown'
  BY <1>12 DEF Publish
<1>13. ASSUME NEW c \in Callers, PublishRefused(c) PROVE Teardown'
  BY <1>13 DEF PublishRefused
<1>14. ASSUME NEW c \in Callers, ShutdownBegin(c) PROVE Teardown'
  BY <1>14 DEF ShutdownBegin
<1>15. ASSUME NEW c \in Callers, SetClosed(c) PROVE Teardown'
  BY <1>15 DEF SetClosed
<1>16. ASSUME NEW c \in Callers, ManagerShutdown(c) PROVE Teardown'
  BY <1>16 DEF ManagerShutdown
<1>17. ASSUME NEW c \in Callers, Drain(c) PROVE Teardown'
  BY <1>17 DEF Drain
<1>18. ASSUME NEW c \in Callers, NEW o \in {"get", "update", "wait"}, NEW p \in Principals,
              NEW t \in TaskIds, AccessBegin(c, o, p, t)
       PROVE Teardown'
  BY <1>18 DEF AccessBegin
<1>19. ASSUME NEW c \in Callers, LookupDenied(c) PROVE Teardown'
  BY <1>19 DEF LookupDenied
<1>20. ASSUME NEW c \in Callers, LookupGranted(c) PROVE Teardown'
  BY <1>20 DEF LookupGranted
<1>21. ASSUME NEW c \in Callers, Mutate(c) PROVE Teardown'
  BY <1>21 DEF Mutate
<1>22. ASSUME NEW c \in Callers, Read(c) PROVE Teardown'
  BY <1>22 DEF Read
<1>23. ASSUME NEW c \in Callers, RemoveBinding(c) PROVE Teardown'
  BY <1>23 DEF RemoveBinding
<1>24. ASSUME NEW c \in Callers, UnbindReturns(c) PROVE Teardown'
  BY <1>24 DEF UnbindReturns
<1>25. ASSUME NEW c \in Callers, RegisterRejected(c) PROVE Teardown'
  BY <1>25 DEF RegisterRejected
<1>26. ASSUME NEW c \in Callers, RegisterWaiter(c) PROVE Teardown'
  BY <1>26 DEF RegisterWaiter
<1>27. ASSUME NEW c \in Callers, WaitEnds(c) PROVE Teardown'
  BY <1>27 DEF WaitEnds
<1>28. CASE ObserverScan
  BY <1>28 DEF ObserverScan
<1>29. CASE ObserverRead
  BY <1>29 DEF ObserverRead
<1>30. CASE ObserverEvict
  BY <1>30 DEF ObserverEvict
<1>31. ASSUME NEW t \in TaskIds, RecordExpires(t) PROVE Teardown'
  BY <1>31 DEF RecordExpires
<1>32. CASE UNCHANGED vars
  BY <1>32 DEF vars
<1> QED
  BY <1>1, <1>2, <1>3, <1>4, <1>5, <1>6, <1>7, <1>8, <1>9, <1>10, <1>11, <1>12, <1>13,
     <1>14, <1>15, <1>16, <1>17, <1>18, <1>19, <1>20, <1>21, <1>22, <1>23, <1>24,
     <1>25, <1>26, <1>27, <1>28, <1>29, <1>30, <1>31, <1>32
  DEF Next, CallBegin, CallStep, ObserverStep

IInv == Ownership /\ Custody /\ Teardown

(* The three layers together are an invariant of the authority. *)
THEOREM Invariance == Spec => []IInv
<1>1. Init => IInv
  BY OwnershipInit, CustodyInit, TeardownInit DEF IInv
<1>2. IInv /\ [Next]_vars => IInv'
  BY OwnershipStep, CustodyStep, TeardownStep DEF IInv
<1> QED
  BY <1>1, <1>2, PTL DEF Spec

(* A bound task has its capacity lease in every reachable state. *)
THEOREM LeaseHeld == Spec => []BoundHasLease
<1>1. IInv => BoundHasLease
  BY DEF IInv, Custody
<1> QED
  BY <1>1, Invariance, PTL

(* Once a closed authority has no spawn and no close under way, RMCP and   *)
(* the registry are empty, however the spawns interleaved with the close.  *)
THEOREM ShutdownComplete == Spec => []ShutdownDrains
<1>1. IInv => ShutdownDrains
  BY DEF IInv, Teardown, DrainPending, ShutdownDrains
<1> QED
  BY <1>1, Invariance, PTL

(* The initial state has no record. *)
LEMMA NoOrphanInit == Init => NoOrphanRecord
  BY DEF Init, NoOrphanRecord

(* No step of an open authority abandons a record. *)
LEMMA NoOrphanStep == IInv /\ NoOrphanRecord /\ [Next]_vars => NoOrphanRecord'
<1> USE ConstantsAssumption
<1> SUFFICES ASSUME IInv, NoOrphanRecord, [Next]_vars PROVE NoOrphanRecord'
  OBVIOUS
<1> USE DEF IInv, Ownership, TypeOK, CallsWellFormed, state, loop, local, Goto, Return,
            Teardown, RemovalJustified, NoOrphanRecord
<1>1. ASSUME NEW c \in Callers, NEW p \in Principals, SpawnBegin(c, p) PROVE NoOrphanRecord'
  BY <1>1 DEF SpawnBegin
<1>2. ASSUME NEW c \in Callers, ReserveFull(c) PROVE NoOrphanRecord'
  BY <1>2 DEF ReserveFull
<1>3. ASSUME NEW c \in Callers, Reserve(c) PROVE NoOrphanRecord'
  BY <1>3 DEF Reserve
<1>4. ASSUME NEW c \in Callers, SpawnOpen(c) PROVE NoOrphanRecord'
  BY <1>4 DEF SpawnOpen
<1>5. ASSUME NEW c \in Callers, NEW t \in TaskIds, Materialize(c, t) PROVE NoOrphanRecord'
  BY <1>5 DEF Materialize
<1>6. ASSUME NEW c \in Callers, NEW t \in TaskIds, MaterializePanics(c, t) PROVE NoOrphanRecord'
  BY <1>6 DEF MaterializePanics
<1>7. ASSUME NEW c \in Callers, InsertLease(c) PROVE NoOrphanRecord'
  BY <1>7 DEF InsertLease
<1>8. ASSUME NEW c \in Callers, PostOpen(c) PROVE NoOrphanRecord'
  BY <1>8 DEF PostOpen
<1>9. ASSUME NEW c \in Callers, InitialRead(c) PROVE NoOrphanRecord'
  BY <1>9 DEF InitialRead
<1>10. ASSUME NEW c \in Callers, InitialFailed(c) PROVE NoOrphanRecord'
  BY <1>10 DEF InitialFailed
<1>11. ASSUME NEW c \in Callers, Unlease(c) PROVE NoOrphanRecord'
  BY <1>11 DEF Unlease
<1>12. ASSUME NEW c \in Callers, Publish(c) PROVE NoOrphanRecord'
  BY <1>12 DEF Publish
<1>13. ASSUME NEW c \in Callers, PublishRefused(c) PROVE NoOrphanRecord'
  BY <1>13 DEF PublishRefused
<1>14. ASSUME NEW c \in Callers, ShutdownBegin(c) PROVE NoOrphanRecord'
  BY <1>14 DEF ShutdownBegin
<1>15. ASSUME NEW c \in Callers, SetClosed(c) PROVE NoOrphanRecord'
  BY <1>15 DEF SetClosed
<1>16. ASSUME NEW c \in Callers, ManagerShutdown(c) PROVE NoOrphanRecord'
  BY <1>16 DEF ManagerShutdown
<1>17. ASSUME NEW c \in Callers, Drain(c) PROVE NoOrphanRecord'
  BY <1>17 DEF Drain
<1>18. ASSUME NEW c \in Callers, NEW o \in {"get", "update", "wait"}, NEW p \in Principals,
              NEW t \in TaskIds, AccessBegin(c, o, p, t)
       PROVE NoOrphanRecord'
  BY <1>18 DEF AccessBegin
<1>19. ASSUME NEW c \in Callers, LookupDenied(c) PROVE NoOrphanRecord'
  BY <1>19 DEF LookupDenied
<1>20. ASSUME NEW c \in Callers, LookupGranted(c) PROVE NoOrphanRecord'
  BY <1>20 DEF LookupGranted
<1>21. ASSUME NEW c \in Callers, Mutate(c) PROVE NoOrphanRecord'
  BY <1>21 DEF Mutate
<1>22. ASSUME NEW c \in Callers, Read(c) PROVE NoOrphanRecord'
  BY <1>22 DEF Read
<1>23. ASSUME NEW c \in Callers, RemoveBinding(c) PROVE NoOrphanRecord'
  BY <1>23 DEF RemoveBinding
<1>24. ASSUME NEW c \in Callers, UnbindReturns(c) PROVE NoOrphanRecord'
  BY <1>24 DEF UnbindReturns
<1>25. ASSUME NEW c \in Callers, RegisterRejected(c) PROVE NoOrphanRecord'
  BY <1>25 DEF RegisterRejected
<1>26. ASSUME NEW c \in Callers, RegisterWaiter(c) PROVE NoOrphanRecord'
  BY <1>26 DEF RegisterWaiter
<1>27. ASSUME NEW c \in Callers, WaitEnds(c) PROVE NoOrphanRecord'
  BY <1>27 DEF WaitEnds
<1>28. CASE ObserverScan
  BY <1>28 DEF ObserverScan
<1>29. CASE ObserverRead
  BY <1>29 DEF ObserverRead
<1>30. CASE ObserverEvict
  BY <1>30 DEF ObserverEvict
<1>31. ASSUME NEW t \in TaskIds, RecordExpires(t) PROVE NoOrphanRecord'
  BY <1>31 DEF RecordExpires
<1>32. CASE UNCHANGED vars
  BY <1>32 DEF vars
<1> QED
  BY <1>1, <1>2, <1>3, <1>4, <1>5, <1>6, <1>7, <1>8, <1>9, <1>10, <1>11, <1>12, <1>13,
     <1>14, <1>15, <1>16, <1>17, <1>18, <1>19, <1>20, <1>21, <1>22, <1>23, <1>24,
     <1>25, <1>26, <1>27, <1>28, <1>29, <1>30, <1>31, <1>32
  DEF Next, CallBegin, CallStep, ObserverStep

(* While the authority is open, every record RMCP keeps is bound, on its   *)
(* way to publication, or about to be drained: no task runs unreachable.   *)
THEOREM NoOrphan == Spec => []NoOrphanRecord
  BY NoOrphanInit, NoOrphanStep, Invariance, PTL DEF Spec

-----------------------------------------------------------------------------
(* What a step may do to the closed bit and the bindings *)

Published == \E t \in TaskIds, p \in Principals :
  ~closed /\ ~Bound(t) /\ bindings' = [bindings EXCEPT ![t] = p]
Retired == \E t \in TaskIds : t \notin records /\ bindings' = [bindings EXCEPT ![t] = NoPrincipal]
Drained ==
  closed /\ (\A t \in records : ~Bound(t)) /\ bindings' = [t \in TaskIds |-> NoPrincipal]
BindingStep ==
  \/ bindings' = bindings /\ (closed' = closed \/ closed' = TRUE)
  \/ (Published \/ Retired \/ Drained) /\ closed' = closed

(* Bindings change by publication, by removal of an absent task's binding, *)
(* or by the drain of a closed authority, and the closed bit is only set.  *)
LEMMA BindingSteps == IInv /\ [Next]_vars => BindingStep
<1> USE ConstantsAssumption
<1> SUFFICES ASSUME IInv, [Next]_vars PROVE BindingStep
  OBVIOUS
<1> USE DEF IInv, Ownership, TypeOK, CallsWellFormed, state, loop, Goto, Return, Custody,
            LoopAndCloseOrder, Teardown, RemovalJustified, BindingStep, Published, Retired, Drained
<1>1. ASSUME NEW c \in Callers, NEW p \in Principals, SpawnBegin(c, p) PROVE BindingStep
  BY <1>1 DEF SpawnBegin
<1>2. ASSUME NEW c \in Callers, ReserveFull(c) PROVE BindingStep
  BY <1>2 DEF ReserveFull
<1>3. ASSUME NEW c \in Callers, Reserve(c) PROVE BindingStep
  BY <1>3 DEF Reserve
<1>4. ASSUME NEW c \in Callers, SpawnOpen(c) PROVE BindingStep
  BY <1>4 DEF SpawnOpen
<1>5. ASSUME NEW c \in Callers, NEW t \in TaskIds, Materialize(c, t) PROVE BindingStep
  BY <1>5 DEF Materialize
<1>6. ASSUME NEW c \in Callers, NEW t \in TaskIds, MaterializePanics(c, t) PROVE BindingStep
  BY <1>6 DEF MaterializePanics
<1>7. ASSUME NEW c \in Callers, InsertLease(c) PROVE BindingStep
  BY <1>7 DEF InsertLease
<1>8. ASSUME NEW c \in Callers, PostOpen(c) PROVE BindingStep
  BY <1>8 DEF PostOpen
<1>9. ASSUME NEW c \in Callers, InitialRead(c) PROVE BindingStep
  BY <1>9 DEF InitialRead
<1>10. ASSUME NEW c \in Callers, InitialFailed(c) PROVE BindingStep
  BY <1>10 DEF InitialFailed
<1>11. ASSUME NEW c \in Callers, Unlease(c) PROVE BindingStep
  BY <1>11 DEF Unlease
<1>12. ASSUME NEW c \in Callers, Publish(c) PROVE BindingStep
  BY <1>12 DEF Publish
<1>13. ASSUME NEW c \in Callers, PublishRefused(c) PROVE BindingStep
  BY <1>13 DEF PublishRefused
<1>14. ASSUME NEW c \in Callers, ShutdownBegin(c) PROVE BindingStep
  BY <1>14 DEF ShutdownBegin
<1>15. ASSUME NEW c \in Callers, SetClosed(c) PROVE BindingStep
  BY <1>15 DEF SetClosed
<1>16. ASSUME NEW c \in Callers, ManagerShutdown(c) PROVE BindingStep
  BY <1>16 DEF ManagerShutdown
<1>17. ASSUME NEW c \in Callers, Drain(c) PROVE BindingStep
  BY <1>17 DEF Drain
<1>18. ASSUME NEW c \in Callers, NEW o \in {"get", "update", "wait"}, NEW p \in Principals,
              NEW t \in TaskIds, AccessBegin(c, o, p, t)
       PROVE BindingStep
  BY <1>18 DEF AccessBegin
<1>19. ASSUME NEW c \in Callers, LookupDenied(c) PROVE BindingStep
  BY <1>19 DEF LookupDenied
<1>20. ASSUME NEW c \in Callers, LookupGranted(c) PROVE BindingStep
  BY <1>20 DEF LookupGranted
<1>21. ASSUME NEW c \in Callers, Mutate(c) PROVE BindingStep
  BY <1>21 DEF Mutate
<1>22. ASSUME NEW c \in Callers, Read(c) PROVE BindingStep
  BY <1>22 DEF Read
<1>23. ASSUME NEW c \in Callers, RemoveBinding(c) PROVE BindingStep
  BY <1>23 DEF RemoveBinding
<1>24. ASSUME NEW c \in Callers, UnbindReturns(c) PROVE BindingStep
  BY <1>24 DEF UnbindReturns
<1>25. ASSUME NEW c \in Callers, RegisterRejected(c) PROVE BindingStep
  BY <1>25 DEF RegisterRejected
<1>26. ASSUME NEW c \in Callers, RegisterWaiter(c) PROVE BindingStep
  BY <1>26 DEF RegisterWaiter
<1>27. ASSUME NEW c \in Callers, WaitEnds(c) PROVE BindingStep
  BY <1>27 DEF WaitEnds
<1>28. CASE ObserverScan
  BY <1>28 DEF ObserverScan
<1>29. CASE ObserverRead
  BY <1>29 DEF ObserverRead
<1>30. CASE ObserverEvict
  BY <1>30 DEF ObserverEvict
<1>31. ASSUME NEW t \in TaskIds, RecordExpires(t) PROVE BindingStep
  BY <1>31 DEF RecordExpires
<1>32. CASE UNCHANGED vars
  BY <1>32 DEF vars
<1> HIDE DEF BindingStep, Published, Retired, Drained
<1> QED
  BY <1>1, <1>2, <1>3, <1>4, <1>5, <1>6, <1>7, <1>8, <1>9, <1>10, <1>11, <1>12, <1>13,
     <1>14, <1>15, <1>16, <1>17, <1>18, <1>19, <1>20, <1>21, <1>22, <1>23, <1>24,
     <1>25, <1>26, <1>27, <1>28, <1>29, <1>30, <1>31, <1>32
  DEF Next, CallBegin, CallStep, ObserverStep

(* No step of any caller or of the observer unbinds a task RMCP still has. *)
THEOREM LiveTaskKeepsOwner == Spec => UnboundOnlyWithoutRecord
<1>1. IInv /\ [Next]_vars => [\A t \in TaskIds : Bound(t) /\ ~Bound(t)' => t \notin records]_vars
  <2> SUFFICES ASSUME IInv, [Next]_vars, NEW t \in TaskIds, Bound(t), ~Bound(t)'
               PROVE  t \notin records
    OBVIOUS
  <2> QED
    BY BindingSteps, ConstantsAssumption
    DEF BindingStep, Published, Retired, Drained, IInv, Ownership, TypeOK
<1> QED
  BY <1>1, Invariance, PTL DEF Spec, UnboundOnlyWithoutRecord

(* The authority's separate critical sections implement the registry whose *)
(* operations are atomic; the close takes effect with the closed bit.      *)
THEOREM Refinement == Spec => ImplementsRegistry
<1> USE DEF Registry!Unbound
<1>1. Init => Registry!Init
  BY DEF Init, Registry!Init
<1>2. IInv /\ [Next]_vars => [Registry!Next]_(Registry!vars)
  <2> SUFFICES ASSUME IInv, [Next]_vars PROVE [Registry!Next]_(Registry!vars)
    OBVIOUS
  <2> USE DEF Registry!Next, Registry!vars, Registry!Publish, Registry!Retire, Registry!Close
  <2>0. TypeOK
    BY DEF IInv, Ownership
  <2>1. CASE bindings' = bindings /\ (closed' = closed \/ closed' = TRUE)
    BY <2>0, <2>1 DEF TypeOK
  <2>2. CASE Published /\ closed' = closed
    BY <2>0, <2>2 DEF TypeOK, Published
  <2>3. CASE Retired /\ closed' = closed
    <3>1. PICK t \in TaskIds : bindings' = [bindings EXCEPT ![t] = NoPrincipal]
      BY <2>3 DEF Retired
    <3>2. CASE ~closed /\ Bound(t)
      BY <2>0, <2>3, <3>1, <3>2 DEF TypeOK
    <3>3. CASE ~Bound(t)
      <4>1. bindings' = bindings
        BY <2>0, <3>1, <3>3 DEF TypeOK
      <4> QED
        BY <4>1, <2>3
    <3>4. CASE closed
      BY <2>0, <2>3, <3>4 DEF TypeOK
    <3> QED
      BY <2>0, <3>2, <3>3, <3>4 DEF TypeOK
  <2>4. CASE Drained /\ closed' = closed
    BY <2>0, <2>4 DEF TypeOK, Drained
  <2> QED
    BY BindingSteps, <2>1, <2>2, <2>3, <2>4 DEF BindingStep
<1> QED
  BY <1>1, <1>2, Invariance, PTL DEF Spec, ImplementsRegistry, Registry!Spec

-----------------------------------------------------------------------------
(* The counters *)

Waiting == {c \in Callers : pc[c] = "waiting"}

(* A step that changes neither the waiters nor the counter, or closes,     *)
(* keeps the count.                                                        *)
LEMMA WaitersKept ==
  ASSUME WaitersCounted, ~closed' => ~closed /\ waiters' = waiters /\ Waiting' = Waiting
  PROVE  WaitersCounted'
  BY DEF WaitersCounted, Waiting

(* Every step keeps the waiter counter exact while the authority is open. *)
LEMMA WaitersStep == IInv /\ WaitersCounted /\ [Next]_vars => WaitersCounted'
<1> USE ConstantsAssumption
<1> SUFFICES ASSUME IInv, WaitersCounted, [Next]_vars PROVE WaitersCounted'
  OBVIOUS
<1>0. IsFiniteSet(Waiting) /\ Cardinality(Waiting) \in Nat /\ TypeOK
  BY FS_Subset, FS_CardinalityType DEF Waiting, IInv, Ownership
<1> USE DEF state, loop, local, Goto, Return
<1>1. ASSUME NEW c \in Callers, NEW p \in Principals, SpawnBegin(c, p) PROVE WaitersCounted'
  <2>1. ~closed' => ~closed /\ waiters' = waiters /\ Waiting' = Waiting
    BY <1>0, <1>1 DEF SpawnBegin, Waiting, TypeOK
  <2> QED
    BY <2>1, WaitersKept
<1>2. ASSUME NEW c \in Callers, ReserveFull(c) PROVE WaitersCounted'
  <2>1. ~closed' => ~closed /\ waiters' = waiters /\ Waiting' = Waiting
    BY <1>0, <1>2 DEF ReserveFull, Waiting, TypeOK
  <2> QED
    BY <2>1, WaitersKept
<1>3. ASSUME NEW c \in Callers, Reserve(c) PROVE WaitersCounted'
  <2>1. ~closed' => ~closed /\ waiters' = waiters /\ Waiting' = Waiting
    BY <1>0, <1>3 DEF Reserve, Waiting, TypeOK
  <2> QED
    BY <2>1, WaitersKept
<1>4. ASSUME NEW c \in Callers, SpawnOpen(c) PROVE WaitersCounted'
  <2>1. ~closed' => ~closed /\ waiters' = waiters /\ Waiting' = Waiting
    BY <1>0, <1>4 DEF SpawnOpen, Waiting, TypeOK
  <2> QED
    BY <2>1, WaitersKept
<1>5. ASSUME NEW c \in Callers, NEW t \in TaskIds, Materialize(c, t) PROVE WaitersCounted'
  <2>1. ~closed' => ~closed /\ waiters' = waiters /\ Waiting' = Waiting
    BY <1>0, <1>5 DEF Materialize, Waiting, TypeOK
  <2> QED
    BY <2>1, WaitersKept
<1>6. ASSUME NEW c \in Callers, NEW t \in TaskIds, MaterializePanics(c, t) PROVE WaitersCounted'
  <2>1. ~closed' => ~closed /\ waiters' = waiters /\ Waiting' = Waiting
    BY <1>0, <1>6 DEF MaterializePanics, Waiting, TypeOK
  <2> QED
    BY <2>1, WaitersKept
<1>7. ASSUME NEW c \in Callers, InsertLease(c) PROVE WaitersCounted'
  <2>1. ~closed' => ~closed /\ waiters' = waiters /\ Waiting' = Waiting
    BY <1>0, <1>7 DEF InsertLease, Waiting, TypeOK
  <2> QED
    BY <2>1, WaitersKept
<1>8. ASSUME NEW c \in Callers, PostOpen(c) PROVE WaitersCounted'
  <2>1. ~closed' => ~closed /\ waiters' = waiters /\ Waiting' = Waiting
    BY <1>0, <1>8 DEF PostOpen, Waiting, TypeOK
  <2> QED
    BY <2>1, WaitersKept
<1>9. ASSUME NEW c \in Callers, InitialRead(c) PROVE WaitersCounted'
  <2>1. ~closed' => ~closed /\ waiters' = waiters /\ Waiting' = Waiting
    BY <1>0, <1>9 DEF InitialRead, Waiting, TypeOK
  <2> QED
    BY <2>1, WaitersKept
<1>10. ASSUME NEW c \in Callers, InitialFailed(c) PROVE WaitersCounted'
  <2>1. ~closed' => ~closed /\ waiters' = waiters /\ Waiting' = Waiting
    BY <1>0, <1>10 DEF InitialFailed, Waiting, TypeOK
  <2> QED
    BY <2>1, WaitersKept
<1>11. ASSUME NEW c \in Callers, Unlease(c) PROVE WaitersCounted'
  <2>1. ~closed' => ~closed /\ waiters' = waiters /\ Waiting' = Waiting
    BY <1>0, <1>11 DEF Unlease, Waiting, TypeOK
  <2> QED
    BY <2>1, WaitersKept
<1>12. ASSUME NEW c \in Callers, Publish(c) PROVE WaitersCounted'
  <2>1. ~closed' => ~closed /\ waiters' = waiters /\ Waiting' = Waiting
    BY <1>0, <1>12 DEF Publish, Waiting, TypeOK
  <2> QED
    BY <2>1, WaitersKept
<1>13. ASSUME NEW c \in Callers, PublishRefused(c) PROVE WaitersCounted'
  <2>1. ~closed' => ~closed /\ waiters' = waiters /\ Waiting' = Waiting
    BY <1>0, <1>13 DEF PublishRefused, Waiting, TypeOK
  <2> QED
    BY <2>1, WaitersKept
<1>14. ASSUME NEW c \in Callers, ShutdownBegin(c) PROVE WaitersCounted'
  <2>1. ~closed' => ~closed /\ waiters' = waiters /\ Waiting' = Waiting
    BY <1>0, <1>14 DEF ShutdownBegin, Waiting, TypeOK
  <2> QED
    BY <2>1, WaitersKept
<1>15. ASSUME NEW c \in Callers, SetClosed(c) PROVE WaitersCounted'
  <2>1. ~closed' => ~closed /\ waiters' = waiters /\ Waiting' = Waiting
    BY <1>0, <1>15 DEF SetClosed, Waiting, TypeOK
  <2> QED
    BY <2>1, WaitersKept
<1>16. ASSUME NEW c \in Callers, ManagerShutdown(c) PROVE WaitersCounted'
  <2>1. ~closed' => ~closed /\ waiters' = waiters /\ Waiting' = Waiting
    BY <1>0, <1>16 DEF ManagerShutdown, Waiting, TypeOK
  <2> QED
    BY <2>1, WaitersKept
<1>17. ASSUME NEW c \in Callers, Drain(c) PROVE WaitersCounted'
  <2>1. ~closed' => ~closed /\ waiters' = waiters /\ Waiting' = Waiting
    BY <1>0, <1>17 DEF Drain, Waiting, TypeOK, LoopAndCloseOrder, Custody, IInv
  <2> QED
    BY <2>1, WaitersKept
<1>18. ASSUME NEW c \in Callers, NEW o \in {"get", "update", "wait"}, NEW p \in Principals,
              NEW t \in TaskIds, AccessBegin(c, o, p, t)
       PROVE WaitersCounted'
  <2>1. ~closed' => ~closed /\ waiters' = waiters /\ Waiting' = Waiting
    BY <1>0, <1>18 DEF AccessBegin, Waiting, TypeOK
  <2> QED
    BY <2>1, WaitersKept
<1>19. ASSUME NEW c \in Callers, LookupDenied(c) PROVE WaitersCounted'
  <2>1. ~closed' => ~closed /\ waiters' = waiters /\ Waiting' = Waiting
    BY <1>0, <1>19 DEF LookupDenied, Waiting, TypeOK
  <2> QED
    BY <2>1, WaitersKept
<1>20. ASSUME NEW c \in Callers, LookupGranted(c) PROVE WaitersCounted'
  <2>1. ~closed' => ~closed /\ waiters' = waiters /\ Waiting' = Waiting
    <3>1. op[c] \in {"get", "update", "wait"}
      BY <1>20 DEF LookupGranted, IInv, Ownership, CallsWellFormed
    <3> QED
      BY <1>0, <1>20, <3>1 DEF LookupGranted, Waiting, TypeOK
  <2> QED
    BY <2>1, WaitersKept
<1>21. ASSUME NEW c \in Callers, Mutate(c) PROVE WaitersCounted'
  <2>1. ~closed' => ~closed /\ waiters' = waiters /\ Waiting' = Waiting
    BY <1>0, <1>21 DEF Mutate, Waiting, TypeOK
  <2> QED
    BY <2>1, WaitersKept
<1>22. ASSUME NEW c \in Callers, Read(c) PROVE WaitersCounted'
  <2>1. ~closed' => ~closed /\ waiters' = waiters /\ Waiting' = Waiting
    BY <1>0, <1>22 DEF Read, Waiting, TypeOK
  <2> QED
    BY <2>1, WaitersKept
<1>23. ASSUME NEW c \in Callers, RemoveBinding(c) PROVE WaitersCounted'
  <2>1. ~closed' => ~closed /\ waiters' = waiters /\ Waiting' = Waiting
    BY <1>0, <1>23 DEF RemoveBinding, Waiting, TypeOK
  <2> QED
    BY <2>1, WaitersKept
<1>24. ASSUME NEW c \in Callers, UnbindReturns(c) PROVE WaitersCounted'
  <2>1. ~closed' => ~closed /\ waiters' = waiters /\ Waiting' = Waiting
    BY <1>0, <1>24 DEF UnbindReturns, Waiting, TypeOK
  <2> QED
    BY <2>1, WaitersKept
<1>25. ASSUME NEW c \in Callers, RegisterRejected(c) PROVE WaitersCounted'
  <2>1. ~closed' => ~closed /\ waiters' = waiters /\ Waiting' = Waiting
    BY <1>0, <1>25 DEF RegisterRejected, Waiting, TypeOK
  <2> QED
    BY <2>1, WaitersKept
<1>26. ASSUME NEW c \in Callers, RegisterWaiter(c) PROVE WaitersCounted'
  <2>1. Waiting' = Waiting \cup {c} /\ c \notin Waiting /\ closed' = closed
    BY <1>0, <1>26 DEF RegisterWaiter, Waiting, TypeOK
  <2>2. Cardinality(Waiting') = Cardinality(Waiting) + 1
    BY <1>0, <2>1, FS_AddElement
  <2>3. ~closed => waiters = Cardinality(Waiting)
    BY DEF WaitersCounted, Waiting
  <2>4. ~closed => waiters' = Cardinality(Waiting') /\ waiters' <= MaxWaiters
    BY <1>0, <1>26, <2>2, <2>3 DEF RegisterWaiter
  <2> QED
    BY <2>1, <2>4 DEF WaitersCounted, Waiting
<1>27. ASSUME NEW c \in Callers, WaitEnds(c) PROVE WaitersCounted'
  <2>1. Waiting' = Waiting \ {c} /\ c \in Waiting /\ closed' = closed
    BY <1>0, <1>27 DEF WaitEnds, Waiting, TypeOK
  <2>2. Cardinality(Waiting') = Cardinality(Waiting) - 1 /\ Cardinality(Waiting') \in Nat
    BY <1>0, <2>1, FS_RemoveElement, FS_CardinalityType
  <2>3. ~closed => waiters = Cardinality(Waiting) /\ waiters <= MaxWaiters
    BY DEF WaitersCounted, Waiting
  <2>4. ~closed => waiters' = Cardinality(Waiting') /\ waiters' <= MaxWaiters
    BY <1>0, <1>27, <2>2, <2>3 DEF WaitEnds, SaturatingDec
  <2> QED
    BY <2>1, <2>4 DEF WaitersCounted, Waiting
<1>28. CASE ObserverScan
  <2>1. ~closed' => ~closed /\ waiters' = waiters /\ Waiting' = Waiting
    BY <1>0, <1>28 DEF ObserverScan, Waiting, TypeOK
  <2> QED
    BY <2>1, WaitersKept
<1>29. CASE ObserverRead
  <2>1. ~closed' => ~closed /\ waiters' = waiters /\ Waiting' = Waiting
    BY <1>0, <1>29 DEF ObserverRead, Waiting, TypeOK
  <2> QED
    BY <2>1, WaitersKept
<1>30. CASE ObserverEvict
  <2>1. ~closed' => ~closed /\ waiters' = waiters /\ Waiting' = Waiting
    BY <1>0, <1>30 DEF ObserverEvict, Waiting, TypeOK
  <2> QED
    BY <2>1, WaitersKept
<1>31. ASSUME NEW t \in TaskIds, RecordExpires(t) PROVE WaitersCounted'
  <2>1. ~closed' => ~closed /\ waiters' = waiters /\ Waiting' = Waiting
    BY <1>0, <1>31 DEF RecordExpires, Waiting, TypeOK
  <2> QED
    BY <2>1, WaitersKept
<1>32. CASE UNCHANGED vars
  BY <1>32 DEF vars, WaitersCounted
<1> QED
  BY <1>1, <1>2, <1>3, <1>4, <1>5, <1>6, <1>7, <1>8, <1>9, <1>10, <1>11, <1>12, <1>13,
     <1>14, <1>15, <1>16, <1>17, <1>18, <1>19, <1>20, <1>21, <1>22, <1>23, <1>24,
     <1>25, <1>26, <1>27, <1>28, <1>29, <1>30, <1>31, <1>32
  DEF Next, CallBegin, CallStep, ObserverStep

(* Admission to wait is refused exactly at max_waiters live waits          *)
(* (WaitersCounted), for any number of callers.                            *)
THEOREM WaiterCount == Spec => []WaitersCounted
<1>1. Init => WaitersCounted
  <2>1. Init => Waiting = {}
    BY DEF Init, Waiting
  <2> QED
    BY <2>1, FS_EmptySet, ConstantsAssumption DEF Init, Waiting, WaitersCounted
<1> QED
  BY <1>1, WaitersStep, Invariance, PTL DEF Spec

(* One element more is at most one element more. *)
LEMMA AddBound ==
  ASSUME NEW S, NEW x, IsFiniteSet(S)
  PROVE  /\ IsFiniteSet(S \cup {x}) /\ Cardinality(S \cup {x}) \in Nat
         /\ Cardinality(S \cup {x}) <= Cardinality(S) + 1
<1>1. /\ IsFiniteSet(S \cup {x})
      /\ Cardinality(S \cup {x}) = IF x \in S THEN Cardinality(S) ELSE Cardinality(S) + 1
  BY FS_AddElement
<1>2. Cardinality(S) \in Nat /\ Cardinality(S \cup {x}) \in Nat
  BY <1>1, FS_CardinalityType
<1> QED
  BY <1>1, <1>2

(* A union of finite sets has no more elements than they have together. *)
LEMMA UnionBound ==
  ASSUME NEW S, NEW T, IsFiniteSet(S), IsFiniteSet(T)
  PROVE  /\ IsFiniteSet(S \cup T) /\ Cardinality(S \cup T) \in Nat
         /\ Cardinality(S \cup T) <= Cardinality(S) + Cardinality(T)
<1>1. IsFiniteSet(S \cup T) /\ Cardinality(S \cup T) = Cardinality(S) + Cardinality(T) - Cardinality(S \cap T)
  BY FS_Union
<1>2. /\ Cardinality(S) \in Nat /\ Cardinality(T) \in Nat /\ Cardinality(S \cap T) \in Nat
      /\ Cardinality(S \cup T) \in Nat
  BY <1>1, FS_Intersection, FS_CardinalityType
<1> QED
  BY <1>1, <1>2

Reservers == {c \in Callers : pc[c] \in {"spawn_open", "materialize", "lease"}}

(* Records with no lease and no spawn that is about to lease them. *)
Unclaimed == {t \in records \ leases : \A c \in Callers : pc[c] = "lease" => task[c] # t}

(* While the authority is open every reservation in reserved_leases stands *)
(* for a spawn that has yet to lease, or for a record that a panicking     *)
(* spawn left behind.                                                      *)
Capacity ==
  /\ IsFiniteSet(records) /\ IsFiniteSet(leases)
  /\ ~closed => /\ Cardinality(Unclaimed) + Cardinality(Reservers) <= reserved
                /\ Cardinality(leases) + reserved <= MaxRetained

(* The sets that are counted are finite. *)
LEMMA CapacityFinite ==
  ASSUME Capacity
  PROVE  /\ IsFiniteSet(Unclaimed) /\ Cardinality(Unclaimed) \in Nat
         /\ IsFiniteSet(Reservers) /\ Cardinality(Reservers) \in Nat
         /\ Cardinality(leases) \in Nat /\ Cardinality(records) \in Nat
<1>1. Unclaimed \subseteq records /\ Reservers \subseteq Callers
  BY DEF Unclaimed, Reservers
<1> QED
  BY <1>1, ConstantsAssumption, FS_Subset, FS_CardinalityType DEF Capacity

(* A step that adds nothing to what is counted, or closes, keeps Capacity. *)
LEMMA CapacityKept ==
  ASSUME Capacity, reserved \in Nat, leases' \subseteq leases, records' \subseteq records,
         ~closed' => /\ ~closed /\ reserved' = reserved
                     /\ Unclaimed' \subseteq Unclaimed /\ Reservers' \subseteq Reservers
  PROVE  Capacity'
<1>1. IsFiniteSet(leases') /\ Cardinality(leases') <= Cardinality(leases) /\ IsFiniteSet(records')
  BY FS_Subset DEF Capacity
<1>2. ASSUME ~closed'
      PROVE  /\ Cardinality(Unclaimed') <= Cardinality(Unclaimed) /\ Cardinality(Unclaimed') \in Nat
             /\ Cardinality(Reservers') <= Cardinality(Reservers) /\ Cardinality(Reservers') \in Nat
  BY <1>2, CapacityFinite, FS_Subset, FS_CardinalityType
<1>3. Cardinality(leases') \in Nat
  BY <1>1, FS_CardinalityType
<1> QED
  BY <1>1, <1>2, <1>3, CapacityFinite, ConstantsAssumption DEF Capacity

(* Every step of an open authority keeps a record covered by a lease or by *)
(* a reservation, within max_retained_tasks.                               *)
LEMMA CapacityStep == IInv /\ Capacity /\ [Next]_vars => Capacity'
<1> USE ConstantsAssumption
<1> SUFFICES ASSUME IInv, Capacity, [Next]_vars PROVE Capacity'
  OBVIOUS
<1>0. TypeOK /\ CallsWellFormed /\ RemovalJustified /\ reserved \in Nat
  BY DEF IInv, Ownership, Teardown, TypeOK
<1> USE DEF state, loop, local, Goto, Return
<1>1. ASSUME NEW c \in Callers, NEW p \in Principals, SpawnBegin(c, p) PROVE Capacity'
  <2>1. /\ leases' \subseteq leases /\ records' \subseteq records
        /\ ~closed' => /\ ~closed /\ reserved' = reserved
                       /\ Unclaimed' \subseteq Unclaimed /\ Reservers' \subseteq Reservers
    BY <1>0, <1>1 DEF SpawnBegin, Unclaimed, Reservers, TypeOK
  <2> QED
    BY <1>0, <2>1, CapacityKept
<1>2. ASSUME NEW c \in Callers, ReserveFull(c) PROVE Capacity'
  <2>1. /\ leases' \subseteq leases /\ records' \subseteq records
        /\ ~closed' => /\ ~closed /\ reserved' = reserved
                       /\ Unclaimed' \subseteq Unclaimed /\ Reservers' \subseteq Reservers
    BY <1>0, <1>2 DEF ReserveFull, Unclaimed, Reservers, TypeOK
  <2> QED
    BY <1>0, <2>1, CapacityKept
<1>3. ASSUME NEW c \in Callers, Reserve(c) PROVE Capacity'
  <2>1. Reservers' = Reservers \cup {c} /\ c \notin Reservers /\ Unclaimed' = Unclaimed
    BY <1>0, <1>3 DEF Reserve, Reservers, Unclaimed, TypeOK
  <2>2. Cardinality(Reservers') = Cardinality(Reservers) + 1
    BY <2>1, CapacityFinite, FS_AddElement
  <2> QED
    BY <1>0, <1>3, <2>1, <2>2, CapacityFinite DEF Reserve, Capacity
<1>4. ASSUME NEW c \in Callers, SpawnOpen(c) PROVE Capacity'
  <2>1. /\ leases' \subseteq leases /\ records' \subseteq records
        /\ ~closed' => /\ ~closed /\ reserved' = reserved
                       /\ Unclaimed' \subseteq Unclaimed /\ Reservers' \subseteq Reservers
    BY <1>0, <1>4 DEF SpawnOpen, Unclaimed, Reservers, TypeOK
  <2> QED
    BY <1>0, <2>1, CapacityKept
<1>5. ASSUME NEW c \in Callers, NEW t \in TaskIds, Materialize(c, t) PROVE Capacity'
  <2>1. Reservers' = Reservers /\ Unclaimed' \subseteq Unclaimed
    BY <1>0, <1>5 DEF Materialize, Reservers, Unclaimed, TypeOK
  <2>2. IsFiniteSet(records')
    BY <1>5, FS_AddElement DEF Materialize, Capacity
  <2>3. Cardinality(Unclaimed') <= Cardinality(Unclaimed) /\ Cardinality(Unclaimed') \in Nat
    BY <2>1, CapacityFinite, FS_Subset, FS_CardinalityType
  <2> QED
    BY <1>0, <1>5, <2>1, <2>2, <2>3, CapacityFinite DEF Materialize, Capacity
<1>6. ASSUME NEW c \in Callers, NEW t \in TaskIds, MaterializePanics(c, t) PROVE Capacity'
  <2>1. Reservers' = Reservers \ {c} /\ c \in Reservers /\ Unclaimed' \subseteq Unclaimed \cup {t}
    BY <1>0, <1>6 DEF MaterializePanics, Reservers, Unclaimed, TypeOK
  <2>2. IsFiniteSet(records')
    BY <1>6, FS_AddElement DEF MaterializePanics, Capacity
  <2>3. Cardinality(Reservers') = Cardinality(Reservers) - 1 /\ Cardinality(Reservers') \in Nat
    BY <2>1, CapacityFinite, FS_RemoveElement, FS_CardinalityType
  <2>4. Cardinality(Unclaimed') <= Cardinality(Unclaimed) + 1 /\ Cardinality(Unclaimed') \in Nat
    <3>1. /\ IsFiniteSet(Unclaimed \cup {t})
          /\ Cardinality(Unclaimed \cup {t}) \in Nat
          /\ Cardinality(Unclaimed \cup {t}) <= Cardinality(Unclaimed) + 1
      BY CapacityFinite, AddBound
    <3>2. /\ IsFiniteSet(Unclaimed')
          /\ Cardinality(Unclaimed') <= Cardinality(Unclaimed \cup {t})
          /\ Cardinality(Unclaimed') \in Nat
      BY <2>1, <3>1, FS_Subset, FS_CardinalityType
    <3> QED
      BY <3>1, <3>2, CapacityFinite
  <2> QED
    BY <1>0, <1>6, <2>2, <2>3, <2>4, CapacityFinite DEF MaterializePanics, Capacity
<1>7. ASSUME NEW c \in Callers, InsertLease(c) PROVE Capacity'
  <2>1. Reservers' = Reservers \ {c} /\ c \in Reservers /\ Unclaimed' \subseteq Unclaimed
    BY <1>0, <1>7 DEF InsertLease, Reservers, Unclaimed, TypeOK
  <2>2. Cardinality(Reservers') = Cardinality(Reservers) - 1 /\ Cardinality(Reservers') \in Nat
    BY <2>1, CapacityFinite, FS_RemoveElement, FS_CardinalityType
  <2>3. Cardinality(Unclaimed') <= Cardinality(Unclaimed) /\ Cardinality(Unclaimed') \in Nat
    BY <2>1, CapacityFinite, FS_Subset, FS_CardinalityType
  <2>4. IsFiniteSet(leases') /\ Cardinality(leases') <= Cardinality(leases) + 1 /\ Cardinality(leases') \in Nat
    BY <1>7, AddBound DEF InsertLease, Capacity
  <2> QED
    BY <1>0, <1>7, <2>2, <2>3, <2>4, CapacityFinite DEF InsertLease, Capacity, SaturatingDec
<1>8. ASSUME NEW c \in Callers, PostOpen(c) PROVE Capacity'
  <2>1. /\ leases' \subseteq leases /\ records' \subseteq records
        /\ ~closed' => /\ ~closed /\ reserved' = reserved
                       /\ Unclaimed' \subseteq Unclaimed /\ Reservers' \subseteq Reservers
    BY <1>0, <1>8 DEF PostOpen, Unclaimed, Reservers, TypeOK
  <2> QED
    BY <1>0, <2>1, CapacityKept
<1>9. ASSUME NEW c \in Callers, InitialRead(c) PROVE Capacity'
  <2>1. /\ leases' \subseteq leases /\ records' \subseteq records
        /\ ~closed' => /\ ~closed /\ reserved' = reserved
                       /\ Unclaimed' \subseteq Unclaimed /\ Reservers' \subseteq Reservers
    BY <1>0, <1>9 DEF InitialRead, Unclaimed, Reservers, TypeOK
  <2> QED
    BY <1>0, <2>1, CapacityKept
<1>10. ASSUME NEW c \in Callers, InitialFailed(c) PROVE Capacity'
  <2>1. /\ leases' \subseteq leases /\ records' \subseteq records
        /\ ~closed' => /\ ~closed /\ reserved' = reserved
                       /\ Unclaimed' \subseteq Unclaimed /\ Reservers' \subseteq Reservers
    BY <1>0, <1>10 DEF InitialFailed, Unclaimed, Reservers, TypeOK
  <2> QED
    BY <1>0, <2>1, CapacityKept
<1>11. ASSUME NEW c \in Callers, Unlease(c) PROVE Capacity'
  <2>1. /\ leases' \subseteq leases /\ records' \subseteq records
        /\ ~closed' => /\ ~closed /\ reserved' = reserved
                       /\ Unclaimed' \subseteq Unclaimed /\ Reservers' \subseteq Reservers
    BY <1>0, <1>11 DEF Unlease, Unclaimed, Reservers, TypeOK, RemovalJustified
  <2> QED
    BY <1>0, <2>1, CapacityKept
<1>12. ASSUME NEW c \in Callers, Publish(c) PROVE Capacity'
  <2>1. /\ leases' \subseteq leases /\ records' \subseteq records
        /\ ~closed' => /\ ~closed /\ reserved' = reserved
                       /\ Unclaimed' \subseteq Unclaimed /\ Reservers' \subseteq Reservers
    BY <1>0, <1>12 DEF Publish, Unclaimed, Reservers, TypeOK
  <2> QED
    BY <1>0, <2>1, CapacityKept
<1>13. ASSUME NEW c \in Callers, PublishRefused(c) PROVE Capacity'
  <2>1. /\ leases' \subseteq leases /\ records' \subseteq records
        /\ ~closed' => /\ ~closed /\ reserved' = reserved
                       /\ Unclaimed' \subseteq Unclaimed /\ Reservers' \subseteq Reservers
    BY <1>0, <1>13 DEF PublishRefused, Unclaimed, Reservers, TypeOK
  <2> QED
    BY <1>0, <2>1, CapacityKept
<1>14. ASSUME NEW c \in Callers, ShutdownBegin(c) PROVE Capacity'
  <2>1. /\ leases' \subseteq leases /\ records' \subseteq records
        /\ ~closed' => /\ ~closed /\ reserved' = reserved
                       /\ Unclaimed' \subseteq Unclaimed /\ Reservers' \subseteq Reservers
    BY <1>0, <1>14 DEF ShutdownBegin, Unclaimed, Reservers, TypeOK
  <2> QED
    BY <1>0, <2>1, CapacityKept
<1>15. ASSUME NEW c \in Callers, SetClosed(c) PROVE Capacity'
  <2>1. /\ leases' \subseteq leases /\ records' \subseteq records
        /\ ~closed' => /\ ~closed /\ reserved' = reserved
                       /\ Unclaimed' \subseteq Unclaimed /\ Reservers' \subseteq Reservers
    BY <1>0, <1>15 DEF SetClosed, Unclaimed, Reservers, TypeOK
  <2> QED
    BY <1>0, <2>1, CapacityKept
<1>16. ASSUME NEW c \in Callers, ManagerShutdown(c) PROVE Capacity'
  <2>1. /\ leases' \subseteq leases /\ records' \subseteq records
        /\ ~closed' => /\ ~closed /\ reserved' = reserved
                       /\ Unclaimed' \subseteq Unclaimed /\ Reservers' \subseteq Reservers
    BY <1>0, <1>16 DEF ManagerShutdown, Unclaimed, Reservers, TypeOK, IInv, Custody, LoopAndCloseOrder
  <2> QED
    BY <1>0, <2>1, CapacityKept
<1>17. ASSUME NEW c \in Callers, Drain(c) PROVE Capacity'
  <2>1. /\ leases' \subseteq leases /\ records' \subseteq records
        /\ ~closed' => /\ ~closed /\ reserved' = reserved
                       /\ Unclaimed' \subseteq Unclaimed /\ Reservers' \subseteq Reservers
    BY <1>0, <1>17 DEF Drain, Unclaimed, Reservers, TypeOK, IInv, Custody, LoopAndCloseOrder
  <2> QED
    BY <1>0, <2>1, CapacityKept
<1>18. ASSUME NEW c \in Callers, NEW o \in {"get", "update", "wait"}, NEW p \in Principals,
              NEW t \in TaskIds, AccessBegin(c, o, p, t)
       PROVE Capacity'
  <2>1. /\ leases' \subseteq leases /\ records' \subseteq records
        /\ ~closed' => /\ ~closed /\ reserved' = reserved
                       /\ Unclaimed' \subseteq Unclaimed /\ Reservers' \subseteq Reservers
    BY <1>0, <1>18 DEF AccessBegin, Unclaimed, Reservers, TypeOK
  <2> QED
    BY <1>0, <2>1, CapacityKept
<1>19. ASSUME NEW c \in Callers, LookupDenied(c) PROVE Capacity'
  <2>1. /\ leases' \subseteq leases /\ records' \subseteq records
        /\ ~closed' => /\ ~closed /\ reserved' = reserved
                       /\ Unclaimed' \subseteq Unclaimed /\ Reservers' \subseteq Reservers
    BY <1>0, <1>19 DEF LookupDenied, Unclaimed, Reservers, TypeOK
  <2> QED
    BY <1>0, <2>1, CapacityKept
<1>20. ASSUME NEW c \in Callers, LookupGranted(c) PROVE Capacity'
  <2>1. /\ leases' \subseteq leases /\ records' \subseteq records
        /\ ~closed' => /\ ~closed /\ reserved' = reserved
                       /\ Unclaimed' \subseteq Unclaimed /\ Reservers' \subseteq Reservers
    BY <1>0, <1>20 DEF LookupGranted, Unclaimed, Reservers, TypeOK, CallsWellFormed
  <2> QED
    BY <1>0, <2>1, CapacityKept
<1>21. ASSUME NEW c \in Callers, Mutate(c) PROVE Capacity'
  <2>1. /\ leases' \subseteq leases /\ records' \subseteq records
        /\ ~closed' => /\ ~closed /\ reserved' = reserved
                       /\ Unclaimed' \subseteq Unclaimed /\ Reservers' \subseteq Reservers
    BY <1>0, <1>21 DEF Mutate, Unclaimed, Reservers, TypeOK
  <2> QED
    BY <1>0, <2>1, CapacityKept
<1>22. ASSUME NEW c \in Callers, Read(c) PROVE Capacity'
  <2>1. /\ leases' \subseteq leases /\ records' \subseteq records
        /\ ~closed' => /\ ~closed /\ reserved' = reserved
                       /\ Unclaimed' \subseteq Unclaimed /\ Reservers' \subseteq Reservers
    BY <1>0, <1>22 DEF Read, Unclaimed, Reservers, TypeOK
  <2> QED
    BY <1>0, <2>1, CapacityKept
<1>23. ASSUME NEW c \in Callers, RemoveBinding(c) PROVE Capacity'
  <2>1. /\ leases' \subseteq leases /\ records' \subseteq records
        /\ ~closed' => /\ ~closed /\ reserved' = reserved
                       /\ Unclaimed' \subseteq Unclaimed /\ Reservers' \subseteq Reservers
    BY <1>0, <1>23 DEF RemoveBinding, Unclaimed, Reservers, TypeOK, RemovalJustified
  <2> QED
    BY <1>0, <2>1, CapacityKept
<1>24. ASSUME NEW c \in Callers, UnbindReturns(c) PROVE Capacity'
  <2>1. /\ leases' \subseteq leases /\ records' \subseteq records
        /\ ~closed' => /\ ~closed /\ reserved' = reserved
                       /\ Unclaimed' \subseteq Unclaimed /\ Reservers' \subseteq Reservers
    BY <1>0, <1>24 DEF UnbindReturns, Unclaimed, Reservers, TypeOK
  <2> QED
    BY <1>0, <2>1, CapacityKept
<1>25. ASSUME NEW c \in Callers, RegisterRejected(c) PROVE Capacity'
  <2>1. /\ leases' \subseteq leases /\ records' \subseteq records
        /\ ~closed' => /\ ~closed /\ reserved' = reserved
                       /\ Unclaimed' \subseteq Unclaimed /\ Reservers' \subseteq Reservers
    BY <1>0, <1>25 DEF RegisterRejected, Unclaimed, Reservers, TypeOK
  <2> QED
    BY <1>0, <2>1, CapacityKept
<1>26. ASSUME NEW c \in Callers, RegisterWaiter(c) PROVE Capacity'
  <2>1. /\ leases' \subseteq leases /\ records' \subseteq records
        /\ ~closed' => /\ ~closed /\ reserved' = reserved
                       /\ Unclaimed' \subseteq Unclaimed /\ Reservers' \subseteq Reservers
    BY <1>0, <1>26 DEF RegisterWaiter, Unclaimed, Reservers, TypeOK
  <2> QED
    BY <1>0, <2>1, CapacityKept
<1>27. ASSUME NEW c \in Callers, WaitEnds(c) PROVE Capacity'
  <2>1. /\ leases' \subseteq leases /\ records' \subseteq records
        /\ ~closed' => /\ ~closed /\ reserved' = reserved
                       /\ Unclaimed' \subseteq Unclaimed /\ Reservers' \subseteq Reservers
    BY <1>0, <1>27 DEF WaitEnds, Unclaimed, Reservers, TypeOK
  <2> QED
    BY <1>0, <2>1, CapacityKept
<1>28. CASE ObserverScan
  <2>1. /\ leases' \subseteq leases /\ records' \subseteq records
        /\ ~closed' => /\ ~closed /\ reserved' = reserved
                       /\ Unclaimed' \subseteq Unclaimed /\ Reservers' \subseteq Reservers
    BY <1>0, <1>28 DEF ObserverScan, Unclaimed, Reservers, TypeOK
  <2> QED
    BY <1>0, <2>1, CapacityKept
<1>29. CASE ObserverRead
  <2>1. /\ leases' \subseteq leases /\ records' \subseteq records
        /\ ~closed' => /\ ~closed /\ reserved' = reserved
                       /\ Unclaimed' \subseteq Unclaimed /\ Reservers' \subseteq Reservers
    BY <1>0, <1>29 DEF ObserverRead, Unclaimed, Reservers, TypeOK
  <2> QED
    BY <1>0, <2>1, CapacityKept
<1>30. CASE ObserverEvict
  <2>1. /\ leases' \subseteq leases /\ records' \subseteq records
        /\ ~closed' => /\ ~closed /\ reserved' = reserved
                       /\ Unclaimed' \subseteq Unclaimed /\ Reservers' \subseteq Reservers
    BY <1>0, <1>30 DEF ObserverEvict, Unclaimed, Reservers, TypeOK, RemovalJustified
  <2> QED
    BY <1>0, <2>1, CapacityKept
<1>31. ASSUME NEW t \in TaskIds, RecordExpires(t) PROVE Capacity'
  <2>1. /\ leases' \subseteq leases /\ records' \subseteq records
        /\ ~closed' => /\ ~closed /\ reserved' = reserved
                       /\ Unclaimed' \subseteq Unclaimed /\ Reservers' \subseteq Reservers
    BY <1>0, <1>31 DEF RecordExpires, Unclaimed, Reservers, TypeOK
  <2> QED
    BY <1>0, <2>1, CapacityKept
<1>32. CASE UNCHANGED vars
  BY <1>32 DEF vars, Capacity, Unclaimed, Reservers
<1> QED
  BY <1>1, <1>2, <1>3, <1>4, <1>5, <1>6, <1>7, <1>8, <1>9, <1>10, <1>11, <1>12, <1>13,
     <1>14, <1>15, <1>16, <1>17, <1>18, <1>19, <1>20, <1>21, <1>22, <1>23, <1>24,
     <1>25, <1>26, <1>27, <1>28, <1>29, <1>30, <1>31, <1>32
  DEF Next, CallBegin, CallStep, ObserverStep

(* max_retained_tasks bounds the records RMCP keeps, not only the leases   *)
(* (RecordsWithinCapacity), for any number of concurrent spawns.           *)
THEOREM RetainedBound == Spec => []RecordsWithinCapacity
<1>1. Init => Capacity
  <2> SUFFICES ASSUME Init PROVE Capacity
    OBVIOUS
  <2>1. Unclaimed = {} /\ Reservers = {} /\ leases = {} /\ records = {} /\ reserved = 0
    BY DEF Init, Unclaimed, Reservers
  <2> QED
    BY <2>1, FS_EmptySet, ConstantsAssumption DEF Capacity
<1>2. Capacity /\ IInv => RecordsWithinCapacity
  <2> SUFFICES ASSUME Capacity, IInv, ~closed
               PROVE  Cardinality(records) <= MaxRetained /\ Cardinality(leases) + reserved <= MaxRetained
    BY DEF RecordsWithinCapacity
  <2> DEFINE Leasing == {c \in Callers : pc[c] = "lease"}
             Claimed == {task[c] : c \in Leasing}
             claim == [c \in Leasing |-> task[c]]
  <2>1. IsFiniteSet(Leasing) /\ Cardinality(Leasing) <= Cardinality(Reservers) /\ Cardinality(Leasing) \in Nat
    <3>1. Leasing \subseteq Reservers
      BY DEF Reservers
    <3> QED
      BY <3>1, CapacityFinite, FS_Subset, FS_CardinalityType
  <2>2. claim \in Surjection(Leasing, Claimed)
    BY DEF Surjection
  <2>3. IsFiniteSet(Claimed) /\ Cardinality(Claimed) <= Cardinality(Leasing) /\ Cardinality(Claimed) \in Nat
    <3> HIDE DEF Leasing, Claimed, claim
    <3> QED
      BY <2>1, <2>2, FS_Surjection, FS_CardinalityType
  <2>4. records \subseteq leases \cup (Unclaimed \cup Claimed)
    BY DEF Unclaimed
  <2> HIDE DEF Leasing, Claimed, claim
  <2>5. /\ IsFiniteSet(Unclaimed \cup Claimed)
        /\ Cardinality(Unclaimed \cup Claimed) \in Nat
        /\ Cardinality(Unclaimed \cup Claimed) <= Cardinality(Unclaimed) + Cardinality(Claimed)
    BY <2>3, CapacityFinite, UnionBound
  <2>6. /\ IsFiniteSet(leases \cup (Unclaimed \cup Claimed))
        /\ Cardinality(leases \cup (Unclaimed \cup Claimed)) \in Nat
        /\ Cardinality(leases \cup (Unclaimed \cup Claimed)) <= Cardinality(leases) + Cardinality(Unclaimed \cup Claimed)
    BY <2>5, UnionBound DEF Capacity
  <2>7. Cardinality(records) <= Cardinality(leases \cup (Unclaimed \cup Claimed))
    BY <2>4, <2>6, FS_Subset
  <2>8. reserved \in Nat
    BY DEF IInv, Ownership, TypeOK
  <2> QED
    BY <2>1, <2>3, <2>5, <2>6, <2>7, <2>8, CapacityFinite, ConstantsAssumption DEF Capacity
<1> QED
  BY <1>1, <1>2, CapacityStep, Invariance, PTL DEF Spec

=============================================================================
