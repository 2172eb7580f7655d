------------------------ MODULE TaskObservationProofs ------------------------
(***************************************************************************)
(* Theorems about TaskObservation, for any number of readers and waiters   *)
(* and of updates.                                                         *)
(***************************************************************************)
EXTENDS TaskObservation, TLAPS

Snapshots == 0..Terminal

ObservationTypes ==
  /\ rmcp \in Snapshots /\ observed \in Snapshots
  /\ operation \in {"running", "updated", "dropping", "dropped", "ended"}
  /\ generation \in Nat /\ seen \in Nat /\ settlement \in BOOLEAN
  /\ opc \in {"scan", "sleep", "slot", "gate", "evict", "observe", "settle", "lease"}
  /\ oloc \in [sel : Nat, snap : Snapshots, gen : Nat, deadline : BOOLEAN]
  /\ leased \in BOOLEAN /\ probe \in {"none", "armed", "due"}
  /\ rpc \in [Readers -> {"idle", "hint", "generation", "read", "remove", "observe", "lease"}]
  /\ rloc \in [Readers -> [gen : Nat, snap : Snapshots]]

(* Whoever holds the terminal snapshot took it from a record that RMCP has *)
(* settled; the record can only expire after that.                         *)
TerminalIsFinal ==
  /\ operation = "ended" => rmcp \in {Terminal, Gone}
  /\ rmcp = Terminal => operation = "ended"
  /\ oloc.snap = Terminal => operation = "ended"
  /\ \A r \in Readers : rloc[r].snap = Terminal => operation = "ended"

ObservationInv == ObservationTypes /\ TerminalIsFinal

(* What a step of a caller of wait leaves alone; it may hint. *)
WaitsOnly ==
  /\ UNCHANGED <<rmcp, operation, binding, settlement, lease, obs, readers>>
  /\ generation' \in {generation, generation + 1}

(* A step of a caller of wait touches the generation and itself alone. *)
LEMMA WaitFrame ==
  ASSUME NEW w \in Waiters,
         \/ \E cond, after : WaitBegins(w, cond, after)
         \/ WaitStep(w) \/ WaitTimesOut(w)
  PROVE  WaitsOnly
<1> USE DEF WaitsOnly, signal, Hint
<1>1. ASSUME NEW cond, NEW after, WaitBegins(w, cond, after) PROVE WaitsOnly
  BY <1>1 DEF WaitBegins
<1>2. CASE WaitRequests(w)
  BY <1>2 DEF WaitRequests
<1>3. CASE WaitArmsInitial(w)
  BY <1>3 DEF WaitArmsInitial
<1>4. CASE WaitChecksInitial(w)
  BY <1>4 DEF WaitChecksInitial
<1>5. CASE WaitAwaitsInitial(w)
  BY <1>5 DEF WaitAwaitsInitial
<1>6. CASE WaitSetsBaseline(w)
  BY <1>6 DEF WaitSetsBaseline
<1>7. CASE WaitArms(w)
  BY <1>7 DEF WaitArms
<1>8. CASE WaitChecks(w)
  BY <1>8 DEF WaitChecks
<1>9. CASE WaitAwaits(w)
  BY <1>9 DEF WaitAwaits
<1>10. CASE WaitTimesOut(w)
  BY <1>10 DEF WaitTimesOut
<1> QED
  BY <1>1, <1>2, <1>3, <1>4, <1>5, <1>6, <1>7, <1>8, <1>9, <1>10 DEF WaitStep

(* The task runs and nobody has read it. *)
LEMMA ObservationInit == Init => ObservationInv
<1> SUFFICES ASSUME Init PROVE ObservationInv
  OBVIOUS
<1> USE ConstantsAssumption DEF Init, NoLocals, NoRead, Terminal, Gone
<1>1. ObservationTypes
  <2>1. 0 \in Nat /\ 0 \in Snapshots /\ 1 \in Snapshots
    BY DEF Snapshots
  <2> QED
    BY <2>1 DEF ObservationTypes
<1>2. TerminalIsFinal
  BY DEF TerminalIsFinal
<1> QED
  BY <1>1, <1>2 DEF ObservationInv

(* Every step keeps the types and the order of settlement. *)
LEMMA ObservationStep == ObservationInv /\ [Next]_vars => ObservationInv'
<1> USE ConstantsAssumption
<1> SUFFICES ASSUME ObservationInv, [Next]_vars PROVE ObservationInv'
  OBVIOUS
<1>00. /\ NoRead \in [gen : Nat, snap : Snapshots] /\ NoRead.snap = Gone
       /\ NoLocals \in [sel : Nat, snap : Snapshots, gen : Nat, deadline : BOOLEAN] /\ NoLocals.snap = Gone
  <2>1. 0 \in Nat /\ 0 \in Snapshots
    BY DEF Snapshots, Terminal
  <2> QED
    BY <2>1 DEF NoRead, NoLocals, Gone
<1>0. 0 \in Snapshots /\ Terminal \in Snapshots /\ Terminal # Gone /\ Gone \in Snapshots
      /\ \A n \in 1..(MaxVersion - 1) : n + 1 \in Snapshots /\ n + 1 # Terminal /\ n # Terminal /\ n # Gone
  BY DEF Snapshots, Terminal, Gone
<1> USE DEF ObservationInv, ObservationTypes, TerminalIsFinal, binding, signal, lease, obs, readers, waits, ArmTtl
<1>1. CASE OperationUpdates
  BY <1>00, <1>0, <1>1 DEF OperationUpdates
<1>2. CASE OperationHints
  BY <1>00, <1>0, <1>2 DEF OperationHints, Hint
<1>3. CASE OperationDrops
  BY <1>00, <1>0, <1>3 DEF OperationDrops
<1>4. CASE OperationDropHints
  BY <1>00, <1>0, <1>4 DEF OperationDropHints, Hint
<1>5. CASE RmcpSettles
  BY <1>00, <1>0, <1>5 DEF RmcpSettles
<1>6. CASE RmcpExpires
  BY <1>00, <1>0, <1>6 DEF RmcpExpires
<1>7. CASE ProbeFallsDue
  BY <1>00, <1>0, <1>7 DEF ProbeFallsDue
<1>8. ASSUME NEW r \in Readers, ReaderUpdates(r) PROVE ObservationInv'
  BY <1>00, <1>0, <1>8 DEF ReaderUpdates, RGoto
<1>9. ASSUME NEW r \in Readers, ReaderBegins(r) PROVE ObservationInv'
  BY <1>00, <1>0, <1>9 DEF ReaderBegins, RGoto
<1>10. ASSUME NEW r \in Readers, ReaderHints(r) PROVE ObservationInv'
  BY <1>00, <1>0, <1>10 DEF ReaderHints, RGoto, Hint
<1>11. ASSUME NEW r \in Readers, ReaderLoadsGeneration(r) PROVE ObservationInv'
  BY <1>00, <1>0, <1>11 DEF ReaderLoadsGeneration, RGoto
<1>12. ASSUME NEW r \in Readers, ReaderReads(r) PROVE ObservationInv'
  BY <1>00, <1>0, <1>12 DEF ReaderReads, RGoto
<1>13. ASSUME NEW r \in Readers, ReaderRemoves(r) PROVE ObservationInv'
  <2>1. rloc' = [rloc EXCEPT ![r] = NoRead] /\ rpc' = [rpc EXCEPT ![r] = "idle"]
    BY <1>13 DEF ReaderRemoves, RGoto
  <2>2. generation' \in Nat
    BY <1>13 DEF ReaderRemoves, Hint
  <2>3. leased' \in BOOLEAN
    BY <1>13 DEF ReaderRemoves
  <2>4. UNCHANGED <<rmcp, operation, binding, settlement, seen, probe, obs>>
    BY <1>13 DEF ReaderRemoves
  <2> QED
    BY <1>00, <1>0, <2>1, <2>2, <2>3, <2>4
<1>14. ASSUME NEW r \in Readers, ReaderObserves(r) PROVE ObservationInv'
  BY <1>00, <1>0, <1>14 DEF ReaderObserves, RGoto, Observe
<1>15. ASSUME NEW r \in Readers, ReaderLeases(r) PROVE ObservationInv'
  <2>1. rloc' = [rloc EXCEPT ![r] = NoRead] /\ rpc' = [rpc EXCEPT ![r] = "idle"]
    BY <1>15 DEF ReaderLeases, RGoto
  <2>2. seen' \in Nat /\ probe' \in {"none", "armed", "due"}
    BY <1>15 DEF ReaderLeases
  <2>3. settlement' \in BOOLEAN
    BY <1>15 DEF ReaderLeases
  <2>4. UNCHANGED <<rmcp, operation, binding, generation, leased, obs>>
    BY <1>15 DEF ReaderLeases
  <2> QED
    BY <1>00, <1>0, <2>1, <2>2, <2>3, <2>4
<1>16. CASE ObserverScans
  BY <1>00, <1>0, <1>16 DEF ObserverScans, OGoto
<1>17. CASE ObserverWakes
  BY <1>00, <1>0, <1>17 DEF ObserverWakes, OGoto
<1>18. CASE ObserverTakesSlot
  BY <1>00, <1>0, <1>18 DEF ObserverTakesSlot, OGoto
<1>19. CASE ObserverDelays
  BY <1>00, <1>0, <1>19 DEF ObserverDelays, OGoto
<1>20. CASE ObserverCoalesces
  BY <1>00, <1>0, <1>20 DEF ObserverCoalesces, OGoto
<1>21. CASE ObserverReads
  BY <1>00, <1>0, <1>21 DEF ObserverReads, OGoto
<1>22. CASE ObserverEvicts
  <2>1. oloc' = NoLocals /\ opc' = "scan" /\ generation' = generation + 1
    BY <1>22 DEF ObserverEvicts, OGoto, Hint
  <2>2. leased' \in BOOLEAN
    BY <1>22 DEF ObserverEvicts
  <2>3. UNCHANGED <<rmcp, operation, binding, settlement, seen, probe, readers>>
    BY <1>22 DEF ObserverEvicts
  <2> QED
    BY <1>00, <1>0, <2>1, <2>2, <2>3
<1>23. CASE ObserverObserves
  BY <1>00, <1>0, <1>23 DEF ObserverObserves, OGoto, Observe
<1>24. CASE ObserverSettles
  BY <1>00, <1>0, <1>24 DEF ObserverSettles, OGoto
<1>25. CASE ObserverLeases
  BY <1>00, <1>0, <1>25 DEF ObserverLeases, OGoto
<1>26. CASE WaitsOnly
  BY <1>00, <1>0, <1>26 DEF WaitsOnly
<1>27. CASE UNCHANGED vars
  BY <1>27 DEF vars
<1> QED
  BY <1>27, <1>1, <1>2, <1>3, <1>4, <1>5, <1>6, <1>7, <1>8, <1>9, <1>10, <1>11, <1>12,
     <1>13, <1>14, <1>15, <1>16, <1>17, <1>18, <1>19, <1>20, <1>21, <1>22, <1>23,
     <1>24, <1>25, <1>26, WaitFrame
  DEF Next, OperationStep, RmcpStep, TimeStep, ReaderStep, ObserverStep

(* A settlement obligation is dropped only for a task RMCP has settled     *)
(* (SettlementDischargedByTerminal), whoever observed it.                  *)
THEOREM SettlementDischarge == Spec => SettlementDischargedByTerminal
<1>1. ASSUME ObservationInv, [Next]_vars, settlement, ~settlement'
      PROVE  rmcp \in {Terminal, Gone} /\ operation = "ended"
  <2> USE DEF signal
  <2>1. ASSUME NEW r \in Readers, ReaderLeases(r) PROVE rloc[r].snap = Terminal
    BY <1>1, <2>1 DEF ReaderLeases
  <2>2. CASE ObserverSettles
    BY <1>1, <2>2 DEF ObserverSettles, ObservationInv, TerminalIsFinal
  <2>3. CASE OperationStep \/ RmcpStep \/ TimeStep
    BY <1>1, <2>3
    DEF OperationStep, RmcpStep, TimeStep, OperationUpdates, OperationHints, OperationDrops, OperationDropHints,
        RmcpSettles, RmcpExpires, ProbeFallsDue
  <2>4. CASE ObserverStep /\ ~ObserverSettles
    BY <1>1, <2>4
    DEF ObserverStep, ObserverScans, ObserverWakes, ObserverTakesSlot, ObserverDelays, ObserverCoalesces,
        ObserverReads, ObserverEvicts, ObserverObserves, ObserverLeases
  <2>5. ASSUME NEW r \in Readers,
               \/ ReaderUpdates(r) \/ ReaderBegins(r) \/ ReaderHints(r) \/ ReaderLoadsGeneration(r)
               \/ ReaderReads(r) \/ ReaderRemoves(r) \/ ReaderObserves(r)
        PROVE  FALSE
    BY <1>1, <2>5
    DEF ReaderUpdates, ReaderBegins, ReaderHints, ReaderLoadsGeneration, ReaderReads, ReaderRemoves, ReaderObserves
  <2>6. CASE WaitsOnly
    BY <1>1, <2>6 DEF WaitsOnly
  <2>7. CASE UNCHANGED vars
    BY <1>1, <2>7 DEF vars
  <2>8. (\E r \in Readers : rloc[r].snap = Terminal) => rmcp \in {Terminal, Gone} /\ operation = "ended"
    BY <1>1 DEF ObservationInv, TerminalIsFinal
  <2> QED
    BY <1>1, <2>1, <2>2, <2>3, <2>4, <2>5, <2>6, <2>7, <2>8, WaitFrame DEF Next, ReaderStep
<1>2. ObservationInv /\ [Next]_vars =>
        [settlement /\ ~settlement' => rmcp \in {Terminal, Gone} /\ operation = "ended"]_vars
  BY <1>1
<1> QED
  BY ObservationInit, ObservationStep, <1>2, PTL DEF Spec, SettlementDischargedByTerminal

-----------------------------------------------------------------------------
(* With no caller of get, update or cancel the observation loop is the     *)
(* only one that observes.                                                 *)

(* Generations are loaded after they are reached. *)
GenerationOrder ==
  /\ seen <= generation /\ oloc.sel <= generation /\ oloc.gen <= generation
  /\ operation \in {"running", "updated"} => ~settlement
  /\ operation \in {"dropping", "dropped"} => settlement

(* A hint between an update of RMCP and now would have moved the           *)
(* generation away from the lease's and from the one the loop selected.    *)
Unhinted == operation = "running" /\ rmcp # Gone
Settled  == operation = "ended" /\ ~settlement /\ rmcp # Gone

SnapshotCurrent ==
  /\ Unhinted /\ seen = generation => observed = rmcp
  /\ Unhinted /\ opc \in {"observe", "settle"} /\ generation \in {seen, oloc.sel} => oloc.snap = rmcp
  /\ Unhinted /\ opc = "lease" /\ generation = oloc.sel /\ oloc.gen = oloc.sel => observed = rmcp
  /\ opc = "settle" => observed = oloc.snap
  /\ Settled => observed = Terminal
  /\ Settled /\ opc = "observe" => oloc.snap = Terminal

CacheInv == GenerationOrder /\ SnapshotCurrent

(* Every step of the loop, the operation and the waiters keeps CacheInv. *)
LEMMA CacheStep == Readers = {} /\ ObservationInv /\ CacheInv /\ [Next]_vars => CacheInv'
<1> USE ConstantsAssumption
<1> SUFFICES ASSUME Readers = {}, ObservationInv, CacheInv, [Next]_vars PROVE CacheInv'
  OBVIOUS
<1>0. /\ Terminal # Gone
      /\ \A n \in 1..(MaxVersion - 1) : n + 1 # Terminal /\ n # Terminal /\ n # Gone
  BY DEF Terminal, Gone
<1>00. NoLocals.sel = 0 /\ NoLocals.gen = 0
  BY DEF NoLocals
<1> USE DEF ObservationInv, ObservationTypes, TerminalIsFinal, CacheInv, GenerationOrder, SnapshotCurrent,
            Unhinted, Settled, binding, signal, lease, obs, readers, waits
<1>1. CASE OperationUpdates
  BY <1>00, <1>0, <1>1 DEF OperationUpdates
<1>2. CASE OperationHints
  BY <1>00, <1>0, <1>2 DEF OperationHints, Hint
<1>3. CASE OperationDrops
  BY <1>00, <1>0, <1>3 DEF OperationDrops
<1>4. CASE OperationDropHints
  BY <1>00, <1>0, <1>4 DEF OperationDropHints, Hint
<1>5. CASE RmcpSettles
  BY <1>00, <1>0, <1>5 DEF RmcpSettles
<1>6. CASE RmcpExpires
  BY <1>00, <1>0, <1>6 DEF RmcpExpires
<1>7. CASE ProbeFallsDue
  BY <1>00, <1>0, <1>7 DEF ProbeFallsDue
<1>8. CASE ObserverScans
  BY <1>00, <1>0, <1>8 DEF ObserverScans, OGoto
<1>9. CASE ObserverWakes
  BY <1>00, <1>0, <1>9 DEF ObserverWakes, OGoto
<1>10. CASE ObserverTakesSlot
  BY <1>00, <1>0, <1>10 DEF ObserverTakesSlot, OGoto
<1>11. CASE ObserverDelays
  BY <1>00, <1>0, <1>11 DEF ObserverDelays, OGoto
<1>12. CASE ObserverCoalesces
  BY <1>00, <1>0, <1>12 DEF ObserverCoalesces, OGoto
<1>13. CASE ObserverReads
  BY <1>00, <1>0, <1>13 DEF ObserverReads, OGoto
<1>14. CASE ObserverEvicts
  BY <1>00, <1>0, <1>14 DEF ObserverEvicts, OGoto, Hint
<1>15. CASE ObserverObserves
  BY <1>00, <1>0, <1>15 DEF ObserverObserves, OGoto, Observe
<1>16. CASE ObserverSettles
  BY <1>00, <1>0, <1>16 DEF ObserverSettles, OGoto
<1>17. CASE ObserverLeases
  BY <1>00, <1>0, <1>17 DEF ObserverLeases, OGoto
<1>18. CASE WaitsOnly
  BY <1>00, <1>0, <1>18 DEF WaitsOnly
<1>19. CASE UNCHANGED vars
  BY <1>19 DEF vars
<1> HIDE DEF CacheInv
<1> QED
  BY <1>19, <1>1, <1>2, <1>3, <1>4, <1>5, <1>6, <1>7, <1>8, <1>9, <1>10, <1>11, <1>12,
     <1>13, <1>14, <1>15, <1>16, <1>17, <1>18, WaitFrame
  DEF Next, OperationStep, RmcpStep, TimeStep, ReaderStep, ObserverStep

(* With the observation loop as the only observer, a clean lease shows     *)
(* RMCP's state (CleanCacheIsCurrent): what both coalescing checks rely    *)
(* on.  The violation run shows that readers break it.                     *)
THEOREM CleanCache == Readers = {} => (Spec => []CleanCacheIsCurrent)
<1>1. Init => CacheInv
  BY ConstantsAssumption
  DEF Init, CacheInv, GenerationOrder, SnapshotCurrent, Unhinted, Settled, NoLocals
<1>2. ObservationInv /\ CacheInv => CleanCacheIsCurrent
  BY DEF ObservationInv, TerminalIsFinal, CacheInv, SnapshotCurrent, Unhinted, Settled, CleanCacheIsCurrent
<1>3. Readers = {} /\ ObservationInv /\ CacheInv /\ [Next]_vars => CacheInv'
  BY CacheStep
<1>4. SUFFICES ASSUME Readers = {} PROVE Spec => []CleanCacheIsCurrent
  OBVIOUS
<1>5. ObservationInv /\ CacheInv /\ [Next]_vars => CacheInv'
  BY <1>3, <1>4
<1> QED
  BY ObservationInit, ObservationStep, <1>1, <1>2, <1>5, PTL DEF Spec

==============================================================================
