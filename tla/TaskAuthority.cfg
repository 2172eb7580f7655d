SPECIFICATION Spec
CONSTANTS
  Callers = {c1, c2, c3}
  TaskIds = {t1, t2}
  Principals = {p1, p2}
  NoPrincipal = NoPrincipal
  NoTask = NoTask
  MaxRetained = 1
  MaxWaiters = 1
SYMMETRY Symmetry
INVARIANTS
  TypeOK
  AccessByOwner
  NoOrphanRecord
  RecordsWithinCapacity
  BoundHasLease
  WaitersCounted
  ShutdownDrains
PROPERTIES
  UnboundOnlyWithoutRecord
