SPECIFICATION FairSpec
CONSTANTS
  Callers = {c1, c2}
  TaskIds = {t1, t2}
  Principals = {p1, p2}
  NoPrincipal = NoPrincipal
  NoTask = NoTask
  MaxRetained = 2
  MaxWaiters = 1
PROPERTIES
  ImplementsRegistry
  ShutdownCompletes
