SPECIFICATION Spec
CONSTANTS
  Children = {p1, p2}
  Unlocked = Unlocked
  MaxWaitErrors = 2
SYMMETRY Symmetry
CHECK_DEADLOCK FALSE
INVARIANTS
  UnreapedIsRegistered
  ShutdownMissesNobody
PROPERTIES
  NoSignalAfterReap
  ExitedIsFinal
