SPECIFICATION Spec
CONSTANTS
  Sessions = {s1, s2}
  Callers = {c1, c2}
  NoSession = NoSession
  Never = Never
  MaxSessions = 1
  Expiring = TRUE
  Timeout = 1
  SweepInterval = 1
  MaxStreams = 2
  MaxTime = 1
SYMMETRY Symmetry
INVARIANTS
  SessionsBounded
  PlacesGivenBack
  StreamsCounted
