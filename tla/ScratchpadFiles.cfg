SPECIFICATION PadSpec
CONSTANTS
  Pads = {s1, s2}
  PadCallers = {c1}
  PadTables = {t1}
  PadBatches = {1}
  PadMaxRows = 2
  PadTtl = 1
  PadMaxFile = 2
  PadSessionLimits = {1}
  PadTableLimits = {1}
  PadRemoveFails = FALSE
  NoPad = NoPad
  NoTable = NoTable
  NoFile = NoFile
INVARIANT NoFileOutlivesSession
CHECK_DEADLOCK FALSE
