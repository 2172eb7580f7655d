SPECIFICATION FairSpec
CONSTANTS
  Streams = {stdout, stderr}
  Cap = 1
  MaxBytes = 2
  BufferSize = 2
CHECK_DEADLOCK FALSE
INVARIANTS
  CompleteIsWhole
  OverflowIsReal
  EndsAreJustified
PROPERTIES
  CaptureReturns
