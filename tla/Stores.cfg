SPECIFICATION Spec
CONSTANTS
  Pads = {s1, s2}
  PadCallers = {c1, c2}
  PadTables = {t1}
  PadBatches = {1}
  PadMaxRows = 2
  PadTtl = 1
  PadMaxFile = 2
  PadSessionLimits = {1}
  PadTableLimits = {1, 2}
  PadRemoveFails = TRUE
  NoPad = NoPad
  NoTable = NoTable
  NoFile = NoFile
  QueryTimeouts = {0, 2}
  QueryStatements = 2
  QueryMaxTime = 4
  EvStreams = {s1, s2}
  EvMaxEvents = 1
  EvMaxStreams = 1
  EvTtls = {EvNever, 0}
  EvNever = EvNever
  EvMaxSeq = 2
  EvMaxTime = 1
  EvMaxQueue = 1
  HistPrincipals = {p, q}
  HistTasks = {h1, h2, h3}
  HistWriters = {w1, w2}
  HistMaxEntries = 2
  HistMaxAge = 1
  HistMaxRevision = 1
  HistMaxTime = 2
  NoSummary = NoSummary
  NoInstant = NoInstant
  OtTokens = {u, v, w}
  OtBindings = {b1, b2}
  OtTtl = 1
  OtMaxEntries = 2
  OtMaxGeneration = 3
  OtMaxTime = 2
  ObPrincipals = {p, q}
  ObTasks = {o1, o2, o3}
  NoTaskId = NoTaskId
  JwRequests = {r1, r2}
  JwTtl = 3
  JwJitter = 1
  JwCooldown = 2
  JwMaxRotations = 1
  JwMaxTime = 4
  NoRequest = NoRequest
  UpCallers = {u1, u2}
  UpMaxRotations = 3
  NoUpCaller = NoUpCaller
  NoUpToken = NoUpToken
SYMMETRY Symmetry
INVARIANTS
  QuotaCoversData
  OutcomeIsTrue
  SqliteKeepsWindow
  MemoryIsIndexed
  HistoryIsBounded
  OpaqueTokensCoherent
  ObserverSeesEveryTask
  DueTaskIsNext
  ProviderTrafficBounded
  RefusedKeyIsRetiredOrNew
  NewestTokenKept
PROPERTIES
  LiveEntriesStay
CHECK_DEADLOCK FALSE
