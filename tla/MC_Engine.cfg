SPECIFICATION Spec
CONSTANTS
  NaN = NaN
  Panic = Panic
  Spread = 9
  Infinity = 1000
  Records <- MCRecords
  MaxRecords = 3
  Temperatures <- MCTemperatures
  LiveIds = {"a", "b", "c"}
  Keys <- MCKeys
  Values = {1, 2}
  Sims = {"Dot", "NegSquared", "Indicator"}
  IncEps <- MCIncEps
  AnyId = AnyId
  NodeKeys <- MCNodeKeys
  Levels <- MCLevels
  Selections = {"KeepBest", "Diversity"}
  M = 2
  EfBuild = 2
  Widen = 1
  MaxNodes = 6
  MaxDead = 2
  Probes <- MCProbes
  Payloads = {a, b}
  MaxLeaves = 6
  PgRows <- MCPgRows
  Workers = {"w1", "w2"}
  MaxPgRows = 3
  SqlNull = SqlNull
  BadEps = BadEps
  PgError = PgError
  JoinKeys = {1, 2}
  MaxTuples = 6
  p = p
  q = q
  t1 = t1
  v1 = v1
  SketchSample = 3
  HistBuckets = 2
  MinSamples = 1
  TailExp = 2
  Absent = Absent
  Unbound = Unbound
  WrongDim = WrongDim
  Refused = Refused
  KLadder <- MCLadder
  Tables = {t1}
  Contents <- MCContents
  NewRows <- MCNewRows
  KeyValues = {6}
  ViewNames = {v1}
  ViewXs = {1}
  ViewEps = {1}
  Preds <- MCPreds
  Queries <- MCQueries
  MaxRows = 3
  MaxIds = 3
  Tombstone = Tombstone
  Stale = Stale
  NoQuery = NoQuery
INVARIANTS
  PartitionFree OperatorsAgree
  IncrementalExact
  StatsFresh ViewsExact IndexExact AnswersExact ContractHeld
  SearchServes GraphSound
  ProofsVerify VerifySound TamperEvident
  ParallelIsSerial
  ChainExact BatchJoinsExact
CHECK_DEADLOCK FALSE
