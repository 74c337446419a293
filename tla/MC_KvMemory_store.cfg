SPECIFICATION Spec
CONSTANTS
  Ids = {f1, f2}
  Owners = {o1, o2}
  Vals = {v1}
  Absent = Absent
  Paths = {p1}
  Stems = {p1}
  Stem <- OwnStem
  MaxLog = 3
  MaxBatch = 2
  MaxFaults = 1
  MaxFiles = 2
  NoFile = NoFile
  Torn = Torn
  None = None
SYMMETRY Symmetry
INVARIANTS KvInv OrderExact LogExplains LogLegal BulkIsWrites ReceiptExact SavedIsLoaded RestoreExact
