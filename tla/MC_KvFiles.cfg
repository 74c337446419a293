SPECIFICATION Spec
CONSTANTS
  Ids = {f1, f2}
  Owners = {o1, o2}
  Vals = {v1}
  Absent = Absent
  Paths = {p1, p2}
  stem = stem
  Stems = {stem}
  Stem <- OneStem
  MaxLog = 3
  MaxBatch = 0
  MaxFaults = 1
  MaxFiles = 3
  NoFile = NoFile
  Torn = Torn
  None = None
INVARIANT LoadExplains
