SPECIFICATION Spec
CONSTANTS
  Keys = {k1, k2}
  Vals = {v1, v2}
  NULL = NULL
  NoRow = NoRow
  Unchanged = Unchanged
  NoOld = NoOld
  Nullable = TRUE
  MaxTx = 2
  MaxChanges = 2
  MaxFaults = 2
  HasState = TRUE
  NoFile = NoFile
  Disconnected = Disconnected
SYMMETRY Symmetry
INVARIANTS IInv InSync FileInSync AckedIsSaved ServesAcked
