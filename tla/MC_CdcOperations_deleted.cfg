SPECIFICATION DeleteSpec
CONSTANTS
  Keys = {k1}
  Vals = {v1}
  NULL = NULL
  NoRow = NoRow
  Unchanged = Unchanged
  NoOld = NoOld
  Nullable = FALSE
  MaxTx = 1
  MaxChanges = 1
  MaxFaults = 1
  HasState = TRUE
  NoFile = NoFile
  Disconnected = Disconnected
  StateHasParent = TRUE
PROPERTY NoFileReSnapshots
