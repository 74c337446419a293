SPECIFICATION DropSpec
CONSTANTS
  Keys = {k1}
  Vals = {v1}
  NULL = NULL
  NoRow = NoRow
  Unchanged = Unchanged
  NoOld = NoOld
  Nullable = FALSE
  MaxTx = 3
  MaxChanges = 1
  MaxFaults = 2
  HasState = TRUE
  NoFile = NoFile
  Disconnected = Disconnected
  StateHasParent = TRUE
INVARIANT InSync
