SPECIFICATION FairSpec
CONSTANTS
  Keys = {k1, k2}
  Vals = {v1}
  NULL = NULL
  NoRow = NoRow
  Unchanged = Unchanged
  NoOld = NoOld
  Nullable = FALSE
  MaxTx = 2
  MaxChanges = 1
  MaxFaults = 2
  HasState = TRUE
  NoFile = NoFile
  Disconnected = Disconnected
PROPERTIES ImplementsContract CatchesUp SlotAdvances
INVARIANT NoPartialReads
