SPECIFICATION FairSpec
CONSTANTS
  r1 = r1
  Rels = {r1}
  NoTuple = NoTuple
  Schemas <- MCSchemas
  FirstSchema <- MCFirst
  Identity <- MCIdentity
  TxShapes <- MCTxShapes
  MaxTx = 2
  MaxAlters = 1
  MaxFaults = 2
  MaxInFlight = 1
  MaxAttempts = 2
INVARIANTS DeliveredWhole NoWaitCycle
PROPERTIES ImplementsTxSource Delivers
