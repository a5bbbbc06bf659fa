SPECIFICATION Spec
CONSTANTS
  sparse = sparse
  empty = empty
  dense = dense
  a = a
  b = b
  u = u
  None = None
  Partitions = {dense, empty}
  MainWorkers = {a}
  UrgentWorkers = {u}
  UrgentPartitions = {dense}
  TokenPaged = {dense}
  Pages <- MCPages
  DataPages <- MCDataPages
  MaxAttempts = 2
  MaxDisturbances = 3
INVARIANTS TypeOK CheckpointDurable CompletionTruthful CountedIsStored OwnedWhileRunning CancelledRunIsIdle
PROPERTY ImplementsLedger
CHECK_DEADLOCK FALSE
