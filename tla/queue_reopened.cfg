SPECIFICATION Spec
CONSTANTS
  sparse = sparse
  empty = empty
  dense = dense
  a = a
  b = b
  u = u
  None = None
  Partitions = {sparse}
  MainWorkers = {a, b}
  UrgentWorkers = {}
  UrgentPartitions = {}
  TokenPaged = {sparse}
  Pages <- MCPages
  DataPages <- MCDataPages
  MaxAttempts = 2
  MaxDisturbances = 2
PROPERTY CompletedNeverReopened
CHECK_DEADLOCK FALSE
