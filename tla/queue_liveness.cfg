SPECIFICATION FairSpec
CONSTANTS
  sparse = sparse
  empty = empty
  dense = dense
  a = a
  b = b
  u = u
  None = None
  Partitions = {sparse}
  MainWorkers = {a, b}
  UrgentWorkers = {u}
  UrgentPartitions = {sparse}
  TokenPaged = {}
  Pages <- MCPages
  DataPages <- MCDataPages
  MaxAttempts = 2
  MaxDisturbances = 2
PROPERTIES ClaimsEnd QueueDrains
CHECK_DEADLOCK FALSE
