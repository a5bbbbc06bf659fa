SPECIFICATION WorkersSpec
CONSTANTS
  Batches = {b1}
  Workers = {p1, p2}
  MaxAttempts = 2
  Commits = 3
  MaxCallTries = 2
  MaxDisturbances = 2
  MaxCycles = 2
  MaxSupervisorDisturbances = 3
  Hosts = {p1, p2}
  Units = 2
  LastAttempt = 8
  Spare = 5
  MaxMissionDisturbances = 2
  Sessions = 2
  Values = {"v1", "v2"}
  Fields = 2
  Shards = 2
  MaxLedgerDisturbances = 2
  Monitors = {p1, p2}
  LastBoundary = 2
  Spacing = 1
  Lead = 1
  Hold = 3
  LongestTick = 1
  MaxMonitorDisturbances = 1
INVARIANTS
  WorkersTyped
  AttemptsAccounted
  ResultOfLastAttempt
  ReservationKept
  SegmentsSettled
  LedgerExact
  SignalFaithful
PROPERTIES
  SnapshotExtends
  WorkersEnd
CHECK_DEADLOCK FALSE
