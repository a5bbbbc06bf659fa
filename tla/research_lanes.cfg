SPECIFICATION LanesSpec
CONSTANTS
  Variants <- TwoVariants
  MaxAttempts = 2
  MaxDisturbances = 3
  Events = {e1, e2}
  Buckets = {near}
  DbWorkers = {p1}
  HttpWorkers = {p2}
  Nobody = Nobody
  MaxOptionDisturbances = 1
  Months = {m1, m2}
  MonthWorkers = {p1, p2}
  Dates = {d1, d2, d3}
  BookDays = {d1}
  TardisDays = {d1, d2}
  DepthDays = {d3}
  BookThreads = {p1, p2}
  TardisThreads = {p3}
  DepthThreads = {p4}
  SlotZero = p1
  Bare = {d2}
  Sessions = 3
  States = {A, B}
  NotListed = NotListed
  ReferenceLanes = {p1, p2}
  MaxLaneDisturbances = 2
INVARIANTS
  LanesTyped
  EvidenceVouched
  RunsTruthful
  SourcesFaithful
PROPERTIES
  LanesEnd
CHECK_DEADLOCK FALSE
