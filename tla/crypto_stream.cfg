SPECIFICATION StreamSpec
CONSTANTS
  Processes = {old, young}
  MaxTrades = 2
  MaxDisturbances = 2
  MaxMessages = 3
  MaxObservations = 3
  MaxAttempts = 2
  Contracts = 2
  LastDay = 2
  Enough = 1
  MaxIngestDisturbances = 2
  Prices = {1, 2, 3, 4}
  Depth = 1
  PartialDepth = 2
  MaxInFlight = 1
  None = None
INVARIANTS
  StoresTyped
  CountedOnce
  RawKept
  StoresFaithful
  IngestCovers
PROPERTIES
  StreamEnds
CHECK_DEADLOCK FALSE
