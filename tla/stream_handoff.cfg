SPECIFICATION StreamSpec
CONSTANTS
  Processes = {old, young}
  MaxTrades = 1
  MaxDisturbances = 0
  MaxMessages = 1
  MaxObservations = 1
  MaxAttempts = 1
  Contracts = 1
  LastDay = 1
  Enough = 1
  MaxIngestDisturbances = 0
  Prices = {1}
  Depth = 1
  PartialDepth = 2
  MaxInFlight = 1
  None = None
INVARIANT OneCapturer
CHECK_DEADLOCK FALSE
