SPECIFICATION SCSpec
CONSTANTS
  HISTORICAL_DATA <- MCData
  Today = 5
  LastDay = 6
  Counts <- MCCounts
  NULL = NULL
PROPERTY ShutdownWaits
