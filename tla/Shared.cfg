SPECIFICATION Spec
CHECK_DEADLOCK FALSE
CONSTANTS
  EXCHANGE = "e1"
  NaN = NaN
  Pairs <- MCPairs
  MaxIds = 2
  Documents <- MCDocuments
  Traders <- MCTraders
INVARIANTS
  OneIdPerInstrument
  PublishedAsConfigured
  EveryValueUsed
