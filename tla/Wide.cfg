SPECIFICATION Spec
CONSTANTS
  A = A
  B = B
  u = u
  v = v
  x = x
  y = y
  None = None
  Accounts = {A, B}
  Users = {u}
  ConfigUsers = {u}
  Instruments = {x, y}
  Described = {x}
  Strategies = {0}
  Late = {}
  Sources <- OneSource
  Home <- HomeZero
  Fills <- OneUnit
  TradeIds <- AllIds
  Batches <- NoBatches
  Bound <- BoundWide
INVARIANTS
  LimitsExact
  NothingForgotten
  MarkedAreRegistered
PROPERTIES
  KeepsPromise
