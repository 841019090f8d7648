SPECIFICATION Spec
CONSTANTS
  A = A
  B = B
  u = u
  v = v
  x = x
  y = y
  None = None
  Accounts = {A}
  Users = {u}
  ConfigUsers = {u}
  Instruments = {x}
  Described = {x}
  Strategies = {0}
  Late = {}
  Sources <- OneSource
  Home <- HomeZero
  Fills <- OneUnit
  TradeIds <- AllIds
  Batches <- NoBatches
  Bound <- BoundRestart
INVARIANTS
  PublishedArePersisted
  NothingForgotten
