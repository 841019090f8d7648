SPECIFICATION FairSpec
CONSTANTS
  A = A
  B = B
  u = u
  v = v
  x = x
  y = y
  None = None
  Accounts = {A}
  Users = {u}
  ConfigUsers = {u}
  Instruments = {x}
  Described = {x}
  Strategies = {0}
  Late = {}
  Sources <- OneSource
  Home <- HomeZero
  Fills <- TwoFills
  TradeIds <- AllIds
  Batches <- NoBatches
  Bound <- BoundReconnect
INVARIANTS
  LimitsExact
  LimitsOfSession
  NothingForgotten
  Ordered
PROPERTIES
  LimitsAdvance
  KeepsPromise
  EventuallySettled
