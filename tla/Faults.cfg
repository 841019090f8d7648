SPECIFICATION Spec
CONSTANTS
  A = A
  B = B
  u = u
  v = v
  x = x
  y = y
  None = None
  Accounts = {A}
  Users = {u, v}
  ConfigUsers = {u}
  Instruments = {x}
  Described = {x}
  Strategies = {0}
  Late = {x}
  Sources <- OneSource
  Home <- HomeZero
  Fills <- TwoFills
  TradeIds <- AllIds
  Batches <- TwoCorrections
  Bound <- BoundFaults
INVARIANTS
  SystemInv
  LimitsExact
PROPERTIES
  TradesKept
