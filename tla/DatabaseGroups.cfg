SPECIFICATION Spec
CONSTANTS
  A = A
  B = B
  u = u
  x = x
  y = y
  None = None
  NaN = NaN
  Every = Every
  c = c
  d = d
  Users = {u}
  Accounts = {A, B}
  Currencies = {c, d}
  Home <- HomeApart
  Instruments = {x, y}
  Updates <- UpdatesTwoAccounts
  Batches <- NoBatches
  FundsUpdates <- NoFunds
  PositionUpdates <- NoFunds
  MaxHostTimes = 2
INVARIANTS
  EveryBuyerLoaded
