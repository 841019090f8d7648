SPECIFICATION Spec
CONSTANTS
  A = A
  B = B
  u = u
  x = x
  y = y
  None = None
  NaN = NaN
  Every = Every
  c = c
  d = d
  Users = {u}
  Accounts = {A, B}
  Currencies = {c, d}
  Home <- HomeApart
  Instruments = {x, y}
  Updates <- UpdatesMixed
  Batches <- BatchesApart
  FundsUpdates <- FundsMixed
  PositionUpdates <- OnePosition
  MaxHostTimes = 3
INVARIANTS
  OneGroupLoaded
  FundsSelected
  CachedAreStored
