SPECIFICATION Spec
CONSTANTS
  A = A
  B = B
  u = u
  x = x
  y = y
  None = None
  NaN = NaN
  Every = Every
  c = c
  d = d
  Users = {u}
  Accounts = {A}
  Currencies = {c, d}
  Home <- HomeApart
  Instruments = {x}
  Updates = {}
  Batches <- BatchesTwice
  FundsUpdates <- NoFunds
  PositionUpdates <- NoFunds
  MaxHostTimes = 2
INVARIANTS
  BatchKept
