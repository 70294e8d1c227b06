\* Two requests and a job share a pool of two connections.
SPECIFICATION Spec
CONSTANTS
  r1 = r1
  r2 = r2
  b1 = b1
  None = None
  Users = {r1, r2, b1}
  Background = {b1}
  MinConn = 1
  MaxConn = 2
  MaxVersion = 2
  MaxPools = 3
INVARIANTS TypeOK OneOpenPool NothingLeaks WithinBudget IdleIsFresh
SYMMETRY Interchangeable
