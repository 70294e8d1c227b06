\* A request and a job, while the connection is edited and deleted.
SPECIFICATION LiveSpec
CONSTANTS
  r1 = r1
  b1 = b1
  None = None
  Users = {r1, b1}
  Background = {b1}
  MinConn = 1
  MaxConn = 2
  MaxVersion = 2
  MaxPools = 3
PROPERTIES EveryUseEnds
