\* A pool is created with parameters that are no longer the saved ones.
SPECIFICATION Spec
CONSTANTS
  r1 = r1
  b1 = b1
  None = None
  Users = {r1, b1}
  Background = {b1}
  MinConn = 1
  MaxConn = 2
  MaxVersion = 2
  MaxPools = 3
PROPERTIES NoStaleConnections
