\* Slow answers to overlapping requests, one connection.
SPECIFICATION Spec
CONSTANTS
  None = None
  c1 = c1
  p1 = p1
  q1 = q1
  q2 = q2
  t1 = t1
  Connections = {c1}
  Pids = {p1}
  Requests = {q1, q2}
  Posts = {t1}
  MaxRefreshes = 2
PROPERTY LoadingEnds
