\* Two connections whose servers use the same process number.
SPECIFICATION Spec
CONSTANTS
  None = None
  c1 = c1
  c2 = c2
  p1 = p1
  q1 = q1
  q2 = q2
  t1 = t1
  Connections = {c1, c2}
  Pids = {p1}
  Requests = {q1, q2}
  Posts = {t1}
  MaxRefreshes = 2
INVARIANTS TypeOK RowsAreOfActive TerminatesWhatWasShown LoadingIsAwaited TerminatedRowIsLeaving
SYMMETRY Interchangeable
