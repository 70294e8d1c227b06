\* A maintenance job and a report in one tab.
SPECIFICATION Spec
CONSTANTS
  None = None
  m1 = m1
  r1 = r1
  c1 = c1
  c2 = c2
  c3 = c3
  l1 = l1
  l2 = l2
  MaintenanceJobs = {m1}
  ReportJobs = {r1}
  Chains = {c1, c2, c3}
  Loads = {l1, l2}
  MaxReportChains = 1
INVARIANTS TypeOK TrackedIsPolled PollsBounded ShownIsTrue
SYMMETRY Interchangeable
