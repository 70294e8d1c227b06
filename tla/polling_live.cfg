\* A maintenance job or a report in one tab.
SPECIFICATION OneJobSpec
CONSTANTS
  None = None
  m1 = m1
  r1 = r1
  c1 = c1
  c2 = c2
  l1 = l1
  l2 = l2
  MaintenanceJobs = {m1}
  ReportJobs = {r1}
  Chains = {c1, c2}
  Loads = {l1, l2}
  MaxReportChains = 1
PROPERTIES StartIsReported PollingStops
