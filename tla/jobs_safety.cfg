\* Two workers and one recovery command race for a maintenance job or a report.
SPECIFICATION OneJobSpec
CONSTANTS
  p1 = p1
  p2 = p2
  c1 = c1
  m1 = m1
  r1 = r1
  None = None
  Procs = {p1, p2}
  Commands = {c1}
  MaintenanceJobs = {m1}
  ReportJobs = {r1}
  ReportKey <- MCOneKey
  MaintenanceThreads = 1
  ReportThreads = 1
  DeletableJobs = {m1, r1}
  MaxFaults = 2
INVARIANTS TypeOK OneExecutor
PROPERTIES ResultIsFinal ImplementsLifecycle ImplementsRows
\* Every job may have its result and every process be at rest.
CHECK_DEADLOCK FALSE
