\* A thread that lives on leaves its job running.
SPECIFICATION Spec
CONSTANTS
  p1 = p1
  m1 = m1
  None = None
  Procs = {p1}
  Commands = {}
  MaintenanceJobs = {m1}
  ReportJobs = {}
  ReportKey <- MCOneKey
  MaintenanceThreads = 1
  ReportThreads = 1
  DeletableJobs = {}
  MaxFaults = 1
PROPERTIES ErrorsAreRecorded
\* Every job may have its result and every process be at rest.
CHECK_DEADLOCK FALSE
