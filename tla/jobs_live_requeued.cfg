\* A sweep resets a job that another worker is executing.
SPECIFICATION Spec
CONSTANTS
  p1 = p1
  p2 = p2
  m1 = m1
  None = None
  Procs = {p1, p2}
  Commands = {}
  MaintenanceJobs = {m1}
  ReportJobs = {}
  ReportKey <- MCOneKey
  MaintenanceThreads = 1
  ReportThreads = 1
  DeletableJobs = {}
  MaxFaults = 1
PROPERTIES LiveJobNotRequeued
\* Every job may have its result and every process be at rest.
CHECK_DEADLOCK FALSE
