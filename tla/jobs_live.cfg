\* Two workers start on two jobs, or on one and with a recovery command.
SPECIFICATION BacklogSpec
CONSTANTS
  p1 = p1
  p2 = p2
  c1 = c1
  m1 = m1
  m2 = m2
  None = None
  Procs = {p1, p2}
  Commands = {c1}
  MaintenanceJobs = {m1, m2}
  ReportJobs = {}
  ReportKey <- MCOneKey
  MaintenanceThreads = 1
  ReportThreads = 1
  DeletableJobs = {}
  MaxFaults = 1
PROPERTIES TakenCareOfFinishes RestartRecovers
\* Every job may have its result and every process be at rest.
CHECK_DEADLOCK FALSE
