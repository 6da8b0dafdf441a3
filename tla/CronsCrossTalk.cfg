SPECIFICATION Spec
CONSTANTS
    n1 = n1  n2 = n2  m1 = m1  m2 = m2
    c1 = c1  c2 = c2  j1 = j1  j2 = j2  i1 = i1  i2 = i2
    Absent = Absent  NoOwner = NoOwner  NoMonitor = NoMonitor  Idle = Idle
    ConditionTypes <- AllConditions
    CronJobs = {c1, c2}  Jobs = {j1, j2}  Informers = {i1, i2}
    Names = {n1}  JobNames = {m1, m2}  Schedules = {"hourly"}
    CronName <- TwinCronName  JobName <- TwinJobNames
    Owner <- TwinOwner  Watched <- TwinWatch  Lifecycle <- ShortLifecycle
    MaxCronOps = 2  MaxCrashes = 0  MaxIds = 4
INVARIANTS CheckInOfOneJob
CHECK_DEADLOCK FALSE
