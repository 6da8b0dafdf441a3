SPECIFICATION Spec
CONSTANTS
    n1 = n1  n2 = n2  m1 = m1  m2 = m2
    c1 = c1  c2 = c2  j1 = j1  j2 = j2  i1 = i1  i2 = i2
    Absent = Absent  NoOwner = NoOwner  NoMonitor = NoMonitor  Idle = Idle
    ConditionTypes <- AllConditions
    CronJobs = {c1}  Jobs = {j1}  Informers = {i1, i2}
    Names = {n1}  JobNames = {m1, m2}  Schedules = {"hourly"}
    CronName <- OneCronName  JobName <- SoleJobName
    Owner <- SoleOwner  Watched <- DoubleWatch  Lifecycle <- BriefLifecycle
    MaxCronOps = 2  MaxCrashes = 1  MaxIds = 2
INVARIANTS CheckinInv EndHasStart
PROPERTIES ImplementsLifecycle
SYMMETRY DoubleSymmetry
CHECK_DEADLOCK FALSE
