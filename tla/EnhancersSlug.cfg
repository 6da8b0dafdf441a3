SPECIFICATION Spec
CONSTANTS
    pod = pod  rs = rs  dep = dep  pod2 = pod2  rs2 = rs2  jobPod = jobPod
    job = job  cron = cron  both = both  opPod = opPod  custom = custom
    probe1 = probe1  probe2 = probe2  crash = crash  probe = probe
    NoPattern = NoPattern  NoObject = NoObject  NoSlug = NoSlug
    Objects = {pod, rs, dep, pod2, rs2, jobPod, job, cron, both, opPod, custom}
    Owners <- OperatorOwners
    Findable = {pod, rs, dep, pod2, rs2, jobPod, job, cron, both, opPod}
    InHand = {pod, pod2, jobPod, both, opPod}
    CronJobs = {cron}
    Label <- TheLabel
    Messages = {probe1, probe2, crash}
    Pattern <- ThePattern
    MaxHandled = 2
INVARIANTS CronJobEventsHaveSlug
CHECK_DEADLOCK FALSE
