SPECIFICATION FairSpec
CONSTANTS
    pod = pod  mutePod = mutePod  rs = rs  dep = dep  badPod = badPod  custom = custom
    dsn1 = dsn1  bad = bad  EmptyDsn = EmptyDsn  NoOwner = NoOwner
    NoAnnotation = NoAnnotation  NoClient = NoClient  Default = Default
    Goroutines = {"events", "pods"}  EventWatchers = {"events"}
    Objects = {pod, mutePod, rs, dep, badPod, custom}
    Findable = {pod, mutePod, rs, dep, badPod}  InHand = {pod, mutePod, badPod}
    Owner <- TheOwner  Annotation <- TheAnnotation
    Dsns = {dsn1, bad, EmptyDsn}  ValidDsns = {dsn1}
    MaxHandled = 4
INVARIANTS TypeOK SentToItsProject ClientsPerDsn
PROPERTIES EveryEventIsSent
CHECK_DEADLOCK FALSE
