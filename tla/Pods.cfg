SPECIFICATION FairSpec
CONSTANTS
    p1 = p1  a = a  b = b
    Pods = {p1}  Containers = {a, b}  PodOf <- ThePodOf
    MaxRuns = 2  MaxRevs = 4  MaxConns = 2
INVARIANTS TypeOK ReportsAreFailures OncePerModification NothingLostWhileConnected
PROPERTIES FailureIsReported
CHECK_DEADLOCK FALSE
