SPECIFICATION FairSpec
CONSTANTS
    e1 = e1  e2 = e2  e3 = e3
    Events = {e1, e2, e3}  Stamp <- TheStamp
    Second = 2  Historical = FALSE  MaxTime = 5  MaxOccurs = 3  MaxConns = 2
INVARIANTS TypeOK OldEventsNotReported
PROPERTIES DropsAreWithinASecond EveryEventIsDecided
CHECK_DEADLOCK FALSE
