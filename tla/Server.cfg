SPECIFICATION FairSpec
CONSTANTS
    Keys = {address}
    maxPerMinute = 2
    Second = 2
    Minute = 4
    MaxTime = 8
    Jobs = {reconcile}
    MaxRequests = 5
INVARIANTS
    ServerTypeOK
    GracefulExitIsQuiet
    AtMostTwoWindows
    RetryAfterIsEnough
PROPERTIES
    RefusedOnlyWhenUsedUp
    ShutdownEnds
CHECK_DEADLOCK FALSE
