SPECIFICATION Spec
CONSTANTS
    Requests <- RacingRequests
    Batch <- Racing
    WithRedis <- RacingWithRedis
    Command = {}
    Registered <- KnownSources
    NoItem = NoItem
    MaxFaults = 0
INVARIANT
    DuplicateNamesRow
CHECK_DEADLOCK FALSE
