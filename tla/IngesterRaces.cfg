SPECIFICATION FairSpec
CONSTANTS
    Requests <- RacingRequests
    Batch <- Racing
    WithRedis <- RacingWithRedis
    Command = {}
    Registered <- KnownSources
    NoItem = NoItem
    MaxFaults = 2
INVARIANTS
    TypeOK
    CacheNamesRow
    ErrorsHaveCause
PROPERTIES
    Deduplicates
    RequestsEnd
CHECK_DEADLOCK FALSE
