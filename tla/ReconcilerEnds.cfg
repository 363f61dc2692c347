SPECIFICATION FairSpec
CONSTANTS
    Txns <- AllStored
    Txn <- TwoSided
    Normal <- AsIs
    TicksPerDay = 1
    MinAmount <- LeastAmount
    DateTolerance = 1
    AmountTolerance = 250
    MinConfidence = 70
    Calls <- TwoCalls
    Processes <- OneProcess
    Process <- Together
    Origin <- BothHTTP
    Request <- BothSided
    NoRedis = {}
    Stored <- AllStored
    NoOwner = NoOwner
    MaxFaults = 1
PROPERTIES
    CallsEnd
    RunsSettle
CHECK_DEADLOCK FALSE
