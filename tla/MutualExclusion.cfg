SPECIFICATION Spec
CONSTANTS
    Txns <- AllStored
    Txn <- TwoSided
    Normal <- AsIs
    TicksPerDay = 1
    MinAmount <- LeastAmount
    DateTolerance = 1
    AmountTolerance = 250
    MinConfidence = 70
    Calls <- TwoCalls
    Processes <- TwoProcesses
    Process <- OneEach
    Origin <- BothHTTP
    Request <- BothSided
    NoRedis = {}
    Stored <- ThreeStored
    NoOwner = NoOwner
    MaxFaults = 0
INVARIANT
    MutualExclusion
CHECK_DEADLOCK FALSE
