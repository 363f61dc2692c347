SPECIFICATION Spec
CONSTANTS
    Txns <- UnsidedTxns
    Txn <- Unsided
    Normal <- AsIs
    TicksPerDay = 1
    MinAmount <- LeastAmount
    DateTolerance = 1
    AmountTolerance = 0
    MinConfidence = 70
    Calls <- MixedCalls
    Processes <- MixedProcesses
    Process <- MixedProcess
    Origin <- MixedOrigin
    Request <- MixedRequest
    NoRedis <- MixedNoRedis
    Stored <- UnsidedStored
    NoOwner = NoOwner
    MaxFaults = 1
INVARIANT
    MatchLinksTwo
CHECK_DEADLOCK FALSE
