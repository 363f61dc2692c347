SPECIFICATION Spec
CONSTANTS
    Txns <- AllStored
    Txn <- TwoSided
    Normal <- AsIs
    TicksPerDay = 1
    MinAmount <- LeastAmount
    DateTolerance = 1
    AmountTolerance = 250
    MinConfidence = 70
    Calls <- TwoCalls
    Processes <- TwoProcesses
    Process <- OneEach
    Origin <- BothHTTP
    Request <- BothSided
    NoRedis = {}
    Stored <- LateGateway
    NoOwner = NoOwner
    MaxFaults = 2
INVARIANTS
    TypeOK
    MatchedOncePerRun
    CompletedRunAccounts
    MatchingIsMaximal
    NoOvertaking
    RunsApartShareNothing
    KeyHasActiveOwner
PROPERTY
    SettledRunIsFrozen
CHECK_DEADLOCK FALSE
