SPECIFICATION Spec
CONSTANTS
    Calls <- AllCalls
    Kind <- KindOf
    Txns <- AllTxns
    Concerns <- About
    Amount <- Cents
    Given = {1}
    high = 10000
    critical = 100000
    HighAge = 0
    CriticalAge = 1
    Stored <- HadOpen
    From = 0
    To = 1
    NoCall = NoCall
    Scenarios <- Meetings
    MaxDay = 2
    MaxFaults = 1
INVARIANTS
    TypeOK
    AgedEnough
    TotalsAreListed
PROPERTIES
    NoSecondOpen
    DecisionsStand
    SeverityFallsOnOverlap
CHECK_DEADLOCK FALSE
