SPECIFICATION Spec
CONSTANTS
    Txns <- Rows
    Txn <- Itself
    GatewayTxns <- GatewayRows
    Normal <- Normalised
    TicksPerDay = 2
    MinAmount <- LeastAmount
    DateTolerance = 1
    AmountTolerance = 250
    MinConfidence = 75
INVARIANTS
    FirstPassWins
    RulesNest
PROPERTY CloserDateNeverScoresLower
CHECK_DEADLOCK FALSE
