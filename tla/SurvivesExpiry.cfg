SPECIFICATION Spec
CONSTANTS
    Fetches <- LongAndShort
    From <- Begins
    To <- Ends
    Txns <- FourTxns
    At <- Days
    MaxDays = 31
    PayPalPage = 2
    Period <- Middle
    MaxNewest = 8
    StripePage = 2
    NoFetch = NoFetch
    MaxRetries = 2
    MaxLapses = 1
    MaxFaults = 0
    MaxLines = 0
INVARIANT
    SurvivesExpiry
CHECK_DEADLOCK FALSE
