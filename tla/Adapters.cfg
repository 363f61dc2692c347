SPECIFICATION FairSpec
CONSTANTS
    Fetches <- LongAndShort
    From <- Begins
    To <- Ends
    Txns <- FourTxns
    At <- Days
    MaxDays = 31
    PayPalPage = 2
    Period <- Middle
    MaxNewest = 8
    StripePage = 2
    NoFetch = NoFetch
    MaxRetries = 1
    MaxLapses = 2
    MaxFaults = 2
    MaxLines = 5
INVARIANTS
    TypeOK
    FetchIsExact
    FailureHasCause
    FetchIsSnapshot
    
    DetailsAreOwn
PROPERTIES
    OneExchangePerNeed
    FetchesEnd
CHECK_DEADLOCK FALSE
