SPECIFICATION Spec
CONSTANTS
    NumSystems = 2
    FirstBar = 1
    NumCandles = 5
    TickFile <- NoTicks
    OrderTypes <- Market
    MaxOrders = 3
    MaxResults = 1
    Profits <- Loss
    Swap <- MinusOne
    InitialBalance = 2
INVARIANT BalanceExplained
INVARIANT CloseIsComplete
PROPERTY OthersUntouched
