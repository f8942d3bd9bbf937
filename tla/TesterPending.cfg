SPECIFICATION FairSpec
CONSTANTS
    NumSystems = 1
    FirstBar = 1
    NumCandles = 5
    TickFile <- OneSystem
    OrderTypes <- LimitAndMarket
    MaxOrders = 3
    MaxResults = 2
    Profits <- Loss
    Swap <- MinusOne
    InitialBalance = 2
INVARIANT BookPacked
PROPERTY TestFinishes
