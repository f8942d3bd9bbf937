SPECIFICATION FairSpec
CONSTANTS
    e1 = e1
    e2 = e2
    Instances = {e1}
    MaxOpenOrders <- One
    Plans <- KantuAlone
    MaxBars <- Two
    MaxTickets = 3
    MaxFailures = 2
    MaxKills = 1
INVARIANT OneOrderPerSide
PROPERTY StopsAreSet
PROPERTY PlansCarriedOut
