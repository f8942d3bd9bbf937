SPECIFICATION Spec
CONSTANTS
    e1 = e1
    e2 = e2
    Instances = {e1, e2}
    MaxOpenOrders <- OneAndTwo
    Plans <- KantuAndLimit
    MaxBars <- TwoAndOne
    MaxTickets = 2
    MaxFailures = 0
    MaxKills = 0
INVARIANT OneCallAtATime
INVARIANT NoOrderMissed
