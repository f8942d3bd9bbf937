SPECIFICATION Spec
CONSTANTS
    e1 = e1
    e2 = e2
    Instances = {e1}
    MaxOpenOrders <- One
    Plans <- GridAlone
    MaxBars <- Three
    MaxTickets = 3
    MaxFailures = 0
    MaxKills = 0
PROPERTY ClosesNamed
