SPECIFICATION FairSpec
CONSTANTS
    a = a
    b = b
    c = c
    Free = Free
    Static = Static
    Instances <- MCAll
    Testers <- MCTester
    MaxInstances = 2
    MaxBuffers = 2
    MaxTries = 2
    MaxFailures = 1
INVARIANT TypeOK
INVARIANT OneInitialiser
INVARIANT TablesReadyFirst
INVARIANT OwnerKeepsRow
INVARIANT OneRowEach
PROPERTY EveryChartGetsIn
