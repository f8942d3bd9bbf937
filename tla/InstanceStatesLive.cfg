SPECIFICATION FairSpec
CONSTANTS
    a = a
    b = b
    c = c
    Free = Free
    Instances <- MCPair
    Live <- MCOne
    EveryTick <- MCNone
    MaxInstances = 1
    MaxBar = 2
    MaxCrashes = 0
    Recursive = TRUE
PROPERTY CallsReturn
