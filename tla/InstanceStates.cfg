SPECIFICATION Spec
CONSTANTS
    a = a
    b = b
    c = c
    Free = Free
    Instances <- MCPair
    Live <- MCLive
    EveryTick <- MCEveryTick
    MaxInstances = 2
    MaxBar = 2
    MaxCrashes = 1
    Recursive = TRUE
INVARIANT TypeOK
INVARIANT AtMostOncePerBar
INVARIANT RunTimeOnDiskFirst
INVARIANT OwnSlotFound
INVARIANT FileHoldsOwner
PROPERTY OthersLeaveSlotAlone
