SPECIFICATION Spec
CONSTANTS
    Ratio = 3
    Size = 3
    ArraySize = 11
    Closed = {6, 15}
    Histories <- MCHistories
    MaxTime = 22
    MaxTicks = 5
    MaxGap = 2
    MaxInits = 1
INVARIANT CompletedBars
INVARIANT NoneLeftOut
INVARIANT CurrentBar
CHECK_DEADLOCK FALSE
