SPECIFICATION WindowSpec
CONSTANTS
    zero = zero
    x = x
    y = y
    BarValues <- MCBars
    Zero = zero
    Garbage = Garbage
    WindowSize = 3
    Ext = 2
INVARIANT WindowTypeOK
INVARIANT NoGarbageSeen
PROPERTY RefinesSlidingWindow
