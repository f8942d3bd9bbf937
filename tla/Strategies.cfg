SPECIFICATION Spec
CONSTANTS
    Modes <- AllModes
    AutoModes = {TRUE}
    WonTimes <- Wins
    OrderInfoSize = 3
    TesterInfoSize = 4
    Pivots <- PivotLines
    MaxOpenOrders = 6
    TimedExitBars = 1
    BoxBars = 2
    Zones = {1, 2}
    Symbol = "XAUUSD"
    DailyTrend = "BUY"
    MaxDays <- Days
    MaxOrders <- Orders
    MaxFaults = 1
INVARIANT TradesADay
INVARIANT OldOrdersClosed
INVARIANT PositionLimits
INVARIANT FollowsTrend
PROPERTY OneWinADay
PROPERTY OneSided
CHECK_DEADLOCK FALSE
