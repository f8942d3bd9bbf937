--------------------------- MODULE StrategyOrders ---------------------------
(***************************************************************************)
(* What the strategies work with: the orders of the instance as the front  *)
(* end shows them, what the EasyTrade functions read from them, the time   *)
(* of the last entry that the instance state keeps, and the decision a     *)
(* mode of AutoBBS leaves in the indicators (executionTrend, entrySignal,  *)
(* exitSignal and the results it has filled itself).                       *)
(*                                                                         *)
(* A mode of AutoBBS keeps no state of its own: how often it traded,       *)
(* whether it won and what it holds it finds in the OrderInfoSize orders   *)
(* it is shown.                                                            *)
(***************************************************************************)
EXTENDS OrderSignals, EntrySplits

CONSTANTS
    Modes,          \* the strategies, and for AutoBBS the values of AUTOBBS_TREND_MODE
    AutoModes,      \* the values of AUTOBBS_IS_AUTO_MODE
    WonTimes,       \* buyWonTimes and sellWonTimes of 4H_Shellington, by side
    OrderInfoSize,  \* ORDERINFO_ARRAY_SIZE, the orders the strategy is shown
    TesterInfoSize, \* the same of a back-test
    MaxOpenOrders,  \* MAX_OPEN_ORDERS, the length of the results array
    TimedExitBars,  \* TIMED_EXIT_BARS, by which Comitl_PA's PA_EXIT_DAYS is taken to be counted too
    BoxBars,        \* the bars from one box of Atipaq to the next
    Zones,          \* the prices: one is near another when both are in a zone
    Pivots,         \* bound: the line of the daily pivot, by day; S1 and R1 are the lines next to it
    Symbol,         \* the symbol the modes with limit orders trade
    DailyTrend,     \* the side BuDan is set to (SIDE), or BBS (DAILY_TREND)
    MaxDays,        \* bound: the days traded, by mode; the bars, of the other strategies
    MaxOrders,      \* bound: the orders sent, by mode
    MaxFaults       \* bound: the calls refused, and bars that never came or were not run

DayTrading == {"GBPJPY_DayTrading_Ver2", "XAUUSD_DayTrading", "DayTrading_ExecutionOnly"}
BoDuanModes == {"4HBBS_Swing_BoDuan", "4HBBS_Swing_XAUUSD_BoDuan"}
MACD_DailyModes == {"MACD_Daily", "MACD_Daily_New"}
OrderADayModes == {"Ichimoko_Daily_V2", "Ichimoko_Daily_Index", "Ichimoko_Daily_New",
                   "Ichimoko_Daily_Index_Regression_Test", "Ichimoko_Weekly_Index"}
TrendFollowing == BoDuanModes \cup MACD_DailyModes \cup OrderADayModes
              \cup {"4H_Shellington", "MACD_Weekly", "ASI"}
SwingModes == {"BBS_4HSwing", "ShortTerm", "Limit_BBS", "Limit_BBS_LongTerm", "Auto", "Auto_KeyK",
               "WeeklyAuto", "ATR_Hedge", "Weekly_Swing_New"}
BEILIModes == {"MACD_BEILI", "MACD_BEILI_Daily_Regression"}
MultipleDayModes == {"MultipleDay", "MultipleDay_V2"} \cup BEILIModes
LimitModes == {"Limit", "Limit_BreakOutOnPivot"}
AutoBBSModes == DayTrading \cup TrendFollowing \cup SwingModes \cup MultipleDayModes

\* The modes that count what they won and lost; that ask whether an order is near the price; and whose
\* entry is in the results before what they close.
Counting == DayTrading \cup {"Weekly_Swing_New"}
Priced == {"BBS_4HSwing", "Limit_BBS_LongTerm", "Auto", "Auto_KeyK", "WeeklyAuto", "MultipleDay"}
EntersFirst == {"ShortTerm", "Limit_BBS"}

\* The strategies of AsirikuyStrategies.c that enter with openOrUpdateLongTrade and its like, those of
\* them that close an order by its age, and those that send an order with each new trend.
Timed == {"WatukushayFE_RSI", "WatukushayFE_BB", "WatukushayFE_CCI", "Coatl", "GodsGiftATR", "Quimichi",
          "Sapaq", "Teyacanani", "Ruphay"}
OpenOrUpdate == Timed \cup {"Atipaq", "Comitl_PA", "Comitl_BB", "Comitl_KC", "Qallaryi", "AsirikuyBrain",
                            "Munay", "RenkoTest", "Kelpie", "KantuML"}
Banded == {"TestEA", "BBS", "BuDan", "KeyK"}

ASSUME StrategiesAssumption ==
    /\ Modes \subseteq AutoBBSModes \cup LimitModes \cup OpenOrUpdate \cup Banded /\ AutoModes \subseteq BOOLEAN
    /\ Zones \subseteq Nat \ {0}
    /\ {TimedExitBars, BoxBars} \subseteq Nat \ {0} /\ DailyTrend \in Sides
    /\ WonTimes \in [Sides -> Nat]
    /\ {OrderInfoSize, TesterInfoSize, MaxOpenOrders} \subseteq Nat \ {0} /\ MaxFaults \in Nat
    /\ \A d \in DOMAIN Pivots : Pivots[d] \in 2..(Len(Pivots) + 1)
    /\ \A m \in Modes : MaxDays[m] \in Nat \ {0} /\ MaxOrders[m] \in Nat

VARIABLES
    mode, auto,      \* the parameters
    day, phase,      \* of the current bar; in Ichimoko_Weekly_Index, WeeklyAuto and Weekly_Swing_New a
                     \* day stands for a week, and the other strategies have one bar a day
    updated,         \* lastOrderUpdateTime, 0 when there is none: the strategies other than AutoBBS
    band,            \* what the Bollinger band stop, or KeyK's bar, shows and whether it is news
    signalled,       \* history: the side such a strategy was in for on the last bar, if one
    saved,           \* the file of a mode with limit orders
    ran,             \* a bar that comes once a day, or one of the last, was run and no call was refused
    open,            \* the open orders, by their position in the account
    closed,          \* the closed ones, the last to close at the end
    sent, faults

vars == <<mode, auto, day, phase, updated, band, signalled, saved, ran, open, closed, sent, faults>>

Tickets(orders) == {orders[n].ticket : n \in DOMAIN orders}
IsOpen(o) == o.result = "open"

\* Those at some of the places of a sequence, in their order.
Picked(seq, places) ==
    LET picked[n \in 0..Len(seq)] ==
            IF n = 0 THEN <<>>
            ELSE IF n \in places THEN Append(picked[n - 1], seq[n]) ELSE picked[n - 1]
    IN  picked[Len(seq)]

-----------------------------------------------------------------------------
(* What the strategy is shown, and what it counts. *)

\* c_getOrderInfo: the open orders and then the closed ones, the newest first.
c_getOrderInfo(size) ==
    [n \in 1..Min({size, Len(open) + Len(closed)}) |->
        IF n <= Len(open) THEN open[Len(open) + 1 - n] ELSE closed[Len(open) + Len(closed) + 1 - n]]

OpenPlaces(shown) == {n \in DOMAIN shown : IsOpen(shown[n])}
ShownOpen(shown) == Picked(shown, OpenPlaces(shown))
hasOpenOrder(shown) == OpenPlaces(shown) # {}
getOrderCount(shown) == Cardinality(OpenPlaces(shown))
Today(shown) == {n \in DOMAIN shown : shown[n].day = day}

\* The last to be opened of some of the shown orders; of two opened at the same time the first shown.
LastOpened(shown, among) == Min({n \in among : \A k \in among : shown[k].at <= shown[n].at})

\* getLastestOrderIndex and getLastestOrderType.
Latest(shown) == shown[LastOpened(shown, DOMAIN shown)]

\* getOldestOpenOrderIndex: of two opened at the same time the first shown.
OldestOpen(shown) ==
    Min({n \in OpenPlaces(shown) : \A k \in OpenPlaces(shown) : shown[n].at <= shown[k].at})

-----------------------------------------------------------------------------
(* What a mode decides: the side it is in for, whether it enters and with which orders, what it exits,
   and the tickets it has asked to close already. *)

\* splitTradeMode, which of splitBuyOrders and splitSellOrders a mode asks for.
splitOrders ==
    CASE mode = "XAUUSD_DayTrading"         -> split_Daily_Swing
      [] mode = "GBPJPY_DayTrading_Ver2"    -> split_Daily_GBPJPY_Swing
      [] mode = "DayTrading_ExecutionOnly"  -> split_Daily_Swing_ExecutionOnly
      [] mode \in BoDuanModes               -> split_4HSwing_100P
      [] mode \in MACD_DailyModes \cup {"ASI"} -> split_MACDDaily
      [] mode = "MACD_Weekly"               -> split_MACDWeekly
      [] mode = "4H_Shellington"            -> split_4HSwing_Shellington
      [] mode = "Ichimoko_Weekly_Index"     -> split_Ichimoko_Weekly
      [] mode \in OrderADayModes \ {"Ichimoko_Weekly_Index"} -> split_Ichimoko_Daily
      [] mode = "BBS_4HSwing"               -> split_4HSwing
      [] mode \in {"ShortTerm", "Limit_BBS_LongTerm"} -> split_ShortTerm_New
      [] mode = "Limit_BBS"                 -> split_Range
      [] mode = "ATR_Hedge"                 -> split_ShortTerm_ATR_Hedge
      [] mode = "Weekly_Swing_New"          -> split_Swing
      [] mode = "MultipleDay"               -> split_MultiDays_Swing(1)
      [] mode = "MultipleDay_V2"            -> split_MultiDays_Swing_V2
      [] mode \in BEILIModes                -> split_MACD_BEILI
      [] OTHER                              -> NoSplit

Decision(trend, enter, exit, named) ==
    [trend |-> trend, enter |-> enter, split |-> splitOrders, exit |-> exit, named |-> named]
Nothing == Decision("none", FALSE, "none", {})
ExitAll == Decision("none", FALSE, "ALL", {})
Enter(side) == Decision(side, TRUE, "none", {})

\* Mutant of Reversal: the exit constants are swapped.
Reversal_OwnSide(side, may) == Decision(side, may, side, {})

Reversal(side, may) == Decision(side, may, Other(side), {})

\* A filter may take an entry away; what is exited stays.
MayNotEnter(decisions) == decisions \cup {[d EXCEPT !.enter = FALSE] : d \in decisions}

\* Asked to be closed by their tickets.
Named(orders) == {<<o.type, o.ticket>> : o \in orders}

=============================================================================
