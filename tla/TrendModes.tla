----------------------------- MODULE TrendModes -----------------------------
(***************************************************************************)
(* The trend-following modes of AutoBBS (TrendStrategy.c): they enter with *)
(* a trend and exit against it, and what keeps them from piling up orders  *)
(* is what they read from the order that was opened last.  The trend, the  *)
(* profit and the filters of an entry are what the environment chooses.    *)
(***************************************************************************)
EXTENDS StrategyOrders

\* The bars of a day on which a mode does something else than on others, or anything at all: those
\* before 01:00, the first and the second one after, and the rest.
TrendPhases(m) ==
    CASE m \in {"Ichimoko_Daily_V2", "Ichimoko_Weekly_Index"} -> <<"night", "day">>
      [] m = "Ichimoko_Daily_New" -> <<"one", "two">>
      [] OTHER -> <<"day">>

NoPosition(shown) == shown = <<>> \/ ~IsOpen(Latest(shown))

Follow(may) == {Nothing} \cup {Reversal(side, may) : side \in Sides}

-----------------------------------------------------------------------------
(* On bars of four hours. *)

\* workoutExecutionTrend_4HBBS_Swing_BoDuan: an entry is a change of sides.
BoDuan(shown) ==
    {Nothing} \cup {Reversal(side, shown = <<>> \/ Latest(shown).type # side) : side \in Sides}

\* The same on gold, an hour later and with one more filter.
XAUUSD_BoDuan(shown) == BoDuan(shown)

\* Mutant of ExceptAtFirst: the first order is left out from the start, as it is from the second look on.
ExceptAtFirst_First == {1}

\* What getSameSideWonTradesInCurrentTrend leaves out of its first look; its array of exceptions begins
\* as zeros, so the first order shown is left out of the others.
ExceptAtFirst == {}

\* Of the last eight orders shown, those that won since the last one on the other side.
getSameSideWonTradesInCurrentTrend(shown, type) ==
    LET Look[k \in 0..8] ==
            IF k = 0 THEN [except |-> ExceptAtFirst, won |-> 0, on |-> TRUE]
            ELSE LET last == Look[k - 1]
                     left == DOMAIN shown \ last.except
                     n == LastOpened(shown, left)
                 IN  IF ~last.on \/ left = {} \/ shown[n].type # type THEN [last EXCEPT !.on = FALSE]
                     ELSE [except |-> last.except \cup {1, n}, on |-> TRUE,
                           won |-> last.won + IF shown[n].result = "won" THEN 1 ELSE 0]
    IN  Look[8].won

\* An entry that may be taken away by a filter.
Filters(may) == {may, FALSE}

\* profitManagement_base: so it is when the strategy, or all of them, would risk too much with it.
profitManagement_base(decisions) == MayNotEnter(decisions)

\* What 4H_Shellington enters with: no position, and fewer won than allowed; a range of the week or a
\* trend of the day may refuse it.
ShellingtonFilters(shown, side) ==
    Filters(NoPosition(shown) /\ getSameSideWonTradesInCurrentTrend(shown, side) < WonTimes[side])

\* The moving averages alone are enough to exit; with the band stop of four hours it is a trend.
ShellingtonBuy(shown) ==
    {Decision("none", FALSE, "SELL", {})} \cup {Reversal("BUY", may) : may \in ShellingtonFilters(shown, "BUY")}
ShellingtonSell(shown) ==
    {Decision("none", FALSE, "BUY", {})} \cup {Reversal("SELL", may) : may \in ShellingtonFilters(shown, "SELL")}

\* workoutExecutionTrend_4H_Shellington, on the first bars of four hours.
Shellington(shown) == {Nothing} \cup ShellingtonBuy(shown) \cup ShellingtonSell(shown)

-----------------------------------------------------------------------------
(* With MACD: an entry when there is no position; a cross of its lines ends one without a trend. *)

CrossExits == {Decision("none", FALSE, exit, {}) : exit \in Sides}

\* Both lines on a side of zero with the trend of the week; the volume may refuse the entry.
MACD_Weekly_Buy(shown) == {Reversal("BUY", may) : may \in Filters(NoPosition(shown))}
MACD_Weekly_Sell(shown) == {Reversal("SELL", may) : may \in Filters(NoPosition(shown))}

\* workoutExecutionTrend_MACD_Weekly, on every bar.
MACD_Weekly(shown) == {Nothing} \cup MACD_Weekly_Buy(shown) \cup MACD_Weekly_Sell(shown) \cup CrossExits

\* Before the first order the close time is read in front of the array, which may allow the entry.
ClosedToday(shown) == shown # <<>> /\ Latest(shown).until = day

MayFollow(shown) == NoPosition(shown) /\ ~ClosedToday(shown)

\* Both lines on a side of zero, further apart, with the volume and the weekly base line; late in the
\* trend, beyond a level or with MACD diverging from the price it is refused.
MACD_Daily_New_Buy(shown) == {Reversal("BUY", may) : may \in Filters(MayFollow(shown))}
MACD_Daily_New_Sell(shown) == {Reversal("SELL", may) : may \in Filters(MayFollow(shown))}

\* isMACDZeroExit: for GBPJPY it is the side of zero that exits.
MACD_Daily_New_Exits == CrossExits

\* workoutExecutionTrend_MACD_Daily_New, on bars from 01:00; for symbols that are isDailyOnly on the first
\* of the day only.
MACD_Daily_New(shown) ==
    {Nothing} \cup MACD_Daily_New_Buy(shown) \cup MACD_Daily_New_Sell(shown) \cup MACD_Daily_New_Exits

\* The filters of a side, most of them set by symbol: level, late entry, volume, weekly base line, the
\* level beyond which a further order on the side of the last one is refused, divergence.
MACD_Daily_BuyFilters(shown) == Filters(MayFollow(shown))
MACD_Daily_SellFilters(shown) == Filters(MayFollow(shown))

\* Those of both sides: range of the day, the next bar of MACD, a gap from the close, Sunday.
MACD_Daily_Filters(enters) == Filters(enters)

MACD_Daily_Buy(shown) == {Reversal("BUY", may) : may \in MACD_Daily_BuyFilters(shown)}
MACD_Daily_Sell(shown) == {Reversal("SELL", may) : may \in MACD_Daily_SellFilters(shown)}
MACD_Daily_Exits == CrossExits

\* workoutExecutionTrend_MACD_Daily, which compares the month of the close too; on such bars from the start
\* hour of the symbol.
MACD_Daily(shown) ==
    {Nothing} \cup
    UNION {{[d EXCEPT !.enter = may] : may \in MACD_Daily_Filters(d.enter)} :
              d \in MACD_Daily_Buy(shown) \cup MACD_Daily_Sell(shown) \cup MACD_Daily_Exits}

\* workoutExecutionTrend_ASI: the accumulative swing index in the place of MACD, and no other exit.
ASI(shown) == Follow(NoPosition(shown))

-----------------------------------------------------------------------------
(* With the base line of Ichimoku: up to an order a day. *)

\* Mutant of DailyOnly: it is the first to be opened that is looked at.
DailyOnly_First(shown) == shown = <<>> \/ ~(IsOpen(shown[Len(shown)]) /\ shown[Len(shown)].day = day)

\* dailyOnly: the last order was not opened today, or is closed.
DailyOnly(shown) == shown = <<>> \/ ~(IsOpen(Latest(shown)) /\ Latest(shown).day = day)

\* orderCount, the most orders a mode has open, by symbol: one for XPDUSD in Ichimoko_Daily_New.
OrderCount == {1, 3}
OrderCount_Test == 3

\* Beyond the base lines, with the range, the week, MACD and the volume, on the side of the base line.
Ichimoko_Buy(shown) == {Reversal("BUY", may) : may \in Filters(DailyOnly(shown))}
Ichimoko_Sell(shown) == {Reversal("SELL", may) : may \in Filters(DailyOnly(shown))}

\* An entry when too many orders are open is taken away.
UpTo(count, shown, decisions) == {[d EXCEPT !.enter = @ /\ getOrderCount(shown) < count] : d \in decisions}

\* closeWinningPositions: when the profit is beyond the target, open orders that won, the biggest first.
Winning(decisions, shown) ==
    {[d EXCEPT !.named = Named(picked)] : d \in decisions, picked \in SUBSET {o \in ToSet(shown) : IsOpen(o)}}

\* The two sides of Ichimoko_Daily_V2: an entry beyond R2 or S2 of the week is taken away.
Ichimoko_V2_Buy(shown) == {Reversal("BUY", may) : may \in Filters(DailyOnly(shown))}
Ichimoko_V2_Sell(shown) == {Reversal("SELL", may) : may \in Filters(DailyOnly(shown))}

\* The rule of three bars may turn the exit to either side.
ThreeBars(decisions) == decisions \cup {[d EXCEPT !.exit = side] : d \in decisions, side \in Sides}

\* From 01:00, with the rule of three bars and then the winners to close; closeAllCurrentDayShortTermOrders
\* finds none of its orders to have a take profit.
Ichimoko_V2_Trading(shown) ==
    Winning(ThreeBars({Nothing} \cup Ichimoko_V2_Buy(shown) \cup Ichimoko_V2_Sell(shown)), shown)

\* workoutExecutionTrend_Ichimoko_Daily_V2: before 01:00 there is no trend, and what is left is the same.
Ichimoko_Daily_V2(shown) ==
    IF phase = "night" THEN Winning(ThreeBars({Nothing}), shown) ELSE Ichimoko_V2_Trading(shown)

\* workoutExecutionTrend_Ichimoko_Daily_Index.
Ichimoko_Daily_Index(shown) == Follow(DailyOnly(shown) /\ getOrderCount(shown) < 3)

\* The sides on a bar of the day, and the entry that is one too many.
Ichimoko_New_Entries(shown) ==
    UNION {UpTo(count, shown, Ichimoko_Buy(shown) \cup Ichimoko_Sell(shown)) : count \in OrderCount}

\* workoutExecutionTrend_Ichimoko_Daily_New, on the bars whose last but one (for some symbols, whose
\* last) is of the day before.
Ichimoko_Daily_New(shown) == Winning({Nothing} \cup Ichimoko_New_Entries(shown), shown)

\* The sides of the regression test.
Regression_Buy(shown) == {Reversal("BUY", may) : may \in Filters(DailyOnly(shown))}
Regression_Sell(shown) == {Reversal("SELL", may) : may \in Filters(DailyOnly(shown))}

Regression_Entries(shown) == UpTo(OrderCount_Test, shown, Regression_Buy(shown) \cup Regression_Sell(shown))

\* workoutExecutionTrend_Ichimoko_Daily_Index_Regression_Test, on every bar.
Ichimoko_Regression_Test(shown) == Winning({Nothing} \cup Regression_Entries(shown), shown)

\* getOrderCountForCurrentWeek.
getOrderCountForCurrentWeek(shown) == Cardinality({n \in Today(shown) : IsOpen(shown[n])})

\* workoutExecutionTrend_Ichimoko_Weekly_Index: long only, one order a week.
Ichimoko_Weekly_Index(shown) ==
    Winning(IF phase = "night" THEN {Nothing}
            ELSE {Reversal("BUY", getOrderCountForCurrentWeek(shown) = 0)}, shown)

=============================================================================
