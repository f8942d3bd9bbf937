-------------------------- MODULE MultipleDayModes -------------------------
(***************************************************************************)
(* The modes of AutoBBS that hold a position over days (SwingStrategy.c):  *)
(* the oldest order is the position, to which MultipleDay adds once it     *)
(* cannot lose any more, and with the position the day ends or goes on.    *)
(***************************************************************************)
EXTENDS SwingModes

\* The bars of a day: the first two, or all those before the start hour; those to 23:30; and
\* the last ones.
MultipleDayPhases(m) == IF m \in BEILIModes THEN <<"day">> ELSE <<"early", "day", "late">>

\* The side of the position, when there is one.
PositionSide(shown) == shown[OldestOpen(shown)].type

\* From 23:30 a position without the trend of the day is ended; nothing else is looked at.
EndOfDay == {Nothing, ExitAll}

-----------------------------------------------------------------------------
(* MultipleDay. *)

\* Mutant of AddPosition: orders near the price are not looked for.
AddPosition_Anywhere(shown, zone) == {[Enter(PositionSide(shown)) EXCEPT !.split = split_MultiDays_Swing(2)]}

\* isAddPosition, on gold and GBPJPY: the stop loss of the oldest order is at its price.  A smaller order
\* is added on its side when the price comes back to a line.
AddPosition(shown, zone) ==
    IF isSamePricePendingOrder(shown, zone) THEN {}
    ELSE {[Enter(PositionSide(shown)) EXCEPT !.split = split_MultiDays_Swing(2)]}

\* enterOrder_MultipleDay: outside the Bollinger bands; what is left of the range of the day sets the size,
\* or takes the entry away.
enterOrder_MultipleDay(may, split) ==
    {Nothing} \cup {[Reversal(side, enters) EXCEPT !.split = IF enters THEN split ELSE NoSplit] :
                       side \in Sides, enters \in {may, FALSE}}

\* modifyOrder_MultipleDay: the profit shrank, or the loss is too big and the trend is the other one.
modifyOrder_MultipleDay(side) ==
    {Nothing, Decision("none", FALSE, side, {}), Decision(Other(side), FALSE, side, {})}

\* isSameDayOrder: the position was begun today.
SameDayPosition(shown) == hasOpenOrder(shown) /\ shown[OldestOpen(shown)].day = day

\* What the symbols end with.  The stops that are moved after 01:00 go with nothing else.
Trades(shown) ==
    IF hasOpenOrder(shown) THEN modifyOrder_MultipleDay(PositionSide(shown))
    ELSE enterOrder_MultipleDay(~ClosedToday(shown), split_MultiDays_Swing(1))

\* The filters of the market, by symbol; that of the metals refuses after the end hour too.
XAUUSD_DayTrading_Allow_Trade_Ver2 == IF phase \in {"early", "late"} THEN {FALSE} ELSE BOOLEAN
BTCUSD_DayTrading_Allow_Trade == IF BeforeStart THEN {FALSE} ELSE BOOLEAN
GBPJPY_MultipleDays_Allow_Trade == IF BeforeStart THEN {FALSE} ELSE BOOLEAN
GBPUSD_MultipleDays_Allow_Trade == IF BeforeStart THEN {FALSE} ELSE BOOLEAN

\* When a filter refuses, a position of an earlier day is not looked at any more.
Asked(shown, sameDay, filter) ==
    UNION {IF auto /\ ~sameDay /\ ~allowed THEN {Nothing} ELSE Trades(shown) : allowed \in filter}

AddIfAny(shown, zone) == IF hasOpenOrder(shown) THEN AddPosition(shown, zone) ELSE {}

XAGUSD(shown) == Asked(shown, SameDayPosition(shown), XAUUSD_DayTrading_Allow_Trade_Ver2)
XAUUSD(shown, zone) == AddIfAny(shown, zone) \cup XAGUSD(shown)
BTCUSD(shown) == Asked(shown, SameDayPosition(shown), BTCUSD_DayTrading_Allow_Trade)
GBPJPY(shown, zone) ==
    AddIfAny(shown, zone) \cup Asked(shown, SameDayPosition(shown), GBPJPY_MultipleDays_Allow_Trade)
GBPUSD(shown) == Asked(shown, FALSE, GBPUSD_MultipleDays_Allow_Trade)
AUDUSD(shown) == Asked(shown, FALSE, GBPUSD_MultipleDays_Allow_Trade)

\* workoutExecutionTrend_MultipleDay, on a symbol; the first two bars of the day do nothing.
MultipleDay(shown, zone) ==
    IF phase = "late" /\ hasOpenOrder(shown) THEN EndOfDay
    ELSE {Nothing} \cup UNION {XAGUSD(shown), XAUUSD(shown, zone), BTCUSD(shown), GBPJPY(shown, zone),
                               GBPUSD(shown), AUDUSD(shown)}

-----------------------------------------------------------------------------
(* The others. *)

\* workoutExecutionTrend_MultipleDay_V2: with a position only its stops are moved.
MultipleDay_V2(shown) ==
    CASE phase = "early" -> {Nothing}
      [] phase = "late" /\ hasOpenOrder(shown) -> EndOfDay
      [] OTHER -> IF hasOpenOrder(shown) THEN {Nothing}
                  ELSE enterOrder_MultipleDay(TRUE, split_MultiDays_Swing_V2)

\* workoutExecutionTrend_MACD_BEILI: against the trend, once MACD has been far from zero.
MACD_BEILI(shown) == Follow(NoPosition(shown) /\ ~ClosedToday(shown))

\* workoutExecutionTrend_MACD_BEILI_Daily_Regression: the same on the daily lines.
MACD_BEILI_Daily_Regression(shown) == Follow(NoPosition(shown) /\ ~ClosedToday(shown))

=============================================================================
