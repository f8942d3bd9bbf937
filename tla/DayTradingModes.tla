-------------------------- MODULE DayTradingModes --------------------------
(***************************************************************************)
(* The day-trading modes of AutoBBS (SwingStrategy.c): on each bar of the  *)
(* primary timeframe a mode looks at the time of day and at the orders of  *)
(* the day, and asks for exits and at most one entry.  Prices, indicators  *)
(* and filters are what the environment chooses.                           *)
(***************************************************************************)
EXTENDS StrategyOrders

\* The bars of a day: the first two; those before 01:00; that of 01:00; those before the start hour;
\* those to 15:59; those to 23:30; and the last ones.  To XAUUSD_DayTrading the first four are alike.
DayPhases(m) ==
    IF m = "XAUUSD_DayTrading" THEN <<"early", "day", "evening", "late">>
    ELSE <<"first", "night", "one", "early", "day", "evening", "late">>

\* hasSameDayOrder, and the *pIsOpen it sets.
hasSameDayOrder(shown) == Today(shown) # {}
SameDayIsOpen(shown) == hasSameDayOrder(shown) /\ IsOpen(shown[Min(Today(shown))])

\* losing: the open orders the price is against; beyond: those whose take profit it has passed.
getLossTimesInDay(shown, losing) ==
    Cardinality({n \in Today(shown) : shown[n].result = "lost" \/ shown[n].ticket \in losing})
getWinTimesInDay(shown, beyond) ==
    Cardinality({n \in Today(shown) : shown[n].result = "won" \/ shown[n].ticket \in beyond})

ExitIf(condition) == {IF condition THEN ExitAll ELSE Nothing}

\* maxTradeTime, or the limit XAUUSD_DayTrading_Entry compares with.
LossLimit(m, a) == IF m = "XAUUSD_DayTrading" THEN 2 ELSE IF a THEN 1 ELSE 3

\* Mutants of MayEnterAgain: the losses are not counted; the wins are not.
MayEnterAgain_AnyLosses(shown, losing, beyond) == getWinTimesInDay(shown, beyond) = 0
MayEnterAgain_AfterWin(shown, losing, beyond) == getLossTimesInDay(shown, losing) < LossLimit(mode, auto)

MayEnterAgain(shown, losing, beyond) ==
    getLossTimesInDay(shown, losing) < LossLimit(mode, auto) /\ getWinTimesInDay(shown, beyond) = 0

\* The bar of 01:00 ends what is left of the day before.
ClosesBeforeTrading(shown) == ExitIf(hasOpenOrder(shown))

\* A filter of the market may refuse at any hour, and does so before the start hour.
BeforeStart == phase \in {"night", "early"}
GBPJPY_DayTrading_Allow_Trade == IF BeforeStart THEN {FALSE} ELSE BOOLEAN
XAUUSD_DayTrading_Allow_Trade == IF BeforeStart THEN {FALSE} ELSE BOOLEAN

\* An open position that lost what it had won is closed; one the range of the day turned against is left
\* for the other side.
OnAPosition(shown, losing, beyond) ==
    LET type == Latest(shown).type IN
    {Nothing, Decision("none", FALSE, "none", {<<type, shown[1].ticket>>}),
     Reversal(Other(type), MayEnterAgain(shown, losing, beyond))}

\* workoutExecutionTrend_GBPJPY_DayTrading_Ver2, from where it was allowed to trade.
Ver2Trades(shown, losing, beyond) ==
    IF phase = "late" THEN ExitIf(SameDayIsOpen(shown))
    ELSE IF ~hasSameDayOrder(shown)
         THEN {Nothing} \cup {Enter(side) : side \in IF phase = "evening" THEN {} ELSE Sides}
    ELSE IF getWinTimesInDay(shown, beyond) > 0 THEN ExitIf(SameDayIsOpen(shown))
    ELSE IF IsOpen(Latest(shown)) THEN OnAPosition(shown, losing, beyond)
    ELSE {Nothing}

\* In auto mode only is it asked.
GBPJPY_DayTrading_Ver2(shown, losing, beyond) ==
    CASE phase = "one"   -> ClosesBeforeTrading(shown)
      [] phase = "first" -> {Nothing}
      [] OTHER -> UNION {IF allowed THEN Ver2Trades(shown, losing, beyond) ELSE {Nothing} :
                            allowed \in IF auto THEN GBPJPY_DayTrading_Allow_Trade ELSE {TRUE}}

\* workoutExecutionTrend_DayTrading_ExecutionOnly.
DayTrading_ExecutionOnly(shown, beyond) ==
    CASE phase = "one" -> ClosesBeforeTrading(shown)
      [] phase \in {"first", "night", "early"} -> {Nothing}
      [] OTHER -> IF phase = "late" \/ getWinTimesInDay(shown, beyond) > 0 THEN ExitIf(hasOpenOrder(shown))
                  ELSE {Nothing} \cup {Enter(side) : side \in
                            IF phase = "evening" \/ hasSameDayOrder(shown) THEN {} ELSE Sides}

\* closeAllWithNegative(1): losing orders with a take profit, those of today at the end of the day only.
Negative(shown, under) ==
    {<<o.type, o.ticket>> : o \in {shown[n] : n \in {m \in DOMAIN shown :
        /\ shown[m].ticket \in under /\ shown[m].tp
        /\ shown[m].day # day \/ phase = "late"}}}

\* XAUUSD_DayTrading_Entry, called when the price broke out on a side.  After it the position is on that
\* side, or the order on the other is to be closed at least.
Entry(shown, side, losing, beyond) ==
    Reversal(side, phase # "late" /\ MayEnterAgain(shown, losing, beyond))

\* XAUUSD_Daily_Stop_Check: an order against the trend, after a loss.
StopCheck(shown, losing, beyond) ==
    IF IsOpen(shown[1]) /\ getLossTimesInDay(shown, losing) > 0 /\ getWinTimesInDay(shown, beyond) = 0
    THEN {Decision(Latest(shown).type, FALSE, shown[1].type, {})} ELSE {}

\* The first order of the day, with the averages or out of the range of Asia.
XAUUSD_First == {Nothing} \cup {Enter(side) : side \in IF phase = "late" THEN {} ELSE Sides}

\* Further ones: while an order is open on the other side only.  The trend is that of the last one.
XAUUSD_Further(shown, losing, beyond) ==
    LET latest == Latest(shown)
        sides == IF IsOpen(latest) THEN {Other(latest.type)} ELSE Sides
    IN  {Decision(latest.type, FALSE, "none", {})} \cup {Entry(shown, side, losing, beyond) : side \in sides}

\* From 21:00 what is open ends when the band stop is against it.
XAUUSD_EndOfDay(shown) ==
    IF phase # "day" /\ IsOpen(Latest(shown)) THEN {Decision(Latest(shown).type, FALSE, "ALL", {})} ELSE {}

\* Before the payrolls an entry against the hourly average is taken away, and what it exits is not.
BeforePayrolls(decisions) == MayNotEnter(decisions)

\* workoutExecutionTrend_XAUUSD_DayTrading, from where it was allowed to trade.
XAUUSD_Trades(shown, losing, beyond) ==
    BeforePayrolls(
        IF ~hasSameDayOrder(shown) THEN XAUUSD_First
        ELSE XAUUSD_Further(shown, losing, beyond) \cup XAUUSD_EndOfDay(shown)
             \cup IF phase = "late" THEN {} ELSE StopCheck(shown, losing, beyond))

\* workoutExecutionTrend_XAUUSD_DayTrading.
XAUUSD_DayTrading(shown, under, losing, beyond) ==
    {[decision EXCEPT !.named = Negative(shown, under)] : decision \in
        UNION {IF allowed THEN ExitIf(SameDayIsOpen(shown)) \cup XAUUSD_Trades(shown, losing, beyond)
               ELSE {Nothing} : allowed \in XAUUSD_DayTrading_Allow_Trade}}

=============================================================================
