----------------------------- MODULE LimitModes -----------------------------
(***************************************************************************)
(* The modes of AutoBBS that send limit and stop orders at the pivot lines *)
(* of the day (TrendStrategy.c, modes 2 and 3), as the back-tester runs    *)
(* them: it shows a strategy its pending orders too, which the terminals   *)
(* do not.                                                                 *)
(*                                                                         *)
(* Besides the orders the modes have a file, which survives the bar: mode  *)
(* Limit keeps in it a range order to be sent the next day, the other mode *)
(* the side of the last big winner.                                        *)
(***************************************************************************)
EXTENDS MultipleDayModes

\* The bars of a day: those to 07:59; to 16:59; to the stop hour; and from it.  A day a mode leaves out
\* (the first Friday of a month, the days before Christmas and New Year, an RSI that is too far out) is one
\* none of whose bars is run.
LimitPhases == <<"early", "day", "evening", "late">>

\* The lines ahead of the pivot of the day for a side and behind it, and beyond them where a range order is
\* sent: R1 and S1 for buying.
Ahead(side) == IF side = "BUY" THEN Pivots[day] + 1 ELSE Pivots[day] - 1
Behind(side) == Ahead(Other(side))
BeyondLines(side) == IF side = "BUY" THEN 0 ELSE Len(Pivots) + 3

StopOf(side) == IF side = "BUY" THEN "BUYSTOP" ELSE "SELLSTOP"

\* The tester's orders of the system: the open ones as they stand in the book, and the closed ones, the
\* last to close at the end.
TesterOrderInfo(size) == SubSeq(open \o closed, 1, Min({size, Len(open) + Len(closed)}))

IsPending(o) == IsOpen(o) /\ o.type \notin Sides
IsPosition(o) == IsOpen(o) /\ o.type \in Sides

\* Mutant of closeAllLimitAndStopOrders: the stop orders only.
closeAllLimitAndStopOrders_Stops(shown) ==
    {shown[n].ticket : n \in {k \in Today(shown) : IsOpen(shown[k]) /\ shown[k].type \in {"BUYSTOP", "SELLSTOP"}}}

closeAllLimitAndStopOrders(shown) == {shown[n].ticket : n \in {k \in Today(shown) : IsPending(shown[k])}}

\* closeAllCurrentDayShortTermOrders: each order of these modes has a take profit.
closeAllPositionsOfDay(shown) == {shown[n].ticket : n \in {k \in Today(shown) : IsPosition(shown[k])}}

\* getLastestOrderIndexExceptLimitAndStopOrders, of all orders or the closed ones.
PositionsShown(shown) == SelectSeq(shown, LAMBDA o : o.type \in Sides)
ClosedShown(shown) == SelectSeq(PositionsShown(shown), LAMBDA o : ~IsOpen(o))

\* The order opened last, if it is a position.
LatestPosition(shown) ==
    IF shown # <<>> /\ IsPosition(Latest(shown)) THEN {Latest(shown).ticket} ELSE {}
LatestIsOpen(shown) == shown # <<>> /\ IsOpen(Latest(shown))

getLossTimesInDayCloseOrder(shown) == Cardinality({n \in Today(shown) : shown[n].result = "lost"})
getWinTimesInDaywithSamePrice(shown, level) ==
    Cardinality({n \in Today(shown) : shown[n].result = "won" /\ shown[n].level = level})

-----------------------------------------------------------------------------
(* Orders are pairs of a type and a line. *)

\* Mutants of MayOpenAt: a win at the line is not looked for; open orders are not.
MayOpenAt_AfterWin(shown, level) == ~isSamePricePendingOrder(shown, level)
MayOpenAt_NoOpen(shown, level) == getWinTimesInDaywithSamePrice(shown, level) < 1

\* isSamePriceBuyStopOrder and the like are implied by isSamePricePendingOrder.
MayOpenAt(shown, level) ==
    ~isSamePricePendingOrder(shown, level) /\ getWinTimesInDaywithSamePrice(shown, level) < 1

\* openSingleBuyStop, openSingleSellLimit and the like: an entry in the first free result.
openSinglePending(type, level) == <<<<type, level>>>>

OrderAt(shown, type, level) == IF MayOpenAt(shown, level) THEN openSinglePending(type, level) ELSE <<>>

\* splitBuyOrders_Limit and splitSellOrders_Limit.  Before the price is beyond the pivot a stop order waits
\* at it, and in the early hours, where the symbol has it (sr1), an order at the line behind; after it a
\* limit order, and with stops, when the day had a position, a stop order at the line ahead, unless the
\* price is past it.  On some symbols there is nothing at the pivot in the early hours.
splitOrders_Limit(shown, side, sr1, stops) ==
    LET atPivot(type) == {OrderAt(shown, type, Pivots[day])} \cup (IF phase = "early" THEN {<<>>} ELSE {})
        behind == {<<>>} \cup (IF sr1 /\ phase = "early"
                               THEN {OrderAt(shown, type, Behind(side)) : type \in {LimitOf(side), StopOf(side)}}
                               ELSE {})
        traded == \E n \in Today(shown) : shown[n].type \in Sides
        ahead == {<<>>} \cup (IF stops /\ traded THEN {OrderAt(shown, StopOf(side), Ahead(side))} ELSE {})
    IN  {first \o second : first \in atPivot(StopOf(side)), second \in behind} \cup
        {first \o second : first \in atPivot(LimitOf(side)), second \in ahead}

\* splitBuyRangeOrders and splitSellRangeOrders: an order at the price.
splitRangeOrders(side) == <<<<side, BeyondLines(side)>>>>

\* The time of this bar, later than that of all orders.
NextAt == 1 + Max({0} \cup {o.at : o \in ToSet(open \o closed)})

\* checkPending: a pending order that is reached is a position, and was opened on this bar.
Triggered(o) ==
    [o EXCEPT !.type = IF o.type \in {LimitOf("BUY"), StopOf("BUY")} THEN "BUY" ELSE "SELL",
              !.day = day, !.at = NextAt]

\* What a bar asks for: entries, the tickets to close, and what is in the file after it.
Bar(entries, closes, file) == [entries |-> entries, refused |-> 0, closes |-> closes, file |-> file]

\* isCloseOrdersEOD: when the day ends with the trend against the position, on some symbols; on GBPUSD always.
isCloseOrdersEOD(symbols, latest) ==
    CASE Symbol = "GBPUSD" -> {TRUE}
      [] Symbol \in symbols /\ latest # {} -> BOOLEAN
      [] OTHER -> {FALSE}

\* From the stop hour on nothing is left to wait, and a position opened about that hour is closed.  The last
\* bars may close the positions of the day.
AfterStopHour(shown, latest, eod, files) ==
    {Bar(<<>>, UNION {closeAllLimitAndStopOrders(shown), ended, spot}, file) :
        ended \in {{}} \cup {IF close THEN closeAllPositionsOfDay(shown) ELSE {} : close \in eod},
        spot \in {{}, latest}, file \in files}

\* After its losses a day is over.
\* Mutant: after one more.
LimitLosses_OneMore(m) == IF m = "Limit" THEN 3 ELSE 2

LimitLosses(m) == IF m = "Limit" THEN 2 ELSE 1
AfterLosses(shown) == {Bar(<<>>, closeAllLimitAndStopOrders(shown) \cup closeAllPositionsOfDay(shown), saved)}

-----------------------------------------------------------------------------
(* Mode Limit. *)

isEnableLimitSR1 == Symbol \in {"XAUUSD", "BTCUSD", "ETHUSD"}
isEnableDoubleEntry == Symbol \in {"XAUUSD", "BTCUSD", "ETHUSD"}
EndsLimitDay(shown) ==
    isCloseOrdersEOD({"GBPJPY", "USDJPY", "XAUUSD", "EURGBP", "EURUSD", "BTCUSD", "ETHUSD", "AUDUSD"},
                     LatestPosition(shown))

\* The trend of the day, by its averages and those of four hours; a range is not traded.
LimitTrends == Sides \cup {"none"}

NoFile == [side |-> "unset", day |-> 0]
ResetFile == [side |-> "none", day |-> 0]

\* entryBuyRangeOrder and entrySellRangeOrder: beyond the second line, when no order is open.
RangeEntry(shown, side) ==
    ~LatestIsOpen(shown) /\ getWinTimesInDaywithSamePrice(shown, BeyondLines(side)) = 0

\* Late in the day it is noted for the next day.
NotedRangeOrders(shown) ==
    {saved} \cup {[side |-> side, day |-> day] : side \in {s \in Sides : RangeEntry(shown, s)}}

\* isRangeOrder: 1 or -1 for a loss in the evening before, 2 or -2 for a note of the last day.  Before the
\* first order it reads what is before the array, and without a file the note is not initialized.
LossBefore(shown) ==
    CASE shown = <<>> -> Sides
      [] shown # <<>> /\ Latest(shown).result = "lost" /\ Latest(shown).day = day - 1 -> {Latest(shown).type}
      [] OTHER -> {}
Noted == IF saved = NoFile THEN Sides ELSE IF saved.side \in Sides /\ saved.day >= day - 1 THEN {saved.side} ELSE {}

\* A range order is sent when the day has no win yet.
SecondEntry(shown) == ~LatestIsOpen(shown) /\ getWinTimesInDay(shown, {}) = 0

\* What a trend lets in: in the evening a range order, and the orders at the lines, or they are closed.
\* A position that has passed its take profit is closed.
InTrend(shown, side, closes) ==
    IF side = "none" THEN {Bar(<<>>, closes \cup passed, saved) : passed \in {{}, LatestPosition(shown)}} ELSE
    LET ranges == {<<>>} \cup (IF phase = "evening" /\ RangeEntry(shown, side) THEN {splitRangeOrders(side)} ELSE {})
        splits == {<<>>} \cup splitOrders_Limit(shown, side, isEnableLimitSR1, auto)
    IN  {Bar(range \o split, closes \cup passed, saved) :
            range \in ranges, split \in splits, passed \in {{}, LatestPosition(shown)}}
        \cup {Bar(range, closeAllLimitAndStopOrders(shown) \cup passed, saved) :
                 range \in ranges, passed \in {{}, LatestPosition(shown)}}

\* workoutExecutionTrend_Limit.  At the hour the orders at the pivot begin, those of the early hours are closed.
Limit(shown) ==
    CASE phase = "late" ->
            AfterStopHour(shown, LatestPosition(shown), EndsLimitDay(shown), NotedRangeOrders(shown))
      [] getLossTimesInDayCloseOrder(shown) >= LimitLosses(mode) -> AfterLosses(shown)
      [] OTHER ->
            LET reset == {{}, IF isEnableLimitSR1 /\ phase \in {"early", "day"}
                              THEN closeAllLimitAndStopOrders(shown) ELSE {}}
                second(sides, file) ==
                    IF SecondEntry(shown) THEN {Bar(splitRangeOrders(side), {}, file) : side \in sides} ELSE {}
                trading(closes) ==
                    UNION {InTrend(shown, trend, closes) : trend \in LimitTrends}
                    \cup {[bar EXCEPT !.closes = closes] :
                             bar \in second(Noted, ResetFile)
                                     \cup IF isEnableDoubleEntry THEN second(LossBefore(shown), saved) ELSE {}}
            IN  UNION {trading(closes) : closes \in reset}

-----------------------------------------------------------------------------
(* Mode Limit_BreakOutOnPivot. *)

Turning == ResetFile
WinnerOf(side) == [side |-> side, day |-> 0]

\* The turning point: before the first position, and when there is no file, the market is turning; after a
\* big winner it is not, until a position on the other side is open.
TurningPoint(shown) ==
    LET positions == PositionsShown(shown)
        before == IF positions = <<>> \/ saved = NoFile THEN Turning ELSE saved
        winner == ClosedShown(shown) # <<>> /\ Latest(ClosedShown(shown)).result = "won"
    IN  CASE before = Turning /\ winner -> {Turning, WinnerOf(Latest(ClosedShown(shown)).type)}
          [] before # Turning /\ IsOpen(Latest(positions)) /\ Latest(positions).type # before.side -> {Turning}
          [] OTHER -> {before}

EndsBreakOutDay(latest) == isCloseOrdersEOD({"XAUUSD", "BTCUSD", "ETHUSD", "AUDUSD"}, latest)

\* The trend of the day, when the rule of three bars is for it too.
BreakOutTrends == Sides \cup {"none"}

\* workoutExecutionTrend_Limit_BreakOutOnPivot: only at the pivot; the take profit is watched when the
\* market is not turning.
Limit_BreakOutOnPivot(shown) ==
    LET latest == LatestPosition(PositionsShown(shown))
        splits == UNION {IF trend = "none" THEN {<<>>} ELSE splitOrders_Limit(shown, trend, FALSE, FALSE) :
                            trend \in BreakOutTrends}
        Passed(file) == IF file = Turning THEN {{}} ELSE {{}, latest}
    IN  CASE phase = "late" -> AfterStopHour(shown, latest, EndsBreakOutDay(latest), {saved})
          [] getLossTimesInDayCloseOrder(shown) >= LimitLosses(mode) -> AfterLosses(shown)
          [] OTHER -> UNION {{Bar(split, passed, file) : split \in splits, passed \in Passed(file)} :
                                file \in TurningPoint(shown)}

=============================================================================
