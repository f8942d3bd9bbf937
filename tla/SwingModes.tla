----------------------------- MODULE SwingModes -----------------------------
(***************************************************************************)
(* The modes of AutoBBS for swings (TrendStrategy.c, SwingStrategy.c): an  *)
(* entry with the Bollinger band stop or at a pivot, near whose price     *)
(* there must be no order yet, or the first of the day or of the week.     *)
(* zone is where the price is; the rest of the market the environment      *)
(* chooses.                                                                *)
(***************************************************************************)
EXTENDS DayTradingModes, TrendModes

\* The bars of a day: those to 22:59, those to 23:25 and the last ones; of a week, the last ones of
\* Friday apart.
SwingPhases(m) ==
    CASE m \in {"Auto", "Auto_KeyK", "WeeklyAuto"} -> <<"day", "late">>
      [] m = "ATR_Hedge" -> <<"day", "evening", "late">>
      [] m = "Weekly_Swing_New" -> <<"first", "day">>
      [] OTHER -> <<"day">>

\* isSamePricePendingOrder.
isSamePricePendingOrder(shown, zone) == \E n \in DOMAIN shown : IsOpen(shown[n]) /\ shown[n].level = zone

\* isSameDaySamePricePendingOrder, and isSameWeekSamePricePendingOrder where a day stands for a week.
isSameDaySamePricePendingOrder(shown, zone) ==
    \E n \in Today(shown) : IsOpen(shown[n]) /\ shown[n].level = zone

-----------------------------------------------------------------------------
(* With the stop of four hours. *)

\* In for a side, with a stop at the line of the day.
BBS_4HSwing_Trend(shown, side, zone) == Decision(side, ~isSameDaySamePricePendingOrder(shown, zone), "none", {})

\* workoutExecutionTrend_4HBBS_Swing: nothing is exited, the stop losses end the orders.
BBS_4HSwing(shown, zone) == profitManagement_base({BBS_4HSwing_Trend(shown, side, zone) : side \in Sides})

\* In a trend it enters by itself, without an execution trend, when the averages agree.
ShortTermTrend(shown, side) ==
    {IF may THEN Reversal(side, TRUE) ELSE Decision("none", FALSE, Other(side), {}) :
        may \in Filters(NoPosition(shown))}

\* workoutExecutionTrend_ShortTerm.
ShortTerm(shown) == {ExitAll} \cup UNION {ShortTermTrend(shown, side) : side \in Sides}

\* What is exited when the stop turned against the trend of the side, in auto mode.
TurnedAgainst(decision) == IF auto THEN {decision} ELSE {}

\* With AUTOBBS_TP_MODE the stop of the oldest order follows the price, when it moved far enough.
MovedStops(shown) == {"none"} \cup IF hasOpenOrder(shown) THEN {shown[OldestOpen(shown)].type} ELSE {}

\* In a trend it enters by itself and exits the other side; after the stop was moved the band stop
\* does not exit.
Limit_BBS_Trend(shown, side, moved) ==
    {IF may THEN Reversal(side, TRUE) ELSE Decision(moved, FALSE, Other(side), {}) :
        may \in Filters(~hasOpenOrder(shown))}
    \cup IF moved = "none" THEN TurnedAgainst(Decision("none", FALSE, side, {})) ELSE {}

\* workoutExecutionTrend_Limit_BBS.
Limit_BBS(shown) ==
    UNION {{Decision(moved, FALSE, "ALL", {})} \cup UNION {Limit_BBS_Trend(shown, side, moved) : side \in Sides} :
        moved \in MovedStops(shown)}

\* workoutExecutionTrend_Limit_BBS_LongTerm.
Limit_BBS_LongTerm(shown, zone) ==
    {ExitAll} \cup UNION {{Reversal(side, ~isSamePricePendingOrder(shown, zone))}
                          \cup TurnedAgainst(Decision(side, FALSE, "ALL", {})) : side \in Sides}

-----------------------------------------------------------------------------
(* By the phase of the trend. *)

ShortTermOrders(shown) == {o \in ToSet(shown) : IsOpen(o) /\ o.tp}

\* closeAllWithNegative: losing orders with a take profit, of an earlier day; at the end of the day, which
\* on a key date of gold begins at 19:25, of this one too.
closeAllWithNegative(decisions, shown) ==
    {[d EXCEPT !.named = Named(picked)] : d \in decisions, picked \in
        SUBSET {o \in ShortTermOrders(shown) : o.day # day \/ phase = "late"}}

\* closeAllCurrentDayShortTermOrders.
closeAllCurrentDayShortTermOrders(shown) == Named({o \in ShortTermOrders(shown) : o.day = day})

\* What the phase of the trend lets in for a side: the orders an entry is split in, and whether it may.
PhaseEntry(side, may, split) == [Reversal(side, may) EXCEPT !.split = IF may THEN split ELSE NoSplit]

\* workoutExecutionTrend_Pivot and then workoutExecutionTrend_BBS_BreakOut, at the beginning of a trend and
\* in its middle.  For the middle of one there are no orders, unless AUTOBBS_LONG_SHORT_MODE says so.
BEGINNING_PHASE(shown, side, zone) ==
    {PhaseEntry(side, ~isSamePricePendingOrder(shown, zone), split_ShortTerm(Cardinality(Today(shown))))}
MIDDLE_PHASE(shown, side, zone) ==
    {PhaseEntry(side, ~isSameDaySamePricePendingOrder(shown, zone), split) :
        split \in {NoSplit, split_ShortTerm(Cardinality(Today(shown)))}}

\* workoutExecutionTrend_MIDDLE_RETREAT_PHASE.
MIDDLE_RETREAT_PHASE(shown, side, zone) ==
    {PhaseEntry(side, ~isSameDaySamePricePendingOrder(shown, zone), split_ShortTerm(Cardinality(Today(shown))))}

\* RANGE_PHASE: all is exited, or the stops are moved.
RANGE_PHASE == {ExitAll, Nothing}

\* profitManagement: orders with a take profit of the day or the week, and the orders that won, are
\* closed on a bar without an entry only: any of the open orders.
profitManagement(decisions, shown) ==
    decisions \cup Winning({[d EXCEPT !.enter = FALSE, !.split = NoSplit] : d \in decisions}, shown)

\* profitManagementWeekly does so with an entry too.
profitManagementWeekly(decisions, shown) == Winning(decisions, shown)

\* workoutExecutionTrend_Auto: after 17:00, when the day had a small range, its orders with a take profit
\* are closed.
Auto_Trend(shown, zone) ==
    LET byPhase == UNION {BEGINNING_PHASE(shown, side, zone) \cup MIDDLE_PHASE(shown, side, zone)
                          \cup MIDDLE_RETREAT_PHASE(shown, side, zone) : side \in Sides}
        trading == closeAllWithNegative(byPhase, shown) \cup RANGE_PHASE
        small == {[d EXCEPT !.named = @ \cup closeAllCurrentDayShortTermOrders(shown)] : d \in trading}
    IN  profitManagement(trading \cup small, shown)

\* workoutExecutionTrend_KeyK, which comes first when AUTOBBS_KEYK is set: with an entry, or against the
\* trend of the day, nothing else is looked at.
KeyKFirst(decisions) ==
    decisions \cup {PhaseEntry(side, may, split_KeyK) : side \in Sides, may \in BOOLEAN}
Auto_KeyK(shown, zone) == KeyKFirst(Auto_Trend(shown, zone))

\* workoutExecutionTrend_Weekly_Pivot, Weekly_BBS_BreakOut and Weekly_MIDDLE_RETREAT_PHASE.
WeeklyPhases(shown, side, zone) ==
    {PhaseEntry(side, ~isSameDaySamePricePendingOrder(shown, zone), split) :
        split \in {split_Weekly_ShortTerm(side), NoSplit, split_DayTrading}}

\* workoutExecutionTrend_WeeklyAuto.
WeeklyAuto(shown, zone) ==
    profitManagementWeekly(
        closeAllWithNegative(UNION {WeeklyPhases(shown, side, zone) : side \in Sides}, shown) \cup RANGE_PHASE,
        shown)

-----------------------------------------------------------------------------
(* The first of the day, or of the week. *)

\* workoutExecutionTrend_ATR_Hedge: against a day that ran out of its range.
ATR_Hedge(shown) ==
    IF phase = "late" THEN {ExitAll}
    ELSE {Nothing} \cup {Reversal(side, phase = "day" /\ ~hasSameDayOrder(shown)) : side \in Sides}

\* workoutExecutionTrend_Weekly_Swing_New, with hasSameWeekOrder, getLossTimesInWeek and getWinTimesInWeek
\* where a day stands for a week.
Weekly_Swing_New(shown, losing, beyond) ==
    CASE phase = "first" -> {Nothing}
      [] ~hasSameDayOrder(shown) -> {Nothing} \cup {Enter(side) : side \in Sides}
      [] OTHER -> Follow(getLossTimesInDay(shown, losing) < 5 /\ getWinTimesInDay(shown, beyond) = 0)

=============================================================================
