------------------------------ MODULE Strategies -----------------------------
(***************************************************************************)
(* The strategies on the bars of their primary timeframe: the mode of      *)
(* AutoBBS (AutoBBS.c) decides and its filters may take the entry away, or *)
(* another strategy runs; the results array is filled, and the front end   *)
(* carries the results out as in LiveOrders, here in one step.             *)
(***************************************************************************)
EXTENDS LimitModes, BandStrategies

Phases(m) ==
    CASE m \in DayTrading -> DayPhases(m)
      [] m \in TrendFollowing -> TrendPhases(m)
      [] m \in SwingModes -> SwingPhases(m)
      [] m \in MultipleDayModes -> MultipleDayPhases(m)
      [] m \in LimitModes -> LimitPhases
      [] m \in OpenOrUpdate \cup Banded -> <<"one">>

\* workoutExecutionTrend: the account risk and the side filter may take the entry away.
Filtered(decisions) == decisions \cup {[d EXCEPT !.enter = FALSE, !.split = NoSplit] : d \in decisions}

workoutExecutionTrend(shown, under, losing, beyond, zone) ==
    Filtered(CASE mode = "GBPJPY_DayTrading_Ver2" -> GBPJPY_DayTrading_Ver2(shown, losing, beyond)
               [] mode = "XAUUSD_DayTrading" -> XAUUSD_DayTrading(shown, under, losing, beyond)
               [] mode = "DayTrading_ExecutionOnly" -> DayTrading_ExecutionOnly(shown, beyond)
               [] mode = "4HBBS_Swing_BoDuan" -> BoDuan(shown)
               [] mode = "4HBBS_Swing_XAUUSD_BoDuan" -> XAUUSD_BoDuan(shown)
               [] mode = "4H_Shellington" -> Shellington(shown)
               [] mode = "MACD_Weekly" -> MACD_Weekly(shown)
               [] mode = "MACD_Daily" -> MACD_Daily(shown)
               [] mode = "MACD_Daily_New" -> MACD_Daily_New(shown)
               [] mode = "ASI" -> ASI(shown)
               [] mode = "Ichimoko_Daily_V2" -> Ichimoko_Daily_V2(shown)
               [] mode = "Ichimoko_Daily_Index" -> Ichimoko_Daily_Index(shown)
               [] mode = "Ichimoko_Daily_New" -> Ichimoko_Daily_New(shown)
               [] mode = "Ichimoko_Daily_Index_Regression_Test" -> Ichimoko_Regression_Test(shown)
               [] mode = "Ichimoko_Weekly_Index" -> Ichimoko_Weekly_Index(shown)
               [] mode = "BBS_4HSwing" -> BBS_4HSwing(shown, zone)
               [] mode = "ShortTerm" -> ShortTerm(shown)
               [] mode = "Limit_BBS" -> Limit_BBS(shown)
               [] mode = "Limit_BBS_LongTerm" -> Limit_BBS_LongTerm(shown, zone)
               [] mode = "Auto" -> Auto_Trend(shown, zone)
               [] mode = "Auto_KeyK" -> Auto_KeyK(shown, zone)
               [] mode = "WeeklyAuto" -> WeeklyAuto(shown, zone)
               [] mode = "ATR_Hedge" -> ATR_Hedge(shown)
               [] mode = "Weekly_Swing_New" -> Weekly_Swing_New(shown, losing, beyond)
               [] mode = "MultipleDay" -> MultipleDay(shown, zone)
               [] mode = "MultipleDay_V2" -> MultipleDay_V2(shown)
               [] mode = "MACD_BEILI" -> MACD_BEILI(shown)
               [] mode = "MACD_BEILI_Daily_Regression" -> MACD_BEILI_Daily_Regression(shown))

-----------------------------------------------------------------------------
(* A bar. *)

\* handleTradeExits and handleTradeEntries, after what the mode itself has asked to close.
FilledResults(decision, shown, parts) ==
    LET held == ShownOpen(shown)
        CloseNamed(res, type) == closeNamed(res, held, decision.named, type)
        Exit(res, side) == IF decision.exit \in {side, "ALL"} THEN closeAll(res, held, side) ELSE res
        exited(res) == Exit(Exit(res, "SELL"), "BUY")
        entered(res) == openEach(res, decision.trend, Len(parts))
        named == CloseNamed(CloseNamed(clearStrategyResults(MaxOpenOrders), "BUY"), "SELL")
    IN  CASE decision.trend = "none" -> exited(named)
          [] decision.trend # "none" /\ decision.enter ->
                IF mode \in EntersFirst THEN exited(entered(named)) ELSE entered(exited(named))
          [] OTHER -> IF mode = "XAUUSD_DayTrading" THEN exited(named)
                      ELSE modifyAll(exited(named), held, decision.trend, "own")

\* om_handleOpenOrders: the orders a walk from the last to the first asks to close.  One no result is for
\* has the result of the one before.
Walk(res, orders) ==
    LET walked[k \in 0..Len(orders)] ==
            IF k = 0 THEN [rix |-> 1, closes |-> {}]
            ELSE LET before == walked[k - 1]
                     o == orders[Len(orders) + 1 - k]
                     matching == Matching(res, o)
                     rix == IF matching = {} THEN before.rix ELSE Min(matching)
                 IN  [rix    |-> rix,
                      closes |-> IF <<"CLOSE", o.type>> \in res[rix].signals
                                 THEN before.closes \cup {o.ticket} ELSE before.closes]
    IN  walked[Len(orders)].closes

Init ==
    /\ mode \in Modes /\ auto \in AutoModes
    /\ day = 1 /\ phase \in ToSet(Phases(mode)) /\ ran = FALSE
    /\ updated = 0 /\ band = [side |-> "SELL", fresh |-> FALSE] /\ signalled = "unseen"
    /\ saved = NoFile
    /\ open = <<>> /\ closed = <<>>
    /\ sent = 0 /\ faults = 0

Keep(orders, tickets) == Picked(orders, {n \in DOMAIN orders : orders[n].ticket \in tickets})
Drop(orders, tickets) == Picked(orders, {n \in DOMAIN orders : orders[n].ticket \notin tickets})

\* The order in the history.  The day it was closed is kept where a mode asks for it.
CloseAs(o, outcome) ==
    [o EXCEPT !.result = outcome, !.until = IF mode \in MACD_DailyModes \cup BEILIModes \cup {"MultipleDay"} THEN day ELSE 0]

\* What a closed order brought, as far as a mode tells it apart.  That an order breaks even is left out
\* (bound) where two modes have more to tell apart.
Outcomes ==
    CASE mode \in DayTrading \ {"XAUUSD_DayTrading"} -> {"won", "lost", "even"}
      [] mode \in {"XAUUSD_DayTrading", "Weekly_Swing_New", "4H_Shellington"} \cup LimitModes -> {"won", "lost"}
      [] OTHER -> {"even"}

ToOpen(res) == {r \in DOMAIN res : \E side \in Sides : <<"OPEN", side>> \in res[r].signals}

\* The modes that ask whether an order has a take profit.
KeepsTp == {"XAUUSD_DayTrading", "DayTrading_ExecutionOnly", "Auto", "Auto_KeyK", "WeeklyAuto",
            "Weekly_Swing_New"}
\* Which of the parts of an entry have a take profit.
Kept(parts) == {n \in DOMAIN parts : mode \in KeepsTp /\ parts[n]}

\* A walk over the orders: those asked to close are closed, but for the stuck ones the broker refuses.
om_handleOpenOrders(state, stuck) ==
    LET closes == Walk(state.res, state.orders) \ stuck
    IN  [state EXCEPT !.orders = Drop(@, closes), !.ended = @ \o Reverse(Keep(state.orders, closes))]

\* om_openOrder: an entry is sent; its result is left without signals, and the orders are walked over
\* again.  tied: it is sent in the same second as the one before.
OpenOrder(state, r, tp, zone, tied, stuck) ==
    LET ticket == state.sent + 1
        new == [ticket |-> ticket, day |-> day, tp |-> tp, level |-> zone, result |-> "open", until |-> 0,
                at |-> IF tied THEN sent + 1 ELSE ticket,
                type |-> IF <<"OPEN", "BUY">> \in state.res[r].signals THEN "BUY" ELSE "SELL"]
        res == [state.res EXCEPT ![r].ticket = ticket, ![r].signals = {}]
    IN  om_handleOpenOrders([res |-> res, orders |-> Append(state.orders, new), ended |-> state.ended,
                             sent |-> ticket], stuck)

\* The accepted ones of the entries are sent, one after the other.  tps: those with a take profit.
OpenOrders(walked, accepted, tps, zone, tied, stuck) ==
    LET sending[r \in 0..MaxOpenOrders] ==
            IF r = 0 THEN walked
            ELSE LET before == sending[r - 1] IN
                 IF r \in accepted THEN OpenOrder(before, r, r \in tps, zone, tied, stuck) ELSE before
    IN  sending[MaxOpenOrders]

\* c_processOrders: a walk over the orders, and then the entries.
\* accepted: the entries the broker accepts; withTp: the parts of an entry with a take profit.
c_processOrders(res, under, withTp, zone) ==
    LET entries == ToOpen(res)
        tps == {r \in entries : Cardinality({q \in entries : q <= r}) \in withTp}
    IN  \E stuck \in IF faults < MaxFaults THEN SUBSET Walk(res, open) ELSE {{}},
           accepted \in SUBSET entries :
        \E tied \in IF mode \in AutoBBSModes /\ Cardinality(accepted) > 1 THEN BOOLEAN ELSE {FALSE} :
            LET walked ==
                    om_handleOpenOrders([res |-> res, orders |-> open, ended |-> <<>>, sent |-> sent], stuck)
                done == OpenOrders(walked, accepted, tps, zone, tied, stuck)
                refused == Cardinality(stuck) + Cardinality(entries \ accepted)
            IN  /\ sent + Cardinality(accepted) <= MaxOrders[mode]
                /\ faults + refused <= MaxFaults
                /\ \E outcome \in [Tickets(done.ended) -> Outcomes] :
                      /\ \A t \in Tickets(done.ended) \cap under : outcome[t] = "lost"
                      /\ closed' = closed \o [n \in DOMAIN done.ended |->
                                                CloseAs(done.ended[n], outcome[done.ended[n].ticket])]
                /\ open' = done.orders
                /\ sent' = done.sent
                /\ faults' = faults + refused
                /\ ran' = (mode \notin AutoBBSModes \/ (phase \in {"one", "two", "late"} /\ refused = 0))

\* runAutoBBS on a new bar, or on the same one after a call was refused.  under: the open orders that
\* would lose if they were closed.  The modes that count no profits are told of none.
AutoBBSBar ==
    /\ mode \in AutoBBSModes
    /\ ~(phase \in {"one", "two"} /\ ran)
    /\ \E under \in IF mode \in Counting THEN SUBSET Tickets(open) ELSE {{}},
          zone \in IF mode \in Priced THEN Zones ELSE {0} :
          LET shown == c_getOrderInfo(OrderInfoSize)
              passed == {o.ticket : o \in {p \in ToSet(open) : p.tp}} \ under
              decisions == UNION {workoutExecutionTrend(shown, under, losing, beyond, zone) :
                                     losing \in SUBSET under, beyond \in SUBSET passed}
              filled == UNION {{<<FilledResults(decision, shown, parts), Kept(parts)>> : parts \in
                                   IF decision.enter THEN decision.split ELSE NoSplit} : decision \in decisions}
          IN  \E results \in filled : c_processOrders(results[1], under, results[2], zone)
    /\ UNCHANGED <<mode, auto, day, phase, updated, band, signalled, saved>>

\* getStrategyFunctions: the runs the other strategies may make.
runStrategy(shown, held) ==
    CASE mode = "WatukushayFE_RSI" -> runWatukushayFE_RSI(held)
      [] mode = "WatukushayFE_BB" -> runWatukushayFE_BB(held)
      [] mode = "WatukushayFE_CCI" -> runWatukushayFE_CCI(held)
      [] mode = "Coatl" -> runCoatl(held)
      [] mode = "Comitl_PA" -> runComitl_PA(shown, held)
      [] mode = "Comitl_BB" -> runComitl_BB(held)
      [] mode = "Comitl_KC" -> runComitl_KC(held)
      [] mode = "GodsGiftATR" -> runGodsGiftATR(held)
      [] mode = "Qallaryi" -> runQallaryi(held)
      [] mode = "Quimichi" -> runQuimichi(held)
      [] mode = "Sapaq" -> runSapaq(held)
      [] mode = "Ruphay" -> runRuphay(held)
      [] mode = "Teyacanani" -> runTeyacanani(held)
      [] mode = "Atipaq" -> runAtipaq(held)
      [] mode = "AsirikuyBrain" -> runAsirikuyBrain(held)
      [] mode = "Munay" -> runMunay(held)
      [] mode = "KantuML" -> runKantuML(held)
      [] mode = "RenkoTest" -> runRenkoTest(held)
      [] mode = "Kelpie" -> runKelpie(held)
      [] mode = "TestEA" -> runTestEA(held)
      [] mode = "BBS" -> runBBS(held)
      [] mode = "BuDan" -> runBuDan
      [] mode = "KeyK" -> runKeyK(held)

\* runStrategy, once on a bar.  The side is kept for the properties when the strategy was shown all the
\* orders and no call was refused.
StrategyBar ==
    /\ mode \in OpenOrUpdate \cup Banded /\ ~ran
    /\ LET shown == c_getOrderInfo(OrderInfoSize)
       IN  \E run \in runStrategy(shown, ShownOpen(shown)) :
              /\ c_processOrders(run.res, {}, {}, 0)
              /\ updated' = run.updated
              /\ signalled' = IF Len(open) <= OrderInfoSize /\ faults' = faults THEN run.side ELSE "unseen"
    /\ UNCHANGED <<mode, auto, day, phase, band, saved>>

\* runPortfolioTest: what a bar of a mode with limit orders asks for is done at once, but for entries of
\* too few lots.  A cancelled order is one that broke even.
LimitBar ==
    /\ mode \in LimitModes
    /\ LET shown == TesterOrderInfo(TesterInfoSize)
           asked == IF mode = "Limit" THEN Limit(shown) ELSE Limit_BreakOutOnPivot(shown)
           Accepted(bar) ==
               {taken \in SUBSET DOMAIN bar.entries :
                   /\ faults + Len(bar.entries) - Cardinality(taken) <= MaxFaults
                   /\ sent + Cardinality(taken) <= MaxOrders[mode]}
           Carried(bar, taken) ==
               [bar EXCEPT !.entries = FoldLeft(LAMBDA entries, n : Append(entries, bar.entries[n]),
                                                <<>>, SetToSortSeq(taken, <)),
                           !.refused = Len(bar.entries) - Cardinality(taken)]
       IN  \E bar \in UNION {{Carried(bar, taken) : taken \in Accepted(bar)} : bar \in asked} :
           \E outcome \in [{t \in bar.closes : \E o \in ToSet(open) : o.ticket = t /\ IsPosition(o)} -> Outcomes] :
              LET ended == Keep(open, bar.closes)
                  New(n) == [ticket |-> sent + n, day |-> day, tp |-> FALSE, result |-> "open", until |-> 0,
                             type |-> bar.entries[n][1], level |-> bar.entries[n][2], at |-> NextAt]
                  Closed(o) == CloseAs(o, IF IsPending(o) THEN "even" ELSE outcome[o.ticket])
              IN  /\ open' = Drop(open, bar.closes) \o [n \in DOMAIN bar.entries |-> New(n)]
                  /\ closed' = closed \o [n \in DOMAIN ended |-> Closed(ended[n])]
                  /\ sent' = sent + Len(bar.entries)
                  /\ faults' = faults + bar.refused
                  /\ saved' = bar.file
    /\ ran' = (phase = "late")
    /\ UNCHANGED <<mode, auto, day, phase, updated, band, signalled>>

\* checkPending: a pending order is reached on a bar.
EntriesReached ==
    /\ mode \in LimitModes
    /\ \E n \in {k \in DOMAIN open : IsPending(open[k])} : open' = [open EXCEPT ![n] = Triggered(open[n])]
    /\ UNCHANGED <<mode, auto, day, phase, updated, band, signalled, saved, ran, closed, sent, faults>>

\* A stop loss or take profit is reached.
MarketCloses ==
    /\ \E n \in {k \in DOMAIN open : ~IsPending(open[k])}, outcome \in Outcomes :
          /\ closed' = Append(closed, CloseAs(open[n], outcome))
          /\ open' = Drop(open, {open[n].ticket})
    /\ UNCHANGED <<mode, auto, day, phase, updated, band, signalled, saved, ran, sent, faults>>

\* The terminal was killed and the file of the instance states is lost: lastOrderUpdateTime is gone, and
\* the first bar the instance is seen on again is not run.
StateLost ==
    /\ updated # 0 /\ faults < MaxFaults
    /\ updated' = 0 /\ ran' = TRUE /\ faults' = faults + 1
    /\ UNCHANGED <<mode, auto, day, phase, band, signalled, saved, open, closed, sent>>

\* Time passes.  The bar of 01:00 and the last ones of a day are missed when the terminal is off, or
\* when the rates were not validated; a missed one is a fault where a mode depends on it.
NextPhase ==
    LET phases == Phases(mode)
        n == CHOOSE k \in DOMAIN phases : phases[k] = phase
        needed == \/ mode \in DayTrading \cup {"ATR_Hedge"} /\ phase \in {"one", "late"}
                  \/ mode \in {"TestEA", "BBS"} /\ band.fresh
                  \/ mode \in LimitModes /\ phase = "late" /\ \E o \in ToSet(open) : IsPending(o)
        missed == needed /\ ~ran
    IN  /\ missed => faults < MaxFaults
        /\ faults' = IF missed THEN faults + 1 ELSE faults
        /\ IF n < Len(phases) THEN phase' = phases[n + 1] /\ day' = day
           ELSE day < MaxDays[mode] /\ phase' = phases[1] /\ day' = day + 1
        /\ band' \in IF mode \in Banded THEN NextBand ELSE {band}
        /\ ran' = FALSE /\ signalled' = "unseen"
        /\ UNCHANGED <<mode, auto, updated, saved, open, closed, sent>>

Next == AutoBBSBar \/ StrategyBar \/ LimitBar \/ EntriesReached \/ MarketCloses \/ StateLost \/ NextPhase

Spec == Init /\ [][Next]_vars

-----------------------------------------------------------------------------
(* Properties of the modes and strategies that count days and bars. *)

OfDay(d) ==
    {n \in DOMAIN open : open[n].day = d} \X {"open"} \cup
    {n \in DOMAIN closed : closed[n].day = d /\ closed[n].result # "even"} \X {"closed"}

\* On no day are there more trades that won, lost or are open than the loss limit allows: a trade is
\* begun only while fewer were lost, and one more may replace the order that loses by being replaced.
\* A refused call may cost one more.  The limit is counted in the orders the strategy is shown.
\* Limit_BreakOutOnPivot has one order a day.
TradesADay ==
    mode \in DayTrading \cup {"Limit_BreakOutOnPivot"} =>
        \A d \in 1..day :
            Cardinality(OfDay(d)) <=
                faults + IF mode \in {"DayTrading_ExecutionOnly", "Limit_BreakOutOnPivot"} THEN 1
                         ELSE LossLimit(mode, auto) + 1

\* After a trade of the day (or week) was won, the day has no further trade.  The modes with limit orders
\* send none after one lost trade of the day, or two in mode Limit.
OneWinADay ==
    [][sent' # sent
       => LET Ended(outcome) == {n \in DOMAIN closed : closed[n].day = day /\ closed[n].result = outcome}
          IN  /\ mode \in Counting => Ended("won") = {}
              /\ mode \in LimitModes => Cardinality(Ended("lost")) < IF mode = "Limit" THEN 2 ELSE 1]_vars

\* After 01:00 the modes that end the day flat have no order of an earlier day, but for one for each
\* call refused or bar missed; ATR_Hedge ends it so with its last bars.  A strategy that closes an order by its age and did not enter on the last
\* bar has none that is older, but for a refused call; and with no fault the time of the last entry is
\* that of the orders, so that no order escapes the count of its bars.  A limit or stop order does not
\* wait for another day.
OldOrdersClosed ==
    /\ (mode \in DayTrading \ {"XAUUSD_DayTrading"} /\ phase \in {"early", "day", "evening", "late"})
       => Cardinality({n \in DOMAIN open : open[n].day < day}) <= faults
    /\ mode = "ATR_Hedge" => Cardinality({n \in DOMAIN open : open[n].day < day}) <= faults
    /\ (mode \in Timed /\ signalled = "none")
       => Cardinality({n \in DOMAIN open : day - open[n].day > TimedExitBars}) <= faults
    /\ (mode \in OpenOrUpdate \ {"Atipaq"} /\ faults = 0) => \A n \in DOMAIN open : open[n].day = updated
    /\ (mode \in LimitModes /\ faults = 0) => ~\E o \in ToSet(open) : IsPending(o) /\ o.day < day

-----------------------------------------------------------------------------
(* Properties of the strategies with positions. *)

Box(d) == (d - 1) \div BoxBars

At(d, zone) == {o \in ToSet(open) : o.day = d /\ o.level = zone}

\* What a strategy is shown, and what it reads from the last order, keeps it from piling up orders.  Of
\* AutoBBS: one order a day (or week), three in all, or a single one; those of one entry at a price, or
\* at a price on a day (or in a week); an order added to a position where there is none; and
\* none on the day the one before was closed; one at a line, and none after a win at it that day.  Of the others: one on each side,
\* and the other side's closed but for a refused call; two for each change of the band stop, unless the
\* orders of the one before it were not closed; one in a box, unless the time of the last entry was lost.
PositionLimits ==
    /\ mode \in OrderADayModes =>
          \A n, k \in DOMAIN open : open[n].day = open[k].day => n = k
    /\ mode \in {"Ichimoko_Daily_Index", "Ichimoko_Daily_New", "Ichimoko_Daily_Index_Regression_Test"} =>
          Len(open) <= 3
    /\ mode \in {"MACD_Weekly", "4H_Shellington", "ShortTerm", "Limit_BBS"} => Len(open) <= 1
    /\ mode = "Limit_BBS_LongTerm" => \A n, k \in DOMAIN open : open[n].level = open[k].level => n = k
    /\ mode \in {"BBS_4HSwing", "WeeklyAuto"} =>
          \A d \in 1..day, zone \in Zones :
              /\ Cardinality(At(d, zone)) <= IF mode = "WeeklyAuto" THEN 3 ELSE 2
              /\ (\A o \in At(d, zone) : o.type = "BUY") => Cardinality(At(d, zone)) <= 2
    /\ (mode \in {"Auto", "ATR_Hedge"} /\ sent <= OrderInfoSize) =>
          \A o, p \in ToSet(open) \cup ToSet(closed) : o.day = p.day => o = p
    /\ mode = "MultipleDay" => \A zone \in Zones : Cardinality({o \in ToSet(open) : o.level = zone}) <= 3
    /\ mode = "MultipleDay_V2" => Len(open) <= 2 /\ \A n, k \in DOMAIN open : open[n].day = open[k].day
    /\ mode \in BEILIModes =>
          /\ Len(open) <= 1
          /\ \A o \in ToSet(closed), p \in ToSet(open \o closed) : p.ticket > o.ticket => p.day # o.until
    /\ mode \in BoDuanModes => Len(open) <= 1 + faults
    /\ mode \in LimitModes =>
          \A o, p \in {q \in ToSet(open \o closed) : q.level \notin {BeyondLines(side) : side \in Sides}} :
              p.ticket > o.ticket /\ p.level = o.level =>
                  ~(IsOpen(o) /\ IsOpen(p)) /\ (p.day = o.day => o.result # "won")
    /\ mode \in OpenOrUpdate =>
          /\ Len(open) <= 1 + faults
          /\ \A n, k \in DOMAIN open : open[n].type = open[k].type => n = k
    /\ mode \in {"TestEA", "BBS"} => Len(open) <= 2 * (1 + faults)
    /\ mode = "Atipaq" =>
          \A box \in 0..Box(day) :
              Cardinality({o \in ToSet(open \o closed) : Box(o.day) = box}) <= 1 + faults

OneSidedSwings == SwingModes \ {"BBS_4HSwing", "Weekly_Swing_New"}

\* When an order was sent, and no call was refused, the strategy has no order on the other side, as
\* long as it is shown all of them.  The rule of three bars of Ichimoko_Daily_V2 exits either side, and two
\* modes for swings enter without an exit.
OneSided ==
    [][sent' # sent /\ faults' = faults /\ Len(open) <= OrderInfoSize
       /\ mode \in (TrendFollowing \ {"Ichimoko_Daily_V2"}) \cup OneSidedSwings \cup MultipleDayModes
                  \cup OpenOrUpdate \cup Banded
       => \A n, k \in DOMAIN open' : open'[n].type = open'[k].type]_vars

\* BoDuan trades the two sides in turn, whatever became of the orders before; 4H_Shellington ends a
\* run of orders on a side with the win that makes the number it is allowed.  After a bar on which
\* another strategy was in for a side, all its orders are on that side.
FollowsTrend ==
    LET traded == ToSet(open) \cup ToSet(closed)
        Run(first, last) == {o \in traded : o.ticket \in first..last}
        Won(orders) == {o \in orders : o.result = "won"}
    IN  /\ mode \in BoDuanModes =>
              \A o, p \in traded : p.ticket = o.ticket + 1 => p.type # o.type
        /\ mode = "4H_Shellington" =>
              \A last \in 1..sent : \A first \in 1..last : \A side \in Sides :
                  (last - first <= Min({8, OrderInfoSize}) /\ \A o \in Run(first, last) : o.type = side)
                  => Cardinality(Won(Run(first, last))) <= WonTimes[side]
        /\ signalled \in Sides => \A n \in DOMAIN open : open[n].type = signalled

=============================================================================
