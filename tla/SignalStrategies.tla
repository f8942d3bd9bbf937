-------------------------- MODULE SignalStrategies --------------------------
(***************************************************************************)
(* The strategies that keep one position: on a signal of their indicators  *)
(* they open or update an order on its side and close the other side, and  *)
(* on the other bars they close by age, by profit or by a signal to exit.  *)
(* The signals are what the environment chooses.                           *)
(*                                                                         *)
(* A strategy is the set of its runs on a bar: the results, the time of    *)
(* the last entry, and the side it was in for ("denied" when the spread    *)
(* was too wide to trade: the run ends with an error).  held: the orders   *)
(* it is shown that are open.  Orders without stops are LiveOrders' case.  *)
(***************************************************************************)
EXTENDS StrategyOrders

Start == {[res |-> clearStrategyResults(MaxOpenOrders), updated |-> updated, side |-> "none"]}

HeldSides(held) == {held[n].type : n \in DOMAIN held}

\* openOrUpdateLongTrade and openOrUpdateShortTrade for the first result, or one of the Easy ones.
Enter1(run, held, side) ==
    [res     |-> openOrUpdateTrade(run.res, 1, side, held, "own"),
     updated |-> IF Held(held, side) = {} THEN day ELSE run.updated,
     side    |-> side]

Enters(runs, held, sides) ==
    UNION {{Enter1(run, held, side), [run EXCEPT !.side = "denied"]} : run \in runs, side \in sides}

\* closeLongTrade and closeShortTrade.
Close(run, sides) == [run EXCEPT !.res[1].signals = @ \cup ({"CLOSE"} \X sides)]

\* The exit criteria of an order that is held may be met, for each side.
Exits(runs, held) == {Close(run, sides) : run \in runs, sides \in SUBSET HeldSides(held)}

\* checkInternalTP: the profit of an order is beyond the internal take profit.
checkInternalTP(runs, held) == {Close(run, sides) : run \in runs, sides \in SUBSET HeldSides(held)}

\* checkTimedExit.  When the time of the last entry was lost, the open time of the order is set in its
\* place, but it is the lost one that is returned and used: the order has been open for too long.
checkTimes(last, held) ==
    LET looked[n \in 0..Len(held)] ==
            IF n = 0 THEN [time |-> last, updated |-> last, closes |-> {}]
            ELSE LET before == looked[n - 1]
                     lost == before.time = 0
                     time == IF lost THEN before.updated ELSE before.time
                 IN  [time    |-> time,
                      updated |-> IF lost THEN held[n].day ELSE before.updated,
                      closes  |-> IF time = 0 \/ day - time > TimedExitBars
                                  THEN before.closes \cup {held[n].type} ELSE before.closes]
    IN  looked[Len(held)]

TimedExit(runs, held) ==
    {LET looked == checkTimes(run.updated, held)
     IN  [Close(run, looked.closes) EXCEPT !.updated = looked.updated] : run \in runs}

\* modifyTradeEasy for all orders of a side, one side after the other.
Trail(run, sides) ==
    LET moved[n \in 0..Len(sides)] ==
            IF n = 0 THEN run.res ELSE modifyTradeEasy(moved[n - 1], sides[n], AllOrderTickets, "own")
    IN  [run EXCEPT !.res = moved[Len(sides)]]

InOrder(first, sides) ==
    LET both == <<first, Other(first)>> IN Picked(both, {n \in 1..2 : both[n] \in sides})

\* The stops of a side that is held may be moved, that of the short orders first.
Trails(runs, held) ==
    {Trail(run, InOrder("SELL", sides)) : run \in runs, sides \in SUBSET HeldSides(held)}

-----------------------------------------------------------------------------
(* An entry, or the exits. *)

runWatukushayFE_RSI(held) ==
    Enters(Start, held, Sides) \cup Exits(TimedExit(checkInternalTP(Start, held), held), held)

runWatukushayFE_BB(held) == Enters(Start, held, Sides) \cup TimedExit(Start, held)

runWatukushayFE_CCI(held) ==
    Enters(Start, held, Sides) \cup TimedExit(checkInternalTP(Start, held), held)

\* Only one of the sides is closed on a signal.
runCoatl(held) ==
    Enters(Start, held, Sides)
    \cup {Close(run, sides) : run \in TimedExit(checkInternalTP(Start, held), held),
                              sides \in {{}} \cup {{side} : side \in HeldSides(held)}}

\* An entry needs the newest order shown, open or closed, to be of an earlier bar; both sides are closed
\* when it is older than PA_EXIT_DAYS.
runComitl_PA(shown, held) ==
    LET last == IF shown = <<>> THEN 0 ELSE shown[1].day
    IN  (IF last < day THEN Enters(Start, held, Sides) ELSE {})
        \cup IF last # 0 /\ day - last > TimedExitBars THEN {Close(run, Sides) : run \in Start} ELSE Start

runComitl_BB(held) == Enters(Start, held, Sides) \cup Exits(Start, held)

runComitl_KC(held) == Enters(Start, held, Sides) \cup Exits(Start, held)

runGodsGiftATR(held) == Enters(Start, held, Sides) \cup Exits(TimedExit(Start, held), held)

runQallaryi(held) == Enters(Start, held, Sides) \cup Exits(checkInternalTP(Start, held), held)

runQuimichi(held) == Enters(Start, held, Sides) \cup Exits(TimedExit(Start, held), held)

runSapaq(held) == Enters(Start, held, Sides) \cup TimedExit(checkInternalTP(Start, held), held)

runRuphay(held) ==
    Enters(Start, held, Sides) \cup Exits(TimedExit(checkInternalTP(Start, held), held), held)

\* Without an exit the stops follow the elliptical distance of the order's age.
runTeyacanani(held) ==
    LET Follow(run) ==
            IF run.res[1].signals \cap ({"CLOSE"} \X Sides) # {} THEN run
            ELSE Trail(run, InOrder("BUY", HeldSides(held)))
    IN  Enters(Start, held, Sides) \cup {Follow(run) : run \in Exits(TimedExit(Start, held), held)}

\* The end of the last box before the current bar.
marketAnalysisTime == ((day - 1) \div BoxBars) * BoxBars

\* A break out of the box is traded once, whatever becomes of the entry: its time is set before it.
runAtipaq(held) ==
    LET traded == updated > marketAnalysisTime /\ updated - marketAnalysisTime < BoxBars
    IN  TimedExit(checkInternalTP(Start, held), held)
        \cup IF traded THEN {} ELSE {[run EXCEPT !.updated = day] : run \in Enters(Start, held, Sides)}

-----------------------------------------------------------------------------
(* An entry, or stops that are moved. *)

runAsirikuyBrain(held) == Enters(Start, held, Sides) \cup Trails(Start, held)

runMunay(held) == Enters(Start, held, Sides) \cup Trails(Start, held)

\* The trailing stop, the advance of the stop and its descent.
runKantuML(held) == Enters(Start, held, Sides) \cup Trails(Trails(Trails(Start, held), held), held)

-----------------------------------------------------------------------------
(* Exits through closeAllLongs and closeAllShorts. *)

CloseAll(run, held, side) == [run EXCEPT !.res = closeAll(run.res, held, side)]

runRenkoTest(held) ==
    Enters(Start, held, Sides) \cup Start
    \cup {CloseAll(run, held, side) : run \in Start, side \in Sides}

\* With a trend the other side is closed; when the daily trend agrees, a position is opened or trailed.
runKelpie(held) ==
    Start \cup UNION {
        LET exited == {CloseAll(run, held, Other(side)) : run \in Start}
        IN  exited \cup IF Held(held, side) = {} THEN Enters(exited, held, {side})
                        ELSE {Trail(run, <<side>>) : run \in exited} :
        side \in Sides}

=============================================================================
