--------------------------- MODULE BandStrategies ---------------------------
(***************************************************************************)
(* The strategies that send orders when the Bollinger band stop changes    *)
(* its side, or on a long bar (KeyK), and close the orders against it.     *)
(* band.side is the side of the stop and band.fresh says that the last   *)
(* bar changed it; for KeyK, that the last bar was a long one.             *)
(***************************************************************************)
EXTENDS SignalStrategies

Against(run, held) == CloseAll(run, held, Other(band.side))

\* openSingleLongEasy and openSingleShortEasy, some orders at once.
Opens(run, orders) ==
    [run EXCEPT !.res = openEach(run.res, band.side, orders), !.updated = IF orders = 0 THEN @ ELSE day]

InFor(runs, side) == {[run EXCEPT !.side = side] : run \in runs}

\* modifyOrders of BBS and KeyK: on a new day the time of the last entry is set too.
modifyOrders(run, side) ==
    {Trail(run, <<side>>)}
    \cup IF run.updated \in {0, day} THEN {} ELSE {[Trail(run, <<side>>) EXCEPT !.updated = day]}

\* Two orders with a fresh trend; on every bar the orders against the trend are closed.
runTestEA(held) ==
    LET Entered(run) ==
            IF band.fresh THEN Opens(run, 2)
            ELSE IF band.side \in HeldSides(held) THEN Trail(run, <<band.side>>) ELSE run
    IN  InFor({Entered(Against(run, held)) : run \in Start}, band.side)

\* handleTradeExits of BBS: the orders against the trend are closed on the bar it is fresh on, and on no
\* other.
BBS_Exits(held) == IF band.fresh THEN {Against(run, held) : run \in Start} ELSE Start

\* One order, or two, with a fresh trend that is the day's, unless the price is beyond the resistance.
BBS_Entries(runs, held) ==
    IF band.fresh /\ band.side = DailyTrend THEN {Opens(run, orders) : run \in runs, orders \in 0..2}
    ELSE IF band.side \in HeldSides(held) THEN UNION {modifyOrders(run, band.side) : run \in runs}
    ELSE runs

runBBS(held) == InFor(BBS_Entries(BBS_Exits(held), held), IF band.fresh THEN band.side ELSE "none")

\* An order with a fresh trend on the side it is set to, if the price is beyond its position.
runBuDan ==
    InFor(Start \cup IF band.fresh /\ band.side = DailyTrend THEN {Opens(run, 1) : run \in Start} ELSE {},
          DailyTrend)

\* Three orders with a long bar; without one the stops may be moved (KK_SL_MODE).
runKeyK(held) ==
    LET moved == IF "BUY" \in HeldSides(held) THEN UNION {modifyOrders(run, "BUY") : run \in Start} ELSE Start
    IN  IF band.fresh THEN InFor({Opens(Against(run, held), 3) : run \in Start}, band.side)
        ELSE Start \cup IF "SELL" \in HeldSides(held)
                        THEN UNION {modifyOrders(run, "SELL") : run \in moved} ELSE moved

\* What the indicator may show on the next bar.
NextBand ==
    IF mode = "KeyK" THEN [side : Sides, fresh : BOOLEAN]
    ELSE {[side |-> band.side, fresh |-> FALSE], [side |-> Other(band.side), fresh |-> TRUE]}

=============================================================================
