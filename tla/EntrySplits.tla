----------------------------- MODULE EntrySplits ----------------------------
(***************************************************************************)
(* The orders an entry of AutoBBS is split in (splitBuyOrders_... and      *)
(* splitSellOrders_... of TrendStrategy.c and SwingStrategy.c), without    *)
(* their sizes: the set of the sequences an entry may be split in, where   *)
(* TRUE stands for an order with a take profit and FALSE for one without.  *)
(* The empty sequence is an entry the prices leave without an order.       *)
(***************************************************************************)
EXTENDS Naturals, Sequences

NoSplit == {<<>>}

\* splitBuyOrders_ShortTerm_New and splitSellOrders_ShortTerm_New.
split_ShortTerm_New == {<<TRUE>>}

\* Of splitBuyOrders_ShortTerm; tradeMode is 1 always.  today: the orders of the day.
split_ShortTerm(today) == {<<>>} \cup IF today = 0 THEN {<<TRUE>>} ELSE {}

split_KeyK == {<<TRUE, TRUE, FALSE>>}

\* A sell entry has one part more; AUTOBBS_TP_MODE says whether the last one has a take profit.
split_Weekly_ShortTerm(side) ==
    {<<>>} \cup {[n \in 1..(IF side = "BUY" THEN 2 ELSE 3) |-> n = 1 \/ (n = 2 /\ side = "SELL") \/ last] :
                    last \in BOOLEAN}

split_4HSwing == {<<>>, <<TRUE, TRUE>>}
split_4HSwing_100P == {<<TRUE>>}
split_4HSwing_Shellington == {<<TRUE>>, <<FALSE>>}
split_Ichimoko_Weekly == {<<FALSE>>}
split_Ichimoko_Daily == {<<FALSE>>}

\* With a risk cap a part without a take profit is held back, if the size can be divided.
split_MACDDaily == {<<TRUE>>, <<FALSE>>, <<TRUE, FALSE>>}
split_MACDWeekly == {<<FALSE>>}
split_Range == {<<TRUE>>}

split_DayTrading == {<<>>, <<TRUE>>}
split_Swing == {<<TRUE>>}
split_Daily_Swing == {<<>>, <<TRUE>>}
split_Daily_GBPJPY_Swing == {<<FALSE>>}
split_Daily_Swing_ExecutionOnly == {<<TRUE>>, <<FALSE>>}
split_MultiDays_Swing_V2 == {<<TRUE, FALSE>>}

\* tradeMode is 2 for an order that is to add to a position.
split_MultiDays_Swing(tradeMode) == IF tradeMode = 1 THEN {<<FALSE>>, <<TRUE, TRUE, FALSE>>} ELSE {<<TRUE>>}
split_ShortTerm_ATR_Hedge == {<<>>, <<TRUE>>}
split_MACD_BEILI == {<<TRUE>>}

=============================================================================
