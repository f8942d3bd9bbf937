---------------------------- MODULE OrderSignals ----------------------------
(***************************************************************************)
(* What a strategy tells the terminal to do with its orders: the results   *)
(* array (AsirikuyDefines.h, StrategyResults), the functions of            *)
(* OrderManager and AsirikuyEasyTrade that fill it, and the two strategies *)
(* Kantu and EURCHF_grid that use them.                                    *)
(*                                                                         *)
(* A result is for one ticket or for all of them; its signals are pairs of *)
(* what to do and the type of order to do it with.  Of the stop loss and   *)
(* take profit distances only this is kept: there is none, it is the       *)
(* strategy's own, or it was measured from a stop loss of zero.            *)
(***************************************************************************)
EXTENDS Integers, Sequences, SequencesExt, FiniteSetsExt

AllOrderTickets == -1

LongTypes == {"BUY", "BUYLIMIT", "BUYSTOP"}
ShortTypes == {"SELL", "SELLLIMIT", "SELLSTOP"}
OrderTypes == LongTypes \cup ShortTypes
Sides == {"BUY", "SELL"}
Other(side) == IF side = "BUY" THEN "SELL" ELSE "BUY"
SideOf(type) == IF type \in LongTypes THEN "BUY" ELSE "SELL"

Signals == {"OPEN", "CLOSE", "UPDATE"} \X OrderTypes
Stops == {"none", "own", "zero"}
Results == [ticket : Int, signals : SUBSET Signals, stops : Stops]

\* Orders as the library is shown them: the open market orders of the instance, the newest first.
Held(shown, side) == {n \in DOMAIN shown : shown[n].type = side}
Naked(shown) == \E n \in DOMAIN shown : shown[n].stops = "none"

-----------------------------------------------------------------------------
(* The results array. *)

clearStrategyResults(max) ==
    [r \in 1..max |-> [ticket |-> AllOrderTickets, signals |-> {}, stops |-> "none"]]

\* An array the strategy has not filled.
NoResults(max) == [r \in 1..max |-> [ticket |-> 0, signals |-> {}, stops |-> "none"]]

\* The EasyTrade functions use the first result without a signal, and do nothing when there is none.
FreeIndex(res) == Min({r \in DOMAIN res : res[r].signals = {}} \cup {Len(res) + 1})
FreeResult(res) == Append(res, clearStrategyResults(1)[1])[FreeIndex(res)]

UseFree(res, result) ==
    LET free == FreeIndex(res) IN [r \in DOMAIN res |-> IF r = free THEN result ELSE res[r]]

setStops(res, r, stops) == [res EXCEPT ![r].stops = stops]

openSingle(res, type, stops) ==
    UseFree(res, [ticket  |-> IF type = "BUY" THEN AllOrderTickets ELSE FreeResult(res).ticket,
                  signals |-> {<<"OPEN", type>>}, stops |-> stops])

closeEasy(res, type, ticket) ==
    UseFree(res, [FreeResult(res) EXCEPT !.ticket = ticket, !.signals = {<<"CLOSE", type>>}])

modifyTradeEasy(res, side, ticket, stops) ==
    UseFree(res, [ticket |-> ticket, signals |-> {<<"UPDATE", side>>}, stops |-> stops])

\* modifyAllLongs and modifyAllShorts: each of the side's orders by its ticket.
modifyAll(res, shown, side, stops) ==
    LET filled[n \in 0..Len(shown)] ==
            IF n = 0 THEN res
            ELSE LET before == filled[n - 1] IN
                 IF shown[n].type = side THEN modifyTradeEasy(before, side, shown[n].ticket, stops) ELSE before
    IN  filled[Len(shown)]

\* One close signal for each of the shown orders that are picked, while there are free results.
closeEach(res, shown, picked) ==
    LET filled[n \in 0..Len(shown)] ==
            IF n = 0 THEN res
            ELSE LET before == filled[n - 1] IN
                 IF shown[n].ticket \in picked THEN closeEasy(before, shown[n].type, shown[n].ticket) ELSE before
    IN  filled[Len(shown)]

\* The same for those named by a type and their ticket, with the named type.
closeNamed(res, shown, named, type) ==
    LET filled[n \in 0..Len(shown)] ==
            IF n = 0 THEN res
            ELSE LET before == filled[n - 1] IN
                 IF <<type, shown[n].ticket>> \in named THEN closeEasy(before, type, shown[n].ticket) ELSE before
    IN  filled[Len(shown)]

\* closeAllLongs and closeAllShorts.
closeAll(res, shown, side) ==
    closeNamed(res, shown, {<<side, shown[n].ticket>> : n \in Held(shown, side)}, side)

\* An entry is split in some orders: one after the other, while there are free results.
openEach(res, side, orders) ==
    LET filled[n \in 0..orders] == IF n = 0 THEN res ELSE openSingle(filled[n - 1], side, "own")
    IN  filled[orders]

\* Mutant of openOrUpdateTrade: an order on the other side stays open.
openOrUpdateTrade_KeepsOther(res, r, side, shown, stops) ==
    [res EXCEPT ![r].stops = stops,
                ![r].signals = {<<IF Held(shown, side) = {} THEN "OPEN" ELSE "UPDATE", side>>}]

\* openOrUpdateLongTrade and openOrUpdateShortTrade.
openOrUpdateTrade(res, r, side, shown, stops) ==
    LET entry == IF Held(shown, side) = {} THEN <<"OPEN", side>> ELSE <<"UPDATE", side>>
    IN  [res EXCEPT ![r].stops = stops,
                    ![r].signals = (@ \cup {<<"CLOSE", Other(side)>>, entry}) \ {<<"CLOSE", side>>}]

\* checkTimedExit when the last update is too long ago.
checkTimedExit(res, r, shown) ==
    [res EXCEPT ![r].signals = @ \cup {<<"CLOSE", shown[n].type>> : n \in DOMAIN shown}]

-----------------------------------------------------------------------------
(* What the terminal makes of the results, for one of its orders. *)

\* The results that are for an order: for its ticket or for all of them.
Matching(results, o) == {r \in DOMAIN results : results[r].ticket \in {o.ticket, AllOrderTickets}}

\* Mutant of Handling: only an update signal modifies an order.
Handling_OnlyOnSignal(o, result) ==
    IF <<"CLOSE", o.type>> \in result.signals THEN "close"
    ELSE IF <<"UPDATE", o.type>> \in result.signals THEN "modify"
    ELSE "nothing"

\* om_handleBuyOrder and om_handleSellOrder: what is asked of the broker.
Handling(o, result) ==
    IF result.stops = "none" /\ <<"CLOSE", SideOf(o.type)>> \notin result.signals THEN "nothing"
    ELSE IF <<"CLOSE", o.type>> \in result.signals THEN "close"
    ELSE IF <<"UPDATE", o.type>> \in result.signals \/ o.stops = "none" THEN "modify"
    ELSE "nothing"

-----------------------------------------------------------------------------
(* The strategies.  What a bar tells a strategy to do is its plan. *)

KantuPlans == {"long", "short", "trail", "exit", "hold"}

\* Kantu takes the distance to the stop loss of the first order it is shown for an update.
KantuStops(side, shown) ==
    IF Held(shown, side) # {} /\ shown[1].stops # "own" THEN "zero" ELSE "own"

\* allowed: validateNewTrade lets it trade (the spread is not too wide, not in monitor mode).
runKantu(res, plan, shown, allowed) ==
    LET repaired == IF Naked(shown) THEN setStops(res, 1, "own") ELSE res
        Trade(side) == openOrUpdateTrade(repaired, 1, side, shown, KantuStops(side, shown))
    IN  CASE plan = "long"  -> IF allowed THEN Trade("BUY") ELSE repaired
          [] plan = "short" -> IF allowed THEN Trade("SELL") ELSE repaired
          [] plan = "trail" -> modifyAll(modifyAll(repaired, shown, "SELL", "own"), shown, "BUY", "own")
          [] plan = "exit"  -> checkTimedExit(repaired, 1, shown)
          [] plan = "hold"  -> repaired

\* aged: the tickets of profitable old orders; lower: the price is below the next grid line.
runEURCHF_grid(res, shown, aged, lower) ==
    LET closed == closeEach(res, shown, aged)
        repaired == IF Naked(shown) THEN setStops(closed, 1, "own") ELSE closed
    IN  IF Held(shown, "BUY") = {} \/ lower THEN openSingle(repaired, "BUY", "own") ELSE repaired

\* TrendLimit: in a trend it trails the orders of its side and sends one or two limit orders at a
\* better price, and it does not look for naked orders.  Without a trend it does nothing.
LimitOf(side) == IF side = "BUY" THEN "BUYLIMIT" ELSE "SELLLIMIT"

runTrendLimit(res, shown, side, entries) ==
    LET trailed == modifyAll(res, shown, side, "own")
        once == openSingle(trailed, LimitOf(side), "own")
    IN  CASE entries = 0 -> res [] entries = 1 -> once
          [] entries = 2 -> openSingle(once, LimitOf(side), "own")

=============================================================================
