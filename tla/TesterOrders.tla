---------------------------- MODULE TesterOrders ----------------------------
(***************************************************************************)
(* The portfolio back-tester (CTesterFrameworkAPI/src/tester.c): the order *)
(* book all systems share, the balance, the counters, and the loop that    *)
(* visits the systems bar by bar until all are finished.                   *)
(*                                                                         *)
(* Prices are abstracted: of each bar the market chooses which orders have *)
(* their entry price and which their stop loss or take profit reached, and *)
(* what a closed order earned.  Whatever a strategy may signal is a choice *)
(* of the signal's step; a modification of stops (updateOrder) only        *)
(* changes what the market will reach and is not a step.                   *)
(***************************************************************************)
EXTENDS Integers, FiniteSets

CONSTANTS
    NumSystems,      \* numSystems; system s has instance id s
    FirstBar,        \* maxNumbarsRequired - 1
    NumCandles,      \* numCandles
    TickFile,        \* per system, the number of ticks in its file, or NoFile
    OrderTypes,      \* the order types the strategies use
    MaxOrders,       \* MAX_ORDERS
    MaxResults,      \* settings[MAX_OPEN_ORDERS], results of one strategy call
    Profits,         \* what closing an order may earn
    Swap,            \* the swap interest of an order
    InitialBalance

NoFile == -1
AllOrderTickets == -1

Systems == 1..NumSystems
LongTypes == {"BUY", "BUYLIMIT", "BUYSTOP"}
ShortTypes == {"SELL", "SELLLIMIT", "SELLSTOP"}
Pending == (LongTypes \cup ShortTypes) \ {"BUY", "SELL"}
Sides == {"BUY", "SELL"}
SideOf(type) == IF type \in LongTypes THEN "BUY" ELSE "SELL"
TypesOf(d) == {type \in OrderTypes : SideOf(type) = d}

ASSUME TesterAssumption ==
    /\ NumSystems \in Nat \ {0} /\ MaxOrders \in Nat \ {0} /\ MaxResults \in Nat \ {0}
    /\ FirstBar \in Nat \ {0} /\ NumCandles \in Nat
    /\ TickFile \in [Systems -> Nat \cup {NoFile}]
    /\ OrderTypes \subseteq LongTypes \cup ShortTypes
    /\ Profits \subseteq Int /\ Swap \in Int /\ InitialBalance \in Nat \ {0}

VARIABLES
    book,           \* openOrders: the open orders, unused places, the closed ones
    count,          \* openOrdersCount
    totalTrades,    \* the tickets given, and the number of trades reported
    numLongs,
    numShorts,
    finalBalance,
    i,              \* the bar each system is at
    lastBar,        \* lastProcessedBar
    finished,       \* testsFinished
    ticks,          \* what is left of each tick file
    clock,          \* currentBrokerTime; bar k begins at 2 * k, its ticks are at 2 * k + 1
    lastInterest,   \* lastInterestAdditionTime
    at, s, m, side, \* where runPortfolioTest is: step, system, loop index, side
    reached,        \* the tickets whose entry and whose exit price the bar reached
    systemOrders,   \* the system's open orders, as the strategy is shown them
    closing,        \* the local variables of closeOrder
    forgotten       \* history: what the closed orders earned that were overwritten since

counters == <<totalTrades, numLongs, numShorts>>
progress == <<i, lastBar, finished, ticks, clock>>
vars == <<book, count, counters, finalBalance, progress, lastInterest,
          at, s, m, side, reached, systemOrders, closing, forgotten>>

Positions == 0..(MaxOrders - 1)
Unused ==
    [ticket |-> 0, owner |-> 0, type |-> "none", open |-> FALSE, since |-> 0, value |-> 0]
Nothing == [entries |-> {}, exits |-> {}]
NoClosing == [type |-> "none", ticket |-> 0, n |-> 0, bound |-> 0, sum |-> 0, found |-> FALSE]

Total == count["BUY"] + count["SELL"]
OwnOrders == {book[k] : k \in {j \in Positions : book[j].owner = s /\ book[j].open}}
OwnTickets == {o.ticket : o \in OwnOrders}

\* What a place of the array says was earned.
Worth(o) == IF o.open THEN 0 ELSE o.value

Init ==
    /\ book = [k \in Positions |-> Unused]
    /\ count = [d \in Sides |-> 0]
    /\ totalTrades = 0 /\ numLongs = 0 /\ numShorts = 0
    /\ finalBalance = InitialBalance
    /\ i = [n \in Systems |-> FirstBar]
    /\ lastBar = [n \in Systems |-> 0]
    /\ finished = [n \in Systems |-> FALSE]
    /\ ticks = TickFile
    /\ clock = 0 /\ lastInterest = 0
    /\ at = "visit" /\ s = 1 /\ m = 0 /\ side = "BUY"
    /\ reached = Nothing /\ systemOrders = {}
    /\ closing = NoClosing
    /\ forgotten = 0

-----------------------------------------------------------------------------
(* A visit of a system. *)

NextSystem ==
    /\ s' = IF s = NumSystems THEN 1 ELSE s + 1
    /\ at' = IF s = NumSystems THEN "round" ELSE "visit"
    /\ m' = 0 /\ side' = "BUY" /\ reached' = Nothing /\ systemOrders' = {}

VisitFinished ==
    /\ at = "visit"
    /\ finished[s] \/ i[s] >= NumCandles - 2
    /\ finished' = [finished EXCEPT ![s] = TRUE]
    /\ NextSystem
    /\ UNCHANGED <<book, count, counters, finalBalance, i, lastBar, ticks, clock, lastInterest,
                   closing, forgotten>>

\* The time of a visit, and the bar it belongs to.  With a tick file it is the time of the next
\* tick, in this bar or in the one after it; at the end of the file the visit falls back to the
\* bar's own time.
Times ==
    IF ticks[s] = NoFile THEN {[bar |-> i[s], time |-> 2 * i[s], left |-> NoFile]}
    ELSE {[bar |-> i[s], time |-> 2 * i[s], left |-> 0]} \cup
         (IF ticks[s] = 0 THEN {}
          ELSE {[bar |-> b, time |-> 2 * b + 1, left |-> ticks[s] - 1] : b \in {i[s], i[s] + 1}})

\* A bar without data ends the system's test, and one whose history has a hole is left at once
\* the first time.
VisitBar ==
    /\ at = "visit"
    /\ ~finished[s] /\ i[s] < NumCandles - 2
    /\ \E t \in Times :
          /\ i' = [i EXCEPT ![s] = t.bar]
          /\ clock' = t.time
          /\ ticks' = [ticks EXCEPT ![s] = t.left]
          /\ \/ /\ finished' = [finished EXCEPT ![s] = TRUE]
                /\ NextSystem
                /\ UNCHANGED lastBar
             \/ /\ t.bar # lastBar[s]
                /\ lastBar' = [lastBar EXCEPT ![s] = t.bar]
                /\ NextSystem
                /\ UNCHANGED finished
             \/ /\ lastBar' = [lastBar EXCEPT ![s] = t.bar]
                /\ at' = "check"
                /\ reached' \in [entries : SUBSET OwnTickets, exits : SUBSET OwnTickets]
                /\ UNCHANGED <<finished, s, m, side, systemOrders>>
    /\ UNCHANGED <<book, count, counters, finalBalance, lastInterest, closing, forgotten>>

\* The array once the order of position k is the closed order o: the ones behind it move up
\* and it goes to the end.
ClosedAt_InPlace(k, o) == [book EXCEPT ![k] = o]

ClosedAt(k, o) ==
    [j \in Positions |->
        IF j < k THEN book[j] ELSE IF j < MaxOrders - 1 THEN book[j + 1] ELSE o]

Close(o, p) == [o EXCEPT !.open = FALSE, !.value = @ + p]
CountedOut(type) == [count EXCEPT ![SideOf(type)] = @ - 1]

\* checkPending: an order whose entry price was reached is a market order from now on.
Triggered(o) ==
    IF o.owner = s /\ o.open /\ o.type \in Pending /\ o.ticket \in reached.entries
    THEN [o EXCEPT !.type = SideOf(o.type), !.since = clock] ELSE o

\* checkTPSL
Stopped(o) ==
    o.owner = s /\ o.open /\ o.type \in Sides /\ o.ticket \in reached.exits /\ o.since <= clock

\* One turn of the loop over the open orders.  It goes on with m + 1 although closing an order
\* moves the next one to m.
CheckOrder ==
    /\ at = "check" /\ m < Total
    /\ m' = m + 1
    /\ LET o == Triggered(book[m])
       IN \/ /\ Stopped(o)
             /\ \E p \in Profits :
                   /\ book' = ClosedAt(m, Close(o, p))
                   /\ finalBalance' = finalBalance + o.value + p
             /\ count' = CountedOut(o.type)
          \/ /\ ~Stopped(o)
             /\ book' = [book EXCEPT ![m] = o]
             /\ UNCHANGED <<count, finalBalance>>
    /\ UNCHANGED <<counters, progress, lastInterest, at, s, side, reached, systemOrders, closing,
                   forgotten>>

\* addInterest: the swap of the system's open orders, when more than an hour (a step of clock)
\* has passed since it was added last - for whatever system.
\* Then the strategy is called with a copy of its orders.
AddInterest ==
    /\ at = "check" /\ m >= Total
    /\ LET due == {k \in Positions : k < Total /\ book[k].owner = s /\ clock > lastInterest}
       IN /\ book' = [k \in Positions |->
                        IF k \in due THEN [book[k] EXCEPT !.value = @ + Swap] ELSE book[k]]
          /\ lastInterest' = IF due = {} THEN lastInterest ELSE clock
    /\ systemOrders' = {[ticket |-> o.ticket, type |-> o.type] : o \in OwnOrders}
    /\ at' = "open" /\ m' = 0 /\ side' = "BUY"
    /\ UNCHANGED <<count, counters, finalBalance, progress, s, reached, closing, forgotten>>

-----------------------------------------------------------------------------
(* The signals of result m: open, then close, of the long side, then of the short side. *)

NoOpenSignal ==
    /\ at = "open"
    /\ at' = "close"
    /\ UNCHANGED <<book, count, counters, finalBalance, progress, lastInterest, s, m, side,
                   reached, systemOrders, closing, forgotten>>

CountLongOrShort(n) ==
    /\ numLongs' = IF side = "BUY" THEN numLongs + n ELSE numLongs
    /\ numShorts' = IF side = "SELL" THEN numShorts + n ELSE numShorts

\* The lots are below the broker's minimum: openOrder refuses, but the caller counts.
OpenRefused ==
    /\ at = "open"
    /\ TypesOf(side) # {}
    /\ at' = "close"
    /\ CountLongOrShort(1)
    /\ UNCHANGED <<book, count, totalTrades, finalBalance, progress, lastInterest, s, m, side,
                   reached, systemOrders, closing, forgotten>>

NewTicket == totalTrades + 1

\* openOrder writes the first place after the open orders.  The closed ones stay at the end of
\* the array: when no place between is unused any more, this is the place of the one that was
\* closed first, of whatever system, and it is lost.  There are at most MaxOrders open orders:
\* the code has no bound here either, and would write behind the array.
OpenOrder ==
    /\ at = "open"
    /\ Total < MaxOrders
    /\ \E type \in TypesOf(side) :
          book' = [book EXCEPT ![Total] = [ticket |-> NewTicket, owner |-> s, type |-> type,
                                           open |-> TRUE, since |-> clock, value |-> 0]]
    /\ count' = [count EXCEPT ![side] = @ + 1]
    /\ totalTrades' = totalTrades + 1
    /\ CountLongOrShort(1)
    /\ forgotten' = forgotten + Worth(book[Total])
    /\ at' = "close"
    /\ UNCHANGED <<finalBalance, progress, lastInterest, s, m, side, reached, systemOrders,
                   closing>>

\* After the short side comes the next result, after the last result the next system; without
\* a tick file the system goes to its next bar.
NextBar_TicksOnly == [i EXCEPT ![s] = IF TickFile[s] # NoFile THEN @ + 1 ELSE @]
NextBar == [i EXCEPT ![s] = IF TickFile[s] = NoFile THEN @ + 1 ELSE @]

AfterResult ==
    \/ /\ side = "BUY"
       /\ at' = "open" /\ side' = "SELL"
       /\ UNCHANGED <<s, m, reached, systemOrders, i>>
    \/ /\ side = "SELL" /\ m + 1 < MaxResults
       /\ at' = "open" /\ side' = "BUY" /\ m' = m + 1
       /\ UNCHANGED <<s, reached, systemOrders, i>>
    \/ /\ side = "SELL" /\ m + 1 >= MaxResults
       /\ NextSystem /\ i' = NextBar

NoCloseSignal ==
    /\ at = "close"
    /\ AfterResult
    /\ UNCHANGED <<book, count, counters, finalBalance, lastBar, finished, ticks, clock,
                   lastInterest, closing, forgotten>>

\* A strategy closes an order it was shown, or all its market orders of a type.
CloseSignal ==
    /\ at = "close"
    /\ \E o \in systemOrders \cup {[ticket |-> AllOrderTickets, type |-> side]} :
          /\ o.type \in TypesOf(side)
          /\ closing' = [type |-> o.type, ticket |-> o.ticket, n |-> 0, bound |-> Total,
                         sum |-> 0, found |-> FALSE]
    /\ at' = "closing"
    /\ UNCHANGED <<book, count, counters, finalBalance, progress, lastInterest, forgotten, s, m,
                   side, reached, systemOrders>>

Matches_AnyOwner(o) ==
    /\ o.open /\ o.type = closing.type
    /\ closing.ticket \in {o.ticket, AllOrderTickets}

Matches(o) ==
    /\ o.open /\ o.owner = s /\ o.type = closing.type
    /\ closing.ticket \in {o.ticket, AllOrderTickets}

\* A closed order makes room for the next one in its place (i--).
Summed_Skipping(o, p) ==
    [closing EXCEPT !.sum = @ + o.value + p, !.found = TRUE, !.n = @ + 1]
Summed_LastOnly(o, p) == [closing EXCEPT !.sum = o.value + p, !.found = TRUE]
Summed(o, p) == [closing EXCEPT !.sum = @ + o.value + p, !.found = TRUE]

\* One turn of the loop of closeOrder; its bound is the number of orders there were before the
\* first was closed.
CloseOrder ==
    /\ at = "closing" /\ closing.n < closing.bound
    /\ LET o == book[closing.n]
       IN \/ /\ Matches(o) /\ o.since <= clock
             /\ \E p \in IF o.type \in Sides THEN Profits ELSE {0} :
                   /\ book' = ClosedAt(closing.n, Close(o, p))
                   /\ closing' = Summed(o, p)
             /\ count' = CountedOut(o.type)
          \/ /\ ~Matches(o)
             /\ closing' = [closing EXCEPT !.n = @ + 1]
             /\ UNCHANGED <<book, count>>
    /\ UNCHANGED <<counters, finalBalance, progress, lastInterest, forgotten, at, s, m, side,
                   reached, systemOrders>>

\* Back in runPortfolioTest.  The cancellation of a pending order is taken out of the counters -
\* for the long side even when nothing was closed.
CloseReturns(found) ==
    /\ finalBalance' = IF found THEN finalBalance + closing.sum ELSE finalBalance
    /\ IF closing.type \in Pending /\ (found \/ side = "BUY")
       THEN CountLongOrShort(-1) /\ totalTrades' = totalTrades - 1
       ELSE UNCHANGED counters
    /\ closing' = NoClosing
    /\ AfterResult
    /\ UNCHANGED <<book, count, lastBar, finished, ticks, clock, lastInterest, forgotten>>

\* An order younger than the clock ends closeOrder with false, whatever was closed before it.
TooEarly ==
    closing.n < closing.bound /\ Matches(book[closing.n]) /\ book[closing.n].since > clock

CloseEnds ==
    /\ at = "closing"
    /\ closing.n < closing.bound => TooEarly
    /\ CloseReturns(closing.found /\ ~TooEarly)

\* After all systems had their visit.
EndOfRound ==
    /\ at = "round"
    /\ finalBalance' = IF finalBalance <= 0 THEN 0 ELSE finalBalance
    /\ at' = IF finalBalance <= 0 \/ \A n \in Systems : finished[n] THEN "done" ELSE "visit"
    /\ UNCHANGED <<book, count, counters, progress, lastInterest, s, m, side, reached,
                   systemOrders, closing, forgotten>>

Done == at = "done" /\ UNCHANGED vars

Next ==
    \/ VisitFinished \/ VisitBar
    \/ CheckOrder \/ AddInterest
    \/ NoOpenSignal \/ OpenRefused \/ OpenOrder
    \/ NoCloseSignal \/ CloseSignal \/ CloseOrder \/ CloseEnds
    \/ EndOfRound \/ Done

Spec == Init /\ [][Next]_vars

\* runPortfolioTest is one sequential call: as long as it has a step, it takes it.
FairSpec == Spec /\ WF_vars(Next)

-----------------------------------------------------------------------------

OpenPositions == {k \in Positions : book[k].open}

(***************************************************************************)
(* The open orders are exactly the first places of the array and the       *)
(* counters of the two sides say how many there are of each - what openOrder, *)
(* which writes the place behind them, and every loop up to the counters'  *)
(* sum rely on.                                                            *)
(***************************************************************************)
BookPacked ==
    /\ OpenPositions = {k \in Positions : k < Total}
    /\ \A d \in Sides :
          count[d] = Cardinality({k \in OpenPositions : SideOf(book[k].type) = d})

NoTickFiles == \A n \in Systems : TickFile[n] = NoFile

Earned ==
    LET sum[k \in 0..MaxOrders] == IF k = 0 THEN 0 ELSE sum[k - 1] + Worth(book[k - 1])
    IN  sum[MaxOrders]

(***************************************************************************)
(* The balance is the initial one plus what the closed orders brought      *)
(* (profit and swap), each counted once: also when one signal closes many  *)
(* orders, when the stop of one is hit in the same bar, and when the array *)
(* no longer has the order because a new one took its place.  (closeOrder  *)
(* has a sum to hand over while it runs.)  At the end of a tick file the   *)
(* clock falls back, and a closeOrder that meets an order younger than the *)
(* clock hands over nothing; without tick files it never meets one.        *)
(***************************************************************************)
BalanceExplained ==
    (NoTickFiles /\ at # "done") => finalBalance + closing.sum = InitialBalance + Earned + forgotten

(***************************************************************************)
(* When closeOrder has gone through the book, no open order that its       *)
(* signal was for is left, although the array moves under its loop:        *)
(* ALL_ORDER_TICKETS "is to be applied to all open trades"                 *)
(* (AsirikuyDefines.h).                                                    *)
(***************************************************************************)
CloseIsComplete ==
    at = "closing" /\ closing.n >= closing.bound => \A k \in Positions : ~Matches(book[k])

(***************************************************************************)
(* What a system's signals, stops and swap do leaves the orders of the     *)
(* other systems, in the one book they all share, alone: no step changes   *)
(* one, and none loses an open one.  A closed one is lost only when a new  *)
(* order is written to a book that has no unused place left, and then it   *)
(* is the one behind the open orders, which was closed before all others.  *)
(***************************************************************************)
OrdersOf(n) == {book[k] : k \in {j \in Positions : book[j].owner = n}}
OthersUntouched ==
    [][\A n \in Systems : at \in {"check", "open", "close", "closing"} /\ n # s =>
          /\ OrdersOf(n)' \subseteq OrdersOf(n)
          /\ \A o \in OrdersOf(n) \ OrdersOf(n)' :
                /\ o = book[Total] /\ ~o.open
                /\ Total' = Total + 1
                /\ \A k \in Positions : book[k] # Unused]_vars

(***************************************************************************)
(* The test ends: every visit of a system brings it nearer to its last     *)
(* candle, those that give up a bar with holes in its history included     *)
(* ("Run the test for each candle", tester.c:1232).                        *)
(***************************************************************************)
TestFinishes == <>(at = "done")

=============================================================================
