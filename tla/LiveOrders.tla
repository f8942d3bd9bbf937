----------------------------- MODULE LiveOrders -----------------------------
(***************************************************************************)
(* The orders of a live account (the MQL4 front end: Common.mq4 and        *)
(* OrderManager.mq4, with the library behind runStrategy).  Each instance  *)
(* is an expert advisor on a chart of its own, in a thread of its own.  On *)
(* a tick it shows the library its orders, lets it fill the results, walks *)
(* over the orders of the account from the last to the first to close or   *)
(* modify its own, and then sends new ones.  Every call of the broker is   *)
(* made under one mutex, a global variable of the terminal.                *)
(*                                                                         *)
(* The broker may refuse a call, and may execute it and have its answer    *)
(* lost.  It closes orders that have stops and fills limit orders at any   *)
(* time.  An expert advisor may be killed anywhere and started again.      *)
(***************************************************************************)
EXTENDS OrderSignals

CONSTANTS
    Instances,       \* the expert advisors
    MaxOpenOrders,   \* MAX_OPEN_ORDERS of each, the length of its results array
    Plans,           \* what the bars may tell the strategy of each
    MaxBars,         \* bound: the bars of each instance
    MaxTickets,      \* bound: the orders the broker accepts
    MaxFailures,     \* bound: the calls refused, or executed with their answer lost
    MaxKills         \* bound: the expert advisors killed

Absent == "absent"
Free == "free"
NoOrder == [ticket |-> 0]
NoTicket == -1

AllPlans == KantuPlans \cup {"grid", "uptrend", "downtrend"}

ASSUME LiveAssumption ==
    /\ Instances \cap {Absent, Free} = {}
    /\ MaxOpenOrders \in [Instances -> Nat \ {0}]
    /\ Plans \in [Instances -> SUBSET AllPlans]
    /\ MaxBars \in [Instances -> Nat \ {0}] /\ MaxTickets \in Nat /\ MaxFailures \in Nat /\ MaxKills \in Nat

VARIABLES
    book,        \* the orders of the account, by their position
    lastTicket,
    mutex,       \* the global variable OrderMutex
    pc,
    shown,       \* orderInfo: the instance's orders as the library is shown them
    res,         \* strategyResults
    k,           \* the position om_handleOpenOrders is at, 0 when it is through
    n,           \* the result c_processOrders opens orders for, 0 before the first
    sel,         \* the selected order, NoOrder when the mutex is taken to send one
    rix,         \* resultsIndex
    sent,        \* tradeTicket: 0 when nothing was sent
    plan, bar,   \* of the bar each instance is at
    ran,         \* hasInstanceRunOnCurrentBar
    failFile,    \* <instance>_orderFail.of exists
    failures, kills,
    clobbered,   \* a held mutex was created anew, or deleted
    gaveUp,      \* in this bar the instance did not get to trade
    due          \* tickets of orders the present results ask something of

locals == <<shown, res, k, n, sel, rix, sent>>
barState == <<plan, bar, ran, failFile, gaveUp>>
vars == <<book, lastTicket, mutex, pc, locals, barState, failures, kills, clobbered, due>>

Kantu == {i \in Instances : Plans[i] \subseteq KantuPlans}
Tickets(orders) == {orders[p].ticket : p \in DOMAIN orders}
Pending(type) == type \notin Sides

\* c_getOrderInfo: open market orders, the newest first.
c_getOrderInfo(i) ==
    LET upto[p \in 0..Len(book)] ==
            IF p = 0 THEN <<>>
            ELSE IF book[p].owner = i /\ ~Pending(book[p].type) THEN Cons(book[p], upto[p - 1])
            ELSE upto[p - 1]
    IN  upto[Len(book)]

Init ==
    /\ book = <<>> /\ lastTicket = 0
    /\ mutex \in {Absent, Free}
    /\ pc = [i \in Instances |-> "idle"]
    /\ shown = [i \in Instances |-> <<>>]
    /\ res = [i \in Instances |-> NoResults(MaxOpenOrders[i])]
    /\ k = [i \in Instances |-> 0] /\ n = [i \in Instances |-> 0]
    /\ sel = [i \in Instances |-> NoOrder]
    /\ rix = [i \in Instances |-> 1]
    /\ sent = [i \in Instances |-> 0]
    /\ plan \in [Instances -> AllPlans] /\ \A i \in Instances : plan[i] \in Plans[i]
    /\ bar = [i \in Instances |-> 1]
    /\ ran = [i \in Instances |-> FALSE]
    /\ failFile = [i \in Instances |-> FALSE]
    /\ failures = 0 /\ kills = 0
    /\ clobbered = FALSE
    /\ gaveUp = [i \in Instances |-> FALSE]
    /\ due = [i \in Instances |-> {}]

-----------------------------------------------------------------------------
(* A tick: the library. *)

NewBar(i) ==
    /\ pc[i] = "idle" /\ bar[i] < MaxBars[i]
    /\ bar' = [bar EXCEPT ![i] = @ + 1]
    /\ \E p \in Plans[i] : plan' = [plan EXCEPT ![i] = p]
    /\ ran' = [ran EXCEPT ![i] = FALSE]
    /\ gaveUp' = [gaveUp EXCEPT ![i] = FALSE]
    /\ UNCHANGED <<book, lastTicket, mutex, pc, locals, failFile, failures, kills, clobbered, due>>

Snapshot(i) ==
    /\ pc[i] = "idle"
    /\ shown' = [shown EXCEPT ![i] = c_getOrderInfo(i)]
    /\ pc' = [pc EXCEPT ![i] = "library"]
    /\ UNCHANGED <<book, lastTicket, mutex, res, k, n, sel, rix, sent, barState, failures, kills,
                   clobbered, due>>

\* What the strategy makes of the bar; "allowed" is FALSE when validateNewTrade refuses.
Filled(i, allowed) ==
    LET clear == clearStrategyResults(MaxOpenOrders[i])
    IN  CASE plan[i] \in KantuPlans -> {runKantu(clear, plan[i], shown[i], allowed)}
          [] plan[i] = "grid" ->
                {runEURCHF_grid(clear, shown[i], aged, lower) :
                    aged \in SUBSET Tickets(shown[i]), lower \in BOOLEAN}
          [] plan[i] = "uptrend" -> {runTrendLimit(clear, shown[i], "BUY", entries) : entries \in 0..2}
          [] plan[i] = "downtrend" -> {runTrendLimit(clear, shown[i], "SELL", entries) : entries \in 0..2}

\* om_handleOpenOrders begins its walk with the orders there are.
StartWalk(i, results) ==
    /\ k' = [k EXCEPT ![i] = Len(book)]
    /\ rix' = [rix EXCEPT ![i] = 1]
    /\ due' = [due EXCEPT ![i] =
            {o.ticket : o \in {book[p] : p \in {q \in DOMAIN book :
                LET o == book[q] IN
                /\ o.owner = i /\ Matching(results, o) # {}
                /\ Handling(o, results[Min(Matching(results, o))]) # "nothing"}}}]

\* runStrategy: a strategy whose orders are in order runs once a bar.  Results that are not
\* filled are those of an earlier tick or zero, the array is not cleared.
RunStrategy(i) ==
    LET naked == Naked(shown[i])
        correct == ~naked /\ ~failFile[i]
        run == ~correct \/ ~ran[i]
    IN  /\ pc[i] = "library"
        /\ failFile' = [failFile EXCEPT ![i] = @ /\ naked]
        /\ ran' = [ran EXCEPT ![i] = @ \/ correct]
        /\ \E allowed \in IF run /\ plan[i] \in {"long", "short"} THEN BOOLEAN ELSE {TRUE} :
              /\ res' \in {[res EXCEPT ![i] = filled] : filled \in
                    IF run THEN Filled(i, allowed)
                    ELSE {res[i], NoResults(MaxOpenOrders[i])}}
              /\ gaveUp' = [gaveUp EXCEPT ![i] = @ \/ ~allowed]
        /\ n' = [n EXCEPT ![i] = 0]
        /\ StartWalk(i, res'[i])
        /\ shown' = [shown EXCEPT ![i] = <<>>]
        /\ pc' = [pc EXCEPT ![i] = "next"]
        /\ UNCHANGED <<book, lastTicket, mutex, sel, sent, plan, bar, failures, kills, clobbered>>

-----------------------------------------------------------------------------
(* A tick: the orders. *)

\* Mutant of Select: a position that no longer exists ends the walk.
Select_EndsAtGap(i) ==
    /\ pc[i] = "next" /\ k[i] > 0
    /\ IF k[i] <= Len(book) /\ book[k[i]].owner = i
       THEN /\ k' = [k EXCEPT ![i] = @ - 1]
            /\ sel' = [sel EXCEPT ![i] = book[k[i]]]
            /\ pc' = [pc EXCEPT ![i] = "check"]
       ELSE k' = [k EXCEPT ![i] = 0] /\ UNCHANGED <<sel, pc>>
    /\ UNCHANGED <<book, lastTicket, mutex, shown, res, n, rix, sent, barState, failures, kills,
                   clobbered, due>>

\* The loops of om_handleOpenOrders and c_processOrders, to the next call of the broker.  A position
\* that no longer exists or holds another instance's order is passed over.
Select(i) ==
    /\ pc[i] = "next" /\ k[i] > 0
    /\ k' = [k EXCEPT ![i] = @ - 1]
    /\ IF k[i] <= Len(book) /\ book[k[i]].owner = i
       THEN LET matching == Matching(res[i], book[k[i]]) IN
            /\ sel' = [sel EXCEPT ![i] = book[k[i]]]
            /\ rix' = [rix EXCEPT ![i] = IF matching = {} THEN @ ELSE Min(matching)]
            /\ pc' = [pc EXCEPT ![i] = "check"]
       ELSE UNCHANGED <<sel, rix, pc>>
    /\ UNCHANGED <<book, lastTicket, mutex, shown, res, n, sent, barState, failures, kills,
                   clobbered, due>>

\* The results c_processOrders has not reached yet that open an order.
ToOpen(i) ==
    {r \in (n[i] + 1)..MaxOpenOrders[i] :
        \E type \in OrderTypes : <<"OPEN", type>> \in res[i][r].signals}

NextResult(i) ==
    /\ pc[i] = "next" /\ k[i] = 0 /\ ToOpen(i) # {}
    /\ n' = [n EXCEPT ![i] = Min(ToOpen(i))]
    /\ pc' = [pc EXCEPT ![i] = "check"]
    /\ UNCHANGED <<book, lastTicket, mutex, shown, res, k, sel, rix, sent, barState, failures, kills,
                   clobbered, due>>

Finish(i) ==
    /\ pc[i] = "next" /\ k[i] = 0 /\ ToOpen(i) = {}
    /\ res' = [res EXCEPT ![i] = [r \in DOMAIN @ |-> [@[r] EXCEPT !.stops = "none"]]]
    /\ n' = [n EXCEPT ![i] = 0] /\ rix' = [rix EXCEPT ![i] = 1]
    /\ pc' = [pc EXCEPT ![i] = "idle"]
    /\ UNCHANGED <<book, lastTicket, mutex, shown, k, sel, sent, barState, failures, kills,
                   clobbered, due>>

\* om_createOrderMutex: the global variable is created by whoever finds it missing.
CheckMutex(i) ==
    /\ pc[i] = "check"
    /\ pc' = [pc EXCEPT ![i] = IF mutex = Absent THEN "create" ELSE "lock"]
    /\ UNCHANGED <<book, lastTicket, mutex, locals, barState, failures, kills, clobbered, due>>

CreateMutex(i) ==
    /\ pc[i] = "create"
    /\ mutex' = Free
    /\ clobbered' = (clobbered \/ mutex \in Instances)
    /\ pc' = [pc EXCEPT ![i] = "lock"]
    /\ UNCHANGED <<book, lastTicket, locals, barState, failures, kills, due>>

\* Mutant of Lock: it sets the variable whatever its value is.
Lock_Unconditional(i) ==
    /\ pc[i] = "lock" /\ mutex # Absent
    /\ mutex' = i
    /\ pc' = [pc EXCEPT ![i] = "broker"]
    /\ UNCHANGED <<book, lastTicket, locals, barState, failures, kills, clobbered, due>>

\* om_lockOrderMutex: GlobalVariableSetOnCondition, until it succeeds or a bar has passed.
Lock(i) ==
    /\ pc[i] = "lock" /\ mutex = Free
    /\ mutex' = i
    /\ pc' = [pc EXCEPT ![i] = "broker"]
    /\ UNCHANGED <<book, lastTicket, locals, barState, failures, kills, clobbered, due>>

LockFails(i) ==
    /\ pc[i] = "lock" /\ mutex # Free
    /\ gaveUp' = [gaveUp EXCEPT ![i] = TRUE]
    /\ due' = [due EXCEPT ![i] = @ \ {sel[i].ticket}]
    /\ sel' = [sel EXCEPT ![i] = NoOrder]
    /\ pc' = [pc EXCEPT ![i] = "next"]
    /\ UNCHANGED <<book, lastTicket, mutex, shown, res, k, n, rix, sent, plan, bar, ran, failFile,
                   failures, kills, clobbered>>

-----------------------------------------------------------------------------
(* The calls of the broker. *)

\* A call is executed and answered, refused, or executed with its answer lost.
Outcomes(possible) ==
    IF ~possible THEN {"refused"}
    ELSE IF failures < MaxFailures THEN {"done", "refused", "lost"} ELSE {"done"}

Position(orders, ticket) == CHOOSE p \in DOMAIN orders : orders[p].ticket = ticket

Modified(orders, ticket, stops) ==
    [p \in DOMAIN orders |->
        IF orders[p].ticket = ticket THEN [orders[p] EXCEPT !.stops = stops] ELSE orders[p]]

\* OrderDelete, nOrderClose or nOrderModify of the selected order, as it was when it was selected.
\* A failure leaves a file for the library.
HandleOrder(i) ==
    LET o == sel[i]
        result == res[i][rix[i]]
        what == Handling(o, result)
        possible == o.ticket \in Tickets(book)
                    /\ (what = "close" => \E p \in DOMAIN book : book[p].ticket = o.ticket /\ book[p].type = o.type)
    IN  /\ pc[i] = "broker" /\ o # NoOrder
        /\ IF what = "nothing" THEN UNCHANGED <<book, failFile, failures>>
           ELSE \E outcome \in Outcomes(possible) :
                /\ book' = IF outcome = "refused" THEN book
                           ELSE IF what = "close" THEN RemoveAt(book, Position(book, o.ticket))
                           ELSE Modified(book, o.ticket, result.stops)
                /\ failFile' = [failFile EXCEPT ![i] = @ \/ outcome # "done"]
                /\ failures' = IF possible /\ outcome # "done" THEN failures + 1 ELSE failures
        /\ due' = [due EXCEPT ![i] = @ \ {o.ticket}]
        /\ pc' = [pc EXCEPT ![i] = "unlock"]
        /\ UNCHANGED <<lastTicket, mutex, locals, plan, bar, ran, gaveUp, kills, clobbered>>

\* c_getOpenOrderType: the first of these types a result opens.
Precedence == <<"BUY", "SELL", "BUYLIMIT", "SELLLIMIT", "BUYSTOP", "SELLSTOP">>
c_getOpenOrderType(result) ==
    Precedence[Min({t \in DOMAIN Precedence : <<"OPEN", Precedence[t]>> \in result.signals})]

\* om_openOrder: market orders are sent without stops.
SendOrder(i) ==
    LET type == c_getOpenOrderType(res[i][n[i]])
        possible == lastTicket < MaxTickets
    IN  /\ pc[i] = "broker" /\ sel[i] = NoOrder
        /\ \E outcome \in Outcomes(possible) :
              /\ IF outcome = "refused" THEN UNCHANGED <<book, lastTicket>>
                 ELSE /\ lastTicket' = lastTicket + 1
                      /\ book' = Append(book, [ticket |-> lastTicket + 1, owner |-> i, type |-> type,
                              stops |-> IF Pending(type) THEN "own" ELSE "none"])
              /\ sent' = [sent EXCEPT ![i] = IF outcome = "done" THEN lastTicket + 1 ELSE NoTicket]
              /\ failures' = IF possible /\ outcome # "done" THEN failures + 1 ELSE failures
        /\ gaveUp' = [gaveUp EXCEPT ![i] = @ \/ ~possible]
        /\ pc' = [pc EXCEPT ![i] = "unlock"]
        /\ UNCHANGED <<mutex, shown, res, k, n, sel, rix, plan, bar, ran, failFile, kills, clobbered,
                       due>>

\* Mutant of Unlock: the result keeps its signals and is for all tickets still.
Unlock_KeepsSignals(i) ==
    /\ pc[i] = "unlock"
    /\ mutex' = Free
    /\ sent' = [sent EXCEPT ![i] = 0] /\ sel' = [sel EXCEPT ![i] = NoOrder]
    /\ pc' = [pc EXCEPT ![i] = "next"]
    /\ IF sent[i] > 0 THEN StartWalk(i, res[i]) ELSE UNCHANGED <<k, rix, due>>
    /\ failFile' = [failFile EXCEPT ![i] = @ \/ sent[i] = NoTicket]
    /\ UNCHANGED <<book, lastTicket, shown, res, n, plan, bar, ran, gaveUp, failures, kills,
                   clobbered>>

\* om_unlockOrderMutex, and what follows it: after an order was sent its result is for its ticket
\* and without signals, and the orders are walked over again.
Unlock(i) ==
    /\ pc[i] = "unlock"
    /\ mutex' = Free
    /\ sent' = [sent EXCEPT ![i] = 0] /\ sel' = [sel EXCEPT ![i] = NoOrder]
    /\ pc' = [pc EXCEPT ![i] = "next"]
    /\ CASE sent[i] = 0 -> UNCHANGED <<res, k, rix, failFile, due>>
         [] sent[i] = NoTicket ->
              /\ failFile' = [failFile EXCEPT ![i] = TRUE]
              /\ UNCHANGED <<res, k, rix, due>>
         [] OTHER ->
              /\ res' = [res EXCEPT ![i][n[i]].ticket = sent[i], ![i][n[i]].signals = {}]
              /\ StartWalk(i, res'[i])
              /\ UNCHANGED failFile
    /\ UNCHANGED <<book, lastTicket, shown, n, plan, bar, ran, gaveUp, failures, kills, clobbered>>

-----------------------------------------------------------------------------
(* The world around. *)

\* A stop loss or take profit is reached, or an order expires.
MarketCloses ==
    /\ \E p \in DOMAIN book :
          /\ book[p].stops # "none"
          /\ book' = RemoveAt(book, p)
          /\ due' = [i \in Instances |-> due[i] \ {book[p].ticket}]
          /\ gaveUp' = [gaveUp EXCEPT ![book[p].owner] = TRUE]
    /\ UNCHANGED <<lastTicket, mutex, pc, locals, plan, bar, ran, failFile, failures, kills, clobbered>>

\* The price of a pending order is reached.
MarketFills ==
    /\ \E p \in DOMAIN book :
          /\ Pending(book[p].type)
          /\ book' = [book EXCEPT ![p].type = SideOf(@)]
          /\ due' = [i \in Instances |-> due[i] \ {book[p].ticket}]
    /\ UNCHANGED <<lastTicket, mutex, pc, locals, barState, failures, kills, clobbered>>

\* The terminal stops an expert advisor; a mutex it holds stays held.
Kill(i) ==
    /\ pc[i] # "dead" /\ kills < MaxKills
    /\ kills' = kills + 1
    /\ pc' = [pc EXCEPT ![i] = "dead"]
    /\ shown' = [shown EXCEPT ![i] = <<>>]
    /\ res' = [res EXCEPT ![i] = NoResults(MaxOpenOrders[i])]
    /\ k' = [k EXCEPT ![i] = 0] /\ n' = [n EXCEPT ![i] = 0]
    /\ sel' = [sel EXCEPT ![i] = NoOrder]
    /\ rix' = [rix EXCEPT ![i] = 1]
    /\ sent' = [sent EXCEPT ![i] = 0]
    /\ gaveUp' = [gaveUp EXCEPT ![i] = TRUE]
    /\ due' = [due EXCEPT ![i] = {}]
    /\ UNCHANGED <<book, lastTicket, mutex, plan, bar, ran, failFile, failures, clobbered>>

Restart(i) ==
    /\ pc[i] = "dead"
    /\ pc' = [pc EXCEPT ![i] = "idle"]
    /\ UNCHANGED <<book, lastTicket, mutex, locals, barState, failures, kills, clobbered, due>>

\* "Bad shutdown. Please delete the global variable": the user does, when its holder is gone.
Holding(i) == pc[i] \in {"broker", "unlock"}
Orphaned == mutex \in Instances /\ ~Holding(mutex)
DeleteMutex ==
    /\ Orphaned
    /\ mutex' = Absent
    /\ UNCHANGED <<book, lastTicket, pc, locals, barState, failures, kills, clobbered, due>>

\* start() and what it calls.
Step(i) ==
    \/ Snapshot(i) \/ RunStrategy(i)
    \/ Select(i) \/ NextResult(i) \/ Finish(i)
    \/ CheckMutex(i) \/ CreateMutex(i) \/ Lock(i) \/ LockFails(i)
    \/ HandleOrder(i) \/ SendOrder(i) \/ Unlock(i)

Next ==
    \/ \E i \in Instances : NewBar(i) \/ Step(i) \/ Kill(i) \/ Restart(i)
    \/ MarketCloses \/ MarketFills \/ DeleteMutex

Spec == Init /\ [][Next]_vars

\* Ticks keep coming, and a thread of the terminal goes on until it is killed.
Fairness == \A i \in Instances : WF_vars(Step(i))
FairSpec == Spec /\ Fairness

-----------------------------------------------------------------------------
(* Properties. *)

States == {"idle", "library", "next", "check", "create", "lock", "broker", "unlock", "dead"}
Order(o) ==
    /\ o.ticket \in 1..MaxTickets /\ o.owner \in Instances
    /\ o.type \in OrderTypes /\ o.stops \in Stops

TypeOK ==
    /\ \A p \in DOMAIN book : Order(book[p])
    /\ lastTicket \in 0..MaxTickets
    /\ mutex \in Instances \cup {Absent, Free}
    /\ pc \in [Instances -> States]
    /\ \A i \in Instances :
          /\ \A p \in DOMAIN shown[i] : Order(shown[i][p])
          /\ res[i] \in [1..MaxOpenOrders[i] -> Results]
          /\ k[i] \in 0..MaxTickets /\ n[i] \in 0..MaxOpenOrders[i]
          /\ sel[i] = NoOrder \/ Order(sel[i])
          /\ rix[i] \in 1..MaxOpenOrders[i]
          /\ sent[i] \in {NoTicket} \cup 0..MaxTickets
          /\ plan[i] \in Plans[i] /\ bar[i] \in 1..MaxBars[i]
          /\ due[i] \subseteq 1..MaxTickets
    /\ ran \in [Instances -> BOOLEAN] /\ failFile \in [Instances -> BOOLEAN]
    /\ gaveUp \in [Instances -> BOOLEAN]
    /\ failures \in 0..MaxFailures /\ kills \in 0..MaxKills /\ clobbered \in BOOLEAN

\* One broker call at a time, unless the mutex was created anew while it was held
\* (om_createOrderMutex tests and sets in two steps).
OneCallAtATime ==
    ~clobbered => \A i \in Instances : Holding(i) => mutex = i

\* An instance of Kantu never has two orders on a side, whatever is refused, whichever answers are
\* lost, and although results may be acted on again that an earlier tick left behind.
OneOrderPerSide ==
    \A i \in Kantu : \A p, q \in DOMAIN book :
        (book[p].owner = i /\ book[q].owner = i /\ book[p].type = book[q].type) => p = q

\* When a tick is over every order the results asked something of was reached, although the
\* positions of the orders shift under the walk as other instances and the market close theirs.
NoOrderMissed == \A i \in Instances : pc[i] = "idle" => due[i] = {}

\* An order of Kantu without stops gets them, or is gone: a modification that fails is made again
\* on a later tick.
StopsAreSet ==
    \A i \in Kantu : \A t \in 1..MaxTickets :
        (\E p \in DOMAIN book : book[p].ticket = t /\ book[p].owner = i)
        ~> (\/ ~\E p \in DOMAIN book : book[p].ticket = t /\ book[p].stops = "none"
            \/ Orphaned \/ pc[i] = "dead")

\* Kantu gets into the market on the side its bar asks for and out of the other one, unless in that
\* bar it was not allowed to, got no lock or was killed.
InMarket(i, side) ==
    /\ \E p \in DOMAIN book :
          book[p].owner = i /\ book[p].type = side /\ book[p].stops # "none"
    /\ ~\E p \in DOMAIN book : book[p].owner = i /\ book[p].type = Other(side)
Asked == [long |-> "BUY", short |-> "SELL"]
PlansCarriedOut ==
    \A i \in Kantu : \A b \in 1..MaxBars[i] : \A p \in {"long", "short"} :
        (bar[i] = b /\ plan[i] = p /\ ~ran[i]) ~> (bar[i] # b \/ gaveUp[i] \/ InMarket(i, Asked[p]))

\* An instance closes an order only on a signal to close that is for its ticket, or for all
\* tickets: "Closes long with specified ticket" (EasyTradeCWrapper.hpp).
ClosesNamed ==
    [][\A i \in Instances : \A p \in DOMAIN book :
        (pc[i] = "broker" /\ pc'[i] = "unlock" /\ book[p].ticket \notin Tickets(book'))
        => \E r \in Matching(res[i], book[p]) : <<"CLOSE", book[p].type>> \in res[i][r].signals]_vars

=============================================================================
