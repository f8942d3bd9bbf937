# Verification of AutoBBS

AutoBBS is a trading framework written in C. A shared library
(`AsirikuyFrameworkAPI`) is loaded by a trading terminal, which calls it on every
tick of every chart (one thread per chart), or by a back-tester
(`CTesterFrameworkAPI`), which calls it bar by bar and plays the broker itself.
The library converts the prices to the strategy's own bars, decides whether the
strategy may run on this bar, runs it, and hands its signals back. All paths below
are relative to `src/dev/`.

Contents: the inventory of the system, the modules, the runs, what is proved,
what is abstracted or left out, and the plan of what comes next.

## 1. Inventory

| Component | State it keeps | Operations | Hard behaviour | What makes it correct |
|---|---|---|---|---|
| Instance states (`TradingStrategies/src/InstanceStates.c`) | table of 200 slots, one state file per instance | load, reset, look up, `hasInstanceRunOnCurrentBar`, `setLastOrderUpdateTime`, backup | threads share the table; slots are given back outside the lock; the process may die around a file write | a strategy runs at most once per bar, also after a restart; a lookup finds the instance's own slot; a file holds its owner's record |
| Critical section (`AsirikuyCommon/src/CriticalSection.c`) | one mutex | enter, leave | taken again by the thread that holds it | every call returns |
| Rates buffer (`AsirikuyCommon/src/ContiguousRatesCircBuf.c`) | a table of instances' buffers, each with a moving pointer | allocate, move on, copy to the front, free | pointer arithmetic at the end of the extension, overlapping copy | the strategy sees the last bars in order and nothing that was never written |
| Rates conversion (`AsirikuyFrameworkAPI/src/MQL/MQLParameters.c`, `src/CTester/CTesterParameters.c`) | the time and volume of the terminal's bar merged last, per instance | fill a buffer, merge, begin a bar | calls come at any tick and miss some; weekends, holidays, gaps; a buffer is freed and filled again | each bar of the strategy's timeframe is the merge of the terminal's bars in it, none is left out, the last one is up to date |
| Framework initialisation (`AsirikuyFrameworkAPI/src/AsirikuyFrameworkAPI.c`) | `initialized`, `initializing` | `initFramework`, `initInstance`, `deinitInstance` | a flag read without the lock, callers that retry, rows cleared without the lock | one thread fills the tables, before any instance uses one; an instance keeps its row |
| Back-tester (`CTesterFrameworkAPI/src/tester.c`) | the order book of all systems, counters, balance, the position of each system in its history | `openOrder`, `closeOrder`, `checkPending`, `checkTPSL`, `addInterest`, `runPortfolioTest` | an array that moves under the loops over it; systems share book, counters, balance and clock; tick files | the book stays packed and counted, the balance is explained by the closed orders, a close signal closes everything it is for, a system touches no open order of another, the test ends |
| Optimizer (`CTesterFrameworkAPI/src/optimizer.c`) | the combinations, the best fits of the last generations, a stop request, places in two tables of instances | `runOptimizationMultipleSymbols`, `runGeneticOptimizationMultipleSymbols`, `stopOptimization` | an int product, statics that outlive an optimization, tables that fill up, another thread that stops it | every combination is reported once, when an int holds their number; the search ends, and by itself only when it has converged |
| Strategy order management (`OrderManager/src`, `AsirikuyEasyTrade`) | the results of a call | open, close and update signals, stops | results and orders in two lists, a fixed number of results | the signals repair the difference between the orders wanted and the orders there |
| Live order manager (`FrontEnds/MQL4_B600/MQL4/Libraries`) | a terminal-wide mutex, a file that remembers a failure | send, change and close orders on each tick | charts in threads of their own, a broker that refuses or whose answer is lost, orders that come and go, a killed expert advisor | one broker call at a time; every order is reached; what failed is repaired, and not doubled |
| AutoBBS (`TradingStrategies/src/strategies/AutoBBS.c`, `SwingStrategy.c`, `TrendStrategy.c`) | none, but a file in the limit modes: it reads its history from the last orders it is shown | a mode decides on each bar; exits, entries, updates | the history is short, its order changes; bars are missed; calls are refused | the trades of a day and the open positions stay within the mode's limits; no order is left on the wrong side or over the day |
| 23 other strategies (files of `TradingStrategies/src/strategies`) | the time of the last entry in the instance state | one run per bar: `openOrUpdate...Trade` of a side, its exits, or orders on a change of the band | the state may be lost, calls are refused, results run out | one position on one side, or none against the side the run is in for |
| Technical analysis, symbol analysis, machine learning, wrappers, logging, time zones, user interface | | | numerical code and output | not in reach of a state model |

How they interact: the terminal calls `initInstance` once per chart, which
initialises the framework the first time, frees the instance's rates buffer and
loads (or resets) its instance state. On every tick `mql_runStrategy` converts the
parameters (rates conversion, rates buffer; this also claims the instance's slot)
and calls `runStrategy`, which asks the gate of the instance states and runs the
strategy. The strategy reads the rates as plain arrays, and leaves signals in its
results; the order manager of the terminal, or `runPortfolioTest`, acts on them.

## 2. Modules

A definition whose name ends in `_Something` (`FirstFor_Last`, `Summed_Skipping`)
is a broken variant of the definition after it. It is used by no specification; it
documents an error that the properties detect when it takes the place of the real
definition.

### InstanceStates
The table, the files, the critical section, and one thread per instance that is
initialised, receives ticks, is removed, and is initialised again. A step is what
the code does between two points where another thread, or the death of the process,
can be noticed. A section under the critical section is one step up to the file
operations in it, since all other accesses to the table that matter go through the
critical section as well, except those that are steps of their own:

- `Release`/`Erase`: `initializeInstanceState` outside the lock stores the id first
  and the rest later;
- `LoadFile`: `fread` into the slot;
- `BackupOpen`/`BackupWrite`: `fopen("wb")` truncates, `fwrite` writes.

`lock` is the critical section, `pc` the place of each thread, `idx` the local
`instanceIndex`, `goal` what a backup is part of (`reset`, `grant`, `deny`,
`update`). `Recursive` states what `initCriticalSection` produces: on Windows and
with a properly initialised attribute a recursive mutex. Under Linux
`pthread_mutexattr_init` is missing, so what the build produces is undefined; the
runs take the recursive one, and `NestedClaim_NotRecursive` shows that a plain mutex
would stop every live instance at its first bar.

History variables (the code has none of them): `lastGrant` and `reran` remember which bar
the gate granted; `shadowed` collects instances that had a slot above a slot that was
given back; `lost` collects instances whose stored run time was destroyed or not
read (another thread's `Erase`, a truncated or unwritable file, a full table). They
say exactly when the code's promise can be broken, and the properties hold outside them.

### RatesWindow and SlidingWindow
`SlidingWindow` is what a strategy relies on: the last `Size` bars in order; a new
bar moves all by one; only the newest two are ever rewritten. `RatesWindow` is
the code: a block of `Size + Ext` places, an offset, the move by one place per new
bar, and the loop that copies the bars to the front when the extension is used up,
one bar per step. The mapping is `View`: what the pointers show, where the copy loop has
come to the bars, and where they still are otherwise.

### Framework
`initFramework` and the table of rates buffers, with one thread per instance: charts,
which call again on every tick, and back-tests, which ask a few times and then go on
without the framework (`GoOnOutside`; `outside` remembers them). `pc` is the place of a
thread: `out` (not initialised), `turn` (behind the first test of `initialized`), `passed` and `turned`
(before the second test), `body`, `publish`, `unmark` (filling the tables and setting the two
flags), `wait` and `failed` (the answers), `reset`, `null`, `again` (clearing rows), `in`
and `use` (between ticks and in one). `job` says for whom rows are cleared: `all` in
`resetAllRatesBuffers`, `init` and `deinit` in `resetInstanceBuffer`. A section under the
critical section is one step; the flags outside it, and the three stores with which
a row is cleared (id, pointers, id again), are steps of their own. `resetAllRatesBuffers`
does this once for each buffer of the row (`buffer`).

A thread that claims a row which another one is still clearing may lose it; the code
does nothing against that. `exposed` remembers these threads, and `OwnerKeepsRow` says
that no other thread can lose a row. The instance's failing lookup and its claim
are one step, since only the instance itself could change the answer of the lookup.

### TesterOrders
`runPortfolioTest` with the functions it calls. `at` is the place in the visit of
system `s`: `visit` (pick the time, find the data), `check` (pending orders, stops,
interest), `open`/`close` (the signals of result `m`, first the long side, then the
short side), `closing` (the loop of `closeOrder`), `round` (after all systems),
`done`. The book is the array `openOrders` with closed orders moved to its end, as
the code does with `memmove`; a history of bars and ticks is nondeterministic. `closing` holds what
the loop of `closeOrder` keeps until it returns, its sum of profits with it.
Prices are abstracted to what the market does to orders: of each bar it chooses the
orders whose entry and whose exit it reaches, and the profit of an order that closes.
`OpenOrder` writes the place behind the open orders, as `openOrder` does, whatever is there: once
as many orders were opened as the array has places, that is the order that was closed first.
The history variable `forgotten` keeps what the overwritten ones earned. With the array full of
open orders the code would write behind it; there the model opens none.

### RatesConversion
The other half of the rates: which of the terminal's bars become which of the
strategy's. `Tick` adds to the terminal's last bar, `NewBar` begins one up to `MaxGap` later.
A call of the library may come at any tick or miss it; it either fills the buffer
(`FillBuffer`, with the loop of `fillEmptyRatesBuffer`) or looks at the last two valid bars
(`ConvertBar`: a new bucket begins a bar and rebuilds the one before, the loop of
`reprocessConvertedBar`; anything else is merged into the last). `Reinit` frees the buffer
and keeps the remembered volume. A price is the number of its tick, and high and low are represented by
the set of ticks they are taken over, so the properties compare each converted bar
with a reference definition that groups the terminal's bars by bucket.

### OrderSignals
What a strategy says about its orders: the results array, the functions of
`OrderManager` and `EasyTrade` that fill it (`openSingle`, `closeEasy`, `modifyAll`,
`openOrUpdateTrade`, ...), what the terminal does with a result (`Handling`), and
the decisions of Kantu, EURCHF_grid and TrendLimit. It has no variables; `LiveOrders`
and the modules of AutoBBS are built on it.

### LiveOrders
The MQL4 front end. Each instance is an expert advisor with a thread; `pc` says where it
is in a tick: `idle`, the run of the strategy on the orders it was shown, the walk of
`om_handleOpenOrders` over the account from the last position to the first (`k`), the
wait for the mutex, the broker call, the answer, the entries of `c_processOrders` (`n`), and
the walk after each. The mutex is the terminal's global variable: looked up, created and
set in separate steps. The broker may refuse, or execute and lose the answer; the
market fills and closes orders at any time; `Kill` and `Restart` end and begin an
expert advisor anywhere. `clobbered` remembers that the mutex was created anew under its
holder or deleted from it, `gaveUp` that a thread gave up waiting, and `due` the orders
the present results ask something of.

### StrategyOrders, EntrySplits, DayTradingModes, TrendModes, SwingModes, MultipleDayModes, LimitModes, SignalStrategies, BandStrategies, Strategies
The strategies. `StrategyOrders` has the state (open orders in the order of the account,
closed ones in the order of the history, `day` and `phase`, the times at which a mode behaves
differently, `updated`, the time of the last entry in the instance state, `saved`, the file of
the limit modes), what a strategy is shown of it (`c_getOrderInfo`: open ones first, the newest
first, `OrderInfoSize` in all; the back-tester shows pending orders as well) and the functions the
strategies read it with.

The modes of AutoBBS, the strategy the repository is named after, are operators from the orders
shown to the set of decisions the mode may take, over all prices and indicators:
- `DayTradingModes`: the three modes that trade within a day;
- `TrendModes`: twelve modes that follow a trend (MACD, Ichimoko, BoDuan, ASI, Shellington);
- `SwingModes`: nine swing modes, with the trading zones and, in mode Auto, the choice of a mode by the zone;
- `MultipleDayModes`: the four modes that add to a position over several days, or pair two sides (BEILI);
- `LimitModes`: the two modes that wait at the pivot lines of the day with limit and stop orders.
  They run in the back-tester, as the terminals show no pending orders. `LimitBar` is a bar of theirs:
  the set of what it may do to the orders; `EntriesReached` is the market triggering one of them.

`EntrySplits` says into how many orders a mode splits an entry, and with or without a take profit.

`SignalStrategies` has the nineteen strategies that keep one position with
`openOrUpdateLongTrade` and its like, and `BandStrategies` the four that send orders when the
Bollinger band stop changes its side (`band`) or on a long bar: each is the set of its runs, a run
being the results, the time of the last entry and the side it was in for. `Strategies` puts them
together: a bar of AutoBBS (the mode, the account-risk filter, the exits and entries as results) or
of another strategy (`StrategyBar`), the front end carrying the results out, with refused calls
(`c_processOrders`), the market closing an order, the loss of the instance state (`StateLost`),
and time passing.

Orders sent in the same second have the same opening time (`at`), and the function that finds the
last order then takes the first it meets. `faults` counts refused calls, a lost state and, where a
strategy depends on them, bars that never came.

### Optimizer
One process that is asked for brute-force and genetic optimizations. Brute force: `Begin`
(the product of the step counts in an `int` of `IntRange` values decides whether the request is
`Refused`), `StoreSet` (one round of the loop that enumerates the combinations, until all parameters
wrap), `RunTest` (the places in the two tables, the test, the report), the loop over symbols inside
that over combinations, `EndRuns`. Genetic: `Evaluate` for a symbol, `GenerationHook` (any best fit,
shifted into the last five, and the stopping rules), `EvolutionEnds`. `StopOptimization` is the
other thread. `reports`, `recorded` and
`inherited` are history variables.

## 3. Runs

| Run | Instance | States | Shows |
|---|---|---|---|
| `InstanceStates` | 1 live instance, 1 live on every tick, 2 slots, 2 bars, 1 crash | 4.4 M | types; `AtMostOncePerBar`; `RunTimeOnDiskFirst`; `OwnSlotFound`; `FileHoldsOwner`; `OthersLeaveSlotAlone` |
| `InstanceStatesLive` | a live instance and a back-test, 1 slot | 39 k | every call returns (`CallsReturn`) |
| `Framework` | 2 charts, 1 back-test, 2 rows of 2 buffers, 1 failure | 380 k | types; `OneInitialiser`, `TablesReadyFirst`, `OwnerKeepsRow`, `OneRowEach`; every chart gets in (`EveryChartGetsIn`) |
| `RatesWindow` | window 3, extension 2, 3 bar values | 700 | types, `NoGarbageSeen`, refinement of `SlidingWindow` |
| `RatesConversion` | bars of 3, window 3, two closed times, gaps of 2, one refill | 795 k | `CompletedBars`, `NoneLeftOut`, `CurrentBar` |
| `TesterOrders` | 2 systems, market orders with interest, 3 places, bars 1 and 2 traded | 2.8 M | `BalanceExplained`, `CloseIsComplete`, `OthersUntouched` |
| `TesterPending` | 1 system, limit and market orders, interest, 2 results per call, 3 places | 1.7 M | `BookPacked` with pending orders, and the end of the test (`TestFinishes`) |
| `LiveOrders` | Kantu over 2 bars and TrendLimit over 1 on one account | 2.3 M | `OneCallAtATime`, `NoOrderMissed` |
| `LiveRepairs` | Kantu alone, 2 bars, 2 failed calls, 1 kill | 70 k | `OneOrderPerSide`, `StopsAreSet`, `PlansCarriedOut` |
| `LiveTickets` | EURCHF_grid alone, 3 bars | | finding: `ClosesNamed` is violated |
| `Strategies` | 30 modes of AutoBBS, 23 other strategies, 3 orders shown, 6 results, 1 fault | 680 k | `TradesADay`, `OldOrdersClosed`, `OneWinADay`; `PositionLimits`, `OneSided`, `FollowsTrend` |
| `Optimizer` | 2 optimizations, 5 places, 5 combinations, an int of 16 values | 290 k | `SetsComplete`, `ReportsInOrder`, `EndsComplete`, `ConvergesOnItsOwn`; `OptimizationEnds` |

Bounds, and why they are enough:

- `MaxInstances` 2: the smallest table with a hole before a slot, and (with 1) the
  smallest that can be full. The code has 200; nothing depends on the number but
  "first" and "full".
- `MaxBar` 2: the gate compares a bar with the one recorded, equal or later.
- `MaxCrashes` 1: a crash empties the table and leaves the files; a second adds nothing
  the files do not already say. In the proofs the numbers are arbitrary.
- `MaxInstances` 2 rows for 3 threads, so that the table can be full and a row can be
  claimed again; `MaxBuffers` 2 (10 in the code), so that there is a pass over a row after the first.
- `MaxTries` 2 (3 in `tester.c`): one attempt that is repeated and one that is not.
- `MaxFailures` 1: one failure shows whether the turn is given back; the proofs take any number.
- `Size` 3, `Ext` 2: the extension is shorter than the window, so the copy overlaps.
  The assumption `Size >= 2` is the code's (with one bar `reprocessConvertedBar` would write
  before the array), `Ext >= 1` is what `setExtendedBufferSize` ensures.
- `MaxOrders` 3 (200 in the code): two orders of one owner and one of another distinguish the cases
  of the loops over the array. Both runs open more orders than that, so closed ones are overwritten.
- `MaxResults` 1 or 2, `NumCandles` 5 or 6 with `FirstBar` 1: two or three bars are traded
  (the loop stops two before the end).
- A tick lies in the current bar or the next: the code moves on by one bar at most.
- Bars are longer than an hour, so that interest is due on each later bar. A profit and a day's
  interest are -1 each with a balance of 2: the balance can become negative, and every sum differs from
  its parts.
- `LiveOrders`: two instances suffice for every conflict over the mutex and the account; one of them has
  two results, so that a walk comes between two entries. Kantu has two bars, so that an order of the
  first is updated, closed or replaced in the second. `LiveRepairs` has one instance, as the repair
  is its own, and two failures, so that the repair may fail too.
- `RatesConversion`: buckets of 3 with gaps of 2 make buckets that are complete, partly missing and
  (with the closed times 6 and 15, the first of a bucket) begin late. The history starts with 11
  bars, enough for a window of 3 with a gap. Five more ticks begin at least one further bucket.
- `Strategies`: each mode has as many days and orders as its rules need. Day-trading modes have two days
  and four orders, one more than their limit and a fault allow; the Ichimoko modes four days, so that the cap
  of three orders is met by a fourth day, and Ichimoko_Daily_V2, the MACD daily modes and KeyK three; the
  BEILI modes four, so that both sides are held; the other strategies five, as their timed exits count bars.
  Swing modes that compare days, MultipleDay and Limit have two, the break-out mode three. The others have one,
  with any number of bars: their rules hardly ask for the day, or (`WeeklyAuto`, `Auto_KeyK`) their bars
  branch too widely for more, so that what they do with orders of an earlier week or day is not shown. Four orders show the
  limits, six that pairs pile up; where a mode opens three at once or its bars branch widely, three, and
  two in `Limit`. `MaxOpenOrders` 6 results hold the exit of a pair and two entries of two orders.
- `OrderInfoSize` 3 is the least at which the cap and the limits can be counted; `TesterInfoSize` 4 shows the
  limit modes all their orders (3 open or closed at most). `TimedExitBars` 1 and `BoxBars` 2 are the
  least that tell the bar of the entry from a later one; `Zones` are two, a zone and another; `DailyTrend`
  is BUY, as the code is symmetric there; `AutoModes` TRUE. One fault, as what is checked is what a single
  refused call or lost state leads to.
- Settings in `Strategies`: the daily pivot is on the lines 2, 3 and 2 of three days (`Pivots`), with R1 and S1 the
  lines next to it, so a line of one day is another one of the next. `Symbol`, for the limit modes, is XAUUSD.
  WeeklyAuto runs without `AUTOBBS_KEYK`. The terminal may start at any time of the first day.
- `Optimizer`: five places are fewer than the tests of the largest request, five combinations exactly
  what it needs, and 16 values of an int make the product of another overflow. `MaxGenerations` 6 is one
  more than the five fits that convergence compares. Two optimizations, as what one leaves behind meets
  the next.

Fairness: a thread inside a library call goes on (weak fairness of its own steps);
`ResetClaim`, `GateRefuses` and `GateStores` wait for the critical section and get
strong fairness, because the operating system does not pass over a waiting
thread for ever. No fairness is given to the terminal in `InstanceStates`: ticks may stop, and a
strategy may be removed. Exceptions are `EveryChartGetsIn`, where a chart that was told to wait is
called again (weak fairness of `Retry`), and `LiveOrders`, where an instance's next step, its next
tick included, comes (weak fairness of `Step`), as the terminal calls `start` on every tick; kills, new bars and
the broker get none. `runPortfolioTest` and an optimization are sequential calls, so their
models are weakly fair as a whole (`Next`, and `Work` without the thread that stops it).

Deadlock is checked where the system goes on for ever or ends in a `Done` of its own. It is not
checked in `Strategies`, `Optimizer` and `RatesConversion`, where a behaviour ends when the bounds on
days, optimizations and ticks are used up.

## 4. Findings

`LiveTickets` shows a disagreement between the code and its comments by a violated property:
`om_handleOpenOrders` (`OrderManager.mq4:177`) keeps the index of the result it matched last. An
order of the instance that no result is for is handled with that result or, if it is the first,
with result 0. When that one closes another order of the same type by its ticket, this order is
closed in its place, although `EasyTradeCWrapper.hpp:1042` says "Closes long with specified ticket".

Noticed while modelling and covered by the models' behaviour, but not by a run of their own:

Instance states and framework
- A slot given back leaves a hole in the table. An instance with a slot above it is given a
  second, empty one and can run twice on one bar, where `Coatl.mq4:90` says "If this is set to
  false the strategy will only run once per bar." (`shadowed`).
- The comment at `InstanceStates.c:198` means to keep an instance from running on its first bar, but the
  conversion has claimed the slot before (`MQLParameters.c:1075`), and the gate finds the instance known.
- With a full state table `getInstanceState` returns no record, and its `parameterSpace` is read at once
  (`MQLParameters.c:1075`).

Conversion
- The close of the current converted bar is not updated during the first of the terminal's bars in it
  (`mqlTime > destTime`, `MQLParameters.c:330`).
- After a new bar was begun, the volume of the current one counts its first ticks twice, and the first
  merge of an instance assigns the volume where it should add it (`MQLParameters.c:346-360`).
- When the first source bar of a bucket is missed, the bucket's bars are merged into the bar before
  and it is lost. `NoneLeftOut` states what is kept all the same.

Back-tester
- After the end of a tick file the clock falls back to the bar. A `closeOrder` that then meets an order
  younger than the clock returns at once and drops the profit it has summed up, although the comment
  says "if the close time is before the open time then continue" (`tester.c:382`); so
  `BalanceExplained` is stated for tests without tick files.
- A tick file that ends before the last candle makes the test endless (`tester.c:1256`, `1671`).
- `checkTPSL` closes an order of the array its caller is walking through; the order that moves up is
  not looked at on that bar (`tester.c:1500`, `680`).
- Orders that `openOrder` refuses are counted as trades (`tester.c:1573`, `1596`).
- A strategy is shown the open orders, oldest first, and then the closed ones, oldest first, as
  `closeOrder` moves them to the end of the array, cut off at `ORDERINFO_ARRAY_SIZE`
  (`tester.c:1513-1533`, `copyOrderInfoC`). In a long test with a small setting these are the
  oldest closed orders still in the array, where the terminals show the newest: the losses and wins of a
  day, the last order's close and a run of wins are then read from what closed long ago.
- `openOrder` writes the place behind the open orders and looks neither at what is there nor at the size of
  the array (`tester.c:141-163`). As closed orders stay at its end, from order 201 of a test on each new one
  overwrites the order closed first, of whatever system, although few may be open. Its profit was
  booked before; what is lost is the history the strategies are shown. `OthersUntouched` says that
  nothing else is lost, and `BalanceExplained` counts the overwritten ones. With 200 open orders the write
  goes behind the array.

Live orders
- Looking for the mutex and creating it are two steps; two charts can both create it (`clobbered`).
- An expert advisor that gives up waiting for the mutex drops what it was to send and reports success.
- `Kantu.c:206-207` takes the stop of an update from its first order, which may have none.
- TrendLimit and the newer strategies never call `areOrdersCorrect`; their naked orders are repaired by the
  walk's own rule only, when a result is for them.
- Pending orders are skipped by the walk over open orders, so no strategy can cancel one live.
- `MAX_OPEN_ORDERS` bounds the results, not the open orders (`Coatl.mq4:99`).
- An order the market closes between the snapshot and the run makes Kantu update what is not there, and
  it misses the bar.

AutoBBS
- With `OrderInfoSize` 1 a won trade is forgotten when another order is open, and the day goes on
  (`MQL5/Experts/Teyacanani.mq5:165` sets 1); with fewer than three the cap of three orders is never met.
- Orders beyond the ones shown are not closed by an exit. MACD daily pairs get there: when the later
  order of a pair is closed alone, the last order counts as closed, and another pair may be opened
  while the first order of the first is still open.
- A trade that breaks even is neither a loss nor a win, and does not end the day.
- `GBPJPY_DayTrading_Allow_Trade` is asked before the exits of the last bars, and may skip them; the
  exit at 01:00 is what remains.
- The rule of three bars of `Ichimoko_Daily_V2` may exit the side the same bar enters.
- `dailyOnly` and `closeAllLimitAndStopOrders` compare the day of the month only; the order count of a week
  takes the days up to the present weekday, so that an order of late Saturday counts on Sunday.
  `closeAllWithNegative` adds 365 to the day of every order in the new year, and
  `closeAllCurrentDayShortTermOrders`, which compares days too, has no such shift.
- `closeWinningPositions` has an array of as many places as the index of a setting
  (`closeRisk[ORDERINFO_ARRAY_SIZE]`), not as many as there are orders.
- Before the first order the MACD daily modes, MultipleDay (for XAGUSD, BTC, GBPUSD and AUDUSD), the BEILI modes and
  `isRangeOrder` read `orderInfo[-1]`, the latter also an order that was never filled when its file is missing; the
  model lets such a reading be anything. `modifyOrder_MultipleDay` and `enterOrder_MultipleDay` have
  paths without a return value.
- In `MACD_Daily` the shift of the previous day's bar is taken from the daily array and used on the primary rates
  (`TrendStrategy.c:6130`, `6766`).
- In mode Auto the middle phases set `splitTradeMode` 6 and in WeeklyAuto 7, for which no orders are sent; the trade
  mode of AUTO is always 1, so `DailyOpen` is never reached; `Weekly_ShortTerm` splits a BUY in two and a SELL in three.
- In the RANGE phase stops are updated before orders are closed, so those closes do not take place.
- `getWinTimesInWeek` counts an open BUY without a take profit as won. `isSameDayClosedOrder` looks
  only at the order opened last.
- In MultipleDay a position of an earlier day is not looked at while a filter refuses the bar.
- The terminals show strategies no pending orders, so the limit modes do not see their own and add to them on each
  bar. In the tester `checkPending` replaces the opening time, so an order left from an earlier day counts for the
  day it is triggered on. `isEnableRangeTrade` of the limit mode is never TRUE; the spread check of ETHUSD
  compares the spread with 1.5 times itself (`TrendStrategy.c:3161`); the turning point of the break-out
  mode changes on each bar while an order on the other side is open (`TrendStrategy.c:4226-4248`).

Other strategies
- `setLastOrderUpdateTime` returns the time it replaces, so after a lost state `checkTimedExit` closes at once; signals
  that only update do not refresh the time.
- The hour filter of Qallaryi compares constants of an enum with 1, and never lets it enter.
- BBS exits on the first tick of a bar only, and its stop modes 1 to 3 leave `bbsTrend` unset. KeyK piles up orders.
- Atipaq does not try a refused entry again in the same box. The totals of Ayotl
  count an instance's orders when it is first seen and never again.

Optimizer
- Every test takes a place in two tables and gives none back. When they are full, combinations are
  reported although their strategy did not run (`optimizer.c:471`; the comment at `:407` says "Run the
  optimization for each set").
- The number of combinations is an `int` product (`optimizer.c:103`), and it bounds the loop over them. When it
  overflows the loop ends at what is left of it: an optimization nobody stopped ends with sets
  left out (in the run none of 16 is tested, as 4 by 4 wraps to 0), again against the comment at `:407`, while
  the loop that stores the sets goes on until the parameters wrap, behind the array. `SetsComplete` and
  `EndsComplete` are about products that do not overflow (`NoOverflow`).
- A request to stop is forgotten when it comes before `stopOpti = 0` (`optimizer.c:344`).
- The best fits of the last generations are not reset between optimizations (`optimizer.c:38`).
- An allele of 100 indexes one past the values of a parameter (`optimizer.c:118`); a fitness
  set to 0 to drop an entity is raised again by the sums of later symbols; with
  OpenMP the statement after the pragma does not compile.

## 5. Proofs

`InstanceStates_proofs` proves, for any number of instances, slots, bars and crashes
and from `TableAssumption` alone:

- `TypeCorrect`: the types;
- `RunsAtMostOncePerBar`: `AtMostOncePerBar`;
- `RunTimeIsOnDiskFirst`: `RunTimeOnDiskFirst`;
- `LookupIsSound`: `OwnSlotFound`;
- `FilesAreOwn`: `FileHoldsOwner`;
- `SlotsAreLeftAlone`: `OthersLeaveSlotAlone`, of each step from the invariant.

None of them is inductive. The invariant `IInv` adds: which program places go with which
goal and who holds the critical section (`Control`); that a thread between its
lookup and its use of the slot still owns it (`Held`), without which a backup could
write another instance's record; that no stored time lies in the future (`PastTimes`),
without which a bar could be refused or granted out of turn; that the last
grant is recorded in the slot (`Recorded`), the link between the table and the history;
and that a bar about to be granted is later than the last one (`Pending`). The proof
has one lemma per conjunct and one step per action.

`Framework_proofs` proves, for any number of threads, rows, buffers, tries and failures and
from `FrameworkAssumption` alone:

- `TypeCorrect`: the types;
- `OneInitialises`: `OneInitialiser`;
- `TablesReady`: `TablesReadyFirst`;
- `KeepsRow`: `OwnerKeepsRow`;
- `OneRow`: `OneRowEach`.

The invariant says what the two flags mean together (`FlagsMean`: before `initialized`
is set, whoever has the turn is alone and `initializing` is set; afterwards a thread may still get a
turn, but finds out by the second test), which places belong to which job (`Places`), that rows
the initialisation has not come to cannot be claimed (`Untouched`), which is why the pass over
all rows takes none away from a thread that went on without the framework, unless it
claimed the row between two passes over it, and that a claimed row is not being cleared (`Owned`).

`Rates_proofs` proves of the window, for every `Size >= 2` and `Ext >= 1`, that the pointer
and the copy stay inside the block (`WindowTypes`), that a strategy never reads a
bar nobody wrote (`StrategySeesNoGarbage`), and that the buffer implements the
sliding window (`ImplementsSlidingWindow`): each step of `RatesWindow` changes `View`
by one step of `SlidingWindow` or not at all. The invariant says which places are
written and, while the copy loop runs, where source and destination are.

`LiveOrders_proofs` proves, for any instances, plans, bars, failures and kills and from
`LiveAssumption` alone:

- `OneCall`: `OneCallAtATime`. The invariant says which places belong to the holder of the mutex
  and that, unless it was clobbered, the mutex carries the holder's name.
- `LiveTypes`: the types (`TypeOK`). Its invariant `Types` adds that whoever is about to send has a result that
  opens an order, and when nothing is selected or sent (`ToSend`).
- `WalkReachesAll`: `NoOrderMissed`. `Walk` says that a ticket is in the account once (`TicketsOnce`), that
  a selected order is the instance's own, and that every order still due is at a position the walk comes to,
  or selected (`WalkOf`). Orders are removed and added under the walk; as it goes from the last position
  to the first, what moves up moves towards it, and what is behind it has been handled.
- `KantuOneOrder`: `OneOrderPerSide`. `KantuInv` says that Kantu's orders are market orders, one on a side, that only the
  first result opens, and when it may (`MayOpen`): while there is no order of that side, or while its
  answer is being written down, or when the answer was lost and the failure file will have the library
  decide anew before the result is reached again. The lemmas about the signals (`openOrUpdateTrade`,
  `modifyAll`, `KantuPlans`, ...) say which results may open.

`TesterOrders_proofs` proves, for any number of systems, orders, results and bars and from
`TesterAssumption` alone:

- `OpenOrdersInFront`: `BookPacked`;
- `ClosesAll`: `CloseIsComplete`;
- `OwnOrdersOnly`: `OthersUntouched`;
- `BalanceIsExplained`: `BalanceExplained`.

The invariant says that the open orders are the places below the sum of the counters, each with an owner
(`InFront`), that the unused places lie between them and the closed orders (`UnusedBetween`), so that a new
order overwrites a closed one only when no place is unused, that the counters are the cardinalities of the sides (`Counted`), and that
behind its index the loop of `closeOrder` has left nothing it was for, with a bound no smaller than the
number of open orders (`SweptBehind`). `ClosedOnSide` carries the cardinality over the move of the array by the
bijection between the places before and after. For the balance it needs that without tick files no open order
is younger than the clock of its system (`OnTime`, without which `closeOrder` would return early), that only
`closeOrder` holds a sum (`SumHeld`), and how the sum over the array changes when an order is opened in an unused place or over a closed order,
closed and moved to its end, or given interest; these are inductions over the places of the array.

`Optimizer_proofs` proves, for any parameters, symbols and width of an int and from
`OptimizerAssumption` alone:

- `EveryCombination`: `SetsComplete`. `Stored` says that the sets so far are the numbers so far, written in
  the mixed base of the step counts, and that the parameters have not wrapped before. The lemmas show that
  the numbers below the product of the counts have each combination once (the successive divisions are
  inverted) and that the parameters wrap at the product and not before, whatever the `int` product says;
- `EachReportedOnce`: `ReportsInOrder`. The invariant ties the loop indices to the reports made;
- `NoneLeftOut`: `EndsComplete`, for a product that an `int` holds (`NoOverflow`). `CountIsProduct` shows that the
  bound of the loop is then the product itself: it has not wrapped, and neither have those on the way to
  it. So the reports are for the stored sets, which are all the combinations (`StoredAll`);
- `ConvergenceIsOwn`: `ConvergesOnItsOwn`, from the place of the -1 the process starts with;
- `OptimizerTypes`: the types.

`Rates_proofs` proves of the conversion, for every ratio, window, array, set of closed times, history and
sequence of calls and from `ConversionAssumption` alone:

- `ConversionTypes`: `Typed`, the types, the order of the terminal's bars, and that calls are in the past;
- `CompletedBarsRight`: `CompletedBars`, `NoBucketLeftOut`: `NoneLeftOut`, `CurrentBarRight`: `CurrentBar`, each
  in the states where `LongEnough(source)` holds.

`LongEnough` says that each array the library could be handed so far has valid bars of more buckets
than the window has places. The code asks for no such thing and needs it: when a weekend's discarded bars leave
valid bars of just `Size` buckets, the oldest of them may have begun before the array, and
`fillEmptyRatesBuffer` makes its bar of the rest. TLC finds this with `ArraySize` 9 and three closed
times. In the instance of the run every array is long enough. It is a state predicate about the terminal's
history, which no step of the library changes.

The invariant `CInv` says of a full buffer, in `Converted`: the bars are of increasing buckets; each
completed one is made of all the valid bars of its bucket (`Complete`); the current one has the time and open of
the first valid bar of its bucket (`BeginsWithFirst`) and covers what was seen at its end, and nothing
of an earlier bucket (`CurrentCovers`, `CurrentClose`); a bucket whose first bar was seen is not behind the
current bar (`BegunKept`, `CurrentBegun`), so that only others can be missing (`MissedOnly`); and
`OldApart`, which the volume needs: once a bucket was seen from its first bar on, the remembered time is not that
of a bar which the rebuilding will merge. The proof has one lemma for each thing that can happen: the terminal
goes on (`GrownConverted`), a discarded bar, a merge, a new bar (which rests on `Rebuilt`: the loop that builds the
bar before anew finds all of its bucket in the array), a filling (which rests on `FilledFull`). The two loops
are recursive functions, and what is proved of them is by induction over their rounds.

`Strategies_proofs` proves, for any set of modes and strategies, any number of orders shown, results, days, orders
and faults, and from `StrategiesAssumption` alone:

- `StrategyInvariant`: the inductive invariant `IInv`;
- `StrategiesOneSided`: `OneSided`;
- `StrategyPositions`: `PositionLimits` for the strategies and sizes `HoldsFew` names: the modes with one position
  (MACD_Weekly, 4H_Shellington, ShortTerm, Limit_BBS, both modes of BEILI), those with an order a day and
  MultipleDay_V2 at any size of the arrays; the Ichimoku modes with up to three orders if they are shown three
  (`OrderInfoSize >= 3`); the strategies with `openOrUpdateLongTrade` and its like, but Atipaq, if they are shown two;
- `StrategyTrend`: `FollowsTrend` for every strategy outside AutoBBS, that is, that after a bar on which it was in for a
  side all its orders are on that side, for any sizes of the arrays;
- `StrategyOldOrders`: `OldOrdersClosed` for the strategies with `openOrUpdateLongTrade` and its like, but Atipaq, if they
  are shown two orders and no call was refused (`Calm`).

`IInv` says, of every mode and strategy without limit orders (`InScope`): the types (`TypeInv`); the open orders
are in the order of their tickets, what is open is open and what is closed closed (`OrdersInv`); the modes that
hold one position hold at most one order, opened after all that were closed (`Sole`), which the decision
functions need to find it as the last one; the modes that add to a position hold one side (`SameSide`); BuDan holds
the side it is set to (`DailySide`); of a strategy that is shown two orders, `openOrUpdate...Trade` keeps one
on each side (`OneEach`), and one in all as long as no call was refused (`NoneRefused`).
The limits need more: that the order sent last, by its ticket, is also the latest (`Timely`),
since the modes look at the last order of the history and of the open ones only, or count those of the week;
where the mode allows one order a day, that an open one is of an earlier day than any later one, open or
closed (`DayGap`), since the last order, whose day is all that some of these modes look at, may be closed; that both parts of a position of MultipleDay_V2 are of one day (`PartsOfADay`), no fourth
order is sent where three are shown (`ThreeAtMost`), and everything closed in BEILI was closed
before the day of any later order, the last of which may still be open (`Rest`).
Three more parts relate the orders to what the strategy remembers: those there are after a bar in
for a side are on it (`InForOne`); with no call refused the time of the last entry, which
`checkTradesTimes` counts the bars from, is the day of every open order (`Dated`, without which an order could
escape the count); and after a bar without an entry none is older than the count allows (`AgedOut`). The argument has three layers. What a strategy is shown: `c_getOrderInfo` has all the open
orders when there are no more than `OrderInfoSize`, and what `Picked` selects from it is what was selected
(`HeldIs`). What its results ask for: after `closeAll` of a side every order shown on it has a result, unless the
results ran out, and then no entry follows either (`AskedFor`, `Entered`, `EnteredTurns`: the array "turns to" a side).
What the front end does with them: the walk closes just the orders asked for, an order is sent for
each accepted result only, and with no call refused nothing is left on the other side (`BarIs`,
`SidedBar`). The results array may have any length: that its running out never leaves both sides open is part of the theorem.
For `StrategyTrend` it rests on `om_handleOpenOrders`: an order left without a result is handled with the first one, or with
that of the order before it, and when the array is full of exits each of them closes it (`IsAsked`, `FullTurns`). One
lemma for each mode and each strategy then shows that its decisions and runs fit (`ModeFits`, `RunFits`).

`InductionLemmas` is what those inductions rest on. The library's induction theorems take an
operator as parameter, which the provers cannot instantiate; here what is to be proved is given as the
*set* of the numbers it holds for. That such a set has a least member follows from the library's theorem that the
inclusion of finite sets is well-founded, applied to the intervals `0..n` (`LeastNatural`); induction (`InductionTo`) and
that a recursive function of an interval exists and has the values its equation says (`RecursionExists`) follow.

Model-checked only:

- the liveness properties (`CallsReturn`, `TestFinishes`, `EveryChartGetsIn`, `StopsAreSet`,
  `PlansCarriedOut`, `OptimizationEnds`): liveness under fairness is out of the provers' reach;
- of `Strategies`: `TradesADay` and `OneWinADay`; `FollowsTrend` for BoDuan and 4H_Shellington; `OldOrdersClosed` for the
  modes of AutoBBS, the limit modes and Atipaq, and after a refused call; `PositionLimits` for the strategies
  `HoldsFew` leaves out (the zones of BBS_4HSwing, WeeklyAuto, Auto, ATR_Hedge and MultipleDay, BoDuan, Atipaq and the
  limit modes). They are not true for every value of the settings: with an `OrderInfoSize` of 1 a trade that was won is
  not seen behind one that is open, with fewer than three the cap of three orders is never met, and an array with
  too few results closes a part of what it should. They count the orders of a day, a zone or a run over the
  lists of several modes, and the limit modes build and sort their
  entries with an operator as argument, which the provers cannot reason about.

## 6. Abstractions

- The contents of bars, prices, lots and profits are members of small sets; the six
  arrays of a rates buffer move together and are one array.
- What a strategy signals is any choice; it closes orders it was shown, or all of a type.
- `updateOrder` changes only stops, which only changes what the market will reach.
- Bar times are numbers. The two time zones are applied before the modelled code.
- A file is missing, truncated or complete; a single `fwrite` of a record is one step.
- Tests of arguments against NULL, logging and the user interface are left out.
- The stores of `initialized` and `initializing` take effect in the order of the program
  (they are plain variables, accessed without the lock; a compiler that swaps the last two
  stores of `initFramework` is not modelled).
- What the configuration says is abstracted to whether it can be used. The other tables that
  `initFramework` fills are filled in the same place as the rates buffers.
- `Framework` lets charts and back-tests share a process; a real process has one kind,
  so its behaviours are among those of the model.
- A tick of the gate takes one bar time from the market; the thread may be late.
- `LiveOrders`: a strategy's indicators are its plan for the bar; stops are none, the strategy's own, or
  measured from a stop loss of zero. Slippage and the minimum distance of stops are left out.
- `Strategies`: prices, indicators and filters are choices of the environment, also where the code would
  allow fewer. Of the time only the parts of a day are kept, in the weekly modes the week. A
  bar's calls of the broker are one step; what happens between them is the matter of `LiveOrders`; a refused
  call is asked again by a later bar only if the strategy asks for it again.
  A result, a take profit and the day of closing are kept for the modes that read them. Days a
  strategy leaves out whole (non-farm, Christmas, a filter of the day) are days without bars. Break-even and other
  moves of a stop are left out: they change only what the market may reach, which is free.
- `LimitModes`: the lines of a day are numbers that do not depend on what was traded; the path that closes at a passed take
  profit and the spread check run live only, and automatic mode 3 sets what the other modes choose.
- `RatesConversion`: the terminal never changes or back-fills a bar that has ended. Times are
  counted in bars of the terminal, and the two time zones are left out.
- `Optimizer`: fitness is a member of a small set; how the genetic library selects and crosses
  entities is its own. The MPI and OpenMP branches are not built by the build files.

Not modelled: technical and symbol analysis, machine learning, R and
image wrappers, NTP, time zones, logging and the user interface (numerical code,
output or third-party calls without state that outlives a call); the strategies Ayotl (its limits are totals
over all instances in tables of its own) and TakeOver (it moves the stops of orders a user opened); the modes of AutoBBS
`Test` (29) and `WeeklyATR_Prediction` (17); functions that are compiled but that nothing dispatches (`Kelpie2.c`,
`Kelpie_back.c`, `XAUUSD.c`, most of `StrategyComLib.c`, the `_Old` functions of AutoBBS); RecordBars and
Screening, which send no orders; the MQL5 port of the
front end; statistics of the back-tester; the vendored libraries.

## 7. Plan

Done, in this order: `InstanceStates`; `SlidingWindow` and `RatesWindow`; `TesterOrders`; `Framework`;
`OrderSignals` and `LiveOrders`; `Optimizer`; `RatesConversion`; the modes of AutoBBS and the other strategies,
those with limit orders in the back-tester included.

To come: in the model, the limit modes under the front end, on top of the pending orders of `LiveOrders`, and
Ayotl and TakeOver. In the proofs, what the remaining properties of `Strategies` say of single modes, from the
settings under which each is true, on top of `IInv`.
