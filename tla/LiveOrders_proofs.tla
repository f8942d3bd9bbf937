-------------------------- MODULE LiveOrders_proofs --------------------------
(***************************************************************************)
(* Proofs about LiveOrders, for any number of expert advisors, orders,     *)
(* results, refused calls and kills: the variables keep their types; while *)
(* the order mutex is not created anew under its holder, one broker call   *)
(* is made at a time; the walk over the orders misses none of those the    *)
(* results ask something of; and Kantu never has two orders on a side.     *)
(***************************************************************************)
EXTENDS LiveOrders, InductionLemmas

-----------------------------------------------------------------------------
(* The order mutex. *)

\* Whoever is in a broker call, or about to give the mutex back, is its holder.
IInv ==
    /\ pc \in [Instances -> States]
    /\ clobbered \in BOOLEAN
    /\ OneCallAtATime

LEMMA InitIInv == Init => IInv
  BY DEF Init, IInv, States, OneCallAtATime, Holding

\* The steps of an instance outside of the broker calls leave the mutex alone.
LEMMA OutsideStep ==
    ASSUME IInv, NEW i \in Instances, NEW place \in States \ {"broker", "unlock"},
           pc' = [pc EXCEPT ![i] = place], UNCHANGED <<mutex, clobbered>>
    PROVE  IInv'
  <1>1. pc' \in [Instances -> States]
    BY DEF IInv
  <1>2. \A j \in Instances : Holding(j)' => Holding(j)
    BY DEF IInv, Holding
  <1> QED
    BY <1>1, <1>2 DEF IInv, OneCallAtATime

LEMMA QuietStep ==
    ASSUME IInv, UNCHANGED <<pc, mutex, clobbered>>
    PROVE  IInv'
  BY DEF IInv, OneCallAtATime, Holding

LEMMA SnapshotIInv == ASSUME IInv, NEW i \in Instances, Snapshot(i) PROVE IInv'
  <1>1. pc' = [pc EXCEPT ![i] = "library"] /\ UNCHANGED <<mutex, clobbered>>
    BY DEF Snapshot
  <1> QED
    BY <1>1, OutsideStep DEF States

LEMMA RunStrategyIInv == ASSUME IInv, NEW i \in Instances, RunStrategy(i) PROVE IInv'
  <1>1. pc' = [pc EXCEPT ![i] = "next"] /\ UNCHANGED <<mutex, clobbered>>
    BY DEF RunStrategy
  <1> QED
    BY <1>1, OutsideStep DEF States

LEMMA SelectIInv == ASSUME IInv, NEW i \in Instances, Select(i) PROVE IInv'
  <1>1. pc' = [pc EXCEPT ![i] = "check"] \/ UNCHANGED pc
    BY DEF Select
  <1>2. UNCHANGED <<mutex, clobbered>>
    BY DEF Select
  <1> QED
    BY <1>1, <1>2, OutsideStep, QuietStep DEF States

LEMMA NextResultIInv == ASSUME IInv, NEW i \in Instances, NextResult(i) PROVE IInv'
  <1>1. pc' = [pc EXCEPT ![i] = "check"] /\ UNCHANGED <<mutex, clobbered>>
    BY DEF NextResult
  <1> QED
    BY <1>1, OutsideStep DEF States

LEMMA FinishIInv == ASSUME IInv, NEW i \in Instances, Finish(i) PROVE IInv'
  <1>1. pc' = [pc EXCEPT ![i] = "idle"] /\ UNCHANGED <<mutex, clobbered>>
    BY DEF Finish
  <1> QED
    BY <1>1, OutsideStep DEF States

LEMMA CheckMutexIInv == ASSUME IInv, NEW i \in Instances, CheckMutex(i) PROVE IInv'
  <1>1. pc' = [pc EXCEPT ![i] = "create"] \/ pc' = [pc EXCEPT ![i] = "lock"]
    BY DEF CheckMutex
  <1>2. UNCHANGED <<mutex, clobbered>>
    BY DEF CheckMutex
  <1> QED
    BY <1>1, <1>2, OutsideStep DEF States

\* A mutex that has a holder is clobbered; one without is held by nobody.
LEMMA CreateMutexIInv == ASSUME IInv, NEW i \in Instances, CreateMutex(i) PROVE IInv'
  <1>1. pc' \in [Instances -> States] /\ clobbered' \in BOOLEAN
    BY DEF CreateMutex, IInv, States
  <1>2. \A j \in Instances : Holding(j)' => Holding(j)
    BY DEF CreateMutex, IInv, Holding
  <1>3. ASSUME ~clobbered', NEW j \in Instances, Holding(j)' PROVE FALSE
    <2>1. ~clobbered /\ mutex \notin Instances
      BY <1>3 DEF CreateMutex
    <2>2. mutex = j
      BY <1>2, <1>3, <2>1 DEF IInv, OneCallAtATime
    <2> QED
      BY <2>1, <2>2
  <1> QED
    BY <1>1, <1>3 DEF IInv, OneCallAtATime

LEMMA LockIInv == ASSUME IInv, NEW i \in Instances, Lock(i) PROVE IInv'
  <1>1. mutex = Free /\ mutex' = i /\ clobbered' = clobbered /\ pc' = [pc EXCEPT ![i] = "broker"]
    BY DEF Lock
  <1>2. pc' \in [Instances -> States] /\ clobbered' \in BOOLEAN
    BY <1>1 DEF IInv, States
  <1>3. ASSUME ~clobbered, NEW j \in Instances, Holding(j)' PROVE j = i
    <2>1. j # i => Holding(j)
      BY <1>1, <1>3 DEF IInv, Holding
    <2>2. j # i => j = Free
      BY <1>1, <1>3, <2>1 DEF IInv, OneCallAtATime
    <2> QED
      BY <2>2, LiveAssumption
  <1> QED
    BY <1>1, <1>2, <1>3 DEF IInv, OneCallAtATime

LEMMA LockFailsIInv == ASSUME IInv, NEW i \in Instances, LockFails(i) PROVE IInv'
  <1>1. pc' = [pc EXCEPT ![i] = "next"] /\ UNCHANGED <<mutex, clobbered>>
    BY DEF LockFails
  <1> QED
    BY <1>1, OutsideStep DEF States

\* From the broker call to the return of the mutex.
LEMMA CallStep ==
    ASSUME IInv, NEW i \in Instances, pc[i] = "broker",
           pc' = [pc EXCEPT ![i] = "unlock"], UNCHANGED <<mutex, clobbered>>
    PROVE  IInv'
  <1>1. pc' \in [Instances -> States]
    BY DEF IInv, States
  <1>2. \A j \in Instances : Holding(j)' => Holding(j)
    BY DEF IInv, Holding
  <1> QED
    BY <1>1, <1>2 DEF IInv, OneCallAtATime

LEMMA HandleOrderIInv == ASSUME IInv, NEW i \in Instances, HandleOrder(i) PROVE IInv'
  <1>1. pc[i] = "broker" /\ pc' = [pc EXCEPT ![i] = "unlock"] /\ UNCHANGED <<mutex, clobbered>>
    BY DEF HandleOrder
  <1> QED
    BY <1>1, CallStep

LEMMA SendOrderIInv == ASSUME IInv, NEW i \in Instances, SendOrder(i) PROVE IInv'
  <1>1. pc[i] = "broker" /\ pc' = [pc EXCEPT ![i] = "unlock"] /\ UNCHANGED <<mutex, clobbered>>
    BY DEF SendOrder
  <1> QED
    BY <1>1, CallStep

\* The one who gives the mutex back was the only one to hold it.
LEMMA UnlockIInv == ASSUME IInv, NEW i \in Instances, Unlock(i) PROVE IInv'
  <1>1. pc[i] = "unlock" /\ pc' = [pc EXCEPT ![i] = "next"] /\ clobbered' = clobbered
    BY DEF Unlock
  <1>2. pc' \in [Instances -> States] /\ clobbered' \in BOOLEAN
    BY <1>1 DEF IInv, States
  <1>3. ASSUME ~clobbered, NEW j \in Instances, Holding(j)' PROVE FALSE
    <2>1. j # i /\ Holding(j) /\ Holding(i)
      BY <1>1, <1>3 DEF IInv, Holding
    <2>2. mutex = i /\ mutex = j
      BY <1>3, <2>1 DEF IInv, OneCallAtATime
    <2> QED
      BY <2>1, <2>2
  <1> QED
    BY <1>1, <1>2, <1>3 DEF IInv, OneCallAtATime

LEMMA KillIInv == ASSUME IInv, NEW i \in Instances, Kill(i) PROVE IInv'
  <1>1. pc' = [pc EXCEPT ![i] = "dead"] /\ UNCHANGED <<mutex, clobbered>>
    BY DEF Kill
  <1> QED
    BY <1>1, OutsideStep DEF States

LEMMA RestartIInv == ASSUME IInv, NEW i \in Instances, Restart(i) PROVE IInv'
  <1>1. pc' = [pc EXCEPT ![i] = "idle"] /\ UNCHANGED <<mutex, clobbered>>
    BY DEF Restart
  <1> QED
    BY <1>1, OutsideStep DEF States

LEMMA DeleteMutexIInv == ASSUME IInv, DeleteMutex PROVE IInv'
  <1>1. Orphaned /\ UNCHANGED <<pc, clobbered>>
    BY DEF DeleteMutex
  <1>2. ASSUME ~clobbered, NEW j \in Instances, Holding(j) PROVE FALSE
    BY <1>1, <1>2 DEF IInv, OneCallAtATime, Orphaned
  <1> QED
    BY <1>1, <1>2 DEF IInv, OneCallAtATime, Holding

LEMMA NextIInv == IInv /\ [Next]_vars => IInv'
  <1> SUFFICES ASSUME IInv, [Next]_vars PROVE IInv'
    OBVIOUS
  <1>1. ASSUME NEW i \in Instances, NewBar(i) PROVE IInv'
    BY <1>1, QuietStep DEF NewBar
  <1>2. ASSUME NEW i \in Instances, Step(i) PROVE IInv'
    BY <1>2, SnapshotIInv, RunStrategyIInv, SelectIInv, NextResultIInv, FinishIInv, CheckMutexIInv,
       CreateMutexIInv, LockIInv, LockFailsIInv, HandleOrderIInv, SendOrderIInv, UnlockIInv DEF Step
  <1>3. CASE MarketCloses
    BY <1>3, QuietStep DEF MarketCloses
  <1>4. CASE MarketFills
    BY <1>4, QuietStep DEF MarketFills
  <1>5. CASE UNCHANGED vars
    BY <1>5, QuietStep DEF vars
  <1> QED
    BY <1>1, <1>2, <1>3, <1>4, <1>5, KillIInv, RestartIInv, DeleteMutexIInv DEF Next

\* Broker calls never overlap, unless the mutex was created anew while it was held.
THEOREM OneCall == Spec => []OneCallAtATime
  <1>1. IInv => OneCallAtATime
    BY DEF IInv
  <1> QED
    BY <1>1, InitIInv, NextIInv, PTL DEF Spec

-----------------------------------------------------------------------------
(* The orders of the account, as a sequence. *)

\* RemoveAt leaves the other members in their order.
LEMMA RemoveAtParts ==
    ASSUME NEW S, NEW s \in Seq(S), NEW p \in 1..Len(s)
    PROVE  /\ RemoveAt(s, p) \in Seq(S)
           /\ Len(RemoveAt(s, p)) = Len(s) - 1
           /\ \A q \in 1..Len(s) - 1 : RemoveAt(s, p)[q] = IF q < p THEN s[q] ELSE s[q + 1]
  <1> DEFINE front == SubSeq(s, 1, p - 1)
             back == SubSeq(s, p + 1, Len(s))
  <1>1. front \in Seq(S) /\ Len(front) = p - 1 /\ \A q \in 1..p - 1 : front[q] = s[q]
    OBVIOUS
  <1>2. /\ back \in Seq(S) /\ Len(back) = Len(s) - p
        /\ \A q \in 1..Len(s) - p : back[q] = s[p + q]
    OBVIOUS
  <1>3. RemoveAt(s, p) = front \o back
    BY DEF RemoveAt
  <1> HIDE DEF front, back
  <1>4. front \o back \in Seq(S) /\ Len(front \o back) = Len(s) - 1
    BY <1>1, <1>2
  <1>5. \A q \in 1..Len(s) - 1 : (front \o back)[q] = IF q < p THEN s[q] ELSE s[q + 1]
    BY <1>1, <1>2
  <1> QED
    BY <1>3, <1>4, <1>5

-----------------------------------------------------------------------------
(* The results a strategy fills. *)

\* The least of some natural numbers is one of them.
LEMMA MinIsMember ==
    ASSUME NEW X \in SUBSET Nat, X # {}
    PROVE  Min(X) \in X /\ \A x \in X : Min(X) <= x
  BY LeastNatural DEF Min

ResultArrays(max) == [1..max -> Results]

LEMMA ClearTypes ==
    ASSUME NEW max \in Nat
    PROVE  clearStrategyResults(max) \in ResultArrays(max) /\ NoResults(max) \in ResultArrays(max)
  BY DEF clearStrategyResults, NoResults, ResultArrays, Results, Stops, Signals, AllOrderTickets

LEMMA FreeResultType ==
    ASSUME NEW max \in Nat, NEW results \in ResultArrays(max)
    PROVE  FreeResult(results) \in Results
  <1> DEFINE free == {r \in DOMAIN results : results[r].signals = {}} \cup {Len(results) + 1}
             clear == clearStrategyResults(1)[1]
  <1>1. results \in Seq(Results) /\ Len(results) = max /\ DOMAIN results = 1..max
    BY DEF ResultArrays
  <1>2. free \in SUBSET (1..max + 1) /\ free # {}
    BY <1>1
  <1>3. FreeIndex(results) \in 1..max + 1
    <2> HIDE DEF free
    <2>1. Min(free) \in free
      BY <1>2, MinIsMember
    <2> QED
      BY <1>2, <2>1 DEF FreeIndex, free
  <1>4. clear \in Results
    BY ClearTypes DEF ResultArrays
  <1> HIDE DEF clear
  <1>5. Append(results, clear) \in Seq(Results) /\ Len(Append(results, clear)) = max + 1
    BY <1>1, <1>4
  <1> QED
    BY <1>3, <1>5 DEF FreeResult, clear

LEMMA UseFreeType ==
    ASSUME NEW max \in Nat, NEW results \in ResultArrays(max), NEW result \in Results
    PROVE  UseFree(results, result) \in ResultArrays(max)
  BY DEF UseFree, ResultArrays

LEMMA setStopsType ==
    ASSUME NEW max \in Nat \ {0}, NEW results \in ResultArrays(max), NEW stops \in Stops
    PROVE  setStops(results, 1, stops) \in ResultArrays(max)
  <1>1. results[1] \in Results
    BY DEF ResultArrays
  <1>2. [results[1] EXCEPT !.stops = stops] \in Results
    BY <1>1 DEF Results
  <1> QED
    BY <1>2 DEF setStops, ResultArrays

LEMMA openSingleType ==
    ASSUME NEW max \in Nat, NEW results \in ResultArrays(max), NEW type \in OrderTypes, NEW stops \in Stops
    PROVE  openSingle(results, type, stops) \in ResultArrays(max)
  <1>1. FreeResult(results).ticket \in Int
    BY FreeResultType DEF Results
  <1> DEFINE result == [ticket  |-> IF type = "BUY" THEN AllOrderTickets ELSE FreeResult(results).ticket,
                        signals |-> {<<"OPEN", type>>}, stops |-> stops]
  <1>2. result \in Results
    BY <1>1 DEF Results, Signals, AllOrderTickets
  <1> HIDE DEF result
  <1>3. UseFree(results, result) \in ResultArrays(max)
    BY <1>2, UseFreeType
  <1> QED
    BY <1>3 DEF openSingle, result

LEMMA closeEasyType ==
    ASSUME NEW max \in Nat, NEW results \in ResultArrays(max), NEW type \in OrderTypes, NEW ticket \in Int
    PROVE  closeEasy(results, type, ticket) \in ResultArrays(max)
  <1> DEFINE result == [FreeResult(results) EXCEPT !.ticket = ticket, !.signals = {<<"CLOSE", type>>}]
  <1>1. FreeResult(results) \in Results
    BY FreeResultType
  <1>2. <<"CLOSE", type>> \in Signals
    BY DEF Signals
  <1>3. \A x \in Results : [x EXCEPT !.ticket = ticket, !.signals = {<<"CLOSE", type>>}] \in Results
    BY <1>2 DEF Results
  <1>4. result \in Results
    BY <1>1, <1>3
  <1> HIDE DEF result
  <1>5. UseFree(results, result) \in ResultArrays(max)
    BY <1>4, UseFreeType
  <1> QED
    BY <1>5 DEF closeEasy, result

LEMMA modifyTradeEasyType ==
    ASSUME NEW max \in Nat, NEW results \in ResultArrays(max), NEW side \in Sides, NEW ticket \in Int,
           NEW stops \in Stops
    PROVE  modifyTradeEasy(results, side, ticket, stops) \in ResultArrays(max)
  <1> DEFINE result == [ticket |-> ticket, signals |-> {<<"UPDATE", side>>}, stops |-> stops]
  <1>1. result \in Results
    BY DEF Results, Signals, Sides, OrderTypes, LongTypes, ShortTypes
  <1> HIDE DEF result
  <1>2. UseFree(results, result) \in ResultArrays(max)
    BY <1>1, UseFreeType
  <1> QED
    BY <1>2 DEF modifyTradeEasy, result

\* A fold that keeps to a set at each step ends in it.
LEMMA FoldStays ==
    ASSUME NEW V, NEW N \in Nat, NEW filled, filled[0] \in V,
           \A m \in 1..N : filled[m - 1] \in V => filled[m] \in V
    PROVE  filled[N] \in V
  <1> DEFINE Good == {m \in 0..N : filled[m] \in V}
  <1>1. 0 \in Good
    OBVIOUS
  <1>2. \A m \in 1..N : m - 1 \in Good => m \in Good
    OBVIOUS
  <1>3. \A m \in 0..N : m \in Good
    <2> HIDE DEF Good
    <2> QED
      BY <1>1, <1>2, InductionTo
  <1> QED
    BY <1>3

\* What modifyAll makes of the array, one shown order after the other.
LEMMA modifyAllStays ==
    ASSUME NEW V, NEW results \in V, NEW S, NEW orders \in Seq(S), NEW side, NEW stops,
           \A x \in V : \A m \in 1..Len(orders) :
                modifyTradeEasy(x, side, orders[m].ticket, stops) \in V
    PROVE  modifyAll(results, orders, side, stops) \in V
  <1> DEFINE After(m, x) == IF orders[m].type = side THEN modifyTradeEasy(x, side, orders[m].ticket, stops) ELSE x
             step == [m \in 1..Len(orders) |-> [x \in V |-> After(m, x)]]
             Rec(f) == [m \in 0..Len(orders) |-> IF m = 0 THEN results ELSE After(m, f[m - 1])]
             filled == CHOOSE f : f = Rec(f)
  <1>1. Len(orders) \in Nat /\ \A m \in 1..Len(orders) : \A x \in V : After(m, x) \in V
    OBVIOUS
  <1>2. modifyAll(results, orders, side, stops) = filled[Len(orders)]
    BY DEF modifyAll
  <1> HIDE DEF After
  <1>3. \E f : f = Rec(f)
    <2>1. step \in [1..Len(orders) -> [V -> V]]
      BY <1>1
    <2>2. \A m \in 1..Len(orders) : \A x \in V : step[m][x] = After(m, x)
      OBVIOUS
    <2> HIDE DEF step
    <2>3. BuiltUp(Len(orders), V, results, step)
      BY <1>1, <2>1, RecursionExists
    <2>0. PICK f \in [0..Len(orders) -> V] :
              f[0] = results /\ \A m \in 1..Len(orders) : f[m] = step[m][f[m - 1]]
      BY <2>3 DEF BuiltUp
    <2>4. ASSUME NEW m \in 1..Len(orders) PROVE f[m] = After(m, f[m - 1])
      <3>1. f[m - 1] \in V
        BY <1>1
      <3> QED
        BY <3>1, <2>2, <2>0
    <2>5. f = Rec(f)
      BY <2>0, <2>4
    <2> QED
      BY <2>5
  <1>4. filled = Rec(filled)
    <2> HIDE DEF Rec
    <2> QED
      BY <1>3
  <1> HIDE DEF filled
  <1>5. filled[0] \in V /\ \A m \in 1..Len(orders) : filled[m - 1] \in V => filled[m] \in V
    <2>1. filled[0] = results /\ \A m \in 1..Len(orders) : filled[m] = After(m, filled[m - 1])
      BY <1>4, <1>1
    <2> QED
      BY <1>1, <2>1
  <1>6. filled[Len(orders)] \in V
    BY <1>1, <1>5, FoldStays
  <1> QED
    BY <1>2, <1>6

\* What closeEach makes of the array.
LEMMA closeEachStays ==
    ASSUME NEW V, NEW results \in V, NEW S, NEW orders \in Seq(S), NEW picked,
           \A x \in V : \A m \in 1..Len(orders) :
                closeEasy(x, orders[m].type, orders[m].ticket) \in V
    PROVE  closeEach(results, orders, picked) \in V
  <1> DEFINE After(m, x) == IF orders[m].ticket \in picked THEN closeEasy(x, orders[m].type, orders[m].ticket) ELSE x
             step == [m \in 1..Len(orders) |-> [x \in V |-> After(m, x)]]
             Rec(f) == [m \in 0..Len(orders) |-> IF m = 0 THEN results ELSE After(m, f[m - 1])]
             filled == CHOOSE f : f = Rec(f)
  <1>1. Len(orders) \in Nat /\ \A m \in 1..Len(orders) : \A x \in V : After(m, x) \in V
    OBVIOUS
  <1>2. closeEach(results, orders, picked) = filled[Len(orders)]
    BY DEF closeEach
  <1> HIDE DEF After
  <1>3. \E f : f = Rec(f)
    <2>1. step \in [1..Len(orders) -> [V -> V]]
      BY <1>1
    <2>2. \A m \in 1..Len(orders) : \A x \in V : step[m][x] = After(m, x)
      OBVIOUS
    <2> HIDE DEF step
    <2>3. BuiltUp(Len(orders), V, results, step)
      BY <1>1, <2>1, RecursionExists
    <2>0. PICK f \in [0..Len(orders) -> V] :
              f[0] = results /\ \A m \in 1..Len(orders) : f[m] = step[m][f[m - 1]]
      BY <2>3 DEF BuiltUp
    <2>4. ASSUME NEW m \in 1..Len(orders) PROVE f[m] = After(m, f[m - 1])
      <3>1. f[m - 1] \in V
        BY <1>1
      <3> QED
        BY <3>1, <2>2, <2>0
    <2>5. f = Rec(f)
      BY <2>0, <2>4
    <2> QED
      BY <2>5
  <1>4. filled = Rec(filled)
    <2> HIDE DEF Rec
    <2> QED
      BY <1>3
  <1> HIDE DEF filled
  <1>5. filled[0] \in V /\ \A m \in 1..Len(orders) : filled[m - 1] \in V => filled[m] \in V
    <2>1. filled[0] = results /\ \A m \in 1..Len(orders) : filled[m] = After(m, filled[m - 1])
      BY <1>4, <1>1
    <2> QED
      BY <1>1, <2>1
  <1>6. filled[Len(orders)] \in V
    BY <1>1, <1>5, FoldStays
  <1> QED
    BY <1>2, <1>6

-----------------------------------------------------------------------------
(* What the library is shown. *)

Orders == [ticket : 1..MaxTickets, owner : Instances, type : OrderTypes, stops : Stops]

LEMMA ConsParts ==
    ASSUME NEW e \in Orders, NEW s \in Seq(Orders)
    PROVE  /\ Cons(e, s) \in Seq(Orders) /\ Len(Cons(e, s)) = Len(s) + 1
           /\ Cons(e, s)[1] = e /\ \A q \in 1..Len(s) : Cons(e, s)[q + 1] = s[q]
  BY DEF Cons

\* The instance is shown those of its orders that are not pending, each of them.
Own(orders, i) == {p \in DOMAIN orders : orders[p].owner = i}

LEMMA ShownOrders ==
    ASSUME book \in Seq(Orders), NEW i \in Instances
    PROVE  /\ c_getOrderInfo(i) \in Seq(Orders)
           /\ \A p \in Own(book, i) : ~Pending(book[p].type) =>
                \E q \in DOMAIN c_getOrderInfo(i) : c_getOrderInfo(i)[q] = book[p]
  <1> DEFINE After(p, x) == IF book[p].owner = i /\ ~Pending(book[p].type) THEN Cons(book[p], x) ELSE x
             N == Len(book)
             step == [p \in 1..N |-> [x \in Seq(Orders) |-> After(p, x)]]
             Rec(f) == [p \in 0..N |-> IF p = 0 THEN <<>> ELSE After(p, f[p - 1])]
             upto == CHOOSE f : f = Rec(f)
  <1>1. N \in Nat /\ \A p \in 1..N : book[p] \in Orders
    OBVIOUS
  <1>2. ASSUME NEW p \in 1..N, NEW x \in Seq(Orders) PROVE After(p, x) \in Seq(Orders)
    BY <1>1, ConsParts
  <1>3. c_getOrderInfo(i) = upto[N]
    <2> SUFFICES c_getOrderInfo(i) = (CHOOSE f : f = Rec(f))[N]
      OBVIOUS
    <2> QED
      BY DEF c_getOrderInfo
  <1> HIDE DEF After
  <1>4. \E f : f = Rec(f)
    <2>1. step \in [1..N -> [Seq(Orders) -> Seq(Orders)]]
      BY <1>2
    <2>2. \A p \in 1..N : \A x \in Seq(Orders) : step[p][x] = After(p, x)
      OBVIOUS
    <2>3. <<>> \in Seq(Orders)
      OBVIOUS
    <2> HIDE DEF step
    <2>4. BuiltUp(N, Seq(Orders), <<>>, step)
      <3> HIDE DEF N
      <3> QED
        BY <1>1, <2>1, <2>3, RecursionExists
    <2>5. PICK f \in [0..N -> Seq(Orders)] : f[0] = <<>> /\ \A p \in 1..N : f[p] = step[p][f[p - 1]]
      BY <2>4 DEF BuiltUp
    <2>6. ASSUME NEW p \in 1..N PROVE f[p] = After(p, f[p - 1])
      <3>1. f[p - 1] \in Seq(Orders)
        BY <1>1
      <3> QED
        BY <3>1, <2>2, <2>5
    <2>7. f = Rec(f)
      BY <2>5, <2>6
    <2> QED
      BY <2>7
  <1>5. upto = Rec(upto)
    <2> HIDE DEF Rec
    <2> QED
      BY <1>4
  <1> HIDE DEF upto
  <1>6. upto[0] = <<>> /\ \A p \in 1..N : upto[p] = After(p, upto[p - 1])
    BY <1>5, <1>1
  <1> DEFINE Shows(s, p) == ~Pending(book[p].type) => \E q \in DOMAIN s : s[q] = book[p]
             Lists(m) == upto[m] \in Seq(Orders)
                         /\ \A p \in Own(book, i) : p <= m => Shows(upto[m], p)
             Good == {m \in 0..N : Lists(m)}
  <1>7. 0 \in Good
    <2>1. upto[0] \in Seq(Orders)
      BY <1>6
    <2>2. \A p \in Own(book, i) : ~(p <= 0)
      BY <1>1 DEF Own
    <2> QED
      BY <2>1, <2>2, <1>1
  <1>8. ASSUME NEW m \in 1..N, m - 1 \in Good PROVE m \in Good
    <2>1. upto[m - 1] \in Seq(Orders) /\ \A p \in Own(book, i) : p <= m - 1 => Shows(upto[m - 1], p)
      BY <1>8
    <2>2. upto[m] = After(m, upto[m - 1])
      BY <1>6
    <2>3. upto[m] \in Seq(Orders)
      BY <2>1, <2>2, <1>2
    <2>4. ASSUME NEW p \in Own(book, i), p <= m, ~Pending(book[p].type)
          PROVE  \E q \in DOMAIN upto[m] : upto[m][q] = book[p]
      <3>1. CASE book[m].owner = i /\ ~Pending(book[m].type)
        <4>1. upto[m] = Cons(book[m], upto[m - 1])
          BY <2>2, <3>1 DEF After
        <4>2. /\ Len(upto[m]) = Len(upto[m - 1]) + 1 /\ upto[m][1] = book[m]
              /\ \A q \in 1..Len(upto[m - 1]) : upto[m][q + 1] = upto[m - 1][q]
          <5>1. book[m] \in Orders /\ upto[m - 1] \in Seq(Orders)
            BY <2>1, <1>1
          <5> HIDE DEF N
          <5>2. \A q \in 1..Len(upto[m - 1]) : Cons(book[m], upto[m - 1])[q + 1] = upto[m - 1][q]
            BY <5>1, ConsParts
          <5>3. Len(Cons(book[m], upto[m - 1])) = Len(upto[m - 1]) + 1 /\ Cons(book[m], upto[m - 1])[1] = book[m]
            BY <5>1, ConsParts
          <5> QED
            BY <4>1, <5>2, <5>3
        <4>3. CASE p = m
          BY <4>2, <4>3, <2>1, <2>3
        <4>4. CASE p # m
          <5>1. PICK q \in 1..Len(upto[m - 1]) : upto[m - 1][q] = book[p]
            BY <2>1, <2>4, <4>4, <1>1 DEF Own
          <5> QED
            BY <5>1, <4>2, <2>1, <2>3
        <4> QED
          BY <4>3, <4>4
      <3>2. CASE ~(book[m].owner = i /\ ~Pending(book[m].type))
        <4>1. upto[m] = upto[m - 1]
          BY <2>2, <3>2 DEF After
        <4>2. p <= m - 1
          BY <3>2, <2>4, <1>1 DEF Own
        <4> QED
          BY <4>1, <4>2, <2>1, <2>4
      <3> QED
        BY <3>1, <3>2
    <2>5. Lists(m)
      BY <2>3, <2>4
    <2> QED
      BY <2>5
  <1>9. N \in Good
    <2> HIDE DEF Good
    <2>1. \A m \in 0..N : m \in Good
      <3> HIDE DEF N
      <3> QED
        BY <1>1, <1>7, <1>8, InductionTo
    <2> QED
      BY <2>1, <1>1
  <1>10. Lists(N)
    BY <1>9
  <1>11. \A p \in Own(book, i) : p <= N
    BY DEF Own
  <1> QED
    BY <1>3, <1>10, <1>11

-----------------------------------------------------------------------------
(* What the strategies fill. *)

\* An update of each order of a side, one close signal for each picked order.
LEMMA ModifyAllType ==
    ASSUME NEW max \in Nat, NEW results \in ResultArrays(max), NEW orders \in Seq(Orders), NEW side \in Sides,
           NEW stops \in Stops
    PROVE  modifyAll(results, orders, side, stops) \in ResultArrays(max)
  <1>1. \A m \in 1..Len(orders) : orders[m].ticket \in Int
    <2>1. ASSUME NEW m \in 1..Len(orders) PROVE orders[m].ticket \in Int
      <3>1. orders[m] \in Orders
        OBVIOUS
      <3> QED
        BY <3>1, LiveAssumption DEF Orders
    <2> QED
      BY <2>1
  <1>2. \A x \in ResultArrays(max) : \A m \in 1..Len(orders) :
            modifyTradeEasy(x, side, orders[m].ticket, stops) \in ResultArrays(max)
    BY <1>1, modifyTradeEasyType
  <1> QED
    BY <1>2, modifyAllStays

LEMMA CloseEachType ==
    ASSUME NEW max \in Nat, NEW results \in ResultArrays(max), NEW orders \in Seq(Orders), NEW picked
    PROVE  closeEach(results, orders, picked) \in ResultArrays(max)
  <1>1. \A m \in 1..Len(orders) : orders[m].ticket \in Int /\ orders[m].type \in OrderTypes
    <2>1. ASSUME NEW m \in 1..Len(orders) PROVE orders[m].ticket \in Int /\ orders[m].type \in OrderTypes
      <3>1. orders[m] \in Orders
        OBVIOUS
      <3> QED
        BY <3>1, LiveAssumption DEF Orders
    <2> QED
      BY <2>1
  <1>2. \A x \in ResultArrays(max) : \A m \in 1..Len(orders) :
            closeEasy(x, orders[m].type, orders[m].ticket) \in ResultArrays(max)
    BY <1>1, closeEasyType
  <1> QED
    BY <1>2, closeEachStays

LEMMA OpenOrUpdateType ==
    ASSUME NEW max \in Nat \ {0}, NEW results \in ResultArrays(max), NEW orders, NEW side \in Sides,
           NEW stops \in Stops
    PROVE  openOrUpdateTrade(results, 1, side, orders, stops) \in ResultArrays(max)
  <1> DEFINE entry == IF Held(orders, side) = {} THEN <<"OPEN", side>> ELSE <<"UPDATE", side>>
             result == [results[1] EXCEPT !.stops = stops,
                                          !.signals = (@ \cup {<<"CLOSE", Other(side)>>, entry}) \ {<<"CLOSE", side>>}]
  <1>1. results[1] \in Results
    BY DEF ResultArrays
  <1>2. entry \in Signals /\ <<"CLOSE", Other(side)>> \in Signals
    BY DEF Signals, Sides, Other, OrderTypes, LongTypes, ShortTypes
  <1> HIDE DEF entry
  <1>3. result \in Results
    BY <1>1, <1>2 DEF Results
  <1>4. openOrUpdateTrade(results, 1, side, orders, stops) = [results EXCEPT ![1] = result]
    BY DEF openOrUpdateTrade, entry, ResultArrays, Results
  <1> HIDE DEF result
  <1> QED
    BY <1>3, <1>4 DEF ResultArrays

LEMMA TimedExitType ==
    ASSUME NEW max \in Nat \ {0}, NEW results \in ResultArrays(max), NEW orders \in Seq(Orders)
    PROVE  checkTimedExit(results, 1, orders) \in ResultArrays(max)
  <1> DEFINE exits == {<<"CLOSE", orders[m].type>> : m \in DOMAIN orders}
             result == [results[1] EXCEPT !.signals = @ \cup exits]
  <1>1. results[1] \in Results
    BY DEF ResultArrays
  <1>2. exits \subseteq Signals
    <2>1. ASSUME NEW m \in DOMAIN orders PROVE <<"CLOSE", orders[m].type>> \in Signals
      <3>1. orders[m] \in Orders
        OBVIOUS
      <3> QED
        BY <3>1 DEF Orders, Signals
    <2> QED
      BY <2>1
  <1>3. checkTimedExit(results, 1, orders) = [results EXCEPT ![1] = result]
    BY DEF checkTimedExit, ResultArrays, Results
  <1> HIDE DEF exits
  <1>4. result \in Results
    BY <1>1, <1>2 DEF Results
  <1> HIDE DEF result
  <1> QED
    BY <1>3, <1>4 DEF ResultArrays

LEMMA KantuType ==
    ASSUME NEW max \in Nat \ {0}, NEW results \in ResultArrays(max), NEW p \in KantuPlans,
           NEW orders \in Seq(Orders), NEW allowed \in BOOLEAN
    PROVE  runKantu(results, p, orders, allowed) \in ResultArrays(max)
  <1> DEFINE repaired == IF Naked(orders) THEN setStops(results, 1, "own") ELSE results
  <1>1. repaired \in ResultArrays(max)
    BY setStopsType DEF Stops
  <1>2. "own" \in Stops /\ \A side \in Sides : KantuStops(side, orders) \in Stops
    BY DEF Stops, KantuStops
  <1> HIDE DEF repaired
  <1>3. \A side \in Sides :
            openOrUpdateTrade(repaired, 1, side, orders, KantuStops(side, orders)) \in ResultArrays(max)
    BY <1>1, <1>2, OpenOrUpdateType
  <1>4. modifyAll(repaired, orders, "SELL", "own") \in ResultArrays(max)
    BY <1>1, <1>2, ModifyAllType DEF Sides
  <1>5. modifyAll(modifyAll(repaired, orders, "SELL", "own"), orders, "BUY", "own") \in ResultArrays(max)
    BY <1>4, <1>2, ModifyAllType DEF Sides
  <1>6. checkTimedExit(repaired, 1, orders) \in ResultArrays(max)
    BY <1>1, TimedExitType
  <1> QED
    BY <1>1, <1>3, <1>5, <1>6 DEF runKantu, repaired, KantuPlans, Sides

LEMMA GridType ==
    ASSUME NEW max \in Nat \ {0}, NEW results \in ResultArrays(max), NEW orders \in Seq(Orders), NEW aged,
           NEW lower \in BOOLEAN
    PROVE  runEURCHF_grid(results, orders, aged, lower) \in ResultArrays(max)
  <1> DEFINE closed == closeEach(results, orders, aged)
             repaired == IF Naked(orders) THEN setStops(closed, 1, "own") ELSE closed
  <1>1. closed \in ResultArrays(max)
    BY CloseEachType
  <1>2. repaired \in ResultArrays(max)
    <2> HIDE DEF closed
    <2> QED
      BY <1>1, setStopsType DEF Stops
  <1>3. openSingle(repaired, "BUY", "own") \in ResultArrays(max)
    <2> HIDE DEF repaired
    <2> QED
      BY <1>2, openSingleType DEF Stops, OrderTypes, LongTypes
  <1> QED
    BY <1>2, <1>3 DEF runEURCHF_grid

LEMMA TrendType ==
    ASSUME NEW max \in Nat \ {0}, NEW results \in ResultArrays(max), NEW orders \in Seq(Orders), NEW side \in Sides,
           NEW entries \in 0..2
    PROVE  runTrendLimit(results, orders, side, entries) \in ResultArrays(max)
  <1> DEFINE trailed == modifyAll(results, orders, side, "own")
             once == openSingle(trailed, LimitOf(side), "own")
             twice == openSingle(once, LimitOf(side), "own")
  <1>1. trailed \in ResultArrays(max)
    BY ModifyAllType DEF Stops
  <1>2. LimitOf(side) \in OrderTypes /\ "own" \in Stops
    BY DEF LimitOf, OrderTypes, LongTypes, ShortTypes, Stops
  <1>3. once \in ResultArrays(max)
    <2> HIDE DEF trailed
    <2> QED
      BY <1>1, <1>2, openSingleType
  <1>4. twice \in ResultArrays(max)
    <2> HIDE DEF once
    <2> QED
      BY <1>2, <1>3, openSingleType
  <1>5. runTrendLimit(results, orders, side, entries) \in {results, once, twice}
    BY DEF runTrendLimit
  <1> HIDE DEF once, twice
  <1> QED
    BY <1>3, <1>4, <1>5

LEMMA FilledType ==
    ASSUME NEW i \in Instances, shown[i] \in Seq(Orders), plan[i] \in AllPlans, NEW allowed \in BOOLEAN
    PROVE  Filled(i, allowed) \subseteq ResultArrays(MaxOpenOrders[i])
  <1> DEFINE clear == clearStrategyResults(MaxOpenOrders[i])
  <1>1. MaxOpenOrders[i] \in Nat \ {0}
    BY LiveAssumption
  <1>2. clear \in ResultArrays(MaxOpenOrders[i])
    BY <1>1, ClearTypes
  <1> HIDE DEF clear
  <1>3. CASE plan[i] \in KantuPlans
    <2>1. runKantu(clear, plan[i], shown[i], allowed) \in ResultArrays(MaxOpenOrders[i])
      BY <1>1, <1>2, <1>3, KantuType
    <2> QED
      BY <1>3, <2>1 DEF Filled, clear, KantuPlans
  <1>4. CASE plan[i] = "grid"
    <2>1. \A aged, lower : lower \in BOOLEAN =>
              runEURCHF_grid(clear, shown[i], aged, lower) \in ResultArrays(MaxOpenOrders[i])
      BY <1>1, <1>2, GridType
    <2>2. Filled(i, allowed) = {runEURCHF_grid(clear, shown[i], aged, lower) :
                aged \in SUBSET Tickets(shown[i]), lower \in BOOLEAN}
      BY <1>4 DEF Filled, clear, KantuPlans
    <2> QED
      BY <2>1, <2>2
  <1>5. CASE plan[i] = "uptrend"
    <2>1. \A entries \in 0..2 : runTrendLimit(clear, shown[i], "BUY", entries) \in ResultArrays(MaxOpenOrders[i])
      BY <1>1, <1>2, TrendType DEF Sides
    <2> QED
      BY <1>5, <2>1 DEF Filled, clear, KantuPlans
  <1>6. CASE plan[i] = "downtrend"
    <2>1. \A entries \in 0..2 : runTrendLimit(clear, shown[i], "SELL", entries) \in ResultArrays(MaxOpenOrders[i])
      BY <1>1, <1>2, TrendType DEF Sides
    <2> QED
      BY <1>6, <2>1 DEF Filled, clear, KantuPlans
  <1> QED
    BY <1>3, <1>4, <1>5, <1>6 DEF AllPlans

-----------------------------------------------------------------------------
(* The types of the variables. *)

WorldTypes ==
    /\ book \in Seq(Orders) /\ lastTicket \in 0..MaxTickets /\ Len(book) <= lastTicket
    /\ mutex \in Instances \cup {Absent, Free}
    /\ failures \in 0..MaxFailures /\ kills \in 0..MaxKills /\ clobbered \in BOOLEAN

BarTypes ==
    /\ DOMAIN plan = Instances /\ DOMAIN bar = Instances
    /\ \A i \in Instances : plan[i] \in Plans[i] /\ bar[i] \in 1..MaxBars[i]
    /\ ran \in [Instances -> BOOLEAN] /\ failFile \in [Instances -> BOOLEAN]
    /\ gaveUp \in [Instances -> BOOLEAN]

WalkTypes ==
    /\ shown \in [Instances -> Seq(Orders)]
    /\ k \in [Instances -> 0..MaxTickets]
    /\ sel \in [Instances -> Orders \cup {NoOrder}]
    /\ sent \in [Instances -> {NoTicket} \cup 0..MaxTickets]
    /\ due \in [Instances -> SUBSET (1..MaxTickets)]

ResultTypes ==
    /\ DOMAIN res = Instances /\ DOMAIN n = Instances /\ DOMAIN rix = Instances
    /\ \A i \in Instances :
          /\ res[i] \in ResultArrays(MaxOpenOrders[i])
          /\ n[i] \in 0..MaxOpenOrders[i] /\ rix[i] \in 1..MaxOpenOrders[i]

\* Whoever is about to send an order has a result that opens one; between the calls of the broker
\* nothing is selected, and a ticket is remembered only until the mutex is given back.
Calling == {"check", "create", "lock", "broker"}
Opens(result) == \E type \in OrderTypes : <<"OPEN", type>> \in result.signals
ToSend ==
    \A i \in Instances :
        /\ pc[i] \in Calling /\ sel[i] = NoOrder => n[i] # 0 /\ Opens(res[i][n[i]])
        /\ pc[i] \in {"idle", "library", "next", "dead"} => sel[i] = NoOrder
        /\ pc[i] # "unlock" => sent[i] = 0
        /\ pc[i] = "unlock" /\ sel[i] # NoOrder => sent[i] = 0
        /\ pc[i] = "unlock" /\ sent[i] # 0 => n[i] # 0

Types == pc \in [Instances -> States] /\ WorldTypes /\ BarTypes /\ WalkTypes /\ ResultTypes /\ ToSend

LEMMA InitTypes == Init => Types
  <1> SUFFICES ASSUME Init PROVE Types
    OBVIOUS
  <1>1. WorldTypes
    <2>1. book = <<>> /\ lastTicket = 0 /\ mutex \in {Absent, Free} /\ failures = 0 /\ kills = 0 /\ clobbered = FALSE
      BY DEF Init
    <2>2. book \in Seq(Orders) /\ Len(book) = 0
      BY <2>1
    <2>3. MaxTickets \in Nat /\ MaxFailures \in Nat /\ MaxKills \in Nat
      BY LiveAssumption
    <2>4. mutex \in Instances \cup {Absent, Free} /\ Len(book) <= lastTicket
      BY <2>1, <2>2
    <2>5. lastTicket \in 0..MaxTickets /\ failures \in 0..MaxFailures /\ kills \in 0..MaxKills
      BY <2>1, <2>3
    <2>6. clobbered \in BOOLEAN
      BY <2>1
    <2> QED
      BY <2>2, <2>4, <2>5, <2>6 DEF WorldTypes
  <1>2. BarTypes
    BY LiveAssumption DEF Init, BarTypes
  <1>3. WalkTypes
    BY LiveAssumption DEF Init, WalkTypes
  <1>4. ResultTypes
    <2>1. \A i \in Instances : NoResults(MaxOpenOrders[i]) \in ResultArrays(MaxOpenOrders[i])
      BY LiveAssumption, ClearTypes
    <2> QED
      BY <2>1, LiveAssumption DEF Init, ResultTypes
  <1>5. ToSend /\ pc \in [Instances -> States]
    BY DEF Init, ToSend, Calling, States
  <1> QED
    BY <1>1, <1>2, <1>3, <1>4, <1>5 DEF Types

LEMMA WorldKept == WorldTypes /\ UNCHANGED <<book, lastTicket, mutex, failures, kills, clobbered>> => WorldTypes'
  BY DEF WorldTypes

LEMMA BarKept == BarTypes /\ UNCHANGED barState => BarTypes'
  BY DEF BarTypes, barState

LEMMA WalkKept == WalkTypes /\ UNCHANGED <<shown, k, sel, sent, due>> => WalkTypes'
  BY DEF WalkTypes

LEMMA ResultKept == ResultTypes /\ UNCHANGED <<res, n, rix>> => ResultTypes'
  BY DEF ResultTypes

\* The orders of an instance and what the results ask of them.
LEMMA StartWalkTypes ==
    ASSUME Types, NEW i \in Instances, NEW results, StartWalk(i, results)
    PROVE  /\ k' \in [Instances -> 0..MaxTickets] /\ due' \in [Instances -> SUBSET (1..MaxTickets)]
           /\ rix' = [rix EXCEPT ![i] = 1]
           /\ \A t \in due'[i] : \E p \in Own(book, i) : book[p].ticket = t
           /\ k' = [k EXCEPT ![i] = Len(book)] /\ \A j \in Instances \ {i} : due'[j] = due[j]
  <1> DEFINE asked == {o.ticket : o \in {book[p] : p \in {q \in DOMAIN book :
                LET o == book[q] IN
                /\ o.owner = i /\ Matching(results, o) # {}
                /\ Handling(o, results[Min(Matching(results, o))]) # "nothing"}}}
  <1>1. \A t \in asked : \E p \in Own(book, i) : book[p].ticket = t
    BY DEF Own
  <1>2. asked \subseteq 1..MaxTickets
    <2>1. ASSUME NEW p \in DOMAIN book PROVE book[p].ticket \in 1..MaxTickets
      <3>1. book[p] \in Orders
        BY DEF Types, WorldTypes
      <3> QED
        BY <3>1 DEF Orders
    <2> QED
      BY <2>1
  <1>3. due' = [due EXCEPT ![i] = asked]
    BY DEF StartWalk
  <1>4. k' = [k EXCEPT ![i] = Len(book)] /\ rix' = [rix EXCEPT ![i] = 1]
    BY DEF StartWalk
  <1> HIDE DEF asked
  <1>5. Len(book) \in 0..MaxTickets
    BY LiveAssumption DEF Types, WorldTypes
  <1> QED
    BY <1>1, <1>2, <1>3, <1>4, <1>5 DEF Types, WalkTypes

LEMMA NewBarTypes == ASSUME Types, NEW i \in Instances, NewBar(i) PROVE Types'
  <1>1. BarTypes'
    <2>1. PICK p \in Plans[i] : plan' = [plan EXCEPT ![i] = p]
      BY DEF NewBar
    <2>2. /\ bar[i] < MaxBars[i] /\ bar' = [bar EXCEPT ![i] = @ + 1] /\ ran' = [ran EXCEPT ![i] = FALSE]
          /\ gaveUp' = [gaveUp EXCEPT ![i] = FALSE] /\ failFile' = failFile
      BY DEF NewBar
    <2>3. BarTypes /\ \A j \in Instances : MaxBars[j] \in Nat
      BY LiveAssumption DEF Types
    <2> QED
      BY <2>1, <2>2, <2>3 DEF BarTypes
  <1>2. ToSend' /\ pc' \in [Instances -> States]
    BY DEF NewBar, Types, ToSend, locals
  <1> QED
    BY <1>1, <1>2, WorldKept, WalkKept, ResultKept DEF NewBar, Types, locals

LEMMA SnapshotTypes == ASSUME Types, NEW i \in Instances, Snapshot(i) PROVE Types'
  <1>1. c_getOrderInfo(i) \in Seq(Orders)
    BY ShownOrders DEF Types, WorldTypes
  <1>2. WalkTypes'
    BY <1>1 DEF Snapshot, Types, WalkTypes
  <1>3. ToSend' /\ pc' \in [Instances -> States]
    BY DEF Snapshot, Types, ToSend, Calling, States
  <1> QED
    BY <1>2, <1>3, WorldKept, BarKept, ResultKept DEF Snapshot, Types

\* What runStrategy leaves in the results array is an array of results.
LEMMA RunStrategyResults ==
    ASSUME Types, NEW i \in Instances, RunStrategy(i)
    PROVE  /\ DOMAIN res' = Instances /\ res'[i] \in ResultArrays(MaxOpenOrders[i])
           /\ \A j \in Instances \ {i} : res'[j] = res[j]
           /\ gaveUp' \in [Instances -> BOOLEAN]
  <1> DEFINE run == ~(~Naked(shown[i]) /\ ~failFile[i]) \/ ~ran[i]
             Arrays(allowed) == IF run THEN Filled(i, allowed) ELSE {res[i], NoResults(MaxOpenOrders[i])}
  <1>1. PICK allowed \in BOOLEAN :
            /\ res' \in {[res EXCEPT ![i] = filled] : filled \in Arrays(allowed)}
            /\ gaveUp' = [gaveUp EXCEPT ![i] = @ \/ ~allowed]
    BY DEF RunStrategy
  <1>2. Filled(i, allowed) \subseteq ResultArrays(MaxOpenOrders[i])
    <2>1. shown[i] \in Seq(Orders) /\ plan[i] \in AllPlans
      BY LiveAssumption DEF Types, WalkTypes, BarTypes
    <2> QED
      BY <2>1, FilledType
  <1>3. NoResults(MaxOpenOrders[i]) \in ResultArrays(MaxOpenOrders[i])
    BY LiveAssumption, ClearTypes
  <1>4. Arrays(allowed) \subseteq ResultArrays(MaxOpenOrders[i])
    BY <1>2, <1>3 DEF Types, ResultTypes
  <1> HIDE DEF Arrays
  <1>5. DOMAIN res = Instances /\ gaveUp \in [Instances -> BOOLEAN]
    BY DEF Types, ResultTypes, BarTypes
  <1> QED
    BY <1>1, <1>4, <1>5

LEMMA RunStrategyTypes == ASSUME Types, NEW i \in Instances, RunStrategy(i) PROVE Types'
  <1>1. StartWalk(i, res'[i])
    BY DEF RunStrategy
  <1>2. WalkTypes'
    BY <1>1, StartWalkTypes DEF RunStrategy, Types, WalkTypes
  <1>3. ResultTypes'
    <2>1. n' = [n EXCEPT ![i] = 0] /\ rix' = [rix EXCEPT ![i] = 1]
      BY <1>1 DEF RunStrategy, StartWalk
    <2>2. MaxOpenOrders[i] \in Nat \ {0} /\ ResultTypes
      BY LiveAssumption DEF Types
    <2>3. /\ DOMAIN res' = Instances /\ res'[i] \in ResultArrays(MaxOpenOrders[i])
          /\ \A j \in Instances \ {i} : res'[j] = res[j]
      BY RunStrategyResults
    <2> QED
      BY <2>1, <2>2, <2>3 DEF ResultTypes
  <1>4. BarTypes'
    <2>1. ran' \in [Instances -> BOOLEAN] /\ failFile' \in [Instances -> BOOLEAN]
      BY DEF RunStrategy, Types, BarTypes, Naked
    <2> QED
      BY <2>1, RunStrategyResults DEF RunStrategy, Types, BarTypes
  <1>5. pc' \in [Instances -> States]
    BY DEF RunStrategy, Types, States
  <1>6. ToSend'
    <2>1. /\ pc[i] = "library" /\ pc' = [pc EXCEPT ![i] = "next"] /\ sel' = sel /\ sent' = sent
          /\ n' = [n EXCEPT ![i] = 0]
      BY DEF RunStrategy
    <2> QED
      BY <2>1, RunStrategyResults DEF Types, ToSend, Calling, ResultTypes
  <1> QED
    BY <1>2, <1>3, <1>4, <1>5, <1>6, WorldKept DEF RunStrategy, Types

\* A step that only moves on keeps the types, where the instance has something to send if it goes
\* to the broker, and has nothing selected if it goes back to its walk.
LEMMA MoveTypes ==
    ASSUME Types, NEW i \in Instances, NEW place \in {"create", "lock", "broker"}, pc[i] \in Calling,
           pc' = [pc EXCEPT ![i] = place], UNCHANGED <<locals, due>>
    PROVE  ToSend' /\ pc' \in [Instances -> States] /\ WalkTypes' /\ ResultTypes'
  <1>1. ToSend' /\ pc' \in [Instances -> States]
    BY DEF Types, ToSend, Calling, States, locals
  <1> QED
    BY <1>1, WalkKept, ResultKept DEF Types, locals

LEMMA SelectTypes == ASSUME Types, NEW i \in Instances, Select(i) PROVE Types'
  <1>1. CASE k[i] <= Len(book) /\ book[k[i]].owner = i
    <2>1. k[i] \in 1..Len(book) /\ book[k[i]] \in Orders
      BY <1>1, LiveAssumption DEF Select, Types, WorldTypes, WalkTypes
    <2>2. /\ sel' = [sel EXCEPT ![i] = book[k[i]]] /\ pc' = [pc EXCEPT ![i] = "check"]
          /\ k' = [k EXCEPT ![i] = @ - 1] /\ pc[i] = "next"
          /\ UNCHANGED <<shown, res, n, sent, due>>
      BY <1>1 DEF Select
    <2>3. WalkTypes'
      BY <2>1, <2>2, LiveAssumption DEF Types, WalkTypes
    <2>4. DOMAIN rix' = Instances /\ rix'[i] \in 1..MaxOpenOrders[i] /\ \A j \in Instances \ {i} : rix'[j] = rix[j]
      <3> DEFINE matching == Matching(res[i], book[k[i]])
      <3>1. rix' = [rix EXCEPT ![i] = IF matching = {} THEN @ ELSE Min(matching)]
        BY <1>1 DEF Select
      <3>2. matching \in SUBSET (1..MaxOpenOrders[i])
        BY DEF Matching, Types, ResultTypes, ResultArrays
      <3>3. MaxOpenOrders[i] \in Nat
        BY LiveAssumption
      <3> HIDE DEF matching
      <3>4. matching # {} => Min(matching) \in matching
        BY <3>2, <3>3, MinIsMember
      <3> QED
        BY <3>1, <3>2, <3>4 DEF Types, ResultTypes
    <2>5. ResultTypes'
      BY <2>2, <2>4 DEF Types, ResultTypes
    <2>6. book[k[i]] # NoOrder
      BY <2>1 DEF Orders, NoOrder
    <2>7. ToSend' /\ pc' \in [Instances -> States]
      BY <2>2, <2>6 DEF Types, ToSend, Calling, States, WalkTypes
    <2> QED
      BY <2>3, <2>5, <2>7, WorldKept, BarKept DEF Select, Types
  <1>2. CASE ~(k[i] <= Len(book) /\ book[k[i]].owner = i)
    <2>1. UNCHANGED <<sel, rix, pc, shown, res, n, sent, due>> /\ k' = [k EXCEPT ![i] = @ - 1] /\ k[i] > 0
      BY <1>2 DEF Select
    <2>2. WalkTypes'
      BY <2>1, LiveAssumption DEF Types, WalkTypes
    <2>3. ToSend'
      BY <2>1 DEF Types, ToSend
    <2> QED
      BY <2>1, <2>2, <2>3, WorldKept, BarKept, ResultKept DEF Select, Types
  <1> QED
    BY <1>1, <1>2

\* The result c_processOrders goes on with is one it has not reached yet.
LEMMA NextIsAhead ==
    ASSUME Types, NEW i \in Instances, ToOpen(i) # {}
    PROVE  Min(ToOpen(i)) \in ToOpen(i) /\ Min(ToOpen(i)) \in (n[i] + 1)..MaxOpenOrders[i]
  <1>1. n[i] \in Nat /\ MaxOpenOrders[i] \in Nat
    BY LiveAssumption DEF Types, ResultTypes
  <1>2. ToOpen(i) \in SUBSET Nat
    BY <1>1 DEF ToOpen
  <1>3. Min(ToOpen(i)) \in ToOpen(i)
    BY <1>2, MinIsMember
  <1> QED
    BY <1>3 DEF ToOpen

LEMMA NextResultTypes == ASSUME Types, NEW i \in Instances, NextResult(i) PROVE Types'
  <1>1. /\ n' = [n EXCEPT ![i] = Min(ToOpen(i))] /\ pc' = [pc EXCEPT ![i] = "check"] /\ pc[i] = "next"
        /\ UNCHANGED <<shown, res, k, sel, rix, sent, due>>
    BY DEF NextResult
  <1>2. Min(ToOpen(i)) \in ToOpen(i) /\ Min(ToOpen(i)) \in (n[i] + 1)..MaxOpenOrders[i] /\ n[i] \in Nat
    BY NextIsAhead, LiveAssumption DEF NextResult, Types, ResultTypes
  <1>3. ResultTypes'
    <2>1. MaxOpenOrders[i] \in Nat
      BY LiveAssumption
    <2> QED
      BY <1>1, <1>2, <2>1 DEF Types, ResultTypes
  <1>4. Opens(res[i][Min(ToOpen(i))])
    BY <1>2 DEF ToOpen, Opens
  <1>5. ToSend' /\ pc' \in [Instances -> States]
    BY <1>1, <1>2, <1>4 DEF Types, ToSend, Calling, States, ResultTypes
  <1> QED
    BY <1>1, <1>3, <1>5, WorldKept, BarKept, WalkKept DEF NextResult, Types

LEMMA FinishTypes == ASSUME Types, NEW i \in Instances, Finish(i) PROVE Types'
  <1>1. /\ pc[i] = "next" /\ pc' = [pc EXCEPT ![i] = "idle"]
        /\ res' = [res EXCEPT ![i] = [r \in DOMAIN @ |-> [@[r] EXCEPT !.stops = "none"]]]
        /\ n' = [n EXCEPT ![i] = 0] /\ rix' = [rix EXCEPT ![i] = 1]
        /\ UNCHANGED <<shown, k, sel, sent, due>>
    BY DEF Finish
  <1>2. [r \in DOMAIN res[i] |-> [res[i][r] EXCEPT !.stops = "none"]] \in ResultArrays(MaxOpenOrders[i])
    <2>1. \A x \in Results : [x EXCEPT !.stops = "none"] \in Results
      BY DEF Results, Stops
    <2> QED
      BY <2>1 DEF ResultArrays, Types, ResultTypes
  <1>3. ResultTypes'
    <2> DEFINE left == [r \in DOMAIN res[i] |-> [res[i][r] EXCEPT !.stops = "none"]]
    <2>1. res' = [res EXCEPT ![i] = left]
      BY <1>1
    <2> HIDE DEF left
    <2>2. left \in ResultArrays(MaxOpenOrders[i])
      BY <1>2 DEF left
    <2>3. MaxOpenOrders[i] \in Nat \ {0}
      BY LiveAssumption
    <2> QED
      BY <1>1, <2>1, <2>2, <2>3 DEF Types, ResultTypes
  <1>4. ToSend' /\ pc' \in [Instances -> States]
    BY <1>1 DEF Types, ToSend, Calling, States, ResultTypes
  <1> QED
    BY <1>1, <1>3, <1>4, WorldKept, BarKept, WalkKept DEF Finish, Types

LEMMA CheckMutexTypes == ASSUME Types, NEW i \in Instances, CheckMutex(i) PROVE Types'
  <1>1. /\ pc[i] \in Calling /\ UNCHANGED <<locals, due>>
        /\ \E place \in {"create", "lock", "broker"} : pc' = [pc EXCEPT ![i] = place]
    BY DEF CheckMutex, Calling
  <1> QED
    BY <1>1, MoveTypes, WorldKept, BarKept DEF CheckMutex, Types, locals

LEMMA CreateMutexTypes == ASSUME Types, NEW i \in Instances, CreateMutex(i) PROVE Types'
  <1>1. pc[i] \in Calling /\ pc' = [pc EXCEPT ![i] = "lock"] /\ UNCHANGED <<locals, due>>
    BY DEF CreateMutex, Calling
  <1>2. WorldTypes'
    BY DEF CreateMutex, Types, WorldTypes
  <1> QED
    BY <1>1, <1>2, MoveTypes, BarKept DEF CreateMutex, Types, locals

LEMMA LockTypes == ASSUME Types, NEW i \in Instances, Lock(i) PROVE Types'
  <1>1. pc[i] \in Calling /\ pc' = [pc EXCEPT ![i] = "broker"] /\ UNCHANGED <<locals, due>>
    BY DEF Lock, Calling
  <1>2. WorldTypes'
    BY DEF Lock, Types, WorldTypes
  <1> QED
    BY <1>1, <1>2, MoveTypes, BarKept DEF Lock, Types, locals

LEMMA LockFailsTypes == ASSUME Types, NEW i \in Instances, LockFails(i) PROVE Types'
  <1>1. /\ pc[i] = "lock" /\ pc' = [pc EXCEPT ![i] = "next"] /\ sel' = [sel EXCEPT ![i] = NoOrder]
        /\ due' = [due EXCEPT ![i] = @ \ {sel[i].ticket}] /\ UNCHANGED <<shown, res, k, n, rix, sent>>
    BY DEF LockFails
  <1>2. WalkTypes'
    BY <1>1 DEF Types, WalkTypes
  <1>3. BarTypes'
    BY DEF LockFails, Types, BarTypes
  <1>4. ToSend' /\ pc' \in [Instances -> States]
    BY <1>1 DEF Types, ToSend, Calling, States, WalkTypes
  <1> QED
    BY <1>1, <1>2, <1>3, <1>4, WorldKept, ResultKept DEF LockFails, Types

\* The place of a ticket in the book.
LEMMA PositionIs ==
    ASSUME NEW orders, NEW ticket \in Tickets(orders)
    PROVE  Position(orders, ticket) \in DOMAIN orders /\ orders[Position(orders, ticket)].ticket = ticket
  BY DEF Position, Tickets

LEMMA ModifiedParts ==
    ASSUME NEW orders \in Seq(Orders), NEW ticket, NEW stops \in Stops
    PROVE  /\ Modified(orders, ticket, stops) \in Seq(Orders)
           /\ Len(Modified(orders, ticket, stops)) = Len(orders)
           /\ \A p \in 1..Len(orders) :
                /\ Modified(orders, ticket, stops)[p].ticket = orders[p].ticket
                /\ Modified(orders, ticket, stops)[p].owner = orders[p].owner
                /\ Modified(orders, ticket, stops)[p].type = orders[p].type
  <1> DEFINE changed == Modified(orders, ticket, stops)
  <1>1. changed = [p \in 1..Len(orders) |->
            IF orders[p].ticket = ticket THEN [orders[p] EXCEPT !.stops = stops] ELSE orders[p]]
    BY DEF Modified
  <1>2. \A o \in Orders : /\ [o EXCEPT !.stops = stops] \in Orders
                          /\ [o EXCEPT !.stops = stops].ticket = o.ticket
                          /\ [o EXCEPT !.stops = stops].owner = o.owner
                          /\ [o EXCEPT !.stops = stops].type = o.type
    BY DEF Orders
  <1>3. Len(orders) \in Nat /\ \A p \in 1..Len(orders) : orders[p] \in Orders
    OBVIOUS
  <1> HIDE DEF changed
  <1>4. \A p \in 1..Len(orders) : changed[p] \in Orders
    BY <1>1, <1>2, <1>3
  <1>5. changed \in Seq(Orders) /\ Len(changed) = Len(orders)
    BY <1>1, <1>3, <1>4
  <1>6. \A p \in 1..Len(orders) : /\ changed[p].ticket = orders[p].ticket
                                  /\ changed[p].owner = orders[p].owner
                                  /\ changed[p].type = orders[p].type
    BY <1>1, <1>2, <1>3
  <1> QED
    BY <1>5, <1>6 DEF changed

\* What the call of HandleOrder makes of the book.
LEMMA HandleOrderBook ==
    ASSUME Types, NEW i \in Instances, HandleOrder(i)
    PROVE  /\ \/ book' = book
              \/ \E p \in 1..Len(book) : book[p].ticket = sel[i].ticket /\ book' = RemoveAt(book, p)
              \/ \E stops \in Stops : book' = Modified(book, sel[i].ticket, stops)
           /\ failures' \in 0..MaxFailures
           /\ failFile' \in [Instances -> BOOLEAN]
           /\ failFile[i] => failFile'[i]
           /\ \A j \in Instances \ {i} : failFile'[j] = failFile[j]
  <1> DEFINE o == sel[i]
             result == res[i][rix[i]]
             what == Handling(o, result)
             possible == o.ticket \in Tickets(book)
                         /\ (what = "close" => \E p \in DOMAIN book : book[p].ticket = o.ticket /\ book[p].type = o.type)
  <1>1. result.stops \in Stops
    BY LiveAssumption DEF Types, ResultTypes, ResultArrays, Results
  <1>2. failures \in 0..MaxFailures /\ MaxFailures \in Nat /\ failFile \in [Instances -> BOOLEAN]
    BY LiveAssumption DEF Types, WorldTypes, BarTypes
  <1>3. CASE what = "nothing"
    <2>1. UNCHANGED <<book, failFile, failures>>
      BY <1>3 DEF HandleOrder
    <2> QED
      BY <1>2, <2>1
  <1>4. CASE what # "nothing"
    <2>1. PICK outcome \in Outcomes(possible) :
                /\ book' = IF outcome = "refused" THEN book
                           ELSE IF what = "close" THEN RemoveAt(book, Position(book, o.ticket))
                           ELSE Modified(book, o.ticket, result.stops)
                /\ failFile' = [failFile EXCEPT ![i] = @ \/ outcome # "done"]
                /\ failures' = IF possible /\ outcome # "done" THEN failures + 1 ELSE failures
      BY <1>4 DEF HandleOrder
    <2>2. outcome # "refused" => possible
      BY DEF Outcomes
    <2>3. possible /\ outcome # "done" => failures < MaxFailures
      BY DEF Outcomes
    <2>4. possible => o.ticket \in Tickets(book)
      OBVIOUS
    <2> HIDE DEF possible, what, result, o
    <2>5. failures' \in 0..MaxFailures
      BY <1>2, <2>1, <2>3
    <2>6. possible => Position(book, o.ticket) \in 1..Len(book) /\ book[Position(book, o.ticket)].ticket = o.ticket
      BY <2>4, PositionIs DEF Types, WorldTypes
    <2>7. \/ book' = book
          \/ \E p \in 1..Len(book) : book[p].ticket = o.ticket /\ book' = RemoveAt(book, p)
          \/ \E stops \in Stops : book' = Modified(book, o.ticket, stops)
      BY <1>1, <2>1, <2>2, <2>6
    <2>8. /\ failFile' \in [Instances -> BOOLEAN] /\ (failFile[i] => failFile'[i])
          /\ \A j \in Instances \ {i} : failFile'[j] = failFile[j]
      BY <1>2, <2>1
    <2> QED
      BY <2>5, <2>7, <2>8 DEF o
  <1> QED
    BY <1>3, <1>4

LEMMA HandleOrderTypes == ASSUME Types, NEW i \in Instances, HandleOrder(i) PROVE Types'
  <1>1. book' \in Seq(Orders) /\ Len(book') <= Len(book)
    <2>1. book \in Seq(Orders)
      BY DEF Types, WorldTypes
    <2>2. ASSUME NEW p \in 1..Len(book), book' = RemoveAt(book, p) PROVE book' \in Seq(Orders) /\ Len(book') <= Len(book)
      BY <2>1, <2>2, RemoveAtParts
    <2>3. ASSUME NEW stops \in Stops, book' = Modified(book, sel[i].ticket, stops)
          PROVE  book' \in Seq(Orders) /\ Len(book') <= Len(book)
      BY <2>1, <2>3, ModifiedParts
    <2> QED
      BY <2>1, <2>2, <2>3, HandleOrderBook
  <1>2. WorldTypes'
    <2>1. UNCHANGED <<lastTicket, mutex, kills, clobbered>> /\ failures' \in 0..MaxFailures
      BY HandleOrderBook DEF HandleOrder
    <2>2. Len(book') \in Nat /\ Len(book) \in Nat /\ lastTicket \in Nat
      BY <1>1, LiveAssumption DEF Types, WorldTypes
    <2> QED
      BY <1>1, <2>1, <2>2 DEF Types, WorldTypes
  <1>3. BarTypes'
    BY HandleOrderBook DEF HandleOrder, Types, BarTypes
  <1>4. /\ pc[i] = "broker" /\ pc' = [pc EXCEPT ![i] = "unlock"] /\ UNCHANGED locals
        /\ due' = [due EXCEPT ![i] = @ \ {sel[i].ticket}]
    BY DEF HandleOrder
  <1>5. WalkTypes' /\ ResultTypes'
    BY <1>4 DEF Types, WalkTypes, ResultTypes, locals
  <1>6. ToSend' /\ pc' \in [Instances -> States]
    BY <1>4 DEF Types, ToSend, Calling, States, locals
  <1> QED
    BY <1>2, <1>3, <1>5, <1>6 DEF Types

\* The type of order a result that opens one asks for.
LEMMA OpenType ==
    ASSUME NEW result \in Results, Opens(result)
    PROVE  c_getOpenOrderType(result) \in OrderTypes /\ <<"OPEN", c_getOpenOrderType(result)>> \in result.signals
  <1> DEFINE asked == {t \in DOMAIN Precedence : <<"OPEN", Precedence[t]>> \in result.signals}
  <1>1. DOMAIN Precedence = 1..6 /\ \A type \in OrderTypes : \E t \in 1..6 : Precedence[t] = type
    BY DEF Precedence, OrderTypes, LongTypes, ShortTypes
  <1>2. asked \in SUBSET Nat /\ asked # {}
    BY <1>1 DEF Opens
  <1>3. c_getOpenOrderType(result) = Precedence[Min(asked)]
    BY DEF c_getOpenOrderType
  <1>4. Min(asked) \in asked
    <2> HIDE DEF asked
    <2> QED
      BY <1>2, MinIsMember
  <1>5. \A t \in 1..6 : Precedence[t] \in OrderTypes
    BY DEF Precedence, OrderTypes, LongTypes, ShortTypes
  <1> QED
    BY <1>1, <1>3, <1>4, <1>5

\* What the call of SendOrder makes of the book.
LEMMA SendOrderBook ==
    ASSUME Types, NEW i \in Instances, SendOrder(i)
    PROVE  /\ \/ book' = book /\ lastTicket' = lastTicket
              \/ \E o \in Orders :
                    /\ o.ticket = lastTicket + 1 /\ o.owner = i
                    /\ <<"OPEN", o.type>> \in res[i][n[i]].signals
                    /\ book' = Append(book, o) /\ lastTicket' = lastTicket + 1
                    /\ lastTicket < MaxTickets
           /\ sent' \in [Instances -> {NoTicket} \cup 0..MaxTickets]
           /\ sent'[i] # 0 /\ \A j \in Instances \ {i} : sent'[j] = sent[j]
           /\ failures' \in 0..MaxFailures
  <1> DEFINE type == c_getOpenOrderType(res[i][n[i]])
             possible == lastTicket < MaxTickets
             o == [ticket |-> lastTicket + 1, owner |-> i, type |-> type,
                   stops |-> IF Pending(type) THEN "own" ELSE "none"]
  <1>1. PICK outcome \in Outcomes(possible) :
              /\ IF outcome = "refused" THEN UNCHANGED <<book, lastTicket>>
                 ELSE lastTicket' = lastTicket + 1 /\ book' = Append(book, o)
              /\ sent' = [sent EXCEPT ![i] = IF outcome = "done" THEN lastTicket + 1 ELSE NoTicket]
              /\ failures' = IF possible /\ outcome # "done" THEN failures + 1 ELSE failures
    BY DEF SendOrder
  <1>2. pc[i] = "broker" /\ sel[i] = NoOrder
    BY DEF SendOrder
  <1>3. n[i] \in 1..MaxOpenOrders[i] /\ Opens(res[i][n[i]])
    BY <1>2, LiveAssumption DEF Types, ToSend, Calling, ResultTypes
  <1>4. res[i][n[i]] \in Results
    BY <1>3 DEF Types, ResultTypes, ResultArrays
  <1>5. type \in OrderTypes /\ <<"OPEN", type>> \in res[i][n[i]].signals
    BY <1>3, <1>4, OpenType
  <1>6. outcome # "refused" => possible
    BY DEF Outcomes
  <1>7. possible /\ outcome # "done" => failures < MaxFailures
    BY DEF Outcomes
  <1>8. lastTicket \in 0..MaxTickets /\ failures \in 0..MaxFailures /\ MaxTickets \in Nat /\ MaxFailures \in Nat
    BY LiveAssumption DEF Types, WorldTypes
  <1>9. sent \in [Instances -> {NoTicket} \cup 0..MaxTickets]
    BY DEF Types, WalkTypes
  <1> HIDE DEF type
  <1>10. possible => o \in Orders
    BY <1>5, <1>8 DEF Orders, Stops
  <1>11. outcome = "done" => lastTicket + 1 \in 1..MaxTickets
    BY <1>6, <1>8
  <1>12. sent' \in [Instances -> {NoTicket} \cup 0..MaxTickets] /\ sent'[i] # 0
         /\ \A j \in Instances \ {i} : sent'[j] = sent[j]
    BY <1>1, <1>9, <1>11 DEF NoTicket
  <1>13. failures' \in 0..MaxFailures
    BY <1>1, <1>7, <1>8
  <1>14. o.ticket = lastTicket + 1 /\ o.owner = i /\ o.type = type
    OBVIOUS
  <1> HIDE DEF o
  <1> QED
    BY <1>1, <1>5, <1>6, <1>10, <1>12, <1>13, <1>14

LEMMA SendOrderTypes == ASSUME Types, NEW i \in Instances, SendOrder(i) PROVE Types'
  <1>1. /\ pc[i] = "broker" /\ sel[i] = NoOrder /\ pc' = [pc EXCEPT ![i] = "unlock"]
        /\ UNCHANGED <<shown, res, k, n, sel, rix, due, mutex, kills, clobbered>>
    BY DEF SendOrder
  <1>2. book' \in Seq(Orders) /\ Len(book') <= lastTicket' /\ lastTicket' \in 0..MaxTickets
    <2>1. book \in Seq(Orders) /\ Len(book) <= lastTicket /\ lastTicket \in 0..MaxTickets /\ MaxTickets \in Nat
      BY LiveAssumption DEF Types, WorldTypes
    <2>2. ASSUME NEW o \in Orders, book' = Append(book, o), lastTicket' = lastTicket + 1, lastTicket < MaxTickets
          PROVE  book' \in Seq(Orders) /\ Len(book') <= lastTicket' /\ lastTicket' \in 0..MaxTickets
      BY <2>1, <2>2
    <2> QED
      BY <2>1, <2>2, SendOrderBook
  <1>3. WorldTypes'
    BY <1>1, <1>2, SendOrderBook DEF Types, WorldTypes
  <1>4. BarTypes'
    BY DEF SendOrder, Types, BarTypes
  <1>5. WalkTypes' /\ ResultTypes'
    BY <1>1, SendOrderBook DEF Types, WalkTypes, ResultTypes
  <1>6. ToSend' /\ pc' \in [Instances -> States]
    BY <1>1, SendOrderBook DEF Types, ToSend, Calling, States, WalkTypes
  <1> QED
    BY <1>3, <1>4, <1>5, <1>6 DEF Types

\* The result of an order that was sent is for its ticket and has no signals any more.
LEMMA AnsweredResult ==
    ASSUME Types, NEW i \in Instances, Unlock(i), sent[i] \notin {0, NoTicket}
    PROVE  /\ DOMAIN res' = Instances /\ res'[i] \in ResultArrays(MaxOpenOrders[i])
           /\ \A j \in Instances \ {i} : res'[j] = res[j]
           /\ n[i] \in 1..MaxOpenOrders[i] /\ res'[i][n[i]].ticket = sent[i] /\ res'[i][n[i]].signals = {}
           /\ \A r \in 1..MaxOpenOrders[i] : r # n[i] => res'[i][r] = res[i][r]
  <1>1. res' = [res EXCEPT ![i][n[i]].ticket = sent[i], ![i][n[i]].signals = {}] /\ pc[i] = "unlock"
    BY DEF Unlock
  <1>2. n[i] \in 1..MaxOpenOrders[i]
    BY <1>1, LiveAssumption DEF Types, ToSend, ResultTypes
  <1>3. res[i] \in [1..MaxOpenOrders[i] -> Results] /\ DOMAIN res = Instances
    BY DEF Types, ResultTypes, ResultArrays
  <1>4. sent[i] \in Int
    BY LiveAssumption DEF Types, WalkTypes, NoTicket
  <1> DEFINE answered == [res[i][n[i]] EXCEPT !.ticket = sent[i], !.signals = {}]
             array == [res[i] EXCEPT ![n[i]] = answered]
  <1>5. answered \in Results /\ answered.ticket = sent[i] /\ answered.signals = {}
    <2>1. \A x \in Results : /\ [x EXCEPT !.ticket = sent[i], !.signals = {}] \in Results
                              /\ [x EXCEPT !.ticket = sent[i], !.signals = {}].ticket = sent[i]
                              /\ [x EXCEPT !.ticket = sent[i], !.signals = {}].signals = {}
      BY <1>4 DEF Results
    <2> QED
      BY <1>2, <1>3, <2>1
  <1>6. res' = [res EXCEPT ![i] = array]
    BY <1>1, <1>2, <1>3 DEF Results
  <1> HIDE DEF answered
  <1>7. array \in ResultArrays(MaxOpenOrders[i]) /\ array[n[i]] = answered
        /\ \A r \in 1..MaxOpenOrders[i] : r # n[i] => array[r] = res[i][r]
    BY <1>2, <1>3, <1>5 DEF ResultArrays
  <1> HIDE DEF array
  <1> QED
    BY <1>2, <1>3, <1>5, <1>6, <1>7

LEMMA UnlockTypes == ASSUME Types, NEW i \in Instances, Unlock(i) PROVE Types'
  <1>1. /\ pc[i] = "unlock" /\ pc' = [pc EXCEPT ![i] = "next"] /\ mutex' = Free
        /\ sent' = [sent EXCEPT ![i] = 0] /\ sel' = [sel EXCEPT ![i] = NoOrder]
        /\ UNCHANGED <<book, lastTicket, shown, n, plan, bar, ran, gaveUp, failures, kills, clobbered>>
    BY DEF Unlock
  <1>2. WorldTypes'
    BY <1>1 DEF Types, WorldTypes
  <1>3. sent[i] = 0 \/ sent[i] = NoTicket \/ sent[i] \notin {0, NoTicket}
    OBVIOUS
  <1>4. BarTypes'
    <2>1. failFile' = failFile \/ failFile' = [failFile EXCEPT ![i] = TRUE]
      BY <1>3 DEF Unlock, NoTicket
    <2> QED
      BY <1>1, <2>1 DEF Types, BarTypes
  <1>5. CASE sent[i] \in {0, NoTicket}
    <2>1. UNCHANGED <<res, k, rix, due>>
      BY <1>5 DEF Unlock, NoTicket
    <2>2. WalkTypes' /\ ResultTypes'
      BY <1>1, <2>1, LiveAssumption DEF Types, WalkTypes, ResultTypes
    <2>3. ToSend' /\ pc' \in [Instances -> States]
      BY <1>1, <2>1 DEF Types, ToSend, Calling, States, WalkTypes
    <2> QED
      BY <1>2, <1>4, <2>2, <2>3 DEF Types
  <1>6. CASE sent[i] \notin {0, NoTicket}
    <2>1. /\ res' = [res EXCEPT ![i][n[i]].ticket = sent[i], ![i][n[i]].signals = {}]
          /\ StartWalk(i, res'[i])
      BY <1>6 DEF Unlock
    <2>2. /\ DOMAIN res' = Instances /\ res'[i] \in ResultArrays(MaxOpenOrders[i])
          /\ \A j \in Instances \ {i} : res'[j] = res[j]
      BY <1>6, AnsweredResult
    <2>3. rix' = [rix EXCEPT ![i] = 1] /\ k' \in [Instances -> 0..MaxTickets]
          /\ due' \in [Instances -> SUBSET (1..MaxTickets)]
      BY <2>1, StartWalkTypes
    <2>4. ResultTypes'
      <3>1. MaxOpenOrders[i] \in Nat \ {0}
        BY LiveAssumption
      <3> QED
        BY <1>1, <2>2, <2>3, <3>1 DEF Types, ResultTypes
    <2>5. WalkTypes'
      <3>1. sent' \in [Instances -> {NoTicket} \cup 0..MaxTickets]
        BY <1>1, LiveAssumption DEF Types, WalkTypes
      <3>2. sel' \in [Instances -> Orders \cup {NoOrder}] /\ shown' \in [Instances -> Seq(Orders)]
        BY <1>1 DEF Types, WalkTypes
      <3> QED
        BY <2>3, <3>1, <3>2 DEF WalkTypes
    <2>6. ToSend' /\ pc' \in [Instances -> States]
      BY <1>1, <2>2 DEF Types, ToSend, Calling, States, WalkTypes
    <2> QED
      BY <1>2, <1>4, <2>4, <2>5, <2>6 DEF Types
  <1> QED
    BY <1>5, <1>6

LEMMA MarketClosesTypes == ASSUME Types, MarketCloses PROVE Types'
  <1>1. PICK p \in DOMAIN book :
          /\ book[p].stops # "none" /\ book' = RemoveAt(book, p)
          /\ due' = [i \in Instances |-> due[i] \ {book[p].ticket}]
          /\ gaveUp' = [gaveUp EXCEPT ![book[p].owner] = TRUE]
    BY DEF MarketCloses
  <1>2. UNCHANGED <<lastTicket, mutex, pc, locals, plan, bar, ran, failFile, failures, kills, clobbered>>
    BY DEF MarketCloses
  <1>3. book' \in Seq(Orders) /\ Len(book') = Len(book) - 1
    BY <1>1, RemoveAtParts DEF Types, WorldTypes
  <1>4. WorldTypes'
    <2>1. lastTicket \in Nat /\ Len(book) \in Nat
      BY LiveAssumption DEF Types, WorldTypes
    <2> QED
      BY <1>2, <1>3, <2>1 DEF Types, WorldTypes
  <1>5. BarTypes'
    BY <1>1, <1>2 DEF Types, BarTypes
  <1>6. WalkTypes' /\ ResultTypes' /\ ToSend' /\ pc' \in [Instances -> States]
    BY <1>1, <1>2 DEF Types, WalkTypes, ResultTypes, ToSend, locals
  <1> QED
    BY <1>4, <1>5, <1>6 DEF Types

\* A pending order that is filled becomes a market order of its side.
LEMMA FilledParts ==
    ASSUME NEW orders \in Seq(Orders), NEW p \in DOMAIN orders
    PROVE  /\ [orders EXCEPT ![p].type = SideOf(@)] \in Seq(Orders)
           /\ Len([orders EXCEPT ![p].type = SideOf(@)]) = Len(orders)
           /\ \A q \in DOMAIN orders :
                /\ [orders EXCEPT ![p].type = SideOf(@)][q].ticket = orders[q].ticket
                /\ [orders EXCEPT ![p].type = SideOf(@)][q].owner = orders[q].owner
                /\ q # p => [orders EXCEPT ![p].type = SideOf(@)][q] = orders[q]
  <1> DEFINE filled == [orders[p] EXCEPT !.type = SideOf(@)]
  <1>1. orders[p] \in Orders
    OBVIOUS
  <1>2. filled \in Orders /\ filled.ticket = orders[p].ticket /\ filled.owner = orders[p].owner
    BY <1>1 DEF Orders, SideOf, OrderTypes, LongTypes, ShortTypes
  <1>3. [orders EXCEPT ![p].type = SideOf(@)] = [orders EXCEPT ![p] = filled]
    BY <1>1 DEF Orders
  <1> HIDE DEF filled
  <1> QED
    BY <1>2, <1>3

LEMMA MarketFillsTypes == ASSUME Types, MarketFills PROVE Types'
  <1>1. PICK p \in DOMAIN book :
          /\ Pending(book[p].type) /\ book' = [book EXCEPT ![p].type = SideOf(@)]
          /\ due' = [i \in Instances |-> due[i] \ {book[p].ticket}]
    BY DEF MarketFills
  <1>2. UNCHANGED <<lastTicket, mutex, pc, locals, barState, failures, kills, clobbered>>
    BY DEF MarketFills
  <1>3. book' \in Seq(Orders) /\ Len(book') = Len(book)
    BY <1>1, FilledParts DEF Types, WorldTypes
  <1>4. WorldTypes'
    BY <1>2, <1>3 DEF Types, WorldTypes
  <1>5. WalkTypes' /\ ResultTypes' /\ ToSend' /\ pc' \in [Instances -> States]
    BY <1>1, <1>2 DEF Types, WalkTypes, ResultTypes, ToSend, locals
  <1> QED
    BY <1>2, <1>4, <1>5, BarKept DEF Types

LEMMA KillTypes == ASSUME Types, NEW i \in Instances, Kill(i) PROVE Types'
  <1>1. WorldTypes'
    BY LiveAssumption DEF Kill, Types, WorldTypes
  <1>2. BarTypes'
    BY DEF Kill, Types, BarTypes
  <1>3. WalkTypes'
    BY LiveAssumption DEF Kill, Types, WalkTypes
  <1>4. ResultTypes'
    <2>1. NoResults(MaxOpenOrders[i]) \in ResultArrays(MaxOpenOrders[i]) /\ MaxOpenOrders[i] \in Nat \ {0}
      BY LiveAssumption, ClearTypes
    <2> QED
      BY <2>1 DEF Kill, Types, ResultTypes
  <1>5. ToSend' /\ pc' \in [Instances -> States]
    BY DEF Kill, Types, ToSend, Calling, States, WalkTypes, ResultTypes
  <1> QED
    BY <1>1, <1>2, <1>3, <1>4, <1>5 DEF Types

LEMMA RestartTypes == ASSUME Types, NEW i \in Instances, Restart(i) PROVE Types'
  <1>1. ToSend' /\ pc' \in [Instances -> States]
    BY DEF Restart, Types, ToSend, Calling, States, locals
  <1> QED
    BY <1>1, WorldKept, BarKept, WalkKept, ResultKept DEF Restart, Types, locals

LEMMA DeleteMutexTypes == ASSUME Types, DeleteMutex PROVE Types'
  <1>1. ToSend' /\ pc' \in [Instances -> States]
    BY DEF DeleteMutex, Types, ToSend, locals
  <1>2. WorldTypes'
    BY DEF DeleteMutex, Types, WorldTypes
  <1> QED
    BY <1>1, <1>2, BarKept, WalkKept, ResultKept DEF DeleteMutex, Types, locals

LEMMA NextTypes == Types /\ [Next]_vars => Types'
  <1> SUFFICES ASSUME Types, [Next]_vars PROVE Types'
    OBVIOUS
  <1>1. ASSUME NEW i \in Instances, Step(i) PROVE Types'
    BY <1>1, SnapshotTypes, RunStrategyTypes, SelectTypes, NextResultTypes, FinishTypes, CheckMutexTypes,
       CreateMutexTypes, LockTypes, LockFailsTypes, HandleOrderTypes, SendOrderTypes, UnlockTypes DEF Step
  <1>2. CASE UNCHANGED vars
    <2>1. ToSend'
      BY <1>2 DEF Types, ToSend, vars, locals
    <2> QED
      BY <1>2, <2>1, WorldKept, BarKept, WalkKept, ResultKept DEF Types, vars, locals
  <1> QED
    BY <1>1, <1>2, NewBarTypes, KillTypes, RestartTypes, MarketClosesTypes, MarketFillsTypes,
       DeleteMutexTypes DEF Next

\* The variables keep their types, with any number of expert advisors, results, orders and failures.
THEOREM LiveTypes == Spec => []TypeOK
  <1>1. Types => TypeOK
    <2> SUFFICES ASSUME Types PROVE TypeOK
      OBVIOUS
    <2>0. \A s \in Seq(Orders) : \A p \in DOMAIN s : Order(s[p])
      <3>1. \A o \in Orders : Order(o)
        BY DEF Order, Orders
      <3>2. ASSUME NEW s \in Seq(Orders), NEW p \in DOMAIN s PROVE s[p] \in Orders
        OBVIOUS
      <3> QED
        BY <3>1, <3>2
    <2>1. \A p \in DOMAIN book : Order(book[p])
      BY <2>0 DEF Types, WorldTypes
    <2>2. ASSUME NEW i \in Instances PROVE \A p \in DOMAIN shown[i] : Order(shown[i][p])
      <3>1. shown[i] \in Seq(Orders)
        BY DEF Types, WalkTypes
      <3> QED
        BY <2>0, <3>1
    <2>3. ASSUME NEW i \in Instances PROVE sel[i] = NoOrder \/ Order(sel[i])
      BY DEF Types, WalkTypes, Order, Orders
    <2> QED
      BY <2>1, <2>2, <2>3 DEF TypeOK, Types, WorldTypes, BarTypes, WalkTypes, ResultTypes, ResultArrays
  <1> QED
    BY <1>1, InitTypes, NextTypes, PTL DEF Spec

-----------------------------------------------------------------------------
(* The walk over the orders. *)

\* Tickets are given once, and a selected order is the instance's own.
TicketsOnce ==
    /\ \A p \in DOMAIN book : book[p].ticket <= lastTicket
    /\ \A p, q \in DOMAIN book : book[p].ticket = book[q].ticket => p = q

SelectedOwn(i) ==
    sel[i] # NoOrder =>
        /\ sel[i].ticket <= lastTicket
        /\ \A p \in DOMAIN book : book[p].ticket = sel[i].ticket => book[p].owner = i

\* An order that is still to be reached is at a position the walk comes to, or selected.
Ahead(i, t) == \E p \in DOMAIN book : p <= k[i] /\ book[p].ticket = t /\ book[p].owner = i
Selected(i, t) == pc[i] \in Calling /\ sel[i] # NoOrder /\ sel[i].ticket = t

WalkOf(i) ==
    /\ SelectedOwn(i)
    /\ \A t \in due[i] : Ahead(i, t) \/ Selected(i, t)
    /\ pc[i] \in {"idle", "library", "dead"} => due[i] = {}

Walk == TicketsOnce /\ \A i \in Instances : WalkOf(i)

LEMMA InitWalk == Init => Walk
  BY DEF Init, Walk, TicketsOnce, WalkOf, SelectedOwn

\* A step of one instance that leaves the book alone.
LEMMA OneWalk ==
    ASSUME Walk, NEW i \in Instances, UNCHANGED <<book, lastTicket>>, WalkOf(i)',
           \A j \in Instances \ {i} : /\ pc'[j] = pc[j] /\ k'[j] = k[j]
                                      /\ sel'[j] = sel[j] /\ due'[j] = due[j]
    PROVE  Walk'
  <1>1. TicketsOnce'
    BY DEF Walk, TicketsOnce
  <1>2. ASSUME NEW j \in Instances \ {i} PROVE WalkOf(j)'
    BY <1>2 DEF Walk, WalkOf, SelectedOwn, Ahead, Selected
  <1> QED
    BY <1>1, <1>2 DEF Walk

LEMMA NewWalk ==
    ASSUME Types, Walk, NEW i \in Instances, NEW results, StartWalk(i, results), UNCHANGED <<book, lastTicket>>,
           pc' = [pc EXCEPT ![i] = "next"], sel'[i] = NoOrder, \A j \in Instances \ {i} : sel'[j] = sel[j]
    PROVE  Walk'
  <1>1. /\ \A t \in due'[i] : \E p \in Own(book, i) : book[p].ticket = t
        /\ k' = [k EXCEPT ![i] = Len(book)] /\ \A j \in Instances \ {i} : due'[j] = due[j]
    BY StartWalkTypes
  <1>2. k'[i] = Len(book) /\ \A j \in Instances \ {i} : k'[j] = k[j]
    BY <1>1 DEF Types, WalkTypes
  <1>3. pc'[i] = "next" /\ \A j \in Instances \ {i} : pc'[j] = pc[j]
    BY DEF Types
  <1>4. \A p \in DOMAIN book : p <= Len(book)
    BY DEF Types, WorldTypes
  <1>5. WalkOf(i)'
    BY <1>1, <1>2, <1>3, <1>4 DEF WalkOf, SelectedOwn, Ahead, Own
  <1> QED
    BY <1>1, <1>2, <1>3, <1>5, OneWalk

LEMMA SelectWalk == ASSUME Types, Walk, NEW i \in Instances, Select(i) PROVE Walk'
  <1>1. k[i] \in Nat /\ k[i] > 0 /\ pc[i] = "next" /\ k' = [k EXCEPT ![i] = @ - 1]
        /\ UNCHANGED <<book, lastTicket, due>>
    BY LiveAssumption DEF Select, Types, WalkTypes
  <1>2. k'[i] = k[i] - 1 /\ \A j \in Instances \ {i} : k'[j] = k[j]
    BY <1>1 DEF Types, WalkTypes
  <1>3. \A t \in due[i] : Ahead(i, t)
    BY <1>1 DEF Walk, WalkOf, Selected, Calling
  <1>4. CASE k[i] <= Len(book) /\ book[k[i]].owner = i
    <2>1. sel' = [sel EXCEPT ![i] = book[k[i]]] /\ pc' = [pc EXCEPT ![i] = "check"]
      BY <1>4 DEF Select
    <2>2. k[i] \in DOMAIN book /\ book[k[i]] \in Orders
      BY <1>1, <1>4 DEF Types, WorldTypes
    <2>3. book[k[i]] # NoOrder
      BY <2>2 DEF Orders, NoOrder
    <2>4. SelectedOwn(i)'
      BY <1>1, <1>4, <2>1, <2>2 DEF SelectedOwn, Types, WalkTypes, Walk, TicketsOnce
    <2>5. ASSUME NEW t \in due[i] PROVE Ahead(i, t)' \/ Selected(i, t)'
      <3>1. PICK p \in DOMAIN book : p <= k[i] /\ book[p].ticket = t /\ book[p].owner = i
        BY <1>3 DEF Ahead
      <3>2. p = k[i] \/ p <= k[i] - 1
        BY <1>1, <3>1 DEF Types, WorldTypes
      <3>3. p = k[i] => Selected(i, t)'
        BY <2>1, <2>3, <3>1 DEF Selected, Calling, Types, WalkTypes
      <3>4. p <= k[i] - 1 => Ahead(i, t)'
        BY <1>1, <1>2, <3>1 DEF Ahead
      <3> QED
        BY <3>2, <3>3, <3>4
    <2>6. pc'[i] = "check" /\ \A j \in Instances \ {i} : pc'[j] = pc[j] /\ sel'[j] = sel[j] /\ due'[j] = due[j]
      BY <1>1, <2>1 DEF Types, WalkTypes
    <2>7. WalkOf(i)'
      BY <1>1, <2>4, <2>5, <2>6 DEF WalkOf
    <2> QED
      BY <1>1, <1>2, <2>6, <2>7, OneWalk
  <1>5. CASE ~(k[i] <= Len(book) /\ book[k[i]].owner = i)
    <2>1. UNCHANGED <<sel, pc>>
      BY <1>5 DEF Select
    <2>2. ASSUME NEW t \in due[i] PROVE Ahead(i, t)'
      <3>1. PICK p \in DOMAIN book : p <= k[i] /\ book[p].ticket = t /\ book[p].owner = i
        BY <1>3 DEF Ahead
      <3>2. p <= k[i] - 1
        BY <1>1, <1>5, <3>1 DEF Types, WorldTypes
      <3> QED
        BY <1>1, <1>2, <3>1, <3>2 DEF Ahead
    <2>3. WalkOf(i)'
      BY <1>1, <2>1, <2>2 DEF WalkOf, Walk, SelectedOwn
    <2> QED
      BY <1>1, <1>2, <2>1, <2>3, OneWalk
  <1> QED
    BY <1>4, <1>5

\* When the walk is through nothing is left that was asked.
LEMMA ThroughWalk ==
    ASSUME Types, Walk, NEW i \in Instances, pc[i] = "next", k[i] = 0
    PROVE  due[i] = {}
  <1>1. \A t \in due[i] : Ahead(i, t)
    BY DEF Walk, WalkOf, Selected, Calling
  <1>2. \A p \in DOMAIN book : ~(p <= 0)
    BY DEF Types, WorldTypes
  <1> QED
    BY <1>1, <1>2 DEF Ahead

LEMMA NextResultWalk == ASSUME Types, Walk, NEW i \in Instances, NextResult(i) PROVE Walk'
  <1>1. due[i] = {} /\ pc' = [pc EXCEPT ![i] = "check"] /\ UNCHANGED <<book, lastTicket, k, sel, due>>
    BY ThroughWalk DEF NextResult
  <1>2. WalkOf(i)'
    BY <1>1 DEF WalkOf, Walk, SelectedOwn
  <1> QED
    BY <1>1, <1>2, OneWalk DEF Types

LEMMA FinishWalk == ASSUME Types, Walk, NEW i \in Instances, Finish(i) PROVE Walk'
  <1>1. due[i] = {} /\ pc' = [pc EXCEPT ![i] = "idle"] /\ UNCHANGED <<book, lastTicket, k, sel, due>>
    BY ThroughWalk DEF Finish
  <1>2. WalkOf(i)'
    BY <1>1 DEF WalkOf, Walk, SelectedOwn
  <1> QED
    BY <1>1, <1>2, OneWalk DEF Types

\* On the way to the broker the selection stays.
LEMMA CallingWalk ==
    ASSUME Types, Walk, NEW i \in Instances, NEW place \in Calling, pc[i] \in Calling,
           pc' = [pc EXCEPT ![i] = place], UNCHANGED <<book, lastTicket, k, sel, due>>
    PROVE  Walk'
  <1>1. pc'[i] = place /\ \A j \in Instances \ {i} : pc'[j] = pc[j]
    BY DEF Types
  <1>2. WalkOf(i)'
    BY <1>1 DEF WalkOf, Walk, SelectedOwn, Ahead, Selected, Calling
  <1> QED
    BY <1>1, <1>2, OneWalk

LEMMA LockFailsWalk == ASSUME Types, Walk, NEW i \in Instances, LockFails(i) PROVE Walk'
  <1>1. /\ pc' = [pc EXCEPT ![i] = "next"] /\ sel' = [sel EXCEPT ![i] = NoOrder]
        /\ due' = [due EXCEPT ![i] = @ \ {sel[i].ticket}] /\ UNCHANGED <<book, lastTicket, k>>
    BY DEF LockFails
  <1>2. /\ pc'[i] = "next" /\ sel'[i] = NoOrder /\ due'[i] = due[i] \ {sel[i].ticket}
        /\ \A j \in Instances \ {i} : pc'[j] = pc[j] /\ sel'[j] = sel[j] /\ due'[j] = due[j]
    BY <1>1 DEF Types, WalkTypes
  <1>3. WalkOf(i)'
    BY <1>1, <1>2 DEF WalkOf, Walk, SelectedOwn, Ahead, Selected
  <1> QED
    BY <1>1, <1>2, <1>3, OneWalk

\* Positions shift when an order is removed, and the orders ahead stay ahead.
LEMMA RemovedAhead ==
    ASSUME Types, NEW i \in Instances, NEW t, NEW p \in 1..Len(book), book' = RemoveAt(book, p),
           k'[i] = k[i], Ahead(i, t), book[p].ticket # t
    PROVE  Ahead(i, t)'
  <1>1. PICK q \in DOMAIN book : q <= k[i] /\ book[q].ticket = t /\ book[q].owner = i
    BY DEF Ahead
  <1>2. /\ book' \in Seq(Orders) /\ Len(book') = Len(book) - 1
        /\ \A r \in 1..Len(book) - 1 : book'[r] = IF r < p THEN book[r] ELSE book[r + 1]
    BY RemoveAtParts DEF Types, WorldTypes
  <1>3. book \in Seq(Orders) /\ k[i] \in Nat
    BY LiveAssumption DEF Types, WorldTypes, WalkTypes
  <1>4. CASE q < p
    <2>1. q \in 1..Len(book') /\ book'[q] = book[q]
      BY <1>2, <1>3, <1>4
    <2>2. q \in DOMAIN book'
      BY <1>2, <2>1
    <2> QED
      BY <1>1, <2>1, <2>2 DEF Ahead
  <1>5. CASE q > p
    <2>1. q - 1 \in 1..Len(book') /\ book'[q - 1] = book[q] /\ q - 1 <= k[i]
      BY <1>1, <1>2, <1>3, <1>5
    <2>2. q - 1 \in DOMAIN book'
      BY <1>2, <2>1
    <2> QED
      BY <1>1, <2>1, <2>2 DEF Ahead
  <1>6. q # p
    BY <1>1
  <1> QED
    BY <1>3, <1>4, <1>5, <1>6

\* What removing an order leaves of the tickets.
LEMMA RemovedTickets ==
    ASSUME Types, Walk, NEW p \in 1..Len(book), book' = RemoveAt(book, p), lastTicket' = lastTicket
    PROVE  /\ TicketsOnce'
           /\ \A q \in DOMAIN book' : \E r \in DOMAIN book : r # p /\ book'[q] = book[r]
  <1>1. /\ book' \in Seq(Orders) /\ Len(book') = Len(book) - 1
        /\ \A r \in 1..Len(book) - 1 : book'[r] = IF r < p THEN book[r] ELSE book[r + 1]
    BY RemoveAtParts DEF Types, WorldTypes
  <1>2. DOMAIN book' = 1..Len(book) - 1 /\ DOMAIN book = 1..Len(book) /\ Len(book) \in Nat
    BY <1>1 DEF Types, WorldTypes
  <1> DEFINE From(q) == IF q < p THEN q ELSE q + 1
  <1>3. \A q \in DOMAIN book' : From(q) \in DOMAIN book /\ From(q) # p /\ book'[q] = book[From(q)]
    BY <1>1, <1>2
  <1>4. \A q, r \in DOMAIN book' : From(q) = From(r) => q = r
    BY <1>2
  <1> HIDE DEF From
  <1> QED
    BY <1>3, <1>4 DEF TicketsOnce, Walk

\* A step that removes an order, and forgets its ticket for whoever was asked to act on it.
LEMMA RemovedWalk ==
    ASSUME Types, Walk, NEW p \in 1..Len(book), book' = RemoveAt(book, p), lastTicket' = lastTicket,
           NEW j \in Instances, k'[j] = k[j], sel'[j] = sel[j], due'[j] \subseteq due[j],
           book[p].owner = j => book[p].ticket \notin due'[j],
           pc'[j] \in {"idle", "library", "dead"} => pc[j] = pc'[j],
           \A t \in due'[j] : Selected(j, t) => Selected(j, t)'
    PROVE  WalkOf(j)'
  <1>1. \A q \in DOMAIN book' : \E r \in DOMAIN book : r # p /\ book'[q] = book[r]
    BY RemovedTickets
  <1>2. SelectedOwn(j)'
    BY <1>1 DEF Walk, WalkOf, SelectedOwn
  <1>3. ASSUME NEW t \in due'[j] PROVE Ahead(j, t)' \/ Selected(j, t)'
    <2>1. CASE Selected(j, t)
      BY <2>1, <1>3
    <2>2. CASE Ahead(j, t)
      <3>1. PICK q \in DOMAIN book : q <= k[j] /\ book[q].ticket = t /\ book[q].owner = j
        BY <2>2 DEF Ahead
      <3>2. book[p].ticket # t
        BY <3>1, <1>3 DEF Walk, TicketsOnce, Types, WorldTypes
      <3> QED
        BY <2>2, <3>2, RemovedAhead
    <2> QED
      BY <2>1, <2>2, <1>3 DEF Walk, WalkOf
  <1>4. pc'[j] \in {"idle", "library", "dead"} => due'[j] = {}
    BY DEF Walk, WalkOf
  <1> QED
    BY <1>2, <1>3, <1>4 DEF WalkOf

\* A step that changes an order in its place.
LEMMA ChangedWalk ==
    ASSUME Types, Walk, NEW j \in Instances, k'[j] = k[j], sel'[j] = sel[j], due'[j] \subseteq due[j],
           lastTicket' = lastTicket, DOMAIN book' = DOMAIN book,
           \A p \in DOMAIN book : book'[p].ticket = book[p].ticket /\ book'[p].owner = book[p].owner,
           pc'[j] \in {"idle", "library", "dead"} => pc[j] = pc'[j],
           \A t \in due'[j] : Selected(j, t) => Selected(j, t)'
    PROVE  WalkOf(j)' /\ TicketsOnce'
  BY DEF Walk, WalkOf, TicketsOnce, SelectedOwn, Ahead

LEMMA HandleOrderWalk == ASSUME Types, Walk, NEW i \in Instances, HandleOrder(i) PROVE Walk'
  <1>1. /\ pc[i] = "broker" /\ pc' = [pc EXCEPT ![i] = "unlock"] /\ UNCHANGED <<lastTicket, k, sel>>
        /\ due' = [due EXCEPT ![i] = @ \ {sel[i].ticket}] /\ sel[i] # NoOrder
    BY DEF HandleOrder, locals
  <1>2. pc'[i] = "unlock" /\ \A j \in Instances \ {i} : pc'[j] = pc[j] /\ due'[j] = due[j]
    BY <1>1 DEF Types, WalkTypes
  <1>3. due'[i] = due[i] \ {sel[i].ticket}
    BY <1>1 DEF Types, WalkTypes
  <1>4. \A j \in Instances : \A t \in due'[j] : Selected(j, t) => Selected(j, t)'
    BY <1>1, <1>2, <1>3 DEF Selected
  <1>5. CASE book' = book
    <2>1. \A j \in Instances : WalkOf(j)' /\ TicketsOnce'
      BY <1>1, <1>2, <1>3, <1>4, <1>5, ChangedWalk
    <2> QED
      BY <2>1 DEF Walk
  <1>6. ASSUME NEW p \in 1..Len(book), book[p].ticket = sel[i].ticket, book' = RemoveAt(book, p)
        PROVE  Walk'
    <2>1. book[p].owner = i
      BY <1>1, <1>6 DEF Walk, WalkOf, SelectedOwn, Types, WorldTypes
    <2>2. \A j \in Instances : book[p].owner = j => book[p].ticket \notin due'[j]
      BY <2>1, <1>3, <1>6
    <2>3. \A j \in Instances : WalkOf(j)'
      BY <1>1, <1>2, <1>3, <1>4, <1>6, <2>2, RemovedWalk
    <2> QED
      BY <1>1, <1>6, <2>3, RemovedTickets DEF Walk
  <1>7. ASSUME NEW stops \in Stops, book' = Modified(book, sel[i].ticket, stops) PROVE Walk'
    <2>1. /\ DOMAIN book' = DOMAIN book
          /\ \A p \in DOMAIN book : book'[p].ticket = book[p].ticket /\ book'[p].owner = book[p].owner
      <3>1. book \in Seq(Orders)
        BY DEF Types, WorldTypes
      <3>2. /\ book' \in Seq(Orders) /\ Len(book') = Len(book)
            /\ \A p \in 1..Len(book) : book'[p].ticket = book[p].ticket /\ book'[p].owner = book[p].owner
        BY <1>7, <3>1, ModifiedParts
      <3> QED
        BY <3>1, <3>2
    <2>2. \A j \in Instances : WalkOf(j)' /\ TicketsOnce'
      BY <1>1, <1>2, <1>3, <1>4, <2>1, ChangedWalk
    <2> QED
      BY <2>2 DEF Walk
  <1> QED
    BY <1>5, <1>6, <1>7, HandleOrderBook

LEMMA SendOrderWalk == ASSUME Types, Walk, NEW i \in Instances, SendOrder(i) PROVE Walk'
  <1>1. /\ sel[i] = NoOrder /\ pc' = [pc EXCEPT ![i] = "unlock"] /\ UNCHANGED <<k, sel, due>>
    BY DEF SendOrder
  <1>2. pc'[i] = "unlock" /\ \A j \in Instances \ {i} : pc'[j] = pc[j]
    BY <1>1 DEF Types
  <1>3. \A j \in Instances : \A t : Selected(j, t) => Selected(j, t)'
    BY <1>1, <1>2 DEF Selected
  <1>4. \A j \in Instances : pc'[j] \in {"idle", "library", "dead"} => pc[j] = pc'[j]
    BY <1>2
  <1>5. CASE book' = book /\ lastTicket' = lastTicket
    <2>1. \A j \in Instances : WalkOf(j)' /\ TicketsOnce'
      BY <1>1, <1>3, <1>4, <1>5, ChangedWalk
    <2> QED
      BY <2>1 DEF Walk
  <1>6. ASSUME NEW o \in Orders, o.ticket = lastTicket + 1, o.owner = i,
               book' = Append(book, o), lastTicket' = lastTicket + 1
        PROVE  Walk'
    <2>1. book \in Seq(Orders) /\ lastTicket \in Nat
      BY LiveAssumption DEF Types, WorldTypes
    <2>2. /\ DOMAIN book = 1..Len(book) /\ DOMAIN book' = 1..Len(book) + 1 /\ Len(book) \in Nat
          /\ \A p \in 1..Len(book) : book'[p] = book[p] /\ book[p].ticket \in Nat
          /\ book'[Len(book) + 1] = o
      <3>1. \A p \in 1..Len(book) : book[p] \in Orders
        BY <2>1
      <3>2. \A p \in 1..Len(book) : book[p].ticket \in Nat
        BY <3>1, LiveAssumption DEF Orders
      <3> QED
        BY <2>1, <1>6, <3>2
    <2>3. TicketsOnce'
      BY <1>6, <2>1, <2>2 DEF Walk, TicketsOnce
    <2>4. ASSUME NEW j \in Instances PROVE SelectedOwn(j)'
      <3>1. sel[j] # NoOrder => sel[j].ticket \in Nat
        BY LiveAssumption DEF Types, WalkTypes, Orders
      <3> QED
        BY <1>1, <1>6, <2>1, <2>2, <3>1 DEF Walk, WalkOf, SelectedOwn
    <2>5. ASSUME NEW j \in Instances, NEW t \in due[j], Ahead(j, t) PROVE Ahead(j, t)'
      BY <1>1, <2>2, <2>5 DEF Ahead
    <2>6. \A j \in Instances : WalkOf(j)'
      BY <1>1, <1>3, <1>4, <2>4, <2>5 DEF Walk, WalkOf
    <2> QED
      BY <2>3, <2>6 DEF Walk
  <1> QED
    BY <1>5, <1>6, SendOrderBook

LEMMA UnlockWalk == ASSUME Types, Walk, NEW i \in Instances, Unlock(i) PROVE Walk'
  <1>1. /\ pc[i] = "unlock" /\ pc' = [pc EXCEPT ![i] = "next"] /\ sel' = [sel EXCEPT ![i] = NoOrder]
        /\ UNCHANGED <<book, lastTicket>>
    BY DEF Unlock
  <1>2. /\ pc'[i] = "next" /\ sel'[i] = NoOrder
        /\ \A j \in Instances \ {i} : pc'[j] = pc[j] /\ sel'[j] = sel[j]
    BY <1>1 DEF Types, WalkTypes
  <1>3. CASE sent[i] \in {0, NoTicket}
    <2>1. UNCHANGED <<k, due>>
      BY <1>3 DEF Unlock, NoTicket
    <2>2. WalkOf(i)'
      BY <1>1, <1>2, <2>1 DEF WalkOf, Walk, SelectedOwn, Ahead, Selected, Calling
    <2> QED
      BY <1>1, <1>2, <2>1, <2>2, OneWalk
  <1>4. CASE sent[i] \notin {0, NoTicket}
    <2>1. StartWalk(i, res'[i])
      BY <1>4 DEF Unlock
    <2> QED
      BY <1>1, <1>2, <2>1, NewWalk
  <1> QED
    BY <1>3, <1>4

LEMMA MarketClosesWalk == ASSUME Types, Walk, MarketCloses PROVE Walk'
  <1>1. PICK p \in DOMAIN book :
          book' = RemoveAt(book, p) /\ due' = [i \in Instances |-> due[i] \ {book[p].ticket}]
    BY DEF MarketCloses
  <1>2. p \in 1..Len(book) /\ UNCHANGED <<lastTicket, pc, k, sel>>
    BY DEF MarketCloses, Types, WorldTypes, locals
  <1>3. \A j \in Instances : \A t : Selected(j, t) => Selected(j, t)'
    BY <1>2 DEF Selected
  <1>4. \A j \in Instances : due'[j] \subseteq due[j] /\ book[p].ticket \notin due'[j]
    BY <1>1
  <1>5. \A j \in Instances : WalkOf(j)'
    BY <1>1, <1>2, <1>3, <1>4, RemovedWalk
  <1> QED
    BY <1>1, <1>2, <1>5, RemovedTickets DEF Walk

LEMMA MarketFillsWalk == ASSUME Types, Walk, MarketFills PROVE Walk'
  <1>1. PICK p \in DOMAIN book :
          /\ book' = [book EXCEPT ![p].type = SideOf(@)]
          /\ due' = [i \in Instances |-> due[i] \ {book[p].ticket}]
    BY DEF MarketFills
  <1>2. UNCHANGED <<lastTicket, pc, k, sel>>
    BY DEF MarketFills, locals
  <1>3. DOMAIN book' = DOMAIN book
        /\ \A q \in DOMAIN book : book'[q].ticket = book[q].ticket /\ book'[q].owner = book[q].owner
    <2>1. book \in Seq(Orders)
      BY DEF Types, WorldTypes
    <2> QED
      BY <1>1, <2>1, FilledParts
  <1>4. \A j \in Instances : \A t : Selected(j, t) => Selected(j, t)'
    BY <1>2 DEF Selected
  <1>5. \A j \in Instances : WalkOf(j)' /\ TicketsOnce'
    BY <1>1, <1>2, <1>3, <1>4, ChangedWalk
  <1>6. TicketsOnce'
    BY <1>2, <1>3 DEF Walk, TicketsOnce
  <1> QED
    BY <1>5, <1>6 DEF Walk

LEMMA KillWalk == ASSUME Types, Walk, NEW i \in Instances, Kill(i) PROVE Walk'
  <1>1. /\ pc' = [pc EXCEPT ![i] = "dead"] /\ sel' = [sel EXCEPT ![i] = NoOrder]
        /\ due' = [due EXCEPT ![i] = {}] /\ k' = [k EXCEPT ![i] = 0] /\ UNCHANGED <<book, lastTicket>>
    BY DEF Kill
  <1>2. WalkOf(i)'
    BY <1>1 DEF WalkOf, SelectedOwn, Types, WalkTypes
  <1> QED
    BY <1>1, <1>2, OneWalk DEF Types, WalkTypes

LEMMA NextWalk == Types /\ Walk /\ [Next]_vars => Walk'
  <1> SUFFICES ASSUME Types, Walk, [Next]_vars PROVE Walk'
    OBVIOUS
  <1>1. ASSUME UNCHANGED <<book, lastTicket, pc, k, sel, due>> PROVE Walk'
    BY <1>1 DEF Walk, TicketsOnce, WalkOf, SelectedOwn, Ahead, Selected
  <1>2. ASSUME NEW i \in Instances, Snapshot(i) \/ Restart(i) PROVE Walk'
    <2>1. /\ pc[i] \in {"idle", "dead"} /\ pc' \in {[pc EXCEPT ![i] = "library"], [pc EXCEPT ![i] = "idle"]}
          /\ UNCHANGED <<book, lastTicket, k, sel, due>>
      BY <1>2 DEF Snapshot, Restart, locals
    <2>2. WalkOf(i)'
      BY <2>1 DEF WalkOf, Walk, SelectedOwn
    <2> QED
      BY <2>1, <2>2, OneWalk DEF Types
  <1>3. ASSUME NEW i \in Instances, RunStrategy(i) PROVE Walk'
    <2>1. /\ pc[i] = "library" /\ pc' = [pc EXCEPT ![i] = "next"] /\ StartWalk(i, res'[i])
          /\ UNCHANGED <<book, lastTicket, sel>>
      BY <1>3 DEF RunStrategy
    <2>2. sel[i] = NoOrder
      BY <2>1 DEF Types, ToSend
    <2> QED
      BY <2>1, <2>2, NewWalk
  <1>4. ASSUME NEW i \in Instances, CheckMutex(i) \/ CreateMutex(i) \/ Lock(i) PROVE Walk'
    <2>1. /\ pc[i] \in Calling /\ \E place \in Calling : pc' = [pc EXCEPT ![i] = place]
          /\ UNCHANGED <<book, lastTicket, k, sel, due>>
      BY <1>4 DEF CheckMutex, CreateMutex, Lock, Calling, locals
    <2> QED
      BY <2>1, CallingWalk
  <1>5. ASSUME NEW i \in Instances, Step(i) PROVE Walk'
    BY <1>2, <1>3, <1>4, <1>5, SelectWalk, NextResultWalk, FinishWalk, LockFailsWalk, HandleOrderWalk,
       SendOrderWalk, UnlockWalk DEF Step
  <1>6. ASSUME NEW i \in Instances, NewBar(i) PROVE Walk'
    BY <1>1, <1>6 DEF NewBar, locals
  <1>7. CASE DeleteMutex
    BY <1>1, <1>7 DEF DeleteMutex, locals
  <1>8. CASE UNCHANGED vars
    BY <1>1, <1>8 DEF vars, locals
  <1> QED
    BY <1>2, <1>5, <1>6, <1>7, <1>8, KillWalk, MarketClosesWalk, MarketFillsWalk DEF Next

\* When a tick is over each order the results asked something of was reached, however the other
\* expert advisors and the market shift the positions of the orders under the walk.
THEOREM WalkReachesAll == Spec => []NoOrderMissed
  <1>1. Types /\ Walk => NoOrderMissed
    BY DEF Walk, WalkOf, NoOrderMissed
  <1> QED
    BY <1>1, InitTypes, NextTypes, InitWalk, NextWalk, PTL DEF Spec

-----------------------------------------------------------------------------
(* Kantu has one order on a side. *)

\* The arrays without a signal to open.
NoOpens(max) == {x \in ResultArrays(max) : \A r \in 1..max : \A type : <<"OPEN", type>> \notin x[r].signals}

LEMMA ModifyAllOpens ==
    ASSUME NEW max \in Nat, NEW results \in NoOpens(max), NEW orders \in Seq(Orders), NEW side \in Sides,
           NEW stops \in Stops
    PROVE  modifyAll(results, orders, side, stops) \in NoOpens(max)
  <1>1. \A m \in 1..Len(orders) : orders[m].ticket \in Int
    <2>1. ASSUME NEW m \in 1..Len(orders) PROVE orders[m].ticket \in Int
      <3>1. orders[m] \in Orders
        OBVIOUS
      <3> QED
        BY <3>1, LiveAssumption DEF Orders
    <2> QED
      BY <2>1
  <1>2. ASSUME NEW x \in NoOpens(max), NEW m \in 1..Len(orders)
        PROVE  modifyTradeEasy(x, side, orders[m].ticket, stops) \in NoOpens(max)
    <2>1. x \in ResultArrays(max)
      BY DEF NoOpens
    <2>2. modifyTradeEasy(x, side, orders[m].ticket, stops) \in ResultArrays(max)
      BY <1>1, <2>1, modifyTradeEasyType
    <2> DEFINE result == [ticket |-> orders[m].ticket, signals |-> {<<"UPDATE", side>>}, stops |-> stops]
               array == modifyTradeEasy(x, side, orders[m].ticket, stops)
    <2>3. array = [r \in 1..max |-> IF r = FreeIndex(x) THEN result ELSE x[r]]
      BY <2>1 DEF modifyTradeEasy, UseFree, ResultArrays
    <2>4. \A type : <<"OPEN", type>> \notin result.signals
      OBVIOUS
    <2> HIDE DEF array, result
    <2>5. \A r \in 1..max : array[r] = result \/ array[r] = x[r]
      BY <2>3
    <2>6. \A r \in 1..max : \A type : <<"OPEN", type>> \notin array[r].signals
      BY <2>4, <2>5 DEF NoOpens
    <2> QED
      BY <2>2, <2>6 DEF NoOpens, array
  <1> QED
    BY <1>2, modifyAllStays

\* What Kantu fills opens an order only in the first result, on a side it is shown no order of.
LEMMA KantuOpens ==
    ASSUME NEW max \in Nat \ {0}, NEW p \in KantuPlans, NEW orders \in Seq(Orders), NEW allowed \in BOOLEAN,
           NEW r \in 1..max, NEW type,
           <<"OPEN", type>> \in runKantu(clearStrategyResults(max), p, orders, allowed)[r].signals
    PROVE  r = 1 /\ type \in Sides /\ Held(orders, type) = {}
  <1> DEFINE clear == clearStrategyResults(max)
             repaired == IF Naked(orders) THEN setStops(clear, 1, "own") ELSE clear
             Trade(side) == openOrUpdateTrade(repaired, 1, side, orders, KantuStops(side, orders))
  <1>1. clear \in ResultArrays(max) /\ \A q \in 1..max : clear[q].signals = {}
    <2>1. clear \in ResultArrays(max)
      BY ClearTypes
    <2> QED
      BY <2>1 DEF clearStrategyResults
  <1>2. repaired \in ResultArrays(max) /\ \A q \in 1..max : repaired[q].signals = {}
    <2> HIDE DEF clear
    <2>1. setStops(clear, 1, "own") \in ResultArrays(max)
      BY <1>1, setStopsType DEF Stops
    <2>2. \A q \in 1..max : setStops(clear, 1, "own")[q].signals = clear[q].signals
      BY <1>1 DEF setStops, ResultArrays, Results
    <2> QED
      BY <1>1, <2>1, <2>2
  <1>3. repaired \in NoOpens(max)
    <2> HIDE DEF repaired
    <2> QED
      BY <1>2 DEF NoOpens
  <1>4. runKantu(clear, p, orders, allowed) =
            CASE p = "long"  -> IF allowed THEN Trade("BUY") ELSE repaired
              [] p = "short" -> IF allowed THEN Trade("SELL") ELSE repaired
              [] p = "trail" -> modifyAll(modifyAll(repaired, orders, "SELL", "own"), orders, "BUY", "own")
              [] p = "exit"  -> checkTimedExit(repaired, 1, orders)
              [] p = "hold"  -> repaired
    BY DEF runKantu
  <1> DEFINE result == runKantu(clear, p, orders, allowed)
  <1> HIDE DEF repaired
  <1>5. ASSUME NEW side \in Sides, <<"OPEN", type>> \in Trade(side)[r].signals
        PROVE  r = 1 /\ type = side /\ Held(orders, side) = {}
    <2> DEFINE entry == IF Held(orders, side) = {} THEN <<"OPEN", side>> ELSE <<"UPDATE", side>>
               traded == [repaired EXCEPT ![1].stops = KantuStops(side, orders),
                              ![1].signals = (@ \cup {<<"CLOSE", Other(side)>>, entry}) \ {<<"CLOSE", side>>}]
    <2>1. Trade(side) = traded
      BY DEF openOrUpdateTrade
    <2>2. repaired \in [1..max -> Results]
      BY <1>2 DEF ResultArrays
    <2>3. r # 1 => traded[r] = repaired[r]
      BY <2>2
    <2>4. r = 1 => traded[r].signals = (repaired[1].signals \cup {<<"CLOSE", Other(side)>>, entry}) \ {<<"CLOSE", side>>}
      BY <2>2 DEF Results
    <2> HIDE DEF traded
    <2>5. r = 1 /\ <<"OPEN", type>> = entry
      BY <1>2, <1>5, <2>1, <2>3, <2>4
    <2> QED
      BY <2>5
  <1>6. modifyAll(modifyAll(repaired, orders, "SELL", "own"), orders, "BUY", "own") \in NoOpens(max)
    <2>1. modifyAll(repaired, orders, "SELL", "own") \in NoOpens(max)
      BY <1>3, ModifyAllOpens DEF Sides, Stops
    <2> QED
      BY <2>1, ModifyAllOpens DEF Sides, Stops
  <1>7. <<"OPEN", type>> \notin checkTimedExit(repaired, 1, orders)[r].signals
    <2> DEFINE exits == {<<"CLOSE", orders[m].type>> : m \in DOMAIN orders}
               array == [repaired EXCEPT ![1].signals = @ \cup exits]
    <2>1. checkTimedExit(repaired, 1, orders) = array
      BY DEF checkTimedExit
    <2>2. repaired \in [1..max -> Results]
      BY <1>2 DEF ResultArrays
    <2>3. <<"OPEN", type>> \notin exits
      OBVIOUS
    <2> HIDE DEF exits
    <2>4. r # 1 => array[r] = repaired[r]
      BY <2>2
    <2>5. r = 1 => array[r].signals = repaired[1].signals \cup exits
      BY <2>2 DEF Results
    <2> HIDE DEF array
    <2> QED
      BY <1>2, <2>1, <2>3, <2>4, <2>5
  <1> HIDE DEF Trade
  <1>8. <<"OPEN", type>> \notin repaired[r].signals
    BY <1>2
  <1>9. ASSUME NEW side \in Sides, result = Trade(side)
        PROVE  r = 1 /\ type = side /\ Held(orders, side) = {}
    BY <1>5, <1>9 DEF clear
  <1>10. <<"OPEN", type>> \in result[r].signals
    BY DEF clear
  <1> HIDE DEF result, clear
  <1>11. result \in {Trade("BUY"), Trade("SELL")}
    <2>1. result = repaired \/ result \in NoOpens(max) \/ result = checkTimedExit(repaired, 1, orders)
          \/ result \in {Trade("BUY"), Trade("SELL")}
      BY <1>4, <1>6 DEF KantuPlans, result
    <2> QED
      BY <1>7, <1>8, <1>10, <2>1 DEF NoOpens
  <1> QED
    BY <1>9, <1>11 DEF Sides

\* The orders of an instance: market orders, one on a side.
Positions(i) ==
    /\ \A p \in Own(book, i) : book[p].type \in Sides
    /\ \A p, q \in Own(book, i) : book[p].type = book[q].type => p = q

NoneOn(i, side) == \A p \in Own(book, i) : book[p].type # side

\* A result may ask for an order of a side when there is none; when it is about to be answered; or
\* when its answer was lost, and then the file is there that has the library fill the results anew,
\* and it is not reached again before.
MayOpen(i, side) ==
    \/ NoneOn(i, side)
    \/ pc[i] \in {"idle", "library"} /\ failFile[i]
    \/ /\ n[i] = 1 /\ failFile[i] /\ pc[i] \in {"next", "unlock"} \cup Calling
       /\ pc[i] \in Calling => sel[i] # NoOrder
    \/ pc[i] = "unlock" /\ sent[i] # 0

OpensFirst(i) ==
    \A r \in 1..MaxOpenOrders[i] : \A type :
        <<"OPEN", type>> \in res[i][r].signals => r = 1 /\ type \in Sides /\ MayOpen(i, type)

KantuOf(i) ==
    /\ Positions(i) /\ OpensFirst(i)
    /\ pc[i] = "library" => \A p \in Own(book, i) : Held(shown[i], book[p].type) # {}
    /\ pc[i] = "unlock" /\ sent[i] # 0 => n[i] = 1

KantuInv == \A i \in Kantu : KantuOf(i)

LEMMA InitKantu == Init => KantuInv
  <1> SUFFICES ASSUME Init, NEW i \in Kantu PROVE KantuOf(i)
    BY DEF KantuInv
  <1>1. i \in Instances /\ pc[i] = "idle" /\ res[i] = NoResults(MaxOpenOrders[i]) /\ book = <<>>
    BY DEF Init, Kantu
  <1>2. Own(book, i) = {}
    BY <1>1 DEF Own
  <1>3. \A r \in 1..MaxOpenOrders[i] : res[i][r].signals = {}
    BY <1>1 DEF NoResults
  <1> QED
    BY <1>1, <1>2, <1>3 DEF KantuOf, Positions, OpensFirst

\* The orders of an instance are some of those it had.
Shrinks(i) ==
    /\ Positions(i)'
    /\ \A p \in Own(book, i)' : \E q \in Own(book, i) : book[q].type = book'[p].type

LEMMA ShrunkNone == ASSUME NEW i, Shrinks(i) PROVE \A side : NoneOn(i, side) => NoneOn(i, side)'
  BY DEF Shrinks, NoneOn

LEMMA SameShrinks == ASSUME NEW i, Positions(i), book' = book PROVE Shrinks(i)
  BY DEF Shrinks, Positions, Own

LEMMA ChangedShrinks ==
    ASSUME NEW i, Positions(i), DOMAIN book' = DOMAIN book,
           \A p \in DOMAIN book : book'[p].owner = book[p].owner,
           \A p \in Own(book, i) : book'[p].type = book[p].type
    PROVE  Shrinks(i)
  BY DEF Shrinks, Positions, Own

LEMMA RemovedShrinks ==
    ASSUME Types, NEW i, Positions(i), NEW p \in 1..Len(book), book' = RemoveAt(book, p)
    PROVE  Shrinks(i)
  <1>1. /\ book' \in Seq(Orders) /\ Len(book') = Len(book) - 1
        /\ \A r \in 1..Len(book) - 1 : book'[r] = IF r < p THEN book[r] ELSE book[r + 1]
    BY RemoveAtParts DEF Types, WorldTypes
  <1>2. DOMAIN book' = 1..Len(book) - 1 /\ DOMAIN book = 1..Len(book) /\ Len(book) \in Nat
    BY <1>1 DEF Types, WorldTypes
  <1> DEFINE From(q) == IF q < p THEN q ELSE q + 1
  <1>3. \A q \in DOMAIN book' : From(q) \in DOMAIN book /\ book'[q] = book[From(q)]
    BY <1>1, <1>2
  <1>4. \A q, r \in DOMAIN book' : From(q) = From(r) => q = r
    BY <1>2
  <1> HIDE DEF From
  <1> QED
    BY <1>3, <1>4 DEF Shrinks, Positions, Own

LEMMA AppendedShrinks ==
    ASSUME Types, NEW i, Positions(i), NEW o \in Orders, o.owner # i, book' = Append(book, o)
    PROVE  Shrinks(i)
  <1>1. book \in Seq(Orders)
    BY DEF Types, WorldTypes
  <1>2. /\ DOMAIN book = 1..Len(book) /\ DOMAIN book' = 1..Len(book) + 1 /\ Len(book) \in Nat
        /\ \A p \in 1..Len(book) : book'[p] = book[p]
        /\ book'[Len(book) + 1] = o
    BY <1>1
  <1>3. Own(book, i)' = Own(book, i) /\ \A p \in Own(book, i) : book'[p] = book[p]
    BY <1>2 DEF Own
  <1> QED
    BY <1>3 DEF Shrinks, Positions

\* A step in which the instance itself stays where it is.
LEMMA QuietKantu ==
    ASSUME NEW i \in Kantu, KantuOf(i), Shrinks(i), pc'[i] = pc[i], res'[i] = res[i], n'[i] = n[i], sel'[i] = sel[i],
           sent'[i] = sent[i], failFile'[i] = failFile[i], shown'[i] = shown[i]
    PROVE  KantuOf(i)'
  <1>1. OpensFirst(i)'
    BY ShrunkNone DEF KantuOf, OpensFirst, MayOpen
  <1>2. pc'[i] = "library" => \A p \in Own(book, i)' : Held(shown'[i], book'[p].type) # {}
    BY DEF KantuOf, Shrinks
  <1> QED
    BY <1>1, <1>2 DEF KantuOf, Shrinks

\* A step of the instance that keeps its results, outside of the library.
LEMMA MovedKantu ==
    ASSUME NEW i \in Kantu, KantuOf(i), Shrinks(i), res'[i] = res[i], pc'[i] # "library",
           pc'[i] = "unlock" /\ sent'[i] # 0 => n'[i] = 1,
           \A side : MayOpen(i, side) => MayOpen(i, side)'
    PROVE  KantuOf(i)'
  BY DEF KantuOf, OpensFirst, Shrinks

LEMMA RunStrategyKantu ==
    ASSUME Types, NEW i \in Kantu, KantuOf(i), RunStrategy(i)
    PROVE  KantuOf(i)'
  <1>1. i \in Instances /\ plan[i] \in KantuPlans /\ MaxOpenOrders[i] \in Nat \ {0}
    BY LiveAssumption DEF Kantu, Types, BarTypes
  <1>2. pc[i] = "library" /\ pc' = [pc EXCEPT ![i] = "next"] /\ book' = book
    BY DEF RunStrategy
  <1>3. pc'[i] = "next" /\ \A side : NoneOn(i, side) => NoneOn(i, side)'
    BY <1>1, <1>2 DEF Types, NoneOn, Own
  <1> DEFINE run == ~(~Naked(shown[i]) /\ ~failFile[i]) \/ ~ran[i]
             clear == clearStrategyResults(MaxOpenOrders[i])
  <1>4. PICK allowed \in BOOLEAN :
            res' \in {[res EXCEPT ![i] = filled] : filled \in
                        IF run THEN Filled(i, allowed) ELSE {res[i], NoResults(MaxOpenOrders[i])}}
    BY DEF RunStrategy
  <1>5. Filled(i, allowed) = {runKantu(clear, plan[i], shown[i], allowed)}
    BY <1>1 DEF Filled, KantuPlans
  <1>6. ASSUME NEW r \in 1..MaxOpenOrders[i], NEW type, <<"OPEN", type>> \in res'[i][r].signals
        PROVE  r = 1 /\ type \in Sides /\ NoneOn(i, type)
    <2>1. CASE run
      <3>1. res' = [res EXCEPT ![i] = runKantu(clear, plan[i], shown[i], allowed)]
        BY <1>4, <1>5, <2>1
      <3>2. res'[i] = runKantu(clear, plan[i], shown[i], allowed)
        BY <1>1, <3>1 DEF Types, ResultTypes
      <3>3. shown[i] \in Seq(Orders)
        BY <1>1 DEF Types, WalkTypes
      <3>4. r = 1 /\ type \in Sides /\ Held(shown[i], type) = {}
        BY <1>1, <1>6, <3>2, <3>3, KantuOpens
      <3> QED
        BY <1>2, <3>4 DEF KantuOf, NoneOn
    <2>2. CASE ~run
      <3>1. res'[i] \in {res[i], NoResults(MaxOpenOrders[i])}
        BY <1>1, <1>4, <2>2 DEF Types, ResultTypes
      <3>2. res'[i] = res[i]
        <4>1. NoResults(MaxOpenOrders[i])[r].signals = {}
          BY DEF NoResults
        <4> QED
          BY <1>6, <3>1, <4>1
      <3>3. r = 1 /\ type \in Sides /\ MayOpen(i, type)
        BY <1>6, <3>2 DEF KantuOf, OpensFirst
      <3> QED
        BY <1>2, <2>2, <3>3 DEF MayOpen, Calling
    <2> QED
      BY <2>1, <2>2
  <1>7. OpensFirst(i)'
    BY <1>3, <1>6 DEF OpensFirst, MayOpen
  <1>8. Positions(i)'
    BY <1>2 DEF KantuOf, Positions, Own
  <1> QED
    BY <1>3, <1>7, <1>8 DEF KantuOf

LEMMA SnapshotKantu == ASSUME Types, NEW i \in Kantu, KantuOf(i), Snapshot(i) PROVE KantuOf(i)'
  <1>1. i \in Instances /\ pc[i] = "idle"
    BY DEF Snapshot, Kantu
  <1>2. /\ pc'[i] = "library" /\ shown'[i] = c_getOrderInfo(i)
        /\ UNCHANGED <<book, res, n, sel, sent, failFile>>
    BY <1>1 DEF Snapshot, barState, Types, WalkTypes
  <1>3. \A p \in Own(book, i) : Held(shown'[i], book[p].type) # {}
    <2>1. ASSUME NEW p \in Own(book, i) PROVE \E q \in DOMAIN c_getOrderInfo(i) : c_getOrderInfo(i)[q] = book[p]
      <3>1. ~Pending(book[p].type)
        BY DEF Pending, KantuOf, Positions
      <3> QED
        BY <1>1, <3>1, ShownOrders DEF Types, WorldTypes
    <2> QED
      BY <1>2, <2>1 DEF Held
  <1>4. OpensFirst(i)'
    BY <1>1, <1>2 DEF KantuOf, OpensFirst, MayOpen, NoneOn, Own, Calling
  <1>5. Positions(i)' /\ Own(book, i)' = Own(book, i)
    BY <1>2 DEF KantuOf, Positions, Own
  <1> QED
    BY <1>2, <1>3, <1>4, <1>5 DEF KantuOf

LEMMA SelectKantu == ASSUME Types, NEW i \in Kantu, KantuOf(i), Select(i) PROVE KantuOf(i)'
  <1>1. i \in Instances /\ pc[i] = "next" /\ UNCHANGED <<book, res, n, sent, failFile>>
    BY DEF Select, Kantu, barState
  <1>2. Shrinks(i)
    BY <1>1, SameShrinks DEF KantuOf
  <1>3. pc'[i] = "next" \/ (pc'[i] = "check" /\ sel'[i] # NoOrder)
    <2>1. CASE k[i] <= Len(book) /\ book[k[i]].owner = i
      <3>1. k[i] \in 1..Len(book)
        BY <1>1, <2>1, LiveAssumption DEF Select, Types, WalkTypes, WorldTypes
      <3>2. book[k[i]] \in Orders
        BY <3>1 DEF Types, WorldTypes
      <3>3. book[k[i]] # NoOrder
        BY <3>2 DEF Orders, NoOrder
      <3>4. sel' = [sel EXCEPT ![i] = book[k[i]]] /\ pc' = [pc EXCEPT ![i] = "check"]
        BY <2>1 DEF Select
      <3> QED
        BY <1>1, <3>3, <3>4 DEF Types, WalkTypes
    <2>2. CASE ~(k[i] <= Len(book) /\ book[k[i]].owner = i)
      <3>1. UNCHANGED pc
        BY <2>2 DEF Select
      <3> QED
        BY <1>1, <3>1
    <2> QED
      BY <2>1, <2>2
  <1>4. \A side : MayOpen(i, side) => MayOpen(i, side)'
    BY <1>1, <1>2, <1>3, ShrunkNone DEF MayOpen, Calling
  <1> QED
    BY <1>1, <1>2, <1>3, <1>4, MovedKantu

LEMMA NextResultKantu == ASSUME Types, NEW i \in Kantu, KantuOf(i), NextResult(i) PROVE KantuOf(i)'
  <1>1. /\ i \in Instances /\ pc[i] = "next" /\ pc' = [pc EXCEPT ![i] = "check"]
        /\ n' = [n EXCEPT ![i] = Min(ToOpen(i))] /\ UNCHANGED <<book, res, sel, sent, failFile>>
    BY DEF NextResult, Kantu, barState
  <1>2. Shrinks(i)
    BY <1>1, SameShrinks DEF KantuOf
  <1>3. Min(ToOpen(i)) \in ToOpen(i) /\ Min(ToOpen(i)) \in (n[i] + 1)..MaxOpenOrders[i]
        /\ n[i] \in Nat /\ MaxOpenOrders[i] \in Nat
    <2>0. i \in Instances
      BY DEF Kantu
    <2>1. n[i] \in Nat /\ MaxOpenOrders[i] \in Nat
      BY <2>0, LiveAssumption DEF Types, ResultTypes
    <2>2. ToOpen(i) # {}
      BY DEF NextResult
    <2> QED
      BY <1>1, <2>1, <2>2, NextIsAhead
  <1>4. Min(ToOpen(i)) = 1
    <2>1. PICK type \in OrderTypes : <<"OPEN", type>> \in res[i][Min(ToOpen(i))].signals
      BY <1>3 DEF ToOpen
    <2>2. Min(ToOpen(i)) \in 1..MaxOpenOrders[i]
      BY <1>3
    <2> QED
      BY <2>1, <2>2 DEF KantuOf, OpensFirst
  <1>5. n[i] = 0
    BY <1>3, <1>4
  <1>6. \A side : MayOpen(i, side) => MayOpen(i, side)'
    BY <1>1, <1>2, <1>5, ShrunkNone DEF MayOpen
  <1>7. pc'[i] = "check"
    BY <1>1 DEF Types
  <1> QED
    BY <1>1, <1>2, <1>6, <1>7, MovedKantu

LEMMA FinishKantu == ASSUME Types, NEW i \in Kantu, KantuOf(i), Finish(i) PROVE KantuOf(i)'
  <1>1. /\ i \in Instances /\ pc[i] = "next" /\ pc' = [pc EXCEPT ![i] = "idle"]
        /\ res' = [res EXCEPT ![i] = [r \in DOMAIN @ |-> [@[r] EXCEPT !.stops = "none"]]]
        /\ UNCHANGED <<book, sel, sent, failFile>>
    BY DEF Finish, Kantu, barState
  <1>2. Shrinks(i)
    BY <1>1, SameShrinks DEF KantuOf
  <1>3. pc'[i] = "idle"
    BY <1>1 DEF Types
  <1>4. \A r \in 1..MaxOpenOrders[i] : res'[i][r].signals = res[i][r].signals
    <2>1. res'[i] = [r \in DOMAIN res[i] |-> [res[i][r] EXCEPT !.stops = "none"]]
      BY <1>1 DEF Types, ResultTypes
    <2>2. res[i] \in [1..MaxOpenOrders[i] -> Results]
      BY <1>1 DEF Types, ResultTypes, ResultArrays
    <2>3. \A x \in Results : [x EXCEPT !.stops = "none"].signals = x.signals
      BY DEF Results
    <2> QED
      BY <2>1, <2>2, <2>3
  <1>5. \A side : MayOpen(i, side) => MayOpen(i, side)'
    BY <1>1, <1>2, <1>3, ShrunkNone DEF MayOpen
  <1>6. OpensFirst(i)'
    BY <1>4, <1>5 DEF KantuOf, OpensFirst
  <1> QED
    BY <1>2, <1>3, <1>6 DEF KantuOf, Shrinks

LEMMA CallingKantu ==
    ASSUME Types, NEW i \in Kantu, KantuOf(i), CheckMutex(i) \/ CreateMutex(i) \/ Lock(i) \/ LockFails(i)
    PROVE  KantuOf(i)'
  <1>1. i \in Instances /\ pc[i] \in Calling /\ UNCHANGED <<book, res, n, sent, failFile>>
    BY DEF CheckMutex, CreateMutex, Lock, LockFails, Kantu, barState, locals, Calling
  <1>2. pc'[i] = "next" \/ (pc'[i] \in Calling /\ sel'[i] = sel[i])
    <2>1. pc \in [Instances -> States]
      BY DEF Types
    <2>2. CASE LockFails(i)
      <3>1. pc' = [pc EXCEPT ![i] = "next"] /\ i \in Instances
        BY <2>2 DEF LockFails, Kantu
      <3> QED
        BY <2>1, <3>1
    <2>3. CASE CheckMutex(i) \/ CreateMutex(i) \/ Lock(i)
      BY <1>1, <2>1, <2>3 DEF CheckMutex, CreateMutex, Lock, locals, Calling
    <2> QED
      BY <2>2, <2>3
  <1>3. Shrinks(i)
    BY <1>1, SameShrinks DEF KantuOf
  <1>4. \A side : MayOpen(i, side) => MayOpen(i, side)'
    BY <1>1, <1>2, <1>3, ShrunkNone DEF MayOpen, Calling
  <1>5. pc'[i] \notin {"library", "unlock"}
    BY <1>2 DEF Calling
  <1> QED
    BY <1>1, <1>3, <1>4, <1>5, MovedKantu

\* The call of another instance leaves the orders of this one, that of its own removes or modifies one.
LEMMA HandledShrinks ==
    ASSUME Types, NEW i \in Instances, HandleOrder(i), NEW j, Positions(j)
    PROVE  Shrinks(j)
  <1>1. ASSUME NEW p \in 1..Len(book), book' = RemoveAt(book, p) PROVE Shrinks(j)
    BY <1>1, RemovedShrinks
  <1>2. ASSUME NEW stops \in Stops, book' = Modified(book, sel[i].ticket, stops) PROVE Shrinks(j)
    <2>1. book \in Seq(Orders)
      BY DEF Types, WorldTypes
    <2>2. /\ book' \in Seq(Orders) /\ Len(book') = Len(book)
          /\ \A p \in 1..Len(book) : book'[p].owner = book[p].owner /\ book'[p].type = book[p].type
      BY <1>2, <2>1, ModifiedParts
    <2>3. DOMAIN book' = DOMAIN book /\ DOMAIN book = 1..Len(book)
      BY <2>1, <2>2
    <2>4. \A p \in Own(book, j) : book'[p].type = book[p].type
      BY <2>2, <2>3 DEF Own
    <2> QED
      BY <2>2, <2>3, <2>4, ChangedShrinks
  <1> QED
    BY <1>1, <1>2, HandleOrderBook, SameShrinks

LEMMA HandleOrderKantu == ASSUME Types, NEW i \in Kantu, KantuOf(i), HandleOrder(i) PROVE KantuOf(i)'
  <1>1. /\ i \in Instances /\ pc[i] = "broker" /\ sel[i] # NoOrder /\ pc' = [pc EXCEPT ![i] = "unlock"]
        /\ UNCHANGED <<res, n, sel, sent>>
    BY DEF HandleOrder, Kantu, locals
  <1>2. Shrinks(i)
    BY <1>1, HandledShrinks DEF KantuOf
  <1>3. pc'[i] = "unlock" /\ sent[i] = 0
    BY <1>1 DEF Types, ToSend
  <1>4. failFile[i] => failFile'[i]
    BY <1>1, HandleOrderBook
  <1>5. \A side : MayOpen(i, side) => MayOpen(i, side)'
    BY <1>1, <1>2, <1>3, <1>4, ShrunkNone DEF MayOpen
  <1> QED
    BY <1>1, <1>2, <1>3, <1>5, MovedKantu

\* The order that is sent is the first on its side.
LEMMA SendOrderKantu == ASSUME Types, NEW i \in Kantu, KantuOf(i), SendOrder(i) PROVE KantuOf(i)'
  <1>1. /\ i \in Instances /\ pc[i] = "broker" /\ sel[i] = NoOrder /\ pc' = [pc EXCEPT ![i] = "unlock"]
        /\ UNCHANGED <<res, n, sel, failFile>>
    BY DEF SendOrder, Kantu
  <1>2. n[i] \in 1..MaxOpenOrders[i] /\ Opens(res[i][n[i]])
    BY <1>1, LiveAssumption DEF Types, ToSend, Calling, ResultTypes
  <1>3. n[i] = 1
    BY <1>2 DEF KantuOf, OpensFirst, Opens
  <1>4. pc'[i] = "unlock" /\ sent'[i] # 0
    BY <1>1, SendOrderBook DEF Types
  <1>5. Positions(i)'
    <2>1. CASE book' = book
      BY <2>1 DEF KantuOf, Positions, Own
    <2>2. ASSUME NEW o \in Orders, o.owner = i, <<"OPEN", o.type>> \in res[i][n[i]].signals, book' = Append(book, o)
          PROVE  Positions(i)'
      <3>1. o.type \in Sides /\ MayOpen(i, o.type)
        BY <1>2, <2>2 DEF KantuOf, OpensFirst
      <3>2. NoneOn(i, o.type)
        BY <1>1, <3>1 DEF MayOpen, Calling
      <3>3. book \in Seq(Orders)
        BY DEF Types, WorldTypes
      <3>4. /\ DOMAIN book = 1..Len(book) /\ DOMAIN book' = 1..Len(book) + 1 /\ Len(book) \in Nat
            /\ \A p \in 1..Len(book) : book'[p] = book[p]
            /\ book'[Len(book) + 1] = o
        BY <2>2, <3>3
      <3>5. \A p \in Own(book, i)' : (p \in Own(book, i) /\ book'[p] = book[p]) \/ p = Len(book) + 1
        BY <3>4 DEF Own
      <3> QED
        BY <3>1, <3>2, <3>4, <3>5 DEF KantuOf, Positions, NoneOn
    <2> QED
      BY <1>1, <2>1, <2>2, SendOrderBook
  <1>6. OpensFirst(i)'
    BY <1>1, <1>4 DEF KantuOf, OpensFirst, MayOpen
  <1> QED
    BY <1>1, <1>3, <1>4, <1>5, <1>6 DEF KantuOf

LEMMA UnlockKantu == ASSUME Types, NEW i \in Kantu, KantuOf(i), Unlock(i) PROVE KantuOf(i)'
  <1>1. /\ i \in Instances /\ pc[i] = "unlock" /\ pc' = [pc EXCEPT ![i] = "next"] /\ UNCHANGED <<book, n>>
    BY DEF Unlock, Kantu
  <1>2. Shrinks(i)
    BY <1>1, SameShrinks DEF KantuOf
  <1>3. pc'[i] = "next"
    BY <1>1 DEF Types
  <1>4. CASE sent[i] = 0
    <2>1. UNCHANGED <<res, failFile>>
      BY <1>4 DEF Unlock, NoTicket
    <2>2. \A side : MayOpen(i, side) => MayOpen(i, side)'
      BY <1>1, <1>2, <1>3, <1>4, <2>1, ShrunkNone DEF MayOpen, Calling
    <2> QED
      BY <1>2, <1>3, <2>1, <2>2, MovedKantu
  <1>5. CASE sent[i] = NoTicket
    <2>1. UNCHANGED res /\ failFile' = [failFile EXCEPT ![i] = TRUE]
      BY <1>5 DEF Unlock, NoTicket
    <2>2. n[i] = 1 /\ failFile'[i]
      BY <1>1, <1>5, <2>1 DEF KantuOf, NoTicket, Types, BarTypes
    <2>3. \A side : MayOpen(i, side)'
      BY <1>1, <1>3, <2>2 DEF MayOpen, Calling
    <2> QED
      BY <1>2, <1>3, <2>1, <2>3, MovedKantu
  <1>6. CASE sent[i] \notin {0, NoTicket}
    <2>1. /\ n[i] \in 1..MaxOpenOrders[i] /\ res'[i][n[i]].signals = {}
          /\ \A r \in 1..MaxOpenOrders[i] : r # n[i] => res'[i][r] = res[i][r]
      BY <1>1, <1>6, AnsweredResult
    <2>2. n[i] = 1
      BY <1>1, <1>6 DEF KantuOf
    <2>3. OpensFirst(i)'
      BY <2>1, <2>2 DEF KantuOf, OpensFirst
    <2> QED
      BY <1>2, <1>3, <2>3 DEF KantuOf, Shrinks
  <1> QED
    BY <1>4, <1>5, <1>6

LEMMA KillKantu == ASSUME Types, NEW i \in Kantu, KantuOf(i), Kill(i) PROVE KantuOf(i)'
  <1>1. /\ i \in Instances /\ pc' = [pc EXCEPT ![i] = "dead"] /\ UNCHANGED book
        /\ res' = [res EXCEPT ![i] = NoResults(MaxOpenOrders[i])]
    BY DEF Kill, Kantu
  <1>2. pc'[i] = "dead" /\ res'[i] = NoResults(MaxOpenOrders[i])
    BY <1>1 DEF Types, ResultTypes
  <1>3. \A r \in 1..MaxOpenOrders[i] : NoResults(MaxOpenOrders[i])[r].signals = {}
    BY DEF NoResults
  <1>4. OpensFirst(i)'
    BY <1>2, <1>3 DEF OpensFirst
  <1> QED
    BY <1>1, <1>2, <1>4 DEF KantuOf, Positions, Own

LEMMA RestartKantu == ASSUME Types, NEW i \in Kantu, KantuOf(i), Restart(i) PROVE KantuOf(i)'
  <1>1. /\ i \in Instances /\ pc[i] = "dead" /\ pc' = [pc EXCEPT ![i] = "idle"]
        /\ UNCHANGED <<book, res, n, sel, sent, failFile>>
    BY DEF Restart, Kantu, locals, barState
  <1>2. Shrinks(i)
    BY <1>1, SameShrinks DEF KantuOf
  <1>3. pc'[i] = "idle"
    BY <1>1 DEF Types
  <1>4. \A side : MayOpen(i, side) => MayOpen(i, side)'
    BY <1>1, <1>2, ShrunkNone DEF MayOpen, Calling
  <1> QED
    BY <1>1, <1>2, <1>3, <1>4, MovedKantu

\* A step of another instance.
LEMMA OtherKantu ==
    ASSUME Types, NEW i \in Kantu, KantuOf(i), NEW j \in Instances, j # i, NewBar(j) \/ Step(j) \/ Kill(j) \/ Restart(j)
    PROVE  KantuOf(i)'
  <1>1. i \in Instances /\ Positions(i)
    BY DEF Kantu, KantuOf
  <1>2. Shrinks(i)
    <2>1. CASE HandleOrder(j)
      BY <1>1, <2>1, HandledShrinks
    <2>2. CASE SendOrder(j)
      BY <1>1, <2>2, SendOrderBook, SameShrinks, AppendedShrinks
    <2>3. CASE book' = book
      BY <1>1, <2>3, SameShrinks
    <2>4. book' = book \/ HandleOrder(j) \/ SendOrder(j)
      BY DEF NewBar, Step, Kill, Restart, Snapshot, RunStrategy, Select, NextResult, Finish, CheckMutex,
         CreateMutex, Lock, LockFails, Unlock
    <2> QED
      BY <2>1, <2>2, <2>3, <2>4
  <1>3. pc'[i] = pc[i]
    BY <1>1 DEF Types, NewBar, Step, Kill, Restart, Snapshot, RunStrategy, Select, NextResult, Finish,
       CheckMutex, CreateMutex, Lock, LockFails, HandleOrder, SendOrder, Unlock
  <1>4. shown'[i] = shown[i] /\ sel'[i] = sel[i] /\ n'[i] = n[i]
    BY <1>1 DEF Types, WalkTypes, ResultTypes, NewBar, Step, Kill, Restart, Snapshot, RunStrategy, Select,
       NextResult, Finish, CheckMutex, CreateMutex, Lock, LockFails, HandleOrder, SendOrder, Unlock, locals
  <1>5. sent'[i] = sent[i]
    <2>1. CASE SendOrder(j)
      BY <1>1, <2>1, SendOrderBook
    <2>2. CASE Unlock(j) \/ Kill(j)
      BY <1>1, <2>2 DEF Unlock, Kill, Types, WalkTypes
    <2>3. CASE sent' = sent
      BY <2>3
    <2>4. sent' = sent \/ SendOrder(j) \/ Unlock(j) \/ Kill(j)
      BY DEF NewBar, Step, Restart, Snapshot, RunStrategy, Select, NextResult, Finish, CheckMutex,
         CreateMutex, Lock, LockFails, HandleOrder, locals
    <2> QED
      BY <2>1, <2>2, <2>3, <2>4
  <1>6. res'[i] = res[i]
    <2>1. CASE RunStrategy(j)
      BY <1>1, <2>1, RunStrategyResults
    <2>2. CASE Unlock(j)
      <3>1. res' = res \/ sent[j] \notin {0, NoTicket}
        BY <2>2 DEF Unlock, NoTicket
      <3> QED
        BY <1>1, <2>2, <3>1, AnsweredResult
    <2>3. CASE Finish(j) \/ Kill(j)
      BY <1>1, <2>3 DEF Finish, Kill, Types, ResultTypes
    <2>4. CASE res' = res
      BY <2>4
    <2>5. res' = res \/ RunStrategy(j) \/ Unlock(j) \/ Finish(j) \/ Kill(j)
      BY DEF NewBar, Step, Restart, Snapshot, Select, NextResult, CheckMutex, CreateMutex, Lock, LockFails,
         HandleOrder, SendOrder, locals
    <2> QED
      BY <2>1, <2>2, <2>3, <2>4, <2>5
  <1>7. failFile'[i] = failFile[i]
    <2>1. CASE HandleOrder(j)
      BY <1>1, <2>1, HandleOrderBook
    <2>2. CASE RunStrategy(j)
      BY <1>1, <2>2 DEF RunStrategy, Types, BarTypes
    <2>3. CASE Unlock(j)
      <3>1. failFile' = failFile \/ failFile' = [failFile EXCEPT ![j] = TRUE]
        BY <2>3 DEF Unlock, NoTicket
      <3> QED
        BY <1>1, <3>1 DEF Types, BarTypes
    <2>4. failFile' = failFile \/ HandleOrder(j) \/ RunStrategy(j) \/ Unlock(j)
      BY DEF NewBar, Step, Kill, Restart, Snapshot, Select, NextResult, Finish, CheckMutex, CreateMutex,
         Lock, LockFails, SendOrder, locals, barState
    <2> QED
      BY <2>1, <2>2, <2>3, <2>4
  <1> QED
    BY <1>2, <1>3, <1>4, <1>5, <1>6, <1>7, QuietKantu

LEMMA NextKantu == Types /\ KantuInv /\ [Next]_vars => KantuInv'
  <1> SUFFICES ASSUME Types, [Next]_vars, NEW i \in Kantu, KantuOf(i) PROVE KantuOf(i)'
    BY DEF KantuInv
  <1>1. ASSUME NEW j \in Instances, NewBar(j) \/ Step(j) \/ Kill(j) \/ Restart(j) PROVE KantuOf(i)'
    <2>1. CASE j # i
      BY <1>1, <2>1, OtherKantu
    <2>2. CASE NewBar(i)
      <3>1. UNCHANGED <<book, pc, res, n, sel, sent, failFile, shown>>
        BY <2>2 DEF NewBar, locals
      <3> QED
        BY <3>1, SameShrinks, QuietKantu DEF KantuOf
    <2>3. CASE Step(i)
      BY <2>3, SnapshotKantu, RunStrategyKantu, SelectKantu, NextResultKantu, FinishKantu, CallingKantu,
         HandleOrderKantu, SendOrderKantu, UnlockKantu DEF Step
    <2> QED
      BY <1>1, <2>1, <2>2, <2>3, KillKantu, RestartKantu
  <1>2. CASE MarketCloses
    <2>1. UNCHANGED <<pc, res, n, sel, sent, failFile, shown>>
      BY <1>2 DEF MarketCloses, locals
    <2>2. \E p \in 1..Len(book) : book' = RemoveAt(book, p)
      BY <1>2 DEF MarketCloses, Types, WorldTypes
    <2> QED
      BY <2>1, <2>2, RemovedShrinks, QuietKantu DEF KantuOf
  <1>3. CASE MarketFills
    <2>1. UNCHANGED <<pc, res, n, sel, sent, failFile, shown>>
      BY <1>3 DEF MarketFills, locals, barState
    <2>2. PICK p \in DOMAIN book : Pending(book[p].type) /\ book' = [book EXCEPT ![p].type = SideOf(@)]
      BY <1>3 DEF MarketFills
    <2>3. book \in Seq(Orders)
      BY DEF Types, WorldTypes
    <2>4. /\ DOMAIN book' = DOMAIN book
          /\ \A q \in DOMAIN book : book'[q].owner = book[q].owner /\ (q # p => book'[q] = book[q])
      BY <2>2, <2>3, FilledParts
    <2>5. \A q \in Own(book, i) : book'[q].type = book[q].type
      BY <2>2, <2>4 DEF KantuOf, Positions, Pending, Own
    <2>6. Shrinks(i)
      BY <2>4, <2>5, ChangedShrinks DEF KantuOf
    <2> QED
      BY <2>1, <2>6, QuietKantu
  <1>4. CASE DeleteMutex \/ UNCHANGED vars
    <2>1. UNCHANGED <<book, pc, res, n, sel, sent, failFile, shown>>
      BY <1>4 DEF DeleteMutex, vars, locals, barState
    <2> QED
      BY <2>1, SameShrinks, QuietKantu DEF KantuOf
  <1> QED
    BY <1>1, <1>2, <1>3, <1>4 DEF Next

\* Kantu never has two orders on a side, whatever is refused, whichever answers are lost and
\* whenever it is killed: a result that may have been carried out already is not acted on again
\* before the library has seen the orders there are.
THEOREM KantuOneOrder == Spec => []OneOrderPerSide
  <1>1. KantuInv => OneOrderPerSide
    BY DEF KantuInv, KantuOf, Positions, Own, OneOrderPerSide
  <1> QED
    BY <1>1, InitTypes, NextTypes, InitKantu, NextKantu, PTL DEF Spec

=============================================================================
