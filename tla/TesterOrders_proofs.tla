------------------------- MODULE TesterOrders_proofs -------------------------
(***************************************************************************)
(* Proofs about TesterOrders, for any number of systems, orders, results   *)
(* and bars: the open orders are the first places of the array and counted *)
(* right, closeOrder leaves none it was for, no system's open orders are   *)
(* touched by another, and the balance is explained by the closed ones.    *)
(* What they rest on is how the array moves when an order is closed        *)
(* (ClosedAt) and that a new one takes the first place behind the open     *)
(* ones, which a closed one has only when no place is unused.              *)
(***************************************************************************)
EXTENDS TesterOrders, InductionLemmas

AllTypes == LongTypes \cup ShortTypes \cup {"none"}
Orders == [ticket : Int, owner : Systems \cup {0}, type : AllTypes,
           open : BOOLEAN, since : Int, value : Int]

Typed ==
    /\ book \in [Positions -> Orders]
    /\ count \in [Sides -> Int]
    /\ totalTrades \in Int /\ clock \in Int /\ forgotten \in Int /\ i \in [Systems -> Int]
    /\ s \in Systems /\ m \in Nat /\ side \in Sides
    /\ systemOrders \subseteq [ticket : Int, type : AllTypes]
    /\ closing \in [type : AllTypes, ticket : Int, n : Nat, bound : Nat, sum : Int,
                    found : BOOLEAN]

\* The open orders are in front, and each has an owner.
InFront ==
    /\ Total \in 0..MaxOrders
    /\ \A k \in Positions : book[k].open <=> k < Total
    /\ \A k \in Positions : book[k].open => book[k].owner \in Systems

\* Between the open and the closed orders are the unused places.
UnusedBetween ==
    \A j, k \in Positions :
        (j < k /\ book[k] = Unused /\ ~book[j].open) => book[j] = Unused

OnSide(d) == {k \in OpenPositions : SideOf(book[k].type) = d}
Counted == \A d \in Sides : count[d] = Cardinality(OnSide(d))

\* closeOrder has closed what it was for in the places it has been at.
SweptBehind ==
    at = "closing" =>
        /\ Total <= closing.bound /\ closing.bound <= MaxOrders
        /\ \A k \in Positions : k < closing.n => ~Matches(book[k])

IInv == Typed /\ InFront /\ UnusedBetween /\ Counted /\ SweptBehind

-----------------------------------------------------------------------------
USE TesterAssumption

LEMMA SideType == \A type : SideOf(type) \in Sides /\ SideOf(SideOf(type)) = SideOf(type)
  BY DEF SideOf, Sides, LongTypes

LEMMA TotalIn == Typed => Total \in Int
  BY DEF Typed, Total, Sides

LEMMA InitIInv == Init => IInv
  <1> SUFFICES ASSUME Init PROVE IInv
    OBVIOUS
  <1>1. Typed
    BY DEF Init, Typed, Orders, Unused, AllTypes, NoClosing, Systems, Sides
  <1>2. Total = 0
    BY DEF Init, Total, Sides
  <1>3. InFront /\ UnusedBetween
    BY <1>2 DEF Init, InFront, UnusedBetween, Positions, Unused
  <1>4. \A d \in Sides : OnSide(d) = {}
    BY DEF Init, OnSide, OpenPositions, Unused
  <1>5. Counted
    BY <1>4, FS_EmptySet DEF Init, Counted
  <1>6. SweptBehind
    BY DEF Init, SweptBehind
  <1> QED
    BY <1>1, <1>3, <1>5, <1>6 DEF IInv

-----------------------------------------------------------------------------
(* Closing the order at a place of the array. *)

LEMMA ClosedOrder ==
  ASSUME NEW o \in Orders, NEW p \in Int
  PROVE  /\ Close(o, p) \in Orders
         /\ ~Close(o, p).open /\ Close(o, p).owner = o.owner
  <1>1. \A q \in Int : [o EXCEPT !.open = FALSE, !.value = q] \in Orders
    BY Zenon DEF Orders
  <1>2. o.value + p \in Int
    BY DEF Orders
  <1>3. Close(o, p) = [o EXCEPT !.open = FALSE, !.value = o.value + p]
    BY DEF Close
  <1> QED
    BY <1>1, <1>2, <1>3 DEF Orders

LEMMA SwappedOrder ==
  ASSUME NEW o \in Orders, NEW c, c = [o EXCEPT !.value = @ + Swap]
  PROVE  c \in Orders /\ c.open = o.open /\ c.owner = o.owner /\ c.type = o.type
  BY DEF Orders

LEMMA SummedClosing ==
  ASSUME Typed, NEW o \in Orders, NEW p \in Int, closing' = Summed(o, p)
  PROVE  /\ closing' \in [type : AllTypes, ticket : Int, n : Nat, bound : Nat, sum : Int,
                          found : BOOLEAN]
         /\ closing'.n = closing.n /\ closing'.bound = closing.bound
         /\ closing'.type = closing.type /\ closing'.ticket = closing.ticket
  <1> DEFINE Closings == [type : AllTypes, ticket : Int, n : Nat, bound : Nat, sum : Int,
                          found : BOOLEAN]
  <1>1. \A q \in Int : [closing EXCEPT !.sum = q, !.found = TRUE] \in Closings
    BY Zenon DEF Typed
  <1>2. closing.sum + o.value + p \in Int
    BY DEF Orders, Typed
  <1>3. closing' = [closing EXCEPT !.sum = closing.sum + o.value + p, !.found = TRUE]
    BY DEF Summed
  <1> QED
    BY <1>1, <1>2, <1>3 DEF Typed

\* What is where after the array has moved.
LEMMA Moved ==
  ASSUME NEW k \in Positions, NEW o, book' = ClosedAt(k, o)
  PROVE  /\ \A j \in Positions : j < k => book'[j] = book[j]
         /\ \A j \in Positions : (j >= k /\ j < MaxOrders - 1) => j + 1 \in Positions /\ book'[j] = book[j + 1]
         /\ \A j \in Positions : (j >= k /\ j >= MaxOrders - 1) => book'[j] = o
  BY DEF ClosedAt, Positions

LEMMA ClosedType ==
  ASSUME Typed, NEW k \in Positions, NEW o \in Orders, book' = ClosedAt(k, o)
  PROVE  book' \in [Positions -> Orders]
  <1>1. \A j \in Positions : book'[j] \in Orders
    BY Moved DEF Typed, Positions
  <1> QED
    BY <1>1 DEF ClosedAt

\* A side loses the place of the closed order; the places behind it move up by one.
LEMMA ClosedOnSide ==
  ASSUME Typed, InFront, NEW k \in Positions, book[k].open,
         NEW o \in Orders, ~o.open, book' = ClosedAt(k, o), NEW d \in Sides
  PROVE  Cardinality(OnSide(d)') = IF SideOf(book[k].type) = d THEN Cardinality(OnSide(d)) - 1
                                   ELSE Cardinality(OnSide(d))
  <1> DEFINE S == OnSide(d) \ {k}
             T == OnSide(d)'
             f == [j \in S |-> IF j < k THEN j ELSE j - 1]
  <1>1. IsFiniteSet(OnSide(d))
    <2>1. IsFiniteSet(Positions)
      BY FS_Interval DEF Positions
    <2>2. OnSide(d) \in SUBSET Positions
      BY DEF OnSide, OpenPositions
    <2> QED
      BY <2>1, <2>2, FS_Subset
  <1>2. IsFiniteSet(S) /\ Cardinality(S) = IF SideOf(book[k].type) = d THEN Cardinality(OnSide(d)) - 1
                                           ELSE Cardinality(OnSide(d))
    <2>1. k \in OnSide(d) <=> SideOf(book[k].type) = d
      BY DEF OnSide, OpenPositions
    <2> QED
      BY <2>1, <1>1, FS_RemoveElement
  <1>3. \A j \in Positions : j \in T <=> \/ j < k /\ j \in OnSide(d)
                                         \/ j >= k /\ j + 1 \in OnSide(d)
    BY Moved DEF OnSide, OpenPositions, Positions
  <1>4. f \in [S -> T]
    <2> SUFFICES ASSUME NEW j \in S PROVE f[j] \in T
      OBVIOUS
    <2>1. j \in Int /\ j >= 0 /\ j < MaxOrders /\ k \in Int /\ j # k /\ j \in OnSide(d)
      BY DEF OnSide, OpenPositions, Positions
    <2>2. CASE j < k
      BY <2>1, <2>2, <1>3 DEF Positions
    <2>3. CASE j > k
      <3>1. j - 1 \in Positions /\ j - 1 >= k /\ (j - 1) + 1 = j
        BY <2>1, <2>3 DEF Positions
      <3> QED
        BY <3>1, <2>1, <2>3, <1>3
    <2> QED
      BY <2>1, <2>2, <2>3
  <1>5. \A a, b \in S : f[a] = f[b] => a = b
    BY DEF OnSide, OpenPositions, Positions
  <1>6. \A t \in T : \E j \in S : f[j] = t
    <2> SUFFICES ASSUME NEW t \in T PROVE \E j \in S : f[j] = t
      OBVIOUS
    <2>1. t \in Positions
      BY DEF OnSide, OpenPositions
    <2>2. CASE t < k
      BY <2>1, <2>2, <1>3 DEF Positions
    <2>3. CASE t >= k
      <3>1. t + 1 \in S
        BY <2>1, <2>3, <1>3 DEF Positions
      <3>2. f[t + 1] = t
        BY <3>1, <2>1, <2>3 DEF Positions
      <3> QED
        BY <3>1, <3>2
    <2> QED
      BY <2>1, <2>2, <2>3 DEF Positions
  <1>7. f \in Bijection(S, T)
    BY <1>4, <1>5, <1>6 DEF Bijection, Injection, Surjection, IsInjective
  <1>8. Cardinality(T) = Cardinality(S)
    BY <1>2, <1>7, FS_Bijection DEF ExistsBijection
  <1> QED
    BY <1>2, <1>8

LEMMA CloseKeepsBook ==
  ASSUME Typed, InFront, UnusedBetween, Counted,
         NEW k \in Positions, book[k].open, NEW o \in Orders, ~o.open, o.owner \in Systems,
         book' = ClosedAt(k, o), count' = CountedOut(book[k].type)
  PROVE  /\ book' \in [Positions -> Orders] /\ count' \in [Sides -> Int]
         /\ InFront' /\ UnusedBetween' /\ Counted'
         /\ Total' = Total - 1
  <1>1. book' \in [Positions -> Orders]
    BY ClosedType
  <1>2. SideOf(book[k].type) \in Sides
    BY SideType
  <1>3. /\ count' \in [Sides -> Int]
        /\ \A d \in Sides : count'[d] = IF SideOf(book[k].type) = d THEN count[d] - 1 ELSE count[d]
    BY <1>2 DEF CountedOut, Typed
  <1>4. Total' = Total - 1 /\ Total \in Int /\ k < Total
    BY <1>2, <1>3 DEF Total, Sides, Typed, InFront
  <1>5. \A j \in Positions : book'[j].open <=> j < Total - 1
    BY Moved, <1>4 DEF InFront, Positions
  <1>6. \A j \in Positions : book'[j].open => book'[j].owner \in Systems
    BY Moved DEF InFront, Positions
  <1>7. InFront'
    BY <1>4, <1>5, <1>6 DEF InFront, Positions
  <1>8. UnusedBetween'
    <2> SUFFICES ASSUME NEW a \in Positions, NEW b \in Positions, a < b, book'[b] = Unused, ~book'[a].open
                 PROVE  book'[a] = Unused
      BY DEF UnusedBetween
    <2>1. o # Unused
      BY DEF Unused, Systems
    <2>2. a >= k
      <3>1. ASSUME a < k PROVE book'[a].open
        BY <3>1, Moved, <1>4 DEF InFront, Positions
      <3> QED
        BY <3>1 DEF Positions
    <2>3. /\ a + 1 \in Positions /\ book'[a] = book[a + 1]
          /\ b + 1 \in Positions /\ book'[b] = book[b + 1]
      BY <2>1, <2>2, Moved DEF Positions
    <2>4. a + 1 < b + 1
      BY DEF Positions
    <2> QED
      BY <2>3, <2>4 DEF UnusedBetween
  <1>9. Counted'
    BY <1>3, ClosedOnSide DEF Counted
  <1> QED
    BY <1>1, <1>3, <1>4, <1>7, <1>8, <1>9

-----------------------------------------------------------------------------
(* The other things that happen to the array. *)

\* Orders change, but not which are open, whose they are, on which side, and which places are unused.
LEMMA SamePlaces ==
  ASSUME Typed, InFront, UnusedBetween, Counted, count' = count,
         \A k \in Positions : /\ book'[k].open = book[k].open
                              /\ book'[k].owner = book[k].owner
                              /\ SideOf(book'[k].type) = SideOf(book[k].type)
                              /\ book'[k] = Unused <=> book[k] = Unused
  PROVE  InFront' /\ UnusedBetween' /\ Counted' /\ Total' = Total
  <1>1. Total' = Total
    BY DEF Total
  <1>2. \A d \in Sides : OnSide(d)' = OnSide(d)
    BY DEF OnSide, OpenPositions
  <1> QED
    BY <1>1, <1>2 DEF InFront, UnusedBetween, Counted

\* The signals of a strategy are in front of closeOrder, and nothing happens to the array.
LEMMA ArrayUnchanged ==
  ASSUME IInv, Typed', UNCHANGED <<book, count>>, at' # "closing"
  PROVE  IInv'
  <1>1. InFront' /\ UnusedBetween' /\ Counted'
    BY SamePlaces DEF IInv
  <1> QED
    BY <1>1 DEF IInv, SweptBehind

LEMMA CheckOrderStep == IInv /\ CheckOrder => IInv'
  <1> SUFFICES ASSUME IInv, CheckOrder PROVE IInv'
    OBVIOUS
  <1> USE DEF IInv
  <1> DEFINE o == Triggered(book[m])
  <1>1. m \in Positions /\ book[m].open /\ book[m] \in Orders /\ book[m].owner \in Systems
    BY DEF CheckOrder, InFront, Positions, Typed
  <1>2. /\ o \in Orders /\ o.open /\ o.owner = book[m].owner
        /\ SideOf(o.type) = SideOf(book[m].type)
    BY <1>1, SideType DEF Triggered, Orders, AllTypes, LongTypes, ShortTypes, Sides, Typed
  <1>3. CASE Stopped(o) /\ \E p \in Profits : book' = ClosedAt(m, Close(o, p)) /\ count' = CountedOut(o.type)
    <2> PICK p \in Profits : book' = ClosedAt(m, Close(o, p)) /\ count' = CountedOut(o.type)
      BY <1>3
    <2>1. Close(o, p) \in Orders /\ ~Close(o, p).open /\ Close(o, p).owner \in Systems
      BY <1>1, <1>2, ClosedOrder
    <2>2. count' = CountedOut(book[m].type)
      BY <1>2 DEF CountedOut
    <2>3. /\ book' \in [Positions -> Orders] /\ count' \in [Sides -> Int]
          /\ InFront' /\ UnusedBetween' /\ Counted'
      BY <1>1, <2>1, <2>2, CloseKeepsBook
    <2>4. Typed'
      BY <2>3 DEF CheckOrder, Typed, counters, progress
    <2> QED
      BY <2>3, <2>4 DEF CheckOrder, SweptBehind
  <1>4. CASE book' = [book EXCEPT ![m] = o] /\ count' = count
    <2>1. book' \in [Positions -> Orders]
      BY <1>2, <1>4 DEF Typed
    <2>2. o # Unused /\ book[m] # Unused
      BY <1>1, <1>2 DEF Unused
    <2>3. InFront' /\ UnusedBetween' /\ Counted'
      BY <1>1, <1>2, <1>4, <2>2, SamePlaces DEF Typed
    <2>4. Typed'
      BY <2>1, <1>4 DEF CheckOrder, Typed, counters, progress
    <2> QED
      BY <2>3, <2>4 DEF CheckOrder, SweptBehind
  <1> QED
    BY <1>3, <1>4 DEF CheckOrder

LEMMA AddInterestStep == IInv /\ AddInterest => IInv'
  <1> SUFFICES ASSUME IInv, AddInterest PROVE IInv'
    OBVIOUS
  <1> USE DEF IInv
  <1>1. \A k \in Positions :
           \/ book'[k] = book[k]
           \/ book[k].open /\ book'[k] = [book[k] EXCEPT !.value = @ + Swap]
    BY DEF AddInterest, InFront
  <1>2. \A k \in Positions :
           /\ book'[k] \in Orders
           /\ book'[k].open = book[k].open /\ book'[k].owner = book[k].owner
           /\ book'[k].type = book[k].type
    <2> TAKE k \in Positions
    <2>1. book[k] \in Orders
      BY DEF Typed
    <2> QED
      BY <1>1, <2>1, SwappedOrder
  <1>7. \A k \in Positions : book'[k] = Unused <=> book[k] = Unused
    <2>1. ~Unused.open
      BY DEF Unused
    <2> QED
      BY <1>1, <1>2, <2>1
  <1>3. book' \in [Positions -> Orders]
    BY <1>2 DEF AddInterest
  <1>4. systemOrders' \subseteq [ticket : Int, type : AllTypes]
    BY DEF AddInterest, OwnOrders, Typed, Orders
  <1>5. Typed'
    BY <1>3, <1>4 DEF AddInterest, Typed, counters, progress, Sides
  <1>6. InFront' /\ UnusedBetween' /\ Counted'
    BY <1>2, <1>7, SamePlaces DEF AddInterest
  <1> QED
    BY <1>5, <1>6 DEF AddInterest, SweptBehind

\* A new order takes no open one's place, and a closed one's only when no place is unused.
LEMMA OpenedPlace ==
  ASSUME IInv, Total < MaxOrders
  PROVE  /\ Total \in Positions /\ ~book[Total].open
         /\ \A k \in Positions : book[k] = Unused => book[Total] = Unused
  <1> USE DEF IInv
  <1>1. Total \in Positions /\ ~book[Total].open
    BY DEF InFront, Positions
  <1>2. ASSUME NEW k \in Positions, book[k] = Unused PROVE book[Total] = Unused
    <2>1. Total <= k
      BY <1>2 DEF InFront, Unused, Positions
    <2> QED
      BY <1>1, <1>2, <2>1 DEF UnusedBetween, Positions
  <1> QED
    BY <1>1, <1>2

LEMMA OpenOrderStep == IInv /\ OpenOrder => IInv'
  <1> SUFFICES ASSUME IInv, OpenOrder PROVE IInv'
    OBVIOUS
  <1> USE DEF IInv
  <1>1. Total \in Positions /\ ~book[Total].open
    BY OpenedPlace DEF OpenOrder
  <1> PICK type \in TypesOf(side) :
          book' = [book EXCEPT ![Total] = [ticket |-> NewTicket, owner |-> s, type |-> type,
                                           open |-> TRUE, since |-> clock, value |-> 0]]
    BY DEF OpenOrder
  <1>2. SideOf(type) = side /\ type \in AllTypes
    BY DEF TypesOf, AllTypes
  <1>3. /\ book'[Total] \in Orders /\ book'[Total].open /\ book'[Total].owner \in Systems
        /\ book'[Total].type = type /\ book'[Total] # Unused
        /\ \A k \in Positions : k # Total => book'[k] = book[k]
    BY <1>1, <1>2 DEF Typed, Orders, NewTicket, Unused, Systems
  <1>4. /\ count' \in [Sides -> Int]
        /\ \A d \in Sides : count'[d] = IF d = side THEN count[d] + 1 ELSE count[d]
        /\ Total' = Total + 1 /\ Total \in Nat
    BY DEF OpenOrder, Typed, Total, Sides, InFront
  <1>5. Typed'
    <2>1. book' \in [Positions -> Orders]
      BY <1>1, <1>3 DEF Typed
    <2>2. totalTrades' \in Int
      BY DEF OpenOrder, Typed
    <2>3. forgotten' \in Int
      BY <1>1 DEF OpenOrder, Typed, Worth, Orders
    <2> QED
      BY <2>1, <2>2, <2>3, <1>4 DEF OpenOrder, Typed, progress
  <1>6. InFront'
    BY <1>1, <1>3, <1>4 DEF InFront, Positions
  <1>7. UnusedBetween'
    BY <1>3 DEF UnusedBetween
  <1>8. \A d \in Sides : /\ OnSide(d)' = IF d = side THEN OnSide(d) \cup {Total} ELSE OnSide(d)
                         /\ Total \notin OnSide(d)
    BY <1>1, <1>2, <1>3 DEF OnSide, OpenPositions
  <1>9. \A d \in Sides : IsFiniteSet(OnSide(d))
    <2>1. IsFiniteSet(Positions)
      BY FS_Interval DEF Positions
    <2>2. \A d \in Sides : OnSide(d) \in SUBSET Positions
      BY DEF OnSide, OpenPositions
    <2> QED
      BY <2>1, <2>2, FS_Subset
  <1>10. Counted'
    BY <1>4, <1>8, <1>9, FS_AddElement DEF Counted
  <1> QED
    BY <1>5, <1>6, <1>7, <1>10 DEF OpenOrder, SweptBehind

\* A turn of the loop of closeOrder: the places behind it keep their orders.
LEMMA CloseOrderStep == IInv /\ CloseOrder => IInv'
  <1> SUFFICES ASSUME IInv, CloseOrder PROVE IInv'
    OBVIOUS
  <1> USE DEF IInv
  <1> DEFINE o == book[closing.n]
  <1>1. closing.n \in Positions /\ o \in Orders /\ closing.n < closing.bound
    BY DEF CloseOrder, SweptBehind, Typed, Positions
  <1>2. CASE Matches(o) /\ \E p \in (IF o.type \in Sides THEN Profits ELSE {0}) :
                              /\ book' = ClosedAt(closing.n, Close(o, p))
                              /\ closing' = Summed(o, p)
                              /\ count' = CountedOut(o.type)
    <2> PICK p \in (IF o.type \in Sides THEN Profits ELSE {0}) :
                /\ book' = ClosedAt(closing.n, Close(o, p))
                /\ closing' = Summed(o, p)
                /\ count' = CountedOut(o.type)
      BY <1>2
    <2>1. p \in Int
      OBVIOUS
    <2>2. Close(o, p) \in Orders /\ ~Close(o, p).open /\ Close(o, p).owner \in Systems
      BY <1>1, <1>2, <2>1, ClosedOrder DEF Matches, Typed
    <2>3. /\ book' \in [Positions -> Orders] /\ count' \in [Sides -> Int]
          /\ InFront' /\ UnusedBetween' /\ Counted' /\ Total' = Total - 1
      BY <1>1, <1>2, <2>2, CloseKeepsBook DEF Matches
    <2>4. /\ closing' \in [type : AllTypes, ticket : Int, n : Nat, bound : Nat, sum : Int,
                           found : BOOLEAN]
          /\ closing'.n = closing.n /\ closing'.bound = closing.bound
          /\ closing'.type = closing.type /\ closing'.ticket = closing.ticket
      BY <1>1, <2>1, SummedClosing
    <2>5. Typed'
      BY <2>3, <2>4 DEF CloseOrder, Typed, counters, progress
    <2>6. \A k \in Positions : k < closing.n => ~Matches(book[k])'
      BY <1>1, <2>4, Moved DEF CloseOrder, SweptBehind, Matches
    <2> QED
      BY <2>3, <2>4, <2>5, <2>6, TotalIn DEF CloseOrder, SweptBehind, InFront
  <1>3. CASE ~Matches(o) /\ closing' = [closing EXCEPT !.n = @ + 1] /\ UNCHANGED <<book, count>>
    <2>1. Typed'
      BY <1>3 DEF CloseOrder, Typed, counters, progress
    <2>2. InFront' /\ UnusedBetween' /\ Counted' /\ Total' = Total
      BY <1>3, SamePlaces
    <2>3. \A k \in Positions : k < closing'.n => ~Matches(book[k])'
      <3>1. /\ closing'.n = closing.n + 1 /\ closing'.bound = closing.bound
            /\ closing'.type = closing.type /\ closing'.ticket = closing.ticket
        BY <1>3 DEF Typed
      <3>2. \A k \in Positions : k < closing'.n => ~Matches(book[k])
        <4>1. closing.n \in Nat /\ Positions \subseteq Int
          BY <1>1 DEF Typed, Positions
        <4>2. \A k \in Positions : k < closing.n => ~Matches(book[k])
          BY <1>1 DEF CloseOrder, SweptBehind
        <4>3. \A k \in Positions : k < closing.n + 1 => k < closing.n \/ k = closing.n
          BY <4>1
        <4> QED
          BY <1>3, <3>1, <4>2, <4>3
      <3> QED
        BY <1>3, <3>1, <3>2 DEF CloseOrder, Matches
    <2> QED
      BY <1>3, <2>1, <2>2, <2>3 DEF CloseOrder, SweptBehind, Typed
  <1> QED
    BY <1>2, <1>3 DEF CloseOrder

-----------------------------------------------------------------------------
(* The visits and the signals. *)

LEMMA NextSystemTyped ==
  ASSUME Typed, NextSystem
  PROVE  s' \in Systems /\ m' \in Nat /\ side' \in Sides /\ systemOrders' = {} /\ at' # "closing"
  BY DEF Typed, NextSystem, Systems, Sides

LEMMA AfterResultTyped ==
  ASSUME Typed, AfterResult
  PROVE  /\ s' \in Systems /\ m' \in Nat /\ side' \in Sides /\ at' # "closing"
         /\ systemOrders' \subseteq [ticket : Int, type : AllTypes]
         /\ i' \in [Systems -> Int]
  BY NextSystemTyped DEF Typed, AfterResult, NextBar, Sides

LEMMA VisitStep == IInv /\ (VisitFinished \/ VisitBar) => IInv'
  <1> SUFFICES ASSUME IInv, VisitFinished \/ VisitBar PROVE IInv'
    OBVIOUS
  <1> USE DEF IInv
  <1>1. CASE VisitFinished
    <2>1. Typed'
      BY <1>1, NextSystemTyped DEF VisitFinished, Typed, counters
    <2> QED
      BY <1>1, <2>1, NextSystemTyped, ArrayUnchanged DEF VisitFinished
  <1>2. CASE VisitBar
    <2> PICK t \in Times :
          /\ i' = [i EXCEPT ![s] = t.bar]
          /\ clock' = t.time
          /\ \/ NextSystem
             \/ at' = "check" /\ UNCHANGED <<s, m, side, systemOrders>>
      BY <1>2 DEF VisitBar
    <2>1. t.bar \in Int /\ t.time \in Int
      BY DEF Times, Typed
    <2>2. /\ s' \in Systems /\ m' \in Nat /\ side' \in Sides /\ at' # "closing"
          /\ systemOrders' \subseteq [ticket : Int, type : AllTypes]
      BY NextSystemTyped DEF Typed
    <2>3. Typed'
      BY <1>2, <2>1, <2>2 DEF VisitBar, Typed, counters
    <2> QED
      BY <1>2, <2>2, <2>3, ArrayUnchanged DEF VisitBar
  <1> QED
    BY <1>1, <1>2

LEMMA SignalStep ==
  IInv /\ (NoOpenSignal \/ OpenRefused \/ NoCloseSignal \/ CloseSignal \/ CloseEnds) => IInv'
  <1> SUFFICES ASSUME IInv, NoOpenSignal \/ OpenRefused \/ NoCloseSignal \/ CloseSignal \/ CloseEnds
               PROVE  IInv'
    OBVIOUS
  <1> USE DEF IInv
  <1>1. CASE NoOpenSignal \/ OpenRefused
    <2>1. Typed'
      BY <1>1 DEF NoOpenSignal, OpenRefused, Typed, counters, progress
    <2> QED
      BY <1>1, <2>1, ArrayUnchanged DEF NoOpenSignal, OpenRefused
  <1>2. CASE NoCloseSignal
    <2>1. Typed'
      BY <1>2, AfterResultTyped DEF NoCloseSignal, Typed, counters
    <2> QED
      BY <1>2, <2>1, AfterResultTyped, ArrayUnchanged DEF NoCloseSignal
  <1>3. CASE CloseSignal
    <2> PICK o \in systemOrders \cup {[ticket |-> AllOrderTickets, type |-> side]} :
          /\ o.type \in TypesOf(side)
          /\ closing' = [type |-> o.type, ticket |-> o.ticket, n |-> 0, bound |-> Total,
                         sum |-> 0, found |-> FALSE]
      BY <1>3 DEF CloseSignal
    <2>1. o.ticket \in Int /\ o.type \in AllTypes
      BY DEF Typed, AllOrderTickets, TypesOf, AllTypes
    <2>2. Typed'
      BY <1>3, <2>1 DEF CloseSignal, Typed, counters, progress, InFront
    <2>3. InFront' /\ UnusedBetween' /\ Counted' /\ Total' = Total
      BY <1>3, SamePlaces DEF CloseSignal
    <2>4. SweptBehind'
      BY <2>3 DEF SweptBehind, InFront, Positions
    <2> QED
      BY <2>2, <2>3, <2>4
  <1>4. CASE CloseEnds
    <2>1. totalTrades' \in Int
      BY <1>4 DEF CloseEnds, CloseReturns, Typed, counters
    <2>2. Typed'
      BY <1>4, <2>1, AfterResultTyped
      DEF CloseEnds, CloseReturns, Typed, NoClosing, AllTypes
    <2> QED
      BY <1>4, <2>2, AfterResultTyped, ArrayUnchanged DEF CloseEnds, CloseReturns
  <1> QED
    BY <1>1, <1>2, <1>3, <1>4

LEMMA NextIInv == IInv /\ [Next]_vars => IInv'
  <1> SUFFICES ASSUME IInv, [Next]_vars PROVE IInv'
    OBVIOUS
  <1>1. CASE EndOfRound
    <2>1. Typed'
      BY <1>1 DEF EndOfRound, IInv, Typed, counters, progress
    <2> QED
      BY <1>1, <2>1, ArrayUnchanged DEF EndOfRound
  <1>2. CASE UNCHANGED vars
    BY <1>2 DEF vars, counters, progress, IInv, Typed, InFront, UnusedBetween, Counted, OnSide,
                OpenPositions, SweptBehind, Total, Matches
  <1> QED
    BY <1>1, <1>2, VisitStep, CheckOrderStep, AddInterestStep, SignalStep, OpenOrderStep,
       CloseOrderStep
    DEF Next, Done

\* The inductive invariant holds in every state, whatever the sizes.
THEOREM Invariance == Spec => []IInv
  BY InitIInv, NextIInv, PTL DEF Spec

(***************************************************************************)
(* The open orders are the first places of the array and the counters of   *)
(* the two sides say how many there are, so that openOrder writes the      *)
(* place behind them, however orders are triggered, stopped, closed one by *)
(* one or all at once.                                                     *)
(***************************************************************************)
THEOREM OpenOrdersInFront == Spec => []BookPacked
  <1>1. IInv => BookPacked
    BY DEF IInv, InFront, Counted, OnSide, OpenPositions, BookPacked
  <1> QED
    BY <1>1, Invariance, PTL

(***************************************************************************)
(* When the loop of closeOrder ends no open order its signal was for is    *)
(* left, although the array moves up under it.                             *)
(***************************************************************************)
THEOREM ClosesAll == Spec => []CloseIsComplete
  <1>1. IInv => CloseIsComplete
    BY DEF IInv, InFront, SweptBehind, CloseIsComplete, Matches, Positions, Typed
  <1> QED
    BY <1>1, Invariance, PTL

-----------------------------------------------------------------------------
(* The orders of the other systems. *)

\* Closing an order moves those of others without changing them.
LEMMA ClosedKeepsOthers ==
  ASSUME Typed, NEW k \in Positions, NEW o, book' = ClosedAt(k, o),
         NEW n \in Systems, book[k].owner # n, o.owner # n
  PROVE  OrdersOf(n)' = OrdersOf(n)
  <1>1. ASSUME NEW j \in Positions, book'[j].owner = n
        PROVE  book'[j] \in OrdersOf(n)
    <2>1. CASE j < k
      BY <1>1, <2>1, Moved DEF OrdersOf
    <2>2. CASE j >= k /\ j < MaxOrders - 1
      BY <1>1, <2>2, Moved DEF OrdersOf
    <2>3. CASE j >= k /\ j >= MaxOrders - 1
      BY <1>1, <2>3, Moved
    <2> QED
      BY <2>1, <2>2, <2>3 DEF Positions
  <1>2. ASSUME NEW j \in Positions, book[j].owner = n
        PROVE  \E j2 \in Positions : book'[j2] = book[j]
    <2>1. CASE j < k
      BY <2>1, Moved
    <2>2. CASE j > k
      <3>1. j - 1 \in Positions /\ j - 1 >= k /\ j - 1 < MaxOrders - 1 /\ (j - 1) + 1 = j
        BY <2>2 DEF Positions
      <3> QED
        BY <3>1, Moved
    <2> QED
      BY <1>2, <2>1, <2>2 DEF Positions
  <1>3. OrdersOf(n)' \subseteq OrdersOf(n)
    BY <1>1 DEF OrdersOf
  <1>4. OrdersOf(n) \subseteq OrdersOf(n)'
    BY <1>2 DEF OrdersOf
  <1> QED
    BY <1>3, <1>4

\* So does writing to a place that is not theirs.
LEMMA ChangedKeepsOthers ==
  ASSUME NEW n \in Systems,
         \A k \in Positions : book'[k] = book[k] \/ (book[k].owner # n /\ book'[k].owner # n)
  PROVE  OrdersOf(n)' = OrdersOf(n)
  BY DEF OrdersOf

\* What may be lost of the orders of a system that is not visited.
OthersKept(n) ==
    /\ OrdersOf(n)' \subseteq OrdersOf(n)
    /\ \A o \in OrdersOf(n) \ OrdersOf(n)' :
          /\ o = book[Total] /\ ~o.open
          /\ Total' = Total + 1
          /\ \A k \in Positions : book[k] # Unused

LEMMA StepKeepsOthers ==
  ASSUME IInv, [Next]_vars, at \in {"check", "open", "close", "closing"}, NEW n \in Systems, n # s
  PROVE  OthersKept(n)
  <1>0. OrdersOf(n)' = OrdersOf(n) => OthersKept(n)
    BY DEF OthersKept
  <1>1. CASE UNCHANGED book
    BY <1>0, <1>1 DEF OrdersOf
  <1>2. CASE CheckOrder
    <2> DEFINE o == Triggered(book[m])
    <2>1. m \in Positions /\ book[m] \in Orders
      BY <1>2 DEF IInv, CheckOrder, InFront, Positions, Typed
    <2>2. o.owner = book[m].owner /\ (o = book[m] \/ book[m].owner = s)
      <3>1. CASE o = book[m]
        BY <3>1
      <3>2. CASE book[m].owner = s /\ o = [book[m] EXCEPT !.type = SideOf(book[m].type), !.since = clock]
        BY <2>1, <3>2 DEF Orders
      <3> QED
        BY <3>1, <3>2 DEF Triggered
    <2>3. CASE Stopped(o) /\ \E p \in Profits : book' = ClosedAt(m, Close(o, p))
      <3> PICK p \in Profits : book' = ClosedAt(m, Close(o, p))
        BY <2>3
      <3>1. Close(o, p).owner = o.owner
        BY DEF Close
      <3>2. book[m].owner = s /\ o.owner = s
        BY <2>2, <2>3 DEF Stopped
      <3> QED
        BY <1>0, <2>1, <3>1, <3>2, ClosedKeepsOthers DEF IInv
    <2>4. CASE book' = [book EXCEPT ![m] = o]
      <3>1. \A k \in Positions : book'[k] = IF k = m THEN o ELSE book[k]
        BY <2>1, <2>4 DEF IInv, Typed
      <3>2. \A k \in Positions : book'[k] = book[k] \/ (book[k].owner # n /\ book'[k].owner # n)
        BY <2>2, <3>1
      <3> QED
        BY <1>0, <3>2, ChangedKeepsOthers
    <2> QED
      BY <1>2, <2>3, <2>4 DEF CheckOrder
  <1>3. CASE AddInterest
    <2>1. \A k \in Positions :
             \/ book'[k] = book[k]
             \/ book[k].owner = s /\ book'[k] = [book[k] EXCEPT !.value = @ + Swap]
      BY <1>3 DEF AddInterest
    <2>2. \A k \in Positions : book[k] \in Orders
      BY DEF IInv, Typed
    <2>3. \A k \in Positions : book'[k] = book[k] \/ (book[k].owner # n /\ book'[k].owner # n)
      <3> TAKE k \in Positions
      <3>1. CASE book[k].owner = s /\ book'[k] = [book[k] EXCEPT !.value = @ + Swap]
        <4>1. book'[k].owner = book[k].owner
          BY <3>1, <2>2, SwappedOrder
        <4> QED
          BY <3>1, <4>1
      <3> QED
        BY <2>1, <3>1
    <2> QED
      BY <1>0, <2>3, ChangedKeepsOthers
  <1>4. CASE OpenOrder
    <2>1. /\ Total \in Positions /\ ~book[Total].open
          /\ \A k \in Positions : book[k] = Unused => book[Total] = Unused
      BY <1>4, OpenedPlace DEF OpenOrder
    <2>2. PICK type \in TypesOf(side) :
             book' = [book EXCEPT ![Total] = [ticket |-> NewTicket, owner |-> s, type |-> type,
                                              open |-> TRUE, since |-> clock, value |-> 0]]
      BY <1>4 DEF OpenOrder
    <2>3. book'[Total].owner = s /\ \A k \in Positions : k # Total => book'[k] = book[k]
      BY <2>1, <2>2 DEF IInv, Typed
    <2>4. CASE book[Total].owner # n
      <3>1. \A k \in Positions : book'[k] = book[k] \/ (book[k].owner # n /\ book'[k].owner # n)
        BY <2>3, <2>4
      <3> QED
        BY <1>0, <3>1, ChangedKeepsOthers
    <2>5. CASE book[Total].owner = n
      <3>1. \A k \in Positions : book[k] # Unused
        BY <2>1, <2>5 DEF Unused, Systems
      <3>2. Total' = Total + 1
        BY <1>4 DEF OpenOrder, IInv, Typed, Total, Sides
      <3>3. OrdersOf(n)' \subseteq OrdersOf(n)
        BY <2>3 DEF OrdersOf
      <3>4. \A o \in OrdersOf(n) \ OrdersOf(n)' : o = book[Total]
        BY <2>3 DEF OrdersOf
      <3> QED
        BY <2>1, <3>1, <3>2, <3>3, <3>4 DEF OthersKept
    <2> QED
      BY <2>4, <2>5
  <1>5. CASE CloseOrder
    <2> DEFINE o == book[closing.n]
    <2>1. closing.n \in Positions /\ o \in Orders
      BY <1>5 DEF IInv, CloseOrder, SweptBehind, Typed, Positions
    <2>2. CASE Matches(o) /\ \E p \in (IF o.type \in Sides THEN Profits ELSE {0}) :
                                book' = ClosedAt(closing.n, Close(o, p))
      <3> PICK p \in (IF o.type \in Sides THEN Profits ELSE {0}) : book' = ClosedAt(closing.n, Close(o, p))
        BY <2>2
      <3>1. Close(o, p).owner = o.owner /\ o.owner = s
        BY <2>1, <2>2 DEF Matches, Close
      <3> QED
        BY <1>0, <2>1, <3>1, ClosedKeepsOthers DEF IInv
    <2> QED
      BY <1>1, <1>5, <2>2 DEF CloseOrder
  <1> QED
    BY <1>1, <1>2, <1>3, <1>4, <1>5
    DEF Next, vars, VisitFinished, VisitBar, NoOpenSignal, OpenRefused, NoCloseSignal, CloseSignal,
        CloseEnds, CloseReturns, EndOfRound, Done

(***************************************************************************)
(* In the one book they share, a system's signals, stops and swap change   *)
(* no order of another system and lose none that is open; a closed one is  *)
(* lost only when openOrder finds no unused place, and is the first behind *)
(* the open ones.                                                          *)
(***************************************************************************)
THEOREM OwnOrdersOnly == Spec => OthersUntouched
  <1>1. IInv /\ [Next]_vars =>
          [\A n \in Systems : at \in {"check", "open", "close", "closing"} /\ n # s =>
              /\ OrdersOf(n)' \subseteq OrdersOf(n)
              /\ \A o \in OrdersOf(n) \ OrdersOf(n)' :
                    /\ o = book[Total] /\ ~o.open
                    /\ Total' = Total + 1
                    /\ \A k \in Positions : book[k] # Unused]_vars
    BY StepKeepsOthers DEF OthersKept
  <1> QED
    BY <1>1, Invariance, PTL DEF Spec, OthersUntouched

-----------------------------------------------------------------------------
(* The sum over the closed orders. *)

\* What the closed ones among the first orders of an array brought.
Sums(b) ==
    LET sum[k \in 0..MaxOrders] == IF k = 0 THEN 0 ELSE sum[k - 1] + Worth(b[k - 1])
    IN  sum

LEMMA WorthInt == \A o \in Orders : Worth(o) \in Int /\ (o.open => Worth(o) = 0)
  BY DEF Worth, Orders

LEMMA SumsAre ==
  ASSUME NEW b \in [Positions -> Orders]
  PROVE  /\ Sums(b) \in [0..MaxOrders -> Int]
         /\ Sums(b)[0] = 0
         /\ \A k \in 1..MaxOrders : Sums(b)[k] = Sums(b)[k - 1] + Worth(b[k - 1])
  <1> DEFINE After(k, x) == x + Worth(b[k - 1])
             step == [k \in 1..MaxOrders |-> [x \in Int |-> After(k, x)]]
             Rec(f) == [k \in 0..MaxOrders |-> IF k = 0 THEN 0 ELSE After(k, f[k - 1])]
             built == CHOOSE f : f = Rec(f)
  <1>1. ASSUME NEW k \in 1..MaxOrders, NEW x \in Int PROVE After(k, x) \in Int
    <2>1. k - 1 \in Positions
      BY DEF Positions
    <2>2. Worth(b[k - 1]) \in Int
      BY <2>1, WorthInt
    <2> QED
      BY <2>2
  <1>2. Sums(b) = built
    BY DEF Sums
  <1>3. \A k, x : After(k, x) = x + Worth(b[k - 1])
    OBVIOUS
  <1> HIDE DEF After
  <1>4. \E f : f = Rec(f)
    <2>1. step \in [1..MaxOrders -> [Int -> Int]]
      BY <1>1
    <2>2. \A k \in 1..MaxOrders : \A x \in Int : step[k][x] = After(k, x)
      OBVIOUS
    <2>3. 0 \in Int /\ MaxOrders \in Nat
      OBVIOUS
    <2> HIDE DEF step
    <2>4. BuiltUp(MaxOrders, Int, 0, step)
      BY <2>1, <2>3, RecursionExists
    <2>5. PICK f \in [0..MaxOrders -> Int] :
              f[0] = 0 /\ \A k \in 1..MaxOrders : f[k] = step[k][f[k - 1]]
      BY <2>4 DEF BuiltUp
    <2>6. ASSUME NEW k \in 1..MaxOrders PROVE f[k] = After(k, f[k - 1])
      <3>1. f[k - 1] \in Int
        BY <2>3
      <3> QED
        BY <3>1, <2>2, <2>5
    <2>7. f = Rec(f)
      BY <2>5, <2>6
    <2> QED
      BY <2>7
  <1>5. built = Rec(built)
    <2> HIDE DEF Rec
    <2> QED
      BY <1>4
  <1> HIDE DEF built
  <1>6. built[0] = 0 /\ \A k \in 1..MaxOrders : built[k] = After(k, built[k - 1])
    BY <1>5
  <1> DEFINE Good == {k \in 0..MaxOrders : built[k] \in Int}
  <1>7. \A k \in 0..MaxOrders : k \in Good
    <2>1. 0 \in Good
      BY <1>6
    <2>2. ASSUME NEW k \in 1..MaxOrders, k - 1 \in Good PROVE k \in Good
      <3>1. built[k - 1] \in Int
        BY <2>2
      <3>2. built[k] \in Int
        BY <1>1, <1>6, <3>1
      <3> QED
        BY <3>2
    <2>3. MaxOrders \in Nat
      OBVIOUS
    <2> HIDE DEF Good
    <2> QED
      BY <2>1, <2>2, <2>3, InductionTo
  <1>8. built \in [0..MaxOrders -> Int]
    <2>1. built = [k \in 0..MaxOrders |-> built[k]]
      BY <1>5
    <2> QED
      BY <2>1, <1>7
  <1> QED
    BY <1>2, <1>3, <1>6, <1>8

LEMMA EarnedIs == Earned = Sums(book)[MaxOrders] /\ Earned' = Sums(book')[MaxOrders]
  BY DEF Earned, Sums

\* Orders that are worth the same add up to the same.
LEMMA SameSums ==
  ASSUME NEW b \in [Positions -> Orders], NEW c \in [Positions -> Orders],
         \A k \in Positions : Worth(c[k]) = Worth(b[k])
  PROVE  Sums(c)[MaxOrders] = Sums(b)[MaxOrders]
  <1> DEFINE Good == {k \in 0..MaxOrders : Sums(c)[k] = Sums(b)[k]}
  <1>1. 0 \in Good
    BY SumsAre
  <1>2. ASSUME NEW k \in 1..MaxOrders, k - 1 \in Good PROVE k \in Good
    <2>1. k - 1 \in Positions
      BY DEF Positions
    <2>2. Sums(c)[k] = Sums(c)[k - 1] + Worth(c[k - 1]) /\ Sums(b)[k] = Sums(b)[k - 1] + Worth(b[k - 1])
      BY SumsAre
    <2> QED
      BY <1>2, <2>1, <2>2
  <1>3. \A k \in 0..MaxOrders : k \in Good
    <2>1. MaxOrders \in Nat
      OBVIOUS
    <2> HIDE DEF Good
    <2> QED
      BY <1>1, <1>2, <2>1, InductionTo
  <1> QED
    BY <1>3

\* One place more or less worth.
LEMMA ChangedSums ==
  ASSUME NEW b \in [Positions -> Orders], NEW c \in [Positions -> Orders], NEW k \in Positions,
         \A j \in Positions : j # k => Worth(c[j]) = Worth(b[j])
  PROVE  Sums(c)[MaxOrders] = Sums(b)[MaxOrders] + Worth(c[k]) - Worth(b[k])
  <1> DEFINE Change(j) == IF j <= k THEN 0 ELSE Worth(c[k]) - Worth(b[k])
             Good == {j \in 0..MaxOrders : Sums(c)[j] = Sums(b)[j] + Change(j)}
  <1>1. MaxOrders \in Nat /\ k \in Nat /\ k < MaxOrders
    BY DEF Positions
  <1>2. /\ Sums(b) \in [0..MaxOrders -> Int] /\ Sums(c) \in [0..MaxOrders -> Int]
        /\ Sums(b)[0] = 0 /\ Sums(c)[0] = 0
        /\ \A j \in 1..MaxOrders : Sums(b)[j] = Sums(b)[j - 1] + Worth(b[j - 1])
        /\ \A j \in 1..MaxOrders : Sums(c)[j] = Sums(c)[j - 1] + Worth(c[j - 1])
    BY SumsAre
  <1>3. \A j \in Positions : Worth(b[j]) \in Int /\ Worth(c[j]) \in Int
    BY WorthInt
  <1>4. 0 \in Good
    BY <1>1, <1>2
  <1>5. ASSUME NEW j \in 1..MaxOrders, j - 1 \in Good PROVE j \in Good
    <2>1. /\ j - 1 \in Positions /\ j - 1 \in 0..MaxOrders /\ j \in 0..MaxOrders
          /\ Sums(b)[j - 1] \in Int /\ Sums(c)[j - 1] = Sums(b)[j - 1] + Change(j - 1)
          /\ Sums(b)[j] = Sums(b)[j - 1] + Worth(b[j - 1])
          /\ Sums(c)[j] = Sums(c)[j - 1] + Worth(c[j - 1])
      BY <1>2, <1>5 DEF Positions
    <2>2. CASE j - 1 = k
      <3>1. Change(j - 1) = 0 /\ Change(j) = Worth(c[k]) - Worth(b[k])
        BY <1>1, <2>2
      <3> QED
        BY <1>3, <2>1, <2>2, <3>1
    <2>3. CASE j - 1 # k
      <3>1. Change(j) = Change(j - 1) /\ Change(j) \in Int
        BY <1>1, <1>3, <2>3
      <3>2. Worth(c[j - 1]) = Worth(b[j - 1])
        BY <2>1, <2>3
      <3> QED
        BY <1>3, <2>1, <3>1, <3>2
    <2> QED
      BY <2>2, <2>3
  <1>6. \A j \in 0..MaxOrders : j \in Good
    <2> HIDE DEF Good
    <2> QED
      BY <1>1, <1>4, <1>5, InductionTo
  <1>7. MaxOrders \in Good /\ Change(MaxOrders) = Worth(c[k]) - Worth(b[k])
    BY <1>1, <1>6
  <1> QED
    BY <1>1, <1>2, <1>3, <1>7

\* Closing an open order adds what it is worth from then on: the orders behind it move up, and it is
\* the last one.
LEMMA ClosedSums ==
  ASSUME NEW b \in [Positions -> Orders], NEW c \in [Positions -> Orders],
         NEW k \in Positions, NEW o \in Orders, Worth(b[k]) = 0,
         \A j \in Positions : c[j] = IF j < k THEN b[j] ELSE IF j < MaxOrders - 1 THEN b[j + 1] ELSE o
  PROVE  Sums(c)[MaxOrders] = Sums(b)[MaxOrders] + Worth(o)
  <1>1. MaxOrders \in Nat /\ MaxOrders - 1 \in 0..MaxOrders /\ MaxOrders \in 1..MaxOrders
    OBVIOUS
  <1>2. k \in Nat /\ k < MaxOrders /\ k \in 0..MaxOrders /\ k + 1 \in 1..MaxOrders
    BY DEF Positions
  <1>3. /\ Sums(b) \in [0..MaxOrders -> Int] /\ Sums(c) \in [0..MaxOrders -> Int]
        /\ Sums(b)[0] = 0 /\ Sums(c)[0] = 0
        /\ \A j \in 1..MaxOrders : Sums(b)[j] = Sums(b)[j - 1] + Worth(b[j - 1])
        /\ \A j \in 1..MaxOrders : Sums(c)[j] = Sums(c)[j - 1] + Worth(c[j - 1])
    BY SumsAre
  <1>4. \A j \in Positions : Worth(b[j]) \in Int /\ Worth(c[j]) \in Int
    BY WorthInt
  <1> DEFINE Same(j) == Sums(c)[j] = IF j <= k THEN Sums(b)[j] ELSE Sums(b)[j + 1]
             Good == {j \in 0..MaxOrders - 1 : Same(j)}
  <1>5. Same(0)
    BY <1>2, <1>3
  <1>6. Sums(b)[k + 1] = Sums(b)[k]
    <2>1. Sums(b)[k + 1] = Sums(b)[(k + 1) - 1] + Worth(b[(k + 1) - 1]) /\ (k + 1) - 1 = k
      BY <1>2, <1>3
    <2> QED
      BY <1>2, <1>3, <2>1
  <1>7. ASSUME NEW j \in 1..MaxOrders - 1, Same(j - 1) PROVE Same(j)
    <2>1. j \in 1..MaxOrders /\ j - 1 \in Positions /\ j \in Positions /\ j + 1 \in 1..MaxOrders /\ (j + 1) - 1 = j
          /\ j - 1 < MaxOrders - 1 /\ (j - 1) + 1 = j
      BY DEF Positions
    <2>2. Sums(c)[j] = Sums(c)[j - 1] + Worth(c[j - 1])
      BY <1>3, <2>1
    <2>3. CASE j <= k
      <3>1. j - 1 < k /\ j - 1 <= k
        BY <2>3, <1>2
      <3>2. c[j - 1] = b[j - 1] /\ Sums(c)[j - 1] = Sums(b)[j - 1]
        BY <1>7, <2>1, <3>1
      <3>3. Sums(b)[j] = Sums(b)[j - 1] + Worth(b[j - 1])
        BY <1>3, <2>1
      <3> QED
        BY <2>2, <2>3, <3>2, <3>3
    <2>4. CASE ~(j <= k)
      <3>1. ~(j - 1 < k)
        BY <2>4, <1>2
      <3>2. c[j - 1] = b[j]
        BY <2>1, <3>1
      <3>3. Sums(b)[j + 1] = Sums(b)[j] + Worth(b[j])
        BY <1>3, <2>1
      <3>4. Sums(c)[j - 1] = Sums(b)[j]
        <4>1. CASE j - 1 <= k
          <5>1. j - 1 = k /\ j = k + 1
            BY <1>2, <3>1, <4>1
          <5> QED
            BY <1>6, <1>7, <4>1, <5>1
        <4>2. CASE ~(j - 1 <= k)
          BY <1>7, <2>1, <4>2
        <4> QED
          BY <4>1, <4>2
      <3> QED
        BY <2>2, <2>4, <3>2, <3>3, <3>4
    <2> QED
      BY <2>3, <2>4
  <1>8. \A j \in 0..MaxOrders - 1 : j \in Good
    <2>1. MaxOrders - 1 \in Nat /\ 0 \in 0..MaxOrders - 1
      OBVIOUS
    <2> HIDE DEF Same
    <2>2. 0 \in Good /\ \A j \in 1..MaxOrders - 1 : j - 1 \in Good => j \in Good
      BY <1>5, <1>7, <2>1
    <2> HIDE DEF Good
    <2> QED
      BY <2>1, <2>2, InductionTo
  <1>9. Sums(c)[MaxOrders - 1] = Sums(b)[MaxOrders]
    <2>1. Same(MaxOrders - 1)
      BY <1>1, <1>8
    <2>2. CASE MaxOrders - 1 <= k
      <3>1. k = MaxOrders - 1 /\ k + 1 = MaxOrders
        BY <1>1, <1>2, <2>2
      <3> QED
        BY <1>6, <2>1, <3>1
    <2>3. CASE ~(MaxOrders - 1 <= k)
      <3>1. (MaxOrders - 1) + 1 = MaxOrders
        BY <1>1
      <3> QED
        BY <2>1, <2>3, <3>1
    <2> QED
      BY <2>2, <2>3
  <1>10. c[MaxOrders - 1] = o
    <2>1. MaxOrders - 1 \in Positions /\ ~(MaxOrders - 1 < k) /\ ~(MaxOrders - 1 < MaxOrders - 1)
      BY <1>1, <1>2 DEF Positions
    <2> QED
      BY <2>1
  <1>11. Sums(c)[MaxOrders] = Sums(c)[MaxOrders - 1] + Worth(c[MaxOrders - 1])
    BY <1>1, <1>3
  <1> QED
    BY <1>9, <1>10, <1>11

-----------------------------------------------------------------------------
(* The balance. *)

\* While a system is visited, the clock shows its bar; its orders are no younger.
OnTime ==
    /\ ticks = TickFile
    /\ at \in {"check", "open", "close", "closing"} => clock = 2 * i[s]
    /\ \A k \in Positions : book[k].open => book[k].since <= 2 * i[book[k].owner]

\* Only closeOrder has a sum to hand over, and it hands over all of it.
SumHeld == (at # "closing" \/ ~closing.found) => closing.sum = 0

Explained ==
    /\ finalBalance \in Int
    /\ at # "done" => finalBalance + closing.sum = InitialBalance + Earned + forgotten

Balanced == NoTickFiles => OnTime /\ SumHeld /\ Explained

LEMMA InitBalanced == Init => Balanced
  <1> SUFFICES ASSUME Init PROVE OnTime /\ SumHeld /\ Explained
    BY DEF Balanced
  <1>1. OnTime
    BY DEF Init, OnTime, Unused
  <1>2. SumHeld
    BY DEF Init, SumHeld, NoClosing
  <1>3. book \in [Positions -> Orders]
    BY InitIInv DEF IInv, Typed
  <1>4. Earned = 0
    <2> DEFINE Good == {k \in 0..MaxOrders : Sums(book)[k] = 0}
    <2>1. 0 \in Good
      BY <1>3, SumsAre
    <2>2. ASSUME NEW k \in 1..MaxOrders, k - 1 \in Good PROVE k \in Good
      <3>1. k - 1 \in Positions
        BY DEF Positions
      <3>2. Worth(book[k - 1]) = 0
        BY <3>1 DEF Init, Unused, Worth
      <3>3. Sums(book)[k] = Sums(book)[k - 1] + Worth(book[k - 1])
        BY <1>3, SumsAre
      <3> QED
        BY <2>2, <3>2, <3>3
    <2>3. MaxOrders \in Nat
      OBVIOUS
    <2>4. \A k \in 0..MaxOrders : k \in Good
      <3> HIDE DEF Good
      <3> QED
        BY <2>1, <2>2, <2>3, InductionTo
    <2> QED
      BY <2>3, <2>4, EarnedIs
  <1>5. Explained
    BY <1>4 DEF Init, Explained, NoClosing
  <1> QED
    BY <1>1, <1>2, <1>5

LEMMA EarnedInt == Typed => Earned \in Int
  <1> SUFFICES ASSUME Typed PROVE Earned \in Int
    OBVIOUS
  <1>1. Sums(book) \in [0..MaxOrders -> Int] /\ MaxOrders \in 0..MaxOrders
    BY SumsAre DEF Typed
  <1> QED
    BY <1>1, EarnedIs

\* A step that neither closes an order nor changes what the closed ones brought.
LEMMA SameWorth ==
  ASSUME Typed, Typed', \A k \in Positions : Worth(book'[k]) = Worth(book[k])
  PROVE  Earned' = Earned
  <1>1. book \in [Positions -> Orders] /\ book' \in [Positions -> Orders]
    BY DEF Typed
  <1> QED
    BY <1>1, SameSums, EarnedIs

\* A step that closes the order at a place: the others, moved or not, are no younger than before.
LEMMA ClosingStep ==
  ASSUME Typed, Typed', NEW k \in Positions, book[k].open,
         NEW o \in Orders, ~o.open, book' = ClosedAt(k, o)
  PROVE  /\ Earned' = Earned + o.value
         /\ \A j \in Positions : book'[j].open => \E l \in Positions : book'[j] = book[l] /\ book[l].open
  <1>1. book \in [Positions -> Orders] /\ book' \in [Positions -> Orders]
    BY DEF Typed
  <1>2. Worth(book[k]) = 0 /\ Worth(o) = o.value
    BY DEF Worth
  <1>3. \A j \in Positions : book'[j] = IF j < k THEN book[j] ELSE IF j < MaxOrders - 1 THEN book[j + 1] ELSE o
    BY DEF ClosedAt
  <1>4. Sums(book')[MaxOrders] = Sums(book)[MaxOrders] + Worth(o)
    BY <1>1, <1>2, <1>3, ClosedSums
  <1>5. ASSUME NEW j \in Positions, book'[j].open
        PROVE  \E l \in Positions : book'[j] = book[l] /\ book[l].open
    <2>1. CASE j < k
      BY <1>3, <1>5, <2>1
    <2>2. CASE ~(j < k) /\ j < MaxOrders - 1
      <3>1. j + 1 \in Positions
        BY <2>2 DEF Positions
      <3> QED
        BY <1>3, <1>5, <2>2, <3>1
    <2>3. CASE ~(j < k) /\ ~(j < MaxOrders - 1)
      BY <1>3, <1>5, <2>3
    <2> QED
      BY <2>1, <2>2, <2>3
  <1> QED
    BY <1>2, <1>4, <1>5, EarnedIs

LEMMA CheckOrderBalanced == IInv /\ IInv' /\ NoTickFiles /\ Balanced /\ CheckOrder => Balanced'
  <1> SUFFICES ASSUME IInv, IInv', NoTickFiles, Balanced, CheckOrder PROVE (OnTime /\ SumHeld /\ Explained)'
    BY DEF Balanced
  <1> DEFINE o == Triggered(book[m])
  <1>0. Typed /\ Typed' /\ InFront /\ OnTime /\ SumHeld /\ Explained
    BY DEF IInv, Balanced
  <1>1. /\ at = "check" /\ at' = "check" /\ m \in Positions /\ book[m].open /\ book[m] \in Orders
        /\ UNCHANGED <<ticks, clock, i, s, closing, forgotten>> /\ forgotten \in Int
    BY <1>0 DEF CheckOrder, InFront, Positions, Typed, progress
  <1>2. o \in Orders /\ o.open /\ o.owner = book[m].owner /\ o.since <= 2 * i[o.owner]
    <2>1. CASE o = book[m]
      BY <1>0, <1>1, <2>1 DEF OnTime
    <2>2. CASE /\ o = [book[m] EXCEPT !.type = SideOf(book[m].type), !.since = clock]
               /\ book[m].owner = s
      <3>1. SideOf(book[m].type) \in AllTypes /\ clock \in Int /\ clock = 2 * i[s]
        BY <1>0, <1>1, SideType DEF AllTypes, LongTypes, ShortTypes, Sides, Typed, OnTime
      <3>2. o \in Orders /\ o.open = book[m].open /\ o.owner = book[m].owner /\ o.since = clock
        BY <1>1, <2>2, <3>1 DEF Orders
      <3> QED
        BY <1>1, <2>2, <3>1, <3>2
    <2> QED
      BY <2>1, <2>2 DEF Triggered
  <1>3. CASE \E p \in Profits : book' = ClosedAt(m, Close(o, p)) /\ finalBalance' = finalBalance + o.value + p
    <2> PICK p \in Profits : book' = ClosedAt(m, Close(o, p)) /\ finalBalance' = finalBalance + o.value + p
      BY <1>3
    <2>1. /\ p \in Int /\ o.value \in Int
          /\ Close(o, p) \in Orders /\ ~Close(o, p).open /\ Close(o, p).value = o.value + p
      <3>1. p \in Int /\ Close(o, p) \in Orders /\ ~Close(o, p).open
        BY <1>2, ClosedOrder
      <3> QED
        BY <1>2, <3>1 DEF Close, Orders
    <2>2. /\ Earned' = Earned + Close(o, p).value
          /\ \A j \in Positions : book'[j].open => \E l \in Positions : book'[j] = book[l] /\ book[l].open
      BY <1>0, <1>1, <2>1, ClosingStep
    <2>3. OnTime'
      BY <1>0, <1>1, <2>2 DEF OnTime
    <2>4. SumHeld' /\ closing'.sum = 0 /\ closing.sum = 0
      BY <1>0, <1>1 DEF SumHeld
    <2>5. Earned \in Int
      BY <1>0, EarnedInt
    <2>6. Explained'
      BY <1>0, <1>1, <2>1, <2>2, <2>4, <2>5 DEF Explained
    <2> QED
      BY <2>3, <2>4, <2>6
  <1>4. CASE book' = [book EXCEPT ![m] = o] /\ finalBalance' = finalBalance
    <2>1. \A j \in Positions : book'[j] = IF j = m THEN o ELSE book[j]
      BY <1>0, <1>1, <1>4 DEF Typed
    <2>2. \A j \in Positions : Worth(book'[j]) = Worth(book[j])
      BY <1>1, <1>2, <2>1 DEF Worth
    <2>3. Earned' = Earned
      BY <1>0, <2>2, SameWorth
    <2>4. OnTime'
      BY <1>0, <1>1, <1>2, <2>1 DEF OnTime
    <2>5. SumHeld' /\ Explained'
      BY <1>0, <1>1, <1>4, <2>3 DEF SumHeld, Explained
    <2> QED
      BY <2>4, <2>5
  <1> QED
    BY <1>3, <1>4 DEF CheckOrder

LEMMA CloseOrderBalanced == IInv /\ IInv' /\ NoTickFiles /\ Balanced /\ CloseOrder => Balanced'
  <1> SUFFICES ASSUME IInv, IInv', NoTickFiles, Balanced, CloseOrder PROVE (OnTime /\ SumHeld /\ Explained)'
    BY DEF Balanced
  <1> DEFINE o == book[closing.n]
  <1>0. Typed /\ Typed' /\ SweptBehind /\ OnTime /\ SumHeld /\ Explained
    BY DEF IInv, Balanced
  <1>1. /\ at = "closing" /\ at' = "closing" /\ closing.n \in Positions /\ o \in Orders
        /\ UNCHANGED <<ticks, clock, i, s, finalBalance, forgotten>> /\ forgotten \in Int
    <2>1. /\ at = "closing" /\ at' = at /\ closing.n < closing.bound
          /\ UNCHANGED <<ticks, clock, i, s, finalBalance, forgotten>>
      BY DEF CloseOrder, progress
    <2>2. closing.n \in Nat /\ closing.bound \in Nat
      BY <1>0 DEF Typed
    <2>3. closing.bound <= MaxOrders
      BY <1>0, <2>1 DEF SweptBehind
    <2>4. MaxOrders \in Nat
      BY TesterAssumption
    <2>5. closing.n \in Positions
      BY <2>1, <2>2, <2>3, <2>4 DEF Positions
    <2>6. book \in [Positions -> Orders]
      BY <1>0 DEF Typed
    <2>7. o \in Orders
      BY <2>5, <2>6
    <2> QED
      BY <1>0, <2>1, <2>5, <2>7 DEF Typed
  <1>2. CASE Matches(o) /\ \E p \in (IF o.type \in Sides THEN Profits ELSE {0}) :
                              book' = ClosedAt(closing.n, Close(o, p)) /\ closing' = Summed(o, p)
    <2> PICK p \in (IF o.type \in Sides THEN Profits ELSE {0}) :
                book' = ClosedAt(closing.n, Close(o, p)) /\ closing' = Summed(o, p)
      BY <1>2
    <2>1. /\ p \in Int /\ o.value \in Int
          /\ Close(o, p) \in Orders /\ ~Close(o, p).open /\ Close(o, p).value = o.value + p
      <3>1. p \in Int /\ Close(o, p) \in Orders /\ ~Close(o, p).open
        BY <1>1, ClosedOrder
      <3> QED
        BY <1>1, <3>1 DEF Close, Orders
    <2>2. /\ Earned' = Earned + Close(o, p).value
          /\ \A j \in Positions : book'[j].open => \E l \in Positions : book'[j] = book[l] /\ book[l].open
      <3>1. o.open
        BY <1>2 DEF Matches
      <3> QED
        BY <1>0, <1>1, <2>1, <3>1, ClosingStep
    <2>3. OnTime'
      BY <1>0, <1>1, <2>2 DEF OnTime
    <2>4. closing'.sum = closing.sum + o.value + p /\ closing'.found = TRUE
      BY <1>0 DEF Summed, Typed
    <2>5. Earned \in Int /\ closing.sum \in Int
      BY <1>0, EarnedInt DEF Typed
    <2>6. SumHeld'
      BY <1>1, <2>4 DEF SumHeld
    <2>7. finalBalance' + closing'.sum = InitialBalance + Earned' + forgotten'
      BY <1>0, <1>1, <2>1, <2>2, <2>4, <2>5 DEF Explained
    <2>8. Explained'
      BY <1>0, <1>1, <2>7 DEF Explained
    <2> QED
      BY <2>3, <2>6, <2>8
  <1>3. CASE closing' = [closing EXCEPT !.n = @ + 1] /\ UNCHANGED book
    <2>1. closing'.sum = closing.sum /\ closing'.found = closing.found
      BY <1>0, <1>3 DEF Typed
    <2>2. Earned' = Earned
      BY <1>0, <1>3, SameWorth
    <2>3. OnTime'
      BY <1>0, <1>1, <1>3 DEF OnTime
    <2>4. SumHeld' /\ Explained'
      BY <1>0, <1>1, <2>1, <2>2 DEF SumHeld, Explained
    <2> QED
      BY <2>3, <2>4
  <1> QED
    BY <1>2, <1>3 DEF CloseOrder

\* What a visit that goes on, or ends, leaves of the times.
LEMMA AfterResultOnTime ==
  ASSUME Typed, InFront, OnTime, at = "close" \/ at = "closing", AfterResult, UNCHANGED <<book, clock, ticks>>
  PROVE  OnTime' /\ at' \in {"open", "visit", "round"}
  <1>1. CASE at' = "open" /\ UNCHANGED <<s, i>>
    BY <1>1 DEF OnTime
  <1>2. CASE at' \in {"visit", "round"} /\ i' = NextBar
    <2>1. \A n \in Systems : i[n] \in Int /\ i'[n] \in Int /\ i[n] <= i'[n]
      BY <1>2 DEF Typed, NextBar
    <2>2. ASSUME NEW k \in Positions, book[k].open, book[k].owner \in Systems
          PROVE  book[k].since <= 2 * i'[book[k].owner]
      <3>1. book[k].since \in Int /\ book[k].since <= 2 * i[book[k].owner]
        BY <2>2 DEF Typed, OnTime, Orders
      <3> QED
        BY <2>1, <2>2, <3>1
    <2>3. \A k \in Positions : book[k].open => book[k].since <= 2 * i'[book[k].owner]
      BY <2>2 DEF InFront
    <2> QED
      BY <1>2, <2>3 DEF OnTime
  <1> QED
    BY <1>1, <1>2 DEF AfterResult, NextSystem

LEMMA CloseEndsBalanced == IInv /\ IInv' /\ NoTickFiles /\ Balanced /\ CloseEnds => Balanced'
  <1> SUFFICES ASSUME IInv, IInv', NoTickFiles, Balanced, CloseEnds PROVE (OnTime /\ SumHeld /\ Explained)'
    BY DEF Balanced
  <1>0. Typed /\ Typed' /\ InFront /\ SweptBehind /\ OnTime /\ SumHeld /\ Explained
    BY DEF IInv, Balanced
  <1>1. at = "closing" /\ UNCHANGED <<book, clock, ticks, forgotten>> /\ AfterResult /\ closing' = NoClosing
    BY DEF CloseEnds, CloseReturns
  <1>2. ~TooEarly
    <2> SUFFICES ASSUME TooEarly PROVE FALSE
      OBVIOUS
    <2>1. /\ closing.n \in Positions /\ book[closing.n].open /\ book[closing.n].owner = s
          /\ book[closing.n].since > clock
      BY <1>0, <1>1 DEF TooEarly, Matches, SweptBehind, Positions, Typed
    <2>2. book[closing.n].since <= 2 * i[s] /\ clock = 2 * i[s]
      BY <1>0, <1>1, <2>1 DEF OnTime
    <2>3. book[closing.n].since \in Int /\ clock \in Int
      BY <1>0, <2>1 DEF Typed, Orders
    <2> QED
      BY <2>1, <2>2, <2>3
  <1>3. finalBalance' = IF closing.found THEN finalBalance + closing.sum ELSE finalBalance
    BY <1>2 DEF CloseEnds, CloseReturns
  <1>4. OnTime' /\ at' \in {"open", "visit", "round"}
    BY <1>0, <1>1, AfterResultOnTime
  <1>5. SumHeld'
    BY <1>1 DEF SumHeld, NoClosing
  <1>6. Earned' = Earned
    BY <1>0, <1>1, SameWorth
  <1>7. finalBalance' = finalBalance + closing.sum
    BY <1>0, <1>1, <1>3 DEF SumHeld, Explained
  <1>8. Explained'
    BY <1>0, <1>1, <1>4, <1>6, <1>7 DEF Explained, NoClosing, Typed
  <1> QED
    BY <1>4, <1>5, <1>8

LEMMA VisitBalanced == IInv /\ IInv' /\ NoTickFiles /\ Balanced /\ (VisitFinished \/ VisitBar) => Balanced'
  <1> SUFFICES ASSUME IInv, IInv', NoTickFiles, Balanced, VisitFinished \/ VisitBar
               PROVE  (OnTime /\ SumHeld /\ Explained)'
    BY DEF Balanced
  <1>0. Typed /\ Typed' /\ OnTime /\ SumHeld /\ Explained
    BY DEF IInv, Balanced
  <1>1. at = "visit" /\ UNCHANGED <<book, finalBalance, closing, forgotten>>
    BY DEF VisitFinished, VisitBar
  <1>2. Earned' = Earned
    BY <1>0, <1>1, SameWorth
  <1>3. OnTime' /\ at' \in {"visit", "round", "check"}
    <2>1. CASE VisitFinished
      BY <1>0, <1>1, <2>1 DEF VisitFinished, NextSystem, OnTime
    <2>2. CASE VisitBar
      <3> PICK t \in Times :
            /\ i' = [i EXCEPT ![s] = t.bar] /\ clock' = t.time /\ ticks' = [ticks EXCEPT ![s] = t.left]
            /\ \/ NextSystem
               \/ at' = "check" /\ UNCHANGED s
        BY <2>2 DEF VisitBar
      <3>1. ticks[s] = NoFile /\ ticks \in [Systems -> Nat \cup {NoFile}] /\ s \in Systems
        BY <1>0 DEF OnTime, NoTickFiles, Typed
      <3>2. t.bar = i[s] /\ t.time = 2 * i[s] /\ t.left = NoFile
        BY <3>1 DEF Times
      <3>3. i' = i /\ ticks' = ticks
        BY <1>0, <3>1, <3>2 DEF Typed
      <3>4. CASE NextSystem
        BY <1>0, <1>1, <3>3, <3>4 DEF NextSystem, OnTime
      <3>5. CASE at' = "check" /\ UNCHANGED s
        BY <1>0, <1>1, <3>2, <3>3, <3>5 DEF OnTime
      <3> QED
        BY <3>4, <3>5
    <2> QED
      BY <2>1, <2>2
  <1>4. SumHeld' /\ Explained'
    BY <1>0, <1>1, <1>2, <1>3 DEF SumHeld, Explained
  <1> QED
    BY <1>3, <1>4

\* The steps of a visit that change no order that is closed, and not the balance.
LEMMA SignalBalanced ==
  IInv /\ IInv' /\ NoTickFiles /\ Balanced /\ (AddInterest \/ NoOpenSignal \/ OpenRefused \/ OpenOrder
      \/ NoCloseSignal \/ CloseSignal) => Balanced'
  <1> SUFFICES ASSUME IInv, IInv', NoTickFiles, Balanced,
                      AddInterest \/ NoOpenSignal \/ OpenRefused \/ OpenOrder \/ NoCloseSignal \/ CloseSignal
               PROVE  (OnTime /\ SumHeld /\ Explained)'
    BY DEF Balanced
  <1>0. Typed /\ Typed' /\ InFront /\ OnTime /\ SumHeld /\ Explained
    BY DEF IInv, Balanced
  <1>1. at \in {"check", "open", "close"} /\ at' # "done" /\ UNCHANGED <<finalBalance, clock, ticks>>
        /\ closing'.sum = 0 /\ closing.sum = 0
    BY <1>0 DEF AddInterest, NoOpenSignal, OpenRefused, OpenOrder, NoCloseSignal, CloseSignal, AfterResult,
                NextSystem, progress, SumHeld
  <1>2. InitialBalance + Earned + forgotten = InitialBalance + Earned' + forgotten' /\ OnTime'
    <2>1. CASE NoOpenSignal \/ OpenRefused \/ CloseSignal
      <3>1. UNCHANGED <<book, i, s, forgotten>>
        BY <2>1 DEF NoOpenSignal, OpenRefused, CloseSignal, progress
      <3>2. Earned' = Earned
        BY <1>0, <3>1, SameWorth
      <3> QED
        BY <1>0, <1>1, <3>1, <3>2 DEF OnTime
    <2>2. CASE NoCloseSignal
      <3>1. at = "close" /\ UNCHANGED <<book, forgotten>> /\ AfterResult
        BY <2>2 DEF NoCloseSignal
      <3>2. Earned' = Earned
        BY <1>0, <3>1, SameWorth
      <3> QED
        BY <1>0, <1>1, <3>1, <3>2, AfterResultOnTime
    <2>3. CASE AddInterest
      <3>1. /\ UNCHANGED <<i, s, forgotten>>
            /\ \A k \in Positions :
                 \/ book'[k] = book[k]
                 \/ book[k].open /\ book'[k] = [book[k] EXCEPT !.value = @ + Swap]
        BY <1>0, <2>3 DEF AddInterest, InFront, progress
      <3>2. ASSUME NEW k \in Positions
            PROVE  /\ Worth(book'[k]) = Worth(book[k])
                   /\ book'[k].open = book[k].open /\ book'[k].since = book[k].since
                   /\ book'[k].owner = book[k].owner
        <4>1. CASE book'[k] = book[k]
          BY <4>1
        <4>2. CASE book[k].open /\ book'[k] = [book[k] EXCEPT !.value = @ + Swap]
          <5>1. book[k] \in Orders
            BY <1>0 DEF Typed
          <5>2. /\ book'[k].open = book[k].open /\ book'[k].since = book[k].since
                /\ book'[k].owner = book[k].owner
            BY <4>2, <5>1 DEF Orders
          <5> QED
            BY <4>2, <5>2 DEF Worth
        <4> QED
          BY <3>1, <4>1, <4>2
      <3>3. Earned' = Earned
        BY <1>0, <3>2, SameWorth
      <3> QED
        BY <1>0, <1>1, <3>1, <3>2, <3>3 DEF OnTime
    <2>4. CASE OpenOrder
      <3>1. Total \in Positions /\ ~book[Total].open
        BY <2>4, OpenedPlace DEF OpenOrder
      <3>2. PICK type \in TypesOf(side) :
               book' = [book EXCEPT ![Total] = [ticket |-> NewTicket, owner |-> s, type |-> type,
                                                open |-> TRUE, since |-> clock, value |-> 0]]
        BY <2>4 DEF OpenOrder
      <3>3. /\ book'[Total].owner = s /\ book'[Total].open /\ book'[Total].since = clock
            /\ \A k \in Positions : k # Total => book'[k] = book[k]
        BY <1>0, <3>1, <3>2 DEF Typed
      <3>4. Earned' = Earned - Worth(book[Total])
        <4>1. book \in [Positions -> Orders] /\ book' \in [Positions -> Orders]
          BY <1>0 DEF Typed
        <4>2. Sums(book')[MaxOrders] = Sums(book)[MaxOrders] + Worth(book'[Total]) - Worth(book[Total])
          BY <3>1, <3>3, <4>1, ChangedSums
        <4>3. Worth(book'[Total]) = 0
          BY <3>3 DEF Worth
        <4>4. Earned \in Int /\ Worth(book[Total]) \in Int
          BY <1>0, <3>1, <4>1, EarnedInt, WorthInt
        <4> QED
          BY <4>2, <4>3, <4>4, EarnedIs
      <3>5. InitialBalance + Earned + forgotten = InitialBalance + Earned' + forgotten'
        <4>1. Earned \in Int /\ Worth(book[Total]) \in Int /\ forgotten \in Int
          BY <1>0, <3>1, EarnedInt, WorthInt DEF Typed
        <4>2. forgotten' = forgotten + Worth(book[Total])
          BY <2>4 DEF OpenOrder
        <4> QED
          BY <3>4, <4>1, <4>2
      <3>6. at = "open" /\ UNCHANGED <<i, s>> /\ clock = 2 * i[s] /\ clock \in Int
        BY <1>0, <2>4 DEF OpenOrder, OnTime, progress, Typed
      <3>7. ASSUME NEW k \in Positions, book'[k].open PROVE book'[k].since <= 2 * i'[book'[k].owner]
        <4>1. CASE k = Total
          BY <3>1, <3>3, <3>6, <4>1
        <4>2. CASE k # Total
          BY <1>0, <3>3, <3>6, <3>7, <4>2 DEF OnTime
        <4> QED
          BY <4>1, <4>2
      <3> QED
        BY <1>0, <1>1, <3>5, <3>6, <3>7 DEF OnTime
    <2> QED
      BY <2>1, <2>2, <2>3, <2>4
  <1>3. SumHeld' /\ Explained'
    <2>1. Earned \in Int /\ forgotten \in Int /\ forgotten' \in Int /\ InitialBalance \in Int
      BY <1>0, EarnedInt DEF Typed
    <2>2. finalBalance' + closing'.sum = InitialBalance + Earned' + forgotten' /\ finalBalance' \in Int
      <3>1. finalBalance = InitialBalance + Earned + forgotten /\ finalBalance \in Int
        BY <1>0, <1>1, <2>1 DEF Explained
      <3> QED
        BY <1>1, <1>2, <3>1
    <2> QED
      BY <1>1, <2>2 DEF SumHeld, Explained
  <1> QED
    BY <1>2, <1>3

LEMMA StepBalanced == IInv /\ IInv' /\ Balanced /\ [Next]_vars => Balanced'
  <1> SUFFICES ASSUME IInv, IInv', Balanced, [Next]_vars, NoTickFiles PROVE Balanced'
    BY DEF Balanced
  <1>0. Typed /\ Typed' /\ OnTime /\ SumHeld /\ Explained
    BY DEF IInv, Balanced
  <1>1. CASE EndOfRound
    <2>1. /\ at = "round" /\ at' \in {"done", "visit"} /\ UNCHANGED <<book, closing, i, s, clock, ticks, forgotten>>
          /\ finalBalance' \in {0, finalBalance}
          /\ at' # "done" => finalBalance' = finalBalance
      BY <1>1 DEF EndOfRound, progress
    <2>2. Earned' = Earned
      BY <1>0, <2>1, SameWorth
    <2>3. OnTime'
      BY <1>0, <2>1 DEF OnTime
    <2>4. SumHeld'
      BY <1>0, <2>1 DEF SumHeld
    <2>5. Explained'
      BY <1>0, <2>1, <2>2 DEF Explained
    <2> QED
      BY <2>3, <2>4, <2>5 DEF Balanced
  <1>2. CASE UNCHANGED vars
    <2>1. UNCHANGED <<book, closing, i, s, clock, ticks, finalBalance, at, forgotten>>
      BY <1>2 DEF vars, progress
    <2>2. Earned' = Earned
      BY <1>0, <2>1, SameWorth
    <2>3. OnTime' /\ SumHeld' /\ Explained'
      BY <1>0, <2>1, <2>2 DEF OnTime, SumHeld, Explained
    <2> QED
      BY <2>3 DEF Balanced
  <1> QED
    BY <1>1, <1>2, CheckOrderBalanced, CloseOrderBalanced, CloseEndsBalanced, VisitBalanced, SignalBalanced
    DEF Next, Done

(***************************************************************************)
(* Without tick files, the balance is the initial one plus what each       *)
(* closed order brought, counted once, in every state of a test: no order  *)
(* that a stop or a signal closes is left out or counted twice, however    *)
(* many one signal closes, and closeOrder hands over all it has summed.    *)
(***************************************************************************)
THEOREM BalanceIsExplained == Spec => []BalanceExplained
  <1>1. Balanced => BalanceExplained
    BY DEF Balanced, Explained, BalanceExplained
  <1>2. Spec => []Balanced
    BY InitBalanced, StepBalanced, Invariance, PTL DEF Spec
  <1> QED
    BY <1>1, <1>2, PTL

=============================================================================
