-------------------------- MODULE Strategies_proofs --------------------------
(***************************************************************************)
(* Proofs about Strategies, for every set of modes, parameters, sizes of   *)
(* the arrays and bounds.                                                  *)
(*                                                                         *)
(* A bar of a strategy is taken apart in what it asks for and what becomes *)
(* of it.  The first half is about the results array: which orders its     *)
(* results ask to close (AskedFor) and that an entry takes results behind  *)
(* them (Entered), for each way the modes and strategies fill it.  The     *)
(* second is about the account: which orders a walk over it closes         *)
(* (WalkCloses), and what is open when all entries were sent, the walk     *)
(* repeated after each of them (BarIs).  Both together keep the invariant. *)
(***************************************************************************)
EXTENDS Strategies, InductionLemmas

-----------------------------------------------------------------------------
(* Operators of the model. *)

\* The least of some naturals.
LEMMA MinOf ==
    ASSUME NEW X \in SUBSET Nat, X # {}
    PROVE  Min(X) \in X /\ \A n \in X : Min(X) <= n
  BY LeastNatural DEF Min

\* The recursion of Picked.
PicksBy(f, seq, places) ==
    /\ f[0] = <<>>
    /\ \A m \in 1..Len(seq) : f[m] = IF m \in places THEN Append(f[m - 1], seq[m]) ELSE f[m - 1]
    /\ Picked(seq, places) = f[Len(seq)]

\* The recursive function of Picked exists.
LEMMA PickedBuilt ==
    ASSUME NEW S, NEW seq \in Seq(S), NEW places
    PROVE  \E f \in [0..Len(seq) -> Seq(S)] : PicksBy(f, seq, places)
  <1> DEFINE After(m, x) == IF m \in places THEN Append(x, seq[m]) ELSE x
             step == [m \in 1..Len(seq) |-> [x \in Seq(S) |-> After(m, x)]]
             Rec(f) == [m \in 0..Len(seq) |-> IF m = 0 THEN <<>> ELSE After(m, f[m - 1])]
             built == CHOOSE f : f = Rec(f)
  <1>1. Len(seq) \in Nat /\ <<>> \in Seq(S) /\ \A m \in 1..Len(seq) : \A x \in Seq(S) : After(m, x) \in Seq(S)
    OBVIOUS
  <1>2. Picked(seq, places) = built[Len(seq)]
    BY DEF Picked
  <1>3. \A f : \A m \in 1..Len(seq) : After(m, f[m - 1]) = IF m \in places THEN Append(f[m - 1], seq[m])
          ELSE f[m - 1]
    OBVIOUS
  <1> HIDE DEF After
  <1>4. PICK f \in [0..Len(seq) -> Seq(S)] : f = Rec(f)
    <2>1. step \in [1..Len(seq) -> [Seq(S) -> Seq(S)]]
      BY <1>1
    <2>2. \A m \in 1..Len(seq) : \A x \in Seq(S) : step[m][x] = After(m, x)
      OBVIOUS
    <2> HIDE DEF step
    <2>3. BuiltUp(Len(seq), Seq(S), <<>>, step)
      BY <1>1, <2>1, RecursionExists
    <2>4. PICK f \in [0..Len(seq) -> Seq(S)] : f[0] = <<>> /\ \A m \in 1..Len(seq) : f[m] = step[m][f[m - 1]]
      BY <2>3 DEF BuiltUp
    <2>5. ASSUME NEW m \in 1..Len(seq) PROVE f[m] = After(m, f[m - 1])
      <3>1. f[m - 1] \in Seq(S)
        BY <1>1
      <3> QED
        BY <3>1, <2>2, <2>4
    <2>6. f = Rec(f)
      BY <2>4, <2>5
    <2> QED
      BY <2>6
  <1>5. built = Rec(built)
    <2> HIDE DEF Rec
    <2> QED
      BY <1>4
  <1> HIDE DEF built
  <1>6. built[0] = <<>> /\ \A m \in 1..Len(seq) : built[m] = After(m, built[m - 1])
    BY <1>5, <1>1
  <1>7. built \in [0..Len(seq) -> Seq(S)]
    <2> DEFINE Good == {m \in 0..Len(seq) : built[m] \in Seq(S)}
    <2>1. 0 \in Good
      <3>1. built[0] = <<>> /\ Len(seq) \in Nat
        BY <1>6, <1>1
      <3>2. <<>> \in Seq(S)
        OBVIOUS
      <3>3. built[0] \in Seq(S) /\ 0 \in 0..Len(seq)
        BY <3>1, <3>2
      <3> HIDE DEF built
      <3> QED
        BY <3>3
    <2>4. ASSUME NEW m \in 1..Len(seq), m - 1 \in Good PROVE m \in Good
      <3>1. built[m] = After(m, built[m - 1]) /\ built[m - 1] \in Seq(S)
        BY <1>6, <2>4
      <3>2. built[m] \in Seq(S)
        BY <1>1, <3>1
      <3> QED
        BY <3>2
    <2>2. \A m \in 0..Len(seq) : m \in Good
      <3> HIDE DEF Good
      <3> QED
        BY <2>1, <2>4, <1>1, InductionTo
    <2>3. built = [m \in 0..Len(seq) |-> built[m]]
      BY <1>5
    <2> QED
      BY <2>2, <2>3
  <1> QED
    BY <1>2, <1>6, <1>7, <1>3 DEF PicksBy

\* Picked keeps what stands at the places, in the order it stands in.
LEMMA PickedIs ==
    ASSUME NEW S, NEW seq \in Seq(S), NEW places
    PROVE  LET some == Picked(seq, places) IN
           /\ some \in Seq(S) /\ Len(some) <= Len(seq)
           /\ \A n \in 1..Len(some) : \E k \in 1..Len(seq) : k \in places /\ some[n] = seq[k]
           /\ \A k \in 1..Len(seq) : k \in places => \E n \in 1..Len(some) : some[n] = seq[k]
           /\ \A n, m \in 1..Len(some) : n < m =>
                 \E k, l \in 1..Len(seq) : k < l /\ some[n] = seq[k] /\ some[m] = seq[l]
  <1>0. PICK f \in [0..Len(seq) -> Seq(S)] : PicksBy(f, seq, places)
    BY PickedBuilt
  <1>1. /\ f[0] = <<>>
        /\ \A m \in 1..Len(seq) : f[m] = IF m \in places THEN Append(f[m - 1], seq[m]) ELSE f[m - 1]
        /\ Picked(seq, places) = f[Len(seq)]
    BY <1>0 DEF PicksBy
  <1> DEFINE Short(j) == Len(f[j]) <= j
             From(j) == \A n \in 1..Len(f[j]) : \E k \in 1..j : k \in places /\ f[j][n] = seq[k]
             All(j) == \A k \in 1..j : k \in places => \E n \in 1..Len(f[j]) : f[j][n] = seq[k]
             Order(j) == \A n, m \in 1..Len(f[j]) : n < m =>
                            \E k, l \in 1..j : k < l /\ f[j][n] = seq[k] /\ f[j][m] = seq[l]
             Good == {j \in 0..Len(seq) : Short(j) /\ From(j) /\ All(j) /\ Order(j)}
  <1>2. Len(seq) \in Nat
    OBVIOUS
  <1>3. 0 \in Good
    <2>1. f[0] = <<>> /\ Len(f[0]) = 0
      BY <1>1
    <2>2. Short(0) /\ From(0) /\ All(0) /\ Order(0)
      BY <2>1
    <2> HIDE DEF Short, From, All, Order
    <2> QED
      BY <2>2, <1>2
  <1>4. ASSUME NEW j \in 1..Len(seq), j - 1 \in Good PROVE j \in Good
    <2>1. f[j - 1] \in Seq(S) /\ f[j] \in Seq(S) /\ seq[j] \in S /\ Len(f[j - 1]) \in Nat /\ j - 1 \in Nat
      BY <1>1, <1>2
    <2>2. Short(j - 1) /\ From(j - 1) /\ All(j - 1) /\ Order(j - 1)
      BY <1>4
    <2>3. CASE j \notin places
      <3>1. f[j] = f[j - 1]
        BY <1>1, <2>3
      <3>2. Short(j)
        BY <3>1, <2>1, <2>2
      <3>3. From(j)
        BY <3>1, <2>1, <2>2
      <3>4. All(j)
        <4> SUFFICES ASSUME NEW k \in 1..j, k \in places PROVE \E n \in 1..Len(f[j]) : f[j][n] = seq[k]
          OBVIOUS
        <4>1. k \in 1..(j - 1)
          BY <2>3, <2>1
        <4> QED
          BY <3>1, <4>1, <2>2
      <3>5. Order(j)
        BY <3>1, <2>1, <2>2
      <3> HIDE DEF Short, From, All, Order
      <3> QED
        BY <3>2, <3>3, <3>4, <3>5
    <2>4. CASE j \in places
      <3>1. f[j] = Append(f[j - 1], seq[j])
        BY <1>1, <2>4
      <3> DEFINE b == f[j - 1]
      <3>2. Len(f[j]) = Len(b) + 1 /\ f[j][Len(b) + 1] = seq[j] /\ \A n \in 1..Len(b) : f[j][n] = b[n]
        BY <3>1, <2>1
      <3>3. Len(b) \in Nat /\ Len(b) <= j - 1
        BY <2>1, <2>2
      <3>4. Short(j)
        BY <3>2, <3>3, <2>1
      <3>5. From(j)
        <4> SUFFICES ASSUME NEW n \in 1..Len(f[j]) PROVE \E k \in 1..j : k \in places /\ f[j][n] = seq[k]
          OBVIOUS
        <4>1. CASE n = Len(b) + 1
          BY <4>1, <3>2, <2>4
        <4>2. CASE n \in 1..Len(b)
          <5>1. PICK k \in 1..(j - 1) : k \in places /\ b[n] = seq[k]
            BY <4>2, <2>2
          <5> QED
            BY <5>1, <4>2, <3>2
        <4> QED
          BY <4>1, <4>2, <3>2, <3>3
      <3>6. All(j)
        <4> SUFFICES ASSUME NEW k \in 1..j, k \in places PROVE \E n \in 1..Len(f[j]) : f[j][n] = seq[k]
          OBVIOUS
        <4>1. CASE k = j
          BY <4>1, <3>2, <3>3
        <4>2. CASE k # j
          <5>1. k \in 1..(j - 1)
            BY <4>2
          <5>2. PICK n \in 1..Len(b) : b[n] = seq[k]
            BY <5>1, <2>2
          <5> QED
            BY <5>2, <3>2, <3>3
        <4> QED
          BY <4>1, <4>2
      <3>7. Order(j)
        <4> SUFFICES ASSUME NEW n \in 1..Len(f[j]), NEW m \in 1..Len(f[j]), n < m
                     PROVE  \E k, l \in 1..j : k < l /\ f[j][n] = seq[k] /\ f[j][m] = seq[l]
          OBVIOUS
        <4>1. n \in 1..Len(b)
          BY <3>2, <3>3
        <4>2. CASE m = Len(b) + 1
          <5>1. PICK k \in 1..(j - 1) : b[n] = seq[k]
            BY <4>1, <2>2
          <5> QED
            BY <5>1, <4>1, <4>2, <3>2
        <4>3. CASE m \in 1..Len(b)
          <5>1. PICK k \in 1..(j - 1), l \in 1..(j - 1) : k < l /\ b[n] = seq[k] /\ b[m] = seq[l]
            BY <4>1, <4>3, <2>2
          <5>2. f[j][n] = seq[k] /\ f[j][m] = seq[l]
            BY <5>1, <4>1, <4>3, <3>2
          <5>3. k \in 1..j /\ l \in 1..j
            BY <2>1
          <5> QED
            BY <5>1, <5>2, <5>3
        <4>4. m = Len(b) + 1 \/ m \in 1..Len(b)
          BY <3>2, <3>3
        <4> QED
          BY <4>2, <4>3, <4>4
      <3> HIDE DEF Short, From, All, Order
      <3> QED
        BY <3>4, <3>5, <3>6, <3>7
    <2> QED
      BY <2>3, <2>4
  <1>5. \A j \in 0..Len(seq) : j \in Good
    <2> HIDE DEF Good
    <2> QED
      BY <1>2, <1>3, <1>4, InductionTo
  <1>6. Short(Len(seq)) /\ From(Len(seq)) /\ All(Len(seq)) /\ Order(Len(seq))
    <2>1. Len(seq) \in Good
      <3> HIDE DEF Good
      <3> QED
        BY <1>5, <1>2
    <2> HIDE DEF Short, From, All, Order
    <2> QED
      BY <2>1
  <1> QED
    BY <1>1, <1>2, <1>6

-----------------------------------------------------------------------------
(* What a strategy is shown. *)

Order == [ticket : Nat, day : Nat, tp : BOOLEAN, level : Nat, result : {"open", "won", "lost", "even"},
          until : Nat, at : Nat, type : Sides]

\* The sizes are numbers, and none is zero.
LEMMA SizesType == OrderInfoSize \in Nat /\ OrderInfoSize >= 1 /\ MaxOpenOrders \in Nat /\ MaxOpenOrders >= 1
  BY StrategiesAssumption

\* It is shown its open orders, the newest first, and then the closed ones.
LEMMA ShownIs ==
    ASSUME NEW S, open \in Seq(S), closed \in Seq(S)
    PROVE  LET shown == c_getOrderInfo(OrderInfoSize) IN
           /\ shown \in Seq(S)
           /\ \A n \in 1..Len(shown) :
                 (\E k \in 1..Len(open) : shown[n] = open[k])
                         \/ (\E k \in 1..Len(closed) : shown[n] = closed[k])
           /\ open # <<>> => 1 \in 1..Len(shown) /\ shown[1] = open[Len(open)]
           /\ open = <<>> /\ closed # <<>> => 1 \in 1..Len(shown) /\ shown[1] = closed[Len(closed)]
           /\ Len(open) <= OrderInfoSize => \A k \in 1..Len(open) : \E n \in 1..Len(shown) : shown[n] = open[k]
  <1> DEFINE total == Len(open) + Len(closed)
             size == Min({OrderInfoSize, total})
             At1(n) == IF n <= Len(open) THEN open[Len(open) + 1 - n]
                       ELSE closed[Len(open) + Len(closed) + 1 - n]
             shown == [n \in 1..size |-> At1(n)]
  <1>1. Len(open) \in Nat /\ Len(closed) \in Nat /\ OrderInfoSize \in Nat /\ OrderInfoSize >= 1
    BY SizesType
  <1>2. size \in Nat /\ size <= total /\ size <= OrderInfoSize /\ (size = total \/ size = OrderInfoSize)
    <2>1. {OrderInfoSize, total} \in SUBSET Nat /\ {OrderInfoSize, total} # {}
      BY <1>1
    <2>2. size \in {OrderInfoSize, total} /\ \A n \in {OrderInfoSize, total} : size <= n
      BY <2>1, MinOf
    <2> QED
      BY <2>2, <1>1
  <1>3. c_getOrderInfo(OrderInfoSize) = shown
    BY DEF c_getOrderInfo
  <1> HIDE DEF size
  <1>4. ASSUME NEW n \in 1..size
        PROVE  At1(n) \in S /\ ((\E k \in 1..Len(open) : At1(n) = open[k])
                                \/ (\E k \in 1..Len(closed) : At1(n) = closed[k]))
    <2>1. CASE n <= Len(open)
      <3>1. Len(open) + 1 - n \in 1..Len(open) /\ At1(n) = open[Len(open) + 1 - n]
        BY <2>1, <1>1
      <3> QED
        BY <3>1
    <2>2. CASE ~(n <= Len(open))
      <3>1. Len(open) + Len(closed) + 1 - n \in 1..Len(closed)
              /\ At1(n) = closed[Len(open) + Len(closed) + 1 - n]
        BY <2>2, <1>1, <1>2
      <3> QED
        BY <3>1
    <2> QED
      BY <2>1, <2>2
  <1>5. shown \in Seq(S) /\ Len(shown) = size /\ \A n \in 1..size : shown[n] = At1(n)
    BY <1>2, <1>4
  <1>6. open # <<>> => 1 \in 1..size /\ At1(1) = open[Len(open)]
    BY <1>1, <1>2
  <1>7. open = <<>> /\ closed # <<>> => 1 \in 1..size /\ At1(1) = closed[Len(closed)]
    BY <1>1, <1>2
  <1>8. ASSUME Len(open) <= OrderInfoSize, NEW k \in 1..Len(open)
        PROVE  \E n \in 1..size : At1(n) = open[k]
    <2>1. Len(open) + 1 - k \in 1..size /\ At1(Len(open) + 1 - k) = open[k]
      BY <1>8, <1>1, <1>2
    <2> QED
      BY <2>1
  <1>9. /\ \A n \in 1..Len(shown) :
                 (\E k \in 1..Len(open) : shown[n] = open[k])
                         \/ (\E k \in 1..Len(closed) : shown[n] = closed[k])
        /\ open # <<>> => 1 \in 1..Len(shown) /\ shown[1] = open[Len(open)]
        /\ open = <<>> /\ closed # <<>> => 1 \in 1..Len(shown) /\ shown[1] = closed[Len(closed)]
        /\ Len(open) <= OrderInfoSize => \A k \in 1..Len(open) : \E n \in 1..Len(shown) : shown[n] = open[k]
    <2> HIDE DEF shown, At1
    <2>1. \A n \in 1..Len(shown) :
                 (\E k \in 1..Len(open) : shown[n] = open[k])
                         \/ (\E k \in 1..Len(closed) : shown[n] = closed[k])
      BY <1>4, <1>5
    <2>2. Len(open) <= OrderInfoSize => \A k \in 1..Len(open) : \E n \in 1..Len(shown) : shown[n] = open[k]
      BY <1>5, <1>8
    <2> QED
      BY <2>1, <2>2, <1>5, <1>6, <1>7
  <1> HIDE DEF shown
  <1> QED
    BY <1>3, <1>5, <1>9

\* The orders of the account are open, and those of the history are not.
AccountOpen ==
    /\ open \in Seq(Order) /\ closed \in Seq(Order)
    /\ \A n \in 1..Len(open) : open[n].result = "open"
    /\ \A n \in 1..Len(closed) : closed[n].result # "open"

\* The shown orders that are open are orders of the account, and all of them if they are few enough.
LEMMA HeldIs ==
    ASSUME AccountOpen
    PROVE  LET shown == c_getOrderInfo(OrderInfoSize)
               held == ShownOpen(shown)
           IN  /\ shown \in Seq(Order) /\ held \in Seq(Order)
               /\ \A n \in 1..Len(held) : \E k \in 1..Len(open) : held[n] = open[k]
               /\ \A n \in 1..Len(shown) : IsOpen(shown[n]) => \E k \in 1..Len(open) : shown[n] = open[k]
               /\ Len(open) <= OrderInfoSize => \A k \in 1..Len(open) : \E n \in 1..Len(held) : held[n] = open[k]
               /\ OpenPlaces(shown) = {} => open = <<>>
               /\ open = <<>> => held = <<>>
  <1> DEFINE shown == c_getOrderInfo(OrderInfoSize)
             held == Picked(shown, OpenPlaces(shown))
  <1>1. /\ shown \in Seq(Order)
        /\ \A n \in 1..Len(shown) :
                 (\E k \in 1..Len(open) : shown[n] = open[k])
                         \/ (\E k \in 1..Len(closed) : shown[n] = closed[k])
        /\ open # <<>> => 1 \in 1..Len(shown) /\ shown[1] = open[Len(open)]
        /\ Len(open) <= OrderInfoSize => \A k \in 1..Len(open) : \E n \in 1..Len(shown) : shown[n] = open[k]
    BY ShownIs DEF AccountOpen
  <1>2. ShownOpen(shown) = held
    BY DEF ShownOpen
  <1> HIDE DEF shown
  <1>3. OpenPlaces(shown) = {n \in 1..Len(shown) : shown[n].result = "open"}
    BY <1>1 DEF OpenPlaces, IsOpen
  <1>4. \A n \in 1..Len(shown) : shown[n].result = "open" => \E k \in 1..Len(open) : shown[n] = open[k]
    BY <1>1 DEF AccountOpen
  <1>5. /\ held \in Seq(Order)
        /\ \A n \in 1..Len(held) : \E k \in 1..Len(shown) : k \in OpenPlaces(shown) /\ held[n] = shown[k]
        /\ \A k \in 1..Len(shown) : k \in OpenPlaces(shown) => \E n \in 1..Len(held) : held[n] = shown[k]
    <2> DEFINE places == OpenPlaces(shown)
    <2> HIDE DEF places
    <2>1. /\ Picked(shown, places) \in Seq(Order)
          /\ \A n \in 1..Len(Picked(shown, places)) :
                \E k \in 1..Len(shown) : k \in places /\ Picked(shown, places)[n] = shown[k]
          /\ \A k \in 1..Len(shown) : k \in places =>
                \E n \in 1..Len(Picked(shown, places)) : Picked(shown, places)[n] = shown[k]
      <3>1. shown \in Seq(Order)
        BY <1>1
      <3> QED
        BY <3>1, PickedIs
    <2> QED
      BY <2>1 DEF places
  <1> HIDE DEF held
  <1>6. \A n \in 1..Len(held) : \E k \in 1..Len(open) : held[n] = open[k]
    <2> TAKE n \in 1..Len(held)
    <2>1. PICK k \in 1..Len(shown) : k \in OpenPlaces(shown) /\ held[n] = shown[k]
      BY <1>5
    <2>2. shown[k].result = "open"
      BY <2>1, <1>3
    <2> QED
      BY <2>1, <2>2, <1>4
  <1>7. \A k \in 1..Len(open) : open[k].result = "open"
    BY DEF AccountOpen
  <1>8. ASSUME Len(open) <= OrderInfoSize, NEW k \in 1..Len(open)
          PROVE \E n \in 1..Len(held) : held[n] = open[k]
    <2>1. PICK m \in 1..Len(shown) : shown[m] = open[k]
      BY <1>1, <1>8
    <2>2. m \in OpenPlaces(shown)
      BY <2>1, <1>3, <1>7
    <2> QED
      BY <2>1, <2>2, <1>5
  <1>9. OpenPlaces(shown) = {} => open = <<>>
    <2> SUFFICES ASSUME open # <<>> PROVE 1 \in OpenPlaces(shown)
      OBVIOUS
    <2>1. Len(open) \in 1..Len(open)
      BY DEF AccountOpen
    <2> QED
      BY <2>1, <1>1, <1>3, <1>7
  <1>10. open = <<>> => held = <<>>
    BY <1>6, <1>5
  <1>11. \A n \in 1..Len(shown) : IsOpen(shown[n]) => \E k \in 1..Len(open) : shown[n] = open[k]
    BY <1>4 DEF IsOpen
  <1> QED
    BY <1>1, <1>2, <1>5, <1>6, <1>8, <1>9, <1>10, <1>11 DEF shown

\* It is shown no more than fit.
LEMMA HeldFit ==
    ASSUME AccountOpen
    PROVE  Len(ShownOpen(c_getOrderInfo(OrderInfoSize))) <= OrderInfoSize
  <1> DEFINE total == Len(open) + Len(closed)
             size == Min({OrderInfoSize, total})
             shown == c_getOrderInfo(OrderInfoSize)
             places == OpenPlaces(shown)
  <1>1. size \in Nat /\ size <= OrderInfoSize /\ OrderInfoSize \in Nat
    <2>1. Len(open) \in Nat /\ Len(closed) \in Nat /\ OrderInfoSize \in Nat
      BY SizesType DEF AccountOpen
    <2>2. {OrderInfoSize, total} \in SUBSET Nat /\ {OrderInfoSize, total} # {}
      BY <2>1
    <2> QED
      BY <2>1, <2>2, MinOf
  <1> HIDE DEF size
  <1>2. shown \in Seq(Order)
    BY HeldIs
  <1>3. Len(shown) = size
    <2>1. DOMAIN shown = 1..size
      BY DEF c_getOrderInfo, size
    <2> HIDE DEF shown
    <2>2. DOMAIN shown = 1..Len(shown) /\ Len(shown) \in Nat
      BY <1>2
    <2> QED
      BY <2>1, <2>2, <1>1
  <1>4. ShownOpen(shown) = Picked(shown, places)
    BY DEF ShownOpen
  <1> HIDE DEF places, shown
  <1>5. Picked(shown, places) \in Seq(Order) /\ Len(Picked(shown, places)) <= Len(shown)
    BY <1>2, PickedIs
  <1>6. Len(Picked(shown, places)) \in Nat
    BY <1>5
  <1>7. Len(Picked(shown, places)) <= OrderInfoSize
    BY <1>1, <1>3, <1>5, <1>6
  <1> QED
    BY <1>4, <1>7 DEF shown

\* The order opened last is one of those it is shown, and none was opened after it.
LEMMA LatestIs ==
    ASSUME NEW shown \in Seq(Order), shown # <<>>
    PROVE  \E n \in 1..Len(shown) : /\ Latest(shown) = shown[n]
                                    /\ \A k \in 1..Len(shown) : shown[k].at <= shown[n].at
  <1> DEFINE Newest == {n \in 1..Len(shown) : \A k \in 1..Len(shown) : shown[k].at <= shown[n].at}
  <1>1. DOMAIN shown = 1..Len(shown) /\ Len(shown) \in Nat /\ Len(shown) >= 1
    OBVIOUS
  <1>2. \A k \in 1..Len(shown) : shown[k].at \in Nat
    <2> TAKE k \in 1..Len(shown)
    <2>1. shown[k] \in Order
      OBVIOUS
    <2> QED
      BY <2>1 DEF Order
  <1>3. Newest # {}
    <2> DEFINE Top(j) == j >= 1 => \E n \in 1..j : \A k \in 1..j : shown[k].at <= shown[n].at
               Good == {j \in 0..Len(shown) : Top(j)}
    <2>1. 0 \in Good
      BY <1>1
    <2>2. ASSUME NEW j \in 1..Len(shown), j - 1 \in Good PROVE j \in Good
      <3>1. CASE j = 1
        BY <3>1, <1>2
      <3>2. CASE j # 1
        <4>1. PICK n \in 1..(j - 1) : \A k \in 1..(j - 1) : shown[k].at <= shown[n].at
          BY <3>2, <2>2, <1>1
        <4>2. n \in 1..Len(shown) /\ shown[n].at \in Nat /\ shown[j].at \in Nat
          BY <1>2
        <4>3. CASE shown[j].at <= shown[n].at
          <5>1. \A k \in 1..j : shown[k].at <= shown[n].at
            <6> TAKE k \in 1..j
            <6>1. k \in 1..(j - 1) \/ k = j
              OBVIOUS
            <6> QED
              BY <6>1, <4>1, <4>3
          <5>2. n \in 1..j
            OBVIOUS
          <5> QED
            BY <5>1, <5>2
        <4>4. CASE shown[n].at < shown[j].at
          <5>1. \A k \in 1..j : shown[k].at <= shown[j].at
            <6> TAKE k \in 1..j
            <6>1. (k \in 1..(j - 1) \/ k = j) /\ shown[k].at \in Nat
              BY <1>2
            <6>2. k \in 1..(j - 1) => shown[k].at <= shown[n].at
              BY <4>1
            <6> QED
              BY <6>1, <6>2, <4>2, <4>4
          <5> QED
            BY <5>1
        <4>5. shown[j].at <= shown[n].at \/ shown[n].at < shown[j].at
          BY <4>2
        <4> QED
          BY <4>3, <4>4, <4>5
      <3> QED
        BY <3>1, <3>2
    <2>3. \A j \in 0..Len(shown) : j \in Good
      <3> HIDE DEF Good
      <3> QED
        BY <1>1, <2>1, <2>2, InductionTo
    <2>4. Top(Len(shown))
      <3>1. Len(shown) \in Good
        <4> HIDE DEF Good
        <4> QED
          BY <2>3, <1>1
      <3> HIDE DEF Top
      <3> QED
        BY <3>1
    <2> QED
      BY <2>4, <1>1
  <1>4. Min(Newest) \in Newest
    <2>1. Newest \in SUBSET Nat
      OBVIOUS
    <2> HIDE DEF Newest
    <2> QED
      BY <2>1, <1>3, MinOf
  <1>5. Latest(shown) = shown[Min(Newest)]
    BY <1>1 DEF Latest, LastOpened
  <1> QED
    BY <1>4, <1>5

-----------------------------------------------------------------------------
(* The results array. *)

Clear == [ticket |-> AllOrderTickets, signals |-> {}, stops |-> "none"]
CloseOf(ask) == [ticket |-> ask[2], signals |-> {<<"CLOSE", ask[1]>>}, stops |-> "none"]
EntryOf(side) == [ticket |-> AllOrderTickets, signals |-> {<<"OPEN", side>>}, stops |-> "own"]

\* Results that send no order.
QuietResults == [ticket : Int, signals : SUBSET ({"CLOSE", "UPDATE"} \X OrderTypes), stops : Stops]
Arrays == [1..MaxOpenOrders -> Results]
QuietArrays == [1..MaxOpenOrders -> QuietResults]

\* Results that only close and update are results.
LEMMA QuietIsArray == QuietArrays \subseteq Arrays
  <1>1. QuietResults \subseteq Results
    BY DEF QuietResults, Results, Signals
  <1> QED
    BY <1>1 DEF QuietArrays, Arrays

\* A quiet array has no entry.
LEMMA QuietHasNone == ASSUME NEW res \in QuietArrays PROVE ToOpen(res) = {}
  <1> SUFFICES ASSUME NEW r \in 1..MaxOpenOrders, NEW side \in Sides, <<"OPEN", side>> \in res[r].signals
               PROVE  FALSE
    BY DEF QuietArrays, ToOpen
  <1>1. res[r].signals \in SUBSET ({"CLOSE", "UPDATE"} \X OrderTypes)
    BY DEF QuietArrays, QuietResults
  <1> QED
    BY <1>1

\* The first result without a signal is in the array or the place after it, and is one of its kind.
LEMMA FreeStays ==
    ASSUME NEW R, NEW res \in [1..MaxOpenOrders -> R], Clear \in R
    PROVE  FreeIndex(res) \in 1..(MaxOpenOrders + 1) /\ FreeResult(res) \in R
  <1> DEFINE Free == {r \in DOMAIN res : res[r].signals = {}} \cup {Len(res) + 1}
  <1>1. MaxOpenOrders \in Nat /\ Len(res) = MaxOpenOrders /\ DOMAIN res = 1..MaxOpenOrders /\ res \in Seq(R)
    BY SizesType
  <1>2. Free \in SUBSET Nat /\ Free # {} /\ Free \subseteq 1..(MaxOpenOrders + 1)
    BY <1>1
  <1>3. FreeIndex(res) = Min(Free)
    BY DEF FreeIndex
  <1> HIDE DEF Free
  <1>4. FreeIndex(res) \in 1..(MaxOpenOrders + 1)
    BY <1>2, <1>3, MinOf
  <1>5. clearStrategyResults(1)[1] = Clear
    BY DEF clearStrategyResults, Clear
  <1>6. FreeResult(res) = Append(res, Clear)[FreeIndex(res)]
    BY <1>5 DEF FreeResult
  <1>7. Append(res, Clear) \in Seq(R) /\ Len(Append(res, Clear)) = MaxOpenOrders + 1
    BY <1>1
  <1>8. Append(res, Clear)[FreeIndex(res)] \in R
    <2> DEFINE longer == Append(res, Clear)
    <2> HIDE DEF longer
    <2>1. longer \in Seq(R) /\ FreeIndex(res) \in 1..Len(longer)
      BY <1>7, <1>4 DEF longer
    <2>2. longer[FreeIndex(res)] \in R
      BY <2>1
    <2> QED
      BY <2>2 DEF longer
  <1> QED
    BY <1>4, <1>6, <1>8

\* Writing a free result keeps the type of the results.
LEMMA UseFreeStays ==
    ASSUME NEW R, NEW res \in [1..MaxOpenOrders -> R], NEW result \in R
    PROVE  UseFree(res, result) \in [1..MaxOpenOrders -> R]
  BY DEF UseFree

\* What the EasyTrade functions write.
LEMMA EasyStays ==
    ASSUME NEW R \in {QuietResults, Results}, NEW res \in [1..MaxOpenOrders -> R], NEW type \in Sides,
           NEW ticket \in Int
    PROVE  /\ closeEasy(res, type, ticket) \in [1..MaxOpenOrders -> R]
           /\ modifyTradeEasy(res, type, ticket, "own") \in [1..MaxOpenOrders -> R]
           /\ R = Results => openSingle(res, type, "own") \in [1..MaxOpenOrders -> R]
  <1>1. Clear \in R
    <2>1. Clear \in QuietResults
      BY DEF Clear, QuietResults, Stops, AllOrderTickets
    <2>2. Clear \in Results
      BY DEF Clear, Results, Stops, AllOrderTickets
    <2> QED
      BY <2>1, <2>2
  <1>2. FreeResult(res) \in R
    BY <1>1, FreeStays
  <1>3. type \in OrderTypes
    BY DEF Sides, OrderTypes, LongTypes, ShortTypes
  <1>4. [FreeResult(res) EXCEPT !.ticket = ticket, !.signals = {<<"CLOSE", type>>}] \in R
    <2> DEFINE free == FreeResult(res)
    <2>0. free \in R
      BY <1>2
    <2>1. {<<"CLOSE", type>>} \in SUBSET ({"CLOSE", "UPDATE"} \X OrderTypes)
            /\ {<<"CLOSE", type>>} \in SUBSET Signals
      BY <1>3 DEF Signals
    <2> HIDE DEF free
    <2> DEFINE signals == {<<"CLOSE", type>>}
               named == [free EXCEPT !.ticket = ticket]
    <2>5. signals \in SUBSET ({"CLOSE", "UPDATE"} \X OrderTypes) /\ signals \in SUBSET Signals
      BY <2>1
    <2> HIDE DEF signals
    <2>2. named \in R
      <3>1. CASE R = QuietResults
        BY <2>0, <3>1 DEF QuietResults
      <3>2. CASE R = Results
        BY <2>0, <3>2 DEF Results
      <3> QED
        BY <3>1, <3>2
    <2> HIDE DEF named
    <2>6. [named EXCEPT !.signals = signals] \in R
      <3>1. CASE R = QuietResults
        BY <2>2, <2>5, <3>1 DEF QuietResults
      <3>2. CASE R = Results
        BY <2>2, <2>5, <3>2 DEF Results
      <3> QED
        BY <3>1, <3>2
    <2>3. [[free EXCEPT !.ticket = ticket] EXCEPT !.signals = {<<"CLOSE", type>>}] \in R
      BY <2>6 DEF named, signals
    <2>4. [free EXCEPT !.ticket = ticket, !.signals = {<<"CLOSE", type>>}]
          = [[free EXCEPT !.ticket = ticket] EXCEPT !.signals = {<<"CLOSE", type>>}]
      OBVIOUS
    <2> QED
      BY <2>3, <2>4 DEF free
  <1>5. [ticket |-> ticket, signals |-> {<<"UPDATE", type>>}, stops |-> "own"] \in R
    <2>1. {<<"UPDATE", type>>} \in SUBSET ({"CLOSE", "UPDATE"} \X OrderTypes)
            /\ {<<"UPDATE", type>>} \in SUBSET Signals
      BY <1>3 DEF Signals
    <2> QED
      BY <2>1 DEF QuietResults, Results, Stops
  <1>6. ASSUME R = Results
        PROVE  [ticket  |-> IF type = "BUY" THEN AllOrderTickets ELSE FreeResult(res).ticket,
                signals |-> {<<"OPEN", type>>}, stops |-> "own"] \in R
    <2>1. {<<"OPEN", type>>} \in SUBSET Signals
      BY <1>3 DEF Signals
    <2>2. FreeResult(res).ticket \in Int /\ AllOrderTickets \in Int
      BY <1>2, <1>6 DEF Results, AllOrderTickets
    <2> QED
      BY <2>1, <2>2, <1>6 DEF Results, Stops
  <1>7. closeEasy(res, type, ticket) \in [1..MaxOpenOrders -> R]
    BY <1>4, UseFreeStays DEF closeEasy
  <1>8. modifyTradeEasy(res, type, ticket, "own") \in [1..MaxOpenOrders -> R]
    BY <1>5, UseFreeStays DEF modifyTradeEasy
  <1>9. R = Results => openSingle(res, type, "own") \in [1..MaxOpenOrders -> R]
    BY <1>6, UseFreeStays DEF openSingle
  <1> QED
    BY <1>7, <1>8, <1>9

\* The recursion of closeNamed.
ClosesBy(f, res, held, named, type) ==
    /\ f[0] = res
    /\ \A m \in 1..Len(held) : f[m] = IF <<type, held[m].ticket>> \in named
            THEN closeEasy(f[m - 1], type, held[m].ticket) ELSE f[m - 1]
    /\ closeNamed(res, held, named, type) = f[Len(held)]

\* The recursive function of closeNamed exists.
LEMMA ClosesBuilt ==
    ASSUME NEW V, NEW res \in V, NEW S, NEW held \in Seq(S), NEW named, NEW type,
           \A x \in V : \A m \in 1..Len(held) : closeEasy(x, type, held[m].ticket) \in V
    PROVE  \E f \in [0..Len(held) -> V] : ClosesBy(f, res, held, named, type)
  <1> DEFINE After(m, x) == IF <<type, held[m].ticket>> \in named THEN closeEasy(x, type, held[m].ticket) ELSE x
             step == [m \in 1..Len(held) |-> [x \in V |-> After(m, x)]]
             Rec(f) == [m \in 0..Len(held) |-> IF m = 0 THEN res ELSE After(m, f[m - 1])]
             built == CHOOSE f : f = Rec(f)
  <1>1. Len(held) \in Nat /\ res \in V /\ \A m \in 1..Len(held) : \A x \in V : After(m, x) \in V
    OBVIOUS
  <1>2. closeNamed(res, held, named, type) = built[Len(held)]
    BY DEF closeNamed
  <1>3. \A f : \A m \in 1..Len(held) : After(m, f[m - 1]) = IF <<type, held[m].ticket>> \in named
          THEN closeEasy(f[m - 1], type, held[m].ticket) ELSE f[m - 1]
    OBVIOUS
  <1> HIDE DEF After
  <1>4. PICK f \in [0..Len(held) -> V] : f = Rec(f)
    <2>1. step \in [1..Len(held) -> [V -> V]]
      BY <1>1
    <2>2. \A m \in 1..Len(held) : \A x \in V : step[m][x] = After(m, x)
      OBVIOUS
    <2> HIDE DEF step
    <2>3. BuiltUp(Len(held), V, res, step)
      BY <1>1, <2>1, RecursionExists
    <2>4. PICK f \in [0..Len(held) -> V] : f[0] = res /\ \A m \in 1..Len(held) : f[m] = step[m][f[m - 1]]
      BY <2>3 DEF BuiltUp
    <2>5. ASSUME NEW m \in 1..Len(held) PROVE f[m] = After(m, f[m - 1])
      <3>1. f[m - 1] \in V
        BY <1>1
      <3> QED
        BY <3>1, <2>2, <2>4
    <2>6. f = Rec(f)
      BY <2>4, <2>5
    <2> QED
      BY <2>6
  <1>5. built = Rec(built)
    <2> HIDE DEF Rec
    <2> QED
      BY <1>4
  <1> HIDE DEF built
  <1>6. built[0] = res /\ \A m \in 1..Len(held) : built[m] = After(m, built[m - 1])
    BY <1>5, <1>1
  <1>7. built \in [0..Len(held) -> V]
    <2> DEFINE Good == {m \in 0..Len(held) : built[m] \in V}
    <2>1. 0 \in Good
      <3>1. built[0] = res /\ Len(held) \in Nat
        BY <1>6, <1>1
      <3>2. built[0] \in V
        BY <3>1, <1>1
      <3> QED
        BY <3>1, <3>2
    <2>2. ASSUME NEW m \in 1..Len(held), m - 1 \in Good PROVE m \in Good
      <3>1. built[m] = After(m, built[m - 1]) /\ built[m - 1] \in V
        BY <1>6, <2>2
      <3>2. built[m] \in V
        BY <1>1, <3>1
      <3> QED
        BY <3>2
    <2>3. \A m \in 0..Len(held) : m \in Good
      <3> HIDE DEF Good
      <3> QED
        BY <2>1, <2>2, <1>1, InductionTo
    <2>4. built = [m \in 0..Len(held) |-> built[m]]
      BY <1>5
    <2> QED
      BY <2>3, <2>4
  <1> QED
    BY <1>2, <1>6, <1>7, <1>3 DEF ClosesBy

\* The recursion of openEach.
EntersBy(f, res, side, orders) ==
    /\ f[0] = res
    /\ \A m \in 1..orders : f[m] = openSingle(f[m - 1], side, "own")
    /\ openEach(res, side, orders) = f[orders]

\* The recursive function of openEach exists.
LEMMA EntersBuilt ==
    ASSUME NEW V, NEW res \in V, NEW orders \in Nat, NEW side, \A x \in V : openSingle(x, side, "own") \in V
    PROVE  \E f \in [0..orders -> V] : EntersBy(f, res, side, orders)
  <1> DEFINE After(m, x) == openSingle(x, side, "own")
             step == [m \in 1..orders |-> [x \in V |-> After(m, x)]]
             Rec(f) == [m \in 0..orders |-> IF m = 0 THEN res ELSE After(m, f[m - 1])]
             built == CHOOSE f : f = Rec(f)
  <1>1. orders \in Nat /\ res \in V /\ \A m \in 1..orders : \A x \in V : After(m, x) \in V
    OBVIOUS
  <1>2. openEach(res, side, orders) = built[orders]
    BY DEF openEach
  <1>3. \A f : \A m \in 1..orders : After(m, f[m - 1]) = openSingle(f[m - 1], side, "own")
    OBVIOUS
  <1> HIDE DEF After
  <1>4. PICK f \in [0..orders -> V] : f = Rec(f)
    <2>1. step \in [1..orders -> [V -> V]]
      BY <1>1
    <2>2. \A m \in 1..orders : \A x \in V : step[m][x] = After(m, x)
      OBVIOUS
    <2> HIDE DEF step
    <2>3. BuiltUp(orders, V, res, step)
      BY <1>1, <2>1, RecursionExists
    <2>4. PICK f \in [0..orders -> V] : f[0] = res /\ \A m \in 1..orders : f[m] = step[m][f[m - 1]]
      BY <2>3 DEF BuiltUp
    <2>5. ASSUME NEW m \in 1..orders PROVE f[m] = After(m, f[m - 1])
      <3>1. f[m - 1] \in V
        BY <1>1
      <3> QED
        BY <3>1, <2>2, <2>4
    <2>6. f = Rec(f)
      BY <2>4, <2>5
    <2> QED
      BY <2>6
  <1>5. built = Rec(built)
    <2> HIDE DEF Rec
    <2> QED
      BY <1>4
  <1> HIDE DEF built
  <1>6. built[0] = res /\ \A m \in 1..orders : built[m] = After(m, built[m - 1])
    BY <1>5, <1>1
  <1>7. built \in [0..orders -> V]
    <2> DEFINE Good == {m \in 0..orders : built[m] \in V}
    <2>1. 0 \in Good
      <3>1. built[0] = res /\ orders \in Nat
        BY <1>6, <1>1
      <3>2. built[0] \in V
        BY <3>1, <1>1
      <3> QED
        BY <3>1, <3>2
    <2>2. ASSUME NEW m \in 1..orders, m - 1 \in Good PROVE m \in Good
      <3>1. built[m] = After(m, built[m - 1]) /\ built[m - 1] \in V
        BY <1>6, <2>2
      <3>2. built[m] \in V
        BY <1>1, <3>1
      <3> QED
        BY <3>2
    <2>3. \A m \in 0..orders : m \in Good
      <3> HIDE DEF Good
      <3> QED
        BY <2>1, <2>2, <1>1, InductionTo
    <2>4. built = [m \in 0..orders |-> built[m]]
      BY <1>5
    <2> QED
      BY <2>3, <2>4
  <1> QED
    BY <1>2, <1>6, <1>7, <1>3 DEF EntersBy

\* The recursion of modifyAll.
ModifiesBy(f, res, held, side, stops) ==
    /\ f[0] = res
    /\ \A m \in 1..Len(held) : f[m] = IF held[m].type = side
            THEN modifyTradeEasy(f[m - 1], side, held[m].ticket, stops) ELSE f[m - 1]
    /\ modifyAll(res, held, side, stops) = f[Len(held)]

\* The recursive function of modifyAll exists.
LEMMA ModifiesBuilt ==
    ASSUME NEW V, NEW res \in V, NEW S, NEW held \in Seq(S), NEW side, NEW stops,
           \A x \in V : \A m \in 1..Len(held) : modifyTradeEasy(x, side, held[m].ticket, stops) \in V
    PROVE  \E f \in [0..Len(held) -> V] : ModifiesBy(f, res, held, side, stops)
  <1> DEFINE After(m, x) == IF held[m].type = side THEN modifyTradeEasy(x, side, held[m].ticket, stops) ELSE x
             step == [m \in 1..Len(held) |-> [x \in V |-> After(m, x)]]
             Rec(f) == [m \in 0..Len(held) |-> IF m = 0 THEN res ELSE After(m, f[m - 1])]
             built == CHOOSE f : f = Rec(f)
  <1>1. Len(held) \in Nat /\ res \in V /\ \A m \in 1..Len(held) : \A x \in V : After(m, x) \in V
    OBVIOUS
  <1>2. modifyAll(res, held, side, stops) = built[Len(held)]
    BY DEF modifyAll
  <1>3. \A f : \A m \in 1..Len(held) : After(m, f[m - 1]) = IF held[m].type = side
          THEN modifyTradeEasy(f[m - 1], side, held[m].ticket, stops) ELSE f[m - 1]
    OBVIOUS
  <1> HIDE DEF After
  <1>4. PICK f \in [0..Len(held) -> V] : f = Rec(f)
    <2>1. step \in [1..Len(held) -> [V -> V]]
      BY <1>1
    <2>2. \A m \in 1..Len(held) : \A x \in V : step[m][x] = After(m, x)
      OBVIOUS
    <2> HIDE DEF step
    <2>3. BuiltUp(Len(held), V, res, step)
      BY <1>1, <2>1, RecursionExists
    <2>4. PICK f \in [0..Len(held) -> V] : f[0] = res /\ \A m \in 1..Len(held) : f[m] = step[m][f[m - 1]]
      BY <2>3 DEF BuiltUp
    <2>5. ASSUME NEW m \in 1..Len(held) PROVE f[m] = After(m, f[m - 1])
      <3>1. f[m - 1] \in V
        BY <1>1
      <3> QED
        BY <3>1, <2>2, <2>4
    <2>6. f = Rec(f)
      BY <2>4, <2>5
    <2> QED
      BY <2>6
  <1>5. built = Rec(built)
    <2> HIDE DEF Rec
    <2> QED
      BY <1>4
  <1> HIDE DEF built
  <1>6. built[0] = res /\ \A m \in 1..Len(held) : built[m] = After(m, built[m - 1])
    BY <1>5, <1>1
  <1>7. built \in [0..Len(held) -> V]
    <2> DEFINE Good == {m \in 0..Len(held) : built[m] \in V}
    <2>1. 0 \in Good
      <3>1. built[0] = res /\ Len(held) \in Nat
        BY <1>6, <1>1
      <3>2. built[0] \in V
        BY <3>1, <1>1
      <3> QED
        BY <3>1, <3>2
    <2>2. ASSUME NEW m \in 1..Len(held), m - 1 \in Good PROVE m \in Good
      <3>1. built[m] = After(m, built[m - 1]) /\ built[m - 1] \in V
        BY <1>6, <2>2
      <3>2. built[m] \in V
        BY <1>1, <3>1
      <3> QED
        BY <3>2
    <2>3. \A m \in 0..Len(held) : m \in Good
      <3> HIDE DEF Good
      <3> QED
        BY <2>1, <2>2, <1>1, InductionTo
    <2>4. built = [m \in 0..Len(held) |-> built[m]]
      BY <1>5
    <2> QED
      BY <2>3, <2>4
  <1> QED
    BY <1>2, <1>6, <1>7, <1>3 DEF ModifiesBy

-----------------------------------------------------------------------------
(* Exits and entries fill the array from the front. *)

\* When the first m results have signals and the others are clear, the next one is free.
LEMMA FreeIs ==
    ASSUME NEW res \in Arrays, NEW m \in 0..MaxOpenOrders, \A r \in 1..m : res[r].signals # {},
           \A r \in (m + 1)..MaxOpenOrders : res[r] = Clear
    PROVE  FreeIndex(res) = m + 1 /\ FreeResult(res) = Clear
  <1> DEFINE Free == {r \in DOMAIN res : res[r].signals = {}} \cup {Len(res) + 1}
  <1>1. MaxOpenOrders \in Nat /\ Len(res) = MaxOpenOrders /\ DOMAIN res = 1..MaxOpenOrders
          /\ res \in Seq(Results)
    BY SizesType DEF Arrays
  <1>2. Free \in SUBSET Nat /\ Free # {}
    BY <1>1
  <1>3. m + 1 \in Free
    <2>1. CASE m = MaxOpenOrders
      BY <1>1, <2>1
    <2>2. CASE m < MaxOpenOrders
      <3>1. res[m + 1].signals = {} /\ m + 1 \in 1..MaxOpenOrders
        BY <1>1, <2>2 DEF Clear
      <3> QED
        BY <1>1, <3>1
    <2> QED
      BY <1>1, <2>1, <2>2
  <1>4. \A r \in Free : m + 1 <= r
    BY <1>1
  <1>5. FreeIndex(res) = m + 1
    <2>1. FreeIndex(res) = Min(Free)
      BY DEF FreeIndex
    <2> HIDE DEF Free
    <2>2. Min(Free) \in Free /\ \A r \in Free : Min(Free) <= r
      BY <1>2, MinOf
    <2>3. Min(Free) \in Nat
      BY <2>2, <1>2
    <2> QED
      BY <2>1, <2>2, <2>3, <1>3, <1>4
  <1>6. FreeResult(res) = Append(res, Clear)[m + 1]
    <2>1. clearStrategyResults(1)[1] = Clear
      BY DEF clearStrategyResults, Clear
    <2> QED
      BY <1>5, <2>1 DEF FreeResult
  <1>7. Append(res, Clear)[m + 1] = Clear
    <2>1. CASE m = MaxOpenOrders
      BY <1>1, <2>1
    <2>2. CASE m < MaxOpenOrders
      BY <1>1, <2>2
    <2> QED
      BY <1>1, <2>1, <2>2
  <1> QED
    BY <1>5, <1>6, <1>7

\* A result that closes or enters has signals, a clear one has none.
LEMMA SignalsOf ==
    ASSUME NEW ask, NEW side
    PROVE  CloseOf(ask).signals # {} /\ EntryOf(side).signals # {} /\ Clear.signals = {}
  <1>1. CloseOf(ask).signals = {<<"CLOSE", ask[1]>>} /\ EntryOf(side).signals = {<<"OPEN", side>>}
          /\ Clear.signals = {}
    BY DEF CloseOf, EntryOf, Clear
  <1>2. \A x : {x} # {}
    OBVIOUS
  <1> QED
    BY <1>1, <1>2

\* The array asks to close some of asks, and all of them if it is not full; asks are pairs of a type and a
\* ticket.
AskedFor(res, m, asks) ==
    /\ res \in Arrays /\ m \in 0..MaxOpenOrders
    /\ \A r \in 1..m : \E ask \in asks : res[r] = CloseOf(ask)
    /\ \A r \in (m + 1)..MaxOpenOrders : res[r] = Clear
    /\ m < MaxOpenOrders => \A ask \in asks : \E r \in 1..m : res[r] = CloseOf(ask)

\* The cleared results ask for nothing.
LEMMA ClearAsks == AskedFor(clearStrategyResults(MaxOpenOrders), 0, {})
  <1> DEFINE res == clearStrategyResults(MaxOpenOrders)
  <1>1. res = [r \in 1..MaxOpenOrders |-> Clear]
    BY DEF clearStrategyResults, Clear
  <1>2. Clear \in Results
    BY DEF Clear, Results, Stops, AllOrderTickets
  <1>3. MaxOpenOrders \in Nat
    BY SizesType
  <1> HIDE DEF res
  <1>4. res \in Arrays /\ \A r \in 1..MaxOpenOrders : res[r] = Clear
    BY <1>1, <1>2 DEF Arrays
  <1>5. AskedFor(res, 0, {})
    BY <1>3, <1>4 DEF AskedFor
  <1> QED
    BY <1>5 DEF res

\* closeEasy asks for one order more, if there is a free result.
LEMMA CloseNext ==
    ASSUME NEW res, NEW m, NEW asks, AskedFor(res, m, asks), NEW type \in Sides, NEW ticket \in Int
    PROVE  \E k : k <= m + 1 /\ AskedFor(closeEasy(res, type, ticket), k, asks \cup {<<type, ticket>>})
  <1> DEFINE ask == <<type, ticket>>
             new == closeEasy(res, type, ticket)
             more == asks \cup {ask}
  <1>1. /\ res \in Arrays /\ m \in 0..MaxOpenOrders
        /\ \A r \in 1..m : \E a \in asks : res[r] = CloseOf(a)
        /\ \A r \in (m + 1)..MaxOpenOrders : res[r] = Clear
        /\ m < MaxOpenOrders => \A a \in asks : \E r \in 1..m : res[r] = CloseOf(a)
    BY DEF AskedFor
  <1>2. \A r \in 1..m : res[r].signals # {}
    BY <1>1, SignalsOf
  <1>3. FreeIndex(res) = m + 1 /\ FreeResult(res) = Clear
    BY <1>1, <1>2, FreeIs
  <1>4. new = [r \in 1..MaxOpenOrders |-> IF r = m + 1 THEN CloseOf(ask) ELSE res[r]]
    <2>1. closeEasy(res, type, ticket) = UseFree(res, [Clear EXCEPT !.ticket = ticket,
            !.signals = {<<"CLOSE", type>>}])
      BY <1>3 DEF closeEasy
    <2>2. [Clear EXCEPT !.ticket = ticket, !.signals = {<<"CLOSE", type>>}] = CloseOf(ask)
      <3>1. ask[1] = type /\ ask[2] = ticket
        OBVIOUS
      <3> DEFINE signals == {<<"CLOSE", type>>}
      <3> HIDE DEF ask, signals
      <3>2. [Clear EXCEPT !.ticket = ticket, !.signals = signals] = [ticket |-> ticket, signals |-> signals,
              stops |-> "none"]
        <4>1. [Clear EXCEPT !.ticket = ticket] = [ticket |-> ticket, signals |-> {}, stops |-> "none"]
          BY DEF Clear
        <4>2. [Clear EXCEPT !.ticket = ticket,
                !.signals = signals] = [[Clear EXCEPT !.ticket = ticket] EXCEPT !.signals = signals]
          BY DEF Clear
        <4>3. [[ticket |-> ticket, signals |-> {}, stops |-> "none"] EXCEPT !.signals = signals]
              = [ticket |-> ticket, signals |-> signals, stops |-> "none"]
          OBVIOUS
        <4> QED
          BY <4>1, <4>2, <4>3
      <3>3. CloseOf(ask) = [ticket |-> ticket, signals |-> signals, stops |-> "none"]
        BY <3>1 DEF CloseOf, signals
      <3> QED
        BY <3>2, <3>3 DEF signals
    <2>3. closeEasy(res, type, ticket) = UseFree(res, CloseOf(ask))
      BY <2>1, <2>2
    <2>4. DOMAIN res = 1..MaxOpenOrders
      BY <1>1 DEF Arrays
    <2> HIDE DEF ask
    <2> QED
      BY <2>3, <2>4, <1>3 DEF UseFree
  <1>5. MaxOpenOrders \in Nat
    BY SizesType
  <1>6. new \in Arrays
    BY <1>1, EasyStays DEF Arrays
  <1> HIDE DEF new, ask
  <1>7. CASE m = MaxOpenOrders
    <2>1. \A r \in 1..m : new[r] = res[r]
      BY <1>4, <1>7, <1>5
    <2>2. AskedFor(new, m, more)
      BY <1>1, <1>5, <1>6, <1>7, <2>1 DEF AskedFor
    <2>3. m <= m + 1
      BY <1>1
    <2> QED
      BY <2>2, <2>3 DEF new, ask
  <1>8. CASE m < MaxOpenOrders
    <2>1. /\ m + 1 \in 0..MaxOpenOrders /\ new[m + 1] = CloseOf(ask)
          /\ \A r \in 1..MaxOpenOrders : r # m + 1 => new[r] = res[r]
      BY <1>1, <1>4, <1>8, <1>5
    <2>2. \A r \in 1..(m + 1) : \E a \in more : new[r] = CloseOf(a)
      <3> TAKE r \in 1..(m + 1)
      <3>1. CASE r = m + 1
        BY <3>1, <2>1
      <3>2. CASE r # m + 1
        <4>1. r \in 1..m /\ r \in 1..MaxOpenOrders
          BY <3>2, <1>1, <1>5
        <4>2. PICK a \in asks : res[r] = CloseOf(a)
          BY <4>1, <1>1
        <4> QED
          BY <4>1, <4>2, <3>2, <2>1
      <3> QED
        BY <3>1, <3>2
    <2>3. \A r \in (m + 2)..MaxOpenOrders : new[r] = Clear
      BY <1>1, <1>5, <2>1
    <2>4. \A a \in more : \E r \in 1..(m + 1) : new[r] = CloseOf(a)
      <3> TAKE a \in more
      <3>1. CASE a = ask
        BY <3>1, <2>1, <1>1
      <3>2. CASE a \in asks
        <4>1. PICK r \in 1..m : res[r] = CloseOf(a)
          BY <3>2, <1>1, <1>8
        <4>2. r \in 1..MaxOpenOrders /\ r # m + 1 /\ r \in 1..(m + 1)
          BY <1>1, <1>5
        <4> QED
          BY <4>1, <4>2, <2>1
      <3> QED
        BY <3>1, <3>2
    <2>5. (m + 1) + 1 = m + 2
      BY <1>1
    <2> HIDE DEF more
    <2>6. AskedFor(new, m + 1, more)
      BY <2>1, <2>2, <2>3, <2>4, <2>5, <1>6 DEF AskedFor
    <2>7. m + 1 <= m + 1
      BY <1>1
    <2> QED
      BY <2>6, <2>7 DEF new, ask, more
  <1> QED
    BY <1>1, <1>5, <1>7, <1>8

\* closeNamed asks for the shown orders that are named.
NamedAsks(held, named, type, n) == {<<type, held[i].ticket>> : i \in {k \in 1..n : <<type,
        held[k].ticket>> \in named}}

\* closeNamed asks for the named orders of a side that are held, as far as there are free results.
LEMMA closeNamedAsks ==
    ASSUME NEW res, NEW m, NEW asks, AskedFor(res, m, asks), NEW type \in Sides, NEW held \in Seq(Order),
            NEW named
    PROVE  \E k : /\ k <= m + Len(held)
                  /\ AskedFor(closeNamed(res, held, named, type), k, asks \cup NamedAsks(held, named, type,
                          Len(held)))
  <1>1. \A n \in 1..Len(held) : held[n].ticket \in Int
    <2> TAKE n \in 1..Len(held)
    <2>1. held[n] \in Order
      OBVIOUS
    <2> QED
      BY <2>1 DEF Order
  <1>2. \A x \in Arrays : \A n \in 1..Len(held) : closeEasy(x, type, held[n].ticket) \in Arrays
    BY <1>1, EasyStays DEF Arrays
  <1>3. res \in Arrays
    BY DEF AskedFor
  <1>4. PICK f \in [0..Len(held) -> Arrays] : ClosesBy(f, res, held, named, type)
    BY <1>2, <1>3, ClosesBuilt
  <1>5. /\ f[0] = res
        /\ \A n \in 1..Len(held) : f[n] = IF <<type, held[n].ticket>> \in named
                                          THEN closeEasy(f[n - 1], type, held[n].ticket) ELSE f[n - 1]
        /\ closeNamed(res, held, named, type) = f[Len(held)]
    BY <1>4 DEF ClosesBy
  <1> DEFINE Asks(n) == asks \cup NamedAsks(held, named, type, n)
             Upto(n) == \E k : k <= m + n /\ AskedFor(f[n], k, Asks(n))
             Good == {n \in 0..Len(held) : Upto(n)}
  <1>6. Len(held) \in Nat
    OBVIOUS
  <1>7. 0 \in Good
    <2>1. Asks(0) = asks
      BY DEF NamedAsks
    <2>2. m <= m + 0
      BY DEF AskedFor
    <2>3. Upto(0)
      <3> HIDE DEF Asks
      <3> QED
        BY <2>1, <2>2, <1>5
    <2> QED
      BY <2>3, <1>6
  <1>8. ASSUME NEW n \in 1..Len(held), n - 1 \in Good PROVE n \in Good
    <2>1. PICK k : k <= m + (n - 1) /\ AskedFor(f[n - 1], k, Asks(n - 1))
      BY <1>8
    <2>0. k \in Nat /\ m \in Nat /\ k + 1 <= m + n /\ k <= m + n
      <3>1. k \in 0..MaxOpenOrders /\ m \in 0..MaxOpenOrders /\ MaxOpenOrders \in Nat
        BY <2>1, SizesType DEF AskedFor
      <3> QED
        BY <2>1, <3>1, <1>6
    <2>2. CASE <<type, held[n].ticket>> \in named
      <3>1. f[n] = closeEasy(f[n - 1], type, held[n].ticket)
        BY <1>5, <2>2
      <3>2. Asks(n) = Asks(n - 1) \cup {<<type, held[n].ticket>>}
        <4>1. {i \in 1..n : <<type, held[i].ticket>> \in named}
              = {i \in 1..(n - 1) : <<type, held[i].ticket>> \in named} \cup {n}
          BY <2>2, <1>6
        <4> QED
          BY <4>1 DEF NamedAsks
      <3>3. \E j : j <= k + 1 /\ AskedFor(f[n], j, Asks(n - 1) \cup {<<type, held[n].ticket>>})
        <4> DEFINE before == f[n - 1]
                   earlier == Asks(n - 1)
                   ticket == held[n].ticket
        <4>1. AskedFor(before, k, earlier) /\ ticket \in Int
          BY <2>1, <1>1
        <4> HIDE DEF Asks, before, earlier, ticket
        <4>2. \E j : j <= k + 1 /\ AskedFor(closeEasy(before, type, ticket), j, earlier \cup {<<type, ticket>>})
          BY <4>1, CloseNext
        <4> QED
          BY <4>2, <3>1 DEF before, earlier, ticket
      <3>4. Upto(n)
        <4>1. PICK j : j <= k + 1 /\ AskedFor(f[n], j, Asks(n - 1) \cup {<<type, held[n].ticket>>})
          BY <3>3
        <4>2. j <= m + n
          <5>1. j \in 0..MaxOpenOrders /\ MaxOpenOrders \in Nat
            BY <4>1, SizesType DEF AskedFor
          <5> QED
            BY <4>1, <5>1, <2>0, <1>6
        <4> HIDE DEF Asks
        <4> QED
          BY <4>1, <4>2, <3>2
      <3> HIDE DEF Upto
      <3> QED
        BY <3>4
    <2>3. CASE <<type, held[n].ticket>> \notin named
      <3>1. f[n] = f[n - 1]
        BY <1>5, <2>3
      <3>2. Asks(n) = Asks(n - 1)
        <4>1. {i \in 1..n : <<type, held[i].ticket>> \in named}
              = {i \in 1..(n - 1) : <<type, held[i].ticket>> \in named}
          BY <2>3, <1>6
        <4> QED
          BY <4>1 DEF NamedAsks
      <3>3. Upto(n)
        <4> HIDE DEF Asks
        <4> QED
          BY <2>0, <2>1, <3>1, <3>2
      <3> HIDE DEF Upto
      <3> QED
        BY <3>3
    <2> QED
      BY <2>2, <2>3
  <1>9. \A n \in 0..Len(held) : n \in Good
    <2> HIDE DEF Good
    <2> QED
      BY <1>6, <1>7, <1>8, InductionTo
  <1>10. Upto(Len(held))
    <2>1. Len(held) \in Good
      <3> HIDE DEF Good
      <3> QED
        BY <1>9, <1>6
    <2> HIDE DEF Upto
    <2> QED
      BY <2>1
  <1> QED
    BY <1>10, <1>5

HeldAsks(held, side) == {<<side, held[n].ticket>> : n \in Held(held, side)}

\* closeAll asks for the orders of a side.
LEMMA closeAllAsks ==
    ASSUME NEW res, NEW m, NEW asks, AskedFor(res, m, asks), NEW side \in Sides, NEW held \in Seq(Order)
    PROVE  \E k : k <= m + Len(held) /\ AskedFor(closeAll(res, held, side), k, asks \cup HeldAsks(held, side))
  <1> DEFINE named == {<<side, held[n].ticket>> : n \in Held(held, side)}
  <1>1. closeAll(res, held, side) = closeNamed(res, held, named, side)
    BY DEF closeAll
  <1>2. NamedAsks(held, named, side, Len(held)) = named
    BY DEF NamedAsks, Held
  <1> HIDE DEF named
  <1>3. \E k : /\ k <= m + Len(held)
              /\ AskedFor(closeNamed(res, held, named, side), k, asks \cup NamedAsks(held, named, side,
                      Len(held)))
    BY closeNamedAsks
  <1> QED
    BY <1>1, <1>2, <1>3 DEF named, HeldAsks

\* After the exits come the entries, from m + 1 to k.
Entered(res, base, m, k, side) ==
    /\ res \in Arrays /\ m \in 0..MaxOpenOrders /\ k \in m..MaxOpenOrders
    /\ \A r \in 1..m : res[r] = base[r]
    /\ \A r \in (m + 1)..k : res[r] = EntryOf(side)
    /\ \A r \in (k + 1)..MaxOpenOrders : res[r] = Clear

\* openSingle uses the next free result, if there is one.
LEMMA EnterNext ==
    ASSUME NEW base, NEW m, NEW asks, AskedFor(base, m, asks), NEW side \in Sides,
           NEW res, NEW k, Entered(res, base, m, k, side)
    PROVE  \E j : (j = k \/ j = k + 1) /\ Entered(openSingle(res, side, "own"), base, m, j, side)
  <1> DEFINE new == openSingle(res, side, "own")
  <1>1. /\ res \in Arrays /\ m \in 0..MaxOpenOrders /\ k \in m..MaxOpenOrders
        /\ \A r \in 1..m : res[r] = base[r]
        /\ \A r \in (m + 1)..k : res[r] = EntryOf(side)
        /\ \A r \in (k + 1)..MaxOpenOrders : res[r] = Clear
    BY DEF Entered
  <1>2. MaxOpenOrders \in Nat
    BY SizesType
  <1>3. \A r \in 1..k : res[r].signals # {}
    <2> TAKE r \in 1..k
    <2>1. CASE r \in 1..m
      <3>1. PICK a \in asks : base[r] = CloseOf(a)
        BY <2>1 DEF AskedFor
      <3> QED
        BY <3>1, <2>1, <1>1, SignalsOf
    <2>2. CASE r \in (m + 1)..k
      BY <2>2, <1>1, SignalsOf
    <2> QED
      BY <2>1, <2>2, <1>1, <1>2
  <1>4. FreeIndex(res) = k + 1 /\ FreeResult(res) = Clear
    <2>1. k \in 0..MaxOpenOrders
      BY <1>1, <1>2
    <2> QED
      BY <2>1, <1>1, <1>3, FreeIs
  <1>5. new = [r \in 1..MaxOpenOrders |-> IF r = k + 1 THEN EntryOf(side) ELSE res[r]]
    <2>1. (IF side = "BUY" THEN AllOrderTickets ELSE FreeResult(res).ticket) = AllOrderTickets
      BY <1>4 DEF Clear
    <2>2. openSingle(res, side, "own") = UseFree(res, EntryOf(side))
      BY <2>1 DEF openSingle, EntryOf
    <2>3. DOMAIN res = 1..MaxOpenOrders
      BY <1>1 DEF Arrays
    <2> QED
      BY <2>2, <2>3, <1>4 DEF UseFree
  <1>6. new \in Arrays
    BY <1>1, EasyStays DEF Arrays
  <1> HIDE DEF new
  <1>7. CASE k = MaxOpenOrders
    <2>1. \A r \in 1..MaxOpenOrders : new[r] = res[r]
      BY <1>5, <1>7, <1>2
    <2>2. Entered(new, base, m, k, side)
      BY <2>1, <1>1, <1>2, <1>6, <1>7 DEF Entered
    <2> QED
      BY <2>2 DEF new
  <1>8. CASE k < MaxOpenOrders
    <2>1. /\ k + 1 \in m..MaxOpenOrders /\ new[k + 1] = EntryOf(side)
          /\ \A r \in 1..MaxOpenOrders : r # k + 1 => new[r] = res[r]
      BY <1>1, <1>2, <1>5, <1>8
    <2>2. \A r \in 1..m : new[r] = base[r]
      BY <2>1, <1>1, <1>2
    <2>3. \A r \in (m + 1)..(k + 1) : new[r] = EntryOf(side)
      BY <2>1, <1>1, <1>2
    <2>4. \A r \in ((k + 1) + 1)..MaxOpenOrders : new[r] = Clear
      BY <2>1, <1>1, <1>2
    <2>5. Entered(new, base, m, k + 1, side)
      BY <2>1, <2>2, <2>3, <2>4, <1>1, <1>6 DEF Entered
    <2> QED
      BY <2>5 DEF new
  <1> QED
    BY <1>1, <1>2, <1>7, <1>8

\* openEach uses at most as many results as it opens orders, behind those that close.
LEMMA openEachEnters ==
    ASSUME NEW base, NEW m, NEW asks, AskedFor(base, m, asks), NEW side \in Sides, NEW orders \in Nat
    PROVE  \E k : k <= m + orders /\ Entered(openEach(base, side, orders), base, m, k, side)
  <1>1. \A x \in Arrays : openSingle(x, side, "own") \in Arrays
    <2>1. 0 \in Int
      OBVIOUS
    <2> QED
      BY <2>1, EasyStays DEF Arrays
  <1>2. base \in Arrays /\ m \in 0..MaxOpenOrders /\ MaxOpenOrders \in Nat
    BY SizesType DEF AskedFor
  <1>3. PICK f \in [0..orders -> Arrays] : EntersBy(f, base, side, orders)
    BY <1>1, <1>2, EntersBuilt
  <1>4. /\ f[0] = base /\ \A n \in 1..orders : f[n] = openSingle(f[n - 1], side, "own")
        /\ openEach(base, side, orders) = f[orders]
    BY <1>3 DEF EntersBy
  <1> DEFINE Upto(n) == \E k : k <= m + n /\ Entered(f[n], base, m, k, side)
             Good == {n \in 0..orders : Upto(n)}
  <1>5. 0 \in Good
    <2>1. Entered(base, base, m, m, side)
      BY <1>2 DEF Entered, AskedFor
    <2>2. m <= m + 0
      BY <1>2
    <2>3. Upto(0)
      BY <2>1, <2>2, <1>4
    <2> QED
      BY <2>3
  <1>6. ASSUME NEW n \in 1..orders, n - 1 \in Good PROVE n \in Good
    <2>1. PICK k : k <= m + (n - 1) /\ Entered(f[n - 1], base, m, k, side)
      BY <1>6
    <2>2. k \in Nat
      BY <2>1, <1>2 DEF Entered
    <2>3. PICK j : (j = k \/ j = k + 1) /\ Entered(openSingle(f[n - 1], side, "own"), base, m, j, side)
      BY <2>1, EnterNext
    <2>4. j <= m + n
      BY <2>1, <2>2, <2>3, <1>2
    <2>5. Entered(f[n], base, m, j, side)
      BY <2>3, <1>4
    <2>6. Upto(n)
      BY <2>4, <2>5
    <2> HIDE DEF Upto
    <2> QED
      BY <2>6
  <1>7. \A n \in 0..orders : n \in Good
    <2> HIDE DEF Good
    <2> QED
      BY <1>5, <1>6, InductionTo
  <1>8. Upto(orders)
    <2>1. orders \in Good
      <3> HIDE DEF Good
      <3> QED
        BY <1>7
    <2> HIDE DEF Upto
    <2> QED
      BY <2>1
  <1> QED
    BY <1>8, <1>4

-----------------------------------------------------------------------------
(* The walks over the orders. *)

\* The results for an order, and the first of them.
LEMMA MatchingIs ==
    ASSUME NEW res \in Arrays, NEW o
    PROVE  /\ Matching(res, o) = {r \in 1..MaxOpenOrders : res[r].ticket \in {o.ticket, AllOrderTickets}}
           /\ Matching(res, o) # {} =>
                 /\ Min(Matching(res, o)) \in Matching(res, o) /\ Min(Matching(res, o)) \in 1..MaxOpenOrders
                 /\ \A r \in Matching(res, o) : Min(Matching(res, o)) <= r
  <1>1. Matching(res, o) = {r \in 1..MaxOpenOrders : res[r].ticket \in {o.ticket, AllOrderTickets}}
    BY DEF Matching, Arrays
  <1> DEFINE X == Matching(res, o)
  <1>2. X \in SUBSET Nat /\ X \subseteq 1..MaxOpenOrders
    BY <1>1, SizesType
  <1> HIDE DEF X
  <1>3. X # {} => Min(X) \in X /\ \A r \in X : Min(X) <= r
    BY <1>2, MinOf
  <1>4. X # {} => Min(X) \in 1..MaxOpenOrders
    BY <1>2, <1>3
  <1> QED
    BY <1>1, <1>3, <1>4 DEF X

FirstWalk == [rix |-> 1, closes |-> {}]
Walks(orders) == [rix : 1..MaxOpenOrders, closes : SUBSET Tickets(orders)]

\* A walk comes to an order.
NextWalk(res, o, before) ==
    LET rix == IF Matching(res, o) = {} THEN before.rix ELSE Min(Matching(res, o))
    IN  [rix    |-> rix,
         closes |-> IF <<"CLOSE", o.type>> \in res[rix].signals
                    THEN before.closes \cup {o.ticket} ELSE before.closes]

\* The recursion of Walk.
WalksBy(f, res, orders) ==
    /\ f[0] = FirstWalk
    /\ \A m \in 1..Len(orders) : f[m] = NextWalk(res, orders[Len(orders) + 1 - m], f[m - 1])
    /\ Walk(res, orders) = f[Len(orders)].closes

\* The recursive function of Walk exists.
LEMMA WalkBuilt ==
    ASSUME NEW res \in Arrays, NEW orders \in Seq(Order)
    PROVE  \E f \in [0..Len(orders) -> Walks(orders)] : WalksBy(f, res, orders)
  <1> DEFINE After(m, x) == NextWalk(res, orders[Len(orders) + 1 - m], x)
             step == [m \in 1..Len(orders) |-> [x \in Walks(orders) |-> After(m, x)]]
             Rec(f) == [m \in 0..Len(orders) |-> IF m = 0 THEN FirstWalk ELSE After(m, f[m - 1])]
             built == CHOOSE f : f = Rec(f)
  <1>1. Len(orders) \in Nat /\ FirstWalk \in Walks(orders)
          /\ \A m \in 1..Len(orders) : \A x \in Walks(orders) : After(m, x) \in Walks(orders)
    <2>1. Len(orders) \in Nat /\ 1 \in 1..MaxOpenOrders
      BY SizesType
    <2>2. FirstWalk \in Walks(orders)
      BY <2>1 DEF Walks, FirstWalk
    <2>3. ASSUME NEW m \in 1..Len(orders), NEW x \in Walks(orders) PROVE After(m, x) \in Walks(orders)
      <3> DEFINE o == orders[Len(orders) + 1 - m]
                 rix == IF Matching(res, o) = {} THEN x.rix ELSE Min(Matching(res, o))
                 closes == IF <<"CLOSE", o.type>> \in res[rix].signals THEN x.closes \cup {o.ticket}
                         ELSE x.closes
      <3>1. x.rix \in 1..MaxOpenOrders /\ x.closes \in SUBSET Tickets(orders)
        BY DEF Walks
      <3>2. o.ticket \in Tickets(orders)
        <4>1. Len(orders) + 1 - m \in DOMAIN orders
          BY <2>1
        <4> QED
          BY <4>1 DEF Tickets
      <3> HIDE DEF o
      <3>3. rix \in 1..MaxOpenOrders
        BY <3>1, MatchingIs
      <3> HIDE DEF rix
      <3>4. closes \in SUBSET Tickets(orders)
        BY <3>1, <3>2
      <3> HIDE DEF closes
      <3>5. [rix |-> rix, closes |-> closes] \in Walks(orders)
        BY <3>3, <3>4 DEF Walks
      <3> QED
        BY <3>5 DEF rix, closes, o, NextWalk
    <2> QED
      BY <2>1, <2>2, <2>3
  <1>2. Walk(res, orders) = built[Len(orders)].closes
    BY DEF Walk, FirstWalk, NextWalk
  <1>3. \A f : \A m \in 1..Len(orders) : After(m, f[m - 1]) = NextWalk(res, orders[Len(orders) + 1 - m],
          f[m - 1])
    OBVIOUS
  <1> HIDE DEF After
  <1>4. PICK f \in [0..Len(orders) -> Walks(orders)] : f = Rec(f)
    <2>1. step \in [1..Len(orders) -> [Walks(orders) -> Walks(orders)]]
      BY <1>1
    <2>2. \A m \in 1..Len(orders) : \A x \in Walks(orders) : step[m][x] = After(m, x)
      OBVIOUS
    <2> HIDE DEF step
    <2>3. BuiltUp(Len(orders), Walks(orders), FirstWalk, step)
      BY <1>1, <2>1, RecursionExists
    <2>4. PICK f \in [0..Len(orders) -> Walks(orders)] : f[0] = FirstWalk
            /\ \A m \in 1..Len(orders) : f[m] = step[m][f[m - 1]]
      BY <2>3 DEF BuiltUp
    <2>5. ASSUME NEW m \in 1..Len(orders) PROVE f[m] = After(m, f[m - 1])
      <3>1. f[m - 1] \in Walks(orders)
        BY <1>1
      <3> QED
        BY <3>1, <2>2, <2>4
    <2>6. f = Rec(f)
      BY <2>4, <2>5
    <2> QED
      BY <2>6
  <1>5. built = Rec(built)
    <2> HIDE DEF Rec
    <2> QED
      BY <1>4
  <1> HIDE DEF built
  <1>6. built[0] = FirstWalk /\ \A m \in 1..Len(orders) : built[m] = After(m, built[m - 1])
    BY <1>5, <1>1
  <1>7. built \in [0..Len(orders) -> Walks(orders)]
    <2> DEFINE Good == {m \in 0..Len(orders) : built[m] \in Walks(orders)}
    <2>1. 0 \in Good
      <3>1. built[0] = FirstWalk /\ Len(orders) \in Nat
        BY <1>6, <1>1
      <3>2. built[0] \in Walks(orders)
        BY <3>1, <1>1
      <3> QED
        BY <3>1, <3>2
    <2>2. ASSUME NEW m \in 1..Len(orders), m - 1 \in Good PROVE m \in Good
      <3>1. built[m] = After(m, built[m - 1]) /\ built[m - 1] \in Walks(orders)
        BY <1>6, <2>2
      <3>2. built[m] \in Walks(orders)
        BY <1>1, <3>1
      <3> QED
        BY <3>2
    <2>3. \A m \in 0..Len(orders) : m \in Good
      <3> HIDE DEF Good
      <3> QED
        BY <2>1, <2>2, <1>1, InductionTo
    <2>4. built = [m \in 0..Len(orders) |-> built[m]]
      BY <1>5
    <2> QED
      BY <2>3, <2>4
  <1> QED
    BY <1>2, <1>6, <1>7, <1>3 DEF WalksBy

\* An order whose first result closes its type is asked to be closed; so is one without a result, when
\* all results close its type, as it is handled with that of another order.
IsAsked(res, o) ==
    \/ \A r \in 1..MaxOpenOrders : <<"CLOSE", o.type>> \in res[r].signals
    \/ Matching(res, o) # {} /\ <<"CLOSE", o.type>> \in res[Min(Matching(res, o))].signals

\* The walk closes orders of the account only, and each the first result for which asks to close it.
LEMMA WalkCloses ==
    ASSUME NEW res \in Arrays, NEW orders \in Seq(Order)
    PROVE  /\ Walk(res, orders) \subseteq Tickets(orders)
           /\ \A n \in 1..Len(orders) : IsAsked(res, orders[n]) => orders[n].ticket \in Walk(res, orders)
  <1>1. PICK f \in [0..Len(orders) -> Walks(orders)] : WalksBy(f, res, orders)
    BY WalkBuilt
  <1>2. Walk(res, orders) = f[Len(orders)].closes
    BY <1>1 DEF WalksBy
  <1>3. Len(orders) \in Nat
    OBVIOUS
  <1>4. f[Len(orders)] \in Walks(orders)
    BY <1>3
  <1>5. Walk(res, orders) \subseteq Tickets(orders)
    BY <1>2, <1>4 DEF Walks
  <1> DEFINE Place(k) == orders[Len(orders) + 1 - k]
             Upto(m) == \A k \in 1..m : IsAsked(res, Place(k)) => Place(k).ticket \in f[m].closes
             Good == {m \in 0..Len(orders) : Upto(m)}
  <1>6. 0 \in Good
    BY <1>3
  <1>7. ASSUME NEW m \in 1..Len(orders), m - 1 \in Good PROVE m \in Good
    <2>1. f[m].closes = IF <<"CLOSE", Place(m).type>> \in
                              res[IF Matching(res, Place(m)) = {} THEN f[m - 1].rix
                                      ELSE Min(Matching(res, Place(m)))].signals
                        THEN f[m - 1].closes \cup {Place(m).ticket} ELSE f[m - 1].closes
      <3>1. f[m] = [rix    |-> IF Matching(res, Place(m)) = {} THEN f[m - 1].rix
              ELSE Min(Matching(res, Place(m))),
                    closes |-> IF <<"CLOSE", Place(m).type>> \in
                              res[IF Matching(res, Place(m)) = {} THEN f[m - 1].rix
                                      ELSE Min(Matching(res, Place(m)))].signals
                        THEN f[m - 1].closes \cup {Place(m).ticket} ELSE f[m - 1].closes]
        BY <1>1 DEF WalksBy, NextWalk
      <3> HIDE DEF Place
      <3> QED
        BY <3>1
    <2>2. f[m - 1].closes \subseteq f[m].closes
      BY <2>1
    <2>3. IsAsked(res, Place(m)) => Place(m).ticket \in f[m].closes
      <3> HIDE DEF Place
      <3>2. m - 1 \in 0..Len(orders)
        BY <1>3
      <3>3. f[m - 1] \in Walks(orders)
        BY <3>2
      <3>1. f[m - 1].rix \in 1..MaxOpenOrders
        BY <3>3 DEF Walks
      <3> QED
        BY <2>1, <3>1, MatchingIs DEF IsAsked
    <2>4. \A k \in 1..(m - 1) : IsAsked(res, Place(k)) => Place(k).ticket \in f[m - 1].closes
      BY <1>7
    <2> HIDE DEF Place
    <2>5. Upto(m)
      <3> TAKE k \in 1..m
      <3>1. k \in 1..(m - 1) \/ k = m
        BY <1>3
      <3> QED
        BY <3>1, <2>2, <2>3, <2>4
    <2> HIDE DEF Upto
    <2> QED
      BY <2>5
  <1>8. \A m \in 0..Len(orders) : m \in Good
    <2> HIDE DEF Good
    <2> QED
      BY <1>3, <1>6, <1>7, InductionTo
  <1>9. Upto(Len(orders))
    <2>1. Len(orders) \in Good
      <3> HIDE DEF Good
      <3> QED
        BY <1>8, <1>3
    <2> HIDE DEF Upto
    <2> QED
      BY <2>1
  <1>10. ASSUME NEW n \in 1..Len(orders), IsAsked(res, orders[n]) PROVE orders[n].ticket \in Walk(res, orders)
    <2> DEFINE k == Len(orders) + 1 - n
    <2>1. k \in 1..Len(orders) /\ Place(k) = orders[n]
      BY <1>3
    <2> HIDE DEF k, Place
    <2> QED
      BY <1>2, <1>9, <1>10, <2>1
  <1> QED
    BY <1>5, <1>10

-----------------------------------------------------------------------------
(* What a walk leaves, and what an entry adds. *)

States == [res : Arrays, orders : Seq(Order), ended : Seq(Order), sent : Nat]

Among(o, orders) == \E n \in 1..Len(orders) : orders[n] = o
Ascending(orders) == \A n, k \in 1..Len(orders) : n < k => orders[n].ticket < orders[k].ticket
Apart(orders, ended) == \A n \in 1..Len(orders), k \in 1..Len(ended) : orders[n].ticket # ended[k].ticket

\* Keep and Drop part the orders.
LEMMA KeepDrop ==
    ASSUME NEW orders \in Seq(Order), NEW tickets
    PROVE  /\ Drop(orders, tickets) \in Seq(Order) /\ Keep(orders, tickets) \in Seq(Order)
           /\ \A o : Among(o, Drop(orders, tickets)) <=> Among(o, orders) /\ o.ticket \notin tickets
           /\ \A o : Among(o, Keep(orders, tickets)) <=> Among(o, orders) /\ o.ticket \in tickets
           /\ Ascending(orders) => Ascending(Drop(orders, tickets))
           /\ Len(Drop(orders, tickets)) <= Len(orders)
  <1> DEFINE gone == {n \in DOMAIN orders : orders[n].ticket \in tickets}
             left == {n \in DOMAIN orders : orders[n].ticket \notin tickets}
             kept == Picked(orders, gone)
             rest == Picked(orders, left)
  <1>1. /\ kept \in Seq(Order)
        /\ \A n \in 1..Len(kept) : \E k \in 1..Len(orders) : k \in gone /\ kept[n] = orders[k]
        /\ \A k \in 1..Len(orders) : k \in gone => \E n \in 1..Len(kept) : kept[n] = orders[k]
    <2> HIDE DEF gone
    <2> QED
      BY PickedIs
  <1>2. /\ rest \in Seq(Order) /\ Len(rest) <= Len(orders)
        /\ \A n \in 1..Len(rest) : \E k \in 1..Len(orders) : k \in left /\ rest[n] = orders[k]
        /\ \A k \in 1..Len(orders) : k \in left => \E n \in 1..Len(rest) : rest[n] = orders[k]
        /\ \A n, m \in 1..Len(rest) : n < m =>
              \E k, l \in 1..Len(orders) : k < l /\ rest[n] = orders[k] /\ rest[m] = orders[l]
    <2> HIDE DEF left
    <2> QED
      BY PickedIs
  <1>3. /\ \A k \in 1..Len(orders) : k \in gone <=> orders[k].ticket \in tickets
        /\ \A k \in 1..Len(orders) : k \in left <=> orders[k].ticket \notin tickets
    OBVIOUS
  <1>4. Keep(orders, tickets) = kept /\ Drop(orders, tickets) = rest
    BY DEF Keep, Drop
  <1> HIDE DEF gone, left, kept, rest
  <1>5. \A o : Among(o, rest) <=> Among(o, orders) /\ o.ticket \notin tickets
    <2> TAKE o
    <2>1. ASSUME NEW n \in 1..Len(rest), rest[n] = o PROVE Among(o, orders) /\ o.ticket \notin tickets
      BY <2>1, <1>2, <1>3 DEF Among
    <2>2. ASSUME NEW k \in 1..Len(orders), orders[k] = o, o.ticket \notin tickets PROVE Among(o, rest)
      BY <2>2, <1>2, <1>3 DEF Among
    <2> QED
      BY <2>1, <2>2 DEF Among
  <1>6. \A o : Among(o, kept) <=> Among(o, orders) /\ o.ticket \in tickets
    BY <1>1, <1>3 DEF Among
  <1>7. Ascending(orders) => Ascending(rest)
    <2> SUFFICES ASSUME Ascending(orders), NEW n \in 1..Len(rest), NEW m \in 1..Len(rest), n < m
                 PROVE  rest[n].ticket < rest[m].ticket
      BY DEF Ascending
    <2>1. PICK k, l \in 1..Len(orders) : k < l /\ rest[n] = orders[k] /\ rest[m] = orders[l]
      BY <1>2
    <2> QED
      BY <2>1 DEF Ascending
  <1> QED
    BY <1>1, <1>2, <1>4, <1>5, <1>6, <1>7

\* Turning a sequence around keeps its orders.
LEMMA ReverseIs ==
    ASSUME NEW seq \in Seq(Order)
    PROVE  Reverse(seq) \in Seq(Order) /\ \A o : Among(o, Reverse(seq)) <=> Among(o, seq)
  <1>1. Reverse(seq) = [n \in 1..Len(seq) |-> seq[(Len(seq) - n) + 1]]
    BY DEF Reverse
  <1>2. \A n \in 1..Len(seq) : (Len(seq) - n) + 1 \in 1..Len(seq) /\ (Len(seq) - ((Len(seq) - n) + 1)) + 1 = n
    OBVIOUS
  <1>3. Len(seq) \in Nat /\ \A n \in 1..Len(seq) : seq[n] \in Order
    OBVIOUS
  <1> DEFINE back == [n \in 1..Len(seq) |-> seq[(Len(seq) - n) + 1]]
  <1>4. back \in Seq(Order) /\ Len(back) = Len(seq) /\ \A n \in 1..Len(seq) : back[n] = seq[(Len(seq) - n) + 1]
    BY <1>2, <1>3
  <1> HIDE DEF back
  <1>5. \A o : Among(o, back) <=> Among(o, seq)
    <2> TAKE o
    <2>1. ASSUME NEW n \in 1..Len(back), back[n] = o PROVE Among(o, seq)
      BY <2>1, <1>2, <1>4 DEF Among
    <2>2. ASSUME NEW n \in 1..Len(seq), seq[n] = o PROVE Among(o, back)
      <3> DEFINE k == (Len(seq) - n) + 1
      <3>1. k \in 1..Len(back) /\ back[k] = o
        BY <2>2, <1>2, <1>4
      <3> HIDE DEF k
      <3> QED
        BY <3>1 DEF Among
    <2> QED
      BY <2>1, <2>2 DEF Among
  <1> QED
    BY <1>1, <1>4, <1>5 DEF back

\* The orders of two sequences, one behind the other.
LEMMA AmongConcat ==
    ASSUME NEW s \in Seq(Order), NEW t \in Seq(Order)
    PROVE  s \o t \in Seq(Order) /\ \A o : Among(o, s \o t) <=> Among(o, s) \/ Among(o, t)
  <1> DEFINE st == s \o t
  <1>1. /\ st \in Seq(Order) /\ Len(st) = Len(s) + Len(t) /\ Len(s) \in Nat /\ Len(t) \in Nat
        /\ \A n \in 1..Len(st) : st[n] = IF n <= Len(s) THEN s[n] ELSE t[n - Len(s)]
    OBVIOUS
  <1> HIDE DEF st
  <1>2. \A o : Among(o, st) <=> Among(o, s) \/ Among(o, t)
    <2> TAKE o
    <2>1. ASSUME NEW n \in 1..Len(st), st[n] = o PROVE Among(o, s) \/ Among(o, t)
      <3>1. CASE n <= Len(s)
        BY <3>1, <2>1, <1>1 DEF Among
      <3>2. CASE ~(n <= Len(s))
        <4>1. n - Len(s) \in 1..Len(t) /\ t[n - Len(s)] = o
          BY <3>2, <2>1, <1>1
        <4> QED
          BY <4>1 DEF Among
      <3> QED
        BY <3>1, <3>2
    <2>2. ASSUME NEW n \in 1..Len(s), s[n] = o PROVE Among(o, st)
      <3>1. n \in 1..Len(st) /\ st[n] = o
        BY <2>2, <1>1
      <3> QED
        BY <3>1 DEF Among
    <2>3. ASSUME NEW n \in 1..Len(t), t[n] = o PROVE Among(o, st)
      <3>1. n + Len(s) \in 1..Len(st) /\ ~(n + Len(s) <= Len(s)) /\ (n + Len(s)) - Len(s) = n
        BY <1>1
      <3>2. st[n + Len(s)] = o
        BY <3>1, <2>3, <1>1
      <3> QED
        BY <3>1, <3>2 DEF Among
    <2> QED
      BY <2>1, <2>2, <2>3 DEF Among
  <1> QED
    BY <1>1, <1>2 DEF st

\* An order of a later ticket at the end.
LEMMA AmongAppend ==
    ASSUME NEW s \in Seq(Order), NEW x \in Order
    PROVE  /\ Append(s, x) \in Seq(Order) /\ \A o : Among(o, Append(s, x)) <=> Among(o, s) \/ o = x
           /\ Ascending(s) /\ (\A o : Among(o, s) => o.ticket < x.ticket) => Ascending(Append(s, x))
  <1> DEFINE more == Append(s, x)
  <1>1. /\ more \in Seq(Order) /\ Len(more) = Len(s) + 1 /\ Len(s) \in Nat
        /\ \A n \in 1..Len(s) : more[n] = s[n]
        /\ more[Len(s) + 1] = x
    OBVIOUS
  <1> HIDE DEF more
  <1>2. \A n \in 1..Len(more) : n \in 1..Len(s) \/ n = Len(s) + 1
    BY <1>1
  <1>3. \A o : Among(o, more) <=> Among(o, s) \/ o = x
    <2> TAKE o
    <2>1. ASSUME NEW n \in 1..Len(s), s[n] = o PROVE Among(o, more)
      <3>1. n \in 1..Len(more)
        BY <1>1
      <3> QED
        BY <3>1, <2>1, <1>1 DEF Among
    <2>2. ASSUME o = x PROVE Among(o, more)
      <3>1. Len(s) + 1 \in 1..Len(more)
        BY <1>1
      <3> QED
        BY <3>1, <2>2, <1>1 DEF Among
    <2> QED
      BY <2>1, <2>2, <1>1, <1>2 DEF Among
  <1>4. ASSUME Ascending(s), \A o : Among(o, s) => o.ticket < x.ticket PROVE Ascending(more)
    <2> SUFFICES ASSUME NEW n \in 1..Len(more), NEW k \in 1..Len(more), n < k
            PROVE more[n].ticket < more[k].ticket
      BY DEF Ascending
    <2>1. n \in 1..Len(s)
      BY <1>1, <1>2
    <2>2. CASE k \in 1..Len(s)
      BY <2>1, <2>2, <1>1, <1>4 DEF Ascending
    <2>3. CASE k = Len(s) + 1
      BY <2>1, <2>3, <1>1, <1>4 DEF Among
    <2> QED
      BY <2>2, <2>3, <1>2
  <1> QED
    BY <1>1, <1>3, <1>4 DEF more

\* A walk: what it asks to close is closed, but for the stuck ones.
LEMMA HandleIs ==
    ASSUME NEW state \in States, NEW stuck
    PROVE  LET new == om_handleOpenOrders(state, stuck)
               closes == Walk(state.res, state.orders) \ stuck
           IN  /\ new \in States /\ new.res = state.res /\ new.sent = state.sent
               /\ \A o : Among(o, new.orders) <=> Among(o, state.orders) /\ o.ticket \notin closes
               /\ \A o : Among(o, new.ended) <=> Among(o, state.ended)
                                                  \/ (Among(o, state.orders) /\ o.ticket \in closes)
               /\ Ascending(state.orders) => Ascending(new.orders)
               /\ Len(new.orders) <= Len(state.orders)
  <1> DEFINE closes == Walk(state.res, state.orders) \ stuck
             rest == Drop(state.orders, closes)
             ended == state.ended \o Reverse(Keep(state.orders, closes))
             new == [res |-> state.res, orders |-> rest, ended |-> ended, sent |-> state.sent]
  <1>1. state.res \in Arrays /\ state.orders \in Seq(Order) /\ state.ended \in Seq(Order) /\ state.sent \in Nat
    BY DEF States
  <1>2. om_handleOpenOrders(state, stuck) = new
    <2>1. om_handleOpenOrders(state, stuck)
          = [state EXCEPT !.orders = rest, !.ended = @ \o Reverse(Keep(state.orders, closes))]
      BY DEF om_handleOpenOrders
    <2> HIDE DEF rest, closes
    <2>2. state = [res |-> state.res, orders |-> state.orders, ended |-> state.ended, sent |-> state.sent]
      BY DEF States
    <2> QED
      BY <2>1, <2>2
  <1> HIDE DEF closes
  <1>3. /\ rest \in Seq(Order) /\ Len(rest) <= Len(state.orders)
        /\ \A o : Among(o, rest) <=> Among(o, state.orders) /\ o.ticket \notin closes
        /\ Ascending(state.orders) => Ascending(rest)
    BY <1>1, KeepDrop
  <1>4. Keep(state.orders, closes) \in Seq(Order)
        /\ \A o : Among(o, Keep(state.orders, closes)) <=> Among(o, state.orders) /\ o.ticket \in closes
    BY <1>1, KeepDrop
  <1>5. ended \in Seq(Order)
        /\ \A o : Among(o, ended) <=> Among(o, state.ended) \/ (Among(o, state.orders) /\ o.ticket \in closes)
    <2> DEFINE kept == Keep(state.orders, closes)
    <2>1. kept \in Seq(Order) /\ \A o : Among(o, kept) <=> Among(o, state.orders) /\ o.ticket \in closes
      BY <1>4
    <2> HIDE DEF kept
    <2> DEFINE back == Reverse(kept)
    <2>2. back \in Seq(Order) /\ \A o : Among(o, back) <=> Among(o, kept)
      BY <2>1, ReverseIs
    <2> HIDE DEF back
    <2>3. state.ended \o back \in Seq(Order)
          /\ \A o : Among(o, state.ended \o back) <=> Among(o, state.ended) \/ Among(o, back)
      BY <1>1, <2>2, AmongConcat
    <2> QED
      BY <2>1, <2>2, <2>3 DEF kept, back
  <1> HIDE DEF rest, ended
  <1>6. new \in States
    BY <1>1, <1>3, <1>5 DEF States
  <1> QED
    BY <1>2, <1>3, <1>5, <1>6 DEF closes

\* What the walks and the entries rely on.
Account == /\ day \in Nat /\ sent \in Nat /\ open \in Seq(Order) /\ Ascending(open)
           /\ \A o : Among(o, open) => o.ticket <= sent

\* An order that is sent on the bar for one of the results, as one of those up to a ticket.
Fresh(o, res, upto) ==
    /\ o \in Order /\ o.ticket \in (sent + 1)..upto /\ o.at \in (sent + 1)..upto
    /\ o.day = day /\ o.result = "open"
    /\ \E q \in 1..MaxOpenOrders : <<"OPEN", o.type>> \in res[q].signals

\* Between two entries: each order is one of those before the bar, still open only if the first walk did
\* not close it, or one that was sent.
Sending(state, res, closes) ==
    /\ state \in States /\ sent <= state.sent
    /\ \A o : Among(o, state.orders) => (Among(o, open) /\ o.ticket \notin closes) \/ Fresh(o, res, state.sent)
    /\ \A o : Among(o, state.ended) => Among(o, open) \/ Fresh(o, res, state.sent)
    /\ \A o : Among(o, open) => Among(o, state.orders) \/ Among(o, state.ended)
    /\ \A t \in (sent + 1)..state.sent : \E o :
          Fresh(o, res, state.sent) /\ o.ticket = t /\ (Among(o, state.orders) \/ Among(o, state.ended))
    /\ Ascending(state.orders)
    /\ Apart(state.orders, state.ended)

\* No ticket is in both sequences.
LEMMA ApartIs ==
    ASSUME NEW orders, NEW ended
    PROVE  Apart(orders, ended) <=> \A o, p : Among(o, orders) /\ Among(p, ended) => o.ticket # p.ticket
  BY DEF Apart, Among

\* The walk before any entry is sent.
LEMMA WalkedFirst ==
    ASSUME Account, NEW res \in Arrays, NEW stuck
    PROVE  LET walked == om_handleOpenOrders([res |-> res, orders |-> open, ended |-> <<>>, sent |-> sent],
            stuck)
           IN  Sending(walked, res, Walk(res, open) \ stuck) /\ walked.res = res /\ walked.sent = sent
               /\ Len(walked.orders) <= Len(open)
  <1> DEFINE state == [res |-> res, orders |-> open, ended |-> <<>>, sent |-> sent]
             walked == om_handleOpenOrders(state, stuck)
             closes == Walk(res, open) \ stuck
  <1>1. state \in States /\ state.res = res /\ state.orders = open /\ state.ended = <<>> /\ state.sent = sent
    BY DEF States, Account
  <1>2. ~\E o : Among(o, <<>>)
    BY DEF Among
  <1> HIDE DEF state
  <1>3. /\ walked \in States /\ walked.res = res /\ walked.sent = sent
        /\ \A o : Among(o, walked.orders) <=> Among(o, open) /\ o.ticket \notin closes
        /\ \A o : Among(o, walked.ended) <=> Among(o, open) /\ o.ticket \in closes
        /\ Ascending(walked.orders) /\ Len(walked.orders) <= Len(open)
    <2>1. /\ walked \in States /\ walked.res = state.res /\ walked.sent = state.sent
          /\ \A o : Among(o, walked.orders) <=> Among(o, state.orders)
                                                 /\ o.ticket \notin Walk(state.res, state.orders) \ stuck
          /\ \A o : Among(o, walked.ended) <=> Among(o, state.ended)
                       \/ (Among(o, state.orders) /\ o.ticket \in Walk(state.res, state.orders) \ stuck)
          /\ Ascending(state.orders) => Ascending(walked.orders)
          /\ Len(walked.orders) <= Len(state.orders)
      BY <1>1, HandleIs
    <2> HIDE DEF walked
    <2> QED
      BY <1>1, <1>2, <2>1 DEF Account
  <1> HIDE DEF walked, closes
  <1>4. Apart(walked.orders, walked.ended)
    <2>1. \A o, p : Among(o, walked.orders) /\ Among(p, walked.ended) => o.ticket # p.ticket
      BY <1>3
    <2> QED
      BY <2>1, ApartIs
  <1>5. Sending(walked, res, closes)
    <2>1. sent \in Nat /\ (sent + 1)..sent = {}
      BY DEF Account
    <2> QED
      BY <1>3, <1>4, <2>1 DEF Sending
  <1> QED
    BY <1>3, <1>5 DEF walked, state, closes

\* The order an entry sends.
NewOrder(state, r, tp, zone, tied) ==
    [ticket |-> state.sent + 1, day |-> day, tp |-> tp, level |-> zone, result |-> "open", until |-> 0,
     at |-> IF tied THEN sent + 1 ELSE state.sent + 1,
     type |-> IF <<"OPEN", "BUY">> \in state.res[r].signals THEN "BUY" ELSE "SELL"]

\* An order that is sent is new: its ticket and its time are later than those of the others.
LEMMA NewOrderIs ==
    ASSUME Account, NEW res \in Arrays, NEW state \in States, sent <= state.sent, NEW r \in ToOpen(res),
           state.res[r] = res[r], NEW tp \in BOOLEAN, NEW zone \in Nat, NEW tied \in BOOLEAN
    PROVE  Fresh(NewOrder(state, r, tp, zone, tied), res, state.sent + 1)
  <1> DEFINE type == IF <<"OPEN", "BUY">> \in res[r].signals THEN "BUY" ELSE "SELL"
             ticket == state.sent + 1
             at == IF tied THEN sent + 1 ELSE ticket
             new == [ticket |-> ticket, day |-> day, tp |-> tp, level |-> zone, result |-> "open", until |-> 0,
                     at |-> at, type |-> type]
  <1>1. NewOrder(state, r, tp, zone, tied) = new
    BY DEF NewOrder
  <1>2. state.sent \in Nat /\ sent \in Nat /\ day \in Nat
    BY DEF States, Account
  <1>3. ticket \in Nat /\ ticket \in (sent + 1)..ticket /\ at \in (sent + 1)..ticket /\ at \in Nat
    BY <1>2
  <1>4. type \in Sides /\ r \in 1..MaxOpenOrders /\ <<"OPEN", type>> \in res[r].signals
    <2>1. r \in DOMAIN res /\ \E side \in {"BUY", "SELL"} : <<"OPEN", side>> \in res[r].signals
      BY DEF ToOpen, Sides
    <2>2. DOMAIN res = 1..MaxOpenOrders
      BY DEF Arrays
    <2> QED
      BY <2>1, <2>2 DEF Sides
  <1> HIDE DEF ticket, at, type
  <1>5. new \in Order
    BY <1>2, <1>3, <1>4 DEF Order
  <1>6. new.ticket = ticket /\ new.at = at /\ new.day = day /\ new.result = "open" /\ new.type = type
    OBVIOUS
  <1> HIDE DEF new
  <1>7. Fresh(new, res, ticket)
    BY <1>3, <1>4, <1>5, <1>6 DEF Fresh
  <1> QED
    BY <1>1, <1>7 DEF ticket

\* An order that was new stays so when more are sent.
LEMMA FreshGrows ==
    ASSUME Account, NEW res, NEW upto \in Nat, NEW o, Fresh(o, res, upto)
    PROVE  Fresh(o, res, upto + 1) /\ o.ticket <= upto
  <1>1. o.ticket \in (sent + 1)..upto /\ o.at \in (sent + 1)..upto /\ sent \in Nat
    BY DEF Fresh, Account
  <1>2. o.ticket \in (sent + 1)..(upto + 1) /\ o.at \in (sent + 1)..(upto + 1) /\ o.ticket <= upto
    BY <1>1
  <1> QED
    BY <1>2 DEF Fresh

\* An entry is sent, and the orders are walked over again.
LEMMA SendNext ==
    ASSUME Account, NEW res \in Arrays, NEW closes, NEW state, Sending(state, res, closes),
           NEW r \in ToOpen(res), state.res[r] = res[r], NEW tp \in BOOLEAN, NEW zone \in Nat,
           NEW tied \in BOOLEAN, NEW stuck
    PROVE  LET new == OpenOrder(state, r, tp, zone, tied, stuck)
           IN  /\ Sending(new, res, closes) /\ new.sent = state.sent + 1
               /\ \A q \in 1..MaxOpenOrders : q # r => new.res[q] = state.res[q]
               /\ Len(new.orders) <= Len(state.orders) + 1
  <1> DEFINE order == NewOrder(state, r, tp, zone, tied)
             ticket == state.sent + 1
             array == [state.res EXCEPT ![r].ticket = ticket, ![r].signals = {}]
             sending == [res |-> array, orders |-> Append(state.orders, order), ended |-> state.ended,
                         sent |-> ticket]
             new == om_handleOpenOrders(sending, stuck)
  <1>1. OpenOrder(state, r, tp, zone, tied, stuck) = new
    BY DEF OpenOrder, NewOrder
  <1>2. /\ state \in States /\ sent <= state.sent /\ state.sent \in Nat /\ sent \in Nat
        /\ state.res \in Arrays /\ state.orders \in Seq(Order) /\ state.ended \in Seq(Order)
    BY DEF Sending, States, Account
  <1>3. r \in 1..MaxOpenOrders
    BY DEF ToOpen, Arrays
  <1>4. Fresh(order, res, ticket) /\ order.ticket = ticket
    <2>1. Fresh(order, res, ticket)
      BY <1>2, NewOrderIs
    <2>2. order.ticket = ticket
      BY DEF NewOrder
    <2> QED
      BY <2>1, <2>2
  <1>5. array \in Arrays /\ \A q \in 1..MaxOpenOrders : q # r => array[q] = state.res[q]
    <2>1. state.res[r] \in Results
      BY <1>2, <1>3 DEF Arrays
    <2>2. [state.res[r] EXCEPT !.ticket = ticket, !.signals = {}] \in Results
      <3> DEFINE was == state.res[r]
                 none == {}
                 named == [was EXCEPT !.ticket = ticket]
      <3>1. was \in Results /\ ticket \in Int /\ none \in SUBSET Signals
        BY <2>1, <1>2
      <3> HIDE DEF was, none, ticket
      <3>2. named \in Results
        BY <3>1 DEF Results
      <3>3. [was EXCEPT !.ticket = ticket, !.signals = none] = [named EXCEPT !.signals = none]
        OBVIOUS
      <3> HIDE DEF named
      <3>4. [named EXCEPT !.signals = none] \in Results
        BY <3>1, <3>2 DEF Results
      <3> QED
        BY <3>3, <3>4 DEF was, none
    <2>3. array = [state.res EXCEPT ![r] = [state.res[r] EXCEPT !.ticket = ticket, !.signals = {}]]
      BY <1>2, <1>3 DEF Arrays
    <2> DEFINE result == [state.res[r] EXCEPT !.ticket = ticket, !.signals = {}]
    <2> HIDE DEF result, ticket
    <2>4. [state.res EXCEPT ![r] = result] \in Arrays
          /\ \A q \in 1..MaxOpenOrders : q # r => [state.res EXCEPT ![r] = result][q] = state.res[q]
      BY <1>2, <1>3, <2>2 DEF Arrays, result
    <2> QED
      BY <2>3, <2>4 DEF result
  <1>6. \A o : Among(o, state.orders) \/ Among(o, state.ended) => o.ticket <= state.sent /\ o.ticket \in Nat
    <2> SUFFICES ASSUME NEW o, Among(o, state.orders) \/ Among(o, state.ended)
                 PROVE  o.ticket <= state.sent /\ o.ticket \in Nat
      OBVIOUS
    <2>0. o \in Order
      BY <1>2 DEF Among
    <2>1. o.ticket \in Nat
      BY <2>0 DEF Order
    <2>2. CASE Among(o, open)
      BY <2>2, <2>1, <1>2 DEF Account
    <2>3. CASE Fresh(o, res, state.sent)
      BY <2>3, <2>1, <1>2, FreshGrows
    <2> QED
      BY <2>1, <2>2, <2>3 DEF Sending
  <1> DEFINE more == Append(state.orders, order)
  <1>7. /\ more \in Seq(Order) /\ Len(more) = Len(state.orders) + 1
        /\ \A o : Among(o, more) <=> Among(o, state.orders) \/ o = order
        /\ Ascending(more)
    <2>1. order \in Order
      BY <1>4 DEF Fresh
    <2>2. \A o : Among(o, state.orders) => o.ticket < order.ticket
      BY <1>2, <1>4, <1>6
    <2> HIDE DEF order
    <2>3. Len(more) = Len(state.orders) + 1
      BY <1>2, <2>1
    <2>4. Ascending(state.orders)
      BY DEF Sending
    <2> QED
      BY <1>2, <2>1, <2>2, <2>3, <2>4, AmongAppend
  <1> HIDE DEF order, array, more
  <1>8. sending \in States /\ sending.res = array /\ sending.orders = more /\ sending.ended = state.ended
        /\ sending.sent = ticket
    BY <1>2, <1>5, <1>7 DEF States, more
  <1> HIDE DEF sending
  <1> DEFINE shut == Walk(array, more) \ stuck
  <1>9. /\ new \in States /\ new.res = array /\ new.sent = ticket
        /\ \A o : Among(o, new.orders) <=> Among(o, more) /\ o.ticket \notin shut
        /\ \A o : Among(o, new.ended) <=> Among(o, state.ended) \/ (Among(o, more) /\ o.ticket \in shut)
        /\ Ascending(new.orders) /\ Len(new.orders) <= Len(more)
    <2>1. /\ new \in States /\ new.res = sending.res /\ new.sent = sending.sent
          /\ \A o : Among(o, new.orders) <=> Among(o, sending.orders)
                                              /\ o.ticket \notin Walk(sending.res, sending.orders) \ stuck
          /\ \A o : Among(o, new.ended) <=> Among(o, sending.ended)
                       \/ (Among(o, sending.orders) /\ o.ticket \in Walk(sending.res, sending.orders) \ stuck)
          /\ Ascending(sending.orders) => Ascending(new.orders)
          /\ Len(new.orders) <= Len(sending.orders)
      BY <1>8, HandleIs
    <2> HIDE DEF new
    <2> QED
      BY <1>7, <1>8, <2>1
  <1> HIDE DEF new, shut
  <1>10. \A o : Fresh(o, res, state.sent) => Fresh(o, res, ticket)
    BY <1>2, FreshGrows
  <1>11. \A o : Among(o, new.orders) => (Among(o, open) /\ o.ticket \notin closes) \/ Fresh(o, res, ticket)
    BY <1>4, <1>7, <1>9, <1>10 DEF Sending
  <1>12. \A o : Among(o, new.ended) => Among(o, open) \/ Fresh(o, res, ticket)
    BY <1>4, <1>7, <1>9, <1>10 DEF Sending
  <1>13. \A o : Among(o, state.orders) \/ Among(o, state.ended) \/ o = order
                 => Among(o, new.orders) \/ Among(o, new.ended)
    BY <1>7, <1>9
  <1>14. \A o : Among(o, open) => Among(o, new.orders) \/ Among(o, new.ended)
    BY <1>13 DEF Sending
  <1>15. \A t \in (sent + 1)..ticket : \E o :
          Fresh(o, res, ticket) /\ o.ticket = t /\ (Among(o, new.orders) \/ Among(o, new.ended))
    <2> TAKE t \in (sent + 1)..ticket
    <2>1. t \in (sent + 1)..state.sent \/ t = ticket
      BY <1>2
    <2>2. CASE t = ticket
      BY <2>2, <1>4, <1>13
    <2>3. CASE t \in (sent + 1)..state.sent
      <3>1. PICK o : Fresh(o, res, state.sent) /\ o.ticket = t /\ (Among(o, state.orders)
              \/ Among(o, state.ended))
        BY <2>3 DEF Sending
      <3> QED
        BY <3>1, <1>10, <1>13
    <2> QED
      BY <2>1, <2>2, <2>3
  <1>16. Apart(new.orders, new.ended)
    <2> SUFFICES ASSUME NEW o, NEW p, Among(o, new.orders), Among(p, new.ended) PROVE o.ticket # p.ticket
      BY ApartIs
    <2>1. (Among(o, state.orders) \/ o = order) /\ o.ticket \notin shut
      BY <1>7, <1>9
    <2>2. CASE p.ticket \in shut
      BY <2>1, <2>2
    <2>3. CASE Among(p, state.ended)
      <3>1. CASE Among(o, state.orders)
        <4>1. Apart(state.orders, state.ended)
          BY DEF Sending
        <4> QED
          BY <4>1, <3>1, <2>3, ApartIs
      <3>2. CASE o = order
        BY <3>2, <2>3, <1>2, <1>4, <1>6
      <3> QED
        BY <2>1, <3>1, <3>2
    <2> QED
      BY <2>2, <2>3, <1>9
  <1>17. Sending(new, res, closes)
    <2>1. sent <= ticket
      BY <1>2
    <2> HIDE DEF ticket
    <2> QED
      BY <1>9, <1>11, <1>12, <1>14, <1>15, <1>16, <2>1 DEF Sending
  <1>18. \A q \in 1..MaxOpenOrders : q # r => new.res[q] = state.res[q]
    BY <1>5, <1>9
  <1>19. Len(new.orders) <= Len(state.orders) + 1
    BY <1>7, <1>9
  <1> QED
    BY <1>1, <1>9, <1>17, <1>18, <1>19 DEF new, sending, order, array, ticket

\* Sending an order keeps the type of what is being worked on.
LEMMA OpenOrderStays ==
    ASSUME Account, NEW state \in States, NEW r \in 1..MaxOpenOrders, NEW tp \in BOOLEAN, NEW zone \in Nat,
           NEW tied \in BOOLEAN, NEW stuck
    PROVE  OpenOrder(state, r, tp, zone, tied, stuck) \in States
  <1> DEFINE order == NewOrder(state, r, tp, zone, tied)
             ticket == state.sent + 1
             array == [state.res EXCEPT ![r].ticket = ticket, ![r].signals = {}]
             sending == [res |-> array, orders |-> Append(state.orders, order), ended |-> state.ended,
                         sent |-> ticket]
  <1>1. OpenOrder(state, r, tp, zone, tied, stuck) = om_handleOpenOrders(sending, stuck)
    BY DEF OpenOrder, NewOrder
  <1>2. /\ state.sent \in Nat /\ sent \in Nat /\ day \in Nat /\ ticket \in Nat
        /\ state.res \in Arrays /\ state.orders \in Seq(Order) /\ state.ended \in Seq(Order)
    BY DEF States, Account
  <1>3. order \in Order
    <2> DEFINE type == IF <<"OPEN", "BUY">> \in state.res[r].signals THEN "BUY" ELSE "SELL"
               at == IF tied THEN sent + 1 ELSE ticket
    <2>1. type \in Sides /\ at \in Nat
      BY <1>2 DEF Sides
    <2>2. order = [ticket |-> ticket, day |-> day, tp |-> tp, level |-> zone, result |-> "open", until |-> 0,
                   at |-> at, type |-> type]
      BY DEF NewOrder
    <2> HIDE DEF type, at, ticket, order
    <2> QED
      BY <1>2, <2>1, <2>2 DEF Order
  <1>4. array \in Arrays
    <2>1. state.res[r] \in Results
      BY <1>2 DEF Arrays
    <2>2. [state.res[r] EXCEPT !.ticket = ticket, !.signals = {}] \in Results
      <3> DEFINE was == state.res[r]
                 none == {}
                 named == [was EXCEPT !.ticket = ticket]
      <3>1. was \in Results /\ ticket \in Int /\ none \in SUBSET Signals
        BY <2>1, <1>2
      <3> HIDE DEF was, none, ticket
      <3>2. named \in Results
        BY <3>1 DEF Results
      <3>3. [was EXCEPT !.ticket = ticket, !.signals = none] = [named EXCEPT !.signals = none]
        OBVIOUS
      <3> HIDE DEF named
      <3>4. [named EXCEPT !.signals = none] \in Results
        BY <3>1, <3>2 DEF Results
      <3> QED
        BY <3>3, <3>4 DEF was, none
    <2>3. array = [state.res EXCEPT ![r] = [state.res[r] EXCEPT !.ticket = ticket, !.signals = {}]]
      BY <1>2 DEF Arrays
    <2> DEFINE result == [state.res[r] EXCEPT !.ticket = ticket, !.signals = {}]
    <2> HIDE DEF result, ticket
    <2>4. [state.res EXCEPT ![r] = result] \in Arrays
      BY <1>2, <2>2 DEF Arrays, result
    <2> QED
      BY <2>3, <2>4 DEF result
  <1> HIDE DEF order, array
  <1>5. sending \in States
    <2>1. Append(state.orders, order) \in Seq(Order)
      BY <1>2, <1>3
    <2> HIDE DEF ticket
    <2> QED
      BY <1>2, <1>4, <2>1 DEF States
  <1> HIDE DEF sending
  <1> QED
    BY <1>1, <1>5, HandleIs

\* The recursion of OpenOrders.
SendsBy(f, walked, accepted, tps, zone, tied, stuck) ==
    /\ f[0] = walked
    /\ \A m \in 1..MaxOpenOrders : f[m] = IF m \in accepted
            THEN OpenOrder(f[m - 1], m, m \in tps, zone, tied, stuck) ELSE f[m - 1]
    /\ OpenOrders(walked, accepted, tps, zone, tied, stuck) = f[MaxOpenOrders]

\* The recursive function of OpenOrders exists.
LEMMA SendsBuilt ==
    ASSUME Account, NEW walked \in States, NEW accepted, NEW tps, NEW zone \in Nat, NEW tied \in BOOLEAN,
           NEW stuck
    PROVE  \E f \in [0..MaxOpenOrders -> States] : SendsBy(f, walked, accepted, tps, zone, tied, stuck)
  <1> DEFINE After(m, x) == IF m \in accepted THEN OpenOrder(x, m, m \in tps, zone, tied, stuck) ELSE x
             step == [m \in 1..MaxOpenOrders |-> [x \in States |-> After(m, x)]]
             Rec(f) == [m \in 0..MaxOpenOrders |-> IF m = 0 THEN walked ELSE After(m, f[m - 1])]
             built == CHOOSE f : f = Rec(f)
  <1>1. MaxOpenOrders \in Nat /\ walked \in States
          /\ \A m \in 1..MaxOpenOrders : \A x \in States : After(m, x) \in States
    <2>1. MaxOpenOrders \in Nat
      BY SizesType
    <2>2. ASSUME NEW m \in 1..MaxOpenOrders, NEW x \in States PROVE After(m, x) \in States
      <3>1. (m \in tps) \in BOOLEAN
        OBVIOUS
      <3>2. OpenOrder(x, m, m \in tps, zone, tied, stuck) \in States
        BY <3>1, OpenOrderStays
      <3> QED
        BY <3>2
    <2> QED
      BY <2>1, <2>2
  <1>2. OpenOrders(walked, accepted, tps, zone, tied, stuck) = built[MaxOpenOrders]
    BY DEF OpenOrders
  <1>3. \A f : \A m \in 1..MaxOpenOrders : After(m, f[m - 1]) = IF m \in accepted
          THEN OpenOrder(f[m - 1], m, m \in tps, zone, tied, stuck) ELSE f[m - 1]
    OBVIOUS
  <1> HIDE DEF After
  <1>4. PICK f \in [0..MaxOpenOrders -> States] : f = Rec(f)
    <2>1. step \in [1..MaxOpenOrders -> [States -> States]]
      BY <1>1
    <2>2. \A m \in 1..MaxOpenOrders : \A x \in States : step[m][x] = After(m, x)
      OBVIOUS
    <2> HIDE DEF step
    <2>3. BuiltUp(MaxOpenOrders, States, walked, step)
      BY <1>1, <2>1, RecursionExists
    <2>4. PICK f \in [0..MaxOpenOrders -> States] : f[0] = walked
            /\ \A m \in 1..MaxOpenOrders : f[m] = step[m][f[m - 1]]
      BY <2>3 DEF BuiltUp
    <2>5. ASSUME NEW m \in 1..MaxOpenOrders PROVE f[m] = After(m, f[m - 1])
      <3>1. f[m - 1] \in States
        BY <1>1
      <3> QED
        BY <3>1, <2>2, <2>4
    <2>6. f = Rec(f)
      BY <2>4, <2>5
    <2> QED
      BY <2>6
  <1>5. built = Rec(built)
    <2> HIDE DEF Rec
    <2> QED
      BY <1>4
  <1> HIDE DEF built
  <1>6. built[0] = walked /\ \A m \in 1..MaxOpenOrders : built[m] = After(m, built[m - 1])
    BY <1>5, <1>1
  <1>7. built \in [0..MaxOpenOrders -> States]
    <2> DEFINE Good == {m \in 0..MaxOpenOrders : built[m] \in States}
    <2>1. 0 \in Good
      <3>1. built[0] = walked /\ MaxOpenOrders \in Nat
        BY <1>6, <1>1
      <3>2. built[0] \in States
        BY <3>1, <1>1
      <3> QED
        BY <3>1, <3>2
    <2>2. ASSUME NEW m \in 1..MaxOpenOrders, m - 1 \in Good PROVE m \in Good
      <3>1. built[m] = After(m, built[m - 1]) /\ built[m - 1] \in States
        BY <1>6, <2>2
      <3>2. built[m] \in States
        BY <1>1, <3>1
      <3> QED
        BY <3>2
    <2>3. \A m \in 0..MaxOpenOrders : m \in Good
      <3> HIDE DEF Good
      <3> QED
        BY <2>1, <2>2, <1>1, InductionTo
    <2>4. built = [m \in 0..MaxOpenOrders |-> built[m]]
      BY <1>5
    <2> QED
      BY <2>3, <2>4
  <1> QED
    BY <1>2, <1>6, <1>7, <1>3 DEF SendsBy

\* What becomes of the orders on a bar.  The entries are among the results from a + 1 to b.
AllSent(done, res, closes, accepted, a, b) ==
    /\ Sending(done, res, closes)
    /\ done.sent <= sent + (b - a) /\ Len(done.orders) <= Len(open) + (done.sent - sent)
    /\ accepted = {} => done.sent = sent

\* After any number of results: what is open, what was closed, and how many were sent.
LEMMA SentIs ==
    ASSUME Account, NEW res \in Arrays, NEW a \in 0..MaxOpenOrders, NEW b \in a..MaxOpenOrders,
           NEW accepted \in SUBSET ToOpen(res), accepted \subseteq (a + 1)..b,
           NEW tps, NEW zone \in Nat, NEW tied \in BOOLEAN, NEW stuck, NEW walked, NEW done,
           walked = om_handleOpenOrders([res |-> res, orders |-> open, ended |-> <<>>, sent |-> sent], stuck),
           done = OpenOrders(walked, accepted, tps, zone, tied, stuck)
    PROVE  AllSent(done, res, Walk(res, open) \ stuck, accepted, a, b)
  <1> DEFINE closes == Walk(res, open) \ stuck
  <1>0. MaxOpenOrders \in Nat /\ sent \in Nat /\ Len(open) \in Nat
    BY SizesType DEF Account
  <1>1. Sending(walked, res, closes) /\ walked.res = res /\ walked.sent = sent
          /\ Len(walked.orders) <= Len(open)
    BY WalkedFirst
  <1> HIDE DEF closes
  <1>2. PICK f \in [0..MaxOpenOrders -> States] : SendsBy(f, walked, accepted, tps, zone, tied, stuck)
    <2>1. walked \in States
      BY <1>1 DEF Sending
    <2> QED
      BY <2>1, SendsBuilt
  <1>3. /\ f[0] = walked
        /\ \A m \in 1..MaxOpenOrders :
              f[m] = IF m \in accepted THEN OpenOrder(f[m - 1], m, m \in tps, zone, tied, stuck) ELSE f[m - 1]
        /\ done = f[MaxOpenOrders]
    BY <1>2 DEF SendsBy
  <1> DEFINE Bound(m) == IF m <= a THEN 0 ELSE IF m <= b THEN m - a ELSE b - a
             Upto(m) == /\ Sending(f[m], res, closes)
                        /\ \A q \in 1..MaxOpenOrders : q > m => f[m].res[q] = res[q]
                        /\ f[m].sent <= sent + Bound(m)
                        /\ Len(f[m].orders) <= Len(open) + (f[m].sent - sent)
                        /\ accepted = {} => f[m].sent = sent
             Good == {m \in 0..MaxOpenOrders : Upto(m)}
  <1>4. 0 \in Good
    <2>1. Upto(0)
      BY <1>0, <1>1, <1>3
    <2> QED
      BY <2>1, <1>0
  <1>5. ASSUME NEW m \in 1..MaxOpenOrders, m - 1 \in Good PROVE m \in Good
    <2>0. m - 1 \in 0..MaxOpenOrders /\ m \in Nat /\ m \in 0..MaxOpenOrders
      BY <1>0
    <2>1. /\ Sending(f[m - 1], res, closes)
          /\ \A q \in 1..MaxOpenOrders : q > m - 1 => f[m - 1].res[q] = res[q]
          /\ f[m - 1].sent <= sent + Bound(m - 1)
          /\ Len(f[m - 1].orders) <= Len(open) + (f[m - 1].sent - sent)
          /\ accepted = {} => f[m - 1].sent = sent
      BY <1>5
    <2>2. f[m - 1] \in States /\ f[m] \in States
      BY <2>0
    <2>3. f[m - 1].sent \in Nat /\ f[m].sent \in Nat /\ Len(f[m - 1].orders) \in Nat /\ Len(f[m].orders) \in Nat
      BY <2>2 DEF States
    <2>4. CASE m \in accepted
      <3> DEFINE before == f[m - 1]
                 after == f[m]
      <3> DEFINE tp == m \in tps
      <3>1. after = OpenOrder(before, m, tp, zone, tied, stuck)
        BY <1>3, <2>4
      <3>0. tp \in BOOLEAN
        OBVIOUS
      <3> HIDE DEF tp
      <3>2. before.res[m] = res[m] /\ m \in ToOpen(res)
        BY <2>1, <2>4
      <3>3. Sending(before, res, closes)
        BY <2>1
      <3> HIDE DEF before, after
      <3>4. /\ Sending(after, res, closes) /\ after.sent = before.sent + 1
            /\ \A q \in 1..MaxOpenOrders : q # m => after.res[q] = before.res[q]
            /\ Len(after.orders) <= Len(before.orders) + 1
        BY <3>0, <3>1, <3>2, <3>3, SendNext
      <3>5. Bound(m) = Bound(m - 1) + 1
        BY <2>4, <1>0
      <3> HIDE DEF Bound
      <3>6. Bound(m - 1) \in Int
        BY <1>0 DEF Bound
      <3>7. \A q \in 1..MaxOpenOrders : q > m => after.res[q] = res[q]
        <4> TAKE q \in 1..MaxOpenOrders
        <4>1. q > m => q > m - 1 /\ q # m
          BY <1>0
        <4> QED
          BY <4>1, <2>1, <3>4 DEF before
      <3>8. after.sent <= sent + Bound(m) /\ Len(after.orders) <= Len(open) + (after.sent - sent)
        <4>1. /\ before.sent \in Nat /\ after.sent \in Nat /\ Len(before.orders) \in Nat
                /\ Len(after.orders) \in Nat
              /\ before.sent <= sent + Bound(m - 1) /\ Len(before.orders) <= Len(open) + (before.sent - sent)
          BY <2>1, <2>3 DEF before, after
        <4>2. after.sent = before.sent + 1 /\ Len(after.orders) <= Len(before.orders) + 1
          BY <3>4
        <4>3. after.sent <= sent + Bound(m)
          BY <4>1, <4>2, <3>5, <3>6, <1>0
        <4>4. Len(after.orders) <= Len(open) + (after.sent - sent)
          <5>1. \A s, t, u, v, w, x \in Nat : v <= w + (t - u) /\ s = t + 1 /\ x <= v + 1 => x <= w + (s - u)
            OBVIOUS
          <5> QED
            BY <4>1, <4>2, <1>0, <5>1
        <4> QED
          BY <4>3, <4>4
      <3>9. Upto(m)
        BY <3>4, <3>7, <3>8, <2>4 DEF after
      <3> HIDE DEF Upto
      <3> QED
        BY <3>9, <2>0
    <2>5. CASE m \notin accepted
      <3>1. f[m] = f[m - 1]
        BY <1>3, <2>5
      <3>2. Bound(m - 1) <= Bound(m) /\ Bound(m - 1) \in Int /\ Bound(m) \in Int
        BY <1>0
      <3> HIDE DEF Bound
      <3>3. \A q \in 1..MaxOpenOrders : q > m => q > m - 1
        BY <1>0
      <3>4. f[m].sent <= sent + Bound(m)
        BY <2>1, <2>3, <3>1, <3>2, <1>0
      <3>5. Upto(m)
        BY <2>1, <3>1, <3>3, <3>4
      <3> HIDE DEF Upto
      <3> QED
        BY <3>5, <2>0
    <2> QED
      BY <2>4, <2>5
  <1>6. \A m \in 0..MaxOpenOrders : m \in Good
    <2> HIDE DEF Good
    <2> QED
      BY <1>0, <1>4, <1>5, InductionTo
  <1>7. Upto(MaxOpenOrders)
    <2>1. MaxOpenOrders \in Good
      <3> HIDE DEF Good
      <3> QED
        BY <1>6, <1>0
    <2> HIDE DEF Upto
    <2> QED
      BY <2>1
  <1>8. Bound(MaxOpenOrders) <= b - a
    BY <1>0
  <1>9. Bound(MaxOpenOrders) \in Int /\ done.sent \in Nat
    <2>1. Bound(MaxOpenOrders) \in Int
      BY <1>0
    <2> HIDE DEF Bound
    <2> QED
      BY <2>1, <1>7, <1>3 DEF Sending, States
  <1>10. done.sent <= sent + (b - a)
    <2> HIDE DEF Bound
    <2> QED
      BY <1>0, <1>3, <1>7, <1>8, <1>9
  <1> QED
    BY <1>3, <1>7, <1>10 DEF closes, AllSent

-----------------------------------------------------------------------------
(* What a bar makes of the orders. *)

\* The modes the invariants are about; those with limit orders keep their orders in another way.
InScope == mode \in (AutoBBSModes \cup OpenOrUpdate \cup Banded) \ LimitModes

TypeInv == day \in Nat /\ sent \in Nat /\ faults \in Nat /\ open \in Seq(Order) /\ closed \in Seq(Order)

\* The open orders are in the order of their tickets; a ticket, and a time of opening, was sent.
OrdersInv ==
    /\ Ascending(open)
    /\ \A o : Among(o, open) => o.ticket <= sent /\ o.at <= sent /\ o.result = "open"
    /\ \A o : Among(o, closed) => o.ticket <= sent /\ o.at <= sent /\ o.result # "open"

\* The account meets what the lemmas about c_processOrders assume.
LEMMA AccountIs ==
    ASSUME TypeInv, OrdersInv
    PROVE  Account /\ AccountOpen
  <1>1. Account
    BY DEF Account, TypeInv, OrdersInv
  <1>2. /\ \A n \in 1..Len(open) : open[n].result = "open"
        /\ \A n \in 1..Len(closed) : closed[n].result # "open"
    BY DEF OrdersInv, Among
  <1> QED
    BY <1>1, <1>2 DEF AccountOpen, TypeInv

\* What a closed order may have brought.
LEMMA OutcomesAre == Outcomes \subseteq {"won", "lost", "even"}
  BY DEF Outcomes

\* An order in the history is the one that was open but for what it brought and when.
LEMMA CloseAsIs ==
    ASSUME NEW o \in Order, NEW outcome \in Outcomes, day \in Nat
    PROVE  LET p == CloseAs(o, outcome)
           IN  /\ p \in Order /\ p.ticket = o.ticket /\ p.at = o.at /\ p.day = o.day /\ p.type = o.type
               /\ p.result \in {"won", "lost", "even"} /\ p.result # "open"
               /\ mode \in BEILIModes => p.until = day
  <1> DEFINE until == IF mode \in MACD_DailyModes \cup BEILIModes \cup {"MultipleDay"} THEN day ELSE 0
             first == [o EXCEPT !.result = outcome]
             p == [first EXCEPT !.until = until]
  <1>1. CloseAs(o, outcome) = p
    BY DEF CloseAs
  <1>2. until \in Nat /\ outcome \in {"won", "lost", "even"}
    BY OutcomesAre
  <1> HIDE DEF until
  <1>3. /\ first \in Order /\ first.ticket = o.ticket /\ first.at = o.at /\ first.day = o.day
        /\ first.type = o.type /\ first.result = outcome
    BY <1>2 DEF Order
  <1> HIDE DEF first
  <1>4. /\ p \in Order /\ p.ticket = first.ticket /\ p.at = first.at /\ p.day = first.day
        /\ p.type = first.type /\ p.result = first.result /\ p.until = until
    BY <1>2, <1>3 DEF Order
  <1> HIDE DEF p
  <1>5. outcome # "open" /\ (mode \in BEILIModes => until = day)
    BY <1>2 DEF until
  <1> QED
    BY <1>1, <1>2, <1>3, <1>4, <1>5

\* The order p in the history is o.
Became(p, o) ==
    /\ p.ticket = o.ticket /\ p.at = o.at /\ p.day = o.day /\ p.type = o.type /\ p.result # "open"
    /\ mode \in BEILIModes => p.until = day

\* The last order of the history is one of those that ended, if any did.
LastEnded(after, ended) ==
    /\ ended = <<>> => after = closed
    /\ ended # <<>> => after # <<>> /\ \E o : Among(o, ended) /\ Became(after[Len(after)], o)

\* The history gains the orders that ended.
LEMMA ClosedGrows ==
    ASSUME NEW ended \in Seq(Order), NEW outcome \in [Tickets(ended) -> Outcomes], day \in Nat,
           closed \in Seq(Order)
    PROVE  LET after == closed \o [n \in DOMAIN ended |-> CloseAs(ended[n], outcome[ended[n].ticket])]
           IN  /\ after \in Seq(Order)
               /\ \A p : Among(p, after) => Among(p, closed) \/ \E o : Among(o, ended) /\ Became(p, o)
               /\ \A p : Among(p, closed) => Among(p, after)
               /\ \A o : Among(o, ended) => \E p : Among(p, after) /\ Became(p, o)
               /\ LastEnded(after, ended)
  <1> DEFINE As(n) == CloseAs(ended[n], outcome[ended[n].ticket])
             last == [n \in 1..Len(ended) |-> As(n)]
             after == closed \o last
  <1>1. DOMAIN ended = 1..Len(ended) /\ Len(ended) \in Nat
    OBVIOUS
  <1>2. ASSUME NEW n \in 1..Len(ended)
        PROVE  /\ As(n) \in Order /\ As(n).ticket = ended[n].ticket /\ As(n).at = ended[n].at
               /\ As(n).day = ended[n].day /\ As(n).type = ended[n].type /\ As(n).result # "open"
               /\ mode \in BEILIModes => As(n).until = day
    <2>1. ended[n] \in Order /\ ended[n].ticket \in Tickets(ended)
      BY <1>1 DEF Tickets
    <2>2. outcome[ended[n].ticket] \in Outcomes
      BY <2>1
    <2> QED
      BY <2>1, <2>2, CloseAsIs
  <1> HIDE DEF As
  <1>3. last \in Seq(Order) /\ Len(last) = Len(ended) /\ \A n \in 1..Len(ended) : last[n] = As(n)
    BY <1>1, <1>2
  <1>4. closed \o [n \in DOMAIN ended |-> CloseAs(ended[n], outcome[ended[n].ticket])] = after
    BY <1>1 DEF As
  <1> HIDE DEF last
  <1>8. LastEnded(after, ended)
    <2>1. CASE ended = <<>>
      <3>1. last = <<>>
        BY <1>3, <2>1
      <3> QED
        BY <2>1, <3>1 DEF LastEnded
    <2>2. CASE ended # <<>>
      <3> DEFINE k == Len(ended)
      <3>1. k \in Nat /\ k >= 1 /\ Len(closed) \in Nat
        BY <2>2
      <3>2. after # <<>> /\ Len(after) = Len(closed) + k /\ after[Len(closed) + k] = last[k]
        <4>1. closed \in Seq(Order) /\ last \in Seq(Order) /\ Len(last) = k /\ k >= 1 /\ k \in Nat
          BY <1>3, <3>1
        <4> HIDE DEF k
        <4>2. Len(after) = Len(closed) + k /\ after \in Seq(Order)
          BY <4>1
        <4>3. after[Len(closed) + k] = last[k]
          BY <4>1
        <4>4. after # <<>>
          <5>1. Len(<<>>) = 0
            OBVIOUS
          <5> QED
            BY <3>1, <4>1, <4>2, <5>1
        <4> QED
          BY <4>2, <4>3, <4>4
      <3>3. k \in 1..Len(ended) /\ Among(ended[k], ended)
        BY <3>1 DEF Among
      <3>4. Became(last[k], ended[k])
        BY <1>2, <1>3, <3>3 DEF Became
      <3> QED
        BY <2>2, <3>2, <3>3, <3>4 DEF LastEnded
    <2> QED
      BY <2>1, <2>2
  <1>5. after \in Seq(Order) /\ \A p : Among(p, after) <=> Among(p, closed) \/ Among(p, last)
    BY <1>3, AmongConcat
  <1> HIDE DEF after
  <1>6. ASSUME NEW p, Among(p, last)
        PROVE  \E o : Among(o, ended) /\ Became(p, o)
    <2>1. PICK n \in 1..Len(last) : last[n] = p
      BY <1>6 DEF Among
    <2>2. n \in 1..Len(ended) /\ p = As(n) /\ Among(ended[n], ended)
      BY <2>1, <1>3 DEF Among
    <2> QED
      BY <2>2, <1>2 DEF Became
  <1>7. ASSUME NEW o, Among(o, ended)
        PROVE  \E p : Among(p, last) /\ Became(p, o)
    <2>1. PICK n \in 1..Len(ended) : ended[n] = o
      BY <1>7 DEF Among
    <2>2. Among(As(n), last)
      BY <1>3 DEF Among
    <2> QED
      BY <2>1, <2>2, <1>2 DEF Became
  <1> QED
    BY <1>4, <1>5, <1>6, <1>7, <1>8

\* The orders asked to close, and the entries, are finitely many.
LEMMA FewAsked ==
    ASSUME NEW res \in Arrays, NEW orders \in Seq(Order)
    PROVE  IsFiniteSet(Walk(res, orders)) /\ IsFiniteSet(ToOpen(res)) /\ ToOpen(res) \subseteq 1..MaxOpenOrders
  <1>1. Tickets(orders) = {orders[n].ticket : n \in 1..Len(orders)} /\ Len(orders) \in Nat
    BY DEF Tickets
  <1>2. IsFiniteSet(1..Len(orders))
    BY <1>1, FS_Interval
  <1>3. IsFiniteSet(Tickets(orders))
    <2> DEFINE f == [n \in 1..Len(orders) |-> orders[n].ticket]
    <2>1. f \in Surjection(1..Len(orders), Tickets(orders))
      BY <1>1 DEF Surjection
    <2> QED
      BY <2>1, <1>2, FS_Surjection
  <1>4. IsFiniteSet(Walk(res, orders))
    BY <1>3, WalkCloses, FS_Subset
  <1>5. ToOpen(res) \subseteq 1..MaxOpenOrders
    BY DEF ToOpen, Arrays
  <1>6. IsFiniteSet(1..MaxOpenOrders)
    BY SizesType, FS_Interval
  <1>7. IsFiniteSet(ToOpen(res))
    BY <1>5, <1>6, FS_Subset
  <1> QED
    BY <1>4, <1>5, <1>7

\* What a bar does: the orders are walked over, its entries are sent, and what ends goes to the history.
\* When no call is refused all it asks to close is closed.
BarIs(res, done, closes) ==
    /\ Sending(done, res, closes) /\ open' = done.orders /\ sent' = done.sent
    /\ closed' \in Seq(Order)
    /\ \A p : Among(p, closed') => Among(p, closed) \/ \E o : Among(o, done.ended) /\ Became(p, o)
    /\ \A p : Among(p, closed) => Among(p, closed')
    /\ \A o : Among(o, done.ended) => \E p : Among(p, closed') /\ Became(p, o)
    /\ LastEnded(closed', done.ended)
    /\ faults' \in Nat /\ faults <= faults'
    /\ faults' = faults => closes = Walk(res, open)
    /\ ToOpen(res) = {} => done.sent = sent
    /\ \A a \in 0..MaxOpenOrders : \A b \in a..MaxOpenOrders :
          ToOpen(res) \subseteq (a + 1)..b => done.sent <= sent + (b - a)
    /\ Len(done.orders) <= Len(open) + (done.sent - sent)

\* c_processOrders, as the facts about a bar that the invariants need.
LEMMA ProcessIs ==
    ASSUME TypeInv, OrdersInv, NEW res \in Arrays, NEW under, NEW withTp, NEW zone \in Nat,
           c_processOrders(res, under, withTp, zone)
    PROVE  \E done, closes : BarIs(res, done, closes)
  <1> DEFINE entries == ToOpen(res)
             tps == {r \in entries : Cardinality({q \in entries : q <= r}) \in withTp}
             Walked(stuck) == om_handleOpenOrders([res |-> res, orders |-> open, ended |-> <<>>,
                     sent |-> sent], stuck)
             Done(stuck, accepted, tied) == OpenOrders(Walked(stuck), accepted, tps, zone, tied, stuck)
             refused(stuck, accepted) == Cardinality(stuck) + Cardinality(entries \ accepted)
  <1>1. PICK stuck \in SUBSET Walk(res, open), accepted \in SUBSET entries, tied \in BOOLEAN :
             \E outcome \in [Tickets(Done(stuck, accepted, tied).ended) -> Outcomes] :
                /\ closed' = closed \o [n \in DOMAIN Done(stuck, accepted, tied).ended |->
                                          CloseAs(Done(stuck, accepted, tied).ended[n],
                                                  outcome[Done(stuck, accepted, tied).ended[n].ticket])]
                /\ open' = Done(stuck, accepted, tied).orders
                /\ sent' = Done(stuck, accepted, tied).sent
                /\ faults' = faults + refused(stuck, accepted)
    <2> DEFINE All(stuck, accepted, tied) ==
                   LET done == Done(stuck, accepted, tied)
                       away == refused(stuck, accepted)
                   IN  /\ sent + Cardinality(accepted) <= MaxOrders[mode]
                       /\ faults + away <= MaxFaults
                       /\ \E outcome \in [Tickets(done.ended) -> Outcomes] :
                             /\ \A t \in Tickets(done.ended) \cap under : outcome[t] = "lost"
                             /\ closed' = closed \o [n \in DOMAIN done.ended |->
                                                       CloseAs(done.ended[n], outcome[done.ended[n].ticket])]
                       /\ open' = done.orders
                       /\ sent' = done.sent
                       /\ faults' = faults + away
                       /\ ran' = (mode \notin AutoBBSModes \/ (phase \in {"one", "two", "late"} /\ away = 0))
               Does(stuck, accepted, tied) ==
                   \E outcome \in [Tickets(Done(stuck, accepted, tied).ended) -> Outcomes] :
                      /\ closed' = closed \o [n \in DOMAIN Done(stuck, accepted, tied).ended |->
                                                CloseAs(Done(stuck, accepted, tied).ended[n],
                                                        outcome[Done(stuck, accepted, tied).ended[n].ticket])]
                      /\ open' = Done(stuck, accepted, tied).orders
                      /\ sent' = Done(stuck, accepted, tied).sent
                      /\ faults' = faults + refused(stuck, accepted)
    <2>3. \E stuck \in IF faults < MaxFaults THEN SUBSET Walk(res, open)
            ELSE {{}}, accepted \in SUBSET entries :
          \E tied \in IF mode \in AutoBBSModes /\ Cardinality(accepted) > 1 THEN BOOLEAN ELSE {FALSE} :
             All(stuck, accepted, tied)
      BY DEF c_processOrders
    <2>5. \A stuck, accepted, tied : All(stuck, accepted, tied) => Does(stuck, accepted, tied)
      <3> TAKE stuck, accepted, tied
      <3> DEFINE done == Done(stuck, accepted, tied)
                 away == refused(stuck, accepted)
      <3> HIDE DEF done, away
      <3> HAVE All(stuck, accepted, tied)
      <3>1. /\ \E outcome \in [Tickets(done.ended) -> Outcomes] :
                  closed' = closed \o [n \in DOMAIN done.ended |->
                                          CloseAs(done.ended[n], outcome[done.ended[n].ticket])]
            /\ open' = done.orders /\ sent' = done.sent /\ faults' = faults + away
        BY DEF done, away
      <3>2. \E outcome \in [Tickets(done.ended) -> Outcomes] :
                /\ closed' = closed \o [n \in DOMAIN done.ended |->
                                          CloseAs(done.ended[n], outcome[done.ended[n].ticket])]
                /\ open' = done.orders /\ sent' = done.sent /\ faults' = faults + away
        BY <3>1
      <3> QED
        BY <3>2 DEF done, away
    <2> HIDE DEF tps, entries, Does, All
    <2>1. (IF faults < MaxFaults THEN SUBSET Walk(res, open) ELSE {{}}) \subseteq SUBSET Walk(res, open)
      OBVIOUS
    <2>2. \A accepted : (IF mode \in AutoBBSModes /\ Cardinality(accepted) > 1 THEN BOOLEAN ELSE {FALSE})
                          \subseteq BOOLEAN
      OBVIOUS
    <2>4. \E stuck \in SUBSET Walk(res, open), accepted \in SUBSET entries, tied \in BOOLEAN :
             Does(stuck, accepted, tied)
      BY <2>1, <2>2, <2>3, <2>5
    <2> QED
      BY <2>4 DEF Does
  <1> DEFINE done == Done(stuck, accepted, tied)
             closes == Walk(res, open) \ stuck
  <1>2. PICK outcome \in [Tickets(done.ended) -> Outcomes] :
             /\ closed' = closed \o [n \in DOMAIN done.ended |-> CloseAs(done.ended[n],
                     outcome[done.ended[n].ticket])]
             /\ open' = done.orders /\ sent' = done.sent
             /\ faults' = faults + refused(stuck, accepted)
    BY <1>1
  <1>3. Account /\ IsFiniteSet(Walk(res, open)) /\ IsFiniteSet(entries) /\ entries \subseteq 1..MaxOpenOrders
        /\ faults \in Nat /\ MaxOpenOrders \in Nat
    BY AccountIs, FewAsked, SizesType DEF TypeInv
  <1> HIDE DEF tps, entries
  <1>4. ASSUME NEW a \in 0..MaxOpenOrders, NEW b \in a..MaxOpenOrders, entries \subseteq (a + 1)..b
        PROVE  /\ Sending(done, res, closes)
               /\ done.sent <= sent + (b - a) /\ Len(done.orders) <= Len(open) + (done.sent - sent)
               /\ accepted = {} => done.sent = sent
    <2>1. accepted \subseteq (a + 1)..b /\ accepted \in SUBSET ToOpen(res)
      BY <1>4 DEF entries
    <2> DEFINE walked == Walked(stuck)
    <2>2. walked = om_handleOpenOrders([res |-> res, orders |-> open, ended |-> <<>>, sent |-> sent], stuck)
      OBVIOUS
    <2>3. done = OpenOrders(walked, accepted, tps, zone, tied, stuck)
      OBVIOUS
    <2> HIDE DEF done, walked
    <2>4. AllSent(done, res, Walk(res, open) \ stuck, accepted, a, b)
      BY <2>1, <2>2, <2>3, <1>3, SentIs
    <2> QED
      BY <2>4 DEF AllSent
  <1>5. /\ Sending(done, res, closes) /\ Len(done.orders) <= Len(open) + (done.sent - sent)
        /\ accepted = {} => done.sent = sent
    <2>1. 0 \in 0..MaxOpenOrders /\ MaxOpenOrders \in 0..MaxOpenOrders
            /\ entries \subseteq (0 + 1)..MaxOpenOrders
      BY <1>3
    <2> HIDE DEF done, closes
    <2> QED
      BY <2>1, <1>4
  <1>6. Cardinality(stuck) \in Nat /\ Cardinality(entries \ accepted) \in Nat /\ (Cardinality(stuck) = 0
          <=> stuck = {})
    <2>1. IsFiniteSet(stuck) /\ IsFiniteSet(entries \ accepted)
      BY <1>3, FS_Subset
    <2> QED
      BY <2>1, FS_CardinalityType, FS_EmptySet
  <1>7. faults' \in Nat /\ faults <= faults' /\ (faults' = faults => stuck = {})
    BY <1>2, <1>3, <1>6
  <1>8. faults' = faults => closes = Walk(res, open)
    BY <1>7
  <1>9. /\ closed' \in Seq(Order)
        /\ \A p : Among(p, closed') => Among(p, closed) \/ \E o : Among(o, done.ended) /\ Became(p, o)
        /\ \A p : Among(p, closed) => Among(p, closed')
        /\ \A o : Among(o, done.ended) => \E p : Among(p, closed') /\ Became(p, o)
        /\ LastEnded(closed', done.ended)
    <2> DEFINE ended == done.ended
    <2>1. ended \in Seq(Order)
      BY <1>5 DEF Sending, States
    <2>2. outcome \in [Tickets(ended) -> Outcomes] /\ day \in Nat /\ closed \in Seq(Order)
      BY DEF TypeInv
    <2>3. closed' = closed \o [n \in DOMAIN ended |-> CloseAs(ended[n], outcome[ended[n].ticket])]
      BY <1>2
    <2> HIDE DEF ended
    <2>4. /\ closed' \in Seq(Order)
          /\ \A p : Among(p, closed') => Among(p, closed) \/ \E o : Among(o, ended) /\ Became(p, o)
          /\ \A p : Among(p, closed) => Among(p, closed')
          /\ \A o : Among(o, ended) => \E p : Among(p, closed') /\ Became(p, o)
          /\ LastEnded(closed', ended)
      <3> DEFINE after == closed \o [n \in DOMAIN ended |-> CloseAs(ended[n], outcome[ended[n].ticket])]
      <3>1. /\ after \in Seq(Order)
            /\ \A p : Among(p, after) => Among(p, closed) \/ \E o : Among(o, ended) /\ Became(p, o)
            /\ \A p : Among(p, closed) => Among(p, after)
            /\ \A o : Among(o, ended) => \E p : Among(p, after) /\ Became(p, o)
            /\ LastEnded(after, ended)
        BY <2>1, <2>2, ClosedGrows
      <3>2. closed' = after
        BY <2>3
      <3> HIDE DEF after
      <3> QED
        BY <3>1, <3>2
    <2> QED
      BY <2>4 DEF ended
  <1>10. ToOpen(res) = {} => done.sent = sent
    <2>1. ToOpen(res) = {} => accepted = {}
      BY DEF entries
    <2> QED
      BY <2>1, <1>5
  <1>11. \A a \in 0..MaxOpenOrders : \A b \in a..MaxOpenOrders :
             ToOpen(res) \subseteq (a + 1)..b => done.sent <= sent + (b - a)
    <2> HIDE DEF done
    <2> QED
      BY <1>4 DEF entries
  <1> HIDE DEF done, closes
  <1>12. BarIs(res, done, closes)
    BY <1>2, <1>5, <1>7, <1>8, <1>9, <1>10, <1>11 DEF BarIs
  <1> QED
    BY <1>12

-----------------------------------------------------------------------------
(* What is kept on any bar, and the bars that turn to a side. *)

\* A bar keeps the types and the order of the tickets.
LEMMA BarKeeps ==
    ASSUME TypeInv, OrdersInv, NEW res \in Arrays, NEW done, NEW closes, BarIs(res, done, closes), day' = day
    PROVE  TypeInv' /\ OrdersInv'
  <1>1. /\ done \in States /\ sent <= done.sent /\ Ascending(done.orders)
        /\ \A o : Among(o, done.orders) \/ Among(o, done.ended) => Among(o, open) \/ Fresh(o, res, done.sent)
        /\ open' = done.orders /\ sent' = done.sent /\ closed' \in Seq(Order)
        /\ \A p : Among(p, closed') => Among(p, closed) \/ \E o : Among(o, done.ended) /\ Became(p, o)
        /\ faults' \in Nat
    BY DEF BarIs, Sending
  <1>2. /\ done.orders \in Seq(Order) /\ done.ended \in Seq(Order) /\ done.sent \in Nat /\ sent \in Nat
        /\ open \in Seq(Order) /\ closed \in Seq(Order)
    BY <1>1 DEF States, TypeInv
  <1>3. TypeInv'
    BY <1>1, <1>2 DEF TypeInv
  <1>4. ASSUME NEW o, o \in Order, Among(o, open) \/ Among(o, closed) \/ Fresh(o, res, done.sent)
        PROVE  o.ticket <= done.sent /\ o.at <= done.sent
    <2>1. o.ticket \in Nat /\ o.at \in Nat
      BY <1>4 DEF Order
    <2>2. CASE Among(o, open) \/ Among(o, closed)
      <3>1. o.ticket <= sent /\ o.at <= sent
        BY <2>2 DEF OrdersInv
      <3> QED
        BY <3>1, <2>1, <1>1, <1>2
    <2>3. CASE Fresh(o, res, done.sent)
      <3>1. o.ticket \in (sent + 1)..done.sent /\ o.at \in (sent + 1)..done.sent
        BY <2>3 DEF Fresh
      <3> QED
        BY <3>1, <1>2
    <2> QED
      BY <2>2, <2>3, <1>4
  <1>5. ASSUME NEW o, Among(o, done.orders) PROVE o.ticket <= done.sent /\ o.at <= done.sent
          /\ o.result = "open"
    <2>1. o \in Order
      BY <1>2, <1>5 DEF Among
    <2>2. Among(o, open) \/ Fresh(o, res, done.sent)
      BY <1>1, <1>5
    <2>3. o.result = "open"
      BY <2>2 DEF OrdersInv, Fresh
    <2> QED
      BY <2>1, <2>2, <2>3, <1>4
  <1>6. ASSUME NEW p, Among(p, closed') PROVE p.ticket <= done.sent /\ p.at <= done.sent /\ p.result # "open"
    <2>1. CASE Among(p, closed)
      <3>1. p \in Order
        BY <1>2, <2>1 DEF Among
      <3>2. p.result # "open"
        BY <2>1 DEF OrdersInv
      <3> QED
        BY <3>1, <3>2, <2>1, <1>4
    <2>2. CASE \E o : Among(o, done.ended) /\ Became(p, o)
      <3>1. PICK o : Among(o, done.ended) /\ Became(p, o)
        BY <2>2
      <3>2. o \in Order /\ (Among(o, open) \/ Fresh(o, res, done.sent))
        <4>1. Among(o, done.ended)
          BY <3>1
        <4>2. o \in Order
          BY <1>2, <4>1 DEF Among
        <4> QED
          BY <4>1, <4>2, <1>1
      <3>3. o.ticket <= done.sent /\ o.at <= done.sent
        BY <3>2, <1>4
      <3> QED
        BY <3>1, <3>3 DEF Became
    <2> QED
      BY <2>1, <2>2, <1>1, <1>6
  <1>7. OrdersInv'
    BY <1>1, <1>5, <1>6 DEF OrdersInv
  <1> QED
    BY <1>3, <1>7

\* The entries are all on a side, and the orders shown that are on the other are asked to close.
TurnsTo(res, side) ==
    /\ \A r \in 1..MaxOpenOrders : \A type \in Sides : <<"OPEN", type>> \in res[r].signals => type = side
    /\ Len(open) <= OrderInfoSize =>
          \A o : Among(o, open) /\ o.type # side => o.ticket \in Walk(res, open)

\* When the results turn to a side, no call is refused and all orders are shown, a bar leaves
\* orders of that side only.
LEMMA SidedBar ==
    ASSUME TypeInv, OrdersInv, NEW res \in Arrays, NEW done, NEW closes, BarIs(res, done, closes),
           faults' = faults, Len(open) <= OrderInfoSize, NEW side, TurnsTo(res, side)
    PROVE  \A o : Among(o, open') => o.type = side
  <1> SUFFICES ASSUME NEW o, Among(o, open') PROVE o.type = side
    OBVIOUS
  <1>1. (Among(o, open) /\ o.ticket \notin Walk(res, open)) \/ Fresh(o, res, done.sent)
    BY DEF BarIs, Sending
  <1>2. CASE Among(o, open) /\ o.ticket \notin Walk(res, open)
    BY <1>2 DEF TurnsTo
  <1>3. CASE Fresh(o, res, done.sent)
    <2>1. o.type \in Sides /\ \E q \in 1..MaxOpenOrders : <<"OPEN", o.type>> \in res[q].signals
      BY <1>3 DEF Fresh, Order
    <2> QED
      BY <2>1 DEF TurnsTo
  <1> QED
    BY <1>1, <1>2, <1>3

\* A bar without an entry sends none and adds none.
LEMMA QuietBar ==
    ASSUME TypeInv, NEW res \in Arrays, NEW done, NEW closes, BarIs(res, done, closes), ToOpen(res) = {}
    PROVE  /\ sent' = sent /\ \A o : Among(o, open') => Among(o, open)
           /\ \A o : Among(o, done.ended) => Among(o, open)
           /\ Len(open') <= Len(open)
  <1>1. done.sent = sent /\ sent' = sent /\ open' = done.orders
    BY DEF BarIs
  <1>2. sent \in Nat /\ (sent + 1)..sent = {} /\ Len(open) \in Nat
    BY DEF TypeInv
  <1>3. ~\E o : Fresh(o, res, sent)
    BY <1>2 DEF Fresh
  <1>4. /\ \A o : Among(o, done.orders) => Among(o, open) \/ Fresh(o, res, done.sent)
        /\ \A o : Among(o, done.ended) => Among(o, open) \/ Fresh(o, res, done.sent)
    BY DEF BarIs, Sending
  <1>5. Len(done.orders) <= Len(open) + (sent - sent)
    BY <1>1 DEF BarIs
  <1>6. Len(done.orders) <= Len(open)
    BY <1>5, <1>2
  <1> QED
    BY <1>1, <1>3, <1>4, <1>6

\* An order a result asks to close is walked over, when the results up to there are all of that kind.
LEMMA AsksWalked ==
    ASSUME TypeInv, OrdersInv, NEW res \in Arrays, NEW m \in 0..MaxOpenOrders, NEW asks,
           \A r \in 1..m : \E ask \in asks : res[r] = CloseOf(ask),
           \A ask \in asks : \E p : Among(p, open) /\ ask = <<p.type, p.ticket>>,
           NEW o, Among(o, open), \E r \in 1..m : res[r] = CloseOf(<<o.type, o.ticket>>)
    PROVE  o.ticket \in Walk(res, open)
  <1>1. PICK n \in 1..Len(open) : open[n] = o
    BY DEF Among
  <1>2. PICK r \in 1..m : res[r] = CloseOf(<<o.type, o.ticket>>)
    OBVIOUS
  <1>3. r \in 1..MaxOpenOrders /\ MaxOpenOrders \in Nat
    BY SizesType
  <1>4. r \in Matching(res, o)
    <2>1. res[r].ticket = o.ticket
      BY <1>2 DEF CloseOf
    <2> QED
      BY <2>1, <1>3, MatchingIs
  <1> DEFINE q == Min(Matching(res, o))
  <1>5. q \in Matching(res, o) /\ q \in 1..MaxOpenOrders /\ q <= r
    BY <1>3, <1>4, MatchingIs
  <1>6. res[q].ticket \in {o.ticket, AllOrderTickets}
    BY <1>5, MatchingIs
  <1> HIDE DEF q
  <1>7. q \in 1..m
    BY <1>3, <1>5
  <1>8. PICK ask \in asks : res[q] = CloseOf(ask)
    BY <1>7
  <1>9. PICK p : Among(p, open) /\ ask = <<p.type, p.ticket>>
    BY <1>8
  <1>10. PICK l \in 1..Len(open) : open[l] = p
    BY <1>9 DEF Among
  <1>11. open[l].ticket \in Nat /\ open[n].ticket \in Nat
    <2>1. open[l] \in Order /\ open[n] \in Order
      BY DEF TypeInv
    <2> QED
      BY <2>1 DEF Order
  <1>12. p.ticket = o.ticket
    <2>1. res[q].ticket = p.ticket
      BY <1>8, <1>9 DEF CloseOf
    <2>2. p.ticket # AllOrderTickets
      BY <1>10, <1>11 DEF AllOrderTickets
    <2> QED
      BY <2>1, <2>2, <1>6
  <1>13. l = n
    <2>1. Len(open) \in Nat /\ \A i, j \in 1..Len(open) : i < j => open[i].ticket < open[j].ticket
      BY DEF TypeInv, OrdersInv, Ascending
    <2>2. l < n \/ n < l \/ l = n
      BY <2>1
    <2> QED
      BY <2>1, <2>2, <1>1, <1>10, <1>11, <1>12
  <1>14. p = o
    BY <1>1, <1>10, <1>13
  <1>15. res[q].signals = {<<"CLOSE", o.type>>}
    BY <1>8, <1>9, <1>14 DEF CloseOf
  <1>16. IsAsked(res, o)
    BY <1>4, <1>15 DEF IsAsked, q
  <1> QED
    BY <1>1, <1>16, WalkCloses DEF TypeInv

\* An array with exits and then entries turns to the side of the entries, if it asks to close the orders
\* on the other; there is one order with a ticket.
LEMMA EnteredTurns ==
    ASSUME TypeInv, OrdersInv, NEW base, NEW m, NEW asks, AskedFor(base, m, asks), NEW side \in Sides,
           NEW res, NEW k, Entered(res, base, m, k, side), m < MaxOpenOrders \/ ToOpen(res) # {},
           \A ask \in asks : \E o : Among(o, open) /\ ask = <<o.type, o.ticket>>,
           Len(open) <= OrderInfoSize =>
              \A o : Among(o, open) /\ o.type # side => <<o.type, o.ticket>> \in asks
    PROVE  TurnsTo(res, side)
  <1>1. /\ res \in Arrays /\ m \in 0..MaxOpenOrders /\ k \in m..MaxOpenOrders /\ MaxOpenOrders \in Nat
        /\ \A r \in 1..m : res[r] = base[r]
        /\ \A r \in (m + 1)..k : res[r] = EntryOf(side)
        /\ \A r \in (k + 1)..MaxOpenOrders : res[r] = Clear
    BY SizesType DEF Entered
  <1>2. /\ \A r \in 1..m : \E ask \in asks : base[r] = CloseOf(ask)
        /\ m < MaxOpenOrders => \A ask \in asks : \E r \in 1..m : base[r] = CloseOf(ask)
    BY DEF AskedFor
  <1>3. ASSUME NEW r \in 1..MaxOpenOrders
        PROVE  \/ r \in 1..m /\ \E ask \in asks : res[r] = CloseOf(ask)
               \/ r \in (m + 1)..k /\ res[r] = EntryOf(side)
               \/ res[r] = Clear
    <2>1. r \in 1..m \/ r \in (m + 1)..k \/ r \in (k + 1)..MaxOpenOrders
      BY <1>1
    <2> QED
      BY <2>1, <1>1, <1>2
  <1>4. ASSUME NEW r \in 1..MaxOpenOrders, NEW type \in Sides, <<"OPEN", type>> \in res[r].signals
        PROVE  type = side /\ r \in (m + 1)..k
    <2>1. \A ask : <<"OPEN", type>> \notin CloseOf(ask).signals
      BY DEF CloseOf
    <2>2. <<"OPEN", type>> \notin Clear.signals
      BY DEF Clear
    <2>3. <<"OPEN", type>> \in EntryOf(side).signals => type = side
      BY DEF EntryOf
    <2> QED
      BY <2>1, <2>2, <2>3, <1>3, <1>4
  <1>5. m < MaxOpenOrders
    <2> SUFFICES ASSUME ToOpen(res) # {} PROVE m < MaxOpenOrders
      OBVIOUS
    <2>1. PICK r \in 1..MaxOpenOrders, type \in Sides : <<"OPEN", type>> \in res[r].signals
      BY <1>1 DEF ToOpen, Arrays
    <2>2. r \in (m + 1)..k
      BY <2>1, <1>4
    <2> QED
      BY <2>2, <1>1
  <1>6. ASSUME NEW o, Among(o, open), <<o.type, o.ticket>> \in asks
        PROVE  o.ticket \in Walk(res, open)
    <2>1. \E r \in 1..m : res[r] = CloseOf(<<o.type, o.ticket>>)
      BY <1>1, <1>2, <1>5, <1>6
    <2>2. \A r \in 1..m : \E ask \in asks : res[r] = CloseOf(ask)
      BY <1>1, <1>2
    <2>3. res \in Arrays /\ m \in 0..MaxOpenOrders
      BY <1>1
    <2> QED
      BY <1>6, <2>1, <2>2, <2>3, AsksWalked
  <1>7. Len(open) <= OrderInfoSize => \A o : Among(o, open) /\ o.type # side => o.ticket \in Walk(res, open)
    BY <1>6
  <1> QED
    BY <1>4, <1>7 DEF TurnsTo

\* So does one with exits and no entries, if all of them fit.
LEMMA QuietTurns ==
    ASSUME TypeInv, OrdersInv, NEW base, NEW m, NEW asks, AskedFor(base, m, asks), m < MaxOpenOrders,
           NEW side, NEW res \in Arrays, \A r \in 1..m : res[r] = base[r], ToOpen(res) = {},
           \A ask \in asks : \E o : Among(o, open) /\ ask = <<o.type, o.ticket>>,
           Len(open) <= OrderInfoSize =>
              \A o : Among(o, open) /\ o.type # side => <<o.type, o.ticket>> \in asks
    PROVE  TurnsTo(res, side)
  <1>1. /\ m \in 0..MaxOpenOrders /\ \A r \in 1..m : \E ask \in asks : res[r] = CloseOf(ask)
        /\ \A ask \in asks : \E r \in 1..m : res[r] = CloseOf(ask)
    BY DEF AskedFor
  <1>2. ASSUME NEW o, Among(o, open), <<o.type, o.ticket>> \in asks PROVE o.ticket \in Walk(res, open)
    <2>1. \E r \in 1..m : res[r] = CloseOf(<<o.type, o.ticket>>)
      BY <1>1, <1>2
    <2> QED
      BY <1>1, <1>2, <2>1, AsksWalked
  <1>3. \A r \in 1..MaxOpenOrders : \A type \in Sides : <<"OPEN", type>> \notin res[r].signals
    BY DEF ToOpen, Arrays
  <1> QED
    BY <1>2, <1>3 DEF TurnsTo

\* And one that is full of exits of the other side: an order left without a result is handled with the
\* first one, or that of the order before.
LEMMA FullTurns ==
    ASSUME TypeInv, NEW side, NEW other, \A type \in Sides : type # side => type = other, NEW res \in Arrays,
           \A r \in 1..MaxOpenOrders : res[r].signals = {<<"CLOSE", other>>}
    PROVE  TurnsTo(res, side)
  <1>1. ASSUME NEW o, Among(o, open), o.type # side PROVE o.ticket \in Walk(res, open)
    <2>1. PICK n \in 1..Len(open) : open[n] = o
      BY <1>1 DEF Among
    <2>4. o \in Order
      BY <2>1 DEF TypeInv
    <2>2. o.type = other
      BY <1>1, <2>4 DEF Order
    <2>3. IsAsked(res, o)
      BY <2>2 DEF IsAsked
    <2> QED
      BY <2>1, <2>3, WalkCloses DEF TypeInv
  <1>2. \A r \in 1..MaxOpenOrders : \A type \in Sides : <<"OPEN", type>> \notin res[r].signals
    OBVIOUS
  <1> QED
    BY <1>1, <1>2 DEF TurnsTo

-----------------------------------------------------------------------------
(* The results a decision fills in. *)

Kinds == {QuietResults, Results}

\* Closing and moving stops keeps the type of the results, and whether they only close and update.
LEMMA FillStays ==
    ASSUME NEW R \in Kinds, NEW res \in [1..MaxOpenOrders -> R], NEW held \in Seq(Order), NEW side \in Sides,
           NEW named
    PROVE  /\ closeNamed(res, held, named, side) \in [1..MaxOpenOrders -> R]
           /\ closeAll(res, held, side) \in [1..MaxOpenOrders -> R]
           /\ modifyAll(res, held, side, "own") \in [1..MaxOpenOrders -> R]
  <1> DEFINE V == [1..MaxOpenOrders -> R]
  <1>1. \A n \in 1..Len(held) : held[n].ticket \in Int
    <2> TAKE n \in 1..Len(held)
    <2>1. held[n] \in Order
      OBVIOUS
    <2> QED
      BY <2>1 DEF Order
  <1>2. \A x \in V : \A n \in 1..Len(held) : closeEasy(x, side, held[n].ticket) \in V
    BY <1>1, EasyStays DEF Kinds
  <1>3. \A x \in V : \A n \in 1..Len(held) : modifyTradeEasy(x, side, held[n].ticket, "own") \in V
    BY <1>1, EasyStays DEF Kinds
  <1>0. res \in V /\ Len(held) \in Nat
    OBVIOUS
  <1> HIDE DEF V
  <1>4. \A set : closeNamed(res, held, set, side) \in V
    <2> TAKE set
    <2>1. PICK f \in [0..Len(held) -> V] : ClosesBy(f, res, held, set, side)
      BY <1>0, <1>2, ClosesBuilt
    <2>2. f[Len(held)] \in V
      BY <1>0
    <2> QED
      BY <2>1, <2>2 DEF ClosesBy
  <1>5. closeAll(res, held, side) \in V
    BY <1>4 DEF closeAll
  <1>6. modifyAll(res, held, side, "own") \in V
    <2>1. PICK f \in [0..Len(held) -> V] : ModifiesBy(f, res, held, side, "own")
      BY <1>0, <1>3, ModifiesBuilt
    <2>2. f[Len(held)] \in V
      BY <1>0
    <2> QED
      BY <2>1, <2>2 DEF ModifiesBy
  <1> QED
    BY <1>4, <1>5, <1>6 DEF V

\* openEach keeps the type of the results.
LEMMA openEachStays ==
    ASSUME NEW res \in Arrays, NEW side \in Sides, NEW orders \in Nat
    PROVE  openEach(res, side, orders) \in Arrays
  <1>1. \A x \in Arrays : openSingle(x, side, "own") \in Arrays
    <2>1. 0 \in Int
      OBVIOUS
    <2> QED
      BY <2>1, EasyStays DEF Arrays
  <1>2. PICK f \in [0..orders -> Arrays] : EntersBy(f, res, side, orders)
    BY <1>1, EntersBuilt
  <1>3. f[orders] \in Arrays
    OBVIOUS
  <1> QED
    BY <1>2, <1>3 DEF EntersBy

\* Without an order there is nothing to close.
LEMMA NothingToClose ==
    ASSUME NEW res, NEW named, NEW side
    PROVE  closeNamed(res, <<>>, named, side) = res /\ closeAll(res, <<>>, side) = res
  <1>1. \A set : closeNamed(res, <<>>, set, side) = res
    <2> TAKE set
    <2>1. <<>> \in Seq({}) /\ Len(<<>>) = 0 /\ res \in {res}
      OBVIOUS
    <2>2. \A x \in {res} : \A m \in 1..Len(<<>>) : closeEasy(x, side, <<>>[m].ticket) \in {res}
      BY <2>1
    <2>3. PICK f \in [0..Len(<<>>) -> {res}] : ClosesBy(f, res, <<>>, set, side)
      BY <2>1, <2>2, ClosesBuilt
    <2> QED
      BY <2>1, <2>3 DEF ClosesBy
  <1> QED
    BY <1>1 DEF closeAll

ClearArray == clearStrategyResults(MaxOpenOrders)

\* The cleared results open nothing.
LEMMA ClearIsQuiet == ClearArray \in QuietArrays
  <1>1. ClearArray = [r \in 1..MaxOpenOrders |-> Clear]
    BY DEF ClearArray, clearStrategyResults, Clear
  <1>2. Clear \in QuietResults
    BY DEF Clear, QuietResults, Stops, AllOrderTickets
  <1> QED
    BY <1>1, <1>2 DEF QuietArrays

\* The parts of a decision, as far as the results need them.
IsDecision(d) ==
    /\ d = [trend |-> d.trend, enter |-> d.enter, split |-> d.split, exit |-> d.exit, named |-> d.named]
    /\ d.trend \in Sides \cup {"none"} /\ d.split \subseteq Seq(BOOLEAN)

\* What a decision asks to close: the named orders and, with an exit, those of a side.
NamedFirst(d, held) == closeNamed(closeNamed(ClearArray, held, d.named, "BUY"), held, d.named, "SELL")
ExitSide(d, held, res, side) == IF d.exit \in {side, "ALL"} THEN closeAll(res, held, side) ELSE res
Exited(d, held, res) == ExitSide(d, held, ExitSide(d, held, res, "SELL"), "BUY")

\* The exits of a decision keep the type of the results.
LEMMA ExitedStays ==
    ASSUME NEW R \in Kinds, NEW res \in [1..MaxOpenOrders -> R], NEW held \in Seq(Order), NEW d
    PROVE  Exited(d, held, res) \in [1..MaxOpenOrders -> R]
  <1>1. "SELL" \in Sides /\ "BUY" \in Sides
    BY DEF Sides
  <1> DEFINE first == ExitSide(d, held, res, "SELL")
  <1>2. first \in [1..MaxOpenOrders -> R]
    BY <1>1, FillStays DEF ExitSide
  <1> HIDE DEF first
  <1>3. ExitSide(d, held, first, "BUY") \in [1..MaxOpenOrders -> R]
    BY <1>1, <1>2, FillStays DEF ExitSide
  <1> QED
    BY <1>3 DEF Exited, first

\* What a mode closes by ticket comes first, and asks for orders that are held.
LEMMA NamedFirstIs ==
    ASSUME NEW held \in Seq(Order), NEW d
    PROVE  /\ NamedFirst(d, held) \in QuietArrays
           /\ \E m, asks : /\ AskedFor(NamedFirst(d, held), m, asks)
                           /\ \A ask \in asks : ask \in d.named
                                   /\ \E n \in 1..Len(held) : ask[2] = held[n].ticket
  <1>1. "SELL" \in Sides /\ "BUY" \in Sides /\ QuietResults \in Kinds
    BY DEF Sides, Kinds
  <1> DEFINE first == closeNamed(ClearArray, held, d.named, "BUY")
             second == closeNamed(first, held, d.named, "SELL")
             named == d.named
  <1>2. first \in QuietArrays
    BY <1>1, ClearIsQuiet, FillStays DEF QuietArrays
  <1>3. PICK k : AskedFor(first, k, {} \cup NamedAsks(held, d.named, "BUY", Len(held)))
    BY <1>1, ClearAsks, closeNamedAsks DEF ClearArray
  <1> HIDE DEF first
  <1>4. second \in QuietArrays
    BY <1>1, <1>2, FillStays DEF QuietArrays
  <1> DEFINE buys == NamedAsks(held, d.named, "BUY", Len(held))
             sells == NamedAsks(held, d.named, "SELL", Len(held))
  <1>5. AskedFor(first, k, buys)
    BY <1>3
  <1>6. \A ask \in buys \cup sells : ask \in d.named /\ \E n \in 1..Len(held) : ask[2] = held[n].ticket
    <2>1. ASSUME NEW type, NEW ask \in NamedAsks(held, d.named, type, Len(held))
          PROVE  ask \in d.named /\ \E n \in 1..Len(held) : ask[2] = held[n].ticket
      <3>1. PICK n \in 1..Len(held) : ask = <<type, held[n].ticket>> /\ <<type, held[n].ticket>> \in d.named
        BY <2>1 DEF NamedAsks
      <3> QED
        BY <3>1
    <2> QED
      BY <2>1
  <1> HIDE DEF buys, sells
  <1>7. PICK m : AskedFor(second, m, buys \cup sells)
    BY <1>1, <1>5, closeNamedAsks DEF sells
  <1> HIDE DEF second
  <1>8. \E n, asks : /\ AskedFor(second, n, asks)
                     /\ \A ask \in asks : ask \in d.named /\ \E j \in 1..Len(held) : ask[2] = held[j].ticket
    BY <1>6, <1>7
  <1> QED
    BY <1>4, <1>8 DEF NamedFirst, first, second

\* The decision's results by its cases.
LEMMA FilledIs ==
    ASSUME NEW d, NEW shown, NEW parts
    PROVE  LET held == ShownOpen(shown)
               named == NamedFirst(d, held)
               res == FilledResults(d, shown, parts)
           IN  /\ d.trend = "none" => res = Exited(d, held, named)
               /\ d.trend # "none" /\ d.enter =>
                     res = IF mode \in EntersFirst THEN Exited(d, held, openEach(named, d.trend, Len(parts)))
                           ELSE openEach(Exited(d, held, named), d.trend, Len(parts))
               /\ d.trend # "none" /\ ~d.enter =>
                     \/ res = Exited(d, held, named)
                     \/ res = modifyAll(Exited(d, held, named), held, d.trend, "own")
  <1> DEFINE held == ShownOpen(shown)
             named == NamedFirst(d, held)
  <1>1. FilledResults(d, shown, parts) =
           CASE d.trend = "none" -> Exited(d, held, named)
             [] d.trend # "none" /\ d.enter ->
                   IF mode \in EntersFirst THEN Exited(d, held, openEach(named, d.trend, Len(parts)))
                   ELSE openEach(Exited(d, held, named), d.trend, Len(parts))
             [] OTHER -> IF mode = "XAUUSD_DayTrading" THEN Exited(d, held, named)
                         ELSE modifyAll(Exited(d, held, named), held, d.trend, "own")
    BY DEF FilledResults, NamedFirst, Exited, ExitSide, ClearArray
  <1> HIDE DEF held, named
  <1> QED
    BY <1>1 DEF held, named

-----------------------------------------------------------------------------
(* The bar of a mode of AutoBBS: what an entry and the exits before it ask for. *)

\* Without an entry FilledResults only closes and updates.
LEMMA FilledStays ==
    ASSUME AccountOpen, NEW d, IsDecision(d), NEW parts \in Seq(BOOLEAN)
    PROVE  LET res == FilledResults(d, c_getOrderInfo(OrderInfoSize), parts)
           IN  res \in Arrays /\ (d.trend = "none" \/ ~d.enter => res \in QuietArrays)
  <1> DEFINE shown == c_getOrderInfo(OrderInfoSize)
             held == ShownOpen(shown)
             named == NamedFirst(d, held)
             exited == Exited(d, held, named)
             orders == Len(parts)
             entered == openEach(named, d.trend, orders)
             res == FilledResults(d, shown, parts)
  <1>1. held \in Seq(Order)
    BY HeldIs
  <1>2. /\ d.trend = "none" => res = exited
        /\ d.trend # "none" /\ d.enter =>
              res = IF mode \in EntersFirst THEN Exited(d, held, entered) ELSE openEach(exited, d.trend, orders)
        /\ d.trend # "none" /\ ~d.enter =>
              res = exited \/ res = modifyAll(exited, held, d.trend, "own")
    BY FilledIs
  <1>3. d.trend # "none" => d.trend \in Sides
    BY DEF IsDecision
  <1>4. orders \in Nat
    OBVIOUS
  <1> HIDE DEF held, res, orders
  <1>5. named \in QuietArrays
    BY <1>1, NamedFirstIs
  <1>6. named \in Arrays
    BY <1>5, QuietIsArray
  <1>7. d.trend # "none" => entered \in Arrays
    BY <1>3, <1>4, <1>6, openEachStays
  <1> HIDE DEF named, entered
  <1>8. exited \in QuietArrays
    BY <1>1, <1>5, ExitedStays DEF Kinds, QuietArrays
  <1>9. exited \in Arrays
    BY <1>8, QuietIsArray
  <1>10. d.trend # "none" => Exited(d, held, entered) \in Arrays
    BY <1>1, <1>7, ExitedStays DEF Kinds, Arrays
  <1> HIDE DEF exited
  <1>11. d.trend # "none" => openEach(exited, d.trend, orders) \in Arrays
    BY <1>3, <1>4, <1>9, openEachStays
  <1>12. d.trend # "none" => modifyAll(exited, held, d.trend, "own") \in QuietArrays
    BY <1>1, <1>3, <1>8, FillStays DEF Kinds, QuietArrays
  <1>13. d.trend = "none" \/ ~d.enter => res \in QuietArrays
    BY <1>2, <1>8, <1>12
  <1>14. d.trend # "none" /\ d.enter => res \in Arrays
    BY <1>2, <1>10, <1>11
  <1>15. res \in Arrays
    BY <1>13, <1>14, QuietIsArray
  <1> QED
    BY <1>13, <1>15 DEF res

\* What an exit of a side asks for beyond asks.
More(d, held, asks, more, side) ==
    /\ asks \subseteq more
    /\ \A ask \in more : ask \in asks \/ \E n \in 1..Len(held) : ask = <<held[n].type, held[n].ticket>>
    /\ d.exit = side => \A n \in 1..Len(held) : held[n].type = side => <<held[n].type, held[n].ticket>> \in more

\* The exit of a side asks for its orders.
LEMMA ExitSideAsks ==
    ASSUME NEW d, NEW held \in Seq(Order), NEW res, NEW m, NEW asks, AskedFor(res, m, asks), NEW side \in Sides
    PROVE  \E k, more : AskedFor(ExitSide(d, held, res, side), k, more) /\ More(d, held, asks, more, side)
  <1>1. CASE d.exit \in {side, "ALL"}
    <2> DEFINE more == asks \cup HeldAsks(held, side)
    <2>1. PICK k : AskedFor(closeAll(res, held, side), k, more)
      BY closeAllAsks
    <2>2. ExitSide(d, held, res, side) = closeAll(res, held, side)
      BY <1>1 DEF ExitSide
    <2>3. Held(held, side) = {n \in 1..Len(held) : held[n].type = side}
      BY DEF Held
    <2>7. HeldAsks(held, side) = {<<side, held[n].ticket>> : n \in {l \in 1..Len(held) : held[l].type = side}}
      BY <2>3 DEF HeldAsks
    <2>4. \A ask \in more : ask \in asks \/ \E n \in 1..Len(held) : ask = <<held[n].type, held[n].ticket>>
      BY <2>7
    <2>5. \A n \in 1..Len(held) : held[n].type = side => <<held[n].type, held[n].ticket>> \in more
      BY <2>7
    <2>6. asks \subseteq more
      OBVIOUS
    <2> HIDE DEF more
    <2> QED
      BY <2>1, <2>2, <2>4, <2>5, <2>6 DEF More
  <1>2. CASE d.exit \notin {side, "ALL"}
    <2>1. ExitSide(d, held, res, side) = res /\ d.exit # side
      BY <1>2 DEF ExitSide
    <2>2. More(d, held, asks, asks, side)
      BY <2>1 DEF More
    <2> QED
      BY <2>1, <2>2
  <1> QED
    BY <1>1, <1>2

\* The exits ask for held orders, and for all of the side that is exited.
LEMMA ExitedAsks ==
    ASSUME NEW d, NEW held \in Seq(Order), NEW res, NEW m, NEW asks, AskedFor(res, m, asks)
    PROVE  \E k, more :
              /\ AskedFor(Exited(d, held, res), k, more)
              /\ asks \subseteq more
              /\ \A ask \in more : ask \in asks
                      \/ \E n \in 1..Len(held) : ask = <<held[n].type, held[n].ticket>>
              /\ d.exit \in Sides =>
                    \A n \in 1..Len(held) : held[n].type = d.exit => <<held[n].type, held[n].ticket>> \in more
  <1> DEFINE Ask(n) == <<held[n].type, held[n].ticket>>
             first == ExitSide(d, held, res, "SELL")
  <1>1. "SELL" \in Sides /\ "BUY" \in Sides /\ Sides = {"BUY", "SELL"}
    BY DEF Sides
  <1>2. PICK k1, m1 : AskedFor(first, k1, m1) /\ More(d, held, asks, m1, "SELL")
    BY <1>1, ExitSideAsks
  <1> HIDE DEF first
  <1>3. PICK k2, m2 : AskedFor(ExitSide(d, held, first, "BUY"), k2, m2) /\ More(d, held, m1, m2, "BUY")
    BY <1>1, <1>2, ExitSideAsks
  <1>4. AskedFor(Exited(d, held, res), k2, m2)
    BY <1>3 DEF Exited, first
  <1>8. /\ asks \subseteq m1
        /\ \A ask \in m1 : ask \in asks \/ \E n \in 1..Len(held) : ask = Ask(n)
        /\ d.exit = "SELL" => \A n \in 1..Len(held) : held[n].type = "SELL" => Ask(n) \in m1
    BY <1>2 DEF More
  <1>9. /\ m1 \subseteq m2
        /\ \A ask \in m2 : ask \in m1 \/ \E n \in 1..Len(held) : ask = Ask(n)
        /\ d.exit = "BUY" => \A n \in 1..Len(held) : held[n].type = "BUY" => Ask(n) \in m2
    BY <1>3 DEF More
  <1> HIDE DEF Ask
  <1>5. asks \subseteq m2
    BY <1>8, <1>9
  <1>6. \A ask \in m2 : ask \in asks \/ \E n \in 1..Len(held) : ask = Ask(n)
    BY <1>8, <1>9
  <1>7. d.exit \in Sides => \A n \in 1..Len(held) : held[n].type = d.exit => Ask(n) \in m2
    BY <1>1, <1>8, <1>9
  <1> QED
    BY <1>4, <1>5, <1>6, <1>7 DEF Ask

\* The results of an entry: what is asked to close before it, and the entries.
EntryAs(d, held, res, orders, base, m, asks, k) ==
    /\ AskedFor(base, m, asks) /\ Entered(res, base, m, k, d.trend) /\ k <= m + orders
    /\ \A ask \in asks : \/ ask \in d.named
                         \/ \E n \in 1..Len(held) : ask = <<held[n].type, held[n].ticket>>
    /\ d.exit \in Sides =>
          \A n \in 1..Len(held) : held[n].type = d.exit => <<held[n].type, held[n].ticket>> \in asks

\* With an entry FilledResults closes first and then opens, one result for each part.
LEMMA FilledEnters ==
    ASSUME AccountOpen, NEW d, IsDecision(d), NEW parts \in Seq(BOOLEAN), d.trend # "none", d.enter,
           mode \in EntersFirst => open = <<>>
    PROVE  LET shown == c_getOrderInfo(OrderInfoSize)
           IN  \E base, m, asks, k :
                  EntryAs(d, ShownOpen(shown), FilledResults(d, shown, parts), Len(parts), base, m, asks, k)
  <1> DEFINE shown == c_getOrderInfo(OrderInfoSize)
             held == ShownOpen(shown)
             named == NamedFirst(d, held)
             exited == Exited(d, held, named)
             orders == Len(parts)
             res == FilledResults(d, shown, parts)
  <1>1. held \in Seq(Order) /\ (open = <<>> => held = <<>>)
    BY HeldIs
  <1>2. res = IF mode \in EntersFirst THEN Exited(d, held, openEach(named, d.trend, orders))
              ELSE openEach(exited, d.trend, orders)
    BY FilledIs
  <1>3. d.trend \in Sides /\ orders \in Nat
    BY DEF IsDecision
  <1> HIDE DEF held, res, orders
  <1>4. CASE mode \in EntersFirst
    <2>1. held = <<>> /\ Len(held) = 0
      BY <1>1, <1>4
    <2>2. named = ClearArray
      BY <2>1, NothingToClose DEF NamedFirst
    <2>3. \A x : Exited(d, held, x) = x
      BY <2>1, NothingToClose DEF Exited, ExitSide
    <2>4. res = openEach(ClearArray, d.trend, orders)
      BY <1>2, <1>4, <2>2, <2>3
    <2>5. AskedFor(ClearArray, 0, {})
      BY ClearAsks DEF ClearArray
    <2>6. PICK k : k <= 0 + orders /\ Entered(res, ClearArray, 0, k, d.trend)
      BY <1>3, <2>4, <2>5, openEachEnters
    <2>7. EntryAs(d, held, res, orders, ClearArray, 0, {}, k)
      BY <2>1, <2>5, <2>6 DEF EntryAs
    <2> QED
      BY <2>7 DEF held, res, orders
  <1>5. CASE mode \notin EntersFirst
    <2>1. PICK m1, a1 : AskedFor(named, m1, a1) /\ \A ask \in a1 : ask \in d.named
      BY <1>1, NamedFirstIs
    <2> HIDE DEF named
    <2>2. PICK m, asks :
              /\ AskedFor(exited, m, asks)
              /\ \A ask \in asks : ask \in a1 \/ \E n \in 1..Len(held) : ask = <<held[n].type, held[n].ticket>>
              /\ d.exit \in Sides =>
                    \A n \in 1..Len(held) : held[n].type = d.exit => <<held[n].type, held[n].ticket>> \in asks
      BY <1>1, <2>1, ExitedAsks
    <2> HIDE DEF exited
    <2>3. PICK k : k <= m + orders /\ Entered(openEach(exited, d.trend, orders), exited, m, k, d.trend)
      BY <1>3, <2>2, openEachEnters
    <2>4. res = openEach(exited, d.trend, orders)
      BY <1>2, <1>5
    <2>5. EntryAs(d, held, res, orders, exited, m, asks, k)
      BY <2>1, <2>2, <2>3, <2>4 DEF EntryAs
    <2> QED
      BY <2>5 DEF held, res, orders
  <1> QED
    BY <1>4, <1>5

\* What is asked for, but for the entries, opens nothing.
LEMMA EnteredOpens ==
    ASSUME NEW base, NEW m, NEW asks, AskedFor(base, m, asks), NEW side \in Sides,
           NEW res, NEW k, Entered(res, base, m, k, side)
    PROVE  ToOpen(res) \subseteq (m + 1)..k
  <1>1. /\ res \in Arrays /\ m \in 0..MaxOpenOrders /\ k \in m..MaxOpenOrders /\ MaxOpenOrders \in Nat
        /\ \A r \in 1..m : res[r] = base[r]
        /\ \A r \in (k + 1)..MaxOpenOrders : res[r] = Clear
        /\ \A r \in 1..m : \E ask \in asks : base[r] = CloseOf(ask)
    BY SizesType DEF Entered, AskedFor
  <1> SUFFICES ASSUME NEW r \in 1..MaxOpenOrders, NEW type \in Sides, <<"OPEN", type>> \in res[r].signals
               PROVE  r \in (m + 1)..k
    BY <1>1 DEF ToOpen, Arrays
  <1>2. \A ask : <<"OPEN", type>> \notin CloseOf(ask).signals
    BY DEF CloseOf
  <1>3. <<"OPEN", type>> \notin Clear.signals
    BY DEF Clear
  <1>4. r \notin 1..m
    BY <1>1, <1>2
  <1>5. r \notin (k + 1)..MaxOpenOrders
    BY <1>1, <1>3
  <1> QED
    BY <1>1, <1>4, <1>5

-----------------------------------------------------------------------------
(* The decisions that turn to a side. *)

\* An entry exits the other side, or there is nothing on it.
Turns(d) ==
    d.enter => /\ d.trend \in Sides
               /\ d.exit = Other(d.trend) \/ \A o : Among(o, open) => o.type = d.trend

NamedOpen(d) == \A ask \in d.named : \E o : Among(o, open) /\ ask = <<o.type, o.ticket>>

\* The results of a decision that turns to a side turn to it.
LEMMA FilledTurns ==
    ASSUME TypeInv, OrdersInv, NEW d, IsDecision(d), Turns(d), NamedOpen(d), NEW parts \in Seq(BOOLEAN),
           mode \in EntersFirst /\ d.enter => open = <<>>
    PROVE  LET res == FilledResults(d, c_getOrderInfo(OrderInfoSize), parts)
           IN  ToOpen(res) = {} \/ TurnsTo(res, d.trend)
  <1> DEFINE shown == c_getOrderInfo(OrderInfoSize)
             held == ShownOpen(shown)
             res == FilledResults(d, shown, parts)
  <1>1. AccountOpen
    BY AccountIs
  <1>2. /\ held \in Seq(Order) /\ \A n \in 1..Len(held) : \E k \in 1..Len(open) : held[n] = open[k]
        /\ Len(open) <= OrderInfoSize => \A k \in 1..Len(open) : \E n \in 1..Len(held) : held[n] = open[k]
    BY <1>1, HeldIs
  <1>3. CASE d.trend = "none" \/ ~d.enter
    <2>1. res \in QuietArrays
      BY <1>1, <1>3, FilledStays
    <2> QED
      BY <2>1, QuietHasNone
  <1>4. CASE d.trend # "none" /\ d.enter
    <2>1. mode \in EntersFirst => open = <<>>
      BY <1>4
    <2>2. \E base, m, asks, k : EntryAs(d, held, res, Len(parts), base, m, asks, k)
      BY <1>1, <1>4, <2>1, FilledEnters
    <2> HIDE DEF held, res
    <2>3. PICK base, m, asks, k : EntryAs(d, held, res, Len(parts), base, m, asks, k)
      BY <2>2
    <2>4. /\ AskedFor(base, m, asks) /\ Entered(res, base, m, k, d.trend)
          /\ \A ask \in asks : \/ ask \in d.named
                               \/ \E n \in 1..Len(held) : ask = <<held[n].type, held[n].ticket>>
          /\ d.exit \in Sides =>
                \A n \in 1..Len(held) : held[n].type = d.exit => <<held[n].type, held[n].ticket>> \in asks
      BY <2>3 DEF EntryAs
    <2>5. d.trend \in Sides /\ (d.exit = Other(d.trend) \/ \A o : Among(o, open) => o.type = d.trend)
      BY <1>4 DEF Turns
    <2>6. \A ask \in asks : \E o : Among(o, open) /\ ask = <<o.type, o.ticket>>
      <3> SUFFICES ASSUME NEW ask \in asks PROVE \E o : Among(o, open) /\ ask = <<o.type, o.ticket>>
        OBVIOUS
      <3>1. CASE ask \in d.named
        BY <3>1 DEF NamedOpen
      <3>2. CASE \E n \in 1..Len(held) : ask = <<held[n].type, held[n].ticket>>
        <4>1. PICK n \in 1..Len(held) : ask = <<held[n].type, held[n].ticket>>
          BY <3>2
        <4>2. PICK l \in 1..Len(open) : held[n] = open[l]
          BY <1>2
        <4>3. Among(held[n], open)
          BY <4>2 DEF Among
        <4> QED
          BY <4>1, <4>3
      <3> QED
        BY <2>4, <3>1, <3>2
    <2>7. ASSUME Len(open) <= OrderInfoSize, NEW o, Among(o, open), o.type # d.trend
          PROVE  <<o.type, o.ticket>> \in asks
      <3>1. o \in Order
        BY <2>7 DEF TypeInv, Among
      <3>2. o.type \in Sides
        BY <3>1 DEF Order
      <3>3. d.exit = Other(d.trend) /\ d.exit = o.type
        BY <2>5, <2>7, <3>2 DEF Other, Sides
      <3>4. PICK l \in 1..Len(open) : open[l] = o
        BY <2>7 DEF Among
      <3>5. PICK n \in 1..Len(held) : held[n] = open[l]
        BY <1>2, <2>7
      <3> QED
        BY <2>4, <3>2, <3>3, <3>4, <3>5
    <2>8. ToOpen(res) = {} \/ TurnsTo(res, d.trend)
      BY <2>4, <2>5, <2>6, <2>7, EnteredTurns
    <2> QED
      BY <2>8 DEF res
  <1> QED
    BY <1>3, <1>4

\* There are as many entries as parts at most.
LEMMA FilledFew ==
    ASSUME AccountOpen, NEW d, IsDecision(d), NEW parts \in Seq(BOOLEAN), mode \in EntersFirst /\ d.enter
            => open = <<>>
    PROVE  \E m \in Nat : ToOpen(FilledResults(d, c_getOrderInfo(OrderInfoSize),
            parts)) \subseteq (m + 1)..(m + Len(parts))
  <1> DEFINE shown == c_getOrderInfo(OrderInfoSize)
             held == ShownOpen(shown)
             res == FilledResults(d, shown, parts)
  <1>1. CASE d.trend = "none" \/ ~d.enter
    <2>1. res \in QuietArrays
      BY <1>1, FilledStays
    <2>2. ToOpen(res) = {}
      BY <2>1, QuietHasNone
    <2>3. 0 \in Nat
      OBVIOUS
    <2> QED
      BY <2>2, <2>3
  <1>2. CASE d.trend # "none" /\ d.enter
    <2>1. mode \in EntersFirst => open = <<>>
      BY <1>2
    <2>2. \E base, m, asks, k : EntryAs(d, held, res, Len(parts), base, m, asks, k)
      BY <1>2, <2>1, FilledEnters
    <2> HIDE DEF held, res
    <2>3. PICK base, m, asks, k : EntryAs(d, held, res, Len(parts), base, m, asks, k)
      BY <2>2
    <2>4. /\ AskedFor(base, m, asks) /\ Entered(res, base, m, k, d.trend) /\ k <= m + Len(parts)
            /\ d.trend \in Sides
      BY <1>2, <2>3 DEF EntryAs, IsDecision
    <2>5. ToOpen(res) \subseteq (m + 1)..k
      BY <2>4, EnteredOpens
    <2>6. m \in Nat /\ k \in Nat /\ Len(parts) \in Nat
      BY <2>4, SizesType DEF Entered
    <2>7. (m + 1)..k \subseteq (m + 1)..(m + Len(parts))
      BY <2>4, <2>6
    <2> QED
      BY <2>5, <2>6, <2>7 DEF res
  <1> QED
    BY <1>1, <1>2

-----------------------------------------------------------------------------
(* What a decision must be like for the invariants. *)

\* The modes that hold a single order, and those that add to a position of one side.
SoleModes == {"MACD_Weekly", "4H_Shellington", "ShortTerm", "Limit_BBS"} \cup BEILIModes
SidedModes == {"MultipleDay", "MultipleDay_V2"}

\* What is closed was opened before what is open.
Sole == mode \in SoleModes => Len(open) <= 1 /\ \A o, p : Among(o, open) /\ Among(p, closed) => p.at < o.at
SameSide == mode \in SidedModes => \A o, p : Among(o, open) /\ Among(p, open) => o.type = p.type

Parts == Seq(BOOLEAN)
Short == {parts \in Parts : Len(parts) <= 1}

\* Which of the splits have at most one part.
LEMMA SplitsAre ==
    /\ split_ShortTerm_New \subseteq Short /\ NoSplit \subseteq Short /\ split_4HSwing_100P \subseteq Short
    /\ split_4HSwing_Shellington \subseteq Short /\ split_Ichimoko_Weekly \subseteq Short
    /\ split_Ichimoko_Daily \subseteq Short /\ split_MACDWeekly \subseteq Short /\ split_Range \subseteq Short
    /\ split_DayTrading \subseteq Short /\ split_Swing \subseteq Short /\ split_Daily_Swing \subseteq Short
    /\ split_Daily_GBPJPY_Swing \subseteq Short /\ split_Daily_Swing_ExecutionOnly \subseteq Short
    /\ split_ShortTerm_ATR_Hedge \subseteq Short /\ split_MACD_BEILI \subseteq Short
    /\ \A today : split_ShortTerm(today) \subseteq Short
    /\ split_KeyK \subseteq Parts /\ split_4HSwing \subseteq Parts /\ split_MACDDaily \subseteq Parts
    /\ split_MultiDays_Swing_V2 \subseteq Parts /\ \A m : split_MultiDays_Swing(m) \subseteq Parts
  <1>1. <<>> \in Short /\ <<TRUE>> \in Short /\ <<FALSE>> \in Short
    BY DEF Short, Parts
  <1>2. <<TRUE, FALSE>> \in Parts /\ <<TRUE, TRUE>> \in Parts /\ <<TRUE, TRUE, FALSE>> \in Parts
          /\ Short \subseteq Parts
    BY DEF Short, Parts
  <1> HIDE DEF Parts, Short
  <1>3. split_ShortTerm_New \subseteq Short /\ NoSplit \subseteq Short /\ split_4HSwing_100P \subseteq Short
        /\ split_4HSwing_Shellington \subseteq Short /\ split_Ichimoko_Weekly \subseteq Short
    BY <1>1 DEF split_ShortTerm_New, NoSplit, split_4HSwing_100P, split_4HSwing_Shellington,
            split_Ichimoko_Weekly
  <1>4. /\ split_Ichimoko_Daily \subseteq Short /\ split_MACDWeekly \subseteq Short
          /\ split_Range \subseteq Short
        /\ split_DayTrading \subseteq Short /\ split_Swing \subseteq Short /\ split_Daily_Swing \subseteq Short
    BY <1>1 DEF split_Ichimoko_Daily, split_MACDWeekly, split_Range, split_DayTrading, split_Swing,
            split_Daily_Swing
  <1>5. /\ split_Daily_GBPJPY_Swing \subseteq Short /\ split_Daily_Swing_ExecutionOnly \subseteq Short
        /\ split_ShortTerm_ATR_Hedge \subseteq Short /\ split_MACD_BEILI \subseteq Short
        /\ \A today : split_ShortTerm(today) \subseteq Short
    BY <1>1 DEF split_Daily_GBPJPY_Swing, split_Daily_Swing_ExecutionOnly, split_ShortTerm_ATR_Hedge,
            split_MACD_BEILI,
                split_ShortTerm
  <1>6. /\ split_KeyK \subseteq Parts /\ split_4HSwing \subseteq Parts /\ split_MACDDaily \subseteq Parts
        /\ split_MultiDays_Swing_V2 \subseteq Parts /\ \A m : split_MultiDays_Swing(m) \subseteq Parts
    BY <1>1, <1>2 DEF split_KeyK, split_4HSwing, split_MACDDaily, split_MultiDays_Swing_V2,
            split_MultiDays_Swing
  <1> QED
    BY <1>3, <1>4, <1>5, <1>6

\* The parts of an entry of WeeklyAuto.
LEMMA WeeklySplit == ASSUME NEW side PROVE split_Weekly_ShortTerm(side) \subseteq Parts
  <1> DEFINE length == IF side = "BUY" THEN 2 ELSE 3
             part(n, last) == n = 1 \/ (n = 2 /\ side = "SELL") \/ last
             split(last) == [n \in 1..length |-> part(n, last)]
  <1>1. <<>> \in Parts
    BY DEF Parts
  <1>2. \A last \in BOOLEAN : split(last) \in Parts
    <2> TAKE last \in BOOLEAN
    <2>1. length \in Nat
      OBVIOUS
    <2>2. \A n \in 1..length : part(n, last) \in BOOLEAN
      OBVIOUS
    <2> HIDE DEF length, part
    <2> QED
      BY <2>1, <2>2 DEF Parts
  <1>3. split_Weekly_ShortTerm(side) = {<<>>} \cup {split(last) : last \in BOOLEAN}
    BY DEF split_Weekly_ShortTerm
  <1> HIDE DEF split
  <1> QED
    BY <1>1, <1>2, <1>3

\* The modes with one position split an entry in at most one part.
LEMMA splitOrdersAre == splitOrders \subseteq Parts /\ (mode \in SoleModes => splitOrders \subseteq Short)
  <1>1. Short \subseteq Parts
    BY DEF Short
  <1>2. splitOrders \subseteq Parts
    <2> HIDE DEF Parts, Short
    <2> QED
      BY <1>1, SplitsAre DEF splitOrders
  <1>3. mode \in SoleModes => splitOrders \subseteq Short
    <2> HIDE DEF Parts, Short
    <2>1. CASE mode = "MACD_Weekly"
      <3>1. splitOrders = split_MACDWeekly
        BY <2>1 DEF splitOrders, BoDuanModes, MACD_DailyModes, OrderADayModes, BEILIModes
      <3> QED
        BY <3>1, SplitsAre
    <2>2. CASE mode = "4H_Shellington"
      <3>1. splitOrders = split_4HSwing_Shellington
        BY <2>2 DEF splitOrders, BoDuanModes, MACD_DailyModes, OrderADayModes, BEILIModes
      <3> QED
        BY <3>1, SplitsAre
    <2>3. CASE mode = "ShortTerm"
      <3>1. splitOrders = split_ShortTerm_New
        BY <2>3 DEF splitOrders, BoDuanModes, MACD_DailyModes, OrderADayModes, BEILIModes
      <3> QED
        BY <3>1, SplitsAre
    <2>4. CASE mode = "Limit_BBS"
      <3>1. splitOrders = split_Range
        BY <2>4 DEF splitOrders, BoDuanModes, MACD_DailyModes, OrderADayModes, BEILIModes
      <3> QED
        BY <3>1, SplitsAre
    <2>5. CASE mode \in BEILIModes
      <3>1. splitOrders = split_MACD_BEILI
        BY <2>5 DEF splitOrders, BoDuanModes, MACD_DailyModes, OrderADayModes, BEILIModes
      <3> QED
        BY <3>1, SplitsAre
    <2> QED
      BY <2>1, <2>2, <2>3, <2>4, <2>5 DEF SoleModes
  <1> QED
    BY <1>2, <1>3

\* A decision the invariants are kept with.
Fit(d) ==
    /\ IsDecision(d) /\ Turns(d) /\ NamedOpen(d)
    /\ mode \in SoleModes => d.split \subseteq Short /\ (d.enter => open = <<>>)
    /\ mode \in SidedModes => (d.enter => \A o : Among(o, open) => o.type = d.trend)

\* The fields of a decision.
LEMMA DecisionIs ==
    ASSUME NEW trend \in Sides \cup {"none"}, NEW enter, NEW exit, NEW named
    PROVE  LET d == Decision(trend, enter, exit, named)
           IN  /\ IsDecision(d) /\ d.trend = trend /\ d.exit = exit /\ d.named = named /\ d.split = splitOrders
               /\ d.enter = enter
  BY splitOrdersAre DEF Decision, IsDecision, Parts

\* Without an entry, and with one that turns.
LEMMA NoEntryFits ==
    ASSUME NEW trend \in Sides \cup {"none"}, NEW exit
    PROVE  Fit(Decision(trend, FALSE, exit, {}))
  <1> DEFINE d == Decision(trend, FALSE, exit, {})
  <1> DEFINE no == FALSE
  <1>0. no = FALSE
    OBVIOUS
  <1> HIDE DEF no
  <1>1. IsDecision(d) /\ d.named = {} /\ d.split = splitOrders /\ d.enter = FALSE
    <2>1. d = Decision(trend, no, exit, {})
      BY <1>0
    <2> HIDE DEF d
    <2> QED
      BY <2>1, <1>0, DecisionIs
  <1> HIDE DEF d
  <1>2. Fit(d)
    BY <1>1, splitOrdersAre DEF Fit, Turns, NamedOpen
  <1> QED
    BY <1>2 DEF d

\* A change of sides exits the other side.
LEMMA ReversalFits ==
    ASSUME NEW side \in Sides, NEW may, mode \in SoleModes \cup SidedModes => (may => open = <<>>)
    PROVE  Fit(Reversal(side, may))
  <1> DEFINE d == Reversal(side, may)
  <1>1. /\ IsDecision(d) /\ d.named = {} /\ d.split = splitOrders /\ d.enter = may /\ d.trend = side
        /\ d.exit = Other(side)
    BY DecisionIs DEF Reversal
  <1> HIDE DEF d
  <1>2. open = <<>> => ~\E o : Among(o, open)
    BY DEF Among
  <1>3. Fit(d)
    BY <1>1, <1>2, splitOrdersAre DEF Fit, Turns, NamedOpen
  <1> QED
    BY <1>3 DEF d

\* What the filters and the profit management change.
LEMMA WeakerFits ==
    ASSUME NEW d, Fit(d), NEW enter, enter => d.enter
    PROVE  Fit([d EXCEPT !.enter = enter])
  <1> DEFINE e == [d EXCEPT !.enter = enter]
  <1>1. /\ IsDecision(e) /\ e.trend = d.trend /\ e.exit = d.exit /\ e.named = d.named /\ e.split = d.split
        /\ e.enter = enter
    BY DEF Fit, IsDecision
  <1> HIDE DEF e
  <1>2. Fit(e)
    BY <1>1 DEF Fit, Turns, NamedOpen
  <1> QED
    BY <1>2 DEF e

\* What is closed by ticket must be open.
LEMMA NamedFits ==
    ASSUME NEW d, Fit(d), NEW named, \A ask \in named : \E o : Among(o, open) /\ ask = <<o.type, o.ticket>>
    PROVE  Fit([d EXCEPT !.named = named])
  <1> DEFINE e == [d EXCEPT !.named = named]
  <1>1. /\ IsDecision(e) /\ e.trend = d.trend /\ e.exit = d.exit /\ e.named = named /\ e.split = d.split
        /\ e.enter = d.enter
    BY DEF Fit, IsDecision
  <1> HIDE DEF e
  <1>2. Fit(e)
    BY <1>1 DEF Fit, Turns, NamedOpen
  <1> QED
    BY <1>2 DEF e

\* An entry may be split in another way, unless the mode has one position.
LEMMA SplitFits ==
    ASSUME NEW d, Fit(d), NEW split, split \subseteq Parts, mode \in SoleModes => split \subseteq Short
    PROVE  Fit([d EXCEPT !.split = split])
  <1> DEFINE e == [d EXCEPT !.split = split]
  <1>1. /\ IsDecision(e) /\ e.trend = d.trend /\ e.exit = d.exit /\ e.named = d.named /\ e.split = split
        /\ e.enter = d.enter
    BY DEF Fit, IsDecision, Parts
  <1> HIDE DEF e
  <1>2. Fit(e)
    BY <1>1 DEF Fit, Turns, NamedOpen
  <1> QED
    BY <1>2 DEF e

-----------------------------------------------------------------------------
(* What the modes read from what they are shown. *)

Shown == c_getOrderInfo(OrderInfoSize)
AllFit(decisions) == \A d \in decisions : Fit(d)
AllDecisions(decisions) == \A d \in decisions : IsDecision(d)

\* The oldest open order is one of the open ones that are shown.
LEMMA OldestIs ==
    ASSUME NEW shown \in Seq(Order), hasOpenOrder(shown)
    PROVE  OldestOpen(shown) \in OpenPlaces(shown)
  <1> DEFINE among == OpenPlaces(shown)
             times == {shown[n].at : n \in among}
             oldest == {n \in among : \A k \in among : shown[n].at <= shown[k].at}
  <1>1. among # {} /\ among \subseteq 1..Len(shown)
    BY DEF hasOpenOrder, OpenPlaces
  <1>2. \A n \in 1..Len(shown) : shown[n].at \in Nat
    <2> TAKE n \in 1..Len(shown)
    <2>1. shown[n] \in Order
      OBVIOUS
    <2> QED
      BY <2>1 DEF Order
  <1> HIDE DEF among
  <1>3. times \in SUBSET Nat /\ times # {}
    BY <1>1, <1>2
  <1>4. Min(times) \in times /\ \A t \in times : Min(times) <= t
    <2> HIDE DEF times
    <2> QED
      BY <1>3, MinOf
  <1> DEFINE least == Min(times)
  <1>5. least \in times /\ \A t \in times : least <= t
    BY <1>4
  <1> HIDE DEF least
  <1>6. PICK n \in among : shown[n].at = least
    BY <1>5
  <1>7. n \in oldest
    BY <1>5, <1>6
  <1>8. oldest \in SUBSET Nat /\ oldest # {} /\ oldest \subseteq among
    <2>1. oldest \subseteq among
      OBVIOUS
    <2>2. 1..Len(shown) \subseteq Nat
      OBVIOUS
    <2> HIDE DEF oldest
    <2> QED
      BY <1>1, <1>7, <2>1, <2>2
  <1>9. OldestOpen(shown) = Min(oldest)
    BY DEF OldestOpen, among
  <1> HIDE DEF oldest
  <1>10. Min(oldest) \in oldest
    BY <1>8, MinOf
  <1> QED
    BY <1>8, <1>9, <1>10 DEF among

\* The position, when there is one, is an open order.
LEMMA PositionIs ==
    ASSUME TypeInv, OrdersInv, hasOpenOrder(Shown)
    PROVE  \E o : Among(o, open) /\ o = Shown[OldestOpen(Shown)] /\ o.type \in Sides
  <1>1. AccountOpen
    BY AccountIs
  <1>2. /\ Shown \in Seq(Order)
        /\ \A n \in 1..Len(Shown) : IsOpen(Shown[n]) => \E k \in 1..Len(open) : Shown[n] = open[k]
    BY <1>1, HeldIs DEF Shown
  <1> DEFINE n == OldestOpen(Shown)
  <1>3. n \in OpenPlaces(Shown)
    BY <1>2, OldestIs
  <1> HIDE DEF n
  <1>4. n \in 1..Len(Shown) /\ IsOpen(Shown[n])
    BY <1>2, <1>3 DEF OpenPlaces
  <1>5. PICK k \in 1..Len(open) : Shown[n] = open[k]
    BY <1>2, <1>4
  <1>6. Among(Shown[n], open)
    BY <1>5 DEF Among
  <1>7. Shown[n] \in Order
    BY <1>2, <1>4
  <1>8. Shown[n].type \in Sides
    BY <1>7 DEF Order
  <1> QED
    BY <1>6, <1>8 DEF n

\* When no order shown is open there is none; when the last one is not, a mode with a single one has none.
LEMMA NoneOpen ==
    ASSUME TypeInv, OrdersInv, Sole
    PROVE  /\ ~hasOpenOrder(Shown) => open = <<>>
           /\ mode \in SoleModes /\ NoPosition(Shown) => open = <<>>
  <1>1. AccountOpen
    BY AccountIs
  <1>2. Shown \in Seq(Order) /\ (OpenPlaces(Shown) = {} => open = <<>>)
    BY <1>1, HeldIs DEF Shown
  <1>3. ~hasOpenOrder(Shown) => open = <<>>
    BY <1>2 DEF hasOpenOrder
  <1>4. ASSUME mode \in SoleModes, NoPosition(Shown), open # <<>> PROVE FALSE
    <2>1. /\ 1 \in 1..Len(Shown) /\ Shown[1] = open[Len(open)]
          /\ \A n \in 1..Len(Shown) :
                 (\E k \in 1..Len(open) : Shown[n] = open[k])
                         \/ (\E k \in 1..Len(closed) : Shown[n] = closed[k])
      BY <1>4, ShownIs DEF Shown, TypeInv
    <2>2. Shown # <<>> /\ ~IsOpen(Latest(Shown))
      <3>1. Len(Shown) \in Nat /\ Len(Shown) # 0
        BY <1>2, <2>1
      <3>2. Shown # <<>>
        BY <3>1
      <3> QED
        BY <3>2, <1>4 DEF NoPosition
    <2>3. PICK n \in 1..Len(Shown) : Latest(Shown) = Shown[n]
            /\ \A k \in 1..Len(Shown) : Shown[k].at <= Shown[n].at
      BY <1>2, <2>2, LatestIs
    <2>4. ~\E k \in 1..Len(open) : Shown[n] = open[k]
      BY <1>1, <2>2, <2>3 DEF IsOpen, AccountOpen
    <2>5. PICK k \in 1..Len(closed) : Shown[n] = closed[k]
      BY <2>1, <2>4
    <2> DEFINE o == open[Len(open)]
               p == closed[k]
    <2>6. Len(open) \in Nat /\ Len(open) # 0 /\ open \in Seq(Order) /\ closed \in Seq(Order)
      BY <1>4 DEF TypeInv
    <2>7. Len(open) \in 1..Len(open)
      BY <2>6
    <2>8. Among(o, open) /\ Among(p, closed)
      BY <2>7 DEF Among
    <2>9. o \in Order /\ p \in Order
      BY <2>6, <2>7
    <2>10. p.at < o.at
      BY <2>8, <1>4 DEF Sole
    <2>11. o.at <= p.at
      BY <2>1, <2>3, <2>5
    <2>12. o.at \in Nat /\ p.at \in Nat
      BY <2>9 DEF Order
    <2> HIDE DEF o, p
    <2> QED
      BY <2>10, <2>11, <2>12
  <1> QED
    BY <1>3, <1>4

\* Open orders that are shown are named.
LEMMA PickedAreOpen ==
    ASSUME TypeInv, OrdersInv, NEW picked, \A o \in picked : o \in ToSet(Shown) /\ IsOpen(o)
    PROVE  \A ask \in Named(picked) : \E o : Among(o, open) /\ ask = <<o.type, o.ticket>>
  <1>1. AccountOpen
    BY AccountIs
  <1>2. /\ Shown \in Seq(Order)
        /\ \A n \in 1..Len(Shown) : IsOpen(Shown[n]) => \E k \in 1..Len(open) : Shown[n] = open[k]
    BY <1>1, HeldIs DEF Shown
  <1>3. \A o \in picked : Among(o, open)
    <2> TAKE o \in picked
    <2>1. PICK n \in 1..Len(Shown) : Shown[n] = o
      BY <1>2 DEF ToSet
    <2>2. PICK k \in 1..Len(open) : Shown[n] = open[k]
      BY <1>2, <2>1
    <2> QED
      BY <2>1, <2>2 DEF Among
  <1> QED
    BY <1>3 DEF Named

-----------------------------------------------------------------------------
(* Sets of decisions. *)

\* Nothing, or to exit all, fits any mode.
LEMMA NothingFits == Fit(Nothing) /\ Fit(ExitAll)
  BY NoEntryFits DEF Nothing, ExitAll

\* The crosses of MACD enter nothing.
LEMMA CrossExitsFit == AllFit(CrossExits)
  BY NoEntryFits DEF AllFit, CrossExits

\* Following a trend, if an entry needs no position.
LEMMA FollowFits ==
    ASSUME NEW may, mode \in SoleModes \cup SidedModes => (may => open = <<>>)
    PROVE  AllFit(Follow(may))
  BY NothingFits, ReversalFits DEF AllFit, Follow

\* Winners that are closed are open orders.
LEMMA WinningFits ==
    ASSUME TypeInv, OrdersInv, NEW decisions, AllFit(decisions)
    PROVE  AllFit(Winning(decisions, Shown))
  <1> SUFFICES ASSUME NEW d \in decisions, NEW picked \in SUBSET {o \in ToSet(Shown) : IsOpen(o)}
               PROVE  Fit([d EXCEPT !.named = Named(picked)])
    BY DEF AllFit, Winning
  <1>1. \A ask \in Named(picked) : \E o : Among(o, open) /\ ask = <<o.type, o.ticket>>
    BY PickedAreOpen
  <1>2. Fit(d)
    BY DEF AllFit
  <1> QED
    BY <1>1, <1>2, NamedFits

\* An entry may be taken away, and its orders with it.
LEMMA TakenAway ==
    ASSUME NEW d, Fit(d)
    PROVE  Fit([d EXCEPT !.enter = FALSE]) /\ Fit([d EXCEPT !.enter = FALSE, !.split = NoSplit])
  <1> DEFINE no == FALSE
             e == [d EXCEPT !.enter = no]
  <1>0. no = FALSE
    OBVIOUS
  <1> HIDE DEF no
  <1>1. Fit(e)
    BY <1>0, WeakerFits
  <1> HIDE DEF e
  <1>2. NoSplit \subseteq Parts /\ NoSplit \subseteq Short
    BY SplitsAre DEF Short
  <1>3. Fit([e EXCEPT !.split = NoSplit])
    BY <1>1, <1>2, SplitFits
  <1>4. e = [d EXCEPT !.enter = FALSE]
    BY <1>0 DEF e
  <1>5. [e EXCEPT !.split = NoSplit] = [d EXCEPT !.enter = FALSE, !.split = NoSplit]
    BY <1>0 DEF e
  <1> QED
    BY <1>1, <1>3, <1>4, <1>5

\* What a filter takes away does no harm.
LEMMA FilteredFits ==
    ASSUME NEW decisions, AllFit(decisions)
    PROVE  AllFit(Filtered(decisions)) /\ AllFit(MayNotEnter(decisions))
  BY TakenAway DEF AllFit, Filtered, MayNotEnter

-----------------------------------------------------------------------------
(* The modes that follow a trend. *)

\* Changes of sides, of which some may not enter.
LEMMA ReversalsFit ==
    ASSUME NEW side \in Sides, NEW mays, mode \in SoleModes \cup SidedModes => \A may \in mays : may
            => open = <<>>
    PROVE  AllFit({Reversal(side, may) : may \in mays})
  BY ReversalFits DEF AllFit

\* A filter refuses or leaves it as it is.
LEMMA FiltersFit ==
    ASSUME NEW side \in Sides, NEW may, mode \in SoleModes \cup SidedModes => (may => open = <<>>)
    PROVE  AllFit({Reversal(side, enters) : enters \in Filters(may)})
  <1> DEFINE mays == Filters(may)
  <1>1. \A m \in mays : m => may
    BY DEF Filters
  <1> HIDE DEF mays
  <1>2. AllFit({Reversal(side, enters) : enters \in mays})
    BY <1>1, ReversalsFit
  <1> QED
    BY <1>2 DEF mays

\* BoDuan, on both symbols.
LEMMA BoDuanFits ==
    ASSUME mode \notin SoleModes \cup SidedModes
    PROVE  AllFit(BoDuan(Shown)) /\ AllFit(XAUUSD_BoDuan(Shown))
  <1>1. \A side \in Sides : \A may : Fit(Reversal(side, may))
    BY ReversalFits
  <1>2. AllFit(BoDuan(Shown))
    BY <1>1, NothingFits DEF AllFit, BoDuan
  <1> QED
    BY <1>2 DEF XAUUSD_BoDuan

\* 4H_Shellington.
LEMMA ShellingtonFits ==
    ASSUME TypeInv, OrdersInv, Sole, mode = "4H_Shellington"
    PROVE  AllFit(Shellington(Shown))
  <1>1. mode \in SoleModes
    BY DEF SoleModes
  <1>2. ASSUME NEW side \in Sides
        PROVE  AllFit({Reversal(side, may) : may \in ShellingtonFilters(Shown, side)})
    <2> DEFINE won == getSameSideWonTradesInCurrentTrend(Shown, side) < WonTimes[side]
               enters == NoPosition(Shown) /\ won
    <2>1. enters => open = <<>>
      BY <1>1, NoneOpen
    <2>2. ShellingtonFilters(Shown, side) = Filters(enters)
      BY DEF ShellingtonFilters
    <2> HIDE DEF enters
    <2> QED
      BY <2>1, <2>2, FiltersFit
  <1>3. \A exit : Fit(Decision("none", FALSE, exit, {}))
    BY NoEntryFits
  <1>4. "BUY" \in Sides /\ "SELL" \in Sides
    BY DEF Sides
  <1>5. AllFit({Reversal("BUY", may) : may \in ShellingtonFilters(Shown, "BUY")})
    BY <1>2, <1>4
  <1>6. AllFit({Reversal("SELL", may) : may \in ShellingtonFilters(Shown, "SELL")})
    BY <1>2, <1>4
  <1> QED
    BY <1>3, <1>5, <1>6, NothingFits DEF AllFit, Shellington, ShellingtonBuy, ShellingtonSell

\* MACD_Weekly.
LEMMA MACD_WeeklyFits ==
    ASSUME TypeInv, OrdersInv, Sole, mode = "MACD_Weekly"
    PROVE  AllFit(MACD_Weekly(Shown))
  <1>1. mode \in SoleModes /\ "BUY" \in Sides /\ "SELL" \in Sides
    BY DEF SoleModes, Sides
  <1>2. NoPosition(Shown) => open = <<>>
    BY <1>1, NoneOpen
  <1>3. AllFit(MACD_Weekly_Buy(Shown)) /\ AllFit(MACD_Weekly_Sell(Shown))
    BY <1>1, <1>2, FiltersFit DEF MACD_Weekly_Buy, MACD_Weekly_Sell
  <1> QED
    BY <1>3, NothingFits, CrossExitsFit DEF AllFit, MACD_Weekly

\* MACD_Daily, MACD_Daily_New and ASI.
LEMMA MACD_DailyFits ==
    ASSUME mode \notin SoleModes \cup SidedModes
    PROVE  AllFit(MACD_Daily(Shown)) /\ AllFit(MACD_Daily_New(Shown)) /\ AllFit(ASI(Shown))
  <1>1. \A side \in Sides : \A may : AllFit({Reversal(side, enters) : enters \in Filters(may)})
    BY FiltersFit
  <1>2. "BUY" \in Sides /\ "SELL" \in Sides
    BY DEF Sides
  <1>3. AllFit(MACD_Daily_New_Buy(Shown)) /\ AllFit(MACD_Daily_New_Sell(Shown)) /\ AllFit(MACD_Daily_New_Exits)
    BY <1>1, <1>2, CrossExitsFit DEF MACD_Daily_New_Buy, MACD_Daily_New_Sell, MACD_Daily_New_Exits
  <1>4. AllFit(MACD_Daily_New(Shown))
    BY <1>3, NothingFits DEF AllFit, MACD_Daily_New
  <1>5. AllFit(MACD_Daily_Buy(Shown)) /\ AllFit(MACD_Daily_Sell(Shown)) /\ AllFit(MACD_Daily_Exits)
    BY <1>1, <1>2, CrossExitsFit DEF MACD_Daily_Buy, MACD_Daily_Sell, MACD_Daily_Exits, MACD_Daily_BuyFilters,
                                     MACD_Daily_SellFilters
  <1>6. ASSUME NEW d \in MACD_Daily_Buy(Shown) \cup MACD_Daily_Sell(Shown) \cup MACD_Daily_Exits,
               NEW may \in MACD_Daily_Filters(d.enter)
        PROVE  Fit([d EXCEPT !.enter = may])
    <2>1. Fit(d)
      BY <1>5 DEF AllFit
    <2>2. may => d.enter
      BY DEF MACD_Daily_Filters, Filters
    <2> QED
      BY <2>1, <2>2, WeakerFits
  <1>7. AllFit(MACD_Daily(Shown))
    BY <1>6, NothingFits DEF AllFit, MACD_Daily
  <1>8. AllFit(ASI(Shown))
    BY FollowFits DEF ASI
  <1> QED
    BY <1>4, <1>7, <1>8

\* The modes with the base line of Ichimoku, but for the rule of three bars.
LEMMA IchimokoFits ==
    ASSUME TypeInv, OrdersInv, mode \notin SoleModes \cup SidedModes
    PROVE  /\ AllFit(Ichimoko_Daily_Index(Shown)) /\ AllFit(Ichimoko_Daily_New(Shown))
           /\ AllFit(Ichimoko_Regression_Test(Shown)) /\ AllFit(Ichimoko_Weekly_Index(Shown))
  <1>1. \A side \in Sides : \A may : AllFit({Reversal(side, enters) : enters \in Filters(may)})
    BY FiltersFit
  <1>2. "BUY" \in Sides /\ "SELL" \in Sides
    BY DEF Sides
  <1>3. AllFit(Ichimoko_Daily_Index(Shown))
    BY FollowFits DEF Ichimoko_Daily_Index
  <1>4. \A decisions, count : AllFit(decisions) => AllFit(UpTo(count, Shown, decisions))
    <2> SUFFICES ASSUME NEW decisions, NEW count, AllFit(decisions), NEW d \in decisions
                 PROVE  Fit([d EXCEPT !.enter = @ /\ getOrderCount(Shown) < count])
      BY DEF AllFit, UpTo
    <2> DEFINE enter == d.enter /\ getOrderCount(Shown) < count
    <2>1. enter => d.enter
      OBVIOUS
    <2>2. Fit(d)
      BY DEF AllFit
    <2> HIDE DEF enter
    <2>3. Fit([d EXCEPT !.enter = enter])
      BY <2>1, <2>2, WeakerFits
    <2> QED
      BY <2>3 DEF enter
  <1>5. AllFit(Ichimoko_Buy(Shown)) /\ AllFit(Ichimoko_Sell(Shown))
    BY <1>1, <1>2 DEF Ichimoko_Buy, Ichimoko_Sell
  <1>6. AllFit(Ichimoko_Buy(Shown) \cup Ichimoko_Sell(Shown))
    BY <1>5 DEF AllFit
  <1>7. AllFit({Nothing} \cup Ichimoko_New_Entries(Shown))
    <2>1. \A count : AllFit(UpTo(count, Shown, Ichimoko_Buy(Shown) \cup Ichimoko_Sell(Shown)))
      BY <1>4, <1>6
    <2> QED
      BY <2>1, NothingFits DEF AllFit, Ichimoko_New_Entries
  <1>8. AllFit(Ichimoko_Daily_New(Shown))
    BY <1>7, WinningFits DEF Ichimoko_Daily_New
  <1>9. AllFit(Regression_Buy(Shown)) /\ AllFit(Regression_Sell(Shown))
    BY <1>1, <1>2 DEF Regression_Buy, Regression_Sell
  <1>10. AllFit(Regression_Buy(Shown) \cup Regression_Sell(Shown))
    BY <1>9 DEF AllFit
  <1>11. AllFit(Regression_Entries(Shown))
    BY <1>4, <1>10 DEF Regression_Entries
  <1>12. AllFit({Nothing} \cup Regression_Entries(Shown))
    BY <1>11, NothingFits DEF AllFit
  <1>13. AllFit(Ichimoko_Regression_Test(Shown))
    BY <1>12, WinningFits DEF Ichimoko_Regression_Test
  <1>14. \A may : AllFit(IF phase = "night" THEN {Nothing} ELSE {Reversal("BUY", may)})
    BY <1>2, NothingFits, ReversalFits DEF AllFit
  <1>15. AllFit(IF phase = "night" THEN {Nothing}
          ELSE {Reversal("BUY", getOrderCountForCurrentWeek(Shown) = 0)})
    <2> DEFINE may == getOrderCountForCurrentWeek(Shown) = 0
    <2> HIDE DEF may
    <2>1. AllFit(IF phase = "night" THEN {Nothing} ELSE {Reversal("BUY", may)})
      BY <1>14
    <2> QED
      BY <2>1 DEF may
  <1>16. AllFit(Ichimoko_Weekly_Index(Shown))
    BY <1>15, WinningFits DEF Ichimoko_Weekly_Index
  <1> QED
    BY <1>3, <1>8, <1>13, <1>16

-----------------------------------------------------------------------------
(* The modes for swings. *)

\* ShortTerm.
LEMMA ShortTermFits ==
    ASSUME TypeInv, OrdersInv, Sole, mode = "ShortTerm"
    PROVE  AllFit(ShortTerm(Shown))
  <1>1. mode \in SoleModes
    BY DEF SoleModes
  <1>2. NoPosition(Shown) => open = <<>>
    BY <1>1, NoneOpen
  <1> DEFINE yes == TRUE
             mays == Filters(NoPosition(Shown))
  <1>3. \A may \in mays : may => open = <<>>
    BY <1>2 DEF Filters
  <1>4. yes
    OBVIOUS
  <1> HIDE DEF yes, mays
  <1>5. ASSUME NEW side \in Sides, NEW may \in mays
        PROVE  Fit(IF may THEN Reversal(side, yes) ELSE Decision("none", FALSE, Other(side), {}))
    <2>1. CASE may
      <3>1. open = <<>>
        BY <1>3, <2>1
      <3>2. Fit(Reversal(side, yes))
        BY <3>1, ReversalFits
      <3> QED
        BY <2>1, <3>2
    <2>2. CASE ~may
      BY <2>2, NoEntryFits
    <2> QED
      BY <2>1, <2>2
  <1>6. \A side \in Sides : AllFit(ShortTermTrend(Shown, side))
    BY <1>5 DEF AllFit, ShortTermTrend, yes, mays
  <1> QED
    BY <1>6, NothingFits DEF AllFit, ShortTerm

\* Limit_BBS.
LEMMA Limit_BBSFits ==
    ASSUME TypeInv, OrdersInv, Sole, mode = "Limit_BBS"
    PROVE  AllFit(Limit_BBS(Shown))
  <1>1. ~hasOpenOrder(Shown) => open = <<>>
    BY NoneOpen
  <1>2. MovedStops(Shown) \subseteq Sides \cup {"none"}
    <2>1. hasOpenOrder(Shown) => Shown[OldestOpen(Shown)].type \in Sides
      BY PositionIs
    <2> QED
      BY <2>1 DEF MovedStops
  <1> DEFINE yes == TRUE
             mays == Filters(~hasOpenOrder(Shown))
  <1>3. \A may \in mays : may => open = <<>>
    BY <1>1 DEF Filters
  <1>4. yes
    OBVIOUS
  <1> HIDE DEF yes, mays
  <1>5. ASSUME NEW side \in Sides, NEW moved \in MovedStops(Shown), NEW may \in mays
        PROVE  Fit(IF may THEN Reversal(side, yes) ELSE Decision(moved, FALSE, Other(side), {}))
    <2>1. CASE may
      <3>1. open = <<>>
        BY <1>3, <2>1
      <3>2. Fit(Reversal(side, yes))
        BY <3>1, ReversalFits
      <3> QED
        BY <2>1, <3>2
    <2>2. CASE ~may
      BY <1>2, <2>2, NoEntryFits
    <2> QED
      BY <2>1, <2>2
  <1>6. \A side \in Sides, moved \in MovedStops(Shown) : AllFit(Limit_BBS_Trend(Shown, side, moved))
    <2> TAKE side \in Sides, moved \in MovedStops(Shown)
    <2>1. AllFit({IF may THEN Reversal(side, yes) ELSE Decision(moved, FALSE, Other(side), {}) : may \in mays})
      BY <1>5 DEF AllFit
    <2>2. AllFit(TurnedAgainst(Decision("none", FALSE, side, {})))
      BY NoEntryFits DEF AllFit, TurnedAgainst
    <2>3. AllFit({IF may THEN Reversal(side, TRUE) ELSE Decision(moved, FALSE, Other(side), {}) :
                     may \in Filters(~hasOpenOrder(Shown))})
      BY <2>1 DEF yes, mays
    <2> QED
      BY <2>2, <2>3 DEF AllFit, Limit_BBS_Trend
  <1>7. \A moved \in MovedStops(Shown) : Fit(Decision(moved, FALSE, "ALL", {}))
    BY <1>2, NoEntryFits
  <1>8. \A moved \in MovedStops(Shown) :
           AllFit({Decision(moved, FALSE, "ALL", {})} \cup UNION {Limit_BBS_Trend(Shown, side,
                   moved) : side \in Sides})
    BY <1>6, <1>7 DEF AllFit
  <1> QED
    BY <1>8 DEF AllFit, Limit_BBS

\* Limit_BBS_LongTerm.
LEMMA Limit_BBS_LongTermFits ==
    ASSUME mode \notin SoleModes \cup SidedModes, NEW zone
    PROVE  AllFit(Limit_BBS_LongTerm(Shown, zone))
  <1>1. \A side \in Sides : Fit(Reversal(side, ~isSamePricePendingOrder(Shown, zone)))
    BY ReversalFits
  <1>2. \A side \in Sides : AllFit(TurnedAgainst(Decision(side, FALSE, "ALL", {})))
    BY NoEntryFits DEF AllFit, TurnedAgainst
  <1> QED
    BY <1>1, <1>2, NothingFits DEF AllFit, Limit_BBS_LongTerm

\* An entry of a phase of the trend.
LEMMA PhaseEntryFits ==
    ASSUME mode \notin SoleModes \cup SidedModes, NEW side \in Sides, NEW may, NEW split, split \subseteq Parts
    PROVE  Fit(PhaseEntry(side, may, split))
  <1>1. NoSplit \subseteq Parts
    BY SplitsAre DEF Short
  <1>2. Fit(Reversal(side, may))
    BY ReversalFits
  <1> DEFINE some == IF may THEN split ELSE NoSplit
  <1>3. some \subseteq Parts
    BY <1>1
  <1> HIDE DEF some
  <1>4. Fit([Reversal(side, may) EXCEPT !.split = some])
    BY <1>2, <1>3, SplitFits
  <1> QED
    BY <1>4 DEF PhaseEntry, some

\* closeAllWithNegative closes open orders.
LEMMA NegativeFits ==
    ASSUME TypeInv, OrdersInv, NEW decisions, AllFit(decisions)
    PROVE  AllFit(closeAllWithNegative(decisions, Shown))
  <1> SUFFICES ASSUME NEW d \in decisions,
                      NEW picked \in SUBSET {o \in ShortTermOrders(Shown) : o.day # day \/ phase = "late"}
               PROVE  Fit([d EXCEPT !.named = Named(picked)])
    BY DEF AllFit, closeAllWithNegative
  <1>1. \A o \in picked : o \in ToSet(Shown) /\ IsOpen(o)
    BY DEF ShortTermOrders
  <1>2. \A ask \in Named(picked) : \E o : Among(o, open) /\ ask = <<o.type, o.ticket>>
    BY <1>1, PickedAreOpen
  <1>3. Fit(d)
    BY DEF AllFit
  <1> QED
    BY <1>2, <1>3, NamedFits

\* Auto and Auto_KeyK.
LEMMA Auto_TrendFits ==
    ASSUME TypeInv, OrdersInv, mode \notin SoleModes \cup SidedModes, NEW zone
    PROVE  AllFit(Auto_Trend(Shown, zone)) /\ AllFit(Auto_KeyK(Shown, zone))
  <1> DEFINE byPhase == UNION {BEGINNING_PHASE(Shown, side, zone) \cup MIDDLE_PHASE(Shown, side, zone)
                               \cup MIDDLE_RETREAT_PHASE(Shown, side, zone) : side \in Sides}
             trading == closeAllWithNegative(byPhase, Shown) \cup RANGE_PHASE
             today == closeAllCurrentDayShortTermOrders(Shown)
             small == {[d EXCEPT !.named = @ \cup today] : d \in trading}
  <1>1. \A t : split_ShortTerm(t) \subseteq Parts
    BY SplitsAre DEF Short
  <1>2. NoSplit \subseteq Parts
    BY SplitsAre DEF Short
  <1>3. \A side \in Sides : /\ AllFit(BEGINNING_PHASE(Shown, side, zone))
                            /\ AllFit(MIDDLE_PHASE(Shown, side, zone))
                            /\ AllFit(MIDDLE_RETREAT_PHASE(Shown, side, zone))
    <2> TAKE side \in Sides
    <2> DEFINE far == ~isSamePricePendingOrder(Shown, zone)
               farToday == ~isSameDaySamePricePendingOrder(Shown, zone)
               split == split_ShortTerm(Cardinality(Today(Shown)))
    <2>1. split \subseteq Parts
      BY <1>1
    <2> HIDE DEF far, farToday, split
    <2>2. Fit(PhaseEntry(side, far, split)) /\ Fit(PhaseEntry(side, farToday, split))
          /\ Fit(PhaseEntry(side, farToday, NoSplit))
      BY <1>2, <2>1, PhaseEntryFits
    <2> QED
      BY <2>2 DEF AllFit, BEGINNING_PHASE, MIDDLE_PHASE, MIDDLE_RETREAT_PHASE, far, farToday, split
  <1>4. AllFit(byPhase)
    BY <1>3 DEF AllFit
  <1> HIDE DEF byPhase
  <1>5. AllFit(closeAllWithNegative(byPhase, Shown))
    BY <1>4, NegativeFits
  <1>6. AllFit(trading)
    BY <1>5, NothingFits DEF AllFit, RANGE_PHASE
  <1> HIDE DEF trading
  <1>7. \A ask \in today : \E o : Among(o, open) /\ ask = <<o.type, o.ticket>>
    <2> DEFINE picked == {o \in ShortTermOrders(Shown) : o.day = day}
    <2>1. \A o \in picked : o \in ToSet(Shown) /\ IsOpen(o)
      BY DEF ShortTermOrders
    <2>2. today = Named(picked)
      BY DEF closeAllCurrentDayShortTermOrders
    <2> HIDE DEF picked, today
    <2> QED
      BY <2>1, <2>2, PickedAreOpen
  <1> HIDE DEF today
  <1>8. AllFit(small)
    <2> SUFFICES ASSUME NEW d \in trading PROVE Fit([d EXCEPT !.named = d.named \cup today])
      BY DEF AllFit
    <2>1. Fit(d)
      BY <1>6 DEF AllFit
    <2>2. \A ask \in d.named \cup today : \E o : Among(o, open) /\ ask = <<o.type, o.ticket>>
      BY <1>7, <2>1 DEF Fit, NamedOpen
    <2> QED
      BY <2>1, <2>2, NamedFits
  <1> HIDE DEF small
  <1>9. \A decisions : AllFit(decisions) => AllFit(profitManagement(decisions, Shown))
    <2> SUFFICES ASSUME NEW decisions, AllFit(decisions) PROVE AllFit(profitManagement(decisions, Shown))
      OBVIOUS
    <2>1. AllFit({[d EXCEPT !.enter = FALSE, !.split = NoSplit] : d \in decisions})
      BY TakenAway DEF AllFit
    <2>2. AllFit(Winning({[d EXCEPT !.enter = FALSE, !.split = NoSplit] : d \in decisions}, Shown))
      BY <2>1, WinningFits
    <2> QED
      BY <2>2 DEF AllFit, profitManagement
  <1>10. AllFit(trading \cup small)
    BY <1>6, <1>8 DEF AllFit
  <1>11. AllFit(profitManagement(trading \cup small, Shown))
    BY <1>9, <1>10
  <1>12. Auto_Trend(Shown, zone) = profitManagement(trading \cup small, Shown)
    BY DEF Auto_Trend, byPhase, trading, today, small
  <1>13. AllFit(Auto_Trend(Shown, zone))
    BY <1>11, <1>12
  <1>14. split_KeyK \subseteq Parts
    BY SplitsAre
  <1>15. \A side \in Sides : \A may \in BOOLEAN : Fit(PhaseEntry(side, may, split_KeyK))
    BY <1>14, PhaseEntryFits
  <1>16. AllFit(Auto_KeyK(Shown, zone))
    BY <1>13, <1>15 DEF AllFit, Auto_KeyK, KeyKFirst
  <1> QED
    BY <1>13, <1>16

\* WeeklyAuto.
LEMMA WeeklyAutoFits ==
    ASSUME TypeInv, OrdersInv, mode \notin SoleModes \cup SidedModes, NEW zone
    PROVE  AllFit(WeeklyAuto(Shown, zone))
  <1> DEFINE phases == UNION {WeeklyPhases(Shown, side, zone) : side \in Sides}
  <1>1. \A side \in Sides : AllFit(WeeklyPhases(Shown, side, zone))
    <2> TAKE side \in Sides
    <2>1. \A split \in {split_Weekly_ShortTerm(side), NoSplit, split_DayTrading} : split \subseteq Parts
      BY WeeklySplit, SplitsAre DEF Short
    <2> QED
      BY <2>1, PhaseEntryFits DEF AllFit, WeeklyPhases
  <1>2. AllFit(phases)
    BY <1>1 DEF AllFit
  <1> HIDE DEF phases
  <1>3. AllFit(closeAllWithNegative(phases, Shown))
    BY <1>2, NegativeFits
  <1>4. AllFit(closeAllWithNegative(phases, Shown) \cup RANGE_PHASE)
    BY <1>3, NothingFits DEF AllFit, RANGE_PHASE
  <1>5. AllFit(Winning(closeAllWithNegative(phases, Shown) \cup RANGE_PHASE, Shown))
    BY <1>4, WinningFits
  <1> QED
    BY <1>5 DEF WeeklyAuto, profitManagementWeekly, phases

\* ATR_Hedge.
LEMMA ATR_HedgeFits ==
    ASSUME mode \notin SoleModes \cup SidedModes
    PROVE  AllFit(ATR_Hedge(Shown))
  <1>1. \A side \in Sides : Fit(Reversal(side, phase = "day" /\ ~hasSameDayOrder(Shown)))
    <2> DEFINE may == phase = "day" /\ ~hasSameDayOrder(Shown)
    <2> HIDE DEF may
    <2>1. \A side \in Sides : Fit(Reversal(side, may))
      BY ReversalFits
    <2> QED
      BY <2>1 DEF may
  <1> QED
    BY <1>1, NothingFits DEF AllFit, ATR_Hedge

-----------------------------------------------------------------------------
(* The modes that hold a position over days. *)

\* enterOrder_MultipleDay, without a position.
LEMMA enterOrderFits ==
    ASSUME mode \notin SoleModes, open = <<>>, NEW may, NEW split, split \subseteq Parts
    PROVE  AllFit(enterOrder_MultipleDay(may, split))
  <1> DEFINE New(side, enters) == [Reversal(side, enters) EXCEPT !.split = IF enters THEN split ELSE NoSplit]
  <1>1. ASSUME NEW side \in Sides, NEW enters PROVE Fit(New(side, enters))
    <2> DEFINE some == IF enters THEN split ELSE NoSplit
    <2>1. NoSplit \subseteq Parts
      BY SplitsAre DEF Short
    <2>2. some \subseteq Parts
      BY <2>1
    <2>3. Fit(Reversal(side, enters))
      BY ReversalFits
    <2> HIDE DEF some
    <2>4. Fit([Reversal(side, enters) EXCEPT !.split = some])
      BY <2>2, <2>3, SplitFits
    <2> QED
      BY <2>4 DEF some
  <1> DEFINE mays == {may, FALSE}
             news == {New(side, enters) : side \in Sides, enters \in mays}
  <1>2. enterOrder_MultipleDay(may, split) = {Nothing} \cup news
    BY DEF enterOrder_MultipleDay
  <1> HIDE DEF New, mays
  <1>3. \A d \in news : \E side \in Sides, enters \in mays : d = New(side, enters)
    OBVIOUS
  <1> HIDE DEF news
  <1>4. \A d \in news : Fit(d)
    BY <1>1, <1>3
  <1> QED
    BY <1>2, <1>4, NothingFits DEF AllFit

\* MultipleDay: what is added is on the side of the position.
LEMMA MultipleDayFits ==
    ASSUME TypeInv, OrdersInv, Sole, SameSide, mode = "MultipleDay", NEW zone
    PROVE  AllFit(MultipleDay(Shown, zone))
  <1>1. mode \in SidedModes /\ mode \notin SoleModes /\ (~hasOpenOrder(Shown) => open = <<>>)
    BY NoneOpen DEF SidedModes, SoleModes, BEILIModes
  <1>2. \A m : split_MultiDays_Swing(m) \subseteq Parts
    BY SplitsAre
  <1>3. hasOpenOrder(Shown) => AllFit(AddPosition(Shown, zone))
    <2> SUFFICES ASSUME hasOpenOrder(Shown)
                 PROVE  Fit([Enter(PositionSide(Shown)) EXCEPT !.split = split_MultiDays_Swing(2)])
      BY DEF AllFit, AddPosition
    <2>1. PICK o : Among(o, open) /\ o = Shown[OldestOpen(Shown)] /\ o.type \in Sides
      BY PositionIs
    <2> DEFINE side == PositionSide(Shown)
               yes == TRUE
               d == Decision(side, yes, "none", {})
    <2>2. side \in Sides /\ \A p : Among(p, open) => p.type = side
      BY <1>1, <2>1 DEF PositionSide, SameSide
    <2>3. Enter(side) = d
      BY DEF Enter
    <2> HIDE DEF side, yes
    <2>4. IsDecision(d) /\ d.trend = side /\ d.named = {}
      BY <2>2, DecisionIs
    <2> HIDE DEF d
    <2>5. Fit(d)
      BY <1>1, <2>2, <2>4 DEF Fit, Turns, NamedOpen
    <2>6. Fit([d EXCEPT !.split = split_MultiDays_Swing(2)])
      BY <1>1, <1>2, <2>5, SplitFits
    <2> QED
      BY <2>3, <2>6 DEF side
  <1>4. AllFit(AddIfAny(Shown, zone))
    BY <1>3 DEF AllFit, AddIfAny
  <1>5. hasOpenOrder(Shown) => AllFit(modifyOrder_MultipleDay(PositionSide(Shown)))
    <2>1. hasOpenOrder(Shown) => PositionSide(Shown) \in Sides
      BY PositionIs DEF PositionSide
    <2>2. \A side \in Sides : Other(side) \in Sides
      BY DEF Other, Sides
    <2> QED
      BY <2>1, <2>2, NoEntryFits, NothingFits DEF AllFit, modifyOrder_MultipleDay
  <1>6. ~hasOpenOrder(Shown) => AllFit(enterOrder_MultipleDay(~ClosedToday(Shown), split_MultiDays_Swing(1)))
    <2> DEFINE may == ~ClosedToday(Shown)
    <2> HIDE DEF may
    <2>1. ~hasOpenOrder(Shown) => AllFit(enterOrder_MultipleDay(may, split_MultiDays_Swing(1)))
      BY <1>1, <1>2, enterOrderFits
    <2> QED
      BY <2>1 DEF may
  <1>7. AllFit(Trades(Shown))
    BY <1>5, <1>6 DEF Trades
  <1>8. \A sameDay, filter : AllFit(Asked(Shown, sameDay, filter))
    BY <1>7, NothingFits DEF AllFit, Asked
  <1>9. /\ AllFit(XAGUSD(Shown)) /\ AllFit(BTCUSD(Shown)) /\ AllFit(GBPUSD(Shown)) /\ AllFit(AUDUSD(Shown))
    BY <1>8 DEF XAGUSD, BTCUSD, GBPUSD, AUDUSD
  <1>10. AllFit(XAUUSD(Shown, zone)) /\ AllFit(GBPJPY(Shown, zone))
    BY <1>4, <1>8, <1>9 DEF AllFit, XAUUSD, GBPJPY
  <1> QED
    BY <1>9, <1>10, NothingFits DEF AllFit, MultipleDay, EndOfDay

\* MultipleDay_V2.
LEMMA MultipleDay_V2Fits ==
    ASSUME TypeInv, OrdersInv, Sole, mode = "MultipleDay_V2"
    PROVE  AllFit(MultipleDay_V2(Shown))
  <1>1. mode \notin SoleModes /\ (~hasOpenOrder(Shown) => open = <<>>)
    BY NoneOpen DEF SoleModes, BEILIModes
  <1>2. split_MultiDays_Swing_V2 \subseteq Parts /\ NoSplit \subseteq Parts
    BY SplitsAre DEF Short
  <1>3. ~hasOpenOrder(Shown) => AllFit(enterOrder_MultipleDay(TRUE, split_MultiDays_Swing_V2))
    <2> DEFINE may == TRUE
    <2> HIDE DEF may
    <2>1. ~hasOpenOrder(Shown) => AllFit(enterOrder_MultipleDay(may, split_MultiDays_Swing_V2))
      BY <1>1, <1>2, enterOrderFits
    <2> QED
      BY <2>1 DEF may
  <1> QED
    BY <1>3, NothingFits DEF AllFit, MultipleDay_V2, EndOfDay

\* Both modes of BEILI.
LEMMA BEILIFits ==
    ASSUME TypeInv, OrdersInv, Sole, mode \in BEILIModes
    PROVE  AllFit(MACD_BEILI(Shown)) /\ AllFit(MACD_BEILI_Daily_Regression(Shown))
  <1> DEFINE may == NoPosition(Shown) /\ ~ClosedToday(Shown)
  <1>1. mode \in SoleModes
    BY DEF SoleModes
  <1>2. may => open = <<>>
    BY <1>1, NoneOpen
  <1> HIDE DEF may
  <1>3. AllFit(Follow(may))
    BY <1>2, FollowFits
  <1> QED
    BY <1>3 DEF MACD_BEILI, MACD_BEILI_Daily_Regression, may

-----------------------------------------------------------------------------
(* All the modes. *)

OneSidedModes == (TrendFollowing \ {"Ichimoko_Daily_V2"}) \cup OneSidedSwings \cup MultipleDayModes

\* The modes whose entries add nothing to the orders on the other side.
LEMMA ModeFits ==
    ASSUME TypeInv, OrdersInv, Sole, SameSide, mode \in OneSidedModes,
           NEW under, NEW losing, NEW beyond, NEW zone
    PROVE  AllFit(workoutExecutionTrend(Shown, under, losing, beyond, zone))
  <1> DEFINE all == workoutExecutionTrend(Shown, under, losing, beyond, zone)
  <1>1. \A decisions : AllFit(decisions) => AllFit(Filtered(decisions))
    BY FilteredFits
  <1>2. CASE mode = "4HBBS_Swing_BoDuan"
    <2>1. all = Filtered(BoDuan(Shown))
      BY <1>2 DEF workoutExecutionTrend
    <2>2. mode \notin SoleModes \cup SidedModes
      BY <1>2 DEF SoleModes, SidedModes, BEILIModes
    <2>3. AllFit(BoDuan(Shown))
      BY <2>2, BoDuanFits
    <2> QED
      BY <1>1, <2>1, <2>3
  <1>3. CASE mode = "4HBBS_Swing_XAUUSD_BoDuan"
    <2>1. all = Filtered(XAUUSD_BoDuan(Shown))
      BY <1>3 DEF workoutExecutionTrend
    <2>2. mode \notin SoleModes \cup SidedModes
      BY <1>3 DEF SoleModes, SidedModes, BEILIModes
    <2>3. AllFit(XAUUSD_BoDuan(Shown))
      BY <2>2, BoDuanFits
    <2> QED
      BY <1>1, <2>1, <2>3
  <1>4. CASE mode = "4H_Shellington"
    <2>1. all = Filtered(Shellington(Shown))
      BY <1>4 DEF workoutExecutionTrend
    <2>2. AllFit(Shellington(Shown))
      BY <1>4, ShellingtonFits
    <2> QED
      BY <1>1, <2>1, <2>2
  <1>5. CASE mode = "MACD_Weekly"
    <2>1. all = Filtered(MACD_Weekly(Shown))
      BY <1>5 DEF workoutExecutionTrend
    <2>2. AllFit(MACD_Weekly(Shown))
      BY <1>5, MACD_WeeklyFits
    <2> QED
      BY <1>1, <2>1, <2>2
  <1>6. CASE mode = "MACD_Daily"
    <2>1. all = Filtered(MACD_Daily(Shown))
      BY <1>6 DEF workoutExecutionTrend
    <2>2. mode \notin SoleModes \cup SidedModes
      BY <1>6 DEF SoleModes, SidedModes, BEILIModes
    <2>3. AllFit(MACD_Daily(Shown))
      BY <2>2, MACD_DailyFits
    <2> QED
      BY <1>1, <2>1, <2>3
  <1>7. CASE mode = "MACD_Daily_New"
    <2>1. all = Filtered(MACD_Daily_New(Shown))
      BY <1>7 DEF workoutExecutionTrend
    <2>2. mode \notin SoleModes \cup SidedModes
      BY <1>7 DEF SoleModes, SidedModes, BEILIModes
    <2>3. AllFit(MACD_Daily_New(Shown))
      BY <2>2, MACD_DailyFits
    <2> QED
      BY <1>1, <2>1, <2>3
  <1>8. CASE mode = "ASI"
    <2>1. all = Filtered(ASI(Shown))
      BY <1>8 DEF workoutExecutionTrend
    <2>2. mode \notin SoleModes \cup SidedModes
      BY <1>8 DEF SoleModes, SidedModes, BEILIModes
    <2>3. AllFit(ASI(Shown))
      BY <2>2, MACD_DailyFits
    <2> QED
      BY <1>1, <2>1, <2>3
  <1>9. CASE mode = "Ichimoko_Daily_Index"
    <2>1. all = Filtered(Ichimoko_Daily_Index(Shown))
      BY <1>9 DEF workoutExecutionTrend
    <2>2. mode \notin SoleModes \cup SidedModes
      BY <1>9 DEF SoleModes, SidedModes, BEILIModes
    <2>3. AllFit(Ichimoko_Daily_Index(Shown))
      BY <2>2, IchimokoFits
    <2> QED
      BY <1>1, <2>1, <2>3
  <1>10. CASE mode = "Ichimoko_Daily_New"
    <2>1. all = Filtered(Ichimoko_Daily_New(Shown))
      BY <1>10 DEF workoutExecutionTrend
    <2>2. mode \notin SoleModes \cup SidedModes
      BY <1>10 DEF SoleModes, SidedModes, BEILIModes
    <2>3. AllFit(Ichimoko_Daily_New(Shown))
      BY <2>2, IchimokoFits
    <2> QED
      BY <1>1, <2>1, <2>3
  <1>11. CASE mode = "Ichimoko_Daily_Index_Regression_Test"
    <2>1. all = Filtered(Ichimoko_Regression_Test(Shown))
      BY <1>11 DEF workoutExecutionTrend
    <2>2. mode \notin SoleModes \cup SidedModes
      BY <1>11 DEF SoleModes, SidedModes, BEILIModes
    <2>3. AllFit(Ichimoko_Regression_Test(Shown))
      BY <2>2, IchimokoFits
    <2> QED
      BY <1>1, <2>1, <2>3
  <1>12. CASE mode = "Ichimoko_Weekly_Index"
    <2>1. all = Filtered(Ichimoko_Weekly_Index(Shown))
      BY <1>12 DEF workoutExecutionTrend
    <2>2. mode \notin SoleModes \cup SidedModes
      BY <1>12 DEF SoleModes, SidedModes, BEILIModes
    <2>3. AllFit(Ichimoko_Weekly_Index(Shown))
      BY <2>2, IchimokoFits
    <2> QED
      BY <1>1, <2>1, <2>3
  <1>13. CASE mode = "ShortTerm"
    <2>1. all = Filtered(ShortTerm(Shown))
      BY <1>13 DEF workoutExecutionTrend
    <2>2. AllFit(ShortTerm(Shown))
      BY <1>13, ShortTermFits
    <2> QED
      BY <1>1, <2>1, <2>2
  <1>14. CASE mode = "Limit_BBS"
    <2>1. all = Filtered(Limit_BBS(Shown))
      BY <1>14 DEF workoutExecutionTrend
    <2>2. AllFit(Limit_BBS(Shown))
      BY <1>14, Limit_BBSFits
    <2> QED
      BY <1>1, <2>1, <2>2
  <1>15. CASE mode = "Limit_BBS_LongTerm"
    <2>1. all = Filtered(Limit_BBS_LongTerm(Shown, zone))
      BY <1>15 DEF workoutExecutionTrend
    <2>2. mode \notin SoleModes \cup SidedModes
      BY <1>15 DEF SoleModes, SidedModes, BEILIModes
    <2>3. AllFit(Limit_BBS_LongTerm(Shown, zone))
      BY <2>2, Limit_BBS_LongTermFits
    <2> QED
      BY <1>1, <2>1, <2>3
  <1>16. CASE mode = "Auto"
    <2>1. all = Filtered(Auto_Trend(Shown, zone))
      BY <1>16 DEF workoutExecutionTrend
    <2>2. mode \notin SoleModes \cup SidedModes
      BY <1>16 DEF SoleModes, SidedModes, BEILIModes
    <2>3. AllFit(Auto_Trend(Shown, zone))
      BY <2>2, Auto_TrendFits
    <2> QED
      BY <1>1, <2>1, <2>3
  <1>17. CASE mode = "Auto_KeyK"
    <2>1. all = Filtered(Auto_KeyK(Shown, zone))
      BY <1>17 DEF workoutExecutionTrend
    <2>2. mode \notin SoleModes \cup SidedModes
      BY <1>17 DEF SoleModes, SidedModes, BEILIModes
    <2>3. AllFit(Auto_KeyK(Shown, zone))
      BY <2>2, Auto_TrendFits
    <2> QED
      BY <1>1, <2>1, <2>3
  <1>18. CASE mode = "WeeklyAuto"
    <2>1. all = Filtered(WeeklyAuto(Shown, zone))
      BY <1>18 DEF workoutExecutionTrend
    <2>2. mode \notin SoleModes \cup SidedModes
      BY <1>18 DEF SoleModes, SidedModes, BEILIModes
    <2>3. AllFit(WeeklyAuto(Shown, zone))
      BY <2>2, WeeklyAutoFits
    <2> QED
      BY <1>1, <2>1, <2>3
  <1>19. CASE mode = "ATR_Hedge"
    <2>1. all = Filtered(ATR_Hedge(Shown))
      BY <1>19 DEF workoutExecutionTrend
    <2>2. mode \notin SoleModes \cup SidedModes
      BY <1>19 DEF SoleModes, SidedModes, BEILIModes
    <2>3. AllFit(ATR_Hedge(Shown))
      BY <2>2, ATR_HedgeFits
    <2> QED
      BY <1>1, <2>1, <2>3
  <1>20. CASE mode = "MultipleDay"
    <2>1. all = Filtered(MultipleDay(Shown, zone))
      BY <1>20 DEF workoutExecutionTrend
    <2>2. AllFit(MultipleDay(Shown, zone))
      BY <1>20, MultipleDayFits
    <2> QED
      BY <1>1, <2>1, <2>2
  <1>21. CASE mode = "MultipleDay_V2"
    <2>1. all = Filtered(MultipleDay_V2(Shown))
      BY <1>21 DEF workoutExecutionTrend
    <2>2. AllFit(MultipleDay_V2(Shown))
      BY <1>21, MultipleDay_V2Fits
    <2> QED
      BY <1>1, <2>1, <2>2
  <1>22. CASE mode = "MACD_BEILI"
    <2>1. all = Filtered(MACD_BEILI(Shown))
      BY <1>22 DEF workoutExecutionTrend
    <2>2. AllFit(MACD_BEILI(Shown))
      BY <1>22, BEILIFits DEF BEILIModes
    <2> QED
      BY <1>1, <2>1, <2>2
  <1>23. CASE mode = "MACD_BEILI_Daily_Regression"
    <2>1. all = Filtered(MACD_BEILI_Daily_Regression(Shown))
      BY <1>23 DEF workoutExecutionTrend
    <2>2. AllFit(MACD_BEILI_Daily_Regression(Shown))
      BY <1>23, BEILIFits DEF BEILIModes
    <2> QED
      BY <1>1, <2>1, <2>2
  <1>24. mode \in {"4HBBS_Swing_BoDuan", "4HBBS_Swing_XAUUSD_BoDuan", "4H_Shellington",
                    "MACD_Weekly", "MACD_Daily", "MACD_Daily_New", "ASI", "Ichimoko_Daily_Index",
                    "Ichimoko_Daily_New", "Ichimoko_Daily_Index_Regression_Test",
                    "Ichimoko_Weekly_Index", "ShortTerm", "Limit_BBS", "Limit_BBS_LongTerm", "Auto",
                    "Auto_KeyK", "WeeklyAuto", "ATR_Hedge", "MultipleDay", "MultipleDay_V2",
                    "MACD_BEILI", "MACD_BEILI_Daily_Regression"}
    BY DEF OneSidedModes, TrendFollowing, OneSidedSwings, SwingModes, MultipleDayModes, BEILIModes, BoDuanModes,
           MACD_DailyModes, OrderADayModes
  <1> HIDE DEF all
  <1> QED
    BY <1>2, <1>3, <1>4, <1>5, <1>6, <1>7, <1>8, <1>9, <1>10, <1>11, <1>12, <1>13, <1>14, <1>15,
       <1>16, <1>17, <1>18, <1>19, <1>20, <1>21, <1>22, <1>23, <1>24

-----------------------------------------------------------------------------
(* The other modes of AutoBBS decide something too. *)

\* A decision stays one when a field is changed.
LEMMA ChangedIs ==
    ASSUME NEW d, IsDecision(d), NEW value
    PROVE  /\ IsDecision([d EXCEPT !.enter = value])
           /\ IsDecision([d EXCEPT !.exit = value])
           /\ IsDecision([d EXCEPT !.named = value])
           /\ value \subseteq Parts => IsDecision([d EXCEPT !.split = value])
  <1> DEFINE a == [d EXCEPT !.enter = value]
             b == [d EXCEPT !.exit = value]
             c == [d EXCEPT !.named = value]
             e == [d EXCEPT !.split = value]
  <1>1. IsDecision(a)
    BY DEF IsDecision
  <1>2. IsDecision(b)
    BY DEF IsDecision
  <1>3. IsDecision(c)
    BY DEF IsDecision
  <1>4. value \subseteq Parts => IsDecision(e)
    BY DEF IsDecision, Parts
  <1> QED
    BY <1>1, <1>2, <1>3, <1>4

\* The decisions the modes begin with.
LEMMA SimpleDecisions ==
    /\ \A trend \in Sides \cup {"none"} : \A enter, exit, named : IsDecision(Decision(trend, enter, exit,
            named))
    /\ \A side \in Sides : \A may : IsDecision(Reversal(side, may)) /\ IsDecision(Enter(side))
    /\ IsDecision(Nothing) /\ IsDecision(ExitAll) /\ \A condition : AllDecisions(ExitIf(condition))
  <1>1. \A trend \in Sides \cup {"none"} : \A enter, exit, named : IsDecision(Decision(trend, enter, exit,
          named))
    BY DecisionIs
  <1>2. \A side \in Sides : \A may : IsDecision(Reversal(side, may))
    BY <1>1 DEF Reversal
  <1>3. \A side \in Sides : IsDecision(Enter(side))
    BY <1>1 DEF Enter
  <1>4. IsDecision(Nothing) /\ IsDecision(ExitAll)
    BY <1>1 DEF Nothing, ExitAll
  <1>5. \A condition : AllDecisions(ExitIf(condition))
    BY <1>4 DEF AllDecisions, ExitIf
  <1> QED
    BY <1>1, <1>2, <1>3, <1>4, <1>5

\* The filters leave decisions.
LEMMA TakenAwayIs ==
    ASSUME NEW decisions, AllDecisions(decisions)
    PROVE  AllDecisions(Filtered(decisions)) /\ AllDecisions(MayNotEnter(decisions))
  <1>1. ASSUME NEW d \in decisions
        PROVE  /\ IsDecision([d EXCEPT !.enter = FALSE])
               /\ IsDecision([d EXCEPT !.enter = FALSE, !.split = NoSplit])
    <2> DEFINE no == FALSE
               e == [d EXCEPT !.enter = no]
    <2>0. no = FALSE
      OBVIOUS
    <2> HIDE DEF no
    <2>1. IsDecision(e)
      BY <1>1, ChangedIs DEF AllDecisions
    <2>2. e = [d EXCEPT !.enter = FALSE]
      BY <2>0
    <2>3. NoSplit \subseteq Parts
      BY SplitsAre DEF Short
    <2>4. [e EXCEPT !.split = NoSplit] = [d EXCEPT !.enter = FALSE, !.split = NoSplit]
      BY <2>0
    <2> HIDE DEF e
    <2>5. IsDecision([e EXCEPT !.split = NoSplit])
      BY <2>1, <2>3, ChangedIs
    <2> QED
      BY <2>1, <2>2, <2>4, <2>5
  <1> QED
    BY <1>1 DEF AllDecisions, Filtered, MayNotEnter

\* The last of the orders shown is on one of the two sides.
LEMMA LatestSide ==
    ASSUME TypeInv, OrdersInv, hasSameDayOrder(Shown)
    PROVE  Latest(Shown).type \in Sides
  <1>1. AccountOpen
    BY AccountIs
  <1>2. Shown \in Seq(Order)
    BY <1>1, HeldIs DEF Shown
  <1>3. Shown # <<>>
    <2>1. Today(Shown) \subseteq 1..Len(Shown) /\ Today(Shown) # {}
      BY <1>2 DEF hasSameDayOrder, Today
    <2>2. Len(Shown) # 0
      BY <2>1
    <2> QED
      BY <2>2
  <1>4. PICK n \in 1..Len(Shown) : Latest(Shown) = Shown[n]
    BY <1>2, <1>3, LatestIs
  <1>5. Shown[n] \in Order
    BY <1>2
  <1> QED
    BY <1>4, <1>5 DEF Order

\* The other side is a side.
LEMMA OtherIs == \A type : Other(type) \in Sides
  BY DEF Other, Sides

\* GBPJPY_DayTrading_Ver2.
LEMMA Ver2Decides ==
    ASSUME TypeInv, OrdersInv, NEW losing, NEW beyond
    PROVE  AllDecisions(GBPJPY_DayTrading_Ver2(Shown, losing, beyond))
  <1>1. AllDecisions(OnAPosition(Shown, losing, beyond))
    <2>1. \A type : \A may : IsDecision(Reversal(Other(type), may))
      BY SimpleDecisions, OtherIs
    <2>2. \A named : IsDecision(Decision("none", FALSE, "none", named))
      BY SimpleDecisions
    <2> QED
      BY <2>1, <2>2, SimpleDecisions DEF AllDecisions, OnAPosition
  <1>2. AllDecisions(Ver2Trades(Shown, losing, beyond))
    <2>1. \A side \in Sides : IsDecision(Enter(side))
      BY SimpleDecisions
    <2>2. \A condition : AllDecisions(ExitIf(condition))
      BY SimpleDecisions
    <2>3. AllDecisions({Nothing} \cup {Enter(side) : side \in IF phase = "evening" THEN {} ELSE Sides})
      BY <2>1, SimpleDecisions DEF AllDecisions
    <2>4. AllDecisions({Nothing})
      BY SimpleDecisions DEF AllDecisions
    <2> QED
      BY <1>1, <2>2, <2>3, <2>4 DEF Ver2Trades
  <1>3. AllDecisions(ClosesBeforeTrading(Shown))
    BY SimpleDecisions DEF ClosesBeforeTrading
  <1> DEFINE allowed == IF auto THEN GBPJPY_DayTrading_Allow_Trade ELSE {TRUE}
             last == UNION {IF may THEN Ver2Trades(Shown, losing, beyond) ELSE {Nothing} : may \in allowed}
  <1>4. AllDecisions(last)
    BY <1>2, SimpleDecisions DEF AllDecisions
  <1>5. AllDecisions({Nothing})
    BY SimpleDecisions DEF AllDecisions
  <1>6. GBPJPY_DayTrading_Ver2(Shown, losing, beyond) =
           CASE phase = "one" -> ClosesBeforeTrading(Shown) [] phase = "first" -> {Nothing} [] OTHER -> last
    BY DEF GBPJPY_DayTrading_Ver2
  <1> HIDE DEF last
  <1> QED
    BY <1>3, <1>4, <1>5, <1>6

\* DayTrading_ExecutionOnly.
LEMMA ExecutionOnlyDecides ==
    ASSUME NEW beyond
    PROVE  AllDecisions(DayTrading_ExecutionOnly(Shown, beyond))
  <1>1. AllDecisions(ClosesBeforeTrading(Shown)) /\ \A condition : AllDecisions(ExitIf(condition))
    BY SimpleDecisions DEF ClosesBeforeTrading
  <1>2. AllDecisions({Nothing})
    BY SimpleDecisions DEF AllDecisions
  <1>3. AllDecisions({Nothing} \cup {Enter(side) : side \in IF phase = "evening" \/ hasSameDayOrder(Shown)
                                                            THEN {} ELSE Sides})
    BY SimpleDecisions DEF AllDecisions
  <1> QED
    BY <1>1, <1>2, <1>3 DEF DayTrading_ExecutionOnly

\* XAUUSD_DayTrading.
LEMMA XAUUSDDecides ==
    ASSUME TypeInv, OrdersInv, NEW under, NEW losing, NEW beyond
    PROVE  AllDecisions(XAUUSD_DayTrading(Shown, under, losing, beyond))
  <1>1. AllDecisions(XAUUSD_First)
    BY SimpleDecisions DEF AllDecisions, XAUUSD_First
  <1>2. hasSameDayOrder(Shown) => AllDecisions(XAUUSD_Further(Shown, losing, beyond))
    <2> SUFFICES ASSUME hasSameDayOrder(Shown) PROVE AllDecisions(XAUUSD_Further(Shown, losing, beyond))
      OBVIOUS
    <2> DEFINE type == Latest(Shown).type
               sides == IF IsOpen(Latest(Shown)) THEN {Other(type)} ELSE Sides
    <2>1. type \in Sides /\ sides \subseteq Sides
      BY LatestSide, OtherIs
    <2>2. XAUUSD_Further(Shown, losing, beyond) =
             {Decision(type, FALSE, "none", {})} \cup {Entry(Shown, side, losing, beyond) : side \in sides}
      BY DEF XAUUSD_Further
    <2> HIDE DEF type, sides
    <2>3. IsDecision(Decision(type, FALSE, "none", {}))
      BY <2>1, SimpleDecisions
    <2>4. \A side \in sides : IsDecision(Entry(Shown, side, losing, beyond))
      BY <2>1, SimpleDecisions DEF Entry
    <2> QED
      BY <2>2, <2>3, <2>4 DEF AllDecisions
  <1>3. hasSameDayOrder(Shown) => AllDecisions(XAUUSD_EndOfDay(Shown))
    BY LatestSide, SimpleDecisions DEF AllDecisions, XAUUSD_EndOfDay
  <1>4. hasSameDayOrder(Shown) => AllDecisions(StopCheck(Shown, losing, beyond))
    BY LatestSide, SimpleDecisions DEF AllDecisions, StopCheck
  <1> DEFINE trades == IF ~hasSameDayOrder(Shown) THEN XAUUSD_First
                       ELSE XAUUSD_Further(Shown, losing, beyond) \cup XAUUSD_EndOfDay(Shown)
                            \cup IF phase = "late" THEN {} ELSE StopCheck(Shown, losing, beyond)
  <1>5. AllDecisions(trades)
    BY <1>1, <1>2, <1>3, <1>4 DEF AllDecisions
  <1>6. XAUUSD_Trades(Shown, losing, beyond) = MayNotEnter(trades)
    BY DEF XAUUSD_Trades, BeforePayrolls
  <1> HIDE DEF trades
  <1>7. AllDecisions(XAUUSD_Trades(Shown, losing, beyond))
    BY <1>5, <1>6, TakenAwayIs
  <1>8. AllDecisions(ExitIf(SameDayIsOpen(Shown)))
    BY SimpleDecisions
  <1> DEFINE allowed == XAUUSD_DayTrading_Allow_Trade
             all == UNION {IF may THEN ExitIf(SameDayIsOpen(Shown)) \cup XAUUSD_Trades(Shown, losing, beyond)
                           ELSE {Nothing} : may \in allowed}
  <1> HIDE DEF allowed
  <1>9. AllDecisions(all)
    BY <1>7, <1>8, SimpleDecisions DEF AllDecisions
  <1>10. XAUUSD_DayTrading(Shown, under, losing, beyond) = {[d EXCEPT !.named = Negative(Shown,
          under)] : d \in all}
    BY DEF XAUUSD_DayTrading, allowed
  <1> HIDE DEF all
  <1>11. \A d \in all : IsDecision([d EXCEPT !.named = Negative(Shown, under)])
    BY <1>9, ChangedIs DEF AllDecisions
  <1> QED
    BY <1>10, <1>11 DEF AllDecisions

\* Ichimoko_Daily_V2.
LEMMA V2Decides == AllDecisions(Ichimoko_Daily_V2(Shown))
  <1>1. ASSUME NEW decisions, AllDecisions(decisions) PROVE AllDecisions(ThreeBars(decisions))
    <2>1. \A d \in decisions : \A side : IsDecision([d EXCEPT !.exit = side])
      BY <1>1, ChangedIs DEF AllDecisions
    <2> QED
      BY <1>1, <2>1 DEF AllDecisions, ThreeBars
  <1>2. ASSUME NEW decisions, AllDecisions(decisions) PROVE AllDecisions(Winning(decisions, Shown))
    <2>1. \A d \in decisions : \A named : IsDecision([d EXCEPT !.named = named])
      BY <1>2, ChangedIs DEF AllDecisions
    <2> QED
      BY <2>1 DEF AllDecisions, Winning
  <1>3. AllDecisions({Nothing})
    BY SimpleDecisions DEF AllDecisions
  <1>4. "BUY" \in Sides /\ "SELL" \in Sides
    BY DEF Sides
  <1>5. AllDecisions({Nothing} \cup Ichimoko_V2_Buy(Shown) \cup Ichimoko_V2_Sell(Shown))
    BY <1>4, SimpleDecisions DEF AllDecisions, Ichimoko_V2_Buy, Ichimoko_V2_Sell
  <1>6. AllDecisions(Ichimoko_V2_Trading(Shown))
    BY <1>1, <1>2, <1>5 DEF Ichimoko_V2_Trading
  <1>7. AllDecisions(Winning(ThreeBars({Nothing}), Shown))
    BY <1>1, <1>2, <1>3
  <1> QED
    BY <1>6, <1>7 DEF Ichimoko_Daily_V2

\* BBS_4HSwing and Weekly_Swing_New.
LEMMA SwingsDecide ==
    ASSUME NEW zone, NEW losing, NEW beyond
    PROVE  AllDecisions(BBS_4HSwing(Shown, zone)) /\ AllDecisions(Weekly_Swing_New(Shown, losing, beyond))
  <1>1. \A side \in Sides : IsDecision(BBS_4HSwing_Trend(Shown, side, zone))
    BY SimpleDecisions DEF BBS_4HSwing_Trend
  <1>2. AllDecisions({BBS_4HSwing_Trend(Shown, side, zone) : side \in Sides})
    BY <1>1 DEF AllDecisions
  <1>3. AllDecisions(BBS_4HSwing(Shown, zone))
    BY <1>2, TakenAwayIs DEF BBS_4HSwing, profitManagement_base
  <1>4. AllDecisions({Nothing}) /\ AllDecisions({Nothing} \cup {Enter(side) : side \in Sides})
    BY SimpleDecisions DEF AllDecisions
  <1>5. \A may : AllDecisions(Follow(may))
    BY SimpleDecisions DEF AllDecisions, Follow
  <1>6. AllDecisions(Weekly_Swing_New(Shown, losing, beyond))
    <2> DEFINE may == getLossTimesInDay(Shown, losing) < 5 /\ getWinTimesInDay(Shown, beyond) = 0
    <2>1. Weekly_Swing_New(Shown, losing, beyond) =
             CASE phase = "first" -> {Nothing}
               [] ~hasSameDayOrder(Shown) -> {Nothing} \cup {Enter(side) : side \in Sides}
               [] OTHER -> Follow(may)
      BY DEF Weekly_Swing_New
    <2> HIDE DEF may
    <2>2. AllDecisions(Follow(may))
      BY <1>5
    <2> QED
      BY <1>4, <2>1, <2>2
  <1> QED
    BY <1>3, <1>6

\* The modes OneSided says nothing of make decisions too.
LEMMA ModeDecides ==
    ASSUME TypeInv, OrdersInv, mode \in AutoBBSModes \ OneSidedModes,
           NEW under, NEW losing, NEW beyond, NEW zone
    PROVE  AllDecisions(workoutExecutionTrend(Shown, under, losing, beyond, zone))
  <1> DEFINE all == workoutExecutionTrend(Shown, under, losing, beyond, zone)
  <1>1. \A decisions : AllDecisions(decisions) => AllDecisions(Filtered(decisions))
    BY TakenAwayIs
  <1>2. CASE mode = "GBPJPY_DayTrading_Ver2"
    <2>1. all = Filtered(GBPJPY_DayTrading_Ver2(Shown, losing, beyond))
      BY <1>2 DEF workoutExecutionTrend
    <2>2. AllDecisions(GBPJPY_DayTrading_Ver2(Shown, losing, beyond))
      BY Ver2Decides
    <2> QED
      BY <1>1, <2>1, <2>2
  <1>3. CASE mode = "XAUUSD_DayTrading"
    <2>1. all = Filtered(XAUUSD_DayTrading(Shown, under, losing, beyond))
      BY <1>3 DEF workoutExecutionTrend
    <2>2. AllDecisions(XAUUSD_DayTrading(Shown, under, losing, beyond))
      BY XAUUSDDecides
    <2> QED
      BY <1>1, <2>1, <2>2
  <1>4. CASE mode = "DayTrading_ExecutionOnly"
    <2>1. all = Filtered(DayTrading_ExecutionOnly(Shown, beyond))
      BY <1>4 DEF workoutExecutionTrend
    <2>2. AllDecisions(DayTrading_ExecutionOnly(Shown, beyond))
      BY ExecutionOnlyDecides
    <2> QED
      BY <1>1, <2>1, <2>2
  <1>5. CASE mode = "Ichimoko_Daily_V2"
    <2>1. all = Filtered(Ichimoko_Daily_V2(Shown))
      BY <1>5 DEF workoutExecutionTrend
    <2>2. AllDecisions(Ichimoko_Daily_V2(Shown))
      BY V2Decides
    <2> QED
      BY <1>1, <2>1, <2>2
  <1>6. CASE mode = "BBS_4HSwing"
    <2>1. all = Filtered(BBS_4HSwing(Shown, zone))
      BY <1>6 DEF workoutExecutionTrend
    <2>2. AllDecisions(BBS_4HSwing(Shown, zone))
      BY SwingsDecide
    <2> QED
      BY <1>1, <2>1, <2>2
  <1>7. CASE mode = "Weekly_Swing_New"
    <2>1. all = Filtered(Weekly_Swing_New(Shown, losing, beyond))
      BY <1>7 DEF workoutExecutionTrend
    <2>2. AllDecisions(Weekly_Swing_New(Shown, losing, beyond))
      BY SwingsDecide
    <2> QED
      BY <1>1, <2>1, <2>2
  <1>8. mode \in {"GBPJPY_DayTrading_Ver2", "XAUUSD_DayTrading", "DayTrading_ExecutionOnly",
          "Ichimoko_Daily_V2",
                  "BBS_4HSwing", "Weekly_Swing_New"}
    BY DEF AutoBBSModes, DayTrading, OneSidedModes, TrendFollowing, OneSidedSwings, SwingModes, MultipleDayModes
  <1> HIDE DEF all
  <1> QED
    BY <1>2, <1>3, <1>4, <1>5, <1>6, <1>7, <1>8

-----------------------------------------------------------------------------
(* The bar of a mode of AutoBBS. *)

PartsOf(d) == IF d.enter THEN d.split ELSE NoSplit

\* A bar of AutoBBS carries out the results of one of its decisions.
LEMMA AutoBBSIs ==
    ASSUME AutoBBSBar
    PROVE  \E zone \in Nat : \E under, losing, beyond, withTp :
           \E d \in workoutExecutionTrend(Shown, under, losing, beyond, zone) : \E parts \in PartsOf(d) :
              c_processOrders(FilledResults(d, Shown, parts), under, withTp, zone)
  <1> DEFINE passed(under) == {o.ticket : o \in {p \in ToSet(open) : p.tp}} \ under
             decisions(under, zone) == UNION {workoutExecutionTrend(Shown, under, losing, beyond, zone) :
                                                 losing \in SUBSET under, beyond \in SUBSET passed(under)}
             filled(under, zone) == UNION {{<<FilledResults(d, Shown, parts),
                     Kept(parts)>> : parts \in PartsOf(d)} :
                                              d \in decisions(under, zone)}
             Does(under, zone) == \E results \in filled(under, zone) : c_processOrders(results[1], under,
                     results[2], zone)
             unders == IF mode \in Counting THEN SUBSET Tickets(open) ELSE {{}}
             zones == IF mode \in Priced THEN Zones ELSE {0}
  <1>1. \E under \in unders, zone \in zones : Does(under, zone)
    BY DEF AutoBBSBar, Shown, PartsOf
  <1>2. PICK zone \in Nat : \E under :
             \E results \in filled(under, zone) : c_processOrders(results[1], under, results[2], zone)
    <2>1. zones \subseteq Nat
      BY StrategiesAssumption
    <2> HIDE DEF unders, zones, Does
    <2>2. PICK zone \in Nat : \E under : Does(under, zone)
      BY <1>1, <2>1
    <2> QED
      BY <2>2 DEF Does
  <1>3. PICK under : \E results \in filled(under, zone) : c_processOrders(results[1], under, results[2], zone)
    BY <1>2
  <1>4. PICK results \in filled(under, zone) : c_processOrders(results[1], under, results[2], zone)
    BY <1>3
  <1>5. PICK d \in decisions(under, zone) :
             \E parts \in PartsOf(d) : results = <<FilledResults(d, Shown, parts), Kept(parts)>>
    <2> HIDE DEF decisions
    <2> QED
      BY <1>4
  <1>6. PICK losing, beyond : d \in workoutExecutionTrend(Shown, under, losing, beyond, zone)
    <2> HIDE DEF passed
    <2> QED
      BY <1>5
  <1>7. PICK parts \in PartsOf(d) : results = <<FilledResults(d, Shown, parts), Kept(parts)>>
    BY <1>5
  <1>8. c_processOrders(FilledResults(d, Shown, parts), under, Kept(parts), zone)
    <2>1. results[1] = FilledResults(d, Shown, parts) /\ results[2] = Kept(parts)
      BY <1>7
    <2> QED
      BY <1>4, <2>1
  <1> QED
    BY <1>6, <1>8

\* What the results of a bar ask for.
BarFits(res, side) ==
    \/ ToOpen(res) = {}
    \/ /\ TurnsTo(res, side)
       /\ mode \in SidedModes => \A o : Among(o, open) => o.type = side
       /\ mode \in SoleModes => open = <<>> /\ \E m \in Nat : ToOpen(res) \subseteq (m + 1)..(m + 1)

\* A decision that fits has results that fit.
LEMMA DecisionBar ==
    ASSUME TypeInv, OrdersInv, NEW d, Fit(d), NEW parts \in PartsOf(d)
    PROVE  BarFits(FilledResults(d, Shown, parts), d.trend)
  <1> DEFINE res == FilledResults(d, Shown, parts)
  <1>1. mode \in EntersFirst => mode \in SoleModes
    BY DEF EntersFirst, SoleModes
  <1>2. IsDecision(d) /\ Turns(d) /\ NamedOpen(d) /\ (mode \in EntersFirst /\ d.enter => open = <<>>)
    BY <1>1 DEF Fit
  <1>3. parts \in Parts /\ (mode \in SoleModes => parts \in Short)
    <2>1. NoSplit \subseteq Short /\ Short \subseteq Parts
      BY SplitsAre DEF Short
    <2>2. d.split \subseteq Parts /\ (mode \in SoleModes => d.split \subseteq Short)
      BY DEF Fit, IsDecision, Parts
    <2> QED
      BY <2>1, <2>2 DEF PartsOf
  <1>4. AccountOpen
    BY AccountIs
  <1>5. parts \in Seq(BOOLEAN)
    BY <1>3 DEF Parts
  <1>6. ToOpen(res) = {} \/ TurnsTo(res, d.trend)
    BY <1>2, <1>5, FilledTurns DEF Shown
  <1>7. ~d.enter => ToOpen(res) = {}
    <2> SUFFICES ASSUME ~d.enter PROVE ToOpen(res) = {}
      OBVIOUS
    <2>1. res \in QuietArrays
      BY <1>2, <1>4, <1>5, FilledStays DEF Shown
    <2> QED
      BY <2>1, QuietHasNone
  <1>8. \E m \in Nat : ToOpen(res) \subseteq (m + 1)..(m + Len(parts))
    BY <1>2, <1>4, <1>5, FilledFew DEF Shown
  <1> HIDE DEF res
  <1>9. mode \in SoleModes => \E m \in Nat : ToOpen(res) \subseteq (m + 1)..(m + 1)
    <2> SUFFICES ASSUME mode \in SoleModes PROVE \E m \in Nat : ToOpen(res) \subseteq (m + 1)..(m + 1)
      OBVIOUS
    <2>1. PICK m \in Nat : ToOpen(res) \subseteq (m + 1)..(m + Len(parts))
      BY <1>8
    <2>2. Len(parts) \in Nat /\ Len(parts) <= 1
      BY <1>3 DEF Short, Parts
    <2>3. (m + 1)..(m + Len(parts)) \subseteq (m + 1)..(m + 1)
      BY <2>2
    <2> QED
      BY <2>1, <2>3
  <1>10. d.enter => /\ mode \in SoleModes => open = <<>>
                    /\ mode \in SidedModes => \A o : Among(o, open) => o.type = d.trend
    BY DEF Fit
  <1>11. BarFits(res, d.trend)
    BY <1>6, <1>7, <1>9, <1>10 DEF BarFits
  <1> QED
    BY <1>11 DEF res

-----------------------------------------------------------------------------
(* The modes that count the orders they hold. *)

\* The modes with a most number of open orders.
UpToThree == {"Ichimoko_Daily_Index", "Ichimoko_Daily_New", "Ichimoko_Daily_Index_Regression_Test"}

\* No order that is open was opened today.
DayFree == \A o : Among(o, open) => o.day < day

\* An open order is of an earlier day than any later one.
DayGap ==
    mode \in OrderADayModes =>
        \A o, p : Among(o, open) /\ (Among(p, open) \/ Among(p, closed)) /\ o.ticket < p.ticket => o.day < p.day

\* It was opened when it was sent.
Timely ==
    mode \in OrderADayModes \cup BEILIModes =>
        \A o : Among(o, open) \/ Among(o, closed) => o.at = o.ticket /\ o.day <= day

\* What was closed is not open.
Gone == \A o, p : Among(o, open) /\ Among(p, closed) => o.ticket # p.ticket

PartsOfADay ==
    mode = "MultipleDay_V2" => Len(open) <= 2 /\ \A o, p : Among(o, open) /\ Among(p, open) => o.day = p.day

ThreeAtMost == mode \in UpToThree /\ OrderInfoSize >= 3 => Len(open) <= 3

\* No order was closed today.
Rested == \A o : Among(o, closed) => o.until < day

\* An order was closed before the day of any later one, and the last one closed is the last one sent.
Rest ==
    mode \in BEILIModes =>
        /\ \A p : Among(p, closed) => p.day <= p.until /\ p.until <= day
        /\ \A o, p : Among(o, closed) /\ (Among(p, open) \/ Among(p, closed)) /\ o.ticket < p.ticket =>
              o.until < p.day
        /\ \A o, p : Among(o, closed) /\ Among(p, closed) /\ o.ticket = p.ticket => o.until = p.until
        /\ closed # <<>> => \A o : Among(o, closed) => o.ticket <= closed[Len(closed)].ticket

\* Two orders of an account with one ticket are one order.
LEMMA SameTicket ==
    ASSUME NEW orders \in Seq(Order), Ascending(orders), NEW o, NEW p, Among(o, orders), Among(p, orders),
           o.ticket = p.ticket
    PROVE  o = p
  <1>1. PICK n \in 1..Len(orders) : orders[n] = o
    BY DEF Among
  <1>2. PICK k \in 1..Len(orders) : orders[k] = p
    BY DEF Among
  <1>3. o.ticket \in Nat
    <2>1. o \in Order
      BY <1>1
    <2> QED
      BY <2>1 DEF Order
  <1>4. ~(n < k) /\ ~(k < n)
    BY <1>1, <1>2, <1>3 DEF Ascending
  <1>5. n = k
    BY <1>4
  <1> QED
    BY <1>1, <1>2, <1>5

\* With one order on each side there are two at most.
LEMMA DailyOnlyIs ==
    ASSUME TypeInv, OrdersInv, DayGap, Timely, Gone, mode \in OrderADayModes, DailyOnly(Shown)
    PROVE  DayFree
  <1> SUFFICES ASSUME NEW o, Among(o, open), ~(o.day < day) PROVE FALSE
    BY DEF DayFree
  <1>1. AccountOpen
    BY AccountIs
  <1>2. Shown \in Seq(Order)
    BY <1>1, HeldIs DEF Shown
  <1>3. PICK n \in 1..Len(open) : open[n] = o
    BY DEF Among
  <1>4. open \in Seq(Order) /\ closed \in Seq(Order) /\ Len(open) \in Nat /\ day \in Nat
    BY DEF TypeInv
  <1>5. /\ Len(open) \in 1..Len(open) /\ open # <<>> /\ o \in Order /\ open[Len(open)] \in Order
    BY <1>3, <1>4
  <1> DEFINE q == open[Len(open)]
  <1>6. /\ 1 \in 1..Len(Shown) /\ Shown[1] = q
        /\ \A k \in 1..Len(Shown) : (\E l \in 1..Len(open) : Shown[k] = open[l])
                                    \/ (\E l \in 1..Len(closed) : Shown[k] = closed[l])
    BY <1>4, <1>5, ShownIs DEF Shown
  <1>7. Among(q, open) /\ q \in Order
    BY <1>5 DEF Among
  <1>8. o.ticket \in Nat /\ q.ticket \in Nat /\ o.day \in Nat
    BY <1>5, <1>7 DEF Order
  <1>9. o.ticket <= q.ticket
    <2>1. CASE n = Len(open)
      BY <2>1, <1>3, <1>8
    <2>2. CASE n # Len(open)
      <3>1. n < Len(open)
        BY <2>2, <1>3, <1>4
      <3>2. open[n].ticket < open[Len(open)].ticket
        BY <3>1, <1>3, <1>5 DEF OrdersInv, Ascending
      <3> QED
        BY <3>2, <1>3, <1>8
    <2> QED
      BY <2>1, <2>2
  <1> HIDE DEF q
  <1>10. Shown # <<>>
    BY <1>2, <1>6
  <1>11. PICK k \in 1..Len(Shown) : Latest(Shown) = Shown[k]
            /\ \A l \in 1..Len(Shown) : Shown[l].at <= Shown[k].at
    BY <1>2, <1>10, LatestIs
  <1> DEFINE p == Shown[k]
  <1>12. p \in Order /\ (Among(p, open) \/ Among(p, closed)) /\ q.at <= p.at
    BY <1>2, <1>6, <1>11 DEF Among
  <1>13. p.ticket \in Nat /\ p.at = p.ticket /\ q.at = q.ticket /\ p.day <= day /\ o.day <= day /\ p.day \in Nat
    BY <1>7, <1>12 DEF Timely, Order
  <1>14. ~(IsOpen(p) /\ p.day = day)
    BY <1>10, <1>11 DEF DailyOnly
  <1> HIDE DEF p
  <1>15. o.ticket <= p.ticket
    BY <1>8, <1>9, <1>12, <1>13
  <1>16. CASE o.ticket < p.ticket
    <2>1. o.day < p.day
      BY <1>12, <1>16 DEF DayGap
    <2> QED
      BY <2>1, <1>4, <1>8, <1>13
  <1>17. CASE o.ticket = p.ticket
    <2>1. Among(p, open)
      BY <1>12, <1>17 DEF Gone
    <2>2. o = p
      BY <2>1, <1>4, <1>17, SameTicket DEF OrdersInv
    <2>3. IsOpen(p)
      BY <2>1 DEF OrdersInv, IsOpen
    <2>4. p.day = day
      BY <2>2, <1>4, <1>8, <1>13
    <2> QED
      BY <2>3, <2>4, <1>14
  <1> QED
    BY <1>8, <1>13, <1>15, <1>16, <1>17

\* No order of the week among those shown means none of today, open or closed.
LEMMA WeeklyIs ==
    ASSUME TypeInv, OrdersInv, DayGap, Timely, mode \in OrderADayModes, getOrderCountForCurrentWeek(Shown) = 0
    PROVE  DayFree
  <1> SUFFICES ASSUME NEW o, Among(o, open), ~(o.day < day) PROVE FALSE
    BY DEF DayFree
  <1>1. AccountOpen
    BY AccountIs
  <1>2. Shown \in Seq(Order)
    BY <1>1, HeldIs DEF Shown
  <1>3. PICK n \in 1..Len(open) : open[n] = o
    BY DEF Among
  <1>4. open \in Seq(Order) /\ closed \in Seq(Order) /\ Len(open) \in Nat /\ day \in Nat
    BY DEF TypeInv
  <1>5. /\ Len(open) \in 1..Len(open) /\ open # <<>> /\ o \in Order /\ open[Len(open)] \in Order
    BY <1>3, <1>4
  <1> DEFINE q == open[Len(open)]
  <1>6. 1 \in 1..Len(Shown) /\ Shown[1] = q
    BY <1>4, <1>5, ShownIs DEF Shown
  <1>7. Among(q, open) /\ q \in Order
    BY <1>5 DEF Among
  <1>8. o.ticket \in Nat /\ q.ticket \in Nat /\ o.day \in Nat /\ q.day \in Nat
    BY <1>5, <1>7 DEF Order
  <1>9. o.day <= day /\ q.day <= day
    BY <1>7 DEF Timely
  <1>10. o = q
    <2>1. CASE n = Len(open)
      BY <2>1, <1>3
    <2>2. CASE n # Len(open)
      <3>1. n < Len(open)
        BY <2>2, <1>3, <1>4
      <3>2. open[n].ticket < open[Len(open)].ticket
        BY <3>1, <1>3, <1>5 DEF OrdersInv, Ascending
      <3>3. o.day < q.day
        BY <3>2, <1>3, <1>7 DEF DayGap
      <3> QED
        BY <3>3, <1>4, <1>8, <1>9
    <2> QED
      BY <2>1, <2>2
  <1>11. IsOpen(q)
    BY <1>7 DEF OrdersInv, IsOpen
  <1> HIDE DEF q
  <1>12. Shown[1].day = day /\ IsOpen(Shown[1])
    BY <1>4, <1>6, <1>8, <1>9, <1>10, <1>11
  <1> DEFINE today == {k \in Today(Shown) : IsOpen(Shown[k])}
  <1>13. 1 \in today /\ today \subseteq 1..Len(Shown)
    BY <1>2, <1>6, <1>12 DEF Today
  <1>14. IsFiniteSet(today)
    <2>1. Len(Shown) \in Nat
      BY <1>2
    <2>2. IsFiniteSet(1..Len(Shown))
      BY <2>1, FS_Interval
    <2> HIDE DEF today
    <2> QED
      BY <1>13, <2>2, FS_Subset
  <1>15. Cardinality(today) = 0
    BY DEF getOrderCountForCurrentWeek
  <1> HIDE DEF today
  <1>16. today = {}
    BY <1>14, <1>15, FS_EmptySet
  <1> QED
    BY <1>13, <1>16

\* The count of what is shown is below three only if fewer than three are open.
LEMMA OrderCountIs ==
    ASSUME TypeInv, OrdersInv, OrderInfoSize >= 3, getOrderCount(Shown) < 3
    PROVE  Len(open) < 3
  <1> SUFFICES ASSUME Len(open) >= 3 PROVE FALSE
    BY DEF TypeInv
  <1>1. open \in Seq(Order) /\ closed \in Seq(Order) /\ Len(open) \in Nat /\ Len(closed) \in Nat
    BY DEF TypeInv
  <1> DEFINE total == Len(open) + Len(closed)
             size == Min({OrderInfoSize, total})
             shown == [n \in 1..size |-> IF n <= Len(open) THEN open[Len(open) + 1 - n]
                                         ELSE closed[Len(open) + Len(closed) + 1 - n]]
  <1>2. size \in Nat /\ size >= 3
    <2>1. {OrderInfoSize, total} \in SUBSET Nat /\ {OrderInfoSize, total} # {}
      BY <1>1, SizesType
    <2>2. size \in {OrderInfoSize, total}
      BY <2>1, MinOf
    <2> QED
      BY <2>2, <1>1, SizesType
  <1>3. Shown = shown
    BY DEF Shown, c_getOrderInfo
  <1> HIDE DEF size
  <1>4. \A n \in 1..3 : n \in 1..size /\ shown[n] = open[Len(open) + 1 - n]
          /\ Len(open) + 1 - n \in 1..Len(open)
    BY <1>1, <1>2
  <1>5. \A n \in 1..3 : IsOpen(open[Len(open) + 1 - n])
    <2> TAKE n \in 1..3
    <2>1. Among(open[Len(open) + 1 - n], open)
      BY <1>4 DEF Among
    <2> QED
      BY <2>1 DEF OrdersInv, IsOpen
  <1>6. DOMAIN shown = 1..size
    OBVIOUS
  <1>7. 1..3 \subseteq OpenPlaces(shown) /\ OpenPlaces(shown) \subseteq 1..size
    <2> HIDE DEF shown
    <2> QED
      BY <1>4, <1>5, <1>6 DEF OpenPlaces
  <1> HIDE DEF shown
  <1>8. IsFiniteSet(1..size) /\ IsFiniteSet(1..3) /\ Cardinality(1..3) = 3
    <2>1. size \in Int /\ 1 \in Int /\ 3 \in Int
      BY <1>2
    <2>2. IsFiniteSet(1..size)
      BY <2>1, FS_Interval
    <2>3. IsFiniteSet(1..3)
      BY <2>1, FS_Interval
    <2>4. Cardinality(1..3) = (IF 1 > 3 THEN 0 ELSE 3 - 1 + 1)
      BY <2>1, FS_Interval
    <2> QED
      BY <2>2, <2>3, <2>4
  <1>9. IsFiniteSet(OpenPlaces(shown))
    BY <1>7, <1>8, FS_Subset
  <1>10. Cardinality(1..3) <= Cardinality(OpenPlaces(shown))
    BY <1>7, <1>9, FS_Subset
  <1>11. Cardinality(OpenPlaces(shown)) \in Nat
    BY <1>9, FS_CardinalityType
  <1> QED
    BY <1>3, <1>8, <1>10, <1>11 DEF getOrderCount

\* No position and none closed today, as BEILI sees them, are so in the account.
LEMMA RestedIs ==
    ASSUME TypeInv, OrdersInv, Sole, Timely, Rest, mode \in BEILIModes, NoPosition(Shown), ~ClosedToday(Shown)
    PROVE  open = <<>> /\ Rested
  <1>1. open = <<>>
    BY NoneOpen DEF SoleModes
  <1> SUFFICES ASSUME NEW o, Among(o, closed), ~(o.until < day) PROVE FALSE
    BY <1>1 DEF Rested
  <1>2. /\ open \in Seq(Order) /\ closed \in Seq(Order) /\ Len(closed) \in Nat /\ day \in Nat
        /\ Len(closed) \in 1..Len(closed) /\ closed # <<>>
    BY DEF TypeInv, Among
  <1> DEFINE q == closed[Len(closed)]
  <1>3. /\ 1 \in 1..Len(Shown) /\ Shown[1] = q /\ Shown \in Seq(Order)
        /\ \A k \in 1..Len(Shown) : (\E l \in 1..Len(open) : Shown[k] = open[l])
                                    \/ (\E l \in 1..Len(closed) : Shown[k] = closed[l])
    BY <1>1, <1>2, ShownIs DEF Shown
  <1>4. Among(q, closed) /\ q \in Order /\ o \in Order
    BY <1>2 DEF Among
  <1>5. o.ticket <= q.ticket
    BY <1>2 DEF Rest
  <1> HIDE DEF q
  <1>6. Shown # <<>>
    BY <1>3
  <1>7. PICK k \in 1..Len(Shown) : Latest(Shown) = Shown[k]
            /\ \A l \in 1..Len(Shown) : Shown[l].at <= Shown[k].at
    BY <1>3, <1>6, LatestIs
  <1> DEFINE p == Shown[k]
  <1>8. Among(p, closed) /\ p \in Order /\ q.at <= p.at /\ p.until # day
    <2>1. ~\E l \in 1..Len(open) : p = open[l]
      BY <1>1
    <2>2. Among(p, closed)
      BY <1>3, <2>1 DEF Among
    <2>3. p.until # day
      BY <1>6, <1>7 DEF ClosedToday
    <2> QED
      BY <1>3, <1>7, <2>2, <2>3
  <1> HIDE DEF p
  <1>9. q.at = q.ticket /\ p.at = p.ticket
    BY <1>4, <1>8 DEF Timely
  <1>10. p.ticket <= q.ticket
    BY <1>2, <1>8 DEF Rest, q
  <1>11. /\ q.ticket \in Nat /\ p.ticket \in Nat /\ o.ticket \in Nat /\ q.until \in Nat /\ q.day \in Nat
         /\ p.until \in Nat /\ o.until \in Nat
    BY <1>4, <1>8 DEF Order
  <1>12. p.ticket = q.ticket
    BY <1>8, <1>9, <1>10, <1>11
  <1>13. q.until = p.until /\ p.until <= day /\ q.day <= q.until
    BY <1>4, <1>8, <1>12 DEF Rest
  <1>14. q.until < day
    BY <1>2, <1>8, <1>11, <1>13
  <1>15. CASE o.ticket = q.ticket
    <2>1. o.until = q.until
      BY <1>4, <1>15 DEF Rest
    <2> QED
      BY <2>1, <1>14
  <1>16. CASE o.ticket < q.ticket
    <2>1. o.until < q.day
      BY <1>4, <1>16 DEF Rest
    <2> QED
      BY <2>1, <1>2, <1>11, <1>13, <1>14
  <1> QED
    BY <1>5, <1>11, <1>15, <1>16

AtMostTwo == {parts \in Parts : Len(parts) <= 2}

\* A decision that enters only where the mode has room for it.
Sparing(d) ==
    /\ mode \in OrderADayModes => (d.enter => DayFree) /\ d.split \subseteq Short
    /\ mode = "MultipleDay_V2" => (d.enter => open = <<>>) /\ d.split \subseteq AtMostTwo
    /\ mode \in UpToThree /\ OrderInfoSize >= 3 => (d.enter => Len(open) < 3)
    /\ mode \in BEILIModes => (d.enter => open = <<>> /\ Rested) /\ d.split \subseteq Short
AllSparing(decisions) == \A d \in decisions : IsDecision(d) /\ Sparing(d)

\* How many parts the modes with a limit split an entry in.
LEMMA SplitsOfDay ==
    /\ mode \in OrderADayModes => splitOrders \subseteq Short
    /\ split_MultiDays_Swing_V2 \subseteq AtMostTwo /\ NoSplit \subseteq AtMostTwo
    /\ mode = "MultipleDay_V2" => splitOrders \subseteq AtMostTwo
    /\ UpToThree \subseteq OrderADayModes /\ "MultipleDay_V2" \notin OrderADayModes
    /\ mode \in BEILIModes => splitOrders \subseteq Short /\ mode \notin OrderADayModes
            /\ mode # "MultipleDay_V2"
  <1>1. mode \in OrderADayModes => splitOrders \subseteq Short
    <2>1. mode = "Ichimoko_Weekly_Index" => splitOrders = split_Ichimoko_Weekly
      BY DEF splitOrders, BoDuanModes, MACD_DailyModes, OrderADayModes, BEILIModes
    <2>2. mode \in OrderADayModes \ {"Ichimoko_Weekly_Index"} => splitOrders = split_Ichimoko_Daily
      BY DEF splitOrders, BoDuanModes, MACD_DailyModes, OrderADayModes, BEILIModes
    <2> QED
      BY <2>1, <2>2, SplitsAre
  <1>2. split_MultiDays_Swing_V2 \subseteq AtMostTwo
    <2>1. <<TRUE, FALSE>> \in Seq(BOOLEAN) /\ Len(<<TRUE, FALSE>>) = 2
      OBVIOUS
    <2> QED
      BY <2>1 DEF split_MultiDays_Swing_V2, AtMostTwo, Parts
  <1>3. NoSplit \subseteq AtMostTwo
    <2>1. NoSplit \subseteq Short
      BY SplitsAre
    <2>2. \A parts \in Short : parts \in AtMostTwo
      <3> SUFFICES ASSUME NEW parts \in Short PROVE parts \in AtMostTwo
        OBVIOUS
      <3>1. parts \in Parts /\ Len(parts) <= 1 /\ Len(parts) \in Nat
        BY DEF Short, Parts
      <3>2. Len(parts) <= 2
        BY <3>1
      <3> QED
        BY <3>1, <3>2 DEF AtMostTwo
    <2> QED
      BY <2>1, <2>2
  <1>4. mode = "MultipleDay_V2" => splitOrders = split_MultiDays_Swing_V2
    BY DEF splitOrders, BoDuanModes, MACD_DailyModes, OrderADayModes, BEILIModes
  <1>5. UpToThree \subseteq OrderADayModes /\ "MultipleDay_V2" \notin OrderADayModes
    BY DEF UpToThree, OrderADayModes
  <1>6. mode \in BEILIModes => splitOrders = split_MACD_BEILI
    BY DEF splitOrders, BoDuanModes, MACD_DailyModes, OrderADayModes, BEILIModes
  <1>7. mode \in BEILIModes => mode \notin OrderADayModes /\ mode # "MultipleDay_V2"
    BY DEF BEILIModes, OrderADayModes
  <1> QED
    BY <1>1, <1>2, <1>3, <1>4, <1>5, <1>6, <1>7, SplitsAre

\* A change of sides may enter where there is room.
LEMMA ReversalSpares ==
    ASSUME NEW side \in Sides, NEW may, mode \in OrderADayModes => (may => DayFree),
           mode = "MultipleDay_V2" => (may => open = <<>>),
           mode \in UpToThree /\ OrderInfoSize >= 3 => (may => Len(open) < 3),
           mode \in BEILIModes => (may => open = <<>> /\ Rested)
    PROVE  IsDecision(Reversal(side, may)) /\ Sparing(Reversal(side, may))
  <1> DEFINE d == Reversal(side, may)
  <1>1. IsDecision(d) /\ d.split = splitOrders /\ d.enter = may
    BY DecisionIs DEF Reversal
  <1> HIDE DEF d
  <1>2. IsDecision(d) /\ Sparing(d)
    BY <1>1, SplitsOfDay DEF Sparing
  <1> QED
    BY <1>2 DEF d

\* What enters nothing needs no room.
LEMMA NothingSpares ==
    /\ IsDecision(Nothing) /\ Sparing(Nothing) /\ IsDecision(ExitAll) /\ Sparing(ExitAll)
  <1> DEFINE no == FALSE
  <1>0. no = FALSE
    OBVIOUS
  <1> HIDE DEF no
  <1>1. ASSUME NEW exit
        PROVE  IsDecision(Decision("none", no, exit, {})) /\ Sparing(Decision("none", no, exit, {}))
    <2> DEFINE d == Decision("none", no, exit, {})
    <2>1. IsDecision(d) /\ d.split = splitOrders /\ d.enter = no
      BY DecisionIs
    <2> HIDE DEF d
    <2>2. IsDecision(d) /\ Sparing(d)
      BY <2>1, <1>0, SplitsOfDay DEF Sparing
    <2> QED
      BY <2>2 DEF d
  <1>2. \A exit : IsDecision(Decision("none", FALSE, exit, {})) /\ Sparing(Decision("none", FALSE, exit, {}))
    BY <1>1 DEF no
  <1> QED
    BY <1>2 DEF Nothing, ExitAll

\* Nor does a change of another field of a decision.
LEMMA ChangedSpares ==
    ASSUME NEW d, IsDecision(d), Sparing(d), NEW value
    PROVE  /\ (value => d.enter) => IsDecision([d EXCEPT !.enter = value])
            /\ Sparing([d EXCEPT !.enter = value])
           /\ IsDecision([d EXCEPT !.exit = value]) /\ Sparing([d EXCEPT !.exit = value])
           /\ IsDecision([d EXCEPT !.named = value]) /\ Sparing([d EXCEPT !.named = value])
           /\ value \in {NoSplit, split_MultiDays_Swing_V2} /\ (value = NoSplit \/ mode = "MultipleDay_V2")
              => IsDecision([d EXCEPT !.split = value]) /\ Sparing([d EXCEPT !.split = value])
  <1> DEFINE a == [d EXCEPT !.enter = value]
             b == [d EXCEPT !.exit = value]
             c == [d EXCEPT !.named = value]
             e == [d EXCEPT !.split = value]
  <1>1. IsDecision(a) /\ a.enter = value /\ a.split = d.split
    BY DEF IsDecision
  <1>2. IsDecision(b) /\ b.enter = d.enter /\ b.split = d.split
    BY DEF IsDecision
  <1>3. IsDecision(c) /\ c.enter = d.enter /\ c.split = d.split
    BY DEF IsDecision
  <1>4. value \subseteq Parts => IsDecision(e)
    BY ChangedIs
  <1>5. e.enter = d.enter /\ e.split = value
    BY DEF IsDecision
  <1> HIDE DEF a, b, c, e
  <1>6. NoSplit \subseteq Parts /\ NoSplit \subseteq Short /\ NoSplit \subseteq AtMostTwo
        /\ split_MultiDays_Swing_V2 \subseteq AtMostTwo /\ AtMostTwo \subseteq Parts
    BY SplitsAre, SplitsOfDay DEF Short, AtMostTwo
  <1>7. (value => d.enter) => Sparing(a)
    BY <1>1 DEF Sparing
  <1>8. Sparing(b) /\ Sparing(c)
    BY <1>2, <1>3 DEF Sparing
  <1>9. value \in {NoSplit, split_MultiDays_Swing_V2} /\ (value = NoSplit \/ mode = "MultipleDay_V2")
        => value \subseteq Parts /\ Sparing(e)
    BY <1>5, <1>6, SplitsOfDay DEF Sparing
  <1>10. /\ (value => d.enter) => IsDecision(a) /\ Sparing(a)
         /\ IsDecision(b) /\ Sparing(b) /\ IsDecision(c) /\ Sparing(c)
         /\ value \in {NoSplit, split_MultiDays_Swing_V2} /\ (value = NoSplit \/ mode = "MultipleDay_V2")
            => IsDecision(e) /\ Sparing(e)
    BY <1>1, <1>2, <1>3, <1>4, <1>7, <1>8, <1>9
  <1> QED
    BY <1>10 DEF a, b, c, e

\* What a filter takes away needs no room.
LEMMA FilteredSpares ==
    ASSUME NEW decisions, AllSparing(decisions)
    PROVE  AllSparing(Filtered(decisions))
  <1> SUFFICES ASSUME NEW d \in decisions
               PROVE  /\ IsDecision([d EXCEPT !.enter = FALSE, !.split = NoSplit])
                      /\ Sparing([d EXCEPT !.enter = FALSE, !.split = NoSplit])
    BY DEF AllSparing, Filtered
  <1> DEFINE no == FALSE
             e == [d EXCEPT !.enter = no]
  <1>0. no = FALSE /\ IsDecision(d) /\ Sparing(d)
    BY DEF AllSparing
  <1> HIDE DEF no
  <1>1. IsDecision(e) /\ Sparing(e)
    BY <1>0, ChangedSpares
  <1> HIDE DEF e
  <1> DEFINE parts == NoSplit
  <1>2. parts \in {NoSplit, split_MultiDays_Swing_V2} /\ parts = NoSplit
    OBVIOUS
  <1> HIDE DEF parts
  <1>3. IsDecision([e EXCEPT !.split = parts]) /\ Sparing([e EXCEPT !.split = parts])
    BY <1>1, <1>2, ChangedSpares
  <1>4. [e EXCEPT !.split = parts] = [d EXCEPT !.enter = FALSE, !.split = NoSplit]
    BY <1>0, <1>2 DEF e
  <1> QED
    BY <1>3, <1>4

\* Nor do winners that are closed.
LEMMA WinningSpares ==
    ASSUME NEW decisions, AllSparing(decisions), NEW shown
    PROVE  AllSparing(Winning(decisions, shown))
  <1> SUFFICES ASSUME NEW d \in decisions, NEW named
               PROVE  IsDecision([d EXCEPT !.named = named]) /\ Sparing([d EXCEPT !.named = named])
    BY DEF AllSparing, Winning
  <1>1. IsDecision(d) /\ Sparing(d)
    BY DEF AllSparing
  <1> QED
    BY <1>1, ChangedSpares

\* Nor what the rule of three bars takes away.
LEMMA ThreeBarsSpares ==
    ASSUME NEW decisions, AllSparing(decisions)
    PROVE  AllSparing(ThreeBars(decisions))
  <1> SUFFICES ASSUME NEW d \in decisions, NEW side
               PROVE  IsDecision([d EXCEPT !.exit = side]) /\ Sparing([d EXCEPT !.exit = side])
    BY DEF AllSparing, ThreeBars
  <1>1. IsDecision(d) /\ Sparing(d)
    BY DEF AllSparing
  <1> QED
    BY <1>1, ChangedSpares

\* What an entry of a mode with an order a day waits for.
LEMMA MaySpare ==
    ASSUME mode \in OrderADayModes, NEW mays,
           \A may \in mays : may => DayFree /\ (mode \in UpToThree /\ OrderInfoSize >= 3 => Len(open) < 3)
    PROVE  \A side \in Sides : AllSparing({Reversal(side, may) : may \in mays})
  <1>1. mode # "MultipleDay_V2" /\ mode \notin BEILIModes
    BY SplitsOfDay
  <1> QED
    BY <1>1, ReversalSpares DEF AllSparing

\* Decisions of two kinds, each sparing.
LEMMA BothSpare ==
    ASSUME NEW one, NEW other, AllSparing(one), AllSparing(other)
    PROVE  AllSparing(one \cup other) /\ AllSparing({Nothing} \cup one)
  BY NothingSpares DEF AllSparing

\* A count of orders below a limit is room for one more.
LEMMA UpToSpares ==
    ASSUME TypeInv, OrdersInv, NEW count \in 1..3, NEW decisions, \A d \in decisions : IsDecision(d),
           mode \in OrderADayModes, \A d \in decisions : (d.enter => DayFree) /\ d.split \subseteq Short
    PROVE  AllSparing(UpTo(count, Shown, decisions))
  <1> SUFFICES ASSUME NEW d \in decisions
               PROVE  LET e == [d EXCEPT !.enter = @ /\ getOrderCount(Shown) < count]
                      IN  IsDecision(e) /\ Sparing(e)
    BY DEF AllSparing, UpTo
  <1> DEFINE enter == d.enter /\ getOrderCount(Shown) < count
  <1>1. IsDecision(d) /\ d.split \subseteq Short /\ (enter => DayFree) /\ mode # "MultipleDay_V2"
          /\ mode \notin BEILIModes
    BY SplitsOfDay
  <1>2. enter => getOrderCount(Shown) < 3
    <2>1. getOrderCount(Shown) \in Nat
      <3>1. AccountOpen
        BY AccountIs
      <3>2. Shown \in Seq(Order)
        BY <3>1, HeldIs DEF Shown
      <3>3. OpenPlaces(Shown) \subseteq 1..Len(Shown) /\ Len(Shown) \in Int /\ 1 \in Int
        BY <3>2 DEF OpenPlaces
      <3>4. IsFiniteSet(1..Len(Shown))
        BY <3>3, FS_Interval
      <3>5. IsFiniteSet(OpenPlaces(Shown))
        BY <3>3, <3>4, FS_Subset
      <3> QED
        BY <3>5, FS_CardinalityType DEF getOrderCount
    <2> QED
      BY <2>1
  <1>3. OrderInfoSize >= 3 /\ enter => Len(open) < 3
    BY <1>2, OrderCountIs
  <1> HIDE DEF enter
  <1> DEFINE e == [d EXCEPT !.enter = enter]
  <1>4. IsDecision(e) /\ e.enter = enter /\ e.split = d.split
    BY <1>1 DEF IsDecision
  <1> HIDE DEF e
  <1>5. IsDecision(e) /\ Sparing(e)
    BY <1>1, <1>3, <1>4 DEF Sparing
  <1> QED
    BY <1>5 DEF e, enter

\* The entries of the modes of Ichimoko, before they are counted.
LEMMA DailyEntries ==
    ASSUME mode \in OrderADayModes, DailyOnly(Shown) => DayFree, NEW side \in Sides,
           NEW d \in {Reversal(side, may) : may \in Filters(DailyOnly(Shown))}
    PROVE  IsDecision(d) /\ (d.enter => DayFree) /\ d.split \subseteq Short
  <1> DEFINE mays == Filters(DailyOnly(Shown))
  <1>1. \A may \in mays : may => DayFree
    BY DEF Filters
  <1>2. PICK may \in mays : d = Reversal(side, may)
    OBVIOUS
  <1> HIDE DEF mays
  <1>3. IsDecision(d) /\ d.enter = may /\ d.split = splitOrders
    BY <1>2, DecisionIs DEF Reversal
  <1> QED
    BY <1>1, <1>2, <1>3, SplitsOfDay

\* The Ichimoku modes with up to three orders.
LEMMA IchimokoSpares ==
    ASSUME TypeInv, OrdersInv, DayGap, Timely, Gone, mode \in UpToThree
    PROVE  /\ mode = "Ichimoko_Daily_Index" => AllSparing(Ichimoko_Daily_Index(Shown))
           /\ mode = "Ichimoko_Daily_New" => AllSparing(Ichimoko_Daily_New(Shown))
           /\ mode = "Ichimoko_Daily_Index_Regression_Test" => AllSparing(Ichimoko_Regression_Test(Shown))
  <1>1. mode \in OrderADayModes /\ (DailyOnly(Shown) => DayFree)
    BY SplitsOfDay, DailyOnlyIs
  <1>2. "BUY" \in Sides /\ "SELL" \in Sides
    BY DEF Sides
  <1>3. AllSparing(Ichimoko_Daily_Index(Shown))
    <2> DEFINE may == DailyOnly(Shown) /\ getOrderCount(Shown) < 3
    <2>1. (may => DayFree) /\ (OrderInfoSize >= 3 => (may => Len(open) < 3))
      BY <1>1, OrderCountIs
    <2> HIDE DEF may
    <2>2. mode # "MultipleDay_V2" /\ mode \notin BEILIModes
      BY <1>1, SplitsOfDay
    <2>3. \A side \in Sides : IsDecision(Reversal(side, may)) /\ Sparing(Reversal(side, may))
      BY <2>1, <2>2, ReversalSpares
    <2>4. AllSparing(Follow(may))
      BY <2>3, NothingSpares DEF AllSparing, Follow
    <2> QED
      BY <2>4 DEF Ichimoko_Daily_Index, may
  <1>4. \A count \in 1..3 : AllSparing(UpTo(count, Shown, Ichimoko_Buy(Shown) \cup Ichimoko_Sell(Shown)))
    <2> DEFINE entries == Ichimoko_Buy(Shown) \cup Ichimoko_Sell(Shown)
    <2>1. \A d \in entries : IsDecision(d) /\ (d.enter => DayFree) /\ d.split \subseteq Short
      BY <1>1, <1>2, DailyEntries DEF Ichimoko_Buy, Ichimoko_Sell
    <2> HIDE DEF entries
    <2>2. \A count \in 1..3 : AllSparing(UpTo(count, Shown, entries))
      BY <1>1, <2>1, UpToSpares
    <2> QED
      BY <2>2 DEF entries
  <1>5. AllSparing({Nothing} \cup Ichimoko_New_Entries(Shown))
    <2>1. \A count \in OrderCount : AllSparing(UpTo(count, Shown,
            Ichimoko_Buy(Shown) \cup Ichimoko_Sell(Shown)))
      BY <1>4 DEF OrderCount
    <2> QED
      BY <2>1, NothingSpares DEF AllSparing, Ichimoko_New_Entries
  <1>6. AllSparing(Ichimoko_Daily_New(Shown))
    BY <1>5, WinningSpares DEF Ichimoko_Daily_New
  <1>7. AllSparing(Regression_Entries(Shown))
    <2> DEFINE entries == Regression_Buy(Shown) \cup Regression_Sell(Shown)
    <2>1. \A d \in entries : IsDecision(d) /\ (d.enter => DayFree) /\ d.split \subseteq Short
      BY <1>1, <1>2, DailyEntries DEF Regression_Buy, Regression_Sell
    <2> HIDE DEF entries
    <2>2. \A count \in 1..3 : AllSparing(UpTo(count, Shown, entries))
      BY <1>1, <2>1, UpToSpares
    <2>3. OrderCount_Test \in 1..3
      BY DEF OrderCount_Test
    <2>4. AllSparing(UpTo(OrderCount_Test, Shown, entries))
      BY <2>2, <2>3
    <2> QED
      BY <2>4 DEF entries, Regression_Entries
  <1>8. AllSparing({Nothing} \cup Regression_Entries(Shown))
    BY <1>7, BothSpare
  <1>9. AllSparing(Ichimoko_Regression_Test(Shown))
    BY <1>8, WinningSpares DEF Ichimoko_Regression_Test
  <1> QED
    BY <1>3, <1>6, <1>9

\* The Ichimoku modes with an order a day and no count.
LEMMA V2AndWeeklySpare ==
    ASSUME TypeInv, OrdersInv, DayGap, Timely, Gone, mode \in OrderADayModes \ UpToThree
    PROVE  AllSparing(Ichimoko_Daily_V2(Shown)) /\ AllSparing(Ichimoko_Weekly_Index(Shown))
  <1>1. DailyOnly(Shown) => DayFree
    BY DailyOnlyIs
  <1>2. "BUY" \in Sides /\ "SELL" \in Sides
    BY DEF Sides
  <1>3. AllSparing(Ichimoko_V2_Buy(Shown)) /\ AllSparing(Ichimoko_V2_Sell(Shown))
    <2> DEFINE mays == Filters(DailyOnly(Shown))
    <2>1. \A may \in mays : may => DayFree
      BY <1>1 DEF Filters
    <2> HIDE DEF mays
    <2>2. \A side \in Sides : AllSparing({Reversal(side, may) : may \in mays})
      BY <2>1, MaySpare
    <2>3. AllSparing({Reversal("BUY", may) : may \in mays})
            /\ AllSparing({Reversal("SELL", may) : may \in mays})
      BY <1>2, <2>2
    <2> QED
      BY <2>3 DEF mays, Ichimoko_V2_Buy, Ichimoko_V2_Sell
  <1>4. AllSparing({Nothing} \cup Ichimoko_V2_Buy(Shown) \cup Ichimoko_V2_Sell(Shown)) /\ AllSparing({Nothing})
    BY <1>3, NothingSpares DEF AllSparing
  <1>5. AllSparing(Ichimoko_V2_Trading(Shown)) /\ AllSparing(Winning(ThreeBars({Nothing}), Shown))
    BY <1>4, ThreeBarsSpares, WinningSpares DEF Ichimoko_V2_Trading
  <1>6. AllSparing(Ichimoko_Daily_V2(Shown))
    BY <1>5 DEF Ichimoko_Daily_V2
  <1> DEFINE may == getOrderCountForCurrentWeek(Shown) = 0
  <1>7. may => DayFree
    BY WeeklyIs
  <1> HIDE DEF may
  <1>8. IsDecision(Reversal("BUY", may)) /\ Sparing(Reversal("BUY", may))
    BY <1>2, <1>7, ReversalSpares, SplitsOfDay
  <1>9. AllSparing(IF phase = "night" THEN {Nothing} ELSE {Reversal("BUY", may)})
    BY <1>8, NothingSpares DEF AllSparing
  <1>10. AllSparing(Ichimoko_Weekly_Index(Shown))
    BY <1>9, WinningSpares DEF Ichimoko_Weekly_Index, may
  <1> QED
    BY <1>6, <1>10

\* enterOrder_MultipleDay enters where the mode lets it.
LEMMA enterOrderSpares ==
    ASSUME mode = "MultipleDay_V2", NEW may, may => open = <<>>
    PROVE  AllSparing(enterOrder_MultipleDay(may, split_MultiDays_Swing_V2))
  <1> DEFINE New(side, enters) ==
                 [Reversal(side, enters) EXCEPT !.split = IF enters THEN split_MultiDays_Swing_V2 ELSE NoSplit]
  <1>1. ASSUME NEW side \in Sides, NEW enters, enters => open = <<>>
        PROVE  IsDecision(New(side, enters)) /\ Sparing(New(side, enters))
    <2> DEFINE d == Reversal(side, enters)
               split == IF enters THEN split_MultiDays_Swing_V2 ELSE NoSplit
    <2>1. mode \notin UpToThree /\ mode \notin OrderADayModes /\ mode \notin BEILIModes
      BY SplitsOfDay
    <2>2. IsDecision(d) /\ Sparing(d)
      BY <1>1, <2>1, ReversalSpares
    <2>3. split \in {NoSplit, split_MultiDays_Swing_V2}
      OBVIOUS
    <2> HIDE DEF d, split
    <2>4. IsDecision([d EXCEPT !.split = split]) /\ Sparing([d EXCEPT !.split = split])
      BY <2>2, <2>3, ChangedSpares
    <2> QED
      BY <2>4 DEF d, split
  <1> DEFINE mays == {may, FALSE}
             news == {New(side, enters) : side \in Sides, enters \in mays}
  <1>2. enterOrder_MultipleDay(may, split_MultiDays_Swing_V2) = {Nothing} \cup news
    BY DEF enterOrder_MultipleDay
  <1>3. \A enters \in mays : enters => open = <<>>
    OBVIOUS
  <1> HIDE DEF New, mays
  <1>4. \A d \in news : \E side \in Sides, enters \in mays : d = New(side, enters)
    OBVIOUS
  <1> HIDE DEF news
  <1>5. \A d \in news : IsDecision(d) /\ Sparing(d)
    BY <1>1, <1>3, <1>4
  <1> QED
    BY <1>2, <1>5, NothingSpares DEF AllSparing

\* MultipleDay_V2 enters without a position only.
LEMMA MultipleDay_V2Spares ==
    ASSUME TypeInv, OrdersInv, Sole, mode = "MultipleDay_V2"
    PROVE  AllSparing(MultipleDay_V2(Shown))
  <1>1. ~hasOpenOrder(Shown) => open = <<>>
    BY NoneOpen
  <1>2. ~hasOpenOrder(Shown) => AllSparing(enterOrder_MultipleDay(TRUE, split_MultiDays_Swing_V2))
    <2> DEFINE may == TRUE
    <2> HIDE DEF may
    <2>1. ~hasOpenOrder(Shown) => AllSparing(enterOrder_MultipleDay(may, split_MultiDays_Swing_V2))
      BY <1>1, enterOrderSpares
    <2> QED
      BY <2>1 DEF may
  <1>3. AllSparing({Nothing}) /\ AllSparing(EndOfDay)
    BY NothingSpares DEF AllSparing, EndOfDay
  <1> QED
    BY <1>2, <1>3 DEF MultipleDay_V2

\* Both modes of BEILI enter without a position that was open today.
LEMMA BEILISpares ==
    ASSUME TypeInv, OrdersInv, Sole, Timely, Rest, mode \in BEILIModes
    PROVE  AllSparing(MACD_BEILI(Shown)) /\ AllSparing(MACD_BEILI_Daily_Regression(Shown))
  <1> DEFINE may == NoPosition(Shown) /\ ~ClosedToday(Shown)
  <1>1. mode \notin OrderADayModes /\ mode # "MultipleDay_V2" /\ mode \notin UpToThree
    BY SplitsOfDay
  <1>2. may => open = <<>> /\ Rested
    BY RestedIs
  <1> HIDE DEF may
  <1>3. \A side \in Sides : IsDecision(Reversal(side, may)) /\ Sparing(Reversal(side, may))
    BY <1>1, <1>2, ReversalSpares
  <1>4. AllSparing(Follow(may))
    BY <1>3, NothingSpares DEF AllSparing, Follow
  <1> QED
    BY <1>4 DEF MACD_BEILI, MACD_BEILI_Daily_Regression, may

\* Every decision of every mode is sparing.
LEMMA ModeSpares ==
    ASSUME TypeInv, OrdersInv, Sole, DayGap, Timely, Gone, Rest, NEW under, NEW losing, NEW beyond, NEW zone,
           NEW d \in workoutExecutionTrend(Shown, under, losing, beyond, zone)
    PROVE  Sparing(d)
  <1> DEFINE all == workoutExecutionTrend(Shown, under, losing, beyond, zone)
  <1>1. \A decisions : AllSparing(decisions) => AllSparing(Filtered(decisions))
    BY FilteredSpares
  <1>2. CASE mode = "Ichimoko_Daily_Index"
    <2>1. all = Filtered(Ichimoko_Daily_Index(Shown))
      BY <1>2 DEF workoutExecutionTrend
    <2>2. AllSparing(Ichimoko_Daily_Index(Shown))
      BY <1>2, IchimokoSpares DEF UpToThree
    <2> QED
      BY <1>1, <2>1, <2>2 DEF AllSparing
  <1>3. CASE mode = "Ichimoko_Daily_New"
    <2>1. all = Filtered(Ichimoko_Daily_New(Shown))
      BY <1>3 DEF workoutExecutionTrend
    <2>2. AllSparing(Ichimoko_Daily_New(Shown))
      BY <1>3, IchimokoSpares DEF UpToThree
    <2> QED
      BY <1>1, <2>1, <2>2 DEF AllSparing
  <1>4. CASE mode = "Ichimoko_Daily_Index_Regression_Test"
    <2>1. all = Filtered(Ichimoko_Regression_Test(Shown))
      BY <1>4 DEF workoutExecutionTrend
    <2>2. AllSparing(Ichimoko_Regression_Test(Shown))
      BY <1>4, IchimokoSpares DEF UpToThree
    <2> QED
      BY <1>1, <2>1, <2>2 DEF AllSparing
  <1>5. CASE mode = "Ichimoko_Daily_V2"
    <2>1. all = Filtered(Ichimoko_Daily_V2(Shown))
      BY <1>5 DEF workoutExecutionTrend
    <2>2. mode \in OrderADayModes \ UpToThree
      BY <1>5 DEF OrderADayModes, UpToThree
    <2>3. AllSparing(Ichimoko_Daily_V2(Shown))
      BY <2>2, V2AndWeeklySpare
    <2> QED
      BY <1>1, <2>1, <2>3 DEF AllSparing
  <1>6. CASE mode = "Ichimoko_Weekly_Index"
    <2>1. all = Filtered(Ichimoko_Weekly_Index(Shown))
      BY <1>6 DEF workoutExecutionTrend
    <2>2. mode \in OrderADayModes \ UpToThree
      BY <1>6 DEF OrderADayModes, UpToThree
    <2>3. AllSparing(Ichimoko_Weekly_Index(Shown))
      BY <2>2, V2AndWeeklySpare
    <2> QED
      BY <1>1, <2>1, <2>3 DEF AllSparing
  <1>7. CASE mode = "MultipleDay_V2"
    <2>1. all = Filtered(MultipleDay_V2(Shown))
      BY <1>7 DEF workoutExecutionTrend
    <2>2. AllSparing(MultipleDay_V2(Shown))
      BY <1>7, MultipleDay_V2Spares
    <2> QED
      BY <1>1, <2>1, <2>2 DEF AllSparing
  <1>8. CASE mode \notin OrderADayModes \cup {"MultipleDay_V2"} \cup BEILIModes
    BY <1>8, SplitsOfDay DEF Sparing
  <1>10. CASE mode = "MACD_BEILI"
    <2>1. all = Filtered(MACD_BEILI(Shown))
      BY <1>10 DEF workoutExecutionTrend
    <2>2. AllSparing(MACD_BEILI(Shown))
      BY <1>10, BEILISpares DEF BEILIModes
    <2> QED
      BY <1>1, <2>1, <2>2 DEF AllSparing
  <1>11. CASE mode = "MACD_BEILI_Daily_Regression"
    <2>1. all = Filtered(MACD_BEILI_Daily_Regression(Shown))
      BY <1>11 DEF workoutExecutionTrend
    <2>2. AllSparing(MACD_BEILI_Daily_Regression(Shown))
      BY <1>11, BEILISpares DEF BEILIModes
    <2> QED
      BY <1>1, <2>1, <2>2 DEF AllSparing
  <1>9. mode \in OrderADayModes => mode \in {"Ichimoko_Daily_Index", "Ichimoko_Daily_New",
            "Ichimoko_Daily_Index_Regression_Test", "Ichimoko_Daily_V2", "Ichimoko_Weekly_Index"}
    BY DEF OrderADayModes
  <1>12. mode \in BEILIModes => mode \in {"MACD_BEILI", "MACD_BEILI_Daily_Regression"}
    BY DEF BEILIModes
  <1> HIDE DEF all
  <1> QED
    BY <1>2, <1>3, <1>4, <1>5, <1>6, <1>7, <1>8, <1>9, <1>10, <1>11, <1>12

\* The results of a sparing decision: no entry, or few of them where there is room.
SpareBar(res) ==
    \/ ToOpen(res) = {}
    \/ /\ mode \in OrderADayModes => DayFree /\ \E m \in Nat : ToOpen(res) \subseteq (m + 1)..(m + 1)
       /\ mode = "MultipleDay_V2" => open = <<>> /\ \E m \in Nat : ToOpen(res) \subseteq (m + 1)..(m + 2)
       /\ mode \in UpToThree /\ OrderInfoSize >= 3 => Len(open) < 3
       /\ mode \in BEILIModes => open = <<>> /\ Rested /\ \E m \in Nat : ToOpen(res) \subseteq (m + 1)..(m + 1)

\* The results of a sparing decision are sparing.
LEMMA SparingBar ==
    ASSUME TypeInv, OrdersInv, NEW d, IsDecision(d), Sparing(d), NEW parts \in PartsOf(d)
    PROVE  SpareBar(FilledResults(d, Shown, parts))
  <1> DEFINE res == FilledResults(d, Shown, parts)
  <1>1. CASE mode \notin OrderADayModes \cup {"MultipleDay_V2"} \cup BEILIModes
    BY <1>1, SplitsOfDay DEF SpareBar
  <1>2. CASE mode \in OrderADayModes \cup {"MultipleDay_V2"} \cup BEILIModes
    <2>1. mode \notin EntersFirst
      BY <1>2 DEF EntersFirst, OrderADayModes, BEILIModes
    <2>2. AccountOpen
      BY AccountIs
    <2>3. NoSplit \subseteq Parts /\ NoSplit \subseteq Short /\ NoSplit \subseteq AtMostTwo
      BY SplitsAre, SplitsOfDay DEF Short
    <2>4. parts \in Seq(BOOLEAN)
      BY <2>3 DEF PartsOf, IsDecision, Parts
    <2>5. ~d.enter => ToOpen(res) = {}
      <3> SUFFICES ASSUME ~d.enter PROVE ToOpen(res) = {}
        OBVIOUS
      <3>1. res \in QuietArrays
        BY <2>2, <2>4, FilledStays DEF Shown
      <3> QED
        BY <3>1, QuietHasNone
    <2>6. \E m \in Nat : ToOpen(res) \subseteq (m + 1)..(m + Len(parts))
      BY <2>1, <2>2, <2>4, FilledFew DEF Shown
    <2> HIDE DEF res
    <2>7. PICK m \in Nat : ToOpen(res) \subseteq (m + 1)..(m + Len(parts))
      BY <2>6
    <2>8. Len(parts) \in Nat
      BY <2>4
    <2>9. mode \in OrderADayModes \cup BEILIModes => \E k \in Nat : ToOpen(res) \subseteq (k + 1)..(k + 1)
      <3> SUFFICES ASSUME mode \in OrderADayModes \cup BEILIModes
              PROVE \E k \in Nat : ToOpen(res) \subseteq (k + 1)..(k + 1)
        OBVIOUS
      <3>1. parts \in Short
        BY <2>3 DEF Sparing, PartsOf
      <3>2. Len(parts) <= 1
        BY <3>1 DEF Short
      <3>3. (m + 1)..(m + Len(parts)) \subseteq (m + 1)..(m + 1)
        BY <2>8, <3>2
      <3> QED
        BY <2>7, <3>3
    <2>10. mode = "MultipleDay_V2" => \E k \in Nat : ToOpen(res) \subseteq (k + 1)..(k + 2)
      <3> SUFFICES ASSUME mode = "MultipleDay_V2" PROVE \E k \in Nat : ToOpen(res) \subseteq (k + 1)..(k + 2)
        OBVIOUS
      <3>1. parts \in AtMostTwo
        BY <2>3 DEF Sparing, PartsOf
      <3>2. Len(parts) <= 2
        BY <3>1 DEF AtMostTwo
      <3>3. (m + 1)..(m + Len(parts)) \subseteq (m + 1)..(m + 2)
        BY <2>8, <3>2
      <3> QED
        BY <2>7, <3>3
    <2>11. SpareBar(res)
      BY <2>5, <2>9, <2>10 DEF SpareBar, Sparing
    <2> QED
      BY <2>11 DEF res
  <1> QED
    BY <1>1, <1>2

\* What a bar sends when its entries have few places.
LEMMA FewSent ==
    ASSUME NEW res \in Arrays, NEW done, NEW closes, BarIs(res, done, closes), NEW most \in Nat, NEW m \in Nat,
           ToOpen(res) \subseteq (m + 1)..(m + most), sent \in Nat, done.sent \in Nat
    PROVE  done.sent <= sent + most
  <1>1. CASE ToOpen(res) = {}
    BY <1>1 DEF BarIs
  <1>2. CASE ToOpen(res) # {}
    <2>1. MaxOpenOrders \in Nat /\ ToOpen(res) \subseteq 1..MaxOpenOrders
      BY SizesType DEF ToOpen, Arrays
    <2>2. PICK r \in ToOpen(res) : TRUE
      BY <1>2
    <2>3. r \in 1..MaxOpenOrders /\ r \in (m + 1)..(m + most) /\ m \in 0..MaxOpenOrders
      BY <2>1, <2>2
    <2> DEFINE last == IF m + most <= MaxOpenOrders THEN m + most ELSE MaxOpenOrders
    <2>4. last \in m..MaxOpenOrders /\ last <= m + most /\ last \in Nat
      BY <2>1, <2>3
    <2>5. ToOpen(res) \subseteq (m + 1)..last
      <3> SUFFICES ASSUME NEW k \in ToOpen(res) PROVE k \in (m + 1)..last
        OBVIOUS
      <3>1. k \in 1..MaxOpenOrders /\ k \in (m + 1)..(m + most)
        BY <2>1
      <3> QED
        BY <3>1, <2>1
    <2> HIDE DEF last
    <2>6. \A a \in 0..MaxOpenOrders : \A b \in a..MaxOpenOrders :
             ToOpen(res) \subseteq (a + 1)..b => done.sent <= sent + (b - a)
      BY DEF BarIs
    <2>7. done.sent <= sent + (last - m)
      BY <2>3, <2>4, <2>5, <2>6
    <2> QED
      BY <2>4, <2>7
  <1> QED
    BY <1>1, <1>2

\* What a bar of AutoBBS does, in terms of its results.
LEMMA AutoBBSSteps ==
    ASSUME TypeInv, OrdersInv, Sole, SameSide, DayGap, Timely, Gone, Rest, mode \in AutoBBSModes, AutoBBSBar
    PROVE  \E res \in Arrays : \E done, closes, side :
              BarIs(res, done, closes) /\ (mode \in OneSidedModes => BarFits(res, side)) /\ SpareBar(res)
  <1>1. PICK zone \in Nat : \E under, losing, beyond, withTp :
             \E d \in workoutExecutionTrend(Shown, under, losing, beyond, zone) : \E parts \in PartsOf(d) :
                c_processOrders(FilledResults(d, Shown, parts), under, withTp, zone)
    BY AutoBBSIs
  <1>11. PICK under, losing, beyond, withTp :
             \E d \in workoutExecutionTrend(Shown, under, losing, beyond, zone) : \E parts \in PartsOf(d) :
                c_processOrders(FilledResults(d, Shown, parts), under, withTp, zone)
    BY <1>1
  <1>2. PICK d \in workoutExecutionTrend(Shown, under, losing, beyond, zone) : \E parts \in PartsOf(d) :
             c_processOrders(FilledResults(d, Shown, parts), under, withTp, zone)
    BY <1>11
  <1>3. PICK parts \in PartsOf(d) : c_processOrders(FilledResults(d, Shown, parts), under, withTp, zone)
    BY <1>2
  <1>4. mode \in OneSidedModes => Fit(d)
    BY ModeFits DEF AllFit
  <1>5. IsDecision(d)
    <2>1. mode \notin OneSidedModes => IsDecision(d)
      BY ModeDecides DEF AllDecisions
    <2> QED
      BY <1>4, <2>1 DEF Fit
  <1>6. parts \in Seq(BOOLEAN)
    <2>1. NoSplit \subseteq Seq(BOOLEAN)
      BY SplitsAre DEF Short, Parts
    <2> QED
      BY <1>5, <2>1 DEF PartsOf, IsDecision
  <1> DEFINE res == FilledResults(d, Shown, parts)
  <1>7. res \in Arrays
    BY <1>5, <1>6, AccountIs, FilledStays DEF Shown
  <1>8. mode \in OneSidedModes => BarFits(res, d.trend)
    BY <1>4, DecisionBar
  <1>9. c_processOrders(res, under, withTp, zone)
    BY <1>3
  <1>12. SpareBar(res)
    BY <1>5, ModeSpares, SparingBar
  <1> HIDE DEF res
  <1>10. PICK done, closes : BarIs(res, done, closes)
    BY <1>7, <1>9, ProcessIs
  <1> QED
    BY <1>7, <1>8, <1>10, <1>12

-----------------------------------------------------------------------------
(* The invariants after such a bar. *)

\* A bar keeps the single position of the modes that have one.
LEMMA SoleBar ==
    ASSUME TypeInv, OrdersInv, Sole, NEW res \in Arrays, NEW done, NEW closes, BarIs(res, done, closes),
           mode \in SoleModes => ToOpen(res) = {} \/ (open = <<>>
                   /\ \E m \in Nat : ToOpen(res) \subseteq (m + 1)..(m + 1)),
           mode' = mode
    PROVE  Sole'
  <1> SUFFICES ASSUME mode \in SoleModes
               PROVE  Len(open') <= 1 /\ \A o, p : Among(o, open') /\ Among(p, closed') => p.at < o.at
    BY DEF Sole
  <1>1. /\ open' = done.orders /\ closed' \in Seq(Order) /\ sent \in Nat
        /\ \A p : Among(p, closed') => Among(p, closed) \/ \E o : Among(o, done.ended) /\ Became(p, o)
        /\ \A o : Among(o, done.orders) => Among(o, open) \/ Fresh(o, res, done.sent)
        /\ \A o : Among(o, done.ended) => Among(o, open) \/ Fresh(o, res, done.sent)
        /\ Apart(done.orders, done.ended) /\ done \in States /\ sent <= done.sent
        /\ Len(done.orders) <= Len(open) + (done.sent - sent)
        /\ Len(open) <= 1 /\ \A o, p : Among(o, open) /\ Among(p, closed) => p.at < o.at
        /\ open \in Seq(Order) /\ closed \in Seq(Order)
    BY DEF BarIs, Sending, Sole, TypeInv
  <1>2. /\ done.orders \in Seq(Order) /\ done.ended \in Seq(Order) /\ done.sent \in Nat
        /\ Len(done.orders) \in Nat /\ Len(open) \in Nat
    BY <1>1 DEF States
  <1>3. \A o, e : Among(o, done.orders) /\ Among(e, done.ended) => o.ticket # e.ticket
    BY <1>1, ApartIs
  <1>4. CASE ToOpen(res) = {}
    <2>1. done.sent = sent
      BY <1>4 DEF BarIs
    <2>2. \A o : ~Fresh(o, res, done.sent)
      <3>1. (sent + 1)..sent = {}
        BY <1>1
      <3> QED
        BY <2>1, <3>1 DEF Fresh
    <2>3. Len(open') <= 1
      BY <1>1, <1>2, <2>1
    <2>4. ASSUME NEW o, NEW e, Among(o, open), Among(e, open) PROVE o = e
      <3>1. PICK n \in 1..Len(open) : open[n] = o
        BY <2>4 DEF Among
      <3>2. PICK k \in 1..Len(open) : open[k] = e
        BY <2>4 DEF Among
      <3>3. n = k
        BY <1>1, <1>2
      <3> QED
        BY <3>1, <3>2, <3>3
    <2>5. ASSUME NEW o, NEW p, Among(o, open'), Among(p, closed') PROVE p.at < o.at
      <3>1. Among(o, open) /\ Among(o, done.orders)
        BY <1>1, <2>2, <2>5
      <3>2. ~\E e : Among(e, done.ended) /\ Became(p, e)
        <4> SUFFICES ASSUME NEW e, Among(e, done.ended) PROVE FALSE
          OBVIOUS
        <4>1. Among(e, open)
          BY <1>1, <2>2
        <4>2. e = o
          BY <3>1, <4>1, <2>4
        <4> QED
          BY <4>2, <3>1, <1>3
      <3>3. Among(p, closed)
        BY <1>1, <2>5, <3>2
      <3> QED
        BY <1>1, <3>1, <3>3
    <2> QED
      BY <2>3, <2>5
  <1>5. CASE ToOpen(res) # {}
    <2>1. open = <<>> /\ Len(open) = 0 /\ \A o : ~Among(o, open)
      BY <1>5 DEF Among
    <2>2. PICK m \in Nat : ToOpen(res) \subseteq (m + 1)..(m + 1)
      BY <1>5
    <2>3. done.sent <= sent + 1
      <3>1. PICK r \in ToOpen(res) : TRUE
        BY <1>5
      <3>2. r \in 1..MaxOpenOrders /\ MaxOpenOrders \in Nat
        BY SizesType DEF ToOpen, Arrays
      <3>3. r = m + 1 /\ m \in 0..MaxOpenOrders /\ m + 1 \in m..MaxOpenOrders
        BY <2>2, <3>2
      <3>4. \A a \in 0..MaxOpenOrders : \A b \in a..MaxOpenOrders :
               ToOpen(res) \subseteq (a + 1)..b => done.sent <= sent + (b - a)
        BY DEF BarIs
      <3>5. done.sent <= sent + ((m + 1) - m)
        BY <2>2, <3>3, <3>4
      <3> QED
        BY <3>5, <1>1, <1>2
    <2>4. \A o : Among(o, done.orders) \/ Among(o, done.ended) => Fresh(o, res, done.sent)
      BY <1>1, <2>1
    <2>5. \A o : Fresh(o, res, done.sent) => o.ticket = sent + 1 /\ o.at = sent + 1
      <3> SUFFICES ASSUME NEW o, Fresh(o, res, done.sent) PROVE o.ticket = sent + 1 /\ o.at = sent + 1
        OBVIOUS
      <3>1. o.ticket \in (sent + 1)..done.sent /\ o.at \in (sent + 1)..done.sent
        BY DEF Fresh
      <3> QED
        BY <3>1, <2>3, <1>1, <1>2
    <2>6. Len(open') <= 1
      BY <1>1, <1>2, <2>1, <2>3
    <2>7. ASSUME NEW o, NEW p, Among(o, open'), Among(p, closed') PROVE p.at < o.at
      <3>1. o.ticket = sent + 1 /\ o.at = sent + 1
        BY <1>1, <2>4, <2>5, <2>7
      <3>2. ~\E e : Among(e, done.ended) /\ Became(p, e)
        <4> SUFFICES ASSUME NEW e, Among(e, done.ended) PROVE FALSE
          OBVIOUS
        <4>1. e.ticket = sent + 1
          BY <2>4, <2>5
        <4> QED
          BY <4>1, <3>1, <1>1, <1>3, <2>7
      <3>3. Among(p, closed)
        BY <1>1, <2>7, <3>2
      <3>4. p.at <= sent
        BY <3>3 DEF OrdersInv
      <3>5. p \in Order
        BY <3>3, <1>1 DEF Among
      <3>6. p.at \in Nat
        BY <3>5 DEF Order
      <3> QED
        BY <3>1, <3>4, <3>6, <1>1
    <2> QED
      BY <2>6, <2>7
  <1> QED
    BY <1>4, <1>5

\* A bar keeps the orders of MultipleDay on one side.
LEMMA SameSideBar ==
    ASSUME TypeInv, SameSide, NEW res \in Arrays, NEW done, NEW closes, BarIs(res, done, closes), NEW side,
           mode \in SidedModes => ToOpen(res) = {} \/ (TurnsTo(res, side) /\ \A o : Among(o, open)
                   => o.type = side),
           mode' = mode
    PROVE  SameSide'
  <1> SUFFICES ASSUME mode \in SidedModes, NEW o, NEW p, Among(o, open'), Among(p, open') PROVE o.type = p.type
    BY DEF SameSide
  <1>1. CASE ToOpen(res) = {}
    <2>1. Among(o, open) /\ Among(p, open)
      BY <1>1, QuietBar
    <2> QED
      BY <2>1 DEF SameSide
  <1>2. CASE TurnsTo(res, side) /\ \A e : Among(e, open) => e.type = side
    <2>1. ASSUME NEW e, Among(e, open') PROVE e.type = side
      <3>1. Among(e, open) \/ Fresh(e, res, done.sent)
        BY <2>1 DEF BarIs, Sending
      <3>2. CASE Fresh(e, res, done.sent)
        <4>1. e.type \in Sides /\ \E q \in 1..MaxOpenOrders : <<"OPEN", e.type>> \in res[q].signals
          BY <3>2 DEF Fresh, Order
        <4> QED
          BY <4>1, <1>2 DEF TurnsTo
      <3> QED
        BY <3>1, <3>2, <1>2
    <2> QED
      BY <2>1
  <1> QED
    BY <1>1, <1>2

\* The order o, or the one it was before it was closed, is of the account, of the history or sent on the bar.
CameFrom(o, res, upto) == Among(o, open) \/ Among(o, closed) \/ Fresh(o, res, upto)

\* Where the orders of the account and of the history come from.
LEMMA OriginIs ==
    ASSUME NEW res \in Arrays, NEW done, NEW closes, BarIs(res, done, closes)
    PROVE  /\ \A o : Among(o, open') => Among(o, open) \/ Fresh(o, res, done.sent)
           /\ \A p : Among(p, open') \/ Among(p, closed') =>
                 \E o : /\ o.ticket = p.ticket /\ o.day = p.day /\ o.at = p.at
                        /\ CameFrom(o, res, done.sent)
  <1>1. /\ open' = done.orders
        /\ \A o : Among(o, done.orders) => Among(o, open) \/ Fresh(o, res, done.sent)
        /\ \A o : Among(o, done.ended) => Among(o, open) \/ Fresh(o, res, done.sent)
        /\ \A p : Among(p, closed') => Among(p, closed) \/ \E o : Among(o, done.ended) /\ Became(p, o)
    BY DEF BarIs, Sending
  <1>2. ASSUME NEW p, Among(p, open') \/ Among(p, closed')
        PROVE  \E o : o.ticket = p.ticket /\ o.day = p.day /\ o.at = p.at /\ CameFrom(o, res, done.sent)
    <2>1. CASE Among(p, open') \/ Among(p, closed)
      BY <1>1, <2>1 DEF CameFrom
    <2>2. CASE \E o : Among(o, done.ended) /\ Became(p, o)
      BY <1>1, <2>2 DEF CameFrom, Became
    <2> QED
      BY <1>1, <1>2, <2>1, <2>2
  <1> QED
    BY <1>1, <1>2

\* A bar keeps what was closed apart from what is open.
LEMMA GoneBar ==
    ASSUME TypeInv, OrdersInv, Gone, NEW res \in Arrays, NEW done, NEW closes, BarIs(res, done, closes)
    PROVE  Gone'
  <1> SUFFICES ASSUME NEW o, NEW p, Among(o, open'), Among(p, closed') PROVE o.ticket # p.ticket
    BY DEF Gone
  <1>1. /\ open' = done.orders /\ closed \in Seq(Order) /\ sent \in Nat
        /\ Among(o, open) \/ Fresh(o, res, done.sent)
        /\ Among(p, closed) \/ \E e : Among(e, done.ended) /\ Became(p, e)
        /\ Apart(done.orders, done.ended)
    BY DEF BarIs, Sending, TypeInv
  <1>2. CASE Among(p, closed)
    <2>1. p.ticket <= sent /\ p \in Order
      BY <1>1, <1>2 DEF OrdersInv, Among
    <2>2. p.ticket \in Nat
      BY <2>1 DEF Order
    <2>3. CASE Among(o, open)
      BY <1>2, <2>3 DEF Gone
    <2>4. CASE Fresh(o, res, done.sent)
      <3>1. o.ticket \in (sent + 1)..done.sent
        BY <2>4 DEF Fresh
      <3>2. o.ticket >= sent + 1
        BY <3>1
      <3> QED
        BY <2>1, <2>2, <3>1, <3>2, <1>1
    <2> QED
      BY <1>1, <2>3, <2>4
  <1>3. CASE \E e : Among(e, done.ended) /\ Became(p, e)
    BY <1>1, <1>3, ApartIs DEF Became
  <1> QED
    BY <1>1, <1>2, <1>3

\* What a sparing bar of a mode with an order a day sends.
LEMMA OneSent ==
    ASSUME TypeInv, mode \in OrderADayModes \cup BEILIModes, NEW res \in Arrays, NEW done, NEW closes,
           BarIs(res, done, closes), SpareBar(res)
    PROVE  /\ done.sent \in sent..(sent + 1)
           /\ \A o : Fresh(o, res, done.sent) =>
                 /\ o.ticket = sent + 1 /\ o.at = sent + 1 /\ o.day = day
                 /\ mode \in OrderADayModes => DayFree
                 /\ mode \in BEILIModes => open = <<>> /\ Rested
  <1>1. sent \in Nat /\ done.sent \in Nat /\ sent <= done.sent
    BY DEF TypeInv, BarIs, Sending, States
  <1>2. done.sent <= sent + 1 /\ (ToOpen(res) = {} => done.sent = sent)
    <2>1. ToOpen(res) = {} => done.sent = sent
      BY DEF BarIs
    <2>2. ASSUME ToOpen(res) # {} PROVE done.sent <= sent + 1
      <3>1. PICK m \in Nat : ToOpen(res) \subseteq (m + 1)..(m + 1)
        BY <2>2 DEF SpareBar
      <3>2. 1 \in Nat
        OBVIOUS
      <3> QED
        BY <1>1, <3>1, <3>2, FewSent
    <2> QED
      BY <1>1, <2>1, <2>2
  <1>3. ASSUME NEW o, Fresh(o, res, done.sent)
        PROVE  /\ o.ticket = sent + 1 /\ o.at = sent + 1 /\ o.day = day
               /\ mode \in OrderADayModes => DayFree
               /\ mode \in BEILIModes => open = <<>> /\ Rested
    <2>1. o.ticket \in (sent + 1)..done.sent /\ o.at \in (sent + 1)..done.sent /\ o.day = day
      BY <1>3 DEF Fresh
    <2>2. o.ticket = sent + 1 /\ o.at = sent + 1 /\ done.sent = sent + 1
      BY <1>1, <1>2, <2>1
    <2>3. ToOpen(res) # {}
      BY <1>1, <1>2, <2>2
    <2> QED
      BY <2>1, <2>2, <2>3 DEF SpareBar
  <1> QED
    BY <1>1, <1>2, <1>3

\* A bar keeps an order a day.
LEMMA DayBar ==
    ASSUME TypeInv, OrdersInv, DayGap, Timely, NEW res \in Arrays, NEW done, NEW closes,
           BarIs(res, done, closes), SpareBar(res), mode' = mode, day' = day
    PROVE  DayGap' /\ Timely'
  <1> SUFFICES ASSUME mode \in OrderADayModes \cup BEILIModes PROVE DayGap' /\ Timely'
    BY DEF DayGap, Timely
  <1>0. /\ done.sent \in sent..(sent + 1)
        /\ \A o : Fresh(o, res, done.sent) =>
              /\ o.ticket = sent + 1 /\ o.at = sent + 1 /\ o.day = day
              /\ mode \in OrderADayModes => DayFree
              /\ mode \in BEILIModes => open = <<>> /\ Rested
    BY OneSent
  <1>1. /\ done.sent \in sent..(sent + 1) /\ sent \in Nat /\ done.sent \in Nat /\ day \in Nat
        /\ \A o : Fresh(o, res, done.sent) =>
              o.ticket = sent + 1 /\ o.at = sent + 1 /\ o.day = day /\ (mode \in OrderADayModes => DayFree)
    BY <1>0 DEF TypeInv, BarIs, Sending, States
  <1>2. /\ \A o : Among(o, open') => Among(o, open) \/ Fresh(o, res, done.sent)
        /\ \A p : Among(p, open') \/ Among(p, closed') =>
              \E o : /\ o.ticket = p.ticket /\ o.day = p.day /\ o.at = p.at
                     /\ CameFrom(o, res, done.sent)
    BY OriginIs
  <1>3. Timely'
    <2> SUFFICES ASSUME NEW p, Among(p, open') \/ Among(p, closed') PROVE p.at = p.ticket /\ p.day <= day
      BY DEF Timely
    <2>1. PICK o : o.ticket = p.ticket /\ o.day = p.day /\ o.at = p.at /\ CameFrom(o, res, done.sent)
      BY <1>2
    <2>2. o.at = o.ticket /\ o.day <= day
      <3>1. CASE Among(o, open) \/ Among(o, closed)
        BY <3>1 DEF Timely
      <3>2. CASE Fresh(o, res, done.sent)
        <4>1. o.at = sent + 1 /\ o.ticket = sent + 1 /\ o.day = day
          BY <1>1, <3>2
        <4> QED
          BY <4>1, <1>1
      <3> QED
        BY <2>1, <3>1, <3>2 DEF CameFrom
    <2> QED
      BY <2>1, <2>2
  <1>4. DayGap'
    <2> SUFFICES ASSUME mode \in OrderADayModes, NEW o, NEW p, Among(o, open'),
                        Among(p, open') \/ Among(p, closed'), o.ticket < p.ticket
                 PROVE  o.day < p.day
      BY DEF DayGap
    <2>1. PICK e : e.ticket = p.ticket /\ e.day = p.day /\ e.at = p.at /\ CameFrom(e, res, done.sent)
      BY <1>2
    <2>2. CASE Among(o, open)
      <3>1. CASE Among(e, open) \/ Among(e, closed)
        <4>1. o.day < e.day
          BY <2>1, <2>2, <3>1 DEF DayGap
        <4> QED
          BY <2>1, <4>1
      <3>2. CASE Fresh(e, res, done.sent)
        <4>1. e.day = day /\ DayFree
          BY <1>1, <3>2
        <4> QED
          BY <2>1, <2>2, <4>1 DEF DayFree
      <3> QED
        BY <2>1, <3>1, <3>2 DEF CameFrom
    <2>3. CASE Fresh(o, res, done.sent)
      <3>1. o.ticket = sent + 1
        BY <1>1, <2>3
      <3>2. e.ticket <= sent + 1
        <4>1. CASE Among(e, open) \/ Among(e, closed)
          <5>1. e.ticket <= sent /\ e \in Order
            BY <4>1 DEF OrdersInv, TypeInv, Among
          <5>2. e.ticket \in Nat
            BY <5>1 DEF Order
          <5> QED
            BY <5>1, <5>2, <1>1
        <4>2. CASE Fresh(e, res, done.sent)
          <5>1. e.ticket = sent + 1
            BY <1>1, <4>2
          <5> QED
            BY <5>1, <1>1
        <4> QED
          BY <2>1, <4>1, <4>2 DEF CameFrom
      <3>3. e.ticket \in Nat
        <4>1. sent + 1 < e.ticket
          BY <2>1, <3>1
        <4>2. e \in Order
          BY <2>1 DEF CameFrom, Fresh, TypeInv, Among
        <4> QED
          BY <4>2 DEF Order
      <3>4. FALSE
        BY <2>1, <3>1, <3>2, <3>3, <1>1
      <3> QED
        BY <3>4
    <2> QED
      BY <1>2, <2>2, <2>3
  <1> QED
    BY <1>3, <1>4

\* A bar keeps the parts of a position and the three orders at most.
LEMMA CountBar ==
    ASSUME TypeInv, OrdersInv, PartsOfADay, ThreeAtMost, NEW res \in Arrays, NEW done, NEW closes,
           BarIs(res, done, closes), SpareBar(res), mode' = mode, day' = day
    PROVE  PartsOfADay' /\ ThreeAtMost'
  <1>1. /\ sent \in Nat /\ done.sent \in Nat /\ sent <= done.sent /\ Len(open) \in Nat /\ Len(open') \in Nat
        /\ Len(open') <= Len(open) + (done.sent - sent)
    <2>1. /\ done \in States /\ sent <= done.sent /\ open' = done.orders
          /\ Len(done.orders) <= Len(open) + (done.sent - sent)
      BY DEF BarIs, Sending
    <2>2. done.orders \in Seq(Order) /\ done.sent \in Nat
      BY <2>1 DEF States
    <2> QED
      BY <2>1, <2>2 DEF TypeInv
  <1>2. CASE ToOpen(res) = {}
    <2>1. Len(open') <= Len(open) /\ \A o : Among(o, open') => Among(o, open)
      BY <1>2, QuietBar
    <2>2. PartsOfADay'
      <3> SUFFICES ASSUME mode = "MultipleDay_V2"
                   PROVE  Len(open') <= 2 /\ \A o, p : Among(o, open') /\ Among(p, open') => o.day = p.day
        BY DEF PartsOfADay
      <3>1. Len(open) <= 2 /\ \A o, p : Among(o, open) /\ Among(p, open) => o.day = p.day
        BY DEF PartsOfADay
      <3>2. Len(open') <= 2
        BY <1>1, <2>1, <3>1
      <3> QED
        BY <2>1, <3>1, <3>2
    <2>3. ThreeAtMost'
      <3> SUFFICES ASSUME mode \in UpToThree, OrderInfoSize >= 3 PROVE Len(open') <= 3
        BY DEF ThreeAtMost
      <3>1. Len(open) <= 3
        BY DEF ThreeAtMost
      <3> QED
        BY <1>1, <2>1, <3>1
    <2> QED
      BY <2>2, <2>3
  <1>3. CASE ToOpen(res) # {}
    <2>1. PartsOfADay'
      <3> SUFFICES ASSUME mode = "MultipleDay_V2"
                   PROVE  Len(open') <= 2 /\ \A o, p : Among(o, open') /\ Among(p, open') => o.day = p.day
        BY DEF PartsOfADay
      <3>1. open = <<>> /\ \E m \in Nat : ToOpen(res) \subseteq (m + 1)..(m + 2)
        BY <1>3 DEF SpareBar
      <3>2. PICK m \in Nat : ToOpen(res) \subseteq (m + 1)..(m + 2)
        BY <3>1
      <3>3. 2 \in Nat
        OBVIOUS
      <3>4. done.sent <= sent + 2
        BY <1>1, <3>2, <3>3, FewSent
      <3>5. Len(open) = 0 /\ \A o : ~Among(o, open)
        BY <3>1 DEF Among
      <3>6. Len(open') <= 2
        BY <1>1, <3>4, <3>5
      <3>7. \A o : Among(o, open') => o.day = day
        BY <3>5, OriginIs DEF Fresh
      <3> QED
        BY <3>6, <3>7
    <2>2. ThreeAtMost'
      <3> SUFFICES ASSUME mode \in UpToThree, OrderInfoSize >= 3 PROVE Len(open') <= 3
        BY DEF ThreeAtMost
      <3>1. Len(open) < 3
        BY <1>3 DEF SpareBar
      <3>2. done.sent \in sent..(sent + 1)
        BY OneSent, SplitsOfDay
      <3> QED
        BY <1>1, <3>1, <3>2
    <2> QED
      BY <2>1, <2>2
  <1> QED
    BY <1>2, <1>3

\* The history keeps its order when what ended, of all that came, was sent last.
LEMMA RestStays ==
    ASSUME TypeInv, OrdersInv, Rest, mode \in BEILIModes, mode' = mode, day' = day, NEW came \in SUBSET Order,
           NEW ended \in SUBSET came, closed' \in Seq(Order),
           \A p : Among(p, closed') => Among(p, closed) \/ \E o \in ended : Became(p, o),
           \A p : Among(p, open') \/ Among(p, closed') => \E e \in came : e.ticket = p.ticket /\ e.day = p.day,
           \A e \in came : \A o : Among(o, closed) /\ o.ticket < e.ticket => o.until < e.day,
           \A e \in came, o \in ended : e.ticket <= o.ticket,
           \A o \in ended : \A p : Among(p, closed) => p.ticket < o.ticket,
           \A o \in ended : o.day <= day,
           closed' = closed \/ \E o \in ended : Became(closed'[Len(closed')], o)
    PROVE  Rest'
  <1>1. day \in Nat /\ closed \in Seq(Order)
    BY DEF TypeInv
  <1>2. \A p : Among(p, closed) \/ Among(p, closed') => p \in Order
    BY <1>1 DEF Among
  <1>3. \A p \in Order : p.ticket \in Nat /\ p.until \in Nat /\ p.day \in Nat
    BY DEF Order
  <1>4. ASSUME NEW p, Among(p, closed') PROVE p.day <= p.until /\ p.until <= day
    <2>1. CASE Among(p, closed)
      BY <2>1 DEF Rest
    <2>2. CASE \E o \in ended : Became(p, o)
      <3>1. PICK o \in ended : Became(p, o)
        BY <2>2
      <3>2. p.day = o.day /\ p.until = day /\ o.day <= day
        BY <3>1 DEF Became
      <3> QED
        BY <3>2, <1>1
    <2> QED
      BY <1>4, <2>1, <2>2
  <1>5. ASSUME NEW o, NEW p, Among(o, closed'), Among(p, open') \/ Among(p, closed'), o.ticket < p.ticket
        PROVE  o.until < p.day
    <2>1. PICK e \in came : e.ticket = p.ticket /\ e.day = p.day
      BY <1>5
    <2>2. CASE Among(o, closed)
      <3>1. o.ticket < e.ticket
        BY <1>5, <2>1
      <3>2. o.until < e.day
        BY <2>2, <3>1
      <3> QED
        BY <2>1, <3>2
    <2>3. CASE \E q \in ended : Became(o, q)
      <3>1. PICK q \in ended : Became(o, q)
        BY <2>3
      <3>2. e.ticket <= q.ticket /\ q.ticket = o.ticket /\ q \in Order
        BY <3>1 DEF Became
      <3>3. p.ticket <= o.ticket /\ p.ticket \in Nat /\ o.ticket \in Nat
        BY <2>1, <3>2, <1>3
      <3> QED
        BY <3>3, <1>5
    <2> QED
      BY <1>5, <2>2, <2>3
  <1>6. ASSUME NEW o, NEW q \in ended, Among(o, closed') PROVE o.ticket <= q.ticket
    <2>1. CASE Among(o, closed)
      <3>1. o.ticket < q.ticket /\ o \in Order /\ q \in Order
        BY <2>1, <1>2
      <3> QED
        BY <3>1, <1>3
    <2>2. CASE \E r \in ended : Became(o, r)
      BY <2>2 DEF Became
    <2> QED
      BY <1>6, <2>1, <2>2
  <1>7. ASSUME NEW o, NEW p, Among(o, closed'), Among(p, closed'), o.ticket = p.ticket PROVE o.until = p.until
    <2>1. ASSUME NEW a, NEW b, Among(a, closed), Among(b, closed'), ~Among(b, closed) PROVE a.ticket < b.ticket
      BY <2>1 DEF Became
    <2>2. CASE Among(o, closed) /\ Among(p, closed)
      BY <1>7, <2>2 DEF Rest
    <2>3. CASE ~Among(o, closed) /\ ~Among(p, closed)
      BY <1>7, <2>3 DEF Became
    <2>4. CASE Among(o, closed) /\ ~Among(p, closed)
      <3>1. o.ticket < p.ticket
        BY <1>7, <2>1, <2>4
      <3> QED
        BY <3>1, <1>2, <1>3, <1>7
    <2>5. CASE ~Among(o, closed) /\ Among(p, closed)
      <3>1. p.ticket < o.ticket
        BY <1>7, <2>1, <2>5
      <3> QED
        BY <3>1, <1>2, <1>3, <1>7
    <2> QED
      BY <2>2, <2>3, <2>4, <2>5
  <1>8. closed' # <<>> => \A o : Among(o, closed') => o.ticket <= closed'[Len(closed')].ticket
    <2>1. CASE closed' = closed
      BY <2>1 DEF Rest
    <2>2. CASE \E q \in ended : Became(closed'[Len(closed')], q)
      BY <2>2, <1>6 DEF Became
    <2> QED
      BY <2>1, <2>2
  <1> QED
    BY <1>4, <1>5, <1>7, <1>8 DEF Rest

\* A bar keeps the days between what BEILI closed and what it sends.
LEMMA RestBar ==
    ASSUME TypeInv, OrdersInv, Sole, Timely, Rest, NEW res \in Arrays, NEW done, NEW closes,
           BarIs(res, done, closes), SpareBar(res), mode' = mode, day' = day
    PROVE  Rest'
  <1> SUFFICES ASSUME mode \in BEILIModes PROVE Rest'
    BY DEF Rest
  <1>1. /\ sent \in Nat /\ day \in Nat /\ open \in Seq(Order) /\ closed \in Seq(Order)
        /\ \A o : Fresh(o, res, done.sent) => o.ticket = sent + 1 /\ o.day = day /\ open = <<>> /\ Rested
    BY OneSent DEF TypeInv
  <1>2. /\ closed' \in Seq(Order) /\ done.ended \in Seq(Order) /\ LastEnded(closed', done.ended)
        /\ \A p : Among(p, closed') => Among(p, closed) \/ \E o : Among(o, done.ended) /\ Became(p, o)
        /\ \A o : Among(o, done.ended) => Among(o, open) \/ Fresh(o, res, done.sent)
    BY DEF BarIs, Sending, States
  <1> DEFINE came == {o \in Order : CameFrom(o, res, done.sent)}
             ended == {o \in Order : Among(o, done.ended)}
  <1>3. \A o : CameFrom(o, res, done.sent) \/ Among(o, done.ended) => o \in Order
    BY <1>1, <1>2 DEF CameFrom, Fresh, Among
  <1>4. \A o \in Order : o.ticket \in Nat /\ o.day \in Nat /\ o.until \in Nat
    BY DEF Order
  <1>5. /\ mode \in SoleModes /\ Len(open) <= 1 /\ \A o, p : Among(o, open) /\ Among(p, closed) => p.at < o.at
        /\ \A o : Among(o, open) \/ Among(o, closed) => o.at = o.ticket /\ o.day <= day
        /\ \A o : Among(o, open) \/ Among(o, closed) => o.ticket <= sent
    BY DEF SoleModes, Sole, Timely, OrdersInv
  <1>6. \A o, p : Among(o, open) /\ Among(p, closed) => p.ticket < o.ticket
    BY <1>5
  <1>7. \A o, p : Among(o, open) /\ Among(p, open) => o = p
    <2> SUFFICES ASSUME NEW o, NEW p, Among(o, open), Among(p, open) PROVE o = p
      OBVIOUS
    <2>1. PICK n \in 1..Len(open) : open[n] = o
      BY DEF Among
    <2>2. PICK k \in 1..Len(open) : open[k] = p
      BY DEF Among
    <2>3. n = k
      BY <1>1, <1>5
    <2> QED
      BY <2>1, <2>2, <2>3
  <1>8. came \in SUBSET Order /\ ended \in SUBSET came
    BY <1>2 DEF CameFrom
  <1>9. \A p : Among(p, open') \/ Among(p, closed') => \E e \in came : e.ticket = p.ticket /\ e.day = p.day
    BY <1>3, OriginIs
  <1>10. ASSUME NEW e \in came, NEW o, Among(o, closed), o.ticket < e.ticket PROVE o.until < e.day
    <2>1. CASE Fresh(e, res, done.sent)
      BY <2>1, <1>1, <1>10 DEF Rested
    <2>2. CASE Among(e, open) \/ Among(e, closed)
      BY <2>2, <1>10 DEF Rest
    <2> QED
      BY <2>1, <2>2 DEF CameFrom
  <1>11. ASSUME NEW e \in came, NEW o \in ended PROVE e.ticket <= o.ticket
    <2>1. e.ticket \in Nat /\ o.ticket \in Nat
      BY <1>4
    <2>2. CASE Fresh(o, res, done.sent)
      <3>1. o.ticket = sent + 1
        BY <1>1, <2>2
      <3>2. e.ticket = sent + 1 \/ e.ticket <= sent
        BY <1>1, <1>5 DEF CameFrom
      <3> QED
        BY <3>1, <3>2, <2>1, <1>1
    <2>3. CASE Among(o, open)
      <3>1. open # <<>>
        BY <2>3 DEF Among
      <3>2. CASE Among(e, open)
        BY <2>3, <3>2, <1>7, <2>1
      <3>3. CASE Among(e, closed)
        <4>1. e.ticket < o.ticket
          BY <2>3, <3>3, <1>6
        <4> QED
          BY <4>1, <2>1
      <3> QED
        BY <3>1, <3>2, <3>3, <1>1 DEF CameFrom
    <2> QED
      BY <2>2, <2>3, <1>2
  <1>12. ASSUME NEW o \in ended, NEW p, Among(p, closed) PROVE p.ticket < o.ticket
    <2>1. CASE Fresh(o, res, done.sent)
      <3>1. o.ticket = sent + 1 /\ p.ticket <= sent /\ p \in Order
        BY <1>1, <1>3, <1>5, <1>12, <2>1 DEF CameFrom
      <3> QED
        BY <3>1, <1>1, <1>4
    <2> QED
      BY <2>1, <1>2, <1>6, <1>12
  <1>13. ASSUME NEW o \in ended PROVE o.day <= day
    BY <1>1, <1>2, <1>5
  <1>14. \A p : Among(p, closed') => Among(p, closed) \/ \E o \in ended : Became(p, o)
    BY <1>2, <1>3
  <1>15. closed' = closed \/ \E o \in ended : Became(closed'[Len(closed')], o)
    BY <1>2, <1>3 DEF LastEnded
  <1> HIDE DEF came, ended
  <1> QED
    BY <1>2, <1>8, <1>9, <1>10, <1>11, <1>12, <1>13, <1>14, <1>15, RestStays

-----------------------------------------------------------------------------
(* The runs of the other strategies that send no order. *)

\* A run that sends no order.
IsRun(run) == run = [res |-> run.res, updated |-> run.updated, side |-> run.side]

\* With no call refused, no bar missed and no time lost, it keeps the time of the entry it holds.
Calm == mode \in OpenOrUpdate \ {"Atipaq"} /\ OrderInfoSize >= 2 /\ faults = 0
TimeKnown == Calm /\ open # <<>> => updated # 0
KeepsTime(run) == Calm /\ open # <<>> => run.updated = updated

QuietRun(run) == IsRun(run) /\ run.res \in QuietArrays /\ run.side \notin Sides /\ KeepsTime(run)

\* A quiet run with other quiet results is quiet.
LEMMA ResultsQuiet ==
    ASSUME NEW run, QuietRun(run), NEW res \in QuietArrays
    PROVE  QuietRun([run EXCEPT !.res = res])
  <1>1. [run EXCEPT !.res = res] = [res |-> res, updated |-> run.updated, side |-> run.side]
    BY DEF QuietRun, IsRun
  <1> QED
    BY <1>1 DEF QuietRun, IsRun, KeepsTime

FirstLook(last) == [time |-> last, updated |-> last, closes |-> {}]
Days(last, held) == {last} \cup {held[n].day : n \in 1..Len(held)}
Looks(last, held) == [time : Days(last, held), updated : Days(last, held), closes : SUBSET Sides]

\* An order is looked at.
NextLook(o, before) ==
    LET time == IF before.time = 0 THEN before.updated ELSE before.time
    IN  [time    |-> time,
         updated |-> IF before.time = 0 THEN o.day ELSE before.updated,
         closes  |-> IF time = 0 \/ day - time > TimedExitBars
                     THEN before.closes \cup {o.type} ELSE before.closes]

\* The recursion of checkTimes.
LooksBy(f, last, held) ==
    /\ f[0] = FirstLook(last)
    /\ \A m \in 1..Len(held) : f[m] = NextLook(held[m], f[m - 1])
    /\ checkTimes(last, held) = f[Len(held)]

\* The recursive function of checkTimes exists.
LEMMA LooksBuilt ==
    ASSUME NEW last, NEW held \in Seq(Order)
    PROVE  \E f \in [0..Len(held) -> Looks(last, held)] : LooksBy(f, last, held)
  <1> DEFINE After(m, x) == NextLook(held[m], x)
             step == [m \in 1..Len(held) |-> [x \in Looks(last, held) |-> After(m, x)]]
             Rec(f) == [m \in 0..Len(held) |-> IF m = 0 THEN FirstLook(last) ELSE After(m, f[m - 1])]
             built == CHOOSE f : f = Rec(f)
  <1>1. Len(held) \in Nat /\ FirstLook(last) \in Looks(last, held)
          /\ \A m \in 1..Len(held) : \A x \in Looks(last, held) : After(m, x) \in Looks(last, held)
    <2>1. Len(held) \in Nat /\ FirstLook(last) \in Looks(last, held)
      <3>1. last \in Days(last, held)
        BY DEF Days
      <3> HIDE DEF Days
      <3> QED
        BY <3>1 DEF FirstLook, Looks
    <2>2. ASSUME NEW m \in 1..Len(held), NEW x \in Looks(last, held)
          PROVE  After(m, x) \in Looks(last, held)
      <3>1. held[m].day \in Days(last, held)
        BY DEF Days
      <3>2. held[m].type \in Sides
        <4>1. held[m] \in Order
          OBVIOUS
        <4> QED
          BY <4>1 DEF Order
      <3>3. x.time \in Days(last, held) /\ x.updated \in Days(last, held) /\ x.closes \in SUBSET Sides
        BY DEF Looks
      <3> HIDE DEF Days
      <3> DEFINE time == IF x.time = 0 THEN x.updated ELSE x.time
                 old == time = 0 \/ day - time > TimedExitBars
                 news == IF x.time = 0 THEN held[m].day ELSE x.updated
                 closes == IF old THEN x.closes \cup {held[m].type} ELSE x.closes
      <3>4. time \in Days(last, held)
        BY <3>3
      <3>5. news \in Days(last, held)
        BY <3>1, <3>3
      <3>6. closes \in SUBSET Sides
        <4> HIDE DEF old
        <4> QED
          BY <3>2, <3>3
      <3>7. After(m, x) = [time |-> time, updated |-> news, closes |-> closes]
        BY DEF NextLook
      <3> HIDE DEF time, news, closes, After
      <3> QED
        BY <3>4, <3>5, <3>6, <3>7 DEF Looks
    <2> HIDE DEF After
    <2> QED
      BY <2>1, <2>2
  <1>2. checkTimes(last, held) = built[Len(held)]
    BY DEF checkTimes, FirstLook, NextLook
  <1>3. \A f : \A m \in 1..Len(held) : After(m, f[m - 1]) = NextLook(held[m], f[m - 1])
    OBVIOUS
  <1> HIDE DEF After
  <1>4. PICK f \in [0..Len(held) -> Looks(last, held)] : f = Rec(f)
    <2>1. step \in [1..Len(held) -> [Looks(last, held) -> Looks(last, held)]]
      BY <1>1
    <2>2. \A m \in 1..Len(held) : \A x \in Looks(last, held) : step[m][x] = After(m, x)
      OBVIOUS
    <2> HIDE DEF step
    <2>3. BuiltUp(Len(held), Looks(last, held), FirstLook(last), step)
      BY <1>1, <2>1, RecursionExists
    <2>4. PICK f \in [0..Len(held) -> Looks(last, held)] : f[0] = FirstLook(last)
            /\ \A m \in 1..Len(held) : f[m] = step[m][f[m - 1]]
      BY <2>3 DEF BuiltUp
    <2>5. ASSUME NEW m \in 1..Len(held) PROVE f[m] = After(m, f[m - 1])
      <3>1. f[m - 1] \in Looks(last, held)
        BY <1>1
      <3> QED
        BY <3>1, <2>2, <2>4
    <2>6. f = Rec(f)
      BY <2>4, <2>5
    <2> QED
      BY <2>6
  <1>5. built = Rec(built)
    <2> HIDE DEF Rec
    <2> QED
      BY <1>4
  <1> HIDE DEF built
  <1>6. built[0] = FirstLook(last) /\ \A m \in 1..Len(held) : built[m] = After(m, built[m - 1])
    BY <1>5, <1>1
  <1>7. built \in [0..Len(held) -> Looks(last, held)]
    <2> DEFINE Good == {m \in 0..Len(held) : built[m] \in Looks(last, held)}
    <2>1. 0 \in Good
      <3>1. built[0] = FirstLook(last) /\ Len(held) \in Nat
        BY <1>6, <1>1
      <3>2. built[0] \in Looks(last, held)
        BY <3>1, <1>1
      <3> QED
        BY <3>1, <3>2
    <2>2. ASSUME NEW m \in 1..Len(held), m - 1 \in Good PROVE m \in Good
      <3>1. built[m] = After(m, built[m - 1]) /\ built[m - 1] \in Looks(last, held)
        BY <1>6, <2>2
      <3>2. built[m] \in Looks(last, held)
        BY <1>1, <3>1
      <3> QED
        BY <3>2
    <2>3. \A m \in 0..Len(held) : m \in Good
      <3> HIDE DEF Good
      <3> QED
        BY <2>1, <2>2, <1>1, InductionTo
    <2>4. built = [m \in 0..Len(held) |-> built[m]]
      BY <1>5
    <2> QED
      BY <2>3, <2>4
  <1> QED
    BY <1>2, <1>6, <1>7, <1>3 DEF LooksBy

\* A known time is not replaced, and when it is too long ago all the orders are closed.
LEMMA TimesAre ==
    ASSUME NEW last, last # 0, NEW held \in Seq(Order)
    PROVE  /\ checkTimes(last, held).updated = last
           /\ day - last > TimedExitBars => \A n \in 1..Len(held) : held[n].type \in checkTimes(last,
                   held).closes
  <1>1. PICK f \in [0..Len(held) -> Looks(last, held)] : LooksBy(f, last, held)
    BY LooksBuilt
  <1>2. /\ Len(held) \in Nat /\ f[0] = FirstLook(last) /\ checkTimes(last, held) = f[Len(held)]
        /\ \A m \in 1..Len(held) : f[m] = NextLook(held[m], f[m - 1])
    BY <1>1 DEF LooksBy
  <1> DEFINE Old == day - last > TimedExitBars
             Same(x) == x.time = last /\ x.updated = last
             All(m) == Old => \A n \in 1..m : held[n].type \in f[m].closes
             Good == {m \in 0..Len(held) : Same(f[m]) /\ All(m)}
  <1>3. 0 \in Good
    <2>1. Same(f[0]) /\ 1..0 = {} /\ 0 \in 0..Len(held)
      BY <1>2 DEF FirstLook
    <2> HIDE DEF Same, Old
    <2> QED
      BY <2>1
  <1>4. ASSUME NEW m \in 1..Len(held), m - 1 \in Good PROVE m \in Good
    <2>1. Same(f[m - 1]) /\ All(m - 1) /\ f[m] = NextLook(held[m], f[m - 1])
      BY <1>2, <1>4
    <2>2. Same(f[m])
      BY <2>1 DEF NextLook
    <2>3. Old => f[m].closes = f[m - 1].closes \cup {held[m].type}
      BY <2>1 DEF NextLook
    <2> HIDE DEF Same, Old
    <2>4. \A n \in 1..m : n = m \/ n \in 1..(m - 1)
      BY <1>2
    <2>5. All(m)
      BY <2>1, <2>3, <2>4
    <2> QED
      BY <2>2, <2>5
  <1>5. \A m \in 0..Len(held) : m \in Good
    <2> HIDE DEF Good
    <2> QED
      BY <1>2, <1>3, <1>4, InductionTo
  <1>6. Len(held) \in 0..Len(held)
    BY <1>2
  <1> QED
    BY <1>2, <1>5, <1>6

\* The recursion of Trail.
TrailBy(f, run, sides) ==
    /\ f[0] = run.res
    /\ \A m \in 1..Len(sides) : f[m] = modifyTradeEasy(f[m - 1], sides[m], AllOrderTickets, "own")
    /\ Trail(run, sides).res = f[Len(sides)]

\* The recursive function of Trail exists.
LEMMA TrailBuilt ==
    ASSUME NEW run, QuietRun(run), NEW sides \in Seq(Sides)
    PROVE  \E f \in [0..Len(sides) -> QuietArrays] : TrailBy(f, run, sides)
  <1> DEFINE After(m, x) == modifyTradeEasy(x, sides[m], AllOrderTickets, "own")
             step == [m \in 1..Len(sides) |-> [x \in QuietArrays |-> After(m, x)]]
             Rec(f) == [m \in 0..Len(sides) |-> IF m = 0 THEN run.res ELSE After(m, f[m - 1])]
             built == CHOOSE f : f = Rec(f)
  <1>1. Len(sides) \in Nat /\ run.res \in QuietArrays
          /\ \A m \in 1..Len(sides) : \A x \in QuietArrays : After(m, x) \in QuietArrays
    <2>1. Len(sides) \in Nat /\ run.res \in QuietArrays
      BY DEF QuietRun
    <2>2. ASSUME NEW m \in 1..Len(sides), NEW x \in QuietArrays PROVE After(m, x) \in QuietArrays
      <3>1. sides[m] \in Sides /\ AllOrderTickets \in Int
        BY DEF AllOrderTickets
      <3>2. x \in [1..MaxOpenOrders -> QuietResults]
        BY DEF QuietArrays
      <3> QED
        BY <3>1, <3>2, EasyStays DEF QuietArrays
    <2> HIDE DEF After
    <2> QED
      BY <2>1, <2>2
  <1>2. Trail(run, sides).res = built[Len(sides)]
    BY DEF Trail, QuietRun, IsRun
  <1>3. \A f : \A m \in 1..Len(sides) : After(m, f[m - 1]) = modifyTradeEasy(f[m - 1], sides[m],
          AllOrderTickets, "own")
    OBVIOUS
  <1> HIDE DEF After
  <1>4. PICK f \in [0..Len(sides) -> QuietArrays] : f = Rec(f)
    <2>1. step \in [1..Len(sides) -> [QuietArrays -> QuietArrays]]
      BY <1>1
    <2>2. \A m \in 1..Len(sides) : \A x \in QuietArrays : step[m][x] = After(m, x)
      OBVIOUS
    <2> HIDE DEF step
    <2>3. BuiltUp(Len(sides), QuietArrays, run.res, step)
      BY <1>1, <2>1, RecursionExists
    <2>4. PICK f \in [0..Len(sides) -> QuietArrays] : f[0] = run.res
            /\ \A m \in 1..Len(sides) : f[m] = step[m][f[m - 1]]
      BY <2>3 DEF BuiltUp
    <2>5. ASSUME NEW m \in 1..Len(sides) PROVE f[m] = After(m, f[m - 1])
      <3>1. f[m - 1] \in QuietArrays
        BY <1>1
      <3> QED
        BY <3>1, <2>2, <2>4
    <2>6. f = Rec(f)
      BY <2>4, <2>5
    <2> QED
      BY <2>6
  <1>5. built = Rec(built)
    <2> HIDE DEF Rec
    <2> QED
      BY <1>4
  <1> HIDE DEF built
  <1>6. built[0] = run.res /\ \A m \in 1..Len(sides) : built[m] = After(m, built[m - 1])
    BY <1>5, <1>1
  <1>7. built \in [0..Len(sides) -> QuietArrays]
    <2> DEFINE Good == {m \in 0..Len(sides) : built[m] \in QuietArrays}
    <2>1. 0 \in Good
      <3>1. built[0] = run.res /\ Len(sides) \in Nat
        BY <1>6, <1>1
      <3>2. built[0] \in QuietArrays
        BY <3>1, <1>1
      <3> QED
        BY <3>1, <3>2
    <2>2. ASSUME NEW m \in 1..Len(sides), m - 1 \in Good PROVE m \in Good
      <3>1. built[m] = After(m, built[m - 1]) /\ built[m - 1] \in QuietArrays
        BY <1>6, <2>2
      <3>2. built[m] \in QuietArrays
        BY <1>1, <3>1
      <3> QED
        BY <3>2
    <2>3. \A m \in 0..Len(sides) : m \in Good
      <3> HIDE DEF Good
      <3> QED
        BY <2>1, <2>2, <1>1, InductionTo
    <2>4. built = [m \in 0..Len(sides) |-> built[m]]
      BY <1>5
    <2> QED
      BY <2>3, <2>4
  <1> QED
    BY <1>2, <1>6, <1>7, <1>3 DEF TrailBy

QuietRuns(runs) == \A run \in runs : QuietRun(run)

\* The sides that are held are sides.
LEMMA HeldSidesAre ==
    ASSUME NEW held \in Seq(Order)
    PROVE  HeldSides(held) \subseteq Sides
  <1> SUFFICES ASSUME NEW n \in 1..Len(held) PROVE held[n].type \in Sides
    BY DEF HeldSides
  <1>1. held[n] \in Order
    OBVIOUS
  <1> QED
    BY <1>1 DEF Order

\* A run begins with cleared results.
LEMMA StartQuiet == QuietRuns(Start)
  <1>1. "none" \notin Sides
    BY DEF Sides
  <1> QED
    BY <1>1, ClearIsQuiet DEF QuietRuns, QuietRun, IsRun, KeepsTime, Start, ClearArray

\* Closing sides opens nothing.
LEMMA CloseQuiet ==
    ASSUME NEW run, QuietRun(run), NEW sides \in SUBSET Sides
    PROVE  QuietRun(Close(run, sides))
  <1> DEFINE result == [run.res[1] EXCEPT !.signals = @ \cup ({"CLOSE"} \X sides)]
             res == [run.res EXCEPT ![1] = result]
  <1>1. Close(run, sides) = [run EXCEPT !.res = res]
    BY DEF Close
  <1>2. run.res[1] \in QuietResults
    BY SizesType DEF QuietRun, QuietArrays
  <1>3. {"CLOSE"} \X sides \subseteq {"CLOSE", "UPDATE"} \X OrderTypes
    BY DEF OrderTypes, LongTypes, ShortTypes, Sides
  <1>4. result \in QuietResults
    <2> DEFINE more == {"CLOSE"} \X sides  all == {"CLOSE", "UPDATE"} \X OrderTypes
    <2>1. more \subseteq all /\ result = [run.res[1] EXCEPT !.signals = @ \cup more]
      BY <1>3
    <2>2. QuietResults = [ticket : Int, signals : SUBSET all, stops : Stops]
      BY DEF QuietResults
    <2> HIDE DEF more, all, result
    <2> QED
      BY <2>1, <2>2, <1>2
  <1>5. run.res \in QuietArrays /\ IsRun(run)
    BY DEF QuietRun
  <1> HIDE DEF result
  <1>6. res \in QuietArrays
    BY <1>4, <1>5 DEF QuietArrays
  <1> HIDE DEF res
  <1> QED
    BY <1>1, <1>6, ResultsQuiet

\* checkTimedExit closes sides.
LEMMA TimesClose ==
    ASSUME NEW last, NEW held \in Seq(Order)
    PROVE  checkTimes(last, held).closes \in SUBSET Sides
  <1>1. PICK f \in [0..Len(held) -> Looks(last, held)] : LooksBy(f, last, held)
    BY LooksBuilt
  <1>2. checkTimes(last, held) = f[Len(held)] /\ Len(held) \in 0..Len(held)
    BY <1>1 DEF LooksBy
  <1>3. checkTimes(last, held) \in Looks(last, held)
    BY <1>1, <1>2
  <1> HIDE DEF Days
  <1> QED
    BY <1>3 DEF Looks

\* Moving stops opens nothing.
LEMMA TrailQuiet ==
    ASSUME NEW run, QuietRun(run), NEW sides \in Seq(Sides)
    PROVE  QuietRun(Trail(run, sides))
  <1>1. PICK f \in [0..Len(sides) -> QuietArrays] : TrailBy(f, run, sides)
    BY TrailBuilt
  <1>2. Trail(run, sides).res = f[Len(sides)] /\ Len(sides) \in 0..Len(sides)
    BY <1>1 DEF TrailBy
  <1>3. Trail(run, sides).res \in QuietArrays
    BY <1>1, <1>2
  <1>4. \A x : [run EXCEPT !.res = x].res = x
    BY DEF QuietRun, IsRun
  <1>5. Trail(run, sides) = [run EXCEPT !.res = Trail(run, sides).res]
    BY <1>4 DEF Trail
  <1> QED
    BY <1>3, <1>5, ResultsQuiet

\* The sides whose stops are moved, in their order.
LEMMA InOrderIs ==
    ASSUME NEW first \in Sides, NEW sides
    PROVE  InOrder(first, sides) \in Seq(Sides)
  <1> DEFINE both == <<first, Other(first)>>
             places == {n \in 1..2 : both[n] \in sides}
  <1>1. both \in Seq(Sides)
    BY DEF Other, Sides
  <1>2. InOrder(first, sides) = Picked(both, places)
    BY DEF InOrder
  <1> HIDE DEF both, places
  <1> QED
    BY <1>1, <1>2, PickedIs

\* Closing a side opens nothing.
LEMMA CloseAllQuiet ==
    ASSUME NEW run, QuietRun(run), NEW held \in Seq(Order), NEW side \in Sides
    PROVE  QuietRun(CloseAll(run, held, side))
  <1>1. run.res \in QuietArrays
    BY DEF QuietRun
  <1>2. closeAll(run.res, held, side) \in QuietArrays
    BY <1>1, FillStays DEF QuietArrays, Kinds
  <1> QED
    BY <1>2, ResultsQuiet DEF CloseAll

\* Exits, internal take profits, timed exits and moved stops open nothing.
LEMMA RunsStayQuiet ==
    ASSUME NEW runs, QuietRuns(runs), NEW held \in Seq(Order), TimeKnown
    PROVE  /\ QuietRuns(Exits(runs, held)) /\ QuietRuns(checkInternalTP(runs, held))
           /\ QuietRuns(TimedExit(runs, held)) /\ QuietRuns(Trails(runs, held))
  <1>1. ASSUME NEW run \in runs, NEW sides \in SUBSET HeldSides(held) PROVE QuietRun(Close(run, sides))
    BY HeldSidesAre, CloseQuiet DEF QuietRuns
  <1>2. QuietRuns(Exits(runs, held)) /\ QuietRuns(checkInternalTP(runs, held))
    BY <1>1 DEF QuietRuns, Exits, checkInternalTP
  <1>3. ASSUME NEW run \in runs PROVE QuietRun([Close(run, checkTimes(run.updated, held).closes)
                                               EXCEPT !.updated = checkTimes(run.updated, held).updated])
    <2>1. checkTimes(run.updated, held).closes \in SUBSET Sides
      BY TimesClose
    <2>2. QuietRun(Close(run, checkTimes(run.updated, held).closes))
      BY <2>1, CloseQuiet DEF QuietRuns
    <2>3. ASSUME NEW quiet, QuietRun(quiet), NEW x, Calm /\ open # <<>> => x = updated
          PROVE  QuietRun([quiet EXCEPT !.updated = x])
      <3>1. [quiet EXCEPT !.updated = x] = [res |-> quiet.res, updated |-> x, side |-> quiet.side]
        BY <2>3 DEF QuietRun, IsRun
      <3> QED
        BY <2>3, <3>1 DEF QuietRun, IsRun, KeepsTime
    <2>4. Calm /\ open # <<>> => checkTimes(run.updated, held).updated = updated
      BY TimesAre DEF TimeKnown, QuietRuns, QuietRun, KeepsTime
    <2> QED
      BY <2>2, <2>3, <2>4
  <1>4. QuietRuns(TimedExit(runs, held))
    BY <1>3 DEF QuietRuns, TimedExit
  <1>5. QuietRuns(Trails(runs, held))
    <2> SUFFICES ASSUME NEW run \in runs, NEW sides \in SUBSET HeldSides(held)
                 PROVE  QuietRun(Trail(run, InOrder("SELL", sides)))
      BY DEF QuietRuns, Trails
    <2>1. InOrder("SELL", sides) \in Seq(Sides)
      BY InOrderIs DEF Sides
    <2> QED
      BY <2>1, TrailQuiet DEF QuietRuns
  <1> QED
    BY <1>2, <1>4, <1>5

-----------------------------------------------------------------------------
(* The runs that may send orders. *)

HeldNow == ShownOpen(Shown)

\* Only the first result enters, and there is no order on its side.
SingleEntry(res, side) ==
    /\ ToOpen(res) \subseteq {1}
    /\ Len(open) <= OrderInfoSize => \A o : Among(o, open) => o.type # side
EntryFits(res, side) ==
    /\ side \in Sides /\ TurnsTo(res, side)
    /\ mode \in OpenOrUpdate => SingleEntry(res, side)
    /\ mode = "BuDan" => side = DailyTrend
ResultsFit(res) == res \in Arrays /\ (ToOpen(res) = {} \/ \E side : EntryFits(res, side))

\* A run that is in for a side turns to it, and the time of the last entry is that of its orders.
SideFits(run) == run.side \in Sides => TurnsTo(run.res, run.side)
TimeFits(run) ==
    Calm => IF ToOpen(run.res) = {} THEN open # <<>> => run.updated = updated ELSE run.updated = day
RunFits(run) == IsRun(run) /\ ResultsFit(run.res) /\ SideFits(run) /\ TimeFits(run)
RunsFit(runs) == \A run \in runs : RunFits(run)

\* Runs that open nothing fit.
LEMMA QuietFits ==
    ASSUME NEW runs, QuietRuns(runs)
    PROVE  RunsFit(runs)
  <1> SUFFICES ASSUME NEW run \in runs PROVE RunFits(run)
    BY DEF RunsFit
  <1>1. QuietRun(run) /\ run.res \in QuietArrays
    BY DEF QuietRuns, QuietRun
  <1>2. run.res \in Arrays /\ ToOpen(run.res) = {}
    BY <1>1, QuietHasNone, QuietIsArray
  <1> QED
    BY <1>1, <1>2 DEF QuietRun, KeepsTime, RunFits, ResultsFit, SideFits, TimeFits

\* What the first result asks to close is walked over.
LEMMA FirstCloses ==
    ASSUME TypeInv, NEW res \in Arrays, NEW o, Among(o, open), res[1].ticket \in {o.ticket, AllOrderTickets},
           <<"CLOSE", o.type>> \in res[1].signals
    PROVE  o.ticket \in Walk(res, open)
  <1>1. 1 \in Matching(res, o)
    BY SizesType, MatchingIs
  <1>2. Min(Matching(res, o)) = 1
    <2>1. Matching(res, o) # {}
      BY <1>1
    <2>2. Min(Matching(res, o)) \in 1..MaxOpenOrders /\ Min(Matching(res, o)) <= 1
      BY <1>1, <2>1, MatchingIs
    <2> QED
      BY <2>2, SizesType
  <1>3. IsAsked(res, o)
    BY <1>1, <1>2 DEF IsAsked
  <1>4. PICK n \in 1..Len(open) : open[n] = o
    BY DEF Among
  <1> QED
    BY <1>3, <1>4, WalkCloses DEF TypeInv

\* The first result is for the orders on the other side.
FirstIsFor(res, side) ==
    Len(open) <= OrderInfoSize =>
        \A o : Among(o, open) /\ o.type # side => res[1].ticket \in {o.ticket, AllOrderTickets}

\* openOrUpdateTrade closes the other side, and enters if there is no order on its own.
LEMMA EnterFits ==
    ASSUME TypeInv, OrdersInv, mode \in OpenOrUpdate, NEW run, QuietRun(run), NEW side \in Sides,
           FirstIsFor(run.res, side)
    PROVE  RunFits(Enter1(run, HeldNow, side))
  <1> DEFINE entry == IF Held(HeldNow, side) = {} THEN <<"OPEN", side>> ELSE <<"UPDATE", side>>
             signals == (run.res[1].signals \cup {<<"CLOSE", Other(side)>>, entry}) \ {<<"CLOSE", side>>}
             first == [ticket |-> run.res[1].ticket, signals |-> signals, stops |-> "own"]
             res == [run.res EXCEPT ![1] = first]
  <1>1. run.res \in QuietArrays /\ run.res[1] \in QuietResults /\ IsRun(run) /\ 1 \in 1..MaxOpenOrders
    BY SizesType DEF QuietRun, QuietArrays
  <1>2. openOrUpdateTrade(run.res, 1, side, HeldNow, "own") = res
    <2>1. run.res \in [1..MaxOpenOrders -> QuietResults]
      BY <1>1 DEF QuietArrays
    <2>2. \A result \in QuietResults : \A x :
             [[result EXCEPT !.stops = "own"] EXCEPT !.signals = x] = [ticket |-> result.ticket,
                     signals |-> x, stops |-> "own"]
      <3> SUFFICES ASSUME NEW result \in QuietResults, NEW x
                   PROVE  [[result EXCEPT !.stops = "own"] EXCEPT !.signals = x]
                             = [ticket |-> result.ticket, signals |-> x, stops |-> "own"]
        OBVIOUS
      <3>1. result = [ticket |-> result.ticket, signals |-> result.signals, stops |-> result.stops]
        BY DEF QuietResults
      <3>2. [result EXCEPT !.stops = "own"] = [ticket |-> result.ticket, signals |-> result.signals,
              stops |-> "own"]
        BY <3>1
      <3>3. \A a, b : [[ticket |-> a, signals |-> b, stops |-> "own"] EXCEPT !.signals = x]
                         = [ticket |-> a, signals |-> x, stops |-> "own"]
        OBVIOUS
      <3> QED
        BY <3>2, <3>3
    <2>3. openOrUpdateTrade(run.res, 1, side, HeldNow, "own")
             = [run.res EXCEPT ![1] = [[run.res[1] EXCEPT !.stops = "own"] EXCEPT !.signals = signals]]
      <3> HIDE DEF entry
      <3>1. openOrUpdateTrade(run.res, 1, side, HeldNow, "own")
              = [[run.res EXCEPT ![1].stops = "own"]
                    EXCEPT ![1].signals = (@ \cup {<<"CLOSE", Other(side)>>, entry}) \ {<<"CLOSE", side>>}]
        BY DEF openOrUpdateTrade, entry
      <3>2. [run.res EXCEPT ![1].stops = "own"] = [run.res EXCEPT ![1] = [run.res[1] EXCEPT !.stops = "own"]]
        OBVIOUS
      <3>3. [run.res[1] EXCEPT !.stops = "own"].signals = run.res[1].signals
        BY <1>1 DEF QuietResults
      <3> QED
        BY <3>1, <3>2, <3>3, <2>1, <1>1
    <2> HIDE DEF signals
    <2> QED
      BY <2>2, <2>3, <1>1
  <1>3. IsRun(Enter1(run, HeldNow, side)) /\ Enter1(run, HeldNow, side).res = res
    <2> HIDE DEF res
    <2> QED
      BY <1>2 DEF Enter1, IsRun
  <1>4. /\ Other(side) \in Sides /\ side # Other(side) /\ \A type \in Sides : type # side => type = Other(side)
        /\ Sides \subseteq OrderTypes
    BY DEF Other, Sides, OrderTypes, LongTypes, ShortTypes
  <1>5. /\ res[1] = first /\ first.signals = signals /\ first.ticket = run.res[1].ticket
        /\ \A r \in 1..MaxOpenOrders : r # 1 => res[r] = run.res[r]
    <2> HIDE DEF first
    <2>1. run.res \in [1..MaxOpenOrders -> QuietResults]
      BY <1>1 DEF QuietArrays
    <2>2. first.signals = signals /\ first.ticket = run.res[1].ticket
      BY DEF first
    <2> QED
      BY <2>1, <2>2, <1>1
  <1>6. run.res[1].signals \subseteq {"CLOSE", "UPDATE"} \X OrderTypes /\ run.res[1].ticket \in Int
    BY <1>1 DEF QuietResults
  <1>7. \A R : signals \in SUBSET R => first \in [ticket : Int, signals : SUBSET R, stops : Stops]
    <2> HIDE DEF signals
    <2> QED
      BY <1>6 DEF Stops
  <1>10. /\ Enter1(run, HeldNow, side).side = side
         /\ Enter1(run, HeldNow, side).updated = IF Held(HeldNow, side) = {} THEN day ELSE run.updated
    BY DEF Enter1
  <1>11. ASSUME res \in Arrays, <<"CLOSE", Other(side)>> \in signals, Len(open) <= OrderInfoSize, NEW o,
                Among(o, open), o.type # side
         PROVE  o.ticket \in Walk(res, open)
    <2> HIDE DEF signals, first, res
    <2>1. o \in Order
      BY <1>11 DEF TypeInv, Among
    <2>2. o.type = Other(side)
      BY <2>1, <1>11, <1>4 DEF Order
    <2>3. res[1].ticket \in {o.ticket, AllOrderTickets} /\ <<"CLOSE", o.type>> \in res[1].signals
      BY <2>2, <1>11, <1>5 DEF FirstIsFor
    <2> QED
      BY <2>3, <1>11, FirstCloses
  <1>8. CASE Held(HeldNow, side) # {}
    <2>0. <<"CLOSE", Other(side)>> \in signals
      BY <1>4
    <2>1. signals \in SUBSET ({"CLOSE", "UPDATE"} \X OrderTypes)
      <3>1. entry \in {"CLOSE", "UPDATE"} \X OrderTypes
              /\ <<"CLOSE", Other(side)>> \in {"CLOSE", "UPDATE"} \X OrderTypes
        BY <1>8, <1>4
      <3> HIDE DEF entry
      <3> QED
        BY <3>1, <1>6
    <2>2. first \in QuietResults
      <3> HIDE DEF signals, first
      <3> QED
        BY <2>1, <1>7 DEF QuietResults
    <2>3. res \in QuietArrays
      <3> HIDE DEF first
      <3> QED
        BY <2>2, <1>1 DEF QuietArrays
    <2> HIDE DEF signals, first, res
    <2>4. res \in Arrays /\ ToOpen(res) = {}
      BY <2>3, QuietHasNone, QuietIsArray
    <2>5. TurnsTo(res, side)
      <3>1. \A r \in 1..MaxOpenOrders : \A type \in Sides : <<"OPEN", type>> \notin res[r].signals
        BY <2>4 DEF ToOpen, Arrays
      <3> QED
        BY <3>1, <2>0, <2>4, <1>11 DEF TurnsTo
    <2>6. Calm /\ open # <<>> => run.updated = updated
      BY DEF QuietRun, KeepsTime
    <2> QED
      BY <2>4, <2>5, <2>6, <1>3, <1>8, <1>10 DEF RunFits, ResultsFit, SideFits, TimeFits
  <1>9. CASE Held(HeldNow, side) = {}
    <2>1. /\ signals \in SUBSET Signals /\ <<"CLOSE", Other(side)>> \in signals
          /\ \A type : <<"OPEN", type>> \in signals => type = side
          /\ <<"OPEN", side>> \in signals
      <3>1. entry = <<"OPEN", side>>
        BY <1>9
      <3>2. {<<"CLOSE", Other(side)>>, <<"OPEN", side>>} \subseteq Signals
        BY <1>4 DEF Signals
      <3>3. {"CLOSE", "UPDATE"} \X OrderTypes \subseteq Signals
        BY DEF Signals
      <3>4. \A type : <<"OPEN", type>> \notin run.res[1].signals
        BY <1>6
      <3>5. signals = (run.res[1].signals \cup {<<"CLOSE", Other(side)>>, <<"OPEN", side>>}) \ {<<"CLOSE",
              side>>}
        BY <3>1
      <3>6. signals \in SUBSET Signals
        BY <3>2, <3>3, <3>5, <1>6
      <3>7. <<"CLOSE", Other(side)>> # <<"CLOSE", side>>
        BY <1>4
      <3>8. <<"CLOSE", Other(side)>> \in signals
        BY <3>5, <3>7
      <3>9. ASSUME NEW type, <<"OPEN", type>> \in signals PROVE type = side
        BY <3>4, <3>5, <3>9
      <3>10. <<"OPEN", side>> \in signals
        BY <3>5
      <3> QED
        BY <3>6, <3>8, <3>9, <3>10
    <2> HIDE DEF signals
    <2>2. first \in Results
      <3> HIDE DEF first
      <3> QED
        BY <2>1, <1>7 DEF Results
    <2>3. res \in Arrays
      <3> HIDE DEF first
      <3>1. run.res \in Arrays
        BY <1>1, QuietIsArray
      <3> QED
        BY <2>2, <3>1, <1>1 DEF Arrays
    <2> HIDE DEF first, res
    <2>4. ToOpen(res) \subseteq {1}
      <3> SUFFICES ASSUME NEW r \in ToOpen(res), r # 1 PROVE FALSE
        OBVIOUS
      <3>1. r \in 1..MaxOpenOrders /\ \E type \in Sides : <<"OPEN", type>> \in res[r].signals
        BY <2>3 DEF ToOpen, Arrays
      <3>2. r \in ToOpen(run.res)
        BY <3>1, <1>5, <1>1 DEF ToOpen, QuietArrays
      <3> QED
        BY <3>2, <1>1, QuietHasNone
    <2>5. ASSUME NEW r \in 1..MaxOpenOrders, NEW type \in Sides, <<"OPEN", type>> \in res[r].signals
          PROVE  type = side
      <3>1. r \in ToOpen(res)
        BY <2>3, <2>5 DEF ToOpen, Arrays
      <3>2. r = 1
        BY <3>1, <2>4
      <3>3. <<"OPEN", type>> \in signals
        BY <2>5, <3>2, <1>5
      <3> QED
        BY <3>3, <2>1
    <2>6. \A o : Len(open) <= OrderInfoSize /\ Among(o, open) /\ o.type # side => o.ticket \in Walk(res, open)
      BY <2>1, <2>3, <1>11
    <2>7. ASSUME Len(open) <= OrderInfoSize, NEW o, Among(o, open) PROVE o.type # side
      <3>1. PICK k \in 1..Len(open) : open[k] = o
        BY <2>7 DEF Among
      <3>2. HeldNow \in Seq(Order) /\ \E n \in 1..Len(HeldNow) : HeldNow[n] = open[k]
        BY <2>7, AccountIs, HeldIs DEF HeldNow, Shown
      <3>3. PICK n \in 1..Len(HeldNow) : HeldNow[n] = o
        BY <3>1, <3>2
      <3> QED
        BY <1>9, <3>2, <3>3 DEF Held
    <2>8. TurnsTo(res, side)
      BY <2>5, <2>6 DEF TurnsTo
    <2>9. SingleEntry(res, side)
      BY <2>4, <2>7 DEF SingleEntry
    <2>10. mode # "BuDan"
      BY DEF OpenOrUpdate, Timed
    <2>11. EntryFits(res, side)
      BY <2>8, <2>9, <2>10 DEF EntryFits
    <2>12. ToOpen(res) # {}
      <3>1. 1 \in DOMAIN res /\ <<"OPEN", side>> \in res[1].signals
        BY <2>1, <2>3, <1>1, <1>5 DEF Arrays
      <3> QED
        BY <3>1 DEF ToOpen
    <2> QED
      BY <2>3, <2>8, <2>11, <2>12, <1>3, <1>9, <1>10 DEF RunFits, ResultsFit, SideFits, TimeFits
  <1> QED
    BY <1>8, <1>9

\* Entries with openOrUpdateLongTrade and its like fit, if no order that is asked to be closed is
\* in the way.
LEMMA EntersFit ==
    ASSUME TypeInv, OrdersInv, mode \in OpenOrUpdate, NEW runs, QuietRuns(runs), NEW sides \in SUBSET Sides,
           \A run \in runs : \A side \in sides : FirstIsFor(run.res, side)
    PROVE  RunsFit(Enters(runs, HeldNow, sides))
  <1> SUFFICES ASSUME NEW run \in runs, NEW side \in sides
               PROVE  RunFits(Enter1(run, HeldNow, side)) /\ RunFits([run EXCEPT !.side = "denied"])
    <2> DEFINE New(run, side) == {Enter1(run, HeldNow, side), [run EXCEPT !.side = "denied"]}
    <2>1. Enters(runs, HeldNow, sides) = UNION {New(run, side) : run \in runs, side \in sides}
      BY DEF Enters
    <2>2. \A run \in runs, side \in sides : \A new \in New(run, side) : RunFits(new)
      OBVIOUS
    <2> HIDE DEF New
    <2>3. \A new \in UNION {New(run, side) : run \in runs, side \in sides} :
             \E run \in runs, side \in sides : new \in New(run, side)
      OBVIOUS
    <2> QED
      BY <2>1, <2>2, <2>3 DEF RunsFit
  <1>1. QuietRun(run) /\ FirstIsFor(run.res, side) /\ side \in Sides
    BY DEF QuietRuns
  <1>2. RunFits(Enter1(run, HeldNow, side))
    BY <1>1, EnterFits
  <1>3. QuietRun([run EXCEPT !.side = "denied"])
    <2>1. [run EXCEPT !.side = "denied"] = [res |-> run.res, updated |-> run.updated, side |-> "denied"]
      BY <1>1 DEF QuietRun, IsRun
    <2> QED
      BY <1>1, <2>1 DEF QuietRun, IsRun, KeepsTime, Sides
  <1>4. QuietRuns({[run EXCEPT !.side = "denied"]})
    BY <1>3 DEF QuietRuns
  <1> QED
    BY <1>2, <1>4, QuietFits DEF RunsFit

\* So they do from cleared results.
LEMMA StartFits ==
    ASSUME TypeInv, OrdersInv, mode \in OpenOrUpdate
    PROVE  RunsFit(Enters(Start, HeldNow, Sides))
  <1>1. \A run \in Start : run.res[1].ticket = AllOrderTickets
    BY SizesType DEF Start, clearStrategyResults
  <1> QED
    BY <1>1, StartQuiet, EntersFit DEF FirstIsFor

-----------------------------------------------------------------------------
(* The strategies that open or update. *)

\* One order on each side, when the strategy is shown two.
OneEach ==
    mode \in OpenOrUpdate /\ OrderInfoSize >= 2 =>
        \A o, p : Among(o, open) /\ Among(p, open) /\ o.type = p.type => o = p

\* One order on each side.
LEMMA OneOfType ==
    ASSUME TypeInv, OneEach, mode \in OpenOrUpdate, Len(open) <= OrderInfoSize,
           NEW o, NEW p, Among(o, open), Among(p, open), o.type = p.type
    PROVE  o = p
  <1>1. CASE OrderInfoSize >= 2
    BY <1>1 DEF OneEach
  <1>2. CASE ~(OrderInfoSize >= 2)
    <2>1. PICK n \in 1..Len(open) : open[n] = o
      BY DEF Among
    <2>2. PICK k \in 1..Len(open) : open[k] = p
      BY DEF Among
    <2>3. Len(open) \in Nat
      BY DEF TypeInv
    <2>4. n = k
      BY <1>2, <2>3, SizesType
    <2> QED
      BY <2>1, <2>2, <2>4
  <1> QED
    BY <1>1, <1>2

\* A run after closeAll on the clear array: what it asks for is what it is shown on that side.
LEMMA ClosedRun ==
    ASSUME TypeInv, OrdersInv, NEW run \in Start, NEW side \in Sides
    PROVE  /\ QuietRun(CloseAll(run, HeldNow, side))
           /\ \E m : /\ m <= OrderInfoSize
                     /\ AskedFor(CloseAll(run, HeldNow, side).res, m, HeldAsks(HeldNow, side))
  <1>1. HeldNow \in Seq(Order) /\ Len(HeldNow) <= OrderInfoSize
    BY AccountIs, HeldIs, HeldFit DEF HeldNow, Shown
  <1>2. run = [res |-> ClearArray, updated |-> updated, side |-> "none"]
    BY DEF Start, ClearArray
  <1>3. PICK m : /\ m <= 0 + Len(HeldNow)
                 /\ AskedFor(closeAll(ClearArray, HeldNow, side), m, {} \cup HeldAsks(HeldNow, side))
    BY <1>1, ClearAsks, closeAllAsks DEF ClearArray
  <1>4. CloseAll(run, HeldNow, side).res = closeAll(ClearArray, HeldNow, side)
    BY <1>2 DEF CloseAll
  <1>5. {} \cup HeldAsks(HeldNow, side) = HeldAsks(HeldNow, side)
    OBVIOUS
  <1>6. QuietRun(CloseAll(run, HeldNow, side))
    BY <1>1, StartQuiet, CloseAllQuiet DEF QuietRuns
  <1>7. m <= OrderInfoSize
    <2>1. Len(HeldNow) \in Nat /\ OrderInfoSize \in Nat /\ m \in 0..MaxOpenOrders /\ MaxOpenOrders \in Nat
      BY <1>1, <1>3, SizesType DEF AskedFor
    <2> QED
      BY <2>1, <1>1, <1>3
  <1> QED
    BY <1>3, <1>4, <1>5, <1>6, <1>7

\* The held orders of a side are the open ones, when all are shown.
LEMMA HeldAsksAre ==
    ASSUME TypeInv, OrdersInv, NEW side \in Sides
    PROVE  /\ \A ask \in HeldAsks(HeldNow, side) :
                 \E o : Among(o, open) /\ o.type = side /\ ask = <<o.type, o.ticket>>
           /\ Len(open) <= OrderInfoSize =>
                 \A o : Among(o, open) /\ o.type = side => <<o.type, o.ticket>> \in HeldAsks(HeldNow, side)
  <1>1. /\ HeldNow \in Seq(Order)
        /\ \A n \in 1..Len(HeldNow) : \E k \in 1..Len(open) : HeldNow[n] = open[k]
        /\ Len(open) <= OrderInfoSize => \A k \in 1..Len(open) : \E n \in 1..Len(HeldNow) : HeldNow[n] = open[k]
    BY AccountIs, HeldIs DEF HeldNow, Shown
  <1>2. ASSUME NEW n \in 1..Len(HeldNow), HeldNow[n].type = side
        PROVE  \E o : Among(o, open) /\ o.type = side /\ <<side, HeldNow[n].ticket>> = <<o.type, o.ticket>>
    <2>1. PICK k \in 1..Len(open) : HeldNow[n] = open[k]
      BY <1>1
    <2>2. Among(open[k], open) /\ open[k].type = side /\ open[k].ticket = HeldNow[n].ticket
      BY <2>1, <1>2 DEF Among
    <2> QED
      BY <2>2
  <1>3. \A ask \in HeldAsks(HeldNow, side) :
           \E o : Among(o, open) /\ o.type = side /\ ask = <<o.type, o.ticket>>
    BY <1>1, <1>2 DEF HeldAsks, Held
  <1>4. ASSUME Len(open) <= OrderInfoSize, NEW o, Among(o, open), o.type = side
        PROVE  <<o.type, o.ticket>> \in HeldAsks(HeldNow, side)
    <2>1. PICK k \in 1..Len(open) : open[k] = o
      BY <1>4 DEF Among
    <2>2. PICK n \in 1..Len(HeldNow) : HeldNow[n] = o
      BY <1>1, <1>4, <2>1
    <2>3. n \in Held(HeldNow, side)
      <3>1. DOMAIN HeldNow = 1..Len(HeldNow) /\ HeldNow[n].type = side
        BY <1>1, <1>4, <2>2
      <3> QED
        BY <3>1 DEF Held
    <2> QED
      BY <1>4, <2>2, <2>3 DEF HeldAsks
  <1> QED
    BY <1>3, <1>4

\* Kelpie closes the other side first and then enters.
LEMMA KelpieFits ==
    ASSUME TypeInv, OrdersInv, OneEach, mode = "Kelpie"
    PROVE  RunsFit(runKelpie(HeldNow))
  <1>1. mode \in OpenOrUpdate
    BY DEF OpenOrUpdate
  <1>2. RunsFit(Start)
    BY StartQuiet, QuietFits
  <1>3. ASSUME NEW side \in Sides
        PROVE  LET exited == {CloseAll(run, HeldNow, Other(side)) : run \in Start}
               IN  /\ RunsFit(exited) /\ RunsFit(Enters(exited, HeldNow, {side}))
                   /\ RunsFit({Trail(run, <<side>>) : run \in exited})
    <2> DEFINE exited == {CloseAll(run, HeldNow, Other(side)) : run \in Start}
    <2>1. Other(side) \in Sides /\ side # Other(side) /\ \A type \in Sides : type # side => type = Other(side)
      BY DEF Other, Sides
    <2>2. QuietRuns(exited)
      BY <2>1, ClosedRun DEF QuietRuns
    <2>3. ASSUME NEW run \in exited PROVE FirstIsFor(run.res, side)
      <3>1. PICK m : AskedFor(run.res, m, HeldAsks(HeldNow, Other(side)))
        BY <2>1, ClosedRun
      <3> SUFFICES ASSUME Len(open) <= OrderInfoSize, NEW o, Among(o, open), o.type # side
                   PROVE  run.res[1].ticket = o.ticket
        BY DEF FirstIsFor
      <3>2. o \in Order /\ o.type = Other(side)
        <4>1. o \in Order
          BY DEF TypeInv, Among
        <4> QED
          BY <4>1, <2>1 DEF Order
      <3>3. <<o.type, o.ticket>> \in HeldAsks(HeldNow, Other(side))
        BY <3>2, <2>1, HeldAsksAre
      <3>4. m >= 1
        <4> SUFFICES ASSUME m < 1 PROVE FALSE
          BY <3>1 DEF AskedFor
        <4>1. m < MaxOpenOrders /\ 1..m = {}
          BY <3>1, SizesType DEF AskedFor
        <4> QED
          BY <4>1, <3>1, <3>3 DEF AskedFor
      <3>5. PICK ask \in HeldAsks(HeldNow, Other(side)) : run.res[1] = CloseOf(ask)
        <4>1. 1 \in 1..m
          BY <3>1, <3>4 DEF AskedFor
        <4> QED
          BY <4>1, <3>1 DEF AskedFor
      <3>6. PICK p : Among(p, open) /\ p.type = Other(side) /\ ask = <<p.type, p.ticket>>
        BY <2>1, HeldAsksAre
      <3>7. p = o
        BY <3>2, <3>6, <1>1, OneOfType
      <3> QED
        BY <3>5, <3>6, <3>7 DEF CloseOf
    <2>4. RunsFit(exited)
      BY <2>2, QuietFits
    <2>5. RunsFit(Enters(exited, HeldNow, {side}))
      <3> HIDE DEF exited
      <3>1. {side} \in SUBSET Sides /\ \A run \in exited : \A type \in {side} : FirstIsFor(run.res, type)
        BY <2>3
      <3> QED
        BY <1>1, <2>2, <3>1, EntersFit
    <2>6. RunsFit({Trail(run, <<side>>) : run \in exited})
      <3> HIDE DEF exited
      <3>1. <<side>> \in Seq(Sides)
        OBVIOUS
      <3>2. QuietRuns({Trail(run, <<side>>) : run \in exited})
        BY <2>2, <3>1, TrailQuiet DEF QuietRuns
      <3> QED
        BY <3>2, QuietFits
    <2> QED
      BY <2>4, <2>5, <2>6
  <1> SUFFICES ASSUME NEW run \in runKelpie(HeldNow) PROVE RunFits(run)
    BY DEF RunsFit
  <1> DEFINE exits(side) == {CloseAll(r, HeldNow, Other(side)) : r \in Start}
             more(side) == IF Held(HeldNow, side) = {} THEN Enters(exits(side), HeldNow, {side})
                           ELSE {Trail(r, <<side>>) : r \in exits(side)}
             all(side) == exits(side) \cup more(side)
  <1>4. runKelpie(HeldNow) = Start \cup UNION {all(side) : side \in Sides}
    BY DEF runKelpie
  <1>5. \A side \in Sides : RunsFit(exits(side)) /\ RunsFit(more(side))
    BY <1>3
  <1> HIDE DEF exits, more
  <1>6. run \in Start \/ \E side \in Sides : run \in exits(side) \/ run \in more(side)
    BY <1>4
  <1> QED
    BY <1>2, <1>5, <1>6 DEF RunsFit

\* All strategies that enter with openOrUpdateLongTrade and its like.
LEMMA OpenOrUpdateFits ==
    ASSUME TypeInv, OrdersInv, OneEach, TimeKnown, mode \in OpenOrUpdate
    PROVE  RunsFit(runStrategy(Shown, HeldNow))
  <1>1. HeldNow \in Seq(Order) /\ HeldSides(HeldNow) \subseteq Sides
    BY AccountIs, HeldIs, HeldSidesAre DEF HeldNow, Shown
  <1> DEFINE entries == Enters(Start, HeldNow, Sides)
  <1>2. RunsFit(entries)
    BY StartFits
  <1>3. \A runs : QuietRuns(runs) => RunsFit(entries \cup runs)
    BY <1>2, QuietFits DEF RunsFit
  <1>4. \A runs : QuietRuns(runs) =>
           /\ QuietRuns(Exits(runs, HeldNow)) /\ QuietRuns(checkInternalTP(runs, HeldNow))
           /\ QuietRuns(TimedExit(runs, HeldNow)) /\ QuietRuns(Trails(runs, HeldNow))
    BY <1>1, RunsStayQuiet
  <1>5. QuietRuns(Start)
    BY StartQuiet
  <1> HIDE DEF entries
  <1>6. CASE mode \in Timed \ {"Coatl", "Teyacanani"}
    <2>1. \/ runStrategy(Shown, HeldNow) = entries \cup Exits(TimedExit(checkInternalTP(Start, HeldNow),
            HeldNow), HeldNow)
          \/ runStrategy(Shown, HeldNow) = entries \cup TimedExit(Start, HeldNow)
          \/ runStrategy(Shown, HeldNow) = entries \cup TimedExit(checkInternalTP(Start, HeldNow), HeldNow)
          \/ runStrategy(Shown, HeldNow) = entries \cup Exits(TimedExit(Start, HeldNow), HeldNow)
      BY <1>6 DEF entries, Timed, runStrategy, runWatukushayFE_RSI, runWatukushayFE_BB, runWatukushayFE_CCI,
                  runGodsGiftATR, runQuimichi, runSapaq, runRuphay
    <2> QED
      BY <2>1, <1>3, <1>4, <1>5
  <1>7. CASE mode \in {"Comitl_BB", "Comitl_KC", "Qallaryi", "AsirikuyBrain", "Munay", "KantuML"}
    <2>1. \/ runStrategy(Shown, HeldNow) = entries \cup Exits(Start, HeldNow)
          \/ runStrategy(Shown, HeldNow) = entries \cup Exits(checkInternalTP(Start, HeldNow), HeldNow)
          \/ runStrategy(Shown, HeldNow) = entries \cup Trails(Start, HeldNow)
          \/ runStrategy(Shown, HeldNow) = entries \cup Trails(Trails(Trails(Start, HeldNow), HeldNow), HeldNow)
      BY <1>7 DEF entries, runStrategy, runComitl_BB, runComitl_KC, runQallaryi, runAsirikuyBrain, runMunay,
              runKantuML
    <2> QED
      BY <2>1, <1>3, <1>4, <1>5
  <1>8. CASE mode = "Coatl"
    <2> DEFINE timed == TimedExit(checkInternalTP(Start, HeldNow), HeldNow)
               some == {{}} \cup {{side} : side \in HeldSides(HeldNow)}
               runs == {Close(run, sides) : run \in timed, sides \in some}
    <2>1. runStrategy(Shown, HeldNow) = entries \cup runs
      BY <1>8 DEF runStrategy, runCoatl, entries
    <2>2. QuietRuns(timed)
      BY <1>4, <1>5
    <2>3. \A sides \in some : sides \in SUBSET Sides
      BY <1>1
    <2> HIDE DEF timed, some
    <2>4. \A run \in timed, sides \in some : QuietRun(Close(run, sides))
      BY <2>2, <2>3, CloseQuiet DEF QuietRuns
    <2>5. QuietRuns(runs)
      BY <2>4 DEF QuietRuns
    <2> QED
      BY <2>1, <2>5, <1>3
  <1>9. CASE mode = "Teyacanani"
    <2> DEFINE exits == Exits(TimedExit(Start, HeldNow), HeldNow)
               Asks(run) == run.res[1].signals \cap ({"CLOSE"} \X Sides) # {}
               trails(run) == Trail(run, InOrder("BUY", HeldSides(HeldNow)))
               runs == {IF Asks(run) THEN run ELSE trails(run) : run \in exits}
    <2>1. runStrategy(Shown, HeldNow) = entries \cup runs
      BY <1>9 DEF runStrategy, runTeyacanani, entries
    <2>2. QuietRuns(exits)
      BY <1>4, <1>5
    <2> HIDE DEF exits, Asks
    <2>3. \A run \in exits : QuietRun(run) /\ QuietRun(trails(run))
      <3>1. InOrder("BUY", HeldSides(HeldNow)) \in Seq(Sides)
        BY InOrderIs DEF Sides
      <3> QED
        BY <2>2, <3>1, TrailQuiet DEF QuietRuns
    <2> HIDE DEF trails
    <2>4. QuietRuns(runs)
      BY <2>3 DEF QuietRuns
    <2> QED
      BY <2>1, <2>4, <1>3
  <1>10. CASE mode = "Comitl_PA"
    <2> DEFINE last == IF Shown = <<>> THEN 0 ELSE Shown[1].day
               enters == last < day
               exits == last # 0 /\ day - last > TimedExitBars
               closing == {Close(run, Sides) : run \in Start}
    <2>1. runStrategy(Shown, HeldNow) = (IF enters THEN entries ELSE {}) \cup IF exits THEN closing ELSE Start
      BY <1>10 DEF runStrategy, runComitl_PA, entries
    <2>2. QuietRuns(closing)
      BY <1>5, CloseQuiet DEF QuietRuns
    <2> HIDE DEF enters, exits, closing
    <2>3. RunsFit({}) /\ RunsFit(closing) /\ RunsFit(Start)
      BY <2>2, <1>5, QuietFits DEF RunsFit
    <2> QED
      BY <2>1, <2>3, <1>2 DEF RunsFit
  <1>11. CASE mode = "Atipaq"
    <2> DEFINE traded == updated > marketAnalysisTime /\ updated - marketAnalysisTime < BoxBars
               timed == TimedExit(checkInternalTP(Start, HeldNow), HeldNow)
               dated == {[run EXCEPT !.updated = day] : run \in entries}
    <2>1. runStrategy(Shown, HeldNow) = timed \cup IF traded THEN {} ELSE dated
      BY <1>11 DEF runStrategy, runAtipaq, entries
    <2>2. RunsFit(timed)
      BY <1>4, <1>5, QuietFits
    <2>3. RunsFit(dated)
      <3> SUFFICES ASSUME NEW run \in entries PROVE RunFits([run EXCEPT !.updated = day])
        BY DEF RunsFit
      <3>1. RunFits(run)
        BY <1>2 DEF RunsFit
      <3>2. [run EXCEPT !.updated = day] = [res |-> run.res, updated |-> day, side |-> run.side]
        BY <3>1 DEF RunFits, IsRun
      <3>3. ~Calm
        BY <1>11 DEF Calm
      <3> QED
        BY <3>1, <3>2, <3>3 DEF RunFits, IsRun, SideFits, TimeFits
    <2> HIDE DEF traded, timed, dated
    <2> QED
      BY <2>1, <2>2, <2>3 DEF RunsFit
  <1>12. CASE mode = "RenkoTest"
    <2> DEFINE closing == {CloseAll(run, HeldNow, side) : run \in Start, side \in Sides}
    <2>1. runStrategy(Shown, HeldNow) = entries \cup Start \cup closing
      BY <1>12 DEF runStrategy, runRenkoTest, entries
    <2>2. \A run \in Start, side \in Sides : QuietRun(CloseAll(run, HeldNow, side))
      BY ClosedRun
    <2>3. QuietRuns(closing)
      BY <2>2 DEF QuietRuns
    <2> HIDE DEF closing
    <2>4. RunsFit(closing) /\ RunsFit(Start)
      BY <2>3, <1>5, QuietFits
    <2> QED
      BY <2>1, <2>4, <1>2 DEF RunsFit
  <1>13. CASE mode = "Kelpie"
    <2>1. runStrategy(Shown, HeldNow) = runKelpie(HeldNow)
      BY <1>13 DEF runStrategy
    <2> QED
      BY <2>1, <1>13, KelpieFits
  <1> QED
    BY <1>6, <1>7, <1>8, <1>9, <1>10, <1>11, <1>12, <1>13 DEF OpenOrUpdate, Timed

\* The first result is for all the orders, and closes those it is shown.
ClosesHeld(run) ==
    /\ run.res[1].ticket = AllOrderTickets
    /\ \A n \in 1..Len(HeldNow) : <<"CLOSE", HeldNow[n].type>> \in run.res[1].signals

\* A close by the age adds to the first result.
LEMMA CloseFirst ==
    ASSUME NEW run, QuietRun(run), NEW sides \in SUBSET Sides
    PROVE  /\ QuietRun(Close(run, sides)) /\ Close(run, sides).res[1].ticket = run.res[1].ticket
           /\ Close(run, sides).res[1].signals = run.res[1].signals \cup ({"CLOSE"} \X sides)
  <1> DEFINE result == [run.res[1] EXCEPT !.signals = @ \cup ({"CLOSE"} \X sides)]
             res == [run.res EXCEPT ![1] = result]
  <1>1. run.res \in [1..MaxOpenOrders -> QuietResults] /\ 1 \in 1..MaxOpenOrders /\ run.res[1] \in QuietResults
    BY SizesType DEF QuietRun, QuietArrays
  <1>2. result.ticket = run.res[1].ticket /\ result.signals = run.res[1].signals \cup ({"CLOSE"} \X sides)
    BY <1>1 DEF QuietResults
  <1>3. res[1] = result
    <2> HIDE DEF result
    <2> QED
      BY <1>1
  <1>4. Close(run, sides) = [run EXCEPT !.res = res]
    BY DEF Close
  <1> HIDE DEF res, result
  <1>5. [run EXCEPT !.res = res].res = res
    BY DEF QuietRun, IsRun
  <1> QED
    BY <1>2, <1>3, <1>4, <1>5, CloseQuiet

\* A strategy that closes by age and does not enter closes the orders that are too old.
LEMMA TimedCloses ==
    ASSUME TypeInv, OrdersInv, TimeKnown, Calm, mode \in Timed, open # <<>>, Len(open) <= OrderInfoSize,
           day - updated > TimedExitBars,
           NEW run \in runStrategy(Shown, HeldNow), run.side = "none"
    PROVE  ClosesHeld(run)
  <1> DEFINE First(runs) == \A r \in runs : QuietRun(r) /\ r.res[1].ticket = AllOrderTickets
             Closing(runs) == \A r \in runs : QuietRun(r) /\ ClosesHeld(r)
             entries == Enters(Start, HeldNow, Sides)
             inside == checkInternalTP(Start, HeldNow)
  <1>1. HeldNow \in Seq(Order) /\ HeldSides(HeldNow) \subseteq Sides
    BY AccountIs, HeldIs, HeldSidesAre DEF HeldNow, Shown
  <1>2. First(Start)
    <2>1. \A r \in Start : r.res[1].ticket = AllOrderTickets
      BY SizesType DEF Start, clearStrategyResults
    <2> QED
      BY <2>1, StartQuiet DEF QuietRuns
  <1>3. First(inside)
    BY <1>1, <1>2, CloseFirst DEF checkInternalTP
  <1>4. ASSUME NEW runs, First(runs) PROVE Closing(TimedExit(runs, HeldNow))
    <2> SUFFICES ASSUME NEW r \in runs
                 PROVE  LET looked == checkTimes(r.updated, HeldNow)
                            new == [Close(r, looked.closes) EXCEPT !.updated = looked.updated]
                        IN  QuietRun(new) /\ ClosesHeld(new)
      BY DEF TimedExit
    <2> DEFINE looked == checkTimes(r.updated, HeldNow)
               new == [Close(r, looked.closes) EXCEPT !.updated = looked.updated]
    <2>1. QuietRun(r) /\ r.res[1].ticket = AllOrderTickets /\ r.updated = updated /\ updated # 0
      BY <1>4 DEF QuietRun, KeepsTime, TimeKnown
    <2>2. looked.updated = updated /\ \A n \in 1..Len(HeldNow) : HeldNow[n].type \in looked.closes
      BY <1>1, <2>1, TimesAre
    <2>3. looked.closes \in SUBSET Sides
      BY <1>1, TimesClose
    <2> HIDE DEF looked
    <2>4. /\ QuietRun(Close(r, looked.closes)) /\ Close(r, looked.closes).res[1].ticket = AllOrderTickets
          /\ Close(r, looked.closes).res[1].signals = r.res[1].signals \cup ({"CLOSE"} \X looked.closes)
      BY <2>1, <2>3, CloseFirst
    <2>5. new = [res |-> Close(r, looked.closes).res, updated |-> updated, side |-> Close(r,
            looked.closes).side]
      BY <2>2, <2>4 DEF QuietRun, IsRun
    <2>6. QuietRun(new)
      BY <2>4, <2>5 DEF QuietRun, IsRun, KeepsTime
    <2>7. ClosesHeld(new)
      BY <2>2, <2>4, <2>5 DEF ClosesHeld
    <2> QED
      BY <2>6, <2>7 DEF looked
  <1>5. ASSUME NEW r, QuietRun(r), ClosesHeld(r), NEW sides \in SUBSET Sides
        PROVE  QuietRun(Close(r, sides)) /\ ClosesHeld(Close(r, sides))
    BY <1>5, CloseFirst DEF ClosesHeld
  <1>6. ASSUME NEW runs, Closing(runs) PROVE Closing(Exits(runs, HeldNow))
    BY <1>1, <1>5, <1>6 DEF Exits
  <1>7. run \notin entries
    <2> DEFINE New(r, side) == {Enter1(r, HeldNow, side), [r EXCEPT !.side = "denied"]}
    <2>1. entries = UNION {New(r, side) : r \in Start, side \in Sides}
      BY DEF Enters
    <2>2. \A r \in Start, side \in Sides : \A new \in New(r, side) : new.side # "none"
      <3>1. ASSUME NEW r \in Start, NEW side \in Sides PROVE Enter1(r, HeldNow, side).side # "none"
        BY DEF Enter1, Sides
      <3>2. ASSUME NEW r \in Start PROVE [r EXCEPT !.side = "denied"].side # "none"
        BY DEF Start
      <3> QED
        BY <3>1, <3>2
    <2> HIDE DEF New, entries
    <2> QED
      BY <2>1, <2>2
  <1>8. CASE mode \in Timed \ {"Coatl", "Teyacanani"}
    <2>1. \/ runStrategy(Shown, HeldNow) = entries \cup Exits(TimedExit(inside, HeldNow), HeldNow)
          \/ runStrategy(Shown, HeldNow) = entries \cup TimedExit(Start, HeldNow)
          \/ runStrategy(Shown, HeldNow) = entries \cup TimedExit(inside, HeldNow)
          \/ runStrategy(Shown, HeldNow) = entries \cup Exits(TimedExit(Start, HeldNow), HeldNow)
      BY <1>8 DEF Timed, runStrategy, runWatukushayFE_RSI, runWatukushayFE_BB, runWatukushayFE_CCI,
                  runGodsGiftATR, runQuimichi, runSapaq, runRuphay
    <2> HIDE DEF entries, inside, First
    <2> QED
      BY <2>1, <1>2, <1>3, <1>4, <1>6, <1>7
  <1>9. CASE mode = "Coatl"
    <2> DEFINE timed == TimedExit(inside, HeldNow)
               some == {{}} \cup {{side} : side \in HeldSides(HeldNow)}
    <2>1. runStrategy(Shown, HeldNow) = entries \cup {Close(r, sides) : r \in timed, sides \in some}
      BY <1>9 DEF runStrategy, runCoatl
    <2>2. Closing(timed) /\ \A sides \in some : sides \in SUBSET Sides
      BY <1>1, <1>3, <1>4
    <2> HIDE DEF entries, inside, timed, some
    <2>3. PICK r \in timed, sides \in some : run = Close(r, sides)
      BY <2>1, <1>7
    <2> QED
      BY <2>2, <2>3, <1>5
  <1>10. CASE mode = "Teyacanani"
    <2> DEFINE exits == Exits(TimedExit(Start, HeldNow), HeldNow)
               Asks(r) == r.res[1].signals \cap ({"CLOSE"} \X Sides) # {}
               trails(r) == Trail(r, InOrder("BUY", HeldSides(HeldNow)))
    <2>1. runStrategy(Shown, HeldNow) = entries \cup {IF Asks(r) THEN r ELSE trails(r) : r \in exits}
      BY <1>10 DEF runStrategy, runTeyacanani
    <2>2. Closing(exits)
      BY <1>2, <1>4, <1>6
    <2> HIDE DEF entries, exits, trails
    <2>3. PICK r \in exits : run = IF Asks(r) THEN r ELSE trails(r)
      BY <2>1, <1>7
    <2>4. Asks(r)
      <3>1. open \in Seq(Order) /\ 1 \in 1..Len(open)
        BY DEF TypeInv
      <3>2. PICK n \in 1..Len(HeldNow) : HeldNow[n] = open[1]
        BY <3>1, AccountIs, HeldIs DEF HeldNow, Shown
      <3>3. HeldNow[n].type \in Sides
        BY <1>1 DEF HeldSides
      <3>4. <<"CLOSE", HeldNow[n].type>> \in r.res[1].signals
        BY <2>2 DEF ClosesHeld
      <3> QED
        BY <3>3, <3>4
    <2> QED
      BY <2>2, <2>3, <2>4
  <1> QED
    BY <1>8, <1>9, <1>10

-----------------------------------------------------------------------------
(* The strategies of the band stop. *)

BandInv == band.side \in Sides
\* BuDan trades one side.
DailySide == mode = "BuDan" => \A o : Among(o, open) => o.type = DailyTrend

\* An array that is full of exits turns to the side of the stop too.
LEMMA FullOfExits ==
    ASSUME TypeInv, BandInv, NEW base, NEW asks, AskedFor(base, MaxOpenOrders, asks),
           \A ask \in asks : \A type \in Sides : type # band.side => ask[1] = type,
           NEW res \in Arrays, \A r \in 1..MaxOpenOrders : res[r] = base[r]
    PROVE  TurnsTo(res, band.side)
  <1>1. /\ Other(band.side) \in Sides /\ band.side # Other(band.side)
        /\ \A type \in Sides : type # band.side => type = Other(band.side)
    BY DEF BandInv, Other, Sides
  <1>2. \A r \in 1..MaxOpenOrders : res[r].signals = {<<"CLOSE", Other(band.side)>>}
    <2> SUFFICES ASSUME NEW r \in 1..MaxOpenOrders PROVE res[r].signals = {<<"CLOSE", Other(band.side)>>}
      OBVIOUS
    <2>1. PICK ask \in asks : res[r] = CloseOf(ask)
      BY DEF AskedFor
    <2>2. ask[1] = Other(band.side)
      BY <1>1
    <2> QED
      BY <2>1, <2>2 DEF CloseOf
  <1> QED
    BY <1>1, <1>2, FullTurns

\* Entries after an array that closes the other side.
LEMMA OpensFit ==
    ASSUME TypeInv, OrdersInv, BandInv, mode \in Banded, NEW run, IsRun(run), NEW m, NEW asks,
           AskedFor(run.res, m, asks), NEW orders \in Nat,
           \A ask \in asks : \E o : Among(o, open) /\ ask = <<o.type, o.ticket>>,
           Len(open) <= OrderInfoSize =>
              \A o : Among(o, open) /\ o.type # band.side => <<o.type, o.ticket>> \in asks,
           \A ask \in asks : \A type \in Sides : type # band.side => ask[1] = type,
           mode = "BuDan" => band.side = DailyTrend, run.side \notin Sides
    PROVE  /\ RunFits(Opens(run, orders))
           /\ TurnsTo(Opens(run, orders).res, band.side)
  <1> DEFINE res == openEach(run.res, band.side, orders)
             none == orders = 0
             time == IF none THEN run.updated ELSE day
  <1>1. band.side \in Sides /\ mode \notin OpenOrUpdate
    BY DEF BandInv, Banded, OpenOrUpdate, Timed
  <1>2. PICK k : k <= m + orders /\ Entered(res, run.res, m, k, band.side)
    BY <1>1, openEachEnters
  <1>3. res \in Arrays
    BY <1>2 DEF Entered
  <1>4. IsRun(Opens(run, orders)) /\ Opens(run, orders).res = res /\ Opens(run, orders).side = run.side
    <2>1. Opens(run, orders) = [[run EXCEPT !.res = res] EXCEPT !.updated = time]
      <3>1. [run EXCEPT !.res = res].updated = run.updated
        BY DEF IsRun
      <3> QED
        BY <3>1 DEF Opens
    <2> HIDE DEF res, time
    <2>2. [run EXCEPT !.res = res] = [res |-> res, updated |-> run.updated, side |-> run.side]
      BY DEF IsRun
    <2>3. Opens(run, orders) = [res |-> res, updated |-> time, side |-> run.side]
      BY <2>1, <2>2
    <2> QED
      BY <2>3 DEF IsRun
  <1> HIDE DEF res
  <1>5. TurnsTo(res, band.side)
    <2>1. CASE m < MaxOpenOrders
      BY <1>1, <1>2, <2>1, EnteredTurns
    <2>2. CASE m = MaxOpenOrders
      <3>1. \A r \in 1..MaxOpenOrders : res[r] = run.res[r]
        BY <1>2, <2>2 DEF Entered
      <3> QED
        BY <1>1, <1>3, <2>2, <3>1, FullOfExits
    <2> QED
      BY <2>1, <2>2, SizesType DEF AskedFor
  <1>6. ToOpen(res) # {} => EntryFits(res, band.side)
    BY <1>1, <1>5 DEF EntryFits
  <1>7. ~Calm
    BY <1>1 DEF Calm
  <1> QED
    BY <1>3, <1>4, <1>5, <1>6, <1>7 DEF RunFits, ResultsFit, SideFits, TimeFits

\* It turns to the side of the stop.
Turned(run) == TurnsTo(run.res, band.side)

\* Stops that are moved take a result behind those that close.
LEMMA TrailKeeps ==
    ASSUME NEW run, QuietRun(run), NEW side \in Sides, NEW m, NEW asks, AskedFor(run.res, m, asks)
    PROVE  \A r \in 1..m : Trail(run, <<side>>).res[r] = run.res[r]
  <1>1. <<side>> \in Seq(Sides) /\ Len(<<side>>) = 1 /\ <<side>>[1] = side
    OBVIOUS
  <1>2. Trail(run, <<side>>).res = modifyTradeEasy(run.res, side, AllOrderTickets, "own")
    <2> DEFINE sides == <<side>>
    <2>1. sides \in Seq(Sides) /\ Len(sides) = 1 /\ sides[1] = side
      BY <1>1
    <2> HIDE DEF sides
    <2>2. PICK f \in [0..Len(sides) -> QuietArrays] : TrailBy(f, run, sides)
      BY <2>1, TrailBuilt
    <2>3. f[1] = modifyTradeEasy(f[1 - 1], side, AllOrderTickets, "own") /\ f[0] = run.res
      BY <2>1, <2>2 DEF TrailBy
    <2>4. Trail(run, sides).res = f[1]
      BY <2>1, <2>2 DEF TrailBy
    <2>5. 1 - 1 = 0
      OBVIOUS
    <2> QED
      BY <2>3, <2>4, <2>5 DEF sides
  <1>3. /\ run.res \in Arrays /\ m \in 0..MaxOpenOrders /\ \A r \in 1..m : run.res[r].signals # {}
        /\ \A r \in (m + 1)..MaxOpenOrders : run.res[r] = Clear
    BY SignalsOf DEF AskedFor
  <1>4. FreeIndex(run.res) = m + 1
    BY <1>3, FreeIs
  <1>5. DOMAIN run.res = 1..MaxOpenOrders /\ \A r \in 1..m : r \in 1..MaxOpenOrders /\ r # m + 1
    BY <1>3, SizesType DEF Arrays
  <1> QED
    BY <1>2, <1>4, <1>5 DEF modifyTradeEasy, UseFree

\* Orders with a fresh band stop, after those against it are closed.
LEMMA AgainstFits ==
    ASSUME TypeInv, OrdersInv, BandInv, mode \in Banded \ {"BuDan"}, NEW run \in Start
    PROVE  /\ QuietRun(Against(run, HeldNow)) /\ Turned(Against(run, HeldNow))
           /\ \A orders \in Nat : RunFits(Opens(Against(run, HeldNow), orders))
                   /\ Turned(Opens(Against(run, HeldNow), orders))
           /\ Turned(Trail(Against(run, HeldNow), <<band.side>>))
  <1>1. /\ Other(band.side) \in Sides /\ band.side # Other(band.side)
        /\ \A type \in Sides : type # band.side => type = Other(band.side)
    BY DEF BandInv, Other, Sides
  <1>2. QuietRun(Against(run, HeldNow)) /\ IsRun(Against(run, HeldNow))
    BY <1>1, ClosedRun DEF Against, QuietRun
  <1>3. PICK m : /\ m <= OrderInfoSize
                 /\ AskedFor(Against(run, HeldNow).res, m, HeldAsks(HeldNow, Other(band.side)))
    BY <1>1, ClosedRun DEF Against
  <1> DEFINE asks == HeldAsks(HeldNow, Other(band.side))
  <1>4. \A ask \in asks : \E o : Among(o, open) /\ ask = <<o.type, o.ticket>>
    BY <1>1, HeldAsksAre
  <1>5. ASSUME Len(open) <= OrderInfoSize, NEW o, Among(o, open), o.type # band.side
        PROVE  <<o.type, o.ticket>> \in asks
    <2>1. o \in Order
      BY <1>5 DEF TypeInv, Among
    <2>2. o.type = Other(band.side)
      BY <2>1, <1>1, <1>5 DEF Order
    <2> QED
      BY <2>2, <1>1, <1>5, HeldAsksAre
  <1>9. \A ask \in asks : \A type \in Sides : type # band.side => ask[1] = type
    BY <1>1 DEF HeldAsks
  <1> HIDE DEF asks
  <1>6. AskedFor(Against(run, HeldNow).res, m, asks)
    BY <1>3 DEF asks
  <1>7. mode \in Banded /\ mode # "BuDan"
    OBVIOUS
  <1>8. ASSUME NEW orders \in Nat
        PROVE  RunFits(Opens(Against(run, HeldNow), orders)) /\ Turned(Opens(Against(run, HeldNow), orders))
    <2>1. Against(run, HeldNow).side \notin Sides
      BY <1>2 DEF QuietRun
    <2> QED
      BY <2>1, <1>2, <1>4, <1>5, <1>6, <1>7, <1>9, OpensFit DEF Turned
  <1>10. ASSUME NEW r, QuietRun(r), \A n \in 1..m : r.res[n] = Against(run, HeldNow).res[n] PROVE Turned(r)
    <2>1. r.res \in Arrays /\ ToOpen(r.res) = {}
      BY <1>10, QuietHasNone, QuietIsArray DEF QuietRun
    <2>2. CASE m < MaxOpenOrders
      BY <2>1, <2>2, <1>4, <1>5, <1>6, <1>10, QuietTurns DEF Turned
    <2>3. CASE m = MaxOpenOrders
      BY <2>1, <2>3, <1>6, <1>9, <1>10, FullOfExits DEF Turned
    <2> QED
      BY <2>2, <2>3, SizesType, <1>6 DEF AskedFor
  <1>11. QuietRun(Trail(Against(run, HeldNow), <<band.side>>))
    <2>1. <<band.side>> \in Seq(Sides)
      BY DEF BandInv
    <2> QED
      BY <2>1, <1>2, TrailQuiet
  <1>12. \A n \in 1..m : Trail(Against(run, HeldNow), <<band.side>>).res[n] = Against(run, HeldNow).res[n]
    BY <1>2, <1>6, TrailKeeps DEF BandInv
  <1> QED
    BY <1>2, <1>8, <1>10, <1>11, <1>12

\* The side a run was in for is told apart for the properties only.
LEMMA InForFits ==
    ASSUME NEW runs, RunsFit(runs), NEW side,
           \A run \in runs : side \in Sides => TurnsTo(run.res, side)
    PROVE  RunsFit(InFor(runs, side))
  <1> SUFFICES ASSUME NEW run \in runs PROVE RunFits([run EXCEPT !.side = side])
    BY DEF RunsFit, InFor
  <1>1. RunFits(run)
    BY DEF RunsFit
  <1>2. [run EXCEPT !.side = side] = [res |-> run.res, updated |-> run.updated, side |-> side]
    BY <1>1 DEF RunFits, IsRun
  <1> QED
    BY <1>1, <1>2 DEF RunFits, IsRun, SideFits, TimeFits

\* modifyOrders opens nothing.
LEMMA modifyOrdersQuiet ==
    ASSUME mode \in Banded, NEW run, QuietRun(run), NEW side \in Sides
    PROVE  QuietRuns(modifyOrders(run, side))
  <1>1. QuietRun(Trail(run, <<side>>))
    <2>1. <<side>> \in Seq(Sides)
      OBVIOUS
    <2> QED
      BY <2>1, TrailQuiet
  <1>2. QuietRun([Trail(run, <<side>>) EXCEPT !.updated = day])
    <2> DEFINE trailed == Trail(run, <<side>>)
    <2> HIDE DEF trailed
    <2>1. QuietRun(trailed)
      BY <1>1 DEF trailed
    <2>2. [trailed EXCEPT !.updated = day] = [res |-> trailed.res, updated |-> day, side |-> trailed.side]
      BY <2>1 DEF QuietRun, IsRun
    <2>3. ~Calm
      BY DEF Calm, Banded, OpenOrUpdate, Timed
    <2> QED
      BY <2>1, <2>2, <2>3 DEF QuietRun, IsRun, KeepsTime, trailed
  <1> QED
    BY <1>1, <1>2 DEF QuietRuns, modifyOrders

\* All strategies that send orders with a fresh band stop.
LEMMA BandedFits ==
    ASSUME TypeInv, OrdersInv, BandInv, DailySide, mode \in Banded
    PROVE  RunsFit(runStrategy(Shown, HeldNow))
  <1>1. RunsFit(Start) /\ QuietRuns(Start)
    BY StartQuiet, QuietFits
  <1>2. band.side \in Sides
    BY DEF BandInv
  <1> DEFINE fresh == band.fresh
  <1>3. CASE mode = "TestEA"
    <2> DEFINE against == {Against(run, HeldNow) : run \in Start}
               holds == band.side \in HeldSides(HeldNow)
               Enters1(run) == IF fresh THEN Opens(run, 2) ELSE IF holds THEN Trail(run, <<band.side>>) ELSE run
               runs == {Enters1(run) : run \in against}
    <2>1. runStrategy(Shown, HeldNow) = InFor(runs, band.side)
      BY <1>3 DEF runStrategy, runTestEA
    <2>2. ASSUME NEW run \in against
          PROVE  /\ RunFits(Opens(run, 2)) /\ RunFits(run) /\ RunFits(Trail(run, <<band.side>>))
                 /\ Turned(Opens(run, 2)) /\ Turned(run) /\ Turned(Trail(run, <<band.side>>))
      <3>1. mode \in Banded \ {"BuDan"}
        BY <1>3 DEF Banded
      <3>2. /\ RunFits(Opens(run, 2)) /\ QuietRun(run)
            /\ Turned(Opens(run, 2)) /\ Turned(run) /\ Turned(Trail(run, <<band.side>>))
        BY <3>1, AgainstFits
      <3>3. QuietRun(Trail(run, <<band.side>>))
        <4>1. <<band.side>> \in Seq(Sides)
          BY <1>2
        <4> QED
          BY <4>1, <3>2, TrailQuiet
      <3>4. \A r : QuietRun(r) => RunFits(r)
        <4> SUFFICES ASSUME NEW r, QuietRun(r) PROVE RunFits(r)
          OBVIOUS
        <4>1. QuietRuns({r})
          BY DEF QuietRuns
        <4> QED
          BY <4>1, QuietFits DEF RunsFit
      <3> QED
        BY <3>2, <3>3, <3>4
    <2> HIDE DEF fresh, holds, against
    <2>3. RunsFit(runs) /\ \A run \in runs : Turned(run)
      BY <2>2 DEF RunsFit
    <2> HIDE DEF runs
    <2> QED
      BY <2>1, <2>3, InForFits DEF Turned
  <1>4. CASE mode = "BBS"
    <2> DEFINE exited == IF fresh THEN {Against(run, HeldNow) : run \in Start} ELSE Start
               holds == band.side \in HeldSides(HeldNow)
               enters == fresh /\ band.side = DailyTrend
               opened == {Opens(run, orders) : run \in exited, orders \in 0..2}
               moved == UNION {modifyOrders(run, band.side) : run \in exited}
               runs == IF enters THEN opened ELSE IF holds THEN moved ELSE exited
               side == IF fresh THEN band.side ELSE "none"
    <2>1. runStrategy(Shown, HeldNow) = InFor(runs, side)
      BY <1>4 DEF runStrategy, runBBS, BBS_Entries, BBS_Exits
    <2>2. mode \in Banded \ {"BuDan"}
      BY <1>4 DEF Banded
    <2>3. \A run \in Start :
             /\ QuietRun(Against(run, HeldNow)) /\ Turned(Against(run, HeldNow))
             /\ \A orders \in Nat : RunFits(Opens(Against(run, HeldNow), orders))
                     /\ Turned(Opens(Against(run, HeldNow), orders))
             /\ Turned(Trail(Against(run, HeldNow), <<band.side>>))
      BY <2>2, AgainstFits
    <2>4. /\ QuietRuns(exited)
          /\ enters => \A run \in exited, orders \in 0..2 : RunFits(Opens(run, orders))
                  /\ Turned(Opens(run, orders))
          /\ fresh => \A run \in exited : Turned(run) /\ Turned(Trail(run, <<band.side>>))
      <3>1. enters => fresh
        OBVIOUS
      <3> HIDE DEF enters, fresh
      <3> QED
        BY <2>3, <3>1, <1>1 DEF QuietRuns
    <2>9. (enters => fresh) /\ (side \in Sides => fresh /\ side = band.side)
      BY DEF Sides
    <2> HIDE DEF fresh, holds, enters, exited
    <2>10. fresh => /\ \A run \in moved : Turned(run)
                    /\ enters => \A run \in opened : Turned(run)
      <3>1. ASSUME NEW run \in exited, Turned(Trail(run, <<band.side>>)), NEW r \in modifyOrders(run, band.side)
            PROVE  Turned(r)
        <4> DEFINE trailed == Trail(run, <<band.side>>)
        <4>1. <<band.side>> \in Seq(Sides) /\ QuietRun(run)
          BY <1>2, <2>4 DEF QuietRuns
        <4>2. QuietRun(trailed)
          BY <4>1, TrailQuiet
        <4>3. r = trailed \/ r = [trailed EXCEPT !.updated = day]
          BY DEF modifyOrders
        <4>4. Turned(trailed)
          BY <3>1
        <4> HIDE DEF trailed
        <4>5. r.res = trailed.res
          BY <4>2, <4>3 DEF QuietRun, IsRun
        <4> QED
          BY <4>4, <4>5 DEF Turned
      <3> QED
        BY <2>4, <3>1
    <2>5. QuietRuns(moved)
      <3>1. \A run \in exited : QuietRuns(modifyOrders(run, band.side))
        BY <2>4, <1>2, modifyOrdersQuiet DEF QuietRuns
      <3> QED
        BY <3>1 DEF QuietRuns
    <2>6. RunsFit(moved) /\ RunsFit(exited) /\ (enters => RunsFit(opened))
      <3>1. enters => RunsFit(opened)
        BY <2>4 DEF RunsFit
      <3> QED
        BY <2>4, <2>5, <3>1, QuietFits
    <2> HIDE DEF moved, opened
    <2>7. RunsFit(runs) /\ (fresh => \A run \in runs : Turned(run))
      BY <2>4, <2>6, <2>10
    <2> HIDE DEF runs, side
    <2> QED
      BY <2>1, <2>7, <2>9, InForFits DEF Turned
  <1>5. CASE mode = "BuDan"
    <2> DEFINE enters == fresh /\ band.side = DailyTrend
               opened == {Opens(run, 1) : run \in Start}
               runs == Start \cup IF enters THEN opened ELSE {}
    <2>1. runStrategy(Shown, HeldNow) = InFor(runs, DailyTrend)
      BY <1>5 DEF runStrategy, runBuDan
    <2>5. \A run \in Start : TurnsTo(run.res, DailyTrend)
      <3> SUFFICES ASSUME NEW run \in Start PROVE TurnsTo(run.res, DailyTrend)
        OBVIOUS
      <3>1. run.res \in Arrays /\ ToOpen(run.res) = {}
        BY <1>1, QuietHasNone, QuietIsArray DEF QuietRuns, QuietRun
      <3>2. \A r \in 1..MaxOpenOrders : \A type \in Sides : <<"OPEN", type>> \notin run.res[r].signals
        BY <3>1 DEF ToOpen, Arrays
      <3> QED
        BY <3>2, <1>5 DEF TurnsTo, DailySide
    <2>2. ASSUME band.side = DailyTrend, NEW run \in Start
          PROVE  RunFits(Opens(run, 1)) /\ TurnsTo(Opens(run, 1).res, DailyTrend)
      <3>1. AskedFor(run.res, 0, {}) /\ IsRun(run) /\ run.side \notin Sides /\ 0 < MaxOpenOrders
        BY ClearAsks, SizesType, <1>1 DEF Start, IsRun, QuietRuns, QuietRun
      <3>2. \A o : Among(o, open) => o.type = band.side
        BY <2>2, <1>5 DEF DailySide
      <3> DEFINE asks == {}
      <3>6. \A ask \in asks : \A type \in Sides : type # band.side => ask[1] = type
        OBVIOUS
      <3>3. \A ask \in asks : \E o : Among(o, open) /\ ask = <<o.type, o.ticket>>
        OBVIOUS
      <3>4. Len(open) <= OrderInfoSize =>
               \A o : Among(o, open) /\ o.type # band.side => <<o.type, o.ticket>> \in asks
        BY <3>2
      <3>5. AskedFor(run.res, 0, asks)
        BY <3>1
      <3> HIDE DEF asks
      <3> QED
        BY <3>1, <3>3, <3>4, <3>5, <3>6, <2>2, OpensFit
    <2>3. /\ RunsFit(IF enters THEN opened ELSE {})
          /\ \A run \in IF enters THEN opened ELSE {} : TurnsTo(run.res, DailyTrend)
      <3>1. enters => band.side = DailyTrend
        OBVIOUS
      <3> HIDE DEF enters, fresh
      <3> QED
        BY <2>2, <3>1 DEF RunsFit
    <2> HIDE DEF opened, enters
    <2>4. RunsFit(runs) /\ \A run \in runs : TurnsTo(run.res, DailyTrend)
      BY <2>3, <2>5, <1>1 DEF RunsFit
    <2> HIDE DEF runs
    <2> QED
      BY <2>1, <2>4, InForFits
  <1>6. CASE mode = "KeyK"
    <2> DEFINE holds(side) == side \in HeldSides(HeldNow)
               long == UNION {modifyOrders(run, "BUY") : run \in Start}
               moved == IF holds("BUY") THEN long ELSE Start
               short == UNION {modifyOrders(run, "SELL") : run \in moved}
               opened == {Opens(Against(run, HeldNow), 3) : run \in Start}
    <2>1. runStrategy(Shown, HeldNow) = IF fresh THEN InFor(opened, band.side)
                                        ELSE Start \cup IF holds("SELL") THEN short ELSE moved
      BY <1>6 DEF runStrategy, runKeyK
    <2>2. \A runs : \A side \in Sides : QuietRuns(runs)
            => QuietRuns(UNION {modifyOrders(run, side) : run \in runs})
      <3> SUFFICES ASSUME NEW runs, NEW side \in Sides, QuietRuns(runs)
                   PROVE  QuietRuns(UNION {modifyOrders(run, side) : run \in runs})
        OBVIOUS
      <3>1. \A run \in runs : QuietRuns(modifyOrders(run, side))
        BY modifyOrdersQuiet DEF QuietRuns
      <3> QED
        BY <3>1 DEF QuietRuns
    <2>3. "BUY" \in Sides /\ "SELL" \in Sides
      BY DEF Sides
    <2> HIDE DEF holds, fresh
    <2>4. QuietRuns(long)
      BY <2>2, <2>3, <1>1
    <2>5. QuietRuns(moved)
      <3> HIDE DEF long
      <3> QED
        BY <2>4, <1>1
    <2>6. QuietRuns(short)
      <3> HIDE DEF moved
      <3> QED
        BY <2>2, <2>3, <2>5
    <2>7. RunsFit(opened) /\ \A run \in opened : Turned(run)
      <3>1. mode \in Banded \ {"BuDan"} /\ 3 \in Nat
        BY <1>6 DEF Banded
      <3>2. \A run \in Start : RunFits(Opens(Against(run, HeldNow), 3))
              /\ Turned(Opens(Against(run, HeldNow), 3))
        BY <3>1, AgainstFits
      <3> QED
        BY <3>2 DEF RunsFit
    <2> HIDE DEF short, moved, opened
    <2>8. RunsFit(short) /\ RunsFit(moved) /\ RunsFit(InFor(opened, band.side))
      BY <2>5, <2>6, <2>7, QuietFits, InForFits DEF Turned
    <2>9. CASE fresh
      BY <2>1, <2>8, <2>9
    <2>10. CASE ~fresh
      <3>1. runStrategy(Shown, HeldNow) = Start \cup (IF holds("SELL") THEN short ELSE moved)
        BY <2>1, <2>10
      <3>2. RunsFit(IF holds("SELL") THEN short ELSE moved)
        BY <2>8
      <3> QED
        BY <3>1, <3>2, <1>1 DEF RunsFit
    <2> QED
      BY <2>9, <2>10
  <1> QED
    BY <1>3, <1>4, <1>5, <1>6 DEF Banded

-----------------------------------------------------------------------------
(* The bar of another strategy. *)

\* A strategy that closes by age closes the orders that are too old, unless it enters.
AgesFit(run) ==
    Calm /\ mode \in Timed /\ run.side = "none" /\ open # <<>> /\ Len(open) <= OrderInfoSize
    /\ day - updated > TimedExitBars => ClosesHeld(run)

\* The bar is that of a run.
RunIs(run, done, closes) ==
    /\ RunFits(run) /\ run.res \in Arrays /\ AgesFit(run) /\ BarIs(run.res, done, closes)
    /\ updated' = run.updated
    /\ signalled' = IF Len(open) <= OrderInfoSize /\ faults' = faults THEN run.side ELSE "unseen"

\* What a bar of such a strategy does, in terms of its results.
LEMMA StrategySteps ==
    ASSUME TypeInv, OrdersInv, OneEach, BandInv, DailySide, TimeKnown, StrategyBar
    PROVE  \E run, done, closes : RunIs(run, done, closes)
  <1>1. \E run \in runStrategy(Shown, HeldNow) :
           /\ c_processOrders(run.res, {}, {}, 0) /\ updated' = run.updated
           /\ signalled' = IF Len(open) <= OrderInfoSize /\ faults' = faults THEN run.side ELSE "unseen"
    BY DEF StrategyBar, HeldNow, Shown
  <1>2. PICK run \in runStrategy(Shown, HeldNow) :
           /\ c_processOrders(run.res, {}, {}, 0) /\ updated' = run.updated
           /\ signalled' = IF Len(open) <= OrderInfoSize /\ faults' = faults THEN run.side ELSE "unseen"
    BY <1>1
  <1>3. RunFits(run)
    <2>1. mode \in OpenOrUpdate \/ mode \in Banded
      BY DEF StrategyBar
    <2> QED
      BY <2>1, OpenOrUpdateFits, BandedFits DEF RunsFit
  <1>4. run.res \in Arrays
    BY <1>3 DEF RunFits, ResultsFit
  <1>5. AgesFit(run)
    BY TimedCloses DEF AgesFit
  <1>6. PICK done, closes : BarIs(run.res, done, closes)
    BY <1>2, <1>4, ProcessIs
  <1> QED
    BY <1>2, <1>3, <1>4, <1>5, <1>6 DEF RunIs

\* Two orders of the account with the same ticket are one.
LEMMA TwoOrders ==
    ASSUME TypeInv, OrdersInv, OneEach, mode \in OpenOrUpdate, OrderInfoSize >= 2
    PROVE  Len(open) <= 2
  <1> SUFFICES ASSUME ~(Len(open) <= 2) PROVE FALSE
    OBVIOUS
  <1>1. open \in Seq(Order) /\ Len(open) \in Nat /\ {1, 2, 3} \subseteq 1..Len(open)
    BY DEF TypeInv
  <1>2. \A n \in {1, 2, 3} : Among(open[n], open) /\ open[n] \in Order
    BY <1>1 DEF Among
  <1>3. \A n \in {1, 2, 3} : open[n].type \in {"BUY", "SELL"} /\ open[n].ticket \in Nat
    BY <1>2 DEF Order, Sides
  <1>4. open[1].ticket < open[2].ticket /\ open[2].ticket < open[3].ticket /\ open[1].ticket < open[3].ticket
    BY <1>1 DEF OrdersInv, Ascending
  <1>5. open[1] # open[2] /\ open[2] # open[3] /\ open[1] # open[3]
    BY <1>3, <1>4
  <1>6. open[1].type = open[2].type \/ open[2].type = open[3].type \/ open[1].type = open[3].type
    BY <1>3
  <1> QED
    BY <1>2, <1>5, <1>6 DEF OneEach

\* A bar keeps one order on each side.
LEMMA OneEachBar ==
    ASSUME TypeInv, OrdersInv, OneEach, NEW res \in Arrays, NEW done, NEW closes, BarIs(res, done, closes),
           ResultsFit(res), mode' = mode
    PROVE  OneEach'
  <1> SUFFICES ASSUME mode \in OpenOrUpdate, OrderInfoSize >= 2, NEW o, NEW p, Among(o, open'), Among(p, open'),
                      o.type = p.type
               PROVE  o = p
    BY DEF OneEach
  <1>1. CASE ToOpen(res) = {}
    <2>1. Among(o, open) /\ Among(p, open)
      BY <1>1, QuietBar
    <2> QED
      BY <2>1 DEF OneEach
  <1>2. CASE ToOpen(res) # {}
    <2>1. PICK side : EntryFits(res, side)
      BY <1>2 DEF ResultsFit
    <2>2. Len(open) <= OrderInfoSize
      <3>1. Len(open) \in Nat
        BY DEF TypeInv
      <3> QED
        BY <3>1, TwoOrders, SizesType
    <2>3. /\ \A e : Among(e, open) => e.type # side
          /\ \A e : Fresh(e, res, done.sent) => e.type = side /\ e.ticket = sent + 1
      <3>1. ToOpen(res) \subseteq {1} /\ \A e : Among(e, open) => e.type # side
        BY <2>1, <2>2 DEF EntryFits, SingleEntry
      <3>2. done \in States /\ sent \in Nat
        BY DEF BarIs, Sending, TypeInv
      <3>3. done.sent \in Nat
        BY <3>2 DEF States
      <3>4. done.sent <= sent + 1
        <4>1. 0 \in 0..MaxOpenOrders /\ 1 \in 0..MaxOpenOrders /\ {1} = (0 + 1)..1
          BY SizesType
        <4>2. \A a \in 0..MaxOpenOrders : \A b \in a..MaxOpenOrders :
                 ToOpen(res) \subseteq (a + 1)..b => done.sent <= sent + (b - a)
          BY DEF BarIs
        <4>3. done.sent <= sent + (1 - 0)
          BY <4>1, <4>2, <3>1
        <4> QED
          BY <4>3, <3>2, <3>3
      <3>5. ASSUME NEW e, Fresh(e, res, done.sent) PROVE e.type = side /\ e.ticket = sent + 1
        <4>1. e.ticket \in (sent + 1)..done.sent /\ e.type \in Sides
              /\ \E q \in 1..MaxOpenOrders : <<"OPEN", e.type>> \in res[q].signals
          BY <3>5 DEF Fresh, Order
        <4>2. e.type = side
          BY <4>1, <2>1 DEF EntryFits, TurnsTo
        <4> QED
          BY <4>1, <4>2, <3>2, <3>3, <3>4
      <3> QED
        BY <3>1, <3>5
    <2>4. (Among(o, open) \/ Fresh(o, res, done.sent)) /\ (Among(p, open) \/ Fresh(p, res, done.sent))
      BY DEF BarIs, Sending
    <2>5. CASE Among(o, open) /\ Among(p, open)
      BY <2>5 DEF OneEach
    <2>6. CASE Fresh(o, res, done.sent) /\ Fresh(p, res, done.sent)
      <3>1. o.ticket = p.ticket
        BY <2>3, <2>6
      <3>2. open' \in Seq(Order) /\ Ascending(open')
        BY DEF BarIs, Sending, States
      <3> QED
        BY <3>1, <3>2, SameTicket
    <2> QED
      BY <2>3, <2>4, <2>5, <2>6
  <1> QED
    BY <1>1, <1>2

\* After a bar that entered on a side, with no call refused, all orders are on it.
LEMMA SideOfBar ==
    ASSUME TypeInv, OrdersInv, NEW res \in Arrays, NEW done, NEW closes, BarIs(res, done, closes), day' = day,
           NEW side, ToOpen(res) = {} \/ TurnsTo(res, side), sent' # sent, faults' = faults,
           Len(open) <= OrderInfoSize
    PROVE  \A n, k \in DOMAIN open' : open'[n].type = open'[k].type
  <1>1. ToOpen(res) # {}
    BY QuietBar
  <1>2. \A o : Among(o, open') => o.type = side
    BY <1>1, SidedBar
  <1>3. open' \in Seq(Order)
    BY BarKeeps DEF TypeInv
  <1>4. \A n \in DOMAIN open' : Among(open'[n], open')
    BY <1>3 DEF Among
  <1> QED
    BY <1>2, <1>4

\* Without a refused call there is one order in all.
NoneRefused == mode \in OpenOrUpdate /\ OrderInfoSize >= 2 /\ faults = 0 => Len(open) <= 1

\* A bar on which no call is refused leaves one order of the strategies that open or update.
LEMMA NoneRefusedBar ==
    ASSUME TypeInv, OrdersInv, OneEach, NoneRefused, NEW res \in Arrays, NEW done, NEW closes,
           BarIs(res, done, closes), ResultsFit(res), mode' = mode, day' = day
    PROVE  NoneRefused'
  <1> SUFFICES ASSUME mode \in OpenOrUpdate, OrderInfoSize >= 2, faults' = 0, ~(Len(open') <= 1) PROVE FALSE
    BY DEF NoneRefused
  <1>1. faults = 0 /\ faults' = faults
    BY DEF TypeInv, BarIs
  <1>2. open \in Seq(Order) /\ Len(open) \in Nat /\ Len(open) <= 1 /\ Len(open) <= OrderInfoSize
    BY <1>1, SizesType DEF NoneRefused, TypeInv
  <1>3. TypeInv' /\ OrdersInv' /\ OneEach'
    BY BarKeeps, OneEachBar
  <1>4. open' \in Seq(Order) /\ Len(open') \in Nat /\ 1 \in 1..Len(open') /\ 2 \in 1..Len(open')
    BY <1>3 DEF TypeInv
  <1> DEFINE o == open'[1]
             p == open'[2]
  <1>5. Among(o, open') /\ Among(p, open') /\ o \in Order /\ p \in Order
    BY <1>4 DEF Among
  <1>6. o.ticket < p.ticket
    BY <1>3, <1>4 DEF OrdersInv, Ascending
  <1>7. o # p
    <2>1. o.ticket \in Nat
      BY <1>5 DEF Order
    <2> HIDE DEF o, p
    <2> QED
      BY <2>1, <1>6
  <1>8. CASE sent' = sent
    <2>1. sent \in Nat /\ (sent + 1)..sent = {} /\ done.sent = sent
      BY <1>8 DEF TypeInv, BarIs
    <2>2. ~Fresh(o, res, done.sent) /\ ~Fresh(p, res, done.sent)
      BY <2>1 DEF Fresh
    <2>3. Among(o, open) /\ Among(p, open)
      <3> HIDE DEF o, p
      <3> QED
        BY <1>5, <2>2 DEF BarIs, Sending
    <2> HIDE DEF o, p
    <2>4. PICK n \in 1..Len(open) : open[n] = o
      BY <2>3 DEF Among
    <2>5. PICK k \in 1..Len(open) : open[k] = p
      BY <2>3 DEF Among
    <2>6. n = k
      BY <1>2
    <2> QED
      BY <2>4, <2>5, <2>6, <1>7
  <1>9. CASE sent' # sent
    <2>1. PICK side : ToOpen(res) = {} \/ TurnsTo(res, side)
      BY DEF ResultsFit, EntryFits
    <2>2. \A n, k \in DOMAIN open' : open'[n].type = open'[k].type
      BY <1>1, <1>2, <1>9, <2>1, SideOfBar
    <2>3. o.type = p.type
      <3>1. 1 \in DOMAIN open' /\ 2 \in DOMAIN open'
        BY <1>4
      <3> QED
        BY <2>2, <3>1
    <2> HIDE DEF o, p
    <2> QED
      BY <1>3, <1>5, <1>7, <2>3 DEF OneEach
  <1> QED
    BY <1>8, <1>9

\* A bar keeps the orders of BuDan on its side.
LEMMA DailySideBar ==
    ASSUME TypeInv, DailySide, NEW res \in Arrays, NEW done, NEW closes, BarIs(res, done, closes),
           ResultsFit(res), mode' = mode
    PROVE  DailySide'
  <1> SUFFICES ASSUME mode = "BuDan", NEW o, Among(o, open') PROVE o.type = DailyTrend
    BY DEF DailySide
  <1>1. CASE ToOpen(res) = {}
    <2>1. Among(o, open)
      BY <1>1, QuietBar
    <2> QED
      BY <2>1 DEF DailySide
  <1>2. CASE ToOpen(res) # {}
    <2>1. PICK side : EntryFits(res, side)
      BY <1>2 DEF ResultsFit
    <2>2. TurnsTo(res, DailyTrend)
      BY <2>1 DEF EntryFits
    <2>3. Among(o, open) \/ Fresh(o, res, done.sent)
      BY DEF BarIs, Sending
    <2>4. CASE Fresh(o, res, done.sent)
      <3>1. o.type \in Sides /\ \E q \in 1..MaxOpenOrders : <<"OPEN", o.type>> \in res[q].signals
        BY <2>4 DEF Fresh, Order
      <3> QED
        BY <3>1, <2>2 DEF TurnsTo
    <2> QED
      BY <2>3, <2>4 DEF DailySide
  <1> QED
    BY <1>1, <1>2

\* The strategies that are in for a side have all their orders on it.
InForOne ==
    mode \in OpenOrUpdate \cup Banded /\ signalled \in Sides =>
        \A o : Among(o, open) => o.type = signalled

\* A bar in for a side leaves its orders only.
LEMMA InForOneBar ==
    ASSUME TypeInv, OrdersInv, NEW run, NEW done, NEW closes, RunIs(run, done, closes), mode' = mode
    PROVE  InForOne'
  <1> SUFFICES ASSUME signalled' \in Sides PROVE \A o : Among(o, open') => o.type = signalled'
    BY DEF InForOne
  <1>1. Len(open) <= OrderInfoSize /\ faults' = faults /\ signalled' = run.side
    <2>1. "unseen" \notin Sides
      BY DEF Sides
    <2> QED
      BY <2>1 DEF RunIs
  <1>2. TurnsTo(run.res, run.side)
    BY <1>1 DEF RunIs, RunFits, SideFits
  <1> QED
    BY <1>1, <1>2, SidedBar DEF RunIs

\* The time of the last entry is that of the orders.
Dated == day # 0 /\ (Calm => \A o : Among(o, open) => o.day = updated /\ updated # 0)

\* With an order open the time of the last entry is not lost.
LEMMA TimeIsKnown == ASSUME TypeInv, Dated PROVE TimeKnown
  <1> SUFFICES ASSUME Calm, open # <<>> PROVE updated # 0
    BY DEF TimeKnown
  <1>1. Among(open[1], open)
    BY DEF TypeInv, Among
  <1> QED
    BY <1>1 DEF Dated

\* The time of the last entry stays that of the orders.
LEMMA DatedBar ==
    ASSUME TypeInv, OrdersInv, NoneRefused, Dated, NEW run, NEW done, NEW closes, RunIs(run, done, closes),
           mode' = mode, day' = day
    PROVE  Dated'
  <1> SUFFICES ASSUME mode \in OpenOrUpdate \ {"Atipaq"}, OrderInfoSize >= 2, faults' = 0, NEW o, Among(o,
          open')
               PROVE  o.day = updated' /\ updated' # 0
    BY DEF Dated, Calm
  <1>1. faults = 0 /\ faults' = faults /\ Calm
    BY DEF TypeInv, RunIs, BarIs, Calm
  <1>2. (Len(open) <= OrderInfoSize /\ open # <<>>) \/ Len(open) = 0
    BY <1>1, SizesType DEF NoneRefused, TypeInv
  <1>3. (Among(o, open) /\ o.ticket \notin Walk(run.res, open)) \/ Fresh(o, run.res, done.sent)
    BY <1>1 DEF RunIs, BarIs, Sending
  <1>4. CASE ToOpen(run.res) = {}
    <2>1. Among(o, open)
      BY <1>4, QuietBar DEF RunIs
    <2>2. open # <<>>
      BY <2>1 DEF Among
    <2>3. updated' = updated
      BY <1>1, <1>4, <2>2 DEF RunIs, RunFits, TimeFits
    <2> QED
      BY <1>1, <2>1, <2>3 DEF Dated
  <1>5. CASE ToOpen(run.res) # {}
    <2>1. updated' = day
      BY <1>1, <1>5 DEF RunIs, RunFits, TimeFits
    <2>2. PICK side : EntryFits(run.res, side)
      BY <1>5 DEF RunIs, RunFits, ResultsFit
    <2>3. Len(open) <= OrderInfoSize
      BY <1>2, SizesType
    <2>4. ~Among(o, open)
      <3>1. Among(o, open) => o.type # side
        BY <2>2, <2>3 DEF EntryFits, SingleEntry
      <3>2. o.type = side
        BY <1>1, <2>2, <2>3, SidedBar DEF RunIs, EntryFits
      <3> QED
        BY <3>1, <3>2
    <2> QED
      BY <1>3, <2>1, <2>4 DEF Fresh, Dated
  <1> QED
    BY <1>4, <1>5

\* After a bar without a signal no order is too old.
AgedOut ==
    Calm /\ mode \in Timed /\ signalled = "none" => \A o : Among(o, open) => day - o.day <= TimedExitBars

\* A bar without an entry leaves no order that is too old.
LEMMA AgedOutBar ==
    ASSUME TypeInv, OrdersInv, NoneRefused, Dated, NEW run, NEW done, NEW closes, RunIs(run, done, closes),
           mode' = mode, day' = day
    PROVE  AgedOut'
  <1> SUFFICES ASSUME mode \in OpenOrUpdate \ {"Atipaq"}, OrderInfoSize >= 2, faults' = 0, mode \in Timed,
                      signalled' = "none", NEW o, Among(o, open')
               PROVE  day - o.day <= TimedExitBars
    BY DEF AgedOut, Calm
  <1>1. faults = 0 /\ faults' = faults /\ Calm
    BY DEF TypeInv, RunIs, BarIs, Calm
  <1>2. Len(open) <= OrderInfoSize
    BY <1>1, SizesType DEF NoneRefused, TypeInv
  <1>3. day \in Nat /\ TimedExitBars \in Nat
    BY StrategiesAssumption DEF TypeInv
  <1>4. (Among(o, open) /\ o.ticket \notin Walk(run.res, open)) \/ Fresh(o, run.res, done.sent)
    BY <1>1 DEF RunIs, BarIs, Sending
  <1>5. CASE Fresh(o, run.res, done.sent)
    BY <1>3, <1>5 DEF Fresh
  <1>6. CASE Among(o, open) /\ o.ticket \notin Walk(run.res, open)
    <2>1. o.day = updated /\ o.day \in Nat
      <3>1. o \in Order
        BY <1>6 DEF TypeInv, Among
      <3> QED
        BY <3>1, <1>1, <1>6 DEF Dated, Order
    <2> SUFFICES ASSUME day - updated > TimedExitBars PROVE FALSE
      BY <1>3, <2>1
    <2>2. open # <<>> /\ run.side = "none"
      BY <1>1, <1>2, <1>6 DEF Among, RunIs
    <2>3. ClosesHeld(run) /\ run.res \in Arrays
      BY <1>1, <1>2, <2>2 DEF RunIs, AgesFit
    <2>4. PICK k \in 1..Len(open) : open[k] = o
      BY <1>6 DEF Among
    <2>5. PICK n \in 1..Len(HeldNow) : HeldNow[n] = o
      BY <1>2, <2>4, AccountIs, HeldIs DEF HeldNow, Shown
    <2>6. run.res[1].ticket = AllOrderTickets /\ <<"CLOSE", o.type>> \in run.res[1].signals
      BY <2>3, <2>5 DEF ClosesHeld
    <2> QED
      BY <1>6, <2>3, <2>6, FirstCloses
  <1> QED
    BY <1>4, <1>5, <1>6

-----------------------------------------------------------------------------
(* The inductive invariant. *)

Inv ==
    /\ TypeInv /\ OrdersInv /\ Gone /\ Sole /\ SameSide /\ DayGap /\ Timely /\ PartsOfADay /\ ThreeAtMost
    /\ Rest /\ DailySide /\ OneEach /\ NoneRefused /\ InForOne /\ Dated /\ AgedOut /\ BandInv
IInv == InScope => Inv

\* The invariant holds at the start.
LEMMA InitIInv == ASSUME Init PROVE IInv
  <1>1. open = <<>> /\ closed = <<>> /\ Len(open) = 0 /\ Len(closed) = 0 /\ day = 1 /\ sent = 0 /\ faults = 0
        /\ band = [side |-> "SELL", fresh |-> FALSE]
    BY DEF Init
  <1>2. \A o : ~Among(o, open) /\ ~Among(o, closed)
    BY <1>1 DEF Among
  <1>3. TypeInv /\ BandInv
    BY <1>1 DEF TypeInv, BandInv, Sides
  <1>4. OrdersInv
    BY <1>1, <1>2 DEF OrdersInv, Ascending
  <1>5. Sole /\ SameSide /\ DailySide /\ OneEach /\ NoneRefused
    BY <1>1, <1>2 DEF Sole, SameSide, DailySide, OneEach, NoneRefused
  <1>6. Gone /\ DayGap /\ Timely /\ PartsOfADay /\ ThreeAtMost /\ Rest
    BY <1>1, <1>2 DEF Gone, DayGap, Timely, PartsOfADay, ThreeAtMost, Rest
  <1>7. InForOne /\ Dated /\ AgedOut
    BY <1>1, <1>2 DEF InForOne, Dated, AgedOut
  <1> QED
    BY <1>3, <1>4, <1>5, <1>6, <1>7 DEF IInv, Inv

\* The strategy never changes.
LEMMA ScopeStays ==
    ASSUME Next
    PROVE  mode' = mode /\ (InScope' <=> InScope)
  <1>1. mode' = mode
    <2>1. ASSUME AutoBBSBar PROVE mode' = mode
      BY <2>1 DEF AutoBBSBar
    <2>2. ASSUME StrategyBar PROVE mode' = mode
      BY <2>2 DEF StrategyBar
    <2>3. ASSUME LimitBar PROVE mode' = mode
      BY <2>3 DEF LimitBar
    <2>4. ASSUME EntriesReached \/ MarketCloses \/ StateLost \/ NextPhase PROVE mode' = mode
      BY <2>4 DEF EntriesReached, MarketCloses, StateLost, NextPhase
    <2> QED
      BY <2>1, <2>2, <2>3, <2>4 DEF Next
  <1> QED
    BY <1>1 DEF InScope

\* The strategies of the parts of the invariant are different ones.
LEMMA ModesApart ==
    /\ mode \in AutoBBSModes => mode \notin OpenOrUpdate /\ mode \notin Banded /\ mode # "BuDan"
    /\ mode \in OpenOrUpdate \cup Banded =>
          mode \notin SoleModes /\ mode \notin SidedModes /\ mode \notin OrderADayModes
                  /\ mode \notin BEILIModes
    /\ InScope => mode \notin LimitModes
  BY DEF AutoBBSModes, DayTrading, TrendFollowing, BoDuanModes, MACD_DailyModes, OrderADayModes, SwingModes,
         MultipleDayModes, BEILIModes, OpenOrUpdate, Timed, Banded, SoleModes, SidedModes, InScope

\* A bar of AutoBBS keeps the invariant.
LEMMA AutoBBSKeeps == ASSUME InScope, Inv, AutoBBSBar PROVE Inv'
  <1>1. /\ TypeInv /\ OrdersInv /\ Gone /\ Sole /\ SameSide /\ mode \in AutoBBSModes
        /\ DayGap /\ Timely /\ PartsOfADay /\ ThreeAtMost /\ Rest
    BY DEF Inv, AutoBBSBar
  <1>2. PICK res \in Arrays : \E done, closes, side :
           BarIs(res, done, closes) /\ (mode \in OneSidedModes => BarFits(res, side)) /\ SpareBar(res)
    BY <1>1, AutoBBSSteps
  <1>3. PICK done, closes, side : BarIs(res, done, closes) /\ (mode \in OneSidedModes => BarFits(res, side))
          /\ SpareBar(res)
    BY <1>2
  <1>4. mode' = mode /\ day' = day /\ band' = band
    BY DEF AutoBBSBar
  <1>5. TypeInv' /\ OrdersInv'
    BY <1>1, <1>3, <1>4, BarKeeps
  <1>6. mode \in SoleModes \cup SidedModes => mode \in OneSidedModes
    BY DEF SoleModes, SidedModes, OneSidedModes, OneSidedSwings, SwingModes, TrendFollowing, MultipleDayModes
  <1>7. Sole'
    <2>1. mode \in SoleModes => ToOpen(res) = {} \/ (open = <<>>
            /\ \E m \in Nat : ToOpen(res) \subseteq (m + 1)..(m + 1))
      BY <1>3, <1>6 DEF BarFits
    <2> QED
      BY <1>1, <1>3, <1>4, <2>1, SoleBar
  <1>8. SameSide'
    <2>1. mode \in SidedModes => ToOpen(res) = {} \/ (TurnsTo(res, side) /\ \A o : Among(o, open)
            => o.type = side)
      BY <1>3, <1>6 DEF BarFits
    <2> QED
      BY <1>1, <1>3, <1>4, <2>1, SameSideBar
  <1>9. DailySide' /\ OneEach' /\ NoneRefused' /\ BandInv'
    BY <1>1, <1>4, ModesApart DEF Inv, DailySide, OneEach, NoneRefused, BandInv
  <1>11. InForOne' /\ Dated' /\ AgedOut'
    BY <1>1, <1>4, ModesApart DEF Inv, InForOne, Dated, AgedOut, Calm
  <1>10. Gone' /\ DayGap' /\ Timely' /\ PartsOfADay' /\ ThreeAtMost' /\ Rest'
    BY <1>1, <1>3, <1>4, GoneBar, DayBar, CountBar, RestBar
  <1> QED
    BY <1>5, <1>7, <1>8, <1>9, <1>10, <1>11 DEF Inv

\* A bar of another strategy keeps it.
LEMMA StrategyKeeps == ASSUME InScope, Inv, StrategyBar PROVE Inv'
  <1>1. TypeInv /\ OrdersInv /\ OneEach /\ NoneRefused /\ BandInv /\ DailySide
          /\ mode \in OpenOrUpdate \cup Banded
    BY DEF Inv, StrategyBar
  <1>2. PICK run, done, closes : RunIs(run, done, closes)
    BY <1>1, TimeIsKnown, StrategySteps DEF Inv
  <1> DEFINE res == run.res
  <1>3. res \in Arrays /\ BarIs(res, done, closes) /\ ResultsFit(res)
    BY <1>2 DEF RunIs, RunFits
  <1> HIDE DEF res
  <1>4. mode' = mode /\ day' = day /\ band' = band
    BY DEF StrategyBar
  <1>5. TypeInv' /\ OrdersInv'
    BY <1>1, <1>3, <1>4, BarKeeps
  <1>6. Sole' /\ SameSide' /\ BandInv'
    BY <1>1, <1>4, ModesApart DEF Sole, SameSide, BandInv
  <1>7. DailySide' /\ OneEach' /\ NoneRefused'
    BY <1>1, <1>3, <1>4, DailySideBar, OneEachBar, NoneRefusedBar
  <1>8. Gone'
    BY <1>1, <1>3, GoneBar DEF Inv
  <1>10. InForOne' /\ Dated' /\ AgedOut'
    BY <1>1, <1>2, <1>4, InForOneBar, DatedBar, AgedOutBar DEF Inv
  <1>9. DayGap' /\ Timely' /\ PartsOfADay' /\ ThreeAtMost' /\ Rest'
    BY <1>1, <1>4, ModesApart, SplitsOfDay DEF DayGap, Timely, PartsOfADay, ThreeAtMost, SidedModes, Rest
  <1> QED
    BY <1>5, <1>6, <1>7, <1>8, <1>9, <1>10 DEF Inv

\* An order of BEILI that the market closes is the last one sent.
LEMMA RestMarket ==
    ASSUME TypeInv, OrdersInv, Sole, Timely, Rest, NEW n \in DOMAIN open, NEW outcome,
           CloseAs(open[n], outcome) \in Order, Became(CloseAs(open[n], outcome), open[n]),
           closed' = Append(closed, CloseAs(open[n], outcome)), closed' \in Seq(Order),
           \A o : Among(o, closed') => Among(o, closed) \/ o = CloseAs(open[n], outcome),
           \A o : Among(o, open') => Among(o, open), mode' = mode, day' = day
    PROVE  Rest'
  <1> SUFFICES ASSUME mode \in BEILIModes PROVE Rest'
    BY DEF Rest
  <1> DEFINE q == CloseAs(open[n], outcome)
             came == {o \in Order : Among(o, open) \/ Among(o, closed)}
             ended == {open[n]}
  <1>1. /\ open \in Seq(Order) /\ closed \in Seq(Order) /\ open[n] \in Order /\ Among(open[n], open)
        /\ n \in 1..Len(open)
    BY DEF TypeInv, Among
  <1>2. q.ticket = open[n].ticket /\ q.day = open[n].day
    BY DEF Became
  <1>3. closed'[Len(closed')] = q
    <2> HIDE DEF q
    <2>1. closed' = Append(closed, q)
      BY DEF q
    <2> QED
      BY <2>1, <1>1
  <1> HIDE DEF q
  <1>4. \A o \in Order : o.ticket \in Nat
    BY DEF Order
  <1>5. /\ mode \in SoleModes /\ Len(open) <= 1 /\ \A o, p : Among(o, open) /\ Among(p, closed) => p.at < o.at
        /\ \A o : Among(o, open) \/ Among(o, closed) => o.at = o.ticket /\ o.day <= day
    BY DEF SoleModes, Sole, Timely
  <1>6. \A o, p : Among(o, open) /\ Among(p, closed) => p.ticket < o.ticket
    BY <1>5
  <1>7. \A o : Among(o, open) => o = open[n]
    <2> SUFFICES ASSUME NEW o, Among(o, open) PROVE o = open[n]
      OBVIOUS
    <2>1. PICK k \in 1..Len(open) : open[k] = o
      BY DEF Among
    <2>2. n = k
      BY <1>1, <1>5
    <2> QED
      BY <2>1, <2>2
  <1>8. came \in SUBSET Order /\ ended \in SUBSET came
    BY <1>1
  <1>9. ASSUME NEW p, Among(p, open') \/ Among(p, closed')
        PROVE  \E e \in came : e.ticket = p.ticket /\ e.day = p.day
    <2>1. CASE Among(p, open) \/ Among(p, closed)
      <3>1. p \in came
        BY <1>1, <2>1 DEF Among
      <3> QED
        BY <3>1
    <2>2. CASE p = q
      BY <2>2, <1>2, <1>8
    <2> QED
      BY <1>9, <2>1, <2>2 DEF q
  <1>10. \A e \in came : \A o : Among(o, closed) /\ o.ticket < e.ticket => o.until < e.day
    BY DEF Rest
  <1>11. ASSUME NEW e \in came, NEW o \in ended PROVE e.ticket <= o.ticket
    <2>1. e.ticket \in Nat /\ o.ticket \in Nat /\ Among(o, open)
      BY <1>1, <1>4
    <2>2. e.ticket = o.ticket \/ e.ticket < o.ticket
      BY <1>6, <1>7, <2>1
    <2> QED
      BY <2>1, <2>2
  <1>12. \A o \in ended : \A p : Among(p, closed) => p.ticket < o.ticket
    BY <1>1, <1>6
  <1>13. \A o \in ended : o.day <= day
    BY <1>1, <1>5
  <1>14. \A p : Among(p, closed') => Among(p, closed) \/ \E o \in ended : Became(p, o)
    BY DEF q
  <1>15. closed' = closed \/ \E o \in ended : Became(closed'[Len(closed')], o)
    BY <1>3 DEF q
  <1> HIDE DEF came, ended
  <1> QED
    BY <1>8, <1>9, <1>10, <1>11, <1>12, <1>13, <1>14, <1>15, RestStays

\* An order that is closed by the market keeps it.
LEMMA MarketKeeps == ASSUME InScope, Inv, MarketCloses PROVE Inv'
  <1>1. PICK n \in DOMAIN open, outcome \in Outcomes :
           closed' = Append(closed, CloseAs(open[n], outcome)) /\ open' = Drop(open, {open[n].ticket})
    BY DEF MarketCloses
  <1>2. /\ open \in Seq(Order) /\ closed \in Seq(Order) /\ day \in Nat /\ Ascending(open)
        /\ \A o : Among(o, open) => o.ticket <= sent /\ o.at <= sent /\ o.result = "open"
        /\ \A o : Among(o, closed) => o.ticket <= sent /\ o.at <= sent /\ o.result # "open"
        /\ mode' = mode /\ day' = day /\ sent' = sent /\ faults' = faults /\ band' = band
    BY DEF Inv, TypeInv, OrdersInv, MarketCloses
  <1>3. open[n] \in Order /\ Among(open[n], open)
    BY <1>2 DEF Among
  <1>4. CloseAs(open[n], outcome) \in Order /\ CloseAs(open[n], outcome).ticket = open[n].ticket
        /\ CloseAs(open[n], outcome).at = open[n].at /\ CloseAs(open[n], outcome).result # "open"
        /\ CloseAs(open[n], outcome).day = open[n].day /\ Became(CloseAs(open[n], outcome), open[n])
    BY <1>2, <1>3, CloseAsIs DEF Became
  <1>5. /\ closed' \in Seq(Order)
        /\ \A o : Among(o, closed') => Among(o, closed) \/ o = CloseAs(open[n], outcome)
    BY <1>1, <1>2, <1>4, AmongAppend
  <1>6. /\ open' \in Seq(Order) /\ Ascending(open')
        /\ \A o : Among(o, open') => Among(o, open) /\ o.ticket # open[n].ticket
        /\ Len(open') <= Len(open)
    BY <1>1, <1>2, KeepDrop
  <1>7. TypeInv'
    BY <1>2, <1>5, <1>6 DEF Inv, TypeInv
  <1>8. OrdersInv'
    BY <1>2, <1>3, <1>4, <1>5, <1>6 DEF OrdersInv
  <1>9. SameSide' /\ DailySide' /\ OneEach' /\ BandInv'
    BY <1>2, <1>6 DEF Inv, SameSide, DailySide, OneEach, BandInv
  <1>10. Sole'
    <2> SUFFICES ASSUME mode \in SoleModes PROVE Len(open') <= 1 /\ \A o : ~Among(o, open')
      BY <1>2 DEF Sole
    <2>1. Len(open) <= 1 /\ Len(open) \in Nat /\ Len(open') \in Nat
      BY <1>2, <1>6 DEF Inv, Sole
    <2>2. Len(open') <= 1
      BY <2>1, <1>6
    <2>3. ASSUME NEW o, Among(o, open') PROVE FALSE
      <3>1. Among(o, open) /\ o.ticket # open[n].ticket
        BY <1>6, <2>3
      <3>2. PICK k \in 1..Len(open) : open[k] = o
        BY <3>1 DEF Among
      <3>3. n \in 1..Len(open)
        BY <1>2
      <3>4. k = n
        BY <2>1, <3>2, <3>3
      <3> QED
        BY <3>1, <3>2, <3>4
    <2> QED
      BY <2>2, <2>3
  <1>11. Gone'
    BY <1>2, <1>4, <1>5, <1>6 DEF Inv, Gone
  <1>12. \A p : Among(p, open') \/ Among(p, closed') =>
            \E o : (Among(o, open) \/ Among(o, closed)) /\ o.ticket = p.ticket /\ o.at = p.at /\ o.day = p.day
    BY <1>3, <1>4, <1>5, <1>6
  <1>13. Timely'
    <2> SUFFICES ASSUME mode \in OrderADayModes \cup BEILIModes, NEW p, Among(p, open') \/ Among(p, closed')
                 PROVE  p.at = p.ticket /\ p.day <= day
      BY <1>2 DEF Timely
    <2>1. PICK o : (Among(o, open) \/ Among(o, closed)) /\ o.ticket = p.ticket /\ o.at = p.at /\ o.day = p.day
      BY <1>12
    <2>2. o.at = o.ticket /\ o.day <= day
      BY <2>1 DEF Inv, Timely
    <2> QED
      BY <2>1, <2>2
  <1>14. DayGap'
    <2> SUFFICES ASSUME mode \in OrderADayModes, NEW o, NEW p, Among(o, open'),
                        Among(p, open') \/ Among(p, closed'), o.ticket < p.ticket
                 PROVE  o.day < p.day
      BY <1>2 DEF DayGap
    <2>1. PICK e : (Among(e, open) \/ Among(e, closed)) /\ e.ticket = p.ticket /\ e.at = p.at /\ e.day = p.day
      BY <1>12
    <2>2. Among(o, open)
      BY <1>6
    <2>3. o.day < e.day
      BY <2>1, <2>2 DEF Inv, DayGap
    <2> QED
      BY <2>1, <2>3
  <1>15. PartsOfADay' /\ ThreeAtMost'
    <2>1. Len(open) \in Nat /\ Len(open') \in Nat
      BY <1>2, <1>6
    <2>2. PartsOfADay /\ ThreeAtMost
      BY DEF Inv
    <2>3. Len(open) <= 2 => Len(open') <= 2
      BY <1>6, <2>1
    <2>4. Len(open) <= 3 => Len(open') <= 3
      BY <1>6, <2>1
    <2> QED
      BY <1>2, <1>6, <2>2, <2>3, <2>4 DEF PartsOfADay, ThreeAtMost
  <1>16. NoneRefused'
    <2>1. Len(open) \in Nat /\ Len(open') \in Nat
      BY <1>2, <1>6
    <2> QED
      BY <1>2, <1>6, <2>1 DEF Inv, NoneRefused
  <1>17. Rest'
    BY <1>1, <1>2, <1>4, <1>5, <1>6, RestMarket DEF Inv
  <1>18. InForOne' /\ Dated' /\ AgedOut'
    <2>1. signalled' = signalled /\ updated' = updated
      BY DEF MarketCloses
    <2> QED
      BY <2>1, <1>2, <1>6 DEF Inv, InForOne, Dated, AgedOut, Calm
  <1> QED
    BY <1>7, <1>8, <1>9, <1>10, <1>11, <1>13, <1>14, <1>15, <1>16, <1>17, <1>18 DEF Inv

\* So do a lost state and the passing of time.
LEMMA OthersKeep == ASSUME InScope, Inv, StateLost \/ NextPhase PROVE Inv'
  <1>1. /\ mode' = mode /\ open' = open /\ closed' = closed /\ sent' = sent
        /\ day' \in {day, day + 1} /\ faults' \in {faults, faults + 1}
        /\ band' = band \/ band' \in NextBand
    BY DEF StateLost, NextPhase
  <1>2. TypeInv'
    BY <1>1 DEF Inv, TypeInv
  <1>3. OrdersInv' /\ Sole' /\ SameSide' /\ DailySide' /\ OneEach'
    BY <1>1 DEF Inv, OrdersInv, Sole, SameSide, DailySide, OneEach
  <1>7. NoneRefused'
    BY <1>1 DEF Inv, TypeInv, NoneRefused
  <1>8. Rest'
    <2> SUFFICES ASSUME mode \in BEILIModes, NEW p, Among(p, closed) PROVE p.until <= day'
      BY <1>1 DEF Inv, Rest
    <2>1. p.until <= day /\ p \in Order /\ day \in Nat
      BY DEF Inv, Rest, TypeInv, Among
    <2>2. p.until \in Nat
      BY <2>1 DEF Order
    <2> QED
      BY <1>1, <2>1, <2>2
  <1>5. Gone' /\ DayGap' /\ PartsOfADay' /\ ThreeAtMost'
    BY <1>1 DEF Inv, Gone, DayGap, PartsOfADay, ThreeAtMost
  <1>6. Timely'
    <2> SUFFICES ASSUME mode \in OrderADayModes \cup BEILIModes, NEW p, Among(p, open) \/ Among(p, closed)
                 PROVE  p.at = p.ticket /\ p.day <= day'
      BY <1>1 DEF Timely
    <2>1. p.at = p.ticket /\ p.day <= day
      BY DEF Inv, Timely
    <2>2. p \in Order /\ day \in Nat
      BY DEF Inv, TypeInv, Among
    <2>3. p.day \in Nat
      BY <2>2 DEF Order
    <2> QED
      BY <1>1, <2>1, <2>2, <2>3
  <1>9. InForOne' /\ Dated' /\ AgedOut'
    <2>1. \/ signalled' = signalled /\ faults' = faults + 1 /\ day' = day
          \/ signalled' = "unseen" /\ updated' = updated
      <3>1. ASSUME StateLost PROVE signalled' = signalled /\ faults' = faults + 1 /\ day' = day
        BY <3>1 DEF StateLost
      <3>2. ASSUME NextPhase PROVE signalled' = "unseen" /\ updated' = updated
        BY <3>2 DEF NextPhase
      <3> QED
        BY <3>1, <3>2
    <2>2. "unseen" \notin Sides /\ faults \in Nat /\ day \in Nat
      BY DEF Sides, Inv, TypeInv
    <2>3. InForOne'
      BY <1>1, <2>1, <2>2 DEF Inv, InForOne
    <2>4. day' # 0 /\ (Calm' => Calm /\ updated' = updated /\ signalled' = "unseen")
      BY <1>1, <2>1, <2>2 DEF Inv, Dated, Calm
    <2> QED
      BY <1>1, <2>3, <2>4 DEF Inv, Dated, AgedOut
  <1>4. BandInv'
    <2>1. band.side \in Sides /\ Other(band.side) \in Sides
      BY DEF Inv, BandInv, Other, Sides
    <2> QED
      BY <1>1, <2>1 DEF NextBand, BandInv
  <1> QED
    BY <1>2, <1>3, <1>4, <1>5, <1>6, <1>7, <1>8, <1>9 DEF Inv

\* The invariant is inductive.
LEMMA NextIInv == ASSUME IInv, [Next]_vars PROVE IInv'
  <1> SUFFICES ASSUME Next PROVE IInv'
    BY DEF IInv, Inv, InScope, TypeInv, OrdersInv, Gone, Sole, SameSide, DayGap, Timely, PartsOfADay,
            ThreeAtMost,
           Rest, DailySide, OneEach, NoneRefused, InForOne, Dated, AgedOut, Calm, BandInv, vars
  <1> SUFFICES ASSUME InScope PROVE Inv'
    BY ScopeStays DEF IInv
  <1>1. Inv /\ mode \notin LimitModes
    BY ModesApart DEF IInv
  <1>2. ~LimitBar /\ ~EntriesReached
    BY <1>1 DEF LimitBar, EntriesReached
  <1> QED
    BY <1>1, <1>2, AutoBBSKeeps, StrategyKeeps, MarketKeeps, OthersKeep DEF Next

(***************************************************************************)
(* The inductive invariant of the strategies: tickets ascend and what was  *)
(* closed is not open; the modes with one position have at most one order, *)
(* opened after all that were closed; in the modes with an order a day an  *)
(* open order is of an earlier day than any later one, open or closed, and *)
(* UpToThree hold three at most (with three orders shown); MultipleDay and *)
(* MultipleDay_V2 hold one side, and the second two parts of one day;      *)
(* BEILI sends nothing on the day of a close; openOrUpdateLongTrade and    *)
(* its like leave one order on each side (with two orders shown), one in   *)
(* all as long as no call was refused; BuDan holds the side it is set to.  *)
(***************************************************************************)
THEOREM StrategyInvariant == Spec => []IInv
  <1>1. Init => IInv
    BY InitIInv
  <1>2. IInv /\ [Next]_vars => IInv'
    BY NextIInv
  <1> QED
    BY <1>1, <1>2, PTL DEF Spec

OneSidedStep ==
    sent' # sent /\ faults' = faults /\ Len(open) <= OrderInfoSize
    /\ mode \in (TrendFollowing \ {"Ichimoko_Daily_V2"}) \cup OneSidedSwings \cup MultipleDayModes
               \cup OpenOrUpdate \cup Banded
    => \A n, k \in DOMAIN open' : open'[n].type = open'[k].type

\* A step is one-sided when the invariant holds before it.
LEMMA OneSidedNext == ASSUME IInv, Next PROVE OneSidedStep
  <1> SUFFICES ASSUME sent' # sent, faults' = faults, Len(open) <= OrderInfoSize,
                      mode \in OneSidedModes \cup OpenOrUpdate \cup Banded
               PROVE  \A n, k \in DOMAIN open' : open'[n].type = open'[k].type
    BY DEF OneSidedStep, OneSidedModes
  <1>1. InScope
    BY DEF InScope, OneSidedModes, OneSidedSwings, AutoBBSModes, DayTrading, TrendFollowing, BoDuanModes,
           MACD_DailyModes, OrderADayModes, SwingModes, MultipleDayModes, BEILIModes, OpenOrUpdate, Timed,
                   Banded,
           LimitModes
  <1>2. Inv /\ TypeInv /\ OrdersInv
    BY <1>1 DEF IInv, Inv
  <1>3. ASSUME AutoBBSBar PROVE \A n, k \in DOMAIN open' : open'[n].type = open'[k].type
    <2>1. mode \in AutoBBSModes /\ day' = day /\ Sole /\ SameSide /\ DayGap /\ Timely /\ Gone /\ Rest
      BY <1>2, <1>3 DEF AutoBBSBar, Inv
    <2>2. PICK res \in Arrays : \E done, closes, side :
             BarIs(res, done, closes) /\ (mode \in OneSidedModes => BarFits(res, side))
      BY <1>2, <1>3, <2>1, AutoBBSSteps
    <2>3. PICK done, closes, side : BarIs(res, done, closes) /\ (mode \in OneSidedModes => BarFits(res, side))
      BY <2>2
    <2>4. mode \in OneSidedModes
      BY <2>1 DEF OneSidedModes, AutoBBSModes, DayTrading, TrendFollowing, BoDuanModes, MACD_DailyModes,
                  OrderADayModes, SwingModes, MultipleDayModes, BEILIModes, OpenOrUpdate, Timed, Banded
    <2>5. ToOpen(res) = {} \/ TurnsTo(res, side)
      BY <2>3, <2>4 DEF BarFits
    <2> QED
      BY <1>2, <2>1, <2>3, <2>5, SideOfBar
  <1>4. ASSUME StrategyBar PROVE \A n, k \in DOMAIN open' : open'[n].type = open'[k].type
    <2>1. OneEach /\ BandInv /\ DailySide /\ TimeKnown /\ day' = day
      BY <1>2, <1>4, TimeIsKnown DEF StrategyBar, Inv
    <2>2. PICK run, done, closes : RunIs(run, done, closes)
      BY <1>2, <1>4, <2>1, StrategySteps
    <2>3. run.res \in Arrays /\ BarIs(run.res, done, closes) /\ ResultsFit(run.res)
      BY <2>2 DEF RunIs, RunFits
    <2>4. PICK side : ToOpen(run.res) = {} \/ TurnsTo(run.res, side)
      BY <2>3 DEF ResultsFit, EntryFits
    <2> QED
      BY <1>2, <2>1, <2>3, <2>4, SideOfBar
  <1>5. ~LimitBar
    BY <1>1, ModesApart DEF LimitBar
  <1>6. ~EntriesReached /\ ~MarketCloses /\ ~StateLost /\ ~NextPhase
    BY DEF EntriesReached, MarketCloses, StateLost, NextPhase
  <1> QED
    BY <1>3, <1>4, <1>5, <1>6 DEF Next

(***************************************************************************)
(* When a strategy sent an order, no call of the broker was refused and it *)
(* was shown all open orders, all orders are on one side afterwards        *)
(* (handleTradeExits before handleTradeEntries, openOrUpdateLongTrade and  *)
(* its like, closeAllShorts and openSingleLongEasy): for every mode and    *)
(* strategy the property names, every parameter and every size of the      *)
(* arrays, the results array running out of free results included.         *)
(***************************************************************************)
THEOREM StrategiesOneSided == Spec => OneSided
  <1>1. IInv /\ [Next]_vars => [OneSidedStep]_vars
    BY OneSidedNext
  <1>2. Spec => [][OneSidedStep]_vars
    BY <1>1, StrategyInvariant, PTL DEF Spec
  <1>3. [][OneSidedStep]_vars => OneSided
    BY DEF OneSided, OneSidedStep
  <1> QED
    BY <1>2, <1>3, PTL

\* The modes for which the limits of the positions are proved, and the sizes they need.
HoldsFew ==
    \/ mode \in SoleModes \cup {"MultipleDay_V2"} \cup (OrderADayModes \ UpToThree)
    \/ mode \in UpToThree /\ OrderInfoSize >= 3
    \/ mode \in OpenOrUpdate \ {"Atipaq"} /\ OrderInfoSize >= 2

\* The orders of a sequence, by their places.
LEMMA AmongPlaces ==
    ASSUME TypeInv
    PROVE  /\ DOMAIN open = 1..Len(open) /\ Len(open) \in Nat
           /\ \A n \in DOMAIN open : Among(open[n], open) /\ open[n] \in Order
           /\ \A o \in ToSet(closed) : Among(o, closed)
           /\ \A o \in ToSet(open \o closed) : Among(o, open) \/ Among(o, closed)
  <1>1. /\ open \in Seq(Order) /\ closed \in Seq(Order) /\ DOMAIN open = 1..Len(open)
        /\ DOMAIN closed = 1..Len(closed) /\ Len(open) \in Nat /\ Len(closed) \in Nat
    BY DEF TypeInv
  <1>2. \A o \in ToSet(closed) : Among(o, closed)
    BY <1>1 DEF ToSet, Among
  <1> DEFINE all == open \o closed
  <1>3. /\ DOMAIN all = 1..(Len(open) + Len(closed))
        /\ \A n \in 1..(Len(open) + Len(closed)) :
              all[n] = IF n <= Len(open) THEN open[n] ELSE closed[n - Len(open)]
    BY <1>1
  <1> HIDE DEF all
  <1>4. ASSUME NEW o \in ToSet(all) PROVE Among(o, open) \/ Among(o, closed)
    <2>1. PICK n \in 1..(Len(open) + Len(closed)) : all[n] = o
      BY <1>3 DEF ToSet
    <2>2. CASE n <= Len(open)
      BY <2>1, <2>2, <1>1, <1>3 DEF Among
    <2>3. CASE ~(n <= Len(open))
      <3>1. n - Len(open) \in 1..Len(closed)
        BY <2>3, <1>1
      <3> QED
        BY <3>1, <2>1, <2>3, <1>3 DEF Among
    <2> QED
      BY <2>2, <2>3
  <1> QED
    BY <1>1, <1>2, <1>4 DEF Among, all

\* What the invariant says of the places of open.
LEMMA PositionsOf ==
    ASSUME Inv
    PROVE  /\ mode \in OrderADayModes => \A n, k \in DOMAIN open : open[n].day = open[k].day => n = k
           /\ mode \in SoleModes => Len(open) <= 1
           /\ mode = "MultipleDay_V2" => Len(open) <= 2 /\ \A n, k \in DOMAIN open : open[n].day = open[k].day
           /\ mode \in BEILIModes =>
                 \A o \in ToSet(closed), p \in ToSet(open \o closed) : p.ticket > o.ticket => p.day # o.until
           /\ mode \in OpenOrUpdate /\ OrderInfoSize >= 2 =>
                 Len(open) <= 1 + faults /\ \A n, k \in DOMAIN open : open[n].type = open[k].type => n = k
  <1>1. /\ DOMAIN open = 1..Len(open) /\ Len(open) \in Nat
        /\ \A n \in DOMAIN open : Among(open[n], open) /\ open[n] \in Order
        /\ \A o \in ToSet(closed) : Among(o, closed)
        /\ \A o \in ToSet(open \o closed) : Among(o, open) \/ Among(o, closed)
    BY AmongPlaces DEF Inv
  <1>2. \A o \in Order : o.ticket \in Nat /\ o.day \in Nat /\ o.until \in Nat
    BY DEF Order
  <1>3. \A n, k \in DOMAIN open : n < k => open[n].ticket < open[k].ticket
    BY <1>1 DEF Inv, OrdersInv, Ascending
  <1>4. ASSUME mode \in OrderADayModes, NEW n \in DOMAIN open, NEW k \in DOMAIN open, open[n].day = open[k].day
        PROVE  n = k
    <2>1. \A o, p : Among(o, open) /\ Among(p, open) /\ o.ticket < p.ticket => o.day < p.day
      BY <1>4 DEF Inv, DayGap
    <2>2. ~(n < k) /\ ~(k < n)
      BY <2>1, <1>1, <1>2, <1>3, <1>4
    <2> QED
      BY <2>2, <1>1
  <1>5. ASSUME mode \in BEILIModes, NEW o \in ToSet(closed), NEW p \in ToSet(open \o closed),
          p.ticket > o.ticket
        PROVE  p.day # o.until
    <2>1. Among(o, closed) /\ (Among(p, open) \/ Among(p, closed)) /\ o \in Order /\ p \in Order
      BY <1>1 DEF Among, Inv, TypeInv
    <2>2. o.ticket < p.ticket
      BY <2>1, <1>2, <1>5
    <2>3. o.until < p.day
      BY <2>1, <2>2, <1>5 DEF Inv, Rest
    <2> QED
      BY <2>1, <2>3, <1>2
  <1>6. ASSUME mode \in OpenOrUpdate, OrderInfoSize >= 2
        PROVE  /\ Len(open) <= 1 + faults
               /\ \A n, k \in DOMAIN open : open[n].type = open[k].type => n = k
    <2>1. \A n, k \in DOMAIN open : open[n].type = open[k].type => open[n] = open[k]
      BY <1>1, <1>6 DEF Inv, OneEach
    <2>2. \A n, k \in DOMAIN open : open[n].type = open[k].type => n = k
      <3> SUFFICES ASSUME NEW n \in DOMAIN open, NEW k \in DOMAIN open, open[n].type = open[k].type PROVE n = k
        OBVIOUS
      <3>1. open[n] = open[k] /\ open[n].ticket \in Nat
        BY <2>1, <1>1, <1>2
      <3>2. ~(n < k) /\ ~(k < n)
        BY <3>1, <1>3
      <3> QED
        BY <3>2, <1>1
    <2>3. Len(open) <= 2 /\ faults \in Nat
      BY <1>6, TwoOrders DEF Inv, TypeInv
    <2>4. faults = 0 => Len(open) <= 1
      BY <1>6 DEF Inv, NoneRefused
    <2> QED
      BY <2>2, <2>3, <2>4, <1>1
  <1>7. mode = "MultipleDay_V2" => Len(open) <= 2 /\ \A n, k \in DOMAIN open : open[n].day = open[k].day
    BY <1>1 DEF Inv, PartsOfADay
  <1>8. mode \in SoleModes => Len(open) <= 1
    BY DEF Inv, Sole
  <1> QED
    BY <1>4, <1>5, <1>6, <1>7, <1>8

\* The limits follow from the invariant.
LEMMA FewPositions == ASSUME Inv, HoldsFew PROVE PositionLimits
  <1> DEFINE day1 == \A n, k \in DOMAIN open : open[n].day = open[k].day => n = k
             days == \A n, k \in DOMAIN open : open[n].day = open[k].day
             types == \A n, k \in DOMAIN open : open[n].type = open[k].type => n = k
             rest == \A o \in ToSet(closed), p \in ToSet(open \o closed) : p.ticket > o.ticket
                     => p.day # o.until
  <1>1. /\ mode \in OrderADayModes => day1
        /\ mode \in SoleModes => Len(open) <= 1
        /\ mode = "MultipleDay_V2" => Len(open) <= 2 /\ days
        /\ mode \in BEILIModes => rest
        /\ mode \in OpenOrUpdate /\ OrderInfoSize >= 2 => Len(open) <= 1 + faults /\ types
    BY PositionsOf
  <1>2. mode \in UpToThree /\ OrderInfoSize >= 3 => Len(open) <= 3
    BY DEF Inv, ThreeAtMost
  <1> HIDE DEF day1, days, types, rest
  <1>3. CASE mode \in SoleModes
    <2>1. /\ mode \in BEILIModes => mode \notin {"MACD_Weekly", "4H_Shellington", "ShortTerm", "Limit_BBS"}
          /\ mode \notin OrderADayModes \cup BoDuanModes \cup LimitModes \cup OpenOrUpdate
          /\ mode \notin {"Ichimoko_Daily_Index", "Ichimoko_Daily_New", "Ichimoko_Daily_Index_Regression_Test",
                          "Limit_BBS_LongTerm", "BBS_4HSwing", "WeeklyAuto", "Auto", "ATR_Hedge", "MultipleDay",
                          "MultipleDay_V2", "TestEA", "BBS", "Atipaq"}
      BY <1>3 DEF SoleModes, BEILIModes, OrderADayModes, BoDuanModes, LimitModes, OpenOrUpdate, Timed
    <2> QED
      BY <1>1, <1>3, <2>1 DEF PositionLimits, rest
  <1>4. CASE mode = "MultipleDay_V2"
    <2>1. mode \notin OrderADayModes \cup BoDuanModes \cup LimitModes \cup OpenOrUpdate \cup BEILIModes
      BY <1>4 DEF BEILIModes, OrderADayModes, BoDuanModes, LimitModes, OpenOrUpdate, Timed
    <2> QED
      BY <1>1, <1>4, <2>1 DEF PositionLimits, days
  <1>5. CASE mode \in OrderADayModes /\ (mode \in UpToThree => OrderInfoSize >= 3)
    <2>1. /\ mode \notin BoDuanModes \cup LimitModes \cup OpenOrUpdate \cup BEILIModes
          /\ mode \notin {"MACD_Weekly", "4H_Shellington", "ShortTerm", "Limit_BBS",
                          "Limit_BBS_LongTerm", "BBS_4HSwing", "WeeklyAuto", "Auto", "ATR_Hedge", "MultipleDay",
                          "MultipleDay_V2", "TestEA", "BBS", "Atipaq"}
      BY <1>5 DEF BEILIModes, OrderADayModes, BoDuanModes, LimitModes, OpenOrUpdate, Timed
    <2> QED
      BY <1>1, <1>2, <1>5, <2>1 DEF PositionLimits, day1, UpToThree
  <1>6. CASE mode \in OpenOrUpdate \ {"Atipaq"} /\ OrderInfoSize >= 2
    <2>1. /\ mode \notin BoDuanModes \cup LimitModes \cup OrderADayModes \cup BEILIModes
          /\ mode \notin {"Ichimoko_Daily_Index", "Ichimoko_Daily_New", "Ichimoko_Daily_Index_Regression_Test",
                          "MACD_Weekly", "4H_Shellington", "ShortTerm", "Limit_BBS",
                          "Limit_BBS_LongTerm", "BBS_4HSwing", "WeeklyAuto", "Auto", "ATR_Hedge", "MultipleDay",
                          "MultipleDay_V2", "TestEA", "BBS", "Atipaq"}
      BY <1>6 DEF BEILIModes, OrderADayModes, BoDuanModes, LimitModes, OpenOrUpdate, Timed
    <2> QED
      BY <1>1, <1>6, <2>1 DEF PositionLimits, types
  <1> QED
    BY <1>3, <1>4, <1>5, <1>6 DEF HoldsFew, UpToThree, OrderADayModes

(***************************************************************************)
(* The limits of the positions, at every size of the arrays the limit can  *)
(* be kept at: a single position, an order a day and no more than three of *)
(* them, no entry on the day BEILI closed, two parts of one entry of       *)
(* MultipleDay_V2, one order and one more for each refused call where a    *)
(* strategy opens or updates.                                              *)
(***************************************************************************)
THEOREM StrategyPositions == Spec => [](HoldsFew => PositionLimits)
  <1>1. IInv => (HoldsFew => PositionLimits)
    <2> SUFFICES ASSUME IInv, HoldsFew PROVE PositionLimits
      OBVIOUS
    <2>1. InScope
      BY DEF HoldsFew, InScope, SoleModes, UpToThree, AutoBBSModes, DayTrading, TrendFollowing, BoDuanModes,
             MACD_DailyModes, OrderADayModes, SwingModes, MultipleDayModes, BEILIModes, OpenOrUpdate, Timed,
             Banded, LimitModes
    <2> QED
      BY <2>1, FewPositions DEF IInv
  <1> QED
    BY <1>1, StrategyInvariant, PTL

\* The strategies that are in for a side, or for none, at each bar.
InForASide == mode \in OpenOrUpdate \cup Banded

(***************************************************************************)
(* After a bar on which a strategy was in for a side, with no call         *)
(* refused, all its orders are on that side, also when its results had no  *)
(* room for all it was to close.                                           *)
(***************************************************************************)
THEOREM StrategyTrend == Spec => [](InForASide => FollowsTrend)
  <1>1. IInv => (InForASide => FollowsTrend)
    <2> SUFFICES ASSUME IInv, InForASide PROVE FollowsTrend
      OBVIOUS
    <2>1. InScope /\ mode \notin BoDuanModes /\ mode # "4H_Shellington"
      BY DEF InForASide, InScope, BoDuanModes, OpenOrUpdate, Timed, Banded, LimitModes
    <2>2. InForOne /\ TypeInv
      BY <2>1 DEF IInv, Inv
    <2>3. signalled \in Sides => \A n \in DOMAIN open : open[n].type = signalled
      BY <2>2, AmongPlaces DEF InForASide, InForOne
    <2> QED
      BY <2>1, <2>3 DEF FollowsTrend
  <1> QED
    BY <1>1, StrategyInvariant, PTL

(***************************************************************************)
(* With no call refused an order closed by its age never outlives it, as   *)
(* the time of the last entry is that of the orders.                       *)
(***************************************************************************)
THEOREM StrategyOldOrders == Spec => [](Calm => OldOrdersClosed)
  <1>1. IInv => (Calm => OldOrdersClosed)
    <2> SUFFICES ASSUME IInv, Calm PROVE OldOrdersClosed
      OBVIOUS
    <2>1. InScope /\ mode \notin DayTrading /\ mode # "ATR_Hedge" /\ mode \notin LimitModes
      BY DEF Calm, InScope, DayTrading, OpenOrUpdate, Timed, Banded, LimitModes
    <2>2. Dated /\ AgedOut /\ TypeInv /\ faults = 0
      BY <2>1 DEF IInv, Inv, Calm
    <2>3. \A n \in DOMAIN open : open[n].day = updated
      BY <2>2, AmongPlaces DEF Dated
    <2>4. ASSUME mode \in Timed, signalled = "none"
          PROVE  Cardinality({n \in DOMAIN open : day - open[n].day > TimedExitBars}) <= faults
      <3>1. \A n \in DOMAIN open : day - open[n].day <= TimedExitBars /\ open[n].day \in Nat
        BY <2>2, <2>4, AmongPlaces DEF AgedOut, Order
      <3>2. day \in Nat /\ TimedExitBars \in Nat
        BY <2>2, StrategiesAssumption DEF TypeInv
      <3>3. {n \in DOMAIN open : day - open[n].day > TimedExitBars} = {}
        BY <3>1, <3>2
      <3> QED
        BY <3>3, <2>2, FS_EmptySet
    <2> QED
      BY <2>1, <2>3, <2>4 DEF OldOrdersClosed
  <1> QED
    BY <1>1, StrategyInvariant, PTL

=============================================================================
