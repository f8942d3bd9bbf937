--------------------------- MODULE InductionLemmas ---------------------------
(***************************************************************************)
(* Induction over the natural numbers for the proofs about recursive       *)
(* functions.  What is to be proved of every number is given as the set of *)
(* those it holds of, so that a set can be put for it.                     *)
(***************************************************************************)
EXTENDS Integers, FiniteSetTheorems, WellFoundedInduction, TLAPS

\* Every set of natural numbers that is not empty has a least member: the inclusion of the intervals
\* below them is well-founded.
LEMMA LeastNatural ==
    ASSUME NEW X \in SUBSET Nat, X # {}
    PROVE  \E m \in X : \A n \in X : m <= n
  <1> DEFINE Below == {0..n : n \in X}
  <1>1. Below \subseteq FiniteSubsetsOf(Nat)
    <2>1. ASSUME NEW n \in X PROVE 0..n \in SUBSET Nat /\ IsFiniteSet(0..n)
      BY <2>1, FS_Interval
    <2> QED
      BY <2>1 DEF FiniteSubsetsOf
  <1>2. IsWellFoundedOn(StrictSubsetOrdering(Nat), FiniteSubsetsOf(Nat))
    BY FS_StrictSubsetOrderingWellFounded
  <1>3. PICK s \in Below : \A t \in Below : ~(<<t, s>> \in StrictSubsetOrdering(Nat))
    <2>1. Below # {}
      OBVIOUS
    <2> HIDE DEF Below
    <2> QED
      BY <1>1, <1>2, <2>1, WFMin
  <1>4. PICK m \in X : s = 0..m
    OBVIOUS
  <1>5. ASSUME NEW n \in X, n < m PROVE FALSE
    <2>1. (0..n) \subseteq (0..m) /\ (0..n) # 0..m /\ (0..n) \in SUBSET Nat /\ (0..m) \in SUBSET Nat
      BY <1>5
    <2>2. <<0..n, 0..m>> \in StrictSubsetOrdering(Nat)
      BY <2>1 DEF StrictSubsetOrdering
    <2> QED
      BY <2>2, <1>3, <1>4
  <1> QED
    BY <1>5

\* What holds of 0, and of each number up to N if of the one before it, holds of all up to N.
LEMMA InductionTo ==
    ASSUME NEW N \in Nat, NEW Good, 0 \in Good, \A n \in 1..N : n - 1 \in Good => n \in Good
    PROVE  \A n \in 0..N : n \in Good
  <1> DEFINE Bad == {n \in 0..N : n \notin Good}
  <1> SUFFICES ASSUME Bad # {} PROVE FALSE
    OBVIOUS
  <1>1. PICK m \in Bad : \A n \in Bad : m <= n
    <2>1. Bad \in SUBSET Nat
      OBVIOUS
    <2> HIDE DEF Bad
    <2> QED
      BY <2>1, LeastNatural
  <1>2. m \in 1..N /\ m - 1 \in Good
    BY <1>1
  <1> QED
    BY <1>2

\* A function with a value for 0 and a step from each number to the next.
BuiltUp(N, V, base, step) ==
    \E f \in [0..N -> V] : f[0] = base /\ \A n \in 1..N : f[n] = step[n][f[n - 1]]

\* Such a function can be built up from 0.
LEMMA RecursionExists ==
    ASSUME NEW N \in Nat, NEW V, NEW base \in V, NEW step \in [1..N -> [V -> V]]
    PROVE  BuiltUp(N, V, base, step)
  <1> DEFINE Upto(n) == \E f \in [0..n -> V] : f[0] = base /\ \A m \in 1..n : f[m] = step[m][f[m - 1]]
             Good == {n \in 0..N : Upto(n)}
  <1>1. 0 \in Good
    <2> DEFINE g == [n \in 0..0 |-> base]
    <2>1. g \in [0..0 -> V] /\ g[0] = base /\ \A m \in 1..0 : g[m] = step[m][g[m - 1]]
      OBVIOUS
    <2>2. Upto(0)
      <3> HIDE DEF g
      <3> QED
        BY <2>1
    <2> QED
      BY <2>2
  <1>2. ASSUME NEW n \in 1..N, n - 1 \in Good PROVE n \in Good
    <2>1. PICK f \in [0..n - 1 -> V] : f[0] = base /\ \A m \in 1..n - 1 : f[m] = step[m][f[m - 1]]
      BY <1>2
    <2> DEFINE g == [m \in 0..n |-> IF m = n THEN step[n][f[n - 1]] ELSE f[m]]
    <2>2. g \in [0..n -> V]
      BY <2>1
    <2>3. g[0] = base
      BY <2>1
    <2>4. ASSUME NEW m \in 1..n PROVE g[m] = step[m][g[m - 1]]
      BY <2>1
    <2>5. Upto(n)
      <3> HIDE DEF g
      <3> QED
        BY <2>2, <2>3, <2>4
    <2> QED
      BY <2>5
  <1>3. \A n \in 0..N : n \in Good
    <2> HIDE DEF Good
    <2> QED
      BY <1>1, <1>2, InductionTo
  <1> QED
    BY <1>3 DEF BuiltUp

=============================================================================
