-------------------------- MODULE Optimizer_proofs --------------------------
(***************************************************************************)
(* Proofs about Optimizer, for any parameters, symbols and sizes of the    *)
(* tables: brute force stores every combination once, reports each of a    *)
(* symbol once and, if it is not stopped and the number of combinations    *)
(* has not overflowed, leaves none out.                                    *)
(***************************************************************************)
EXTENDS Optimizer, InductionLemmas

-----------------------------------------------------------------------------
(* The recursive functions of the combinations. *)

LEMMA StepsNature ==
    ASSUME NEW steps \in StepCounts
    PROVE  /\ Len(steps) \in Nat /\ Len(steps) > 0 /\ DOMAIN steps = 1..Len(steps)
           /\ steps \in Seq(Nat \ {0})
           /\ \A i \in 1..Len(steps) : steps[i] \in Nat \ {0}
  <1>1. steps \in Seq(Nat \ {0}) /\ steps # <<>>
    BY OptimizerAssumption
  <1>2. Len(steps) # 0
    BY <1>1
  <1> QED
    BY <1>1, <1>2

LEMMA WrappedInt == ASSUME NEW m \in Int PROVE Wrapped(m) \in Int
  <1>1. IntRange \in Int /\ IntRange > 0
    BY OptimizerAssumption
  <1>2. IntRange \div 2 \in Int
    BY <1>1
  <1>3. m + IntRange \div 2 \in Int
    BY <1>2
  <1>4. (m + IntRange \div 2) % IntRange \in Int
    BY <1>1, <1>3
  <1> QED
    BY <1>2, <1>4 DEF Wrapped

\* Quotients and remainders of the natural numbers.
LEMMA DivMod ==
    ASSUME NEW a \in Nat, NEW b \in Nat \ {0}
    PROVE  /\ a \div b \in Nat /\ a % b \in 0..b - 1
           /\ a = (a \div b) * b + (a % b)
  OBVIOUS

LEMMA DivModUnique ==
    ASSUME NEW q \in Nat, NEW b \in Nat \ {0}, NEW r \in 0..b - 1
    PROVE  (q * b + r) \div b = q /\ (q * b + r) % b = r
  OBVIOUS

\* The products of the first step counts as getParameterSetsNumber has them, however often wrapped.
WrappedVolume(steps) ==
    LET product[i \in 0..Len(steps)] == IF i = 0 THEN 1 ELSE Wrapped(product[i - 1] * steps[i])
    IN  product

LEMMA WrappedVolumeIs ==
    ASSUME NEW steps \in StepCounts
    PROVE  /\ getParameterSetsNumber(steps) = WrappedVolume(steps)[Len(steps)]
           /\ WrappedVolume(steps) \in [0..Len(steps) -> Int]
           /\ WrappedVolume(steps)[0] = 1
           /\ \A i \in 1..Len(steps) :
                WrappedVolume(steps)[i] = Wrapped(WrappedVolume(steps)[i - 1] * steps[i])
  <1> DEFINE After(i, x) == Wrapped(x * steps[i])
             step == [i \in 1..Len(steps) |-> [x \in Int |-> After(i, x)]]
             Rec(f) == [i \in 0..Len(steps) |-> IF i = 0 THEN 1 ELSE After(i, f[i - 1])]
             built == CHOOSE f : f = Rec(f)
  <1>1. Len(steps) \in Nat /\ \A i \in 1..Len(steps) : steps[i] \in Nat \ {0}
    BY StepsNature
  <1>2. ASSUME NEW i \in 1..Len(steps), NEW x \in Int PROVE After(i, x) \in Int
    <2>1. x * steps[i] \in Int
      BY <1>1
    <2> QED
      BY <2>1, WrappedInt
  <1>3. WrappedVolume(steps) = built /\ getParameterSetsNumber(steps) = built[Len(steps)]
    BY DEF WrappedVolume, getParameterSetsNumber
  <1>4. \A i, x : After(i, x) = Wrapped(x * steps[i])
    OBVIOUS
  <1> HIDE DEF After
  <1>5. \E f : f = Rec(f)
    <2>1. step \in [1..Len(steps) -> [Int -> Int]]
      BY <1>2
    <2>2. \A i \in 1..Len(steps) : \A x \in Int : step[i][x] = After(i, x)
      OBVIOUS
    <2>0. 1 \in Int
      OBVIOUS
    <2> HIDE DEF step
    <2>3. BuiltUp(Len(steps), Int, 1, step)
      BY <1>1, <2>0, <2>1, RecursionExists
    <2>4. PICK f \in [0..Len(steps) -> Int] :
              f[0] = 1 /\ \A i \in 1..Len(steps) : f[i] = step[i][f[i - 1]]
      BY <2>3 DEF BuiltUp
    <2>5. ASSUME NEW i \in 1..Len(steps) PROVE f[i] = After(i, f[i - 1])
      <3>1. f[i - 1] \in Int
        BY <1>1
      <3> QED
        BY <3>1, <2>2, <2>4
    <2>6. f = Rec(f)
      BY <2>4, <2>5
    <2> QED
      BY <2>6
  <1>6. built = Rec(built)
    <2> HIDE DEF Rec
    <2> QED
      BY <1>5
  <1> HIDE DEF built
  <1>7. built[0] = 1 /\ \A i \in 1..Len(steps) : built[i] = After(i, built[i - 1])
    BY <1>6, <1>1
  <1> DEFINE Good == {i \in 0..Len(steps) : built[i] \in Int}
  <1>8. \A i \in 0..Len(steps) : i \in Good
    <2>1. 0 \in Good
      BY <1>1, <1>7
    <2>2. ASSUME NEW i \in 1..Len(steps), i - 1 \in Good PROVE i \in Good
      <3>1. built[i - 1] \in Int
        BY <2>2
      <3>2. built[i] = After(i, built[i - 1])
        BY <1>7
      <3>3. built[i] \in Int
        BY <1>2, <3>1, <3>2
      <3> QED
        BY <1>1, <3>3
    <2> HIDE DEF Good
    <2> QED
      BY <1>1, <2>1, <2>2, InductionTo
  <1>9. built \in [0..Len(steps) -> Int]
    <2>1. built = [i \in 0..Len(steps) |-> built[i]]
      BY <1>6
    <2> QED
      BY <2>1, <1>8
  <1> QED
    BY <1>1, <1>3, <1>4, <1>7, <1>9

LEMMA CountIsInt == \A steps \in StepCounts : getParameterSetsNumber(steps) \in Int
  <1> SUFFICES ASSUME NEW steps \in StepCounts PROVE getParameterSetsNumber(steps) \in Int
    OBVIOUS
  <1> QED
    BY WrappedVolumeIs, StepsNature

\* The products of the first step counts.
Volume(steps) ==
    LET product[i \in 0..Len(steps)] == IF i = 0 THEN 1 ELSE product[i - 1] * steps[i]
    IN  product

LEMMA VolumeIs ==
    ASSUME NEW steps \in StepCounts
    PROVE  /\ Product(steps) = Volume(steps)[Len(steps)]
           /\ Volume(steps) \in [0..Len(steps) -> Nat \ {0}]
           /\ Volume(steps)[0] = 1
           /\ \A i \in 1..Len(steps) : Volume(steps)[i] = Volume(steps)[i - 1] * steps[i]
  <1> DEFINE After(i, x) == x * steps[i]
             step == [i \in 1..Len(steps) |-> [x \in Nat \ {0} |-> After(i, x)]]
             Rec(f) == [i \in 0..Len(steps) |-> IF i = 0 THEN 1 ELSE After(i, f[i - 1])]
             built == CHOOSE f : f = Rec(f)
  <1>1. Len(steps) \in Nat /\ \A i \in 1..Len(steps) : steps[i] \in Nat \ {0}
    BY StepsNature
  <1>2. ASSUME NEW i \in 1..Len(steps), NEW x \in Nat \ {0} PROVE After(i, x) \in Nat \ {0}
    <2>1. steps[i] \in Nat /\ steps[i] >= 1 /\ x \in Nat /\ x >= 1
      BY <1>1
    <2> HIDE DEF After
    <2>2. x * steps[i] \in Nat /\ x * steps[i] >= 1
      BY <2>1
    <2> QED
      BY <2>2 DEF After
  <1>3. Volume(steps) = built /\ Product(steps) = built[Len(steps)]
    BY DEF Volume, Product
  <1>4. \A i, x : After(i, x) = x * steps[i]
    OBVIOUS
  <1> HIDE DEF After
  <1>5. \E f : f = Rec(f)
    <2>1. step \in [1..Len(steps) -> [Nat \ {0} -> Nat \ {0}]]
      BY <1>2
    <2>2. \A i \in 1..Len(steps) : \A x \in Nat \ {0} : step[i][x] = After(i, x)
      OBVIOUS
    <2>0. 1 \in Nat \ {0}
      OBVIOUS
    <2> HIDE DEF step
    <2>3. BuiltUp(Len(steps), Nat \ {0}, 1, step)
      BY <1>1, <2>0, <2>1, RecursionExists
    <2>4. PICK f \in [0..Len(steps) -> Nat \ {0}] :
              f[0] = 1 /\ \A i \in 1..Len(steps) : f[i] = step[i][f[i - 1]]
      BY <2>3 DEF BuiltUp
    <2>5. ASSUME NEW i \in 1..Len(steps) PROVE f[i] = After(i, f[i - 1])
      <3>1. f[i - 1] \in Nat \ {0}
        BY <1>1
      <3> QED
        BY <3>1, <2>2, <2>4
    <2>6. f = Rec(f)
      BY <2>4, <2>5
    <2> QED
      BY <2>6
  <1>6. built = Rec(built)
    <2> HIDE DEF Rec
    <2> QED
      BY <1>5
  <1> HIDE DEF built
  <1>7. built[0] = 1 /\ \A i \in 1..Len(steps) : built[i] = After(i, built[i - 1])
    BY <1>6, <1>1
  <1> DEFINE Good == {i \in 0..Len(steps) : built[i] \in Nat \ {0}}
  <1>8. \A i \in 0..Len(steps) : i \in Good
    <2>1. 0 \in Good
      BY <1>1, <1>7
    <2>2. ASSUME NEW i \in 1..Len(steps), i - 1 \in Good PROVE i \in Good
      <3>1. built[i - 1] \in Nat \ {0}
        BY <2>2
      <3>2. built[i] = After(i, built[i - 1])
        BY <1>7
      <3>3. built[i] \in Nat \ {0}
        BY <1>2, <3>1, <3>2
      <3> QED
        BY <1>1, <3>3
    <2> HIDE DEF Good
    <2> QED
      BY <1>1, <2>1, <2>2, InductionTo
  <1>9. built \in [0..Len(steps) -> Nat \ {0}]
    <2>1. built = [i \in 0..Len(steps) |-> built[i]]
      BY <1>6
    <2> QED
      BY <2>1, <1>8
  <1> QED
    BY <1>1, <1>3, <1>4, <1>7, <1>9

\* What is left after each parameter.
LEMMA RestIs ==
    ASSUME NEW steps \in StepCounts, NEW n \in Nat
    PROVE  /\ Rest(steps, n) \in [0..Len(steps) -> Nat]
           /\ Rest(steps, n)[0] = n
           /\ \A i \in 1..Len(steps) : Rest(steps, n)[i] = Rest(steps, n)[i - 1] \div steps[i]
  <1> DEFINE After(i, x) == x \div steps[i]
             step == [i \in 1..Len(steps) |-> [x \in Nat |-> After(i, x)]]
             Rec(f) == [i \in 0..Len(steps) |-> IF i = 0 THEN n ELSE After(i, f[i - 1])]
             built == CHOOSE f : f = Rec(f)
  <1>1. Len(steps) \in Nat /\ \A i \in 1..Len(steps) : steps[i] \in Nat \ {0}
    BY StepsNature
  <1>2. ASSUME NEW i \in 1..Len(steps), NEW x \in Nat PROVE After(i, x) \in Nat
    BY <1>1, DivMod
  <1>3. Rest(steps, n) = built
    BY DEF Rest
  <1>4. \A i, x : After(i, x) = x \div steps[i]
    OBVIOUS
  <1> HIDE DEF After
  <1>5. \E f : f = Rec(f)
    <2>1. step \in [1..Len(steps) -> [Nat -> Nat]]
      BY <1>2
    <2>2. \A i \in 1..Len(steps) : \A x \in Nat : step[i][x] = After(i, x)
      OBVIOUS
    <2>0. n \in Nat
      OBVIOUS
    <2> HIDE DEF step
    <2>3. BuiltUp(Len(steps), Nat, n, step)
      BY <1>1, <2>0, <2>1, RecursionExists
    <2>4. PICK f \in [0..Len(steps) -> Nat] :
              f[0] = n /\ \A i \in 1..Len(steps) : f[i] = step[i][f[i - 1]]
      BY <2>3 DEF BuiltUp
    <2>5. ASSUME NEW i \in 1..Len(steps) PROVE f[i] = After(i, f[i - 1])
      <3>1. f[i - 1] \in Nat
        BY <1>1
      <3> QED
        BY <3>1, <2>2, <2>4
    <2>6. f = Rec(f)
      BY <2>4, <2>5
    <2> QED
      BY <2>6
  <1>6. built = Rec(built)
    <2> HIDE DEF Rec
    <2> QED
      BY <1>5
  <1> HIDE DEF built
  <1>7. built[0] = n /\ \A i \in 1..Len(steps) : built[i] = After(i, built[i - 1])
    BY <1>6, <1>1
  <1> DEFINE Good == {i \in 0..Len(steps) : built[i] \in Nat}
  <1>8. \A i \in 0..Len(steps) : i \in Good
    <2>1. 0 \in Good
      BY <1>1, <1>7
    <2>2. ASSUME NEW i \in 1..Len(steps), i - 1 \in Good PROVE i \in Good
      <3>1. built[i - 1] \in Nat
        BY <2>2
      <3>2. built[i] = After(i, built[i - 1])
        BY <1>7
      <3>3. built[i] \in Nat
        BY <1>2, <3>1, <3>2
      <3> QED
        BY <1>1, <3>3
    <2> HIDE DEF Good
    <2> QED
      BY <1>1, <2>1, <2>2, InductionTo
  <1>9. built \in [0..Len(steps) -> Nat]
    <2>1. built = [i \in 0..Len(steps) |-> built[i]]
      BY <1>6
    <2> QED
      BY <2>1, <1>8
  <1> QED
    BY <1>1, <1>3, <1>4, <1>7, <1>9

-----------------------------------------------------------------------------
(* The enumeration of the combinations. *)

LEMMA CombinationIs ==
    ASSUME NEW steps \in StepCounts, NEW n \in Nat
    PROVE  /\ Combination(steps, n) \in [1..Len(steps) -> Nat]
           /\ \A i \in 1..Len(steps) :
                /\ Combination(steps, n)[i] = Rest(steps, n)[i - 1] % steps[i]
                /\ Combination(steps, n)[i] < steps[i]
                /\ Rest(steps, n)[i - 1] = Rest(steps, n)[i] * steps[i] + Combination(steps, n)[i]
  <1>1. /\ Len(steps) \in Nat /\ DOMAIN steps = 1..Len(steps)
        /\ \A i \in 1..Len(steps) : steps[i] \in Nat \ {0}
    BY StepsNature
  <1>2. Combination(steps, n) = [i \in 1..Len(steps) |-> Rest(steps, n)[i - 1] % steps[i]]
    BY <1>1 DEF Combination
  <1>3. ASSUME NEW i \in 1..Len(steps)
        PROVE  /\ Rest(steps, n)[i - 1] % steps[i] \in Nat
               /\ Rest(steps, n)[i - 1] % steps[i] < steps[i]
               /\ Rest(steps, n)[i - 1] = Rest(steps, n)[i] * steps[i] + (Rest(steps, n)[i - 1] % steps[i])
    <2>1. Rest(steps, n)[i - 1] \in Nat /\ Rest(steps, n)[i] = Rest(steps, n)[i - 1] \div steps[i]
      <3>1. /\ Rest(steps, n) \in [0..Len(steps) -> Nat]
            /\ \A j \in 1..Len(steps) : Rest(steps, n)[j] = Rest(steps, n)[j - 1] \div steps[j]
        BY RestIs
      <3>2. i - 1 \in 0..Len(steps)
        BY <1>1
      <3> QED
        BY <3>1, <3>2
    <2>2. steps[i] \in Nat \ {0}
      BY <1>1
    <2> DEFINE a == Rest(steps, n)[i - 1]
               b == steps[i]
    <2>3. a \in Nat /\ b \in Nat \ {0} /\ Rest(steps, n)[i] = a \div b
      BY <2>1, <2>2
    <2>4. a % b \in Nat /\ a % b < b /\ a = Rest(steps, n)[i] * b + (a % b)
      <3> HIDE DEF a, b
      <3>1. a % b \in 0..b - 1 /\ a = (a \div b) * b + (a % b)
        BY <2>3, DivMod
      <3> QED
        BY <2>3, <3>1
    <2> QED
      BY <2>4
  <1> QED
    BY <1>2, <1>3

\* A number whose first i steps are 0 is a multiple of the volume of the first i parameters.
LEMMA ZeroSteps ==
    ASSUME NEW steps \in StepCounts, NEW n \in Nat,
           \A i \in 1..Len(steps) : Combination(steps, n)[i] = 0
    PROVE  n = Rest(steps, n)[Len(steps)] * Product(steps)
  <1> DEFINE rest == Rest(steps, n)
             volume == Volume(steps)
             Good == {i \in 0..Len(steps) : n = rest[i] * volume[i]}
  <1>1. /\ Len(steps) \in Nat
        /\ rest \in [0..Len(steps) -> Nat] /\ rest[0] = n
        /\ volume \in [0..Len(steps) -> Nat \ {0}] /\ volume[0] = 1
        /\ Product(steps) = volume[Len(steps)]
    BY StepsNature, RestIs, VolumeIs
  <1>2. ASSUME NEW i \in 1..Len(steps)
        PROVE  rest[i - 1] = rest[i] * steps[i] + 0 /\ volume[i] = volume[i - 1] * steps[i] /\ steps[i] \in Nat
    BY StepsNature, CombinationIs, VolumeIs
  <1> HIDE DEF rest, volume
  <1>3. 0 \in Good
    BY <1>1
  <1>4. ASSUME NEW i \in 1..Len(steps), i - 1 \in Good PROVE i \in Good
    <2>1. i - 1 \in 0..Len(steps) /\ rest[i] \in Nat /\ volume[i - 1] \in Nat /\ steps[i] \in Nat
      BY <1>1, <1>2
    <2>2. n = rest[i - 1] * volume[i - 1]
      BY <1>4
    <2>3. ASSUME NEW r \in Nat, NEW s \in Nat, NEW v \in Nat
          PROVE  (r * s + 0) * v = r * (v * s)
      OBVIOUS
    <2>4. n = rest[i] * volume[i]
      BY <1>2, <2>1, <2>2, <2>3
    <2> QED
      BY <2>4
  <1>5. \A i \in 0..Len(steps) : i \in Good
    <2> HIDE DEF Good
    <2> QED
      BY <1>1, <1>3, <1>4, InductionTo
  <1> QED
    BY <1>1, <1>5 DEF rest

\* The numbers of which m is left after the first i parameters, with the given steps of these.
Numbers(steps, c, i, m) ==
    {n \in Nat : /\ Rest(steps, n)[i] = m
                 /\ \A j \in 1..i : Combination(steps, n)[j] = c[j]
                 /\ n < (m + 1) * Volume(steps)[i]}

\* Every choice of steps is that of a number.
LEMMA NumberExists ==
    ASSUME NEW steps \in StepCounts, NEW c \in [1..Len(steps) -> Nat],
           \A i \in 1..Len(steps) : c[i] < steps[i]
    PROVE  \A m \in Nat : Numbers(steps, c, Len(steps), m) # {}
  <1> DEFINE volume == Volume(steps)
             Filled(i) == \A m \in Nat : Numbers(steps, c, i, m) # {}
             Good == {i \in 0..Len(steps) : Filled(i)}
  <1>1. /\ Len(steps) \in Nat /\ \A i \in 1..Len(steps) : steps[i] \in Nat \ {0}
        /\ volume \in [0..Len(steps) -> Nat \ {0}] /\ volume[0] = 1
        /\ \A i \in 1..Len(steps) : volume[i] = volume[i - 1] * steps[i]
    BY StepsNature, VolumeIs
  <1>2. 0 \in Good
    <2>1. ASSUME NEW m \in Nat PROVE m \in Numbers(steps, c, 0, m)
      <3>1. Rest(steps, m)[0] = m
        BY RestIs
      <3>2. m < (m + 1) * Volume(steps)[0]
        BY <1>1
      <3> QED
        BY <3>1, <3>2 DEF Numbers
    <2>2. Filled(0)
      BY <2>1
    <2> HIDE DEF Filled
    <2> QED
      BY <1>1, <2>2
  <1>3. ASSUME NEW i \in 1..Len(steps), i - 1 \in Good PROVE i \in Good
    <2>1. /\ i \in Nat /\ i - 1 \in Nat /\ i - 1 \in 0..Len(steps) /\ c[i] \in Nat /\ c[i] < steps[i]
          /\ steps[i] \in Nat \ {0}
          /\ volume[i - 1] \in Nat /\ volume[i] = volume[i - 1] * steps[i]
      BY <1>1
    <2>2. ASSUME NEW m \in Nat PROVE Numbers(steps, c, i, m) # {}
      <3> DEFINE before == m * steps[i] + c[i]
      <3>1. before \in Nat /\ before + 1 <= (m + 1) * steps[i]
        BY <2>1
      <3>2. before \div steps[i] = m /\ before % steps[i] = c[i]
        <4>1. c[i] \in 0..steps[i] - 1
          BY <2>1
        <4> QED
          BY <2>1, <4>1, DivModUnique
      <3> HIDE DEF before
      <3>3. PICK n : n \in Numbers(steps, c, i - 1, before)
        <4>1. \A k \in Nat : Numbers(steps, c, i - 1, k) # {}
          BY <1>3
        <4> QED
          BY <3>1, <4>1
      <3>4. /\ n \in Nat /\ Rest(steps, n)[i - 1] = before
            /\ \A j \in 1..i - 1 : Combination(steps, n)[j] = c[j]
            /\ n < (before + 1) * volume[i - 1]
        BY <3>3 DEF Numbers
      <3>5. Rest(steps, n)[i] = m
        BY <3>2, <3>4, RestIs
      <3>6. Combination(steps, n)[i] = c[i]
        BY <3>2, <3>4, CombinationIs
      <3>7. \A j \in 1..i : Combination(steps, n)[j] = c[j]
        <4>1. \A j \in 1..i : j = i \/ j \in 1..i - 1
          BY <2>1
        <4> QED
          BY <3>4, <3>6, <4>1
      <3>8. n < (m + 1) * volume[i]
        <4>1. ASSUME NEW x \in Nat, NEW y \in Nat, NEW v \in Nat, x <= y PROVE x * v <= y * v
          BY <4>1
        <4>2. (before + 1) * volume[i - 1] <= ((m + 1) * steps[i]) * volume[i - 1]
          <5>1. before + 1 \in Nat /\ (m + 1) * steps[i] \in Nat
            BY <2>1, <3>1
          <5> QED
            BY <2>1, <3>1, <4>1, <5>1
        <4>3. ASSUME NEW x \in Nat, NEW s \in Nat, NEW v \in Nat PROVE (x * s) * v = x * (v * s)
          OBVIOUS
        <4>4. ((m + 1) * steps[i]) * volume[i - 1] = (m + 1) * volume[i]
          BY <2>1, <4>3
        <4>5. (before + 1) * volume[i - 1] \in Nat /\ (m + 1) * volume[i] \in Nat
          <5>1. ASSUME NEW x \in Nat, NEW y \in Nat PROVE (x + 1) * y \in Nat
            OBVIOUS
          <5>2. volume[i] \in Nat
            BY <1>1
          <5> QED
            BY <2>1, <3>1, <5>1, <5>2
        <4> QED
          BY <3>4, <4>2, <4>4, <4>5
      <3>9. n \in Numbers(steps, c, i, m)
        BY <3>4, <3>5, <3>7, <3>8 DEF Numbers
      <3> QED
        BY <3>9
    <2>3. Filled(i)
      BY <2>2
    <2> HIDE DEF Filled
    <2> QED
      BY <2>1, <2>3
  <1>4. \A i \in 0..Len(steps) : i \in Good
    <2> HIDE DEF Good
    <2> QED
      BY <1>1, <1>2, <1>3, InductionTo
  <1>5. Filled(Len(steps))
    <2> HIDE DEF Filled
    <2> QED
      BY <1>1, <1>4
  <1> QED
    BY <1>5

\* What is left gets no larger.
LEMMA RestPositive ==
    ASSUME NEW steps \in StepCounts, NEW n \in Nat, Rest(steps, n)[Len(steps)] > 0
    PROVE  \A i \in 1..Len(steps) : Rest(steps, n)[i] > 0
  <1> DEFINE L == Len(steps)
             rest == Rest(steps, n)
             Good == {i \in 0..L : rest[L - i] > 0}
  <1>1. L \in Nat /\ rest \in [0..L -> Nat] /\ \A i \in 1..L : rest[i] = rest[i - 1] \div steps[i]
    BY StepsNature, RestIs
  <1>2. \A i \in 1..L : steps[i] \in Nat \ {0}
    BY StepsNature
  <1>3. rest[L] > 0
    OBVIOUS
  <1> HIDE DEF L, rest
  <1>4. 0 \in Good
    BY <1>1, <1>3
  <1>5. ASSUME NEW i \in 1..L, i - 1 \in Good PROVE i \in Good
    <2>1. L - i + 1 \in 1..L /\ L - (i - 1) = L - i + 1 /\ L - i \in 0..L /\ (L - i + 1) - 1 = L - i
      BY <1>1
    <2>2. rest[L - i + 1] > 0 /\ rest[L - i + 1] = rest[L - i] \div steps[L - i + 1]
      BY <1>1, <1>5, <2>1
    <2>3. rest[L - i] \in Nat /\ steps[L - i + 1] \in Nat \ {0}
      BY <1>1, <1>2, <2>1
    <2>4. ASSUME NEW b \in Nat \ {0} PROVE 0 \div b = 0
      OBVIOUS
    <2>5. rest[L - i] # 0
      BY <2>2, <2>3, <2>4
    <2>6. rest[L - i] > 0
      BY <2>3, <2>5
    <2> QED
      BY <1>1, <2>6
  <1>6. \A i \in 0..L : i \in Good
    <2> HIDE DEF Good
    <2> QED
      BY <1>1, <1>4, <1>5, InductionTo
  <1>7. ASSUME NEW i \in 1..L PROVE rest[i] > 0
    <2>1. L - i \in 0..L /\ L - (L - i) = i
      BY <1>1
    <2> QED
      BY <1>6, <2>1
  <1> QED
    BY <1>7 DEF L, rest

\* The first number with which the loop has wrapped every parameter is the number of the combinations.
LEMMA WrapsAtProduct ==
    ASSUME NEW steps \in StepCounts
    PROVE  /\ Product(steps) \in Nat
           /\ AllWrapped(steps, Product(steps))
           /\ \A n \in Nat : AllWrapped(steps, n) => n >= Product(steps)
  <1> DEFINE L == Len(steps)
  <1>1. /\ L \in Nat /\ L > 0 /\ DOMAIN steps = 1..L
        /\ \A i \in 1..L : steps[i] \in Nat \ {0}
    BY StepsNature
  <1>2. Product(steps) = Volume(steps)[L] /\ Volume(steps)[L] \in Nat
    BY <1>1, VolumeIs
  <1>3. AllWrapped(steps, Product(steps))
    <2> DEFINE c == [i \in 1..L |-> 0]
    <2>1. c \in [1..L -> Nat] /\ \A i \in 1..L : c[i] < steps[i]
      BY <1>1
    <2>2. \A i \in 1..L : c[i] = 0
      OBVIOUS
    <2> HIDE DEF c
    <2>3. PICK n : n \in Numbers(steps, c, L, 1)
      <3>1. 1 \in Nat
        OBVIOUS
      <3> QED
        BY <2>1, <3>1, NumberExists
    <2>4. n \in Nat /\ Rest(steps, n)[L] = 1 /\ \A i \in 1..L : Combination(steps, n)[i] = 0
      BY <2>2, <2>3 DEF Numbers
    <2>5. n = 1 * Product(steps)
      BY <2>4, ZeroSteps
    <2>6. n = Product(steps)
      BY <1>2, <2>5
    <2>7. \A i \in 1..L : Rest(steps, n)[i] > 0
      BY <2>4, RestPositive
    <2> QED
      BY <1>1, <2>4, <2>6, <2>7 DEF AllWrapped
  <1>4. ASSUME NEW n \in Nat, AllWrapped(steps, n) PROVE n >= Product(steps)
    <2>1. \A i \in 1..L : Rest(steps, n)[i] > 0 /\ Combination(steps, n)[i] = 0
      BY <1>1, <1>4 DEF AllWrapped
    <2>2. n = Rest(steps, n)[L] * Product(steps)
      BY <2>1, ZeroSteps
    <2>3. Rest(steps, n)[L] \in Nat /\ Rest(steps, n)[L] >= 1
      <3>1. Rest(steps, n)[L] \in Nat
        BY <1>1, RestIs
      <3> QED
        BY <1>1, <2>1, <3>1
    <2>4. ASSUME NEW r \in Nat, NEW p \in Nat, r >= 1 PROVE r * p >= p
      BY <2>4
    <2> QED
      BY <1>2, <2>2, <2>3, <2>4
  <1> QED
    BY <1>2, <1>3, <1>4

\* No parameter has more values than there are combinations.
LEMMA StepAtMostProduct ==
    ASSUME NEW steps \in StepCounts
    PROVE  \A i \in 1..Len(steps) : steps[i] <= Product(steps)
  <1> DEFINE volume == Volume(steps)
             Good == {i \in 0..Len(steps) : \A j \in 1..i : steps[j] <= volume[i]}
  <1>1. /\ Len(steps) \in Nat /\ \A i \in 1..Len(steps) : steps[i] \in Nat \ {0}
        /\ volume \in [0..Len(steps) -> Nat \ {0}]
        /\ \A i \in 1..Len(steps) : volume[i] = volume[i - 1] * steps[i]
        /\ Product(steps) = volume[Len(steps)]
    BY StepsNature, VolumeIs
  <1> HIDE DEF volume
  <1>2. 0 \in Good
    BY <1>1
  <1>3. ASSUME NEW i \in 1..Len(steps), i - 1 \in Good PROVE i \in Good
    <2>1. ASSUME NEW v \in Nat, NEW s \in Nat, v # 0, s # 0 PROVE v * s \in Nat /\ v <= v * s /\ s <= v * s
      BY <2>1
    <2>2. /\ volume[i - 1] \in Nat /\ volume[i - 1] # 0 /\ steps[i] \in Nat /\ steps[i] # 0
          /\ volume[i] = volume[i - 1] * steps[i]
      BY <1>1
    <2>3. volume[i] \in Nat /\ volume[i - 1] <= volume[i] /\ steps[i] <= volume[i]
      BY <2>1, <2>2
    <2>4. ASSUME NEW j \in 1..i PROVE steps[j] <= volume[i]
      <3>1. CASE j = i
        BY <2>3, <3>1
      <3>2. CASE j # i
        <4>1. j \in 1..i - 1 /\ steps[j] \in Nat
          BY <1>1, <3>2
        <4>2. steps[j] <= volume[i - 1]
          BY <1>3, <4>1
        <4> QED
          BY <2>2, <2>3, <4>1, <4>2
      <3> QED
        BY <3>1, <3>2
    <2> QED
      BY <2>4
  <1>4. \A i \in 0..Len(steps) : i \in Good
    <2> HIDE DEF Good
    <2> QED
      BY <1>1, <1>2, <1>3, InductionTo
  <1> QED
    BY <1>1, <1>4

\* A product that an int holds is not wrapped, and neither are those on the way to it.
LEMMA SmallIsNotWrapped ==
    ASSUME NEW x \in Nat, x < IntRange \div 2
    PROVE  Wrapped(x) = x
  <1>1. /\ IntRange \in Nat /\ IntRange > 0 /\ IntRange \div 2 \in Nat
        /\ 2 * (IntRange \div 2) <= IntRange
    BY OptimizerAssumption
  <1>2. x + IntRange \div 2 \in 0..IntRange - 1
    BY <1>1
  <1>3. (x + IntRange \div 2) % IntRange = x + IntRange \div 2
    BY <1>1, <1>2
  <1> QED
    BY <1>1, <1>3 DEF Wrapped

LEMMA CountIsProduct ==
    ASSUME NEW steps \in StepCounts, NoOverflow(steps)
    PROVE  getParameterSetsNumber(steps) = Product(steps)
  <1> DEFINE volume == Volume(steps)
             wrapped == WrappedVolume(steps)
             half == IntRange \div 2
             Good == {i \in 0..Len(steps) : volume[i] < half => wrapped[i] = volume[i]}
  <1>1. /\ Len(steps) \in Nat /\ \A i \in 1..Len(steps) : steps[i] \in Nat \ {0}
        /\ volume \in [0..Len(steps) -> Nat \ {0}] /\ volume[0] = 1
        /\ \A i \in 1..Len(steps) : volume[i] = volume[i - 1] * steps[i]
        /\ Product(steps) = volume[Len(steps)]
        /\ wrapped[0] = 1
        /\ \A i \in 1..Len(steps) : wrapped[i] = Wrapped(wrapped[i - 1] * steps[i])
        /\ getParameterSetsNumber(steps) = wrapped[Len(steps)]
    BY StepsNature, VolumeIs, WrappedVolumeIs
  <1>2. half \in Int
    BY OptimizerAssumption
  <1>3. \A x \in Nat : x < half => Wrapped(x) = x
    BY SmallIsNotWrapped
  <1> HIDE DEF volume, wrapped, half
  <1>4. 0 \in Good
    BY <1>1
  <1>5. ASSUME NEW i \in 1..Len(steps), i - 1 \in Good PROVE i \in Good
    <2>1. ASSUME NEW v \in Nat, NEW s \in Nat, v # 0, s # 0 PROVE v * s \in Nat /\ v <= v * s
      BY <2>1
    <2>2. /\ i - 1 \in 0..Len(steps)
          /\ volume[i - 1] \in Nat /\ volume[i - 1] # 0 /\ steps[i] \in Nat /\ steps[i] # 0
          /\ volume[i] = volume[i - 1] * steps[i]
      BY <1>1
    <2>3. volume[i] \in Nat /\ volume[i - 1] <= volume[i]
      BY <2>1, <2>2
    <2> SUFFICES ASSUME volume[i] < half PROVE wrapped[i] = volume[i]
      OBVIOUS
    <2>4. wrapped[i - 1] = volume[i - 1]
      BY <1>2, <1>5, <2>2, <2>3
    <2>5. wrapped[i] = Wrapped(volume[i])
      BY <1>1, <2>2, <2>4
    <2> QED
      BY <1>3, <2>3, <2>5
  <1>6. \A i \in 0..Len(steps) : i \in Good
    <2> HIDE DEF Good
    <2> QED
      BY <1>1, <1>4, <1>5, InductionTo
  <1>7. Product(steps) < half
    BY DEF NoOverflow, half
  <1> QED
    BY <1>1, <1>6, <1>7

\* The combinations of the numbers below are all there are.
LEMMA AllCombinations ==
    ASSUME NEW steps \in StepCounts
    PROVE  {Combination(steps, n) : n \in 0..Product(steps) - 1} = Combinations(steps)
  <1> DEFINE L == Len(steps)
             X == Product(steps)
             All == {c \in [1..L -> 0..X] : \A i \in 1..L : c[i] < steps[i]}
  <1>1. /\ L \in Nat /\ DOMAIN steps = 1..L /\ \A i \in 1..L : steps[i] \in Nat \ {0}
        /\ X = Volume(steps)[L] /\ X \in Nat
    BY StepsNature, WrapsAtProduct, VolumeIs
  <1>2. ASSUME NEW n \in 0..X - 1 PROVE Combination(steps, n) \in All
    <2>1. n \in Nat /\ n < X
      BY <1>1
    <2>2. /\ Combination(steps, n) \in [1..L -> Nat]
          /\ \A i \in 1..L : Combination(steps, n)[i] < steps[i]
      BY <2>1, CombinationIs
    <2>3. ASSUME NEW i \in 1..L PROVE Combination(steps, n)[i] <= X
      BY <1>1, <2>2, StepAtMostProduct
    <2>4. \A i \in 1..L : Combination(steps, n)[i] \in 0..X
      BY <1>1, <2>2, <2>3
    <2> HIDE DEF X, L
    <2> QED
      BY <2>2, <2>4
  <1>3. ASSUME NEW c \in All PROVE \E n \in 0..X - 1 : c = Combination(steps, n)
    <2>1. c \in [1..L -> Nat] /\ \A i \in 1..L : c[i] < steps[i]
      BY <1>1
    <2>2. PICK n : n \in Numbers(steps, c, L, 0)
      <3>1. 0 \in Nat
        OBVIOUS
      <3> QED
        BY <2>1, <3>1, NumberExists
    <2>3. n \in Nat /\ n < (0 + 1) * X /\ \A i \in 1..L : Combination(steps, n)[i] = c[i]
      BY <1>1, <2>2 DEF Numbers
    <2>4. n \in 0..X - 1
      <3> HIDE DEF X
      <3> QED
        BY <1>1, <2>3
    <2>5. Combination(steps, n) \in [1..L -> Nat]
      BY <2>3, CombinationIs
    <2>6. c = Combination(steps, n)
      BY <2>1, <2>3, <2>5
    <2> QED
      BY <2>4, <2>6
  <1> HIDE DEF X, L
  <1> QED
    BY <1>1, <1>2, <1>3 DEF X, Combinations

-----------------------------------------------------------------------------
(* The reports. *)

Pairs(steps) == (0..getParameterSetsNumber(steps) - 1) \X Symbols

\* The reports are counted, and the indices are where the loops are.
Counted ==
    /\ counts \in StepCounts
    /\ set \in Nat /\ symbol \in Symbols
    /\ reports \in [Pairs(counts) -> Nat]

\* Nothing is reported before the runs; a combination that was begun exists.
BeforeRuns ==
    phase \in {"sets", "refused"} =>
        set = 0 /\ symbol = 0 /\ \A p \in Pairs(counts) : reports[p] = 0

BegunExists == (phase = "runs" /\ symbol > 0) => set < getParameterSetsNumber(counts)

IInv == Counted /\ BeforeRuns /\ BegunExists /\ ReportsInOrder

\* The index of the symbols counts up and is set back behind the last one.
LEMMA SymbolStep ==
    ASSUME NEW s \in Symbols
    PROVE  /\ (s + 1) % NumSymbols \in Symbols
           /\ (s + 1) % NumSymbols = IF s = NumSymbols - 1 THEN 0 ELSE s + 1
  <1>1. NumSymbols \in Nat /\ NumSymbols > 0 /\ s \in Nat /\ s < NumSymbols
    BY OptimizerAssumption DEF Symbols
  <1>2. CASE s = NumSymbols - 1
    <2>1. (s + 1) % NumSymbols = 0
      BY <1>1, <1>2
    <2> QED
      BY <1>1, <1>2, <2>1 DEF Symbols
  <1>3. CASE s # NumSymbols - 1
    <2>1. (s + 1) % NumSymbols = s + 1
      BY <1>1, <1>3
    <2> QED
      BY <1>1, <1>3, <2>1 DEF Symbols
  <1> QED
    BY <1>2, <1>3

LEMMA ZeroIsSymbol == 0 \in Symbols
  BY OptimizerAssumption DEF Symbols

LEMMA InitIInv == Init => IInv
  <1> SUFFICES ASSUME Init PROVE IInv
    OBVIOUS
  <1>1. Counted
    BY ZeroIsSymbol DEF Init, Counted, NoReports, Pairs
  <1>2. BeforeRuns /\ BegunExists /\ ReportsInOrder
    BY DEF Init, BeforeRuns, BegunExists, ReportsInOrder
  <1> QED
    BY <1>1, <1>2 DEF IInv

LEMMA BeginIInv == IInv /\ Begin => IInv'
  <1> SUFFICES ASSUME IInv, Begin PROVE IInv'
    OBVIOUS
  <1>1. Counted'
    BY ZeroIsSymbol DEF Begin, Counted, NoReports, Pairs
  <1>2. BeforeRuns'
    BY DEF Begin, BeforeRuns, NoReports, Pairs
  <1>3. BegunExists' /\ ReportsInOrder'
    BY DEF Begin, BegunExists, ReportsInOrder, BruteForce, Genetic
  <1> QED
    BY <1>1, <1>2, <1>3 DEF IInv

\* A step that leaves the brute force variables alone and enters neither loop.
LEMMA QuietIInv ==
    ASSUME IInv, UNCHANGED brute,
           phase' \in {phase, "idle", "evaluation", "hook", "converged", "dead"}
    PROVE  IInv'
  <1>1. Counted'
    BY DEF IInv, Counted, brute, Pairs
  <1>2. BeforeRuns' /\ BegunExists' /\ ReportsInOrder'
    BY DEF IInv, BeforeRuns, BegunExists, ReportsInOrder, brute, Pairs
  <1> QED
    BY <1>1, <1>2 DEF IInv

LEMMA StoreSetIInv == IInv /\ StoreSet => IInv'
  <1> SUFFICES ASSUME IInv, StoreSet PROVE IInv'
    OBVIOUS
  <1>1. /\ phase = "sets" /\ phase' \in {"sets", "runs", "dead"}
        /\ UNCHANGED <<counts, set, symbol, reports>>
    BY DEF StoreSet
  <1>2. Counted'
    BY <1>1 DEF IInv, Counted, Pairs
  <1>3. BeforeRuns' /\ BegunExists'
    BY <1>1 DEF IInv, BeforeRuns, BegunExists, Pairs
  <1>4. ReportsInOrder'
    <2> SUFFICES ASSUME NEW p \in DOMAIN reports
                 PROVE  reports[p] = IF p[1] < 0 \/ (p[1] = 0 /\ p[2] < 0) THEN 1 ELSE 0
      BY <1>1 DEF IInv, BeforeRuns, ReportsInOrder
    <2>1. p \in Pairs(counts) /\ reports[p] = 0
      BY <1>1 DEF IInv, Counted, BeforeRuns
    <2>2. p[1] >= 0 /\ p[2] >= 0 /\ p[1] \in Int /\ p[2] \in Int
      BY <2>1, CountIsInt, OptimizerAssumption DEF Pairs, Symbols, IInv, Counted
    <2> QED
      BY <2>1, <2>2
  <1> QED
    BY <1>2, <1>3, <1>4 DEF IInv

\* A report moves the loops on by one.
LEMMA ReportIInv ==
    ASSUME IInv, phase = "runs", phase' = "runs", UNCHANGED counts,
           set < getParameterSetsNumber(counts),
           reports' = [reports EXCEPT ![<<set, symbol>>] = @ + 1],
           symbol' = NextSymbol, set' = NextSet
    PROVE  IInv'
  <1> DEFINE X == getParameterSetsNumber(counts)
  <1>1. X \in Int /\ set \in Nat /\ symbol \in Nat /\ symbol < NumSymbols /\ NumSymbols \in Nat
    BY CountIsInt, OptimizerAssumption DEF IInv, Counted, Symbols
  <1>2. /\ symbol' \in Symbols
        /\ symbol' = IF symbol = NumSymbols - 1 THEN 0 ELSE symbol + 1
        /\ set' = IF symbol = NumSymbols - 1 THEN set + 1 ELSE set
    BY <1>1, SymbolStep DEF NextSymbol, NextSet, IInv, Counted
  <1>3. Counted'
    <2>1. reports \in [Pairs(counts) -> Nat]
      BY DEF IInv, Counted
    <2>2. <<set, symbol>> \in Pairs(counts)
      BY <1>1 DEF Pairs, IInv, Counted
    <2>3. reports' \in [Pairs(counts) -> Nat]
      BY <2>1, <2>2
    <2> QED
      BY <1>1, <1>2, <2>3 DEF IInv, Counted, Pairs
  <1>4. BeforeRuns'
    BY DEF BeforeRuns
  <1>5. BegunExists'
    BY <1>1, <1>2 DEF BegunExists
  <1>6. ReportsInOrder'
    <2> SUFFICES ASSUME NEW p \in Pairs(counts)
                 PROVE  reports'[p] = IF p[1] < set' \/ (p[1] = set' /\ p[2] < symbol') THEN 1 ELSE 0
      BY <1>3 DEF ReportsInOrder, Counted, Pairs
    <2>1. /\ p[1] \in Int /\ p[2] \in Int /\ 0 <= p[2] /\ p[2] < NumSymbols
          /\ p = <<p[1], p[2]>>
      BY <1>1 DEF Pairs, Symbols
    <2>2. reports[p] = IF p[1] < set \/ (p[1] = set /\ p[2] < symbol) THEN 1 ELSE 0
      BY DEF IInv, ReportsInOrder, Counted
    <2>3. CASE p = <<set, symbol>>
      <3>1. reports'[p] = reports[p] + 1
        BY <2>3 DEF IInv, Counted
      <3>2. reports[p] = 0
        BY <1>1, <2>2, <2>3
      <3> QED
        BY <1>1, <1>2, <2>3, <3>1, <3>2
    <2>4. CASE p # <<set, symbol>>
      <3>1. reports'[p] = reports[p]
        BY <2>4 DEF IInv, Counted
      <3>2. p[1] # set \/ p[2] # symbol
        BY <2>1, <2>4
      <3> QED
        BY <1>1, <1>2, <2>1, <2>2, <3>1, <3>2
    <2> QED
      BY <2>3, <2>4
  <1> QED
    BY <1>3, <1>4, <1>5, <1>6 DEF IInv

LEMMA RunTestIInv == IInv /\ RunTest => IInv'
  <1> SUFFICES ASSUME IInv, RunTest PROVE IInv'
    OBVIOUS
  <1>1. /\ phase = "runs" /\ UNCHANGED counts
        /\ \/ phase' = "dead" /\ UNCHANGED <<set, symbol, reports>>
           \/ /\ phase' = phase
              /\ reports' = [reports EXCEPT ![<<set, symbol>>] = @ + 1]
              /\ symbol' = NextSymbol /\ set' = NextSet
    BY DEF RunTest
  <1>2. CASE phase' = "dead" /\ UNCHANGED <<set, symbol, reports>>
    BY <1>1, <1>2 DEF IInv, Counted, BeforeRuns, BegunExists, ReportsInOrder, Pairs
  <1>3. CASE phase' = phase /\ reports' = [reports EXCEPT ![<<set, symbol>>] = @ + 1]
             /\ symbol' = NextSymbol /\ set' = NextSet
    <2>1. set < getParameterSetsNumber(counts)
      <3>1. getParameterSetsNumber(counts) \in Int /\ set \in Nat /\ symbol \in Nat
        BY CountIsInt, OptimizerAssumption DEF IInv, Counted, Symbols
      <3> QED
        BY <1>1, <3>1 DEF RunTest, LastSet, IInv, BegunExists
    <2> QED
      BY <1>1, <1>3, <2>1, ReportIInv
  <1> QED
    BY <1>1, <1>2, <1>3

LEMMA EvaluateIInv == IInv /\ Evaluate => IInv'
  <1> SUFFICES ASSUME IInv, Evaluate PROVE IInv'
    OBVIOUS
  <1>1. /\ UNCHANGED <<counts, set, reports>>
        /\ symbol' \in {symbol, NextSymbol}
        /\ phase' \in {"evaluation", "hook", "dead"}
    BY DEF Evaluate
  <1>2. symbol' \in Symbols
    BY <1>1, SymbolStep DEF IInv, Counted, NextSymbol
  <1> QED
    BY <1>1, <1>2 DEF IInv, Counted, BeforeRuns, BegunExists, ReportsInOrder, Pairs

LEMMA StepIInv == IInv /\ [Next]_vars => IInv'
  <1> SUFFICES ASSUME IInv, [Next]_vars PROVE IInv'
    OBVIOUS
  <1>1. CASE Begin
    BY <1>1, BeginIInv
  <1>2. CASE Refused
    BY <1>2, QuietIInv DEF Refused
  <1>3. CASE StoreSet
    BY <1>3, StoreSetIInv
  <1>4. CASE EndRuns
    BY <1>4, QuietIInv DEF EndRuns
  <1>5. CASE RunTest
    BY <1>5, RunTestIInv
  <1>6. CASE Evaluate
    BY <1>6, EvaluateIInv
  <1>7. CASE GenerationHook
    BY <1>7, QuietIInv DEF GenerationHook
  <1>8. CASE EvolutionEnds
    BY <1>8, QuietIInv DEF EvolutionEnds
  <1>9. CASE StopOptimization
    BY <1>9, QuietIInv DEF StopOptimization
  <1>10. CASE UNCHANGED vars
    BY <1>10, QuietIInv DEF vars
  <1> QED
    BY <1>1, <1>2, <1>3, <1>4, <1>5, <1>6, <1>7, <1>8, <1>9, <1>10 DEF Next, Work

\* optimizationUpdate is called once for each combination and symbol the loops have passed.
THEOREM EachReportedOnce == Spec => []ReportsInOrder
  <1>1. IInv => ReportsInOrder
    BY DEF IInv
  <1> QED
    BY <1>1, InitIInv, StepIInv, PTL DEF Spec

-----------------------------------------------------------------------------
(* Convergence. *)

\* Until an optimization has stored five best fits, the -1 of the start of the process is behind them.
MarkerBehind ==
    /\ generationDifferences \in [1..5 -> Int]
    /\ recorded \in 0..5 /\ inherited \in BOOLEAN
    /\ (~inherited /\ recorded < 5) => generationDifferences[recorded + 1] = -1
    /\ phase = "converged" => Converged(generationDifferences)

LEMMA InitMarker == Init => MarkerBehind
  <1> SUFFICES ASSUME Init PROVE MarkerBehind
    OBVIOUS
  <1>1. generationDifferences = <<-1, 0, 0, 0, 0>> /\ recorded = 0 /\ inherited = FALSE /\ phase = "idle"
    BY DEF Init
  <1>2. generationDifferences \in [1..5 -> Int] /\ generationDifferences[1] = -1
    BY <1>1
  <1>3. generationDifferences[recorded + 1] = -1
    BY <1>1, <1>2
  <1>4. recorded \in 0..5
    BY <1>1
  <1>5. inherited \in BOOLEAN
    BY <1>1, Zenon
  <1>6. phase # "converged"
    BY <1>1
  <1> QED
    BY <1>2, <1>3, <1>4, <1>5, <1>6 DEF MarkerBehind

LEMMA HookMarker == MarkerBehind /\ GenerationHook => MarkerBehind'
  <1> SUFFICES ASSUME MarkerBehind, GenerationHook PROVE MarkerBehind'
    OBVIOUS
  <1>1. inherited' = inherited
    BY DEF GenerationHook
  <1>2. CASE LastGeneration
    <2>1. phase' = "idle" /\ generationDifferences' = generationDifferences /\ recorded' = recorded
      BY <1>2 DEF GenerationHook
    <2> QED
      BY <1>1, <2>1 DEF MarkerBehind
  <1>3. CASE ~LastGeneration
    <2>1. PICK fit \in Fits :
            /\ generationDifferences' = Shifted(generationDifferences, fit)
            /\ recorded' = IF recorded = 5 THEN 5 ELSE recorded + 1
            /\ phase' = IF Converged(generationDifferences') THEN "converged"
                        ELSE IF stopOpti THEN "idle" ELSE "evaluation"
      BY <1>3 DEF GenerationHook
    <2>2. fit \in Int
      BY OptimizerAssumption
    <2>3. /\ generationDifferences \in [1..5 -> Int] /\ recorded \in 0..5 /\ inherited \in BOOLEAN
          /\ (~inherited /\ recorded < 5) => generationDifferences[recorded + 1] = -1
      BY DEF MarkerBehind
    <2>4. generationDifferences' = [i \in 1..5 |-> IF i = 1 THEN fit ELSE generationDifferences[i - 1]]
      BY <2>1 DEF Shifted
    <2>5. generationDifferences' \in [1..5 -> Int]
      BY <2>2, <2>3, <2>4
    <2>6. recorded' \in 0..5 /\ (recorded' < 5 => recorded' = recorded + 1)
      BY <2>1, <2>3
    <2>7. (~inherited' /\ recorded' < 5) => generationDifferences'[recorded' + 1] = -1
      <3> SUFFICES ASSUME ~inherited, recorded' < 5 PROVE generationDifferences'[recorded' + 1] = -1
        BY <1>1
      <3>1. recorded' + 1 \in 2..5 /\ (recorded' + 1) - 1 = recorded + 1 /\ recorded < 5
        BY <2>3, <2>6
      <3>2. generationDifferences'[recorded' + 1] = generationDifferences[(recorded' + 1) - 1]
        BY <2>4, <3>1
      <3> QED
        BY <2>3, <3>1, <3>2
    <2>8. phase' = "converged" => Converged(generationDifferences')
      BY <2>1
    <2> QED
      BY <1>1, <2>3, <2>5, <2>6, <2>7, <2>8 DEF MarkerBehind
  <1> QED
    BY <1>2, <1>3

LEMMA BeginMarker == MarkerBehind /\ Begin => MarkerBehind'
  <1> SUFFICES ASSUME MarkerBehind, Begin PROVE MarkerBehind'
    OBVIOUS
  <1>1. /\ recorded' = 0 /\ generationDifferences' = generationDifferences
        /\ inherited' = (inherited \/ recorded > 0)
        /\ phase' # "converged"
    BY DEF Begin, BruteForce, Genetic
  <1>2. /\ generationDifferences \in [1..5 -> Int] /\ recorded \in 0..5 /\ inherited \in BOOLEAN
        /\ (~inherited /\ recorded < 5) => generationDifferences[recorded + 1] = -1
    BY DEF MarkerBehind
  <1>3. ~inherited' => ~inherited /\ recorded = 0
    <2>1. ~inherited' => ~inherited /\ ~(recorded > 0)
      BY <1>1, Zenon
    <2>2. ~(recorded > 0) => recorded = 0
      BY <1>2
    <2> QED
      BY <2>1, <2>2, Zenon
  <1>4. ~inherited' => generationDifferences'[recorded' + 1] = -1
    BY <1>1, <1>2, <1>3
  <1>5. generationDifferences' \in [1..5 -> Int] /\ recorded' \in 0..5 /\ inherited' \in BOOLEAN
    BY <1>1, <1>2
  <1> QED
    BY <1>1, <1>4, <1>5 DEF MarkerBehind

\* A step that leaves the genetic algorithm's variables alone and does not find convergence.
LEMMA QuietMarker ==
    ASSUME MarkerBehind, UNCHANGED genetic, phase' = phase \/ phase' # "converged"
    PROVE  MarkerBehind'
  <1>1. generationDifferences' = generationDifferences /\ recorded' = recorded /\ inherited' = inherited
    BY DEF genetic
  <1>2. (phase' = "converged" => Converged(generationDifferences)) =>
          (phase' = "converged" => Converged(generationDifferences'))
    BY <1>1
  <1>3. phase' = "converged" => Converged(generationDifferences)
    BY DEF MarkerBehind
  <1> QED
    BY <1>1, <1>2, <1>3 DEF MarkerBehind

LEMMA StepMarker == MarkerBehind /\ [Next]_vars => MarkerBehind'
  <1> SUFFICES ASSUME MarkerBehind, [Next]_vars PROVE MarkerBehind'
    OBVIOUS
  <1>1. CASE Begin
    BY <1>1, BeginMarker
  <1>2. CASE GenerationHook
    BY <1>2, HookMarker
  <1>3. CASE Refused \/ StoreSet \/ EndRuns
    <2>1. UNCHANGED genetic /\ (phase' = phase \/ phase' # "converged")
      BY <1>3 DEF Refused, StoreSet, EndRuns
    <2> QED
      BY <2>1, QuietMarker
  <1>4. CASE RunTest \/ Evaluate
    <2>1. UNCHANGED genetic /\ (phase' = phase \/ phase' # "converged")
      BY <1>4 DEF RunTest, Evaluate
    <2> QED
      BY <2>1, QuietMarker
  <1>5. CASE EvolutionEnds \/ StopOptimization \/ UNCHANGED vars
    <2>1. UNCHANGED genetic /\ (phase' = phase \/ phase' # "converged")
      BY <1>5 DEF EvolutionEnds, StopOptimization, vars
    <2> QED
      BY <2>1, QuietMarker
  <1> QED
    BY <1>1, <1>2, <1>3, <1>4, <1>5 DEF Next, Work

\* A population is only found to have converged by five generations of its own, unless an earlier
\* optimization has left its best fits in generationDifferences.
THEOREM ConvergenceIsOwn == Spec => []ConvergesOnItsOwn
  <1>1. MarkerBehind => ConvergesOnItsOwn
    <2> SUFFICES ASSUME MarkerBehind, phase = "converged", ~inherited, recorded # 5 PROVE FALSE
      BY DEF ConvergesOnItsOwn
    <2>1. recorded + 1 \in 1..5 /\ generationDifferences[recorded + 1] = -1
      BY DEF MarkerBehind
    <2>2. \A i \in 1..5 : generationDifferences[i] >= 0
      BY DEF MarkerBehind, Converged
    <2>3. generationDifferences[recorded + 1] >= 0
      BY <2>1, <2>2
    <2> QED
      BY <2>1, <2>3
  <1> QED
    BY <1>1, InitMarker, StepMarker, PTL DEF Spec

-----------------------------------------------------------------------------
(* The combinations that are stored. *)

\* While the loop stores them, and when it has ended, there is one for each number so far, and the
\* parameters wrap first at the number after them.
Stored ==
    /\ counts \in StepCounts
    /\ phase \in {"sets", "runs"} =>
         /\ sets \in Seq([1..Len(counts) -> Nat])
         /\ \A j \in 1..Len(sets) : sets[j] = Combination(counts, j - 1) /\ ~AllWrapped(counts, j - 1)
    /\ phase = "runs" => AllWrapped(counts, Len(sets))

LEMMA InitStored == Init => Stored
  BY DEF Init, Stored

LEMMA BeginStored == Begin => Stored'
  <1> SUFFICES ASSUME Begin PROVE Stored'
    OBVIOUS
  <1>1. counts' \in StepCounts /\ sets' = <<>> /\ phase' # "runs"
    BY DEF Begin, BruteForce, Genetic
  <1>2. sets' \in Seq([1..Len(counts') -> Nat]) /\ Len(sets') = 0
    BY <1>1
  <1> QED
    BY <1>1, <1>2 DEF Stored

\* A step that leaves the combinations alone and enters neither loop.
LEMMA QuietStored ==
    ASSUME Stored, UNCHANGED <<counts, sets>>, phase' = phase \/ phase' \notin {"sets", "runs"}
    PROVE  Stored'
  BY DEF Stored

LEMMA StoreSetStored == Stored /\ StoreSet => Stored'
  <1> SUFFICES ASSUME Stored, StoreSet PROVE Stored'
    OBVIOUS
  <1> DEFINE S == [1..Len(counts) -> Nat]
             c == Combination(counts, Len(sets))
  <1>1. /\ counts \in StepCounts /\ counts' = counts /\ phase = "sets"
        /\ sets \in Seq(S)
        /\ \A j \in 1..Len(sets) : sets[j] = Combination(counts, j - 1) /\ ~AllWrapped(counts, j - 1)
    BY DEF Stored, StoreSet
  <1>2. Len(sets) \in Nat
    BY <1>1
  <1>3. CASE AllWrapped(counts, Len(sets))
    <2>1. phase' = "runs" /\ sets' = sets
      BY <1>3 DEF StoreSet
    <2> QED
      BY <1>1, <1>3, <2>1 DEF Stored
  <1>4. CASE ~AllWrapped(counts, Len(sets))
    <2>1. sets' = Append(sets, c) /\ phase' \in {"sets", "dead"}
      BY <1>4 DEF StoreSet
    <2>2. c \in S
      BY <1>1, <1>2, CombinationIs
    <2> HIDE DEF S
    <2>3. sets' \in Seq(S) /\ Len(sets') = Len(sets) + 1
      BY <1>1, <2>1, <2>2
    <2>4. ASSUME NEW j \in 1..Len(sets')
          PROVE  sets'[j] = Combination(counts, j - 1) /\ ~AllWrapped(counts, j - 1)
      <3>1. CASE j = Len(sets) + 1
        <4>1. sets'[j] = c /\ j - 1 = Len(sets)
          BY <1>1, <1>2, <2>1, <2>2, <3>1
        <4> QED
          BY <1>4, <4>1
      <3>2. CASE j # Len(sets) + 1
        <4>1. j \in 1..Len(sets)
          BY <1>2, <2>3, <3>2
        <4>2. sets'[j] = sets[j]
          BY <1>1, <2>1, <2>2, <4>1
        <4> QED
          BY <1>1, <4>1, <4>2
      <3> QED
        BY <3>1, <3>2
    <2> QED
      BY <1>1, <2>1, <2>3, <2>4 DEF Stored, S
  <1> QED
    BY <1>3, <1>4

LEMMA StepStored == Stored /\ [Next]_vars => Stored'
  <1> SUFFICES ASSUME Stored, [Next]_vars PROVE Stored'
    OBVIOUS
  <1>1. CASE Begin
    BY <1>1, BeginStored
  <1>2. CASE StoreSet
    BY <1>2, StoreSetStored
  <1>3. CASE Refused \/ EndRuns \/ EvolutionEnds \/ StopOptimization \/ UNCHANGED vars
    <2>1. UNCHANGED <<counts, sets>> /\ (phase' = phase \/ phase' \notin {"sets", "runs"})
      BY <1>3 DEF Refused, EndRuns, EvolutionEnds, StopOptimization, brute, vars
    <2> QED
      BY <2>1, QuietStored
  <1>4. CASE RunTest
    <2>1. UNCHANGED <<counts, sets>> /\ (phase' = phase \/ phase' \notin {"sets", "runs"})
      BY <1>4 DEF RunTest
    <2> QED
      BY <2>1, QuietStored
  <1>5. CASE Evaluate
    <2>1. UNCHANGED <<counts, sets>> /\ (phase' = phase \/ phase' \notin {"sets", "runs"})
      BY <1>5 DEF Evaluate
    <2> QED
      BY <2>1, QuietStored
  <1>6. CASE GenerationHook
    <2>1. UNCHANGED <<counts, sets>> /\ (phase' = phase \/ phase' \notin {"sets", "runs"})
      BY <1>6 DEF GenerationHook, brute
    <2> QED
      BY <2>1, QuietStored
  <1> QED
    BY <1>1, <1>2, <1>3, <1>4, <1>5, <1>6 DEF Next, Work

\* When they are stored, they are all there are, in the order of their numbers.
LEMMA StoredAll ==
    ASSUME Stored, phase = "runs"
    PROVE  /\ Len(sets) = Product(counts) /\ Product(counts) \in Nat
           /\ \A n \in 0..Product(counts) - 1 : sets[n + 1] = Combination(counts, n)
           /\ ToSet(sets) = Combinations(counts)
  <1>1. /\ counts \in StepCounts /\ sets \in Seq([1..Len(counts) -> Nat])
        /\ \A j \in 1..Len(sets) : sets[j] = Combination(counts, j - 1) /\ ~AllWrapped(counts, j - 1)
        /\ AllWrapped(counts, Len(sets))
    BY DEF Stored
  <1>2. Len(sets) \in Nat
    BY <1>1
  <1>3. /\ Product(counts) \in Nat /\ AllWrapped(counts, Product(counts))
        /\ \A n \in Nat : AllWrapped(counts, n) => n >= Product(counts)
    BY <1>1, WrapsAtProduct
  <1>4. Len(sets) = Product(counts)
    <2>1. Len(sets) >= Product(counts)
      BY <1>1, <1>2, <1>3
    <2>2. ASSUME Product(counts) < Len(sets) PROVE FALSE
      <3>1. Product(counts) + 1 \in 1..Len(sets) /\ (Product(counts) + 1) - 1 = Product(counts)
        BY <1>2, <1>3, <2>2
      <3>2. ~AllWrapped(counts, (Product(counts) + 1) - 1)
        BY <1>1, <3>1
      <3> QED
        BY <1>3, <3>1, <3>2
    <2> QED
      BY <1>2, <1>3, <2>1, <2>2
  <1>5. \A n \in 0..Product(counts) - 1 : sets[n + 1] = Combination(counts, n)
    <2> SUFFICES ASSUME NEW n \in 0..Product(counts) - 1 PROVE sets[n + 1] = Combination(counts, n)
      OBVIOUS
    <2>1. n + 1 \in 1..Len(sets) /\ (n + 1) - 1 = n
      BY <1>2, <1>3, <1>4
    <2> QED
      BY <1>1, <2>1
  <1>6. ToSet(sets) = {Combination(counts, n) : n \in 0..Product(counts) - 1}
    <2>1. ToSet(sets) = {sets[j] : j \in 1..Len(sets)}
      BY <1>1 DEF ToSet
    <2>2. ASSUME NEW j \in 1..Len(sets) PROVE \E n \in 0..Product(counts) - 1 : sets[j] = Combination(counts, n)
      <3>1. j - 1 \in 0..Product(counts) - 1
        BY <1>2, <1>4
      <3> QED
        BY <1>1, <3>1
    <2>3. ASSUME NEW n \in 0..Product(counts) - 1
          PROVE  \E j \in 1..Len(sets) : sets[j] = Combination(counts, n)
      <3>1. n + 1 \in 1..Len(sets)
        BY <1>2, <1>3, <1>4
      <3> QED
        BY <1>5, <3>1
    <2> QED
      BY <2>1, <2>2, <2>3
  <1> QED
    BY <1>1, <1>3, <1>4, <1>5, <1>6, AllCombinations

\* The loop of runOptimizationMultipleSymbols stores every combination of the parameters' values once
\* and nothing else, whatever their numbers, before the tests begin.
THEOREM EveryCombination == Spec => []SetsComplete
  <1>1. Stored => SetsComplete
    BY StoredAll DEF SetsComplete
  <1> QED
    BY <1>1, InitStored, StepStored, PTL DEF Spec

\* Brute force that was not stopped, and whose number of combinations an int holds, has reported every
\* combination of the parameters' values once for each symbol when it ends, and nothing else.
THEOREM NoneLeftOut == Spec => EndsComplete
  <1> DEFINE Ending == phase = "runs" /\ phase' = "idle" /\ ~stopOpti /\ NoOverflow(counts)
             Every == {<<sets[p[1] + 1], p[2]>> : p \in DOMAIN reports} = Combinations(counts) \X Symbols
             Once == \A p \in DOMAIN reports : reports[p] = 1
  <1>1. IInv /\ Stored /\ [Next]_vars => [Ending => Every /\ Once]_vars
    <2> SUFFICES ASSUME IInv, Stored, [Next]_vars, Ending PROVE Every /\ Once
      OBVIOUS
    <2>1. EndRuns
      BY DEF Next, Work, vars, Begin, Refused, StoreSet, RunTest, Evaluate, GenerationHook,
             EvolutionEnds, StopOptimization
    <2>2. symbol = 0 /\ set >= getParameterSetsNumber(counts)
      BY <2>1 DEF EndRuns, LastSet
    <2>3. getParameterSetsNumber(counts) \in Int /\ set \in Nat
      BY CountIsInt DEF IInv, Counted
    <2>4. Once
      <3> SUFFICES ASSUME NEW p \in DOMAIN reports PROVE reports[p] = 1
        OBVIOUS
      <3>1. reports[p] = IF p[1] < set \/ (p[1] = set /\ p[2] < symbol) THEN 1 ELSE 0
        BY DEF IInv, ReportsInOrder
      <3>2. p[1] \in Int /\ p[1] <= getParameterSetsNumber(counts) - 1
        BY <2>3 DEF IInv, Counted, Pairs
      <3> QED
        BY <2>2, <2>3, <3>1, <3>2
    <2>5. Every
      <3> DEFINE X == Product(counts)
      <3>1. /\ X \in Nat
            /\ \A n \in 0..X - 1 : sets[n + 1] = Combination(counts, n)
        BY StoredAll
      <3>2. DOMAIN reports = (0..X - 1) \X Symbols
        BY CountIsProduct DEF IInv, Counted, Pairs
      <3>3. {Combination(counts, n) : n \in 0..X - 1} = Combinations(counts)
        BY AllCombinations DEF Stored
      <3> HIDE DEF X
      <3>4. ASSUME NEW p \in (0..X - 1) \X Symbols
            PROVE  <<sets[p[1] + 1], p[2]>> \in Combinations(counts) \X Symbols
        BY <3>1, <3>3
      <3>5. ASSUME NEW q \in Combinations(counts) \X Symbols
            PROVE  \E p \in (0..X - 1) \X Symbols : q = <<sets[p[1] + 1], p[2]>>
        <4>1. PICK n \in 0..X - 1 : q[1] = Combination(counts, n)
          BY <3>3
        <4>2. <<n, q[2]>> \in (0..X - 1) \X Symbols /\ q = <<sets[n + 1], q[2]>>
          BY <3>1, <4>1
        <4> QED
          BY <4>2
      <3> QED
        BY <3>2, <3>4, <3>5
    <2> QED
      BY <2>4, <2>5
  <1>2. Spec => []Stored
    BY InitStored, StepStored, PTL DEF Spec
  <1> QED
    BY <1>1, <1>2, InitIInv, StepIInv, PTL DEF Spec, EndsComplete

-----------------------------------------------------------------------------
(* Types. *)

Typed ==
    /\ phase \in {"idle", "refused", "sets", "runs", "evaluation", "hook", "converged", "dead"}
    /\ stopOpti \in BOOLEAN
    /\ testId \in Nat /\ asked \in 0..MaxOptimizations
    /\ generation \in 0..MaxGenerations
    /\ generationDifferences \in [1..5 -> Fits \cup {-1, 0}]
    /\ recorded \in 0..5

LEMMA StepTyped == Typed /\ [Next]_vars => Typed'
  <1> SUFFICES ASSUME Typed, [Next]_vars PROVE Typed'
    OBVIOUS
  <1>1. CASE Begin
    <2>1. /\ phase' \in {"idle", "refused", "sets", "evaluation"} /\ stopOpti' = FALSE /\ testId' = 1
          /\ asked' = asked + 1 /\ asked < MaxOptimizations
          /\ generation' = 0 /\ recorded' = 0 /\ generationDifferences' = generationDifferences
      BY <1>1 DEF Begin, BruteForce, Genetic
    <2>2. asked' \in 0..MaxOptimizations /\ generation' \in 0..MaxGenerations
      BY <2>1, OptimizerAssumption DEF Typed
    <2>3. stopOpti' \in BOOLEAN
      BY <2>1, Zenon
    <2>4. phase' \in {"idle", "refused", "sets", "runs", "evaluation", "hook", "converged", "dead"}
      BY <2>1
    <2>5. recorded' \in 0..5 /\ testId' \in Nat
      BY <2>1
    <2> QED
      BY <2>1, <2>2, <2>3, <2>4, <2>5 DEF Typed
  <1>2. CASE Refused \/ StoreSet \/ EndRuns \/ EvolutionEnds \/ UNCHANGED vars
    <2>1. /\ UNCHANGED <<stopOpti, testId, asked, generation, generationDifferences, recorded>>
          /\ phase' \in {phase, "idle", "sets", "runs", "dead"}
      BY <1>2 DEF Refused, StoreSet, EndRuns, EvolutionEnds, vars, shared, brute, genetic
    <2> QED
      BY <2>1 DEF Typed
  <1>3. CASE RunTest
    <2>1. /\ UNCHANGED <<stopOpti, asked, generation, generationDifferences, recorded>>
          /\ phase' \in {phase, "dead"} /\ testId' \in {testId, testId + 1}
      BY <1>3 DEF RunTest, genetic
    <2> QED
      BY <2>1 DEF Typed
  <1>4. CASE Evaluate
    <2>1. /\ UNCHANGED <<stopOpti, testId, asked, generation, generationDifferences, recorded>>
          /\ phase' \in {"dead", "hook", "evaluation"}
      BY <1>4 DEF Evaluate, genetic
    <2> QED
      BY <2>1 DEF Typed
  <1>5. CASE GenerationHook
    <2>1. /\ UNCHANGED <<stopOpti, testId, asked>>
          /\ generation' = IF generation = MaxGenerations THEN generation ELSE generation + 1
      BY <1>5 DEF GenerationHook, shared, brute
    <2>2. generation' \in 0..MaxGenerations
      BY <2>1, OptimizerAssumption DEF Typed
    <2>3. CASE LastGeneration
      <3>1. phase' = "idle" /\ UNCHANGED <<generationDifferences, recorded>>
        BY <1>5, <2>3 DEF GenerationHook
      <3> QED
        BY <2>1, <2>2, <3>1 DEF Typed
    <2>4. CASE ~LastGeneration
      <3>1. PICK fit \in Fits :
              /\ generationDifferences' = Shifted(generationDifferences, fit)
              /\ recorded' = IF recorded = 5 THEN 5 ELSE recorded + 1
              /\ phase' \in {"converged", "idle", "evaluation"}
        BY <1>5, <2>4 DEF GenerationHook
      <3>2. generationDifferences' \in [1..5 -> Fits \cup {-1, 0}]
        <4>1. generationDifferences' = [i \in 1..5 |-> IF i = 1 THEN fit ELSE generationDifferences[i - 1]]
          BY <3>1 DEF Shifted
        <4> QED
          BY <4>1 DEF Typed
      <3>3. recorded' \in 0..5
        BY <3>1 DEF Typed
      <3> QED
        BY <2>1, <2>2, <3>1, <3>2, <3>3 DEF Typed
    <2> QED
      BY <2>3, <2>4
  <1>6. CASE StopOptimization
    <2>1. UNCHANGED <<phase, testId, asked, generation, generationDifferences, recorded>> /\ stopOpti' = TRUE
      BY <1>6 DEF StopOptimization, brute, genetic
    <2> QED
      BY <2>1 DEF Typed
  <1> QED
    BY <1>1, <1>2, <1>3, <1>4, <1>5, <1>6 DEF Next, Work

LEMMA InitTyped == Init => Typed
  <1> SUFFICES ASSUME Init PROVE Typed
    OBVIOUS
  <1>1. generationDifferences = <<-1, 0, 0, 0, 0>>
    BY DEF Init
  <1>2. generationDifferences \in [1..5 -> Fits \cup {-1, 0}]
    BY <1>1
  <1>3. /\ phase = "idle" /\ stopOpti = FALSE /\ testId = 1 /\ asked = 0 /\ generation = 0 /\ recorded = 0
    BY DEF Init
  <1>4. 0 \in 0..MaxOptimizations /\ 0 \in 0..MaxGenerations
    BY OptimizerAssumption
  <1>5. stopOpti \in BOOLEAN
    BY <1>3, Zenon
  <1>6. recorded \in 0..5 /\ testId \in Nat
    BY <1>3
  <1> QED
    BY <1>2, <1>3, <1>4, <1>5, <1>6 DEF Typed

\* The variables keep their types.
THEOREM OptimizerTypes == Spec => []TypeOK
  <1>1. Typed /\ IInv /\ MarkerBehind => TypeOK
    <2> SUFFICES ASSUME Typed, IInv, MarkerBehind PROVE TypeOK
      OBVIOUS
    <2>1. counts \in StepCounts /\ set \in Nat /\ symbol \in Symbols /\ reports \in [Pairs(counts) -> Nat]
      BY DEF IInv, Counted
    <2>2. inherited \in BOOLEAN
      BY DEF MarkerBehind
    <2> QED
      BY <2>1, <2>2 DEF Typed, TypeOK, Pairs
  <1> QED
    BY <1>1, InitTyped, StepTyped, InitIInv, StepIInv, InitMarker, StepMarker, PTL DEF Spec

=============================================================================
