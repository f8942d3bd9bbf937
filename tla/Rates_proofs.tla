---------------------------- MODULE Rates_proofs ----------------------------
(***************************************************************************)
(* Proofs about the bars a strategy reads: RatesConversion, which builds   *)
(* them, and RatesWindow, which keeps them.                                *)
(*                                                                         *)
(* RatesConversion, for any ratio, size of the window and of the           *)
(* terminal's array, closed times, histories, ticks, calls and             *)
(* re-initialisations: the variables keep their types; and, as long as     *)
(* every array the library may be handed has valid bars of more buckets    *)
(* than it keeps bars (LongEnough), the completed bars are those of the    *)
(* reference definition, none is left out, and the current one is up to    *)
(* date.  Without LongEnough they are not: when the discarded bars of a    *)
(* weekend leave an array valid bars of just as many buckets, the oldest   *)
(* of these may have begun before the array, and fillEmptyRatesBuffer      *)
(* makes its bar of the rest; with fewer it leaves bars unwritten.  The    *)
(* parts of the invariant are operators of the terminal's bars s, the      *)
(* converted bars r, the remembered volume o, the calls c and the tick e   *)
(* of the last filling.                                                    *)
(*                                                                         *)
(* RatesWindow, for every window size, extension and set of bars: the      *)
(* types, and that it implements SlidingWindow.                            *)
(***************************************************************************)
EXTENDS RatesConversion, RatesWindow, InductionLemmas


-----------------------------------------------------------------------------
(* The terminal's bars, by their place in its history. *)

SourceBars == [time : Nat, first : Nat, last : Nat]
Bars == [time : Nat, open : Nat, close : Nat, covers : SUBSET Nat, volume : Int]
Remembered == [time : Int, volume : Int]

Places(s) == 1..Len(s)
V(s, n) == IsValid(s[n])
B(s, n) == Bucket(s[n].time)

\* The valid bars of a bucket.
In(s, b) == {n \in Places(s) : V(s, n) /\ B(s, n) = b}
IsFirst(s, n) == n \in Places(s) /\ V(s, n) /\ \A m \in In(s, B(s, n)) : n <= m
IsLast(s, n) == n \in Places(s) /\ V(s, n) /\ \A m \in In(s, B(s, n)) : m <= n

\* The terminal's bars follow each other.
Ordered(s) ==
    /\ s \in Seq(SourceBars) /\ Len(s) >= ArraySize
    /\ \A n \in Places(s) : s[n].first <= s[n].last
    /\ \A m, n \in Places(s) : m < n => s[m].time < s[n].time /\ s[m].last < s[n].first

\* The library was called at ticks there were.
Past(s, c, e) ==
    /\ c \in SUBSET Nat /\ \A t \in c : t <= s[Len(s)].last
    /\ e \in Nat /\ e <= s[Len(s)].last

Typed ==
    /\ rates \in [Shifts -> Bars] /\ isBufferFull \in BOOLEAN /\ old \in Remembered
    /\ Ordered(source) /\ Past(source, calls, filled)

LEMMA Constants == Ratio \in Nat \ {0} /\ Size \in Nat /\ Size >= 2 /\ ArraySize \in Nat /\ ArraySize >= 2
  <1>1. Ratio \in Nat \ {0} /\ Size \in Nat /\ Size >= 2 /\ ArraySize \in Nat /\ ArraySize >= Size * Ratio
    BY ConversionAssumption
  <1>2. Size * Ratio >= Size
    BY <1>1
  <1> QED
    BY <1>1, <1>2

\* A later time is of the same or a later bucket.
LEMMA BucketMonotone ==
    ASSUME NEW t \in Nat, NEW u \in Nat
    PROVE  Bucket(t) \in Nat /\ (t <= u => Bucket(t) <= Bucket(u))
  <1> DEFINE p == t \div Ratio
             q == u \div Ratio
  <1>1. /\ p \in Nat /\ q \in Nat
        /\ t = p * Ratio + (t % Ratio) /\ u = q * Ratio + (u % Ratio)
        /\ t % Ratio \in 0..Ratio - 1 /\ u % Ratio \in 0..Ratio - 1
    BY Constants
  <1>2. ASSUME t <= u, q < p PROVE FALSE
    <2> HIDE DEF p, q
    <2>1. q + 1 <= p
      BY <1>1, <1>2
    <2>2. (q + 1) * Ratio <= p * Ratio
      BY <1>1, <2>1, Constants
    <2>3. (q + 1) * Ratio = q * Ratio + Ratio
      BY <1>1, Constants
    <2>4. q * Ratio \in Nat /\ p * Ratio \in Nat
      BY <1>1, Constants
    <2> QED
      BY <1>1, <1>2, <2>2, <2>3, <2>4, Constants
  <1> QED
    BY <1>1, <1>2 DEF Bucket

LEMMA PlacesAre ==
    ASSUME NEW s, Ordered(s)
    PROVE  /\ Len(s) \in Nat /\ Len(s) >= ArraySize /\ Len(s) \in Places(s) /\ Places(s) \in SUBSET Nat
           /\ \A n \in Places(s) : /\ s[n] \in SourceBars /\ s[n].time \in Nat /\ s[n].first \in Nat
                                   /\ s[n].last \in Nat /\ s[n].first <= s[n].last /\ B(s, n) \in Nat
  <1>1. Len(s) \in Nat /\ Len(s) >= ArraySize /\ Len(s) \in Places(s) /\ Places(s) \in SUBSET Nat
    BY Constants DEF Ordered, Places
  <1>2. ASSUME NEW n \in Places(s)
        PROVE  s[n] \in SourceBars /\ s[n].time \in Nat /\ s[n].first \in Nat /\ s[n].last \in Nat
    <2>1. s[n] \in SourceBars
      BY DEF Ordered, Places
    <2> QED
      BY <2>1 DEF SourceBars
  <1>3. \A n \in Places(s) : s[n].first <= s[n].last
    BY DEF Ordered
  <1>4. \A n \in Places(s) : B(s, n) \in Nat
    BY <1>2, BucketMonotone DEF B
  <1> QED
    BY <1>1, <1>2, <1>3, <1>4

LEMMA PlacesInOrder ==
    ASSUME NEW s, Ordered(s), NEW m \in Places(s), NEW n \in Places(s)
    PROVE  /\ m <= n => B(s, m) <= B(s, n)
           /\ B(s, m) < B(s, n) => m < n
           /\ s[m].time = s[n].time => m = n
           /\ m < n => s[m].time < s[n].time /\ s[m].last < s[n].first
           /\ m # n => Ticks(s[m]) \cap Ticks(s[n]) = {}
  <1>0. /\ m \in Nat /\ n \in Nat /\ s[m].time \in Nat /\ s[n].time \in Nat /\ s[m].first \in Nat
        /\ s[m].last \in Nat /\ s[n].first \in Nat /\ s[n].last \in Nat
        /\ s[m].first <= s[m].last /\ s[n].first <= s[n].last /\ B(s, m) \in Nat /\ B(s, n) \in Nat
    BY PlacesAre
  <1>1. m < n => s[m].time < s[n].time /\ s[m].last < s[n].first
    BY DEF Ordered
  <1>2. n < m => s[n].time < s[m].time /\ s[n].last < s[m].first
    BY DEF Ordered
  <1>3. m <= n => B(s, m) <= B(s, n)
    <2>1. m <= n => s[m].time <= s[n].time
      BY <1>0, <1>1
    <2> QED
      BY <1>0, <2>1, BucketMonotone DEF B
  <1>4. n <= m => B(s, n) <= B(s, m)
    <2>1. n <= m => s[n].time <= s[m].time
      BY <1>0, <1>2
    <2> QED
      BY <1>0, <2>1, BucketMonotone DEF B
  <1>5. B(s, m) < B(s, n) => m < n
    BY <1>0, <1>4
  <1>6. s[m].time = s[n].time => m = n
    BY <1>0, <1>1, <1>2
  <1>7. m # n => Ticks(s[m]) \cap Ticks(s[n]) = {}
    BY <1>0, <1>1, <1>2 DEF Ticks
  <1> QED
    BY <1>1, <1>3, <1>5, <1>6, <1>7

LEMMA InAre ==
    ASSUME NEW s, Ordered(s), NEW b
    PROVE  /\ In(s, b) \in SUBSET Nat /\ In(s, b) \subseteq Places(s)
           /\ \A n \in In(s, b) : V(s, n) /\ B(s, n) = b
           /\ \A n \in Places(s) : (V(s, n) /\ B(s, n) = b) => n \in In(s, b)
  BY PlacesAre DEF In

\* A bucket with a valid bar has a first and a last one.
LEMMA FirstExists ==
    ASSUME NEW s, Ordered(s), NEW n \in Places(s), V(s, n)
    PROVE  \E f \in In(s, B(s, n)) : IsFirst(s, f)
  <1>1. n \in In(s, B(s, n)) /\ In(s, B(s, n)) \in SUBSET Nat
    BY InAre
  <1>2. PICK f \in In(s, B(s, n)) : \A m \in In(s, B(s, n)) : f <= m
    BY <1>1, LeastNatural
  <1>3. f \in Places(s) /\ V(s, f) /\ B(s, f) = B(s, n)
    BY InAre
  <1> QED
    BY <1>2, <1>3 DEF IsFirst

LEMMA LastIsUnique ==
    ASSUME NEW s, Ordered(s), NEW m, NEW n, B(s, m) = B(s, n)
    PROVE  (IsFirst(s, m) /\ IsFirst(s, n) => m = n) /\ (IsLast(s, m) /\ IsLast(s, n) => m = n)
  <1>1. ASSUME IsFirst(s, m), IsFirst(s, n) PROVE m = n
    <2>1. m \in In(s, B(s, n)) /\ n \in In(s, B(s, m)) /\ m \in Nat /\ n \in Nat
      BY <1>1, InAre, PlacesAre DEF IsFirst
    <2> QED
      BY <1>1, <2>1 DEF IsFirst
  <1>2. ASSUME IsLast(s, m), IsLast(s, n) PROVE m = n
    <2>1. m \in In(s, B(s, n)) /\ n \in In(s, B(s, m)) /\ m \in Nat /\ n \in Nat
      BY <1>2, InAre, PlacesAre DEF IsLast
    <2> QED
      BY <1>2, <2>1 DEF IsLast
  <1> QED
    BY <1>1, <1>2

-----------------------------------------------------------------------------
(* Copied and merged bars. *)

\* A bar has the time, open, close and ticks of the terminal's bars at some places.
MadeOf(s, bar, I) ==
    \E f, l \in I :
        /\ \A n \in I : f <= n /\ n <= l
        /\ bar.time = s[f].time /\ bar.open = s[f].first /\ bar.close = s[l].last
        /\ bar.covers = UNION {Ticks(s[n]) : n \in I}

\* A bar's volume is the number of its ticks.
Counted(bar) == IsFiniteSet(bar.covers) /\ bar.volume = Cardinality(bar.covers)

Merging == [bar : Bars, old : Remembered]

LEMMA TicksAre ==
    ASSUME NEW x \in SourceBars
    PROVE  Ticks(x) \in SUBSET Nat /\ IsFiniteSet(Ticks(x)) /\ Cardinality(Ticks(x)) \in Nat
  <1>1. x.first \in Nat /\ x.last \in Nat
    BY DEF SourceBars
  <1>2. IsFiniteSet(x.first..x.last)
    BY <1>1, FS_Interval
  <1>3. Ticks(x) \in SUBSET Nat
    BY <1>1 DEF Ticks
  <1> QED
    BY <1>2, <1>3, FS_CardinalityType DEF Ticks

LEMMA CopyIs ==
    ASSUME NEW x \in SourceBars
    PROVE  copyBar(x) \in Bars /\ Counted(copyBar(x))
  <1>1. Ticks(x) \in SUBSET Nat /\ IsFiniteSet(Ticks(x)) /\ Cardinality(Ticks(x)) \in Nat
    BY TicksAre
  <1>2. x.time \in Nat /\ x.first \in Nat /\ x.last \in Nat
    BY DEF SourceBars
  <1> QED
    BY <1>1, <1>2 DEF copyBar, Bars, Counted

LEMMA CopyMade ==
    ASSUME NEW s, Ordered(s), NEW n \in Places(s)
    PROVE  MadeOf(s, copyBar(s[n]), {n})
  <1>1. n \in Nat
    BY PlacesAre
  <1>2. UNION {Ticks(s[m]) : m \in {n}} = Ticks(s[n])
    OBVIOUS
  <1> QED
    BY <1>1, <1>2 DEF MadeOf, copyBar

LEMMA MergeType ==
    ASSUME NEW into \in Merging, NEW x \in SourceBars
    PROVE  mergeBar(into, x) \in Merging
  <1>1. Ticks(x) \in SUBSET Nat /\ Cardinality(Ticks(x)) \in Nat
    BY TicksAre
  <1>2. x.time \in Nat /\ x.first \in Nat /\ x.last \in Nat
    BY DEF SourceBars
  <1>3. /\ into.bar.time \in Nat /\ into.bar.open \in Nat /\ into.bar.close \in Nat
        /\ into.bar.covers \in SUBSET Nat /\ into.bar.volume \in Int
        /\ into.old.time \in Int /\ into.old.volume \in Int
    BY DEF Merging, Bars, Remembered
  <1> DEFINE m == mergeBar(into, x)
  <1>4. m.old = [time |-> x.time, volume |-> Cardinality(Ticks(x))]
    BY DEF mergeBar
  <1>5. m.old \in Remembered
    BY <1>1, <1>2, <1>4 DEF Remembered
  <1>6. m.bar \in Bars
    BY <1>1, <1>2, <1>3 DEF mergeBar, Bars
  <1>7. m = [bar |-> m.bar, old |-> m.old]
    BY DEF mergeBar
  <1> QED
    BY <1>5, <1>6, <1>7 DEF Merging

\* Merging a bar older than those a converted bar was made of.
LEMMA MergeMade ==
    ASSUME NEW s, Ordered(s), NEW I \in SUBSET Places(s), NEW into \in Merging, MadeOf(s, into.bar, I),
           NEW j \in Places(s), \A n \in I : j < n
    PROVE  /\ MadeOf(s, mergeBar(into, s[j]).bar, I \cup {j})
           /\ mergeBar(into, s[j]).old.time = s[j].time
  <1> DEFINE bar == mergeBar(into, s[j]).bar
  <1>1. PICK f, l \in I :
            /\ \A n \in I : f <= n /\ n <= l
            /\ into.bar.time = s[f].time /\ into.bar.open = s[f].first /\ into.bar.close = s[l].last
            /\ into.bar.covers = UNION {Ticks(s[n]) : n \in I}
    BY DEF MadeOf
  <1>2. s[j].time < s[f].time /\ s[j].time \in Nat /\ s[f].time \in Nat
    BY <1>1, PlacesInOrder, PlacesAre
  <1>3. bar.time = s[j].time /\ bar.open = s[j].first /\ bar.close = s[l].last
    BY <1>1, <1>2 DEF mergeBar
  <1>4. bar.covers = (UNION {Ticks(s[n]) : n \in I}) \cup Ticks(s[j])
    BY <1>1 DEF mergeBar
  <1>5. bar.covers = UNION {Ticks(s[n]) : n \in I \cup {j}}
    BY <1>4
  <1>6. \A n \in I \cup {j} : j <= n /\ n <= l
    <2>1. j \in Nat /\ \A n \in I : n \in Nat
      BY PlacesAre
    <2> QED
      BY <1>1, <2>1
  <1>7. mergeBar(into, s[j]).old.time = s[j].time
    BY DEF mergeBar
  <1> HIDE DEF bar
  <1>8. MadeOf(s, bar, I \cup {j})
    BY <1>1, <1>3, <1>5, <1>6 DEF MadeOf
  <1> QED
    BY <1>7, <1>8 DEF bar

\* Merging adds the volume of a bar that is not the one merged before.
LEMMA MergeCounts ==
    ASSUME NEW s, Ordered(s), NEW I \in SUBSET Places(s), NEW into \in Merging, MadeOf(s, into.bar, I),
           NEW j \in Places(s), j \notin I, Counted(into.bar), into.old.time # -1, into.old.time # s[j].time
    PROVE  Counted(mergeBar(into, s[j]).bar)
  <1> DEFINE bar == mergeBar(into, s[j]).bar
             x == s[j]
  <1>1. x \in SourceBars /\ IsFiniteSet(Ticks(x)) /\ Cardinality(Ticks(x)) \in Nat
    BY PlacesAre, TicksAre
  <1>2. bar.covers = into.bar.covers \cup Ticks(x)
    BY DEF mergeBar
  <1>3. into.bar.volume \in Int
    BY DEF Merging, Bars
  <1>4. bar.volume = into.bar.volume + Cardinality(Ticks(x))
    BY <1>1, <1>3 DEF mergeBar
  <1>5. into.bar.covers = UNION {Ticks(s[n]) : n \in I}
    BY DEF MadeOf
  <1>6. \A n \in I : Ticks(s[n]) \cap Ticks(x) = {}
    BY PlacesInOrder
  <1>7. into.bar.covers \cap Ticks(x) = {}
    BY <1>5, <1>6
  <1>8. IsFiniteSet(into.bar.covers) /\ into.bar.volume = Cardinality(into.bar.covers)
    BY DEF Counted
  <1> HIDE DEF bar, x
  <1>9. /\ IsFiniteSet(into.bar.covers \cup Ticks(x))
        /\ Cardinality(into.bar.covers \cup Ticks(x))
             = Cardinality(into.bar.covers) + Cardinality(Ticks(x)) - Cardinality(into.bar.covers \cap Ticks(x))
    BY <1>1, <1>8, FS_Union
  <1>10. Cardinality({}) = 0
    BY FS_EmptySet
  <1>11. IsFiniteSet(bar.covers)
    BY <1>2, <1>9
  <1>12. Cardinality(bar.covers) = into.bar.volume + Cardinality(Ticks(x))
    <2>1. Cardinality(into.bar.covers \cap Ticks(x)) = 0
      BY <1>7, <1>10
    <2>2. Cardinality(bar.covers) = Cardinality(into.bar.covers) + Cardinality(Ticks(x)) - 0
      BY <1>2, <1>9, <2>1
    <2> QED
      BY <1>1, <1>3, <1>8, <2>2
  <1> QED
    BY <1>4, <1>11, <1>12 DEF Counted, bar, x

\* The bucket of a converted bar is that of the bars it is made of.
LEMMA MadeBucket ==
    ASSUME NEW s, NEW I, NEW bar, MadeOf(s, bar, I), NEW b, \A n \in I : B(s, n) = b
    PROVE  Bucket(bar.time) = b /\ I # {}
  <1>1. PICK f \in I : bar.time = s[f].time
    BY DEF MadeOf
  <1> QED
    BY <1>1 DEF B

-----------------------------------------------------------------------------
(* The reference definition. *)

LEMMA BarsOfAre ==
    ASSUME NEW b, Ordered(source)
    PROVE  BarsOf(b) = {source[n] : n \in In(source, b)}
  <1>1. Range(source) = {source[n] : n \in Places(source)}
    BY DEF Range, Places, Ordered
  <1> QED
    BY <1>1 DEF BarsOf, In, V, B

LEMMA FirstOfIs ==
    ASSUME Ordered(source), NEW f, IsFirst(source, f)
    PROVE  FirstOf(B(source, f)) = source[f]
  <1> DEFINE b == B(source, f)
             Older(x) == \A y \in BarsOf(b) : x.time <= y.time
  <1>1. f \in In(source, b) /\ \A n \in In(source, b) : f <= n
    BY InAre DEF IsFirst
  <1>2. \A n \in In(source, b) : n \in Places(source)
    BY InAre
  <1> HIDE DEF b
  <1>3. \A n \in In(source, b) : source[n].time \in Nat /\ (n # f => source[f].time < source[n].time)
    <2> SUFFICES ASSUME NEW n \in In(source, b)
                 PROVE  source[n].time \in Nat /\ (n # f => source[f].time < source[n].time)
      OBVIOUS
    <2>1. n \in Places(source) /\ f \in Places(source) /\ f <= n
      BY <1>1, <1>2
    <2>2. n \in Nat /\ f \in Nat /\ source[n].time \in Nat
      BY <2>1, PlacesAre
    <2> QED
      BY <2>1, <2>2, PlacesInOrder
  <1>4. \A x : x \in BarsOf(b) <=> \E n \in In(source, b) : x = source[n]
    BY BarsOfAre
  <1>5. source[f] \in BarsOf(b) /\ Older(source[f])
    BY <1>1, <1>3, <1>4
  <1>6. ASSUME NEW x \in BarsOf(b), Older(x) PROVE x = source[f]
    <2>1. PICK n \in In(source, b) : x = source[n]
      BY <1>4
    <2>2. source[n].time <= source[f].time
      BY <1>5, <1>6, <2>1
    <2> QED
      BY <1>1, <1>3, <2>1, <2>2
  <1>7. FirstOf(b) = CHOOSE x \in BarsOf(b) : Older(x)
    BY DEF FirstOf
  <1> HIDE DEF Older
  <1> QED
    BY <1>5, <1>6, <1>7 DEF b

LEMMA LastOfIs ==
    ASSUME Ordered(source), NEW l, IsLast(source, l)
    PROVE  LastOf(B(source, l)) = source[l]
  <1> DEFINE b == B(source, l)
             Newer(x) == \A y \in BarsOf(b) : x.time >= y.time
  <1>1. l \in In(source, b) /\ \A n \in In(source, b) : n <= l
    BY InAre DEF IsLast
  <1>2. \A n \in In(source, b) : n \in Places(source)
    BY InAre
  <1> HIDE DEF b
  <1>3. \A n \in In(source, b) : source[n].time \in Nat /\ (n # l => source[n].time < source[l].time)
    <2> SUFFICES ASSUME NEW n \in In(source, b)
                 PROVE  source[n].time \in Nat /\ (n # l => source[n].time < source[l].time)
      OBVIOUS
    <2>1. n \in Places(source) /\ l \in Places(source) /\ n <= l
      BY <1>1, <1>2
    <2>2. n \in Nat /\ l \in Nat /\ source[n].time \in Nat
      BY <2>1, PlacesAre
    <2> QED
      BY <2>1, <2>2, PlacesInOrder
  <1>4. \A x : x \in BarsOf(b) <=> \E n \in In(source, b) : x = source[n]
    BY BarsOfAre
  <1>5. source[l] \in BarsOf(b) /\ Newer(source[l])
    BY <1>1, <1>3, <1>4
  <1>6. ASSUME NEW x \in BarsOf(b), Newer(x) PROVE x = source[l]
    <2>1. PICK n \in In(source, b) : x = source[n]
      BY <1>4
    <2>2. source[n].time >= source[l].time
      BY <1>5, <1>6, <2>1
    <2> QED
      BY <1>1, <1>3, <2>1, <2>2
  <1>7. LastOf(b) = CHOOSE x \in BarsOf(b) : Newer(x)
    BY DEF LastOf
  <1> HIDE DEF Newer
  <1> QED
    BY <1>5, <1>6, <1>7 DEF b

LEMMA TicksOfAre ==
    ASSUME NEW b, Ordered(source)
    PROVE  TicksOf(b) = UNION {Ticks(source[n]) : n \in In(source, b)}
  BY BarsOfAre DEF TicksOf

\* A bar made of the valid bars of a bucket is the one of the reference definition.
LEMMA MadeIsMerged ==
    ASSUME NEW b, Ordered(source), NEW bar \in Bars, MadeOf(source, bar, In(source, b))
    PROVE  /\ NoVolume(bar) = NoVolume(MergedBar(b))
           /\ MergedBar(b).volume = Cardinality(bar.covers)
           /\ \E f, l \in In(source, b) : /\ IsFirst(source, f) /\ IsLast(source, l)
                                          /\ FirstOf(b) = source[f] /\ LastOf(b) = source[l]
  <1>1. PICK f, l \in In(source, b) :
            /\ \A n \in In(source, b) : f <= n /\ n <= l
            /\ bar.time = source[f].time /\ bar.open = source[f].first /\ bar.close = source[l].last
            /\ bar.covers = UNION {Ticks(source[n]) : n \in In(source, b)}
    BY DEF MadeOf
  <1>2. IsFirst(source, f) /\ B(source, f) = b /\ IsLast(source, l) /\ B(source, l) = b
    BY <1>1, InAre DEF IsFirst, IsLast
  <1>3. FirstOf(b) = source[f] /\ LastOf(b) = source[l]
    BY <1>2, FirstOfIs, LastOfIs
  <1>4. MergedBar(b) = [time |-> bar.time, open |-> bar.open, close |-> bar.close, covers |-> bar.covers,
                        volume |-> Cardinality(bar.covers)]
    BY <1>1, <1>3, TicksOfAre DEF MergedBar
  <1>5. bar = [time |-> bar.time, open |-> bar.open, close |-> bar.close, covers |-> bar.covers,
               volume |-> bar.volume]
    BY DEF Bars
  <1>6. NoVolume(bar) = [time |-> bar.time, open |-> bar.open, close |-> bar.close, covers |-> bar.covers, volume |-> 0]
    BY <1>5 DEF NoVolume
  <1>7. NoVolume(MergedBar(b)) = [time |-> bar.time, open |-> bar.open, close |-> bar.close, covers |-> bar.covers, volume |-> 0]
    BY <1>4 DEF NoVolume
  <1>8. MergedBar(b).volume = Cardinality(bar.covers)
    BY <1>4
  <1> QED
    BY <1>2, <1>3, <1>6, <1>7, <1>8

-----------------------------------------------------------------------------
(* The loops. *)

LEMMA ArrayIs ==
    ASSUME Ordered(source), NEW n \in 1..ArraySize
    PROVE  /\ Len(source) - ArraySize + n \in Places(source)
           /\ Array[n] = source[Len(source) - ArraySize + n] /\ Array[n] \in SourceBars
  <1>1. Len(source) - ArraySize + n \in Places(source)
    BY PlacesAre, Constants DEF Places
  <1> QED
    BY <1>1, PlacesAre DEF Array

LEMMA NowIs == Ordered(source) => Now = source[Len(source)] /\ Now \in SourceBars
  BY PlacesAre DEF Now, Last

LEMMA MaxIs == \A k \in Int : Max({0, k}) = IF k >= 0 THEN k ELSE 0
  <1> SUFFICES ASSUME NEW k \in Int PROVE Max({0, k}) = IF k >= 0 THEN k ELSE 0
    OBVIOUS
  <1> DEFINE Greatest(x) == \A y \in {0, k} : x >= y
             g == IF k >= 0 THEN k ELSE 0
  <1>1. Max({0, k}) = CHOOSE x \in {0, k} : Greatest(x)
    BY DEF Max
  <1>2. g \in {0, k} /\ Greatest(g)
    OBVIOUS
  <1>3. \A x \in {0, k} : Greatest(x) => x = g
    OBVIOUS
  <1> HIDE DEF Greatest, g
  <1>4. Max({0, k}) = g
    BY <1>1, <1>2, <1>3
  <1> QED
    BY <1>4 DEF g

LEMMA ShiftIs ==
    ASSUME Ordered(source)
    PROVE  /\ Shift1 \in 1..(ArraySize - 1)
           /\ Shift1 = 1 \/ IsValid(Array[Shift1])
           /\ \A n \in 1..(ArraySize - 1) : IsValid(Array[n]) => n <= Shift1
  <1> DEFINE S == {1} \cup {n \in 1..(ArraySize - 1) : IsValid(Array[n])}
             Greatest(x) == \A y \in S : x >= y
             Behind == {ArraySize - n : n \in S}
  <1>1. S \subseteq 1..(ArraySize - 1) /\ 1 \in S
    BY Constants
  <1>2. Behind \in SUBSET Nat /\ Behind # {}
    BY <1>1, Constants
  <1>3. PICK k \in Behind : \A j \in Behind : k <= j
    <2> HIDE DEF Behind
    <2> QED
      BY <1>2, LeastNatural
  <1>4. PICK g \in S : k = ArraySize - g
    OBVIOUS
  <1>5. Greatest(g)
    <2> SUFFICES ASSUME NEW y \in S PROVE g >= y
      OBVIOUS
    <2>1. k <= ArraySize - y
      BY <1>3
    <2>2. g \in Int /\ y \in Int
      BY <1>1
    <2> QED
      BY <1>4, <2>1, <2>2, Constants
  <1>6. \A x \in S : x \in Int
    BY <1>1
  <1> HIDE DEF Behind
  <1>7. \A x \in S : Greatest(x) => x = g
    BY <1>5, <1>6
  <1>8. Shift1 = CHOOSE x \in S : Greatest(x)
    BY DEF Shift1, Max
  <1>9. Shift1 = g
    <2> HIDE DEF S, Greatest
    <2> QED
      BY <1>5, <1>7, <1>8
  <1> QED
    BY <1>1, <1>5, <1>9

LEMMA RebuildType ==
    ASSUME NEW into \in Merging, NEW x \in SourceBars
    PROVE  RebuildStep(x, into) \in Merging
  BY MergeType DEF RebuildStep

\* The steps of reprocessConvertedBar.
LEMMA RebuiltIs ==
    ASSUME Typed, NEW n \in 1..ArraySize
    PROVE  \E f \in [0..n - 1 -> Merging] :
              /\ f[0] = [bar |-> copyBar(source[Len(source) - ArraySize + n]), old |-> old]
              /\ \A m \in 1..n - 1 : f[m] = RebuildStep(source[Len(source) - ArraySize + n - m], f[m - 1])
              /\ reprocessConvertedBar(n) = f[IF n >= 2 THEN n - 2 ELSE 0]
  <1> DEFINE base == [bar |-> copyBar(Array[n]), old |-> old]
             After(m, x) == RebuildStep(Array[n - m], x)
             step == [m \in 1..n - 1 |-> [x \in Merging |-> After(m, x)]]
             Rec(f) == [m \in 0..n - 1 |-> IF m = 0 THEN base ELSE After(m, f[m - 1])]
             built == CHOOSE f : f = Rec(f)
  <1>0. n \in Nat /\ n - 1 \in Nat /\ Ordered(source) /\ old \in Remembered /\ n - 2 \in Int
    BY Constants DEF Typed
  <1>1. base \in Merging
    <2>1. copyBar(Array[n]) \in Bars
      BY <1>0, ArrayIs, CopyIs
    <2> QED
      BY <1>0, <2>1 DEF Merging
  <1>2. ASSUME NEW m \in 1..n - 1, NEW x \in Merging PROVE After(m, x) \in Merging
    <2>1. n - m \in 1..ArraySize
      BY <1>0, Constants
    <2>2. Array[n - m] \in SourceBars
      BY <1>0, <2>1, ArrayIs
    <2> QED
      BY <2>2, RebuildType
  <1>3. reprocessConvertedBar(n) = built[Max({0, n - 2})]
    BY DEF reprocessConvertedBar
  <1>4. \A m \in 1..n - 1 : \A x : After(m, x) = RebuildStep(source[Len(source) - ArraySize + n - m], x)
    <2> SUFFICES ASSUME NEW m \in 1..n - 1
                 PROVE  \A x : After(m, x) = RebuildStep(source[Len(source) - ArraySize + n - m], x)
      OBVIOUS
    <2>1. n - m \in 1..ArraySize
      BY <1>0, Constants
    <2>2. Array[n - m] = source[Len(source) - ArraySize + (n - m)]
      BY <1>0, <2>1, ArrayIs
    <2>3. Len(source) - ArraySize + (n - m) = Len(source) - ArraySize + n - m
      BY <1>0, <2>1, PlacesAre, Constants
    <2> QED
      BY <2>2, <2>3
  <1>5. base = [bar |-> copyBar(source[Len(source) - ArraySize + n]), old |-> old]
    BY <1>0, ArrayIs
  <1> HIDE DEF After, base
  <1>6. \E f \in [0..n - 1 -> Merging] : f = Rec(f)
    <2>1. step \in [1..n - 1 -> [Merging -> Merging]]
      BY <1>2
    <2>2. \A m \in 1..n - 1 : \A x \in Merging : step[m][x] = After(m, x)
      OBVIOUS
    <2> HIDE DEF step
    <2>3. BuiltUp(n - 1, Merging, base, step)
      BY <1>0, <1>1, <2>1, RecursionExists
    <2>4. PICK f \in [0..n - 1 -> Merging] :
              f[0] = base /\ \A m \in 1..n - 1 : f[m] = step[m][f[m - 1]]
      BY <2>3 DEF BuiltUp
    <2>5. ASSUME NEW m \in 1..n - 1 PROVE f[m] = After(m, f[m - 1])
      <3>1. f[m - 1] \in Merging
        BY <1>0
      <3> QED
        BY <3>1, <2>2, <2>4
    <2>6. f = Rec(f)
      BY <2>4, <2>5
    <2> QED
      BY <2>6
  <1>7. built = Rec(built)
    <2> HIDE DEF Rec
    <2> QED
      BY <1>6
  <1> HIDE DEF built
  <1>8. built[0] = base /\ \A m \in 1..n - 1 : built[m] = After(m, built[m - 1])
    BY <1>0, <1>7
  <1> DEFINE Good == {m \in 0..n - 1 : built[m] \in Merging}
  <1>9. \A m \in 0..n - 1 : m \in Good
    <2>1. 0 \in Good
      BY <1>0, <1>1, <1>8
    <2>2. ASSUME NEW m \in 1..n - 1, m - 1 \in Good PROVE m \in Good
      <3>1. built[m - 1] \in Merging
        BY <2>2
      <3>2. built[m] \in Merging
        BY <1>2, <1>8, <3>1
      <3> QED
        BY <3>2
    <2> HIDE DEF Good
    <2> QED
      BY <1>0, <2>1, <2>2, InductionTo
  <1>10. built \in [0..n - 1 -> Merging]
    <2>1. built = [m \in 0..n - 1 |-> built[m]]
      BY <1>7
    <2> QED
      BY <2>1, <1>9
  <1>11. Max({0, n - 2}) = IF n >= 2 THEN n - 2 ELSE 0
    BY <1>0, MaxIs
  <1>12. reprocessConvertedBar(n) = built[IF n >= 2 THEN n - 2 ELSE 0]
    BY <1>3, <1>11
  <1>13. \A m \in 1..n - 1 : built[m] = RebuildStep(source[Len(source) - ArraySize + n - m], built[m - 1])
    BY <1>4, <1>8
  <1> QED
    BY <1>5, <1>8, <1>10, <1>12, <1>13

Filling == [place : 0..Size + 1, rates : [Shifts -> Bars], old : Remembered]

LEMMA FillType ==
    ASSUME NEW filling \in Filling, NEW x \in SourceBars
    PROVE  FillStep(x, filling) \in Filling
  <1> DEFINE p == filling.place
             into == [bar |-> filling.rates[p], old |-> filling.old]
             merged == mergeBar(into, x)
  <1>1. p \in 0..Size + 1 /\ filling.rates \in [Shifts -> Bars] /\ filling.old \in Remembered
    BY DEF Filling
  <1>2. copyBar(x) \in Bars
    BY CopyIs
  <1>3. CASE p = 0
    BY <1>3 DEF FillStep, Shifts
  <1>4. CASE p \in Shifts /\ Bucket(x.time) = Bucket(filling.rates[p].time)
    <2>1. into \in Merging
      BY <1>1, <1>4 DEF Merging
    <2>2. merged.bar \in Bars /\ merged.old \in Remembered
      BY <2>1, MergeType DEF Merging
    <2> HIDE DEF merged
    <2>3. [filling EXCEPT !.rates[p] = merged.bar, !.old = merged.old] \in Filling
      BY <1>1, <1>4, <2>2 DEF Filling
    <2>4. p # 0
      BY <1>4 DEF Shifts
    <2>5. FillStep(x, filling) = [filling EXCEPT !.rates[p] = merged.bar, !.old = merged.old]
      BY <1>4, <2>4 DEF FillStep, merged
    <2> QED
      BY <2>3, <2>5
  <1>5. CASE p # 0 /\ ~(p \in Shifts /\ Bucket(x.time) = Bucket(filling.rates[p].time))
    <2>1. CASE p = 1
      <3>1. [filling EXCEPT !.place = 0] \in Filling
        BY <1>1, Constants DEF Filling
      <3> QED
        BY <1>5, <2>1, <3>1 DEF FillStep
    <2>2. CASE p # 1
      <3>1. p - 1 \in Shifts /\ p - 1 \in 0..Size + 1
        BY <1>1, <1>5, <2>2, Constants DEF Shifts
      <3>2. [filling EXCEPT !.place = p - 1, !.rates[p - 1] = copyBar(x)] \in Filling
        BY <1>1, <1>2, <3>1 DEF Filling
      <3> QED
        BY <1>5, <2>2, <3>2 DEF FillStep
    <2> QED
      BY <2>1, <2>2
  <1> QED
    BY <1>3, <1>4, <1>5

\* The steps of fillEmptyRatesBuffer.
LEMMA FilledIs ==
    ASSUME Typed
    PROVE  \E f \in [0..ArraySize -> Filling] :
              /\ f[0] = [place |-> Size + 1, rates |-> rates, old |-> old]
              /\ \A n \in 1..ArraySize :
                    f[n] = IF V(source, Len(source) + 1 - n) THEN FillStep(source[Len(source) + 1 - n], f[n - 1])
                           ELSE f[n - 1]
              /\ fillEmptyRatesBuffer = f[ArraySize]
  <1> DEFINE base == [place |-> Size + 1, rates |-> rates, old |-> old]
             After(n, x) == IF IsValid(Array[ArraySize + 1 - n]) THEN FillStep(Array[ArraySize + 1 - n], x) ELSE x
             step == [n \in 1..ArraySize |-> [x \in Filling |-> After(n, x)]]
             Rec(f) == [n \in 0..ArraySize |-> IF n = 0 THEN base ELSE After(n, f[n - 1])]
             built == CHOOSE f : f = Rec(f)
  <1>0. ArraySize \in Nat /\ Ordered(source)
    BY Constants DEF Typed
  <1>1. base \in Filling
    BY Constants DEF Typed, Filling
  <1>2. ASSUME NEW n \in 1..ArraySize, NEW x \in Filling PROVE After(n, x) \in Filling
    <2>1. ArraySize + 1 - n \in 1..ArraySize
      BY <1>0
    <2>2. Array[ArraySize + 1 - n] \in SourceBars
      BY <1>0, <2>1, ArrayIs
    <2> QED
      BY <2>2, FillType
  <1>3. fillEmptyRatesBuffer = built[ArraySize]
    <2>1. fillEmptyRatesBuffer =
            (CHOOSE f : f = [n \in 0..ArraySize |->
                IF n = 0 THEN base
                ELSE IF IsValid(Array[ArraySize + 1 - n]) THEN FillStep(Array[ArraySize + 1 - n], f[n - 1])
                ELSE f[n - 1]])[ArraySize]
      BY DEF fillEmptyRatesBuffer
    <2> QED
      BY <2>1
  <1>4. \A n \in 1..ArraySize : \A x :
            After(n, x) = IF V(source, Len(source) + 1 - n) THEN FillStep(source[Len(source) + 1 - n], x) ELSE x
    <2> SUFFICES ASSUME NEW n \in 1..ArraySize
                 PROVE  \A x : After(n, x) = IF V(source, Len(source) + 1 - n)
                                             THEN FillStep(source[Len(source) + 1 - n], x) ELSE x
      OBVIOUS
    <2>1. ArraySize + 1 - n \in 1..ArraySize
      BY <1>0
    <2>2. Array[ArraySize + 1 - n] = source[Len(source) - ArraySize + (ArraySize + 1 - n)]
      BY <1>0, <2>1, ArrayIs
    <2>3. Len(source) - ArraySize + (ArraySize + 1 - n) = Len(source) + 1 - n
      BY <1>0, <2>1, PlacesAre
    <2> QED
      BY <2>2, <2>3 DEF V
  <1> HIDE DEF After, base
  <1>6. \E f \in [0..ArraySize -> Filling] : f = Rec(f)
    <2>1. step \in [1..ArraySize -> [Filling -> Filling]]
      BY <1>2
    <2>2. \A n \in 1..ArraySize : \A x \in Filling : step[n][x] = After(n, x)
      OBVIOUS
    <2> HIDE DEF step
    <2>3. BuiltUp(ArraySize, Filling, base, step)
      BY <1>0, <1>1, <2>1, RecursionExists
    <2>4. PICK f \in [0..ArraySize -> Filling] :
              f[0] = base /\ \A n \in 1..ArraySize : f[n] = step[n][f[n - 1]]
      BY <2>3 DEF BuiltUp
    <2>5. ASSUME NEW n \in 1..ArraySize PROVE f[n] = After(n, f[n - 1])
      <3>1. f[n - 1] \in Filling
        BY <1>0
      <3> QED
        BY <3>1, <2>2, <2>4
    <2>6. f = Rec(f)
      BY <2>4, <2>5
    <2> QED
      BY <2>6
  <1>7. built = Rec(built)
    <2> HIDE DEF Rec
    <2> QED
      BY <1>6
  <1> HIDE DEF built
  <1>8. built[0] = base /\ \A n \in 1..ArraySize : built[n] = After(n, built[n - 1])
    BY <1>0, <1>7
  <1> DEFINE Good == {n \in 0..ArraySize : built[n] \in Filling}
  <1>9. \A n \in 0..ArraySize : n \in Good
    <2>1. 0 \in Good
      BY <1>0, <1>1, <1>8
    <2>2. ASSUME NEW n \in 1..ArraySize, n - 1 \in Good PROVE n \in Good
      <3>1. built[n - 1] \in Filling
        BY <2>2
      <3>2. built[n] \in Filling
        BY <1>2, <1>8, <3>1
      <3> QED
        BY <3>2
    <2> HIDE DEF Good
    <2> QED
      BY <1>0, <2>1, <2>2, InductionTo
  <1>10. built \in [0..ArraySize -> Filling]
    <2>1. built = [n \in 0..ArraySize |-> built[n]]
      BY <1>7
    <2> QED
      BY <2>1, <1>9
  <1>11. \A n \in 1..ArraySize : built[n] = IF V(source, Len(source) + 1 - n)
                                           THEN FillStep(source[Len(source) + 1 - n], built[n - 1])
                                           ELSE built[n - 1]
    BY <1>4, <1>8
  <1> QED
    BY <1>3, <1>8, <1>10, <1>11 DEF base

-----------------------------------------------------------------------------
(* What an array with valid bars of enough buckets gives the loops. *)

\* The buckets of the valid bars in the array handed over while the terminal's bar n was the last.
BucketsAt(s, n) == {B(s, j) : j \in {k \in n - ArraySize + 1..n : V(s, k)}}

\* Every such array has valid bars of more buckets than there are converted bars.
LongEnough(s) == \A n \in ArraySize..Len(s) : Cardinality(BucketsAt(s, n)) > Size

LEMMA AtMostTwo == \A a, b, S : S \subseteq {a, b} => Cardinality(S) <= 2
  <1> SUFFICES ASSUME NEW a, NEW b, NEW S \in SUBSET {a, b} PROVE Cardinality(S) <= 2
    OBVIOUS
  <1>1. IsFiniteSet({a}) /\ Cardinality({a}) = 1
    BY FS_Singleton
  <1>2. IsFiniteSet({a} \cup {b}) /\ (Cardinality({a} \cup {b}) = 1 \/ Cardinality({a} \cup {b}) = 2)
    BY <1>1, FS_AddElement
  <1>3. {a} \cup {b} = {a, b}
    OBVIOUS
  <1>4. IsFiniteSet(S) /\ Cardinality(S) <= Cardinality({a, b})
    BY <1>2, <1>3, FS_Subset
  <1>5. Cardinality(S) \in Nat
    BY <1>4, FS_CardinalityType
  <1> QED
    BY <1>2, <1>3, <1>4, <1>5

\* The place of the bar Shift1 stands for.
Before(s) == Len(s) - ArraySize + Shift1

LEMMA OutsideTwo ==
    ASSUME Ordered(source), LongEnough(source), NEW a, NEW b
    PROVE  \E j \in Places(source) : /\ V(source, j) /\ j >= Len(source) - ArraySize + 1
                                     /\ B(source, j) # a /\ B(source, j) # b
  <1> DEFINE L == Len(source)
             Valid == {k \in L - ArraySize + 1..L : V(source, k)}
             S == BucketsAt(source, L)
  <1>1. L \in Nat /\ L >= ArraySize /\ L \in ArraySize..L /\ Places(source) = 1..L
    BY PlacesAre, Constants DEF Places
  <1>2. Cardinality(S) > Size
    BY <1>1 DEF LongEnough
  <1>3. ~(S \subseteq {a, b})
    <2> SUFFICES ASSUME S \subseteq {a, b} PROVE FALSE
      OBVIOUS
    <2>1. Cardinality(S) <= 2
      BY AtMostTwo
    <2>2. IsFiniteSet({a} \cup {b})
      BY FS_Singleton, FS_AddElement
    <2>3. IsFiniteSet(S)
      <3>1. S \in SUBSET ({a} \cup {b})
        OBVIOUS
      <3> HIDE DEF S
      <3> QED
        BY <2>2, <3>1, FS_Subset
    <2>4. Cardinality(S) \in Nat
      BY <2>3, FS_CardinalityType
    <2> QED
      BY <1>2, <2>1, <2>4, Constants
  <1>4. PICK j \in Valid : B(source, j) # a /\ B(source, j) # b
    BY <1>3 DEF BucketsAt
  <1>5. j \in Places(source) /\ j >= L - ArraySize + 1
    BY <1>1, Constants
  <1> QED
    BY <1>4, <1>5

LEMMA BeforeIs ==
    ASSUME Ordered(source), LongEnough(source)
    PROVE  /\ Before(source) \in Places(source) /\ Before(source) < Len(source) /\ V(source, Before(source))
           /\ Array[Shift1] = source[Before(source)]
           /\ \A n \in Places(source) : (V(source, n) /\ n < Len(source)) => n <= Before(source)
  <1> DEFINE L == Len(source)
             q == Before(source)
  <1>1. L \in Nat /\ L >= ArraySize /\ Places(source) = 1..L
    BY PlacesAre, Constants DEF Places
  <1>2. Shift1 \in 1..(ArraySize - 1) /\ Shift1 \in 1..ArraySize
    BY ShiftIs, Constants
  <1>3. q \in Places(source) /\ q < L /\ Array[Shift1] = source[q]
    BY <1>1, <1>2, ArrayIs, Constants DEF Before
  <1>4. \A n \in Places(source) : (V(source, n) /\ n < L) => n <= q
    <2> SUFFICES ASSUME NEW n \in Places(source), V(source, n), n < L PROVE n <= q
      OBVIOUS
    <2>1. CASE n >= L - ArraySize + 1
      <3> DEFINE k == n - L + ArraySize
      <3>1. k \in 1..(ArraySize - 1) /\ k \in 1..ArraySize /\ L - ArraySize + k = n
        BY <1>1, <2>1, Constants
      <3>2. IsValid(Array[k])
        BY <3>1, ArrayIs DEF V
      <3>3. k <= Shift1
        BY <3>1, <3>2, ShiftIs
      <3> QED
        BY <1>1, <1>2, <3>3, Constants DEF Before
    <2>2. CASE ~(n >= L - ArraySize + 1)
      BY <1>1, <1>2, <2>2, Constants DEF Before
    <2> QED
      BY <2>1, <2>2
  <1>5. V(source, q)
    <2>1. PICK j \in Places(source) : V(source, j) /\ j >= L - ArraySize + 1 /\ B(source, j) # B(source, L)
      BY OutsideTwo
    <2>2. j # L /\ j < L
      BY <1>1, <2>1
    <2>3. j <= q
      BY <1>4, <2>1, <2>2
    <2>4. CASE Shift1 = 1
      <3>1. q = L - ArraySize + 1
        BY <2>4 DEF Before
      <3>2. j = q
        BY <1>1, <1>3, <2>1, <2>3, <3>1, Constants
      <3> QED
        BY <2>1, <3>2
    <2>5. CASE IsValid(Array[Shift1])
      BY <1>3, <2>5 DEF V
    <2> QED
      BY <2>4, <2>5, ShiftIs
  <1> QED
    BY <1>3, <1>4, <1>5

\* When the last bar is of a later bucket, the bucket of the one before lies in the array behind its first.
LEMMA BeforeBucket ==
    ASSUME Ordered(source), LongEnough(source), B(source, Before(source)) < B(source, Len(source))
    PROVE  /\ \A n \in In(source, B(source, Before(source))) :
                  n <= Before(source) /\ n >= Len(source) - ArraySize + 2
           /\ Shift1 >= 2
           /\ \A n \in In(source, B(source, Len(source))) : n = Len(source)
  <1> DEFINE L == Len(source)
             q == Before(source)
  <1>1. L \in Nat /\ L >= ArraySize /\ Places(source) = 1..L /\ L \in Places(source)
    BY PlacesAre, Constants DEF Places
  <1>2. /\ q \in Places(source) /\ q < L /\ V(source, q)
        /\ \A n \in Places(source) : (V(source, n) /\ n < L) => n <= q
    BY BeforeIs
  <1>3. PICK j \in Places(source) : /\ V(source, j) /\ j >= L - ArraySize + 1
                                    /\ B(source, j) # B(source, L) /\ B(source, j) # B(source, q)
    BY OutsideTwo
  <1>4. j < L /\ j <= q /\ j # q
    <2>1. j # L /\ j # q
      BY <1>3
    <2>2. j < L
      BY <1>1, <2>1
    <2> QED
      BY <1>2, <1>3, <2>1, <2>2
  <1>5. B(source, j) < B(source, q)
    <2>1. B(source, j) <= B(source, q) /\ B(source, j) \in Nat /\ B(source, q) \in Nat
      BY <1>2, <1>4, PlacesInOrder, PlacesAre
    <2> QED
      BY <1>3, <2>1
  <1>6. ASSUME NEW n \in In(source, B(source, q)) PROVE n <= q /\ n >= L - ArraySize + 2
    <2>1. n \in Places(source) /\ V(source, n) /\ B(source, n) = B(source, q)
      BY InAre
    <2>2. n # L
      BY <2>1, <1>1, PlacesAre
    <2>3. n <= q
      BY <1>1, <1>2, <2>1, <2>2
    <2>4. j < n
      BY <1>5, <2>1, PlacesInOrder
    <2> QED
      BY <1>1, <1>3, <2>1, <2>3, <2>4, Constants
  <1>7. Shift1 >= 2
    BY <1>1, <1>3, <1>4, ShiftIs, Constants DEF Before
  <1>8. ASSUME NEW n \in In(source, B(source, L)) PROVE n = L
    <2>1. n \in Places(source) /\ V(source, n) /\ B(source, n) = B(source, L)
      BY InAre
    <2>2. q < n
      BY <1>2, <2>1, PlacesInOrder
    <2> QED
      BY <1>1, <1>2, <2>1, <2>2
  <1> QED
    BY <1>6, <1>7, <1>8

\* The volume remembered is not that of a bar reprocessConvertedBar merges.
RememberedApart ==
    \A x \in In(source, B(source, Before(source))) :
        x # Before(source) => old.time # source[x].time /\ old.time # -1

\* reprocessConvertedBar makes the bar of the valid bars of the bucket.
LEMMA Rebuilt ==
    ASSUME Typed, LongEnough(source), B(source, Before(source)) < B(source, Len(source))
    PROVE  LET rebuilt == reprocessConvertedBar(Shift1)
           IN  /\ rebuilt \in Merging
               /\ MadeOf(source, rebuilt.bar, In(source, B(source, Before(source))))
               /\ RememberedApart => Counted(rebuilt.bar)
  <1> DEFINE L == Len(source)
             q == Before(source)
             b == B(source, q)
             n == Shift1
             Looked(m) == {j \in In(source, b) : j >= q - m}
             Apart(o, m) == \A x \in In(source, b) : x < q - m => o.time # -1 /\ o.time # source[x].time
             Right(x, m) == /\ MadeOf(source, x.bar, Looked(m))
                            /\ RememberedApart => Counted(x.bar) /\ Apart(x.old, m)
  <1>0. Ordered(source) /\ old \in Remembered
    BY DEF Typed
  <1>1. L \in Nat /\ L >= ArraySize /\ Places(source) = 1..L /\ Places(source) \in SUBSET Nat
    BY <1>0, PlacesAre, Constants DEF Places
  <1>2. q \in Places(source) /\ q \in Nat /\ q < L /\ V(source, q)
    BY <1>0, <1>1, BeforeIs
  <1>3. n \in 2..(ArraySize - 1) /\ n \in 1..ArraySize /\ n - 1 \in Nat /\ L - ArraySize + n = q
    BY <1>0, <1>1, ShiftIs, BeforeBucket, Constants DEF Before
  <1>4. PICK f \in [0..n - 1 -> Merging] :
              /\ f[0] = [bar |-> copyBar(source[q]), old |-> old]
              /\ \A m \in 1..n - 1 : f[m] = RebuildStep(source[L - ArraySize + n - m], f[m - 1])
              /\ reprocessConvertedBar(n) = f[n - 2]
    <2>1. Shift1 \in 1..ArraySize
      BY <1>3
    <2>2. \E f \in [0..Shift1 - 1 -> Merging] :
              /\ f[0] = [bar |-> copyBar(source[Len(source) - ArraySize + Shift1]), old |-> old]
              /\ \A m \in 1..Shift1 - 1 :
                    f[m] = RebuildStep(source[Len(source) - ArraySize + Shift1 - m], f[m - 1])
              /\ reprocessConvertedBar(Shift1) = f[IF Shift1 >= 2 THEN Shift1 - 2 ELSE 0]
      BY <2>1, RebuiltIs
    <2>3. (IF Shift1 >= 2 THEN Shift1 - 2 ELSE 0) = Shift1 - 2
      BY <1>3
    <2> QED
      BY <1>3, <2>2, <2>3
  <1>5. \A j \in In(source, b) : j \in Places(source) /\ j \in Nat /\ j <= q /\ j >= L - ArraySize + 2
    BY <1>0, <1>1, BeforeBucket, InAre
  <1>6. q \in In(source, b)
    BY <1>0, <1>2, InAre
  <1> DEFINE Good == {m \in 0..n - 1 : Right(f[m], m)}
  <1>7. 0 \in Good
    <2>1. Looked(0) = {q}
      BY <1>2, <1>5, <1>6
    <2>2. f[0].bar = copyBar(source[q]) /\ f[0].old = old
      BY <1>4
    <2>3. MadeOf(source, f[0].bar, Looked(0)) /\ Counted(f[0].bar)
      BY <1>0, <1>2, <2>1, <2>2, CopyMade, CopyIs, PlacesAre
    <2>4. RememberedApart => Apart(f[0].old, 0)
      BY <1>2, <1>5, <2>2 DEF RememberedApart
    <2> QED
      BY <1>3, <2>3, <2>4
  <1>8. ASSUME NEW m \in 1..n - 1, m - 1 \in Good PROVE m \in Good
    <2> DEFINE j == q - m
               x == source[j]
               g == f[m - 1]
    <2>1. j \in Places(source) /\ L - ArraySize + n - m = j /\ m - 1 \in 0..n - 1 /\ m \in Nat
      BY <1>1, <1>2, <1>3, Constants
    <2>2. g \in Merging /\ f[m] = RebuildStep(x, g)
      BY <1>4, <2>1
    <2>3. MadeOf(source, g.bar, Looked(m - 1)) /\ (RememberedApart => Counted(g.bar) /\ Apart(g.old, m - 1))
      BY <1>8
    <2>4. Bucket(g.bar.time) = b
      <3>1. \A i \in Looked(m - 1) : B(source, i) = b
        BY <1>0, InAre
      <3> HIDE DEF Looked, b
      <3> QED
        BY <2>3, <3>1, MadeBucket
    <2>5. (IsValid(x) /\ Bucket(x.time) = Bucket(g.bar.time)) <=> j \in In(source, b)
      BY <1>0, <2>1, <2>4, InAre DEF V, B
    <2>6. CASE j \in In(source, b)
      <3>1. f[m] = mergeBar(g, x)
        BY <2>2, <2>5, <2>6 DEF RebuildStep
      <3>2. Looked(m) = Looked(m - 1) \cup {j}
        BY <1>2, <1>5, <2>1, <2>6
      <3>3. \A i \in Looked(m - 1) : j < i
        BY <1>2, <1>5, <2>1
      <3>4. Looked(m - 1) \in SUBSET Places(source) /\ j \notin Looked(m - 1)
        BY <1>2, <1>5, <2>1
      <3>5. MadeOf(source, f[m].bar, Looked(m)) /\ f[m].old.time = source[j].time
        <4> HIDE DEF Looked, j, g, b
        <4>1. j \in Places(source) /\ g \in Merging /\ MadeOf(source, g.bar, Looked(m - 1))
          BY <2>1, <2>2, <2>3
        <4>2. /\ MadeOf(source, mergeBar(g, source[j]).bar, Looked(m - 1) \cup {j})
              /\ mergeBar(g, source[j]).old.time = source[j].time
          BY <1>0, <3>3, <3>4, <4>1, MergeMade
        <4> QED
          BY <3>1, <3>2, <4>2
      <3>6. RememberedApart => g.old.time # -1 /\ g.old.time # source[j].time
        BY <2>3, <2>6, <2>1, <1>2
      <3>7. RememberedApart => Counted(f[m].bar)
        <4> HIDE DEF Looked, j, g, b, Apart
        <4> QED
          BY <1>0, <2>1, <2>2, <2>3, <3>1, <3>4, <3>6, MergeCounts
      <3>8. Apart(f[m].old, m)
        <4> SUFFICES ASSUME NEW i \in In(source, b), i < q - m
                     PROVE  f[m].old.time # -1 /\ f[m].old.time # source[i].time
          OBVIOUS
        <4>1. i \in Places(source) /\ i # j /\ source[j].time \in Nat
          BY <1>0, <1>5, <2>1, PlacesAre
        <4>2. source[j].time # source[i].time
          BY <1>0, <2>1, <4>1, PlacesInOrder
        <4> QED
          BY <3>5, <4>1, <4>2
      <3> QED
        BY <3>5, <3>7, <3>8
    <2>7. CASE j \notin In(source, b)
      <3>1. f[m] = g
        BY <2>2, <2>5, <2>7 DEF RebuildStep
      <3>2. Looked(m) = Looked(m - 1)
        BY <1>2, <1>5, <2>1, <2>7
      <3>3. Apart(g.old, m - 1) => Apart(g.old, m)
        BY <1>2, <1>5, <2>1
      <3>4. Right(f[m], m)
        <4> HIDE DEF Looked, g, b, Apart
        <4> QED
          BY <2>3, <3>1, <3>2, <3>3
      <3> QED
        BY <3>4
    <2> QED
      BY <2>6, <2>7
  <1>9. \A m \in 0..n - 1 : m \in Good
    <2> HIDE DEF Good, n
    <2> QED
      BY <1>3, <1>7, <1>8, InductionTo
  <1>10. n - 2 \in 0..n - 1
    BY <1>3
  <1>11. Right(f[n - 2], n - 2)
    <2> HIDE DEF Right
    <2> QED
      BY <1>9, <1>10
  <1>12. Looked(n - 2) = In(source, b)
    <2>1. q - (n - 2) = L - ArraySize + 2
      BY <1>1, <1>2, <1>3, Constants
    <2> QED
      BY <1>5, <2>1
  <1>13. f[n - 2] \in Merging
    BY <1>10
  <1> HIDE DEF Looked, Apart
  <1> QED
    BY <1>4, <1>11, <1>12, <1>13

-----------------------------------------------------------------------------
(* What fillEmptyRatesBuffer leaves. *)

\* The bucket of a converted bar.
Bk(r, k) == Bucket(r[k].time)

\* The converted bars, from the first on, are all the valid bars of their buckets.
Full(s, r) ==
    /\ \A k \in Shifts : MadeOf(s, r[k], In(s, Bk(r, k)))
    /\ \A k, m \in Shifts : k < m => Bk(r, k) < Bk(r, m)
    /\ \A j \in Places(s) : (V(s, j) /\ B(s, j) >= Bk(r, 1)) => \E k \in Shifts : B(s, j) = Bk(r, k)

\* The valid bars of a bucket among the last n.
Looked(s, n, b) == {j \in In(s, b) : j > Len(s) - n}

\* The same of the places filled after n bars.
FilledUpto(s, n, filling) ==
    LET p == filling.place
        r == filling.rates
    IN  IF p = 0 THEN Full(s, r)
        ELSE /\ \A k \in Shifts : k >= p => MadeOf(s, r[k], Looked(s, n, Bk(r, k)))
             /\ \A k, m \in Shifts : (k >= p /\ k < m) => Bk(r, k) < Bk(r, m)
             /\ \A j \in Places(s) : (V(s, j) /\ j > Len(s) - n) => \E k \in Shifts : k >= p /\ B(s, j) = Bk(r, k)

LEMMA LookedAre ==
    ASSUME NEW s, Ordered(s), NEW n \in Nat, NEW b
    PROVE  /\ Looked(s, n, b) \in SUBSET Places(s)
           /\ \A j \in Looked(s, n, b) : V(s, j) /\ B(s, j) = b /\ j > Len(s) - n
           /\ \A j \in Places(s) : (V(s, j) /\ B(s, j) = b /\ j > Len(s) - n) => j \in Looked(s, n, b)
  BY InAre DEF Looked

LEMMA FillStepIs ==
    ASSUME NEW s, Ordered(s), NEW n \in 1..ArraySize, NEW filling \in Filling,
           FilledUpto(s, n - 1, filling), V(s, Len(s) + 1 - n)
    PROVE  FilledUpto(s, n, FillStep(s[Len(s) + 1 - n], filling))
  <1> DEFINE j == Len(s) + 1 - n
             x == s[j]
             p == filling.place
             r == filling.rates
             next == FillStep(x, filling)
  <1>1. /\ j \in Places(s) /\ j \in Nat /\ n \in Nat /\ n - 1 \in Nat /\ Len(s) - n = j - 1 /\ Len(s) - (n - 1) = j
        /\ Len(s) \in Nat /\ Places(s) \in SUBSET Nat /\ x \in SourceBars /\ B(s, j) \in Nat /\ V(s, j)
    BY PlacesAre, Constants DEF Places
  <1>2. p \in 0..Size + 1 /\ r \in [Shifts -> Bars] /\ filling.old \in Remembered
    BY DEF Filling
  <1>3. \A k \in Shifts : Bk(r, k) \in Nat
    <2>1. \A k \in Shifts : r[k].time \in Nat
      BY <1>2 DEF Bars
    <2> QED
      BY <2>1, BucketMonotone DEF Bk
  <1>4. \A i \in Places(s) : i > Len(s) - n <=> i > j \/ i = j
    BY <1>1
  <1>5. CASE p = 0
    <2>1. next = filling
      BY <1>5 DEF FillStep, Shifts
    <2> QED
      BY <1>5, <2>1 DEF FilledUpto
  <1>6. CASE p # 0
    <2>1. /\ \A k \in Shifts : k >= p => MadeOf(s, r[k], Looked(s, n - 1, Bk(r, k)))
          /\ \A k, m \in Shifts : (k >= p /\ k < m) => Bk(r, k) < Bk(r, m)
          /\ \A i \in Places(s) : (V(s, i) /\ i > j) => \E k \in Shifts : k >= p /\ B(s, i) = Bk(r, k)
      BY <1>1, <1>6 DEF FilledUpto
    <2>2. ASSUME NEW k \in Shifts, k >= p PROVE B(s, j) <= Bk(r, k)
      <3>1. PICK i \in Looked(s, n - 1, Bk(r, k)) : TRUE
        BY <2>1, <2>2 DEF MadeOf
      <3>2. i \in Places(s) /\ B(s, i) = Bk(r, k) /\ i > j
        BY <1>1, <3>1, LookedAre
      <3>3. j <= i
        BY <1>1, <3>2
      <3> QED
        BY <1>1, <3>2, <3>3, PlacesInOrder
    <2>3. ASSUME NEW k \in Shifts, Bk(r, k) # B(s, j) PROVE Looked(s, n, Bk(r, k)) = Looked(s, n - 1, Bk(r, k))
      <3>1. \A i \in Places(s) : i \in Looked(s, n, Bk(r, k)) <=> V(s, i) /\ B(s, i) = Bk(r, k) /\ i > Len(s) - n
        BY <1>1, LookedAre
      <3>2. \A i \in Places(s) : i \in Looked(s, n - 1, Bk(r, k)) <=> V(s, i) /\ B(s, i) = Bk(r, k) /\ i > j
        BY <1>1, LookedAre
      <3>3. Looked(s, n, Bk(r, k)) \subseteq Places(s) /\ Looked(s, n - 1, Bk(r, k)) \subseteq Places(s)
        BY <1>1, LookedAre
      <3>4. \A i \in Places(s) : i \in Looked(s, n, Bk(r, k)) <=> i \in Looked(s, n - 1, Bk(r, k))
        BY <1>4, <2>3, <3>1, <3>2
      <3> QED
        BY <3>3, <3>4
    <2>4. CASE p \in Shifts /\ B(s, j) = Bk(r, p)
      <3> DEFINE into == [bar |-> r[p], old |-> filling.old]
                 merged == mergeBar(into, x)
                 I == Looked(s, n - 1, Bk(r, p))
                 t == [r EXCEPT ![p] = merged.bar]
      <3>1. next = [filling EXCEPT !.rates[p] = merged.bar, !.old = merged.old]
        BY <1>6, <2>4 DEF FillStep, B, Bk
      <3>2. into \in Merging
        BY <1>2, <2>4 DEF Merging
      <3>3. I \in SUBSET Places(s) /\ \A i \in I : j < i
        BY <1>1, LookedAre
      <3>4. MadeOf(s, into.bar, I)
        BY <1>2, <2>1, <2>4 DEF Shifts
      <3>5. MadeOf(s, merged.bar, I \cup {j})
        <4> HIDE DEF into, I
        <4> QED
          BY <1>1, <3>2, <3>3, <3>4, MergeMade
      <3>6. I \cup {j} = Looked(s, n, Bk(r, p))
        <4>1. \A i \in Places(s) : i \in Looked(s, n, Bk(r, p)) <=> V(s, i) /\ B(s, i) = Bk(r, p) /\ i > Len(s) - n
          BY <1>1, LookedAre
        <4>2. \A i \in Places(s) : i \in I <=> V(s, i) /\ B(s, i) = Bk(r, p) /\ i > j
          BY <1>1, LookedAre
        <4>3. Looked(s, n, Bk(r, p)) \subseteq Places(s) /\ I \subseteq Places(s)
          BY <1>1, LookedAre
        <4>4. \A i \in Places(s) : i \in Looked(s, n, Bk(r, p)) <=> i \in I \/ i = j
          BY <1>1, <1>4, <2>4, <4>1, <4>2
        <4> HIDE DEF I
        <4> QED
          BY <1>1, <4>3, <4>4
      <3>7. merged.bar.time = x.time
        <4> HIDE DEF into, I, merged, j
        <4>1. PICK f \in I \cup {j} : merged.bar.time = s[f].time /\ \A i \in I \cup {j} : f <= i
          BY <3>5 DEF MadeOf
        <4>2. f = j
          <5>1. j <= j /\ f <= j
            BY <1>1, <4>1
          <5>2. f \in Nat
            BY <1>1, <3>3
          <5> QED
            BY <1>1, <3>3, <5>1, <5>2
        <4> QED
          BY <4>1, <4>2
      <3>8. next.place = p /\ next.rates = t
        BY <3>1, <1>2 DEF Filling
      <3> HIDE DEF merged
      <3>9. t[p] = merged.bar /\ \A k \in Shifts : k # p => t[k] = r[k]
        BY <1>2, <2>4
      <3>10. \A k \in Shifts : Bk(t, k) = Bk(r, k)
        BY <2>4, <3>7, <3>9 DEF Bk, B
      <3> HIDE DEF t
      <3>11. ASSUME NEW k \in Shifts, k >= p PROVE MadeOf(s, t[k], Looked(s, n, Bk(t, k)))
        <4>1. CASE k = p
          BY <3>5, <3>6, <3>9, <3>10, <4>1, <2>4
        <4>2. CASE k # p
          <5>1. Bk(r, p) < Bk(r, k)
            BY <2>1, <2>4, <3>11, <4>2 DEF Shifts
          <5>2. Bk(r, k) # B(s, j)
            BY <1>3, <2>4, <5>1
          <5> QED
            BY <2>1, <2>3, <3>9, <3>10, <3>11, <4>2, <5>2
        <4> QED
          BY <4>1, <4>2
      <3>12. \A i \in Places(s) : (V(s, i) /\ i > Len(s) - n) => \E k \in Shifts : k >= p /\ B(s, i) = Bk(t, k)
        <4>1. p >= p
          BY <2>4 DEF Shifts
        <4> QED
          BY <1>4, <2>1, <2>4, <3>10, <4>1
      <3>13. \A k, m \in Shifts : (k >= p /\ k < m) => Bk(t, k) < Bk(t, m)
        BY <2>1, <3>10
      <3>14. FilledUpto(s, n, next)
        <4> HIDE DEF p, next
        <4> QED
          BY <1>6, <3>8, <3>11, <3>12, <3>13 DEF FilledUpto
      <3> QED
        BY <3>14
    <2>5. CASE ~(p \in Shifts /\ B(s, j) = Bk(r, p))
      <3>1. \A k \in Shifts : k >= p => B(s, j) < Bk(r, k)
        <4> SUFFICES ASSUME NEW k \in Shifts, k >= p PROVE B(s, j) < Bk(r, k)
          OBVIOUS
        <4>1. p \in Shifts
          BY <1>2, <1>6, Constants DEF Shifts
        <4>2. B(s, j) <= Bk(r, p) /\ B(s, j) # Bk(r, p)
          BY <2>2, <2>5, <4>1 DEF Shifts
        <4>3. k = p \/ Bk(r, p) < Bk(r, k)
          BY <2>1, <4>1 DEF Shifts
        <4> QED
          BY <1>1, <1>3, <4>1, <4>2, <4>3
      <3>2. CASE p = 1
        <4>1. next = [filling EXCEPT !.place = 0]
          BY <2>5, <3>2, <1>6 DEF FillStep, B, Bk
        <4>2. next.place = 0 /\ next.rates = r
          BY <4>1, <1>2 DEF Filling
        <4>3. 1 \in Shifts /\ \A k \in Shifts : k >= p
          BY <3>2, Constants DEF Shifts
        <4>4. ASSUME NEW i \in Places(s), V(s, i), B(s, i) >= Bk(r, 1) PROVE i > j
          <5>1. B(s, j) < B(s, i)
            <6>1. B(s, j) < Bk(r, 1) /\ Bk(r, 1) \in Nat /\ B(s, i) \in Nat
              BY <1>3, <3>1, <4>3, PlacesAre
            <6> QED
              BY <1>1, <4>4, <6>1
          <5> QED
            BY <1>1, <5>1, PlacesInOrder
        <4>5. ASSUME NEW k \in Shifts PROVE Looked(s, n - 1, Bk(r, k)) = In(s, Bk(r, k))
          <5>1. Bk(r, 1) <= Bk(r, k)
            <6>1. k = 1 \/ 1 < k
              BY DEF Shifts
            <6> QED
              BY <1>3, <2>1, <4>3, <6>1
          <5>2. ASSUME NEW i \in In(s, Bk(r, k)) PROVE i > j
            <6>1. i \in Places(s) /\ V(s, i) /\ B(s, i) = Bk(r, k)
              BY InAre
            <6> QED
              BY <4>4, <5>1, <6>1
          <5> QED
            BY <1>1, <5>2 DEF Looked
        <4>6. Full(s, r)
          BY <2>1, <4>3, <4>4, <4>5 DEF Full
        <4> QED
          BY <4>2, <4>6 DEF FilledUpto
      <3>3. CASE p # 1
        <4> DEFINE t == [r EXCEPT ![p - 1] = copyBar(x)]
        <4>1. next = [filling EXCEPT !.place = p - 1, !.rates[p - 1] = copyBar(x)]
          BY <2>5, <3>3, <1>6 DEF FillStep, B, Bk
        <4>2. p - 1 \in Shifts /\ p \in Nat
          BY <1>2, <1>6, <3>3, Constants DEF Shifts
        <4>3. next.place = p - 1 /\ next.rates = t
          BY <4>1, <1>2 DEF Filling
        <4>4. t[p - 1] = copyBar(x) /\ \A k \in Shifts : k # p - 1 => t[k] = r[k]
          BY <1>2, <4>2
        <4>5. Bk(t, p - 1) = B(s, j) /\ \A k \in Shifts : k # p - 1 => Bk(t, k) = Bk(r, k)
          BY <4>4 DEF Bk, B, copyBar
        <4>6. \A k \in Shifts : (k >= p - 1) <=> (k = p - 1 \/ k >= p)
          BY <4>2 DEF Shifts
        <4> HIDE DEF t
        <4>7. Looked(s, n, B(s, j)) = {j}
          <5>1. Looked(s, n, B(s, j)) \subseteq Places(s)
            BY <1>1, LookedAre
          <5>2. \A i \in Places(s) : i \in Looked(s, n, B(s, j)) <=> V(s, i) /\ B(s, i) = B(s, j) /\ i > Len(s) - n
            BY <1>1, LookedAre
          <5>3. ASSUME NEW i \in Places(s), i \in Looked(s, n, B(s, j)), i > j PROVE FALSE
            <6>1. PICK k \in Shifts : k >= p /\ B(s, i) = Bk(r, k)
              BY <2>1, <5>2, <5>3
            <6>2. B(s, i) = B(s, j) /\ B(s, j) < B(s, i)
              BY <3>1, <5>2, <5>3, <6>1
            <6> QED
              BY <1>1, <6>2
          <5>4. j \in Looked(s, n, B(s, j))
            BY <1>1, <1>4, <5>2
          <5> QED
            BY <1>1, <1>4, <5>1, <5>2, <5>3, <5>4
        <4>8. ASSUME NEW k \in Shifts, k >= p - 1 PROVE MadeOf(s, t[k], Looked(s, n, Bk(t, k)))
          <5>1. CASE k = p - 1
            BY <1>1, <4>4, <4>5, <4>7, <5>1, CopyMade
          <5>2. CASE k # p - 1
            <6>1. k >= p /\ Bk(r, k) # B(s, j)
              BY <1>1, <1>3, <3>1, <4>6, <4>8, <5>2
            <6> QED
              BY <2>1, <2>3, <4>4, <4>5, <5>2, <6>1
          <5> QED
            BY <5>1, <5>2
        <4>9. ASSUME NEW k \in Shifts, NEW m \in Shifts, k >= p - 1, k < m PROVE Bk(t, k) < Bk(t, m)
          <5>1. m >= p /\ m # p - 1
            BY <4>2, <4>9 DEF Shifts
          <5>2. CASE k = p - 1
            BY <3>1, <4>5, <5>1, <5>2
          <5>3. CASE k # p - 1
            BY <2>1, <4>5, <4>6, <4>9, <5>1, <5>3
          <5> QED
            BY <5>2, <5>3
        <4>10. ASSUME NEW i \in Places(s), V(s, i), i > Len(s) - n
               PROVE  \E k \in Shifts : k >= p - 1 /\ B(s, i) = Bk(t, k)
          <5>1. CASE i = j
            BY <4>2, <4>5, <4>6, <5>1
          <5>2. CASE i > j
            <6>1. PICK k \in Shifts : k >= p /\ B(s, i) = Bk(r, k)
              BY <2>1, <4>10, <5>2
            <6>2. k # p - 1 /\ k >= p - 1
              BY <4>2, <6>1 DEF Shifts
            <6> QED
              BY <4>5, <6>1, <6>2
          <5> QED
            BY <1>4, <4>10, <5>1, <5>2
        <4>11. p - 1 # 0
          BY <4>2, <3>3
        <4>12. FilledUpto(s, n, next)
          <5> HIDE DEF p, next
          <5> QED
            BY <4>3, <4>8, <4>9, <4>10, <4>11 DEF FilledUpto
        <4> QED
          BY <4>12
      <3> QED
        BY <3>2, <3>3
    <2> QED
      BY <2>4, <2>5
  <1> QED
    BY <1>5, <1>6

\* A discarded bar changes nothing.
LEMMA FillSkips ==
    ASSUME NEW s, Ordered(s), NEW n \in 1..ArraySize, NEW filling \in Filling,
           FilledUpto(s, n - 1, filling), ~V(s, Len(s) + 1 - n)
    PROVE  FilledUpto(s, n, filling)
  <1> DEFINE j == Len(s) + 1 - n
  <1>1. Len(s) \in Nat /\ n \in Nat /\ n - 1 \in Nat /\ Places(s) \in SUBSET Nat /\ j \in Nat
        /\ Len(s) - n = j - 1 /\ Len(s) - (n - 1) = j
    BY PlacesAre, Constants DEF Places
  <1>2. \A i \in Places(s) : V(s, i) => (i > Len(s) - n <=> i > Len(s) - (n - 1))
    BY <1>1
  <1>3. ASSUME NEW b PROVE Looked(s, n, b) = Looked(s, n - 1, b)
    <2>1. \A i \in In(s, b) : i \in Places(s) /\ V(s, i)
      BY InAre
    <2> QED
      BY <1>2, <2>1 DEF Looked
  <1> QED
    BY <1>2, <1>3 DEF FilledUpto

\* After the whole array every place is filled, if it has valid bars of enough buckets.
LEMMA FilledFull ==
    ASSUME Typed, LongEnough(source)
    PROVE  fillEmptyRatesBuffer \in Filling /\ Full(source, fillEmptyRatesBuffer.rates)
  <1>0. ArraySize \in Nat /\ Ordered(source)
    BY Constants DEF Typed
  <1>1. PICK f \in [0..ArraySize -> Filling] :
              /\ f[0] = [place |-> Size + 1, rates |-> rates, old |-> old]
              /\ \A n \in 1..ArraySize :
                    f[n] = IF V(source, Len(source) + 1 - n) THEN FillStep(source[Len(source) + 1 - n], f[n - 1])
                           ELSE f[n - 1]
              /\ fillEmptyRatesBuffer = f[ArraySize]
    BY FilledIs
  <1> DEFINE Good == {n \in 0..ArraySize : FilledUpto(source, n, f[n])}
  <1>2. 0 \in Good
    <2>1. f[0].place = Size + 1
      BY <1>1
    <2>2. \A k \in Shifts : ~(k >= Size + 1)
      BY Constants DEF Shifts
    <2>3. \A i \in Places(source) : ~(i > Len(source) - 0)
      BY <1>0, PlacesAre DEF Places
    <2>4. Size + 1 # 0
      BY Constants
    <2>5. FilledUpto(source, 0, f[0])
      BY <2>1, <2>2, <2>3, <2>4 DEF FilledUpto
    <2> QED
      BY <1>0, <2>5
  <1>3. ASSUME NEW n \in 1..ArraySize, n - 1 \in Good PROVE n \in Good
    <2>1. f[n - 1] \in Filling /\ FilledUpto(source, n - 1, f[n - 1])
      BY <1>0, <1>3
    <2>2. CASE V(source, Len(source) + 1 - n)
      BY <1>0, <1>1, <2>1, <2>2, FillStepIs
    <2>3. CASE ~V(source, Len(source) + 1 - n)
      BY <1>0, <1>1, <2>1, <2>3, FillSkips
    <2> QED
      BY <2>2, <2>3
  <1>4. \A n \in 0..ArraySize : n \in Good
    <2> HIDE DEF Good
    <2> QED
      BY <1>0, <1>2, <1>3, InductionTo
  <1>5. f[ArraySize] \in Filling /\ FilledUpto(source, ArraySize, f[ArraySize])
    BY <1>0, <1>4
  <1> DEFINE p == f[ArraySize].place
             r == f[ArraySize].rates
             L == Len(source)
             S == BucketsAt(source, L)
             T == {Bk(r, k) : k \in Shifts}
  <1>6. ASSUME p # 0 PROVE FALSE
    <2>1. \A j \in Places(source) : (V(source, j) /\ j > L - ArraySize) => \E k \in Shifts : B(source, j) = Bk(r, k)
      BY <1>5, <1>6 DEF FilledUpto
    <2>2. L \in Nat /\ L >= ArraySize /\ Places(source) = 1..L /\ L \in ArraySize..L
      BY <1>0, PlacesAre, Constants DEF Places
    <2>3. S \in SUBSET T
      <3>1. ASSUME NEW j \in L - ArraySize + 1..L, V(source, j) PROVE B(source, j) \in T
        <4>1. j \in Places(source) /\ j > L - ArraySize
          BY <1>0, <2>2
        <4> QED
          BY <2>1, <3>1, <4>1
      <3> QED
        BY <3>1 DEF BucketsAt
    <2>4. IsFiniteSet(T) /\ Cardinality(T) <= Size
      <3> DEFINE g == [k \in Shifts |-> Bk(r, k)]
      <3>1. g \in Surjection(Shifts, T)
        BY DEF Surjection
      <3>2. IsFiniteSet(Shifts) /\ Cardinality(Shifts) = Size
        <4>1. 1 \in Int /\ Size \in Int /\ ~(1 > Size) /\ Size - 1 + 1 = Size
          BY Constants
        <4> QED
          BY <4>1, FS_Interval DEF Shifts
      <3> HIDE DEF g, T
      <3> QED
        BY <3>1, <3>2, FS_Surjection
    <2>5. Cardinality(S) <= Cardinality(T) /\ Cardinality(S) \in Nat /\ Cardinality(T) \in Nat
      <3> HIDE DEF S, T
      <3> QED
        BY <2>3, <2>4, FS_Subset, FS_CardinalityType
    <2>6. Cardinality(S) > Size
      BY <2>2 DEF LongEnough
    <2> QED
      BY <2>4, <2>5, <2>6, Constants
  <1> QED
    BY <1>1, <1>5, <1>6 DEF FilledUpto

-----------------------------------------------------------------------------
(* The invariant. *)

Seen(x, c, e) == \E t \in c \cap Ticks(x) : t > e
Begun(s, c, e, n) == s[n].first <= e \/ Seen(s[n], c, e)
CalledAtEnd(s, c, e, n) == s[n].last \in c \/ s[n].last <= e

Increasing(r) == \A k, m \in Shifts : k < m => Bk(r, k) < Bk(r, m)

\* The current bar has the time and the open of the first valid bar of its bucket.
BeginsWithFirst(s, r) ==
    \E f \in Places(s) : IsFirst(s, f) /\ r[Size].time = s[f].time /\ r[Size].open = s[f].first

\* The completed ones are made of all the valid bars of their buckets.
Complete(s, r) == \A k \in Completed : MadeOf(s, r[k], In(s, Bk(r, k)))

\* f, l: the first and the last bar of a bucket, begun after the buffer was filled and seen at its end.
SeenWhole(s, c, e, f, l) == IsFirst(s, f) /\ IsLast(s, l) /\ s[f].first > e /\ Seen(s[l], c, e)

VolumeRight(s, r, c, e) ==
    \A k \in Completed : \A f, l \in In(s, Bk(r, k)) : SeenWhole(s, c, e, f, l) => Counted(r[k])

\* i begins the bucket after that of m.
IsNext(s, m, i) ==
    IsFirst(s, i) /\ B(s, m) < B(s, i) /\ \A j \in Places(s) : (V(s, j) /\ B(s, j) > B(s, m)) => B(s, j) >= B(s, i)

\* A bucket is missing before one that was not begun in time only.
MissedOnly(s, r, c, e) ==
    \A k \in Completed : \A m, i \in Places(s) :
        (V(s, m) /\ Bk(r, k) < B(s, m) /\ B(s, m) < Bk(r, k + 1) /\ IsNext(s, m, i)) => ~Begun(s, c, e, i)

\* A bucket that was begun in time is not behind the current bar, and the current bar was.
BegunKept(s, r, c, e) == \A n \in Places(s) : (IsFirst(s, n) /\ Begun(s, c, e, n)) => B(s, n) <= Bk(r, Size)
CurrentBegun(s, r, c, e) == \A n \in Places(s) : s[n].time = r[Size].time => Begun(s, c, e, n)

\* The volume remembered is not that of a bar still to be merged.
OldApart(s, r, o, c, e) ==
    \A f, l \in Places(s) :
        (SeenWhole(s, c, e, f, l) /\ B(s, f) = B(s, l) /\ B(s, l) > Bk(r, Size - 1)) =>
            \A x \in In(s, B(s, l)) : x # l => o.time # s[x].time /\ o.time # -1

\* The current bar has the ticks of the valid bars that were seen at their ends, and of no earlier bucket.
CurrentCovers(s, r, c, e) ==
    /\ \A n \in In(s, Bk(r, Size)) : CalledAtEnd(s, c, e, n) => Ticks(s[n]) \subseteq r[Size].covers
    /\ \A t \in r[Size].covers : \E n \in Places(s) : V(s, n) /\ B(s, n) >= Bk(r, Size) /\ t \in Ticks(s[n])

CurrentClose(s, r, c, e) ==
    LET n == Len(s) IN
    (V(s, n) /\ B(s, n) = Bk(r, Size) /\ s[n].time # r[Size].time /\ CalledAtEnd(s, c, e, n))
        => r[Size].close = s[n].last

Converted(s, r, o, c, e) ==
    /\ Increasing(r) /\ BeginsWithFirst(s, r) /\ Complete(s, r) /\ VolumeRight(s, r, c, e)
    /\ MissedOnly(s, r, c, e) /\ BegunKept(s, r, c, e) /\ CurrentBegun(s, r, c, e)
    /\ OldApart(s, r, o, c, e) /\ CurrentCovers(s, r, c, e) /\ CurrentClose(s, r, c, e)

CInv == (isBufferFull /\ LongEnough(source)) => Converted(source, rates, old, calls, filled)

LEMMA ShiftsAre ==
    /\ Size \in Shifts /\ Size - 1 \in Shifts /\ Size - 1 \in Completed /\ Completed \subseteq Shifts
    /\ \A k \in Completed : k \in Nat /\ k < Size /\ k + 1 \in Shifts /\ (k = Size - 1 \/ k + 1 \in Completed)
    /\ \A k \in Shifts : k \in Nat /\ (k \in Completed \/ k = Size)
  BY Constants DEF Shifts, Completed

\* The buckets of the converted bars, as numbers and in their order.
LEMMA BucketsAre ==
    ASSUME NEW r \in [Shifts -> Bars]
    PROVE  /\ \A k \in Shifts : Bk(r, k) \in Nat /\ r[k] \in Bars
           /\ Increasing(r) => \A k \in Completed : /\ Bk(r, k) < Bk(r, k + 1) /\ Bk(r, k) < Bk(r, Size)
                                                    /\ Bk(r, k + 1) <= Bk(r, Size) /\ Bk(r, k) <= Bk(r, Size - 1)
  <1>1. ASSUME NEW k \in Shifts PROVE Bk(r, k) \in Nat /\ r[k] \in Bars
    <2>1. r[k].time \in Nat
      BY DEF Bars
    <2> QED
      BY <2>1, BucketMonotone DEF Bk
  <1>2. ASSUME Increasing(r), NEW k \in Completed
        PROVE  Bk(r, k) < Bk(r, k + 1) /\ Bk(r, k) < Bk(r, Size) /\ Bk(r, k + 1) <= Bk(r, Size)
               /\ Bk(r, k) <= Bk(r, Size - 1)
    <2>1. /\ k \in Nat /\ k < Size /\ k \in Shifts /\ k + 1 \in Shifts /\ Size \in Shifts /\ Size - 1 \in Shifts
          /\ Size \in Nat /\ (k = Size - 1 \/ k < Size - 1) /\ (k + 1 = Size \/ k + 1 < Size) /\ k < k + 1
      BY ShiftsAre, Constants
    <2>2. \A i, m \in Shifts : i < m => Bk(r, i) < Bk(r, m)
      BY <1>2 DEF Increasing
    <2>3. Bk(r, k) < Bk(r, k + 1) /\ Bk(r, k) < Bk(r, Size)
      BY <2>1, <2>2
    <2>4. Bk(r, k + 1) <= Bk(r, Size)
      BY <1>1, <2>1, <2>2
    <2>5. Bk(r, k) <= Bk(r, Size - 1)
      BY <1>1, <2>1, <2>2
    <2> QED
      BY <2>3, <2>4, <2>5
  <1> QED
    BY <1>1, <1>2

\* The current bar is of the bucket of the last bar or an earlier one.
LEMMA CurrentIs ==
    ASSUME NEW s, NEW r, Ordered(s), BeginsWithFirst(s, r)
    PROVE  \E f \in Places(s) : /\ IsFirst(s, f) /\ V(s, f) /\ r[Size].time = s[f].time /\ r[Size].open = s[f].first
                                /\ Bk(r, Size) = B(s, f) /\ f <= Len(s) /\ B(s, f) <= B(s, Len(s))
  <1>1. PICK f \in Places(s) : IsFirst(s, f) /\ r[Size].time = s[f].time /\ r[Size].open = s[f].first
    BY DEF BeginsWithFirst
  <1>2. V(s, f) /\ Bk(r, Size) = B(s, f)
    BY <1>1 DEF IsFirst, Bk, B
  <1>3. f <= Len(s) /\ Len(s) \in Places(s)
    BY PlacesAre DEF Places
  <1>4. B(s, f) <= B(s, Len(s))
    BY <1>3, PlacesInOrder
  <1> QED
    BY <1>1, <1>2, <1>3, <1>4

-----------------------------------------------------------------------------
(* The terminal goes on. *)

\* From the bars s to the bars t: the last of s grew, or another one began.
Grown(s, t) ==
    /\ Len(t) \in {Len(s), Len(s) + 1}
    /\ \A n \in Places(s) : t[n].time = s[n].time /\ t[n].first = s[n].first /\ t[n].last >= s[n].last
    /\ \A n \in Places(s) : n < Len(t) => t[n] = s[n]
    /\ t[Len(t)].last > s[Len(s)].last
    /\ Len(t) = Len(s) + 1 => t[Len(t)].first > s[Len(s)].last

LEMMA GrownIs ==
    ASSUME NEW s, NEW t, Ordered(s), Ordered(t), Grown(s, t)
    PROVE  /\ \A n \in Places(s) : /\ n \in Places(t) /\ (V(t, n) <=> V(s, n)) /\ B(t, n) = B(s, n)
                                   /\ Ticks(s[n]) \subseteq Ticks(t[n])
           /\ \A n \in Places(t) : n \notin Places(s) => /\ n = Len(t) /\ t[n].first > s[Len(s)].last
                                                         /\ \A m \in Places(s) : m < n
           /\ \A n \in Places(t) : n < Len(t) => n \in Places(s) /\ t[n] = s[n]
           /\ \A b, n : n \in In(s, b) <=> n \in In(t, b) /\ n \in Places(s)
  <1>1. /\ Len(s) \in Nat /\ Len(t) \in Nat /\ Places(s) = 1..Len(s) /\ Places(t) = 1..Len(t)
        /\ Len(t) = Len(s) \/ Len(t) = Len(s) + 1
    BY PlacesAre DEF Places, Grown
  <1>2. ASSUME NEW n \in Places(s)
        PROVE  n \in Places(t) /\ (V(t, n) <=> V(s, n)) /\ B(t, n) = B(s, n) /\ Ticks(s[n]) \subseteq Ticks(t[n])
    <2>1. n \in Places(t)
      BY <1>1
    <2>2. t[n].time = s[n].time /\ t[n].first = s[n].first /\ t[n].last >= s[n].last
      BY DEF Grown
    <2>3. s[n].first \in Nat /\ s[n].last \in Nat /\ t[n].last \in Nat
      BY <2>1, PlacesAre
    <2>4. Ticks(s[n]) \subseteq Ticks(t[n])
      BY <2>2, <2>3 DEF Ticks
    <2> QED
      BY <2>1, <2>2, <2>4 DEF V, B, IsValid
  <1>3. ASSUME NEW n \in Places(t), n \notin Places(s)
        PROVE  n = Len(t) /\ t[n].first > s[Len(s)].last /\ \A m \in Places(s) : m < n
    <2>1. n = Len(t) /\ Len(t) = Len(s) + 1
      BY <1>1, <1>3
    <2> QED
      BY <1>1, <2>1 DEF Grown
  <1>4. ASSUME NEW n \in Places(t), n < Len(t) PROVE n \in Places(s) /\ t[n] = s[n]
    <2>1. n \in Places(s)
      BY <1>1, <1>4
    <2> QED
      BY <1>4, <2>1 DEF Grown
  <1>5. \A b, n : n \in In(s, b) <=> n \in In(t, b) /\ n \in Places(s)
    BY <1>2 DEF In
  <1> QED
    BY <1>2, <1>3, <1>4, <1>5

\* Nothing of it was seen yet.
LEMMA GrownSeen ==
    ASSUME NEW s, NEW t, Ordered(s), Ordered(t), Grown(s, t), NEW c, NEW e, Past(s, c, e)
    PROVE  /\ \A n \in Places(s) : Seen(t[n], c, e) <=> Seen(s[n], c, e)
           /\ \A n \in Places(s) : Begun(t, c, e, n) <=> Begun(s, c, e, n)
           /\ \A n \in Places(t) : Seen(t[n], c, e) => n \in Places(s)
           /\ \A n \in Places(t) : Begun(t, c, e, n) => n \in Places(s)
           /\ \A n \in Places(t) : CalledAtEnd(t, c, e, n) => n \in Places(s) /\ n < Len(t) /\ t[n] = s[n]
  <1> DEFINE L == Len(s)
  <1>1. /\ L \in Places(s) /\ s[L].last \in Nat /\ c \in SUBSET Nat /\ e \in Nat
        /\ e <= s[L].last /\ \A u \in c : u <= s[L].last
    BY PlacesAre DEF Past
  <1>2. /\ \A n \in Places(t) : t[n].first \in Nat /\ t[n].last \in Nat /\ t[n].first <= t[n].last
        /\ \A n \in Places(s) : s[n].first \in Nat /\ s[n].last \in Nat
        /\ Len(s) \in Nat /\ Len(t) \in Nat /\ Places(t) = 1..Len(t) /\ Places(s) = 1..Len(s)
    BY PlacesAre DEF Places
  <1>3. ASSUME NEW n \in Places(s) PROVE Seen(t[n], c, e) <=> Seen(s[n], c, e)
    <2>1. n \in Places(t) /\ t[n].first = s[n].first /\ t[n].last >= s[n].last
      BY GrownIs DEF Grown
    <2>2. CASE n < Len(t)
      BY <2>1, <2>2, GrownIs
    <2>3. CASE ~(n < Len(t))
      <3>1. n = L
        BY <1>2, <2>1, <2>3 DEF Grown
      <3>2. ASSUME NEW u \in c PROVE u \in Ticks(t[n]) <=> u \in Ticks(s[n])
        <4>1. u \in Nat /\ u <= s[n].last /\ u <= t[n].last
          BY <1>1, <1>2, <2>1, <3>1
        <4> QED
          BY <1>2, <2>1, <4>1 DEF Ticks
      <3> QED
        BY <3>2 DEF Seen
    <2> QED
      BY <2>2, <2>3
  <1>4. \A n \in Places(s) : Begun(t, c, e, n) <=> Begun(s, c, e, n)
    <2>1. \A n \in Places(s) : t[n].first = s[n].first
      BY DEF Grown
    <2> QED
      BY <1>3, <2>1 DEF Begun
  <1>5. ASSUME NEW n \in Places(t), n \notin Places(s) PROVE ~Seen(t[n], c, e) /\ ~Begun(t, c, e, n)
    <2>1. t[n].first > s[L].last
      BY <1>5, GrownIs
    <2>2. \A u \in c : u \notin Ticks(t[n])
      BY <1>1, <1>2, <2>1 DEF Ticks
    <2> QED
      BY <1>1, <1>2, <2>1, <2>2 DEF Seen, Begun
  <1>6. ASSUME NEW n \in Places(t), CalledAtEnd(t, c, e, n) PROVE n \in Places(s) /\ n < Len(t) /\ t[n] = s[n]
    <2>1. t[n].last <= s[L].last
      BY <1>1, <1>2, <1>6 DEF CalledAtEnd
    <2>2. n # Len(t)
      BY <1>1, <1>2, <2>1 DEF Grown
    <2>3. n < Len(t)
      BY <1>2, <2>2
    <2> QED
      BY <2>3, GrownIs
  <1> QED
    BY <1>3, <1>4, <1>5, <1>6

LEMMA GrownEnough ==
    ASSUME NEW s, NEW t, Ordered(s), Ordered(t), Grown(s, t), LongEnough(t)
    PROVE  LongEnough(s)
  <1>1. Len(s) \in Nat /\ Len(t) \in Nat /\ Len(t) >= Len(s) /\ Places(s) = 1..Len(s)
    BY PlacesAre DEF Places, Grown
  <1>2. ASSUME NEW n \in ArraySize..Len(s) PROVE Cardinality(BucketsAt(s, n)) > Size
    <2>1. \A j \in n - ArraySize + 1..n : j \in Places(s)
      BY <1>1, Constants
    <2>2. BucketsAt(s, n) = BucketsAt(t, n)
      BY <2>1, GrownIs DEF BucketsAt
    <2>3. n \in ArraySize..Len(t)
      BY <1>1, Constants
    <2> QED
      BY <2>2, <2>3 DEF LongEnough
  <1> QED
    BY <1>2 DEF LongEnough

\* The first bars of the buckets up to the current one are the same.
LEMMA GrownFirst ==
    ASSUME NEW s, NEW t, Ordered(s), Ordered(t), Grown(s, t)
    PROVE  /\ \A n \in Places(s) : IsFirst(t, n) <=> IsFirst(s, n)
           /\ \A n \in Places(s) : IsLast(t, n) => IsLast(s, n)
           /\ \A b : b < B(s, Len(s)) => In(t, b) = In(s, b) /\ \A n \in In(s, b) : n < Len(s) /\ t[n] = s[n]
  <1>0. Places(s) \in SUBSET Nat /\ Places(t) \in SUBSET Nat
    BY PlacesAre
  <1>1. ASSUME NEW n \in Places(s) PROVE IsFirst(t, n) <=> IsFirst(s, n)
    <2>1. n \in Places(t) /\ (V(t, n) <=> V(s, n)) /\ B(t, n) = B(s, n)
      BY GrownIs
    <2>2. ASSUME NEW m \in In(t, B(t, n)) PROVE m \in In(s, B(s, n)) \/ n <= m
      <3>1. CASE m \in Places(s)
        BY <2>1, <3>1, GrownIs
      <3>2. CASE m \notin Places(s)
        <4>1. m \in Places(t)
          BY InAre
        <4>2. n < m
          BY <3>2, <4>1, GrownIs
        <4> QED
          BY <1>0, <4>1, <4>2
      <3> QED
        BY <3>1, <3>2
    <2>3. \A m \in In(s, B(s, n)) : m \in In(t, B(t, n))
      BY <2>1, GrownIs
    <2> QED
      BY <2>1, <2>2, <2>3 DEF IsFirst
  <1>2. ASSUME NEW n \in Places(s), IsLast(t, n) PROVE IsLast(s, n)
    <2>1. (V(t, n) <=> V(s, n)) /\ B(t, n) = B(s, n)
      BY GrownIs
    <2>2. \A m \in In(s, B(s, n)) : m \in In(t, B(t, n))
      BY <2>1, GrownIs
    <2> QED
      BY <1>2, <2>1, <2>2 DEF IsLast
  <1>3. ASSUME NEW b, b < B(s, Len(s)) PROVE In(t, b) = In(s, b) /\ \A n \in In(s, b) : n < Len(s) /\ t[n] = s[n]
    <2>0. Len(s) \in Places(s) /\ Len(s) \in Places(t) /\ B(s, Len(s)) = B(t, Len(s))
      BY PlacesAre, GrownIs
    <2>1. ASSUME NEW n \in In(t, b) PROVE n \in In(s, b) /\ n < Len(s)
      <3>1. n \in Places(t) /\ B(t, n) < B(t, Len(s))
        BY <1>3, <2>0, InAre
      <3>2. n < Len(s)
        BY <2>0, <3>1, PlacesInOrder
      <3>3. n \in Places(s)
        BY <1>0, <2>0, <3>1, <3>2 DEF Places
      <3> QED
        BY <3>2, <3>3, GrownIs
    <2>2. \A n \in In(s, b) : n \in In(t, b)
      BY GrownIs
    <2>3. ASSUME NEW n \in In(s, b) PROVE t[n] = s[n]
      <3>1. n < Len(s) /\ n \in Places(t) /\ n \in Nat
        BY <2>1, <2>2, InAre, <1>0
      <3>2. n < Len(t)
        BY <3>1, PlacesAre DEF Grown
      <3> QED
        BY <3>1, <3>2, GrownIs
    <2> QED
      BY <2>1, <2>2, <2>3
  <1> QED
    BY <1>1, <1>2, <1>3

LEMMA MadeSame ==
    ASSUME NEW s, NEW t, NEW bar, NEW I, \A n \in I : t[n] = s[n], MadeOf(s, bar, I)
    PROVE  MadeOf(t, bar, I)
  <1>1. {Ticks(s[n]) : n \in I} = {Ticks(t[n]) : n \in I}
    OBVIOUS
  <1> QED
    BY <1>1 DEF MadeOf

LEMMA GrownConverted ==
    ASSUME NEW s, NEW t, NEW r \in [Shifts -> Bars], NEW o, NEW c, NEW e,
           Ordered(s), Ordered(t), Grown(s, t), Past(s, c, e), Converted(s, r, o, c, e)
    PROVE  Converted(t, r, o, c, e)
  <1> DEFINE L == Len(s)
  <1>1. PICK f \in Places(s) : /\ IsFirst(s, f) /\ V(s, f) /\ r[Size].time = s[f].time /\ r[Size].open = s[f].first
                               /\ Bk(r, Size) = B(s, f) /\ f <= L /\ B(s, f) <= B(s, L)
    BY CurrentIs DEF Converted
  <1>2. /\ \A k \in Shifts : Bk(r, k) \in Nat
        /\ \A k \in Completed : /\ k \in Shifts /\ k + 1 \in Shifts /\ Bk(r, k) < Bk(r, Size)
                                /\ Bk(r, k + 1) <= Bk(r, Size) /\ Bk(r, k) < Bk(r, k + 1)
    BY BucketsAre, ShiftsAre DEF Converted
  <1>3. /\ Places(s) \in SUBSET Nat /\ L \in Places(s) /\ \A n \in Places(s) : B(s, n) \in Nat /\ s[n].time \in Nat
        /\ Places(t) \in SUBSET Nat /\ \A n \in Places(t) : B(t, n) \in Nat /\ t[n].time \in Nat
        /\ Size \in Shifts /\ Size - 1 \in Shifts
    BY PlacesAre, ShiftsAre
  <1>4. /\ \A n \in Places(s) : /\ n \in Places(t) /\ (V(t, n) <=> V(s, n)) /\ B(t, n) = B(s, n)
                                /\ Ticks(s[n]) \subseteq Ticks(t[n]) /\ t[n].time = s[n].time /\ t[n].first = s[n].first
                                /\ (IsFirst(t, n) <=> IsFirst(s, n)) /\ (IsLast(t, n) => IsLast(s, n))
                                /\ (Begun(t, c, e, n) <=> Begun(s, c, e, n)) /\ (Seen(t[n], c, e) <=> Seen(s[n], c, e))
        /\ \A n \in Places(t) : (Begun(t, c, e, n) \/ Seen(t[n], c, e)) => n \in Places(s)
        /\ \A n \in Places(t) : n \notin Places(s) => \A m \in Places(s) : m < n
    BY GrownIs, GrownSeen, GrownFirst DEF Grown
  <1>5. \A k \in Completed : In(t, Bk(r, k)) = In(s, Bk(r, k)) /\ \A n \in In(s, Bk(r, k)) : t[n] = s[n] /\ n \in Places(s)
    <2>1. \A k \in Completed : Bk(r, k) < B(s, L)
      BY <1>1, <1>2, <1>3
    <2> QED
      BY <2>1, GrownFirst, InAre
  <1>6. BeginsWithFirst(t, r)
    BY <1>1, <1>4 DEF BeginsWithFirst
  <1>7. Complete(t, r)
    BY <1>5, MadeSame DEF Converted, Complete
  <1>8. VolumeRight(t, r, c, e)
    <2> SUFFICES ASSUME NEW k \in Completed, NEW m \in In(t, Bk(r, k)), NEW l \in In(t, Bk(r, k)), SeenWhole(t, c, e, m, l)
                 PROVE  Counted(r[k])
      BY DEF VolumeRight
    <2>1. m \in In(s, Bk(r, k)) /\ l \in In(s, Bk(r, k)) /\ m \in Places(s) /\ l \in Places(s)
      BY <1>5
    <2>2. SeenWhole(s, c, e, m, l)
      BY <1>4, <2>1 DEF SeenWhole
    <2> QED
      BY <2>1, <2>2 DEF Converted, VolumeRight
  <1>9. MissedOnly(t, r, c, e)
    <2> SUFFICES ASSUME NEW k \in Completed, NEW m \in Places(t), NEW i \in Places(t),
                        V(t, m), Bk(r, k) < B(t, m), B(t, m) < Bk(r, k + 1), IsNext(t, m, i), Begun(t, c, e, i)
                 PROVE  FALSE
      BY DEF MissedOnly
    <2>1. i \in Places(s)
      BY <1>4
    <2>2. B(t, m) < B(t, L)
      BY <1>1, <1>2, <1>3, <1>4
    <2>3. m \in Places(s)
      <3>1. m < L
        BY <1>3, <1>4, <2>2, PlacesInOrder
      <3> QED
        BY <1>3, <1>4, <3>1
    <2>4. IsNext(s, m, i)
      BY <1>4, <2>1, <2>3 DEF IsNext
    <2> QED
      BY <1>4, <2>1, <2>3, <2>4 DEF Converted, MissedOnly
  <1>10. BegunKept(t, r, c, e)
    BY <1>4 DEF Converted, BegunKept
  <1>11. CurrentBegun(t, r, c, e)
    <2> SUFFICES ASSUME NEW n \in Places(t), t[n].time = r[Size].time PROVE Begun(t, c, e, n)
      BY DEF CurrentBegun
    <2>1. n = f
      BY <1>1, <1>4, PlacesInOrder
    <2> QED
      BY <1>1, <1>4, <2>1 DEF Converted, CurrentBegun
  <1>12. OldApart(t, r, o, c, e)
    <2> SUFFICES ASSUME NEW m \in Places(t), NEW l \in Places(t), SeenWhole(t, c, e, m, l), B(t, m) = B(t, l),
                        B(t, l) > Bk(r, Size - 1), NEW x \in In(t, B(t, l)), x # l
                 PROVE  o.time # t[x].time /\ o.time # -1
      BY DEF OldApart
    <2>1. l \in Places(s) /\ IsLast(t, l) /\ IsFirst(t, m)
      BY <1>4 DEF SeenWhole
    <2>2. x \in Places(t) /\ m <= l /\ x <= l
      BY <2>1, InAre DEF IsLast, IsFirst
    <2>3. x \in Places(s) /\ m \in Places(s)
      <3>1. \A n \in Places(t) : n <= l => n \in Places(s)
        BY <1>3, <1>4, <2>1
      <3> QED
        BY <2>2, <3>1
    <2>4. SeenWhole(s, c, e, m, l)
      BY <1>4, <2>1, <2>3 DEF SeenWhole
    <2>5. x \in In(s, B(s, l))
      BY <1>4, <2>1, <2>3, GrownIs
    <2>6. B(s, m) = B(s, l) /\ B(s, l) > Bk(r, Size - 1)
      BY <1>4, <2>1, <2>3
    <2>7. o.time # s[x].time /\ o.time # -1
      BY <2>1, <2>3, <2>4, <2>5, <2>6 DEF Converted, OldApart
    <2> QED
      BY <1>4, <2>3, <2>7
  <1>13. CurrentCovers(t, r, c, e)
    <2>1. ASSUME NEW n \in In(t, Bk(r, Size)), CalledAtEnd(t, c, e, n) PROVE Ticks(t[n]) \subseteq r[Size].covers
      <3>1. n \in Places(t)
        BY InAre
      <3>2. n \in Places(s) /\ t[n] = s[n]
        BY <2>1, <3>1, GrownSeen
      <3>3. n \in In(s, Bk(r, Size)) /\ CalledAtEnd(s, c, e, n)
        BY <2>1, <3>2, GrownIs DEF CalledAtEnd
      <3> QED
        BY <3>2, <3>3 DEF Converted, CurrentCovers
    <2>2. ASSUME NEW u \in r[Size].covers PROVE \E n \in Places(t) : V(t, n) /\ B(t, n) >= Bk(r, Size) /\ u \in Ticks(t[n])
      <3>1. PICK n \in Places(s) : V(s, n) /\ B(s, n) >= Bk(r, Size) /\ u \in Ticks(s[n])
        BY DEF Converted, CurrentCovers
      <3> QED
        BY <1>4, <3>1
    <2> QED
      BY <2>1, <2>2 DEF CurrentCovers
  <1>14. CurrentClose(t, r, c, e)
    <2>1. Len(t) \in Places(t) /\ ~(Len(t) < Len(t))
      BY PlacesAre
    <2>2. ~CalledAtEnd(t, c, e, Len(t))
      BY <2>1, GrownSeen
    <2> QED
      BY <2>2 DEF CurrentClose
  <1> QED
    BY <1>6, <1>7, <1>8, <1>9, <1>10, <1>11, <1>12, <1>13, <1>14 DEF Converted

-----------------------------------------------------------------------------
(* A call. *)

LEMMA CallIs ==
    ASSUME NEW s, NEW c, NEW e, Ordered(s), Past(s, c, e)
    PROVE  LET L == Len(s)
               d == c \cup {s[L].last}
           IN  /\ \A n \in Places(s) : n # L => /\ Seen(s[n], d, e) <=> Seen(s[n], c, e)
                                                /\ Begun(s, d, e, n) <=> Begun(s, c, e, n)
                                                /\ CalledAtEnd(s, d, e, n) <=> CalledAtEnd(s, c, e, n)
               /\ \A n \in Places(s) : Begun(s, c, e, n) => Begun(s, d, e, n)
               /\ Begun(s, d, e, L) /\ Past(s, d, e)
  <1> DEFINE L == Len(s)
             u == s[L].last
             d == c \cup {u}
  <1>1. /\ L \in Places(s) /\ u \in Nat /\ s[L].first \in Nat /\ s[L].first <= u /\ Places(s) = 1..L /\ L \in Nat
        /\ c \in SUBSET Nat /\ e \in Nat /\ e <= u /\ \A v \in c : v <= u
    BY PlacesAre DEF Past, Places
  <1>2. ASSUME NEW n \in Places(s), n # L PROVE s[n].last < u /\ u \notin Ticks(s[n])
    <2>1. n < L
      BY <1>1, <1>2
    <2>2. s[n].last < s[L].first /\ s[n].last \in Nat /\ s[n].first \in Nat
      BY <1>1, <2>1, PlacesInOrder, PlacesAre
    <2> QED
      BY <1>1, <2>2 DEF Ticks
  <1>3. ASSUME NEW n \in Places(s), n # L PROVE Seen(s[n], d, e) <=> Seen(s[n], c, e)
    BY <1>2, <1>3 DEF Seen
  <1>4. \A n \in Places(s) : n # L => (Begun(s, d, e, n) <=> Begun(s, c, e, n))
    BY <1>3 DEF Begun
  <1>5. ASSUME NEW n \in Places(s), n # L PROVE CalledAtEnd(s, d, e, n) <=> CalledAtEnd(s, c, e, n)
    <2>1. s[n].last # u
      BY <1>1, <1>2, <1>5, PlacesAre
    <2> QED
      BY <2>1 DEF CalledAtEnd
  <1>6. \A n \in Places(s) : Begun(s, c, e, n) => Begun(s, d, e, n)
    BY DEF Begun, Seen
  <1>7. Begun(s, d, e, L)
    <2>1. u \in Ticks(s[L]) /\ u \in d
      BY <1>1 DEF Ticks
    <2>2. u > e \/ s[L].first <= e
      BY <1>1
    <2> QED
      BY <2>1, <2>2 DEF Begun, Seen
  <1>8. Past(s, d, e)
    <2>1. d \in SUBSET Nat
      BY <1>1
    <2>2. ASSUME NEW v \in d PROVE v <= u
      <3>1. v \in c \/ v = u
        OBVIOUS
      <3> QED
        BY <1>1, <3>1
    <2> QED
      BY <1>1, <2>1, <2>2 DEF Past
  <1> HIDE DEF d
  <1> QED
    BY <1>3, <1>4, <1>5, <1>6, <1>7, <1>8 DEF d

\* A discarded bar.
LEMMA DiscardedConverted ==
    ASSUME NEW s, NEW r \in [Shifts -> Bars], NEW o, NEW c, NEW e,
           Ordered(s), Past(s, c, e), Converted(s, r, o, c, e), ~V(s, Len(s))
    PROVE  Converted(s, r, o, c \cup {s[Len(s)].last}, e)
  <1> DEFINE L == Len(s)
             d == c \cup {s[L].last}
  <1>1. PICK f \in Places(s) : /\ IsFirst(s, f) /\ V(s, f) /\ r[Size].time = s[f].time /\ r[Size].open = s[f].first
                               /\ Bk(r, Size) = B(s, f)
    BY CurrentIs DEF Converted
  <1>2. \A n \in Places(s) : V(s, n) => /\ Seen(s[n], d, e) <=> Seen(s[n], c, e)
                                        /\ Begun(s, d, e, n) <=> Begun(s, c, e, n)
                                        /\ CalledAtEnd(s, d, e, n) <=> CalledAtEnd(s, c, e, n)
    BY CallIs
  <1>3. \A m, n : SeenWhole(s, d, e, m, n) <=> SeenWhole(s, c, e, m, n)
    BY <1>2 DEF SeenWhole, IsLast
  <1> HIDE DEF d
  <1>4. VolumeRight(s, r, d, e)
    BY <1>3 DEF Converted, VolumeRight
  <1>5. MissedOnly(s, r, d, e)
    BY <1>2 DEF Converted, MissedOnly, IsNext, IsFirst
  <1>6. BegunKept(s, r, d, e)
    BY <1>2 DEF Converted, BegunKept, IsFirst
  <1>7. CurrentBegun(s, r, d, e)
    <2>1. \A n \in Places(s) : s[n].time = r[Size].time => V(s, n)
      BY <1>1, PlacesInOrder
    <2> QED
      BY <1>2, <2>1 DEF Converted, CurrentBegun
  <1>8. OldApart(s, r, o, d, e)
    BY <1>3 DEF Converted, OldApart
  <1>9. CurrentCovers(s, r, d, e)
    BY <1>2, InAre DEF Converted, CurrentCovers
  <1>10. CurrentClose(s, r, d, e)
    BY DEF CurrentClose
  <1> QED
    BY <1>4, <1>5, <1>6, <1>7, <1>8, <1>9, <1>10 DEF Converted, d

\* A bar merged into the current one.
LEMMA MergedConverted ==
    ASSUME NEW r \in [Shifts -> Bars], NEW o \in Remembered, NEW c, NEW e,
           Ordered(source), LongEnough(source), Past(source, c, e), Converted(source, r, o, c, e), V(source, Len(source)),
           ~(B(source, Before(source)) < B(source, Len(source)) /\ source[Len(source)].time # r[Size].time)
    PROVE  LET merged == mergeBar([bar |-> r[Size], old |-> o], source[Len(source)])
           IN  Converted(source, [r EXCEPT ![Size] = merged.bar], merged.old, c \cup {source[Len(source)].last}, e)
  <1> DEFINE s == source
             L == Len(s)
             x == s[L]
             d == c \cup {x.last}
             into == [bar |-> r[Size], old |-> o]
             merged == mergeBar(into, x)
             p == merged.old
             t == [r EXCEPT ![Size] = merged.bar]
  <1>1. PICK f \in Places(s) : /\ IsFirst(s, f) /\ V(s, f) /\ r[Size].time = s[f].time /\ r[Size].open = s[f].first
                               /\ Bk(r, Size) = B(s, f) /\ f <= L /\ B(s, f) <= B(s, L)
    BY CurrentIs DEF Converted
  <1>2. /\ \A k \in Shifts : Bk(r, k) \in Nat
        /\ \A k \in Completed : /\ k \in Shifts /\ k + 1 \in Shifts /\ Bk(r, k) < Bk(r, Size) /\ k # Size
                                /\ Bk(r, k + 1) <= Bk(r, Size) /\ Bk(r, k) < Bk(r, k + 1)
    BY BucketsAre, ShiftsAre DEF Converted
  <1>3. /\ Places(s) \in SUBSET Nat /\ L \in Places(s) /\ \A n \in Places(s) : B(s, n) \in Nat /\ s[n].time \in Nat
        /\ Size \in Shifts /\ Size - 1 \in Shifts /\ Size - 1 \in Completed /\ Size - 1 # Size
        /\ x \in SourceBars /\ x.time \in Nat
    BY PlacesAre, ShiftsAre, Constants
  <1>4. /\ \A n \in Places(s) : n # L => /\ Seen(s[n], d, e) <=> Seen(s[n], c, e)
                                         /\ Begun(s, d, e, n) <=> Begun(s, c, e, n)
                                         /\ CalledAtEnd(s, d, e, n) <=> CalledAtEnd(s, c, e, n)
        /\ \A n \in Places(s) : Begun(s, c, e, n) => Begun(s, d, e, n)
    BY CallIs
  \* The time and the open stay, the ticks are added.
  <1>5. s[f].time <= x.time
    BY <1>1, <1>3, PlacesInOrder
  <1>6. /\ merged.bar.time = r[Size].time /\ merged.bar.open = r[Size].open
        /\ merged.bar.covers = r[Size].covers \cup Ticks(x)
        /\ x.time > r[Size].time => merged.bar.close = x.last
        /\ p.time = x.time
    BY <1>1, <1>3, <1>5 DEF mergeBar
  <1> HIDE DEF merged
  <1>7. t[Size] = merged.bar /\ \A k \in Shifts : k # Size => t[k] = r[k]
    BY <1>3
  <1>8. \A k \in Shifts : Bk(t, k) = Bk(r, k)
    BY <1>6, <1>7 DEF Bk
  <1> HIDE DEF t, d, p
  <1>9. Increasing(t)
    BY <1>8 DEF Converted, Increasing
  <1>10. BeginsWithFirst(s, t)
    BY <1>1, <1>6, <1>7 DEF BeginsWithFirst
  <1>11. Complete(s, t)
    BY <1>2, <1>7, <1>8 DEF Converted, Complete
  <1>12. \A k \in Completed : \A n \in In(s, Bk(r, k)) : n \in Places(s) /\ n # L
    BY <1>1, <1>2, <1>3, InAre
  <1>13. VolumeRight(s, t, d, e)
    <2> SUFFICES ASSUME NEW k \in Completed, NEW m \in In(s, Bk(t, k)), NEW l \in In(s, Bk(t, k)), SeenWhole(s, d, e, m, l)
                 PROVE  Counted(t[k])
      BY DEF VolumeRight
    <2>1. m \in In(s, Bk(r, k)) /\ l \in In(s, Bk(r, k)) /\ t[k] = r[k]
      BY <1>2, <1>7, <1>8
    <2>2. SeenWhole(s, c, e, m, l)
      BY <1>4, <1>12, <2>1 DEF SeenWhole
    <2> QED
      BY <2>1, <2>2 DEF Converted, VolumeRight
  <1>14. MissedOnly(s, t, d, e)
    <2> SUFFICES ASSUME NEW k \in Completed, NEW m \in Places(s), NEW i \in Places(s),
                        V(s, m), Bk(t, k) < B(s, m), B(s, m) < Bk(t, k + 1), IsNext(s, m, i), Begun(s, d, e, i)
                 PROVE  FALSE
      BY DEF MissedOnly
    <2>1. Bk(r, k) < B(s, m) /\ B(s, m) < Bk(r, k + 1)
      BY <1>2, <1>8
    <2>2. ~Begun(s, c, e, i)
      BY <2>1 DEF Converted, MissedOnly
    <2>3. i = L
      BY <1>4, <2>2
    <2>4. B(s, m) < B(s, f)
      BY <1>1, <1>2, <1>3, <2>1
    <2>5. B(s, i) <= B(s, f) /\ IsFirst(s, i)
      BY <1>1, <2>4 DEF IsNext
    <2>6. B(s, i) = B(s, f)
      BY <1>1, <1>3, <2>3, <2>5
    <2>7. i = f
      BY <1>1, <2>5, <2>6, LastIsUnique
    <2>8. Begun(s, c, e, f)
      BY <1>1 DEF Converted, CurrentBegun
    <2> QED
      BY <2>2, <2>7, <2>8
  <1>15. BegunKept(s, t, d, e)
    <2> SUFFICES ASSUME NEW n \in Places(s), IsFirst(s, n), Begun(s, d, e, n) PROVE B(s, n) <= Bk(r, Size)
      BY <1>3, <1>8 DEF BegunKept
    <2>1. CASE n # L
      BY <1>4, <2>1 DEF Converted, BegunKept
    <2>2. CASE n = L /\ x.time = r[Size].time
      <3>1. n = f
        BY <1>1, <1>3, <2>2, PlacesInOrder
      <3> QED
        BY <1>1, <1>3, <3>1
    <2>3. CASE n = L /\ x.time # r[Size].time
      <3>1. /\ Before(s) \in Places(s) /\ Before(s) < L /\ V(s, Before(s))
        BY BeforeIs
      <3>2. ~(B(s, Before(s)) < B(s, L)) /\ B(s, Before(s)) <= B(s, L)
        BY <1>3, <2>3, <3>1, PlacesInOrder
      <3>3. B(s, Before(s)) = B(s, L)
        BY <1>3, <3>1, <3>2
      <3>4. Before(s) \in In(s, B(s, L))
        BY <3>1, <3>3, InAre
      <3>5. L <= Before(s)
        BY <2>3, <3>4 DEF IsFirst
      <3> QED
        BY <1>3, <3>1, <3>5
    <2> QED
      BY <2>1, <2>2, <2>3
  <1>16. CurrentBegun(s, t, d, e)
    BY <1>4, <1>6, <1>7 DEF Converted, CurrentBegun
  <1>17. OldApart(s, t, p, d, e)
    <2> SUFFICES ASSUME NEW m \in Places(s), NEW l \in Places(s), SeenWhole(s, d, e, m, l),
                        NEW i \in In(s, B(s, l)), i # l
                 PROVE  p.time # s[i].time /\ p.time # -1
      BY DEF OldApart
    <2>1. i \in Places(s) /\ i <= l /\ l <= L
      BY InAre, PlacesAre DEF SeenWhole, IsLast, Places
    <2>2. i # L
      BY <1>3, <2>1
    <2>3. s[i].time # x.time
      BY <1>3, <2>1, <2>2, PlacesInOrder
    <2> QED
      BY <1>3, <1>6, <2>3
  <1>18. CurrentCovers(s, t, d, e)
    <2>0. t[Size].covers = r[Size].covers \cup Ticks(x) /\ Bk(t, Size) = Bk(r, Size)
      BY <1>3, <1>6, <1>7, <1>8
    <2>1. ASSUME NEW n \in In(s, Bk(r, Size)), CalledAtEnd(s, d, e, n) PROVE Ticks(s[n]) \subseteq t[Size].covers
      <3>1. n \in Places(s)
        BY InAre
      <3>2. CASE n = L
        BY <2>0, <3>2
      <3>3. CASE n # L
        <4>1. CalledAtEnd(s, c, e, n)
          BY <1>4, <2>1, <3>1, <3>3
        <4> QED
          BY <2>0, <4>1 DEF Converted, CurrentCovers
      <3> QED
        BY <3>2, <3>3
    <2>2. ASSUME NEW u \in t[Size].covers PROVE \E n \in Places(s) : V(s, n) /\ B(s, n) >= Bk(r, Size) /\ u \in Ticks(s[n])
      <3>1. CASE u \in r[Size].covers
        BY <3>1 DEF Converted, CurrentCovers
      <3>2. CASE u \in Ticks(x)
        BY <1>1, <1>3, <3>2
      <3> QED
        BY <2>0, <3>1, <3>2
    <2> QED
      BY <2>0, <2>1, <2>2 DEF CurrentCovers
  <1>19. CurrentClose(s, t, d, e)
    <2> SUFFICES ASSUME x.time # t[Size].time PROVE t[Size].close = x.last
      BY DEF CurrentClose
    <2>1. x.time > r[Size].time
      BY <1>1, <1>3, <1>5, <1>6, <1>7
    <2> QED
      BY <1>6, <1>7, <2>1
  <1>20. Converted(s, t, p, d, e)
    BY <1>9, <1>10, <1>11, <1>13, <1>14, <1>15, <1>16, <1>17, <1>18, <1>19 DEF Converted
  <1> QED
    BY <1>20 DEF t, p, d, merged

\* A bar that begins a converted one, when the bar before was built anew.
LEMMA BegunConverted ==
    ASSUME NEW r \in [Shifts -> Bars], NEW o, NEW c, NEW e,
           Ordered(source), LongEnough(source), Past(source, c, e), Converted(source, r, o, c, e), V(source, Len(source)),
           B(source, Before(source)) < B(source, Len(source)), source[Len(source)].time # r[Size].time,
           NEW bar, MadeOf(source, bar, In(source, B(source, Before(source)))),
           (\A x \in In(source, B(source, Before(source))) :
                x # Before(source) => o.time # source[x].time /\ o.time # -1) => Counted(bar),
           NEW p,
           NEW t \in [Shifts -> Bars], t[Size] = copyBar(source[Len(source)]), t[Size - 1] = bar,
           \A k \in Shifts : (k # Size /\ k # Size - 1) => t[k] = r[k + 1]
    PROVE  Converted(source, t, p, c \cup {source[Len(source)].last}, e)
  <1> DEFINE s == source
             L == Len(s)
             x == s[L]
             q == Before(s)
             d == c \cup {x.last}
  <1>1. PICK f \in Places(s) : /\ IsFirst(s, f) /\ V(s, f) /\ r[Size].time = s[f].time /\ r[Size].open = s[f].first
                               /\ Bk(r, Size) = B(s, f) /\ f <= L /\ B(s, f) <= B(s, L)
    BY CurrentIs DEF Converted
  <1>2. /\ \A k \in Shifts : Bk(r, k) \in Nat
        /\ \A k \in Completed : /\ k \in Shifts /\ k + 1 \in Shifts /\ Bk(r, k) < Bk(r, Size) /\ k # Size
                                /\ Bk(r, k + 1) <= Bk(r, Size) /\ Bk(r, k) < Bk(r, k + 1) /\ Bk(r, k) <= Bk(r, Size - 1)
    BY BucketsAre, ShiftsAre DEF Converted
  <1>3. /\ Places(s) \in SUBSET Nat /\ L \in Places(s) /\ \A n \in Places(s) : B(s, n) \in Nat /\ s[n].time \in Nat
        /\ Size \in Shifts /\ Size - 1 \in Shifts /\ Size - 1 \in Completed /\ Size - 1 # Size /\ Size - 1 + 1 = Size
        /\ x \in SourceBars /\ x.time \in Nat
    BY PlacesAre, ShiftsAre, Constants
  <1>4. /\ \A n \in Places(s) : n # L => /\ Seen(s[n], d, e) <=> Seen(s[n], c, e)
                                         /\ Begun(s, d, e, n) <=> Begun(s, c, e, n)
        /\ Begun(s, d, e, L)
    BY CallIs
  <1>5. /\ q \in Places(s) /\ q < L /\ V(s, q) /\ \A n \in Places(s) : (V(s, n) /\ n < L) => n <= q
    BY BeforeIs
  <1>6. /\ \A n \in In(s, B(s, q)) : n \in Places(s) /\ n <= q /\ n # L
        /\ \A n \in In(s, B(s, L)) : n = L
    BY <1>3, <1>5, BeforeBucket, InAre
  <1>7. L \in In(s, B(s, L)) /\ q \in In(s, B(s, q))
    BY <1>3, <1>5, InAre
  \* The bar that was the current one is of the bucket of q or an earlier one.
  <1>8. f # L /\ f <= q /\ B(s, f) <= B(s, q)
    <2>1. f # L
      BY <1>1
    <2>2. f < L
      BY <1>1, <1>3, <2>1
    <2>3. f <= q
      BY <1>1, <1>5, <2>2
    <2> QED
      BY <1>5, <2>1, <2>3, PlacesInOrder
  <1>9. Bk(t, Size) = B(s, L) /\ t[Size].time = x.time /\ t[Size].open = x.first /\ t[Size].covers = Ticks(x)
    BY DEF Bk, B, copyBar
  <1>10. Bk(t, Size - 1) = B(s, q)
    <2>1. \A n \in In(s, B(s, q)) : B(s, n) = B(s, q)
      BY InAre
    <2>2. Bucket(bar.time) = B(s, q)
      BY <2>1, MadeBucket
    <2> QED
      BY <2>2 DEF Bk
  <1>11. ASSUME NEW k \in Shifts, k # Size, k # Size - 1
         PROVE  /\ t[k] = r[k + 1] /\ Bk(t, k) = Bk(r, k + 1) /\ k + 1 \in Completed /\ k + 1 \in Shifts
                /\ k + 1 < Size /\ k \in Nat
    <2>1. k \in Completed /\ k + 1 \in Completed /\ k \in Nat
      BY <1>11, ShiftsAre
    <2> QED
      BY <1>11, <2>1, ShiftsAre DEF Bk
  <1>a. B(s, q) < B(s, L)
    OBVIOUS
  <1> HIDE DEF d, q, L
  <1>12. Increasing(t)
    <2> SUFFICES ASSUME NEW k \in Shifts, NEW m \in Shifts, k < m PROVE Bk(t, k) < Bk(t, m)
      BY DEF Increasing
    <2>0. k \in Nat /\ m \in Nat /\ k <= Size /\ m <= Size
      BY Constants DEF Shifts
    <2>1. k # Size
      BY <2>0
    <2>2. CASE k = Size - 1
      <3>1. m = Size
        BY <2>0, <2>2, Constants
      <3> QED
        BY <1>a, <1>9, <1>10, <2>2, <3>1
    <2>3. CASE k # Size - 1
      <3>1. Bk(t, k) = Bk(r, k + 1) /\ k + 1 \in Completed /\ Bk(r, k + 1) < B(s, f) /\ Bk(r, k + 1) \in Nat
        BY <1>1, <1>2, <1>11, <2>1, <2>3
      <3>2. Bk(r, k + 1) < B(s, q) /\ Bk(r, k + 1) < B(s, L)
        BY <1>1, <1>3, <1>5, <1>8, <3>1
      <3>3. CASE m = Size \/ m = Size - 1
        BY <1>9, <1>10, <3>1, <3>2, <3>3
      <3>4. CASE m # Size /\ m # Size - 1
        <4>1. Bk(t, m) = Bk(r, m + 1) /\ m + 1 \in Shifts /\ k + 1 \in Shifts /\ k + 1 < m + 1
          BY <1>11, <2>0, <2>1, <2>3, <3>4
        <4> QED
          BY <3>1, <4>1 DEF Converted, Increasing
      <3> QED
        BY <3>3, <3>4
    <2> QED
      BY <2>2, <2>3
  <1>13. BeginsWithFirst(s, t)
    <2>1. IsFirst(s, L)
      BY <1>3, <1>6 DEF IsFirst, L
    <2> QED
      BY <1>3, <1>9, <2>1 DEF BeginsWithFirst
  <1>14. Complete(s, t)
    <2> SUFFICES ASSUME NEW k \in Completed PROVE MadeOf(s, t[k], In(s, Bk(t, k)))
      BY DEF Complete
    <2>1. CASE k = Size - 1
      BY <1>10, <2>1 DEF q
    <2>2. CASE k # Size - 1
      BY <1>2, <1>11, <2>2 DEF Converted, Complete
    <2> QED
      BY <2>1, <2>2
  <1>15. VolumeRight(s, t, d, e)
    <2> SUFFICES ASSUME NEW k \in Completed, NEW m \in In(s, Bk(t, k)), NEW l \in In(s, Bk(t, k)), SeenWhole(s, d, e, m, l)
                 PROVE  Counted(t[k])
      BY DEF VolumeRight
    <2>0. IsFirst(s, m) /\ IsLast(s, l) /\ m \in Places(s) /\ l \in Places(s) /\ s[m].first > e /\ Seen(s[l], d, e)
      BY DEF SeenWhole, IsFirst, IsLast
    <2>1. CASE k = Size - 1
      <3>1. m \in In(s, B(s, q)) /\ l \in In(s, B(s, q))
        BY <1>10, <2>1
      <3>2. B(s, m) = B(s, q) /\ B(s, l) = B(s, q)
        BY <3>1, InAre
      <3>3. l = q
        <4>1. q <= l /\ l <= q
          BY <1>6, <1>7, <2>0, <3>1, <3>2 DEF IsLast
        <4> QED
          BY <1>3, <1>5, <2>0, <4>1
      <3>4. SeenWhole(s, c, e, m, q)
        BY <1>4, <1>5, <1>6, <2>0, <3>1, <3>3 DEF SeenWhole
      <3>5. B(s, q) > Bk(r, Size - 1)
        BY <1>1, <1>2, <1>3, <1>5, <1>8
      <3>6. \A i \in In(s, B(s, q)) : i # q => o.time # s[i].time /\ o.time # -1
        BY <1>5, <2>0, <3>2, <3>4, <3>5 DEF Converted, OldApart
      <3> QED
        BY <2>1, <3>6 DEF q
    <2>2. CASE k # Size - 1
      <3>1. t[k] = r[k + 1] /\ Bk(t, k) = Bk(r, k + 1) /\ k + 1 \in Completed
        BY <1>2, <1>11, <2>2
      <3>2. m \in In(s, Bk(r, k + 1)) /\ l \in In(s, Bk(r, k + 1))
        BY <3>1
      <3>3. l # L
        BY <1>1, <1>2, <1>3, <3>1, <3>2, InAre
      <3>4. SeenWhole(s, c, e, m, l)
        BY <1>4, <2>0, <3>3 DEF SeenWhole
      <3> QED
        BY <3>1, <3>2, <3>4 DEF Converted, VolumeRight
    <2> QED
      BY <2>1, <2>2
  <1>16. MissedOnly(s, t, d, e)
    <2> SUFFICES ASSUME NEW k \in Completed, NEW m \in Places(s), NEW i \in Places(s),
                        V(s, m), Bk(t, k) < B(s, m), B(s, m) < Bk(t, k + 1), IsNext(s, m, i), Begun(s, d, e, i)
                 PROVE  FALSE
      BY DEF MissedOnly
    <2>0. IsFirst(s, i) /\ B(s, m) \in Nat /\ B(s, i) \in Nat /\ B(s, q) \in Nat /\ B(s, f) \in Nat /\ B(s, L) \in Nat
      BY <1>1, <1>3, <1>5 DEF IsNext
    <2>1. CASE k = Size - 1
      <3>1. B(s, q) < B(s, m) /\ B(s, m) < B(s, L)
        BY <1>3, <1>9, <1>10, <2>1
      <3>2. m < L
        BY <1>3, <3>1, PlacesInOrder
      <3>3. m <= q
        BY <1>5, <3>2
      <3>4. B(s, m) <= B(s, q)
        BY <1>5, <3>3, PlacesInOrder
      <3> QED
        BY <2>0, <3>1, <3>4
    <2>2. CASE k # Size - 1
      <3>1. Bk(t, k) = Bk(r, k + 1) /\ k + 1 \in Completed /\ k + 1 \in Shifts /\ k \in Nat /\ k + 1 < Size
        BY <1>2, <1>11, <2>2
      <3>2. Bk(r, k + 1) < B(s, m)
        BY <3>1
      <3>3. B(s, m) < B(s, q)
        <4>1. CASE k + 1 = Size - 1
          BY <1>10, <4>1
        <4>2. CASE k + 1 # Size - 1
          <5>1. Bk(t, k + 1) = Bk(r, k + 1 + 1) /\ k + 1 + 1 \in Completed
            BY <1>11, <3>1, <4>2
          <5>2. Bk(r, k + 1 + 1) < B(s, f) /\ Bk(r, k + 1 + 1) \in Nat
            BY <1>1, <1>2, <5>1
          <5> QED
            BY <1>8, <2>0, <5>1, <5>2
        <4> QED
          BY <4>1, <4>2
      <3>4. B(s, i) <= B(s, q)
        BY <1>5, <3>3 DEF IsNext
      <3>5. i # L
        BY <2>0, <3>4 DEF q, L
      <3>6. Begun(s, c, e, i)
        BY <1>4, <3>5
      <3>7. B(s, m) < B(s, f)
        <4>1. B(s, i) <= B(s, f)
          BY <1>1, <2>0, <3>6 DEF Converted, BegunKept
        <4>2. B(s, m) < B(s, i)
          BY DEF IsNext
        <4> QED
          BY <2>0, <4>1, <4>2
      <3>8. B(s, m) < Bk(r, k + 1 + 1)
        <4>1. CASE k + 1 = Size - 1
          BY <1>1, <1>3, <3>7, <4>1
        <4>2. CASE k + 1 # Size - 1
          BY <1>11, <3>1, <4>2
        <4> QED
          BY <4>1, <4>2
      <3> QED
        BY <3>1, <3>2, <3>6, <3>8 DEF Converted, MissedOnly
    <2> QED
      BY <2>1, <2>2
  <1>17. BegunKept(s, t, d, e)
    <2> SUFFICES ASSUME NEW n \in Places(s) PROVE B(s, n) <= B(s, L)
      BY <1>9 DEF BegunKept
    <2>1. n <= L
      BY PlacesAre DEF Places, L
    <2> QED
      BY <1>3, <2>1, PlacesInOrder
  <1>18. CurrentBegun(s, t, d, e)
    <2> SUFFICES ASSUME NEW n \in Places(s), s[n].time = x.time PROVE Begun(s, d, e, n)
      BY <1>9 DEF CurrentBegun
    <2>1. n = L
      BY <1>3, PlacesInOrder
    <2> QED
      BY <1>4, <2>1
  <1>19. OldApart(s, t, p, d, e)
    <2> SUFFICES ASSUME NEW m \in Places(s), NEW l \in Places(s), SeenWhole(s, d, e, m, l), B(s, l) > B(s, q),
                        NEW i \in In(s, B(s, l)), i # l
                 PROVE  FALSE
      BY <1>10 DEF OldApart
    <2>1. V(s, l) /\ q < l
      BY <1>5, PlacesInOrder DEF SeenWhole, IsLast
    <2>2. l = L
      <3>1. l <= L
        BY PlacesAre DEF Places, L
      <3> QED
        BY <1>3, <1>5, <2>1, <3>1
    <2> QED
      BY <1>6, <2>2
  <1>20. CurrentCovers(s, t, d, e)
    <2>1. \A n \in In(s, Bk(t, Size)) : Ticks(s[n]) \subseteq t[Size].covers
      BY <1>6, <1>9
    <2>2. \A u \in t[Size].covers : V(s, L) /\ B(s, L) >= Bk(t, Size) /\ u \in Ticks(s[L])
      BY <1>3, <1>9 DEF L
    <2> QED
      BY <1>3, <2>1, <2>2 DEF CurrentCovers
  <1>21. CurrentClose(s, t, d, e)
    BY <1>9 DEF CurrentClose, L
  <1>22. Converted(s, t, p, d, e)
    BY <1>12, <1>13, <1>14, <1>15, <1>16, <1>17, <1>18, <1>19, <1>20, <1>21 DEF Converted
  <1> QED
    BY <1>22 DEF d, L

\* A buffer that was filled.
LEMMA FilledConverted ==
    ASSUME NEW s, NEW r \in [Shifts -> Bars], NEW o, NEW c, NEW e, Ordered(s), Past(s, c, e), Full(s, r)
    PROVE  Converted(s, r, o, c \cup {s[Len(s)].last}, s[Len(s)].last)
  <1> DEFINE L == Len(s)
             x == s[L].last
             d == c \cup {x}
  <1>1. /\ L \in Places(s) /\ Places(s) \in SUBSET Nat /\ x \in Nat
        /\ \A n \in Places(s) : /\ n \in Nat /\ n <= L /\ B(s, n) \in Nat /\ s[n].first \in Nat /\ s[n].last \in Nat
                                /\ s[n].first <= s[n].last /\ s[n].last <= x
    <2>1. L \in Places(s) /\ Places(s) \in SUBSET Nat /\ x \in Nat
      BY PlacesAre
    <2>2. ASSUME NEW n \in Places(s)
          PROVE  /\ n \in Nat /\ n <= L /\ B(s, n) \in Nat /\ s[n].first \in Nat /\ s[n].last \in Nat
                 /\ s[n].first <= s[n].last /\ s[n].last <= x
      <3>1. /\ n \in Nat /\ n <= L /\ B(s, n) \in Nat /\ s[n].first \in Nat /\ s[n].last \in Nat
            /\ s[n].first <= s[n].last /\ s[L].first \in Nat /\ s[L].first <= x /\ L \in Nat
        BY PlacesAre DEF Places
      <3>2. n < L => s[n].last < s[L].first
        BY <2>1, PlacesInOrder
      <3> QED
        BY <2>1, <3>1, <3>2
    <2> QED
      BY <2>1, <2>2
  <1>2. /\ \A k \in Shifts : Bk(r, k) \in Nat /\ k \in Nat /\ 1 <= k /\ k <= Size
        /\ 1 \in Shifts /\ Size \in Shifts /\ Size \in Nat
        /\ \A k, m \in Shifts : k < m => Bk(r, k) < Bk(r, m)
        /\ \A k \in Completed : k \in Shifts /\ k + 1 \in Shifts
    <2>1. \A k \in Shifts : Bk(r, k) \in Nat
      BY BucketsAre
    <2>2. \A k, m \in Shifts : k < m => Bk(r, k) < Bk(r, m)
      BY DEF Full
    <2>3. \A k \in Completed : k \in Shifts /\ k + 1 \in Shifts
      BY ShiftsAre
    <2> QED
      BY <2>1, <2>2, <2>3, Constants DEF Shifts
  \* A valid bar of the first converted bucket or a later one is of one of them.
  <1>3. ASSUME NEW n \in Places(s), V(s, n), NEW k \in Shifts, Bk(r, k) <= B(s, n)
        PROVE  \E m \in Shifts : B(s, n) = Bk(r, m)
    <2>1. Bk(r, 1) <= Bk(r, k)
      BY <1>2
    <2>2. B(s, n) >= Bk(r, 1)
      BY <1>1, <1>2, <1>3, <2>1
    <2> QED
      BY <1>3, <2>2 DEF Full
  <1>4. PICK f, l \in In(s, Bk(r, Size)) :
           /\ \A n \in In(s, Bk(r, Size)) : f <= n /\ n <= l
           /\ r[Size].time = s[f].time /\ r[Size].open = s[f].first /\ r[Size].close = s[l].last
           /\ r[Size].covers = UNION {Ticks(s[n]) : n \in In(s, Bk(r, Size))}
    BY <1>2 DEF Full, MadeOf
  <1>5. /\ \A n \in In(s, Bk(r, Size)) : n \in Places(s) /\ V(s, n) /\ B(s, n) = Bk(r, Size)
        /\ \A n \in Places(s) : (V(s, n) /\ B(s, n) = Bk(r, Size)) => n \in In(s, Bk(r, Size))
    BY InAre
  <1>6. \A n \in Places(s) : Begun(s, d, x, n) /\ CalledAtEnd(s, d, x, n) /\ ~Seen(s[n], d, x)
    <2> SUFFICES ASSUME NEW n \in Places(s) PROVE Begun(s, d, x, n) /\ CalledAtEnd(s, d, x, n) /\ ~Seen(s[n], d, x)
      OBVIOUS
    <2>1. s[n].first <= x /\ s[n].last <= x
      BY <1>1
    <2>2. \A t \in d : ~(t > x)
      BY <1>1 DEF Past
    <2> QED
      BY <2>1, <2>2 DEF Begun, CalledAtEnd, Seen
  <1> HIDE DEF x, d, L
  <1>7. Increasing(r)
    BY <1>2 DEF Increasing
  <1>8. BeginsWithFirst(s, r)
    BY <1>4, <1>5 DEF BeginsWithFirst, IsFirst
  <1>9. Complete(s, r)
    BY <1>2 DEF Full, Complete
  <1>10. \A m, n \in Places(s) : ~SeenWhole(s, d, x, m, n)
    BY <1>6 DEF SeenWhole
  <1>11. VolumeRight(s, r, d, x) /\ OldApart(s, r, o, d, x)
    BY <1>10, InAre DEF VolumeRight, OldApart
  <1>12. MissedOnly(s, r, d, x)
    <2> SUFFICES ASSUME NEW k \in Completed, NEW m \in Places(s), V(s, m), Bk(r, k) < B(s, m), B(s, m) < Bk(r, k + 1)
                 PROVE  FALSE
      BY DEF MissedOnly
    <2>1. k \in Shifts /\ k + 1 \in Shifts /\ k \in Nat
      BY <1>2
    <2>2. Bk(r, k) <= B(s, m)
      BY <1>1, <1>2, <2>1
    <2>3. PICK j \in Shifts : B(s, m) = Bk(r, j)
      BY <1>3, <2>1, <2>2
    <2>4. j \in Nat /\ Bk(r, j) \in Nat /\ Bk(r, k) \in Nat /\ Bk(r, k + 1) \in Nat
      BY <1>2, <2>1
    <2>5. CASE j <= k
      <3>1. j = k \/ Bk(r, j) < Bk(r, k)
        BY <1>2, <2>1, <2>4, <2>5
      <3> QED
        BY <2>3, <2>4, <3>1
    <2>6. CASE j >= k + 1
      <3>1. j = k + 1 \/ Bk(r, k + 1) < Bk(r, j)
        BY <1>2, <2>1, <2>4, <2>6
      <3> QED
        BY <2>3, <2>4, <3>1
    <2> QED
      BY <2>1, <2>4, <2>5, <2>6
  <1>13. BegunKept(s, r, d, x)
    <2> SUFFICES ASSUME NEW n \in Places(s), V(s, n) PROVE B(s, n) <= Bk(r, Size)
      BY DEF BegunKept, IsFirst
    <2>1. CASE Bk(r, Size) <= B(s, n)
      <3>1. PICK j \in Shifts : B(s, n) = Bk(r, j)
        BY <1>2, <1>3, <2>1
      <3>2. j = Size \/ Bk(r, j) < Bk(r, Size)
        BY <1>2
      <3> QED
        BY <1>2, <3>1, <3>2
    <2> QED
      BY <1>1, <1>2, <2>1
  <1>14. CurrentBegun(s, r, d, x)
    BY <1>6 DEF CurrentBegun
  <1>15. CurrentCovers(s, r, d, x)
    <2>1. \A n \in In(s, Bk(r, Size)) : Ticks(s[n]) \subseteq r[Size].covers
      BY <1>4
    <2>2. ASSUME NEW t \in r[Size].covers PROVE \E n \in Places(s) : V(s, n) /\ B(s, n) >= Bk(r, Size) /\ t \in Ticks(s[n])
      <3>1. PICK n \in In(s, Bk(r, Size)) : t \in Ticks(s[n])
        BY <1>4
      <3>2. n \in Places(s) /\ V(s, n) /\ B(s, n) = Bk(r, Size)
        BY <1>5
      <3> QED
        BY <1>2, <3>1, <3>2
    <2> QED
      BY <2>1, <2>2 DEF CurrentCovers
  <1>16. CurrentClose(s, r, d, x)
    <2> SUFFICES ASSUME V(s, L), B(s, L) = Bk(r, Size) PROVE r[Size].close = s[L].last
      BY DEF CurrentClose, L
    <2>1. L \in In(s, Bk(r, Size))
      BY <1>1, <1>5
    <2>2. L <= l /\ l <= L /\ l \in Nat /\ L \in Nat
      BY <1>1, <1>4, <1>5, <2>1
    <2>3. l = L
      BY <2>2
    <2> QED
      BY <1>4, <2>3
  <1>17. Converted(s, r, o, d, x)
    BY <1>7, <1>8, <1>9, <1>11, <1>12, <1>13, <1>14, <1>15, <1>16 DEF Converted
  <1> QED
    BY <1>17 DEF d, x, L

-----------------------------------------------------------------------------
(* The steps. *)

LEMMA TickGrows ==
    ASSUME Ordered(source), Tick
    PROVE  Ordered(source') /\ Grown(source, source')
  <1> DEFINE s == source
             L == Len(s)
             x == [s[L] EXCEPT !.last = @ + 1]
             t == [s EXCEPT ![L] = x]
  <1>1. L \in Nat /\ L \in 1..L /\ L >= ArraySize /\ s \in Seq(SourceBars) /\ s[L] \in SourceBars
    <2>1. L \in Nat /\ L \in Places(s) /\ L >= ArraySize /\ s[L] \in SourceBars
      BY PlacesAre
    <2>2. s \in Seq(SourceBars)
      BY DEF Ordered
    <2> QED
      BY <2>1, <2>2 DEF Places
  <1>2. x \in SourceBars /\ x.time = s[L].time /\ x.first = s[L].first /\ x.last = s[L].last + 1
    <2> DEFINE y == s[L]
    <2>1. y \in [time : Nat, first : Nat, last : Nat]
      BY <1>1 DEF SourceBars
    <2> HIDE DEF y
    <2> DEFINE z == [y EXCEPT !.last = @ + 1]
    <2>3. /\ z \in [time : Nat, first : Nat, last : Nat]
          /\ z.time = y.time /\ z.first = y.first /\ z.last = y.last + 1
      BY <2>1
    <2> QED
      BY <2>3 DEF SourceBars, y
  <1>3. source' = t
    <2>1. source' = [s EXCEPT ![L].last = @ + 1]
      BY DEF Tick
    <2> QED
      BY <2>1
  <1> HIDE DEF x
  <1>4. t \in Seq(SourceBars) /\ Len(t) = L /\ t[L] = x /\ \A n \in 1..L : n # L => t[n] = s[n]
    BY <1>1, <1>2
  <1> HIDE DEF t
  <1>5. Places(t) = 1..L /\ Places(s) = 1..L
    BY <1>4 DEF Places
  <1>6. /\ \A n \in 1..L : /\ s[n].first \in Nat /\ s[n].last \in Nat /\ s[n].time \in Nat /\ s[n].first <= s[n].last
                           /\ n \in Nat /\ n <= L
        /\ \A m, n \in 1..L : m < n => s[m].time < s[n].time /\ s[m].last < s[n].first
    <2>1. Places(s) = 1..L /\ L \in Nat
      BY <1>1, <1>5
    <2>2. \A n \in Places(s) : /\ s[n].first \in Nat /\ s[n].last \in Nat /\ s[n].time \in Nat
                               /\ s[n].first <= s[n].last
      BY PlacesAre
    <2>3. \A m, n \in Places(s) : m < n => s[m].time < s[n].time /\ s[m].last < s[n].first
      BY DEF Ordered
    <2>4. \A n \in 1..L : n \in Nat /\ n <= L
      BY <2>1
    <2> QED
      BY <2>1, <2>2, <2>3, <2>4
  <1>7. \A n \in 1..L : t[n].time = s[n].time /\ t[n].first = s[n].first /\ t[n].last >= s[n].last
    BY <1>1, <1>2, <1>4, <1>6
  <1>8. \A n \in 1..L : t[n].first <= t[n].last
    BY <1>1, <1>2, <1>4, <1>6
  <1>9. ASSUME NEW m \in 1..L, NEW n \in 1..L, m < n PROVE t[m].time < t[n].time /\ t[m].last < t[n].first
    <2>1. m # L
      BY <1>1, <1>6, <1>9
    <2> QED
      BY <1>4, <1>6, <1>7, <1>9, <2>1
  <1>10. Ordered(t)
    BY <1>1, <1>4, <1>5, <1>8, <1>9 DEF Ordered
  <1>11. \A n \in 1..L : n < L => t[n] = s[n]
    BY <1>1, <1>4
  <1>12. t[L].last > s[L].last
    BY <1>1, <1>2, <1>4, <1>6
  <1>13. Grown(s, t)
    BY <1>1, <1>4, <1>5, <1>7, <1>11, <1>12 DEF Grown
  <1> QED
    BY <1>3, <1>10, <1>13

LEMMA NewBarGrows ==
    ASSUME Ordered(source), NewBar
    PROVE  Ordered(source') /\ Grown(source, source')
  <1> DEFINE s == source
             L == Len(s)
  <1>1. L \in Nat /\ L \in 1..L /\ L >= ArraySize /\ s \in Seq(SourceBars) /\ s[L] \in SourceBars /\ Places(s) = 1..L
        /\ s[L].time \in Nat /\ s[L].last \in Nat
    BY PlacesAre DEF Ordered, Places
  <1>2. Now = s[L]
    BY NowIs
  <1>3. PICK time \in (Now.time + 1)..Min({Now.time + MaxGap, MaxTime}) :
           source' = Append(source, [time |-> time, first |-> Now.last + 1, last |-> Now.last + 1])
    BY DEF NewBar
  <1>4. time \in Nat /\ time > s[L].time
    <2>1. time \in Int /\ time >= s[L].time + 1
      BY <1>1, <1>2, <1>3
    <2> QED
      BY <1>1, <2>1
  <1> DEFINE x == [time |-> time, first |-> s[L].last + 1, last |-> s[L].last + 1]
             t == Append(s, x)
  <1>5. source' = t
    BY <1>2, <1>3
  <1>6. x \in SourceBars /\ x.time = time /\ x.first = s[L].last + 1 /\ x.last = s[L].last + 1
    BY <1>1, <1>4 DEF SourceBars
  <1> HIDE DEF x
  <1>7. t \in Seq(SourceBars) /\ Len(t) = L + 1 /\ t[L + 1] = x /\ \A n \in 1..L : t[n] = s[n]
    BY <1>1, <1>6
  <1> HIDE DEF t
  <1>8. Places(t) = 1..L + 1 /\ \A n \in Places(t) : n \in Nat /\ (n \in 1..L \/ n = L + 1)
    BY <1>1, <1>7 DEF Places
  <1>9. /\ \A n \in 1..L : /\ s[n].first \in Nat /\ s[n].last \in Nat /\ s[n].time \in Nat /\ s[n].first <= s[n].last
                           /\ n \in Nat /\ n <= L
        /\ \A m, n \in 1..L : m < n => s[m].time < s[n].time /\ s[m].last < s[n].first
    <2>1. Places(s) = 1..L /\ L \in Nat
      BY <1>1
    <2>2. \A n \in Places(s) : /\ s[n].first \in Nat /\ s[n].last \in Nat /\ s[n].time \in Nat
                               /\ s[n].first <= s[n].last
      BY PlacesAre
    <2>3. \A m, n \in Places(s) : m < n => s[m].time < s[n].time /\ s[m].last < s[n].first
      BY DEF Ordered
    <2>4. \A n \in 1..L : n \in Nat /\ n <= L
      BY <2>1
    <2> QED
      BY <2>1, <2>2, <2>3, <2>4
  <1>10. \A n \in 1..L : s[n].time <= s[L].time /\ s[n].last <= s[L].last
    <2> SUFFICES ASSUME NEW n \in 1..L PROVE s[n].time <= s[L].time /\ s[n].last <= s[L].last
      OBVIOUS
    <2>1. CASE n = L
      BY <1>1, <2>1
    <2>2. CASE n # L
      <3>1. s[n].time < s[L].time /\ s[n].last < s[L].first /\ s[L].first <= s[L].last
        BY <1>1, <1>9, <2>2
      <3> QED
        BY <1>1, <1>9, <3>1
    <2> QED
      BY <2>1, <2>2
  <1>11. \A n \in Places(t) : t[n].first <= t[n].last
    BY <1>1, <1>6, <1>7, <1>8, <1>9
  <1>12. ASSUME NEW m \in Places(t), NEW n \in Places(t), m < n PROVE t[m].time < t[n].time /\ t[m].last < t[n].first
    <2>1. m \in 1..L
      BY <1>1, <1>8, <1>12
    <2>2. CASE n \in 1..L
      BY <1>7, <1>9, <1>12, <2>1, <2>2
    <2>3. CASE n = L + 1
      BY <1>1, <1>4, <1>6, <1>7, <1>9, <1>10, <2>1, <2>3
    <2> QED
      BY <1>8, <2>2, <2>3
  <1>13. Ordered(t)
    BY <1>1, <1>7, <1>11, <1>12, Constants DEF Ordered
  <1>14. \A n \in 1..L : t[n].time = s[n].time /\ t[n].first = s[n].first /\ t[n].last >= s[n].last
    BY <1>7, <1>9
  <1>15. t[L + 1].last > s[L].last /\ t[L + 1].first > s[L].last
    BY <1>1, <1>6, <1>7
  <1>16. Grown(s, t)
    BY <1>1, <1>7, <1>14, <1>15 DEF Grown
  <1> QED
    BY <1>5, <1>13, <1>16

LEMMA InitTyped == Init => Typed
  <1> SUFFICES ASSUME Init PROVE Typed
    OBVIOUS
  <1>1. PICK times \in Histories :
           source = [n \in DOMAIN times |-> [time |-> times[n], first |-> n, last |-> n]]
    BY DEF Init
  <1>2. /\ times \in [1..ArraySize -> 1..MaxTime] /\ \A m, n \in 1..ArraySize : m < n => times[m] < times[n]
        /\ MaxTime \in Nat
    BY ConversionAssumption
  <1>3. /\ ArraySize \in Nat /\ DOMAIN times = 1..ArraySize
        /\ \A n \in 1..ArraySize : n \in Nat /\ n <= ArraySize /\ times[n] \in Nat
    BY <1>2, Constants
  <1> DEFINE bar(n) == [time |-> times[n], first |-> n, last |-> n]
  <1>4. source = [n \in 1..ArraySize |-> bar(n)] /\ \A n \in 1..ArraySize : bar(n) \in SourceBars
    BY <1>1, <1>3 DEF SourceBars
  <1>5. source \in Seq(SourceBars) /\ Len(source) = ArraySize
    <2> HIDE DEF bar
    <2> QED
      BY <1>3, <1>4
  <1>6. /\ Places(source) = 1..ArraySize
        /\ \A n \in 1..ArraySize : source[n].time = times[n] /\ source[n].first = n /\ source[n].last = n
    BY <1>1, <1>3, <1>5 DEF Places
  <1>7. Ordered(source)
    BY <1>2, <1>3, <1>5, <1>6 DEF Ordered
  <1>8. Past(source, calls, filled)
    <2>1. source[Len(source)].last \in Nat
      BY <1>7, PlacesAre
    <2> QED
      BY <2>1 DEF Init, Past
  <1>9. rates \in [Shifts -> Bars] /\ isBufferFull \in BOOLEAN /\ old \in Remembered
    <2>1. NoBar \in Bars
      BY DEF NoBar, Bars
    <2>2. [time |-> -1, volume |-> -1] \in Remembered
      BY DEF Remembered
    <2> QED
      BY <2>1, <2>2 DEF Init
  <1> QED
    BY <1>7, <1>8, <1>9 DEF Typed

LEMMA GrownPast ==
    ASSUME NEW s, NEW t, Ordered(s), Ordered(t), Grown(s, t), NEW c, NEW e, Past(s, c, e)
    PROVE  Past(t, c, e)
  <1>1. s[Len(s)].last \in Nat /\ t[Len(t)].last \in Nat /\ t[Len(t)].last > s[Len(s)].last
    BY PlacesAre DEF Grown
  <1>2. c \in SUBSET Nat /\ e \in Nat /\ e <= s[Len(s)].last /\ \A u \in c : u \in Nat /\ u <= s[Len(s)].last
    BY DEF Past
  <1>3. e <= t[Len(t)].last /\ \A u \in c : u <= t[Len(t)].last
    BY <1>1, <1>2
  <1> QED
    BY <1>2, <1>3 DEF Past

\* What a call does to the converted bars.
LEMMA BegunIs ==
    ASSUME Typed
    PROVE  LET rebuilt == reprocessConvertedBar(Shift1)
               bars == [k \in Shifts |-> IF k = Size THEN copyBar(Now)
                                         ELSE IF k = Size - 1 THEN rebuilt.bar ELSE rates[k + 1]]
           IN  /\ rebuilt \in Merging /\ bars \in [Shifts -> Bars]
               /\ bars[Size] = copyBar(source[Len(source)]) /\ bars[Size - 1] = rebuilt.bar
               /\ \A k \in Shifts : (k # Size /\ k # Size - 1) => bars[k] = rates[k + 1]
  <1> DEFINE rebuilt == reprocessConvertedBar(Shift1)
             bars == [k \in Shifts |-> IF k = Size THEN copyBar(Now)
                                       ELSE IF k = Size - 1 THEN rebuilt.bar ELSE rates[k + 1]]
  <1>1. Shift1 \in 1..ArraySize /\ Shift1 \in Nat /\ Shift1 >= 1
    <2>1. Shift1 \in 1..(ArraySize - 1)
      BY ShiftIs DEF Typed
    <2> QED
      BY <2>1, Constants
  <1>2. rebuilt \in Merging
    <2>1. PICK f \in [0..Shift1 - 1 -> Merging] : reprocessConvertedBar(Shift1) = f[IF Shift1 >= 2 THEN Shift1 - 2 ELSE 0]
      BY <1>1, RebuiltIs
    <2>2. (IF Shift1 >= 2 THEN Shift1 - 2 ELSE 0) \in 0..Shift1 - 1
      BY <1>1
    <2> QED
      BY <2>1, <2>2
  <1>3. rebuilt.bar \in Bars
    BY <1>2 DEF Merging
  <1>4. Now = source[Len(source)] /\ copyBar(Now) \in Bars
    BY NowIs, CopyIs DEF Typed
  <1>5. Size \in Shifts /\ Size - 1 \in Shifts /\ Size - 1 # Size
    BY Constants DEF Shifts
  <1>6. \A k \in Shifts : (k # Size /\ k # Size - 1) => rates[k + 1] \in Bars
    BY ShiftsAre DEF Typed
  <1> HIDE DEF rebuilt
  <1>7. bars \in [Shifts -> Bars]
    BY <1>3, <1>4, <1>6
  <1>8. /\ bars[Size] = copyBar(source[Len(source)]) /\ bars[Size - 1] = rebuilt.bar
        /\ \A k \in Shifts : (k # Size /\ k # Size - 1) => bars[k] = rates[k + 1]
    BY <1>4, <1>5
  <1> QED
    BY <1>2, <1>7, <1>8 DEF rebuilt

LEMMA ConvertTyped ==
    ASSUME Typed, convertCurrentBar
    PROVE  rates' \in [Shifts -> Bars] /\ old' \in Remembered
  <1>1. CASE BeginsBar
    <2> DEFINE rebuilt == reprocessConvertedBar(Shift1)
    <2>1. /\ rates' = [k \in Shifts |-> IF k = Size THEN copyBar(Now)
                                        ELSE IF k = Size - 1 THEN rebuilt.bar ELSE rates[k + 1]]
          /\ old' = rebuilt.old
      BY <1>1 DEF convertCurrentBar
    <2>2. rebuilt \in Merging /\ rates' \in [Shifts -> Bars]
      BY <2>1, BegunIs
    <2> QED
      BY <2>1, <2>2 DEF Merging
  <1>2. CASE ~BeginsBar
    <2> DEFINE merged == mergeBar([bar |-> rates[Size], old |-> old], Now)
    <2>1. rates' = [rates EXCEPT ![Size] = merged.bar] /\ old' = merged.old
      BY <1>2 DEF convertCurrentBar
    <2>2. Now \in SourceBars /\ [bar |-> rates[Size], old |-> old] \in Merging
      BY NowIs, ShiftsAre DEF Typed, Merging
    <2>3. merged \in Merging
      BY <2>2, MergeType
    <2>4. merged.bar \in Bars /\ merged.old \in Remembered
      BY <2>3 DEF Merging
    <2> HIDE DEF merged
    <2> QED
      BY <2>1, <2>4 DEF Typed
  <1> QED
    BY <1>1, <1>2

LEMMA StepTyped == Typed /\ [Next]_vars => Typed'
  <1> SUFFICES ASSUME Typed, [Next]_vars PROVE Typed'
    OBVIOUS
  <1>0. /\ rates \in [Shifts -> Bars] /\ isBufferFull \in BOOLEAN /\ old \in Remembered
        /\ Ordered(source) /\ Past(source, calls, filled) /\ Now = source[Len(source)]
    BY NowIs DEF Typed
  <1>1. CASE Tick
    <2>1. Ordered(source') /\ Grown(source, source')
      BY <1>0, <1>1, TickGrows
    <2>2. Past(source', calls, filled)
      BY <1>0, <2>1, GrownPast
    <2> QED
      BY <1>0, <1>1, <2>1, <2>2 DEF Tick, Typed
  <1>2. CASE NewBar
    <2>1. Ordered(source') /\ Grown(source, source')
      BY <1>0, <1>2, NewBarGrows
    <2>2. Past(source', calls, filled)
      BY <1>0, <2>1, GrownPast
    <2> QED
      BY <1>0, <1>2, <2>1, <2>2 DEF NewBar, Typed
  <1>3. CASE Reinit
    <2>1. NoBar \in Bars
      BY DEF NoBar, Bars
    <2> QED
      BY <1>0, <1>3, <2>1 DEF Reinit, Typed
  <1>4. CASE FillBuffer
    <2>1. fillEmptyRatesBuffer.rates \in [Shifts -> Bars] /\ fillEmptyRatesBuffer.old \in Remembered
      <3>1. PICK f \in [0..ArraySize -> Filling] : fillEmptyRatesBuffer = f[ArraySize]
        BY FilledIs
      <3>2. fillEmptyRatesBuffer \in Filling
        BY <3>1, Constants
      <3> QED
        BY <3>2 DEF Filling
    <2>2. Past(source, calls \cup {Now.last}, Now.last)
      <3>1. Now.last \in Nat
        BY <1>0, PlacesAre
      <3>2. Past(source, calls \cup {Now.last}, filled)
        BY <1>0, CallIs
      <3> QED
        BY <1>0, <3>1, <3>2 DEF Past
    <2> QED
      BY <1>0, <1>4, <2>1, <2>2 DEF FillBuffer, Typed
  <1>5. CASE ConvertBar
    <2>1. Past(source, calls \cup {Now.last}, filled)
      BY <1>0, CallIs
    <2>2. rates' \in [Shifts -> Bars] /\ old' \in Remembered
      BY <1>0, <1>5, ConvertTyped DEF ConvertBar
    <2> QED
      BY <1>0, <1>5, <2>1, <2>2 DEF ConvertBar, Typed
  <1>6. CASE UNCHANGED vars
    BY <1>0, <1>6 DEF vars, Typed
  <1> QED
    BY <1>1, <1>2, <1>3, <1>4, <1>5, <1>6 DEF Next

\* The variables keep their types, the terminal's bars follow each other in time and in ticks, and the
\* library was called and the buffer filled at ticks that were: in every reachable state.
THEOREM ConversionTypes == Spec => []Typed
  BY InitTyped, StepTyped, PTL DEF Spec

\* A bar converted: convertCurrentMqlBar keeps what Converted says.
LEMMA CurrentConverted ==
    ASSUME Typed, LongEnough(source), Converted(source, rates, old, calls, filled), V(source, Len(source)),
           convertCurrentBar
    PROVE  Converted(source, rates', old', calls \cup {source[Len(source)].last}, filled)
  <1>0. /\ rates \in [Shifts -> Bars] /\ old \in Remembered
        /\ Ordered(source) /\ Past(source, calls, filled) /\ Now = source[Len(source)]
    BY NowIs DEF Typed
  <1>1. Bucket(Array[Shift1].time) = B(source, Before(source)) /\ Bucket(Now.time) = B(source, Len(source))
    BY <1>0, BeforeIs DEF B
  <1>2. B(source, Before(source)) \in Nat /\ B(source, Len(source)) \in Nat
    BY <1>0, BeforeIs, PlacesAre
  <1>3. BeginsBar <=> /\ B(source, Before(source)) < B(source, Len(source))
                      /\ source[Len(source)].time # rates[Size].time
    BY <1>0, <1>1, <1>2 DEF BeginsBar
  <1>4. CASE BeginsBar
    <2> DEFINE rebuilt == reprocessConvertedBar(Shift1)
    <2>1. /\ rates' = [k \in Shifts |-> IF k = Size THEN copyBar(Now)
                                        ELSE IF k = Size - 1 THEN rebuilt.bar ELSE rates[k + 1]]
          /\ old' = rebuilt.old
      BY <1>4 DEF convertCurrentBar
    <2>2. /\ rates' \in [Shifts -> Bars] /\ rates'[Size] = copyBar(source[Len(source)]) /\ rates'[Size - 1] = rebuilt.bar
          /\ \A k \in Shifts : (k # Size /\ k # Size - 1) => rates'[k] = rates[k + 1]
      BY <2>1, BegunIs
    <2>3. /\ MadeOf(source, rebuilt.bar, In(source, B(source, Before(source))))
          /\ RememberedApart => Counted(rebuilt.bar)
      BY <1>3, <1>4, Rebuilt
    <2> HIDE DEF rebuilt
    <2> QED
      BY <1>0, <1>3, <1>4, <2>2, <2>3, BegunConverted DEF RememberedApart
  <1>5. CASE ~BeginsBar
    <2>1. /\ rates' = [rates EXCEPT ![Size] = mergeBar([bar |-> rates[Size], old |-> old], source[Len(source)]).bar]
          /\ old' = mergeBar([bar |-> rates[Size], old |-> old], source[Len(source)]).old
      BY <1>0, <1>5 DEF convertCurrentBar
    <2> QED
      BY <1>0, <1>3, <1>5, <2>1, MergedConverted
  <1> QED
    BY <1>4, <1>5

LEMMA StepConverted == Typed /\ Typed' /\ CInv /\ [Next]_vars => CInv'
  <1> SUFFICES ASSUME Typed, Typed', CInv, [Next]_vars, isBufferFull', LongEnough(source')
               PROVE  Converted(source', rates', old', calls', filled')
    BY DEF CInv
  <1>0. /\ rates \in [Shifts -> Bars] /\ isBufferFull \in BOOLEAN /\ old \in Remembered
        /\ Ordered(source) /\ Past(source, calls, filled) /\ Now = source[Len(source)]
    BY NowIs DEF Typed
  <1>1. ASSUME Ordered(source'), Grown(source, source'), UNCHANGED <<rates, isBufferFull, old, calls, filled>>
        PROVE  Converted(source', rates', old', calls', filled')
    <2>1. LongEnough(source)
      BY <1>0, <1>1, GrownEnough
    <2>2. Converted(source, rates, old, calls, filled)
      BY <1>1, <2>1 DEF CInv
    <2>3. Converted(source', rates, old, calls, filled)
      BY <1>0, <1>1, <2>2, GrownConverted
    <2> QED
      BY <1>1, <2>3
  <1>2. CASE Tick
    BY <1>0, <1>1, <1>2, TickGrows DEF Tick
  <1>3. CASE NewBar
    BY <1>0, <1>1, <1>3, NewBarGrows DEF NewBar
  <1>4. CASE Reinit
    BY <1>4 DEF Reinit
  <1>5. CASE FillBuffer
    <2>1. /\ source' = source /\ rates' = fillEmptyRatesBuffer.rates
          /\ calls' = calls \cup {source[Len(source)].last} /\ filled' = source[Len(source)].last
      BY <1>0, <1>5 DEF FillBuffer
    <2>2. fillEmptyRatesBuffer \in Filling /\ Full(source, fillEmptyRatesBuffer.rates)
      BY <2>1, FilledFull
    <2>3. fillEmptyRatesBuffer.rates \in [Shifts -> Bars]
      BY <2>2 DEF Filling
    <2> QED
      BY <1>0, <2>1, <2>2, <2>3, FilledConverted
  <1>6. CASE ConvertBar
    <2>1. source' = source /\ calls' = calls \cup {source[Len(source)].last} /\ filled' = filled /\ isBufferFull
      BY <1>0, <1>6 DEF ConvertBar
    <2>2. LongEnough(source) /\ Converted(source, rates, old, calls, filled)
      BY <2>1 DEF CInv
    <2>3. CASE IsValid(Now)
      <3>1. convertCurrentBar /\ V(source, Len(source))
        BY <1>0, <1>6, <2>3 DEF ConvertBar, V
      <3> QED
        BY <2>1, <2>2, <3>1, CurrentConverted
    <2>4. CASE ~IsValid(Now)
      <3>1. UNCHANGED <<rates, old>> /\ ~V(source, Len(source))
        BY <1>0, <1>6, <2>4 DEF ConvertBar, V
      <3> QED
        BY <1>0, <2>1, <2>2, <3>1, DiscardedConverted
    <2> QED
      BY <2>3, <2>4
  <1>7. CASE UNCHANGED vars
    BY <1>7 DEF vars, CInv
  <1> QED
    BY <1>2, <1>3, <1>4, <1>5, <1>6, <1>7 DEF Next

LEMMA ConversionInvariant == Spec => [](Typed /\ CInv)
  <1>1. Init => Typed /\ CInv
    BY InitTyped DEF Init, CInv
  <1>2. Typed /\ CInv /\ [Next]_vars => (Typed /\ CInv)'
    BY StepTyped, StepConverted
  <1> QED
    BY <1>1, <1>2, PTL DEF Spec

-----------------------------------------------------------------------------
(* What the invariant says of the reference definition. *)

LEMMA SourceBarsAre ==
    ASSUME Ordered(source)
    PROVE  /\ Range(source) = {source[n] : n \in Places(source)}
           /\ \A n \in Places(source) : V(source, n) => B(source, n) \in Buckets
           /\ \A b \in Buckets : \E n \in Places(source) : V(source, n) /\ B(source, n) = b
  <1>1. DOMAIN source = Places(source)
    <2>1. source \in Seq(SourceBars)
      BY DEF Ordered
    <2> QED
      BY <2>1 DEF Places
  <1>2. Range(source) = {source[n] : n \in Places(source)}
    BY <1>1 DEF Range
  <1>3. \A n \in Places(source) : V(source, n) => B(source, n) \in Buckets
    BY <1>2 DEF Buckets, V, B
  <1>4. \A b \in Buckets : \E n \in Places(source) : V(source, n) /\ B(source, n) = b
    BY <1>2 DEF Buckets, V, B
  <1> QED
    BY <1>2, <1>3, <1>4

LEMMA LeastIs ==
    ASSUME NEW X \in SUBSET Nat, X # {}
    PROVE  Min(X) \in X /\ \A n \in X : Min(X) <= n
  <1>1. \E m \in X : \A n \in X : m <= n
    BY LeastNatural
  <1> QED
    BY <1>1 DEF Min

LEMMA CompletedFollow == Typed /\ CInv /\ LongEnough(source) => CompletedBars
  <1> SUFFICES ASSUME Typed, CInv, LongEnough(source), isBufferFull, NEW k \in Completed
               PROVE  LET b == BucketAt(k) IN
                      /\ NoVolume(rates[k]) = NoVolume(MergedBar(b))
                      /\ (FirstOf(b).first > filled /\ SeenLater(LastOf(b))) => rates[k].volume = MergedBar(b).volume
    BY DEF CompletedBars
  <1> DEFINE b == BucketAt(k)
  <1>1. Ordered(source) /\ rates[k] \in Bars /\ b = Bk(rates, k) /\ Converted(source, rates, old, calls, filled)
    BY ShiftsAre DEF Typed, CInv, BucketAt, Bk
  <1>2. MadeOf(source, rates[k], In(source, b))
    BY <1>1 DEF Converted, Complete
  <1> HIDE DEF b
  <1>3. NoVolume(rates[k]) = NoVolume(MergedBar(b)) /\ MergedBar(b).volume = Cardinality(rates[k].covers)
    BY <1>1, <1>2, MadeIsMerged
  <1>4. PICK f, l \in In(source, b) : /\ IsFirst(source, f) /\ IsLast(source, l)
                                      /\ FirstOf(b) = source[f] /\ LastOf(b) = source[l]
    BY <1>1, <1>2, MadeIsMerged
  <1>5. ASSUME FirstOf(b).first > filled, SeenLater(LastOf(b)) PROVE rates[k].volume = MergedBar(b).volume
    <2>1. SeenWhole(source, calls, filled, f, l)
      BY <1>4, <1>5 DEF SeenWhole, SeenLater, Seen
    <2>2. Counted(rates[k])
      BY <1>1, <2>1 DEF Converted, VolumeRight
    <2> QED
      BY <1>3, <2>2 DEF Counted
  <1> QED
    BY <1>3, <1>5 DEF b

LEMMA NoneLeftOutFollows == Typed /\ CInv /\ LongEnough(source) => NoneLeftOut
  <1> SUFFICES ASSUME Typed, CInv, LongEnough(source), isBufferFull, NEW k \in Completed
               PROVE  /\ BucketAt(k) < BucketAt(k + 1)
                      /\ \A b \in Buckets : (BucketAt(k) < b /\ b < BucketAt(k + 1)) =>
                            ~BegunInTime(Min({c \in Buckets : c > b}))
    BY DEF NoneLeftOut
  <1>1. /\ Ordered(source) /\ rates \in [Shifts -> Bars] /\ Converted(source, rates, old, calls, filled)
        /\ k \in Shifts /\ k + 1 \in Shifts /\ (k + 1 = Size \/ k + 1 \in Completed) /\ k \in Nat
    <2>1. k \in Nat /\ k + 1 \in Shifts /\ (k = Size - 1 \/ k + 1 \in Completed) /\ k \in Shifts
      BY ShiftsAre
    <2>2. k + 1 = Size \/ k + 1 \in Completed
      BY <2>1, Constants
    <2> QED
      BY <2>1, <2>2 DEF Typed, CInv
  <1>2. /\ BucketAt(k) = Bk(rates, k) /\ BucketAt(k + 1) = Bk(rates, k + 1)
        /\ Bk(rates, k) \in Nat /\ Bk(rates, k + 1) \in Nat /\ Bk(rates, k) < Bk(rates, k + 1)
    <2>1. Increasing(rates)
      BY <1>1 DEF Converted
    <2> QED
      BY <1>1, <2>1, BucketsAre DEF BucketAt, Bk
  <1>3. ASSUME NEW b \in Buckets, Bk(rates, k) < b, b < Bk(rates, k + 1), BegunInTime(Min({c \in Buckets : c > b}))
        PROVE  FALSE
    <2> DEFINE X == {c \in Buckets : c > b}
               a == Min(X)
    <2>1. PICK m \in Places(source) : V(source, m) /\ B(source, m) = b
      BY <1>1, SourceBarsAre
    <2>2. \E n \in Places(source) : V(source, n) /\ B(source, n) = Bk(rates, k + 1)
      <3>1. CASE k + 1 = Size
        BY <1>1, <3>1, CurrentIs DEF Converted
      <3>2. CASE k + 1 \in Completed
        <4>1. MadeOf(source, rates[k + 1], In(source, Bk(rates, k + 1)))
          BY <1>1, <3>2 DEF Converted, Complete
        <4>2. PICK n \in In(source, Bk(rates, k + 1)) : TRUE
          BY <4>1 DEF MadeOf
        <4> QED
          BY <1>1, <4>2, InAre
      <3> QED
        BY <1>1, <3>1, <3>2
    <2>3. Bk(rates, k + 1) \in X
      BY <1>1, <1>3, <2>2, SourceBarsAre
    <2>4. X \in SUBSET Nat
      <3>1. \A c \in Buckets : c \in Nat
        BY <1>1, SourceBarsAre, PlacesAre
      <3> QED
        BY <3>1
    <2>5. X # {}
      BY <2>3
    <2>6. a \in X /\ \A n \in X : a <= n
      <3> HIDE DEF X
      <3> QED
        BY <2>4, <2>5, LeastIs
    <2>7. a \in Buckets /\ a > b /\ \A c \in Buckets : c > b => a <= c
      BY <2>6
    <2>8. BegunInTime(a)
      BY <1>3
    <2> HIDE DEF a, X
    <2>9. PICK j \in Places(source) : V(source, j) /\ B(source, j) = a
      BY <1>1, <2>7, SourceBarsAre
    <2>10. PICK i \in In(source, a) : IsFirst(source, i)
      BY <1>1, <2>9, FirstExists
    <2>11. i \in Places(source) /\ V(source, i) /\ B(source, i) = a
      BY <1>1, <2>10, InAre
    <2>12. FirstOf(a) = source[i]
      BY <1>1, <2>10, <2>11, FirstOfIs
    <2>13. Begun(source, calls, filled, i)
      BY <2>8, <2>12 DEF BegunInTime, SeenLater, Begun, Seen
    <2>14. IsNext(source, m, i)
      <3>1. a \in Nat /\ b \in Nat /\ \A n \in Places(source) : B(source, n) \in Nat
        BY <1>1, <2>1, <2>9, PlacesAre
      <3>2. ASSUME NEW n \in Places(source), V(source, n), B(source, n) > b PROVE B(source, n) >= a
        <4>1. B(source, n) \in Buckets
          BY <1>1, <3>2, SourceBarsAre
        <4>2. a <= B(source, n)
          BY <2>7, <3>2, <4>1
        <4> QED
          BY <3>1, <4>2
      <3>3. b < a
        BY <2>7, <3>1
      <3> QED
        BY <2>1, <2>10, <2>11, <3>2, <3>3 DEF IsNext
    <2> QED
      BY <1>1, <1>3, <2>1, <2>11, <2>13, <2>14 DEF Converted, MissedOnly
  <1> QED
    BY <1>2, <1>3

LEMMA CurrentFollows == Typed /\ CInv /\ LongEnough(source) => CurrentBar
  <1> DEFINE s == source
             L == Len(s)
             b == Bucket(Now.time)
  <1> SUFFICES ASSUME Typed, CInv, LongEnough(source), isBufferFull, IsValid(Now), BegunInTime(b),
                      \A x \in BarsOf(b) : x.last \in calls \/ x.last <= filled
               PROVE  /\ [rates[Size] EXCEPT !.volume = 0, !.close = 0] = [MergedBar(b) EXCEPT !.volume = 0, !.close = 0]
                      /\ Cardinality(BarsOf(b)) > 1 => rates[Size].close = Now.last
    BY DEF CurrentBar
  <1>1. /\ Ordered(s) /\ rates[Size] \in Bars /\ Converted(s, rates, old, calls, filled)
        /\ Now = s[L] /\ V(s, L) /\ b = B(s, L) /\ L \in Places(s) /\ b \in Nat
    BY NowIs, ShiftsAre, PlacesAre DEF Typed, CInv, V, B
  <1>a. /\ BegunInTime(b)
        /\ \A x \in BarsOf(b) : x.last \in calls \/ x.last <= filled
    OBVIOUS
  <1> HIDE DEF b, L
  <1>2. /\ \A n \in In(s, b) : n \in Places(s) /\ V(s, n) /\ B(s, n) = b
        /\ \A n \in Places(s) : (V(s, n) /\ B(s, n) = b) => n \in In(s, b)
        /\ \A n \in Places(s) : n \in Nat /\ n <= L /\ B(s, n) \in Nat /\ B(s, n) <= b
        /\ L \in Nat
    <2>1. \A n \in Places(s) : n \in Nat /\ n <= L /\ B(s, n) \in Nat /\ L \in Nat
      BY <1>1, PlacesAre DEF Places, L
    <2>2. \A n \in Places(s) : B(s, n) <= b
      BY <1>1, <2>1, PlacesInOrder
    <2> QED
      BY <1>1, <2>1, <2>2, InAre
  <1>3. BarsOf(b) = {s[n] : n \in In(s, b)}
    BY <1>1, BarsOfAre
  \* The current bar is that of the bucket of the last terminal's bar.
  <1>4. PICK f \in In(s, b) : IsFirst(s, f)
    BY <1>1, FirstExists
  <1>5. FirstOf(b) = s[f] /\ f \in Places(s) /\ B(s, f) = b
    BY <1>1, <1>2, <1>4, FirstOfIs
  <1>6. Begun(s, calls, filled, f)
    BY <1>a, <1>5 DEF BegunInTime, SeenLater, Begun, Seen
  <1>7. PICK g \in Places(s) : /\ IsFirst(s, g) /\ rates[Size].time = s[g].time /\ rates[Size].open = s[g].first
                               /\ Bk(rates, Size) = B(s, g)
    BY <1>1, CurrentIs DEF Converted
  <1>8. b <= Bk(rates, Size)
    BY <1>1, <1>4, <1>5, <1>6 DEF Converted, BegunKept
  <1>9. B(s, g) = b /\ Bk(rates, Size) = b
    BY <1>1, <1>2, <1>7, <1>8
  <1>10. g = f
    BY <1>1, <1>4, <1>5, <1>7, <1>9, LastIsUnique
  <1>11. rates[Size].covers = TicksOf(b)
    <2>1. ASSUME NEW n \in In(s, b) PROVE Ticks(s[n]) \subseteq rates[Size].covers
      <3>1. CalledAtEnd(s, calls, filled, n)
        BY <1>a, <1>3 DEF CalledAtEnd
      <3> QED
        BY <1>1, <1>9, <3>1 DEF Converted, CurrentCovers
    <2>2. ASSUME NEW t \in rates[Size].covers PROVE \E n \in In(s, b) : t \in Ticks(s[n])
      <3>1. PICK n \in Places(s) : V(s, n) /\ B(s, n) >= b /\ t \in Ticks(s[n])
        BY <1>1, <1>9 DEF Converted, CurrentCovers
      <3>2. B(s, n) = b
        BY <1>1, <1>2, <3>1
      <3> QED
        BY <1>2, <3>1, <3>2
    <2>3. TicksOf(b) = UNION {Ticks(s[n]) : n \in In(s, b)}
      BY <1>1, TicksOfAre
    <2> QED
      BY <2>1, <2>2, <2>3
  <1>12. [rates[Size] EXCEPT !.volume = 0, !.close = 0] = [MergedBar(b) EXCEPT !.volume = 0, !.close = 0]
    <2>1. rates[Size].time = FirstOf(b).time /\ rates[Size].open = FirstOf(b).first
      BY <1>5, <1>7, <1>10
    <2> DEFINE r == rates[Size]
               mb == MergedBar(b)
    <2>2. r \in Bars /\ r.covers = TicksOf(b)
      BY <1>1, <1>11
    <2>3. mb = [time |-> r.time, open |-> r.open, close |-> LastOf(b).last, covers |-> r.covers,
               volume |-> Cardinality(TicksOf(b))]
      BY <2>1, <2>2 DEF MergedBar
    <2>4. r = [time |-> r.time, open |-> r.open, close |-> r.close, covers |-> r.covers, volume |-> r.volume]
      <3> HIDE DEF r
      <3> QED
        BY <2>2 DEF Bars
    <2>5. [r EXCEPT !.volume = 0, !.close = 0] =
              [time |-> r.time, open |-> r.open, close |-> 0, covers |-> r.covers, volume |-> 0]
      <3> HIDE DEF r, mb
      <3> DEFINE y == [r EXCEPT !.volume = 0]
      <3>1. y = [time |-> r.time, open |-> r.open, close |-> r.close, covers |-> r.covers, volume |-> 0]
        BY <2>4
      <3>2. [r EXCEPT !.volume = 0, !.close = 0] = [y EXCEPT !.close = 0]
        OBVIOUS
      <3>3. [y EXCEPT !.close = 0] = [time |-> r.time, open |-> r.open, close |-> 0, covers |-> r.covers, volume |-> 0]
        <4> HIDE DEF y
        <4> QED
          BY <3>1
      <3> QED
        BY <3>2, <3>3
    <2>6. [mb EXCEPT !.volume = 0, !.close = 0] =
              [time |-> r.time, open |-> r.open, close |-> 0, covers |-> r.covers, volume |-> 0]
      <3> HIDE DEF r, mb
      <3> DEFINE y == [mb EXCEPT !.volume = 0]
      <3>1. y = [time |-> r.time, open |-> r.open, close |-> LastOf(b).last, covers |-> r.covers, volume |-> 0]
        BY <2>3
      <3>2. [mb EXCEPT !.volume = 0, !.close = 0] = [y EXCEPT !.close = 0]
        OBVIOUS
      <3>3. [y EXCEPT !.close = 0] = [time |-> r.time, open |-> r.open, close |-> 0, covers |-> r.covers, volume |-> 0]
        <4> HIDE DEF y
        <4> QED
          BY <3>1
      <3> QED
        BY <3>2, <3>3
    <2> HIDE DEF r, mb
    <2>7. [r EXCEPT !.volume = 0, !.close = 0] = [mb EXCEPT !.volume = 0, !.close = 0]
      BY <2>5, <2>6
    <2> QED
      BY <2>7 DEF r, mb
  <1>13. ASSUME Cardinality(BarsOf(b)) > 1 PROVE rates[Size].close = Now.last
    <2>1. f # L
      <3> SUFFICES ASSUME f = L PROVE FALSE
        OBVIOUS
      <3>1. \A n \in In(s, b) : n = L
        BY <1>2, <1>4, <1>5 DEF IsFirst
      <3>2. BarsOf(b) = {s[L]}
        BY <1>3, <1>4, <3>1
      <3>3. Cardinality({s[L]}) = 1
        BY FS_Singleton
      <3> QED
        BY <1>13, <3>2, <3>3
    <2>2. s[L].time # rates[Size].time
      BY <1>1, <1>5, <1>7, <1>10, <2>1, PlacesInOrder
    <2>3. CalledAtEnd(s, calls, filled, L)
      BY <1>a, <1>1, <1>2, <1>3 DEF CalledAtEnd
    <2> QED
      BY <1>1, <1>9, <2>2, <2>3 DEF Converted, CurrentClose, L
  <1> QED
    BY <1>12, <1>13 DEF b

-----------------------------------------------------------------------------

\* Each completed bar of the strategy has the open, high, low and close of all the terminal's valid
\* bars of its bucket and of no other, whichever ticks the library was not called on, and their volume
\* when it was completed since the buffer was filled and seen in its last bar; for every ratio, window,
\* history and sequence of calls, if the arrays handed over were long enough.
THEOREM CompletedBarsRight == Spec => [](LongEnough(source) => CompletedBars)
  <1>1. Typed /\ CInv => (LongEnough(source) => CompletedBars)
    BY CompletedFollow
  <1> QED
    BY <1>1, ConversionInvariant, PTL

\* The strategy's bars are of later and later buckets, and none between two of them is left out unless
\* the library was not called in the first bar of the bucket after it; under the same condition.
THEOREM NoBucketLeftOut == Spec => [](LongEnough(source) => NoneLeftOut)
  <1>1. Typed /\ CInv => (LongEnough(source) => NoneLeftOut)
    BY NoneLeftOutFollows
  <1> QED
    BY <1>1, ConversionInvariant, PTL

\* The current bar covers all its ticks and has their open, if the library was called in its first bar
\* and at the last tick of each, and their close from the second bar on; under the same condition.
THEOREM CurrentBarRight == Spec => [](LongEnough(source) => CurrentBar)
  <1>1. Typed /\ CInv => (LongEnough(source) => CurrentBar)
    BY CurrentFollows
  <1> QED
    BY <1>1, ConversionInvariant, PTL

-----------------------------------------------------------------------------
(* The rates buffer: RatesWindow. *)

\* What the copy to the front relies on: it starts with the extension used up.
Copying ==
    /\ pc = "shift" => oldOffset = Ext /\ offset = 0 /\ newIndex < WindowSize
    /\ pc = "empty" => offset = 0

\* Garbage is only ever where a place waits to be written.
Written ==
    \A n \in Positions :
        \/ View[n] # Garbage
        \/ n = WindowSize - 1 /\ pc \in {"shift", "copy"}

WindowInv == WindowTypeOK /\ Copying /\ Written

-----------------------------------------------------------------------------

LEMMA WindowInvInit == WindowInit => WindowInv
  BY WindowAssumption
  DEF WindowInit, WindowInv, WindowTypeOK, Copying, Written, View, Block, Positions, Values

\* The places of the window lie inside the block.
LEMMA InBlock ==
  ASSUME WindowTypeOK, NEW n \in Positions
  PROVE  /\ n \in Int /\ offset + n \in Block /\ n \in Block /\ offset \in Int
         /\ n + Ext \in Block /\ WindowSize - 1 \in Positions /\ WindowSize - 2 \in Positions
         /\ WindowSize - 2 # WindowSize - 1
  BY WindowAssumption DEF WindowTypeOK, Positions, Block

LEMMA WindowTypesNext == WindowTypeOK /\ Copying /\ [WindowNext]_windowVars => WindowTypeOK'
  <1> SUFFICES ASSUME WindowTypeOK, Copying, [WindowNext]_windowVars PROVE WindowTypeOK'
    OBVIOUS
  <1> USE WindowAssumption DEF WindowTypeOK
  <1>1. CASE FillEmptyRatesBuffer
    <2> PICK bars \in [Positions -> BarValues] :
          heap' = [n \in Block |-> IF n \in Positions THEN bars[n] ELSE heap[n]]
      BY <1>1 DEF FillEmptyRatesBuffer
    <2>1. heap' \in [Block -> Values]
      BY DEF Values
    <2> QED
      BY <1>1, <2>1 DEF FillEmptyRatesBuffer
  <1>2. CASE MergeBar
    BY <1>2 DEF MergeBar, Values
  <1>3. CASE IncrementRatesOffset
    BY <1>3 DEF IncrementRatesOffset
  <1>4. CASE ShiftBar
    <2>1. newIndex + oldOffset \in Block /\ newIndex \in 0..(WindowSize - 1)
      BY <1>4 DEF ShiftBar, Copying, Block
    <2>2. heap[newIndex + oldOffset] \in Values
      BY <2>1
    <2>3. heap' \in [Block -> Values]
      BY <1>4, <2>2 DEF ShiftBar
    <2>4. newIndex' \in 0..WindowSize /\ pc' \in {"shift", "copy"} /\ offset' = offset /\ oldOffset' = oldOffset
      BY <1>4, <2>1 DEF ShiftBar
    <2> QED
      BY <2>3, <2>4
  <1>5. CASE CopyBar
    BY <1>5 DEF CopyBar, Values
  <1>6. CASE ReprocessConvertedBar
    BY <1>6 DEF ReprocessConvertedBar, Values
  <1>7. CASE UNCHANGED windowVars
    BY <1>7 DEF windowVars
  <1> QED
    BY <1>1, <1>2, <1>3, <1>4, <1>5, <1>6, <1>7 DEF WindowNext

LEMMA CopyingNext == WindowTypeOK /\ Copying /\ [WindowNext]_windowVars => Copying'
  BY WindowAssumption
  DEF WindowTypeOK, Copying, WindowNext, windowVars, FillEmptyRatesBuffer, MergeBar, IncrementRatesOffset,
      ShiftBar, CopyBar, ReprocessConvertedBar

-----------------------------------------------------------------------------
(* What each step does to the window the strategy sees. *)

LEMMA ViewType == ASSUME WindowInv PROVE View \in [Positions -> Values]
  <1> SUFFICES ASSUME NEW n \in Positions
               PROVE  /\ offset + n \in Block
                      /\ pc = "shift" => n + oldOffset \in Block
    BY DEF View, WindowInv, WindowTypeOK
  <1> QED
    BY InBlock DEF WindowInv, Copying

LEMMA FillView ==
  ASSUME WindowInv, FillEmptyRatesBuffer
  PROVE  View' \in [Positions -> BarValues]
  <1> PICK bars \in [Positions -> BarValues] :
        heap' = [n \in Block |-> IF n \in Positions THEN bars[n] ELSE heap[n]]
    BY DEF FillEmptyRatesBuffer
  <1>1. pc' = "ready" /\ offset' = 0
    BY DEF FillEmptyRatesBuffer, WindowInv, Copying
  <1>2. ASSUME NEW n \in Positions PROVE heap'[offset' + n] = bars[n]
    BY <1>1, InBlock DEF WindowInv
  <1>3. View' = [n \in Positions |-> heap'[offset' + n]]
    BY <1>1 DEF View
  <1> QED
    BY <1>2, <1>3

\* A new bar: every bar moves one place, whether or not the block is used up.
LEMMA AdvanceView ==
  ASSUME WindowInv, IncrementRatesOffset
  PROVE  /\ heap[offset + WindowSize] \in Values
         /\ View' = [n \in Positions |-> IF n < WindowSize - 1 THEN View[n + 1]
                                                      ELSE heap[offset + WindowSize]]
  <1>1. WindowTypeOK /\ pc = "ready" /\ heap' = heap
    BY DEF WindowInv, IncrementRatesOffset
  <1>2. offset + WindowSize \in Block
    BY <1>1, WindowAssumption DEF WindowTypeOK, Block
  <1>3. View = [n \in Positions |-> heap[offset + n]]
    BY <1>1 DEF View
  <1>4. ASSUME NEW n \in Positions PROVE View'[n] = heap[offset + n + 1]
    <2>1. CASE offset + 1 < Ext
      <3>1. pc' = "copy" /\ offset' = offset + 1
        BY <2>1 DEF IncrementRatesOffset
      <3>2. View'[n] = heap[(offset + 1) + n]
        BY <3>1, <1>1 DEF View
      <3>3. (offset + 1) + n = offset + n + 1
        BY <1>1 DEF WindowTypeOK, Positions
      <3> QED
        BY <3>2, <3>3
    <2>2. CASE ~(offset + 1 < Ext)
      <3>1. pc' = "shift" /\ oldOffset' = offset + 1 /\ newIndex' = 0
        BY <2>2 DEF IncrementRatesOffset
      <3>2. n >= newIndex'
        BY <3>1 DEF Positions
      <3>3. View'[n] = heap[n + (offset + 1)]
        BY <3>1, <3>2, <1>1 DEF View
      <3>4. n + (offset + 1) = offset + n + 1
        BY <1>1 DEF WindowTypeOK, Positions
      <3> QED
        BY <3>3, <3>4
    <2> QED
      BY <2>1, <2>2
  <1>5. ASSUME NEW n \in Positions
        PROVE  View'[n] = IF n < WindowSize - 1 THEN View[n + 1] ELSE heap[offset + WindowSize]
    <2>1. CASE n < WindowSize - 1
      <3>1. n + 1 \in Positions /\ offset + (n + 1) = offset + n + 1
        BY <2>1, <1>1, WindowAssumption DEF Positions, WindowTypeOK
      <3>2. View[n + 1] = heap[offset + (n + 1)]
        BY <3>1, <1>3
      <3> QED
        BY <2>1, <3>1, <3>2, <1>4
    <2>2. CASE ~(n < WindowSize - 1)
      <3>1. offset + n + 1 = offset + WindowSize
        BY <2>2, <1>1, WindowAssumption DEF Positions, WindowTypeOK
      <3> QED
        BY <2>2, <3>1, <1>4
    <2> QED
      BY <2>1, <2>2
  <1>6. View' = [n \in Positions |-> View'[n]]
    BY DEF View
  <1> QED
    BY <1>1, <1>2, <1>5, <1>6 DEF WindowTypeOK

\* The copy to the front changes nothing the strategy sees.
LEMMA ShiftView ==
  ASSUME WindowInv, ShiftBar
  PROVE  View' = View
  <1>1. /\ WindowTypeOK /\ pc = "shift" /\ oldOffset = Ext /\ offset = 0 /\ newIndex < WindowSize
        /\ oldOffset' = oldOffset /\ offset' = offset /\ newIndex' = newIndex + 1
        /\ heap' = [heap EXCEPT ![newIndex] = heap[newIndex + oldOffset]]
        /\ pc' = IF newIndex + 1 = WindowSize THEN "copy" ELSE "shift"
    BY DEF WindowInv, Copying, ShiftBar
  <1>2. newIndex \in Positions /\ newIndex \in Block
    BY <1>1, WindowAssumption DEF WindowTypeOK, Positions, Block
  <1>3. ASSUME NEW n \in Positions PROVE View'[n] = View[n]
    <2>1. n \in Block /\ n + Ext \in Block /\ offset + n = n /\ n \in 0..(WindowSize - 1)
      BY <1>1, InBlock DEF Positions
    <2>2. CASE n < newIndex
      <3>1. View[n] = heap[n]
        BY <1>1, <1>2, <2>1, <2>2 DEF View, Positions
      <3>2. View'[n] = heap'[n]
        BY <1>1, <1>2, <2>1, <2>2 DEF View, Positions
      <3>3. heap'[n] = heap[n]
        BY <1>1, <1>2, <2>1, <2>2 DEF WindowTypeOK, Positions
      <3> QED
        BY <3>1, <3>2, <3>3
    <2>3. CASE n = newIndex
      <3>1. View[n] = heap[newIndex + oldOffset]
        BY <1>1, <1>2, <2>3 DEF View, Positions
      <3>2. View'[n] = heap'[newIndex]
        BY <1>1, <1>2, <2>1, <2>3 DEF View, Positions
      <3>3. heap'[newIndex] = heap[newIndex + oldOffset]
        BY <1>1, <1>2 DEF WindowTypeOK
      <3> QED
        BY <3>1, <3>2, <3>3
    <2>4. CASE n > newIndex
      <3>1. View[n] = heap[n + oldOffset]
        BY <1>1, <1>2, <2>4, <2>1 DEF View, Positions
      <3>2. pc' = "shift" /\ n >= newIndex'
        BY <1>1, <1>2, <2>4, <2>1 DEF Positions
      <3>3. View'[n] = heap'[n + oldOffset]
        BY <3>2, <1>1 DEF View
      <3>4. n + oldOffset # newIndex
        BY <1>1, <1>2, <2>4, <2>1, WindowAssumption DEF Positions
      <3>5. heap'[n + oldOffset] = heap[n + oldOffset]
        BY <3>4, <1>1, <2>1 DEF WindowTypeOK
      <3> QED
        BY <3>1, <3>3, <3>5
    <2> QED
      BY <2>1, <2>2, <2>3, <2>4, <1>2 DEF Positions
  <1> QED
    BY <1>3 DEF View

\* Writing one of the newest two bars through the moved pointer writes it in the window.
LEMMA AmendView ==
  ASSUME WindowInv, NEW k \in Positions, NEW b \in BarValues,
         pc # "shift", pc' # "shift", offset' = offset,
         heap' = [heap EXCEPT ![offset + k] = b]
  PROVE  View' = [View EXCEPT ![k] = b]
  <1>1. ASSUME NEW n \in Positions PROVE View'[n] = IF n = k THEN b ELSE View[n]
    <2>1. offset + n \in Block /\ (offset + n = offset + k <=> n = k)
      BY InBlock DEF WindowInv
    <2>2. heap'[offset + n] = IF n = k THEN b ELSE heap[offset + n]
      BY <2>1 DEF WindowInv, WindowTypeOK
    <2> QED
      BY <2>2 DEF View
  <1>2. View = [n \in Positions |-> View[n]] /\ View' = [n \in Positions |-> View'[n]]
    BY DEF View
  <1> QED
    BY <1>1, <1>2

LEMMA MergeView ==
  ASSUME WindowInv, MergeBar
  PROVE  \E b \in BarValues : View' = [View EXCEPT ![WindowSize - 1] = b]
  <1> PICK b \in BarValues : heap' = [heap EXCEPT ![offset + WindowSize - 1] = b]
    BY DEF MergeBar
  <1>1. offset + WindowSize - 1 = offset + (WindowSize - 1) /\ WindowSize - 1 \in Positions
    BY WindowAssumption DEF WindowInv, WindowTypeOK, Positions
  <1> QED
    BY <1>1, AmendView DEF MergeBar

LEMMA CopyView ==
  ASSUME WindowInv, CopyBar
  PROVE  \E b \in BarValues : View' = [View EXCEPT ![WindowSize - 1] = b]
  <1> PICK b \in BarValues : heap' = [heap EXCEPT ![offset + WindowSize - 1] = b]
    BY DEF CopyBar
  <1>1. offset + WindowSize - 1 = offset + (WindowSize - 1) /\ WindowSize - 1 \in Positions
    BY WindowAssumption DEF WindowInv, WindowTypeOK, Positions
  <1> QED
    BY <1>1, AmendView DEF CopyBar

LEMMA ReprocessView ==
  ASSUME WindowInv, ReprocessConvertedBar
  PROVE  \E b \in BarValues : View' = [View EXCEPT ![WindowSize - 2] = b]
  <1> PICK b \in BarValues : heap' = [heap EXCEPT ![offset + WindowSize - 2] = b]
    BY DEF ReprocessConvertedBar
  <1>1. offset + WindowSize - 2 = offset + (WindowSize - 2) /\ WindowSize - 2 \in Positions
    BY WindowAssumption DEF WindowInv, WindowTypeOK, Positions
  <1> QED
    BY <1>1, AmendView DEF ReprocessConvertedBar

-----------------------------------------------------------------------------

LEMMA WrittenNext == WindowInv /\ [WindowNext]_windowVars => Written'
  <1> SUFFICES ASSUME WindowInv, [WindowNext]_windowVars, NEW n \in Positions
               PROVE  View'[n] # Garbage \/ (n = WindowSize - 1 /\ pc' \in {"shift", "copy"})
    BY DEF Written
  <1>0. /\ View[n] # Garbage \/ (n = WindowSize - 1 /\ pc \in {"shift", "copy"})
        /\ View \in [Positions -> Values]
        /\ WindowSize - 1 \in Positions /\ WindowSize - 2 \in Positions /\ WindowSize - 2 # WindowSize - 1
        /\ Garbage \notin BarValues
        /\ pc \in {"empty", "ready", "shift", "copy", "reprocess"}
    BY ViewType, InBlock, WindowAssumption DEF WindowInv, Written, WindowTypeOK
  <1>1. CASE FillEmptyRatesBuffer
    BY <1>0, <1>1, FillView
  <1>2. CASE MergeBar
    BY <1>0, <1>2, MergeView DEF MergeBar
  <1>3. CASE IncrementRatesOffset
    <2>1. pc = "ready" /\ pc' \in {"copy", "shift"}
      BY <1>3 DEF IncrementRatesOffset
    <2>2. CASE n < WindowSize - 1
      <3>1. n + 1 \in Positions
        BY <2>2, WindowAssumption DEF Positions
      <3>2. View'[n] = View[n + 1]
        BY <1>3, <2>2, AdvanceView
      <3> QED
        BY <3>1, <3>2, <2>1 DEF WindowInv, Written
    <2>3. CASE ~(n < WindowSize - 1)
      BY <2>1, <2>3, WindowAssumption DEF Positions
    <2> QED
      BY <2>2, <2>3
  <1>4. CASE ShiftBar
    BY <1>0, <1>4, ShiftView DEF ShiftBar
  <1>5. CASE CopyBar
    BY <1>0, <1>5, CopyView DEF CopyBar
  <1>6. CASE ReprocessConvertedBar
    BY <1>0, <1>6, ReprocessView DEF ReprocessConvertedBar
  <1>7. CASE UNCHANGED windowVars
    BY <1>0, <1>7 DEF windowVars, View
  <1> QED
    BY <1>1, <1>2, <1>3, <1>4, <1>5, <1>6, <1>7 DEF WindowNext

LEMMA WindowInvNext == WindowInv /\ [WindowNext]_windowVars => WindowInv'
  BY WindowTypesNext, CopyingNext, WrittenNext DEF WindowInv

LEMMA WindowInvariance == WindowSpec => []WindowInv
  BY WindowInvInit, WindowInvNext, PTL DEF WindowSpec

-----------------------------------------------------------------------------
(***************************************************************************)
(* incrementRatesOffset and resetRatesOffset keep the pointer and the copy *)
(* inside the block that allocateRates allocated.                          *)
(***************************************************************************)
THEOREM WindowTypes == WindowSpec => []WindowTypeOK
  <1>1. WindowInv => WindowTypeOK
    BY DEF WindowInv
  <1> QED
    BY <1>1, WindowInvariance, PTL

(***************************************************************************)
(* Between ticks no bar of the window is memory that was never written.    *)
(***************************************************************************)
THEOREM StrategySeesNoGarbage == WindowSpec => []NoGarbageSeen
  <1>1. WindowInv => NoGarbageSeen
    BY DEF WindowInv, Written, NoGarbageSeen
  <1> QED
    BY <1>1, WindowInvariance, PTL

(***************************************************************************)
(* The buffer of ContiguousRatesCircBuf.c implements the sliding window,   *)
(* whatever its size and its extension are: a new bar shifts the window by *)
(* one place, and the copy to the front is invisible.                      *)
(***************************************************************************)
THEOREM ImplementsSlidingWindow == WindowSpec => RefinesSlidingWindow
  <1>1. WindowInit => Window!Init
    <2> SUFFICES ASSUME WindowInit PROVE View \in [Positions -> BarValues]
      BY DEF Window!Init, Window!Shifts, Positions
    <2>1. ASSUME NEW n \in Positions PROVE View[n] = Zero
      <3>1. n \in Block /\ 0 + n = n
        BY WindowAssumption DEF Positions, Block
      <3> QED
        BY <3>1 DEF WindowInit, View
    <2> QED
      BY <2>1, WindowAssumption DEF View
  <1>2. WindowInv /\ [WindowNext]_windowVars => [Window!Next]_View
    <2> SUFFICES ASSUME WindowInv, [WindowNext]_windowVars PROVE Window!Next \/ View' = View
      OBVIOUS
    <2>0. Window!Shifts = Positions /\ Window!Values = Values
      BY DEF Window!Shifts, Positions, Window!Values, Values
    <2>1. CASE FillEmptyRatesBuffer
      BY <2>0, <2>1, FillView DEF Window!Next, Window!Refill
    <2>2. CASE MergeBar
      BY <2>2, MergeView DEF Window!Next, Window!Amend
    <2>3. CASE IncrementRatesOffset
      BY <2>0, <2>3, AdvanceView DEF Window!Next, Window!Advance
    <2>4. CASE ShiftBar
      BY <2>4, ShiftView
    <2>5. CASE CopyBar
      BY <2>5, CopyView DEF Window!Next, Window!Amend
    <2>6. CASE ReprocessConvertedBar
      BY <2>6, ReprocessView DEF Window!Next, Window!Amend
    <2>7. CASE UNCHANGED windowVars
      BY <2>7 DEF windowVars, View
    <2> QED
      BY <2>1, <2>2, <2>3, <2>4, <2>5, <2>6, <2>7 DEF WindowNext
  <1> QED
    BY <1>1, <1>2, WindowInvariance, PTL DEF WindowSpec, RefinesSlidingWindow, Window!Spec

=============================================================================
