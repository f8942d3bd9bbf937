-------------------------- MODULE RatesConversion --------------------------
(***************************************************************************)
(* The conversion of the terminal's bars to the bars of a strategy's own,  *)
(* longer timeframe (convertRatesArray of MQLParameters.c; the back-tester *)
(* has the same functions, statement for statement, in CTesterParameters.c *)
(* and they are mapped there).  On each call the library is handed the     *)
(* last ArraySize bars of the terminal, the last of them still growing.    *)
(* The first call fills the strategy's window from them; every further one *)
(* looks at the last two only, and the call may come at any tick or miss   *)
(* it.                                                                     *)
(*                                                                         *)
(* A price is the number of its tick, and a bar is the ticks it is made    *)
(* of: high and low, the greatest and the least of their prices, stand for *)
(* the set of ticks they are taken over.  Times are counted in bars of the *)
(* terminal.  RatesWindow shows how the window moves in memory.            *)
(***************************************************************************)
EXTENDS Integers, Sequences, FiniteSets, FiniteSetsExt, SequencesExt

CONSTANTS
    Ratio,        \* requiredTimeframe / actualTimeframe
    Size,         \* totalBarsRequired
    ArraySize,    \* ratesArraySize
    Closed,       \* the times isValidTradingTime refuses: weekends, holidays
    Histories,    \* the times of the bars the terminal may start with
    MaxTime,      \* bound: the last time
    MaxTicks,     \* bound: the ticks after those of the start
    MaxGap,       \* bound: the distance of a bar of the terminal from the one before
    MaxInits      \* bound: how often the buffers are freed and filled again

ASSUME ConversionAssumption ==
    /\ Ratio \in Nat \ {0} /\ Size \in Nat /\ Size >= 2
    /\ ArraySize \in Nat /\ ArraySize >= Size * Ratio
    /\ MaxTime \in Nat /\ MaxTicks \in Nat /\ MaxGap \in Nat \ {0} /\ MaxInits \in Nat
    /\ Closed \subseteq 1..MaxTime
    /\ \A times \in Histories : times \in [1..ArraySize -> 1..MaxTime]
    /\ \A times \in Histories : \A m, n \in 1..ArraySize : m < n => times[m] < times[n]

VARIABLES
    source,       \* the terminal's bars: time, first and last tick
    rates,        \* the strategy's bars
    isBufferFull,
    old,          \* oldTime and oldVolume of the instance
    calls,        \* the ticks at which the library was called
    filled,       \* the tick at which the buffer was filled last
    inits

vars == <<source, rates, isBufferFull, old, calls, filled, inits>>

Shifts == 1..Size
Bucket(time) == time \div Ratio
Now == Last(source)
Ticks(x) == x.first..x.last
NoBar == [time |-> 0, open |-> 0, close |-> 0, covers |-> {}, volume |-> 0]

\* isValidTradingTime
IsValid(x) == x.time \notin Closed

Init ==
    /\ \E times \in Histories :
          source = [n \in DOMAIN times |-> [time |-> times[n], first |-> n, last |-> n]]
    /\ rates = [k \in Shifts |-> NoBar]
    /\ isBufferFull = FALSE
    /\ old = [time |-> -1, volume |-> -1]
    /\ calls = {} /\ filled = 0 /\ inits = 0

-----------------------------------------------------------------------------
(* The terminal. *)

Tick ==
    /\ Now.last < ArraySize + MaxTicks
    /\ source' = [source EXCEPT ![Len(source)].last = @ + 1]
    /\ UNCHANGED <<rates, isBufferFull, old, calls, filled, inits>>

\* No bar without a tick: times may be missing between two bars.
NewBar ==
    /\ Now.last < ArraySize + MaxTicks
    /\ \E time \in (Now.time + 1)..Min({Now.time + MaxGap, MaxTime}) :
          source' = Append(source, [time |-> time, first |-> Now.last + 1, last |-> Now.last + 1])
    /\ UNCHANGED <<rates, isBufferFull, old, calls, filled, inits>>

\* deinitInstance and initInstance: the buffer is freed; oldTickVolume is not reset.
Reinit ==
    /\ isBufferFull /\ inits < MaxInits
    /\ rates' = [k \in Shifts |-> NoBar]
    /\ isBufferFull' = FALSE
    /\ inits' = inits + 1
    /\ UNCHANGED <<source, old, calls, filled>>

-----------------------------------------------------------------------------
(* A call of the library. *)

Array == [n \in 1..ArraySize |-> source[Len(source) - ArraySize + n]]

copyBar(x) ==
    [time |-> x.time, open |-> x.first, close |-> x.last, covers |-> Ticks(x),
     volume |-> Cardinality(Ticks(x))]

\* Mutant of mergeBar: the open is that of the bar merged last, older or not.
mergeBar_OpenOfLast(into, x) ==
    [bar |-> [into.bar EXCEPT !.open = x.first, !.covers = @ \cup Ticks(x)], old |-> into.old]

\* into: the converted bar, and the volume merged last.
mergeBar(into, x) ==
    LET older == x.time < into.bar.time
        volume == Cardinality(Ticks(x))
        before == IF x.time = into.old.time THEN into.old.volume ELSE 0
    IN  [bar |-> [time   |-> IF older THEN x.time ELSE into.bar.time,
                  open   |-> IF older THEN x.first ELSE into.bar.open,
                  close  |-> IF x.time > into.bar.time THEN x.last ELSE into.bar.close,
                  covers |-> into.bar.covers \cup Ticks(x),
                  volume |-> IF into.old.time = -1 THEN volume
                             ELSE into.bar.volume + volume - before],
         old |-> [time |-> x.time, volume |-> volume]]

\* From the newest bar to the oldest, as long as there is a place: a bar of another bucket begins the
\* place before.
FillStep(x, filling) ==
    LET k == filling.place
        into == [bar |-> filling.rates[k], old |-> filling.old]
    IN  CASE k = 0 -> filling
          [] k \in Shifts /\ Bucket(x.time) = Bucket(filling.rates[k].time) ->
               LET merged == mergeBar(into, x)
               IN  [filling EXCEPT !.rates[k] = merged.bar, !.old = merged.old]
          [] OTHER ->
               IF k = 1 THEN [filling EXCEPT !.place = 0]
               ELSE [filling EXCEPT !.place = k - 1, !.rates[k - 1] = copyBar(x)]

fillEmptyRatesBuffer ==
    LET filling[n \in 0..ArraySize] ==
            IF n = 0 THEN [place |-> Size + 1, rates |-> rates, old |-> old]
            ELSE IF IsValid(Array[ArraySize + 1 - n]) THEN FillStep(Array[ArraySize + 1 - n], filling[n - 1])
            ELSE filling[n - 1]
    IN  filling[ArraySize]

RebuildStep(x, into) ==
    IF IsValid(x) /\ Bucket(x.time) = Bucket(into.bar.time) THEN mergeBar(into, x) ELSE into

\* The bar before the current one is built anew, from the terminal's bar n back.  The oldest bar of
\* the array is never merged.
reprocessConvertedBar(n) ==
    LET rebuilt[m \in 0..n - 1] ==
            IF m = 0 THEN [bar |-> copyBar(Array[n]), old |-> old]
            ELSE RebuildStep(Array[n - m], rebuilt[m - 1])
    IN  rebuilt[Max({0, n - 2})]

\* The newest valid bar before the last, or the oldest of all.
Shift1 == Max({1} \cup {n \in 1..(ArraySize - 1) : IsValid(Array[n])})

\* Mutants of BeginsBar: the bar before the last counts even when it is discarded; the time of the
\* current bar is not compared.
BeginsBar_AnyShift1 ==
    Bucket(Now.time) > Bucket(Array[ArraySize - 1].time) /\ Now.time # rates[Size].time
BeginsBar_EachCall == Bucket(Now.time) > Bucket(Array[Shift1].time)

BeginsBar == Bucket(Now.time) > Bucket(Array[Shift1].time) /\ Now.time # rates[Size].time

\* convertCurrentMqlBar
convertCurrentBar ==
    IF BeginsBar
    THEN LET rebuilt == reprocessConvertedBar(Shift1)
         IN  /\ rates' = [k \in Shifts |-> IF k = Size THEN copyBar(Now)
                                           ELSE IF k = Size - 1 THEN rebuilt.bar ELSE rates[k + 1]]
             /\ old' = rebuilt.old
    ELSE LET merged == mergeBar([bar |-> rates[Size], old |-> old], Now)
         IN  /\ rates' = [rates EXCEPT ![Size] = merged.bar]
             /\ old' = merged.old

\* convertRatesArray
FillBuffer ==
    /\ ~isBufferFull
    /\ rates' = fillEmptyRatesBuffer.rates
    /\ old' = fillEmptyRatesBuffer.old
    /\ isBufferFull' = TRUE
    /\ filled' = Now.last
    /\ calls' = calls \cup {Now.last}
    /\ UNCHANGED <<source, inits>>

\* A bar whose time is not valid is discarded.
ConvertBar ==
    /\ isBufferFull
    /\ IF IsValid(Now) THEN convertCurrentBar ELSE UNCHANGED <<rates, old>>
    /\ calls' = calls \cup {Now.last}
    /\ UNCHANGED <<source, isBufferFull, filled, inits>>

Next == Tick \/ NewBar \/ Reinit \/ FillBuffer \/ ConvertBar

Spec == Init /\ [][Next]_vars

-----------------------------------------------------------------------------
(* The reference: a bar of the strategy's timeframe is made of the terminal's valid bars in it. *)

BarsOf(b) == {x \in Range(source) : IsValid(x) /\ Bucket(x.time) = b}
Buckets == {Bucket(x.time) : x \in {y \in Range(source) : IsValid(y)}}
FirstOf(b) == CHOOSE x \in BarsOf(b) : \A y \in BarsOf(b) : x.time <= y.time
LastOf(b) == CHOOSE x \in BarsOf(b) : \A y \in BarsOf(b) : x.time >= y.time
TicksOf(b) == UNION {Ticks(x) : x \in BarsOf(b)}

MergedBar(b) ==
    [time |-> FirstOf(b).time, open |-> FirstOf(b).first, close |-> LastOf(b).last,
     covers |-> TicksOf(b), volume |-> Cardinality(TicksOf(b))]

\* The library was called while x was the last bar, after the buffer was filled.
SeenLater(x) == \E t \in calls \cap Ticks(x) : t > filled
\* The bucket's first bar was seen, or was there when the buffer was filled.
BegunInTime(b) == FirstOf(b).first <= filled \/ SeenLater(FirstOf(b))

BucketAt(k) == Bucket(rates[k].time)
Completed == 1..(Size - 1)

NoVolume(bar) == [bar EXCEPT !.volume = 0]

\* Every completed bar the strategy sees has the open, high, low and close of all the terminal's
\* valid bars of its bucket and of no other, whichever ticks the library was not called on; and their
\* volume, if it was completed since the buffer was filled and the library was called in its last bar.
CompletedBars ==
    isBufferFull => \A k \in Completed : rates[k] # NoBar =>
        LET b == BucketAt(k) IN
        /\ NoVolume(rates[k]) = NoVolume(MergedBar(b))
        /\ (FirstOf(b).first > filled /\ SeenLater(LastOf(b))) => rates[k].volume = MergedBar(b).volume

\* Each bar is of a later bucket than the one before, and no bucket between them is left out, unless
\* the library was not called in the first bar of the bucket after it.
NoneLeftOut ==
    isBufferFull => \A k \in Completed : rates[k] # NoBar =>
        /\ BucketAt(k) < BucketAt(k + 1)
        /\ \A b \in Buckets : (BucketAt(k) < b /\ b < BucketAt(k + 1)) =>
              ~BegunInTime(Min({c \in Buckets : c > b}))

\* After a call the current bar covers all its ticks, and has their open, if the library was called
\* in its first bar and at the last tick of each; and their close, from the second bar on.
CurrentBar ==
    LET b == Bucket(Now.time) IN
    (/\ isBufferFull /\ IsValid(Now) /\ BegunInTime(b)
     /\ \A x \in BarsOf(b) : x.last \in calls \/ x.last <= filled)
    => /\ [rates[Size] EXCEPT !.volume = 0, !.close = 0] = [MergedBar(b) EXCEPT !.volume = 0, !.close = 0]
       /\ Cardinality(BarsOf(b)) > 1 => rates[Size].close = Now.last

=============================================================================
