---------------------------- MODULE SlidingWindow ----------------------------
(***************************************************************************)
(* What the rates buffer of an instance promises to the strategy that      *)
(* reads it (TradingStrategies read Rates.time, open, ... as plain arrays  *)
(* of arraySize bars, the newest one last): the last Size bars, in order.  *)
(* A new bar drops the oldest and makes room for a value still to be       *)
(* written; only the newest two bars are ever written again.               *)
(***************************************************************************)
EXTENDS Integers

CONSTANTS
    Bars,      \* the values a bar can have
    Garbage,   \* the value of memory nobody has written
    Size       \* arraySize, the number of bars the strategy asked for

VARIABLE window

Shifts == 0..(Size - 1)
Values == Bars \cup {Garbage}

\* All bars are written.
Refill == window' \in [Shifts -> Bars]

\* The oldest bar goes, the place of the newest holds anything.
Advance ==
    \E v \in Values :
        window' = [n \in Shifts |-> IF n < Size - 1 THEN window[n + 1] ELSE v]

\* The newest bar, or the one before it, is written.
Amend ==
    \E n \in {Size - 2, Size - 1}, b \in Bars : window' = [window EXCEPT ![n] = b]

Init == window \in [Shifts -> Bars]
Next == Refill \/ Advance \/ Amend
Spec == Init /\ [][Next]_window

=============================================================================
