----------------------------- MODULE RatesWindow -----------------------------
(***************************************************************************)
(* One rates buffer of one strategy instance (AsirikuyCommon/src/          *)
(* ContiguousRatesCircBuf.c): WindowSize bars that move through a block of *)
(* WindowSize + Ext bars one place per new bar, so that the strategy       *)
(* always finds them contiguous, and are copied to the front when the      *)
(* extension is used up.  The caller is the conversion of the terminal's   *)
(* rates (convertRatesArray, convertCurrentMqlBar).                        *)
(*                                                                         *)
(* The six arrays of a buffer (time, open, high, low, close, volume) move  *)
(* together and are one array of bars here.  One thread uses a buffer.     *)
(***************************************************************************)
EXTENDS Integers

CONSTANTS
    BarValues,  \* the values a bar can have
    Zero,       \* the bar allocateRates fills the arrays with
    Garbage,    \* what malloc returns
    WindowSize, \* arraySize, the number of bars the strategy asked for
    Ext         \* gExtendedBufferSize, the bars a block has beyond WindowSize

ASSUME WindowAssumption ==
    /\ Zero \in BarValues
    /\ Garbage \notin BarValues
    /\ WindowSize \in Nat /\ WindowSize >= 2
    /\ Ext \in Nat /\ Ext >= 1      \* setExtendedBufferSize

VARIABLES
    heap,       \* the block of memory
    offset,     \* bufferOffsets[ratesIndex]: how far the pointer has moved into it
    pc,         \* where the conversion of a tick is
    oldOffset,  \* oldOffset of resetRatesOffset
    newIndex    \* newIndex of resetRatesOffset

windowVars == <<heap, offset, pc, oldOffset, newIndex>>

Block == 0..(WindowSize + Ext - 1)
Positions == 0..(WindowSize - 1)
Values == BarValues \cup {Garbage}

\* allocateRates: only the first WindowSize bars are cleared.
WindowInit ==
    /\ heap = [n \in Block |-> IF n \in Positions THEN Zero ELSE Garbage]
    /\ offset = 0
    /\ pc = "empty"
    /\ oldOffset = 0
    /\ newIndex = 0

\* The buffer is not full: fillEmptyRatesBuffer writes every bar.
FillEmptyRatesBuffer ==
    /\ pc = "empty"
    /\ \E bars \in [Positions -> BarValues] :
          heap' = [n \in Block |-> IF n \in Positions THEN bars[n] ELSE heap[n]]
    /\ pc' = "ready"
    /\ UNCHANGED <<offset, oldOffset, newIndex>>

\* A tick of the current bar: mergeBar into the newest bar.
MergeBar ==
    /\ pc = "ready"
    /\ \E b \in BarValues : heap' = [heap EXCEPT ![offset + WindowSize - 1] = b]
    /\ UNCHANGED <<offset, pc, oldOffset, newIndex>>

\* A new bar: incrementRatesOffset moves the pointer; at the end of the extension
\* resetRatesOffset moves it back and starts to copy.
IncrementRatesOffset_Late ==
    /\ pc = "ready"
    /\ IF offset < Ext
       THEN offset' = offset + 1 /\ pc' = "copy" /\ UNCHANGED <<oldOffset, newIndex>>
       ELSE offset' = 0 /\ pc' = "shift" /\ oldOffset' = offset + 1 /\ newIndex' = 0
    /\ UNCHANGED heap

IncrementRatesOffset ==
    /\ pc = "ready"
    /\ IF offset + 1 < Ext
       THEN offset' = offset + 1 /\ pc' = "copy" /\ UNCHANGED <<oldOffset, newIndex>>
       ELSE offset' = 0 /\ pc' = "shift" /\ oldOffset' = offset + 1 /\ newIndex' = 0
    /\ UNCHANGED heap

\* One turn of the copy loop of resetRatesOffset.
ShiftBar_Backwards ==
    /\ pc = "shift"
    /\ heap' = [heap EXCEPT ![WindowSize - 1 - newIndex] = heap[WindowSize - 1 - newIndex + oldOffset]]
    /\ newIndex' = newIndex + 1
    /\ pc' = IF newIndex + 1 = WindowSize THEN "copy" ELSE "shift"
    /\ UNCHANGED <<offset, oldOffset>>

ShiftBar ==
    /\ pc = "shift"
    /\ heap' = [heap EXCEPT ![newIndex] = heap[newIndex + oldOffset]]
    /\ newIndex' = newIndex + 1
    /\ pc' = IF newIndex + 1 = WindowSize THEN "copy" ELSE "shift"
    /\ UNCHANGED <<offset, oldOffset>>

\* copyBar writes the new bar in the place of the newest ...
CopyBar_ShortOfEnd ==
    /\ pc = "copy"
    /\ \E b \in BarValues : heap' = [heap EXCEPT ![offset + WindowSize - 2] = b]
    /\ pc' = "reprocess"
    /\ UNCHANGED <<offset, oldOffset, newIndex>>

CopyBar ==
    /\ pc = "copy"
    /\ \E b \in BarValues : heap' = [heap EXCEPT ![offset + WindowSize - 1] = b]
    /\ pc' = "reprocess"
    /\ UNCHANGED <<offset, oldOffset, newIndex>>

\* ... and reprocessConvertedBar builds the one before it again.
ReprocessConvertedBar ==
    /\ pc = "reprocess"
    /\ \E b \in BarValues : heap' = [heap EXCEPT ![offset + WindowSize - 2] = b]
    /\ pc' = "ready"
    /\ UNCHANGED <<offset, oldOffset, newIndex>>

WindowNext ==
    \/ FillEmptyRatesBuffer
    \/ MergeBar
    \/ IncrementRatesOffset
    \/ ShiftBar
    \/ CopyBar
    \/ ReprocessConvertedBar

WindowSpec == WindowInit /\ [][WindowNext]_windowVars

-----------------------------------------------------------------------------

WindowTypeOK ==
    /\ heap \in [Block -> Values]
    /\ offset \in 0..(Ext - 1)
    /\ pc \in {"empty", "ready", "shift", "copy", "reprocess"}
    /\ oldOffset \in 0..Ext
    /\ newIndex \in 0..WindowSize

\* What the pointers show: rates->time[n] and so on.  While the copy loop runs, the
\* bars it has not come to are still where they were.
View ==
    [n \in Positions |-> IF pc = "shift" /\ n >= newIndex THEN heap[n + oldOffset] ELSE heap[offset + n]]

(***************************************************************************)
(* Between ticks the strategy never sees memory that was not written: the  *)
(* place the moved pointer uncovers is filled before convertCurrentMqlBar  *)
(* returns, whether or not the bars were copied to the front.              *)
(***************************************************************************)
NoGarbageSeen == pc = "ready" => \A n \in Positions : View[n] # Garbage

(***************************************************************************)
(* The buffer is a sliding window: a new bar moves every bar one place,    *)
(* and the copy to the front, though source and destination overlap,       *)
(* changes nothing the strategy can read (resetRatesOffset).               *)
(***************************************************************************)
Window == INSTANCE SlidingWindow
    WITH window <- View, Size <- WindowSize, Bars <- BarValues
RefinesSlidingWindow == Window!Spec

=============================================================================
