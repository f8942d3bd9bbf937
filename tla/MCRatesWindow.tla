---------------------------- MODULE MCRatesWindow ----------------------------
(* Instance of RatesWindow for TLC: an extension shorter than the window, so  *)
(* that the copy to the front overlaps.                                       *)
EXTENDS RatesWindow, TLC

CONSTANTS zero, x, y

MCBars == {zero, x, y}
=============================================================================
