------------------------- MODULE MCRatesConversion -------------------------
(* Instances of RatesConversion for TLC. *)
EXTENDS RatesConversion

\* All histories of ArraySize bars that begin in one of two places, with at most one time missing.
MCHistories ==
    {[n \in 1..ArraySize |-> IF n < gap THEN start + n ELSE start + n + 1] :
        start \in {0, 1}, gap \in {5, ArraySize + 1}}
=============================================================================
