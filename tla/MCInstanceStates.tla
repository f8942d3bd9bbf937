-------------------------- MODULE MCInstanceStates --------------------------
(* Instances of InstanceStates for TLC. *)
EXTENDS InstanceStates, TLC

CONSTANTS a, b, c

\* Two live instances, one of them run on every tick.
MCLive      == {a, b}
MCEveryTick == {b}

MCPair   == {a, b}
MCOne    == {a}
MCNone   == {}
=============================================================================
