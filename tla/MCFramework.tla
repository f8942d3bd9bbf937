---------------------------- MODULE MCFramework ----------------------------
(* Instances of Framework for TLC. *)
EXTENDS Framework, TLC

CONSTANTS a, b, c

MCCharts == {a, b}
MCTester == {c}
MCAll == {a, b, c}
=============================================================================
