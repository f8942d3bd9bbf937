---------------------------- MODULE MCOptimizer ----------------------------
(* Instances of Optimizer for TLC. *)
EXTENDS Optimizer

MCStepCounts == {<<2, 2>>, <<1, 3, 1>>, <<2, 3>>, <<4, 4>>}
=============================================================================
