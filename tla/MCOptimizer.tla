---------------------------- MODULE MCOptimizer ----------------------------
(* Model values for the runs of Optimizer. *)
EXTENDS Optimizer

CONSTANTS r1, r2

TwoRunners == {r1, r2}
=============================================================================
