-------------------------- MODULE MCStaticAllocRtos -------------------------
(* Instances of StaticAllocRtos for TLC.                                   *)
EXTENDS StaticAllocRtos, TLC

CONSTANTS t1, t2

TaskSymmetry == Permutations({t1, t2})
=============================================================================
