---------------------------- MODULE MCStaticAlloc ---------------------------
(* Instances of StaticAlloc for TLC.                                       *)
EXTENDS StaticAlloc
=============================================================================
