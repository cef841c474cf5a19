----------------------------- MODULE MCLoraLink -----------------------------
(* Instances of LoraLink for TLC: payloads of one and two bytes and a FIFO *)
(* of four, so that packets overlap, wrap around and differ in length.     *)
EXTENDS LoraLink

CONSTANTS m1, m2, p1, p2

MCLength == [p \in Payloads |-> IF p \in {m1, p2} THEN 1 ELSE 2]
=============================================================================
