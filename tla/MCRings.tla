------------------------------- MODULE MCRings -------------------------------
(* A behaviour uses one of the three ring buffers (which) and leaves the     *)
(* other two alone.  Every chunk of at most MaxLen bytes is written.         *)
EXTENDS Rings, SequencesExt

CONSTANT MaxLen

VARIABLE which

MCChunks == BoundedSeq(Byte, MaxLen)

ASSUME Nano!NanopbAssumption /\ Fixed!FixedAssumption

nano  == <<nbuf, nhead, ntail, nlast, thread, call>>
fixed == <<fbuf, fhead, ftail, full, flast, pop, filled>>

MCInit ==
  /\ Init /\ Nano!Init /\ Fixed!Init
  /\ which \in {"bytes", "nanopb", "fixed"}
MCNext ==
  /\ UNCHANGED which
  /\ \/ which = "bytes" /\ Next /\ UNCHANGED <<nano, fixed>>
     \/ which = "nanopb" /\ Nano!Next /\ UNCHANGED <<vars, fixed>>
     \/ which = "fixed" /\ Fixed!Next /\ UNCHANGED <<vars, nano>>
MCSpec == MCInit /\ [][MCNext]_<<which, vars, nano, fixed>>
=============================================================================
