-------------------------------- MODULE Rings --------------------------------
(***************************************************************************)
(* The three ring buffers side by side: that of ring_buffer.c, the one of  *)
(* macros and the one behind nanopb's streams.  They share the sizes and   *)
(* the values of their items, and no memory.                               *)
(***************************************************************************)
EXTENDS RingBuffer

CONSTANT Rereads

VARIABLES nbuf, nhead, ntail, nlast, thread, call,
          fbuf, fhead, ftail, full, flast, pop, filled

Written == Chunks \ {<<>>}

Nano  == INSTANCE RingNanopb WITH buf <- nbuf, head <- nhead, tail <- ntail,
                                  last <- nlast, Chunks <- Written
Fixed == INSTANCE RingFixed WITH buffer <- fbuf, head <- fhead, tail <- ftail,
                                 last <- flast, Item <- Byte

\* ring_buffer_nanopb.c (:52, :21) and ring_buffer_fixed_size.h (:35, :48) are
\* bounded queues, with an interrupt on the other side; the second until an
\* interrupt fills it during a pop.
NanopbImplementsFifo == Nano!NanopbImplementsFifo
FixedImplementsFifo  == Fixed!FixedImplementsFifo
=============================================================================
