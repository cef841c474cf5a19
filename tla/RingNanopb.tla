----------------------------- MODULE RingNanopb -----------------------------
(***************************************************************************)
(* ring_buffer_nanopb.c: the ring behind nanopb's streams.  It has two     *)
(* indexes and no counter, so that one side writes head only and the other *)
(* side tail only.  A thread encodes into it or decodes from it; the       *)
(* interrupt of a DMA that moves the bytes on the other side may run       *)
(* between any two steps of a callback.  An exactly full ring looks empty, *)
(* so the writer never fills it: see Leaves.                               *)
(***************************************************************************)
EXTENDS Integers, Sequences

CONSTANTS
  Size,    \* meta->size
  Byte, Zero,
  Chunks,  \* what one callback or one transfer writes
  Rereads  \* pb_ring_buffer_metadata_used() loads an index anew for the
           \* subtraction, after it compared it

Index == 0 .. Size - 1

NanopbAssumption ==
  /\ Size \in Nat \ {0} /\ Zero \in Byte /\ Chunks \subseteq Seq(Byte) \ {<<>>}
  /\ Rereads \in BOOLEAN

VARIABLES buf, head, tail, last,
          thread,  \* what the thread's callbacks do: "writes" or "reads"
          call     \* the callback in progress
vars == <<buf, head, tail, last, thread, call>>

Did(op, data, ok) == [op |-> op, data |-> data, ok |-> ok]
NoCall == [pc |-> "none", data |-> <<>>, n |-> 0, over |-> FALSE]

Init ==
  /\ buf = [k \in Index |-> Zero] /\ head = 0 /\ tail = 0
  /\ last = Did("none", <<>>, TRUE)
  /\ thread \in {"writes", "reads"} /\ call = NoCall

Around(i)   == i % Size
HeadMinusTail(over) == head - tail  \* a mutant: no roll-over
\* pb_ring_buffer_metadata_used(), its comparison made when over was.
UsedIf(over) == IF over THEN Size - tail + head ELSE head - tail
RolledOver  == head < tail
Used        == UsedIf(RolledOver)
Put(data)   == [k \in Index |-> LET i == Around(k - head)
                                IN  IF i < Len(data) THEN data[i + 1] ELSE buf[k]]
Get(n)      == [i \in 1 .. n |-> buf[Around(tail + i - 1)]]

\* In C the difference is unsigned: a negative one is more than any size.
NotMore(n, bytes) == bytes < 0 \/ n <= bytes

-----------------------------------------------------------------------------
(* The thread's callbacks.                                                 *)

\* No write happens to fill the ring exactly.  Nothing in the code sees to
\* it: it is up to the sizes the application uses.
Leaves(n) == n # Size - Used

Begin(role, data, n) ==
  /\ thread = role /\ call.pc = "none"
  /\ call' = [pc |-> "check", data |-> data, n |-> n, over |-> RolledOver]
  /\ UNCHANGED <<buf, head, tail, last, thread>>

BeginWrite(data) == Begin("writes", data, Len(data))
BeginRead(n)     == Begin("reads", <<>>, n)

InUse   == UsedIf(IF Rereads THEN call.over ELSE RolledOver)
Allowed == IF thread = "writes" THEN NotMore(call.n, Size - InUse)
                                ELSE NotMore(call.n, InUse)
Checked ==
  /\ call.pc = "check" /\ UNCHANGED <<buf, head, tail, thread>>
  /\ thread = "writes" => Leaves(call.n)
  /\ \/ Allowed /\ call' = [call EXCEPT !.pc = "copy"] /\ UNCHANGED last
     \/ /\ ~Allowed /\ call' = NoCall
        /\ last' = IF thread = "writes" THEN Did("write", call.data, FALSE)
                                        ELSE Did("read", <<>>, FALSE)

CopyIn ==
  /\ call.pc = "copy" /\ thread = "writes"
  /\ buf' = Put(call.data) /\ call' = [call EXCEPT !.pc = "advance"]
  /\ UNCHANGED <<head, tail, last, thread>>

CopyOut ==
  /\ call.pc = "copy" /\ thread = "reads"
  /\ call' = [call EXCEPT !.pc = "advance", !.data = Get(call.n)]
  /\ UNCHANGED <<buf, head, tail, last, thread>>

Advance ==
  /\ call.pc = "advance" /\ call' = NoCall
  /\ IF thread = "writes"
     THEN head' = Around(head + call.n) /\ UNCHANGED tail
     ELSE tail' = Around(tail + call.n) /\ UNCHANGED head
  /\ last' = Did(IF thread = "writes" THEN "write" ELSE "read", call.data, TRUE)
  /\ UNCHANGED <<buf, thread>>

-----------------------------------------------------------------------------
(* The interrupt on the other side: a DMA took bytes from the ring, or put  *)
(* bytes where there was room; then it moves tail or head.                 *)

AdvanceTail(n) ==
  /\ thread = "writes" /\ n <= Used
  /\ tail' = Around(tail + n) /\ last' = Did("read", Get(n), TRUE)
  /\ UNCHANGED <<buf, head, thread, call>>

AdvanceHead(data) ==
  /\ thread = "reads" /\ Leaves(Len(data)) /\ Len(data) <= Size - Used
  /\ buf' = Put(data) /\ head' = Around(head + Len(data))
  /\ last' = Did("write", data, TRUE)
  /\ UNCHANGED <<tail, thread, call>>

Next ==
  \/ \E data \in Chunks : BeginWrite(data) \/ AdvanceHead(data)
  \/ \E n \in 1 .. Size : BeginRead(n) \/ AdvanceTail(n)
  \/ Checked \/ CopyIn \/ CopyOut \/ Advance

Spec == Init /\ [][Next]_vars

-----------------------------------------------------------------------------
TypeOK ==
  /\ buf \in [Index -> Byte] /\ head \in Index /\ tail \in Index
  /\ call.pc \in {"none", "check", "copy", "advance"} /\ call.n \in 0 .. Size

\* Without a lock, and with an interrupt between any two steps of a callback,
\* the ring is a bounded queue: a callback's answer is right when it is given,
\* and no byte is read before it is stored or overwritten before it is read
\* (pb_ostream_write_callback :52, pb_istream_read_callback :21).
Fifo == INSTANCE ByteFifo WITH queue <- Get(Used)
NanopbImplementsFifo == Fifo!Spec
=============================================================================
