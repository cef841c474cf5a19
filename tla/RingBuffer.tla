----------------------------- MODULE RingBuffer -----------------------------
(***************************************************************************)
(* ring_buffer.c: a byte buffer with the indexes head (next write) and     *)
(* tail (next read) and a counter of the bytes between them.  Copies that  *)
(* pass the end of the buffer are made in two fragments.                   *)
(***************************************************************************)
EXTENDS Integers, Sequences

CONSTANTS
  Size,    \* meta->size
  Byte,    \* values of a byte
  Zero,    \* what the memory holds at first
  Chunks   \* sequences of bytes the application or the DMA writes

Index == 0 .. Size - 1

ASSUME RingAssumption ==
  Size \in Nat \ {0} /\ Zero \in Byte /\ Chunks \subseteq Seq(Byte)

VARIABLES buf, head, tail, used,
          last   \* the last call, the bytes it moved, what it returned

vars == <<buf, head, tail, used, last>>

Did(op, data, ok) == [op |-> op, data |-> data, ok |-> ok]

\* ring_buffer_init()
Init ==
  /\ buf = [k \in Index |-> Zero]
  /\ head = 0 /\ tail = 0 /\ used = 0
  /\ last = Did("none", <<>>, TRUE)

\* ring_buffer_free()
FreeBytes == Size - used

\* Mutant: the second fragment starts from the data's beginning again.
CopyInTwice(data) ==
  LET remainder == Size - head
  IN  [k \in Index |->
         IF head <= k /\ k < head + Len(data) THEN data[k - head + 1]
         ELSE IF k < Len(data) - remainder THEN data[k + 1]
         ELSE buf[k]]

\* The memcpy()s of ring_buffer_write(): from head up, then from 0.
CopyIn(data) ==
  LET remainder == Size - head
  IN  [k \in Index |->
         IF head <= k /\ k < head + Len(data) THEN data[k - head + 1]
         ELSE IF k < Len(data) - remainder THEN data[k + remainder + 1]
         ELSE buf[k]]

Around(i) == i % Size

\* ring_buffer_write()
Write(data) ==
  /\ \/ /\ Len(data) <= FreeBytes
        /\ buf' = CopyIn(data)
        /\ head' = Around(head + Len(data))
        /\ used' = used + Len(data)
        /\ last' = Did("write", data, TRUE)
     \/ /\ Len(data) > FreeBytes
        /\ last' = Did("write", data, FALSE)
        /\ UNCHANGED <<buf, head, used>>
  /\ UNCHANGED tail

\* The memcpy()s of ring_buffer_read(): from tail up, then from 0.
CopyOut(n) ==
  LET tail_data_len == Size - tail
  IN  [i \in 1 .. n |-> IF i <= tail_data_len THEN buf[tail + i - 1]
                        ELSE buf[i - tail_data_len - 1]]

\* ring_buffer_read()
Read(n) ==
  /\ \/ /\ n <= used
        /\ tail' = Around(tail + n)
        /\ used' = used - n
        /\ last' = Did("read", CopyOut(n), TRUE)
     \/ /\ n > used
        /\ last' = Did("read", <<>>, FALSE)
        /\ UNCHANGED <<tail, used>>
  /\ UNCHANGED <<buf, head>>

\* A DMA has stored data behind head, wrapping as it goes, where there was
\* room; then ring_buffer_advance_head().
AdvanceHead(data) ==
  /\ Len(data) <= FreeBytes
  /\ buf' = [k \in Index |-> LET i == (k - head) % Size
                             IN  IF i < Len(data) THEN data[i + 1] ELSE buf[k]]
  /\ used' = used + Len(data)
  /\ head' = Around(head + Len(data))
  /\ last' = Did("write", data, TRUE)
  /\ UNCHANGED tail

\* Mutant: the indexes are reset, the counter is not.
ResetIndexes == head' = 0 /\ tail' = 0 /\ UNCHANGED used

ResetAll == head' = 0 /\ tail' = 0 /\ used' = 0

\* ring_buffer_reset()
Reset == ResetAll /\ last' = Did("reset", <<>>, TRUE) /\ UNCHANGED buf

Next == \/ \E data \in Chunks : Write(data) \/ AdvanceHead(data)
        \/ \E n \in 0 .. Size + 1 : Read(n)
        \/ Reset

Spec == Init /\ [][Next]_vars

-----------------------------------------------------------------------------
(* Properties.                                                             *)

TypeOK ==
  /\ buf \in [Index -> Byte]
  /\ head \in Index /\ tail \in Index /\ used \in 0 .. Size

\* Head is used bytes after tail: the two indexes and the counter, updated
\* apart by writer and reader, never disagree about what the buffer holds.
IndexesAgree == head = Around(tail + used)

\* The buffer is a bounded queue of bytes: nothing is lost, repeated,
\* reordered or overwritten, on any path around the end.
Contents == [i \in 1 .. used |-> buf[Around(tail + i - 1)]]
Fifo == INSTANCE ByteFifo WITH queue <- Contents
ImplementsFifo == Fifo!Spec
=============================================================================
