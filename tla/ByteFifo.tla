------------------------------ MODULE ByteFifo ------------------------------
(***************************************************************************)
(* What ring_buffer promises: a bounded queue of bytes.  A write or a read *)
(* is whole or refused, and bytes come out in the order they went in.      *)
(***************************************************************************)
EXTENDS Integers, Sequences

CONSTANTS Size,   \* capacity
          Chunks  \* what may be written at once

VARIABLES queue,  \* bytes written and not yet read
          last    \* the last call, the bytes it moved, what it returned

vars == <<queue, last>>

Did(op, data, ok) == [op |-> op, data |-> data, ok |-> ok]

Init == queue = <<>> /\ last = Did("none", <<>>, TRUE)

Write(data) ==
  \/ /\ Len(queue) + Len(data) <= Size
     /\ queue' = queue \o data
     /\ last' = Did("write", data, TRUE)
  \/ /\ Len(queue) + Len(data) > Size
     /\ last' = Did("write", data, FALSE)
     /\ UNCHANGED queue

Read(n) ==
  \/ /\ n <= Len(queue)
     /\ queue' = SubSeq(queue, n + 1, Len(queue))
     /\ last' = Did("read", SubSeq(queue, 1, n), TRUE)
  \/ /\ n > Len(queue)
     /\ last' = Did("read", <<>>, FALSE)
     /\ UNCHANGED queue

Reset == queue' = <<>> /\ last' = Did("reset", <<>>, TRUE)

Next == \/ \E data \in Chunks : Write(data)
        \/ \E n \in 0 .. Size + 1 : Read(n)
        \/ Reset

Spec == Init /\ [][Next]_vars
=============================================================================
