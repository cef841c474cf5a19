------------------------------ MODULE RingFixed ------------------------------
(***************************************************************************)
(* ring_buffer_fixed_size.h: a ring of items made of macros.  The push     *)
(* macros run in an interrupt that tests RING_BUFFER_FULL first; a thread  *)
(* that finds the ring not empty pops, in two stores, and then uses the    *)
(* item through the pointer RING_BUFFER_POP returned.  The interrupt may   *)
(* come before each of these steps, any number of times.  head and tail    *)
(* point at the item pushed and popped last.                               *)
(***************************************************************************)
EXTENDS Integers, Sequences

CONSTANTS Size, Item, Zero

Index   == 0 .. Size - 1
Singles == {<<i>> : i \in Item}

FixedAssumption == Size \in Nat /\ Size >= 2 /\ Zero \in Item

VARIABLES buffer, head, tail, full, last,
          pop,    \* what the thread does next: nothing, the second store of a
                  \* pop ("clear") or to use the item ("use")
          filled  \* an interrupt filled the ring during a pop
vars == <<buffer, head, tail, full, last, pop, filled>>

Did(op, data, ok) == [op |-> op, data |-> data, ok |-> ok]

Init ==
  /\ buffer = [k \in Index |-> Zero] /\ head = 0 /\ tail = 0 /\ full = FALSE
  /\ last = Did("none", <<>>, TRUE) /\ pop = "none" /\ filled = FALSE

NextOf(i) == (i + 1) % Size
Empty     == ~full /\ head = tail

PushCopy(item) ==
  /\ ~full
  /\ head' = NextOf(head)
  /\ buffer' = [buffer EXCEPT ![NextOf(head)] = item]
  /\ full' = (NextOf(head) = tail)
  /\ filled' = (filled \/ (pop # "none" /\ NextOf(head) = tail))
  /\ last' = Did("write", <<item>>, TRUE)
  /\ UNCHANGED <<tail, pop>>

PopTail ==
  /\ pop = "none" /\ ~Empty /\ pop' = "clear"
  /\ tail' = NextOf(tail)
  /\ UNCHANGED <<buffer, head, full, last, filled>>

PopKeepsFull ==  \* a mutant: full is not cleared
  /\ pop = "clear" /\ pop' = "use"
  /\ UNCHANGED <<buffer, head, tail, full, last, filled>>

PopFull ==
  /\ pop = "clear" /\ pop' = "use"
  /\ full' = FALSE
  /\ UNCHANGED <<buffer, head, tail, last, filled>>

Use ==
  /\ pop = "use" /\ pop' = "none"
  /\ last' = Did("read", <<buffer[tail]>>, TRUE)
  /\ UNCHANGED <<buffer, head, tail, full, filled>>

Next == (\E item \in Item : PushCopy(item)) \/ PopTail \/ PopFull \/ Use

Spec == Init /\ [][Next]_vars

-----------------------------------------------------------------------------
TypeOK ==
  /\ buffer \in [Index -> Item] /\ head \in Index /\ tail \in Index
  /\ full \in BOOLEAN /\ filled \in BOOLEAN
  /\ pop \in {"none", "clear", "use"}

\* An item stays in the queue until it was used, though tail has moved on.
Before   == IF pop = "none" THEN tail ELSE (tail - 1) % Size
Count    == IF head = Before /\ (full \/ pop # "none")
            THEN Size ELSE (head - Before) % Size
Contents == [i \in 1 .. Count |-> buffer[(Before + i) % Size]]

\* The ring is a bounded queue of items although full is set by the interrupt
\* and cleared by the thread (:35, :48): a full ring never looks empty, and
\* the item a pop returned is still there when it is used.  That lasts until
\* pushes fill the ring during a pop, which no macro prevents: between the two
\* stores of the pop the full they set is lost, and before the item is used
\* they have overwritten it.
Fifo == INSTANCE ByteFifo WITH queue <- Contents, Chunks <- Singles
FixedImplementsFifo ==
  Fifo!Init /\ [][filled' \/ Fifo!Next]_(Fifo!vars)
=============================================================================
