---------------------------- MODULE SharedMemory ----------------------------
(***************************************************************************)
(* What static_alloc promises: memory of N blocks out of which the         *)
(* application takes regions, shares each one by counted references, and   *)
(* gives it back with the last reference.  An allocation may place the     *)
(* region anywhere, and fails only when there is no room for it.           *)
(***************************************************************************)
EXTENDS Integers

CONSTANTS N,        \* number of blocks
          NULL,     \* not a block
          Counts,   \* numbers of blocks asked for
          MaxHeld   \* bound: references to one region

Blocks == 0 .. N - 1

VARIABLES regions,  \* first blocks of the regions in use
          length,   \* blocks of the region that begins at a block
          refs,     \* outstanding references to it
          answer    \* what the last allocation returned

vars == <<regions, length, refs, answer>>

Span(b) == b .. b + length[b] - 1
Taken   == UNION {Span(b) : b \in regions}
Room(n) == {b \in Blocks : b + n <= N /\ (b .. b + n - 1) \cap Taken = {}}

Init ==
  /\ regions = {}
  /\ length \in [Blocks -> Nat]
  /\ refs \in [Blocks -> Nat]
  /\ answer = NULL

Alloc(n) ==
  \E b \in Room(n) :
    /\ regions' = regions \cup {b}
    /\ length' = [length EXCEPT ![b] = n]
    /\ refs' = [refs EXCEPT ![b] = 1]
    /\ answer' = b

Refuse(n) ==
  /\ Room(n) = {}
  /\ answer' = NULL
  /\ UNCHANGED <<regions, length, refs>>

Copy(b) ==
  /\ b \in regions /\ refs[b] < MaxHeld
  /\ refs' = [refs EXCEPT ![b] = @ + 1]
  /\ UNCHANGED <<regions, length, answer>>

Free(b) ==
  /\ b \in regions
  /\ refs' = [refs EXCEPT ![b] = @ - 1]
  /\ regions' = IF refs[b] = 1 THEN regions \ {b} ELSE regions
  /\ UNCHANGED <<length, answer>>

Next ==
  \/ \E n \in Counts : Alloc(n) \/ Refuse(n)
  \/ \E b \in Blocks : Copy(b) \/ Free(b)

Spec == Init /\ [][Next]_vars
=============================================================================
