----------------------------- MODULE StaticAlloc ----------------------------
(***************************************************************************)
(* static_alloc.c: a bitmap of free blocks, and in front of every region a *)
(* header with its reference count and its number of blocks.  Each call is *)
(* one action here; StaticAllocRtos takes the calls apart.  A pointer is   *)
(* the index of the region's first block.                                  *)
(***************************************************************************)
EXTENDS Integers

CONSTANTS
  N,          \* _blocks_count
  Sizes,      \* sizes the application asks for, in bytes
  BlockSize,  \* STATIC_ALLOC_BLOCK_SIZE
  HeaderSize, \* sizeof(struct static_alloc_item)
  Word,       \* 2^32, the range of uint32_t
  MaxRef,     \* 65535, the largest uint16_t
  NULL,
  MaxHeld     \* bound: references the application takes to one region

Blocks == 0 .. N - 1

ASSUME AllocAssumption ==
  /\ N \in Nat \ {0} /\ Sizes \subseteq Nat
  /\ BlockSize \in Nat \ {0} /\ HeaderSize \in Nat /\ Word \in Nat \ {0}
  /\ MaxRef \in Nat \ {0} /\ MaxHeld \in Nat \ {0}
  /\ NULL \notin 0 .. N

VARIABLES
  free,         \* _blocks_status: the blocks whose bit is set
  refcount,     \* item->refcount, for the header at each block
  blocks_used,  \* item->blocks_used
  result,       \* what the last static_alloc_alloc() returned, for which size
  held          \* history: references the application holds to each block

vars == <<free, refcount, blocks_used, result, held>>

\* static_alloc_init().  One header further than the blocks: see Ends.
Init ==
  /\ free = Blocks
  /\ refcount = [b \in 0 .. N |-> 0]
  /\ blocks_used = [b \in 0 .. N |-> 0]
  /\ result = [size |-> 0, ptr |-> NULL]
  /\ held = [b \in 0 .. N |-> 0]

\* Mutant: the header is left out of the region.
BlocksWithoutHeader(size) == ((size + BlockSize - 1) % Word) \div BlockSize

\* blocks_required: two additions that wrap.
BlocksRequired(size) ==
  ((((size + HeaderSize) % Word) + BlockSize - 1) % Word) \div BlockSize

\* Mutant: used blocks do not end a run.
EndsAcrossUsed(n) == {i \in Blocks : n <= i + 1 /\ i \in free}

\* The blocks at which the search's count of consecutive free blocks equals
\* n: the last of n free ones, or, for n = 0, a block in use.
Ends(n) ==
  {i \in Blocks : IF n = 0 THEN i \notin free
                  ELSE n <= i + 1 /\ i - n + 1 .. i \subseteq free}

IsFirst(i, S) == i \in S /\ \A k \in S : i <= k

\* Mutant: the last block of the region keeps its bit.
MarkAllButLast(b, n) == free' = free \ (b .. b + n - 2)

MarkUsed(b, n) == free' = free \ (b .. b + n - 1)

\* Mutant: blocks_used counts one block more.
SetupOneMore(b, n) ==
  /\ blocks_used' = [blocks_used EXCEPT ![b] = n + 1]
  /\ refcount' = [refcount EXCEPT ![b] = 1]

\* Mutant: blocks_used is the index of the last block.
SetupLastIndex(b, n) ==
  /\ blocks_used' = [blocks_used EXCEPT ![b] = n - 1]
  /\ refcount' = [refcount EXCEPT ![b] = 1]

SetupHeader(b, n) ==
  /\ blocks_used' = [blocks_used EXCEPT ![b] = n]
  /\ refcount' = [refcount EXCEPT ![b] = 1]

Allocated(size, b, n) ==
  /\ MarkUsed(b, n)
  /\ SetupHeader(b, n)
  /\ result' = [size |-> size, ptr |-> b]
  /\ held' = [held EXCEPT ![b] = 1]

OutOfMemory(size, n) ==
  /\ Ends(n) = {}
  /\ result' = [size |-> size, ptr |-> NULL]
  /\ UNCHANGED <<free, refcount, blocks_used, held>>

\* static_alloc_alloc()
Alloc(size) ==
  LET n == BlocksRequired(size)
  IN  \/ \E i \in Blocks : IsFirst(i, Ends(n)) /\ Allocated(size, i - n + 1, n)
      \/ OutOfMemory(size, n)

\* static_alloc_copy()
Copy(b) ==
  /\ held[b] \in 1 .. MaxHeld - 1
  /\ refcount' = [refcount EXCEPT ![b] = IF @ = MaxRef THEN 0 ELSE @ + 1]
  /\ held' = [held EXCEPT ![b] = @ + 1]
  /\ UNCHANGED <<free, blocks_used, result>>

\* Mutant: the count is tested before it is decremented.
StaleCount(b) == refcount[b]

\* refcount after the guarded decrement of static_alloc_free().
Decremented(b) == IF refcount[b] > 0 THEN refcount[b] - 1 ELSE 0

\* static_alloc_free()
Free(b) ==
  /\ held[b] > 0
  /\ refcount' = [refcount EXCEPT ![b] = Decremented(b)]
  /\ free' = IF Decremented(b) = 0
             THEN free \cup (b .. b + blocks_used[b] - 1) ELSE free
  /\ held' = [held EXCEPT ![b] = @ - 1]
  /\ UNCHANGED <<blocks_used, result>>

Next ==
  \/ \E size \in Sizes : Alloc(size)
  \/ \E b \in Blocks : Copy(b) \/ Free(b)

Spec == Init /\ [][Next]_vars

-----------------------------------------------------------------------------
(* Properties, for sizes that do not wrap and counts that do not overflow. *)

SizesFit == \A size \in Sizes : BlocksRequired(size) \in Nat \ {0}
Legal    == SizesFit /\ MaxHeld <= MaxRef

Live    == {b \in Blocks : held[b] > 0}
Span(b) == b .. b + blocks_used[b] - 1

TypeOK ==
  /\ free \subseteq Blocks
  /\ refcount \in [0 .. N -> 0 .. MaxRef]
  /\ blocks_used \in [0 .. N -> Nat]
  /\ result \in [size : Sizes \cup {0}, ptr : Blocks \cup {NULL}]
  /\ held \in [0 .. N -> 0 .. MaxHeld]

\* The count in the header of every region in use is the number of
\* references the application holds.
RefcountExact == \A b \in Live : refcount[b] = held[b]

\* A region in use has a block, lies inside the buffer and shares no block
\* with another, through any history of splits and reuse.
RegionsDisjoint ==
  /\ \A b \in Live : blocks_used[b] > 0 /\ Span(b) \subseteq Blocks
  /\ \A a, b \in Live : a # b => Span(a) \cap Span(b) = {}

\* The bitmap says free of exactly the blocks of no region: nothing in use is
\* handed out again and nothing given back is lost.
BitmapExact == free = Blocks \ UNION {Span(b) : b \in Live}

\* The region returned holds the header and all the bytes asked for.
RegionFitsRequest ==
  (result.ptr # NULL /\ held[result.ptr] > 0) =>
    blocks_used[result.ptr] * BlockSize >= result.size + HeaderSize

\* static_alloc implements the memory of counted regions; in particular an
\* allocation fails only if no place is left between the regions in use.
Memory == INSTANCE SharedMemory
            WITH Counts  <- {BlocksRequired(size) : size \in Sizes},
                 regions <- Live,
                 length  <- [b \in Blocks |-> blocks_used[b]],
                 refs    <- [b \in Blocks |-> refcount[b]],
                 answer  <- result.ptr
ImplementsMemory == Memory!Spec
=============================================================================
