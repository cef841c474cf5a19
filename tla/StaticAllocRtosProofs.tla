----------------------- MODULE StaticAllocRtosProofs ------------------------
(***************************************************************************)
(* The allocator keeps its regions, its counts and its bitmap consistent,  *)
(* and implements SharedMemory, for any number of blocks and any sizes, as *)
(* long as the application is Legal: no size wraps, no count overflows.    *)
(* It is task safe for any number of tasks, as long as no size wraps and   *)
(* static_alloc_copy(), the one call without the mutex, works on a region  *)
(* of which no other task knows.                                           *)
(***************************************************************************)
EXTENDS StaticAllocRtos, FiniteSetTheorems, TLAPS

USE AllocAssumption DEF AllocAssumption

\* References are held to blocks only, not to the header past the last one.
HeldInside == held[N] = 0

IInv == TypeOK /\ HeldInside /\ RefcountExact /\ RegionsDisjoint /\ BitmapExact

\* The blocks an allocation takes exist and are free.
LEMMA RunIsFree ==
  ASSUME free \subseteq Blocks, NEW n \in Nat \ {0}, NEW i \in Blocks, i \in Ends(n)
  PROVE  /\ i - n + 1 \in Blocks
         /\ i - n + 1 .. (i - n + 1) + n - 1 \subseteq free
         /\ i - n + 1 .. (i - n + 1) + n - 1 \subseteq Blocks
  BY DEF Ends, Blocks

\* The blocks of a region in use are not free.
LEMMA LiveNotFree ==
  ASSUME IInv, NEW b \in Live
  PROVE  b \in Span(b) /\ b \notin free /\ Span(b) \cap free = {}
<1>1. b \in Blocks /\ blocks_used[b] \in Nat /\ blocks_used[b] > 0
  BY DEF IInv, RegionsDisjoint, Live, TypeOK, Blocks
<1>2. b \in Span(b)
  BY <1>1 DEF Span, Blocks
<1>3. Span(b) \cap free = {}
  BY DEF IInv, BitmapExact
<1>. QED  BY <1>2, <1>3

LEMMA InitInv == Init => IInv
<1>. SUFFICES ASSUME Init PROVE IInv
  OBVIOUS
<1>1. Live = {}
  BY DEF Init, Live, Blocks
<1>2. TypeOK /\ HeldInside
  BY DEF Init, TypeOK, HeldInside, Blocks
<1>. QED  BY <1>1, <1>2 DEF IInv, RefcountExact, RegionsDisjoint, BitmapExact, Init

-----------------------------------------------------------------------------
(* A successful allocation adds the region at b to those in use, and       *)
(* changes no other.                                                       *)

LEMMA AllocatedInv ==
  ASSUME IInv, Legal, NEW size \in Sizes, NEW i \in Blocks,
         i \in Ends(BlocksRequired(size)),
         Allocated(size, i - BlocksRequired(size) + 1, BlocksRequired(size))
  PROVE  IInv'
<1>. DEFINE n == BlocksRequired(size)
            b == i - n + 1
            region == b .. b + n - 1
<1>1. n \in Nat \ {0}
  BY DEF Legal, SizesFit
<1>2. b \in Blocks /\ region \subseteq free /\ region \subseteq Blocks
  BY <1>1, RunIsFree DEF IInv, TypeOK
<1>3. /\ free' = free \ region
      /\ blocks_used' = [blocks_used EXCEPT ![b] = n]
      /\ refcount' = [refcount EXCEPT ![b] = 1]
      /\ held' = [held EXCEPT ![b] = 1]
      /\ result' = [size |-> size, ptr |-> b]
  BY DEF Allocated, MarkUsed, SetupHeader
<1>. HIDE DEF n, b, region
<1>4. b \in region
  BY <1>1, <1>2 DEF region, Blocks
<1>5. b \notin Live
  BY <1>2, <1>4, LiveNotFree
<1>0. TypeOK /\ HeldInside /\ RefcountExact /\ RegionsDisjoint /\ BitmapExact
  BY DEF IInv
<1>6. /\ b \in 0 .. N /\ b # N /\ Live \subseteq 0 .. N
      /\ blocks_used'[b] = n /\ refcount'[b] = 1 /\ held'[b] = 1
      /\ \A a \in 0 .. N : a # b =>
            /\ blocks_used'[a] = blocks_used[a]
            /\ refcount'[a] = refcount[a] /\ held'[a] = held[a]
  <2>1. b \in 0 .. N /\ b # N /\ Live \subseteq 0 .. N
    BY <1>2 DEF Blocks, Live
  <2>2. /\ blocks_used'[b] = n
        /\ \A a \in 0 .. N : a # b => blocks_used'[a] = blocks_used[a]
    BY <1>0, <1>3, <2>1 DEF TypeOK
  <2>3. /\ refcount'[b] = 1
        /\ \A a \in 0 .. N : a # b => refcount'[a] = refcount[a]
    BY <1>0, <1>3, <2>1 DEF TypeOK
  <2>4. held'[b] = 1 /\ \A a \in 0 .. N : a # b => held'[a] = held[a]
    BY <1>0, <1>3, <2>1 DEF TypeOK
  <2>. QED  BY <2>1, <2>2, <2>3, <2>4
<1>7. TypeOK' /\ HeldInside'
  <2>1. free' \subseteq Blocks
    BY <1>0, <1>3 DEF TypeOK
  <2>2. blocks_used' \in [0 .. N -> Nat] /\ refcount' \in [0 .. N -> 0 .. MaxRef]
    BY <1>0, <1>1, <1>3, <1>6 DEF TypeOK
  <2>3. held' \in [0 .. N -> 0 .. MaxHeld]
    BY <1>0, <1>3, <1>6 DEF TypeOK
  <2>4. result' \in [size : Sizes \cup {0}, ptr : Blocks \cup {NULL}]
    BY <1>2, <1>3
  <2>5. HeldInside'
    BY <1>0, <1>6 DEF HeldInside
  <2>. QED  BY <2>1, <2>2, <2>3, <2>4, <2>5 DEF TypeOK
<1>8. Live' = Live \cup {b}
  BY <1>2, <1>6 DEF Live, Blocks
<1>9. /\ Span(b)' = region
      /\ \A a \in Live : Span(a)' = Span(a)
  BY <1>5, <1>6 DEF Span, region
<1>10. RefcountExact'
  BY <1>0, <1>5, <1>6, <1>8 DEF RefcountExact
<1>11. \A a \in Live : Span(a) \cap region = {}
  BY <1>2, LiveNotFree
<1>12. RegionsDisjoint'
  <2>1. blocks_used'[b] > 0 /\ Span(b)' \subseteq Blocks
    BY <1>1, <1>2, <1>6, <1>9
  <2>2. \A a \in Live : blocks_used'[a] > 0 /\ Span(a)' \subseteq Blocks
    BY <1>0, <1>5, <1>6, <1>9 DEF RegionsDisjoint
  <2>3. \A a, c \in Live' : a # c => Span(a)' \cap Span(c)' = {}
    BY <1>0, <1>8, <1>9, <1>11 DEF RegionsDisjoint
  <2>. QED  BY <1>8, <2>1, <2>2, <2>3 DEF RegionsDisjoint
<1>13. BitmapExact'
  BY <1>0, <1>2, <1>3, <1>8, <1>9 DEF BitmapExact
<1>. QED  BY <1>7, <1>10, <1>12, <1>13 DEF IInv

\* A failed allocation changes nothing but the result.
LEMMA OutOfMemoryInv ==
  ASSUME IInv, NEW size \in Sizes, NEW n, OutOfMemory(size, n)
  PROVE  IInv'
<1>0. TypeOK /\ HeldInside /\ RefcountExact /\ RegionsDisjoint /\ BitmapExact
  BY DEF IInv
<1>1. Live' = Live /\ \A b \in Live : Span(b)' = Span(b)
  BY DEF OutOfMemory, Live, Span
<1>2. TypeOK' /\ HeldInside' /\ RefcountExact'
  BY <1>0, <1>1 DEF OutOfMemory, TypeOK, HeldInside, RefcountExact
<1>3. RegionsDisjoint' /\ BitmapExact'
  BY <1>0, <1>1 DEF OutOfMemory, RegionsDisjoint, BitmapExact
<1>. QED  BY <1>2, <1>3 DEF IInv

-----------------------------------------------------------------------------
(* Copy and Free work on the header of a region in use.                    *)

LEMMA CopyInv ==
  ASSUME IInv, Legal, NEW b \in Blocks, Copy(b)
  PROVE  IInv'
<1>1. /\ held' = [held EXCEPT ![b] = @ + 1] /\ held[b] > 0
      /\ held[b] < MaxHeld
      /\ UNCHANGED <<free, blocks_used, result>>
  BY DEF Copy, IInv, TypeOK
<1>2. refcount[b] = held[b] /\ refcount[b] # MaxRef
  BY <1>1 DEF IInv, RefcountExact, Live, Legal, TypeOK
<1>3. refcount' = [refcount EXCEPT ![b] = @ + 1]
  BY <1>2 DEF Copy, IInv, TypeOK, Blocks
<1>0. TypeOK /\ HeldInside /\ RefcountExact /\ RegionsDisjoint /\ BitmapExact
  BY DEF IInv
<1>4. /\ b \in 0 .. N /\ b # N
      /\ refcount[b] + 1 \in 0 .. MaxRef /\ held[b] + 1 \in 0 .. MaxHeld
      /\ refcount'[b] = refcount[b] + 1 /\ held'[b] = held[b] + 1
      /\ \A a \in 0 .. N : a # b =>
            refcount'[a] = refcount[a] /\ held'[a] = held[a]
  BY <1>0, <1>1, <1>2, <1>3 DEF TypeOK, Blocks, Legal
<1>5. TypeOK' /\ HeldInside'
  <2>1. refcount' \in [0 .. N -> 0 .. MaxRef] /\ held' \in [0 .. N -> 0 .. MaxHeld]
    BY <1>0, <1>1, <1>3, <1>4 DEF TypeOK
  <2>2. HeldInside'
    BY <1>0, <1>4 DEF HeldInside
  <2>. QED  BY <1>0, <1>1, <2>1, <2>2 DEF TypeOK
<1>6. Live' = Live
  <2>1. \A a \in Blocks : a # b => held'[a] = held[a]
    BY <1>4 DEF Blocks
  <2>2. held[b] \in Nat /\ held'[b] > 0
    BY <1>0, <1>1, <1>4 DEF TypeOK
  <2>. QED  BY <1>1, <2>1, <2>2 DEF Live
<1>7. RefcountExact'
  BY <1>0, <1>2, <1>4, <1>6 DEF RefcountExact, Live, Blocks
<1>8. RegionsDisjoint' /\ BitmapExact'
  BY <1>0, <1>1, <1>6 DEF RegionsDisjoint, BitmapExact, Span
<1>. QED  BY <1>5, <1>7, <1>8 DEF IInv

LEMMA FreeInv ==
  ASSUME IInv, NEW b \in Blocks, Free(b)
  PROVE  IInv'
<1>1. /\ b \in Live
      /\ held' = [held EXCEPT ![b] = @ - 1]
      /\ UNCHANGED <<blocks_used, result>>
  BY DEF Free, Live
<1>2. refcount[b] = held[b] /\ held[b] \in Nat /\ held[b] > 0
  BY <1>1 DEF IInv, RefcountExact, Live, TypeOK, Blocks
<1>3. /\ refcount' = [refcount EXCEPT ![b] = held[b] - 1]
      /\ free' = IF held[b] = 1 THEN free \cup Span(b) ELSE free
  <2>1. Decremented(b) = held[b] - 1
    BY <1>2 DEF Decremented
  <2>2. Decremented(b) = 0 <=> held[b] = 1
    BY <1>2, <2>1
  <2>. QED  BY <2>1, <2>2 DEF Free, Span
<1>4. Span(b) \subseteq Blocks
  BY <1>1 DEF IInv, RegionsDisjoint
<1>0. TypeOK /\ HeldInside /\ RefcountExact /\ RegionsDisjoint /\ BitmapExact
  BY DEF IInv
<1>5. /\ b \in 0 .. N /\ b # N
      /\ held[b] - 1 \in 0 .. MaxRef /\ held[b] - 1 \in 0 .. MaxHeld
      /\ refcount'[b] = held[b] - 1 /\ held'[b] = held[b] - 1
      /\ \A a \in 0 .. N : a # b =>
            refcount'[a] = refcount[a] /\ held'[a] = held[a]
  BY <1>0, <1>1, <1>2, <1>3 DEF TypeOK, Blocks
<1>6. TypeOK' /\ HeldInside'
  <2>1. refcount' \in [0 .. N -> 0 .. MaxRef] /\ held' \in [0 .. N -> 0 .. MaxHeld]
    BY <1>0, <1>1, <1>3, <1>5 DEF TypeOK
  <2>2. free' \subseteq Blocks
    BY <1>0, <1>3, <1>4 DEF TypeOK
  <2>3. HeldInside'
    BY <1>0, <1>5 DEF HeldInside
  <2>. QED  BY <1>0, <1>1, <2>1, <2>2, <2>3 DEF TypeOK
<1>7. /\ Live' = IF held[b] = 1 THEN Live \ {b} ELSE Live
      /\ \A a \in Live : Span(a)' = Span(a)
  BY <1>1, <1>2, <1>5 DEF Live, Blocks, Span
<1>8. RefcountExact'
  BY <1>0, <1>2, <1>5, <1>7 DEF RefcountExact, Live, Blocks
<1>9. RegionsDisjoint'
  BY <1>0, <1>1, <1>7 DEF RegionsDisjoint
<1>10. BitmapExact'
  <2>1. CASE held[b] = 1
    <3>1. \A a \in Live : a # b => Span(a) \cap Span(b) = {}
      BY <1>0, <1>1 DEF RegionsDisjoint
    <3>. QED  BY <1>0, <2>1, <1>1, <1>3, <1>4, <1>7, <3>1 DEF BitmapExact
  <2>2. CASE held[b] # 1
    BY <1>0, <2>2, <1>3, <1>7 DEF BitmapExact
  <2>. QED  BY <2>1, <2>2
<1>. QED  BY <1>6, <1>8, <1>9, <1>10 DEF IInv

LEMMA NextInv ==
  ASSUME Legal, IInv, [Next]_vars
  PROVE  IInv'
<1>1. ASSUME NEW size \in Sizes, Alloc(size) PROVE IInv'
  BY <1>1, AllocatedInv, OutOfMemoryInv DEF Alloc, IsFirst
<1>2. CASE UNCHANGED vars
  <2>1. Live' = Live /\ \A b \in Live : Span(b)' = Span(b)
    BY <1>2 DEF vars, Live, Span
  <2>2. TypeOK' /\ HeldInside' /\ RefcountExact' /\ BitmapExact'
    BY <1>2, <2>1 DEF vars, IInv, TypeOK, HeldInside, RefcountExact, BitmapExact
  <2>3. RegionsDisjoint'
    BY <1>2, <2>1 DEF vars, IInv, RegionsDisjoint
  <2>. QED  BY <2>2, <2>3 DEF IInv
<1>. QED  BY <1>1, <1>2, CopyInv, FreeInv DEF Next

\* The allocator keeps its type, the count of every region equals the
\* references held, regions in use are disjoint, and the bitmap is their
\* complement: static_alloc_alloc/copy/free in any order.
THEOREM AllocatorCorrect ==
  ASSUME Legal
  PROVE  Spec => [](TypeOK /\ RefcountExact /\ RegionsDisjoint /\ BitmapExact)
<1>1. IInv /\ [Next]_vars => IInv'
  BY NextInv
<1>2. IInv => TypeOK /\ RefcountExact /\ RegionsDisjoint /\ BitmapExact
  BY DEF IInv
<1>. QED  BY <1>1, <1>2, InitInv, PTL DEF Spec

\* The same, property by property.
THEOREM AllocTypeCorrect ==
  ASSUME Legal
  PROVE  Spec => []TypeOK
BY AllocatorCorrect, PTL

\* A region's count is the number of references held: no free is lost, none
\* counts twice (static_alloc_copy, static_alloc_free).
THEOREM CountsExact ==
  ASSUME Legal
  PROVE  Spec => []RefcountExact
BY AllocatorCorrect, PTL

\* Regions in use share no block, headers included.
THEOREM RegionsApart ==
  ASSUME Legal
  PROVE  Spec => []RegionsDisjoint
BY AllocatorCorrect, PTL

-----------------------------------------------------------------------------
(* A region holds what it was allocated for.                               *)

\* No addition of static_alloc_alloc() wraps.
SizesDoNotWrap ==
  \A size \in Sizes : size + HeaderSize + BlockSize - 1 < Word

LEMMA EnoughBlocks ==
  ASSUME SizesDoNotWrap, NEW size \in Sizes
  PROVE  BlocksRequired(size) * BlockSize >= size + HeaderSize
<1>. DEFINE x == size + HeaderSize + BlockSize - 1
<1>1. /\ size \in Nat /\ HeaderSize \in Nat /\ BlockSize \in Nat \ {0}
      /\ Word \in Nat \ {0} /\ x \in Nat /\ x < Word
  BY DEF SizesDoNotWrap
<1>2. BlocksRequired(size) = x \div BlockSize
  <2>1. (size + HeaderSize) % Word = size + HeaderSize
    BY <1>1
  <2>2. x % Word = x
    BY <1>1
  <2>. QED  BY <1>1, <2>1, <2>2 DEF BlocksRequired
<1>3. x = BlockSize * (x \div BlockSize) + (x % BlockSize)
      /\ x % BlockSize <= BlockSize - 1 /\ x \div BlockSize \in Int
  BY <1>1
<1>4. (x \div BlockSize) * BlockSize = BlockSize * (x \div BlockSize)
  BY <1>1, <1>3
<1>. QED  BY <1>1, <1>2, <1>3, <1>4

LEMMA FitsNext ==
  ASSUME Legal, SizesDoNotWrap, IInv, RegionFitsRequest, [Next]_vars
  PROVE  RegionFitsRequest'
<1>0. TypeOK /\ NULL \notin 0 .. N
  BY DEF IInv
<1>1. ASSUME NEW size \in Sizes, NEW i \in Blocks,
             i \in Ends(BlocksRequired(size)),
             Allocated(size, i - BlocksRequired(size) + 1, BlocksRequired(size))
      PROVE  RegionFitsRequest'
  <2>. DEFINE n == BlocksRequired(size)
              b == i - n + 1
  <2>1. n \in Nat \ {0} /\ n * BlockSize >= size + HeaderSize
    BY EnoughBlocks DEF Legal, SizesFit
  <2>2. b \in Blocks
    BY <1>0, <1>1, <2>1, RunIsFree DEF TypeOK
  <2>3. /\ blocks_used' = [blocks_used EXCEPT ![b] = n]
        /\ result' = [size |-> size, ptr |-> b]
    BY <1>1 DEF Allocated, SetupHeader
  <2>. HIDE DEF n, b
  <2>4. blocks_used'[b] = n /\ result'.ptr = b /\ result'.size = size
    BY <1>0, <2>2, <2>3 DEF TypeOK, Blocks
  <2>. QED  BY <2>1, <2>4 DEF RegionFitsRequest
<1>2. ASSUME NEW size \in Sizes, NEW n, OutOfMemory(size, n)
      PROVE  RegionFitsRequest'
  BY <1>2 DEF OutOfMemory, RegionFitsRequest
<1>3. ASSUME NEW b \in Blocks, Copy(b) \/ Free(b) PROVE RegionFitsRequest'
  <2>1. /\ held[b] > 0 /\ UNCHANGED <<blocks_used, result>>
        /\ \E n : held' = [held EXCEPT ![b] = n]
    BY <1>3 DEF Copy, Free
  <2>2. \A a \in Blocks : a # b => held'[a] = held[a]
    BY <1>0, <2>1 DEF TypeOK, Blocks
  <2>3. result.ptr \in Blocks \cup {NULL}
    BY <1>0 DEF TypeOK
  <2>. QED  BY <2>1, <2>2, <2>3 DEF RegionFitsRequest
<1>4. CASE UNCHANGED vars
  BY <1>4 DEF vars, RegionFitsRequest
<1>. QED  BY <1>1, <1>2, <1>3, <1>4 DEF Next, Alloc, IsFirst

\* The region returned holds the header and all the bytes asked for, as long
\* as no addition of the size wraps.
THEOREM RegionsLargeEnough ==
  ASSUME Legal, SizesDoNotWrap
  PROVE  Spec => []RegionFitsRequest
<1>1. IInv /\ [Next]_vars => IInv'
  BY NextInv
<1>2. IInv /\ RegionFitsRequest /\ [Next]_vars => RegionFitsRequest'
  BY FitsNext
<1>3. Init => RegionFitsRequest
  BY DEF Init, RegionFitsRequest
<1>. QED  BY <1>1, <1>2, <1>3, InitInv, PTL DEF Spec

-----------------------------------------------------------------------------
(* The allocator implements SharedMemory.                                  *)

\* Restricting a function commutes with updating it.
LEMMA RestrictUpdate ==
  ASSUME NEW T, NEW R, NEW S \in SUBSET T, NEW f \in [T -> R], NEW b \in S,
         NEW v, NEW g, g = [f EXCEPT ![b] = v]
  PROVE  [a \in S |-> g[a]] = [[a \in S |-> f[a]] EXCEPT ![b] = v]
<1>1. g[b] = v /\ \A a \in S : a # b => g[a] = f[a]
  OBVIOUS
<1>. QED  BY <1>1, Zenon

LEMMA BlocksInside == Blocks \in SUBSET (0 .. N)
  BY DEF Blocks

\* The blocks the abstract memory has taken are those the bitmap has not.
LEMMA TakenIsUsed ==
  ASSUME IInv
  PROVE  Memory!Taken = Blocks \ free
<1>1. \A b \in Live : Memory!Span(b) = Span(b)
  BY DEF Memory!Span, Span, Live
<1>2. Memory!Taken = UNION {Span(b) : b \in Live}
  BY <1>1 DEF Memory!Taken
<1>3. UNION {Span(b) : b \in Live} \subseteq Blocks
  BY DEF IInv, RegionsDisjoint
<1>. QED  BY <1>2, <1>3 DEF IInv, BitmapExact

LEMMA InitRefines == Init => Memory!Init
<1>. SUFFICES ASSUME Init PROVE Memory!Init
  OBVIOUS
<1>1. Live = {}
  BY DEF Init, Live, Blocks
<1>2. /\ [b \in Blocks |-> blocks_used[b]] \in [Blocks -> Nat]
      /\ [b \in Blocks |-> refcount[b]] \in [Blocks -> Nat]
  BY DEF Init, Blocks
<1>3. result.ptr = NULL
  BY DEF Init
<1>. QED  BY <1>1, <1>2, <1>3 DEF Memory!Init, Memory!Blocks, Blocks

LEMMA AllocatedRefines ==
  ASSUME IInv, Legal, NEW size \in Sizes, NEW i \in Blocks,
         i \in Ends(BlocksRequired(size)),
         Allocated(size, i - BlocksRequired(size) + 1, BlocksRequired(size))
  PROVE  Memory!Alloc(BlocksRequired(size))
<1>. DEFINE n == BlocksRequired(size)
            b == i - n + 1
<1>1. n \in Nat \ {0} /\ TypeOK
  BY DEF Legal, SizesFit, IInv
<1>2. b \in Blocks /\ b .. b + n - 1 \subseteq free /\ b .. b + n - 1 \subseteq Blocks
  BY <1>1, RunIsFree DEF TypeOK
<1>3. /\ blocks_used' = [blocks_used EXCEPT ![b] = n]
      /\ refcount' = [refcount EXCEPT ![b] = 1]
      /\ held' = [held EXCEPT ![b] = 1]
      /\ result' = [size |-> size, ptr |-> b]
  BY DEF Allocated, SetupHeader
<1>4. b + n <= N
  BY <1>1 DEF Blocks
<1>. HIDE DEF n, b
<1>5. b \in Memory!Room(n)
  BY <1>2, <1>4, TakenIsUsed DEF Memory!Room, Memory!Blocks, Blocks
<1>6. Live' = Live \cup {b}
  <2>1. held'[b] = 1 /\ \A a \in Blocks : a # b => held'[a] = held[a]
    BY <1>1, <1>2, <1>3 DEF TypeOK, Blocks
  <2>. QED  BY <1>2, <2>1 DEF Live
<1>7. /\ [a \in Blocks |-> blocks_used[a]]' =
              [[a \in Blocks |-> blocks_used[a]] EXCEPT ![b] = n]
      /\ [a \in Blocks |-> refcount[a]]' =
              [[a \in Blocks |-> refcount[a]] EXCEPT ![b] = 1]
  BY <1>1, <1>2, <1>3, BlocksInside, RestrictUpdate DEF TypeOK
<1>8. (result.ptr)' = b
  BY <1>3
<1>9. Memory!Alloc(n)
  BY <1>5, <1>6, <1>7, <1>8 DEF Memory!Alloc
<1>. QED  BY <1>9 DEF n

LEMMA OutOfMemoryRefines ==
  ASSUME IInv, Legal, NEW size \in Sizes,
         OutOfMemory(size, BlocksRequired(size))
  PROVE  Memory!Refuse(BlocksRequired(size))
<1>. DEFINE n == BlocksRequired(size)
<1>1. n \in Nat \ {0}
  BY DEF Legal, SizesFit
<1>2. Ends(n) = {} /\ result' = [size |-> size, ptr |-> NULL]
      /\ UNCHANGED <<free, refcount, blocks_used, held>>
  BY DEF OutOfMemory
<1>. HIDE DEF n
<1>3. ASSUME NEW b \in Memory!Room(n) PROVE FALSE
  <2>1. b \in Blocks /\ b + n <= N /\ (b .. b + n - 1) \cap Memory!Taken = {}
    BY <1>3 DEF Memory!Room, Memory!Blocks, Blocks
  <2>2. b .. b + n - 1 \subseteq Blocks
    BY <1>1, <2>1 DEF Blocks
  <2>3. b .. b + n - 1 \subseteq free
    BY <2>1, <2>2, TakenIsUsed
  <2>4. /\ b + n - 1 \in Blocks /\ n <= (b + n - 1) + 1
        /\ (b + n - 1) - n + 1 = b
    BY <1>1, <2>1 DEF Blocks
  <2>5. b + n - 1 \in Ends(n)
    BY <1>1, <2>3, <2>4 DEF Ends
  <2>. QED  BY <1>2, <2>5
<1>4. /\ Live' = Live /\ (result.ptr)' = NULL
      /\ [b \in Blocks |-> blocks_used[b]]' = [b \in Blocks |-> blocks_used[b]]
      /\ [b \in Blocks |-> refcount[b]]' = [b \in Blocks |-> refcount[b]]
  BY <1>2 DEF Live
<1>5. Memory!Refuse(n)
  BY <1>3, <1>4 DEF Memory!Refuse
<1>. QED  BY <1>5 DEF n

LEMMA CopyRefines ==
  ASSUME IInv, Legal, NEW b \in Blocks, Copy(b)
  PROVE  Memory!Copy(b)
<1>1. /\ TypeOK /\ b \in Live /\ held[b] < MaxHeld /\ refcount[b] = held[b]
      /\ held' = [held EXCEPT ![b] = @ + 1]
      /\ UNCHANGED <<free, blocks_used, result>>
  BY DEF Copy, IInv, RefcountExact, Live
<1>2. refcount' = [refcount EXCEPT ![b] = @ + 1]
  <2>1. refcount[b] # MaxRef
    BY <1>1 DEF Legal, TypeOK, Blocks
  <2>. QED  BY <2>1 DEF Copy
<1>3. Live' = Live
  <2>1. \A a \in Blocks : a # b => held'[a] = held[a]
    BY <1>1 DEF Blocks, TypeOK
  <2>2. held[b] \in Nat /\ held'[b] = held[b] + 1 /\ held[b] > 0
    BY <1>1 DEF TypeOK, Blocks, Live
  <2>. QED  BY <1>1, <2>1, <2>2 DEF Live
<1>4. [a \in Blocks |-> refcount[a]]' =
        [[a \in Blocks |-> refcount[a]] EXCEPT ![b] = refcount[b] + 1]
  BY <1>1, <1>2, BlocksInside, RestrictUpdate DEF TypeOK
<1>. QED  BY <1>1, <1>3, <1>4 DEF Memory!Copy

LEMMA FreeRefines ==
  ASSUME IInv, NEW b \in Blocks, Free(b)
  PROVE  Memory!Free(b)
<1>1. /\ TypeOK /\ b \in Live /\ refcount[b] = held[b]
      /\ held' = [held EXCEPT ![b] = @ - 1]
      /\ UNCHANGED <<blocks_used, result>>
  BY DEF Free, IInv, RefcountExact, Live
<1>2. held[b] \in Nat /\ held[b] > 0
  BY <1>1 DEF TypeOK, Live, Blocks
<1>3. refcount' = [refcount EXCEPT ![b] = @ - 1]
  BY <1>1, <1>2 DEF Free, Decremented
<1>4. Live' = IF held[b] = 1 THEN Live \ {b} ELSE Live
  <2>1. \A a \in Blocks : a # b => held'[a] = held[a]
    BY <1>1 DEF Blocks, TypeOK
  <2>2. held'[b] = held[b] - 1
    BY <1>1 DEF TypeOK, Blocks
  <2>. QED  BY <1>1, <1>2, <2>1, <2>2 DEF Live
<1>5. [a \in Blocks |-> refcount[a]]' =
        [[a \in Blocks |-> refcount[a]] EXCEPT ![b] = refcount[b] - 1]
  BY <1>1, <1>3, BlocksInside, RestrictUpdate DEF TypeOK
<1>. QED  BY <1>1, <1>4, <1>5 DEF Memory!Free

LEMMA NextRefines ==
  ASSUME Legal, IInv, [Next]_vars
  PROVE  [Memory!Next]_Memory!vars
<1>1. ASSUME NEW size \in Sizes, Alloc(size) PROVE Memory!Next
  <2>1. \/ Memory!Alloc(BlocksRequired(size))
        \/ Memory!Refuse(BlocksRequired(size))
    BY <1>1, AllocatedRefines, OutOfMemoryRefines DEF Alloc, IsFirst
  <2>. QED  BY <2>1 DEF Memory!Next
<1>2. ASSUME NEW b \in Blocks, Copy(b) \/ Free(b) PROVE Memory!Next
  BY <1>2, CopyRefines, FreeRefines DEF Memory!Next, Memory!Blocks, Blocks
<1>3. CASE UNCHANGED vars
  BY <1>3 DEF vars, Memory!vars, Live
<1>. QED  BY <1>1, <1>2, <1>3 DEF Next

\* Every behaviour of the allocator is one of the memory of counted regions:
\* an allocation takes blocks of no region in use and fails only when there
\* is no room, a region ends with its last reference and not before.
THEOREM AllocatorImplementsMemory ==
  ASSUME Legal
  PROVE  Spec => ImplementsMemory
<1>1. IInv /\ [Next]_vars => IInv'
  BY NextInv
<1>2. IInv /\ [Next]_vars => [Memory!Next]_Memory!vars
  BY NextRefines
<1>. QED  BY <1>1, <1>2, InitInv, InitRefines, PTL
         DEF Spec, ImplementsMemory, Memory!Spec

-----------------------------------------------------------------------------
(* Any number of tasks.                                                    *)

HIDE AllocAssumption DEF AllocAssumption

\* What the theorems suppose of the application; RtosCopyRace shows that the
\* second part is needed.
CopiesAlone == SizesFit /\ CopyAlone

-----------------------------------------------------------------------------
(* The inductive invariant.                                                *)

\* The references to b, each one counted by its holder: the i-th of task t.
Refs(b) == UNION {{t} \X (1 .. own[t][b]) : t \in Tasks}

\* The calls of static_alloc_free() that still have to store the decremented
\* count of b.
Dropping(b) ==
  {t \in Tasks : task[t].ptr = b
                 /\ task[t].pc \in {"take", "decrement", "decremented"}}

\* All that the count in the header of b stands for.
Counted(b) == Refs(b) \cup (Dropping(b) \X {0})

\* static_alloc_free() has stored the count and not yet looked at it.
Closing(b) == \E t \in Tasks : task[t].pc = "test" /\ task[t].ptr = b

\* The regions whose blocks are used, by references or by a call.
Taken == {b \in Blocks : Counted(b) # {} \/ Closing(b)}

Critical == {"search", "mark", "decrement", "decremented", "test", "give"}

TaskStates ==
  [pc : Critical \cup {"idle", "take", "load", "store"},
   size : Sizes \cup {0}, ptr : Blocks \cup {NULL}, count : Nat]

RtosTypes ==
  /\ free \subseteq Blocks
  /\ refcount \in [0 .. N -> Nat] /\ blocks_used \in [0 .. N -> Nat]
  /\ held \in [0 .. N -> Nat]
  /\ mutex \in Tasks \cup {NoTask}
  /\ task \in [Tasks -> TaskStates]
  /\ own \in [Tasks -> [Blocks -> Nat]]

\* What a task knows at each point of a call.
Progress(t) ==
  /\ task[t].pc \in Critical => mutex = t
  /\ task[t].pc = "idle" => task[t].ptr = NULL
  /\ (task[t].pc = "take" /\ task[t].ptr = NULL) => task[t].size \in Sizes
  /\ task[t].pc = "search" => task[t].ptr = NULL
  /\ task[t].pc \in {"search", "mark"} => task[t].size \in Sizes
  /\ task[t].pc \in {"mark", "decrement", "decremented", "test", "load",
                     "store"} => task[t].ptr \in Blocks
  /\ task[t].pc = "mark" =>
       task[t].ptr .. task[t].ptr + BlocksRequired(task[t].size) - 1
         \subseteq free
  /\ task[t].pc = "decremented" => task[t].count + 1 = refcount[task[t].ptr]
  /\ task[t].pc = "store" => task[t].count = refcount[task[t].ptr]

\* A task that copies a reference has one, and nobody else does.
Copying(t) ==
  task[t].pc \in {"load", "store"} =>
    /\ own[t][task[t].ptr] > 0
    /\ \A u \in Tasks \ {t} :
         own[u][task[t].ptr] = 0 /\ task[u].ptr # task[t].ptr

\* The header counts all references, and calls that are about to drop one.
CountsAccount ==
  \A b \in Blocks :
    /\ IsFiniteSet(Refs(b)) /\ Cardinality(Refs(b)) = held[b]
    /\ IsFiniteSet(Counted(b)) /\ Cardinality(Counted(b)) = refcount[b]

RegionsAccount ==
  /\ \A b \in Taken : blocks_used[b] > 0 /\ Span(b) \subseteq Blocks
  /\ \A a, b \in Taken : a # b => Span(a) \cap Span(b) = {}
  /\ free = Blocks \ UNION {Span(b) : b \in Taken}

RtosInv ==
  /\ RtosTypes
  /\ \A t \in Tasks : Progress(t) /\ Copying(t)
  /\ CountsAccount /\ RegionsAccount

-----------------------------------------------------------------------------
(* Counting.                                                               *)

LEMMA OneMore ==
  ASSUME NEW S, IsFiniteSet(S), NEW x, x \notin S, NEW T, T = S \cup {x}
  PROVE  IsFiniteSet(T) /\ Cardinality(T) = Cardinality(S) + 1
  BY FS_AddElement

LEMMA OneLess ==
  ASSUME NEW S, IsFiniteSet(S), NEW x \in S, NEW T, T = S \ {x}
  PROVE  IsFiniteSet(T) /\ Cardinality(T) = Cardinality(S) - 1
  BY FS_RemoveElement

LEMMA OneInstead ==
  ASSUME NEW S, IsFiniteSet(S), NEW x \in S, NEW y, y \notin S,
         NEW T, T = (S \ {x}) \cup {y}
  PROVE  IsFiniteSet(T) /\ Cardinality(T) = Cardinality(S)
<1>1. IsFiniteSet(S \ {x}) /\ Cardinality(S \ {x}) = Cardinality(S) - 1
      /\ Cardinality(S) \in Nat
  BY FS_RemoveElement, FS_CardinalityType
<1>2. PICK R : R = S \ {x}
  OBVIOUS
<1>3. IsFiniteSet(R) /\ y \notin R /\ T = R \cup {y}
  BY <1>1, <1>2
<1>4. IsFiniteSet(T) /\ Cardinality(T) = Cardinality(R) + 1
  BY <1>3, FS_AddElement
<1>5. PICK n : n = Cardinality(S)
  OBVIOUS
<1>6. n \in Nat /\ Cardinality(R) = n - 1
  BY <1>1, <1>2, <1>5
<1>. QED  BY <1>4, <1>5, <1>6

\* The tokens of b, one by one.
LEMMA RefsMember ==
  ASSUME NEW b, NEW r
  PROVE  r \in Refs(b) <=>
           \E t \in Tasks : \E i \in 1 .. own[t][b] : r = <<t, i>>
  BY DEF Refs

LEMMA CountedMember ==
  ASSUME NEW b, NEW t, t \in Dropping(b)
  PROVE  <<t, 0>> \in Counted(b) /\ <<t, 0>> \notin Refs(b)
<1>1. \A r \in Refs(b) : r[2] # 0
  BY RefsMember
<1>. QED  BY <1>1 DEF Counted

\* A new reference of one task, the loss of one, and neither.
LEMMA RefsAdded ==
  ASSUME RtosTypes, NEW b \in Blocks, NEW t \in Tasks,
         own'[t][b] = own[t][b] + 1,
         \A u \in Tasks \ {t} : own'[u][b] = own[u][b]
  PROVE  /\ Refs(b)' = Refs(b) \cup {<<t, own[t][b] + 1>>}
         /\ <<t, own[t][b] + 1>> \notin Refs(b) \cup (Dropping(b) \X {0})
<1>1. \A u \in Tasks : own[u][b] \in Nat
  BY DEF RtosTypes
<1>2. \A r : r \in Refs(b)' <=>
                \E u \in Tasks : \E i \in 1 .. own'[u][b] : r = <<u, i>>
  BY DEF Refs
<1>3. \A r : r \in Refs(b) <=>
                \E u \in Tasks : \E i \in 1 .. own[u][b] : r = <<u, i>>
  BY RefsMember
<1>. DEFINE k == own[t][b] + 1
<1>4. ASSUME NEW r PROVE r \in Refs(b)' <=> r \in Refs(b) \cup {<<t, k>>}
  <2>1. ASSUME NEW u \in Tasks, NEW i \in 1 .. own'[u][b], r = <<u, i>>
        PROVE  r \in Refs(b) \/ r = <<t, k>>
    <3>1. CASE u = t /\ i = k
      BY <2>1, <3>1
    <3>2. CASE u # t \/ i # k
      <4>1. i \in 1 .. own[u][b]
        BY <1>1, <2>1, <3>2
      <4>. QED  BY <1>3, <2>1, <4>1
    <3>. QED  BY <3>1, <3>2
  <2>2. ASSUME NEW u \in Tasks, NEW i \in 1 .. own[u][b], r = <<u, i>>
        PROVE  r \in Refs(b)'
    <3>1. i \in 1 .. own'[u][b]
      BY <1>1
    <3>. QED  BY <1>2, <2>2, <3>1
  <2>3. <<t, k>> \in Refs(b)'
    <3>1. k \in 1 .. own'[t][b]
      BY <1>1
    <3>. QED  BY <1>2, <3>1
  <2>. QED  BY <1>2, <1>3, <2>1, <2>2, <2>3
<1>5. <<t, k>> \notin Refs(b)
  BY <1>1, <1>3
<1>6. <<t, k>> \notin Dropping(b) \X {0}
  BY <1>1
<1>. QED  BY <1>4, <1>5, <1>6

LEMMA RefsDropped ==
  ASSUME RtosTypes, NEW b \in Blocks, NEW t \in Tasks, own[t][b] > 0,
         own'[t][b] = own[t][b] - 1,
         \A u \in Tasks \ {t} : own'[u][b] = own[u][b]
  PROVE  /\ Refs(b)' = Refs(b) \ {<<t, own[t][b]>>}
         /\ <<t, own[t][b]>> \in Refs(b)
<1>1. \A u \in Tasks : own[u][b] \in Nat
  BY DEF RtosTypes
<1>2. \A r : r \in Refs(b)' <=>
                \E u \in Tasks : \E i \in 1 .. own'[u][b] : r = <<u, i>>
  BY DEF Refs
<1>3. \A r : r \in Refs(b) <=>
                \E u \in Tasks : \E i \in 1 .. own[u][b] : r = <<u, i>>
  BY RefsMember
<1>. DEFINE k == own[t][b]
<1>4. ASSUME NEW r PROVE r \in Refs(b)' <=> r \in Refs(b) \ {<<t, k>>}
  <2>1. ASSUME NEW u \in Tasks, NEW i \in 1 .. own'[u][b], r = <<u, i>>
        PROVE  r \in Refs(b) /\ r # <<t, k>>
    <3>1. i \in 1 .. own[u][b] /\ (u # t \/ i # k)
      BY <1>1
    <3>. QED  BY <1>3, <2>1, <3>1
  <2>2. ASSUME NEW u \in Tasks, NEW i \in 1 .. own[u][b], r = <<u, i>>,
               r # <<t, k>>
        PROVE  r \in Refs(b)'
    <3>1. i \in 1 .. own'[u][b]
      BY <1>1, <2>2
    <3>. QED  BY <1>2, <2>2, <3>1
  <2>. QED  BY <1>2, <1>3, <2>1, <2>2
<1>5. <<t, k>> \in Refs(b)
  <2>1. k \in 1 .. own[t][b]
    BY <1>1
  <2>. QED  BY <1>3, <2>1
<1>. QED  BY <1>4, <1>5

LEMMA RefsSame ==
  ASSUME NEW b, \A u \in Tasks : own'[u][b] = own[u][b]
  PROVE  Refs(b)' = Refs(b)
  BY DEF Refs

\* A block of a region in use is not free; a task's reference keeps the
\* region in use.
LEMMA TakenNotFree ==
  ASSUME RtosInv, NEW b \in Taken
  PROVE  b \in Blocks /\ b \in Span(b) /\ b \notin free
<1>1. b \in Blocks /\ blocks_used[b] \in Nat /\ blocks_used[b] > 0
  BY BlocksInside DEF RtosInv, RegionsAccount, Taken, RtosTypes
<1>2. b \in Span(b)
  BY <1>1 DEF Span, Blocks
<1>. QED  BY <1>1, <1>2 DEF RtosInv, RegionsAccount

LEMMA OwnedTaken ==
  ASSUME RtosInv, NEW b \in Blocks, NEW t \in Tasks, own[t][b] > 0
  PROVE  b \in Taken /\ b \notin free
<1>1. own[t][b] \in Nat
  BY DEF RtosInv, RtosTypes
<1>2. <<t, 1>> \in Refs(b)
  <2>1. 1 \in 1 .. own[t][b]
    BY <1>1
  <2>. QED  BY <2>1, RefsMember
<1>3. b \in Taken
  BY <1>2 DEF Taken, Counted
<1>. QED  BY <1>3, TakenNotFree

LEMMA HeldTaken ==
  ASSUME RtosInv, NEW b \in Blocks
  PROVE  held[b] > 0 <=> Refs(b) # {}
<1>1. IsFiniteSet(Refs(b)) /\ Cardinality(Refs(b)) = held[b] /\ held[b] \in Nat
  BY BlocksInside DEF RtosInv, CountsAccount, RtosTypes
<1>. QED  BY <1>1, FS_EmptySet

LEMMA RtosInitInv == RtosInit => RtosInv
<1>. SUFFICES ASSUME RtosInit PROVE RtosInv
  OBVIOUS
<1>1. /\ free = Blocks /\ refcount = [b \in 0 .. N |-> 0]
      /\ blocks_used = [b \in 0 .. N |-> 0] /\ held = [b \in 0 .. N |-> 0]
      /\ mutex = NoTask /\ task = [t \in Tasks |-> Resting]
      /\ own = [t \in Tasks |-> [b \in Blocks |-> 0]]
  BY DEF RtosInit, Init
<1>2. RtosTypes
  BY <1>1 DEF RtosTypes, Resting, TaskStates
<1>3. \A t \in Tasks : Progress(t) /\ Copying(t)
  BY <1>1 DEF Progress, Copying, Resting, Critical
<1>4. \A b \in Blocks : Refs(b) = {} /\ Counted(b) = {} /\ ~Closing(b)
  <2>. SUFFICES ASSUME NEW b \in Blocks
                PROVE  Refs(b) = {} /\ Counted(b) = {} /\ ~Closing(b)
    OBVIOUS
  <2>1. Refs(b) = {}
    <3>1. \A r : r \notin Refs(b)
      BY <1>1, RefsMember
    <3>. QED  BY <3>1
  <2>2. Dropping(b) = {} /\ ~Closing(b)
    BY <1>1 DEF Dropping, Closing, Resting
  <2>. QED  BY <2>1, <2>2 DEF Counted
<1>5. CountsAccount
  <2>1. \A b \in Blocks : held[b] = 0 /\ refcount[b] = 0
    BY <1>1, BlocksInside
  <2>. QED  BY <1>4, <2>1, FS_EmptySet DEF CountsAccount
<1>6. RegionsAccount
  <2>1. Taken = {}
    BY <1>4 DEF Taken
  <2>. QED  BY <1>1, <2>1 DEF RegionsAccount
<1>. QED  BY <1>2, <1>3, <1>5, <1>6 DEF RtosInv

-----------------------------------------------------------------------------
(* What a step of task t leaves to be shown.                               *)

\* The other tasks stand where they stood.
OthersRest(t) == \A u \in Tasks \ {t} : task'[u] = task[u]

LEMMA TaskMoves ==
  ASSUME RtosTypes, NEW t \in Tasks, NEW r \in TaskStates,
         task' = [task EXCEPT ![t] = r]
  PROVE  task' \in [Tasks -> TaskStates] /\ task'[t] = r /\ OthersRest(t)
  BY DEF RtosTypes, OthersRest

\* Regions and counts, when the heap stays and t neither enters nor leaves the
\* part of static_alloc_free() that they account for.
LEMMA SameRegions ==
  ASSUME RtosInv, NEW t \in Tasks, OthersRest(t),
         UNCHANGED <<free, refcount, blocks_used, held>>,
         \A u \in Tasks, b \in Blocks : own'[u][b] = own[u][b],
         \A b \in Blocks : t \in Dropping(b)' <=> t \in Dropping(b),
         \A b \in Blocks : (task'[t].pc = "test" /\ task'[t].ptr = b) <=>
                           (task[t].pc = "test" /\ task[t].ptr = b)
  PROVE  CountsAccount' /\ RegionsAccount'
<1>1. CountsAccount /\ RegionsAccount
  BY DEF RtosInv
<1>2. ASSUME NEW b \in Blocks
      PROVE  /\ Refs(b)' = Refs(b) /\ Counted(b)' = Counted(b)
             /\ Closing(b)' <=> Closing(b)
  <2>1. Refs(b)' = Refs(b)
    BY RefsSame
  <2>2. Dropping(b)' = Dropping(b)
    BY DEF Dropping, OthersRest
  <2>3. Closing(b)' <=> Closing(b)
    BY DEF Closing, OthersRest
  <2>. QED  BY <2>1, <2>2, <2>3 DEF Counted
<1>3. Taken' = Taken
  BY <1>2 DEF Taken
<1>4. CountsAccount'
  BY <1>1, <1>2 DEF CountsAccount
<1>5. RegionsAccount'
  BY <1>1, <1>3 DEF RegionsAccount, Span
<1>. QED  BY <1>4, <1>5

\* The other tasks, when t touches nothing that they have read.
LEMMA OthersKeep ==
  ASSUME RtosInv, NEW t \in Tasks, OthersRest(t),
         mutex' = mutex \/ mutex \in {t, NoTask},
         \A u \in Tasks \ {t} : mutex = u => UNCHANGED <<mutex, free>>,
         \A u \in Tasks \ {t} :
           task[u].pc \in {"decremented", "store"} =>
             refcount'[task[u].ptr] = refcount[task[u].ptr],
         \A u \in Tasks \ {t} :
           task[u].pc \in {"load", "store"} =>
             /\ task'[t].ptr # task[u].ptr
             /\ own'[t][task[u].ptr] = 0,
         \A u, v \in Tasks \ {t} :
           task[u].pc \in {"load", "store"} =>
             own'[v][task[u].ptr] = own[v][task[u].ptr]
  PROVE  \A u \in Tasks \ {t} : Progress(u)' /\ Copying(u)'
<1>. SUFFICES ASSUME NEW u \in Tasks \ {t} PROVE Progress(u)' /\ Copying(u)'
  OBVIOUS
<1>1. Progress(u) /\ Copying(u) /\ task'[u] = task[u] /\ NoTask \notin Tasks
  BY TasksAssumption DEF RtosInv, OthersRest, TasksAssumption
<1>2. Progress(u)'
  <2>1. task[u].pc \in Critical => mutex = u /\ mutex' = mutex /\ free' = free
    BY <1>1 DEF Progress
  <2>. QED  BY <1>1, <2>1 DEF Progress, Critical
<1>3. Copying(u)'
  BY <1>1 DEF Copying, OthersRest
<1>. QED  BY <1>2, <1>3

\* A step that leaves the heap and the references alone.
LEMMA HeapUntouched ==
  ASSUME RtosInv, NEW t \in Tasks, OthersRest(t),
         task' \in [Tasks -> TaskStates],
         UNCHANGED <<free, refcount, blocks_used, held, own>>,
         mutex' \in Tasks \cup {NoTask},
         mutex' = mutex \/ mutex \in {t, NoTask},
         \A b \in Blocks : t \in Dropping(b)' <=> t \in Dropping(b),
         \A b \in Blocks : (task'[t].pc = "test" /\ task'[t].ptr = b) <=>
                           (task[t].pc = "test" /\ task[t].ptr = b),
         \A u \in Tasks \ {t} :
           task[u].pc \in {"load", "store"} => task'[t].ptr # task[u].ptr,
         Progress(t)', Copying(t)'
  PROVE  RtosInv'
<1>1. RtosTypes'
  BY DEF RtosInv, RtosTypes
<1>2. CountsAccount' /\ RegionsAccount'
  BY SameRegions
<1>3. \A u \in Tasks \ {t} :
        task[u].pc \in {"load", "store"} => own[t][task[u].ptr] = 0
  BY DEF RtosInv, Copying
<1>4. \A u \in Tasks \ {t} : mutex = u => UNCHANGED <<mutex, free>>
  BY TasksAssumption DEF TasksAssumption
<1>5. \A u \in Tasks \ {t} : Progress(u)' /\ Copying(u)'
  BY <1>3, <1>4, OthersKeep
<1>. QED  BY <1>1, <1>2, <1>5 DEF RtosInv

\* What the invariant says when task t takes a step.
LEMMA BeginStep ==
  ASSUME RtosInv, NEW t \in Tasks
  PROVE  /\ RtosTypes /\ Progress(t) /\ Copying(t) /\ task[t] \in TaskStates
         /\ CountsAccount /\ RegionsAccount /\ NULL \notin Blocks
         /\ \A u \in Tasks \ {t} :
              task[u].pc \in {"load", "store"} =>
                /\ task[u].ptr \in Blocks /\ task[u].ptr # task[t].ptr
                /\ own[u][task[u].ptr] > 0 /\ own[t][task[u].ptr] = 0
<1>1. NULL \notin Blocks
  BY BlocksInside, AllocAssumption DEF AllocAssumption
<1>. QED  BY <1>1 DEF RtosInv, RtosTypes, Progress, Copying

-----------------------------------------------------------------------------
(* The calls that begin.                                                   *)

LEMMA StartAllocRtosInv ==
  ASSUME RtosInv, NEW t \in Tasks, NEW size \in Sizes, StartAlloc(t, size)
  PROVE  RtosInv'
<1>. DEFINE r == [Resting EXCEPT !.pc = "take", !.size = size]
<1>1. /\ task[t].pc = "idle" /\ task' = [task EXCEPT ![t] = r]
      /\ UNCHANGED <<free, refcount, blocks_used, held, own, mutex>>
  BY DEF StartAlloc, At, vars
<1>2. r \in TaskStates /\ r.pc = "take" /\ r.size = size /\ r.ptr = NULL
  <2>1. Resting \in TaskStates
    BY DEF Resting, TaskStates
  <2>. QED  BY <2>1 DEF Resting, TaskStates
<1>. HIDE DEF r
<1>0. /\ RtosTypes /\ Progress(t) /\ task[t] \in TaskStates
      /\ NULL \notin Blocks
      /\ \A u \in Tasks \ {t} :
           task[u].pc \in {"load", "store"} => task[u].ptr \in Blocks
  BY BeginStep
<1>3. task' \in [Tasks -> TaskStates] /\ task'[t] = r /\ OthersRest(t)
  BY <1>0, <1>1, <1>2, TaskMoves
<1>4. task[t].ptr = NULL
  BY <1>0, <1>1 DEF Progress
<1>5. \A b \in Blocks : t \notin Dropping(b)' /\ t \notin Dropping(b)
  BY <1>0, <1>2, <1>3, <1>4 DEF Dropping
<1>6. Progress(t)' /\ Copying(t)'
  BY <1>0, <1>2, <1>3 DEF Progress, Copying, Critical
<1>7. mutex' \in Tasks \cup {NoTask}
  BY <1>0, <1>1 DEF RtosTypes
<1>. QED  BY <1>0, <1>1, <1>2, <1>3, <1>5, <1>6, <1>7,
          HeapUntouched

LEMMA StartCopyRtosInv ==
  ASSUME RtosInv, CopyAlone, NEW t \in Tasks, NEW b \in Blocks, StartCopy(t, b)
  PROVE  RtosInv'
<1>. DEFINE r == [Resting EXCEPT !.pc = "load", !.ptr = b]
<1>1. /\ task[t].pc = "idle" /\ task' = [task EXCEPT ![t] = r]
      /\ own[t][b] > 0 /\ ~Shared(t, b)
      /\ UNCHANGED <<free, refcount, blocks_used, held, own, mutex>>
  BY DEF StartCopy, At, vars
<1>2. r \in TaskStates /\ r.pc = "load" /\ r.size = 0 /\ r.ptr = b
  <2>1. Resting \in TaskStates
    BY DEF Resting, TaskStates
  <2>. QED  BY <2>1 DEF Resting, TaskStates
<1>. HIDE DEF r
<1>0. /\ RtosTypes /\ Progress(t) /\ task[t] \in TaskStates
      /\ NULL \notin Blocks
      /\ \A u \in Tasks \ {t} :
           task[u].pc \in {"load", "store"} =>
             own[u][task[u].ptr] > 0 /\ own[t][task[u].ptr] = 0
  BY BeginStep
<1>3. task' \in [Tasks -> TaskStates] /\ task'[t] = r /\ OthersRest(t)
  BY <1>0, <1>1, <1>2, TaskMoves
<1>4. \A u \in Tasks \ {t} : own[u][b] = 0 /\ task[u].ptr # b
  <2>1. \A u \in Tasks \ {t} : task[u].pc = "idle" => task[u].ptr = NULL
    BY DEF RtosInv, Progress
  <2>2. \A u \in Tasks \ {t} : own[u][b] \in Nat
    BY <1>0 DEF RtosTypes
  <2>. QED  BY <1>0, <1>1, <2>1, <2>2 DEF Shared, At
<1>5. \A c \in Blocks : t \notin Dropping(c)' /\ t \notin Dropping(c)
  BY <1>1, <1>2, <1>3 DEF Dropping
<1>6. Progress(t)' /\ Copying(t)'
  BY <1>1, <1>2, <1>3, <1>4 DEF Progress, Copying, Critical, OthersRest
<1>7. mutex' \in Tasks \cup {NoTask}
  BY <1>0, <1>1 DEF RtosTypes
<1>. QED  BY <1>0, <1>1, <1>2, <1>3, <1>4, <1>5, <1>6, <1>7,
          HeapUntouched

\* The reference given up becomes a call that has still to drop it.
LEMMA StartFreeRtosInv ==
  ASSUME RtosInv, NEW t \in Tasks, NEW b \in Blocks, StartFree(t, b)
  PROVE  RtosInv'
<1>. DEFINE r == [Resting EXCEPT !.pc = "take", !.ptr = b]
            k == own[t][b]
<1>1. /\ task[t].pc = "idle" /\ task' = [task EXCEPT ![t] = r] /\ own[t][b] > 0
      /\ own' = [own EXCEPT ![t][b] = @ - 1]
      /\ held' = [held EXCEPT ![b] = @ - 1]
      /\ UNCHANGED <<free, refcount, blocks_used, mutex>>
  BY DEF StartFree, At, heap
<1>2. r \in TaskStates /\ r.pc = "take" /\ r.size = 0 /\ r.ptr = b
  <2>1. Resting \in TaskStates
    BY DEF Resting, TaskStates
  <2>. QED  BY <2>1 DEF Resting, TaskStates
<1>. HIDE DEF r
<1>0. /\ RtosTypes /\ Progress(t) /\ task[t] \in TaskStates
      /\ NULL \notin Blocks
      /\ CountsAccount /\ RegionsAccount
      /\ \A u \in Tasks \ {t} :
           task[u].pc \in {"load", "store"} =>
             /\ task[u].ptr \in Blocks
             /\ own[u][task[u].ptr] > 0 /\ own[t][task[u].ptr] = 0
  BY BeginStep
<1>3. task' \in [Tasks -> TaskStates] /\ task'[t] = r /\ OthersRest(t)
  BY <1>0, <1>1, <1>2, TaskMoves
<1>4. /\ own' \in [Tasks -> [Blocks -> Nat]]
      /\ own'[t][b] = own[t][b] - 1
      /\ \A u \in Tasks, c \in Blocks :
           (u # t \/ c # b) => own'[u][c] = own[u][c]
  <2>1. own \in [Tasks -> [Blocks -> Nat]] /\ own[t][b] \in Nat
    BY <1>0 DEF RtosTypes
  <2>. QED  BY <1>1, <2>1
<1>5. /\ Refs(b)' = Refs(b) \ {<<t, k>>} /\ <<t, k>> \in Refs(b)
      /\ \A c \in Blocks \ {b} : Refs(c)' = Refs(c)
  BY <1>0, <1>1, <1>4, RefsDropped, RefsSame
<1>6. /\ Dropping(b)' = Dropping(b) \cup {t} /\ t \notin Dropping(b)
      /\ \A c \in Blocks \ {b} : Dropping(c)' = Dropping(c)
      /\ \A c \in Blocks : Closing(c)' <=> Closing(c)
  <2>1. task[t].pc = "idle" /\ task'[t].pc = "take" /\ task'[t].ptr = b
    BY <1>1, <1>2, <1>3
  <2>. QED  BY <2>1, <1>3 DEF Dropping, Closing, OthersRest
<1>. HIDE DEF r, k
<1>7. /\ Counted(b)' = (Counted(b) \ {<<t, k>>}) \cup {<<t, 0>>}
      /\ <<t, k>> \in Counted(b) /\ <<t, 0>> \notin Counted(b)
      /\ \A c \in Blocks \ {b} : Counted(c)' = Counted(c)
  <2>1. k # 0
    BY <1>1 DEF k
  <2>2. <<t, 0>> \notin Refs(b)
    BY RefsMember
  <2>. QED  BY <1>5, <1>6, <2>1, <2>2 DEF Counted
<1>8. held'[b] = held[b] - 1 /\ held[b] \in Nat /\ held[b] > 0
      /\ \A c \in Blocks \ {b} : held'[c] = held[c]
      /\ held' \in [0 .. N -> Nat]
  <2>1. held \in [0 .. N -> Nat] /\ b \in 0 .. N /\ held[b] > 0
    BY <1>0, <1>5, HeldTaken, BlocksInside DEF RtosTypes
  <2>. QED  BY <1>1, <2>1, BlocksInside
<1>9. RtosTypes'
  BY <1>0, <1>1, <1>3, <1>4, <1>8 DEF RtosTypes
<1>10. CountsAccount'
  <2>1. /\ IsFiniteSet(Refs(b)) /\ Cardinality(Refs(b)) = held[b]
        /\ IsFiniteSet(Counted(b)) /\ Cardinality(Counted(b)) = refcount[b]
    BY <1>0 DEF CountsAccount
  <2>2. IsFiniteSet(Refs(b)') /\ Cardinality(Refs(b)') = held'[b]
    BY <1>5, <1>8, <2>1, OneLess
  <2>3. IsFiniteSet(Counted(b)') /\ Cardinality(Counted(b)') = refcount'[b]
    BY <1>1, <1>7, <2>1, OneInstead
  <2>. QED  BY <1>0, <1>1, <1>5, <1>7, <1>8, <2>2, <2>3 DEF CountsAccount
<1>11. RegionsAccount'
  <2>1. Taken' = Taken
    BY <1>6, <1>7 DEF Taken
  <2>. QED  BY <1>0, <1>1, <2>1 DEF RegionsAccount, Span
<1>12. Progress(t)' /\ Copying(t)'
  BY <1>0, <1>2, <1>3 DEF Progress, Copying, Critical
<1>13. \A u \in Tasks \ {t} : Progress(u)' /\ Copying(u)'
  <2>1. \A u \in Tasks \ {t} :
          task[u].pc \in {"load", "store"} =>
            task'[t].ptr # task[u].ptr /\ own'[t][task[u].ptr] = 0
    BY <1>0, <1>1, <1>2, <1>3, <1>4
  <2>2. \A u, v \in Tasks \ {t} :
          task[u].pc \in {"load", "store"} =>
            own'[v][task[u].ptr] = own[v][task[u].ptr]
    BY <1>0, <1>4
  <2>. QED  BY <1>1, <1>3, <2>1, <2>2, OthersKeep
<1>. QED  BY <1>9, <1>10, <1>11, <1>12, <1>13 DEF RtosInv

LEMMA HandOverRtosInv ==
  ASSUME RtosInv, NEW t \in Tasks, NEW u \in Tasks \ {t}, NEW b \in Blocks,
         HandOver(t, u, b)
  PROVE  RtosInv'
<1>. DEFINE k == own[t][b]
            n == own[u][b] + 1
<1>1. /\ task[t].pc = "idle" /\ own[t][b] > 0
      /\ own' = [own EXCEPT ![t][b] = @ - 1, ![u][b] = @ + 1]
      /\ UNCHANGED <<free, refcount, blocks_used, held, mutex, task>>
  BY DEF HandOver, At, vars
<1>0. /\ RtosTypes /\ CountsAccount /\ RegionsAccount /\ NULL \notin Blocks
  BY BeginStep
<1>2. /\ own' \in [Tasks -> [Blocks -> Nat]]
      /\ own'[t][b] = own[t][b] - 1 /\ own'[u][b] = own[u][b] + 1
      /\ \A v \in Tasks, c \in Blocks :
           (v \notin {t, u} \/ c # b) => own'[v][c] = own[v][c]
  <2>1. own \in [Tasks -> [Blocks -> Nat]] /\ own[t][b] \in Nat
        /\ own[u][b] \in Nat
    BY <1>0 DEF RtosTypes
  <2>. DEFINE own1 == [own EXCEPT ![t][b] = @ - 1]
  <2>2. /\ own1 \in [Tasks -> [Blocks -> Nat]] /\ own1[t][b] = own[t][b] - 1
        /\ \A v \in Tasks, c \in Blocks :
             (v # t \/ c # b) => own1[v][c] = own[v][c]
    BY <1>1, <2>1
  <2>3. own' = [own1 EXCEPT ![u][b] = @ + 1]
    BY <1>1
  <2>. HIDE DEF own1
  <2>4. own1[u][b] = own[u][b]
    BY <2>2
  <2>5. /\ own' \in [Tasks -> [Blocks -> Nat]] /\ own'[u][b] = own1[u][b] + 1
        /\ \A v \in Tasks, c \in Blocks :
             (v # u \/ c # b) => own'[v][c] = own1[v][c]
    BY <2>1, <2>2, <2>3, <2>4
  <2>. QED  BY <2>2, <2>4, <2>5
<1>3. /\ Refs(b)' = (Refs(b) \ {<<t, k>>}) \cup {<<u, n>>}
      /\ <<t, k>> \in Refs(b) /\ <<u, n>> \notin Counted(b)
  <2>1. \A v \in Tasks : own[v][b] \in Nat
    BY <1>0 DEF RtosTypes
  <2>2. \A r : r \in Refs(b)' <=>
                 \E v \in Tasks : \E i \in 1 .. own'[v][b] : r = <<v, i>>
    BY DEF Refs
  <2>3. \A r : r \in Refs(b) <=>
                 \E v \in Tasks : \E i \in 1 .. own[v][b] : r = <<v, i>>
    BY RefsMember
  <2>4. ASSUME NEW r, r \in Refs(b)'
        PROVE  (r \in Refs(b) /\ r # <<t, k>>) \/ r = <<u, n>>
    <3>1. PICK v \in Tasks : \E i \in 1 .. own'[v][b] : r = <<v, i>>
      BY <2>2, <2>4
    <3>2. PICK i \in 1 .. own'[v][b] : r = <<v, i>>
      BY <3>1
    <3>3. CASE v = t
      <4>1. i \in 1 .. own[t][b] /\ i # k
        BY <1>2, <2>1, <3>2, <3>3
      <4>. QED  BY <2>3, <3>2, <3>3, <4>1
    <3>4. CASE v = u
      <4>1. i = n \/ i \in 1 .. own[u][b]
        <5>1. i \in 1 .. own[u][b] + 1 /\ own[u][b] \in Nat
          BY <1>2, <2>1, <3>2, <3>4
        <5>. QED  BY <5>1
      <4>. QED  BY <2>3, <3>2, <3>4, <4>1
    <3>5. CASE v \notin {t, u}
      BY <1>2, <2>3, <3>2, <3>5
    <3>. QED  BY <3>3, <3>4, <3>5
  <2>5. ASSUME NEW r, r \in Refs(b), r # <<t, k>>
        PROVE  r \in Refs(b)'
    <3>1. PICK v \in Tasks : \E i \in 1 .. own[v][b] : r = <<v, i>>
      BY <2>3, <2>5
    <3>2. PICK i \in 1 .. own[v][b] : r = <<v, i>>
      BY <3>1
    <3>3. i \in 1 .. own'[v][b]
      BY <1>2, <2>1, <2>5, <3>2
    <3>. QED  BY <2>2, <3>2, <3>3
  <2>6. <<u, n>> \in Refs(b)'
    <3>1. n \in 1 .. own'[u][b]
      BY <1>2, <2>1
    <3>. QED  BY <2>2, <3>1
  <2>7. <<t, k>> \in Refs(b)
    <3>1. k \in 1 .. own[t][b]
      BY <1>1, <2>1
    <3>. QED  BY <2>3, <3>1
  <2>8. <<u, n>> \notin Counted(b)
    <3>1. <<u, n>> \notin Refs(b)
      BY <2>1, <2>3
    <3>2. n # 0
      BY <2>1
    <3>. QED  BY <3>1, <3>2 DEF Counted
  <2>. QED  BY <2>4, <2>5, <2>6, <2>7, <2>8
<1>4. /\ \A c \in Blocks \ {b} : Refs(c)' = Refs(c)
      /\ \A c \in Blocks :
           Dropping(c)' = Dropping(c) /\ (Closing(c)' <=> Closing(c))
  BY <1>1, <1>2, RefsSame DEF Dropping, Closing
<1>5. <<t, k>> \notin Dropping(b) \X {0}
  BY <1>1
<1>. HIDE DEF k, n
<1>6. /\ Counted(b)' = (Counted(b) \ {<<t, k>>}) \cup {<<u, n>>}
      /\ <<t, k>> \in Counted(b)
      /\ \A c \in Blocks \ {b} : Counted(c)' = Counted(c)
  BY <1>3, <1>4, <1>5 DEF Counted
<1>7. RtosTypes'
  BY <1>0, <1>1, <1>2 DEF RtosTypes
<1>8. CountsAccount'
  <2>1. /\ IsFiniteSet(Refs(b)) /\ Cardinality(Refs(b)) = held[b]
        /\ IsFiniteSet(Counted(b)) /\ Cardinality(Counted(b)) = refcount[b]
    BY <1>0 DEF CountsAccount
  <2>0. <<u, n>> \notin Refs(b)
    BY <1>3 DEF Counted
  <2>2. IsFiniteSet(Refs(b)') /\ Cardinality(Refs(b)') = held'[b]
    BY <1>1, <1>3, <2>0, <2>1, OneInstead
  <2>3. IsFiniteSet(Counted(b)') /\ Cardinality(Counted(b)') = refcount'[b]
    BY <1>1, <1>3, <1>6, <2>1, OneInstead
  <2>. QED  BY <1>0, <1>1, <1>4, <1>6, <2>2, <2>3 DEF CountsAccount
<1>9. RegionsAccount'
  <2>1. Taken' = Taken
    BY <1>4, <1>6 DEF Taken
  <2>. QED  BY <1>0, <1>1, <2>1 DEF RegionsAccount, Span
<1>10. ASSUME NEW v \in Tasks PROVE Progress(v)' /\ Copying(v)'
  <2>1. Progress(v) /\ Copying(v)
    BY DEF RtosInv
  <2>2. Progress(v)'
    BY <1>1, <2>1 DEF Progress
  <2>3. ASSUME task[v].pc \in {"load", "store"} PROVE task[v].ptr # b
    BY <1>1, <2>1, <2>3 DEF Copying
  <2>4. ASSUME task[v].pc \in {"load", "store"}
        PROVE  \A w \in Tasks : own'[w][task[v].ptr] = own[w][task[v].ptr]
    BY <1>2, <2>1, <2>3, <2>4 DEF Progress
  <2>. QED  BY <1>1, <2>1, <2>2, <2>4 DEF Copying
<1>. QED  BY <1>7, <1>8, <1>9, <1>10 DEF RtosInv

-----------------------------------------------------------------------------
(* The steps that read, and those that take and give the mutex.            *)

LEMMA Going ==
  ASSUME RtosTypes, NEW t \in Tasks, NEW label, Goto(t, label),
         label \in Critical \cup {"idle", "take", "load", "store"}
  PROVE  /\ task' \in [Tasks -> TaskStates] /\ OthersRest(t)
         /\ task'[t].pc = label /\ task'[t].ptr = task[t].ptr
         /\ task'[t].size = task[t].size /\ task'[t].count = task[t].count
  BY DEF RtosTypes, TaskStates, OthersRest, Goto

LEMMA TakeRtosInv ==
  ASSUME RtosInv, NEW t \in Tasks, Take(t)
  PROVE  RtosInv'
<1>. DEFINE label == IF task[t].ptr = NULL THEN "search" ELSE "decrement"
<1>1. /\ task[t].pc = "take" /\ mutex = NoTask /\ mutex' = t /\ Goto(t, label)
      /\ UNCHANGED <<free, refcount, blocks_used, held, own>>
  BY DEF Take, At, MutexFree, vars
<1>0. /\ RtosTypes /\ Progress(t) /\ task[t] \in TaskStates
      /\ NULL \notin Blocks
      /\ \A u \in Tasks \ {t} :
           task[u].pc \in {"load", "store"} =>
             task[u].ptr \in Blocks /\ task[u].ptr # task[t].ptr
  BY BeginStep
<1>2. /\ task' \in [Tasks -> TaskStates] /\ OthersRest(t)
      /\ task'[t].pc = label /\ task'[t].ptr = task[t].ptr
      /\ task'[t].size = task[t].size
  BY <1>0, <1>1, Going DEF Critical
<1>3. task[t].ptr \in Blocks \cup {NULL}
  BY <1>0 DEF TaskStates
<1>4. \A b \in Blocks : t \in Dropping(b)' <=> t \in Dropping(b)
  BY <1>0, <1>1, <1>2, <1>3 DEF Dropping
<1>5. Progress(t)' /\ Copying(t)'
  BY <1>0, <1>1, <1>2, <1>3 DEF Progress, Copying, Critical
<1>. QED  BY <1>0, <1>1, <1>2, <1>4, <1>5, HeapUntouched

\* The region found begins at a free block, so no copy is made of it.
LEMMA SearchRtosInv ==
  ASSUME RtosInv, SizesFit, NEW t \in Tasks, Search(t)
  PROVE  RtosInv'
<1>. DEFINE n == BlocksRequired(task[t].size)
<1>1. /\ task[t].pc = "search"
      /\ UNCHANGED <<free, refcount, blocks_used, held, mutex, own>>
      /\ \/ \E i \in Blocks :
              /\ IsFirst(i, Ends(n))
              /\ task' = [task EXCEPT ![t].pc = "mark", ![t].ptr = i - n + 1]
         \/ Goto(t, "give")
  BY DEF Search, At, NoRoom, vars
<1>0. /\ RtosTypes /\ Progress(t) /\ task[t] \in TaskStates
      /\ NULL \notin Blocks
      /\ \A u \in Tasks \ {t} :
           task[u].pc \in {"load", "store"} =>
             /\ task[u].ptr \in Blocks /\ task[u].ptr # task[t].ptr
             /\ own[u][task[u].ptr] > 0
  BY BeginStep
<1>2. mutex = t /\ task[t].size \in Sizes /\ n \in Nat \ {0}
  BY <1>0, <1>1 DEF Progress, SizesFit, Critical
<1>3. CASE Goto(t, "give")
  <2>1. /\ task' \in [Tasks -> TaskStates] /\ OthersRest(t)
        /\ task'[t].pc = "give" /\ task'[t].ptr = task[t].ptr
    BY <1>0, <1>3, Going DEF Critical
  <2>2. \A b \in Blocks : t \notin Dropping(b)' /\ t \notin Dropping(b)
    BY <1>1, <2>1 DEF Dropping
  <2>3. Progress(t)' /\ Copying(t)'
    BY <1>1, <1>2, <2>1 DEF Progress, Copying
  <2>. QED  BY <1>0, <1>1, <1>2, <2>1, <2>2, <2>3, HeapUntouched
<1>4. ASSUME NEW i \in Blocks, i \in Ends(n),
             task' = [task EXCEPT ![t].pc = "mark", ![t].ptr = i - n + 1]
      PROVE  RtosInv'
  <2>. DEFINE b == i - n + 1
  <2>1. b \in Blocks /\ b .. b + n - 1 \subseteq free
    BY <1>0, <1>2, <1>4, RunIsFree DEF RtosTypes
  <2>2. b \in free
    BY <1>2, <2>1 DEF Blocks
  <2>. HIDE DEF b
  <2>3. /\ task' \in [Tasks -> TaskStates] /\ OthersRest(t)
        /\ task'[t].pc = "mark" /\ task'[t].ptr = b
        /\ task'[t].size = task[t].size
    <3>1. task' = [task EXCEPT ![t].pc = "mark", ![t].ptr = b]
      BY <1>4 DEF b
    <3>. QED  BY <1>0, <2>1, <3>1
              DEF RtosTypes, TaskStates, OthersRest, Critical
  <2>4. \A c \in Blocks : t \notin Dropping(c)' /\ t \notin Dropping(c)
    BY <1>1, <2>3 DEF Dropping
  <2>5. Progress(t)' /\ Copying(t)'
    BY <1>1, <1>2, <2>1, <2>3 DEF Progress, Copying
  <2>6. \A u \in Tasks \ {t} :
          task[u].pc \in {"load", "store"} => task[u].ptr # b
    BY <1>0, <2>2, OwnedTaken
  <2>. QED  BY <1>0, <1>1, <1>2, <2>3, <2>4, <2>5, <2>6, HeapUntouched
<1>. QED  BY <1>1, <1>3, <1>4 DEF IsFirst

\* The reference about to be dropped is counted, so the count is not 0.
LEMMA LoadToDecrementRtosInv ==
  ASSUME RtosInv, NEW t \in Tasks, LoadToDecrement(t)
  PROVE  RtosInv'
<1>. DEFINE b == task[t].ptr
<1>1. /\ task[t].pc = "decrement"
      /\ task' = [task EXCEPT ![t].pc = "decremented",
                              ![t].count = Decremented(b)]
      /\ UNCHANGED <<free, refcount, blocks_used, held, mutex, own>>
  BY DEF LoadToDecrement, At, vars
<1>0. /\ RtosTypes /\ Progress(t) /\ task[t] \in TaskStates
      /\ CountsAccount /\ NULL \notin Blocks
      /\ \A u \in Tasks \ {t} :
           task[u].pc \in {"load", "store"} => task[u].ptr # task[t].ptr
  BY BeginStep
<1>2. b \in Blocks /\ mutex = t /\ refcount[b] \in Nat
  BY <1>0, <1>1, BlocksInside DEF Progress, Critical, RtosTypes
<1>3. refcount[b] > 0
  <2>1. <<t, 0>> \in Counted(b)
    BY <1>1, CountedMember DEF Dropping
  <2>2. IsFiniteSet(Counted(b)) /\ Cardinality(Counted(b)) = refcount[b]
    BY <1>0, <1>2 DEF CountsAccount
  <2>. QED  BY <1>2, <2>1, <2>2, FS_EmptySet
<1>4. Decremented(b) \in Nat /\ Decremented(b) + 1 = refcount[b]
  BY <1>2, <1>3 DEF Decremented
<1>5. /\ task' \in [Tasks -> TaskStates] /\ OthersRest(t)
      /\ task'[t].pc = "decremented" /\ task'[t].ptr = b
      /\ task'[t].count = Decremented(b)
  BY <1>0, <1>1, <1>4 DEF RtosTypes, TaskStates, OthersRest, Critical
<1>6. \A c \in Blocks : t \in Dropping(c)' <=> t \in Dropping(c)
  BY <1>1, <1>5 DEF Dropping
<1>7. Progress(t)' /\ Copying(t)'
  BY <1>1, <1>2, <1>4, <1>5 DEF Progress, Copying
<1>. QED  BY <1>0, <1>1, <1>2, <1>5, <1>6, <1>7, HeapUntouched

LEMMA GiveRtosInv ==
  ASSUME RtosInv, NEW t \in Tasks, Give(t)
  PROVE  RtosInv'
<1>1. /\ task[t].pc = "give" /\ mutex' = NoTask
      /\ task' = [task EXCEPT ![t] = Resting]
      /\ UNCHANGED <<free, refcount, blocks_used, held, own>>
  BY DEF Give, At, vars
<1>0. /\ RtosTypes /\ Progress(t) /\ NULL \notin Blocks
      /\ \A u \in Tasks \ {t} :
           task[u].pc \in {"load", "store"} => task[u].ptr \in Blocks
  BY BeginStep
<1>2. Resting \in TaskStates /\ Resting.pc = "idle" /\ Resting.ptr = NULL
  BY DEF Resting, TaskStates
<1>3. task' \in [Tasks -> TaskStates] /\ task'[t] = Resting /\ OthersRest(t)
  BY <1>0, <1>1, <1>2, TaskMoves
<1>4. mutex = t
  BY <1>0, <1>1 DEF Progress, Critical
<1>5. \A b \in Blocks : t \notin Dropping(b)' /\ t \notin Dropping(b)
  BY <1>1, <1>2, <1>3 DEF Dropping
<1>6. Progress(t)' /\ Copying(t)'
  BY <1>2, <1>3 DEF Progress, Copying, Critical
<1>. QED  BY <1>0, <1>1, <1>2, <1>3, <1>4, <1>5, <1>6, HeapUntouched

LEMMA LoadToCopyRtosInv ==
  ASSUME RtosInv, NEW t \in Tasks, LoadToCopy(t)
  PROVE  RtosInv'
<1>. DEFINE b == task[t].ptr
<1>1. /\ task[t].pc = "load"
      /\ task' = [task EXCEPT ![t].pc = "store", ![t].count = refcount[b]]
      /\ UNCHANGED <<free, refcount, blocks_used, held, mutex, own>>
  BY DEF LoadToCopy, At, vars
<1>0. /\ RtosTypes /\ Progress(t) /\ Copying(t) /\ NULL \notin Blocks
      /\ \A u \in Tasks \ {t} :
           task[u].pc \in {"load", "store"} => task[u].ptr # task[t].ptr
  BY BeginStep
<1>2. b \in Blocks /\ refcount[b] \in Nat
  BY <1>0, <1>1, BlocksInside DEF Progress, RtosTypes
<1>3. /\ task' \in [Tasks -> TaskStates] /\ OthersRest(t)
      /\ task'[t].pc = "store" /\ task'[t].ptr = b
      /\ task'[t].count = refcount[b]
  BY <1>0, <1>1, <1>2 DEF RtosTypes, TaskStates, OthersRest, Critical
<1>4. \A c \in Blocks : t \notin Dropping(c)' /\ t \notin Dropping(c)
  BY <1>1, <1>3 DEF Dropping
<1>5. Progress(t)'
  BY <1>1, <1>2, <1>3 DEF Progress, Critical
<1>6. Copying(t)'
  BY <1>0, <1>1, <1>3 DEF Copying, OthersRest
<1>7. mutex' \in Tasks \cup {NoTask}
  BY <1>0, <1>1 DEF RtosTypes
<1>. QED  BY <1>0, <1>1, <1>3, <1>4, <1>5, <1>6, <1>7, HeapUntouched

-----------------------------------------------------------------------------
(* The steps that write the heap.                                          *)

LEMMA StoreDecrementedRtosInv ==
  ASSUME RtosInv, NEW t \in Tasks, StoreDecremented(t)
  PROVE  RtosInv'
<1>p. PICK b : b = task[t].ptr
  OBVIOUS
<1>1. /\ task[t].pc = "decremented" /\ Goto(t, "test")
      /\ refcount' = [refcount EXCEPT ![b] = task[t].count]
      /\ UNCHANGED <<free, blocks_used, held, mutex, own>>
  BY <1>p DEF StoreDecremented, At
<1>0. /\ RtosTypes /\ Progress(t) /\ task[t] \in TaskStates
      /\ CountsAccount /\ RegionsAccount
      /\ \A u \in Tasks \ {t} :
           task[u].pc \in {"load", "store"} =>
             /\ task[u].ptr \in Blocks /\ task[u].ptr # task[t].ptr
             /\ own[t][task[u].ptr] = 0
  BY BeginStep
<1>2. /\ b \in Blocks /\ b \in 0 .. N /\ mutex = t
      /\ task[t].count \in Nat /\ task[t].count + 1 = refcount[b]
  BY <1>0, <1>1, BlocksInside, <1>p DEF Progress, Critical, TaskStates
<1>3. /\ task' \in [Tasks -> TaskStates] /\ OthersRest(t)
      /\ task'[t].pc = "test" /\ task'[t].ptr = b
  BY <1>0, <1>1, Going, <1>p DEF Critical
<1>4. /\ refcount' \in [0 .. N -> Nat] /\ refcount'[b] = refcount[b] - 1
      /\ \A c \in Blocks \ {b} : refcount'[c] = refcount[c]
  BY <1>0, <1>1, <1>2, BlocksInside DEF RtosTypes
<1>5. \A c \in Blocks : Refs(c)' = Refs(c)
  BY <1>1, RefsSame
<1>6. /\ t \in Dropping(b) /\ Dropping(b)' = Dropping(b) \ {t}
      /\ \A c \in Blocks \ {b} :
           Dropping(c)' = Dropping(c) /\ (Closing(c)' <=> Closing(c))
  BY <1>1, <1>3, <1>p DEF Dropping, Closing, OthersRest
<1>7. Closing(b)'
  BY <1>3 DEF Closing
<1>8. /\ <<t, 0>> \in Counted(b) /\ Counted(b)' = Counted(b) \ {<<t, 0>>}
      /\ \A c \in Blocks \ {b} : Counted(c)' = Counted(c)
  BY <1>2, <1>5, <1>6, CountedMember DEF Counted
<1>9. RtosTypes'
  BY <1>0, <1>1, <1>3, <1>4 DEF RtosTypes
<1>10. CountsAccount'
  <2>1. IsFiniteSet(Counted(b)) /\ Cardinality(Counted(b)) = refcount[b]
    BY <1>0, <1>2 DEF CountsAccount
  <2>2. IsFiniteSet(Counted(b)') /\ Cardinality(Counted(b)') = refcount'[b]
    BY <1>4, <1>8, <2>1, OneLess
  <2>. QED  BY <1>0, <1>1, <1>4, <1>5, <1>8, <2>2 DEF CountsAccount
<1>11. RegionsAccount'
  <2>1. Taken' = Taken
    BY <1>2, <1>6, <1>7, <1>8 DEF Taken
  <2>. QED  BY <1>0, <1>1, <2>1 DEF RegionsAccount, Span
<1>12. Progress(t)' /\ Copying(t)'
  BY <1>1, <1>2, <1>3 DEF Progress, Copying
<1>13. \A u \in Tasks \ {t} : Progress(u)' /\ Copying(u)'
  <2>1. \A u \in Tasks \ {t} :
          task[u].pc \in {"decremented", "store"} =>
            refcount'[task[u].ptr] = refcount[task[u].ptr]
    <3>1. \A u \in Tasks \ {t} : task[u].pc # "decremented"
      BY <1>2 DEF RtosInv, Progress, Critical
    <3>. QED  BY <1>0, <1>4, <3>1, <1>p
  <2>. QED  BY <1>0, <1>1, <1>2, <1>3, <2>1, <1>p, OthersKeep
<1>. QED  BY <1>9, <1>10, <1>11, <1>12, <1>13 DEF RtosInv

\* The region is given back when nothing is counted in its header any more.
LEMMA FreeIfUnusedRtosInv ==
  ASSUME RtosInv, NEW t \in Tasks, FreeIfUnused(t)
  PROVE  RtosInv'
<1>p. PICK b : b = task[t].ptr
  OBVIOUS
<1>1. /\ task[t].pc = "test" /\ Goto(t, "give")
      /\ free' = IF refcount[b] = 0 THEN free \cup Span(b) ELSE free
      /\ UNCHANGED <<refcount, blocks_used, held, mutex, own>>
  BY <1>p DEF FreeIfUnused, At, Unused
<1>0. /\ RtosTypes /\ Progress(t) /\ task[t] \in TaskStates
      /\ CountsAccount /\ RegionsAccount
      /\ \A u \in Tasks \ {t} :
           task[u].pc \in {"load", "store"} =>
             task[u].ptr # task[t].ptr /\ own[t][task[u].ptr] = 0
  BY BeginStep
<1>2. b \in Blocks /\ mutex = t /\ refcount[b] \in Nat
  BY <1>0, <1>1, BlocksInside, <1>p DEF Progress, Critical, RtosTypes
<1>3. /\ task' \in [Tasks -> TaskStates] /\ OthersRest(t)
      /\ task'[t].pc = "give" /\ task'[t].ptr = b
  BY <1>0, <1>1, Going, <1>p DEF Critical
<1>4. \A c \in Blocks : Counted(c)' = Counted(c) /\ Refs(c)' = Refs(c)
  <2>1. \A c \in Blocks : Refs(c)' = Refs(c)
    BY <1>1, RefsSame
  <2>2. \A c \in Blocks : Dropping(c)' = Dropping(c)
    BY <1>1, <1>3 DEF Dropping, OthersRest
  <2>. QED  BY <2>1, <2>2 DEF Counted
<1>5. /\ Closing(b) /\ ~Closing(b)'
      /\ \A c \in Blocks \ {b} : Closing(c)' <=> Closing(c)
  <2>1. \A u \in Tasks \ {t} : task[u].pc # "test"
    BY <1>2 DEF RtosInv, Progress, Critical
  <2>. QED  BY <1>1, <1>3, <2>1, <1>p DEF Closing, OthersRest
<1>6. refcount[b] = 0 <=> Counted(b) = {}
  BY <1>0, <1>2, FS_EmptySet DEF CountsAccount
<1>7. b \in Taken
  BY <1>2, <1>5 DEF Taken
<1>8. RegionsAccount'
  <2>1. CASE refcount[b] = 0
    <3>1. Taken' = Taken \ {b}
      BY <1>2, <1>4, <1>5, <1>6, <2>1 DEF Taken
    <3>2. free' = free \cup Span(b)
      BY <1>1, <2>1
    <3>3. \A c : Span(c)' = Span(c)
      BY <1>1 DEF Span
    <3>4. Span(b) \subseteq Blocks
          /\ \A c \in Taken \ {b} : Span(b) \cap Span(c) = {}
      BY <1>0, <1>7 DEF RegionsAccount
    <3>5. free' = Blocks \ UNION {Span(c) : c \in Taken \ {b}}
      BY <1>0, <1>7, <3>2, <3>4 DEF RegionsAccount
    <3>. QED  BY <1>0, <1>1, <3>1, <3>3, <3>5 DEF RegionsAccount
  <2>2. CASE refcount[b] # 0
    <3>1. Taken' = Taken
      BY <1>2, <1>4, <1>5, <1>6, <2>2 DEF Taken
    <3>. QED  BY <1>0, <1>1, <2>2, <3>1 DEF RegionsAccount, Span
  <2>. QED  BY <2>1, <2>2
<1>9. CountsAccount'
  BY <1>0, <1>1, <1>4 DEF CountsAccount
<1>10. RtosTypes'
  <2>1. free' \subseteq Blocks
    BY <1>8 DEF RegionsAccount
  <2>. QED  BY <1>0, <1>1, <1>3, <2>1 DEF RtosTypes
<1>11. Progress(t)' /\ Copying(t)'
  BY <1>1, <1>2, <1>3 DEF Progress, Copying
<1>12. \A u \in Tasks \ {t} : Progress(u)' /\ Copying(u)'
  BY <1>0, <1>1, <1>2, <1>3, <1>p, OthersKeep
<1>. QED  BY <1>8, <1>9, <1>10, <1>11, <1>12 DEF RtosInv

\* The blocks are still free when they are marked: nobody else has searched,
\* and no region in use or being given up begins among them.
LEMMA MarkRtosInv ==
  ASSUME RtosInv, SizesFit, NEW t \in Tasks, Mark(t)
  PROVE  RtosInv'
<1>p. PICK b : b = task[t].ptr
  OBVIOUS
<1>. DEFINE n == BlocksRequired(task[t].size)
            region == b .. b + n - 1
<1>1. /\ task[t].pc = "mark" /\ Goto(t, "give") /\ mutex' = mutex
      /\ free' = free \ region
      /\ blocks_used' = [blocks_used EXCEPT ![b] = n]
      /\ refcount' = [refcount EXCEPT ![b] = 1]
      /\ held' = [held EXCEPT ![b] = 1]
      /\ own' = [own EXCEPT ![t][b] = 1]
  BY <1>p DEF Mark, At, Allocated, MarkUsed, SetupHeader
<1>0. /\ RtosTypes /\ Progress(t) /\ task[t] \in TaskStates
      /\ CountsAccount /\ RegionsAccount
      /\ \A u \in Tasks \ {t} :
           task[u].pc \in {"load", "store"} =>
             /\ task[u].ptr \in Blocks /\ task[u].ptr # task[t].ptr
             /\ own[u][task[u].ptr] > 0 /\ own[t][task[u].ptr] = 0
  BY BeginStep
<1>2. /\ b \in Blocks /\ b \in 0 .. N /\ mutex = t /\ task[t].size \in Sizes
      /\ n \in Nat \ {0} /\ region \subseteq free
  BY <1>0, <1>1, BlocksInside, <1>p DEF Progress, Critical, SizesFit
<1>3. /\ task' \in [Tasks -> TaskStates] /\ OthersRest(t)
      /\ task'[t].pc = "give" /\ task'[t].ptr = b
  BY <1>0, <1>1, Going, <1>p DEF Critical
<1>4. b \in region /\ b \in free
  BY <1>2 DEF Blocks
<1>. HIDE DEF n, region
<1>5. b \notin Taken
  BY <1>4, TakenNotFree
<1>6. Counted(b) = {} /\ Refs(b) = {} /\ Dropping(b) = {} /\ ~Closing(b)
  <2>1. Counted(b) = {} /\ ~Closing(b)
    BY <1>2, <1>5 DEF Taken
  <2>2. Refs(b) = {} /\ Dropping(b) \X {0} = {}
    BY <2>1 DEF Counted
  <2>3. \A u \in Dropping(b) : <<u, 0>> \in Dropping(b) \X {0}
    OBVIOUS
  <2>4. Dropping(b) = {}
    BY <2>2, <2>3
  <2>. QED  BY <2>1, <2>2, <2>4
<1>7. \A u \in Tasks : own[u][b] = 0
  <2>1. \A u \in Tasks : own[u][b] \in Nat
    BY <1>0, <1>2 DEF RtosTypes
  <2>. QED  BY <1>2, <1>5, <2>1, OwnedTaken
<1>8. /\ refcount' \in [0 .. N -> Nat] /\ blocks_used' \in [0 .. N -> Nat]
      /\ held' \in [0 .. N -> Nat] /\ own' \in [Tasks -> [Blocks -> Nat]]
      /\ refcount'[b] = 1 /\ blocks_used'[b] = n /\ held'[b] = 1
      /\ own'[t][b] = 1
      /\ \A c \in Blocks \ {b} :
           /\ refcount'[c] = refcount[c] /\ held'[c] = held[c]
           /\ blocks_used'[c] = blocks_used[c]
      /\ \A u \in Tasks, c \in Blocks :
           (u # t \/ c # b) => own'[u][c] = own[u][c]
  <2>1. /\ refcount \in [0 .. N -> Nat] /\ blocks_used \in [0 .. N -> Nat]
        /\ held \in [0 .. N -> Nat] /\ own \in [Tasks -> [Blocks -> Nat]]
    BY <1>0 DEF RtosTypes
  <2>. QED  BY <1>1, <1>2, <2>1, BlocksInside
<1>9. RtosTypes'
  BY <1>0, <1>1, <1>3, <1>8 DEF RtosTypes
<1>10. Refs(b)' = {<<t, 1>>} /\ \A c \in Blocks \ {b} : Refs(c)' = Refs(c)
  <2>1. own[t][b] + 1 = 1 /\ own'[t][b] = own[t][b] + 1
    BY <1>7, <1>8
  <2>2. \A u \in Tasks \ {t} : own'[u][b] = own[u][b]
    BY <1>2, <1>8
  <2>3. Refs(b)' = Refs(b) \cup {<<t, own[t][b] + 1>>}
    BY <1>0, <1>2, <2>1, <2>2, RefsAdded
  <2>4. \A c \in Blocks \ {b} : Refs(c)' = Refs(c)
    BY <1>8, RefsSame
  <2>. QED  BY <1>6, <2>1, <2>3, <2>4
<1>11. \A c \in Blocks :
         Dropping(c)' = Dropping(c) /\ (Closing(c)' <=> Closing(c))
  BY <1>1, <1>3 DEF Dropping, Closing, OthersRest
<1>12. /\ Counted(b)' = {<<t, 1>>}
       /\ \A c \in Blocks \ {b} : Counted(c)' = Counted(c)
  BY <1>6, <1>2, <1>10, <1>11 DEF Counted
<1>13. CountsAccount'
  <2>1. IsFiniteSet({<<t, 1>>}) /\ Cardinality({<<t, 1>>}) = 1
    BY FS_Singleton
  <2>2. ASSUME NEW c \in Blocks \ {b}
        PROVE  /\ Refs(c)' = Refs(c) /\ held'[c] = held[c]
               /\ Counted(c)' = Counted(c) /\ refcount'[c] = refcount[c]
    BY <1>8, <1>10, <1>12
  <2>3. /\ IsFiniteSet(Refs(b)') /\ Cardinality(Refs(b)') = held'[b]
        /\ IsFiniteSet(Counted(b)') /\ Cardinality(Counted(b)') = refcount'[b]
    BY <1>8, <1>10, <1>12, <2>1
  <2>. QED  BY <1>0, <2>2, <2>3 DEF CountsAccount
<1>14. RegionsAccount'
  <2>1. Taken' = Taken \cup {b}
    BY <1>2, <1>11, <1>12 DEF Taken
  <2>2. Taken \subseteq Blocks
    BY DEF Taken
  <2>3. Span(b)' = region /\ \A c \in Taken : Span(c)' = Span(c)
    BY <1>5, <1>8, <2>2 DEF Span, region
  <2>4. region \subseteq Blocks /\ \A c \in Taken : region \cap Span(c) = {}
    BY <1>0, <1>2 DEF RegionsAccount
  <2>5. free' = Blocks \ UNION {Span(c)' : c \in Taken \cup {b}}
    BY <1>0, <1>1, <2>3 DEF RegionsAccount
  <2>6. ASSUME NEW c \in Taken \cup {b}
        PROVE  blocks_used'[c] > 0 /\ Span(c)' \subseteq Blocks
    <3>1. CASE c = b
      <4>1. blocks_used'[b] > 0
        BY <1>2, <1>8
      <4>. QED  BY <2>3, <2>4, <3>1, <4>1
    <3>2. CASE c # b
      BY <1>0, <1>8, <2>2, <2>3, <3>2 DEF RegionsAccount
    <3>. QED  BY <3>1, <3>2
  <2>7. \A a, c \in Taken \cup {b} : a # c => Span(a)' \cap Span(c)' = {}
    BY <1>0, <2>3, <2>4 DEF RegionsAccount
  <2>. QED  BY <2>1, <2>5, <2>6, <2>7 DEF RegionsAccount
<1>15. Progress(t)' /\ Copying(t)'
  BY <1>1, <1>2, <1>3 DEF Progress, Copying
<1>16. \A u \in Tasks \ {t} : Progress(u)' /\ Copying(u)'
  <2>1. \A u \in Tasks \ {t} : task[u].pc # "decremented" /\ mutex # u
    BY <1>2 DEF RtosInv, Progress, Critical
  <2>2. \A u \in Tasks \ {t} :
          task[u].pc \in {"load", "store"} => task[u].ptr \in Blocks \ {b}
    BY <1>0, <1>p
  <2>3. \A u \in Tasks \ {t} :
          task[u].pc \in {"decremented", "store"} =>
            refcount'[task[u].ptr] = refcount[task[u].ptr]
    BY <1>8, <2>1, <2>2
  <2>4. \A u \in Tasks \ {t} :
          task[u].pc \in {"load", "store"} =>
            task'[t].ptr # task[u].ptr /\ own'[t][task[u].ptr] = 0
    BY <1>0, <1>3, <1>8, <2>2
  <2>5. \A u, v \in Tasks \ {t} :
          task[u].pc \in {"load", "store"} =>
            own'[v][task[u].ptr] = own[v][task[u].ptr]
    BY <1>8, <2>2
  <2>. QED  BY <1>1, <1>3, <2>1, <2>3, <2>4, <2>5, OthersKeep
<1>. QED  BY <1>9, <1>13, <1>14, <1>15, <1>16 DEF RtosInv

\* Nobody has changed the count since it was read: the copy was alone.
LEMMA StoreCopiedRtosInv ==
  ASSUME RtosInv, NEW t \in Tasks, StoreCopied(t)
  PROVE  RtosInv'
<1>p. PICK b : b = task[t].ptr
  OBVIOUS
<1>. DEFINE k == own[t][b] + 1
<1>1. /\ task[t].pc = "store" /\ task' = [task EXCEPT ![t] = Resting]
      /\ refcount' = [refcount EXCEPT ![b] = task[t].count + 1]
      /\ own' = [own EXCEPT ![t][b] = @ + 1]
      /\ held' = [held EXCEPT ![b] = @ + 1]
      /\ UNCHANGED <<free, blocks_used, mutex>>
  BY <1>p DEF StoreCopied, At
<1>0. /\ RtosTypes /\ Progress(t) /\ Copying(t) /\ NULL \notin Blocks
      /\ CountsAccount /\ RegionsAccount
      /\ \A u \in Tasks \ {t} :
           task[u].pc \in {"load", "store"} =>
             /\ task[u].ptr \in Blocks /\ task[u].ptr # task[t].ptr
             /\ own[t][task[u].ptr] = 0
  BY BeginStep
<1>2. /\ b \in Blocks /\ b \in 0 .. N
      /\ own[t][b] > 0 /\ task[t].count = refcount[b]
  BY <1>0, <1>1, BlocksInside, <1>p DEF Progress, Copying
<1>3. Resting \in TaskStates /\ Resting.pc = "idle" /\ Resting.ptr = NULL
  BY <1>p DEF Resting, TaskStates
<1>4. task' \in [Tasks -> TaskStates] /\ task'[t] = Resting /\ OthersRest(t)
  BY <1>0, <1>1, <1>3, TaskMoves
<1>5. /\ refcount' \in [0 .. N -> Nat] /\ refcount'[b] = refcount[b] + 1
      /\ held' \in [0 .. N -> Nat] /\ held'[b] = held[b] + 1
      /\ \A c \in Blocks \ {b} :
           refcount'[c] = refcount[c] /\ held'[c] = held[c]
  <2>1. refcount \in [0 .. N -> Nat] /\ held \in [0 .. N -> Nat]
    BY <1>0 DEF RtosTypes
  <2>. QED  BY <1>1, <1>2, <2>1, BlocksInside
<1>6. /\ own' \in [Tasks -> [Blocks -> Nat]] /\ own'[t][b] = own[t][b] + 1
      /\ \A u \in Tasks, c \in Blocks :
           (u # t \/ c # b) => own'[u][c] = own[u][c]
  <2>1. own \in [Tasks -> [Blocks -> Nat]] /\ own[t][b] \in Nat
    BY <1>0, <1>2 DEF RtosTypes
  <2>. QED  BY <1>1, <1>2, <2>1
<1>7. /\ Refs(b)' = Refs(b) \cup {<<t, k>>} /\ <<t, k>> \notin Counted(b)
      /\ \A c \in Blocks \ {b} : Refs(c)' = Refs(c)
  BY <1>0, <1>2, <1>6, RefsAdded, RefsSame DEF Counted
<1>. HIDE DEF k
<1>8. \A c \in Blocks :
         Dropping(c)' = Dropping(c) /\ (Closing(c)' <=> Closing(c))
  BY <1>1, <1>3, <1>4 DEF Dropping, Closing, OthersRest
<1>9. /\ Counted(b)' = Counted(b) \cup {<<t, k>>}
      /\ \A c \in Blocks \ {b} : Counted(c)' = Counted(c)
  BY <1>2, <1>7, <1>8 DEF Counted
<1>10. RtosTypes'
  BY <1>0, <1>1, <1>4, <1>5, <1>6 DEF RtosTypes
<1>11. CountsAccount'
  <2>1. /\ IsFiniteSet(Refs(b)) /\ Cardinality(Refs(b)) = held[b]
        /\ IsFiniteSet(Counted(b)) /\ Cardinality(Counted(b)) = refcount[b]
    BY <1>0, <1>2 DEF CountsAccount
  <2>2. IsFiniteSet(Refs(b)') /\ Cardinality(Refs(b)') = held'[b]
    BY <1>5, <1>7, <2>1, OneMore DEF Counted
  <2>3. IsFiniteSet(Counted(b)') /\ Cardinality(Counted(b)') = refcount'[b]
    BY <1>5, <1>7, <1>9, <2>1, OneMore
  <2>. QED  BY <1>0, <1>5, <1>7, <1>9, <2>2, <2>3 DEF CountsAccount
<1>12. RegionsAccount'
  <2>1. b \in Taken
    BY <1>2, OwnedTaken
  <2>2. Taken' = Taken
    BY <1>8, <1>9, <2>1 DEF Taken
  <2>. QED  BY <1>0, <1>1, <2>2 DEF RegionsAccount, Span
<1>13. Progress(t)' /\ Copying(t)'
  BY <1>3, <1>4 DEF Progress, Copying, Critical
<1>14. \A u \in Tasks \ {t} : Progress(u)' /\ Copying(u)'
  <2>1. \A u \in Tasks \ {t} :
          task[u].pc \in {"decremented", "store"} =>
            task[u].ptr \in Blocks \ {b}
    BY <1>0, <1>1, <1>p DEF RtosInv, Progress, Copying
  <2>2. \A u \in Tasks \ {t} :
          task[u].pc \in {"decremented", "store"} =>
            refcount'[task[u].ptr] = refcount[task[u].ptr]
    BY <1>5, <2>1
  <2>3. \A u \in Tasks \ {t} :
          task[u].pc \in {"load", "store"} => task[u].ptr \in Blocks \ {b}
    BY <1>0, <1>p
  <2>4. \A u \in Tasks \ {t} :
          task[u].pc \in {"load", "store"} =>
            task'[t].ptr # task[u].ptr /\ own'[t][task[u].ptr] = 0
    BY <1>0, <1>3, <1>4, <1>6, <2>3
  <2>5. \A u, v \in Tasks \ {t} :
          task[u].pc \in {"load", "store"} =>
            own'[v][task[u].ptr] = own[v][task[u].ptr]
    BY <1>6, <2>3
  <2>. QED  BY <1>1, <1>4, <2>2, <2>4, <2>5, OthersKeep
<1>. QED  BY <1>10, <1>11, <1>12, <1>13, <1>14 DEF RtosInv

-----------------------------------------------------------------------------
(* The theorems.                                                           *)

LEMMA RtosStutterInv ==
  ASSUME RtosInv, UNCHANGED rvars
  PROVE  RtosInv'
<1>1. UNCHANGED <<free, refcount, blocks_used, held, mutex, task, own>>
  BY DEF rvars, vars
<1>2. \A b \in Blocks :
        /\ Refs(b)' = Refs(b) /\ Dropping(b)' = Dropping(b)
        /\ Closing(b)' <=> Closing(b)
  BY <1>1 DEF Refs, Dropping, Closing
<1>3. \A b \in Blocks : Counted(b)' = Counted(b)
  BY <1>2 DEF Counted
<1>4. Taken' = Taken
  BY <1>2, <1>3 DEF Taken
<1>5. RtosTypes'
  BY <1>1 DEF RtosInv, RtosTypes
<1>6. \A t \in Tasks : Progress(t)' /\ Copying(t)'
  BY <1>1 DEF RtosInv, Progress, Copying
<1>7. CountsAccount'
  BY <1>1, <1>2, <1>3 DEF RtosInv, CountsAccount
<1>8. RegionsAccount'
  BY <1>1, <1>4 DEF RtosInv, RegionsAccount, Span
<1>. QED  BY <1>5, <1>6, <1>7, <1>8 DEF RtosInv

LEMMA RtosNextInv ==
  ASSUME CopiesAlone, RtosInv, [RtosNext]_rvars
  PROVE  RtosInv'
<1>. USE DEF CopiesAlone
<1>1. ASSUME NEW t \in Tasks, App(t) PROVE RtosInv'
  <2>1. CASE \E size \in Sizes : StartAlloc(t, size)
    BY <2>1, StartAllocRtosInv
  <2>2. CASE \E b \in Blocks : StartCopy(t, b)
    BY <2>2, StartCopyRtosInv
  <2>3. CASE \E b \in Blocks : StartFree(t, b)
    BY <2>3, StartFreeRtosInv
  <2>4. CASE \E b \in Blocks, u \in Tasks \ {t} : HandOver(t, u, b)
    BY <2>4, HandOverRtosInv
  <2>. QED  BY <1>1, <2>1, <2>2, <2>3, <2>4 DEF App
<1>2. ASSUME NEW t \in Tasks, Step(t) PROVE RtosInv'
  <2>1. CASE Take(t)
    BY <2>1, TakeRtosInv
  <2>2. CASE Search(t)
    BY <2>2, SearchRtosInv
  <2>3. CASE Mark(t)
    BY <2>3, MarkRtosInv
  <2>4. CASE Give(t)
    BY <2>4, GiveRtosInv
  <2>5. CASE LoadToDecrement(t)
    BY <2>5, LoadToDecrementRtosInv
  <2>6. CASE StoreDecremented(t)
    BY <2>6, StoreDecrementedRtosInv
  <2>7. CASE FreeIfUnused(t)
    BY <2>7, FreeIfUnusedRtosInv
  <2>8. CASE LoadToCopy(t)
    BY <2>8, LoadToCopyRtosInv
  <2>9. CASE StoreCopied(t)
    BY <2>9, StoreCopiedRtosInv
  <2>. QED  BY <1>2, <2>1, <2>2, <2>3, <2>4, <2>5, <2>6, <2>7, <2>8, <2>9
            DEF Step
<1>. QED  BY <1>1, <1>2, RtosStutterInv DEF RtosNext

LEMMA RtosInvariant ==
  ASSUME CopiesAlone
  PROVE  RtosSpec => []RtosInv
<1>1. RtosInv /\ [RtosNext]_rvars => RtosInv'
  BY RtosNextInv
<1>. QED  BY <1>1, RtosInitInv, PTL DEF RtosSpec

\* A region to which some task holds a reference is in use.
LEMMA LiveTaken ==
  ASSUME RtosInv
  PROVE  Live \subseteq Taken
<1>. SUFFICES ASSUME NEW b \in Live PROVE b \in Taken
  OBVIOUS
<1>1. b \in Blocks /\ Refs(b) # {}
  BY HeldTaken DEF Live
<1>. QED  BY <1>1 DEF Taken, Counted

\* Outside of calls, the metadata is exact.
LEMMA QuietIsExact == RtosInv => QuietExact
<1>. SUFFICES ASSUME RtosInv, Quiet
              PROVE  RefcountExact /\ RegionsDisjoint /\ BitmapExact
  BY DEF QuietExact
<1>1. \A b \in Blocks : Dropping(b) = {} /\ ~Closing(b)
  BY DEF Quiet, At, Dropping, Closing
<1>2. \A b \in Blocks : Counted(b) = Refs(b)
  BY <1>1 DEF Counted
<1>3. Live = Taken
  BY <1>1, <1>2, HeldTaken DEF Live, Taken
<1>4. RefcountExact
  BY <1>2 DEF RtosInv, CountsAccount, RefcountExact, Live
<1>5. RegionsDisjoint /\ BitmapExact
  BY <1>3 DEF RtosInv, RegionsAccount, RegionsDisjoint, BitmapExact
<1>. QED  BY <1>4, <1>5

\* Inside of calls, nothing in use is free or part of two regions.
LEMMA InUseIsApart == RtosInv => TaskSafe
<1>. SUFFICES ASSUME RtosInv PROVE TaskSafe
  OBVIOUS
<1>. QED  BY LiveTaken DEF RtosInv, RegionsAccount, TaskSafe

\* However the tasks preempt each other, no update of a count or of the bitmap
\* is lost: whenever no call is in progress the metadata is exact.
THEOREM NoUpdateLost ==
  ASSUME CopiesAlone
  PROVE  RtosSpec => []QuietExact
BY RtosInvariant, QuietIsExact, PTL

\* And at no moment is a block of a region in use free for another task, or
\* part of a second region.
THEOREM NoBlockTwice ==
  ASSUME CopiesAlone
  PROVE  RtosSpec => []TaskSafe
BY RtosInvariant, InUseIsApart, PTL
=============================================================================
