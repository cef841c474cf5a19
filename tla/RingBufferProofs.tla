-------------------------- MODULE RingBufferProofs --------------------------
(***************************************************************************)
(* The ring buffer's indexes agree and the buffer is a bounded queue, for  *)
(* every size, every alphabet and every set of chunks.                     *)
(***************************************************************************)
EXTENDS RingBuffer, SequenceTheorems, TLAPS

USE RingAssumption

IInv == TypeOK /\ IndexesAgree

\* Indexes pass the end at most once at a time.
LEMMA AroundIs ==
  ASSUME NEW i \in 0 .. 2 * Size
  PROVE  /\ i < Size => Around(i) = i
         /\ Size <= i /\ i < 2 * Size => Around(i) = i - Size
         /\ i = 2 * Size => Around(i) = 0
         /\ Around(i) \in Index
<1>. DEFINE S == Size
<1>0. S \in Nat \ {0} /\ i \in 0 .. 2 * S
  OBVIOUS
<1>. HIDE DEF S
<1>1. i < S => i % S = i
  BY <1>0
<1>2. Size <= i /\ i < 2 * S => i % S = i - S
  BY <1>0 DEF S
<1>3. i = 2 * S => i % S = 0
  BY <1>0
<1>4. i % S \in 0 .. S - 1
  BY <1>0
<1>. QED  BY <1>1, <1>2, <1>3, <1>4 DEF Around, Index, S

LEMMA BeforeIs ==
  ASSUME NEW i \in 0 - Size .. 0 - 1
  PROVE  i % Size = i + Size
<1>. DEFINE S == Size
<1>0. S \in Nat \ {0} /\ i \in 0 - S .. 0 - 1
  OBVIOUS
<1>. HIDE DEF S
<1>1. i % S = i + S
  BY <1>0
<1>. QED  BY <1>1 DEF S

\* Where head is, said without the remainder.
LEMMA HeadIs ==
  ASSUME IInv
  PROVE  /\ tail + used < Size => head = tail + used
         /\ Size <= tail + used => head = tail + used - Size
<1>1. /\ tail \in Int /\ used \in Int /\ Size \in Int
      /\ tail + used \in 0 .. 2 * Size /\ tail + used < 2 * Size
  BY DEF IInv, TypeOK, Index
<1>2. /\ tail + used < Size => Around(tail + used) = tail + used
      /\ Size <= tail + used => Around(tail + used) = tail + used - Size
  BY <1>1, AroundIs
<1>. QED  BY <1>2 DEF IInv, IndexesAgree

LEMMA InitInv == Init => IInv
<1>. SUFFICES ASSUME Init PROVE IInv
  OBVIOUS
<1>1. TypeOK
  BY DEF Init, TypeOK, Index
<1>2. IndexesAgree
  BY AroundIs DEF Init, IndexesAgree
<1>. QED  BY <1>1, <1>2 DEF IInv

\* Storing data behind head, where it fits, appends it to the contents.
LEMMA StoreAppends ==
  ASSUME IInv, NEW data \in Seq(Byte), Len(data) <= FreeBytes,
         buf' = CopyIn(data), head' = Around(head + Len(data)),
         used' = used + Len(data), UNCHANGED tail
  PROVE  /\ buf' \in [Index -> Byte] /\ head' \in Index /\ used' \in 0 .. Size
         /\ IndexesAgree'
         /\ Contents' = Contents \o data
<1>. DEFINE n == Len(data)
<1>1. /\ n \in Nat /\ data \in [1 .. n -> Byte]
      /\ buf \in [Index -> Byte] /\ head \in Index /\ tail \in Index
      /\ used \in 0 .. Size /\ used + n <= Size
  BY DEF IInv, TypeOK, FreeBytes
<1>. HIDE DEF n
<1>2. /\ tail + used < Size => head = tail + used
      /\ Size <= tail + used => head = tail + used - Size
  BY HeadIs
<1>3. \A k \in Index : buf'[k] \in Byte
  BY <1>1 DEF CopyIn, Index, n
<1>4. buf' \in [Index -> Byte]
  BY <1>3 DEF CopyIn
<1>5. head + n \in 0 .. 2 * Size
  BY <1>1 DEF Index
<1>6. head' \in Index /\ used' \in 0 .. Size
  BY <1>1, <1>5, AroundIs DEF n
<1>7. IndexesAgree'
  <2>1. tail + used + n \in 0 .. 2 * Size /\ tail + used + n < 2 * Size
    BY <1>1 DEF Index
  <2>2. Around(head + n) = Around(tail + (used + n))
    BY <1>1, <1>2, <1>5, <2>1, AroundIs DEF Index
  <2>. QED  BY <2>2 DEF IndexesAgree, n
<1>8. ASSUME NEW i \in 1 .. used + n
      PROVE  buf'[Around(tail + i - 1)] =
               IF i <= used THEN buf[Around(tail + i - 1)] ELSE data[i - used]
  <2>. DEFINE k == Around(tail + i - 1)
  <2>1. tail + i - 1 \in 0 .. 2 * Size /\ tail + i - 1 < 2 * Size
    BY <1>1 DEF Index
  <2>2. /\ k \in Index
        /\ tail + i - 1 < Size => k = tail + i - 1
        /\ Size <= tail + i - 1 => k = tail + i - 1 - Size
    BY <1>1, <2>1, AroundIs
  <2>3. buf'[k] = IF head <= k /\ k < head + n THEN data[k - head + 1]
                  ELSE IF k < n - (Size - head)
                       THEN data[k + (Size - head) + 1]
                       ELSE buf[k]
    BY <2>2 DEF CopyIn, n
  <2>. HIDE DEF k
  <2>4. CASE i <= used
    <3>1. ~(head <= k /\ k < head + n) /\ ~(k < n - (Size - head))
      BY <1>1, <1>2, <2>2, <2>4 DEF Index
    <3>. QED  BY <2>3, <2>4, <3>1 DEF k
  <2>5. CASE i > used /\ head <= k
    <3>1. k < head + n /\ k - head + 1 = i - used
      BY <1>1, <1>2, <2>2, <2>5 DEF Index
    <3>. QED  BY <1>1, <2>3, <2>5, <3>1 DEF k
  <2>6. CASE i > used /\ k < head
    <3>1. k < n - (Size - head) /\ k + (Size - head) + 1 = i - used
      BY <1>1, <1>2, <2>2, <2>6 DEF Index
    <3>2. ~(head <= k) /\ ~(i <= used)
      BY <1>1, <2>2, <2>6 DEF Index
    <3>. QED  BY <2>3, <3>1, <3>2 DEF k
  <2>. QED  BY <1>1, <2>2, <2>4, <2>5, <2>6 DEF Index
<1>9. Contents' = Contents \o data
  <2>1. /\ Contents \in Seq(Byte) /\ Len(Contents) = used
        /\ \A i \in 1 .. used : Contents[i] = buf[Around(tail + i - 1)]
    <3>1. \A i \in 1 .. used : Around(tail + i - 1) \in Index
      <4>1. \A i \in 1 .. used : tail + i - 1 \in 0 .. 2 * Size
        BY <1>1 DEF Index
      <4>. QED  BY <4>1, AroundIs
    <3>. QED  BY <1>1, <3>1 DEF Contents
  <2>2. Contents' = [i \in 1 .. used + n |-> buf'[Around(tail + i - 1)]]
    BY DEF Contents, n
  <2>3. Contents \o data =
          [i \in 1 .. used + n |-> IF i <= used THEN Contents[i]
                                   ELSE data[i - used]]
    <3>1. /\ Len(Contents \o data) = used + n
          /\ Contents \o data \in Seq(Byte)
      BY <1>1, <2>1 DEF n
    <3>2. ASSUME NEW i \in 1 .. used + n
          PROVE  (Contents \o data)[i] = IF i <= used THEN Contents[i]
                                         ELSE data[i - used]
      BY <1>1, <2>1, ConcatProperties DEF n
    <3>. DEFINE both == Contents \o data
    <3>3. both \in Seq(Byte) /\ Len(both) = used + n
      BY <3>1
    <3>4. \A i \in 1 .. used + n :
            both[i] = IF i <= used THEN Contents[i] ELSE data[i - used]
      BY <3>2
    <3>. HIDE DEF both
    <3>5. both \in [1 .. used + n -> Byte]
      BY <3>3
    <3>6. both = [i \in 1 .. used + n |-> IF i <= used THEN Contents[i]
                                          ELSE data[i - used]]
      BY <3>4, <3>5
    <3>. QED  BY <3>6 DEF both
  <2>. QED  BY <1>8, <2>1, <2>2, <2>3
<1>. QED  BY <1>4, <1>6, <1>7, <1>9

\* A DMA that wraps byte by byte stores what the two memcpy()s would.
LEMMA DmaStores ==
  ASSUME IInv, NEW data \in Seq(Byte), Len(data) <= FreeBytes
  PROVE  [k \in Index |-> LET i == (k - head) % Size
                          IN  IF i < Len(data) THEN data[i + 1] ELSE buf[k]]
         = CopyIn(data)
<1>1. /\ Len(data) \in Nat /\ head \in Index /\ Len(data) <= Size
  BY DEF IInv, TypeOK, FreeBytes
<1>2. ASSUME NEW k \in Index
      PROVE  (k - head) % Size = IF head <= k THEN k - head ELSE k - head + Size
  <2>. DEFINE d == k - head
  <2>1. d \in Int /\ (head <= k <=> 0 <= d) /\ d < Size /\ 0 - Size <= d
    BY <1>1 DEF Index
  <2>. HIDE DEF d
  <2>2. CASE 0 <= d
    <3>1. d \in 0 .. 2 * Size /\ d < Size
      BY <2>1, <2>2
    <3>2. d % Size = d
      BY <3>1, AroundIs DEF Around
    <3>. QED  BY <2>1, <2>2, <3>2 DEF d
  <2>3. CASE d < 0
    <3>1. d \in 0 - Size .. 0 - 1
      BY <2>1, <2>3
    <3>2. d % Size = d + Size
      BY <3>1, BeforeIs
    <3>3. ~(head <= k)
      BY <2>1, <2>3
    <3>. QED  BY <3>2, <3>3 DEF d
  <2>. QED  BY <2>1, <2>2, <2>3
<1>3. ASSUME NEW k \in Index
      PROVE  (LET i == (k - head) % Size
              IN  IF i < Len(data) THEN data[i + 1] ELSE buf[k])
             = IF head <= k /\ k < head + Len(data) THEN data[k - head + 1]
               ELSE IF k < Len(data) - (Size - head)
                    THEN data[k + (Size - head) + 1]
                    ELSE buf[k]
  <2>1. CASE head <= k
    <3>1. (k - head) % Size = k - head
      BY <1>2, <2>1
    <3>2. ~(k < Len(data) - (Size - head))
      BY <1>1, <2>1 DEF Index
    <3>3. k - head < Len(data) <=> k < head + Len(data)
      BY <1>1 DEF Index
    <3>. QED  BY <2>1, <3>1, <3>2, <3>3
  <2>2. CASE ~(head <= k)
    <3>1. (k - head) % Size = k + (Size - head)
      BY <1>1, <1>2, <2>2 DEF Index
    <3>2. k + (Size - head) < Len(data) <=> k < Len(data) - (Size - head)
      BY <1>1 DEF Index
    <3>. QED  BY <2>2, <3>1, <3>2
  <2>. QED  BY <2>1, <2>2
<1>. QED  BY <1>3 DEF CopyIn

\* Reading takes the oldest bytes, in order, and leaves the others.
LEMMA ReadTakes ==
  ASSUME IInv, NEW n \in 0 .. Size + 1, n <= used,
         tail' = Around(tail + n), used' = used - n,
         UNCHANGED <<buf, head>>
  PROVE  /\ tail' \in Index /\ used' \in 0 .. Size /\ IndexesAgree'
         /\ CopyOut(n) = SubSeq(Contents, 1, n)
         /\ Contents' = SubSeq(Contents, n + 1, used)
<1>1. /\ buf \in [Index -> Byte] /\ head \in Index /\ tail \in Index
      /\ used \in 0 .. Size /\ n \in 0 .. Size
      /\ tail + n \in 0 .. 2 * Size /\ tail + n < 2 * Size
  BY DEF IInv, TypeOK, Index
<1>2. /\ tail' \in Index /\ used' \in 0 .. Size
      /\ tail + n < Size => tail' = tail + n
      /\ Size <= tail + n => tail' = tail + n - Size
  <2>1. tail \in Int /\ n \in Int /\ Size \in Int
    BY <1>1 DEF Index
  <2>2. tail' = Around(tail + n) /\ used' = used - n
    OBVIOUS
  <2>. QED  BY <1>1, <2>1, <2>2, AroundIs
<1>3. ASSUME NEW i \in 1 .. used
      PROVE  /\ Around(tail + i - 1) \in Index
             /\ tail + i - 1 < Size => Around(tail + i - 1) = tail + i - 1
             /\ Size <= tail + i - 1 =>
                  Around(tail + i - 1) = tail + i - 1 - Size
  <2>1. tail + i - 1 \in 0 .. 2 * Size /\ tail + i - 1 < 2 * Size
    BY <1>1 DEF Index
  <2>2. tail \in Int /\ i \in Int /\ Size \in Int
    BY <1>1 DEF Index
  <2>. QED  BY <2>1, <2>2, AroundIs
<1>4. IndexesAgree'
  <2>1. /\ tail + used < Size => head = tail + used
        /\ Size <= tail + used => head = tail + used - Size
    BY HeadIs
  <2>2. tail' + used' \in 0 .. 2 * Size /\ tail' + used' < 2 * Size
    BY <1>1, <1>2 DEF Index
  <2>3. head = Around(tail' + used')
    BY <1>1, <1>2, <2>1, <2>2, AroundIs DEF Index
  <2>. QED  BY <2>3 DEF IndexesAgree
<1>5. /\ Contents \in Seq(Byte) /\ Len(Contents) = used
      /\ \A i \in 1 .. used : Contents[i] = buf[Around(tail + i - 1)]
  BY <1>1, <1>3 DEF Contents
<1>6. CopyOut(n) = SubSeq(Contents, 1, n)
  <2>1. SubSeq(Contents, 1, n) = [i \in 1 .. n |-> Contents[i]]
    BY <1>1, <1>5
  <2>2. ASSUME NEW i \in 1 .. n
        PROVE  Contents[i] = IF i <= Size - tail THEN buf[tail + i - 1]
                             ELSE buf[i - (Size - tail) - 1]
    BY <1>1, <1>3, <1>5 DEF Index
  <2>. QED  BY <2>1, <2>2 DEF CopyOut
<1>7. Contents' = SubSeq(Contents, n + 1, used)
  <2>1. SubSeq(Contents, n + 1, used) = [i \in 1 .. used - n |-> Contents[i + n]]
    BY <1>1, <1>5
  <2>2. Contents' = [i \in 1 .. used - n |-> buf[Around(tail' + i - 1)]]
    BY DEF Contents
  <2>3. ASSUME NEW i \in 1 .. used - n
        PROVE  Around(tail' + i - 1) = Around(tail + (i + n) - 1)
    <3>1. tail' + i - 1 \in 0 .. 2 * Size /\ tail' + i - 1 < 2 * Size
      BY <1>1, <1>2 DEF Index
    <3>2. i + n \in 1 .. used
      BY <1>1
    <3>. QED  BY <1>1, <1>2, <1>3, <3>1, <3>2, AroundIs DEF Index
  <2>4. \A i \in 1 .. used - n : i + n \in 1 .. used
    BY <1>1
  <2>5. ASSUME NEW i \in 1 .. used - n
        PROVE  buf'[Around(tail' + i - 1)] = Contents[i + n]
    <3>1. buf' = buf /\ i + n \in 1 .. used
      BY <2>4
    <3>2. Contents[i + n] = buf[Around(tail + (i + n) - 1)]
      BY <1>5, <3>1
    <3>. QED  BY <2>3, <3>1, <3>2
  <2>. QED  BY <2>1, <2>2, <2>5
<1>. QED  BY <1>2, <1>4, <1>6, <1>7

-----------------------------------------------------------------------------
(* Every step keeps the invariant and is a step of the queue.              *)

LEMMA ContentsLen ==
  ASSUME IInv PROVE Contents \in Seq(Byte) /\ Len(Contents) = used
<1>1. \A i \in 1 .. used : tail + i - 1 \in 0 .. 2 * Size
  BY DEF IInv, TypeOK, Index
<1>2. \A i \in 1 .. used : Around(tail + i - 1) \in Index
  BY <1>1, AroundIs
<1>. QED  BY <1>2 DEF IInv, TypeOK, Contents

LEMMA WriteStep ==
  ASSUME IInv, NEW data \in Chunks, Write(data)
  PROVE  IInv' /\ Fifo!Write(data)
<1>1. data \in Seq(Byte) /\ Len(data) \in Nat
  OBVIOUS
<1>2. used \in 0 .. Size /\ Len(Contents) = used
  BY ContentsLen DEF IInv, TypeOK
<1>3. Len(data) <= FreeBytes <=> Len(Contents) + Len(data) <= Size
  BY <1>1, <1>2 DEF FreeBytes
<1>4. CASE Len(data) <= FreeBytes
  <2>1. /\ last' = Did("write", data, TRUE) /\ UNCHANGED tail
        /\ buf' = CopyIn(data) /\ head' = Around(head + Len(data))
        /\ used' = used + Len(data)
    <3>1. ~(Len(data) > FreeBytes)
      BY <1>1, <1>2, <1>4 DEF FreeBytes
    <3>. QED  BY <3>1 DEF Write
  <2>2. /\ buf' \in [Index -> Byte] /\ head' \in Index /\ used' \in 0 .. Size
        /\ IndexesAgree' /\ Contents' = Contents \o data
    BY <1>1, <1>4, <2>1, StoreAppends
  <2>3. IInv'
    BY <2>1, <2>2 DEF IInv, TypeOK
  <2>. QED  BY <1>3, <1>4, <2>1, <2>2, <2>3 DEF Fifo!Write, Fifo!Did, Did
<1>5. CASE ~(Len(data) <= FreeBytes)
  <2>1. last' = Did("write", data, FALSE) /\ UNCHANGED <<buf, head, tail, used>>
    BY <1>5 DEF Write
  <2>2. Contents' = Contents
    BY <2>1 DEF Contents
  <2>3. IInv'
    BY <2>1 DEF IInv, TypeOK, IndexesAgree
  <2>4. Len(Contents) + Len(data) > Size
    BY <1>1, <1>2, <1>3, <1>5
  <2>. QED  BY <2>1, <2>2, <2>3, <2>4 DEF Fifo!Write, Fifo!Did, Did
<1>. QED  BY <1>4, <1>5

LEMMA AdvanceHeadStep ==
  ASSUME IInv, NEW data \in Chunks, AdvanceHead(data)
  PROVE  IInv' /\ Fifo!Write(data)
<1>1. data \in Seq(Byte) /\ Len(data) \in Nat
  OBVIOUS
<1>2. used \in 0 .. Size /\ Len(Contents) = used
  BY ContentsLen DEF IInv, TypeOK
<1>3. /\ Len(data) <= FreeBytes /\ last' = Did("write", data, TRUE)
      /\ UNCHANGED tail
      /\ buf' = CopyIn(data) /\ head' = Around(head + Len(data))
      /\ used' = used + Len(data)
  BY <1>1, DmaStores DEF AdvanceHead
<1>4. /\ buf' \in [Index -> Byte] /\ head' \in Index /\ used' \in 0 .. Size
      /\ IndexesAgree' /\ Contents' = Contents \o data
  BY <1>1, <1>3, StoreAppends
<1>5. Len(Contents) + Len(data) <= Size
  BY <1>1, <1>2, <1>3 DEF FreeBytes
<1>6. IInv'
  BY <1>3, <1>4 DEF IInv, TypeOK
<1>. QED  BY <1>3, <1>4, <1>5, <1>6 DEF Fifo!Write, Fifo!Did, Did

LEMMA ReadStep ==
  ASSUME IInv, NEW n \in 0 .. Size + 1, Read(n)
  PROVE  IInv' /\ Fifo!Read(n)
<1>1. used \in 0 .. Size /\ Len(Contents) = used
  BY ContentsLen DEF IInv, TypeOK
<1>2. CASE n <= used
  <2>1. /\ last' = Did("read", CopyOut(n), TRUE) /\ UNCHANGED <<buf, head>>
        /\ tail' = Around(tail + n) /\ used' = used - n
    <3>1. ~(n > used)
      BY <1>1, <1>2
    <3>. QED  BY <3>1 DEF Read
  <2>2. /\ tail' \in Index /\ used' \in 0 .. Size /\ IndexesAgree'
        /\ CopyOut(n) = SubSeq(Contents, 1, n)
        /\ Contents' = SubSeq(Contents, n + 1, used)
    BY <1>2, <2>1, ReadTakes
  <2>. QED  BY <1>1, <1>2, <2>1, <2>2 DEF IInv, TypeOK, Fifo!Read, Fifo!Did, Did
<1>3. CASE ~(n <= used)
  <2>1. last' = Did("read", <<>>, FALSE) /\ UNCHANGED <<buf, head, tail, used>>
    BY <1>3 DEF Read
  <2>2. Contents' = Contents
    BY <2>1 DEF Contents
  <2>3. n > Len(Contents)
    BY <1>1, <1>3
  <2>. QED  BY <2>1, <2>2, <2>3 DEF IInv, TypeOK, IndexesAgree, Fifo!Read, Fifo!Did, Did
<1>. QED  BY <1>2, <1>3

LEMMA ResetStep ==
  ASSUME IInv, Reset
  PROVE  IInv' /\ Fifo!Reset
<1>1. /\ head' = 0 /\ tail' = 0 /\ used' = 0
      /\ last' = Did("reset", <<>>, TRUE) /\ UNCHANGED buf
  BY DEF Reset, ResetAll
<1>2. TypeOK' /\ IndexesAgree'
  BY <1>1, AroundIs DEF IInv, TypeOK, IndexesAgree, Index
<1>3. Contents' = <<>>
  BY <1>1 DEF Contents
<1>. QED  BY <1>1, <1>2, <1>3 DEF IInv, Fifo!Reset, Fifo!Did, Did

LEMMA NextStep ==
  ASSUME IInv, [Next]_vars
  PROVE  IInv' /\ [Fifo!Next]_Fifo!vars
<1>1. CASE UNCHANGED vars
  BY <1>1 DEF vars, IInv, TypeOK, IndexesAgree, Fifo!vars, Contents
<1>. QED  BY <1>1, WriteStep, AdvanceHeadStep, ReadStep, ResetStep
         DEF Next, Fifo!Next

\* Types are kept and head is always used bytes after tail.
THEOREM IndexesCorrect == Spec => [](TypeOK /\ IndexesAgree)
<1>1. IInv /\ [Next]_vars => IInv'
  BY NextStep
<1>. QED  BY <1>1, InitInv, PTL DEF Spec, IInv

\* ring_buffer_write/read/advance_head/reset implement a bounded byte queue.
THEOREM RingImplementsFifo == Spec => ImplementsFifo
<1>1. Init => Fifo!Init
  BY DEF Init, Fifo!Init, Contents, Did, Fifo!Did
<1>2. IInv /\ [Next]_vars => IInv' /\ [Fifo!Next]_Fifo!vars
  BY NextStep
<1>. QED  BY <1>1, <1>2, InitInv, PTL DEF Spec, ImplementsFifo, Fifo!Spec
=============================================================================
