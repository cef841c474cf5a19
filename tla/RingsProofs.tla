----------------------------- MODULE RingsProofs -----------------------------
(***************************************************************************)
(* The two rings without a counter, of macros and behind nanopb's streams, *)
(* are bounded queues for every size, every alphabet and every set of      *)
(* chunks, with the interrupt between any two steps of the thread.         *)
(***************************************************************************)
EXTENDS Rings, SequenceTheorems, TLAPS

-----------------------------------------------------------------------------
(* A queue that lies in a ring: its n items are behind at.                 *)

\* The remainder, where an index passes the end once, or the start.
LEMMA ModIs ==
  ASSUME Size \in Nat \ {0}, NEW i \in 0 - Size .. 2 * Size - 1
  PROVE  /\ i < 0 => i % Size = i + Size
         /\ 0 <= i /\ i < Size => i % Size = i
         /\ Size <= i => i % Size = i - Size
         /\ i % Size \in Index
<1>. DEFINE S == Size
<1>0. S \in Nat \ {0} /\ i \in 0 - S .. 2 * S - 1
  OBVIOUS
<1>. HIDE DEF S
<1>1. i < 0 => i % S = i + S
  BY <1>0
<1>2. 0 <= i /\ i < S => i % S = i
  BY <1>0
<1>3. S <= i => i % S = i - S
  BY <1>0
<1>4. i % S \in 0 .. S - 1
  BY <1>0
<1>. QED  BY <1>1, <1>2, <1>3, <1>4 DEF S, Index

\* Two places of the ring that are not a whole turn apart are different.
LEMMA ModDiffers ==
  ASSUME Size \in Nat \ {0}, NEW i \in 0 .. 2 * Size - 1,
         NEW j \in 0 .. 2 * Size - 1, i < j, j < i + Size
  PROVE  i % Size # j % Size
<1>1. i \in 0 - Size .. 2 * Size - 1 /\ j \in 0 - Size .. 2 * Size - 1
  OBVIOUS
<1>2. /\ i < Size => i % Size = i
      /\ Size <= i => i % Size = i - Size
  BY <1>1, ModIs
<1>3. /\ j < Size => j % Size = j
      /\ Size <= j => j % Size = j - Size
  BY <1>1, ModIs
<1>. QED  BY <1>2, <1>3

LEMMA LaidInside ==
  ASSUME Size \in Nat \ {0}, NEW at \in 0 - 1 .. Size - 1,
         NEW n \in 0 .. Size, NEW i \in 1 .. n
  PROVE  (at + i) % Size \in Index
<1>1. at + i \in 0 - Size .. 2 * Size - 1
  OBVIOUS
<1>. QED  BY <1>1, ModIs

\* The same place of the ring, seen from k items later.
LEMMA LaterIs ==
  ASSUME Size \in Nat \ {0},
         NEW at \in 0 - 1 .. Size - 1, NEW at2 \in 0 - 1 .. Size - 1,
         NEW k \in 0 .. Size, at2 = at + k \/ at2 = at + k - Size,
         NEW i \in Nat, i + k <= Size
  PROVE  (at + (i + k)) % Size = (at2 + i) % Size
<1>1. /\ at2 + i \in 0 - Size .. 2 * Size - 1
      /\ at + (i + k) \in 0 - Size .. 2 * Size - 1
  OBVIOUS
<1>2. CASE at2 = at + k
  <2>1. at + (i + k) = at2 + i
    BY <1>2
  <2>. QED  BY <2>1
<1>3. CASE at2 = at + k - Size /\ at2 + i >= 0
  <2>. DEFINE far == at + (i + k)
  <2>1. /\ far = (at2 + i) + Size /\ 0 <= at2 + i /\ at2 + i < Size
        /\ far \in 0 - Size .. 2 * Size - 1 /\ Size <= far
    BY <1>1, <1>3
  <2>2. (at2 + i) % Size = at2 + i
    BY <1>1, <2>1, ModIs
  <2>. HIDE DEF far
  <2>3. far % Size = far - Size
    BY <2>1, ModIs
  <2>4. far % Size = (at2 + i) % Size
    BY <1>1, <2>1, <2>2, <2>3
  <2>. QED  BY <2>4 DEF far
<1>4. CASE at2 = at + k - Size /\ at2 + i < 0
  <2>. DEFINE far == at + (i + k)
              near == at2 + i
  <2>1. /\ near < 0 /\ near \in 0 - Size .. 2 * Size - 1
        /\ far = near + Size /\ 0 <= far /\ far < Size
        /\ far \in 0 - Size .. 2 * Size - 1
    BY <1>1, <1>4
  <2>. HIDE DEF far, near
  <2>2. near % Size = near + Size /\ far % Size = far
    BY <2>1, ModIs
  <2>3. far % Size = near % Size
    BY <2>1, <2>2
  <2>. QED  BY <2>3 DEF far, near
<1>5. at2 + i < 0 \/ at2 + i >= 0
  BY <1>1
<1>. QED  BY <1>2, <1>3, <1>4, <1>5, Zenon

\* A sequence is another with something appended, or a part of another, when
\* its items are.
LEMMA AppendedIs ==
  ASSUME NEW S, NEW old \in Seq(S), NEW data \in Seq(S), NEW new \in Seq(S),
         Len(new) = Len(old) + Len(data),
         \A i \in 1 .. Len(old) : new[i] = old[i],
         \A j \in 1 .. Len(data) : new[Len(old) + j] = data[j]
  PROVE  new = old \o data
<1>. DEFINE both == old \o data
<1>1. both \in Seq(S) /\ Len(both) = Len(old) + Len(data)
  BY ConcatProperties
<1>2. ASSUME NEW i \in 1 .. Len(new)
      PROVE  both[i] = IF i <= Len(old) THEN old[i] ELSE data[i - Len(old)]
  BY ConcatProperties
<1>. HIDE DEF both
<1>3. ASSUME NEW i \in 1 .. Len(new) PROVE new[i] = both[i]
  <2>1. CASE i <= Len(old)
    BY <1>2, <2>1
  <2>2. CASE i > Len(old)
    <3>1. /\ i - Len(old) \in 1 .. Len(data)
          /\ Len(old) + (i - Len(old)) = i
      BY <2>2
    <3>2. new[Len(old) + (i - Len(old))] = data[i - Len(old)]
      BY <3>1
    <3>. QED  BY <1>2, <2>2, <3>1, <3>2
  <2>. QED  BY <2>1, <2>2
<1>4. new = both
  BY <1>1, <1>3, SeqEqual
<1>. QED  BY <1>4 DEF both

LEMMA PartIs ==
  ASSUME NEW S, NEW old \in Seq(S), NEW new \in Seq(S),
         NEW k \in 0 .. Len(old), NEW m \in k .. Len(old),
         Len(new) = m - k,
         \A i \in 1 .. m - k : new[i] = old[i + k]
  PROVE  new = SubSeq(old, k + 1, m)
<1>. DEFINE part == SubSeq(old, k + 1, m)
<1>1. /\ part \in Seq(S) /\ Len(part) = m - k
      /\ \A i \in 1 .. m - k : part[i] = old[i + k]
  OBVIOUS
<1>. HIDE DEF part
<1>2. new = part
  BY <1>1, SeqEqual
<1>. QED  BY <1>2 DEF part


-----------------------------------------------------------------------------
(* The ring of macros.                                                     *)

FixedTypes ==
  /\ fbuf \in [Index -> Byte] /\ fhead \in Index /\ ftail \in Index
  /\ full \in BOOLEAN /\ filled \in BOOLEAN
  /\ pop \in {"none", "clear", "use"}

\* full is set only while the ring is, and clear when the item is used.
FullTruthful ==
  /\ full /\ pop # "use" => fhead = Fixed!Before
  /\ pop = "use" => ~full

FixedInv == FixedTypes /\ (filled \/ FullTruthful)

LEMMA NextIs ==
  ASSUME Size \in Nat \ {0}, NEW i \in Index
  PROVE  /\ Fixed!NextOf(i) \in Index
         /\ i < Size - 1 => Fixed!NextOf(i) = i + 1
         /\ i = Size - 1 => Fixed!NextOf(i) = 0
<1>1. i + 1 \in 0 - Size .. 2 * Size - 1 /\ i \in 0 .. Size - 1
  BY DEF Index
<1>. QED  BY <1>1, ModIs DEF Fixed!NextOf

\* During a pop the tail is one behind the item, before it on the item before.
LEMMA BeforeIs ==
  ASSUME Fixed!FixedAssumption, FixedTypes
  PROVE  /\ Size \in Nat \ {0} /\ Size >= 2 /\ Fixed!Before \in Index
         /\ pop = "none" => Fixed!Before = ftail
         /\ pop # "none" => Fixed!NextOf(Fixed!Before) = ftail
<1>1. /\ Size \in Nat \ {0} /\ Size >= 2 /\ ftail \in 0 .. Size - 1
  BY DEF Fixed!FixedAssumption, FixedTypes, Index
<1>2. CASE pop = "none"
  BY <1>1, <1>2 DEF Fixed!Before, Index
<1>3. CASE pop # "none"
  <2>. DEFINE d == ftail - 1
  <2>1. d \in 0 - Size .. 2 * Size - 1 /\ d < Size
    BY <1>1
  <2>2. Fixed!Before = d % Size
    BY <1>3 DEF Fixed!Before
  <2>. HIDE DEF d
  <2>3. Fixed!Before = IF d < 0 THEN d + Size ELSE d
    BY <1>1, <2>1, <2>2, ModIs
  <2>4. /\ Fixed!Before \in Index
        /\ ftail = 0 => Fixed!Before = Size - 1
        /\ ftail # 0 => Fixed!Before = ftail - 1
    BY <1>1, <2>3 DEF Index, d
  <2>5. Fixed!NextOf(Fixed!Before) = ftail
    BY <1>1, <2>4, NextIs
  <2>. QED  BY <1>1, <1>3, <2>4, <2>5
<1>. QED  BY <1>2, <1>3

\* The number of items, and how it separates the indexes.
LEMMA DistanceIs ==
  ASSUME Size \in Nat \ {0}, NEW h \in Index, NEW t \in Index, NEW f,
         NEW c, c = IF h = t /\ f THEN Size ELSE (h - t) % Size
  PROVE  /\ c \in 0 .. Size
         /\ f /\ h = t => c = Size
         /\ ~(f /\ h = t) => /\ c < Size
                             /\ t <= h => c = h - t
                             /\ h < t => c = h - t + Size
         /\ t + c < Size => h = t + c
         /\ Size <= t + c => h = t + c - Size
<1>. DEFINE d == h - t
<1>1. /\ h \in 0 .. Size - 1 /\ t \in 0 .. Size - 1
      /\ d \in 0 - Size .. 2 * Size - 1 /\ d < Size
      /\ (t <= h <=> 0 <= d)
  BY DEF Index
<1>2. c = IF h = t /\ f THEN Size ELSE d % Size
  OBVIOUS
<1>. HIDE DEF d
<1>3. /\ d < 0 => d % Size = d + Size
      /\ 0 <= d => d % Size = d
  BY <1>1, ModIs
<1>4. ~(f /\ h = t) => c = IF t <= h THEN d ELSE d + Size
  BY <1>1, <1>2, <1>3 DEF d
<1>5. f /\ h = t => c = Size
  BY <1>2
<1>. QED  BY <1>1, <1>4, <1>5 DEF d

CanBeFull == full \/ pop # "none"

LEMMA CountIs ==
  ASSUME Fixed!FixedAssumption, FixedTypes
  PROVE  /\ Fixed!Count \in 0 .. Size
         /\ CanBeFull /\ fhead = Fixed!Before => Fixed!Count = Size
         /\ ~(CanBeFull /\ fhead = Fixed!Before) =>
              /\ Fixed!Count < Size
              /\ Fixed!Before <= fhead => Fixed!Count = fhead - Fixed!Before
              /\ fhead < Fixed!Before =>
                   Fixed!Count = fhead - Fixed!Before + Size
<1>1. /\ Size \in Nat \ {0} /\ Fixed!Before \in Index /\ fhead \in Index
  BY BeforeIs DEF FixedTypes
<1>2. PICK f : f = CanBeFull
  OBVIOUS
<1>3. Fixed!Count =
        IF fhead = Fixed!Before /\ f THEN Size
        ELSE (fhead - Fixed!Before) % Size
  BY <1>2 DEF Fixed!Count, CanBeFull
<1>. QED  BY <1>1, <1>2, <1>3, DistanceIs

LEMMA ContentsAre ==
  ASSUME Fixed!FixedAssumption, FixedTypes
  PROVE  /\ Fixed!Contents \in Seq(Byte) /\ Len(Fixed!Contents) = Fixed!Count
         /\ \A i \in 1 .. Fixed!Count :
              Fixed!Contents[i] = fbuf[(Fixed!Before + i) % Size]
<1>1. /\ Size \in Nat \ {0} /\ Fixed!Count \in 0 .. Size
      /\ Fixed!Before \in 0 - 1 .. Size - 1 /\ fbuf \in [Index -> Byte]
  BY BeforeIs, CountIs DEF FixedTypes, Index
<1>2. \A i \in 1 .. Fixed!Count : (Fixed!Before + i) % Size \in Index
  BY <1>1, LaidInside
<1>3. \A i \in 1 .. Fixed!Count : fbuf[(Fixed!Before + i) % Size] \in Byte
  BY <1>1, <1>2
<1>. QED  BY <1>1, <1>3 DEF Fixed!Contents

\* A step that keeps what the ring holds keeps the queue.
LEMMA SameContents ==
  ASSUME UNCHANGED <<fbuf, flast>>, Fixed!Before' = Fixed!Before,
         Fixed!Count' = Fixed!Count
  PROVE  UNCHANGED Fixed!Fifo!vars
  BY DEF Fixed!Contents, Fixed!Fifo!vars

LEMMA FixedInitInv ==
  Fixed!FixedAssumption /\ Fixed!Init => FixedInv /\ Fixed!Fifo!Init
<1>. SUFFICES ASSUME Fixed!FixedAssumption, Fixed!Init
              PROVE  FixedInv /\ Fixed!Fifo!Init
  OBVIOUS
<1>1. FixedTypes
  <2>1. fbuf \in [Index -> Byte]
    BY DEF Fixed!FixedAssumption, Fixed!Init, Index, Fixed!Index
  <2>2. fhead \in Index /\ ftail \in Index
    BY DEF Fixed!FixedAssumption, Fixed!Init, Index
  <2>3. full \in BOOLEAN /\ filled \in BOOLEAN /\ pop = "none"
    BY DEF Fixed!Init
  <2>. QED  BY <2>1, <2>2, <2>3 DEF FixedTypes
<1>2. FullTruthful
  BY DEF Fixed!Init, FullTruthful
<1>3. Fixed!Count = 0
  <2>1. ~CanBeFull /\ Fixed!Before = fhead /\ fhead = 0
    BY <1>1, BeforeIs DEF Fixed!Init, CanBeFull
  <2>. QED  BY <1>1, <2>1, CountIs
<1>4. Fixed!Contents = <<>>
  BY <1>3 DEF Fixed!Contents
<1>. QED  BY <1>1, <1>2, <1>4 DEF FixedInv, Fixed!Init, Fixed!Did,
                                Fixed!Fifo!Init, Fixed!Fifo!Did

\* A push during a pop that does not fill the ring, or another push.
LEMMA PushStep ==
  ASSUME Fixed!FixedAssumption, FixedInv, ~filled',
         NEW item \in Byte, Fixed!PushCopy(item)
  PROVE  FixedInv' /\ Fixed!Fifo!Write(<<item>>)
<1>. DEFINE next == Fixed!NextOf(fhead)
            c == Fixed!Count
            b == Fixed!Before
<1>1. /\ ~full /\ fhead' = next /\ fbuf' = [fbuf EXCEPT ![next] = item]
      /\ full' = (next = ftail) /\ (pop # "none" => next # ftail)
      /\ filled' = FALSE
      /\ flast' = Fixed!Did("write", <<item>>, TRUE)
      /\ UNCHANGED <<ftail, pop>>
  BY DEF Fixed!PushCopy, FixedInv, FixedTypes
<1>2. FixedTypes /\ b' = b
  BY <1>1 DEF FixedInv, Fixed!Before
<1>3. /\ Size \in Nat \ {0} /\ Size >= 2 /\ fhead \in Index /\ b \in Index
      /\ b \in 0 - 1 .. Size - 1 /\ fbuf \in [Index -> Byte]
      /\ next \in Index /\ (fhead < Size - 1 => next = fhead + 1)
      /\ (fhead = Size - 1 => next = 0)
      /\ pop = "none" => b = ftail
      /\ pop # "none" => Fixed!NextOf(b) = ftail
  BY <1>2, BeforeIs, NextIs DEF FixedTypes, Index
<1>4. ~(CanBeFull /\ fhead = b)
  BY <1>1, <1>3 DEF CanBeFull
<1>5. /\ c \in 0 .. Size /\ c < Size
      /\ b <= fhead => c = fhead - b
      /\ fhead < b => c = fhead - b + Size
  BY <1>2, <1>4, CountIs
<1>6. FixedTypes'
  BY <1>1, <1>2, <1>3 DEF FixedTypes
<1>. HIDE DEF next, c, b
<1>7. Fixed!Count' = c + 1
  <2>1. PICK f, d : f = CanBeFull' /\ d = Fixed!Count'
    OBVIOUS
  <2>2. d = IF next = b /\ f THEN Size ELSE (next - b) % Size
    BY <1>1, <1>2, <2>1 DEF Fixed!Count, CanBeFull, b
  <2>3. /\ f /\ next = b => d = Size
        /\ ~(f /\ next = b) =>
              /\ b <= next => d = next - b
              /\ next < b => d = next - b + Size
    BY <1>3, <2>2, DistanceIs
  <2>4. next = b => f
    BY <1>1, <1>3, <2>1 DEF CanBeFull
  <2>5. d = c + 1
    BY <1>3, <1>5, <2>3, <2>4 DEF Index
  <2>. QED  BY <2>1, <2>5
<1>8. next = (b + (c + 1)) % Size
  <2>. DEFINE far == b + (c + 1)
  <2>1. far \in 0 - Size .. 2 * Size - 1 /\ 0 <= far
        /\ (far < Size => next = far) /\ (Size <= far => next = far - Size)
    BY <1>3, <1>5 DEF Index
  <2>. HIDE DEF far
  <2>2. next = far % Size
    BY <1>3, <2>1, ModIs
  <2>. QED  BY <2>2 DEF far
<1>9. ASSUME NEW i \in 1 .. c
      PROVE  /\ (b + i) % Size \in Index /\ (b + i) % Size # next
             /\ fbuf'[(b + i) % Size] = fbuf[(b + i) % Size]
  <2>1. (b + i) % Size \in Index
    BY <1>3, <1>5, LaidInside
  <2>. DEFINE far == b + (c + 1)
              near == b + i
  <2>2. /\ near \in 0 .. 2 * Size - 1 /\ far \in 0 .. 2 * Size - 1
        /\ near < far /\ far < near + Size
    BY <1>3, <1>5 DEF Index
  <2>. HIDE DEF far, near
  <2>3. near % Size # far % Size
    BY <1>3, <2>2, ModDiffers
  <2>4. (b + i) % Size # next
    BY <1>8, <2>3 DEF far, near
  <2>. QED  BY <1>1, <1>3, <2>1, <2>4
<1>10. fbuf'[next] = item /\ fbuf' \in [Index -> Byte]
  BY <1>1, <1>3
<1>11. /\ Fixed!Contents \in Seq(Byte) /\ Len(Fixed!Contents) = c
       /\ \A i \in 1 .. c : Fixed!Contents[i] = fbuf[(b + i) % Size]
  BY <1>2, ContentsAre DEF c, b
<1>12. /\ Fixed!Contents' \in Seq(Byte) /\ Len(Fixed!Contents') = c + 1
       /\ \A i \in 1 .. c + 1 : Fixed!Contents'[i] = fbuf'[(b + i) % Size]
  <2>1. c + 1 \in 0 .. Size
    BY <1>3, <1>5
  <2>2. \A i \in 1 .. c + 1 : (b + i) % Size \in Index
    BY <1>3, <2>1, LaidInside
  <2>3. Fixed!Contents' = [i \in 1 .. c + 1 |-> fbuf'[(b + i) % Size]]
    BY <1>2, <1>7 DEF Fixed!Contents, b
  <2>4. \A i \in 1 .. c + 1 : fbuf'[(b + i) % Size] \in Byte
    BY <1>10, <2>2
  <2>. QED  BY <2>1, <2>3, <2>4
<1>13. Fixed!Contents' = Fixed!Contents \o <<item>>
  <2>1. PICK old, new : old = Fixed!Contents /\ new = Fixed!Contents'
    OBVIOUS
  <2>2. /\ old \in Seq(Byte) /\ new \in Seq(Byte) /\ <<item>> \in Seq(Byte)
        /\ Len(old) = c /\ Len(new) = c + 1 /\ Len(<<item>>) = 1
    BY <1>11, <1>12, <2>1
  <2>3. ASSUME NEW i \in 1 .. c PROVE new[i] = old[i]
    <3>1. i \in 1 .. c + 1
      BY <1>5
    <3>. QED  BY <1>9, <1>11, <1>12, <2>1, <3>1
  <2>4. new[c + 1] = item
    <3>1. c + 1 \in 1 .. c + 1
      BY <1>5
    <3>. QED  BY <1>8, <1>10, <1>12, <2>1, <3>1
  <2>5. \A j \in 1 .. 1 : new[c + j] = <<item>>[j]
    BY <2>4
  <2>6. new = old \o <<item>>
    BY <2>2, <2>3, <2>5, AppendedIs
  <2>. QED  BY <2>1, <2>6
<1>14. FullTruthful'
  <2>1. full' => pop' = "none" /\ fhead' = Fixed!Before'
    BY <1>1, <1>2, <1>3 DEF b
  <2>. QED  BY <2>1 DEF FullTruthful
<1>15. Len(Fixed!Contents) + Len(<<item>>) <= Size
  BY <1>3, <1>5, <1>11
<1>. QED  BY <1>1, <1>6, <1>13, <1>14, <1>15
          DEF FixedInv, Fixed!Fifo!Write, Fixed!Fifo!Did, Fixed!Did

LEMMA PopTailStep ==
  ASSUME Fixed!FixedAssumption, FixedInv, ~filled', Fixed!PopTail
  PROVE  FixedInv' /\ UNCHANGED Fixed!Fifo!vars
<1>1. /\ pop = "none" /\ pop' = "clear" /\ ftail' = Fixed!NextOf(ftail)
      /\ ~Fixed!Empty /\ UNCHANGED <<fbuf, fhead, full, flast, filled>>
  BY DEF Fixed!PopTail
<1>2. FixedTypes /\ FullTruthful /\ Fixed!Before = ftail
  BY <1>1, BeforeIs DEF FixedInv
<1>3. FixedTypes'
  BY <1>1, <1>2, BeforeIs, NextIs DEF FixedTypes
<1>4. Fixed!Before' = ftail
  <2>1. /\ Size \in Nat \ {0} /\ ftail \in Index /\ ftail' \in Index
        /\ (ftail < Size - 1 => ftail' = ftail + 1)
        /\ (ftail = Size - 1 => ftail' = 0)
    BY <1>1, <1>2, <1>3, BeforeIs, NextIs DEF FixedTypes
  <2>2. PICK d : d = ftail' - 1
    OBVIOUS
  <2>3. Fixed!Before' = d % Size
    BY <1>1, <2>2 DEF Fixed!Before
  <2>4. PICK t \in Index, new \in Index : t = ftail /\ new = ftail'
    BY <2>1
  <2>5. /\ d \in 0 - Size .. 2 * Size - 1 /\ d < Size
        /\ t = IF d < 0 THEN d + Size ELSE d
    <3>1. /\ t \in 0 .. Size - 1 /\ new \in 0 .. Size - 1 /\ d = new - 1
          /\ (t < Size - 1 => new = t + 1) /\ (t = Size - 1 => new = 0)
      BY <2>1, <2>2, <2>4 DEF Index
    <3>2. CASE t < Size - 1
      BY <2>1, <3>1, <3>2
    <3>3. CASE t = Size - 1
      BY <2>1, <3>1, <3>3
    <3>. QED  BY <2>1, <3>1, <3>2, <3>3
  <2>6. d % Size = ftail
    BY <2>1, <2>4, <2>5, ModIs
  <2>. QED  BY <2>3, <2>6
<1>5. Fixed!Count' = Fixed!Count
  BY <1>1, <1>2, <1>4 DEF Fixed!Count, Fixed!Empty
<1>6. FullTruthful'
  BY <1>1, <1>2, <1>4 DEF FullTruthful
<1>. QED  BY <1>1, <1>2, <1>3, <1>4, <1>5, <1>6, SameContents DEF FixedInv

LEMMA PopFullStep ==
  ASSUME FixedInv, ~filled', Fixed!PopFull
  PROVE  FixedInv' /\ UNCHANGED Fixed!Fifo!vars
<1>1. /\ pop = "clear" /\ pop' = "use" /\ full' = FALSE
      /\ UNCHANGED <<fbuf, fhead, ftail, flast, filled>>
  BY DEF Fixed!PopFull
<1>2. FixedTypes' /\ FullTruthful'
  BY <1>1 DEF FixedInv, FixedTypes, FullTruthful
<1>3. Fixed!Before' = Fixed!Before
  BY <1>1 DEF Fixed!Before
<1>4. Fixed!Count' = Fixed!Count
  BY <1>1, <1>3 DEF Fixed!Count
<1>. QED  BY <1>1, <1>2, <1>3, <1>4, SameContents DEF FixedInv

LEMMA UseStep ==
  ASSUME Fixed!FixedAssumption, FixedInv, ~filled', Fixed!Use
  PROVE  FixedInv' /\ Fixed!Fifo!Read(1)
<1>. DEFINE item == fbuf[ftail]
            c == Fixed!Count
            b == Fixed!Before
<1>1. /\ pop = "use" /\ pop' = "none"
      /\ flast' = Fixed!Did("read", <<item>>, TRUE)
      /\ UNCHANGED <<fbuf, fhead, ftail, full, filled>>
  BY DEF Fixed!Use
<1>2. FixedTypes /\ FullTruthful /\ ~full
  BY <1>1 DEF FixedInv, FullTruthful
<1>3. /\ Size \in Nat \ {0} /\ Size >= 2 /\ fhead \in Index /\ b \in Index
      /\ ftail \in Index /\ fbuf \in [Index -> Byte] /\ item \in Byte
      /\ ftail = Fixed!NextOf(b)
      /\ (b < Size - 1 => ftail = b + 1) /\ (b = Size - 1 => ftail = 0)
  BY <1>1, <1>2, BeforeIs, NextIs DEF FixedTypes
<1>4. FixedTypes' /\ Fixed!Before' = ftail
  BY <1>1, <1>2 DEF FixedTypes, Fixed!Before
<1>5. /\ c \in 0 .. Size
      /\ fhead = b => c = Size
      /\ fhead # b => /\ b <= fhead => c = fhead - b
                      /\ fhead < b => c = fhead - b + Size
  BY <1>1, <1>2, CountIs DEF CanBeFull
<1>. HIDE DEF c, b, item
<1>6. c > 0
  BY <1>3, <1>5 DEF Index
<1>7. Fixed!Count' = c - 1
  <2>1. PICK d : d = Fixed!Count'
    OBVIOUS
  <2>2. d = IF fhead = ftail /\ FALSE THEN Size ELSE (fhead - ftail) % Size
    BY <1>1, <1>2, <1>4, <2>1 DEF Fixed!Count
  <2>3. /\ ftail <= fhead => d = fhead - ftail
        /\ fhead < ftail => d = fhead - ftail + Size
    BY <1>3, <2>2, DistanceIs
  <2>4. d = c - 1
    BY <1>3, <1>5, <2>3 DEF Index
  <2>. QED  BY <2>1, <2>4
<1>8. FullTruthful'
  BY <1>1, <1>2 DEF FullTruthful
<1>9. /\ Fixed!Contents \in Seq(Byte) /\ Len(Fixed!Contents) = c
      /\ \A i \in 1 .. c : Fixed!Contents[i] = fbuf[(b + i) % Size]
  BY <1>2, ContentsAre DEF c, b
<1>10. /\ Fixed!Contents' \in Seq(Byte) /\ Len(Fixed!Contents') = c - 1
       /\ \A i \in 1 .. c - 1 : Fixed!Contents'[i] = fbuf[(ftail + i) % Size]
  <2>1. c - 1 \in 0 .. Size /\ ftail \in 0 - 1 .. Size - 1
    BY <1>3, <1>5, <1>6 DEF Index
  <2>2. \A i \in 1 .. c - 1 : (ftail + i) % Size \in Index
    BY <1>3, <2>1, LaidInside
  <2>3. Fixed!Contents' = [i \in 1 .. c - 1 |-> fbuf[(ftail + i) % Size]]
    BY <1>1, <1>4, <1>7 DEF Fixed!Contents
  <2>4. \A i \in 1 .. c - 1 : fbuf[(ftail + i) % Size] \in Byte
    BY <1>3, <2>2
  <2>. QED  BY <2>1, <2>3, <2>4
<1>11. Fixed!Contents' = SubSeq(Fixed!Contents, 1 + 1, Len(Fixed!Contents))
  <2>1. PICK old, new : old = Fixed!Contents /\ new = Fixed!Contents'
    OBVIOUS
  <2>2. /\ old \in Seq(Byte) /\ new \in Seq(Byte)
        /\ Len(old) = c /\ Len(new) = c - 1 /\ c \in Nat /\ 1 \in 0 .. c
        /\ c \in 1 .. c
    BY <1>5, <1>6, <1>9, <1>10, <2>1
  <2>3. ASSUME NEW i \in 1 .. c - 1 PROVE new[i] = old[i + 1]
    <3>1. /\ i + 1 \in 1 .. c /\ i \in Nat /\ i + 1 <= Size /\ 1 \in 0 .. Size
          /\ ftail \in 0 - 1 .. Size - 1 /\ b \in 0 - 1 .. Size - 1
          /\ ftail = b + 1 \/ ftail = b + 1 - Size
      BY <1>3, <1>5, <1>6 DEF Index
    <3>2. (b + (i + 1)) % Size = (ftail + i) % Size
      BY <1>3, <3>1, LaterIs
    <3>. QED  BY <1>9, <1>10, <2>1, <3>1, <3>2
  <2>4. new = SubSeq(old, 1 + 1, c)
    BY <2>2, <2>3, PartIs
  <2>. QED  BY <2>1, <2>2, <2>4
<1>12. 1 <= Len(Fixed!Contents) /\ SubSeq(Fixed!Contents, 1, 1) = <<item>>
  <2>1. 1 \in 1 .. c
    BY <1>5, <1>6
  <2>2. Fixed!Contents[1] = item
    BY <1>3, <1>9, <2>1 DEF item, Fixed!NextOf
  <2>3. PICK old, new : old = Fixed!Contents /\ new = <<item>>
    OBVIOUS
  <2>4. /\ old \in Seq(Byte) /\ new \in Seq(Byte) /\ Len(old) = c
        /\ Len(new) = 1 /\ c \in Nat /\ c > 0
        /\ new[1] = old[1]
    BY <1>3, <1>5, <1>6, <1>9, <2>2, <2>3
  <2>5. new = SubSeq(old, 1, 1)
    <3>1. 0 \in 0 .. Len(old) /\ 1 \in 0 .. Len(old) /\ Len(new) = 1 - 0
      BY <2>4
    <3>2. \A i \in 1 .. 1 - 0 : new[i] = old[i + 0]
      BY <2>4
    <3>3. new = SubSeq(old, 0 + 1, 1)
      BY <2>4, <3>1, <3>2, PartIs
    <3>. QED  BY <3>3
  <2>6. SubSeq(Fixed!Contents, 1, 1) = <<item>>
    BY <2>3, <2>5, Zenon
  <2>. QED  BY <1>6, <1>9, <2>6
<1>. QED  BY <1>1, <1>4, <1>8, <1>11, <1>12
          DEF FixedInv, Fixed!Fifo!Read, Fixed!Fifo!Did, Fixed!Did

\* Once the ring was filled during a pop, only the types remain.
LEMMA FilledStep ==
  ASSUME Fixed!FixedAssumption, FixedInv, Fixed!Next, filled'
  PROVE  FixedInv'
<1>1. FixedTypes /\ Size \in Nat \ {0}
  BY BeforeIs DEF FixedInv
<1>2. Fixed!NextOf(fhead) \in Index /\ Fixed!NextOf(ftail) \in Index
  BY <1>1, NextIs DEF FixedTypes
<1>3. FixedTypes'
  BY <1>1, <1>2 DEF FixedTypes, Fixed!Next, Fixed!PushCopy, Fixed!PopTail,
                    Fixed!PopFull, Fixed!Use
<1>. QED  BY <1>3 DEF FixedInv

\* Every step of the ring is a step of the queue or none.
LEMMA FixedStep ==
  Fixed!FixedAssumption /\ FixedInv /\ [Fixed!Next]_(Fixed!vars)
    => FixedInv' /\ [filled' \/ Fixed!Fifo!Next]_(Fixed!Fifo!vars)
<1>. SUFFICES ASSUME Fixed!FixedAssumption, FixedInv,
                     [Fixed!Next]_(Fixed!vars)
              PROVE  FixedInv' /\ [filled' \/ Fixed!Fifo!Next]_(Fixed!Fifo!vars)
  OBVIOUS
<1>1. CASE filled' /\ Fixed!Next
  BY <1>1, FilledStep
<1>2. ASSUME ~filled', NEW item \in Byte, Fixed!PushCopy(item)
      PROVE  FixedInv' /\ [filled' \/ Fixed!Fifo!Next]_(Fixed!Fifo!vars)
  <2>1. FixedInv' /\ Fixed!Fifo!Write(<<item>>)
    BY <1>2, PushStep
  <2>2. <<item>> \in Fixed!Singles
    BY DEF Fixed!Singles
  <2>. QED  BY <2>1, <2>2 DEF Fixed!Fifo!Next
<1>3. CASE ~filled' /\ Fixed!PopTail
  BY <1>3, PopTailStep
<1>4. CASE ~filled' /\ Fixed!PopFull
  BY <1>4, PopFullStep
<1>5. CASE ~filled' /\ Fixed!Use
  <2>1. FixedInv' /\ Fixed!Fifo!Read(1) /\ 1 \in 0 .. Size + 1
    BY <1>5, UseStep DEF Fixed!FixedAssumption
  <2>. QED  BY <2>1 DEF Fixed!Fifo!Next
<1>6. CASE UNCHANGED Fixed!vars
  <2>1. Fixed!Before' = Fixed!Before
    BY <1>6 DEF Fixed!vars, Fixed!Before
  <2>2. Fixed!Count' = Fixed!Count
    BY <1>6, <2>1 DEF Fixed!vars, Fixed!Count
  <2>3. UNCHANGED Fixed!Fifo!vars
    BY <1>6, <2>1, <2>2, SameContents DEF Fixed!vars
  <2>4. FixedInv'
    BY <1>6, <2>1 DEF Fixed!vars, FixedInv, FixedTypes, FullTruthful
  <2>. QED  BY <2>3, <2>4
<1>. QED  BY <1>1, <1>2, <1>3, <1>4, <1>5, <1>6 DEF Fixed!Next

\* The ring of macros is a bounded queue of its items, pops being two stores
\* and a use of the item between which an interrupt pushes as often as it
\* likes: nothing is lost, overwritten or read twice until such pushes fill
\* the ring (ring_buffer_fixed_size.h:35, :48).
THEOREM MacroRingIsQueue ==
  ASSUME Fixed!FixedAssumption
  PROVE  Fixed!Spec => FixedImplementsFifo
<1>1. Fixed!Init => FixedInv /\ Fixed!Fifo!Init
  BY FixedInitInv
<1>2. FixedInv /\ [Fixed!Next]_(Fixed!vars)
        => FixedInv' /\ [filled' \/ Fixed!Fifo!Next]_(Fixed!Fifo!vars)
  BY FixedStep
<1>. QED  BY <1>1, <1>2, PTL DEF Fixed!Spec, FixedImplementsFifo,
                             Fixed!FixedImplementsFifo

-----------------------------------------------------------------------------
(* The ring behind nanopb's streams.                                       *)

\* Each index is loaded once in pb_ring_buffer_metadata_used().
SingleLoads == Nano!NanopbAssumption /\ ~Rereads

NanoTypes ==
  /\ nbuf \in [Index -> Byte] /\ nhead \in Index /\ ntail \in Index
  /\ thread \in {"writes", "reads"}
  /\ call \in [pc : {"none", "check", "copy", "advance"}, data : Seq(Byte),
               n : Nat, over : BOOLEAN]

\* What the callback in progress may rely on, whatever the interrupt moved
\* since it looked.
WriterSafe ==
  thread = "writes" /\ call.pc # "none" =>
    /\ call.data \in Written /\ call.n = Len(call.data)
    /\ call.pc # "check" => Nano!Used + call.n < Size
    /\ call.pc = "advance" =>
         \A j \in 1 .. call.n : nbuf[(nhead + j - 1) % Size] = call.data[j]

ReaderSafe ==
  thread = "reads" /\ call.pc # "none" =>
    /\ call.n \in 1 .. Size
    /\ call.pc # "check" => call.n <= Nano!Used
    /\ call.pc = "advance" => call.data = Nano!Get(call.n)

NanoInv == NanoTypes /\ WriterSafe /\ ReaderSafe

LEMMA UsedIs ==
  ASSUME Size \in Nat \ {0}, NEW h \in Index, NEW t \in Index, NEW u,
         u = IF h < t THEN Size - t + h ELSE h - t
  PROVE  /\ u \in 0 .. Size - 1
         /\ h = t + u \/ h = t + u - Size
         /\ (h + (Size - u) = t) \/ (h + (Size - u) - Size = t)
BY DEF Index

\* How far behind i a place is that lies n places behind it.
LEMMA OffsetIs ==
  ASSUME Size \in Nat \ {0}, NEW i \in Index, NEW n \in 0 .. Size - 1
  PROVE  (((i + n) % Size) - i) % Size = n
<1>1. /\ i \in 0 .. Size - 1
      /\ i + n \in 0 - Size .. 2 * Size - 1
      /\ n \in 0 - Size .. 2 * Size - 1
      /\ n - Size \in 0 - Size .. 2 * Size - 1
  BY DEF Index
<1>2. n % Size = n
  BY <1>1, ModIs
<1>3. CASE i + n < Size
  <2>1. (i + n) % Size = i + n
    BY <1>1, <1>3, ModIs
  <2>2. ((i + n) % Size) - i = n
    BY <1>1, <2>1
  <2>. QED  BY <1>2, <2>2
<1>4. CASE i + n >= Size
  <2>1. (i + n) % Size = i + n - Size
    BY <1>1, <1>4, ModIs
  <2>2. ((i + n) % Size) - i = n - Size
    BY <1>1, <2>1
  <2>. DEFINE far == n - Size
  <2>3. far \in 0 - Size .. 2 * Size - 1 /\ far < 0 /\ far + Size = n
    BY <1>1
  <2>. HIDE DEF far
  <2>4. far % Size = n
    BY <2>3, ModIs
  <2>. QED  BY <2>2, <2>4 DEF far
<1>. QED  BY <1>1, <1>3, <1>4

\* The state of this ring, in one place.
LEMMA NanoIs ==
  ASSUME SingleLoads, NanoTypes
  PROVE  /\ Size \in Nat \ {0} /\ Zero \in Byte
         /\ nhead \in 0 .. Size - 1 /\ ntail \in 0 .. Size - 1
         /\ nhead \in Index /\ ntail \in Index
         /\ Nano!Used \in 0 .. Size - 1
         /\ nhead = ntail + Nano!Used \/ nhead = ntail + Nano!Used - Size
         /\ Nano!InUse = Nano!Used
<1>1. Size \in Nat \ {0} /\ Zero \in Byte
  BY DEF SingleLoads, Nano!NanopbAssumption
<1>2. Nano!Used = IF nhead < ntail THEN Size - ntail + nhead ELSE nhead - ntail
  BY DEF Nano!Used, Nano!UsedIf, Nano!RolledOver
<1>3. Nano!InUse = Nano!Used
  BY DEF SingleLoads, Nano!InUse, Nano!Used
<1>4. /\ Nano!Used \in 0 .. Size - 1
      /\ nhead = ntail + Nano!Used \/ nhead = ntail + Nano!Used - Size
  BY <1>1, <1>2, UsedIs DEF NanoTypes
<1>. QED  BY <1>1, <1>3, <1>4 DEF NanoTypes, Index

LEMMA GetIs ==
  ASSUME SingleLoads, NanoTypes, NEW n \in 0 .. Size
  PROVE  /\ Nano!Get(n) \in Seq(Byte) /\ Len(Nano!Get(n)) = n
         /\ \A i \in 1 .. n :
              Nano!Get(n)[i] = nbuf[(ntail + (i - 1)) % Size]
<1>1. Size \in Nat \ {0} /\ ntail \in 0 .. Size - 1 /\ nbuf \in [Index -> Byte]
  BY NanoIs DEF NanoTypes
<1>2. ASSUME NEW i \in 1 .. n
      PROVE  /\ ntail + i - 1 = ntail + (i - 1)
             /\ (ntail + (i - 1)) % Size \in Index
  <2>1. /\ ntail + i - 1 = ntail + (i - 1)
        /\ ntail + (i - 1) \in 0 - Size .. 2 * Size - 1
    BY <1>1
  <2>. QED  BY <1>1, <2>1, ModIs
<1>3. Nano!Get(n) = [i \in 1 .. n |-> nbuf[(ntail + (i - 1)) % Size]]
  BY <1>2 DEF Nano!Get, Nano!Around
<1>4. \A i \in 1 .. n : nbuf[(ntail + (i - 1)) % Size] \in Byte
  BY <1>1, <1>2
<1>. QED  BY <1>3, <1>4

\* Bytes are stored in the room there is, and nowhere else.
LEMMA PutIs ==
  ASSUME SingleLoads, NanoTypes,
         NEW data \in Seq(Byte), Nano!Used + Len(data) < Size,
         NEW mem, mem = Nano!Put(data)
  PROVE  /\ mem \in [Index -> Byte]
         /\ \A j \in 1 .. Len(data) :
              mem[(nhead + (j - 1)) % Size] = data[j]
         /\ \A i \in 1 .. Nano!Used :
              /\ (ntail + (i - 1)) % Size \in Index
              /\ mem[(ntail + (i - 1)) % Size] = nbuf[(ntail + (i - 1)) % Size]
<1>. DEFINE u == Nano!Used
            n == Len(data)
<1>1. /\ Size \in Nat \ {0} /\ nbuf \in [Index -> Byte]
      /\ nhead \in 0 .. Size - 1 /\ ntail \in 0 .. Size - 1
      /\ nhead \in Index /\ ntail \in Index
      /\ u \in 0 .. Size - 1 /\ n \in Nat /\ u + n < Size
      /\ nhead = ntail + u \/ nhead = ntail + u - Size
  BY NanoIs DEF NanoTypes
<1>2. ASSUME NEW k \in Index
      PROVE  (k - nhead) % Size \in 0 .. Size - 1
  <2>1. k - nhead \in 0 - Size .. 2 * Size - 1
    BY <1>1 DEF Index
  <2>. QED  BY <1>1, <2>1, ModIs DEF Index
<1>3. mem = [k \in Index |-> IF (k - nhead) % Size < n
                             THEN data[((k - nhead) % Size) + 1] ELSE nbuf[k]]
  BY DEF Nano!Put, Nano!Around, Nano!Index, Index
<1>. HIDE DEF u, n
<1>4. mem \in [Index -> Byte]
  <2>1. ASSUME NEW k \in Index
        PROVE  (IF (k - nhead) % Size < n
                THEN data[((k - nhead) % Size) + 1] ELSE nbuf[k]) \in Byte
    <3>1. PICK d \in 0 .. Size - 1 : d = (k - nhead) % Size
      BY <1>2
    <3>2. d < n => data[d + 1] \in Byte
      BY <1>1 DEF n
    <3>. QED  BY <1>1, <3>1, <3>2
  <2>. QED  BY <1>3, <2>1
<1>5. ASSUME NEW j \in 1 .. n
      PROVE  mem[(nhead + (j - 1)) % Size] = data[j]
  <2>1. /\ j - 1 \in 0 .. Size - 1 /\ j - 1 < n /\ (j - 1) + 1 = j
        /\ nhead + (j - 1) \in 0 - Size .. 2 * Size - 1
    BY <1>1
  <2>2. (nhead + (j - 1)) % Size \in Index
    BY <1>1, <2>1, ModIs
  <2>3. (((nhead + (j - 1)) % Size) - nhead) % Size = j - 1
    BY <1>1, <2>1, OffsetIs
  <2>4. PICK k \in Index : k = (nhead + (j - 1)) % Size
    BY <2>2
  <2>5. mem[k] = data[(j - 1) + 1]
    BY <1>3, <2>1, <2>3, <2>4
  <2>. QED  BY <2>1, <2>4, <2>5
<1>6. ASSUME NEW i \in 1 .. u
      PROVE  /\ (ntail + (i - 1)) % Size \in Index
             /\ mem[(ntail + (i - 1)) % Size] = nbuf[(ntail + (i - 1)) % Size]
  <2>1. /\ i - 1 \in Nat /\ (i - 1) + (Size - u) <= Size
        /\ Size - u \in 0 .. Size
        /\ (i - 1) + (Size - u) \in 0 .. Size - 1
        /\ (i - 1) + (Size - u) >= n
        /\ nhead \in 0 - 1 .. Size - 1 /\ ntail \in 0 - 1 .. Size - 1
        /\ \/ ntail = nhead + (Size - u)
           \/ ntail = nhead + (Size - u) - Size
        /\ ntail + (i - 1) \in 0 - Size .. 2 * Size - 1
    BY <1>1
  <2>2. (ntail + (i - 1)) % Size \in Index
    BY <1>1, <2>1, ModIs
  <2>3. (nhead + ((i - 1) + (Size - u))) % Size = (ntail + (i - 1)) % Size
    BY <1>1, <2>1, LaterIs
  <2>4. (((nhead + ((i - 1) + (Size - u))) % Size) - nhead) % Size
          = (i - 1) + (Size - u)
    BY <1>1, <2>1, OffsetIs
  <2>5. PICK k \in Index : k = (ntail + (i - 1)) % Size
    BY <2>2
  <2>6. ~((k - nhead) % Size < n)
    BY <1>1, <2>1, <2>3, <2>4, <2>5
  <2>7. mem[k] = nbuf[k]
    BY <1>3, <2>6
  <2>. QED  BY <2>2, <2>5, <2>7
<1>. QED  BY <1>4, <1>5, <1>6 DEF u, n

LEMMA UsedGrows ==
  ASSUME Size \in Nat \ {0}, NEW t \in 0 .. Size - 1, NEW u \in Nat,
         NEW n \in Nat, u + n < Size,
         NEW h0 \in 0 .. Size - 1, h0 = t + u \/ h0 = t + u - Size,
         NEW h \in 0 .. Size - 1, NEW to, to = h0 + n,
         h = to \/ h = to - Size
  PROVE  /\ h < t => Size - t + h = u + n
         /\ ~(h < t) => h - t = u + n
OBVIOUS

\* Moving head over bytes that are stored appends them to the queue.
LEMMA HeadAppends ==
  ASSUME SingleLoads, NanoTypes, nbuf' \in [Index -> Byte],
         NEW data \in Seq(Byte), Nano!Used + Len(data) < Size,
         nhead' = (nhead + Len(data)) % Size, ntail' = ntail,
         \A j \in 1 .. Len(data) :
           nbuf'[(nhead + (j - 1)) % Size] = data[j],
         \A i \in 1 .. Nano!Used :
           nbuf'[(ntail + (i - 1)) % Size] = nbuf[(ntail + (i - 1)) % Size]
  PROVE  /\ nhead' \in Index
         /\ Nano!Used' = Nano!Used + Len(data)
         /\ Nano!Get(Nano!Used)' = Nano!Get(Nano!Used) \o data
         /\ Len(Nano!Get(Nano!Used)) = Nano!Used
<1>. DEFINE u == Nano!Used
            n == Len(data)
            to == nhead + n
<1>1. /\ Size \in Nat \ {0}
      /\ nhead \in 0 .. Size - 1 /\ ntail \in 0 .. Size - 1
      /\ nhead \in Index /\ ntail \in Index
      /\ u \in 0 .. Size - 1 /\ n \in Nat /\ u + n < Size
      /\ nhead = ntail + u \/ nhead = ntail + u - Size
  BY NanoIs DEF NanoTypes
<1>2. u \in 0 .. Size
  BY <1>1
<1>3. /\ Nano!Get(u) \in Seq(Byte) /\ Len(Nano!Get(u)) = u
      /\ \A i \in 1 .. u : Nano!Get(u)[i] = nbuf[(ntail + (i - 1)) % Size]
  BY <1>2, GetIs
<1>. HIDE DEF u, n, to
<1>15. to \in 0 - Size .. 2 * Size - 1 /\ 0 <= to /\ to = nhead + n
  BY <1>1 DEF to
<1>4. PICK h \in 0 .. Size - 1 : h = nhead'
  <2>1. to % Size \in Index
    BY <1>1, <1>15, ModIs
  <2>. QED  BY <2>1 DEF to, n, Index
<1>5. h = to \/ h = to - Size
  <2>1. h = to % Size
    BY <1>4 DEF to, n
  <2>. QED  BY <1>1, <1>15, <2>1, ModIs
<1>6. Nano!Used' = u + n
  <2>1. Nano!Used' = IF h < ntail THEN Size - ntail + h ELSE h - ntail
    BY <1>4 DEF Nano!Used, Nano!UsedIf, Nano!RolledOver
  <2>2. PICK t, h0, stored, more, sum :
          /\ t = ntail /\ h0 = nhead /\ stored = u /\ more = n /\ sum = to
    OBVIOUS
  <2>3. /\ t \in 0 .. Size - 1 /\ h0 \in 0 .. Size - 1
        /\ stored \in Nat /\ more \in Nat /\ stored + more < Size
        /\ sum = h0 + more
        /\ h0 = t + stored \/ h0 = t + stored - Size
        /\ h = sum \/ h = sum - Size
    BY <1>1, <1>5, <1>15, <2>2
  <2>4. /\ h < t => Size - t + h = stored + more
        /\ ~(h < t) => h - t = stored + more
    BY <1>1, <2>3, UsedGrows
  <2>. QED  BY <2>1, <2>2, <2>4
<1>7. ASSUME NEW i \in 1 .. u + n
      PROVE  /\ ntail + i - 1 = ntail + (i - 1)
             /\ (ntail + (i - 1)) % Size \in Index
  <2>1. /\ ntail + i - 1 = ntail + (i - 1)
        /\ ntail + (i - 1) \in 0 - Size .. 2 * Size - 1
    BY <1>1
  <2>. QED  BY <1>1, <2>1, ModIs
<1>8. PICK new : new = Nano!Get(Nano!Used)'
  OBVIOUS
<1>9. /\ new \in Seq(Byte) /\ Len(new) = u + n
      /\ \A i \in 1 .. u + n : new[i] = nbuf'[(ntail + (i - 1)) % Size]
  <2>1. new = [i \in 1 .. u + n |-> nbuf'[(ntail + (i - 1)) % Size]]
    BY <1>6, <1>7, <1>8 DEF Nano!Get, Nano!Around
  <2>2. \A i \in 1 .. u + n : nbuf'[(ntail + (i - 1)) % Size] \in Byte
    BY <1>7
  <2>. QED  BY <1>1, <2>1, <2>2
<1>10. PICK old : old = Nano!Get(u)
  OBVIOUS
<1>11. ASSUME NEW i \in 1 .. u PROVE new[i] = old[i]
  <2>1. i \in 1 .. u + n
    BY <1>1
  <2>2. nbuf'[(ntail + (i - 1)) % Size] = nbuf[(ntail + (i - 1)) % Size]
    BY DEF u
  <2>. QED  BY <1>3, <1>9, <1>10, <2>1, <2>2
<1>12. ASSUME NEW j \in 1 .. n PROVE new[u + j] = data[j]
  <2>1. /\ u + j \in 1 .. u + n /\ (u + j) - 1 = (j - 1) + u
        /\ j - 1 \in Nat /\ u \in 0 .. Size /\ (j - 1) + u <= Size
        /\ ntail \in 0 - 1 .. Size - 1 /\ nhead \in 0 - 1 .. Size - 1
    BY <1>1
  <2>2. (ntail + ((j - 1) + u)) % Size = (nhead + (j - 1)) % Size
    BY <1>1, <2>1, LaterIs
  <2>3. nbuf'[(nhead + (j - 1)) % Size] = data[j]
    BY DEF n
  <2>. QED  BY <1>9, <2>1, <2>2, <2>3
<1>13. new = old \o data
  <2>1. /\ old \in Seq(Byte) /\ Len(old) = u /\ Len(data) = n
        /\ Len(new) = Len(old) + Len(data)
    BY <1>3, <1>9, <1>10 DEF n
  <2>. QED  BY <1>9, <1>11, <1>12, <2>1, AppendedIs
<1>14. nhead' \in Index
  BY <1>4 DEF Index
<1>. QED  BY <1>3, <1>6, <1>8, <1>10, <1>13, <1>14 DEF u, n

\* Moving tail takes the oldest bytes from the queue.
LEMMA TailTakes ==
  ASSUME SingleLoads, NanoTypes, NEW n \in 0 .. Nano!Used,
         ntail' = (ntail + n) % Size, nhead' = nhead, nbuf' = nbuf
  PROVE  /\ ntail' \in Index
         /\ Nano!Used' = Nano!Used - n
         /\ Len(Nano!Get(Nano!Used)) = Nano!Used
         /\ Nano!Get(n) = SubSeq(Nano!Get(Nano!Used), 1, n)
         /\ Nano!Get(Nano!Used)'
              = SubSeq(Nano!Get(Nano!Used), n + 1, Nano!Used)
<1>. DEFINE u == Nano!Used
            to == ntail + n
<1>1. /\ Size \in Nat \ {0} /\ nbuf \in [Index -> Byte]
      /\ nhead \in 0 .. Size - 1 /\ ntail \in 0 .. Size - 1
      /\ nhead \in Index /\ ntail \in Index
      /\ u \in 0 .. Size - 1 /\ n \in 0 .. u
      /\ nhead = ntail + u \/ nhead = ntail + u - Size
  BY NanoIs DEF NanoTypes
<1>2. u \in 0 .. Size /\ n \in 0 .. Size
  BY <1>1
<1>3. /\ Nano!Get(u) \in Seq(Byte) /\ Len(Nano!Get(u)) = u
      /\ \A i \in 1 .. u : Nano!Get(u)[i] = nbuf[(ntail + (i - 1)) % Size]
      /\ Nano!Get(n) \in Seq(Byte) /\ Len(Nano!Get(n)) = n
      /\ \A i \in 1 .. n : Nano!Get(n)[i] = nbuf[(ntail + (i - 1)) % Size]
  BY <1>2, GetIs
<1>. HIDE DEF u, to
<1>16. to \in 0 - Size .. 2 * Size - 1 /\ 0 <= to /\ to = ntail + n
  BY <1>1 DEF to
<1>4. PICK t \in 0 .. Size - 1 : t = ntail'
  <2>1. to % Size \in Index
    BY <1>1, <1>16, ModIs
  <2>. QED  BY <2>1 DEF to, Index
<1>5. t = to \/ t = to - Size
  BY <1>1, <1>4, <1>16, ModIs
<1>6. Nano!Used' = u - n
  <2>1. Nano!Used' = IF nhead < t THEN Size - t + nhead ELSE nhead - t
    BY <1>4 DEF Nano!Used, Nano!UsedIf, Nano!RolledOver
  <2>. QED  BY <1>1, <1>4, <1>5, <1>16, <2>1
<1>7. ASSUME NEW i \in 1 .. u - n
      PROVE  /\ t + i - 1 = t + (i - 1)
             /\ (t + (i - 1)) % Size \in Index
  <2>1. /\ t + i - 1 = t + (i - 1)
        /\ t + (i - 1) \in 0 - Size .. 2 * Size - 1
    BY <1>1
  <2>. QED  BY <1>1, <2>1, ModIs
<1>8. PICK old, new, front :
        /\ old = Nano!Get(u) /\ new = Nano!Get(Nano!Used)'
        /\ front = Nano!Get(n)
  OBVIOUS
<1>9. /\ new \in Seq(Byte) /\ Len(new) = u - n
      /\ \A i \in 1 .. u - n : new[i] = nbuf[(t + (i - 1)) % Size]
  <2>1. new = [i \in 1 .. u - n |-> nbuf[(t + (i - 1)) % Size]]
    BY <1>4, <1>6, <1>7, <1>8 DEF Nano!Get, Nano!Around
  <2>2. \A i \in 1 .. u - n : nbuf[(t + (i - 1)) % Size] \in Byte
    BY <1>1, <1>7
  <2>. QED  BY <1>1, <2>1, <2>2
<1>10. ASSUME NEW i \in 1 .. u - n PROVE new[i] = old[i + n]
  <2>1. /\ i + n \in 1 .. u /\ (i + n) - 1 = (i - 1) + n
        /\ i - 1 \in Nat /\ n \in 0 .. Size /\ (i - 1) + n <= Size
        /\ ntail \in 0 - 1 .. Size - 1 /\ t \in 0 - 1 .. Size - 1
        /\ t = ntail + n \/ t = ntail + n - Size
    BY <1>1, <1>5, <1>16
  <2>2. (ntail + ((i - 1) + n)) % Size = (t + (i - 1)) % Size
    BY <1>1, <2>1, LaterIs
  <2>. QED  BY <1>3, <1>8, <1>9, <2>1, <2>2
<1>11. ASSUME NEW i \in 1 .. n PROVE front[i] = old[i]
  <2>1. i \in 1 .. u
    BY <1>1
  <2>. QED  BY <1>3, <1>8, <2>1
<1>12. /\ old \in Seq(Byte) /\ Len(old) = u /\ front \in Seq(Byte)
       /\ Len(front) = n
  BY <1>3, <1>8
<1>13. new = SubSeq(old, n + 1, u)
  <2>1. n \in 0 .. Len(old) /\ u \in n .. Len(old)
    BY <1>1, <1>12
  <2>. QED  BY <1>9, <1>10, <1>12, <2>1, PartIs
<1>14. front = SubSeq(old, 1, n)
  <2>1. /\ 0 \in 0 .. Len(old) /\ n \in 0 .. Len(old) /\ n - 0 = n
        /\ \A i \in 1 .. n - 0 : front[i] = old[i + 0]
        /\ Len(front) = n - 0
    BY <1>1, <1>11, <1>12
  <2>2. front = SubSeq(old, 0 + 1, n)
    BY <1>12, <2>1, PartIs
  <2>. QED  BY <2>2
<1>15. ntail' \in Index
  BY <1>4 DEF Index
<1>. QED  BY <1>3, <1>6, <1>8, <1>13, <1>14, <1>15 DEF u

LEMMA NanoInitInv ==
  ASSUME SingleLoads, Nano!Init
  PROVE  NanoInv /\ Nano!Fifo!Init
<1>1. /\ Size \in Nat \ {0} /\ Zero \in Byte
      /\ nbuf = [k \in Index |-> Zero] /\ nhead = 0 /\ ntail = 0
      /\ thread \in {"writes", "reads"} /\ call = Nano!NoCall
      /\ nlast = Nano!Did("none", <<>>, TRUE)
  BY DEF SingleLoads, Nano!NanopbAssumption, Nano!Init, Nano!Index, Index
<1>2. call.pc = "none" /\ NanoTypes
  BY <1>1 DEF NanoTypes, Index, Nano!NoCall
<1>3. NanoInv
  BY <1>2 DEF NanoInv, WriterSafe, ReaderSafe
<1>4. Nano!Used = 0
  BY <1>1 DEF Nano!Used, Nano!UsedIf, Nano!RolledOver
<1>5. Nano!Get(0) = <<>>
  BY DEF Nano!Get
<1>. QED  BY <1>1, <1>3, <1>4, <1>5 DEF Nano!Fifo!Init, Nano!Did, Nano!Fifo!Did

\* A step of a callback that moves no index keeps the queue.
LEMMA NanoQuiet ==
  ASSUME UNCHANGED <<nbuf, nhead, ntail>>
  PROVE  /\ Nano!Used' = Nano!Used
         /\ Nano!Get(Nano!Used)' = Nano!Get(Nano!Used)
         /\ \A n : Nano!Get(n)' = Nano!Get(n)
BY DEF Nano!Used, Nano!UsedIf, Nano!RolledOver, Nano!Get

LEMMA BeginStep ==
  ASSUME SingleLoads, NanoInv, NEW role \in {"writes", "reads"},
         NEW data \in Seq(Byte), NEW n \in Nat, Nano!Begin(role, data, n),
         role = "writes" => data \in Written /\ n = Len(data),
         role = "reads" => n \in 1 .. Size
  PROVE  NanoInv' /\ UNCHANGED Nano!Fifo!vars
<1>. DEFINE over == Nano!RolledOver
            made == [pc |-> "check", data |-> data, n |-> n, over |-> over]
<1>1. /\ thread = role /\ call' = made /\ over \in BOOLEAN
      /\ UNCHANGED <<nbuf, nhead, ntail, nlast, thread>>
  BY DEF Nano!Begin, Nano!RolledOver
<1>2. /\ made \in [pc : {"none", "check", "copy", "advance"},
                   data : Seq(Byte), n : Nat, over : BOOLEAN]
      /\ made.pc = "check" /\ made.data = data /\ made.n = n
  BY <1>1
<1>. HIDE DEF made, over
<1>3. NanoTypes'
  BY <1>1, <1>2 DEF NanoInv, NanoTypes
<1>4. WriterSafe' /\ ReaderSafe'
  BY <1>1, <1>2 DEF WriterSafe, ReaderSafe
<1>5. UNCHANGED Nano!Fifo!vars
  BY <1>1, NanoQuiet DEF Nano!Fifo!vars
<1>. QED  BY <1>3, <1>4, <1>5 DEF NanoInv

LEMMA CheckedStep ==
  ASSUME SingleLoads, NanoInv, Nano!Checked
  PROVE  NanoInv' /\ [Nano!Fifo!Next]_(Nano!Fifo!vars)
<1>. DEFINE u == Nano!Used
<1>1. /\ call.pc = "check" /\ UNCHANGED <<nbuf, nhead, ntail, thread>>
      /\ thread \in {"writes", "reads"}
  BY DEF Nano!Checked, NanoInv, NanoTypes
<1>2. Size \in Nat \ {0} /\ u \in 0 .. Size - 1 /\ Nano!InUse = u
  BY NanoIs DEF NanoInv
<1>3. /\ thread = "writes" => /\ call.data \in Written
                              /\ call.n = Len(call.data)
                              /\ call.n # Size - u
      /\ thread = "reads" => call.n \in 1 .. Size
      /\ call.n \in Nat
  BY <1>1 DEF NanoInv, NanoTypes, WriterSafe, ReaderSafe, Nano!Checked,
              Nano!Leaves
<1>4. /\ Nano!Used' = u /\ Nano!Get(Nano!Used)' = Nano!Get(Nano!Used)
      /\ Len(Nano!Get(Nano!Used)) = u
  <2>1. u \in 0 .. Size
    BY <1>2
  <2>. QED  BY <1>1, <2>1, NanoQuiet, GetIs DEF NanoInv
<1>5. /\ thread = "writes" => (Nano!Allowed <=> call.n <= Size - u)
      /\ thread = "reads" => (Nano!Allowed <=> call.n <= u)
  BY <1>1, <1>2, <1>3 DEF Nano!Allowed, Nano!NotMore
<1>. HIDE DEF u
<1>6. CASE /\ Nano!Allowed /\ call' = [call EXCEPT !.pc = "copy"]
           /\ UNCHANGED nlast
  <2>1. /\ NanoTypes' /\ call'.pc = "copy"
        /\ call'.n = call.n /\ call'.data = call.data
    BY <1>1, <1>6 DEF NanoInv, NanoTypes
  <2>2. thread = "writes" => u + call.n < Size
    BY <1>2, <1>3, <1>5, <1>6
  <2>3. thread = "reads" => call.n <= u
    BY <1>5, <1>6
  <2>4. WriterSafe'
    BY <1>1, <1>3, <1>4, <2>1, <2>2 DEF WriterSafe
  <2>5. ReaderSafe'
    BY <1>1, <1>3, <1>4, <2>1, <2>3 DEF ReaderSafe
  <2>6. UNCHANGED Nano!Fifo!vars
    BY <1>4, <1>6 DEF Nano!Fifo!vars
  <2>. QED  BY <2>1, <2>4, <2>5, <2>6 DEF NanoInv
<1>7. CASE /\ ~Nano!Allowed /\ call' = Nano!NoCall
           /\ nlast' = IF thread = "writes"
                       THEN Nano!Did("write", call.data, FALSE)
                       ELSE Nano!Did("read", <<>>, FALSE)
  <2>1. NanoTypes' /\ call'.pc = "none"
    BY <1>1, <1>7 DEF NanoInv, NanoTypes, Nano!NoCall
  <2>2. NanoInv'
    BY <2>1 DEF NanoInv, WriterSafe, ReaderSafe
  <2>3. ASSUME thread = "writes" PROVE Nano!Fifo!Next
    <3>1. Nano!Fifo!Write(call.data)
      <4>1. Len(Nano!Get(Nano!Used)) + Len(call.data) > Size
        BY <1>2, <1>3, <1>4, <1>5, <1>7, <2>3
      <4>. QED  BY <1>4, <1>7, <2>3, <4>1
                DEF Nano!Fifo!Write, Nano!Did, Nano!Fifo!Did
    <3>. QED  BY <1>3, <2>3, <3>1 DEF Nano!Fifo!Next
  <2>4. ASSUME thread = "reads" PROVE Nano!Fifo!Next
    <3>1. Nano!Fifo!Read(call.n)
      <4>1. call.n > Len(Nano!Get(Nano!Used))
        BY <1>2, <1>3, <1>4, <1>5, <1>7, <2>4
      <4>. QED  BY <1>4, <1>7, <2>4, <4>1
                DEF Nano!Fifo!Read, Nano!Did, Nano!Fifo!Did
    <3>2. call.n \in 0 .. Size + 1
      BY <1>2, <1>3, <2>4
    <3>. QED  BY <3>1, <3>2 DEF Nano!Fifo!Next
  <2>. QED  BY <1>1, <2>2, <2>3, <2>4
<1>. QED  BY <1>6, <1>7 DEF Nano!Checked

LEMMA CopyInStep ==
  ASSUME SingleLoads, NanoInv, Nano!CopyIn
  PROVE  NanoInv' /\ UNCHANGED Nano!Fifo!vars
<1>. DEFINE u == Nano!Used
<1>1. /\ call.pc = "copy" /\ thread = "writes"
      /\ nbuf' = Nano!Put(call.data)
      /\ call' = [call EXCEPT !.pc = "advance"]
      /\ UNCHANGED <<nhead, ntail, nlast, thread>>
  BY DEF Nano!CopyIn
<1>2. /\ NanoTypes /\ call.data \in Written /\ call.data \in Seq(Byte)
      /\ call.n = Len(call.data) /\ u + call.n < Size
  BY <1>1 DEF NanoInv, NanoTypes, WriterSafe
<1>3. /\ Size \in Nat \ {0} /\ u \in 0 .. Size - 1 /\ u \in 0 .. Size
      /\ nhead \in 0 .. Size - 1 /\ ntail \in 0 .. Size - 1
  BY <1>2, NanoIs
<1>4. /\ nbuf' \in [Index -> Byte]
      /\ \A j \in 1 .. call.n : nbuf'[(nhead + (j - 1)) % Size] = call.data[j]
      /\ \A i \in 1 .. u :
           nbuf'[(ntail + (i - 1)) % Size] = nbuf[(ntail + (i - 1)) % Size]
  BY <1>1, <1>2, PutIs
<1>5. /\ call' \in [pc : {"none", "check", "copy", "advance"},
                    data : Seq(Byte), n : Nat, over : BOOLEAN]
      /\ call'.pc = "advance" /\ call'.n = call.n /\ call'.data = call.data
  BY <1>1, <1>2 DEF NanoTypes
<1>6. NanoTypes'
  BY <1>1, <1>2, <1>4, <1>5 DEF NanoTypes
<1>7. Nano!Used' = u
  BY <1>1 DEF Nano!Used, Nano!UsedIf, Nano!RolledOver
<1>8. Nano!Get(Nano!Used)' = Nano!Get(Nano!Used)
  <2>1. ASSUME NEW i \in 1 .. u
        PROVE  nbuf'[(ntail + i - 1) % Size] = nbuf[(ntail + i - 1) % Size]
    <3>1. ntail + i - 1 = ntail + (i - 1)
      BY <1>3
    <3>. QED  BY <1>4, <3>1
  <2>. HIDE DEF u
  <2>2. Nano!Get(u) = [i \in 1 .. u |-> nbuf[(ntail + i - 1) % Size]]
    BY DEF Nano!Get, Nano!Around
  <2>3. Nano!Get(Nano!Used)' = [i \in 1 .. u |-> nbuf'[(ntail + i - 1) % Size]]
    BY <1>1, <1>7 DEF Nano!Get, Nano!Around
  <2>. QED  BY <2>1, <2>2, <2>3 DEF u
<1>. HIDE DEF u
<1>9. WriterSafe'
  <2>1. ASSUME NEW j \in 1 .. call.n
        PROVE  nbuf'[(nhead + j - 1) % Size] = call.data[j]
    <3>1. nhead + j - 1 = nhead + (j - 1)
      BY <1>3
    <3>. QED  BY <1>4, <3>1
  <2>. QED  BY <1>1, <1>2, <1>5, <1>7, <2>1 DEF WriterSafe
<1>10. ReaderSafe'
  BY <1>1 DEF ReaderSafe
<1>11. UNCHANGED Nano!Fifo!vars
  BY <1>1, <1>8 DEF Nano!Fifo!vars
<1>. QED  BY <1>6, <1>9, <1>10, <1>11 DEF NanoInv

LEMMA CopyOutStep ==
  ASSUME SingleLoads, NanoInv, Nano!CopyOut
  PROVE  NanoInv' /\ UNCHANGED Nano!Fifo!vars
<1>1. /\ call.pc = "copy" /\ thread = "reads"
      /\ call' = [call EXCEPT !.pc = "advance", !.data = Nano!Get(call.n)]
      /\ UNCHANGED <<nbuf, nhead, ntail, nlast, thread>>
  BY DEF Nano!CopyOut
<1>2. /\ NanoTypes /\ call.n \in 1 .. Size /\ call.n <= Nano!Used
      /\ Size \in Nat \ {0}
  BY <1>1, NanoIs DEF NanoInv, ReaderSafe
<1>3. Nano!Get(call.n) \in Seq(Byte)
  <2>1. call.n \in 0 .. Size
    BY <1>2
  <2>. QED  BY <1>2, <2>1, GetIs
<1>4. /\ call' \in [pc : {"none", "check", "copy", "advance"},
                    data : Seq(Byte), n : Nat, over : BOOLEAN]
      /\ call'.pc = "advance" /\ call'.n = call.n
      /\ call'.data = Nano!Get(call.n)
  BY <1>1, <1>2, <1>3 DEF NanoTypes
<1>5. NanoTypes'
  BY <1>1, <1>2, <1>4 DEF NanoTypes
<1>6. /\ Nano!Used' = Nano!Used
      /\ Nano!Get(Nano!Used)' = Nano!Get(Nano!Used)
      /\ Nano!Get(call.n)' = Nano!Get(call.n)
  BY <1>1, <1>4, NanoQuiet DEF Nano!Get
<1>7. ReaderSafe' /\ WriterSafe'
  BY <1>1, <1>2, <1>4, <1>6 DEF ReaderSafe, WriterSafe
<1>. QED  BY <1>1, <1>5, <1>6, <1>7 DEF NanoInv, Nano!Fifo!vars

LEMMA AdvanceStep ==
  ASSUME SingleLoads, NanoInv, Nano!Advance
  PROVE  NanoInv' /\ Nano!Fifo!Next
<1>1. /\ call.pc = "advance" /\ call' = Nano!NoCall
      /\ UNCHANGED <<nbuf, thread>> /\ NanoTypes
      /\ thread \in {"writes", "reads"}
  BY DEF Nano!Advance, NanoInv, NanoTypes
<1>2. /\ Size \in Nat \ {0} /\ Nano!Used \in 0 .. Size - 1
      /\ nhead \in 0 .. Size - 1
  BY <1>1, NanoIs
<1>3. /\ call'.pc = "none" /\ nbuf' \in [Index -> Byte]
      /\ call' \in [pc : {"none", "check", "copy", "advance"},
                    data : Seq(Byte), n : Nat, over : BOOLEAN]
  BY <1>1 DEF NanoTypes, Nano!NoCall
<1>4. WriterSafe' /\ ReaderSafe'
  BY <1>3 DEF WriterSafe, ReaderSafe
<1>5. ASSUME thread = "writes" PROVE NanoTypes' /\ Nano!Fifo!Next
  <2>1. /\ call.data \in Written /\ call.data \in Seq(Byte)
        /\ call.n = Len(call.data) /\ Nano!Used + Len(call.data) < Size
        /\ \A j \in 1 .. call.n :
             nbuf[(nhead + j - 1) % Size] = call.data[j]
        /\ nhead' = (nhead + Len(call.data)) % Size /\ ntail' = ntail
        /\ nlast' = Nano!Did("write", call.data, TRUE)
    BY <1>1, <1>5 DEF Nano!Advance, NanoInv, NanoTypes, WriterSafe,
                      Nano!Around
  <2>2. PICK data \in Seq(Byte) : data = call.data
    BY <2>1
  <2>3. ASSUME NEW j \in 1 .. Len(data)
        PROVE  nbuf'[(nhead + (j - 1)) % Size] = data[j]
    <3>1. nhead + j - 1 = nhead + (j - 1)
      BY <1>2
    <3>. QED  BY <1>1, <2>1, <2>2, <3>1
  <2>4. /\ nhead' \in Index
        /\ Nano!Get(Nano!Used)' = Nano!Get(Nano!Used) \o data
        /\ Len(Nano!Get(Nano!Used)) = Nano!Used
    BY <1>1, <1>3, <2>1, <2>2, <2>3, HeadAppends
  <2>5. Nano!Fifo!Write(data)
    BY <1>2, <2>1, <2>2, <2>4 DEF Nano!Fifo!Write, Nano!Did, Nano!Fifo!Did
  <2>6. NanoTypes'
    BY <1>1, <1>3, <2>1, <2>4 DEF NanoTypes
  <2>. QED  BY <2>1, <2>2, <2>5, <2>6 DEF Nano!Fifo!Next
<1>6. ASSUME thread = "reads" PROVE NanoTypes' /\ Nano!Fifo!Next
  <2>1. /\ call.n \in 1 .. Size /\ call.n <= Nano!Used
        /\ call.data = Nano!Get(call.n)
        /\ ntail' = (ntail + call.n) % Size /\ nhead' = nhead
        /\ nlast' = Nano!Did("read", call.data, TRUE)
    BY <1>1, <1>6 DEF Nano!Advance, NanoInv, ReaderSafe, Nano!Around
  <2>2. PICK n \in 0 .. Nano!Used : n = call.n
    BY <1>2, <2>1
  <2>3. /\ ntail' \in Index
        /\ Len(Nano!Get(Nano!Used)) = Nano!Used
        /\ Nano!Get(n) = SubSeq(Nano!Get(Nano!Used), 1, n)
        /\ Nano!Get(Nano!Used)'
             = SubSeq(Nano!Get(Nano!Used), n + 1, Nano!Used)
    BY <1>1, <2>1, <2>2, TailTakes
  <2>4. Nano!Fifo!Read(n) /\ n \in 0 .. Size + 1
    BY <1>2, <2>1, <2>2, <2>3 DEF Nano!Fifo!Read, Nano!Did, Nano!Fifo!Did
  <2>5. NanoTypes'
    BY <1>1, <1>3, <2>1, <2>3 DEF NanoTypes
  <2>. QED  BY <2>4, <2>5 DEF Nano!Fifo!Next
<1>. QED  BY <1>1, <1>4, <1>5, <1>6 DEF NanoInv

LEMMA AdvanceTailStep ==
  ASSUME SingleLoads, NanoInv, NEW n \in 1 .. Size,
         Nano!AdvanceTail(n)
  PROVE  NanoInv' /\ Nano!Fifo!Next
<1>1. /\ thread = "writes" /\ n <= Nano!Used
      /\ ntail' = (ntail + n) % Size /\ nhead' = nhead /\ nbuf' = nbuf
      /\ nlast' = Nano!Did("read", Nano!Get(n), TRUE)
      /\ UNCHANGED <<thread, call>> /\ NanoTypes
  BY DEF Nano!AdvanceTail, Nano!Around, NanoInv
<1>2. Size \in Nat \ {0} /\ Nano!Used \in 0 .. Size - 1
  BY <1>1, NanoIs
<1>3. n \in 0 .. Nano!Used
  BY <1>1, <1>2
<1>4. /\ ntail' \in Index /\ Nano!Used' = Nano!Used - n
      /\ Len(Nano!Get(Nano!Used)) = Nano!Used
      /\ Nano!Get(n) = SubSeq(Nano!Get(Nano!Used), 1, n)
      /\ Nano!Get(Nano!Used)' = SubSeq(Nano!Get(Nano!Used), n + 1, Nano!Used)
  BY <1>1, <1>3, TailTakes
<1>5. Nano!Fifo!Read(n) /\ n \in 0 .. Size + 1
  BY <1>1, <1>2, <1>3, <1>4 DEF Nano!Fifo!Read, Nano!Did, Nano!Fifo!Did
<1>6. NanoTypes'
  BY <1>1, <1>4 DEF NanoTypes
<1>7. call.pc \notin {"none", "check"} => Nano!Used' + call.n < Size
  <2>1. call.n \in Nat /\ call.pc \notin {"none", "check"}
          => Nano!Used + call.n < Size
    BY <1>1 DEF NanoInv, WriterSafe
  <2>2. call.n \in Nat
    BY <1>1 DEF NanoTypes
  <2>. QED  BY <1>2, <1>3, <1>4, <2>1, <2>2
<1>8. WriterSafe' /\ ReaderSafe'
  BY <1>1, <1>7 DEF NanoInv, WriterSafe, ReaderSafe
<1>. QED  BY <1>5, <1>6, <1>8 DEF NanoInv, Nano!Fifo!Next

LEMMA AdvanceHeadStep ==
  ASSUME SingleLoads, NanoInv, NEW data \in Written,
         Nano!AdvanceHead(data)
  PROVE  NanoInv' /\ Nano!Fifo!Next
<1>1. /\ thread = "reads" /\ nbuf' = Nano!Put(data) /\ data \in Seq(Byte)
      /\ nhead' = (nhead + Len(data)) % Size /\ ntail' = ntail
      /\ Len(data) <= Size - Nano!Used /\ Len(data) # Size - Nano!Used
      /\ nlast' = Nano!Did("write", data, TRUE)
      /\ UNCHANGED <<thread, call>> /\ NanoTypes
  BY DEF Nano!AdvanceHead, Nano!Leaves, Nano!Around, NanoInv,
         SingleLoads, Nano!NanopbAssumption
<1>2. /\ Size \in Nat \ {0} /\ Nano!Used \in 0 .. Size - 1
      /\ ntail \in 0 .. Size - 1
  BY <1>1, NanoIs
<1>3. Nano!Used + Len(data) < Size /\ Len(data) \in Nat
  BY <1>1, <1>2
<1>4. /\ nbuf' \in [Index -> Byte]
      /\ \A j \in 1 .. Len(data) : nbuf'[(nhead + (j - 1)) % Size] = data[j]
      /\ \A i \in 1 .. Nano!Used :
           nbuf'[(ntail + (i - 1)) % Size] = nbuf[(ntail + (i - 1)) % Size]
  BY <1>1, <1>3, PutIs
<1>5. /\ nhead' \in Index /\ Nano!Used' = Nano!Used + Len(data)
      /\ Nano!Get(Nano!Used)' = Nano!Get(Nano!Used) \o data
      /\ Len(Nano!Get(Nano!Used)) = Nano!Used
  BY <1>1, <1>3, <1>4, HeadAppends
<1>6. Nano!Fifo!Write(data)
  BY <1>1, <1>2, <1>3, <1>5 DEF Nano!Fifo!Write, Nano!Did, Nano!Fifo!Did
<1>7. NanoTypes'
  BY <1>1, <1>4, <1>5 DEF NanoTypes
<1>8. ASSUME call.pc \notin {"none", "check"}
      PROVE  call.n <= Nano!Used' /\ Nano!Get(call.n)' = Nano!Get(call.n)
  <2>1. call.n \in 1 .. Size /\ call.n <= Nano!Used
    BY <1>1, <1>8 DEF NanoInv, ReaderSafe
  <2>2. ASSUME NEW i \in 1 .. call.n
        PROVE  nbuf'[(ntail + i - 1) % Size] = nbuf[(ntail + i - 1) % Size]
    <3>1. i \in 1 .. Nano!Used /\ ntail + i - 1 = ntail + (i - 1)
      BY <1>2, <2>1
    <3>. QED  BY <1>4, <3>1
  <2>3. PICK n : n = call.n
    OBVIOUS
  <2>4. /\ Nano!Get(call.n) = [i \in 1 .. n |-> nbuf[(ntail + i - 1) % Size]]
        /\ Nano!Get(call.n)'
             = [i \in 1 .. n |-> nbuf'[(ntail + i - 1) % Size]]
    BY <1>1, <2>3 DEF Nano!Get, Nano!Around
  <2>5. Nano!Get(call.n)' = Nano!Get(call.n)
    BY <2>2, <2>3, <2>4
  <2>. QED  BY <1>2, <1>3, <1>5, <2>1, <2>5
<1>9. WriterSafe' /\ ReaderSafe'
  BY <1>1, <1>8 DEF NanoInv, WriterSafe, ReaderSafe
<1>. QED  BY <1>6, <1>7, <1>9 DEF NanoInv, Nano!Fifo!Next

LEMMA NanoStep ==
  ASSUME SingleLoads, NanoInv, [Nano!Next]_(Nano!vars)
  PROVE  NanoInv' /\ [Nano!Fifo!Next]_(Nano!Fifo!vars)
<1>1. ASSUME NEW data \in Written, Nano!BeginWrite(data)
      PROVE  NanoInv' /\ UNCHANGED Nano!Fifo!vars
  <2>1. data \in Seq(Byte) /\ Len(data) \in Nat
    BY DEF SingleLoads, Nano!NanopbAssumption
  <2>. QED  BY <1>1, <2>1, BeginStep DEF Nano!BeginWrite
<1>2. ASSUME NEW n \in 1 .. Size, Nano!BeginRead(n)
      PROVE  NanoInv' /\ UNCHANGED Nano!Fifo!vars
  <2>1. n \in Nat /\ <<>> \in Seq(Byte)
    BY DEF SingleLoads, Nano!NanopbAssumption
  <2>. QED  BY <1>2, <2>1, BeginStep DEF Nano!BeginRead
<1>3. CASE UNCHANGED Nano!vars
  <2>1. UNCHANGED <<nbuf, nhead, ntail, nlast, thread, call>>
    BY <1>3 DEF Nano!vars
  <2>2. /\ Nano!Used' = Nano!Used /\ UNCHANGED Nano!Fifo!vars
        /\ Nano!Get(call.n)' = Nano!Get(call.n)
    BY <2>1, NanoQuiet DEF Nano!Fifo!vars, Nano!Get
  <2>3. NanoInv'
    BY <2>1, <2>2 DEF NanoInv, NanoTypes, WriterSafe, ReaderSafe
  <2>. QED  BY <2>2, <2>3
<1>. QED  BY <1>1, <1>2, <1>3, CheckedStep, CopyInStep, CopyOutStep,
             AdvanceStep, AdvanceTailStep, AdvanceHeadStep DEF Nano!Next

\* With the interrupt between any two steps of a callback, the ring behind
\* nanopb's streams is a bounded queue of bytes (pb_ostream_write_callback :52,
\* pb_istream_read_callback :21), where no write fills it exactly and each
\* index is loaded once.
THEOREM StreamRingIsQueue ==
  ASSUME SingleLoads
  PROVE  Nano!Spec => NanopbImplementsFifo
<1>1. Nano!Init => NanoInv /\ Nano!Fifo!Init
  BY NanoInitInv
<1>2. NanoInv /\ [Nano!Next]_(Nano!vars)
      => NanoInv' /\ [Nano!Fifo!Next]_(Nano!Fifo!vars)
  BY NanoStep
<1>. QED  BY <1>1, <1>2, PTL DEF Nano!Spec, NanopbImplementsFifo,
                                 Nano!NanopbImplementsFifo,
                                 Nano!Fifo!Spec
=============================================================================
