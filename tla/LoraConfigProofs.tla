-------------------------- MODULE LoraConfigProofs --------------------------
(***************************************************************************)
(* What the configuration calls leave in the radio's registers, for every  *)
(* frequency the radio can tune to, every bandwidth, spreading factor,     *)
(* power, preamble, symbol timeout and coding rate, and every history of   *)
(* calls and restarts.  The invariant is that each part of each register   *)
(* agrees with what was asked for (Good); a call keeps the parts it does   *)
(* not write, and sets its own.                                            *)
(***************************************************************************)
EXTENDS LoraConfig, TLAPS

-----------------------------------------------------------------------------
(* Bits of a byte.                                                         *)

Byte == 0 .. 255
Powers == {1, 2, 4, 8, 16, 32, 64, 128}

\* The value of one bit of a byte, as Or adds it.
Part(x, y, value) == IF Bit(x, value) \/ Bit(y, value) THEN value ELSE 0

LEMMA OrBits ==
  ASSUME NEW x \in Byte, NEW y \in Byte
  PROVE  /\ Or(x, y) \in Byte
         /\ \A value \in Powers :
              Bit(Or(x, y), value) <=> Bit(x, value) \/ Bit(y, value)
<1>. DEFINE p(value) == Part(x, y, value)
<1>1. Or(x, y) = p(1) + p(2) + p(4) + p(8) + p(16) + p(32) + p(64) + p(128)
  BY DEF Or, Part
<1>2. \A value \in Powers : p(value) \in {0, value}
  BY DEF Part
<1>3. \A value \in Powers : p(value) = value <=> Bit(x, value) \/ Bit(y, value)
  BY DEF Part, Powers
<1>. HIDE DEF p
<1>4. PICK a1, a2, a4, a8, a16, a32, a64, a128 :
        /\ a1 = p(1) /\ a2 = p(2) /\ a4 = p(4) /\ a8 = p(8) /\ a16 = p(16)
        /\ a32 = p(32) /\ a64 = p(64) /\ a128 = p(128)
  OBVIOUS
<1>5. /\ a1 \in {0, 1} /\ a2 \in {0, 2} /\ a4 \in {0, 4} /\ a8 \in {0, 8}
      /\ a16 \in {0, 16} /\ a32 \in {0, 32} /\ a64 \in {0, 64} /\ a128 \in {0, 128}
  BY <1>2, <1>4 DEF Powers
<1>6. PICK s \in Int : s = a1 + a2 + a4 + a8 + a16 + a32 + a64 + a128
  BY <1>5
<1>7. s \in Byte /\ Or(x, y) = s
  BY <1>1, <1>4, <1>5, <1>6 DEF Byte
<1>8. /\ Bit(s, 1) <=> a1 = 1
      /\ Bit(s, 2) <=> a2 = 2
      /\ Bit(s, 4) <=> a4 = 4
      /\ Bit(s, 8) <=> a8 = 8
  BY <1>5, <1>6 DEF Bit
<1>9. /\ Bit(s, 16) <=> a16 = 16
      /\ Bit(s, 32) <=> a32 = 32
      /\ Bit(s, 64) <=> a64 = 64
      /\ Bit(s, 128) <=> a128 = 128
  BY <1>5, <1>6 DEF Bit
<1>. QED
  BY <1>3, <1>4, <1>7, <1>8, <1>9 DEF Powers

\* A byte is the sum of its bits.
LEMMA BitsOf ==
  ASSUME NEW x \in Byte
  PROVE  /\ High(x) = (IF Bit(x, 16) THEN 1 ELSE 0) + (IF Bit(x, 32) THEN 2 ELSE 0)
                      + (IF Bit(x, 64) THEN 4 ELSE 0) + (IF Bit(x, 128) THEN 8 ELSE 0)
         /\ Low(x) = (IF Bit(x, 1) THEN 1 ELSE 0) + (IF Bit(x, 2) THEN 2 ELSE 0)
                      + (IF Bit(x, 4) THEN 4 ELSE 0) + (IF Bit(x, 8) THEN 8 ELSE 0)
  BY DEF Byte, High, Low, Bit

\* The low half decides its bits, and the bits decide the half and the coding
\* rate in it.
LEMMA LowBits ==
  ASSUME NEW x \in Byte, NEW z \in Byte, Low(x) = Low(z)
  PROVE  \A v \in {1, 2, 4, 8} : Bit(x, v) <=> Bit(z, v)
<1>1. /\ Bit(x, 1) <=> Bit(z, 1)
      /\ Bit(x, 2) <=> Bit(z, 2)
      /\ Bit(x, 4) <=> Bit(z, 4)
      /\ Bit(x, 8) <=> Bit(z, 8)
  BY BitsOf
<1>. QED
  BY <1>1

LEMMA SameRate ==
  ASSUME NEW x \in Byte, NEW z \in Byte, \A v \in {2, 4, 8} : Bit(x, v) <=> Bit(z, v)
  PROVE  Low(x) \div 2 = Low(z) \div 2
<1>1. \A b1, b2, b4, b8 \in BOOLEAN :
        ((IF b1 THEN 1 ELSE 0) + (IF b2 THEN 2 ELSE 0) + (IF b4 THEN 4 ELSE 0)
           + (IF b8 THEN 8 ELSE 0)) \div 2
        = (IF b2 THEN 1 ELSE 0) + (IF b4 THEN 2 ELSE 0) + (IF b8 THEN 4 ELSE 0)
  OBVIOUS
<1>2. \A y \in Byte : Low(y) \div 2 = (IF Bit(y, 2) THEN 1 ELSE 0)
                        + (IF Bit(y, 4) THEN 2 ELSE 0) + (IF Bit(y, 8) THEN 4 ELSE 0)
  BY <1>1, BitsOf
<1>. QED
  BY <1>2

\* What the driver sets in a byte with Or, and clears.
LEMMA OrLow ==
  ASSUME NEW x \in Byte, NEW y \in 0 .. 7
  PROVE  /\ Or(x, y) \in Byte /\ High(Or(x, y)) = High(x)
         /\ \A v \in {1, 2, 4, 8} : Bit(Or(x, y), v) <=> Bit(x, v) \/ Bit(y, v)
<1>0. y \in Byte
  BY DEF Byte
<1>1. Or(x, y) \in Byte
      /\ \A v \in Powers : Bit(Or(x, y), v) <=> Bit(x, v) \/ Bit(y, v)
  BY <1>0, OrBits
<1>2. ~Bit(y, 16) /\ ~Bit(y, 32) /\ ~Bit(y, 64) /\ ~Bit(y, 128)
  BY DEF Bit
<1>3. High(Or(x, y)) = High(x)
  BY <1>1, <1>2, BitsOf DEF Powers
<1>. QED
  BY <1>1, <1>3 DEF Powers

\* The bits of one: the header mode; of four: the CRC.
LEMMA OneAndFour ==
  /\ Bit(1, 1) /\ ~Bit(1, 2) /\ ~Bit(1, 4) /\ ~Bit(1, 8)
  /\ ~Bit(4, 1) /\ ~Bit(4, 2) /\ Bit(4, 4) /\ ~Bit(4, 8)
  BY DEF Bit

\* Of the byte x to z: the low half is kept, and the high half gained bits and
\* is now the bandwidth with the coding rates.
RateSet(x, z, bw, rates) ==
  /\ z \in Byte /\ (Bit(z, 1) <=> Bit(x, 1)) /\ Low(z) \div 2 = Low(x) \div 2
  /\ BandwidthIs(z, bw, rates)
  /\ \A b \in {16, 32, 64, 128} : Bit(x, b) => Bit(z, b)

\* A coding rate, shifted twice, reaches the bits of the bandwidth alone.
LEMMA OrCodingRate ==
  ASSUME NEW x \in Byte, NEW rate \in {8, 16, 24, 32}, NEW bw, NEW rates,
         BandwidthIs(x, bw, rates)
  PROVE  RateSet(x, Or(x, (2 * rate) % 256), bw, rates \cup {rate})
<1>1. PICK y : y = (2 * rate) % 256
  OBVIOUS
<1>2. y \in {16, 32, 48, 64}
  BY <1>1
<1>3. y \in Byte /\ ~Bit(y, 1) /\ ~Bit(y, 2) /\ ~Bit(y, 4) /\ ~Bit(y, 8)
  BY <1>2 DEF Byte, Bit
<1>4. \A b \in {1, 2, 4, 8} : Bit(y, 16 * b) <=> Bit(rate, 8 * b)
  <2>1. CASE rate = 8
    BY <1>1, <2>1 DEF Bit
  <2>2. CASE rate = 16
    BY <1>1, <2>2 DEF Bit
  <2>3. CASE rate = 24
    BY <1>1, <2>3 DEF Bit
  <2>4. CASE rate = 32
    BY <1>1, <2>4 DEF Bit
  <2>. QED
    BY <2>1, <2>2, <2>3, <2>4
<1>5. PICK z : z = Or(x, y)
  OBVIOUS
<1>6. z \in Byte /\ \A v \in Powers : Bit(z, v) <=> Bit(x, v) \/ Bit(y, v)
  BY <1>3, <1>5, OrBits
<1>7. Low(z) \div 2 = Low(x) \div 2 /\ (Bit(z, 1) <=> Bit(x, 1))
  <2>1. \A v \in {2, 4, 8} : Bit(z, v) <=> Bit(x, v)
    BY <1>3, <1>6 DEF Powers
  <2>. QED
    BY <1>3, <1>6, <2>1, SameRate DEF Powers
<1>8. BandwidthIs(z, bw, rates \cup {rate})
  <2>. SUFFICES ASSUME NEW b \in {1, 2, 4, 8}
                PROVE  Bit(z, 16 * b) <=> Bit(bw, b)
                         \/ \E other \in rates \cup {rate} : Bit(other, 8 * b)
    BY DEF BandwidthIs
  <2>1. 16 * b \in Powers
    BY DEF Powers
  <2>2. Bit(z, 16 * b) <=> Bit(x, 16 * b) \/ Bit(rate, 8 * b)
    BY <1>4, <1>6, <2>1, Zenon
  <2>3. Bit(x, 16 * b) <=> Bit(bw, b) \/ \E other \in rates : Bit(other, 8 * b)
    BY DEF BandwidthIs
  <2>. QED
    BY <2>2, <2>3, Zenon
<1>9. RateSet(x, z, bw, rates \cup {rate})
  BY <1>6, <1>7, <1>8 DEF RateSet, Powers
<1>. QED
  BY <1>1, <1>5, <1>9

\* Bits that are those of the bandwidth, all set in another byte of which they
\* are the bandwidth's too.
LEMMA Sandwiched ==
  ASSUME NEW x \in Byte, NEW z \in Byte, NEW bw \in 0 .. 9, NEW rates,
         BandwidthIs(x, bw, rates), High(z) = bw,
         \A b \in {16, 32, 64, 128} : Bit(x, b) => Bit(z, b)
  PROVE  High(x) = bw
<1>1. \A y \in Byte : High(y) = bw =>
        /\ Bit(y, 16) <=> Bit(bw, 1)
        /\ Bit(y, 32) <=> Bit(bw, 2)
        /\ Bit(y, 64) <=> Bit(bw, 4)
        /\ Bit(y, 128) <=> Bit(bw, 8)
  BY DEF Byte, High, Bit
<1>2. /\ Bit(bw, 1) => Bit(x, 16)
      /\ Bit(bw, 2) => Bit(x, 32)
      /\ Bit(bw, 4) => Bit(x, 64)
      /\ Bit(bw, 8) => Bit(x, 128)
  <2>1. \A b \in {1, 2, 4, 8} : Bit(bw, b) => Bit(x, 16 * b)
    BY Zenon DEF BandwidthIs
  <2>2. 16 * 1 = 16 /\ 16 * 2 = 32 /\ 16 * 4 = 64 /\ 16 * 8 = 128
    OBVIOUS
  <2>. QED
    BY <2>1, <2>2
<1>3. /\ Bit(x, 16) <=> Bit(z, 16)
      /\ Bit(x, 32) <=> Bit(z, 32)
      /\ Bit(x, 64) <=> Bit(z, 64)
      /\ Bit(x, 128) <=> Bit(z, 128)
  BY <1>1, <1>2
<1>. QED
  BY <1>3, BitsOf

\* The bandwidth is in the high half.
LEMMA SameBandwidth ==
  ASSUME NEW x \in Byte, NEW z \in Byte, High(z) = High(x), NEW bw, NEW rates,
         BandwidthIs(x, bw, rates)
  PROVE  BandwidthIs(z, bw, rates)
<1>1. \A b \in {1, 2, 4, 8} : \A y \in Byte : Bit(y, 16 * b) <=> Bit(High(y), b)
  BY DEF Byte, High, Bit
<1>2. \A b \in {1, 2, 4, 8} : Bit(z, 16 * b) <=> Bit(x, 16 * b)
  BY <1>1
<1>. QED
  BY <1>2, Zenon DEF BandwidthIs

LEMMA ClearBit ==
  ASSUME NEW x \in Byte
  PROVE  /\ Clear(x, 1) \in Byte /\ High(Clear(x, 1)) = High(x) /\ ~Bit(Clear(x, 1), 1)
         /\ Low(Clear(x, 1)) \div 2 = Low(x) \div 2
         /\ Clear(x, 4) \in Byte /\ High(Clear(x, 4)) = High(x) /\ ~Bit(Clear(x, 4), 4)
         /\ (Bit(Clear(x, 4), 1) <=> Bit(x, 1)) /\ (Bit(Clear(x, 4), 2) <=> Bit(x, 2))
  BY DEF Byte, Clear, Bit, High, Low

\* The constant parts of the power registers do not overlap the variable ones.
LEMMA OrConstant ==
  /\ \A y \in 0 .. 15 : Or(112, y) = 112 + y /\ Or(128, y) = 128 + y
  /\ \A y \in 0 .. 31 : Or(32, y) = 32 + y
  BY DEF Or, Bit

\* What Suitable says of one frequency.
FrequencyFits(freq) == freq \in Nat /\ freq < 1024 * 1000000

-----------------------------------------------------------------------------
(* What each setter does to the registers.                                 *)

Fields == {"FRF_MSB", "FRF_MID", "FRF_LSB", "PA_CONFIG", "PA_DAC", "OCP", "LNA", "MC1",
           "MC2", "MC3", "SYMB", "PRE_MSB", "PRE_LSB", "OPTIMIZE", "THRESHOLD", "DIO"}
Registers == [Fields -> Byte]

\* s is r but for the registers in changed.
OnlyIn(changed, r, s) == s \in Registers /\ \A k \in Fields \ changed : s[k] = r[k]

LEMMA FrequencySets ==
  ASSUME NEW r \in Registers, NEW freq, FrequencyFits(freq)
  PROVE  LET s == SetFrequency(r, freq)
         IN  /\ OnlyIn({"FRF_MSB", "FRF_MID", "FRF_LSB"}, r, s)
             /\ 65536 * s.FRF_MSB + 256 * s.FRF_MID + s.FRF_LSB = Frf(freq)
<1>1. PICK f : f = Frf(freq)
  OBVIOUS
<1>2. f \in Nat /\ f <= 16777215
  <2>1. PICK q, m : q = freq \div 15625 /\ m = freq % 15625
    OBVIOUS
  <2>2. q \in Nat /\ q <= 65535 /\ m \in Nat /\ m < 15625
    BY <2>1, SMT DEF FrequencyFits
  <2>3. f = 256 * q + (256 * m) \div 15625
    BY <1>1, <2>1 DEF Frf, FrequencyFits
  <2>4. (256 * m) \div 15625 \in Nat /\ (256 * m) \div 15625 <= 255
    BY <2>2, SMT
  <2>. QED
    BY <2>2, <2>3, <2>4, SMT
<1>3. PICK a, b, c : a = (f \div 65536) % 256 /\ b = (f \div 256) % 256 /\ c = f % 256
  OBVIOUS
<1>4. a \in Byte /\ b \in Byte /\ c \in Byte /\ 65536 * a + 256 * b + c = f
  BY <1>2, <1>3, SMT DEF Byte
<1>5. PICK t : t = [r EXCEPT !.FRF_MSB = a]
  OBVIOUS
<1>6. t \in Registers /\ OnlyIn({"FRF_MSB"}, r, t) /\ t.FRF_MSB = a
  BY <1>4, <1>5, SMT DEF Registers, Fields, OnlyIn
<1>7. PICK u : u = [t EXCEPT !.FRF_MID = b]
  OBVIOUS
<1>8. u \in Registers /\ OnlyIn({"FRF_MID"}, t, u) /\ u.FRF_MID = b
  BY <1>4, <1>6, <1>7, SMT DEF Registers, Fields, OnlyIn
<1>9. PICK s : s = [u EXCEPT !.FRF_LSB = c]
  OBVIOUS
<1>10. OnlyIn({"FRF_LSB"}, u, s) /\ s.FRF_LSB = c
  BY <1>4, <1>8, <1>9, SMT DEF Registers, Fields, OnlyIn
<1>11. SetFrequency(r, freq) = s
  BY <1>1, <1>3, <1>5, <1>7, <1>9, SMT DEF SetFrequency
<1>. QED
  BY <1>1, <1>4, <1>6, <1>8, <1>10, <1>11 DEF OnlyIn, Fields

LEMMA LowDataRateSets ==
  ASSUME NEW r \in Registers
  PROVE  LET s == LowDataRate(r)
         IN  /\ OnlyIn({"MC3"}, r, s)
             /\ Bit(s.MC3, 8) <=> High(r.MC2) >= 11 /\ High(r.MC1) = BW_125
<1>1. 4 \in Byte /\ 12 \in Byte /\ ~Bit(4, 8) /\ Bit(12, 8)
  BY DEF Byte, Bit
<1>. QED
  BY <1>1 DEF LowDataRate, OnlyIn, Registers, Fields

LEMMA BandwidthSets ==
  ASSUME NEW r \in Registers, NEW bw \in 0 .. 9
  PROVE  LET s == SetBandwidth(r, bw)
         IN  /\ OnlyIn({"MC1", "MC3"}, r, s)
             /\ High(s.MC1) = bw /\ BandwidthIs(s.MC1, bw, {})
             /\ (Bit(s.MC1, 1) <=> Bit(r.MC1, 1)) /\ Low(s.MC1) = Low(r.MC1)
             /\ Bit(s.MC3, 8) <=> High(r.MC2) >= 11 /\ bw = BW_125
<1>1. PICK x : x = Low(r.MC1) + 16 * bw
  OBVIOUS
<1>2. x \in Byte /\ High(x) = bw /\ Low(x) = Low(r.MC1)
  <2>1. PICK y \in Byte : y = r.MC1
    BY DEF Registers, Fields
  <2>2. PICK z : z = y % 16
    OBVIOUS
  <2>3. z \in 0 .. 15
    BY <2>2 DEF Byte
  <2>4. x = z + 16 * bw
    BY <1>1, <2>1, <2>2 DEF Low
  <2>. QED
    BY <2>1, <2>2, <2>3, <2>4 DEF Byte, High, Low
<1>3. Bit(x, 1) <=> Bit(r.MC1, 1)
  <2>1. r.MC1 \in Byte
    BY DEF Registers, Fields
  <2>. QED
    BY <1>2, <2>1, LowBits
<1>4. BandwidthIs(x, bw, {})
  <2>1. \A y \in Byte : High(y) = bw => \A b \in {1, 2, 4, 8} : Bit(y, 16 * b) <=> Bit(bw, b)
    BY DEF Byte, High, Bit
  <2>2. \A b \in {1, 2, 4, 8} : Bit(x, 16 * b) <=> Bit(bw, b)
    BY <1>2, <2>1
  <2>. QED
    BY <2>2, Zenon DEF BandwidthIs
<1>5. PICK t : t = WithBandwidth(r, bw)
  OBVIOUS
<1>6. t = [r EXCEPT !.MC1 = x]
  BY <1>1, <1>5 DEF WithBandwidth
<1>7. t \in Registers /\ t.MC1 = x /\ \A k \in Fields \ {"MC1"} : t[k] = r[k]
  BY <1>2, <1>6 DEF Registers, Fields
<1>8. SetBandwidth(r, bw) = LowDataRate(t)
  BY <1>5 DEF SetBandwidth
<1>9. PICK s : s = LowDataRate(t)
  OBVIOUS
<1>10. OnlyIn({"MC3"}, t, s) /\ (Bit(s.MC3, 8) <=> High(t.MC2) >= 11 /\ High(t.MC1) = BW_125)
  BY <1>7, <1>9, LowDataRateSets
<1>11. OnlyIn({"MC1", "MC3"}, r, s) /\ s.MC1 = x /\ t.MC2 = r.MC2
  BY <1>7, <1>10 DEF OnlyIn, Fields
<1>. QED
  BY <1>2, <1>3, <1>4, <1>7, <1>8, <1>9, <1>10, <1>11

LEMMA SpreadingFactorSets ==
  ASSUME NEW r \in Registers, NEW asked \in Nat
  PROVE  LET s  == SetSpreadingFactor(r, asked)
             sf == Bounded(asked, 6, 12)
         IN  /\ OnlyIn({"MC2", "MC3", "OPTIMIZE", "THRESHOLD"}, r, s)
             /\ sf \in 6 .. 12
             /\ High(s.MC2) = sf /\ Low(s.MC2) = Low(r.MC2)
             /\ s.THRESHOLD = 12 <=> sf = 6
             /\ s.OPTIMIZE = 197 <=> sf = 6
             /\ Bit(s.MC3, 8) <=> sf >= 11 /\ High(r.MC1) = BW_125
<1>1. PICK sf : sf = Bounded(asked, 6, 12)
  OBVIOUS
<1>2. sf \in 6 .. 12
  BY <1>1 DEF Bounded
<1>3. PICK x : x = Low(r.MC2) + 16 * sf
  OBVIOUS
<1>4. x \in Byte /\ High(x) = sf /\ Low(x) = Low(r.MC2)
  <2>1. PICK y \in Byte : y = r.MC2
    BY DEF Registers, Fields
  <2>2. PICK z : z = y % 16
    OBVIOUS
  <2>3. z \in 0 .. 15
    BY <2>2 DEF Byte
  <2>4. x = z + 16 * sf
    BY <1>3, <2>1, <2>2 DEF Low
  <2>5. x \in 0 .. 255 /\ x \div 16 = sf /\ x % 16 = z
    BY <1>2, <2>3, <2>4
  <2>. QED
    BY <2>1, <2>2, <2>5, Zenon DEF Byte, High, Low
<1>5. PICK a, b : a = (IF sf = 6 THEN 197 ELSE 195) /\ b = (IF sf = 6 THEN 12 ELSE 10)
  OBVIOUS
<1>6. a \in Byte /\ b \in Byte /\ (a = 197 <=> sf = 6) /\ (b = 12 <=> sf = 6)
  BY <1>5 DEF Byte
<1>7. PICK t : t = [r EXCEPT !.OPTIMIZE = a, !.THRESHOLD = b, !.MC2 = x]
  OBVIOUS
<1>8. /\ t \in Registers /\ t.MC2 = x
      /\ t.THRESHOLD = b /\ t.OPTIMIZE = a
      /\ \A k \in Fields \ {"MC2", "OPTIMIZE", "THRESHOLD"} : t[k] = r[k]
  BY <1>4, <1>6, <1>7 DEF Registers, Fields
<1>9. SetSpreadingFactor(r, asked) = LowDataRate(t)
  BY <1>1, <1>3, <1>5, <1>7 DEF SetSpreadingFactor
<1>. QED
  BY <1>1, <1>2, <1>4, <1>6, <1>8, <1>9, LowDataRateSets DEF OnlyIn, Fields

LEMMA HeaderSets ==
  ASSUME NEW r \in Registers, NEW implicit \in BOOLEAN
  PROVE  LET s == SetHeader(r, implicit)
         IN  /\ OnlyIn({"MC1"}, r, s)
             /\ High(s.MC1) = High(r.MC1) /\ Low(s.MC1) \div 2 = Low(r.MC1) \div 2
             /\ (Bit(s.MC1, 1) <=> implicit)
<1>1. PICK x : x = IF implicit THEN Or(r.MC1, 1) ELSE Clear(r.MC1, 1)
  OBVIOUS
<1>2. r.MC1 \in Byte
  BY DEF Registers, Fields
<1>3. /\ x \in Byte /\ High(x) = High(r.MC1) /\ Low(x) \div 2 = Low(r.MC1) \div 2
      /\ (Bit(x, 1) <=> implicit)
  <2>1. CASE implicit
    <3>1. x \in Byte /\ High(x) = High(r.MC1)
          /\ \A v \in {1, 2, 4, 8} : Bit(x, v) <=> Bit(r.MC1, v) \/ Bit(1, v)
      BY <1>1, <1>2, <2>1, OrLow
    <3>2. \A v \in {2, 4, 8} : Bit(x, v) <=> Bit(r.MC1, v)
      BY <3>1, OneAndFour
    <3>3. Low(x) \div 2 = Low(r.MC1) \div 2
      BY <1>2, <3>1, <3>2, SameRate
    <3>. QED
      BY <2>1, <3>1, <3>3, OneAndFour
  <2>2. CASE ~implicit
    BY <1>1, <1>2, <2>2, ClearBit
  <2>. QED
    BY <2>1, <2>2
<1>4. SetHeader(r, implicit) = [r EXCEPT !.MC1 = x]
  BY <1>1 DEF SetHeader
<1>. QED
  BY <1>3, <1>4 DEF Registers, Fields, OnlyIn

LEMMA CrcSets ==
  ASSUME NEW r \in Registers, NEW on \in BOOLEAN
  PROVE  LET s == SetCrc(r, on)
         IN  /\ OnlyIn({"MC2"}, r, s)
             /\ High(s.MC2) = High(r.MC2) /\ (Bit(s.MC2, 4) <=> on)
             /\ \A b \in {1, 2} : Bit(s.MC2, b) <=> Bit(r.MC2, b)
<1>1. PICK x : x = IF on THEN Or(r.MC2, 4) ELSE Clear(r.MC2, 4)
  OBVIOUS
<1>2. r.MC2 \in Byte
  BY DEF Registers, Fields
<1>3. /\ x \in Byte /\ High(x) = High(r.MC2) /\ (Bit(x, 4) <=> on)
      /\ (Bit(x, 1) <=> Bit(r.MC2, 1)) /\ (Bit(x, 2) <=> Bit(r.MC2, 2))
  <2>1. CASE on
    <3>1. x \in Byte /\ High(x) = High(r.MC2)
          /\ \A v \in {1, 2, 4, 8} : Bit(x, v) <=> Bit(r.MC2, v) \/ Bit(4, v)
      BY <1>1, <1>2, <2>1, OrLow
    <3>. QED
      BY <2>1, <3>1, OneAndFour
  <2>2. CASE ~on
    BY <1>1, <1>2, <2>2, ClearBit
  <2>. QED
    BY <2>1, <2>2
<1>4. SetCrc(r, on) = [r EXCEPT !.MC2 = x]
  BY <1>1 DEF SetCrc
<1>. QED
  BY <1>3, <1>4 DEF Registers, Fields, OnlyIn

LEMMA CodingRateSets ==
  ASSUME NEW r \in Registers, NEW rate \in {8, 16, 24, 32}, NEW bw, NEW rates,
         BandwidthIs(r.MC1, bw, rates)
  PROVE  LET s == SetCodingRate(r, rate)
         IN  OnlyIn({"MC1"}, r, s) /\ RateSet(r.MC1, s.MC1, bw, rates \cup {rate})
<1>1. PICK x : x = r.MC1
  OBVIOUS
<1>2. PICK z : z = Or(x, (2 * rate) % 256)
  OBVIOUS
<1>3. x \in Byte /\ BandwidthIs(x, bw, rates)
  BY <1>1 DEF Registers, Fields
<1>4. RateSet(x, z, bw, rates \cup {rate})
  BY <1>2, <1>3, OrCodingRate
<1>5. z \in Byte
  BY <1>4 DEF RateSet
<1>6. PICK s : s = [r EXCEPT !.MC1 = z]
  OBVIOUS
<1>7. SetCodingRate(r, rate) = s
  BY <1>1, <1>2, <1>6 DEF SetCodingRate
<1>8. OnlyIn({"MC1"}, r, s) /\ s.MC1 = z
  BY <1>5, <1>6, SMT DEF Registers, Fields, OnlyIn
<1>. QED
  BY <1>1, <1>4, <1>7, <1>8, Zenon

\* What Suitable says of one preamble.
PreambleFits(len) == len \in Nat /\ len <= 65535

LEMMA PreambleSets ==
  ASSUME NEW r \in Registers, NEW len, PreambleFits(len)
  PROVE  LET s == SetPreamble(r, len)
         IN  /\ OnlyIn({"PRE_MSB", "PRE_LSB"}, r, s)
             /\ s.PRE_MSB = len \div 256 /\ s.PRE_LSB = Low(len)
<1>1. PICK a, b : a = len \div 256 /\ b = Low(len)
  OBVIOUS
<1>2. a \in Byte /\ b \in Byte
  BY <1>1, SMT DEF Byte, Low, PreambleFits
<1>3. PICK t : t = [r EXCEPT !.PRE_MSB = a]
  OBVIOUS
<1>4. t \in Registers /\ OnlyIn({"PRE_MSB"}, r, t) /\ t.PRE_MSB = a
  BY <1>2, <1>3, SMT DEF Registers, Fields, OnlyIn
<1>5. PICK s : s = [t EXCEPT !.PRE_LSB = b]
  OBVIOUS
<1>6. s \in Registers /\ OnlyIn({"PRE_LSB"}, t, s) /\ s.PRE_LSB = b
  BY <1>2, <1>4, <1>5, SMT DEF Registers, Fields, OnlyIn
<1>7. SetPreamble(r, len) = s
  BY <1>1, <1>3, <1>5, SMT DEF SetPreamble
<1>. QED
  BY <1>1, <1>4, <1>6, <1>7 DEF OnlyIn, Fields

LEMMA SymbolTimeoutSets ==
  ASSUME NEW r \in Registers, NEW asked \in Nat
  PROVE  LET s == SetSymbolTimeout(r, asked)
             n == Symbols(asked)
         IN  /\ OnlyIn({"MC2", "SYMB"}, r, s)
             /\ n \in Nat /\ s.SYMB = Low(n) /\ High(s.MC2) = High(r.MC2)
             /\ \A b \in {1, 2} : Bit(n \div 256, b) => Bit(s.MC2, b)
             /\ Bit(s.MC2, 4) <=> Bit(r.MC2, 4) \/ asked > 1023
<1>1. PICK n : n = Symbols(asked)
  OBVIOUS
<1>2. n \in Nat /\ 4 <= n /\ n <= 1024 /\ (n = 1024 <=> asked > 1023)
  BY <1>1 DEF Symbols
<1>3. PICK y, x : y = n \div 256 /\ x = IF n > 255 THEN Or(r.MC2, y) ELSE r.MC2
  OBVIOUS
<1>4. PICK a : a = Low(n)
  OBVIOUS
<1>5. r.MC2 \in Byte /\ a \in Byte
  BY <1>2, <1>4 DEF Registers, Fields, Low, Byte
<1>6. y \in 0 .. 7 /\ (Bit(y, 4) <=> asked > 1023) /\ (n <= 255 => y = 0)
  BY <1>2, <1>3 DEF Bit
<1>7. /\ x \in Byte /\ High(x) = High(r.MC2)
      /\ \A b \in {1, 2} : Bit(y, b) => Bit(x, b)
      /\ Bit(x, 4) <=> Bit(r.MC2, 4) \/ asked > 1023
  <2>1. CASE n > 255
    <3>1. x = Or(r.MC2, y)
      BY <1>3, <2>1
    <3>2. /\ x \in Byte /\ High(x) = High(r.MC2)
          /\ \A v \in {1, 2, 4, 8} : Bit(x, v) <=> Bit(r.MC2, v) \/ Bit(y, v)
      BY <1>5, <1>6, <3>1, OrLow
    <3>. QED
      BY <1>6, <3>2
  <2>2. CASE n <= 255
    <3>1. x = r.MC2 /\ y = 0 /\ ~(asked > 1023)
      BY <1>2, <1>3, <1>6, <2>2
    <3>2. ~Bit(0, 1) /\ ~Bit(0, 2)
      BY DEF Bit
    <3>. QED
      BY <1>5, <3>1, <3>2
  <2>. QED
    BY <1>2, <2>1, <2>2
<1>8. PICK t : t = [r EXCEPT !.SYMB = a]
  OBVIOUS
<1>9. t \in Registers /\ OnlyIn({"SYMB"}, r, t) /\ t.SYMB = a
  BY <1>5, <1>8, SMT DEF Registers, Fields, OnlyIn
<1>10. PICK s : s = [t EXCEPT !.MC2 = x]
  OBVIOUS
<1>11. s \in Registers /\ OnlyIn({"MC2"}, t, s) /\ s.MC2 = x
  BY <1>7, <1>9, <1>10, SMT DEF Registers, Fields, OnlyIn
<1>12. OnlyIn({"MC2", "SYMB"}, r, s) /\ s.SYMB = a
  BY <1>9, <1>11 DEF OnlyIn, Fields
<1>13. SetSymbolTimeout(r, asked) = s
  BY <1>1, <1>3, <1>4, <1>8, <1>10, SMT DEF SetSymbolTimeout
<1>. QED
  BY <1>1, <1>2, <1>3, <1>4, <1>7, <1>11, <1>12, <1>13

\* PowerConsistent of registers r and the power w that was asked for.
PowerHolds(r, w) ==
  LET dbm   == (r.PA_CONFIG % 16) + (IF r.PA_CONFIG < 128 THEN 0
                                     ELSE IF r.PA_DAC = 135 THEN 5 ELSE 2)
      trim  == r.OCP % 32
      limit == IF trim < 16 THEN 45 + 5 * trim ELSE 10 * trim - 30
  IN  IF w.pa = RFO
      THEN r.PA_CONFIG < 128 /\ dbm = Bounded(w.level, 0, 15)
      ELSE /\ r.PA_CONFIG >= 128 /\ dbm = Bounded(w.level, 2, 20)
           /\ limit >= (IF dbm > 17 THEN 120 ELSE 87)

LEMMA OcpIs == Ocp(140) = 49 /\ Ocp(97) = 42
<1>1. Bounded(140, 45, 240) = 140 /\ Bounded(97, 45, 240) = 97
  BY DEF Bounded
<1>2. (140 + 30) \div 10 = 17 /\ (97 - 45) \div 5 = 10
  OBVIOUS
<1>. QED
  BY <1>1, <1>2, OrConstant DEF Ocp

LEMMA PowerSets ==
  ASSUME NEW r \in Registers, NEW pa \in {RFO, BOOST}, NEW asked \in Nat
  PROVE  LET s == SetPower(r, pa, asked)
         IN  /\ OnlyIn({"PA_CONFIG", "PA_DAC", "OCP"}, r, s)
             /\ PowerHolds(s, [pa |-> pa, level |-> asked])
<1>1. CASE pa = RFO
  <2>1. PICK level : level = Bounded(asked, 0, 15)
    OBVIOUS
  <2>2. level \in 0 .. 15
    BY <2>1 DEF Bounded
  <2>3. PICK s : s = SetPower(r, pa, asked)
    OBVIOUS
  <2>4. s = [r EXCEPT !.PA_CONFIG = 112 + level]
    BY <1>1, <2>1, <2>2, <2>3, OrConstant DEF SetPower
  <2>5. 112 + level \in Byte /\ 112 + level < 128 /\ (112 + level) % 16 = level
    BY <2>2 DEF Byte
  <2>6. OnlyIn({"PA_CONFIG"}, r, s) /\ s.PA_CONFIG = 112 + level
    BY <2>4, <2>5, SMT DEF Registers, Fields, OnlyIn
  <2>7. PowerHolds(s, [pa |-> pa, level |-> asked])
    BY <1>1, <2>1, <2>2, <2>5, <2>6 DEF PowerHolds
  <2>. QED
    BY <2>3, <2>6, <2>7 DEF OnlyIn
<1>2. CASE pa = BOOST
  <2>1. PICK level : level = Bounded(asked, 2, 20)
    OBVIOUS
  <2>2. level \in 2 .. 20
    BY <2>1 DEF Bounded
  <2>3. PICK dac : dac = IF level > 17 THEN 135 ELSE 132
    OBVIOUS
  <2>4. PICK ocp : ocp = IF level > 17 THEN 49 ELSE 42
    OBVIOUS
  <2>c. PICK config : config = IF level > 17 THEN 123 + level ELSE 126 + level
    OBVIOUS
  <2>b. dac \in Byte /\ ocp \in Byte /\ config \in Byte
    BY <2>2, <2>3, <2>4, <2>c DEF Byte
  <2>5. PICK t : t = [r EXCEPT !.PA_DAC = dac]
    OBVIOUS
  <2>6. t \in Registers /\ OnlyIn({"PA_DAC"}, r, t) /\ t.PA_DAC = dac
    BY <2>b, <2>5, SMT DEF Registers, Fields, OnlyIn
  <2>7. PICK u : u = [t EXCEPT !.OCP = ocp]
    OBVIOUS
  <2>8. u \in Registers /\ OnlyIn({"OCP"}, t, u) /\ u.OCP = ocp
    BY <2>b, <2>6, <2>7, SMT DEF Registers, Fields, OnlyIn
  <2>9. PICK s : s = [u EXCEPT !.PA_CONFIG = config]
    OBVIOUS
  <2>10. s \in Registers /\ OnlyIn({"PA_CONFIG"}, u, s) /\ s.PA_CONFIG = config
    BY <2>b, <2>8, <2>9, SMT DEF Registers, Fields, OnlyIn
  <2>11. SetPower(r, pa, asked) = s
    <3>1. (IF level > 17 THEN 135 ELSE 132) = dac
      BY <2>3
    <3>2. Ocp(IF level > 17 THEN 140 ELSE 97) = ocp
      BY <2>4, OcpIs
    <3>3. Or(128, level - (IF level > 17 THEN 5 ELSE 2)) = config
      <4>1. PICK low : low = level - (IF level > 17 THEN 5 ELSE 2)
        OBVIOUS
      <4>2. low \in 0 .. 15 /\ 128 + low = config
        BY <2>2, <2>c, <4>1
      <4>. QED
        BY <4>1, <4>2, OrConstant
    <3>4. s = [r EXCEPT !.PA_DAC = dac, !.OCP = ocp, !.PA_CONFIG = config]
      BY <2>5, <2>7, <2>9, Zenon
    <3>5. SetPower(r, pa, asked)
            = [r EXCEPT !.PA_DAC = IF level > 17 THEN 135 ELSE 132,
                        !.OCP = Ocp(IF level > 17 THEN 140 ELSE 97),
                        !.PA_CONFIG = Or(128, level - (IF level > 17 THEN 5 ELSE 2))]
      <4>1. pa # RFO
        BY <1>2 DEF RFO, BOOST
      <4>. QED
        BY <2>1, <4>1, Zenon DEF SetPower
    <3>. QED
      BY <3>1, <3>2, <3>3, <3>4, <3>5, Zenon
  <2>12. s.PA_CONFIG = config /\ s.PA_DAC = dac /\ s.OCP = ocp
    BY <2>6, <2>8, <2>10 DEF OnlyIn, Fields
  <2>13. config >= 128 /\ (config % 16) + (IF dac = 135 THEN 5 ELSE 2) = level
    BY <2>2, <2>3, <2>c
  <2>14. (level > 17 => ocp % 32 = 17) /\ (~(level > 17) => ocp % 32 = 10)
    BY <2>4
  <2>15. PowerHolds(s, [pa |-> pa, level |-> asked])
    <3>1. PICK w : w = [pa |-> pa, level |-> asked]
      OBVIOUS
    <3>2. w.pa # RFO /\ Bounded(w.level, 2, 20) = level
      BY <1>2, <2>1, <3>1 DEF RFO, BOOST
    <3>3. level > 17 => ocp % 32 = 17 /\ 10 * (ocp % 32) - 30 >= 120
      BY <2>14
    <3>4. ~(level > 17) => ocp % 32 = 10 /\ 45 + 5 * (ocp % 32) >= 87
      BY <2>14
    <3>5. (s.PA_CONFIG % 16) + (IF s.PA_CONFIG < 128 THEN 0
                                ELSE IF s.PA_DAC = 135 THEN 5 ELSE 2) = level
      BY <2>12, <2>13, <2>b DEF Byte
    <3>6. PICK trim, dbm : trim = s.OCP % 32 /\ dbm = level
      OBVIOUS
    <3>7. (IF trim < 16 THEN 45 + 5 * trim ELSE 10 * trim - 30)
            >= (IF dbm > 17 THEN 120 ELSE 87)
      BY <2>2, <2>12, <3>3, <3>4, <3>6
    <3>8. PowerHolds(s, w)
      BY <2>12, <2>13, <3>2, <3>5, <3>6, <3>7, SMT DEF PowerHolds
    <3>. QED
      BY <3>1, <3>8
  <2>. QED
    BY <2>6, <2>8, <2>10, <2>11, <2>15 DEF OnlyIn, Fields
<1>. QED
  BY <1>1, <1>2

-----------------------------------------------------------------------------
(* The inductive invariant: the registers r are as w asks for.             *)

Wants == [frequency : Nat, bw : 0 .. 9, rates : SUBSET {8, 16, 24, 32}, sf : 6 .. 12,
          implicit : BOOLEAN, crc : BOOLEAN, long : BOOLEAN, timeout : Nat,
          preamble : Nat, power : [pa : {RFO, BOOST}, level : Nat]]

Carrier(r, w) ==
  /\ BandwidthIs(r.MC1, w.bw, w.rates)
  /\ (Bit(r.MC1, 1) <=> w.implicit) /\ Low(r.MC1) \div 2 = 1

Coding(r, w) ==
  /\ High(r.MC2) = w.sf /\ (Bit(r.MC2, 4) <=> w.crc \/ w.long)
  /\ \A b \in {1, 2} : Bit(w.timeout \div 256, b) => Bit(r.MC2, b)
  /\ Low(r.SYMB) = Low(w.timeout)

Detection(r, w) ==
  /\ High(r.MC1) = w.bw => (Bit(r.MC3, 8) <=> w.sf >= 11 /\ w.bw = BW_125)
  /\ r.THRESHOLD = 12 <=> w.sf = 6
  /\ r.OPTIMIZE = 197 <=> w.sf = 6

Preamble(r, w) == r.PRE_MSB = w.preamble \div 256 /\ r.PRE_LSB = Low(w.preamble)
Channel(r, w) ==
  65536 * r.FRF_MSB + 256 * r.FRF_MID + r.FRF_LSB = Frf(w.frequency)

Good(r, w) ==
  /\ r \in Registers /\ w \in Wants
  /\ Carrier(r, w) /\ Coding(r, w) /\ Detection(r, w)
  /\ Preamble(r, w) /\ Channel(r, w) /\ PowerHolds(r, w.power)

\* What a call leaves alone.
LEMMA OthersKept ==
  ASSUME NEW r, NEW s, NEW w, NEW v, NEW changed, OnlyIn(changed, r, s)
  PROVE  /\ /\ Carrier(r, w) /\ changed \cap {"MC1"} = {}
            /\ v.bw = w.bw /\ v.rates = w.rates /\ v.implicit = w.implicit
            => Carrier(s, v)
         /\ /\ Coding(r, w) /\ changed \cap {"MC2", "SYMB"} = {}
            /\ v.sf = w.sf /\ v.crc = w.crc /\ v.long = w.long /\ v.timeout = w.timeout
            => Coding(s, v)
         /\ /\ Detection(r, w)
            /\ changed \cap {"MC1", "MC3", "OPTIMIZE", "THRESHOLD"} = {}
            /\ v.bw = w.bw /\ v.sf = w.sf
            => Detection(s, v)
         /\ /\ Preamble(r, w) /\ changed \cap {"PRE_MSB", "PRE_LSB"} = {}
            /\ v.preamble = w.preamble
            => Preamble(s, v)
         /\ /\ Channel(r, w) /\ changed \cap {"FRF_MSB", "FRF_MID", "FRF_LSB"} = {}
            /\ v.frequency = w.frequency
            => Channel(s, v)
         /\ /\ PowerHolds(r, w.power) /\ changed \cap {"PA_CONFIG", "PA_DAC", "OCP"} = {}
            /\ v.power = w.power
            => PowerHolds(s, v.power)
<1>1. \A k \in Fields : k \notin changed => s[k] = r[k]
  BY DEF OnlyIn
<1>2. ASSUME Carrier(r, w), changed \cap {"MC1"} = {},
             v.bw = w.bw, v.rates = w.rates, v.implicit = w.implicit
      PROVE  Carrier(s, v)
  <2>1. s.MC1 = r.MC1
    BY <1>1, <1>2 DEF Fields
  <2>. QED
    BY <1>2, <2>1, Zenon DEF Carrier
<1>6. ASSUME Coding(r, w), changed \cap {"MC2", "SYMB"} = {},
             v.sf = w.sf, v.crc = w.crc, v.long = w.long, v.timeout = w.timeout
      PROVE  Coding(s, v)
  <2>1. s.MC2 = r.MC2 /\ s.SYMB = r.SYMB
    BY <1>1, <1>6 DEF Fields
  <2>. QED
    BY <1>6, <2>1, Zenon DEF Coding
<1>7. ASSUME Detection(r, w), changed \cap {"MC1", "MC3", "OPTIMIZE", "THRESHOLD"} = {},
             v.bw = w.bw, v.sf = w.sf
      PROVE  Detection(s, v)
  <2>1. /\ s.MC1 = r.MC1 /\ s.MC3 = r.MC3
        /\ s.OPTIMIZE = r.OPTIMIZE /\ s.THRESHOLD = r.THRESHOLD
    BY <1>1, <1>7 DEF Fields
  <2>. QED
    BY <1>7, <2>1 DEF Detection
<1>3. ASSUME Preamble(r, w), changed \cap {"PRE_MSB", "PRE_LSB"} = {}, v.preamble = w.preamble
      PROVE  Preamble(s, v)
  BY <1>1, <1>3 DEF Preamble, Fields
<1>4. ASSUME Channel(r, w), changed \cap {"FRF_MSB", "FRF_MID", "FRF_LSB"} = {},
             v.frequency = w.frequency
      PROVE  Channel(s, v)
  <2>1. s.FRF_MSB = r.FRF_MSB /\ s.FRF_MID = r.FRF_MID /\ s.FRF_LSB = r.FRF_LSB
    BY <1>1, <1>4 DEF Fields
  <2>. QED
    BY <1>4, <2>1, SMT DEF Channel
<1>5. ASSUME PowerHolds(r, w.power), changed \cap {"PA_CONFIG", "PA_DAC", "OCP"} = {},
             v.power = w.power
      PROVE  PowerHolds(s, v.power)
  <2>1. s.PA_CONFIG = r.PA_CONFIG /\ s.PA_DAC = r.PA_DAC /\ s.OCP = r.OCP
    BY <1>1, <1>5 DEF Fields
  <2>. QED
    BY <1>5, <2>1 DEF PowerHolds
<1>. QED
  BY <1>2, <1>3, <1>4, <1>5, <1>6, <1>7

LEMMA BandwidthGood ==
  ASSUME NEW r, NEW w, Good(r, w), NEW bw \in 0 .. 9
  PROVE  Good(SetBandwidth(r, bw),
              [w EXCEPT !.bw = bw, !.rates = {}])
<1>1. PICK s : s = SetBandwidth(r, bw)
  OBVIOUS
<1>2. PICK v : v = [w EXCEPT !.bw = bw, !.rates = {}]
  OBVIOUS
<1>3. /\ v \in Wants
      /\ v.bw = bw /\ v.rates = {} /\ v.implicit = w.implicit
      /\ v.sf = w.sf /\ v.crc = w.crc /\ v.long = w.long
      /\ v.timeout = w.timeout /\ v.preamble = w.preamble /\ v.frequency = w.frequency
      /\ v.power = w.power
  BY <1>2 DEF Good, Wants
<1>4. /\ OnlyIn({"MC1", "MC3"}, r, s)
      /\ High(s.MC1) = bw /\ BandwidthIs(s.MC1, bw, {})
      /\ (Bit(s.MC1, 1) <=> Bit(r.MC1, 1)) /\ Low(s.MC1) = Low(r.MC1)
      /\ Bit(s.MC3, 8) <=> High(r.MC2) >= 11 /\ bw = BW_125
  BY <1>1, BandwidthSets DEF Good
<1>5. s \in Registers
  BY <1>4 DEF OnlyIn
<1>6. Carrier(s, v)
  BY <1>3, <1>4, Zenon DEF Good, Carrier
<1>7. Coding(s, v)
  <2>1. {"MC1", "MC3"} \cap {"MC2", "SYMB"} = {}
    OBVIOUS
  <2>. QED
    BY <1>3, <1>4, <2>1, OthersKept DEF Good
<1>8. Detection(s, v)
  <2>1. s.OPTIMIZE = r.OPTIMIZE /\ s.THRESHOLD = r.THRESHOLD /\ High(r.MC2) = w.sf
    BY <1>4 DEF OnlyIn, Fields, Good, Coding
  <2>. QED
    BY <1>3, <1>4, <2>1 DEF Good, Detection
<1>9. Preamble(s, v)
  <2>1. {"MC1", "MC3"} \cap {"PRE_MSB", "PRE_LSB"} = {}
    OBVIOUS
  <2>. QED
    BY <1>3, <1>4, <2>1, OthersKept DEF Good
<1>10. Channel(s, v)
  <2>1. {"MC1", "MC3"} \cap {"FRF_MSB", "FRF_MID", "FRF_LSB"} = {}
    OBVIOUS
  <2>. QED
    BY <1>3, <1>4, <2>1, OthersKept DEF Good
<1>11. PowerHolds(s, v.power)
  <2>1. {"MC1", "MC3"} \cap {"PA_CONFIG", "PA_DAC", "OCP"} = {}
    OBVIOUS
  <2>. QED
    BY <1>3, <1>4, <2>1, OthersKept DEF Good
<1>. QED
  BY <1>1, <1>2, <1>3, <1>5, <1>6, <1>7, <1>8, <1>9, <1>10, <1>11 DEF Good

LEMMA SpreadingFactorGood ==
  ASSUME NEW r, NEW w, Good(r, w), NEW asked \in Nat
  PROVE  Good(SetSpreadingFactor(r, asked),
              [w EXCEPT !.sf = Bounded(asked, 6, 12)])
<1>0. Bounded(asked, 6, 12) \in 6 .. 12
  BY DEF Bounded
<1>1. PICK s : s = SetSpreadingFactor(r, asked)
  OBVIOUS
<1>2. PICK v : v = [w EXCEPT !.sf = Bounded(asked, 6, 12)]
  OBVIOUS
<1>3. /\ v \in Wants
      /\ v.bw = w.bw /\ v.rates = w.rates /\ v.implicit = w.implicit
      /\ v.sf = Bounded(asked, 6, 12) /\ v.crc = w.crc /\ v.long = w.long
      /\ v.timeout = w.timeout /\ v.preamble = w.preamble /\ v.frequency = w.frequency
      /\ v.power = w.power
  BY <1>2, <1>0 DEF Good, Wants
<1>4. /\ OnlyIn({"MC2", "MC3", "OPTIMIZE", "THRESHOLD"}, r, s)
      /\ High(s.MC2) = v.sf /\ Low(s.MC2) = Low(r.MC2)
      /\ s.THRESHOLD = 12 <=> v.sf = 6
      /\ s.OPTIMIZE = 197 <=> v.sf = 6
      /\ Bit(s.MC3, 8) <=> v.sf >= 11 /\ High(r.MC1) = BW_125
  BY <1>1, <1>3, SpreadingFactorSets DEF Good
<1>5. s \in Registers
  BY <1>4 DEF OnlyIn
<1>6. Carrier(s, v)
  <2>1. {"MC2", "MC3", "OPTIMIZE", "THRESHOLD"} \cap {"MC1"} = {}
    OBVIOUS
  <2>. QED
    BY <1>3, <1>4, <2>1, OthersKept DEF Good
<1>7. Coding(s, v)
  <2>1. s.SYMB = r.SYMB /\ s.MC2 \in Byte /\ r.MC2 \in Byte
    BY <1>4, <1>5 DEF OnlyIn, Fields, Registers, Good
  <2>2. \A b \in {1, 2, 4, 8} : Bit(s.MC2, b) <=> Bit(r.MC2, b)
    BY <1>4, <2>1, LowBits
  <2>. QED
    BY <1>3, <1>4, <2>1, <2>2 DEF Good, Coding
<1>8. Detection(s, v)
  <2>1. s.MC1 = r.MC1
    BY <1>4 DEF OnlyIn, Fields
  <2>. QED
    BY <1>3, <1>4, <2>1 DEF Good, Detection
<1>9. Preamble(s, v)
  <2>1. {"MC2", "MC3", "OPTIMIZE", "THRESHOLD"} \cap {"PRE_MSB", "PRE_LSB"} = {}
    OBVIOUS
  <2>. QED
    BY <1>3, <1>4, <2>1, OthersKept DEF Good
<1>10. Channel(s, v)
  <2>1. {"MC2", "MC3", "OPTIMIZE", "THRESHOLD"} \cap {"FRF_MSB", "FRF_MID", "FRF_LSB"} = {}
    OBVIOUS
  <2>. QED
    BY <1>3, <1>4, <2>1, OthersKept DEF Good
<1>11. PowerHolds(s, v.power)
  <2>1. {"MC2", "MC3", "OPTIMIZE", "THRESHOLD"} \cap {"PA_CONFIG", "PA_DAC", "OCP"} = {}
    OBVIOUS
  <2>. QED
    BY <1>3, <1>4, <2>1, OthersKept DEF Good
<1>. QED
  BY <1>1, <1>2, <1>3, <1>5, <1>6, <1>7, <1>8, <1>9, <1>10, <1>11 DEF Good

LEMMA HeaderGood ==
  ASSUME NEW r, NEW w, Good(r, w), NEW b \in BOOLEAN
  PROVE  Good(SetHeader(r, b),
              [w EXCEPT !.implicit = b])
<1>1. PICK s : s = SetHeader(r, b)
  OBVIOUS
<1>2. PICK v : v = [w EXCEPT !.implicit = b]
  OBVIOUS
<1>3. /\ v \in Wants
      /\ v.bw = w.bw /\ v.rates = w.rates /\ v.implicit = b
      /\ v.sf = w.sf /\ v.crc = w.crc /\ v.long = w.long
      /\ v.timeout = w.timeout /\ v.preamble = w.preamble /\ v.frequency = w.frequency
      /\ v.power = w.power
  BY <1>2 DEF Good, Wants
<1>4. /\ OnlyIn({"MC1"}, r, s)
      /\ High(s.MC1) = High(r.MC1) /\ Low(s.MC1) \div 2 = Low(r.MC1) \div 2
      /\ (Bit(s.MC1, 1) <=> b)
  BY <1>1, HeaderSets DEF Good
<1>5. s \in Registers
  BY <1>4 DEF OnlyIn
<1>6. Carrier(s, v)
  <2>1. r.MC1 \in Byte /\ s.MC1 \in Byte
    BY <1>5 DEF Good, Registers, Fields
  <2>2. BandwidthIs(s.MC1, w.bw, w.rates)
    BY <1>4, <2>1, SameBandwidth DEF Good, Carrier
  <2>. QED
    BY <1>3, <1>4, <2>2, Zenon DEF Good, Carrier
<1>7. Coding(s, v)
  <2>1. {"MC1"} \cap {"MC2", "SYMB"} = {}
    OBVIOUS
  <2>. QED
    BY <1>3, <1>4, <2>1, OthersKept DEF Good
<1>8. Detection(s, v)
  <2>1. s.MC3 = r.MC3 /\ s.OPTIMIZE = r.OPTIMIZE /\ s.THRESHOLD = r.THRESHOLD
    BY <1>4 DEF OnlyIn, Fields
  <2>. QED
    BY <1>3, <1>4, <2>1 DEF Good, Detection
<1>9. Preamble(s, v)
  <2>1. {"MC1"} \cap {"PRE_MSB", "PRE_LSB"} = {}
    OBVIOUS
  <2>. QED
    BY <1>3, <1>4, <2>1, OthersKept DEF Good
<1>10. Channel(s, v)
  <2>1. {"MC1"} \cap {"FRF_MSB", "FRF_MID", "FRF_LSB"} = {}
    OBVIOUS
  <2>. QED
    BY <1>3, <1>4, <2>1, OthersKept DEF Good
<1>11. PowerHolds(s, v.power)
  <2>1. {"MC1"} \cap {"PA_CONFIG", "PA_DAC", "OCP"} = {}
    OBVIOUS
  <2>. QED
    BY <1>3, <1>4, <2>1, OthersKept DEF Good
<1>. QED
  BY <1>1, <1>2, <1>3, <1>5, <1>6, <1>7, <1>8, <1>9, <1>10, <1>11 DEF Good

LEMMA CrcGood ==
  ASSUME NEW r, NEW w, Good(r, w), NEW b \in BOOLEAN
  PROVE  Good(SetCrc(r, b),
              [w EXCEPT !.crc = b, !.long = FALSE])
<1>1. PICK s : s = SetCrc(r, b)
  OBVIOUS
<1>2. PICK v : v = [w EXCEPT !.crc = b, !.long = FALSE]
  OBVIOUS
<1>3. /\ v \in Wants
      /\ v.bw = w.bw /\ v.rates = w.rates /\ v.implicit = w.implicit
      /\ v.sf = w.sf /\ v.crc = b /\ v.long = FALSE
      /\ v.timeout = w.timeout /\ v.preamble = w.preamble /\ v.frequency = w.frequency
      /\ v.power = w.power
  BY <1>2 DEF Good, Wants
<1>4. /\ OnlyIn({"MC2"}, r, s)
      /\ High(s.MC2) = High(r.MC2) /\ (Bit(s.MC2, 4) <=> b)
      /\ \A k \in {1, 2} : Bit(s.MC2, k) <=> Bit(r.MC2, k)
  BY <1>1, CrcSets DEF Good
<1>5. s \in Registers
  BY <1>4 DEF OnlyIn
<1>6. Carrier(s, v)
  <2>1. {"MC2"} \cap {"MC1"} = {}
    OBVIOUS
  <2>. QED
    BY <1>3, <1>4, <2>1, OthersKept DEF Good
<1>7. Coding(s, v)
  <2>1. s.SYMB = r.SYMB
    BY <1>4 DEF OnlyIn, Fields
  <2>. QED
    BY <1>3, <1>4, <2>1 DEF Good, Coding
<1>8. Detection(s, v)
  <2>1. {"MC2"} \cap {"MC1", "MC3", "OPTIMIZE", "THRESHOLD"} = {}
    OBVIOUS
  <2>. QED
    BY <1>3, <1>4, <2>1, OthersKept DEF Good
<1>9. Preamble(s, v)
  <2>1. {"MC2"} \cap {"PRE_MSB", "PRE_LSB"} = {}
    OBVIOUS
  <2>. QED
    BY <1>3, <1>4, <2>1, OthersKept DEF Good
<1>10. Channel(s, v)
  <2>1. {"MC2"} \cap {"FRF_MSB", "FRF_MID", "FRF_LSB"} = {}
    OBVIOUS
  <2>. QED
    BY <1>3, <1>4, <2>1, OthersKept DEF Good
<1>11. PowerHolds(s, v.power)
  <2>1. {"MC2"} \cap {"PA_CONFIG", "PA_DAC", "OCP"} = {}
    OBVIOUS
  <2>. QED
    BY <1>3, <1>4, <2>1, OthersKept DEF Good
<1>. QED
  BY <1>1, <1>2, <1>3, <1>5, <1>6, <1>7, <1>8, <1>9, <1>10, <1>11 DEF Good

LEMMA CodingRateGood ==
  ASSUME NEW r, NEW w, Good(r, w), NEW rate \in {8, 16, 24, 32}
  PROVE  Good(SetCodingRate(r, rate),
              [w EXCEPT !.rates = @ \cup {rate}])
<1>1. PICK s : s = SetCodingRate(r, rate)
  OBVIOUS
<1>2. PICK v : v = [w EXCEPT !.rates = @ \cup {rate}]
  OBVIOUS
<1>3. /\ v \in Wants
      /\ v.bw = w.bw /\ v.rates = w.rates \cup {rate} /\ v.implicit = w.implicit
      /\ v.sf = w.sf /\ v.crc = w.crc /\ v.long = w.long
      /\ v.timeout = w.timeout /\ v.preamble = w.preamble /\ v.frequency = w.frequency
      /\ v.power = w.power
  BY <1>2 DEF Good, Wants
<1>4. OnlyIn({"MC1"}, r, s) /\ RateSet(r.MC1, s.MC1, w.bw, w.rates \cup {rate})
  <2>1. r \in Registers /\ BandwidthIs(r.MC1, w.bw, w.rates)
    BY DEF Good, Carrier
  <2>. QED
    BY <1>1, <2>1, CodingRateSets
<1>5. s \in Registers
  BY <1>4 DEF OnlyIn
<1>6. Carrier(s, v)
  BY <1>3, <1>4, Zenon DEF Good, Carrier, RateSet
<1>7. Coding(s, v)
  <2>1. {"MC1"} \cap {"MC2", "SYMB"} = {}
    OBVIOUS
  <2>. QED
    BY <1>3, <1>4, <2>1, OthersKept DEF Good
<1>8. Detection(s, v)
  <2>1. s.MC3 = r.MC3 /\ s.OPTIMIZE = r.OPTIMIZE /\ s.THRESHOLD = r.THRESHOLD
    BY <1>4 DEF OnlyIn, Fields
  <2>2. ASSUME High(s.MC1) = w.bw
        PROVE  High(r.MC1) = w.bw
    <3>1. PICK x, z, bw, rates : x = r.MC1 /\ z = s.MC1 /\ bw = w.bw /\ rates = w.rates
      OBVIOUS
    <3>2. x \in Byte /\ z \in Byte /\ bw \in 0 .. 9
      BY <1>5, <3>1 DEF Good, Registers, Fields, Wants
    <3>3. BandwidthIs(x, bw, rates) /\ High(z) = bw
          /\ \A b \in {16, 32, 64, 128} : Bit(x, b) => Bit(z, b)
      BY <1>4, <2>2, <3>1 DEF Good, Carrier, RateSet
    <3>. QED
      BY <3>1, <3>2, <3>3, Sandwiched
  <2>. QED
    BY <1>3, <2>1, <2>2 DEF Good, Detection
<1>9. Preamble(s, v)
  <2>1. {"MC1"} \cap {"PRE_MSB", "PRE_LSB"} = {}
    OBVIOUS
  <2>. QED
    BY <1>3, <1>4, <2>1, OthersKept DEF Good
<1>10. Channel(s, v)
  <2>1. {"MC1"} \cap {"FRF_MSB", "FRF_MID", "FRF_LSB"} = {}
    OBVIOUS
  <2>. QED
    BY <1>3, <1>4, <2>1, OthersKept DEF Good
<1>11. PowerHolds(s, v.power)
  <2>1. {"MC1"} \cap {"PA_CONFIG", "PA_DAC", "OCP"} = {}
    OBVIOUS
  <2>. QED
    BY <1>3, <1>4, <2>1, OthersKept DEF Good
<1>. QED
  BY <1>1, <1>2, <1>3, <1>5, <1>6, <1>7, <1>8, <1>9, <1>10, <1>11 DEF Good

\* What is wanted after CallSymbolTimeout(n), in a name of its own: the provers
\* that match it do not compute with 1023.
TimeoutAsked(v, w, n) == v = [w EXCEPT !.timeout = Symbols(n), !.long = @ \/ n > 1023]

LEMMA SymbolTimeoutGood ==
  ASSUME NEW r, NEW w, Good(r, w), NEW n \in Nat, NEW v, TimeoutAsked(v, w, n)
  PROVE  Good(SetSymbolTimeout(r, n), v)
<1>0. Symbols(n) \in Nat
  BY DEF Symbols
<1>1. PICK s : s = SetSymbolTimeout(r, n)
  OBVIOUS
<1>2. v = [w EXCEPT !.timeout = Symbols(n), !.long = @ \/ n > 1023]
  BY SMT DEF TimeoutAsked
<1>3. /\ v \in Wants
      /\ v.bw = w.bw /\ v.rates = w.rates /\ v.implicit = w.implicit
      /\ v.sf = w.sf /\ v.crc = w.crc /\ v.long = (w.long \/ n > 1023)
      /\ v.timeout = Symbols(n) /\ v.preamble = w.preamble /\ v.frequency = w.frequency
      /\ v.power = w.power
  <2>1. PICK t, l : t = Symbols(n) /\ l = (w.long \/ n > 1023)
    OBVIOUS
  <2>2. t \in Nat /\ l \in BOOLEAN
    BY <1>0, <2>1
  <2>3. v = [w EXCEPT !.timeout = t, !.long = l]
    BY <1>2, <2>1
  <2>. QED
    BY <2>1, <2>2, <2>3 DEF Good, Wants
<1>4. /\ OnlyIn({"MC2", "SYMB"}, r, s)
      /\ s.SYMB = Low(Symbols(n)) /\ High(s.MC2) = High(r.MC2)
      /\ \A b \in {1, 2} : Bit(Symbols(n) \div 256, b) => Bit(s.MC2, b)
      /\ Bit(s.MC2, 4) <=> Bit(r.MC2, 4) \/ n > 1023
  BY <1>1, SymbolTimeoutSets DEF Good
<1>5. s \in Registers
  BY <1>4 DEF OnlyIn
<1>6. Carrier(s, v)
  <2>1. {"MC2", "SYMB"} \cap {"MC1"} = {}
    OBVIOUS
  <2>. QED
    BY <1>3, <1>4, <2>1, OthersKept DEF Good
<1>7. Coding(s, v)
  <2>1. Low(s.SYMB) = Low(Symbols(n))
    <3>1. \A k \in Nat : Low(Low(k)) = Low(k)
      BY DEF Low
    <3>. QED
      BY <1>0, <1>4, <3>1
  <2>. QED
    BY <1>3, <1>4, <2>1 DEF Good, Coding
<1>8. Detection(s, v)
  <2>1. {"MC2", "SYMB"} \cap {"MC1", "MC3", "OPTIMIZE", "THRESHOLD"} = {}
    OBVIOUS
  <2>. QED
    BY <1>3, <1>4, <2>1, OthersKept DEF Good
<1>9. Preamble(s, v)
  <2>1. {"MC2", "SYMB"} \cap {"PRE_MSB", "PRE_LSB"} = {}
    OBVIOUS
  <2>. QED
    BY <1>3, <1>4, <2>1, OthersKept DEF Good
<1>10. Channel(s, v)
  <2>1. {"MC2", "SYMB"} \cap {"FRF_MSB", "FRF_MID", "FRF_LSB"} = {}
    OBVIOUS
  <2>. QED
    BY <1>3, <1>4, <2>1, OthersKept DEF Good
<1>11. PowerHolds(s, v.power)
  <2>1. {"MC2", "SYMB"} \cap {"PA_CONFIG", "PA_DAC", "OCP"} = {}
    OBVIOUS
  <2>. QED
    BY <1>3, <1>4, <2>1, OthersKept DEF Good
<1>. QED
  BY <1>1, <1>2, <1>3, <1>5, <1>6, <1>7, <1>8, <1>9, <1>10, <1>11 DEF Good

LEMMA PreambleGood ==
  ASSUME NEW r, NEW w, Good(r, w), NEW len, PreambleFits(len)
  PROVE  Good(SetPreamble(r, len),
              [w EXCEPT !.preamble = len])
<1>0. len \in Nat
  BY SMT DEF PreambleFits
<1>1. PICK s : s = SetPreamble(r, len)
  OBVIOUS
<1>2. PICK v : v = [w EXCEPT !.preamble = len]
  OBVIOUS
<1>3. /\ v \in Wants
      /\ v.bw = w.bw /\ v.rates = w.rates /\ v.implicit = w.implicit
      /\ v.sf = w.sf /\ v.crc = w.crc /\ v.long = w.long
      /\ v.timeout = w.timeout /\ v.preamble = len /\ v.frequency = w.frequency
      /\ v.power = w.power
  BY <1>0, <1>2 DEF Good, Wants
<1>4. /\ OnlyIn({"PRE_MSB", "PRE_LSB"}, r, s)
      /\ s.PRE_MSB = len \div 256 /\ s.PRE_LSB = Low(len)
  BY <1>1, PreambleSets DEF Good
<1>5. s \in Registers
  BY <1>4 DEF OnlyIn
<1>6. Carrier(s, v)
  <2>1. {"PRE_MSB", "PRE_LSB"} \cap {"MC1"} = {}
    OBVIOUS
  <2>. QED
    BY <1>3, <1>4, <2>1, OthersKept DEF Good
<1>7. Coding(s, v)
  <2>1. {"PRE_MSB", "PRE_LSB"} \cap {"MC2", "SYMB"} = {}
    OBVIOUS
  <2>. QED
    BY <1>3, <1>4, <2>1, OthersKept DEF Good
<1>8. Detection(s, v)
  <2>1. {"PRE_MSB", "PRE_LSB"} \cap {"MC1", "MC3", "OPTIMIZE", "THRESHOLD"} = {}
    OBVIOUS
  <2>. QED
    BY <1>3, <1>4, <2>1, OthersKept DEF Good
<1>9. Preamble(s, v)
  BY <1>3, <1>4 DEF Preamble
<1>10. Channel(s, v)
  <2>1. {"PRE_MSB", "PRE_LSB"} \cap {"FRF_MSB", "FRF_MID", "FRF_LSB"} = {}
    OBVIOUS
  <2>. QED
    BY <1>3, <1>4, <2>1, OthersKept DEF Good
<1>11. PowerHolds(s, v.power)
  <2>1. {"PRE_MSB", "PRE_LSB"} \cap {"PA_CONFIG", "PA_DAC", "OCP"} = {}
    OBVIOUS
  <2>. QED
    BY <1>3, <1>4, <2>1, OthersKept DEF Good
<1>. QED
  BY <1>1, <1>2, <1>3, <1>5, <1>6, <1>7, <1>8, <1>9, <1>10, <1>11 DEF Good

LEMMA FrequencyGood ==
  ASSUME NEW r, NEW w, Good(r, w), NEW f, FrequencyFits(f)
  PROVE  Good(SetFrequency(r, f),
              [w EXCEPT !.frequency = f])
<1>0. f \in Nat
  BY DEF FrequencyFits
<1>1. PICK s : s = SetFrequency(r, f)
  OBVIOUS
<1>2. PICK v : v = [w EXCEPT !.frequency = f]
  OBVIOUS
<1>3. /\ v \in Wants
      /\ v.bw = w.bw /\ v.rates = w.rates /\ v.implicit = w.implicit
      /\ v.sf = w.sf /\ v.crc = w.crc /\ v.long = w.long
      /\ v.timeout = w.timeout /\ v.preamble = w.preamble /\ v.frequency = f
      /\ v.power = w.power
  BY <1>2, <1>0 DEF Good, Wants
<1>4. OnlyIn({"FRF_MSB", "FRF_MID", "FRF_LSB"}, r, s) /\ Channel(s, v)
  BY <1>1, <1>3, FrequencySets DEF Good, Channel
<1>5. s \in Registers
  BY <1>4 DEF OnlyIn
<1>6. Carrier(s, v)
  <2>1. {"FRF_MSB", "FRF_MID", "FRF_LSB"} \cap {"MC1"} = {}
    OBVIOUS
  <2>. QED
    BY <1>3, <1>4, <2>1, OthersKept DEF Good
<1>7. Coding(s, v)
  <2>1. {"FRF_MSB", "FRF_MID", "FRF_LSB"} \cap {"MC2", "SYMB"} = {}
    OBVIOUS
  <2>. QED
    BY <1>3, <1>4, <2>1, OthersKept DEF Good
<1>8. Detection(s, v)
  <2>1. {"FRF_MSB", "FRF_MID", "FRF_LSB"} \cap {"MC1", "MC3", "OPTIMIZE", "THRESHOLD"} = {}
    OBVIOUS
  <2>. QED
    BY <1>3, <1>4, <2>1, OthersKept DEF Good
<1>9. Preamble(s, v)
  <2>1. {"FRF_MSB", "FRF_MID", "FRF_LSB"} \cap {"PRE_MSB", "PRE_LSB"} = {}
    OBVIOUS
  <2>. QED
    BY <1>3, <1>4, <2>1, OthersKept DEF Good
<1>10. Channel(s, v)
  BY <1>4
<1>11. PowerHolds(s, v.power)
  <2>1. {"FRF_MSB", "FRF_MID", "FRF_LSB"} \cap {"PA_CONFIG", "PA_DAC", "OCP"} = {}
    OBVIOUS
  <2>. QED
    BY <1>3, <1>4, <2>1, OthersKept DEF Good
<1>. QED
  BY <1>1, <1>2, <1>3, <1>5, <1>6, <1>7, <1>8, <1>9, <1>10, <1>11 DEF Good

LEMMA PowerGood ==
  ASSUME NEW r, NEW w, Good(r, w), NEW pa \in {RFO, BOOST}, NEW level \in Nat
  PROVE  Good(SetPower(r, pa, level),
              [w EXCEPT !.power = [pa |-> pa, level |-> level]])
<1>1. PICK s : s = SetPower(r, pa, level)
  OBVIOUS
<1>2. PICK v : v = [w EXCEPT !.power = [pa |-> pa, level |-> level]]
  OBVIOUS
<1>3. /\ v \in Wants
      /\ v.bw = w.bw /\ v.rates = w.rates /\ v.implicit = w.implicit
      /\ v.sf = w.sf /\ v.crc = w.crc /\ v.long = w.long
      /\ v.timeout = w.timeout /\ v.preamble = w.preamble /\ v.frequency = w.frequency
      /\ v.power = [pa |-> pa, level |-> level]
  BY <1>2 DEF Good, Wants
<1>4. OnlyIn({"PA_CONFIG", "PA_DAC", "OCP"}, r, s) /\ PowerHolds(s, v.power)
  BY <1>1, <1>3, PowerSets DEF Good
<1>5. s \in Registers
  BY <1>4 DEF OnlyIn
<1>6. Carrier(s, v)
  <2>1. {"PA_CONFIG", "PA_DAC", "OCP"} \cap {"MC1"} = {}
    OBVIOUS
  <2>. QED
    BY <1>3, <1>4, <2>1, OthersKept DEF Good
<1>7. Coding(s, v)
  <2>1. {"PA_CONFIG", "PA_DAC", "OCP"} \cap {"MC2", "SYMB"} = {}
    OBVIOUS
  <2>. QED
    BY <1>3, <1>4, <2>1, OthersKept DEF Good
<1>8. Detection(s, v)
  <2>1. {"PA_CONFIG", "PA_DAC", "OCP"} \cap {"MC1", "MC3", "OPTIMIZE", "THRESHOLD"} = {}
    OBVIOUS
  <2>. QED
    BY <1>3, <1>4, <2>1, OthersKept DEF Good
<1>9. Preamble(s, v)
  <2>1. {"PA_CONFIG", "PA_DAC", "OCP"} \cap {"PRE_MSB", "PRE_LSB"} = {}
    OBVIOUS
  <2>. QED
    BY <1>3, <1>4, <2>1, OthersKept DEF Good
<1>10. Channel(s, v)
  <2>1. {"PA_CONFIG", "PA_DAC", "OCP"} \cap {"FRF_MSB", "FRF_MID", "FRF_LSB"} = {}
    OBVIOUS
  <2>. QED
    BY <1>3, <1>4, <2>1, OthersKept DEF Good
<1>11. PowerHolds(s, v.power)
  BY <1>4
<1>. QED
  BY <1>1, <1>2, <1>3, <1>5, <1>6, <1>7, <1>8, <1>9, <1>10, <1>11 DEF Good

\* lora_init() makes them so whatever the radio kept.
LEMMA InitGood ==
  ASSUME NEW r, NEW w, Good(r, w), NEW f, FrequencyFits(f)
  PROVE  Good(InitRegisters(r, f),
              [w EXCEPT !.frequency = f, !.sf = 7, !.preamble = 10,
                        !.implicit = FALSE, !.power = DefaultPower])
<1>1. PICK a, u : a = SetFrequency(r, f) /\ u = [w EXCEPT !.frequency = f]
  OBVIOUS
<1>2. Good(a, u)
  BY <1>1, FrequencyGood, Zenon
<1>3. PICK b, v : b = SetSpreadingFactor(a, 7) /\ v = [u EXCEPT !.sf = 7]
  OBVIOUS
<1>4. Good(b, v) /\ v.sf = 7
  <2>1. Bounded(7, 6, 12) = 7 /\ 7 \in Nat
    BY DEF Bounded
  <2>2. Good(b, v)
    BY <1>2, <1>3, <2>1, SpreadingFactorGood
  <2>. QED
    BY <1>2, <1>3, <2>2 DEF Good, Wants
<1>5. PICK c, x : c = SetPreamble(b, 10) /\ x = [v EXCEPT !.preamble = 10]
  OBVIOUS
<1>6. Good(c, x) /\ x.sf = 7
  <2>1. PreambleFits(10)
    BY SMT DEF PreambleFits
  <2>2. Good(c, x)
    BY <1>4, <1>5, <2>1, PreambleGood
  <2>. QED
    BY <1>4, <1>5, <2>2 DEF Good, Wants
<1>7. PICK d, y : d = SetHeader(c, FALSE) /\ y = [x EXCEPT !.implicit = FALSE]
  OBVIOUS
<1>8. Good(d, y) /\ y.sf = 7
  <2>1. Good(d, y)
    BY <1>6, <1>7, HeaderGood
  <2>. QED
    BY <1>6, <1>7, <2>1 DEF Good, Wants
<1>9. PICK e : e = [d EXCEPT !.LNA = Or(@, 3), !.MC3 = 4]
  OBVIOUS
<1>10. OnlyIn({"LNA", "MC3"}, d, e) /\ e.MC3 = 4
  <2>1. d \in Registers /\ d.LNA \in Byte /\ 3 \in Byte /\ 3 \in 0 .. 7 /\ 4 \in Byte
    BY <1>8 DEF Good, Registers, Fields, Byte
  <2>2. PICK lna : lna = Or(d.LNA, 3)
    OBVIOUS
  <2>3. lna \in Byte
    BY <2>1, <2>2, OrLow
  <2>4. e = [d EXCEPT !.LNA = lna, !.MC3 = 4]
    BY <1>9, <2>2
  <2>5. PICK d1 : d1 = [d EXCEPT !.LNA = lna]
    OBVIOUS
  <2>6. OnlyIn({"LNA"}, d, d1)
    BY <2>1, <2>3, <2>5, SMT DEF Registers, Fields, OnlyIn
  <2>7. e = [d1 EXCEPT !.MC3 = 4]
    BY <2>4, <2>5
  <2>8. OnlyIn({"MC3"}, d1, e) /\ e.MC3 = 4
    BY <2>1, <2>6, <2>7, SMT DEF Registers, Fields, OnlyIn
  <2>. QED
    BY <2>6, <2>8 DEF OnlyIn
<1>11. Good(e, y)
  <2>1. /\ {"LNA", "MC3"} \cap {"MC1"} = {}
        /\ {"LNA", "MC3"} \cap {"MC2", "SYMB"} = {}
        /\ {"LNA", "MC3"} \cap {"PRE_MSB", "PRE_LSB"} = {}
        /\ {"LNA", "MC3"} \cap {"FRF_MSB", "FRF_MID", "FRF_LSB"} = {}
        /\ {"LNA", "MC3"} \cap {"PA_CONFIG", "PA_DAC", "OCP"} = {}
    OBVIOUS
  <2>2. Carrier(e, y) /\ Coding(e, y) /\ Preamble(e, y) /\ Channel(e, y)
        /\ PowerHolds(e, y.power)
    BY <1>8, <1>10, <2>1, OthersKept DEF Good
  <2>3. Detection(e, y)
    <3>1. e.THRESHOLD = d.THRESHOLD /\ e.OPTIMIZE = d.OPTIMIZE /\ ~Bit(4, 8)
      BY <1>10 DEF OnlyIn, Fields, Bit
    <3>. QED
      BY <1>8, <1>10, <3>1 DEF Good, Detection
  <2>. QED
    BY <1>8, <1>10, <2>2, <2>3 DEF Good, OnlyIn
<1>12. PICK g, z : g = SetPower(e, BOOST, 17)
                   /\ z = [y EXCEPT !.power = [pa |-> BOOST, level |-> 17]]
  BY Zenon
<1>13. Good(g, z)
  <2>1. BOOST \in {RFO, BOOST} /\ 17 \in Nat
    OBVIOUS
  <2>. QED
    BY <1>11, <1>12, <2>1, PowerGood, Zenon
<1>14. g = InitRegisters(r, f)
  BY <1>1, <1>3, <1>5, <1>7, <1>9, <1>12, Zenon DEF InitRegisters
<1>15. z = [w EXCEPT !.frequency = f, !.sf = 7, !.preamble = 10,
                     !.implicit = FALSE, !.power = DefaultPower]
  BY <1>1, <1>3, <1>5, <1>7, <1>12, Zenon DEF DefaultPower
<1>. QED
  BY <1>13, <1>14, <1>15, Zenon

IInv == Good(reg, want) /\ lora \in [ready : BOOLEAN, pa : {RFO, BOOST}]

LEMMA InitInv == Init => IInv
<1>. SUFFICES ASSUME Init PROVE IInv
  OBVIOUS
<1>1. reg \in Registers
  BY SMT DEF Init, Reset, Registers, Fields, Byte
<1>2. want \in Wants
  BY SMT DEF Init, Wants, BW_125, RFO, BOOST
<1>3. /\ reg.MC1 = 114 /\ reg.MC2 = 112 /\ reg.MC3 = 4 /\ reg.SYMB = 100
      /\ reg.THRESHOLD = 10 /\ reg.OPTIMIZE = 195 /\ reg.PRE_MSB = 0 /\ reg.PRE_LSB = 8
      /\ reg.PA_CONFIG = 79 /\ reg.FRF_MSB = 108 /\ reg.FRF_MID = 128 /\ reg.FRF_LSB = 0
  BY SMT DEF Init, Reset
<1>4. /\ want.bw = 7 /\ want.rates = {} /\ want.implicit = FALSE /\ want.sf = 7
      /\ want.crc = FALSE /\ want.long = FALSE /\ want.timeout = 100 /\ want.preamble = 8
      /\ want.power = [pa |-> RFO, level |-> 15]
  BY SMT DEF Init, BW_125
<1>5. Carrier(reg, want)
  <2>1. \A b \in {1, 2, 4, 8} : Bit(114, 16 * b) <=> Bit(7, b)
    BY DEF Bit
  <2>2. BandwidthIs(114, 7, {})
    BY <2>1, Zenon DEF BandwidthIs
  <2>3. ~Bit(114, 1) /\ Low(114) \div 2 = 1
    BY DEF Bit, Low
  <2>. QED
    BY <1>3, <1>4, <2>2, <2>3, Zenon DEF Carrier
<1>6. Coding(reg, want)
  <2>1. High(112) = 7 /\ ~Bit(112, 4) /\ 100 \div 256 = 0 /\ ~Bit(0, 1) /\ ~Bit(0, 2)
    BY DEF High, Bit
  <2>. QED
    BY <1>3, <1>4, <2>1 DEF Coding
<1>7. Detection(reg, want)
  BY <1>3, <1>4 DEF Detection, Bit
<1>8. Preamble(reg, want)
  BY <1>3, <1>4 DEF Preamble, Low
<1>9. Channel(reg, want)
  <2>1. want.frequency = 434000000
    BY SMT DEF Init
  <2>2. 434000000 \div 15625 = 27776 /\ 434000000 % 15625 = 0
    BY SMT
  <2>3. Frf(434000000) = 256 * 27776
    BY <2>2, SMT DEF Frf
  <2>. QED
    BY <1>3, <2>1, <2>3, SMT DEF Channel
<1>10. PowerHolds(reg, want.power)
  <2>1. Bounded(15, 0, 15) = 15 /\ 79 % 16 = 15
    BY DEF Bounded
  <2>. QED
    BY <1>3, <1>4, <2>1 DEF PowerHolds
<1>. QED
  <2>1. lora.pa \in {RFO, BOOST} /\ lora \in [ready : BOOLEAN, pa : {RFO, BOOST}]
    BY SMT DEF Init
  <2>. QED
    BY <1>1, <1>2, <1>5, <1>6, <1>7, <1>8, <1>9, <1>10, <2>1, Zenon DEF IInv, Good

LEMMA CallKeeps ==
  ASSUME IInv, NEW r, NEW w, Good(r, w), Call(r, w)
  PROVE  IInv'
  BY DEF Call, IInv

LEMMA StepInv ==
  ASSUME Suitable, IInv, [Next]_vars
  PROVE  IInv'
<1>1. Good(reg, want) /\ lora.pa \in {RFO, BOOST}
  BY DEF IInv
<1>0. /\ \A sf \in SpreadingFactors : sf \in Nat
      /\ \A level \in Levels : level \in Nat
  BY SMT DEF Suitable
<1>2. ASSUME NEW f \in Frequencies, NEW v \in Versions, InitRadio(f, v)
      PROVE  IInv'
  <2>1. FrequencyFits(f)
    BY SMT DEF Suitable, FrequencyFits
  <2>2. lora' \in [ready : BOOLEAN, pa : {RFO, BOOST}]
    BY <1>2 DEF InitRadio
  <2>4. CASE v = 18
    <3>1. Good(InitRegisters(reg, f),
               [want EXCEPT !.frequency = f, !.sf = 7, !.preamble = 10,
                            !.implicit = FALSE, !.power = DefaultPower])
      BY <1>1, <2>1, InitGood, Zenon
    <3>. QED
      BY <1>2, <2>2, <2>4, <3>1, Zenon DEF InitRadio, IInv
  <2>5. CASE v # 18
    BY <1>2, <2>2, <2>5, Zenon DEF InitRadio, IInv
  <2>. QED
    BY <2>4, <2>5
<1>3. ASSUME NEW f \in Frequencies, CallFrequency(f)
      PROVE  IInv'
  <2>1. FrequencyFits(f)
    BY SMT DEF Suitable, FrequencyFits
  <2>2. Good(SetFrequency(reg, f), [want EXCEPT !.frequency = f])
    BY <1>1, <2>1, FrequencyGood, Zenon
  <2>. QED
    BY <1>3, <2>2, CallKeeps, Zenon DEF CallFrequency
<1>4. ASSUME NEW bw \in Bandwidths, CallBandwidth(bw)
      PROVE  IInv'
  <2>1. bw \in 0 .. 9
    BY SMT DEF Suitable
  <2>2. Good(SetBandwidth(reg, bw), [want EXCEPT !.bw = bw, !.rates = {}])
    BY <1>1, <2>1, BandwidthGood, Zenon
  <2>. QED
    BY <1>4, <2>2, CallKeeps, Zenon DEF CallBandwidth
<1>5. ASSUME NEW sf \in SpreadingFactors, CallSpreadingFactor(sf)
      PROVE  IInv'
  <2>1. sf \in Nat
    BY <1>0
  <2>2. Good(SetSpreadingFactor(reg, sf), [want EXCEPT !.sf = Bounded(sf, 6, 12)])
    BY <1>1, <2>1, SpreadingFactorGood, Zenon
  <2>. QED
    BY <1>5, <2>2, CallKeeps, Zenon DEF CallSpreadingFactor
<1>6. ASSUME NEW b \in BOOLEAN, CallHeader(b)
      PROVE  IInv'
  <2>1. Good(SetHeader(reg, b), [want EXCEPT !.implicit = b])
    BY <1>1, HeaderGood, Zenon
  <2>. QED
    BY <1>6, <2>1, CallKeeps, Zenon DEF CallHeader
<1>7. ASSUME NEW b \in BOOLEAN, CallCrc(b)
      PROVE  IInv'
  <2>1. Good(SetCrc(reg, b), [want EXCEPT !.crc = b, !.long = FALSE])
    BY <1>1, CrcGood, Zenon
  <2>. QED
    BY <1>7, <2>1, CallKeeps, Zenon DEF CallCrc
<1>8. ASSUME NEW len \in Preambles, CallPreamble(len)
      PROVE  IInv'
  <2>1. PreambleFits(len)
    BY SMT DEF Suitable, PreambleFits
  <2>2. Good(SetPreamble(reg, len), [want EXCEPT !.preamble = len])
    BY <1>1, <2>1, PreambleGood, Zenon
  <2>. QED
    BY <1>8, <2>2, CallKeeps, Zenon DEF CallPreamble
<1>9. ASSUME NEW n \in SymbolTimeouts, CallSymbolTimeout(n)
      PROVE  IInv'
  <2>1. n \in Nat
    BY SMT DEF Suitable
  <2>2. PICK v : TimeoutAsked(v, want, n)
    BY SMT DEF TimeoutAsked
  <2>3. Good(SetSymbolTimeout(reg, n), v)
    BY <1>1, <2>1, <2>2, SymbolTimeoutGood, Zenon
  <2>4. Call(SetSymbolTimeout(reg, n), v)
    BY <1>9, <2>2, SMT DEF CallSymbolTimeout, TimeoutAsked
  <2>. QED
    BY <2>3, <2>4, CallKeeps, Zenon
<1>10. ASSUME NEW rate \in CodingRates, CallCodingRate(rate)
       PROVE  IInv'
  <2>1. rate \in {8, 16, 24, 32}
    BY SMT DEF Suitable
  <2>2. Good(SetCodingRate(reg, rate), [want EXCEPT !.rates = @ \cup {rate}])
    BY <1>1, <2>1, CodingRateGood, Zenon
  <2>. QED
    BY <1>10, <2>2, CallKeeps, Zenon DEF CallCodingRate
<1>11. ASSUME NEW level \in Levels, CallPower(level)
       PROVE  IInv'
  <2>1. level \in Nat
    BY <1>0
  <2>2. Good(SetPower(reg, lora.pa, level),
             [want EXCEPT !.power = [pa |-> lora.pa, level |-> level]])
    BY <1>1, <2>1, PowerGood, Zenon
  <2>. QED
    BY <1>11, <2>2, CallKeeps, Zenon DEF CallPower
<1>12. ASSUME NEW dio \in {0, 64}, CallDio(dio)
       PROVE  IInv'
  <2>2. PICK s : s = [reg EXCEPT !.DIO = dio]
    OBVIOUS
  <2>3. s \in Registers /\ OnlyIn({"DIO"}, reg, s)
    BY <1>1, <2>2, SMT DEF Good, Registers, Fields, OnlyIn, Byte
  <2>4. /\ {"DIO"} \cap {"MC1"} = {} /\ {"DIO"} \cap {"MC2", "SYMB"} = {}
        /\ {"DIO"} \cap {"MC1", "MC3", "OPTIMIZE", "THRESHOLD"} = {}
        /\ {"DIO"} \cap {"PRE_MSB", "PRE_LSB"} = {}
        /\ {"DIO"} \cap {"FRF_MSB", "FRF_MID", "FRF_LSB"} = {}
        /\ {"DIO"} \cap {"PA_CONFIG", "PA_DAC", "OCP"} = {}
    OBVIOUS
  <2>5. Good(s, want)
    BY <1>1, <2>3, <2>4, OthersKept DEF Good
  <2>. QED
    BY <1>12, <2>2, <2>5, CallKeeps DEF CallDio
<1>13. ASSUME NEW pa \in {RFO, BOOST}, SelectOutput(pa)
       PROVE  IInv'
  BY <1>13 DEF SelectOutput, IInv
<1>14. ASSUME UNCHANGED vars
       PROVE  IInv'
  BY <1>14 DEF vars, IInv
<1>. QED
  BY <1>2, <1>3, <1>4, <1>5, <1>6, <1>7, <1>8, <1>9, <1>10, <1>11, <1>12, <1>13, <1>14
     DEF Next

LEMMA SettingsFromInv == ASSUME IInv PROVE SettingsHold
<1>1. \A k \in DOMAIN reg : reg[k] \in 0 .. 255
  BY DEF IInv, Good, Registers, Byte
<1>2. /\ Carrier(reg, want) /\ Coding(reg, want)
      /\ Preamble(reg, want) /\ Channel(reg, want)
  BY Zenon DEF IInv, Good
<1>. QED
  BY <1>1, <1>2, SMT DEF SettingsHold, Carrier, Coding, Preamble, Channel

LEMMA ModemFromInv == ASSUME IInv PROVE ModemConsistent
  BY DEF IInv, Good, Detection, ModemConsistent

LEMMA PowerFromInv == ASSUME IInv PROVE PowerConsistent
  BY DEF IInv, Good, PowerHolds, PowerConsistent, Dbm, CurrentLimit, OcpTrim
=============================================================================
