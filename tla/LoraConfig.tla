------------------------------ MODULE LoraConfig ------------------------------
(***************************************************************************)
(* The configuration calls of lora_sx1276.c on a bus that works.  The      *)
(* settings share registers, so most calls read a register, change a part  *)
(* and write it back; two of them derive a third register from two others. *)
(* Only these calls write the registers, so each call is one action.  The  *)
(* microcontroller may restart and run lora_init() again on a radio that   *)
(* kept its registers.                                                     *)
(***************************************************************************)
EXTENDS Integers

CONSTANTS
  Frequencies,  \* Hz
  Bandwidths, SpreadingFactors, Levels, Preambles, SymbolTimeouts, CodingRates,
  Versions      \* what REG_VERSION can read as: 0 when no radio answers

\* The types of the parameters, what lora_set_signal_bandwidth() asserts, the
\* constants of the coding rates, and the frequencies of which FRF keeps all.
Suitable ==
  /\ \A freq \in Frequencies : freq \in Nat /\ freq < 1024 * 1000000
  /\ Bandwidths \subseteq 0 .. 9 /\ CodingRates \subseteq {8, 16, 24, 32}
  /\ SpreadingFactors \cup Levels \subseteq 0 .. 255
  /\ \A n \in Preambles \cup SymbolTimeouts : n \in Nat /\ n <= 65535

VARIABLES
  reg,      \* registers of the radio
  lora,     \* ready after lora_init(); pa_mode of lora_sx1276
  want      \* what the application asked for last, at first the reset values;
            \* the coding rates asked for since the bandwidth was; whether a
            \* timeout of 1024 symbols was asked for since the CRC was
vars == <<reg, lora, want>>

RFO    == 0
BOOST  == 1
BW_125 == 7
DefaultPower == [pa |-> BOOST, level |-> 17]

\* The radio after power-on.
Reset == [FRF_MSB |-> 108, FRF_MID |-> 128, FRF_LSB |-> 0, PA_CONFIG |-> 79,
          PA_DAC |-> 132, OCP |-> 43, LNA |-> 32, MC1 |-> 114, MC2 |-> 112,
          MC3 |-> 4, SYMB |-> 100, PRE_MSB |-> 0, PRE_LSB |-> 8,
          OPTIMIZE |-> 195, THRESHOLD |-> 10, DIO |-> 0]

Init ==
  /\ reg = Reset /\ lora = [ready |-> FALSE, pa |-> BOOST]
  /\ want = [frequency |-> 434000000, bw |-> BW_125, rates |-> {}, sf |-> 7,
             implicit |-> FALSE, crc |-> FALSE, long |-> FALSE, timeout |-> 100,
             preamble |-> 8, power |-> [pa |-> RFO, level |-> 15]]

-----------------------------------------------------------------------------
(* What each setter does to the registers r.                               *)

Bounded(x, low, high) == IF x < low THEN low ELSE IF x > high THEN high ELSE x
Low(x)  == x % 16
High(x) == x \div 16

\* | and & ~ of C on bytes; value is a power of two.
Bit(x, value)   == (x \div value) % 2 = 1
Clear(x, value) == IF Bit(x, value) THEN x - value ELSE x
Or(x, y) == LET b(value) == IF Bit(x, value) \/ Bit(y, value) THEN value ELSE 0
            IN  b(1) + b(2) + b(4) + b(8) + b(16) + b(32) + b(64) + b(128)

\* frf = (freq << 19) / (32 MHz), the 64-bit product taken apart.
Frf(freq) == LET hz == 15625 IN 256 * (freq \div hz) + (256 * (freq % hz)) \div hz
SetFrequency(r, freq) ==
  LET frf == Frf(freq)
  IN  [r EXCEPT !.FRF_MSB = (frf \div 65536) % 256,
                !.FRF_MID = (frf \div 256) % 256, !.FRF_LSB = frf % 256]

LowDataRate(r) ==
  [r EXCEPT !.MC3 = IF High(r.MC2) >= 11 /\ High(r.MC1) = BW_125 THEN 12 ELSE 4]

OnlyBandwidth(r, bw) == [r EXCEPT !.MC1 = 16 * bw]  \* a mutant
WithBandwidth(r, bw) == [r EXCEPT !.MC1 = Low(@) + 16 * bw]
SetBandwidth(r, bw)  == LowDataRate(WithBandwidth(r, bw))

SetSpreadingFactor(r, asked) ==
  LET sf == Bounded(asked, 6, 12)
  IN  LowDataRate([r EXCEPT !.OPTIMIZE  = IF sf = 6 THEN 197 ELSE 195,
                            !.THRESHOLD = IF sf = 6 THEN 12 ELSE 10,
                            !.MC2 = Low(@) + 16 * sf])

SetHeader(r, implicit) == [r EXCEPT !.MC1 = IF implicit THEN Or(@, 1) ELSE Clear(@, 1)]
SetCrc(r, on)          == [r EXCEPT !.MC2 = IF on THEN Or(@, 4) ELSE Clear(@, 4)]

\* The constants of lora_sx1276.h are shifted already: shifted twice, they miss
\* the coding rate and reach the bandwidth.
SetCodingRate(r, rate) == [r EXCEPT !.MC1 = Or(@, (2 * rate) % 256)]

SetPreamble(r, len) == [r EXCEPT !.PRE_MSB = len \div 256, !.PRE_LSB = Low(len)]

Symbols(asked) == IF asked > 1023 THEN 1024 ELSE IF asked < 4 THEN 4 ELSE asked
SetSymbolTimeout(r, asked) ==
  LET n == Symbols(asked)
  IN  [r EXCEPT !.SYMB = Low(n), !.MC2 = IF n > 255 THEN Or(@, n \div 256) ELSE @]

Ocp(asked) ==
  LET imax == Bounded(asked, 45, 240)
  IN  Or(32, IF imax < 130 THEN (imax - 45) \div 5 ELSE (imax + 30) \div 10)

KeepHighPower(r, pa, asked) ==  \* a mutant: PA_DAC is never set back
  LET level == Bounded(asked, 2, 20)
  IN  IF pa = RFO THEN [r EXCEPT !.PA_CONFIG = Or(112, Bounded(asked, 0, 15))]
      ELSE IF level > 17
      THEN [r EXCEPT !.PA_DAC = 135, !.OCP = Ocp(140), !.PA_CONFIG = Or(128, level - 5)]
      ELSE [r EXCEPT !.OCP = Ocp(97), !.PA_CONFIG = Or(128, level - 2)]
SetPower(r, pa, asked) ==
  IF pa = RFO
  THEN [r EXCEPT !.PA_CONFIG = Or(112, Bounded(asked, 0, 15))]
  ELSE LET level == Bounded(asked, 2, 20)
           high  == level > 17
       IN  [r EXCEPT !.PA_DAC = IF high THEN 135 ELSE 132,
                     !.OCP = Ocp(IF high THEN 140 ELSE 97),
                     !.PA_CONFIG = Or(128, level - (IF high THEN 5 ELSE 2))]

-----------------------------------------------------------------------------
(* The calls.                                                              *)

\* lora_init(); bandwidth, CRC, coding rate and symbol timeout stay what the
\* radio has.
InitRegisters(r, freq) ==
  LET r1 == SetSpreadingFactor(SetFrequency(r, freq), 7)
      r2 == SetHeader(SetPreamble(r1, 10), FALSE)
  IN  SetPower([r2 EXCEPT !.LNA = Or(@, 3), !.MC3 = 4], BOOST, 17)
InitRadio(freq, version) ==
  /\ lora' = [ready |-> version = 18, pa |-> BOOST]
  /\ IF version = 18
     THEN /\ reg' = InitRegisters(reg, freq)
          /\ want' = [want EXCEPT !.frequency = freq, !.sf = 7, !.preamble = 10,
                                  !.implicit = FALSE, !.power = DefaultPower]
     ELSE UNCHANGED <<reg, want>>

Call(registers, wanted) ==
  lora.ready /\ reg' = registers /\ want' = wanted /\ UNCHANGED lora

CallFrequency(freq) == Call(SetFrequency(reg, freq), [want EXCEPT !.frequency = freq])
CallBandwidth(bw) ==
  Call(SetBandwidth(reg, bw), [want EXCEPT !.bw = bw, !.rates = {}])
CallSpreadingFactor(sf) ==
  Call(SetSpreadingFactor(reg, sf), [want EXCEPT !.sf = Bounded(sf, 6, 12)])
CallHeader(b) == Call(SetHeader(reg, b), [want EXCEPT !.implicit = b])
CallCrc(b) == Call(SetCrc(reg, b), [want EXCEPT !.crc = b, !.long = FALSE])
CallPreamble(len) == Call(SetPreamble(reg, len), [want EXCEPT !.preamble = len])
CallSymbolTimeout(n) ==
  Call(SetSymbolTimeout(reg, n),
       [want EXCEPT !.timeout = Symbols(n), !.long = @ \/ n > 1023])
CallCodingRate(rate) ==
  Call(SetCodingRate(reg, rate), [want EXCEPT !.rates = @ \cup {rate}])
CallDio(dio) == Call([reg EXCEPT !.DIO = dio], want)
CallPower(level) ==
  Call(SetPower(reg, lora.pa, level),
       [want EXCEPT !.power = [pa |-> lora.pa, level |-> level]])

\* The application writes the field, then sets the power when it likes.
SelectOutput(pa) ==
  lora.ready /\ lora' = [lora EXCEPT !.pa = pa] /\ UNCHANGED <<reg, want>>

Next ==
  \/ \E f \in Frequencies : CallFrequency(f)
  \/ \E f \in Frequencies, v \in Versions : InitRadio(f, v)
  \/ \E bw \in Bandwidths : CallBandwidth(bw)
  \/ \E sf \in SpreadingFactors : CallSpreadingFactor(sf)
  \/ \E b \in BOOLEAN : CallHeader(b) \/ CallCrc(b)
  \/ \E len \in Preambles : CallPreamble(len)
  \/ \E n \in SymbolTimeouts : CallSymbolTimeout(n)
  \/ \E rate \in CodingRates : CallCodingRate(rate)
  \/ \E level \in Levels : CallPower(level)
  \/ \E dio \in {0, 64} : CallDio(dio)
  \/ \E pa \in {RFO, BOOST} : SelectOutput(pa)

Spec == Init /\ [][Next]_vars

-----------------------------------------------------------------------------
\* The bandwidth in MC1, bit by bit: what was asked for, and the bits that the
\* coding rates asked for since set in it.
BandwidthIs(mc1, bw, rates) ==
  \A b \in {1, 2, 4, 8} :
    Bit(mc1, 16 * b) <=> Bit(bw, b) \/ \E rate \in rates : Bit(rate, 8 * b)

\* The settings that share registers do not disturb one another, across restarts
\* of the microcontroller, except where the code does and then exactly so: the
\* read-modify-write of lora_set_signal_bandwidth (:362) and its like keep the
\* other settings; a coding rate is never set and sets bits of the bandwidth
\* instead (:418); a symbol timeout of 1024 turns the CRC on, and one that is
\* longer than 255 leaves at least its own two high bits set (:534); of a
\* timeout's low byte and a preamble's the upper four bits are lost (:427,
\* :529).  No register takes more than its eight bits.
SettingsHold ==
  /\ \A k \in DOMAIN reg : reg[k] \in 0 .. 255
  /\ BandwidthIs(reg.MC1, want.bw, want.rates)
  /\ (Bit(reg.MC1, 1) <=> want.implicit) /\ Low(reg.MC1) \div 2 = 1
  /\ High(reg.MC2) = want.sf /\ (Bit(reg.MC2, 4) <=> want.crc \/ want.long)
  /\ \A b \in {1, 2} : Bit(want.timeout \div 256, b) => Bit(reg.MC2, b)
  /\ Low(reg.SYMB) = Low(want.timeout)
  /\ reg.PRE_MSB = want.preamble \div 256 /\ reg.PRE_LSB = Low(want.preamble)
  /\ 65536 * reg.FRF_MSB + 256 * reg.FRF_MID + reg.FRF_LSB = Frf(want.frequency)

\* Low data rate optimization, set by two calls from registers either may
\* change and reset by lora_init() (:203, :711), fits the modulation in use
\* unless a coding rate changed the bandwidth; the detection settings of
\* spreading factor 6 always fit.
ModemConsistent ==
  /\ High(reg.MC1) = want.bw =>
       (Bit(reg.MC3, 8) <=> want.sf >= 11 /\ want.bw = BW_125)
  /\ reg.THRESHOLD = 12 <=> want.sf = 6
  /\ reg.OPTIMIZE = 197 <=> want.sf = 6

\* The output power the radio derives from two registers.
Dbm == (reg.PA_CONFIG % 16) + (IF reg.PA_CONFIG < 128 THEN 0
                               ELSE IF reg.PA_DAC = 135 THEN 5 ELSE 2)
OcpTrim == reg.OCP % 32
CurrentLimit == IF OcpTrim < 16 THEN 45 + 5 * OcpTrim ELSE 10 * OcpTrim - 30

\* Whatever powers and outputs were used before, the radio sends with the power
\* last asked for, and the current limit admits it: 120 mA at +20 dBm and 87 mA
\* at +17 dBm (:301).
PowerConsistent ==
  LET w == want.power
  IN  IF w.pa = RFO
      THEN reg.PA_CONFIG < 128 /\ Dbm = Bounded(w.level, 0, 15)
      ELSE /\ reg.PA_CONFIG >= 128 /\ Dbm = Bounded(w.level, 2, 20)
           /\ CurrentLimit >= (IF Dbm > 17 THEN 120 ELSE 87)
=============================================================================
