--------------------------------- MODULE Sht ---------------------------------
(***************************************************************************)
(* shtc3.c and sht3x.c: a measurement arrives as two words, each followed  *)
(* by its CRC-8, over an I2C bus that loses transfers and flips bits.  A   *)
(* word, a CRC and what the bus flips are the sets of their bits.          *)
(***************************************************************************)
EXTENDS Integers

CONSTANTS
  Raws,    \* what the sensors can measure
  Errors,  \* the bits of a word and its CRC that the bus flips
  Ids      \* what the ID and the status register can be

ShtAssumption ==
  Raws \cup Ids \subseteq SUBSET (0 .. 15) /\ Errors \subseteq SUBSET (0 .. 23)

\* At most two bits of a word and its CRC flip.
FewFlips == \A e \in Errors : \E i, j \in 0 .. 23 : e \subseteq {i, j}

VARIABLES
  sensor,  \* what it measures, and whether it is awake
  out,     \* the application's two output variables
  ret      \* what the last call returned
vars == <<sensor, out, ret>>

Init ==
  /\ sensor \in [temp : Raws, hum : Raws, awake : {TRUE}]
  /\ out = [temp |-> 0, hum |-> 0] /\ ret = 0

\* ^ of C, and the bytes of a number of 16 or 24 bits
Xor(x, y) == (x \ y) \cup (y \ x)
ByteOf(n, bits) == {b \in 0 .. 7 : b + 8 * n \in bits}

\* The CRC with polynomial 0x31: one bit, eight bits.
Shift(crc) == LET up == {b + 1 : b \in crc \ {7}}
              IN  IF 7 \in crc THEN Xor(up, {0, 4, 5}) ELSE up
Shift2(crc) == Shift(Shift(crc))
Shift8(crc) == Shift2(Shift2(Shift2(Shift2(crc))))
Crc8(word)  == Shift8(Xor(Shift8(Xor(0 .. 7, ByteOf(1, word))), ByteOf(0, word)))

\* The example of the data sheet: the CRC of 0xBEEF is 0x92.
CrcOfBeef == Crc8((0 .. 15) \ {4, 8, 14}) = {1, 4, 7}

Sent(word, error) ==
  [word |-> Xor(word, {b \in 0 .. 15 : b + 8 \in error}),
   crc  |-> Xor(Crc8(word), ByteOf(0, error))]
CheckCRC(received) == Crc8(received.word) = received.crc

\* Mutant of BothGood: the second word is not checked.
FirstGood(first, second) == CheckCRC(first)
BothGood(first, second)  == CheckCRC(first) /\ CheckCRC(second)

Number(bits) ==
  LET b(n, value) == IF n \in bits THEN value ELSE 0
  IN  b(0, 1) + b(1, 2) + b(2, 4) + b(3, 8) + b(4, 16) + b(5, 32) + b(6, 64)
      + b(7, 128) + b(8, 256) + b(9, 512) + b(10, 1024) + b(11, 2048)
      + b(12, 4096) + b(13, 8192) + b(14, 16384) + b(15, 32768)

ConvertHumidity(raw)    == (Number(raw) * 100) \div 65535
ConvertTemperature(raw) == (Number(raw) * 17500) \div 65535 - 4500

Returns(value) == ret' = value /\ UNCHANGED <<sensor, out>>
Fails          == Returns(0)

\* shtc3_perform_measurements*, sht3x_one_shot_measurement_clock_stretching;
\* wanted says which of the two output pointers are given.
Measures(h, t, wanted) ==
  LET hum    == Sent(sensor.hum, h)
      temp   == Sent(sensor.temp, t)
      values == [hum |-> ConvertHumidity(hum.word), temp |-> ConvertTemperature(temp.word)]
  IN  IF BothGood(hum, temp)
      THEN /\ ret' = 1 /\ UNCHANGED sensor
           /\ out' = [v \in {"hum", "temp"} |-> IF v \in wanted THEN values[v] ELSE out[v]]
      ELSE Fails

\* Asleep the sensor acknowledges nothing but the wake-up.
PerformMeasurements ==
  \/ Fails
  \/ \E wanted \in SUBSET {"temp", "hum"} : sensor.awake /\ Measures({}, {}, wanted)
  \/ \E e \in Errors : /\ sensor.awake
                      /\ \/ Measures(e, {}, {"temp", "hum"})
                         \/ Measures({}, e, {"temp", "hum"})

ProductBits == 0 .. 5 \cup {11}
ProductCode == {0, 1, 2, 11}
IdBits      == 6 .. 10 \cup 12 .. 15

\* shtc3_read_id: the product code, then the ID alone.
ReadId ==
  \/ Fails
  \/ \E id \in Ids :
       sensor.awake
       /\ Returns(IF id \cap ProductBits = ProductCode THEN Number(id \cap IdBits) ELSE 0)

\* sht3x_sensor_present: the status register has its value after power-on.
SensorPresent == Fails \/ \E status \in Ids : Returns(IF status = {4, 15} THEN 1 ELSE 0)

\* shtc3_sleep, shtc3_wakeup
SetAwake(awake) ==
  \/ Fails
  \/ ret' = 1 /\ sensor' = [sensor EXCEPT !.awake = awake] /\ UNCHANGED out

Changes == \E t, h \in Raws : /\ sensor' = [sensor EXCEPT !.temp = t, !.hum = h]
                              /\ UNCHANGED <<out, ret>>

Next == \/ PerformMeasurements \/ ReadId \/ SensorPresent \/ Changes
        \/ \E awake \in BOOLEAN : SetAwake(awake)

-----------------------------------------------------------------------------
RoundedDown(v, exact, unit) == unit * v <= exact /\ exact < unit * (v + 1)
TrueTemperature(t) == RoundedDown(t + 4500, 17500 * Number(sensor.temp), 65535)
TrueHumidity(h)    == RoundedDown(h, 100 * Number(sensor.hum), 65535)

\* The application's variables change only to what the sensor measures, less
\* than one unit off, and never in a call that fails: no flip of one or two
\* bits gets past the CRC and a frame with one bad word delivers neither value
\* (_read_values :94, sht3x_one_shot_measurement_clock_stretching :75).
OutputsTrue ==
  [][ /\ out'.temp # out.temp => ret' = 1 /\ TrueTemperature(out'.temp)
      /\ out'.hum # out.hum => ret' = 1 /\ TrueHumidity(out'.hum) ]_vars
=============================================================================
