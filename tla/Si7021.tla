------------------------------- MODULE Si7021 -------------------------------
(***************************************************************************)
(* si7021.c: measurements over an I2C bus that loses transfers.  The       *)
(* sensor keeps the temperature it took with the last humidity             *)
(* measurement; it answers with a code of 16 bits.                         *)
(***************************************************************************)
EXTENDS Integers

CONSTANTS
  TempCodes, HumCodes,  \* temperature and humidity codes the sensor can answer
  Halves,     \* halves of the electronic ID
  Settings    \* values of the user and the heater register

Si7021Assumption ==
  \A code \in TempCodes \cup HumCodes : code \in Nat /\ code <= 65535

VARIABLES
  air,       \* codes of the true temperature and humidity, and the ID
  regs,      \* user and heater register
  previous,  \* temperature code of the last humidity measurement
  measured,  \* code of the measurement the last call reports
  ret        \* the last call and what it returned
vars == <<air, regs, previous, measured, ret>>

MeasureFailed == 65535
Nothing == [op |-> "none", value |-> 0]

Init ==
  /\ air \in [temp : TempCodes, hum : HumCodes, id : Halves \X Halves]
  /\ regs = [user |-> 0, heater |-> 0]
  /\ previous = air.temp /\ measured = 0 /\ ret = Nothing

\* 17572 * (code * 100) / 6553500 - 4685 in 64 bits; the hundreds cancel.
ConvertedTemperature(code) == (17572 * code) \div 65535 - 4685
\* Mutant of OutOfRange: the lower limit is forgotten.
TooHot(temp)     == temp > 12500
OutOfRange(temp) == temp > 12500 \/ temp < -4000
ReadAndConvert(code) ==
  LET temp == ConvertedTemperature(code)
  IN  IF OutOfRange(temp) THEN MeasureFailed ELSE temp

\* A number as uint32_t, in its two halves, and read back as signed.
AsUint32(x) == <<(x \div 65536) % 65536, x % 65536>>
AsInt32(v)  == 65536 * (IF v[1] < 32768 THEN v[1] ELSE v[1] - 65536) + v[2]
ConvertedHumidity(code) == AsUint32((code * 125) \div 65536 - 6)

Returns(op, value, code) ==
  ret' = [op |-> op, value |-> value] /\ measured' = code /\ UNCHANGED <<air, regs>>

FailureOf(op) ==
  IF op = "humidity" THEN AsUint32(MeasureFailed) ELSE MeasureFailed

\* Either transfer fails; the sensor may have measured already.
Fails(op) ==
  /\ Returns(op, FailureOf(op), 0)
  /\ previous' \in {previous} \cup (IF op = "humidity" THEN {air.temp} ELSE {})

MeasureTemperature ==
  \/ Fails("temperature")
  \/ Returns("temperature", ReadAndConvert(air.temp), air.temp) /\ UNCHANGED previous

ReadPreviousTemperature ==
  \/ Fails("temperature")
  \/ Returns("temperature", ReadAndConvert(previous), previous) /\ UNCHANGED previous

MeasureHumidity ==
  \/ Fails("humidity")
  \/ Returns("humidity", ConvertedHumidity(air.hum), air.hum) /\ previous' = air.temp

\* _read_id, with 0 for a transfer that failed
ReadHalf(half) == {0, half}
ReadId ==
  /\ \E id1 \in ReadHalf(air.id[1]), id2 \in ReadHalf(air.id[2]) :
       Returns("id", IF 0 \in {id1, id2} THEN <<0, 0>> ELSE <<id1, id2>>, air.id)
  /\ UNCHANGED previous

\* si7021_set_config, si7021_set_heater_power: HAL_OK is 0.
SetRegister(reg) ==
  /\ \E value \in Settings, ok \in BOOLEAN :
       /\ regs' = IF ok THEN [regs EXCEPT ![reg] = value] ELSE regs
       /\ ret' = [op |-> reg, value |-> IF ok THEN 0 ELSE 1]
  /\ measured' = 0 /\ UNCHANGED <<air, previous>>

Changes == /\ \E t \in TempCodes, h \in HumCodes :
                air' = [air EXCEPT !.temp = t, !.hum = h]
           /\ ret' = Nothing /\ measured' = 0 /\ UNCHANGED <<regs, previous>>

Next == \/ MeasureTemperature \/ ReadPreviousTemperature \/ MeasureHumidity
        \/ ReadId \/ SetRegister("user") \/ SetRegister("heater") \/ Changes

-----------------------------------------------------------------------------
RoundedDown(v, exact, unit) == unit * v <= exact /\ exact < unit * (v + 1)
TrueTemperature(v, code) ==
  -4000 <= v /\ v <= 12500 /\ RoundedDown(v + 4685, 17572 * code, 65535)
TrueHumidity(v, code) ==
  LET h == AsInt32(v)
  IN  -6 <= h /\ h <= 118 /\ RoundedDown(h + 6, 125 * code, 65536)
      /\ (v[1] = 0 <=> code >= 3146)

\* A result that is not the failure code is the measurement, less than one
\* unit off; a temperature is inside the sensor's range, and an ID is whole or
\* 0 (:61-66, :76).  A humidity is a number up to 118, but for codes below 3146,
\* which stand for less than 0 %: the unsigned result wraps to 2^32 - 6 and up,
\* which is neither a humidity nor the failure code, and correct when it is
\* read as signed (:119).
ReadingsTrue ==
  LET v == ret.value IN
  /\ ret.op = "temperature" /\ v # MeasureFailed => TrueTemperature(v, measured)
  /\ ret.op = "humidity" /\ v # FailureOf("humidity") => TrueHumidity(v, measured)
  /\ ret.op = "id" /\ v # <<0, 0>> => v = measured
=============================================================================
