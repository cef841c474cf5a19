----------------------------- MODULE MCRegisters -----------------------------
(* A behaviour uses one of the drivers (which), and the W5500's until a      *)
(* failure is hidden from the application.  Raw values and codes at both     *)
(* ends of the range and at the driver's limits; every flip of one or two of *)
(* the 24 bits of a word.  For the radio values on both sides of the limits  *)
(* the code tests: spreading factors 6 and 11, powers 2 and 17, 125 kHz, a    *)
(* preamble and timeouts that lose bits.                                     *)
EXTENDS Registers

VARIABLE which

MCRaws   == {{0}, {2, 4, 6, 7, 8, 14}, 0 .. 15}
MCErrors == {{}} \cup {{i, j} : i, j \in 0 .. 23}
MCIds    == {{0, 1, 2, 11}, {4, 15}, {0, 1, 2, 7, 11, 15}}
MCTimes  == {{}, {6}, {7}, {6, 7}, {9}, {8, 9}}
MCGains  == SUBSET (11 .. 12)
MCIps    == {<<192, 168, 0, 10>>}
MCMacs   == {<<2, 17, 34, 51, 68, 85>>}
MCLinks  == {{3, 4}, {4, 5}}
MCFrequencies == {915000001}
MCMasks  == {{2}, 0 .. 4}

ASSUME S!CrcOfBeef /\ S!FewFlips

MCInit ==
  /\ Init
  /\ which \in {"sht", "si7021", "veml6030", "wiz5500", "sx1276"}
  /\ which # "sht" => sensor = CHOOSE x \in [temp : Raws, hum : Raws, awake : {TRUE}] : TRUE
  /\ which # "si7021" => air = CHOOSE x \in [temp : TempCodes, hum : HumCodes,
                                               id : Halves \X Halves] : TRUE
MCNext ==
  /\ UNCHANGED which
  /\ \/ which = "sht" /\ ShtCall
     \/ which = "si7021" /\ Si7021Call
     \/ which = "veml6030" /\ VemlCall
     \/ which = "wiz5500" /\ trusted /\ WizCall
     \/ which = "sx1276" /\ LoraCall
MCSpec == MCInit /\ [][MCNext]_<<vars, which>>
=============================================================================
