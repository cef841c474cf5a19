------------------------------ MODULE Registers ------------------------------
(***************************************************************************)
(* The drivers whose calls are a few transactions on registers, one beside *)
(* the other: the two temperature and humidity sensors, the light sensor,  *)
(* the common registers of the W5500 and the configuration of the SX1276.  *)
(* They share no state.                                                    *)
(***************************************************************************)
EXTENDS Integers

CONSTANTS
  Raws, Errors, Ids,                    \* of Sht
  TempCodes, HumCodes, Halves, Settings,  \* of Si7021
  IntegrationTimes, Gains,              \* of Veml6030
  Sockets, Ips, Macs, LinkModes, Masks, Versions,  \* of WizCommon
  Frequencies, Bandwidths, SpreadingFactors, Levels, Preambles,  \* of LoraConfig
  SymbolTimeouts, CodingRates, RadioVersions

VARIABLES sensor, out, ret,                      \* of Sht
          air, regs, previous, measured, siRet,  \* of Si7021
          conf, want, misread,                   \* of Veml6030
          chip, set, got, trusted,               \* of WizCommon
          reg, lora, asked                       \* of LoraConfig

S == INSTANCE Sht
T == INSTANCE Si7021 WITH ret <- siRet
V == INSTANCE Veml6030
W == INSTANCE WizCommon
Radio == INSTANCE LoraConfig WITH want <- asked, Versions <- RadioVersions

ASSUME RegistersAssumption ==
  /\ S!ShtAssumption /\ T!Si7021Assumption /\ V!VemlAssumption /\ W!WizAssumption
  /\ Radio!Suitable

sht  == <<sensor, out, ret>>
si   == <<air, regs, previous, measured, siRet>>
veml == <<conf, want, misread>>
wiz  == <<chip, set, got, trusted>>
sx   == <<reg, lora, asked>>
vars == <<sht, si, veml, wiz, sx>>

Init == S!Init /\ T!Init /\ V!Init /\ W!Init /\ Radio!Init

ShtCall    == S!Next /\ UNCHANGED <<si, veml, wiz, sx>>
Si7021Call == T!Next /\ UNCHANGED <<sht, veml, wiz, sx>>
VemlCall   == V!Next /\ UNCHANGED <<sht, si, wiz, sx>>
WizCall    == W!Next /\ UNCHANGED <<sht, si, veml, sx>>
LoraCall   == Radio!Next /\ UNCHANGED <<sht, si, veml, wiz>>

Next == ShtCall \/ Si7021Call \/ VemlCall \/ WizCall \/ LoraCall
Spec == Init /\ [][Next]_vars

-----------------------------------------------------------------------------
\* The application's variables change only to what the sensor measures, and
\* never in a call that fails (_read_values :94 of shtc3.c).
OutputsTrue == S!OutputsTrue

\* A result that is not the failure code is the measurement, and a failed call
\* cannot be mistaken for one (_read_and_convert_temperature :61).
ReadingsTrue == T!ReadingsTrue

\* ALS_CONF holds the settings of the calls that succeeded, unless a read
\* failed unnoticed (veml6030_set_als_integration_time :82).
VemlSettingsHold == V!VemlSettingsHold

\* The W5500 is set as the calls that returned WIZ5500_OK asked, unless the
\* driver hid a failure (wiz5500_socket_enable_interrupt :582).
WizSettingsHold == W!WizSettingsHold

\* The settings of the radio that share registers do not disturb one another,
\* except where the code does (lora_set_signal_bandwidth :362).
SettingsHold == Radio!SettingsHold

\* What the radio derives from bandwidth and spreading factor fits both (:203).
ModemConsistent == Radio!ModemConsistent

\* The radio sends with the power last asked for, within its current limit
\* (:301).
PowerConsistent == Radio!PowerConsistent
=============================================================================
