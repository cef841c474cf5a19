------------------------------ MODULE Veml6030 ------------------------------
(***************************************************************************)
(* veml6030.c: every setting lives in the one register ALS_CONF, which     *)
(* each call reads, changes and writes back over an I2C bus that loses     *)
(* transfers.  A read that fails gives 0.  A value of the register is the  *)
(* set of its bits.                                                        *)
(***************************************************************************)
EXTENDS Integers

CONSTANTS IntegrationTimes, Gains  \* REG_ALS_CONF_IT*, REG_ALS_CONF_GAIN_*

ShutdownBits == {0}       \* REG_ALS_CONF_SHUTDOWN
TimeBits     == 6 .. 9    \* REG_ALS_CONF_IT_CLEAR
GainBits     == 11 .. 12  \* REG_ALS_CONF_GAIN_1_4

VemlAssumption ==
  IntegrationTimes \subseteq SUBSET TimeBits /\ Gains \subseteq SUBSET GainBits

VARIABLES
  conf,     \* ALS_CONF
  want,     \* the settings of the calls that returned VEML6030_OK, and which
            \* of "off" and "it" were asked for since the gain was
  misread   \* a read failed, and what it gave was written back
vars == <<conf, want, misread>>

Init == /\ conf = ShutdownBits /\ misread = FALSE
        /\ want = [off |-> TRUE, it |-> {}, gain |-> {}, since |-> {"off", "it"}]

\* _read_register gives c.
ReadRegister(c) ==
  \/ c = conf /\ UNCHANGED misread
  \/ c = {} /\ misread' = TRUE

\* _write_register succeeds, and the call returns VEML6030_OK.
WriteRegister(value, wanted) == conf' = value /\ want' = wanted

PowerOn(c)  == c \ ShutdownBits
Shutdown(c) == c \cup ShutdownBits
\* Mutant of SetIntegrationTime: the old bits stay.
AddIntegrationTime(c, it) == c \cup it
SetIntegrationTime(c, it) == (c \ TimeBits) \cup it
SetGain(c, gain) == gain  \* what was read is dropped

GetIntegrationTime(c) == {b - 6 : b \in c \cap TimeBits}
GetGain(c)            == {b - 11 : b \in c \cap GainBits}

Asked(part) == want.since \cup {part}

InitSensor ==
  /\ WriteRegister({}, [off |-> FALSE, it |-> {}, gain |-> {}, since |-> {"off", "it"}])
  /\ misread' = FALSE

Next ==
  \/ InitSensor
  \/ UNCHANGED vars  \* the write fails
  \/ \E c \in {conf, {}} :
       /\ ReadRegister(c)
       /\ \/ WriteRegister(PowerOn(c), [want EXCEPT !.off = FALSE, !.since = Asked("off")])
          \/ WriteRegister(Shutdown(c), [want EXCEPT !.off = TRUE, !.since = Asked("off")])
          \/ \E it \in IntegrationTimes :
               WriteRegister(SetIntegrationTime(c, it),
                             [want EXCEPT !.it = it, !.since = Asked("it")])
          \/ \E gain \in Gains :
               WriteRegister(SetGain(c, gain), [want EXCEPT !.gain = gain, !.since = {}])

-----------------------------------------------------------------------------
\* What the calls leave of the integration time and the shutdown: that of
\* veml6030_set_als_gain() puts both at their defaults (:102).
TimeLeft == IF "it" \in want.since THEN want.it ELSE {}
OffLeft  == "off" \in want.since /\ want.off

\* After any history of calls, some of which failed, the register holds the gain
\* last asked for, the integration time and the shutdown asked for since that
\* call, and nothing else, and the getters report them (:93, :108): the calls of
\* integration time and power keep the rest (:64-:91), the call of the gain
\* keeps nothing.  Until a read fails unnoticed (:49) and 0 is written back.
VemlSettingsHold ==
  ~misread => /\ conf = TimeLeft \cup want.gain \cup (IF OffLeft THEN ShutdownBits ELSE {})
              /\ TimeLeft = {b + 6 : b \in GetIntegrationTime(conf)}
              /\ want.gain = {b + 11 : b \in GetGain(conf)}
=============================================================================
