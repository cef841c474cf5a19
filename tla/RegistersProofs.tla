--------------------------- MODULE RegistersProofs ---------------------------
(***************************************************************************)
(* What the drivers of the sensors and of the W5500's common registers     *)
(* promise, for every value of the constants.  The drivers share no state, *)
(* so each has an invariant of its own; a call of another driver leaves it *)
(* alone.  The invariant of the radio's configuration is in                *)
(* LoraConfigProofs; here it is shown of the composition.                  *)
(*                                                                         *)
(* The light sensor and the W5500: what the chip holds agrees, field by    *)
(* field, with the record of the calls that succeeded.  The SI7021: the    *)
(* last result is the measurement it reports, rounded down.  The SHT       *)
(* sensors: the CRC is linear, so a flip goes unnoticed only if the CRC of *)
(* the flipped bits alone (the syndrome) is empty; the 24 syndromes of one *)
(* bit are different and not empty, so every flip of one or two bits is    *)
(* noticed.                                                                *)
(***************************************************************************)
EXTENDS Registers, TLAPS

LP == INSTANCE LoraConfigProofs WITH want <- asked, Versions <- RadioVersions

-----------------------------------------------------------------------------
(* The light sensor: fields of a register as sets of bits.                 *)

Fields(c, it, gain, off) ==
  c = it \cup gain \cup (IF off THEN {0} ELSE {})

VemlWants == [off : BOOLEAN, it : SUBSET (6 .. 9), gain : SUBSET (11 .. 12),
              since : SUBSET {"off", "it"}]

\* What a record w leaves of the integration time and the shutdown.
TimeOf(w) == IF "it" \in w.since THEN w.it ELSE {}
OffOf(w)  == "off" \in w.since /\ w.off

VemlInv ==
  /\ want \in VemlWants
  /\ ~misread => Fields(conf, TimeOf(want), want.gain, OffOf(want))

LEMMA FieldsChange ==
  ASSUME NEW it \in SUBSET (6 .. 9), NEW gain \in SUBSET (11 .. 12),
         NEW off \in BOOLEAN, NEW c, Fields(c, it, gain, off)
  PROVE  /\ Fields(V!PowerOn(c), it, gain, FALSE)
         /\ Fields(V!Shutdown(c), it, gain, TRUE)
         /\ \A new \in SUBSET (6 .. 9) :
              Fields(V!SetIntegrationTime(c, new), new, gain, off)
<1>1. \A b \in it : b \in 6 .. 9
  OBVIOUS
<1>2. \A b \in gain : b \in 11 .. 12
  OBVIOUS
<1>. HIDE DEF Fields
<1>3. Fields(V!PowerOn(c), it, gain, FALSE)
  BY DEF V!PowerOn, V!ShutdownBits, Fields
<1>4. Fields(V!Shutdown(c), it, gain, TRUE)
  BY DEF V!Shutdown, V!ShutdownBits, Fields
<1>5. ASSUME NEW new \in SUBSET (6 .. 9)
      PROVE  Fields(V!SetIntegrationTime(c, new), new, gain, off)
  <2>1. c \ (6 .. 9) = gain \cup (IF off THEN {0} ELSE {})
    <3>1. \A b : b \in gain \/ (off /\ b = 0) => b \notin 6 .. 9
      BY <1>2
    <3>2. \A b : b \in it => b \in 6 .. 9
      BY <1>1, Zenon
    <3>. QED
      BY <3>1, <3>2, Zenon DEF Fields
  <2>. QED
    BY <2>1, Zenon DEF V!SetIntegrationTime, V!TimeBits, Fields
<1>. QED
  BY <1>3, <1>4, <1>5

\* The getters report the fields.
LEMMA FieldsRead ==
  ASSUME NEW it \in SUBSET (6 .. 9), NEW gain \in SUBSET (11 .. 12),
         NEW off \in BOOLEAN, NEW c, Fields(c, it, gain, off)
  PROVE  /\ {b + 6 : b \in V!GetIntegrationTime(c)} = it
         /\ {b + 11 : b \in V!GetGain(c)} = gain
<1>1. \A b \in it : b \in 6 .. 9
  OBVIOUS
<1>2. \A b \in gain : b \in 11 .. 12
  OBVIOUS
<1>. HIDE DEF Fields
<1>5. \A b \in c : b \in it \/ b \in gain \/ b = 0
  BY Zenon DEF Fields
<1>6. c \cap (6 .. 9) = it
  <2>1. \A b \in it : b \in c
    BY Zenon DEF Fields
  <2>2. \A b : b \in c /\ b \in 6 .. 9 => b \in it
    BY <1>1, <1>2, <1>5
  <2>. QED
    BY <1>1, <2>1, <2>2, Zenon
<1>7. c \cap (11 .. 12) = gain
  <2>1. \A b \in gain : b \in c
    BY Zenon DEF Fields
  <2>2. \A b : b \in c /\ b \in 11 .. 12 => b \in gain
    BY <1>1, <1>2, <1>5
  <2>. QED
    BY <1>2, <2>1, <2>2, Zenon
<1>9. {b + 6 : b \in V!GetIntegrationTime(c)} = it
  <2>1. V!GetIntegrationTime(c) = {b - 6 : b \in it}
    BY <1>6, Zenon DEF V!GetIntegrationTime, V!TimeBits
  <2>2. \A b \in it : (b - 6) + 6 = b
    BY <1>1
  <2>3. \A x : x \in {b + 6 : b \in V!GetIntegrationTime(c)} <=> \E b \in it : x = (b - 6) + 6
    BY <2>1, Zenon
  <2>. QED
    BY <2>2, <2>3, Zenon
<1>10. {b + 11 : b \in V!GetGain(c)} = gain
  <2>1. V!GetGain(c) = {b - 11 : b \in gain}
    BY <1>7, Zenon DEF V!GetGain, V!GainBits
  <2>2. \A b \in gain : (b - 11) + 11 = b
    BY <1>2
  <2>3. \A x : x \in {b + 11 : b \in V!GetGain(c)} <=> \E b \in gain : x = (b - 11) + 11
    BY <2>1, Zenon
  <2>. QED
    BY <2>2, <2>3, Zenon
<1>. QED
  BY <1>9, <1>10

LEMMA VemlInit == V!Init => VemlInv
  BY DEF V!Init, VemlInv, VemlWants, TimeOf, OffOf, Fields, V!ShutdownBits

\* The call wrote a value whose fields are those of what is wanted now.
LEMMA VemlWrites ==
  ASSUME NEW value, NEW w \in VemlWants, V!WriteRegister(value, w),
         ~misread' => Fields(value, TimeOf(w), w.gain, OffOf(w))
  PROVE  VemlInv'
<1>1. conf' = value /\ want' = w
  BY DEF V!WriteRegister
<1>2. (~misread => Fields(conf, TimeOf(want), want.gain, OffOf(want)))'
  BY <1>1, Zenon DEF TimeOf, OffOf
<1>. QED
  BY <1>1, <1>2, Zenon DEF VemlInv

LEMMA VemlStep ==
  ASSUME VemlInv, [V!Next]_(V!vars)
  PROVE  VemlInv'
<1>1. CASE UNCHANGED V!vars
  BY <1>1 DEF V!vars, VemlInv, TimeOf, OffOf
<1>2. CASE V!InitSensor
  BY <1>2 DEF V!InitSensor, V!WriteRegister, VemlInv, VemlWants, TimeOf, OffOf, Fields
<1>3. ASSUME NEW c, V!ReadRegister(c)
      PROVE  ~misread' => ~misread /\ c = conf
  BY <1>3 DEF V!ReadRegister
<1>4. PICK it, gain, off : it = TimeOf(want) /\ gain = want.gain /\ off = OffOf(want)
  OBVIOUS
<1>5. it \in SUBSET (6 .. 9) /\ gain \in SUBSET (11 .. 12) /\ off \in BOOLEAN
  BY <1>4 DEF VemlInv, VemlWants, TimeOf, OffOf
<1>6. \A c : Fields(c, it, gain, off) =>
        /\ Fields(V!PowerOn(c), it, gain, FALSE)
        /\ Fields(V!Shutdown(c), it, gain, TRUE)
        /\ \A new \in SUBSET (6 .. 9) :
             Fields(V!SetIntegrationTime(c, new), new, gain, off)
  BY <1>5, FieldsChange
<1>7. ASSUME NEW c, V!ReadRegister(c)
      PROVE  ~misread' => Fields(c, it, gain, off)
  BY <1>3, <1>4, <1>7, Zenon DEF VemlInv
<1>8. ASSUME NEW c, V!ReadRegister(c), NEW o \in BOOLEAN,
             V!WriteRegister(IF o THEN V!Shutdown(c) ELSE V!PowerOn(c),
                             [want EXCEPT !.off = o, !.since = V!Asked("off")])
      PROVE  VemlInv'
  <2>1. PICK w : w = [want EXCEPT !.off = o, !.since = V!Asked("off")]
    OBVIOUS
  <2>2. w \in VemlWants /\ TimeOf(w) = it /\ w.gain = gain /\ OffOf(w) = o
    BY <1>4, <2>1 DEF VemlInv, VemlWants, TimeOf, OffOf, V!Asked
  <2>3. PICK value : value = IF o THEN V!Shutdown(c) ELSE V!PowerOn(c)
    OBVIOUS
  <2>4. ~misread' => Fields(value, it, gain, o)
    <3>1. CASE o = TRUE
      BY <1>6, <1>7, <1>8, <2>3, <3>1, Zenon
    <3>2. CASE o = FALSE
      BY <1>6, <1>7, <1>8, <2>3, <3>2, Zenon
    <3>. QED
      BY <3>1, <3>2
  <2>. QED
    BY <1>8, <2>1, <2>2, <2>3, <2>4, VemlWrites, Zenon
<1>9. ASSUME NEW c, V!ReadRegister(c), NEW new \in IntegrationTimes,
             V!WriteRegister(V!SetIntegrationTime(c, new),
                             [want EXCEPT !.it = new, !.since = V!Asked("it")])
      PROVE  VemlInv'
  <2>1. new \in SUBSET (6 .. 9)
    BY RegistersAssumption DEF V!VemlAssumption, V!TimeBits
  <2>2. PICK w : w = [want EXCEPT !.it = new, !.since = V!Asked("it")]
    OBVIOUS
  <2>3. w \in VemlWants /\ TimeOf(w) = new /\ w.gain = gain /\ OffOf(w) = off
    BY <1>4, <2>1, <2>2 DEF VemlInv, VemlWants, TimeOf, OffOf, V!Asked
  <2>4. ~misread' => Fields(V!SetIntegrationTime(c, new), new, gain, off)
    BY <1>6, <1>7, <1>9, <2>1, Zenon
  <2>. QED
    BY <1>9, <2>2, <2>3, <2>4, VemlWrites, Zenon
<1>10. ASSUME NEW c, V!ReadRegister(c), NEW new \in Gains,
              V!WriteRegister(V!SetGain(c, new), [want EXCEPT !.gain = new, !.since = {}])
       PROVE  VemlInv'
  <2>1. new \in SUBSET (11 .. 12)
    BY RegistersAssumption DEF V!VemlAssumption, V!GainBits
  <2>2. PICK w : w = [want EXCEPT !.gain = new, !.since = {}]
    OBVIOUS
  <2>3. w \in VemlWants /\ TimeOf(w) = {} /\ w.gain = new /\ OffOf(w) = FALSE
    BY <2>1, <2>2 DEF VemlInv, VemlWants, TimeOf, OffOf
  <2>4. Fields(V!SetGain(c, new), {}, new, FALSE)
    BY DEF Fields, V!SetGain
  <2>. QED
    BY <1>10, <2>2, <2>3, <2>4, VemlWrites, Zenon
<1>11. ASSUME NEW c, V!ReadRegister(c),
              V!WriteRegister(V!PowerOn(c), [want EXCEPT !.off = FALSE, !.since = V!Asked("off")])
       PROVE  VemlInv'
  BY <1>8, <1>11, Zenon
<1>12. ASSUME NEW c, V!ReadRegister(c),
              V!WriteRegister(V!Shutdown(c), [want EXCEPT !.off = TRUE, !.since = V!Asked("off")])
       PROVE  VemlInv'
  BY <1>8, <1>12, Zenon
<1>. QED
  BY <1>1, <1>2, <1>9, <1>10, <1>11, <1>12 DEF V!Next

LEMMA VemlInvHolds == VemlInv => V!VemlSettingsHold
<1>. SUFFICES ASSUME VemlInv, ~misread PROVE V!VemlSettingsHold
  BY DEF V!VemlSettingsHold
<1>1. PICK c, it, gain, off :
        c = conf /\ it = TimeOf(want) /\ gain = want.gain /\ off = OffOf(want)
  OBVIOUS
<1>2. /\ it \in SUBSET (6 .. 9) /\ gain \in SUBSET (11 .. 12)
      /\ off \in BOOLEAN /\ Fields(c, it, gain, off)
  BY <1>1 DEF VemlInv, VemlWants, TimeOf, OffOf
<1>3. /\ {b + 6 : b \in V!GetIntegrationTime(c)} = it
      /\ {b + 11 : b \in V!GetGain(c)} = gain
  BY <1>2, FieldsRead
<1>4. V!TimeLeft = it /\ V!OffLeft = off
  BY <1>1, Zenon DEF V!TimeLeft, V!OffLeft, TimeOf, OffOf
<1>. QED
  BY <1>1, <1>2, <1>3, <1>4, Zenon DEF V!VemlSettingsHold, Fields, V!ShutdownBits

-----------------------------------------------------------------------------
(* The W5500.                                                              *)

Ip  == [1 .. 4 -> 0 .. 255]
Mac == [1 .. 6 -> 0 .. 255]
Interrupts == [Sockets -> SUBSET (0 .. 7)]

Chips == [mode : SUBSET (0 .. 7), phy : SUBSET (0 .. 7), link : SUBSET (0 .. 7),
          mask : SUBSET Sockets, ints : Interrupts, ip : Ip, mac : Mac]
Records == [ping : BOOLEAN, sockets : SUBSET Sockets, ints : Interrupts,
            ip : Ip, mac : Mac, phy : SUBSET (0 .. 7)]

\* The chip c is set as the record s says.
Agree(c, s) ==
  /\ c.ip = s.ip /\ c.mac = s.mac /\ c.phy = s.phy
  /\ s.ping <=> c.mode \cap {4} = {}
  /\ \A k \in Sockets : (k \in s.sockets <=> k \in c.mask) /\ c.ints[k] = s.ints[k]

Answer == /\ got.op = "ip" => got.value = set.ip
          /\ got.op = "mac" => got.value = set.mac

WizInv ==
  /\ chip \in Chips /\ set \in Records /\ trusted \in BOOLEAN
  /\ trusted => Agree(chip, set) /\ Answer

\* Bytes turned twice are in order again.
LEMMA TurnedTwice ==
  ASSUME NEW n \in Ip
  PROVE  W!Turned(n) \in Ip /\ W!Turned(W!Turned(n)) = n
<1>. DEFINE r == [i \in 1 .. 4 |-> n[5 - i]]
<1>1. W!Turned(n) = r /\ W!Turned(r) = [i \in 1 .. 4 |-> r[5 - i]]
  BY DEF W!Turned
<1>2. r \in Ip /\ \A i \in 1 .. 4 : r[5 - i] = n[i]
  BY DEF Ip
<1>. QED
  BY <1>1, <1>2 DEF Ip

LEMMA WizInit == W!Init => WizInv
  BY DEF W!Init, WizInv, Agree, Answer, Chips, Records, Ip, Mac, Interrupts

\* What the calls that set something do to chip and record.
LEMMA SetsField ==
  ASSUME NEW c \in Chips, NEW s \in Records
  PROVE  /\ \A ip \in Ip : /\ [c EXCEPT !.ip = ip] \in Chips
                           /\ [s EXCEPT !.ip = ip] \in Records
                           /\ Agree(c, s) => Agree([c EXCEPT !.ip = ip], [s EXCEPT !.ip = ip])
         /\ \A mac \in Mac : /\ [c EXCEPT !.mac = mac] \in Chips
                             /\ [s EXCEPT !.mac = mac] \in Records
                             /\ Agree(c, s) => Agree([c EXCEPT !.mac = mac], [s EXCEPT !.mac = mac])
         /\ \A phy \in SUBSET (0 .. 7) :
              /\ [c EXCEPT !.phy = phy] \in Chips
              /\ [s EXCEPT !.phy = phy] \in Records
              /\ Agree(c, s) => Agree([c EXCEPT !.phy = phy], [s EXCEPT !.phy = phy])
         /\ \A link \in SUBSET (0 .. 7) :
              /\ [c EXCEPT !.link = link] \in Chips
              /\ Agree(c, s) => Agree([c EXCEPT !.link = link], s)
         /\ \A mode \in SUBSET (0 .. 7), on \in BOOLEAN :
              /\ [c EXCEPT !.mode = mode] \in Chips
              /\ [s EXCEPT !.ping = on] \in Records
              /\ (on <=> mode \cap {4} = {}) /\ Agree(c, s) =>
                   Agree([c EXCEPT !.mode = mode], [s EXCEPT !.ping = on])
<1>1. ASSUME NEW ip \in Ip
      PROVE  /\ [c EXCEPT !.ip = ip] \in Chips
             /\ [s EXCEPT !.ip = ip] \in Records
             /\ Agree(c, s) => Agree([c EXCEPT !.ip = ip], [s EXCEPT !.ip = ip])
  BY DEF Chips, Records, Agree
<1>2. ASSUME NEW mac \in Mac
      PROVE  /\ [c EXCEPT !.mac = mac] \in Chips
             /\ [s EXCEPT !.mac = mac] \in Records
             /\ Agree(c, s) => Agree([c EXCEPT !.mac = mac], [s EXCEPT !.mac = mac])
  BY DEF Chips, Records, Agree
<1>3. ASSUME NEW phy \in SUBSET (0 .. 7)
      PROVE  /\ [c EXCEPT !.phy = phy] \in Chips
             /\ [s EXCEPT !.phy = phy] \in Records
             /\ Agree(c, s) => Agree([c EXCEPT !.phy = phy], [s EXCEPT !.phy = phy])
  BY DEF Chips, Records, Agree
<1>4. ASSUME NEW link \in SUBSET (0 .. 7)
      PROVE  /\ [c EXCEPT !.link = link] \in Chips
             /\ Agree(c, s) => Agree([c EXCEPT !.link = link], s)
  BY DEF Chips, Records, Agree
<1>5. ASSUME NEW mode \in SUBSET (0 .. 7), NEW on \in BOOLEAN
      PROVE  /\ [c EXCEPT !.mode = mode] \in Chips
             /\ [s EXCEPT !.ping = on] \in Records
             /\ (on <=> mode \cap {4} = {}) /\ Agree(c, s) =>
                  Agree([c EXCEPT !.mode = mode], [s EXCEPT !.ping = on])
  BY DEF Chips, Records, Agree
<1>. QED
  BY <1>1, <1>2, <1>3, <1>4, <1>5

LEMMA EnableSets ==
  ASSUME NEW c \in Chips, NEW s \in Records, NEW k \in Sockets,
         NEW mask \in SUBSET Sockets, NEW ints \in SUBSET (0 .. 7)
  PROVE  LET c1 == [c EXCEPT !.mask = mask, !.ints[k] = ints]
             s1 == [s EXCEPT !.sockets = @ \cup {k}, !.ints[k] = ints]
         IN  /\ c1 \in Chips /\ s1 \in Records
             /\ mask = c.mask \cup {k} /\ Agree(c, s) => Agree(c1, s1)
<1>1. PICK c2 : c2 = [c EXCEPT !.mask = mask]
  OBVIOUS
<1>2. PICK s2 : s2 = [s EXCEPT !.sockets = @ \cup {k}]
  OBVIOUS
<1>3. PICK t : t = [c.ints EXCEPT ![k] = ints]
  OBVIOUS
<1>4. PICK u : u = [s.ints EXCEPT ![k] = ints]
  OBVIOUS
<1>5. c.ints \in Interrupts /\ s.ints \in Interrupts
  BY DEF Chips, Records
<1>6. /\ t \in Interrupts /\ t[k] = ints
      /\ \A j \in Sockets \ {k} : t[j] = c.ints[j]
  BY <1>3, <1>5 DEF Interrupts
<1>7. /\ u \in Interrupts /\ u[k] = ints
      /\ \A j \in Sockets \ {k} : u[j] = s.ints[j]
  BY <1>4, <1>5 DEF Interrupts
<1>8. c2 \in Chips /\ c2.ints = c.ints
  BY <1>1 DEF Chips
<1>9. s2 \in Records /\ s2.ints = s.ints
  BY <1>2 DEF Records
<1>10. PICK c1 : c1 = [c2 EXCEPT !.ints = t]
  OBVIOUS
<1>11. PICK s1 : s1 = [s2 EXCEPT !.ints = u]
  OBVIOUS
<1>12. c1 = [c EXCEPT !.mask = mask, !.ints[k] = ints] /\ c1 \in Chips
  BY <1>1, <1>3, <1>6, <1>8, <1>10 DEF Chips
<1>13. s1 = [s EXCEPT !.sockets = @ \cup {k}, !.ints[k] = ints] /\ s1 \in Records
  BY <1>2, <1>4, <1>7, <1>9, <1>11 DEF Records
<1>14. /\ c1.ip = c.ip /\ c1.mac = c.mac /\ c1.phy = c.phy /\ c1.mode = c.mode
       /\ c1.mask = mask /\ c1.ints = t
  BY <1>1, <1>10 DEF Chips
<1>15. /\ s1.ip = s.ip /\ s1.mac = s.mac /\ s1.phy = s.phy /\ s1.ping = s.ping
       /\ s1.sockets = s.sockets \cup {k} /\ s1.ints = u
  BY <1>2, <1>11 DEF Records
<1>16. mask = c.mask \cup {k} /\ Agree(c, s) => Agree(c1, s1)
  <2>. HAVE mask = c.mask \cup {k} /\ Agree(c, s)
  <2>1. \A j \in Sockets : (j \in s1.sockets <=> j \in c1.mask) /\ c1.ints[j] = s1.ints[j]
    BY <1>6, <1>7, <1>14, <1>15 DEF Agree
  <2>. QED
    BY <1>14, <1>15, <2>1, Zenon DEF Agree
<1>. QED
  BY <1>12, <1>13, <1>16

\* A call that reports neither address keeps the invariant, if it keeps chip
\* and record in agreement or gives the trust up.
LEMMA KeepsInv ==
  ASSUME WizInv, chip' \in Chips, set' \in Records, trusted' \in BOOLEAN,
         trusted' => trusted, got'.op \notin {"ip", "mac"},
         trusted' /\ Agree(chip, set) => Agree(chip', set')
  PROVE  WizInv'
  BY DEF WizInv, Answer

LEMMA WizStep ==
  ASSUME WizInv, [W!Next]_(W!vars)
  PROVE  WizInv'
<1>0. chip \in Chips /\ set \in Records /\ trusted \in BOOLEAN
  BY DEF WizInv
<1>1. CASE UNCHANGED W!vars
  BY <1>1 DEF W!vars, WizInv, Answer
<1>2. ASSUME NEW ip \in Ips, W!SetSourceIp(ip)
      PROVE  WizInv'
  <2>1. ip \in Ip /\ W!Outgoing(ip) = ip
    <3>1. ip \in Ip
      BY RegistersAssumption DEF W!WizAssumption, Ip
    <3>. QED
      BY <3>1, TurnedTwice DEF W!Outgoing, W!Memory, W!HTONL
  <2>2. \/ chip' = [chip EXCEPT !.ip = ip] /\ set' = [set EXCEPT !.ip = ip]
        \/ chip' = chip /\ set' = set
    BY <1>2, <2>1 DEF W!SetSourceIp, W!Writes
  <2>3. /\ chip' \in Chips /\ set' \in Records
        /\ Agree(chip, set) => Agree(chip', set')
    <3>. PICK c, s : c = chip /\ s = set
      OBVIOUS
    <3>1. /\ [c EXCEPT !.ip = ip] \in Chips /\ [s EXCEPT !.ip = ip] \in Records
          /\ Agree(c, s) => Agree([c EXCEPT !.ip = ip], [s EXCEPT !.ip = ip])
      BY <1>0, <2>1, SetsField
    <3>. QED
      BY <1>0, <2>2, <3>1
  <2>4. got'.op = "set_ip" /\ trusted' = trusted
    BY <1>2 DEF W!SetSourceIp, W!Call, W!Told
  <2>. QED
    BY <1>0, <2>3, <2>4, KeepsInv
<1>3. ASSUME NEW mac \in Macs, W!SetMac(mac)
      PROVE  WizInv'
  <2>1. mac \in Mac
    BY RegistersAssumption DEF W!WizAssumption, Mac
  <2>2. \/ chip' = [chip EXCEPT !.mac = mac] /\ set' = [set EXCEPT !.mac = mac]
        \/ chip' = chip /\ set' = set
    BY <1>3 DEF W!SetMac, W!Writes
  <2>3. /\ chip' \in Chips /\ set' \in Records
        /\ Agree(chip, set) => Agree(chip', set')
    <3>. PICK c, s : c = chip /\ s = set
      OBVIOUS
    <3>1. /\ [c EXCEPT !.mac = mac] \in Chips /\ [s EXCEPT !.mac = mac] \in Records
          /\ Agree(c, s) => Agree([c EXCEPT !.mac = mac], [s EXCEPT !.mac = mac])
      BY <1>0, <2>1, SetsField
    <3>. QED
      BY <1>0, <2>2, <3>1
  <2>4. got'.op = "set_mac" /\ trusted' = trusted
    BY <1>3 DEF W!SetMac, W!Call, W!Told
  <2>. QED
    BY <1>0, <2>3, <2>4, KeepsInv
<1>4. \A value, otherwise : \A read \in W!ReadTransaction(value, otherwise) :
        W!Trust(read) => /\ trusted' \in BOOLEAN
                         /\ trusted' => trusted /\ read.value = value
                         /\ read.value \in {value, otherwise}
  <2>. SUFFICES ASSUME NEW value, NEW otherwise,
                       NEW read \in W!ReadTransaction(value, otherwise), W!Trust(read)
                PROVE  /\ trusted' \in BOOLEAN
                       /\ trusted' => trusted /\ read.value = value
                       /\ read.value \in {value, otherwise}
    BY Zenon
  <2>1. /\ trusted' = (trusted /\ read.ok)
        /\ \/ read = [value |-> value, ok |-> TRUE]
           \/ read = [value |-> otherwise, ok |-> FALSE]
    BY DEF W!ReadTransaction, W!Trust
  <2>2. \/ read.value = value /\ read.ok = TRUE
        \/ read.value = otherwise /\ read.ok = FALSE
    BY <2>1
  <2>. QED
    BY <1>0, <2>1, <2>2
<1>5. CASE W!GetSourceIp
  <2>1. PICK r \in W!ReadTransaction(W!HTONL(W!Memory(chip.ip)), <<0, 15, 3, 0>>) :
          W!Call("ip", r.value) /\ W!Trust(r)
    BY <1>5 DEF W!GetSourceIp
  <2>2. chip' = chip /\ set' = set
    BY <1>5 DEF W!GetSourceIp
  <2>3. W!HTONL(W!Memory(chip.ip)) = chip.ip
    <3>. PICK n : n = chip.ip
      OBVIOUS
    <3>1. n \in Ip
      BY <1>0 DEF Chips
    <3>. QED
      BY <3>1, TurnedTwice DEF W!HTONL, W!Memory
  <2>4. trusted' \in BOOLEAN /\ (trusted' => trusted /\ r.value = chip.ip)
    BY <1>4, <2>1, <2>3, Zenon
  <2>5. got'.op = "ip" /\ got'.value = r.value
    BY <2>1 DEF W!Call
  <2>. QED
    BY <1>0, <2>2, <2>4, <2>5 DEF WizInv, Agree, Answer
<1>6. CASE W!GetMac
  <2>1. PICK r \in W!ReadTransaction(chip.mac, <<0, 9, 0, 0, 0, 0>>) :
          W!Call("mac", r.value) /\ W!Trust(r)
    BY <1>6 DEF W!GetMac
  <2>2. chip' = chip /\ set' = set
    BY <1>6 DEF W!GetMac
  <2>3. trusted' \in BOOLEAN /\ (trusted' => trusted /\ r.value = chip.mac)
    BY <1>4, <2>1, Zenon
  <2>4. got'.op = "mac" /\ got'.value = r.value
    BY <2>1 DEF W!Call
  <2>. QED
    BY <1>0, <2>2, <2>3, <2>4 DEF WizInv, Agree, Answer
<1>7. CASE W!InitDriver
  <2>1. chip' = chip /\ set' = set /\ trusted' = trusted /\ got'.op = "init"
    BY <1>7 DEF W!InitDriver, W!Call, W!Told
  <2>. QED
    BY <1>0, <2>1, KeepsInv
<1>8. CASE W!LinkChanges
  <2>1. PICK link \in SUBSET (0 .. 7) : chip' = [chip EXCEPT !.link = link]
    BY <1>8 DEF W!LinkChanges
  <2>2. set' = set /\ trusted' = trusted /\ got'.op = "none"
    BY <1>8 DEF W!LinkChanges, W!Call, W!Told
  <2>3. chip' \in Chips /\ (Agree(chip, set) => Agree(chip', set))
    <3>. PICK c, s : c = chip /\ s = set
      OBVIOUS
    <3>1. [c EXCEPT !.link = link] \in Chips
          /\ (Agree(c, s) => Agree([c EXCEPT !.link = link], s))
      BY <1>0, SetsField
    <3>. QED
      BY <2>1, <3>1
  <2>. QED
    BY <1>0, <2>2, <2>3, KeepsInv
<1>9. ASSUME NEW on \in BOOLEAN, W!SetPing(on)
      PROVE  WizInv'
  <2>. DEFINE Changed(mode) == IF on THEN mode \ {4} ELSE mode \cup {4}
  <2>1. PICK r \in W!ReadTransaction(chip.mode, {}) :
          /\ W!Writes([chip EXCEPT !.mode = Changed(r.value)], [set EXCEPT !.ping = on])
          /\ W!Trust(r)
    BY <1>9 DEF W!SetPing, W!PingBlock
  <2>2. trusted' \in BOOLEAN /\ (trusted' => trusted) /\ r.value \in {chip.mode, {}}
    BY <1>4, <2>1, Zenon
  <2>3. PICK mode : mode = Changed(r.value)
    OBVIOUS
  <2>4. mode \in SUBSET (0 .. 7) /\ (on <=> mode \cap {4} = {})
    BY <1>0, <2>2, <2>3 DEF Chips
  <2>5. \/ chip' = [chip EXCEPT !.mode = mode] /\ set' = [set EXCEPT !.ping = on]
        \/ chip' = chip /\ set' = set
    BY <2>1, <2>3 DEF W!Writes
  <2>6. /\ chip' \in Chips /\ set' \in Records
        /\ Agree(chip, set) => Agree(chip', set')
    <3>. PICK c, s : c = chip /\ s = set
      OBVIOUS
    <3>1. /\ [c EXCEPT !.mode = mode] \in Chips /\ [s EXCEPT !.ping = on] \in Records
          /\ Agree(c, s) => Agree([c EXCEPT !.mode = mode], [s EXCEPT !.ping = on])
      BY <1>0, <2>4, SetsField
    <3>. QED
      BY <1>0, <2>5, <3>1
  <2>7. got'.op = "set_ping"
    BY <1>9 DEF W!SetPing, W!Call
  <2>. QED
    BY <2>2, <2>6, <2>7, KeepsInv
<1>10. ASSUME NEW m \in LinkModes, W!SetLink(m)
       PROVE  WizInv'
  <2>1. PICK phy : phy = {7} \cup m \cup {6}
    OBVIOUS
  <2>2. phy \in SUBSET (0 .. 7)
    BY <2>1, RegistersAssumption DEF W!WizAssumption
  <2>3. \/ chip' = [chip EXCEPT !.phy = phy] /\ set' = [set EXCEPT !.phy = phy]
        \/ chip' = chip /\ set' = set
    BY <1>10, <2>1 DEF W!SetLink, W!Writes
  <2>4. /\ chip' \in Chips /\ set' \in Records
        /\ Agree(chip, set) => Agree(chip', set')
    <3>. PICK c, s : c = chip /\ s = set
      OBVIOUS
    <3>1. /\ [c EXCEPT !.phy = phy] \in Chips /\ [s EXCEPT !.phy = phy] \in Records
          /\ Agree(c, s) => Agree([c EXCEPT !.phy = phy], [s EXCEPT !.phy = phy])
      BY <1>0, <2>2, SetsField
    <3>. QED
      BY <1>0, <2>3, <3>1
  <2>5. got'.op = "set_link" /\ trusted' = trusted
    BY <1>10 DEF W!SetLink, W!Call, W!Told
  <2>. QED
    BY <1>0, <2>4, <2>5, KeepsInv
<1>11. ASSUME NEW op \in {"link", "duplex", "speed"}, NEW bit, W!LinkQuery(op, bit)
       PROVE  WizInv'
  <2>1. PICK r \in W!ReadTransaction(chip.phy \cup chip.link, {}) :
          W!Call(op, bit \in r.value) /\ W!Trust(r)
    BY <1>11 DEF W!LinkQuery
  <2>2. chip' = chip /\ set' = set /\ got'.op = op
    BY <1>11 DEF W!LinkQuery, W!Call
  <2>3. trusted' \in BOOLEAN /\ (trusted' => trusted)
    BY <1>4, <2>1, Zenon
  <2>. QED
    BY <1>0, <2>2, <2>3, KeepsInv
<1>12. ASSUME NEW k \in Sockets, NEW ints \in Masks, W!EnableInterrupt(k, ints)
       PROVE  WizInv'
  <2>1. PICK ok \in [1 .. 3 -> BOOLEAN] :
          LET mask == W!MaskWith(IF ok[1] THEN chip.mask ELSE {}, k)
          IN  /\ chip' = [chip EXCEPT !.mask = IF ok[2] THEN mask ELSE @,
                                      !.ints[k] = IF ok[3] THEN ints ELSE @]
              /\ trusted' = (trusted /\ \A i \in 1 .. 3 : ok[i])
    BY <1>12 DEF W!EnableInterrupt
  <2>2. /\ set' = [set EXCEPT !.sockets = @ \cup {k}, !.ints[k] = ints]
        /\ got'.op = "enable"
    BY <1>12 DEF W!EnableInterrupt, W!Call
  <2>3. PICK mask : mask = IF ok[2] THEN (IF ok[1] THEN chip.mask ELSE {}) \cup {k}
                                    ELSE chip.mask
    OBVIOUS
  <2>4. PICK now : now = IF ok[3] THEN ints ELSE chip.ints[k]
    OBVIOUS
  <2>5. ints \in SUBSET (0 .. 7) /\ now \in SUBSET (0 .. 7) /\ mask \in SUBSET Sockets
    BY <1>0, <2>3, <2>4, RegistersAssumption DEF W!WizAssumption, Chips, Interrupts
  <2>6. chip' = [chip EXCEPT !.mask = mask, !.ints[k] = now]
    BY <2>1, <2>3, <2>4 DEF W!MaskWith
  <2>7. trusted' \in BOOLEAN /\ (trusted' => trusted /\ mask = chip.mask \cup {k} /\ now = ints)
    BY <1>0, <2>1, <2>3, <2>4
  <2>8. /\ chip' \in Chips /\ set' \in Records
        /\ trusted' /\ Agree(chip, set) => Agree(chip', set')
    <3>. PICK c, s : c = chip /\ s = set
      OBVIOUS
    <3>1. c \in Chips /\ s \in Records
      BY <1>0
    <3>2. /\ [c EXCEPT !.mask = mask, !.ints[k] = now] \in Chips
          /\ [s EXCEPT !.sockets = @ \cup {k}, !.ints[k] = ints] \in Records
      BY <2>5, <3>1, EnableSets
    <3>3. mask = c.mask \cup {k} /\ now = ints /\ Agree(c, s) =>
            Agree([c EXCEPT !.mask = mask, !.ints[k] = now],
                  [s EXCEPT !.sockets = @ \cup {k}, !.ints[k] = ints])
      BY <2>5, <3>1, EnableSets
    <3>. QED
      BY <2>2, <2>6, <2>7, <3>2, <3>3, Zenon
  <2>. QED
    BY <2>2, <2>7, <2>8, KeepsInv
<1>. QED
  BY <1>1, <1>2, <1>3, <1>5, <1>6, <1>7, <1>8, <1>9, <1>10, <1>11, <1>12 DEF W!Next

LEMMA WizInvHolds == WizInv => W!WizSettingsHold
  BY DEF WizInv, Agree, Answer, W!WizSettingsHold, W!PingBlock
-----------------------------------------------------------------------------
(* The SI7021: what the conversions give, and what the sensor answers.     *)

\* What the assumption says of one code.
Humidity(code) == code \in Nat /\ code <= 65535

\* v is h in two halves.
Halves32(v, h) == T!AsInt32(v) = h /\ (v[1] = 0 <=> h >= 0)

\* A number from -6 to 118 in two halves, and back.
LEMMA Halved ==
  ASSUME NEW h \in Int, -6 <= h, h <= 118
  PROVE  Halves32(T!AsUint32(h), h)
<1>1. CASE h >= 0
  <2>1. (h \div 65536) % 65536 = 0 /\ h % 65536 = h
    BY <1>1, SMT
  <2>. QED
    BY <1>1, <2>1, SMT DEF T!AsUint32, T!AsInt32, Halves32
<1>2. CASE h < 0
  <2>1. PICK q : q = h \div 65536
    OBVIOUS
  <2>2. q = -1 /\ h % 65536 = h + 65536
    BY <1>2, <2>1, SMT
  <2>3. q % 65536 = 65535
    <3>1. \A k \in Int : -6 <= k /\ k < 0 => k % 65536 = k + 65536
      BY SMT
    <3>2. q \in Int /\ -6 <= q /\ q < 0
      BY <1>2, <2>1, SMT
    <3>3. q % 65536 = q + 65536
      BY <3>1, <3>2
    <3>. QED
      BY <2>2, <3>3, SMT
  <2>. QED
    BY <1>2, <2>1, <2>2, <2>3, SMT DEF T!AsUint32, T!AsInt32, Halves32
<1>. QED
  BY <1>1, <1>2

LEMMA HumidityConverts ==
  ASSUME NEW code, Humidity(code)
  PROVE  T!TrueHumidity(T!ConvertedHumidity(code), code)
<1>1. PICK q : q = (code * 125) \div 65536
  OBVIOUS
<1>2. /\ q \in Int /\ code \in Nat
      /\ 65536 * q <= code * 125 /\ code * 125 < 65536 * (q + 1)
  BY <1>1, SMT DEF Humidity
<1>3. q >= 0 /\ q <= 124 /\ (q >= 6 <=> code >= 3146)
  BY <1>2, SMT DEF Humidity
<1>4. PICK h \in Int : h = q - 6
  BY <1>2
<1>5. T!ConvertedHumidity(code) = T!AsUint32(h)
  BY <1>1, <1>4, SMT DEF T!ConvertedHumidity
<1>6. -6 <= h /\ h <= 118 /\ (h >= 0 <=> code >= 3146)
  BY <1>2, <1>3, <1>4, SMT
<1>8. PICK v : v = T!ConvertedHumidity(code)
  OBVIOUS
<1>9. T!AsInt32(v) = h /\ (v[1] = 0 <=> h >= 0)
  <2>1. Halves32(T!AsUint32(h), h)
    BY <1>6, Halved
  <2>. QED
    BY <1>5, <1>8, <2>1, Zenon DEF Halves32
<1>7. T!RoundedDown(h + 6, 125 * code, 65536)
  BY <1>2, <1>4, SMT DEF T!RoundedDown
<1>. QED
  BY <1>6, <1>7, <1>8, <1>9, SMT DEF T!TrueHumidity

LEMMA TemperatureConverts ==
  ASSUME NEW code \in Nat
  PROVE  T!ReadAndConvert(code) # T!MeasureFailed =>
           T!TrueTemperature(T!ReadAndConvert(code), code)
<1>1. PICK q : q = (17572 * code) \div 65535
  OBVIOUS
<1>2. q \in Int /\ 65535 * q <= 17572 * code /\ 17572 * code < 65535 * (q + 1)
  BY <1>1, SMT
<1>3. T!ReadAndConvert(code) = IF q - 4685 > 12500 \/ q - 4685 < -4000
                               THEN T!MeasureFailed ELSE q - 4685
  BY <1>1, SMT DEF T!ReadAndConvert, T!ConvertedTemperature, T!OutOfRange
<1>. QED
  BY <1>2, <1>3, SMT DEF T!RoundedDown, T!TrueTemperature

\* What a call may say of a measurement with a given code.
TrueReading(op, v, code) ==
  /\ op = "temperature" /\ v # T!MeasureFailed => T!TrueTemperature(v, code)
  /\ op = "humidity" /\ v # T!FailureOf("humidity") => T!TrueHumidity(v, code)
  /\ op = "id" /\ v # <<0, 0>> => v = code

LEMMA ReadingIs == T!ReadingsTrue <=> TrueReading(siRet.op, siRet.value, measured)
  BY Zenon DEF T!ReadingsTrue, TrueReading

LEMMA TrueReadings ==
  /\ \A code \in Nat : TrueReading("temperature", T!ReadAndConvert(code), code)
  /\ \A code : Humidity(code) => TrueReading("humidity", T!ConvertedHumidity(code), code)
  /\ \A op \in {"temperature", "humidity"} : \A code : TrueReading(op, T!FailureOf(op), code)
  /\ \A op, v, code : op \notin {"temperature", "humidity", "id"} => TrueReading(op, v, code)
  /\ \A v, code : v \in {<<0, 0>>, code} => TrueReading("id", v, code)
<1>1. ASSUME NEW code \in Nat
      PROVE  TrueReading("temperature", T!ReadAndConvert(code), code)
  BY TemperatureConverts, Zenon DEF TrueReading
<1>2. ASSUME NEW code, Humidity(code)
      PROVE  TrueReading("humidity", T!ConvertedHumidity(code), code)
  BY <1>2, HumidityConverts, Zenon DEF TrueReading
<1>3. \A op \in {"temperature", "humidity"} : \A code : TrueReading(op, T!FailureOf(op), code)
  <2>1. T!FailureOf("temperature") = T!MeasureFailed
    BY Zenon DEF T!FailureOf
  <2>. QED
    BY <2>1, Zenon DEF TrueReading
<1>4. \A op, v, code : op \notin {"temperature", "humidity", "id"} => TrueReading(op, v, code)
  BY Zenon DEF TrueReading
<1>5. \A v, code : v \in {<<0, 0>>, code} => TrueReading("id", v, code)
  BY Zenon DEF TrueReading
<1>. QED
  BY <1>1, <1>2, <1>3, <1>4, <1>5, Zenon

SiInv ==
  /\ air \in [temp : TempCodes, hum : HumCodes, id : Halves \X Halves]
  /\ previous \in TempCodes
  /\ TrueReading(siRet.op, siRet.value, measured)

LEMMA SiInit == T!Init => SiInv
  BY TrueReadings DEF T!Init, SiInv, T!Nothing

\* The call returned, and says something true.
LEMMA SiReturns ==
  ASSUME SiInv, NEW op, NEW value, NEW code, TrueReading(op, value, code),
         siRet' = [op |-> op, value |-> value], measured' = code,
         air' \in [temp : TempCodes, hum : HumCodes, id : Halves \X Halves],
         previous' \in TempCodes
  PROVE  SiInv'
<1>1. siRet'.op = op /\ siRet'.value = value
  OBVIOUS
<1>. QED
  BY <1>1, Zenon DEF SiInv

LEMMA SiStep ==
  ASSUME SiInv, [T!Next]_(T!vars)
  PROVE  SiInv'
<1>0. /\ air.temp \in TempCodes /\ air.hum \in HumCodes /\ previous \in TempCodes
      /\ air \in [temp : TempCodes, hum : HumCodes, id : Halves \X Halves]
  BY DEF SiInv
<1>c. /\ \A code \in TempCodes : code \in Nat
      /\ \A code \in HumCodes : Humidity(code)
  BY RegistersAssumption, SMT DEF T!Si7021Assumption, Humidity
<1>1. CASE UNCHANGED T!vars
  BY <1>1, Zenon DEF T!vars, SiInv
<1>2. ASSUME NEW op \in {"temperature", "humidity"}, T!Fails(op)
      PROVE  SiInv'
  <2>1. /\ siRet' = [op |-> op, value |-> T!FailureOf(op)] /\ measured' = 0
        /\ air' = air /\ previous' \in TempCodes
    BY <1>0, <1>2 DEF T!Fails, T!Returns
  <2>. QED
    BY <1>0, <2>1, TrueReadings, SiReturns
<1>3. ASSUME NEW code \in TempCodes,
             T!Returns("temperature", T!ReadAndConvert(code), code), UNCHANGED previous
      PROVE  SiInv'
  <2>1. /\ siRet' = [op |-> "temperature", value |-> T!ReadAndConvert(code)]
        /\ measured' = code /\ air' = air
    BY <1>3 DEF T!Returns
  <2>. QED
    BY <1>0, <1>c, <1>3, <2>1, TrueReadings, SiReturns
<1>4. CASE T!MeasureTemperature
  BY <1>0, <1>2, <1>3, <1>4 DEF T!MeasureTemperature
<1>5. CASE T!ReadPreviousTemperature
  BY <1>0, <1>2, <1>3, <1>5 DEF T!ReadPreviousTemperature
<1>6. CASE T!MeasureHumidity
  <2>1. CASE T!Fails("humidity")
    BY <1>2, <2>1
  <2>2. CASE /\ T!Returns("humidity", T!ConvertedHumidity(air.hum), air.hum)
             /\ previous' = air.temp
    <3>. PICK code : code = air.hum
      OBVIOUS
    <3>1. /\ siRet' = [op |-> "humidity", value |-> T!ConvertedHumidity(code)]
          /\ measured' = code /\ air' = air /\ previous' = air.temp
      BY <2>2 DEF T!Returns
    <3>2. TrueReading("humidity", T!ConvertedHumidity(code), code)
      BY <1>0, <1>c, TrueReadings
    <3>. QED
      BY <1>0, <3>1, <3>2, SiReturns
  <2>. QED
    BY <1>6, <2>1, <2>2 DEF T!MeasureHumidity
<1>7. CASE T!ReadId
  <2>1. PICK id1 \in T!ReadHalf(air.id[1]), id2 \in T!ReadHalf(air.id[2]) :
          T!Returns("id", IF 0 \in {id1, id2} THEN <<0, 0>> ELSE <<id1, id2>>, air.id)
    BY <1>7 DEF T!ReadId
  <2>2. UNCHANGED previous /\ UNCHANGED air
    BY <1>7, <2>1 DEF T!ReadId, T!Returns
  <2>3. PICK value : value = IF 0 \in {id1, id2} THEN <<0, 0>> ELSE <<id1, id2>>
    OBVIOUS
  <2>4. PICK id \in Halves \X Halves : id = air.id
    BY <1>0
  <2>5. value \in {<<0, 0>>, id}
    <3>1. id = <<id[1], id[2]>>
      OBVIOUS
    <3>2. id1 \in {0, id[1]} /\ id2 \in {0, id[2]}
      BY <2>1, <2>4 DEF T!ReadHalf
    <3>. QED
      BY <2>3, <3>1, <3>2
  <2>6. TrueReading("id", value, id)
    BY <2>5, TrueReadings
  <2>7. siRet' = [op |-> "id", value |-> value] /\ measured' = id
    BY <2>1, <2>3, <2>4 DEF T!Returns
  <2>. QED
    BY <1>0, <2>2, <2>6, <2>7, SiReturns
<1>8. ASSUME NEW name \in {"user", "heater"}, T!SetRegister(name)
      PROVE  SiInv'
  <2>1. PICK value : siRet' = [op |-> name, value |-> value]
    BY <1>8 DEF T!SetRegister
  <2>2. measured' = 0 /\ UNCHANGED <<air, previous>>
    BY <1>8 DEF T!SetRegister
  <2>3. TrueReading(name, value, 0)
    BY TrueReadings
  <2>. QED
    BY <1>0, <2>1, <2>2, <2>3, SiReturns
<1>9. CASE T!Changes
  <2>1. /\ air' \in [temp : TempCodes, hum : HumCodes, id : Halves \X Halves]
        /\ siRet' = [op |-> "none", value |-> 0] /\ measured' = 0 /\ previous' = previous
    BY <1>0, <1>9 DEF T!Changes, T!Nothing
  <2>2. TrueReading("none", 0, 0)
    BY TrueReadings
  <2>. QED
    BY <1>0, <2>1, <2>2, SiReturns
<1>. QED
  BY <1>1, <1>4, <1>5, <1>6, <1>7, <1>8, <1>9 DEF T!Next

-----------------------------------------------------------------------------
(* The SHT sensors: the CRC.                                               *)

Byte == SUBSET (0 .. 7)

LEMMA XorByte ==
  ASSUME NEW x \in Byte, NEW y \in Byte
  PROVE  S!Xor(x, y) \in Byte
  BY DEF S!Xor, Byte

LEMMA ShiftIs ==
  ASSUME NEW c \in Byte
  PROVE  /\ S!Shift(c) \in Byte
         /\ 0 \in S!Shift(c) <=> 7 \in c
         /\ 1 \in S!Shift(c) <=> 0 \in c
         /\ 2 \in S!Shift(c) <=> 1 \in c
         /\ 3 \in S!Shift(c) <=> 2 \in c
         /\ 4 \in S!Shift(c) <=> ((3 \in c) # (7 \in c))
         /\ 5 \in S!Shift(c) <=> ((4 \in c) # (7 \in c))
         /\ 6 \in S!Shift(c) <=> 5 \in c
         /\ 7 \in S!Shift(c) <=> 6 \in c
<1>. DEFINE up == {b + 1 : b \in c \ {7}}
<1>1. up \in Byte /\ 0 \notin up
  BY DEF Byte
<1>2. \A k \in 0 .. 6 : k + 1 \in up <=> k \in c
  <2>1. ASSUME NEW k \in 0 .. 6, k + 1 \in up PROVE k \in c
    <3>1. PICK b \in c \ {7} : k + 1 = b + 1
      BY <2>1
    <3>2. b = k
      BY <3>1 DEF Byte
    <3>. QED
      BY <3>1, <3>2
  <2>. QED
    BY <2>1
<1>3. /\ 1 \in up <=> 0 \in c
      /\ 2 \in up <=> 1 \in c
      /\ 3 \in up <=> 2 \in c
      /\ 4 \in up <=> 3 \in c
      /\ 5 \in up <=> 4 \in c
      /\ 6 \in up <=> 5 \in c
      /\ 7 \in up <=> 6 \in c
  BY <1>2
<1>4. S!Shift(c) = IF 7 \in c THEN S!Xor(up, {0, 4, 5}) ELSE up
  BY DEF S!Shift
<1>. HIDE DEF up
<1>5. \A k : k \in S!Xor(up, {0, 4, 5}) <=> ((k \in up) # (k \in {0, 4, 5}))
  BY DEF S!Xor
<1>6. S!Xor(up, {0, 4, 5}) \in Byte
  <2>1. {0, 4, 5} \in Byte
    BY DEF Byte
  <2>. QED
    BY <1>1, <2>1, XorByte
<1>. QED
  BY <1>1, <1>3, <1>4, <1>5, <1>6

LEMMA SameByte ==
  ASSUME NEW x \in Byte, NEW y \in Byte,
         0 \in x <=> 0 \in y, 1 \in x <=> 1 \in y, 2 \in x <=> 2 \in y, 3 \in x <=> 3 \in y,
         4 \in x <=> 4 \in y, 5 \in x <=> 5 \in y, 6 \in x <=> 6 \in y, 7 \in x <=> 7 \in y
  PROVE  x = y
<1>1. \A k \in 0 .. 7 : k \in x <=> k \in y
  OBVIOUS
<1>. QED
  BY <1>1 DEF Byte

\* The CRC of a sum is the sum of the CRCs.
LEMMA ShiftAdds ==
  ASSUME NEW x \in Byte, NEW y \in Byte
  PROVE  S!Shift(S!Xor(x, y)) = S!Xor(S!Shift(x), S!Shift(y))
<1>1. S!Xor(x, y) \in Byte /\ S!Shift(x) \in Byte /\ S!Shift(y) \in Byte
  BY XorByte, ShiftIs
<1>2. /\ S!Shift(S!Xor(x, y)) \in Byte
      /\ S!Xor(S!Shift(x), S!Shift(y)) \in Byte
  BY <1>1, XorByte, ShiftIs
<1>3. \A u, v, k : k \in S!Xor(u, v) <=> ((k \in u) # (k \in v))
  BY DEF S!Xor
<1>. QED
  BY <1>1, <1>2, <1>3, ShiftIs, SameByte

LEMMA Shift8Is ==
  ASSUME NEW x \in Byte, NEW y \in Byte
  PROVE  /\ S!Shift8(x) \in Byte
         /\ S!Shift8(S!Xor(x, y)) = S!Xor(S!Shift8(x), S!Shift8(y))
<1>1. \A u \in Byte : S!Shift2(u) \in Byte
  BY ShiftIs DEF S!Shift2
<1>2. ASSUME NEW u \in Byte, NEW v \in Byte
      PROVE  S!Shift2(S!Xor(u, v)) = S!Xor(S!Shift2(u), S!Shift2(v))
  <2>1. S!Shift(u) \in Byte /\ S!Shift(v) \in Byte
    BY ShiftIs
  <2>2. S!Shift(S!Xor(u, v)) = S!Xor(S!Shift(u), S!Shift(v))
    BY ShiftAdds
  <2>3. S!Shift(S!Xor(S!Shift(u), S!Shift(v))) = S!Xor(S!Shift(S!Shift(u)), S!Shift(S!Shift(v)))
    BY <2>1, ShiftAdds
  <2>. QED
    BY <2>2, <2>3, Zenon DEF S!Shift2
<1>. DEFINE Shift4(u) == S!Shift2(S!Shift2(u))
<1>3. \A u \in Byte : Shift4(u) \in Byte
  BY <1>1
<1>4. \A u, v \in Byte : Shift4(S!Xor(u, v)) = S!Xor(Shift4(u), Shift4(v))
  BY <1>1, <1>2, XorByte, Zenon
<1>5. \A u : S!Shift8(u) = Shift4(Shift4(u))
  BY DEF S!Shift8
<1>. HIDE DEF Shift4
<1>6. Shift4(x) \in Byte /\ Shift4(y) \in Byte /\ S!Xor(x, y) \in Byte
  BY <1>3, XorByte
<1>. QED
  BY <1>3, <1>4, <1>5, <1>6, Zenon

LEMMA XorMember ==
  \A x, y, k : k \in S!Xor(x, y) <=> ((k \in x) # (k \in y))
  BY DEF S!Xor

LEMMA XorAssociates ==
  ASSUME NEW x, NEW y, NEW z
  PROVE  S!Xor(x, S!Xor(y, z)) = S!Xor(S!Xor(x, y), z)
<1>1. \A k : k \in S!Xor(S!Xor(x, y), z) <=> k \in S!Xor(x, S!Xor(y, z))
  BY XorMember
<1>. QED
  BY <1>1, Zenon DEF S!Xor

LEMMA XorCancels ==
  ASSUME NEW x, NEW y, NEW z, S!Xor(x, y) = S!Xor(x, z)
  PROVE  y = z
<1>1. \A k : k \in y <=> k \in z
  BY XorMember
<1>. QED
  BY <1>1

LEMMA XorItself ==
  ASSUME NEW x, NEW y
  PROVE  S!Xor(x, y) = {} <=> x = y
<1>1. S!Xor(x, y) = {} => \A k : k \in x <=> k \in y
  BY XorMember
<1>. QED
  BY <1>1 DEF S!Xor

LEMMA ByteOfIs ==
  ASSUME NEW n, NEW x
  PROVE  S!ByteOf(n, x) \in Byte
  BY DEF S!ByteOf, Byte

\* What a flip of the bits e changes in the comparison of the CRCs.
Syndrome(e) ==
  S!Xor(S!Shift8(S!Xor(S!Shift8(S!ByteOf(2, e)), S!ByteOf(1, e))), S!ByteOf(0, e))

LEMMA ByteOfXor ==
  ASSUME NEW n \in Nat, NEW x, NEW y
  PROVE  S!ByteOf(n, S!Xor(x, y)) = S!Xor(S!ByteOf(n, x), S!ByteOf(n, y))
  BY DEF S!ByteOf, S!Xor

\* Sums in which the same two parts meet.
LEMMA Regroup ==
  ASSUME NEW a, NEW b, NEW c, NEW d
  PROVE  S!Xor(S!Xor(a, b), S!Xor(c, d)) = S!Xor(S!Xor(a, c), S!Xor(b, d))
<1>1. \A k : k \in S!Xor(S!Xor(a, b), S!Xor(c, d)) <=> k \in S!Xor(S!Xor(a, c), S!Xor(b, d))
  BY XorMember
<1>. QED
  BY <1>1, Zenon DEF S!Xor

LEMMA SyndromeAdds ==
  ASSUME NEW e, NEW f
  PROVE  Syndrome(S!Xor(e, f)) = S!Xor(Syndrome(e), Syndrome(f))
<1>. DEFINE A(x) == S!ByteOf(2, x)  B(x) == S!ByteOf(1, x)  C(x) == S!ByteOf(0, x)
            M(x) == S!Xor(S!Shift8(A(x)), B(x))
<1>1. \A x : A(x) \in Byte /\ B(x) \in Byte /\ C(x) \in Byte
  BY ByteOfIs
<1>2. \A x : S!Shift8(A(x)) \in Byte /\ M(x) \in Byte
  BY <1>1, Shift8Is, XorByte
<1>3. /\ A(S!Xor(e, f)) = S!Xor(A(e), A(f)) /\ B(S!Xor(e, f)) = S!Xor(B(e), B(f))
      /\ C(S!Xor(e, f)) = S!Xor(C(e), C(f))
  BY ByteOfXor
<1>4. M(S!Xor(e, f)) = S!Xor(M(e), M(f))
  <2>1. S!Shift8(S!Xor(A(e), A(f))) = S!Xor(S!Shift8(A(e)), S!Shift8(A(f)))
    BY <1>1, Shift8Is, Zenon
  <2>. QED
    <3>. PICK a, b, c, d : /\ a = S!Shift8(A(e)) /\ b = S!Shift8(A(f))
                           /\ c = B(e) /\ d = B(f)
      OBVIOUS
    <3>1. S!Xor(S!Xor(a, b), S!Xor(c, d)) = S!Xor(S!Xor(a, c), S!Xor(b, d))
      BY Regroup
    <3>. QED
      BY <1>3, <2>1, <3>1, Zenon
<1>5. S!Shift8(S!Xor(M(e), M(f))) = S!Xor(S!Shift8(M(e)), S!Shift8(M(f)))
  BY <1>2, Shift8Is, Zenon
<1>6. \A x : Syndrome(x) = S!Xor(S!Shift8(M(x)), C(x))
  BY Zenon DEF Syndrome
<1>. HIDE DEF A, B, C, M
<1>7. PICK a, b, c, d : /\ a = S!Shift8(M(e)) /\ b = S!Shift8(M(f))
                        /\ c = C(e) /\ d = C(f)
  OBVIOUS
<1>8. S!Xor(S!Xor(a, b), S!Xor(c, d)) = S!Xor(S!Xor(a, c), S!Xor(b, d))
  BY Regroup
<1>. QED
  BY <1>3, <1>4, <1>5, <1>6, <1>7, <1>8, Zenon

LEMMA ReceivedRight ==
  ASSUME NEW word, NEW e, S!CheckCRC(S!Sent(word, e))
  PROVE  Syndrome(e) = {}
<1>. DEFINE f == {b \in 0 .. 15 : b + 8 \in e}
            H == S!ByteOf(1, word)  L == S!ByteOf(0, word)
            h == S!ByteOf(2, e)     l == S!ByteOf(1, e)
            F == S!Xor(0 .. 7, H)
<1>1. S!ByteOf(1, f) = h /\ S!ByteOf(0, f) = l
  BY DEF S!ByteOf
<1>2. /\ S!ByteOf(1, S!Xor(word, f)) = S!Xor(H, h)
      /\ S!ByteOf(0, S!Xor(word, f)) = S!Xor(L, l)
  BY <1>1, ByteOfXor
<1>3. H \in Byte /\ L \in Byte /\ h \in Byte /\ l \in Byte /\ 0 .. 7 \in Byte
  BY ByteOfIs DEF Byte
<1>4. F \in Byte
  BY <1>3, XorByte
<1>5. S!Xor(0 .. 7, S!Xor(H, h)) = S!Xor(F, h)
  BY XorAssociates
<1>6. S!Crc8(word) = S!Shift8(S!Xor(S!Shift8(F), L))
  BY Zenon DEF S!Crc8
<1>7. S!Crc8(S!Xor(word, f)) = S!Shift8(S!Xor(S!Shift8(S!Xor(F, h)), S!Xor(L, l)))
  BY <1>2, <1>5, Zenon DEF S!Crc8
<1>8. S!Sent(word, e).word = S!Xor(word, f)
      /\ S!Sent(word, e).crc = S!Xor(S!Crc8(word), S!ByteOf(0, e))
  BY DEF S!Sent
<1>9. S!Crc8(S!Xor(word, f)) = S!Xor(S!Crc8(word), S!ByteOf(0, e))
  BY <1>8, Zenon DEF S!CheckCRC
<1>. HIDE DEF f, H, L, h, l, F
<1>10. S!Shift8(S!Xor(F, h)) = S!Xor(S!Shift8(F), S!Shift8(h))
  BY <1>3, <1>4, Shift8Is, Zenon
<1>11. S!Xor(S!Xor(S!Shift8(F), S!Shift8(h)), S!Xor(L, l))
         = S!Xor(S!Xor(S!Shift8(F), L), S!Xor(S!Shift8(h), l))
  <2>. PICK a, b : a = S!Shift8(F) /\ b = S!Shift8(h)
    OBVIOUS
  <2>1. S!Xor(S!Xor(a, b), S!Xor(L, l)) = S!Xor(S!Xor(a, L), S!Xor(b, l))
    BY Regroup
  <2>. QED
    BY <2>1, Zenon
<1>12. S!Xor(S!Shift8(F), L) \in Byte /\ S!Xor(S!Shift8(h), l) \in Byte
  BY <1>3, <1>4, Shift8Is, XorByte
<1>13. S!Crc8(S!Xor(word, f)) = S!Xor(S!Crc8(word), S!Shift8(S!Xor(S!Shift8(h), l)))
  <2>. PICK a, b : a = S!Xor(S!Shift8(F), L) /\ b = S!Xor(S!Shift8(h), l)
    OBVIOUS
  <2>1. S!Shift8(S!Xor(a, b)) = S!Xor(S!Shift8(a), S!Shift8(b))
    BY <1>12, Shift8Is
  <2>. QED
    BY <1>6, <1>7, <1>10, <1>11, <2>1, Zenon
<1>14. S!Shift8(S!Xor(S!Shift8(h), l)) = S!ByteOf(0, e)
  BY <1>9, <1>13, XorCancels, Zenon
<1>. QED
  BY <1>14, XorItself, Zenon DEF Syndrome, h, l

\* The lowest bit, shifted 0 to 23 times, and these bytes as numbers.
Table ==
  <<{0}, {1}, {2}, {3}, {4}, {5}, {6}, {7}, {0, 4, 5}, {1, 5, 6},
    {2, 6, 7}, {0, 3, 4, 5, 7}, {0, 1, 6}, {1, 2, 7}, {0, 2, 3, 4, 5},
    {1, 3, 4, 5, 6}, {2, 4, 5, 6, 7}, {0, 3, 4, 6, 7}, {0, 1, 7},
    {0, 1, 2, 4, 5}, {1, 2, 3, 5, 6}, {2, 3, 4, 6, 7}, {0, 3, 7},
    {0, 1, 5}>>
Codes == <<1, 2, 4, 8, 16, 32, 64, 128, 49, 98, 196, 185, 67, 134, 61, 122, 244, 217,
           131, 55, 110, 220, 137, 35>>

LEMMA TableShifts ==
  ASSUME NEW i \in 1 .. 23
  PROVE  S!Shift(Table[i]) = Table[i + 1]
<1>1. CASE i = 1
  BY <1>1, ShiftIs, SameByte DEF Byte, Table
<1>2. CASE i = 2
  BY <1>2, ShiftIs, SameByte DEF Byte, Table
<1>3. CASE i = 3
  BY <1>3, ShiftIs, SameByte DEF Byte, Table
<1>4. CASE i = 4
  BY <1>4, ShiftIs, SameByte DEF Byte, Table
<1>5. CASE i = 5
  BY <1>5, ShiftIs, SameByte DEF Byte, Table
<1>6. CASE i = 6
  BY <1>6, ShiftIs, SameByte DEF Byte, Table
<1>7. CASE i = 7
  BY <1>7, ShiftIs, SameByte DEF Byte, Table
<1>8. CASE i = 8
  BY <1>8, ShiftIs, SameByte DEF Byte, Table
<1>9. CASE i = 9
  BY <1>9, ShiftIs, SameByte DEF Byte, Table
<1>10. CASE i = 10
  BY <1>10, ShiftIs, SameByte DEF Byte, Table
<1>11. CASE i = 11
  BY <1>11, ShiftIs, SameByte DEF Byte, Table
<1>12. CASE i = 12
  BY <1>12, ShiftIs, SameByte DEF Byte, Table
<1>13. CASE i = 13
  BY <1>13, ShiftIs, SameByte DEF Byte, Table
<1>14. CASE i = 14
  BY <1>14, ShiftIs, SameByte DEF Byte, Table
<1>15. CASE i = 15
  BY <1>15, ShiftIs, SameByte DEF Byte, Table
<1>16. CASE i = 16
  BY <1>16, ShiftIs, SameByte DEF Byte, Table
<1>17. CASE i = 17
  BY <1>17, ShiftIs, SameByte DEF Byte, Table
<1>18. CASE i = 18
  BY <1>18, ShiftIs, SameByte DEF Byte, Table
<1>19. CASE i = 19
  BY <1>19, ShiftIs, SameByte DEF Byte, Table
<1>20. CASE i = 20
  BY <1>20, ShiftIs, SameByte DEF Byte, Table
<1>21. CASE i = 21
  BY <1>21, ShiftIs, SameByte DEF Byte, Table
<1>22. CASE i = 22
  BY <1>22, ShiftIs, SameByte DEF Byte, Table
<1>23. CASE i = 23
  BY <1>23, ShiftIs, SameByte DEF Byte, Table
<1>. QED
  BY <1>1, <1>2, <1>3, <1>4, <1>5, <1>6, <1>7, <1>8, <1>9, <1>10, <1>11, <1>12,
     <1>13, <1>14, <1>15, <1>16, <1>17, <1>18, <1>19, <1>20, <1>21, <1>22, <1>23

LEMMA TableShifts8 ==
  ASSUME NEW i \in 1 .. 16
  PROVE  S!Shift8(Table[i]) = Table[i + 8]
<1>1. \A k \in 1 .. 23 : S!Shift(Table[k]) = Table[k + 1]
  BY TableShifts
<1>2. \A k \in 1 .. 22 : S!Shift2(Table[k]) = Table[k + 2]
  <2>1. ASSUME NEW k \in 1 .. 22 PROVE S!Shift2(Table[k]) = Table[(k + 1) + 1]
    <3>1. S!Shift(Table[k]) = Table[k + 1] /\ S!Shift(Table[k + 1]) = Table[(k + 1) + 1]
      BY <1>1
    <3>. QED
      BY <3>1, Zenon DEF S!Shift2
  <2>2. \A k \in 1 .. 22 : (k + 1) + 1 = k + 2
    OBVIOUS
  <2>. QED
    BY <2>1, <2>2, Zenon
<1>3. /\ S!Shift2(Table[i]) = Table[i + 2]
      /\ S!Shift2(Table[i + 2]) = Table[i + 4]
      /\ S!Shift2(Table[i + 4]) = Table[i + 6]
      /\ S!Shift2(Table[i + 6]) = Table[i + 8]
  BY <1>2
<1>. QED
  BY <1>3, Zenon DEF S!Shift8

LEMMA ZeroShifts == S!Shift8({}) = {}
<1>1. S!Shift({}) = {}
  BY DEF S!Shift
<1>. QED
  BY <1>1, Zenon DEF S!Shift8, S!Shift2

LEMMA OneBit ==
  ASSUME NEW k \in 0 .. 7
  PROVE  /\ Syndrome({k}) = {k}
         /\ Syndrome({k + 8}) = S!Shift8({k})
         /\ Syndrome({k + 16}) = S!Shift8(S!Shift8({k}))
<1>1. /\ S!ByteOf(0, {k}) = {k} /\ S!ByteOf(1, {k}) = {} /\ S!ByteOf(2, {k}) = {}
      /\ S!ByteOf(0, {k + 8}) = {} /\ S!ByteOf(1, {k + 8}) = {k} /\ S!ByteOf(2, {k + 8}) = {}
      /\ S!ByteOf(0, {k + 16}) = {} /\ S!ByteOf(1, {k + 16}) = {}
      /\ S!ByteOf(2, {k + 16}) = {k}
  BY DEF S!ByteOf
<1>2. \A x : S!Xor(x, {}) = x /\ S!Xor({}, x) = x
  BY DEF S!Xor
<1>. QED
  BY <1>1, <1>2, ZeroShifts, Zenon DEF Syndrome

LEMMA OneBitIs ==
  ASSUME NEW i \in 0 .. 23
  PROVE  Syndrome({i}) = Table[i + 1]
<1>1. \A k \in 0 .. 7 : Table[k + 1] = {k}
  BY DEF Table
<1>2. \A k \in 0 .. 7 : S!Shift8({k}) = Table[k + 9]
  <2>1. ASSUME NEW k \in 0 .. 7 PROVE S!Shift8({k}) = Table[k + 9]
    <3>1. k + 1 \in 1 .. 16 /\ (k + 1) + 8 = k + 9
      OBVIOUS
    <3>2. S!Shift8(Table[k + 1]) = Table[(k + 1) + 8]
      BY <3>1, TableShifts8
    <3>. QED
      BY <1>1, <3>1, <3>2
  <2>. QED
    BY <2>1
<1>3. \A k \in 0 .. 7 : S!Shift8(S!Shift8({k})) = Table[k + 17]
  BY <1>2, TableShifts8
<1>4. CASE i \in 0 .. 7
  BY <1>1, <1>4, OneBit
<1>5. CASE i \in 8 .. 15
  <2>. PICK k \in 0 .. 7 : i = k + 8 /\ i + 1 = k + 9
    <3>1. i - 8 \in 0 .. 7 /\ i = (i - 8) + 8 /\ i + 1 = (i - 8) + 9
      BY <1>5
    <3>. QED
      BY <3>1
  <2>. QED
    BY <1>2, OneBit
<1>6. CASE i \in 16 .. 23
  <2>. PICK k \in 0 .. 7 : i = k + 16 /\ i + 1 = k + 17
    <3>1. i - 16 \in 0 .. 7 /\ i = (i - 16) + 16 /\ i + 1 = (i - 16) + 17
      BY <1>6
    <3>. QED
      BY <3>1
  <2>. QED
    BY <1>3, OneBit
<1>. QED
  BY <1>4, <1>5, <1>6

LEMMA Code ==
  ASSUME NEW i \in 1 .. 24
  PROVE  S!Number(Table[i]) = Codes[i]
<1>1. CASE i = 1
  BY <1>1, SMT DEF S!Number, Table, Codes
<1>2. CASE i = 2
  BY <1>2, SMT DEF S!Number, Table, Codes
<1>3. CASE i = 3
  BY <1>3, SMT DEF S!Number, Table, Codes
<1>4. CASE i = 4
  BY <1>4, SMT DEF S!Number, Table, Codes
<1>5. CASE i = 5
  BY <1>5, SMT DEF S!Number, Table, Codes
<1>6. CASE i = 6
  BY <1>6, SMT DEF S!Number, Table, Codes
<1>7. CASE i = 7
  BY <1>7, SMT DEF S!Number, Table, Codes
<1>8. CASE i = 8
  BY <1>8, SMT DEF S!Number, Table, Codes
<1>9. CASE i = 9
  BY <1>9, SMT DEF S!Number, Table, Codes
<1>10. CASE i = 10
  BY <1>10, SMT DEF S!Number, Table, Codes
<1>11. CASE i = 11
  BY <1>11, SMT DEF S!Number, Table, Codes
<1>12. CASE i = 12
  BY <1>12, SMT DEF S!Number, Table, Codes
<1>13. CASE i = 13
  BY <1>13, SMT DEF S!Number, Table, Codes
<1>14. CASE i = 14
  BY <1>14, SMT DEF S!Number, Table, Codes
<1>15. CASE i = 15
  BY <1>15, SMT DEF S!Number, Table, Codes
<1>16. CASE i = 16
  BY <1>16, SMT DEF S!Number, Table, Codes
<1>17. CASE i = 17
  BY <1>17, SMT DEF S!Number, Table, Codes
<1>18. CASE i = 18
  BY <1>18, SMT DEF S!Number, Table, Codes
<1>19. CASE i = 19
  BY <1>19, SMT DEF S!Number, Table, Codes
<1>20. CASE i = 20
  BY <1>20, SMT DEF S!Number, Table, Codes
<1>21. CASE i = 21
  BY <1>21, SMT DEF S!Number, Table, Codes
<1>22. CASE i = 22
  BY <1>22, SMT DEF S!Number, Table, Codes
<1>23. CASE i = 23
  BY <1>23, SMT DEF S!Number, Table, Codes
<1>24. CASE i = 24
  BY <1>24, SMT DEF S!Number, Table, Codes
<1>. QED
  BY <1>1, <1>2, <1>3, <1>4, <1>5, <1>6, <1>7, <1>8, <1>9, <1>10, <1>11, <1>12,
     <1>13, <1>14, <1>15, <1>16, <1>17, <1>18, <1>19, <1>20, <1>21, <1>22, <1>23, <1>24

LEMMA CodesDiffer ==
  /\ \A i \in 1 .. 24 : Codes[i] # 0
  /\ \A i, j \in 1 .. 24 : Codes[i] = Codes[j] => i = j
  BY DEF Codes

\* No flip of one or two of the 24 bits is overlooked.
LEMMA FlipsDetected ==
  ASSUME NEW i \in 0 .. 23, NEW j \in 0 .. 23, NEW e \in SUBSET {i, j}, e # {},
         NEW word
  PROVE  ~S!CheckCRC(S!Sent(word, e))
<1>0. SUFFICES Syndrome(e) # {}
  BY ReceivedRight
<1>1. S!Number({}) = 0
  BY DEF S!Number
<1>2. \A k \in 0 .. 23 : Syndrome({k}) # {}
  <2>. SUFFICES ASSUME NEW k \in 0 .. 23, Syndrome({k}) = {} PROVE FALSE
    OBVIOUS
  <2>1. Codes[k + 1] = 0
    <3>1. S!Number(Table[k + 1]) = Codes[k + 1]
      BY Code
    <3>. QED
      BY <1>1, <3>1, OneBitIs
  <2>. QED
    BY <2>1, CodesDiffer
<1>3. CASE e = {i}
  BY <1>2, <1>3
<1>4. CASE e = {j}
  BY <1>2, <1>4
<1>5. CASE e = {i, j} /\ i # j
  <2>1. e = S!Xor({i}, {j})
    BY <1>5 DEF S!Xor
  <2>2. Syndrome(e) = S!Xor(Syndrome({i}), Syndrome({j}))
    BY <2>1, SyndromeAdds
  <2>. SUFFICES ASSUME Syndrome({i}) = Syndrome({j}) PROVE FALSE
    BY <2>2, XorItself
  <2>3. Codes[i + 1] = Codes[j + 1]
    <3>1. S!Number(Table[i + 1]) = Codes[i + 1] /\ S!Number(Table[j + 1]) = Codes[j + 1]
      BY Code
    <3>. QED
      BY <3>1, OneBitIs
  <2>4. i + 1 = j + 1
    BY <2>3, CodesDiffer
  <2>. QED
    BY <1>5, <2>4
<1>. QED
  BY <1>3, <1>4, <1>5

-----------------------------------------------------------------------------
(* The SHT sensors: what reaches the application.                          *)

Delivers == /\ out'.temp # out.temp => ret' = 1 /\ S!TrueTemperature(out'.temp)
            /\ out'.hum # out.hum => ret' = 1 /\ S!TrueHumidity(out'.hum)

LEMMA Intact == \A word : S!Sent(word, {}).word = word
  BY DEF S!Sent, S!Xor

LEMMA NumberInt == \A word : S!Number(word) \in Nat
  BY DEF S!Number

LEMMA ConversionsRound ==
  ASSUME NEW n \in Nat
  PROVE  /\ S!RoundedDown(((n * 17500) \div 65535 - 4500) + 4500, 17500 * n, 65535)
         /\ S!RoundedDown((n * 100) \div 65535, 100 * n, 65535)
<1>1. PICK q, h : q = (n * 17500) \div 65535 /\ h = (n * 100) \div 65535
  OBVIOUS
<1>2. /\ q \in Int /\ 65535 * q <= 17500 * n /\ 17500 * n < 65535 * (q + 1)
      /\ h \in Int /\ 65535 * h <= 100 * n /\ 100 * n < 65535 * (h + 1)
  BY <1>1, SMT
<1>. QED
  BY <1>1, <1>2, SMT DEF S!RoundedDown

LEMMA MeasuresTrue ==
  ASSUME NEW wanted, S!Measures({}, {}, wanted)
  PROVE  Delivers
<1>1. CASE ret' = 1
  <2>1. S!TrueTemperature(S!ConvertTemperature(sensor.temp))
        /\ S!TrueHumidity(S!ConvertHumidity(sensor.hum))
    BY NumberInt, ConversionsRound, SMT
       DEF S!TrueTemperature, S!TrueHumidity, S!ConvertTemperature, S!ConvertHumidity
  <2>2. /\ out'.temp \in {out.temp, S!ConvertTemperature(sensor.temp)}
        /\ out'.hum \in {out.hum, S!ConvertHumidity(sensor.hum)}
    BY Intact DEF S!Measures, S!Fails, S!Returns
  <2>. QED
    BY <1>1, <2>1, <2>2, Zenon DEF Delivers
<1>2. CASE ret' # 1
  BY <1>2 DEF S!Measures, S!Fails, S!Returns, Delivers
<1>. QED
  BY <1>1, <1>2

LEMMA ShtStep ==
  ASSUME S!FewFlips, S!Next
  PROVE  Delivers
<1>1. ASSUME UNCHANGED out PROVE Delivers
  BY <1>1 DEF Delivers
<1>2. CASE S!Fails
  BY <1>1, <1>2 DEF S!Fails, S!Returns
<1>3. ASSUME NEW e \in Errors,
             S!Measures(e, {}, {"temp", "hum"}) \/ S!Measures({}, e, {"temp", "hum"})
      PROVE  Delivers
  <2>1. CASE e = {}
    BY <1>3, <2>1, MeasuresTrue
  <2>2. CASE e # {}
    <3>1. \A word : ~S!CheckCRC(S!Sent(word, e))
      BY <2>2, FlipsDetected DEF S!FewFlips
    <3>2. S!Fails
      BY <1>3, <3>1, Zenon DEF S!Measures, S!BothGood
    <3>. QED
      BY <1>2, <3>2
  <2>. QED
    BY <2>1, <2>2
<1>4. CASE S!PerformMeasurements
  BY <1>2, <1>3, <1>4, MeasuresTrue DEF S!PerformMeasurements
<1>5. CASE S!ReadId \/ S!SensorPresent \/ S!Changes
  BY <1>1, <1>5 DEF S!ReadId, S!SensorPresent, S!Changes, S!Fails, S!Returns
<1>6. ASSUME NEW awake \in BOOLEAN, S!SetAwake(awake) PROVE Delivers
  BY <1>1, <1>6 DEF S!SetAwake, S!Fails, S!Returns
<1>. QED
  BY <1>4, <1>5, <1>6 DEF S!Next

-----------------------------------------------------------------------------
(* The configuration of the radio: LP and Radio are two instances of one   *)
(* module, whose definitions the provers tell apart.                       *)

\* What the two instances call by one name is one and the same: on bytes, ...
LEMMA SameBytes ==
  /\ \A x : Radio!Low(x) = LP!Low(x) /\ Radio!High(x) = LP!High(x)
  /\ \A x, v : Radio!Bit(x, v) <=> LP!Bit(x, v)
  /\ \A x, v : Radio!Clear(x, v) = LP!Clear(x, v)
  /\ \A x, y : Radio!Or(x, y) = LP!Or(x, y)
  /\ \A x, l, h : Radio!Bounded(x, l, h) = LP!Bounded(x, l, h)
<1>. USE DEF Radio!Low, LP!Low, Radio!High, LP!High, Radio!Bit, LP!Bit,
        Radio!Clear, LP!Clear, Radio!Or, LP!Or, Radio!Bounded, LP!Bounded
<1>1. \A x : Radio!Low(x) = LP!Low(x) /\ Radio!High(x) = LP!High(x)
  BY Zenon
<1>2. \A x, v : Radio!Bit(x, v) <=> LP!Bit(x, v)
  BY Zenon
<1>3. \A x, v : Radio!Clear(x, v) = LP!Clear(x, v)
  BY Zenon
<1>4. \A x, y : Radio!Or(x, y) = LP!Or(x, y)
  BY Zenon
<1>5. \A x, l, h : Radio!Bounded(x, l, h) = LP!Bounded(x, l, h)
  BY Zenon
<1>. QED
  BY <1>1, <1>2, <1>3, <1>4, <1>5, Zenon

\* ... for the setters ...
LEMMA SameSetters ==
  ASSUME NEW r
  PROVE  /\ \A f : Radio!SetFrequency(r, f) = LP!SetFrequency(r, f)
         /\ \A bw : Radio!SetBandwidth(r, bw) = LP!SetBandwidth(r, bw)
         /\ \A sf : Radio!SetSpreadingFactor(r, sf) = LP!SetSpreadingFactor(r, sf)
         /\ \A b : Radio!SetHeader(r, b) = LP!SetHeader(r, b)
         /\ \A b : Radio!SetCrc(r, b) = LP!SetCrc(r, b)
         /\ \A n : Radio!SetCodingRate(r, n) = LP!SetCodingRate(r, n)
         /\ \A n : Radio!SetPreamble(r, n) = LP!SetPreamble(r, n)
         /\ \A n : Radio!SetSymbolTimeout(r, n) = LP!SetSymbolTimeout(r, n)
         /\ \A pa, n : Radio!SetPower(r, pa, n) = LP!SetPower(r, pa, n)
<1>1. \A f : Radio!SetFrequency(r, f) = LP!SetFrequency(r, f)
  <2>. TAKE f
  <2>1. Radio!Frf(f) = LP!Frf(f)
    BY DEF Radio!Frf, LP!Frf
  <2>. QED
    BY <2>1 DEF Radio!SetFrequency, LP!SetFrequency
<1>2. \A s : Radio!LowDataRate(s) = LP!LowDataRate(s)
  BY Zenon
     DEF Radio!LowDataRate, LP!LowDataRate, Radio!High, LP!High, Radio!BW_125,
         LP!BW_125
<1>3. \A bw : Radio!SetBandwidth(r, bw) = LP!SetBandwidth(r, bw)
  BY <1>2, Zenon
     DEF Radio!SetBandwidth, LP!SetBandwidth, Radio!WithBandwidth,
         LP!WithBandwidth, Radio!Low, LP!Low
<1>4. \A sf : Radio!SetSpreadingFactor(r, sf) = LP!SetSpreadingFactor(r, sf)
  <2>. TAKE sf
  <2>1. PICK k : k = Radio!Bounded(sf, 6, 12)
    BY Zenon
  <2>2. k = LP!Bounded(sf, 6, 12)
    BY <2>1, SameBytes, Zenon
  <2>3. Radio!Low(r.MC2) = LP!Low(r.MC2)
    BY SameBytes, Zenon
  <2>4. PICK s : s = [r EXCEPT !.OPTIMIZE  = IF k = 6 THEN 197 ELSE 195,
                               !.THRESHOLD = IF k = 6 THEN 12 ELSE 10,
                               !.MC2 = Radio!Low(@) + 16 * k]
    BY Zenon
  <2>5. Radio!SetSpreadingFactor(r, sf) = Radio!LowDataRate(s)
    BY <2>1, <2>4, Zenon DEF Radio!SetSpreadingFactor
  <2>6. LP!SetSpreadingFactor(r, sf) = LP!LowDataRate(s)
    BY <2>2, <2>3, <2>4, Zenon DEF LP!SetSpreadingFactor
  <2>. QED
    BY <1>2, <2>5, <2>6, Zenon
<1>5. \A b : Radio!SetHeader(r, b) = LP!SetHeader(r, b)
  BY Zenon
     DEF Radio!SetHeader, LP!SetHeader, Radio!Or, LP!Or, Radio!Clear, LP!Clear,
         Radio!Bit, LP!Bit
<1>6. \A b : Radio!SetCrc(r, b) = LP!SetCrc(r, b)
  BY Zenon
     DEF Radio!SetCrc, LP!SetCrc, Radio!Or, LP!Or, Radio!Clear, LP!Clear,
         Radio!Bit, LP!Bit
<1>7. \A n : Radio!SetCodingRate(r, n) = LP!SetCodingRate(r, n)
  BY Zenon
     DEF Radio!SetCodingRate, LP!SetCodingRate, Radio!Or, LP!Or, Radio!Bit,
         LP!Bit
<1>8. \A n : Radio!SetPreamble(r, n) = LP!SetPreamble(r, n)
  BY Zenon DEF Radio!SetPreamble, LP!SetPreamble, Radio!Low, LP!Low
<1>9. \A n : Radio!SetSymbolTimeout(r, n) = LP!SetSymbolTimeout(r, n)
  BY Zenon
     DEF Radio!SetSymbolTimeout, LP!SetSymbolTimeout, Radio!Symbols,
         LP!Symbols, Radio!Low, LP!Low, Radio!Or, LP!Or, Radio!Bit, LP!Bit
<1>10. \A n : Radio!Ocp(n) = LP!Ocp(n)
  BY Zenon
     DEF Radio!Ocp, LP!Ocp, Radio!Bounded, LP!Bounded, Radio!Or, LP!Or,
         Radio!Bit, LP!Bit
<1>11. \A pa, n : Radio!SetPower(r, pa, n) = LP!SetPower(r, pa, n)
  <2>. TAKE pa, n
  <2>1. /\ Radio!Bounded(n, 0, 15) = LP!Bounded(n, 0, 15)
        /\ Radio!Bounded(n, 2, 20) = LP!Bounded(n, 2, 20)
    BY SameBytes, Zenon
  <2>2. \A x, y : Radio!Or(x, y) = LP!Or(x, y)
    BY SameBytes, Zenon
  <2>3. CASE pa = 0
    BY <2>1, <2>2, <2>3, Zenon DEF Radio!SetPower, LP!SetPower, Radio!RFO, LP!RFO
  <2>4. CASE pa # 0
    BY <1>10, <2>1, <2>2, <2>4, Zenon
       DEF Radio!SetPower, LP!SetPower, Radio!RFO, LP!RFO
  <2>. QED
    BY <2>3, <2>4
<1>. QED
  BY <1>1, <1>3, <1>4, <1>5, <1>6, <1>7, <1>8, <1>9, <1>11, Zenon

\* ... and for the calls.
LEMMA SameCalls ==
  ASSUME Radio!Next
  PROVE  LP!Next
<1>1. \A r, w : Radio!Call(r, w) => LP!Call(r, w)
  BY Zenon DEF Radio!Call, LP!Call
<1>2. /\ \A f : Radio!CallFrequency(f) => LP!CallFrequency(f)
      /\ \A bw : Radio!CallBandwidth(bw) => LP!CallBandwidth(bw)
      /\ \A b : Radio!CallHeader(b) => LP!CallHeader(b)
      /\ \A b : Radio!CallCrc(b) => LP!CallCrc(b)
      /\ \A n : Radio!CallPreamble(n) => LP!CallPreamble(n)
      /\ \A n : Radio!CallCodingRate(n) => LP!CallCodingRate(n)
      /\ \A n : Radio!CallDio(n) => LP!CallDio(n)
      /\ \A n : Radio!CallPower(n) => LP!CallPower(n)
      /\ \A pa : Radio!SelectOutput(pa) => LP!SelectOutput(pa)
  <2>1. \A x : Radio!CallFrequency(x) => LP!CallFrequency(x)
    BY <1>1, SameSetters, Zenon DEF Radio!CallFrequency, LP!CallFrequency
  <2>2. \A x : Radio!CallBandwidth(x) => LP!CallBandwidth(x)
    BY <1>1, SameSetters, Zenon DEF Radio!CallBandwidth, LP!CallBandwidth
  <2>3. \A x : Radio!CallHeader(x) => LP!CallHeader(x)
    BY <1>1, SameSetters, Zenon DEF Radio!CallHeader, LP!CallHeader
  <2>4. \A x : Radio!CallCrc(x) => LP!CallCrc(x)
    BY <1>1, SameSetters, Zenon DEF Radio!CallCrc, LP!CallCrc
  <2>5. \A x : Radio!CallPreamble(x) => LP!CallPreamble(x)
    BY <1>1, SameSetters, Zenon DEF Radio!CallPreamble, LP!CallPreamble
  <2>6. \A x : Radio!CallCodingRate(x) => LP!CallCodingRate(x)
    BY <1>1, SameSetters, Zenon DEF Radio!CallCodingRate, LP!CallCodingRate
  <2>7. \A x : Radio!CallDio(x) => LP!CallDio(x)
    BY <1>1, Zenon DEF Radio!CallDio, LP!CallDio
  <2>8. \A x : Radio!CallPower(x) => LP!CallPower(x)
    BY <1>1, SameSetters, Zenon DEF Radio!CallPower, LP!CallPower
  <2>9. \A x : Radio!SelectOutput(x) => LP!SelectOutput(x)
    BY Zenon DEF Radio!SelectOutput, LP!SelectOutput
  <2>. QED
    BY <2>1, <2>2, <2>3, <2>4, <2>5, <2>6, <2>7, <2>8, <2>9, Zenon
<1>3. \A sf : Radio!CallSpreadingFactor(sf) => LP!CallSpreadingFactor(sf)
  BY <1>1, SameSetters, SameBytes, Zenon
     DEF Radio!CallSpreadingFactor, LP!CallSpreadingFactor
<1>4. \A n : Radio!CallSymbolTimeout(n) => LP!CallSymbolTimeout(n)
  <2>1. \A n : Radio!Symbols(n) = LP!Symbols(n)
    BY DEF Radio!Symbols, LP!Symbols
  <2>2. SUFFICES ASSUME NEW n, Radio!CallSymbolTimeout(n) PROVE LP!CallSymbolTimeout(n)
    BY Zenon
  <2>3. PICK w : w = [asked EXCEPT !.timeout = Radio!Symbols(n), !.long = @ \/ n > 1023]
    BY Zenon
  <2>4. w = [asked EXCEPT !.timeout = LP!Symbols(n), !.long = @ \/ n > 1023]
    BY <2>1, <2>3, Zenon
  <2>5. Radio!Call(Radio!SetSymbolTimeout(reg, n), w)
    BY <2>2, <2>3, Zenon DEF Radio!CallSymbolTimeout
  <2>6. LP!Call(LP!SetSymbolTimeout(reg, n), w)
    BY <1>1, <2>5, SameSetters, Zenon
  <2>. QED
    BY <2>4, <2>6, Zenon DEF LP!CallSymbolTimeout
<1>5. \A f : Radio!InitRegisters(reg, f) = LP!InitRegisters(reg, f)
  <2>. TAKE f
  <2>1. PICK a : a = LP!SetFrequency(reg, f)
    BY Zenon
  <2>2. PICK b : b = LP!SetSpreadingFactor(a, 7)
    BY Zenon
  <2>3. PICK c : c = LP!SetPreamble(b, 10)
    BY Zenon
  <2>4. PICK d : d = LP!SetHeader(c, FALSE)
    BY Zenon
  <2>5. PICK e : e = [d EXCEPT !.LNA = LP!Or(@, 3), !.MC3 = 4]
    BY Zenon
  <2>6. e = [d EXCEPT !.LNA = Radio!Or(@, 3), !.MC3 = 4]
    BY <2>5, SameBytes, Zenon
  <2>7. Radio!BOOST = LP!BOOST
    BY DEF Radio!BOOST, LP!BOOST
  <2>8. LP!InitRegisters(reg, f) = LP!SetPower(e, LP!BOOST, 17)
    BY <2>1, <2>2, <2>3, <2>4, <2>5, Zenon DEF LP!InitRegisters
  <2>9. a = Radio!SetFrequency(reg, f) /\ b = Radio!SetSpreadingFactor(a, 7)
    BY <2>1, <2>2, SameSetters, Zenon
  <2>10. c = Radio!SetPreamble(b, 10) /\ d = Radio!SetHeader(c, FALSE)
    BY <2>3, <2>4, SameSetters, Zenon
  <2>11. Radio!InitRegisters(reg, f) = Radio!SetPower(e, Radio!BOOST, 17)
    BY <2>6, <2>9, <2>10, Zenon DEF Radio!InitRegisters
  <2>. QED
    BY <2>7, <2>8, <2>11, SameSetters, Zenon
<1>6. \A f, v : Radio!InitRadio(f, v) => LP!InitRadio(f, v)
  BY <1>5, Zenon
     DEF Radio!InitRadio, LP!InitRadio, Radio!BOOST, LP!BOOST,
         Radio!DefaultPower, LP!DefaultPower
<1>. QED
  BY <1>2, <1>3, <1>4, <1>6, Zenon
     DEF Radio!Next, LP!Next, Radio!RFO, LP!RFO, Radio!BOOST, LP!BOOST

\* So the invariant of LoraConfigProofs is one of the composition.
LEMMA RadioStep ==
  ASSUME LP!IInv, [Radio!Next]_(Radio!vars)
  PROVE  LP!IInv'
<1>1. [LP!Next]_(LP!vars)
  BY SameCalls DEF Radio!vars, LP!vars
<1>2. LP!Suitable
  BY RegistersAssumption DEF Radio!Suitable, LP!Suitable
<1>. QED
  BY <1>1, <1>2, LP!StepInv

LEMMA RadioInit == Radio!Init => LP!IInv
<1>1. Radio!Init => LP!Init
  BY DEF Radio!Init, LP!Init, Radio!Reset, LP!Reset, Radio!BW_125, LP!BW_125,
         Radio!RFO, LP!RFO, Radio!BOOST, LP!BOOST
<1>. QED
  BY <1>1, LP!InitInv

LEMMA RadioHolds ==
  ASSUME LP!IInv
  PROVE  Radio!SettingsHold /\ Radio!ModemConsistent /\ Radio!PowerConsistent
<1>1. LP!SettingsHold /\ LP!ModemConsistent /\ LP!PowerConsistent
  BY LP!SettingsFromInv, LP!ModemFromInv, LP!PowerFromInv
<1>2. Radio!SettingsHold
  <2>1. Radio!Frf(asked.frequency) = LP!Frf(asked.frequency)
    BY DEF Radio!Frf, LP!Frf
  <2>2. Radio!BandwidthIs(reg.MC1, asked.bw, asked.rates)
          <=> LP!BandwidthIs(reg.MC1, asked.bw, asked.rates)
    BY SameBytes, Zenon DEF Radio!BandwidthIs, LP!BandwidthIs
  <2>. QED
    BY <1>1, <2>1, <2>2, SameBytes, SMT DEF Radio!SettingsHold, LP!SettingsHold
<1>3. Radio!ModemConsistent
  BY <1>1, SameBytes, SMT
     DEF Radio!ModemConsistent, LP!ModemConsistent, Radio!BW_125, LP!BW_125
<1>4. Radio!PowerConsistent
  <2>1. Radio!Dbm = LP!Dbm /\ Radio!CurrentLimit = LP!CurrentLimit
    BY DEF Radio!Dbm, LP!Dbm, Radio!CurrentLimit, LP!CurrentLimit, Radio!OcpTrim, LP!OcpTrim
  <2>. QED
    BY <1>1, <2>1, SameBytes, SMT
       DEF Radio!PowerConsistent, LP!PowerConsistent, Radio!RFO, LP!RFO
<1>. QED
  BY <1>2, <1>3, <1>4

-----------------------------------------------------------------------------
(* The theorems: a step of the composition is a step of one driver, or it  *)
(* leaves that driver alone.                                               *)

LEMMA OneDriver ==
  ASSUME [Next]_vars
  PROVE  /\ [S!Next]_(S!vars) /\ [T!Next]_(T!vars)
         /\ [V!Next]_(V!vars) /\ [W!Next]_(W!vars)
         /\ [Radio!Next]_(Radio!vars)
<1>1. /\ [S!Next]_sht /\ [T!Next]_si /\ [V!Next]_veml /\ [W!Next]_wiz
      /\ [Radio!Next]_sx
  BY Zenon DEF Next, vars, ShtCall, Si7021Call, VemlCall, WizCall, LoraCall
<1>. QED
  BY <1>1, Zenon DEF sht, si, veml, wiz, sx, S!vars, T!vars, V!vars, W!vars,
                     Radio!vars

\* A result of the SI7021 that is not the failure code is the measurement the
\* call reports, less than one unit off, whatever codes of 16 bits the sensor
\* answers and whatever transfers fail; a temperature is in the sensor's range,
\* and a humidity below 0 % is a number near 2^32 that is right when read as
\* signed (_read_and_convert_temperature :61, si7021_measure_humidity :119).
THEOREM SiReadings == Spec => []ReadingsTrue
<1>1. Init => SiInv
  BY SiInit DEF Init
<1>2. SiInv /\ [Next]_vars => SiInv'
  BY OneDriver, SiStep
<1>3. SiInv => ReadingsTrue
  BY ReadingIs, Zenon DEF SiInv, ReadingsTrue
<1>. QED
  BY <1>1, <1>2, <1>3, PTL DEF Spec

\* ALS_CONF holds the gain last asked for, the integration time and the
\* shutdown asked for since then, and nothing else, whatever integration times
\* and gains there are, unless a read failed unnoticed and 0 was written back
\* (veml6030_set_als_integration_time :82, veml6030_set_als_gain :102).
THEOREM VemlSettings == Spec => []VemlSettingsHold
<1>1. Init => VemlInv
  BY VemlInit DEF Init
<1>2. VemlInv /\ [Next]_vars => VemlInv'
  BY OneDriver, VemlStep
<1>3. VemlInv => VemlSettingsHold
  BY VemlInvHolds DEF VemlSettingsHold
<1>. QED
  BY <1>1, <1>2, <1>3, PTL DEF Spec

\* The W5500 is set as the calls that returned WIZ5500_OK asked, for every
\* address, mask and set of sockets, until the driver hides a failure
\* (wiz5500_socket_enable_interrupt :582).
THEOREM WizSettings == Spec => []WizSettingsHold
<1>1. Init => WizInv
  BY WizInit DEF Init
<1>2. WizInv /\ [Next]_vars => WizInv'
  BY OneDriver, WizStep
<1>3. WizInv => WizSettingsHold
  BY WizInvHolds DEF WizSettingsHold
<1>. QED
  BY <1>1, <1>2, <1>3, PTL DEF Spec

\* The application's variables change only to what an SHTC3 or SHT3x measures,
\* and never in a call that fails: no flip of one or two of the 24 bits of any
\* word gets past the CRC (_read_values :94 of shtc3.c).
THEOREM ShtOutputs == ASSUME S!FewFlips PROVE Spec => OutputsTrue
<1>1. ASSUME [Next]_vars PROVE [Delivers]_(S!vars)
  BY <1>1, OneDriver, ShtStep
<1>. QED
  BY <1>1, PTL DEF Spec, OutputsTrue, S!OutputsTrue, Delivers

\* The settings that share registers do not disturb one another, except where
\* the code does and then exactly so, for every frequency below 1024 MHz,
\* bandwidth, spreading factor, power, preamble, symbol timeout and coding rate,
\* and every history of calls and restarts (lora_set_signal_bandwidth :362).
THEOREM ConfigSettings == Spec => []SettingsHold
<1>1. Init => LP!IInv
  BY RadioInit DEF Init
<1>2. LP!IInv /\ [Next]_vars => LP!IInv'
  BY OneDriver, RadioStep
<1>3. LP!IInv => SettingsHold
  BY RadioHolds DEF SettingsHold
<1>. QED
  BY <1>1, <1>2, <1>3, PTL DEF Spec

\* Low data rate optimization and the detection registers fit the bandwidth
\* and the spreading factor in use (:203, :711), unless a coding rate changed
\* the bandwidth.
THEOREM ConfigModem == Spec => []ModemConsistent
<1>1. Init => LP!IInv
  BY RadioInit DEF Init
<1>2. LP!IInv /\ [Next]_vars => LP!IInv'
  BY OneDriver, RadioStep
<1>3. LP!IInv => ModemConsistent
  BY RadioHolds DEF ModemConsistent
<1>. QED
  BY <1>1, <1>2, <1>3, PTL DEF Spec

\* The radio sends with the power last asked for, within its current limit,
\* for every level and output and in every order (:301).
THEOREM ConfigPower == Spec => []PowerConsistent
<1>1. Init => LP!IInv
  BY RadioInit DEF Init
<1>2. LP!IInv /\ [Next]_vars => LP!IInv'
  BY OneDriver, RadioStep
<1>3. LP!IInv => PowerConsistent
  BY RadioHolds DEF PowerConsistent
<1>. QED
  BY <1>1, <1>2, <1>3, PTL DEF Spec
=============================================================================
