------------------------------ MODULE WizCommon ------------------------------
(***************************************************************************)
(* wiz5500.c: the calls on the chip's common registers and interrupt masks.*)
(* Any SPI transaction may fail: a write then changes nothing, a read      *)
(* gives something else.  A register of eight bits is the set of its bits. *)
(* Numbers of 32 and 48 bits are tuples of bytes, highest first; a         *)
(* register holds them in the order they are sent.                         *)
(***************************************************************************)
EXTENDS Integers

CONSTANTS
  Sockets,       \* the sockets whose interrupts are enabled
  Ips, Macs,     \* numbers the application sets
  LinkModes,     \* WIZ5500_LINK_* arguments of wiz5500_set_link
  Masks,         \* interrupts a socket is to have
  Versions       \* what the chip answers as its version

WizAssumption ==
  /\ Ips \subseteq [1 .. 4 -> 0 .. 255] /\ Macs \subseteq [1 .. 6 -> 0 .. 255]
  /\ Sockets \subseteq 0 .. 7
  /\ LinkModes \cup Masks \subseteq SUBSET (0 .. 7)

VARIABLES
  chip,      \* the registers
  set,       \* what the calls that returned OK asked for
  got,       \* the last call that returns a value, and that value
  trusted    \* no transaction whose result is dropped has failed
vars == <<chip, set, got, trusted>>

PingBlock == {4}  \* COMMON_MODE_PING

Init ==
  /\ chip = [mode |-> {}, phy |-> {3, 4, 5, 7}, link |-> {}, mask |-> {},
             ints |-> [s \in Sockets |-> {}],
             ip |-> <<0, 0, 0, 0>>, mac |-> <<0, 0, 0, 0, 0, 0>>]
  /\ set = [ping |-> TRUE, sockets |-> {}, ints |-> [s \in Sockets |-> {}],
            ip |-> <<0, 0, 0, 0>>, mac |-> <<0, 0, 0, 0, 0, 0>>, phy |-> {3, 4, 5, 7}]
  /\ got = [op |-> "none", value |-> 0] /\ trusted = TRUE

\* A write, and what the application knows when it is told of success.
Writes(after, known) ==
  \/ chip' = after /\ set' = known
  \/ UNCHANGED <<chip, set>>
Call(op, value) == got' = [op |-> op, value |-> value]
Told == UNCHANGED trusted

\* What a read gives, in the end or when it fails.
ReadTransaction(value, otherwise) ==
  {[value |-> value, ok |-> TRUE], [value |-> otherwise, ok |-> FALSE]}
Trust(read) == trusted' = (trusted /\ read.ok)

\* HTONL on a little-endian machine, and a 32-bit number in its memory
Turned(n) == [i \in 1 .. 4 |-> n[5 - i]]
HTONL(n)  == Turned(n)
Memory(n) == Turned(n)
\* Mutant of Outgoing: the number leaves in the machine's order.
Unswapped(n) == Memory(n)
Outgoing(n)  == Memory(HTONL(n))

SetSourceIp(ip) ==
  /\ Writes([chip EXCEPT !.ip = Outgoing(ip)], [set EXCEPT !.ip = ip])
  /\ Call("set_ip", 0) /\ Told
\* A read that fails gives what was sent to ask: the register's address.
GetSourceIp ==
  /\ \E r \in ReadTransaction(HTONL(Memory(chip.ip)), <<0, 15, 3, 0>>) :
       Call("ip", r.value) /\ Trust(r)
  /\ UNCHANGED <<chip, set>>
SetMac(mac) ==
  /\ Writes([chip EXCEPT !.mac = mac], [set EXCEPT !.mac = mac])
  /\ Call("set_mac", 0) /\ Told
GetMac ==
  /\ \E r \in ReadTransaction(chip.mac, <<0, 9, 0, 0, 0, 0>>) :
       Call("mac", r.value) /\ Trust(r)
  /\ UNCHANGED <<chip, set>>

SetPing(on) ==
  LET Changed(mode) == IF on THEN mode \ PingBlock ELSE mode \cup PingBlock IN
  /\ \E r \in ReadTransaction(chip.mode, {}) :
       /\ Writes([chip EXCEPT !.mode = Changed(r.value)], [set EXCEPT !.ping = on])
       /\ Trust(r)
  /\ Call("set_ping", 0)

SetLink(mode) ==
  LET phy == {7} \cup mode \cup {6} IN
  /\ Writes([chip EXCEPT !.phy = phy], [set EXCEPT !.phy = phy])
  /\ Call("set_link", 0) /\ Told

\* The low bits of the same register tell of the link.
LinkChanges == \E link \in {{}, 0 .. 2} : /\ chip' = [chip EXCEPT !.link = link]
                                   /\ Call("none", 0) /\ Told /\ UNCHANGED set

\* wiz5500_link_status, wiz5500_is_link_full_duplex, wiz5500_is_link_speed_100mb
LinkQuery(op, bit) ==
  /\ \E r \in ReadTransaction(chip.phy \cup chip.link, {}) :
       Call(op, bit \in r.value) /\ Trust(r)
  /\ UNCHANGED <<chip, set>>

\* wiz5500_init, wiz5500_version
InitDriver ==
  /\ \E version \in Versions \cup {0} :
       Call("init", IF version = 4 THEN 1 ELSE 0)
  /\ Told /\ UNCHANGED <<chip, set>>

\* Nobody looks at the three results, and the call returns OK.
\* Mutant of MaskWith: the other sockets' bits are lost.
MaskOnly(mask, s) == {s}
MaskWith(mask, s) == mask \cup {s}
EnableInterrupt(s, ints) ==
  /\ \E ok \in [1 .. 3 -> BOOLEAN] :
       LET mask == MaskWith(IF ok[1] THEN chip.mask ELSE {}, s) IN
       /\ chip' = [chip EXCEPT !.mask = IF ok[2] THEN mask ELSE @,
                               !.ints[s] = IF ok[3] THEN ints ELSE @]
       /\ trusted' = (trusted /\ \A i \in 1 .. 3 : ok[i])
  /\ set' = [set EXCEPT !.sockets = @ \cup {s}, !.ints[s] = ints]
  /\ Call("enable", 0)

Next ==
  \/ \E ip \in Ips : SetSourceIp(ip)
  \/ \E mac \in Macs : SetMac(mac)
  \/ GetSourceIp \/ GetMac \/ InitDriver \/ LinkChanges
  \/ \E on \in BOOLEAN : SetPing(on)
  \/ \E mode \in LinkModes : SetLink(mode)
  \/ LinkQuery("link", 0) \/ LinkQuery("duplex", 2) \/ LinkQuery("speed", 1)
  \/ \E s \in Sockets, ints \in Masks : EnableInterrupt(s, ints)

-----------------------------------------------------------------------------
\* After any history of calls the chip is set as the calls that returned OK
\* asked, each without disturbing the others: addresses in network order, the
\* interrupts of exactly the enabled sockets; only a failure the driver hides
\* (read-modify-write :252, :260, :588) can make it differ.
WizSettingsHold ==
  trusted =>
    /\ chip.ip = set.ip /\ chip.mac = set.mac
    /\ set.ping <=> chip.mode \cap PingBlock = {}
    /\ \A s \in Sockets : /\ s \in set.sockets <=> s \in chip.mask
                          /\ chip.ints[s] = set.ints[s]
    /\ chip.phy = set.phy
    /\ got.op = "ip" => got.value = set.ip
    /\ got.op = "mac" => got.value = set.mac
=============================================================================
