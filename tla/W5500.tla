-------------------------------- MODULE W5500 --------------------------------
(***************************************************************************)
(* One UDP socket of the WIZnet W5500 as wiz5500.c uses it: its registers, *)
(* its transmit and receive memories with their 16-bit pointers, and what  *)
(* the chip does on its own: it ends a transmission and it stores a        *)
(* datagram behind an 8-byte header.  The chip is not part of the          *)
(* repository, so this module is external.  A byte is <<p, i>>, "byte i of *)
(* payload p"; the bytes of a header have negative numbers.                *)
(***************************************************************************)
EXTENDS Integers, Sequences

CONSTANTS
  Messages,    \* payloads the application sends
  Packets,     \* payloads other hosts send to the socket
  NoPayload,   \* not a payload
  Length,      \* number of bytes of each payload
  Dest,        \* <<ip, port>> the application sends each message to
  TxSize, RxSize,  \* bytes of the two memories
  PtrSize      \* pointers and sizes are modulo PtrSize, 2^16 on the chip

Payloads   == Messages \cup Packets
HeaderSize == 8
NoDest     == <<"none", "none">>

ASSUME ChipAssumption ==
  /\ NoPayload \notin Payloads /\ Messages \cap Packets = {}
  /\ Length \in [Payloads -> Nat \ {0}]
  /\ \A m \in Messages : Dest[m] = <<Dest[m][1], Dest[m][2]>>
  /\ TxSize \in Nat \ {0} /\ RxSize \in Nat \ {0} /\ PtrSize \in Nat
  /\ PtrSize > TxSize /\ PtrSize % TxSize = 0
  /\ PtrSize > RxSize /\ PtrSize % RxSize = 0

VARIABLE sock

Ints  == {"RECV", "TIMEOUT", "SENDOK"}
Ptr   == 0 .. PtrSize - 1
Blank == <<NoPayload, 0>>
Bytes(p)  == [i \in 1 .. Length[p] |-> <<p, i - 1>>]
Stored(p) == [i \in 1 .. HeaderSize + Length[p] |-> <<p, i - 1 - HeaderSize>>]

\* The memories are circular; a pointer's low bits select the byte.
Put(mem, at, data) ==
  [a \in DOMAIN mem |-> LET i == (a - at) % Len(mem)
                        IN  IF i < Len(data) THEN data[i + 1] ELSE mem[a]]
Get(mem, at, n) == [i \in 1 .. n |-> mem[((at + i - 2) % Len(mem)) + 1]]

Blanks(n) == [a \in 1 .. n |-> Blank]
NoSend    == [dst |-> NoDest, data |-> <<>>, on |-> FALSE]

ChipInit ==
  sock = [mode |-> "none", open |-> FALSE, ir |-> {},
          ip   |-> "none", dport |-> "none", sending |-> NoSend,
          tx   |-> Blanks(TxSize), txRd |-> 0, txWr |-> 0,
          rx   |-> Blanks(RxSize), rxRd |-> 0, rxWr |-> 0, rxDone |-> 0]

TxFree(c)   == TxSize - ((c.txWr - c.txRd) % PtrSize)
Received(c) == (c.rxWr - c.rxDone) % PtrSize

-----------------------------------------------------------------------------
(* Commands.                                                               *)

OpenCommand(c) ==
  IF c.mode = "udp"
  THEN [c EXCEPT !.open = TRUE, !.sending = NoSend, !.ir = {},
                 !.txRd = 0, !.txWr = 0, !.rxRd = 0, !.rxWr = 0, !.rxDone = 0]
  ELSE c

\* What lies between the transmit pointers leaves as one datagram; a SEND
\* during a transmission is not taken.
SendCommand(c) ==
  IF c.sending.on THEN c
  ELSE [c EXCEPT !.sending =
          [dst  |-> <<c.ip, c.dport>>, on |-> TRUE,
           data |-> Get(c.tx, c.txRd + 1, (c.txWr - c.txRd) % PtrSize)]]

\* The memory up to the read pointer is free again.
RecvCommand(c) == [c EXCEPT !.rxDone = c.rxRd]

-----------------------------------------------------------------------------
(* What the chip does on its own.                                          *)

\* The datagram is out, or the destination does not answer ARP.
SendEnds(flag) ==
  /\ sock.sending.on
  /\ sock' = [sock EXCEPT !.sending = NoSend, !.ir = @ \cup {flag},
                !.txRd = (@ + Len(sock.sending.data)) % PtrSize]

Arrives(p) ==
  /\ sock.open
  /\ RxSize - Received(sock) >= HeaderSize + Length[p]
  /\ sock' = [sock EXCEPT !.rx = Put(@, sock.rxWr + 1, Stored(p)),
                          !.rxWr = (@ + HeaderSize + Length[p]) % PtrSize,
                          !.ir = @ \cup {"RECV"}]

Byte == {Blank} \cup {<<p, i>> : p \in Payloads, i \in -HeaderSize .. RxSize}

ChipType ==
  /\ sock.ir \subseteq Ints /\ sock.open \in BOOLEAN
  /\ {sock.txRd, sock.txWr, sock.rxRd, sock.rxWr, sock.rxDone} \subseteq Ptr
  /\ sock.tx \in [1 .. TxSize -> Byte] /\ sock.rx \in [1 .. RxSize -> Byte]
=============================================================================
