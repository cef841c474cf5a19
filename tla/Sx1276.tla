------------------------------- MODULE Sx1276 -------------------------------
(***************************************************************************)
(* The SX1276 radio as the driver in lora_sx1276.c uses it: the registers  *)
(* and the data FIFO that the driver reads and writes over SPI, and the    *)
(* three things the radio does on its own, at any moment, between two SPI  *)
(* transactions: it finishes a transmission, it stores a packet from the   *)
(* air, it gives up a single reception.  The radio is not part of the      *)
(* repository, so this module is external.                                 *)
(*                                                                         *)
(* A byte of the FIFO is <<p, i>>, "byte i of payload p": enough to tell a *)
(* packet from a torn or foreign one.  Addresses wrap at FifoSize (256 on  *)
(* the chip).                                                              *)
(***************************************************************************)
EXTENDS Integers

CONSTANTS
  Messages,    \* payloads the application sends
  Packets,     \* payloads other stations put on the air
  NoPayload,   \* not a payload: FIFO bytes nobody has written, no message
  Length,      \* number of bytes of each payload
  FifoSize,    \* bytes of the data FIFO
  TxBaseAddr,  \* lora->tx_base_addr
  RxBaseAddr   \* lora->rx_base_addr

Payloads == Messages \cup Packets
Addr     == 0 .. FifoSize - 1

ASSUME FifoAssumption ==
  /\ FifoSize \in Nat \ {0}
  /\ TxBaseAddr \in Addr /\ RxBaseAddr \in Addr
  /\ NoPayload \notin Payloads
  /\ Messages \cap Packets = {}
  /\ Length \in [Payloads -> 1 .. FifoSize]

VARIABLE chip

Modes   == {"SLEEP", "STDBY", "TX", "RX_CONTINUOUS", "RX_SINGLE"}
RxModes == {"RX_CONTINUOUS", "RX_SINGLE"}

\* IRQ_FLAGS_RX_ALL (0xf0), and TX_DONE.
RX_ALL   == {"RX_TIMEOUT", "RX_DONE", "PAYLOAD_CRC_ERROR", "VALID_HEADER"}
IrqFlags == RX_ALL \cup {"TX_DONE"}

\* What reception can leave in the flags, and what the driver should call it.
Outcomes ==
  [good   |-> {"RX_DONE", "VALID_HEADER"},
   crc    |-> {"RX_DONE", "VALID_HEADER", "PAYLOAD_CRC_ERROR"},
   header |-> {"RX_DONE"}]

Blank    == <<NoPayload, 0>>
Byte     == {Blank} \cup (Payloads \X Addr)
Bytes(p) == [i \in 0 .. Length[p] - 1 |-> <<p, i>>]

\* n bytes of payload p stored from address at, and n bytes fetched from it.
Store(fifo, at, p, n) ==
  [a \in Addr |-> LET i == (a - at) % FifoSize
                  IN  IF i < n THEN <<p, i>> ELSE fifo[a]]
Fetch(fifo, at, n) == [i \in 0 .. n - 1 |-> fifo[(at + i) % FifoSize]]

\* The frame a transmission started now would put on the air.
Frame(c) == Fetch(c.fifo, c.txBase, c.payLen)

-----------------------------------------------------------------------------
(* What one SPI transaction does to the radio.                             *)

SetMode(c, m) ==
  [c EXCEPT !.mode   = m,
            !.rxByte = IF m \in RxModes THEN c.rxBase ELSE @]

ClearIrq(c, flags) == [c EXCEPT !.irq = @ \ flags]

\* The FIFO is not accessible in SLEEP.
PutFifo(c, p, n) ==
  IF c.mode = "SLEEP" THEN c
  ELSE [c EXCEPT !.fifo    = Store(@, c.fifoPtr, p, n),
                 !.fifoPtr = (@ + n) % FifoSize]

GotFifo(c, n) == [c EXCEPT !.fifoPtr = (@ + n) % FifoSize]

FifoBytes(c, n) ==
  IF c.mode = "SLEEP" THEN [i \in 0 .. n - 1 |-> Blank]
  ELSE Fetch(c.fifo, c.fifoPtr, n)

-----------------------------------------------------------------------------
(* What the radio does on its own.                                         *)

\* State the driver finds once lora_init() has returned.
ChipInit ==
  chip = [mode    |-> "STDBY", irq    |-> {},
          fifo    |-> [a \in Addr |-> Blank], fifoPtr |-> 0,
          txBase  |-> 0, rxBase |-> 0, rxByte |-> 0, rxCur |-> 0,
          rxNb    |-> 0, payLen |-> 1]

TransmitDone ==
  /\ chip.mode = "TX"
  /\ chip' = [chip EXCEPT !.mode = "STDBY", !.irq = @ \cup {"TX_DONE"}]

\* A packet arrives.  Single reception ends with it, continuous goes on.
Arrive(p, outcome) ==
  /\ chip.mode \in RxModes
  /\ chip' = [chip EXCEPT
       !.fifo   = Store(@, chip.rxByte, p, Length[p]),
       !.rxCur  = chip.rxByte,
       !.rxNb   = Length[p],
       !.rxByte = (@ + Length[p]) % FifoSize,
       !.irq    = @ \cup Outcomes[outcome],
       !.mode   = IF @ = "RX_SINGLE" THEN "STDBY" ELSE @]

\* RX_TIMEOUT exists in single reception only.
ReceiveTimeout ==
  /\ chip.mode = "RX_SINGLE"
  /\ chip' = [chip EXCEPT !.mode = "STDBY", !.irq = @ \cup {"RX_TIMEOUT"}]

ChipType ==
  chip \in [mode : Modes, irq : SUBSET IrqFlags,
            fifo : [Addr -> Byte], fifoPtr : Addr,
            txBase : Addr, rxBase : Addr, rxByte : Addr, rxCur : Addr,
            rxNb : 0 .. FifoSize, payLen : 1 .. FifoSize]
=============================================================================
