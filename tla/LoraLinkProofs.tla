--------------------------- MODULE LoraLinkProofs ---------------------------
(***************************************************************************)
(* Sending is right for every FIFO, every set of messages and every length *)
(* of a run: as long as the bus works and the application makes no call    *)
(* during a DMA, the radio transmits exactly the accepted message, no send *)
(* call aborts a transmission, lora_send_packet_blocking() tells the truth *)
(* and NSS frames exactly the DMA transfers.  Receiving is right for an    *)
(* application that receives one packet at a time: every receive call      *)
(* reports what happened to its reception, what it delivers is the packet  *)
(* that arrived, and lora_is_packet_available() is exact.                  *)
(***************************************************************************)
EXTENDS LoraLink, TLAPS

USE FifoAssumption, LinkAssumption DEF FifoAssumption, LinkAssumption

\* What the theorems suppose of the bus and of the application.
Reliable == MaxFaults = 0 /\ "wait_for_dma" \in Discipline

-----------------------------------------------------------------------------
(* What the operators on the radio keep, and what they compute.            *)

ChipStates ==
  [mode : Modes, irq : SUBSET IrqFlags,
   fifo : [Addr -> Byte], fifoPtr : Addr,
   txBase : Addr, rxBase : Addr, rxByte : Addr, rxCur : Addr,
   rxNb : 0 .. FifoSize, payLen : 1 .. FifoSize]

LEMMA Wraps ==
  ASSUME NEW a \in Int
  PROVE  a % FifoSize \in Addr
  BY DEF Addr

\* Going i bytes on from an address and back to it wraps consistently.
LEMMA WrapsBack ==
  ASSUME NEW a \in Addr, NEW i \in Addr
  PROVE  (((a + i) % FifoSize) - a) % FifoSize = i
<1>0. a \in Int /\ i \in Int /\ FifoSize \in Nat \ {0}
      /\ 0 <= a /\ a < FifoSize /\ 0 <= i /\ i < FifoSize
  BY DEF Addr
<1>1. CASE a + i < FifoSize
  <2>1. (a + i) % FifoSize = a + i
    BY <1>0, <1>1
  <2>2. (a + i) - a = i /\ i % FifoSize = i
    BY <1>0
  <2>. QED  BY <2>1, <2>2
<1>2. CASE a + i >= FifoSize
  <2>1. (a + i) % FifoSize = a + i - FifoSize
    BY <1>0, <1>2
  <2>2. (a + i - FifoSize) - a = i - FifoSize /\ (i - FifoSize) % FifoSize = i
    BY <1>0
  <2>. QED  BY <2>1, <2>2
<1>. QED  BY <1>0, <1>1, <1>2

LEMMA LengthFacts ==
  ASSUME NEW p \in Payloads
  PROVE  Length[p] \in 1 .. FifoSize
  OBVIOUS

\* Payload p stored whole at an address is fetched from there unchanged.
LEMMA FetchStored ==
  ASSUME NEW fifo, NEW at \in Addr, NEW p \in Payloads
  PROVE  Fetch(Store(fifo, at, p, Length[p]), at, Length[p]) = Bytes(p)
<1>. DEFINE n == Length[p]
            stored == Store(fifo, at, p, n)
<1>1. n \in 1 .. FifoSize
  BY LengthFacts
<1>2. ASSUME NEW i \in 0 .. n - 1
      PROVE  stored[(at + i) % FifoSize] = <<p, i>>
  <2>0. i \in Addr /\ at + i \in Int
    BY <1>1 DEF Addr
  <2>1. (at + i) % FifoSize \in Addr
    BY <2>0, Wraps
  <2>2. (((at + i) % FifoSize) - at) % FifoSize = i
    BY <2>0, WrapsBack
  <2>. QED  BY <1>1, <2>1, <2>2 DEF Store
<1>. QED  BY <1>2 DEF Fetch, Bytes

LEMMA StoreType ==
  ASSUME NEW fifo \in [Addr -> Byte], NEW at \in Addr, NEW p \in Payloads,
         NEW n \in 0 .. FifoSize
  PROVE  Store(fifo, at, p, n) \in [Addr -> Byte]
<1>1. ASSUME NEW a \in Addr PROVE (a - at) % FifoSize \in Addr
  <2>1. a - at \in Int
    BY DEF Addr
  <2>. QED  BY <2>1, Wraps
<1>. QED  BY <1>1 DEF Store, Byte

LEMMA FetchType ==
  ASSUME NEW fifo \in [Addr -> Byte], NEW at \in Addr, NEW n \in 0 .. FifoSize
  PROVE  Fetch(fifo, at, n) \in [0 .. n - 1 -> Byte]
<1>1. ASSUME NEW i \in 0 .. n - 1 PROVE (at + i) % FifoSize \in Addr
  <2>1. at + i \in Int
    BY DEF Addr
  <2>. QED  BY <2>1, Wraps
<1>. QED  BY <1>1 DEF Fetch

\* Any step that leaves FIFO, base address and length leaves the frame.
LEMMA FrameSame ==
  ASSUME NEW c, NEW d,
         d.fifo = c.fifo, d.txBase = c.txBase, d.payLen = c.payLen
  PROVE  Frame(d) = Frame(c)
  BY DEF Frame

LEMMA SetModeFacts ==
  ASSUME NEW c \in ChipStates, NEW m \in Modes
  PROVE  /\ SetMode(c, m) \in ChipStates
         /\ SetMode(c, m).mode = m /\ SetMode(c, m).irq = c.irq
         /\ SetMode(c, m).rxNb = c.rxNb
         /\ Frame(SetMode(c, m)) = Frame(c)
<1>. DEFINE byte == IF m \in RxModes THEN c.rxBase ELSE c.rxByte
<1>1. SetMode(c, m) = [c EXCEPT !.mode = m, !.rxByte = byte]
  BY DEF SetMode, ChipStates
<1>2. byte \in Addr
  BY DEF ChipStates
<1>. QED  BY <1>1, <1>2, FrameSame DEF ChipStates

LEMMA ClearIrqType ==
  ASSUME NEW c \in ChipStates, NEW flags
  PROVE  ClearIrq(c, flags) \in ChipStates
  BY DEF ClearIrq, ChipStates

LEMMA PutFifoFacts ==
  ASSUME NEW c \in ChipStates, NEW p \in Payloads, NEW n \in 0 .. FifoSize
  PROVE  /\ PutFifo(c, p, n) \in ChipStates
         /\ PutFifo(c, p, n).mode = c.mode /\ PutFifo(c, p, n).irq = c.irq
         /\ PutFifo(c, p, n).rxNb = c.rxNb
         /\ PutFifo(c, p, n).txBase = c.txBase
         /\ PutFifo(c, p, n).payLen = c.payLen
<1>1. Store(c.fifo, c.fifoPtr, p, n) \in [Addr -> Byte]
  BY StoreType DEF ChipStates
<1>2. (c.fifoPtr + n) % FifoSize \in Addr
  <2>1. c.fifoPtr + n \in Int
    BY DEF ChipStates, Addr
  <2>. QED  BY <2>1, Wraps
<1>. QED  BY <1>1, <1>2 DEF PutFifo, ChipStates

LEMMA GotFifoFacts ==
  ASSUME NEW c \in ChipStates, NEW n \in 0 .. FifoSize
  PROVE  /\ GotFifo(c, n) \in ChipStates
         /\ GotFifo(c, n).mode = c.mode /\ GotFifo(c, n).irq = c.irq
         /\ GotFifo(c, n).rxNb = c.rxNb
         /\ Frame(GotFifo(c, n)) = Frame(c)
<1>1. (c.fifoPtr + n) % FifoSize \in Addr
  <2>1. c.fifoPtr + n \in Int
    BY DEF ChipStates, Addr
  <2>. QED  BY <2>1, Wraps
<1>. QED  BY <1>1, FrameSame DEF GotFifo, ChipStates

LEMMA FifoBytesType ==
  ASSUME NEW c \in ChipStates, NEW n \in 0 .. FifoSize
  PROVE  FifoBytes(c, n) \in [0 .. n - 1 -> Byte]
<1>1. Fetch(c.fifo, c.fifoPtr, n) \in [0 .. n - 1 -> Byte]
  BY FetchType DEF ChipStates
<1>. QED  BY <1>1 DEF FifoBytes, Byte

\* The frame of a radio whose FIFO was written whole, from the base address.
LEMMA FrameOfPut ==
  ASSUME NEW c \in ChipStates, NEW p \in Payloads, c.mode # "SLEEP",
         c.fifoPtr = c.txBase, c.payLen = Length[p]
  PROVE  Frame(PutFifo(c, p, Length[p])) = Bytes(p)
<1>. DEFINE d == PutFifo(c, p, Length[p])
<1>1. d.fifo = Store(c.fifo, c.fifoPtr, p, Length[p])
      /\ d.txBase = c.txBase /\ d.payLen = c.payLen
  BY DEF PutFifo, ChipStates
<1>2. c.fifoPtr \in Addr
  BY DEF ChipStates
<1>. QED  BY <1>1, <1>2, FetchStored DEF Frame

-----------------------------------------------------------------------------
(* The inductive invariant.                                                *)

\* The functions that reach each transaction.
Receivers == {"mode_receive_single", "mode_receive_continuous"}
OpsAt(label) ==
  CASE label = "idle"        -> {"none"}
    [] label = "read_opmode" -> SendOps \cup {"is_transmitting"}
    [] label = "standby"     -> SendOps \cup {"mode_standby"}
    [] label = "sleep"       -> {"mode_sleep"}
    [] label = "clear_tx"    -> SendOps \cup {"clear_interrupt_tx_done"}
    [] label \in {"tx_ptr", "tx_base", "pay_len"} -> SendOps
    [] label \in {"write_fifo", "transmit"} ->
         {"send_packet", "send_packet_blocking"}
    [] label = "start_tx_dma" -> {"send_packet_dma_start"}
    [] label \in {"poll_tx", "delay_tx", "ack_tx"} -> {"send_packet_blocking"}
    [] label \in {"rx_base", "rx_mode"} -> Receivers
    [] label = "clear_rx" ->
         ReceiveOps \cup Receivers \cup {"clear_interrupt_rx_all"}
    [] label = "poll_rx"  -> {"is_packet_available", "receive_packet_blocking"}
    [] label = "delay_rx" -> {"receive_packet_blocking"}
    [] label \in {"header_mode", "payload_length", "rx_nb_bytes"} ->
         ReceiveOps \cup {"pending_packet_length"}
    [] label = "start_rx_dma" -> {"receive_packet_dma_start"}
    [] label = "read_fifo"    -> {"receive_packet", "receive_packet_blocking"}
    [] OTHER                  -> ReceiveOps

\* A call in progress is at a transaction of its function, and has not
\* waited longer than its timeout.
CallShape ==
  /\ cpu.op \in OpsAt(cpu.pc)
  /\ cpu.msg = NoPayload <=> cpu.op \notin SendOps
  /\ cpu.pc # "idle" => ret = NoRet
  /\ (cpu.op \in SendOps \/ cpu.pc \in {"poll_rx", "delay_rx"}) =>
       cpu.elapsed < Timeout

\* The processor leaves the bus to a DMA until it completes.
BusFramed ==
  /\ NssFramesDma
  /\ DmaRunning => At("idle") /\ ~dma.cut

\* What a send call has set up in the radio when it reaches a transaction.
SendProgress ==
  /\ (cpu.op \in SendOps /\ ~At("read_opmode")) => accepted = cpu.msg
  /\ (cpu.op \in SendOps /\ At("standby")) => chip.mode # "TX"
  /\ (cpu.op \in SendOps
      /\ cpu.pc \in {"clear_tx", "tx_ptr", "tx_base", "pay_len", "write_fifo",
                     "start_tx_dma", "transmit"}) => chip.mode = "STDBY"
  /\ cpu.pc \in {"tx_ptr", "tx_base", "pay_len", "write_fifo",
                 "start_tx_dma", "transmit"} => "TX_DONE" \notin chip.irq
  /\ cpu.pc \in {"tx_base", "pay_len", "write_fifo", "start_tx_dma"} =>
       chip.fifoPtr = TxBaseAddr
  /\ cpu.pc \in {"pay_len", "write_fifo", "start_tx_dma", "transmit"} =>
       chip.txBase = TxBaseAddr
  /\ cpu.pc \in {"write_fifo", "start_tx_dma", "transmit"} =>
       chip.payLen = Length[cpu.msg]
  /\ At("transmit") => Frame(chip) = Bytes(cpu.msg)

\* The same of a message in the hands of the DMA.
DmaProgress ==
  dma.job = "tx" =>
    /\ dma.payload \in Messages /\ dma.payload = accepted
    /\ chip.mode = "STDBY"
    /\ dma.len = Length[accepted] /\ chip.payLen = Length[accepted]
    /\ chip.fifoPtr = TxBaseAddr /\ chip.txBase = TxBaseAddr

\* A TX_DONE that the wait of lora_send_packet_blocking() can see is its own.
WaitTruthful ==
  /\ (cpu.pc \in {"poll_tx", "delay_tx"} /\ "TX_DONE" \in chip.irq) =>
       aired = Bytes(cpu.msg) /\ chip.mode # "TX"
  /\ At("ack_tx") => aired = Bytes(cpu.msg) /\ chip.mode # "TX"
  /\ ret.op = "send_packet_blocking" => dma.job # "tx"
  /\ (ret.op = "send_packet_blocking" /\ ret.code = "LORA_OK") =>
       aired = Bytes(ret.msg) /\ chip.mode # "TX"

\* A reception DMA is never started with nothing to move.
LengthKnown ==
  /\ "RX_DONE" \in chip.irq \cup cpu.irqs => chip.rxNb > 0
  /\ (cpu.op \in ReceiveOps /\ cpu.pc \in {"header_mode", "rx_nb_bytes"}) =>
       chip.rxNb > 0
  /\ cpu.pc \in {"rx_current", "rx_ptr", "read_fifo", "start_rx_dma"} =>
       cpu.len > 0

IInv ==
  /\ TypeOK /\ CallShape /\ BusFramed /\ LengthKnown
  /\ SendProgress /\ TxIntact /\ DmaProgress /\ WaitTruthful

-----------------------------------------------------------------------------
(* The bus.                                                                *)

\* During a call no DMA runs, so with a bus that works every transaction
\* takes place.
LEMMA BusFree ==
  ASSUME IInv, Reliable, cpu.pc # "idle"
  PROVE  /\ dma.job = "none" /\ nss = "high"
         /\ faults = 0 /\ ~SpiBusy /\ SpiOutcomes = {TRUE}
<1>1. dma.job = "none" /\ nss = "high"
  BY DEF IInv, BusFramed, NssFramesDma, DmaRunning, At, TypeOK
<1>2. faults = 0
  BY DEF IInv, TypeOK, Reliable
<1>3. ~SpiBusy
  BY <1>1 DEF SpiBusy, DmaRunning
<1>. QED  BY <1>1, <1>2, <1>3 DEF SpiOutcomes, HalOutcomes, Reliable

LEMMA DeselectDone ==
  ASSUME IInv, Reliable, cpu.pc # "idle", Deselect(TRUE)
  PROVE  UNCHANGED <<nss, dma, faults>>
<1>1. dma.job = "none" /\ nss = "high"
  BY BusFree
<1>2. dma' = [dma EXCEPT !.cut = @ \/ FALSE] /\ nss' = "high" /\ faults' = faults
  BY <1>1 DEF Deselect, CountFault, DmaRunning
<1>3. dma.cut \in BOOLEAN
  BY DEF IInv, TypeOK
<1>4. dma' = dma
  BY <1>2, <1>3 DEF IInv, TypeOK
<1>. QED  BY <1>1, <1>2, <1>4

\* A write takes place ...
LEMMA WriteDone ==
  ASSUME IInv, Reliable, cpu.pc # "idle", NEW STATE c, WriteRegister(c)
  PROVE  chip' = c /\ UNCHANGED <<nss, dma, faults>>
<1>1. PICK ok \in SpiOutcomes : Deselect(ok) /\ chip' = IF ok THEN c ELSE chip
  BY DEF WriteRegister
<1>2. ok = TRUE
  BY BusFree
<1>. QED  BY <1>1, <1>2, DeselectDone

\* ... and a read returns the register.
LEMMA ReadDone ==
  ASSUME IInv, Reliable, cpu.pc # "idle",
         NEW STATE value, NEW zero, NEW v, ReadRegister(value, zero, v)
  PROVE  v = value /\ UNCHANGED <<chip, nss, dma, faults>>
<1>1. PICK ok \in SpiOutcomes :
          Deselect(ok) /\ v = (IF ok THEN value ELSE zero)
  BY DEF ReadRegister
<1>2. ok = TRUE
  BY BusFree
<1>. QED  BY <1>1, <1>2, DeselectDone DEF ReadRegister

-----------------------------------------------------------------------------
(* The initial states, and the steps that leave most of the state alone.   *)

LEMMA InitInv == Init => IInv
<1>. SUFFICES ASSUME Init PROVE IInv
  OBVIOUS
<1>1. chip \in ChipStates
  <2>1. 0 \in Addr /\ 0 \in 0 .. FifoSize /\ 1 \in 1 .. FifoSize
    BY DEF Addr
  <2>2. [a \in Addr |-> Blank] \in [Addr -> Byte]
    BY DEF Byte
  <2>. QED  BY <2>1, <2>2 DEF Init, ChipInit, ChipStates, Modes, IrqFlags
<1>2. 0 \in Addr /\ 0 \in Lens /\ 0 \in 0 .. Timeout
  BY DEF Addr, Lens
<1>3. cpu \in [op : AllOps \cup {"none"}, pc : Labels,
              msg : Messages \cup {NoPayload}, elapsed : 0 .. Timeout,
              irqs : SUBSET IrqFlags, len : Lens, offset : Addr]
  BY <1>2 DEF Init, Idle, Labels
<1>4. IsFrame(<<>>)
  <2>1. <<>> \in [0 .. 0 - 1 -> Byte]
    OBVIOUS
  <2>. QED  BY <1>2, <2>1 DEF IsFrame
<1>5. ret \in Ret /\ dma \in [job : {"none", "tx", "rx"},
              payload : Messages \cup {NoPayload}, len : Lens, cut : BOOLEAN]
  BY <1>2 DEF Init, NoRet, NoDma, Ret, Codes
<1>6. TypeOK
  BY <1>1, <1>3, <1>4, <1>5 DEF TypeOK, ChipType, ChipStates, Init, NoData
<1>7. CallShape /\ BusFramed /\ LengthKnown
  BY DEF Init, ChipInit, Idle, NoRet, NoDma, CallShape, OpsAt, SendOps,
         BusFramed, NssFramesDma, DmaRunning, At, LengthKnown, ReceiveOps
<1>8. SendProgress /\ TxIntact /\ DmaProgress /\ WaitTruthful
  BY DEF Init, ChipInit, Idle, NoRet, NoDma, SendProgress, TxIntact,
         DmaProgress, WaitTruthful, SendOps, At
<1>. QED  BY <1>6, <1>7, <1>8 DEF IInv

\* Going on within a call, and returning from it, keeps the types.
CpuStates ==
  [op : AllOps \cup {"none"}, pc : Labels, msg : Messages \cup {NoPayload},
   elapsed : 0 .. Timeout, irqs : SUBSET IrqFlags, len : Lens, offset : Addr]

LEMMA GotoType ==
  ASSUME TypeOK, NEW label \in Labels, Goto(label)
  PROVE  /\ cpu' \in CpuStates /\ ret' = ret
         /\ cpu'.pc = label /\ cpu'.op = cpu.op /\ cpu'.msg = cpu.msg
         /\ cpu'.elapsed = cpu.elapsed /\ cpu'.irqs = cpu.irqs
         /\ cpu'.len = cpu.len /\ cpu'.offset = cpu.offset
  BY DEF TypeOK, Goto, CpuStates

LEMMA ReturnType ==
  ASSUME TypeOK, NEW code \in Codes, NEW len \in Lens, ReturnLen(code, len)
  PROVE  /\ cpu' = Idle /\ cpu' \in CpuStates /\ ret' \in Ret
         /\ ret' = [op |-> cpu.op, code |-> code, msg |-> cpu.msg, len |-> len]
<1>1. cpu' = Idle
      /\ ret' = [op |-> cpu.op, code |-> code, msg |-> cpu.msg, len |-> len]
  BY DEF ReturnLen
<1>2. 0 \in Addr /\ 0 \in Lens /\ 0 \in 0 .. Timeout
  BY DEF Addr, Lens
<1>3. Idle \in CpuStates
  BY <1>2 DEF Idle, CpuStates, Labels
<1>. QED  BY <1>1, <1>3 DEF TypeOK, Ret

\* A call that returns leaves nothing to be proved but what the radio and
\* the last result must satisfy at any time.
LEMMA ReturnInv ==
  ASSUME IInv, Reliable, cpu.pc # "idle",
         NEW code \in Codes, NEW len \in Lens, ReturnLen(code, len),
         chip' \in ChipStates, TxIntact',
         "RX_DONE" \in chip'.irq => chip'.rxNb > 0,
         (cpu.op = "send_packet_blocking" /\ code = "LORA_OK") =>
            aired = Bytes(cpu.msg) /\ chip'.mode # "TX",
         UNCHANGED <<nss, dma, faults, aired, heard, calls>>,
         accepted' \in Messages \cup {NoPayload}, IsFrame(buffer'),
         event' \in DOMAIN Outcomes \cup {"none", "timeout"}
  PROVE  IInv'
<1>1. TypeOK /\ BusFramed /\ dma.job = "none"
  BY BusFree DEF IInv
<1>2. /\ cpu' = Idle /\ cpu' \in CpuStates /\ ret' \in Ret
      /\ ret' = [op |-> cpu.op, code |-> code, msg |-> cpu.msg, len |-> len]
  BY <1>1, ReturnType
<1>3. TypeOK'
  BY <1>1, <1>2 DEF TypeOK, ChipType, ChipStates, CpuStates, IsFrame
<1>4. CallShape' /\ BusFramed' /\ LengthKnown'
  BY <1>1, <1>2 DEF CallShape, OpsAt, BusFramed, NssFramesDma, DmaRunning, At,
     LengthKnown, Idle, SendOps, ReceiveOps
<1>5. SendProgress' /\ DmaProgress' /\ WaitTruthful'
  BY <1>1, <1>2 DEF SendProgress, DmaProgress, WaitTruthful, Idle, SendOps, At
<1>. QED  BY <1>3, <1>4, <1>5 DEF IInv

\* A call that goes on, at a transaction that its function has.
LEMMA GoOnInv ==
  ASSUME IInv, Reliable, cpu.pc # "idle",
         cpu' \in CpuStates, cpu'.pc # "idle", UNCHANGED ret,
         cpu'.op = cpu.op /\ cpu'.msg = cpu.msg,
         cpu.op \in OpsAt(cpu'.pc),
         cpu.op \in SendOps =>
            cpu'.elapsed = cpu.elapsed \/ cpu'.elapsed < Timeout,
         cpu'.pc \in {"poll_rx", "delay_rx"} => cpu'.elapsed < Timeout,
         chip' \in ChipStates, TxIntact', SendProgress', LengthKnown',
         (cpu'.pc \in {"poll_tx", "delay_tx"} /\ "TX_DONE" \in chip'.irq) =>
            aired = Bytes(cpu.msg) /\ chip'.mode # "TX",
         cpu'.pc = "ack_tx" => aired = Bytes(cpu.msg) /\ chip'.mode # "TX",
         UNCHANGED <<nss, dma, faults, buffer, aired, heard, calls>>,
         accepted' \in Messages \cup {NoPayload},
         event' \in DOMAIN Outcomes \cup {"none", "timeout"}
  PROVE  IInv'
<1>1. TypeOK /\ CallShape /\ BusFramed /\ dma.job = "none" /\ ret = NoRet
  BY BusFree DEF IInv, CallShape
<1>2. TypeOK'
  BY <1>1 DEF TypeOK, ChipType, ChipStates, CpuStates, IsFrame
<1>3. CallShape' /\ BusFramed'
  BY <1>1 DEF CallShape, BusFramed, NssFramesDma, DmaRunning, At
<1>4. DmaProgress' /\ WaitTruthful'
  BY <1>1 DEF DmaProgress, WaitTruthful, At, NoRet
<1>. QED  BY <1>2, <1>3, <1>4 DEF IInv

\* What the invariant says when a step begins.
LEMMA Begin ==
  ASSUME IInv
  PROVE  /\ TypeOK /\ chip \in ChipStates /\ cpu \in CpuStates
         /\ cpu.op \in OpsAt(cpu.pc)
         /\ cpu.msg = NoPayload <=> cpu.op \notin SendOps
         /\ accepted \in Messages \cup {NoPayload} /\ IsFrame(buffer)
         /\ event \in DOMAIN Outcomes \cup {"none", "timeout"}
         /\ LengthKnown /\ SendProgress /\ TxIntact
  BY DEF IInv, TypeOK, ChipType, ChipStates, CpuStates, CallShape

-----------------------------------------------------------------------------
(* The steps of a send call.                                               *)

\* The read that decides whether the radio is busy.
LEMMA ReadOpmodeInv ==
  ASSUME IInv, Reliable, ReadOpmode
  PROVE  IInv'
<1>1. cpu.pc = "read_opmode" /\ UNCHANGED <<buffer, aired, event, heard, calls>>
  BY DEF ReadOpmode, At
<1>2. PICK mode : ReadRegister(chip.mode, "SLEEP", mode)
        /\ \/ /\ cpu.op = "is_transmitting"
              /\ Return(IF Transmitting(mode) THEN "LORA_BUSY" ELSE "LORA_OK")
              /\ UNCHANGED accepted
           \/ /\ cpu.op # "is_transmitting" /\ Transmitting(mode)
              /\ Return(RefuseCode)
              /\ UNCHANGED accepted
           \/ /\ cpu.op # "is_transmitting" /\ ~Transmitting(mode)
              /\ Goto("standby")
              /\ accepted' = cpu.msg
  BY DEF ReadOpmode
<1>3. mode = chip.mode /\ UNCHANGED <<chip, nss, dma, faults>>
  BY <1>1, <1>2, ReadDone
<1>4. /\ TypeOK /\ chip \in ChipStates /\ LengthKnown /\ TxIntact
      /\ cpu.op \in SendOps \cup {"is_transmitting"} /\ SendProgress
      /\ cpu.msg \in Messages \cup {NoPayload}
  BY <1>1, Begin DEF OpsAt, CpuStates
<1>5. ASSUME NEW code \in Codes, Return(code), UNCHANGED accepted,
             cpu.op = "send_packet_blocking" => code # "LORA_OK"
      PROVE  IInv'
  <2>1. ReturnLen(code, 0) /\ 0 \in Lens
    BY <1>5 DEF Return, Lens
  <2>2. /\ TxIntact' /\ IsFrame(buffer')
        /\ "RX_DONE" \in chip'.irq => chip'.rxNb > 0
    BY <1>1, <1>3, <1>4, <1>5, Begin DEF LengthKnown, TxIntact
  <2>3. /\ accepted' \in Messages \cup {NoPayload}
        /\ event' \in DOMAIN Outcomes \cup {"none", "timeout"}
    BY <1>1, <1>5, Begin
  <2>. QED  BY <1>1, <1>3, <1>4, <1>5, <2>1, <2>2, <2>3, ReturnInv
<1>6. ASSUME Goto("standby"), accepted' = cpu.msg,
             cpu.op # "is_transmitting", ~Transmitting(mode)
      PROVE  IInv'
  <2>1. /\ cpu' \in CpuStates /\ ret' = ret
        /\ cpu'.pc = "standby" /\ cpu'.op = cpu.op /\ cpu'.msg = cpu.msg
        /\ cpu'.irqs = cpu.irqs /\ cpu'.elapsed = cpu.elapsed
    BY <1>4, <1>6, GotoType DEF Labels
  <2>2. chip.mode # "TX" /\ cpu.op \in SendOps
    BY <1>3, <1>4, <1>6 DEF Transmitting
  <2>3. TxIntact' /\ SendProgress' /\ LengthKnown'
    BY <1>1, <1>3, <1>4, <1>6, <2>1, <2>2
       DEF TxIntact, SendProgress, LengthKnown, At, SendOps, ReceiveOps
  <2>4. /\ accepted' \in Messages \cup {NoPayload}
        /\ event' \in DOMAIN Outcomes \cup {"none", "timeout"}
        /\ chip' \in ChipStates /\ cpu.op \in OpsAt("standby")
    BY <1>1, <1>3, <1>4, <1>6, <2>2, Begin DEF OpsAt
  <2>. QED  BY <1>1, <1>3, <1>6, <2>1, <2>3, <2>4, GoOnInv
<1>7. RefuseCode \in {"LORA_TIMEOUT", "LORA_BUSY"}
  BY DEF RefuseCode
<1>. QED  BY <1>2, <1>5, <1>6, <1>7 DEF Codes

\* A step that only writes a register ...
LEMMA WriteStepDone ==
  ASSUME IInv, Reliable, NEW label \in Labels \ {"idle"}, NEW next \in Labels,
         NEW STATE c, WriteStep(label, c, next)
  PROVE  /\ cpu.pc = label /\ chip' = c
         /\ UNCHANGED <<nss, dma, faults, buffer, history, calls, ret>>
         /\ cpu' \in CpuStates
         /\ cpu'.pc = next /\ cpu'.op = cpu.op /\ cpu'.msg = cpu.msg
         /\ cpu'.irqs = cpu.irqs /\ cpu'.len = cpu.len
         /\ cpu'.elapsed = cpu.elapsed
<1>1. cpu.pc = label /\ WriteRegister(c) /\ Goto(next)
      /\ UNCHANGED <<buffer, history, calls>>
  BY DEF WriteStep, At, Quiet
<1>2. chip' = c /\ UNCHANGED <<nss, dma, faults>>
  BY <1>1, WriteDone
<1>. QED  BY <1>1, <1>2, GotoType DEF IInv

\* ... keeps the invariant if what the radio becomes does.
LEMMA WriteStepInv ==
  ASSUME IInv, Reliable, NEW label \in Labels \ {"idle"}, NEW next \in Labels,
         NEW STATE c, WriteStep(label, c, next), c \in ChipStates,
         next \notin {"idle", "poll_tx", "delay_tx", "ack_tx", "poll_rx",
                      "delay_rx"},
         cpu.op \in OpsAt(next), TxIntact', SendProgress', LengthKnown'
  PROVE  IInv'
<1>1. /\ cpu.pc = label /\ chip' = c
      /\ UNCHANGED <<nss, dma, faults, buffer, history, calls, ret>>
      /\ cpu' \in CpuStates
      /\ cpu'.pc = next /\ cpu'.op = cpu.op /\ cpu'.msg = cpu.msg
      /\ cpu'.elapsed = cpu.elapsed
  BY WriteStepDone
<1>2. /\ accepted' \in Messages \cup {NoPayload}
      /\ event' \in DOMAIN Outcomes \cup {"none", "timeout"}
  BY <1>1, Begin DEF history
<1>. QED  BY <1>1, <1>2, GoOnInv DEF history

\* A function's last write, which ends the call unless it is an inner one.
LEMMA LastWriteInv ==
  ASSUME IInv, Reliable, cpu.pc # "idle", NEW code \in Codes,
         NEW STATE c, WriteRegister(c), Return(code), Quiet,
         c \in ChipStates, c.mode = "TX" => Frame(c) = Bytes(accepted),
         "RX_DONE" \in c.irq => c.rxNb > 0,
         (cpu.op = "send_packet_blocking" /\ code = "LORA_OK") =>
            aired = Bytes(cpu.msg) /\ c.mode # "TX"
  PROVE  IInv'
<1>1. chip' = c /\ UNCHANGED <<nss, dma, faults>>
  BY WriteDone
<1>2. ReturnLen(code, 0) /\ 0 \in Lens
  BY DEF Return, Lens
<1>3. UNCHANGED <<buffer, accepted, aired, event, heard, calls>>
  BY DEF Quiet, history
<1>4. TxIntact'
  BY <1>1, <1>3 DEF TxIntact
<1>5. /\ accepted' \in Messages \cup {NoPayload} /\ IsFrame(buffer')
      /\ event' \in DOMAIN Outcomes \cup {"none", "timeout"}
  BY <1>3, Begin
<1>. QED  BY <1>1, <1>2, <1>3, <1>4, <1>5, ReturnInv

LEMMA SetStandbyInv ==
  ASSUME IInv, Reliable, SetStandby
  PROVE  IInv'
<1>. DEFINE c == SetMode(chip, "STDBY")
<1>1. cpu.pc = "standby" /\ WriteRegister(c) /\ Quiet
      /\ ReturnFrom("mode_standby", "void", "clear_tx")
  BY DEF SetStandby, At
<1>2. /\ TypeOK /\ chip \in ChipStates /\ LengthKnown /\ SendProgress
      /\ cpu.op \in SendOps \cup {"mode_standby"}
  BY <1>1, Begin DEF OpsAt
<1>3. c \in ChipStates /\ c.mode = "STDBY" /\ c.irq = chip.irq
      /\ c.rxNb = chip.rxNb
  BY <1>2, SetModeFacts DEF Modes
<1>4. CASE cpu.op = "mode_standby"
  <2>1. Return("void")
    BY <1>1, <1>4 DEF ReturnFrom
  <2>. QED  BY <1>1, <1>2, <1>3, <1>4, <2>1, LastWriteInv DEF Codes, LengthKnown
<1>5. CASE cpu.op # "mode_standby"
  <2>1. WriteStep("standby", c, "clear_tx")
    BY <1>1, <1>5 DEF ReturnFrom, WriteStep, At
  <2>2. /\ chip' = c /\ cpu'.pc = "clear_tx" /\ cpu'.op = cpu.op
        /\ cpu'.msg = cpu.msg /\ cpu'.irqs = cpu.irqs /\ accepted' = accepted
    BY <2>1, WriteStepDone DEF Labels, history
  <2>3. TxIntact' /\ SendProgress' /\ LengthKnown'
    BY <1>1, <1>2, <1>3, <1>5, <2>2
       DEF TxIntact, SendProgress, LengthKnown, At, SendOps, ReceiveOps
  <2>. QED  BY <1>2, <1>3, <1>5, <2>1, <2>3, WriteStepInv DEF Labels, OpsAt
<1>. QED  BY <1>4, <1>5

LEMMA SetSleepInv ==
  ASSUME IInv, Reliable, SetSleep
  PROVE  IInv'
<1>. DEFINE c == SetMode(chip, "SLEEP")
<1>1. cpu.pc = "sleep" /\ WriteRegister(c) /\ Quiet /\ Return("void")
  BY DEF SetSleep, At
<1>2. chip \in ChipStates /\ LengthKnown /\ cpu.op = "mode_sleep"
  BY <1>1, Begin DEF OpsAt
<1>3. c \in ChipStates /\ c.mode = "SLEEP" /\ c.irq = chip.irq
      /\ c.rxNb = chip.rxNb
  BY <1>2, SetModeFacts DEF Modes
<1>. QED  BY <1>1, <1>2, <1>3, LastWriteInv DEF Codes, LengthKnown

\* Acknowledging TX_DONE, by itself, before and after a transmission.
LEMMA TxDoneClearedFacts ==
  ASSUME chip \in ChipStates
  PROVE  /\ TxDoneCleared \in ChipStates
         /\ TxDoneCleared = [chip EXCEPT !.irq = @ \ {"TX_DONE"}]
         /\ TxDoneCleared.irq = chip.irq \ {"TX_DONE"}
         /\ TxDoneCleared.mode = chip.mode /\ TxDoneCleared.rxNb = chip.rxNb
         /\ Frame(TxDoneCleared) = Frame(chip)
<1>1. TxDoneCleared = [chip EXCEPT !.irq = @ \ {"TX_DONE"}]
  BY DEF TxDoneCleared, ClearIrq
<1>. QED  BY <1>1, ClearIrqType, FrameSame DEF TxDoneCleared, ChipStates

LEMMA ClearTxDoneInv ==
  ASSUME IInv, Reliable, ClearTxDone
  PROVE  IInv'
<1>. DEFINE c == TxDoneCleared
<1>1. cpu.pc = "clear_tx" /\ WriteRegister(c) /\ Quiet
      /\ ReturnFrom("clear_interrupt_tx_done", "void", "tx_ptr")
  BY DEF ClearTxDone, At
<1>2. /\ TypeOK /\ chip \in ChipStates /\ LengthKnown /\ SendProgress
      /\ cpu.op \in SendOps \cup {"clear_interrupt_tx_done"} /\ TxIntact
  BY <1>1, Begin DEF OpsAt
<1>3. /\ c \in ChipStates /\ c.mode = chip.mode
      /\ c.irq = chip.irq \ {"TX_DONE"} /\ c.rxNb = chip.rxNb
      /\ Frame(c) = Frame(chip)
  BY <1>2, TxDoneClearedFacts
<1>. HIDE DEF c
<1>4. CASE cpu.op = "clear_interrupt_tx_done"
  <2>1. Return("void")
    BY <1>1, <1>4 DEF ReturnFrom
  <2>. QED  BY <1>1, <1>2, <1>3, <1>4, <2>1, LastWriteInv
       DEF Codes, LengthKnown, TxIntact
<1>5. CASE cpu.op # "clear_interrupt_tx_done"
  <2>1. WriteStep("clear_tx", c, "tx_ptr")
    BY <1>1, <1>5 DEF ReturnFrom, WriteStep, At
  <2>2. /\ chip' = c /\ cpu'.pc = "tx_ptr" /\ cpu'.op = cpu.op
        /\ cpu'.msg = cpu.msg /\ cpu'.irqs = cpu.irqs /\ accepted' = accepted
    BY <2>1, WriteStepDone DEF Labels, history
  <2>3. TxIntact' /\ SendProgress' /\ LengthKnown'
    BY <1>1, <1>2, <1>3, <1>5, <2>2
       DEF TxIntact, SendProgress, LengthKnown, At, SendOps, ReceiveOps
  <2>. QED  BY <1>2, <1>3, <1>5, <2>1, <2>3, WriteStepInv DEF Labels, OpsAt
<1>. QED  BY <1>4, <1>5

LEMMA SetFifoPtrInv ==
  ASSUME IInv, Reliable, SetFifoPtr
  PROVE  IInv'
<1>. DEFINE c == [chip EXCEPT !.fifoPtr = TxBaseAddr]
<1>1. WriteStep("tx_ptr", c, "tx_base")
  BY DEF SetFifoPtr
<1>2. /\ cpu.pc = "tx_ptr" /\ chip' = c /\ cpu'.pc = "tx_base"
      /\ cpu'.op = cpu.op /\ cpu'.msg = cpu.msg /\ cpu'.irqs = cpu.irqs
      /\ accepted' = accepted
  BY <1>1, WriteStepDone DEF Labels, history
<1>3. /\ TypeOK /\ chip \in ChipStates /\ LengthKnown /\ SendProgress
      /\ cpu.op \in SendOps
  BY <1>2, Begin DEF OpsAt
<1>4. c \in ChipStates /\ c.mode = chip.mode /\ c.irq = chip.irq
      /\ c.rxNb = chip.rxNb /\ c.fifoPtr = TxBaseAddr
  BY <1>3 DEF ChipStates
<1>. HIDE DEF c
<1>5. TxIntact' /\ SendProgress' /\ LengthKnown'
  BY <1>2, <1>3, <1>4
     DEF TxIntact, SendProgress, LengthKnown, At, SendOps, ReceiveOps
<1>. QED  BY <1>1, <1>3, <1>4, <1>5, WriteStepInv DEF Labels, OpsAt

LEMMA SetTxBaseInv ==
  ASSUME IInv, Reliable, SetTxBase
  PROVE  IInv'
<1>. DEFINE c == [chip EXCEPT !.txBase = TxBaseAddr]
<1>1. WriteStep("tx_base", c, "pay_len")
  BY DEF SetTxBase
<1>2. /\ cpu.pc = "tx_base" /\ chip' = c /\ cpu'.pc = "pay_len"
      /\ cpu'.op = cpu.op /\ cpu'.msg = cpu.msg /\ cpu'.irqs = cpu.irqs
      /\ accepted' = accepted
  BY <1>1, WriteStepDone DEF Labels, history
<1>3. /\ TypeOK /\ chip \in ChipStates /\ LengthKnown /\ SendProgress
      /\ cpu.op \in SendOps
  BY <1>2, Begin DEF OpsAt
<1>4. c \in ChipStates /\ c.mode = chip.mode /\ c.irq = chip.irq
      /\ c.rxNb = chip.rxNb /\ c.fifoPtr = chip.fifoPtr /\ c.txBase = TxBaseAddr
  BY <1>3 DEF ChipStates
<1>. HIDE DEF c
<1>5. TxIntact' /\ SendProgress' /\ LengthKnown'
  BY <1>2, <1>3, <1>4
     DEF TxIntact, SendProgress, LengthKnown, At, SendOps, ReceiveOps
<1>. QED  BY <1>1, <1>3, <1>4, <1>5, WriteStepInv DEF Labels, OpsAt

LEMMA SetPayloadLengthInv ==
  ASSUME IInv, Reliable, SetPayloadLength
  PROVE  IInv'
<1>. DEFINE c == [chip EXCEPT !.payLen = Length[cpu.msg]]
            next == IF cpu.op = "send_packet_dma_start" THEN "start_tx_dma"
                    ELSE "write_fifo"
<1>1. WriteStep("pay_len", c, next)
  BY DEF SetPayloadLength
<1>0. next \in Labels /\ "pay_len" \in Labels \ {"idle"}
  BY DEF Labels
<1>2. /\ cpu.pc = "pay_len" /\ chip' = c /\ cpu'.pc = next
      /\ cpu'.op = cpu.op /\ cpu'.msg = cpu.msg /\ cpu'.irqs = cpu.irqs
      /\ accepted' = accepted
  BY <1>0, <1>1, WriteStepDone DEF history
<1>3. /\ TypeOK /\ chip \in ChipStates /\ LengthKnown /\ SendProgress
      /\ cpu.op \in SendOps /\ cpu.msg \in Messages
  BY <1>2, Begin DEF OpsAt, CpuStates
<1>4. c \in ChipStates /\ c.mode = chip.mode /\ c.irq = chip.irq
      /\ c.rxNb = chip.rxNb /\ c.fifoPtr = chip.fifoPtr
      /\ c.txBase = chip.txBase /\ c.payLen = Length[cpu.msg]
  BY <1>3, LengthFacts DEF ChipStates, Payloads
<1>. HIDE DEF c
<1>5. TxIntact' /\ SendProgress' /\ LengthKnown'
  BY <1>2, <1>3, <1>4
     DEF TxIntact, SendProgress, LengthKnown, At, SendOps, ReceiveOps
<1>6. cpu.op \in OpsAt(next)
  BY <1>3 DEF OpsAt, SendOps
<1>. QED  BY <1>0, <1>1, <1>3, <1>4, <1>5, <1>6, WriteStepInv

\* The whole message at the base address of the transmission.
LEMMA WriteFifoInv ==
  ASSUME IInv, Reliable, WriteFifo
  PROVE  IInv'
<1>. DEFINE c == PutFifo(chip, cpu.msg, Length[cpu.msg])
<1>1. WriteStep("write_fifo", c, "transmit")
  BY DEF WriteFifo
<1>2. /\ cpu.pc = "write_fifo" /\ chip' = c /\ cpu'.pc = "transmit"
      /\ cpu'.op = cpu.op /\ cpu'.msg = cpu.msg /\ cpu'.irqs = cpu.irqs
      /\ accepted' = accepted
  BY <1>1, WriteStepDone DEF Labels, history
<1>3. /\ TypeOK /\ chip \in ChipStates /\ LengthKnown /\ SendProgress
      /\ cpu.op \in {"send_packet", "send_packet_blocking"}
      /\ cpu.msg \in Messages
  BY <1>2, Begin DEF OpsAt, CpuStates, SendOps
<1>4. chip.mode = "STDBY" /\ chip.fifoPtr = chip.txBase
      /\ chip.payLen = Length[cpu.msg]
  BY <1>2, <1>3 DEF SendProgress, SendOps
<1>5. cpu.msg \in Payloads /\ Length[cpu.msg] \in 0 .. FifoSize
  BY <1>3, LengthFacts DEF Payloads
<1>6. c \in ChipStates /\ c.mode = chip.mode /\ c.irq = chip.irq
      /\ c.rxNb = chip.rxNb /\ c.txBase = chip.txBase /\ c.payLen = chip.payLen
      /\ Frame(c) = Bytes(cpu.msg)
  BY <1>3, <1>4, <1>5, PutFifoFacts, FrameOfPut
<1>. HIDE DEF c
<1>7. TxIntact' /\ SendProgress' /\ LengthKnown'
  BY <1>2, <1>3, <1>4, <1>6
     DEF TxIntact, SendProgress, LengthKnown, At, SendOps, ReceiveOps
<1>. QED  BY <1>1, <1>3, <1>6, <1>7, WriteStepInv DEF Labels, OpsAt

\* The DMA starts; the call returns while it runs, with NSS low.
LEMMA StartTxDmaInv ==
  ASSUME IInv, Reliable, StartTxDma
  PROVE  IInv'
<1>1. /\ cpu.pc = "start_tx_dma" /\ nss' = "low"
      /\ UNCHANGED <<chip, buffer, accepted, aired, event, heard, calls>>
      /\ ReturnLen("LORA_OK", 0)
  BY DEF StartTxDma, At, Return, history
<1>2. PICK ok \in SpiOutcomes :
         /\ CountFault(ok)
         /\ dma' = IF ok THEN [job |-> "tx", payload |-> cpu.msg,
                               len |-> Length[cpu.msg], cut |-> FALSE]
                   ELSE dma
  BY DEF StartTxDma
<1>3. ok = TRUE
  BY <1>1, BusFree
<1>4. /\ dma' = [job |-> "tx", payload |-> cpu.msg,
                 len |-> Length[cpu.msg], cut |-> FALSE]
      /\ faults' = faults
  BY <1>2, <1>3 DEF CountFault
<1>5. /\ TypeOK /\ LengthKnown /\ SendProgress /\ TxIntact
      /\ cpu.op = "send_packet_dma_start" /\ cpu.msg \in Messages
  BY <1>1, Begin DEF OpsAt, CpuStates, SendOps
<1>6. /\ accepted = cpu.msg /\ chip.mode = "STDBY"
      /\ chip.fifoPtr = TxBaseAddr /\ chip.txBase = TxBaseAddr
      /\ chip.payLen = Length[cpu.msg]
  BY <1>1, <1>5 DEF SendProgress, SendOps, At
<1>7. /\ cpu' = Idle /\ cpu' \in CpuStates /\ ret' \in Ret
      /\ ret'.op = "send_packet_dma_start"
  BY <1>1, <1>5, ReturnType DEF Codes, Lens
<1>8. Length[cpu.msg] \in Lens
  BY <1>5, LengthFacts DEF Lens, Payloads
<1>9. TypeOK'
  BY <1>1, <1>4, <1>5, <1>7, <1>8
     DEF TypeOK, ChipType, CpuStates, IsFrame
<1>10. CallShape' /\ BusFramed' /\ LengthKnown'
  BY <1>1, <1>4, <1>5, <1>7 DEF CallShape, OpsAt, BusFramed, NssFramesDma,
     DmaRunning, At, LengthKnown, Idle, SendOps, ReceiveOps
<1>11. SendProgress' /\ TxIntact' /\ DmaProgress' /\ WaitTruthful'
  BY <1>1, <1>4, <1>5, <1>6, <1>7 DEF SendProgress, TxIntact, DmaProgress,
     WaitTruthful, At, Idle, SendOps
<1>. QED  BY <1>9, <1>10, <1>11 DEF IInv

\* The message goes on the air.
LEMMA TransmitInv ==
  ASSUME IInv, Reliable, Transmit
  PROVE  IInv'
<1>. DEFINE c == SetMode(chip, "TX")
<1>1. cpu.pc = "transmit" /\ WriteRegister(c) /\ Quiet
      /\ ReturnFrom("send_packet", "LORA_OK", "poll_tx")
  BY DEF Transmit, At
<1>2. /\ TypeOK /\ chip \in ChipStates /\ cpu \in CpuStates /\ LengthKnown
      /\ SendProgress
      /\ cpu.op \in {"send_packet", "send_packet_blocking"}
  BY <1>1, Begin DEF OpsAt
<1>3. c \in ChipStates /\ c.mode = "TX" /\ c.irq = chip.irq
      /\ c.rxNb = chip.rxNb /\ Frame(c) = Frame(chip)
  BY <1>2, SetModeFacts DEF Modes
<1>4. Frame(c) = Bytes(cpu.msg) /\ accepted = cpu.msg /\ "TX_DONE" \notin c.irq
  BY <1>1, <1>2, <1>3 DEF SendProgress, At, SendOps
<1>. HIDE DEF c
<1>5. CASE cpu.op = "send_packet"
  <2>1. Return("LORA_OK")
    BY <1>1, <1>5 DEF ReturnFrom
  <2>. QED  BY <1>1, <1>2, <1>3, <1>4, <1>5, <2>1, LastWriteInv
       DEF Codes, LengthKnown
<1>6. CASE cpu.op = "send_packet_blocking"
  <2>1. WriteStep("transmit", c, "poll_tx")
    BY <1>1, <1>6 DEF ReturnFrom, WriteStep, At
  <2>2. /\ chip' = c /\ cpu'.pc = "poll_tx" /\ cpu'.op = cpu.op
        /\ cpu'.msg = cpu.msg /\ cpu'.irqs = cpu.irqs /\ cpu' \in CpuStates
        /\ cpu'.elapsed = cpu.elapsed
        /\ UNCHANGED <<nss, dma, faults, buffer, accepted, aired, event, heard,
                       calls, ret>>
    BY <2>1, WriteStepDone DEF Labels, history
  <2>3. TxIntact' /\ SendProgress' /\ LengthKnown'
    BY <1>1, <1>2, <1>3, <1>4, <1>6, <2>2
       DEF TxIntact, SendProgress, LengthKnown, At, SendOps, ReceiveOps
  <2>4. /\ accepted' \in Messages \cup {NoPayload}
        /\ event' \in DOMAIN Outcomes \cup {"none", "timeout"}
    BY <2>2, Begin
  <2>5. cpu.op \in OpsAt("poll_tx")
    BY <1>6 DEF OpsAt
  <2>. QED  BY <1>1, <1>3, <1>4, <2>2, <2>3, <2>4, <2>5, GoOnInv
<1>. QED  BY <1>2, <1>5, <1>6

\* The wait sees the TX_DONE of its own transmission or none.
LEMMA PollTxDoneInv ==
  ASSUME IInv, Reliable, PollTxDone
  PROVE  IInv'
<1>1. cpu.pc = "poll_tx" /\ Quiet
  BY DEF PollTxDone, At
<1>2. PICK irqs : /\ ReadRegister(chip.irq, {}, irqs)
                  /\ Goto(IF "TX_DONE" \in irqs THEN "ack_tx" ELSE "delay_tx")
  BY DEF PollTxDone
<1>3. irqs = chip.irq /\ UNCHANGED <<chip, nss, dma, faults>>
  BY <1>1, <1>2, ReadDone
<1>4. /\ TypeOK /\ chip \in ChipStates /\ LengthKnown /\ SendProgress /\ TxIntact
      /\ cpu.op = "send_packet_blocking" /\ WaitTruthful
  BY <1>1, Begin DEF OpsAt, IInv
<1>. DEFINE next == IF "TX_DONE" \in chip.irq THEN "ack_tx" ELSE "delay_tx"
<1>5. next \in {"ack_tx", "delay_tx"} /\ next \in Labels /\ next # "idle"
      /\ cpu.op \in OpsAt(next)
  BY <1>4 DEF Labels, OpsAt
<1>6. /\ cpu' \in CpuStates /\ ret' = ret /\ cpu'.elapsed = cpu.elapsed
      /\ cpu'.pc = next /\ cpu'.op = cpu.op /\ cpu'.msg = cpu.msg
      /\ cpu'.irqs = cpu.irqs
  BY <1>2, <1>3, <1>4, <1>5, GotoType
<1>7. UNCHANGED <<buffer, accepted, aired, event, heard, calls>>
  BY <1>1 DEF Quiet, history
<1>8. TxIntact' /\ SendProgress' /\ LengthKnown'
  BY <1>1, <1>3, <1>4, <1>5, <1>6, <1>7
     DEF TxIntact, SendProgress, LengthKnown, At, SendOps, ReceiveOps
<1>9. "TX_DONE" \in chip.irq => aired = Bytes(cpu.msg) /\ chip.mode # "TX"
  BY <1>1, <1>4 DEF WaitTruthful
<1>10. /\ accepted' \in Messages \cup {NoPayload}
       /\ event' \in DOMAIN Outcomes \cup {"none", "timeout"}
  BY <1>7, Begin
<1>. QED  BY <1>1, <1>3, <1>4, <1>5, <1>6, <1>7, <1>8, <1>9, <1>10, GoOnInv

LEMMA AckTxDoneInv ==
  ASSUME IInv, Reliable, AckTxDone
  PROVE  IInv'
<1>1. cpu.pc = "ack_tx" /\ WriteRegister(TxDoneCleared) /\ Quiet
      /\ Return("LORA_OK")
  BY DEF AckTxDone, At
<1>2. /\ chip \in ChipStates /\ LengthKnown
      /\ aired = Bytes(cpu.msg) /\ chip.mode # "TX"
  BY <1>1, Begin DEF IInv, WaitTruthful, At
<1>3. /\ TxDoneCleared \in ChipStates /\ TxDoneCleared.mode = chip.mode
      /\ TxDoneCleared.irq = chip.irq \ {"TX_DONE"}
      /\ TxDoneCleared.rxNb = chip.rxNb
  BY <1>2, TxDoneClearedFacts
<1>. QED  BY <1>1, <1>2, <1>3, LastWriteInv DEF Codes, LengthKnown

LEMMA DelayTxInv ==
  ASSUME IInv, Reliable, DelayTx
  PROVE  IInv'
<1>1. /\ cpu.pc = "delay_tx"
      /\ UNCHANGED <<chip, nss, dma, buffer, accepted, aired, event, heard,
                     faults, calls>>
  BY DEF DelayTx, At, history
<1>2. /\ TypeOK /\ chip \in ChipStates /\ cpu \in CpuStates
      /\ LengthKnown /\ SendProgress /\ TxIntact
      /\ cpu.op = "send_packet_blocking" /\ WaitTruthful
      /\ cpu.elapsed \in 0 .. Timeout
  BY <1>1, Begin DEF OpsAt, IInv, CpuStates
<1>3. CASE NextElapsed < Timeout
  <2>1. /\ cpu' = [cpu EXCEPT !.elapsed = NextElapsed, !.pc = "poll_tx"]
        /\ ret' = ret /\ NextElapsed \in 0 .. Timeout
    BY <1>2, <1>3 DEF DelayTx, NextElapsed
  <2>2. /\ cpu' \in CpuStates /\ cpu'.pc = "poll_tx" /\ cpu'.op = cpu.op
        /\ cpu'.msg = cpu.msg /\ cpu'.irqs = cpu.irqs
        /\ cpu'.elapsed < Timeout
    BY <1>2, <1>3, <2>1 DEF CpuStates, Labels
  <2>3. TxIntact' /\ SendProgress' /\ LengthKnown'
    BY <1>1, <1>2, <2>2
       DEF TxIntact, SendProgress, LengthKnown, At, SendOps, ReceiveOps
  <2>4. /\ cpu.op \in OpsAt("poll_tx")
        /\ "TX_DONE" \in chip.irq => aired = Bytes(cpu.msg) /\ chip.mode # "TX"
        /\ accepted' \in Messages \cup {NoPayload}
        /\ event' \in DOMAIN Outcomes \cup {"none", "timeout"}
    BY <1>1, <1>2, Begin DEF WaitTruthful, OpsAt
  <2>. QED  BY <1>1, <1>2, <2>1, <2>2, <2>3, <2>4, GoOnInv
<1>4. CASE ~(NextElapsed < Timeout)
  <2>1. ReturnLen("LORA_TIMEOUT", 0)
    BY <1>4 DEF DelayTx, Return
  <2>2. TxIntact' /\ IsFrame(buffer')
        /\ ("RX_DONE" \in chip'.irq => chip'.rxNb > 0)
        /\ accepted' \in Messages \cup {NoPayload}
        /\ event' \in DOMAIN Outcomes \cup {"none", "timeout"}
    BY <1>1, <1>2, Begin DEF TxIntact, LengthKnown
  <2>. QED  BY <1>1, <1>2, <2>1, <2>2, ReturnInv DEF Codes, Lens
<1>. QED  BY <1>3, <1>4

-----------------------------------------------------------------------------
(* The steps of the receive and mode calls.                                *)

LEMMA SetRxBaseInv ==
  ASSUME IInv, Reliable, SetRxBase
  PROVE  IInv'
<1>. DEFINE c == [chip EXCEPT !.rxBase = RxBaseAddr]
<1>1. WriteStep("rx_base", c, "clear_rx")
  BY DEF SetRxBase
<1>2. /\ cpu.pc = "rx_base" /\ chip' = c /\ cpu'.pc = "clear_rx"
      /\ cpu'.op = cpu.op /\ cpu'.msg = cpu.msg /\ cpu'.irqs = cpu.irqs
      /\ accepted' = accepted
  BY <1>1, WriteStepDone DEF Labels, history
<1>3. /\ chip \in ChipStates /\ LengthKnown /\ TxIntact /\ cpu.op \in Receivers
  BY <1>2, Begin DEF OpsAt
<1>4. c \in ChipStates /\ c.mode = chip.mode /\ c.irq = chip.irq
      /\ c.rxNb = chip.rxNb /\ Frame(c) = Frame(chip)
  BY <1>3, FrameSame DEF ChipStates
<1>. HIDE DEF c
<1>5. TxIntact' /\ SendProgress' /\ LengthKnown'
  BY <1>2, <1>3, <1>4
     DEF TxIntact, SendProgress, LengthKnown, At, SendOps, ReceiveOps, Receivers
<1>. QED  BY <1>1, <1>3, <1>4, <1>5, WriteStepInv DEF Labels, OpsAt

LEMMA RxClearedFacts ==
  ASSUME chip \in ChipStates
  PROVE  /\ RxCleared \in ChipStates
         /\ RxCleared.irq = chip.irq \ RX_ALL
         /\ RxCleared.mode = chip.mode /\ RxCleared.rxNb = chip.rxNb
         /\ Frame(RxCleared) = Frame(chip)
<1>1. RxCleared = [chip EXCEPT !.irq = @ \ RX_ALL]
  BY DEF RxCleared, ClearIrq
<1>. QED  BY <1>1, ClearIrqType, FrameSame DEF RxCleared, ChipStates

\* A receive call goes on to the length only if it saw RX_DONE.
LEMMA ClearRxInv ==
  ASSUME IInv, Reliable, ClearRx
  PROVE  IInv'
<1>. DEFINE c == RxCleared
<1>1. /\ cpu.pc = "clear_rx" /\ WriteRegister(c)
      /\ UNCHANGED <<buffer, accepted, aired, heard, calls>>
  BY DEF ClearRx, At
<1>2. chip' = c /\ UNCHANGED <<nss, dma, faults>>
  BY <1>1, WriteDone
<1>3. /\ TypeOK /\ chip \in ChipStates /\ LengthKnown /\ TxIntact
      /\ cpu.op \in ReceiveOps \cup Receivers \cup {"clear_interrupt_rx_all"}
      /\ accepted' \in Messages \cup {NoPayload} /\ IsFrame(buffer')
      /\ event \in DOMAIN Outcomes \cup {"none", "timeout"}
  BY <1>1, Begin DEF OpsAt
<1>4. /\ c \in ChipStates /\ c.mode = chip.mode /\ c.irq = chip.irq \ RX_ALL
      /\ c.rxNb = chip.rxNb /\ Frame(c) = Frame(chip)
  BY <1>3, RxClearedFacts
<1>. HIDE DEF c
<1>5. TxIntact' /\ ("RX_DONE" \in chip'.irq => chip'.rxNb > 0)
  BY <1>1, <1>2, <1>3, <1>4 DEF TxIntact, LengthKnown
<1>6. ASSUME NEW code \in Codes, Return(code),
             event' \in {event, "none"}
      PROVE  IInv'
  <2>1. ReturnLen(code, 0) /\ 0 \in Lens
    BY <1>6 DEF Return, Lens
  <2>2. event' \in DOMAIN Outcomes \cup {"none", "timeout"}
    BY <1>3, <1>6
  <2>3. cpu.op # "send_packet_blocking"
    BY <1>3 DEF ReceiveOps, Receivers
  <2>. QED  BY <1>1, <1>2, <1>3, <1>4, <1>5, <1>6, <2>1, <2>2, <2>3, ReturnInv
<1>7. ASSUME NEW next \in {"rx_mode", "header_mode"}, Goto(next),
             event' \in {event, "none"}, cpu.op \in OpsAt(next),
             next = "header_mode" => "RX_DONE" \in cpu.irqs
      PROVE  IInv'
  <2>1. /\ cpu' \in CpuStates /\ ret' = ret /\ cpu'.elapsed = cpu.elapsed
        /\ cpu'.pc = next /\ cpu'.op = cpu.op /\ cpu'.msg = cpu.msg
        /\ cpu'.irqs = cpu.irqs
    BY <1>3, <1>7, GotoType DEF Labels
  <2>2. SendProgress' /\ LengthKnown'
    BY <1>1, <1>2, <1>3, <1>4, <1>7, <2>1
       DEF SendProgress, LengthKnown, At, SendOps, ReceiveOps, Receivers
  <2>3. event' \in DOMAIN Outcomes \cup {"none", "timeout"}
    BY <1>3, <1>7
  <2>. QED  BY <1>1, <1>2, <1>3, <1>4, <1>5, <1>7, <2>1, <2>2, <2>3, GoOnInv
<1>8. CASE cpu.op \in ModeOps /\ Goto("rx_mode") /\ event' = "none"
  <2>1. cpu.op \in OpsAt("rx_mode")
    BY <1>3, <1>8 DEF OpsAt, ModeOps, ReceiveOps
  <2>. QED  BY <1>7, <1>8, <2>1
<1>9. CASE Return("void") /\ event' = "none"
  BY <1>6, <1>9 DEF Codes
<1>10. CASE cpu.op \in ReceiveOps /\ Verdict(cpu.irqs) = "LORA_OK"
            /\ Goto("header_mode") /\ UNCHANGED event
  <2>1. "RX_DONE" \in cpu.irqs
    BY <1>10 DEF Verdict
  <2>2. cpu.op \in OpsAt("header_mode")
    BY <1>10 DEF OpsAt
  <2>. QED  BY <1>7, <1>10, <2>1, <2>2
<1>11. CASE /\ Return(Verdict(cpu.irqs))
            /\ event' = IF Verdict(cpu.irqs) = "LORA_EMPTY" THEN event ELSE "none"
  <2>1. Verdict(cpu.irqs) \in Codes
    BY DEF Verdict, Codes
  <2>. QED  BY <1>6, <1>11, <2>1
<1>. QED  BY <1>8, <1>9, <1>10, <1>11 DEF ClearRx

LEMMA SetRxModeInv ==
  ASSUME IInv, Reliable, SetRxMode
  PROVE  IInv'
<1>. DEFINE m == IF cpu.op = "mode_receive_single"
                 THEN "RX_SINGLE" ELSE "RX_CONTINUOUS"
            c == SetMode(chip, m)
<1>1. cpu.pc = "rx_mode" /\ WriteRegister(c) /\ Quiet /\ Return("void")
  BY DEF SetRxMode, At
<1>2. chip \in ChipStates /\ LengthKnown /\ cpu.op \in Receivers
  BY <1>1, Begin DEF OpsAt
<1>3. m \in Modes /\ m # "TX"
  BY DEF Modes
<1>4. c \in ChipStates /\ c.mode # "TX" /\ c.irq = chip.irq
      /\ c.rxNb = chip.rxNb
  BY <1>2, <1>3, SetModeFacts
<1>. QED  BY <1>1, <1>2, <1>4, LastWriteInv DEF Codes, LengthKnown

\* A step of a call that only reads a register and goes on.
LEMMA ReadGoOnInv ==
  ASSUME IInv, Reliable, cpu.pc # "idle", NEW next \in Labels,
         cpu.op \notin SendOps, cpu.op \in OpsAt(next), next # "idle",
         cpu' \in CpuStates, cpu'.pc = next, UNCHANGED ret,
         cpu'.op = cpu.op /\ cpu'.msg = cpu.msg,
         next \in {"poll_rx", "delay_rx"} => cpu'.elapsed < Timeout,
         LengthKnown',
         UNCHANGED <<chip, nss, dma, faults, buffer, accepted, aired, event,
                     heard, calls>>
  PROVE  IInv'
<1>1. /\ chip \in ChipStates /\ TxIntact
      /\ accepted \in Messages \cup {NoPayload}
      /\ event \in DOMAIN Outcomes \cup {"none", "timeout"}
  BY Begin
<1>2. next \notin {"tx_ptr", "tx_base", "pay_len", "write_fifo", "start_tx_dma",
                   "transmit", "poll_tx", "delay_tx", "ack_tx"}
  BY DEF OpsAt, SendOps
<1>3. TxIntact' /\ SendProgress'
  BY <1>1, <1>2 DEF TxIntact, SendProgress, At
<1>. QED  BY <1>1, <1>2, <1>3, GoOnInv

\* A step that only reads a register and returns.
LEMMA ReadReturnInv ==
  ASSUME IInv, Reliable, cpu.pc # "idle", cpu.op # "send_packet_blocking",
         NEW code \in Codes, NEW len \in Lens, ReturnLen(code, len),
         UNCHANGED <<chip, nss, dma, faults, buffer, accepted, aired, event,
                     heard, calls>>
  PROVE  IInv'
<1>1. /\ chip \in ChipStates /\ TxIntact' /\ IsFrame(buffer')
      /\ ("RX_DONE" \in chip.irq => chip.rxNb > 0)
      /\ accepted \in Messages \cup {NoPayload}
      /\ event \in DOMAIN Outcomes \cup {"none", "timeout"}
  BY Begin DEF TxIntact, LengthKnown
<1>. QED  BY <1>1, ReturnInv

LEMMA PollRxInv ==
  ASSUME IInv, Reliable, PollRx
  PROVE  IInv'
<1>1. /\ cpu.pc = "poll_rx"
      /\ UNCHANGED <<buffer, accepted, aired, event, heard, calls>>
  BY DEF PollRx, At, Quiet, history
<1>2. PICK irqs : /\ ReadRegister(chip.irq, {}, irqs)
                  /\ IF cpu.op = "is_packet_available"
                     THEN Return(IF Available(irqs) THEN "ready" ELSE "not_ready")
                     ELSE Goto(IF Available(irqs) THEN "read_irq" ELSE "delay_rx")
  BY DEF PollRx
<1>3. irqs = chip.irq /\ UNCHANGED <<chip, nss, dma, faults>>
  BY <1>1, <1>2, ReadDone
<1>4. /\ TypeOK /\ LengthKnown
      /\ cpu.op \in {"is_packet_available", "receive_packet_blocking"}
      /\ cpu.elapsed < Timeout
  BY <1>1, Begin DEF OpsAt, IInv, CallShape
<1>5. CASE cpu.op = "is_packet_available"
  <2>. DEFINE code == IF Available(irqs) THEN "ready" ELSE "not_ready"
  <2>1. code \in Codes /\ 0 \in Lens /\ ReturnLen(code, 0)
    BY <1>2, <1>5 DEF Codes, Lens, Return
  <2>. QED  BY <1>1, <1>3, <1>5, <2>1, ReadReturnInv
<1>6. CASE cpu.op = "receive_packet_blocking"
  <2>. DEFINE next == IF Available(irqs) THEN "read_irq" ELSE "delay_rx"
  <2>1. next \in Labels /\ next \in {"read_irq", "delay_rx"} /\ Goto(next)
        /\ cpu.op \in OpsAt(next)
    BY <1>2, <1>6 DEF Labels, OpsAt, ReceiveOps
  <2>. HIDE DEF next
  <2>2. /\ cpu' \in CpuStates /\ ret' = ret /\ cpu'.elapsed = cpu.elapsed
        /\ cpu'.pc = next /\ cpu'.op = cpu.op /\ cpu'.msg = cpu.msg
        /\ cpu'.irqs = cpu.irqs
    BY <1>4, <2>1, GotoType
  <2>3. LengthKnown'
    BY <1>1, <1>3, <1>4, <2>1, <2>2 DEF LengthKnown
  <2>4. cpu.op \notin SendOps
    BY <1>6 DEF SendOps
  <2>. QED  BY <1>1, <1>3, <1>4, <2>1, <2>2, <2>3, <2>4, ReadGoOnInv
<1>. QED  BY <1>4, <1>5, <1>6

LEMMA DelayRxInv ==
  ASSUME IInv, Reliable, DelayRx
  PROVE  IInv'
<1>. DEFINE next == IF NextElapsed < Timeout THEN "poll_rx" ELSE "read_irq"
<1>1. /\ cpu.pc = "delay_rx"
      /\ cpu' = [cpu EXCEPT !.elapsed = NextElapsed, !.pc = next]
      /\ UNCHANGED <<chip, nss, dma, ret, buffer, accepted, aired, event, heard,
                     faults, calls>>
  BY DEF DelayRx, At, history
<1>2. /\ cpu \in CpuStates /\ LengthKnown /\ cpu.elapsed < Timeout
      /\ cpu.op = "receive_packet_blocking"
  BY <1>1, Begin DEF OpsAt, IInv, CallShape
<1>3. /\ next \in {"poll_rx", "read_irq"} /\ next \in Labels
      /\ next = "poll_rx" => NextElapsed < Timeout
      /\ cpu.op \in OpsAt(next) /\ cpu.op \notin SendOps
  BY <1>2 DEF Labels, OpsAt, ReceiveOps, SendOps
<1>. HIDE DEF next
<1>4. NextElapsed \in 0 .. Timeout
  BY <1>2 DEF NextElapsed, CpuStates
<1>5. /\ cpu' \in CpuStates /\ cpu'.pc = next /\ cpu'.op = cpu.op
      /\ cpu'.msg = cpu.msg /\ cpu'.irqs = cpu.irqs
      /\ cpu'.elapsed = NextElapsed
  BY <1>1, <1>2, <1>3, <1>4 DEF CpuStates
<1>6. LengthKnown'
  BY <1>1, <1>2, <1>3, <1>5 DEF LengthKnown
<1>. QED  BY <1>1, <1>3, <1>5, <1>6, ReadGoOnInv

LEMMA ReadIrqInv ==
  ASSUME IInv, Reliable, ReadIrq
  PROVE  IInv'
<1>1. /\ cpu.pc = "read_irq"
      /\ UNCHANGED <<ret, buffer, accepted, aired, event, heard, calls>>
  BY DEF ReadIrq, At, history
<1>2. PICK irqs : /\ ReadRegister(chip.irq, {}, irqs)
                  /\ cpu' = [cpu EXCEPT !.pc = "clear_rx", !.irqs = irqs]
  BY DEF ReadIrq
<1>3. irqs = chip.irq /\ UNCHANGED <<chip, nss, dma, faults>>
  BY <1>1, <1>2, ReadDone
<1>4. /\ cpu \in CpuStates /\ chip \in ChipStates /\ LengthKnown
      /\ cpu.op \in ReceiveOps
  BY <1>1, Begin DEF OpsAt
<1>5. /\ "clear_rx" \in Labels /\ cpu.op \in OpsAt("clear_rx")
      /\ cpu.op \notin SendOps
  BY <1>4 DEF Labels, OpsAt, ReceiveOps, SendOps
<1>6. /\ cpu' \in CpuStates /\ cpu'.pc = "clear_rx" /\ cpu'.op = cpu.op
      /\ cpu'.msg = cpu.msg /\ cpu'.irqs = chip.irq
  BY <1>2, <1>3, <1>4, <1>5 DEF CpuStates, ChipStates
<1>7. LengthKnown'
  BY <1>1, <1>3, <1>4, <1>6 DEF LengthKnown
<1>. QED  BY <1>1, <1>3, <1>5, <1>6, <1>7, ReadGoOnInv

LEMMA ReadHeaderModeInv ==
  ASSUME IInv, Reliable, ReadHeaderMode
  PROVE  IInv'
<1>1. /\ cpu.pc = "header_mode"
      /\ UNCHANGED <<buffer, accepted, aired, event, heard, calls>>
  BY DEF ReadHeaderMode, At, Quiet, history
<1>2. PICK implicit : /\ ReadRegister(Implicit, FALSE, implicit)
                      /\ Goto(IF implicit THEN "payload_length" ELSE "rx_nb_bytes")
  BY DEF ReadHeaderMode
<1>3. UNCHANGED <<chip, nss, dma, faults>>
  BY <1>1, <1>2, ReadDone
<1>. DEFINE next == IF implicit THEN "payload_length" ELSE "rx_nb_bytes"
<1>4. /\ TypeOK /\ LengthKnown
      /\ cpu.op \in ReceiveOps \cup {"pending_packet_length"}
  BY <1>1, Begin DEF OpsAt
<1>5. /\ next \in Labels /\ next \in {"payload_length", "rx_nb_bytes"}
      /\ cpu.op \in OpsAt(next) /\ cpu.op \notin SendOps /\ Goto(next)
  BY <1>2, <1>4 DEF Labels, OpsAt, ReceiveOps, SendOps
<1>. HIDE DEF next
<1>6. /\ cpu' \in CpuStates /\ ret' = ret
      /\ cpu'.pc = next /\ cpu'.op = cpu.op /\ cpu'.msg = cpu.msg
      /\ cpu'.irqs = cpu.irqs
  BY <1>4, <1>5, GotoType
<1>7. LengthKnown'
  BY <1>1, <1>3, <1>4, <1>5, <1>6 DEF LengthKnown
<1>. QED  BY <1>1, <1>3, <1>5, <1>6, <1>7, ReadGoOnInv

\* Neither register can be 0 when a receive call reads it.
LEMMA ReadLengthInv ==
  ASSUME IInv, Reliable, ReadLength
  PROVE  IInv'
<1>1. /\ cpu.pc \in {"payload_length", "rx_nb_bytes"}
      /\ UNCHANGED <<buffer, accepted, aired, event, heard, calls>>
  BY DEF ReadLength, Quiet, history
<1>2. PICK len :
        /\ ReadRegister(LengthRegister, 0, len)
        /\ IF cpu.op = "pending_packet_length" THEN ReturnLen("void", len)
           ELSE /\ cpu' = [cpu EXCEPT !.pc = "rx_current", !.len = len]
                /\ UNCHANGED ret
  BY DEF ReadLength
<1>3. len = LengthRegister /\ UNCHANGED <<chip, nss, dma, faults>>
  BY <1>1, <1>2, ReadDone
<1>4. /\ cpu \in CpuStates /\ chip \in ChipStates /\ LengthKnown
      /\ cpu.op \in ReceiveOps \cup {"pending_packet_length"}
  BY <1>1, Begin DEF OpsAt
<1>5. len \in Lens /\ (cpu.op \in ReceiveOps => len > 0)
  BY <1>1, <1>3, <1>4 DEF LengthRegister, LengthKnown, ChipStates, Lens, At
<1>6. CASE cpu.op = "pending_packet_length"
  <2>1. ReturnLen("void", len) /\ "void" \in Codes
    BY <1>2, <1>6 DEF Codes
  <2>. QED  BY <1>1, <1>3, <1>5, <1>6, <2>1, ReadReturnInv
<1>7. CASE cpu.op # "pending_packet_length"
  <2>1. /\ cpu' = [cpu EXCEPT !.pc = "rx_current", !.len = len]
        /\ UNCHANGED ret
    BY <1>2, <1>7
  <2>2. /\ "rx_current" \in Labels /\ cpu.op \in ReceiveOps
        /\ cpu.op \in OpsAt("rx_current") /\ cpu.op \notin SendOps
    BY <1>4, <1>7 DEF Labels, OpsAt, ReceiveOps, SendOps
  <2>3. /\ cpu' \in CpuStates /\ cpu'.pc = "rx_current" /\ cpu'.op = cpu.op
        /\ cpu'.msg = cpu.msg /\ cpu'.irqs = cpu.irqs /\ cpu'.len = len
    BY <1>4, <1>5, <2>1, <2>2 DEF CpuStates
  <2>4. LengthKnown'
    BY <1>3, <1>4, <1>5, <2>2, <2>3 DEF LengthKnown
  <2>. QED  BY <1>1, <1>3, <2>1, <2>2, <2>3, <2>4, ReadGoOnInv
<1>. QED  BY <1>6, <1>7

LEMMA ReadRxCurrentInv ==
  ASSUME IInv, Reliable, ReadRxCurrent
  PROVE  IInv'
<1>1. /\ cpu.pc = "rx_current"
      /\ UNCHANGED <<ret, buffer, accepted, aired, event, heard, calls>>
  BY DEF ReadRxCurrent, At, history
<1>2. PICK offset : /\ ReadRegister(chip.rxCur, 0, offset)
                    /\ cpu' = [cpu EXCEPT !.pc = "rx_ptr", !.offset = offset]
  BY DEF ReadRxCurrent
<1>3. offset = chip.rxCur /\ UNCHANGED <<chip, nss, dma, faults>>
  BY <1>1, <1>2, ReadDone
<1>4. /\ cpu \in CpuStates /\ chip \in ChipStates /\ LengthKnown
      /\ cpu.op \in ReceiveOps
  BY <1>1, Begin DEF OpsAt
<1>5. /\ "rx_ptr" \in Labels /\ cpu.op \in OpsAt("rx_ptr")
      /\ cpu.op \notin SendOps
  BY <1>4 DEF Labels, OpsAt, ReceiveOps, SendOps
<1>6. /\ cpu' \in CpuStates /\ cpu'.pc = "rx_ptr" /\ cpu'.op = cpu.op
      /\ cpu'.msg = cpu.msg /\ cpu'.irqs = cpu.irqs /\ cpu'.len = cpu.len
  BY <1>2, <1>3, <1>4, <1>5 DEF CpuStates, ChipStates
<1>7. LengthKnown'
  BY <1>1, <1>3, <1>4, <1>6 DEF LengthKnown
<1>. QED  BY <1>1, <1>3, <1>5, <1>6, <1>7, ReadGoOnInv

LEMMA SetRxFifoPtrInv ==
  ASSUME IInv, Reliable, SetRxFifoPtr
  PROVE  IInv'
<1>. DEFINE c == [chip EXCEPT !.fifoPtr = cpu.offset]
            next == IF cpu.op = "receive_packet_dma_start" THEN "start_rx_dma"
                    ELSE "read_fifo"
<1>1. WriteStep("rx_ptr", c, next)
  BY DEF SetRxFifoPtr
<1>2. next \in Labels /\ next \in {"start_rx_dma", "read_fifo"}
      /\ "rx_ptr" \in Labels \ {"idle"}
  BY DEF Labels
<1>3. /\ cpu.pc = "rx_ptr" /\ chip' = c /\ cpu'.pc = next
      /\ cpu'.op = cpu.op /\ cpu'.msg = cpu.msg /\ cpu'.irqs = cpu.irqs
      /\ cpu'.len = cpu.len /\ accepted' = accepted
  BY <1>1, <1>2, WriteStepDone DEF history
<1>4. /\ chip \in ChipStates /\ cpu \in CpuStates /\ LengthKnown /\ TxIntact
      /\ cpu.op \in ReceiveOps
  BY <1>3, Begin DEF OpsAt
<1>5. c \in ChipStates /\ c.mode = chip.mode /\ c.irq = chip.irq
      /\ c.rxNb = chip.rxNb /\ Frame(c) = Frame(chip)
  BY <1>4, FrameSame DEF ChipStates, CpuStates
<1>6. cpu.op \in OpsAt(next)
  BY <1>4 DEF OpsAt, ReceiveOps
<1>. HIDE DEF c, next
<1>7. TxIntact' /\ SendProgress' /\ LengthKnown'
  BY <1>2, <1>3, <1>4, <1>5
     DEF TxIntact, SendProgress, LengthKnown, At, SendOps, ReceiveOps
<1>. QED  BY <1>1, <1>2, <1>4, <1>5, <1>6, <1>7, WriteStepInv

LEMMA ReadFifoInv ==
  ASSUME IInv, Reliable, ReadFifo
  PROVE  IInv'
<1>1. /\ cpu.pc = "read_fifo" /\ ReturnLen("LORA_OK", cpu.len)
      /\ event' = "none" /\ UNCHANGED <<accepted, aired, heard, calls>>
  BY DEF ReadFifo, At, CopyLength
<1>2. PICK ok \in SpiOutcomes :
         /\ Deselect(ok)
         /\ chip'   = IF ok THEN GotFifo(chip, cpu.len) ELSE chip
         /\ buffer' = IF ok THEN FifoBytes(chip, cpu.len)
                      ELSE [i \in 0 .. cpu.len - 1 |-> Blank]
  BY DEF ReadFifo, CopyLength
<1>3. ok = TRUE
  BY <1>1, BusFree
<1>4. chip' = GotFifo(chip, cpu.len) /\ buffer' = FifoBytes(chip, cpu.len)
      /\ UNCHANGED <<nss, dma, faults>>
  BY <1>1, <1>2, <1>3, DeselectDone
<1>5. /\ chip \in ChipStates /\ cpu.len \in Lens /\ LengthKnown /\ TxIntact
      /\ cpu.op # "send_packet_blocking"
      /\ accepted \in Messages \cup {NoPayload}
  BY <1>1, Begin DEF OpsAt, CpuStates
<1>6. cpu.len \in 0 .. FifoSize
  BY <1>5 DEF Lens
<1>7. /\ chip' \in ChipStates /\ chip'.mode = chip.mode /\ chip'.irq = chip.irq
      /\ chip'.rxNb = chip.rxNb /\ Frame(chip') = Frame(chip)
  BY <1>4, <1>5, <1>6, GotFifoFacts
<1>8. IsFrame(buffer')
  BY <1>4, <1>5, <1>6, FifoBytesType DEF IsFrame
<1>9. TxIntact' /\ ("RX_DONE" \in chip'.irq => chip'.rxNb > 0)
  BY <1>1, <1>5, <1>7 DEF TxIntact, LengthKnown
<1>. QED  BY <1>1, <1>4, <1>5, <1>7, <1>8, <1>9, ReturnInv DEF Codes

LEMMA StartRxDmaInv ==
  ASSUME IInv, Reliable, StartRxDma
  PROVE  IInv'
<1>1. /\ cpu.pc = "start_rx_dma" /\ nss' = "low" /\ event' = "none"
      /\ UNCHANGED <<chip, buffer, accepted, aired, heard, calls>>
      /\ ReturnLen("LORA_OK", cpu.len)
  BY DEF StartRxDma, At, CopyLength
<1>2. PICK ok \in SpiOutcomes :
         /\ CountFault(ok)
         /\ dma' = IF ok /\ cpu.len > 0
                   THEN [job |-> "rx", payload |-> NoPayload,
                         len |-> cpu.len, cut |-> FALSE]
                   ELSE dma
  BY DEF StartRxDma, CopyLength
<1>3. /\ TypeOK /\ LengthKnown /\ TxIntact /\ cpu.len \in Lens
      /\ cpu.op = "receive_packet_dma_start" /\ cpu.len > 0
  BY <1>1, Begin DEF OpsAt, CpuStates, LengthKnown
<1>4. ok = TRUE
  BY <1>1, BusFree
<1>5. /\ dma' = [job |-> "rx", payload |-> NoPayload,
                 len |-> cpu.len, cut |-> FALSE]
      /\ faults' = faults
  BY <1>2, <1>3, <1>4 DEF CountFault
<1>6. /\ cpu' = Idle /\ cpu' \in CpuStates /\ ret' \in Ret
      /\ ret'.op = "receive_packet_dma_start"
  BY <1>1, <1>3, ReturnType DEF Codes
<1>7. TypeOK'
  BY <1>1, <1>3, <1>5, <1>6 DEF TypeOK, ChipType, CpuStates, IsFrame
<1>8. CallShape' /\ BusFramed' /\ LengthKnown'
  BY <1>1, <1>3, <1>5, <1>6 DEF CallShape, OpsAt, BusFramed, NssFramesDma,
     DmaRunning, At, LengthKnown, Idle, SendOps, ReceiveOps
<1>9. SendProgress' /\ TxIntact' /\ DmaProgress' /\ WaitTruthful'
  BY <1>1, <1>3, <1>5, <1>6 DEF SendProgress, TxIntact, DmaProgress,
     WaitTruthful, At, Idle, SendOps
<1>. QED  BY <1>7, <1>8, <1>9 DEF IInv

-----------------------------------------------------------------------------
(* The DMA-complete interrupt, the radio, and the application.             *)

\* lora_send_packet_dma_complete() puts the whole message on the air.
LEMMA TxDmaCompleteInv ==
  ASSUME IInv, Reliable, TxDmaComplete
  PROVE  IInv'
<1>1. /\ dma.job = "tx" /\ dma' = NoDma /\ nss' = "high"
      /\ UNCHANGED <<cpu, ret, buffer, accepted, aired, event, heard, calls>>
  BY DEF TxDmaComplete, EndTransfer, control, history
<1>2. PICK n \in Moved, ok \in HalOutcomes :
         /\ chip' = AfterTxDma(PutFifo(chip, dma.payload, n), ok)
         /\ faults' = IF ok THEN faults ELSE faults + 1
  BY DEF TxDmaComplete
<1>3. /\ TypeOK /\ chip \in ChipStates /\ CallShape /\ BusFramed
      /\ LengthKnown /\ SendProgress /\ TxIntact /\ DmaProgress /\ WaitTruthful
      /\ cpu.pc = "idle" /\ ~dma.cut /\ cpu.op = "none"
  BY <1>1, Begin DEF IInv, BusFramed, DmaRunning, At, OpsAt
<1>4. /\ accepted \in Messages /\ dma.payload = accepted
      /\ chip.mode = "STDBY" /\ chip.fifoPtr = chip.txBase
      /\ dma.len = Length[accepted] /\ chip.payLen = Length[accepted]
  BY <1>1, <1>3 DEF DmaProgress
<1>5. n = Length[accepted] /\ n \in 0 .. FifoSize /\ accepted \in Payloads
  BY <1>3, <1>4, LengthFacts DEF Moved, Payloads
<1>6. ok = TRUE /\ faults' = faults
  BY <1>2, <1>3 DEF HalOutcomes, Reliable, TypeOK
<1>. DEFINE d == PutFifo(chip, accepted, n)
<1>7. /\ d \in ChipStates /\ d.mode = "STDBY" /\ d.irq = chip.irq
      /\ d.rxNb = chip.rxNb /\ Frame(d) = Bytes(accepted)
  BY <1>3, <1>4, <1>5, PutFifoFacts, FrameOfPut
<1>8. chip' = SetMode(d, "TX")
  BY <1>2, <1>4, <1>6 DEF AfterTxDma
<1>. HIDE DEF d
<1>9. /\ chip' \in ChipStates /\ chip'.mode = "TX" /\ chip'.irq = chip.irq
      /\ chip'.rxNb = chip.rxNb /\ Frame(chip') = Bytes(accepted)
  BY <1>7, <1>8, SetModeFacts DEF Modes
<1>10. TypeOK'
  <2>1. 0 \in Lens
    BY DEF Lens
  <2>. QED  BY <1>1, <1>3, <1>6, <1>9, <2>1
       DEF TypeOK, ChipType, ChipStates, NoDma, IsFrame
<1>11. CallShape' /\ BusFramed' /\ LengthKnown'
  BY <1>1, <1>3, <1>9 DEF CallShape, BusFramed, NssFramesDma, DmaRunning, At,
     NoDma, LengthKnown
<1>12. ret.op # "send_packet_blocking"
  BY <1>1, <1>3 DEF WaitTruthful
<1>13. SendProgress' /\ TxIntact' /\ DmaProgress' /\ WaitTruthful'
  BY <1>1, <1>3, <1>9, <1>12 DEF SendProgress, TxIntact, DmaProgress,
     WaitTruthful, At, NoDma, SendOps
<1>. QED  BY <1>10, <1>11, <1>13 DEF IInv

LEMMA RxDmaCompleteInv ==
  ASSUME IInv, RxDmaComplete
  PROVE  IInv'
<1>1. /\ dma.job = "rx" /\ dma' = NoDma /\ nss' = "high"
      /\ UNCHANGED <<cpu, ret, accepted, aired, event, heard, faults, calls>>
  BY DEF RxDmaComplete, EndTransfer, control, history
<1>2. PICK n \in Moved :
         /\ chip' = GotFifo(chip, n)
         /\ buffer' = [i \in 0 .. dma.len - 1 |->
                         IF i < n THEN FifoBytes(chip, dma.len)[i] ELSE Blank]
  BY DEF RxDmaComplete
<1>3. /\ TypeOK /\ chip \in ChipStates /\ CallShape /\ BusFramed
      /\ LengthKnown /\ SendProgress /\ TxIntact /\ DmaProgress /\ WaitTruthful
      /\ cpu.pc = "idle" /\ cpu.op = "none" /\ dma.len \in Lens /\ ~dma.cut
  BY <1>1, Begin DEF IInv, BusFramed, DmaRunning, At, OpsAt, TypeOK
<1>4. n \in 0 .. FifoSize /\ dma.len \in 0 .. FifoSize
  BY <1>3 DEF Moved, Lens
<1>5. /\ chip' \in ChipStates /\ chip'.mode = chip.mode /\ chip'.irq = chip.irq
      /\ chip'.rxNb = chip.rxNb /\ Frame(chip') = Frame(chip)
  BY <1>2, <1>3, <1>4, GotFifoFacts
<1>6. IsFrame(buffer')
  <2>1. FifoBytes(chip, dma.len) \in [0 .. dma.len - 1 -> Byte]
    BY <1>3, <1>4, FifoBytesType
  <2>2. buffer' \in [0 .. dma.len - 1 -> Byte]
    BY <1>2, <2>1 DEF Byte
  <2>. QED  BY <1>3, <2>2 DEF IsFrame
<1>7. TypeOK'
  <2>1. 0 \in Lens
    BY DEF Lens
  <2>. QED  BY <1>1, <1>3, <1>5, <1>6, <2>1
       DEF TypeOK, ChipType, ChipStates, NoDma, IsFrame
<1>8. CallShape' /\ BusFramed' /\ LengthKnown'
  BY <1>1, <1>3, <1>5 DEF CallShape, BusFramed, NssFramesDma, DmaRunning, At,
     NoDma, LengthKnown
<1>9. SendProgress' /\ TxIntact' /\ DmaProgress' /\ WaitTruthful'
  BY <1>1, <1>3, <1>5 DEF SendProgress, TxIntact, DmaProgress,
     WaitTruthful, At, NoDma, SendOps
<1>. QED  BY <1>7, <1>8, <1>9 DEF IInv

\* A transmission ends.
LEMMA AiredInv ==
  ASSUME IInv, Aired
  PROVE  IInv'
<1>1. /\ chip.mode = "TX" /\ aired' = Frame(chip)
      /\ chip' = [chip EXCEPT !.mode = "STDBY", !.irq = @ \cup {"TX_DONE"}]
      /\ UNCHANGED <<cpu, ret, nss, dma, buffer, accepted, event, heard, faults,
                     calls>>
  BY DEF Aired, TransmitDone, control
<1>2. /\ TypeOK /\ chip \in ChipStates /\ CallShape /\ BusFramed
      /\ LengthKnown /\ SendProgress /\ TxIntact /\ DmaProgress /\ WaitTruthful
      /\ cpu.op \in OpsAt(cpu.pc)
  BY Begin DEF IInv
<1>3. /\ chip' \in ChipStates /\ chip'.mode = "STDBY"
      /\ chip'.irq = chip.irq \cup {"TX_DONE"} /\ chip'.rxNb = chip.rxNb
  BY <1>1, <1>2 DEF ChipStates, Modes, IrqFlags
<1>4. aired' = Bytes(accepted)
  BY <1>1, <1>2 DEF TxIntact
<1>5. TypeOK'
  <2>1. chip.payLen \in 0 .. FifoSize /\ chip.payLen \in Lens
    BY <1>2 DEF ChipStates, Lens
  <2>2. Frame(chip) \in [0 .. chip.payLen - 1 -> Byte]
    BY <1>2, <2>1, FetchType DEF ChipStates, Frame
  <2>3. IsFrame(aired')
    BY <1>1, <2>1, <2>2 DEF IsFrame
  <2>. QED  BY <1>1, <1>2, <1>3, <2>3
       DEF TypeOK, ChipType, ChipStates, IsFrame
<1>6. CallShape' /\ BusFramed' /\ LengthKnown'
  BY <1>1, <1>2, <1>3 DEF CallShape, BusFramed, NssFramesDma, DmaRunning, At,
     LengthKnown
<1>7. cpu.pc \notin {"tx_ptr", "tx_base", "pay_len", "write_fifo",
                     "start_tx_dma", "transmit", "ack_tx"}
  BY <1>1, <1>2 DEF SendProgress, WaitTruthful, OpsAt, SendOps, At
<1>8. ~(cpu.op \in SendOps /\ cpu.pc \in {"standby", "clear_tx"})
      /\ dma.job # "tx"
  BY <1>1, <1>2 DEF SendProgress, DmaProgress, At
<1>9. cpu.pc \in {"poll_tx", "delay_tx"} => accepted = cpu.msg
  BY <1>2 DEF SendProgress, OpsAt, SendOps, At
<1>10. SendProgress' /\ TxIntact' /\ DmaProgress'
  BY <1>1, <1>2, <1>3, <1>7, <1>8 DEF SendProgress, TxIntact, DmaProgress, At
<1>11. WaitTruthful'
  BY <1>1, <1>2, <1>3, <1>4, <1>7, <1>8, <1>9 DEF WaitTruthful, At
<1>. QED  BY <1>5, <1>6, <1>10, <1>11 DEF IInv

\* Receiving and giving up a reception happen in no transmission and in no
\* send call that has reached the radio.
LEMMA ReceptionInv ==
  ASSUME IInv, chip.mode \in RxModes, chip' \in ChipStates,
         chip'.mode \in RxModes \cup {"STDBY"},
         \A f \in {"TX_DONE"} : f \in chip'.irq => f \in chip.irq,
         "RX_DONE" \in chip'.irq => "RX_DONE" \in chip.irq \/ chip'.rxNb > 0,
         chip.rxNb > 0 => chip'.rxNb > 0,
         event' \in DOMAIN Outcomes \cup {"timeout"},
         heard' \in Packets \cup {NoPayload},
         UNCHANGED <<cpu, ret, nss, dma, buffer, accepted, aired, faults, calls>>
  PROVE  IInv'
<1>1. /\ TypeOK /\ CallShape /\ BusFramed /\ LengthKnown
      /\ SendProgress /\ TxIntact /\ DmaProgress /\ WaitTruthful
      /\ cpu.op \in OpsAt(cpu.pc)
  BY Begin DEF IInv
<1>2. chip.mode \notin {"TX", "STDBY"} /\ chip'.mode # "TX"
  BY DEF RxModes
<1>3. TypeOK'
  BY <1>1 DEF TypeOK, ChipType, ChipStates, IsFrame
<1>4. CallShape' /\ BusFramed' /\ LengthKnown'
  BY <1>1 DEF CallShape, BusFramed, NssFramesDma, DmaRunning, At, LengthKnown
<1>5. /\ cpu.pc \notin {"tx_ptr", "tx_base", "pay_len", "write_fifo",
                        "start_tx_dma", "transmit"}
      /\ ~(cpu.op \in SendOps /\ cpu.pc = "clear_tx") /\ dma.job # "tx"
  BY <1>1, <1>2 DEF SendProgress, DmaProgress, OpsAt, SendOps
<1>6. SendProgress' /\ TxIntact' /\ DmaProgress' /\ WaitTruthful'
  BY <1>1, <1>2, <1>5
     DEF SendProgress, TxIntact, DmaProgress, WaitTruthful, At
<1>. QED  BY <1>3, <1>4, <1>6 DEF IInv

LEMMA HeardInv ==
  ASSUME IInv, NEW p \in Packets, NEW outcome \in DOMAIN Outcomes,
         Heard(p, outcome)
  PROVE  IInv'
<1>1. /\ chip.mode \in RxModes
      /\ chip' = [chip EXCEPT
           !.fifo   = Store(@, chip.rxByte, p, Length[p]),
           !.rxCur  = chip.rxByte,
           !.rxNb   = Length[p],
           !.rxByte = (@ + Length[p]) % FifoSize,
           !.irq    = @ \cup Outcomes[outcome],
           !.mode   = IF @ = "RX_SINGLE" THEN "STDBY" ELSE @]
      /\ event' = outcome /\ heard' \in {p, heard}
      /\ UNCHANGED <<cpu, ret, nss, dma, buffer, accepted, aired, faults, calls>>
  BY DEF Heard, Arrive, control
<1>2. TypeOK /\ chip \in ChipStates
  BY Begin
<1>. DEFINE mode == IF chip.mode = "RX_SINGLE" THEN "STDBY" ELSE chip.mode
            fifo == Store(chip.fifo, chip.rxByte, p, Length[p])
            byte == (chip.rxByte + Length[p]) % FifoSize
            irq  == chip.irq \cup Outcomes[outcome]
<1>3. chip' = [mode |-> mode, irq |-> irq, fifo |-> fifo,
               fifoPtr |-> chip.fifoPtr, txBase |-> chip.txBase,
               rxBase |-> chip.rxBase, rxByte |-> byte, rxCur |-> chip.rxByte,
               rxNb |-> Length[p], payLen |-> chip.payLen]
  BY <1>1, <1>2 DEF ChipStates
<1>4. p \in Payloads /\ Length[p] \in 1 .. FifoSize
  BY LengthFacts DEF Payloads
<1>5. fifo \in [Addr -> Byte]
  BY <1>2, <1>4, StoreType DEF ChipStates
<1>6. byte \in Addr
  <2>1. chip.rxByte + Length[p] \in Int
    BY <1>2, <1>4 DEF ChipStates, Addr
  <2>. QED  BY <2>1, Wraps
<1>7. irq \subseteq IrqFlags /\ ("TX_DONE" \in irq => "TX_DONE" \in chip.irq)
  <2>1. Outcomes[outcome] \subseteq RX_ALL
    BY DEF Outcomes, RX_ALL
  <2>. QED  BY <1>2, <2>1 DEF ChipStates, IrqFlags, RX_ALL
<1>8. mode \in Modes /\ mode \in RxModes \cup {"STDBY"}
  BY <1>1, <1>2 DEF ChipStates, RxModes, Modes
<1>. HIDE DEF mode, fifo, byte, irq
<1>9. /\ chip' \in ChipStates /\ chip'.mode = mode /\ chip'.irq = irq
      /\ chip'.rxNb = Length[p]
  BY <1>2, <1>3, <1>4, <1>5, <1>6, <1>7, <1>8 DEF ChipStates
<1>10. heard' \in Packets \cup {NoPayload}
  BY <1>1, <1>2 DEF TypeOK
<1>. QED  BY <1>1, <1>4, <1>7, <1>8, <1>9, <1>10, ReceptionInv

LEMMA RxTimedOutInv ==
  ASSUME IInv, RxTimedOut
  PROVE  IInv'
<1>1. /\ chip.mode = "RX_SINGLE" /\ event' = "timeout"
      /\ chip' = [chip EXCEPT !.mode = "STDBY", !.irq = @ \cup {"RX_TIMEOUT"}]
      /\ UNCHANGED <<cpu, ret, nss, dma, buffer, accepted, aired, heard, faults,
                     calls>>
  BY DEF RxTimedOut, ReceiveTimeout, control
<1>2. TypeOK /\ chip \in ChipStates
  BY Begin
<1>3. /\ chip' \in ChipStates /\ chip'.mode = "STDBY" /\ chip'.rxNb = chip.rxNb
      /\ chip'.irq = chip.irq \cup {"RX_TIMEOUT"}
  BY <1>1, <1>2 DEF ChipStates, Modes, IrqFlags, RX_ALL
<1>4. heard' \in Packets \cup {NoPayload} /\ chip.mode \in RxModes
  BY <1>1, <1>2 DEF TypeOK, RxModes
<1>. QED  BY <1>1, <1>3, <1>4, ReceptionInv

\* The application begins a call, while no DMA runs.
LEMMA CallInv ==
  ASSUME IInv, Reliable, NEW op \in Ops, NEW m \in Messages \cup {NoPayload},
         Call(op, m)
  PROVE  IInv'
<1>1. /\ cpu.pc = "idle" /\ calls < MaxCalls /\ ~DmaRunning
      /\ m = NoPayload <=> op \notin SendOps
      /\ cpu' = [Idle EXCEPT !.op = op, !.pc = Entry(op), !.msg = m]
      /\ calls' = calls + 1
      /\ ret' = NoRet /\ buffer' = NoData /\ aired' = NoData
      /\ UNCHANGED <<chip, nss, dma, accepted, event, heard, faults>>
  BY DEF Call, At, MayCall, Reliable
<1>2. /\ TypeOK /\ BusFramed /\ LengthKnown /\ TxIntact /\ DmaProgress
      /\ dma.job = "none"
  BY <1>1 DEF IInv, DmaRunning
<1>3. /\ op \in AllOps
      /\ Entry(op) \in {"read_opmode", "standby", "sleep", "rx_base", "clear_tx",
                        "clear_rx", "poll_rx", "header_mode", "read_irq"}
      /\ op \in OpsAt(Entry(op))
      /\ op \in SendOps => Entry(op) = "read_opmode"
      /\ op \in ReceiveOps => Entry(op) \in {"poll_rx", "read_irq"}
  BY DEF Entry, AllOps, SendOps, ReceiveOps, ModeOps, QueryOps, ClearOps, OpsAt,
         Receivers
<1>4. cpu' = [op |-> op, pc |-> Entry(op), msg |-> m, elapsed |-> 0,
              irqs |-> {}, len |-> 0, offset |-> 0]
  BY <1>1 DEF Idle
<1>0. /\ cpu'.op = op /\ cpu'.pc = Entry(op) /\ cpu'.msg = m
      /\ cpu'.elapsed = 0 /\ cpu'.irqs = {}
  BY <1>4
<1>5. TypeOK'
  <2>1. 0 \in Addr /\ 0 \in Lens /\ 0 \in 0 .. Timeout
    BY DEF Addr, Lens
  <2>2. cpu' \in CpuStates
    BY <1>3, <1>4, <2>1 DEF CpuStates, Labels
  <2>3. IsFrame(NoData)
    <3>1. <<>> \in [0 .. 0 - 1 -> Byte]
      OBVIOUS
    <3>. QED  BY <2>1, <3>1 DEF IsFrame, NoData
  <2>4. NoRet \in Ret
    BY <2>1 DEF NoRet, Ret, Codes
  <2>5. calls' \in 0 .. MaxCalls
    BY <1>1, <1>2 DEF TypeOK
  <2>. QED  BY <1>1, <1>2, <2>2, <2>3, <2>4, <2>5
       DEF TypeOK, ChipType, CpuStates
<1>6. CallShape' /\ BusFramed' /\ LengthKnown'
  <2>1. CallShape'
    BY <1>0, <1>1, <1>3 DEF CallShape
  <2>2. BusFramed'
    BY <1>1, <1>2 DEF BusFramed, NssFramesDma, DmaRunning, At
  <2>3. LengthKnown'
    BY <1>0, <1>1, <1>2, <1>3 DEF LengthKnown
  <2>. QED  BY <2>1, <2>2, <2>3
<1>7. SendProgress' /\ TxIntact' /\ DmaProgress' /\ WaitTruthful'
  BY <1>1, <1>2, <1>3, <1>4 DEF SendProgress, TxIntact, DmaProgress,
     WaitTruthful, At, NoRet
<1>. QED  BY <1>5, <1>6, <1>7 DEF IInv

LEMMA NextInv ==
  ASSUME IInv, Reliable, [Next]_vars
  PROVE  IInv'
<1>1. CASE AppCall
  BY <1>1, CallInv DEF AppCall
<1>2. CASE CpuStep
  BY <1>2, ReadOpmodeInv, SetStandbyInv, SetSleepInv, ClearTxDoneInv,
     SetFifoPtrInv, SetTxBaseInv, SetPayloadLengthInv, WriteFifoInv,
     StartTxDmaInv, TransmitInv, PollTxDoneInv, AckTxDoneInv, DelayTxInv,
     SetRxBaseInv, ClearRxInv, SetRxModeInv, PollRxInv, DelayRxInv, ReadIrqInv,
     ReadHeaderModeInv, ReadLengthInv, ReadRxCurrentInv, SetRxFifoPtrInv,
     ReadFifoInv, StartRxDmaInv
     DEF CpuStep
<1>3. CASE DmaInterrupt
  BY <1>3, TxDmaCompleteInv, RxDmaCompleteInv DEF DmaInterrupt
<1>4. CASE Radio
  BY <1>4, AiredInv, RxTimedOutInv, HeardInv DEF Radio
<1>5. CASE UNCHANGED vars
  BY <1>5 DEF vars, IInv, TypeOK, ChipType, IsFrame, CallShape, BusFramed,
     NssFramesDma, DmaRunning, At, LengthKnown, SendProgress, TxIntact,
     DmaProgress, WaitTruthful
<1>. QED  BY <1>1, <1>2, <1>3, <1>4, <1>5 DEF Next

-----------------------------------------------------------------------------
(* The theorems.                                                           *)

LEMMA Invariance ==
  ASSUME Reliable
  PROVE  Spec => []IInv
<1>1. IInv /\ [Next]_vars => IInv'
  BY NextInv
<1>. QED  BY <1>1, InitInv, PTL DEF Spec

\* The driver, the bus and the radio keep their types: no length or address
\* leaves the FIFO, no wait its timeout.
THEOREM LinkTypeCorrect ==
  ASSUME Reliable
  PROVE  Spec => []TypeOK
<1>1. IInv => TypeOK
  BY DEF IInv
<1>. QED  BY <1>1, Invariance, PTL

\* NSS is low exactly while a DMA moves its frame.
THEOREM SelectionFramesDma ==
  ASSUME Reliable
  PROVE  Spec => []NssFramesDma
<1>1. IInv => NssFramesDma
  BY DEF IInv, BusFramed
<1>. QED  BY <1>1, Invariance, PTL

\* What the radio transmits is the accepted message, for every message, base
\* address and size of the FIFO, with and without DMA.
THEOREM TransmissionIntact ==
  ASSUME Reliable
  PROVE  Spec => []TxIntact
<1>1. IInv => TxIntact
  BY DEF IInv
<1>. QED  BY <1>1, Invariance, PTL

\* LORA_OK of lora_send_packet_blocking() means that its message was sent.
THEOREM BlockingTellsTruth ==
  ASSUME Reliable
  PROVE  Spec => []BlockingOkMeansSent
<1>1. IInv => BlockingOkMeansSent
  BY DEF IInv, WaitTruthful, BlockingOkMeansSent
<1>. QED  BY <1>1, Invariance, PTL

\* A transmission during a send call ends by itself.
LEMMA StepAborts ==
  ASSUME IInv, Reliable, [Next]_vars,
         cpu.op \in SendOps, chip.mode = "TX", chip'.mode # "TX"
  PROVE  TransmitDone
<1>1. /\ chip \in ChipStates /\ SendProgress /\ WaitTruthful
      /\ cpu.op \in OpsAt(cpu.pc) /\ cpu.pc # "idle"
  BY Begin DEF IInv, OpsAt, SendOps
<1>2. dma.job = "none"
  BY <1>1, BusFree
<1>3. ASSUME AppCall PROVE FALSE
  BY <1>1, <1>3 DEF AppCall, Call, At
<1>4. ASSUME DmaInterrupt PROVE FALSE
  BY <1>2, <1>4 DEF DmaInterrupt, TxDmaComplete, RxDmaComplete
<1>5. ASSUME CpuStep PROVE FALSE
  <2>1. cpu.pc \in {"read_opmode", "poll_tx", "delay_tx"}
    BY <1>1 DEF SendProgress, WaitTruthful, OpsAt, SendOps, ReceiveOps,
       Receivers, At
  <2>2. ReadOpmode \/ PollTxDone \/ DelayTx
    BY <1>5, <2>1 DEF CpuStep, SetStandby, SetSleep, ClearTxDone, SetFifoPtr,
       SetTxBase, SetPayloadLength, WriteFifo, StartTxDma, Transmit, AckTxDone,
       SetRxBase, ClearRx, SetRxMode, PollRx, DelayRx, ReadIrq, ReadHeaderMode,
       ReadLength, ReadRxCurrent, SetRxFifoPtr, ReadFifo, StartRxDma,
       WriteStep, At
  <2>. QED  BY <2>2 DEF ReadOpmode, PollTxDone, DelayTx, ReadRegister
<1>6. ASSUME Radio PROVE TransmitDone
  BY <1>6 DEF Radio, Aired, RxTimedOut, ReceiveTimeout, Heard, Arrive, RxModes
<1>. QED  BY <1>3, <1>4, <1>5, <1>6 DEF Next, vars

\* No step of a send takes the radio out of a transmission before it is done
\* (the busy test of lora_sx1276.c:450).
THEOREM NoSendAborts ==
  ASSUME Reliable
  PROVE  Spec => SendNeverAborts
<1>1. IInv /\ [Next]_vars =>
        [(cpu.op \in SendOps /\ chip.mode = "TX" /\ chip'.mode # "TX") =>
           TransmitDone]_vars
  BY StepAborts
<1>. QED  BY <1>1, Invariance, PTL DEF Spec, SendNeverAborts

-----------------------------------------------------------------------------
(* Receiving.                                                              *)

\* What the theorems suppose besides a bus that works: the application
\* receives single packets, one at a time, with explicit headers, collects one
\* only once lora_is_packet_available() said so, and starts a reception only
\* when none is running.
OneAtATime ==
  /\ Reliable /\ {"check_first", "start_idle"} \subseteq Discipline
  /\ Ops \cap {"mode_sleep", "mode_receive_continuous"} = {}
  /\ Implicit = FALSE

-----------------------------------------------------------------------------
(* The inductive invariant.                                                *)

\* The flags that stand for a reception.
FlagsOf(e) ==
  CASE e = "none"    -> {}
    [] e = "timeout" -> {"RX_TIMEOUT"}
    [] OTHER         -> Outcomes[e]

\* A receive call that has acknowledged the packet and not yet copied it.
Fetching ==
  /\ cpu.op \in ReceiveOps
  /\ cpu.pc \in {"header_mode", "payload_length", "rx_nb_bytes", "rx_current",
                 "rx_ptr", "read_fifo", "start_rx_dma"}

\* The flags say what became of the last reception until it is collected; a
\* reception is running only when nothing waits to be collected.
FlagsTrue ==
  /\ chip.irq \cap RX_ALL = IF Fetching THEN {} ELSE FlagsOf(event)
  /\ chip.mode \in RxModes => event = "none"
  /\ cpu.op \in ReceiveOps => event # "none"
  /\ Fetching => event = "good"
  /\ (At("clear_rx") /\ cpu.op \in ReceiveOps) =>
       cpu.irqs \cap RX_ALL = chip.irq \cap RX_ALL
  /\ (ret.op = "is_packet_available" /\ ret.code = "ready") => event # "none"

\* Receptions are single ones, started while the radio is not receiving.
StartsIdle ==
  /\ cpu.op \in Ops \cup {"none"}
  /\ chip.mode \notin {"SLEEP", "RX_CONTINUOUS"}
  /\ cpu.op \in Receivers => chip.mode \notin RxModes
  /\ (cpu.op \in Receivers /\ cpu.pc \in {"clear_rx", "rx_mode"}) =>
       chip.rxBase = RxBaseAddr
  /\ At("rx_mode") => event = "none"
  /\ chip.mode \in RxModes => chip.rxByte = RxBaseAddr

\* Where single reception puts byte i of packet p, that byte is found, or one
\* of a message sent since.
Slot(fifo, p, i) ==
  LET b == fifo[(RxBaseAddr + i) % FifoSize] IN b = <<p, i>> \/ OwnByte(b, i)

\* The packet waits in the FIFO, and the call has read its length and place.
PacketKept ==
  /\ event = "good" =>
       /\ heard \in Packets
       /\ chip.rxCur = RxBaseAddr /\ chip.rxNb = Length[heard]
       /\ \A i \in 0 .. Length[heard] - 1 : Slot(chip.fifo, heard, i)
  /\ Fetching => cpu.pc # "payload_length"
  /\ cpu.pc \in {"rx_current", "rx_ptr", "read_fifo", "start_rx_dma"} =>
       cpu.len = chip.rxNb
  /\ At("rx_ptr") => cpu.offset = chip.rxCur
  /\ cpu.pc \in {"read_fifo", "start_rx_dma"} => chip.fifoPtr = chip.rxCur

\* What a DMA is about to deliver, and what was delivered.
Delivered ==
  /\ dma.job = "rx" =>
       /\ IsHeard(Fetch(chip.fifo, chip.fifoPtr, dma.len))
       /\ heard \in Packets /\ chip.mode \notin RxModes
  /\ buffer # NoData => heard \in Packets /\ chip.mode \notin RxModes
  /\ cpu.pc # "idle" => buffer = NoData
  /\ ReceivedIntact

RInv == IInv /\ FlagsTrue /\ StartsIdle /\ PacketKept /\ Delivered

\* What the invariant says when a step begins.
LEMMA BeginReception ==
  ASSUME RInv
  PROVE  /\ IInv /\ FlagsTrue /\ StartsIdle /\ PacketKept /\ Delivered
         /\ chip \in ChipStates /\ cpu \in CpuStates /\ TypeOK
         /\ cpu.op \in OpsAt(cpu.pc)
  BY Begin DEF RInv

LEMMA RInitInv == Init => RInv
<1>. SUFFICES ASSUME Init PROVE RInv
  OBVIOUS
<1>1. IInv
  BY InitInv
<1>2. FlagsTrue /\ StartsIdle /\ PacketKept /\ Delivered
  BY DEF Init, ChipInit, Idle, NoRet, NoDma, FlagsTrue, FlagsOf, Fetching,
     StartsIdle, PacketKept, Delivered, ReceivedIntact, RX_ALL, RxModes,
     ReceiveOps, Receivers, At
<1>. QED  BY <1>1, <1>2 DEF RInv

-----------------------------------------------------------------------------
(* Steps that have nothing to do with a reception.                         *)

\* The bytes of a packet stay, but for those a message overwrites.
SlotKept(fifo, old) ==
  \A p \in Packets : \A i \in 0 .. Length[p] - 1 :
    Slot(old, p, i) => Slot(fifo, p, i)

LeavesReception ==
  /\ chip'.irq \cap RX_ALL = chip.irq \cap RX_ALL
  /\ chip'.mode \in {chip.mode, "STDBY", "TX"}
  /\ chip'.rxBase = chip.rxBase /\ chip'.rxByte = chip.rxByte
  /\ chip'.rxCur = chip.rxCur /\ chip'.rxNb = chip.rxNb
  /\ SlotKept(chip'.fifo, chip.fifo)
  /\ UNCHANGED <<event, heard, buffer>>

LEMMA LeavesReceptionInv ==
  ASSUME RInv, IInv', LeavesReception,
         cpu.op \notin ReceiveOps \cup Receivers,
         cpu'.op \in {cpu.op, "none"}, cpu.pc = "idle" => cpu' = cpu,
         ret' = ret \/ ret'.op # "is_packet_available",
         dma.job # "rx" /\ dma'.job # "rx"
  PROVE  RInv'
<1>1. /\ IInv /\ FlagsTrue /\ StartsIdle /\ PacketKept /\ Delivered
      /\ cpu'.op \in OpsAt(cpu'.pc) /\ cpu'.op \notin ReceiveOps \cup Receivers
  BY BeginReception DEF IInv, CallShape, ReceiveOps, Receivers
<1>2. cpu'.pc \notin {"rx_mode", "rx_current", "rx_ptr", "read_fifo",
                      "start_rx_dma"}
  BY <1>1 DEF OpsAt, ReceiveOps, Receivers
<1>3. ~Fetching /\ ~Fetching'
  BY <1>1 DEF Fetching
<1>4. FlagsTrue'
  BY <1>1, <1>3 DEF FlagsTrue, LeavesReception, At, RxModes
<1>5. StartsIdle'
  BY <1>1, <1>2 DEF StartsIdle, LeavesReception, At, RxModes
<1>6. PacketKept'
  BY <1>1, <1>2, <1>3 DEF PacketKept, LeavesReception, At, SlotKept
<1>7. Delivered'
  BY <1>1 DEF Delivered, LeavesReception, ReceivedIntact, IsHeard, RxModes
<1>. QED  BY <1>4, <1>5, <1>6, <1>7 DEF RInv

\* A message stored at the transmission's base address overwrites a byte of
\* the packet with the one it has at that place, and no other.
LEMMA StoreSpares ==
  ASSUME NEW m \in Messages, NEW fifo
  PROVE  SlotKept(Store(fifo, TxBaseAddr, m, Length[m]), fifo)
<1>. DEFINE new == Store(fifo, TxBaseAddr, m, Length[m])
<1>. SUFFICES ASSUME NEW p \in Packets, NEW j \in 0 .. Length[p] - 1,
                     Slot(fifo, p, j)
              PROVE  Slot(new, p, j)
  BY DEF SlotKept
<1>. DEFINE a == (RxBaseAddr + j) % FifoSize
            i == (a - TxBaseAddr) % FifoSize
<1>1. m \in Payloads /\ p \in Payloads
      /\ Length[m] \in 1 .. FifoSize /\ Length[p] \in 1 .. FifoSize
  BY LengthFacts DEF Payloads
<1>2. a \in Addr /\ i \in Addr
  <2>1. RxBaseAddr + j \in Int
    BY <1>1 DEF Addr
  <2>2. a \in Addr
    BY <2>1, Wraps
  <2>3. a - TxBaseAddr \in Int
    BY <2>2 DEF Addr
  <2>. QED  BY <2>2, <2>3, Wraps
<1>3. (TxBaseAddr + i) % FifoSize = a
  <2>0. a \in Int /\ TxBaseAddr \in Int /\ FifoSize \in Nat \ {0}
        /\ 0 <= a /\ a < FifoSize /\ 0 <= TxBaseAddr /\ TxBaseAddr < FifoSize
    BY <1>2 DEF Addr
  <2>. HIDE DEF a
  <2>1. CASE a >= TxBaseAddr
    <3>1. (a - TxBaseAddr) % FifoSize = a - TxBaseAddr
      BY <2>0, <2>1
    <3>2. a % FifoSize = a /\ TxBaseAddr + (a - TxBaseAddr) = a
      BY <2>0
    <3>. QED  BY <3>1, <3>2
  <2>2. CASE a < TxBaseAddr
    <3>1. (a - TxBaseAddr) % FifoSize = a - TxBaseAddr + FifoSize
      BY <2>0, <2>2
    <3>2. /\ (a + FifoSize) % FifoSize = a
          /\ TxBaseAddr + (a - TxBaseAddr + FifoSize) = a + FifoSize
      BY <2>0
    <3>. QED  BY <3>1, <3>2
  <2>. QED  BY <2>0, <2>1, <2>2
<1>4. CASE i < Length[m]
  <2>1. i \in 0 .. Length[m] - 1
    BY <1>1, <1>2, <1>4 DEF Addr
  <2>2. new[a] = <<m, i>>
    BY <1>2, <1>4 DEF Store
  <2>. HIDE DEF i, new
  <2>3. OwnByte(new[a], j)
    BY <1>3, <2>1, <2>2 DEF OwnByte
  <2>. QED  BY <2>3 DEF Slot
<1>5. CASE ~(i < Length[m])
  <2>1. new[a] = fifo[a]
    BY <1>2, <1>5 DEF Store
  <2>. HIDE DEF i, new
  <2>. QED  BY <2>1 DEF Slot
<1>. QED  BY <1>4, <1>5

\* A step of a send call, of lora_is_transmitting(), lora_mode_standby() or
\* lora_clear_interrupt_tx_done() that does to the radio what c stands for.
Spares(c) ==
  /\ c.irq \cap RX_ALL = chip.irq \cap RX_ALL
  /\ c.mode \in {chip.mode, "STDBY", "TX"}
  /\ c.rxBase = chip.rxBase /\ c.rxByte = chip.rxByte
  /\ c.rxCur = chip.rxCur /\ c.rxNb = chip.rxNb
  /\ SlotKept(c.fifo, chip.fifo)

LEMMA SparesFacts ==
  ASSUME chip \in ChipStates
  PROVE  /\ Spares(chip)
         /\ \A m \in {"STDBY", "TX"} : Spares(SetMode(chip, m))
         /\ Spares(TxDoneCleared)
         /\ \A a : Spares([chip EXCEPT !.fifoPtr = a])
         /\ \A a : Spares([chip EXCEPT !.txBase = a])
         /\ \A n : Spares([chip EXCEPT !.payLen = n])
<1>1. Spares(chip)
  BY DEF Spares, SlotKept
<1>2. ASSUME NEW m \in {"STDBY", "TX"} PROVE Spares(SetMode(chip, m))
  <2>1. SetMode(chip, m) = [chip EXCEPT !.mode = m, !.rxByte = chip.rxByte]
    BY DEF SetMode, RxModes, ChipStates
  <2>. QED  BY <2>1 DEF Spares, SlotKept, ChipStates
<1>3. Spares(TxDoneCleared)
  BY TxDoneClearedFacts DEF Spares, SlotKept, ChipStates, RX_ALL
<1>4. /\ \A a : Spares([chip EXCEPT !.fifoPtr = a])
      /\ \A a : Spares([chip EXCEPT !.txBase = a])
      /\ \A n : Spares([chip EXCEPT !.payLen = n])
  BY DEF Spares, SlotKept, ChipStates
<1>. QED  BY <1>1, <1>2, <1>3, <1>4

LEMMA PutSpares ==
  ASSUME chip \in ChipStates, NEW m \in Messages,
         chip.fifoPtr = TxBaseAddr
  PROVE  Spares(PutFifo(chip, m, Length[m]))
<1>. DEFINE fifo == Store(chip.fifo, TxBaseAddr, m, Length[m])
            ptr  == (chip.fifoPtr + Length[m]) % FifoSize
<1>1. SlotKept(fifo, chip.fifo) /\ SlotKept(chip.fifo, chip.fifo)
  BY StoreSpares DEF SlotKept
<1>2. \/ PutFifo(chip, m, Length[m]) = chip
      \/ PutFifo(chip, m, Length[m]) = [chip EXCEPT !.fifo = fifo, !.fifoPtr = ptr]
  BY DEF PutFifo, ChipStates
<1>. HIDE DEF fifo, ptr
<1>. QED  BY <1>1, <1>2 DEF Spares, ChipStates

SendStep ==
  \/ ReadOpmode \/ SetStandby \/ ClearTxDone \/ SetFifoPtr
  \/ SetTxBase \/ SetPayloadLength \/ WriteFifo \/ StartTxDma \/ Transmit
  \/ PollTxDone \/ AckTxDone \/ DelayTx

\* Whichever of them it is, the radio changes only so.
LEMMA SendStepSpares ==
  ASSUME IInv, Reliable, SendStep
  PROVE  /\ Spares(chip') /\ UNCHANGED <<event, heard, buffer>>
         /\ cpu.pc \in {"read_opmode", "standby", "clear_tx", "tx_ptr",
                        "tx_base", "pay_len", "write_fifo", "start_tx_dma",
                        "transmit", "poll_tx", "ack_tx", "delay_tx"}
<1>0. chip \in ChipStates /\ cpu \in CpuStates /\ SendProgress
      /\ cpu.op \in OpsAt(cpu.pc)
      /\ (cpu.msg = NoPayload <=> cpu.op \notin SendOps)
  BY Begin
<1>1. /\ UNCHANGED <<event, heard, buffer>>
      /\ cpu.pc \in {"read_opmode", "standby", "clear_tx", "tx_ptr",
                     "tx_base", "pay_len", "write_fifo", "start_tx_dma",
                     "transmit", "poll_tx", "ack_tx", "delay_tx"}
  BY DEF SendStep, ReadOpmode, SetStandby, ClearTxDone, SetFifoPtr, SetTxBase,
     SetPayloadLength, WriteFifo, StartTxDma, Transmit, PollTxDone, AckTxDone,
     DelayTx, WriteStep, Quiet, history, At
<1>2. CASE ReadOpmode \/ PollTxDone \/ StartTxDma \/ DelayTx
  <2>1. chip' = chip
    BY <1>2 DEF ReadOpmode, PollTxDone, StartTxDma, DelayTx, ReadRegister
  <2>. QED  BY <1>0, <1>1, <2>1, SparesFacts
<1>3. CASE SetStandby \/ Transmit
  <2>1. chip' = SetMode(chip, "STDBY") \/ chip' = SetMode(chip, "TX")
    BY <1>1, <1>3, WriteDone DEF SetStandby, Transmit
  <2>. QED  BY <1>0, <1>1, <2>1, SparesFacts
<1>4. CASE ClearTxDone \/ AckTxDone
  <2>1. chip' = TxDoneCleared
    BY <1>1, <1>4, WriteDone DEF ClearTxDone, AckTxDone
  <2>. QED  BY <1>0, <1>1, <2>1, SparesFacts
<1>5. CASE SetFifoPtr \/ SetTxBase \/ SetPayloadLength
  <2>1. \/ chip' = [chip EXCEPT !.fifoPtr = TxBaseAddr]
        \/ chip' = [chip EXCEPT !.txBase = TxBaseAddr]
        \/ chip' = [chip EXCEPT !.payLen = Length[cpu.msg]]
    BY <1>1, <1>5, WriteDone DEF SetFifoPtr, SetTxBase, SetPayloadLength,
       WriteStep
  <2>. QED  BY <1>0, <1>1, <2>1, SparesFacts
<1>6. CASE WriteFifo
  <2>1. chip' = PutFifo(chip, cpu.msg, Length[cpu.msg]) /\ cpu.pc = "write_fifo"
    BY <1>1, <1>6, WriteDone DEF WriteFifo, WriteStep, At
  <2>2. chip.fifoPtr = TxBaseAddr /\ cpu.msg \in Messages
    BY <1>0, <2>1 DEF SendProgress, OpsAt, SendOps, CpuStates
  <2>. QED  BY <1>0, <1>1, <2>1, <2>2, PutSpares
<1>. QED  BY <1>2, <1>3, <1>4, <1>5, <1>6 DEF SendStep

LEMMA SendStepRInv ==
  ASSUME RInv, OneAtATime, SendStep
  PROVE  RInv'
<1>1. IInv /\ Reliable
  BY DEF RInv, OneAtATime
<1>2. /\ Spares(chip') /\ UNCHANGED <<event, heard, buffer>>
      /\ cpu.pc \in {"read_opmode", "standby", "clear_tx", "tx_ptr",
                     "tx_base", "pay_len", "write_fifo", "start_tx_dma",
                     "transmit", "poll_tx", "ack_tx", "delay_tx"}
  BY <1>1, SendStepSpares
<1>3. LeavesReception
  BY <1>2 DEF LeavesReception, Spares
<1>4. cpu.op \in SendOps \cup {"is_transmitting", "mode_standby",
                               "clear_interrupt_tx_done"}
  BY <1>1, <1>2, Begin DEF OpsAt, SendOps
<1>5. IInv'
  BY <1>1, NextInv DEF Next, CpuStep, SendStep
<1>6. dma.job = "none" /\ cpu \in CpuStates /\ TypeOK
  BY <1>1, <1>2, BusFree, Begin
<1>7. /\ cpu'.op \in {cpu.op, "none"}
      /\ ret' = ret \/ ret'.op = cpu.op
  <2>. DEFINE Fine == /\ cpu'.op \in {cpu.op, "none"}
                      /\ ret' = ret \/ ret'.op = cpu.op
  <2>1. ASSUME NEW label, Goto(label) PROVE Fine
    BY <1>6, <2>1 DEF Goto, CpuStates
  <2>2. ASSUME NEW code, Return(code) PROVE Fine
    BY <1>6, <2>2 DEF Return, ReturnLen, Idle
  <2>3. ASSUME DelayTx PROVE Fine
    BY <1>6, <2>2, <2>3 DEF DelayTx, CpuStates
  <2>. HIDE DEF Fine
  <2>4. ASSUME ~DelayTx PROVE Fine
    BY <2>1, <2>2, <2>4 DEF SendStep, ReadOpmode, SetStandby, ClearTxDone,
       SetFifoPtr, SetTxBase, SetPayloadLength, WriteFifo, StartTxDma, Transmit,
       PollTxDone, AckTxDone, WriteStep, ReturnFrom
  <2>5. Fine
    BY <2>3, <2>4
  <2>. QED  BY <2>5 DEF Fine
<1>8. dma'.job # "rx"
  <2>1. CASE StartTxDma
    BY <1>6, <2>1 DEF StartTxDma
  <2>2. CASE DelayTx
    BY <1>6, <2>2 DEF DelayTx
  <2>3. CASE ~StartTxDma /\ ~DelayTx
    <3>1. dma' = dma
      BY <1>1, <1>2, <2>3, WriteDone, ReadDone DEF SendStep, ReadOpmode,
         SetStandby, ClearTxDone, SetFifoPtr, SetTxBase, SetPayloadLength,
         WriteFifo, Transmit, PollTxDone, AckTxDone, WriteStep
    <3>. QED  BY <1>6, <3>1
  <2>. QED  BY <2>1, <2>2, <2>3
<1>9. cpu.op \notin ReceiveOps \cup Receivers /\ ret.op # "is_packet_available"
      /\ cpu.op # "is_packet_available"
  BY <1>1, <1>2, <1>4 DEF ReceiveOps, Receivers, SendOps, IInv, CallShape, NoRet
<1>. QED  BY <1>2, <1>3, <1>5, <1>6, <1>7, <1>8, <1>9, LeavesReceptionInv

LEMMA TxDmaCompleteRInv ==
  ASSUME RInv, OneAtATime, TxDmaComplete
  PROVE  RInv'
<1>1. IInv /\ Reliable /\ IInv'
  BY NextInv DEF RInv, OneAtATime, Next, DmaInterrupt
<1>2. /\ dma.job = "tx" /\ dma' = NoDma
      /\ UNCHANGED <<cpu, ret, buffer, event, heard>>
  BY DEF TxDmaComplete, EndTransfer, control, history
<1>3. PICK n \in Moved, ok \in HalOutcomes :
         chip' = AfterTxDma(PutFifo(chip, dma.payload, n), ok)
  BY DEF TxDmaComplete
<1>4. /\ chip \in ChipStates /\ ~dma.cut /\ cpu.op = "none"
      /\ dma.payload \in Messages /\ dma.len = Length[dma.payload]
      /\ chip.fifoPtr = TxBaseAddr /\ chip.mode = "STDBY"
  BY <1>1, <1>2, Begin DEF IInv, BusFramed, DmaRunning, At, OpsAt, DmaProgress
<1>5. n = Length[dma.payload] /\ n \in 0 .. FifoSize /\ dma.payload \in Payloads
  BY <1>4, LengthFacts DEF Moved, Payloads
<1>. DEFINE d == PutFifo(chip, dma.payload, n)
<1>6. Spares(d) /\ d \in ChipStates
  BY <1>1, <1>4, <1>5, PutSpares, PutFifoFacts
<1>7. chip' = d \/ chip' = [d EXCEPT !.mode = "TX", !.rxByte = d.rxByte]
  BY <1>3, <1>6 DEF AfterTxDma, SetMode, RxModes, ChipStates
<1>. HIDE DEF d
<1>8. LeavesReception
  BY <1>2, <1>6, <1>7 DEF LeavesReception, Spares, ChipStates
<1>. QED  BY <1>1, <1>2, <1>4, <1>8, LeavesReceptionInv
     DEF ReceiveOps, Receivers, NoDma

\* A transmission may end while a packet waits, or is fetched.
LEMMA AiredRInv ==
  ASSUME RInv, OneAtATime, Aired
  PROVE  RInv'
<1>1. IInv /\ IInv'
  BY NextInv DEF RInv, OneAtATime, Next, Radio
<1>2. /\ chip.mode = "TX"
      /\ chip' = [chip EXCEPT !.mode = "STDBY", !.irq = @ \cup {"TX_DONE"}]
      /\ UNCHANGED <<cpu, ret, dma, buffer, event, heard>>
  BY DEF Aired, TransmitDone, control
<1>3. /\ FlagsTrue /\ StartsIdle /\ PacketKept /\ Delivered
      /\ chip \in ChipStates
  BY BeginReception
<1>4. /\ chip'.mode = "STDBY" /\ chip'.irq \cap RX_ALL = chip.irq \cap RX_ALL
      /\ chip'.fifo = chip.fifo /\ chip'.fifoPtr = chip.fifoPtr
      /\ chip'.rxBase = chip.rxBase /\ chip'.rxByte = chip.rxByte
      /\ chip'.rxCur = chip.rxCur /\ chip'.rxNb = chip.rxNb
  BY <1>2, <1>3 DEF ChipStates, RX_ALL
<1>5. FlagsTrue'
  BY <1>2, <1>3, <1>4 DEF FlagsTrue, Fetching, At, RxModes
<1>6. StartsIdle'
  BY <1>2, <1>3, <1>4 DEF StartsIdle, At, RxModes
<1>7. PacketKept' /\ Delivered'
  BY <1>2, <1>3, <1>4
     DEF PacketKept, Fetching, Delivered, ReceivedIntact, IsHeard, At, RxModes
<1>. QED  BY <1>1, <1>5, <1>6, <1>7 DEF RInv

-----------------------------------------------------------------------------
(* The steps of mode_receive_single() and of the receive calls.            *)

LEMMA ReceptionCall ==
  ASSUME RInv, OneAtATime, cpu.pc # "idle"
  PROVE  /\ IInv /\ Reliable /\ FlagsTrue /\ StartsIdle /\ PacketKept
         /\ chip \in ChipStates /\ cpu \in CpuStates /\ TypeOK
         /\ cpu.op \in OpsAt(cpu.pc) /\ cpu.op \in Ops
         /\ dma.job = "none" /\ buffer = NoData /\ ret = NoRet
         /\ cpu.op \notin {"mode_sleep", "mode_receive_continuous"}
<1>1. /\ IInv /\ Reliable /\ FlagsTrue /\ StartsIdle /\ PacketKept /\ Delivered
      /\ chip \in ChipStates /\ cpu \in CpuStates /\ TypeOK
      /\ cpu.op \in OpsAt(cpu.pc)
  BY BeginReception DEF OneAtATime
<1>2. dma.job = "none" /\ ret = NoRet /\ buffer = NoData
  BY <1>1, BusFree DEF IInv, CallShape, Delivered
<1>3. cpu.op # "none"
  BY <1>1 DEF OpsAt, SendOps, Receivers, ReceiveOps
<1>4. cpu.op \in Ops
  BY <1>1, <1>3 DEF StartsIdle
<1>. QED  BY <1>1, <1>2, <1>4 DEF OneAtATime

\* A call of this application that goes on, or returns, without delivering.
LEMMA CallGoesOn ==
  ASSUME RInv, OneAtATime, cpu.pc # "idle", IInv',
         FlagsTrue', StartsIdle', PacketKept', UNCHANGED <<dma, buffer>>
  PROVE  RInv'
<1>1. dma'.job # "rx" /\ buffer' = NoData
  BY ReceptionCall
<1>. QED  BY <1>1 DEF RInv, Delivered, ReceivedIntact

LEMMA SetRxBaseRInv ==
  ASSUME RInv, OneAtATime, SetRxBase
  PROVE  RInv'
<1>. DEFINE c == [chip EXCEPT !.rxBase = RxBaseAddr]
<1>1. WriteStep("rx_base", c, "clear_rx")
  BY DEF SetRxBase
<1>2. IInv /\ Reliable
  BY DEF RInv, OneAtATime
<1>3. /\ cpu.pc = "rx_base" /\ chip' = c /\ cpu'.pc = "clear_rx"
      /\ cpu'.op = cpu.op /\ UNCHANGED <<dma, buffer, event, heard, ret>>
  BY <1>1, <1>2, WriteStepDone DEF Labels, history
<1>4. /\ FlagsTrue /\ StartsIdle /\ PacketKept /\ chip \in ChipStates
      /\ cpu.op \in Receivers
  BY <1>3, ReceptionCall DEF OpsAt
<1>5. /\ c.mode = chip.mode /\ c.irq = chip.irq /\ c.fifo = chip.fifo
      /\ c.rxBase = RxBaseAddr /\ c.rxByte = chip.rxByte
      /\ c.rxCur = chip.rxCur /\ c.rxNb = chip.rxNb
  BY <1>4 DEF ChipStates
<1>. HIDE DEF c
<1>6. ~Fetching /\ ~Fetching' /\ cpu.op \notin ReceiveOps
  BY <1>3, <1>4 DEF Fetching, Receivers, ReceiveOps
<1>7. FlagsTrue'
  BY <1>3, <1>4, <1>5, <1>6 DEF FlagsTrue, At
<1>8. StartsIdle'
  BY <1>3, <1>4, <1>5 DEF StartsIdle, At
<1>9. PacketKept'
  BY <1>3, <1>4, <1>5, <1>6 DEF PacketKept, At
<1>10. IInv'
  BY <1>2, SetRxBaseInv
<1>. QED  BY <1>3, <1>7, <1>8, <1>9, <1>10, CallGoesOn

\* The verdict on the flags of a reception.
LEMMA VerdictOf ==
  ASSUME NEW irqs, NEW e \in DOMAIN Outcomes \cup {"none", "timeout"},
         irqs \cap RX_ALL = FlagsOf(e)
  PROVE  Verdict(irqs) = CodeOf[e]
<1>1. \A f \in RX_ALL : f \in irqs <=> f \in FlagsOf(e)
  OBVIOUS
<1>2. e \in {"good", "crc", "header", "none", "timeout"}
  BY DEF Outcomes
<1>3. /\ "RX_TIMEOUT" \in irqs <=> e = "timeout"
      /\ "RX_DONE" \in irqs <=> e \in {"good", "crc", "header"}
      /\ "VALID_HEADER" \in irqs <=> e \in {"good", "crc"}
      /\ "PAYLOAD_CRC_ERROR" \in irqs <=> e = "crc"
  BY <1>1, <1>2 DEF FlagsOf, RX_ALL, Outcomes
<1>. QED  BY <1>2, <1>3 DEF Verdict, CodeOf

LEMMA ClearRxRInv ==
  ASSUME RInv, OneAtATime, ClearRx
  PROVE  RInv'
<1>. DEFINE c == RxCleared
<1>1. /\ cpu.pc = "clear_rx" /\ WriteRegister(c)
      /\ UNCHANGED <<buffer, accepted, aired, heard, calls>>
  BY DEF ClearRx, At
<1>2. /\ IInv /\ Reliable /\ FlagsTrue /\ StartsIdle /\ PacketKept
      /\ chip \in ChipStates /\ cpu \in CpuStates /\ TypeOK /\ ret = NoRet
      /\ cpu.op \in ReceiveOps \cup Receivers \cup {"clear_interrupt_rx_all"}
      /\ event \in DOMAIN Outcomes \cup {"none", "timeout"}
  BY <1>1, ReceptionCall DEF OpsAt, TypeOK
<1>3. chip' = c /\ UNCHANGED dma
  BY <1>1, <1>2, WriteDone
<1>4. c = [chip EXCEPT !.irq = @ \ RX_ALL]
  BY DEF RxCleared, ClearIrq
<1>5. /\ c.mode = chip.mode /\ c.irq \cap RX_ALL = {} /\ c.fifo = chip.fifo
      /\ c.rxBase = chip.rxBase /\ c.rxByte = chip.rxByte
      /\ c.rxCur = chip.rxCur /\ c.rxNb = chip.rxNb
  BY <1>2, <1>4 DEF ChipStates
<1>. HIDE DEF c
<1>6. IInv'
  BY <1>2, ClearRxInv
<1>7. ASSUME NEW code, Return(code), event' = "none" PROVE RInv'
  <2>1. cpu'.op = "none" /\ cpu'.pc = "idle" /\ ret'.op = cpu.op
    BY <1>7 DEF Return, ReturnLen, Idle
  <2>2. ~Fetching' /\ cpu'.op \notin Receivers \cup ReceiveOps
        /\ cpu.op # "is_packet_available"
    BY <1>2, <2>1 DEF Fetching, Receivers, ReceiveOps
  <2>3. FlagsTrue'
    BY <1>3, <1>5, <1>7, <2>1, <2>2 DEF FlagsTrue, FlagsOf, At
  <2>4. StartsIdle'
    BY <1>2, <1>3, <1>5, <2>1, <2>2 DEF StartsIdle, At
  <2>5. PacketKept'
    BY <1>7, <2>1, <2>2 DEF PacketKept, At
  <2>. QED  BY <1>1, <1>3, <1>6, <2>3, <2>4, <2>5, CallGoesOn
<1>8. CASE cpu.op \in ModeOps /\ Goto("rx_mode") /\ event' = "none"
  <2>1. cpu.op \in Receivers /\ "rx_mode" \in Labels
    BY <1>2, <1>8 DEF ModeOps, ReceiveOps, Receivers, Labels
  <2>2. cpu'.op = cpu.op /\ cpu'.pc = "rx_mode" /\ ret' = ret
    BY <1>2, <1>8, <2>1, GotoType
  <2>3. ~Fetching' /\ cpu.op \notin ReceiveOps
    BY <2>1, <2>2 DEF Fetching, Receivers, ReceiveOps
  <2>4. FlagsTrue'
    BY <1>2, <1>3, <1>5, <1>8, <2>2, <2>3 DEF FlagsTrue, FlagsOf, At, NoRet
  <2>5. StartsIdle'
    BY <1>1, <1>2, <1>3, <1>5, <1>8, <2>1, <2>2 DEF StartsIdle, At
  <2>6. PacketKept'
    BY <1>8, <2>2, <2>3 DEF PacketKept, At
  <2>. QED  BY <1>1, <1>3, <1>6, <2>4, <2>5, <2>6, CallGoesOn
<1>9. CASE cpu.op = "clear_interrupt_rx_all" /\ Return("void") /\ event' = "none"
  BY <1>7, <1>9
<1>10. CASE /\ cpu.op \in ReceiveOps
            /\ IF Verdict(cpu.irqs) = "LORA_OK"
               THEN Goto("header_mode") /\ UNCHANGED event
               ELSE /\ Return(Verdict(cpu.irqs))
                    /\ event' = IF Verdict(cpu.irqs) = "LORA_EMPTY" THEN event
                                ELSE "none"
  <2>1. ~Fetching /\ event # "none" /\ chip.mode \notin RxModes
    BY <1>1, <1>2, <1>10 DEF Fetching, FlagsTrue
  <2>2. cpu.irqs \cap RX_ALL = FlagsOf(event)
    BY <1>1, <1>2, <1>10, <2>1 DEF FlagsTrue, At
  <2>3. Verdict(cpu.irqs) = CodeOf[event]
    BY <1>2, <2>2, VerdictOf
  <2>4. CASE event = "good"
    <3>1. Goto("header_mode") /\ event' = event /\ "header_mode" \in Labels
      BY <1>10, <2>3, <2>4 DEF CodeOf, Labels
    <3>2. cpu'.op = cpu.op /\ cpu'.pc = "header_mode" /\ ret' = ret
      BY <1>2, <3>1, GotoType
    <3>3. Fetching' /\ cpu.op \notin Receivers
      BY <1>10, <3>2 DEF Fetching, Receivers, ReceiveOps
    <3>4. FlagsTrue'
      BY <1>2, <1>3, <1>5, <2>1, <2>4, <3>1, <3>2, <3>3
         DEF FlagsTrue, At, NoRet
    <3>5. StartsIdle'
      BY <1>2, <1>3, <1>5, <3>2, <3>3 DEF StartsIdle, At
    <3>6. PacketKept'
      BY <1>1, <1>2, <1>3, <1>5, <3>1, <3>2 DEF PacketKept, At
    <3>. QED  BY <1>1, <1>3, <1>6, <3>4, <3>5, <3>6, CallGoesOn
  <2>5. CASE event # "good"
    <3>1. CodeOf[event] \notin {"LORA_OK", "LORA_EMPTY"}
      BY <1>2, <2>1, <2>5 DEF CodeOf, Outcomes
    <3>. QED  BY <1>7, <1>10, <2>3, <3>1
  <2>. QED  BY <2>4, <2>5
<1>. QED  BY <1>8, <1>9, <1>10 DEF ClearRx

LEMMA SetRxModeRInv ==
  ASSUME RInv, OneAtATime, SetRxMode
  PROVE  RInv'
<1>. DEFINE c == SetMode(chip, "RX_SINGLE")
<1>1. cpu.pc = "rx_mode"
      /\ WriteRegister(SetMode(chip, IF cpu.op = "mode_receive_single"
                                     THEN "RX_SINGLE" ELSE "RX_CONTINUOUS"))
      /\ Return("void")
      /\ UNCHANGED <<buffer, event, heard>>
  BY DEF SetRxMode, At, Quiet, history
<1>2. /\ IInv /\ Reliable /\ FlagsTrue /\ StartsIdle /\ PacketKept
      /\ chip \in ChipStates /\ cpu.op = "mode_receive_single"
  BY <1>1, ReceptionCall DEF OpsAt, Receivers
<1>3. chip' = c /\ dma' = dma
  BY <1>1, <1>2, WriteDone
<1>4. chip.rxBase = RxBaseAddr /\ event = "none"
  BY <1>1, <1>2 DEF StartsIdle, Receivers, At
<1>5. /\ c.mode = "RX_SINGLE" /\ c.rxByte = RxBaseAddr /\ c.irq = chip.irq
  BY <1>2, <1>4 DEF SetMode, ChipStates, RxModes
<1>6. cpu'.op = "none" /\ cpu'.pc = "idle" /\ ret'.op = cpu.op
  BY <1>1 DEF Return, ReturnLen, Idle
<1>7. ~Fetching /\ ~Fetching' /\ cpu'.op \notin Receivers \cup ReceiveOps
  BY <1>1, <1>6 DEF Fetching, Receivers, ReceiveOps
<1>. HIDE DEF c
<1>8. FlagsTrue'
  BY <1>1, <1>2, <1>3, <1>4, <1>5, <1>6, <1>7 DEF FlagsTrue, At
<1>9. StartsIdle'
  BY <1>3, <1>5, <1>6, <1>7 DEF StartsIdle, At
<1>10. PacketKept'
  BY <1>1, <1>4, <1>6, <1>7 DEF PacketKept, At
<1>11. IInv'
  BY <1>2, SetRxModeInv
<1>. QED  BY <1>1, <1>3, <1>8, <1>9, <1>10, <1>11, CallGoesOn

\* A step of a receive or query call that only reads a register.
LEMMA ReadsOnlyRInv ==
  ASSUME RInv, OneAtATime, cpu.pc # "idle", IInv',
         cpu.op \notin Receivers, cpu'.op \in {cpu.op, "none"},
         cpu'.pc # "rx_mode", Fetching' <=> Fetching,
         (ret'.op = "is_packet_available" /\ ret'.code = "ready") =>
            event # "none",
         (cpu'.pc = "clear_rx" /\ cpu.op \in ReceiveOps) =>
            cpu'.irqs \cap RX_ALL = chip.irq \cap RX_ALL,
         Fetching' => cpu'.pc # "payload_length",
         cpu'.pc \in {"rx_current", "rx_ptr", "read_fifo", "start_rx_dma"} =>
            cpu'.len = chip.rxNb,
         cpu'.pc = "rx_ptr" => cpu'.offset = chip.rxCur,
         cpu'.pc \notin {"read_fifo", "start_rx_dma"},
         UNCHANGED <<chip, dma, buffer, event, heard>>
  PROVE  RInv'
<1>1. FlagsTrue /\ StartsIdle /\ PacketKept
  BY ReceptionCall
<1>2. "none" \notin ReceiveOps \cup Receivers
  BY DEF ReceiveOps, Receivers
<1>3. FlagsTrue'
  BY <1>1, <1>2 DEF FlagsTrue, At
<1>4. StartsIdle'
  BY <1>1, <1>2 DEF StartsIdle, At
<1>5. PacketKept'
  BY <1>1 DEF PacketKept, At
<1>. QED  BY <1>3, <1>4, <1>5, CallGoesOn

LEMMA PollRxRInv ==
  ASSUME RInv, OneAtATime, PollRx
  PROVE  RInv'
<1>1. /\ cpu.pc = "poll_rx" /\ UNCHANGED <<buffer, event, heard>>
  BY DEF PollRx, At, Quiet, history
<1>2. /\ IInv /\ Reliable /\ FlagsTrue /\ TypeOK /\ ret = NoRet
      /\ cpu.op \in {"is_packet_available", "receive_packet_blocking"}
  BY <1>1, ReceptionCall DEF OpsAt
<1>3. PICK irqs : /\ ReadRegister(chip.irq, {}, irqs)
                  /\ IF cpu.op = "is_packet_available"
                     THEN Return(IF Available(irqs) THEN "ready" ELSE "not_ready")
                     ELSE Goto(IF Available(irqs) THEN "read_irq" ELSE "delay_rx")
  BY DEF PollRx
<1>4. irqs = chip.irq /\ UNCHANGED <<chip, dma>>
  BY <1>1, <1>2, <1>3, ReadDone
<1>5. ~Fetching /\ cpu.op \notin Receivers /\ IInv'
  BY <1>1, <1>2, PollRxInv DEF Fetching, Receivers
<1>6. event = "none" => ~Available(chip.irq)
  BY <1>2, <1>5 DEF FlagsTrue, FlagsOf, Available, RX_ALL
<1>7. CASE cpu.op = "is_packet_available"
  <2>1. /\ cpu'.op = "none" /\ cpu'.pc = "idle"
        /\ ret'.code = IF Available(chip.irq) THEN "ready" ELSE "not_ready"
    BY <1>3, <1>4, <1>7 DEF Return, ReturnLen, Idle
  <2>2. ~Fetching'
    BY <2>1 DEF Fetching
  <2>3. ret'.code = "ready" => event # "none"
    BY <1>6, <2>1
  <2>. QED  BY <1>1, <1>4, <1>5, <2>1, <2>2, <2>3, ReadsOnlyRInv
<1>8. CASE cpu.op # "is_packet_available"
  <2>. DEFINE next == IF Available(irqs) THEN "read_irq" ELSE "delay_rx"
  <2>1. Goto(next) /\ next \in {"read_irq", "delay_rx"} /\ next \in Labels
    BY <1>3, <1>8 DEF Labels
  <2>. HIDE DEF next
  <2>2. cpu'.op = cpu.op /\ cpu'.pc = next /\ ret' = ret
    BY <1>2, <2>1, GotoType
  <2>3. ~Fetching'
    BY <2>1, <2>2 DEF Fetching
  <2>. QED  BY <1>1, <1>2, <1>4, <1>5, <2>1, <2>2, <2>3, ReadsOnlyRInv DEF NoRet
<1>. QED  BY <1>7, <1>8

LEMMA DelayRxRInv ==
  ASSUME RInv, OneAtATime, DelayRx
  PROVE  RInv'
<1>. DEFINE next == IF NextElapsed < Timeout THEN "poll_rx" ELSE "read_irq"
<1>1. /\ cpu.pc = "delay_rx"
      /\ cpu' = [cpu EXCEPT !.elapsed = NextElapsed, !.pc = next]
      /\ UNCHANGED <<chip, dma, ret, buffer, event, heard>>
  BY DEF DelayRx, At, history
<1>2. /\ IInv /\ Reliable /\ cpu \in CpuStates /\ ret = NoRet
      /\ cpu.op = "receive_packet_blocking"
  BY <1>1, ReceptionCall DEF OpsAt
<1>3. next \in {"poll_rx", "read_irq"}
  OBVIOUS
<1>. HIDE DEF next
<1>4. cpu'.op = cpu.op /\ cpu'.pc = next
  BY <1>1, <1>2 DEF CpuStates
<1>5. ~Fetching /\ ~Fetching' /\ cpu.op \notin Receivers /\ IInv'
  BY <1>1, <1>2, <1>3, <1>4, DelayRxInv DEF Fetching, Receivers
<1>. QED  BY <1>1, <1>2, <1>3, <1>4, <1>5, ReadsOnlyRInv DEF NoRet

LEMMA ReadIrqRInv ==
  ASSUME RInv, OneAtATime, ReadIrq
  PROVE  RInv'
<1>1. cpu.pc = "read_irq" /\ UNCHANGED <<ret, buffer, event, heard>>
  BY DEF ReadIrq, At, history
<1>2. /\ IInv /\ Reliable /\ cpu \in CpuStates /\ ret = NoRet
      /\ cpu.op \in ReceiveOps
  BY <1>1, ReceptionCall DEF OpsAt
<1>3. PICK irqs : /\ ReadRegister(chip.irq, {}, irqs)
                  /\ cpu' = [cpu EXCEPT !.pc = "clear_rx", !.irqs = irqs]
  BY DEF ReadIrq
<1>4. irqs = chip.irq /\ UNCHANGED <<chip, dma>>
  BY <1>1, <1>2, <1>3, ReadDone
<1>5. cpu'.op = cpu.op /\ cpu'.pc = "clear_rx" /\ cpu'.irqs = chip.irq
  BY <1>2, <1>3, <1>4 DEF CpuStates
<1>6. ~Fetching /\ ~Fetching' /\ cpu.op \notin Receivers /\ IInv'
  BY <1>1, <1>2, <1>5, ReadIrqInv DEF Fetching, ReceiveOps, Receivers
<1>. QED  BY <1>1, <1>2, <1>4, <1>5, <1>6, ReadsOnlyRInv DEF NoRet

LEMMA ReadHeaderModeRInv ==
  ASSUME RInv, OneAtATime, ReadHeaderMode
  PROVE  RInv'
<1>1. cpu.pc = "header_mode" /\ UNCHANGED <<buffer, event, heard>>
  BY DEF ReadHeaderMode, At, Quiet, history
<1>2. /\ IInv /\ Reliable /\ TypeOK /\ ret = NoRet
      /\ cpu.op \in ReceiveOps \cup {"pending_packet_length"}
  BY <1>1, ReceptionCall DEF OpsAt
<1>3. PICK implicit :
        /\ ReadRegister(Implicit, FALSE, implicit)
        /\ Goto(IF implicit THEN "payload_length" ELSE "rx_nb_bytes")
  BY DEF ReadHeaderMode
<1>4. implicit = FALSE /\ UNCHANGED <<chip, dma>>
  BY <1>1, <1>2, <1>3, ReadDone DEF OneAtATime
<1>5. cpu'.op = cpu.op /\ cpu'.pc = "rx_nb_bytes" /\ ret' = ret
  BY <1>2, <1>3, <1>4, GotoType DEF Labels
<1>6. (Fetching' <=> Fetching) /\ cpu.op \notin Receivers /\ IInv'
  BY <1>1, <1>2, <1>5, ReadHeaderModeInv DEF Fetching, ReceiveOps, Receivers
<1>. QED  BY <1>1, <1>2, <1>4, <1>5, <1>6, ReadsOnlyRInv DEF NoRet

LEMMA ReadLengthRInv ==
  ASSUME RInv, OneAtATime, ReadLength
  PROVE  RInv'
<1>1. /\ cpu.pc \in {"payload_length", "rx_nb_bytes"}
      /\ UNCHANGED <<buffer, event, heard>>
  BY DEF ReadLength, Quiet, history
<1>2. /\ IInv /\ Reliable /\ cpu \in CpuStates /\ ret = NoRet /\ PacketKept
      /\ cpu.op \in ReceiveOps \cup {"pending_packet_length"}
  BY <1>1, ReceptionCall DEF OpsAt
<1>3. PICK len :
        /\ ReadRegister(LengthRegister, 0, len)
        /\ IF cpu.op = "pending_packet_length" THEN ReturnLen("void", len)
           ELSE /\ cpu' = [cpu EXCEPT !.pc = "rx_current", !.len = len]
                /\ UNCHANGED ret
  BY DEF ReadLength
<1>4. len = LengthRegister /\ UNCHANGED <<chip, dma>>
  BY <1>1, <1>2, <1>3, ReadDone
<1>5. IInv' /\ cpu.op \notin Receivers
  BY <1>2, ReadLengthInv DEF ReceiveOps, Receivers
<1>6. CASE cpu.op = "pending_packet_length"
  <2>1. /\ cpu'.op = "none" /\ cpu'.pc = "idle"
        /\ ret'.op = "pending_packet_length"
    BY <1>3, <1>6 DEF ReturnLen, Idle
  <2>2. ~Fetching /\ ~Fetching'
    BY <1>6, <2>1 DEF Fetching, ReceiveOps
  <2>. QED  BY <1>1, <1>4, <1>5, <2>1, <2>2, ReadsOnlyRInv
<1>7. CASE cpu.op # "pending_packet_length"
  <2>1. cpu.op \in ReceiveOps /\ Fetching
    BY <1>1, <1>2, <1>7 DEF Fetching
  <2>2. len = chip.rxNb
    BY <1>1, <1>2, <1>4, <2>1 DEF PacketKept, LengthRegister, At
  <2>3. /\ cpu'.op = cpu.op /\ cpu'.pc = "rx_current" /\ cpu'.len = chip.rxNb
        /\ ret' = ret
    BY <1>2, <1>3, <1>7, <2>2 DEF CpuStates
  <2>4. Fetching'
    BY <2>1, <2>3 DEF Fetching
  <2>. QED  BY <1>1, <1>2, <1>4, <1>5, <2>1, <2>3, <2>4, ReadsOnlyRInv DEF NoRet
<1>. QED  BY <1>6, <1>7

LEMMA ReadRxCurrentRInv ==
  ASSUME RInv, OneAtATime, ReadRxCurrent
  PROVE  RInv'
<1>1. cpu.pc = "rx_current" /\ UNCHANGED <<ret, buffer, event, heard>>
  BY DEF ReadRxCurrent, At, history
<1>2. /\ IInv /\ Reliable /\ cpu \in CpuStates /\ ret = NoRet /\ PacketKept
      /\ cpu.op \in ReceiveOps
  BY <1>1, ReceptionCall DEF OpsAt
<1>3. PICK offset : /\ ReadRegister(chip.rxCur, 0, offset)
                    /\ cpu' = [cpu EXCEPT !.pc = "rx_ptr", !.offset = offset]
  BY DEF ReadRxCurrent
<1>4. offset = chip.rxCur /\ UNCHANGED <<chip, dma>>
  BY <1>1, <1>2, <1>3, ReadDone
<1>5. /\ cpu'.op = cpu.op /\ cpu'.pc = "rx_ptr" /\ cpu'.offset = chip.rxCur
      /\ cpu'.len = cpu.len
  BY <1>2, <1>3, <1>4 DEF CpuStates
<1>6. Fetching /\ Fetching' /\ cpu.op \notin Receivers /\ IInv'
      /\ cpu.len = chip.rxNb
  BY <1>1, <1>2, <1>5, ReadRxCurrentInv
     DEF Fetching, ReceiveOps, Receivers, PacketKept
<1>. QED  BY <1>1, <1>2, <1>4, <1>5, <1>6, ReadsOnlyRInv DEF NoRet

LEMMA SetRxFifoPtrRInv ==
  ASSUME RInv, OneAtATime, SetRxFifoPtr
  PROVE  RInv'
<1>. DEFINE c == [chip EXCEPT !.fifoPtr = cpu.offset]
            next == IF cpu.op = "receive_packet_dma_start" THEN "start_rx_dma"
                    ELSE "read_fifo"
<1>1. WriteStep("rx_ptr", c, next)
  BY DEF SetRxFifoPtr
<1>2. next \in Labels /\ next \in {"start_rx_dma", "read_fifo"}
      /\ "rx_ptr" \in Labels \ {"idle"} /\ IInv /\ Reliable
  BY DEF Labels, RInv, OneAtATime
<1>3. /\ cpu.pc = "rx_ptr" /\ chip' = c /\ cpu'.pc = next
      /\ cpu'.op = cpu.op /\ cpu'.len = cpu.len
      /\ UNCHANGED <<dma, buffer, event, heard, ret>>
  BY <1>1, <1>2, WriteStepDone DEF history
<1>4. /\ FlagsTrue /\ StartsIdle /\ PacketKept /\ chip \in ChipStates
      /\ cpu.op \in ReceiveOps /\ ret = NoRet
  BY <1>3, ReceptionCall DEF OpsAt
<1>5. cpu.len = chip.rxNb /\ cpu.offset = chip.rxCur
  BY <1>3, <1>4 DEF PacketKept, At
<1>6. /\ c.mode = chip.mode /\ c.irq = chip.irq /\ c.fifo = chip.fifo
      /\ c.rxBase = chip.rxBase /\ c.rxByte = chip.rxByte
      /\ c.rxCur = chip.rxCur /\ c.rxNb = chip.rxNb /\ c.fifoPtr = chip.rxCur
  BY <1>4, <1>5 DEF ChipStates
<1>. HIDE DEF c, next
<1>7. Fetching /\ Fetching' /\ cpu.op \notin Receivers
  BY <1>2, <1>3, <1>4 DEF Fetching, Receivers, ReceiveOps
<1>8. FlagsTrue'
  BY <1>2, <1>3, <1>4, <1>6, <1>7 DEF FlagsTrue, At, NoRet
<1>9. StartsIdle'
  BY <1>2, <1>3, <1>4, <1>6, <1>7 DEF StartsIdle, At
<1>10. PacketKept'
  BY <1>2, <1>3, <1>4, <1>5, <1>6, <1>7 DEF PacketKept, At
<1>11. IInv'
  BY <1>2, SetRxFifoPtrInv
<1>. QED  BY <1>3, <1>8, <1>9, <1>10, <1>11, CallGoesOn

\* What a call that fetches finds where the FIFO pointer stands.
LEMMA FetchesPacket ==
  ASSUME RInv, OneAtATime, cpu.pc \in {"read_fifo", "start_rx_dma"}
  PROVE  /\ IsHeard(Fetch(chip.fifo, chip.fifoPtr, cpu.len))
         /\ heard \in Packets /\ cpu.len \in 1 .. FifoSize /\ Fetching
         /\ event = "good" /\ chip.mode \notin RxModes \cup {"SLEEP"}
<1>1. /\ FlagsTrue /\ PacketKept /\ StartsIdle
      /\ cpu.op \in ReceiveOps
  BY ReceptionCall DEF OpsAt, ReceiveOps
<1>2. Fetching /\ event = "good" /\ chip.mode \notin RxModes \cup {"SLEEP"}
  BY <1>1 DEF Fetching, FlagsTrue, StartsIdle
<1>3. /\ heard \in Packets /\ chip.fifoPtr = RxBaseAddr
      /\ cpu.len = Length[heard]
      /\ \A i \in 0 .. Length[heard] - 1 : Slot(chip.fifo, heard, i)
  BY <1>1, <1>2 DEF PacketKept
<1>4. cpu.len \in 1 .. FifoSize
  BY <1>3, LengthFacts DEF Payloads
<1>5. IsHeard(Fetch(chip.fifo, chip.fifoPtr, cpu.len))
  BY <1>3 DEF Fetch, IsHeard, Slot
<1>. QED  BY <1>2, <1>3, <1>4, <1>5

LEMMA ReadFifoRInv ==
  ASSUME RInv, OneAtATime, ReadFifo
  PROVE  RInv'
<1>1. /\ cpu.pc = "read_fifo" /\ ReturnLen("LORA_OK", cpu.len)
      /\ event' = "none" /\ UNCHANGED heard
  BY DEF ReadFifo, At, CopyLength
<1>2. /\ IInv /\ Reliable /\ FlagsTrue /\ StartsIdle /\ PacketKept
      /\ chip \in ChipStates /\ dma.job = "none"
      /\ cpu.op \in ReceiveOps
  BY <1>1, ReceptionCall DEF OpsAt, ReceiveOps
<1>3. PICK ok \in SpiOutcomes :
         /\ Deselect(ok)
         /\ chip'   = IF ok THEN GotFifo(chip, cpu.len) ELSE chip
         /\ buffer' = IF ok THEN FifoBytes(chip, cpu.len)
                      ELSE [i \in 0 .. cpu.len - 1 |-> Blank]
  BY DEF ReadFifo, CopyLength
<1>4. ok = TRUE
  BY <1>1, <1>2, BusFree
<1>5. /\ chip' = [chip EXCEPT !.fifoPtr = (@ + cpu.len) % FifoSize]
      /\ buffer' = FifoBytes(chip, cpu.len) /\ dma' = dma
  BY <1>1, <1>2, <1>3, <1>4, DeselectDone DEF GotFifo
<1>6. /\ buffer' = Fetch(chip.fifo, chip.fifoPtr, cpu.len)
      /\ IsHeard(Fetch(chip.fifo, chip.fifoPtr, cpu.len))
      /\ heard \in Packets /\ Fetching /\ chip.mode \notin RxModes
  BY <1>1, <1>5, FetchesPacket DEF FifoBytes
<1>7. cpu'.op = "none" /\ cpu'.pc = "idle" /\ ret'.op = cpu.op
  BY <1>1 DEF ReturnLen, Idle
<1>8. ~Fetching' /\ cpu'.op \notin Receivers \cup ReceiveOps
      /\ ret'.op # "is_packet_available"
  BY <1>2, <1>7 DEF Fetching, Receivers, ReceiveOps
<1>9. /\ chip'.mode = chip.mode /\ chip'.irq = chip.irq
      /\ chip'.rxByte = chip.rxByte
  BY <1>2, <1>5 DEF ChipStates
<1>10. FlagsTrue'
  BY <1>1, <1>2, <1>6, <1>7, <1>8, <1>9 DEF FlagsTrue, FlagsOf, At
<1>11. StartsIdle'
  BY <1>2, <1>7, <1>8, <1>9 DEF StartsIdle, At
<1>12. PacketKept'
  BY <1>1, <1>7, <1>8 DEF PacketKept, At
<1>13. Delivered'
  BY <1>1, <1>2, <1>5, <1>6, <1>7, <1>9
     DEF Delivered, ReceivedIntact, IsHeard
<1>14. IInv'
  BY <1>2, ReadFifoInv
<1>. QED  BY <1>10, <1>11, <1>12, <1>13, <1>14 DEF RInv

LEMMA StartRxDmaRInv ==
  ASSUME RInv, OneAtATime, StartRxDma
  PROVE  RInv'
<1>1. /\ cpu.pc = "start_rx_dma" /\ ReturnLen("LORA_OK", cpu.len)
      /\ event' = "none" /\ UNCHANGED <<chip, buffer, heard>>
  BY DEF StartRxDma, At, CopyLength
<1>2. /\ IInv /\ Reliable /\ FlagsTrue /\ StartsIdle /\ PacketKept
      /\ dma.job = "none" /\ cpu.op \in ReceiveOps /\ buffer = NoData
  BY <1>1, ReceptionCall DEF OpsAt, ReceiveOps
<1>3. PICK ok \in SpiOutcomes :
         dma' = IF ok /\ cpu.len > 0
                THEN [job |-> "rx", payload |-> NoPayload,
                      len |-> cpu.len, cut |-> FALSE]
                ELSE dma
  BY DEF StartRxDma, CopyLength
<1>4. /\ IsHeard(Fetch(chip.fifo, chip.fifoPtr, cpu.len))
      /\ heard \in Packets /\ Fetching /\ chip.mode \notin RxModes
  BY <1>1, FetchesPacket
<1>5. dma'.job = "rx" => dma'.len = cpu.len
  BY <1>2, <1>3
<1>6. cpu'.op = "none" /\ cpu'.pc = "idle" /\ ret'.op = cpu.op
  BY <1>1 DEF ReturnLen, Idle
<1>7. ~Fetching' /\ cpu'.op \notin Receivers \cup ReceiveOps
      /\ ret'.op # "is_packet_available"
  BY <1>2, <1>6 DEF Fetching, Receivers, ReceiveOps
<1>8. FlagsTrue'
  BY <1>1, <1>2, <1>4, <1>6, <1>7 DEF FlagsTrue, FlagsOf, At
<1>9. StartsIdle'
  BY <1>1, <1>2, <1>6, <1>7 DEF StartsIdle, At
<1>10. PacketKept'
  BY <1>1, <1>6, <1>7 DEF PacketKept, At
<1>11. Delivered'
  BY <1>1, <1>2, <1>4, <1>5, <1>6 DEF Delivered, ReceivedIntact, IsHeard
<1>12. IInv'
  BY <1>2, StartRxDmaInv
<1>. QED  BY <1>8, <1>9, <1>10, <1>11, <1>12 DEF RInv

-----------------------------------------------------------------------------
(* The interrupt that ends a reception's DMA, the radio, the application.  *)

LEMMA RxDmaCompleteRInv ==
  ASSUME RInv, OneAtATime, RxDmaComplete
  PROVE  RInv'
<1>1. /\ dma.job = "rx" /\ dma' = NoDma
      /\ UNCHANGED <<cpu, ret, event, heard>>
  BY DEF RxDmaComplete, EndTransfer, control, history
<1>2. PICK n \in Moved :
         /\ chip' = GotFifo(chip, n)
         /\ buffer' = [i \in 0 .. dma.len - 1 |->
                         IF i < n THEN FifoBytes(chip, dma.len)[i] ELSE Blank]
  BY DEF RxDmaComplete
<1>3. /\ IInv /\ FlagsTrue /\ StartsIdle /\ PacketKept /\ Delivered
      /\ chip \in ChipStates /\ TypeOK /\ cpu.pc = "idle" /\ ~dma.cut
      /\ cpu.op = "none"
  BY <1>1, BeginReception DEF IInv, BusFramed, DmaRunning, At, OpsAt
<1>4. n = dma.len /\ dma.len \in 0 .. FifoSize
  BY <1>3 DEF Moved, TypeOK, Lens
<1>5. IsHeard(Fetch(chip.fifo, chip.fifoPtr, dma.len)) /\ heard \in Packets
      /\ FifoBytes(chip, dma.len) = Fetch(chip.fifo, chip.fifoPtr, dma.len)
      /\ chip.mode \notin RxModes
  BY <1>1, <1>3 DEF FifoBytes, StartsIdle, Delivered
<1>6. buffer' = Fetch(chip.fifo, chip.fifoPtr, dma.len)
  <2>1. buffer' = [i \in 0 .. dma.len - 1 |-> FifoBytes(chip, dma.len)[i]]
    BY <1>2, <1>4
  <2>. QED  BY <1>5, <2>1 DEF Fetch
<1>7. /\ chip'.mode = chip.mode /\ chip'.irq = chip.irq
      /\ chip'.rxByte = chip.rxByte /\ chip'.rxBase = chip.rxBase
      /\ chip'.rxCur = chip.rxCur /\ chip'.rxNb = chip.rxNb
      /\ chip'.fifo = chip.fifo
  BY <1>2, <1>3 DEF GotFifo, ChipStates
<1>8. ~Fetching /\ ~Fetching'
  BY <1>1, <1>3 DEF Fetching
<1>9. FlagsTrue' /\ StartsIdle'
  BY <1>1, <1>3, <1>7, <1>8 DEF FlagsTrue, StartsIdle, At
<1>10. PacketKept'
  BY <1>1, <1>3, <1>7, <1>8 DEF PacketKept, At
<1>11. Delivered'
  BY <1>1, <1>3, <1>5, <1>6, <1>7
     DEF Delivered, ReceivedIntact, IsHeard, NoDma
<1>12. IInv'
  BY <1>3, RxDmaCompleteInv
<1>. QED  BY <1>9, <1>10, <1>11, <1>12 DEF RInv

\* While the radio receives, nothing waits to be collected and no call or
\* DMA is at work on a reception.
LEMMA WhileReceiving ==
  ASSUME RInv, chip.mode \in RxModes
  PROVE  /\ chip.mode = "RX_SINGLE" /\ chip.rxByte = RxBaseAddr
         /\ event = "none" /\ chip.irq \cap RX_ALL = {}
         /\ cpu.op \notin ReceiveOps \cup Receivers
         /\ cpu.op \in Ops \cup {"none"}
         /\ cpu.pc \notin {"rx_mode", "rx_current", "rx_ptr", "read_fifo",
                           "start_rx_dma"}
         /\ dma.job # "rx" /\ buffer = NoData
         /\ IInv /\ chip \in ChipStates /\ TypeOK
<1>1. /\ FlagsTrue /\ StartsIdle /\ Delivered /\ cpu.op \in OpsAt(cpu.pc)
      /\ IInv /\ chip \in ChipStates /\ TypeOK
  BY BeginReception
<1>2. event = "none" /\ cpu.op \notin ReceiveOps \cup Receivers
  BY <1>1 DEF FlagsTrue, StartsIdle
<1>3. ~Fetching
  BY <1>2 DEF Fetching
<1>4. cpu.pc \notin {"rx_mode", "rx_current", "rx_ptr", "read_fifo",
                     "start_rx_dma"}
  BY <1>1, <1>2 DEF OpsAt, ReceiveOps
<1>. QED  BY <1>1, <1>2, <1>3, <1>4
     DEF FlagsTrue, FlagsOf, StartsIdle, Delivered, RxModes

\* A reception ends: the flags and, if a packet came, the FIFO say how.
LEMMA ReceptionEnds ==
  ASSUME RInv, IInv', chip.mode \in RxModes,
         NEW e \in DOMAIN Outcomes \cup {"timeout"}, event' = e,
         chip'.mode = "STDBY", chip'.irq \cap RX_ALL = FlagsOf(e),
         e = "good" =>
           /\ heard' \in Packets
           /\ chip'.rxCur = RxBaseAddr /\ chip'.rxNb = Length[heard']
           /\ \A i \in 0 .. Length[heard'] - 1 : Slot(chip'.fifo, heard', i),
         UNCHANGED <<cpu, ret, dma, buffer>>
  PROVE  RInv'
<1>1. /\ cpu.op \notin ReceiveOps \cup Receivers
      /\ cpu.op \in Ops \cup {"none"}
      /\ cpu.pc \notin {"rx_mode", "rx_current", "rx_ptr", "read_fifo",
                        "start_rx_dma"}
      /\ dma.job # "rx" /\ buffer = NoData /\ e # "none"
  BY WhileReceiving DEF Outcomes
<1>2. ~Fetching'
  BY <1>1 DEF Fetching
<1>3. FlagsTrue'
  BY <1>1, <1>2 DEF FlagsTrue, RxModes
<1>4. StartsIdle'
  BY <1>1 DEF StartsIdle, At, RxModes
<1>5. PacketKept'
  BY <1>1, <1>2 DEF PacketKept, At
<1>6. Delivered'
  BY <1>1 DEF Delivered, ReceivedIntact
<1>. QED  BY <1>3, <1>4, <1>5, <1>6 DEF RInv

LEMMA HeardRInv ==
  ASSUME RInv, OneAtATime, NEW p \in Packets, NEW outcome \in DOMAIN Outcomes,
         Heard(p, outcome)
  PROVE  RInv'
<1>1. /\ chip.mode \in RxModes
      /\ chip' = [chip EXCEPT
           !.fifo   = Store(@, chip.rxByte, p, Length[p]),
           !.rxCur  = chip.rxByte,
           !.rxNb   = Length[p],
           !.rxByte = (@ + Length[p]) % FifoSize,
           !.irq    = @ \cup Outcomes[outcome],
           !.mode   = IF @ = "RX_SINGLE" THEN "STDBY" ELSE @]
      /\ event' = outcome
      /\ heard' = IF outcome = "good" THEN p ELSE heard
      /\ UNCHANGED <<cpu, ret, dma, buffer>>
  BY DEF Heard, Arrive, control
<1>2. /\ chip.mode = "RX_SINGLE" /\ chip.rxByte = RxBaseAddr
      /\ chip.irq \cap RX_ALL = {} /\ chip \in ChipStates /\ IInv
  BY <1>1, WhileReceiving
<1>. DEFINE fifo == Store(chip.fifo, RxBaseAddr, p, Length[p])
            byte == (chip.rxByte + Length[p]) % FifoSize
            irq  == chip.irq \cup Outcomes[outcome]
<1>3. chip' = [mode |-> "STDBY", irq |-> irq, fifo |-> fifo,
               fifoPtr |-> chip.fifoPtr, txBase |-> chip.txBase,
               rxBase |-> chip.rxBase, rxByte |-> byte, rxCur |-> RxBaseAddr,
               rxNb |-> Length[p], payLen |-> chip.payLen]
  BY <1>1, <1>2 DEF ChipStates
<1>4. irq \cap RX_ALL = FlagsOf(outcome)
  BY <1>2 DEF FlagsOf, Outcomes, RX_ALL
<1>5. \A i \in 0 .. Length[p] - 1 : Slot(fifo, p, i)
  <2>1. Length[p] \in 1 .. FifoSize /\ RxBaseAddr \in Addr
    BY LengthFacts DEF Payloads
  <2>2. ASSUME NEW i \in 0 .. Length[p] - 1
        PROVE  Slot(fifo, p, i)
    <3>1. i \in Addr /\ RxBaseAddr + i \in Int /\ i < Length[p]
      BY <2>1 DEF Addr
    <3>2. (RxBaseAddr + i) % FifoSize \in Addr
      BY <3>1, Wraps
    <3>3. (((RxBaseAddr + i) % FifoSize) - RxBaseAddr) % FifoSize = i
      BY <2>1, <3>1, WrapsBack
    <3>4. fifo[(RxBaseAddr + i) % FifoSize] = <<p, i>>
      BY <3>1, <3>2, <3>3 DEF Store
    <3>. HIDE DEF fifo
    <3>. QED  BY <3>4 DEF Slot
  <2>. QED  BY <2>2
<1>. HIDE DEF fifo, byte, irq
<1>6. /\ chip'.mode = "STDBY" /\ chip'.irq = irq /\ chip'.fifo = fifo
      /\ chip'.rxCur = RxBaseAddr /\ chip'.rxNb = Length[p]
  BY <1>3
<1>7. IInv'
  BY <1>2, HeardInv
<1>. QED  BY <1>1, <1>4, <1>5, <1>6, <1>7, ReceptionEnds

LEMMA RxTimedOutRInv ==
  ASSUME RInv, OneAtATime, RxTimedOut
  PROVE  RInv'
<1>1. /\ chip.mode = "RX_SINGLE" /\ event' = "timeout"
      /\ chip' = [chip EXCEPT !.mode = "STDBY", !.irq = @ \cup {"RX_TIMEOUT"}]
      /\ UNCHANGED <<cpu, ret, dma, buffer>>
  BY DEF RxTimedOut, ReceiveTimeout, control
<1>2. chip.mode \in RxModes
  BY <1>1 DEF RxModes
<1>3. chip.irq \cap RX_ALL = {} /\ chip \in ChipStates /\ IInv
  BY <1>2, WhileReceiving
<1>4. chip'.mode = "STDBY" /\ chip'.irq \cap RX_ALL = FlagsOf("timeout")
  BY <1>1, <1>3 DEF ChipStates, RX_ALL, FlagsOf
<1>5. IInv'
  BY <1>3, RxTimedOutInv
<1>. QED  BY <1>1, <1>2, <1>4, <1>5, ReceptionEnds

LEMMA CallRInv ==
  ASSUME RInv, OneAtATime, NEW op \in Ops, NEW m \in Messages \cup {NoPayload},
         Call(op, m)
  PROVE  RInv'
<1>1. /\ cpu.pc = "idle" /\ MayCall(op)
      /\ cpu' = [Idle EXCEPT !.op = op, !.pc = Entry(op), !.msg = m]
      /\ ret' = NoRet /\ buffer' = NoData
      /\ UNCHANGED <<chip, dma, event, heard>>
  BY DEF Call, At
<1>2. /\ IInv /\ Reliable /\ FlagsTrue /\ StartsIdle /\ PacketKept
      /\ cpu.op = "none"
  BY <1>1, BeginReception DEF OpsAt, OneAtATime
<1>3. /\ op \in ReceiveOps => ret.op = "is_packet_available" /\ ret.code = "ready"
      /\ op \in Receivers => chip.mode \notin RxModes
      /\ dma.job = "none"
  BY <1>1 DEF MayCall, OneAtATime, Reliable, Receivers, ModeOps, DmaRunning
<1>4. cpu'.op = op /\ cpu'.pc = Entry(op)
  BY <1>1 DEF Idle
<1>5. /\ Entry(op) \in {"read_opmode", "standby", "sleep", "rx_base", "clear_tx",
                        "clear_rx", "poll_rx", "header_mode", "read_irq"}
      /\ op \in ReceiveOps => Entry(op) \in {"poll_rx", "read_irq"}
      /\ op \in Receivers => Entry(op) = "rx_base"
  BY DEF Entry, AllOps, SendOps, ReceiveOps, ModeOps, QueryOps, ClearOps,
         Receivers
<1>6. ~Fetching /\ ~Fetching'
  BY <1>1, <1>4, <1>5 DEF Fetching
<1>7. FlagsTrue'
  BY <1>1, <1>2, <1>3, <1>4, <1>5, <1>6 DEF FlagsTrue, At, NoRet
<1>8. StartsIdle'
  BY <1>1, <1>2, <1>3, <1>4, <1>5 DEF StartsIdle, At
<1>9. PacketKept'
  BY <1>1, <1>2, <1>4, <1>5, <1>6 DEF PacketKept, At
<1>10. Delivered'
  BY <1>1, <1>3 DEF Delivered, ReceivedIntact
<1>11. IInv'
  BY <1>2, CallInv
<1>. QED  BY <1>7, <1>8, <1>9, <1>10, <1>11 DEF RInv

\* lora_mode_sleep() is not among this application's calls.
LEMMA NeverSleeps ==
  ASSUME RInv, OneAtATime, SetSleep
  PROVE  FALSE
<1>1. cpu.pc = "sleep"
  BY DEF SetSleep, At
<1>. QED  BY <1>1, ReceptionCall DEF OpsAt

LEMMA RNextInv ==
  ASSUME RInv, OneAtATime, [Next]_vars
  PROVE  RInv'
<1>1. CASE AppCall
  BY <1>1, CallRInv DEF AppCall
<1>2. CASE CpuStep
  BY <1>2, SendStepRInv, NeverSleeps, SetRxBaseRInv, ClearRxRInv,
     SetRxModeRInv, PollRxRInv, DelayRxRInv, ReadIrqRInv, ReadHeaderModeRInv,
     ReadLengthRInv, ReadRxCurrentRInv, SetRxFifoPtrRInv, ReadFifoRInv,
     StartRxDmaRInv
     DEF CpuStep, SendStep
<1>3. CASE DmaInterrupt
  BY <1>3, TxDmaCompleteRInv, RxDmaCompleteRInv DEF DmaInterrupt
<1>4. CASE Radio
  BY <1>4, AiredRInv, RxTimedOutRInv, HeardRInv DEF Radio
<1>5. CASE UNCHANGED vars
  <2>1. IInv'
    BY <1>5, NextInv DEF RInv, OneAtATime
  <2>. QED  BY <1>5, <2>1 DEF vars, RInv, FlagsTrue, Fetching, StartsIdle,
       PacketKept, Delivered, ReceivedIntact, IsHeard, At
<1>. QED  BY <1>1, <1>2, <1>3, <1>4, <1>5 DEF Next

LEMMA ReceptionInvariance ==
  ASSUME OneAtATime
  PROVE  Spec => []RInv
<1>1. RInv /\ [Next]_vars => RInv'
  BY RNextInv
<1>. QED  BY <1>1, RInitInv, PTL DEF Spec

-----------------------------------------------------------------------------
(* The theorems.                                                           *)

\* What a receive call delivers, by itself or by DMA, has the length and the
\* bytes of the packet that arrived last, whatever the base addresses are, but
\* for bytes that a message of the application has at the same place.
THEOREM ReceptionIntact ==
  ASSUME OneAtATime
  PROVE  Spec => []ReceivedIntact
<1>1. RInv => ReceivedIntact
  BY DEF RInv, Delivered
<1>. QED  BY <1>1, ReceptionInvariance, PTL

\* No message has a byte where a packet has one.
Apart ==
  \A m \in Messages, p \in Packets :
    \A i \in 0 .. Length[m] - 1, j \in 0 .. Length[p] - 1 :
      (TxBaseAddr + i) % FifoSize # (RxBaseAddr + j) % FifoSize

LEMMA HeardApart ==
  ASSUME Apart, RInv
  PROVE  OkMeansReceived
<1>. SUFFICES ASSUME buffer # NoData
              PROVE  buffer = Bytes(heard)
  BY DEF OkMeansReceived
<1>1. IsHeard(buffer) /\ heard \in Packets /\ IsFrame(buffer)
  BY BeginReception DEF Delivered, ReceivedIntact, TypeOK
<1>2. ASSUME NEW i \in DOMAIN buffer
      PROVE  buffer[i] = <<heard, i>>
  BY <1>1 DEF IsHeard, OwnByte, Apart
<1>3. PICK n \in Lens : buffer \in [0 .. n - 1 -> Byte]
  BY <1>1 DEF IsFrame
<1>4. buffer = [i \in DOMAIN buffer |-> buffer[i]]
  BY <1>3
<1>5. DOMAIN buffer = 0 .. Length[heard] - 1
  BY <1>1 DEF IsHeard
<1>. QED  BY <1>2, <1>4, <1>5 DEF Bytes

\* Where messages and packets are stored apart, which the default base
\* addresses do not do, a receive call delivers the packet itself.
THEOREM ApartMeansReceived ==
  ASSUME OneAtATime, Apart
  PROVE  Spec => []OkMeansReceived
<1>1. RInv => OkMeansReceived
  BY HeardApart
<1>. QED  BY <1>1, ReceptionInvariance, PTL

\* Only a call that returns changes the result of the last call.
LEMMA WhatReturns ==
  ASSUME RInv, OneAtATime, [Next]_vars, ret' # ret,
         cpu.op \in ReceiveOps \cup {"is_packet_available"}
  PROVE  ClearRx \/ ReadFifo \/ StartRxDma \/ PollRx
<1>1. cpu.pc # "idle" /\ cpu.op \in OpsAt(cpu.pc)
  BY BeginReception DEF OpsAt, ReceiveOps
<1>2. cpu.op \notin SendOps \cup ModeOps \cup ClearOps
                    \cup {"is_transmitting", "pending_packet_length"}
  BY DEF ReceiveOps, SendOps, ModeOps, ClearOps
<1>3. cpu.pc \in {"clear_rx", "poll_rx", "delay_rx", "read_irq", "header_mode",
                  "payload_length", "rx_nb_bytes", "rx_current", "rx_ptr",
                  "read_fifo", "start_rx_dma"}
  <2>1. cpu.pc \in Labels
    BY BeginReception DEF CpuStates
  <2>. QED  BY <1>1, <1>2, <2>1
       DEF OpsAt, Labels, SendOps, Receivers, ModeOps, ClearOps
<1>4. CASE AppCall
  BY <1>1, <1>4 DEF AppCall, Call, At
<1>5. CASE DmaInterrupt \/ Radio \/ UNCHANGED vars
  BY <1>5 DEF DmaInterrupt, TxDmaComplete, RxDmaComplete, Radio, Aired,
     RxTimedOut, Heard, control, vars
<1>6. CASE CpuStep
  <2>1. ClearRx \/ PollRx \/ DelayRx \/ ReadIrq \/ ReadHeaderMode \/ ReadLength
        \/ ReadRxCurrent \/ SetRxFifoPtr \/ ReadFifo \/ StartRxDma
    BY <1>3, <1>6 DEF CpuStep, ReadOpmode, SetStandby, SetSleep, ClearTxDone,
       SetFifoPtr, SetTxBase, SetPayloadLength, WriteFifo, StartTxDma, Transmit,
       PollTxDone, AckTxDone, DelayTx, SetRxBase, SetRxMode, WriteStep, At
  <2>. QED  BY <1>2, <2>1 DEF DelayRx, ReadIrq, ReadHeaderMode, ReadLength,
       ReadRxCurrent, SetRxFifoPtr, WriteStep, Goto
<1>. QED  BY <1>4, <1>5, <1>6 DEF Next

LEMMA StepVerdict ==
  ASSUME RInv, OneAtATime, [Next]_vars, cpu.op \in ReceiveOps, ret' # ret
  PROVE  ret'.code = CodeOf[event]
<1>1. cpu.pc # "idle"
  BY BeginReception DEF OpsAt, ReceiveOps
<1>2. /\ FlagsTrue /\ cpu.op # "is_packet_available" /\ cpu.op \notin ModeOps
      /\ cpu.op # "clear_interrupt_rx_all"
      /\ event \in DOMAIN Outcomes \cup {"none", "timeout"}
  BY <1>1, ReceptionCall DEF ReceiveOps, ModeOps, TypeOK
<1>3. CASE ClearRx
  <2>1. cpu.pc = "clear_rx" /\ ~Fetching
    BY <1>3 DEF ClearRx, At, Fetching
  <2>2. cpu.irqs \cap RX_ALL = FlagsOf(event)
    BY <1>2, <2>1 DEF FlagsTrue, At
  <2>3. Verdict(cpu.irqs) = CodeOf[event]
    BY <1>2, <2>2, VerdictOf
  <2>4. Return(Verdict(cpu.irqs))
    BY <1>2, <1>3 DEF ClearRx, Goto
  <2>. QED  BY <2>3, <2>4 DEF Return, ReturnLen
<1>4. CASE ReadFifo \/ StartRxDma
  <2>1. ret'.code = "LORA_OK" /\ cpu.pc \in {"read_fifo", "start_rx_dma"}
    BY <1>4 DEF ReadFifo, StartRxDma, ReturnLen, At
  <2>2. event = "good"
    BY <2>1, FetchesPacket
  <2>. QED  BY <2>1, <2>2 DEF CodeOf
<1>5. ~PollRx
  BY <1>2 DEF PollRx, Goto
<1>. QED  BY <1>3, <1>4, <1>5, WhatReturns

\* Every receive call reports what became of its reception.
THEOREM VerdictsTruthful ==
  ASSUME OneAtATime
  PROVE  Spec => VerdictTruthful
<1>1. RInv /\ [Next]_vars =>
        [(cpu.op \in ReceiveOps /\ ret' # ret) =>
           ret'.code = CodeOf[event]]_vars
  BY StepVerdict
<1>. QED  BY <1>1, ReceptionInvariance, PTL DEF Spec, VerdictTruthful

LEMMA StepAvailability ==
  ASSUME RInv, OneAtATime, [Next]_vars,
         cpu.op = "is_packet_available", ret' # ret
  PROVE  ret'.code = "not_ready" <=> event = "none"
<1>1. cpu.pc # "idle" /\ cpu.op \notin ReceiveOps
  BY BeginReception DEF OpsAt, ReceiveOps
<1>2. cpu.pc = "poll_rx"
  <2>1. ReadFifo \/ StartRxDma \/ ClearRx => FALSE
    BY <1>1, ReceptionCall DEF ReadFifo, StartRxDma, ClearRx, At, OpsAt,
       ModeOps, ReceiveOps, Receivers
  <2>. QED  BY <2>1, WhatReturns DEF PollRx, At
<1>3. /\ IInv /\ Reliable /\ FlagsTrue /\ ~Fetching
      /\ event \in DOMAIN Outcomes \cup {"none", "timeout"}
  BY <1>1, ReceptionCall DEF Fetching, TypeOK
<1>4. PollRx
  BY <1>2, WhatReturns DEF ClearRx, ReadFifo, StartRxDma, At
<1>5. PICK irqs : /\ ReadRegister(chip.irq, {}, irqs)
                  /\ Return(IF Available(irqs) THEN "ready" ELSE "not_ready")
  BY <1>4 DEF PollRx
<1>6. irqs = chip.irq
  BY <1>1, <1>3, <1>5, ReadDone
<1>7. Available(chip.irq) <=> event # "none"
  <2>1. \A f \in RX_ALL : f \in chip.irq <=> f \in FlagsOf(event)
    BY <1>3 DEF FlagsTrue
  <2>. QED  BY <1>3, <2>1 DEF Available, RX_ALL, FlagsOf, Outcomes
<1>. QED  BY <1>5, <1>6, <1>7 DEF Return, ReturnLen

\* lora_is_packet_available() is exact.
THEOREM AvailabilityExact ==
  ASSUME OneAtATime
  PROVE  Spec => AvailabilityTruthful
<1>1. RInv /\ [Next]_vars =>
        [(cpu.op = "is_packet_available" /\ ret' # ret) =>
           (ret'.code = "not_ready" <=> event = "none")]_vars
  BY StepAvailability
<1>. QED  BY <1>1, ReceptionInvariance, PTL DEF Spec, AvailabilityTruthful
=============================================================================
