------------------------------ MODULE LoraLink ------------------------------
(***************************************************************************)
(* The packet path of lora_sx1276.c: every function that sends, receives   *)
(* or changes the radio's mode, run by one application thread, together    *)
(* with the radio (Sx1276) and the SPI DMA engine.  One action is one SPI  *)
(* transaction, or one HAL_Delay: between two of them the radio may        *)
(* transmit, receive or time out, and the DMA-complete interrupt may run   *)
(* lora_*_dma_complete().                                                  *)
(***************************************************************************)
EXTENDS Sx1276, TLC

CONSTANTS
  Ops,          \* API functions the application calls
  Timeout,      \* timeout argument of the blocking calls, in HAL_Delay(1)s
  Implicit,     \* MC1_IMPLICIT_HEADER_MODE is set
  Discipline,   \* how far the application serializes its calls, see MayCall
  MaxFaults,    \* bound: SPI transactions that fail
  MaxCalls      \* bound: API calls

SendOps    == {"send_packet", "send_packet_dma_start", "send_packet_blocking"}
ReceiveOps == {"receive_packet", "receive_packet_dma_start",
               "receive_packet_blocking"}
ModeOps    == {"mode_sleep", "mode_standby", "mode_receive_single",
               "mode_receive_continuous"}
QueryOps   == {"is_transmitting", "is_packet_available",
               "pending_packet_length"}
ClearOps   == {"clear_interrupt_tx_done", "clear_interrupt_rx_all"}
AllOps     == SendOps \cup ReceiveOps \cup ModeOps \cup QueryOps \cup ClearOps

Codes == {"LORA_OK", "LORA_CRC_ERROR", "LORA_TIMEOUT", "LORA_INVALID_HEADER",
          "LORA_BUSY", "LORA_EMPTY", "ready", "not_ready", "void", "none"}

ASSUME LinkAssumption ==
  /\ Ops \subseteq AllOps
  /\ Timeout \in Nat \ {0}
  /\ Implicit \in BOOLEAN
  /\ Discipline \subseteq {"wait_for_dma", "check_first", "start_idle"}
  /\ MaxFaults \in Nat /\ MaxCalls \in Nat

VARIABLES
  cpu,       \* the call in progress: function, next transaction, locals
  nss,       \* level of the radio's chip select
  dma,       \* the DMA transfer in progress
  ret,       \* the last call that returned, what it returned
  buffer,    \* what the receive call delivered into the application's buffer
  accepted,  \* history: the last message a send call took on (passed BUSY)
  aired,     \* history: the frame transmitted since the last call began
  event,     \* history: the reception not yet reported nor discarded
  heard,     \* history: the last packet that arrived well
  faults, calls

control == <<cpu, ret>>
history == <<accepted, aired, event, heard>>
vars    == <<chip, cpu, nss, dma, ret, buffer, accepted, aired, event, heard,
             faults, calls>>

NoData == <<>>
Idle   == [op |-> "none", pc |-> "idle", msg |-> NoPayload, elapsed |-> 0,
           irqs |-> {}, len |-> 0, offset |-> 0]
NoRet  == [op |-> "none", code |-> "none", msg |-> NoPayload, len |-> 0]
NoDma  == [job |-> "none", payload |-> NoPayload, len |-> 0, cut |-> FALSE]

Init ==
  /\ ChipInit
  /\ cpu = Idle /\ nss = "high" /\ dma = NoDma /\ ret = NoRet
  /\ buffer = NoData
  /\ accepted = NoPayload /\ aired = NoData /\ event = "none"
  /\ heard = NoPayload
  /\ faults = 0 /\ calls = 0

-----------------------------------------------------------------------------
(* SPI transactions.  NSS goes low, the bytes move, NSS goes high.  The    *)
(* HAL refuses a transfer (HAL_BUSY) while a DMA owns the peripheral, and  *)
(* the radio does not decode an address inside a frame that was never      *)
(* ended; otherwise a transfer may still fail, MaxFaults times.  No caller *)
(* looks at the outcome.  Raising NSS during a DMA ends the DMA's frame.   *)

DmaRunning == dma.job # "none"

SpiBusy    == DmaRunning \/ nss = "low"

HalOutcomes == IF faults < MaxFaults THEN BOOLEAN ELSE {TRUE}
SpiOutcomes == IF SpiBusy THEN {FALSE} ELSE HalOutcomes

CountFault(ok) == faults' = IF ok \/ SpiBusy THEN faults ELSE faults + 1

Deselect(ok) ==
  /\ nss' = "high"
  /\ dma' = [dma EXCEPT !.cut = @ \/ DmaRunning]
  /\ CountFault(ok)

\* write_register(): the radio becomes c, unless the transfer fails.
WriteRegister(c) ==
  \E ok \in SpiOutcomes : Deselect(ok) /\ chip' = IF ok THEN c ELSE chip

\* read_register(): v is the register's value, or the 0 it was preset to.
ReadRegister(value, zero, v) ==
  /\ \E ok \in SpiOutcomes : Deselect(ok) /\ v = (IF ok THEN value ELSE zero)
  /\ UNCHANGED chip

-----------------------------------------------------------------------------
(* Control of a call.                                                      *)

At(label)   == cpu.pc = label
Goto(label) == cpu' = [cpu EXCEPT !.pc = label] /\ UNCHANGED ret

ReturnLen(code, len) ==
  /\ cpu' = Idle
  /\ ret' = [op |-> cpu.op, code |-> code, msg |-> cpu.msg, len |-> len]
Return(code) == ReturnLen(code, 0)

\* The last transaction of function op, an inner one of the others.
ReturnFrom(op, code, label) ==
  IF cpu.op = op THEN Return(code) ELSE Goto(label)

Quiet == UNCHANGED <<buffer, history, calls>>

\* A step that only writes a register.
WriteStep(label, c, next) ==
  At(label) /\ WriteRegister(c) /\ Goto(next) /\ Quiet

\* The first transaction of each function.
Entry(op) ==
  CASE op \in SendOps \cup {"is_transmitting"}   -> "read_opmode"
    [] op = "mode_standby"                       -> "standby"
    [] op = "mode_sleep"                         -> "sleep"
    [] op \in {"mode_receive_single", "mode_receive_continuous"} -> "rx_base"
    [] op = "clear_interrupt_tx_done"            -> "clear_tx"
    [] op = "clear_interrupt_rx_all"             -> "clear_rx"
    [] op \in {"is_packet_available", "receive_packet_blocking"} -> "poll_rx"
    [] op = "pending_packet_length"              -> "header_mode"
    [] OTHER                                     -> "read_irq"

\* What the application may be held to: it makes no call during a DMA, it
\* receives only once lora_is_packet_available() said so, and it starts a
\* reception only when none is running.
MayCall(op) ==
  /\ "wait_for_dma" \in Discipline => ~DmaRunning
  /\ ("check_first" \in Discipline /\ op \in ReceiveOps) =>
        ret.op = "is_packet_available" /\ ret.code = "ready"
  /\ ("start_idle" \in Discipline /\ op \in ModeOps) =>
        chip.mode \notin RxModes

Call(op, m) ==
  /\ At("idle") /\ calls < MaxCalls /\ MayCall(op)
  /\ m = NoPayload <=> op \notin SendOps
  /\ cpu' = [Idle EXCEPT !.op = op, !.pc = Entry(op), !.msg = m]
  /\ calls' = calls + 1
  /\ ret' = NoRet /\ buffer' = NoData /\ aired' = NoData
  /\ UNCHANGED <<chip, nss, dma, accepted, event, heard, faults>>

AppCall ==
  \E op \in Ops, m \in Messages \cup {NoPayload} : Call(op, m)

-----------------------------------------------------------------------------
(* Sending.                                                                *)

\* Mutant: the busy test never fires.
NeverTransmitting(mode) == FALSE

\* lora_is_transmitting()
Transmitting(mode) == mode = "TX"

\* A send call that finds the radio busy.
RefuseCode == IF cpu.op = "send_packet_blocking" THEN "LORA_TIMEOUT"
              ELSE "LORA_BUSY"

ReadOpmode ==
  /\ At("read_opmode")
  /\ \E mode \in {chip.mode, "SLEEP"} :
       /\ ReadRegister(chip.mode, "SLEEP", mode)
       /\ \/ /\ cpu.op = "is_transmitting"
             /\ Return(IF Transmitting(mode) THEN "LORA_BUSY" ELSE "LORA_OK")
             /\ UNCHANGED accepted
          \/ /\ cpu.op # "is_transmitting" /\ Transmitting(mode)
             /\ Return(RefuseCode)
             /\ UNCHANGED accepted
          \/ /\ cpu.op # "is_transmitting" /\ ~Transmitting(mode)
             /\ Goto("standby")
             /\ accepted' = cpu.msg
  /\ UNCHANGED <<buffer, aired, event, heard, calls>>

SetStandby ==
  /\ At("standby")
  /\ WriteRegister(SetMode(chip, "STDBY"))
  /\ ReturnFrom("mode_standby", "void", "clear_tx")
  /\ Quiet

SetSleep ==
  /\ At("sleep")
  /\ WriteRegister(SetMode(chip, "SLEEP"))
  /\ Return("void")
  /\ Quiet

\* Mutant: the flag of the last transmission stays.
TxDoneKept == chip

TxDoneCleared == ClearIrq(chip, {"TX_DONE"})

ClearTxDone ==
  /\ At("clear_tx")
  /\ WriteRegister(TxDoneCleared)
  /\ ReturnFrom("clear_interrupt_tx_done", "void", "tx_ptr")
  /\ Quiet

\* Mutant: the pointer stays where the last FIFO access left it.
KeepFifoPtr == WriteStep("tx_ptr", chip, "tx_base")

SetFifoPtr ==
  WriteStep("tx_ptr", [chip EXCEPT !.fifoPtr = TxBaseAddr], "tx_base")

SetTxBase ==
  WriteStep("tx_base", [chip EXCEPT !.txBase = TxBaseAddr], "pay_len")

\* Mutant: the index of the last byte instead of the length.
SetLastIndex ==
  WriteStep("pay_len", [chip EXCEPT !.payLen = Length[cpu.msg] - 1],
            IF cpu.op = "send_packet_dma_start" THEN "start_tx_dma"
            ELSE "write_fifo")

SetPayloadLength ==
  WriteStep("pay_len", [chip EXCEPT !.payLen = Length[cpu.msg]],
            IF cpu.op = "send_packet_dma_start" THEN "start_tx_dma"
            ELSE "write_fifo")

WriteFifo ==
  WriteStep("write_fifo", PutFifo(chip, cpu.msg, Length[cpu.msg]), "transmit")

\* write_fifo() in DMA mode: NSS stays low, the start's result is ignored.
StartTxDma ==
  /\ At("start_tx_dma")
  /\ \E ok \in SpiOutcomes :
       /\ CountFault(ok)
       /\ dma' = IF ok THEN [job |-> "tx", payload |-> cpu.msg,
                             len |-> Length[cpu.msg], cut |-> FALSE]
                 ELSE dma
  /\ nss' = "low"
  /\ Return("LORA_OK")
  /\ UNCHANGED <<chip, buffer, history, calls>>

Transmit ==
  /\ At("transmit")
  /\ WriteRegister(SetMode(chip, "TX"))
  /\ ReturnFrom("send_packet", "LORA_OK", "poll_tx")
  /\ Quiet

PollTxDone ==
  /\ At("poll_tx")
  /\ \E irqs \in {chip.irq, {}} :
       /\ ReadRegister(chip.irq, {}, irqs)
       /\ Goto(IF "TX_DONE" \in irqs THEN "ack_tx" ELSE "delay_tx")
  /\ Quiet

AckTxDone ==
  /\ At("ack_tx")
  /\ WriteRegister(TxDoneCleared)
  /\ Return("LORA_OK")
  /\ Quiet

\* Mutant: the time spent in HAL_Delay(1) is not counted.
SameElapsed == cpu.elapsed

\* HAL_Delay(1); elapsed++; while (elapsed < timeout)
NextElapsed == cpu.elapsed + 1

DelayTx ==
  /\ At("delay_tx")
  /\ IF NextElapsed < Timeout
     THEN /\ cpu' = [cpu EXCEPT !.elapsed = NextElapsed, !.pc = "poll_tx"]
          /\ UNCHANGED ret
     ELSE Return("LORA_TIMEOUT")
  /\ UNCHANGED <<chip, nss, dma, buffer, history, faults, calls>>

-----------------------------------------------------------------------------
(* Receiving.                                                              *)

\* lora_mode_receive_single(), lora_mode_receive_continuous()
SetRxBase ==
  WriteStep("rx_base", [chip EXCEPT !.rxBase = RxBaseAddr], "clear_rx")

\* Mutant: the payload CRC is not looked at.
VerdictNoCrc(irqs) ==
  IF      "RX_TIMEOUT" \in irqs      THEN "LORA_TIMEOUT"
  ELSE IF "RX_DONE" \notin irqs      THEN "LORA_EMPTY"
  ELSE IF "VALID_HEADER" \notin irqs THEN "LORA_INVALID_HEADER"
  ELSE "LORA_OK"

\* The verdict of lora_receive_packet_base() on the flags it read.
Verdict(irqs) ==
  IF      "RX_TIMEOUT" \in irqs        THEN "LORA_TIMEOUT"
  ELSE IF "RX_DONE" \notin irqs        THEN "LORA_EMPTY"
  ELSE IF "VALID_HEADER" \notin irqs   THEN "LORA_INVALID_HEADER"
  ELSE IF "PAYLOAD_CRC_ERROR" \in irqs THEN "LORA_CRC_ERROR"
  ELSE "LORA_OK"

\* Mutant: only RX_DONE is cleared.
RxDoneCleared == ClearIrq(chip, {"RX_DONE"})

RxCleared == ClearIrq(chip, RX_ALL)

\* The three uses of the write that clears IRQ_FLAGS_RX_ALL.
ClearRx ==
  /\ At("clear_rx")
  /\ WriteRegister(RxCleared)
  /\ \/ /\ cpu.op \in ModeOps
        /\ Goto("rx_mode")
        /\ event' = "none"
     \/ /\ cpu.op = "clear_interrupt_rx_all"
        /\ Return("void")
        /\ event' = "none"
     \/ /\ cpu.op \in ReceiveOps
        /\ IF Verdict(cpu.irqs) = "LORA_OK"
           THEN Goto("header_mode") /\ UNCHANGED event
           ELSE /\ Return(Verdict(cpu.irqs))
                /\ event' = IF Verdict(cpu.irqs) = "LORA_EMPTY" THEN event
                            ELSE "none"
  /\ UNCHANGED <<buffer, accepted, aired, heard, calls>>

SetRxMode ==
  /\ At("rx_mode")
  /\ WriteRegister(SetMode(chip, IF cpu.op = "mode_receive_single"
                                 THEN "RX_SINGLE" ELSE "RX_CONTINUOUS"))
  /\ Return("void")
  /\ Quiet

\* lora_is_packet_available(), by itself and in the wait of receive_blocking.
Available(irqs) == irqs \cap {"RX_DONE", "RX_TIMEOUT"} # {}

PollRx ==
  /\ At("poll_rx")
  /\ \E irqs \in {chip.irq, {}} :
       /\ ReadRegister(chip.irq, {}, irqs)
       /\ IF cpu.op = "is_packet_available"
          THEN Return(IF Available(irqs) THEN "ready" ELSE "not_ready")
          ELSE Goto(IF Available(irqs) THEN "read_irq" ELSE "delay_rx")
  /\ Quiet

DelayRx ==
  /\ At("delay_rx")
  /\ cpu' = [cpu EXCEPT !.elapsed = NextElapsed,
                        !.pc = IF NextElapsed < Timeout THEN "poll_rx"
                               ELSE "read_irq"]
  /\ UNCHANGED <<chip, nss, dma, ret, buffer, history, faults, calls>>

ReadIrq ==
  /\ At("read_irq")
  /\ \E irqs \in {chip.irq, {}} :
       /\ ReadRegister(chip.irq, {}, irqs)
       /\ cpu' = [cpu EXCEPT !.pc = "clear_rx", !.irqs = irqs]
  /\ UNCHANGED <<ret, buffer, history, calls>>

\* lora_pending_packet_length()
ReadHeaderMode ==
  /\ At("header_mode")
  /\ \E implicit \in BOOLEAN :
       /\ ReadRegister(Implicit, FALSE, implicit)
       /\ Goto(IF implicit THEN "payload_length" ELSE "rx_nb_bytes")
  /\ Quiet

LengthRegister == IF At("payload_length") THEN chip.payLen ELSE chip.rxNb

ReadLength ==
  /\ cpu.pc \in {"payload_length", "rx_nb_bytes"}
  /\ \E len \in {LengthRegister, 0} :
       /\ ReadRegister(LengthRegister, 0, len)
       /\ IF cpu.op = "pending_packet_length" THEN ReturnLen("void", len)
          ELSE /\ cpu' = [cpu EXCEPT !.pc = "rx_current", !.len = len]
               /\ UNCHANGED ret
  /\ Quiet

ReadRxCurrent ==
  /\ At("rx_current")
  /\ \E offset \in {chip.rxCur, 0} :
       /\ ReadRegister(chip.rxCur, 0, offset)
       /\ cpu' = [cpu EXCEPT !.pc = "rx_ptr", !.offset = offset]
  /\ UNCHANGED <<ret, buffer, history, calls>>

\* Mutant: the packet is read from wherever the FIFO pointer is.
SkipRxFifoPtr ==
  WriteStep("rx_ptr", chip,
            IF cpu.op = "receive_packet_dma_start" THEN "start_rx_dma"
            ELSE "read_fifo")

SetRxFifoPtr ==
  WriteStep("rx_ptr", [chip EXCEPT !.fifoPtr = cpu.offset],
            IF cpu.op = "receive_packet_dma_start" THEN "start_rx_dma"
            ELSE "read_fifo")

\* read_fifo() copies as many bytes as the radio says: buffer_len is only
\* asserted to be positive, so the calls of the model do not have it.
CopyLength == cpu.len

ReadFifo ==
  /\ At("read_fifo")
  /\ \E ok \in SpiOutcomes :
       /\ Deselect(ok)
       /\ chip'   = IF ok THEN GotFifo(chip, CopyLength) ELSE chip
       /\ buffer' = IF ok THEN FifoBytes(chip, CopyLength)
                    ELSE [i \in 0 .. CopyLength - 1 |-> Blank]
  /\ ReturnLen("LORA_OK", CopyLength)
  /\ event' = "none"
  /\ UNCHANGED <<accepted, aired, heard, calls>>

StartRxDma ==
  /\ At("start_rx_dma")
  /\ \E ok \in SpiOutcomes :
       /\ CountFault(ok)
       /\ dma' = IF ok /\ cpu.len > 0
                 THEN [job |-> "rx", payload |-> NoPayload,
                       len |-> CopyLength, cut |-> FALSE]
                 ELSE dma
  /\ nss' = "low"
  /\ ReturnLen("LORA_OK", CopyLength)
  /\ event' = "none"
  /\ UNCHANGED <<chip, buffer, accepted, aired, heard, calls>>

-----------------------------------------------------------------------------
(* The DMA-complete interrupt: the HAL frees the peripheral and calls the  *)
(* application's callback, which calls lora_*_dma_complete().  Of a frame  *)
(* that NSS cut short only some first bytes were moved.                    *)

\* Mutant: the frame is not ended.
LeaveSelected == dma' = NoDma /\ nss' = "low"

EndTransfer == dma' = NoDma /\ nss' = "high"

Moved == IF dma.cut THEN 0 .. dma.len - 1 ELSE {dma.len}

\* Mutant: completion only ends the frame.
StayStandby(c, ok) == c

\* lora_send_packet_dma_complete(): end of the frame, then mode TX.
AfterTxDma(c, ok) == IF ok THEN SetMode(c, "TX") ELSE c

TxDmaComplete ==
  /\ dma.job = "tx"
  /\ \E n \in Moved, ok \in HalOutcomes :
       /\ chip' = AfterTxDma(PutFifo(chip, dma.payload, n), ok)
       /\ faults' = IF ok THEN faults ELSE faults + 1
  /\ EndTransfer
  /\ UNCHANGED <<control, buffer, history, calls>>

\* lora_receive_packet_dma_complete(): end of the frame.
RxDmaComplete ==
  /\ dma.job = "rx"
  /\ \E n \in Moved :
       /\ chip' = GotFifo(chip, n)
       /\ buffer' = [i \in 0 .. dma.len - 1 |->
                       IF i < n THEN FifoBytes(chip, dma.len)[i] ELSE Blank]
  /\ EndTransfer
  /\ UNCHANGED <<control, history, faults, calls>>

-----------------------------------------------------------------------------
(* The radio's own steps, with the histories they extend.                  *)

Aired ==
  /\ TransmitDone
  /\ aired' = Frame(chip)
  /\ UNCHANGED <<control, nss, dma, buffer, accepted, event, heard, faults,
                 calls>>

Heard(p, outcome) ==
  /\ Arrive(p, outcome)
  /\ event' = outcome
  /\ heard' = IF outcome = "good" THEN p ELSE heard
  /\ UNCHANGED <<control, nss, dma, buffer, accepted, aired, faults, calls>>

RxTimedOut ==
  /\ ReceiveTimeout
  /\ event' = "timeout"
  /\ UNCHANGED <<control, nss, dma, buffer, accepted, aired, heard, faults,
                 calls>>

Radio == Aired \/ RxTimedOut
         \/ \E p \in Packets, outcome \in DOMAIN Outcomes : Heard(p, outcome)

CpuStep ==
  \/ ReadOpmode \/ SetStandby \/ SetSleep \/ ClearTxDone \/ SetFifoPtr
  \/ SetTxBase \/ SetPayloadLength \/ WriteFifo \/ StartTxDma \/ Transmit
  \/ PollTxDone \/ AckTxDone \/ DelayTx
  \/ SetRxBase \/ ClearRx \/ SetRxMode \/ PollRx \/ DelayRx \/ ReadIrq
  \/ ReadHeaderMode \/ ReadLength
  \/ ReadRxCurrent \/ SetRxFifoPtr \/ ReadFifo \/ StartRxDma

DmaInterrupt == TxDmaComplete \/ RxDmaComplete

Next == AppCall \/ CpuStep \/ DmaInterrupt \/ Radio
Spec == Init /\ [][Next]_vars

\* The processor runs, a DMA and a transmission end by themselves.  Nothing
\* makes the application call, a packet arrive or a single reception end.
Fairness == WF_vars(CpuStep) /\ WF_vars(DmaInterrupt) /\ WF_vars(Aired)
FairSpec == Spec /\ Fairness

-----------------------------------------------------------------------------
(* Properties.                                                             *)

Lens == 0 .. FifoSize
Ret  == [op : AllOps \cup {"none"}, code : Codes,
         msg : Messages \cup {NoPayload}, len : Lens]
Labels == {"idle", "read_opmode", "standby", "sleep", "clear_tx", "tx_ptr",
           "tx_base", "pay_len", "write_fifo", "start_tx_dma", "transmit",
           "poll_tx", "ack_tx", "delay_tx", "rx_base", "clear_rx", "rx_mode",
           "poll_rx", "delay_rx", "read_irq", "header_mode",
           "payload_length", "rx_nb_bytes", "rx_current", "rx_ptr",
           "read_fifo", "start_rx_dma"}

IsFrame(f) == \E n \in Lens : f \in [0 .. n - 1 -> Byte]

\* Every variable keeps its type; the locals of a call are in range.
TypeOK ==
  /\ ChipType
  /\ cpu \in [op : AllOps \cup {"none"}, pc : Labels,
              msg : Messages \cup {NoPayload}, elapsed : 0 .. Timeout,
              irqs : SUBSET IrqFlags, len : Lens, offset : Addr]
  /\ nss \in {"high", "low"}
  /\ dma \in [job : {"none", "tx", "rx"}, payload : Messages \cup {NoPayload},
              len : Lens, cut : BOOLEAN]
  /\ ret \in Ret
  /\ IsFrame(buffer)
  /\ accepted \in Messages \cup {NoPayload}
  /\ IsFrame(aired)
  /\ event \in DOMAIN Outcomes \cup {"none", "timeout"}
  /\ heard \in Packets \cup {NoPayload}
  /\ faults \in 0 .. MaxFaults /\ calls \in 0 .. MaxCalls

\* Whatever the radio is transmitting is, byte for byte and at its full
\* length, the message of the last send call that was not refused: no path
\* through the FIFO pointer, the base address, the length register, the DMA
\* and the mode changes puts another frame on the air.
TxIntact == chip.mode = "TX" => Frame(chip) = Bytes(accepted)

\* lora_send_packet_blocking() returns LORA_OK only if its own message was
\* transmitted since it was called; a TX_DONE left by an earlier packet
\* never ends the wait.
BlockingOkMeansSent ==
  (ret.op = "send_packet_blocking" /\ ret.code = "LORA_OK") =>
    aired = Bytes(ret.msg)

\* No send call takes the radio out of a transmission: a transmission in
\* progress during one ends by itself.
SendNeverAborts ==
  [][(cpu.op \in SendOps /\ chip.mode = "TX" /\ chip'.mode # "TX") =>
       TransmitDone]_vars

\* The radio stays selected exactly while a DMA moves its frame, so every
\* register access finds a closed frame.
NssFramesDma == nss = "low" <=> DmaRunning

\* b is a byte of one of the application's own messages, and byte i of a
\* packet is stored where the message has it.  That is so for some bytes when
\* the base addresses are the defaults of lora_sx1276.h:20-21, both 0.
OwnByte(b, i) ==
  \E m \in Messages : \E j \in 0 .. Length[m] - 1 :
    /\ (TxBaseAddr + j) % FifoSize = (RxBaseAddr + i) % FifoSize
    /\ b = <<m, j>>

\* data is the last packet, but for bytes that a message overwrote.
IsHeard(data) ==
  /\ DOMAIN data = 0 .. Length[heard] - 1
  /\ \A i \in DOMAIN data : data[i] = <<heard, i>> \/ OwnByte(data[i], i)

\* What is delivered into the application's buffer has the length of the last
\* packet that arrived, and each byte is that packet's, or one of a message of
\* the application itself that is stored at the same place of the FIFO: no
\* byte of an earlier packet, none at another position, none nobody wrote.
\* Where messages and packets are stored apart it is therefore the packet.
ReceivedIntact == buffer # NoData => IsHeard(buffer)

\* What LORA_OK is said to mean (lora_sx1276.h:239): the packet was received.
\* False of the code with its default base addresses: a send overwrites a
\* packet that waits, and the receive call returns LORA_OK all the same.
OkMeansReceived == buffer # NoData => buffer = Bytes(heard)

CodeOf == [good    |-> "LORA_OK",             crc  |-> "LORA_CRC_ERROR",
           header  |-> "LORA_INVALID_HEADER", none |-> "LORA_EMPTY",
           timeout |-> "LORA_TIMEOUT"]

\* A receive call reports what happened to the reception it ends: nothing is
\* reported twice, mistaken for something else or passed over.
VerdictTruthful ==
  [][(cpu.op \in ReceiveOps /\ ret' # ret) => ret'.code = CodeOf[event]]_vars

\* lora_is_packet_available() says 0 exactly when no reception, good or
\* failed, waits to be collected: no flag of one is cleared behind the
\* application's back.
AvailabilityTruthful ==
  [][(cpu.op = "is_packet_available" /\ ret' # ret) =>
       (ret'.code = "not_ready" <=> event = "none")]_vars

\* What lora_is_packet_available() is said to answer (lora_sx1276.h:224): 0
\* only if no packet waits.  False of the code: a packet that arrives between
\* the two transactions of a receive call loses its flags to the second.
PacketAnnounced ==
  [][(cpu.op = "is_packet_available" /\ ret' # ret
        /\ ret'.code = "not_ready") => event # "good"]_vars

\* Every call returns, whatever the radio and the bus do.
CallReturns == cpu.pc # "idle" ~> cpu.pc = "idle"

\* A message handed to the DMA gets on the air unless the bus fails, while
\* the application changes no mode and makes no call during the DMA.
DmaSendAired ==
  \A m \in Messages :
    (dma.job = "tx" /\ dma.payload = m) ~> (aired = Bytes(m) \/ faults > 0)

=============================================================================
