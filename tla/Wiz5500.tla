------------------------------- MODULE Wiz5500 -------------------------------
(***************************************************************************)
(* wiz5500.c: opening a UDP socket, sending and receiving on it, blocking  *)
(* or over DMA.  Every driver call is a chain of SPI transactions; the     *)
(* chip moves between any two of them.  frame is what NSS and the chip     *)
(* make of it: "none" (NSS high), "data" (NSS low, the chip follows a      *)
(* data frame) or "stray" (NSS was left low; what follows is no frame).    *)
(* The application waits for a DMA transfer before its next call.          *)
(***************************************************************************)
EXTENDS W5500, SequencesExt

CONSTANTS
  MaxCalls, MaxArrivals,  \* bounds on calls and on datagrams that arrive
  MaxFaults,   \* bound on failed SPI transactions; reading a register twice
               \* until the values agree masks one failure, not two
  BufferSize,  \* data_len of every receive
  Discipline   \* what the application and its peers keep to:
               \*   "await_sent"    no send while the chip still transmits
               \*   "clear_first"   no blocking send over old send interrupts
               \*   "await_packet"  no receive while no datagram waits
               \*   "one_datagram"  one datagram unread at a time

ASSUME DriverAssumption ==
  /\ {MaxCalls, MaxArrivals, BufferSize} \subseteq Nat /\ MaxFaults \in {0, 1}
  /\ Discipline \subseteq {"await_sent", "clear_first", "await_packet",
                           "one_datagram"}

VARIABLES frame, cpu, dma, ret, buffer, faults, calls, arrivals,
          waiting,   \* datagrams that arrived and were not handed over
          handed,    \* the last datagram handed over, and what it should be
          accepted,  \* the message of the last send call
          aired,     \* the datagrams that left the chip since that call
          swallowed  \* its write of the address went into an open frame
env  == <<calls, arrivals>>
rx   == <<buffer, waiting, handed>>
tx   == <<accepted, aired, swallowed>>
vars == <<sock, frame, cpu, dma, ret, faults, env, rx, tx>>

Idle    == [op |-> "none", pc |-> "idle", ptr |-> 0, len |-> 0]
NoRet   == <<"none", "none">>
Start   == [open |-> "mode", send |-> "dst_ip", send_dma |-> "dst_ip",
            receive |-> "rx_size", receive_dma |-> "rx_size"]
WithDma == cpu.op \in {"send_dma", "receive_dma"}

Init ==
  /\ ChipInit
  /\ frame = "none" /\ cpu = Idle /\ dma = "off" /\ ret = NoRet
  /\ buffer = <<>> /\ faults = 0 /\ calls = 0 /\ arrivals = 0
  /\ waiting = <<>> /\ handed = [want |-> <<>>, got |-> <<>>]
  /\ accepted = NoPayload /\ aired = {} /\ swallowed = FALSE

Goto(pc)  == cpu' = [cpu EXCEPT !.pc = pc] /\ UNCHANGED ret
Return(r) == cpu' = Idle /\ ret' = <<cpu.op, r>>
Step(pc)  == cpu.pc = pc /\ UNCHANGED <<dma, env>>
Fault     == faults < MaxFaults /\ faults' = faults + 1

\* One write transaction.  Inside a frame left open it is not decoded, yet
\* HAL reports success and NSS goes high.
Write(after, Done, Failed) ==
  /\ frame' = "none"
  /\ \/ /\ sock' = (IF frame = "none" THEN after ELSE sock)
        /\ Done /\ UNCHANGED faults
     \/ Fault /\ Failed /\ UNCHANGED sock

\* A register read until two values agree: right even when the first read is
\* lost in a frame left open.  NSS is high then.
ReadForSure == frame' = "none" /\ UNCHANGED <<sock, faults>>

-----------------------------------------------------------------------------
(* The application's calls.                                                *)

Kept(rule, ok) == rule \in Discipline => ok

CallBegins(op) ==
  /\ cpu = Idle /\ dma = "off" /\ calls < MaxCalls
  /\ calls' = calls + 1 /\ ret' = NoRet
  /\ cpu' = [Idle EXCEPT !.op = op, !.pc = Start[op]]
  /\ UNCHANGED <<sock, frame, dma, faults, arrivals, rx>>

Open == ~sock.open /\ CallBegins("open") /\ UNCHANGED tx

Send(op, m) ==
  /\ sock.open
  /\ Kept("await_sent", ~sock.sending.on)
  /\ Kept("clear_first", op = "send" => sock.ir \cap {"SENDOK", "TIMEOUT"} = {})
  /\ CallBegins(op)
  /\ accepted' = m /\ aired' = {} /\ swallowed' = FALSE

Receive(op) ==
  /\ sock.open
  /\ Kept("await_packet", waiting # <<>>)
  /\ CallBegins(op) /\ UNCHANGED tx

\* A register is read: its value is all that comes of it, and NSS is high.
Query ==
  /\ cpu = Idle /\ dma = "off" /\ frame' = "none"
  /\ UNCHANGED <<sock, cpu, dma, ret, faults, env, rx, tx>>

ClearInterrupt(ints) ==
  /\ cpu = Idle /\ dma = "off"
  /\ Write([sock EXCEPT !.ir = @ \ ints], TRUE, TRUE)
  /\ UNCHANGED <<cpu, dma, ret, env, rx, tx>>

-----------------------------------------------------------------------------
(* wiz5500_udp_open_socket                                                 *)

SetMode ==
  /\ Step("mode") /\ UNCHANGED <<rx, tx>>
  /\ Write([sock EXCEPT !.mode = "udp"], Goto("port"), Goto("port"))

SetPort ==
  /\ Step("port") /\ UNCHANGED <<rx, tx>>
  /\ Write(sock, Goto("open"), Return("error"))

CommandOpen ==
  /\ Step("open") /\ UNCHANGED <<rx, tx>>
  /\ Write(OpenCommand(sock), Return("ok"), Return("error"))

-----------------------------------------------------------------------------
(* wiz5500_udp_sendto_blocking, wiz5500_udp_sendto_dma_start, tx_data.  The *)
(* blocking call goes on to SEND whatever tx_data returns.                 *)

TxDataFails(r) == IF WithDma THEN Return(r) ELSE Goto("send")

SetDstIpUnchecked ==  \* a mutant: the result of the first write is ignored
  /\ Step("dst_ip") /\ UNCHANGED <<rx, accepted, aired>>
  /\ swallowed' = (frame # "none")
  /\ Write([sock EXCEPT !.ip = Dest[accepted][1]],
           Goto("dst_port"), Goto("dst_port"))

SetDstIp ==
  /\ Step("dst_ip") /\ UNCHANGED <<rx, accepted, aired>>
  /\ swallowed' = (frame # "none")
  /\ Write([sock EXCEPT !.ip = Dest[accepted][1]],
           Goto("dst_port"), Return("error"))

SetDstPort ==
  /\ Step("dst_port") /\ UNCHANGED <<rx, tx>>
  /\ Write([sock EXCEPT !.dport = Dest[accepted][2]],
           Goto("tx_room"), Return("error"))

\* The free size, then the write pointer, which only the driver moves.
TxRoom ==
  /\ Step("tx_room") /\ ReadForSure /\ UNCHANGED <<rx, tx>>
  /\ IF TxFree(sock) < Length[accepted]
     THEN TxDataFails("full")
     ELSE /\ cpu' = [cpu EXCEPT !.pc = "tx_advance", !.ptr = sock.txWr]
          /\ UNCHANGED ret

TxAdvance ==
  /\ Step("tx_advance") /\ UNCHANGED <<rx, tx>>
  /\ Write([sock EXCEPT !.txWr = (cpu.ptr + Length[accepted]) % PtrSize],
           Goto("tx_copy"), TxDataFails("error"))

CopiedBehind(at) ==  \* a mutant: from the advanced pointer on
  [sock EXCEPT !.tx = Put(@, sock.txWr + 1, Bytes(accepted))]
Copied(at) == [sock EXCEPT !.tx = Put(@, at + 1, Bytes(accepted))]

TxCopy ==
  /\ cpu.pc = "tx_copy" /\ ~WithDma /\ UNCHANGED <<dma, env, rx, tx>>
  /\ Write(Copied(cpu.ptr), Goto("send"), Goto("send"))

\* The address goes out, DMA starts and NSS stays low.  Nobody looks at the
\* result of the address; when DMA does not start, NSS is low as well.
TxDmaStart ==
  /\ cpu.pc = "tx_copy" /\ WithDma /\ UNCHANGED <<sock, env, rx, tx>>
  /\ \/ UNCHANGED faults /\ dma' = "tx" /\ frame' = "data"
     \/ Fault /\ dma' \in {"tx", "off"} /\ frame' = "stray"
  /\ ret' = <<cpu.op, IF dma' = "tx" THEN "ok" ELSE "error">>
  /\ cpu' = IF dma' = "tx" THEN [Idle EXCEPT !.ptr = cpu.ptr] ELSE Idle

\* The transfer ends, and its interrupt calls wiz5500_udp_sendto_dma_complete.
TxDmaComplete ==
  LET held == IF frame = "data" THEN Copied(cpu.ptr) ELSE sock IN
  /\ dma = "tx" /\ dma' = "off" /\ cpu' = Idle /\ frame' = "none"
  /\ \/ sock' = SendCommand(held) /\ UNCHANGED faults
     \/ sock' = held /\ Fault
  /\ UNCHANGED <<ret, env, rx, tx>>

CommandSend ==
  /\ Step("send") /\ UNCHANGED <<rx, tx>>
  /\ Write(SendCommand(sock), Goto("wait"), Goto("wait"))

AnyFlag(flags) == "ok"                \* a mutant
SendResult(flags) == IF "SENDOK" \in flags THEN "ok" ELSE "error"
SentFlag(flags) == "SENDOK" \in flags  \* a mutant
Answered(flags) == flags # {}

\* wiz5500_socket_read_interrupt until a flag is set; a failing read is 0.
AwaitInterrupt ==
  /\ Step("wait") /\ UNCHANGED <<sock, frame, rx, tx>>
  /\ \/ Answered(sock.ir) /\ Return(SendResult(sock.ir)) /\ UNCHANGED faults
     \/ Fault /\ Goto("wait")

-----------------------------------------------------------------------------
(* wiz5500_receive_from_blocking, wiz5500_receive_from_dma_start,          *)
(* rx_data_offset.                                                         *)

WithHeader(c)      == Received(c)                   \* a mutant
UdpReceivedSize(c) == (Received(c) - HeaderSize) % PtrSize
Least(a, b)        == IF a < b THEN a ELSE b

\* The received size, then the read pointer, which only the driver moves.
RxSizeRead ==
  LET size == UdpReceivedSize(sock) IN
  /\ Step("rx_size") /\ ReadForSure /\ UNCHANGED <<rx, tx>>
  /\ \/ /\ size # 0 /\ UNCHANGED ret
        /\ cpu' = [cpu EXCEPT !.pc = "rx_advance", !.len = Least(size, BufferSize),
                              !.ptr = (sock.rxRd + HeaderSize) % PtrSize]
     \/ size = 0 /\ WithDma /\ Return("nothing")

RxDataFails(r) == IF WithDma THEN Return(r) ELSE Goto("recv")

RxAdvanceShort ==  \* a mutant: the header is not skipped
  /\ Step("rx_advance") /\ UNCHANGED <<rx, tx>>
  /\ Write([sock EXCEPT !.rxRd = (@ + cpu.len) % PtrSize],
           Goto("rx_copy"), RxDataFails("error"))

RxAdvance ==
  /\ Step("rx_advance") /\ UNCHANGED <<rx, tx>>
  /\ Write([sock EXCEPT !.rxRd = (cpu.ptr + cpu.len) % PtrSize],
           Goto("rx_copy"), RxDataFails("error"))

\* The bytes reach the application's buffer.
HandOver ==
  LET data == Get(sock.rx, cpu.ptr + 1, cpu.len) IN
  /\ buffer' = data
  /\ handed' = [got |-> data, want |-> IF waiting = <<>> THEN <<>>
                                       ELSE Bytes(Head(waiting))]
  /\ waiting' = IF waiting = <<>> THEN <<>> ELSE Tail(waiting)

\* A failing address leaves NSS low, a failing read of the data does not.
RxCopy ==
  /\ cpu.pc = "rx_copy" /\ ~WithDma /\ UNCHANGED <<sock, dma, env, tx>>
  /\ Goto("recv")
  /\ \/ HandOver /\ UNCHANGED <<frame, faults>>
     \/ Fault /\ frame' \in {"none", "stray"} /\ UNCHANGED rx

RxDmaStart ==
  /\ cpu.pc = "rx_copy" /\ WithDma /\ UNCHANGED <<sock, env, rx, tx>>
  /\ \/ /\ UNCHANGED faults /\ dma' = "rx" /\ frame' = "data"
        /\ ret' = <<cpu.op, "ok">>
        /\ cpu' = [Idle EXCEPT !.ptr = cpu.ptr, !.len = cpu.len]
     \/ Fault /\ dma' = "off" /\ frame' = "stray" /\ Return("error")

\* The interrupt calls wiz5500_receive_from_dma_complete.
RxDmaComplete ==
  /\ dma = "rx" /\ dma' = "off" /\ cpu' = Idle /\ HandOver /\ frame' = "none"
  /\ \/ sock' = RecvCommand(sock) /\ UNCHANGED faults
     \/ UNCHANGED sock /\ Fault
  /\ UNCHANGED <<ret, env, tx>>

CommandRecv ==
  /\ Step("recv") /\ UNCHANGED <<rx, tx>>
  /\ Write(RecvCommand(sock), Return("ok"), Return("ok"))

-----------------------------------------------------------------------------
(* The chip and the other hosts.                                           *)

TransmissionEnds(flag) ==
  /\ SendEnds(flag)
  /\ aired' = IF flag = "SENDOK"
              THEN aired \cup {<<sock.sending.dst, sock.sending.data>>}
              ELSE aired
  /\ UNCHANGED <<frame, cpu, dma, ret, faults, env, rx, accepted, swallowed>>

\* The datagram in front is being read: its size is known.
Reading == cpu.pc \in {"rx_advance", "rx_copy"} \/ dma = "rx"

DatagramArrives(p) ==
  /\ arrivals < MaxArrivals /\ arrivals' = arrivals + 1
  /\ Kept("one_datagram", Len(waiting) = (IF Reading THEN 1 ELSE 0))
  /\ Arrives(p)
  /\ waiting' = Append(waiting, p)
  /\ UNCHANGED <<frame, cpu, dma, ret, faults, calls, buffer, handed, tx>>

OpenStep    == SetMode \/ SetPort \/ CommandOpen
SendStep    == \/ SetDstIp \/ SetDstPort \/ TxRoom \/ TxAdvance \/ TxCopy
               \/ TxDmaStart \/ CommandSend \/ AwaitInterrupt
ReceiveStep == RxSizeRead \/ RxAdvance \/ RxCopy \/ RxDmaStart \/ CommandRecv
DmaComplete == TxDmaComplete \/ RxDmaComplete
CpuStep     == OpenStep \/ SendStep \/ ReceiveStep \/ DmaComplete

Next ==
  \/ Open \/ Query
  \/ \E m \in Messages, op \in {"send", "send_dma"} : Send(op, m)
  \/ \E op \in {"receive", "receive_dma"} : Receive(op)
  \/ \E ints \in SUBSET Ints : ClearInterrupt(ints)
  \/ CpuStep
  \/ \E flag \in {"SENDOK", "TIMEOUT"} : TransmissionEnds(flag)
  \/ \E p \in Packets : DatagramArrives(p)

Spec == Init /\ [][Next]_vars

\* The program runs on, DMA ends and interrupts, the chip ends every
\* transmission one way or the other; no transaction has to fail.
FairSpec ==
  /\ Spec /\ WF_vars(CpuStep /\ UNCHANGED faults)
  /\ WF_vars(\E flag \in {"SENDOK", "TIMEOUT"} : TransmissionEnds(flag))

-----------------------------------------------------------------------------
TypeOK ==
  /\ ChipType
  /\ frame \in {"none", "data", "stray"} /\ dma \in {"off", "tx", "rx"}
  /\ cpu.ptr \in Ptr /\ cpu.len \in 0 .. BufferSize
  /\ waiting \in Seq(Packets) /\ accepted \in Messages \cup {NoPayload}
  /\ swallowed \in BOOLEAN
  /\ faults \in 0 .. MaxFaults /\ calls \in 0 .. MaxCalls
  /\ arrivals \in 0 .. MaxArrivals

\* What the chip transmits goes to the host the send call named, also when a
\* transaction fails: both writes of the destination are checked (:467, :471).
\* One exception: a DMA transfer whose start failed leaves NSS low (:398,
\* :431).  When the next send finds it low, its first write is lost although
\* HAL reports success, and the message goes to the previous address.
RightHost ==
  sock.sending.on
    => /\ sock.sending.dst[2] = Dest[accepted][2]
       /\ swallowed \/ sock.sending.dst[1] = Dest[accepted][1]

\* On a working bus the chip transmits the bytes of the message and nothing
\* else, from wherever the circular memory's pointers stand: write pointer,
\* copy and SEND work together (tx_data, :374).
SentWhole ==
  faults = 0 /\ sock.sending.on => sock.sending.data = Bytes(accepted)

\* A blocking send that returns OK has aired its message during the call
\* (:486), though a datagram that arrives sets flags in the same register.
OkMeansSent ==
  faults = 0 /\ ret = <<"send", "ok">>
    => <<Dest[accepted], Bytes(accepted)>> \in aired

\* A receive hands over the oldest unread datagram, whole and without its
\* header, also when it lies around the end of the memory (rx_data_offset), as
\* long as one datagram is unread at a time; the next one may come once the
\* size of the first is read.  What a failure left in the receive memory never
\* overruns the buffer (:530).
ReceivedIntact ==
  /\ faults = 0 => handed.got = handed.want
  /\ Len(buffer) <= BufferSize

\* Between receives the unread part of the receive memory is exactly the
\* datagrams that wait, in their order: pointer arithmetic across the end of
\* the memory, RECV and arrivals never lose step (:414, :536, :564).
MemoryHoldsWaiting ==
  faults = 0 /\ cpu.op \notin {"receive", "receive_dma"} /\ dma # "rx"
    => /\ sock.rxRd = sock.rxDone
       /\ Get(sock.rx, sock.rxRd + 1, Received(sock))
            = FlattenSeq([i \in DOMAIN waiting |-> Stored(waiting[i])])

\* On a working bus every call returns: the loop that waits for the end of the
\* transmission (:482) ends, whatever flags datagrams set meanwhile.  The loop
\* at :526 waits for a datagram; here one is there when a receive is called.
CallReturns ==
  cpu.pc # "idle" ~> (cpu.pc = "idle" \/ faults > 0)
=============================================================================
