---------------------------- MODULE Wiz5500Proofs ----------------------------
(***************************************************************************)
(* What leaves a UDP socket of the WIZnet driver and what it hands over,   *)
(* for all messages, datagrams, hosts, memory sizes and buffers.           *)
(***************************************************************************)
EXTENDS Wiz5500, SequenceTheorems, TLAPS

-----------------------------------------------------------------------------
(* Remainders.                                                             *)

LEMMA Quotient ==
  ASSUME NEW T \in Nat \ {0}, NEW x \in Int
  PROVE  /\ x = T * (x \div T) + (x % T)
         /\ x % T \in 0 .. T - 1 /\ x \div T \in Int
OBVIOUS

LEMMA RemainderIs ==
  ASSUME NEW T \in Nat \ {0}, NEW q \in Int, NEW r \in 0 .. T - 1
  PROVE  (T * q + r) % T = r
OBVIOUS

LEMMA SmallIs ==
  ASSUME NEW T \in Nat \ {0}, NEW r \in 0 .. T - 1
  PROVE  r % T = r
OBVIOUS

LEMMA TurnsVanish ==
  ASSUME NEW T \in Nat \ {0}, NEW x \in Int, NEW k \in Int
  PROVE  (x + k * T) % T = x % T
<1>1. PICK q \in Int, r \in 0 .. T - 1 : x = T * q + r
  BY Quotient
<1>2. x % T = r
  BY <1>1, RemainderIs
<1>3. x + k * T = T * (q + k) + r
  BY <1>1
<1>4. q + k \in Int
  OBVIOUS
<1>5. (T * (q + k) + r) % T = r
  BY <1>4, RemainderIs
<1>. QED  BY <1>2, <1>3, <1>5

\* A remainder may be taken earlier, modulo a multiple of T as well.
LEMMA EarlierModulo ==
  ASSUME NEW T \in Nat \ {0}, NEW P \in Nat \ {0}, P % T = 0,
         NEW x \in Int, NEW y \in Int
  PROVE  ((x % P) + y) % T = (x + y) % T
<1>1. PICK q \in Int, r \in 0 .. P - 1 : x = P * q + r /\ r = x % P
  BY Quotient
<1>2. PICK m \in Int : P = T * m
  <2>1. P = T * (P \div T) + (P % T) /\ P \div T \in Int
    BY Quotient
  <2>2. PICK d \in Int : d = P \div T
    BY <2>1
  <2>3. P = T * d
    BY <2>1, <2>2
  <2>. QED  BY <2>3
<1>3. x + y = (r + y) + (m * q) * T
  BY <1>1, <1>2
<1>4. r + y \in Int /\ m * q \in Int
  OBVIOUS
<1>5. ((r + y) + (m * q) * T) % T = (r + y) % T
  BY <1>4, TurnsVanish
<1>. QED  BY <1>1, <1>3, <1>5

LEMMA Earlier ==
  ASSUME NEW T \in Nat \ {0}, NEW x \in Int, NEW y \in Int
  PROVE  ((x % T) + y) % T = (x + y) % T
<1>1. T % T = 0
  OBVIOUS
<1>. QED  BY <1>1, EarlierModulo

\* How far behind pointer at the byte of pointer p is.
LEMMA BehindIs ==
  ASSUME NEW T \in Nat \ {0}, NEW p \in Int, NEW at \in Int,
         NEW k \in Int, NEW r \in 0 .. T - 1,
         NEW d, d = p - at, d = T * k + r
  PROVE  ((p % T) - at) % T = r
<1>1. 0 - at \in Int
  OBVIOUS
<1>2. ((p % T) + (0 - at)) % T = (p + (0 - at)) % T
  BY <1>1, Earlier
<1>3. p + (0 - at) = T * k + r
  OBVIOUS
<1>4. (T * k + r) % T = r
  BY RemainderIs
<1>5. PICK m \in 0 .. T - 1 : m = p % T
  BY Quotient
<1>6. m + (0 - at) = m - at
  OBVIOUS
<1>. QED  BY <1>2, <1>3, <1>4, <1>5, <1>6

-----------------------------------------------------------------------------
(* The circular memories.                                                  *)

\* got is what mem has from at on.
GotFrom(T, mem, at, n, got) ==
  \A i \in 1 .. n : got[i] = mem[((at + (i - 1)) % T) + 1]

LEMMA GetIs ==
  ASSUME NEW S, NEW T \in Nat \ {0}, NEW mem \in [1 .. T -> S],
         NEW at \in Int, NEW n \in Nat
  PROVE  /\ Get(mem, at + 1, n) \in Seq(S) /\ Len(Get(mem, at + 1, n)) = n
         /\ GotFrom(T, mem, at, n, Get(mem, at + 1, n))
<1>1. Len(mem) = T
  BY LenProperties
<1>2. ASSUME NEW i \in 1 .. n
      PROVE  /\ at + 1 + i - 2 = at + (i - 1)
             /\ ((at + (i - 1)) % T) + 1 \in 1 .. T
  <2>1. at + 1 + i - 2 = at + (i - 1) /\ at + (i - 1) \in Int
    OBVIOUS
  <2>. DEFINE far == at + (i - 1)
  <2>. HIDE DEF far
  <2>2. far % T \in 0 .. T - 1
    BY <2>1, Quotient DEF far
  <2>3. (far % T) + 1 \in 1 .. T
    BY <2>2
  <2>. QED  BY <2>1, <2>3 DEF far
<1>3. Get(mem, at + 1, n) = [i \in 1 .. n |-> mem[((at + (i - 1)) % T) + 1]]
  BY <1>1, <1>2 DEF Get
<1>4. \A i \in 1 .. n : mem[((at + (i - 1)) % T) + 1] \in S
  BY <1>2
<1>5. GotFrom(T, mem, at, n, Get(mem, at + 1, n))
  BY <1>3 DEF GotFrom
<1>. QED  BY <1>3, <1>4, <1>5

LEMMA PutIs ==
  ASSUME NEW S, NEW T \in Nat \ {0}, NEW mem \in [1 .. T -> S],
         NEW at \in Int, NEW data \in Seq(S)
  PROVE  /\ Put(mem, at + 1, data) \in [1 .. T -> S]
         /\ \A a \in 1 .. T :
              /\ (a - (at + 1)) % T \in 0 .. T - 1
              /\ Put(mem, at + 1, data)[a] =
                   IF (a - (at + 1)) % T < Len(data)
                   THEN data[((a - (at + 1)) % T) + 1] ELSE mem[a]
<1>1. Len(mem) = T /\ DOMAIN mem = 1 .. T
  BY LenProperties
<1>2. ASSUME NEW a \in 1 .. T
      PROVE  /\ (a - (at + 1)) % T \in 0 .. T - 1
             /\ (IF (a - (at + 1)) % T < Len(data)
                 THEN data[((a - (at + 1)) % T) + 1] ELSE mem[a]) \in S
  <2>1. a - (at + 1) \in Int
    OBVIOUS
  <2>2. PICK i \in 0 .. T - 1 : i = (a - (at + 1)) % T
    BY <2>1, Quotient
  <2>3. i < Len(data) => data[i + 1] \in S
    OBVIOUS
  <2>. QED  BY <2>2, <2>3
<1>3. Put(mem, at + 1, data) =
        [a \in 1 .. T |-> IF (a - (at + 1)) % T < Len(data)
                          THEN data[((a - (at + 1)) % T) + 1] ELSE mem[a]]
  BY <1>1 DEF Put
<1>. QED  BY <1>2, <1>3

\* Two pointers that select the same byte of a memory of T bytes.
SamePlace(T, base, at) == \E k \in Int : base - at = T * k

LEMMA SamePlaceSelf ==
  ASSUME NEW T \in Nat \ {0}, NEW at \in Int
  PROVE  SamePlace(T, at, at)
<1>1. at - at = T * 0
  OBVIOUS
<1>. QED  BY <1>1 DEF SamePlace

\* data is in new from base on, and in front of it new is like mem.
IsThere(T, mem, new, base, data) ==
  \A i \in Int : i < Len(data) /\ i >= Len(data) - T =>
    new[((base + i) % T) + 1] =
      IF i >= 0 THEN data[i + 1] ELSE mem[((base + i) % T) + 1]

\* What is put at a pointer is there; where the memory has room for it,
\* nothing in front of it is overwritten.
LEMMA PutAt ==
  ASSUME NEW S, NEW T \in Nat \ {0}, NEW mem \in [1 .. T -> S],
         NEW at \in Int, NEW base \in Int, SamePlace(T, base, at),
         NEW data \in Seq(S), Len(data) <= T
  PROVE  IsThere(T, mem, Put(mem, at + 1, data), base, data)
<1>. SUFFICES ASSUME NEW i \in Int, i < Len(data), i >= Len(data) - T
              PROVE  Put(mem, at + 1, data)[((base + i) % T) + 1] =
                       IF i >= 0 THEN data[i + 1]
                                 ELSE mem[((base + i) % T) + 1]
  BY DEF IsThere
<1>0. PICK k \in Int : base - at = T * k
  BY DEF SamePlace
<1>. DEFINE p == base + i
            r == IF i >= 0 THEN i ELSE i + T
            q == IF i >= 0 THEN k ELSE k - 1
<1>1. /\ p \in Int /\ q \in Int /\ Len(data) \in Nat /\ r \in 0 .. T - 1
      /\ r < Len(data) <=> i >= 0
  BY <1>0
<1>2. p - at = T * q + r
  <2>1. CASE i >= 0
    BY <1>0, <2>1
  <2>2. CASE i < 0
    <3>1. T * (k - 1) + (i + T) = T * k + i
      OBVIOUS
    <3>. QED  BY <1>0, <2>2, <3>1
  <2>. QED  BY <2>1, <2>2
<1>3. i >= 0 => r = i
  OBVIOUS
<1>. HIDE DEF p, q, r
<1>4. ((p % T) - at) % T = r
  <2>1. PICK p0 \in Int, q0 \in Int, r0 \in 0 .. T - 1 :
          p0 = p /\ q0 = q /\ r0 = r
    BY <1>1, Zenon
  <2>2. PICK d : d = p0 - at /\ d = T * q0 + r0
    BY <1>2, <2>1, Zenon
  <2>3. ((p0 % T) - at) % T = r0
    BY <2>2, BehindIs
  <2>. QED  BY <2>1, <2>3, Zenon
<1>5. PICK a \in 1 .. T : a = (p % T) + 1
  <2>1. p % T \in 0 .. T - 1
    BY <1>1, Quotient
  <2>2. (p % T) + 1 \in 1 .. T
    BY <2>1
  <2>. QED  BY <2>2
<1>6. (a - (at + 1)) % T = r
  <2>1. PICK m \in 0 .. T - 1 : m = p % T
    BY <1>1, Quotient
  <2>2. a - (at + 1) = m - at
    BY <1>5, <2>1
  <2>. QED  BY <1>4, <2>1, <2>2
<1>7. Put(mem, at + 1, data)[a] = IF r < Len(data) THEN data[r + 1] ELSE mem[a]
  BY <1>6, PutIs
<1>. QED  BY <1>1, <1>3, <1>5, <1>7 DEF p

-----------------------------------------------------------------------------
(* What is always true.                                                    *)

Octets    == {Blank} \cup (Payloads \X Int)
Ips       == {"none"} \cup {Dest[m][1] : m \in Messages}
Ports     == {"none"} \cup {Dest[m][2] : m \in Messages}
Memory(n) == [1 .. n -> Octets]
Transmission == [dst : Ips \X Ports, data : Seq(Octets), on : BOOLEAN]

SockType ==
  [mode : {"none", "udp"}, open : BOOLEAN, ir : SUBSET Ints,
   ip : Ips, dport : Ports, sending : Transmission,
   tx : Memory(TxSize), txRd : Ptr, txWr : Ptr,
   rx : Memory(RxSize), rxRd : Ptr, rxWr : Ptr, rxDone : Ptr]

SendPcs == {"dst_ip", "dst_port", "tx_room", "tx_advance", "tx_copy", "send"}
RecvPcs == {"rx_size", "rx_advance", "rx_copy", "recv"}
OpenPcs == {"mode", "port", "open"}
SendOps == {"send", "send_dma"}
RecvOps == {"receive", "receive_dma"}

Pcs     == {"idle", "wait"} \cup OpenPcs \cup SendPcs \cup RecvPcs

CpuType ==
  [op : {"none", "open"} \cup SendOps \cup RecvOps, pc : Pcs,
   ptr : Ptr, len : 0 .. BufferSize]

WizTypes ==
  /\ sock \in SockType /\ cpu \in CpuType
  /\ frame \in {"none", "data", "stray"} /\ dma \in {"off", "tx", "rx"}
  /\ faults \in Nat /\ accepted \in Messages \cup {NoPayload}
  /\ waiting \in Seq(Packets) /\ Len(buffer) <= BufferSize

\* Where the driver can be in which call, and when it sends.
CallShape ==
  /\ cpu.pc \in SendPcs => cpu.op \in SendOps
  /\ cpu.pc \in {"send", "wait"} => cpu.op = "send"
  /\ cpu.pc \in RecvPcs => cpu.op \in RecvOps
  /\ cpu.pc \in OpenPcs => cpu.op = "open"
  /\ cpu.pc = "idle" <=> cpu.op = "none"
  /\ dma # "off" => cpu.pc = "idle"

Sending == cpu.pc \in SendPcs \/ dma = "tx"

\* A message is handed to the chip when it transmits nothing, and in frames
\* from the second write on.
OneMessage ==
  /\ cpu.pc \in SendPcs /\ cpu.pc # "dst_ip" => frame = "none"
  /\ Sending => ~sock.sending.on
  /\ Sending \/ sock.sending.on \/ cpu.pc = "wait" => accepted \in Messages

\* The destination is set, one register after the other, but for an address
\* whose write went into an open frame.
Addressed ==
  /\ Sending /\ cpu.pc # "dst_ip"
       => swallowed \/ sock.ip = Dest[accepted][1]
  /\ Sending /\ cpu.pc \notin {"dst_ip", "dst_port"}
       => sock.dport = Dest[accepted][2]
  /\ RightHost

SendInv == WizTypes /\ CallShape /\ OneMessage /\ Addressed

\* The application keeps to what a send needs.
OneSendAtATime == "await_sent" \in Discipline

\* The transmitter of socket c is as it was, or reset.
SameTransmitter(c) ==
  /\ c.ip = sock.ip /\ c.dport = sock.dport
  /\ \/ /\ c.sending = sock.sending
        /\ c.txRd = sock.txRd /\ c.txWr = sock.txWr
     \/ ~c.sending.on /\ c.txRd = c.txWr

\* What a step does that is none of a send's.
Aside ==
  /\ cpu.pc \notin SendPcs \cup {"wait"}
  /\ cpu'.pc \notin SendPcs \cup {"wait"}
  /\ dma # "tx" /\ dma' # "tx" /\ UNCHANGED tx
  /\ sock' = sock \/ SameTransmitter(sock')
  /\ faults' = faults \/ faults' # 0
  /\ ret' = ret \/ ret'[1] # "send"

LEMMA AsideKeeps ==
  ASSUME SendInv, CallShape', WizTypes', Aside
  PROVE  SendInv'
BY DEF Aside, SameTransmitter, SendInv, OneMessage, Addressed, Sending,
       RightHost, tx

LEMMA BlankMemory == ASSUME NEW n \in Nat PROVE Blanks(n) \in Memory(n)
BY DEF Blanks, Memory, Octets

LEMMA InitSendInv == Init => SendInv
<1>. SUFFICES ASSUME Init PROVE SendInv
  OBVIOUS
<1>1. /\ TxSize \in Nat /\ RxSize \in Nat /\ 0 \in Ptr /\ BufferSize \in Nat
  BY ChipAssumption, DriverAssumption DEF ChipAssumption, DriverAssumption,
     Ptr
<1>2. NoSend \in Transmission
  BY DEF NoSend, NoDest, Transmission, Ips, Ports
<1>3. sock \in SockType /\ ~sock.sending.on
  BY <1>1, <1>2, BlankMemory DEF Init, ChipInit, SockType, NoSend, Ips, Ports
<1>4. cpu \in CpuType /\ cpu.pc = "idle" /\ cpu.op = "none"
  BY <1>1 DEF Init, Idle, CpuType, Pcs
<1>5. WizTypes /\ CallShape
  BY <1>1, <1>3, <1>4
     DEF Init, WizTypes, CallShape, SendPcs, RecvPcs, OpenPcs
<1>6. OneMessage /\ Addressed
  BY <1>3, <1>4 DEF Init, OneMessage, Addressed, Sending, RightHost, SendPcs
<1>. QED  BY <1>5, <1>6 DEF SendInv

-----------------------------------------------------------------------------
(* The calls.                                                              *)


-----------------------------------------------------------------------------
(* The steps.                                                              *)

\* What a write leaves.
LEMMA WriteIs ==
  ASSUME NEW after, NEW ACTION D, NEW ACTION F, Write(after, D, F)
  PROVE  /\ frame' = "none" /\ (sock' = sock \/ sock' = after)
         /\ \/ D /\ UNCHANGED faults /\ (frame = "none" => sock' = after)
            \/ F /\ faults' = faults + 1 /\ sock' = sock
BY DEF Write, Fault

LEMMA IdleIs ==
  Idle \in CpuType /\ Idle.pc = "idle" /\ Idle.op = "none"
BY ChipAssumption, DriverAssumption
   DEF ChipAssumption, DriverAssumption, Ptr, Idle, CpuType, Pcs

LEMMA GotoIs ==
  ASSUME cpu \in CpuType, NEW pc \in Pcs, Goto(pc)
  PROVE  /\ cpu' \in CpuType /\ cpu'.pc = pc /\ cpu'.op = cpu.op
         /\ cpu'.ptr = cpu.ptr /\ cpu'.len = cpu.len /\ ret' = ret
BY DEF CpuType, Goto

LEMMA ReturnIs ==
  ASSUME NEW r, Return(r)
  PROVE  /\ cpu' \in CpuType /\ cpu'.pc = "idle" /\ cpu'.op = "none"
         /\ ret' = <<cpu.op, r>>
BY IdleIs DEF Return

LEMMA PtrIs ==
  ASSUME NEW x \in Int
  PROVE  x % PtrSize \in Ptr
<1>1. PtrSize \in Nat \ {0}
  BY ChipAssumption DEF ChipAssumption
<1>2. x % PtrSize \in 0 .. PtrSize - 1
  BY <1>1, Quotient
<1>. QED  BY <1>2 DEF Ptr

LEMMA BytesType ==
  ASSUME NEW p \in Payloads
  PROVE  /\ Bytes(p) \in Seq(Octets) /\ Len(Bytes(p)) = Length[p]
         /\ Stored(p) \in Seq(Octets)
         /\ Len(Stored(p)) = HeaderSize + Length[p]
         /\ \A i \in 1 .. Length[p] : Bytes(p)[i] = <<p, i - 1>>
         /\ \A i \in 1 .. HeaderSize + Length[p] :
              Stored(p)[i] = <<p, i - 1 - HeaderSize>>
         /\ Length[p] \in Nat \ {0} /\ HeaderSize = 8
<1>1. Length[p] \in Nat \ {0} /\ HeaderSize = 8
  BY ChipAssumption DEF ChipAssumption, HeaderSize
<1>2. \A i \in Int : <<p, i>> \in Octets
  BY DEF Octets
<1>3. PICK n \in Nat : n = Length[p]
  BY <1>1
<1>4. PICK m \in Nat : m = HeaderSize + Length[p]
  BY <1>1
<1>5. /\ Bytes(p) \in Seq(Octets) /\ Len(Bytes(p)) = n
      /\ \A i \in 1 .. n : Bytes(p)[i] = <<p, i - 1>>
  <2>1. Bytes(p) = [i \in 1 .. n |-> <<p, i - 1>>]
    BY <1>3 DEF Bytes
  <2>2. \A i \in 1 .. n : <<p, i - 1>> \in Octets
    BY <1>2
  <2>. QED  BY <2>1, <2>2
<1>6. /\ Stored(p) \in Seq(Octets) /\ Len(Stored(p)) = m
      /\ \A i \in 1 .. m : Stored(p)[i] = <<p, i - 1 - HeaderSize>>
  <2>1. Stored(p) = [i \in 1 .. m |-> <<p, i - 1 - HeaderSize>>]
    BY <1>4 DEF Stored
  <2>2. \A i \in 1 .. m : <<p, i - 1 - HeaderSize>> \in Octets
    BY <1>1, <1>2
  <2>. QED  BY <2>1, <2>2
<1>. QED  BY <1>1, <1>3, <1>4, <1>5, <1>6

-----------------------------------------------------------------------------
(* What commands and copies make of the socket.                            *)

LEMMA OpenedIs ==
  ASSUME NEW c \in SockType
  PROVE  /\ OpenCommand(c) \in SockType
         /\ OpenCommand(c).ip = c.ip /\ OpenCommand(c).dport = c.dport
         /\ \/ OpenCommand(c) = c
            \/ /\ ~OpenCommand(c).sending.on
               /\ OpenCommand(c).txRd = OpenCommand(c).txWr
<1>1. NoSend \in Transmission /\ ~NoSend.on /\ 0 \in Ptr
  BY PtrIs, ChipAssumption
     DEF NoSend, NoDest, Transmission, Ips, Ports, ChipAssumption, Ptr
<1>. QED  BY <1>1 DEF OpenCommand, SockType

LEMMA CopiedIs ==
  ASSUME NEW at \in Ptr, sock \in SockType, accepted \in Messages
  PROVE  /\ Copied(at) \in SockType
         /\ Copied(at) = [sock EXCEPT !.tx = Copied(at).tx]
         /\ Copied(at).tx = Put(sock.tx, at + 1, Bytes(accepted))
<1>1. TxSize \in Nat \ {0} /\ at \in Int /\ accepted \in Payloads
  BY ChipAssumption DEF ChipAssumption, Ptr, Payloads
<1>2. Put(sock.tx, at + 1, Bytes(accepted)) \in Memory(TxSize)
  BY <1>1, BytesType, PutIs DEF SockType, Memory
<1>. QED  BY <1>2 DEF Copied, SockType

LEMMA TakenIs ==
  ASSUME NEW c \in SockType
  PROVE  /\ SendCommand(c) \in SockType
         /\ SendCommand(c) = [c EXCEPT !.sending = SendCommand(c).sending]
         /\ ~c.sending.on =>
              SendCommand(c).sending =
                [dst |-> <<c.ip, c.dport>>, on |-> TRUE,
                 data |-> Get(c.tx, c.txRd + 1, (c.txWr - c.txRd) % PtrSize)]
<1>. DEFINE data == Get(c.tx, c.txRd + 1, (c.txWr - c.txRd) % PtrSize)
            made == [dst |-> <<c.ip, c.dport>>, on |-> TRUE, data |-> data]
<1>1. data \in Seq(Octets)
  <2>1. /\ TxSize \in Nat \ {0} /\ c.txRd \in Int /\ c.txWr - c.txRd \in Int
        /\ c.tx \in [1 .. TxSize -> Octets]
    BY ChipAssumption DEF ChipAssumption, Ptr, SockType, Memory
  <2>2. PICK n \in Nat : n = (c.txWr - c.txRd) % PtrSize
    BY <2>1, PtrIs DEF Ptr
  <2>. QED  BY <2>1, <2>2, GetIs
<1>2. made \in Transmission
  BY <1>1 DEF Transmission, SockType
<1>. HIDE DEF data
<1>3. SendCommand(c) = IF c.sending.on THEN c ELSE [c EXCEPT !.sending = made]
  BY DEF SendCommand, data
<1>. QED  BY <1>2, <1>3 DEF SockType, data

LEMMA FreedIs ==
  ASSUME NEW c \in SockType
  PROVE  /\ RecvCommand(c) \in SockType
         /\ RecvCommand(c) = [c EXCEPT !.rxDone = c.rxRd]
BY DEF RecvCommand, SockType

LEMMA BeginStep ==
  ASSUME SendInv, NEW op \in {"open"} \cup SendOps \cup RecvOps,
         CallBegins(op), accepted' \in Messages \cup {NoPayload}
  PROVE  /\ WizTypes' /\ CallShape' /\ cpu'.pc = Start[op] /\ cpu'.op = op
         /\ cpu.pc = "idle" /\ dma = "off" /\ dma' = "off"
         /\ UNCHANGED <<sock, frame, faults, rx, arrivals>> /\ ret' = NoRet
<1>1. /\ cpu = Idle /\ dma = "off" /\ ret' = NoRet
      /\ cpu' = [Idle EXCEPT !.op = op, !.pc = Start[op]]
      /\ UNCHANGED <<sock, frame, dma, faults, arrivals, rx>>
  BY DEF CallBegins
<1>2. /\ Start[op] \in {"mode", "dst_ip", "rx_size"}
      /\ op = "open" => Start[op] = "mode"
      /\ op \in SendOps => Start[op] = "dst_ip"
      /\ op \in RecvOps => Start[op] = "rx_size"
  BY DEF Start, SendOps, RecvOps
<1>3. /\ cpu' \in CpuType /\ cpu'.pc = Start[op] /\ cpu'.op = op
      /\ cpu.pc = "idle"
  <2>1. PICK pc : pc = Start[op]
    OBVIOUS
  <2>2. /\ pc \in OpenPcs \cup SendPcs \cup RecvPcs
        /\ cpu' = [Idle EXCEPT !.op = op, !.pc = pc]
    BY <1>1, <1>2, <2>1 DEF OpenPcs, SendPcs, RecvPcs
  <2>3. 0 \in Ptr /\ 0 \in 0 .. BufferSize
    BY ChipAssumption, DriverAssumption
       DEF ChipAssumption, DriverAssumption, Ptr
  <2>. QED  BY <1>1, <2>1, <2>2, <2>3 DEF Idle, CpuType, Pcs
<1>4. WizTypes'
  BY <1>1, <1>3 DEF SendInv, WizTypes, rx
<1>5. CallShape'
  BY <1>1, <1>2, <1>3
     DEF CallShape, OpenPcs, SendPcs, RecvPcs, SendOps, RecvOps
<1>. QED  BY <1>1, <1>3, <1>4, <1>5

LEMMA OpenBegins ==
  ASSUME SendInv, Open
  PROVE  SendInv' /\ Aside
<1>1. CallBegins("open") /\ UNCHANGED tx
  BY DEF Open
<1>2. accepted' = accepted /\ accepted \in Messages \cup {NoPayload}
  BY <1>1 DEF tx, SendInv, WizTypes
<1>3. /\ WizTypes' /\ CallShape' /\ cpu'.pc = Start["open"]
      /\ cpu.pc = "idle" /\ dma = "off" /\ dma' = "off" /\ sock' = sock
      /\ ret' = NoRet /\ faults' = faults
  BY <1>1, <1>2, BeginStep
<1>4. cpu'.pc = "mode"
  BY <1>3 DEF Start
<1>5. Aside
  BY <1>1, <1>3, <1>4 DEF Aside, NoRet, SendPcs
<1>. QED  BY <1>3, <1>5, AsideKeeps

LEMMA ReceiveBegins ==
  ASSUME SendInv, NEW op \in RecvOps, Receive(op)
  PROVE  SendInv' /\ Aside
<1>1. CallBegins(op) /\ UNCHANGED tx
  BY DEF Receive
<1>2. accepted' = accepted /\ accepted \in Messages \cup {NoPayload}
  BY <1>1 DEF tx, SendInv, WizTypes
<1>3. /\ WizTypes' /\ CallShape' /\ cpu'.pc = Start[op]
      /\ cpu.pc = "idle" /\ dma = "off" /\ dma' = "off" /\ sock' = sock
      /\ ret' = NoRet /\ faults' = faults
  BY <1>1, <1>2, BeginStep
<1>4. cpu'.pc = "rx_size"
  BY <1>3 DEF Start, RecvOps
<1>5. Aside
  BY <1>1, <1>3, <1>4 DEF Aside, NoRet, SendPcs
<1>. QED  BY <1>3, <1>5, AsideKeeps

LEMMA SendBegins ==
  ASSUME OneSendAtATime, SendInv,
         NEW m \in Messages, NEW op \in SendOps, Send(op, m)
  PROVE  SendInv'
<1>1. CallBegins(op) /\ accepted' = m /\ ~sock.sending.on
  BY DEF Send, Kept, OneSendAtATime
<1>2. /\ WizTypes' /\ CallShape' /\ cpu'.pc = Start[op]
      /\ dma' = "off" /\ sock' = sock /\ frame' = frame
  BY <1>1, BeginStep
<1>3. cpu'.pc = "dst_ip"
  BY <1>2 DEF Start, SendOps
<1>4. OneMessage' /\ Addressed'
  BY <1>1, <1>2, <1>3 DEF OneMessage, Addressed, RightHost, Sending
<1>. QED  BY <1>2, <1>4 DEF SendInv

LEMMA QueryStep == ASSUME SendInv, Query PROVE SendInv' /\ Aside
<1>1. /\ cpu = Idle /\ dma = "off" /\ frame' = "none"
      /\ UNCHANGED <<sock, cpu, dma, ret, faults, rx, tx>>
  BY DEF Query
<1>2. cpu.pc = "idle"
  BY <1>1 DEF Idle
<1>3. WizTypes' /\ CallShape'
  BY <1>1 DEF SendInv, WizTypes, CallShape, rx, tx
<1>4. Aside
  BY <1>1, <1>2 DEF Aside, SendPcs
<1>. QED  BY <1>3, <1>4, AsideKeeps

LEMMA ClearStep ==
  ASSUME SendInv, NEW ints \in SUBSET Ints, ClearInterrupt(ints)
  PROVE  SendInv' /\ Aside
<1>. DEFINE after == [sock EXCEPT !.ir = @ \ ints]
<1>1. /\ cpu = Idle /\ dma = "off"
      /\ Write(after, TRUE, TRUE)
      /\ UNCHANGED <<cpu, dma, ret, env, rx, tx>>
  BY DEF ClearInterrupt
<1>2. cpu.pc = "idle"
  BY <1>1 DEF Idle
<1>3. after \in SockType /\ sock \in SockType /\ SameTransmitter(after)
  BY DEF SendInv, WizTypes, SockType, SameTransmitter
<1>. HIDE DEF after
<1>4. /\ frame' = "none" /\ (sock' = sock \/ sock' = after)
      /\ faults' = faults \/ faults' = faults + 1
  BY <1>1, WriteIs
<1>5. WizTypes' /\ CallShape'
  BY <1>1, <1>3, <1>4 DEF SendInv, WizTypes, CallShape, rx, tx
<1>6. Aside
  BY <1>1, <1>2, <1>3, <1>4 DEF Aside, SendPcs, SendInv, WizTypes
<1>. QED  BY <1>5, <1>6, AsideKeeps

-----------------------------------------------------------------------------
(* Steps that are none of a send's.                                        *)

\* A write of the open or the receive call, and where it goes.
LEMMA OtherWrite ==
  ASSUME SendInv, cpu.pc \in OpenPcs \cup RecvPcs,
         NEW after \in SockType, SameTransmitter(after),
         frame' = "none", sock' = sock \/ sock' = after,
         faults' \in {faults, faults + 1}, UNCHANGED <<dma, rx, tx>>,
         cpu' \in CpuType,
         \/ cpu'.pc \in OpenPcs \cup RecvPcs /\ cpu'.op = cpu.op
            /\ (cpu.pc \in OpenPcs <=> cpu'.pc \in OpenPcs) /\ ret' = ret
         \/ cpu'.pc = "idle" /\ cpu'.op = "none" /\ ret'[1] = cpu.op
  PROVE  SendInv' /\ Aside
<1>1. /\ cpu.pc \notin SendPcs \cup {"wait"}
      /\ cpu'.pc \notin SendPcs \cup {"wait"}
      /\ cpu.pc # "idle" /\ dma = "off" /\ dma' = "off"
      /\ cpu.op # "send" /\ faults \in Nat
  BY DEF OpenPcs, RecvPcs, SendPcs, SendInv, CallShape, WizTypes, RecvOps
<1>2. WizTypes'
  BY DEF SendInv, WizTypes, rx, tx
<1>3. CallShape'
  BY <1>1 DEF SendInv, CallShape, OpenPcs, RecvPcs, SendPcs
<1>4. Aside
  BY <1>1 DEF Aside
<1>. QED  BY <1>2, <1>3, <1>4, AsideKeeps

LEMMA OpenSteps ==
  ASSUME SendInv, OpenStep
  PROVE  SendInv' /\ Aside
<1>1. sock \in SockType /\ cpu \in CpuType
  BY DEF SendInv, WizTypes
<1>2. "mode" \in Pcs /\ "port" \in Pcs /\ "open" \in Pcs
  BY DEF Pcs, OpenPcs
<1>3. CASE SetMode
  <2>. DEFINE after == [sock EXCEPT !.mode = "udp"]
  <2>1. /\ cpu.pc = "mode" /\ UNCHANGED <<dma, rx, tx>>
        /\ Write(after, Goto("port"), Goto("port"))
    BY <1>3 DEF SetMode, Step
  <2>2. after \in SockType /\ SameTransmitter(after)
    BY <1>1 DEF SockType, SameTransmitter
  <2>. HIDE DEF after
  <2>3. /\ frame' = "none" /\ (sock' = sock \/ sock' = after)
        /\ faults' \in {faults, faults + 1} /\ Goto("port")
    BY <2>1, WriteIs
  <2>4. /\ cpu' \in CpuType /\ cpu'.pc = "port" /\ cpu'.op = cpu.op
        /\ ret' = ret
    BY <1>1, <1>2, <2>3, GotoIs
  <2>. QED  BY <2>1, <2>2, <2>3, <2>4, OtherWrite DEF OpenPcs, RecvPcs
<1>4. CASE SetPort
  <2>1. /\ cpu.pc = "port" /\ UNCHANGED <<dma, rx, tx>>
        /\ Write(sock, Goto("open"), Return("error"))
    BY <1>4 DEF SetPort, Step
  <2>2. /\ frame' = "none" /\ sock' = sock
        /\ faults' \in {faults, faults + 1}
        /\ Goto("open") \/ Return("error")
    BY <2>1, WriteIs
  <2>3. /\ cpu' \in CpuType
        /\ \/ cpu'.pc = "open" /\ cpu'.op = cpu.op /\ ret' = ret
           \/ cpu'.pc = "idle" /\ cpu'.op = "none" /\ ret'[1] = cpu.op
    BY <1>1, <1>2, <2>2, GotoIs, ReturnIs
  <2>. QED  BY <1>1, <2>1, <2>2, <2>3, OtherWrite
            DEF OpenPcs, RecvPcs, SameTransmitter
<1>5. CASE CommandOpen
  <2>1. /\ cpu.pc = "open" /\ UNCHANGED <<dma, rx, tx>>
        /\ Write(OpenCommand(sock), Return("ok"), Return("error"))
    BY <1>5 DEF CommandOpen, Step
  <2>2. PICK after \in SockType :
          after = OpenCommand(sock) /\ SameTransmitter(after)
    BY <1>1, OpenedIs DEF SameTransmitter
  <2>3. /\ frame' = "none" /\ (sock' = sock \/ sock' = after)
        /\ faults' \in {faults, faults + 1}
        /\ Return("ok") \/ Return("error")
    BY <2>1, <2>2, WriteIs
  <2>4. /\ cpu' \in CpuType /\ cpu'.pc = "idle" /\ cpu'.op = "none"
        /\ ret'[1] = cpu.op
    BY <2>3, ReturnIs
  <2>. QED  BY <2>1, <2>2, <2>3, <2>4, OtherWrite DEF OpenPcs
<1>. QED  BY <1>3, <1>4, <1>5 DEF OpenStep

\* The receive call moves its pointer, reads, and frees the memory.
LEMMA HandOverIs ==
  ASSUME WizTypes, HandOver
  PROVE  waiting' \in Seq(Packets) /\ Len(buffer') <= BufferSize
<1>1. PICK n \in 0 .. BufferSize : n = cpu.len
  BY DEF WizTypes, CpuType
<1>2. n \in Nat /\ BufferSize \in Nat
  BY DriverAssumption DEF DriverAssumption
<1>3. /\ RxSize \in Nat \ {0} /\ cpu.ptr \in Int
      /\ sock.rx \in [1 .. RxSize -> Octets]
  BY ChipAssumption DEF ChipAssumption, WizTypes, CpuType, SockType, Memory,
                        Ptr
<1>4. Len(Get(sock.rx, cpu.ptr + 1, n)) = n
  BY <1>2 DEF Get
<1>5. buffer' = Get(sock.rx, cpu.ptr + 1, n)
  BY <1>1 DEF HandOver
<1>6. waiting' \in Seq(Packets)
  BY DEF HandOver, WizTypes
<1>. QED  BY <1>2, <1>4, <1>5, <1>6

LEMMA ReceiveSteps ==
  ASSUME SendInv, ReceiveStep
  PROVE  SendInv' /\ Aside
<1>1. /\ sock \in SockType /\ cpu \in CpuType /\ WizTypes /\ CallShape
      /\ faults \in Nat
  BY DEF SendInv, WizTypes
<1>2. "rx_copy" \in Pcs /\ "recv" \in Pcs /\ "rx_advance" \in Pcs
  BY DEF Pcs, RecvPcs
<1>3. CASE RxSizeRead
  <2>1. /\ cpu.pc = "rx_size" /\ UNCHANGED <<dma, rx, tx, sock, faults>>
        /\ frame' = "none"
    BY <1>3 DEF RxSizeRead, Step, ReadForSure
  <2>2. /\ cpu' \in CpuType
        /\ \/ cpu'.pc = "rx_advance" /\ cpu'.op = cpu.op /\ ret' = ret
           \/ cpu'.pc = "idle" /\ cpu'.op = "none" /\ ret'[1] = cpu.op
    <3>1. CASE Return("nothing")
      BY <3>1, ReturnIs
    <3>2. CASE /\ UNCHANGED ret
               /\ cpu' = [cpu EXCEPT
                    !.pc = "rx_advance",
                    !.len = Least(UdpReceivedSize(sock), BufferSize),
                    !.ptr = (sock.rxRd + HeaderSize) % PtrSize]
      <4>1. PICK ptr \in Ptr : ptr = (sock.rxRd + HeaderSize) % PtrSize
        BY <1>1, PtrIs DEF SockType, Ptr, HeaderSize
      <4>2. PICK size \in Nat : size = UdpReceivedSize(sock)
        <5>1. PICK got \in Ptr : got = Received(sock)
          BY <1>1, PtrIs DEF SockType, Ptr, Received
        <5>2. (got - HeaderSize) % PtrSize \in Ptr
          BY PtrIs DEF Ptr, HeaderSize
        <5>. QED  BY <5>1, <5>2 DEF UdpReceivedSize, Ptr
      <4>3. PICK len \in 0 .. BufferSize : len = Least(size, BufferSize)
        BY DriverAssumption DEF DriverAssumption, Least
      <4>4. cpu' = [cpu EXCEPT !.pc = "rx_advance", !.len = len, !.ptr = ptr]
        BY <3>2, <4>1, <4>2, <4>3
      <4>. QED  BY <1>1, <1>2, <3>2, <4>4 DEF CpuType
    <3>. QED  BY <1>3, <3>1, <3>2 DEF RxSizeRead
  <2>. QED  BY <1>1, <2>1, <2>2, OtherWrite
            DEF OpenPcs, RecvPcs, SameTransmitter
<1>4. CASE RxAdvance
  <2>. DEFINE to == (cpu.ptr + cpu.len) % PtrSize
              after == [sock EXCEPT !.rxRd = to]
  <2>1. /\ cpu.pc = "rx_advance" /\ UNCHANGED <<dma, rx, tx>>
        /\ Write(after, Goto("rx_copy"), RxDataFails("error"))
    BY <1>4 DEF RxAdvance, Step
  <2>2. to \in Ptr
    <3>1. cpu.ptr + cpu.len \in Int
      BY <1>1, DriverAssumption DEF CpuType, Ptr, DriverAssumption
    <3>. QED  BY <3>1, PtrIs
  <2>. HIDE DEF to
  <2>3. after \in SockType /\ SameTransmitter(after)
    BY <1>1, <2>2 DEF SockType, SameTransmitter
  <2>. HIDE DEF after
  <2>4. /\ frame' = "none" /\ (sock' = sock \/ sock' = after)
        /\ faults' \in {faults, faults + 1}
        /\ Goto("rx_copy") \/ Goto("recv") \/ Return("error")
    BY <2>1, WriteIs DEF RxDataFails
  <2>5. /\ cpu' \in CpuType
        /\ \/ cpu'.pc \in {"rx_copy", "recv"} /\ cpu'.op = cpu.op
              /\ ret' = ret
           \/ cpu'.pc = "idle" /\ cpu'.op = "none" /\ ret'[1] = cpu.op
    BY <1>1, <1>2, <2>4, GotoIs, ReturnIs
  <2>. QED  BY <2>1, <2>3, <2>4, <2>5, OtherWrite DEF OpenPcs, RecvPcs
<1>5. CASE RxCopy
  <2>1. /\ cpu.pc = "rx_copy" /\ UNCHANGED <<sock, dma, tx>> /\ Goto("recv")
        /\ \/ HandOver /\ UNCHANGED <<frame, faults>>
           \/ faults' = faults + 1 /\ frame' \in {"none", "stray"}
              /\ UNCHANGED rx
    BY <1>5 DEF RxCopy, Fault
  <2>2. /\ cpu' \in CpuType /\ cpu'.pc = "recv" /\ cpu'.op = cpu.op
        /\ ret' = ret
    BY <1>1, <1>2, <2>1, GotoIs
  <2>3. waiting' \in Seq(Packets) /\ Len(buffer') <= BufferSize
    BY <1>1, <2>1, HandOverIs DEF rx, WizTypes
  <2>4. WizTypes'
    BY <1>1, <2>1, <2>2, <2>3 DEF WizTypes, tx
  <2>5. CallShape' /\ dma = "off"
    BY <1>1, <2>1, <2>2 DEF CallShape, SendPcs, RecvPcs, OpenPcs, WizTypes
  <2>6. Aside
    BY <1>1, <2>1, <2>2, <2>5 DEF Aside, SendPcs
  <2>. QED  BY <2>4, <2>5, <2>6, AsideKeeps
<1>6. CASE RxDmaStart
  <2>1. /\ cpu.pc = "rx_copy" /\ UNCHANGED <<sock, tx, rx>>
        /\ dma' \in {"rx", "off"} /\ frame' \in {"data", "stray"}
        /\ faults' \in {faults, faults + 1}
        /\ \/ /\ cpu' = [Idle EXCEPT !.ptr = cpu.ptr, !.len = cpu.len]
              /\ ret' = <<cpu.op, "ok">>
           \/ Return("error")
    BY <1>6 DEF RxDmaStart, Fault
  <2>2. /\ cpu' \in CpuType /\ cpu'.pc = "idle" /\ cpu'.op = "none"
        /\ ret'[1] = cpu.op
    <3>1. CASE /\ cpu' = [Idle EXCEPT !.ptr = cpu.ptr, !.len = cpu.len]
               /\ ret' = <<cpu.op, "ok">>
      BY <1>1, <3>1, IdleIs DEF CpuType
    <3>2. CASE Return("error")
      BY <3>2, ReturnIs
    <3>. QED  BY <2>1, <3>1, <3>2
  <2>3. WizTypes'
    BY <1>1, <2>1, <2>2 DEF WizTypes, tx, rx
  <2>4. CallShape' /\ dma = "off" /\ cpu.op \in RecvOps
    BY <1>1, <2>1, <2>2 DEF CallShape, SendPcs, RecvPcs, OpenPcs, WizTypes
  <2>5. Aside
    BY <1>1, <2>1, <2>2, <2>4 DEF Aside, SendPcs, RecvOps
  <2>. QED  BY <2>3, <2>4, <2>5, AsideKeeps
<1>7. CASE CommandRecv
  <2>1. /\ cpu.pc = "recv" /\ UNCHANGED <<dma, rx, tx>>
        /\ Write(RecvCommand(sock), Return("ok"), Return("ok"))
    BY <1>7 DEF CommandRecv, Step
  <2>2. PICK after \in SockType :
          after = RecvCommand(sock) /\ SameTransmitter(after)
    BY <1>1, FreedIs DEF SockType, SameTransmitter
  <2>3. /\ frame' = "none" /\ (sock' = sock \/ sock' = after)
        /\ faults' \in {faults, faults + 1} /\ Return("ok")
    BY <2>1, <2>2, WriteIs
  <2>4. /\ cpu' \in CpuType /\ cpu'.pc = "idle" /\ cpu'.op = "none"
        /\ ret'[1] = cpu.op
    BY <2>3, ReturnIs
  <2>. QED  BY <2>1, <2>2, <2>3, <2>4, OtherWrite DEF RecvPcs
<1>. QED  BY <1>3, <1>4, <1>5, <1>6, <1>7 DEF ReceiveStep

LEMMA RxCompletes ==
  ASSUME SendInv, RxDmaComplete
  PROVE  SendInv' /\ Aside
<1>1. /\ dma = "rx" /\ dma' = "off" /\ cpu' = Idle /\ HandOver
      /\ frame' = "none" /\ UNCHANGED tx
      /\ sock' = RecvCommand(sock) \/ sock' = sock
      /\ faults' \in {faults, faults + 1} /\ ret' = ret
  BY DEF RxDmaComplete, Fault
<1>2. sock' \in SockType /\ SameTransmitter(sock')
  BY <1>1, FreedIs DEF SendInv, WizTypes, SockType, SameTransmitter
<1>3. WizTypes'
  BY <1>1, <1>2, HandOverIs, IdleIs DEF SendInv, WizTypes, tx
<1>4. CallShape' /\ cpu.pc = "idle" /\ cpu'.pc = "idle"
  BY <1>1, IdleIs DEF SendInv, CallShape, SendPcs, RecvPcs, OpenPcs
<1>5. Aside
  BY <1>1, <1>2, <1>4 DEF Aside, SendPcs, SendInv, WizTypes
<1>. QED  BY <1>3, <1>4, <1>5, AsideKeeps

LEMMA ArrivalIs ==
  ASSUME sock \in SockType, NEW p \in Packets, Arrives(p)
  PROVE  /\ sock' \in SockType
         /\ sock' = [sock EXCEPT !.rx = Put(sock.rx, sock.rxWr + 1, Stored(p)),
              !.rxWr = (sock.rxWr + HeaderSize + Length[p]) % PtrSize,
              !.ir = sock.ir \cup {"RECV"}]
<1>1. PICK mem \in Memory(RxSize) :
        mem = Put(sock.rx, sock.rxWr + 1, Stored(p))
  <2>1. /\ RxSize \in Nat \ {0} /\ sock.rxWr \in Int /\ p \in Payloads
        /\ sock.rx \in [1 .. RxSize -> Octets]
    BY ChipAssumption DEF ChipAssumption, Ptr, Payloads, SockType, Memory
  <2>. QED  BY <2>1, BytesType, PutIs DEF Memory
<1>2. PICK to \in Ptr : to = (sock.rxWr + HeaderSize + Length[p]) % PtrSize
  <2>1. Length[p] \in Int /\ HeaderSize \in Int /\ sock.rxWr \in Int
    BY BytesType DEF Payloads, Ptr, SockType
  <2>2. sock.rxWr + HeaderSize + Length[p] \in Int
    BY <2>1
  <2>. QED  BY <2>2, PtrIs
<1>3. PICK ir \in SUBSET Ints : ir = sock.ir \cup {"RECV"}
  BY DEF SockType, Ints
<1>4. sock' = [sock EXCEPT !.rx = mem, !.rxWr = to, !.ir = ir]
  BY <1>1, <1>2, <1>3 DEF Arrives
<1>5. sock' \in SockType
  BY <1>4 DEF SockType
<1>. QED  BY <1>1, <1>2, <1>3, <1>4, <1>5

LEMMA ArrivesStep ==
  ASSUME SendInv, NEW p \in Packets, DatagramArrives(p)
  PROVE  SendInv'
<1>1. /\ Arrives(p) /\ waiting' = Append(waiting, p)
      /\ UNCHANGED <<frame, cpu, dma, faults, buffer, tx>>
  BY DEF DatagramArrives
<1>2. /\ sock' \in SockType /\ sock'.ip = sock.ip
      /\ sock'.dport = sock.dport /\ sock'.sending = sock.sending
  BY <1>1, ArrivalIs DEF SendInv, WizTypes, SockType
<1>3. WizTypes'
  BY <1>1, <1>2 DEF SendInv, WizTypes, tx
<1>4. CallShape' /\ OneMessage' /\ Addressed'
  BY <1>1, <1>2 DEF SendInv, CallShape, OneMessage, Addressed, RightHost,
                    Sending, tx
<1>. QED  BY <1>3, <1>4 DEF SendInv

-----------------------------------------------------------------------------
(* The steps of a send.                                                    *)

\* The call goes on to pc, or fails.
LEMMA SendGoes ==
  ASSUME SendInv, cpu.pc \in SendPcs \cup {"wait"}, sock' \in SockType,
         cpu' \in CpuType, faults' \in {faults, faults + 1},
         frame' \in {"none", frame}, UNCHANGED <<dma, rx, accepted>>,
         \/ cpu'.pc \in SendPcs \cup {"wait"} /\ cpu'.op = cpu.op
         \/ cpu'.pc = "idle" /\ cpu'.op = "none",
         cpu'.pc \in {"send", "wait"} => cpu.op = "send"
  PROVE  /\ WizTypes' /\ CallShape' /\ dma = "off" /\ dma' = "off"
         /\ cpu.op \in SendOps
<1>1. WizTypes'
  BY DEF SendInv, WizTypes, rx
<1>2. CallShape' /\ dma = "off" /\ cpu.op \in SendOps
  BY DEF SendInv, CallShape, SendPcs, RecvPcs, OpenPcs, SendOps, WizTypes
<1>. QED  BY <1>1, <1>2

LEMMA FailsIs ==
  ASSUME cpu \in CpuType, NEW r, TxDataFails(r),
         cpu.op \in SendOps, dma = "off"
  PROVE  /\ cpu' \in CpuType
         /\ \/ cpu'.pc = "send" /\ cpu'.op = cpu.op /\ cpu.op = "send"
               /\ ret' = ret
            \/ /\ cpu'.pc = "idle" /\ cpu'.op = "none"
               /\ cpu.op = "send_dma" /\ ret' = <<cpu.op, r>>
<1>1. "send" \in Pcs
  BY DEF Pcs, SendPcs
<1>2. CASE WithDma
  <2>1. Return(r) /\ cpu.op = "send_dma"
    BY <1>2 DEF TxDataFails, WithDma, SendOps
  <2>. QED  BY <2>1, ReturnIs
<1>3. CASE ~WithDma
  <2>1. Goto("send") /\ cpu.op = "send"
    BY <1>3 DEF TxDataFails, WithDma, SendOps
  <2>. QED  BY <1>1, <2>1, GotoIs
<1>. QED  BY <1>2, <1>3

LEMMA DstIpStep == ASSUME SendInv, SetDstIp PROVE SendInv'
<1>. DEFINE after == [sock EXCEPT !.ip = Dest[accepted][1]]
<1>1. /\ cpu.pc = "dst_ip" /\ UNCHANGED <<dma, rx, accepted>>
      /\ Write(after, Goto("dst_port"), Return("error"))
      /\ swallowed' = (frame # "none")
  BY DEF SetDstIp, Step
<1>2. /\ sock \in SockType /\ cpu \in CpuType /\ accepted \in Messages
      /\ ~sock.sending.on /\ "dst_port" \in Pcs
  BY <1>1 DEF SendInv, WizTypes, OneMessage, Sending, SendPcs, Pcs
<1>3. /\ after \in SockType /\ after.ip = Dest[accepted][1]
      /\ after.sending = sock.sending
  BY <1>2 DEF SockType, Ips
<1>. HIDE DEF after
<1>4. /\ frame' = "none" /\ sock' \in {sock, after}
      /\ faults' \in {faults, faults + 1}
      /\ \/ Goto("dst_port") /\ (frame = "none" => sock' = after)
         \/ Return("error")
  BY <1>1, <1>2, WriteIs
<1>5. /\ cpu' \in CpuType
      /\ \/ /\ cpu'.pc = "dst_port" /\ cpu'.op = cpu.op
            /\ frame = "none" => sock' = after
         \/ cpu'.pc = "idle" /\ cpu'.op = "none"
  BY <1>2, <1>4, GotoIs, ReturnIs
<1>6. WizTypes' /\ CallShape' /\ dma' = "off"
  BY <1>1, <1>2, <1>3, <1>4, <1>5, SendGoes DEF SendPcs
<1>7. OneMessage' /\ Addressed'
  BY <1>1, <1>2, <1>3, <1>4, <1>5, <1>6
     DEF OneMessage, Addressed, RightHost, Sending, SendPcs
<1>. QED  BY <1>6, <1>7 DEF SendInv

LEMMA DstPortStep == ASSUME SendInv, SetDstPort PROVE SendInv'
<1>. DEFINE after == [sock EXCEPT !.dport = Dest[accepted][2]]
<1>1. /\ cpu.pc = "dst_port" /\ UNCHANGED <<dma, rx, tx>>
      /\ Write(after, Goto("tx_room"), Return("error"))
  BY DEF SetDstPort, Step
<1>2. /\ sock \in SockType /\ cpu \in CpuType /\ accepted \in Messages
      /\ frame = "none" /\ ~sock.sending.on /\ "tx_room" \in Pcs
      /\ swallowed \/ sock.ip = Dest[accepted][1]
  BY <1>1 DEF SendInv, WizTypes, OneMessage, Addressed, Sending, SendPcs, Pcs
<1>3. /\ after \in SockType /\ after.dport = Dest[accepted][2]
      /\ after.sending = sock.sending /\ after.ip = sock.ip
  BY <1>2 DEF SockType, Ports
<1>. HIDE DEF after
<1>4. /\ frame' = "none" /\ sock' \in {sock, after}
      /\ faults' \in {faults, faults + 1}
      /\ (Goto("tx_room") /\ sock' = after) \/ Return("error")
  BY <1>1, <1>2, WriteIs
<1>5. /\ cpu' \in CpuType
      /\ \/ cpu'.pc = "tx_room" /\ cpu'.op = cpu.op /\ sock' = after
         \/ cpu'.pc = "idle" /\ cpu'.op = "none"
  BY <1>2, <1>4, GotoIs, ReturnIs
<1>6. WizTypes' /\ CallShape' /\ dma' = "off"
  BY <1>1, <1>2, <1>3, <1>4, <1>5, SendGoes DEF SendPcs, tx
<1>7. OneMessage' /\ Addressed'
  BY <1>1, <1>2, <1>3, <1>4, <1>5, <1>6
     DEF OneMessage, Addressed, RightHost, Sending, SendPcs, tx
<1>. QED  BY <1>6, <1>7 DEF SendInv

\* Further steps up to SEND keep the destination.
LEMMA SendKeeps ==
  ASSUME SendInv, cpu.pc \in {"tx_room", "tx_advance", "tx_copy"},
         NEW after \in SockType, after.ip = sock.ip,
         after.dport = sock.dport, after.sending = sock.sending,
         sock' \in {sock, after}, cpu' \in CpuType, frame' = "none",
         faults' \in {faults, faults + 1}, UNCHANGED <<dma, rx, tx>>,
         \/ cpu'.pc \in {"tx_advance", "tx_copy"} /\ cpu'.op = cpu.op
         \/ cpu'.pc = "send" /\ cpu'.op = cpu.op /\ cpu.op = "send"
         \/ cpu'.pc = "idle" /\ cpu'.op = "none"
  PROVE  SendInv'
<1>1. /\ accepted \in Messages /\ ~sock.sending.on
      /\ swallowed \/ sock.ip = Dest[accepted][1]
      /\ sock.dport = Dest[accepted][2]
      /\ sock \in SockType
  BY DEF SendInv, WizTypes, OneMessage, Addressed, Sending, SendPcs
<1>2. WizTypes' /\ CallShape' /\ dma' = "off"
  BY <1>1, SendGoes DEF SendPcs, tx
<1>3. OneMessage' /\ Addressed'
  BY <1>1, <1>2 DEF OneMessage, Addressed, RightHost, Sending, SendPcs, tx
<1>. QED  BY <1>2, <1>3 DEF SendInv

LEMMA RoomStep == ASSUME SendInv, TxRoom PROVE SendInv'
<1>1. /\ cpu.pc = "tx_room" /\ frame' = "none"
      /\ UNCHANGED <<dma, rx, tx, sock, faults>>
  BY DEF TxRoom, Step, ReadForSure
<1>2. /\ sock \in SockType /\ cpu \in CpuType /\ "tx_advance" \in Pcs
      /\ cpu.op \in SendOps /\ dma = "off"
  BY <1>1 DEF SendInv, WizTypes, CallShape, SendPcs, Pcs
<1>3. /\ cpu' \in CpuType
      /\ \/ cpu'.pc = "tx_advance" /\ cpu'.op = cpu.op
         \/ cpu'.pc = "send" /\ cpu'.op = cpu.op /\ cpu.op = "send"
         \/ cpu'.pc = "idle" /\ cpu'.op = "none"
  <2>1. CASE TxDataFails("full")
    BY <1>2, <2>1, FailsIs
  <2>2. CASE cpu' = [cpu EXCEPT !.pc = "tx_advance", !.ptr = sock.txWr]
    BY <1>2, <2>2 DEF CpuType, SockType
  <2>. QED  BY <2>1, <2>2 DEF TxRoom
<1>. QED  BY <1>1, <1>2, <1>3, SendKeeps

LEMMA AdvanceTxStep == ASSUME SendInv, TxAdvance PROVE SendInv'
<1>. DEFINE to == (cpu.ptr + Length[accepted]) % PtrSize
            after == [sock EXCEPT !.txWr = to]
<1>1. /\ cpu.pc = "tx_advance" /\ UNCHANGED <<dma, rx, tx>>
      /\ Write(after, Goto("tx_copy"), TxDataFails("error"))
  BY DEF TxAdvance, Step
<1>2. /\ sock \in SockType /\ cpu \in CpuType /\ "tx_copy" \in Pcs
      /\ cpu.op \in SendOps /\ dma = "off" /\ accepted \in Messages
      /\ frame = "none"
  BY <1>1 DEF SendInv, WizTypes, CallShape, OneMessage, Sending, SendPcs, Pcs
<1>3. to \in Ptr
  <2>1. cpu.ptr + Length[accepted] \in Int
    BY <1>2, BytesType DEF Payloads, CpuType, Ptr
  <2>. QED  BY <2>1, PtrIs
<1>. HIDE DEF to
<1>4. /\ after \in SockType /\ after.ip = sock.ip
      /\ after.dport = sock.dport /\ after.sending = sock.sending
  BY <1>2, <1>3 DEF SockType
<1>. HIDE DEF after
<1>5. /\ frame' = "none" /\ sock' \in {sock, after}
      /\ faults' \in {faults, faults + 1}
      /\ Goto("tx_copy") \/ TxDataFails("error")
  BY <1>1, WriteIs
<1>6. /\ cpu' \in CpuType
      /\ \/ cpu'.pc = "tx_copy" /\ cpu'.op = cpu.op
         \/ cpu'.pc = "send" /\ cpu'.op = cpu.op /\ cpu.op = "send"
         \/ cpu'.pc = "idle" /\ cpu'.op = "none"
  BY <1>2, <1>5, GotoIs, FailsIs
<1>. QED  BY <1>1, <1>4, <1>5, <1>6, SendKeeps

LEMMA CopyStep == ASSUME SendInv, TxCopy PROVE SendInv'
<1>1. /\ cpu.pc = "tx_copy" /\ ~WithDma /\ UNCHANGED <<dma, rx, tx>>
      /\ Write(Copied(cpu.ptr), Goto("send"), Goto("send"))
  BY DEF TxCopy
<1>2. /\ sock \in SockType /\ cpu \in CpuType /\ "send" \in Pcs
      /\ cpu.op = "send" /\ accepted \in Messages /\ cpu.ptr \in Ptr
  BY <1>1 DEF SendInv, WizTypes, CallShape, OneMessage, Sending, SendPcs, Pcs,
              SendOps, WithDma, CpuType
<1>3. PICK after \in SockType :
        /\ after = Copied(cpu.ptr) /\ after.ip = sock.ip
        /\ after.dport = sock.dport /\ after.sending = sock.sending
  BY <1>2, CopiedIs DEF SockType
<1>4. /\ frame' = "none" /\ sock' \in {sock, after}
      /\ faults' \in {faults, faults + 1} /\ Goto("send")
  BY <1>1, <1>3, WriteIs
<1>5. cpu' \in CpuType /\ cpu'.pc = "send" /\ cpu'.op = cpu.op
  BY <1>2, <1>4, GotoIs
<1>. QED  BY <1>1, <1>2, <1>3, <1>4, <1>5, SendKeeps

LEMMA TxStartStep == ASSUME SendInv, TxDmaStart PROVE SendInv'
<1>1. /\ cpu.pc = "tx_copy" /\ WithDma /\ UNCHANGED <<sock, rx, tx>>
      /\ dma' \in {"tx", "off"} /\ frame' \in {"data", "stray"}
      /\ faults' \in {faults, faults + 1}
      /\ cpu' = IF dma' = "tx" THEN [Idle EXCEPT !.ptr = cpu.ptr] ELSE Idle
  BY DEF TxDmaStart, Fault
<1>2. /\ accepted \in Messages /\ ~sock.sending.on
      /\ swallowed \/ sock.ip = Dest[accepted][1]
      /\ sock.dport = Dest[accepted][2]
      /\ sock \in SockType /\ cpu \in CpuType
  BY <1>1 DEF SendInv, WizTypes, OneMessage, Addressed, Sending, SendPcs
<1>3. cpu' \in CpuType /\ cpu'.pc = "idle" /\ cpu'.op = "none"
  BY <1>1, <1>2, IdleIs DEF CpuType
<1>4. WizTypes'
  BY <1>1, <1>2, <1>3 DEF SendInv, WizTypes, rx, tx
<1>5. CallShape'
  BY <1>3 DEF CallShape, SendPcs, RecvPcs, OpenPcs
<1>6. OneMessage' /\ Addressed'
  BY <1>1, <1>2, <1>3
     DEF OneMessage, Addressed, RightHost, Sending, SendPcs, tx
<1>. QED  BY <1>4, <1>5, <1>6 DEF SendInv

\* SEND takes the destination that the registers hold.
LEMMA SendsTo ==
  ASSUME NEW c \in SockType, ~c.sending.on
  PROVE  /\ SendCommand(c) \in SockType
         /\ SendCommand(c).sending.dst[1] = c.ip
         /\ SendCommand(c).sending.dst[2] = c.dport
<1>1. /\ SendCommand(c) \in SockType
      /\ SendCommand(c).sending =
           [dst |-> <<c.ip, c.dport>>, on |-> TRUE,
            data |-> Get(c.tx, c.txRd + 1, (c.txWr - c.txRd) % PtrSize)]
  BY TakenIs
<1>2. PICK s : s = SendCommand(c).sending
  OBVIOUS
<1>3. s.dst = <<c.ip, c.dport>>
  BY <1>1, <1>2
<1>4. s.dst[1] = c.ip /\ s.dst[2] = c.dport
  BY <1>3
<1>. QED  BY <1>1, <1>2, <1>4

LEMMA SendCommandStep == ASSUME SendInv, CommandSend PROVE SendInv'
<1>1. /\ cpu.pc = "send" /\ UNCHANGED <<dma, rx, tx>>
      /\ Write(SendCommand(sock), Goto("wait"), Goto("wait"))
  BY DEF CommandSend, Step
<1>2. /\ sock \in SockType /\ cpu \in CpuType /\ "wait" \in Pcs
      /\ cpu.op = "send" /\ accepted \in Messages
      /\ ~sock.sending.on
      /\ swallowed \/ sock.ip = Dest[accepted][1]
      /\ sock.dport = Dest[accepted][2]
  BY <1>1 DEF SendInv, WizTypes, CallShape, OneMessage, Addressed, Sending,
              SendPcs, Pcs
<1>3. PICK after \in SockType :
        /\ after = SendCommand(sock)
        /\ after.sending.dst[1] = sock.ip
        /\ after.sending.dst[2] = sock.dport
  BY <1>2, SendsTo
<1>4. /\ frame' = "none" /\ sock' \in {sock, after}
      /\ faults' \in {faults, faults + 1} /\ Goto("wait")
  BY <1>1, <1>3, WriteIs
<1>5. cpu' \in CpuType /\ cpu'.pc = "wait" /\ cpu'.op = cpu.op
  BY <1>2, <1>4, GotoIs
<1>6. WizTypes' /\ CallShape' /\ dma' = "off"
  BY <1>1, <1>2, <1>3, <1>4, <1>5, SendGoes DEF SendPcs, tx
<1>7. OneMessage' /\ Addressed'
  BY <1>1, <1>2, <1>3, <1>4, <1>5, <1>6
     DEF OneMessage, Addressed, RightHost, Sending, SendPcs, tx
<1>. QED  BY <1>6, <1>7 DEF SendInv

LEMMA AwaitStep == ASSUME SendInv, AwaitInterrupt PROVE SendInv'
<1>1. /\ cpu.pc = "wait" /\ UNCHANGED <<sock, frame, rx, tx, dma>>
      /\ faults' \in {faults, faults + 1}
      /\ Return(SendResult(sock.ir)) \/ Goto("wait")
  BY DEF AwaitInterrupt, Step, Fault
<1>2. /\ sock \in SockType /\ cpu \in CpuType /\ "wait" \in Pcs
      /\ cpu.op = "send" /\ accepted \in Messages
  BY <1>1 DEF SendInv, WizTypes, CallShape, OneMessage, SendPcs, Pcs
<1>3. /\ cpu' \in CpuType
      /\ \/ cpu'.pc = "wait" /\ cpu'.op = cpu.op
         \/ cpu'.pc = "idle" /\ cpu'.op = "none"
  BY <1>1, <1>2, GotoIs, ReturnIs
<1>4. WizTypes' /\ CallShape' /\ dma' = "off"
  BY <1>1, <1>2, <1>3, SendGoes DEF tx
<1>5. OneMessage' /\ Addressed'
  BY <1>1, <1>2, <1>3, <1>4
     DEF SendInv, OneMessage, Addressed, RightHost, Sending, SendPcs, tx
<1>. QED  BY <1>4, <1>5 DEF SendInv

LEMMA TxCompletes == ASSUME SendInv, TxDmaComplete PROVE SendInv'
<1>1. PICK held : held = IF frame = "data" THEN Copied(cpu.ptr) ELSE sock
  OBVIOUS
<1>2. /\ dma = "tx" /\ dma' = "off" /\ cpu' = Idle /\ frame' = "none"
      /\ sock' = SendCommand(held) \/ sock' = held
      /\ faults' \in {faults, faults + 1} /\ UNCHANGED <<rx, tx>>
  BY <1>1 DEF TxDmaComplete, Fault
<1>3. /\ accepted \in Messages /\ ~sock.sending.on /\ cpu.ptr \in Ptr
      /\ swallowed \/ sock.ip = Dest[accepted][1]
      /\ sock.dport = Dest[accepted][2]
      /\ sock \in SockType /\ cpu.pc = "idle"
  BY <1>2 DEF SendInv, WizTypes, CallShape, OneMessage, Addressed, Sending,
              SendPcs, CpuType
<1>4. /\ held \in SockType /\ held.ip = sock.ip /\ held.dport = sock.dport
      /\ held.sending = sock.sending
  BY <1>1, <1>3, CopiedIs DEF SockType
<1>5. /\ sock' \in SockType
      /\ sock'.sending.on
           => /\ sock'.sending.dst[1] = held.ip
              /\ sock'.sending.dst[2] = held.dport
  BY <1>2, <1>3, <1>4, SendsTo
<1>6. WizTypes'
  BY <1>2, <1>5, IdleIs DEF SendInv, WizTypes, rx, tx
<1>7. CallShape' /\ cpu'.pc = "idle"
  BY <1>2, IdleIs DEF CallShape, SendPcs, RecvPcs, OpenPcs
<1>8. OneMessage' /\ Addressed'
  BY <1>2, <1>3, <1>4, <1>5, <1>7
     DEF OneMessage, Addressed, RightHost, Sending, SendPcs, tx
<1>. QED  BY <1>6, <1>7, <1>8 DEF SendInv

\* The chip ends a transmission.
LEMMA EndIs ==
  ASSUME sock \in SockType, NEW flag \in {"SENDOK", "TIMEOUT"}, SendEnds(flag)
  PROVE  /\ sock' \in SockType /\ sock.sending.on
         /\ sock' = [sock EXCEPT !.sending = NoSend,
              !.ir = sock.ir \cup {flag},
              !.txRd = (sock.txRd + Len(sock.sending.data)) % PtrSize]
<1>1. PICK to \in Ptr : to = (sock.txRd + Len(sock.sending.data)) % PtrSize
  <2>1. sock.sending.data \in Seq(Octets) /\ sock.txRd \in Int
    BY DEF SockType, Transmission, Ptr
  <2>2. PICK x \in Int : x = sock.txRd + Len(sock.sending.data)
    BY <2>1
  <2>. QED  BY <2>2, PtrIs
<1>2. PICK ir \in SUBSET Ints : ir = sock.ir \cup {flag}
  BY DEF SockType, Ints
<1>3. NoSend \in Transmission
  BY DEF NoSend, NoDest, Transmission, Ips, Ports
<1>4. sock' = [sock EXCEPT !.sending = NoSend, !.ir = ir, !.txRd = to]
  BY <1>1, <1>2 DEF SendEnds
<1>5. sock' \in SockType
  BY <1>3, <1>4 DEF SockType
<1>. QED  BY <1>1, <1>2, <1>4, <1>5 DEF SendEnds

LEMMA EndsStep ==
  ASSUME SendInv, NEW flag \in {"SENDOK", "TIMEOUT"}, TransmissionEnds(flag)
  PROVE  SendInv'
<1>1. /\ SendEnds(flag) /\ UNCHANGED <<accepted, swallowed>>
      /\ UNCHANGED <<frame, cpu, dma, ret, faults, env, rx>>
  BY DEF TransmissionEnds
<1>2. /\ sock' \in SockType /\ sock.sending.on /\ ~sock'.sending.on
      /\ sock'.ip = sock.ip /\ sock'.dport = sock.dport
  <2>1. sock \in SockType
    BY DEF SendInv, WizTypes
  <2>2. PICK ir, to :
          /\ sock' \in SockType /\ sock.sending.on
          /\ sock' = [sock EXCEPT !.sending = NoSend, !.ir = ir, !.txRd = to]
    BY <1>1, <2>1, EndIs
  <2>3. sock'.sending = NoSend /\ sock'.ip = sock.ip
        /\ sock'.dport = sock.dport
    BY <2>1, <2>2 DEF SockType
  <2>. QED  BY <2>2, <2>3 DEF NoSend
<1>3. WizTypes' /\ CallShape'
  BY <1>1, <1>2 DEF SendInv, WizTypes, CallShape, rx
<1>4. OneMessage' /\ Addressed'
  BY <1>1, <1>2 DEF SendInv, OneMessage, Addressed, RightHost, Sending
<1>. QED  BY <1>3, <1>4 DEF SendInv

LEMMA SendInvStep ==
  ASSUME OneSendAtATime, SendInv, [Next]_vars
  PROVE  SendInv'
<1>1. CASE UNCHANGED vars
  <2>1. UNCHANGED <<sock, frame, cpu, dma, ret, faults, env, rx, tx>>
    BY <1>1 DEF vars
  <2>. QED  BY <2>1 DEF SendInv, WizTypes, CallShape, OneMessage, Addressed,
                        RightHost, Sending, rx, tx
<1>2. ASSUME NEW op \in {"send", "send_dma"}, NEW m \in Messages, Send(op, m)
      PROVE  SendInv'
  BY <1>2, SendBegins DEF SendOps
<1>3. ASSUME NEW op \in {"receive", "receive_dma"}, Receive(op)
      PROVE  SendInv'
  BY <1>3, ReceiveBegins DEF RecvOps
<1>4. CASE CpuStep
  BY <1>4, OpenSteps, ReceiveSteps, RxCompletes, TxCompletes, DstIpStep,
     DstPortStep, RoomStep, AdvanceTxStep, CopyStep, TxStartStep,
     SendCommandStep, AwaitStep
     DEF CpuStep, SendStep, DmaComplete
<1>. QED  BY <1>1, <1>2, <1>3, <1>4, OpenBegins, QueryStep, ClearStep,
             EndsStep, ArrivesStep DEF Next

LEMMA SendInvariance == ASSUME OneSendAtATime PROVE Spec => []SendInv
<1>1. Init => SendInv
  BY InitSendInv
<1>2. SendInv /\ [Next]_vars => SendInv'
  BY SendInvStep
<1>. QED  BY <1>1, <1>2, PTL DEF Spec

\* What the chip transmits goes to the port the send call named, and to its
\* address unless the write of the address went into a frame that a failed
\* start of a DMA transfer left open (wiz5500_udp_sendto_blocking :467, :471;
\* tx_data :398), also when a transaction fails.
THEOREM NoMessageAstray ==
  ASSUME OneSendAtATime
  PROVE  Spec => []RightHost
<1>1. SendInv => RightHost
  BY DEF SendInv, Addressed
<1>. QED  BY <1>1, SendInvariance, PTL

-----------------------------------------------------------------------------
(* A message leaves whole, and OK means that it left.                      *)

\* Until a transaction fails NSS is low only during a DMA transfer, and no
\* write is lost.
Framed == faults = 0 => ~swallowed /\ (dma = "off" => frame = "none")

LEMMA FramedKeeps ==
  ASSUME Framed, faults' = 0 => faults = 0, swallowed' \in {swallowed, FALSE},
         faults' = 0 => \/ dma' # "off" \/ frame' = "none"
                        \/ dma' = dma /\ frame' = frame
  PROVE  Framed'
BY DEF Framed

LEMMA WriteFramed ==
  ASSUME NEW after, NEW ACTION D, NEW ACTION F, Write(after, D, F),
         faults \in Nat
  PROVE  (faults' = 0 => faults = 0) /\ frame' = "none"
BY DEF Write, Fault

LEMMA FramedStep ==
  ASSUME SendInv, Framed, [Next]_vars
  PROVE  Framed'
<1>1. faults \in Nat
  BY DEF SendInv, WizTypes
<1>2. CASE UNCHANGED vars
  BY <1>2 DEF Framed, vars, tx
<1>3. ASSUME NEW op, CallBegins(op), swallowed' \in {swallowed, FALSE}
      PROVE  Framed'
  BY <1>3, FramedKeeps DEF CallBegins
<1>4. ASSUME NEW ints \in SUBSET Ints, ClearInterrupt(ints)
      PROVE  Framed'
  BY <1>1, <1>4, WriteFramed, FramedKeeps DEF ClearInterrupt, tx
<1>5. CASE SetDstIp
  <2>1. dma = "off"
    BY <1>5 DEF SendInv, CallShape, SetDstIp, Step, WizTypes
  <2>2. /\ faults' = 0 => faults = 0
        /\ frame' = "none" /\ swallowed' = (frame # "none")
    BY <1>1, <1>5, WriteFramed DEF SetDstIp
  <2>. QED  BY <2>1, <2>2 DEF Framed
<1>6. CASE OpenStep \/ SetDstPort \/ TxAdvance \/ TxCopy \/ CommandSend
           \/ RxAdvance \/ CommandRecv
  <2>1. (faults' = 0 => faults = 0) /\ frame' = "none"
    BY <1>1, <1>6, WriteFramed
       DEF OpenStep, SetMode, SetPort, CommandOpen, SetDstPort, TxAdvance,
           TxCopy, CommandSend, RxAdvance, CommandRecv
  <2>2. swallowed' = swallowed
    BY <1>6
       DEF OpenStep, SetMode, SetPort, CommandOpen, SetDstPort, TxAdvance,
           TxCopy, CommandSend, RxAdvance, CommandRecv, tx
  <2>. QED  BY <2>1, <2>2, FramedKeeps
<1>7. CASE TxRoom \/ RxSizeRead
  <2>1. faults' = faults /\ frame' = "none" /\ swallowed' = swallowed
    BY <1>7 DEF TxRoom, RxSizeRead, ReadForSure, tx
  <2>. QED  BY <2>1, FramedKeeps
<1>8. CASE TxDmaStart \/ RxDmaStart \/ RxCopy
  <2>1. /\ swallowed' = swallowed
        /\ \/ faults' = faults /\ (dma' # "off" \/ UNCHANGED <<dma, frame>>)
           \/ faults' = faults + 1
    BY <1>8 DEF TxDmaStart, RxDmaStart, RxCopy, Fault, tx
  <2>. QED  BY <1>1, <2>1, FramedKeeps
<1>9. CASE AwaitInterrupt
  <2>1. /\ faults' \in {faults, faults + 1} /\ frame' = frame
        /\ dma' = dma /\ swallowed' = swallowed
    BY <1>9 DEF AwaitInterrupt, Step, Fault, tx
  <2>. QED  BY <1>1, <2>1, FramedKeeps
<1>10. CASE DmaComplete
  <2>1. /\ faults' \in {faults, faults + 1} /\ frame' = "none"
        /\ swallowed' = swallowed
    BY <1>10 DEF DmaComplete, TxDmaComplete, RxDmaComplete, Fault, tx
  <2>. QED  BY <1>1, <2>1, FramedKeeps
<1>11. CASE CpuStep
  BY <1>5, <1>6, <1>7, <1>8, <1>9, <1>10, <1>11
     DEF CpuStep, SendStep, ReceiveStep
<1>12. ASSUME NEW op, NEW m, Send(op, m)
       PROVE  Framed'
  BY <1>3, <1>12 DEF Send
<1>13. ASSUME NEW op, Receive(op)
       PROVE  Framed'
  BY <1>3, <1>13 DEF Receive, tx
<1>14. CASE Open
  BY <1>3, <1>14 DEF Open, tx
<1>15. CASE Query
  BY <1>15, FramedKeeps DEF Query, tx
<1>16. ASSUME NEW flag, TransmissionEnds(flag)
       PROVE  Framed'
  BY <1>16, FramedKeeps DEF TransmissionEnds
<1>17. ASSUME NEW p, DatagramArrives(p)
       PROVE  Framed'
  BY <1>17, FramedKeeps DEF DatagramArrives, tx
<1>. QED  BY <1>2, <1>4, <1>11, <1>12, <1>13, <1>14, <1>15, <1>16, <1>17
          DEF Next

\* The messages fit in the transmit memory: the blocking call would send an
\* empty datagram in place of one that does not.
MessagesFit == \A m \in Messages : Length[m] <= TxSize

Load == Length[accepted]
Out  == <<Dest[accepted], Bytes(accepted)>>

\* Where the transmit pointers stand, and what lies between them.
Pointers ==
  /\ ~sock.sending.on /\ cpu.pc \notin {"tx_copy", "send"} /\ dma # "tx"
       => sock.txWr = sock.txRd
  /\ cpu.pc = "tx_advance" => cpu.ptr = sock.txWr
  /\ cpu.pc = "tx_copy" \/ dma = "tx" => cpu.ptr = sock.txRd
  /\ cpu.pc \in {"tx_copy", "send"} \/ dma = "tx" \/ sock.sending.on
       => sock.txWr = (sock.txRd + Load) % PtrSize

Contents ==
  /\ dma = "tx" => frame = "data"
  /\ cpu.pc = "send" => Get(sock.tx, sock.txRd + 1, Load) = Bytes(accepted)
  /\ sock.sending.on => sock.sending.data = Bytes(accepted)

Loaded == faults = 0 => Pointers /\ Contents

\* What the interrupt flags tell the blocking call.
Told ==
  "clear_first" \in Discipline =>
    /\ faults = 0 =>
         /\ cpu.op = "send" /\ cpu.pc \in SendPcs => "SENDOK" \notin sock.ir
         /\ cpu.pc = "wait" /\ "SENDOK" \in sock.ir => Out \in aired
    /\ OkMeansSent

LEMMA LoadIs ==
  ASSUME MessagesFit, accepted \in Messages
  PROVE  /\ Load \in 1 .. TxSize /\ TxSize \in Nat \ {0}
         /\ TxSize < PtrSize /\ PtrSize \in Nat \ {0}
         /\ Bytes(accepted) \in Seq(Octets) /\ Len(Bytes(accepted)) = Load
<1>1. accepted \in Payloads
  BY DEF Payloads
<1>2. /\ Length[accepted] \in Nat \ {0} /\ Bytes(accepted) \in Seq(Octets)
      /\ Len(Bytes(accepted)) = Length[accepted]
  BY <1>1, BytesType
<1>. QED  BY <1>2, ChipAssumption DEF ChipAssumption, MessagesFit, Load

\* What is put in a circular memory can be got there.
LEMMA PutGet ==
  ASSUME NEW S, NEW T \in Nat \ {0}, NEW mem \in [1 .. T -> S],
         NEW at \in Int, NEW data \in Seq(S), Len(data) <= T
  PROVE  Get(Put(mem, at + 1, data), at + 1, Len(data)) = data
<1>1. PICK n \in Nat : n = Len(data)
  OBVIOUS
<1>2. PICK new \in [1 .. T -> S] : new = Put(mem, at + 1, data)
  BY PutIs
<1>3. PICK got \in Seq(S) : got = Get(new, at + 1, n)
  BY GetIs
<1>4. Len(got) = n
  BY <1>3 DEF Get
<1>5. ASSUME NEW i \in 1 .. n
      PROVE  got[i] = data[i]
  <2>1. PICK j \in Int : j = i - 1 /\ j >= 0 /\ j < n /\ j >= n - T
    BY <1>1
  <2>2. PICK base \in Int : base = at /\ SamePlace(T, base, at)
    BY SamePlaceSelf
  <2>3. IsThere(T, mem, new, base, data)
    BY <1>2, <2>2, PutAt
  <2>4. j < Len(data) /\ j >= Len(data) - T
    BY <1>1, <2>1
  <2>5. new[((base + j) % T) + 1] = data[j + 1]
    BY <2>1, <2>3, <2>4 DEF IsThere
  <2>6. got[i] = new[((at + (i - 1)) % T) + 1]
    <3>1. GotFrom(T, new, at, n, got)
      BY <1>3, GetIs
    <3>. QED  BY <3>1 DEF GotFrom
  <2>. QED  BY <2>1, <2>2, <2>5, <2>6
<1>. QED  BY <1>1, <1>2, <1>3, <1>4, <1>5

LEMMA Apart ==
  ASSUME NEW T \in Nat \ {0}, NEW at \in Int, NEW n \in 0 .. T - 1
  PROVE  (((at + n) % T) - at) % T = n
<1>1. PICK p \in Int : p = at + n
  OBVIOUS
<1>2. PICK k \in Int, d \in Int : d = p - at /\ d = T * k + n
  <2>1. p - at = T * 0 + n
    BY <1>1
  <2>. QED  BY <2>1
<1>3. ((p % T) - at) % T = n
  BY <1>2, BehindIs
<1>. QED  BY <1>1, <1>3

\* The copy fills what the pointers enclose.
LEMMA CopiedWhole ==
  ASSUME MessagesFit, sock \in SockType, accepted \in Messages,
         NEW at \in Ptr, at = sock.txRd
  PROVE  /\ Copied(at) \in SockType
         /\ Copied(at) = [sock EXCEPT !.tx = Copied(at).tx]
         /\ Get(Copied(at).tx, sock.txRd + 1, Load) = Bytes(accepted)
<1>1. /\ Copied(at) \in SockType
      /\ Copied(at) = [sock EXCEPT !.tx = Copied(at).tx]
      /\ Copied(at).tx = Put(sock.tx, at + 1, Bytes(accepted))
  BY CopiedIs
<1>2. PICK mem, data : mem = sock.tx /\ data = Bytes(accepted)
  OBVIOUS
<1>3. /\ mem \in [1 .. TxSize -> Octets] /\ data \in Seq(Octets)
      /\ Len(data) = Load /\ Len(data) <= TxSize
      /\ TxSize \in Nat \ {0} /\ at \in Int
  BY <1>2, LoadIs DEF SockType, Memory, Ptr
<1>4. Get(Put(mem, at + 1, data), at + 1, Len(data)) = data
  BY <1>3, PutGet
<1>. QED  BY <1>1, <1>2, <1>3, <1>4

\* SEND takes what the pointers enclose.
LEMMA TakesWhole ==
  ASSUME MessagesFit, NEW c \in SockType, accepted \in Messages,
         ~c.sending.on, c.txWr = (c.txRd + Load) % PtrSize,
         Get(c.tx, c.txRd + 1, Load) = Bytes(accepted)
  PROVE  /\ SendCommand(c).sending.data = Bytes(accepted)
         /\ SendCommand(c).sending.on
         /\ SendCommand(c) = [c EXCEPT !.sending = SendCommand(c).sending]
<1>1. PICK at \in Int, n \in 0 .. PtrSize - 1 :
        at = c.txRd /\ n = Load /\ PtrSize \in Nat \ {0}
  BY LoadIs DEF SockType, Ptr
<1>2. (((at + n) % PtrSize) - at) % PtrSize = n
  BY <1>1, Apart
<1>3. (c.txWr - c.txRd) % PtrSize = Load
  BY <1>1, <1>2
<1>4. /\ SendCommand(c) = [c EXCEPT !.sending = SendCommand(c).sending]
      /\ SendCommand(c).sending =
           [dst |-> <<c.ip, c.dport>>, on |-> TRUE,
            data |-> Get(c.tx, c.txRd + 1, (c.txWr - c.txRd) % PtrSize)]
  BY TakenIs
<1>5. PICK s : s = SendCommand(c).sending
  OBVIOUS
<1>6. s.data = Get(c.tx, c.txRd + 1, Load) /\ s.on
  BY <1>3, <1>4, <1>5
<1>. QED  BY <1>4, <1>5, <1>6

\* A write of a bus that works.
LEMMA WriteWorks ==
  ASSUME NEW after, NEW ACTION D, NEW ACTION F, Write(after, D, F),
         frame = "none", faults \in Nat, faults' = 0
  PROVE  sock' = after /\ D /\ frame' = "none" /\ faults = 0
BY DEF Write, Fault

LEMMA AsideLoaded ==
  ASSUME Loaded, Told, Aside
  PROVE  Loaded' /\ Told'
<1>1. Loaded'
  BY DEF Loaded, Pointers, Contents, Load, Aside, SameTransmitter, tx,
         SendPcs
<1>2. Told'
  BY DEF Told, Out, OkMeansSent, Aside, tx
<1>. QED  BY <1>1, <1>2

LEMMA InitLoaded == Init => Loaded /\ Told
BY DEF Init, ChipInit, NoSend, Idle, Loaded, Pointers, Contents, Told,
       OkMeansSent, NoRet, SendPcs

LEMMA SendBeginsLoaded ==
  ASSUME OneSendAtATime, SendInv, Loaded,
         NEW m \in Messages, NEW op \in SendOps, Send(op, m)
  PROVE  Loaded' /\ Told'
<1>1. /\ CallBegins(op) /\ accepted' = m /\ ~sock.sending.on
      /\ "clear_first" \in Discipline /\ op = "send" => "SENDOK" \notin sock.ir
  BY DEF Send, Kept, OneSendAtATime
<1>2. /\ cpu.pc = "idle" /\ dma = "off" /\ dma' = "off" /\ sock' = sock
      /\ cpu'.pc = Start[op] /\ cpu'.op = op /\ ret' = NoRet
      /\ faults' = faults
  BY <1>1, BeginStep
<1>3. cpu'.pc = "dst_ip"
  BY <1>2 DEF Start, SendOps
<1>4. Loaded'
  BY <1>1, <1>2, <1>3 DEF Loaded, Pointers, Contents, Load
<1>5. Told'
  BY <1>1, <1>2, <1>3 DEF Told, OkMeansSent, NoRet, SendPcs
<1>. QED  BY <1>4, <1>5

LEMMA DestinationLoaded ==
  ASSUME SendInv, Framed, Loaded, Told, SetDstIp \/ SetDstPort
  PROVE  Loaded' /\ Told'
<1>1. /\ faults \in Nat /\ ~sock.sending.on /\ dma = "off"
      /\ sock \in SockType /\ cpu \in CpuType
      /\ "dst_port" \in Pcs /\ "tx_room" \in Pcs
  BY DEF SendInv, WizTypes, CallShape, OneMessage, Sending, SendPcs, Pcs,
         SetDstIp, SetDstPort, Step
<1>2. /\ UNCHANGED <<dma, accepted, aired>>
      /\ cpu.pc \in {"dst_ip", "dst_port"}
  BY DEF SetDstIp, SetDstPort, Step, tx
<1>3. \E after : \E pc \in {"dst_port", "tx_room"} :
        /\ after.sending = sock.sending /\ after.txRd = sock.txRd
        /\ after.txWr = sock.txWr /\ after.ir = sock.ir
        /\ Write(after, Goto(pc), Return("error"))
  <2>1. CASE SetDstIp
    <3>1. PICK after : after = [sock EXCEPT !.ip = Dest[accepted][1]]
      OBVIOUS
    <3>2. Write(after, Goto("dst_port"), Return("error"))
      BY <2>1, <3>1 DEF SetDstIp
    <3>. QED  BY <1>1, <3>1, <3>2 DEF SockType
  <2>2. CASE SetDstPort
    <3>1. PICK after : after = [sock EXCEPT !.dport = Dest[accepted][2]]
      OBVIOUS
    <3>2. Write(after, Goto("tx_room"), Return("error"))
      BY <2>2, <3>1 DEF SetDstPort
    <3>. QED  BY <1>1, <3>1, <3>2 DEF SockType
  <2>. QED  BY <2>1, <2>2
<1>4. ASSUME faults' = 0
      PROVE  /\ faults = 0 /\ cpu'.pc \in {"dst_port", "tx_room"}
             /\ cpu'.op = cpu.op /\ ret' = ret
             /\ UNCHANGED <<sock.sending, sock.txRd, sock.txWr, sock.ir>>
  <2>1. PICK after, pc :
          /\ pc \in {"dst_port", "tx_room"}
          /\ after.sending = sock.sending /\ after.txRd = sock.txRd
          /\ after.txWr = sock.txWr /\ after.ir = sock.ir
          /\ Write(after, Goto(pc), Return("error"))
    BY <1>3
  <2>2. faults = 0 /\ frame = "none"
    BY <1>1, <1>4, <2>1, WriteFramed DEF Framed
  <2>3. sock' = after /\ Goto(pc)
    BY <1>1, <1>4, <2>1, <2>2, WriteWorks
  <2>4. /\ cpu'.pc \in {"dst_port", "tx_room"} /\ cpu'.op = cpu.op
        /\ ret' = ret
    BY <1>1, <2>1, <2>3, GotoIs
  <2>. QED  BY <2>1, <2>2, <2>3, <2>4
<1>5. Loaded'
  BY <1>1, <1>2, <1>4 DEF Loaded, Pointers, Contents, Load
<1>6. Told'
  BY <1>1, <1>2, <1>4 DEF Told, Out, OkMeansSent, SendPcs
<1>. QED  BY <1>5, <1>6

\* On a working bus a message that fits always finds room.
LEMMA RoomLoaded ==
  ASSUME MessagesFit, SendInv, Loaded, Told, TxRoom
  PROVE  Loaded' /\ Told'
<1>1. /\ cpu.pc = "tx_room" /\ UNCHANGED <<dma, sock, faults, tx>>
      /\ sock \in SockType /\ cpu \in CpuType /\ accepted \in Messages
      /\ ~sock.sending.on /\ dma = "off"
  BY DEF TxRoom, Step, ReadForSure, SendInv, WizTypes, CallShape,
         OneMessage, Sending, SendPcs
<1>2. ASSUME faults' = 0
      PROVE  /\ faults = 0 /\ sock.txWr = sock.txRd /\ cpu'.pc = "tx_advance"
             /\ cpu'.op = cpu.op /\ cpu'.ptr = sock.txWr /\ ret' = ret
  <2>1. faults = 0 /\ sock.txWr = sock.txRd
    BY <1>1, <1>2 DEF Loaded, Pointers
  <2>2. TxFree(sock) = TxSize
    <3>1. PtrSize \in Nat \ {0} /\ TxSize \in Nat /\ sock.txRd \in Int
      BY <1>1, LoadIs DEF SockType, Ptr
    <3>2. PICK d : d = sock.txWr - sock.txRd /\ d = 0
      BY <2>1, <3>1
    <3>3. d % PtrSize = 0
      BY <3>1, <3>2
    <3>. QED  BY <3>1, <3>2, <3>3 DEF TxFree
  <2>3. ~(TxFree(sock) < Length[accepted])
    BY <1>1, <2>2, LoadIs DEF Load
  <2>4. /\ cpu' = [cpu EXCEPT !.pc = "tx_advance", !.ptr = sock.txWr]
        /\ ret' = ret
    BY <2>3 DEF TxRoom
  <2>. QED  BY <1>1, <2>1, <2>4 DEF CpuType
<1>3. Loaded'
  BY <1>1, <1>2 DEF Loaded, Pointers, Contents, Load
<1>4. Told'
  BY <1>1, <1>2 DEF Told, Out, OkMeansSent, SendPcs, tx
<1>. QED  BY <1>3, <1>4

LEMMA AdvanceLoaded ==
  ASSUME SendInv, Loaded, Told, TxAdvance
  PROVE  Loaded' /\ Told'
<1>. DEFINE to == (cpu.ptr + Length[accepted]) % PtrSize
            after == [sock EXCEPT !.txWr = to]
<1>1. /\ cpu.pc = "tx_advance" /\ UNCHANGED <<dma, tx>>
      /\ Write(after, Goto("tx_copy"), TxDataFails("error"))
  BY DEF TxAdvance, Step
<1>2. /\ sock \in SockType /\ cpu \in CpuType /\ "tx_copy" \in Pcs
      /\ ~sock.sending.on /\ dma = "off" /\ frame = "none" /\ faults \in Nat
      /\ cpu.op \in SendOps
  BY <1>1 DEF SendInv, WizTypes, CallShape, OneMessage, Sending, SendPcs, Pcs
<1>. HIDE DEF to
<1>3. /\ after.txWr = to /\ after.txRd = sock.txRd /\ after.ir = sock.ir
      /\ after.sending = sock.sending
  BY <1>2 DEF SockType
<1>. HIDE DEF after
<1>4. ASSUME faults' = 0
      PROVE  /\ faults = 0 /\ sock' = after /\ frame' = "none"
             /\ cpu'.pc = "tx_copy" /\ cpu'.op = cpu.op
             /\ cpu'.ptr = cpu.ptr /\ ret' = ret
             /\ cpu.ptr = sock.txRd /\ to = (sock.txRd + Load) % PtrSize
  <2>1. faults = 0 /\ sock' = after /\ Goto("tx_copy") /\ frame' = "none"
    BY <1>1, <1>2, <1>4, WriteWorks
  <2>2. /\ cpu'.pc = "tx_copy" /\ cpu'.op = cpu.op /\ cpu'.ptr = cpu.ptr
        /\ ret' = ret
    BY <1>2, <2>1, GotoIs
  <2>3. cpu.ptr = sock.txRd
    BY <1>1, <1>2, <2>1 DEF Loaded, Pointers
  <2>4. to = (sock.txRd + Load) % PtrSize
    BY <2>3 DEF to, Load
  <2>. QED  BY <2>1, <2>2, <2>3, <2>4
<1>5. Loaded'
  <2>. SUFFICES ASSUME faults' = 0 PROVE Pointers' /\ Contents'
    BY DEF Loaded
  <2>1. Load' = Load
    BY <1>1 DEF Load, tx
  <2>2. Pointers' /\ Contents'
    BY <1>1, <1>2, <1>3, <1>4, <2>1 DEF Pointers, Contents
  <2>. QED  BY <2>2
<1>6. Told'
  <2>. SUFFICES ASSUME "clear_first" \in Discipline PROVE Told'
    BY DEF Told
  <2>1. OkMeansSent'
    BY <1>1, <1>4 DEF Told, OkMeansSent, tx
  <2>2. ASSUME faults' = 0
        PROVE  cpu.op = "send" => "SENDOK" \notin sock'.ir
    BY <1>1, <1>3, <1>4, <2>2 DEF Told, SendPcs
  <2>. QED  BY <1>4, <2>1, <2>2 DEF Told
<1>. QED  BY <1>5, <1>6

LEMMA CopyLoaded ==
  ASSUME MessagesFit, SendInv, Loaded, Told, TxCopy
  PROVE  Loaded' /\ Told'
<1>1. /\ cpu.pc = "tx_copy" /\ UNCHANGED <<dma, tx>>
      /\ Write(Copied(cpu.ptr), Goto("send"), Goto("send"))
  BY DEF TxCopy
<1>2. /\ sock \in SockType /\ cpu \in CpuType /\ "send" \in Pcs
      /\ ~sock.sending.on /\ dma = "off" /\ frame = "none" /\ faults \in Nat
      /\ accepted \in Messages /\ cpu.ptr \in Ptr
  BY <1>1 DEF SendInv, WizTypes, CallShape, OneMessage, Sending, SendPcs, Pcs,
              CpuType
<1>3. PICK after : after = Copied(cpu.ptr)
  OBVIOUS
<1>4. ASSUME faults' = 0
      PROVE  /\ faults = 0 /\ sock' = after /\ frame' = "none"
             /\ cpu'.pc = "send" /\ cpu'.op = cpu.op /\ ret' = ret
             /\ sock.txWr = (sock.txRd + Load) % PtrSize
             /\ Get(after.tx, sock.txRd + 1, Load) = Bytes(accepted)
             /\ after = [sock EXCEPT !.tx = after.tx]
  <2>1. faults = 0 /\ sock' = after /\ Goto("send") /\ frame' = "none"
    BY <1>1, <1>2, <1>3, <1>4, WriteWorks
  <2>2. cpu'.pc = "send" /\ cpu'.op = cpu.op /\ ret' = ret
    BY <1>2, <2>1, GotoIs
  <2>3. cpu.ptr = sock.txRd /\ sock.txWr = (sock.txRd + Load) % PtrSize
    BY <1>1, <2>1 DEF Loaded, Pointers
  <2>4. /\ Get(after.tx, sock.txRd + 1, Load) = Bytes(accepted)
        /\ after = [sock EXCEPT !.tx = after.tx]
    BY <1>2, <1>3, <2>3, CopiedWhole
  <2>. QED  BY <2>1, <2>2, <2>3, <2>4
<1>5. ASSUME faults' = 0
      PROVE  /\ UNCHANGED <<sock.txRd, sock.txWr, sock.sending, sock.ir>>
             /\ sock'.tx = after.tx
  BY <1>2, <1>4, <1>5 DEF SockType
<1>6. Loaded'
  <2>. SUFFICES ASSUME faults' = 0 PROVE Pointers' /\ Contents'
    BY DEF Loaded
  <2>1. Load' = Load /\ accepted' = accepted
    BY <1>1 DEF Load, tx
  <2>2. Pointers'
    BY <1>1, <1>2, <1>4, <1>5, <2>1 DEF Pointers
  <2>3. Contents'
    BY <1>1, <1>2, <1>4, <1>5, <2>1 DEF Contents
  <2>. QED  BY <2>2, <2>3
<1>7. Told'
  BY <1>1, <1>4, <1>5 DEF Told, Out, OkMeansSent, SendPcs, tx
<1>. QED  BY <1>6, <1>7

LEMMA TxStartLoaded ==
  ASSUME SendInv, Loaded, Told, TxDmaStart
  PROVE  Loaded' /\ Told'
<1>1. /\ cpu.pc = "tx_copy" /\ WithDma /\ UNCHANGED <<sock, rx, tx>>
      /\ \/ UNCHANGED faults /\ dma' = "tx" /\ frame' = "data"
         \/ faults' = faults + 1
      /\ ret'[1] = cpu.op
      /\ cpu' = IF dma' = "tx" THEN [Idle EXCEPT !.ptr = cpu.ptr] ELSE Idle
  BY DEF TxDmaStart, Fault
<1>2. /\ cpu.op # "send" /\ faults \in Nat /\ ~sock.sending.on
      /\ cpu'.pc = "idle"
      /\ dma' = "tx" => cpu'.ptr = cpu.ptr
  BY <1>1 DEF SendInv, WizTypes, WithDma, OneMessage, Sending, SendPcs, Idle
<1>3. Loaded'
  BY <1>1, <1>2 DEF Loaded, Pointers, Contents, Load, tx
<1>4. Told'
  BY <1>1, <1>2 DEF Told, OkMeansSent, SendPcs
<1>. QED  BY <1>3, <1>4

LEMMA TxCompletesLoaded ==
  ASSUME MessagesFit, SendInv, Loaded, Told, TxDmaComplete
  PROVE  Loaded' /\ Told'
<1>1. PICK held : held = IF frame = "data" THEN Copied(cpu.ptr) ELSE sock
  OBVIOUS
<1>2. /\ dma = "tx" /\ dma' = "off" /\ cpu' = Idle /\ UNCHANGED <<ret, tx>>
      /\ \/ sock' = SendCommand(held) /\ faults' = faults
         \/ faults' = faults + 1
  BY <1>1 DEF TxDmaComplete, Fault
<1>3. /\ accepted \in Messages /\ ~sock.sending.on /\ cpu.ptr \in Ptr
      /\ sock \in SockType /\ faults \in Nat /\ cpu'.pc = "idle"
  BY <1>2, IdleIs DEF SendInv, WizTypes, OneMessage, Sending, CpuType
<1>4. ASSUME faults' = 0
      PROVE  /\ faults = 0 /\ sock'.sending.on
             /\ sock'.sending.data = Bytes(accepted)
             /\ sock'.txWr = (sock'.txRd + Load) % PtrSize
  <2>1. /\ faults = 0 /\ sock' = SendCommand(held) /\ held = Copied(cpu.ptr)
        /\ cpu.ptr = sock.txRd /\ sock.txWr = (sock.txRd + Load) % PtrSize
    BY <1>1, <1>2, <1>3, <1>4 DEF Loaded, Pointers, Contents
  <2>2. /\ held \in SockType /\ held = [sock EXCEPT !.tx = held.tx]
        /\ Get(held.tx, sock.txRd + 1, Load) = Bytes(accepted)
    BY <1>3, <2>1, CopiedWhole
  <2>3. /\ held.txRd = sock.txRd /\ held.txWr = sock.txWr
        /\ ~held.sending.on
    BY <1>3, <2>2 DEF SockType
  <2>4. /\ sock'.sending.data = Bytes(accepted) /\ sock'.sending.on
        /\ sock' = [held EXCEPT !.sending = sock'.sending]
    BY <1>3, <2>1, <2>2, <2>3, TakesWhole
  <2>5. sock'.txRd = sock.txRd /\ sock'.txWr = sock.txWr
    BY <2>2, <2>3, <2>4 DEF SockType
  <2>. QED  BY <2>1, <2>4, <2>5
<1>5. Loaded'
  BY <1>2, <1>3, <1>4 DEF Loaded, Pointers, Contents, Load, tx
<1>6. Told'
  BY <1>2, <1>3, <1>4 DEF Told, OkMeansSent, SendPcs, tx
<1>. QED  BY <1>5, <1>6

LEMMA CommandLoaded ==
  ASSUME MessagesFit, SendInv, Loaded, Told, CommandSend
  PROVE  Loaded' /\ Told'
<1>1. /\ cpu.pc = "send" /\ UNCHANGED <<dma, tx>>
      /\ Write(SendCommand(sock), Goto("wait"), Goto("wait"))
  BY DEF CommandSend, Step
<1>2. /\ sock \in SockType /\ cpu \in CpuType /\ "wait" \in Pcs
      /\ ~sock.sending.on /\ dma = "off" /\ frame = "none" /\ faults \in Nat
      /\ accepted \in Messages /\ cpu.op = "send"
  BY <1>1 DEF SendInv, WizTypes, CallShape, OneMessage, Sending, SendPcs, Pcs
<1>3. ASSUME faults' = 0
      PROVE  /\ faults = 0 /\ cpu'.pc = "wait" /\ ret' = ret
             /\ sock'.sending.on /\ sock'.sending.data = Bytes(accepted)
             /\ sock'.txWr = (sock'.txRd + Load) % PtrSize
             /\ sock'.ir = sock.ir
  <2>1. /\ faults = 0 /\ sock' = SendCommand(sock) /\ Goto("wait")
    BY <1>1, <1>2, <1>3, WriteWorks
  <2>2. cpu'.pc = "wait" /\ ret' = ret
    BY <1>2, <2>1, GotoIs
  <2>3. /\ Get(sock.tx, sock.txRd + 1, Load) = Bytes(accepted)
        /\ sock.txWr = (sock.txRd + Load) % PtrSize
    BY <1>1, <2>1 DEF Loaded, Pointers, Contents
  <2>4. /\ sock'.sending.data = Bytes(accepted) /\ sock'.sending.on
        /\ sock' = [sock EXCEPT !.sending = sock'.sending]
    BY <1>2, <2>1, <2>3, TakesWhole
  <2>5. UNCHANGED <<sock.txRd, sock.txWr, sock.ir>>
    BY <1>2, <2>4 DEF SockType
  <2>. QED  BY <2>1, <2>2, <2>3, <2>4, <2>5
<1>4. Loaded'
  BY <1>1, <1>2, <1>3 DEF Loaded, Pointers, Contents, Load, tx
<1>5. Told'
  BY <1>1, <1>2, <1>3 DEF Told, Out, OkMeansSent, SendPcs, tx
<1>. QED  BY <1>4, <1>5

LEMMA AwaitLoaded ==
  ASSUME SendInv, Loaded, Told, AwaitInterrupt
  PROVE  Loaded' /\ Told'
<1>1. /\ cpu.pc = "wait" /\ UNCHANGED <<sock, frame, tx, dma>>
      /\ \/ Return(SendResult(sock.ir)) /\ faults' = faults
         \/ faults' = faults + 1
  BY DEF AwaitInterrupt, Step, Fault
<1>2. faults \in Nat /\ dma = "off" /\ cpu.op = "send"
  BY <1>1 DEF SendInv, WizTypes, CallShape
<1>3. ASSUME faults' = 0
      PROVE  /\ faults = 0 /\ cpu'.pc = "idle"
             /\ ret' = <<"send", SendResult(sock.ir)>>
  BY <1>1, <1>2, <1>3, ReturnIs
<1>4. Loaded'
  BY <1>1, <1>2, <1>3 DEF Loaded, Pointers, Contents, Load, tx
<1>5. Told'
  <2>. SUFFICES ASSUME "clear_first" \in Discipline PROVE Told'
    BY DEF Told
  <2>1. ASSUME faults' = 0, ret' = <<"send", "ok">>
        PROVE  Out' \in aired'
    <3>1. SendResult(sock.ir) = "ok"
      BY <1>3, <2>1
    <3>2. "SENDOK" \in sock.ir
      BY <3>1 DEF SendResult
    <3>. QED  BY <1>1, <1>3, <2>1, <3>2 DEF Told, Out, tx
  <2>. QED  BY <1>3, <2>1 DEF Told, OkMeansSent, Out, SendPcs
<1>. QED  BY <1>4, <1>5

\* The chip's read pointer ends where the next message begins.
LEMMA EndsLoaded ==
  ASSUME MessagesFit, SendInv, Framed, Loaded, Told,
         NEW flag \in {"SENDOK", "TIMEOUT"}, TransmissionEnds(flag)
  PROVE  Loaded' /\ Told'
<1>1. /\ SendEnds(flag) /\ accepted' = accepted
      /\ UNCHANGED <<frame, cpu, dma, ret, faults>>
      /\ flag = "SENDOK" =>
           aired' = aired \cup {<<sock.sending.dst, sock.sending.data>>}
      /\ aired \subseteq aired'
  BY DEF TransmissionEnds
<1>2. sock \in SockType
  BY DEF SendInv, WizTypes
<1>3. PICK ir, to :
        /\ sock' \in SockType /\ sock.sending.on
        /\ ir = sock.ir \cup {flag}
        /\ to = (sock.txRd + Len(sock.sending.data)) % PtrSize
        /\ sock' = [sock EXCEPT !.sending = NoSend, !.ir = ir, !.txRd = to]
  BY <1>1, <1>2, EndIs
<1>4. /\ sock'.txRd = to /\ sock'.txWr = sock.txWr /\ ~sock'.sending.on
      /\ sock'.ir = ir
  BY <1>2, <1>3 DEF SockType, NoSend
<1>5. accepted \in Messages /\ cpu.pc \notin SendPcs /\ dma # "tx"
  BY <1>3 DEF SendInv, OneMessage, Sending
<1>6. ASSUME faults = 0
      PROVE  /\ sock.sending.data = Bytes(accepted)
             /\ sock.txWr = (sock.txRd + Load) % PtrSize
             /\ sock.sending.dst = Dest[accepted]
  <2>1. /\ sock.sending.data = Bytes(accepted)
        /\ sock.txWr = (sock.txRd + Load) % PtrSize
    BY <1>3, <1>6 DEF Loaded, Pointers, Contents
  <2>2. PICK d, e : d = sock.sending.dst /\ e = Dest[accepted]
    OBVIOUS
  <2>3. d[1] = e[1] /\ d[2] = e[2]
    BY <1>3, <1>6, <2>2 DEF Framed, SendInv, Addressed, RightHost
  <2>4. d = <<d[1], d[2]>> /\ e = <<e[1], e[2]>>
    BY <1>2, <1>5, <2>2, ChipAssumption
       DEF ChipAssumption, SockType, Transmission
  <2>. QED  BY <2>1, <2>2, <2>3, <2>4
<1>7. faults = 0 => sock'.txWr = sock'.txRd
  BY <1>3, <1>4, <1>5, <1>6, LoadIs
<1>8. Loaded'
  BY <1>1, <1>4, <1>5, <1>7 DEF Loaded, Pointers, Contents, SendPcs
<1>9. Told'
  <2>. SUFFICES ASSUME "clear_first" \in Discipline PROVE Told'
    BY DEF Told
  <2>1. faults = 0 /\ "SENDOK" \in ir /\ cpu.pc = "wait" => Out \in aired'
    BY <1>1, <1>3, <1>5, <1>6 DEF Told, Out
  <2>2. OkMeansSent'
    BY <1>1 DEF Told, OkMeansSent
  <2>. QED  BY <1>1, <1>4, <1>5, <2>1, <2>2 DEF Told, Out
<1>. QED  BY <1>8, <1>9

LEMMA ArrivesLoaded ==
  ASSUME SendInv, Loaded, Told, NEW p \in Packets, DatagramArrives(p)
  PROVE  Loaded' /\ Told'
<1>1. /\ Arrives(p) /\ UNCHANGED <<frame, cpu, dma, ret, faults, tx>>
      /\ sock \in SockType
  BY DEF DatagramArrives, SendInv, WizTypes
<1>2. PICK mem, to, ir :
        /\ sock' \in SockType /\ ir = sock.ir \cup {"RECV"}
        /\ sock' = [sock EXCEPT !.rx = mem, !.rxWr = to, !.ir = ir]
  BY <1>1, ArrivalIs
<1>3. /\ UNCHANGED <<sock.tx, sock.txRd, sock.txWr, sock.sending>>
      /\ "SENDOK" \in sock'.ir => "SENDOK" \in sock.ir
  BY <1>1, <1>2 DEF SockType
<1>4. Loaded'
  BY <1>1, <1>3 DEF Loaded, Pointers, Contents, Load, tx
<1>5. Told'
  BY <1>1, <1>3 DEF Told, Out, OkMeansSent, tx
<1>. QED  BY <1>4, <1>5

LEMMA LoadedStep ==
  ASSUME OneSendAtATime, MessagesFit,
         SendInv, Framed, Loaded, Told, [Next]_vars
  PROVE  Loaded' /\ Told'
<1>1. CASE UNCHANGED vars
  <2>1. UNCHANGED <<sock, frame, cpu, dma, ret, faults, tx>>
    BY <1>1 DEF vars
  <2>. QED  BY <2>1 DEF Loaded, Pointers, Contents, Load, Told, Out,
                        OkMeansSent, tx
<1>2. ASSUME NEW op \in {"send", "send_dma"}, NEW m \in Messages, Send(op, m)
      PROVE  Loaded' /\ Told'
  BY <1>2, SendBeginsLoaded DEF SendOps
<1>3. ASSUME NEW op \in {"receive", "receive_dma"}, Receive(op)
      PROVE  Loaded' /\ Told'
  BY <1>3, ReceiveBegins, AsideLoaded DEF RecvOps
<1>4. CASE CpuStep
  <2>1. CASE OpenStep \/ ReceiveStep \/ RxDmaComplete
    BY <2>1, OpenSteps, ReceiveSteps, RxCompletes, AsideLoaded
  <2>2. CASE SendStep \/ TxDmaComplete
    BY <2>2, DestinationLoaded, RoomLoaded, AdvanceLoaded, CopyLoaded,
       TxStartLoaded, CommandLoaded, AwaitLoaded, TxCompletesLoaded
       DEF SendStep
  <2>. QED  BY <1>4, <2>1, <2>2 DEF CpuStep, DmaComplete
<1>5. CASE Open \/ Query \/ \E ints \in SUBSET Ints : ClearInterrupt(ints)
  BY <1>5, OpenBegins, QueryStep, ClearStep, AsideLoaded
<1>. QED  BY <1>1, <1>2, <1>3, <1>4, <1>5, EndsLoaded, ArrivesLoaded
          DEF Next

LEMMA LoadedInvariance ==
  ASSUME OneSendAtATime, MessagesFit
  PROVE  Spec => [](Loaded /\ Told)
<1>1. Init => Framed /\ Loaded /\ Told
  BY InitLoaded DEF Init, Framed
<1>2. SendInv /\ Framed /\ [Next]_vars => Framed'
  BY FramedStep
<1>3. SendInv /\ Framed /\ Loaded /\ Told /\ [Next]_vars
        => (Loaded /\ Told)'
  BY LoadedStep
<1>. QED  BY <1>1, <1>2, <1>3, SendInvariance, PTL DEF Spec

\* On a working bus the chip transmits the message and nothing else: the
\* write pointer, the copy and SEND work together (tx_data :374).
THEOREM MessageWhole ==
  ASSUME OneSendAtATime, MessagesFit
  PROVE  Spec => []SentWhole
<1>1. Loaded => SentWhole
  BY DEF Loaded, Contents, SentWhole
<1>. QED  BY <1>1, LoadedInvariance, PTL

\* A blocking send that returns OK has aired its message during the call,
\* whatever else sets interrupt flags meanwhile (:482, :486).
THEOREM OkIsTrue ==
  ASSUME OneSendAtATime, "clear_first" \in Discipline, MessagesFit
  PROVE  Spec => []OkMeansSent
<1>1. Told => OkMeansSent
  BY DEF Told
<1>. QED  BY <1>1, LoadedInvariance, PTL

-----------------------------------------------------------------------------
(* The datagrams in the receive memory.                                    *)

Size(p) == HeaderSize + Length[p]

\* The bytes of the datagrams w, of which there are two at most.
Held(w) ==
  IF w = <<>> THEN 0
  ELSE IF Len(w) = 1 THEN Size(w[1]) ELSE Size(w[1]) + Size(w[2])

\* The pointer n bytes behind at.
Past(at, n) == (at + n) % PtrSize

\* They are in a memory one after the other, from pointer at on.
StoredAt(mem, at, p) == Get(mem, at + 1, Size(p)) = Stored(p)
Holds(mem, at, w) ==
  /\ Len(w) >= 1 => StoredAt(mem, at, w[1])
  /\ Len(w) = 2 => StoredAt(mem, Past(at, Size(w[1])), w[2])

LEMMA SizeIs ==
  ASSUME NEW p \in Packets
  PROVE  /\ Size(p) \in Nat /\ Length[p] \in Nat \ {0}
         /\ Size(p) = 8 + Length[p] /\ HeaderSize = 8
         /\ Stored(p) \in Seq(Octets) /\ Len(Stored(p)) = Size(p)
         /\ p \in Payloads
<1>1. p \in Payloads
  BY DEF Payloads
<1>. QED  BY <1>1, BytesType DEF Size

LEMMA RxSizes ==
  /\ RxSize \in Nat \ {0} /\ PtrSize \in Nat \ {0} /\ RxSize < PtrSize
  /\ PtrSize % RxSize = 0
BY ChipAssumption DEF ChipAssumption

\* A pointer and its distance from another one select the same byte.
LEMMA SamePlaceLater ==
  ASSUME NEW T \in Nat \ {0}, NEW P \in Nat \ {0}, P % T = 0, NEW x \in Int
  PROVE  SamePlace(T, x, x % P)
<1>1. PICK q \in Int, r \in 0 .. P - 1 : x = P * q + r /\ r = x % P
  BY Quotient
<1>2. PICK m \in Int : P = T * m
  <2>1. P = T * (P \div T) + (P % T) /\ P \div T \in Int
    BY Quotient
  <2>2. PICK d \in Int : d = P \div T
    BY <2>1
  <2>3. P = T * d
    BY <2>1, <2>2
  <2>. QED  BY <2>3
<1>3. x - r = T * (m * q)
  BY <1>1, <1>2
<1>4. m * q \in Int
  OBVIOUS
<1>. QED  BY <1>1, <1>3, <1>4 DEF SamePlace

\* The datagram in front of the one that is put stays.
LEMMA PutKeeps ==
  ASSUME NEW memory \in Memory(RxSize), NEW at \in Int, NEW q \in Packets,
         NEW p \in Packets, Size(q) + Size(p) <= RxSize,
         StoredAt(memory, at, q), NEW to, to = Past(at, Size(q)),
         NEW after, after = Put(memory, to + 1, Stored(p))
  PROVE  StoredAt(after, at, q)
<1>12. PICK S, T, P, n, mem, data :
         /\ T = RxSize /\ P = PtrSize /\ S = Octets
         /\ n = Size(q) /\ data = Stored(p) /\ mem = memory
  OBVIOUS
<1>13. /\ T \in Nat \ {0} /\ P \in Nat \ {0} /\ P % T = 0 /\ n \in Nat
       /\ mem \in [1 .. T -> S] /\ data \in Seq(S) /\ n + Len(data) <= T
  BY <1>12, RxSizes, SizeIs DEF Memory
<1>14. to = (at + n) % P
  BY <1>12 DEF Past
<1>1. PICK base \in Int : base = at + n
  BY <1>13
<1>2. SamePlace(T, base, to) /\ to \in Int
  <2>1. to = base % P
    BY <1>1, <1>14
  <2>4. T \in Nat \ {0} /\ P \in Nat \ {0} /\ P % T = 0
    BY <1>13
  <2>2. SamePlace(T, base, base % P)
    BY <2>4, SamePlaceLater
  <2>3. base % P \in Int
    BY <2>4, Quotient
  <2>. QED  BY <2>1, <2>2, <2>3
<1>3. Len(data) \in Nat /\ Len(data) <= T
  BY <1>13
<1>4. PICK new \in [1 .. T -> S] : new = Put(mem, to + 1, data)
  BY <1>2, <1>13, PutIs
<1>5. IsThere(T, mem, new, base, data)
  BY <1>1, <1>2, <1>3, <1>4, <1>13, PutAt
<1>6. ASSUME NEW i \in 1 .. n
      PROVE  new[((at + (i - 1)) % T) + 1] = mem[((at + (i - 1)) % T) + 1]
  <2>1. PICK j \in Int : j = (i - 1) - n
    BY <1>13
  <2>2. j < 0 /\ j < Len(data) /\ j >= Len(data) - T
    BY <1>3, <1>13, <2>1
  <2>3. new[((base + j) % T) + 1] = mem[((base + j) % T) + 1]
    BY <1>5, <2>2 DEF IsThere
  <2>4. base + j = at + (i - 1)
    BY <1>1, <1>13, <2>1
  <2>. QED  BY <2>3, <2>4
<1>7. PICK a \in Seq(S) : a = Get(new, at + 1, n)
  BY <1>4, <1>13, GetIs
<1>8. PICK b \in Seq(S) : b = Get(mem, at + 1, n)
  BY <1>13, GetIs
<1>9. Len(a) = n /\ Len(b) = n
  BY <1>7, <1>8, <1>13 DEF Get
<1>10. GotFrom(T, new, at, n, a) /\ GotFrom(T, mem, at, n, b)
  BY <1>4, <1>13, <1>7, <1>8, GetIs
<1>11. ASSUME NEW i \in 1 .. n
       PROVE  a[i] = b[i]
  BY <1>6, <1>10 DEF GotFrom
<1>15. a = b
  BY <1>7, <1>8, <1>9, <1>11
<1>. QED  BY <1>4, <1>7, <1>8, <1>12, <1>15 DEF StoredAt

\* Behind its header a datagram is the payload.
LEMMA BehindHeader ==
  ASSUME NEW mem \in Memory(RxSize), NEW at \in Int, NEW p \in Packets,
         StoredAt(mem, at, p), NEW from, from = Past(at, HeaderSize)
  PROVE  Get(mem, from + 1, Length[p]) = Bytes(p)
<1>1. PICK T \in Nat \ {0}, P \in Nat \ {0}, n \in Nat :
        T = RxSize /\ P = PtrSize /\ P % T = 0 /\ n = Length[p]
  BY RxSizes, SizeIs
<1>2. mem \in [1 .. T -> Octets]
  BY <1>1 DEF Memory
<1>3. at + 8 \in Int /\ from = (at + 8) % P
  BY <1>1, SizeIs DEF Past
<1>4. from \in Int
  BY <1>3, Quotient
<1>5. PICK a \in Seq(Octets) : a = Get(mem, from + 1, n)
  BY <1>2, <1>4, GetIs
<1>6. PICK m \in Nat : m = Size(p) /\ m = 8 + n
  BY <1>1, SizeIs
<1>7. PICK b : b = Get(mem, at + 1, m) /\ b = Stored(p)
  BY <1>6 DEF StoredAt
<1>8. Len(a) = n
  BY <1>5 DEF Get
<1>11. GotFrom(T, mem, from, n, a) /\ GotFrom(T, mem, at, m, b)
  BY <1>2, <1>4, <1>5, <1>7, GetIs
<1>9. ASSUME NEW i \in 1 .. n
      PROVE  a[i] = Bytes(p)[i]
  <2>1. a[i] = mem[((from + (i - 1)) % T) + 1]
    BY <1>11 DEF GotFrom
  <2>2. (((at + 8) % P) + (i - 1)) % T = ((at + 8) + (i - 1)) % T
    <3>1. PICK x \in Int, y \in Int : x = at + 8 /\ y = i - 1
      OBVIOUS
    <3>2. T \in Nat \ {0} /\ P \in Nat \ {0} /\ P % T = 0
      BY <1>1
    <3>3. x \in Int /\ y \in Int
      BY <3>1
    <3>4. ((x % P) + y) % T = (x + y) % T
      BY <3>2, <3>3, EarlierModulo, Zenon
    <3>. QED  BY <3>1, <3>4
  <2>3. PICK j \in 1 .. m : j = 8 + i
    BY <1>6
  <2>4. b[j] = mem[((at + (j - 1)) % T) + 1]
    BY <1>11 DEF GotFrom
  <2>5. (at + 8) + (i - 1) = at + (j - 1)
    BY <2>3
  <2>6. a[i] = b[j]
    BY <1>3, <2>1, <2>2, <2>4, <2>5
  <2>7. /\ Stored(p)[j] = <<p, j - 1 - HeaderSize>>
        /\ Bytes(p)[i] = <<p, i - 1>> /\ HeaderSize = 8
    <3>1. p \in Payloads /\ HeaderSize = 8
      BY SizeIs
    <3>2. /\ \A k \in 1 .. Length[p] : Bytes(p)[k] = <<p, k - 1>>
          /\ \A k \in 1 .. HeaderSize + Length[p] :
               Stored(p)[k] = <<p, k - 1 - HeaderSize>>
      BY <3>1, BytesType
    <3>3. HeaderSize + Length[p] = m
      BY <1>1, <1>6, <3>1
    <3>. QED  BY <1>1, <3>1, <3>2, <3>3
  <2>8. j - 1 - 8 = i - 1
    BY <2>3
  <2>. QED  BY <1>7, <2>6, <2>7, <2>8
<1>10. /\ Bytes(p) \in Seq(Octets) /\ Len(Bytes(p)) = n
  BY <1>1, SizeIs, BytesType
<1>. QED  BY <1>1, <1>5, <1>8, <1>9, <1>10

LEMMA PastIs ==
  ASSUME NEW at \in Int, NEW n \in Int
  PROVE  Past(at, n) \in Ptr /\ Past(at, n) \in Int
<1>1. at + n \in Int
  OBVIOUS
<1>. QED  BY <1>1, PtrIs DEF Past, Ptr

LEMMA PastPast ==
  ASSUME NEW at \in Int, NEW n \in Int, NEW m \in Int
  PROVE  Past(Past(at, n), m) = Past(at, n + m)
<1>1. PICK x \in Int : x = at + n
  OBVIOUS
<1>2. PtrSize \in Nat \ {0}
  BY RxSizes
<1>3. ((x % PtrSize) + m) % PtrSize = (x + m) % PtrSize
  BY <1>2, Earlier, Zenon
<1>4. x + m = at + (n + m)
  BY <1>1
<1>. QED  BY <1>1, <1>3, <1>4 DEF Past

LEMMA PastZero ==
  ASSUME NEW at \in Ptr
  PROVE  Past(at, 0) = at
<1>1. at + 0 = at /\ at \in 0 .. PtrSize - 1 /\ PtrSize \in Nat \ {0}
  BY RxSizes DEF Ptr
<1>. QED  BY <1>1, SmallIs DEF Past

LEMMA PastBack ==
  ASSUME NEW at \in Int, NEW n \in Nat, n < PtrSize
  PROVE  (Past(at, n) - at) % PtrSize = n
<1>1. PtrSize \in Nat \ {0} /\ n \in 0 .. PtrSize - 1
  BY RxSizes
<1>2. (((at + n) % PtrSize) - at) % PtrSize = n
  BY <1>1, Apart, Zenon
<1>. QED  BY <1>2 DEF Past

LEMMA Distance ==
  ASSUME NEW a \in Ptr, NEW b \in Ptr
  PROVE  Past(b, (a - b) % PtrSize) = a /\ (a - b) % PtrSize \in Nat
<1>1. PtrSize \in Nat \ {0} /\ a \in 0 .. PtrSize - 1 /\ b \in Int
  BY RxSizes DEF Ptr
<1>2. PICK x \in Int : x = a - b
  BY <1>1
<1>3. (x % PtrSize) + b \in Int /\ x % PtrSize \in Nat
  BY <1>1, Quotient
<1>4. ((x % PtrSize) + b) % PtrSize = (x + b) % PtrSize
  BY <1>1, Earlier, Zenon
<1>5. PICK d \in Nat : d = x % PtrSize
  BY <1>3
<1>6. x + b = a /\ d + b = b + d
  BY <1>1, <1>2
<1>7. a % PtrSize = a
  BY <1>1, SmallIs
<1>. QED  BY <1>2, <1>4, <1>5, <1>6, <1>7 DEF Past

LEMMA AtMostTwo ==
  ASSUME NEW S, NEW w \in Seq(S), Len(w) <= 2
  PROVE  w = <<>> \/ Len(w) = 1 \/ Len(w) = 2
<1>1. PICK n \in Nat : n = Len(w)
  BY LenProperties
<1>2. n = 0 \/ n = 1 \/ n = 2
  BY <1>1
<1>. QED  BY <1>1, <1>2, EmptySeq

LEMMA Single ==
  ASSUME NEW S, NEW w \in Seq(S), Len(w) = 1
  PROVE  w # <<>> /\ w[1] \in S /\ Tail(w) = <<>>
<1>1. w # <<>> /\ w[1] \in S
  BY ElementOfSeq, EmptySeq
<1>2. Tail(w) \in Seq(S) /\ Len(Tail(w)) = 0
  BY <1>1, HeadTailProperties
<1>. QED  BY <1>1, <1>2, EmptySeq

LEMMA Pair ==
  ASSUME NEW S, NEW w \in Seq(S), Len(w) = 2
  PROVE  /\ w # <<>> /\ w[1] \in S /\ w[2] \in S
         /\ Tail(w) \in Seq(S) /\ Len(Tail(w)) = 1 /\ Tail(w)[1] = w[2]
<1>1. w # <<>>
  BY EmptySeq
<1>2. 1 \in 1 .. Len(w) /\ 2 \in 1 .. Len(w)
  OBVIOUS
<1>3. w[1] \in S /\ w[2] \in S
  BY <1>2, ElementOfSeq
<1>4. Tail(w) \in Seq(S) /\ Len(Tail(w)) = 1
  BY <1>1, HeadTailProperties
<1>5. \A i \in 1 .. Len(Tail(w)) : Tail(w)[i] = w[i + 1]
  BY <1>1, HeadTailProperties, Zenon
<1>6. PICK n : n = Len(Tail(w))
  OBVIOUS
<1>7. 1 \in 1 .. n
  BY <1>4, <1>6
<1>8. Tail(w)[1] = w[1 + 1]
  BY <1>5, <1>6, <1>7, Zenon
<1>9. 1 + 1 = 2
  OBVIOUS
<1>10. Tail(w)[1] = w[2]
  BY <1>8, <1>9, Zenon
<1>. QED  BY <1>1, <1>3, <1>4, <1>10, Zenon

LEMMA HeldIs ==
  ASSUME NEW w \in Seq(Packets), Len(w) <= 2
  PROVE  /\ Held(w) \in Nat
         /\ w = <<>> => Held(w) = 0
         /\ Len(w) = 1 => w[1] \in Packets /\ Held(w) = Size(w[1])
         /\ Len(w) = 2 => /\ w[1] \in Packets /\ w[2] \in Packets
                          /\ Held(w) = Size(w[1]) + Size(w[2])
<1>1. w = <<>> \/ Len(w) = 1 \/ Len(w) = 2
  BY AtMostTwo
<1>2. CASE w = <<>>
  <2>1. Len(w) = 0
    BY <1>2
  <2>. QED  BY <1>2, <2>1 DEF Held
<1>3. CASE Len(w) = 1
  <2>1. w[1] \in Packets /\ w # <<>>
    BY <1>3, Single
  <2>2. Size(w[1]) \in Nat
    BY <2>1, SizeIs
  <2>. QED  BY <1>3, <2>1, <2>2 DEF Held
<1>4. CASE Len(w) = 2
  <2>1. /\ w[1] \in Packets /\ w[2] \in Packets /\ w # <<>>
    BY <1>4, Pair
  <2>2. Size(w[1]) \in Nat /\ Size(w[2]) \in Nat
    BY <2>1, SizeIs
  <2>. QED  BY <1>4, <2>1, <2>2 DEF Held
<1>. QED  BY <1>1, <1>2, <1>3, <1>4

\* The first datagram is taken.
LEMMA HoldsTail ==
  ASSUME NEW w \in Seq(Packets), w # <<>>, Len(w) <= 2, NEW mem,
         NEW at \in Int, Holds(mem, at, w)
  PROVE  /\ Tail(w) \in Seq(Packets) /\ Len(Tail(w)) <= 1
         /\ Holds(mem, Past(at, Size(w[1])), Tail(w))
         /\ Held(Tail(w)) \in Nat /\ Size(w[1]) \in Nat
         /\ Held(w) = Size(w[1]) + Held(Tail(w))
<1>1. Len(w) = 1 \/ Len(w) = 2
  BY AtMostTwo
<1>2. CASE Len(w) = 1
  <2>1. Tail(w) = <<>> /\ w[1] \in Packets
    BY <1>2, Single
  <2>2. Held(<<>>) = 0
    BY DEF Held
  <2>3. Held(w) = Size(w[1]) /\ Size(w[1]) \in Nat
    BY <1>2, <2>1, HeldIs, SizeIs
  <2>4. Holds(mem, Past(at, Size(w[1])), <<>>)
    BY DEF Holds
  <2>5. PICK n \in Nat : n = Size(w[1])
    BY <2>3
  <2>6. Held(w) = Size(w[1]) + Held(<<>>)
    BY <2>2, <2>3, <2>5
  <2>7. <<>> \in Seq(Packets) /\ Len(<<>>) <= 1
    OBVIOUS
  <2>8. Held(<<>>) \in Nat
    BY <2>2
  <2>. QED  BY <2>1, <2>3, <2>4, <2>6, <2>7, <2>8, Zenon
<1>3. CASE Len(w) = 2
  <2>1. /\ Tail(w) \in Seq(Packets) /\ Len(Tail(w)) = 1
        /\ Tail(w)[1] = w[2] /\ w[1] \in Packets /\ w[2] \in Packets
    BY <1>3, Pair
  <2>5. PICK t \in Seq(Packets) : t = Tail(w)
    BY <2>1
  <2>6. Len(t) = 1 /\ Len(t) <= 2
    BY <2>1, <2>5
  <2>7. Held(t) = Size(t[1])
    BY <2>5, <2>6, HeldIs
  <2>2. Held(Tail(w)) = Size(w[2])
    BY <2>1, <2>5, <2>7
  <2>3. Held(w) = Size(w[1]) + Size(w[2])
    BY <1>3, HeldIs
  <2>4. Holds(mem, Past(at, Size(w[1])), Tail(w))
    BY <1>3, <2>1 DEF Holds
  <2>. QED  BY <2>1, <2>2, <2>3, <2>4, SizeIs
<1>. QED  BY <1>1, <1>2, <1>3

\* A datagram is stored behind the one that waits.
LEMMA HoldsAppend ==
  ASSUME NEW w \in Seq(Packets), Len(w) <= 1, NEW p \in Packets,
         NEW mem \in Memory(RxSize), NEW at \in Ptr, Holds(mem, at, w),
         NEW to, to = Past(at, Held(w)), Held(w) + Size(p) <= RxSize
  PROVE  /\ Append(w, p) \in Seq(Packets) /\ Len(Append(w, p)) = Len(w) + 1
         /\ Append(w, p)[1] = IF w = <<>> THEN p ELSE w[1]
         /\ Holds(Put(mem, to + 1, Stored(p)), at, Append(w, p))
         /\ Held(Append(w, p)) = Held(w) + Size(p)
<1>1. PICK new : new = Put(mem, to + 1, Stored(p))
  OBVIOUS
<1>2. /\ Size(p) \in Nat /\ Stored(p) \in Seq(Octets)
      /\ Len(Stored(p)) = Size(p) /\ Held(w) \in Nat /\ at \in Int
  BY SizeIs, HeldIs DEF Ptr
<1>3. to \in Int
  BY <1>2, PastIs
<1>4. StoredAt(new, to, p)
  <2>1. PICK T, data : T = RxSize /\ data = Stored(p)
    OBVIOUS
  <2>2. /\ T \in Nat \ {0} /\ mem \in [1 .. T -> Octets]
        /\ data \in Seq(Octets) /\ Len(data) <= T
    BY <1>2, <2>1, RxSizes DEF Memory
  <2>3. Get(Put(mem, to + 1, data), to + 1, Len(data)) = data
    BY <1>3, <2>2, PutGet
  <2>. QED  BY <1>1, <1>2, <2>1, <2>3 DEF StoredAt
<1>5. CASE w = <<>>
  <2>1. Append(w, p) = <<p>>
    BY <1>5
  <2>2. Held(w) = 0 /\ Held(<<p>>) = Size(p)
    BY <1>5 DEF Held
  <2>3. to = at
    BY <2>2, PastZero
  <2>4. Holds(new, at, <<p>>)
    BY <1>4, <2>3 DEF Holds
  <2>. QED  BY <1>1, <1>2, <1>5, <2>1, <2>2, <2>4
<1>6. CASE Len(w) = 1
  <2>1. PICK q \in Packets : q = w[1] /\ w # <<>>
    BY <1>6, Single
  <2>6. PICK v : v = Append(w, p)
    OBVIOUS
  <2>7. /\ v \in Seq(Packets) /\ Len(v) = Len(w) + 1
        /\ \A i \in 1 .. Len(w) : v[i] = w[i]
        /\ v[Len(w) + 1] = p
    BY <2>6, AppendProperties
  <2>8. PICK k : k = Len(w) /\ k = 1 /\ k + 1 = 2 /\ 1 \in 1 .. k
    BY <1>6
  <2>9. v[1] = q
    BY <2>1, <2>7, <2>8, Zenon
  <2>10. v[2] = p /\ Len(v) = 2
    BY <2>7, <2>8, Zenon
  <2>2. /\ Append(w, p) \in Seq(Packets) /\ Len(Append(w, p)) = 2
        /\ Append(w, p)[1] = q /\ Append(w, p)[2] = p
    BY <2>6, <2>7, <2>9, <2>10, Zenon
  <2>11. Len(v) <= 2 /\ Len(w) <= 2
    BY <1>6, <2>10
  <2>12. Held(v) = Size(v[1]) + Size(v[2])
    BY <2>7, <2>10, <2>11, HeldIs
  <2>13. Held(w) = Size(w[1])
    BY <1>6, <2>11, HeldIs
  <2>3. Held(w) = Size(q) /\ Held(Append(w, p)) = Size(q) + Size(p)
    BY <2>1, <2>6, <2>9, <2>10, <2>12, <2>13, Zenon
  <2>4. StoredAt(new, at, q)
    <3>1. Size(q) + Size(p) <= RxSize
      BY <2>1, <2>13
    <3>2. to = Past(at, Size(q))
      BY <2>1, <2>13
    <3>3. StoredAt(mem, at, q)
      BY <1>6, <2>1 DEF Holds
    <3>. QED  BY <1>1, <1>2, <3>1, <3>2, <3>3, PutKeeps
  <2>5. Holds(new, at, Append(w, p))
    BY <1>4, <2>2, <2>3, <2>4 DEF Holds
  <2>. QED  BY <1>1, <1>6, <2>1, <2>2, <2>3, <2>5
<1>7. w = <<>> \/ Len(w) = 1
  BY AtMostTwo
<1>. QED  BY <1>5, <1>6, <1>7

\* The datagrams w, unread, fill memory mem from pointer at to pointer to;
\* what lies between done and at is read and not yet freed.
Placed(at, done, to, mem, w) ==
  /\ to = Past(at, Held(w)) /\ Holds(mem, at, w)
  /\ ((at - done) % PtrSize) + Held(w) <= RxSize

LEMMA PlacedNone ==
  ASSUME NEW at \in Ptr, NEW mem
  PROVE  Placed(at, at, at, mem, <<>>)
<1>1. Held(<<>>) = 0 /\ Holds(mem, at, <<>>)
  BY DEF Held, Holds
<1>2. at - at = 0 /\ 0 % PtrSize = 0 /\ RxSize \in Nat
  BY RxSizes DEF Ptr
<1>. QED  BY <1>1, <1>2, PastZero DEF Placed

\* The chip's received size is that of the datagrams and of what is read.
LEMMA PlacedSize ==
  ASSUME NEW at \in Ptr, NEW done \in Ptr, NEW to, NEW mem,
         NEW w \in Seq(Packets), Len(w) <= 2, Placed(at, done, to, mem, w)
  PROVE  /\ (to - done) % PtrSize = ((at - done) % PtrSize) + Held(w)
         /\ (at - done) % PtrSize \in Nat /\ Held(w) \in Nat
         /\ Held(w) <= RxSize
<1>1. PICK skip \in Nat, held \in Nat :
        skip = (at - done) % PtrSize /\ held = Held(w)
  BY Distance, HeldIs
<1>2. at = Past(done, skip) /\ done \in Int
  BY <1>1, Distance DEF Ptr
<1>3. to = Past(done, skip + held)
  BY <1>1, <1>2, PastPast DEF Placed
<1>4. PICK n \in Nat : n = skip + held /\ n < PtrSize /\ held <= RxSize
  BY <1>1, RxSizes DEF Placed
<1>5. (Past(done, n) - done) % PtrSize = n
  BY <1>2, <1>4, PastBack
<1>. QED  BY <1>1, <1>3, <1>4, <1>5

\* The datagram in front is read.
LEMMA PlacedTaken ==
  ASSUME NEW at \in Ptr, NEW to, NEW mem, NEW w \in Seq(Packets),
         Len(w) <= 2, w # <<>>, Placed(at, at, to, mem, w)
  PROVE  /\ Past(at, Size(w[1])) \in Ptr
         /\ Tail(w) \in Seq(Packets) /\ Len(Tail(w)) <= 1
         /\ Placed(Past(at, Size(w[1])), at, to, mem, Tail(w))
<1>1. /\ at \in Int /\ Holds(mem, at, w) /\ Held(w) <= RxSize
      /\ to = Past(at, Held(w))
  BY PlacedSize DEF Placed, Ptr
<1>2. /\ Tail(w) \in Seq(Packets) /\ Len(Tail(w)) <= 1
      /\ Holds(mem, Past(at, Size(w[1])), Tail(w))
      /\ Held(Tail(w)) \in Nat /\ Size(w[1]) \in Nat
      /\ Held(w) = Size(w[1]) + Held(Tail(w))
  BY <1>1, HoldsTail
<1>3. PICK n \in Nat, m \in Nat : n = Size(w[1]) /\ m = Held(Tail(w))
  BY <1>2
<1>4. n < PtrSize /\ n + m <= RxSize
  BY <1>1, <1>2, <1>3, RxSizes
<1>5. (Past(at, n) - at) % PtrSize = n
  BY <1>1, <1>4, PastBack
<1>6. to = Past(Past(at, n), m)
  BY <1>1, <1>2, <1>3, PastPast
<1>7. Past(at, n) \in Ptr
  BY <1>1, PastIs
<1>. QED  BY <1>2, <1>3, <1>4, <1>5, <1>6, <1>7 DEF Placed

\* The memory in front of the unread datagrams is freed.
LEMMA PlacedFreed ==
  ASSUME NEW at \in Ptr, NEW done \in Ptr, NEW to, NEW mem,
         NEW w \in Seq(Packets), Len(w) <= 2, Placed(at, done, to, mem, w)
  PROVE  Placed(at, at, to, mem, w)
<1>1. at - at = 0 /\ 0 % PtrSize = 0 /\ PtrSize \in Nat
  BY RxSizes DEF Ptr
<1>2. Held(w) <= RxSize /\ Held(w) \in Nat
  BY PlacedSize
<1>. QED  BY <1>1, <1>2 DEF Placed

\* A datagram for which there is room arrives.
LEMMA PlacedArrives ==
  ASSUME NEW at \in Ptr, NEW done \in Ptr, NEW to \in Ptr,
         NEW mem \in Memory(RxSize), NEW w \in Seq(Packets), Len(w) <= 1,
         Placed(at, done, to, mem, w), NEW p \in Packets,
         RxSize - ((to - done) % PtrSize) >= Size(p)
  PROVE  /\ Append(w, p) \in Seq(Packets) /\ Len(Append(w, p)) = Len(w) + 1
         /\ Append(w, p)[1] = IF w = <<>> THEN p ELSE w[1]
         /\ Placed(at, done, Past(to, Size(p)),
                   Put(mem, to + 1, Stored(p)), Append(w, p))
<1>1. Len(w) <= 2
  OBVIOUS
<1>2. /\ (to - done) % PtrSize = ((at - done) % PtrSize) + Held(w)
      /\ (at - done) % PtrSize \in Nat /\ Held(w) \in Nat
  BY <1>1, PlacedSize
<1>3. PICK skip \in Nat, held \in Nat, n \in Nat :
        skip = (at - done) % PtrSize /\ held = Held(w) /\ n = Size(p)
  BY <1>2, SizeIs
<1>4. skip + (held + n) <= RxSize /\ RxSize \in Nat
  BY <1>2, <1>3, RxSizes
<1>5. to = Past(at, Held(w)) /\ Held(w) + Size(p) <= RxSize
  BY <1>3, <1>4 DEF Placed
<1>6. Holds(mem, at, w)
  BY DEF Placed
<1>7. PICK v, new : v = Append(w, p) /\ new = Put(mem, to + 1, Stored(p))
  OBVIOUS
<1>8. /\ v \in Seq(Packets) /\ Len(v) = Len(w) + 1
      /\ v[1] = IF w = <<>> THEN p ELSE w[1]
      /\ Holds(new, at, v) /\ Held(v) = Held(w) + Size(p)
  BY <1>5, <1>6, <1>7, HoldsAppend
<1>9. Past(to, Size(p)) = Past(at, Held(v))
  <2>1. at \in Int /\ to = Past(at, held)
    BY <1>3, <1>5 DEF Ptr
  <2>2. Past(to, n) = Past(at, held + n)
    BY <2>1, PastPast
  <2>. QED  BY <1>3, <1>8, <2>2
<1>10. skip + Held(v) <= RxSize
  BY <1>3, <1>4, <1>8
<1>. QED  BY <1>3, <1>7, <1>8, <1>9, <1>10 DEF Placed

-----------------------------------------------------------------------------
(* What is always true of the receive side while no transaction has failed. *)

\* The application reads a datagram that is there, before the next but one
\* arrives, into a buffer that holds it.
OneDatagram == {"await_packet", "one_datagram"} \subseteq Discipline
PacketsFit  == \A p \in Packets : Length[p] <= BufferSize

\* The unread datagrams start where the chip frees up to, except between the
\* copy and RECV.
Oldest == IF cpu.pc = "recv" THEN sock.rxRd ELSE sock.rxDone

Waits ==
  /\ Len(waiting) <= 2 /\ (Len(waiting) = 2 => Reading)
  /\ Reading \/ cpu.pc = "rx_size" => waiting # <<>>
  /\ ~sock.open => waiting = <<>>
  /\ cpu.pc \in OpenPcs => ~sock.open
  /\ dma = "off" => frame = "none"

Unread == Placed(Oldest, sock.rxDone, sock.rxWr, sock.rx, waiting)

ReadPointers ==
  /\ cpu.pc \notin {"rx_copy", "recv"} /\ dma # "rx"
       => sock.rxRd = sock.rxDone
  /\ Reading => /\ cpu.len = Length[waiting[1]]
                /\ cpu.ptr = Past(sock.rxDone, HeaderSize)
  /\ cpu.pc = "rx_copy" \/ dma = "rx"
       => sock.rxRd = Past(sock.rxDone, Size(waiting[1]))

HandedWhole == handed.got = handed.want

Filled == faults = 0 => Waits /\ Unread /\ ReadPointers /\ HandedWhole

\* The receiver of socket c is as it was.
SameReceiver(c) ==
  /\ c.rx = sock.rx /\ c.rxRd = sock.rxRd /\ c.rxWr = sock.rxWr
  /\ c.rxDone = sock.rxDone /\ c.open = sock.open

\* What a step does that is none of a receive's.
RxAside ==
  /\ UNCHANGED rx /\ SameReceiver(sock')
  /\ \/ cpu' = cpu /\ dma' = dma
     \/ /\ cpu.pc \notin RecvPcs /\ cpu'.pc \notin RecvPcs
        /\ dma # "rx" /\ dma' # "rx"
  /\ cpu'.pc \in OpenPcs => cpu.pc \in OpenPcs \/ ~sock.open
  /\ dma' = "off" /\ faults' = 0 => frame' = "none"

LEMMA RxAsideKeeps ==
  ASSUME Filled, RxAside, faults' = 0 => faults = 0
  PROVE  Filled'
<1>. SUFFICES ASSUME faults' = 0
              PROVE  Waits' /\ Unread' /\ ReadPointers' /\ HandedWhole'
  BY DEF Filled
<1>1. Waits /\ Unread /\ ReadPointers /\ HandedWhole
  BY DEF Filled
<1>2. /\ waiting' = waiting /\ handed' = handed
      /\ sock'.rx = sock.rx /\ sock'.rxRd = sock.rxRd
      /\ sock'.rxWr = sock.rxWr /\ sock'.rxDone = sock.rxDone
      /\ sock'.open = sock.open
  BY DEF RxAside, SameReceiver, rx
<1>3. \/ cpu' = cpu /\ dma' = dma
      \/ /\ cpu.pc \notin RecvPcs /\ cpu'.pc \notin RecvPcs
         /\ dma # "rx" /\ dma' # "rx"
  BY DEF RxAside
<1>4. Reading' = Reading /\ Oldest' = Oldest
  BY <1>2, <1>3 DEF Reading, Oldest, RecvPcs
<1>5. Waits'
  BY <1>1, <1>2, <1>3, <1>4 DEF Waits, RxAside, RecvPcs
<1>6. Unread'
  BY <1>1, <1>2, <1>4 DEF Unread
<1>7. ReadPointers'
  BY <1>1, <1>2, <1>3, <1>4 DEF ReadPointers, RecvPcs, Reading
<1>8. HandedWhole'
  BY <1>1, <1>2 DEF HandedWhole
<1>. QED  BY <1>5, <1>6, <1>7, <1>8

LEMMA WriteAside ==
  ASSUME NEW after, NEW ACTION D, NEW ACTION F, Write(after, D, F),
         SameReceiver(after), faults \in Nat
  PROVE  /\ SameReceiver(sock') /\ frame' = "none"
         /\ faults' = 0 => faults = 0
BY DEF Write, Fault, SameReceiver

LEMMA InitFilled == Init => Filled
<1>. SUFFICES ASSUME Init PROVE Filled
  OBVIOUS
<1>1. 0 \in Ptr
  BY ChipAssumption DEF ChipAssumption, Ptr
<1>2. /\ sock.rxRd = 0 /\ sock.rxWr = 0 /\ sock.rxDone = 0
      /\ waiting = <<>> /\ cpu.pc = "idle" /\ dma = "off"
      /\ frame = "none" /\ handed.got = handed.want
  BY DEF Init, ChipInit, Idle
<1>3. Unread
  BY <1>1, <1>2, PlacedNone DEF Unread, Oldest
<1>4. Waits /\ ReadPointers /\ HandedWhole
  BY <1>2 DEF Waits, ReadPointers, HandedWhole, Reading, OpenPcs
<1>. QED  BY <1>3, <1>4 DEF Filled

-----------------------------------------------------------------------------
(* The steps that are none of a receive's.                                 *)

\* Typed facts the steps need.
LEMMA TypedNow ==
  ASSUME SendInv
  PROVE  sock \in SockType /\ cpu \in CpuType /\ faults \in Nat
BY DEF SendInv, WizTypes

LEMMA BeginsFilled ==
  ASSUME SendInv, Filled, NEW op \in {"open"} \cup SendOps, CallBegins(op),
         op = "open" => ~sock.open
  PROVE  Filled'
<1>1. /\ cpu = Idle /\ dma = "off" /\ Idle.pc = "idle"
      /\ cpu' = [Idle EXCEPT !.op = op, !.pc = Start[op]]
      /\ UNCHANGED <<sock, frame, dma, faults, arrivals, rx>>
  BY DEF CallBegins, Idle
<1>2. cpu'.pc = Start[op]
  <2>1. PICK pc : pc = Start[op]
    OBVIOUS
  <2>. QED  BY <1>1, <2>1 DEF Idle
<1>3. /\ Start[op] \in {"mode", "dst_ip"}
      /\ op # "open" => Start[op] = "dst_ip"
  BY DEF Start, SendOps
<1>4. faults' = 0 => frame' = "none"
  BY <1>1 DEF Filled, Waits
<1>5. RxAside
  BY <1>1, <1>2, <1>3, <1>4
     DEF RxAside, SameReceiver, RecvPcs, OpenPcs
<1>. QED  BY <1>1, <1>5, RxAsideKeeps

LEMMA QueryFilled == ASSUME Filled, Query PROVE Filled'
<1>1. /\ frame' = "none" /\ UNCHANGED <<sock, cpu, dma, ret, faults, rx>>
      /\ cpu.pc = "idle"
  BY DEF Query, Idle
<1>2. RxAside
  BY <1>1 DEF RxAside, SameReceiver, OpenPcs
<1>. QED  BY <1>1, <1>2, RxAsideKeeps

LEMMA ClearFilled ==
  ASSUME SendInv, Filled, NEW ints \in SUBSET Ints, ClearInterrupt(ints)
  PROVE  Filled'
<1>1. PICK after : after = [sock EXCEPT !.ir = @ \ ints]
  OBVIOUS
<1>2. /\ cpu = Idle /\ Write(after, TRUE, TRUE)
      /\ UNCHANGED <<cpu, dma, rx>>
  BY <1>1 DEF ClearInterrupt
<1>3. SameReceiver(after)
  BY <1>1, TypedNow DEF SameReceiver, SockType
<1>4. SameReceiver(sock') /\ frame' = "none" /\ (faults' = 0 => faults = 0)
  BY <1>2, <1>3, TypedNow, WriteAside
<1>5. cpu.pc = "idle"
  BY <1>2 DEF Idle
<1>. QED  BY <1>2, <1>4, <1>5, RxAsideKeeps DEF RxAside, OpenPcs

\* A write of a call that is no receive.
LEMMA WriteFilled ==
  ASSUME SendInv, Filled, NEW after, NEW ACTION D, NEW ACTION F,
         Write(after, D, F), SameReceiver(after), UNCHANGED <<dma, rx>>,
         dma = "off", cpu.pc \notin RecvPcs, cpu'.pc \notin RecvPcs,
         cpu'.pc \in OpenPcs => cpu.pc \in OpenPcs
  PROVE  Filled'
<1>1. SameReceiver(sock') /\ frame' = "none" /\ (faults' = 0 => faults = 0)
  BY TypedNow, WriteAside
<1>. QED  BY <1>1, RxAsideKeeps DEF RxAside

LEMMA OffOutside ==
  ASSUME SendInv, cpu.pc # "idle"
  PROVE  dma = "off" /\ (cpu.pc \in SendPcs => cpu.op \in SendOps)
BY DEF SendInv, WizTypes, CallShape

LEMMA TakenAside ==
  ASSUME NEW c \in SockType, SameReceiver(c)
  PROVE  SameReceiver(SendCommand(c))
<1>1. PICK s, d :
        s = SendCommand(c).sending /\ d = SendCommand(c)
  OBVIOUS
<1>2. d = [c EXCEPT !.sending = s]
  BY <1>1, TakenIs, Zenon
<1>3. SameReceiver(d)
  BY <1>2 DEF SameReceiver, SockType
<1>. QED  BY <1>1, <1>3

LEMMA SetUpFilled ==
  ASSUME SendInv, Filled, SetMode \/ SetPort \/ SetDstIp \/ SetDstPort
  PROVE  Filled'
<1>1. /\ sock \in SockType /\ cpu \in CpuType
      /\ "port" \in Pcs /\ "open" \in Pcs /\ "dst_port" \in Pcs
      /\ "tx_room" \in Pcs /\ "idle" \notin RecvPcs \cup OpenPcs
      /\ "port" \notin RecvPcs /\ "open" \notin RecvPcs
      /\ "dst_port" \notin RecvPcs \cup OpenPcs
      /\ "tx_room" \notin RecvPcs \cup OpenPcs
  BY TypedNow DEF Pcs, OpenPcs, SendPcs, RecvPcs
<1>2. PICK one, ip, port :
        /\ one = [sock EXCEPT !.mode = "udp"]
        /\ ip = [sock EXCEPT !.ip = Dest[accepted][1]]
        /\ port = [sock EXCEPT !.dport = Dest[accepted][2]]
  OBVIOUS
<1>3. /\ SameReceiver(one) /\ SameReceiver(ip) /\ SameReceiver(port)
      /\ SameReceiver(sock)
  BY <1>1, <1>2 DEF SameReceiver, SockType
<1>4. /\ UNCHANGED <<dma, rx>> /\ cpu.pc \notin RecvPcs
      /\ cpu.pc # "idle"
  BY DEF SetMode, SetPort, SetDstIp, SetDstPort, Step, RecvPcs
<1>5. CASE SetMode
  <2>1. Write(one, Goto("port"), Goto("port")) /\ cpu.pc \in OpenPcs
    BY <1>2, <1>5 DEF SetMode, Step, OpenPcs
  <2>2. cpu'.pc = "port"
    BY <1>1, <2>1, WriteIs, GotoIs
  <2>. QED  BY <1>1, <1>3, <1>4, <2>1, <2>2, OffOutside, WriteFilled
<1>6. CASE SetPort
  <2>1. Write(sock, Goto("open"), Return("error")) /\ cpu.pc \in OpenPcs
    BY <1>6 DEF SetPort, Step, OpenPcs
  <2>2. cpu'.pc \in {"open", "idle"}
    BY <1>1, <2>1, WriteIs, GotoIs, ReturnIs
  <2>. QED  BY <1>1, <1>3, <1>4, <2>1, <2>2, OffOutside, WriteFilled
<1>7. CASE SetDstIp
  <2>1. Write(ip, Goto("dst_port"), Return("error"))
    BY <1>2, <1>7 DEF SetDstIp
  <2>2. cpu'.pc \in {"dst_port", "idle"}
    BY <1>1, <2>1, WriteIs, GotoIs, ReturnIs
  <2>. QED  BY <1>1, <1>3, <1>4, <2>1, <2>2, OffOutside, WriteFilled
<1>8. CASE SetDstPort
  <2>1. Write(port, Goto("tx_room"), Return("error"))
    BY <1>2, <1>8 DEF SetDstPort
  <2>2. cpu'.pc \in {"tx_room", "idle"}
    BY <1>1, <2>1, WriteIs, GotoIs, ReturnIs
  <2>. QED  BY <1>1, <1>3, <1>4, <2>1, <2>2, OffOutside, WriteFilled
<1>. QED  BY <1>5, <1>6, <1>7, <1>8

LEMMA RoomFilled == ASSUME SendInv, Filled, TxRoom PROVE Filled'
<1>1. /\ cpu.pc = "tx_room" /\ frame' = "none"
      /\ UNCHANGED <<dma, rx, sock, faults>>
  BY DEF TxRoom, Step, ReadForSure
<1>2. cpu \in CpuType /\ dma = "off" /\ cpu.op \in SendOps
  BY <1>1, TypedNow, OffOutside DEF SendPcs
<1>3. cpu'.pc \in {"tx_advance", "send", "idle"}
  <2>1. CASE TxDataFails("full")
    BY <1>2, <2>1, FailsIs
  <2>2. CASE cpu' = [cpu EXCEPT !.pc = "tx_advance", !.ptr = sock.txWr]
    BY <1>2, <2>2 DEF CpuType
  <2>. QED  BY <2>1, <2>2 DEF TxRoom
<1>. QED  BY <1>1, <1>2, <1>3, RxAsideKeeps
          DEF RxAside, SameReceiver, RecvPcs, OpenPcs

LEMMA TransferFilled ==
  ASSUME SendInv, Filled, TxAdvance \/ TxCopy \/ CommandSend
  PROVE  Filled'
<1>1. /\ sock \in SockType /\ cpu \in CpuType
      /\ "tx_copy" \in Pcs /\ "send" \in Pcs /\ "wait" \in Pcs
  BY TypedNow DEF Pcs, SendPcs
<1>2. /\ UNCHANGED <<dma, rx>> /\ cpu.pc \in SendPcs
      /\ cpu.pc \notin RecvPcs /\ cpu.pc # "idle"
  BY DEF TxAdvance, TxCopy, CommandSend, Step, RecvPcs, SendPcs
<1>3. dma = "off" /\ cpu.op \in SendOps
  BY <1>2, OffOutside
<1>4. accepted \in Messages /\ cpu.ptr \in Ptr
  BY <1>1, <1>2 DEF SendInv, OneMessage, Sending, CpuType
<1>5. CASE TxAdvance
  <2>1. PICK after :
          after = [sock EXCEPT
                     !.txWr = (cpu.ptr + Length[accepted]) % PtrSize]
    OBVIOUS
  <2>2. Write(after, Goto("tx_copy"), TxDataFails("error"))
    BY <1>5, <2>1 DEF TxAdvance
  <2>3. SameReceiver(after)
    BY <1>1, <2>1 DEF SameReceiver, SockType
  <2>4. cpu'.pc \in {"tx_copy", "send", "idle"}
    BY <1>1, <1>3, <2>2, WriteIs, GotoIs, FailsIs
  <2>5. cpu'.pc \notin RecvPcs /\ cpu'.pc \notin OpenPcs
    BY <2>4 DEF RecvPcs, OpenPcs
  <2>. QED  BY <1>2, <1>3, <2>2, <2>3, <2>5, WriteFilled
<1>6. CASE TxCopy
  <2>1. PICK after : after = Copied(cpu.ptr)
    OBVIOUS
  <2>2. Write(after, Goto("send"), Goto("send"))
    BY <1>6, <2>1 DEF TxCopy
  <2>3. SameReceiver(after)
    BY <1>1, <1>4, <2>1, CopiedIs DEF SameReceiver, SockType
  <2>4. cpu'.pc = "send"
    BY <1>1, <2>2, WriteIs, GotoIs
  <2>5. cpu'.pc \notin RecvPcs /\ cpu'.pc \notin OpenPcs
    BY <2>4 DEF RecvPcs, OpenPcs
  <2>. QED  BY <1>2, <1>3, <2>2, <2>3, <2>5, WriteFilled
<1>7. CASE CommandSend
  <2>1. PICK after : after = SendCommand(sock)
    OBVIOUS
  <2>2. Write(after, Goto("wait"), Goto("wait"))
    BY <1>7, <2>1 DEF CommandSend
  <2>3. SameReceiver(after)
    <3>1. SameReceiver(sock)
      BY DEF SameReceiver
    <3>. QED  BY <1>1, <2>1, <3>1, TakenAside
  <2>4. cpu'.pc = "wait"
    BY <1>1, <2>2, WriteIs, GotoIs
  <2>5. cpu'.pc \notin RecvPcs /\ cpu'.pc \notin OpenPcs
    BY <2>4 DEF RecvPcs, OpenPcs
  <2>. QED  BY <1>2, <1>3, <2>2, <2>3, <2>5, WriteFilled
<1>. QED  BY <1>5, <1>6, <1>7

LEMMA TxStartFilled == ASSUME SendInv, Filled, TxDmaStart PROVE Filled'
<1>1. /\ cpu.pc = "tx_copy" /\ UNCHANGED <<sock, rx>>
      /\ \/ UNCHANGED faults /\ dma' = "tx"
         \/ faults' = faults + 1 /\ dma' \in {"tx", "off"}
      /\ cpu' = IF dma' = "tx" THEN [Idle EXCEPT !.ptr = cpu.ptr] ELSE Idle
  BY DEF TxDmaStart, Fault
<1>2. cpu'.pc = "idle" /\ dma = "off" /\ faults \in Nat
  BY <1>1, TypedNow, OffOutside DEF Idle
<1>. QED  BY <1>1, <1>2, RxAsideKeeps
          DEF RxAside, SameReceiver, RecvPcs, OpenPcs

LEMMA AwaitFilled == ASSUME SendInv, Filled, AwaitInterrupt PROVE Filled'
<1>1. /\ cpu.pc = "wait" /\ UNCHANGED <<sock, frame, rx, dma>>
      /\ faults' \in {faults, faults + 1}
      /\ Return(SendResult(sock.ir)) \/ Goto("wait")
  BY DEF AwaitInterrupt, Step, Fault
<1>2. /\ dma = "off" /\ faults \in Nat /\ cpu \in CpuType /\ "wait" \in Pcs
  BY <1>1, TypedNow, OffOutside DEF Pcs
<1>3. cpu'.pc \in {"idle", "wait"}
  BY <1>1, <1>2, GotoIs, ReturnIs
<1>4. faults' = 0 => faults = 0 /\ frame' = "none"
  BY <1>1, <1>2 DEF Filled, Waits
<1>. QED  BY <1>1, <1>2, <1>3, <1>4, RxAsideKeeps
          DEF RxAside, SameReceiver, RecvPcs, OpenPcs

LEMMA TxCompletesFilled ==
  ASSUME SendInv, Filled, TxDmaComplete
  PROVE  Filled'
<1>1. PICK held : held = IF frame = "data" THEN Copied(cpu.ptr) ELSE sock
  OBVIOUS
<1>2. /\ dma = "tx" /\ dma' = "off" /\ cpu' = Idle /\ frame' = "none"
      /\ sock' = SendCommand(held) \/ sock' = held
      /\ faults' \in {faults, faults + 1} /\ UNCHANGED rx
  BY <1>1 DEF TxDmaComplete, Fault
<1>3. /\ accepted \in Messages /\ cpu.ptr \in Ptr /\ faults \in Nat
      /\ sock \in SockType /\ cpu.pc = "idle" /\ Idle.pc = "idle"
  BY <1>2, TypedNow
     DEF SendInv, CallShape, OneMessage, Sending, CpuType, Idle
<1>4. held \in SockType /\ SameReceiver(held)
  BY <1>1, <1>3, CopiedIs DEF SameReceiver, SockType
<1>5. SameReceiver(sock')
  BY <1>2, <1>4, TakenAside
<1>. QED  BY <1>2, <1>3, <1>5, RxAsideKeeps DEF RxAside, RecvPcs, OpenPcs

LEMMA EndsFilled ==
  ASSUME SendInv, Filled,
         NEW flag \in {"SENDOK", "TIMEOUT"}, TransmissionEnds(flag)
  PROVE  Filled'
<1>1. SendEnds(flag) /\ UNCHANGED <<frame, cpu, dma, faults, rx>>
  BY DEF TransmissionEnds
<1>2. SameReceiver(sock')
  BY <1>1, TypedNow DEF SendEnds, SameReceiver, SockType
<1>3. dma' = "off" /\ faults' = 0 => frame' = "none"
  BY <1>1 DEF Filled, Waits
<1>. QED  BY <1>1, <1>2, <1>3, RxAsideKeeps DEF RxAside

-----------------------------------------------------------------------------
(* The steps of a receive, and a datagram that arrives.                    *)

\* While nothing has failed.
LEMMA FilledIs ==
  ASSUME SendInv, Filled, faults = 0
  PROVE  /\ Waits /\ Unread /\ ReadPointers /\ HandedWhole
         /\ sock \in SockType /\ cpu \in CpuType /\ waiting \in Seq(Packets)
         /\ sock.rxRd \in Ptr /\ sock.rxWr \in Ptr /\ sock.rxDone \in Ptr
         /\ Oldest \in Ptr /\ sock.rx \in Memory(RxSize)
         /\ Len(waiting) <= 2 /\ (dma = "off" => frame = "none")
<1>1. sock \in SockType /\ cpu \in CpuType /\ waiting \in Seq(Packets)
  BY DEF SendInv, WizTypes
<1>2. /\ sock.rxRd \in Ptr /\ sock.rxWr \in Ptr /\ sock.rxDone \in Ptr
      /\ sock.rx \in Memory(RxSize)
  BY <1>1 DEF SockType
<1>3. Waits /\ Unread /\ ReadPointers /\ HandedWhole
  BY DEF Filled
<1>. QED  BY <1>1, <1>2, <1>3 DEF Waits, Oldest

LEMMA ReceiveBeginsFilled ==
  ASSUME OneDatagram, SendInv, Filled, NEW op \in RecvOps, Receive(op)
  PROVE  Filled'
<1>1. /\ CallBegins(op) /\ waiting # <<>>
  BY DEF Receive, OneDatagram, Kept
<1>2. /\ cpu.pc = "idle" /\ dma = "off" /\ cpu'.pc = "rx_size"
      /\ UNCHANGED <<sock, frame, faults, waiting, handed, dma>>
  <2>1. Start[op] = "rx_size"
    BY DEF Start, RecvOps
  <2>. QED  BY <1>1, <2>1 DEF CallBegins, Idle, rx
<1>3. SUFFICES ASSUME faults' = 0
               PROVE  Waits' /\ Unread' /\ ReadPointers' /\ HandedWhole'
  BY DEF Filled
<1>4. Waits /\ Unread /\ ReadPointers /\ HandedWhole
  BY <1>2, <1>3 DEF Filled
<1>5. Waits'
  BY <1>1, <1>2, <1>4 DEF Waits, Reading, OpenPcs
<1>6. Unread' /\ HandedWhole'
  BY <1>2, <1>4 DEF Unread, Oldest, HandedWhole
<1>7. ReadPointers'
  BY <1>2, <1>4 DEF ReadPointers, Reading
<1>. QED  BY <1>5, <1>6, <1>7

\* The size the driver reads is that of the datagram, which is there and fits.
LEMMA SizeFilled ==
  ASSUME PacketsFit, SendInv, Filled, RxSizeRead
  PROVE  Filled'
<1>1. /\ cpu.pc = "rx_size" /\ frame' = "none"
      /\ UNCHANGED <<sock, faults, dma, waiting, handed>>
  BY DEF RxSizeRead, Step, ReadForSure, rx
<1>2. dma = "off"
  BY <1>1, OffOutside
<1>3. SUFFICES ASSUME faults' = 0
               PROVE  Waits' /\ Unread' /\ ReadPointers' /\ HandedWhole'
  BY DEF Filled
<1>4. /\ Waits /\ Unread /\ ReadPointers /\ HandedWhole
      /\ waiting \in Seq(Packets) /\ Len(waiting) <= 2
      /\ sock.rxDone \in Ptr /\ sock \in SockType /\ cpu \in CpuType
  BY <1>1, <1>3, FilledIs
<1>5. ~Reading /\ Oldest = sock.rxDone /\ sock.rxRd = sock.rxDone
  BY <1>1, <1>2, <1>4 DEF Reading, Oldest, ReadPointers
<1>6. Len(waiting) = 1
  BY <1>1, <1>4, <1>5, AtMostTwo DEF Waits
<1>7. PICK p \in Packets, n \in Nat \ {0} :
        p = waiting[1] /\ n = Length[p] /\ n <= BufferSize
  BY <1>4, <1>6, Single, SizeIs DEF PacketsFit
<1>8. Held(waiting) = 8 + n /\ HeaderSize = 8
  BY <1>4, <1>6, <1>7, HeldIs, SizeIs
<1>9. PICK done \in Int : done = sock.rxDone
  BY <1>4 DEF Ptr
<1>10. Received(sock) = 8 + n /\ n < PtrSize
  <2>1. /\ Received(sock) =
             ((sock.rxDone - sock.rxDone) % PtrSize) + Held(waiting)
        /\ Held(waiting) <= RxSize
    BY <1>4, <1>5, PlacedSize DEF Unread, Received
  <2>2. done - done = 0 /\ 0 % PtrSize = 0
    BY <1>9, RxSizes
  <2>. QED  BY <1>8, <1>9, <2>1, <2>2, RxSizes
<1>11. UdpReceivedSize(sock) = n
  <2>1. n \in 0 .. PtrSize - 1 /\ PtrSize \in Nat \ {0} /\ (8 + n) - 8 = n
    BY <1>10, RxSizes
  <2>2. n % PtrSize = n
    BY <2>1, SmallIs
  <2>. QED  BY <1>8, <1>10, <2>1, <2>2 DEF UdpReceivedSize
<1>12. Least(n, BufferSize) = n
  BY <1>7, DriverAssumption DEF DriverAssumption, Least
<1>13. cpu' = [cpu EXCEPT !.pc = "rx_advance", !.len = n,
                          !.ptr = Past(sock.rxDone, HeaderSize)]
  BY <1>5, <1>7, <1>11, <1>12 DEF RxSizeRead, Past
<1>14. /\ cpu'.pc = "rx_advance" /\ cpu'.len = Length[waiting[1]]
       /\ cpu'.ptr = Past(sock.rxDone, HeaderSize)
  BY <1>4, <1>7, <1>13 DEF CpuType
<1>15. Waits'
  BY <1>1, <1>2, <1>4, <1>6, <1>14 DEF Waits, Reading, OpenPcs
<1>16. Unread' /\ HandedWhole'
  BY <1>1, <1>4, <1>14 DEF Unread, Oldest, HandedWhole
<1>17. ReadPointers'
  BY <1>1, <1>2, <1>5, <1>14 DEF ReadPointers, Reading
<1>. QED  BY <1>15, <1>16, <1>17

LEMMA AdvanceFilled == ASSUME SendInv, Filled, RxAdvance PROVE Filled'
<1>1. PICK to, after :
        /\ to = (cpu.ptr + cpu.len) % PtrSize
        /\ after = [sock EXCEPT !.rxRd = to]
  OBVIOUS
<1>2. /\ cpu.pc = "rx_advance" /\ UNCHANGED <<dma, waiting, handed>>
      /\ Write(after, Goto("rx_copy"), RxDataFails("error"))
  BY <1>1 DEF RxAdvance, Step, rx
<1>3. dma = "off" /\ faults \in Nat
  BY <1>2, TypedNow, OffOutside
<1>4. SUFFICES ASSUME faults' = 0
               PROVE  Waits' /\ Unread' /\ ReadPointers' /\ HandedWhole'
  BY DEF Filled
<1>5. faults = 0
  BY <1>2, <1>3, <1>4 DEF Write, Fault
<1>6. /\ Waits /\ Unread /\ ReadPointers /\ HandedWhole /\ frame = "none"
      /\ waiting \in Seq(Packets) /\ Len(waiting) <= 2
      /\ sock.rxDone \in Ptr /\ sock \in SockType /\ cpu \in CpuType
  BY <1>3, <1>5, FilledIs
<1>7. sock' = after /\ Goto("rx_copy") /\ frame' = "none"
  BY <1>2, <1>3, <1>4, <1>6, WriteWorks
<1>8. /\ cpu'.pc = "rx_copy" /\ cpu'.ptr = cpu.ptr /\ cpu'.len = cpu.len
  BY <1>6, <1>7, GotoIs DEF Pcs, RecvPcs
<1>9. Reading /\ Oldest = sock.rxDone /\ waiting # <<>>
  BY <1>2, <1>6 DEF Reading, Oldest, Waits
<1>10. waiting[1] \in Packets
  BY <1>6, <1>9, AtMostTwo, Single, Pair
<1>11. to = Past(sock.rxDone, Size(waiting[1]))
  <2>1. PICK done \in Int, n \in Nat :
          done = sock.rxDone /\ n = Length[waiting[1]]
    BY <1>6, <1>10, SizeIs DEF Ptr
  <2>2. Size(waiting[1]) = 8 + n /\ HeaderSize = 8
    BY <1>10, <2>1, SizeIs
  <2>3. to = Past(Past(done, 8), n)
    BY <1>1, <1>6, <1>9, <2>1, <2>2 DEF ReadPointers, Past
  <2>4. Past(Past(done, 8), n) = Past(done, 8 + n)
    BY PastPast
  <2>. QED  BY <2>1, <2>2, <2>3, <2>4
<1>12. /\ sock'.rx = sock.rx /\ sock'.rxWr = sock.rxWr
       /\ sock'.rxDone = sock.rxDone /\ sock'.open = sock.open
       /\ sock'.rxRd = to
  BY <1>1, <1>6, <1>7 DEF SockType
<1>13. Waits'
  BY <1>2, <1>3, <1>6, <1>7, <1>8, <1>9, <1>12 DEF Waits, Reading, OpenPcs
<1>14. Unread' /\ HandedWhole'
  BY <1>2, <1>6, <1>8, <1>9, <1>12 DEF Unread, Oldest, HandedWhole
<1>15. ReadPointers'
  BY <1>2, <1>6, <1>8, <1>9, <1>11, <1>12 DEF ReadPointers
<1>. QED  BY <1>13, <1>14, <1>15

\* The buffer gets the datagram in front, and the next one is in front then.
LEMMA HandOverFilled ==
  ASSUME SendInv, Filled, faults = 0, HandOver,
         cpu.pc = "rx_copy" \/ dma = "rx", Oldest = sock.rxDone
  PROVE  /\ handed'.got = handed'.want
         /\ waiting' \in Seq(Packets) /\ Len(waiting') <= 1
         /\ Placed(sock.rxRd, sock.rxDone, sock.rxWr, sock.rx, waiting')
<1>1. /\ Waits /\ Unread /\ ReadPointers /\ Reading
      /\ waiting \in Seq(Packets) /\ Len(waiting) <= 2
      /\ sock.rxDone \in Ptr /\ sock.rx \in Memory(RxSize)
  BY FilledIs DEF Reading
<1>2. waiting # <<>> /\ waiting[1] \in Packets
  BY <1>1, AtMostTwo, Single, Pair DEF Waits
<1>3. /\ Placed(sock.rxDone, sock.rxDone, sock.rxWr, sock.rx, waiting)
      /\ sock.rxRd = Past(sock.rxDone, Size(waiting[1]))
      /\ cpu.len = Length[waiting[1]]
      /\ cpu.ptr = Past(sock.rxDone, HeaderSize)
  BY <1>1 DEF Unread, ReadPointers
<1>4. /\ Tail(waiting) \in Seq(Packets) /\ Len(Tail(waiting)) <= 1
      /\ Placed(sock.rxRd, sock.rxDone, sock.rxWr, sock.rx, Tail(waiting))
  BY <1>1, <1>2, <1>3, PlacedTaken
<1>5. Get(sock.rx, cpu.ptr + 1, cpu.len) = Bytes(waiting[1])
  <2>1. PICK mem \in Memory(RxSize), at \in Int, p \in Packets :
          mem = sock.rx /\ at = sock.rxDone /\ p = waiting[1]
    BY <1>1, <1>2 DEF Ptr
  <2>2. PICK from : from = Past(at, HeaderSize)
    OBVIOUS
  <2>3. StoredAt(mem, at, p)
    <3>1. Len(waiting) >= 1
      BY <1>1, <1>2, AtMostTwo
    <3>. QED  BY <1>3, <2>1, <3>1 DEF Placed, Holds
  <2>4. Get(mem, from + 1, Length[p]) = Bytes(p)
    BY <2>2, <2>3, BehindHeader
  <2>. QED  BY <1>3, <2>1, <2>2, <2>4
<1>6. /\ handed'.got = Get(sock.rx, cpu.ptr + 1, cpu.len)
      /\ handed'.want = Bytes(Head(waiting)) /\ waiting' = Tail(waiting)
  BY <1>2 DEF HandOver
<1>7. Head(waiting) = waiting[1]
  BY <1>1, <1>2
<1>. QED  BY <1>4, <1>5, <1>6, <1>7

LEMMA NotTwo ==
  ASSUME NEW S, NEW w \in Seq(S), Len(w) <= 1
  PROVE  Len(w) <= 2 /\ Len(w) # 2
<1>1. PICK n \in Nat : n = Len(w)
  BY LenProperties
<1>. QED  BY <1>1

LEMMA CopyRxFilled == ASSUME SendInv, Filled, RxCopy PROVE Filled'
<1>1. /\ cpu.pc = "rx_copy" /\ UNCHANGED <<sock, dma>> /\ Goto("recv")
      /\ \/ HandOver /\ UNCHANGED <<frame, faults>>
         \/ faults' = faults + 1
  BY DEF RxCopy, Fault
<1>2. /\ dma = "off" /\ faults \in Nat /\ cpu \in CpuType /\ "recv" \in Pcs
  BY <1>1, TypedNow, OffOutside DEF Pcs, RecvPcs
<1>3. SUFFICES ASSUME faults' = 0
               PROVE  Waits' /\ Unread' /\ ReadPointers' /\ HandedWhole'
  BY DEF Filled
<1>4. faults = 0 /\ HandOver /\ frame' = frame
  BY <1>1, <1>2, <1>3
<1>5. /\ Waits /\ frame = "none" /\ Oldest = sock.rxDone
  BY <1>1, <1>2, <1>4, FilledIs DEF Oldest
<1>6. /\ handed'.got = handed'.want
      /\ waiting' \in Seq(Packets) /\ Len(waiting') <= 1
      /\ Placed(sock.rxRd, sock.rxDone, sock.rxWr, sock.rx, waiting')
  BY <1>1, <1>4, <1>5, HandOverFilled
<1>7. cpu'.pc = "recv"
  BY <1>1, <1>2, GotoIs
<1>8. sock.open
  BY <1>1, <1>5 DEF Waits, Reading
<1>12. Len(waiting') <= 2 /\ Len(waiting') # 2
  BY <1>6, NotTwo
<1>9. Waits'
  BY <1>1, <1>2, <1>4, <1>5, <1>7, <1>8, <1>12 DEF Waits, Reading, OpenPcs
<1>10. Unread' /\ HandedWhole'
  BY <1>1, <1>6, <1>7 DEF Unread, Oldest, HandedWhole
<1>11. ReadPointers'
  BY <1>1, <1>2, <1>7 DEF ReadPointers, Reading
<1>. QED  BY <1>9, <1>10, <1>11

LEMMA RxStartFilled == ASSUME SendInv, Filled, RxDmaStart PROVE Filled'
<1>1. /\ cpu.pc = "rx_copy" /\ UNCHANGED <<sock, waiting, handed>>
      /\ \/ /\ UNCHANGED faults /\ dma' = "rx" /\ frame' = "data"
            /\ cpu' = [Idle EXCEPT !.ptr = cpu.ptr, !.len = cpu.len]
         \/ faults' = faults + 1
  BY DEF RxDmaStart, Fault, rx
<1>2. faults \in Nat
  BY TypedNow
<1>3. SUFFICES ASSUME faults' = 0
               PROVE  Waits' /\ Unread' /\ ReadPointers' /\ HandedWhole'
  BY DEF Filled
<1>10. /\ faults = 0 /\ dma' = "rx"
       /\ cpu' = [Idle EXCEPT !.ptr = cpu.ptr, !.len = cpu.len]
  BY <1>1, <1>2, <1>3
<1>4. /\ faults = 0 /\ dma' = "rx" /\ cpu'.pc = "idle"
      /\ cpu'.ptr = cpu.ptr /\ cpu'.len = cpu.len
  <2>1. PICK ptr, len : ptr = cpu.ptr /\ len = cpu.len
    OBVIOUS
  <2>2. cpu' = [op |-> "none", pc |-> "idle", ptr |-> ptr, len |-> len]
    BY <1>10, <2>1 DEF Idle
  <2>3. cpu'.pc = "idle" /\ cpu'.ptr = ptr /\ cpu'.len = len
    BY <2>2
  <2>. QED  BY <1>10, <2>1, <2>3, Zenon
<1>5. Waits /\ Unread /\ ReadPointers /\ HandedWhole
  BY <1>4, FilledIs
<1>6. Reading /\ Reading'
  BY <1>1, <1>4 DEF Reading
<1>7. Waits'
  BY <1>1, <1>4, <1>5, <1>6 DEF Waits, OpenPcs
<1>8. Unread' /\ HandedWhole'
  BY <1>1, <1>4, <1>5 DEF Unread, Oldest, HandedWhole
<1>9. ReadPointers'
  BY <1>1, <1>4, <1>5, <1>6 DEF ReadPointers
<1>. QED  BY <1>7, <1>8, <1>9

LEMMA RxCompletesFilled ==
  ASSUME SendInv, Filled, RxDmaComplete
  PROVE  Filled'
<1>1. /\ dma = "rx" /\ dma' = "off" /\ cpu'.pc = "idle" /\ HandOver
      /\ frame' = "none"
      /\ \/ sock' = RecvCommand(sock) /\ UNCHANGED faults
         \/ faults' = faults + 1
  BY DEF RxDmaComplete, Fault, Idle
<1>2. faults \in Nat /\ cpu.pc = "idle"
  BY <1>1, TypedNow DEF SendInv, CallShape
<1>3. SUFFICES ASSUME faults' = 0
               PROVE  Waits' /\ Unread' /\ ReadPointers' /\ HandedWhole'
  BY DEF Filled
<1>4. faults = 0 /\ sock' = RecvCommand(sock)
  BY <1>1, <1>2, <1>3
<1>5. /\ Waits /\ Oldest = sock.rxDone /\ sock \in SockType
      /\ sock.rxDone \in Ptr /\ sock.rxRd \in Ptr
  BY <1>2, <1>4, FilledIs DEF Oldest
<1>6. /\ handed'.got = handed'.want
      /\ waiting' \in Seq(Packets) /\ Len(waiting') <= 1
      /\ Placed(sock.rxRd, sock.rxDone, sock.rxWr, sock.rx, waiting')
  BY <1>1, <1>4, <1>5, HandOverFilled
<1>7. Placed(sock.rxRd, sock.rxRd, sock.rxWr, sock.rx, waiting')
  <2>1. PICK w \in Seq(Packets) : w = waiting' /\ Len(w) <= 2
    BY <1>6
  <2>. QED  BY <1>5, <1>6, <2>1, PlacedFreed
<1>8. /\ sock'.rx = sock.rx /\ sock'.rxWr = sock.rxWr
      /\ sock'.rxRd = sock.rxRd /\ sock'.rxDone = sock.rxRd
      /\ sock'.open = sock.open
  BY <1>4, <1>5 DEF RecvCommand, SockType
<1>9. sock.open
  BY <1>1, <1>5 DEF Waits, Reading
<1>13. Len(waiting') <= 2 /\ Len(waiting') # 2
  BY <1>6, NotTwo
<1>10. Waits'
  BY <1>1, <1>8, <1>9, <1>13 DEF Waits, Reading, OpenPcs
<1>11. Unread' /\ HandedWhole'
  BY <1>1, <1>6, <1>7, <1>8 DEF Unread, Oldest, HandedWhole
<1>12. ReadPointers'
  BY <1>1, <1>8 DEF ReadPointers, Reading
<1>. QED  BY <1>10, <1>11, <1>12

LEMMA FreeFilled == ASSUME SendInv, Filled, CommandRecv PROVE Filled'
<1>1. /\ cpu.pc = "recv" /\ UNCHANGED <<dma, waiting, handed>>
      /\ Write(RecvCommand(sock), Return("ok"), Return("ok"))
  BY DEF CommandRecv, Step, rx
<1>2. dma = "off" /\ faults \in Nat
  BY <1>1, TypedNow, OffOutside
<1>3. SUFFICES ASSUME faults' = 0
               PROVE  Waits' /\ Unread' /\ ReadPointers' /\ HandedWhole'
  BY DEF Filled
<1>4. faults = 0
  BY <1>1, <1>2, <1>3 DEF Write, Fault
<1>5. /\ Waits /\ Unread /\ HandedWhole /\ sock \in SockType
      /\ waiting \in Seq(Packets) /\ Len(waiting) <= 2
      /\ sock.rxDone \in Ptr /\ sock.rxRd \in Ptr /\ frame = "none"
      /\ Oldest = sock.rxRd
  BY <1>1, <1>2, <1>4, FilledIs DEF Oldest
<1>6. sock' = RecvCommand(sock) /\ Return("ok") /\ frame' = "none"
  BY <1>1, <1>2, <1>3, <1>5, WriteWorks
<1>7. /\ sock'.rx = sock.rx /\ sock'.rxWr = sock.rxWr
      /\ sock'.rxRd = sock.rxRd /\ sock'.rxDone = sock.rxRd
      /\ sock'.open = sock.open /\ cpu'.pc = "idle"
  BY <1>5, <1>6, ReturnIs DEF RecvCommand, SockType
<1>8. Placed(sock.rxRd, sock.rxRd, sock.rxWr, sock.rx, waiting)
  BY <1>5, PlacedFreed DEF Unread
<1>9. Waits'
  BY <1>1, <1>2, <1>5, <1>6, <1>7 DEF Waits, Reading, OpenPcs
<1>10. Unread' /\ HandedWhole'
  BY <1>1, <1>5, <1>7, <1>8 DEF Unread, Oldest, HandedWhole
<1>11. ReadPointers'
  BY <1>1, <1>2, <1>7 DEF ReadPointers, Reading
<1>. QED  BY <1>9, <1>10, <1>11

\* OPEN resets the pointers of a socket that holds nothing.
LEMMA OpenFilled == ASSUME SendInv, Filled, CommandOpen PROVE Filled'
<1>1. /\ cpu.pc = "open" /\ UNCHANGED <<dma, waiting, handed>>
      /\ Write(OpenCommand(sock), Return("ok"), Return("error"))
  BY DEF CommandOpen, Step, rx
<1>2. dma = "off" /\ faults \in Nat
  BY <1>1, TypedNow, OffOutside
<1>3. SUFFICES ASSUME faults' = 0
               PROVE  Waits' /\ Unread' /\ ReadPointers' /\ HandedWhole'
  BY DEF Filled
<1>4. faults = 0
  BY <1>1, <1>2, <1>3 DEF Write, Fault
<1>5. /\ Waits /\ Unread /\ ReadPointers /\ HandedWhole /\ sock \in SockType
      /\ frame = "none" /\ Oldest = sock.rxDone
  BY <1>1, <1>2, <1>4, FilledIs DEF Oldest
<1>6. sock' = OpenCommand(sock) /\ Return("ok") /\ frame' = "none"
  BY <1>1, <1>2, <1>3, <1>5, WriteWorks
<1>7. cpu'.pc = "idle"
  BY <1>6, ReturnIs
<1>8. waiting = <<>>
  BY <1>1, <1>5 DEF Waits, OpenPcs
<1>9. \/ /\ sock'.rxRd = 0 /\ sock'.rxWr = 0 /\ sock'.rxDone = 0
      \/ sock' = sock
  BY <1>5, <1>6 DEF OpenCommand, SockType
<1>10. 0 \in Ptr
  BY RxSizes DEF Ptr
<1>11. /\ sock'.rxRd = sock'.rxDone
       /\ Placed(sock'.rxDone, sock'.rxDone, sock'.rxWr, sock'.rx, waiting)
  <2>1. CASE sock' = sock
    BY <1>1, <1>2, <1>5, <2>1 DEF Unread, ReadPointers
  <2>2. CASE /\ sock'.rxRd = 0 /\ sock'.rxWr = 0 /\ sock'.rxDone = 0
    BY <1>8, <1>10, <2>2, PlacedNone
  <2>. QED  BY <1>9, <2>1, <2>2
<1>12. Waits'
  BY <1>1, <1>2, <1>6, <1>7, <1>8 DEF Waits, Reading, OpenPcs
<1>13. Unread' /\ HandedWhole'
  BY <1>1, <1>5, <1>7, <1>11 DEF Unread, Oldest, HandedWhole
<1>14. ReadPointers'
  BY <1>1, <1>2, <1>7, <1>11 DEF ReadPointers, Reading
<1>. QED  BY <1>12, <1>13, <1>14

\* The next datagram is stored behind the one that is read.
LEMMA ArrivesFilled ==
  ASSUME OneDatagram, SendInv, Filled, NEW p \in Packets, DatagramArrives(p)
  PROVE  Filled'
<1>1. /\ Arrives(p) /\ waiting' = Append(waiting, p)
      /\ Len(waiting) = IF Reading THEN 1 ELSE 0
      /\ UNCHANGED <<frame, cpu, dma, faults, handed>>
  BY DEF DatagramArrives, OneDatagram, Kept
<1>2. SUFFICES ASSUME faults' = 0
               PROVE  Waits' /\ Unread' /\ ReadPointers' /\ HandedWhole'
  BY DEF Filled
<1>3. faults = 0
  BY <1>1, <1>2
<1>4. /\ Waits /\ Unread /\ ReadPointers /\ HandedWhole /\ sock \in SockType
      /\ waiting \in Seq(Packets) /\ sock.rx \in Memory(RxSize)
      /\ sock.rxDone \in Ptr /\ sock.rxWr \in Ptr /\ Oldest \in Ptr
  BY <1>3, FilledIs
<1>5. /\ sock.open
      /\ RxSize - ((sock.rxWr - sock.rxDone) % PtrSize) >= Size(p)
  BY <1>1 DEF Arrives, Received, Size
<1>6. PICK new : new = Put(sock.rx, sock.rxWr + 1, Stored(p))
  OBVIOUS
<1>7. PICK to : to = Past(sock.rxWr, Size(p))
  OBVIOUS
<1>8. (sock.rxWr + HeaderSize + Length[p]) % PtrSize = to
  <2>1. PICK wr \in Int, n \in Nat : wr = sock.rxWr /\ n = Length[p]
    BY <1>4, SizeIs DEF Ptr
  <2>2. wr + 8 + n = wr + (8 + n)
    OBVIOUS
  <2>. QED  BY <1>7, <2>1, <2>2, SizeIs DEF Past
<1>9. PICK ir : ir = sock.ir \cup {"RECV"}
  OBVIOUS
<1>10. sock' = [sock EXCEPT !.rx = new, !.rxWr = to, !.ir = ir]
  BY <1>1, <1>4, <1>6, <1>8, <1>9, ArrivalIs
<1>11. /\ sock'.rx = new /\ sock'.rxWr = to /\ sock'.rxRd = sock.rxRd
       /\ sock'.rxDone = sock.rxDone /\ sock'.open = sock.open
  BY <1>4, <1>10 DEF SockType
<1>12. Len(waiting) <= 1
  BY <1>1
<1>13. /\ waiting' \in Seq(Packets) /\ Len(waiting') = Len(waiting) + 1
       /\ waiting'[1] = IF waiting = <<>> THEN p ELSE waiting[1]
       /\ Placed(Oldest, sock.rxDone, to, new, waiting')
  <2>1. PICK at \in Ptr, done \in Ptr, wr \in Ptr, mem \in Memory(RxSize),
            w \in Seq(Packets) :
          /\ at = Oldest /\ done = sock.rxDone /\ wr = sock.rxWr
          /\ mem = sock.rx /\ w = waiting
    BY <1>4, Zenon
  <2>2. Placed(at, done, wr, mem, w)
    BY <1>4, <2>1 DEF Unread
  <2>3. Len(w) <= 1
    BY <1>12, <2>1
  <2>4. RxSize - ((wr - done) % PtrSize) >= Size(p)
    BY <1>5, <2>1
  <2>5. PICK v : v = Append(w, p)
    OBVIOUS
  <2>6. /\ v \in Seq(Packets) /\ Len(v) = Len(w) + 1
        /\ v[1] = IF w = <<>> THEN p ELSE w[1]
        /\ Placed(at, done, Past(wr, Size(p)), Put(mem, wr + 1, Stored(p)), v)
    BY <2>2, <2>3, <2>4, <2>5, PlacedArrives
  <2>. QED  BY <1>1, <1>6, <1>7, <2>1, <2>5, <2>6
<1>14. Reading' = Reading /\ Oldest' = Oldest
  BY <1>1, <1>11 DEF Reading, Oldest
<1>15. /\ Len(waiting') <= 2 /\ waiting' # <<>>
       /\ Len(waiting') = 2 => Reading
  <2>1. PICK n \in Nat : n = Len(waiting')
    BY <1>13, LenProperties
  <2>2. n = IF Reading THEN 2 ELSE 1
    BY <1>1, <1>13, <2>1
  <2>3. n # 0 /\ n <= 2 /\ (n = 2 => Reading)
    BY <2>2
  <2>4. Len(<<>>) = 0
    OBVIOUS
  <2>. QED  BY <2>1, <2>3, <2>4, Zenon
<1>16. Waits'
  BY <1>1, <1>4, <1>5, <1>11, <1>14, <1>15 DEF Waits
<1>17. Unread' /\ HandedWhole'
  BY <1>1, <1>4, <1>11, <1>13, <1>14 DEF Unread, HandedWhole
<1>18. Reading => waiting'[1] = waiting[1]
  BY <1>4, <1>13 DEF Waits
<1>19. ReadPointers'
  BY <1>1, <1>4, <1>11, <1>14, <1>18 DEF ReadPointers, Reading
<1>. QED  BY <1>16, <1>17, <1>19

LEMMA FilledStep ==
  ASSUME OneDatagram, PacketsFit, SendInv, Filled, [Next]_vars
  PROVE  Filled'
<1>1. CASE UNCHANGED vars
  <2>1. UNCHANGED <<sock, frame, cpu, dma, faults, waiting, handed>>
    BY <1>1 DEF vars, rx
  <2>. QED  BY <2>1 DEF Filled, Waits, Unread, ReadPointers, HandedWhole,
                        Reading, Oldest
<1>2. ASSUME NEW op \in {"send", "send_dma"}, NEW m \in Messages, Send(op, m)
      PROVE  Filled'
  <2>1. CallBegins(op) /\ op \in {"open"} \cup SendOps /\ op # "open"
    BY <1>2 DEF Send, SendOps
  <2>. QED  BY <2>1, BeginsFilled
<1>3. ASSUME NEW op \in {"receive", "receive_dma"}, Receive(op)
      PROVE  Filled'
  BY <1>3, ReceiveBeginsFilled DEF RecvOps
<1>4. CASE CpuStep
  <2>1. CASE OpenStep
    BY <2>1, SetUpFilled, OpenFilled DEF OpenStep
  <2>2. CASE SendStep
    BY <2>2, SetUpFilled, RoomFilled, TransferFilled, TxStartFilled,
       AwaitFilled DEF SendStep
  <2>3. CASE ReceiveStep
    BY <2>3, SizeFilled, AdvanceFilled, CopyRxFilled, RxStartFilled,
       FreeFilled DEF ReceiveStep
  <2>4. CASE DmaComplete
    BY <2>4, TxCompletesFilled, RxCompletesFilled DEF DmaComplete
  <2>. QED  BY <1>4, <2>1, <2>2, <2>3, <2>4 DEF CpuStep
<1>5. CASE Open
  <2>1. CallBegins("open") /\ ~sock.open
    BY <1>5 DEF Open
  <2>. QED  BY <2>1, BeginsFilled
<1>6. CASE Query \/ \E ints \in SUBSET Ints : ClearInterrupt(ints)
  BY <1>6, QueryFilled, ClearFilled
<1>. QED  BY <1>1, <1>2, <1>3, <1>4, <1>5, <1>6, EndsFilled, ArrivesFilled
          DEF Next

LEMMA FilledInvariance ==
  ASSUME OneSendAtATime, OneDatagram, PacketsFit
  PROVE  Spec => [](SendInv /\ Filled)
<1>1. Init => Filled
  BY InitFilled
<1>2. SendInv /\ Filled /\ [Next]_vars => Filled'
  BY FilledStep
<1>. QED  BY <1>1, <1>2, SendInvariance, PTL DEF Spec

\* A receive hands over the oldest unread datagram, whole and without its
\* header, although the next one may arrive meanwhile; nothing that a failure
\* leaves in the memory overruns the buffer (rx_data_offset :417, :530).
THEOREM DatagramWhole ==
  ASSUME OneSendAtATime, OneDatagram, PacketsFit
  PROVE  Spec => []ReceivedIntact
<1>1. SendInv /\ Filled => ReceivedIntact
  BY DEF SendInv, WizTypes, Filled, HandedWhole, ReceivedIntact
<1>. QED  BY <1>1, FilledInvariance, PTL

LEMMA FlattenOne ==
  ASSUME NEW s
  PROVE  FlattenSeq(<<s>>) = s
<1>. DEFINE
       IsFlat(f) == f = [i \in 1 .. 1 |-> IF i = 1 THEN <<s>>[i]
                                          ELSE f[i - 1] \o <<s>>[i]]
       flat == CHOOSE f : IsFlat(f)
<1>1. Len(<<s>>) = 1 /\ <<s>>[1] = s
  OBVIOUS
<1>2. IsFlat([i \in 1 .. 1 |-> s])
  <2>1. \A i \in 1 .. 1 : i = 1
    OBVIOUS
  <2>. QED  BY <1>1, <2>1, Zenon
<1>3. IsFlat(flat)
  BY <1>2, Zenon
<1>. HIDE DEF flat
<1>4. flat[1] = <<s>>[1]
  <2>1. 1 \in 1 .. 1
    OBVIOUS
  <2>. QED  BY <1>3, <2>1, Zenon
<1>5. FlattenSeq(<<s>>) = flat[1]
  BY <1>1 DEF FlattenSeq, flat
<1>. QED  BY <1>1, <1>4, <1>5

\* Between receives the unread part of the receive memory is exactly the
\* datagrams that wait: the pointer arithmetic of rx_data_offset (:414), RECV
\* (:537, :564) and the arrivals never lose step.
THEOREM MemoryMatches ==
  ASSUME OneSendAtATime, OneDatagram, PacketsFit
  PROVE  Spec => []MemoryHoldsWaiting
<1>1. ASSUME SendInv, Filled PROVE MemoryHoldsWaiting
  <2>. SUFFICES ASSUME faults = 0, dma # "rx",
                       cpu.op \notin {"receive", "receive_dma"}
                PROVE  /\ sock.rxRd = sock.rxDone
                       /\ Get(sock.rx, sock.rxRd + 1, Received(sock)) =
                            FlattenSeq([i \in DOMAIN waiting |->
                                          Stored(waiting[i])])
    BY DEF MemoryHoldsWaiting
  <2>1. /\ Waits /\ Unread /\ ReadPointers
        /\ waiting \in Seq(Packets) /\ Len(waiting) <= 2
        /\ sock.rxDone \in Ptr /\ sock.rx \in Memory(RxSize)
    BY <1>1, FilledIs
  <2>2. cpu.pc \notin {"rx_size", "rx_advance", "rx_copy", "recv"}
    BY <1>1 DEF SendInv, CallShape, RecvPcs, RecvOps
  <2>3. /\ ~Reading /\ Oldest = sock.rxDone /\ sock.rxRd = sock.rxDone
    BY <2>1, <2>2 DEF Reading, Oldest, ReadPointers
  <2>4. Placed(sock.rxDone, sock.rxDone, sock.rxWr, sock.rx, waiting)
    BY <2>1, <2>3 DEF Unread
  <2>5. Received(sock) = Held(waiting) /\ Held(waiting) \in Nat
    <3>1. PICK done \in Int : done = sock.rxDone
      BY <2>1 DEF Ptr
    <3>2. done - done = 0 /\ 0 % PtrSize = 0
      BY <3>1, RxSizes
    <3>3. /\ Received(sock) =
               ((sock.rxDone - sock.rxDone) % PtrSize) + Held(waiting)
          /\ Held(waiting) \in Nat
      BY <2>1, <2>4, PlacedSize DEF Received
    <3>. QED  BY <3>1, <3>2, <3>3
  <2>6. waiting = <<>> \/ Len(waiting) = 1
    BY <2>1, <2>3, AtMostTwo DEF Waits
  <2>7. CASE waiting = <<>>
    <3>1. Held(waiting) = 0
      BY <2>7 DEF Held
    <3>2. Get(sock.rx, sock.rxRd + 1, 0) = <<>>
      BY DEF Get
    <3>3. [i \in DOMAIN <<>> |-> Stored(<<>>[i])] = <<>>
      OBVIOUS
    <3>4. FlattenSeq(<<>>) = <<>>
      BY DEF FlattenSeq
    <3>. QED  BY <2>3, <2>5, <2>7, <3>1, <3>2, <3>3, <3>4
  <2>8. CASE Len(waiting) = 1
    <3>1. waiting[1] \in Packets /\ waiting # <<>>
      BY <2>1, <2>8, Single
    <3>2. Held(waiting) = Size(waiting[1])
      BY <2>1, <2>8, HeldIs
    <3>3. Get(sock.rx, sock.rxDone + 1, Size(waiting[1])) =
            Stored(waiting[1])
      BY <2>4, <2>8 DEF Placed, Holds, StoredAt
    <3>4. [i \in DOMAIN waiting |-> Stored(waiting[i])] =
            <<Stored(waiting[1])>>
      BY <2>1, <2>8
    <3>. QED  BY <2>3, <2>5, <3>2, <3>3, <3>4, FlattenOne
  <2>. QED  BY <2>6, <2>7, <2>8
<1>. QED  BY <1>1, FilledInvariance, PTL
=============================================================================
