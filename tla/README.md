# Verification of stm32-hal-libraries

TLA+ models of the libraries in this repository, the TLC runs that check them on
small instances and the TLAPS proofs of what holds for every instance.

- [The system](#the-system): components, their state, how they interact, what is hard
- [Modules](#modules): what each module models and how it maps to the code
- [Runs](#runs): what each run checks, its bounds and its fairness
- [Proofs](#proofs): what is proved, from which assumptions, along which argument
- [Disagreements](#disagreements-between-the-code-and-what-it-says): where code and documentation part
- [Not modelled, and the plan](#not-modelled-and-the-plan)

## The system

The repository is a set of independent libraries for STM32 firmware. Each is a C
file with a header; they share nothing but the HAL, and an application calls
them from its main loop, from FreeRTOS tasks and from interrupt callbacks. No
library starts a thread. What runs besides the caller is hardware (a radio, a
network chip, sensors, DMA engines), and interrupts in which the application
calls the library back (`*_dma_complete()`).

| Component | State it keeps | Operations | Other parties |
|---|---|---|---|
| `lora_sx1276` packet path | none but the radio's registers and FIFO, chip select, SPI/DMA | send ×3, receive ×3, mode ×4, queries, interrupt clears, `*_dma_complete` | radio, DMA interrupt |
| `lora_sx1276` configuration | radio's modem registers, `frequency`, base addresses | `lora_init`, setters, RSSI/SNR/version | radio |
| `static_alloc` | bitmap, per-region headers, mutex | alloc, copy, free, init, free memory | other tasks |
| `ring_buffer` | buf, head, tail, used | write, read, advance_head, reset | DMA/interrupt on the other end |
| `ring_buffer_fixed_size` | buffer, head, tail, full | push, pop, peek macros | interrupt on the other end |
| `ring_buffer_nanopb` | buf, head, tail | nanopb stream callbacks, advance head/tail | nanopb decoder, DMA |
| `wiz5500` | chip's socket registers and buffers, chip select, SPI/DMA | network setup, UDP open, send ×2, receive ×2, interrupts | chip, DMA interrupt |
| `debug` | one static formatting buffer, optional mutex | number formatting, UART printing | other tasks |
| `printf2huart1/2` | static DMA buffer | `_write` | UART DMA |
| `shtc3`, `sht3x`, `si7021` | none | I2C commands, CRC-8, conversions | sensor |
| `veml6030` | configuration register in the sensor | read-modify-write setters | sensor |
| `bor`, `htons.h` | option byte; none | set/get level; byte swaps | flash |

What is hard, and what makes each component correct:

- **LoRa packet path.** A call is a series of SPI transactions, and the radio
  changes its registers between any two of them; a DMA-complete callback does
  the same from an interrupt. Correct means: only whole messages of accepted
  calls go on the air, a blocking send says OK only about its own packet, a send
  never aborts a running transmission, a receive says truly what happened and
  delivers exactly one packet, chip select frames every transfer, calls return.
- **LoRa configuration.** Setters share registers by read-modify-write, two
  registers are derived from two others, and a restarted microcontroller finds
  the radio as it left it. Correct means: a call changes its own setting and no
  other one, and what is derived fits. Three calls do otherwise, and the property
  says exactly how.
- **static_alloc.** Any history of splits, copies and frees; tasks that preempt
  each other between two accesses. Correct means: regions never overlap, the
  bitmap and the counts are exact, memory in use is never handed out again.
- **Ring buffers.** Wrap-around, exactly full against empty, an interrupt on the
  other side. Correct means: a bounded queue of bytes or items.
- **wiz5500.** Memories with read and write pointers on the chip, interrupt flags
  that stay set, polling without a bound, datagrams that arrive while one is
  read. Correct means: a message is sent whole and to its destination, a
  datagram is received whole, and an answer is about this datagram; the common
  registers hold what the calls that returned OK asked for.
- **debug, printf.** A static buffer shared by tasks or by a running DMA. Correct
  means: texts leave whole and unmixed, nothing is written outside the buffer.
- **Sensors.** Codes at the edges of their ranges, damaged words, failed
  transfers. Correct means: what reaches the application was measured, and a
  failure cannot be mistaken for a measurement.

`PROJECT.json` lists the hazards at their lines, with the properties that cover
each of them.

## Modules

| Module | Models | Role |
|---|---|---|
| `Sx1276` | the radio as `lora_sx1276.c` uses it (external) | extended by `LoraLink` |
| `LoraLink` | packet path of `lora_sx1276.c` | one action per SPI transaction |
| `LoraLinkProofs` | | theorems about `LoraLink` |
| `LoraConfig` | configuration calls of `lora_sx1276.c` | one action per call |
| `LoraConfigProofs` | | the invariant of `LoraConfig`, an inductive one |
| `SharedMemory` | what `static_alloc` promises | abstract specification |
| `StaticAlloc` | `static_alloc.c`, one action per call | implements `SharedMemory` |
| `StaticAllocRtos` | `static_alloc.c` with `STATIC_ALLOC_FREERTOS` | extends `StaticAlloc`, calls taken apart |
| `StaticAllocRtosProofs` | | theorems about `StaticAlloc` and `StaticAllocRtos` |
| `ByteFifo` | what the ring buffers promise | abstract specification |
| `RingBuffer` | `ring_buffer.c`, one action per call | implements `ByteFifo` |
| `RingBufferProofs` | | theorems about `RingBuffer` |
| `RingNanopb` | `ring_buffer_nanopb.c`, a thread and an interrupt | implements `ByteFifo` |
| `RingFixed` | `ring_buffer_fixed_size.h`, a thread and an interrupt | implements `ByteFifo` |
| `Rings` | | puts the three side by side; extends `RingBuffer` |
| `RingsProofs` | | theorems about `RingFixed` and `RingNanopb` |
| `W5500` | a socket of the chip as `wiz5500.c` uses it (external) | extended by `Wiz5500` |
| `Wiz5500` | UDP calls of `wiz5500.c` | one action per SPI transaction |
| `Wiz5500Proofs` | | theorems about `Wiz5500` |
| `WizCommon` | common registers and masks in `wiz5500.c` | one action per call |
| `DebugUart` | `debug.c` and the macros of `debug.h` | one action per character |
| `PrintfUart` | `printf2huart1.c`, `printf2huart2.c` | one action per byte of the DMA |
| `Uart` | | puts the two side by side; extends `DebugUart` |
| `UartProofs` | | theorems about `DebugUart` and `PrintfUart` |
| `Sht` | `shtc3.c`, `sht3x.c` | one action per call |
| `Si7021` | `si7021.c` | one action per call |
| `Veml6030` | `veml6030.c` | one action per call |
| `Registers` | | puts `Sht`, `Si7021`, `Veml6030`, `WizCommon` and `LoraConfig` side by side |
| `RegistersProofs` | | theorems about the five, the radio's with the invariant of `LoraConfigProofs` |
| `MC*` | | instances for TLC |

`MCRings`, `MCUart` and `MCRegisters` put independent components side by side: a
behaviour uses one of them, chosen in the initial state, and leaves the others
alone. They share nothing but the run.

A definition whose comment says "mutant" is used by no other definition: it is a
wrong version of a definition after it, a bug one could plausibly write there,
and `PROJECT.json` says which property notices it.

### Sx1276 and LoraLink

`chip` holds the registers the packet path uses: mode, IRQ flags, FIFO content
and pointer, base addresses, address of the last received packet, received and
configured lengths. A byte of the FIFO is a pair of a payload and a position, so
that a torn, truncated or foreign frame can be told from a packet. The radio
takes three steps of its own: a transmission ends, a packet arrives (good, with
a broken payload or with a broken header), a single reception times out.

`cpu` is the call in progress: function, next transaction (`pc`) and locals.
Every `read_register`, `write_register`, `read_fifo`, `write_fifo` and `HAL_Delay`
is one action, and all other actors may step in between. `nss` is the chip
select, `dma` the transfer the SPI DMA is making, `ret` what the last call
returned. `buffer` is the application's receive buffer after a delivery.
`accepted`, `aired`, `event` and `heard` are histories the properties need:
the message of the last send that was not refused, the frame transmitted since
the last call began, the reception not yet reported, the last good packet.

The HAL refuses a transfer while a DMA owns the bus, and the driver ignores it;
a refused or failed read is the 0 it was preset to. `MaxFaults` further
transactions may fail. A failed transaction has no effect at all in the model;
one whose address was lost but whose data still reached the radio is not
modelled, nor are bytes that reach the FIFO because an earlier frame was never
ended (a transfer that finds chip select low has no effect either). Both need a
bus fault, and the only run with faults checks that calls return and that a
message on a working bus is sent.

`Discipline` is what the application is held to, and runs differ in it:
`wait_for_dma` (no call during a DMA), `check_first` (receive only after
`lora_is_packet_available()` said so, as lora_sx1276.h:240 recommends),
`start_idle` (change the mode only while no reception is running).

Both base addresses are 0, the defaults of lora_sx1276.h:20 that no function
changes, so messages and packets share the FIFO's bytes. `ReceivedIntact` says what
still holds of a delivered packet: its length, and that every byte is the packet's
or one an own message stored at the same place. That `LORA_OK` means the packet
itself (`OkMeansReceived`) is false, see `lora_overwritten`.

Abstractions: payloads are model values with a length in bytes; `data_len` 0 and
null pointers are excluded by `assert_param`; `buffer_len` does not occur because
the code uses it only in an assertion; the DMA moves its bytes at its end.

### StaticAlloc and StaticAllocRtos

A pointer is the index of a region's first block; `refcount` and `blocks_used`
are the header stored there, `free` is the set of blocks whose bit is 1. The
search loop is the set `Ends` of the blocks where its counter would match, and
the first of them. The sizes' arithmetic keeps the width of `uint32_t` (`Word`)
and the count the width of `uint16_t` (`MaxRef`). `held` counts the references
the application has, and it frees only what it holds; that is the contract of
the library. Properties are stated for sizes that do not wrap and counts that do
not overflow (`Legal`), which TLC's instance satisfies.

In `StaticAllocRtos` a call is: take the mutex, search, mark and set up the header
(nobody else reads or writes these blocks then), give; or take, load the count,
store it decremented, test and release, give. `static_alloc_copy` is a load and a
store with no mutex. Tasks also hand references to each other. `CopyAlone` holds
the application to copying only memory no other task holds or is inside a call
on; without it see the disagreements.

### RingBuffer

`buf`, `head`, `tail`, `used` as in the struct; the two `memcpy` fragments are one
function of the position. `AdvanceHead` is a DMA that has stored bytes behind
`head`, with room for them, followed by `ring_buffer_advance_head`. `last` is the
last call with the bytes it moved and its result, so that the abstract queue sees
which bytes went in and came out. One context at a time uses the buffer here.

### LoraConfig

`reg` holds the registers the configuration calls write, as numbers of eight
bits; `lora` the fields of the handle; `want` what the application asked for last,
the coding rates asked for since the bandwidth was, and whether 1024 symbols were
asked for since the CRC was. No other function writes these registers, and a call
is made by one thread, so a call is one action. `InitRadio` may happen at any time:
the microcontroller restarts and the radio keeps its registers. Bandwidth, CRC,
coding rate and symbol timeout are then what they were, because `lora_init` does not
write them. The bus works here.

No call is held to arguments for which it does what it says. Where the code loses
or sets bits of a setting, `SettingsHold` says which: a coding rate ORs its bits into
the bandwidth, a symbol timeout of 1024 turns the CRC on, the high bits of an
earlier timeout stay, and only the low four bits of the preamble's and the
timeout's low byte arrive. Anything else a call disturbed would violate it.
`lora_packet_rssi` and `lora_packet_snr` change nothing and are left out.

### RingNanopb and RingFixed

In `RingNanopb` a thread encodes and a DMA's interrupt takes bytes, or a DMA
delivers and a thread decodes. A callback is a check, the copy and the store of
its index, and the interrupt may run between any two. `Leaves` is what the
application owes: no write fills the ring exactly, which would make it look
empty. `Rereads` says whether the compiler loads an index
anew between the comparison and the subtraction of
`pb_ring_buffer_metadata_used()`; the run has the single load.

In `RingFixed` the interrupt pushes when `RING_BUFFER_FULL` is false, any number of
times before each step of the thread. The thread pops in two stores and then uses
the item through the pointer `RING_BUFFER_POP` returned, as the tests do
(test_ring_fixed_size.cpp:70). The item counts as being in the queue until then.
`filled` records that pushes filled the ring during a pop: between the two stores the
pop clears the `full` they set, and before the use they have overwritten the item.
`FixedImplementsFifo` holds up to there, and no further, since the code does not.

### W5500 and Wiz5500

`sock` is one socket: registers, the two circular memories with their pointers,
interrupt flags, the datagram being transmitted. A datagram is stored behind a
header of 8 bytes; a byte is a pair of payload and position. The chip ends a
transmission with SENDOK or TIMEOUT, and stores a datagram when there is room.
Reading a 16-bit register twice until both values agree masks a failure, so
these reads succeed (`ReadForSure`); reading the read or write pointer is joined
with reading the size before it, because nothing but the driver moves them.

`frame` is chip select and what the chip makes of it: a data frame, or a select
left low by a failed start (`stray`), after which the next transaction is not
decoded though the HAL reports success. `handed` pairs what a receive delivered
with what was the oldest datagram; `accepted` and `aired` are histories.

`swallowed` says that the last send found select low, so that its write of the address
was lost with `HAL_OK`: that is the one case in which a message may go to the
previous address, and `RightHost` names it.

`Discipline` holds the application and its peers to: no send while the chip still
transmits (`await_sent`), no blocking send over old send interrupts
(`clear_first`), a receive only when a datagram waits (`await_packet`), one unread
datagram at a time (`one_datagram`). Dropping one of them violates a property; the
disagreements say how. `MaxFaults` is 0 or 1. The bytes that a failure leaves in the
chip's memories are outside the properties (`SentWhole`, `ReceivedIntact` and
`MemoryHoldsWaiting` are about a working bus).

### WizCommon

The registers of the MAC and IP address, ping, PHY and interrupt masks. `set` is
what the calls that returned OK asked for, `trusted` says that no transaction
failed whose result the driver drops; `WizSettingsHold` holds while it is true, and
the run follows a behaviour until then. Addresses are tuples of bytes, so that
`HTONL` and the machine's byte order are visible; registers are sets of bits.

### DebugUart and PrintfUart

A call of a DEBUG macro is: take the mutex or time out, convert the number digit
by digit into the shared buffer, send text, number and line end, give the mutex
back. A text counts as one character, a number is sent character by character.
`late` says that some wait has timed out: the macros go on without the mutex and
give it back all the same. `TextWhole` is about histories without a time-out,
`InBuffer` about all of them. `Shows` compares every character with the digit of its
place, the value divided by a power of the base; in a buffer that is too short the
low digits remain, as test_debug.cpp wants.

In `PrintfUart` the DMA reads its buffer byte by byte after `_write` has returned, and
the C library calls again whenever it likes: the copy changes the buffer under the
DMA, and the HAL's refusal is not noticed. `sending` is the transmission in progress
or the last one, `since` the texts of the calls made since it started.
`NothingStale` says what is left to rely on: no byte of an earlier message leaves,
and a call that nothing else overlapped has sent what it said. A call that
overlaps another one returns its length though its text is lost or mixed in; the
property does not cover that text.

### Sht, Si7021, Veml6030

`Sht` computes the CRC-8 bit by bit for the two words of a measurement; a word, a
CRC and what the bus flips are sets of bits. The bus flips any bits in `Errors`, the
run all patterns of one and two of the 24 bits of a word and its CRC. `OutputsTrue` is an action property: the outputs change only
in a call that returns success, and then to the measurement.

`Si7021` has the codes at the ends of the range and beyond, the failure code, and
the ID in two halves. A humidity is a `uint32_t`, modelled by its two halves: codes
below 3146 wrap to a number near 2^32, and `ReadingsTrue` says so.
`Veml6030` has a read that fails as 0: what is written back afterwards is marked
`misread`. `want.since` says which settings were asked for since the gain was, because
setting the gain wipes the others.

## Runs

| Run | Shows | Instance and bounds |
|---|---|---|
| `lora_send` | sending is right in every interleaving | 2 messages of 1 and 2 bytes, FIFO of 4, 8 calls, timeout 2 |
| `lora_receive` | receiving is right for a disciplined application in single mode | 2 packets of 2 and 1 bytes, 2 messages, one base address, 6 calls |
| `lora_live` | calls return, a DMA send gets on the air | 4 calls, 1 bus fault, implicit header mode |
| `static_alloc` | allocator invariants, refinement | 5 blocks, regions of 1 to 4 blocks, 3 references |
| `rtos_safe` | the FreeRTOS build under preemption | 2 tasks, 3 blocks, regions of 1 and 2 blocks, 3 references |
| `rings` | three ring buffers refine a bounded queue | 4 bytes or items of 2 values, chunks of up to 4 bytes |
| `wiz_udp` | a UDP socket sends and receives whole datagrams, calls return | 2 messages, 3 arrivals, 5 calls, 1 bus fault; memories of 3 and 20 bytes, pointers modulo 60 |
| `registers` | the sensors, the W5500's common registers, the SX1276's configuration | codes at both ends and at the limits, 1 or 2 flipped bits, 2 sockets, any number of failing transfers; radio settings on both sides of the limits, all histories |
| `uart` | debug output and stdout | 2 tasks, 2 calls, buffer of 4 bytes; texts of 1 to 3 bytes, any number of writes |
| `lora_lost_packet`, `lora_overwritten`, `rtos_copy_race` | a disagreement each | as small as the counterexample allows |

Why the bounds are enough. `lora_send`: a call leaves behind only the radio's
registers, a flag and the FIFO, so three calls show what one does to the next;
messages of different lengths show a stale length. `lora_receive`: an arrival, its check and its
collection take three calls, twice that shows the next reception too.
`static_alloc`: five blocks let a two-block hole
lie between two regions and be split, or be too small. `rtos_safe`: the races need
two tasks and two references of one region, and a second region to be handed
out. `rings`: every combination of head, tail and fill occurs, with chunks up to
the size. `wiz_udp`: messages of one and two bytes in a memory of three, and
datagrams of nine and ten bytes in one of twenty, cross the memories' ends; the
third datagram is stored after the first was collected. `registers`: no bound on
the number of calls, and the code branches on the limits the values lie around;
spreading factors 6 and 11 with bandwidths 6 and 7 give every case of the derived
registers, a timeout of 1024 and one below it every bit the call sets. `uart`: two tasks suffice for two calls to meet, numbers of
one to four digits are shorter and longer than the buffer in both bases, with
and without a sign.

Deadlock is checked in the two allocator runs and `rtos_copy_race`. In the others
the number of calls is bounded and the system rests when they are used up; in
`rings` a callback that would have to fill the ring exactly waits for ever, and
in `registers` the behaviours of the W5500 end with the first hidden failure.

The type invariants of `LoraLink` and `StaticAlloc` are checked by `lora_send` and
`static_alloc`; the types of `RingBuffer`, `RingNanopb`, `RingFixed`,
`Wiz5500`, `StaticAllocRtos` and the UART modules are part of the invariants proved,
without a run's time spent on them. In `LoraConfig` the width of the registers is part of `SettingsHold`.

Fairness. `lora_live` assumes that the processor goes on with a call, that a DMA
ends and that a transmission ends (`WF` each): hardware that works, interrupts
enabled. Nothing makes the application call, a packet arrive or a reception time
out. `wiz_udp` assumes that the processor and the DMA go on, by a step in which no
transaction fails (`WF_vars(CpuStep /\ UNCHANGED faults)`), and that the chip ends
every transmission with SENDOK or TIMEOUT; `await_packet` lets nobody wait for a
datagram that may never come. `rtos_safe` assumes that the scheduler runs every
task that is able to step; `xSemaphoreTake` waits with `portMAX_DELAY`, so the
guard of `Take` is the mutex alone. Nothing makes a task start a call.

Faults. `DmaSendAired` and, in `wiz_udp`, the properties about the contents promise
something only if no transaction failed, because a failed one is ignored by the
driver. `RightHost` holds with the failure, too: both writes of the destination
are checked, and the one way past them, an address lost in a frame left open, is
named in the property.

## Proofs

All theorems are proved by TLAPS to the last leaf, for arbitrary constants; what
an application is held to is a named hypothesis of the theorem, and the runs
named below satisfy it. Each theorem follows from an inductive invariant, checked
by TLC before it was proved; the lemmas prove one action (or a group that touches
the same state) each.

| Theorem | Property | Hypothesis |
|---|---|---|
| `AllocatorCorrect`, `AllocTypeCorrect`, `CountsExact`, `RegionsApart` | `BitmapExact`, `TypeOK`, `RefcountExact`, `RegionsDisjoint` | `Legal` |
| `RegionsLargeEnough` | `RegionFitsRequest` | `Legal`, `SizesDoNotWrap` |
| `AllocatorImplementsMemory` | `ImplementsMemory` | `Legal` |
| `NoUpdateLost`, `NoBlockTwice` | `QuietExact`, `TaskSafe` | `CopiesAlone` |
| `IndexesCorrect`, `RingImplementsFifo` | `IndexesAgree`, `ImplementsFifo` | |
| `MacroRingIsQueue` | `FixedImplementsFifo` | |
| `StreamRingIsQueue` | `NanopbImplementsFifo` | `SingleLoads` |
| `LinkTypeCorrect`, `SelectionFramesDma`, `TransmissionIntact`, `BlockingTellsTruth`, `NoSendAborts` | `TypeOK`, `NssFramesDma`, `TxIntact`, `BlockingOkMeansSent`, `SendNeverAborts` | `Reliable` |
| `ReceptionIntact`, `VerdictsTruthful`, `AvailabilityExact` | `ReceivedIntact`, `VerdictTruthful`, `AvailabilityTruthful` | `OneAtATime` |
| `ApartMeansReceived` | `OkMeansReceived` | `OneAtATime`, `Apart` |
| `NoMessageAstray` | `RightHost` | `OneSendAtATime` |
| `MessageWhole`, `OkIsTrue` | `SentWhole`, `OkMeansSent` | and `MessagesFit`; `clear_first` for the second |
| `DatagramWhole`, `MemoryMatches` | `ReceivedIntact`, `MemoryHoldsWaiting` | `OneSendAtATime`, `OneDatagram`, `PacketsFit` |
| `DebugInBuffer` | `InBuffer` | `CallsTyped` |
| `DebugTextWhole` | `TextWhole` | `CallsTyped`, `NumbersSecond` |
| `PrintfNothingStale` | `NothingStale` | `TextsOfBytes` |
| `ShtOutputs` | `OutputsTrue` | `FewFlips` |
| `SiReadings`, `VemlSettings`, `WizSettings` | `ReadingsTrue`, `VemlSettingsHold`, `WizSettingsHold` | |
| `ConfigSettings`, `ConfigModem`, `ConfigPower` | `SettingsHold`, `ModemConsistent`, `PowerConsistent` | `RegistersAssumption`, of which `Suitable` is a part |

**`StaticAllocRtosProofs`**, one call at a time. `IInv` is the conjunction of the types, `RefcountExact`,
`RegionsDisjoint` and `BitmapExact`. `Alloc` needs `BitmapExact` to know that a run
of free blocks touches no region, `Free` needs `RefcountExact` to know that a count
of 0 means nobody holds the region and `RegionsDisjoint` to know that giving its
blocks back frees no other region's. None is inductive without the others. The
refinement's step that takes an argument is a refused allocation: no run of `n`
free blocks in the bitmap means no room between the regions, which is
`BitmapExact` again. `Legal` excludes counts that overflow and sizes that wrap to
no blocks (static_alloc.c:56, :103). That is not enough for `RegionFitsRequest`: a
size that wraps to one block passes `Legal` and gets too little, hence
`SizesDoNotWrap` there.

**`StaticAllocRtosProofs`**, with preemption. `RtosInv` describes the metadata in the middle of
calls. `CountsAccount` says that a region's count is the number of references its
holders have and of the calls of `static_alloc_free()` that have not stored the
decremented count yet; references are counted as a finite set of pairs of task and
index, so that the step of one task changes the set by one element.
`RegionsAccount` says that the regions taken, those being set up and those not yet
given back included, are apart and that the bitmap is their complement; `Progress`
and `Copying` say what each task's `pc` promises (who is inside the critical
section, that the count it loaded is still the count). `CopiesAlone` is the
application's part: `rtos_copy_race` shows what happens without it.

**`RingBufferProofs`**, **`RingsProofs`.** A ring is the bounded queue `ByteFifo` because
`head` is `used` bytes after `tail` (`IndexesAgree`), and the positions a write
occupies are those the queue does not. Without a counter the number of items
follows from the indexes alone (`UsedIs`, `DistanceIs`). In the ring of macros
`FullTruthful` says that `full` is set only while the ring is full, between the two
stores of a pop included, and clear when the item is used, as long as no
interrupt filled the ring during a pop (`filled`).
Behind the nanopb streams `WriterSafe` and `ReaderSafe` say that what a callback
found out stays true while the interrupt goes on: room only grows for a writer,
data only grow for a reader. `SingleLoads` is one load of each index in
`pb_ring_buffer_metadata_used()`; that no write fills the ring exactly is in the
model's guards (`Leaves`).

**`LoraLinkProofs`**, sending. `Reliable` is a bus that works and an application that waits
for its DMA. `CallShape` ties the `pc` to the call that may be there and to the
values its locals then have; `BusFramed` ties chip select to the DMA; `SendProgress`
says how much of the message is in the FIFO, at which address and length, at each
transaction of a send, and that the radio is in standby until the last;
`DmaProgress` says the same of a send whose bytes the DMA moves, and `WaitTruthful`
that in the blocking wait TxDone in the radio's flags is about this message. `TxIntact` is
inductive only with all of them. `NoSendAborts` needs in addition that nothing but
`TransmitDone` ends a transmission during a send, and is proved for the step.

**`LoraLinkProofs`**, receiving. `OneAtATime` adds to `Reliable`: receive after asking, start a
reception while none runs, single mode, explicit headers. It says nothing of the
base addresses. `FlagsTrue` says that the
radio's flags are exactly those of the reception not yet reported, `PacketKept`
that the packet stays in the FIFO at the address and length the registers show
through every other call, but for bytes a send stored over it (`OwnByte`),
`Delivered` that what was copied is what was there. `Apart`, no message has a byte
where a packet has one, turns that into the packet itself (`ApartMeansReceived`); the
default base addresses do not satisfy it, and `lora_overwritten` is the run without
it. The verdict's properties are about single steps and follow from `FlagsTrue`.

**`LoraConfigProofs`.** `IInv` says of every register what it is made of (`Good`): `Carrier` of bandwidth, coding
rates and header mode, `Coding` of spreading factor, CRC and timeout, `Detection` of
the registers derived from them, `Preamble`, `Channel` of the frequency, and
`PowerHolds`. A setter's lemma says what it sets and that it leaves every other
register alone (`OnlyIn`). It holds before the first `lora_init()` too,
since that call keeps bandwidth, CRC and symbol timeout, and so survives a restart
in any state; `ModemConsistent` needs it because the optimization is derived from a
register, not from an argument. `Suitable` is the types of the parameters, what
`lora_set_signal_bandwidth()` asserts, the constants of the coding rates, and the
frequencies below 1024 MHz, of which the three registers keep all bits; `Registers`
assumes it. The theorems are about `Registers`, where the run checks the properties:
`RegistersProofs` takes the invariant from an instance of this module and shows that
the two instances of `LoraConfig` mean the same (`SameSetters`, `SameCalls`).

**`Wiz5500Proofs`.** `SendInv` (`WizTypes`, `CallShape`, `OneMessage`, `Addressed`) holds
with the one transaction that may fail, wherever it is: once the driver has gone
past the write of the address, the chip has it, unless that write was swallowed by
an open frame. The port has no exception, because the swallowed write closes the
frame. With two failures reading a register twice could agree on a wrong value,
which the model does not have; hence `MaxFaults` is 0 or 1. `Loaded` adds, while no transaction has failed,
where the transmit pointers stand and what lies between them (`Pointers`,
`Contents`), `Told` what SENDOK says in the blocking call, and `Filled` the receive
side: how many datagrams wait at each step (`Waits`), where in the circular memory
each of them lies (`Unread`), where the read pointer stands (`ReadPointers`).
`OneSendAtATime` (`await_sent`) and `OneDatagram` (`await_packet`,
`one_datagram`) are the disciplines of `wiz_udp`; `PacketsFit` is a buffer that holds
the datagrams. `MessagesFit` is needed because the blocking call goes on when the
message has no room (wiz5500.c:476) and sends an empty datagram.

**`UartProofs`.** `DebugInv` says of every task that, until the sign is written, its
position leaves room for it, and of a text being sent that it ends in the buffer;
that `strlen()` finds an end inside is the well-foundedness of the naturals and the
terminator, which no task overwrites. It holds with tasks interleaved in the one
buffer, with and without the mutex. `TextInv` says, until some wait times out
(`late`), that the busy tasks are one, the mutex's holder, and that the UART is free
for it (`TextKept`); that what it has written of its number are the digits of the
lowest places, and what is left of the value is the value divided by the next power
(`Written`, `Left`); and that what it has sent are the first symbols of its text
(`LineIs`, `Sent`). `Power` is a recursive function; that it exists is once more
well-foundedness (`PowerIs`), and one place more is one division more
(`DivideTwice`), so the digits need no induction beyond the invariant's own.
`NumbersSecond` is what the macros do: of a call's parts only the second can be the
number. For printf the invariant says of every place of the DMA's buffer within
the text being sent, and of every byte sent, that a call made since the
transmission started has this byte there (`Given`), and that a call which said it
wrote its text has sent its length when the UART is idle. `TextsOfBytes` says that
texts are sequences of bytes.

**`RegistersProofs`.** The drivers share no state: a step of `Registers` is a step
of one and a stutter of the others (`OneDriver`). For the light sensor and the
W5500 the invariant is that the chip agrees field by field with the record of the
calls that succeeded (`Fields`, `Agree`), and each setter's lemma is that
it changes its own field; that an address leaves in network order is `TurnedTwice`.
`SiInv` says what kind of call the last one was and which code it reports; the
conversions' `div` is bounded from both sides, the wrapped humidity read as signed
(`TemperatureConverts`, `HumidityConverts`). `ShtOutputs` rests on the CRC: shifting distributes over exclusive
or (`ShiftAdds`), so a word with the bits `e` flipped passes the check only if the CRC
of `e` alone is empty (`Syndrome`, `ReceivedRight`). The syndromes of the 24 bits are
the lowest bit shifted 0 to 23 times (`OneBitIs`); they are different bytes and none
is empty (`Codes`, `CodesDiffer`), so no flip of one or two bits passes
(`FlipsDetected`). `FewFlips` is that bound on `Errors`, which the run's constants
satisfy with all 301 patterns; the CRC promises nothing beyond it.

What writing the proofs changed in the models:

- `Verdict` of `LoraLink` was a `CASE` whose guards overlap; it is now the chain of
  tests of the code (lora_sx1276.c:576), as a `CASE` leaves the choice open.
- `ChipAssumption` of `W5500` says that a destination is a pair.
- `Rings`, `Uart` and `Registers` hold what the runs of the side-by-side models check,
  so that the theorems are about the same definitions.
- `Sht`, `Veml6030` and `WizCommon` had numbers and the recursive operators of
  `Bitwise`; a register, a word and a CRC are sets of bits now, `HTONL` turns a tuple
  of bytes. `LoraConfig` keeps numbers, with `Or`, `Clear` and `Bit` on a byte.
- The calls in the next-state relation of `LoraConfig` have names (`CallFrequency`, ...).
- `ReceivedIntact` says byte by byte what a packet that shares the FIFO with messages
  still is; the invariant for it no longer supposes anything of the base addresses.
- `TextWhole` summed the digits of the whole number with a fold and compared with
  `base^room`, which the prover cannot follow; it now speaks of one place at a time.
- Ranges in properties (0 to 65535) are written as inequalities.

Only model-checked is all liveness (`CallReturns`, `DmaSendAired` and the scheduler's
property in `rtos_safe`): the prover has no rule for fairness. Every other property
that a passing run checks is stated by a theorem.

## Disagreements between the code and what it says

Shown by a run:

1. `lora_lost_packet`: lora_sx1276.h:224. `lora_receive_packet()` reads the flags and
   clears them in two transactions; a packet in between is never announced.
2. `lora_overwritten`: lora_sx1276.h:239, "packet successfully received". With the default
   base addresses (lora_sx1276.h:20, :21, both 0; nothing sets others) a send
   (lora_sx1276.c:462) writes over a packet that waits, and the receive returns
   `LORA_OK` with the message's bytes in it.
3. `rtos_copy_race`: static_alloc.c:61, :112. `static_alloc_copy()` is outside the
   critical section the other calls need; a count is lost.

Seen while modelling, without a run of their own.

LoRa packet path:

- lora_sx1276.h:241: `lora_mode_receive_continuous()` clears the flags
  (lora_sx1276.c:235) while a single reception may still time out, and the timeout
  is reported in continuous mode. `start_idle` in `Discipline` excludes it.
- lora_sx1276.h:239: in continuous mode length, start address and payload are read
  apart; the result can be a mixture, with `LORA_OK`.
- lora_sx1276.h:201: during a DMA the busy test (lora_sx1276.c:450) cannot read the
  mode and finds the radio idle; the call then aborts the transmission.
  `wait_for_dma` excludes it.
- lora_sx1276.h:215: `lora_send_packet_blocking()` never returns `LORA_BUSY`
  (lora_sx1276.c:516; `RefuseCode` in the model).
- lora_sx1276.h:216: a transmission that ends during the last `HAL_Delay(1)` is
  reported as `LORA_TIMEOUT` (`DelayTx`).
- lora_sx1276.h:191: `LORA_OK` is returned also when a transaction failed
  (`WriteRegister` loses the status).
- lora_sx1276.h:233: a packet longer than `buffer_len` is not truncated
  (`CopyLength`).

LoRa configuration:

- lora_sx1276.h:145: "Set coding rate." The constants are shifted already and are
  shifted again (lora_sx1276.c:418), so the call sets bandwidth bits and never the
  rate (`SetCodingRate`, `BandwidthIs`).
- lora_sx1276.h:155: "Set length of packet preamble." The low byte loses its upper four
  bits (lora_sx1276.c:427; `SetPreamble`).
- lora_sx1276.h:297: "Valid from `4` to `1024` symbols." The timeout's low byte loses
  its upper four bits (lora_sx1276.c:529), 1024 sets the CRC bit and old high bits stay
  (:534; `SetSymbolTimeout`).
- lora_sx1276.c:326: `lora->frequency`, which the RSSI's offset depends on, does not
  follow `lora_set_frequency()`; in the low band the result wraps for readings
  below 36 (:344), in the high band for readings below 29. Not modelled.

static_alloc: test/test_static_alloc.cpp:28: sizes within a block of 2^32 wrap to no
blocks (`BlocksRequired`, `Ends`).

Ring buffers:

- ring_buffer_nanopb.c:59: a write of all the free bytes is accepted; `head` is then
  equal to `tail`, and the full ring counts as empty (:7). `Leaves` excludes it.
- test_ring_fixed_size.cpp:84 expects the oldest items to be overwritten by pushes
  into a full ring; `head` passes `tail` while `full` stays set, and what is then
  popped first is the item behind `tail`, which is a newer one. The model pushes only
  after `RING_BUFFER_FULL` said no.
- ring_buffer_fixed_size.h:46: a pop from an interrupt-fed ring loses `full`, or hands out
  an item that is overwritten before it is used, when pushes fill the ring meanwhile
  (`filled` in `RingFixed`).
- ring_buffer.c:42, :89: `used` is not protected against an interrupt, and
  `ring_buffer_advance_head()` does not check the room that is left.

wiz5500:

- wiz5500.c:545: "No packet available" is recognised by a length of 0, but the
  received size 0 minus 8 is 65528 (:519); the blocking call at :526 does not wait.
  `await_packet` excludes it. An empty datagram gives 0 and waits for ever.
- wiz5500.c:519: two waiting datagrams count as one long one, with the second
  header inside the data. `one_datagram` excludes it.
- wiz5500.c:531: of a datagram longer than the buffer the rest stays in front, and
  is taken for the next header.
- wiz5500.c:398, :401, :431, :435: after a failed start of a transfer chip select
  stays low, and the next transaction is lost with `HAL_OK`. If that is the write of a
  destination address, the message goes to the previous one (`swallowed`).
- wiz5500.c:476: a message that does not fit or is not copied is not reported, SEND
  is issued anyway.
- wiz5500.c:482: any flag ends the wait: SENDOK of an earlier message
  (`clear_first`), and RECV of a datagram, for which the call returns an error.
- wiz5500.c:522, :542: lengths above 255 are returned in a `uint8_t`.
- wiz5500.c:199, :320: when reading an address fails, what was sent to ask for it is
  returned as the address; :587 and :257 write back what a failed read gave.

debug and printf:

- debug.h:30: when taking the mutex times out, the macro goes on without it and
  gives it back, though another task holds it.
- printf2huart1.c:32: `_write()` copies over the buffer of a running DMA, so that the
  message being sent changes; that the HAL refuses (:33) is not noticed and the
  length is returned (:38); more than 128 bytes overrun the buffer.

Sensors:

- veml6030.h:88: "Set ALS gain". `veml6030_set_als_gain()` computes the changed
  configuration and then writes the gain alone (veml6030.c:102): integration time and
  shutdown go back to their defaults (`SetGain`, `TimeLeft`, `OffLeft`). :49: a failed
  read is written back as 0.
- si7021.h:65: "Returns current humidity, e.g. 55". Humidity codes below 3146 give
  4294967290 to 4294967295 (si7021.c:119; `ConvertedHumidity`), which is neither a
  humidity nor `SI7021_MEASURE_FAILED`.

## Not modelled, and the plan

Left out for good: `bor.c` (one conditional write), logging, assertions, the unit
tests and their build, `static_alloc_init`'s sizing arithmetic, reading of light and
version registers (a value that changes nothing).

Next, in this order:

1. Proofs: which results about `LoraLink` survive a failing bus, as `RightHost` of
   `Wiz5500` does.
2. `RingBufferIsr`: `ring_buffer` with `used` updated from an interrupt and a thread, to
   say which uses are safe.
3. `static_alloc_init`: the sizes for which the bitmap fits its block.
