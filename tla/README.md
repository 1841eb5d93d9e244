# A TLA+ model of the Open-GBFlash firmware

This directory models the logic of the CH579 cartridge-reader firmware in
`src/` in TLA+, checks it on small instances with TLC and proves part of it for
every value of its constants with TLAPS. Paths below are relative to the
repository's root; `usb.c`, `main.c`, `proto.c`, `lk_glue.c` and `cart.c` are in
`src/`, `proto.h` and `cart.h` in `include/`.

The models follow the configuration the Makefile builds: interrupt-driven USB
(`FW_USB_IRQ`), direct transmit region (`FW_TX_DIRECT`), two-window transmit
pipeline (`FW_TX_PIPELINE`), lean handler (`FW_USB_ISR_LEAN`), routed DMG
commands (`FW_LK_ROUTE`), audio and pull-up options on.

## The system

A host (FlashGBX through `hw_GBFlash.py`) talks to the device over a USB serial
port. The device has one thread, `fw_main()`, and one interrupt, IRQ6. There is
no framing on the wire: an opcode's argument count and, for some, an earlier
SET_VARIABLE say how many bytes belong to it.

| Component | Where | State | Operations | What makes it correct |
|---|---|---|---|---|
| USB transmit path | usb.c 560-900, 1420-1550; main.c 112-153, 1650-1800 | direct region `tx_dir_*`, staging buffer `tx_buf`, arming state, two windows and their shadow toggle, `tx_stage` | nominate, publish, withdraw, queue, kick, completion, refill, wind-down, session flush, bus reset | bytes in order, none twice; the credit the drain loops wait on is exact; a refill never hits the window in flight; nothing stays behind for want of a kick |
| USB receive path | usb.c 480-560, 1420-1440, 1546-1600 | ring with 16-bit free-running indices, endpoint response | accept, deliver, read, re-open, flush | an open endpoint has a packet's room; nothing lost but by a session; no deadlock at NAK |
| Endpoint 2 control register | usb.c 370-447 | one byte: two responses (firmware), two toggles (SIE) | `uep2_ctrl_rmw()` | no toggle lost, no response lost |
| Interrupt transport | usb.c 260-300, 1346-1735; main.c 1802-1875 | `usb_irq_on`, `usb_irq_fault`, idle and burst counters, watchdog | arm, demote, disarm, poll, watchdog tick | one context serves the bus at a time, and always one; the main loop runs |
| Wire parser | proto.c 360-1154 | the static `P`, page-terminator flag | feed a byte, feed a run of payload, time out, reset | every byte is taken for what it was sent as; a half command dies with its host |
| Receive loop and LK seam | main.c 1900-2010; lk_glue.c 20-120, 280-404 | batch in hand, link edge, pushed-back header | receive, wait for payload, dispatch to LK or parser | each command answered once, in order |
| Flash programming | main.c 930-1605; proto.c 780-880, 990-1090 | `program_done`, `program_stream_err`, payload | pump while receiving, program the tail, word loop, bypass | acknowledged data is on the chip; stop after a timeout |
| Cartridge supply | cart.c 56-186; main.c 104-167, 2107-2141; proto.c 585-672 | VCC and 5 V pins, line directions, `g_cart_ready_at`, requests | mode, voltage, power, tri-state, pull-ups, audio, wait | no 5 V outside DMG; no access to a cold cartridge; no line driven into a falling rail |
| Readers | main.c 500-830, 1608-1800 | address, open 3D page | ROM, save, EEPROM, CRC, 3D reads | exactly `transfer_size` bytes per read |
| Writers, bank table, raw flash commands | main.c 695-760, 977-1048, 1193-1398, 2027-2097 | tables in `fw_state_t` | write, unlock, program, poll | order, addressing, nothing sent to a busy chip |
| Endpoint 0, descriptors | usb.c 960-1185, usb_desc.c | setup state, address, line state | enumeration, class requests | a control transfer ends; DTR opens a session |
| Variable state, LK mirror | proto.c 130-358; lk_glue.c 194-274 | `fw_state_t` and LK's copy | set, get, save, restore, mirror | the two copies agree around a routed command |
| LK dispatcher | vendored, not in the repository | `_lk_var*` | routed DMG commands | used as the seam expects |
| Cartridge bus | cart.c 188-1991 | GPIO pins, `/WE` pin in use | latch, burst, write, poll, turn round, release | one driver a line; the cartridge sees what was asked; pins parked after every command |
| Timebase | timebase.c | 24-bit lap counter, accumulated ms | read the clock | no lap lost |
| Start-up, linker script | start.S, vectors.S, ld/ | | | |
| Host driver, updater | hw_GBFlash.py | outstanding answers, remembered variables | pipelined reads, resynchronise, retry, drain | no answer taken for another's; nothing owed between calls |
| Tests, tools, patches | host/, tools/, patches/ | | | |

The thread calls the USB layer through `bl_usb_rx/tx/tx_direct_*/poll`; the
handler shares their state with it, partly under `USB_LOCK` and partly not. The
parser only records what is to be done (`*_requested`); the main loop does it in
the same turn, before it takes the next byte, and sends the reply the parser
left. In DMG mode some opcodes go to LK's `lk_loop()` instead, which takes its
bytes through `fw_lk_conn_recv()`.

What is hard here: the SIE runs concurrently with both contexts and is told to
go on by clearing one flag; that flag is cleared before the work is finished
(pipeline); one register is written by hardware and by two contexts without
arbitration; the transport changes hands at run time; three readers consume one
unframed stream; a payload is programmed while it arrives and may be abandoned,
refused or fail half way; a host may go away, close its port or reset the bus
at any point; some forty bus routines share the pins and each relies on what the
one before it left there; and the host keeps a read outstanding over a link that
may stand still longer than it waits.

## Modules

| Module | Models |
|---|---|
| `ByteStream` | abstract: an in-order, at-most-once stream that loses only a suffix |
| `UsbTx` | the transmit path, its callers in main.c, the SIE's IN side and the host |
| `UsbTxProofs` | theorems about `UsbTx` |
| `UsbRx` | the receive path, the SIE's OUT side and the host |
| `UsbRxProofs` | theorems about `UsbRx` |
| `Ep2Ctrl` | endpoint 2's control register at the grain of single accesses |
| `UsbService` | extends `Ep2Ctrl`: who runs `usb_service()`, arming, demotion, watchdog |
| `UsbServiceProofs` | theorems about `UsbService` and `Ep2Ctrl` |
| `Wire` | opcodes, their argument counts and kinds, as the host sends them |
| `CommandServer` | abstract: whole commands, each answered once in order |
| `Dispatch` | parser, receive loop and LK seam, byte by byte |
| `DispatchProofs` | theorems about `Dispatch` |
| `BlockWriter` | abstract: a block written in order, acknowledged only when complete |
| `FlashProgram` | CMD_FLASH_PROGRAM from opcode to answer, both buses |
| `FlashProgramProofs` | theorems about `FlashProgram` |
| `CartRail` | the cartridge's supply, its lines and the power-on settle time |
| `CartRailProofs` | theorems about `CartRail` |
| `BusCycles` | each bus routine of cart.c as its sequence of port stores and samples |
| `CartBus` | extends `BusCycles`: the commands that run them, the pins, the cartridges |
| `CartBusProofs` | theorems about `CartBus` |
| `HostLink` | the driver's `ReadROM()` and `_try_write()` over the link and the device |
| `HostLinkProofs` | theorems about `HostLink` |
| `MC*` | instances for TLC |

The components are not composed into one state space: each has the neighbour's
interface as its environment. `UsbTx` and `UsbRx` take a change of endpoint 2's
response as atomic, which `UsbService` shows `uep2_ctrl_rmw()` to be; `Dispatch`
takes the two byte streams as sequences, which is what `ByteStream` gives it;
`FlashProgram` takes its payload as `Dispatch` delivers it, and a load as one
step, which `CartBus` takes apart into stores; `HostLink` takes the device as the
`CommandServer` that `Dispatch` implements.

### USB transmit: `UsbTx` implements `ByteStream`

A byte is the number under which it was produced, so order, loss and
duplication can be told from the host's sequence. The thread runs a bounded
number of commands: a read (`BeginRegion`, `Publish`, then `EndRegion` when the
credit is complete or `StallEnd`) or a reply (`QueueChunk` per lock section,
`QueueKick`). A completion is two actions, as in the code: the flag is cleared
(`InDoneRelease`), then the other window is refilled (`RefillWindow`,
`WindDown`); in between the SIE may finish the next packet. While `irq_on` the
handler interleaves with the thread everywhere outside a lock; otherwise it
runs at the thread's poll points only.

Correct means, besides the refinement: `CreditExact` (bytes credited, in
windows and staged add up), `RefillsTheFreedWindow` (the shadow toggle names the
window last completed although the SIE may have moved on), `StageNeverOverruns`,
`ParkedMeansTerminated` (a transfer that ended on a full packet is closed),
`FinishedIsDelivered` (a region withdrawn as finished is at the host), and
`ReadsEnd`, `AllDelivered`. `NoStaleWindow` is what the comment above
`ep2_tx_other()` claims (an open endpoint never sends a window the host already
has): a theorem where grains are whole packets; see Findings where they are not.

### USB receive: `UsbRx` implements `ByteStream`

Units are numbered as the SIE accepts them. `bl_usb_rx()` is five actions
(sample, copy, load the tail, store it, re-open), because it uses no lock.
Retransmissions under an old toggle arrive and are dropped. The indices wrap at
`Wrap`. `RingSound` is: an open endpoint has a packet's room (`CreditImpliesRoom`)
and the ring never holds more than its size (`RingNeverOverruns`). `MidReadOpens` says whether a session boundary may be served inside
`bl_usb_rx()`: it may, and that is the second finding; without it the ring is
correct, which the passing run shows.

### Endpoint 2's register and the interrupt: `UsbService`

`uep2_ctrl_rmw()` is check, read, re-check, store, verify, each a step; between
any two the SIE may complete a transaction (which latches the flag and flips a
toggle) and the handler may preempt the thread. `seq` holds the toggles the two
ends of the bus agreed on and `asked` the responses last asked for, both
invisible to the code. `UsbService` adds the main loop (poll, tick, work), the
arming sequence with its window between enabling IRQ6 and setting
`usb_irq_on`, the handler's two limits, the watchdog and the environment: bus
resets, an interrupt source that is never cleared, an interrupt line that dies.
Deadlines are nondeterministic. The reasons in `usb_irq_fault` are one; the
static check of the vector table and VTOR is left out; SET_CONFIGURATION is
taken to follow a bus reset.

Correct means: `TogglesInStep`, `ResponsesAsAsked`, `NoEventSwallowed`,
`TransportSound` (one context serves the bus at a time, `OneServer`, and with the
interrupt armed the SIE is the handler's, `IrqOwnsTheSie`), and the liveness of
`EventsServed` and `MainLoopRuns`. `EventsServed` leaves out one case, because the code does: the
watchdog looks only at a pending transmission, so an interrupt line that dies
while nothing is being sent goes unnoticed until something is.

### Commands: `Dispatch` implements `CommandServer`

A byte is [c, i], the i-th of command c: what the host meant, of which the
device sees only the value. That makes `InFrame` expressible: the device takes
every byte for what it was sent as. The three readers are modelled with their
own limits: the parser (`FeedOpcode`, `FeedArg`, `FeedPayload`, the last taking a
run), the wait loop (`WaitReceive`, `WaitGiveUp`) and a routed command
(`LkStart`, `LkReceive`, `LkGiveUp`, `LkDone`). The host may die, the link may
be reset and come back, and time may pass. The opcodes are one of each shape:
no argument, argument, payload by size, payload by count, 3D read with its
terminator, routed and not routed.

`QuickReset` says whether a reset and enumeration may fit inside one long wait;
they may, and that is a finding; without it `NoMixedCommand` holds. The passing
run checks both it and `InFrame` as `ParserSound`.

### Programming: `FlashProgram` implements `BlockWriter`

`Receive` takes payload in batches and is followed by the pump; a complete
block goes to `do_flash_program()`, which resumes at the next load boundary; the
unbuffered loop programs word by word, skips 0xFF on the DMG bus and may use unlock
bypass. Any load may time out, any block may be abandoned half received, and
the configuration may change between blocks. `cells` is what the chip holds and
where. A load is one step: nothing that runs meanwhile touches this state.

### Supply: `CartRail`

A command leaves at most one kind of work and the main loop does it in the same
turn, so `work` stands for the request flags. `since` is the signed, wrapping
difference between the clock and `g_cart_ready_at`; `age` is how long the
cartridge has really had its supply. `driven` is the set of line groups that
are outputs. Accesses are of two kinds: those that call `cart_wait_ready()`,
and the few that do not (FLASH_PROGRAM, the MBC reset outside DMG mode).
`ClockWraps` says whether 2^31 ms may go by after a power-on.

Two things the model makes visible and no property rules out: an access after
a power-off drives the buses again although the rail is down; and a 5 V request refused in AGB mode remains the standing
request and is granted by the first power-on in DMG mode. CLK is in none of the
line groups: the code never releases it.

### The bus: `BusCycles` and `CartBus`

A routine of cart.c is a sequence of stores to the ports, in the order the code
makes them; `Play` makes the next one. A sample is an element of the sequence too,
and a poll is an element that puts another look before itself until the chip
answers, the cap is reached or the time is over. Counted instructions between
stores are left out: the model has the order of edges, not their distance.

The address is split as on the connector: `Lo` on AD (16 lines), `Hi` on the low
byte of PB, three lines each in the instance. `pins` holds latches and directions
apart, because most of what can go wrong is a latch set before its direction or a
direction left from an earlier command.

The cartridge is at the other end and sees edges only: the ROM latches its address
when /CS falls and counts it up with /RD, over the low half alone; the save chip
answers on D0..D7 behind /CS2; the EEPROM takes and gives one bit an edge; the 3D
mapper has a window that stays selected over several commands; the clock shifts on
SCK; a DMG cartridge takes a write with /WR or with AUDIO. A flash chip takes
commands in AMD's order and is busy for an unknown time after each program.
An undriven line gives `NoAt`.

`ask` is what the host asked for, by its own count of the address, and `seen` what
the cartridge took and gave. `AsAsked` compares the two: it fails for an address
that steps by the wrong amount, a chunk boundary off by one, a stale direction, a
store out of order, a bit too few, an unlock sent to a busy chip. `NoContention`:
device and cartridge never drive the same line. `StableInStrobe`: address and
data stand still while a write strobe is low. `PinsSound`: after every command
strobes and selects are released (a page in hand keeps /CS) and on a DMG
cartridge D0..D7 are inputs. `NoBackPower`: no line is high into a dead rail.

Assumed of the outside: the host reads and writes a powered cartridge in the mode
that fits it, tells the device the write-enable pin the cartridge has, keeps
`ADDRESS` within it and aligned to its latch groups, ends a 3D page it began before
it powers off; the
save chip answers within the polls the code allows; the other chips' answers may
never come, and then the device gives up as the code does. `FirstReadback` is
exempt from `NoContention`; see the divergences.

### The driver: `HostLink`

`ReadROM()` sets what it does not remember, sends one read opcode ahead of the one
it waits for, and returns a region or nothing. `_try_write()` resynchronises with
null bytes, drains and retries. A byte is data with its address, or an ACK, and the
device's answers are in one queue: that a late ACK may be taken for another's is
what the model is about. The link may stand still (`SlowDown`) while an
answer is awaited, long enough for the driver's read to time out, and the device
may give up a reply half way, as it does after `FW_TX_STALL_MS`. Other code may set
the variables `ReadROM()` remembers, and the device may be restarted.

Correct means: `ReadExact` (what it returns is the region asked for),
`AckIsOwn` (an ACK is taken for the command it answers), `MemoTrue` (what is left
unsent is what the device holds), `LinkSound` (nothing owed between calls),
`CallsEnd`. Assumed: a stand of the link is over before the drain's 0.2 s of
quiet are, it does not recur inside a resynchronisation, and it is shorter than the
driver's 20 null bytes. The drain's 2.0 s deadline is left out.

## Runs

| Run | Instance | Shows |
|---|---|---|
| `usb_tx` | packets of 2 units, staging buffer of 4, lock chunks of 2, regions of 1, 4, 7, grains of 2 and 6, replies of 1 and 5, two commands; 1.7 M states | safety and `ImplementsByteStream` |
| `usb_tx_live` | staging buffer of 2, region of 5, reply of 3, two commands; 0.2 M states | `ReadsEnd`, `AllDelivered` |
| `usb_rx` | ring of two packets, indices modulo two rings, 9 units, one session boundary | safety, refinement, `EndpointReopens` |
| `dispatch` | limits of 1, 2 and 3 units, batches of 3 bytes, two commands | framing, refinement, liveness |
| `flash_program` | payload of 6, transfers of 5 and 7, buffers of 0, 1, 3, three methods, two blocks | refinement, safety, `BlockEnds` |
| `usb_service` | idle limit 2, burst limit 4, one register store per service; 0.44 M states | safety and liveness of the transport |
| `cart_rail` | settle 1, ACK 2, power-on 6, host 20, half range 32; 84 k states | supply and settle time |
| `cart_bus` | seven cartridges; buses of 8 by 8; transfers of 4 and 8, latches of 2, 4 and 6, grain 2; 1.08 M states | every bus command, store by store |
| `host_link` | regions of up to 3 reads of 1 or 2 units, 2 retries, 2 null bytes, 2 stands, 1 cut, 3 calls; 0.26 M states | resynchronisation, pipelining, memory |
| `usb_tx_latch`, `usb_rx_session`, `dispatch_reset` | as above, with the one assumption lifted | the findings below |

Why these bounds are enough to be interesting. A unit of `UsbTx` is half a
packet, so regions end on full and on short packets and grains are aligned and
not; 7 units are four packets, more than the pipeline holds, so it is primed,
refilled and wound down; the 5-unit reply is longer than the staging buffer. In
`UsbRx` packets straddle the ring's end and the indices wrap twice. In
`Dispatch` each limit lies below, at and above some command's size, and a batch
holds the end of one command and the start of the next. In `FlashProgram` the
transfer of 7 does not fit the payload, 5 is odd on the two-byte bus, and a
buffer of 3 is a word and a half; the second block follows an abandoned,
refused, failed or acknowledged first one. In `UsbService` both limits are
reached by real sequences. In `CartRail` the times keep their order; the clock's
range only has to exceed them. In `CartBus` a transfer is longer and shorter than a
step, a latch of 6 divides neither, reads cross the AD lines' wrap, and every
routine follows every other the host may send after it. In `HostLink` a region is
longer than the two reads in flight and a second call follows a failed one.

The type invariants of `UsbTx`, `FlashProgram` and `CartRail` and `CartRail`'s
`LinesFollowRail` are proved and left out of the runs; the other modules' are part
of the named conjunctions (`RingSound`, `ParserSound`, `TransportSound`, `PinsSound`,
`LinkSound`).

Bounds on otherwise unbounded things: `MaxJobs`, `MaxUnits`, `MaxSessions`,
`MaxCmds`, `Window`, `MaxBlocks`, `MaxWrites`, `MaxAddr`, `PollCap` (2 for 400),
`MaxReads`, `Retries` (2 for 5), `Hp` (2 for 20), `MaxStalls`, `MaxCuts`, `MaxCalls`.
Deadlock is checked except in `host_link`, where the calls are used up and the driver
really stops; elsewhere an action (a poll, a tick, a command, a host that reads or
stops reading) stays enabled, as in the device.

### Fairness

* The thread's code runs on (weak fairness): there is one thread and no blocking
  call; every wait loop polls.
* A raised interrupt is served: weak fairness in `UsbTx`, where the event stays
  up until served; strong in `UsbRx` and `UsbService`, where the thread masks
  and unmasks it again and again and the interrupt is taken as the mask lifts.
* `SieIn` is strongly fair in `UsbTx` under a host that keeps reading: the
  host controller polls the endpoint repeatedly between other traffic. Whether
  the host reads is not assumed; `ReadsEnd` holds when it does not.
* `StallEnd` (and the watchdog's verdict in `UsbService`) is strongly fair: a
  deadline that is overdue at every look is acted on at one of them.
* In `Dispatch` bytes on their way arrive and time passes.
* In `HostLink` the device, the link and the driver's own code go on, and a stand of
  the link ends. That it comes to a stand, cuts a reply or is used for another
  call is never assumed.
* In `FlashProgram` the host goes on sending or goes away, and the chip's status
  loop ends, by success or by its own timeout.

## Proofs

`UsbTxProofs`. `TypeCorrect`, `CreditIsExact`, `RefillIsSafe`,
`StageIsBounded`, and `ParkedIsTerminated`, hold for every packet size, buffer size, grain, reply length and
number of commands; the only assumption is that sizes are positive naturals
(`UsbTxAssumption`). None is inductive alone. The inductive invariant `IInv` adds
that the region in the registers is the one the read is publishing
(`RegionIsTheReads`), that the ring's tail stays behind its head
(`RingBounded`), and `PipeInv`: armed means ACK, how many pipelined windows can
be outstanding given what has completed, and that the shadow toggle follows.
The heart is one lemma about `tx_pump()` (what it leaves armed is what it took
from the region), used by every action that pumps. `ParkedIsTerminated` adds that
`tx_last_full` is true to the last packet the host got (`LastFullIsTrue`), which
is what makes `tx_kick()`'s and the completion's terminators enough.
`FinishedMeansDelivered` has no hypothesis either: the bytes credited as sent are
the host's first bytes of the region (`CountedIsDelivered`), the pipelined windows
and the staged packet hold the ones that follow (`WindowsHoldTheRegion`), and
without a region there is no credit (`NoRegionNoCredit`).

`TxImplementsByteStream` and `AlignedIsNeverStale` have the hypothesis
`AlignedGrains`: every amount by which a read publishes its bytes is a whole number of packets, which
every read's is while the latch group is the stock one. Otherwise both statements are false, and
the run `usb_tx_latch` is the counterexample; the second theorem says that the grain is all that is
wrong there. The refinement maps the bytes in the windows, in the ring and left in the
region to the abstract queue, in this order. `StreamInv` says what each of the
three holds (a pipelined window's bytes are the region's, and the ring is then
empty); `OnPackets` says that what is published and what is copied end on packet
boundaries before the last one, so that `tx_pump()` never has half a packet to hold back while
the endpoint is open. Pumping and kicking then move bytes inside the queue
(`PumpKeepsOwed`, `KickKeepsOwed`), a completed IN takes them off its
head, and there is one lemma for each action. `InOrder` adds that the units the
host has and those owed are numbered upwards.

`UsbRxProofs`. `RingIsSound`, `OnlyBoundariesLose` and `RxImplementsByteStream` hold
for every packet size and every ring and wrap of the indices the code's arithmetic
admits (`UsbRxAssumption`: the ring holds a packet and the index range is a
multiple of the ring). The hypothesis `MidReadOpens = FALSE` says that no session
boundary is served inside `bl_usb_rx()`: with it true the statements are false, and
the run `usb_rx_session` is the counterexample. Most of the proof is arithmetic on indices that
wrap: the difference of two of them modulo the wrap is the number of units stored,
and moves with them (`UsedIs`, `UsedMoves`), and two units within a ring of each
other have different slots (`NearbyDiffer`). The invariant adds to the typed ring
that an open endpoint leaves a packet's room (`CreditImpliesRoom`), also while a
packet is on its way in (`PacketIsLetIn`); that while `bl_usb_rx()` is between its load
and its store of `rx_tail` nobody else writes it (`ReaderOwnsTheTail`) and the copy it makes is
what the ring still holds (`CopyIsTheRing`); and that every unit the SIE took is
counted somewhere (`NoneLost`). The refinement maps taken units to delivered ones and
ring plus window to the abstract queue.

`UsbServiceProofs`. `StoresKeepTheToggles`, `NoStoreIsLost`, `NoEventIsSwallowed` and
`OneServesTheBus` hold without a hypothesis, for every limit and number of stores:
they are the argument that an unlocked read-modify-write of a register the SIE
also writes is right. The invariant says, for each context inside
`uep2_ctrl_rmw()`, how its copy may differ from the register at each of its steps:
only by a toggle the SIE has flipped since, which its second look will then see
(`CopyInStep`, `SecondPassHeld`), or by the other direction's response, which
only a handler inside the thread's access can have changed (`Alone`, `CopyAsAsked`); and
who may be inside (`WhoRuns`). `TransportIsSound` has the hypothesis `OutOfReach`:
the handler does not demote itself in the gap between `NVIC` enable and
`usb_irq_on = 1`, and the limits exceed what one gap can use up. The code's limits are 8
idle entries and a burst of 20000 (usb.c:288, usb.c:291); that the gap itself is
open is the first divergence below.

`DispatchProofs`. `ParserIsSound` holds for every buffer, batch and transfer size, pair
count and payload byte, any number of commands in flight and any number of sessions. The hypothesis
`QuickReset = FALSE` says that no reset and enumeration fit inside one wait of
the loop; the run `dispatch_reset` is the counterexample otherwise. `InFrame` says where the next byte
stands in its command, and the device never sees that: the proof has to know why
the lengths agree. The invariant's parts: the bytes in reach are commands,
whole but at the two ends (`Framed`); reading on from the size the device holds
now, each sized command in reach is as long as the SET_SIZE before it said
(`Sized`, `Governs`), and the host's belief is what the device will hold at the
end (`SizedAfter`); a host that is there sends whole commands (`SentWhole`); the next byte is the one the
open reader takes (`HeadIsExpected`, for the parser and for LK); and a device
whose session may change has nothing open (`SessionInv`). Each action takes bytes off the head, adds a
command at the end or cuts the end, and there is one lemma for each of these.
`Sized` is what breaks if a SET_SIZE took effect late, or a payload that does not fit were cut short.
`DispatchImplementsCommandServer` has the same hypothesis. In its refinement mapping
a command is pending from when it is sent whole until its answer. A second invariant
(`DueInv`) says that commands stand in the stream in the order they were issued in, each in one
piece; that the awaited ones are exactly those that end in the stream or that LK holds; and that what the device has noted to answer fits the
command it is in. Then the last byte of a command is its `Serve`, a send its `Issue`, a
reset or a death of the host its `HostLeaves`, a stray answer `StrayError`, and every
other step a stutter.

`FlashProgramProofs`. `FlashProgramImplementsBlockWriter` is the refinement;
`AckedBlocksAreProgrammed`, `TimeoutsStopTheBlock`, `NeverLeftInBypass` and
`TypeCorrect` go with it, for every payload size, length, buffer size and history
(`FlashProgramAssumption`: naturals, and positive ones where zero means
nothing). The invariant joins `TypeOK` with: the payload's length agrees with
the transfer (`LengthsAgree`); the bytes held are this block's (`BytesAreThis`);
the pump's progress is a multiple of the load and never ahead of what arrived
(`StreamKeepsPace`), and everything before it is on the chip (`DoneIsDone`); a
timeout is noted where the tail looks (`TimeoutIsNoted`); the address is the
block's base (`AddressIsBase`).

`CartRailProofs`. `FiveVoltsOnlyAsAsked`, `GuardedAccessesAreWarm`,
`LinesWaitForRail` and `TypeCorrect`, for every settle, ACK and start-up time
and clock width, and whether or not the clock wraps. The strengthening is
`RailOfPlace` (the rail is up during a power-up, the lines released before the
rail is dropped) and `StartIsCharged`: while powering up, time had plus time to wait covers the wait;
after it, either the cartridge has started or its age and the time to
`g_cart_ready_at` together cover the start-up time. `AnswersAreInTime` has the
hypothesis `Patience`: the start-up charge and the longest command that switches
power fit in the time the host waits for an ACK (cart.h:41-49: 200 ms and 120 ms
of 1 s), and the clock does not come round (`ClockWraps = FALSE`); 2^31 ms after
a power-on the statement is false, see Findings.

`HostLinkProofs`. `ReadsAreExact`, `AcksAreOwn`, `MemoryIsTrue` and `LinkIsSound` hold
for every length, address, number of reads, retries and null bytes, and however
often the link stands still or a reply is cut. They rest on the model's reading of
the drain (`DrainEnds` waits until nothing is owed), named above, and on no fairness.
The invariant `IInv` has one part per phase of a call: at rest nothing is owed
(`QuietAtRest`); behind a first try exactly one command or answer is under way
(`OneIsOut`), behind a resynchronisation only the command in hand and null bytes,
and the command is on its way or done (`OnlyThisOne`); what a region needs is in the
device or in the list still to be sent (`ReadIsSetUp`); a write by other code has
emptied the memory (`OthersForget`); and while a region is read, the bytes kept,
in the port and on their way are counted against the reads asked for
(`StreamIsCounted`): either they are all there in order, or a reply was cut and the
count can never be made up, so the driver's last read or its look at the empty port
fails. That last disjunction is why a cut answer is never returned.

`CartBusProofs`. `OneDriver`, `PinsKept`, `DeadIsDark` and `StrobeHeld` hold for every
cartridge, port width, address, transfer, step, latch group and payload, and every order of
commands. What they need of the numbers: an or of two byte values is one, and is the second where
the first is 0 (`OrAssumption`: the real `|`, which the instance uses, has this); what the code
writes to a port fits it (`BusAssumption`, `RegAssumption`); and a transfer has bytes, and addresses
stay within what PA and the byte of PB can name (`CartAssumption`).

None of the properties says anything of the stores still to come, and whether one of them is in
order depends on all the ones before it. So the proof is about sequences. A `Mode` is what is
known of the bus between two stores; `Ok` says which store is in order in a mode
and what it leaves (/CS does not rise under /WR, the rail goes off with everything released, a port
does not turn under a strobe); `GoodRun` that a sequence is in order between two modes, each
`Calm` (no line with two drivers, nothing moving under a strobe). Every routine of
`BusCycles` and every command is a `GoodRun` from the mode that its caller leaves; the ones built by
a fold by induction over their length, which the library's `NatInduction` cannot serve here
and a lemma about subsets of Nat does (`SetInduction`). The invariant `IInv` says that the pins, the cartridge's frame and the
poll in hand fit a mode from which what is left of the command is a `GoodRun` to the mode the
command ends in, and its tail from wherever a poll may break off; and that device and host agree
(`Sides`: a page is open for both or for neither, AUDIO is where both think), without which
the mode a command begins in is not known. That `IInv` holds (`Inductive`) is the
statement that every routine finds the pins as it takes them to be.

Only model-checked: all liveness (it needs `ENABLED`, which is beyond the prover, for
the fairness); and `AsAsked`, which is about the values a whole command puts on the bus, and for
the EEPROM and the checksums about folds over their bits, by induction over data.

## Findings

1. `usb_tx_latch`: with a latch group that is not a multiple of the packet
   (CMD_FW_SET_LATCH 3), `tx_pump()`'s early return leaves the endpoint open over
   a window the host already has (usb.c:708 against usb.c:670).
2. `usb_rx_session`: a session boundary served inside `bl_usb_rx()` zeroes
   `rx_tail` between its load and its store; the ring then counts nearly 2^16
   bytes as waiting (usb.c:1563 against usb.c:258).
3. `dispatch_reset`: a bus reset and enumeration inside one long wait leave no
   edge at the top of the loop, and the half command lives on (main.c:1941
   against main.c:1938 and proto.c:981).

In each case the code's other promises hold where the one circumstance is
excluded, which the passing run of the same module shows.

Divergences met while modelling that have no run of their own:

* A handler that demotes itself before `bl_usb_irq_arm()` sets `usb_irq_on` is
  overruled, and nobody serves the bus (usb.c:1714 against usb.c:270 and
  usb.c:1678). With `DemotedWhileArming = TRUE` in `MCUsbService.cfg`
  `TransportSound` is violated.
* 2^31 ms after the last power-on `cart_wait_ready()` takes `g_cart_ready_at` to lie
  ahead and waits for it (main.c:159 against cart.h:47). With `ClockWraps = TRUE`
  in `MCCartRail.cfg` `AnsweredInTime` is violated.
* `fw_cart_init()` drives /WR, /RD, /CS and /CS2 high with the rail off, until the
  first power cycle (cart.c:59-68), where `fw_cart_power()` says "VCC before
  drive" (cart.c:98). `NoBackPower` starts with the first power-on (`host.been`).
* The first look of the save flash poll lowers /RD with D0..D7 still driven from
  the byte just sent (cart.c:1505-1507 after cart.c:1596-1601), where
  cart.c:1469-1470 says that reversing the turnaround "puts our outputs on the save
  chip's". The overlap lasts the eight counted instructions; `FirstReadback`
  exempts it.
* The save flash poll is left at its cap as it is at a match, and the command is
  ACKed either way (cart.c:1613-1626). The model's save chip answers in time.
* A 3D page the host leaves half read stays in hand across a power-off and a new
  ADDRESS: the next read continues a window the mapper no longer has
  (main.c:2221-2226). The model's host finishes its pages.
* `fw_cart_audio_drive(1)` makes PB20 an output before it raises its latch
  (cart.c:847-848): a low pulse if the latch was low. The model has it; it is
  no strobe where the host uses it so.
* An AT29LV512 page is given 15 ms where the comment above says "10-20 ms"
  (cart.c:1559-1565). In the model the chip's page is done by then.
* `do_flash_program()` does not call `cart_wait_ready()` (main.c:1478), which the
  other bus commands do.
* `_try_write()` returns on the user's cancel before it resynchronises
  (hw_GBFlash.py:526), which leaves the ACK it waited for owed; host/test_late_ack.py:2
  says that a late ACK "must not leave a byte on the wire". The model's user does
  not cancel.

## Not modelled, and why

* The timing of bus waveforms: counted instructions. `CartBus` has their order.
* Endpoint 0's control transfers: their effects (reset, session) are actions of
  the data-path modules; the transfers themselves are planned.
* The bank change table and `flash_commands_bank_1` (what LK does with them is not in
  the repository), the Intel and Sharp command sets (status masks instead of a
  data poll), the six-slot table's other contents.
* The terminator of a 3D page where a payload or a routed command comes next.
* `fw_state_t`'s other fields and LK's mirror; LK itself is not in the repository.
* `cart_powered` and `voltage_is_five`: no code acts on them. (`SET_VARIABLE` may
  write `cart_powered`, so QUERY_CART_PWR need not report the rail.)
* The timebase: a caller that does not ask for the time within one lap of the
  24-bit counter loses the lap (timebase.c:40); the models' deadlines are
  nondeterministic.
* Builds other than the default; start-up, tools, tests and the updater; of
  `LK_Device` what hw_GBFlash.py does not override.

## Plan

Done, in this order: `ByteStream`, `UsbTx` and its proofs; `UsbRx`; `Wire`,
`CommandServer`, `Dispatch`; `BlockWriter`, `FlashProgram` and their proofs;
`Ep2Ctrl`, `UsbService`; `CartRail` and its proofs; `BusCycles`, `CartBus` (with the
3D page and the readers' and writers' arithmetic); `HostLink` and its proofs; the
proofs of `UsbService`, `UsbRx` and `Dispatch`; `UsbTx` as an implementation of
`ByteStream`, and `Dispatch` of `CommandServer`; the proofs of `CartBus`.

Next, most important first:

1. Endpoint 0 (usb.c:960-1185): setup, data and status stages, address, DTR.
2. A session without a bus reset in `Dispatch`; the terminator of a 3D page that
   a payload or a routed command follows.
3. `Timebase`: laps of the 24-bit counter, and which callers may exceed one.
