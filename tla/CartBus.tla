------------------------------ MODULE CartBus ------------------------------
(* The cartridge bus: what the commands of main.c make the pins do through *)
(* the routines of cart.c (BusCycles), a store at a time, with the         *)
(* cartridge at the other end, and what the host asked for next to what    *)
(* the cartridge saw.                                                      *)
(*                                                                         *)
(* The cartridge is external: a ROM that latches AD and A16.. when /CS     *)
(* falls and counts on each /RD, a save chip behind /CS2, an EEPROM on     *)
(* AD0, a 3D mapper, a clock behind GPIO, or a DMG cartridge, plain or     *)
(* with its flash /WE on AUDIO; a flash chip is busy for a time of its     *)
(* own after a program, and takes no write until it is done.               *)
EXTENDS BusCycles

CONSTANTS OrHi(_, _),     \* the bitwise or of two values of the low byte of PB
          Kinds,          \* the cartridges that may be in the slot
          MaxAddr,        \* bound: the host keeps ADDRESS within it
          Starts,         \* the addresses the host chooses
          Transfers,      \* lengths in bytes of the host's transfers
          CartLatches,    \* cart_latch, bytes
          CartStep,       \* cart_step, bytes
          ReplyBytes,     \* sizeof g_reply
          BufferSize,     \* buffer_size, bytes: a 3D page, a flash buffer
          Data,           \* the values the host writes
          Pairs,          \* and the payloads, two values each
          Cmd25, Cmd29, Cmd20, Cmd90,     \* write buffer and unlock bypass
          PollCap,        \* 400 polls of the save chip
          RtcStatus, RtcDate, DateBytes,  \* the clock's two commands
          PubGrain        \* FW_DMG_PUB_GRAIN, bytes

(* What the bitwise or keeps to, of what the bus depends on. *)
ASSUME OrAssumption ==
  \A a, b \in 0 .. HiSize - 1 : OrHi(a, b) \in 0 .. HiSize - 1 /\ OrHi(0, b) = b

(* A transfer has bytes: an empty read of a 3D page would open its window   *)
(* and leave page_bytes_done at 0, as before it.  The DMG commands aim      *)
(* anywhere in the low half's values.                                       *)
ASSUME CartAssumption ==
  /\ Kinds \subseteq {"agb_sram", "agb_flash", "agb_eep", "agb_3d", "agb_rtc", "dmg", "dmg_audio"}
  /\ MaxAddr \in Nat /\ Starts \subseteq 0 .. MaxAddr
  /\ Transfers \subseteq Nat \ {0} /\ CartLatches \subseteq Nat \ {0}
  /\ {CartStep, ReplyBytes, BufferSize, PollCap, PubGrain} \subseteq Nat \ {0}
  /\ LoSize <= MaxAddr + BufferSize /\ 2 * MaxAddr < LoSize * LoSize
  /\ MaxAddr + BufferSize < 2 * LoSize * HiSize
  /\ Data \subseteq 0 .. HiSize - 1 /\ Pairs \subseteq [1 .. 2 -> 0 .. HiSize - 1]
  /\ {Cmd25, Cmd29, Cmd20, Cmd90} \subseteq 0 .. HiSize - 1
  /\ RtcStatus \in Seq({0, 1}) /\ RtcDate \in Seq({0, 1}) /\ DateBytes \in Nat

VARIABLES kind,       \* the cartridge
          pins,       \* the port registers cart.c writes
          cart,       \* the cartridge's own state
          prog,       \* the stores the command has still to make
          cmd,        \* the command in hand
          st,         \* fw_state_t and cart.c's statics
          host,       \* what the host takes the device's ADDRESS for
          ask,        \* what the host meant the cartridge to see,
          seen        \* and what it saw

vars == <<kind, pins, cart, prog, cmd, st, host, ask, seen>>

Agb == kind \in {"agb_sram", "agb_flash", "agb_eep", "agb_3d", "agb_rtc"}
None == "none"
NoAt == 2 * LoSize * HiSize     \* an address nobody drove

-----------------------------------------------------------------------------
(* The pins after one store. *)
Put(p, s) ==
  CASE s.reg = "PA_OUT"  -> [p EXCEPT !.pa = s.n]
    [] s.reg = "PA_AD0"  -> [p EXCEPT !.pa = (@ \div 2) * 2 + s.n]
    [] s.reg = "PA_DIR"  -> [p EXCEPT !.paOut = (s.n = 1), !.ad0Out = (s.n = 1)]
    [] s.reg = "AD0_DIR" -> [p EXCEPT !.ad0Out = (s.n = 1)]
    [] s.reg = "HI_CLR"  -> [p EXCEPT !.hi = 0]
    [] s.reg = "HI_OUT"  -> [p EXCEPT !.hi = OrHi(@, s.n)]
    [] s.reg = "HI_DIR"  -> [p EXCEPT !.hiOut = (s.n = 1)]
    [] s.reg = "PB_CLR"  -> [p EXCEPT !.low = @ \cup s.ls]
    [] s.reg = "PB_OUT"  -> [p EXCEPT !.low = @ \ s.ls]
    [] s.reg = "PB_DIR"  -> [p EXCEPT !.out = IF s.n = 1 THEN @ \cup s.ls
                                              ELSE @ \ s.ls]
    [] s.reg = "VCC_EN"  -> [p EXCEPT !.rail = (s.n = 1)]
    [] OTHER -> p

(* An active-low line is asserted when driven low into a live cartridge: a *)
(* released one is pulled high there.                                      *)
On(p, l) == p.rail /\ l \in p.out /\ l \in p.low
Fell(p, q, l) == ~On(p, l) /\ On(q, l)
Rose(p, q, l) == On(p, l) /\ ~On(q, l)

(* What a write finds on the lines: nothing it can use where nobody drives. *)
OnPa(q) == IF q.paOut THEN q.pa ELSE NoAt
OnHi(q) == IF q.hiOut THEN q.hi ELSE NoAt

-----------------------------------------------------------------------------
(* The cartridge: what one change of the pins does to it.  Each operator   *)
(* gives its next state and what it saw.                                   *)
Quiet(c) == [c |-> c, log |-> << >>]

EepSelected(c) == kind = "agb_eep" /\ c.at # NoAt /\ c.at \div LoSize = HiSize - 1

(* A read command came in whole: two bits, the address and a zero. *)
EepReading(c) == Len(c.bits) = EepAddrBits + 3 /\ SubSeq(c.bits, 1, 2) = <<1, 1>>

BitsValue(bits) == FoldLeft(LAMBDA v, b : 2 * v + b, 0, bits)
EepAddr(c) == BitsValue(SubSeq(c.bits, 3, 2 + EepAddrBits))
EepWord(c) == BitsValue(SubSeq(c.bits, 3 + EepAddrBits, 2 + EepAddrBits + EepBits))

(* /CS falls: the address is latched, and an EEPROM that holds a whole read *)
(* command starts to answer.                                                *)
Latched(q, c) ==
  LET d == [c EXCEPT !.at = IF q.paOut /\ q.hiOut THEN q.pa + LoSize * q.hi ELSE NoAt,
                     !.n = 0] IN
  Quiet([d EXCEPT !.eepOut = EepSelected(d) /\ EepReading(d),
                  !.bits = IF EepReading(d) THEN @ ELSE << >>])

(* The address a ROM cycle is at: the count runs on the latched low half, *)
(* the high lines are live.                                               *)
RomAt(p, c) ==
  IF c.at = NoAt \/ ~p.hiOut THEN NoAt
  ELSE p.hi * LoSize + ((c.at + c.n) % LoSize)

(* /CS rises: an EEPROM takes a whole write command, and forgets one it *)
(* has answered.                                                        *)
Deselected(c) ==
  LET whole == /\ EepSelected(c) /\ SubSeq(c.bits, 1, 2) = <<1, 0>>
               /\ Len(c.bits) = 3 + EepAddrBits + EepBits IN
  [c |-> [c EXCEPT !.bits = IF whole \/ c.eepOut THEN << >> ELSE @, !.eepOut = FALSE],
   log |-> IF whole THEN << <<"weep", EepAddr(c), EepWord(c)>> >> ELSE << >>]

(* A flash chip takes one write cycle: AMD's unlock, byte program, write *)
(* buffer and unlock bypass.  A busy one takes none.                     *)
ChipAfter(ch, a, v) ==
  LET to(x) == [ch EXCEPT !.at = x]
      done(x) == [ch EXCEPT !.at = x, !.busy = TRUE] IN
  CASE ch.busy -> ch
    [] ch.at = "read" -> to(IF a = Unlock1 /\ v = CmdAA THEN "one" ELSE "read")
    [] ch.at = "one" -> to(IF a = Unlock2 /\ v = Cmd55 THEN "two" ELSE "read")
    [] ch.at = "two" -> to(CASE v = CmdA0 -> "byte" [] v = Cmd25 -> "count"
                             [] v = Cmd20 -> "bypass" [] OTHER -> "read")
    [] ch.at = "count" -> [ch EXCEPT !.at = "load", !.left = v + 1]
    [] ch.at = "load" -> IF ch.left > 0 THEN [ch EXCEPT !.left = @ - 1]
                         ELSE IF v = Cmd29 THEN done("read") ELSE to("read")
    [] ch.at = "byte" -> done("read")
    [] ch.at = "bypass" -> to(CASE v = CmdA0 -> "bypassed" [] v = Cmd90 -> "exit"
                                [] OTHER -> "bypass")
    [] ch.at = "bypassed" -> done("bypass")
    [] ch.at = "exit" -> to("read")

HasChip == kind \in {"agb_flash", "dmg", "dmg_audio"}

(* A write cycle a memory or a chip takes, seen unless the chip is busy. *)
Taken(c, tag, a, v, chip) ==
  IF HasChip /\ chip
  THEN [c |-> [c EXCEPT !.chip = ChipAfter(@, a, v)],
        log |-> IF c.chip.busy THEN << >> ELSE << <<tag, a, v>> >>]
  ELSE [c |-> c, log |-> << <<tag, a, v>> >>]

(* The clock's GPIO: SIO is taken, or the next bit shown, on SCK rising *)
(* with CS up; the window closing is seen.                              *)
Gpio(c, a, v) ==
  LET g == c.gpio
      clocked == g.ctrl = 1 /\ g.data \div 4 = 1 /\ v \div 4 = 1
                   /\ g.data % 2 = 0 /\ v % 2 = 1
      opened == g.data \div 4 = 0 /\ v \div 4 = 1 IN
  IF a = RtcCtrl THEN
    [c |-> [c EXCEPT !.gpio.ctrl = v],
     log |-> IF v = 0 THEN << <<"closed", 0, 0>> >> ELSE << >>]
  ELSE IF a = RtcDir THEN Quiet([c EXCEPT !.gpio.dir = v])
  ELSE Quiet([c EXCEPT !.gpio =
         [@ EXCEPT !.data = v,
                   !.in = CASE opened -> << >>
                            [] clocked /\ g.dir = 7 -> Append(@, (v \div 2) % 2)
                            [] OTHER -> @,
                   !.shown = CASE opened -> 0
                               [] clocked /\ g.dir = 5 -> @ + 1
                               [] OTHER -> @]])

(* /WR rises with /CS low. *)
RomWritten(q, c) ==
  LET a == RomAt(q, c) IN
  IF EepSelected(c) THEN
    Quiet(IF c.eepOut THEN c
          ELSE [c EXCEPT !.bits = Append(@, IF q.ad0Out THEN q.pa % 2 ELSE 2)])
  ELSE IF kind = "agb_3d" /\ \E i \in 1 .. 8 : M3dRegs[i] = a THEN
    Quiet([c EXCEPT !.regs = [i \in 1 .. 8 |-> IF M3dRegs[i] = a THEN OnPa(q) ELSE @[i]]])
  ELSE IF kind = "agb_rtc" /\ a \in {RtcData, RtcDir, RtcCtrl} THEN Gpio(c, a, OnPa(q))
  ELSE Taken(c, "wrom", a, OnPa(q), TRUE)

AgbAfter(p, q, c) ==
  CASE Fell(p, q, "cs") -> Latched(q, c)
    [] Rose(p, q, "cs") -> Deselected(c)
    [] Rose(p, q, "rd") /\ On(q, "cs") -> Quiet([c EXCEPT !.n = @ + 1])
    [] Rose(p, q, "wr") /\ On(q, "cs") -> RomWritten(q, c)
    [] Rose(p, q, "wr") /\ On(q, "cs2") -> Taken(c, "wsave", OnPa(q), OnHi(q), TRUE)
    [] OTHER -> Quiet(c)

DmgAfter(p, q, c) ==
  LET ram == OnPa(q) \in A15 .. LoSize - 1 IN
  CASE Fell(p, q, "cs2") -> [c |-> c, log |-> << <<"reset", 0, 0>> >>]
    [] kind = "dmg_audio" /\ Rose(p, q, "audio") ->
         Taken(c, "flash", OnPa(q), OnHi(q), TRUE)
    [] Rose(p, q, "wr") /\ ~ram ->
         Taken(c, "mbc", OnPa(q), OnHi(q), kind = "dmg")
    [] Rose(p, q, "wr") /\ ram /\ On(q, "cs") ->
         Taken(c, "ram", OnPa(q), OnHi(q), FALSE)
    [] OTHER -> Quiet(c)

CartAfter(p, q, c) == IF Agb THEN AgbAfter(p, q, c) ELSE DmgAfter(p, q, c)

(* What the cartridge drives: the AD lines, AD0 alone, the low byte of PB. *)
DrivesAd(p, c) == Agb /\ On(p, "cs") /\ On(p, "rd") /\ ~EepSelected(c)
DrivesAd0(p, c) == DrivesAd(p, c) \/ (Agb /\ On(p, "cs") /\ c.eepOut)
DrivesHi(p, c) ==
  \/ Agb /\ On(p, "cs2") /\ On(p, "rd")
  \/ ~Agb /\ On(p, "rd") /\ (p.pa < A15 \/ On(p, "cs"))

WindowBase(c) == (c.regs[4] * LoSize + c.regs[3]) \div 2

(* What a sample of the AD lines reads. *)
AdValue(p, c) ==
  IF ~DrivesAd(p, c) THEN <<"open", 0, 0>>
  ELSE IF kind = "agb_3d" /\ c.regs[1] # 0 /\ c.at = WinAt THEN
    <<"3d", WindowBase(c) + c.n, 0>>
  ELSE IF kind = "agb_rtc" /\ c.gpio.ctrl = 1 /\ RomAt(p, c) = RtcData THEN
    <<"rtc", BitsValue(c.gpio.in), c.gpio.shown>>
  ELSE <<"rom", RomAt(p, c), 0>>

Ad0Value(p, c) ==
  IF p.ad0Out \/ ~DrivesAd0(p, c) THEN <<"open", 0, 0>> ELSE <<"eep", EepAddr(c), c.n>>

HiValue(p, c) ==
  IF p.hiOut \/ ~DrivesHi(p, c) \/ ~p.paOut THEN <<"open", 0, 0>>
  ELSE IF Agb THEN <<"save", p.pa, 0>> ELSE <<"dmg", p.pa, 0>>

-----------------------------------------------------------------------------
NoCommand == [name |-> None, st |-> st, host |-> host, tail |-> << >>,
              polls |-> 0, got |-> FALSE, gaveUp |-> FALSE]

FreshCart ==
  [at |-> NoAt, n |-> 0, regs |-> [i \in 1 .. 8 |-> 0], bits |-> << >>,
   eepOut |-> FALSE,
   gpio |-> [data |-> 0, dir |-> 0, ctrl |-> 0, in |-> << >>, shown |-> 0],
   chip |-> [at |-> "read", left |-> 0, busy |-> FALSE]]

(* Reset: every line an input, every latch 0, and fw_cart_init() to come. *)
Init ==
  /\ kind \in Kinds
  /\ pins = [pa |-> 0, paOut |-> FALSE, ad0Out |-> FALSE, hi |-> 0, hiOut |-> FALSE,
             low |-> Lines, out |-> {}, rail |-> FALSE]
  /\ cart = FreshCart
  /\ prog = InitStores
  /\ st = [address |-> 0, page |-> 0, due |-> FALSE, audioOut |-> FALSE,
           we |-> "WR"]
  /\ host = [address |-> 0, done |-> 0, on |-> FALSE, been |-> FALSE, audio |-> FALSE]
  /\ cmd = [NoCommand EXCEPT !.name = "init"]
  /\ ask = << >> /\ seen = << >>

(* A command begins: its stores, what the host means by it, the state both *)
(* sides keep after it, and what is still done if a chip never answers.    *)
(* The terminator byte a 3D read left due is due no longer, unless the     *)
(* command is another such read.                                           *)
Begin(name, stores, meant, st2, host2, tail) ==
  /\ cmd.name = None /\ ~cart.chip.busy
  /\ prog' = stores /\ ask' = meant /\ seen' = << >>
  /\ cmd' = [NoCommand EXCEPT !.name = name, !.host = host2, !.tail = tail,
                              !.st = [st2 EXCEPT !.due = (name = "read_3d")]]
  /\ UNCHANGED <<kind, pins, cart, st, host>>

Sampled(s, p, c) ==
  CASE s.reg = "PA_PIN" -> << AdValue(p, c) >>
    [] s.reg = "PB_PIN" -> << HiValue(p, c) >>
    [] s.reg = "AD0_PIN" -> << Ad0Value(p, c) >>
    [] OTHER -> << >>

Polls == {"POLL_SAVE", "POLL_ROM", "POLL_DMG", "PAGE_WAIT"}
Checks == {"CHECK_AD", "CHECK_HI"}

(* The next store goes out.  The save chip answers within the polls the   *)
(* code allows it.                                                        *)
Play ==
  /\ prog # << >> /\ Head(prog).reg \notin Polls
  /\ LET s == Head(prog)
         q == Put(pins, s)
         r == IF q.rail THEN CartAfter(pins, q, cart) ELSE Quiet(FreshCart) IN
     /\ s.reg \in Checks /\ Agb /\ cmd.polls = PollCap => ~cart.chip.busy
     /\ pins' = q /\ cart' = r.c
     /\ seen' = seen \o r.log \o Sampled(s, q, r.c)
     /\ cmd' = IF s.reg \in Checks THEN [cmd EXCEPT !.got = ~cart.chip.busy] ELSE cmd
  /\ prog' = Tail(prog)
  /\ UNCHANGED <<kind, st, host, ask>>

PollAgain(stores) ==
  /\ prog' = stores \o prog
  /\ cmd' = [cmd EXCEPT !.polls = @ + 1]

PollEnds(rest) ==
  /\ prog' = rest
  /\ cmd' = [cmd EXCEPT !.polls = 0, !.got = FALSE]

PollGivesUp(stores) ==
  /\ prog' = stores \o cmd.tail
  /\ cmd' = [cmd EXCEPT !.polls = 0, !.got = FALSE, !.gaveUp = TRUE]

(* The save chip's byte: read back until it matches or the cap is reached. *)
PollSave ==
  /\ prog # << >> /\ Head(prog).reg = "POLL_SAVE"
  /\ IF cmd.got \/ cmd.polls = PollCap THEN PollEnds(Tail(prog))
     ELSE PollAgain(SramRead(Head(prog).n, 1, CheckHi))
  /\ UNCHANGED <<kind, pins, cart, st, host, ask, seen>>

(* agb_status_wait(): two peeks a turn, the clock read between them, 500 ms. *)
PollRom ==
  LET peek == [i \in 1 .. Len(Peek(Head(prog).n)) |->
                 IF Peek(Head(prog).n)[i] = SampleAd THEN CheckAd
                 ELSE Peek(Head(prog).n)[i]] IN
  /\ prog # << >> /\ Head(prog).reg = "POLL_ROM"
  /\ CASE cmd.got -> PollEnds(Tail(prog))
       [] ~cmd.got /\ cmd.polls = 1 ->
            PollGivesUp(<< >>) \/ (prog' = peek \o prog /\ cmd' = [cmd EXCEPT !.polls = 0])
       [] OTHER -> PollAgain(peek)
  /\ UNCHANGED <<kind, pins, cart, st, host, ask, seen>>

(* dmg_status_wait(), the turnaround made once, the strobe at each poll. *)
PollDmg ==
  LET read == DmgPollRead(Head(prog).n) IN
  /\ prog # << >> /\ Head(prog).reg = "POLL_DMG"
  /\ CASE cmd.got -> PollEnds(DmgPollClose \o Tail(prog))
       [] ~cmd.got /\ cmd.polls = 0 -> PollAgain(DmgPollOpen \o read)
       [] OTHER -> \/ PollGivesUp(DmgPollClose)
                   \/ prog' = read \o prog /\ UNCHANGED cmd
  /\ UNCHANGED <<kind, pins, cart, st, host, ask, seen>>

(* Method 2 waits 15 ms by the clock; the chip's page is done by then. *)
PageWait ==
  /\ prog # << >> /\ Head(prog).reg = "PAGE_WAIT" /\ ~cart.chip.busy
  /\ prog' = Tail(prog)
  /\ UNCHANGED <<kind, pins, cart, cmd, st, host, ask, seen>>

ChipDone ==
  /\ cart.chip.busy
  /\ cart' = [cart EXCEPT !.chip.busy = FALSE]
  /\ UNCHANGED <<kind, pins, prog, cmd, st, host, ask, seen>>

(* The command is over: the device steps its ADDRESS and the host counts *)
(* on its having stepped.                                                *)
Finish ==
  /\ prog = << >> /\ cmd.name # None
  /\ st' = cmd.st /\ host' = cmd.host
  /\ cmd' = [NoCommand EXCEPT !.st = cmd.st, !.host = cmd.host]
  /\ ask' = << >> /\ seen' = << >>
  /\ UNCHANGED <<kind, pins, cart, prog>>

(* The host stopped reading: the reader returns before it steps ADDRESS,  *)
(* and the host has to set it again.                                      *)
Stalled ==
  /\ prog = << >> /\ cmd.name \in {"cart_read", "save_read", "eep_read", "dmg_read"}
  /\ host' = [host EXCEPT !.address = NoAt]
  /\ cmd' = [NoCommand EXCEPT !.host = host']
  /\ ask' = << >> /\ seen' = << >>
  /\ UNCHANGED <<kind, pins, cart, prog, st>>

-----------------------------------------------------------------------------
(* Commands.  The host sends a bus command to a powered cartridge, between *)
(* two 3D pages, with ADDRESS known, and keeps it within MaxAddr.          *)
Between == host.done = 0
Powered == Between /\ pins.rail /\ host.on
Within(n) == host.address + n <= MaxAddr

Stepped(n) == [st EXCEPT !.address = @ + n]
Counted(n) == [host EXCEPT !.address = @ + n]
Span(tag, n) == [i \in 1 .. n |-> <<tag, host.address + i - 1, 0>>]

SetAddress ==
  \E a \in Starts :
    /\ Between
    /\ Begin("set_address", << >>, << >>, [st EXCEPT !.address = a],
             [host EXCEPT !.address = a], << >>)

PowerOn ==
  /\ Between
  /\ Begin("power_on", PowerOnStores(st.audioOut), << >>, st,
           [host EXCEPT !.on = TRUE, !.been = TRUE], << >>)

(* fw_cart_power(0): page_bytes_done stays as it is. *)
PowerOff ==
  /\ Between /\ host.on
  /\ Begin("power_off", PowerOffStores, << >>, st, [host EXCEPT !.on = FALSE], << >>)

FloatBus ==
  /\ Powered
  /\ \/ Begin("tristate", Tristate, << >>, st, host, << >>)
     \/ Begin("pullups", Pullups, << >>, st, host, << >>)

(* AGB_READ_METHOD: what a latch and a poll step are in bytes. *)
LatchBytes(method, latch) == CASE method = 0 -> 2 [] method = 1 -> 4 [] OTHER -> latch
StepBytes(method, latch) == IF method = 2 THEN latch ELSE CartStep

(* The largest whole number of latch groups in a step, one at least. *)
PerCall(step, latch) ==
  IF step < latch THEN latch ELSE (step \div latch) * latch

(* do_cart_read(): one leaf call for each such run of the transfer. *)
CartReadStores(a, len, method, cartLatch) ==
  LET latch == LatchBytes(method, cartLatch)
      per == PerCall(StepBytes(method, cartLatch), latch) IN
  Loop((len + per - 1) \div per, LAMBDA i :
    ReadLeaf(a + ((i * per) \div 2), Low2(per, len - i * per) \div 2, latch \div 2))

(* The count a ROM latches runs on its low half: a group does not cross. *)
Aligned(len) == host.address % (len \div 2) = 0

CartRead ==
  \E len \in Transfers, method \in 0 .. 2, latch \in CartLatches :
    /\ Agb /\ kind # "agb_3d" /\ Powered /\ Within(len \div 2) /\ Aligned(len)
    /\ Begin("cart_read", CartReadStores(st.address, len, method, latch),
             Span("rom", len \div 2), Stepped(len \div 2), Counted(len \div 2), << >>)

(* do_crc32(): chunks of the reply buffer; ADDRESS stays. *)
CrcStores(a, len, latch) ==
  Loop((len + ReplyBytes - 1) \div ReplyBytes, LAMBDA i :
    ReadLeaf(a + ((i * ReplyBytes) \div 2),
             Low2(ReplyBytes, len - i * ReplyBytes) \div 2, latch \div 2))

Crc ==
  \E len \in Transfers, latch \in CartLatches :
    /\ Agb /\ kind # "agb_3d" /\ Powered /\ Within(len) /\ Aligned(ReplyBytes)
    /\ Begin("crc", CrcStores(st.address, 2 * len, latch), Span("rom", len),
             st, host, << >>)

BootupRun ==
  /\ Agb /\ kind # "agb_3d" /\ Powered
  /\ Begin("bootup", Bootup, [i \in 1 .. Len(BootReads) |-> <<"rom", BootReads[i], 0>>],
           st, host, << >>)

(* 0xD1 and the flash arm of the batch: one word to the ROM bus. *)
AgbFlashWrite ==
  \E a \in Starts, v \in Data :
    /\ Agb /\ kind \notin {"agb_3d", "agb_rtc"} /\ Powered
    /\ Begin("write", AgbWrite(a, v), << <<"wrom", a, v>> >>, st, host, << >>)

-----------------------------------------------------------------------------
(* Save chip. *)
HasSave == kind \in {"agb_sram", "agb_flash"}
SaveSpan(tag, data) ==
  [i \in 1 .. Len(data) |-> <<tag, Lo(host.address + i - 1), data[i]>>]

SaveReadStores(a, len) ==
  SramOpen
    \o Loop((len + CartStep - 1) \div CartStep, LAMBDA i :
         SramRead(a + i * CartStep, Low2(CartStep, len - i * CartStep), SampleHi))
    \o SramClose

SaveRead ==
  \E len \in Transfers :
    /\ HasSave /\ Powered /\ Within(len)
    /\ Begin("save_read", SaveReadStores(st.address, len),
             [i \in 1 .. len |-> <<"save", Lo(host.address + i - 1), 0>>],
             Stepped(len), Counted(len), << >>)

SaveWriteStores(a, data) ==
  SramOpen \o Loop(Len(data), LAMBDA i : SramWrite(a + i, data[i + 1])) \o SramClose

SaveWrite ==
  \E data \in Pairs :
    /\ kind = "agb_sram" /\ Powered /\ Within(2)
    /\ Begin("save_write", SaveWriteStores(st.address, data), SaveSpan("wsave", data),
             Stepped(2), Counted(2), << >>)

(* The save arm of the batch, a bank switch for one: ADDRESS stays. *)
BatchSave ==
  \E a \in Starts \cap 0 .. LoSize - 1, v \in Data :
    /\ HasSave /\ Powered
    /\ Begin("batch", SaveWriteStores(a, <<v>>), << <<"wsave", a, v>> >>, st, host, << >>)

Unlocked(tag) ==
  << <<tag, Unlock1, CmdAA>>, <<tag, Unlock2, Cmd55>>, <<tag, Unlock1, CmdA0>> >>

SaveBytes ==
  \E data \in Pairs :
    /\ kind = "agb_flash" /\ Powered /\ Within(2)
    /\ Begin("save_program", SramProgram(st.address, data, 1),
             Unlocked("wsave") \o << SaveSpan("wsave", data)[1] >>
               \o Unlocked("wsave") \o << SaveSpan("wsave", data)[2] >>,
             Stepped(2), Counted(2), << >>)

(* Method 2: the host's ADDRESS is a page number. *)
SavePages ==
  \E v \in Data :
    LET data == [i \in 1 .. 2 * Sector |-> v]
        page(p) == Unlocked("wsave")
          \o [j \in 1 .. Sector |-> <<"wsave", Lo((host.address + p) * Sector + j - 1), v>>] IN
    /\ kind = "agb_sram" /\ Powered /\ Within(2)
    /\ Begin("save_pages", SramProgram(st.address, data, 2), page(0) \o page(1),
             Stepped(Len(data) \div Sector), Counted(2), << >>)

-----------------------------------------------------------------------------
(* EEPROM: len / 8 words of 8 bytes. *)
EepReadStores(a, words) == EepromBus \o Loop(words, LAMBDA i : EepromRead(a + i))

EepRead ==
  \E words \in 1 .. 2 :
    /\ kind = "agb_eep" /\ Powered /\ Within(words)
    /\ host.address + words <= 2 ^ EepAddrBits
    /\ Begin("eep_read", EepReadStores(st.address, words),
             Loop(words, LAMBDA w : [i \in 1 .. EepBits |->
               <<"eep", host.address + w, EepDummies + i>>]),
             Stepped(words), Counted(words), << >>)

EepWriteStores(a, data) ==
  EepromBus \o Loop(Len(data), LAMBDA i : EepromWrite(a + i, data[i + 1]))

EepWrite ==
  \E data \in [1 .. 2 -> [1 .. EepBits -> {0, 1}]] :
    /\ kind = "agb_eep" /\ Powered /\ Within(2)
    /\ host.address + 2 <= 2 ^ EepAddrBits
    /\ Begin("eep_write", EepWriteStores(st.address, data),
             [i \in 1 .. 2 |-> <<"weep", host.address + i - 1, BitsValue(data[i])>>],
             Stepped(2), Counted(2), << >>)

-----------------------------------------------------------------------------
(* Flash on the AGB ROM bus: one AMD buffer of agb_program_chunk(), and a  *)
(* word at a time.                                                         *)
ChunkStores(sa, words) ==
  AgbWrite(Unlock1, CmdAA) \o AgbWrite(Unlock2, Cmd55) \o AgbWrite(sa, Cmd25)
    \o AgbWrite(sa, Len(words) - 1) \o AgbWriteBurst(sa, words)
    \o AgbWrite(sa, Cmd29) \o << PollOf("POLL_ROM", sa + Len(words) - 1) >>

ProgramChunk ==
  \E words \in Pairs :
    /\ kind = "agb_flash" /\ Powered /\ Within(2)
    /\ Begin("program", ChunkStores(st.address, words),
             << <<"wrom", Unlock1, CmdAA>>, <<"wrom", Unlock2, Cmd55>>,
                <<"wrom", host.address, Cmd25>>, <<"wrom", host.address, 1>>,
                <<"wrom", host.address, words[1]>>, <<"wrom", host.address + 1, words[2]>>,
                <<"wrom", host.address, Cmd29>> >>,
             Stepped(2), Counted(2), << >>)

WordStores(pa, w) ==
  AgbWrite(Unlock1, CmdAA) \o AgbWrite(Unlock2, Cmd55) \o AgbWrite(Unlock1, CmdA0)
    \o AgbWrite(pa, w) \o << PollOf("POLL_ROM", pa) >>

ProgramWords ==
  \E words \in Pairs :
    /\ kind = "agb_flash" /\ Powered /\ Within(2)
    /\ Begin("program", WordStores(st.address, words[1]) \o WordStores(st.address + 1, words[2]),
             Unlocked("wrom") \o << <<"wrom", host.address, words[1]>> >>
               \o Unlocked("wrom") \o << <<"wrom", host.address + 1, words[2]>> >>,
             Stepped(2), Counted(2), << >>)

-----------------------------------------------------------------------------
(* 3D memory: the window opens on a page's first read and closes with its *)
(* last byte or on the terminator; ADDRESS steps a page.                  *)
PageEnded == [st EXCEPT !.page = 0, !.address = @ + BufferSize \div 2]
HostPaged == [host EXCEPT !.done = 0, !.address = @ + BufferSize \div 2]

Read3dStores(len) ==
  (IF st.page = 0 THEN M3dOpen(st.address, BufferSize) ELSE << >>)
    \o M3dRead(len \div 2)
    \o (IF st.page + len >= BufferSize THEN M3dClose ELSE << >>)

Read3d ==
  \E len \in Transfers :
    LET whole == host.done + len >= BufferSize IN
    /\ kind = "agb_3d" /\ pins.rail /\ host.on /\ Within(BufferSize \div 2)
    /\ host.done + len <= BufferSize
    /\ Begin("read_3d", Read3dStores(len),
             [i \in 1 .. len \div 2 |->
                <<"3d", host.address + (host.done \div 2) + i - 1, 0>>],
             IF st.page + len >= BufferSize THEN PageEnded ELSE [st EXCEPT !.page = @ + len],
             IF whole THEN HostPaged ELSE [host EXCEPT !.done = @ + len], << >>)

(* The host's bare null byte: the terminator of the page when one is due,  *)
(* and do_3d_page_end() for it; a RESYNC with an answer when none is.      *)
PageEnd ==
  LET ends == st.due /\ st.page # 0 IN
  /\ kind = "agb_3d" /\ pins.rail /\ host.on /\ host.address # NoAt
  /\ Begin("page_end", IF ends THEN M3dClose ELSE << >>, << >>,
           IF ends THEN PageEnded ELSE st,
           IF host.done = 0 THEN host ELSE HostPaged, << >>)

(* The clock: status, then the date. *)
RtcSpan(bits, n) == [i \in 1 .. n |-> <<"rtc", BitsValue(bits), i>>]
RtcReadRun ==
  /\ kind = "agb_rtc" /\ Powered
  /\ Begin("rtc", RtcRead(RtcStatus, RtcDate, DateBytes),
           RtcSpan(RtcStatus, RtcBits) \o << <<"closed", 0, 0>> >>
             \o RtcSpan(RtcDate, RtcBits * DateBytes) \o << <<"closed", 0, 0>> >>,
           st, host, << >>)

-----------------------------------------------------------------------------
(* DMG.  The ROM answers below A15 and the cartridge RAM above it, where the *)
(* host turns the /CS pulse on.                                              *)
Dmg == kind \in {"dmg", "dmg_audio"}
InRom(n) == host.address + n <= A15
InRam(n) == host.address >= A15 /\ host.address + n <= LoSize
OneSpace(csPulse, n) == IF csPulse THEN InRam(n) ELSE InRom(n)
Methods == {"RD", "A15", "SLOW_A15"}
DmgSpan(n) == Span("dmg", n)

(* do_dmg_read(): a step of the transfer, in calls of a grain each. *)
DmgReadStores(a, len, method, csPulse) ==
  DmgSetup
    \o Loop((len + CartStep - 1) \div CartStep, LAMBDA i :
         LET want == Low2(CartStep, len - i * CartStep) IN
         Loop((want + PubGrain - 1) \div PubGrain, LAMBDA j :
           DmgRead(a + i * CartStep + j * PubGrain, Low2(PubGrain, want - j * PubGrain),
                   method, csPulse, SampleHi)))

DmgReadRun ==
  \E len \in Transfers, method \in Methods, csPulse \in BOOLEAN :
    /\ Dmg /\ Powered /\ OneSpace(csPulse, len)
    /\ Begin("dmg_read", DmgReadStores(st.address, len, method, csPulse), DmgSpan(len),
             Stepped(len), Counted(len), << >>)

(* do_crc32() in DMG mode. *)
DmgCrcStores(a, len, method) ==
  DmgSetup \o Loop((len + ReplyBytes - 1) \div ReplyBytes, LAMBDA i :
    DmgRead(a + i * ReplyBytes, Low2(ReplyBytes, len - i * ReplyBytes), method,
            FALSE, SampleHi))

DmgCrc ==
  \E len \in Transfers, method \in Methods :
    /\ Dmg /\ Powered /\ InRom(len)
    /\ Begin("crc", DmgCrcStores(st.address, len, method), DmgSpan(len), st, host, << >>)

(* The ordinary write, a bank select or a RAM byte: /WR whatever the pin. *)
DmgWriteTo ==
  \E a \in Starts \cap 0 .. LoSize - 1, v \in Data :
    /\ Dmg /\ Powered
    /\ Begin("write", DmgWrite(a, v, a >= A15),
             << <<IF a < A15 THEN "mbc" ELSE "ram", a, v>> >>, st, host, << >>)

(* do_save_write() in DMG mode. *)
DmgSaveWrite ==
  \E data \in Pairs :
    /\ Dmg /\ Powered /\ InRam(2)
    /\ Begin("save_write", Loop(2, LAMBDA i : DmgWrite(st.address + i, data[i + 1], TRUE)),
             [i \in 1 .. 2 |-> <<"ram", host.address + i - 1, data[i]>>],
             Stepped(2), Counted(2), << >>)

(* The flash write honours FLASH_WE_PIN; with WR+RESET the cartridge is reset *)
(* under the write.  The host uses the pin its cartridge has.                 *)
RightPin == IF kind = "dmg" THEN st.we \in {"WR", "WR_RESET"}
            ELSE st.we = "AUDIO" /\ host.audio
FlashTag == IF kind = "dmg" THEN "mbc" ELSE "flash"
FlashSaw(a, v) ==
  (IF st.we = "WR_RESET" THEN << <<"reset", 0, 0>> >> ELSE << >>)
    \o << <<FlashTag, a, v>> >>

DmgFlashWrite ==
  \E a \in Starts \cap 0 .. A15 - 1, v \in Data :
    /\ Dmg /\ Powered /\ RightPin
    /\ Begin("write", DmgWriteRaw(a, v, FALSE, st.we), FlashSaw(a, v), st, host, << >>)

(* dmg_program_unbuffered(), a byte at a time in unlock bypass: the exit and *)
(* the release are for both ends of the loop.                                *)
BypassEnter ==
  DmgBurst(<< <<Unlock1, CmdAA>>, <<Unlock2, Cmd55>>, <<Unlock1, Cmd20>> >>)
BypassByte(pa, v) ==
  DmgBurst(<< <<pa, CmdA0>>, <<pa, v>> >>) \o << PollOf("POLL_DMG", pa) >>
BypassExit(a) == DmgBurst(<< <<a, Cmd90>>, <<a, 0>> >>) \o DmgBurstRelease

DmgBypassProgram ==
  \E data \in Pairs :
    /\ kind = "dmg" /\ st.we = "WR" /\ Powered /\ InRom(2)
    /\ Begin("program",
             BypassEnter \o BypassByte(st.address, data[1])
               \o BypassByte(st.address + 1, data[2]) \o BypassExit(st.address),
             << <<"mbc", Unlock1, CmdAA>>, <<"mbc", Unlock2, Cmd55>>,
                <<"mbc", Unlock1, Cmd20>>,
                <<"mbc", host.address, CmdA0>>, <<"mbc", host.address, data[1]>>,
                <<"mbc", host.address + 1, CmdA0>>, <<"mbc", host.address + 1, data[2]>>,
                <<"mbc", host.address, Cmd90>>, <<"mbc", host.address, 0>> >>,
             Stepped(2), Counted(2), BypassExit(st.address))

(* dmg_program_chunk() with the burst: one buffer load and its poll, which *)
(* turns the data lines round whatever the chip answers.                   *)
DmgBufferStores(sa, data) ==
  DmgBurst(<< <<Unlock1, CmdAA>>, <<Unlock2, Cmd55>>, <<sa, Cmd25>>, <<sa, Len(data) - 1>> >>
             \o [i \in 1 .. Len(data) |-> <<sa + i - 1, data[i]>>]
             \o << <<sa, Cmd29>> >>)
    \o << PollOf("POLL_DMG", sa + Len(data) - 1) >>

DmgBufferProgram ==
  \E data \in Pairs :
    /\ kind = "dmg" /\ st.we = "WR" /\ Powered /\ InRom(2)
    /\ Begin("program", DmgBufferStores(st.address, data),
             << <<"mbc", Unlock1, CmdAA>>, <<"mbc", Unlock2, Cmd55>>,
                <<"mbc", host.address, Cmd25>>, <<"mbc", host.address, 1>>,
                <<"mbc", host.address, data[1]>>, <<"mbc", host.address + 1, data[2]>>,
                <<"mbc", host.address, Cmd29>> >>,
             Stepped(2), Counted(2), << >>)

(* The same byte loop where the burst may not be used: /WE on AUDIO, or the *)
(* /RESET pulse between the byte and its poll.                              *)
DmgUnlockByte(pa, v, pulse) ==
  DmgWriteRaw(Unlock1, CmdAA, FALSE, st.we) \o DmgWriteRaw(Unlock2, Cmd55, FALSE, st.we)
    \o DmgWriteRaw(Unlock1, CmdA0, FALSE, st.we) \o DmgWriteRaw(pa, v, FALSE, st.we)
    \o If(pulse, DmgPulseReset) \o << PollOf("POLL_DMG", pa) >>

DmgByteProgram ==
  \E v \in Data, pulse \in BOOLEAN :
    /\ Dmg /\ Powered /\ InRom(1) /\ RightPin /\ (st.we # "WR" \/ pulse)
    /\ Begin("program", DmgUnlockByte(st.address, v, pulse) \o DmgBurstRelease,
             FlashSaw(Unlock1, CmdAA) \o FlashSaw(Unlock2, Cmd55)
               \o FlashSaw(Unlock1, CmdA0) \o FlashSaw(host.address, v)
               \o (IF pulse THEN << <<"reset", 0, 0>> >> ELSE << >>),
             Stepped(1), Counted(1), DmgBurstRelease)

MbcReset ==
  /\ Dmg /\ Powered
  /\ Begin("mbc_reset", DmgMbcReset, << <<"reset", 0, 0>> >>, st, host, << >>)

(* DMG_CLK_PULSES, and DEBUG's twenty. *)
ClkPulsesRun ==
  /\ Dmg /\ Powered
  /\ Begin("clk_pulses", ClkPulses(2), << >>, st, host, << >>)

(* The level arms of audio_requested: AGB_IRQ_ENABLED and DMG_AUDIO_ENABLED. *)
(* A host raises AUDIO by level only where it is no /WE, and never drops it  *)
(* under a /WE in use.                                                       *)
AudioHigh ==
  /\ Powered /\ kind # "dmg_audio"
  /\ Begin("audio", AudioDrive(TRUE), << >>, [st EXCEPT !.audioOut = TRUE], host, << >>)
AudioLow ==
  /\ Powered /\ ~host.audio
  /\ Begin("audio", AudioDrive(FALSE), << >>, [st EXCEPT !.audioOut = FALSE], host, << >>)

SetWe ==
  \E we \in {"WR", "AUDIO", "WR_RESET"} :
    /\ Dmg /\ Powered
    /\ Begin("we_pin", SetWePin(we), << >>,
             [st EXCEPT !.we = we, !.audioOut = (we = "AUDIO")],
             [host EXCEPT !.audio = (we = "AUDIO")], << >>)

-----------------------------------------------------------------------------
Both == SetAddress \/ PowerOn \/ PowerOff \/ FloatBus \/ AudioHigh \/ AudioLow
AgbCommand ==
  CartRead \/ Crc \/ BootupRun \/ AgbFlashWrite \/ SaveRead \/ SaveWrite
    \/ BatchSave \/ SaveBytes \/ SavePages \/ EepRead \/ EepWrite \/ ProgramChunk
    \/ ProgramWords \/ Read3d \/ PageEnd \/ RtcReadRun
DmgCommand ==
  DmgReadRun \/ DmgCrc \/ DmgWriteTo \/ DmgSaveWrite \/ DmgFlashWrite
    \/ DmgBypassProgram \/ DmgBufferProgram \/ DmgByteProgram \/ MbcReset
    \/ ClkPulsesRun \/ SetWe
Cycle == Play \/ PollSave \/ PollRom \/ PollDmg \/ PageWait \/ ChipDone
            \/ Finish \/ Stalled

Next == Cycle \/ Both \/ AgbCommand \/ DmgCommand
Spec == Init /\ [][Next]_vars

-----------------------------------------------------------------------------
(* The pins hold numbers their registers have, and the device and the host *)
(* keep an ADDRESS within the bound.                                       *)
TypeOK ==
  /\ pins.pa \in 0 .. LoSize - 1 /\ pins.hi \in 0 .. HiSize - 1
  /\ pins.low \subseteq Lines /\ pins.out \subseteq Lines
  /\ st.address \in 0 .. MaxAddr + BufferSize
  /\ host.address \in (0 .. MaxAddr + BufferSize) \cup {NoAt}
  /\ cmd.polls \in 0 .. PollCap

(* The first readback of a save-flash poll is left out here: SramRead there *)
(* lowers /RD before it turns D0..D7 round.                                 *)
FirstReadback == Agb /\ cmd.polls = 1 /\ ~DrivesAd(pins, cart)

(* The device and the cartridge never drive the same lines: not AD in a   *)
(* read burst, not the EEPROM's AD0, not D0..D7 when a read follows a      *)
(* write or a status poll a burst that left them driven.                   *)
NoContention ==
  /\ ~(pins.paOut /\ DrivesAd(pins, cart))
  /\ ~(pins.ad0Out /\ DrivesAd0(pins, cart))
  /\ pins.hiOut /\ DrivesHi(pins, cart) => FirstReadback

(* Whatever routine ran before and whatever it left on the pins, the       *)
(* cartridge sees exactly the cycles the host asked for, at the addresses  *)
(* it asked for, in order: reads that continue where the last transfer     *)
(* stopped, writes that land after a tristate or a power cycle, unlocks    *)
(* that no busy chip swallows, EEPROM frames bit for bit.                  *)
AsAsked ==
  /\ ~cmd.gaveUp => IsPrefix(seen, ask)
  /\ prog = << >> /\ ~cmd.gaveUp => seen = ask

(* Between commands no strobe and no select is left asserted, the /CS of an *)
(* open 3D page excepted, and in DMG mode D0..D7 are released: "a data bus  *)
(* left driven is hazard H1".                                               *)
Parked ==
  prog = << >> /\ cmd.name # "init" =>
    /\ \A l \in Idle : On(pins, l) => l = "cs" /\ cmd.st.page > 0
    /\ Dmg => ~pins.hiOut

(* The registers hold what they can hold, and every command leaves the bus *)
(* parked.                                                                 *)
PinsSound == TypeOK /\ Parked

WriteStrobe(p) ==
  IF Agb THEN On(p, "wr") /\ (On(p, "cs") \/ On(p, "cs2"))
  ELSE On(p, "wr") \/ (kind = "dmg_audio" /\ On(p, "audio"))

(* While a write strobe is low in a cycle the address and the data stand   *)
(* still, driven, and the cartridge's outputs are off: a program that ends *)
(* in a moved address is an erase somewhere else.                          *)
StableInStrobe ==
  [][WriteStrobe(pins) =>
       /\ pins'.pa = pins.pa /\ pins'.hi = pins.hi
       /\ pins.paOut /\ pins'.paOut /\ pins.hiOut /\ pins'.hiOut
       /\ ~On(pins, "rd")]_vars

(* With the rail off, after the first power-on, no cartridge line is driven *)
(* high: "a line held high into a falling supply back-powers".  CLK is not  *)
(* in PB_CART_FACING and stays driven.                                      *)
NoBackPower ==
  host.been /\ ~pins.rail =>
    /\ \A l \in pins.out \ {"clk"} : l \in pins.low
    /\ pins.paOut => pins.pa = 0
    /\ pins.hiOut => pins.hi = 0
=============================================================================
