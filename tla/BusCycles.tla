----------------------------- MODULE BusCycles -----------------------------
(* The bus routines of cart.c, each as the sequence of register stores and *)
(* samples it makes, in the order it makes them.  Nop runs and settles are *)
(* intervals the cartridge measures and are left out: what is kept is the  *)
(* order of the edges.  CartBus plays these sequences on the pins.         *)
(*                                                                         *)
(* PA is AD0..AD15 on AGB and A0..A15 on DMG; the low byte of PB, "hi"     *)
(* here, is A16..A23 on AGB ROM cycles, and D0..D7 on DMG and for an AGB   *)
(* save chip.  A bus address a is  (a \div LoSize)  on hi and              *)
(* (a % LoSize)  on PA.                                                    *)
EXTENDS Naturals, Sequences, SequencesExt

CONSTANTS LoSize,     \* values of PA; the upper half has A15 set
          HiSize,     \* values of the low byte of PB
          EepAt,      \* 0xFF80, where the EEPROM routines park PA
          M3dRegs,    \* the bus addresses of the 3D mapper's eight registers
          WinAt,      \* 0x0800, the fixed address of the 3D window
          EepAddrBits, EepBits, EepDummies,   \* 6 or 14, 64 and 4 bits
          Sector,     \* 128, the page of an AT29LV512
          Unlock1, Unlock2,                   \* 0x5555 and 0x2AAA
          CmdAA, Cmd55, CmdA0,                \* the save chip's unlock bytes
          BootReads,  \* the addresses fw_cart_agb_bootup() peeks at, in order
          RtcData, RtcDir, RtcCtrl, RtcBits   \* the GPIO registers; 8 bits

ASSUME BusAssumption ==
  /\ LoSize \in Nat /\ LoSize > 1 /\ LoSize % 2 = 0
  /\ HiSize \in Nat \ {0}
  /\ {EepAt, WinAt, Unlock1, Unlock2} \subseteq 0 .. LoSize - 1
  /\ {CmdAA, Cmd55, CmdA0} \subseteq 0 .. HiSize - 1
  /\ Sector \in Nat \ {0}
  /\ EepAddrBits \in Nat /\ EepBits \in Nat \ {0} /\ EepDummies \in Nat

(* A port takes the value the mapper and the clock are written. *)
ASSUME RegAssumption ==
  /\ LoSize > 7 /\ HiSize > 1 /\ HiSize <= LoSize
  /\ M3dRegs \in [1 .. 8 -> Nat] /\ BootReads \in Seq(Nat)
  /\ {RtcData, RtcDir, RtcCtrl, RtcBits} \subseteq Nat

Lines == {"cs", "cs2", "rd", "wr", "clk", "audio"}
A15 == LoSize \div 2            \* PA_A15
Idle == {"wr", "rd", "cs", "cs2", "audio"}    \* PB_CTRL_IDLE: all high

(* One store.  n is the number a port register takes, ls the PB lines a set, *)
(* clear or direction store names; the rest is not used.                     *)
Store(r, n, ls) == [reg |-> r, n |-> n, ls |-> ls]
PaOut(v) == Store("PA_OUT", v, {})
PaAd0(b) == Store("PA_AD0", IF b # 0 THEN 1 ELSE 0, {})   \* PA_OUT |= 1 or PA_CLR = 1
PaDrive == Store("PA_DIR", 1, {})
PaRelease == Store("PA_DIR", 0, {})
Ad0Drive == Store("AD0_DIR", 1, {})
Ad0Release == Store("AD0_DIR", 0, {})
HiClear == Store("HI_CLR", 0, {})             \* PB_CLR = PB_ADDR_HI
HiOr(v) == Store("HI_OUT", v, {})             \* PB_OUT |= v & PB_ADDR_HI
HiDrive == Store("HI_DIR", 1, {})
HiRelease == Store("HI_DIR", 0, {})
Low(ls) == Store("PB_CLR", 0, ls)
High(ls) == Store("PB_OUT", 0, ls)
Drive(ls) == Store("PB_DIR", 1, ls)
Release(ls) == Store("PB_DIR", 0, ls)
Rail(on) == Store("VCC_EN", on, {})
SampleAd == Store("PA_PIN", 0, {})            \* a sample the caller keeps
SampleHi == Store("PB_PIN", 0, {})
SampleAd0 == Store("AD0_PIN", 0, {})
(* A sample compared with what is wanted, as the status and save polls do, *)
(* and the choice the poll makes on it.  n is the address polled.          *)
CheckAd == Store("CHECK_AD", 0, {})
CheckHi == Store("CHECK_HI", 0, {})
PollOf(kind, a) == Store(kind, a, {})

Lo(a) == a % LoSize
Hi(a) == (a \div LoSize) % HiSize
Low2(a, b) == IF a < b THEN a ELSE b

(* f(i) for i in 0 .. n-1, one after the other. *)
Loop(n, f(_)) == FlattenSeq([i \in 1 .. n |-> f(i - 1)])

-----------------------------------------------------------------------------
(* Power and direction. *)
InitStores ==
  << Drive({"wr", "rd", "cs", "clk", "cs2"}), Release({"audio"}), High(Idle),
     Low({"clk"}), PaRelease, HiRelease, Rail(0) >>

PowerOnStores(audioOut) ==
  << Rail(1), High(Idle), Drive({"wr", "rd", "cs", "cs2"}) >>
    \o (IF audioOut THEN <<Drive({"audio"})>> ELSE << >>)

(* Mutant: /CS2 and AUDIO keep their level as the rail goes. *)
PowerOffControlOnly ==
  << HiRelease, Release({"wr", "rd", "cs"}), PaRelease, Rail(0) >>

PowerOffStores ==
  << HiRelease, Release({"wr", "rd", "cs", "cs2", "audio"}), PaRelease, Rail(0) >>

Tristate == << PaRelease, HiRelease >>
(* The pull-ups themselves change no level anything here samples. *)
Pullups == << PaRelease, HiRelease >>

-----------------------------------------------------------------------------
(* AGB ROM bus. *)
AgbOpen(a) ==
  << PaOut(0), HiClear, PaDrive, HiDrive, PaOut(Lo(a)), HiClear, HiOr(Hi(a)),
     Low({"cs"}), PaOut(0), PaRelease >>

AgbBurst(hws) == Loop(hws, LAMBDA i : << Low({"rd"}), SampleAd, High({"rd"}) >>)

AgbClose == << High({"cs"}) >>

LeafGroup(a, n) == AgbOpen(a) \o AgbBurst(n) \o AgbClose

(* Whole latch groups, the last one short; nothing for a length of 0. *)
ReadLeaf(a, hws, grp) ==
  IF hws = 0 \/ grp = 0 THEN << >>
  ELSE Loop((hws + grp - 1) \div grp,
            LAMBDA i : LeafGroup(a + i * grp, Low2(grp, hws - i * grp)))

Peek(a) == AgbOpen(a) \o AgbBurst(1) \o AgbClose

WriteData(v, sel) == << PaOut(v), Low({"wr"}), High({"wr"}), High({sel}) >>

AgbWrite(a, v) ==
  << PaOut(0), HiClear, PaDrive, HiDrive, PaOut(Lo(a)), HiClear, HiOr(Hi(a)),
     Low({"cs"}) >> \o WriteData(v, "cs")

AgbWriteBurst(a, data) ==
  << PaOut(0), HiClear, PaDrive, HiDrive >>
    \o Loop(Len(data), LAMBDA i :
         << PaOut(Lo(a + i)), HiClear, HiOr(Hi(a + i)), Low({"cs"}) >>
           \o WriteData(data[i + 1], "cs"))

Bootup ==
  << Low({"wr"}), Low({"rd"}), High({"rd"}), High({"wr"}) >>
    \o Loop(Len(BootReads), LAMBDA i : Peek(BootReads[i + 1]))

-----------------------------------------------------------------------------
(* AGB save chip, behind /CS2 with its data on the low byte of PB. *)
SramOpen == << HiClear, HiRelease, PaDrive >>

SramClose == << PaOut(0), HiClear, PaDrive, HiDrive >>

SramCycle(a, sample) ==
  << PaOut(Lo(a)), Low({"cs2"}), Low({"rd"}), HiRelease, sample,
     High({"rd"}), High({"cs2"}) >>

SramRead(a, n, sample) ==
  << High({"rd"}), PaDrive >> \o Loop(n, LAMBDA i : SramCycle(a + i, sample))
    \o << High({"rd"}) >>

SramCmd(a, v) ==
  << PaOut(Lo(a)), HiClear, HiOr(v), Low({"cs2"}), Low({"wr"}),
     High({"wr"}), High({"cs2"}) >>

SramWrite(a, v) == << High({"rd"}), HiDrive, PaDrive >> \o SramCmd(a, v)

(* Method 2, a page an unlock, the wait after it by the clock. *)
SramProgramPages(sector, data) ==
  SramOpen
    \o Loop(Len(data) \div Sector, LAMBDA p :
         SramWrite(Unlock1, CmdAA) \o SramWrite(Unlock2, Cmd55)
           \o SramWrite(Unlock1, CmdA0)
           \o Loop(Sector, LAMBDA j :
                SramWrite((sector + p) * Sector + j, data[p * Sector + j + 1]))
           \o << PollOf("PAGE_WAIT", 0) >>)
    \o SramClose

(* Method 1, a byte an unlock, and the poll of cart.c's loop after each. *)
SramProgramBytes(a, data) ==
  SramOpen
    \o Loop(Len(data), LAMBDA i :
         << High({"rd"}), HiDrive, PaDrive >>
           \o SramCmd(Unlock1, CmdAA) \o SramCmd(Unlock2, Cmd55)
           \o SramCmd(Unlock1, CmdA0) \o SramCmd(a + i, data[i + 1])
           \o << PollOf("POLL_SAVE", a + i) >>)
    \o SramClose

SramProgram(a, data, method) ==
  IF method = 2 THEN SramProgramPages(a, data) ELSE SramProgramBytes(a, data)
-----------------------------------------------------------------------------
(* AGB EEPROM, one wire on AD0: /WR clocks a bit out and /RD one in. *)
EepromBus == << PaDrive, HiDrive, PaOut(EepAt), HiClear, HiOr(HiSize - 1) >>

EepromBegin == << Low({"cs"}), High({"clk"}), Low({"clk"}), Ad0Drive >>

EepromSend(bits) ==
  Loop(Len(bits), LAMBDA i : << PaAd0(bits[i + 1]), Low({"wr"}), High({"wr"}) >>)

(* The top bits 11 or 10 and the address, most significant bit first. *)
EepromWord(op, a) ==
  op \o [i \in 1 .. EepAddrBits |-> (a \div (2 ^ (EepAddrBits - i))) % 2]

EepromRead(a) ==
  EepromBegin \o EepromSend(EepromWord(<<1, 1>>, a))
    \o << PaAd0(0), Low({"wr"}), High({"wr"}), High({"cs"}), Ad0Release,
          Low({"cs"}) >>
    \o Loop(EepDummies, LAMBDA i : << Low({"rd"}), High({"rd"}) >>)
    \o Loop(EepBits, LAMBDA i : << Low({"rd"}), High({"rd"}), SampleAd0 >>)
    \o << High({"cs"}), Ad0Drive >>

EepromWrite(a, bits) ==
  EepromBegin \o EepromSend(EepromWord(<<1, 0>>, a)) \o EepromSend(bits)
    \o << PaAd0(0), Low({"wr"}), High({"wr"}), High({"cs"}), High({"clk"}),
          Low({"clk"}) >>

-----------------------------------------------------------------------------
(* The 3D mapper: eight register writes, then the window's address latched *)
(* once and /CS left low for the whole page.                               *)
M3dOpen(a, size) ==
  AgbWrite(M3dRegs[3], (2 * a) % LoSize) \o AgbWrite(M3dRegs[4], (2 * a) \div LoSize)
    \o AgbWrite(M3dRegs[5], 1) \o AgbWrite(M3dRegs[6], 1)
    \o AgbWrite(M3dRegs[7], size % LoSize) \o AgbWrite(M3dRegs[8], 0)
    \o AgbWrite(M3dRegs[1], 1) \o AgbWrite(M3dRegs[2], 0)
    \o << PaDrive, HiDrive, PaOut(WinAt), HiClear, Low({"cs"}), PaOut(0),
          HiClear, PaRelease >>

M3dRead(hws) == AgbBurst(hws)
M3dClose == << High({"cs"}) >>

-----------------------------------------------------------------------------
(* The S3511 clock behind three GPIO registers in ROM space.  A value is   *)
(* SCK + 2 * SIO + 4 * CS.                                                 *)
RtcSend(bits) ==
  Loop(Len(bits), LAMBDA i :
    LET sio == 2 * bits[i + 1] IN
    AgbWrite(RtcData, sio + 4) \o AgbWrite(RtcData, sio + 4)
      \o AgbWrite(RtcData, sio + 4) \o AgbWrite(RtcData, sio + 5))

RtcRecv ==
  Loop(RtcBits, LAMBDA i :
    Loop(5, LAMBDA k : AgbWrite(RtcData, 4)) \o AgbWrite(RtcData, 5)
      \o Peek(RtcData))

RtcBegin(bits) ==
  AgbWrite(RtcCtrl, 1) \o AgbWrite(RtcData, 1) \o AgbWrite(RtcData, 5)
    \o AgbWrite(RtcDir, 7) \o RtcSend(bits) \o AgbWrite(RtcDir, 5)

RtcEnd == AgbWrite(RtcData, 1) \o AgbWrite(RtcData, 1) \o AgbWrite(RtcCtrl, 0)

(* The status register, then the date: stock's two transactions. *)
RtcRead(status, date, dateBytes) ==
  RtcBegin(status) \o RtcRecv \o RtcEnd
    \o RtcBegin(date) \o Loop(dateBytes, LAMBDA j : RtcRecv) \o RtcEnd

-----------------------------------------------------------------------------
(* DMG. *)
DmgSetup == << PaDrive, HiRelease, High(Idle) >>

DmgCsCycle(a) ==
  << PaOut(a), High({"clk"}), Low({"cs"}), Low({"rd"}), Low({"clk"}), SampleHi,
     High({"clk"}), High({"rd"}), High({"cs"}) >>

DmgA15Cycle(a) == << PaOut(a), SampleHi, PaOut((a % A15) + A15) >>

DmgRdCycle(a, sample) == << PaOut(a), Low({"rd"}), sample, High({"rd"}) >>

DmgRead(addr, n, method, csPulse, sample) ==
  << PaDrive, HiRelease, Low({"rd"}), Low({"clk"}) >>
    \o Loop(n, LAMBDA i :
         LET a == Lo(addr + i) IN
         IF csPulse THEN DmgCsCycle(a)
         ELSE IF method \in {"A15", "SLOW_A15"} THEN DmgA15Cycle(a)
         ELSE DmgRdCycle(a, sample))
    \o << High({"rd"}) >>

StrobeOf(we) == IF we = "AUDIO" THEN {"audio"} ELSE {"wr"}
If(c, s) == IF c THEN s ELSE << >>

(* Mutant: the address bus is not armed, "the first write after any of those *)
(* lands nowhere and the device still ACKs".                                 *)
DmgWriteRawUnarmed(a, v, csPulse, we) ==
  << High({"rd"}), High({"clk"}), PaOut(Lo(a)), HiDrive, HiClear, HiOr(v) >>
    \o If(csPulse, << Low({"cs"}) >>)
    \o If(we = "WR_RESET", << Low({"cs2"}) >>)
    \o << Low(StrobeOf(we)), Low({"clk"}), High({"clk"}), High(StrobeOf(we)) >>
    \o If(we = "WR_RESET", << High({"cs2"}) >>)
    \o If(csPulse, << High({"cs"}) >>)
    \o << HiClear, HiRelease >>

DmgWriteRaw(a, v, csPulse, we) ==
  << High({"rd"}), High({"clk"}), PaOut(0), PaDrive, PaOut(Lo(a)), HiDrive,
     HiClear, HiOr(v) >>
    \o If(csPulse, << Low({"cs"}) >>)
    \o If(we = "WR_RESET", << Low({"cs2"}) >>)
    \o << Low(StrobeOf(we)), Low({"clk"}), High({"clk"}), High(StrobeOf(we)) >>
    \o If(we = "WR_RESET", << High({"cs2"}) >>)
    \o If(csPulse, << High({"cs"}) >>)
    \o << HiClear, HiRelease >>

DmgWrite(a, v, csPulse) == DmgWriteRaw(a, v, csPulse, "WR")

(* sub_8790: D0..D7 are left driven. *)
DmgWriteStockFlash(a, v) ==
  << High({"wr"}), Low({"clk"}), PaDrive, PaOut(Lo(a)), HiDrive, HiClear,
     HiOr(v), Low({"wr"}), High({"wr"}) >>

(* Writes after one another, /RD raised before the first. *)
DmgBurst(writes) ==
  << High({"rd"}) >>
    \o Loop(Len(writes), LAMBDA i :
         DmgWriteStockFlash(writes[i + 1][1], writes[i + 1][2]))

(* Mutant: the value is cleared, the lines stay driven. *)
DmgBurstKept == << HiClear >>

DmgBurstRelease == << HiClear, HiRelease >>

(* Mutant: the ROM's outputs on before ours are off. *)
DmgPollOpenLate == << PaDrive, Low({"rd"}), HiRelease, Low({"clk"}) >>

(* fw_cart_dmg_status_poll_open, _read and _close. *)
DmgPollOpen == << PaDrive, HiRelease, Low({"rd"}), Low({"clk"}) >>
DmgPollRead(a) == << PaOut(Lo(a)), Low({"rd"}), CheckHi, High({"rd"}) >>
DmgPollClose == << High({"rd"}) >>

DmgPulseReset == << Low({"cs2"}), High({"cs2"}) >>
DmgMbcReset == << Low({"cs2"}), High({"cs2"}) >>
ClkPulses(n) == Loop(n, LAMBDA i : << Low({"clk"}), High({"clk"}) >>)

(* AUDIO: level and direction, direction alone, and as the write enable. *)
AudioDrive(on) ==
  IF on THEN << Drive({"audio"}), High({"audio"}) >>
  ELSE << Low({"audio"}), Release({"audio"}) >>
AudioDir(out) == << IF out THEN Drive({"audio"}) ELSE Release({"audio"}) >>
(* Mutant: the direction alone, on whatever level the latch was left at. *)
SetWePinDirection(we) == AudioDir(we = "AUDIO")

SetWePin(we) == If(we = "AUDIO", << High({"audio"}) >>) \o AudioDir(we = "AUDIO")
=============================================================================
