---------------------------- MODULE FlashProgram ----------------------------
(***************************************************************************)
(* CMD_FLASH_PROGRAM (0xD3): a block of ROM data arrives as a payload and  *)
(* is programmed while it arrives (agb_stream_pump, dmg_stream_pump), the  *)
(* rest when it is complete (do_flash_program), buffered (FLASH_METHOD 2)  *)
(* or a word at a time (methods 0 and 1).  The block may be abandoned half *)
(* received, and the chip may time out at any load.                        *)
(*                                                                         *)
(* Both buses are one module: the AGB bus has two bytes to an address, the *)
(* DMG bus one.  A payload byte is [blk, off]; where it went is a cell.    *)
(* A load (command words, burst, status wait) is one step: nothing that    *)
(* runs meanwhile touches this state.  How the bytes come is Dispatch.     *)
(***************************************************************************)
EXTENDS Integers

CONSTANTS
  PayloadMax,   (* bytes in P.pay: FW_PAYLOAD_MAX                           *)
  Lengths,      (* transfer sizes the host uses: a block is one transfer    *)
  BufferSizes,  (* BUFFER_SIZE of flash chips, in bytes                     *)
  Methods,      (* FLASH_METHOD values: 1 and 2, and one not implemented    *)
  Addresses,    (* where the host starts to write                           *)
  RxMax,        (* payload bytes taken at a time: FW_RX_BUF_BYTES           *)
  Blanks,       (* sets of offsets at which a block holds 0xFF              *)
  MaxBlocks     (* bound: blocks the host sends                             *)

ASSUME FlashProgramAssumption ==
  /\ {PayloadMax, RxMax} \subseteq Nat \ {0}
  /\ Lengths \subseteq Nat \ {0}
  /\ BufferSizes \subseteq Nat
  /\ Methods \subseteq Nat
  /\ Addresses \subseteq Nat
  /\ \A b \in Blanks : b \subseteq Nat
  /\ MaxBlocks \in Nat

VARIABLES
  (* fw_state_t, as SET_MODE_*, SET_FLASH_CMD and SET_VARIABLE leave it *)
  mode, flash_method, buffer_size, transfer_size, address,
  program_done, program_stream_err,
  (* may the DMG unbuffered path use unlock bypass: AMD, plain /WR *)
  bypassable,
  (* the payload in proto.c: P.pay_need, P.pay_got, P.pay *)
  pay_need, pay_got, pay,
  (* main.c: position, program_len, do_flash_program()'s locals, g_reply *)
  pc, n, done, verdict,
  (* the chip *)
  cells, bypass,
  (* the block: number, address and 0xFF bytes; has the chip failed it? *)
  blk, base, blank, timed_out

configVars  == <<mode, flash_method, buffer_size, transfer_size, bypassable>>
payloadVars == <<pay_need, pay_got, pay>>
streamVars  == <<program_done, program_stream_err>>
chipVars    == <<cells, bypass, timed_out>>
blockVars   == <<blk, base, blank>>

vars == <<configVars, address, streamVars, payloadVars, pc, n, done, verdict,
          chipVars, blockVars>>

------------------------------------------------------------------------------
MinOf(a, b) == IF a < b THEN a ELSE b

(* Bytes to a bus address. *)
Width == IF mode = "AGB" THEN 2 ELSE 1

(* Variant: an AGB buffer of one byte is a buffer. *)
BufferedFromOne == flash_method = 2 /\ buffer_size >= 1

(* Is the block programmed in buffer loads? *)
Buffered == flash_method = 2 /\ buffer_size >= Width

(* Whole bus words: the pump and the tail must agree on it. *)
Chunk == (buffer_size \div Width) * Width

PayOver == pay_need > PayloadMax

(* Variant: a payload too long for the buffer counts as well. *)
FilledAlways == pay_got

(* fw_proto_payload_filled() *)
Filled == IF PayOver THEN 0 ELSE pay_got

(* The cells one load of `have' bytes from offset `from' programs. *)
Cells(from, have) ==
  { [addr |-> address + from \div Width + i \div Width,
     lane |-> i % Width,
     byte |-> pay[from + i]] : i \in 0..have - 1 }

(* A load goes to the chip, and its status wait sees the last word retire   *)
(* or runs into the deadline, with or without the load in the cells.        *)
LoadRetires(from, have) ==
  /\ cells' = cells \cup Cells(from, have)
  /\ UNCHANGED timed_out

LoadTimesOut(from, have) ==
  /\ cells' \in {cells, cells \cup Cells(from, have)}
  /\ timed_out' = TRUE

------------------------------------------------------------------------------
(* The payload. *)

(* SET_FLASH_CMD, SET_VARIABLE and the like between two blocks. *)
Configure ==
  /\ pc = "idle"
  /\ mode' \in {"AGB", "DMG"}
  /\ flash_method' \in Methods
  /\ buffer_size' \in BufferSizes
  /\ transfer_size' \in Lengths
  /\ bypassable' \in (IF mode' = "DMG" THEN BOOLEAN ELSE {FALSE})
  /\ address' \in Addresses
  /\ UNCHANGED <<streamVars, payloadVars, pc, n, done, verdict, chipVars,
                 blockVars>>

(* Variant: progress is left to do_flash_program() to clear. *)
OpenedKeeps(progress) == progress

(* payload_opened(): whatever an abandoned block left. *)
Opened(progress) == 0

(* The opcode: TRANSFER_SIZE bytes follow. *)
OpenPayload ==
  /\ pc = "idle"
  /\ blk < MaxBlocks
  /\ blk' = blk + 1
  /\ base' = address
  /\ blank' \in Blanks
  /\ timed_out' = FALSE
  /\ pay_need' = transfer_size
  /\ pay_got' = 0
  /\ program_done' = Opened(program_done)
  /\ program_stream_err' = FALSE
  /\ pc' = "recv"
  /\ UNCHANGED <<configVars, address, pay, n, done, verdict, cells, bypass>>

(* payload_done() and the overrun verdict before it. *)
Programs == ~PayOver /\ flash_method <= 2

(* A run of k payload bytes; excess beyond pay[] is consumed and dropped.   *)
(* The last of them completes the command.                                  *)
Take(k) ==
  LET complete == pay_got + k >= pay_need IN
  /\ pay' = [o \in 0..PayloadMax - 1 |->
               IF pay_got <= o /\ o < pay_got + k
                 THEN [blk |-> blk, off |-> o] ELSE pay[o]]
  /\ pay_got' = IF complete THEN 0 ELSE pay_got + k
  /\ pay_need' = IF complete THEN 0 ELSE pay_need
  /\ n' = IF complete /\ Programs THEN pay_need ELSE n
  /\ verdict' = IF complete /\ ~Programs THEN "ERROR" ELSE verdict
  /\ pc' = IF ~complete THEN "pump"
           ELSE IF Programs THEN "program" ELSE "reply"
  /\ UNCHANGED <<configVars, address, streamVars, done, chipVars, blockVars>>

Receive ==
  /\ pc = "recv"
  /\ \E k \in 1..MinOf(RxMax, pay_need - pay_got) : Take(k)

(* fw_proto_tick() or fw_proto_link_reset(): the host is gone. *)
Abandon ==
  /\ pc = "recv"
  /\ pay_need' = 0
  /\ pay_got' = 0
  /\ pc' = "idle"
  /\ UNCHANGED <<configVars, address, streamVars, pay, n, done, verdict,
                 chipVars, blockVars>>

------------------------------------------------------------------------------
(* agb_stream_pump() and dmg_stream_pump(): while the rest arrives. *)

PumpGoesOn ==
  /\ Filled # 0
  /\ Buffered
  /\ ~program_stream_err
  /\ Filled >= program_done + Chunk

PumpLoad ==
  /\ pc = "pump"
  /\ PumpGoesOn
  /\ \/ /\ LoadRetires(program_done, Chunk)
        /\ program_done' = program_done + Chunk
        /\ UNCHANGED program_stream_err
     \/ /\ LoadTimesOut(program_done, Chunk)
        /\ program_stream_err' = TRUE
        /\ UNCHANGED program_done
  /\ UNCHANGED <<configVars, address, payloadVars, pc, n, done, verdict, bypass,
                 blockVars>>

PumpDone ==
  /\ pc = "pump"
  /\ ~PumpGoesOn
  /\ pc' = "recv"
  /\ UNCHANGED <<configVars, address, streamVars, payloadVars, n, done, verdict,
                 chipVars, blockVars>>

------------------------------------------------------------------------------
(* do_flash_program(): what the pump has not done. *)

Resume == IF Buffered THEN program_done ELSE 0

(* Variant: the pump's failure is forgotten. *)
CarriedErrorNone == FALSE

CarriedError == Buffered /\ program_stream_err

Bypasses == ~Buffered /\ bypassable

StartProgram ==
  /\ pc = "program"
  /\ program_done' = 0
  /\ program_stream_err' = FALSE
  /\ done' = Resume
  /\ pc' = IF CarriedError THEN "end" ELSE IF Buffered THEN "load" ELSE "word"
  /\ verdict' = IF CarriedError THEN "ERROR" ELSE "ACK"
  /\ bypass' = Bypasses
  /\ UNCHANGED <<configVars, address, payloadVars, n, cells, timed_out,
                 blockVars>>

(* `done + 1 < n' on the AGB bus, `done < n' on the DMG bus. *)
More == done + Width <= n

(* Variant: the last load is a whole buffer. *)
HaveChunk == Chunk

Have == MinOf(((n - done) \div Width) * Width, Chunk)

(* One step of either loop: it goes on, or stops at the chip's timeout. *)
Step(have) ==
  \/ /\ LoadRetires(done, have)
     /\ done' = done + have
     /\ UNCHANGED <<pc, verdict>>
  \/ /\ LoadTimesOut(done, have)
     /\ verdict' = "ERROR"
     /\ pc' = "end"
     /\ UNCHANGED done

ProgramLoad ==
  /\ pc = "load"
  /\ More
  /\ Step(Have)
  /\ UNCHANGED <<configVars, address, streamVars, payloadVars, n, bypass,
                 blockVars>>

ProgramWord ==
  /\ pc = "word"
  /\ More
  /\ Step(Width)
  /\ UNCHANGED <<configVars, address, streamVars, payloadVars, n, bypass,
                 blockVars>>

(* FW_DMG_SKIP_FF: programming 0xFF is a no-op on any value. *)
SkipWord ==
  /\ pc = "word"
  /\ More
  /\ mode = "DMG"
  /\ done \in blank
  /\ done' = done + 1
  /\ UNCHANGED <<configVars, address, streamVars, payloadVars, pc, n, verdict,
                 chipVars, blockVars>>

LoopDone ==
  /\ pc \in {"load", "word"}
  /\ ~More
  /\ pc' = "end"
  /\ UNCHANGED <<configVars, address, streamVars, payloadVars, n, done, verdict,
                 chipVars, blockVars>>

(* Variant: bypass is left where the loop ran to its end only. *)
BypassOnErrorKept == verdict = "ERROR" /\ bypass

(* The exit covers the break of the loop as well. *)
BypassAfter == FALSE

EndProgram ==
  /\ pc = "end"
  /\ address' = address + n \div Width
  /\ bypass' = BypassAfter
  /\ pc' = "reply"
  /\ UNCHANGED <<configVars, streamVars, payloadVars, n, done, verdict, cells,
                 timed_out, blockVars>>

(* The answer goes out, and the locals go out of scope. *)
Reply ==
  /\ pc = "reply"
  /\ pc' = "idle"
  /\ n' = 0
  /\ done' = 0
  /\ verdict' = "ACK"
  /\ UNCHANGED <<configVars, address, streamVars, payloadVars, chipVars,
                 blockVars>>

------------------------------------------------------------------------------
NoByte == [blk |-> 0, off |-> 0]

Init ==
  /\ mode \in {"AGB", "DMG"} /\ flash_method \in Methods
  /\ buffer_size \in BufferSizes /\ transfer_size \in Lengths
  /\ bypassable \in (IF mode = "DMG" THEN BOOLEAN ELSE {FALSE})
  /\ address \in Addresses
  /\ program_done = 0 /\ program_stream_err = FALSE
  /\ pay_need = 0 /\ pay_got = 0
  /\ pay = [o \in 0..PayloadMax - 1 |-> NoByte]
  /\ pc = "idle" /\ n = 0 /\ done = 0 /\ verdict = "ACK"
  /\ cells = {} /\ bypass = FALSE
  /\ blk = 0 /\ base = address /\ blank = {} /\ timed_out = FALSE

Thread ==
  \/ PumpLoad \/ PumpDone
  \/ StartProgram \/ ProgramLoad \/ ProgramWord \/ SkipWord \/ LoopDone
  \/ EndProgram \/ Reply

Host == Configure \/ OpenPayload \/ Receive \/ Abandon

Next == Thread \/ Host

Spec == Init /\ [][Next]_vars

(* The thread runs its loops, a chip's timeout never being what ends them,  *)
(* and the host sends on or is given up on.                                 *)
FairSpec ==
  /\ Spec
  /\ WF_vars(Thread /\ UNCHANGED timed_out)
  /\ WF_vars(Receive \/ Abandon)

------------------------------------------------------------------------------
(* Properties. *)

Byte == [blk : Nat, off : Nat]

TypeOK ==
  /\ mode \in {"AGB", "DMG"}
  /\ {flash_method, buffer_size, transfer_size, address} \subseteq Nat
  /\ {program_stream_err, bypassable, bypass, timed_out} \subseteq BOOLEAN
  /\ {n, blk, base} \subseteq Nat
  /\ program_done \in 0..PayloadMax /\ done \in 0..n
  /\ pay_need \in Nat /\ pay_got \in Nat /\ pay_got <= pay_need
  /\ pay \in [0..PayloadMax - 1 -> Byte]
  /\ pc \in {"idle", "recv", "pump", "program", "load", "word", "end", "reply"}
  /\ verdict \in {"ACK", "ERROR"}
  /\ cells \subseteq [addr : Nat, lane : {0, 1}, byte : Byte]
  /\ blank \subseteq Nat

(* Where offset o of the block in hand belongs. *)
Placed(o) ==
  [addr |-> base + o \div Width, lane |-> o % Width,
   byte |-> [blk |-> blk, off |-> o]]

(* Bytes of the block that make whole bus words. *)
Whole == (transfer_size \div Width) * Width

(* A block answered ACK_OK is on the chip, every byte where the host put it *)
(* ("returns 0 when the chip timed out; the caller turns that into          *)
(* ACK_ERROR", do_flash_program).                                           *)
AckedIsProgrammed ==
  pc = "reply" /\ verdict = "ACK" =>
    \A o \in 0..Whole - 1 : Placed(o) \in cells \/ o \in blank

(* "Resuming re-enters an aborted part": once a load of the block has timed *)
(* out, by the pump or at its end, no other byte of it goes to the chip.    *)
StopsAfterTimeout ==
  [][ timed_out /\ timed_out' => cells' = cells ]_vars

(* "The chip must not be left in bypass": between two commands it answers   *)
(* reads, whatever way the last block ended.                                *)
NotLeftInBypass == bypass => pc \in {"word", "end"}

(* What the block has come to. *)
Phase ==
  CASE pc = "idle" -> "closed"
    [] pc = "reply" -> verdict
    [] pc # "idle" /\ pc # "reply" /\ timed_out -> "failed"
    [] OTHER -> "open"

NextOffset ==
  CASE pc \in {"idle", "reply"} -> 0
    [] pc \in {"recv", "pump"} -> program_done
    [] pc = "program" -> Resume
    [] OTHER -> done

Writer == INSTANCE BlockWriter WITH
  phase <- Phase,
  next  <- NextOffset,
  base  <- IF pc = "idle" THEN address ELSE base,
  width <- Width,
  span  <- transfer_size \div Width

(* Streamed or not, buffered or not, on either bus, a FLASH_PROGRAM is a    *)
(* block writer: in order, each byte in its place, none twice, none after a *)
(* failure, and no byte of a block that is refused.                         *)
ImplementsBlockWriter == Writer!Spec

(* Every block that is opened comes to an end. *)
BlockEnds == (pc # "idle") ~> (pc = "idle")
=============================================================================
