-------------------------------- MODULE UsbTx --------------------------------
(***************************************************************************)
(* The bulk-IN (device to host) half of src/usb.c together with the        *)
(* callers in src/main.c that feed it, in the shipping configuration:      *)
(* FW_USB_IRQ, FW_TX_DIRECT, FW_TX_PIPELINE, FW_USB_ISR_LEAN,              *)
(* FW_USB_TX_TOG_SHADOW, both EP2 windows in use (bl_usb_ep2_dbuf = 1).    *)
(*                                                                         *)
(* Three parties share the state:                                          *)
(*   - the thread: one command at a time, either a read that nominates a   *)
(*     direct region and publishes it as the cartridge fills it, or a      *)
(*     reply copied into the linear staging ring by tx_queue();            *)
(*   - the transfer handler: an interrupt while irq_on, otherwise          *)
(*     usb_service() called by the thread at its poll points;              *)
(*   - the serial interface engine (SIE) and the host behind it.           *)
(*                                                                         *)
(* A byte is its production number (see ByteStream).  Lengths are counted  *)
(* in units of which Pkt make one bulk packet.                             *)
(***************************************************************************)
EXTENDS Integers, Sequences

CONSTANTS
  Pkt,       (* units in a full bulk packet: bl_usb_ep2_pkt_in            *)
  BufSize,   (* units in tx_buf: BL_USB_TX_BUF_SIZE                       *)
  LockChunk, (* units tx_queue() copies per lock: BL_USB_TX_LOCK_CHUNK    *)
  Totals,    (* transfer sizes a read command may ask for                 *)
  Grains,    (* units a reader adds to the region per publish             *)
  Replies,   (* lengths of staged replies                                 *)
  MaxJobs    (* bound: commands the thread runs                           *)

ASSUME UsbTxAssumption ==
  /\ Pkt \in Nat \ {0}
  /\ BufSize \in Nat \ {0}
  /\ LockChunk \in Nat \ {0}
  /\ Totals \subseteq Nat \ {0}
  /\ Grains \subseteq Nat \ {0}
  /\ Replies \subseteq Nat \ {0}
  /\ MaxJobs \in Nat

VARIABLES
  (* thread *)
  pc, off, len, grain, left, jobs,
  (* the nominated region: tx_dir_*; dir_tok numbers its first byte - 1 *)
  dir_on, dir_tok, dir_avail, dir_pos, dir_total, dir_sent,
  (* the staging ring and the arming state *)
  tx_buf, tx_tail, tx_armed, tx_last_full,
  (* the two-window pipeline and its accounting *)
  tx_pipe_armed, tx_pipe_outstanding, tx_tog_pred, tx_stage,
  (* endpoint 2, transmit side: registers and window memory *)
  T_RES, T_LEN, T_TOG, win,
  (* R8_USB_INT_FG, the handler's position, the transport in use *)
  fg, isr, freed, irq_on,
  (* host *)
  reading, host, host_open, made

threadVars == <<pc, off, len, grain, left, jobs>>
regionVars == <<dir_on, dir_tok, dir_avail, dir_total>>
pumpVars   == <<dir_pos, tx_buf, tx_tail, tx_armed, tx_last_full,
                tx_pipe_armed, tx_pipe_outstanding, tx_tog_pred, tx_stage,
                T_RES, T_LEN, win>>
isrVars    == <<fg, isr, freed, irq_on>>
hostVars   == <<reading, host, host_open>>

vars == <<threadVars, regionVars, dir_sent, pumpVars, T_TOG, isrVars,
          hostVars, made>>

------------------------------------------------------------------------------
MinOf(a, b) == IF a < b THEN a ELSE b

tx_head == Len(tx_buf)

(* tx_direct_ready(): published bytes not yet copied into a window. *)
DirectReady(avail) == IF dir_on THEN avail - dir_pos ELSE 0

RingEmpty == tx_head = tx_tail

(* Region bytes from .. from + n - 1, by number. *)
RegionBytes(from, n) == [i \in 1..n |-> dir_tok + from + i]

(* usb_copy() into a window: what lies beyond the copy stays as it was. *)
Overwrite(w, bytes) ==
  [i \in 1..Pkt |-> IF i <= Len(bytes) THEN bytes[i] ELSE win[w][i]]

(* ep2_tx_off(): the window the transmit toggle names; and the other one. *)
OtherWindow(w) == 1 - w

------------------------------------------------------------------------------
(* tx_pump(), one operator per way it can end.  `avail', `stage' and `out' *)
(* are tx_dir_avail, tx_stage_* and tx_pipe_outstanding as the caller has  *)
(* just left them.                                                         *)

NextDirect(avail) == MinOf(DirectReady(avail), Pkt)

(* The early return: a short packet that would not complete the region. *)
ShortOfRegion(avail) ==
  /\ NextDirect(avail) < Pkt
  /\ dir_pos + NextDirect(avail) # dir_total

PumpHold(avail, stage, out) ==
  /\ RingEmpty
  /\ DirectReady(avail) # 0
  /\ ShortOfRegion(avail)
  /\ tx_stage' = stage
  /\ tx_pipe_outstanding' = out
  /\ UNCHANGED <<dir_pos, tx_buf, tx_tail, tx_armed, tx_last_full,
                 tx_pipe_armed, tx_tog_pred, T_RES, T_LEN, win>>

(* Variant: the bound one packet and a unit, not two packets. *)
CanPrimeOneShort(avail) ==
  /\ ~tx_pipe_armed
  /\ DirectReady(avail) > Pkt

CanPrime(avail) ==
  /\ ~tx_pipe_armed
  /\ DirectReady(avail) >= 2 * Pkt

(* Fill both windows with two full packets of the region. *)
PumpPrime(avail, stage, out) ==
  /\ RingEmpty
  /\ CanPrime(avail)
  /\ win' = [w \in {0, 1} |->
               RegionBytes(IF w = T_TOG THEN dir_pos ELSE dir_pos + Pkt, Pkt)]
  /\ T_LEN' = Pkt
  /\ dir_pos' = dir_pos + 2 * Pkt
  /\ tx_pipe_outstanding' = out + 2
  /\ tx_tog_pred' = T_TOG
  /\ T_RES' = "ACK"
  /\ tx_armed' = TRUE
  /\ tx_pipe_armed' = TRUE
  /\ tx_last_full' = TRUE
  /\ tx_stage' = stage
  /\ UNCHANGED <<tx_buf, tx_tail>>

(* Variant: no packet is ever taken for a full one. *)
FullPacketNever(n) == n > Pkt

(* What tx_last_full records of the packet just armed. *)
FullPacket(n) == n = Pkt

(* One packet of the region into the window the toggle names. *)
PumpDirect(avail, stage, out) ==
  LET m == NextDirect(avail) IN
  /\ RingEmpty
  /\ DirectReady(avail) # 0
  /\ ~ShortOfRegion(avail)
  /\ ~CanPrime(avail)
  /\ win' = [win EXCEPT ![T_TOG] = Overwrite(T_TOG, RegionBytes(dir_pos, m))]
  /\ T_LEN' = m
  /\ dir_pos' = dir_pos + m
  /\ tx_stage' = Append(stage, m)
  /\ tx_pipe_outstanding' = out
  /\ T_RES' = "ACK"
  /\ tx_armed' = TRUE
  /\ tx_last_full' = FullPacket(m)
  /\ UNCHANGED <<tx_buf, tx_tail, tx_pipe_armed, tx_tog_pred>>

(* Variant: ring bytes credited as if they were the region's. *)
RingCreditItsLength(n) == n

(* tx_stage_push(n, 0): ring bytes are not the region's. *)
RingCredit(n) == 0

(* One packet of the staging ring; its completion credits no region bytes. *)
PumpRing(avail, stage, out) ==
  LET n == MinOf(tx_head - tx_tail, Pkt) IN
  /\ ~RingEmpty
  /\ win' = [win EXCEPT ![T_TOG] =
               Overwrite(T_TOG, SubSeq(tx_buf, tx_tail + 1, tx_tail + n))]
  /\ T_LEN' = n
  /\ tx_tail' = tx_tail + n
  /\ tx_stage' = Append(stage, RingCredit(n))
  /\ tx_pipe_outstanding' = out
  /\ T_RES' = "ACK"
  /\ tx_armed' = TRUE
  /\ tx_last_full' = FullPacket(n)
  /\ UNCHANGED <<dir_pos, tx_buf, tx_pipe_armed, tx_tog_pred>>

(* The CDC terminator: the last packet was full and nothing follows it yet. *)
PumpZlp(avail, stage, out) ==
  /\ RingEmpty
  /\ DirectReady(avail) = 0
  /\ tx_last_full
  /\ T_LEN' = 0
  /\ tx_last_full' = FALSE
  /\ T_RES' = "ACK"
  /\ tx_armed' = TRUE
  /\ tx_stage' = stage
  /\ tx_pipe_outstanding' = out
  /\ UNCHANGED <<dir_pos, tx_buf, tx_tail, tx_pipe_armed, tx_tog_pred, win>>

(* Drained: rewind the linear buffer and park the endpoint at NAK. *)
PumpPark(avail, stage, out) ==
  /\ RingEmpty
  /\ DirectReady(avail) = 0
  /\ ~tx_last_full
  /\ tx_buf' = <<>>
  /\ tx_tail' = 0
  /\ T_LEN' = 0
  /\ T_RES' = "NAK"
  /\ tx_armed' = FALSE
  /\ tx_stage' = stage
  /\ tx_pipe_outstanding' = out
  /\ UNCHANGED <<dir_pos, tx_last_full, tx_pipe_armed, tx_tog_pred, win>>

TxPump(avail, stage, out) ==
  \/ PumpHold(avail, stage, out)
  \/ PumpPrime(avail, stage, out)
  \/ PumpDirect(avail, stage, out)
  \/ PumpRing(avail, stage, out)
  \/ PumpZlp(avail, stage, out)
  \/ PumpPark(avail, stage, out)

(* The kick of publish(), tx_queue() and usb_pumps(). *)
KickIf(wanted, avail) ==
  IF ~tx_armed /\ wanted
    THEN TxPump(avail, tx_stage, tx_pipe_outstanding)
    ELSE UNCHANGED pumpVars

(* tx_direct_reset() for the pipeline variables begin() and reset() share. *)
ForgetPipeline ==
  /\ tx_pipe_armed' = FALSE
  /\ tx_pipe_outstanding' = 0
  /\ tx_stage' = <<>>
  /\ dir_sent' = 0
  /\ dir_pos' = 0
  /\ dir_avail' = 0
  /\ UNCHANGED tx_tog_pred

------------------------------------------------------------------------------
(* The thread.  Each step is a section usb.c runs with interrupts masked,   *)
(* so none of them interleaves with the handler.                            *)

ThreadMayRun == isr = "idle"

(* bl_usb_tx_direct_begin() at the head of a read command. *)
BeginRegion ==
  /\ ThreadMayRun
  /\ pc = "idle"
  /\ jobs < MaxJobs
  /\ \E n \in Totals, g \in Grains :
       /\ len' = n
       /\ dir_total' = n
       /\ grain' = g
  /\ pc' = "read"
  /\ off' = 0
  /\ jobs' = jobs + 1
  /\ dir_on' = TRUE
  /\ dir_tok' = made
  /\ ForgetPipeline
  /\ UNCHANGED <<left, tx_buf, tx_tail, tx_armed, tx_last_full, T_RES, T_LEN,
                 win, T_TOG, isrVars, hostVars, made>>

(* bl_usb_tx_direct_publish(avail).  A region withdrawn meanwhile by a      *)
(* session flush has no base any more, and publishes nothing.               *)
PublishUpTo(avail) ==
  /\ dir_avail' = avail
  /\ made' = IF dir_on THEN dir_tok + avail ELSE made
  /\ KickIf(DirectReady(avail) # 0, avail)
  /\ UNCHANGED <<dir_on, dir_tok, dir_total, dir_sent, T_TOG, isrVars,
                 hostVars>>

(* The cartridge has filled the next grain of the region. *)
Publish ==
  /\ ThreadMayRun
  /\ pc = "read"
  /\ off < len
  /\ off' = MinOf(off + grain, len)
  /\ PublishUpTo(off')
  /\ UNCHANGED <<pc, len, grain, left, jobs>>

(* Readers publish the same count again (do_dmg_read after its sub-chunks,  *)
(* do_cart_read after its loop): a kick, no new byte.                       *)
Republish ==
  /\ ThreadMayRun
  /\ pc = "read"
  /\ off > 0
  /\ PublishUpTo(off)
  /\ UNCHANGED threadVars

(* bl_usb_tx_direct_end(): withdraw the region. *)
WithdrawRegion ==
  /\ dir_on' = FALSE
  /\ dir_total' = 0
  /\ ForgetPipeline
  /\ UNCHANGED <<dir_tok, tx_buf, tx_tail, tx_armed, tx_last_full,
                 T_RES, T_LEN, win>>

(* Variant: waiting for the copies into the windows, not for completions. *)
DrainedWhenCopied == dir_pos >= len

(* The drain loops: bl_usb_tx_direct_sent() has reached the total. *)
Drained == dir_sent >= len

EndRegion ==
  /\ ThreadMayRun
  /\ pc = "read"
  /\ off = len
  /\ Drained
  /\ pc' = "idle"
  /\ WithdrawRegion
  /\ UNCHANGED <<off, len, grain, left, jobs, T_TOG, isrVars, hostVars, made>>

(* FW_TX_STALL_MS without progress: the host has stopped reading, or a new  *)
(* session withdrew the region under the drain loop.                        *)
StallEnd ==
  /\ ThreadMayRun
  /\ pc = "read"
  /\ off = len
  /\ ~Drained
  /\ ~reading \/ ~dir_on
  /\ pc' = "idle"
  /\ WithdrawRegion
  /\ UNCHANGED <<off, len, grain, left, jobs, T_TOG, isrVars, hostVars, made>>

(* pump(): a reply of some length, about to call tx_queue(). *)
BeginReply ==
  /\ ThreadMayRun
  /\ pc = "idle"
  /\ jobs < MaxJobs
  /\ left' \in Replies
  /\ pc' = "call"
  /\ jobs' = jobs + 1
  /\ UNCHANGED <<off, len, grain, regionVars, dir_sent, pumpVars, T_TOG,
                 isrVars, hostVars, made>>

RingRoom == BufSize - tx_head

(* One locked copy of tx_queue(); it goes on while bytes and room are left. *)
QueueChunk ==
  LET n == MinOf(MinOf(left, LockChunk), RingRoom) IN
  /\ ThreadMayRun
  /\ pc \in {"call", "chunk"}
  /\ n > 0
  /\ tx_buf' = tx_buf \o [i \in 1..n |-> made + i]
  /\ made' = made + n
  /\ left' = left - n
  /\ pc' = IF left > n /\ RingRoom > n THEN "chunk" ELSE "kick"
  /\ UNCHANGED <<off, len, grain, jobs, regionVars, dir_sent, dir_pos, tx_tail,
                 tx_armed, tx_last_full, tx_pipe_armed, tx_pipe_outstanding,
                 tx_tog_pred, tx_stage, T_RES, T_LEN, win, T_TOG, isrVars,
                 hostVars>>

(* Variant: kicking only when the ring could not take all of the reply. *)
QueueKicksWhenLeft == left > 0

QueueKicks == ~RingEmpty

(* The kick that ends tx_queue(), then bl_usb_tx() returns or polls. *)
QueueKick ==
  /\ ThreadMayRun
  /\ pc = "kick"
  /\ pc' = IF left = 0 THEN "idle" ELSE "call"
  /\ KickIf(QueueKicks, dir_avail)
  /\ UNCHANGED <<off, len, grain, left, jobs, regionVars, dir_sent, T_TOG,
                 isrVars, hostVars, made>>

(* pump() gives up on a full ring after FW_TX_STALL_MS and falls back to    *)
(* polling (bl_usb_irq_disarm).                                             *)
AbandonReply ==
  /\ ThreadMayRun
  /\ pc = "call"
  /\ RingRoom = 0
  /\ ~reading
  /\ pc' = "idle"
  /\ left' = 0
  /\ irq_on' = FALSE
  /\ UNCHANGED <<off, len, grain, jobs, regionVars, dir_sent, pumpVars, T_TOG,
                 fg, isr, freed, hostVars, made>>

------------------------------------------------------------------------------
(* The transfer handler: usb_service().  An interrupt may enter it between  *)
(* any two steps of the thread; polled, it runs only where the thread calls *)
(* bl_usb_poll(), which is never inside tx_queue().                         *)

HandlerMayRun == irq_on \/ pc \in {"idle", "read", "call"}

Serving(event) ==
  /\ isr = "idle"
  /\ fg = event
  /\ HandlerMayRun

(* Variant: only pipelined windows credit the region. *)
CreditPipelinedOnly ==
  IF tx_pipe_outstanding # 0 THEN dir_sent + Pkt ELSE dir_sent

(* Which completion this was: a pipelined window, else what tx_stage says.  *)
CreditAfter ==
  IF tx_pipe_outstanding # 0 THEN dir_sent + Pkt
  ELSE IF tx_stage = <<>> THEN dir_sent ELSE dir_sent + Head(tx_stage)

(* Variant: the entry of the completed packet stays in the queue. *)
StageNotPopped == tx_stage

StageAfter ==
  IF tx_pipe_outstanding # 0 \/ tx_stage = <<>> THEN tx_stage ELSE Tail(tx_stage)

OutstandingAfter ==
  IF tx_pipe_outstanding # 0 THEN tx_pipe_outstanding - 1 ELSE 0

(* Variant: the shadow toggle stays where it was. *)
ShadowNotAdvanced == tx_tog_pred

ShadowAfter == OtherWindow(tx_tog_pred)

(* TOK_IN_EP2, single-packet path: credit, pump, then clear the flag. *)
InDonePump ==
  /\ Serving("IN")
  /\ ~tx_pipe_armed
  /\ dir_sent' = CreditAfter
  /\ TxPump(dir_avail, StageAfter, OutstandingAfter)
  /\ fg' = "NONE"
  /\ UNCHANGED <<threadVars, regionVars, T_TOG, isr, freed, irq_on, hostVars,
                 made>>

(* TOK_IN_EP2, pipelined path: credit, note the freed window from the       *)
(* shadow toggle, release the bus.  The SIE may run from here on.           *)
InDoneRelease ==
  /\ Serving("IN")
  /\ tx_pipe_armed
  /\ dir_sent' = CreditAfter
  /\ tx_stage' = StageAfter
  /\ tx_pipe_outstanding' = OutstandingAfter
  /\ freed' = tx_tog_pred
  /\ tx_tog_pred' = ShadowAfter
  /\ fg' = "NONE"
  /\ isr' = "refill"
  /\ UNCHANGED <<threadVars, regionVars, dir_pos, tx_buf, tx_tail, tx_armed,
                 tx_last_full, tx_pipe_armed, T_RES, T_LEN, win, T_TOG, irq_on,
                 hostVars, made>>

(* ... then refill the freed window with a full packet, or wind down. *)
RefillWindow ==
  /\ isr = "refill"
  /\ DirectReady(dir_avail) >= Pkt
  /\ win' = [win EXCEPT ![freed] = RegionBytes(dir_pos, Pkt)]
  /\ dir_pos' = dir_pos + Pkt
  /\ tx_pipe_outstanding' = tx_pipe_outstanding + 1
  /\ isr' = "idle"
  /\ UNCHANGED <<threadVars, regionVars, dir_sent, tx_buf, tx_tail, tx_armed,
                 tx_last_full, tx_pipe_armed, tx_tog_pred, tx_stage, T_RES,
                 T_LEN, T_TOG, fg, freed, irq_on, hostVars, made>>

WindDown ==
  /\ isr = "refill"
  /\ DirectReady(dir_avail) < Pkt
  /\ tx_pipe_armed' = FALSE
  /\ isr' = "idle"
  /\ UNCHANGED <<threadVars, regionVars, dir_sent, dir_pos, tx_buf, tx_tail,
                 tx_armed, tx_last_full, tx_pipe_outstanding, tx_tog_pred,
                 tx_stage, T_RES, T_LEN, win, T_TOG, fg, freed, irq_on,
                 hostVars, made>>

(* Any other transfer (an OUT packet, a control request), and in polled     *)
(* mode a poll that finds no event: only usb_pumps().                       *)
PumpsOnly(event) ==
  /\ Serving(event)
  /\ KickIf(~RingEmpty \/ DirectReady(dir_avail) # 0, dir_avail)
  /\ fg' = "NONE"
  /\ UNCHANGED <<threadVars, regionVars, dir_sent, T_TOG, isr, freed, irq_on,
                 hostVars, made>>

OtherDone == PumpsOnly("OTHER")

IdlePoll == ~irq_on /\ PumpsOnly("NONE")

(* usb_session_flush() on a DTR rise or a changed line coding; and the same *)
(* forgetting in usb_bus_reset(), which also clears the toggles.            *)
FlushTx ==
  /\ dir_on' = FALSE
  /\ dir_total' = 0
  /\ ForgetPipeline
  /\ tx_buf' = <<>>
  /\ tx_tail' = 0
  /\ tx_armed' = FALSE
  /\ T_LEN' = 0
  /\ T_RES' = "NAK"
  /\ fg' = "NONE"
  /\ host_open' = FALSE
  /\ UNCHANGED <<threadVars, dir_tok, tx_last_full, win, isr, freed, irq_on,
                 reading, host, made>>

SessionFlush == Serving("OPEN") /\ FlushTx /\ UNCHANGED T_TOG

BusReset == Serving("RST") /\ FlushTx /\ T_TOG' = 0

------------------------------------------------------------------------------
(* The SIE and the host.  RB_UC_INT_BUSY keeps the SIE off the bus while an *)
(* event is unserved, so it transacts only with the flag clear.             *)

(* An IN token answered with T_LEN units of the window the toggle names. *)
SieIn ==
  /\ fg = "NONE"
  /\ T_RES = "ACK"
  /\ reading
  /\ host' = host \o SubSeq(win[T_TOG], 1, T_LEN)
  /\ host_open' = (T_LEN = Pkt)
  /\ T_TOG' = OtherWindow(T_TOG)
  /\ fg' = "IN"
  /\ UNCHANGED <<threadVars, regionVars, dir_sent, pumpVars, isr, freed,
                 irq_on, reading, made>>

(* Other traffic: OTHER is any transfer that leaves the transmit side       *)
(* alone, OPEN a control request that starts a session, RST a bus reset.    *)
SieOther ==
  /\ fg = "NONE"
  /\ fg' \in {"OTHER", "OPEN", "RST"}
  /\ UNCHANGED <<threadVars, regionVars, dir_sent, pumpVars, T_TOG, isr, freed,
                 irq_on, hostVars, made>>

(* The host application stops or resumes posting reads. *)
HostToggles ==
  /\ reading' = ~reading
  /\ UNCHANGED <<threadVars, regionVars, dir_sent, pumpVars, T_TOG, isrVars,
                 host, host_open, made>>

------------------------------------------------------------------------------
Init ==
  /\ pc = "idle" /\ off = 0 /\ len = 0 /\ grain = 0 /\ left = 0 /\ jobs = 0
  /\ dir_on = FALSE /\ dir_tok = 0 /\ dir_avail = 0 /\ dir_pos = 0
  /\ dir_total = 0 /\ dir_sent = 0
  /\ tx_buf = <<>> /\ tx_tail = 0 /\ tx_armed = FALSE /\ tx_last_full = FALSE
  /\ tx_pipe_armed = FALSE /\ tx_pipe_outstanding = 0 /\ tx_tog_pred = 0
  /\ tx_stage = <<>>
  /\ T_RES = "NAK" /\ T_LEN = 0 /\ T_TOG = 0
  /\ win = [w \in {0, 1} |-> [i \in 1..Pkt |-> 0]]
  /\ fg = "NONE" /\ isr = "idle" /\ freed = 0 /\ irq_on \in BOOLEAN
  /\ reading = TRUE /\ host = <<>> /\ host_open = FALSE /\ made = 0

Thread ==
  \/ BeginRegion \/ Publish \/ Republish \/ EndRegion \/ StallEnd
  \/ BeginReply \/ QueueChunk \/ QueueKick \/ AbandonReply

Handler ==
  \/ InDonePump \/ InDoneRelease \/ RefillWindow \/ WindDown
  \/ OtherDone \/ IdlePoll \/ SessionFlush \/ BusReset

Environment == SieIn \/ SieOther \/ HostToggles

Next == Thread \/ Handler \/ Environment

Spec == Init /\ [][Next]_vars

------------------------------------------------------------------------------
(* Properties. *)

Units == 0..Pkt
Window == {0, 1}

(* Every variable keeps the range its C type and its use give it. *)
FlagsOK ==
  /\ {dir_on, tx_armed, tx_last_full, tx_pipe_armed} \subseteq BOOLEAN
  /\ {irq_on, reading, host_open} \subseteq BOOLEAN

ThreadDataOK ==
  /\ pc \in {"idle", "read", "call", "chunk", "kick"}
  /\ {off, len, grain, left, jobs} \subseteq Nat
  /\ {dir_tok, dir_avail, dir_total, dir_sent, made} \subseteq Nat

PumpDataOK ==
  /\ {dir_pos, tx_tail, tx_pipe_outstanding} \subseteq Nat
  /\ tx_buf \in Seq(Nat)
  /\ tx_stage \in Seq(Nat)
  /\ tx_tog_pred \in Window
  /\ T_RES \in {"ACK", "NAK"}
  /\ T_LEN \in Units
  /\ win \in [Window -> [1..Pkt -> Nat]]

BusDataOK ==
  /\ T_TOG \in Window
  /\ freed \in Window
  /\ fg \in {"NONE", "IN", "OTHER", "OPEN", "RST"}
  /\ isr \in {"idle", "refill"}
  /\ host \in Seq(Nat)

TypeOK == FlagsOK /\ ThreadDataOK /\ PumpDataOK /\ BusDataOK

(* Packets armed in a window and not yet taken by the host. *)
Unsent ==
  IF ~tx_armed THEN 0
  ELSE (IF tx_pipe_outstanding > 1 THEN tx_pipe_outstanding ELSE 1)
         - (IF fg = "IN" THEN 1 ELSE 0)

InFlight ==
  (IF Unsent > 0 THEN SubSeq(win[T_TOG], 1, T_LEN) ELSE <<>>)
    \o (IF Unsent > 1 THEN SubSeq(win[OtherWindow(T_TOG)], 1, T_LEN) ELSE <<>>)

(* What the firmware owes the host: in the windows, in the ring, in the     *)
(* published part of the region, in that order.                             *)
Owed ==
  InFlight \o SubSeq(tx_buf, tx_tail + 1, tx_head)
    \o RegionBytes(dir_pos, DirectReady(dir_avail))

Stream == INSTANCE ByteStream WITH owed <- Owed

(* The transmit path implements an in-order, at-most-once byte stream that  *)
(* loses only what a stall or a new session withdraws.                      *)
ImplementsByteStream == Stream!Spec

(* tx_dir_sent_n is what the drain loops wait on: it never runs ahead of    *)
(* what the SIE took, and with what is still in flight it accounts for      *)
(* every byte copied out of the region (usb.c "Completions, not copies").   *)
StagedDirect == IF tx_stage = <<>> THEN 0 ELSE Head(tx_stage)

CreditExact ==
  dir_on =>
    /\ dir_sent + Pkt * tx_pipe_outstanding + StagedDirect = dir_pos
    /\ dir_pos <= dir_avail
    /\ dir_avail <= dir_total

(* A region is withdrawn as finished only once the host holds all of it     *)
(* (do_cart_read: withdrawing early "loses the last 64 bytes").             *)
FinishedIsDelivered ==
  [][ EndRegion =>
        \A t \in dir_tok + 1 .. dir_tok + len :
          \E i \in 1..Len(host) : host[i] = t ]_vars

(* The shadow toggle names the window the last completed packet left, also  *)
(* when the SIE has moved on since: a refill never overwrites the window in *)
(* flight.                                                                  *)
RefillsTheFreedWindow ==
  /\ tx_pipe_armed /\ isr = "idle" =>
       tx_tog_pred = (IF fg = "IN" THEN OtherWindow(T_TOG) ELSE T_TOG)
  /\ isr = "refill" =>
       freed = (IF fg = "IN" THEN T_TOG ELSE OtherWindow(T_TOG))

(* tx_stage has TX_STAGE_SLOTS = 4 slots and the pipeline two windows: a    *)
(* completion finds exactly the one entry of the packet it completes.       *)
StageNeverOverruns ==
  /\ Len(tx_stage) <= 1
  /\ tx_pipe_outstanding <= 2
  /\ tx_pipe_outstanding > 0 => tx_stage = <<>>

(* The endpoint parks only after the host has seen the end of its transfer: *)
(* a transfer whose last packet was full is closed by a terminator.         *)
ParkedMeansTerminated == ~tx_armed => ~host_open

(* "Never clear the flag unless the window the SIE sends next already holds *)
(* valid bytes" (usb.c, above ep2_tx_other()): a data packet starts with a  *)
(* byte the host has not been sent before.                                  *)
LastSent == IF host = <<>> THEN 0 ELSE host[Len(host)]

NoStaleWindow == [][ SieIn /\ T_LEN > 0 => win[T_TOG][1] > LastSent ]_vars

(* A read command always ends, whatever the host does: drained if it reads, *)
(* given up if it stopped or opened a new session.                          *)
ReadsEnd == (pc = "read") ~> (pc # "read")

(* Once the thread has run its commands, a host that keeps reading has      *)
(* everything they produced and was not withdrawn: no byte stays behind for *)
(* want of a kick.                                                          *)
AllDelivered == <>[]reading => <>[](Owed = <<>> /\ ~tx_armed)

(* Fairness: the thread runs its code, a pending event is served (by the    *)
(* interrupt or by the next poll), and a host controller that keeps polling *)
(* the IN endpoint is answered even when other traffic takes turns with it. *)
Fairness ==
  /\ WF_vars(Publish) /\ WF_vars(EndRegion) /\ SF_vars(StallEnd)
  /\ WF_vars(QueueChunk) /\ WF_vars(QueueKick)
  /\ WF_vars(InDonePump) /\ WF_vars(InDoneRelease)
  /\ WF_vars(RefillWindow) /\ WF_vars(WindDown)
  /\ WF_vars(OtherDone) /\ WF_vars(SessionFlush) /\ WF_vars(BusReset)
  /\ WF_vars(IdlePoll)
  /\ SF_vars(SieIn)

FairSpec == Spec /\ Fairness
=============================================================================
