-------------------------------- MODULE UsbRx --------------------------------
(***************************************************************************)
(* The bulk-OUT (host to device) half of src/usb.c in the shipping         *)
(* configuration (FW_USB_IRQ, FW_USB_ISR_LEAN, FW_RX_DBUF = 0,             *)
(* bl_usb_ep2_dbuf = 1): a packet the serial interface engine (SIE)        *)
(* accepts is copied by the transfer handler into a power-of-two ring with *)
(* free-running indices, and bl_usb_rx() takes it out in the thread, with  *)
(* no lock on the ring.  The endpoint is open only while a whole packet    *)
(* fits.                                                                   *)
(*                                                                         *)
(* Bytes are counted in units; a unit is identified by its number in the   *)
(* order in which the SIE accepted it.                                     *)
(***************************************************************************)
EXTENDS Integers, Sequences

CONSTANTS
  Pkt,          (* units in a full packet, and RX_CREDIT_BYTES              *)
  Size,         (* units in rx_buf: BL_USB_RX_BUF_SIZE                      *)
  Wrap,         (* modulus of the indices: 2^16 in the code                 *)
  ReadMax,      (* the `max' of bl_usb_rx() calls                           *)
  MidReadOpens, (* may a session boundary be served inside bl_usb_rx()?     *)
  MaxUnits,     (* bound: units the host sends                              *)
  MaxSessions   (* bound: session boundaries                                *)

(* The two static assertions above RX_MASK, as far as the indices need them. *)
ASSUME UsbRxAssumption ==
  /\ {Pkt, Size, Wrap, ReadMax} \subseteq Nat \ {0}
  /\ {MaxUnits, MaxSessions} \subseteq Nat
  /\ MidReadOpens \in BOOLEAN
  /\ Wrap % Size = 0
  /\ Pkt <= Size
  /\ Size < Wrap

VARIABLES
  (* the ring *)
  rx_head, rx_tail, rx_buf,
  (* endpoint 2, receive side: registers and window memory *)
  R_RES, R_TOG, rx_win,
  (* the event latched in R8_USB_INT_FG, _INT_ST and _RX_LEN *)
  event,
  (* whether the interrupt drives the handler *)
  irq_on,
  (* bl_usb_rx(): program counter and locals *)
  pc, n, copied, tail_read,
  (* host, and what became of every unit *)
  host_tog, made, taken, lost, sessions

ringVars   == <<rx_head, rx_tail, rx_buf>>
winVars    == <<R_TOG, rx_win>>
readerVars == <<pc, n, copied, tail_read>>
ghostVars  == <<made, taken, lost, sessions>>

vars == <<ringVars, R_RES, winVars, event, irq_on, readerVars, host_tog, ghostVars>>

------------------------------------------------------------------------------
MinOf(a, b) == IF a < b THEN a ELSE b

Flip(toggle) == 1 - toggle

Event(kind) == [kind |-> kind, len |-> 0, tog_ok |-> FALSE]

NoEvent == Event("NONE")

(* Variant: an index wider than the code's 16 bits. *)
AdvanceWide(index, k) == index + k

(* The indices run free modulo 2^16. *)
Advance(index, k) == (index + k) % Wrap

Used(head, tail) == (head - tail) % Wrap

(* Variant: the room left counted without what is already in the ring. *)
FreeWhole(head, tail) == Size

Free(head, tail) == (Size - Used(head, tail)) % Wrap

(* Variant: the endpoint stays open while any room at all is left. *)
CreditForAnyRoom(head, tail) ==
  IF Free(head, tail) > 0 THEN "ACK" ELSE "NAK"

(* What rx_credit_update() makes of R_RES. *)
CreditFor(head, tail) ==
  IF Free(head, tail) >= Pkt THEN "ACK" ELSE "NAK"

(* The ring from one free-running index up to another. *)
Contents(tail, count) ==
  [i \in 1..count |-> rx_buf[(tail + i - 1) % Size]]

------------------------------------------------------------------------------
(* bl_usb_rx(), the steps an interrupt can fall between. *)

(* n = rx_used(), clipped to max. *)
ReadSample ==
  /\ pc = "idle"
  /\ n' = MinOf(Used(rx_head, rx_tail), ReadMax)
  /\ pc' = IF n' = 0 THEN "credit" ELSE "copy"
  /\ UNCHANGED <<ringVars, R_RES, winVars, event, irq_on, copied, tail_read,
                 host_tog, ghostVars>>

(* The copy out of the ring, split at its end by the mask. *)
ReadCopy ==
  /\ pc = "copy"
  /\ copied' = Contents(rx_tail, n)
  /\ pc' = "load"
  /\ UNCHANGED <<ringVars, R_RES, winVars, event, irq_on, n, tail_read, host_tog,
                 ghostVars>>

(* rx_tail = rx_tail + n: the load ... *)
ReadLoadTail ==
  /\ pc = "load"
  /\ tail_read' = rx_tail
  /\ pc' = "store"
  /\ UNCHANGED <<ringVars, R_RES, winVars, event, irq_on, n, copied, host_tog,
                 ghostVars>>

(* ... and the store. *)
ReadStoreTail ==
  /\ pc = "store"
  /\ rx_tail' = Advance(tail_read, n)
  /\ taken' = taken \o copied
  /\ pc' = "credit"
  /\ UNCHANGED <<rx_head, rx_buf, R_RES, winVars, event, irq_on, n,
                 copied, tail_read, host_tog, made, lost, sessions>>

(* Variant: bl_usb_rx() leaves the endpoint to the handler. *)
ReaderCreditNone == R_RES

ReaderCredit == CreditFor(rx_head, rx_tail)

(* rx_credit_update() under the lock, also when nothing was read. *)
ReadCredit ==
  /\ pc = "credit"
  /\ R_RES' = ReaderCredit
  /\ pc' = "idle"
  /\ n' = 0
  /\ copied' = <<>>
  /\ tail_read' = 0
  /\ UNCHANGED <<ringVars, winVars, event, irq_on, host_tog, ghostVars>>

------------------------------------------------------------------------------
(* The transfer handler.  Polled, it never runs inside bl_usb_rx(). *)

Serving(kind) ==
  /\ event.kind = kind
  /\ irq_on \/ pc = "idle"

(* Variant: EP2_DBUF_TOG_LAG = 0, the window the toggle names now. *)
ReceivedWindowNoLag == R_TOG

(* ep2_rx_off(): the toggle names the next packet's window (TOG_LAG). *)
ReceivedWindow == Flip(R_TOG)

(* RB_UIS_TOG_OK clear means a retransmission. *)
Fresh == event.tog_ok

(* The slot of the j-th unit from rx_head on: the mask. *)
RingSlot(j) == (rx_head + j) % Size

(* TOK_OUT_EP2: close the window, rx_deliver() a packet in sequence, then   *)
(* usb_pumps() re-opens if rx_deliver() ran and left room for one more: the *)
(* mark between the two, rx_credit_dirty, never outlives the handler.  A    *)
(* retransmission leaves the endpoint closed for the reader to re-open.     *)
OutDone ==
  LET room == MinOf(event.len, Free(rx_head, rx_tail))
      len  == IF Fresh THEN MinOf(room, Pkt) ELSE 0
  IN
  /\ Serving("OUT")
  /\ rx_head' = Advance(rx_head, len)
  /\ rx_buf' = [s \in 0..Size - 1 |->
       IF \E j \in 0..len - 1 : RingSlot(j) = s
         THEN rx_win[ReceivedWindow][1 + CHOOSE j \in 0..len - 1 : RingSlot(j) = s]
         ELSE rx_buf[s]]
  /\ R_RES' = IF Fresh THEN CreditFor(rx_head', rx_tail) ELSE "NAK"
  /\ event' = NoEvent
  /\ UNCHANGED <<rx_tail, winVars, irq_on, readerVars, host_tog, ghostVars>>

(* With MidReadOpens FALSE, no boundary is served while bl_usb_rx() is       *)
(* between sampling the ring and storing its tail.                          *)
BoundaryMayInterrupt == MidReadOpens \/ pc \in {"idle", "credit"}

(* Every unit accepted and not yet taken is dropped by a session boundary. *)
DropEverything ==
  /\ sessions' = sessions + 1
  /\ lost' = lost + (made - Len(taken) - lost)

(* usb_session_flush(): empty ring, endpoint re-derived, toggles survive. *)
SessionFlush ==
  /\ Serving("OPEN")
  /\ BoundaryMayInterrupt
  /\ rx_head' = 0
  /\ rx_tail' = 0
  /\ R_RES' = CreditFor(0, 0)
  /\ event' = NoEvent
  /\ DropEverything
  /\ UNCHANGED <<rx_buf, winVars, irq_on, readerVars, host_tog, made, taken>>

(* usb_bus_reset(): R8_UEP2_CTRL = 0x12 also clears the toggle. *)
BusReset ==
  /\ Serving("RST")
  /\ BoundaryMayInterrupt
  /\ rx_head' = 0
  /\ rx_tail' = 0
  /\ R_RES' = "ACK"
  /\ R_TOG' = 0
  /\ event' = NoEvent
  /\ DropEverything
  /\ UNCHANGED <<rx_buf, rx_win, irq_on, readerVars, host_tog,
                 made, taken>>

(* Any other transfer: nothing of the receive side changes. *)
OtherDone ==
  /\ Serving("OTHER")
  /\ event' = NoEvent
  /\ UNCHANGED <<ringVars, R_RES, winVars, irq_on, readerVars, host_tog,
                 ghostVars>>

------------------------------------------------------------------------------
(* The SIE and the host. *)

(* An OUT packet of k units; the host may miss the handshake, and then      *)
(* sends the packet again under the same toggle.                            *)
SieOut ==
  \E k \in 1..Pkt, acked \in BOOLEAN :
    /\ event = NoEvent
    /\ R_RES = "ACK"
    /\ made + k <= MaxUnits
    /\ event' = [kind |-> "OUT", len |-> k, tog_ok |-> host_tog = R_TOG]
    /\ IF host_tog = R_TOG
         THEN /\ rx_win' = [rx_win EXCEPT ![R_TOG] =
                   [i \in 1..Pkt |-> IF i <= k THEN made + i ELSE 0]]
              /\ R_TOG' = Flip(R_TOG)
              /\ made' = made + k
         ELSE UNCHANGED <<rx_win, R_TOG, made>>
    /\ host_tog' = IF acked THEN Flip(host_tog) ELSE host_tog
    /\ UNCHANGED <<ringVars, R_RES, irq_on, readerVars, taken, lost, sessions>>

SieOther ==
  /\ event = NoEvent
  /\ event' = Event("OTHER")
  /\ UNCHANGED <<ringVars, R_RES, winVars, irq_on, readerVars, host_tog, ghostVars>>

(* A host application opens the port (OPEN), or the bus is reset (RST) and  *)
(* the host starts again from DATA0.                                        *)
HostBoundary ==
  /\ event = NoEvent
  /\ sessions < MaxSessions
  /\ \/ event' = Event("OPEN") /\ UNCHANGED host_tog
     \/ event' = Event("RST") /\ host_tog' = 0
  /\ UNCHANGED <<ringVars, R_RES, winVars, irq_on, readerVars, ghostVars>>

------------------------------------------------------------------------------
Init ==
  /\ rx_head = 0 /\ rx_tail = 0 /\ rx_buf = [s \in 0..Size - 1 |-> 0]
  /\ R_RES = "ACK" /\ R_TOG = 0
  /\ rx_win = [w \in {0, 1} |-> [i \in 1..Pkt |-> 0]]
  /\ event = NoEvent /\ irq_on \in BOOLEAN
  /\ pc = "idle" /\ n = 0 /\ copied = <<>> /\ tail_read = 0
  /\ host_tog = 0
  /\ made = 0 /\ taken = <<>> /\ lost = 0 /\ sessions = 0

Reader == ReadSample \/ ReadCopy \/ ReadLoadTail \/ ReadStoreTail \/ ReadCredit

Handler == OutDone \/ SessionFlush \/ BusReset \/ OtherDone

Environment == SieOut \/ SieOther \/ HostBoundary

Next == Reader \/ Handler \/ Environment

Spec == Init /\ [][Next]_vars

(* The main loop calls bl_usb_rx() again and again, and a pending event is  *)
(* served.                                                                  *)
Fairness ==
  /\ WF_vars(Reader)
  /\ SF_vars(OutDone) /\ SF_vars(OtherDone)
  /\ SF_vars(SessionFlush) /\ SF_vars(BusReset)

FairSpec == Spec /\ Fairness

------------------------------------------------------------------------------
(* Properties. *)

TypeOK ==
  /\ rx_head \in 0..Wrap - 1 /\ rx_tail \in 0..Wrap - 1
  /\ rx_buf \in [0..Size - 1 -> Nat]
  /\ R_RES \in {"ACK", "NAK"} /\ R_TOG \in {0, 1}
  /\ rx_win \in [{0, 1} -> [1..Pkt -> Nat]]
  /\ event \in [kind : {"NONE", "OUT", "OTHER", "OPEN", "RST"},
                len : 0..Pkt, tog_ok : BOOLEAN]
  /\ irq_on \in BOOLEAN
  /\ pc \in {"idle", "copy", "load", "store", "credit"}
  /\ n \in 0..MinOf(ReadMax, Wrap - 1)
  /\ copied \in Seq(Nat) /\ tail_read \in 0..Wrap - 1
  /\ host_tog \in {0, 1}
  /\ made \in Nat /\ taken \in Seq(Nat) /\ lost \in Nat /\ sessions \in Nat

(* A packet the SIE has accepted and the handler has not yet served. *)
InWindow ==
  IF event.kind = "OUT" /\ event.tog_ok
    THEN SubSeq(rx_win[ReceivedWindow], 1, event.len) ELSE <<>>

Owed == Contents(rx_tail, Used(rx_head, rx_tail)) \o InWindow

(* The parser sees the units in the order the SIE accepted them, none twice *)
(* (a retransmission is dropped), none torn by the wrap of the ring.        *)
Stream == INSTANCE ByteStream WITH owed <- Owed, host <- taken

ImplementsByteStream == Stream!Spec

(* No accepted unit is lost but by a session boundary.  While a boundary is *)
(* itself pending, the units it will drop are still counted as owed.        *)
OnlySessionsLose == made = Len(taken) + Len(Owed) + lost

(* "unreachable given credit" (rx_deliver): an open endpoint, or a packet   *)
(* accepted through it, always has a whole packet's room in the ring.       *)
CreditImpliesRoom ==
  R_RES = "ACK" => Free(rx_head, rx_tail) >= Pkt

(* "Single producer/consumer: the handler writes rx_head, bl_usb_rx()       *)
(* rx_tail": the free-running indices are never more than a ring apart.     *)
RingNeverOverruns == Used(rx_head, rx_tail) <= Size

(* The ring is sound: its variables have their types, an open endpoint has *)
(* room for the packet it lets in, and the indices keep together over      *)
(* every wrap and every session.                                           *)
RingSound == TypeOK /\ CreditImpliesRoom /\ RingNeverOverruns

(* A closed endpoint is opened again: there is no state in which the ring   *)
(* drains and the endpoint stays at NAK ("the link deadlocks").             *)
EndpointReopens == []<>(R_RES = "ACK")
=============================================================================
