----------------------------- MODULE UsbRxProofs -----------------------------
(***************************************************************************)
(* Theorems about UsbRx for every packet and ring size, index width and    *)
(* read length, checked by TLAPS: the ring never overruns, no unit is lost *)
(* but by a session boundary, and what bl_usb_rx() returns is the stream   *)
(* the SIE accepted.  They assume that no boundary is served between the   *)
(* sample and the tail store of bl_usb_rx(); the run MCUsbRxSession shows  *)
(* what happens otherwise.                                                 *)
(***************************************************************************)
EXTENDS UsbRx, TLAPS

U == Used(rx_head, rx_tail)

(* Units the SIE has accepted and the handler has not delivered. *)
Waiting == IF event.kind = "OUT" /\ event.tog_ok THEN event.len ELSE 0

(* A packet was let in by an open endpoint, which stays open behind it. *)
PacketIsLetIn ==
  event.kind = "OUT" => R_RES = "ACK" /\ event.len > 0

(* bl_usb_rx() has sampled units the ring holds, and nobody else moves the  *)
(* tail: what it loads is still the tail when it stores it.                 *)
ReaderOwnsTheTail ==
  /\ pc \in {"copy", "load", "store"} => 0 < n /\ n <= U
  /\ pc = "store" => tail_read = rx_tail

(* The copy is what the ring holds, and goes on holding while the handler   *)
(* fills what lies beyond it.                                               *)
CopyIsTheRing ==
  pc \in {"load", "store"} => copied = Contents(rx_tail, n)

NoneLost == made = Len(taken) + U + Waiting + lost

IInv ==
  /\ TypeOK /\ RingNeverOverruns /\ CreditImpliesRoom
  /\ PacketIsLetIn /\ ReaderOwnsTheTail /\ CopyIsTheRing /\ NoneLost

-----------------------------------------------------------------------------
(* Remainders.                                                              *)

LEMMA DivisionIs ==
  ASSUME NEW m \in Nat \ {0}, NEW a \in Int
  PROVE  \E q \in Int, r \in 0 .. m - 1 : a = q * m + r /\ a % m = r
<1>1. a = (a \div m) * m + (a % m) BY SMTT(30)
<1>2. a \div m \in Int /\ a % m \in 0 .. m - 1 OBVIOUS
<1> QED BY <1>1, <1>2

LEMMA RemainderIs ==
  ASSUME NEW m \in Nat \ {0}, NEW q \in Int, NEW r \in 0 .. m - 1
  PROVE  (q * m + r) % m = r
OBVIOUS

(* Adding a multiple of the modulus changes nothing. *)
LEMMA MultipleVanishes ==
  ASSUME NEW m \in Nat \ {0}, NEW a \in Int, NEW k \in Int
  PROVE  (a + k * m) % m = a % m
<1>1. PICK q \in Int, r \in 0 .. m - 1 : a = q * m + r /\ a % m = r
  BY DivisionIs
<1>2. a + k * m = (q + k) * m + r BY <1>1
<1>3. q + k \in Int OBVIOUS
<1> QED BY <1>1, <1>2, <1>3, RemainderIs

(* Less than the modulus apart, remainders differ. *)
LEMMA NearbyDiffer ==
  ASSUME NEW m \in Nat \ {0}, NEW a \in Int, NEW b \in Int,
         a < b, b < a + m
  PROVE  a % m # b % m
<1> SUFFICES ASSUME a % m = b % m PROVE FALSE OBVIOUS
<1>1. PICK p \in Int, r \in 0 .. m - 1 : a = p * m + r /\ a % m = r
  BY DivisionIs
<1>2. PICK q \in Int, s \in 0 .. m - 1 : b = q * m + s /\ b % m = s
  BY DivisionIs
<1>3. b - a = (q - p) * m BY <1>1, <1>2
<1>4. 0 < (q - p) * m /\ (q - p) * m < m BY <1>3
<1>5. q - p \in Int OBVIOUS
<1>6. q - p <= 0 \/ q - p >= 1 BY <1>5
<1>7. ASSUME NEW d \in Int, d >= 1 PROVE d * m >= m BY <1>7
<1>8. ASSUME NEW d \in Int, d <= 0 PROVE d * m <= 0 BY <1>8
<1> QED BY <1>4, <1>5, <1>6, <1>7, <1>8

-----------------------------------------------------------------------------
(* The free-running indices.                                                *)

LEMMA SizesAre ==
  /\ Pkt \in Nat \ {0} /\ Size \in Nat \ {0} /\ Wrap \in Nat \ {0}
  /\ ReadMax \in Nat \ {0} /\ MaxUnits \in Nat /\ MaxSessions \in Nat
  /\ Pkt <= Size /\ Size < Wrap /\ Wrap % Size = 0
BY UsbRxAssumption

LEMMA UsedIs ==
  ASSUME NEW h \in 0 .. Wrap - 1, NEW t \in 0 .. Wrap - 1
  PROVE  /\ Used(h, t) \in 0 .. Wrap - 1
         /\ h >= t => Used(h, t) = h - t
         /\ h < t => Used(h, t) = h - t + Wrap
<1>1. CASE h >= t
  <2>1. h - t \in 0 .. Wrap - 1 BY <1>1, SizesAre
  <2>2. (0 * Wrap + (h - t)) % Wrap = h - t BY <2>1, SizesAre, RemainderIs
  <2>3. 0 * Wrap + (h - t) = h - t BY SizesAre
  <2> QED BY <1>1, <2>1, <2>2, <2>3 DEF Used
<1>2. CASE h < t
  <2>1. h - t + Wrap \in 0 .. Wrap - 1 BY <1>2, SizesAre
  <2>2. ((-1) * Wrap + (h - t + Wrap)) % Wrap = h - t + Wrap
    BY <2>1, SizesAre, RemainderIs
  <2>3. (-1) * Wrap + (h - t + Wrap) = h - t BY SizesAre
  <2> QED BY <1>2, <2>1, <2>2, <2>3 DEF Used
<1> QED BY <1>1, <1>2

LEMMA AdvanceIs ==
  ASSUME NEW x \in 0 .. Wrap - 1, NEW k \in 0 .. Wrap - 1
  PROVE  /\ Advance(x, k) \in 0 .. Wrap - 1
         /\ x + k < Wrap => Advance(x, k) = x + k
         /\ x + k >= Wrap => Advance(x, k) = x + k - Wrap
<1>1. CASE x + k < Wrap
  <2>1. x + k \in 0 .. Wrap - 1 BY <1>1, SizesAre
  <2>2. (0 * Wrap + (x + k)) % Wrap = x + k BY <2>1, SizesAre, RemainderIs
  <2>3. 0 * Wrap + (x + k) = x + k BY SizesAre
  <2>4. Advance(x, k) = x + k BY <2>2, <2>3 DEF Advance
  <2> QED BY <1>1, <2>1, <2>4, SizesAre
<1>2. CASE x + k >= Wrap
  <2>1. x + k - Wrap \in 0 .. Wrap - 1 BY <1>2, SizesAre
  <2>2. (1 * Wrap + (x + k - Wrap)) % Wrap = x + k - Wrap
    BY <2>1, SizesAre, RemainderIs
  <2>3. 1 * Wrap + (x + k - Wrap) = x + k BY SizesAre
  <2>4. Advance(x, k) = x + k - Wrap BY <2>2, <2>3 DEF Advance
  <2> QED BY <1>2, <2>1, <2>4, SizesAre
<1> QED BY <1>1, <1>2, SizesAre

(* The handler puts k units in, the reader takes k out. *)
LEMMA UsedMoves ==
  ASSUME NEW h \in 0 .. Wrap - 1, NEW t \in 0 .. Wrap - 1, NEW k \in Nat
  PROVE  /\ Used(h, t) + k < Wrap => Used(Advance(h, k), t) = Used(h, t) + k
         /\ k <= Used(h, t) => Used(h, Advance(t, k)) = Used(h, t) - k
         /\ Advance(t, Used(h, t)) = h
<1> DEFINE u == Used(h, t)
<1>1. u \in 0 .. Wrap - 1 /\ (h >= t => u = h - t) /\ (h < t => u = h - t + Wrap)
  BY UsedIs
<1> HIDE DEF u
<1>2. ASSUME u + k < Wrap PROVE Used(Advance(h, k), t) = u + k
  <2> DEFINE a == Advance(h, k)
  <2>1. k \in 0 .. Wrap - 1 BY <1>1, <1>2, SizesAre
  <2>2. /\ a \in 0 .. Wrap - 1
        /\ h + k < Wrap => a = h + k
        /\ h + k >= Wrap => a = h + k - Wrap
    BY <2>1, AdvanceIs
  <2> HIDE DEF a
  <2>3. /\ a >= t => Used(a, t) = a - t
        /\ a < t => Used(a, t) = a - t + Wrap
    BY <2>2, UsedIs
  <2>4. Used(a, t) = u + k BY <1>1, <1>2, <2>2, <2>3, SizesAre
  <2> QED BY <2>4 DEF a
<1>3. ASSUME k <= u PROVE Used(h, Advance(t, k)) = u - k
  <2> DEFINE a == Advance(t, k)
  <2>1. k \in 0 .. Wrap - 1 BY <1>1, <1>3, SizesAre
  <2>2. /\ a \in 0 .. Wrap - 1
        /\ t + k < Wrap => a = t + k
        /\ t + k >= Wrap => a = t + k - Wrap
    BY <2>1, AdvanceIs
  <2> HIDE DEF a
  <2>3. /\ h >= a => Used(h, a) = h - a
        /\ h < a => Used(h, a) = h - a + Wrap
    BY <2>2, UsedIs
  <2>4. Used(h, a) = u - k BY <1>1, <1>3, <2>2, <2>3, SizesAre
  <2> QED BY <2>4 DEF a
<1>4. Advance(t, u) = h
  <2>1. u \in 0 .. Wrap - 1 BY <1>1
  <2>2. /\ t + u < Wrap => Advance(t, u) = t + u
        /\ t + u >= Wrap => Advance(t, u) = t + u - Wrap
    BY <2>1, AdvanceIs
  <2> QED BY <1>1, <2>2, SizesAre
<1> QED BY <1>2, <1>3, <1>4 DEF u

(* The ring's size divides the indices' range: a slot is the same counted   *)
(* from an index advanced or from the index it was advanced from.           *)
LEMMA SlotIs ==
  ASSUME NEW x \in 0 .. Wrap - 1, NEW k \in 0 .. Wrap - 1, NEW j \in Nat
  PROVE  (Advance(x, k) + j) % Size = (x + k + j) % Size
<1>1. PICK q \in Int, r \in 0 .. Size - 1 : Wrap = q * Size + r /\ Wrap % Size = r
  BY SizesAre, DivisionIs
<1>2. Wrap = q * Size BY <1>1, SizesAre
<1>3. CASE x + k < Wrap BY <1>3, AdvanceIs
<1>4. CASE x + k >= Wrap
  <2>1. Advance(x, k) = x + k - Wrap BY <1>4, AdvanceIs
  <2>2. x + k + j \in Int /\ -q \in Int OBVIOUS
  <2>3. ((x + k + j) + (-q) * Size) % Size = (x + k + j) % Size
    BY <2>2, SizesAre, MultipleVanishes
  <2>4. Advance(x, k) + j = (x + k + j) + (-q) * Size BY <2>1, <1>2, SizesAre
  <2> QED BY <2>3, <2>4
<1> QED BY <1>3, <1>4, SizesAre
-----------------------------------------------------------------------------
(* The ring.                                                                *)

LEMMA FreeIs ==
  ASSUME NEW h \in 0 .. Wrap - 1, NEW t \in 0 .. Wrap - 1, Used(h, t) <= Size
  PROVE  /\ Free(h, t) = Size - Used(h, t)
         /\ CreditFor(h, t) = "ACK" <=> Size - Used(h, t) >= Pkt
         /\ CreditFor(h, t) \in {"ACK", "NAK"}
<1> DEFINE u == Used(h, t)
<1>1. u \in Nat /\ u <= Size BY UsedIs, SizesAre
<1> HIDE DEF u
<1>2. Size - u \in 0 .. Wrap - 1 BY <1>1, SizesAre
<1>3. (0 * Wrap + (Size - u)) % Wrap = Size - u BY <1>2, SizesAre, RemainderIs
<1>4. 0 * Wrap + (Size - u) = Size - u BY <1>1, SizesAre
<1>5. Free(h, t) = Size - u BY <1>3, <1>4 DEF Free, u
<1> QED BY <1>5 DEF u, CreditFor

LEMMA ContentsAre ==
  ASSUME NEW t \in 0 .. Wrap - 1, NEW k \in Nat, rx_buf \in [0 .. Size - 1 -> Nat]
  PROVE  /\ Contents(t, k) \in Seq(Nat) /\ Len(Contents(t, k)) = k
         /\ \A i \in 1 .. k : Contents(t, k)[i] = rx_buf[(t + i - 1) % Size]
<1>1. \A i \in 1 .. k : (t + i - 1) % Size \in 0 .. Size - 1 BY SizesAre
<1>2. \A i \in 1 .. k : rx_buf[(t + i - 1) % Size] \in Nat BY <1>1
<1> QED BY <1>2 DEF Contents

LEMMA Facts ==
  ASSUME IInv
  PROVE  /\ rx_head \in 0 .. Wrap - 1 /\ rx_tail \in 0 .. Wrap - 1
         /\ rx_buf \in [0 .. Size - 1 -> Nat]
         /\ U \in 0 .. Size
         /\ Free(rx_head, rx_tail) = Size - U
         /\ R_RES = "ACK" => Size - U >= Pkt
         /\ Waiting \in 0 .. Pkt /\ U + Waiting <= Size
         /\ event.kind = "OUT" => /\ R_RES = "ACK" /\ event.len \in 1 .. Pkt
                                  /\ U + event.len <= Size
<1>1. /\ rx_head \in 0 .. Wrap - 1 /\ rx_tail \in 0 .. Wrap - 1
      /\ rx_buf \in [0 .. Size - 1 -> Nat]
      /\ event.len \in 0 .. Pkt
  BY DEF IInv, TypeOK
<1>2. U \in 0 .. Size BY <1>1, UsedIs, SizesAre DEF IInv, RingNeverOverruns, U
<1>3. Free(rx_head, rx_tail) = Size - U
  BY <1>1, FreeIs DEF IInv, RingNeverOverruns, U
<1>4. R_RES = "ACK" => Size - U >= Pkt BY <1>3 DEF IInv, CreditImpliesRoom
<1>5. event.kind = "OUT" => R_RES = "ACK" /\ event.len > 0
  BY DEF IInv, PacketIsLetIn
<1> DEFINE el == event.len
<1>6. el \in 0 .. Pkt /\ (event.kind = "OUT" => el > 0) BY <1>1, <1>5
<1>7. Waiting = IF event.kind = "OUT" /\ event.tog_ok THEN el ELSE 0 BY DEF Waiting
<1> HIDE DEF el
<1>8. event.kind = "OUT" => el \in 1 .. Pkt /\ U + el <= Size
  BY <1>2, <1>4, <1>5, <1>6, SizesAre
<1>9. Waiting \in 0 .. Pkt /\ U + Waiting <= Size
  BY <1>2, <1>6, <1>7, <1>8, SizesAre
<1> QED BY <1>1, <1>2, <1>3, <1>4, <1>5, <1>8, <1>9 DEF el

(* TOK_OUT_EP2 puts the whole packet, or nothing of a retransmission, right *)
(* behind what the ring holds.                                              *)
LEMMA OutDoneIs ==
  ASSUME IInv, OutDone
  PROVE  /\ rx_head' = Advance(rx_head, Waiting) /\ rx_tail' = rx_tail
         /\ rx_head' \in 0 .. Wrap - 1 /\ rx_buf' \in [0 .. Size - 1 -> Nat]
         /\ U' = U + Waiting
         /\ R_RES' \in {"ACK", "NAK"} /\ (R_RES' = "ACK" => Size - U' >= Pkt)
         /\ \A i \in 1 .. U : rx_buf'[(rx_tail + i - 1) % Size] = rx_buf[(rx_tail + i - 1) % Size]
         /\ \A j \in 1 .. Waiting :
              rx_buf'[(rx_tail + U + j - 1) % Size] = rx_win[ReceivedWindow][j]
<1> DEFINE len == Waiting
           win == rx_win[ReceivedWindow]
<1>f. /\ rx_head \in 0 .. Wrap - 1 /\ rx_tail \in 0 .. Wrap - 1
      /\ rx_buf \in [0 .. Size - 1 -> Nat]
      /\ U \in 0 .. Size /\ Free(rx_head, rx_tail) = Size - U
      /\ R_RES = "ACK" /\ Size - U >= Pkt
      /\ len \in 0 .. Pkt /\ U + len <= Size
      /\ event.len \in 1 .. Pkt /\ event.kind = "OUT"
  BY Facts DEF OutDone, Serving
<1>w. win \in [1 .. Pkt -> Nat]
  BY DEF IInv, TypeOK, ReceivedWindow, Flip
<1>1. len = IF Fresh THEN MinOf(MinOf(event.len, Free(rx_head, rx_tail)), Pkt) ELSE 0
  <2>1. event.len <= Free(rx_head, rx_tail) /\ event.len <= Pkt
    <3> DEFINE e == event.len
    <3>1. e \in 1 .. Pkt BY <1>f
    <3> HIDE DEF e
    <3>2. e <= Size - U /\ e <= Pkt BY <3>1, <1>f, SizesAre
    <3> QED BY <3>2, <1>f DEF e
  <2>2. MinOf(MinOf(event.len, Free(rx_head, rx_tail)), Pkt) = event.len
    <3> DEFINE e == event.len  fr == Free(rx_head, rx_tail)
    <3>1. e \in Int /\ fr \in Int /\ e <= fr /\ e <= Pkt BY <1>f, <2>1, SizesAre
    <3> HIDE DEF e, fr
    <3>2. MinOf(MinOf(e, fr), Pkt) = e BY <3>1, SizesAre DEF MinOf
    <3> QED BY <3>2 DEF e, fr
  <2> QED BY <2>2, <1>f DEF Waiting, Fresh
<1> HIDE DEF len, win
<1>2. /\ rx_head' = Advance(rx_head, len) /\ rx_tail' = rx_tail
      /\ rx_buf' = [s \in 0 .. Size - 1 |->
           IF \E j \in 0 .. len - 1 : RingSlot(j) = s
             THEN win[1 + CHOOSE j \in 0 .. len - 1 : RingSlot(j) = s]
             ELSE rx_buf[s]]
      /\ R_RES' = IF Fresh THEN CreditFor(rx_head', rx_tail) ELSE "NAK"
  BY <1>1 DEF OutDone, win
<1>3. U' = U + len /\ rx_head' \in 0 .. Wrap - 1
  <2>1. len \in 0 .. Wrap - 1 /\ U + len < Wrap BY <1>f, SizesAre
  <2>2. Used(Advance(rx_head, len), rx_tail) = Used(rx_head, rx_tail) + len
    BY <1>f, <2>1, UsedMoves DEF U
  <2> QED BY <1>2, <2>1, <2>2, <1>f, AdvanceIs DEF U
<1>4. rx_buf' \in [0 .. Size - 1 -> Nat]
  <2>1. ASSUME NEW s \in 0 .. Size - 1, NEW j \in 0 .. len - 1, RingSlot(j) = s
        PROVE  win[1 + CHOOSE i \in 0 .. len - 1 : RingSlot(i) = s] \in Nat
    <3>1. (CHOOSE i \in 0 .. len - 1 : RingSlot(i) = s) \in 0 .. len - 1 BY <2>1
    <3> QED BY <3>1, <1>w, <1>f, SizesAre
  <2> QED BY <1>2, <2>1, <1>f
<1>5. R_RES' \in {"ACK", "NAK"} /\ (R_RES' = "ACK" => Size - U' >= Pkt)
  <2>1. Used(rx_head', rx_tail) = U + len /\ Used(rx_head', rx_tail) <= Size
    BY <1>2, <1>3, <1>f DEF U
  <2> QED BY <1>2, <1>3, <1>f, <2>1, FreeIs
<1>6. \A j \in Nat : RingSlot(j) = (rx_tail + U + j) % Size
  <2>1. U \in 0 .. Wrap - 1 /\ Advance(rx_tail, U) = rx_head
    BY <1>f, UsedMoves, SizesAre DEF U
  <2> QED BY <2>1, <1>f, SlotIs DEF RingSlot
<1>7. ASSUME NEW i \in 1 .. U
      PROVE  rx_buf'[(rx_tail + i - 1) % Size] = rx_buf[(rx_tail + i - 1) % Size]
  <2>1. ASSUME NEW j \in 0 .. len - 1 PROVE RingSlot(j) # (rx_tail + i - 1) % Size
    <3>1. /\ rx_tail + i - 1 < rx_tail + U + j
          /\ rx_tail + U + j < rx_tail + i - 1 + Size
      BY <1>f, SizesAre
    <3>2. rx_tail + i - 1 \in Int /\ rx_tail + U + j \in Int BY <1>f
    <3>3. (rx_tail + i - 1) % Size # (rx_tail + U + j) % Size
      BY <3>1, <3>2, SizesAre, NearbyDiffer
    <3> QED BY <3>3, <1>6, <1>f
  <2>2. (rx_tail + i - 1) % Size \in 0 .. Size - 1 BY <1>f, SizesAre
  <2> QED BY <2>1, <2>2, <1>2
<1>8. ASSUME NEW j \in 1 .. len
      PROVE  rx_buf'[(rx_tail + U + j - 1) % Size] = win[j]
  <2> DEFINE s == (rx_tail + U + j - 1) % Size
  <2>1. j - 1 \in 0 .. len - 1 /\ j - 1 \in Nat BY <1>f
  <2>2. RingSlot(j - 1) = s
    <3>1. RingSlot(j - 1) = (rx_tail + U + (j - 1)) % Size BY <2>1, <1>6
    <3>2. rx_tail + U + (j - 1) = rx_tail + U + j - 1 BY <1>f
    <3> QED BY <3>1, <3>2
  <2>3. s \in 0 .. Size - 1 BY <1>f, SizesAre
  <2>4. ASSUME NEW i \in 0 .. len - 1, RingSlot(i) = s PROVE i = j - 1
    <3>1. RingSlot(i) = (rx_tail + U + i) % Size BY <1>6, <1>f
    <3>2. rx_tail + U + i \in Int /\ rx_tail + U + j - 1 \in Int BY <1>f
    <3>3. CASE i < j - 1
      <4>1. rx_tail + U + i < rx_tail + U + j - 1 /\ rx_tail + U + j - 1 < rx_tail + U + i + Size
        BY <3>3, <1>f, SizesAre
      <4> QED BY <4>1, <3>1, <3>2, <2>4, SizesAre, NearbyDiffer
    <3>4. CASE i > j - 1
      <4>1. rx_tail + U + j - 1 < rx_tail + U + i /\ rx_tail + U + i < rx_tail + U + j - 1 + Size
        BY <3>4, <1>f, SizesAre
      <4> QED BY <4>1, <3>1, <3>2, <2>4, SizesAre, NearbyDiffer
    <3> QED BY <3>3, <3>4, <1>f
  <2> HIDE DEF s
  <2>5. (CHOOSE i \in 0 .. len - 1 : RingSlot(i) = s) = j - 1
    BY <2>1, <2>2, <2>4
  <2>6. rx_buf'[s] = win[1 + (j - 1)]
    BY <2>1, <2>2, <2>3, <2>5, <1>2
  <2>7. 1 + (j - 1) = j BY <1>f
  <2> QED BY <2>6, <2>7 DEF s
<1> QED BY <1>2, <1>3, <1>4, <1>5, <1>7, <1>8 DEF len, win
-----------------------------------------------------------------------------
(* The inductive invariant: the reader.                                     *)

LEMMA InitHolds ==
  Init => IInv
<1> SUFFICES ASSUME Init PROVE IInv
  OBVIOUS
<1>1. Used(0, 0) = 0 /\ Free(0, 0) = Size
  <2>1. 0 \in 0 .. Wrap - 1 BY SizesAre
  <2>2. Used(0, 0) = 0 BY <2>1, UsedIs
  <2> QED BY <2>1, <2>2, FreeIs, SizesAre
<1>2. TypeOK
  <2>1. event \in [kind : {"NONE", "OUT", "OTHER", "OPEN", "RST"},
                   len : 0 .. Pkt, tog_ok : BOOLEAN]
    BY SizesAre DEF Init, NoEvent, Event
  <2>2. n \in 0 .. MinOf(ReadMax, Wrap - 1)
    BY SizesAre DEF Init, MinOf
  <2>3. copied \in Seq(Nat) /\ taken \in Seq(Nat)
    BY DEF Init
  <2> QED BY <2>1, <2>2, <2>3, SizesAre DEF Init, TypeOK
<1>3. Waiting = 0 /\ U = 0 /\ Len(taken) = 0
  BY <1>1 DEF Init, NoEvent, Event, Waiting, U
<1>4. NoneLost
  BY <1>3 DEF Init, NoneLost
<1> QED
  BY <1>1, <1>2, <1>3, <1>4, SizesAre
     DEF Init, IInv, RingNeverOverruns, CreditImpliesRoom, PacketIsLetIn,
         ReaderOwnsTheTail, CopyIsTheRing, NoEvent, Event, U

(* The sample: at least one unit and no more than the ring holds. *)
LEMMA ReadSampleKeeps ==
  ASSUME IInv, ReadSample
  PROVE  IInv'
<1>f. U \in 0 .. Size /\ U < Wrap
  BY Facts, SizesAre
<1>1. /\ n' = MinOf(U, ReadMax) /\ pc' = (IF n' = 0 THEN "credit" ELSE "copy")
      /\ UNCHANGED <<rx_head, rx_tail, rx_buf, R_RES, R_TOG, rx_win, event,
                     irq_on, copied, tail_read, host_tog, made, taken, lost,
                     sessions>>
  BY DEF ReadSample, U, ringVars, winVars, ghostVars
<1>2. n' \in 0 .. MinOf(ReadMax, Wrap - 1) /\ n' <= U
  BY <1>1, <1>f, SizesAre DEF MinOf
<1>3. UNCHANGED <<U, Waiting, Used(rx_head, rx_tail), Free(rx_head, rx_tail)>>
  BY <1>1 DEF U, Waiting, Used, Free
<1>4. pc' \in {"credit", "copy"} /\ (pc' = "copy" => 0 < n' /\ n' <= U')
  BY <1>1, <1>2, <1>3, <1>f
<1>5. TypeOK'
  BY <1>1, <1>2, <1>4 DEF IInv, TypeOK
<1> QED
  BY <1>1, <1>3, <1>4, <1>5
     DEF IInv, RingNeverOverruns, CreditImpliesRoom, PacketIsLetIn,
         ReaderOwnsTheTail, CopyIsTheRing, NoneLost

LEMMA ReadCopyKeeps ==
  ASSUME IInv, ReadCopy
  PROVE  IInv'
<1>1. /\ pc = "copy" /\ pc' = "load" /\ copied' = Contents(rx_tail, n)
      /\ UNCHANGED <<rx_head, rx_tail, rx_buf, R_RES, R_TOG, rx_win, event,
                     irq_on, n, tail_read, host_tog, made, taken, lost,
                     sessions>>
  BY DEF ReadCopy, ringVars, winVars, ghostVars
<1>2. n \in Nat
  <2>1. n \in 0 .. MinOf(ReadMax, Wrap - 1) BY DEF IInv, TypeOK
  <2> QED BY <2>1
<1>3. UNCHANGED <<U, Waiting, Used(rx_head, rx_tail), Free(rx_head, rx_tail)>>
  BY <1>1 DEF U, Waiting, Used, Free
<1>4. copied' \in Seq(Nat) /\ copied' = Contents(rx_tail, n)'
  <2>1. Contents(rx_tail, n) \in Seq(Nat) BY <1>2, Facts, ContentsAre
  <2>2. Contents(rx_tail, n)' = Contents(rx_tail, n) BY <1>1 DEF Contents
  <2> QED BY <1>1, <2>1, <2>2
<1>5. TypeOK'
  BY <1>1, <1>4 DEF IInv, TypeOK
<1> QED
  BY <1>1, <1>3, <1>4, <1>5
     DEF IInv, RingNeverOverruns, CreditImpliesRoom, PacketIsLetIn,
         ReaderOwnsTheTail, CopyIsTheRing, NoneLost

LEMMA ReadLoadTailKeeps ==
  ASSUME IInv, ReadLoadTail
  PROVE  IInv'
<1>1. /\ pc = "load" /\ pc' = "store" /\ tail_read' = rx_tail
      /\ UNCHANGED <<rx_head, rx_tail, rx_buf, R_RES, R_TOG, rx_win, event,
                     irq_on, n, copied, host_tog, made, taken, lost, sessions>>
  BY DEF ReadLoadTail, ringVars, winVars, ghostVars
<1>2. UNCHANGED <<U, Waiting, Used(rx_head, rx_tail), Free(rx_head, rx_tail),
                  Contents(rx_tail, n)>>
  BY <1>1 DEF U, Waiting, Used, Free, Contents
<1>3. TypeOK'
  BY <1>1 DEF IInv, TypeOK
<1> QED
  BY <1>1, <1>2, <1>3
     DEF IInv, RingNeverOverruns, CreditImpliesRoom, PacketIsLetIn,
         ReaderOwnsTheTail, CopyIsTheRing, NoneLost

(* The tail store hands over exactly what was at the tail. *)
LEMMA TailStoreIs ==
  ASSUME IInv, ReadStoreTail
  PROVE  /\ rx_tail' = Advance(rx_tail, n) /\ rx_tail' \in 0 .. Wrap - 1
         /\ n \in 1 .. U /\ n \in 0 .. Wrap - 1
         /\ U' = U - n
         /\ copied = Contents(rx_tail, n) /\ Len(copied) = n
         /\ taken' = taken \o copied /\ taken' \in Seq(Nat)
         /\ Len(taken') = Len(taken) + n
<1>1. /\ pc = "store" /\ rx_tail' = Advance(tail_read, n)
      /\ taken' = taken \o copied /\ rx_head' = rx_head
  BY DEF ReadStoreTail
<1>f. /\ rx_head \in 0 .. Wrap - 1 /\ rx_tail \in 0 .. Wrap - 1
      /\ rx_buf \in [0 .. Size - 1 -> Nat] /\ U \in 0 .. Size
  BY Facts
<1>2. tail_read = rx_tail /\ 0 < n /\ n <= U /\ copied = Contents(rx_tail, n)
  BY <1>1 DEF IInv, ReaderOwnsTheTail, CopyIsTheRing
<1>3. n \in Nat
  <2>1. n \in 0 .. MinOf(ReadMax, Wrap - 1) BY DEF IInv, TypeOK
  <2> QED BY <2>1
<1>4. n \in 1 .. U /\ n \in 0 .. Wrap - 1
  BY <1>2, <1>3, <1>f, SizesAre
<1>5. U' = U - n
  BY <1>1, <1>2, <1>3, <1>f, UsedMoves DEF U
<1>6. Len(copied) = n /\ copied \in Seq(Nat) /\ taken \in Seq(Nat)
  BY <1>2, <1>3, <1>f, ContentsAre DEF IInv, TypeOK
<1>7. taken' \in Seq(Nat) /\ Len(taken') = Len(taken) + n
  <2>1. taken \o copied \in Seq(Nat) BY <1>6
  <2>2. Len(taken \o copied) = Len(taken) + Len(copied) BY <1>6
  <2> QED BY <1>1, <1>6, <2>1, <2>2
<1>8. rx_tail' = Advance(rx_tail, n) /\ rx_tail' \in 0 .. Wrap - 1
  BY <1>1, <1>2, <1>4, <1>f, AdvanceIs
<1> QED BY <1>1, <1>2, <1>4, <1>5, <1>6, <1>7, <1>8

LEMMA ReadStoreTailKeeps ==
  ASSUME IInv, ReadStoreTail
  PROVE  IInv'
<1>1. /\ pc' = "credit"
      /\ UNCHANGED <<rx_head, rx_buf, R_RES, R_TOG, rx_win, event, irq_on, n,
                     copied, tail_read, host_tog, made, lost, sessions>>
  BY DEF ReadStoreTail, winVars
<1>2. /\ rx_tail' \in 0 .. Wrap - 1 /\ n \in 1 .. U /\ U' = U - n
      /\ taken' \in Seq(Nat) /\ Len(taken') = Len(taken) + n
  BY TailStoreIs
<1>f. /\ rx_head \in 0 .. Wrap - 1 /\ U \in 0 .. Size /\ Waiting \in 0 .. Pkt
      /\ R_RES = "ACK" => Size - U >= Pkt
      /\ Len(taken) \in Nat /\ lost \in Nat
  BY Facts DEF IInv, TypeOK
<1>3. TypeOK'
  BY <1>1, <1>2 DEF IInv, TypeOK
<1>4. RingNeverOverruns' /\ CreditImpliesRoom'
  <2>1. Used(rx_head', rx_tail') = U' /\ U' <= Size
    BY <1>2, <1>f, SizesAre DEF U
  <2>2. Free(rx_head', rx_tail') = Size - U'
    BY <2>1, <1>1, <1>2, <1>f, FreeIs
  <2>3. Size - U' >= Size - U BY <1>2, <1>f, SizesAre
  <2> QED BY <1>1, <1>2, <2>1, <2>2, <2>3, <1>f, SizesAre
          DEF RingNeverOverruns, CreditImpliesRoom
<1>5. NoneLost'
  <2>1. Waiting' = Waiting BY <1>1 DEF Waiting
  <2>2. made = Len(taken) + U + Waiting + lost BY DEF IInv, NoneLost
  <2>3. made = (Len(taken) + n) + (U - n) + Waiting + lost BY <2>2, <1>2, <1>f
  <2> QED BY <1>1, <1>2, <2>1, <2>3 DEF NoneLost
<1> QED
  BY <1>1, <1>3, <1>4, <1>5
     DEF IInv, PacketIsLetIn, ReaderOwnsTheTail, CopyIsTheRing

(* The credit is what the ring has room for. *)
LEMMA ReadCreditKeeps ==
  ASSUME IInv, ReadCredit
  PROVE  IInv'
<1>1. /\ pc' = "idle" /\ n' = 0 /\ copied' = <<>> /\ tail_read' = 0
      /\ R_RES' = CreditFor(rx_head, rx_tail)
      /\ UNCHANGED <<rx_head, rx_tail, rx_buf, R_TOG, rx_win, event, irq_on,
                     host_tog, made, taken, lost, sessions>>
  BY DEF ReadCredit, ReaderCredit, ringVars, winVars, ghostVars
<1>2. UNCHANGED <<U, Waiting, Used(rx_head, rx_tail), Free(rx_head, rx_tail)>>
  BY <1>1 DEF U, Waiting, Used, Free
<1>f. /\ rx_head \in 0 .. Wrap - 1 /\ rx_tail \in 0 .. Wrap - 1
      /\ Free(rx_head, rx_tail) = Size - U
      /\ event.kind = "OUT" => R_RES = "ACK" /\ Size - U >= Pkt
  BY Facts
<1>3. /\ R_RES' \in {"ACK", "NAK"}
      /\ R_RES' = "ACK" <=> Size - U >= Pkt
  BY <1>1, <1>f, FreeIs DEF IInv, RingNeverOverruns, U
<1>4. n' \in 0 .. MinOf(ReadMax, Wrap - 1) /\ copied' \in Seq(Nat)
      /\ tail_read' \in 0 .. Wrap - 1
  BY <1>1, SizesAre DEF MinOf
<1>5. TypeOK'
  BY <1>1, <1>3, <1>4 DEF IInv, TypeOK
<1>6. CreditImpliesRoom' /\ PacketIsLetIn'
  BY <1>1, <1>2, <1>3, <1>f DEF IInv, CreditImpliesRoom, PacketIsLetIn
<1> QED
  BY <1>1, <1>2, <1>5, <1>6
     DEF IInv, RingNeverOverruns, ReaderOwnsTheTail, CopyIsTheRing, NoneLost
-----------------------------------------------------------------------------
(* The inductive invariant: the handler.                                    *)

(* The packet goes behind what the reader is copying. *)
LEMMA OutDoneKeeps ==
  ASSUME IInv, OutDone
  PROVE  IInv'
<1>1. /\ event' = NoEvent
      /\ UNCHANGED <<rx_tail, R_TOG, rx_win, irq_on, pc, n, copied, tail_read,
                     host_tog, made, taken, lost, sessions>>
  BY DEF OutDone, winVars, readerVars, ghostVars
<1>2. /\ rx_head' \in 0 .. Wrap - 1 /\ rx_buf' \in [0 .. Size - 1 -> Nat]
      /\ U' = U + Waiting
      /\ R_RES' \in {"ACK", "NAK"} /\ (R_RES' = "ACK" => Size - U' >= Pkt)
      /\ \A i \in 1 .. U : rx_buf'[(rx_tail + i - 1) % Size]
                             = rx_buf[(rx_tail + i - 1) % Size]
  BY OutDoneIs
<1>f. /\ rx_tail \in 0 .. Wrap - 1 /\ U \in 0 .. Size /\ Waiting \in 0 .. Pkt
      /\ U + Waiting <= Size /\ n \in Nat /\ rx_buf \in [0 .. Size - 1 -> Nat]
      /\ Len(taken) \in Nat /\ lost \in Nat
  <2>1. n \in 0 .. MinOf(ReadMax, Wrap - 1) BY DEF IInv, TypeOK
  <2> QED BY <2>1, Facts DEF IInv, TypeOK
<1>3. event' \in [kind : {"NONE", "OUT", "OTHER", "OPEN", "RST"},
                  len : 0 .. Pkt, tog_ok : BOOLEAN]
      /\ event'.kind = "NONE" /\ Waiting' = 0
  BY <1>1, SizesAre DEF NoEvent, Event, Waiting
<1>4. TypeOK'
  BY <1>1, <1>2, <1>3 DEF IInv, TypeOK
<1>5. RingNeverOverruns' /\ CreditImpliesRoom'
  <2>1. Used(rx_head', rx_tail') = U' /\ U' <= Size
    BY <1>2, <1>f, SizesAre DEF U
  <2>2. Free(rx_head', rx_tail') = Size - U'
    BY <2>1, <1>1, <1>2, <1>f, FreeIs
  <2> QED BY <1>2, <2>1, <2>2 DEF RingNeverOverruns, CreditImpliesRoom
<1>6. ReaderOwnsTheTail'
  <2>1. n <= U => n <= U' BY <1>2, <1>f, SizesAre
  <2> QED BY <1>1, <2>1 DEF IInv, ReaderOwnsTheTail
<1>7. CopyIsTheRing'
  <2> SUFFICES ASSUME pc \in {"load", "store"}
               PROVE  Contents(rx_tail, n)' = Contents(rx_tail, n)
    BY <1>1 DEF IInv, CopyIsTheRing
  <2>1. n <= U BY DEF IInv, ReaderOwnsTheTail
  <2>2. 1 .. n \subseteq 1 .. U BY <2>1, <1>f
  <2>3. \A i \in 1 .. n : rx_buf'[(rx_tail + i - 1) % Size]
                            = rx_buf[(rx_tail + i - 1) % Size]
    BY <2>2, <1>2
  <2> QED BY <2>3, <1>1 DEF Contents
<1>8. NoneLost'
  <2>1. made = Len(taken) + U + Waiting + lost BY DEF IInv, NoneLost
  <2>2. made = Len(taken) + (U + Waiting) + 0 + lost BY <2>1, <1>f, SizesAre
  <2> QED BY <1>1, <1>2, <1>3, <2>2 DEF NoneLost
<1> QED
  BY <1>3, <1>4, <1>5, <1>6, <1>7, <1>8 DEF IInv, PacketIsLetIn

(* What a boundary leaves: an empty ring, an open endpoint, and everything  *)
(* accepted either taken or lost.                                           *)
LEMMA EmptyIs ==
  /\ 0 \in 0 .. Wrap - 1
  /\ Used(0, 0) = 0 /\ Free(0, 0) = Size /\ CreditFor(0, 0) = "ACK"
<1>1. 0 \in 0 .. Wrap - 1 BY SizesAre
<1>2. Used(0, 0) = 0 BY <1>1, UsedIs
<1> QED BY <1>1, <1>2, FreeIs, SizesAre

LEMMA BoundaryKeeps ==
  ASSUME IInv, MidReadOpens = FALSE, BoundaryMayInterrupt,
         rx_head' = 0, rx_tail' = 0, R_RES' = "ACK", R_TOG' \in {R_TOG, 0},
         event.kind # "OUT", event' = NoEvent, DropEverything,
         UNCHANGED <<rx_buf, rx_win, irq_on, pc, n, copied, tail_read,
                     host_tog, made, taken>>
  PROVE  IInv'
<1>1. pc \in {"idle", "credit"}
  BY DEF BoundaryMayInterrupt
<1>2. U' = 0 /\ Waiting = 0 /\ Waiting' = 0 /\ event'.kind = "NONE"
  BY EmptyIs DEF U, Waiting, NoEvent, Event
<1>3. lost' = U + lost /\ lost' \in Nat /\ made = Len(taken) + U + lost
      /\ sessions' \in Nat
  <2>1. made = Len(taken) + U + 0 + lost BY <1>2 DEF IInv, NoneLost
  <2>2. lost' = lost + (made - Len(taken) - lost) /\ sessions' = sessions + 1
    BY DEF DropEverything
  <2>3. U \in Nat /\ lost \in Nat /\ Len(taken) \in Nat /\ sessions \in Nat
    BY Facts, SizesAre DEF IInv, TypeOK
  <2> QED BY <2>1, <2>2, <2>3
<1>4. event' \in [kind : {"NONE", "OUT", "OTHER", "OPEN", "RST"},
                  len : 0 .. Pkt, tog_ok : BOOLEAN]
  BY SizesAre DEF NoEvent, Event
<1>5. TypeOK'
  BY <1>3, <1>4, EmptyIs DEF IInv, TypeOK
<1>6. RingNeverOverruns' /\ CreditImpliesRoom'
  <2>1. Used(rx_head', rx_tail') = 0 /\ Free(rx_head', rx_tail') = Size
    BY EmptyIs
  <2> QED BY <2>1, SizesAre DEF RingNeverOverruns, CreditImpliesRoom
<1>7. NoneLost'
  <2>1. U \in Nat /\ lost \in Nat /\ Len(taken) \in Nat
    BY Facts, SizesAre DEF IInv, TypeOK
  <2>2. made = Len(taken) + 0 + 0 + (U + lost) BY <1>3, <2>1
  <2> QED BY <1>2, <1>3, <2>2 DEF NoneLost
<1> QED
  BY <1>1, <1>2, <1>5, <1>6, <1>7
     DEF IInv, PacketIsLetIn, ReaderOwnsTheTail, CopyIsTheRing

LEMMA SessionFlushKeeps ==
  ASSUME IInv, MidReadOpens = FALSE, SessionFlush
  PROVE  IInv'
<1>1. /\ BoundaryMayInterrupt /\ DropEverything
      /\ rx_head' = 0 /\ rx_tail' = 0 /\ R_RES' = "ACK" /\ R_TOG' = R_TOG
      /\ event.kind # "OUT" /\ event' = NoEvent
      /\ UNCHANGED <<rx_buf, rx_win, irq_on, pc, n, copied, tail_read,
                     host_tog, made, taken>>
  BY EmptyIs DEF SessionFlush, Serving, winVars, readerVars
<1> QED BY <1>1, BoundaryKeeps

LEMMA BusResetKeeps ==
  ASSUME IInv, MidReadOpens = FALSE, BusReset
  PROVE  IInv'
<1>1. /\ BoundaryMayInterrupt /\ DropEverything
      /\ rx_head' = 0 /\ rx_tail' = 0 /\ R_RES' = "ACK" /\ R_TOG' = 0
      /\ event.kind # "OUT" /\ event' = NoEvent
      /\ UNCHANGED <<rx_buf, rx_win, irq_on, pc, n, copied, tail_read,
                     host_tog, made, taken>>
  BY DEF BusReset, Serving, readerVars
<1> QED BY <1>1, BoundaryKeeps

(* The receive side is left alone while no packet comes or goes. *)
LEMMA ElsewhereKeeps ==
  ASSUME IInv, event.kind # "OUT", event'.kind # "OUT", event'.len \in 0 .. Pkt,
         event' \in [kind : {"NONE", "OUT", "OTHER", "OPEN", "RST"},
                     len : 0 .. Pkt, tog_ok : BOOLEAN],
         host_tog' \in {0, 1},
         UNCHANGED <<ringVars, R_RES, winVars, irq_on, readerVars, ghostVars>>
  PROVE  IInv'
<1>1. UNCHANGED <<rx_head, rx_tail, rx_buf, R_TOG, rx_win, pc, n, copied,
                  tail_read, made, taken, lost, sessions>>
  BY DEF ringVars, winVars, readerVars, ghostVars
<1>2. UNCHANGED <<U, Used(rx_head, rx_tail), Free(rx_head, rx_tail),
                  Contents(rx_tail, n)>>
  BY <1>1 DEF U, Used, Free, Contents
<1>3. Waiting = 0 /\ Waiting' = 0
  BY DEF Waiting
<1>4. TypeOK'
  BY <1>1 DEF IInv, TypeOK
<1> QED
  BY <1>1, <1>2, <1>3, <1>4
     DEF IInv, RingNeverOverruns, CreditImpliesRoom, PacketIsLetIn,
         ReaderOwnsTheTail, CopyIsTheRing, NoneLost

LEMMA OtherDoneKeeps ==
  ASSUME IInv, OtherDone
  PROVE  IInv'
<1>1. /\ event.kind # "OUT" /\ event' = NoEvent /\ host_tog' = host_tog
      /\ UNCHANGED <<ringVars, R_RES, winVars, irq_on, readerVars, ghostVars>>
  BY DEF OtherDone, Serving
<1>2. /\ event' \in [kind : {"NONE", "OUT", "OTHER", "OPEN", "RST"},
                     len : 0 .. Pkt, tog_ok : BOOLEAN]
      /\ event'.kind # "OUT" /\ event'.len \in 0 .. Pkt
  BY <1>1, SizesAre DEF NoEvent, Event
<1>3. host_tog' \in {0, 1}
  BY <1>1 DEF IInv, TypeOK
<1> QED BY <1>1, <1>2, <1>3, ElsewhereKeeps
-----------------------------------------------------------------------------
(* The inductive invariant: the SIE and the host.                           *)

(* A packet accepted, or a retransmission of one. *)
LEMMA SieOutIs ==
  ASSUME IInv, SieOut
  PROVE  /\ event.kind = "NONE" /\ R_RES = "ACK" /\ Waiting = 0
         /\ event'.kind = "OUT" /\ event'.len \in 1 .. Pkt
         /\ event' \in [kind : {"NONE", "OUT", "OTHER", "OPEN", "RST"},
                        len : 0 .. Pkt, tog_ok : BOOLEAN]
         /\ UNCHANGED <<rx_head, rx_tail, rx_buf, R_RES, irq_on, pc, n, copied,
                        tail_read, taken, lost, sessions>>
         /\ R_TOG' \in {0, 1} /\ host_tog' \in {0, 1}
         /\ rx_win' \in [{0, 1} -> [1 .. Pkt -> Nat]]
         /\ made' = made + Waiting' /\ Waiting' \in 0 .. Pkt
         /\ Waiting' # 0 => /\ event'.tog_ok /\ Waiting' = event'.len
                            /\ \A i \in 1 .. Waiting' :
                                 rx_win'[ReceivedWindow'][i] = made + i
         /\ Waiting' = 0 => ~event'.tog_ok /\ UNCHANGED <<rx_win, R_TOG, made>>
<1>1. PICK k \in 1 .. Pkt, acked \in BOOLEAN :
        /\ event = NoEvent
        /\ R_RES = "ACK"
        /\ event' = [kind |-> "OUT", len |-> k, tog_ok |-> host_tog = R_TOG]
        /\ IF host_tog = R_TOG
             THEN /\ rx_win' = [rx_win EXCEPT ![R_TOG] =
                       [i \in 1 .. Pkt |-> IF i <= k THEN made + i ELSE 0]]
                  /\ R_TOG' = Flip(R_TOG)
                  /\ made' = made + k
             ELSE UNCHANGED <<rx_win, R_TOG, made>>
        /\ host_tog' = IF acked THEN Flip(host_tog) ELSE host_tog
        /\ UNCHANGED <<ringVars, R_RES, irq_on, readerVars, taken, lost,
                       sessions>>
  BY DEF SieOut
<1>2. UNCHANGED <<rx_head, rx_tail, rx_buf, R_RES, irq_on, pc, n, copied,
                  tail_read, taken, lost, sessions>>
  BY <1>1 DEF ringVars, readerVars
<1>f. /\ R_TOG \in {0, 1} /\ host_tog \in {0, 1} /\ made \in Nat
      /\ rx_win \in [{0, 1} -> [1 .. Pkt -> Nat]] /\ k \in 1 .. Pkt
  BY DEF IInv, TypeOK
<1>3. event.kind = "NONE" /\ Waiting = 0
  BY <1>1 DEF NoEvent, Event, Waiting
<1>4. /\ event'.kind = "OUT" /\ event'.len = k
      /\ event'.tog_ok = (host_tog = R_TOG)
      /\ Waiting' = IF host_tog = R_TOG THEN k ELSE 0
  BY <1>1 DEF Waiting
<1>5. event' \in [kind : {"NONE", "OUT", "OTHER", "OPEN", "RST"},
                  len : 0 .. Pkt, tog_ok : BOOLEAN]
  <2>1. k \in 0 .. Pkt /\ (host_tog = R_TOG) \in BOOLEAN BY <1>f
  <2> QED BY <2>1, <1>1
<1>6. R_TOG' \in {0, 1} /\ host_tog' \in {0, 1}
  BY <1>1, <1>f DEF Flip
<1> DEFINE packet == [i \in 1 .. Pkt |-> IF i <= k THEN made + i ELSE 0]
<1>7. packet \in [1 .. Pkt -> Nat] /\ \A j \in 1 .. k : packet[j] = made + j
  <2>1. ASSUME NEW j \in 1 .. Pkt
        PROVE  (IF j <= k THEN made + j ELSE 0) \in Nat
    BY <1>f, SizesAre
  <2>2. ASSUME NEW j \in 1 .. k PROVE j \in 1 .. Pkt /\ j <= k
    BY <1>f, SizesAre
  <2>3. packet \in [1 .. Pkt -> Nat] BY <2>1, Zenon
  <2>4. ASSUME NEW j \in 1 .. k PROVE packet[j] = made + j BY <2>2
  <2> QED BY <2>3, <2>4
<1>8. CASE host_tog = R_TOG
  <2>1. /\ rx_win' = [rx_win EXCEPT ![R_TOG] = packet] /\ made' = made + k
        /\ ReceivedWindow' = R_TOG
    <3>1. Flip(Flip(R_TOG)) = R_TOG BY <1>f DEF Flip
    <3> QED BY <1>1, <1>8, <3>1 DEF ReceivedWindow, Flip
  <2> HIDE DEF packet
  <2>2. rx_win' \in [{0, 1} -> [1 .. Pkt -> Nat]] /\ rx_win'[R_TOG] = packet
    BY <2>1, <1>7, <1>f
  <2>3. Waiting' = k /\ k # 0 /\ event'.tog_ok /\ event'.len = k
    <3>1. k # 0 BY <1>f, SizesAre
    <3>2. Waiting' = k /\ event'.len = k BY <1>4, <1>8
    <3>3. event'.tog_ok BY <1>4, <1>8, Zenon
    <3> QED BY <3>1, <3>2, <3>3
  <2>4. ASSUME NEW i \in 1 .. k PROVE rx_win'[ReceivedWindow'][i] = made + i
    <3>1. packet[i] = made + i BY <1>7
    <3>2. rx_win'[ReceivedWindow'] = packet BY <2>1, <2>2
    <3> QED BY <3>1, <3>2
  <2>5. /\ made' = made + Waiting' /\ Waiting' \in 0 .. Pkt
        /\ event'.len \in 1 .. Pkt
    BY <2>1, <2>3, <1>f, SizesAre
  <2>6. event.kind = "NONE" /\ R_RES = "ACK" /\ event'.kind = "OUT"
    BY <1>1, <1>3, <1>4
  <2> QED BY <1>2, <1>3, <1>5, <1>6, <2>2, <2>3, <2>4, <2>5, <2>6
<1>9. CASE host_tog # R_TOG
  <2>1. UNCHANGED <<rx_win, R_TOG, made>> /\ Waiting' = 0 /\ ~event'.tog_ok
    BY <1>1, <1>4, <1>9
  <2>2. made' = made + Waiting' /\ Waiting' \in 0 .. Pkt BY <2>1, <1>f, SizesAre
  <2> QED BY <1>1, <1>2, <1>3, <1>4, <1>5, <1>6, <1>9, <1>f, <2>1, <2>2
<1> QED BY <1>8, <1>9

LEMMA SieOutKeeps ==
  ASSUME IInv, SieOut
  PROVE  IInv'
<1>1. /\ event.kind = "NONE" /\ R_RES = "ACK" /\ Waiting = 0
      /\ event'.kind = "OUT" /\ event'.len \in 1 .. Pkt
      /\ event' \in [kind : {"NONE", "OUT", "OTHER", "OPEN", "RST"},
                     len : 0 .. Pkt, tog_ok : BOOLEAN]
      /\ UNCHANGED <<rx_head, rx_tail, rx_buf, R_RES, irq_on, pc, n, copied,
                     tail_read, taken, lost, sessions>>
      /\ R_TOG' \in {0, 1} /\ host_tog' \in {0, 1}
      /\ rx_win' \in [{0, 1} -> [1 .. Pkt -> Nat]]
      /\ made' = made + Waiting' /\ Waiting' \in 0 .. Pkt
  BY SieOutIs
<1>2. UNCHANGED <<U, Used(rx_head, rx_tail), Free(rx_head, rx_tail),
                  Contents(rx_tail, n)>>
  BY <1>1 DEF U, Used, Free, Contents
<1>f. U \in Nat /\ lost \in Nat /\ Len(taken) \in Nat /\ made \in Nat
  <2>1. U \in 0 .. Size BY Facts
  <2>2. U \in Nat BY <2>1, SizesAre
  <2>3. lost \in Nat /\ taken \in Seq(Nat) /\ made \in Nat
    BY DEF IInv, TypeOK
  <2> QED BY <2>2, <2>3
<1>3. TypeOK'
  <2>1. made' \in Nat
    <3> DEFINE w == Waiting'
    <3>1. made' = made + w /\ w \in 0 .. Pkt BY <1>1
    <3> HIDE DEF w
    <3> QED BY <3>1, <1>f, SizesAre
  <2> QED BY <1>1, <2>1 DEF IInv, TypeOK
<1>4. NoneLost'
  <2> DEFINE w == Waiting'
  <2>1. made' = made + w /\ w \in Nat /\ U' = U /\ lost' = lost /\ taken' = taken
    BY <1>1, <1>2, SizesAre
  <2> HIDE DEF w
  <2>2. made = Len(taken) + U + 0 + lost BY <1>1 DEF IInv, NoneLost
  <2>3. made' = Len(taken) + U + w + lost BY <2>1, <2>2, <1>f
  <2> QED BY <2>1, <2>3 DEF NoneLost, w
<1>5. PacketIsLetIn'
  <2> DEFINE e == event'.len
  <2>1. e \in 1 .. Pkt BY <1>1
  <2> HIDE DEF e
  <2>2. e > 0 BY <2>1, SizesAre
  <2> QED BY <2>2, <1>1 DEF PacketIsLetIn, e
<1> QED
  BY <1>1, <1>2, <1>3, <1>4, <1>5
     DEF IInv, RingNeverOverruns, CreditImpliesRoom,
         ReaderOwnsTheTail, CopyIsTheRing

LEMMA SieOtherKeeps ==
  ASSUME IInv, SieOther
  PROVE  IInv'
<1>1. /\ event = NoEvent /\ event' = Event("OTHER") /\ host_tog' = host_tog
      /\ UNCHANGED <<ringVars, R_RES, winVars, irq_on, readerVars, ghostVars>>
  BY DEF SieOther
<1>2. /\ event' \in [kind : {"NONE", "OUT", "OTHER", "OPEN", "RST"},
                     len : 0 .. Pkt, tog_ok : BOOLEAN]
      /\ event.kind # "OUT" /\ event'.kind # "OUT" /\ event'.len \in 0 .. Pkt
  BY <1>1, SizesAre DEF NoEvent, Event
<1>3. host_tog' \in {0, 1}
  BY <1>1 DEF IInv, TypeOK
<1> QED BY <1>1, <1>2, <1>3, ElsewhereKeeps

LEMMA HostBoundaryKeeps ==
  ASSUME IInv, HostBoundary
  PROVE  IInv'
<1>1. /\ event = NoEvent
      /\ \/ event' = Event("OPEN") /\ host_tog' = host_tog
         \/ event' = Event("RST") /\ host_tog' = 0
      /\ UNCHANGED <<ringVars, R_RES, winVars, irq_on, readerVars, ghostVars>>
  BY DEF HostBoundary
<1>2. /\ event' \in [kind : {"NONE", "OUT", "OTHER", "OPEN", "RST"},
                     len : 0 .. Pkt, tog_ok : BOOLEAN]
      /\ event.kind # "OUT" /\ event'.kind # "OUT" /\ event'.len \in 0 .. Pkt
  <2>1. CASE event' = Event("OPEN")
    BY <1>1, <2>1, SizesAre DEF NoEvent, Event
  <2>2. CASE event' = Event("RST")
    BY <1>1, <2>2, SizesAre DEF NoEvent, Event
  <2> QED BY <1>1, <2>1, <2>2
<1>3. host_tog' \in {0, 1}
  BY <1>1 DEF IInv, TypeOK
<1> QED BY <1>1, <1>2, <1>3, ElsewhereKeeps
-----------------------------------------------------------------------------
(* The theorems.                                                            *)

LEMMA StepKeeps ==
  ASSUME MidReadOpens = FALSE
  PROVE  IInv /\ [Next]_vars => IInv'
<1> SUFFICES ASSUME IInv, [Next]_vars PROVE IInv'
  OBVIOUS
<1>1. CASE Reader
  BY <1>1, ReadSampleKeeps, ReadCopyKeeps, ReadLoadTailKeeps,
     ReadStoreTailKeeps, ReadCreditKeeps DEF Reader
<1>2. CASE Handler
  BY <1>2, OutDoneKeeps, SessionFlushKeeps, BusResetKeeps, OtherDoneKeeps
     DEF Handler
<1>3. CASE Environment
  BY <1>3, SieOutKeeps, SieOtherKeeps, HostBoundaryKeeps DEF Environment
<1>4. CASE UNCHANGED vars
  <2>1. UNCHANGED <<rx_head, rx_tail, rx_buf, R_RES, R_TOG, rx_win, event,
                    irq_on, pc, n, copied, tail_read, host_tog, made, taken,
                    lost, sessions>>
    BY <1>4 DEF vars, ringVars, winVars, readerVars, ghostVars
  <2>2. UNCHANGED <<U, Waiting, Used(rx_head, rx_tail),
                    Free(rx_head, rx_tail), Contents(rx_tail, n)>>
    BY <2>1 DEF U, Waiting, Used, Free, Contents
  <2> QED
    BY <2>1, <2>2
       DEF IInv, TypeOK, RingNeverOverruns, CreditImpliesRoom, PacketIsLetIn,
           ReaderOwnsTheTail, CopyIsTheRing, NoneLost
<1> QED BY <1>1, <1>2, <1>3, <1>4 DEF Next

THEOREM Invariance ==
  ASSUME MidReadOpens = FALSE
  PROVE  Spec => []IInv
<1> QED BY InitHolds, StepKeeps, PTL DEF Spec

(* rx_deliver() never overruns rx_buf: whatever order bl_usb_rx() and the   *)
(* handler take turns in, an endpoint left at ACK has a whole packet's room *)
(* and the free-running 16-bit indices never part by more than the ring.    *)
THEOREM RingIsSound ==
  ASSUME MidReadOpens = FALSE
  PROVE  Spec => []RingSound
<1>1. IInv => RingSound
  BY DEF IInv, RingSound
<1> QED BY <1>1, Invariance, PTL

-----------------------------------------------------------------------------
(* What is owed to the parser.                                              *)

LEMMA JoinedIs ==
  ASSUME NEW s \in Seq(Nat), NEW t \in Seq(Nat)
  PROVE  /\ s \o t \in Seq(Nat) /\ Len(s \o t) = Len(s) + Len(t)
         /\ \A i \in 1 .. Len(s) : (s \o t)[i] = s[i]
         /\ \A j \in 1 .. Len(t) : (s \o t)[Len(s) + j] = t[j]
<1>1. s \o t \in Seq(Nat) OBVIOUS
<1>2. Len(s \o t) = Len(s) + Len(t) OBVIOUS
<1>3. ASSUME NEW i \in 1 .. Len(s) PROVE (s \o t)[i] = s[i] OBVIOUS
<1>4. ASSUME NEW j \in 1 .. Len(t) PROVE (s \o t)[Len(s) + j] = t[j] OBVIOUS
<1> QED BY <1>1, <1>2, <1>3, <1>4

LEMMA SuffixIs ==
  ASSUME NEW s \in Seq(Nat), NEW k \in 1 .. Len(s)
  PROVE  /\ SubSeq(s, k + 1, Len(s)) \in Seq(Nat)
         /\ Len(SubSeq(s, k + 1, Len(s))) = Len(s) - k
         /\ \A i \in 1 .. Len(s) - k : SubSeq(s, k + 1, Len(s))[i] = s[k + i]
<1>1. SubSeq(s, k + 1, Len(s)) \in Seq(Nat) OBVIOUS
<1>2. Len(SubSeq(s, k + 1, Len(s))) = Len(s) - k OBVIOUS
<1>3. ASSUME NEW i \in 1 .. Len(s) - k
      PROVE  SubSeq(s, k + 1, Len(s))[i] = s[k + i]
  OBVIOUS
<1> QED BY <1>1, <1>2, <1>3

(* Its units one by one: the ring's from the tail on, then the window's. *)
OwedIsRingThenWindow ==
  /\ Owed \in Seq(Nat) /\ Len(Owed) = U + Waiting
  /\ \A i \in 1 .. U : Owed[i] = rx_buf[(rx_tail + i - 1) % Size]
  /\ \A j \in 1 .. Waiting : Owed[U + j] = rx_win[ReceivedWindow][j]

LEMMA OwedIs ==
  IInv => OwedIsRingThenWindow
<1> SUFFICES ASSUME IInv PROVE OwedIsRingThenWindow
  OBVIOUS
<1> DEFINE ring == Contents(rx_tail, U)
           win  == rx_win[ReceivedWindow]
<1>f. /\ rx_tail \in 0 .. Wrap - 1 /\ rx_buf \in [0 .. Size - 1 -> Nat]
      /\ U \in Nat /\ Waiting \in 0 .. Pkt
  BY Facts, SizesAre
<1>1. /\ ring \in Seq(Nat) /\ Len(ring) = U
      /\ \A i \in 1 .. U : ring[i] = rx_buf[(rx_tail + i - 1) % Size]
  BY <1>f, ContentsAre
<1>2. win \in [1 .. Pkt -> Nat]
  BY DEF IInv, TypeOK, ReceivedWindow, Flip
<1>3. /\ InWindow \in Seq(Nat) /\ Len(InWindow) = Waiting
      /\ \A j \in 1 .. Waiting : InWindow[j] = win[j]
  <2>1. CASE event.kind = "OUT" /\ event.tog_ok
    <3> DEFINE k == event.len
    <3>1. Waiting = k /\ InWindow = SubSeq(win, 1, k)
      BY <2>1 DEF Waiting, InWindow
    <3> HIDE DEF k, win
    <3>2. win \in Seq(Nat) /\ Len(win) = Pkt
      BY <1>2, SizesAre
    <3>3. k \in 0 .. Pkt /\ k <= Len(win)
      BY <3>1, <3>2, <1>f, SizesAre
    <3>4. SubSeq(win, 1, k) = [i \in 1 .. k |-> win[i]]
      BY <3>2, <3>3, SizesAre
    <3>5. \A i \in 1 .. k : win[i] \in Nat
      BY <1>2, <3>3, SizesAre
    <3>6. SubSeq(win, 1, k) \in Seq(Nat) /\ Len(SubSeq(win, 1, k)) = k
      BY <3>3, <3>4, <3>5, SizesAre
    <3> QED BY <3>1, <3>4, <3>6
  <2>2. CASE ~(event.kind = "OUT" /\ event.tog_ok)
    BY <2>2 DEF Waiting, InWindow
  <2> QED BY <2>1, <2>2
<1>4. Owed = ring \o InWindow
  BY DEF Owed, U
<1> HIDE DEF ring, win
<1>5. Owed \in Seq(Nat) /\ Len(Owed) = U + Waiting
  BY <1>1, <1>3, <1>4, JoinedIs
<1>6. ASSUME NEW i \in 1 .. U PROVE Owed[i] = ring[i]
  BY <1>1, <1>3, <1>4, JoinedIs
<1>7. ASSUME NEW j \in 1 .. Waiting PROVE Owed[U + j] = InWindow[j]
  BY <1>1, <1>3, <1>4, JoinedIs
<1> QED BY <1>1, <1>3, <1>5, <1>6, <1>7 DEF OwedIsRingThenWindow, win

(* A unit the SIE accepted is taken, owed, or dropped by a session boundary: *)
(* neither the toggle check of the handler nor bl_usb_rx() loses one.        *)
THEOREM OnlyBoundariesLose ==
  ASSUME MidReadOpens = FALSE
  PROVE  Spec => []OnlySessionsLose
<1>1. IInv => OnlySessionsLose
  <2> SUFFICES ASSUME IInv PROVE OnlySessionsLose
    OBVIOUS
  <2>1. Len(Owed) = U + Waiting BY OwedIs DEF OwedIsRingThenWindow
  <2>2. made = Len(taken) + U + Waiting + lost BY DEF IInv, NoneLost
  <2>3. U \in Nat /\ Waiting \in Nat /\ Len(taken) \in Nat /\ lost \in Nat
    BY Facts, SizesAre DEF IInv, TypeOK
  <2> QED BY <2>1, <2>2, <2>3 DEF OnlySessionsLose
<1> QED BY <1>1, Invariance, PTL

-----------------------------------------------------------------------------
(* The refinement: every step is a step of ByteStream, or none.             *)

Abstract == [Stream!Next]_(Stream!streamVars)

LEMMA SequencesEqual ==
  ASSUME NEW s \in Seq(Nat), NEW t \in Seq(Nat), Len(s) = Len(t),
         \A i \in 1 .. Len(s) : s[i] = t[i]
  PROVE  s = t
OBVIOUS

LEMMA InitRefines ==
  Init => Stream!Init
<1> SUFFICES ASSUME Init PROVE Stream!Init
  OBVIOUS
<1>1. InWindow = <<>> /\ Used(rx_head, rx_tail) = 0
  BY EmptyIs DEF Init, InWindow, NoEvent, Event
<1>2. Contents(rx_tail, 0) = <<>>
  <2>1. 1 .. 0 = {} OBVIOUS
  <2> QED BY <2>1 DEF Contents
<1>3. Owed = <<>>
  BY <1>1, <1>2 DEF Owed
<1> QED BY <1>3 DEF Init, Stream!Init

(* The ring and the window are left alone: nothing is owed more or less. *)
LEMMA Unseen ==
  ASSUME UNCHANGED <<rx_head, rx_tail, rx_buf, InWindow, made, taken>>
  PROVE  UNCHANGED Stream!streamVars
<1>1. Owed' = Owed
  BY DEF Owed, Contents, Used
<1> QED BY <1>1 DEF Stream!streamVars

(* The handler moves the packet from the window into the ring, and the      *)
(* stream does not notice.                                                  *)
LEMMA OutDoneRefines ==
  ASSUME IInv, IInv', OutDone
  PROVE  UNCHANGED Stream!streamVars
<1>1. OwedIsRingThenWindow /\ OwedIsRingThenWindow'
  BY OwedIs, PTL
<1>2. /\ rx_tail' = rx_tail /\ U' = U + Waiting
      /\ \A i \in 1 .. U : rx_buf'[(rx_tail + i - 1) % Size]
                             = rx_buf[(rx_tail + i - 1) % Size]
      /\ \A j \in 1 .. Waiting : rx_buf'[(rx_tail + U + j - 1) % Size]
                                   = rx_win[ReceivedWindow][j]
  BY OutDoneIs
<1>3. UNCHANGED <<made, taken>> /\ Waiting' = 0
  BY DEF OutDone, ghostVars, NoEvent, Event, Waiting
<1>f. rx_tail \in Nat /\ U \in Nat /\ Waiting \in Nat
  BY Facts, SizesAre
<1>4. /\ Owed \in Seq(Nat) /\ Len(Owed) = U + Waiting
      /\ Owed' \in Seq(Nat) /\ Len(Owed') = U + Waiting
  BY <1>1, <1>2, <1>3, <1>f DEF OwedIsRingThenWindow
<1>5. ASSUME NEW i \in 1 .. U + Waiting PROVE Owed'[i] = Owed[i]
  <2>1. Owed'[i] = rx_buf'[(rx_tail + i - 1) % Size]
    BY <1>1, <1>2 DEF OwedIsRingThenWindow
  <2>2. CASE i <= U
    <3>1. i \in 1 .. U BY <2>2, <1>f
    <3> QED BY <2>1, <3>1, <1>1, <1>2 DEF OwedIsRingThenWindow
  <2>3. CASE i > U
    <3>1. PICK j \in 1 .. Waiting : i = U + j
      <4>1. i - U \in 1 .. Waiting /\ i = U + (i - U) BY <2>3, <1>f
      <4> QED BY <4>1
    <3>2. rx_tail + i - 1 = rx_tail + U + j - 1 BY <3>1, <1>f
    <3> QED BY <2>1, <3>1, <3>2, <1>1, <1>2 DEF OwedIsRingThenWindow
  <2> QED BY <2>2, <2>3, <1>f
<1>6. Owed' = Owed
  BY <1>4, <1>5, SequencesEqual
<1> QED BY <1>3, <1>6 DEF Stream!streamVars

(* A packet the SIE accepts in sequence is produced; a retransmission adds  *)
(* nothing.                                                                 *)
LEMMA SieOutRefines ==
  ASSUME IInv, IInv', SieOut
  PROVE  Abstract
<1>1. OwedIsRingThenWindow /\ OwedIsRingThenWindow'
  BY OwedIs, PTL
<1> DEFINE w == Waiting'
<1>2. /\ Waiting = 0 /\ made' = made + w /\ w \in 0 .. Pkt
      /\ UNCHANGED <<rx_head, rx_tail, rx_buf, taken>>
      /\ w # 0 => \A i \in 1 .. w : rx_win'[ReceivedWindow'][i] = made + i
  BY SieOutIs
<1>3. U' = U
  BY <1>2 DEF U
<1>f. U \in Nat /\ made \in Nat /\ w \in Nat
  <2>1. U \in 0 .. Size BY Facts
  <2>2. U \in Nat BY <2>1, SizesAre
  <2>3. made \in Nat BY DEF IInv, TypeOK
  <2>4. w \in 0 .. Pkt BY <1>2
  <2> HIDE DEF w
  <2>5. w \in Nat BY <2>4, SizesAre
  <2> QED BY <2>2, <2>3, <2>5 DEF w
<1>4. /\ Owed \in Seq(Nat) /\ Len(Owed) = U
      /\ Owed' \in Seq(Nat) /\ Len(Owed') = U + w
  BY <1>1, <1>2, <1>3, <1>f DEF OwedIsRingThenWindow
<1>5. ASSUME NEW i \in 1 .. U PROVE Owed'[i] = Owed[i]
  BY <1>1, <1>2, <1>3 DEF OwedIsRingThenWindow
<1>6. ASSUME NEW j \in 1 .. w PROVE Owed'[U + j] = rx_win'[ReceivedWindow'][j]
  BY <1>1, <1>3 DEF OwedIsRingThenWindow
<1> HIDE DEF w
<1>7. CASE w = 0
  <2>1. Owed' = Owed
    <3>1. Len(Owed') = Len(Owed) BY <1>4, <1>7, <1>f
    <3> QED BY <1>4, <1>5, <3>1, SequencesEqual
  <2>2. made' = made BY <1>2, <1>7, <1>f
  <2> QED BY <1>2, <2>1, <2>2 DEF Abstract, Stream!streamVars
<1>8. CASE w # 0
  <2> DEFINE more == [i \in 1 .. w |-> made + i]
  <2>1. more \in Seq(Nat) /\ Len(more) = w /\ \A j \in 1 .. w : more[j] = made + j
    BY <1>f
  <2> HIDE DEF more
  <2>2. Owed \o more \in Seq(Nat) /\ Len(Owed \o more) = U + w
    BY <2>1, <1>4
  <2>3. ASSUME NEW i \in 1 .. U + w PROVE Owed'[i] = (Owed \o more)[i]
    <3>1. CASE i <= U
      <4>1. i \in 1 .. U BY <3>1, <1>f
      <4> QED BY <4>1, <1>4, <1>5, <2>1, <2>2
    <3>2. CASE i > U
      <4>1. PICK j \in 1 .. w : i = U + j
        <5>1. i - U \in 1 .. w BY <3>2, <1>f
        <5>2. i = U + (i - U) BY <1>f
        <5> QED BY <5>1, <5>2, Zenon
      <4>2. (Owed \o more)[U + j] = more[j]
        BY <1>4, <2>1, JoinedIs
      <4>3. Owed'[U + j] = made + j
        <5>1. rx_win'[ReceivedWindow'][j] = made + j BY <1>2, <1>8 DEF w
        <5>2. Owed'[U + j] = rx_win'[ReceivedWindow'][j] BY <1>6
        <5> QED BY <5>1, <5>2
      <4> QED BY <4>1, <4>2, <4>3, <2>1
    <3>3. i <= U \/ i > U BY <1>f
    <3> QED BY <3>1, <3>2, <3>3, Zenon
  <2>4. Owed' = Owed \o more
    BY <1>4, <2>2, <2>3, SequencesEqual
  <2>5. made' - made = w /\ made' \in Nat /\ made' > made
    BY <1>2, <1>8, <1>f
  <2>6. Stream!Produce
    BY <1>2, <2>4, <2>5 DEF Stream!Produce, more
  <2> QED BY <2>6 DEF Abstract, Stream!Next
<1> QED BY <1>7, <1>8

(* The tail store delivers what the copy took off the front of the ring. *)
LEMMA ReadStoreTailRefines ==
  ASSUME IInv, IInv', ReadStoreTail
  PROVE  Abstract
<1>1. OwedIsRingThenWindow /\ OwedIsRingThenWindow'
  BY OwedIs, PTL
<1>2. /\ rx_tail' = Advance(rx_tail, n)
      /\ n \in 1 .. U /\ n \in 0 .. Wrap - 1 /\ U' = U - n
      /\ copied = Contents(rx_tail, n) /\ Len(copied) = n
      /\ taken' = taken \o copied
  BY TailStoreIs
<1>3. UNCHANGED <<rx_buf, R_TOG, rx_win, event, made>>
  BY DEF ReadStoreTail, winVars
<1>4. Waiting' = Waiting /\ ReceivedWindow' = ReceivedWindow
  BY <1>3 DEF Waiting, ReceivedWindow
<1>f. /\ rx_tail \in 0 .. Wrap - 1 /\ rx_buf \in [0 .. Size - 1 -> Nat]
      /\ rx_tail \in Nat /\ U \in Nat /\ Waiting \in Nat /\ n \in Nat
  BY <1>2, Facts, SizesAre
<1>5. /\ Owed \in Seq(Nat) /\ Len(Owed) = U + Waiting
      /\ Owed' \in Seq(Nat) /\ Len(Owed') = (U - n) + Waiting
      /\ \A i \in 1 .. U : Owed[i] = rx_buf[(rx_tail + i - 1) % Size]
      /\ \A j \in 1 .. Waiting : Owed[U + j] = rx_win[ReceivedWindow][j]
      /\ \A i \in 1 .. U - n : Owed'[i] = rx_buf[(rx_tail' + i - 1) % Size]
      /\ \A j \in 1 .. Waiting : Owed'[(U - n) + j] = rx_win[ReceivedWindow][j]
  BY <1>1, <1>2, <1>3, <1>4 DEF OwedIsRingThenWindow
<1>6. n \in 1 .. Len(Owed)
  BY <1>2, <1>5, <1>f
<1>7. copied = SubSeq(Owed, 1, n)
  <2>1. /\ copied \in Seq(Nat)
        /\ \A i \in 1 .. n : copied[i] = rx_buf[(rx_tail + i - 1) % Size]
    BY <1>2, <1>f, ContentsAre
  <2>2. /\ SubSeq(Owed, 1, n) \in Seq(Nat) /\ Len(SubSeq(Owed, 1, n)) = n
        /\ \A i \in 1 .. n : SubSeq(Owed, 1, n)[i] = Owed[i]
    BY <1>5, <1>6, <1>f
  <2>3. ASSUME NEW i \in 1 .. n PROVE copied[i] = SubSeq(Owed, 1, n)[i]
    <3>1. i \in 1 .. U BY <1>2, <1>f
    <3> QED BY <3>1, <2>1, <2>2, <1>5
  <2> QED BY <1>2, <2>1, <2>2, <2>3, SequencesEqual
<1>8. Owed' = SubSeq(Owed, n + 1, Len(Owed))
  <2> DEFINE rest == SubSeq(Owed, n + 1, Len(Owed))
             left == (U - n) + Waiting
  <2>1. left \in Nat /\ Len(Owed) - n = left /\ Len(Owed) \in Nat
    BY <1>2, <1>5, <1>f
  <2>2. /\ rest \in Seq(Nat) /\ Len(rest) = left
        /\ \A i \in 1 .. left : rest[i] = Owed[n + i]
    BY <1>5, <1>6, <2>1, SuffixIs
  <2> HIDE DEF rest
  <2>3. ASSUME NEW i \in 1 .. left PROVE Owed'[i] = rest[i]
    <3>1. CASE i <= U - n
      <4>1. i \in 1 .. U - n /\ n + i \in 1 .. U /\ i - 1 \in Nat
        BY <3>1, <1>2, <1>f
      <4>2. (rx_tail' + (i - 1)) % Size = (rx_tail + n + (i - 1)) % Size
        BY <4>1, <1>2, <1>f, SlotIs
      <4>3. rx_tail' \in Int BY Facts, <1>2, AdvanceIs, <1>f
      <4>4. /\ rx_tail' + i - 1 = rx_tail' + (i - 1)
            /\ rx_tail + (n + i) - 1 = rx_tail + n + (i - 1)
        BY <4>3, <1>f
      <4>5. Owed'[i] = rx_buf[(rx_tail' + i - 1) % Size] BY <4>1, <1>5
      <4>6. Owed[n + i] = rx_buf[(rx_tail + (n + i) - 1) % Size] BY <4>1, <1>5
      <4> QED BY <4>2, <4>4, <4>5, <4>6, <2>2
    <3>2. CASE i > U - n
      <4>1. PICK j \in 1 .. Waiting : i = (U - n) + j
        <5>1. i - (U - n) \in 1 .. Waiting /\ i = (U - n) + (i - (U - n))
          BY <3>2, <1>2, <1>f
        <5> QED BY <5>1
      <4>2. n + i = U + j BY <4>1, <1>f
      <4> QED BY <4>1, <4>2, <1>5, <2>2
    <3> QED BY <3>1, <3>2, <1>f
  <2> QED BY <1>5, <2>1, <2>2, <2>3, SequencesEqual DEF rest
<1>9. Stream!Deliver
  BY <1>2, <1>3, <1>6, <1>7, <1>8 DEF Stream!Deliver
<1> QED BY <1>9 DEF Abstract, Stream!Next

(* A boundary withdraws all that is owed. *)
LEMMA BoundaryRefines ==
  ASSUME IInv, IInv', SessionFlush \/ BusReset
  PROVE  Abstract
<1>1. OwedIsRingThenWindow /\ OwedIsRingThenWindow'
  BY OwedIs, PTL
<1>2. /\ rx_head' = 0 /\ rx_tail' = 0 /\ event' = NoEvent
      /\ UNCHANGED <<made, taken>>
  BY DEF SessionFlush, BusReset
<1>3. U' = 0 /\ Waiting' = 0
  BY <1>2, EmptyIs DEF U, Waiting, NoEvent, Event
<1>4. Owed' \in Seq(Nat) /\ Len(Owed') = 0 /\ Owed \in Seq(Nat)
  BY <1>1, <1>3 DEF OwedIsRingThenWindow
<1>5. Owed' = SubSeq(Owed, 1, 0) /\ 0 \in 0 .. Len(Owed)
  BY <1>4
<1>6. Stream!Withdraw
  BY <1>2, <1>5 DEF Stream!Withdraw
<1> QED BY <1>6 DEF Abstract, Stream!Next

LEMMA NextRefines ==
  IInv /\ IInv' /\ [Next]_vars => Abstract
<1> SUFFICES ASSUME IInv, IInv', [Next]_vars PROVE Abstract
  OBVIOUS
<1>1. CASE ReadSample \/ ReadCopy \/ ReadLoadTail \/ ReadCredit \/ UNCHANGED vars
  <2>1. UNCHANGED <<rx_head, rx_tail, rx_buf, R_TOG, rx_win, event, made, taken>>
    BY <1>1 DEF ReadSample, ReadCopy, ReadLoadTail, ReadCredit, vars, ringVars,
                winVars, ghostVars
  <2>2. InWindow' = InWindow
    BY <2>1 DEF InWindow, ReceivedWindow
  <2> QED BY <2>1, <2>2, Unseen DEF Abstract
<1>2. CASE OtherDone \/ SieOther \/ HostBoundary
  <2>1. /\ UNCHANGED <<rx_head, rx_tail, rx_buf, made, taken>>
        /\ event.kind # "OUT" /\ event'.kind # "OUT"
    BY <1>2 DEF OtherDone, SieOther, HostBoundary, Serving, ringVars, ghostVars,
                NoEvent, Event
  <2>2. InWindow' = InWindow
    BY <2>1 DEF InWindow
  <2> QED BY <2>1, <2>2, Unseen DEF Abstract
<1> QED
  BY <1>1, <1>2, OutDoneRefines, SieOutRefines, ReadStoreTailRefines,
     BoundaryRefines DEF Abstract, Next, Reader, Handler, Environment

(* What bl_usb_rx() hands the parser is what the SIE accepted: in order,    *)
(* each unit once, over every wrap of ring and index, in whatever order     *)
(* reader, handler and host take turns; a boundary drops the rest.          *)
THEOREM RxImplementsByteStream ==
  ASSUME MidReadOpens = FALSE
  PROVE  Spec => ImplementsByteStream
<1>1. IInv /\ IInv' /\ [Next]_vars => [Stream!Next]_(Stream!streamVars)
  BY NextRefines DEF Abstract
<1> QED BY <1>1, InitRefines, Invariance, PTL
        DEF Spec, ImplementsByteStream, Stream!Spec
=============================================================================
