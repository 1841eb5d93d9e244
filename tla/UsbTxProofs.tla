----------------------------- MODULE UsbTxProofs -----------------------------
(***************************************************************************)
(* Theorems about UsbTx for every packet size, ring size, lock chunk,      *)
(* transfer size and publish grain, checked by TLAPS.                      *)
(***************************************************************************)
EXTENDS UsbTx, SequenceTheorems, TLAPS

(* The region belongs to the read command in progress, and what is          *)
(* published of it is what the command has produced.                        *)
RegionIsTheReads ==
  dir_on => /\ pc = "read"
            /\ dir_total = len
            /\ dir_avail = off
            /\ off <= len

(* An endpoint that is not armed answers NAK and has nothing in flight. *)
ArmedIsAck ==
  /\ tx_armed <=> T_RES = "ACK"
  /\ ~tx_armed => /\ tx_stage = <<>>
                  /\ tx_pipe_outstanding = 0
                  /\ ~tx_pipe_armed
                  /\ fg # "IN"

(* How many pipelined windows are in flight at each point of the handler. *)
PipelineCount ==
  /\ isr = "refill" => tx_pipe_armed
  /\ tx_pipe_armed => tx_pipe_outstanding = (IF isr = "refill" THEN 1 ELSE 2)
  /\ ~tx_pipe_armed => tx_pipe_outstanding <= 1

(* The shadow toggle follows the SIE also while a refill is under way. *)
ShadowFollows ==
  tx_pipe_armed =>
    tx_tog_pred = (IF fg = "IN" THEN OtherWindow(T_TOG) ELSE T_TOG)

RingBounded == tx_tail <= Len(tx_buf)

(* Pkt times a count of pipelined windows, without multiplication. *)
WindowUnits(n) == IF n = 2 THEN Pkt + Pkt ELSE IF n = 1 THEN Pkt ELSE 0

(* CreditExact without the product, and without what follows from           *)
(* RegionIsTheReads.                                                        *)
Credit ==
  dir_on =>
    /\ dir_pos = dir_sent + WindowUnits(tx_pipe_outstanding) + StagedDirect
    /\ dir_pos <= dir_avail

(* The part of the invariant that concerns what is armed and in flight. *)
PipeInv ==
  /\ ArmedIsAck
  /\ PipelineCount
  /\ ShadowFollows
  /\ RefillsTheFreedWindow
  /\ StageNeverOverruns

IInv == TypeOK /\ RegionIsTheReads /\ RingBounded /\ Credit /\ PipeInv

(* The sum of packets is the product. *)
LEMMA WindowUnitsIsProduct ==
  ASSUME NEW n \in 0..2
  PROVE  Pkt * n = WindowUnits(n)
<1>1. CASE n = 0 BY <1>1, UsbTxAssumption DEF WindowUnits
<1>2. CASE n = 1 BY <1>2, UsbTxAssumption DEF WindowUnits
<1>3. CASE n = 2 BY <1>3, UsbTxAssumption DEF WindowUnits
<1> QED BY <1>1, <1>2, <1>3

(* tx_pump() with nothing in flight: what it leaves armed is exactly what   *)
(* it took from the region, and it never takes what is not published.       *)
PumpPost(avail) ==
  /\ PumpDataOK
  /\ RingBounded
  /\ Len(tx_stage) <= 1
  /\ tx_pipe_outstanding > 0 => tx_stage = <<>>
  /\ tx_pipe_outstanding <= 2
  /\ dir_on => dir_pos <= avail

(* The flags tx_pump() writes agree with what it left in flight. *)
ArmedPost ==
  /\ {tx_armed, tx_last_full, tx_pipe_armed} \subseteq BOOLEAN
  /\ tx_armed <=> T_RES = "ACK"
  /\ ~tx_armed => tx_stage = <<>> /\ ~tx_pipe_armed
  /\ tx_pipe_armed => tx_pipe_outstanding = 2
  /\ ~tx_pipe_armed => tx_pipe_outstanding = 0

(* A copy out of the region is a sequence of tokens. *)
LEMMA RegionBytesType ==
  ASSUME NEW from \in Nat, NEW n \in Nat, dir_tok \in Nat
  PROVE  /\ RegionBytes(from, n) \in Seq(Nat)
         /\ Len(RegionBytes(from, n)) = n
         /\ RegionBytes(from, n) \in [1..n -> Nat]
<1>1. RegionBytes(from, n) \in [1..n -> Nat]
  BY DEF RegionBytes
<1> QED BY <1>1

(* A window stays a window of one packet. *)
LEMMA OverwriteType ==
  ASSUME PumpDataOK, NEW w \in Window, NEW bytes \in Seq(Nat)
  PROVE  Overwrite(w, bytes) \in [1..Pkt -> Nat]
<1>1. ASSUME NEW i \in 1..Pkt
      PROVE  (IF i <= Len(bytes) THEN bytes[i] ELSE win[w][i]) \in Nat
  <2>1. CASE i <= Len(bytes)
    BY <2>1, ElementOfSeq, LenProperties, UsbTxAssumption
  <2>2. CASE ~(i <= Len(bytes))
    BY <2>2 DEF PumpDataOK
  <2> QED BY <2>1, <2>2
<1> QED BY <1>1 DEF Overwrite

(* tx_pump() keeps the types, the credit and the bound on the stage. *)
LEMMA PumpStep ==
  ASSUME PumpDataOK, T_TOG \in Window, dir_tok \in Nat, FlagsOK, RingBounded,
         ~tx_pipe_armed, tx_armed <=> T_RES = "ACK",
         NEW avail \in Nat, dir_on => dir_pos <= avail, dir_on' = dir_on,
         TxPump(avail, <<>>, 0)
  PROVE  /\ PumpPost(avail)'
         /\ ArmedPost'
         /\ tx_pipe_armed' => tx_tog_pred' = T_TOG
         /\ dir_pos' = dir_pos + WindowUnits(tx_pipe_outstanding')
                         + StagedDirect'
<1> USE UsbTxAssumption
<1>1. CASE PumpHold(avail, <<>>, 0)
  <2>1. PumpPost(avail)' /\ dir_pos' = dir_pos
           /\ tx_stage' = <<>> /\ tx_pipe_outstanding' = 0
    BY <1>1 DEF PumpHold, PumpDataOK, RingBounded, PumpPost
  <2>2. ArmedPost' /\ ~tx_pipe_armed'
    BY <1>1 DEF PumpHold, FlagsOK, ArmedPost
  <2>q. dir_pos' = dir_pos + WindowUnits(tx_pipe_outstanding') + StagedDirect'
    BY <2>1, <2>2 DEF WindowUnits, StagedDirect, PumpDataOK
  <2> QED BY <2>1, <2>2, <2>q
<1>2. CASE PumpPrime(avail, <<>>, 0)
  <2>1. DirectReady(avail) = avail - dir_pos /\ dir_on
    BY <1>2 DEF PumpPrime, CanPrime, DirectReady
  <2>2. win' \in [Window -> [1..Pkt -> Nat]]
    <3>1. /\ RegionBytes(dir_pos, Pkt) \in [1..Pkt -> Nat]
          /\ RegionBytes(dir_pos + Pkt, Pkt) \in [1..Pkt -> Nat]
      <4>1. dir_pos \in Nat /\ dir_pos + Pkt \in Nat /\ Pkt \in Nat
        BY DEF PumpDataOK
      <4> QED BY <4>1, RegionBytesType
    <3> QED BY <1>2, <3>1 DEF PumpPrime, Window
  <2>3. /\ dir_pos' = dir_pos + 2 * Pkt
        /\ tx_stage' = <<>> /\ tx_pipe_outstanding' = 2
        /\ T_LEN' = Pkt /\ T_RES' = "ACK" /\ tx_tog_pred' = T_TOG
        /\ tx_buf' = tx_buf /\ tx_tail' = tx_tail
    BY <1>2 DEF PumpPrime
  <2>4. avail - dir_pos >= 2 * Pkt
    BY <1>2, <2>1 DEF PumpPrime, CanPrime
  <2>5. PumpPost(avail)'
    <3>1. PumpDataOK'
      <4>1. {dir_pos, tx_tail, tx_pipe_outstanding}' \subseteq Nat
        BY <2>3 DEF PumpDataOK
      <4>2. T_LEN' \in Units /\ tx_tog_pred' \in Window
        BY <2>3 DEF Units
      <4>3. tx_buf' \in Seq(Nat) /\ tx_stage' \in Seq(Nat)
        BY <2>3 DEF PumpDataOK
      <4> QED BY <2>2, <2>3, <4>1, <4>2, <4>3 DEF PumpDataOK
    <3>2. RingBounded'
      BY <2>3 DEF RingBounded
    <3>3. dir_pos' <= avail
      BY <2>3, <2>4 DEF PumpDataOK
    <3> QED BY <2>3, <3>1, <3>2, <3>3 DEF PumpPost
  <2>6. ArmedPost' /\ tx_tog_pred' = T_TOG
    BY <1>2 DEF PumpPrime, ArmedPost
  <2>q. dir_pos' = dir_pos + WindowUnits(tx_pipe_outstanding') + StagedDirect'
    BY <2>3 DEF WindowUnits, StagedDirect, PumpDataOK
  <2> QED BY <2>3, <2>5, <2>6, <2>q
<1>3. CASE PumpDirect(avail, <<>>, 0)
  <2> DEFINE m == NextDirect(avail)
  <2>1. DirectReady(avail) = avail - dir_pos /\ dir_on
    BY <1>3 DEF PumpDirect, DirectReady
  <2>2. m \in Nat /\ m <= Pkt /\ dir_pos + m <= avail
    BY <2>1 DEF NextDirect, MinOf, PumpDataOK
  <2>3. win' \in [Window -> [1..Pkt -> Nat]]
    <3>1. RegionBytes(dir_pos, m) \in Seq(Nat)
      BY <2>2, RegionBytesType DEF PumpDataOK
    <3>2. Overwrite(T_TOG, RegionBytes(dir_pos, m)) \in [1..Pkt -> Nat]
      BY <3>1, OverwriteType
    <3> QED BY <1>3, <3>2 DEF PumpDirect, PumpDataOK
  <2>4. tx_stage' = <<m>>
    BY <1>3 DEF PumpDirect
  <2>5. PumpPost(avail)' /\ dir_pos' = dir_pos + m
          /\ tx_pipe_outstanding' = 0
    BY <1>3, <2>2, <2>3, <2>4
       DEF PumpDirect, PumpDataOK, RingBounded, Units, PumpPost
  <2>6. ArmedPost' /\ ~tx_pipe_armed'
    BY <1>3 DEF PumpDirect, FullPacket, FlagsOK, ArmedPost
  <2>q. dir_pos' = dir_pos + WindowUnits(tx_pipe_outstanding') + StagedDirect'
    BY <2>2, <2>4, <2>5, <2>6 DEF WindowUnits, StagedDirect, PumpDataOK
  <2> QED BY <2>2, <2>4, <2>5, <2>6, <2>q
<1>4. CASE PumpRing(avail, <<>>, 0)
  <2> DEFINE n == MinOf(tx_head - tx_tail, Pkt)
  <2>1. n \in Nat /\ n <= Pkt /\ tx_tail + n <= Len(tx_buf)
    BY DEF MinOf, tx_head, PumpDataOK, RingBounded
  <2>2. win' \in [Window -> [1..Pkt -> Nat]]
    <3> DEFINE bytes == SubSeq(tx_buf, tx_tail + 1, tx_tail + n)
    <3>1. \A i \in tx_tail + 1 .. tx_tail + n : tx_buf[i] \in Nat
      <4> SUFFICES ASSUME NEW i \in tx_tail + 1 .. tx_tail + n
                   PROVE  tx_buf[i] \in Nat
        OBVIOUS
      <4>1. i \in 1..Len(tx_buf)
        BY <2>1, LenProperties DEF PumpDataOK
      <4> QED BY <4>1, ElementOfSeq DEF PumpDataOK
    <3>2. bytes \in Seq(Nat)
      BY <2>1, <3>1, SubSeqProperties DEF PumpDataOK
    <3>3. Overwrite(T_TOG, bytes) \in [1..Pkt -> Nat]
      BY <3>2, OverwriteType
    <3> QED BY <1>4, <3>3 DEF PumpRing, PumpDataOK
  <2>3. tx_stage' = <<0>>
    BY <1>4 DEF PumpRing, RingCredit
  <2>4. PumpPost(avail)' /\ dir_pos' = dir_pos /\ tx_pipe_outstanding' = 0
    <3>1. /\ tx_tail' = tx_tail + n /\ T_LEN' = n /\ T_RES' = "ACK"
          /\ tx_pipe_outstanding' = 0
          /\ dir_pos' = dir_pos /\ tx_buf' = tx_buf
          /\ tx_tog_pred' = tx_tog_pred
      BY <1>4 DEF PumpRing
    <3>2. PumpDataOK'
      <4>1. {dir_pos, tx_tail, tx_pipe_outstanding}' \subseteq Nat
        BY <2>1, <3>1 DEF PumpDataOK
      <4>2. T_LEN' \in Units /\ tx_tog_pred' \in Window
        BY <2>1, <3>1 DEF Units, PumpDataOK
      <4>3. tx_buf' \in Seq(Nat) /\ tx_stage' \in Seq(Nat)
        BY <2>3, <3>1 DEF PumpDataOK
      <4> QED BY <2>2, <3>1, <4>1, <4>2, <4>3 DEF PumpDataOK
    <3>3. RingBounded'
      BY <2>1, <3>1 DEF RingBounded
    <3> QED BY <2>3, <3>1, <3>2, <3>3 DEF PumpPost
  <2>5. ArmedPost' /\ ~tx_pipe_armed'
    BY <1>4 DEF PumpRing, FullPacket, FlagsOK, ArmedPost
  <2>q. dir_pos' = dir_pos + WindowUnits(tx_pipe_outstanding') + StagedDirect'
    BY <2>3, <2>4, <2>5 DEF WindowUnits, StagedDirect, PumpDataOK
  <2> QED BY <2>3, <2>4, <2>5, <2>q
<1>5. CASE PumpZlp(avail, <<>>, 0)
  <2>1. PumpPost(avail)' /\ dir_pos' = dir_pos
           /\ tx_stage' = <<>> /\ tx_pipe_outstanding' = 0
    BY <1>5 DEF PumpZlp, PumpDataOK, RingBounded, Units, PumpPost
  <2>2. ArmedPost' /\ ~tx_pipe_armed'
    BY <1>5 DEF PumpZlp, FlagsOK, ArmedPost
  <2>q. dir_pos' = dir_pos + WindowUnits(tx_pipe_outstanding') + StagedDirect'
    BY <2>1, <2>2 DEF WindowUnits, StagedDirect, PumpDataOK
  <2> QED BY <2>1, <2>2, <2>q
<1>6. CASE PumpPark(avail, <<>>, 0)
  <2>1. PumpPost(avail)' /\ dir_pos' = dir_pos
           /\ tx_stage' = <<>> /\ tx_pipe_outstanding' = 0
    BY <1>6 DEF PumpPark, PumpDataOK, RingBounded, Units, PumpPost
  <2>2. ArmedPost' /\ ~tx_pipe_armed'
    BY <1>6 DEF PumpPark, FlagsOK, ArmedPost
  <2>q. dir_pos' = dir_pos + WindowUnits(tx_pipe_outstanding') + StagedDirect'
    BY <2>1, <2>2 DEF WindowUnits, StagedDirect, PumpDataOK
  <2> QED BY <2>1, <2>2, <2>q
<1> QED BY <1>1, <1>2, <1>3, <1>4, <1>5, <1>6 DEF TxPump

(* A kick from a point where no completion is being handled. *)
LEMMA KickStep ==
  ASSUME IInv, NEW wanted, NEW avail \in Nat,
         isr = "idle", isr' = isr, T_TOG' = T_TOG, dir_sent' = dir_sent,
         dir_on' = dir_on, dir_avail' = avail, dir_on => dir_avail <= avail,
         \/ fg' = fg
         \/ fg # "IN" /\ fg' = "NONE",
         KickIf(wanted, avail)
  PROVE  /\ PumpDataOK'
         /\ {tx_armed, tx_last_full, tx_pipe_armed}' \subseteq BOOLEAN
         /\ RingBounded'
         /\ Credit'
         /\ PipeInv'
<1> USE UsbTxAssumption
<1>1. CASE ~tx_armed /\ wanted
  <2>1. tx_stage = <<>> /\ tx_pipe_outstanding = 0 /\ ~tx_pipe_armed /\ fg # "IN"
    BY <1>1 DEF IInv, PipeInv, ArmedIsAck
  <2>2. TxPump(avail, <<>>, 0)
    BY <1>1, <2>1 DEF KickIf
  <2>3. dir_on => dir_pos <= avail
    BY DEF IInv, Credit, TypeOK, ThreadDataOK, PumpDataOK
  <2>4. /\ PumpPost(avail)'
        /\ ArmedPost'
        /\ tx_pipe_armed' => tx_tog_pred' = T_TOG
        /\ dir_pos' = dir_pos + WindowUnits(tx_pipe_outstanding') + StagedDirect'
    BY <2>1, <2>2, <2>3, PumpStep DEF IInv, TypeOK, PipeInv, ArmedIsAck,
       ThreadDataOK, BusDataOK
  <2>5. dir_on => dir_pos = dir_sent
    BY <2>1 DEF IInv, Credit, WindowUnits, StagedDirect, TypeOK, ThreadDataOK
  <2>6. Credit'
    BY <2>4, <2>5 DEF Credit, PumpPost
  <2>7. ArmedIsAck' /\ PipelineCount'
    BY <2>1, <2>4 DEF ArmedIsAck, PipelineCount, ArmedPost
  <2>8. ShadowFollows' /\ RefillsTheFreedWindow' /\ StageNeverOverruns'
    BY <2>1, <2>4 DEF ShadowFollows, RefillsTheFreedWindow, StageNeverOverruns,
                      PumpPost
  <2> QED BY <2>4, <2>6, <2>7, <2>8 DEF PipeInv, PumpPost, ArmedPost
<1>2. CASE ~(~tx_armed /\ wanted)
  <2>1. UNCHANGED pumpVars
    BY <1>2 DEF KickIf
  <2>2. PumpDataOK' /\ RingBounded'
    BY <2>1 DEF pumpVars, IInv, TypeOK, PumpDataOK, RingBounded
  <2>3. {tx_armed, tx_last_full, tx_pipe_armed}' \subseteq BOOLEAN
    BY <2>1 DEF pumpVars, IInv, TypeOK, FlagsOK
  <2>4. Credit'
    BY <2>1 DEF pumpVars, IInv, Credit, StagedDirect, TypeOK, ThreadDataOK,
                PumpDataOK
  <2>5. ArmedIsAck' /\ PipelineCount'
    BY <2>1 DEF pumpVars, IInv, PipeInv, ArmedIsAck, PipelineCount
  <2>6. ShadowFollows' /\ RefillsTheFreedWindow' /\ StageNeverOverruns'
    BY <2>1 DEF pumpVars, IInv, PipeInv, ShadowFollows, RefillsTheFreedWindow,
                StageNeverOverruns
  <2> QED BY <2>2, <2>3, <2>4, <2>5, <2>6 DEF PipeInv
<1> QED BY <1>1, <1>2

(* Steps that touch neither the pump nor its accounting. *)
LEMMA QuietStep ==
  ASSUME IInv, UNCHANGED pumpVars, dir_sent' = dir_sent, dir_on' = dir_on,
         dir_avail' = dir_avail, isr' = isr, T_TOG' = T_TOG, freed' = freed,
         fg' = fg \/ (fg # "IN" /\ fg' # "IN")
  PROVE  PumpDataOK' /\ RingBounded' /\ Credit' /\ PipeInv'
<1>1. PumpDataOK' /\ RingBounded'
  BY DEF pumpVars, IInv, TypeOK, PumpDataOK, RingBounded
<1>2. Credit'
  BY DEF pumpVars, IInv, Credit, StagedDirect
<1>3. ArmedIsAck' /\ PipelineCount'
  BY DEF pumpVars, IInv, PipeInv, ArmedIsAck, PipelineCount
<1>4. ShadowFollows' /\ RefillsTheFreedWindow' /\ StageNeverOverruns'
  BY DEF pumpVars, IInv, PipeInv, ShadowFollows, RefillsTheFreedWindow,
         StageNeverOverruns
<1> QED BY <1>1, <1>2, <1>3, <1>4 DEF PipeInv

(* Steps that forget the pipeline: begin, end, and a new session. *)
LEMMA ForgetStep ==
  ASSUME IInv, ForgetPipeline, isr = "idle", isr' = isr,
         fg' = fg \/ fg' = "NONE",
         tx_armed' <=> T_RES' = "ACK",
         ~tx_armed' => fg' # "IN"
  PROVE  Credit' /\ PipeInv'
<1>1. Credit'
  BY UsbTxAssumption DEF ForgetPipeline, Credit, WindowUnits, StagedDirect
<1>2. ArmedIsAck' /\ PipelineCount'
  BY DEF ForgetPipeline, ArmedIsAck, PipelineCount
<1>3. ShadowFollows' /\ RefillsTheFreedWindow' /\ StageNeverOverruns'
  BY DEF ForgetPipeline, ShadowFollows, RefillsTheFreedWindow,
         StageNeverOverruns
<1> QED BY <1>1, <1>2, <1>3 DEF PipeInv

(* The invariant holds at the start. *)
LEMMA InitIInv == Init => IInv
<1> SUFFICES ASSUME Init PROVE IInv
  OBVIOUS
<1> USE UsbTxAssumption
<1>1. FlagsOK
  BY DEF Init, FlagsOK
<1>2. ThreadDataOK /\ BusDataOK
  BY DEF Init, ThreadDataOK, BusDataOK, Window
<1>3. PumpDataOK
  BY DEF Init, PumpDataOK, Window, Units
<1>4. RegionIsTheReads /\ RingBounded /\ Credit
  BY DEF Init, RegionIsTheReads, RingBounded, Credit
<1>5. PipeInv
  BY DEF Init, PipeInv, ArmedIsAck, PipelineCount, ShadowFollows,
         RefillsTheFreedWindow, StageNeverOverruns
<1> QED BY <1>1, <1>2, <1>3, <1>4, <1>5 DEF IInv, TypeOK

(* A new region starts with nothing copied. *)
LEMMA BeginRegionInv == IInv /\ BeginRegion => IInv'
<1> SUFFICES ASSUME IInv, BeginRegion PROVE IInv'
  OBVIOUS
<1> USE UsbTxAssumption DEF BeginRegion, ForgetPipeline, isrVars, hostVars
<1>1. FlagsOK'
  BY DEF IInv, TypeOK, FlagsOK
<1>2. ThreadDataOK'
  BY DEF IInv, TypeOK, ThreadDataOK
<1>3. PumpDataOK' /\ RingBounded'
  BY DEF IInv, TypeOK, PumpDataOK, RingBounded
<1>4. BusDataOK'
  BY DEF IInv, TypeOK, BusDataOK
<1>5. RegionIsTheReads'
  BY DEF RegionIsTheReads
<1>6. Credit' /\ PipeInv'
  BY ForgetStep DEF IInv, PipeInv, ArmedIsAck, ThreadMayRun
<1> QED BY <1>1, <1>2, <1>3, <1>4, <1>5, <1>6 DEF IInv, TypeOK

(* Publishing moves the end of what may be copied. *)
LEMMA PublishInv == IInv /\ (Publish \/ Republish) => IInv'
<1> SUFFICES ASSUME IInv, Publish \/ Republish PROVE IInv'
  OBVIOUS
<1> USE UsbTxAssumption
<1> DEFINE avail == dir_avail'
<1>1. /\ avail = off' /\ off' \in Nat /\ off <= off'
      /\ pc = "read" /\ pc' = pc /\ len' = len /\ (off <= len => off' <= len)
      /\ UNCHANGED <<grain, left, jobs>>
  <2>1. CASE Publish
    BY <2>1 DEF Publish, PublishUpTo, MinOf, IInv, TypeOK, ThreadDataOK
  <2>2. CASE Republish
    BY <2>2 DEF Republish, PublishUpTo, threadVars, IInv, TypeOK, ThreadDataOK
  <2> QED BY <2>1, <2>2
<1>2. /\ isr = "idle"
      /\ made' = IF dir_on THEN dir_tok + avail ELSE made
      /\ KickIf(DirectReady(avail) # 0, avail)
      /\ UNCHANGED <<dir_on, dir_tok, dir_total, dir_sent, T_TOG, isrVars,
                     hostVars>>
  BY <1>1 DEF Publish, Republish, PublishUpTo, ThreadMayRun, threadVars
<1>3. ThreadDataOK'
  BY <1>1, <1>2 DEF IInv, TypeOK, ThreadDataOK
<1>4. /\ PumpDataOK' /\ RingBounded' /\ Credit' /\ PipeInv'
      /\ {tx_armed, tx_last_full, tx_pipe_armed}' \subseteq BOOLEAN
  <2>1. dir_on => dir_avail <= avail
    BY <1>1 DEF IInv, RegionIsTheReads
  <2> QED BY <1>1, <1>2, <2>1, KickStep DEF isrVars
<1>5. FlagsOK'
  BY <1>2, <1>4 DEF IInv, TypeOK, FlagsOK, isrVars, hostVars
<1>6. BusDataOK'
  BY <1>2 DEF IInv, TypeOK, BusDataOK, isrVars, hostVars
<1>7. RegionIsTheReads'
  BY <1>1, <1>2 DEF IInv, RegionIsTheReads
<1> QED BY <1>3, <1>4, <1>5, <1>6, <1>7 DEF IInv, TypeOK

(* A read that ends takes its region away. *)
LEMMA EndInv == IInv /\ (EndRegion \/ StallEnd) => IInv'
<1> SUFFICES ASSUME IInv, EndRegion \/ StallEnd PROVE IInv'
  OBVIOUS
<1> USE UsbTxAssumption
<1>1. /\ isr = "idle" /\ pc' = "idle" /\ WithdrawRegion
      /\ UNCHANGED <<off, len, grain, left, jobs, T_TOG, isrVars, hostVars, made>>
  BY DEF EndRegion, StallEnd, ThreadMayRun
<1>2. FlagsOK'
  BY <1>1 DEF WithdrawRegion, ForgetPipeline, isrVars, hostVars, IInv, TypeOK,
              FlagsOK
<1>3. ThreadDataOK'
  BY <1>1 DEF WithdrawRegion, ForgetPipeline, IInv, TypeOK, ThreadDataOK
<1>4. PumpDataOK' /\ RingBounded'
  BY <1>1 DEF WithdrawRegion, ForgetPipeline, IInv, TypeOK, PumpDataOK,
              RingBounded
<1>5. BusDataOK'
  BY <1>1 DEF isrVars, hostVars, IInv, TypeOK, BusDataOK
<1>6. RegionIsTheReads'
  BY <1>1 DEF WithdrawRegion, RegionIsTheReads
<1>7. Credit' /\ PipeInv'
  BY <1>1, ForgetStep DEF WithdrawRegion, isrVars, IInv, PipeInv, ArmedIsAck
<1> QED BY <1>2, <1>3, <1>4, <1>5, <1>6, <1>7 DEF IInv, TypeOK

(* A session boundary forgets whatever was in flight. *)
LEMMA FlushInv == IInv /\ (SessionFlush \/ BusReset) => IInv'
<1> SUFFICES ASSUME IInv, SessionFlush \/ BusReset PROVE IInv'
  OBVIOUS
<1> USE UsbTxAssumption
<1>1. isr = "idle" /\ FlushTx /\ T_TOG' \in Window
  BY DEF SessionFlush, BusReset, Serving, IInv, TypeOK, BusDataOK, Window
<1>2. FlagsOK'
  BY <1>1 DEF FlushTx, ForgetPipeline, IInv, TypeOK, FlagsOK
<1>3. ThreadDataOK'
  BY <1>1 DEF FlushTx, ForgetPipeline, threadVars, IInv, TypeOK, ThreadDataOK
<1>4. PumpDataOK' /\ RingBounded'
  BY <1>1 DEF FlushTx, ForgetPipeline, IInv, TypeOK, PumpDataOK, RingBounded,
              Units
<1>5. BusDataOK'
  BY <1>1 DEF FlushTx, IInv, TypeOK, BusDataOK
<1>6. RegionIsTheReads'
  BY <1>1 DEF FlushTx, RegionIsTheReads
<1>7. Credit' /\ PipeInv'
  BY <1>1, ForgetStep DEF FlushTx
<1> QED BY <1>2, <1>3, <1>4, <1>5, <1>6, <1>7 DEF IInv, TypeOK

(* Steps after which the pump is as it was. *)
LEMMA QuietInv ==
  IInv /\ (BeginReply \/ AbandonReply \/ SieOther \/ HostToggles) => IInv'
<1> SUFFICES ASSUME IInv, BeginReply \/ AbandonReply \/ SieOther \/ HostToggles
             PROVE  IInv'
  OBVIOUS
<1> USE UsbTxAssumption
    DEF BeginReply, AbandonReply, SieOther, HostToggles, ThreadMayRun,
        threadVars, regionVars, isrVars, hostVars
<1>1. FlagsOK'
  BY DEF IInv, TypeOK, FlagsOK, pumpVars
<1>2. ThreadDataOK'
  <2>1. CASE BeginReply
    <3>1. left' \in Nat /\ pc' = "call" /\ jobs' = jobs + 1
      BY <2>1
    <3>2. UNCHANGED <<off, len, grain, dir_tok, dir_avail, dir_total, dir_sent, made>>
      BY <2>1
    <3> QED BY <3>1, <3>2 DEF IInv, TypeOK, ThreadDataOK
  <2>2. CASE AbandonReply
    BY <2>2 DEF IInv, TypeOK, ThreadDataOK
  <2>3. CASE SieOther \/ HostToggles
    BY <2>3 DEF IInv, TypeOK, ThreadDataOK
  <2> QED BY <2>1, <2>2, <2>3
<1>3. BusDataOK'
  BY DEF IInv, TypeOK, BusDataOK
<1>4. RegionIsTheReads'
  BY DEF IInv, RegionIsTheReads
<1>5. PumpDataOK' /\ RingBounded' /\ Credit' /\ PipeInv'
  BY QuietStep
<1> QED BY <1>1, <1>2, <1>3, <1>4, <1>5 DEF IInv, TypeOK

(* A chunk of a reply goes into the ring, and the pump may run. *)
LEMMA QueueChunkInv == IInv /\ QueueChunk => IInv'
<1> SUFFICES ASSUME IInv, QueueChunk PROVE IInv'
  OBVIOUS
<1> USE UsbTxAssumption
<1> DEFINE n == MinOf(MinOf(left, LockChunk), RingRoom)
           new == [i \in 1..n |-> made + i]
<1>1. n \in Nat /\ n <= left /\ left' = left - n /\ made' = made + n
  <2>1. left' = left - n /\ made' = made + n /\ n > 0
    BY DEF QueueChunk
  <2>2. RingRoom \in Int
    BY LenProperties DEF RingRoom, tx_head, IInv, TypeOK, PumpDataOK
  <2>3. left \in Nat /\ LockChunk \in Nat
    BY DEF IInv, TypeOK, ThreadDataOK
  <2>4. n \in Int /\ n <= left
    BY <2>2, <2>3 DEF MinOf
  <2> QED BY <2>1, <2>3, <2>4
<1>2. /\ pc \in {"call", "chunk"} /\ pc' \in {"chunk", "kick"}
      /\ tx_buf' = tx_buf \o new
      /\ UNCHANGED <<off, len, grain, jobs, regionVars, dir_sent, dir_pos, tx_tail,
                     tx_armed, tx_last_full, tx_pipe_armed, tx_pipe_outstanding,
                     tx_tog_pred, tx_stage, T_RES, T_LEN, win, T_TOG, isrVars,
                     hostVars>>
  BY DEF QueueChunk
<1>3. tx_buf' \in Seq(Nat) /\ Len(tx_buf') >= Len(tx_buf)
  <2>1. new \in [1..n -> Nat]
    BY <1>1 DEF IInv, TypeOK, ThreadDataOK
  <2>2. new \in Seq(Nat)
    BY <1>1, <2>1
  <2>3. tx_buf \in Seq(Nat)
    BY DEF IInv, TypeOK, PumpDataOK
  <2> HIDE DEF new, n
  <2>4. tx_buf \o new \in Seq(Nat) /\ Len(tx_buf \o new) = Len(tx_buf) + Len(new)
    BY <2>2, <2>3, ConcatProperties
  <2> QED BY <1>2, <2>2, <2>3, <2>4, LenProperties
<1>4. FlagsOK'
  BY <1>2 DEF regionVars, isrVars, hostVars, IInv, TypeOK, FlagsOK
<1>5. ThreadDataOK'
  BY <1>1, <1>2 DEF regionVars, IInv, TypeOK, ThreadDataOK
<1> HIDE DEF new, n
<1>6. PumpDataOK'
  BY <1>2, <1>3 DEF IInv, TypeOK, PumpDataOK
<1>7. RingBounded'
  BY <1>2, <1>3, LenProperties DEF IInv, TypeOK, PumpDataOK, RingBounded
<1>8. BusDataOK'
  BY <1>2 DEF isrVars, hostVars, IInv, TypeOK, BusDataOK
<1>9. RegionIsTheReads'
  BY <1>2 DEF regionVars, IInv, RegionIsTheReads
<1>10. Credit'
  BY <1>2 DEF regionVars, IInv, Credit, StagedDirect
<1>11. PipeInv'
  BY <1>2 DEF isrVars, IInv, PipeInv, ArmedIsAck, PipelineCount, ShadowFollows,
              RefillsTheFreedWindow, StageNeverOverruns
<1> QED BY <1>4, <1>5, <1>6, <1>7, <1>8, <1>9, <1>10, <1>11 DEF IInv, TypeOK

(* The kick at the end of tx_queue() is a pump. *)
LEMMA QueueKickInv == IInv /\ QueueKick => IInv'
<1> SUFFICES ASSUME IInv, QueueKick PROVE IInv'
  OBVIOUS
<1> USE UsbTxAssumption DEF QueueKick, ThreadMayRun, regionVars, isrVars, hostVars
<1>1. /\ PumpDataOK' /\ RingBounded' /\ Credit' /\ PipeInv'
      /\ {tx_armed, tx_last_full, tx_pipe_armed}' \subseteq BOOLEAN
  BY KickStep DEF IInv, TypeOK, ThreadDataOK
<1>2. FlagsOK'
  BY <1>1 DEF IInv, TypeOK, FlagsOK
<1>3. ThreadDataOK' /\ BusDataOK' /\ RegionIsTheReads'
  BY DEF IInv, TypeOK, ThreadDataOK, BusDataOK, RegionIsTheReads
<1> QED BY <1>1, <1>2, <1>3 DEF IInv, TypeOK

(* Events that concern another endpoint only pump. *)
LEMMA PumpsOnlyInv == IInv /\ (OtherDone \/ IdlePoll) => IInv'
<1> SUFFICES ASSUME IInv, OtherDone \/ IdlePoll PROVE IInv'
  OBVIOUS
<1>1. /\ fg # "IN" /\ fg' = "NONE" /\ isr = "idle"
      /\ KickIf(~RingEmpty \/ DirectReady(dir_avail) # 0, dir_avail)
      /\ UNCHANGED <<threadVars, regionVars, dir_sent, T_TOG, isr, freed, irq_on,
                     hostVars, made>>
  BY DEF OtherDone, IdlePoll, PumpsOnly, Serving
<1>2. /\ PumpDataOK' /\ RingBounded' /\ Credit' /\ PipeInv'
      /\ {tx_armed, tx_last_full, tx_pipe_armed}' \subseteq BOOLEAN
  BY <1>1, KickStep DEF regionVars, IInv, TypeOK, ThreadDataOK
<1>3. FlagsOK'
  BY <1>1, <1>2 DEF regionVars, hostVars, IInv, TypeOK, FlagsOK
<1>4. ThreadDataOK' /\ BusDataOK' /\ RegionIsTheReads'
  BY <1>1 DEF threadVars, regionVars, hostVars, IInv, TypeOK, ThreadDataOK,
              BusDataOK, RegionIsTheReads
<1> QED BY <1>2, <1>3, <1>4 DEF IInv, TypeOK

(* A completion in the single-packet path leaves nothing in flight, so the   *)
(* pump that follows starts from dir_sent = dir_pos.                         *)
LEMMA InDonePumpInv == IInv /\ InDonePump => IInv'
<1> SUFFICES ASSUME IInv, InDonePump PROVE IInv'
  OBVIOUS
<1> USE UsbTxAssumption
<1>1. /\ isr = "idle" /\ fg = "IN" /\ ~tx_pipe_armed
      /\ dir_sent' = CreditAfter
      /\ TxPump(dir_avail, StageAfter, OutstandingAfter)
      /\ fg' = "NONE"
      /\ UNCHANGED <<threadVars, regionVars, T_TOG, isr, freed, irq_on, hostVars,
                     made>>
  BY DEF InDonePump, Serving
<1>2. tx_stage \in Seq(Nat) /\ Len(tx_stage) <= 1
      /\ tx_pipe_outstanding \in 0..1
      /\ (tx_pipe_outstanding > 0 => tx_stage = <<>>)
  BY <1>1 DEF IInv, TypeOK, PumpDataOK, PipeInv, StageNeverOverruns, PipelineCount
<1>3. StageAfter = <<>> /\ OutstandingAfter = 0
  BY <1>2 DEF StageAfter, OutstandingAfter
<1>4. /\ CreditAfter \in Nat
      /\ dir_on => CreditAfter = dir_pos
  <2>1. CASE tx_pipe_outstanding = 1
    BY <1>2, <2>1 DEF CreditAfter, IInv, TypeOK, ThreadDataOK, Credit,
                      WindowUnits, StagedDirect
  <2>2. CASE tx_pipe_outstanding = 0 /\ tx_stage = <<>>
    BY <2>2 DEF CreditAfter, IInv, TypeOK, ThreadDataOK, Credit, WindowUnits,
                StagedDirect
  <2>3. CASE tx_pipe_outstanding = 0 /\ tx_stage # <<>>
    <3>1. Head(tx_stage) \in Nat
      BY <1>2, <2>3, HeadTailProperties
    <3> QED BY <2>3, <3>1 DEF CreditAfter, IInv, TypeOK, ThreadDataOK, Credit,
                              WindowUnits, StagedDirect
  <2> QED BY <1>2, <2>1, <2>2, <2>3
<1>5. /\ PumpPost(dir_avail)'
      /\ ArmedPost'
      /\ tx_pipe_armed' => tx_tog_pred' = T_TOG
      /\ dir_pos' = dir_pos + WindowUnits(tx_pipe_outstanding') + StagedDirect'
  <2>1. PICK avail \in Nat : avail = dir_avail
    BY DEF IInv, TypeOK, ThreadDataOK
  <2>2. TxPump(avail, <<>>, 0)
    BY <1>1, <1>3, <2>1
  <2>3. dir_on' = dir_on /\ dir_avail' = avail
    BY <1>1, <2>1 DEF regionVars
  <2>4. PumpPost(avail)' /\ ArmedPost' /\ (tx_pipe_armed' => tx_tog_pred' = T_TOG)
        /\ dir_pos' = dir_pos + WindowUnits(tx_pipe_outstanding') + StagedDirect'
    BY <1>1, <2>1, <2>2, <2>3, PumpStep
       DEF IInv, TypeOK, ThreadDataOK, BusDataOK, PipeInv, ArmedIsAck, Credit
  <2> QED BY <2>3, <2>4 DEF PumpPost
<1>6. FlagsOK'
  BY <1>1, <1>5 DEF regionVars, hostVars, IInv, TypeOK, FlagsOK, ArmedPost
<1>7. ThreadDataOK' /\ BusDataOK' /\ RegionIsTheReads'
  BY <1>1, <1>4 DEF threadVars, regionVars, hostVars, IInv, TypeOK, ThreadDataOK,
              BusDataOK, RegionIsTheReads
<1>8. PumpDataOK' /\ RingBounded'
  BY <1>5 DEF PumpPost
<1>9. Credit'
  BY <1>1, <1>4, <1>5 DEF regionVars, Credit, PumpPost
<1>10. PipeInv'
  <2>1. ArmedIsAck' /\ PipelineCount'
    BY <1>1, <1>5 DEF ArmedIsAck, PipelineCount, ArmedPost
  <2>2. ShadowFollows' /\ RefillsTheFreedWindow' /\ StageNeverOverruns'
    BY <1>1, <1>5 DEF ShadowFollows, RefillsTheFreedWindow, StageNeverOverruns,
                      PumpPost
  <2> QED BY <2>1, <2>2 DEF PipeInv
<1> QED BY <1>6, <1>7, <1>8, <1>9, <1>10 DEF IInv, TypeOK

(* A completion credits what it completed and hands the bus back. *)
LEMMA InDoneReleaseInv == IInv /\ InDoneRelease => IInv'
<1> SUFFICES ASSUME IInv, InDoneRelease PROVE IInv'
  OBVIOUS
<1> USE UsbTxAssumption
<1>1. /\ isr = "idle" /\ isr' = "refill" /\ fg = "IN" /\ fg' = "NONE"
      /\ tx_pipe_armed /\ tx_pipe_armed' = tx_pipe_armed
      /\ tx_armed' = tx_armed /\ T_RES' = T_RES /\ T_TOG' = T_TOG
      /\ dir_pos' = dir_pos /\ dir_sent' = CreditAfter
      /\ tx_stage' = StageAfter /\ tx_pipe_outstanding' = OutstandingAfter
      /\ freed' = tx_tog_pred /\ tx_tog_pred' = OtherWindow(tx_tog_pred)
      /\ UNCHANGED <<threadVars, regionVars, tx_buf, tx_tail, tx_last_full, T_LEN,
                     win, irq_on, hostVars, made>>
  BY DEF InDoneRelease, Serving, ShadowAfter
<1>2. tx_pipe_outstanding = 2 /\ tx_stage = <<>>
  BY <1>1 DEF IInv, PipeInv, PipelineCount, StageNeverOverruns
<1>3. /\ tx_pipe_outstanding' = 1 /\ tx_stage' = <<>>
      /\ dir_sent' = dir_sent + Pkt
  BY <1>1, <1>2 DEF CreditAfter, StageAfter, OutstandingAfter
<1>4. freed' \in Window /\ tx_tog_pred' \in Window
  BY <1>1 DEF IInv, TypeOK, PumpDataOK, Window, OtherWindow
<1>5. FlagsOK'
  BY <1>1 DEF regionVars, hostVars, IInv, TypeOK, FlagsOK
<1>6. ThreadDataOK' /\ RegionIsTheReads'
  BY <1>1, <1>3 DEF threadVars, regionVars, IInv, TypeOK, ThreadDataOK,
                    RegionIsTheReads
<1>7. PumpDataOK' /\ RingBounded'
  BY <1>1, <1>3, <1>4 DEF IInv, TypeOK, PumpDataOK, RingBounded
<1>8. BusDataOK'
  BY <1>1, <1>4 DEF hostVars, IInv, TypeOK, BusDataOK
<1>9. Credit'
  BY <1>1, <1>2, <1>3 DEF regionVars, IInv, TypeOK, ThreadDataOK, Credit,
                          WindowUnits, StagedDirect
<1>10. ArmedIsAck' /\ PipelineCount'
  BY <1>1, <1>3 DEF IInv, PipeInv, ArmedIsAck, PipelineCount
<1>11. ShadowFollows' /\ RefillsTheFreedWindow' /\ StageNeverOverruns'
  BY <1>1, <1>3 DEF IInv, TypeOK, BusDataOK, Window, PipeInv, ShadowFollows,
                    RefillsTheFreedWindow, StageNeverOverruns, OtherWindow
<1> QED BY <1>5, <1>6, <1>7, <1>8, <1>9, <1>10, <1>11 DEF IInv, TypeOK, PipeInv

(* The window just freed is filled again. *)
LEMMA RefillWindowInv == IInv /\ RefillWindow => IInv'
<1> SUFFICES ASSUME IInv, RefillWindow PROVE IInv'
  OBVIOUS
<1> USE UsbTxAssumption
<1>1. /\ isr = "refill" /\ isr' = "idle"
      /\ DirectReady(dir_avail) >= Pkt
      /\ win' = [win EXCEPT ![freed] = RegionBytes(dir_pos, Pkt)]
      /\ dir_pos' = dir_pos + Pkt
      /\ tx_pipe_outstanding' = tx_pipe_outstanding + 1
      /\ UNCHANGED <<threadVars, regionVars, dir_sent, tx_buf, tx_tail, tx_armed,
                     tx_last_full, tx_pipe_armed, tx_tog_pred, tx_stage, T_RES,
                     T_LEN, T_TOG, fg, freed, irq_on, hostVars, made>>
  BY DEF RefillWindow
<1>2. tx_pipe_armed /\ tx_pipe_outstanding = 1 /\ tx_stage = <<>>
  BY <1>1 DEF IInv, PipeInv, PipelineCount, StageNeverOverruns
<1>3. dir_on /\ dir_avail - dir_pos >= Pkt
  BY <1>1 DEF DirectReady
<1>4. win' \in [Window -> [1..Pkt -> Nat]]
  <2>1. RegionBytes(dir_pos, Pkt) \in [1..Pkt -> Nat]
    BY RegionBytesType DEF IInv, TypeOK, PumpDataOK, ThreadDataOK
  <2> QED BY <1>1, <2>1 DEF IInv, TypeOK, PumpDataOK
<1>5. FlagsOK'
  BY <1>1 DEF regionVars, hostVars, IInv, TypeOK, FlagsOK
<1>6. ThreadDataOK' /\ BusDataOK' /\ RegionIsTheReads'
  BY <1>1 DEF threadVars, regionVars, hostVars, IInv, TypeOK, ThreadDataOK,
              BusDataOK, RegionIsTheReads
<1>7. PumpDataOK' /\ RingBounded'
  BY <1>1, <1>4 DEF IInv, TypeOK, PumpDataOK, RingBounded
<1>8. Credit'
  <2>1. {dir_pos, dir_sent, dir_avail} \subseteq Nat
    BY DEF IInv, TypeOK, ThreadDataOK, PumpDataOK
  <2>2. dir_pos = dir_sent + Pkt
    BY <1>2, <1>3, <2>1 DEF IInv, Credit, WindowUnits, StagedDirect
  <2>3. /\ dir_pos' = dir_pos + Pkt /\ dir_sent' = dir_sent
        /\ dir_avail' = dir_avail
        /\ tx_pipe_outstanding' = 2 /\ tx_stage' = <<>>
    BY <1>1, <1>2 DEF regionVars
  <2>4. dir_pos' <= dir_avail'
    BY <1>3, <2>1, <2>3
  <2> QED BY <2>1, <2>2, <2>3, <2>4 DEF Credit, WindowUnits, StagedDirect
<1>9. ArmedIsAck' /\ PipelineCount'
  BY <1>1, <1>2 DEF IInv, PipeInv, ArmedIsAck, PipelineCount
<1>10. ShadowFollows' /\ RefillsTheFreedWindow' /\ StageNeverOverruns'
  BY <1>1, <1>2 DEF IInv, PipeInv, ShadowFollows, RefillsTheFreedWindow,
                    StageNeverOverruns
<1> QED BY <1>5, <1>6, <1>7, <1>8, <1>9, <1>10 DEF IInv, TypeOK, PipeInv

(* With less than a packet left, the pipeline is wound down. *)
LEMMA WindDownInv == IInv /\ WindDown => IInv'
<1> SUFFICES ASSUME IInv, WindDown PROVE IInv'
  OBVIOUS
<1>1. /\ isr = "refill" /\ isr' = "idle" /\ tx_pipe_armed' = FALSE
      /\ UNCHANGED <<threadVars, regionVars, dir_sent, dir_pos, tx_buf, tx_tail,
                     tx_armed, tx_last_full, tx_pipe_outstanding, tx_tog_pred,
                     tx_stage, T_RES, T_LEN, win, T_TOG, fg, freed, irq_on,
                     hostVars, made>>
  BY DEF WindDown
<1>2. FlagsOK'
  BY <1>1 DEF regionVars, hostVars, IInv, TypeOK, FlagsOK
<1>3. ThreadDataOK' /\ BusDataOK' /\ RegionIsTheReads'
  BY <1>1 DEF threadVars, regionVars, hostVars, IInv, TypeOK, ThreadDataOK,
              BusDataOK, RegionIsTheReads
<1>4. PumpDataOK' /\ RingBounded' /\ Credit'
  BY <1>1 DEF regionVars, IInv, TypeOK, PumpDataOK, RingBounded, Credit,
              StagedDirect
<1>5. ArmedIsAck' /\ PipelineCount'
  BY <1>1 DEF IInv, PipeInv, ArmedIsAck, PipelineCount
<1>6. ShadowFollows' /\ RefillsTheFreedWindow' /\ StageNeverOverruns'
  BY <1>1 DEF IInv, PipeInv, ShadowFollows, RefillsTheFreedWindow,
              StageNeverOverruns
<1> QED BY <1>2, <1>3, <1>4, <1>5, <1>6 DEF IInv, TypeOK, PipeInv

(* The SIE begins and completes IN transactions on its own. *)
LEMMA SieInInv == IInv /\ SieIn => IInv'
<1> SUFFICES ASSUME IInv, SieIn PROVE IInv'
  OBVIOUS
<1> USE UsbTxAssumption
<1>1. /\ fg = "NONE" /\ fg' = "IN" /\ T_RES = "ACK"
      /\ host' = host \o SubSeq(win[T_TOG], 1, T_LEN)
      /\ host_open' = (T_LEN = Pkt)
      /\ T_TOG' = OtherWindow(T_TOG)
      /\ UNCHANGED <<threadVars, regionVars, dir_sent, pumpVars, isr, freed,
                     irq_on, reading, made>>
  BY DEF SieIn
<1>2. host' \in Seq(Nat)
  <2>1. \A i \in 1..T_LEN : win[T_TOG][i] \in Nat
    BY DEF IInv, TypeOK, PumpDataOK, BusDataOK, Units
  <2>2. SubSeq(win[T_TOG], 1, T_LEN) \in Seq(Nat)
    BY <2>1, SubSeqProperties DEF IInv, TypeOK, PumpDataOK, Units
  <2>3. host \in Seq(Nat)
    BY DEF IInv, TypeOK, BusDataOK
  <2> QED BY <1>1, <2>2, <2>3, ConcatProperties
<1>3. T_TOG' \in Window
  BY <1>1 DEF IInv, TypeOK, BusDataOK, Window, OtherWindow
<1>4. FlagsOK'
  BY <1>1 DEF regionVars, pumpVars, IInv, TypeOK, FlagsOK
<1>5. ThreadDataOK' /\ RegionIsTheReads'
  BY <1>1 DEF threadVars, regionVars, IInv, TypeOK, ThreadDataOK, RegionIsTheReads
<1>6. BusDataOK'
  BY <1>1, <1>2, <1>3 DEF IInv, TypeOK, BusDataOK
<1>7. PumpDataOK' /\ RingBounded' /\ Credit'
  BY <1>1 DEF pumpVars, regionVars, IInv, TypeOK, PumpDataOK, RingBounded, Credit,
              StagedDirect
<1>8. ArmedIsAck' /\ PipelineCount'
  BY <1>1 DEF pumpVars, IInv, PipeInv, ArmedIsAck, PipelineCount
<1>9. ShadowFollows' /\ RefillsTheFreedWindow' /\ StageNeverOverruns'
  <2>1. OtherWindow(T_TOG') = T_TOG
    BY <1>1 DEF IInv, TypeOK, BusDataOK, Window, OtherWindow
  <2>2. tx_pipe_armed => tx_tog_pred = T_TOG
    BY <1>1 DEF IInv, PipeInv, ShadowFollows
  <2>3. isr = "refill" => freed = T_TOG'
    BY <1>1 DEF IInv, PipeInv, RefillsTheFreedWindow
  <2>4. fg' = "IN" /\ isr' = isr /\ freed' = freed /\ tx_pipe_armed' = tx_pipe_armed
        /\ tx_tog_pred' = tx_tog_pred /\ tx_stage' = tx_stage
        /\ tx_pipe_outstanding' = tx_pipe_outstanding
    BY <1>1 DEF pumpVars
  <2> QED BY <2>1, <2>2, <2>3, <2>4
          DEF IInv, PipeInv, ShadowFollows, RefillsTheFreedWindow,
              StageNeverOverruns
<1> QED BY <1>4, <1>5, <1>6, <1>7, <1>8, <1>9 DEF IInv, TypeOK, PipeInv

(* Nothing happens. *)
LEMMA StutterInv == IInv /\ UNCHANGED vars => IInv'
<1> SUFFICES ASSUME IInv, UNCHANGED vars PROVE IInv'
  OBVIOUS
<1> USE DEF vars, threadVars, regionVars, isrVars, hostVars
<1>1. FlagsOK'
  BY DEF pumpVars, IInv, TypeOK, FlagsOK
<1>2. ThreadDataOK' /\ BusDataOK' /\ RegionIsTheReads'
  BY DEF IInv, TypeOK, ThreadDataOK, BusDataOK, RegionIsTheReads
<1>3. PumpDataOK' /\ RingBounded' /\ Credit' /\ PipeInv'
  BY QuietStep
<1> QED BY <1>1, <1>2, <1>3 DEF IInv, TypeOK

(* Every step of the thread, the handler, the SIE and the host preserves    *)
(* the inductive invariant.                                                 *)
LEMMA NextIInv == IInv /\ [Next]_vars => IInv'
BY BeginRegionInv, PublishInv, EndInv, FlushInv, QuietInv, QueueChunkInv,
   QueueKickInv, PumpsOnlyInv, InDonePumpInv, InDoneReleaseInv,
   RefillWindowInv, WindDownInv, SieInInv, StutterInv
   DEF Next, Thread, Handler, Environment

(* The invariant holds throughout. *)
LEMMA Invariance == Spec => []IInv
BY InitIInv, NextIInv, PTL DEF Spec

(* Every variable of the transmit path keeps its type.                      *)
THEOREM TypeCorrect == Spec => []TypeOK
<1>1. IInv => TypeOK
  BY DEF IInv
<1> QED BY <1>1, Invariance, PTL

(* The count the drain loops wait on is exact for every packet size and     *)
(* every publish grain, multiples of a packet or not: with what is still    *)
(* in flight it accounts for every byte copied out of the region, and no    *)
(* unpublished byte was ever copied.                                        *)
THEOREM CreditIsExact == Spec => []CreditExact
<1>1. IInv => CreditExact
  <2> SUFFICES ASSUME IInv PROVE CreditExact
    OBVIOUS
  <2>1. tx_pipe_outstanding \in 0..2
    BY DEF IInv, TypeOK, PumpDataOK, PipeInv, StageNeverOverruns
  <2>2. Pkt * tx_pipe_outstanding = WindowUnits(tx_pipe_outstanding)
    BY <2>1, WindowUnitsIsProduct
  <2> QED BY <2>2 DEF IInv, RegionIsTheReads, Credit, CreditExact
<1> QED BY <1>1, Invariance, PTL

(* The refill after an early release never writes the window in flight.     *)
THEOREM RefillIsSafe == Spec => []RefillsTheFreedWindow
<1>1. IInv => RefillsTheFreedWindow
  BY DEF IInv, PipeInv
<1> QED BY <1>1, Invariance, PTL

(* At most two pipelined windows, or one staged packet, are in flight.      *)
THEOREM StageIsBounded == Spec => []StageNeverOverruns
<1>1. IInv => StageNeverOverruns
  BY DEF IInv, PipeInv
<1> QED BY <1>1, Invariance, PTL

-----------------------------------------------------------------------------
(* The end of a transfer, as the host sees it.                              *)

(* tx_last_full is about the packet in the window, and so is what the host  *)
(* has seen of the transfer once it has taken that packet.                  *)
LastFullIsTrue ==
  /\ tx_armed => (tx_last_full <=> T_LEN = Pkt)
  /\ fg = "IN" => (host_open <=> T_LEN = Pkt)
  /\ ParkedMeansTerminated

(* tx_pump() arms a packet and notes whether it is full, parks after a      *)
(* packet that was not, or leaves everything as it is.                      *)
LEMMA PumpNotesFull ==
  ASSUME NEW avail, NEW stage, NEW out, TxPump(avail, stage, out)
  PROVE  \/ tx_armed' /\ (tx_last_full' <=> T_LEN' = Pkt)
         \/ ~tx_armed' /\ ~tx_last_full
         \/ UNCHANGED <<tx_armed, tx_last_full, T_LEN>>
<1>1. CASE PumpHold(avail, stage, out)
  BY <1>1 DEF PumpHold
<1>2. CASE PumpPrime(avail, stage, out)
  BY <1>2 DEF PumpPrime
<1>3. CASE PumpDirect(avail, stage, out)
  BY <1>3 DEF PumpDirect, FullPacket
<1>4. CASE PumpRing(avail, stage, out)
  BY <1>4 DEF PumpRing, FullPacket
<1>5. CASE PumpZlp(avail, stage, out)
  <2>1. 0 # Pkt BY UsbTxAssumption
  <2> QED BY <1>5, <2>1 DEF PumpZlp
<1>6. CASE PumpPark(avail, stage, out)
  BY <1>6 DEF PumpPark
<1> QED BY <1>1, <1>2, <1>3, <1>4, <1>5, <1>6 DEF TxPump

(* A kick outside the completion finds the endpoint parked. *)
LEMMA KickNotesFull ==
  ASSUME IInv, LastFullIsTrue, NEW wanted, NEW avail, KickIf(wanted, avail),
         UNCHANGED host_open, fg' = fg \/ fg' = "NONE"
  PROVE  LastFullIsTrue'
<1>1. CASE ~tx_armed /\ TxPump(avail, tx_stage, tx_pipe_outstanding)
  <2>1. ~host_open /\ fg' # "IN"
    BY <1>1 DEF LastFullIsTrue, ParkedMeansTerminated, IInv, PipeInv, ArmedIsAck
  <2>2. tx_armed' => (tx_last_full' <=> T_LEN' = Pkt)
    BY <1>1, PumpNotesFull
  <2> QED BY <2>1, <2>2 DEF LastFullIsTrue, ParkedMeansTerminated
<1>2. CASE UNCHANGED pumpVars
  BY <1>2 DEF pumpVars, LastFullIsTrue, ParkedMeansTerminated
<1> QED BY <1>1, <1>2 DEF KickIf

LEMMA NextNotesFull ==
  IInv /\ LastFullIsTrue /\ [Next]_vars => LastFullIsTrue'
<1> SUFFICES ASSUME IInv, LastFullIsTrue, [Next]_vars PROVE LastFullIsTrue'
  OBVIOUS
<1>1. CASE Publish \/ Republish
  <2>1. \E w, a : KickIf(w, a)
    BY <1>1 DEF Publish, Republish, PublishUpTo
  <2> QED BY <1>1, <2>1, KickNotesFull
          DEF Publish, Republish, PublishUpTo, isrVars, hostVars
<1>2. CASE QueueKick
  BY <1>2, KickNotesFull DEF QueueKick, isrVars, hostVars
<1>3. CASE OtherDone \/ IdlePoll
  BY <1>3, KickNotesFull DEF OtherDone, IdlePoll, PumpsOnly, hostVars
<1>4. CASE InDonePump
  <2>1. /\ fg = "IN" /\ fg' = "NONE" /\ host_open' = host_open
        /\ TxPump(dir_avail, StageAfter, OutstandingAfter)
    BY <1>4 DEF InDonePump, Serving, hostVars
  <2>2. tx_armed
    BY <2>1 DEF IInv, PipeInv, ArmedIsAck
  <2>3. (tx_last_full <=> T_LEN = Pkt) /\ (host_open <=> T_LEN = Pkt)
    BY <2>1, <2>2 DEF LastFullIsTrue
  <2>4. \/ tx_armed' /\ (tx_last_full' <=> T_LEN' = Pkt)
        \/ ~tx_armed' /\ ~tx_last_full
        \/ UNCHANGED <<tx_armed, tx_last_full, T_LEN>>
    BY <2>1, PumpNotesFull
  <2>5. tx_armed' => (tx_last_full' <=> T_LEN' = Pkt)
    BY <2>3, <2>4
  <2>6. ~tx_armed' => ~host_open'
    BY <2>1, <2>2, <2>3, <2>4
  <2>7. fg' # "IN"
    BY <2>1
  <2> QED BY <2>5, <2>6, <2>7 DEF LastFullIsTrue, ParkedMeansTerminated
<1>5. CASE SessionFlush \/ BusReset
  BY <1>5 DEF SessionFlush, BusReset, FlushTx, LastFullIsTrue,
              ParkedMeansTerminated
<1>6. CASE SieIn
  <2>1. /\ tx_armed /\ tx_armed' = tx_armed /\ tx_last_full' = tx_last_full
        /\ T_LEN' = T_LEN /\ host_open' = (T_LEN = Pkt)
    BY <1>6 DEF SieIn, pumpVars, IInv, PipeInv, ArmedIsAck
  <2> QED BY <2>1 DEF LastFullIsTrue, ParkedMeansTerminated
<1>7. CASE SieOther
  BY <1>7 DEF SieOther, pumpVars, hostVars, LastFullIsTrue,
              ParkedMeansTerminated
<1>8. CASE InDoneRelease
  BY <1>8 DEF InDoneRelease, hostVars, LastFullIsTrue, ParkedMeansTerminated
<1>9. CASE RefillWindow \/ WindDown
  BY <1>9 DEF RefillWindow, WindDown, hostVars, LastFullIsTrue,
              ParkedMeansTerminated
<1>10. CASE \/ BeginRegion \/ EndRegion \/ StallEnd \/ BeginReply
            \/ QueueChunk \/ AbandonReply \/ HostToggles \/ UNCHANGED vars
  <2>1. UNCHANGED <<tx_armed, tx_last_full, T_LEN, fg, host_open>>
    BY <1>10 DEF BeginRegion, EndRegion, StallEnd, WithdrawRegion, BeginReply,
                 QueueChunk, AbandonReply, HostToggles, vars, pumpVars,
                 isrVars, hostVars
  <2> QED BY <2>1 DEF LastFullIsTrue, ParkedMeansTerminated
<1> QED BY <1>1, <1>2, <1>3, <1>4, <1>5, <1>6, <1>7, <1>8, <1>9, <1>10
        DEF Next, Thread, Handler, Environment

(* The endpoint never parks behind a full packet: whatever the transfer     *)
(* sizes, publishes, stalls and session flushes, tx_pump() has sent the     *)
(* short or zero-length packet that lets the host's read return.            *)
THEOREM ParkedIsTerminated == Spec => []ParkedMeansTerminated
<1>1. Init => LastFullIsTrue
  BY DEF Init, LastFullIsTrue, ParkedMeansTerminated
<1>2. Spec => []LastFullIsTrue
  BY <1>1, Invariance, NextNotesFull, PTL DEF Spec
<1>3. LastFullIsTrue => ParkedMeansTerminated
  BY DEF LastFullIsTrue
<1> QED BY <1>2, <1>3, PTL

-----------------------------------------------------------------------------
(* What is owed, as the bytes stand in windows, ring and region.            *)

(* A read's bytes are numbered as they are produced; and a pipelined window *)
(* holds a full packet of the region, with no ring byte queued behind it.   *)
RegionIsNumbered == dir_on => made = dir_tok + dir_avail

PipelineIsTheRegions ==
  tx_pipe_outstanding > 0 => dir_on /\ RingEmpty /\ T_LEN = Pkt

StreamInv == IInv /\ RegionIsNumbered /\ PipelineIsTheRegions

(* Only the prime leaves pipelined windows behind. *)
LEMMA PumpPrimesTheRegion ==
  ASSUME NEW avail \in Nat, PumpDataOK, TxPump(avail, <<>>, 0), dir_on' = dir_on
  PROVE  PipelineIsTheRegions'
<1>1. CASE PumpPrime(avail, <<>>, 0)
  <2>1. dir_on
    BY <1>1, UsbTxAssumption DEF PumpPrime, CanPrime, DirectReady
  <2> QED BY <1>1, <2>1
          DEF PumpPrime, PipelineIsTheRegions, RingEmpty, tx_head
<1>2. CASE ~PumpPrime(avail, <<>>, 0)
  <2>1. tx_pipe_outstanding' = 0
    BY <1>2 DEF TxPump, PumpHold, PumpDirect, PumpRing, PumpZlp, PumpPark
  <2> QED BY <2>1 DEF PipelineIsTheRegions
<1> QED BY <1>1, <1>2

(* What a completion on the single-packet path finds and leaves. *)
LEMMA InDoneIs ==
  ASSUME IInv, InDonePump
  PROVE  /\ isr = "idle" /\ fg = "IN" /\ fg' = "NONE" /\ ~tx_pipe_armed
         /\ tx_armed /\ tx_pipe_outstanding <= 1
         /\ TxPump(dir_avail, <<>>, 0)
         /\ dir_sent' = CreditAfter
         /\ UNCHANGED <<threadVars, regionVars, T_TOG, isr, hostVars, made>>
<1>1. /\ isr = "idle" /\ fg = "IN" /\ fg' = "NONE" /\ ~tx_pipe_armed
      /\ dir_sent' = CreditAfter
      /\ TxPump(dir_avail, StageAfter, OutstandingAfter)
      /\ UNCHANGED <<threadVars, regionVars, T_TOG, isr, hostVars, made>>
  BY DEF InDonePump, Serving
<1>2. tx_stage \in Seq(Nat) /\ Len(tx_stage) <= 1
      /\ tx_pipe_outstanding \in 0..1
      /\ (tx_pipe_outstanding > 0 => tx_stage = <<>>)
  BY <1>1 DEF IInv, TypeOK, PumpDataOK, PipeInv, StageNeverOverruns, PipelineCount
<1>3. StageAfter = <<>> /\ OutstandingAfter = 0
  BY <1>2 DEF StageAfter, OutstandingAfter
<1>4. tx_armed
  BY <1>1 DEF IInv, PipeInv, ArmedIsAck
<1> QED BY <1>1, <1>2, <1>3, <1>4

LEMMA KickPrimesTheRegion ==
  ASSUME StreamInv, NEW wanted, NEW avail \in Nat, KickIf(wanted, avail),
         dir_on' = dir_on
  PROVE  PipelineIsTheRegions'
<1>1. CASE ~tx_armed /\ TxPump(avail, tx_stage, tx_pipe_outstanding)
  <2>1. tx_stage = <<>> /\ tx_pipe_outstanding = 0
    BY <1>1 DEF StreamInv, IInv, PipeInv, ArmedIsAck
  <2> QED BY <1>1, <2>1, PumpPrimesTheRegion DEF StreamInv, IInv, TypeOK
<1>2. CASE UNCHANGED pumpVars
  BY <1>2 DEF pumpVars, StreamInv, PipelineIsTheRegions, RingEmpty, tx_head
<1> QED BY <1>1, <1>2 DEF KickIf

LEMMA InitStream == Init => StreamInv
BY InitIInv DEF Init, StreamInv, RegionIsNumbered, PipelineIsTheRegions

LEMMA NextStream == StreamInv /\ [Next]_vars => StreamInv'
<1> SUFFICES ASSUME StreamInv, [Next]_vars
             PROVE  RegionIsNumbered' /\ PipelineIsTheRegions'
  BY NextIInv DEF StreamInv
<1> USE DEF StreamInv
<1>0. /\ dir_avail \in Nat /\ off \in Nat /\ len \in Nat /\ grain \in Nat
      /\ made \in Nat /\ dir_tok \in Nat /\ tx_pipe_outstanding \in Nat
  BY DEF IInv, TypeOK, ThreadDataOK, PumpDataOK
<1>1. CASE Publish \/ Republish
  <2>1. \E a \in Nat : PublishUpTo(a)
    <3>1. CASE Publish
      <4>1. MinOf(off + grain, len) \in Nat BY <1>0 DEF MinOf
      <4> QED BY <3>1, <4>1 DEF Publish
    <3>2. CASE Republish
      BY <3>2, <1>0 DEF Republish
    <3> QED BY <1>1, <3>1, <3>2
  <2>2. PICK a \in Nat : PublishUpTo(a) BY <2>1
  <2>3. RegionIsNumbered' BY <2>2 DEF PublishUpTo, RegionIsNumbered
  <2>4. KickIf(DirectReady(a) # 0, a) /\ dir_on' = dir_on
    BY <2>2 DEF PublishUpTo
  <2>5. PipelineIsTheRegions' BY <2>4, KickPrimesTheRegion
  <2> QED BY <2>3, <2>5
<1>2. CASE QueueKick \/ OtherDone \/ IdlePoll
  <2>1. /\ \E w : KickIf(w, dir_avail)
        /\ UNCHANGED <<dir_on, dir_tok, dir_avail, made>>
    BY <1>2 DEF QueueKick, OtherDone, IdlePoll, PumpsOnly, regionVars
  <2>2. PipelineIsTheRegions' BY <1>0, <2>1, KickPrimesTheRegion
  <2> QED BY <2>1, <2>2 DEF RegionIsNumbered
<1>3. CASE InDonePump
  <2>1. /\ TxPump(dir_avail, <<>>, 0)
        /\ UNCHANGED <<dir_on, dir_tok, dir_avail, made>>
    BY <1>3, InDoneIs DEF regionVars
  <2>2. PipelineIsTheRegions'
    BY <1>0, <2>1, PumpPrimesTheRegion DEF IInv, TypeOK
  <2> QED BY <2>1, <2>2 DEF RegionIsNumbered
<1>4. CASE EndRegion \/ StallEnd \/ SessionFlush \/ BusReset
  <2>1. ~dir_on' /\ tx_pipe_outstanding' = 0
    BY <1>4 DEF EndRegion, StallEnd, SessionFlush, BusReset, FlushTx,
                WithdrawRegion, ForgetPipeline
  <2> QED BY <2>1 DEF RegionIsNumbered, PipelineIsTheRegions
<1>5. CASE BeginRegion
  <2>1. dir_tok' = made /\ made' = made /\ dir_avail' = 0
          /\ tx_pipe_outstanding' = 0
    BY <1>5 DEF BeginRegion, ForgetPipeline
  <2> QED BY <1>0, <2>1 DEF RegionIsNumbered, PipelineIsTheRegions
<1>6. CASE QueueChunk
  <2>1. ~dir_on /\ ~dir_on' /\ tx_pipe_outstanding' = tx_pipe_outstanding
    BY <1>6 DEF QueueChunk, IInv, RegionIsTheReads, regionVars
  <2> QED BY <2>1 DEF RegionIsNumbered, PipelineIsTheRegions
<1>7. CASE InDoneRelease
  <2>1. /\ tx_pipe_armed
        /\ UNCHANGED <<regionVars, tx_buf, tx_tail, T_LEN, made>>
    BY <1>7 DEF InDoneRelease
  <2>2. tx_pipe_outstanding > 0
    BY <2>1 DEF IInv, PipeInv, PipelineCount
  <2> QED BY <2>1, <2>2 DEF regionVars, RegionIsNumbered,
             PipelineIsTheRegions, RingEmpty, tx_head
<1>8. CASE RefillWindow
  <2>1. /\ isr = "refill"
        /\ UNCHANGED <<regionVars, tx_buf, tx_tail, T_LEN, made>>
    BY <1>8 DEF RefillWindow
  <2>2. tx_pipe_outstanding > 0
    BY <2>1 DEF IInv, PipeInv, PipelineCount
  <2> QED BY <2>1, <2>2 DEF regionVars, RegionIsNumbered,
             PipelineIsTheRegions, RingEmpty, tx_head
<1>9. CASE \/ BeginReply \/ AbandonReply \/ WindDown \/ SieIn \/ SieOther
           \/ HostToggles \/ UNCHANGED vars
  <2>1. UNCHANGED <<dir_on, dir_tok, dir_avail, made, tx_pipe_outstanding,
                    tx_buf, tx_tail, T_LEN>>
    BY <1>9 DEF BeginReply, AbandonReply, WindDown, SieIn, SieOther,
                HostToggles, vars, regionVars, pumpVars
  <2> QED BY <2>1 DEF RegionIsNumbered, PipelineIsTheRegions, RingEmpty, tx_head
<1> QED BY <1>1, <1>2, <1>3, <1>4, <1>5, <1>6, <1>7, <1>8, <1>9
        DEF Next, Thread, Handler, Environment

LEMMA StreamInvariance == Spec => []StreamInv
BY InitStream, NextStream, PTL DEF Spec

(* The packets the SIE takes next and after it, the ring, and what is       *)
(* published of the region.                                                 *)
FirstPacket == SubSeq(win[T_TOG], 1, T_LEN)
SecondPacket == SubSeq(win[OtherWindow(T_TOG)], 1, T_LEN)
Queued == SubSeq(tx_buf, tx_tail + 1, tx_head)
Published(avail) == RegionBytes(dir_pos, DirectReady(avail))
Unpumped == Queued \o Published(dir_avail)

OwedSplit ==
  /\ FirstPacket \in Seq(Nat) /\ Len(FirstPacket) = T_LEN
  /\ SecondPacket \in Seq(Nat) /\ Len(SecondPacket) = T_LEN
  /\ Queued \in Seq(Nat) /\ Len(Queued) = Len(tx_buf) - tx_tail
  /\ Published(dir_avail) \in Seq(Nat)
  /\ Unpumped \in Seq(Nat)
  /\ Unsent \in {0, 1, 2}
  /\ Unsent = 0 => Owed = Unpumped
  /\ Unsent = 1 => Owed = FirstPacket \o Unpumped
  /\ Unsent = 2 => Owed = FirstPacket \o (SecondPacket \o Unpumped)

LEMMA JoinAssociates ==
  ASSUME NEW s \in Seq(Nat), NEW t \in Seq(Nat), NEW u \in Seq(Nat)
  PROVE  (s \o t) \o u = s \o (t \o u)
BY ConcatAssociative

LEMMA PacketIs ==
  ASSUME NEW w \in [1..Pkt -> Nat], NEW n \in 0..Pkt
  PROVE  /\ SubSeq(w, 1, n) \in Seq(Nat) /\ Len(SubSeq(w, 1, n)) = n
         /\ \A i \in 1..n : SubSeq(w, 1, n)[i] = w[i]
<1>1. n \in Nat /\ Pkt \in Nat /\ n <= Pkt
  BY UsbTxAssumption
<1>2. \A i \in 1..n : w[i] \in Nat
  BY <1>1
<1> QED BY <1>1, <1>2, SubSeqProperties

LEMMA RegionBytesAre ==
  ASSUME dir_tok \in Nat, NEW from \in Nat, NEW n \in Nat
  PROVE  /\ RegionBytes(from, n) \in Seq(Nat) /\ Len(RegionBytes(from, n)) = n
         /\ \A i \in 1..n : RegionBytes(from, n)[i] = dir_tok + from + i
<1>1. RegionBytes(from, n) = [i \in 1..n |-> dir_tok + from + i]
  BY DEF RegionBytes
<1>2. \A i \in 1..n : dir_tok + from + i \in Nat OBVIOUS
<1> QED BY <1>1, <1>2

LEMMA RegionSplit ==
  ASSUME dir_tok \in Nat, NEW from \in Nat, NEW a \in Nat, NEW b \in Nat
  PROVE  RegionBytes(from, a + b)
           = RegionBytes(from, a) \o RegionBytes(from + a, b)
<1> DEFINE t == dir_tok
           x == RegionBytes(from, a)
           y == RegionBytes(from + a, b)
           z == RegionBytes(from, a + b)
<1>1. /\ x \in Seq(Nat) /\ Len(x) = a /\ \A i \in 1..a : x[i] = t + from + i
      /\ z \in Seq(Nat) /\ Len(z) = a + b
      /\ \A i \in 1..(a + b) : z[i] = t + from + i
  <2>1. a + b \in Nat OBVIOUS
  <2> QED BY <2>1, RegionBytesAre
<1>2. /\ y \in Seq(Nat) /\ Len(y) = b
      /\ \A i \in 1..b : y[i] = t + (from + a) + i
  <2>1. from + a \in Nat OBVIOUS
  <2> QED BY <2>1, RegionBytesAre
<1>t. t \in Nat OBVIOUS
<1> HIDE DEF t, x, y, z
<1>3. /\ x \o y \in Seq(Nat) /\ Len(x \o y) = a + b
      /\ \A i \in 1..(a + b) : (x \o y)[i] = IF i <= a THEN x[i] ELSE y[i - a]
  BY <1>1, <1>2, ConcatProperties
<1>4. ASSUME NEW i \in 1..(a + b) PROVE z[i] = (x \o y)[i]
  <2>1. CASE i <= a
    BY <2>1, <1>1, <1>3
  <2>2. CASE i > a
    <3>1. i - a \in 1..b BY <2>2
    <3>2. y[i - a] = t + (from + a) + (i - a) BY <3>1, <1>2
    <3>3. t + (from + a) + (i - a) = t + from + i BY <1>t
    <3>4. (x \o y)[i] = y[i - a] BY <2>2, <1>3
    <3>5. z[i] = t + from + i BY <1>1
    <3> QED BY <3>2, <3>3, <3>4, <3>5
  <2>3. i <= a \/ i > a OBVIOUS
  <2> QED BY <2>1, <2>2, <2>3, Zenon
<1>5. z = x \o y BY <1>1, <1>3, <1>4, SeqEqual
<1> QED BY <1>5 DEF x, y, z

LEMMA OwedSplits == IInv => OwedSplit
<1> SUFFICES ASSUME IInv PROVE OwedSplit
  OBVIOUS
<1>1. /\ T_TOG \in {0, 1} /\ OtherWindow(T_TOG) \in {0, 1}
      /\ win \in [{0, 1} -> [1..Pkt -> Nat]] /\ T_LEN \in 0..Pkt
      /\ tx_buf \in Seq(Nat) /\ tx_tail \in Nat /\ tx_tail <= Len(tx_buf)
      /\ dir_tok \in Nat /\ dir_pos \in Nat /\ dir_avail \in Nat
      /\ tx_pipe_outstanding \in 0..2
  <2>1. T_TOG \in {0, 1} /\ OtherWindow(T_TOG) \in {0, 1}
    BY DEF IInv, TypeOK, BusDataOK, Window, OtherWindow
  <2>2. /\ win \in [{0, 1} -> [1..Pkt -> Nat]] /\ T_LEN \in 0..Pkt
        /\ tx_buf \in Seq(Nat) /\ tx_tail \in Nat /\ dir_pos \in Nat
        /\ tx_pipe_outstanding \in Nat
    BY DEF IInv, TypeOK, PumpDataOK, Window, Units
  <2>3. tx_tail <= Len(tx_buf) /\ tx_pipe_outstanding <= 2
    BY DEF IInv, RingBounded, PipeInv, StageNeverOverruns
  <2>4. dir_tok \in Nat /\ dir_avail \in Nat
    BY DEF IInv, TypeOK, ThreadDataOK
  <2> QED BY <2>1, <2>2, <2>3, <2>4
<1>2. /\ FirstPacket \in Seq(Nat) /\ Len(FirstPacket) = T_LEN
      /\ SecondPacket \in Seq(Nat) /\ Len(SecondPacket) = T_LEN
  <2>1. win[T_TOG] \in [1..Pkt -> Nat] /\ win[OtherWindow(T_TOG)] \in [1..Pkt -> Nat]
    BY <1>1
  <2> QED BY <1>1, <2>1, PacketIs DEF FirstPacket, SecondPacket
<1>3. Queued \in Seq(Nat) /\ Len(Queued) = Len(tx_buf) - tx_tail
  <2>1. Len(tx_buf) \in Nat /\ \A i \in 1..Len(tx_buf) : tx_buf[i] \in Nat
    BY <1>1, LenProperties, ElementOfSeq
  <2>2. \A i \in tx_tail + 1 .. Len(tx_buf) : tx_buf[i] \in Nat
    BY <1>1, <2>1
  <2>3. /\ SubSeq(tx_buf, tx_tail + 1, Len(tx_buf)) \in Seq(Nat)
        /\ Len(SubSeq(tx_buf, tx_tail + 1, Len(tx_buf)))
             = IF tx_tail + 1 <= Len(tx_buf)
                 THEN Len(tx_buf) - (tx_tail + 1) + 1 ELSE 0
    BY <1>1, <2>1, <2>2, SubSeqProperties
  <2> QED BY <1>1, <2>1, <2>3 DEF Queued, tx_head
<1>4. Published(dir_avail) \in Seq(Nat)
  <2>1. DirectReady(dir_avail) \in Nat
    BY <1>1 DEF DirectReady, IInv, Credit
  <2> QED BY <1>1, <2>1, RegionBytesAre DEF Published
<1>5. Unpumped \in Seq(Nat)
  BY <1>3, <1>4, ConcatProperties DEF Unpumped
<1>6. Unsent \in {0, 1, 2}
  <2>1. tx_armed \in BOOLEAN /\ (fg = "IN" => tx_armed)
    BY DEF IInv, TypeOK, FlagsOK, PipeInv, ArmedIsAck
  <2> QED BY <1>1, <2>1 DEF Unsent
<1>7. Owed = (InFlight \o Queued) \o Published(dir_avail)
  BY DEF Owed, Queued, Published
<1>8. InFlight \in Seq(Nat) => Owed = InFlight \o Unpumped
  <2> SUFFICES ASSUME InFlight \in Seq(Nat) PROVE Owed = InFlight \o Unpumped
    OBVIOUS
  <2>1. (InFlight \o Queued) \o Published(dir_avail)
          = InFlight \o (Queued \o Published(dir_avail))
    BY <1>3, <1>4, JoinAssociates
  <2> QED BY <1>7, <2>1 DEF Unpumped
<1>9. CASE Unsent = 0
  <2>1. InFlight = <<>> \o <<>> BY <1>9 DEF InFlight
  <2>2. InFlight = <<>> BY <2>1
  <2>3. InFlight \in Seq(Nat) BY <2>2
  <2>4. <<>> \o Unpumped = Unpumped BY <1>5, ConcatEmptySeq
  <2> QED BY <1>2, <1>3, <1>4, <1>5, <1>8, <1>9, <2>2, <2>3, <2>4 DEF OwedSplit
<1>10. CASE Unsent = 1
  <2>1. InFlight = FirstPacket \o <<>> BY <1>10 DEF InFlight, FirstPacket
  <2>2. InFlight = FirstPacket BY <1>2, <2>1, ConcatEmptySeq
  <2> QED BY <1>2, <1>3, <1>4, <1>5, <1>8, <1>10, <2>2 DEF OwedSplit
<1>11. CASE Unsent = 2
  <2>1. InFlight = FirstPacket \o SecondPacket
    BY <1>11 DEF InFlight, FirstPacket, SecondPacket
  <2>2. InFlight \in Seq(Nat) BY <1>2, <2>1, ConcatProperties
  <2>3. (FirstPacket \o SecondPacket) \o Unpumped
          = FirstPacket \o (SecondPacket \o Unpumped)
    BY <1>2, <1>5, JoinAssociates
  <2> QED BY <1>2, <1>3, <1>4, <1>5, <1>8, <1>11, <2>1, <2>2, <2>3 DEF OwedSplit
<1> QED BY <1>6, <1>9, <1>10, <1>11

(* A copy into a window is found there again. *)
LEMMA WindowHolds ==
  ASSUME NEW n \in 0..Pkt, NEW bytes \in Seq(Nat), Len(bytes) = n,
         NEW w \in Window, NEW old \in [1..Pkt -> Nat], win[w] = old
  PROVE  SubSeq(Overwrite(w, bytes), 1, n) = bytes
<1> DEFINE x == Overwrite(w, bytes)
<1>1. n \in Nat /\ Pkt \in Nat /\ n <= Pkt
  BY UsbTxAssumption
<1>2. \A i \in 1..n : bytes[i] \in Nat
  BY <1>1, ElementOfSeq
<1>3. \A i \in 1..Pkt : x[i] = IF i <= n THEN bytes[i] ELSE old[i]
  BY DEF Overwrite
<1>4. \A i \in 1..n : x[i] = bytes[i] /\ x[i] \in Nat
  BY <1>1, <1>2, <1>3
<1> HIDE DEF x
<1>5. /\ SubSeq(x, 1, n) \in Seq(Nat)
      /\ Len(SubSeq(x, 1, n)) = n
      /\ \A i \in 1..n : SubSeq(x, 1, n)[i] = x[i]
  BY <1>1, <1>4, SubSeqProperties
<1>6. SubSeq(x, 1, n) = bytes
  BY <1>4, <1>5, SeqEqual
<1> QED BY <1>6 DEF x

(* A full window of the region is the packet that was copied. *)
LEMMA FullWindowHolds ==
  ASSUME dir_tok \in Nat, NEW from \in Nat
  PROVE  SubSeq(RegionBytes(from, Pkt), 1, Pkt) = RegionBytes(from, Pkt)
<1>1. Pkt \in Nat
  BY UsbTxAssumption
<1>2. RegionBytes(from, Pkt) \in Seq(Nat) /\ Len(RegionBytes(from, Pkt)) = Pkt
  BY <1>1, RegionBytesAre
<1> QED BY <1>2, SubSeqFull

LEMMA EmptyJoins ==
  ASSUME NEW s \in Seq(Nat)
  PROVE  <<>> \o s = s /\ s \o <<>> = s
BY ConcatEmptySeq

(* What was published and not yet copied splits at every point. *)
LEMMA PublishedSplits ==
  ASSUME dir_tok \in Nat, dir_pos \in Nat, NEW avail \in Nat, dir_on,
         NEW m \in Nat, dir_pos + m <= avail
  PROVE  Published(avail)
           = RegionBytes(dir_pos, m)
               \o RegionBytes(dir_pos + m, avail - (dir_pos + m))
<1>1. DirectReady(avail) = m + (avail - (dir_pos + m))
  BY DEF DirectReady
<1>2. avail - (dir_pos + m) \in Nat
  OBVIOUS
<1>3. RegionBytes(dir_pos, m + (avail - (dir_pos + m)))
        = RegionBytes(dir_pos, m)
            \o RegionBytes(dir_pos + m, avail - (dir_pos + m))
  BY <1>2, RegionSplit
<1> QED BY <1>1, <1>3 DEF Published

(* What the prime leaves in the two windows, and a single packet of the     *)
(* region in the one the toggle names.                                      *)
LEMMA PrimedWindows ==
  ASSUME dir_tok \in Nat, dir_pos \in Nat, T_TOG \in Window, T_TOG' = T_TOG,
         NEW avail \in Nat, PumpPrime(avail, <<>>, 0)
  PROVE  /\ FirstPacket' = RegionBytes(dir_pos, Pkt)
         /\ SecondPacket' = RegionBytes(dir_pos + Pkt, Pkt)
<1>1. /\ T_LEN' = Pkt
      /\ win' = [w \in {0, 1} |->
               RegionBytes(IF w = T_TOG THEN dir_pos ELSE dir_pos + Pkt, Pkt)]
  BY DEF PumpPrime
<1>2. OtherWindow(T_TOG) \in Window /\ OtherWindow(T_TOG) # T_TOG
  BY DEF Window, OtherWindow
<1>3. /\ win'[T_TOG] = RegionBytes(dir_pos, Pkt)
      /\ win'[OtherWindow(T_TOG)] = RegionBytes(dir_pos + Pkt, Pkt)
  BY <1>1, <1>2 DEF Window
<1>4. OtherWindow(T_TOG)' = OtherWindow(T_TOG)
  BY DEF OtherWindow
<1>5. dir_pos + Pkt \in Nat
  BY UsbTxAssumption
<1> QED BY <1>1, <1>3, <1>4, <1>5, FullWindowHolds
        DEF FirstPacket, SecondPacket

LEMMA DirectWindow ==
  ASSUME dir_tok \in Nat, dir_pos \in Nat, T_TOG \in Window, T_TOG' = T_TOG,
         win \in [Window -> [1..Pkt -> Nat]], NEW avail \in Nat,
         dir_on => dir_pos <= avail, PumpDirect(avail, <<>>, 0)
  PROVE  /\ dir_on
         /\ NextDirect(avail) \in 1..Pkt
         /\ dir_pos + NextDirect(avail) <= avail
         /\ FirstPacket' = RegionBytes(dir_pos, NextDirect(avail))
<1> DEFINE m == NextDirect(avail)
           a == RegionBytes(dir_pos, m)
<1>p. Pkt \in Nat /\ Pkt > 0
  BY UsbTxAssumption
<1>1. /\ DirectReady(avail) # 0 /\ T_LEN' = m
      /\ win' = [win EXCEPT ![T_TOG] = Overwrite(T_TOG, a)]
  BY DEF PumpDirect
<1>2. dir_on /\ m \in 1..Pkt /\ dir_pos + m <= avail
  BY <1>1, <1>p DEF DirectReady, NextDirect, MinOf
<1> HIDE DEF m
<1>3. m \in Nat /\ m \in 0..Pkt
  BY <1>2
<1>4. a \in Seq(Nat) /\ Len(a) = m
  BY <1>3, RegionBytesAre
<1>5. win'[T_TOG] = Overwrite(T_TOG, a)
  BY <1>1
<1>6. win[T_TOG] \in [1..Pkt -> Nat]
  OBVIOUS
<1>7. SubSeq(Overwrite(T_TOG, a), 1, m) = a
  BY <1>3, <1>4, <1>6, WindowHolds
<1>8. FirstPacket' = a
  BY <1>1, <1>5, <1>7 DEF FirstPacket
<1> QED BY <1>2, <1>8 DEF m

(* A pump with nothing in flight moves bytes and owes the same ones, as     *)
(* long as it does not hold with the endpoint still armed.                  *)
LEMMA PumpKeepsOwed ==
  ASSUME IInv, IInv', NEW avail \in Nat, ~tx_pipe_armed,
         TxPump(avail, <<>>, 0), dir_on => dir_pos <= avail,
         dir_on' = dir_on, dir_tok' = dir_tok, T_TOG' = T_TOG,
         dir_avail' = avail, fg' # "IN",
         tx_armed => ~PumpHold(avail, <<>>, 0)
  PROVE  Owed' = Queued \o Published(avail)
<1>s. OwedSplit /\ OwedSplit'
  BY OwedSplits, PTL
<1>t. /\ dir_tok \in Nat /\ dir_pos \in Nat /\ T_TOG \in Window
      /\ tx_buf \in Seq(Nat) /\ tx_tail \in Nat /\ tx_tail <= Len(tx_buf)
      /\ OtherWindow(T_TOG) \in Window /\ OtherWindow(T_TOG) # T_TOG
      /\ win \in [Window -> [1..Pkt -> Nat]]
      /\ Pkt \in Nat /\ Pkt > 0 /\ Len(tx_buf) \in Nat
  <2>1. T_TOG \in Window /\ OtherWindow(T_TOG) \in Window
        /\ OtherWindow(T_TOG) # T_TOG
    BY DEF IInv, TypeOK, BusDataOK, Window, OtherWindow
  <2>2. tx_buf \in Seq(Nat) /\ Len(tx_buf) \in Nat
    BY LenProperties DEF IInv, TypeOK, PumpDataOK
  <2>3. /\ dir_tok \in Nat /\ dir_pos \in Nat
        /\ tx_tail \in Nat /\ tx_tail <= Len(tx_buf)
        /\ win \in [Window -> [1..Pkt -> Nat]]
    BY DEF IInv, TypeOK, ThreadDataOK, PumpDataOK, RingBounded
  <2>4. Pkt \in Nat /\ Pkt > 0
    BY UsbTxAssumption
  <2> QED BY <2>1, <2>2, <2>3, <2>4
<1>q. Queued \in Seq(Nat) /\ (RingEmpty => Queued = <<>>)
  <2>1. RingEmpty => tx_tail + 1 > tx_head
    BY <1>t DEF RingEmpty, tx_head
  <2>2. tx_head \in Int /\ tx_tail + 1 \in Int
    BY <1>t DEF tx_head
  <2> QED BY <1>s, <2>1, <2>2, SubSeqEmpty DEF OwedSplit, Queued
<1>p. Published(avail) \in Seq(Nat)
  <2>1. DirectReady(avail) \in Nat
    BY <1>t DEF DirectReady
  <2> QED BY <1>t, <2>1, RegionBytesAre DEF Published
<1>u. Unpumped' = Queued' \o Published(avail)'
  BY DEF Unpumped
<1>1. CASE PumpHold(avail, <<>>, 0)
  <2>1. ~tx_armed'
    BY <1>1 DEF PumpHold, IInv, TypeOK, FlagsOK
  <2>2. Unsent' = 0
    BY <2>1 DEF Unsent
  <2>3. Queued' = Queued /\ Published(avail)' = Published(avail)
    BY <1>1 DEF PumpHold, Queued, tx_head, Published, RegionBytes, DirectReady
  <2> QED BY <1>s, <1>u, <2>2, <2>3 DEF OwedSplit
<1>2. CASE PumpPrime(avail, <<>>, 0)
  <2>1. /\ RingEmpty /\ tx_armed' /\ tx_pipe_outstanding' = 2
        /\ dir_pos' = dir_pos + 2 * Pkt
        /\ DirectReady(avail) >= 2 * Pkt
        /\ UNCHANGED <<tx_buf, tx_tail>>
    BY <1>2 DEF PumpPrime, CanPrime
  <2>2. Unsent' = 2
    BY <2>1 DEF Unsent
  <2>3. dir_on /\ dir_pos + Pkt <= avail /\ dir_pos + Pkt + Pkt <= avail
    BY <1>t, <2>1 DEF DirectReady
  <2>5. /\ FirstPacket' = RegionBytes(dir_pos, Pkt)
        /\ SecondPacket' = RegionBytes(dir_pos + Pkt, Pkt)
    BY <1>2, <1>t, PrimedWindows
  <2>6. Queued' = <<>>
    BY <1>q, <2>1 DEF Queued, tx_head
  <2> DEFINE a == RegionBytes(dir_pos, Pkt)
             b == RegionBytes(dir_pos + Pkt, Pkt)
             c == RegionBytes(dir_pos + Pkt + Pkt, avail - (dir_pos + Pkt + Pkt))
  <2>7. Published(avail)' = c
    <3>1. DirectReady(avail)' = avail - (dir_pos + Pkt + Pkt)
      BY <1>t, <2>1, <2>3 DEF DirectReady
    <3>2. dir_pos' = dir_pos + Pkt + Pkt
      BY <1>t, <2>1
    <3> QED BY <3>1, <3>2 DEF Published, RegionBytes
  <2>8. Published(avail) = a \o (b \o c)
    <3>1. avail - (dir_pos + Pkt) = Pkt + (avail - (dir_pos + Pkt + Pkt))
      BY <1>t
    <3>2. avail - (dir_pos + Pkt + Pkt) \in Nat /\ dir_pos + Pkt \in Nat
      BY <1>t, <2>3
    <3>3. RegionBytes(dir_pos + Pkt, Pkt + (avail - (dir_pos + Pkt + Pkt)))
            = b \o c
      BY <1>t, <3>2, RegionSplit
    <3>4. Published(avail)
            = a \o RegionBytes(dir_pos + Pkt, avail - (dir_pos + Pkt))
      BY <1>t, <2>3, PublishedSplits
    <3> QED BY <3>1, <3>3, <3>4
  <2>9. c \in Seq(Nat)
    BY <1>s, <2>7 DEF OwedSplit
  <2> HIDE DEF a, b, c
  <2>10. Owed' = a \o (b \o (<<>> \o c))
    BY <1>s, <1>u, <2>2, <2>5, <2>6, <2>7 DEF OwedSplit, a, b
  <2>11. <<>> \o c = c
    BY <2>9, EmptyJoins
  <2>12. Queued \o Published(avail) = Published(avail)
    BY <1>p, <1>q, <2>1, EmptyJoins
  <2> QED BY <2>8, <2>10, <2>11, <2>12
<1>3. CASE PumpDirect(avail, <<>>, 0)
  <2> DEFINE m == NextDirect(avail)
  <2>1. /\ RingEmpty /\ tx_armed' /\ tx_pipe_outstanding' = 0
        /\ dir_pos' = dir_pos + m
        /\ UNCHANGED <<tx_buf, tx_tail>>
    BY <1>3 DEF PumpDirect
  <2>2. Unsent' = 1
    BY <2>1 DEF Unsent
  <2> DEFINE a == RegionBytes(dir_pos, m)
             c == RegionBytes(dir_pos + m, avail - (dir_pos + m))
  <2>3. dir_on /\ m \in Nat /\ dir_pos + m <= avail /\ FirstPacket' = a
    <3>1. dir_on /\ m \in 1..Pkt /\ dir_pos + m <= avail /\ FirstPacket' = a
      BY <1>3, <1>t, DirectWindow
    <3> HIDE DEF m
    <3> QED BY <3>1
  <2> HIDE DEF m
  <2>4. a \in Seq(Nat)
    BY <1>t, <2>3, RegionBytesAre
  <2>6. Queued' = <<>>
    BY <1>q, <2>1 DEF Queued, tx_head
  <2>7. Published(avail)' = c
    <3>1. DirectReady(avail)' = avail - (dir_pos + m)
      BY <2>1, <2>3 DEF DirectReady
    <3> QED BY <2>1, <3>1 DEF Published, RegionBytes
  <2>8. Published(avail) = a \o c
    BY <1>t, <2>3, PublishedSplits
  <2>9. c \in Seq(Nat)
    BY <1>s, <2>7 DEF OwedSplit
  <2> HIDE DEF a, c
  <2>10. Owed' = a \o (<<>> \o c)
    BY <1>s, <1>u, <2>2, <2>3, <2>6, <2>7 DEF OwedSplit
  <2>11. <<>> \o c = c
    BY <2>9, EmptyJoins
  <2>12. Queued \o Published(avail) = Published(avail)
    BY <1>p, <1>q, <2>1, EmptyJoins
  <2> QED BY <2>8, <2>10, <2>11, <2>12
<1>4. CASE PumpRing(avail, <<>>, 0)
  <2> DEFINE n == MinOf(tx_head - tx_tail, Pkt)
  <2>1. /\ ~RingEmpty /\ tx_armed' /\ tx_pipe_outstanding' = 0 /\ T_LEN' = n
        /\ tx_tail' = tx_tail + n
        /\ UNCHANGED <<tx_buf, dir_pos>>
        /\ win' = [win EXCEPT ![T_TOG] =
               Overwrite(T_TOG, SubSeq(tx_buf, tx_tail + 1, tx_tail + n))]
    BY <1>4 DEF PumpRing
  <2>2. Unsent' = 1
    BY <2>1 DEF Unsent
  <2>3. n \in 0..Pkt /\ n \in Nat /\ tx_tail + n <= Len(tx_buf)
    BY <1>t DEF MinOf, tx_head
  <2> HIDE DEF n
  <2> DEFINE a == SubSeq(tx_buf, tx_tail + 1, tx_tail + n)
             c == SubSeq(tx_buf, (tx_tail + n) + 1, Len(tx_buf))
  <2>4. a \in Seq(Nat) /\ Len(a) = n
    <3>1. \A i \in tx_tail + 1 .. tx_tail + n : i \in 1..Len(tx_buf)
      BY <1>t, <2>3
    <3>2. \A i \in tx_tail + 1 .. tx_tail + n : tx_buf[i] \in Nat
      BY <1>t, <3>1, ElementOfSeq
    <3>3. /\ a \in Seq(Nat)
          /\ Len(a) = IF tx_tail + 1 <= tx_tail + n
                        THEN (tx_tail + n) - (tx_tail + 1) + 1 ELSE 0
      BY <1>t, <2>3, <3>2, SubSeqProperties
    <3> HIDE DEF a
    <3> QED BY <1>t, <2>3, <3>3
  <2>5. FirstPacket' = a
    <3>1. win'[T_TOG] = Overwrite(T_TOG, a)
      BY <1>t, <2>1
    <3>2. win[T_TOG] \in [1..Pkt -> Nat]
      BY <1>t
    <3>3. SubSeq(Overwrite(T_TOG, a), 1, n) = a
      BY <1>t, <2>3, <2>4, <3>2, WindowHolds
    <3> QED BY <2>1, <3>1, <3>3 DEF FirstPacket
  <2>6. Queued' = c
    BY <2>1 DEF Queued, tx_head
  <2>7. Published(avail)' = Published(avail)
    BY <2>1 DEF Published, RegionBytes, DirectReady
  <2>8. Queued = a \o c
    <3>1. /\ tx_tail + 1 \in 1 .. Len(tx_buf) + 1
          /\ tx_tail + n \in (tx_tail + 1) - 1 .. Len(tx_buf)
          /\ Len(tx_buf) \in tx_tail + n .. Len(tx_buf)
      BY <1>t, <2>3
    <3> QED BY <1>t, <3>1, ConcatAdjacentSubSeq DEF Queued, tx_head
  <2>9. c \in Seq(Nat)
    BY <1>s, <2>6 DEF OwedSplit
  <2> HIDE DEF a, c
  <2>10. Owed' = a \o (c \o Published(avail))
    BY <1>s, <1>u, <2>2, <2>5, <2>6, <2>7 DEF OwedSplit
  <2>11. (a \o c) \o Published(avail) = a \o (c \o Published(avail))
    BY <1>p, <2>4, <2>9, JoinAssociates
  <2> QED BY <2>8, <2>10, <2>11
<1>5. CASE PumpZlp(avail, <<>>, 0)
  <2>1. /\ tx_armed' /\ tx_pipe_outstanding' = 0 /\ T_LEN' = 0
        /\ UNCHANGED <<tx_buf, tx_tail, dir_pos>>
    BY <1>5 DEF PumpZlp
  <2>2. Unsent' = 1
    BY <2>1 DEF Unsent
  <2>3. FirstPacket' = <<>>
    BY <1>s, <2>1, EmptySeq DEF OwedSplit
  <2>4. Queued' = Queued /\ Published(avail)' = Published(avail)
    BY <2>1 DEF Queued, tx_head, Published, RegionBytes, DirectReady
  <2>5. Unpumped' \in Seq(Nat)
    BY <1>s DEF OwedSplit
  <2> QED BY <1>s, <1>u, <2>2, <2>3, <2>4, <2>5, EmptyJoins DEF OwedSplit
<1>6. CASE PumpPark(avail, <<>>, 0)
  <2>1. /\ RingEmpty /\ ~tx_armed' /\ tx_buf' = <<>> /\ tx_tail' = 0
        /\ dir_pos' = dir_pos
    BY <1>6 DEF PumpPark
  <2>2. Unsent' = 0
    BY <2>1 DEF Unsent
  <2>3. Queued' = <<>>
    <3>1. Len(Queued') = 0
      BY <1>s, <2>1, EmptySeq DEF OwedSplit
    <3> QED BY <1>s, <3>1, EmptySeq DEF OwedSplit
  <2>4. Published(avail)' = Published(avail)
    BY <2>1 DEF Published, RegionBytes, DirectReady
  <2> QED BY <1>q, <1>s, <1>u, <2>1, <2>2, <2>3, <2>4 DEF OwedSplit
<1> QED BY <1>1, <1>2, <1>3, <1>4, <1>5, <1>6 DEF TxPump

-----------------------------------------------------------------------------
(* Publishes on packet boundaries.  Stock's latch groups, and every group   *)
(* FW_CART_LATCH selects but the one of the finding, are whole packets.     *)
AlignedGrains == \A g \in Grains : g % Pkt = 0

Aligned(n) == \E k \in Nat : n = k * Pkt

(* On a packet boundary of the region, or at its end. *)
Whole(n) == n = len \/ Aligned(n)

OnPackets ==
  pc = "read" => /\ Aligned(grain)
                 /\ dir_on => Whole(off) /\ Whole(dir_pos)

LEMMA MultipleIsAligned ==
  ASSUME NEW g \in Nat, g % Pkt = 0
  PROVE  Aligned(g)
<1>1. g = (g \div Pkt) * Pkt + (g % Pkt)
  BY UsbTxAssumption, SMTT(30)
<1>2. g \div Pkt \in Nat
  BY UsbTxAssumption
<1>3. g = (g \div Pkt) * Pkt
  <2>1. ASSUME NEW k \in Nat, g = k * Pkt + 0 PROVE g = k * Pkt
    BY <2>1, UsbTxAssumption
  <2> QED BY <1>1, <1>2, <2>1
<1> QED BY <1>2, <1>3, Zenon DEF Aligned

LEMMA AlignedSums ==
  ASSUME NEW a \in Nat, NEW b \in Nat, Aligned(a), Aligned(b)
  PROVE  Aligned(a + b)
<1>1. PICK j \in Nat : a = j * Pkt BY DEF Aligned
<1>2. PICK k \in Nat : b = k * Pkt BY DEF Aligned
<1>3. a + b = (j + k) * Pkt BY <1>1, <1>2, UsbTxAssumption
<1>4. j + k \in Nat OBVIOUS
<1> QED BY <1>3, <1>4 DEF Aligned

LEMMA PacketIsAligned == Aligned(0) /\ Aligned(Pkt)
<1>1. ASSUME NEW n, NEW k \in Nat, n = k * Pkt PROVE Aligned(n)
  BY <1>1, Zenon DEF Aligned
<1>2. 0 = 0 * Pkt /\ Pkt = 1 * Pkt BY UsbTxAssumption
<1>3. 0 \in Nat /\ 1 \in Nat OBVIOUS
<1> QED BY <1>1, <1>2, <1>3, Zenon

(* Between two boundaries lies a packet at least. *)
LEMMA AlignedGap ==
  ASSUME NEW a \in Nat, NEW b \in Nat, Aligned(a), Aligned(b), a < b
  PROVE  b - a >= Pkt
<1>1. PICK j \in Nat : a = j * Pkt BY DEF Aligned
<1>2. PICK k \in Nat : b = k * Pkt BY DEF Aligned
<1>p. Pkt \in Nat /\ Pkt > 0 BY UsbTxAssumption
<1>3. b - a = (k - j) * Pkt BY <1>1, <1>2, <1>p
<1>4. k - j >= 1
  <2>1. ASSUME k - j <= 0 PROVE (k - j) * Pkt <= 0 BY <2>1, <1>p
  <2>2. b - a > 0 OBVIOUS
  <2> QED BY <2>1, <2>2, <1>3
<1>5. ASSUME NEW d \in Nat, d >= 1 PROVE d * Pkt >= Pkt BY <1>5, <1>p
<1>6. k - j \in Nat BY <1>4
<1> QED BY <1>3, <1>4, <1>5, <1>6

(* What tx_pump() takes of the region ends on a boundary again. *)
LEMMA PumpOnPackets ==
  ASSUME dir_pos \in Nat, len \in Nat, NEW avail \in Nat, dir_on,
         Whole(dir_pos), dir_pos <= avail, avail <= len, dir_total = len,
         len' = len, TxPump(avail, <<>>, 0)
  PROVE  Whole(dir_pos)'
<1>p. Pkt \in Nat /\ Pkt > 0 BY UsbTxAssumption
<1>r. DirectReady(avail) = avail - dir_pos BY DEF DirectReady
<1>w. ASSUME NEW n \in Nat, dir_pos' = n, n = len \/ Aligned(n)
      PROVE  Whole(dir_pos)'
  BY <1>w DEF Whole, Aligned
<1>0. CASE dir_pos' = dir_pos
  BY <1>0, <1>w DEF Whole
<1>1. CASE PumpPrime(avail, <<>>, 0)
  <2>1. dir_pos' = dir_pos + (Pkt + Pkt) /\ avail - dir_pos >= 2 * Pkt
    BY <1>1, <1>p, <1>r DEF PumpPrime, CanPrime
  <2>2. Aligned(dir_pos)
    BY <2>1, <1>p DEF Whole
  <2>3. Aligned(Pkt + Pkt)
    BY <1>p, PacketIsAligned, AlignedSums
  <2>4. Aligned(dir_pos + (Pkt + Pkt)) /\ dir_pos + (Pkt + Pkt) \in Nat
    BY <1>p, <2>2, <2>3, AlignedSums
  <2> QED BY <1>w, <2>1, <2>4
<1>2. CASE PumpDirect(avail, <<>>, 0)
  <2> DEFINE m == NextDirect(avail)
  <2>1. /\ dir_pos' = dir_pos + m /\ DirectReady(avail) # 0
        /\ ~(m < Pkt) \/ dir_pos + m = len
    BY <1>2 DEF PumpDirect, ShortOfRegion
  <2>2. m \in Nat /\ m <= Pkt
    BY <1>p, <1>r DEF NextDirect, MinOf
  <2>3. dir_pos < len
    BY <1>r, <2>1
  <2>4. Aligned(dir_pos)
    BY <2>3 DEF Whole
  <2> HIDE DEF m
  <2>5. CASE dir_pos + m = len
    BY <1>w, <2>1, <2>2, <2>5
  <2>6. CASE m = Pkt
    <3>1. Aligned(dir_pos + Pkt) /\ dir_pos + Pkt \in Nat
      BY <1>p, <2>4, PacketIsAligned, AlignedSums
    <3> QED BY <1>w, <2>1, <2>6, <3>1
  <2> QED BY <1>p, <2>1, <2>2, <2>5, <2>6
<1> QED BY <1>0, <1>1, <1>2 DEF TxPump, PumpHold, PumpRing, PumpZlp, PumpPark

(* With a boundary published, tx_pump() never holds a short packet back.    *)
LEMMA NothingHeldBack ==
  ASSUME IInv, NEW avail \in Nat, dir_on, Whole(dir_pos), Whole(avail),
         dir_pos <= avail, avail <= len, DirectReady(avail) # 0
  PROVE  ~ShortOfRegion(avail)
<1>1. dir_pos \in Nat /\ len \in Nat /\ dir_total = len
  BY DEF IInv, TypeOK, PumpDataOK, ThreadDataOK, RegionIsTheReads
<1>p. Pkt \in Nat /\ Pkt > 0 BY UsbTxAssumption
<1>r. DirectReady(avail) = avail - dir_pos BY DEF DirectReady
<1>2. dir_pos < avail BY <1>1, <1>r
<1>3. Aligned(dir_pos) BY <1>1, <1>2 DEF Whole
<1>4. CASE Aligned(avail)
  <2>1. avail - dir_pos >= Pkt BY <1>1, <1>2, <1>3, <1>4, AlignedGap
  <2>2. ~(NextDirect(avail) < Pkt)
    BY <1>1, <1>p, <1>r, <2>1 DEF NextDirect, MinOf
  <2> QED BY <2>2 DEF ShortOfRegion
<1>5. CASE avail = len
  <2>1. NextDirect(avail) < Pkt => dir_pos + NextDirect(avail) = dir_total
    BY <1>1, <1>p, <1>r, <1>5 DEF NextDirect, MinOf
  <2> QED BY <2>1 DEF ShortOfRegion
<1> QED BY <1>4, <1>5 DEF Whole

LEMMA InitOnPackets == Init => OnPackets
BY DEF Init, OnPackets

LEMMA KickOnPackets ==
  ASSUME IInv, NEW wanted, NEW avail \in Nat, KickIf(wanted, avail),
         len' = len, dir_on, Whole(dir_pos), dir_pos <= avail, avail <= len
  PROVE  Whole(dir_pos)'
<1>0. dir_pos \in Nat /\ len \in Nat /\ dir_total = len
  BY DEF IInv, TypeOK, PumpDataOK, ThreadDataOK, RegionIsTheReads
<1>1. CASE ~tx_armed /\ TxPump(avail, tx_stage, tx_pipe_outstanding)
  <2>1. tx_stage = <<>> /\ tx_pipe_outstanding = 0
    BY <1>1 DEF IInv, PipeInv, ArmedIsAck
  <2> QED BY <1>0, <1>1, <2>1, PumpOnPackets
<1>2. CASE UNCHANGED pumpVars
  BY <1>2 DEF pumpVars, Whole, Aligned
<1> QED BY <1>1, <1>2 DEF KickIf

LEMMA NextOnPackets ==
  ASSUME AlignedGrains, IInv, OnPackets, [Next]_vars
  PROVE  OnPackets'
<1>0. /\ dir_avail \in Nat /\ off \in Nat /\ len \in Nat /\ grain \in Nat
      /\ dir_pos \in Nat
  BY DEF IInv, TypeOK, ThreadDataOK, PumpDataOK
<1>d. dir_on => /\ pc = "read" /\ dir_avail = off /\ off <= len
                /\ dir_pos <= dir_avail /\ dir_total = len
  BY DEF IInv, RegionIsTheReads, Credit
<1>1. CASE BeginRegion
  <2>1. grain' \in Grains /\ off' = 0 /\ dir_pos' = 0
    BY <1>1 DEF BeginRegion, ForgetPipeline
  <2>2. grain' \in Nat /\ grain' % Pkt = 0
    BY <2>1, UsbTxAssumption DEF AlignedGrains
  <2>3. PICK g \in Nat : g = grain' /\ Aligned(g)
    BY <2>2, MultipleIsAligned
  <2>4. Aligned(grain)' BY <2>3 DEF Aligned
  <2>5. Whole(off)' /\ Whole(dir_pos)'
    BY <2>1, PacketIsAligned DEF Whole, Aligned
  <2> QED BY <2>4, <2>5 DEF OnPackets
<1>2. CASE Publish
  <2> DEFINE a == MinOf(off + grain, len)
  <2>1. /\ pc = "read" /\ off < len /\ off' = a /\ UNCHANGED <<len, grain>>
        /\ KickIf(DirectReady(a) # 0, a) /\ dir_on' = dir_on
    BY <1>2 DEF Publish, PublishUpTo
  <2>2. a \in Nat /\ a <= len /\ off <= a
    BY <1>0, <2>1 DEF MinOf
  <2>3. Aligned(grain)' BY <2>1 DEF OnPackets, Aligned
  <2>4. CASE dir_on
    <3>1. Whole(off) /\ Whole(dir_pos) /\ Aligned(grain)
      BY <2>1, <2>4 DEF OnPackets
    <3>2. Aligned(off) BY <1>0, <2>1, <3>1 DEF Whole
    <3>3. Aligned(off + grain) BY <1>0, <3>1, <3>2, AlignedSums
    <3>4. a = len \/ Aligned(a) BY <3>3 DEF MinOf
    <3>5. Whole(off)' BY <2>1, <3>4 DEF Whole, Aligned
    <3>6. dir_pos <= a BY <1>0, <1>d, <2>2, <2>4
    <3> HIDE DEF a
    <3>7. Whole(dir_pos)'
      BY <2>1, <2>2, <2>4, <3>1, <3>6, KickOnPackets
    <3> QED BY <2>3, <3>5, <3>7 DEF OnPackets
  <2> QED BY <2>1, <2>3, <2>4 DEF OnPackets
<1>3. CASE Republish \/ OtherDone \/ IdlePoll
  <2>1. /\ UNCHANGED <<pc, off, len, grain, dir_on>>
        /\ pc = "read" /\ dir_on => \E w : KickIf(w, dir_avail)
    BY <1>3, <1>d DEF Republish, PublishUpTo, OtherDone, IdlePoll, PumpsOnly,
                      threadVars, regionVars
  <2>2. ASSUME pc = "read" PROVE Aligned(grain)'
    BY <2>1, <2>2 DEF OnPackets, Aligned
  <2>3. ASSUME pc = "read", dir_on PROVE Whole(off)' /\ Whole(dir_pos)'
    <3>1. Whole(off)' BY <2>1, <2>3 DEF OnPackets, Whole, Aligned
    <3>2. Whole(dir_pos) BY <2>3 DEF OnPackets
    <3>3. Whole(dir_pos)'
      BY <1>0, <1>d, <2>1, <2>3, <3>2, KickOnPackets
    <3> QED BY <3>1, <3>3
  <2> QED BY <2>1, <2>2, <2>3 DEF OnPackets
<1>4. CASE InDonePump
  <2>1. /\ UNCHANGED <<pc, off, len, grain, dir_on>>
        /\ TxPump(dir_avail, <<>>, 0)
    BY <1>4, InDoneIs DEF threadVars, regionVars
  <2>2. ASSUME pc = "read" PROVE Aligned(grain)'
    BY <2>1, <2>2 DEF OnPackets, Aligned
  <2>3. ASSUME pc = "read", dir_on PROVE Whole(off)' /\ Whole(dir_pos)'
    <3>1. Whole(off)' BY <2>1, <2>3 DEF OnPackets, Whole, Aligned
    <3>2. Whole(dir_pos) BY <2>3 DEF OnPackets
    <3>3. Whole(dir_pos)'
      BY <1>0, <1>d, <2>1, <2>3, <3>2, PumpOnPackets
    <3> QED BY <3>1, <3>3
  <2> QED BY <2>1, <2>2, <2>3 DEF OnPackets
<1>5. CASE RefillWindow
  <2>1. /\ UNCHANGED <<pc, off, len, grain, dir_on>>
        /\ dir_pos' = dir_pos + Pkt /\ DirectReady(dir_avail) >= Pkt
    BY <1>5 DEF RefillWindow, threadVars, regionVars
  <2>2. ASSUME pc = "read" PROVE Aligned(grain)'
    BY <2>1, <2>2 DEF OnPackets, Aligned
  <2>3. ASSUME pc = "read", dir_on PROVE Whole(off)' /\ Whole(dir_pos)'
    <3>1. Whole(off)' BY <2>1, <2>3 DEF OnPackets, Whole, Aligned
    <3>2. Whole(dir_pos) BY <2>3 DEF OnPackets
    <3>3. dir_pos # len
      BY <1>0, <1>d, <2>1, <2>3, UsbTxAssumption DEF DirectReady
    <3>4. Aligned(dir_pos + Pkt)
      BY <1>0, <3>2, <3>3, PacketIsAligned, AlignedSums, UsbTxAssumption
         DEF Whole
    <3>5. Whole(dir_pos)' BY <2>1, <3>4 DEF Whole, Aligned
    <3> QED BY <3>1, <3>5
  <2> QED BY <2>1, <2>2, <2>3 DEF OnPackets
<1>6. CASE EndRegion \/ StallEnd \/ BeginReply \/ QueueChunk \/ QueueKick
           \/ AbandonReply
  <2>1. pc' # "read"
    BY <1>6 DEF EndRegion, StallEnd, BeginReply, QueueChunk, QueueKick,
                AbandonReply
  <2> QED BY <2>1 DEF OnPackets
<1>7. CASE SessionFlush \/ BusReset
  <2>1. ~dir_on' /\ UNCHANGED <<pc, grain>>
    BY <1>7 DEF SessionFlush, BusReset, FlushTx, threadVars
  <2> QED BY <2>1 DEF OnPackets, Aligned
<1>8. CASE InDoneRelease \/ WindDown \/ SieIn \/ SieOther \/ HostToggles
           \/ UNCHANGED vars
  <2>1. UNCHANGED <<pc, off, len, grain, dir_on, dir_pos>>
    BY <1>8 DEF InDoneRelease, WindDown, SieIn, SieOther, HostToggles, vars,
                threadVars, regionVars, pumpVars
  <2> QED BY <2>1 DEF OnPackets, Whole, Aligned
<1> QED BY <1>1, <1>2, <1>3, <1>4, <1>5, <1>6, <1>7, <1>8
        DEF Next, Thread, Handler, Environment

-----------------------------------------------------------------------------
(* Every step is a step of the byte stream, or none.                        *)

Abstract == [Stream!Next]_(Stream!streamVars)

(* What is in flight, apart from what waits behind it. *)
FlightSplit ==
  /\ InFlight \in Seq(Nat)
  /\ Owed = InFlight \o Unpumped
  /\ Unsent = 0 => InFlight = <<>>
  /\ Unsent = 1 => InFlight = FirstPacket
  /\ Unsent = 2 => InFlight = FirstPacket \o SecondPacket

LEMMA FlightSplits == IInv => FlightSplit
<1> SUFFICES ASSUME IInv PROVE FlightSplit
  OBVIOUS
<1>1. OwedSplit
  BY OwedSplits
<1>2. Owed = (InFlight \o Queued) \o Published(dir_avail)
  BY DEF Owed, Queued, Published
<1>3. InFlight \in Seq(Nat) => Owed = InFlight \o Unpumped
  <2> SUFFICES ASSUME InFlight \in Seq(Nat) PROVE Owed = InFlight \o Unpumped
    OBVIOUS
  <2>1. (InFlight \o Queued) \o Published(dir_avail)
          = InFlight \o (Queued \o Published(dir_avail))
    BY <1>1, JoinAssociates DEF OwedSplit
  <2> QED BY <1>2, <2>1 DEF Unpumped
<1>4. CASE Unsent = 0
  <2>1. InFlight = <<>> \o <<>> BY <1>4 DEF InFlight
  <2>2. InFlight = <<>> /\ <<>> \in Seq(Nat) BY <2>1
  <2> QED BY <1>3, <1>4, <2>2 DEF FlightSplit
<1>5. CASE Unsent = 1
  <2>1. InFlight = FirstPacket \o <<>> BY <1>5 DEF InFlight, FirstPacket
  <2>2. InFlight = FirstPacket /\ FirstPacket \in Seq(Nat)
    BY <1>1, <2>1, ConcatEmptySeq DEF OwedSplit
  <2> QED BY <1>3, <1>5, <2>2 DEF FlightSplit
<1>6. CASE Unsent = 2
  <2>1. InFlight = FirstPacket \o SecondPacket
    BY <1>6 DEF InFlight, FirstPacket, SecondPacket
  <2>2. InFlight \in Seq(Nat)
    BY <1>1, <2>1, ConcatProperties DEF OwedSplit
  <2> QED BY <1>3, <1>6, <2>1, <2>2 DEF FlightSplit
<1> QED BY <1>1, <1>4, <1>5, <1>6 DEF OwedSplit

(* The two ends of a concatenation. *)
LEMMA JoinParts ==
  ASSUME NEW s \in Seq(Nat), NEW t \in Seq(Nat)
  PROVE  /\ Len(s) \in 0..Len(s \o t)
         /\ SubSeq(s \o t, 1, Len(s)) = s
         /\ SubSeq(s \o t, Len(s) + 1, Len(s \o t)) = t
<1>1. /\ Len(s) \in Nat /\ Len(t) \in Nat /\ s \o t \in Seq(Nat)
      /\ Len(s \o t) = Len(s) + Len(t)
  BY ConcatProperties, LenProperties
<1>2. CASE Len(s) = 0
  <2>1. s = <<>> BY <1>2, EmptySeq
  <2>2. s \o t = t BY <2>1, ConcatEmptySeq
  <2>3. SubSeq(t, 1, 0) = <<>> BY SubSeqEmpty
  <2>4. SubSeq(t, 1, Len(t)) = t BY SubSeqFull
  <2> QED BY <1>1, <1>2, <2>1, <2>2, <2>3, <2>4
<1>3. CASE Len(s) # 0
  <2>1. SubSeq(s \o t, 1, Len(s)) = SubSeq(s, 1, Len(s))
    <3>1. 1 \in 1..Len(s) /\ Len(s) \in 1..Len(s) BY <1>1, <1>3
    <3> QED BY <3>1, SubSeqOfConcat1
  <2>2. SubSeq(s, 1, Len(s)) = s BY SubSeqFull
  <2>3. CASE Len(t) = 0
    <3>1. t = <<>> BY <2>3, EmptySeq
    <3>2. SubSeq(s \o t, Len(s) + 1, Len(s \o t)) = <<>>
      BY <1>1, <2>3, SubSeqEmpty
    <3> QED BY <1>1, <2>1, <2>2, <3>1, <3>2
  <2>4. CASE Len(t) # 0
    <3>1. /\ Len(s) + 1 \in Len(s) + 1 .. Len(s) + Len(t)
          /\ Len(s) + Len(t) \in Len(s) + 1 .. Len(s) + Len(t)
      BY <1>1, <2>4
    <3>2. SubSeq(s \o t, Len(s) + 1, Len(s) + Len(t))
            = SubSeq(t, (Len(s) + 1) - Len(s), (Len(s) + Len(t)) - Len(s))
      BY <3>1, SubSeqOfConcat2
    <3>3. (Len(s) + 1) - Len(s) = 1 /\ (Len(s) + Len(t)) - Len(s) = Len(t)
      BY <1>1
    <3>4. SubSeq(t, 1, Len(t)) = t BY SubSeqFull
    <3> QED BY <1>1, <2>1, <2>2, <3>2, <3>3, <3>4
  <2> QED BY <2>3, <2>4
<1> QED BY <1>2, <1>3

(* How a step of the stream shows in the queue of what is owed. *)
LEMMA DeliverIsAbstract ==
  ASSUME host \in Seq(Nat), NEW a \in Seq(Nat), NEW b \in Seq(Nat),
         Owed = a \o b, Owed' = b, host' = host \o a, made' = made
  PROVE  Abstract
<1>1. /\ Len(a) \in 0..Len(Owed) /\ SubSeq(Owed, 1, Len(a)) = a
      /\ SubSeq(Owed, Len(a) + 1, Len(Owed)) = b
  BY JoinParts
<1>2. CASE Len(a) = 0
  <2>1. a = <<>> BY <1>2, EmptySeq
  <2>2. Owed' = Owed /\ host' = host BY <2>1, ConcatEmptySeq
  <2> QED BY <2>2 DEF Abstract, Stream!streamVars
<1>3. CASE Len(a) # 0
  <2>1. Len(a) \in 1..Len(Owed) BY <1>1, <1>3
  <2>2. Stream!Deliver BY <1>1, <2>1 DEF Stream!Deliver
  <2> QED BY <2>2 DEF Abstract, Stream!Next
<1> QED BY <1>2, <1>3

LEMMA WithdrawIsAbstract ==
  ASSUME NEW a \in Seq(Nat), NEW b \in Seq(Nat),
         Owed = a \o b, Owed' = a, UNCHANGED <<made, host>>
  PROVE  Abstract
<1>1. Len(a) \in 0..Len(Owed) /\ SubSeq(Owed, 1, Len(a)) = a
  BY JoinParts
<1>2. Stream!Withdraw BY <1>1 DEF Stream!Withdraw
<1> QED BY <1>2 DEF Abstract, Stream!Next

LEMMA ProduceIsAbstract ==
  ASSUME made \in Nat, NEW n \in Nat, n > 0, made' = made + n,
         Owed' = Owed \o [i \in 1..n |-> made + i], host' = host
  PROVE  Abstract
<1>1. made' \in Nat /\ made' > made /\ made' - made = n
  OBVIOUS
<1>2. Stream!Produce BY <1>1 DEF Stream!Produce
<1> QED BY <1>2 DEF Abstract, Stream!Next

LEMMA StutterIsAbstract ==
  ASSUME Owed' = Owed, UNCHANGED <<made, host>>
  PROVE  Abstract
BY DEF Abstract, Stream!streamVars

(* What the invariant says of the variables behind Owed. *)
TxFacts ==
  /\ dir_tok \in Nat /\ dir_pos \in Nat /\ dir_avail \in Nat /\ made \in Nat
  /\ T_TOG \in Window /\ OtherWindow(T_TOG) \in Window
  /\ OtherWindow(T_TOG) # T_TOG /\ OtherWindow(OtherWindow(T_TOG)) = T_TOG
  /\ tx_buf \in Seq(Nat) /\ Len(tx_buf) \in Nat
  /\ tx_tail \in Nat /\ tx_tail <= Len(tx_buf)
  /\ win \in [Window -> [1..Pkt -> Nat]]
  /\ tx_pipe_outstanding \in 0..2
  /\ host \in Seq(Nat)
  /\ dir_on => dir_pos <= dir_avail
  /\ ~dir_on => Published(dir_avail) = <<>>
  /\ RingEmpty => Queued = <<>>

LEMMA TxFactsHold == IInv => TxFacts
<1> SUFFICES ASSUME IInv PROVE TxFacts
  OBVIOUS
<1>1. /\ dir_tok \in Nat /\ dir_pos \in Nat /\ dir_avail \in Nat /\ made \in Nat
      /\ tx_tail \in Nat /\ tx_tail <= Len(tx_buf)
      /\ win \in [Window -> [1..Pkt -> Nat]]
  BY DEF IInv, TypeOK, ThreadDataOK, PumpDataOK, RingBounded
<1>2. /\ T_TOG \in Window /\ OtherWindow(T_TOG) \in Window
      /\ OtherWindow(T_TOG) # T_TOG /\ OtherWindow(OtherWindow(T_TOG)) = T_TOG
      /\ host \in Seq(Nat)
  BY DEF IInv, TypeOK, BusDataOK, Window, OtherWindow
<1>3. tx_buf \in Seq(Nat) /\ Len(tx_buf) \in Nat
  BY LenProperties DEF IInv, TypeOK, PumpDataOK
<1>4. tx_pipe_outstanding \in 0..2
  BY DEF IInv, TypeOK, PumpDataOK, PipeInv, StageNeverOverruns
<1>5. dir_on => dir_pos <= dir_avail
  BY DEF IInv, Credit
<1>6. ~dir_on => Published(dir_avail) = <<>>
  <2> SUFFICES ASSUME ~dir_on PROVE Published(dir_avail) = <<>>
    OBVIOUS
  <2>1. Published(dir_avail) = RegionBytes(dir_pos, 0)
    BY DEF Published, DirectReady
  <2>2. RegionBytes(dir_pos, 0) \in Seq(Nat) /\ Len(RegionBytes(dir_pos, 0)) = 0
    BY <1>1, RegionBytesAre
  <2> QED BY <2>1, <2>2, EmptySeq
<1>7. RingEmpty => Queued = <<>>
  <2>1. RingEmpty => tx_tail + 1 > tx_head
    BY <1>1, <1>3 DEF RingEmpty, tx_head
  <2>2. tx_head \in Int /\ tx_tail + 1 \in Int
    BY <1>1, <1>3 DEF tx_head
  <2> QED BY <2>1, <2>2, SubSeqEmpty DEF Queued
<1> QED BY <1>1, <1>2, <1>3, <1>4, <1>5, <1>6, <1>7 DEF TxFacts

(* Steps that touch neither windows, ring nor region. *)
LEMMA OwedUnseen ==
  ASSUME UNCHANGED <<win, T_TOG, T_LEN, tx_armed, tx_pipe_outstanding, tx_buf,
                     tx_tail, dir_on, dir_tok, dir_pos, dir_avail>>,
         fg = "IN" <=> fg' = "IN"
  PROVE  Owed' = Owed
<1>1. Unsent' = Unsent
  BY DEF Unsent
<1>2. InFlight' = InFlight
  BY <1>1 DEF InFlight, OtherWindow
<1> QED BY <1>2 DEF Owed, tx_head, RegionBytes, DirectReady

(* A kick moves bytes, and adds what its caller has just published. *)
LEMMA KickKeepsOwed ==
  ASSUME IInv, IInv', NEW wanted, NEW avail \in Nat, KickIf(wanted, avail),
         dir_on => dir_pos <= avail, dir_on' = dir_on, dir_tok' = dir_tok,
         T_TOG' = T_TOG, dir_avail' = avail, fg = "IN" <=> fg' = "IN"
  PROVE  Owed' = InFlight \o (Queued \o Published(avail))
<1>s. FlightSplit /\ FlightSplit' /\ OwedSplit /\ TxFacts
  BY FlightSplits, OwedSplits, TxFactsHold, PTL
<1>p. Published(avail) \in Seq(Nat)
  <2>1. DirectReady(avail) \in Nat
    BY <1>s DEF DirectReady, TxFacts
  <2> QED BY <1>s, <2>1, RegionBytesAre DEF Published, TxFacts
<1>1. CASE ~tx_armed /\ TxPump(avail, tx_stage, tx_pipe_outstanding)
  <2>1. tx_stage = <<>> /\ tx_pipe_outstanding = 0 /\ ~tx_pipe_armed
          /\ fg # "IN"
    BY <1>1 DEF IInv, PipeInv, ArmedIsAck
  <2>2. Owed' = Queued \o Published(avail)
    BY <1>1, <2>1, PumpKeepsOwed
  <2>3. Unsent = 0
    BY <1>1 DEF Unsent
  <2>4. InFlight = <<>>
    BY <1>s, <2>3 DEF FlightSplit
  <2>5. Queued \o Published(avail) \in Seq(Nat)
    BY <1>p, <1>s, ConcatProperties DEF OwedSplit
  <2> QED BY <2>2, <2>4, <2>5, EmptyJoins
<1>2. CASE UNCHANGED pumpVars
  <2>1. UNCHANGED <<win, T_LEN, tx_armed, tx_pipe_outstanding, tx_buf, tx_tail,
                    dir_pos>>
    BY <1>2 DEF pumpVars
  <2>2. Unsent' = Unsent
    BY <2>1 DEF Unsent
  <2>3. InFlight' = InFlight
    BY <2>1, <2>2 DEF InFlight, OtherWindow
  <2>4. Queued' = Queued /\ Published(avail)' = Published(avail)
    BY <2>1 DEF Queued, tx_head, Published, RegionBytes, DirectReady
  <2>5. Unpumped' = Queued' \o Published(avail)'
    BY DEF Unpumped
  <2> QED BY <1>s, <2>3, <2>4, <2>5 DEF FlightSplit
<1> QED BY <1>1, <1>2 DEF KickIf

(* Publishing produces the bytes from the old count to the new one. *)
LEMMA PublishIsAbstract ==
  ASSUME IInv, IInv', RegionIsNumbered, NEW avail \in Nat, PublishUpTo(avail),
         dir_on => dir_avail <= avail
  PROVE  Abstract
<1>s. FlightSplit /\ OwedSplit /\ TxFacts
  BY FlightSplits, OwedSplits, TxFactsHold
<1>1. /\ KickIf(DirectReady(avail) # 0, avail)
      /\ dir_avail' = avail
      /\ made' = IF dir_on THEN dir_tok + avail ELSE made
      /\ UNCHANGED <<dir_on, dir_tok, T_TOG, fg, host>>
  BY DEF PublishUpTo, isrVars, hostVars
<1>2. dir_on => dir_pos <= avail
  BY <1>s DEF TxFacts
<1>3. Owed' = InFlight \o (Queued \o Published(avail))
  BY <1>1, <1>2, KickKeepsOwed
<1>4. CASE ~dir_on \/ avail = dir_avail
  <2>1. DirectReady(avail) = DirectReady(dir_avail)
    BY <1>4 DEF DirectReady
  <2>2. Published(avail) = Published(dir_avail)
    BY <2>1 DEF Published
  <2>3. Owed' = Owed
    BY <1>3, <1>s, <2>2 DEF FlightSplit, Unpumped
  <2>4. made' = made
    BY <1>1, <1>4 DEF RegionIsNumbered
  <2> QED BY <1>1, <2>3, <2>4, StutterIsAbstract
<1>5. CASE dir_on /\ avail # dir_avail
  <2> DEFINE n == avail - dir_avail
             new == [i \in 1..n |-> made + i]
  <2>1. n \in Nat /\ n > 0 /\ dir_avail - dir_pos \in Nat
    BY <1>5, <1>s DEF TxFacts
  <2>2. made = dir_tok + dir_avail /\ made' = made + n
    BY <1>1, <1>5, <1>s DEF RegionIsNumbered, TxFacts
  <2>3. new \in Seq(Nat)
    <3>1. \A i \in 1..n : made + i \in Nat BY <2>1, <1>s DEF TxFacts
    <3> QED BY <2>1, <3>1
  <2>4. Published(avail) = Published(dir_avail) \o new
    <3>1. RegionBytes(dir_pos, (dir_avail - dir_pos) + n)
            = RegionBytes(dir_pos, dir_avail - dir_pos)
                \o RegionBytes(dir_pos + (dir_avail - dir_pos), n)
      BY <1>s, <2>1, RegionSplit DEF TxFacts
    <3>2. /\ DirectReady(avail) = (dir_avail - dir_pos) + n
          /\ DirectReady(dir_avail) = dir_avail - dir_pos
          /\ dir_pos + (dir_avail - dir_pos) = dir_avail
      BY <1>5, <1>s DEF DirectReady, TxFacts
    <3>3. RegionBytes(dir_avail, n) = new
      BY <2>2 DEF RegionBytes
    <3> QED BY <3>1, <3>2, <3>3 DEF Published
  <2> HIDE DEF n, new
  <2> DEFINE p == Published(dir_avail)
  <2>5. p \in Seq(Nat) /\ Queued \in Seq(Nat) /\ InFlight \in Seq(Nat)
          /\ Unpumped \in Seq(Nat) /\ Unpumped = Queued \o p
    BY <1>s DEF OwedSplit, FlightSplit, Unpumped
  <2>6. Owed' = InFlight \o (Queued \o (p \o new))
    BY <1>3, <2>4
  <2> HIDE DEF p
  <2>7. Queued \o (p \o new) = (Queued \o p) \o new
    BY <2>3, <2>5, JoinAssociates
  <2>8. InFlight \o (Unpumped \o new) = (InFlight \o Unpumped) \o new
    BY <2>3, <2>5, JoinAssociates
  <2>9. Owed' = Owed \o new
    BY <1>s, <2>5, <2>6, <2>7, <2>8 DEF FlightSplit
  <2> QED BY <1>1, <1>s, <2>1, <2>2, <2>9, ProduceIsAbstract DEF new, TxFacts
<1> QED BY <1>4, <1>5

(* tx_queue() produces at the end of the ring. *)
LEMMA QueuedGrows ==
  ASSUME NEW s \in Seq(Nat), NEW new \in Seq(Nat), NEW k \in Nat, k <= Len(s)
  PROVE  SubSeq(s \o new, k + 1, Len(s \o new))
           = SubSeq(s, k + 1, Len(s)) \o new
<1> DEFINE t == s \o new
<1>1. /\ Len(s) \in Nat /\ Len(new) \in Nat /\ t \in Seq(Nat)
      /\ Len(t) = Len(s) + Len(new)
  BY ConcatProperties, LenProperties
<1>2. SubSeq(t, Len(s) + 1, Len(t)) = new
  BY JoinParts
<1>3. SubSeq(t, k + 1, Len(s)) = SubSeq(s, k + 1, Len(s))
  <2>1. CASE k = Len(s)
    BY <1>1, <2>1, SubSeqEmpty
  <2>2. CASE k # Len(s)
    <3>1. k + 1 \in 1..Len(s) /\ Len(s) \in 1..Len(s) BY <1>1, <2>2
    <3> QED BY <3>1, SubSeqOfConcat1
  <2> QED BY <2>1, <2>2
<1> HIDE DEF t
<1>4. SubSeq(t, k + 1, Len(s)) \o SubSeq(t, Len(s) + 1, Len(t))
        = SubSeq(t, k + 1, Len(t))
  <2>1. /\ k + 1 \in 1 .. Len(t) + 1
        /\ Len(s) \in (k + 1) - 1 .. Len(t)
        /\ Len(t) \in Len(s) .. Len(t)
    BY <1>1
  <2> QED BY <1>1, <2>1, ConcatAdjacentSubSeq
<1> QED BY <1>2, <1>3, <1>4 DEF t

LEMMA QueueChunkIsAbstract ==
  ASSUME IInv, IInv', QueueChunk
  PROVE  Abstract
<1>s. FlightSplit /\ FlightSplit' /\ OwedSplit /\ TxFacts /\ TxFacts'
  BY FlightSplits, OwedSplits, TxFactsHold, PTL
<1> DEFINE n == MinOf(MinOf(left, LockChunk), RingRoom)
           new == [i \in 1..n |-> made + i]
<1>1. /\ n > 0 /\ tx_buf' = tx_buf \o new /\ made' = made + n
      /\ pc \in {"call", "chunk"}
      /\ UNCHANGED <<regionVars, dir_pos, tx_tail, tx_armed, T_LEN, win, T_TOG,
                     tx_pipe_outstanding, fg, host>>
  BY DEF QueueChunk, isrVars, hostVars
<1>2. n \in Nat
  <2>1. left \in Nat /\ LockChunk \in Nat /\ BufSize \in Nat
    BY UsbTxAssumption DEF IInv, TypeOK, ThreadDataOK
  <2> QED BY <1>1, <1>s, <2>1 DEF MinOf, RingRoom, tx_head, TxFacts
<1> HIDE DEF n
<1>3. new \in Seq(Nat)
  <2>1. \A i \in 1..n : made + i \in Nat BY <1>2, <1>s DEF TxFacts
  <2> QED BY <1>2, <2>1
<1>4. ~dir_on /\ ~dir_on'
  BY <1>1 DEF IInv, RegionIsTheReads, regionVars
<1> HIDE DEF new
<1>5. Queued' = Queued \o new
  <2>1. tx_buf \in Seq(Nat) /\ tx_tail \in Nat /\ tx_tail <= Len(tx_buf)
    BY <1>s DEF TxFacts
  <2>2. SubSeq(tx_buf \o new, tx_tail + 1, Len(tx_buf \o new))
          = SubSeq(tx_buf, tx_tail + 1, Len(tx_buf)) \o new
    BY <1>3, <2>1, QueuedGrows
  <2>3. Queued' = SubSeq(tx_buf', tx_tail' + 1, Len(tx_buf'))
    BY DEF Queued, tx_head
  <2>4. Queued = SubSeq(tx_buf, tx_tail + 1, Len(tx_buf))
    BY DEF Queued, tx_head
  <2> QED BY <1>1, <2>2, <2>3, <2>4
<1>6. Unpumped = Queued /\ Unpumped' = Queued \o new
  <2>1. Published(dir_avail) = <<>> /\ Published(dir_avail)' = <<>>
    BY <1>4, <1>s DEF TxFacts
  <2>2. Queued \in Seq(Nat) /\ Queued \o new \in Seq(Nat)
    BY <1>3, <1>s, ConcatProperties DEF OwedSplit
  <2>3. Queued \o <<>> = Queued /\ (Queued \o new) \o <<>> = Queued \o new
    BY <2>2, EmptyJoins
  <2>4. Unpumped' = Queued' \o Published(dir_avail)'
    BY DEF Unpumped
  <2> QED BY <1>5, <2>1, <2>3, <2>4 DEF Unpumped
<1>7. InFlight' = InFlight
  <2>1. Unsent' = Unsent BY <1>1 DEF Unsent
  <2> QED BY <1>1, <2>1 DEF InFlight, OtherWindow
<1>8. InFlight \in Seq(Nat) /\ Queued \in Seq(Nat)
        /\ Owed = InFlight \o Unpumped /\ Owed' = InFlight' \o Unpumped'
  BY <1>s DEF FlightSplit, OwedSplit
<1>9. (InFlight \o Queued) \o new = InFlight \o (Queued \o new)
  BY <1>3, <1>8, JoinAssociates
<1>10. Owed' = Owed \o new
  BY <1>6, <1>7, <1>8, <1>9
<1> QED BY <1>1, <1>2, <1>10, <1>s, ProduceIsAbstract DEF new, TxFacts

(* Nominating a region adds nothing, and finds none. *)
LEMMA BeginIsAbstract ==
  ASSUME IInv, IInv', PipelineIsTheRegions, BeginRegion
  PROVE  Abstract
<1>s. FlightSplit /\ FlightSplit' /\ TxFacts /\ TxFacts'
  BY FlightSplits, TxFactsHold, PTL
<1>1. /\ pc = "idle" /\ dir_on' /\ dir_pos' = 0 /\ dir_avail' = 0
      /\ tx_pipe_outstanding' = 0
      /\ UNCHANGED <<tx_buf, tx_tail, tx_armed, T_LEN, win, T_TOG, fg, host,
                     made>>
  BY DEF BeginRegion, ForgetPipeline, isrVars, hostVars
<1>2. ~dir_on
  BY <1>1 DEF IInv, RegionIsTheReads
<1>3. tx_pipe_outstanding = 0
  BY <1>2, <1>s DEF PipelineIsTheRegions, TxFacts
<1>4. InFlight' = InFlight
  <2>1. Unsent' = Unsent BY <1>1, <1>3 DEF Unsent
  <2> QED BY <1>1, <2>1 DEF InFlight, OtherWindow
<1>5. Published(dir_avail)' = <<>>
  <2>1. Published(dir_avail)' = [i \in 1..0 |-> dir_tok' + dir_pos' + i]
    BY <1>1 DEF Published, RegionBytes, DirectReady
  <2> QED BY <2>1
<1>6. Unpumped' = Unpumped
  <2>1. Queued' = Queued BY <1>1 DEF Queued, tx_head
  <2>2. Published(dir_avail) = <<>> BY <1>2, <1>s DEF TxFacts
  <2>3. Unpumped' = Queued' \o Published(dir_avail)' BY DEF Unpumped
  <2> QED BY <1>5, <2>1, <2>2, <2>3 DEF Unpumped
<1>7. Owed' = Owed
  BY <1>4, <1>6, <1>s DEF FlightSplit
<1> QED BY <1>1, <1>7, StutterIsAbstract

(* Withdrawing the region keeps a prefix of what was owed: the packet in    *)
(* the window and the ring, or the first of two pipelined windows.          *)
LEMMA WithdrawRegionIsAbstract ==
  ASSUME IInv, IInv', PipelineIsTheRegions, WithdrawRegion,
         UNCHANGED <<T_TOG, fg, host, made>>
  PROVE  Abstract
<1>s. FlightSplit /\ FlightSplit' /\ OwedSplit /\ TxFacts /\ TxFacts'
  BY FlightSplits, OwedSplits, TxFactsHold, PTL
<1>1. /\ ~dir_on' /\ tx_pipe_outstanding' = 0
      /\ UNCHANGED <<tx_buf, tx_tail, tx_armed, T_LEN, win>>
  BY DEF WithdrawRegion, ForgetPipeline
<1>2. Unpumped' = Queued
  <2>1. Published(dir_avail)' = <<>> BY <1>1, <1>s DEF TxFacts
  <2>2. Queued' = Queued BY <1>1 DEF Queued, tx_head
  <2>3. Queued \o <<>> = Queued BY <1>s, EmptyJoins DEF OwedSplit
  <2>4. Unpumped' = Queued' \o Published(dir_avail)' BY DEF Unpumped
  <2> QED BY <2>1, <2>2, <2>3, <2>4
<1>3. /\ Owed' = InFlight' \o Queued /\ Owed = InFlight \o Unpumped
      /\ InFlight \in Seq(Nat) /\ InFlight' \in Seq(Nat)
      /\ Queued \in Seq(Nat) /\ Unpumped \in Seq(Nat)
      /\ Published(dir_avail) \in Seq(Nat)
      /\ Unpumped = Queued \o Published(dir_avail)
  BY <1>2, <1>s DEF FlightSplit, OwedSplit, Unpumped
<1>4. CASE tx_pipe_outstanding # 2
  <2>1. Unsent' = Unsent
    BY <1>1, <1>4, <1>s DEF Unsent, TxFacts
  <2>2. InFlight' = InFlight
    BY <1>1, <2>1 DEF InFlight, OtherWindow
  <2>3. (InFlight \o Queued) \o Published(dir_avail)
          = InFlight \o (Queued \o Published(dir_avail))
    BY <1>3, JoinAssociates
  <2>4. InFlight \o Queued \in Seq(Nat)
    BY <1>3, ConcatProperties
  <2>5. Owed = (InFlight \o Queued) \o Published(dir_avail)
          /\ Owed' = InFlight \o Queued
    BY <1>3, <2>2, <2>3
  <2> QED BY <1>3, <2>4, <2>5, WithdrawIsAbstract
<1>5. CASE tx_pipe_outstanding = 2
  <2>1. Queued = <<>>
    BY <1>5, <1>s DEF PipelineIsTheRegions, TxFacts
  <2>2. tx_armed
    BY <1>5 DEF IInv, PipeInv, ArmedIsAck
  <2>3. Owed' = InFlight'
    BY <1>3, <2>1, EmptyJoins
  <2>4. CASE fg = "IN"
    <3>1. Unsent' = 0 BY <1>1, <2>2, <2>4 DEF Unsent
    <3>2. Owed' = <<>> BY <1>s, <2>3, <3>1 DEF FlightSplit
    <3>3. Owed \in Seq(Nat) BY <1>3, ConcatProperties
    <3>4. Owed = <<>> \o Owed /\ <<>> \in Seq(Nat) BY <3>3, EmptyJoins
    <3> QED BY <3>2, <3>3, <3>4, WithdrawIsAbstract
  <2>5. CASE fg # "IN"
    <3>1. Unsent' = 1 BY <1>1, <2>2, <2>5 DEF Unsent
    <3>2. Unsent = 2 BY <1>5, <2>2, <2>5 DEF Unsent
    <3>3. FirstPacket' = FirstPacket BY <1>1 DEF FirstPacket
    <3>4. Owed' = FirstPacket BY <1>s, <2>3, <3>1, <3>3 DEF FlightSplit
    <3>5. /\ Owed = FirstPacket \o (SecondPacket \o Unpumped)
          /\ FirstPacket \in Seq(Nat) /\ SecondPacket \in Seq(Nat)
      BY <1>s, <3>2 DEF OwedSplit
    <3>6. SecondPacket \o Unpumped \in Seq(Nat)
      BY <1>3, <3>5, ConcatProperties
    <3> QED BY <3>4, <3>5, <3>6, WithdrawIsAbstract
  <2> QED BY <2>4, <2>5
<1> QED BY <1>4, <1>5

(* A new session drops all of it. *)
LEMMA FlushIsAbstract ==
  ASSUME IInv, IInv', FlushTx
  PROVE  Abstract
<1>s. FlightSplit /\ FlightSplit' /\ OwedSplit /\ TxFacts'
  BY FlightSplits, OwedSplits, TxFactsHold, PTL
<1>1. /\ ~dir_on' /\ ~tx_armed' /\ tx_buf' = <<>> /\ tx_tail' = 0
      /\ UNCHANGED <<made, host>>
  BY DEF FlushTx
<1>2. Unsent' = 0
  BY <1>1 DEF Unsent
<1>3. Queued' = <<>> /\ Published(dir_avail)' = <<>>
  <2>1. RingEmpty' BY <1>1 DEF RingEmpty, tx_head
  <2> QED BY <1>1, <1>s, <2>1 DEF TxFacts
<1>4. Owed' = <<>>
  <2>1. Unpumped' = Queued' \o Published(dir_avail)' BY DEF Unpumped
  <2>2. Unpumped' = <<>> BY <1>3, <2>1
  <2> QED BY <1>2, <1>s, <2>2 DEF FlightSplit
<1>5. Owed \in Seq(Nat)
  BY <1>s, ConcatProperties DEF FlightSplit, OwedSplit
<1>6. Owed = <<>> \o Owed /\ <<>> \in Seq(Nat)
  BY <1>5, EmptyJoins
<1> QED BY <1>1, <1>4, <1>5, <1>6, WithdrawIsAbstract

(* A completion on the single-packet path.  Its pump never holds a packet   *)
(* back: on packet boundaries there is none to hold.                        *)
LEMMA InDonePumpIsAbstract ==
  ASSUME IInv, IInv', OnPackets, InDonePump
  PROVE  Abstract
<1>s. FlightSplit /\ OwedSplit /\ TxFacts
  BY FlightSplits, OwedSplits, TxFactsHold
<1>1. /\ fg = "IN" /\ fg' = "NONE" /\ ~tx_pipe_armed /\ tx_armed
      /\ tx_pipe_outstanding <= 1
      /\ TxPump(dir_avail, <<>>, 0)
      /\ UNCHANGED <<dir_on, dir_tok, dir_avail, T_TOG, host, made>>
  BY InDoneIs DEF regionVars, hostVars
<1>2. ~PumpHold(dir_avail, <<>>, 0)
  <2> SUFFICES ASSUME PumpHold(dir_avail, <<>>, 0) PROVE FALSE
    OBVIOUS
  <2>1. DirectReady(dir_avail) # 0 /\ ShortOfRegion(dir_avail)
    BY DEF PumpHold
  <2>2. dir_on
    BY <2>1 DEF DirectReady
  <2>3. pc = "read" /\ dir_avail = off /\ off <= len
    BY <2>2 DEF IInv, RegionIsTheReads
  <2>4. Whole(dir_pos) /\ Whole(dir_avail)
    BY <2>2, <2>3 DEF OnPackets
  <2>5. dir_pos <= dir_avail /\ dir_avail \in Nat /\ dir_avail <= len
    BY <1>s, <2>2, <2>3 DEF TxFacts
  <2> QED BY <2>1, <2>2, <2>4, <2>5, NothingHeldBack
<1>3. Owed' = Unpumped
  <2>1. dir_on => dir_pos <= dir_avail BY <1>s DEF TxFacts
  <2>2. dir_avail \in Nat BY <1>s DEF TxFacts
  <2>3. Owed' = Queued \o Published(dir_avail)
    BY <1>1, <1>2, <2>1, <2>2, PumpKeepsOwed
  <2> QED BY <2>3 DEF Unpumped
<1>4. Unsent = 0
  BY <1>1, <1>s DEF Unsent, TxFacts
<1>5. Owed = Unpumped
  BY <1>4, <1>s DEF OwedSplit
<1> QED BY <1>1, <1>3, <1>5, StutterIsAbstract

(* Releasing the bus early only books the completion. *)
LEMMA ReleaseIsAbstract ==
  ASSUME IInv, IInv', InDoneRelease
  PROVE  Abstract
<1>s. FlightSplit /\ FlightSplit'
  BY FlightSplits, PTL
<1>1. /\ isr = "idle" /\ fg = "IN" /\ fg' = "NONE" /\ tx_pipe_armed
      /\ tx_pipe_outstanding' = OutstandingAfter
      /\ UNCHANGED <<dir_on, dir_tok, dir_avail, dir_pos, tx_buf, tx_tail,
                     tx_armed, T_LEN, win, T_TOG, host, made>>
  BY DEF InDoneRelease, Serving, regionVars, hostVars
<1>2. tx_pipe_outstanding = 2 /\ tx_armed
  BY <1>1 DEF IInv, PipeInv, PipelineCount, ArmedIsAck
<1>3. tx_pipe_outstanding' = 1
  BY <1>1, <1>2 DEF OutstandingAfter
<1>4. Unsent = 1 /\ Unsent' = 1
  BY <1>1, <1>2, <1>3 DEF Unsent
<1>5. InFlight' = InFlight
  BY <1>1, <1>4 DEF InFlight, OtherWindow
<1>6. Unpumped' = Unpumped
  BY <1>1 DEF Unpumped, Queued, tx_head, Published, RegionBytes, DirectReady
<1>7. Owed' = Owed
  BY <1>5, <1>6, <1>s DEF FlightSplit
<1> QED BY <1>1, <1>7, StutterIsAbstract

(* The refill moves the next packet of the region behind what is in flight: *)
(* into the window the last completion freed, whether or not the SIE has    *)
(* taken the other one meanwhile.                                           *)
LEMMA RefillIsAbstract ==
  ASSUME IInv, IInv', PipelineIsTheRegions, RefillWindow
  PROVE  Abstract
<1>s. OwedSplit /\ OwedSplit' /\ TxFacts
  BY OwedSplits, TxFactsHold, PTL
<1>1. /\ isr = "refill" /\ DirectReady(dir_avail) >= Pkt
      /\ win' = [win EXCEPT ![freed] = RegionBytes(dir_pos, Pkt)]
      /\ dir_pos' = dir_pos + Pkt
      /\ tx_pipe_outstanding' = tx_pipe_outstanding + 1
      /\ UNCHANGED <<dir_on, dir_tok, dir_avail, tx_buf, tx_tail, tx_armed,
                     T_LEN, T_TOG, fg, host, made>>
  BY DEF RefillWindow, regionVars, hostVars
<1>2. tx_pipe_outstanding = 1 /\ tx_pipe_armed /\ tx_armed
  BY <1>1 DEF IInv, PipeInv, PipelineCount, ArmedIsAck
<1>3. dir_on /\ RingEmpty /\ T_LEN = Pkt
  BY <1>2 DEF PipelineIsTheRegions
<1>p. Pkt \in Nat /\ Pkt > 0
  BY UsbTxAssumption
<1> DEFINE a == RegionBytes(dir_pos, Pkt)
           c == RegionBytes(dir_pos + Pkt, dir_avail - (dir_pos + Pkt))
<1>4. dir_pos + Pkt <= dir_avail
  BY <1>1, <1>3, <1>p, <1>s DEF DirectReady, TxFacts
<1>5. Published(dir_avail) = a \o c
  BY <1>3, <1>4, <1>p, <1>s, PublishedSplits DEF TxFacts
<1>6. Published(dir_avail)' = c
  <2>1. DirectReady(dir_avail)' = dir_avail - (dir_pos + Pkt)
    BY <1>1, <1>3 DEF DirectReady
  <2> QED BY <1>1, <2>1 DEF Published, RegionBytes
<1>7. a \in Seq(Nat) /\ Len(a) = Pkt /\ SubSeq(a, 1, Pkt) = a
  BY <1>p, <1>s, RegionBytesAre, FullWindowHolds DEF TxFacts
<1>8. c \in Seq(Nat)
  BY <1>6, <1>s DEF OwedSplit
<1> HIDE DEF a, c
<1>9. Unpumped = a \o Unpumped'
  <2>1. Queued = <<>> /\ Queued' = <<>>
    <3>1. Queued' = Queued BY <1>1 DEF Queued, tx_head
    <3> QED BY <1>3, <1>s, <3>1 DEF TxFacts
  <2>2. Unpumped' = Queued' \o Published(dir_avail)'
    BY DEF Unpumped
  <2>3. Unpumped' = c
    BY <1>6, <1>8, <2>1, <2>2, EmptyJoins
  <2>4. Unpumped = a \o c
    BY <1>5, <1>s, <2>1, EmptyJoins DEF Unpumped, OwedSplit
  <2> QED BY <2>3, <2>4
<1>10. CASE fg = "IN"
  <2>1. Unsent = 0 /\ Unsent' = 1
    BY <1>1, <1>2, <1>10 DEF Unsent
  <2>2. freed = T_TOG
    BY <1>1, <1>10 DEF IInv, PipeInv, RefillsTheFreedWindow
  <2>3. win'[T_TOG] = a
    BY <1>1, <1>s, <2>2 DEF TxFacts, a
  <2>4. FirstPacket' = a
    BY <1>1, <1>3, <1>7, <2>3 DEF FirstPacket
  <2>5. Owed = Unpumped /\ Owed' = a \o Unpumped'
    BY <1>s, <2>1, <2>4 DEF OwedSplit
  <2> QED BY <1>1, <1>9, <2>5, StutterIsAbstract
<1>11. CASE fg # "IN"
  <2>1. Unsent = 1 /\ Unsent' = 2
    BY <1>1, <1>2, <1>11 DEF Unsent
  <2>2. freed = OtherWindow(T_TOG)
    BY <1>1, <1>11 DEF IInv, PipeInv, RefillsTheFreedWindow
  <2>3. win'[OtherWindow(T_TOG)] = a /\ win'[T_TOG] = win[T_TOG]
    BY <1>1, <1>s, <2>2 DEF TxFacts, a
  <2>4. FirstPacket' = FirstPacket
    BY <1>1, <2>3 DEF FirstPacket
  <2>5. SecondPacket' = a
    <3>1. OtherWindow(T_TOG)' = OtherWindow(T_TOG) BY <1>1 DEF OtherWindow
    <3> QED BY <1>1, <1>3, <1>7, <2>3, <3>1 DEF SecondPacket
  <2>6. /\ Owed = FirstPacket \o Unpumped
        /\ Owed' = FirstPacket \o (a \o Unpumped')
    BY <1>s, <2>1, <2>4, <2>5 DEF OwedSplit
  <2> QED BY <1>1, <1>9, <2>6, StutterIsAbstract
<1> QED BY <1>10, <1>11

(* The SIE delivers the packet of the window the toggle names. *)
LEMMA SieInIsAbstract ==
  ASSUME IInv, IInv', SieIn
  PROVE  Abstract
<1>s. OwedSplit /\ OwedSplit' /\ TxFacts
  BY OwedSplits, TxFactsHold, PTL
<1>1. /\ fg = "NONE" /\ fg' = "IN" /\ T_RES = "ACK"
      /\ host' = host \o FirstPacket
      /\ T_TOG' = OtherWindow(T_TOG)
      /\ UNCHANGED <<dir_on, dir_tok, dir_avail, dir_pos, tx_buf, tx_tail,
                     tx_armed, tx_pipe_outstanding, T_LEN, win, made>>
  BY DEF SieIn, FirstPacket, regionVars, pumpVars
<1>2. tx_armed
  BY <1>1 DEF IInv, PipeInv, ArmedIsAck
<1>3. Unpumped' = Unpumped
  BY <1>1 DEF Unpumped, Queued, tx_head, Published, RegionBytes, DirectReady
<1>4. /\ FirstPacket \in Seq(Nat) /\ SecondPacket \in Seq(Nat)
      /\ Unpumped \in Seq(Nat) /\ host \in Seq(Nat)
  BY <1>s DEF OwedSplit, TxFacts
<1>5. CASE tx_pipe_outstanding # 2
  <2>1. Unsent = 1 /\ Unsent' = 0
    BY <1>1, <1>2, <1>5, <1>s DEF Unsent, TxFacts
  <2>2. Owed = FirstPacket \o Unpumped /\ Owed' = Unpumped
    BY <1>3, <1>s, <2>1 DEF OwedSplit
  <2> QED BY <1>1, <1>4, <2>2, DeliverIsAbstract
<1>6. CASE tx_pipe_outstanding = 2
  <2>1. Unsent = 2 /\ Unsent' = 1
    BY <1>1, <1>2, <1>6 DEF Unsent
  <2>2. FirstPacket' = SecondPacket
    BY <1>1 DEF FirstPacket, SecondPacket
  <2>3. /\ Owed = FirstPacket \o (SecondPacket \o Unpumped)
        /\ Owed' = SecondPacket \o Unpumped
    BY <1>3, <1>s, <2>1, <2>2 DEF OwedSplit
  <2>4. SecondPacket \o Unpumped \in Seq(Nat)
    BY <1>4, ConcatProperties
  <2> QED BY <1>1, <1>4, <2>3, <2>4, DeliverIsAbstract
<1> QED BY <1>5, <1>6

LEMMA NextIsAbstract ==
  ASSUME IInv, IInv', RegionIsNumbered, PipelineIsTheRegions, OnPackets,
         [Next]_vars
  PROVE  Abstract
<1>s. TxFacts
  BY TxFactsHold
<1>1. CASE Publish \/ Republish
  <2>1. \E a \in Nat : PublishUpTo(a) /\ off <= a
    <3>1. CASE Publish
      <4>1. MinOf(off + grain, len) \in Nat /\ off <= MinOf(off + grain, len)
        BY <3>1 DEF Publish, MinOf, IInv, TypeOK, ThreadDataOK
      <4> QED BY <3>1, <4>1 DEF Publish
    <3>2. CASE Republish
      <4>1. off \in Nat BY DEF IInv, TypeOK, ThreadDataOK
      <4> QED BY <3>2, <4>1 DEF Republish
    <3> QED BY <1>1, <3>1, <3>2
  <2>2. PICK a \in Nat : PublishUpTo(a) /\ off <= a BY <2>1
  <2>3. dir_on => dir_avail <= a
    BY <2>2 DEF IInv, RegionIsTheReads
  <2> QED BY <2>2, <2>3, PublishIsAbstract
<1>2. CASE QueueKick \/ OtherDone \/ IdlePoll
  <2>1. /\ \E w : KickIf(w, dir_avail)
        /\ UNCHANGED <<dir_on, dir_tok, dir_avail, T_TOG, made, host>>
        /\ fg = "IN" <=> fg' = "IN"
    BY <1>2 DEF QueueKick, OtherDone, IdlePoll, PumpsOnly, Serving,
                regionVars, isrVars, hostVars
  <2>2. dir_avail \in Nat /\ (dir_on => dir_pos <= dir_avail)
    BY <1>s DEF TxFacts
  <2>3. Owed' = InFlight \o (Queued \o Published(dir_avail))
    BY <2>1, <2>2, KickKeepsOwed
  <2>4. Owed = InFlight \o Unpumped
    BY FlightSplits DEF FlightSplit
  <2>5. Owed' = Owed BY <2>3, <2>4 DEF Unpumped
  <2> QED BY <2>1, <2>5, StutterIsAbstract
<1>3. CASE EndRegion \/ StallEnd
  <2>1. WithdrawRegion /\ UNCHANGED <<T_TOG, fg, host, made>>
    BY <1>3 DEF EndRegion, StallEnd, isrVars, hostVars
  <2> QED BY <2>1, WithdrawRegionIsAbstract
<1>4. CASE SessionFlush \/ BusReset
  BY <1>4, FlushIsAbstract DEF SessionFlush, BusReset
<1>5. CASE WindDown \/ BeginReply \/ AbandonReply \/ SieOther \/ HostToggles
           \/ UNCHANGED vars
  <2>1. UNCHANGED <<win, T_TOG, T_LEN, tx_armed, tx_pipe_outstanding, tx_buf,
                    tx_tail, dir_on, dir_tok, dir_pos, dir_avail, host, made>>
    BY <1>5 DEF WindDown, BeginReply, AbandonReply, SieOther, HostToggles,
                vars, regionVars, pumpVars, hostVars
  <2>2. fg = "IN" <=> fg' = "IN"
    BY <1>5 DEF WindDown, BeginReply, AbandonReply, SieOther, HostToggles,
                vars, isrVars
  <2> QED BY <2>1, <2>2, OwedUnseen, StutterIsAbstract
<1> QED BY <1>1, <1>2, <1>3, <1>4, <1>5, BeginIsAbstract, QueueChunkIsAbstract,
           InDonePumpIsAbstract, ReleaseIsAbstract, RefillIsAbstract,
           SieInIsAbstract
        DEF Next, Thread, Handler, Environment

LEMMA InitIsAbstract == Init => Stream!Init
<1> SUFFICES ASSUME Init PROVE Stream!Init
  OBVIOUS
<1>1. IInv
  BY InitIInv
<1>2. OwedSplit /\ TxFacts
  BY <1>1, OwedSplits, TxFactsHold
<1>3. ~tx_armed /\ ~dir_on /\ tx_buf = <<>> /\ tx_tail = 0
  BY DEF Init
<1>4. Queued = <<>> /\ Published(dir_avail) = <<>>
  BY <1>2, <1>3 DEF TxFacts, RingEmpty, tx_head
<1>5. Unsent = 0
  BY <1>3 DEF Unsent
<1>6. Unpumped = <<>>
  BY <1>4 DEF Unpumped
<1>7. Owed = <<>>
  BY <1>2, <1>5, <1>6 DEF OwedSplit
<1> QED BY <1>7 DEF Init, Stream!Init

(* With publishes on packet boundaries the transmit path is an in-order,    *)
(* at-most-once byte stream for every packet, ring and transfer size:       *)
(* tx_pump() and the pipeline's refill take bytes from region and ring in   *)
(* the order they were produced, a completion never resends or skips a      *)
(* window, and only a withdrawn region or a new session drops what is owed, *)
(* from its end.                                                            *)
THEOREM TxImplementsByteStream ==
  ASSUME AlignedGrains
  PROVE  Spec => ImplementsByteStream
<1> DEFINE J == StreamInv /\ OnPackets
<1>1. Init => J
  BY InitStream, InitOnPackets
<1>2. J /\ [Next]_vars => J'
  BY NextStream, NextOnPackets DEF StreamInv
<1>3. J /\ J' /\ [Next]_vars => [Stream!Next]_(Stream!streamVars)
  BY NextIsAbstract DEF StreamInv, Abstract
<1> HIDE DEF J
<1> QED BY <1>1, <1>2, <1>3, InitIsAbstract, PTL
        DEF Spec, ImplementsByteStream, Stream!Spec

-----------------------------------------------------------------------------
(* What the credit of the region says about the host.                       *)

(* The first n bytes of the region are in the host's hands. *)
InHost(n) ==
  \A t \in dir_tok + 1 .. dir_tok + n : \E i \in 1..Len(host) : host[i] = t

(* What the completion of the packet in flight will add to tx_dir_sent_n. *)
DueCredit == IF tx_pipe_outstanding # 0 THEN Pkt ELSE StagedDirect

(* A region that is gone is owed no credit. *)
NoRegionNoCredit == ~dir_on => dir_sent = 0 /\ DueCredit = 0

(* The credit never runs ahead of the host: what is counted has arrived,    *)
(* and so has what a latched completion is about to count.                  *)
CountedIsDelivered ==
  dir_on => /\ InHost(dir_sent)
            /\ fg = "IN" => InHost(dir_sent + DueCredit)

(* The windows still to be taken hold just the bytes they will be counted   *)
(* for, in the order in which the toggle reaches them.                      *)
WindowsHoldTheRegion ==
  dir_on =>
    /\ fg # "IN" /\ DueCredit # 0
         => FirstPacket = RegionBytes(dir_sent, DueCredit)
    /\ tx_pipe_outstanding = 2
         => (IF fg = "IN" THEN FirstPacket ELSE SecondPacket)
              = RegionBytes(dir_sent + Pkt, Pkt)

RegionDelivery == NoRegionNoCredit /\ CountedIsDelivered /\ WindowsHoldTheRegion

ReadsSomething == pc = "read" => len > 0

DeliveryInv == RegionDelivery /\ ReadsSomething

LEMMA DueCreditType == IInv => DueCredit \in Nat
<1> SUFFICES ASSUME IInv PROVE DueCredit \in Nat
  OBVIOUS
<1>1. tx_stage \in Seq(Nat)
  BY DEF IInv, TypeOK, PumpDataOK
<1>2. StagedDirect \in Nat
  <2>1. CASE tx_stage = <<>>
    BY <2>1 DEF StagedDirect
  <2>2. CASE tx_stage # <<>>
    <3>1. Head(tx_stage) \in Nat BY <1>1, <2>2, HeadTailProperties
    <3> QED BY <2>2, <3>1 DEF StagedDirect
  <2> QED BY <2>1, <2>2
<1> QED BY <1>2, UsbTxAssumption DEF DueCredit

(* The host forgets nothing, and a packet it takes adds its bytes. *)
LEMMA HostGrows ==
  ASSUME host \in Seq(Nat), NEW p \in Seq(Nat), host' = host \o p
  PROVE  /\ Len(host') = Len(host) + Len(p)
         /\ Len(host) \in Nat /\ Len(p) \in Nat
         /\ \A i \in 1..Len(host) + Len(p) :
              host'[i] = IF i <= Len(host) THEN host[i] ELSE p[i - Len(host)]
BY ConcatProperties, LenProperties

LEMMA HostKeeps ==
  ASSUME dir_tok \in Nat, dir_tok' = dir_tok, host \in Seq(Nat),
         NEW p \in Seq(Nat), host' = host \o p, NEW n \in Nat, InHost(n)
  PROVE  InHost(n)'
<1>1. /\ Len(host') = Len(host) + Len(p) /\ Len(host) \in Nat /\ Len(p) \in Nat
      /\ \A i \in 1..Len(host) + Len(p) :
           host'[i] = IF i <= Len(host) THEN host[i] ELSE p[i - Len(host)]
  BY HostGrows
<1>2. ASSUME NEW t \in dir_tok + 1 .. dir_tok + n
      PROVE  \E i \in 1..Len(host') : host'[i] = t
  <2>1. PICK i \in 1..Len(host) : host[i] = t
    BY DEF InHost
  <2>2. i \in 1..Len(host') /\ host'[i] = host[i]
    BY <1>1
  <2> QED BY <2>1, <2>2
<1> QED BY <1>2 DEF InHost

LEMMA HostGains ==
  ASSUME dir_tok \in Nat, dir_tok' = dir_tok, host \in Seq(Nat),
         NEW n \in Nat, NEW m \in Nat, InHost(n),
         host' = host \o RegionBytes(n, m)
  PROVE  InHost(n + m)'
<1> DEFINE p == RegionBytes(n, m)
<1>1. p \in Seq(Nat) /\ Len(p) = m /\ \A i \in 1..m : p[i] = dir_tok + n + i
  BY RegionBytesAre
<1>0. host' = host \o p
  OBVIOUS
<1> HIDE DEF p
<1>2. /\ Len(host') = Len(host) + m /\ Len(host) \in Nat
      /\ \A i \in 1..Len(host) + m :
           host'[i] = IF i <= Len(host) THEN host[i] ELSE p[i - Len(host)]
  <2>1. /\ Len(host') = Len(host) + Len(p) /\ Len(host) \in Nat
        /\ \A i \in 1..Len(host) + Len(p) :
             host'[i] = IF i <= Len(host) THEN host[i] ELSE p[i - Len(host)]
    BY <1>0, <1>1, HostGrows
  <2> QED BY <1>1, <2>1
<1>3. ASSUME NEW t \in dir_tok + 1 .. dir_tok + (n + m)
      PROVE  \E i \in 1..Len(host') : host'[i] = t
  <2>1. CASE t <= dir_tok + n
    <3>1. InHost(n)' BY <1>0, <1>1, HostKeeps
    <3>2. t \in dir_tok + 1 .. dir_tok + n BY <2>1
    <3> QED BY <3>1, <3>2 DEF InHost
  <2>2. CASE t > dir_tok + n
    <3> DEFINE j == t - (dir_tok + n)
    <3>1. j \in 1..m /\ dir_tok + n + j = t BY <2>2
    <3> HIDE DEF j
    <3>2. /\ Len(host) + j \in 1..Len(host) + m
          /\ ~(Len(host) + j <= Len(host)) /\ (Len(host) + j) - Len(host) = j
      BY <1>2, <3>1
    <3>3. host'[Len(host) + j] = p[j] BY <1>2, <3>2
    <3>4. p[j] = t BY <1>1, <3>1
    <3> QED BY <1>2, <3>2, <3>3, <3>4
  <2> QED BY <2>1, <2>2
<1>4. dir_tok' + (n + m) = dir_tok + (n + m)
  OBVIOUS
<1> QED BY <1>3 DEF InHost

(* A pump with nothing in flight copies from where the credit stands. *)
LEMMA PumpHoldsTheRegion ==
  ASSUME IInv, NEW avail \in Nat, TxPump(avail, <<>>, 0),
         dir_on => /\ dir_pos <= avail
                   /\ dir_sent' = dir_pos
                   /\ InHost(dir_pos),
         ~dir_on => dir_sent' = 0, fg' # "IN",
         UNCHANGED <<dir_on, dir_tok, T_TOG, host>>
  PROVE  RegionDelivery'
<1> USE DEF RegionDelivery
<1>s. TxFacts
  BY TxFactsHold
<1>t. /\ dir_tok \in Nat /\ dir_pos \in Nat /\ T_TOG \in Window
      /\ win \in [Window -> [1..Pkt -> Nat]]
  BY <1>s DEF TxFacts
<1>p. Pkt \in Nat /\ Pkt > 0
  BY UsbTxAssumption
<1>c. CountedIsDelivered'
  BY DEF CountedIsDelivered, InHost
<1>1. CASE DueCredit' = 0 /\ tx_pipe_outstanding' = 0
  BY <1>1, <1>c DEF NoRegionNoCredit, WindowsHoldTheRegion
<1>2. CASE PumpPrime(avail, <<>>, 0)
  <2>1. /\ tx_pipe_outstanding' = 2
        /\ FirstPacket' = RegionBytes(dir_pos, Pkt)
        /\ SecondPacket' = RegionBytes(dir_pos + Pkt, Pkt)
    BY <1>2, <1>t, PrimedWindows DEF PumpPrime
  <2>2. dir_on
    BY <1>2, <1>p DEF PumpPrime, CanPrime, DirectReady
  <2>3. DueCredit' = Pkt
    BY <2>1 DEF DueCredit
  <2>4. /\ RegionBytes(dir_sent, DueCredit)' = RegionBytes(dir_pos, Pkt)
        /\ RegionBytes(dir_sent + Pkt, Pkt)' = RegionBytes(dir_pos + Pkt, Pkt)
    BY <2>2, <2>3 DEF RegionBytes
  <2> QED BY <1>c, <2>1, <2>2, <2>4 DEF NoRegionNoCredit, WindowsHoldTheRegion
<1>3. CASE PumpDirect(avail, <<>>, 0)
  <2> DEFINE m == NextDirect(avail)
  <2>1. dir_on /\ FirstPacket' = RegionBytes(dir_pos, m)
    BY <1>3, <1>t, DirectWindow
  <2>2. tx_stage' = <<m>> /\ tx_pipe_outstanding' = 0
    BY <1>3 DEF PumpDirect
  <2> HIDE DEF m
  <2>3. DueCredit' = m
    BY <2>2 DEF DueCredit, StagedDirect
  <2>4. RegionBytes(dir_sent, DueCredit)' = RegionBytes(dir_pos, m)
    BY <2>1, <2>3 DEF RegionBytes
  <2> QED BY <1>c, <2>1, <2>2, <2>4 DEF NoRegionNoCredit, WindowsHoldTheRegion
<1>4. CASE PumpRing(avail, <<>>, 0)
  <2>1. tx_stage' = <<0>> /\ tx_pipe_outstanding' = 0
    BY <1>4 DEF PumpRing, RingCredit
  <2> QED BY <1>1, <2>1 DEF DueCredit, StagedDirect
<1>5. CASE \/ PumpHold(avail, <<>>, 0) \/ PumpZlp(avail, <<>>, 0)
           \/ PumpPark(avail, <<>>, 0)
  <2>1. tx_stage' = <<>> /\ tx_pipe_outstanding' = 0
    BY <1>5 DEF PumpHold, PumpZlp, PumpPark
  <2> QED BY <1>1, <2>1 DEF DueCredit, StagedDirect
<1> QED BY <1>2, <1>3, <1>4, <1>5 DEF TxPump

LEMMA DeliveryUnseen ==
  ASSUME RegionDelivery, fg = "IN" <=> fg' = "IN",
         UNCHANGED <<dir_on, dir_tok, dir_sent, tx_pipe_outstanding, tx_stage,
                     win, T_LEN, T_TOG, host>>
  PROVE  RegionDelivery'
<1>1. DueCredit' = DueCredit
  BY DEF DueCredit, StagedDirect
<1>2. FirstPacket' = FirstPacket /\ SecondPacket' = SecondPacket
  BY DEF FirstPacket, SecondPacket, OtherWindow
<1>3. /\ RegionBytes(dir_sent, DueCredit)' = RegionBytes(dir_sent, DueCredit)
      /\ RegionBytes(dir_sent + Pkt, Pkt)' = RegionBytes(dir_sent + Pkt, Pkt)
  BY <1>1 DEF RegionBytes
<1>4. NoRegionNoCredit'
  BY <1>1 DEF RegionDelivery, NoRegionNoCredit
<1>5. CountedIsDelivered'
  BY <1>1 DEF RegionDelivery, CountedIsDelivered, InHost
<1>6. WindowsHoldTheRegion'
  BY <1>1, <1>2, <1>3 DEF RegionDelivery, WindowsHoldTheRegion
<1> QED BY <1>4, <1>5, <1>6 DEF RegionDelivery

LEMMA KickHoldsTheRegion ==
  ASSUME IInv, RegionDelivery, NEW wanted, NEW avail \in Nat,
         KickIf(wanted, avail), dir_on => dir_pos <= avail,
         fg = "IN" <=> fg' = "IN",
         UNCHANGED <<dir_on, dir_tok, dir_sent, T_TOG, host>>
  PROVE  RegionDelivery'
<1>1. CASE ~tx_armed /\ TxPump(avail, tx_stage, tx_pipe_outstanding)
  <2>1. tx_stage = <<>> /\ tx_pipe_outstanding = 0 /\ fg # "IN"
    BY <1>1 DEF IInv, PipeInv, ArmedIsAck
  <2>2. dir_sent \in Nat /\ (dir_on => dir_pos = dir_sent)
    BY <2>1 DEF IInv, TypeOK, ThreadDataOK, Credit, WindowUnits, StagedDirect
  <2>3. dir_on => InHost(dir_pos)
    BY <2>2 DEF RegionDelivery, CountedIsDelivered
  <2>4. ~dir_on => dir_sent = 0
    BY DEF RegionDelivery, NoRegionNoCredit
  <2> QED BY <1>1, <2>1, <2>2, <2>3, <2>4, PumpHoldsTheRegion
<1>2. CASE UNCHANGED pumpVars
  BY <1>2, DeliveryUnseen DEF pumpVars
<1> QED BY <1>1, <1>2 DEF KickIf

(* A completion counts the packet the host has just acknowledged. *)
LEMMA InDonePumpDelivers ==
  ASSUME IInv, RegionDelivery, InDonePump
  PROVE  RegionDelivery'
<1>1. /\ fg = "IN" /\ fg' = "NONE" /\ tx_pipe_outstanding <= 1
      /\ TxPump(dir_avail, <<>>, 0)
      /\ dir_sent' = CreditAfter
      /\ UNCHANGED <<dir_on, dir_tok, T_TOG, host>>
  BY InDoneIs DEF regionVars, hostVars
<1>2. dir_sent \in Nat /\ DueCredit \in Nat /\ dir_pos \in Nat
        /\ tx_pipe_outstanding \in 0..1 /\ dir_avail \in Nat
  <2>1. DueCredit \in Nat
    BY DueCreditType
  <2>2. dir_sent \in Nat /\ dir_pos \in Nat /\ tx_pipe_outstanding \in Nat
          /\ dir_avail \in Nat
    BY DEF IInv, TypeOK, ThreadDataOK, PumpDataOK
  <2> QED BY <1>1, <2>1, <2>2
<1>3. dir_sent' = dir_sent + DueCredit
  BY <1>1, <1>2 DEF CreditAfter, DueCredit, StagedDirect
<1>4. dir_on => dir_pos = dir_sent + DueCredit /\ dir_pos <= dir_avail
  <2> SUFFICES ASSUME dir_on
               PROVE  dir_pos = dir_sent + DueCredit /\ dir_pos <= dir_avail
    OBVIOUS
  <2>1. dir_pos = dir_sent + WindowUnits(tx_pipe_outstanding) + StagedDirect
          /\ dir_pos <= dir_avail
    BY DEF IInv, Credit
  <2>2. CASE tx_pipe_outstanding = 0
    <3>1. DueCredit = StagedDirect /\ WindowUnits(tx_pipe_outstanding) = 0
      BY <2>2 DEF DueCredit, WindowUnits
    <3> QED BY <1>2, <2>1, <3>1
  <2>3. CASE tx_pipe_outstanding = 1
    <3>1. DueCredit = Pkt /\ WindowUnits(tx_pipe_outstanding) = Pkt
      BY <2>3 DEF DueCredit, WindowUnits
    <3>2. StagedDirect = 0
      BY <2>3 DEF StagedDirect, IInv, PipeInv, StageNeverOverruns
    <3> QED BY <1>2, <2>1, <3>1, <3>2
  <2> QED BY <1>2, <2>2, <2>3
<1>5. dir_on => InHost(dir_pos)
  BY <1>1, <1>4 DEF RegionDelivery, CountedIsDelivered
<1>6. ~dir_on => dir_sent' = 0
  BY <1>3 DEF RegionDelivery, NoRegionNoCredit
<1>7. fg' # "IN"
  BY <1>1
<1> QED BY <1>1, <1>2, <1>3, <1>4, <1>5, <1>6, <1>7, PumpHoldsTheRegion

LEMMA InDoneReleaseDelivers ==
  ASSUME IInv, RegionDelivery, PipelineIsTheRegions, InDoneRelease
  PROVE  RegionDelivery'
<1>1. /\ isr = "idle" /\ fg = "IN" /\ fg' = "NONE" /\ tx_pipe_armed
      /\ dir_sent' = CreditAfter
      /\ tx_pipe_outstanding' = OutstandingAfter
      /\ UNCHANGED <<dir_on, dir_tok, T_LEN, win, T_TOG, host>>
  BY DEF InDoneRelease, Serving, regionVars, hostVars
<1>2. tx_pipe_outstanding = 2
  BY <1>1 DEF IInv, PipeInv, PipelineCount
<1>3. dir_on
  BY <1>2 DEF PipelineIsTheRegions
<1>4. tx_pipe_outstanding' = 1 /\ dir_sent' = dir_sent + Pkt
        /\ DueCredit = Pkt /\ DueCredit' = Pkt
  BY <1>1, <1>2 DEF OutstandingAfter, CreditAfter, DueCredit
<1>5. FirstPacket' = FirstPacket
  BY <1>1 DEF FirstPacket
<1>6. RegionBytes(dir_sent, DueCredit)' = RegionBytes(dir_sent + Pkt, Pkt)
  BY <1>1, <1>4 DEF RegionBytes
<1>7. FirstPacket' = RegionBytes(dir_sent, DueCredit)'
  BY <1>1, <1>2, <1>3, <1>5, <1>6 DEF RegionDelivery, WindowsHoldTheRegion
<1>8. InHost(dir_sent)'
  BY <1>1, <1>3, <1>4 DEF RegionDelivery, CountedIsDelivered, InHost
<1>9. WindowsHoldTheRegion'
  BY <1>4, <1>7 DEF WindowsHoldTheRegion
<1>10. CountedIsDelivered'
  BY <1>1, <1>8 DEF CountedIsDelivered
<1>11. NoRegionNoCredit'
  BY <1>1, <1>3 DEF NoRegionNoCredit
<1> QED BY <1>9, <1>10, <1>11 DEF RegionDelivery

LEMMA RefillDelivers ==
  ASSUME IInv, RegionDelivery, PipelineIsTheRegions, RefillWindow
  PROVE  RegionDelivery'
<1>s. TxFacts
  BY TxFactsHold
<1>1. /\ isr = "refill"
      /\ win' = [win EXCEPT ![freed] = RegionBytes(dir_pos, Pkt)]
      /\ tx_pipe_outstanding' = tx_pipe_outstanding + 1
      /\ UNCHANGED <<dir_on, dir_tok, dir_sent, T_LEN, T_TOG, fg, host>>
  BY DEF RefillWindow, regionVars, hostVars
<1>2. tx_pipe_outstanding = 1 /\ tx_pipe_outstanding' = 2 /\ tx_pipe_armed
  BY <1>1 DEF IInv, PipeInv, PipelineCount
<1>3. dir_on /\ T_LEN = Pkt
  BY <1>2 DEF PipelineIsTheRegions
<1>4. DueCredit = Pkt /\ DueCredit' = Pkt
  BY <1>2 DEF DueCredit
<1>5. dir_pos = dir_sent + Pkt /\ dir_pos \in Nat
  <2>1. dir_sent \in Nat /\ Pkt \in Nat
    BY UsbTxAssumption DEF IInv, TypeOK, ThreadDataOK
  <2>2. StagedDirect = 0 /\ WindowUnits(tx_pipe_outstanding) = Pkt
    BY <1>2 DEF WindowUnits, StagedDirect, IInv, PipeInv, StageNeverOverruns
  <2> QED BY <1>3, <2>1, <2>2 DEF IInv, Credit
<1> DEFINE a == RegionBytes(dir_pos, Pkt)
<1>6. SubSeq(a, 1, Pkt) = a
  BY <1>5, <1>s, FullWindowHolds DEF TxFacts
<1>7. RegionBytes(dir_sent + Pkt, Pkt)' = a
  BY <1>1, <1>5 DEF RegionBytes
<1>8. RegionBytes(dir_sent, DueCredit)' = RegionBytes(dir_sent, DueCredit)
  BY <1>1, <1>4 DEF RegionBytes
<1> HIDE DEF a
<1>9. CountedIsDelivered'
  BY <1>1, <1>4 DEF RegionDelivery, CountedIsDelivered, InHost
<1>10. NoRegionNoCredit'
  BY <1>1, <1>3 DEF NoRegionNoCredit
<1>11. CASE fg = "IN"
  <2>1. freed = T_TOG
    BY <1>1, <1>11 DEF IInv, PipeInv, RefillsTheFreedWindow
  <2>2. win'[T_TOG] = a
    BY <1>1, <1>s, <2>1 DEF TxFacts, a
  <2>3. FirstPacket' = a
    BY <1>1, <1>3, <1>6, <2>2 DEF FirstPacket
  <2>4. WindowsHoldTheRegion'
    BY <1>1, <1>7, <1>11, <2>3 DEF WindowsHoldTheRegion
  <2> QED BY <1>9, <1>10, <2>4 DEF RegionDelivery
<1>12. CASE fg # "IN"
  <2>1. freed = OtherWindow(T_TOG)
    BY <1>1, <1>12 DEF IInv, PipeInv, RefillsTheFreedWindow
  <2>2. win'[OtherWindow(T_TOG)] = a /\ win'[T_TOG] = win[T_TOG]
    BY <1>1, <1>s, <2>1 DEF TxFacts, a
  <2>3. FirstPacket' = FirstPacket
    BY <1>1, <2>2 DEF FirstPacket
  <2>4. SecondPacket' = a
    <3>1. OtherWindow(T_TOG)' = OtherWindow(T_TOG) BY <1>1 DEF OtherWindow
    <3> QED BY <1>1, <1>3, <1>6, <2>2, <3>1 DEF SecondPacket
  <2>5. DueCredit # 0
    BY <1>4, UsbTxAssumption
  <2>6. FirstPacket = RegionBytes(dir_sent, DueCredit)
    BY <1>3, <1>12, <2>5 DEF RegionDelivery, WindowsHoldTheRegion
  <2>7. WindowsHoldTheRegion'
    BY <1>1, <1>7, <1>8, <1>12, <2>3, <2>4, <2>6 DEF WindowsHoldTheRegion
  <2> QED BY <1>9, <1>10, <2>7 DEF RegionDelivery
<1> QED BY <1>11, <1>12

(* What the SIE takes is what its completion will count. *)
LEMMA SieInDelivers ==
  ASSUME IInv, RegionDelivery, SieIn
  PROVE  RegionDelivery'
<1>s. OwedSplit /\ TxFacts /\ DueCredit \in Nat /\ dir_sent \in Nat
  BY OwedSplits, TxFactsHold, DueCreditType DEF IInv, TypeOK, ThreadDataOK
<1>1. /\ fg = "NONE" /\ fg' = "IN"
      /\ host' = host \o FirstPacket
      /\ T_TOG' = OtherWindow(T_TOG)
      /\ UNCHANGED <<dir_on, dir_tok, dir_sent, tx_pipe_outstanding, tx_stage,
                     T_LEN, win>>
  BY DEF SieIn, FirstPacket, regionVars, pumpVars
<1>2. DueCredit' = DueCredit
  BY <1>1 DEF DueCredit, StagedDirect
<1>3. FirstPacket' = SecondPacket
  BY <1>1 DEF FirstPacket, SecondPacket
<1>4. RegionBytes(dir_sent + Pkt, Pkt)' = RegionBytes(dir_sent + Pkt, Pkt)
  BY <1>1 DEF RegionBytes
<1>5. WindowsHoldTheRegion'
  BY <1>1, <1>3, <1>4 DEF RegionDelivery, WindowsHoldTheRegion
<1>6. NoRegionNoCredit'
  BY <1>1, <1>2 DEF RegionDelivery, NoRegionNoCredit
<1>7. CountedIsDelivered'
  <2> SUFFICES ASSUME dir_on
               PROVE  InHost(dir_sent)' /\ InHost(dir_sent + DueCredit)'
    BY <1>1 DEF CountedIsDelivered
  <2>1. InHost(dir_sent)
    BY DEF RegionDelivery, CountedIsDelivered
  <2>2. ASSUME NEW n \in Nat, InHost(n), n = dir_sent PROVE InHost(n)'
    BY <1>1, <1>s, <2>2, HostKeeps DEF OwedSplit, TxFacts
  <2>3. InHost(dir_sent)'
    BY <1>1, <1>s, <2>1, <2>2 DEF InHost
  <2>4. CASE DueCredit = 0
    BY <1>1, <1>2, <1>s, <2>3, <2>4 DEF InHost
  <2>5. CASE DueCredit # 0
    <3>1. FirstPacket = RegionBytes(dir_sent, DueCredit)
      BY <1>1, <2>5 DEF RegionDelivery, WindowsHoldTheRegion
    <3>2. ASSUME NEW n \in Nat, NEW m \in Nat, InHost(n),
                 FirstPacket = RegionBytes(n, m)
          PROVE  InHost(n + m)'
      BY <1>1, <1>s, <3>2, HostGains DEF TxFacts
    <3>3. PICK n \in Nat, m \in Nat : n = dir_sent /\ m = DueCredit
      BY <1>s
    <3>4. InHost(n + m)'
      BY <2>1, <3>1, <3>2, <3>3
    <3>5. InHost(dir_sent + DueCredit)'
      BY <1>1, <1>2, <3>3, <3>4 DEF InHost
    <3> QED BY <2>3, <3>5
  <2> QED BY <2>4, <2>5
<1> QED BY <1>5, <1>6, <1>7 DEF RegionDelivery

LEMMA InitDelivers == Init => DeliveryInv
<1> SUFFICES ASSUME Init PROVE DeliveryInv
  OBVIOUS
<1>1. ~dir_on /\ dir_sent = 0 /\ DueCredit = 0 /\ pc # "read"
  BY DEF Init, DueCredit, StagedDirect
<1> QED BY <1>1 DEF DeliveryInv, RegionDelivery, NoRegionNoCredit,
           CountedIsDelivered, WindowsHoldTheRegion, ReadsSomething

LEMMA NextDelivers ==
  ASSUME StreamInv, DeliveryInv, [Next]_vars
  PROVE  DeliveryInv'
<1> USE DEF StreamInv
<1>s. TxFacts /\ RegionDelivery
  BY TxFactsHold DEF DeliveryInv
<1>r. ReadsSomething'
  <2>1. CASE BeginRegion
    BY <2>1, UsbTxAssumption DEF BeginRegion, ReadsSomething
  <2>2. CASE ~BeginRegion
    <3>1. len' = len /\ (pc' = "read" => pc = "read")
      BY <2>2 DEF Next, Thread, Handler, Environment, vars, threadVars, Publish,
         Republish, EndRegion, StallEnd, BeginReply, QueueChunk, QueueKick,
         AbandonReply, InDonePump, InDoneRelease, RefillWindow, WindDown,
         OtherDone, IdlePoll, PumpsOnly, SessionFlush, BusReset, FlushTx,
         SieIn, SieOther, HostToggles
    <3> QED BY <3>1 DEF DeliveryInv, ReadsSomething
  <2> QED BY <2>1, <2>2
<1>1. CASE BeginRegion
  <2>1. /\ dir_on' /\ dir_sent' = 0 /\ tx_pipe_outstanding' = 0
        /\ tx_stage' = <<>> /\ dir_tok' = made
    BY <1>1 DEF BeginRegion, ForgetPipeline
  <2>2. DueCredit' = 0
    BY <2>1 DEF DueCredit, StagedDirect
  <2>3. \A n \in {0} : \A t \in made + 1 .. made + n : FALSE
    BY <1>s DEF TxFacts
  <2>4. InHost(dir_sent)' /\ InHost(dir_sent + DueCredit)'
    BY <2>1, <2>2, <2>3 DEF InHost
  <2>5. RegionDelivery'
    BY <2>1, <2>2, <2>4 DEF RegionDelivery, NoRegionNoCredit,
       CountedIsDelivered, WindowsHoldTheRegion
  <2> QED BY <1>r, <2>5 DEF DeliveryInv
<1>2. CASE Publish \/ Republish
  <2>1. \E a \in Nat : PublishUpTo(a) /\ off <= a
    <3>1. CASE Publish
      <4>1. MinOf(off + grain, len) \in Nat /\ off <= MinOf(off + grain, len)
        BY <3>1 DEF Publish, MinOf, IInv, TypeOK, ThreadDataOK
      <4> QED BY <3>1, <4>1 DEF Publish
    <3>2. CASE Republish
      <4>1. off \in Nat BY DEF IInv, TypeOK, ThreadDataOK
      <4> QED BY <3>2, <4>1 DEF Republish
    <3> QED BY <1>2, <3>1, <3>2
  <2>2. PICK a \in Nat : PublishUpTo(a) /\ off <= a BY <2>1
  <2>3. /\ KickIf(DirectReady(a) # 0, a)
        /\ UNCHANGED <<dir_on, dir_tok, dir_sent, T_TOG, host, fg>>
    BY <2>2 DEF PublishUpTo, isrVars, hostVars
  <2>4. dir_on => dir_pos <= a
    <3>1. dir_on => dir_pos <= off BY DEF IInv, RegionIsTheReads, Credit
    <3>2. dir_pos \in Nat /\ off \in Nat
      BY DEF IInv, TypeOK, ThreadDataOK, PumpDataOK
    <3> QED BY <2>2, <3>1, <3>2
  <2>5. RegionDelivery'
    BY <1>s, <2>3, <2>4, KickHoldsTheRegion
  <2> QED BY <1>r, <2>5 DEF DeliveryInv
<1>3. CASE QueueKick \/ OtherDone \/ IdlePoll
  <2>1. /\ \E w : KickIf(w, dir_avail)
        /\ UNCHANGED <<dir_on, dir_tok, dir_sent, T_TOG, host>>
        /\ fg = "IN" <=> fg' = "IN"
    BY <1>3 DEF QueueKick, OtherDone, IdlePoll, PumpsOnly, Serving,
                regionVars, isrVars, hostVars
  <2>2. dir_avail \in Nat /\ (dir_on => dir_pos <= dir_avail)
    BY <1>s DEF TxFacts
  <2>3. RegionDelivery'
    BY <1>s, <2>1, <2>2, KickHoldsTheRegion
  <2> QED BY <1>r, <2>3 DEF DeliveryInv
<1>4. CASE EndRegion \/ StallEnd \/ SessionFlush \/ BusReset
  <2>1. /\ ~dir_on' /\ dir_sent' = 0 /\ tx_pipe_outstanding' = 0
        /\ tx_stage' = <<>>
    BY <1>4 DEF EndRegion, StallEnd, SessionFlush, BusReset, FlushTx,
                WithdrawRegion, ForgetPipeline
  <2>2. RegionDelivery'
    BY <2>1 DEF RegionDelivery, NoRegionNoCredit, CountedIsDelivered,
       WindowsHoldTheRegion, DueCredit, StagedDirect
  <2> QED BY <1>r, <2>2 DEF DeliveryInv
<1>5. CASE WindDown \/ BeginReply \/ QueueChunk \/ AbandonReply \/ SieOther
           \/ HostToggles \/ UNCHANGED vars
  <2>1. UNCHANGED <<dir_on, dir_tok, dir_sent, tx_pipe_outstanding, tx_stage,
                    win, T_LEN, T_TOG, host>>
    BY <1>5 DEF WindDown, BeginReply, QueueChunk, AbandonReply, SieOther,
                HostToggles, vars, regionVars, pumpVars, hostVars
  <2>2. fg = "IN" <=> fg' = "IN"
    BY <1>5 DEF WindDown, BeginReply, QueueChunk, AbandonReply, SieOther,
                HostToggles, vars, isrVars
  <2>3. RegionDelivery'
    BY <1>s, <2>1, <2>2, DeliveryUnseen
  <2> QED BY <1>r, <2>3 DEF DeliveryInv
<1>6. CASE InDonePump \/ InDoneRelease \/ RefillWindow \/ SieIn
  <2>1. RegionDelivery'
    BY <1>6, <1>s, InDonePumpDelivers, InDoneReleaseDelivers, RefillDelivers,
       SieInDelivers
  <2> QED BY <1>r, <2>1 DEF DeliveryInv
<1> QED BY <1>1, <1>2, <1>3, <1>4, <1>5, <1>6
        DEF Next, Thread, Handler, Environment

(* The end of the drain loop: the credit has reached the total. *)
LEMMA EndFindsAllDelivered ==
  ASSUME IInv, DeliveryInv, EndRegion
  PROVE  \A t \in dir_tok + 1 .. dir_tok + len :
           \E i \in 1..Len(host) : host[i] = t
<1>1. pc = "read" /\ dir_sent >= len
  BY DEF EndRegion, Drained
<1>2. dir_tok \in Nat /\ len \in Nat /\ dir_sent \in Nat
  BY DEF IInv, TypeOK, ThreadDataOK
<1>3. dir_on
  <2>1. len > 0 BY <1>1 DEF DeliveryInv, ReadsSomething
  <2>2. dir_sent # 0 BY <1>1, <1>2, <2>1
  <2> QED BY <2>2 DEF DeliveryInv, RegionDelivery, NoRegionNoCredit
<1>4. InHost(dir_sent)
  BY <1>3 DEF DeliveryInv, RegionDelivery, CountedIsDelivered
<1>5. \A t \in dir_tok + 1 .. dir_tok + len : t \in dir_tok + 1 .. dir_tok + dir_sent
  BY <1>1, <1>2
<1> QED BY <1>4, <1>5 DEF InHost

(* A read ends as drained only with all its bytes in the host's hands,      *)
(* aligned or not: tx_dir_sent_n counts a window when its completion is     *)
(* served, and what a completion counts is what the SIE took.               *)
THEOREM FinishedMeansDelivered == Spec => FinishedIsDelivered
<1> DEFINE J == StreamInv /\ DeliveryInv
           Delivered == \A t \in dir_tok + 1 .. dir_tok + len :
                          \E i \in 1..Len(host) : host[i] = t
<1>1. Init => J
  BY InitStream, InitDelivers
<1>2. J /\ [Next]_vars => J'
  BY NextStream, NextDelivers
<1>3. J /\ [Next]_vars => [EndRegion => Delivered]_vars
  BY EndFindsAllDelivered DEF StreamInv
<1> HIDE DEF J
<1>4. Spec => [][EndRegion => Delivered]_vars
  BY <1>1, <1>2, <1>3, PTL DEF Spec
<1> QED BY <1>4 DEF FinishedIsDelivered

-----------------------------------------------------------------------------
(* The packet the SIE sends next.                                           *)

(* What the host has, with what it is still owed. *)
Passed == host \o Owed

(* It never runs backwards, and holds only what was produced. *)
InOrder ==
  /\ Owed \in Seq(Nat)
  /\ \A i \in 1..Len(Passed) : Passed[i] \in 1..made
  /\ \A i, j \in 1..Len(Passed) : i < j => Passed[i] < Passed[j]

(* A stream that keeps its places keeps its order, and so does one with new *)
(* bytes behind it.                                                         *)
LEMMA PlacesKeepOrder ==
  ASSUME InOrder, Owed' \in Seq(Nat), made' = made,
         Len(Passed') <= Len(Passed), Len(Passed') \in Nat, Len(Passed) \in Nat,
         \A i \in 1..Len(Passed') : Passed'[i] = Passed[i]
  PROVE  InOrder'
<1>1. \A i \in 1..Len(Passed') : i \in 1..Len(Passed)
  OBVIOUS
<1>2. \A i \in 1..Len(Passed') : Passed'[i] \in 1..made'
  BY <1>1 DEF InOrder
<1>3. \A i, j \in 1..Len(Passed') : i < j => Passed'[i] < Passed'[j]
  BY <1>1 DEF InOrder
<1> QED BY <1>2, <1>3 DEF InOrder

LEMMA NewBytesKeepOrder ==
  ASSUME InOrder, Owed' \in Seq(Nat), made \in Nat, Len(Passed) \in Nat,
         NEW n \in Nat, made' = made + n, Len(Passed') = Len(Passed) + n,
         \A i \in 1..Len(Passed') :
           Passed'[i] = IF i <= Len(Passed) THEN Passed[i]
                                            ELSE made + (i - Len(Passed))
  PROVE  InOrder'
<1> DEFINE l == Len(Passed)
<1>1. ASSUME NEW i \in 1..Len(Passed')
      PROVE  \/ i \in 1..l /\ Passed'[i] = Passed[i]
             \/ i > l /\ i - l \in 1..n /\ Passed'[i] = made + (i - l)
  OBVIOUS
<1>2. \A i \in 1..l : Passed[i] \in 1..made
  BY DEF InOrder
<1>3. \A i, j \in 1..l : i < j => Passed[i] < Passed[j]
  BY DEF InOrder
<1>4. l \in Nat /\ Len(Passed') \in Nat
  OBVIOUS
<1> HIDE DEF l
<1>5. ASSUME NEW i \in 1..Len(Passed')
      PROVE  Passed'[i] \in 1..made'
  <2>1. CASE i \in 1..l /\ Passed'[i] = Passed[i]
    <3>1. Passed[i] \in 1..made BY <1>2, <2>1
    <3> QED BY <2>1, <3>1
  <2>2. CASE i > l /\ i - l \in 1..n /\ Passed'[i] = made + (i - l)
    BY <2>2
  <2> QED BY <1>1, <2>1, <2>2
<1>6. ASSUME NEW i \in 1..Len(Passed'), NEW j \in 1..Len(Passed'), i < j
      PROVE  Passed'[i] < Passed'[j]
  <2>1. CASE j \in 1..l /\ Passed'[j] = Passed[j]
    <3>1. i \in 1..l /\ Passed'[i] = Passed[i]
      BY <1>1, <1>4, <1>6, <2>1
    <3> QED BY <1>3, <1>6, <2>1, <3>1
  <2>2. CASE j > l /\ j - l \in 1..n /\ Passed'[j] = made + (j - l)
    <3>1. CASE i \in 1..l /\ Passed'[i] = Passed[i]
      <4>1. Passed[i] \in 1..made BY <1>2, <3>1
      <4> QED BY <1>4, <2>2, <3>1, <4>1
    <3>2. CASE i > l /\ i - l \in 1..n /\ Passed'[i] = made + (i - l)
      BY <1>4, <1>6, <2>2, <3>2
    <3> QED BY <1>1, <3>1, <3>2
  <2> QED BY <1>1, <2>1, <2>2
<1> QED BY <1>5, <1>6 DEF InOrder

(* A step of the stream keeps the order: new bytes come last, a delivery    *)
(* moves the boundary between host and queue, a withdrawal cuts the end.    *)
LEMMA StreamKeepsOrder ==
  ASSUME InOrder, host \in Seq(Nat), made \in Nat, Abstract
  PROVE  InOrder'
<1>t. /\ Owed \in Seq(Nat) /\ Len(host) \in Nat /\ Len(Owed) \in Nat
      /\ Passed \in Seq(Nat) /\ Len(Passed) = Len(host) + Len(Owed)
      /\ \A i \in 1..Len(host) + Len(Owed) :
           Passed[i] = IF i <= Len(host) THEN host[i] ELSE Owed[i - Len(host)]
  <2>1. Owed \in Seq(Nat) BY DEF InOrder
  <2> QED BY <2>1, ConcatProperties, LenProperties DEF Passed
<1>1. CASE UNCHANGED Stream!streamVars
  BY <1>1 DEF Stream!streamVars, InOrder, Passed
<1>2. CASE Stream!Produce
  <2> DEFINE n == made' - made
             new == [i \in 1..n |-> made + i]
  <2>1. n \in Nat /\ made' = made + n /\ Owed' = Owed \o new /\ host' = host
    <3>1. Owed' = Owed \o new /\ host' = host
      BY <1>2 DEF Stream!Produce
    <3>2. made' \in Nat /\ made' > made
      BY <1>2 DEF Stream!Produce
    <3>3. \A p, q \in Nat : p > q => p - q \in Nat /\ p = q + (p - q)
      OBVIOUS
    <3>4. n \in Nat /\ made' = made + n
      BY <3>2, <3>3, Zenon
    <3> QED BY <3>1, <3>3, <3>4
  <2> HIDE DEF n
  <2>2. new \in Seq(Nat) /\ Len(new) = n /\ \A i \in 1..n : new[i] = made + i
    <3>1. \A i \in 1..n : made + i \in Nat BY <2>1
    <3> QED BY <2>1, <3>1
  <2> HIDE DEF new
  <2>3. Owed' \in Seq(Nat)
    BY <1>t, <2>1, <2>2, ConcatProperties
  <2>4. Passed' = Passed \o new
    <3>1. (host \o Owed) \o new = host \o (Owed \o new)
      BY <1>t, <2>2, JoinAssociates
    <3> QED BY <2>1, <3>1 DEF Passed
  <2>5. /\ Len(Passed') = Len(Passed) + n /\ Len(Passed) \in Nat
        /\ \A i \in 1..Len(Passed) + n :
             Passed'[i] = IF i <= Len(Passed) THEN Passed[i]
                                              ELSE new[i - Len(Passed)]
    BY <1>t, <2>2, <2>4, ConcatProperties, LenProperties
  <2>6. \A i \in 1..Len(Passed') :
          Passed'[i] = IF i <= Len(Passed) THEN Passed[i]
                                           ELSE made + (i - Len(Passed))
    <3> SUFFICES ASSUME NEW i \in 1..Len(Passed'), i > Len(Passed)
                 PROVE  Passed'[i] = made + (i - Len(Passed))
      BY <2>5
    <3>1. i - Len(Passed) \in 1..n BY <2>1, <2>5
    <3> QED BY <2>2, <2>5, <3>1
  <2> QED BY <2>1, <2>3, <2>5, <2>6, NewBytesKeepOrder
<1>3. CASE Stream!Deliver
  <2>1. PICK k \in 1..Len(Owed) :
          /\ host' = host \o SubSeq(Owed, 1, k)
          /\ Owed' = SubSeq(Owed, k + 1, Len(Owed))
          /\ made' = made
    BY <1>3 DEF Stream!Deliver
  <2> DEFINE a == SubSeq(Owed, 1, k)
             b == SubSeq(Owed, k + 1, Len(Owed))
  <2>2. a \in Seq(Nat) /\ b \in Seq(Nat)
    <3>1. \A i \in 1..Len(Owed) : Owed[i] \in Nat
      BY <1>t, ElementOfSeq
    <3>2. /\ \A i \in 1..k : Owed[i] \in Nat
          /\ \A i \in k + 1..Len(Owed) : Owed[i] \in Nat
      BY <1>t, <3>1
    <3> QED BY <1>t, <3>2, SubSeqProperties
  <2>3. a \o b = Owed
    <3>1. /\ 1 \in 1..Len(Owed) + 1 /\ k \in 1 - 1 .. Len(Owed)
          /\ Len(Owed) \in k..Len(Owed)
      BY <1>t
    <3>2. a \o b = SubSeq(Owed, 1, Len(Owed))
      BY <1>t, <3>1, ConcatAdjacentSubSeq
    <3> QED BY <1>t, <3>2, SubSeqFull
  <2> HIDE DEF a, b
  <2>4. (host \o a) \o b = host \o (a \o b)
    BY <2>2, JoinAssociates
  <2>5. Passed' = Passed
    BY <2>1, <2>3, <2>4 DEF Passed, a, b
  <2>6. Owed' \in Seq(Nat)
    BY <2>1, <2>2 DEF b
  <2> QED BY <1>t, <2>1, <2>5, <2>6, PlacesKeepOrder
<1>4. CASE Stream!Withdraw
  <2>1. PICK k \in 0..Len(Owed) :
          Owed' = SubSeq(Owed, 1, k) /\ made' = made /\ host' = host
    BY <1>4 DEF Stream!Withdraw
  <2> DEFINE a == SubSeq(Owed, 1, k)
  <2>2. a \in Seq(Nat) /\ Len(a) = k /\ \A i \in 1..k : a[i] = Owed[i]
    <3>1. \A i \in 1..k : Owed[i] \in Nat
      BY <1>t, ElementOfSeq
    <3> QED BY <1>t, <3>1, SubSeqProperties
  <2> HIDE DEF a
  <2>3. Owed' = a /\ Passed' = host \o a
    BY <2>1 DEF Passed, a
  <2>4. /\ Len(Passed') = Len(host) + k
        /\ \A i \in 1..Len(host) + k :
             Passed'[i] = IF i <= Len(host) THEN host[i] ELSE a[i - Len(host)]
    <3>1. /\ Len(host \o a) = Len(host) + Len(a)
          /\ \A i \in 1..Len(host) + Len(a) :
               (host \o a)[i]
                 = IF i <= Len(host) THEN host[i] ELSE a[i - Len(host)]
      BY <2>2, ConcatProperties
    <3> QED BY <2>2, <2>3, <3>1
  <2>5. ASSUME NEW i \in 1..Len(Passed') PROVE Passed'[i] = Passed[i]
    <3>0. i \in 1..Len(host) + k /\ i \in 1..Len(host) + Len(Owed)
      BY <1>t, <2>4
    <3>1. CASE i <= Len(host)
      BY <1>t, <2>4, <3>0, <3>1
    <3>2. CASE i > Len(host)
      <4>1. i - Len(host) \in 1..k BY <1>t, <3>0, <3>2
      <4>2. a[i - Len(host)] = Owed[i - Len(host)] BY <2>2, <4>1
      <4> QED BY <1>t, <2>4, <3>0, <3>2, <4>2
    <3> QED BY <1>t, <3>0, <3>1, <3>2
  <2>6. Len(Passed') <= Len(Passed) /\ Len(Passed') \in Nat
    BY <1>t, <2>4
  <2>7. Owed' \in Seq(Nat) /\ made' = made /\ Len(Passed) \in Nat
    <3>1. Owed' \in Seq(Nat) BY <2>2, <2>3
    <3>2. Len(Passed) \in Nat BY <1>t
    <3> QED BY <2>1, <3>1, <3>2
  <2>8. \A i \in 1..Len(Passed') : Passed'[i] = Passed[i]
    BY <2>5
  <2> QED BY <2>6, <2>7, <2>8, PlacesKeepOrder
<1> QED BY <1>1, <1>2, <1>3, <1>4 DEF Abstract, Stream!Next

(* A data packet starts with the byte behind the last one the host has. *)
LEMMA SieInIsFresh ==
  ASSUME IInv, InOrder, SieIn, T_LEN > 0
  PROVE  win[T_TOG][1] > LastSent
<1>s. FlightSplit /\ OwedSplit /\ TxFacts
  BY FlightSplits, OwedSplits, TxFactsHold
<1>1. tx_armed /\ fg = "NONE"
  BY DEF SieIn, IInv, PipeInv, ArmedIsAck
<1>2. Unsent \in {1, 2}
  BY <1>1, <1>s DEF Unsent, TxFacts
<1>3. PICK rest \in Seq(Nat) : Owed = FirstPacket \o rest
  <2>1. SecondPacket \o Unpumped \in Seq(Nat) /\ Unpumped \in Seq(Nat)
    BY <1>s, ConcatProperties DEF OwedSplit
  <2> QED BY <1>2, <1>s, <2>1 DEF OwedSplit
<1>4. FirstPacket \in Seq(Nat) /\ Len(FirstPacket) = T_LEN /\ T_LEN \in 1..Pkt
  BY <1>s DEF OwedSplit, IInv, TypeOK, PumpDataOK, Units
<1>5. FirstPacket[1] = win[T_TOG][1]
  <2>1. win[T_TOG] \in [1..Pkt -> Nat] /\ T_LEN \in 0..Pkt /\ 1 \in 1..T_LEN
    BY <1>4, <1>s, UsbTxAssumption DEF TxFacts
  <2> QED BY <2>1, PacketIs DEF FirstPacket
<1>6. Owed[1] = FirstPacket[1] /\ Len(Owed) \in Nat /\ Len(Owed) > 0
        /\ Owed \in Seq(Nat)
  <2>1. /\ Len(Owed) = Len(FirstPacket) + Len(rest) /\ Owed \in Seq(Nat)
        /\ Len(rest) \in Nat
        /\ \A i \in 1..Len(FirstPacket) + Len(rest) :
             Owed[i] = IF i <= Len(FirstPacket) THEN FirstPacket[i]
                                       ELSE rest[i - Len(FirstPacket)]
    BY <1>3, <1>4, ConcatProperties, LenProperties
  <2> QED BY <1>4, <2>1, UsbTxAssumption
<1>7. host \in Seq(Nat) /\ Len(host) \in Nat
  BY <1>s, LenProperties DEF TxFacts
<1>8. /\ Len(Passed) = Len(host) + Len(Owed)
      /\ \A i \in 1..Len(host) + Len(Owed) :
           Passed[i] = IF i <= Len(host) THEN host[i] ELSE Owed[i - Len(host)]
  BY <1>6, <1>7, ConcatProperties DEF Passed
<1>9. Passed[Len(host) + 1] = Owed[1] /\ Len(host) + 1 \in 1..Len(Passed)
  <2>1. Len(host) + 1 \in 1..Len(host) + Len(Owed)
          /\ ~(Len(host) + 1 <= Len(host)) /\ (Len(host) + 1) - Len(host) = 1
    BY <1>6, <1>7
  <2> QED BY <1>8, <2>1
<1>10. CASE host = <<>>
  <2>1. Passed[Len(host) + 1] \in 1..made BY <1>9 DEF InOrder
  <2> QED BY <1>5, <1>6, <1>9, <1>10, <2>1 DEF LastSent
<1>11. CASE host # <<>>
  <2>1. Len(host) \in 1..Len(Passed) /\ Len(host) < Len(host) + 1
    <3>1. Len(host) # 0 BY <1>7, <1>11, EmptySeq
    <3> QED BY <1>6, <1>7, <1>8, <3>1
  <2>2. Passed[Len(host)] = host[Len(host)]
    BY <1>7, <1>8, <2>1
  <2>3. Passed[Len(host)] < Passed[Len(host) + 1]
    BY <1>9, <2>1 DEF InOrder
  <2>4. Passed[Len(host)] \in Int /\ Passed[Len(host) + 1] \in Int
    BY <1>9, <2>1 DEF InOrder
  <2> QED BY <1>5, <1>6, <1>9, <1>11, <2>2, <2>3, <2>4 DEF LastSent
<1> QED BY <1>10, <1>11

LEMMA InitInOrder == Init => InOrder
<1> SUFFICES ASSUME Init PROVE InOrder
  OBVIOUS
<1>1. host = <<>> /\ Owed = <<>>
  BY InitIsAbstract DEF Stream!Init
<1>2. Passed = <<>> /\ Owed \in Seq(Nat)
  BY <1>1 DEF Passed
<1> QED BY <1>2 DEF InOrder

(* "Never clear the flag unless the window the SIE sends next already holds *)
(* valid bytes": with publishes on packet boundaries it never is.  The run  *)
(* that violates this property has a latch group of one and a half packets, *)
(* and that alignment is all it lacks.                                      *)
THEOREM AlignedIsNeverStale ==
  ASSUME AlignedGrains
  PROVE  Spec => NoStaleWindow
<1> DEFINE J == StreamInv /\ OnPackets
           K == J /\ InOrder
           Fresh == SieIn /\ T_LEN > 0 => win[T_TOG][1] > LastSent
<1>1. Init => J
  BY InitStream, InitOnPackets
<1>2. J /\ [Next]_vars => J'
  BY NextStream, NextOnPackets DEF StreamInv
<1>3. J /\ J' /\ [Next]_vars => Abstract
  BY NextIsAbstract DEF StreamInv
<1>4. J => host \in Seq(Nat) /\ made \in Nat
  BY TxFactsHold DEF StreamInv, TxFacts
<1>5. J /\ InOrder => [Fresh]_vars
  BY SieInIsFresh DEF StreamInv
<1> HIDE DEF J
<1>6. Init => K
  BY <1>1, InitInOrder
<1>7. K /\ [Next]_vars => K'
  BY <1>2, <1>3, <1>4, StreamKeepsOrder
<1> HIDE DEF K
<1>8. K => [Fresh]_vars
  BY <1>5 DEF K
<1>9. Spec => [][Fresh]_vars
  BY <1>6, <1>7, <1>8, PTL DEF Spec
<1> QED BY <1>9 DEF NoStaleWindow
=============================================================================
